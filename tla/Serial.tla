------------------------------- MODULE Serial -------------------------------
(***************************************************************************)
(* One Serial16450 (src/src/hardware/Serial.cpp): a 16450 UART whose line  *)
(* is a unix-socket server.  Three parties touch its state:                *)
(*   - the vCPU thread, through iowrite8/ioread8 (the guest's accesses);   *)
(*   - the event-loop thread, through the handlers start() registers;      *)
(*   - the terminals at the other end of the sockets, through the kernel.  *)
(* Every handler and every register access runs wholly under mMutex, so    *)
(* each is one atomic action; what happens between epoll_wait returning an *)
(* event and the handler taking the mutex is a separate step, because the  *)
(* guest can get in between.                                               *)
(*                                                                         *)
(* A direction is named by the epoll event that serves it: EPOLLIN is the  *)
(* receiver (readTimer), EPOLLOUT the transmitter (writeTimer).  Bytes are *)
(* counted, not valued.                                                    *)
(***************************************************************************)
EXTENDS Integers

CONSTANTS
  MaxClients,            \* how many terminals ever connect to the port
  InCap,                 \* bytes a terminal can have in flight to the port
  OutCap,                \* bytes the port can have in flight to a terminal
  DivisorLowBytes,       \* values the guest writes to the divisor latch
  DivisorHighBytes,
  GuestProgramsDivisor,  \* guest touches data only with a usable divisor
  GuestChecksStatus,     \* guest touches data only when LSR says it may
  GuestIER,              \* how the guest writes the interrupt enables: "never"
                         \* (it polls), "once" (it does not set the
                         \* transmitter's bit when it is set), or "any"
  MayHangUp              \* terminals may close their end

ASSUME SerialAssumption ==
  /\ MaxClients \in Nat \ {0}
  /\ InCap \in Nat \ {0}
  /\ OutCap \in Nat \ {0}
  /\ DivisorLowBytes \subseteq 0..255
  /\ DivisorHighBytes \subseteq 0..255
  /\ GuestProgramsDivisor \in BOOLEAN
  /\ GuestChecksStatus \in BOOLEAN
  /\ GuestIER \in {"never", "once", "any"}
  /\ MayHangUp \in BOOLEAN

EPOLLIN  == "EPOLLIN"
EPOLLOUT == "EPOLLOUT"
Directions == {EPOLLIN, EPOLLOUT}
Clients == 1..MaxClients       \* in the order of their descriptors
NoClient == 0

VARIABLES
  readable, writable,                          \* the LSR bits DR and THRE
  readInterruptFlag, writeInterruptFlag,       \* conditions pending in IIR
  readInterruptEnabled, writeInterruptEnabled, \* IER bits 0 and 1
  dlab,          \* bit 7 of lineControl: data port addresses the divisor
  divisorLow, divisorHigh,  \* bytes 0 and 1 of the 16-bit divisor
  mEventFlags,   \* directions the port currently listens for
  interest,      \* what epoll has registered for each client descriptor
  accepted,      \* fds.clients is 1..accepted: descriptors only ever grow
  timer,         \* timer[EPOLLIN] is readTimer, timer[EPOLLOUT] is writeTimer
  irqfd,         \* the irq eventfd has been written and KVM has not read it
  pc, fd, events,                   \* event-loop thread: event in hand
  connecting, hup, unread, queued,  \* kernel: backlog, closed peers, buffers
  alive                             \* FALSE once SIGPIPE killed the process

registers == <<readable, writable, readInterruptFlag, writeInterruptFlag,
               readInterruptEnabled, writeInterruptEnabled>>
latch     == <<dlab, divisorLow, divisorHigh>>
loopVars  == <<mEventFlags, interest, accepted>>
hand      == <<pc, fd, events>>
sockets   == <<connecting, hup, unread, queued>>
vars == <<registers, latch, loopVars, timer, irqfd, hand, sockets, alive>>

clients == 1..accepted

FlagsTypeOK ==
  /\ readable \in BOOLEAN /\ writable \in BOOLEAN
  /\ readInterruptFlag \in BOOLEAN /\ writeInterruptFlag \in BOOLEAN
  /\ readInterruptEnabled \in BOOLEAN /\ writeInterruptEnabled \in BOOLEAN
  /\ dlab \in BOOLEAN
  /\ irqfd \in BOOLEAN
  /\ connecting \in BOOLEAN
  /\ alive \in BOOLEAN

DataTypeOK ==
  /\ divisorLow \in 0..255 /\ divisorHigh \in 0..255
  /\ mEventFlags \in SUBSET Directions
  /\ interest \in [Clients -> SUBSET Directions]
  /\ accepted \in 0..MaxClients
  /\ timer \in [Directions -> {"idle", "armed", "fired"}]
  /\ pc \in {"wait", "accept", "client", "timer", "reload"}
  /\ fd \in clients \union {NoClient}
  /\ events \in SUBSET Directions
  /\ hup \in SUBSET clients
  /\ unread \in [Clients -> 0..InCap]
  /\ queued \in [Clients -> 0..OutCap]

\* The loop accepts and serves only what is there: a client in hand is an
\* accepted one, and a connection being accepted still has its slot
HandTypeOK ==
  /\ pc = "client" => fd \in clients
  /\ pc \in {"timer", "reload"} => \E d \in Directions : events = {d}
  /\ connecting => accepted < MaxClients
  /\ pc = "accept" => connecting

TypeOK == FlagsTypeOK /\ DataTypeOK /\ HandTypeOK

-----------------------------------------------------------------------------
(* Reload timers.  The delay is 1600000000 * divisor / 18432 ns, passed as  *)
(* tv_nsec: 0 disarms the timer and a value of 10^9 or more is refused.     *)

divisor == 256 * divisorHigh + divisorLow

UsableDivisors == 1..11519     \* those whose delay lies in 1 .. 10^9 - 1 ns

TimerAfterSet_Forgotten(t, d) == t

\* timerfd_settime with the delay of divisor d, on a timer in state t
TimerAfterSet(t, d) ==
  IF d = 0 THEN "idle"
  ELSE IF d \in UsableDivisors THEN "armed"
  ELSE t

\* What the guest is assumed to do before it touches the data register
GuestMayTouchData(ready) ==
  /\ ~dlab
  /\ GuestProgramsDivisor => divisor \in UsableDivisors
  /\ GuestChecksStatus => ready

-----------------------------------------------------------------------------
(* vCPU thread: register accesses.                                          *)

InterruptPending ==
  \/ readInterruptEnabled /\ readInterruptFlag
  \/ writeInterruptEnabled /\ writeInterruptFlag

\* ioread8, data register: one byte from the first client that has any
ReadData ==
  /\ GuestMayTouchData(readable)
  /\ \/ /\ \A c \in clients : unread[c] = 0
        /\ unread' = unread
     \/ \E c \in clients :
          /\ unread[c] > 0
          /\ \A b \in clients : b < c => unread[b] = 0
          /\ unread' = [unread EXCEPT ![c] = @ - 1]
  /\ readable' = FALSE
  /\ readInterruptFlag' = FALSE
  /\ timer' = [timer EXCEPT ![EPOLLIN] = TimerAfterSet(@, divisor)]
  /\ UNCHANGED <<writable, writeInterruptFlag, readInterruptEnabled,
                 writeInterruptEnabled, latch, loopVars, irqfd, hand,
                 connecting, hup, queued, alive>>

\* iowrite8, data register: the byte goes to every client that has room; the
\* others miss it, as the result of write() is not looked at
WriteData ==
  /\ GuestMayTouchData(writable)
  /\ clients \intersect hup = {}
  /\ queued' = [c \in Clients |-> IF c \in clients /\ queued[c] < OutCap
                                  THEN queued[c] + 1 ELSE queued[c]]
  /\ writable' = FALSE
  /\ writeInterruptFlag' = FALSE
  /\ timer' = [timer EXCEPT ![EPOLLOUT] = TimerAfterSet(@, divisor)]
  /\ UNCHANGED <<readable, readInterruptFlag, readInterruptEnabled,
                 writeInterruptEnabled, latch, loopVars, irqfd, hand,
                 connecting, hup, unread, alive>>

\* iowrite8, data register, after a client closed its end: write() raises
\* SIGPIPE, which nothing ignores
WriteDataToClosedPeer ==
  /\ GuestMayTouchData(writable)
  /\ clients \intersect hup # {}
  /\ alive' = FALSE
  /\ UNCHANGED <<registers, latch, loopVars, timer, irqfd, hand, sockets>>

\* ioread8, IIR: reading it while it reports the transmitter clears that
\* condition; the other two answers change nothing
ReadIIR ==
  /\ writeInterruptEnabled /\ writeInterruptFlag
  /\ ~(readInterruptEnabled /\ readInterruptFlag)
  /\ writeInterruptFlag' = FALSE
  /\ UNCHANGED <<readable, writable, readInterruptFlag, readInterruptEnabled,
                 writeInterruptEnabled, latch, loopVars, timer, irqfd, hand,
                 sockets, alive>>

\* The condition flag of an interrupt whose enable bit has just been written
RefreshedFlag_Assumed(enabled, flag, condition) == enabled \/ flag

RefreshedFlag(enabled, flag, condition) ==
  IF enabled THEN condition ELSE flag

\* Whether writing r, w to the enable bits triggers the interrupt, given the
\* refreshed flags rf and wf
IerRaises_OnlyReceiver(r, w, rf, wf) == r /\ rf /\ ~readInterruptEnabled

IerRaises(r, w, rf, wf) ==
  /\ ~(readInterruptEnabled /\ rf)
  /\ ~(writeInterruptEnabled /\ wf)
  /\ (r /\ rf) \/ (w /\ wf)

\* iowrite8, interrupt enable register: r and w are bits 0 and 1.  An enabled
\* condition is recomputed from the line status; the interrupt is triggered
\* unless a condition counted as pending under the old enable bits.
WriteIER(r, w) ==
  /\ ~dlab
  /\ GuestIER # "never"
  /\ w /\ writeInterruptEnabled => GuestIER = "any"
  /\ readInterruptEnabled' = r
  /\ writeInterruptEnabled' = w
  /\ readInterruptFlag' = RefreshedFlag(r, readInterruptFlag, readable)
  /\ writeInterruptFlag' = RefreshedFlag(w, writeInterruptFlag, writable)
  /\ irqfd' = (irqfd \/ IerRaises(r, w, readInterruptFlag', writeInterruptFlag'))
  /\ UNCHANGED <<readable, writable, latch, loopVars, timer, hand, sockets,
                 alive>>

\* iowrite8, line control: only the divisor-latch access bit has an effect
WriteLCR(b) ==
  /\ dlab' = b
  /\ UNCHANGED <<registers, divisorLow, divisorHigh, loopVars, timer, irqfd,
                 hand, sockets, alive>>

\* iowrite8 with the latch addressed: the two bytes of the divisor
WriteDivisorLow(b) ==
  /\ dlab
  /\ divisorLow' = b
  /\ UNCHANGED <<registers, dlab, divisorHigh, loopVars, timer, irqfd, hand,
                 sockets, alive>>

WriteDivisorHigh_Shifted(b) ==
  /\ dlab
  /\ divisorHigh' = b * 256
  /\ UNCHANGED <<registers, dlab, divisorLow, loopVars, timer, irqfd, hand,
                 sockets, alive>>

WriteDivisorHigh(b) ==
  /\ dlab
  /\ divisorHigh' = b
  /\ UNCHANGED <<registers, dlab, divisorLow, loopVars, timer, irqfd, hand,
                 sockets, alive>>

-----------------------------------------------------------------------------
(* Event-loop thread.  epoll_wait puts one event in hand; its handler runs  *)
(* later.  A closed peer is always reported, whatever was registered.       *)

Ready(c) ==
  { d \in Directions : \/ c \in hup
                       \/ d = EPOLLIN /\ unread[c] > 0
                       \/ d = EPOLLOUT /\ queued[c] < OutCap }

WaitServer ==
  /\ pc = "wait" /\ connecting
  /\ pc' = "accept" /\ fd' = NoClient /\ events' = {}
  /\ UNCHANGED <<registers, latch, loopVars, timer, irqfd, sockets, alive>>

WaitClient(c) ==
  /\ pc = "wait"
  /\ c \in hup \/ interest[c] \intersect Ready(c) # {}
  /\ pc' = "client" /\ fd' = c /\ events' = interest[c] \intersect Ready(c)
  /\ UNCHANGED <<registers, latch, loopVars, timer, irqfd, sockets, alive>>

WaitTimer(d) ==
  /\ pc = "wait" /\ timer[d] = "fired"
  /\ pc' = "timer" /\ fd' = NoClient /\ events' = {d}
  /\ UNCHANGED <<registers, latch, loopVars, timer, irqfd, sockets, alive>>

Done == pc' = "wait" /\ fd' = NoClient /\ events' = {}

\* The server's handler: the client is registered for what the port listens
\* for now
AcceptClient ==
  /\ pc = "accept"
  /\ connecting' = FALSE
  /\ accepted' = accepted + 1
  /\ interest' = [interest EXCEPT ![accepted'] = mEventFlags]
  /\ Done
  /\ UNCHANGED <<registers, latch, mEventFlags, timer, irqfd, hup, unread,
                 queued, alive>>

\* An error is reported for the server, or accept fails, which leaves the
\* connection where it is
AcceptFails ==
  /\ pc = "accept"
  /\ Done
  /\ UNCHANGED <<registers, latch, loopVars, timer, irqfd, sockets, alive>>

\* triggerInterrupt in the receiver's part of handleClientEvent, then in the
\* transmitter's, which sees what the receiver's has just made pending
RxRaises_AnyWriteFlag(ev) ==
  EPOLLIN \in ev /\ readInterruptEnabled /\ ~writeInterruptFlag

RxRaises(ev) ==
  /\ EPOLLIN \in ev /\ readInterruptEnabled
  /\ ~(writeInterruptEnabled /\ writeInterruptFlag)

TxRaises_Unchecked(ev) == EPOLLOUT \in ev /\ writeInterruptEnabled

TxRaises(ev) ==
  /\ EPOLLOUT \in ev /\ writeInterruptEnabled
  /\ ~(readInterruptEnabled /\ (readInterruptFlag \/ EPOLLIN \in ev))

\* mEventFlags once the events ev have been announced
FlagsAfter_Unmuted(ev) == mEventFlags

FlagsAfter(ev) == mEventFlags \ ev

HandleClientEvent ==
  /\ pc = "client"
  /\ readable' = (readable \/ EPOLLIN \in events)
  /\ readInterruptFlag' = (readInterruptFlag \/ EPOLLIN \in events)
  /\ writable' = (writable \/ EPOLLOUT \in events)
  /\ writeInterruptFlag' = (writeInterruptFlag \/ EPOLLOUT \in events)
  /\ irqfd' = (irqfd \/ RxRaises(events) \/ TxRaises(events))
  /\ mEventFlags' = FlagsAfter(events)
  /\ interest' = [interest EXCEPT ![fd] = mEventFlags']
  /\ Done
  /\ UNCHANGED <<readInterruptEnabled, writeInterruptEnabled, latch, accepted,
                 timer, sockets, alive>>

\* reloadEventLoop
Reloaded_FirstOnly(flags) == [interest EXCEPT ![1] = flags]

Reloaded(flags) == [c \in Clients |-> IF c \in clients THEN flags
                                     ELSE interest[c]]

\* A timer's handler reads the descriptor before it takes the mutex.  If the
\* guest has set the timer again meanwhile, the read finds nothing and the
\* handler goes on all the same.
TimerRead ==
  /\ pc = "timer"
  /\ timer' = [d \in Directions |-> IF d \in events /\ timer[d] = "fired"
                                    THEN "idle" ELSE timer[d]]
  /\ pc' = "reload"
  /\ UNCHANGED <<registers, latch, loopVars, irqfd, fd, events, sockets, alive>>

\* ... then listens again for its direction, on every client
TimerReload ==
  /\ pc = "reload"
  /\ mEventFlags' = mEventFlags \union events
  /\ interest' = Reloaded(mEventFlags')
  /\ Done
  /\ UNCHANGED <<registers, latch, accepted, timer, irqfd, sockets, alive>>

-----------------------------------------------------------------------------
(* The terminals, the kernel's timers and KVM.                              *)

Connect ==
  /\ ~connecting /\ accepted < MaxClients
  /\ connecting' = TRUE
  /\ UNCHANGED <<registers, latch, loopVars, timer, irqfd, hand, hup, unread,
                 queued, alive>>

ClientSend(c) ==
  /\ c \notin hup /\ unread[c] < InCap
  /\ unread' = [unread EXCEPT ![c] = @ + 1]
  /\ UNCHANGED <<registers, latch, loopVars, timer, irqfd, hand, connecting,
                 hup, queued, alive>>

ClientDrain(c) ==
  /\ c \notin hup /\ queued[c] > 0
  /\ queued' = [queued EXCEPT ![c] = @ - 1]
  /\ UNCHANGED <<registers, latch, loopVars, timer, irqfd, hand, connecting,
                 hup, unread, alive>>

HangUp(c) ==
  /\ MayHangUp /\ c \notin hup
  /\ hup' = hup \union {c}
  /\ UNCHANGED <<registers, latch, loopVars, timer, irqfd, hand, connecting,
                 unread, queued, alive>>

TimerExpires(d) ==
  /\ timer[d] = "armed"
  /\ timer' = [timer EXCEPT ![d] = "fired"]
  /\ UNCHANGED <<registers, latch, loopVars, irqfd, hand, sockets, alive>>

\* KVM consumes the irq eventfd and raises the line
KvmInject ==
  /\ irqfd
  /\ irqfd' = FALSE
  /\ UNCHANGED <<registers, latch, loopVars, timer, hand, sockets, alive>>

-----------------------------------------------------------------------------
Init ==
  /\ readable = FALSE /\ writable = FALSE
  /\ readInterruptFlag = FALSE /\ writeInterruptFlag = FALSE
  /\ readInterruptEnabled = FALSE /\ writeInterruptEnabled = FALSE
  /\ dlab = FALSE
  /\ divisorLow = 0 /\ divisorHigh = 0
  /\ mEventFlags = Directions
  /\ interest = [c \in Clients |-> {}]
  /\ accepted = 0
  /\ timer = [d \in Directions |-> "idle"]
  /\ irqfd = FALSE
  /\ pc = "wait" /\ fd = NoClient /\ events = {}
  /\ connecting = FALSE
  /\ hup = {}
  /\ unread = [c \in Clients |-> 0]
  /\ queued = [c \in Clients |-> 0]
  /\ alive = TRUE

vCPU ==
  \/ ReadData \/ WriteData \/ WriteDataToClosedPeer \/ ReadIIR
  \/ \E r, w \in BOOLEAN : WriteIER(r, w)
  \/ \E b \in BOOLEAN : WriteLCR(b)
  \/ \E b \in DivisorLowBytes : WriteDivisorLow(b)
  \/ \E b \in DivisorHighBytes : WriteDivisorHigh(b)

Wait ==
  \/ WaitServer
  \/ \E c \in clients : WaitClient(c)
  \/ \E d \in Directions : WaitTimer(d)

Handler ==
  AcceptClient \/ AcceptFails \/ HandleClientEvent \/ TimerRead \/ TimerReload

Outside ==
  \/ Connect
  \/ \E c \in clients : ClientSend(c) \/ ClientDrain(c) \/ HangUp(c)
  \/ \E d \in Directions : TimerExpires(d)

Terminated == ~alive /\ UNCHANGED vars

Next == (alive /\ (vCPU \/ Wait \/ Handler \/ Outside \/ KvmInject)) \/ Terminated

Spec == Init /\ [][Next]_vars

\* The loop thread runs, the timers expire, and epoll_wait reports every
\* source in turn: a source that a handler has served is ready again at once
\* only so many times in a row, so it cannot hold the others back (see EventLoop;
\* a closed peer can, and so could accept if it failed for ever).  The guest
\* owes nothing.
Fairness ==
  /\ WF_vars(Handler)
  /\ SF_vars(WaitServer)
  /\ \A c \in Clients : SF_vars(c \in clients /\ WaitClient(c))
  /\ \A d \in Directions : SF_vars(WaitTimer(d)) /\ WF_vars(TimerExpires(d))

\* ... and the terminals read what they are sent
TerminalsRead == \A c \in Clients : WF_vars(c \in clients /\ ClientDrain(c))

FairSpec == Spec /\ Fairness /\ TerminalsRead

-----------------------------------------------------------------------------
(* Properties.                                                              *)

\* The line status and the interrupt conditions never disagree: data-ready is
\* the receiver's condition, and a transmitter condition implies an empty
\* holding register.  Four places update the pairs: the data port, the IER
\* write, the IIR read and the client handler.
IirMatchesLsr ==
  /\ readInterruptFlag = readable
  /\ writeInterruptFlag => writable

\* Whatever the port listens for, it listens for on every client: no order of
\* accepts, client events and timer reloads leaves a client registered for
\* less (modifyEvent on one client, reloadEventLoop on all).
EveryClientHeard == \A c \in clients : mEventFlags \subseteq interest[c]

\* The byte that direction d holds has been announced to the guest
Announced(d) == IF d = EPOLLIN THEN readable ELSE writable

\* The timer of direction d will lead to listening for it again
Pacing(d) == timer[d] # "idle" \/ (pc \in {"timer", "reload"} /\ d \in events)

\* A direction is always on its way somewhere: listened for, announced to the
\* guest, or paced by its timer.  Otherwise the port is deaf or mute for ever.
NotStranded ==
  \A d \in Directions : d \in mEventFlags \/ Announced(d) \/ Pacing(d)

\* While the timer of a direction runs, the guest is told of no further byte:
\* the delay of the divisor separates any two bytes.
Paced == \A d \in Directions : timer[d] = "armed" => ~Announced(d)

\* Why Paced holds with one terminal and a guest that looks at the line status
\* first: a direction is in at most one of its three phases, and the loop holds
\* no event of a phase that is over.  The second terminal breaks it, because
\* announcing on one client does not stop listening on the other.
OnePhase ==
  /\ \A d \in Directions :
       /\ d \in mEventFlags => ~Announced(d) /\ ~Pacing(d)
       /\ Announced(d) => ~Pacing(d)
       /\ pc = "timer" /\ d \in events => timer[d] = "fired"
       /\ pc = "reload" /\ d \in events => timer[d] = "idle"
  /\ pc = "client" => events \subseteq mEventFlags
  /\ \A c \in clients : interest[c] \subseteq mEventFlags

\* "can't fire a new interrupt unless there aren't any pending"
FiresOnlyWhenIdle == [][~irqfd /\ irqfd' => ~InterruptPending]_vars

\* Whenever the port begins to have an interrupt pending, in whichever thread,
\* the line is triggered in the same step.
NewConditionFires == [][~InterruptPending /\ InterruptPending' => irqfd']_vars

\* What a terminal sends is in the end announced to the guest
RxServed == \A c \in Clients : unread[c] > 0 ~> readable \/ unread[c] = 0

\* A connected port keeps coming back to an empty holding register
TxServed == accepted > 0 ~> writable

=============================================================================
