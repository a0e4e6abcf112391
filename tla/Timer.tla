------------------------------- MODULE Timer --------------------------------
(***************************************************************************)
(* ProgrammableIntervalTimer (src/src/hardware/Timer.cpp) and the          *)
(* i386EXClockPrescaler that sets its clock: an 8254 whose counters are    *)
(* not advanced by a thread but brought up to date from the wall clock     *)
(* whenever a register access calls resolveTimers.  main compiles it and   *)
(* leaves its creation commented out (main.cpp 603-604).                   *)
(*                                                                         *)
(* Time passes in periods of the 25 MHz source clock.  A byte has ByteSize *)
(* values (256 in the code) and a decimal count is split at DecimalBase    *)
(* (100), so that a small instance has both halves of a count.  Operating  *)
(* mode and output level are stored and returned only, and left out.       *)
(***************************************************************************)
EXTENDS Integers

CONSTANTS
  Channels,      \* the code has 0, 1 and 2
  ByteSize, DecimalBase,
  Bytes,         \* bytes the guest writes to a counter
  Prescalers,    \* values the guest writes to the prescaler, 0 .. 2^16 - 1
  MaxElapsed,    \* longest time between two accesses, in source clock periods
  GuestPairs     \* the guest does nothing else between the two bytes of a
                 \* count it writes, and reads out what it has latched before
                 \* it gives the channel another command

ASSUME TimerAssumption ==
  /\ ByteSize \in Nat \ {0, 1} /\ DecimalBase \in 1..ByteSize
  /\ Bytes \subseteq 0..(ByteSize - 1)
  /\ Prescalers \subseteq Nat /\ \A p \in Prescalers : p <= 65533
  /\ MaxElapsed \in Nat
  /\ GuestPairs \in BOOLEAN

Word == ByteSize * ByteSize
Counts == 0..(Word - 1)
AccessModes == {"low", "high", "both"}
Base == [binary |-> ByteSize, decimal |-> DecimalBase]

VARIABLES
  timerPrescaler,   \* source clock periods per tick
  state,            \* the code's state[]; "since" is the time since lastRecord
  history           \* per channel, for the properties: "whole" is the last
                    \* count written completely, "base" the one the running
                    \* count started from, "ideal" and "phase" a counter that
                    \* drops one tick per prescaler period from its load to 0,
                    \* "low" the latched count whose low byte was just
                    \* read, or -1

vars == <<timerPrescaler, state, history>>

StateTypeOK(s) ==
  /\ s.value \in Counts /\ s.latch \in Counts /\ s.reload \in Counts
  /\ s.pendingLoad \in BOOLEAN /\ s.waitingForLoad \in BOOLEAN
  /\ s.latched \in BOOLEAN
  /\ s.accessMode \in AccessModes /\ s.numberFormat \in DOMAIN Base
  /\ s.writeByte \in {"low", "high"}
  /\ s.accessByte \in {"low", "high", "status"}
  /\ s.since \in 0..MaxElapsed

\* The access machines stay within the access mode: no mode reads or writes a
\* byte that it does not have
BytesFitMode(s) ==
  s.accessMode # "both" =>
    s.writeByte = s.accessMode /\ s.accessByte \in {s.accessMode, "status"}

TypeOK ==
  /\ timerPrescaler \in Nat /\ 2 <= timerPrescaler /\ timerPrescaler <= 65535
  /\ \A c \in Channels : StateTypeOK(state[c]) /\ BytesFitMode(state[c])

-----------------------------------------------------------------------------
FirstByte(mode) == IF mode = "high" THEN "high" ELSE "low"

MidWrite(c) == state[c].accessMode = "both" /\ state[c].writeByte = "high"
MidRead(c) == state[c].latched \/ state[c].accessByte # FirstByte(state[c].accessMode)

\* What the guest may do to channel c while counts are half-written
MayAccess == GuestPairs => \A c \in Channels : ~MidWrite(c)
MayCommand(c) == MayAccess /\ (GuestPairs => ~MidRead(c))

Wraps(s) == ~s.waitingForLoad /\ s.since \div timerPrescaler > s.value

\* resolveTimers for one channel: whole ticks since lastRecord are counted, the
\* rest is dropped with lastRecord; a count that has run out starts again
Resolved_KeepsTime(s) ==
  LET ticks == s.since \div timerPrescaler
  IN  CASE s.waitingForLoad -> s
        [] Wraps(s) ->
             [s EXCEPT !.value = s.reload - ((ticks - s.value) % (s.reload + 1)),
                       !.pendingLoad = FALSE]
        [] OTHER -> [s EXCEPT !.value = @ - ticks]

Resolved(s) ==
  LET ticks == s.since \div timerPrescaler
  IN  CASE s.waitingForLoad -> s
        [] Wraps(s) ->
             [s EXCEPT !.value = s.reload - ((ticks - s.value) % (s.reload + 1)),
                       !.pendingLoad = FALSE, !.since = 0]
        [] OTHER -> [s EXCEPT !.value = @ - ticks, !.since = 0]

\* History of a channel that resolveTimers has just seen in state s
Followed(h, s) == IF Wraps(s) THEN [h EXCEPT !.base = s.reload] ELSE h

AllResolved == [c \in Channels |-> Resolved(state[c])]
AllFollowed == [c \in Channels |-> Followed(history[c], state[c])]

-----------------------------------------------------------------------------
(* The prescaler's registers.  The devices get the register plus 2, in 16   *)
(* bits.                                                                    *)

SetPrescaler(p) ==
  /\ MayAccess
  /\ timerPrescaler' = (p + 2) % 65536
  /\ state' = AllResolved
  /\ history' = AllFollowed

\* writeCommand, counter latch
LatchCount(c) ==
  /\ MayCommand(c)
  /\ state' = [AllResolved EXCEPT ![c].latch = AllResolved[c].value,
                                  ![c].latched = TRUE]
  /\ history' = AllFollowed
  /\ UNCHANGED timerPrescaler

\* writeCommand, read-back of a set of channels
ReadBack(selected, latchStatus, latchCount) ==
  /\ \A c \in selected : MayCommand(c)
  /\ MayAccess
  /\ state' = [c \in Channels |->
       LET s == AllResolved[c]
       IN  IF c \notin selected THEN s
           ELSE [s EXCEPT
                  !.accessByte = IF latchStatus THEN "status"
                                 ELSE FirstByte(s.accessMode),
                  !.latch = IF latchCount THEN s.value ELSE @,
                  !.latched = @ \/ latchCount]]
  /\ history' = AllFollowed
  /\ UNCHANGED timerPrescaler

\* writeCommand, configuration: the channel is paused until a count is loaded.
\* A count latched before stays latched.
Configure_KeepsWriteByte(c, mode, format) ==
  /\ MayCommand(c)
  /\ state' = [AllResolved EXCEPT
       ![c].accessMode = mode, ![c].numberFormat = format,
       ![c].waitingForLoad = TRUE, ![c].since = 0,
       ![c].accessByte = FirstByte(mode)]
  /\ history' = [AllFollowed EXCEPT ![c].low = -1]
  /\ UNCHANGED timerPrescaler

Configure(c, mode, format) ==
  /\ MayCommand(c)
  /\ state' = [AllResolved EXCEPT
       ![c].accessMode = mode, ![c].numberFormat = format,
       ![c].waitingForLoad = TRUE, ![c].since = 0,
       ![c].accessByte = FirstByte(mode), ![c].writeByte = FirstByte(mode)]
  /\ history' = [AllFollowed EXCEPT ![c].low = -1]
  /\ UNCHANGED timerPrescaler

-----------------------------------------------------------------------------
\* A byte put into one half of a count, in either number format
WithByte(count, byte, half, format) ==
  LET b == Base[format]
  IN  IF half = "low" THEN (count - (count % b) + byte) % Word
                      ELSE (b * byte + (count % b)) % Word

\* A complete count starts a channel that waits for one; a running channel takes
\* it when it runs out
Loaded_NeverPending(s) ==
  IF s.waitingForLoad
  THEN [s EXCEPT !.waitingForLoad = FALSE, !.pendingLoad = FALSE,
                 !.value = s.reload, !.since = 0]
  ELSE [s EXCEPT !.pendingLoad = FALSE]

Loaded(s) ==
  IF s.waitingForLoad
  THEN [s EXCEPT !.waitingForLoad = FALSE, !.pendingLoad = FALSE,
                 !.value = s.reload, !.since = 0]
  ELSE s

\* writeRegister.  The counters are not resolved first.
WriteRegister(c, byte) ==
  LET s == state[c]
      h == history[c]
      last == s.accessMode # "both" \/ s.writeByte = "high"
      written == [s EXCEPT
        !.pendingLoad = TRUE,
        !.reload = WithByte(@, byte, s.writeByte, s.numberFormat),
        !.writeByte = IF s.accessMode # "both" THEN @
                      ELSE IF last THEN "low" ELSE "high"]
  IN  /\ GuestPairs => \A d \in Channels \ {c} : ~MidWrite(d)
      /\ state' = [state EXCEPT ![c] = IF last THEN Loaded(written) ELSE written]
      /\ history' = [history EXCEPT ![c] =
           IF ~last THEN h
           ELSE IF ~s.waitingForLoad THEN [h EXCEPT !.whole = written.reload]
           ELSE [h EXCEPT !.whole = written.reload, !.base = written.reload,
                          !.ideal = written.reload, !.phase = 0]]
      /\ UNCHANGED timerPrescaler

\* The count readRegister takes its byte from, chosen before the counters are
\* resolved
Source(s) == IF s.latched THEN s.latch ELSE s.value

\* What readRegister leaves behind: the next byte to read, and whether the
\* latch still holds
AfterRead_LatchDropped(s) ==
  [s EXCEPT
     !.latched = FALSE,
     !.accessByte = IF s.accessMode = "both" /\ s.accessByte = "low" THEN "high"
                    ELSE FirstByte(s.accessMode)]

AfterRead(s) ==
  [s EXCEPT
     !.latched = @ /\ s.accessByte # "high"
                   /\ (s.accessByte = "low" => s.accessMode # "low"),
     !.accessByte = IF s.accessMode = "both" /\ s.accessByte = "low" THEN "high"
                    ELSE FirstByte(s.accessMode)]

ReadRegister(c) ==
  LET s == state[c]
  IN  /\ MayAccess
      /\ state' = [AllResolved EXCEPT ![c] = AfterRead(@)]
      /\ history' = [AllFollowed EXCEPT
           ![c].low = IF s.accessByte = "low" /\ s.latched THEN s.latch ELSE -1]
      /\ UNCHANGED timerPrescaler

-----------------------------------------------------------------------------
\* One period of the source clock passes
Ticked(h) ==
  IF h.ideal = 0 THEN h
  ELSE IF h.phase + 1 >= timerPrescaler
       THEN [h EXCEPT !.phase = 0, !.ideal = @ - 1]
       ELSE [h EXCEPT !.phase = @ + 1]

Elapse ==
  /\ \A c \in Channels : state[c].since < MaxElapsed
  /\ state' = [c \in Channels |->
       IF state[c].waitingForLoad THEN state[c]
                                  ELSE [state[c] EXCEPT !.since = @ + 1]]
  /\ history' = [c \in Channels |->
       IF state[c].waitingForLoad THEN history[c] ELSE Ticked(history[c])]
  /\ UNCHANGED timerPrescaler

Init ==
  /\ timerPrescaler = 2
  /\ state = [c \in Channels |->
       [value |-> 0, latch |-> 0, reload |-> 0, pendingLoad |-> FALSE,
        waitingForLoad |-> TRUE, latched |-> FALSE, accessMode |-> "both",
        numberFormat |-> "binary", writeByte |-> "low", accessByte |-> "low",
        since |-> 0]]
  /\ history = [c \in Channels |->
       [whole |-> 0, base |-> 0, ideal |-> 0, phase |-> 0, low |-> -1]]

Next ==
  \/ \E p \in Prescalers : SetPrescaler(p)
  \/ \E c \in Channels :
       \/ LatchCount(c) \/ ReadRegister(c)
       \/ \E m \in AccessModes, f \in DOMAIN Base : Configure(c, m, f)
       \/ \E b \in Bytes : WriteRegister(c, b)
  \/ \E selected \in SUBSET Channels, ls, lc \in BOOLEAN :
       ReadBack(selected, ls, lc)
  \/ Elapse

Spec == Init /\ [][Next]_vars

-----------------------------------------------------------------------------
\* The two bytes of a latched count are halves of one count, whatever time
\* passes, is written or is read elsewhere between them.
LatchedPairIsOneCount ==
  [][\A c \in Channels :
       /\ history[c].low # -1 /\ state[c].accessMode = "both"
       /\ state[c].accessByte = "high" /\ state'[c].accessByte = "low"
       => Source(state[c]) = history[c].low]_vars

\* When the status byte reports no load pending, the count that runs started
\* from the last count the guest completed, and is still within it.
NullCountHonest ==
  \A c \in Channels :
    ~state[c].pendingLoad /\ ~state[c].waitingForLoad =>
      /\ history[c].base = history[c].whole
      /\ state[c].value <= history[c].whole

\* Up to its first expiry a count never gets ahead of the clock: the fractions
\* of a tick that every access drops make it late, never early, so a delay the
\* guest measures with it is never shorter than asked.
NeverEarly ==
  \A c \in Channels :
    ~state[c].waitingForLoad => state[c].value >= history[c].ideal

=============================================================================
