----------------------- MODULE SerialRefinementProofs ------------------------
(***************************************************************************)
(* Each direction of the UART implements PacedPort, for any buffer sizes   *)
(* and any divisors: every step of either thread, of the terminal and of   *)
(* the timers is a step of the promised receiver and of the promised       *)
(* transmitter, or changes neither.                                        *)
(***************************************************************************)
EXTENDS SerialRefinement, SerialProofs

USE SerialAssumption

\* Direction d has a unit announced to the guest, or about to be
Held(d) == Announced(d) \/ (pc = "client" /\ d \in events)

\* What is announced is there: the byte has been sent and nobody else reads it,
\* the room is free and nobody else fills it
HeldIsInStock ==
  /\ hup = {}
  /\ Held(EPOLLIN) => accepted > 0 /\ unread[Solo] > 0
  /\ Held(EPOLLOUT) => accepted > 0 /\ queued[Solo] < OutCap

\* The assumptions: one terminal that stays, a guest that looks first
OneTerminal == MaxClients = 1 /\ GuestChecksStatus /\ ~MayHangUp

PortInv == TypeOK /\ OnePhase /\ HeldIsInStock

\* The terminal is client 1 once it has been accepted
LEMMA SoloClient ==
  ASSUME OneTerminal, TypeOK
  PROVE  /\ Clients = {Solo} /\ accepted \in {0, 1}
         /\ clients = IF accepted = 0 THEN {} ELSE {Solo}
         /\ unread[Solo] \in 0..InCap /\ queued[Solo] \in 0..OutCap
<1>1. Clients = {Solo}
  BY DEF OneTerminal, Clients, Solo
<1>2. accepted \in {0, 1}
  BY DEF OneTerminal, TypeOK, DataTypeOK
<1>3. clients = IF accepted = 0 THEN {} ELSE {Solo}
  <2>1. 1..0 = {} /\ 1..1 = {1}
    OBVIOUS
  <2> QED BY <1>2, <2>1, Zenon DEF clients, Solo
<1>4. unread[Solo] \in 0..InCap /\ queued[Solo] \in 0..OutCap
  BY <1>1 DEF TypeOK, DataTypeOK
<1> QED BY <1>1, <1>2, <1>3, <1>4

\* The line status says what is in stock after every step
LEMMA HeldStep ==
  ASSUME OneTerminal, PortInv, [Next]_vars
  PROVE  HeldIsInStock'
<1> USE DEF PortInv, HeldIsInStock, Held, Announced
<1>t. /\ Clients = {Solo} /\ accepted \in {0, 1}
      /\ clients = IF accepted = 0 THEN {} ELSE {Solo}
      /\ unread[Solo] \in 0..InCap /\ queued[Solo] \in 0..OutCap
      /\ unread \in [Clients -> 0..InCap] /\ queued \in [Clients -> 0..OutCap]
  BY SoloClient DEF TypeOK, DataTypeOK
<1>d. EPOLLIN # EPOLLOUT /\ EPOLLIN \in Directions /\ EPOLLOUT \in Directions
  BY DEF EPOLLIN, EPOLLOUT, Directions
<1>h. \A d \in Directions : Announced(d) => ~ (pc = "client" /\ d \in events)
  BY DEF OnePhase
<1>1. CASE ReadData
  <2>1. ~ (pc = "client" /\ EPOLLIN \in events) /\ readable' = FALSE
    BY <1>1, <1>h, <1>d DEF ReadData, GuestMayTouchData, OneTerminal
  <2> QED BY <1>1, <2>1, <1>d DEF ReadData, loopVars, hand
<1>2. CASE WriteData
  <2>1. ~ (pc = "client" /\ EPOLLOUT \in events) /\ writable' = FALSE
    BY <1>2, <1>h, <1>d DEF WriteData, GuestMayTouchData, OneTerminal
  <2> QED BY <1>2, <2>1, <1>d DEF WriteData, loopVars, hand
<1>3. CASE WriteDataToClosedPeer
  BY <1>3 DEF WriteDataToClosedPeer
<1>4. CASE \E c \in clients : WaitClient(c)
  <2>1. PICK c \in clients : WaitClient(c)
    BY <1>4
  <2>2. c = Solo /\ accepted > 0
    BY <1>t
  <2>3. events' \subseteq Ready(Solo)
    BY <2>1, <2>2 DEF WaitClient
  <2>4. /\ EPOLLIN \in Ready(Solo) => unread[Solo] > 0
        /\ EPOLLOUT \in Ready(Solo) => queued[Solo] < OutCap
    BY <1>d DEF Ready
  <2> QED BY <2>1, <2>2, <2>3, <2>4, <1>d
          DEF WaitClient, registers, loopVars, sockets
<1>5. CASE WaitServer \/ (\E d \in Directions : WaitTimer(d))
  BY <1>5, <1>d DEF WaitServer, WaitTimer, registers, loopVars, sockets
<1>6. CASE AcceptClient
  <2>1. accepted' > 0
    BY <1>6, <1>t DEF AcceptClient
  <2> QED BY <1>6, <2>1, <1>d DEF AcceptClient, Done, registers
<1>7. CASE HandleClientEvent
  BY <1>7, <1>d DEF HandleClientEvent, Done, sockets
<1>8. CASE TimerRead \/ TimerReload
  BY <1>8, <1>d DEF TimerRead, TimerReload, Done, registers, loopVars, sockets
<1>9. CASE \E c \in clients : ClientSend(c)
  <2>1. PICK c \in clients : ClientSend(c)
    BY <1>9
  <2>2. c = Solo /\ accepted > 0 /\ unread'[Solo] = unread[Solo] + 1
    BY <2>1, <1>t DEF ClientSend
  <2> QED BY <2>1, <2>2, <1>t, <1>d DEF ClientSend, registers, loopVars, hand
<1>10. CASE \E c \in clients : ClientDrain(c)
  <2>1. PICK c \in clients : ClientDrain(c)
    BY <1>10
  <2>2. c = Solo /\ queued'[Solo] = queued[Solo] - 1
    BY <2>1, <1>t DEF ClientDrain
  <2>3. queued[Solo] - 1 < OutCap
    BY <1>t
  <2> QED BY <2>1, <2>2, <2>3, <1>d DEF ClientDrain, registers, loopVars, hand
<1>11. CASE \E c \in clients : HangUp(c)
  BY <1>11 DEF HangUp, OneTerminal
<1>12. CASE UNCHANGED <<readable, writable, accepted, hand, hup, unread, queued>>
  BY <1>12, <1>d DEF hand
<1>13. ReadIIR \/ Connect \/ KvmInject \/ Terminated \/ UNCHANGED vars
         => UNCHANGED <<readable, writable, accepted, hand, hup, unread, queued>>
  BY DEF ReadIIR, Connect, KvmInject, Terminated, vars, registers, loopVars,
         sockets
<1>14. (\E r, w \in BOOLEAN : WriteIER(r, w)) \/ (\E b \in BOOLEAN : WriteLCR(b))
         => UNCHANGED <<readable, writable, accepted, hand, hup, unread, queued>>
  BY DEF WriteIER, WriteLCR, registers, loopVars, sockets
<1>15. (\/ \E b \in DivisorLowBytes : WriteDivisorLow(b)
        \/ \E b \in DivisorHighBytes : WriteDivisorHigh(b)
        \/ \E d \in Directions : TimerExpires(d))
         => UNCHANGED <<readable, writable, accepted, hand, hup, unread, queued>>
  BY DEF WriteDivisorLow, WriteDivisorHigh, TimerExpires, registers, loopVars,
         sockets
<1>16. CASE AcceptFails
  BY <1>16, <1>d DEF AcceptFails, Done, registers, loopVars, sockets
<1> QED
  BY <1>1, <1>2, <1>3, <1>4, <1>5, <1>6, <1>7, <1>8, <1>9, <1>10, <1>11, <1>12,
     <1>13, <1>14, <1>15, <1>16
  DEF Next, vCPU, Wait, Handler, Outside

LEMMA PortInvHolds ==
  ASSUME OneTerminal
  PROVE  Spec => []PortInv
<1>1. Init => HeldIsInStock
  BY DEF Init, HeldIsInStock, Held, Announced
<1>2. MaxClients = 1 /\ GuestChecksStatus
  BY DEF OneTerminal
<1>3. TypeOK /\ TypeOK' /\ OnePhase /\ OnePhase' /\ HeldIsInStock /\ [Next]_vars
        => HeldIsInStock'
  BY HeldStep DEF PortInv
<1>4. Spec => []TypeOK /\ []OnePhase
  BY <1>2, TypeCorrect, OnePhaseHolds, PTL
<1> QED BY <1>1, <1>3, <1>4, PTL DEF Spec, PortInv

-----------------------------------------------------------------------------
(* Every step of the port is a step of its receiver, or leaves it alone: the *)
(* client handler announces, the data port takes, the timer's handler        *)
(* resumes and the terminal supplies.                                        *)

\* A direction whose listening, line status and stock stay has not moved
LEMMA ReceiverRests ==
  ASSUME UNCHANGED <<accepted, readable, unread>>,
         EPOLLIN \in mEventFlags' <=> EPOLLIN \in mEventFlags
  PROVE  UNCHANGED Receiver!vars
BY DEF Receiver!vars, Phase, Announced

LEMMA TransmitterRests ==
  ASSUME UNCHANGED <<accepted, writable, queued>>,
         EPOLLOUT \in mEventFlags' <=> EPOLLOUT \in mEventFlags
  PROVE  UNCHANGED Transmitter!vars
BY DEF Transmitter!vars, Phase, Announced, EPOLLIN, EPOLLOUT

\* The steps that move neither direction
LEMMA QuietStep ==
  ASSUME [Next]_vars,
         ~ ReadData, ~ WriteData, ~ AcceptClient, ~ HandleClientEvent,
         ~ TimerReload, ~ \E c \in clients : ClientSend(c) \/ ClientDrain(c)
  PROVE  UNCHANGED <<accepted, readable, writable, unread, queued, mEventFlags>>
<1>1. CASE WriteDataToClosedPeer \/ ReadIIR
  BY <1>1 DEF WriteDataToClosedPeer, ReadIIR, registers, loopVars, sockets
<1>2. CASE \E r, w \in BOOLEAN : WriteIER(r, w)
  BY <1>2 DEF WriteIER, loopVars, sockets
<1>3. CASE \E b \in BOOLEAN : WriteLCR(b)
  BY <1>3 DEF WriteLCR, registers, loopVars, sockets
<1>4. CASE \E b \in DivisorLowBytes : WriteDivisorLow(b)
  BY <1>4 DEF WriteDivisorLow, registers, loopVars, sockets
<1>5. CASE \E b \in DivisorHighBytes : WriteDivisorHigh(b)
  BY <1>5 DEF WriteDivisorHigh, registers, loopVars, sockets
<1>6. CASE Wait
  BY <1>6 DEF Wait, WaitServer, WaitClient, WaitTimer, registers, loopVars,
              sockets
<1>7. CASE AcceptFails \/ TimerRead
  BY <1>7 DEF AcceptFails, TimerRead, registers, loopVars, sockets
<1>8. CASE Connect \/ (\E c \in clients : HangUp(c))
  BY <1>8 DEF Connect, HangUp, registers, loopVars
<1>9. CASE \E d \in Directions : TimerExpires(d)
  BY <1>9 DEF TimerExpires, registers, loopVars, sockets
<1>10. CASE KvmInject \/ Terminated \/ UNCHANGED vars
  BY <1>10 DEF KvmInject, Terminated, vars, registers, loopVars, sockets
<1> QED
  BY <1>1, <1>2, <1>3, <1>4, <1>5, <1>6, <1>7, <1>8, <1>9, <1>10
  DEF Next, vCPU, Handler, Outside

LEMMA ReceiverStep ==
  ASSUME OneTerminal, PortInv, [Next]_vars
  PROVE  [Receiver!Next]_(Receiver!vars)
<1> USE DEF PortInv
<1>t. /\ Clients = {Solo} /\ accepted \in {0, 1}
      /\ clients = IF accepted = 0 THEN {} ELSE {Solo}
      /\ unread[Solo] \in 0..InCap /\ unread \in [Clients -> 0..InCap]
  BY SoloClient DEF TypeOK, DataTypeOK
<1>d. EPOLLIN # EPOLLOUT /\ EPOLLIN \in Directions
  BY DEF EPOLLIN, EPOLLOUT, Directions
<1>1. CASE ReadData
  <2>1. readable /\ readable' = FALSE /\ unread[Solo] > 0 /\ accepted > 0
    BY <1>1 DEF ReadData, GuestMayTouchData, OneTerminal, HeldIsInStock, Held,
                Announced
  <2>2. EPOLLIN \notin mEventFlags /\ EPOLLIN \notin mEventFlags'
    BY <1>1, <1>d, <2>1 DEF ReadData, loopVars, OnePhase, Announced
  <2>3. unread'[Solo] = unread[Solo] - 1
    BY <1>1, <1>t, <2>1 DEF ReadData
  <2>4. accepted' = accepted
    BY <1>1 DEF ReadData, loopVars
  <2>5. Receiver!Take
    BY <2>1, <2>2, <2>3, <2>4 DEF Receiver!Take, Phase, Announced
  <2> QED BY <2>5 DEF Receiver!Next
<1>2. CASE WriteData
  <2>1. UNCHANGED <<accepted, readable, unread, mEventFlags>>
    BY <1>2 DEF WriteData, loopVars
  <2> QED BY <2>1, ReceiverRests
<1>3. CASE AcceptClient
  <2>1. accepted = 0 /\ accepted' = 1
    BY <1>3, <1>t DEF AcceptClient, TypeOK, HandTypeOK, OneTerminal
  <2>2. UNCHANGED <<readable, unread, mEventFlags>>
    BY <1>3 DEF AcceptClient, registers
  <2>3. Receiver!Open
    BY <2>1, <2>2 DEF Receiver!Open, Phase, Announced
  <2> QED BY <2>3 DEF Receiver!Next
<1>4. CASE HandleClientEvent
  <2>1. /\ readable' = (readable \/ EPOLLIN \in events)
        /\ mEventFlags' = mEventFlags \ events
        /\ UNCHANGED <<accepted, unread>> /\ pc = "client"
    BY <1>4 DEF HandleClientEvent, FlagsAfter, sockets
  <2>2. CASE EPOLLIN \in events
    <3>1. accepted > 0 /\ unread[Solo] > 0
      BY <2>1, <2>2 DEF HeldIsInStock, Held
    <3>2. EPOLLIN \in mEventFlags
      BY <2>1, <2>2 DEF OnePhase
    <3>3. Receiver!Announce
      BY <2>1, <2>2, <3>1, <3>2 DEF Receiver!Announce, Phase, Announced
    <3> QED BY <3>3 DEF Receiver!Next
  <2>3. CASE EPOLLIN \notin events
    <3>1. readable' = readable
      BY <2>1, <2>3 DEF TypeOK, FlagsTypeOK
    <3> QED BY <2>1, <2>3, <3>1, ReceiverRests
  <2> QED BY <2>2, <2>3
<1>5. CASE TimerReload
  <2>1. /\ mEventFlags' = mEventFlags \union events /\ pc = "reload"
        /\ UNCHANGED <<accepted, readable, unread>>
    BY <1>5 DEF TimerReload, registers, sockets
  <2>2. CASE EPOLLIN \in events
    <3>1. ~ readable /\ EPOLLIN \notin mEventFlags
      BY <1>d, <2>1, <2>2 DEF OnePhase, Pacing, Announced
    <3>2. Receiver!Resume
      BY <2>1, <2>2, <3>1 DEF Receiver!Resume, Phase, Announced
    <3> QED BY <3>2 DEF Receiver!Next
  <2>3. CASE EPOLLIN \notin events
    BY <2>1, <2>3, ReceiverRests
  <2> QED BY <2>2, <2>3
<1>6. CASE \E c \in clients : ClientSend(c)
  <2>1. PICK c \in clients : ClientSend(c)
    BY <1>6
  <2>2. /\ c = Solo /\ accepted > 0
        /\ unread[Solo] < InCap /\ unread'[Solo] = unread[Solo] + 1
    BY <2>1, <1>t DEF ClientSend
  <2>3. UNCHANGED <<accepted, readable, mEventFlags>>
    BY <2>1 DEF ClientSend, registers, loopVars
  <2>4. Receiver!Supply
    BY <2>2, <2>3 DEF Receiver!Supply, Phase, Announced
  <2> QED BY <2>4 DEF Receiver!Next
<1>7. CASE \E c \in clients : ClientDrain(c)
  <2>1. UNCHANGED <<accepted, readable, unread, mEventFlags>>
    BY <1>7 DEF ClientDrain, registers, loopVars
  <2> QED BY <2>1, ReceiverRests
<1> QED
  BY <1>1, <1>2, <1>3, <1>4, <1>5, <1>6, <1>7, QuietStep, ReceiverRests

LEMMA TransmitterStep ==
  ASSUME OneTerminal, PortInv, [Next]_vars
  PROVE  [Transmitter!Next]_(Transmitter!vars)
<1> USE DEF PortInv
<1>t. /\ Clients = {Solo} /\ accepted \in {0, 1}
      /\ clients = IF accepted = 0 THEN {} ELSE {Solo}
      /\ queued[Solo] \in 0..OutCap /\ queued \in [Clients -> 0..OutCap]
  BY SoloClient DEF TypeOK, DataTypeOK
<1>d. EPOLLIN # EPOLLOUT /\ EPOLLOUT \in Directions
  BY DEF EPOLLIN, EPOLLOUT, Directions
<1>1. CASE WriteData
  <2>1. writable /\ writable' = FALSE /\ queued[Solo] < OutCap /\ accepted > 0
    BY <1>1, <1>d DEF WriteData, GuestMayTouchData, OneTerminal, HeldIsInStock,
                      Held, Announced
  <2>2. EPOLLOUT \notin mEventFlags /\ EPOLLOUT \notin mEventFlags'
    BY <1>1, <1>d, <2>1 DEF WriteData, loopVars, OnePhase, Announced
  <2>3. queued'[Solo] = queued[Solo] + 1
    BY <1>1, <1>t, <2>1 DEF WriteData
  <2>4. accepted' = accepted
    BY <1>1 DEF WriteData, loopVars
  <2>5. /\ OutCap - queued[Solo] > 0
        /\ OutCap - queued'[Solo] = (OutCap - queued[Solo]) - 1
    BY <1>t, <2>1, <2>3
  <2>6. Transmitter!Take
    BY <1>d, <2>1, <2>2, <2>4, <2>5 DEF Transmitter!Take, Phase, Announced
  <2> QED BY <2>6 DEF Transmitter!Next
<1>2. CASE ReadData
  <2>1. UNCHANGED <<accepted, writable, queued, mEventFlags>>
    BY <1>2 DEF ReadData, loopVars
  <2> QED BY <2>1, TransmitterRests
<1>3. CASE AcceptClient
  <2>1. accepted = 0 /\ accepted' = 1
    BY <1>3, <1>t DEF AcceptClient, TypeOK, HandTypeOK, OneTerminal
  <2>2. UNCHANGED <<writable, queued, mEventFlags>>
    BY <1>3 DEF AcceptClient, registers
  <2>3. Transmitter!Open
    BY <1>d, <2>1, <2>2 DEF Transmitter!Open, Phase, Announced
  <2> QED BY <2>3 DEF Transmitter!Next
<1>4. CASE HandleClientEvent
  <2>1. /\ writable' = (writable \/ EPOLLOUT \in events)
        /\ mEventFlags' = mEventFlags \ events
        /\ UNCHANGED <<accepted, queued>> /\ pc = "client"
    BY <1>4 DEF HandleClientEvent, FlagsAfter, sockets
  <2>2. CASE EPOLLOUT \in events
    <3>1. accepted > 0 /\ OutCap - queued[Solo] > 0
      BY <1>t, <2>1, <2>2 DEF HeldIsInStock, Held
    <3>2. EPOLLOUT \in mEventFlags
      BY <2>1, <2>2 DEF OnePhase
    <3>3. Transmitter!Announce
      BY <1>d, <2>1, <2>2, <3>1, <3>2 DEF Transmitter!Announce, Phase, Announced
    <3> QED BY <3>3 DEF Transmitter!Next
  <2>3. CASE EPOLLOUT \notin events
    <3>1. writable' = writable
      BY <2>1, <2>3 DEF TypeOK, FlagsTypeOK
    <3> QED BY <2>1, <2>3, <3>1, TransmitterRests
  <2> QED BY <2>2, <2>3
<1>5. CASE TimerReload
  <2>1. /\ mEventFlags' = mEventFlags \union events /\ pc = "reload"
        /\ UNCHANGED <<accepted, writable, queued>>
    BY <1>5 DEF TimerReload, registers, sockets
  <2>2. CASE EPOLLOUT \in events
    <3>1. ~ writable /\ EPOLLOUT \notin mEventFlags
      BY <1>d, <2>1, <2>2 DEF OnePhase, Pacing, Announced
    <3>2. Transmitter!Resume
      BY <1>d, <2>1, <2>2, <3>1 DEF Transmitter!Resume, Phase, Announced
    <3> QED BY <3>2 DEF Transmitter!Next
  <2>3. CASE EPOLLOUT \notin events
    BY <2>1, <2>3, TransmitterRests
  <2> QED BY <2>2, <2>3
<1>6. CASE \E c \in clients : ClientDrain(c)
  <2>1. PICK c \in clients : ClientDrain(c)
    BY <1>6
  <2>2. /\ c = Solo /\ accepted > 0
        /\ queued[Solo] > 0 /\ queued'[Solo] = queued[Solo] - 1
    BY <2>1, <1>t DEF ClientDrain
  <2>3. UNCHANGED <<accepted, writable, mEventFlags>>
    BY <2>1 DEF ClientDrain, registers, loopVars
  <2>4. /\ OutCap - queued[Solo] < OutCap
        /\ OutCap - queued'[Solo] = (OutCap - queued[Solo]) + 1
    BY <1>t, <2>2
  <2>5. Transmitter!Supply
    BY <1>d, <2>2, <2>3, <2>4 DEF Transmitter!Supply, Phase, Announced
  <2> QED BY <2>5 DEF Transmitter!Next
<1>7. CASE \E c \in clients : ClientSend(c)
  <2>1. UNCHANGED <<accepted, writable, queued, mEventFlags>>
    BY <1>7 DEF ClientSend, registers, loopVars
  <2> QED BY <2>1, TransmitterRests
<1> QED
  BY <1>1, <1>2, <1>3, <1>4, <1>5, <1>6, <1>7, QuietStep, TransmitterRests

(* The receiver announces a byte to the guest only when the terminal has sent *)
(* one, hands it over once and pauses before the next; nothing the guest does *)
(* to the other registers, and no order of its accesses and the loop's        *)
(* handlers, makes it do anything else.                                       *)
THEOREM ReceiverImplements ==
  ASSUME OneTerminal
  PROVE  Spec => Receiver!Spec
<1>1. Init => Receiver!Init
  <2> SUFFICES ASSUME Init PROVE Receiver!Init
    OBVIOUS
  <2>1. unread[Solo] = 0 /\ accepted = 0 /\ EPOLLIN \in mEventFlags
    BY DEF Init, OneTerminal, Clients, Solo, Directions
  <2> QED BY <2>1 DEF Receiver!Init, Phase
<1> QED BY <1>1, ReceiverStep, PortInvHolds, PTL DEF Spec, Receiver!Spec

(* The transmitter tells the guest that it may write only when there is room, *)
(* once for each byte, and pauses in between: a byte the guest writes when    *)
(* told to is never lost.                                                     *)
THEOREM TransmitterImplements ==
  ASSUME OneTerminal
  PROVE  Spec => Transmitter!Spec
<1>1. Init => Transmitter!Init
  <2> SUFFICES ASSUME Init PROVE Transmitter!Init
    OBVIOUS
  <2>1. queued[Solo] = 0 /\ accepted = 0 /\ EPOLLOUT \in mEventFlags
    BY DEF Init, OneTerminal, Clients, Solo, Directions
  <2> QED BY <2>1 DEF Transmitter!Init, Phase
<1> QED BY <1>1, TransmitterStep, PortInvHolds, PTL DEF Spec, Transmitter!Spec

=============================================================================
