---------------------------- MODULE SerialProofs ----------------------------
(***************************************************************************)
(* Invariants of Serial, for any number of terminals, any buffer sizes and *)
(* any values in the divisor latch.                                        *)
(***************************************************************************)
EXTENDS Serial, TLAPS

USE SerialAssumption

\* timerfd_settime leaves a timer in one of its states.
LEMMA TimerStates ==
  ASSUME NEW t \in {"idle", "armed", "fired"}, NEW d
  PROVE  TimerAfterSet(t, d) \in {"idle", "armed", "fired"}
  BY DEF TimerAfterSet

\* ... and the delay of a usable divisor arms it.
LEMMA ArmedWhenUsable ==
  ASSUME NEW t, NEW d \in UsableDivisors
  PROVE  TimerAfterSet(t, d) = "armed"
<1>1. d # 0
  BY DEF UsableDivisors
<1> QED
  BY <1>1 DEF TimerAfterSet

\* Each flag of the port is a truth value after every step.
LEMMA FlagsStep ==
  ASSUME TypeOK, [Next]_vars
  PROVE  FlagsTypeOK'
<1> USE DEF TypeOK, FlagsTypeOK
<1>1. CASE ReadData
  BY <1>1 DEF ReadData, latch, loopVars, hand
<1>2. CASE WriteData
  BY <1>2 DEF WriteData, latch, loopVars, hand
<1>3. CASE WriteDataToClosedPeer
  BY <1>3 DEF WriteDataToClosedPeer, registers, latch, loopVars, hand, sockets
<1>4. CASE ReadIIR
  BY <1>4 DEF ReadIIR, latch, loopVars, hand, sockets
<1>5. CASE \E r, w \in BOOLEAN : WriteIER(r, w)
  BY <1>5 DEF WriteIER, RefreshedFlag, IerRaises, latch, loopVars, hand, sockets
<1>6. CASE \E b \in BOOLEAN : WriteLCR(b)
  BY <1>6 DEF WriteLCR, registers, loopVars, hand, sockets
<1>7. CASE \E b \in DivisorLowBytes : WriteDivisorLow(b)
  BY <1>7 DEF WriteDivisorLow, registers, loopVars, hand, sockets
<1>8. CASE \E b \in DivisorHighBytes : WriteDivisorHigh(b)
  BY <1>8 DEF WriteDivisorHigh, registers, loopVars, hand, sockets
<1>9. CASE Wait
  BY <1>9 DEF Wait, WaitServer, WaitClient, WaitTimer,
              registers, latch, loopVars, sockets
<1>10. CASE AcceptClient
  BY <1>10 DEF AcceptClient, registers, latch
<1>11. CASE HandleClientEvent
  BY <1>11 DEF HandleClientEvent, latch, sockets
<1>12. CASE TimerRead
  BY <1>12 DEF TimerRead, registers, latch, loopVars, sockets
<1>13. CASE TimerReload
  BY <1>13 DEF TimerReload, registers, latch, sockets
<1>14. CASE Outside
  <2>1. CASE Connect
    BY <2>1 DEF Connect, registers, latch, loopVars, hand
  <2>2. CASE \E c \in clients : ClientSend(c) \/ ClientDrain(c) \/ HangUp(c)
    BY <2>2 DEF ClientSend, ClientDrain, HangUp, registers, latch, loopVars, hand
  <2>3. CASE \E d \in Directions : TimerExpires(d)
    BY <2>3 DEF TimerExpires, registers, latch, loopVars, hand, sockets
  <2> QED
    BY <1>14, <2>1, <2>2, <2>3 DEF Outside
<1>15. CASE KvmInject
  BY <1>15 DEF KvmInject, registers, latch, loopVars, hand, sockets
<1>16. CASE UNCHANGED vars
  BY <1>16 DEF vars, registers, latch, loopVars, hand, sockets
<1>17. CASE AcceptFails
  BY <1>17 DEF AcceptFails, registers, latch, loopVars, sockets
<1> QED
  BY <1>1, <1>2, <1>3, <1>4, <1>5, <1>6, <1>7, <1>8, <1>9, <1>10, <1>11,
     <1>12, <1>13, <1>14, <1>15, <1>16, <1>17
  DEF Next, vCPU, Handler, Terminated

\* The latch, masks, buffers and the event in hand keep their types.
LEMMA DataStep ==
  ASSUME TypeOK, [Next]_vars
  PROVE  DataTypeOK'
<1> USE DEF TypeOK, DataTypeOK, Clients, clients
<1>1. CASE ReadData
  <2>1. unread' \in [Clients -> 0..InCap]
    <3>1. CASE unread' = unread
      BY <3>1
    <3>2. CASE \E c \in clients :
                 unread[c] > 0 /\ unread' = [unread EXCEPT ![c] = @ - 1]
      BY <3>2
    <3> QED
      BY <1>1, <3>1, <3>2 DEF ReadData
  <2>2. timer' \in [Directions -> {"idle", "armed", "fired"}]
    BY <1>1, TimerStates DEF ReadData
  <2> QED
    BY <1>1, <2>1, <2>2 DEF ReadData, latch, loopVars, hand
<1>2. CASE WriteData
  <2>1. queued' \in [Clients -> 0..OutCap]
    BY <1>2 DEF WriteData
  <2>2. timer' \in [Directions -> {"idle", "armed", "fired"}]
    BY <1>2, TimerStates DEF WriteData
  <2> QED
    BY <1>2, <2>1, <2>2 DEF WriteData, latch, loopVars, hand
<1>3. CASE WriteDataToClosedPeer
  BY <1>3 DEF WriteDataToClosedPeer, latch, loopVars, hand, sockets
<1>4. CASE ReadIIR
  BY <1>4 DEF ReadIIR, latch, loopVars, hand, sockets
<1>5. CASE \E r, w \in BOOLEAN : WriteIER(r, w)
  <2>1. UNCHANGED <<latch, loopVars, timer, hand, sockets>>
    BY <1>5 DEF WriteIER
  <2> QED
    BY <2>1 DEF latch, loopVars, hand, sockets
<1>6. CASE \E b \in BOOLEAN : WriteLCR(b)
  BY <1>6 DEF WriteLCR, loopVars, hand, sockets
<1>7. CASE \E b \in DivisorLowBytes : WriteDivisorLow(b)
  BY <1>7 DEF WriteDivisorLow, loopVars, hand, sockets
<1>8. CASE \E b \in DivisorHighBytes : WriteDivisorHigh(b)
  BY <1>8 DEF WriteDivisorHigh, loopVars, hand, sockets
<1>9. CASE WaitServer
  BY <1>9 DEF WaitServer, latch, loopVars, sockets
<1>10. CASE \E c \in clients : WaitClient(c)
  BY <1>10 DEF WaitClient, Ready, latch, loopVars, sockets
<1>11. CASE \E d \in Directions : WaitTimer(d)
  BY <1>11 DEF WaitTimer, latch, loopVars, sockets
<1>12. CASE AcceptClient
  <2>1. accepted' \in 0..MaxClients /\ accepted < accepted'
    BY <1>12 DEF AcceptClient, HandTypeOK
  <2> QED
    BY <1>12, <2>1 DEF AcceptClient, Done, latch
<1>13. CASE HandleClientEvent
  BY <1>13 DEF HandleClientEvent, Done, FlagsAfter, latch, sockets
<1>14. CASE TimerRead
  BY <1>14 DEF TimerRead, latch, loopVars, sockets
<1>15. CASE TimerReload
  BY <1>15 DEF TimerReload, Done, Reloaded, latch, sockets
<1>16. CASE Connect
  BY <1>16 DEF Connect, latch, loopVars, hand
<1>17. CASE \E c \in clients : ClientSend(c)
  BY <1>17 DEF ClientSend, latch, loopVars, hand
<1>18. CASE \E c \in clients : ClientDrain(c)
  BY <1>18 DEF ClientDrain, latch, loopVars, hand
<1>19. CASE \E c \in clients : HangUp(c)
  BY <1>19 DEF HangUp, latch, loopVars, hand
<1>20. CASE \E d \in Directions : TimerExpires(d)
  BY <1>20 DEF TimerExpires, latch, loopVars, hand, sockets
<1>21. CASE KvmInject
  BY <1>21 DEF KvmInject, latch, loopVars, hand, sockets
<1>22. CASE UNCHANGED vars
  BY <1>22 DEF vars, latch, loopVars, hand, sockets
<1>23. CASE AcceptFails
  BY <1>23 DEF AcceptFails, Done, latch, loopVars, sockets
<1> QED
  BY <1>1, <1>2, <1>3, <1>4, <1>5, <1>6, <1>7, <1>8, <1>9, <1>10, <1>11,
     <1>12, <1>13, <1>14, <1>15, <1>16, <1>17, <1>18, <1>19, <1>20, <1>21,
     <1>22, <1>23
  DEF Next, vCPU, Wait, Handler, Outside, Terminated

\* What the loop thread has in hand stays valid until it is handled.
LEMMA HandStep ==
  ASSUME TypeOK, [Next]_vars
  PROVE  HandTypeOK'
<1> USE DEF TypeOK, HandTypeOK, DataTypeOK, clients
<1>1. CASE vCPU
  <2>1. UNCHANGED <<hand, accepted, connecting>>
    BY <1>1 DEF vCPU, ReadData, WriteData, WriteDataToClosedPeer, ReadIIR,
                WriteIER, WriteLCR, WriteDivisorLow, WriteDivisorHigh,
                loopVars, sockets
  <2> QED
    BY <2>1 DEF hand
<1>2. CASE WaitServer
  BY <1>2 DEF WaitServer, loopVars, sockets
<1>3. CASE \E c \in clients : WaitClient(c)
  BY <1>3 DEF WaitClient, loopVars, sockets
<1>4. CASE \E d \in Directions : WaitTimer(d)
  BY <1>4 DEF WaitTimer, loopVars, sockets
<1>5. CASE AcceptClient
  BY <1>5 DEF AcceptClient, Done
<1>6. CASE HandleClientEvent
  BY <1>6 DEF HandleClientEvent, Done, sockets
<1>7. CASE TimerRead
  BY <1>7 DEF TimerRead, loopVars, sockets
<1>8. CASE TimerReload
  BY <1>8 DEF TimerReload, Done, sockets
<1>9. CASE Outside
  BY <1>9 DEF Outside, Connect, ClientSend, ClientDrain, HangUp, TimerExpires,
              loopVars, hand, sockets
<1>10. CASE KvmInject
  BY <1>10 DEF KvmInject, loopVars, hand, sockets
<1>11. CASE UNCHANGED vars
  BY <1>11 DEF vars, loopVars, hand, sockets
<1>12. CASE AcceptFails
  BY <1>12 DEF AcceptFails, Done, loopVars, sockets
<1> QED
  BY <1>1, <1>2, <1>3, <1>4, <1>5, <1>6, <1>7, <1>8, <1>9, <1>10, <1>11, <1>12
  DEF Next, Wait, Handler, Terminated

\* The type invariant: in particular the event in hand always names an
\* accepted client or a single timer, the listening masks stay within the two
\* directions, and the buffers within their bounds.
THEOREM TypeCorrect == Spec => []TypeOK
<1>1. Init => TypeOK
  <2> SUFFICES ASSUME Init PROVE TypeOK
    OBVIOUS
  <2>1. FlagsTypeOK
    BY DEF Init, FlagsTypeOK
  <2>2. DataTypeOK
    BY DEF Init, DataTypeOK, Clients, clients
  <2>3. HandTypeOK
    BY DEF Init, HandTypeOK
  <2> QED
    BY <2>1, <2>2, <2>3 DEF TypeOK
<1>2. TypeOK /\ [Next]_vars => TypeOK'
  BY FlagsStep, DataStep, HandStep DEF TypeOK
<1> QED
  BY <1>1, <1>2, PTL DEF Spec

-----------------------------------------------------------------------------
\* Line status and interrupt conditions agree, whatever the guest does: the
\* four places that write them (data port, IER, IIR, client handler) keep the
\* receiver's pair equal and the transmitter's ordered.
THEOREM IirMatchesLsrHolds == Spec => []IirMatchesLsr
<1>1. Init => IirMatchesLsr
  BY DEF Init, IirMatchesLsr
<1>2. TypeOK /\ IirMatchesLsr /\ [Next]_vars => IirMatchesLsr'
  <2> SUFFICES ASSUME TypeOK, IirMatchesLsr, [Next]_vars PROVE IirMatchesLsr'
    OBVIOUS
  <2> USE DEF IirMatchesLsr, FlagsTypeOK, TypeOK
  <2>1. CASE ReadData
    BY <2>1 DEF ReadData
  <2>2. CASE WriteData
    BY <2>2 DEF WriteData
  <2>3. CASE ReadIIR
    BY <2>3 DEF ReadIIR
  <2>4. CASE \E r, w \in BOOLEAN : WriteIER(r, w)
    BY <2>4 DEF WriteIER, RefreshedFlag
  <2>5. CASE HandleClientEvent
    BY <2>5 DEF HandleClientEvent
  <2>6. CASE UNCHANGED registers
    BY <2>6 DEF registers
  <2> QED
    BY <2>1, <2>2, <2>3, <2>4, <2>5, <2>6
    DEF Next, vCPU, Wait, Handler, Outside, Terminated, vars, WriteLCR,
        WriteDataToClosedPeer, WriteDivisorLow, WriteDivisorHigh, WaitServer,
        WaitClient, WaitTimer, AcceptClient, AcceptFails, TimerRead,
        TimerReload, Connect, ClientSend, ClientDrain, HangUp, TimerExpires, KvmInject
<1> QED
  BY <1>1, <1>2, TypeCorrect, PTL DEF Spec

\* No client is registered for less than the port listens for: the client
\* handler only narrows the mask, and everything that widens it reloads all.
THEOREM EveryClientHeardHolds == Spec => []EveryClientHeard
<1>1. Init => EveryClientHeard
  BY DEF Init, EveryClientHeard, clients
<1>2. TypeOK /\ EveryClientHeard /\ [Next]_vars => EveryClientHeard'
  <2> SUFFICES ASSUME TypeOK, EveryClientHeard, [Next]_vars
               PROVE  EveryClientHeard'
    OBVIOUS
  <2> USE DEF EveryClientHeard, TypeOK, DataTypeOK, HandTypeOK, clients, Clients
  <2>1. CASE AcceptClient
    BY <2>1 DEF AcceptClient
  <2>2. CASE HandleClientEvent
    BY <2>2 DEF HandleClientEvent, FlagsAfter
  <2>3. CASE TimerReload
    BY <2>3 DEF TimerReload, Reloaded
  <2>4. CASE UNCHANGED loopVars
    BY <2>4 DEF loopVars
  <2> QED
    BY <2>1, <2>2, <2>3, <2>4
    DEF Next, vCPU, Wait, Handler, Outside, Terminated, vars, ReadData,
        WriteData, WriteDataToClosedPeer, ReadIIR, WriteIER, WriteLCR,
        WriteDivisorLow, WriteDivisorHigh, WaitServer, WaitClient, WaitTimer,
        AcceptFails, TimerRead, Connect, ClientSend, ClientDrain, HangUp,
        TimerExpires, KvmInject
<1> QED
  BY <1>1, <1>2, TypeCorrect, PTL DEF Spec

\* As long as the guest programs a usable divisor before it touches the data
\* register, each direction is listened for, announced or being paced.
THEOREM NotStrandedHolds ==
  ASSUME GuestProgramsDivisor
  PROVE  Spec => []NotStranded
<1>1. Init => NotStranded
  BY DEF Init, NotStranded
<1>2. TypeOK /\ NotStranded /\ [Next]_vars => NotStranded'
  <2> SUFFICES ASSUME TypeOK, NotStranded, [Next]_vars,
                      NEW d \in Directions
               PROVE  (d \in mEventFlags \/ Announced(d) \/ Pacing(d))'
    BY DEF NotStranded
  <2>0. d \in mEventFlags \/ Announced(d) \/ Pacing(d)
    BY DEF NotStranded
  <2> USE DEF TypeOK, DataTypeOK, HandTypeOK
  <2>1. CASE ReadData
    <3>1. CASE d = EPOLLIN
      <4>1. divisor \in UsableDivisors
        BY <2>1 DEF ReadData, GuestMayTouchData
      <4>2. timer'[d] = TimerAfterSet(timer[d], divisor)
        BY <2>1, <3>1 DEF ReadData
      <4> QED
        BY <4>1, <4>2, ArmedWhenUsable DEF Pacing
    <3>2. CASE d # EPOLLIN
      <4>1. timer'[d] = timer[d]
        BY <2>1, <3>2 DEF ReadData
      <4> QED
        BY <2>0, <2>1, <3>2, <4>1 DEF ReadData, Announced, Pacing, loopVars, hand
    <3> QED
      BY <3>1, <3>2
  <2>2. CASE WriteData
    <3>1. CASE d = EPOLLOUT
      <4>1. divisor \in UsableDivisors
        BY <2>2 DEF WriteData, GuestMayTouchData
      <4>2. timer'[d] = TimerAfterSet(timer[d], divisor)
        BY <2>2, <3>1 DEF WriteData
      <4> QED
        BY <4>1, <4>2, ArmedWhenUsable DEF Pacing
    <3>2. CASE d # EPOLLOUT
      <4>1. d = EPOLLIN /\ timer'[d] = timer[d]
        BY <2>2, <3>2 DEF WriteData, Directions
      <4> QED
        BY <2>0, <2>2, <4>1 DEF WriteData, Announced, Pacing, loopVars, hand
    <3> QED
      BY <3>1, <3>2
  <2>3. CASE ReadIIR \/ \E r, w \in BOOLEAN : WriteIER(r, w)
    BY <2>0, <2>3 DEF ReadIIR, WriteIER, Announced, Pacing, loopVars, hand
  <2>4. CASE Wait
    BY <2>0, <2>4 DEF Wait, WaitServer, WaitClient, WaitTimer, Announced,
                      Pacing, registers, loopVars
  <2>5. CASE AcceptClient
    BY <2>0, <2>5 DEF AcceptClient, Announced, Pacing, registers
  <2>6. CASE HandleClientEvent
    BY <2>0, <2>6 DEF HandleClientEvent, FlagsAfter, Announced, Pacing, Directions
  <2>7. CASE TimerRead
    <3>1. CASE d \in events
      BY <2>7, <3>1 DEF TimerRead, Pacing
    <3>2. CASE d \notin events
      BY <2>0, <2>7, <3>2 DEF TimerRead, Announced, Pacing, registers, loopVars
    <3> QED
      BY <3>1, <3>2
  <2>8. CASE TimerReload
    BY <2>0, <2>8 DEF TimerReload, Announced, Pacing, registers
  <2>9. CASE \E e \in Directions : TimerExpires(e)
    BY <2>0, <2>9 DEF TimerExpires, Announced, Pacing, registers, loopVars, hand
  <2>10. CASE UNCHANGED <<registers, loopVars, timer, hand>>
    BY <2>0, <2>10 DEF Announced, Pacing, registers, loopVars, hand
  <2>11. CASE AcceptFails
    BY <2>0, <2>11 DEF AcceptFails, Announced, Pacing, registers, loopVars
  <2> QED
    BY <2>1, <2>2, <2>3, <2>4, <2>5, <2>6, <2>7, <2>8, <2>9, <2>10, <2>11
    DEF Next, vCPU, Handler, Outside, Terminated, vars, WriteLCR,
        WriteDataToClosedPeer, WriteDivisorLow, WriteDivisorHigh, Connect,
        ClientSend, ClientDrain, HangUp, KvmInject
<1> QED
  BY <1>1, <1>2, TypeCorrect, PTL DEF Spec

\* What keeps a terminal served: for each direction epoll watches it, or the
\* guest has been told, or a timer will have epoll watch it again.
NobodyForgotten ==
  \A c \in clients, d \in Directions :
    d \in interest[c] \/ Announced(d) \/ Pacing(d)

\* However many terminals connect, and whenever they do, none is left out: with
\* a usable divisor each is listened to, or will be once the guest has acted or
\* a timer has run out.
THEOREM NobodyForgottenHolds ==
  ASSUME GuestProgramsDivisor
  PROVE  Spec => []NobodyForgotten
<1>1. NotStranded /\ EveryClientHeard => NobodyForgotten
  BY DEF NotStranded, EveryClientHeard, NobodyForgotten
<1> QED BY <1>1, NotStrandedHolds, EveryClientHeardHolds, PTL

-----------------------------------------------------------------------------
\* A condition that becomes pending triggers the line in the same step, for a
\* guest that does not set the transmitter's enable bit twice.
THEOREM NewConditionFiresHolds ==
  ASSUME GuestIER # "any"
  PROVE  Spec => NewConditionFires
<1>1. TypeOK /\ IirMatchesLsr /\ [Next]_vars
        => [~InterruptPending /\ InterruptPending' => irqfd']_vars
  <2> SUFFICES ASSUME TypeOK, IirMatchesLsr, Next,
                      ~InterruptPending, InterruptPending'
               PROVE  irqfd'
    OBVIOUS
  <2> USE DEF TypeOK, FlagsTypeOK, IirMatchesLsr, InterruptPending
  <2>1. CASE \E r, w \in BOOLEAN : WriteIER(r, w)
    BY <2>1 DEF WriteIER, RefreshedFlag, IerRaises
  <2>2. CASE HandleClientEvent
    BY <2>2 DEF HandleClientEvent, RxRaises, TxRaises
  <2>3. CASE ReadData
    BY <2>3 DEF ReadData
  <2>4. CASE WriteData
    BY <2>4 DEF WriteData
  <2>5. CASE ReadIIR
    BY <2>5 DEF ReadIIR
  <2>6. CASE UNCHANGED registers
    BY <2>6 DEF registers
  <2> QED
    BY <2>1, <2>2, <2>3, <2>4, <2>5, <2>6
    DEF Next, vCPU, Wait, Handler, Outside, Terminated, vars, WriteLCR,
        WriteDataToClosedPeer, WriteDivisorLow, WriteDivisorHigh, WaitServer,
        WaitClient, WaitTimer, AcceptClient, AcceptFails, TimerRead,
        TimerReload, Connect, ClientSend, ClientDrain, HangUp, TimerExpires, KvmInject
<1> QED
  BY <1>1, TypeCorrect, IirMatchesLsrHolds, PTL DEF Spec, NewConditionFires

-----------------------------------------------------------------------------
(* One terminal, and a guest that consults the line status.                 *)

\* Each direction is in at most one phase, whatever the guest writes to the
\* divisor and whether or not the terminal hangs up.
THEOREM OnePhaseHolds ==
  ASSUME MaxClients = 1, GuestChecksStatus
  PROVE  Spec => []OnePhase
<1>1. Init => OnePhase
  BY DEF Init, OnePhase, Announced, Pacing, clients
<1>2. TypeOK /\ OnePhase /\ [Next]_vars => OnePhase'
  <2> SUFFICES ASSUME TypeOK, OnePhase, [Next]_vars PROVE OnePhase'
    OBVIOUS
  <2> USE DEF OnePhase, TypeOK, DataTypeOK, HandTypeOK, Announced, Pacing,
              Directions, Clients, clients
  <2>1. CASE ReadData
    <3>1. readable /\ readable' = FALSE
      BY <2>1 DEF ReadData, GuestMayTouchData
    <3>2. timer'[EPOLLOUT] = timer[EPOLLOUT]
      BY <2>1 DEF ReadData, EPOLLIN, EPOLLOUT
    <3> QED
      BY <2>1, <3>1, <3>2 DEF ReadData, loopVars, hand, EPOLLIN, EPOLLOUT
  <2>2. CASE WriteData
    <3>1. writable /\ writable' = FALSE
      BY <2>2 DEF WriteData, GuestMayTouchData
    <3>2. timer'[EPOLLIN] = timer[EPOLLIN]
      BY <2>2 DEF WriteData, EPOLLIN, EPOLLOUT
    <3> QED
      BY <2>2, <3>1, <3>2 DEF WriteData, loopVars, hand, EPOLLIN, EPOLLOUT
  <2>3. CASE WaitServer
    BY <2>3 DEF WaitServer, registers, loopVars
  <2>4. CASE \E c \in clients : WaitClient(c)
    BY <2>4 DEF WaitClient, registers, loopVars
  <2>5. CASE \E d \in Directions : WaitTimer(d)
    BY <2>5 DEF WaitTimer, registers, loopVars
  <2>6. CASE AcceptClient
    BY <2>6 DEF AcceptClient, Done, registers
  <2>7. CASE HandleClientEvent
    <3>1. /\ mEventFlags' = mEventFlags \ events /\ events \subseteq mEventFlags
          /\ pc' = "wait" /\ timer' = timer
      BY <2>7 DEF HandleClientEvent, FlagsAfter, Done
    <3>2. ASSUME NEW d \in Directions
          PROVE  Announced(d)' => Announced(d) \/ d \in events
      BY <2>7 DEF HandleClientEvent, EPOLLIN, EPOLLOUT
    <3>3. \A c \in clients' : interest'[c] = mEventFlags'
      BY <2>7 DEF HandleClientEvent
    <3> HIDE DEF Announced
    <3> QED
      BY <3>1, <3>2, <3>3
  <2>8. CASE TimerRead
    BY <2>8 DEF TimerRead, registers, loopVars
  <2>9. CASE TimerReload
    BY <2>9 DEF TimerReload, Reloaded, Done, registers
  <2>10. CASE \E d \in Directions : TimerExpires(d)
    BY <2>10 DEF TimerExpires, registers, loopVars, hand
  <2>11. CASE UNCHANGED <<readable, writable, loopVars, timer, hand>>
    BY <2>11 DEF loopVars, hand
  <2>12. CASE AcceptFails
    BY <2>12 DEF AcceptFails, Done, registers, loopVars
  <2> QED
    BY <2>1, <2>2, <2>3, <2>4, <2>5, <2>6, <2>7, <2>8, <2>9, <2>10, <2>11,
       <2>12
    DEF Next, vCPU, Wait, Handler, Outside, Terminated, vars, registers,
        ReadIIR, WriteIER, WriteLCR, WriteDataToClosedPeer, WriteDivisorLow,
        WriteDivisorHigh, Connect, ClientSend, ClientDrain, HangUp, KvmInject
<1> QED
  BY <1>1, <1>2, TypeCorrect, PTL DEF Spec

\* The delay of the divisor separates any two bytes of a direction.
THEOREM PacedHolds ==
  ASSUME MaxClients = 1, GuestChecksStatus
  PROVE  Spec => []Paced
<1>1. OnePhase => Paced
  BY DEF OnePhase, Paced, Pacing
<1> QED
  BY <1>1, OnePhaseHolds, PTL

\* "can't fire a new interrupt unless there aren't any pending": the handler
\* tests only the other direction's condition, and its own cannot be pending.
THEOREM FiresOnlyWhenIdleHolds ==
  ASSUME MaxClients = 1, GuestChecksStatus
  PROVE  Spec => FiresOnlyWhenIdle
<1>1. TypeOK /\ IirMatchesLsr /\ OnePhase /\ [Next]_vars
        => [~irqfd /\ irqfd' => ~InterruptPending]_vars
  <2> SUFFICES ASSUME TypeOK, IirMatchesLsr, OnePhase, Next, ~irqfd, irqfd'
               PROVE  ~InterruptPending
    OBVIOUS
  <2> USE DEF TypeOK, FlagsTypeOK, IirMatchesLsr, InterruptPending
  <2>1. CASE \E r, w \in BOOLEAN : WriteIER(r, w)
    BY <2>1 DEF WriteIER, RefreshedFlag, IerRaises
  <2>2. CASE HandleClientEvent
    <3>1. /\ EPOLLIN \in events => ~readable
          /\ EPOLLOUT \in events => ~writable
      BY <2>2 DEF HandleClientEvent, OnePhase, Announced, Directions,
                  EPOLLIN, EPOLLOUT
    <3> QED
      BY <2>2, <3>1 DEF HandleClientEvent, RxRaises, TxRaises
  <2>3. CASE irqfd' = irqfd \/ irqfd' = FALSE
    BY <2>3
  <2> QED
    BY <2>1, <2>2, <2>3
    DEF Next, vCPU, Wait, Handler, Outside, Terminated, vars, ReadData,
        WriteData, ReadIIR, WriteLCR, WriteDataToClosedPeer, WriteDivisorLow,
        WriteDivisorHigh, WaitServer, WaitClient, WaitTimer, AcceptClient,
        AcceptFails, TimerRead, TimerReload, Connect, ClientSend, ClientDrain,
        HangUp, TimerExpires, KvmInject
<1> QED
  BY <1>1, TypeCorrect, IirMatchesLsrHolds, OnePhaseHolds, PTL
  DEF Spec, FiresOnlyWhenIdle

=============================================================================
