-------------------------- MODULE SerialIrqProofs ---------------------------
(***************************************************************************)
(* No interrupt is lost between the port and a guest whose handler signals *)
(* the end of interrupt before it looks at the port.                       *)
(***************************************************************************)
EXTENDS SerialIrq, SerialProofs

\* Outside the handler's first step, a high line means an edge is latched: the
\* level falls before the handler looks for work, so the next trigger counts.
LineIsSeen == line => irr \/ isr = "eoi"

\* Every step of the composition is a step of the port or leaves it alone.
LEMMA IrqStepIsSerialStep == IrqNext => [Next]_vars
<1> SUFFICES ASSUME IrqNext PROVE [Next]_vars
  OBVIOUS
<1>1. CASE alive /\ Guest
  BY <1>1 DEF Guest, Main, TakeInterrupt, Eoi, IsrReadIIR, IsrService, Next, vCPU
<1>2. CASE alive /\ Inject
  BY <1>2 DEF Inject, Next
<1>3. CASE alive /\ (Wait \/ Handler \/ Outside)
  BY <1>3 DEF Next
<1> QED
  BY <1>1, <1>2, <1>3 DEF IrqNext

\* The composition keeps every invariant of the port.
LEMMA IrqImplementsSerial == IrqSpec => Spec
<1>1. IrqInit => Init
  BY DEF IrqInit
<1>2. [IrqNext]_irqVars => [Next]_vars
  BY IrqStepIsSerialStep DEF irqVars
<1> QED
  BY <1>1, <1>2, PTL DEF IrqSpec, Spec

\* The port keeps its types under the guest's interrupt handler, and so do the
\* line, the latched edge and the handler's place.
THEOREM IrqTypeCorrect == IrqSpec => []IrqTypeOK
<1> DEFINE PicOK == /\ line \in BOOLEAN /\ irr \in BOOLEAN
                    /\ isr \in {"out", "eoi", "iir", "receive", "transmit"}
<1>1. IrqInit => PicOK
  BY DEF IrqInit
<1>2. PicOK /\ [IrqNext]_irqVars => PicOK'
  <2> SUFFICES ASSUME PicOK, [IrqNext]_irqVars PROVE PicOK'
    OBVIOUS
  <2>1. CASE UNCHANGED pic
    BY <2>1 DEF pic
  <2>2. CASE TakeInterrupt \/ Eoi \/ IsrService
    BY <2>2 DEF TakeInterrupt, Eoi, IsrService
  <2>3. CASE IsrReadIIR
    BY <2>3 DEF IsrReadIIR
  <2>4. CASE Inject
    BY <2>4 DEF Inject
  <2> QED
    BY <2>1, <2>2, <2>3, <2>4 DEF IrqNext, Guest, Main, irqVars
<1>3. IrqTypeOK <=> TypeOK /\ PicOK
  BY DEF IrqTypeOK
<1> QED
  BY <1>1, <1>2, <1>3, IrqImplementsSerial, TypeCorrect, PTL DEF IrqSpec

\* A pending condition always has an interrupt on its way or a handler about to
\* look, although the handler for KVM's resample event is compiled out.
THEOREM NoLostInterruptHolds ==
  ASSUME EoiFirst, GuestIER # "any"
  PROVE  IrqSpec => []NoLostInterrupt
<1> DEFINE PicOK == /\ line \in BOOLEAN /\ irr \in BOOLEAN
                    /\ isr \in {"out", "eoi", "iir", "receive", "transmit"}
           Inv == PicOK /\ NoLostInterrupt /\ LineIsSeen
           Fires == [~InterruptPending /\ InterruptPending' => irqfd']_vars
<1>1. IrqInit => Inv
  BY DEF IrqInit, Init, NoLostInterrupt, LineIsSeen, InterruptPending
<1>2. Inv /\ Fires /\ [IrqNext]_irqVars => Inv'
  <2> SUFFICES ASSUME Inv, Fires, [IrqNext]_irqVars PROVE Inv'
    OBVIOUS
  <2> USE DEF NoLostInterrupt, LineIsSeen
  <2>0. InterruptPending' => InterruptPending \/ irqfd'
    BY DEF vars, registers, InterruptPending
  <2>a. ASSUME irqfd => irqfd', UNCHANGED pic PROVE Inv'
    BY <2>0, <2>a DEF pic
  <2>1. CASE Main
    BY <2>1, <2>a DEF Main, vCPU, ReadData, WriteData, WriteDataToClosedPeer,
       ReadIIR, WriteIER, WriteLCR, WriteDivisorLow, WriteDivisorHigh
  <2>2. CASE TakeInterrupt
    BY <2>2 DEF TakeInterrupt
  <2>3. CASE Eoi
    BY <2>3 DEF Eoi
  <2>4. CASE IsrReadIIR
    BY <2>4 DEF IsrReadIIR, vars, InterruptPending, registers
  <2>5. CASE IsrService
    BY <2>5 DEF IsrService
  <2>6. CASE Inject
    BY <2>6 DEF Inject
  <2>7. CASE (Wait \/ Handler \/ Outside) /\ UNCHANGED pic
    <3>1. CASE Wait
      BY <2>7, <2>a, <3>1 DEF Wait, WaitServer, WaitClient, WaitTimer
    <3>2. CASE Handler
      <4>1. irqfd => irqfd'
        BY <3>2 DEF Handler, AcceptClient, AcceptFails, HandleClientEvent,
                     TimerRead, TimerReload
      <4> QED
        BY <2>7, <2>a, <4>1
    <3>3. CASE Outside
      BY <2>7, <2>a, <3>3 DEF Outside, Connect, ClientSend, ClientDrain, HangUp,
                              TimerExpires
    <3> QED
      BY <2>7, <3>1, <3>2, <3>3
  <2>8. CASE UNCHANGED <<vars, pic>>
    BY <2>8, <2>a DEF vars
  <2> QED
    BY <2>1, <2>2, <2>3, <2>4, <2>5, <2>6, <2>7, <2>8
    DEF IrqNext, Guest, irqVars
<1> QED
  BY <1>1, <1>2, NewConditionFiresHolds, IrqImplementsSerial, PTL
  DEF IrqSpec, NewConditionFires

=============================================================================
