----------------------------- MODULE SerialIrq ------------------------------
(***************************************************************************)
(* The interrupt path of one port: Serial's irq eventfd, the level KVM     *)
(* derives from it (KVM_IRQFD with KVM_IRQFD_FLAG_RESAMPLE), an edge-      *)
(* triggered input of the 8259, and a guest with an interrupt handler.     *)
(*                                                                         *)
(* KVM raises the line when it reads the eventfd and lowers it when the    *)
(* guest signals the end of the interrupt.  The resample eventfd it then   *)
(* writes has no reader: the handler for it is compiled out (Serial.cpp    *)
(* 137-154).  KVM, the 8259 and the guest are external.                    *)
(***************************************************************************)
EXTENDS Serial

CONSTANT
  EoiFirst    \* the guest's handler signals the end of interrupt on entry,
              \* not after it has found no more conditions pending

ASSUME SerialIrqAssumption == EoiFirst \in BOOLEAN

VARIABLES
  line,       \* level of the interrupt line
  irr,        \* the 8259 has latched a rising edge
  isr         \* what the guest's handler does next, "out" when not running

pic == <<line, irr, isr>>
irqVars == <<vars, pic>>

IrqTypeOK ==
  /\ TypeOK
  /\ line \in BOOLEAN
  /\ irr \in BOOLEAN
  /\ isr \in {"out", "eoi", "iir", "receive", "transmit"}

-----------------------------------------------------------------------------
\* The eventfd is read; only a low line makes an edge
Inject ==
  /\ KvmInject
  /\ line' = TRUE
  /\ irr' = (irr \/ ~line)
  /\ isr' = isr

\* The guest's code outside the handler may do anything to the port.  The
\* handler is entered only when it can work: not while the guest has the
\* divisor latch selected.
Main == isr = "out" /\ vCPU /\ UNCHANGED pic

TakeInterrupt ==
  /\ isr = "out" /\ irr
  /\ GuestMayTouchData(TRUE)
  /\ irr' = FALSE
  /\ isr' = IF EoiFirst THEN "eoi" ELSE "iir"
  /\ UNCHANGED <<line, vars>>

\* End of interrupt: the 8259 notifies KVM, which lowers the line
Eoi ==
  /\ isr = "eoi"
  /\ line' = FALSE
  /\ isr' = IF EoiFirst THEN "iir" ELSE "out"
  /\ UNCHANGED <<irr, vars>>

IsrReadIIR ==
  /\ isr = "iir"
  /\ UNCHANGED <<line, irr>>
  /\ \/ /\ readInterruptEnabled /\ readInterruptFlag
        /\ isr' = "receive"
        /\ UNCHANGED vars
     \/ ReadIIR /\ isr' = "transmit"
     \/ /\ ~InterruptPending
        /\ isr' = IF EoiFirst THEN "out" ELSE "eoi"
        /\ UNCHANGED vars

IsrService ==
  /\ isr' = "iir"
  /\ UNCHANGED <<line, irr>>
  /\ \/ isr = "receive" /\ ReadData
     \/ isr = "transmit" /\ (WriteData \/ WriteDataToClosedPeer)
     \/ isr = "transmit" /\ UNCHANGED vars    \* nothing left to send

Guest == Main \/ TakeInterrupt \/ Eoi \/ IsrReadIIR \/ IsrService

IrqInit == Init /\ line = FALSE /\ irr = FALSE /\ isr = "out"

IrqNext ==
  alive /\ (Guest \/ Inject \/ ((Wait \/ Handler \/ Outside) /\ UNCHANGED pic))

IrqSpec == IrqInit /\ [][IrqNext]_irqVars

\* KVM delivers, the handler runs to its end, and the guest comes back from
\* programming the divisor
IrqFairSpec ==
  /\ IrqSpec
  /\ WF_irqVars(Inject)
  /\ WF_irqVars(Eoi \/ IsrReadIIR \/ IsrService)
  /\ SF_irqVars(TakeInterrupt)
  /\ WF_irqVars(Main /\ dlab /\ ~dlab')

-----------------------------------------------------------------------------
\* While the port has an interrupt pending, one is on its way to the guest or
\* the guest's handler is still to look at the port.  The triggers in
\* handleClientEvent and the IER write have to keep this up with no refresh.
NoLostInterrupt ==
  InterruptPending => irqfd \/ irr \/ isr # "out"

\* Seen from the guest: a pending condition gets its handler to look at IIR.
PendingHeard ==
  InterruptPending /\ divisor \in UsableDivisors
    ~> ~InterruptPending \/ isr = "iir"

\* The receiver, which IIR reports first, is always serviced; the transmitter
\* may wait while a terminal sends as fast as the guest reads.
ReceiveServed ==
  readInterruptEnabled /\ readInterruptFlag /\ divisor \in UsableDivisors
    ~> ~(readInterruptEnabled /\ readInterruptFlag)

=============================================================================
