-------------------------- MODULE SerialRefinement --------------------------
(***************************************************************************)
(* With a single terminal that stays connected and a guest that touches    *)
(* the data register only when the line status allows it, each direction   *)
(* of the UART implements PacedPort.                                       *)
(***************************************************************************)
EXTENDS Serial

Solo == 1    \* the one terminal

\* Where direction d stands, read off the listening mask and the line status
Phase(d) ==
  IF d \in mEventFlags THEN "listen"
  ELSE IF Announced(d) THEN "ready"
  ELSE "pause"

Receiver ==
  INSTANCE PacedPort WITH Cap <- InCap, open <- accepted > 0,
                          phase <- Phase(EPOLLIN), stock <- unread[Solo]

Transmitter ==
  INSTANCE PacedPort WITH Cap <- OutCap, open <- accepted > 0,
                          phase <- Phase(EPOLLOUT),
                          stock <- OutCap - queued[Solo]

\* The receiver announces a byte only when one is there, gives each byte to
\* the guest once and pauses after it, and neither rests in its pause nor sits
\* on a byte to announce: ioread8 on the data port, the client handler, the
\* read timer and its handler together.
ReceiverServes == Receiver!FairSpec

\* The same of the transmitter: a byte the guest is told it may write has room,
\* and the guest is told so again and again.
TransmitterServes == Transmitter!FairSpec

=============================================================================
