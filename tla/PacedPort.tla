----------------------------- MODULE PacedPort ------------------------------
(***************************************************************************)
(* What one direction of the UART promises the guest and one terminal.     *)
(* "stock" is what the direction has to offer: bytes the terminal has sent *)
(* and the guest has not read (receiver), or room for bytes the guest has  *)
(* not written (transmitter).  A unit of stock is announced, taken once,   *)
(* and followed by a pause in which nothing is announced.                  *)
(***************************************************************************)
EXTENDS Naturals

CONSTANT Cap    \* the most stock there can be

VARIABLES
  open,    \* a terminal is connected
  phase,   \* "listen", "ready" (announced to the guest), "pause"
  stock

vars == <<open, phase, stock>>

Init == ~open /\ phase = "listen" /\ stock \in 0..Cap

Open == ~open /\ open' = TRUE /\ UNCHANGED <<phase, stock>>

Supply ==
  /\ open /\ stock < Cap
  /\ stock' = stock + 1
  /\ UNCHANGED <<open, phase>>

Announce ==
  /\ open /\ phase = "listen" /\ stock > 0
  /\ phase' = "ready"
  /\ UNCHANGED <<open, stock>>

\* The guest takes exactly the unit it was told of
Take ==
  /\ phase = "ready" /\ stock > 0
  /\ stock' = stock - 1
  /\ phase' = "pause"
  /\ UNCHANGED open

Resume ==
  /\ phase = "pause"
  /\ phase' = "listen"
  /\ UNCHANGED <<open, stock>>

Next == Open \/ Supply \/ Announce \/ Take \/ Resume

Spec == Init /\ [][Next]_vars

\* The direction never rests with stock that it has not announced, nor in a
\* pause; the guest need not take what it is offered
FairSpec == Spec /\ WF_vars(Announce) /\ WF_vars(Resume)

=============================================================================
