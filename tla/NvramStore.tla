----------------------------- MODULE NvramStore -----------------------------
(***************************************************************************)
(* What battery-backed RAM behind an address and a data port promises, and *)
(* how far a file that is written at the end of the program can keep it.   *)
(* Each byte written to the data port is in the cell that the address port *)
(* was last given, and in no other.  A session starts from what the last   *)
(* save left.  An orderly end saves all of the session's writes; a session *)
(* that ends otherwise leaves what was saved before it, unless it ends     *)
(* while saving, when everything may be gone.                              *)
(***************************************************************************)
CONSTANTS Cells, Addresses, Bytes, Blank, Erased

VARIABLES
  session,   \* "none", "open", "saving"
  cells,     \* the RAM of the session, Blank everywhere between sessions
  stored,    \* what is kept: as cells, or Erased
  address,   \* last written to the address port, 0 when a session begins
  data       \* last written to the data port

vars == <<session, cells, stored, address, data>>
ports == <<address, data>>

AllBlank == [c \in Cells |-> Blank]

Begin ==
  /\ session = "none" /\ session' = "open"
  /\ cells' = IF stored = Erased THEN AllBlank ELSE stored
  /\ address' = 0 /\ data' = 0
  /\ UNCHANGED stored

Select(a) ==
  /\ session = "open"
  /\ address' = a
  /\ UNCHANGED <<session, cells, stored, data>>

\* An address that is no cell takes the byte as well
Write(byte) ==
  /\ session = "open"
  /\ data' = byte
  /\ cells' = [c \in Cells |-> IF c = address THEN byte ELSE cells[c]]
  /\ UNCHANGED <<session, stored, address>>

BeginSave ==
  /\ session = "open" /\ session' = "saving"
  /\ stored' = Erased
  /\ UNCHANGED <<cells, ports>>

Save ==
  /\ session = "saving" /\ session' = "none"
  /\ stored' = cells
  /\ cells' = AllBlank
  /\ UNCHANGED ports

Die ==
  /\ session # "none" /\ session' = "none"
  /\ cells' = AllBlank
  /\ UNCHANGED <<stored, ports>>

Init ==
  /\ session = "none" /\ cells = AllBlank /\ stored = Erased
  /\ address = 0 /\ data = 0

Next ==
  \/ Begin \/ BeginSave \/ Save \/ Die
  \/ \E a \in Addresses : Select(a)
  \/ \E byte \in Bytes : Write(byte)

Spec == Init /\ [][Next]_vars

=============================================================================
