----------------------------- MODULE SectorDisk -----------------------------
(***************************************************************************)
(* What a BIOS promises of a disk transfer: a request names a first sector *)
(* and a count, and exactly the sectors it names are moved, each once and  *)
(* in order, before the next request is taken.                             *)
(***************************************************************************)
EXTENDS Integers, Sequences

CONSTANTS
  Requests,
  First(_)      \* first sector that a request names

VARIABLES
  request,      \* <<>> before the first one, then <<the last one taken>>
  moved         \* sectors moved for it, in order

vars == <<request, moved>>

Run(first, count) == [i \in 1..count |-> first + i - 1]

Left == IF request = <<>> THEN 0 ELSE request[1].count - Len(moved)

Start(r) ==
  /\ Left = 0
  /\ request' = <<r>>
  /\ moved' = <<>>

Move(n) ==
  /\ n \in 1..Left
  /\ moved' = moved \o Run(First(request[1]) + Len(moved), n)
  /\ UNCHANGED request

Init == request = <<>> /\ moved = <<>>

Next == (\E r \in Requests : Start(r)) \/ (\E n \in 1..Left : Move(n))

Spec == Init /\ [][Next]_vars

=============================================================================
