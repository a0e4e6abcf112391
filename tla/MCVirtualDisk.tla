--------------------------- MODULE MCVirtualDisk ----------------------------
(* Requests for the runs of VirtualDisk.  With 255 heads and 63 sectors per  *)
(* track, cylinder 4, head 20, sector 17 is sector 65536: the first whose    *)
(* address needs the high word.                                              *)
EXTENDS VirtualDisk

At(c, h, s) == [cylinder |-> c, head |-> h, sector |-> s]

Requested(places, counts) ==
  {[op |-> o, cylinder |-> p.cylinder, head |-> p.head, sector |-> p.sector,
    count |-> n] : o \in {"read", "write"}, p \in places, n \in counts}

(* Blocks 0 and 65536 differ in the high word only.  Starts at every kind of *)
(* place in a block: first, second and last; counts below, at and over the   *)
(* rest of the block and of the next one; 128 sectors from a block's start.  *)
WithinWord ==
  Requested({At(0, 0, 1), At(0, 0, 2), At(0, 0, 8), At(0, 1, 1),
             At(4, 20, 17), At(4, 20, 24)}, {1, 2, 7, 8, 9, 16, 17})
  \union Requested({At(0, 0, 1), At(4, 20, 17)}, {128})

(* Sector 65530, the last block under 65536 *)
AcrossWord == Requested({At(4, 20, 11)}, {6, 7})

=============================================================================
