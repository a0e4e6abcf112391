----------------------------- MODULE MCExitLoop -----------------------------
(* The guest of the run of ExitLoop.                                         *)
EXTENDS ExitLoop

Out(port, width, value) ==
  [port |-> port, write |-> TRUE, width |-> width, count |-> 1, value |-> value]
In(port, width) ==
  [port |-> port, write |-> FALSE, width |-> width, count |-> 1, value |-> 0]
Rep(access) == [access EXCEPT !.count = 2]

(* The gate closed, opened and opened with its other bits set; both ends of  *)
(* a range and the ports next to it; every width a device has or has not;    *)
(* string instructions.                                                      *)
GuestAccesses ==
  {Out(146, 1, v) : v \in {0, 2, 3}}
  \union {In(p, 1) : p \in {111, 112, 113, 114, 147, 63491, 63492, 63494}}
  \union {In(113, 2), In(1023, 1), Out(1024, 2, 0), Out(57344, 4, 0),
          In(57344, 1), In(62464, 2), In(62527, 1), Out(146, 2, 0),
          Out(128, 1, 0), Rep(Out(146, 1, 0)), Rep(In(147, 1)), Rep(In(53248, 2))}

(* The four formats of register B; bytes that are hours 11, 17 or 23 in one  *)
(* format and another hour or none in the others; RAM at both ends.          *)
GuestData ==
  [r \in 0..127 |-> CASE r = 11 -> {0, 2, 4, 6}
                      [] r = 10 -> {128}
                      [] r = 5 -> {17, 35, 145}
                      [] r \in Cells -> {0, 255}
                      [] OTHER -> {1}]

GuestSelects == {5, 10, 11, 50, 127, 142}

=============================================================================
