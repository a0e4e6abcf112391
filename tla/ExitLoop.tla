------------------------------ MODULE ExitLoop ------------------------------
(***************************************************************************)
(* The emulator's process: main's loop around KVM_RUN (src/src/main.cpp    *)
(* 667-1023), the dispatch of port accesses to the devices, the A20 gate   *)
(* with slot 3, SIGINT, and the ways the process ends, with what they do   *)
(* to the clock's RAM file.                                                *)
(*                                                                         *)
(* The serial ports, the disk ports and the flash disk have modules of     *)
(* their own; here they only accept an access or not.  KVM is external: it *)
(* interrupts KVM_RUN for a signal only if the signal arrives while the    *)
(* thread is inside, and it refuses to delete a slot that does not exist.  *)
(***************************************************************************)
EXTENDS DS12887

CONSTANTS
  Accesses,      \* port accesses of the guest other than writes to the clock:
                 \* [port, write, width, count, value]
  SelectBytes,   \* bytes it writes to port 70h
  DataBytes,     \* ... and to port 71h, by the selected register
  MaxLate        \* bound on "late"

ASSUME AccessesAssumption ==
  /\ Accesses \subseteq [port : Nat, write : BOOLEAN,
                         width : {1, 2, 4}, count : Nat \ {0}, value : 0..255]
  /\ SelectBytes \subseteq 0..255
  /\ DataBytes \in [0..127 -> SUBSET (0..255)]
  /\ MaxLate \in Nat

VARIABLES
  phase,         \* the vCPU thread: "off", "test" of requestExit, "enter"
                 \* before KVM_RUN, "guest" inside it, "leave" once main
                 \* has returned, "saving" while the clock saves, "join"
  requestExit,
  status,        \* how the last process ended: "none", "success", "failure",
                 \* "refused" (also a failure, of a change of slot 3), "killed"
  a20register, lastA20Register,
  slot3,         \* slot 3 exists: addresses above 1 MiB wrap to 0
  file,          \* roms/cmos.bin
  late           \* exits handled since requestExit was set

gate == <<a20register, lastA20Register, slot3>>
vars == <<rtc, phase, requestExit, status, gate, file, late>>

Running == phase \in {"test", "enter", "guest"}
FileTypeOK == file = Erased \/ file \in [Slots -> 0..255]

TypeOK ==
  /\ RtcTypeOK
  /\ phase \in {"off", "test", "enter", "guest", "leave", "saving", "join"}
  /\ requestExit \in BOOLEAN
  /\ status \in {"none", "success", "failure", "refused", "killed"}
  /\ Running => status = "none"
  /\ a20register \in 0..255 /\ lastA20Register \in 0..255
  /\ slot3 \in BOOLEAN
  /\ FileTypeOK
  /\ late \in 0..MaxLate

-----------------------------------------------------------------------------
(* Dispatch.  The tables are std::maps whose order makes ranges equal when  *)
(* neither lies wholly before the other; a port is a range of length 1.     *)

Before(start, length, port) == start + length - 1 < port
Find(table, port) ==
  {r \in table : ~Before(r[1], r[2], port) /\ ~Before(port, 1, r[1])}

pioDeviceTable ==
  { <<63492, 2, "prescaler">>, <<57344, 8, "hex">>, <<112, 2, "rtc">>,
    <<1016, 8, "serial">>, <<760, 8, "serial">>,
    <<1000, 8, "serial">>, <<744, 8, "serial">> }
  \union {<<62464 + 8 * i, 8, "csu">> : i \in 0..7}

\* The handlers that take one byte ("byte"), one datum ("disk"), or anything
ioHandlerTable ==
  { <<96, 5, "any">>, <<114, 2, "any">>, <<53248, 8, "disk">>,
    <<146, 1, "a20">>, <<408, 8, "byte">>, <<63540, 1, "byte">>,
    <<63584, 1, "byte">>, <<63600, 1, "byte">> }
  \union {<<p, 1, "byte">> : p \in {116, 117, 119, 128}}

DeviceAt(port) ==
  LET pio == Find(pioDeviceTable, port)
      static == Find(ioHandlerTable, port)
  IN  IF pio # {} THEN (CHOOSE r \in pio : TRUE)[3]
      ELSE IF static # {} THEN (CHOOSE r \in static : TRUE)[3]
      ELSE "any"                                      \* handlerUnhandled

Device == [port \in {a.port : a \in Accesses} \union {112, 113} |-> DeviceAt(port)]

\* The device implements the access; another one throws through main
Accepts(access) ==
  CASE Device[access.port] \in {"rtc", "serial"} -> access.width = 1
    [] Device[access.port] = "prescaler" -> access.width \in {1, 2}
    [] Device[access.port] = "hex" -> access.write
    [] Device[access.port] = "csu" -> access.width = 2
    [] OTHER -> TRUE

\* What assertions demand, in a build that checks them: no string instruction
\* that KVM reports as several data at once, and bytes only.  Another build
\* takes the first byte.
Asserted(access) ==
  /\ access.count = 1 \/ Device[access.port] = "any"
  /\ access.width = 1 \/ Device[access.port] \notin {"byte", "a20"}

-----------------------------------------------------------------------------
(* How a process begins and ends.                                           *)

Boot ==
  /\ phase = "off"
  /\ RtcConstruct(file)
  /\ phase' = "test" /\ status' = "none"
  /\ requestExit' = FALSE /\ late' = 0
  /\ a20register' = 2 /\ lastA20Register' = 2 /\ slot3' = FALSE
  /\ UNCHANGED file

\* A port that cannot be started makes main return before the clock exists
BootFails ==
  /\ phase = "off" /\ status # "failure"
  /\ status' = "failure"
  /\ UNCHANGED <<rtc, phase, requestExit, gate, file, late>>

Return(s) == phase' = "leave" /\ status' = s

\* The process is gone at once, without destructors: an exception that leaves
\* main, a failed assertion, SIGPIPE, SIGKILL, an event for a port that has
\* been destroyed
Die == phase' = "off" /\ status' = "killed"

Killed ==
  /\ phase # "off" /\ Die
  /\ UNCHANGED <<rtc, requestExit, gate, file, late>>

\* The destructors: the ports, then the clock, which opens its file - that
\* truncates it - and writes it, then the loop
OpenFile ==
  /\ phase = "leave" /\ phase' = "saving"
  /\ file' = Erased
  /\ UNCHANGED <<rtc, requestExit, status, gate, late>>

WriteFile ==
  /\ phase = "saving" /\ phase' = "join"
  /\ file' = ram
  /\ UNCHANGED <<rtc, requestExit, status, gate, late>>

Join ==
  /\ phase = "join" /\ phase' = "off"
  /\ UNCHANGED <<rtc, requestExit, status, gate, file, late>>

-----------------------------------------------------------------------------
(* The loop.                                                                *)

Test_Ignored ==
  /\ phase = "test"
  /\ phase' = "enter" /\ UNCHANGED status
  /\ UNCHANGED <<rtc, requestExit, gate, file, late>>

Test ==
  /\ phase = "test"
  /\ IF requestExit THEN Return("success") ELSE phase' = "enter" /\ UNCHANGED status
  /\ UNCHANGED <<rtc, requestExit, gate, file, late>>

Enter ==
  /\ phase = "enter" /\ phase' = "guest"
  /\ UNCHANGED <<rtc, requestExit, status, gate, file, late>>

\* sigintHandler runs on this thread; KVM_RUN is left with EINTR
Sigint ==
  /\ phase # "off"
  /\ requestExit' = TRUE
  /\ phase' = IF phase = "guest" THEN "test" ELSE phase
  /\ UNCHANGED <<rtc, status, gate, file, late>>

CountLate == late' = IF requestExit /\ late < MaxLate THEN late + 1 ELSE late

Halt ==
  /\ phase = "guest" /\ phase' = "test"
  /\ requestExit' = TRUE
  /\ CountLate
  /\ UNCHANGED <<rtc, status, gate, file>>

\* KVM_RUN fails with another error ("success": the loop is left by a break),
\* or reports an exit that the loop does not know
RunFails(s) ==
  /\ phase = "guest" /\ s \in {"success", "failure"} /\ Return(s)
  /\ UNCHANGED <<rtc, requestExit, gate, file, late>>

\* After a port access: if the gate has changed, slot 3 follows it.  To open it
\* deletes the slot, which fails if there is none.
SlotFollows_Remembered ==
  LET open == Bit(a20register', 2)
      changed == open # Bit(lastA20Register, 2)
  IN  /\ lastA20Register' = lastA20Register
      /\ slot3' = IF changed THEN ~open ELSE slot3
      /\ IF changed /\ open /\ ~slot3 THEN Return("refused")
                                      ELSE phase' = "test" /\ UNCHANGED status

SlotFollows_WholeByte ==
  LET open == Bit(a20register', 2)
      changed == a20register' # lastA20Register
  IN  /\ lastA20Register' = IF changed THEN a20register' ELSE lastA20Register
      /\ slot3' = IF changed THEN ~open ELSE slot3
      /\ IF changed /\ open /\ ~slot3 THEN Return("refused")
                                      ELSE phase' = "test" /\ UNCHANGED status

SlotFollows ==
  LET open == Bit(a20register', 2)
      changed == open # Bit(lastA20Register, 2)
  IN  /\ lastA20Register' = IF changed THEN a20register' ELSE lastA20Register
      /\ slot3' = IF changed THEN ~open ELSE slot3
      /\ IF changed /\ open /\ ~slot3 THEN Return("refused")
                                      ELSE phase' = "test" /\ UNCHANGED status

\* An access that is carried out.  Only the clock and the gate keep anything here.
Access(access) ==
  /\ phase = "guest" /\ Accepts(access)
  /\ Device[access.port] # "rtc" \/ ~access.write
  /\ a20register' = IF Device[access.port] = "a20" /\ access.write
                    THEN access.value ELSE a20register
  /\ SlotFollows
  /\ CountLate
  /\ UNCHANGED <<rtc, requestExit, file>>

AccessRefused(access) ==
  /\ phase = "guest" /\ ~(Accepts(access) /\ Asserted(access))
  /\ Die
  /\ UNCHANGED <<rtc, requestExit, gate, file, late>>

ClockAccess(port, byte) ==
  /\ phase = "guest"
  /\ Device[port] = "rtc"
  /\ IF port % 2 = 0 THEN RtcSelect(byte) ELSE RtcWrite(byte)
  /\ a20register' = a20register
  /\ SlotFollows
  /\ CountLate
  /\ UNCHANGED <<requestExit, file>>

Init ==
  /\ phase = "off" /\ status = "none"
  /\ selectedRegister = 0 /\ index = 0
  /\ control = [r \in {A, B} |-> 0]
  /\ alarm = [r \in Alarms |-> 0] /\ meant = [r \in Alarms |-> NoTime]
  /\ ram = [i \in Slots |-> 0] /\ data = 0
  /\ requestExit = FALSE /\ late = 0
  /\ a20register = 2 /\ lastA20Register = 2 /\ slot3 = FALSE
  /\ file = Erased

Next ==
  \/ Boot \/ BootFails \/ Killed \/ OpenFile \/ WriteFile \/ Join
  \/ Test \/ Enter \/ Sigint \/ Halt
  \/ \E s \in {"success", "failure"} : RunFails(s)
  \/ \E access \in Accesses : Access(access) \/ AccessRefused(access)
  \/ \E byte \in SelectBytes : ClockAccess(112, byte)
  \/ \E byte \in DataBytes[selectedRegister] : ClockAccess(113, byte)

Spec == Init /\ [][Next]_vars

-----------------------------------------------------------------------------
\* Addresses wrap at 1 MiB exactly while the guest has the gate closed: the
\* loop's copy of the register, the register and KVM's slot agree after every
\* exit, whatever the guest writes to the other bits and the other ports.
WrapFollowsGate == Running => (slot3 <=> ~Bit(a20register, 2))

\* The gate never makes the loop ask for a slot operation that KVM refuses.
GateChangesSucceed == status # "refused"

\* After SIGINT at most one more exit is handled: the one that brings the
\* thread back when the signal came after the test and before KVM_RUN.
AtMostOneLateExit == late <= 1

\* The clock's RAM is the store it should be, across every end of the process:
\* what the guest writes to port 71h goes to the register it named at port 70h,
\* and from there to the file and back.
session == CASE Running \/ phase = "leave" -> "open"
             [] phase = "saving" -> "saving"
             [] OTHER -> "none"
cells == [c \in Cells |-> IF session = "none" THEN 0 ELSE RamRead(c)]
stored == IF file = Erased THEN Erased ELSE [c \in Cells |-> file[RamIndex(c)]]
Store == INSTANCE NvramStore WITH Addresses <- 0..127, Bytes <- 0..255, Blank <- 0,
                                  address <- index % 128
ImplementsStore == Store!Spec

=============================================================================
