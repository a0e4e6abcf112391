--------------------------- MODULE ExitLoopProofs ---------------------------
(***************************************************************************)
(* The invariants of ExitLoop for every guest and every set of RAM         *)
(* registers, and its refinement of NvramStore.                            *)
(***************************************************************************)
EXTENDS ExitLoop, TLAPS

(* A byte of the guest's reaches the clock or the gate only as a byte. *)
LEMMA ByteBits ==
  ASSUME NEW n \in Nat
  PROVE  n % 128 \in 0..127 /\ Bit(n, 2) \in BOOLEAN /\ Bit(n, 4) \in BOOLEAN
BY DEF Bit

LEMMA LateBound == MaxLate \in Nat
BY AccessesAssumption, Zenon DEF AccessesAssumption

(* What the guest writes are bytes. *)
LEMMA GuestBytes ==
  /\ \A access \in Accesses : access.value \in 0..255
  /\ \A byte \in SelectBytes : byte \in 0..255
  /\ \A r \in 0..127 : \A byte \in DataBytes[r] : byte \in 0..255
<1>1. \A access \in Accesses : access.value \in 0..255
  BY AccessesAssumption DEF AccessesAssumption
<1>2. \A byte \in SelectBytes : byte \in 0..255
  BY AccessesAssumption, Zenon DEF AccessesAssumption
<1>3. DataBytes \in [0..127 -> SUBSET (0..255)]
  BY AccessesAssumption, Zenon DEF AccessesAssumption
<1> QED BY <1>1, <1>2, <1>3

(* What the conversion of a byte written to an alarm register can give *)
LEMMA AlarmWrittenType ==
  ASSUME NEW r \in Alarms, NEW v \in 0..255
  PROVE  AlarmWritten(r, v) \in 0..85
<1> DEFINE low == v % 16
           high(m) == (v \div 16) % m
<1>1. low \in 0..15 /\ high(4) \in 0..3 /\ high(8) \in 0..7
  OBVIOUS
<1>2. v % 32 \in 0..31 /\ v % 64 \in 0..63
  OBVIOUS
<1>3. CASE r = 5
  BY <1>1, <1>2, <1>3 DEF AlarmWritten
<1>4. CASE r # 5
  BY <1>1, <1>2, <1>4 DEF AlarmWritten
<1> QED BY <1>3, <1>4

(* Writing an alarm register parses what reading prints, in every format. *)
LEMMA AlarmRoundTrip ==
  ASSUME NEW r \in Alarms, NEW t \in 0..(IF r = 5 THEN 23 ELSE 59)
  PROVE  AlarmWritten(r, AlarmRead(r, t)) = t
<1>1. CASE r # 5
  <2>1. t \in 0..59
    BY <1>1
  <2>2. CASE DataMode
    BY <1>1, <2>1, <2>2 DEF AlarmWritten, AlarmRead
  <2>3. CASE ~DataMode
    <3>1. AlarmRead(r, t) = 16 * (t \div 10) + (t % 10)
      BY <1>1, <2>3 DEF AlarmRead, mapToBCD
    <3> QED BY <1>1, <2>1, <2>3, <3>1 DEF AlarmWritten
  <2> QED BY <2>2, <2>3
<1>2. CASE r = 5
  <2>1. t \in 0..23
    BY <1>2
  <2>2. CASE TwentyFourHourTime
    <3>1. CASE DataMode
      BY <1>2, <2>1, <2>2, <3>1 DEF AlarmWritten, AlarmRead
    <3>2. CASE ~DataMode
      <4>1. AlarmRead(r, t) = 16 * (t \div 10) + (t % 10)
        BY <1>2, <2>2, <3>2 DEF AlarmRead, mapToBCD
      <4> QED BY <1>2, <2>1, <2>2, <3>2, <4>1 DEF AlarmWritten
    <3> QED BY <3>1, <3>2
  <2>3. CASE ~TwentyFourHourTime
    <3> DEFINE n == t % 12
               pm == IF t \div 12 # 0 THEN 128 ELSE 0
    <3>1. n \in 0..11 /\ pm \in {0, 128} /\ t = n + (IF pm = 128 THEN 12 ELSE 0)
      BY <2>1
    <3>2. CASE DataMode
      <4>1. AlarmRead(r, t) = n + pm
        BY <1>2, <2>3, <3>2 DEF AlarmRead
      <4> HIDE DEF n, pm
      <4> QED BY <1>2, <2>3, <3>1, <3>2, <4>1 DEF AlarmWritten
    <3>3. CASE ~DataMode
      <4>1. AlarmRead(r, t) = 16 * (n \div 10) + (n % 10) + pm
        BY <1>2, <2>3, <3>3 DEF AlarmRead, mapToBCD
      <4> HIDE DEF n, pm
      <4> QED BY <1>2, <2>3, <3>1, <3>3, <4>1 DEF AlarmWritten
    <3> QED BY <3>2, <3>3
  <2> QED BY <2>2, <2>3
<1> QED BY <1>1, <1>2

(* A byte written to an alarm register stands for the number it is stored as, *)
(* if it stands for a time at all.                                            *)
LEMMA MeaningStored ==
  ASSUME NEW r \in Alarms, NEW v, Meaning(r, v) # NoTime
  PROVE  Meaning(r, v) = AlarmWritten(r, v)
<1> DEFINE times == {t \in 0..(IF r = 5 THEN 23 ELSE 59) : AlarmRead(r, t) = v}
           t0 == CHOOSE t \in times : TRUE
<1>1. times # {} /\ Meaning(r, v) = t0
  BY DEF Meaning
<1>2. t0 \in times
  BY <1>1
<1>3. t0 \in 0..(IF r = 5 THEN 23 ELSE 59) /\ AlarmRead(r, t0) = v
  BY <1>2
<1> HIDE DEF t0, times
<1> QED BY <1>1, <1>3, AlarmRoundTrip

-----------------------------------------------------------------------------
(* The clock: what the device's three operations do to its invariant.        *)

RtcInv ==
  /\ RtcTypeOK
  /\ index \in 0..255 /\ selectedRegister = index % 128
  /\ AlarmKeepsTime

\* The array's indexes of the cells, one for each
LEMMA CellIndexes ==
  /\ \A c \in Cells : c \in 14..127 /\ IsRam(c) /\ RamIndex(c) \in Slots
  /\ \A c \in Cells, r \in 0..127 : RamIndex(c) = RamIndex(r) => c = r
  /\ \A r \in 0..127 : IsRam(r) => RamIndex(r) \in 0..113
BY CellsAssumption DEF CellsAssumption, IsRam, RamIndex, Slots

LEMMA ConstructKeeps ==
  ASSUME FileTypeOK, RtcConstruct(file) PROVE RtcInv'
<1>1. ram' \in [Slots -> 0..255]
  BY DEF FileTypeOK, RtcConstruct
<1> QED BY <1>1 DEF RtcConstruct, RtcInv, RtcTypeOK, AlarmKeepsTime, IsRam, A, B

LEMMA SelectKeeps ==
  ASSUME RtcInv, NEW byte \in 0..255, RtcSelect(byte) PROVE RtcInv'
<1>1. byte % 128 \in 0..127
  BY ByteBits
<1>2. IsRam(byte % 128) => RamIndex(byte % 128) \in 0..113
  BY <1>1, CellIndexes
<1> QED BY <1>1, <1>2 DEF RtcSelect, RtcInv, RtcTypeOK, AlarmKeepsTime

LEMMA WriteKeeps ==
  ASSUME RtcInv, NEW byte \in 0..255, RtcWrite(byte) PROVE RtcInv'
<1> DEFINE r == selectedRegister
<1>1. RtcTypeOK'
  <2>1. \A q \in Alarms : AlarmWritten(q, byte) \in 0..85
    BY AlarmWrittenType
  <2>2. byte % 128 \in 0..127
    BY ByteBits
  <2>3. control' \in [{A, B} -> 0..255] /\ control'[A] < 128
    BY <2>2 DEF RtcInv, RtcTypeOK, RtcWrite, A, B
  <2>4. alarm' \in [Alarms -> 0..85]
    BY <2>1 DEF RtcInv, RtcTypeOK, RtcWrite
  <2>5. ram' \in [Slots -> 0..255]
    BY DEF RtcInv, RtcTypeOK, RtcWrite
  <2> QED BY <2>3, <2>4, <2>5 DEF RtcInv, RtcTypeOK, RtcWrite
<1>2. AlarmKeepsTime'
  <2> SUFFICES ASSUME NEW q \in Alarms, meant'[q] # NoTime
               PROVE  alarm'[q] = meant'[q]
    BY DEF AlarmKeepsTime
  <2>1. CASE q = r
    <3>1. alarm'[q] = AlarmWritten(q, byte) /\ meant'[q] = Meaning(q, byte)
      BY <2>1 DEF RtcWrite
    <3> QED BY <3>1, MeaningStored
  <2>2. CASE q # r
    BY <2>2 DEF RtcWrite, RtcInv, AlarmKeepsTime
  <2> QED BY <2>1, <2>2
<1> QED BY <1>1, <1>2 DEF RtcInv, RtcWrite

LEMMA ClockUnchanged == RtcInv /\ UNCHANGED rtc => RtcInv'
BY DEF RtcInv, RtcTypeOK, AlarmKeepsTime, rtc

-----------------------------------------------------------------------------
(* The loop.  While it runs, its copy of the gate register agrees with the   *)
(* register in the one bit that counts, and slot 3 with both, so that no     *)
(* change of slot 3 has been refused.  A thread on its way into KVM_RUN has  *)
(* handled no exit since a SIGINT.                                           *)

GateInv ==
  Running => /\ slot3 <=> ~Bit(a20register, 2)
             /\ Bit(lastA20Register, 2) <=> Bit(a20register, 2)

LateInv ==
  /\ late \in {0, 1} /\ late <= MaxLate
  /\ ~requestExit \/ phase \in {"enter", "guest"} => late = 0

ProcessTypeOK ==
  /\ phase \in {"off", "test", "enter", "guest", "leave", "saving", "join"}
  /\ requestExit \in BOOLEAN
  /\ status \in {"none", "success", "failure", "killed"}
  /\ Running => status = "none"
  /\ a20register \in 0..255 /\ lastA20Register \in 0..255
  /\ slot3 \in BOOLEAN
  /\ FileTypeOK

Inv == RtcInv /\ ProcessTypeOK /\ GateInv /\ LateInv

LEMMA InitInv == Init => Inv
<1> SUFFICES ASSUME Init PROVE Inv
  OBVIOUS
<1>1. RtcInv
  BY DEF Init, RtcInv, RtcTypeOK, AlarmKeepsTime, IsRam, A, B
<1>2. ~Running /\ FileTypeOK
  BY DEF Init, Running, FileTypeOK
<1>3. ProcessTypeOK
  <2>1. phase = "off" /\ status = "none" /\ requestExit = FALSE /\ slot3 = FALSE
    BY DEF Init
  <2>2. a20register = 2 /\ lastA20Register = 2
    BY DEF Init
  <2>3. a20register \in 0..255 /\ lastA20Register \in 0..255
    BY <2>2
  <2> QED BY <1>2, <2>1, <2>3, Zenon DEF ProcessTypeOK
<1>4. GateInv /\ LateInv
  BY <1>2, LateBound DEF Init, GateInv, LateInv
<1> QED BY <1>1, <1>3, <1>4 DEF Inv

(* After a port access slot 3 follows the gate, and the loop goes on.        *)
LEMMA AfterAccess ==
  ASSUME Inv, phase = "guest", a20register' \in 0..255, SlotFollows
  PROVE  /\ GateInv'
         /\ phase' = "test" /\ status' = "none"
         /\ lastA20Register' \in 0..255 /\ slot3' \in BOOLEAN
<1> DEFINE open == Bit(a20register', 2)
           changed == open # Bit(lastA20Register, 2)
<1>1. /\ slot3 <=> ~Bit(lastA20Register, 2)
      /\ status = "none" /\ slot3 \in BOOLEAN /\ lastA20Register \in 0..255
  BY DEF Inv, GateInv, ProcessTypeOK, Running
<1>2. open \in BOOLEAN /\ Bit(lastA20Register, 2) \in BOOLEAN
  BY DEF Bit
<1>3. /\ lastA20Register' = IF changed THEN a20register' ELSE lastA20Register
      /\ slot3' = IF changed THEN ~open ELSE slot3
      /\ IF changed /\ open /\ ~slot3 THEN Return("refused")
                                      ELSE phase' = "test" /\ UNCHANGED status
  BY DEF SlotFollows
<1>4. phase' = "test" /\ status' = "none"
  <2>1. ~(changed /\ open /\ ~slot3)
    BY <1>1, <1>2
  <2> HIDE DEF open, changed
  <2> QED BY <1>1, <1>3, <2>1
<1>5. lastA20Register' \in 0..255 /\ slot3' \in BOOLEAN
  <2> HIDE DEF open, changed
  <2> QED BY <1>1, <1>2, <1>3
<1>6. GateInv'
  <2>1. CASE changed
    <3>1. lastA20Register' = a20register' /\ (slot3' <=> ~open)
      BY <1>3, <2>1
    <3> QED BY <3>1 DEF GateInv
  <2>2. CASE ~changed
    <3>1. lastA20Register' = lastA20Register /\ slot3' = slot3
      BY <1>3, <2>2
    <3>2. open <=> Bit(lastA20Register, 2)
      BY <2>2, <1>2
    <3> QED BY <1>1, <3>1, <3>2 DEF GateInv
  <2> QED BY <2>1, <2>2
<1> QED BY <1>4, <1>5, <1>6

(* What an action that leaves the clock and the gate alone has to show *)
LEMMA PhaseStep ==
  ASSUME Inv, UNCHANGED <<rtc, gate>>,
         phase' \in {"off", "test", "enter", "guest", "leave", "saving", "join"},
         requestExit' \in BOOLEAN,
         status' \in {"none", "success", "failure", "killed"},
         Running' => Running /\ status' = status,
         FileTypeOK', LateInv'
  PROVE  Inv'
<1>1. RtcInv'
  BY ClockUnchanged DEF Inv
<1>2. ProcessTypeOK'
  BY DEF Inv, ProcessTypeOK, gate
<1>3. GateInv'
  BY DEF Inv, GateInv, gate
<1> QED BY <1>1, <1>2, <1>3 DEF Inv

(* A port access that the device takes *)
LEMMA AccessStep ==
  ASSUME Inv, phase = "guest", RtcInv', a20register' \in 0..255, SlotFollows,
         CountLate, UNCHANGED <<requestExit, file>>
  PROVE  Inv'
<1>1. /\ GateInv'
      /\ phase' = "test" /\ status' = "none"
      /\ lastA20Register' \in 0..255 /\ slot3' \in BOOLEAN
  BY AfterAccess
<1>2. ProcessTypeOK'
  BY <1>1 DEF Inv, ProcessTypeOK, FileTypeOK
<1>3. LateInv'
  <2>1. late = 0 /\ late' \in {0, 1} /\ late' <= MaxLate /\ (~requestExit => late' = 0)
    BY LateBound DEF Inv, LateInv, CountLate
  <2> QED BY <2>1, <1>1 DEF LateInv
<1> QED BY <1>1, <1>2, <1>3 DEF Inv

LEMMA StepInv == Inv /\ [Next]_vars => Inv'
<1> SUFFICES ASSUME Inv, [Next]_vars PROVE Inv'
  OBVIOUS
<1> USE DEF Inv
<1>1. CASE Boot
  <2>1. RtcInv'
    BY <1>1, ConstructKeeps DEF Boot, ProcessTypeOK
  <2>2. ProcessTypeOK'
    <3>1. phase' = "test" /\ status' = "none" /\ requestExit' = FALSE /\ slot3' = FALSE
      BY <1>1 DEF Boot
    <3>2. a20register' = 2 /\ lastA20Register' = 2
      BY <1>1 DEF Boot
    <3>3. FileTypeOK'
      BY <1>1 DEF Boot, ProcessTypeOK, FileTypeOK
    <3>4. a20register' \in 0..255 /\ lastA20Register' \in 0..255
      BY <3>2
    <3> QED BY <3>1, <3>3, <3>4, Zenon DEF ProcessTypeOK
  <2>3. GateInv'
    BY <1>1 DEF Boot, GateInv, Bit
  <2>4. LateInv'
    BY <1>1, LateBound DEF Boot, LateInv
  <2> QED BY <2>1, <2>2, <2>3, <2>4
<1>2. CASE BootFails
  BY <1>2, PhaseStep DEF BootFails, ProcessTypeOK, LateInv, Running, FileTypeOK
<1>3. CASE Killed
  BY <1>3, PhaseStep DEF Killed, Die, ProcessTypeOK, LateInv, Running, FileTypeOK
<1>4. CASE OpenFile
  BY <1>4, PhaseStep DEF OpenFile, ProcessTypeOK, LateInv, Running, FileTypeOK
<1>5. CASE WriteFile
  <2>1. FileTypeOK'
    BY <1>5 DEF WriteFile, FileTypeOK, RtcInv, RtcTypeOK
  <2> QED BY <1>5, <2>1, PhaseStep DEF WriteFile, ProcessTypeOK, LateInv, Running
<1>6. CASE Join
  BY <1>6, PhaseStep DEF Join, ProcessTypeOK, LateInv, Running, FileTypeOK
<1>7. CASE Test
  BY <1>7, PhaseStep
     DEF Test, Return, ProcessTypeOK, LateInv, Running, FileTypeOK
<1>8. CASE Enter
  BY <1>8, PhaseStep DEF Enter, ProcessTypeOK, LateInv, Running, FileTypeOK
<1>9. CASE Sigint
  BY <1>9, PhaseStep DEF Sigint, ProcessTypeOK, LateInv, Running, FileTypeOK
<1>10. CASE Halt
  <2>1. LateInv'
    BY <1>10, LateBound DEF Halt, CountLate, LateInv
  <2> QED BY <1>10, <2>1, PhaseStep DEF Halt, ProcessTypeOK, Running, FileTypeOK
<1>11. ASSUME NEW s \in {"success", "failure"}, RunFails(s) PROVE Inv'
  BY <1>11, PhaseStep
     DEF RunFails, Return, ProcessTypeOK, LateInv, Running, FileTypeOK
<1>12. ASSUME NEW access \in Accesses, Access(access) PROVE Inv'
  <2>1. access.value \in 0..255
    BY GuestBytes
  <2>2. a20register' \in 0..255
    BY <1>12, <2>1 DEF Access, ProcessTypeOK
  <2>3. RtcInv'
    BY <1>12, ClockUnchanged DEF Access
  <2> QED BY <1>12, <2>2, <2>3, AccessStep DEF Access
<1>13. ASSUME NEW access \in Accesses, AccessRefused(access) PROVE Inv'
  BY <1>13, PhaseStep
     DEF AccessRefused, Die, ProcessTypeOK, LateInv, Running, FileTypeOK
<1>14. ASSUME NEW port, NEW byte \in 0..255, ClockAccess(port, byte) PROVE Inv'
  <2>1. RtcInv'
    BY <1>14, SelectKeeps, WriteKeeps DEF ClockAccess
  <2>2. a20register' \in 0..255
    BY <1>14 DEF ClockAccess, ProcessTypeOK
  <2> QED BY <1>14, <2>1, <2>2, AccessStep DEF ClockAccess
<1>15. CASE UNCHANGED vars
  <2>1. UNCHANGED <<rtc, gate>> /\ UNCHANGED <<phase, requestExit, status, file, late>>
    BY <1>15 DEF vars
  <2> QED BY <2>1, PhaseStep DEF ProcessTypeOK, LateInv, Running, FileTypeOK
<1>16. \A byte \in SelectBytes : byte \in 0..255
  BY GuestBytes
<1>17. \A byte \in DataBytes[selectedRegister] : byte \in 0..255
  BY GuestBytes DEF RtcInv, RtcTypeOK
<1> QED
  BY <1>1, <1>2, <1>3, <1>4, <1>5, <1>6, <1>7, <1>8, <1>9, <1>10, <1>11, <1>12,
     <1>13, <1>14, <1>15, <1>16, <1>17 DEF Next

LEMMA InvAlways == Spec => []Inv
BY InitInv, StepInv, PTL DEF Spec

-----------------------------------------------------------------------------
(* The theorems.                                                             *)

(* Every register, the phase of the process and the clock's file keep their  *)
(* types, whatever accesses the guest makes.                                 *)
THEOREM TypeCorrect == Spec => []TypeOK
<1>1. Inv => TypeOK
  <2> SUFFICES ASSUME Inv PROVE TypeOK
    OBVIOUS
  <2>1. late \in 0..MaxLate
    BY LateBound DEF Inv, LateInv
  <2> QED BY <2>1 DEF Inv, RtcInv, ProcessTypeOK, TypeOK
<1> QED BY <1>1, InvAlways, PTL

(* An alarm register holds the time it was set to, through every change of    *)
(* format: iowrite8 of DS12887 parses what ioread8 prints.                    *)
THEOREM AlarmKeepsTimeHolds == Spec => []AlarmKeepsTime
<1>1. Inv => AlarmKeepsTime
  BY DEF Inv, RtcInv
<1> QED BY <1>1, InvAlways, PTL

(* Slot 3 exists exactly while the guest has the A20 gate closed: main's copy *)
(* of the register follows the register in bit 1.                             *)
THEOREM WrapFollowsGateHolds == Spec => []WrapFollowsGate
<1>1. Inv => WrapFollowsGate
  BY DEF Inv, GateInv, WrapFollowsGate
<1> QED BY <1>1, InvAlways, PTL

(* After SIGINT main's loop handles at most one more exit.                    *)
THEOREM AtMostOneLateExitHolds == Spec => []AtMostOneLateExit
<1>1. Inv => AtMostOneLateExit
  BY DEF Inv, LateInv, AtMostOneLateExit
<1> QED BY <1>1, InvAlways, PTL

(* A change of the gate never asks KVM to delete a slot that does not exist.  *)
THEOREM GateChangesSucceedHolds == Spec => []GateChangesSucceed
<1>1. Inv => GateChangesSucceed
  BY DEF Inv, ProcessTypeOK, GateChangesSucceed
<1> QED BY <1>1, InvAlways, PTL

-----------------------------------------------------------------------------
(* The refinement.                                                           *)

LEMMA SessionIs ==
  /\ Running \/ phase = "leave" => session = "open"
  /\ phase = "saving" => session = "saving"
  /\ phase \in {"off", "join"} => session = "none"
BY DEF session, Running

(* A step that keeps the session's state, the clock and the file is a stutter. *)
LEMMA Stutters ==
  ASSUME session' = session, file' = file, UNCHANGED rtc
  PROVE  UNCHANGED Store!vars
BY DEF Store!vars, cells, stored, RamRead, rtc

(* A process that disappears is the death of its session, if it has one. *)
LEMMA DyingMaps ==
  ASSUME phase \in {"test", "enter", "guest", "leave", "saving", "join"}, Die,
         UNCHANGED rtc, file' = file
  PROVE  [Store!Next]_(Store!vars)
<1>1. session' = "none"
  BY DEF Die, session, Running
<1>2. CASE phase = "join"
  BY <1>1, <1>2, SessionIs, Stutters
<1>3. CASE phase # "join"
  <2>1. session # "none"
    BY <1>3, SessionIs DEF Running
  <2>2. cells' = [c \in Cells |-> 0]
    BY <1>1 DEF cells
  <2>3. stored' = stored /\ index' = index /\ data' = data
    BY DEF stored, rtc
  <2>4. Store!Die
    BY <1>1, <2>1, <2>2, <2>3 DEF Store!Die, Store!AllBlank, Store!ports
  <2> QED BY <2>4 DEF Store!Next
<1> QED BY <1>2, <1>3

(* What the guest does to the clock selects a cell or writes the selected one. *)
LEMMA ClockAccessMaps ==
  ASSUME Inv, NEW port, NEW byte \in 0..255, ClockAccess(port, byte)
  PROVE  [Store!Next]_(Store!vars)
<1>1. a20register' \in 0..255 /\ phase = "guest" /\ file' = file
  BY DEF ClockAccess, Inv, ProcessTypeOK
<1>2. phase' = "test"
  BY <1>1, AfterAccess DEF ClockAccess
<1>3. session = "open" /\ session' = "open"
  BY <1>1, <1>2 DEF session, Running
<1>4. /\ cells = [c \in Cells |-> RamRead(c)]
      /\ cells' = [c \in Cells |-> RamRead(c)']
      /\ stored' = stored
  BY <1>1, <1>3 DEF cells, stored
<1>5. CASE RtcSelect(byte)
  <2>1. index' = byte /\ data' = data /\ cells' = cells
    BY <1>4, <1>5 DEF RtcSelect, RamRead
  <2>2. Store!Select(byte % 128) /\ byte % 128 \in 0..127
    BY <1>3, <1>4, <2>1 DEF Store!Select
  <2> QED BY <2>2 DEF Store!Next
<1>6. CASE RtcWrite(byte)
  <2> DEFINE r == selectedRegister
  <2>1. r \in 0..127 /\ r = index % 128 /\ index' = index /\ data' = byte
    BY <1>6 DEF RtcWrite, Inv, RtcInv
  <2>2. \A c \in Cells : RamRead(c)' = IF c = r THEN byte ELSE RamRead(c)
    <3> SUFFICES ASSUME NEW c \in Cells
                 PROVE  RamRead(c)' = IF c = r THEN byte ELSE RamRead(c)
      OBVIOUS
    <3>1. RamIndex(c) \in Slots /\ IsRam(c) /\ (RamIndex(c) = RamIndex(r) <=> c = r)
      BY <2>1, CellIndexes
    <3>2. ram'[RamIndex(c)] = IF IsRam(r) /\ RamIndex(c) = RamIndex(r)
                              THEN byte ELSE ram[RamIndex(c)]
      BY <1>6, <3>1 DEF RtcWrite
    <3> QED BY <3>1, <3>2 DEF RamRead
  <2>3. cells' = [c \in Cells |-> IF c = index % 128 THEN byte ELSE cells[c]]
    BY <1>4, <2>1, <2>2
  <2>4. Store!Write(byte)
    BY <1>3, <1>4, <2>1, <2>3 DEF Store!Write
  <2> QED BY <2>4 DEF Store!Next
<1> QED BY <1>5, <1>6 DEF ClockAccess

(* Every step is a step of the store or leaves it as it is. *)
LEMMA StepMaps == Inv /\ [Next]_vars => [Store!Next]_(Store!vars)
<1> SUFFICES ASSUME Inv, [Next]_vars PROVE [Store!Next]_(Store!vars)
  OBVIOUS
<1> USE SessionIs
<1>t. FileTypeOK /\ ram \in [Slots -> 0..255]
  BY DEF Inv, ProcessTypeOK, RtcInv, RtcTypeOK
<1>e. Slots = {} => Cells = {}
  BY DEF Slots
<1>1. CASE Boot
  <2>1. session = "none" /\ session' = "open" /\ file' = file
    BY <1>1 DEF Boot, session, Running
  <2>2. cells' = [c \in Cells |-> ram'[RamIndex(c)]] /\ stored' = stored
    BY <2>1 DEF cells, stored, RamRead
  <2>3. cells' = IF stored = Erased THEN [c \in Cells |-> 0] ELSE stored
    <3>1. CASE file = Erased
      <4>1. stored = Erased /\ ram' = [i \in Slots |-> 0]
        BY <1>1, <3>1 DEF stored, Boot, RtcConstruct
      <4>2. \A c \in Cells : ram'[RamIndex(c)] = 0
        BY <4>1, CellIndexes
      <4> QED BY <2>2, <4>1, <4>2
    <3>2. CASE file # Erased
      <4>1. cells' = [c \in Cells |-> file[RamIndex(c)]]
        BY <1>1, <2>2, <3>2 DEF Boot, RtcConstruct
      <4>2. stored = [c \in Cells |-> file[RamIndex(c)]]
        BY <3>2 DEF stored
      <4>3. stored = Erased => Cells = {}
        BY <4>2 DEF Erased
      <4> QED BY <4>1, <4>2, <4>3
    <3> QED BY <3>1, <3>2
  <2>4. index' % 128 = 0 /\ data' = 0
    BY <1>1 DEF Boot, RtcConstruct
  <2>5. Store!Begin
    BY <2>1, <2>2, <2>3, <2>4 DEF Store!Begin, Store!AllBlank, Erased
  <2> QED BY <2>5 DEF Store!Next
<1>2. CASE OpenFile
  <2>1. /\ session = "open" /\ session' = "saving" /\ file' = Erased
        /\ UNCHANGED rtc
    BY <1>2 DEF OpenFile, session, Running
  <2>2. cells' = cells /\ stored' = Erased /\ index' = index /\ data' = data
    BY <2>1 DEF cells, stored, RamRead, rtc
  <2>3. Store!BeginSave
    BY <2>1, <2>2 DEF Store!BeginSave, Store!ports, Erased
  <2> QED BY <2>3 DEF Store!Next
<1>3. CASE WriteFile
  <2>1. /\ session = "saving" /\ session' = "none" /\ file' = ram
        /\ UNCHANGED rtc
    BY <1>3 DEF WriteFile, session, Running
  <2>2. cells = [c \in Cells |-> ram[RamIndex(c)]] /\ cells' = [c \in Cells |-> 0]
    BY <2>1 DEF cells, RamRead
  <2>3. stored' = cells
    <3>1. CASE ram = Erased
      <4>1. Cells = {}
        BY <1>t, <1>e, <3>1 DEF Erased
      <4> QED BY <2>1, <2>2, <3>1, <4>1 DEF stored, Erased
    <3>2. CASE ram # Erased
      BY <2>1, <2>2, <3>2 DEF stored
    <3> QED BY <3>1, <3>2
  <2>4. index' = index /\ data' = data
    BY <2>1 DEF rtc
  <2>5. Store!Save
    BY <2>1, <2>2, <2>3, <2>4 DEF Store!Save, Store!AllBlank, Store!ports
  <2> QED BY <2>5 DEF Store!Next
<1>4. CASE Killed
  BY <1>4, DyingMaps DEF Killed, Inv, ProcessTypeOK
<1>5. ASSUME NEW access \in Accesses, AccessRefused(access)
      PROVE  [Store!Next]_(Store!vars)
  BY <1>5, DyingMaps DEF AccessRefused
<1>6. ASSUME NEW access \in Accesses, Access(access)
      PROVE  [Store!Next]_(Store!vars)
  <2>1. a20register' \in 0..255
    BY <1>6, GuestBytes DEF Access, Inv, ProcessTypeOK
  <2>2. phase = "guest" /\ phase' = "test"
    BY <1>6, <2>1, AfterAccess DEF Access
  <2>3. session' = session
    BY <2>2 DEF session, Running
  <2> QED BY <1>6, <2>3, Stutters DEF Access
<1>7. ASSUME NEW port, NEW byte \in 0..255, ClockAccess(port, byte)
      PROVE  [Store!Next]_(Store!vars)
  BY <1>7, ClockAccessMaps
<1>8. CASE BootFails \/ Join
  BY <1>8, Stutters DEF BootFails, Join, session, Running
<1>9. CASE Test \/ Enter \/ Sigint \/ Halt
  BY <1>9, Stutters DEF Test, Return, Enter, Sigint, Halt, session, Running
<1>10. ASSUME NEW s \in {"success", "failure"}, RunFails(s)
       PROVE  [Store!Next]_(Store!vars)
  BY <1>10, Stutters DEF RunFails, Return, session, Running
<1>11. CASE UNCHANGED vars
  BY <1>11, Stutters DEF vars, session, Running
<1>12. \A byte \in SelectBytes : byte \in 0..255
  BY GuestBytes
<1>13. \A byte \in DataBytes[selectedRegister] : byte \in 0..255
  BY GuestBytes DEF Inv, RtcInv, RtcTypeOK
<1> QED
  BY <1>1, <1>2, <1>3, <1>4, <1>5, <1>6, <1>7, <1>8, <1>9, <1>10, <1>11, <1>12,
     <1>13, Zenon DEF Next

(* The emulator keeps the clock's RAM as NvramStore promises: the constructor *)
(* reads what the last destructor wrote, and nothing else touches the file.   *)
THEOREM ImplementsStoreHolds == Spec => ImplementsStore
<1>1. Init => Store!Init
  BY DEF Init, Store!Init, Store!AllBlank, session, cells, stored, Running, Erased
<1> QED BY <1>1, StepMaps, InvAlways, PTL DEF Spec, ImplementsStore, Store!Spec

=============================================================================
