------------------------------- MODULE DS12887 ------------------------------
(***************************************************************************)
(* The real time clock (src/src/hardware/DS12887.cpp): an index register   *)
(* at port 70h, the register it selects at 71h.  The time of day comes     *)
(* from the host and cannot be set; the alarm is stored as a number and    *)
(* converted from and to the format that register B asks for; the rest is  *)
(* RAM, kept in a file between runs of the emulator.                       *)
(*                                                                         *)
(* The operators named Rtc... are the device's operations; ExitLoop says   *)
(* when they happen.                                                       *)
(***************************************************************************)
EXTENDS Integers

CONSTANT Cells    \* RAM registers that the guest uses

Alarms == {1, 3, 5}    \* SecondsAlarm, MinutesAlarm, HoursAlarm
A == 10
B == 11
Century == 50

ASSUME CellsAssumption == Cells \subseteq (14..127) \ {Century}

VARIABLES
  selectedRegister,
  control,     \* registers A and B
  alarm,       \* the alarm registers, as numbers
  ram,         \* the array, at the indexes that Cells are kept at
  index, data, \* for the properties: the last bytes written to ports 70h and
               \* 71h,
  meant        \* and the time each alarm register was set to, or NoTime

rtc == <<selectedRegister, control, alarm, ram, index, data, meant>>

NoTime == -1
Erased == <<>>    \* contents of the file after it has been truncated

\* The RAM begins behind register D
RamIndex_BehindC(r) == r - 13

RamIndex(r) == r - 14

Slots == {RamIndex(c) : c \in Cells}

\* The registers that no case of iowrite8 or ioread8 names
IsRam(r) == r >= 14 /\ r # Century

RtcTypeOK ==
  /\ selectedRegister \in 0..127
  /\ control \in [{A, B} -> 0..255] /\ control[A] < 128
  /\ alarm \in [Alarms -> 0..85]
  /\ ram \in [Slots -> 0..255]
  /\ IsRam(selectedRegister) => RamIndex(selectedRegister) \in 0..113   \* of 114

-----------------------------------------------------------------------------
Bit(byte, value) == (byte \div value) % 2 = 1

DataMode == Bit(control[B], 4)              \* binary, not BCD
TwentyFourHourTime == Bit(control[B], 2)

mapToBCD(value) == 16 * (value \div 10) + (value % 10)

\* An alarm register's number as a byte that the guest reads
AlarmRead(r, t) ==
  LET digits(n) == IF DataMode THEN n ELSE mapToBCD(n)
  IN  IF r # 5 \/ TwentyFourHourTime THEN digits(t)
      ELSE digits(t % 12) + (IF t \div 12 # 0 THEN 128 ELSE 0)

\* A byte that the guest writes as an alarm register's number
AlarmWritten_DropsPm(r, v) ==
  LET hour == r = 5
  IN  IF DataMode THEN v % (IF hour THEN 32 ELSE 64)
      ELSE (v % 16) + 10 * ((v \div 16) % (IF hour THEN 4 ELSE 8))

AlarmWritten(r, v) ==
  LET hour == r = 5
      number == IF DataMode THEN v % (IF hour THEN 32 ELSE 64)
                ELSE (v % 16) + 10 * ((v \div 16) % (IF hour THEN 4 ELSE 8))
  IN  IF hour /\ ~TwentyFourHourTime /\ v >= 128 THEN number + 12 ELSE number

\* The time that a byte written to an alarm register stands for: the one that
\* reads as this byte
Meaning(r, v) ==
  LET times == {t \in 0..(IF r = 5 THEN 23 ELSE 59) : AlarmRead(r, t) = v}
  IN  IF times = {} THEN NoTime ELSE CHOOSE t \in times : TRUE

-----------------------------------------------------------------------------
\* The constructor: everything is zero but the RAM, which is read from the file
RtcConstruct(file) ==
  /\ selectedRegister' = 0 /\ index' = 0 /\ data' = 0
  /\ control' = [r \in {A, B} |-> 0]
  /\ alarm' = [r \in Alarms |-> 0] /\ meant' = [r \in Alarms |-> NoTime]
  /\ ram' = IF file = Erased THEN [i \in Slots |-> 0] ELSE file

\* iowrite8 to port 70h: bit 7, the NMI mask on a PC, is dropped
RtcSelect_SixBits(byte) ==
  /\ selectedRegister' = byte % 64
  /\ index' = byte
  /\ UNCHANGED <<control, alarm, ram, data, meant>>

RtcSelect(byte) ==
  /\ selectedRegister' = byte % 128
  /\ index' = byte
  /\ UNCHANGED <<control, alarm, ram, data, meant>>

\* ioread8 of a RAM register
RamRead(r) == ram[RamIndex(r)]

\* iowrite8 to port 71h.  The time of day, the century and registers C and D
\* are not writable, and bit 7 of register A is not stored.
RtcWrite(byte) ==
  LET r == selectedRegister
  IN  /\ control' = [control EXCEPT ![A] = IF r = A THEN byte % 128 ELSE @,
                                    ![B] = IF r = B THEN byte ELSE @]
      /\ alarm' = [q \in Alarms |-> IF q = r THEN AlarmWritten(r, byte) ELSE alarm[q]]
      /\ meant' = [q \in Alarms |-> IF q = r THEN Meaning(r, byte) ELSE meant[q]]
      /\ ram' = [i \in Slots |-> IF IsRam(r) /\ i = RamIndex(r) THEN byte ELSE ram[i]]
      /\ data' = byte
      /\ UNCHANGED <<selectedRegister, index>>

-----------------------------------------------------------------------------
\* An alarm register holds the time it was set to, and reads as that time
\* after any change of format, 12 or 24 hours, BCD or binary: writing parses
\* what reading prints.  (The 12 of a 12-hour clock is no time in this sense:
\* the code prints noon and midnight as 0.)
AlarmKeepsTime ==
  \A r \in Alarms : meant[r] # NoTime => alarm[r] = meant[r]

=============================================================================
