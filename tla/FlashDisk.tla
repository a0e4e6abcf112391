------------------------------ MODULE FlashDisk -----------------------------
(***************************************************************************)
(* The command interface of the flash chip: the KVM_EXIT_MMIO branch of    *)
(* the exit loop (src/src/main.cpp 890-1001) and slots 4 and 5, which show *)
(* the chip twice, read-only, from 3400000h and 3480000h.                  *)
(*                                                                         *)
(* KVM is external.  A guest's read of a read-only slot gives the contents *)
(* and makes no exit; a write makes one, as does any access to an address  *)
(* no slot covers.  To delete a slot that does not exist is an error.      *)
(***************************************************************************)
EXTENDS Integers, Sequences

CONSTANTS
  Addresses,       \* guest-physical addresses the guest uses
  Bytes,           \* bytes it writes there
  ProgramBytes,    \* those of them it writes as contents
  WindowEnd        \* the upper bound of main's test for the chip, exclusive

ChipStart == 54525952                     \* 3400000h
ChipEnd == 55574528                       \* 3500000h

\* As coded the bound is 350000h, as meant it is ChipEnd
ASSUME FlashAssumption ==
  /\ Addresses \subseteq Nat
  /\ Bytes \subseteq 0..255 /\ ProgramBytes \subseteq Bytes
  /\ WindowEnd \in 0..ChipEnd

VARIABLES
  flashState,
  flashMemory,     \* the bytes at the offsets the guest uses
  mapped,          \* slots 4 and 5 exist
  ended,           \* "no"; what ended the emulator: an "unknown" command, an
                   \* error on a "slot", the "assert" on a write's length
  recent,          \* for the properties: the last five exits that main handles
                   \* as accesses to the chip, <<offset, byte>> or ReadExit
  issued,          \* likewise, the last five for the chip, handled or not
  stranded         \* likewise, F0h has followed an identification command

vars == <<flashState, flashMemory, mapped, ended, recent, issued, stranded>>

Offset(a) == a % 524288
Place(a) == Offset(a) % 2048
Sector(offset) == offset \div 65536
OnChip(a) == ChipStart <= a /\ a < ChipEnd
Offsets == {Offset(a) : a \in Addresses}
InWindow(a) == ChipStart <= a /\ a < WindowEnd

ReadExit == <<-1, -1>>
After(history, exit) == [i \in 1..5 |-> IF i = 5 THEN exit ELSE history[i + 1]]
Remember(exit) == recent' = After(recent, exit) /\ issued' = After(issued, exit)

\* The exit is the write of this byte to the place that commands want it at
Hit(exit, byte) ==
  /\ exit # ReadExit
  /\ exit[1] % 2048 = (IF byte = 85 THEN 682 ELSE 1365)
  /\ exit[2] = byte

\* The history ends with the writes of these bytes
Ends(history, bytes) ==
  \A i \in 1..Len(bytes) : Hit(history[5 - Len(bytes) + i], bytes[i])
Sent(bytes) == Ends(recent, bytes)
IdentifySent == Sent(<<170, 85, 144>>)

\* The steps of the command sequences that only change the state
Steps ==
  { <<"Read",          1365, 170, "CommandByte_1">>,    \* AAh at 555h
    <<"CommandByte_1",  682,  85, "CommandByte_2">>,    \* 55h at 2AAh
    <<"CommandByte_2", 1365, 128, "CommandByte_3">>,    \* 80h at 555h
    <<"CommandByte_3", 1365, 170, "CommandByte_4">>,
    <<"CommandByte_4",  682,  85, "CommandByte_5">>,
    <<"CommandByte_2", 1365, 160, "Program">> }         \* A0h at 555h

States == {s[1] : s \in Steps} \union
          {"CommandByte_5", "Program", "ProductIdentification"}

TypeOK ==
  /\ flashState \in States
  /\ flashMemory \in [Offsets -> 0..255]
  /\ mapped \in BOOLEAN
  /\ ended \in {"no", "unknown", "slot", "assert"}
  /\ {recent, issued} \subseteq [1..5 -> Int \X Int]
  /\ stranded \in BOOLEAN

-----------------------------------------------------------------------------
(* A write to the chip, in the order of main's tests.                       *)

IsReset(b) == b = 240
IsIdentify(a, b) == flashState = "CommandByte_2" /\ Place(a) = 1365 /\ b = 144
IsSectorErase(b) == flashState = "CommandByte_5" /\ b = 48
IsChipErase(a, b) == flashState = "CommandByte_5" /\ Place(a) = 1365 /\ b = 16
IsStep(a, b) == \E s \in Steps : <<flashState, Place(a), b>> = SubSeq(s, 1, 3)

Exits(a, b) ==
  /\ ended = "no" /\ InWindow(a)
  /\ Remember(<<Offset(a), b>>)
  /\ stranded' = (stranded \/ (IsReset(b) /\ IdentifySent))

\* assert(mmio.len == 1), for a write of a word or more; a build without
\* assertions takes the lowest byte, as if it alone had been written
WideWrite(a) ==
  /\ ended = "no" /\ InWindow(a)
  /\ ended' = "assert"
  /\ UNCHANGED <<flashState, flashMemory, mapped, recent, issued, stranded>>

\* The byte is stored as it is, where the guest wrote it
Program(a, b) ==
  /\ Exits(a, b) /\ flashState = "Program" /\ b \in ProgramBytes
  /\ flashMemory' = [flashMemory EXCEPT ![Offset(a)] = b]
  /\ flashState' = "Read"
  /\ UNCHANGED <<mapped, ended>>

\* F0h ends any command; the slots stay as they are, the identification mode's
\* too
Reset(a, b) ==
  /\ Exits(a, b) /\ flashState # "Program" /\ IsReset(b)
  /\ flashState' = "Read"
  /\ UNCHANGED <<flashMemory, mapped, ended>>

Step(a, b) ==
  /\ Exits(a, b)
  /\ \E s \in Steps : /\ s[1] = flashState /\ s[2] = Place(a) /\ s[3] = b
                      /\ flashState' = s[4]
  /\ UNCHANGED <<flashMemory, mapped, ended>>

\* Product identification takes both slots away, to see the reads
Identify(a, b) ==
  /\ Exits(a, b) /\ IsIdentify(a, b)
  /\ flashState' = "ProductIdentification"
  /\ mapped' = FALSE
  /\ ended' = IF mapped THEN "no" ELSE "slot"
  /\ UNCHANGED flashMemory

\* Sector erase fills the sector it is written to, chip erase everything
Erase_Sector0(a, b) ==
  /\ Exits(a, b) /\ (IsSectorErase(b) \/ IsChipErase(a, b))
  /\ flashMemory' = [o \in Offsets |->
       IF IsChipErase(a, b) \/ Sector(o) = 0 THEN 255 ELSE flashMemory[o]]
  /\ flashState' = "Read"
  /\ UNCHANGED <<mapped, ended>>

Erase_StaysErasing(a, b) ==
  /\ Exits(a, b) /\ (IsSectorErase(b) \/ IsChipErase(a, b))
  /\ flashMemory' = [o \in Offsets |->
       IF IsChipErase(a, b) \/ Sector(o) = Sector(Offset(a)) THEN 255
                                                             ELSE flashMemory[o]]
  /\ flashState' = "SectorErase"
  /\ UNCHANGED <<mapped, ended>>

Erase(a, b) ==
  /\ Exits(a, b) /\ (IsSectorErase(b) \/ IsChipErase(a, b))
  /\ flashMemory' = [o \in Offsets |->
       IF IsChipErase(a, b) \/ Sector(o) = Sector(Offset(a)) THEN 255
                                                             ELSE flashMemory[o]]
  /\ flashState' = "Read"
  /\ UNCHANGED <<mapped, ended>>

\* Anything else ends the emulator
Unknown(a, b) ==
  /\ Exits(a, b) /\ flashState # "Program"
  /\ ~IsReset(b) /\ ~IsStep(a, b) /\ ~IsIdentify(a, b)
  /\ ~IsSectorErase(b) /\ ~IsChipErase(a, b)
  /\ flashState' = "Read"
  /\ ended' = "unknown"
  /\ UNCHANGED <<flashMemory, mapped>>

\* A read makes an exit only while the slots are gone.  In the identification
\* mode it is answered with the chip's code and brings them back.
ReadUnmapped_StaysUnmapped(a) ==
  /\ ended = "no" /\ InWindow(a) /\ ~mapped
  /\ Remember(ReadExit)
  /\ flashState' = "Read"
  /\ UNCHANGED <<flashMemory, mapped, ended, stranded>>

ReadUnmapped(a) ==
  /\ ended = "no" /\ InWindow(a) /\ ~mapped
  /\ Remember(ReadExit)
  /\ mapped' = (flashState = "ProductIdentification")
  /\ flashState' = "Read"
  /\ UNCHANGED <<flashMemory, ended, stranded>>

\* An access outside the window main tests for is an unhandled one: a write is
\* forgotten, a read gets zeros.  (With the slots gone a read would exit too.)
Unhandled(a, b) ==
  /\ ended = "no" /\ ~InWindow(a)
  /\ issued' = IF OnChip(a) THEN After(issued, <<Offset(a), b>>) ELSE issued
  /\ UNCHANGED <<flashState, flashMemory, mapped, ended, recent, stranded>>

Init ==
  /\ flashState = "Read"
  /\ flashMemory = [o \in Offsets |-> 0]
  /\ mapped = TRUE
  /\ ended = "no"
  /\ recent = [i \in 1..5 |-> ReadExit] /\ issued = recent
  /\ stranded = FALSE

Next ==
  \E a \in Addresses :
    \/ ReadUnmapped(a) \/ WideWrite(a)
    \/ \E b \in Bytes :
         \/ Program(a, b) \/ Reset(a, b) \/ Step(a, b) \/ Identify(a, b)
         \/ Erase(a, b) \/ Unknown(a, b) \/ Unhandled(a, b)

Spec == Init /\ [][Next]_vars

-----------------------------------------------------------------------------
(* The command set, read off the exits alone.                               *)

\* What a write of b to offset o0, after this history, makes of the contents
Commanded(history, o0, b) ==
  [o \in Offsets |->
     CASE Ends(history, <<170, 85, 160>>) -> IF o = o0 THEN b ELSE flashMemory[o]
       [] /\ Ends(history, <<170, 85, 128, 170, 85>>)
          /\ (b = 16 /\ o0 % 2048 = 1365) \/ (b = 48 /\ Sector(o) = Sector(o0)) -> 255
       [] OTHER -> flashMemory[o]]

\* "the flash disk is being accessed": the contents change by the commands of
\* the chip and by nothing else - a program or erase takes its whole sequence of
\* writes, is then carried out, and touches only the byte, sector or chip it
\* names - among the accesses to the chip that main handles.  (main.cpp 894-976)
ContentsFollowHandled ==
  [][LET last == recent'[5]
     IN  flashMemory' = IF recent' = recent \/ last = ReadExit THEN flashMemory
                        ELSE Commanded(recent, last[1], last[2])]_vars

\* The same among all accesses to the chip, 3400000h to 34FFFFFh, whether the
\* test of main.cpp:892 finds them or not
ContentsFollowCommands ==
  [][LET last == issued'[5]
     IN  flashMemory' = IF issued' = issued \/ last = ReadExit THEN flashMemory
                        ELSE Commanded(issued, last[1], last[2])]_vars

\* The guest sees the contents of the chip except between the identification
\* command and the read it is for, and for good after an F0h in its place: the
\* slots, the state and what the guest has sent agree.
ShownUnlessIdentifying ==
  ended = "no" => (mapped <=> ~IdentifySent /\ ~stranded)

\* Only an F0h in the identification mode ever makes the emulator change the
\* slots in a way KVM refuses, which ends it.
RefusedOnlyIfStranded == ended = "slot" => stranded

=============================================================================
