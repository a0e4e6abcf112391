--------------------------- MODULE FlashDiskProofs --------------------------
(***************************************************************************)
(* The properties of FlashDisk for every guest and whatever part of the    *)
(* chip main's test covers: what the state of the command interface says   *)
(* about the last handled exits, and they about it.  With main's bound as  *)
(* coded no exit is handled: see InertAsCoded.                             *)
(***************************************************************************)
EXTENDS FlashDisk, TLAPS

HistoryOK == recent \in [1..5 -> Int \X Int]

(* The sequences of bytes that matter, each an extension of another one: it  *)
(* has been sent when its last byte is the last exit and the others had been *)
(* sent before it.                                                           *)
LEMMA SentGrows ==
  ASSUME HistoryOK, NEW x \in Int \X Int, Remember(x)
  PROVE  /\ HistoryOK'
         /\ recent'[5] = x
         /\ Sent(<<170>>)' <=> Hit(x, 170)
         /\ Sent(<<170, 85>>)' <=> Hit(x, 85) /\ Sent(<<170>>)
         /\ Sent(<<170, 85, 144>>)' <=> Hit(x, 144) /\ Sent(<<170, 85>>)
         /\ Sent(<<170, 85, 160>>)' <=> Hit(x, 160) /\ Sent(<<170, 85>>)
         /\ Sent(<<170, 85, 128>>)' <=> Hit(x, 128) /\ Sent(<<170, 85>>)
         /\ Sent(<<170, 85, 128, 170>>)' <=>
              Hit(x, 170) /\ Sent(<<170, 85, 128>>)
         /\ Sent(<<170, 85, 128, 170, 85>>)' <=>
              Hit(x, 85) /\ Sent(<<170, 85, 128, 170>>)
<1>1. /\ recent'[1] = recent[2] /\ recent'[2] = recent[3]
      /\ recent'[3] = recent[4] /\ recent'[4] = recent[5] /\ recent'[5] = x
  BY DEF Remember, After
<1>2. HistoryOK'
  BY DEF HistoryOK, Remember, After
<1>3. Sent(<<170>>) <=> Hit(recent[5], 170)
  BY DEF Sent, Ends
<1>4. Sent(<<170, 85>>) <=> Hit(recent[4], 170) /\ Hit(recent[5], 85)
  BY DEF Sent, Ends
<1>5. \A c \in {144, 160, 128} :
        Sent(<<170, 85, c>>) <=> Hit(recent[3], 170) /\ Hit(recent[4], 85)
                                 /\ Hit(recent[5], c)
  BY DEF Sent, Ends
<1>6. Sent(<<170, 85, 128, 170>>) <=>
        /\ Hit(recent[2], 170) /\ Hit(recent[3], 85)
        /\ Hit(recent[4], 128) /\ Hit(recent[5], 170)
  BY DEF Sent, Ends
<1>7. Sent(<<170>>)' <=> Hit(x, 170)
  BY <1>1 DEF Sent, Ends
<1>8. Sent(<<170, 85>>)' <=> Hit(recent[5], 170) /\ Hit(x, 85)
  BY <1>1 DEF Sent, Ends
<1>9. \A c \in {144, 160, 128} :
        Sent(<<170, 85, c>>)' <=> Hit(recent[4], 170) /\ Hit(recent[5], 85)
                                  /\ Hit(x, c)
  BY <1>1 DEF Sent, Ends
<1>10. Sent(<<170, 85, 128, 170>>)' <=>
         /\ Hit(recent[3], 170) /\ Hit(recent[4], 85)
         /\ Hit(recent[5], 128) /\ Hit(x, 170)
  BY <1>1 DEF Sent, Ends
<1>11. Sent(<<170, 85, 128, 170, 85>>)' <=>
         /\ Hit(recent[2], 170) /\ Hit(recent[3], 85) /\ Hit(recent[4], 128)
         /\ Hit(recent[5], 170) /\ Hit(x, 85)
  BY <1>1 DEF Sent, Ends
<1> HIDE DEF Sent, Hit, Remember
<1> QED
  BY <1>1, <1>2, <1>3, <1>4, <1>5, <1>6, <1>7, <1>8, <1>9, <1>10, <1>11

-----------------------------------------------------------------------------
(* The state names the part of a command that has been sent, and a command   *)
(* that has been sent determines the state.                                   *)

CommandInv ==
  ended = "no" =>
    /\ flashState = "CommandByte_1" => Sent(<<170>>)
    /\ flashState = "CommandByte_2" => Sent(<<170, 85>>)
    /\ flashState = "CommandByte_3" => Sent(<<170, 85, 128>>)
    /\ flashState = "CommandByte_4" => Sent(<<170, 85, 128, 170>>)
    /\ flashState = "CommandByte_5" => Sent(<<170, 85, 128, 170, 85>>)
    /\ flashState = "Program" => Sent(<<170, 85, 160>>)
    /\ Sent(<<170>>) => flashState \in {"Read", "CommandByte_1", "CommandByte_4"}
    /\ Sent(<<170, 85>>) => flashState \in {"CommandByte_2", "CommandByte_5"}
    /\ Sent(<<170, 85, 128>>) => flashState = "CommandByte_3"
    /\ Sent(<<170, 85, 128, 170>>) => flashState = "CommandByte_4"
    /\ Sent(<<170, 85, 128, 170, 85>>) => flashState = "CommandByte_5"
    /\ Sent(<<170, 85, 160>>) => flashState = "Program"

SlotInv ==
  /\ mapped \in BOOLEAN /\ stranded \in BOOLEAN
  /\ ended = "slot" => stranded
  /\ ended = "no" =>
       /\ IdentifySent <=> flashState = "ProductIdentification"
       /\ mapped <=> ~IdentifySent /\ ~stranded
       /\ IdentifySent => ~stranded

\* The states' transitions on a write that does not end the emulator
LEMMA StepsAre ==
  ASSUME NEW place, NEW byte, NEW from, NEW to,
         \E s \in Steps : s[1] = from /\ s[2] = place /\ s[3] = byte /\ to = s[4]
  PROVE  \/ place = 1365 /\ byte = 170 /\ from = "Read" /\ to = "CommandByte_1"
         \/ place = 682 /\ byte = 85 /\ from = "CommandByte_1" /\ to = "CommandByte_2"
         \/ place = 1365 /\ byte = 128 /\ from = "CommandByte_2" /\ to = "CommandByte_3"
         \/ place = 1365 /\ byte = 170 /\ from = "CommandByte_3" /\ to = "CommandByte_4"
         \/ place = 682 /\ byte = 85 /\ from = "CommandByte_4" /\ to = "CommandByte_5"
         \/ place = 1365 /\ byte = 160 /\ from = "CommandByte_2" /\ to = "Program"
BY DEF Steps

LEMMA Placed ==
  ASSUME NEW a \in Addresses, NEW b \in Bytes
  PROVE  /\ Offset(a) \in Nat /\ b \in Nat /\ Place(a) \in Nat
         /\ <<Offset(a), b>> \in Int \X Int /\ <<Offset(a), b>> # ReadExit
         /\ \A c : Hit(<<Offset(a), b>>, c) <=>
              b = c /\ Place(a) = IF c = 85 THEN 682 ELSE 1365
<1>1. a \in Nat /\ b \in Nat
  BY FlashAssumption DEF FlashAssumption
<1>2. Offset(a) \in Nat /\ Place(a) \in Nat
  BY <1>1 DEF Offset, Place
<1>3. <<Offset(a), b>> # ReadExit
  BY <1>2 DEF ReadExit
<1>4. Place(a) = Offset(a) % 2048
  BY DEF Place
<1> HIDE DEF Offset, Place, ReadExit
<1>5. ASSUME NEW c PROVE Hit(<<Offset(a), b>>, c) <=>
              b = c /\ Place(a) = IF c = 85 THEN 682 ELSE 1365
  BY <1>3, <1>4 DEF Hit
<1> QED BY <1>1, <1>2, <1>3, <1>5

(* What has been sent after a write that makes an exit *)
LEMMA AfterExit ==
  ASSUME HistoryOK, NEW a \in Addresses, NEW b \in Bytes, Exits(a, b)
  PROVE  /\ HistoryOK' /\ recent'[5] = <<Offset(a), b>>
         /\ Sent(<<170>>)' <=> b = 170 /\ Place(a) = 1365
         /\ Sent(<<170, 85>>)' <=> b = 85 /\ Place(a) = 682 /\ Sent(<<170>>)
         /\ Sent(<<170, 85, 144>>)' <=> b = 144 /\ Place(a) = 1365 /\ Sent(<<170, 85>>)
         /\ Sent(<<170, 85, 160>>)' <=> b = 160 /\ Place(a) = 1365 /\ Sent(<<170, 85>>)
         /\ Sent(<<170, 85, 128>>)' <=> b = 128 /\ Place(a) = 1365 /\ Sent(<<170, 85>>)
         /\ Sent(<<170, 85, 128, 170>>)' <=>
              b = 170 /\ Place(a) = 1365 /\ Sent(<<170, 85, 128>>)
         /\ Sent(<<170, 85, 128, 170, 85>>)' <=>
              b = 85 /\ Place(a) = 682 /\ Sent(<<170, 85, 128, 170>>)
<1> DEFINE x == <<Offset(a), b>>
<1>1. x \in Int \X Int /\ Remember(x)
  BY Placed DEF Exits
<1>2. \A c : Hit(x, c) <=> b = c /\ Place(a) = IF c = 85 THEN 682 ELSE 1365
  BY Placed
<1> HIDE DEF x
<1>3. /\ Hit(x, 170) <=> b = 170 /\ Place(a) = 1365
      /\ Hit(x, 85) <=> b = 85 /\ Place(a) = 682
      /\ Hit(x, 144) <=> b = 144 /\ Place(a) = 1365
      /\ Hit(x, 160) <=> b = 160 /\ Place(a) = 1365
      /\ Hit(x, 128) <=> b = 128 /\ Place(a) = 1365
  BY <1>2
<1>4. recent'[5] = <<Offset(a), b>>
  BY <1>1, SentGrows DEF x
<1> QED BY <1>1, <1>3, <1>4, SentGrows

(* A list that ends in one byte does not end in another. *)
LEMMA SentLast ==
  /\ Sent(<<170, 85, 160>>) => ~Sent(<<170>>) /\ ~Sent(<<170, 85>>)
  /\ Sent(<<170, 85, 160>>) => ~Sent(<<170, 85, 128>>)
  /\ Sent(<<170, 85, 160>>) => ~Sent(<<170, 85, 128, 170>>)
  /\ Sent(<<170, 85, 128, 170, 85>>) => ~Sent(<<170, 85, 128, 170>>)
<1>1. ASSUME Sent(<<170, 85, 160>>)
      PROVE  /\ recent[5][2] = 160
             /\ ~Sent(<<170>>) /\ ~Sent(<<170, 85>>) /\ ~Sent(<<170, 85, 128>>)
             /\ ~Sent(<<170, 85, 128, 170>>)
  BY <1>1 DEF Sent, Ends, Hit
<1>2. ASSUME Sent(<<170, 85, 128, 170, 85>>)
      PROVE  ~Sent(<<170, 85, 128, 170>>)
  BY <1>2 DEF Sent, Ends, Hit
<1> QED BY <1>1, <1>2

(* A read of the chip sends nothing. *)
LEMMA AfterRead ==
  ASSUME HistoryOK, Remember(ReadExit)
  PROVE  /\ HistoryOK' /\ recent'[5] = ReadExit
         /\ ~Sent(<<170>>)' /\ ~Sent(<<170, 85>>)' /\ ~Sent(<<170, 85, 144>>)'
         /\ ~Sent(<<170, 85, 160>>)' /\ ~Sent(<<170, 85, 128>>)'
         /\ ~Sent(<<170, 85, 128, 170>>)' /\ ~Sent(<<170, 85, 128, 170, 85>>)'
<1>1. ReadExit \in Int \X Int /\ \A c : ~Hit(ReadExit, c)
  BY DEF ReadExit, Hit
<1> HIDE DEF ReadExit, Hit
<1> QED BY <1>1, SentGrows

LEMMA CommandStep ==
  ASSUME HistoryOK, CommandInv, [Next]_vars
  PROVE  HistoryOK' /\ CommandInv'
<1> HIDE DEF Sent
<1>1. ASSUME NEW a \in Addresses, ReadUnmapped(a) PROVE HistoryOK' /\ CommandInv'
  BY <1>1, AfterRead DEF ReadUnmapped, CommandInv
<1>2. ASSUME NEW a \in Addresses, NEW b \in Bytes, Program(a, b)
      PROVE  HistoryOK' /\ CommandInv'
  BY <1>2, AfterExit, SentLast DEF Program, Exits, CommandInv
<1>3. ASSUME NEW a \in Addresses, NEW b \in Bytes, Reset(a, b)
      PROVE  HistoryOK' /\ CommandInv'
  BY <1>3, AfterExit DEF Reset, IsReset, CommandInv
<1>4. ASSUME NEW a \in Addresses, NEW b \in Bytes, Step(a, b)
      PROVE  HistoryOK' /\ CommandInv'
  <2>1. Exits(a, b) /\ ended = "no" /\ ended' = "no"
    BY <1>4 DEF Step, Exits
  <2>2. \E s \in Steps : /\ s[1] = flashState /\ s[2] = Place(a) /\ s[3] = b
                         /\ flashState' = s[4]
    BY <1>4 DEF Step
  <2> DEFINE Goes(place, byte, from, to) ==
               Place(a) = place /\ b = byte /\ flashState = from /\ flashState' = to
  <2>3. \/ Goes(1365, 170, "Read", "CommandByte_1")
        \/ Goes(682, 85, "CommandByte_1", "CommandByte_2")
        \/ Goes(1365, 128, "CommandByte_2", "CommandByte_3")
        \/ Goes(1365, 170, "CommandByte_3", "CommandByte_4")
        \/ Goes(682, 85, "CommandByte_4", "CommandByte_5")
        \/ Goes(1365, 160, "CommandByte_2", "Program")
    <3>1. PICK s \in Steps : /\ flashState = s[1] /\ Place(a) = s[2] /\ b = s[3]
                             /\ flashState' = s[4]
      BY <2>2
    <3>2. \/ s = <<"Read", 1365, 170, "CommandByte_1">>
          \/ s = <<"CommandByte_1", 682, 85, "CommandByte_2">>
          \/ s = <<"CommandByte_2", 1365, 128, "CommandByte_3">>
          \/ s = <<"CommandByte_3", 1365, 170, "CommandByte_4">>
          \/ s = <<"CommandByte_4", 682, 85, "CommandByte_5">>
          \/ s = <<"CommandByte_2", 1365, 160, "Program">>
      BY DEF Steps
    <3> QED BY <3>1, <3>2
  <2> QED BY <2>1, <2>3, AfterExit DEF CommandInv
<1>5. ASSUME NEW a \in Addresses, NEW b \in Bytes, Identify(a, b)
      PROVE  HistoryOK' /\ CommandInv'
  BY <1>5, AfterExit DEF Identify, IsIdentify, CommandInv
<1>6. ASSUME NEW a \in Addresses, NEW b \in Bytes, Erase(a, b)
      PROVE  HistoryOK' /\ CommandInv'
  BY <1>6, AfterExit DEF Erase, IsSectorErase, IsChipErase, CommandInv
<1>7. ASSUME NEW a \in Addresses, NEW b \in Bytes, Unknown(a, b)
      PROVE  HistoryOK' /\ CommandInv'
  BY <1>7, AfterExit DEF Unknown, CommandInv
<1>8. ASSUME NEW a \in Addresses, NEW b \in Bytes, Unhandled(a, b)
      PROVE  HistoryOK' /\ CommandInv'
  <2>1. recent' = recent /\ UNCHANGED <<flashState, ended>>
    BY <1>8 DEF Unhandled
  <2> QED BY <2>1 DEF HistoryOK, CommandInv, Sent, Ends
<1>9. CASE UNCHANGED vars
  BY <1>9 DEF vars, HistoryOK, CommandInv, Sent, Ends
<1>10. ASSUME NEW a \in Addresses, WideWrite(a) PROVE HistoryOK' /\ CommandInv'
  BY <1>10 DEF WideWrite, HistoryOK, CommandInv
<1> QED
  BY <1>1, <1>2, <1>3, <1>4, <1>5, <1>6, <1>7, <1>8, <1>9, <1>10 DEF Next

\* A write strands the chip when it is F0h after the identification command
LEMMA Stranding ==
  ASSUME SlotInv, NEW a \in Addresses, NEW b \in Bytes, Exits(a, b)
  PROVE  /\ ended = "no" /\ stranded' \in BOOLEAN
         /\ stranded' <=> stranded \/ (b = 240 /\ IdentifySent)
BY DEF SlotInv, Exits, IsReset

LEMMA SlotStep ==
  ASSUME HistoryOK, CommandInv, SlotInv, [Next]_vars
  PROVE  SlotInv'
<1> USE DEF IdentifySent
<1>1. ASSUME NEW a \in Addresses, ReadUnmapped(a) PROVE SlotInv'
  <2>1. /\ ended = "no" /\ ended' = "no" /\ flashState' = "Read"
        /\ mapped' = (flashState = "ProductIdentification")
        /\ ~mapped /\ stranded' = stranded
    BY <1>1 DEF ReadUnmapped
  <2>2. ~IdentifySent'
    BY <1>1, AfterRead DEF ReadUnmapped
  <2> QED BY <2>1, <2>2 DEF SlotInv
<1>2. ASSUME NEW a \in Addresses, NEW b \in Bytes, Program(a, b) PROVE SlotInv'
  <2>1. /\ Exits(a, b) /\ ended = "no" /\ ended' = "no" /\ mapped' = mapped
        /\ flashState = "Program" /\ flashState' = "Read"
    BY <1>2 DEF Program, Exits
  <2>2. ~IdentifySent /\ ~IdentifySent'
    BY <2>1, AfterExit, SentLast DEF CommandInv, SlotInv
  <2> QED BY <2>1, <2>2, Stranding DEF SlotInv
<1>3. ASSUME NEW a \in Addresses, NEW b \in Bytes, Reset(a, b) PROVE SlotInv'
  <2>1. /\ Exits(a, b) /\ ended = "no" /\ ended' = "no" /\ mapped' = mapped
        /\ b = 240 /\ flashState' = "Read"
    BY <1>3 DEF Reset, Exits, IsReset
  <2>2. ~IdentifySent'
    BY <2>1, AfterExit
  <2> QED BY <2>1, <2>2, Stranding DEF SlotInv
<1>4. ASSUME NEW a \in Addresses, NEW b \in Bytes, Step(a, b) PROVE SlotInv'
  <2>1. Exits(a, b) /\ ended = "no" /\ ended' = "no" /\ mapped' = mapped
    BY <1>4 DEF Step, Exits
  <2>2. \E s \in Steps : /\ s[1] = flashState /\ s[2] = Place(a) /\ s[3] = b
                         /\ flashState' = s[4]
    BY <1>4 DEF Step
  <2>3. /\ b # 144 /\ b # 240 /\ flashState # "ProductIdentification"
        /\ flashState' # "ProductIdentification"
    BY <2>2, StepsAre
  <2>4. ~IdentifySent /\ ~IdentifySent'
    BY <2>1, <2>3, AfterExit DEF SlotInv
  <2> QED BY <2>1, <2>3, <2>4, Stranding DEF SlotInv
<1>5. ASSUME NEW a \in Addresses, NEW b \in Bytes, Identify(a, b) PROVE SlotInv'
  <2>1. /\ Exits(a, b) /\ ended = "no"
        /\ flashState = "CommandByte_2" /\ b = 144 /\ Place(a) = 1365
        /\ flashState' = "ProductIdentification" /\ mapped' = FALSE
        /\ ended' = IF mapped THEN "no" ELSE "slot"
    BY <1>5 DEF Identify, IsIdentify, Exits
  <2>2. ~IdentifySent /\ (mapped <=> ~stranded) /\ Sent(<<170, 85>>)
    BY <2>1 DEF SlotInv, CommandInv
  <2>3. IdentifySent' /\ stranded' = stranded
    BY <2>1, <2>2, AfterExit, Stranding DEF SlotInv
  <2> QED BY <2>1, <2>2, <2>3 DEF SlotInv
<1>6. ASSUME NEW a \in Addresses, NEW b \in Bytes, Erase(a, b) PROVE SlotInv'
  <2>1. /\ Exits(a, b) /\ ended = "no" /\ ended' = "no" /\ mapped' = mapped
        /\ b # 144 /\ b # 240
        /\ flashState = "CommandByte_5" /\ flashState' = "Read"
    BY <1>6 DEF Erase, Exits, IsSectorErase, IsChipErase
  <2>2. ~IdentifySent /\ ~IdentifySent'
    BY <2>1, AfterExit DEF SlotInv
  <2> QED BY <2>1, <2>2, Stranding DEF SlotInv
<1>7. ASSUME NEW a \in Addresses, NEW b \in Bytes, Unknown(a, b) PROVE SlotInv'
  BY <1>7, Stranding DEF Unknown, SlotInv
<1>8. ASSUME NEW a \in Addresses, NEW b \in Bytes, Unhandled(a, b) PROVE SlotInv'
  <2>1. UNCHANGED <<flashState, mapped, ended, recent, stranded>>
    BY <1>8 DEF Unhandled
  <2> QED BY <2>1 DEF SlotInv, Sent, Ends
<1>9. CASE UNCHANGED vars
  BY <1>9 DEF vars, SlotInv, Sent, Ends
<1>10. ASSUME NEW a \in Addresses, WideWrite(a) PROVE SlotInv'
  BY <1>10 DEF WideWrite, SlotInv
<1> QED
  BY <1>1, <1>2, <1>3, <1>4, <1>5, <1>6, <1>7, <1>8, <1>9, <1>10 DEF Next

LEMMA InitInv == Init => HistoryOK /\ CommandInv /\ SlotInv
<1> SUFFICES ASSUME Init PROVE HistoryOK /\ CommandInv /\ SlotInv
  OBVIOUS
<1>1. recent = [i \in 1..5 |-> ReadExit]
  BY DEF Init
<1>2. HistoryOK
  BY <1>1 DEF HistoryOK, ReadExit
<1>3. \A i \in 1..5 : \A c : ~Hit(recent[i], c)
  BY <1>1 DEF Hit
<1>4. /\ ~Sent(<<170>>) /\ ~Sent(<<170, 85>>) /\ ~Sent(<<170, 85, 144>>)
      /\ ~Sent(<<170, 85, 160>>) /\ ~Sent(<<170, 85, 128>>)
      /\ ~Sent(<<170, 85, 128, 170>>) /\ ~Sent(<<170, 85, 128, 170, 85>>)
  BY <1>3 DEF Sent, Ends
<1> QED BY <1>2, <1>4 DEF Init, CommandInv, SlotInv, IdentifySent

-----------------------------------------------------------------------------
(* The theorems.                                                             *)

(* The slots show the chip exactly when the last handled exits are not the    *)
(* identification command, and no F0h has ever come in place of the read.     *)
THEOREM ShownUnlessIdentifyingHolds == Spec => []ShownUnlessIdentifying
<1>1. HistoryOK /\ CommandInv /\ SlotInv => ShownUnlessIdentifying
  BY DEF SlotInv, ShownUnlessIdentifying
<1> QED BY <1>1, InitInv, CommandStep, SlotStep, PTL DEF Spec

(* main asks KVM for a change of the slots that it refuses only after an F0h  *)
(* in place of that read: main.cpp 906-908.                                   *)
THEOREM RefusedOnlyIfStrandedHolds == Spec => []RefusedOnlyIfStranded
<1>1. HistoryOK /\ CommandInv /\ SlotInv => RefusedOnlyIfStranded
  BY DEF SlotInv, RefusedOnlyIfStranded
<1> QED BY <1>1, InitInv, CommandStep, SlotStep, PTL DEF Spec

-----------------------------------------------------------------------------
(* The contents.                                                             *)

Follows ==
  LET last == recent'[5]
  IN  flashMemory' = IF recent' = recent \/ last = ReadExit THEN flashMemory
                     ELSE Commanded(recent, last[1], last[2])

ContentsOK == flashMemory \in [Offsets -> 0..255]

\* What has been sent does not change if the history does not.
LEMMA SameHistory ==
  ASSUME recent' = recent, NEW s PROVE Sent(s)' <=> Sent(s)
BY DEF Sent, Ends

\* A write that is neither the data of a program nor the last byte of an erase
LEMMA KeepsContents ==
  ASSUME HistoryOK, ContentsOK, NEW a \in Addresses, NEW b \in Bytes, Exits(a, b),
         flashMemory' = flashMemory, ~Sent(<<170, 85, 160>>),
         Sent(<<170, 85, 128, 170, 85>>) => b # 48 /\ ~(b = 16 /\ Place(a) = 1365)
  PROVE  Follows
<1>1. recent'[5] = <<Offset(a), b>>
  BY AfterExit
<1>2. ~(/\ Sent(<<170, 85, 128, 170, 85>>)
        /\ (b = 16 /\ Offset(a) % 2048 = 1365) \/ b = 48)
  BY DEF Place
<1> HIDE DEF Sent, Offset
<1>3. Commanded(recent, Offset(a), b) = [o \in Offsets |-> flashMemory[o]]
  BY <1>2 DEF Commanded, Sent
<1>4. [o \in Offsets |-> flashMemory[o]] = flashMemory
  BY DEF ContentsOK
<1> QED BY <1>1, <1>3, <1>4 DEF Follows

LEMMA ProgramFollows ==
  ASSUME HistoryOK, CommandInv, ContentsOK, NEW a \in Addresses, NEW b \in Bytes,
         Program(a, b)
  PROVE  Follows
<1>1. /\ Exits(a, b) /\ ended = "no"
      /\ Sent(<<170, 85, 160>>) /\ ~Sent(<<170, 85, 128, 170, 85>>)
  BY DEF Program, Exits, CommandInv
<1>2. recent'[5] = <<Offset(a), b>>
  BY <1>1, AfterExit
<1>3. recent' # recent
  BY <1>1, AfterExit, SentLast, SameHistory
<1>4. <<Offset(a), b>> # ReadExit
  BY Placed
<1> HIDE DEF Sent, Offset, ReadExit
<1>5. Commanded(recent, Offset(a), b) =
        [o \in Offsets |-> IF o = Offset(a) THEN b ELSE flashMemory[o]]
  BY <1>1 DEF Commanded, Sent
<1>6. flashMemory' = [o \in Offsets |-> IF o = Offset(a) THEN b ELSE flashMemory[o]]
  BY DEF Program, ContentsOK
<1> QED BY <1>2, <1>3, <1>4, <1>5, <1>6 DEF Follows

LEMMA EraseFollows ==
  ASSUME HistoryOK, CommandInv, ContentsOK, NEW a \in Addresses, NEW b \in Bytes,
         Erase(a, b)
  PROVE  Follows
<1>1. /\ Exits(a, b) /\ ended = "no" /\ flashState = "CommandByte_5"
      /\ b = 48 \/ (b = 16 /\ Place(a) = 1365)
  BY DEF Erase, IsSectorErase, IsChipErase, Exits
<1>2. Sent(<<170, 85, 128, 170, 85>>) /\ ~Sent(<<170, 85, 160>>)
  BY <1>1 DEF CommandInv
<1>3. recent'[5] = <<Offset(a), b>>
  BY <1>1, AfterExit
<1>4. recent' # recent
  BY <1>1, <1>2, AfterExit, SentLast, SameHistory
<1>5. <<Offset(a), b>> # ReadExit
  BY Placed
<1>6. Place(a) = Offset(a) % 2048
  BY DEF Place
<1> HIDE DEF Sent, Offset, ReadExit, Place
<1>7. Commanded(recent, Offset(a), b) =
        [o \in Offsets |->
           IF (b = 16 /\ Place(a) = 1365) \/ (b = 48 /\ Sector(o) = Sector(Offset(a)))
           THEN 255 ELSE flashMemory[o]]
  BY <1>2, <1>6 DEF Commanded, Sent
<1>8. flashMemory' =
        [o \in Offsets |->
           IF (b = 16 /\ Place(a) = 1365) \/ Sector(o) = Sector(Offset(a))
           THEN 255 ELSE flashMemory[o]]
  BY <1>1 DEF Erase, IsChipErase
<1>9. flashMemory' = Commanded(recent, Offset(a), b)
  <2>1. CASE b = 48
    BY <2>1, <1>7, <1>8
  <2>2. CASE b = 16 /\ Place(a) = 1365
    BY <2>2, <1>7, <1>8
  <2> QED BY <1>1, <2>1, <2>2
<1> QED BY <1>3, <1>4, <1>5, <1>9 DEF Follows

LEMMA ContentsStep ==
  ASSUME HistoryOK, CommandInv, ContentsOK, [Next]_vars
  PROVE  ContentsOK' /\ (Follows \/ UNCHANGED vars)
<1> HIDE DEF Sent
<1>1. ASSUME NEW a \in Addresses, ReadUnmapped(a) PROVE ContentsOK' /\ Follows
  BY <1>1, AfterRead DEF ReadUnmapped, ContentsOK, Follows
<1>2. ASSUME NEW a \in Addresses, NEW b \in Bytes, Program(a, b)
      PROVE  ContentsOK' /\ Follows
  <2>1. b \in 0..255
    BY FlashAssumption DEF FlashAssumption
  <2> QED BY <1>2, <2>1, ProgramFollows DEF Program, ContentsOK
<1>3. ASSUME NEW a \in Addresses, NEW b \in Bytes, Reset(a, b)
      PROVE  ContentsOK' /\ Follows
  <2>1. Exits(a, b) /\ ended = "no" /\ flashState # "Program" /\ b = 240
        /\ flashMemory' = flashMemory
    BY <1>3 DEF Reset, Exits, IsReset
  <2> QED BY <2>1, KeepsContents DEF CommandInv, ContentsOK
<1>4. ASSUME NEW a \in Addresses, NEW b \in Bytes, Step(a, b)
      PROVE  ContentsOK' /\ Follows
  <2>1. Exits(a, b) /\ ended = "no" /\ flashMemory' = flashMemory
    BY <1>4 DEF Step, Exits
  <2>2. \E s \in Steps : /\ s[1] = flashState /\ s[2] = Place(a) /\ s[3] = b
                         /\ flashState' = s[4]
    BY <1>4 DEF Step
  <2>3. flashState \notin {"Program", "CommandByte_5"}
    BY <2>2, StepsAre
  <2> QED BY <2>1, <2>3, KeepsContents DEF CommandInv, ContentsOK
<1>5. ASSUME NEW a \in Addresses, NEW b \in Bytes, Identify(a, b)
      PROVE  ContentsOK' /\ Follows
  <2>1. Exits(a, b) /\ ended = "no" /\ flashState = "CommandByte_2"
        /\ flashMemory' = flashMemory
    BY <1>5 DEF Identify, Exits, IsIdentify
  <2> QED BY <2>1, KeepsContents DEF CommandInv, ContentsOK
<1>6. ASSUME NEW a \in Addresses, NEW b \in Bytes, Erase(a, b)
      PROVE  ContentsOK' /\ Follows
  BY <1>6, EraseFollows DEF Erase, ContentsOK
<1>7. ASSUME NEW a \in Addresses, NEW b \in Bytes, Unknown(a, b)
      PROVE  ContentsOK' /\ Follows
  <2>1. Exits(a, b) /\ ended = "no" /\ flashState # "Program"
        /\ ~IsSectorErase(b) /\ ~IsChipErase(a, b)
        /\ flashMemory' = flashMemory
    BY <1>7 DEF Unknown, Exits
  <2> QED
    BY <2>1, KeepsContents DEF CommandInv, ContentsOK, IsSectorErase, IsChipErase
<1>8. ASSUME NEW a \in Addresses, NEW b \in Bytes, Unhandled(a, b)
      PROVE  ContentsOK' /\ Follows
  BY <1>8 DEF Unhandled, ContentsOK, Follows
<1>9. CASE UNCHANGED vars
  BY <1>9 DEF vars, ContentsOK
<1>10. ASSUME NEW a \in Addresses, WideWrite(a) PROVE ContentsOK' /\ Follows
  BY <1>10 DEF WideWrite, ContentsOK, Follows
<1> QED
  BY <1>1, <1>2, <1>3, <1>4, <1>5, <1>6, <1>7, <1>8, <1>9, <1>10 DEF Next

(* Among the accesses main handles, the contents change by complete commands *)
(* and by nothing else, and a complete command is carried out: main.cpp       *)
(* 903-934.                                                                   *)
THEOREM ContentsFollowHandledHolds == Spec => ContentsFollowHandled
<1>1. Init => ContentsOK
  BY DEF Init, ContentsOK
<1>2. HistoryOK /\ CommandInv /\ ContentsOK /\ [Next]_vars =>
        [LET last == recent'[5]
         IN  flashMemory' = IF recent' = recent \/ last = ReadExit THEN flashMemory
                            ELSE Commanded(recent, last[1], last[2])]_vars
  BY ContentsStep DEF Follows
<1> QED
  BY <1>1, <1>2, InitInv, CommandStep, ContentsStep, PTL
     DEF Spec, ContentsFollowHandled

(* The state, the contents and the history keep their types, whatever part of *)
(* the chip main's test covers.                                               *)
LEMMA TypeStep == TypeOK /\ [Next]_vars => TypeOK'
<1> SUFFICES ASSUME TypeOK, [Next]_vars PROVE TypeOK'
  OBVIOUS
<1> DEFINE Histories == [1..5 -> Int \X Int]
           NotesOK == /\ recent \in Histories /\ issued \in Histories
                      /\ stranded \in BOOLEAN
<1>1. NotesOK
  BY DEF TypeOK
<1>2. ASSUME NEW h \in Histories, NEW x \in Int \X Int
      PROVE  After(h, x) \in Histories
  BY DEF After
<1>3. /\ {"Read", "ProductIdentification"} \subseteq States
      /\ ReadExit \in Int \X Int
      /\ Bytes \subseteq 0..255
  BY FlashAssumption DEF States, Steps, ReadExit, FlashAssumption
<1>4. ASSUME NEW a \in Addresses, NEW b \in Bytes, Exits(a, b) PROVE NotesOK'
  BY <1>1, <1>2, <1>4, Placed DEF Exits, Remember
<1>5. NotesOK' => {recent', issued'} \subseteq [1..5 -> Int \X Int]
                    /\ stranded' \in BOOLEAN
  OBVIOUS
<1>6. ASSUME NEW a \in Addresses, ReadUnmapped(a) PROVE TypeOK'
  <2>1. NotesOK'
    BY <1>1, <1>2, <1>3, <1>6 DEF ReadUnmapped, Remember
  <2> HIDE DEF NotesOK
  <2> QED BY <1>3, <1>5, <1>6, <2>1 DEF ReadUnmapped, TypeOK
<1> HIDE DEF NotesOK
<1>7. ASSUME NEW a \in Addresses, NEW b \in Bytes, Program(a, b) PROVE TypeOK'
  BY <1>3, <1>4, <1>5, <1>7 DEF Program, TypeOK
<1>8. ASSUME NEW a \in Addresses, NEW b \in Bytes, Reset(a, b) PROVE TypeOK'
  BY <1>3, <1>4, <1>5, <1>8 DEF Reset, TypeOK
<1>9. ASSUME NEW a \in Addresses, NEW b \in Bytes, Step(a, b) PROVE TypeOK'
  <2>1. flashState' \in States
    BY <1>9 DEF Step, States, Steps
  <2> QED BY <1>4, <1>5, <1>9, <2>1 DEF Step, TypeOK
<1>10. ASSUME NEW a \in Addresses, NEW b \in Bytes, Identify(a, b) PROVE TypeOK'
  BY <1>3, <1>4, <1>5, <1>10 DEF Identify, TypeOK
<1>11. ASSUME NEW a \in Addresses, NEW b \in Bytes, Erase(a, b) PROVE TypeOK'
  BY <1>3, <1>4, <1>5, <1>11 DEF Erase, TypeOK
<1>12. ASSUME NEW a \in Addresses, NEW b \in Bytes, Unknown(a, b) PROVE TypeOK'
  BY <1>3, <1>4, <1>5, <1>12 DEF Unknown, TypeOK
<1>13. ASSUME NEW a \in Addresses, NEW b \in Bytes, Unhandled(a, b) PROVE TypeOK'
  <2>1. issued \in Histories /\ <<Offset(a), b>> \in Int \X Int
    BY Placed DEF TypeOK
  <2>2. issued' \in [1..5 -> Int \X Int]
    BY <1>2, <1>13, <2>1 DEF Unhandled
  <2> QED BY <1>13, <2>2 DEF Unhandled, TypeOK
<1>14. CASE UNCHANGED vars
  BY <1>14 DEF vars, TypeOK
<1>15. ASSUME NEW a \in Addresses, WideWrite(a) PROVE TypeOK'
  BY <1>15 DEF WideWrite, TypeOK
<1> QED
  BY <1>6, <1>7, <1>8, <1>9, <1>10, <1>11, <1>12, <1>13, <1>14, <1>15 DEF Next

(* The types of the chip's state hold in every reachable state.               *)
THEOREM TypeCorrect == Spec => []TypeOK
<1>1. Init => {recent, issued} \subseteq [1..5 -> Int \X Int]
  BY DEF Init, ReadExit
<1>2. "Read" \in States
  BY DEF States, Steps
<1>3. Init => TypeOK
  <2> SUFFICES ASSUME Init PROVE TypeOK
    OBVIOUS
  <2>1. /\ flashState = "Read" /\ mapped = TRUE /\ ended = "no" /\ stranded = FALSE
        /\ flashMemory \in [Offsets -> 0..255]
    BY DEF Init
  <2> QED BY <1>1, <1>2, <2>1 DEF TypeOK
<1> QED BY <1>3, TypeStep, PTL DEF Spec

-----------------------------------------------------------------------------
(* The window as coded.                                                      *)

\* The chip as it was when the emulator started, and the guest sees it
Inert ==
  /\ flashState = "Read" /\ flashMemory = [o \in Offsets |-> 0]
  /\ mapped /\ ended = "no"

(* With main's bound as it is (0x350000, main.cpp:892), which lies below the  *)
(* chip, no guest whatever gets a command carried out: the chip is a ROM, and *)
(* no write to it ends the emulator.                                          *)
THEOREM InertAsCoded ==
  ASSUME WindowEnd <= ChipStart
  PROVE  Spec => []Inert
<1>1. Init => Inert
  BY DEF Init, Inert
<1>2. ASSUME NEW a \in Addresses PROVE ~InWindow(a)
  <2>1. a \in Nat /\ WindowEnd \in Nat
    BY FlashAssumption DEF FlashAssumption
  <2> QED BY <2>1, SMT DEF InWindow, ChipStart
<1>3. Inert /\ [Next]_vars => Inert'
  <2> SUFFICES ASSUME Inert, [Next]_vars PROVE Inert'
    OBVIOUS
  <2>1. ASSUME NEW a \in Addresses, NEW b \in Bytes, Unhandled(a, b)
        PROVE  Inert'
    BY <2>1 DEF Unhandled, Inert
  <2>2. CASE UNCHANGED vars
    BY <2>2 DEF vars, Inert
  <2> QED
    BY <1>2, <2>1, <2>2 DEF Next, ReadUnmapped, WideWrite, Program, Reset, Step,
                            Identify, Erase, Unknown, Exits
<1> QED BY <1>1, <1>3, PTL DEF Spec

=============================================================================
