-------------------------- MODULE VirtualDiskProofs -------------------------
(***************************************************************************)
(* Two invariants of VirtualDisk for every set of requests: the window     *)
(* shows the block the registers name, and no selection ever fails.  They  *)
(* need each other and the alignment of every block the driver selects.    *)
(*                                                                         *)
(* From them, for requests that the driver's 16-bit arithmetic can follow  *)
(* (Tame), that it moves exactly the requested sectors.                    *)
(***************************************************************************)
EXTENDS VirtualDisk, SequenceTheorems, TLAPS

Aligned(block) == block \in Int \X Int /\ block[1] % 8 = 0

DeviceInv ==
  /\ running
  /\ Aligned(register)
  /\ pc # "boot" => mapped = register

(* A word is a multiple of 8, so is what it wraps to. *)
LEMMA WrapKeepsAlignment ==
  ASSUME NEW x \in Int, x % 8 = 0 PROVE ((x + 8) % 65536) % 8 = 0
OBVIOUS

(* The address of a request's block, and of the block after an aligned one, *)
(* is a multiple of 8 sectors.                                              *)
LEMMA BlockAligned == ASSUME NEW r \in Requests PROVE Aligned(Block(Lba(r)))
<1>1. r.cylinder \in Nat /\ r.head \in Nat /\ r.sector \in 1..63
  BY RequestsAssumption
<1>2. (255 * r.cylinder + r.head) % 65536 \in Nat
  BY <1>1
<1>3. Lba(r) \in Nat
  BY <1>1, <1>2 DEF Lba, Word
<1>4. ASSUME NEW x \in Nat PROVE ((x % 65536) - (x % 8)) % 8 = 0
  OBVIOUS
<1>5. ASSUME NEW x \in Nat
      PROVE x \div 65536 \in Int /\ (x % 65536) - (x % 8) \in Int
  OBVIOUS
<1> DEFINE x == Lba(r)
<1>6. Block(x) = <<(x % 65536) - (x % 8), x \div 65536>>
  BY DEF Block, Word
<1>7. Block(x)[1] % 8 = 0
  BY <1>3, <1>4, <1>6
<1>8. Block(x) \in Int \X Int
  BY <1>3, <1>5, <1>6
<1> QED BY <1>7, <1>8 DEF Aligned

LEMMA NextBlockAligned ==
  ASSUME Aligned(register) PROVE Aligned(NextBlock)
<1>1. ASSUME NEW x \in Int, x % 8 = 0 PROVE ((x + 8) % 65536) % 8 = 0
  BY <1>1, WrapKeepsAlignment
<1>2. ASSUME NEW x \in Int PROVE (x + 8) % 65536 \in Int
  OBVIOUS
<1>3. register[1] \in Int /\ register[2] \in Int /\ register[1] % 8 = 0
  BY DEF Aligned
<1>4. NextBlock = <<(register[1] + 8) % 65536, register[2]>>
  BY DEF NextBlock, Word
<1>5. NextBlock[1] % 8 = 0
  BY <1>1, <1>3, <1>4
<1>6. NextBlock \in Int \X Int
  BY <1>2, <1>3, <1>4
<1> QED BY <1>5, <1>6 DEF Aligned

(* The two words that are written make the block's address. *)
LEMMA SelectWrites ==
  ASSUME NEW low, NEW high, Select(<<low, high>>)
  PROVE  register' = <<low, high>>
BY DEF Select, WordWritten

(* Selecting an aligned block succeeds and leaves it in the window. *)
LEMMA SelectAligned ==
  ASSUME NEW block, Aligned(block), Select(block)
  PROVE  running' /\ register' = block /\ mapped' = block
<1>1. block = <<block[1], block[2]>>
  BY DEF Aligned
<1>2. register' = block
  BY <1>1, SelectWrites
<1> QED BY <1>2 DEF Select, Mappable, Aligned

LEMMA DeviceStep == DeviceInv /\ [Next]_vars => DeviceInv'
<1> SUFFICES ASSUME DeviceInv, [Next]_vars PROVE DeviceInv'
  OBVIOUS
<1>1. CASE RomInit
  <2>1. Aligned(<<0, 0>>)
    BY DEF Aligned
  <2>2. Select(<<0, 0>>)
    BY <1>1 DEF RomInit
  <2> QED BY <2>1, <2>2, SelectAligned DEF DeviceInv
<1>2. ASSUME NEW r \in Requests, Take(r) PROVE DeviceInv'
  <2>1. CASE UNCHANGED device
    <3>1. pc # "boot"
      BY <1>2 DEF Take
    <3> QED BY <2>1, <3>1 DEF DeviceInv, device, Aligned
  <2>2. CASE Select(Block(Lba(r)))
    BY <2>2, BlockAligned, SelectAligned DEF DeviceInv
  <2> QED BY <1>2, <2>1, <2>2 DEF Take
<1>3. ASSUME NEW offset, NEW n, pc # "boot", Copy(offset, n) PROVE DeviceInv'
  <2>1. CASE UNCHANGED device
    BY <1>3, <2>1 DEF DeviceInv, device, Aligned
  <2>2. CASE Select(NextBlock)
    BY <2>2, NextBlockAligned, SelectAligned DEF DeviceInv
  <2> QED BY <1>3, <2>1, <2>2 DEF Copy
<1>4. CASE CopyHead
  BY <1>3, <1>4 DEF CopyHead
<1>5. CASE CopyBlock
  BY <1>3, <1>5 DEF CopyBlock
<1>6. CASE CopyLast
  BY <1>3, <1>6 DEF CopyLast
<1>7. CASE UNCHANGED vars
  BY <1>7 DEF DeviceInv, vars, device, driver, Aligned
<1> QED BY <1>1, <1>2, <1>4, <1>5, <1>6, <1>7 DEF Next

LEMMA DeviceAlways == Spec => []DeviceInv
<1>1. Init => DeviceInv
  BY DEF Init, DeviceInv, Aligned
<1> QED BY <1>1, DeviceStep, PTL DEF Spec

(* The block that the registers name is the one at C9000h, so a request that *)
(* finds its block in the registers may skip selecting it.                   *)
THEOREM RegisterIsMappedHolds == Spec => []RegisterIsMapped
<1>1. DeviceInv => RegisterIsMapped
  BY DEF DeviceInv, RegisterIsMapped
<1> QED BY <1>1, DeviceAlways, PTL

(* No request, at whatever place and of whatever length, makes the driver ask *)
(* for a block that mmap refuses and so ends the emulator.                    *)
THEOREM StaysUpHolds == Spec => []StaysUp
<1>1. DeviceInv => StaysUp
  BY DEF DeviceInv, StaysUp
<1> QED BY <1>1, DeviceAlways, PTL

-----------------------------------------------------------------------------
(* What the driver moves.                                                    *)

Sectors(first, n) == [i \in 1..n |-> first + i - 1]

(* The request stays below the next multiple of 65536 sectors, and its length *)
(* is no negative byte where the driver compares it.                          *)
Tame(r) ==
  /\ (FirstSector(r) % Word) + r.count <= Word
  /\ FirstSector(r) % 8 = 0 \/ r.count < 128

LEMMA SectorsType ==
  ASSUME NEW f \in Int, NEW n \in Nat
  PROVE  Sectors(f, n) \in Seq(Int) /\ Len(Sectors(f, n)) = n
<1>1. \A i \in 1..n : f + i - 1 \in Int
  OBVIOUS
<1>2. Sectors(f, n) \in Seq(Int)
  BY <1>1, IsASeq DEF Sectors
<1>3. DOMAIN Sectors(f, n) = 1..n
  BY DEF Sectors
<1> QED BY <1>2, <1>3, LenProperties

(* A run of sectors goes on where the one before it ended. *)
LEMMA SectorsConcat ==
  ASSUME NEW f \in Int, NEW a \in Nat, NEW n \in Nat
  PROVE  Sectors(f, a) \o Sectors(f + a, n) = Sectors(f, a + n)
<1> DEFINE s == Sectors(f, a)
           t == Sectors(f + a, n)
           u == Sectors(f, a + n)
<1>2. /\ s \in Seq(Int) /\ t \in Seq(Int) /\ u \in Seq(Int)
      /\ Len(s) = a /\ Len(t) = n /\ Len(u) = a + n
  BY SectorsType
<1>3. \A i \in 1..a + n : (s \o t)[i] = IF i <= a THEN s[i] ELSE t[i - a]
  BY <1>2, ConcatProperties
<1>4. \A i \in 1..a + n : (IF i <= a THEN s[i] ELSE t[i - a]) = u[i]
  BY DEF Sectors
<1>5. s \o t \in Seq(Int) /\ Len(s \o t) = a + n
  BY <1>2, ConcatProperties
<1> HIDE DEF s, t, u
<1>6. \A i \in 1..Len(s \o t) : (s \o t)[i] = u[i]
  BY <1>3, <1>4, <1>5
<1>7. s \o t = u
  BY <1>2, <1>5, <1>6, SeqEqual
<1> QED BY <1>7 DEF s, t, u

LEMMA WordRange ==
  /\ Word - 1 = 65535
  /\ \A x \in Nat : x <= 65535 => x \in 0..Word - 1
<1>1. Word - 1 = 65535
  BY SMT DEF Word
<1>2. ASSUME NEW w \in Nat, NEW x \in Nat, x <= w PROVE x \in 0..w
  BY <1>2
<1>3. 65535 \in Nat
  BY SMT
<1> QED BY <1>1, <1>2, <1>3, SMT

(* No cylinder, head and sector leave the range of the 16-bit product, so the *)
(* driver's address is the geometry's.                                        *)
LEMMA LbaIsFirstSector ==
  ASSUME NEW r \in Requests
  PROVE  /\ Lba(r) = FirstSector(r) /\ FirstSector(r) \in Nat
         /\ FirstSector(r) \div 65536 \in 0..Word - 1
         /\ r.count \in 1..128
<1> DEFINE c == r.cylinder
           h == r.head
           s == r.sector
<1>1. /\ c \in Nat /\ c <= 255 /\ h \in Nat /\ h <= 254
      /\ s \in Nat /\ 1 <= s /\ s <= 63 /\ r.count \in 1..128
  BY RequestsAssumption
<1>2. /\ Lba(r) = ((255 * c + h) % 65536) * 63 + (s - 1)
      /\ FirstSector(r) = (c * 255 + h) * 63 + s - 1
  BY DEF Lba, FirstSector, Word
<1> HIDE DEF c, h, s
<1>3. 255 * c + h \in Nat /\ 255 * c + h <= 65279 /\ c * 255 = 255 * c
  BY <1>1, SMT
<1> DEFINE track == 255 * c + h
<1>4. track \in Nat /\ track % 65536 = track /\ track <= 65279
  BY <1>3, SMT
<1>5. Lba(r) = track * 63 + (s - 1) /\ FirstSector(r) = track * 63 + s - 1
  BY <1>2, <1>3, <1>4
<1> HIDE DEF track
<1>6. FirstSector(r) \in Nat /\ FirstSector(r) <= 65536 * 65535
      /\ Lba(r) = FirstSector(r)
  BY <1>1, <1>4, <1>5, SMT
<1>7. FirstSector(r) \div 65536 \in Nat /\ FirstSector(r) \div 65536 <= 65535
  BY <1>6, SMT
<1> QED BY <1>1, <1>6, <1>7, WordRange

(* The driver is somewhere in request r: it has moved count - left sectors,   *)
(* and its registers name the block the next one is in.                       *)
TransferInv(r) ==
  LET f == FirstSector(r)
      done == r.count - left
  IN  /\ r \in Requests /\ left \in 0..r.count
      /\ moved = Sectors(f, done)
      /\ pc \in {"idle", "head", "blocks"} /\ (pc = "idle" <=> left = 0)
      /\ pc = "head" => /\ left = r.count
                        /\ f % 8 # 0
                        /\ register = <<(f % Word) - (f % 8), f \div Word>>
      /\ pc = "blocks" => register = <<(f % Word) + done, f \div Word>>

NothingYet == pc \in {"boot", "idle"} /\ request = <<>> /\ left = 0 /\ moved = <<>>

RegisterType == register \in (0..Word - 1) \X (0..Word - 1)

DriverInv ==
  /\ RegisterType
  /\ NothingYet \/ \E r \in Requests : request = <<r>> /\ TransferInv(r)

(* A request begins with its first block in the registers, selected or found  *)
(* there.                                                                     *)
LEMMA TakeTransfer ==
  ASSUME DeviceInv, RegisterType, NEW r \in Requests, Tame(r), Take(r)
  PROVE  RegisterType' /\ request' = <<r>> /\ TransferInv(r)'
<1> DEFINE f == FirstSector(r)
<1>1. Lba(r) = f /\ f \in Nat /\ f \div 65536 \in 0..Word - 1 /\ r.count \in 1..128
  BY LbaIsFirstSector
<1>2. register' = <<(f % 65536) - (f % 8), f \div 65536>>
  <2>1. register' = Block(f)
    <3>1. IF register = Block(Lba(r)) THEN UNCHANGED device
                                      ELSE Select(Block(Lba(r)))
      BY DEF Take
    <3>2. register' = Block(Lba(r))
      BY <3>1, SelectWrites DEF Block, device
    <3> QED BY <1>1, <3>2
  <2> QED BY <2>1, SMT DEF Block, Word
<1>3. /\ pc' = IF f % 8 = 0 THEN "blocks" ELSE "head"
      /\ request' = <<r>> /\ left' = r.count /\ moved' = <<>>
  BY <1>1 DEF Take
<1> HIDE DEF f
<1>4. /\ (f % 65536) - (f % 8) \in Nat /\ (f % 65536) - (f % 8) <= 65535
      /\ f % 8 = 0 => (f % 65536) - (f % 8) = (f % 65536) + 0
  BY <1>1, SMT
<1>5. Sectors(f, 0) = <<>>
  BY DEF Sectors
<1>6. RegisterType'
  BY <1>1, <1>2, <1>4, WordRange DEF RegisterType
<1>7. r.count - r.count = 0
  BY <1>1
<1>8. TransferInv(r)'
  <2>1. /\ left' \in 0..r.count /\ moved' = Sectors(f, r.count - left')
        /\ pc' \in {"idle", "head", "blocks"} /\ (pc' = "idle" <=> left' = 0)
    <3> HIDE DEF f
    <3>1. left' \in 0..r.count /\ left' # 0
      <4>1. left' = r.count
        BY <1>3
      <4>2. r.count \in Nat /\ r.count # 0
        BY <1>1
      <4> QED BY <4>1, <4>2
    <3>2. r.count - left' = 0
      BY <1>3, <1>7
    <3>3. moved' = Sectors(f, r.count - left')
      BY <1>3, <1>5, <3>2
    <3> QED BY <1>3, <3>1, <3>3
  <2>2. pc' = "head" => /\ left' = r.count /\ f % 8 # 0
                        /\ register' = <<(f % 65536) - (f % 8), f \div 65536>>
    BY <1>2, <1>3
  <2>3. pc' = "blocks" =>
          register' = <<(f % 65536) + (r.count - left'), f \div 65536>>
    BY <1>2, <1>3, <1>4, <1>7
  <2> QED BY <2>1, <2>2, <2>3, SMT DEF TransferInv, f, Word
<1> QED BY <1>3, <1>6, <1>8

(* Copying what the block holds of the request leads to its end or, with the  *)
(* next block in the registers, to the sector after.                          *)
LEMMA CopyTransfer ==
  ASSUME DeviceInv, RegisterType, NEW r \in Requests, Tame(r), request = <<r>>,
         TransferInv(r), NEW offset \in 0..7, NEW n \in 1..left, offset + n <= 8,
         n < left => offset + n = 8, mapped = register,
         LET done == r.count - left
         IN  register = <<(FirstSector(r) % Word) + done - offset,
                          FirstSector(r) \div Word>>,
         Copy(offset, n)
  PROVE  /\ RegisterType' /\ request' = <<r>> /\ TransferInv(r)'
         /\ moved' = moved \o Sectors(FirstSector(r) + (r.count - left), n)
         /\ Len(moved) = r.count - left
<1> DEFINE f == FirstSector(r)
           done == r.count - left
           low == f % 65536
           high == f \div 65536
           base == low + done - offset
<1>1. /\ f \in Nat /\ high \in 0..Word - 1 /\ r.count \in 1..128
      /\ left \in 0..r.count /\ moved = Sectors(f, done)
  BY LbaIsFirstSector DEF TransferInv
<1>2. low + r.count <= 65536 /\ register = <<base, high>>
  BY SMT DEF Tame, Word
<1> HIDE DEF f
<1>3. low \in Nat /\ high \in Nat /\ f = 65536 * high + low
  BY <1>1, SMT
<1> HIDE DEF low, high
<1>4. left \in Nat /\ n \in Nat /\ n <= left /\ 1 <= n /\ done \in Nat
      /\ done + left = r.count /\ (r.count - (left - n)) = done + n
  BY <1>1
<1>5. Copied(offset, n) = Sectors(f + done, n)
  <2>1. \A i \in 1..n : offset + i <= 8
    BY <1>4
  <2>2. \A i \in 1..n : high * 65536 + base + offset + i - 1 = (f + done) + i - 1
    BY <1>3, <1>4, SMT
  <2>3. mapped[2] = high /\ mapped[1] = base
    BY <1>2
  <2> HIDE DEF base, done
  <2>4. Copied(offset, n) = [i \in 1..n |-> high * 65536 + base + offset + i - 1]
    BY <2>1, <2>3, SMT DEF Copied, Word
  <2> QED BY <2>2, <2>4 DEF Sectors
<1>6. moved' = moved \o Sectors(f + done, n) /\ left' = left - n /\ request' = <<r>>
  BY <1>5 DEF Copy
<1>7. moved' = Sectors(f, done + n) /\ Len(moved) = done
  <2>1. /\ Sectors(f, done) \o Sectors(f + done, n) = Sectors(f, done + n)
        /\ Len(Sectors(f, done)) = done
    <3> HIDE DEF done
    <3>1. f \in Int /\ done \in Nat /\ n \in Nat
      BY <1>1, <1>4
    <3> QED BY <3>1, SectorsConcat, SectorsType
  <2> QED BY <1>1, <1>6, <2>1
<1>8. CASE left = n
  <2>1. pc' = "idle" /\ UNCHANGED register
    BY <1>8 DEF Copy, device
  <2>2. left' = 0 /\ r.count - left' = done + n
    BY <1>4, <1>6, <1>8
  <2>3. /\ left' \in 0..r.count /\ moved' = Sectors(f, r.count - left')
    <3>1. left' \in 0..r.count
      BY <1>1, <2>2
    <3>2. moved' = Sectors(f, r.count - left')
      BY <1>7, <2>2
    <3> QED BY <3>1, <3>2
  <2>4. TransferInv(r)'
    BY <2>1, <2>2, <2>3 DEF TransferInv, f
  <2> QED BY <1>6, <1>7, <2>1, <2>4 DEF RegisterType, f
<1>9. CASE left # n
  <2>1. pc' = "blocks" /\ register' = NextBlock
    BY <1>9, SelectWrites DEF Copy, NextBlock
  <2>2. base + 8 = low + (done + n) /\ base + 8 <= 65535 /\ base + 8 \in Nat
    BY <1>2, <1>3, <1>4, <1>9, SMT
  <2>3. (base + 8) % 65536 = base + 8
    BY <2>2, SMT
  <2>4. register' = <<low + (done + n), high>>
    <3> HIDE DEF base
    <3> QED BY <1>2, <2>1, <2>2, <2>3, SMT DEF NextBlock, Word
  <2>5. RegisterType'
    BY <1>1, <2>2, <2>4, WordRange DEF RegisterType
  <2>6. left' # 0 /\ r.count - left' = done + n /\ left' \in 0..r.count
    BY <1>1, <1>4, <1>6, <1>9
  <2>7. moved' = Sectors(f, r.count - left')
    BY <1>7, <2>6
  <2>8. register' = <<(f % Word) + (r.count - left'), f \div Word>>
    BY <2>4, <2>6 DEF low, high, Word
  <2>9. TransferInv(r)'
    BY <2>1, <2>6, <2>7, <2>8 DEF TransferInv, f
  <2> QED BY <1>6, <1>7, <2>5, <2>9 DEF f
<1> QED BY <1>8, <1>9

(* Each phase of a copy moves the sectors of the request that follow those    *)
(* moved already, at least one.                                               *)
LEMMA CopyStep ==
  ASSUME DeviceInv, RegisterType, NEW r \in Requests, Tame(r), request = <<r>>,
         TransferInv(r), CopyHead \/ CopyBlock \/ CopyLast
  PROVE  \E n \in 1..left :
           /\ RegisterType' /\ request' = <<r>> /\ TransferInv(r)'
           /\ moved' = moved \o Sectors(FirstSector(r) + (r.count - left), n)
           /\ Len(moved) = r.count - left
<1> DEFINE f == FirstSector(r)
           done == r.count - left
           Goal(n) == /\ RegisterType' /\ request' = <<r>> /\ TransferInv(r)'
                      /\ moved' = moved \o Sectors(f + done, n)
                      /\ Len(moved) = done
<1>1. /\ f \in Nat /\ Lba(r) = f /\ r.count \in 1..128 /\ left \in 0..r.count
      /\ pc # "idle" => left # 0
  BY LbaIsFirstSector DEF TransferInv
<1>2. ASSUME NEW offset \in 0..7, NEW n \in 1..left, offset + n <= 8,
             n < left => offset + n = 8, pc # "boot",
             register = <<(f % Word) + done - offset, f \div Word>>,
             Copy(offset, n)
      PROVE  Goal(n)
  <2>1. mapped = register
    BY <1>2 DEF DeviceInv
  <2> QED BY <1>2, <2>1, CopyTransfer
<1> HIDE DEF Goal, f
<1>3. CASE CopyHead
  <2> DEFINE offset == f % 8
             n == HeadCount(offset, left)
  <2>1. /\ pc = "head" /\ left = r.count /\ offset # 0
        /\ register = <<(f % Word) - offset, f \div Word>>
    BY <1>3 DEF CopyHead, TransferInv, f
  <2>2. offset \in 1..7 /\ left \in 1..127
    <3>1. offset \in 1..7
      BY <1>1, <2>1
    <3>2. r.count < 128
      BY <2>1 DEF Tame, f
    <3> QED BY <1>1, <2>1, <3>1, <3>2
  <2>3. Copy(offset, n)
    BY <1>1, <1>3 DEF CopyHead
  <2> HIDE DEF offset
  <2>4. n = IF 8 - offset <= left THEN 8 - offset ELSE left
    BY <2>2 DEF HeadCount, Signed
  <2> HIDE DEF n
  <2>5. n \in 1..left /\ offset + n <= 8 /\ (n < left => offset + n = 8)
    BY <2>2, <2>4
  <2>6. (f % Word) - offset = (f % Word) + done - offset
    <3>1. done = 0 /\ f % Word \in Int
      BY <1>1, <2>1, SMT DEF Word
    <3> QED BY <3>1, <2>2
  <2>7. Goal(n)
    BY <1>2, <2>1, <2>2, <2>3, <2>5, <2>6
  <2> QED BY <2>5, <2>7 DEF Goal, f
<1>4. ASSUME NEW n \in 1..left, n <= 8, n < left => n = 8, pc = "blocks", Copy(0, n)
      PROVE  Goal(n)
  <2>1. register = <<(f % Word) + done, f \div Word>>
    BY <1>4 DEF TransferInv, f
  <2>2. (f % Word) + done = (f % Word) + done - 0
    BY <1>1, SMT DEF Word
  <2>3. register = <<(f % Word) + done - 0, f \div Word>>
    BY <2>1, <2>2
  <2> QED BY <1>2, <1>4, <2>3
<1>5. CASE CopyBlock
  <2>1. 8 \in 1..left /\ pc = "blocks" /\ Copy(0, 8)
    BY <1>1, <1>5 DEF CopyBlock
  <2>2. Goal(8)
    BY <1>4, <2>1
  <2> QED BY <2>1, <2>2 DEF Goal, f
<1>6. CASE CopyLast
  <2>1. left \in 1..left /\ left < 8 /\ pc = "blocks" /\ Copy(0, left)
    BY <1>1, <1>6 DEF CopyLast
  <2>2. Goal(left)
    BY <1>4, <2>1
  <2> QED BY <2>1, <2>2 DEF Goal, f
<1> QED BY <1>3, <1>5, <1>6

LEMMA DriverStep ==
  ASSUME \A r \in Requests : Tame(r), DeviceInv, DriverInv, [Next]_vars
  PROVE  DriverInv'
<1>1. ASSUME NEW r \in Requests, Take(r) PROVE DriverInv'
  <2>1. RegisterType' /\ request' = <<r>> /\ TransferInv(r)'
    BY <1>1, TakeTransfer DEF DriverInv
  <2> QED BY <2>1 DEF DriverInv
<1>2. CASE CopyHead \/ CopyBlock \/ CopyLast
  <2>1. ~NothingYet
    BY <1>2 DEF CopyHead, CopyBlock, CopyLast, NothingYet
  <2>2. PICK r \in Requests : request = <<r>> /\ TransferInv(r)
    BY <2>1 DEF DriverInv
  <2>3. RegisterType' /\ request' = <<r>> /\ TransferInv(r)'
    BY <1>2, <2>2, CopyStep DEF DriverInv
  <2> QED BY <2>3 DEF DriverInv
<1>3. CASE RomInit
  <2>1. NothingYet
    BY <1>3 DEF DriverInv, TransferInv, RomInit
  <2>2. NothingYet'
    BY <1>3, <2>1 DEF RomInit, NothingYet
  <2>3. register' = <<0, 0>>
    BY <1>3, SelectWrites DEF RomInit
  <2>4. 0 \in 0..Word - 1
    BY WordRange
  <2> QED BY <2>2, <2>3, <2>4 DEF DriverInv, RegisterType
<1>4. CASE UNCHANGED vars
  <2>1. UNCHANGED <<register, pc, request, left, moved>>
    BY <1>4 DEF vars, device, driver
  <2>2. ASSUME NEW r \in Requests, TransferInv(r) PROVE TransferInv(r)'
    BY <2>1, <2>2 DEF TransferInv
  <2> QED BY <2>1, <2>2 DEF DriverInv, RegisterType, NothingYet
<1> QED BY <1>1, <1>2, <1>3, <1>4 DEF Next

LEMMA DriverInit == Init => DriverInv
<1>1. 0 \in 0..Word - 1
  BY WordRange
<1> QED BY <1>1 DEF Init, DriverInv, RegisterType, NothingYet

LEMMA DriverAlways ==
  ASSUME \A r \in Requests : Tame(r)
  PROVE  Spec => [](DeviceInv /\ DriverInv)
<1>1. DeviceInv /\ DriverInv /\ [Next]_vars => DriverInv'
  BY DriverStep
<1> QED BY <1>1, DriverInit, DeviceAlways, PTL DEF Spec

(* The driver moves the sectors of each request and no others, in order,      *)
(* through however many blocks, for every request that ends below the next    *)
(* multiple of 65536 sectors and is not both unaligned and 128 sectors long:  *)
(* the two cases that option.asm 256 and 484 get wrong.                       *)
THEOREM MovesRequestedHolds ==
  ASSUME \A r \in Requests : Tame(r)
  PROVE  Spec => []MovesRequested
<1>1. DeviceInv /\ DriverInv => MovesRequested
  <2> SUFFICES ASSUME DriverInv, pc = "idle", request # <<>>
               PROVE  moved = [i \in 1..request[1].count |->
                                 FirstSector(request[1]) + i - 1]
    BY DEF MovesRequested
  <2>1. PICK r \in Requests : request = <<r>> /\ TransferInv(r)
    BY DEF DriverInv, NothingYet
  <2>2. left = 0 /\ moved = Sectors(FirstSector(r), r.count - left)
    BY <2>1 DEF TransferInv
  <2>3. r.count - left = r.count
    <3>1. r.count \in 1..128
      BY LbaIsFirstSector
    <3>2. \A k \in 1..128 : k - 0 = k
      OBVIOUS
    <3> QED BY <2>2, <3>1, <3>2
  <2> QED BY <2>1, <2>2, <2>3 DEF Sectors
<1> QED BY <1>1, DriverAlways, PTL

(* The drive behind INT 13h is the disk that SectorDisk describes, for the    *)
(* same requests: a phase that copies is a move, and the driver takes a       *)
(* request when the one before has been moved completely.                     *)
THEOREM ImplementsSectorDiskHolds ==
  ASSUME \A r \in Requests : Tame(r)
  PROVE  Spec => ImplementsSectorDisk
<1>1. Init => Drive!Init
  BY DEF Init, Drive!Init
<1>2. ASSUME DeviceInv, DriverInv, [Next]_vars PROVE [Drive!Next]_(Drive!vars)
  <2>1. ASSUME NEW r \in Requests, Take(r) PROVE Drive!Next
    <3>1. request' = <<r>> /\ moved' = <<>> /\ pc = "idle"
      BY <2>1 DEF Take
    <3>2. Drive!Left = 0
      <4>1. CASE request = <<>>
        BY <4>1 DEF Drive!Left
      <4>2. ASSUME NEW q \in Requests, request = <<q>>, TransferInv(q)
            PROVE  Drive!Left = 0
        <5>1. left = 0 /\ moved = Sectors(FirstSector(q), q.count - left)
          BY <3>1, <4>2 DEF TransferInv
        <5>2. q.count \in Nat /\ FirstSector(q) \in Int
          <6>1. q.count \in 1..128 /\ FirstSector(q) \in Nat
            BY LbaIsFirstSector
          <6> QED BY <6>1
        <5>3. q.count - left = q.count
          BY <5>1, <5>2
        <5>4. Len(moved) = q.count
          BY <5>1, <5>2, <5>3, SectorsType
        <5> QED BY <4>2, <5>2, <5>4 DEF Drive!Left
      <4> QED BY <1>2, <4>1, <4>2 DEF DriverInv, NothingYet
    <3>3. Drive!Start(r)
      BY <3>1, <3>2 DEF Drive!Start
    <3> QED BY <3>3 DEF Drive!Next
  <2>2. CASE CopyHead \/ CopyBlock \/ CopyLast
    <3>1. ~NothingYet
      BY <2>2 DEF CopyHead, CopyBlock, CopyLast, NothingYet
    <3>2. PICK r \in Requests : request = <<r>> /\ TransferInv(r)
      BY <1>2, <3>1 DEF DriverInv
    <3>3. PICK n \in 1..left :
            /\ request' = <<r>> /\ Len(moved) = r.count - left
            /\ moved' = moved \o Sectors(FirstSector(r) + (r.count - left), n)
      BY <1>2, <2>2, <3>2, CopyStep DEF DriverInv
    <3>4. r.count \in Nat /\ left \in Nat /\ left <= r.count
      BY <3>2, LbaIsFirstSector DEF TransferInv
    <3>5. Drive!Left = left
      BY <3>2, <3>3, <3>4 DEF Drive!Left
    <3>6. moved' = moved \o Drive!Run(FirstSector(request[1]) + Len(moved), n)
      BY <3>2, <3>3 DEF Drive!Run, Sectors
    <3>7. Drive!Move(n)
      BY <3>2, <3>3, <3>5, <3>6 DEF Drive!Move
    <3> QED BY <3>3, <3>5, <3>7 DEF Drive!Next
  <2>3. CASE RomInit
    BY <2>3 DEF RomInit, Drive!vars
  <2>4. CASE UNCHANGED vars
    BY <2>4 DEF vars, driver, Drive!vars
  <2> QED BY <1>2, <2>1, <2>2, <2>3, <2>4 DEF Next
<1> QED BY <1>1, <1>2, DriverAlways, PTL DEF Spec, ImplementsSectorDisk, Drive!Spec

(* Registers, window and driver keep their types, for the same requests. *)
THEOREM TypeCorrect ==
  ASSUME \A r \in Requests : Tame(r)
  PROVE  Spec => []TypeOK
<1> DEFINE BootMapped == pc = "boot" => mapped = <<>>
<1>1. Init => BootMapped
  BY DEF Init
<1>2. BootMapped /\ [Next]_vars => BootMapped'
  <2> SUFFICES ASSUME BootMapped, [Next]_vars PROVE BootMapped'
    OBVIOUS
  <2>1. ASSUME NEW r \in Requests, Take(r) PROVE pc' # "boot"
    BY <2>1 DEF Take
  <2>2. RomInit \/ CopyHead \/ CopyBlock \/ CopyLast => pc' # "boot"
    BY DEF RomInit, CopyHead, CopyBlock, CopyLast, Copy
  <2>3. UNCHANGED vars => BootMapped'
    BY DEF vars, device, driver
  <2> QED BY <2>1, <2>2, <2>3 DEF Next
<1>3. DeviceInv /\ DriverInv /\ BootMapped => TypeOK
  <2> SUFFICES ASSUME DeviceInv, DriverInv, BootMapped PROVE TypeOK
    OBVIOUS
  <2>1. /\ register \in (0..Word - 1) \X (0..Word - 1) /\ running \in BOOLEAN
        /\ mapped = <<>> \/ mapped \in (0..Word - 1) \X (0..Word - 1)
    BY DEF DeviceInv, DriverInv, RegisterType
  <2>2. CASE NothingYet
    <3>1. moved \in Seq(Nat \union {Outside}) /\ Len(moved) = 0
      BY <2>2, EmptySeq DEF NothingYet
    <3> QED BY <2>1, <2>2, <3>1 DEF NothingYet, TypeOK
  <2>3. ASSUME NEW r \in Requests, request = <<r>>, TransferInv(r) PROVE TypeOK
    <3>1. r.count \in 1..128 /\ FirstSector(r) \in Nat
      BY LbaIsFirstSector
    <3>2. left \in 0..r.count /\ moved = Sectors(FirstSector(r), r.count - left)
      BY <2>3 DEF TransferInv
    <3> DEFINE n == r.count - left
               f == FirstSector(r)
    <3>3. n \in 0..128 /\ left \in 0..128 /\ f \in Nat
      <4>1. \A k \in 1..128 : \A j \in 0..k : k - j \in 0..128 /\ j \in 0..128
        OBVIOUS
      <4> QED BY <3>1, <3>2, <4>1
    <3>4. moved = Sectors(f, n)
      BY <3>2
    <3> HIDE DEF n, f
    <3>5. \A i \in 1..n : f + i - 1 \in Nat \union {Outside}
      BY <3>3
    <3>6. moved \in Seq(Nat \union {Outside})
      BY <3>3, <3>4, <3>5, IsASeq DEF Sectors
    <3>7. Len(moved) <= 128
      <4>1. f \in Int /\ n \in Nat /\ n <= 128
        BY <3>3
      <4> QED BY <3>4, <4>1, SectorsType
    <3>8. pc \in {"boot", "idle", "head", "blocks"} /\ (pc = "head" => left > 0)
      BY <2>3, <3>3 DEF TransferInv
    <3>9. request = <<>> \/ (Len(request) = 1 /\ request[1] \in Requests)
      BY <2>3
    <3> QED BY <2>1, <3>3, <3>6, <3>7, <3>8, <3>9 DEF TypeOK
  <2> QED BY <2>2, <2>3 DEF DriverInv
<1> QED BY <1>1, <1>2, <1>3, DriverAlways, PTL DEF Spec

=============================================================================
