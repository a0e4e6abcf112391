----------------------------- MODULE VirtualDisk ----------------------------
(***************************************************************************)
(* The virtual C: drive.  Its driver is the option ROM's INT 13h handler   *)
(* (src/roms/virtual-disk/option.asm), run by the guest; its device is the *)
(* part of the exit loop that serves ports D000h to D007h (src/src/        *)
(* main.cpp).  The driver writes the address of a block of 8 sectors to    *)
(* two 16-bit registers and then to the update port; main maps that block  *)
(* of the image at C9000h, from where the driver copies sectors.           *)
(*                                                                         *)
(* The vCPU thread does all of it, so an action is a phase of the driver   *)
(* with the port writes it makes.                                          *)
(***************************************************************************)
EXTENDS Integers, Sequences

CONSTANT Requests   \* functions 02h and 03h: what the callers of INT 13h ask

ASSUME RequestsAssumption ==
  Requests \subseteq
    [op : {"read", "write"}, cylinder : 0..255, head : 0..254, sector : 1..63,
     count : 1..128]

VARIABLES
  register,     \* selectedDiskLBA as two words: <<low, high>>
  mapped,       \* block that slot 7 shows at C9000h, <<low, high>>;
                \* <<>> for the ROM's own second page and after a failure
  running,      \* FALSE once main has returned
  pc,           \* the driver: "boot", "idle", "head", "blocks"
  request,      \* <<>>, then <<the last request taken>>
  left,         \* BL: sectors still to move
  moved         \* sectors moved for the request, in order

device == <<register, mapped, running>>
driver == <<pc, request, left, moved>>
vars == <<device, driver>>

Word == 65536
Outside == -1       \* what lies behind the block's 8 sectors in segment C800h

TypeOK ==
  /\ register \in (0..Word - 1) \X (0..Word - 1)
  /\ mapped = <<>> \/ mapped \in (0..Word - 1) \X (0..Word - 1)
  /\ running \in BOOLEAN
  /\ pc \in {"boot", "idle", "head", "blocks"}
  /\ request = <<>> \/ (Len(request) = 1 /\ request[1] \in Requests)
  /\ left \in 0..128
  /\ moved \in Seq(Nat \union {Outside}) /\ Len(moved) <= 128
  /\ pc = "head" => left > 0

-----------------------------------------------------------------------------
(* The device.                                                              *)

\* The two registers after a write of a word to the port at "offset" from
\* D000h, as the driver writes them
WordWritten(words, offset, word) ==
  IF offset % 4 = 0 THEN <<word, words[2]>> ELSE <<words[1], word>>

\* mmap takes an offset that is a multiple of the page: 8 sectors
Mappable(block) == block[1] % 8 = 0

\* The block's address is written, the low word first, then the update port:
\* the old block leaves slot 7 and is unmapped, then the new one is mapped and
\* takes the slot.
Select_RegisterOnly(block) ==
  /\ register' = WordWritten(WordWritten(register, 0, block[1]), 2, block[2])
  /\ UNCHANGED <<mapped, running>>

Select(block) ==
  /\ register' = WordWritten(WordWritten(register, 0, block[1]), 2, block[2])
  /\ mapped' = IF Mappable(register') THEN register' ELSE <<>>
  /\ running' = Mappable(register')

-----------------------------------------------------------------------------
(* The driver.                                                              *)

\* Cylinder, head and sector to the sector's address, in 16-bit arithmetic
\* with a 32-bit product
Lba_SectorFromZero(r) ==
  ((255 * r.cylinder + r.head) % Word) * 63 + r.sector

Lba(r) == ((255 * r.cylinder + r.head) % Word) * 63 + (r.sector - 1)

Block_Unaligned(lba) == <<lba % Word, lba \div Word>>

Block(lba) == <<(lba % Word) - (lba % 8), lba \div Word>>

\* IncrementLBA: "adc ax, 0" follows "add dx, 2", which leaves no carry
NextBlock == <<(register[1] + 8) % Word, register[2]>>

\* A byte as the signed comparison of "jng" sees it
Signed(byte) == IF byte < 128 THEN byte ELSE byte - 256

\* Sectors the unaligned start of a request takes from its first block
HeadCount_WholeBlock(offset, n) == 8 - offset

HeadCount(offset, n) == IF 8 - offset <= Signed(n) THEN 8 - offset ELSE n

\* n sectors copied from the mapped block, from place "offset" on
Copied(offset, n) ==
  [i \in 1..n |->
     IF offset + i <= 8 THEN mapped[2] * Word + mapped[1] + offset + i - 1
                        ELSE Outside]

\* rom_init selects block 0
RomInit ==
  /\ running /\ pc = "boot"
  /\ Select(<<0, 0>>)
  /\ pc' = "idle"
  /\ UNCHANGED <<request, left, moved>>

\* HandleAH02 and HandleAH03 up to SkipLBA: a block that the registers already
\* name is not selected again
Take_LowWordOnly(r) ==
  LET block == Block(Lba(r))
  IN  /\ running /\ pc = "idle"
      /\ IF register[1] = block[1] THEN UNCHANGED device ELSE Select(block)
      /\ pc' = IF Lba(r) % 8 = 0 THEN "blocks" ELSE "head"
      /\ request' = <<r>>
      /\ left' = r.count
      /\ moved' = <<>>

Take(r) ==
  LET block == Block(Lba(r))
  IN  /\ running /\ pc = "idle"
      /\ IF register = block THEN UNCHANGED device ELSE Select(block)
      /\ pc' = IF Lba(r) % 8 = 0 THEN "blocks" ELSE "head"
      /\ request' = <<r>>
      /\ left' = r.count
      /\ moved' = <<>>

\* n sectors are copied; unless they were the last, the next block is selected
Copy(offset, n) ==
  /\ moved' = moved \o Copied(offset, n)
  /\ left' = left - n
  /\ IF left = n THEN pc' = "idle" /\ UNCHANGED device
                 ELSE pc' = "blocks" /\ Select(NextBlock)
  /\ UNCHANGED request

CopyHead ==
  LET offset == Lba(request[1]) % 8
  IN  running /\ pc = "head" /\ Copy(offset, HeadCount(offset, left))

CopyBlock == running /\ pc = "blocks" /\ left >= 8 /\ Copy(0, 8)

CopyLast == running /\ pc = "blocks" /\ left < 8 /\ Copy(0, left)

Init ==
  /\ register = <<0, 0>> /\ mapped = <<>> /\ running = TRUE
  /\ pc = "boot" /\ request = <<>> /\ left = 0 /\ moved = <<>>

Next ==
  \/ RomInit
  \/ \E r \in Requests : Take(r)
  \/ CopyHead \/ CopyBlock \/ CopyLast

Spec == Init /\ [][Next]_vars

-----------------------------------------------------------------------------
\* First sector of a request in the geometry that function 08h reports: 255
\* heads and 63 sectors per track
FirstSector(r) == (r.cylinder * 255 + r.head) * 63 + r.sector - 1

\* When the driver returns without an error, it has moved the sectors of the
\* request and no others, in order, through however many blocks.
MovesRequested ==
  running /\ pc = "idle" /\ request # <<>> =>
    moved = [i \in 1..request[1].count |-> FirstSector(request[1]) + i - 1]

\* While the driver copies, and when it may skip the selection of a block, the
\* window shows the block that the registers name: the registers are a safe
\* cache of what is mapped.
RegisterIsMapped == running /\ pc # "boot" => mapped = register

\* The driver never asks for a block that cannot be mapped, which would end
\* the emulator in the middle of a transfer.
StaysUp == running

\* The drive moves sectors the way a disk does, step by step.
Drive == INSTANCE SectorDisk WITH First <- FirstSector
ImplementsSectorDisk == Drive!Spec

=============================================================================
