# A TLA+ model of the TS-3100 KVM emulator

The repository runs the firmware of a TS-3100 board (386EX, DOS in ROM) in a KVM
virtual machine. This directory holds TLA+ modules for the parts of the emulator
that have state of their own, TLC configurations that check them on small
instances, and TLAPS proofs for every value of the constants.

## 1. Inventory

Two threads run in the emulator: the **vCPU thread** (`main`, which alternates
between `KVM_RUN` and handling the exit) and the **event-loop thread**. They meet
in the serial ports, under each port's mutex, and in epoll.

| Part | State | Operations | Interacts with | Hard behaviour |
|---|---|---|---|---|
| `Serial16450` (hardware/Serial.cpp) | LSR bits, interrupt conditions and enables, divisor, `mEventFlags`, clients, two timers | `ioread8`, `iowrite8` (vCPU); accept, client and timer handlers (loop) | terminals through sockets, EventLoop, KVM through an irqfd | two threads, events that are stale when handled, several clients, timers racing the guest |
| Interrupt path of a port | irq eventfd, line, 8259 edge latch | trigger, inject, end of interrupt | Serial, KVM, the guest's handler | level to edge; the refresh handler is compiled out |
| `EventLoop` | epoll set, handler table, loop thread, interrupt eventfd | `addEvent`, `modifyEvent`, `removeEvent`, destructor | all ports | one event per batch, removal while events are in hand, shutdown by join |
| Virtual disk device (main.cpp 189-208, 833-876) | LBA registers, mapped block (slot 7) | port writes at D000h-D007h | option ROM, KVM memory slots, `mmap` | the window is moved under the guest; failure ends the emulator |
| Virtual disk option ROM (roms/virtual-disk/option.asm) | INT 13h handler's registers | functions 02h, 03h, 08h | the device | selection skipped by comparing registers, partial blocks, 16-bit arithmetic |
| Exit loop (main.cpp 672-1021) | `requestExit`, device tables | one step per exit | every device | SIGINT between the test and KVM_RUN, refused access widths, which destructors run |
| A20 gate (main.cpp 131-147, 802-831) | `a20register`, slot 3 | port 92h | KVM memory slots | register and slot must agree |
| Flash disk (main.cpp 169-181, 890-976) | command state, slots 4 and 5 | MMIO reads and writes | KVM memory slots | command sequences; flash hidden during identification |
| `ProgrammableIntervalTimer`, `i386EXClockPrescaler` | counters, latches, byte selectors | command, counter and prescaler ports | time | not created by `main`; byte sequencing, wrap-around |
| `DS12887` | index, registers A and B, alarms, NVRAM | ports 70h, 71h | the host's clock, `roms/cmos.bin` | alarm formats that change between write and read, NVRAM saved only by the destructor |
| `ChipSelectUnit`, `HexDisplay`, static port handlers | plain registers or none | port accesses | - | little |

What makes each correct: *Serial* - the guest is told of every byte, once, no
faster than the baud rate; a pending condition always has an interrupt on its
way; no order of events leaves the port deaf. *EventLoop* - every ready source is
served and shutdown ends. *Virtual disk* - a request moves its sectors, in order,
and nothing else. *A20, flash* - the memory slots agree with the registers that
control them, and no slot operation is one that KVM refuses, as that ends the
emulator. *Flash* - the contents change by complete commands. *Timer* - counts
are whole counts, the status tells the truth about a pending load, a delay is
never too short. *RTC* - an alarm is the same time in every format, RAM holds
what was written, and a run of the emulator ends with RAM saved or, at worst,
as it was before.

## 2. Modules

| Module | Models | Uses |
|---|---|---|
| `Serial` | one UART: registers, handlers, timers, sockets | - |
| `PacedPort` | abstract: what one direction of a UART promises | - |
| `SerialRefinement` | refinement mapping of both directions to `PacedPort` | Serial, PacedPort |
| `SerialIrq` | `Serial` with KVM's line, the 8259 and a guest interrupt handler | Serial |
| `SerialProofs`, `SerialIrqProofs` | theorems | Serial, SerialIrq |
| `SerialRefinementProofs` | each direction implements `PacedPort` | SerialRefinement, SerialProofs |
| `EventLoop` | the loop thread, handler table and epoll's list | - |
| `SectorDisk` | abstract: a disk that moves the sectors of a request in order | - |
| `VirtualDisk` | option ROM driver and the device in main.cpp | SectorDisk |
| `MCVirtualDisk` | request sets for the runs | VirtualDisk |
| `VirtualDiskProofs` | theorems | VirtualDisk |
| `ExitLoop` | the process: main's loop, dispatch of port accesses, A20 gate and slot 3, SIGINT, the ends of the process and the clock's file | DS12887, NvramStore |
| `DS12887` | the clock's operations and state, put into actions by `ExitLoop` | - |
| `NvramStore` | abstract: what battery-backed RAM promises across runs | - |
| `MCExitLoop` | the guest of the run | ExitLoop |
| `FlashDisk` | flash command interface, slots 4 and 5 | - |
| `Timer` | interval timer and prescaler | - |
| `ExitLoopProofs`, `FlashDiskProofs`, `TimerProofs`, `EventLoopProofs` | theorems | the module named |

### How state and actions correspond to the code

**Serial.** Variables carry the code's names (`readable`, `mEventFlags`, ...).
`timer["EPOLLIN"]` is `readTimer`, `timer["EPOLLOUT"]` `writeTimer`; `divisorLow`
and `divisorHigh` are the bytes the guest writes; `interest[c]` is what epoll has
registered for client c; `irqfd` is set when the irq eventfd holds a write KVM has
not read. Bytes are counted, not valued. Register accesses and handlers hold
`mMutex` from start to end, so each is one action; the exception is the timers'
handlers, which read the descriptor before they lock (`TimerRead`, `TimerReload`).
`Wait*` is `epoll_wait` returning: the event is then "in hand" (`pc`, `fd`,
`events`) and the guest may act before the handler runs. Since the loop dispatches
one event per wait (see EventLoop), one event in hand is all there can be.
`AcceptFails` is the accept handler's way out on an error: nothing changes and the
connection goes on waiting. Writing to a terminal that has hung up raises SIGPIPE
(`WriteDataToClosedPeer`). Left out: modem control and scratch registers, error
paths of `start()`, `stop()`.

What the guest does is a parameter, since correctness depends on it:
`GuestProgramsDivisor`, `GuestChecksStatus` and `GuestIER` restrict it to what a
usual driver does, and each theorem and run says which restrictions it needs.

**SerialIrq.** `Inject` is KVM reading the eventfd (`KVM_IRQFD` with
`RESAMPLE`), `Eoi` lowers the line; an edge is latched only on a low line.
`EoiFirst` chooses between the two usual forms of an interrupt handler.

**EventLoop.** `candidates` is epoll's ready list (level-triggered, served
sources go to the tail and drop off when no longer ready). `EventCount` is the
expression `n = epoll_wait(...) != -1`, whose value is 1. Changes to the handler
table take several steps, as they hold no lock that the loop knows: a handler is
stored, then watched (`adding`); `removeEvent` has epoll forget one descriptor and
then destroys its handler, `removeHandlers` has it forget all of a port's, one by
one (`Deregister`), and then destroys all (`removing`). A source may be ready
still, or again, when its handler has ended: a server with another connection to
accept or no descriptor left for one, a client ready in its other direction.
`again` counts how often in a row. A handler that is called after its destruction
may work (`Dispatch`) or end the process (`DispatchDestroyed`).

**VirtualDisk.** `register` is `selectedDiskLBA` as two words, `mapped` the block
that slot 7 shows. An action is a phase of the INT 13h handler between two copy
instructions, with the port writes it makes; `Select` is what main does when the
update port is written (delete the slot, unmap, map, set the slot). `WordWritten`
is a word written to the registers' ports, the only access the driver makes; the
handler (main.cpp 192-208) also takes reads, bytes and double words, and a double
word at D001h-D003h runs over the end of the register. These are not modelled.
`NextBlock` keeps the high word: in `IncrementLBA` the carry of `add ax, 8` does
not survive `add dx, 2`. `Signed` is the signed comparison of `jng`.

**ExitLoop.** `phase` is where the vCPU thread stands: off, at the loop's test,
between the test and `KVM_RUN`, inside it, or in `main`'s epilogue. `Boot` is a
new process, so a behaviour is any number of runs of the emulator one after the
other. `SlotFollows` is lines 802-831, run after every port access: a changed bit
of `a20register` adds or deletes slot 3. `DeviceAt` looks a port up in the two
`std::map`s keyed by `AddressRange`, whose order makes overlapping ranges equal;
`Accepts` says which widths a device implements - another width throws through
`main` - and `Asserted` which widths and counts the assertions of main.cpp allow:
a build that checks them dies of another one (`AccessRefused`), a release build
goes on with the first byte (`Access`). `Die` is every end without destructors (an
exception, SIGPIPE, SIGKILL, an event for a port already destroyed). An orderly
end runs the clock's destructor, which truncates `roms/cmos.bin` (`OpenFile`)
before it writes it (`WriteFile`). KVM is modelled as the code expects it: `Halt`
is KVM_EXIT_HLT, which KVM reports only without its in-kernel interrupt
controller.

**DS12887.** `alarm` holds what the code stores, a number whatever the format;
`AlarmWritten` and `AlarmRead` are the conversions, with BCD digits, 12 hours and
the PM bit. `ram` is the array, at its own indexes: `RamIndex` takes the register
number to the place 14 below, so that 127 must be the last of 114. `index`, `data`
and `meant` are history: the bytes last written to ports 70h and 71h, and the
times the guest set the alarms to. `NvramStore` sees the two ports and knows
nothing of registers and places.

**FlashDisk.** `flashState` is the code's state; `Steps` lists the transitions
that change nothing else, the other actions store, erase, take the slots away or
bring them back; `WideWrite` is the assertion that a write is one byte long (main.cpp
900; a release build takes its lowest byte). `recent` remembers the last five
exits that main handles as accesses to the chip, `issued` the last five for the
chip whether handled or not; from these the properties read the command set
without looking at `flashState`. `stranded` remembers, from the exits too, that an
F0h came in the identification mode: it leaves the mode without mapping the chip
again. `WindowEnd` is the upper bound of main's test for the chip: 0x350000 in the
code, 0x3500000 as slot 5 has it.

**Timer.** Nothing counts by itself: each access calls `resolveTimers`, which
turns the time since `lastRecord` into ticks. Time passes in source clock periods
(`Elapse`); `since` is the time since `lastRecord`. `ByteSize` and `DecimalBase`
stand for 256 and 100, and the code's values satisfy their assumptions.
`GuestPairs` is a guest that writes the two bytes of a count, and reads the two of
a latched one, without other accesses between. `history` holds the count last
written, the one the running count started from, an ideal counter that drops no
fraction of a tick, and the count whose low byte has been read.

## 3. Runs

| Run | Bounds | Shows |
|---|---|---|
| `serial_one_terminal` | 1 terminal, buffers of 2, divisors 0, 1, 11520, 11521 | `OnePhase`, `Paced`, no interrupt while one is pending, and each direction implements `PacedPort` with its liveness |
| `serial_two_terminals` | 2 terminals that may hang up, buffers of 1, divisors 0 and 1, a guest that ignores LSR | `EveryClientHeard`, `NotStranded`, `IirMatchesLsr`, `NewConditionFires` |
| `serial_served` | 2 terminals, buffers of 1, polling guest | `RxServed`, `TxServed` |
| `irq_eoi_first` | 1 terminal, buffers of 1, divisors 0, 1, 256, 257 | no interrupt is lost; the handler is entered; the receiver is serviced |
| `loop_served` | 3 sources, ready again up to twice in a row, another thread adding and removing handlers | `WatchedHasHandler`, `NoOvertaking`, `EverySourceServed`, `ShutdownCompletes` |
| `disk_transfers` | 6 places, counts 1 to 17 around block boundaries, and 128; every order of requests | the driver implements `SectorDisk`; skipping a selection is safe; no selection fails |
| `exit_loop` | RAM cells 14 and 127, accesses at and beside the ends of port ranges in every width, four alarm formats, 2 late exits | `WrapFollowsGate`, `GateChangesSucceed`, `AtMostOneLateExit`, `AlarmKeepsTime`, and RAM with its file implements `NvramStore` over any number of runs |
| `flash_commands` | 4 addresses, the 8 command bytes, F0h programmed as data | `ContentsFollowHandled`, `ShownUnlessIdentifying`, `RefusedOnlyIfStranded`, with the window as meant |
| `timer_counts` | 1 channel, bytes of 2 values, decimal base 1, prescalers 2 and 3, up to 5 periods between accesses | `NullCountHonest`, `NeverEarly`, `LatchedPairIsOneCount` |
| `loop_hung_up` (violation) | 2 sources | starvation of all other sources, see section 5 |
| `disk_crosses_word` (violation) | requests across sector 65536 | a transfer that goes on at sector 0 |
| `flash_window` (violation) | as `flash_commands`, with the window as coded | a complete command that changes nothing |

Why the bounds are enough. *Terminals*: the code treats clients alike, except
that a read stops at the first that has data and a client event updates one and a
reload all; two clients tell these apart. With a buffer of 2 a direction can be
empty, partly filled and full; one byte is enough where only "something" and
"nothing" matter. *Divisors*: one that disarms the timer (0), usable ones, and
refused ones (11520 and more). *EventLoop*: three sources let one be at the head,
one in the middle and one at the tail of a list from which one is dispatched; two
times ready again in a row let the head of the list stay there over a wait.
*Requests*: places and counts cover every combination of unaligned or aligned
start with an end in, at the end of, or behind the first block and the next;
blocks 0 and 65536 share their low word. *Exit loop*: accesses are told apart by
device and width only, so one port inside and one beside each kind of range
suffices; the gate is written closed, open, and open with another bit; two cells
are the first and last of the RAM; the alarm bytes are hours 11, 17 and 23 in one
format and another hour, or none, in the others; one late exit is possible and
`MaxLate` leaves room for a second. *Flash*: the addresses are 555h of
sector 0 in the chip's first copy, 2AAh and 555h of sector 1 in its second, and
one behind the chip; F0h as a data byte tells programming from a reset. *Timer*:
channels do not influence each other except through the prescaler; two-valued
bytes give counts of two halves, each of which can be zero; 5 periods are enough
for the smallest counts to run out and start again in one step under either
prescaler, and for the larger ones over several accesses. What depends on
the size of a count is proved for every size.

Deadlock is checked in every run but one: a guest or a terminal can always act, and the
modules in which the process can end have an explicit `Terminated` step, except
`VirtualDisk`, where the end of `main` would show as a deadlock besides breaking
`StaysUp`, and `SerialIrq`, whose runs have no terminal that hangs up. In
`exit_loop` the emulator is started again after each end. Only
`flash_commands` leaves the check out: an unknown command ends the emulator
there (main.cpp 934-939).

### Fairness

- `Serial!Fairness`: handlers finish (they wait for nothing but the mutex, which
  is held for bounded times); timers expire; `epoll_wait` reports each source that
  is ready again and again (strong fairness on each `Wait*`). The last is what
  `EventLoop` establishes for the loop as written: nothing overtakes a source that
  waits (`NoOvertaking`), the first ready source is served (`ServesFirst`), and a
  served source drops off epoll's list unless it is ready again, so the head of
  the list reaches every source. It needs fewer sources than the 64 places of the
  array: with more of them ready, those reported go to the tail behind those that
  were not, and TLC finds a source passed by for ever. Four ports use 12
  descriptors and one per terminal. It also needs that no source is ready again
  after its handler without end (`MaxAgain` bounds how often in a row): after an
  event a client direction is muted until its timer, timers run 87 microseconds or
  more, and each accepted connection leaves one fewer to accept. A port whose
  `accept` fails for ever (no descriptors left) breaks it, and so does a closed
  peer (`loop_hung_up`), so the liveness runs have `MayHangUp = FALSE`.
- `TerminalsRead`: terminals take what they are sent; without it a full buffer
  rightly stops the transmitter.
- `SerialIrq!IrqFairSpec`: KVM reads the eventfd; the guest's handler, once
  entered, goes on; a pending 8259 request is taken if the guest can take it again
  and again; the guest does not keep the divisor latch selected for ever.
- `EventLoop!FairSpec`: both threads are scheduled.

The guest's main program owes nothing in any run. `ExitLoop`, `FlashDisk`,
`VirtualDisk` and `Timer` state no fairness: what they promise is safety.

## 4. Proofs

`SerialProofs` (for every number of terminals, buffer size and divisor set):

- `TypeCorrect`. `TypeOK` is inductive; its parts are proved separately, as
  Boolean flags and data go to different provers.
- `IirMatchesLsrHolds`, `EveryClientHeardHolds`: inductive, no assumption on the
  guest.
- `NotStrandedHolds`, assuming `GuestProgramsDivisor`. The invariant
  is inductive with `TypeOK`: setting a timer to a usable divisor arms it
  (`ArmedWhenUsable`).
- `NewConditionFiresHolds`, assuming `GuestIER # "any"`: a step property, by
  cases on the actions.
- `OnePhaseHolds`, `PacedHolds`, `FiresOnlyWhenIdleHolds`, assuming one terminal
  and a guest that checks the status. `Paced` is not inductive: an event in hand
  could announce a byte while the timer runs. `OnePhase` is the strengthening: a
  direction is listened for, announced or paced, never two of these, and the loop
  holds no event and no client has an interest outside `mEventFlags`.
- `NobodyForgottenHolds`, assuming `GuestProgramsDivisor`: for any number of
  terminals, each is in each direction listened to, announced, or waited for by a
  timer. It follows from `NotStranded` and `EveryClientHeard`.

`SerialRefinementProofs` (one terminal that stays, a guest that checks the status;
any buffers and divisors): `ReceiverImplements` and `TransmitterImplements`, every
step of `Serial` is a step of `PacedPort` or changes nothing it sees. `OnePhase`
gives the phase; the strengthening `HeldIsInStock` says that what the line status
announces, or an event in hand is about to announce, is there: a byte nobody else
has read, room nobody else has filled. Without it `Take` could find an empty stock.
The fairness half of the refinement is TLC's (`ReceiverServes`,
`TransmitterServes`).

`SerialIrqProofs`: every step of `SerialIrq` is a step of `Serial`
(`IrqStepIsSerialStep`), so its invariants carry over; `IrqTypeCorrect`;
`NoLostInterruptHolds`, assuming `EoiFirst` and `GuestIER # "any"`, uses
`LineIsSeen` (a high line means that the edge is latched or the handler has yet to
signal) as strengthening, and `NewConditionFires` for the steps that make a
condition pending.

`EventLoopProofs` (for every set of sources and array length): `TypeCorrect`,
`WatchedHasHandlerHolds`, and the safety that the liveness of the loop rests on.
`ReadyIsListedHolds`: no ready source is off epoll's list. `NoOvertakingHolds`,
assuming fewer sources than places in the array: nothing comes to stand before a
source that waits. `ServesFirstHolds`: a wait puts the first ready one in hand.
`StopIsHeardHolds`: while the destructor waits for the thread, the interrupt is
there to be reported. Except `NoOvertaking` these belong to no run. A change of
the table is several steps, so the invariant `LoopInv` also says where the changing
thread stands. The lists rest on lemmas about `Kept`, the sublist of the members
of a set: what it holds, that it keeps order and distinctness (`KeptProperties`),
and that a list without repetitions is no longer than its set is large
(`InjectiveLength`). They are proved by induction, which the prover accepts in the
form of a least counterexample (`SetInduction`, from the library's theorem that
`<` on the naturals is well-founded).

`VirtualDiskProofs` (for every set of requests): `RegisterIsMappedHolds` and
`StaysUpHolds`, from `DeviceInv`: the registers hold a multiple of 8, the
emulator is up, and after the ROM's initialisation the window shows the block
that the registers name. Each selected block is aligned, because the driver masks
the address and adds 8 modulo 2^16. `MovesRequestedHolds`,
`ImplementsSectorDiskHolds` and `TypeCorrect` assume that every request is
`Tame`: it does not cross a multiple of 65536 sectors, and is not one of 128
sectors that starts inside a block - the two places where the code goes wrong
(section 5). `DriverInv` is the invariant: the sectors moved so far are the first
ones of the request, and the registers name the block of the next one. It rests
on the arithmetic of addresses (`LbaIsFirstSector`: no geometry overflows the
16-bit product) and on concatenation of runs of sectors (`SectorsConcat`).

`ExitLoopProofs` (for every guest and every set of cells): `TypeCorrect`,
`AlarmKeepsTimeHolds`, `WrapFollowsGateHolds`, `GateChangesSucceedHolds`,
`AtMostOneLateExitHolds`, and `ImplementsStoreHolds`, the refinement of
`NvramStore`; `CellIndexes` says that no two RAM registers share a place of the
array and that none lies outside it. The conversions are settled by
`AlarmRoundTrip`: each byte that is the printed form of a time is parsed to that
time. `GateInv` adds to `WrapFollowsGate` that main's copy has the register's bit;
`LateInv` that a thread on its way into KVM_RUN has handled no late exit.

`FlashDiskProofs` (for every guest, set of addresses and bytes, and every bound of
the window up to the chip's end): `TypeCorrect`, `ContentsFollowHandledHolds`,
`ShownUnlessIdentifyingHolds` and `RefusedOnlyIfStrandedHolds`. `CommandInv` relates
`flashState` and what has been sent in both directions, `SlotInv` the slots with
both and with `stranded`. They speak of the accesses that main handles. With the
bound as coded these are none, and `InertAsCoded` says what holds then: no guest
changes the chip, hides it or ends the emulator by writing to it.

`TimerProofs` (for every number of channels, byte size, prescaler and length of
time): `TypeCorrect` and `NeverEarlyHolds` for any guest; `NullCountHonestHolds` and
`LatchedPairIsOneCountHolds` for one with `GuestPairs`. The channels are
independent, so the invariant is stated for one (`Good`). Its part `EarlyInv` bounds
the time not yet counted by what the count is ahead of the ideal counter: without
it a step of `resolveTimers` could subtract too much. `PairIsOneCount` is about
`WithByte` alone: two bytes written one after the other make one count and are read
back, whatever the register held, except that the first byte of a decimal count may
wrap at 16 bits when a binary count of FFDCh or more is still there.

Checked by TLC only: everything under fairness, since liveness is beyond the
prover (`RxServed`, `TxServed`, `PendingHeard`, `ReceiveServed`,
`EverySourceServed`, `ShutdownCompletes`, and that `PacedPort`'s fairness is
implemented). Every other property of a passing run is a theorem.

## 5. Where the code and what is said of it disagree

Shown by a run:

- `loop_hung_up`: `n = epoll_wait(...) != -1` (EventLoop.cpp:58) is 1, although
  the comment below says "dispatch handlers for all events".
- `disk_crosses_word`: option.asm:481-484, the lost carry.
- `flash_window`: the window test of the flash disk (main.cpp:892) has 0x350000
  for 0x3500000 and is never true, so no flash command is ever carried out.

Met while modelling, without a run of their own:

- *Divisors.* The data register's handlers stop listening and trust the reload
  timer (Serial.cpp:278, 359) to start again. Divisor 0, its value at reset,
  disarms the timer; from 11520 on the nanoseconds reach 10^9 and
  `timerfd_settime` fails, unnoticed: the port falls silent. `GuestProgramsDivisor`
  keeps the guest from it.
- *Interrupt enable.* The test for "weren't in an interrupt cycle previously"
  (Serial.cpp:306-309) uses flags that have just been recomputed, so enabling a
  second interrupt can leave a condition without a trigger (`GuestIER`).
- *End of interrupt.* The handler of the refresh event (Serial.cpp:137-154) is
  compiled out; a driver that signals the end of interrupt last can lose one
  (`EoiFirst`). The FAQ's "might hang ... bugs with the interrupt handling"
  (readme.md:66) is consistent with it.
- *Two terminals on a port.* The pace of the baud rate is not kept and interrupts
  are triggered while one is pending (`OnePhase` says why: announcing on one
  client does not mute the other).
- *Accept.* The comment "add client to event loop with all events disabled"
  (Serial.cpp:129) does not hold: clients are registered with `mEventFlags`, which
  starts with both.
- *Long requests.* A request of 128 sectors that starts inside a block is taken for
  one that ends there (option.asm:256, signed comparison), which is why the longest
  requests of `disk_transfers` are aligned.
- *Flash identification.* F0h leaves the mode without mapping the chip again
  (main.cpp:906); the chip is not shown again, and the next identification deletes
  slots that do not exist and ends the emulator. `ShownUnlessIdentifying` and
  `RefusedOnlyIfStranded` say that this is the only way to either.
- *Alarm hours.* In the 12-hour formats 12 is not a time the code knows: it is
  parsed as hour 12 (or 24 with PM) and noon and midnight are printed as 0.
- *Timer.* Each access drops the fraction of a tick that has passed
  (Timer.cpp:205), so a guest that polls faster than a tick stops its counter;
  prescaler value FFFEh becomes a division by zero (Timer.cpp:206); a counter that
  runs out between the two bytes of a new count reloads from a torn value.

## 6. Not modelled

- Set-up of the virtual machine (main.cpp 228-596): a fixed sequence of calls that
  returns at the first failure. The build with high memory, in which slot 3
  shows that memory while the gate is open.
- KVM_EXIT_DEBUG and the disassembler's output: diagnostics.
- INT 13h function 08h and the chaining to the BIOS. Requests are assumed to lie on
  the disk: the driver checks neither cylinder nor length against the geometry.
- Accesses to the disk ports other than the driver's word writes.
- The registers of `ChipSelectUnit` and `HexDisplay`, the UART's modem control and
  scratch registers, the timer's operating mode and output level: stored and
  returned, read by nothing. `ExitLoop` has which accesses these devices accept.
- The time of day of the clock, which is the host's and cannot be set; its
  registers C and D, which never change.
- `stop()` of a port, and the events it may still meet: it runs only when the
  emulator ends; `ExitLoop` counts the outcomes among its ways to die. Copying and
  moving EventLoop objects: main copies one object before any handler exists.
- Two ports on one GSI (main.cpp 612-637). How KVM combines several irqfds and
  their resamplers on one line is outside the repository; `SerialIrq` has one port
  on its line.
- `Timer` is modelled as the class is written; `main` compiles it and leaves its
  creation commented out (main.cpp 603-604), and gives the prescaler no device.
- The contents of sectors and of serial bytes.
- Build files, download script, flashdump tool, stringformat.asm (not called).

## 7. What could be added

Several ports on one GSI, with KVM's resampler list; `stop()` against events in
hand, composed with `EventLoop`; the timer with other accesses between the bytes
of a count, for which the useful property is how long a torn value can last.
