# NXU, specified

TLA+ models of the NXU separation kernel (bare-metal ARM64), the TLC runs that
check them on small instances, and proofs about them that TLAPS checks. Paths
are relative to the repository's `src/`; `room.c:157` is a line of
`foundation/room/room.c`, and so on for files whose name is unique.

## 1. The system

NXU boots on one CPU, walks a fixed sequence of steps (`enter.c:37-57`), halts
at the first thing that is not as it must be, and when all steps have passed
runs two *rooms* - two pages of code and data each, entered at EL0 - through a
fixed script that shows what a room cannot do. There is no scheduler and no
allocation after boot. What makes it hard is that it is concurrent all the
same: the counter and the timer run beside the kernel, an interrupt may arrive
between any two instructions while interrupts are open, the other CPUs come up
on their own, and translation tables, TLB and interrupt controller keep state
that outlives the code that wrote it.

    s0 s1_intake s2_contract s3_dtb s4_facts s5_ownership s6_mmu s7_exception
    s8_present s9_init s10_gic s11_time s12_smp s13_ipi s14_freeze
    nxu_rooms_run nxu_halt

The components, the state each keeps, what it does, and what makes it correct:

| Component | State | Operations | Interacts with | Hard behaviour | Correct when |
|---|---|---|---|---|---|
| Rooms (`room.c`, `room_entry.S`, the lower-EL paths of `vectors.S`) | `cur`, `grant`, `delivered`, `rejected`, `nxu_room_reason`, `armed_cval`; the rooms' pages; leaf permissions; CNTP compare and control; the PPI and SGI pending and active state | `nxu_rooms_run`, `run`, `consume`, `user_open`, `seal`, `pulse`, `nxu_room_exception`, `nxu_room_irq`, `expect`, `check_time` | translation tables, timer, redistributor, the EL0 program | a stale translation, a stale pending interrupt, a deadline that passes between two checks, an arbitrary program | a room reaches its own two pages only; it is always ended; room 1 runs only when owed and finds the message that owed it |
| Room script (`room.c:405-541`, the programs of `room_entry.S`) | position in the script, canaries | the lines of `nxu_rooms_run` | all of the above | an interrupt or a late clock at any line | only a mistimed deadline or interrupt stops it; on a quiet machine it passes |
| S12, secondary bring-up (`smp.c`, `psci.c`, `start.S`) | `nxu_cpu[].state`, `.ctx.life`, the gate | `nxu_s12_smp`, `release`, `nxu_secondary`, the gate search of the reset code | CPU records shared by two CPUs, PSCI firmware | a CPU that is slow, refused, or late after CPU 0 gave up; a frame that sleeps on | ONLINE means MMU, vectors, CPU interface and context, not an awake frame; it is never taken back |
| S13 and dispatch (`signal.c`, `exception.c`) | `nxu_sig_ipi`, `ipi_seen`, `nxu_ipi_echo` | `nxu_s13_ipi`, `ipi_to`, `echo_from`, `nxu_irq_dispatch` | every CPU's handler and wait loop | one pending bit per SGI, the echo word written by two CPUs, wfi | every SGI counted once, each request answered by the CPU asked, no SGI without an owner |
| S14 freeze (`freeze.c`) | reads facts, CPU records, signals | `nxu_s14_freeze` | everything before it | - | every present CPU is ONLINE with a live context |
| Chronicle, black box, fail (`chronicle.c`, `bbox.c`, `fail.c`, `log.c`) | two rings per CPU (128 and 32 records), two last-failure slots | `nxu_chronicle_put`, `nxu_bbox_put`, `nxu_log`, `nxu_fail`, the dump | the handler of the same CPU | a put interrupted by a put; a failure inside a failure; wrapping | the dump is in order; the slots name the failure that stopped the CPU |
| S10, redistributor walk (`signal.c:86-150`, `gicv3.c`) | per-CPU redistributor base; CPU interface, distributor, the frame's sleep | walk the frames, match affinity; wake this CPU's frame with a bound | S8's present set | a frame read before it is known to lie in the region; a frame that wakes late loses what it is told | every present CPU has its own frame, or halt |
| S11, time (`time.c`, `timer.c`) | `nxu_time`, `nxu_sig_timer`, `timer_fired` | bind, enable, program, unmask, wait with a bound, mask | handler, redistributor | the interrupt against the bound; a pending bit that outlives its line, and a timer the firmware left running | it returns only after an interrupt of the timer, of its own deadline if the firmware left none |
| Translation tables (`mmu.c`) | a pool of 64 table pages | map, tlbi | S6, rooms | pool limit, a leaf changed while cached | default deny, no page writable and executable |
| S5, S6 (`ownership.c`, `mmu_policy.c`, `range.h`) | the owner table (16 entries) | own, query, map | facts, image, DTB | sums that wrap at 2^64, table limit | nothing unknown is mapped; ranges never overlap |
| S4 facts (`facts.c`, `board/*`) | `nxu_facts` with masks and grades | merge board and DTB | S3 | one source short or contradicting | each fact was said by its sources, and is the board's where the board speaks, but for the frequency |
| S3 device tree (`fdt.c`) | offset and stack of open nodes, gone when it returns | header, one token per turn, cell sizes inherited | memory the firmware left | 32-bit sums that wrap, nesting, a block cut short | the candidates are those of the nodes the blob stands for, and a flaw halts |
| S8, S9 (`cpu.c`, `context.c`) | CPU records, contexts | present set, dedupe, init | facts | duplicates, limit of 8 | the boot CPU is present, each CPU once |
| S7 exceptions (`exception.c`, `vectors.S`) | VBAR | route | signal, room, fail | - | anything unexpected halts |
| Boot sequence (`enter.c`, `intake/`, `contract.c`) | `nxu_boot`; interrupt mask and vectors | call each step in order | all | each step relies on those before, and an interrupt may come as soon as it is let in | every step finds what it reads; a sound machine whose waits last gets to the freeze |
| Exception-level drop (`start.S`) | system registers of EL3 and EL2 | EL3/EL2 to EL1, this CPU's frame on the way, the gate | interrupt controller | what EL1 is not granted traps to a level nobody answers at | EL1 may use timer and GIC, whatever level NXU is entered at |
| Console, sink, UART | the UART | polled output | chronicle | - | - |
| Image, linker script, probes, research | - | - | - | - | - |

### What is hard to test here

`PROJECT.json` lists each hazard at its line with the properties that would
catch it. In groups:

- *What outlives its writer.* Cached translations, a pending timer interrupt of
  an earlier slice, an interrupt left active, a page still opened to EL0
  (`room.c:97,165,232,251,275`).
- *Time between two checks.* The deadline passes while the kernel prepares the
  entry (`room.c:279`); S11's first interrupt comes as its bound runs out, or
  after it, or is one the firmware left pending (`time.c:136,139`).
- *The edge over many calls.* Repeated pulses, rejected pulses, entries, in any
  order (`room.c:129,165,172`).
- *Two CPUs on one record.* STARTING and ONLINE, the echo word, the gate
  (`smp.c:65,77,127,134`, `signal.c:162`, `start.S:40`).
- *One pending bit.* An SGI before its owner, two SGIs in one, an SGI just before
  wfi (`signal.c:159,193`, `smp.c:74`).
- *A handler inside a put, a failure inside a failure* (`chronicle.c:75`, `bbox.c:94`,
  `fail.c:40`).
- *A long line of stages.* Each takes what those before it left; a redistributor that
  wakes after it was told what to let through, the boot CPU's or a secondary's
  (`enter.c:40`, `gicv3.c:201`).
- *Limits and sums.* Table pools, ranges ending at 2^64, the redistributor region, FDT
  offsets (`range.h:23`, `mmu.c:47,213`, `ownership.c:30,52,85`, `signal.c:101,127`,
  `fdt.c:205,294`).
- *Two sources of one fact, and nodes nobody wrote a test for* (`facts.c:86`, `fdt.c:112,226,242`,
  `cpu.c:64`).

## 2. The modules

| Module | What it is | Code |
|---|---|---|
| `PulseEdge` | abstract: what the edge between the rooms promises | `room.c:1-6`, the edge table of FOUNDATION_MAP.md |
| `Room` | the room mechanism with an arbitrary EL0 program; implements `PulseEdge` | `room.c`, `room_entry.S`, `vectors.S` |
| `RoomProofs` | theorems about `Room` and `RoomsRun` | |
| `RoomsRun` | `Room` driven by the real script and the real programs | `room.c:405-541`, `room_entry.S` |
| `Range` | ranges of words whose sums wrap, and what bytes they mean | `range.h`, `page_up`, `page_down` |
| `Handover` | what S4 hands to S5 and S6: ranges, and the record they start from | `range.h`, `facts.h`, `ownership.c:70-90` |
| `Space` | the owner table, the map S6 makes, the pages the rooms take | `ownership.c`, `mmu_policy.c`, `room.c:407-418` |
| `SpaceProofs` | theorems about `Range` and `Space` | |
| `PageMap` | abstract: a flat map from pages to attributes | the callers of `nxu_mmu_map` |
| `Translate` | the pool of tables and the walk; implements `PageMap` | `mmu.c` |
| `TranslateProofs` | theorems about `Translate` | |
| `Facts` | candidates from the nodes of a DTB, and their acceptance | `facts.c`, `fdt.c`, `board/*/facts.c` |
| `Fdt` | the blob: header, tokens, cells, nesting; implements the S3 of `Facts` | `fdt.c` |
| `FactsProofs` | theorems about `Facts`, and about `Fdt` on a blob of which nothing is known | |
| `Topology` | the present set and the walk over redistributor frames | `cpu.c`, `signal.c:86-150` |
| `TopologyProofs` | theorems about `Topology` | |
| `Boot` | the boot CPU from reset to the freeze, with the timer's first interrupt | `start.S`, `enter.c`, `intake/`, `contract.c`, `exception.c`, `time.c`, `timer.c`, `gicv3.c`, `freeze.c` |
| `BootProofs` | theorems about `Boot` | |
| `Smp` | S12, S13 and the CPU part of S14 on N CPUs | `smp.c`, `signal.c`, `freeze.c`, `start.S` |
| `SmpProofs` | theorems about `Smp` | |
| `Chronicle` | both rings of one CPU, the handler inside a put, `nxu_fail` | `chronicle.c`, `bbox.c`, `fail.c`, `log.c` |
| `ChronicleProofs` | theorems about `Chronicle` | |
| `MCRoom`, `MCRoomsRun`, `MCSmp`, `MCSpace`, `MCFacts` | constants for TLC; in all but `MCRoomsRun` also statements of the repository that the code does not keep | |

### Room

State. `cur`, `grant`, `delivered`, `rejected`, `reason` are the variables of
the code; `mode` is the point CPU 0 has reached between `nxu_rooms_run` and EL0;
`why` names the `nxu_fail` that stopped it. `pt` is the leaf permission of each
page and `tlb` the permissions a walk may have cached since the last invalidate:
EL0 may do what *any* usable permission allows, so a missing tlbi shows. `mem`
holds the first two words of each page, all the edge reads or writes. The
counter and both compares appear only as differences: `left` is CNTP_CVAL - CNTPCT
and `armed` is `armed_cval` - CNTPCT, each stopping at 0. `latch`, `sgi`, `active`
are the interrupt controller: a pending bit that is set whatever the timer
condition says now, the pending poke, the interrupt not yet deactivated.

Actions. `Setup` is the head of `nxu_rooms_run`; `Run` is `run` up to the mask of
interrupts (consume, copy, open), `Arm` the deadline, `EnterLate`/`Enter` the last
check; `Svc0`, `PulseRejected`/`PulseDelivered`, `Fault` are `nxu_room_exception`;
`IrqForeign`, `IrqTimer`, `IrqSpurious` are `nxu_room_irq`; `JudgeBad`/`JudgeGood`
are `expect` with `check_time`; `El0Store` and `El0Timer` are what a program can do
to state by itself; `Tick` is the counter, possible between any two of them. Kernel
code between two of these points runs masked on the only CPU that touches this
state, so nothing but time can come in between, and no check reads the counter
inside one action.

A read of the timer line after the timer was masked is a race of hardware: the
line may drop late, so `latch` is then either value. `x0` of a pulse points at
the page, at its last word, or elsewhere, because those are the cases `inside`
and the two reads after it tell apart. The argument `wipe` of `run` is 0 at
every call and is left out.

### RoomsRun

`Script` is `nxu_rooms_run` as a sequence of lines (a run, a check, a note of
`rejected`), `Program` the eleven programs of `room_entry.S` as sequences of
instructions. Every step conjoins one of `Room`'s actions with the script's next
line or the program's next instruction, or is a check that leaves `Room`'s
variables alone or halts, so the properties of `Room` carry over; what is checked
here is what only the script can show. `words` and `first` keep what `Room`'s `mem`
abstracts: words 2 to 4 of the data pages (the canary is word 4 of the model), and
which program a code page begins with.
`quiet`, chosen once in `RunInit`, is a machine whose clock moves only while a program
spins and whose interrupts are genuine.

### Boot

One CPU from the reset vector to the freeze. `machine`, chosen once, is what NXU may be
started on: the exception level it is entered at, one of `Faults` or none, whether the
controller has two security states and the firmware (or, at EL3, the board's row) has put
the timer's interrupt into Group 1, a timer or another interrupt that the firmware left
running, and whether the frame ever wakes. `at` is the next stage; S10 to S13 have labels
for the steps that time or an interrupt can come between. `done` collects the stages that
returned, and `Reads(s)` names those whose results stage s uses, taken from what its code
reads.

What a stage decides is in the module of its own. Here it passes, or `machine.fault` says
what stops it: a check of S0 to S2, the facts somewhere in S3 to S9, a blob that S3 never
leaves (`loop`, the case of `WrapHalts`), frames that are not one for each CPU (`gic`), a
CPU that S12 cannot release (`refused`), one that never says ONLINE (`lost`), one that does
not answer in S13 (`silent`). The last may be nobody's fault: finding 1 is such a boot, and
`Smp` has its other side. Which waits S12 and S13 then sit in, and that each is bounded
(`RunOut`), is here.

Beside the CPU run the counter (`Tick`), the redistributor (`FrameWakes`), and a device
whose line may fall at any time (`StrayFalls`). An interrupt is signalled when every
gate on its way is open: `enabled`, `group1`, an awake frame, `iface`, and the timer's
line (`Line`) or its pending bit, `latch`. As in `Room` the bit may outlive the line: where
the line falls, because S11 writes the compare or the handler masks the timer, it is left
either way (`LateLine`), and only the acknowledge takes it. S11 does not clear it
(`time.c:134-137`; `room.c:275` does), so on a machine whose firmware left the timer running it
may begin set. `Take` is
the exception; between it and the acknowledge (`IrqTimer`, `IrqUnbound`, `IrqSpurious`) the
line may change, so the acknowledge decides again. `proof` keeps what the first interrupt
counted stood for: the deadline, or something left (`"stale"`). An access that is not granted
traps to EL2, where `start.S` spins: `at = "stuck"`. `Group` and `Enable` write to a frame,
and what a sleeping frame is told is lost, since `nxu_gicr_wake` returns also
when its bound has run out and nobody looks at which it was. `patient` says that the
bounded waits outlast what they wait for; FALSE is the code.

### Facts, Fdt, Space, Translate, Topology

Before the other CPUs are released the boot is one CPU walking tables, and what is
hard is not interleaving but what the tables end up saying of inputs nobody tried.
`Facts` begins with a machine - the nodes of a DTB and what is wrong after them, a board,
what the CPU shows of itself -, learns of one node per step (`EndNode`), and accepts one
group of facts per step (`S4Ram`, `S4Ctl`, `S4Cpu`, `S4Timer`). A node is what the decoder
has collected of it when it meets FDT_END_NODE. A fact keeps who said it and how well it
is known, as `source` and `grade` do in the code. For S3, then, `Facts` is the
specification: the nodes in the order of their ends, and a halt for a flaw.

`Fdt` is the decoder. The blob is its 32-bit words, `pos` the offset, `stack` the open
nodes with the cell sizes they inherit; each token is an action, and so is the header
with its five checks. All sums of offsets are 32-bit (`CELL` is the number of values of a
word, `WORD` of two). A string is one word that stands for its text: what `str_eq` and
`str_has` tell apart is which of the texts it knows a string is, so strings are not
spelled. A read behind the blob gives `Blob.beyond`, what happens to be there. A machine carries the
blob and the nodes it stands for; the encoder of `MCFacts` makes the first from the second,
and the run shows that the decoder gets the second from the first
(`ImplementsFacts`), with the S4 of `Facts` run on what it finds.

`Space` begins with accepted facts. `AddOwner` is one call of `add_owner`, `MapImage` one call
of `nxu_mmu_map` for a part of the image, `MapDevices` one turn of S6's loop over the owner
table, `Arm` the query before the MMU is enabled, `TakeRooms` and `PrivRoom`
the first lines of `nxu_rooms_run`. `leaf` is the flat map of `PageMap`; a call may find the
pool empty (`"pt"`). `Translate` has the tables themselves: one page of `map_page` per step,
so that a halt in the middle of a range shows, and an entry is invalid, a link, or a
leaf. Its walk is one function of table, pool and slot, applied three times, and the
run shows, for small tables, that it implements `PageMap`; `TranslateProofs` for all.

`Topology` begins with the CPUs `Facts` may accept. `Present` is S8, `InitCpus` the part of S9
that clears the frames, `Walk` one turn of S10's loop, where the frame's contents are
chosen by the controller, and `Freeze` the comparison after it. S8's own checks are kept
although no facts of S4 make them fail. Its result is the initial state of `Smp`.

### Smp

One program counter per CPU. CPU 0 walks `nxu_s12_smp` and `nxu_s13_ipi`, one
action per step that another CPU can see: mark STARTING, release, look at the
state, snapshot, SGI, look at the count, ask. A secondary runs `FindGate` (the
reset code), `Occupy`, then `FrameWakes` or `FrameSleeps`, `SetWaiting`, `SetOnline`, `Unmask`,
then the wait loop. `ready` is what `Occupy` sets up (MMU, vectors, CPU interface), `heard` that
the CPU's own frame kept the enable of the SGI: `nxu_gicr_wake` gives up in silence
(`gicv3.c:201`), and then a CPU goes on to ONLINE with a frame that lets nothing in. Its SGI
stays pending, and CPU 0's bounded wait in S13 is what finds out. The SGI's group is taken to
be Group 1 everywhere: `Boot` has what the group of an interrupt depends on. CPU 0's frame is
awake from S11 on (`S11Proves` of `Boot`).
`Irq(c)` is the handler, on any CPU with interrupts open and the SGI pending. `pend`
is the one pending bit per CPU; `sent` is a history variable that counts
what was generated, to compare with `seen`. `conduit` says whether CPUs are released
through the gate (`start.S`) or PSCI. `patient` says whether the bounded waits
(2 s in S12, a million spins in S13, ten thousand for a frame to wake) never run out: FALSE is
the code, TRUE asks whether what is waited for would come at all. Both are chosen once, in `Init`.

S14 is modelled for its conditions on the CPUs (invariants 12 and 28 of the
closure document). Memory is sequentially consistent: between each two stores whose
order another CPU sees there is a `dsb` (`smp.c:66-69,77-79,95-97`, `signal.c:213-215,230-232`,
and in `nxu_gic_sgi`).

### Chronicle

A put of the mainline is `seq`, `code`, `data`, `next` and the two halves of
`count++`, first in the chronicle, then in the black box; the handler of the
same CPU is one action, since it is never interrupted, and may run between any two
of them. The fields behind `code` are kept as one. The stores are taken in the
program's order: they are plain C stores that a compiler may reorder, and a
different order only widens what an interrupt can see half done, which
`DumpInOrder` excludes and `NothingLost` shows already. Record n carries the number n,
so order, loss and mixture are visible. `count++` is a load into `loaded` and a store: what the
interrupt counts in between is lost.

## 3. The runs

| Run | Module, cfg | Shows |
|---|---|---|
| `room` | MCRoom, MCRoom.cfg | For any program of two rooms: isolation under stale translations, the deadline, the owed slot, ownership of memory, that `Room` implements `PulseEdge`, that a room that never leaves is ended and every entry comes to a verdict |
| `rooms` | MCRoomsRun, MCRooms.cfg | With any clock and any interrupt no check of the script fails, no owed entry is refused and no copy faults; on a quiet machine it passes with ten pulses delivered and four rejected |
| `smp` | MCSmp, MCSmp.cfg | Four CPUs, through the gate or PSCI, with waits that may run out or not and frames that may sleep on: safety of S12 and S13, each CPU finds its record, the boot gets to the first request for an answer |
| `chronicle` | Chronicle, MCChronicle.cfg | The dump is in order while no interrupt falls inside a put; the slots name the failure |
| `space` | MCSpace, MCSpace.cfg | Every honest small board, and boards that must halt: what the owner table takes, what is mapped and with which right, that nothing honest is refused, that only rooms grow the map |
| `translate` | Translate, MCTranslate.cfg | Any three calls of `nxu_mmu_map`: a tree, no table too many, a flat map |
| `facts` | MCFacts, MCFacts.cfg | On 566 machines: the blob is decoded to the nodes it stands for, in whatever style and with whatever damage; sources and grades are honest, what the board says of all but the frequency is what is accepted, the load-bearing facts are there |
| `topology` | Topology, MCTopology.cfg | The present set freezes exactly when the controller has one frame for each CPU |
| `boot` | Boot, MCBoot.cfg | From each level, with each firmware and each fault: every stage finds what it reads, what S11's interrupt stands for, what may stop the boot, and that it ends |
| `smp_echo` | MCSmp, MCSmpEcho.cfg | finding 1 |
| `chronicle_lost` | Chronicle, MCChronicleLost.cfg | finding 2 |
| `fdt_window` | MCFacts, MCFdtWindow.cfg | finding 3 |

Each property has a mutant in `PROJECT.json`, a plausible bug of the code that
makes the same run fail: a missing tlbi, a missing clear of the pending bit, an
interrupt without its end, a pulse that is not checked, STARTING written after the
release, a swapped answer, a slot not taken modulo the capacity, cell sizes taken from the
wrong parent, a drop that does not grant the timer. `TypeOK` is an
invariant of the runs `room`, `smp` and `translate`, and proved of `Room`, `Smp`, `Boot`,
`Chronicle`, `Translate`, `Space`, `Facts` and (as `RunTypeOK`) `RoomsRun`; each of the other modules
states its own, which TLC finds true when a cfg names it.

### The properties, and what each guards against

- `UserWindow` - EL0 can do to a page exactly what the running room may, with any
  translation cached so far, and nothing when no room is open.
- `KernelNeverFaults` - no permission left over makes the copy of the next program
  fault.
- `DeadlineLive`, `PreemptedAtDeadline` - the armed deadline can interrupt the room
  and is the one the kernel recorded; a timer exit is never early.
- `OwedSlot`, `MemoryOwned`, `EdgeSpec` - who may write what, and what an owed entry
  finds.
- `EntryResolves` - liveness of an entry, also of a room that never leaves.
- `ScriptHolds`, `QuietCompletes` - see the two runs. `RunTypeOK` also says that no
  program runs past its end, into the rest of an earlier program in the page.
- `OnlineReady`, `OnlineStays`, `NoUnbound`, `EchoExclusive`, `EverySgiCounted`,
  `S13Proves` - the shared CPU records and the counts of S13. That a CPU's frame is awake is
  not part of ONLINE (`OnlineIsHeard`, section 5) but of what S13 proves.
- `ReachesAnswer` - release through the gate or PSCI, and the
  waits before the first echo.
- `DumpInOrder`, `HaltNamesFailure` - what can be read back after a halt.
- `RegionsAreWrapSafe`, `HonestFactsAreMapped` - the owner table takes nothing that wraps,
  and refuses no board that is as it should be.
- `MappedIsOwned`, `ImageHasItsRights`, `ArmedGrowsByRoomsOnly` - a page is mapped for its
  owner; text is never written, data never executed, constants neither; after the MMU
  is on only the rooms' pages are added.
- `TreeShape`, `PoolExact`, `FlatSpec` - the tables are the map they stand for.
- `GradesHonest`, `BoardAgrees`, `LoadBearing` - an accepted fact was said by the
  sources it names; of RAM, controllers, console, method and CPUs it is what the board says,
  where it speaks; nothing needed is missing.
- `ImplementsFacts` - what a blob says does not depend on how it says it, and what
  is damaged halts with the nodes that were whole.
- `PresentExact`, `FrozenIffCorroborated` - facts, records and frames name each other.
- `Ready`, `S11Proves`, `HaltDeserved`, `BootEnds` - no stage is early, no access traps, no
  interrupt comes before its vectors or its owner; the interrupt S11 counts is its own
  deadline's unless the firmware left the timer running, and its frame is awake; a sound
  machine whose waits last never halts, and no machine for a trap, for an invariant of the
  freeze, or for an unowned interrupt that the firmware did not leave. With the code's bounds
  every boot comes to an end, unless S3 never leaves the blob; on a sound machine with patient
  bounds it gets to the freeze. With those bounds a halt for time needs no cause but the bound:
  S11 may even count its interrupt after the bound has run out and halt all the same, since
  `Report` runs with interrupts open.

Some hazards have no run that meets them, because the code would not pass it: their cases are
the rows of section 5 (`ReachesAnswer` with nonzero Aff3, `ImageHasItsRights` with a device in the
image, `ReadsItsRegion`, `PulseFromSender`, `WrapHalts`), and `DumpInOrder` speaks only of rings
that no interrupt found inside a put - the others are finding 2.

### Bounds, and why they are enough

- `ROOM_N = 2` is the code's. The rooms' theorems hold for any number.
- `Slice = 2`: a slice must be able to lie ahead, be on its last tick, and be over.
- `CountMod = 2` (16 for the script): `delivered` and `rejected` are compared only by the
  script, which counts to 10 and 4. In `room` two values are enough to see a change and a wrap.
- Two payload values, three for the script: the edge asks whether a word is
  `PAYLOAD`, the script also whether it is zero.
- `N = 4` CPUs in two clusters: CPU 0, the first secondary, the first of another
  cluster and one that is neither; every branch of `nxu_s13_ipi` is taken. The
  echo run needs a single cluster of three.
- `CHRONICLE_CAP = 3`, `BBOX_CAP = 2`, `MaxPuts = 7`: different capacities, both
  wrapped more than once, and a failure with a log line after the wrap. No property
  depends on the values of the capacities.
- `WORD = 64`, `PAGE = 2`, `VA = 32` (in `space`): room for RAM and devices
  below `VA`, a range above it and one that wraps, with ranges that begin and end
  inside a page. `OWNER_MAX = 8` stands to the two RAM banks of the small boards as
  16 to the code's eight: banks + image, DTB, two controllers, console, power controller
  is 8 of 8 here and 14 of 16 there, so the small table is the tighter one. The boards
  (`HonestFacts` and the others in `MCSpace`) are about eight thousand combinations. `Honest` in
  `Space` says which of them nothing may refuse; `MCSpace` adds some that must be refused.
- `FAN = 2`, `PT_PAGES = 6`, `MaxCalls = 3` calls of at most `MaxPages = 2` pages: sixteen pages, all
  four levels branch, and three distant pages need more tables than the pool has.
- `MEM_FACT_MAX = 2`, `CPU_BOUND = 2`, `AFF = 4`, 566 machines: one group of facts varies at
  a time around a machine on which everything agrees, since `nxu_s4_facts` looks at the
  groups one after the other; each bound is met and passed. Then one DTB is written in every
  style (cells of 0 to 3 words on each bus, padding, ranges before or after the type, strings
  before or after the structure), cut after every word, and damaged in every token.
- `CELL = 1024` values of a word and `WORD = CELL^2` of two: a blob is shorter than
  `PROBE_CAP` bytes, so that offsets fit a word and sums of two may wrap; RAM needs its high word.
  `PROBE_CAP = 1000`, `DEPTH = 5` and `REGS = 3` stand for 1 MiB, 16 and 4, and are met and passed.
- `Boot` has no constants: all machines of `Machines`.
- `CPU_BOUND = 3`, four affinities, `MaxFrames = 4`: a controller of fewer, as many and more
  frames than CPUs, every order, with strangers and duplicates among them.

The system may stop by design (`nxu_halt` is wfi for ever), which each module states
as a stuttering action, so deadlock is checked in every run.

### Fairness

- Room: weak fairness of `Tick` (the counter never stops), of `KernelStep` (the
  kernel waits for nothing between `run` and EL0 nor before it judges), and of
  `Interrupt` (an unmasked pending interrupt is taken). None of the EL0 program: it
  may spin for ever, which is what `EntryResolves` is about.
- Smp: weak fairness of each CPU's own code and of each `Irq(c)`. *None of* `Wake`: wfi
  may end without an interrupt, but the architecture does not promise it; nor of
  `FrameSleeps`, the other way past the wake. A patient wake ends with an awake frame.
  `ReachesAnswer` is stated for waits that do not run out.
- Boot: weak fairness of `BootStep` (the CPU goes on, also past a bound that has run out, as every
  bound of the code does in the end), of `IrqStep` (an unmasked signalled
  interrupt is taken and handled), of `Tick`, and of `FrameWakes`, which is enabled only on
  machines whose frame wakes at all. `BootEnds` asks for the freeze only of patient machines:
  with the code's bounds a slow frame or deadline halts.
- RoomsRun: weak fairness of `RunNext`, the CPU keeps executing.

## 4. The proofs

`RoomProofs.tla` proves, for any number of rooms, slice, counter width, payloads and
programs that satisfy `RoomAssumption`:

| Theorem | Statement |
|---|---|
| `TypeCorrect` | `Spec => []TypeOK` |
| `SpatialIsolation` | `Spec => []UserWindow` |
| `NoKernelFault` | `Spec => []KernelNeverFaults` |
| `DeadlineAlwaysLive` | `Spec => []DeadlineLive` |
| `NoEarlyPreemption` | `Spec => []PreemptedAtDeadline` |
| `OwedSlotKept` | `Spec => []OwedSlot` |
| `MemoryIsOwned` | `Spec => MemoryOwned` |
| `EdgeImplemented` | `Spec => EdgeSpec`, the refinement of `PulseEdge` |

None of the properties is inductive, so each rests on a strengthening:

- `TableInv` gives the whole translation table of every mode and says that
  the TLB holds nothing older. `UserWindow` says only what is reachable, while the
  handlers rewrite whole tables: without the exact table nothing is known
  of the pages the next handler leaves alone. The lemma `Tables` is the heart of
  it, opening after `priv` and closing after opening each end in a known table.
- `DeadlineInv` adds to `DeadlineLive` what holds before EL0 and after it: no
  interrupt is left active in any mode, EL0 has lost the timer from `Setup` on,
  and nothing is pending from `Arm` on.
- `EdgeInv` adds to `OwedSlot` that no entry is owed while room 1 is
  admitted, since room 1 may overwrite its slot, and that only rooms 0 and 1
  are ever admitted, although the machine may have more.
- `MemoryIsOwned` and `EdgeImplemented` follow from these step by step; the
  refinement maps `active` to the room admitted, `owed` to `grant = 1`, and
  `slot` to the payload word of room 1's data page once it has been cleared.

The same module goes on to the script, for any constants that satisfy also
`RoomsRunAssumption` (the counters count to ten, and there is a word that is neither zero nor
`PAYLOAD`):

| Theorem | Statement |
|---|---|
| `ScriptImplementsRoom` | `RunSpec => Spec`: every theorem above is one about `nxu_rooms_run` |
| `ScriptAlwaysHolds` | `RunSpec => []ScriptHolds` |
| `RunTypeCorrect` | `RunSpec => []RunTypeOK` |

A check of the script is about what lines long before it did, so the invariant has to say what is
known at every line. A `Stage` is that: is an entry owed, how many pulses were delivered and
rejected, how many of them at the last note, which program ran last and where. `Passes` gives, line
by line, what a stage must meet for the script to go on (`Meets` for a check, `MayRun` for a run)
and the stage it comes to, and `ScriptLeads` shows that the script leads from nothing sent to its
last line, with or without a UART. `Ann` is the stage of each line. `LineInv` then says that
between two lines the state is that of the stage, and while a run is under way it is that of the
stage with what the program has done before its next instruction (`Running`, `Written`);
`KeptInv` that the canaries and the slot are kept, and that the compare the kernel recorded is the
one the timer has. A step of a program keeps it because of what is proved of `Room`: a store
that is not into its own data page never succeeds (`RoomWindow`, from `TableInv`), and the timer is
out of its reach (`DeadlineInv`).

`BootProofs.tla` proves, for all machines and any number of turns of S11's wait,
`ReadyAlways` (`Ready`), `DeadlineCounted` (`S11Proves`) and `HaltsAreDeserved` (`HaltDeserved`).
Their strengthening has four parts: `OrderInv` says for every label which stages are done,
and what the last of them left; `PeInv` ties the grants, the vectors and the interrupt mask to it
(without it a trap is possible); `ClockInv` ties compare, control, the pending bit and `fired` to
the steps of S11 - without a timer left by the firmware nothing is pending until the compare S11
wrote is reached, and once the handler has masked the timer at most the bit it left can come -;
`CauseInv` says which halts need a bound that runs out, or an interrupt that was left.

`SmpProofs.tla` proves, for any number of CPUs in any clusters that satisfy `SmpAssumption`,
with waits that run out or not: `TypeCorrect`, `OnlineIsReady`, `EverySgiIsBound`, `OneEcho`,
`NoSgiMerged`, `OnlineForever`, and `S13Finishes` (`S13Proves`). `PlaceInv` ties each CPU's
program counter to its record and its life; `OrderInv` says that CPU 0 has passed the CPUs below
the one it works on and has not begun those above, which is what makes a late CPU
harmless; `QuietInv` says that no CPU opens its interrupts before S12 has counted it,
`PendInv` that the pending bit is the difference between what was generated and
counted, `EchoInv` that the answer word is used by one CPU at a time, `HeardInv` that only a CPU
whose frame is awake has counted anything. `S13Finishes` adds the exact numbers sent so far.

`ChronicleProofs.tla` proves, for rings of any capacities and any number of puts:
`TypeCorrect`, `DumpOrdered` (`DumpInOrder`) and `HaltNames` (`HaltNamesFailure`). The
dump is a statement about a sequence read out of a ring that has turned any number
of times; the proof goes over the age of a slot. `DumpInv` says that each slot holds the record
of its age (`Newest`), with the two slots of the put under way excepted (`Filling`, `Filled`),
as long as no interrupt fell inside a put. `FailInv` says which failure each last-failure
slot names at each step of `nxu_fail`, and that a handler that fails halts.

`TopologyProofs.tla` proves, for any number of CPUs, any affinities and any controller:
`PresentIsExact` (`PresentExact`) and `FrozenWhenCorroborated` (`FrozenIffCorroborated`).
The second is a pigeonhole argument: the code counts the frames that belong to some
CPU and asks that each CPU has one. `WalkInv` says that `nrd` is the number of matching
frames and that each record names the last frame of its CPU; as many matching frames as CPUs,
and one at least for each, is one for each.

`TranslateProofs.tla` proves, for tables of any fan-out, a pool of any size and any calls, also
those that halt in the middle of a range: `TypeCorrect`, `TablesAreATree` (`TreeShape`),
`FlatImplemented` (`Spec => FlatSpec`, the refinement of `PageMap`) and `PoolIsExact`
(`PoolExact`). `TreeShape` alone is not
inductive: that a table is linked once does not say that leaves are in the tables of the
last level, without which the walk could take a leaf for a table. `Shape` adds the depth of
each table. Two lemmas carry the refinement: linking an empty table changes nothing that is
found (`GrowFinds`), so a halted call has mapped what it had mapped; and a leaf is found for
its own page alone (`LeafFinds`), since a table is reached by one path (`SameTable`) and the
four slots of a page tell the page (`Slots`). For the pool, `Reach` is the set of beginnings
of addresses that lead to a table. A table that is linked adds its own beginning and no other
(`GrowReach`), a leaf adds none (`LeafReach`), so `PoolInv` can say that the tables taken
are the root and one for each of `Reach`, which while the boot runs are the beginnings of the pages
that are mapped. It has to count `Reach` and not those pages: a walk that halts has
linked tables for a page that it has not mapped.

`SpaceProofs.tla` begins with the comparisons of `range.h`, for words and pages of any size: an
accepted range ends below the last address, so none of the sums of the other operators
wraps, and from that `ContainsIsSubset` (containment of bytes) and `OverlapIsCommonByte` (a byte in
common). `Space` and `Facts` are built on these operators. Then, for an owner table of any size and
any accepted facts, `TypeCorrect` and `NoRegionWraps` (`RegionsAreWrapSafe`), and
`HonestBoardsAreMapped` (`HonestFactsAreMapped`): a board that is as it should be is never refused
for a range, an alignment, an owner or the table. `Honest` says what that is: no more claims than the
table has places, an image of whole pages, RAM banks apart from each other, devices on no page
of RAM, and no device or DTB nearer to the last address than two pages, since S6 rounds up and the
range it gets must end before that address. `HonestInv` is the induction for it: the table
holds the claims made so far, in order, and all of them once S5 is through. Its heart is
`HonestOwner`: the smallest region around the image's first page is the image,
also where RAM is no larger, since the later of two equal ones is taken.

The others are
about boards whose ranges make sense, and say so in their hypotheses on `Facts`: `Board`
(text and constants end inside the image, the first RAM and the devices end below the
addresses the walk translates) for `MappedAlwaysOwned` (`MappedIsOwned`); `ApartBoard`
(no device shares a page with the first RAM, either) for `OnlyRoomsGrow`
(`ArmedGrowsByRoomsOnly`); and `Linked` (text and constants are whole pages, as the linker
script makes them) for `ImageKeepsItsRights` (`ImageHasItsRights`). All boards of
`HonestFacts` meet the three, and section 5 has what happens to boards that do not. The
properties speak of bytes and the code of sums of words, so the lemmas `Steps`, `DownIs`,
`UpIs`, `TouchedIn` carry the arithmetic of pages, and `ImageEnds` that none of S6's sums wraps. `OwnInv`
adds to the properties what the table is in each phase (a prefix of the `Claims` while S5
runs, all of them after it), and that S6 has an image that begins at a page after its first
call. `PartInv` adds, with `Parts`, which parts of the image are mapped after how many calls and
that the rooms' pages have no leaf until they are taken: without it nothing says that a
device or a room does not replace a page mapped before.

`FactsProofs.tla` proves, for any set of machines that satisfies `MachinesAssumption` (a board, as
`board/*/facts.c` has them, names each CPU once; of nodes nothing is assumed but their types):

| Theorem | Statement |
|---|---|
| `FactsBearLoad`, `FactsAgreeWithBoard`, `FactsGradedHonestly` | `Spec` keeps `LoadBearing`, `BoardAgrees`, `GradesHonest` |
| `FactsTypeCorrect` | `Spec => []TypeOK` |
| `AnyBlobBearsLoad`, `AnyBlobAgreesWithBoard` | `FdtSpec`, the decoder on a blob, keeps `LoadBearing` and `BoardAgrees` |
| `AnyBlobFits` | `FdtSpec => []WithinArrays`: no blob fills more than the decoder's arrays hold |
| `AnyBlobHandsOver` | `FdtSpec => []HandsOver`: what S4 accepts is what `Space` and `Topology` begin with |

`BlobsAssumption` says only that a blob is made of words: its header may lie, its tokens may be
anything, it may be cut anywhere, and the word read behind it is any word. That is what makes
these more than the run, whose blobs are encoded or damaged ones. `FactsInv` says what the candidates
are while S3 runs (`CandOk`: no more of each kind than there are places, no CPU twice), and what each
of S4's groups has established once it has passed (`RamPassed`, `CtlPassed`, `CpuPassed`,
`TimerPassed`); `FdtInv` adds that the open nodes are bounded. All steps of S3, decoded
or given as nodes, are instances of one (`AnyStep`), so that the argument is made once.
`FactsGradedHonestly` adds `Said`: a candidate is one of the values the nodes of the DTB name.

Only model-checked:

- liveness (`EntryResolves`, `QuietCompletes`, `ReachesAnswer`, `BootEnds`), since fairness
  is beyond the prover;
- `ImplementsFacts`, that the decoder finds the nodes a blob was written from. What the
  encoder of `MCFacts` writes is an induction over the nodes and the styles, by a recursive function;
  for the same reason `GradesHonest`, which speaks of the nodes, is proved of `Spec` and
  checked of `FdtSpec`.

## 5. Findings

Where the code and what the repository says of it differ. Each of these is a run that
TLC ends with a counterexample.

1. *The SGI before wfi* (`smp.c:74`, `EchoAnswered`). The wait loop does not look at the request
   under masked interrupts before it sleeps: an SGI that arrives between the end of the
   loop and wfi is counted and then slept on. CPU 0's bounded wait then
   stops the boot.
2. *A put inside a put* (`chronicle.c:75`, `NothingLost`). With interrupts open, the handler's
   record lands in the slot the mainline is filling and is overwritten. Invariant 19:
   "Chronicle is per-CPU, append-only in the ring sense".
3. *A read behind the blob* (`fdt.c:205`, `ReadsInWindow`). The ends of the blocks are 32-bit
   sums of header fields, compared with the size after they may have wrapped, and the
   length and name of a property are read before they are compared with the end of the block.
   `fdt.c:9`: "Invariant: bad magic / oversized / overlap / wrap → halt".

These have no run of their own. For each, the formula is in the module, and TLC refutes it
when it is named as the INVARIANT (or PROPERTY) of the configuration given.

| Where | The code | The statement | To see it |
|---|---|---|---|
| `room.c:129` | `inside` looks at the first byte of a payload, `pulse` reads sixteen; no program of `room_entry.S` points at the end of its page | "A pulse copies one payload from the sender's own data page, or it is rejected." (`room.c:3`) | `PulseFromSender`, MCRoom.cfg |
| `room.c:409` | the four pages after the image are taken when the first RAM bank holds them; S5 may have recorded the DTB there, of which the kernel has read all it needs | "`reserved-do-not-touch`" (GENESIS_V2_CLOSURE.md:122) | `ReservedUntouched`, MCSpace.cfg with `Facts <- DtbFacts` |
| `gicv3.c:201` | `nxu_gicr_wake` returns when its bound runs out, and what S11 then enables is lost | "this must succeed before any ISENABLER programming is trusted" (`gicv3.c:180-182`) | `WakeBeforeEnable`, MCBoot.cfg |
| `smp.c:61` | the same at a secondary, which says ONLINE with a frame that lets no SGI in; S13 then stops on its bound | the same comment | `OnlineIsHeard`, MCSmp.cfg |
| `time.c:134` | S11 enables the timer's interrupt and does not clear what is pending, as `room.c:275` does: an interrupt of a timer the firmware left running is taken for the deadline | "Deadline fires." (`genesis v2.md:493`) | `OwnDeadline`, MCBoot.cfg |
| `fdt.c:294` | the end of a property is a 32-bit sum: with a length that wraps it the decoder comes back to the same property for ever (the fault `loop` of `Boot`) | "wrap → halt" (`fdt.c:9`) | `WrapHalts`, MCFacts.cfg with `Inputs <- WrapMachines` |
| `room.c:84` | every room entry rewrites leaves, after S14 | "After `CPU_ON` of the first secondary is issued, fact table, ownership map, and page tables are read-only" (closure document, invariant 27); the secondaries touch no room page | `TablesFrozen`, MCRoom.cfg |
| `start.S:40` | the reset code folds Aff3 into bits 31:24, `release` stores it in bits 39:32; the boards here have Aff3 zero | "A released secondary finds its context in the gate." (`start.S:35`) | `ReachesAnswer`, MCSmp.cfg with `Aff3 <- SomeAff3` |
| `smp.c:117` | S12 halts without an enable-method before it counts the CPUs | load-bearing "if present count > 1" (GENESIS_V2_CLOSURE.md:50) | `OneCpuNeedsNoMethod`, MCSmp.cfg with `N = 1`, `Cluster <- OneCluster` |
| `ownership.c:85` | devices are compared with nothing, so a console a DTB puts in the image replaces a page of it | "Accepted facts do not contradict observations or each other" (GENESIS_V2_CLOSURE.md:113) | `ImageHasItsRights`, MCSpace.cfg with `Facts <- RamFacts` |
| `mmu.c:129` | a range above 48 bits is mapped at the page of the same low bits | "`unknown` is never mapped" (GENESIS_V2_CLOSURE.md:122) | `MappedIsOwned`, MCSpace.cfg with `Facts <- FarFacts` |
| `fdt.c:174` | the DTB's timer interrupt is never decoded | "A DTB that names another PPI is a mismatch, not a second timer." (`facts.c:229`) | `StrayTimerMismatches`, MCFacts.cfg |
| `board/soc/facts.c:14` | with no board facts a complete DTB is accepted | "boot with this board fails closed at facts" (`board/soc/facts.c:6`) | `AbsentBoardFailsClosed`, MCFacts.cfg |
| `facts.c:234` | a nonzero CNTFRQ is taken, and the board's frequency not compared with it | "agreed where two sources speak" (`genesis v2.md:320`), "disagreeing sources halt" (`facts.c:9`) | `BoardFrequencyAgrees`, MCFacts.cfg |
| `signal.c:101` | a frame is read before the count is compared with the region | "No use before ownership" (GENESIS_V2_CLOSURE.md:100) | `ReadsItsRegion`, MCTopology.cfg |

Also noticed, without a run: a spurious acknowledge while a room runs is recorded as
the room's fault (`room.c:221`), while the kernel's own handler ignores one.

## 6. The plan

In this order, because what a room can reach and what stops the boot matter most:

1. *Done:* what a room can reach and when it ends (`PulseEdge`, `Room`, `RoomsRun`), what
   several CPUs share (`Smp`), what is left to read (`Chronicle`), the tables of the
   early boot (`Range`, `Space`, `PageMap`, `Translate`, `Facts`, `Topology`), the blob (`Fdt`) and the
   sequence (`Boot`); the proofs about `Room`, `RoomsRun`, `Range`, `Space`, `Facts`, `Fdt`, `Boot`, `Smp`, `Chronicle`,
   `Topology` and `Translate`.
2. More proofs: the decoder's refinement one token at a time (what `Spec` calls a node is what
   `FdtSpec` has collected at FDT_END_NODE), for which `Facts` needs its nodes as they
   come and not as a constant of the machine; with it `GradesHonest` of `FdtSpec`.
3. S9's stacks and the contexts' save area, when there is code that switches contexts.

## 7. Not modelled, and why

- Console, sink, UART (`console.c`, `sink.c`, `uart/`, the texts of `log.h`, the record codes
  of `chronicle.h`): formatting and polled output. They change no state that another part
  reads; the order in which the dump shows records is in `Chronicle`.
- Stacks and the register save area of a context (`cpu.c`, `context.c`): S9 computes them once,
  and nothing in this tree switches to them.
- The text of a synchronous kernel exception (`exception.c`): it is a halt, whose record
  `Chronicle` has.
- Image layout, linker script, probe scripts, research notes: not part of the
  running kernel.
- Where a module begins with the result of an earlier step, its `Init` is what that step
  leaves: `Init` of `Smp` is what S9 to S11 leave, the initial table of `Room` what S6 leaves,
  the CPU lists of `Topology` what S4 accepts.
- The halt of `run` for a slice of no ticks, or of more than a compare holds (`room.c:259`): `Slice`
  is at least one in `Room`, so a frequency between 1 and 9, which S4 accepts, is outside it.
- Writes to the registers of the interrupt controller and of the MMU that no other
  modelled state depends on.
- Instruction-level memory order on one CPU, caches, and speculative execution.
