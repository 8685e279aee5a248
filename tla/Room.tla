-------------------------------- MODULE Room --------------------------------
(***************************************************************************)
(* The room mechanism of foundation/room/room.c: how the kernel opens one   *)
(* room at a time to EL0, arms its deadline, answers its calls, takes it    *)
(* back, and judges how it left.  The program inside a room is arbitrary:   *)
(* it may do anything EL0 can do, in any order, while the counter advances. *)
(* RoomsRun.tla puts the real script and the real room programs on top.     *)
(*                                                                         *)
(* A handler runs with interrupts masked on the only CPU that touches this  *)
(* state, so each is one action; time passes between any two of them.       *)
(***************************************************************************)
EXTENDS Integers, FiniteSets

CONSTANTS
  ROOM_N,     \* number of rooms (2 in the code); also the grant nobody holds
  Slice,      \* ticks of a slice, timer_freq / 10
  CountMod,   \* the delivered and rejected counters are unsigned: 2^32
  Payloads,   \* values of an eight-byte word, as far as the edge tells them apart
  PAYLOAD,    \* 0x5055
  Blank,      \* zero
  Blobs       \* the first words of the room programs: instructions

ASSUME RoomAssumption ==
  /\ ROOM_N \in Nat /\ ROOM_N >= 2
  /\ Slice \in Nat /\ Slice >= 1
  /\ CountMod \in Nat /\ CountMod >= 1
  /\ PAYLOAD \in Payloads /\ Blank \in Payloads /\ PAYLOAD # Blank
  /\ Blobs \subseteq [dest : {0, 1}, pay : Payloads]

Rooms    == 0 .. ROOM_N - 1
Code(r)  == <<"code", r>>
Data(r)  == <<"data", r>>
Kernel   == <<"kernel", 0>>
Uart     == <<"uart", 0>>
RoomPages == {"code", "data"} \X Rooms
Pages    == RoomPages \cup {Kernel, Uart}

\* The first two words of a page: word 0 is the destination of a message
\* (only "is it 1?" matters), word 1 its payload.
Content == [dest : {0, 1}, pay : Payloads]
Cleared == [dest |-> 0, pay |-> Blank]

Perms == {"unmapped", "RX", "RW", "DEV", "USER_RX", "USER_RW"}
Ops   == {"load", "store", "fetch"}

\* leaf_attr: AP[7:6], UXN (bit 54) and PXN (bit 53) decide who may do what.
El0Rights(perm) ==
  CASE perm = "USER_RX" -> {"load", "fetch"}
    [] perm = "USER_RW" -> {"load", "store"}
    [] OTHER            -> {}
El1Rights(perm) ==
  CASE perm = "RX"      -> {"load", "fetch"}
    [] perm = "USER_RX" -> {"load"}
    [] perm = "unmapped" -> {}
    [] OTHER            -> {"load", "store"}

Modes   == {"boot", "idle", "prepared", "armed", "room", "left", "halted"}
Reasons == {"none", "svc", "irq", "fault", "foreign"}
Halts   == {"none", "grant", "late", "reason", "time", "sync"}

VARIABLES
  mode,       \* where CPU 0 stands between nxu_rooms_run and EL0
  cur,        \* the room last opened
  grant,      \* the room that is owed an entry, ROOM_N for none
  delivered,  \* accepted pulses
  rejected,   \* rejected pulses
  reason,     \* nxu_room_reason: how the last room left
  why,        \* the nxu_fail that stopped the machine
  pt,         \* leaf permission of each page in the translation tables
  tlb,        \* permissions a walk may have cached since the last tlbi
  mem,        \* contents of the pages
  ctl,        \* CNTP_CTL: "on" (enabled, unmasked) or "masked"
  left,       \* CNTP_CVAL - CNTPCT, never below 0
  armed,      \* armed_cval - CNTPCT, never below 0
  el0timer,   \* does CNTKCTL_EL1 let EL0 reach the timer?
  latch,      \* is the timer PPI pending whatever the timer condition is?
  sgi,        \* is the poke pending?
  active      \* the acknowledged interrupt that has not been deactivated

edgeVars  == <<grant, delivered, rejected>>
spaceVars == <<pt, tlb>>
timerVars == <<ctl, left, armed, el0timer>>
gicVars   == <<latch, sgi, active>>
vars == <<mode, cur, reason, why, edgeVars, spaceVars, mem, timerVars, gicVars>>

TypeOK ==
  /\ mode \in Modes
  /\ cur \in Rooms
  /\ grant \in 0 .. ROOM_N
  /\ delivered \in 0 .. CountMod - 1
  /\ rejected \in 0 .. CountMod - 1
  /\ reason \in Reasons
  /\ why \in Halts
  /\ pt \in [Pages -> Perms]
  /\ tlb \in [Pages -> SUBSET Perms]
  /\ mem \in [Pages -> Content]
  /\ ctl \in {"on", "masked"}
  /\ left \in 0 .. Slice
  /\ armed \in 0 .. Slice
  /\ el0timer \in BOOLEAN
  /\ latch \in BOOLEAN
  /\ sgi \in BOOLEAN
  /\ active \in {"none", "sgi", "ppi"}

-----------------------------------------------------------------------------
(* The translation tables.  A change of a leaf leaves the old permission     *)
(* usable until the next tlbi.                                              *)

\* s6 maps the image and the accepted devices; the rest of RAM is unmapped.
BootTable ==
  [p \in Pages |-> CASE p = Kernel -> "RX" [] p = Uart -> "DEV" [] OTHER -> "unmapped"]

\* priv: both pages of the room for the kernel alone.
Priv(table, r) == [table EXCEPT ![Code(r)] = "RW", ![Data(r)] = "RW"]

\* priv for every room.
Closed(table) == [p \in Pages |-> IF p \in RoomPages THEN "RW" ELSE table[p]]

\* user_open: every room closed, then this one's pages opened.
UserOpenWide(table, r) ==
  [p \in Pages |-> IF p = Code(r) THEN "USER_RX"
                   ELSE IF p \in {"data"} \X Rooms THEN "USER_RW" ELSE Closed(table)[p]]
UserOpen(table, r) ==
  [Closed(table) EXCEPT ![Code(r)] = "USER_RX", ![Data(r)] = "USER_RW"]

NoTlb == [p \in Pages |-> {}]

\* What a walk may have cached by the time a table is replaced.
Cached(table, cache) == [p \in Pages |-> cache[p] \cup {table[p]}]

Usable(p) == tlb[p] \cup {pt[p]}
El0May(op, p) == \E perm \in Usable(p) : op \in El0Rights(perm)

-----------------------------------------------------------------------------
Halt(code) == mode' = "halted" /\ why' = code

\* RAM past the image holds anything; so does CNTKCTL after the firmware.
Init ==
  /\ mode = "boot" /\ cur = 0 /\ grant = ROOM_N
  /\ delivered = 0 /\ rejected = 0
  /\ reason = "none" /\ why = "none"
  /\ pt = BootTable /\ tlb = NoTlb
  /\ \E c, d \in Content :
       mem = [p \in Pages |-> IF p \in {"code"} \X Rooms THEN c ELSE d]
  /\ ctl = "masked" /\ left = 0 /\ armed = 0
  /\ el0timer \in BOOLEAN
  /\ latch \in BOOLEAN /\ sgi = FALSE /\ active = "none"

\* CNTKCTL_EL1 = 0: EL0 reaches neither the timer nor its compare.
KeepTimerSkipped == UNCHANGED el0timer
KeepTimer == el0timer' = FALSE

\* The head of nxu_rooms_run: the pages become the kernel's, the data pages are
\* cleared, EL0 loses the timer, check_boundary opens and closes room 0.
Setup ==
  /\ mode = "boot"
  /\ pt' = Closed(pt)
  /\ tlb' = NoTlb
  /\ mem' = [p \in Pages |-> IF p \in {"data"} \X Rooms THEN Cleared ELSE mem[p]]
  /\ KeepTimer
  /\ grant' = ROOM_N
  /\ mode' = "idle"
  /\ UNCHANGED <<cur, reason, why, delivered, rejected, ctl, left, armed, gicVars>>

\* consume: room 0 is the root, any other room needs the outstanding entry.
Admitted(r) == r = 0 \/ grant = r
ConsumeKept(r) == UNCHANGED grant
Consume(r)  == grant' = IF r = 0 THEN grant ELSE ROOM_N

\* May the kernel write the page with every permission still usable?
CopyFaults(r) ==
  \E perm \in tlb[Code(r)] \cup {pt[Code(r)], "RW"} : "store" \notin El1Rights(perm)

\* run, up to the mask of interrupts.
RunRefused(r) ==
  /\ mode = "idle" /\ ~Admitted(r)
  /\ Halt("grant")
  /\ UNCHANGED <<cur, reason, edgeVars, spaceVars, mem, timerVars, gicVars>>

Run(r, blob) ==
  /\ mode = "idle" /\ Admitted(r)
  /\ Consume(r)
  /\ IF CopyFaults(r)
     THEN Halt("sync") /\ UNCHANGED <<cur, spaceVars, mem>>
     ELSE /\ mem' = [mem EXCEPT ![Code(r)] = blob]
          /\ cur' = r
          /\ pt' = UserOpen(Priv(pt, r), r)
          /\ tlb' = NoTlb
          /\ mode' = "prepared"
          /\ UNCHANGED why
  /\ UNCHANGED <<reason, delivered, rejected, timerVars, gicVars>>

\* nxu_gicr_clear_pending: drop what an earlier deadline may have left behind.
ClearPendingSkipped == UNCHANGED latch
ClearPending == latch' = FALSE

\* run, the deadline: compare, enable, drop a stale pending bit, then the poke.
Arm(poke) ==
  /\ mode = "prepared"
  /\ left' = Slice
  /\ ctl' = "on"
  /\ ClearPending
  /\ sgi' = (sgi \/ poke)
  /\ mode' = "armed"
  /\ UNCHANGED <<cur, reason, why, edgeVars, spaceVars, mem, armed, el0timer, active>>

\* run, the last check before EL0: the compare must still lie ahead.
EnterLate ==
  /\ mode = "armed" /\ left = 0
  /\ Halt("late")
  /\ UNCHANGED <<cur, reason, edgeVars, spaceVars, mem, timerVars, gicVars>>

Enter ==
  /\ mode = "armed" /\ left > 0
  /\ armed' = left
  /\ mode' = "room"
  /\ UNCHANGED <<cur, reason, why, edgeVars, spaceVars, mem, ctl, left, el0timer, gicVars>>

\* The counter advances whoever runs.
Tick ==
  /\ left > 0 \/ armed > 0
  /\ left'  = IF left > 0 THEN left - 1 ELSE 0
  /\ armed' = IF armed > 0 THEN armed - 1 ELSE 0
  /\ UNCHANGED <<mode, cur, reason, why, edgeVars, spaceVars, mem, ctl, el0timer, gicVars>>

-----------------------------------------------------------------------------
(* EL0.  A load or a fetch that succeeds changes nothing here; a denied      *)
(* access is one of the ways to fault.                                      *)

El0Store(p, c) ==
  /\ mode = "room" /\ El0May("store", p)
  /\ mem' = [mem EXCEPT ![p] = c]
  /\ UNCHANGED <<mode, cur, reason, why, edgeVars, spaceVars, timerVars, gicVars>>

\* seal and the return to the kernel.  A timer line that is high at that moment
\* may stay pending in the redistributor after the timer is masked.
LineHigh == ctl = "on" /\ left = 0
SealStale ==
  /\ pt' = Priv(pt, cur)
  /\ tlb' = Cached(pt, tlb)
  /\ ctl' = "masked"
Seal ==
  /\ pt' = Priv(pt, cur)
  /\ tlb' = NoTlb
  /\ ctl' = "masked"
LeaveRoom(why_left) ==
  /\ mode = "room"
  /\ reason' = why_left
  /\ Seal
  /\ mode' = "left"
  /\ UNCHANGED <<cur, why, edgeVars, mem, left, armed, el0timer>>

\* nxu_room_exception: svc #0 leaves, svc #1 is a pulse, all else is a fault.
Svc0 ==
  /\ LeaveRoom("svc")
  /\ latch' \in (IF LineHigh THEN BOOLEAN ELSE {latch})
  /\ UNCHANGED <<sgi, active>>

Fault ==
  /\ LeaveRoom("fault")
  /\ latch' \in (IF LineHigh THEN BOOLEAN ELSE {latch})
  /\ UNCHANGED <<sgi, active>>

\* msr cntp_tval_el0 traps unless CNTKCTL_EL1 lets it through.
El0Timer(ticks) ==
  IF el0timer
  THEN /\ mode = "room"
       /\ left' = ticks
       /\ UNCHANGED <<mode, cur, reason, why, edgeVars, spaceVars, mem, ctl, armed,
                      el0timer, gicVars>>
  ELSE Fault

\* Where x0 of a pulse points: at the message in the sender's data page, at the
\* last word of that page, or elsewhere.
Places == {"page", "tail", "outside"}

\* inside looks at the first byte only.
Inside(place) == place # "outside"

\* The two words at x0.  At the tail the second one is in the next page,
\* which is room 1's code page (room.c:412-415).
Message(place) ==
  IF place = "tail" THEN [dest : {0, 1}, pay : {mem[Code(1)].pay}]
                    ELSE {mem[Data(0)]}

\* The one message that passes the edge.
AcceptedUnchecked(m) == m.dest = 1
Accepted(m) == m.dest = 1 /\ m.pay = PAYLOAD

\* delivered++ and rejected++ on a u32.
BumpWide(count) == count + 1
Bump(count) == (count + 1) % CountMod

PulseRejected(place) ==
  /\ mode = "room"
  /\ \/ cur # 0
     \/ ~Inside(place)
     \/ \E m \in Message(place) : ~Accepted(m)
  /\ rejected' = Bump(rejected)
  /\ UNCHANGED <<mode, cur, reason, why, grant, delivered, spaceVars, mem, timerVars, gicVars>>

PulseDelivered(place) ==
  /\ mode = "room" /\ cur = 0 /\ Inside(place)
  /\ \E m \in Message(place) :
       /\ Accepted(m)
       /\ mem' = [mem EXCEPT ![Data(1)].pay = m.pay]
  /\ delivered' = Bump(delivered)
  /\ grant' = 1
  /\ UNCHANGED <<mode, cur, reason, why, rejected, spaceVars, timerVars, gicVars>>

-----------------------------------------------------------------------------
(* nxu_room_irq.  Both interrupts have the same priority, so an interrupt    *)
(* that stays active blocks every later one.                                *)
CanTake == active = "none"

\* nxu_gic_eoi ends what the acknowledge read began.
EoiSkipped == active' \in {"sgi", "ppi"}
Eoi == active' = "none"

\* Any interrupt that is not the timer: the room ends, the interrupt is over.
IrqForeign ==
  /\ CanTake /\ sgi
  /\ LeaveRoom("foreign")
  /\ latch' \in (IF LineHigh THEN BOOLEAN ELSE {latch})
  /\ sgi' = FALSE
  /\ Eoi

\* The deadline.  The line may drop late and be seen again.
IrqTimer ==
  /\ CanTake /\ (latch \/ LineHigh)
  /\ LeaveRoom("irq")
  /\ latch' \in (IF LineHigh THEN BOOLEAN ELSE {FALSE})
  /\ Eoi
  /\ UNCHANGED sgi

\* The acknowledge read finds nothing (INTID 1020 and above): recorded as a fault,
\* and not deactivated.
IrqSpurious ==
  /\ CanTake
  /\ LeaveRoom("fault")
  /\ latch' \in (IF LineHigh THEN BOOLEAN ELSE {latch})
  /\ UNCHANGED <<sgi, active>>

-----------------------------------------------------------------------------
(* expect and check_time, as the caller of run applies them.                 *)
Hit(want) == want = "irq"
TimeWrong(want) == IF Hit(want) THEN armed > 0 ELSE armed = 0

JudgeBad(want) ==
  /\ mode = "left"
  /\ reason # want \/ TimeWrong(want)
  /\ Halt(IF reason # want THEN "reason" ELSE "time")
  /\ UNCHANGED <<cur, reason, edgeVars, spaceVars, mem, timerVars, gicVars>>

JudgeGood(want) ==
  /\ mode = "left"
  /\ reason = want /\ ~TimeWrong(want)
  /\ mode' = "idle"
  /\ UNCHANGED <<cur, reason, why, edgeVars, spaceVars, mem, timerVars, gicVars>>

\* nxu_halt: interrupts masked, wfi for ever.
Halted == mode = "halted" /\ UNCHANGED vars

-----------------------------------------------------------------------------
Wants == Reasons \ {"none"}

KernelStep ==
  \/ \E poke \in BOOLEAN : Arm(poke)
  \/ EnterLate
  \/ Enter
  \/ \E want \in Wants : JudgeBad(want) \/ JudgeGood(want)

Interrupt == IrqForeign \/ IrqTimer

Next ==
  \/ Setup
  \/ \E r \in Rooms : RunRefused(r)
  \/ \E r \in Rooms, blob \in Blobs : Run(r, blob)
  \/ KernelStep
  \/ Tick
  \/ \E p \in Pages, c \in Content : El0Store(p, c)
  \/ \E ticks \in 0 .. Slice : El0Timer(ticks)
  \/ Svc0
  \/ Fault
  \/ \E place \in Places : PulseRejected(place) \/ PulseDelivered(place)
  \/ Interrupt
  \/ IrqSpurious
  \/ Halted

Spec == Init /\ [][Next]_vars

\* The counter never stops, the kernel does not wait for anything between run and
\* EL0 nor before it judges, and an unmasked pending interrupt is taken.
Fairness == WF_vars(Tick) /\ WF_vars(KernelStep) /\ WF_vars(Interrupt)

FairSpec == Spec /\ Fairness

-----------------------------------------------------------------------------
(* Safety.                                                                   *)

\* Spatial isolation (room.h:6-9): with every permission a stale translation could
\* still supply, EL0 reaches only the pages of the room that runs, in the
\* way they are meant, and nothing while no room is open.
UserWindow ==
  /\ mode = "room" =>
       \A p \in Pages : \A op \in Ops : El0May(op, p) <=>
          \/ p = Code(cur) /\ op \in {"load", "fetch"}
          \/ p = Data(cur) /\ op \in {"load", "store"}
  /\ mode \in {"boot", "idle", "left"} =>
       \A p \in Pages : \A op \in Ops : ~El0May(op, p)

\* No leftover of an earlier room makes the kernel's own copy of the next program
\* fault: the machine never stops on a synchronous exception of its own.
KernelNeverFaults == why # "sync"

\* The deadline of a running room belongs to the kernel and can still interrupt it
\* (room.c:226-228, 422-428): the timer is on, no interrupt is left active, nothing
\* stale is pending, and the compare is the one the kernel recorded.
DeadlineLive ==
  mode = "room" => ctl = "on" /\ active = "none" /\ ~latch /\ ~el0timer /\ left = armed

\* A room that left by the timer had its whole slice, whatever earlier rooms
\* left pending: check_time(1) never stops the machine.
PreemptedAtDeadline == mode = "left" /\ reason = "irq" => armed = 0

\* While an entry is owed, and until the owed entry begins, the slot holds the
\* message that owed it.
OwedSlot ==
  grant = 1 \/ (mode \in {"prepared", "armed"} /\ cur = 1)
     => mem[Data(1)].pay = PAYLOAD

-----------------------------------------------------------------------------
(* What a step may never do.                                                 *)

\* A page changes only by the room that owns it while that room runs, by an
\* accepted pulse of room 0 that owes the entry, by the copy of a room's program
\* before it is opened, or when the kernel clears the data pages at the start.
ByOwner(p) == mode = "room" /\ p = Data(cur)
ByPulse(p) ==
  /\ mode = "room" /\ cur = 0 /\ p = Data(1) /\ grant' = 1
  /\ mem'[p] = [mem[p] EXCEPT !.pay = PAYLOAD]
ByKernel(p) ==
  \/ mode = "boot" /\ p \in {"data"} \X Rooms
  \/ mode = "idle" /\ p \in {"code"} \X Rooms
MemoryOwned ==
  [][\A p \in Pages : mem'[p] # mem[p] => ByOwner(p) \/ ByPulse(p) \/ ByKernel(p)]_vars

-----------------------------------------------------------------------------
(* The edge: PulseEdge.tla, as this module implements it.                    *)
Admission == IF mode \in {"prepared", "armed", "room"} THEN cur ELSE -1
Edge == INSTANCE PulseEdge WITH
          active <- Admission,
          owed   <- (grant = 1),
          slot   <- (IF mode = "boot" THEN Blank ELSE mem[Data(1)].pay)

\* Room 1 is entered only when owed, one entry for any number of pulses, and only
\* an accepted pulse or room 1 writes the slot.
EdgeSpec == Edge!Spec

-----------------------------------------------------------------------------
(* Liveness.                                                                 *)

\* An entry the kernel began comes back to the kernel with a verdict, or stops
\* it; also when the room never leaves by itself: the slice runs out and the
\* timer interrupt is taken (room.c:240-321).
EntryResolves == (mode = "prepared") ~> (mode \in {"idle", "halted"})
=============================================================================
