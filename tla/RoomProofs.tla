----------------------------- MODULE RoomProofs -----------------------------
(***************************************************************************)
(* Proofs about Room.tla for any number of rooms, any slice, any payloads,  *)
(* and, after them, about the script of RoomsRun.tla, which implements it.  *)
(***************************************************************************)
EXTENDS RoomsRun, SequenceTheorems, TLAPS

\* Every table the kernel builds maps pages to permissions.
LEMMA TablesType ==
  ASSUME NEW t \in [Pages -> Perms], NEW r \in Rooms
  PROVE  /\ BootTable \in [Pages -> Perms]
         /\ Priv(t, r) \in [Pages -> Perms]
         /\ Closed(t) \in [Pages -> Perms]
         /\ UserOpen(t, r) \in [Pages -> Perms]
         /\ NoTlb \in [Pages -> SUBSET Perms]
  BY DEF BootTable, Priv, Closed, UserOpen, NoTlb, Perms

\* Every step keeps the types.
LEMMA TypeNext == TypeOK /\ [Next]_vars => TypeOK'
<1> USE RoomAssumption DEF RoomAssumption, Rooms
<1> SUFFICES ASSUME TypeOK, [Next]_vars PROVE TypeOK'
  OBVIOUS
<1> USE DEF TypeOK, edgeVars, spaceVars, timerVars, gicVars
<1>1. CASE Setup
  <2>1. pt' \in [Pages -> Perms] /\ tlb' \in [Pages -> SUBSET Perms]
    BY <1>1, TablesType DEF Setup
  <2>2. mem' \in [Pages -> Content]
    BY <1>1 DEF Setup, Cleared, Content
  <2>3. el0timer' \in BOOLEAN
    BY <1>1, Zenon DEF Setup, KeepTimer
  <2> QED
    BY <1>1, <2>1, <2>2, <2>3 DEF Setup, Modes
<1>2. ASSUME NEW r \in Rooms, RunRefused(r) PROVE TypeOK'
  BY <1>2 DEF RunRefused, Halt, Modes, Halts
<1>3. ASSUME NEW r \in Rooms, NEW blob \in Blobs, Run(r, blob) PROVE TypeOK'
  <2>1. pt' \in [Pages -> Perms] /\ tlb' \in [Pages -> SUBSET Perms]
    <3>1. UserOpen(Priv(pt, r), r) \in [Pages -> Perms] /\ NoTlb \in [Pages -> SUBSET Perms]
      BY TablesType
    <3> QED
      BY <1>3, <3>1, Zenon DEF Run
  <2>2. mem' \in [Pages -> Content]
    BY <1>3 DEF Run, Content
  <2>3. grant' \in 0 .. ROOM_N
    BY <1>3 DEF Run, Consume
  <2> QED
    BY <1>3, <2>1, <2>2, <2>3 DEF Run, Halt, Modes, Halts
<1>4. ASSUME NEW poke \in BOOLEAN, Arm(poke) PROVE TypeOK'
  <2>1. latch' \in BOOLEAN /\ sgi' \in BOOLEAN
    BY <1>4, Zenon DEF Arm, ClearPending
  <2> QED
    BY <1>4, <2>1 DEF Arm, Modes
<1>5. CASE EnterLate
  BY <1>5 DEF EnterLate, Halt, Modes, Halts
<1>6. CASE Enter
  BY <1>6 DEF Enter, Modes
<1>7. ASSUME NEW want \in Wants, JudgeBad(want) PROVE TypeOK'
  BY <1>7 DEF JudgeBad, Halt, Modes, Halts
<1>8. ASSUME NEW want \in Wants, JudgeGood(want) PROVE TypeOK'
  BY <1>8 DEF JudgeGood, Modes
<1>9. CASE Tick
  BY <1>9 DEF Tick
<1>10. ASSUME NEW p \in Pages, NEW c \in Content, El0Store(p, c) PROVE TypeOK'
  BY <1>10 DEF El0Store
<1>11. ASSUME NEW why_left \in Reasons, LeaveRoom(why_left),
              latch' \in BOOLEAN, sgi' \in BOOLEAN, active' \in {"none", "sgi", "ppi"}
       PROVE  TypeOK'
  <2>1. pt' \in [Pages -> Perms] /\ tlb' \in [Pages -> SUBSET Perms]
    BY <1>11, TablesType DEF LeaveRoom, Seal
  <2> QED
    BY <1>11, <2>1 DEF LeaveRoom, Seal, Modes
<1>12. CASE Svc0
  BY <1>11, <1>12 DEF Svc0, Reasons
<1>13. CASE Fault
  BY <1>11, <1>13 DEF Fault, Reasons
<1>14. ASSUME NEW ticks \in 0 .. Slice, El0Timer(ticks) PROVE TypeOK'
  BY <1>13, <1>14 DEF El0Timer
<1>15. ASSUME NEW place \in Places, PulseRejected(place) PROVE TypeOK'
  BY <1>15 DEF PulseRejected, Bump
<1>16. ASSUME NEW place \in Places, PulseDelivered(place) PROVE TypeOK'
  <2>1. mem' \in [Pages -> Content]
    <3>1. mem' = [mem EXCEPT ![Data(1)].pay = PAYLOAD]
      BY <1>16, Zenon DEF PulseDelivered, Accepted
    <3>2. mem[Data(1)] \in Content => [mem[Data(1)] EXCEPT !.pay = PAYLOAD] \in Content
      BY DEF Content
    <3> QED
      BY <3>1, <3>2
  <2> QED
    BY <1>16, <2>1 DEF PulseDelivered, Bump
<1>17. CASE IrqForeign
  BY <1>11, <1>17 DEF IrqForeign, Eoi, Reasons
<1>18. CASE IrqTimer
  BY <1>11, <1>18 DEF IrqTimer, Eoi, Reasons
<1>19. CASE IrqSpurious
  BY <1>11, <1>19 DEF IrqSpurious, Reasons
<1>20. CASE Halted \/ UNCHANGED vars
  BY <1>20 DEF Halted, vars
<1> QED
  BY <1>1, <1>2, <1>3, <1>4, <1>5, <1>6, <1>7, <1>8, <1>9, <1>10, <1>12, <1>13,
     <1>14, <1>15, <1>16, <1>17, <1>18, <1>19, <1>20 DEF Next, KernelStep, Interrupt

\* The machine is switched on with its variables in their types.
LEMMA TypeInit == Init => TypeOK
<1> USE RoomAssumption DEF RoomAssumption, Rooms
<1> SUFFICES ASSUME Init PROVE TypeOK
  OBVIOUS
<1>1. pt \in [Pages -> Perms] /\ tlb \in [Pages -> SUBSET Perms]
  BY TablesType DEF Init, BootTable, NoTlb, Perms
<1>2. mem \in [Pages -> Content]
  BY DEF Init
<1>3. el0timer \in BOOLEAN /\ latch \in BOOLEAN /\ sgi \in BOOLEAN
  BY Zenon DEF Init
<1> QED
  BY <1>1, <1>2, <1>3 DEF Init, TypeOK, Modes, Reasons, Halts

\* The variables stay in their types; in particular the machine never leaves its
\* modes and the counters wrap.
THEOREM TypeCorrect == Spec => []TypeOK
  BY TypeInit, TypeNext, PTL DEF Spec

-----------------------------------------------------------------------------
(***************************************************************************)
(* Spatial isolation.  UserWindow alone is not inductive: it speaks of what *)
(* is reachable, while the handlers rewrite whole tables.  TableInv gives   *)
(* the table of every mode, and that nothing is ever left in the TLB.       *)
(***************************************************************************)
KernelTable == Closed(BootTable)

TableInv ==
  /\ tlb = NoTlb
  /\ mode = "boot" => pt = BootTable
  /\ mode \in {"idle", "left"} => pt = KernelTable
  /\ mode \in {"prepared", "armed", "room"} => pt = UserOpen(KernelTable, cur)
  /\ why # "sync"

\* Opening after priv, and closing after opening, both end in a known table.
LEMMA Tables ==
  ASSUME NEW r \in Rooms
  PROVE  /\ UserOpen(Priv(KernelTable, r), r) = UserOpen(KernelTable, r)
         /\ Priv(UserOpen(KernelTable, r), r) = KernelTable
<1>1. Code(r) \in RoomPages /\ Data(r) \in RoomPages /\ Code(r) # Data(r)
  BY DEF Code, Data, RoomPages
<1>2. \A p \in RoomPages : KernelTable[p] = "RW" /\ p \in Pages
  BY DEF KernelTable, Closed, Pages
<1>3. UserOpen(Priv(KernelTable, r), r) = UserOpen(KernelTable, r)
  BY <1>1, <1>2 DEF UserOpen, Priv, Closed, KernelTable, Pages
<1>4. Priv(UserOpen(KernelTable, r), r) = KernelTable
  BY <1>1, <1>2 DEF UserOpen, Priv, Closed, KernelTable, Pages
<1> QED
  BY <1>3, <1>4

\* The kernel can write the next room's code page while every room is closed.
LEMMA CopySucceeds ==
  ASSUME NEW r \in Rooms, tlb = NoTlb, pt = KernelTable
  PROVE  ~CopyFaults(r)
<1>1. Code(r) \in RoomPages /\ Code(r) \in Pages
  BY DEF Code, RoomPages, Pages
<1>2. tlb[Code(r)] \cup {pt[Code(r)], "RW"} = {"RW"}
  BY <1>1 DEF NoTlb, KernelTable, Closed
<1> QED
  BY <1>2 DEF CopyFaults, El1Rights

\* Every step keeps the tables as the mode wants them, and the translations fresh.
LEMMA TableInvInductive == TypeOK /\ TableInv /\ [Next]_vars => TableInv'
<1> SUFFICES ASSUME TypeOK, TableInv, [Next]_vars PROVE TableInv'
  OBVIOUS
<1> USE DEF TableInv
<1>0. cur \in Rooms
  BY DEF TypeOK
<1>1. CASE Setup
  BY <1>1 DEF Setup, KernelTable
<1>2. ASSUME NEW r \in Rooms, RunRefused(r) PROVE TableInv'
  BY <1>2 DEF RunRefused, Halt, spaceVars
<1>3. ASSUME NEW r \in Rooms, NEW blob \in Blobs, Run(r, blob) PROVE TableInv'
  <2>1. ~CopyFaults(r)
    BY <1>3, CopySucceeds DEF Run
  <2> QED
    BY <1>3, <2>1, Tables DEF Run
<1>4. ASSUME NEW poke \in BOOLEAN, Arm(poke) PROVE TableInv'
  BY <1>4 DEF Arm, spaceVars
<1>5. CASE EnterLate
  BY <1>5 DEF EnterLate, Halt, spaceVars
<1>6. CASE Enter
  BY <1>6 DEF Enter, spaceVars
<1>7. ASSUME NEW want \in Wants, JudgeBad(want) PROVE TableInv'
  BY <1>7 DEF JudgeBad, Halt, spaceVars
<1>8. ASSUME NEW want \in Wants, JudgeGood(want) PROVE TableInv'
  BY <1>8 DEF JudgeGood, spaceVars
<1>9. CASE Tick
  BY <1>9 DEF Tick, spaceVars
<1>10. ASSUME NEW p \in Pages, NEW c \in Content, El0Store(p, c) PROVE TableInv'
  BY <1>10 DEF El0Store, spaceVars
<1>11. ASSUME NEW why_left, LeaveRoom(why_left) PROVE TableInv'
  BY <1>0, <1>11, Tables DEF LeaveRoom, Seal
<1>12. CASE Svc0 \/ Fault \/ IrqForeign \/ IrqTimer \/ IrqSpurious
  BY <1>11, <1>12 DEF Svc0, Fault, IrqForeign, IrqTimer, IrqSpurious
<1>13. ASSUME NEW ticks \in 0 .. Slice, El0Timer(ticks) PROVE TableInv'
  BY <1>12, <1>13 DEF El0Timer, spaceVars
<1>14. ASSUME NEW place \in Places, PulseRejected(place) \/ PulseDelivered(place)
       PROVE  TableInv'
  BY <1>14 DEF PulseRejected, PulseDelivered, spaceVars
<1>15. CASE Halted \/ UNCHANGED vars
  BY <1>15 DEF Halted, vars, spaceVars
<1> QED
  BY <1>1, <1>2, <1>3, <1>4, <1>5, <1>6, <1>7, <1>8, <1>9, <1>10, <1>12, <1>13,
     <1>14, <1>15 DEF Next, KernelStep, Interrupt

\* The table invariant holds in every reachable state.
LEMMA TableInvAlways == Spec => []TableInv
<1>1. Init => TableInv
  BY DEF Init, TableInv
<1> QED
  BY <1>1, TableInvInductive, TypeCorrect, PTL DEF Spec

\* Of the six permissions only the two of an open room give EL0 anything.
LEMMA RightsOfTable ==
  ASSUME NEW r \in Rooms, NEW p \in Pages, NEW op \in Ops
  PROVE  /\ op \notin El0Rights(BootTable[p])
         /\ op \notin El0Rights(KernelTable[p])
         /\ op \in El0Rights(UserOpen(KernelTable, r)[p]) <=>
               \/ p = Code(r) /\ op \in {"load", "fetch"}
               \/ p = Data(r) /\ op \in {"load", "store"}
<1>1. BootTable[p] \in {"RX", "DEV", "unmapped"}
  BY DEF BootTable
<1>2. KernelTable[p] \in {"RX", "DEV", "unmapped", "RW"}
  BY <1>1 DEF KernelTable, Closed
<1>3. Code(r) # Data(r)
  BY DEF Code, Data
<1>4. UserOpen(KernelTable, r)[p] =
        IF p = Code(r) THEN "USER_RX" ELSE IF p = Data(r) THEN "USER_RW"
                                      ELSE KernelTable[p]
  BY <1>3 DEF UserOpen, Closed, KernelTable
<1> QED
  BY <1>1, <1>2, <1>3, <1>4 DEF El0Rights

\* With the tables as the mode wants them, EL0 sees its own pages and the kernel's
\* copy does not fault.
LEMMA WindowFromTable == TypeOK /\ TableInv => UserWindow /\ KernelNeverFaults
<1> SUFFICES ASSUME TypeOK, TableInv PROVE UserWindow /\ KernelNeverFaults
  OBVIOUS
<1>0. cur \in Rooms
  BY DEF TypeOK
<1>1. ASSUME NEW p \in Pages, NEW op \in Ops
      PROVE  El0May(op, p) <=> op \in El0Rights(pt[p])
  BY <1>1 DEF El0May, Usable, TableInv, NoTlb
<1> QED
  BY <1>0, <1>1, RightsOfTable DEF UserWindow, KernelNeverFaults, TableInv

\* EL0 reaches the pages of the running room and nothing else, ever.
THEOREM SpatialIsolation == Spec => []UserWindow
  BY TypeCorrect, TableInvAlways, WindowFromTable, PTL

\* What a room leaves behind never makes the kernel fault on its own copy.
THEOREM NoKernelFault == Spec => []KernelNeverFaults
  BY TypeCorrect, TableInvAlways, WindowFromTable, PTL

-----------------------------------------------------------------------------
(***************************************************************************)
(* The deadline.  PreemptedAtDeadline needs to know that nothing stale is   *)
(* pending in a running room, which Arm establishes and only the timer      *)
(* could undo, and that the recorded compare runs down with the real one.   *)
(***************************************************************************)
DeadlineInv ==
  /\ active = "none"
  /\ mode # "boot" => el0timer = FALSE
  /\ mode \in {"armed", "room"} => ctl = "on" /\ latch = FALSE
  /\ mode = "room" => left = armed
  /\ mode = "left" /\ reason = "irq" => armed = 0

\* Every step keeps the timer and the interrupt controller as the mode wants them.
LEMMA DeadlineInvInductive == TypeOK /\ DeadlineInv /\ [Next]_vars => DeadlineInv'
<1> SUFFICES ASSUME TypeOK, DeadlineInv, [Next]_vars PROVE DeadlineInv'
  OBVIOUS
<1> USE DEF DeadlineInv, timerVars, gicVars
<1>0. left \in Nat /\ armed \in Nat
  BY RoomAssumption DEF TypeOK, RoomAssumption
<1>1. CASE Setup
  BY <1>1 DEF Setup, KeepTimer
<1>2. ASSUME NEW r \in Rooms, RunRefused(r) PROVE DeadlineInv'
  BY <1>2 DEF RunRefused, Halt
<1>3. ASSUME NEW r \in Rooms, NEW blob \in Blobs, Run(r, blob) PROVE DeadlineInv'
  BY <1>3 DEF Run, Halt
<1>4. ASSUME NEW poke \in BOOLEAN, Arm(poke) PROVE DeadlineInv'
  BY <1>4 DEF Arm, ClearPending
<1>5. CASE EnterLate
  BY <1>5 DEF EnterLate, Halt
<1>6. CASE Enter
  BY <1>6 DEF Enter
<1>7. ASSUME NEW want \in Wants, JudgeBad(want) PROVE DeadlineInv'
  BY <1>7 DEF JudgeBad, Halt
<1>8. ASSUME NEW want \in Wants, JudgeGood(want) PROVE DeadlineInv'
  BY <1>8 DEF JudgeGood
<1>9. CASE Tick
  BY <1>0, <1>9 DEF Tick
<1>10. ASSUME NEW p \in Pages, NEW c \in Content, El0Store(p, c) PROVE DeadlineInv'
  BY <1>10 DEF El0Store
<1>11. CASE Svc0 \/ Fault \/ IrqForeign \/ IrqSpurious
  BY <1>11 DEF Svc0, Fault, IrqForeign, IrqSpurious, LeaveRoom, Eoi
<1>12. CASE IrqTimer
  <2>1. LineHigh
    BY <1>12 DEF IrqTimer, LeaveRoom
  <2>2. armed = 0
    BY <1>12, <2>1 DEF IrqTimer, LeaveRoom, LineHigh
  <2> QED
    BY <1>12, <2>2 DEF IrqTimer, LeaveRoom, Eoi
<1>13. ASSUME NEW ticks \in 0 .. Slice, El0Timer(ticks) PROVE DeadlineInv'
  BY <1>11, <1>13 DEF El0Timer
<1>14. ASSUME NEW place \in Places, PulseRejected(place) \/ PulseDelivered(place)
       PROVE  DeadlineInv'
  BY <1>14 DEF PulseRejected, PulseDelivered
<1>15. CASE Halted \/ UNCHANGED vars
  BY <1>15 DEF Halted, vars
<1> QED
  BY <1>1, <1>2, <1>3, <1>4, <1>5, <1>6, <1>7, <1>8, <1>9, <1>10, <1>11, <1>12,
     <1>13, <1>14, <1>15 DEF Next, KernelStep, Interrupt

\* The deadline invariant holds in every reachable state.
LEMMA DeadlineInvAlways == Spec => []DeadlineInv
<1>1. Init => DeadlineInv
  BY DEF Init, DeadlineInv
<1> QED
  BY <1>1, DeadlineInvInductive, TypeCorrect, PTL DEF Spec

\* The deadline of a running room is the kernel's and can interrupt it.
THEOREM DeadlineAlwaysLive == Spec => []DeadlineLive
<1>1. DeadlineInv => DeadlineLive
  BY DEF DeadlineInv, DeadlineLive
<1> QED
  BY <1>1, DeadlineInvAlways, PTL

\* A timer exit happens at the deadline, never before it.
THEOREM NoEarlyPreemption == Spec => []PreemptedAtDeadline
<1>1. DeadlineInv => PreemptedAtDeadline
  BY DEF DeadlineInv, PreemptedAtDeadline
<1> QED
  BY <1>1, DeadlineInvAlways, PTL

-----------------------------------------------------------------------------
(***************************************************************************)
(* The edge.  OwedSlot is not inductive: room 1 may write its slot, so the  *)
(* proof needs that no entry is owed from the moment room 1 is admitted,    *)
(* and that only rooms 0 and 1 are ever admitted.                           *)
(***************************************************************************)
EdgeInv ==
  /\ grant \in {1, ROOM_N}
  /\ cur \in {0, 1}
  /\ mode = "boot" => grant = ROOM_N
  /\ mode \in {"prepared", "armed", "room"} /\ cur = 1 => grant = ROOM_N
  /\ OwedSlot

\* In a running room a store lands in that room's data page.
LEMMA StoreInOwnPage ==
  ASSUME UserWindow, NEW p \in Pages, NEW c \in Content, El0Store(p, c)
  PROVE  p = Data(cur)
  BY DEF UserWindow, El0Store, Ops

\* Every step keeps the grant within room 1 and the slot of an owed entry intact.
LEMMA EdgeInvInductive ==
  TypeOK /\ UserWindow /\ EdgeInv /\ [Next]_vars => EdgeInv'
<1> SUFFICES ASSUME TypeOK, UserWindow, EdgeInv, [Next]_vars PROVE EdgeInv'
  OBVIOUS
<1> USE RoomAssumption DEF RoomAssumption, EdgeInv, OwedSlot, edgeVars
<1>0. /\ mem \in [Pages -> Content] /\ Data(1) \in Pages
      /\ \A r \in Rooms : Code(r) # Data(1)
  BY DEF TypeOK, Data, Code, Pages, RoomPages, Rooms
<1>1. CASE Setup
  BY <1>1 DEF Setup
<1>2. ASSUME NEW r \in Rooms, RunRefused(r) PROVE EdgeInv'
  BY <1>2 DEF RunRefused, Halt
<1>3. ASSUME NEW r \in Rooms, NEW blob \in Blobs, Run(r, blob) PROVE EdgeInv'
  <2>1. r \in {0, 1}
    BY <1>3 DEF Run, Admitted, Rooms
  <2>2. mem'[Data(1)] = mem[Data(1)]
    BY <1>0, <1>3 DEF Run
  <2> QED
    BY <1>3, <2>1, <2>2 DEF Run, Admitted, Consume, Halt
<1>4. ASSUME NEW poke \in BOOLEAN, Arm(poke) PROVE EdgeInv'
  BY <1>4 DEF Arm
<1>5. CASE EnterLate
  BY <1>5 DEF EnterLate, Halt
<1>6. CASE Enter
  BY <1>6 DEF Enter
<1>7. ASSUME NEW want \in Wants, JudgeBad(want) PROVE EdgeInv'
  BY <1>7 DEF JudgeBad, Halt
<1>8. ASSUME NEW want \in Wants, JudgeGood(want) PROVE EdgeInv'
  BY <1>8 DEF JudgeGood
<1>9. CASE Tick
  BY <1>9 DEF Tick
<1>10. ASSUME NEW p \in Pages, NEW c \in Content, El0Store(p, c) PROVE EdgeInv'
  <2>1. p = Data(cur) /\ mode = "room"
    BY <1>10, StoreInOwnPage DEF El0Store
  <2>2. cur = 0 => mem'[Data(1)] = mem[Data(1)]
    BY <1>0, <1>10, <2>1 DEF El0Store, Data
  <2> QED
    BY <1>10, <2>1, <2>2 DEF El0Store
<1>11. CASE Svc0 \/ Fault \/ IrqForeign \/ IrqTimer \/ IrqSpurious
  BY <1>11 DEF Svc0, Fault, IrqForeign, IrqTimer, IrqSpurious, LeaveRoom
<1>12. ASSUME NEW ticks \in 0 .. Slice, El0Timer(ticks) PROVE EdgeInv'
  BY <1>11, <1>12 DEF El0Timer
<1>13. ASSUME NEW place \in Places, PulseRejected(place) PROVE EdgeInv'
  BY <1>13 DEF PulseRejected
<1>14. ASSUME NEW place \in Places, PulseDelivered(place) PROVE EdgeInv'
  <2>1. mem' = [mem EXCEPT ![Data(1)].pay = PAYLOAD]
    BY <1>14, Zenon DEF PulseDelivered, Accepted
  <2>2. mem'[Data(1)].pay = PAYLOAD
    BY <1>0, <2>1 DEF Content
  <2> QED
    BY <1>14, <2>2 DEF PulseDelivered
<1>15. CASE Halted \/ UNCHANGED vars
  BY <1>15 DEF Halted, vars
<1> QED
  BY <1>1, <1>2, <1>3, <1>4, <1>5, <1>6, <1>7, <1>8, <1>9, <1>10, <1>11, <1>12,
     <1>13, <1>14, <1>15 DEF Next, KernelStep, Interrupt

\* The edge invariant holds in every reachable state.
LEMMA EdgeInvAlways == Spec => []EdgeInv
<1>1. Init => EdgeInv
  BY RoomAssumption DEF RoomAssumption, Init, EdgeInv, OwedSlot
<1> QED
  BY <1>1, EdgeInvInductive, SpatialIsolation, TypeCorrect, PTL DEF Spec

\* An owed entry finds the message that owed it.
THEOREM OwedSlotKept == Spec => []OwedSlot
<1>1. EdgeInv => OwedSlot
  BY DEF EdgeInv
<1> QED
  BY <1>1, EdgeInvAlways, PTL

-----------------------------------------------------------------------------
(***************************************************************************)
(* Memory is owned: every step of every reachable state changes a page only *)
(* on behalf of its owner.                                                  *)
(***************************************************************************)
\* A single step changes a page only on behalf of the page's owner.
LEMMA StepOwned ==
  TypeOK /\ UserWindow /\ EdgeInv /\ [Next]_vars =>
    \A p \in Pages : mem'[p] # mem[p] => ByOwner(p) \/ ByPulse(p) \/ ByKernel(p)
<1> SUFFICES ASSUME TypeOK, UserWindow, EdgeInv, [Next]_vars,
                    NEW p \in Pages, mem'[p] # mem[p]
             PROVE  ByOwner(p) \/ ByPulse(p) \/ ByKernel(p)
  OBVIOUS
<1>0. mem \in [Pages -> Content]
  BY DEF TypeOK
<1>1. CASE Setup
  BY <1>0, <1>1 DEF Setup, ByKernel
<1>2. ASSUME NEW r \in Rooms, NEW blob \in Blobs, Run(r, blob)
      PROVE  ByOwner(p) \/ ByPulse(p) \/ ByKernel(p)
  <2>1. p = Code(r) /\ mode = "idle"
    BY <1>0, <1>2 DEF Run
  <2> QED
    BY <2>1 DEF ByKernel, Code
<1>3. ASSUME NEW q \in Pages, NEW c \in Content, El0Store(q, c)
      PROVE  ByOwner(p) \/ ByPulse(p) \/ ByKernel(p)
  <2>1. q = Data(cur) /\ mode = "room"
    BY <1>3, StoreInOwnPage DEF El0Store
  <2>2. p = q
    BY <1>0, <1>3 DEF El0Store
  <2> QED
    BY <2>1, <2>2 DEF ByOwner
<1>4. ASSUME NEW place \in Places, PulseDelivered(place)
      PROVE  ByOwner(p) \/ ByPulse(p) \/ ByKernel(p)
  <2>1. mem' = [mem EXCEPT ![Data(1)].pay = PAYLOAD]
    BY <1>4, Zenon DEF PulseDelivered, Accepted
  <2>2. p = Data(1) /\ mem'[p] = [mem[p] EXCEPT !.pay = PAYLOAD]
    BY <1>0, <2>1
  <2> QED
    BY <1>4, <2>2 DEF PulseDelivered, ByPulse
<1>5. CASE Svc0 \/ Fault \/ IrqForeign \/ IrqTimer \/ IrqSpurious
  BY <1>5 DEF Svc0, Fault, IrqForeign, IrqTimer, IrqSpurious, LeaveRoom
<1>6. ASSUME NEW ticks \in 0 .. Slice, El0Timer(ticks) PROVE FALSE
  BY <1>6, <1>5 DEF El0Timer, Fault, LeaveRoom
<1>7. CASE \/ EnterLate \/ Enter \/ Tick \/ Halted \/ UNCHANGED vars
           \/ \E r \in Rooms : RunRefused(r)
           \/ \E poke \in BOOLEAN : Arm(poke)
           \/ \E want \in Wants : JudgeBad(want) \/ JudgeGood(want)
           \/ \E place \in Places : PulseRejected(place)
  BY <1>7 DEF EnterLate, Enter, Tick, Halted, vars, RunRefused, Arm, JudgeBad,
              JudgeGood, PulseRejected
<1> QED
  BY <1>1, <1>2, <1>3, <1>4, <1>5, <1>6, <1>7 DEF Next, KernelStep, Interrupt

\* The room's own page, the edge, and the kernel's two writes account for every
\* change of memory.
THEOREM MemoryIsOwned == Spec => MemoryOwned
<1>1. TypeOK /\ UserWindow /\ EdgeInv /\ [Next]_vars =>
        [\A p \in Pages : mem'[p] # mem[p] => ByOwner(p) \/ ByPulse(p) \/ ByKernel(p)]_vars
  BY StepOwned
<1> QED
  BY <1>1, TypeCorrect, SpatialIsolation, EdgeInvAlways, PTL DEF Spec, MemoryOwned

-----------------------------------------------------------------------------
(***************************************************************************)
(* Room implements PulseEdge.  A room is admitted from the consume in run   *)
(* until it has left; a run that stops the machine is an exit.              *)
(***************************************************************************)
\* Before the rooms run nobody is admitted, nothing is owed, the slot counts as clear.
LEMMA EdgeInitial == Init => Edge!Init
  BY RoomAssumption
  DEF RoomAssumption, Init, Edge!Init, Edge!Nobody, Admission

\* A step that keeps the mode, the room, the grant and the slot is a stutter.
LEMMA EdgeStutter ==
  ASSUME UNCHANGED <<mode, cur, grant>>, mode # "boot" => mem'[Data(1)] = mem[Data(1)]
  PROVE  UNCHANGED Edge!vars
  BY DEF Edge!vars, Admission

\* Every step of the mechanism is a step of the edge or a stutter.
LEMMA EdgeStep ==
  TypeOK /\ UserWindow /\ TableInv /\ EdgeInv /\ [Next]_vars => [Edge!Next]_(Edge!vars)
<1> SUFFICES ASSUME TypeOK, UserWindow, TableInv, EdgeInv, [Next]_vars
             PROVE  Edge!Next \/ UNCHANGED Edge!vars
  OBVIOUS
<1> USE RoomAssumption DEF RoomAssumption, EdgeInv, edgeVars, Edge!Nobody
<1>0. /\ mem \in [Pages -> Content] /\ Data(1) \in Pages
      /\ \A r \in Rooms : Code(r) # Data(1)
  BY DEF TypeOK, Data, Code, Pages, RoomPages, Rooms
<1>1. CASE Setup
  <2>1. mem'[Data(1)].pay = Blank
    BY <1>0, <1>1 DEF Setup, Cleared, Data, Rooms
  <2>2. UNCHANGED <<Admission, grant>>
    BY <1>1 DEF Setup, Admission
  <2> QED
    BY <1>1, <2>1, <2>2 DEF Setup, Edge!vars
<1>2. ASSUME NEW r \in Rooms, RunRefused(r) PROVE UNCHANGED Edge!vars
  BY <1>2 DEF RunRefused, Halt, Edge!vars, Admission
<1>3. ASSUME NEW r \in Rooms, NEW blob \in Blobs, Run(r, blob) PROVE Edge!Next
  <2>1. ~CopyFaults(r)
    BY <1>3, CopySucceeds DEF Run, TableInv
  <2>2. mem'[Data(1)] = mem[Data(1)]
    BY <1>0, <1>3 DEF Run
  <2>3. mode = "idle" /\ mode' = "prepared" /\ cur' = r /\ Admitted(r) /\ Consume(r)
    BY <1>3, <2>1 DEF Run
  <2>4. CASE r = 0
    BY <2>2, <2>3, <2>4 DEF Consume, Admission, Edge!Next, Edge!EnterRoot
  <2>5. CASE r # 0
    <3>1. r = 1 /\ grant = 1 /\ grant' = ROOM_N
      BY <2>3, <2>5 DEF Admitted, Consume, Rooms
    <3> QED
      BY <2>2, <2>3, <3>1 DEF Admission, Edge!Next, Edge!EnterOwed
  <2> QED
    BY <2>4, <2>5
<1>4. CASE \/ Enter \/ \E poke \in BOOLEAN : Arm(poke)
  BY <1>4 DEF Enter, Arm, Edge!vars, Admission
<1>5. CASE EnterLate
  BY <1>5 DEF EnterLate, Halt, Admission, Edge!Next, Edge!Leave
<1>6. CASE \E want \in Wants : JudgeBad(want) \/ JudgeGood(want)
  BY <1>6 DEF JudgeBad, JudgeGood, Halt, Edge!vars, Admission
<1>7. CASE Tick
  BY <1>7, EdgeStutter DEF Tick
<1>8. ASSUME NEW p \in Pages, NEW c \in Content, El0Store(p, c)
      PROVE  Edge!Next \/ UNCHANGED Edge!vars
  <2>1. p = Data(cur) /\ mode = "room"
    BY <1>8, StoreInOwnPage DEF El0Store
  <2>2. CASE cur = 0
    <3>1. mem'[Data(1)] = mem[Data(1)]
      BY <1>0, <1>8, <2>1, <2>2 DEF El0Store, Data
    <3> QED
      BY <1>8, <3>1, EdgeStutter DEF El0Store
  <2>3. CASE cur = 1
    <3>1. mem'[Data(1)].pay \in Payloads
      BY <1>0, <1>8, <2>1, <2>3 DEF El0Store, Content
    <3> QED
      BY <1>8, <2>1, <2>3, <3>1 DEF El0Store, Admission, Edge!Next, Edge!Write
  <2> QED
    BY <2>2, <2>3
<1>9. CASE Svc0 \/ Fault \/ IrqForeign \/ IrqTimer \/ IrqSpurious
  <2>1. \E why_left : LeaveRoom(why_left)
    BY <1>9, Zenon DEF Svc0, Fault, IrqForeign, IrqTimer, IrqSpurious
  <2>2. mode = "room" /\ mode' = "left" /\ UNCHANGED <<cur, grant, mem>>
    BY <2>1 DEF LeaveRoom
  <2> QED
    BY <2>2 DEF Admission, Edge!Next, Edge!Leave
<1>10. ASSUME NEW ticks \in 0 .. Slice, El0Timer(ticks)
       PROVE  Edge!Next \/ UNCHANGED Edge!vars
  BY <1>9, <1>10, EdgeStutter DEF El0Timer
<1>11. ASSUME NEW place \in Places, PulseRejected(place) PROVE UNCHANGED Edge!vars
  BY <1>11, EdgeStutter DEF PulseRejected
<1>12. ASSUME NEW place \in Places, PulseDelivered(place) PROVE Edge!Next
  <2>1. mem' = [mem EXCEPT ![Data(1)].pay = PAYLOAD]
    BY <1>12, Zenon DEF PulseDelivered, Accepted
  <2>2. mem'[Data(1)].pay = PAYLOAD
    BY <1>0, <2>1 DEF Content
  <2> QED
    BY <1>12, <2>2 DEF PulseDelivered, Admission, Edge!Next, Edge!Pulse
<1>13. CASE Halted \/ UNCHANGED vars
  BY <1>13, EdgeStutter DEF Halted, vars
<1> QED
  BY <1>1, <1>2, <1>3, <1>4, <1>5, <1>6, <1>7, <1>8, <1>9, <1>10, <1>11, <1>12, <1>13
  DEF Next, KernelStep, Interrupt

\* Room 1 runs only on an entry it is owed, once per entry however often the pulse
\* is repeated, and nothing but the edge and room 1 writes the slot.
THEOREM EdgeImplemented == Spec => EdgeSpec
  BY EdgeInitial, EdgeStep, TypeCorrect, SpatialIsolation, TableInvAlways,
     EdgeInvAlways, PTL DEF Spec, EdgeSpec, Edge!Spec

-----------------------------------------------------------------------------
(***************************************************************************)
(* The script (RoomsRun.tla).  ScriptHolds says that no check of the script *)
(* fails, and each check is about what the lines before it did.  A stage    *)
(* is what is known between two lines.  Passes gives, for a stage, which    *)
(* lines the script may go on with and the stage it comes to; Leads is the  *)
(* same for several lines, and the script leads from the first stage to its *)
(* last line, whichever of its parts it is made of.                         *)
(***************************************************************************)
Names   == {"fault", "store", "exec", "steal", "send", "mal", "pay", "bad", "reply",
            "recv", "spin"}
Rejects == {"mal", "pay", "bad", "reply"}

Checks  == {"canary0", "canary1", "code0", "code1", "refuse", "three-rejected",
            "one-rejected", "slot-empty", "slot-filled", "received", "cval", "sent"}

Sends == 0 .. 10
Bads == 0 .. 4
Two == {0, 1}
Programs == Names \cup {"zero"}

RunLines == [do : {"run"}, room : Two, blob : Names, at : Pages, want : Wants,
             poke : BOOLEAN]
Lines == RunLines \cup {Check(what) : what \in Checks} \cup {Note}

\* How many entries are owed, how many pulses were delivered and rejected, how many of these were
\* rejected at the last note, and which program ran last in which room.
Stages == [owed : Two, sent : Sends, bad : Bads, noted : Bads, room : Two,
           blob : Programs]
Stage(owed, sent, bad, noted, room, blob) ==
  [owed |-> owed, sent |-> sent, bad |-> bad, noted |-> noted, room |-> room, blob |-> blob]

\* What must be known for a check to hold.
Meets(a, what) ==
  CASE what = "code0" -> a.room = 0 /\ a.blob = "store"
    [] what = "code1" -> a.room = 1 /\ a.blob = "store"
    [] what = "refuse" -> a.owed = 0
    [] what = "three-rejected" -> a.bad >= a.noted + 3
    [] what = "one-rejected" -> a.bad = a.noted + 1
    [] what = "slot-empty" -> a.sent = 0
    [] what = "slot-filled" -> a.sent > 0
    [] what = "received" -> a.blob = "recv"
    [] what = "sent" -> a.blob = "send"
    [] OTHER -> TRUE

\* What a run must respect: room 1 is owed its entry, who sends leaves by himself and is
\* the right room, and nobody is given his own data page to break.
MayRun(a, x) ==
  /\ x.room = 1 => a.owed = 1 /\ a.sent > 0
  /\ x.blob \in {"send", "mal", "pay", "bad"} => x.room = 0
  /\ x.blob \in {"reply", "recv"} => x.room = 1
  /\ x.blob \in {"send", "recv"} \cup Rejects => x.want = "svc"
  /\ x.blob = "store" => x.at # Data(x.room)
  /\ x.blob = "send" => a.sent < 10
  /\ x.blob \in Rejects => a.bad < 4

\* An owed entry is spent by room 1; a message owes the next.
AfterRun(a, x) ==
  Stage(IF x.blob = "send" THEN 1 ELSE IF x.room = 0 THEN a.owed ELSE 0,
        IF x.blob = "send" THEN a.sent + 1 ELSE a.sent,
        IF x.blob \in Rejects THEN a.bad + 1 ELSE a.bad,
        a.noted, x.room, x.blob)

Passes(a, x, b) ==
  \/ x \in RunLines /\ MayRun(a, x) /\ b = AfterRun(a, x)
  \/ \E what \in Checks : x = Check(what) /\ Meets(a, what) /\ b = a
  \/ x = Note /\ b = Stage(a.owed, a.sent, a.bad, a.bad, a.room, a.blob)

Leading(ann, s) ==
  /\ ann \in [1 .. Len(s) + 1 -> Stages]
  /\ \A i \in 1 .. Len(s) : Passes(ann[i], s[i], ann[i + 1])
Leads(a, s, b) ==
  /\ s \in Seq(Lines)
  /\ \E ann : Leading(ann, s) /\ ann[1] = a /\ ann[Len(s) + 1] = b

\* One line that passes leads to the stage it comes to.
LEMMA LeadsOne ==
  ASSUME NEW a \in Stages, NEW b \in Stages, NEW x \in Lines, Passes(a, x, b)
  PROVE  Leads(a, << x >>, b)
<1> DEFINE ann == [i \in 1 .. 2 |-> IF i = 1 THEN a ELSE b]
<1>1. << x >> \in Seq(Lines) /\ Len(<< x >>) = 1 /\ << x >>[1] = x
  OBVIOUS
<1>2. ann \in [1 .. 2 -> Stages] /\ ann[1] = a /\ ann[2] = b
  OBVIOUS
<1> HIDE DEF ann
<1>3. Leading(ann, << x >>)
  BY <1>1, <1>2 DEF Leading
<1> QED
  BY <1>1, <1>2, <1>3 DEF Leads

\* What leads to where the next part begins, and that part, lead to its end.
LEMMA LeadsOn ==
  ASSUME NEW a, NEW b, NEW c, NEW s, NEW t, Leads(a, s, b), Leads(b, t, c)
  PROVE  Leads(a, s \o t, c)
<1>1. PICK f : Leading(f, s) /\ f[1] = a /\ f[Len(s) + 1] = b
  BY DEF Leads
<1>2. PICK g : Leading(g, t) /\ g[1] = b /\ g[Len(t) + 1] = c
  BY DEF Leads
<1>3. s \in Seq(Lines) /\ t \in Seq(Lines) /\ Len(s) \in Nat /\ Len(t) \in Nat
  BY DEF Leads
<1>4. /\ s \o t \in Seq(Lines) /\ Len(s \o t) = Len(s) + Len(t)
      /\ \A i \in 1 .. Len(s) + Len(t) :
           (s \o t)[i] = IF i <= Len(s) THEN s[i] ELSE t[i - Len(s)]
  BY <1>3
<1> DEFINE m == Len(s)
           n == Len(t)
           u == s \o t
           ann == [i \in 1 .. m + n + 1 |-> IF i <= m THEN f[i] ELSE g[i - m]]
<1>5. /\ f \in [1 .. m + 1 -> Stages] /\ g \in [1 .. n + 1 -> Stages]
      /\ \A i \in 1 .. m : Passes(f[i], s[i], f[i + 1])
      /\ \A i \in 1 .. n : Passes(g[i], t[i], g[i + 1])
      /\ f[m + 1] = g[1]
  BY <1>1, <1>2 DEF Leading
<1>6. /\ u \in Seq(Lines) /\ Len(u) = m + n /\ m \in Nat /\ n \in Nat
      /\ \A i \in 1 .. m + n : u[i] = IF i <= m THEN s[i] ELSE t[i - m]
  BY <1>3, <1>4
<1> HIDE DEF m, n, u
<1>7. /\ ann \in [1 .. m + n + 1 -> Stages]
      /\ \A i \in 1 .. m + n + 1 : ann[i] = IF i <= m THEN f[i] ELSE g[i - m]
  BY <1>5, <1>6
<1>8. ann[1] = f[1] /\ ann[m + n + 1] = g[n + 1]
  <2>1. CASE m = 0
    BY <1>5, <1>6, <1>7, <2>1
  <2>2. CASE m > 0
    BY <1>6, <1>7, <2>2
  <2> QED
    BY <1>6, <2>1, <2>2
<1> HIDE DEF ann
<1>9. ASSUME NEW i \in 1 .. m + n PROVE Passes(ann[i], u[i], ann[i + 1])
  <2>1. CASE i < m
    BY <1>5, <1>6, <1>7, <2>1
  <2>2. CASE i = m
    <3>1. ann[i] = f[m] /\ ann[i + 1] = g[1] /\ u[i] = s[m] /\ m \in 1 .. m
      BY <1>6, <1>7, <2>2
    <3> QED
      BY <1>5, <3>1
  <2>3. CASE i > m
    <3>1. /\ i - m \in 1 .. n /\ ann[i] = g[i - m] /\ u[i] = t[i - m]
          /\ ann[i + 1] = g[(i - m) + 1]
      BY <1>6, <1>7, <2>3
    <3> QED
      BY <1>5, <3>1
  <2> QED
    BY <1>6, <2>1, <2>2, <2>3
<1>10. Leading(ann, u)
  BY <1>6, <1>7, <1>9 DEF Leading
<1>11. Leads(a, u, c)
  BY <1>1, <1>2, <1>6, <1>8, <1>10 DEF Leads, n
<1> QED
  BY <1>11 DEF u

\* Checks whose conditions the stage meets change nothing.
LEMMA LeadsChecks ==
  ASSUME NEW a \in Stages, NEW s \in Seq(Lines),
         \A i \in 1 .. Len(s) : \E what \in Checks : s[i] = Check(what) /\ Meets(a, what)
  PROVE  Leads(a, s, a)
<1> DEFINE ann == [i \in 1 .. Len(s) + 1 |-> a]
<1>1. Len(s) \in Nat
  OBVIOUS
<1>2. ann \in [1 .. Len(s) + 1 -> Stages] /\ ann[1] = a /\ ann[Len(s) + 1] = a
  BY <1>1
<1>3. ASSUME NEW i \in 1 .. Len(s) PROVE Passes(ann[i], s[i], ann[i + 1])
  <2>1. ann[i] = a /\ ann[i + 1] = a
    BY <1>1
  <2> QED
    BY <2>1 DEF Passes
<1> QED
  BY <1>2, <1>3 DEF Leads, Leading

\* One check.
LEMMA LeadsCheck ==
  ASSUME NEW a \in Stages, NEW what \in Checks, Meets(a, what)
  PROVE  Leads(a, << Check(what) >>, a)
<1>1. Check(what) \in Lines /\ Passes(a, Check(what), a)
  BY DEF Lines, Passes
<1> QED
  BY <1>1, LeadsOne

\* A stage is a stage.
LEMMA StageIs ==
  ASSUME NEW owed \in Two, NEW sent \in Sends, NEW bad \in Bads, NEW noted \in Bads,
         NEW room \in Two, NEW blob \in Programs
  PROVE  /\ Stage(owed, sent, bad, noted, room, blob) \in Stages
         /\ Stage(owed, sent, bad, noted, room, blob).owed = owed
         /\ Stage(owed, sent, bad, noted, room, blob).sent = sent
         /\ Stage(owed, sent, bad, noted, room, blob).bad = bad
         /\ Stage(owed, sent, bad, noted, room, blob).noted = noted
         /\ Stage(owed, sent, bad, noted, room, blob).room = room
         /\ Stage(owed, sent, bad, noted, room, blob).blob = blob
  BY DEF Stage, Stages

\* The note of what was rejected so far.
LEMMA LeadsNote ==
  ASSUME NEW owed \in Two, NEW sent \in Sends, NEW bad \in Bads, NEW noted \in Bads,
         NEW room \in Two, NEW blob \in Programs
  PROVE  Leads(Stage(owed, sent, bad, noted, room, blob), << Note >>,
               Stage(owed, sent, bad, bad, room, blob))
<1> DEFINE a == Stage(owed, sent, bad, noted, room, blob)
           b == Stage(owed, sent, bad, bad, room, blob)
<1>1. /\ a \in Stages /\ a.owed = owed /\ a.sent = sent /\ a.bad = bad
      /\ a.room = room /\ a.blob = blob /\ b \in Stages
  BY StageIs
<1>2. b = Stage(a.owed, a.sent, a.bad, a.bad, a.room, a.blob)
  BY <1>1
<1> HIDE DEF a, b
<1>3. Note \in Lines /\ Passes(a, Note, b)
  BY <1>2 DEF Lines, Passes
<1>4. Leads(a, << Note >>, b)
  BY <1>1, <1>3, LeadsOne
<1> QED
  BY <1>4 DEF a, b

\* One run, from a stage that it respects.
LEMMA LeadsRun ==
  ASSUME NEW a \in Stages, NEW x \in RunLines, MayRun(a, x)
  PROVE  Leads(a, << x >>, AfterRun(a, x)) /\ AfterRun(a, x) \in Stages
<1>1. /\ a.owed \in Two /\ a.sent \in Sends /\ a.bad \in Bads /\ a.noted \in Bads
      /\ x.room \in Two /\ x.blob \in Programs
  BY DEF Stages, RunLines, Programs
<1> DEFINE owed == IF x.blob = "send" THEN 1 ELSE IF x.room = 0 THEN a.owed ELSE 0
           sent == IF x.blob = "send" THEN a.sent + 1 ELSE a.sent
           bad == IF x.blob \in Rejects THEN a.bad + 1 ELSE a.bad
<1>2. owed \in Two
  BY <1>1 DEF Two
<1>3. sent \in Sends
  BY <1>1 DEF MayRun, Sends
<1>4. bad \in Bads
  BY <1>1 DEF MayRun, Bads
<1>5. AfterRun(a, x) = Stage(owed, sent, bad, a.noted, x.room, x.blob)
  BY DEF AfterRun
<1> HIDE DEF owed, sent, bad
<1>6. AfterRun(a, x) \in Stages
  BY <1>1, <1>2, <1>3, <1>4, <1>5, StageIs
<1>7. x \in Lines /\ Passes(a, x, AfterRun(a, x))
  BY DEF Lines, Passes
<1> QED
  BY <1>6, <1>7, LeadsOne

\* A run of room 0 that sends nothing and is contained, or leaves.
Mild == {"fault", "store", "exec", "steal", "spin"}

\* A line of the script is a run.
LEMMA RunBlobIs ==
  ASSUME NEW r \in Two, NEW blob \in Names, NEW at \in Pages, NEW want \in Wants
  PROVE  /\ RunBlob(r, blob, at, want) \in RunLines
         /\ RunBlob(r, blob, at, want).room = r /\ RunBlob(r, blob, at, want).blob = blob
         /\ RunBlob(r, blob, at, want).at = at /\ RunBlob(r, blob, at, want).want = want
         /\ Poked(RunBlob(r, blob, at, want)) \in RunLines
         /\ Poked(RunBlob(r, blob, at, want)).room = r
         /\ Poked(RunBlob(r, blob, at, want)).blob = blob
  BY DEF RunBlob, RunLines, Poked

\* Programs that say nothing to the kernel: room 0 changes nothing, room 1 spends its entry.
LEMMA LeadsMild ==
  ASSUME NEW owed \in Two, NEW sent \in Sends, NEW bad \in Bads, NEW noted \in Bads,
         NEW room \in Two, NEW last \in Programs,
         NEW x \in RunLines, x.blob \in Mild, x.blob = "store" => x.at # Data(x.room),
         x.room = 1 => owed = 1 /\ sent > 0
  PROVE  Leads(Stage(owed, sent, bad, noted, room, last), << x >>,
               Stage(IF x.room = 0 THEN owed ELSE 0, sent, bad, noted, x.room, x.blob))
<1> DEFINE a == Stage(owed, sent, bad, noted, room, last)
<1>1. /\ a \in Stages /\ a.owed = owed /\ a.sent = sent /\ a.bad = bad /\ a.noted = noted
  BY StageIs
<1> HIDE DEF a
<1>2. x.blob \notin Rejects /\ x.blob \notin {"send", "recv"}
  BY DEF Mild, Rejects
<1>3. MayRun(a, x)
  BY <1>1, <1>2 DEF MayRun, Rejects
<1>4. AfterRun(a, x) = Stage(IF x.room = 0 THEN owed ELSE 0, sent, bad, noted, x.room, x.blob)
  <2>1. /\ (IF x.blob = "send" THEN 1 ELSE IF x.room = 0 THEN a.owed ELSE 0)
             = (IF x.room = 0 THEN owed ELSE 0)
        /\ (IF x.blob = "send" THEN a.sent + 1 ELSE a.sent) = sent
        /\ (IF x.blob \in Rejects THEN a.bad + 1 ELSE a.bad) = bad
    BY <1>1, <1>2
  <2> QED
    BY <1>1, <2>1 DEF AfterRun
<1>5. Leads(a, << x >>, Stage(IF x.room = 0 THEN owed ELSE 0, sent, bad, noted, x.room, x.blob))
  BY <1>1, <1>3, <1>4, LeadsRun
<1> QED
  BY <1>5 DEF a

\* A send that is delivered: one pulse, noticed by the check, and an entry is owed.
LEMMA LeadsSend ==
  ASSUME NEW owed \in Two, NEW sent \in Sends, NEW bad \in Bads, NEW noted \in Bads,
         NEW room \in Two, NEW last \in Programs, sent < 10
  PROVE  Leads(Stage(owed, sent, bad, noted, room, last), SendOnce,
               Stage(1, sent + 1, bad, noted, 0, "send"))
<1> DEFINE a == Stage(owed, sent, bad, noted, room, last)
           x == RunBlob(0, "send", Kernel, "svc")
           b == Stage(1, sent + 1, bad, noted, 0, "send")
<1>1. /\ a \in Stages /\ a.owed = owed /\ a.sent = sent /\ a.bad = bad /\ a.noted = noted
  BY StageIs
<1>2. x \in RunLines /\ x.room = 0 /\ x.blob = "send" /\ x.want = "svc"
  <2>1. 0 \in Two /\ "send" \in Names /\ Kernel \in Pages /\ "svc" \in Wants
    BY DEF Two, Names, Wants, Reasons, Pages
  <2> QED
    BY <2>1, RunBlobIs
<1>3. sent + 1 \in Sends /\ 0 \in Two /\ 1 \in Two /\ "send" \in Programs
  BY DEF Sends, Two, Programs, Names
<1>4. b \in Stages /\ b.blob = "send"
  BY <1>3, StageIs
<1> HIDE DEF a, x
<1>5. MayRun(a, x)
  BY <1>1, <1>2 DEF MayRun, Rejects
<1>6. AfterRun(a, x) = b
  BY <1>1, <1>2 DEF AfterRun, Rejects
<1> HIDE DEF b
<1>7. Leads(a, << x >>, b)
  BY <1>1, <1>2, <1>5, <1>6, LeadsRun
<1>8. Leads(b, << Check("sent") >>, b)
  <2>1. Meets(b, "sent") /\ "sent" \in Checks
    BY <1>4 DEF Meets, Checks
  <2> QED
    BY <1>4, <2>1, LeadsCheck
<1>9. Leads(a, << x >> \o << Check("sent") >>, b)
  BY <1>7, <1>8, LeadsOn
<1> QED
  BY <1>9 DEF a, b, x, SendOnce, Early

\* A program whose pulse is rejected: counted, and nothing else, but that room 1 spends its
\* entry.
LEMMA LeadsReject ==
  ASSUME NEW owed \in Two, NEW sent \in Sends, NEW bad \in Bads, NEW noted \in Bads,
         NEW room \in Two, NEW last \in Programs, bad < 4,
         NEW r \in Two, NEW blob \in Rejects, r = 1 <=> blob = "reply",
         r = 1 => owed = 1 /\ sent > 0
  PROVE  Leads(Stage(owed, sent, bad, noted, room, last), Early(r, blob, Kernel),
               Stage(IF r = 0 THEN owed ELSE 0, sent, bad + 1, noted, r, blob))
<1> DEFINE a == Stage(owed, sent, bad, noted, room, last)
           x == RunBlob(r, blob, Kernel, "svc")
           b == Stage(IF r = 0 THEN owed ELSE 0, sent, bad + 1, noted, r, blob)
<1>1. /\ a \in Stages /\ a.owed = owed /\ a.sent = sent /\ a.bad = bad /\ a.noted = noted
  BY StageIs
<1>2. x \in RunLines /\ x.room = r /\ x.blob = blob /\ x.want = "svc"
  <2>1. blob \in Names /\ Kernel \in Pages /\ "svc" \in Wants
    BY DEF Rejects, Names, Wants, Reasons, Pages
  <2> QED
    BY <2>1, RunBlobIs
<1>3. blob # "send" /\ blob # "store" /\ blob # "recv" /\ (r = 0 \/ r = 1)
  BY DEF Rejects, Two
<1> HIDE DEF a, x
<1>5. MayRun(a, x)
  BY <1>1, <1>2, <1>3 DEF MayRun, Rejects
<1>6. AfterRun(a, x) = b
  BY <1>1, <1>2, <1>3 DEF AfterRun
<1> HIDE DEF b
<1>7. Leads(a, << x >>, b)
  BY <1>1, <1>2, <1>5, <1>6, LeadsRun
<1> QED
  BY <1>7 DEF a, b, x, Early

\* Room 1 takes the message, and with it spends its entry.
LEMMA LeadsReceive ==
  ASSUME NEW sent \in Sends, NEW bad \in Bads, NEW noted \in Bads,
         NEW room \in Two, NEW last \in Programs, sent > 0
  PROVE  Leads(Stage(1, sent, bad, noted, room, last), Early(1, "recv", Kernel),
               Stage(0, sent, bad, noted, 1, "recv"))
<1> DEFINE a == Stage(1, sent, bad, noted, room, last)
           x == RunBlob(1, "recv", Kernel, "svc")
           b == Stage(0, sent, bad, noted, 1, "recv")
<1>1. /\ a \in Stages /\ a.owed = 1 /\ a.sent = sent /\ a.bad = bad /\ a.noted = noted
  BY StageIs DEF Two
<1>2. x \in RunLines /\ x.room = 1 /\ x.blob = "recv" /\ x.want = "svc"
  <2>1. 1 \in Two /\ "recv" \in Names /\ Kernel \in Pages /\ "svc" \in Wants
    BY DEF Two, Names, Wants, Reasons, Pages
  <2> QED
    BY <2>1, RunBlobIs
<1> HIDE DEF a, x
<1>5. MayRun(a, x)
  BY <1>1, <1>2 DEF MayRun, Rejects
<1>6. AfterRun(a, x) = b
  BY <1>1, <1>2 DEF AfterRun, Rejects
<1> HIDE DEF b
<1>7. Leads(a, << x >>, b)
  BY <1>1, <1>2, <1>5, <1>6, LeadsRun
<1> QED
  BY <1>7 DEF a, b, x, Early

\* The pages the script names are pages of the two rooms.
LEMMA ScriptPages ==
  /\ Kernel \in Pages /\ Uart \in Pages
  /\ Data(0) \in Pages /\ Data(1) \in Pages /\ Code(0) \in Pages /\ Code(1) \in Pages
  BY RoomAssumption
  DEF RoomAssumption, Kernel, Uart, Data, Code, Pages, RoomPages, Rooms

\* After any part of the script, a program of room 0 that must be contained.
LEMMA ThenContained0 ==
  ASSUME NEW a, NEW s,
         NEW owed \in Two, NEW sent \in Sends, NEW bad \in Bads, NEW noted \in Bads,
         NEW room \in Two, NEW last \in Programs,
         Leads(a, s, Stage(owed, sent, bad, noted, room, last)),
         NEW blob \in Mild, NEW at \in Pages, blob = "store" => at # Data(0)
  PROVE  Leads(a, s \o Contained(0, blob, at), Stage(owed, sent, bad, noted, 0, blob))
<1> DEFINE x == RunBlob(0, blob, at, "fault")
<1>1. /\ x \in RunLines /\ x.room = 0 /\ x.blob = blob /\ x.at = at
  <2>1. 0 \in Two /\ blob \in Names /\ "fault" \in Wants
    BY DEF Two, Mild, Names, Wants, Reasons
  <2> QED
    BY <2>1, RunBlobIs
<1> HIDE DEF x
<1>2. Leads(Stage(owed, sent, bad, noted, room, last), << x >>,
            Stage(owed, sent, bad, noted, 0, blob))
  <2>1. /\ x.blob \in Mild /\ (x.blob = "store" => x.at # Data(x.room))
        /\ (x.room = 1 => owed = 1 /\ sent > 0)
        /\ (IF x.room = 0 THEN owed ELSE 0) = owed
    BY <1>1
  <2> QED
    BY <1>1, <2>1, LeadsMild
<1> QED
  BY <1>2, LeadsOn DEF x, Contained

\* After any part of the script that owes room 1 its entry, a run of room 1 that is
\* contained or interrupted; the entry is spent.
LEMMA ThenMild1 ==
  ASSUME NEW a, NEW s, NEW sent \in Sends, NEW bad \in Bads, NEW noted \in Bads,
         NEW room \in Two, NEW last \in Programs,
         Leads(a, s, Stage(1, sent, bad, noted, room, last)), sent > 0,
         NEW x \in RunLines, x.room = 1, NEW blob \in Mild, x.blob = blob,
         blob = "store" => x.at # Data(1)
  PROVE  Leads(a, s \o << x >>, Stage(0, sent, bad, noted, 1, blob))
<1>1. 1 \in Two
  BY DEF Two
<1>2. Leads(Stage(1, sent, bad, noted, room, last), << x >>,
            Stage(0, sent, bad, noted, 1, blob))
  <2>1. /\ x.blob \in Mild /\ (x.blob = "store" => x.at # Data(x.room))
        /\ (IF x.room = 0 THEN 1 ELSE 0) = 0
    BY <1>1
  <2>2. Leads(Stage(1, sent, bad, noted, room, last), << x >>,
              Stage(IF x.room = 0 THEN 1 ELSE 0, sent, bad, noted, x.room, x.blob))
    BY <1>1, <2>1, LeadsMild
  <2> QED
    BY <2>1, <2>2
<1> QED
  BY <1>2, LeadsOn

\* The same for a program that must be contained.
LEMMA ThenContained1 ==
  ASSUME NEW a, NEW s, NEW sent \in Sends, NEW bad \in Bads, NEW noted \in Bads,
         NEW room \in Two, NEW last \in Programs,
         Leads(a, s, Stage(1, sent, bad, noted, room, last)), sent > 0,
         NEW blob \in Mild, NEW at \in Pages, blob = "store" => at # Data(1)
  PROVE  Leads(a, s \o Contained(1, blob, at), Stage(0, sent, bad, noted, 1, blob))
<1> DEFINE x == RunBlob(1, blob, at, "fault")
<1>1. /\ x \in RunLines /\ x.room = 1 /\ x.blob = blob /\ x.at = at
  <2>1. 1 \in Two /\ blob \in Names /\ "fault" \in Wants
    BY DEF Two, Mild, Names, Wants, Reasons
  <2> QED
    BY <2>1, RunBlobIs
<1> HIDE DEF x
<1>2. Leads(a, s \o << x >>, Stage(0, sent, bad, noted, 1, blob))
  BY <1>1, ThenMild1
<1> QED
  BY <1>2 DEF x, Contained

\* After any part of the script, a check that its stage meets.
LEMMA ThenCheck ==
  ASSUME NEW a, NEW s, NEW b \in Stages, Leads(a, s, b), NEW what \in Checks, Meets(b, what)
  PROVE  Leads(a, s \o << Check(what) >>, b)
  BY LeadsCheck, LeadsOn

\* Two lines one after the other.
LEMMA Pairs == ASSUME NEW x, NEW y PROVE << x >> \o << y >> = << x, y >>
<1> DEFINE s == << x >> \o << y >>
<1>1. << x >> \in Seq({x, y}) /\ << y >> \in Seq({x, y})
  OBVIOUS
<1>2. Len(<< x >>) = 1 /\ Len(<< y >>) = 1 /\ << x >>[1] = x /\ << y >>[1] = y
  OBVIOUS
<1>3. s \in Seq({x, y}) /\ Len(s) = 2 /\ s[1] = x /\ s[2] = y
  BY <1>1, <1>2, ConcatProperties
<1>4. << x, y >> \in Seq({x, y}) /\ Len(<< x, y >>) = 2 /\ << x, y >>[1] = x
      /\ << x, y >>[2] = y
  OBVIOUS
<1> HIDE DEF s
<1>5. s = << x, y >>
  BY <1>3, <1>4, SeqEqual
<1> QED
  BY <1>5 DEF s

\* After any part of the script, two checks.
LEMMA ThenChecks ==
  ASSUME NEW a, NEW s, NEW b \in Stages, Leads(a, s, b),
         NEW w1 \in Checks, Meets(b, w1), NEW w2 \in Checks, Meets(b, w2)
  PROVE  Leads(a, s \o << Check(w1), Check(w2) >>, b)
<1>1. Leads(b, << Check(w1) >> \o << Check(w2) >>, b)
  BY LeadsCheck, LeadsOn
<1>2. << Check(w1) >> \o << Check(w2) >> = << Check(w1), Check(w2) >>
  BY Pairs
<1> QED
  BY <1>1, <1>2, LeadsOn

\* The canaries, the code pages and the compare of the timer are met wherever the script asks
\* for them.
LEMMA MeetsAlways ==
  ASSUME NEW a
  PROVE  /\ Meets(a, "canary0") /\ Meets(a, "canary1") /\ Meets(a, "cval")
         /\ {"canary0", "canary1", "cval", "code0", "code1"} \subseteq Checks
  BY DEF Meets, Checks

\* The root room is contained: nothing is sent and nothing is owed.
LEMMA LeadsRootContained ==
  \E last \in Programs :
    Leads(Stage(0, 0, 0, 0, 0, "zero"), RootContained, Stage(0, 0, 0, 0, 0, last))
<1> DEFINE a == Stage(0, 0, 0, 0, 0, "zero")
           At0(blob) == Stage(0, 0, 0, 0, 0, blob)
           s1 == Contained(0, "fault", Kernel) \o << Check("canary1") >>
           s2 == s1 \o Contained(0, "fault", Data(1)) \o << Check("canary1") >>
           s3 == s2 \o Contained(0, "store", Data(1)) \o << Check("canary1") >>
           s4 == s3 \o Contained(0, "exec", Data(0)) \o Contained(0, "exec", Code(1))
           s5 == s4 \o << Check("canary1") >>
           s6 == s5 \o Contained(0, "store", Code(0)) \o << Check("code0") >>
<1>0. /\ 0 \in Two /\ 0 \in Sends /\ 0 \in Bads
      /\ {"fault", "store", "exec", "zero"} \subseteq Programs
      /\ {"fault", "store", "exec"} \subseteq Mild
      /\ Data(1) # Data(0) /\ Code(0) # Data(0)
  BY DEF Two, Sends, Bads, Programs, Names, Mild, Data, Code
<1>1. /\ At0("fault") \in Stages /\ At0("store") \in Stages /\ At0("exec") \in Stages
      /\ At0("store").room = 0 /\ At0("store").blob = "store"
  BY <1>0, StageIs
<1>2. Leads(a, s1, At0("fault"))
  <2>1. Leads(a, Contained(0, "fault", Kernel), At0("fault"))
    <3> DEFINE x == RunBlob(0, "fault", Kernel, "fault")
    <3>1. x \in RunLines /\ x.room = 0 /\ x.blob = "fault"
      <4>1. "fault" \in Names /\ "fault" \in Wants
        BY DEF Names, Wants, Reasons
      <4> QED
        BY <1>0, <4>1, ScriptPages, RunBlobIs
    <3> HIDE DEF x
    <3>2. Leads(a, << x >>, Stage(IF x.room = 0 THEN 0 ELSE 0, 0, 0, 0, x.room, x.blob))
      <4>1. x.blob \in Mild /\ x.blob # "store" /\ x.room # 1
        BY <1>0, <3>1
      <4> QED
        BY <1>0, <3>1, <4>1, LeadsMild
    <3> QED
      BY <3>1, <3>2 DEF x, Contained
  <2> QED
    BY <1>1, <2>1, MeetsAlways, ThenCheck
<1> HIDE DEF a, s1
<1>3. Leads(a, s2, At0("fault"))
  <2>1. Leads(a, s1 \o Contained(0, "fault", Data(1)), At0("fault"))
    BY <1>0, <1>2, ScriptPages, ThenContained0
  <2> QED
    BY <1>1, <2>1, MeetsAlways, ThenCheck
<1> HIDE DEF s2
<1>4. Leads(a, s3, At0("store"))
  <2>1. Leads(a, s2 \o Contained(0, "store", Data(1)), At0("store"))
    BY <1>0, <1>3, ScriptPages, ThenContained0
  <2> QED
    BY <1>1, <2>1, MeetsAlways, ThenCheck
<1> HIDE DEF s3
<1>5. Leads(a, s4, At0("exec"))
  <2>1. Leads(a, s3 \o Contained(0, "exec", Data(0)), At0("exec"))
    BY <1>0, <1>4, ScriptPages, ThenContained0
  <2> QED
    BY <1>0, <2>1, ScriptPages, ThenContained0
<1> HIDE DEF s4
<1>6. Leads(a, s5, At0("exec"))
  BY <1>1, <1>5, MeetsAlways, ThenCheck
<1> HIDE DEF s5
<1>7. Leads(a, s6, At0("store"))
  <2>1. Leads(a, s5 \o Contained(0, "store", Code(0)), At0("store"))
    BY <1>0, <1>6, ScriptPages, ThenContained0
  <2>2. Meets(At0("store"), "code0")
    BY <1>1 DEF Meets
  <2> QED
    BY <1>1, <2>1, <2>2, MeetsAlways, ThenCheck
<1> HIDE DEF s6
<1>8. Leads(a, s6 \o Contained(0, "fault", Uart), At0("fault"))
  BY <1>0, <1>7, ScriptPages, ThenContained0
<1>9. s6 \in Seq(Lines)
  BY <1>7 DEF Leads
<1>10. RootContained = s6 \o (IF UartValid THEN Contained(0, "fault", Uart) ELSE << >>)
  BY DEF RootContained, s1, s2, s3, s4, s5, s6
<1>11. CASE UartValid
  BY <1>0, <1>8, <1>10, <1>11 DEF a
<1>12. CASE ~UartValid
  <2>1. RootContained = s6
    BY <1>9, <1>10, <1>12
  <2> QED
    BY <1>0, <1>7, <2>1 DEF a
<1> QED
  BY <1>11, <1>12

\* After any part of the script, a message more.
LEMMA ThenSend ==
  ASSUME NEW a, NEW s,
         NEW owed \in Two, NEW sent \in Sends, NEW bad \in Bads, NEW noted \in Bads,
         NEW room \in Two, NEW last \in Programs,
         Leads(a, s, Stage(owed, sent, bad, noted, room, last)), sent < 10,
         NEW more \in Sends, more = sent + 1
  PROVE  Leads(a, s \o SendOnce, Stage(1, more, bad, noted, 0, "send"))
<1>1. Leads(Stage(owed, sent, bad, noted, room, last), SendOnce,
            Stage(1, more, bad, noted, 0, "send"))
  BY LeadsSend
<1> QED
  BY <1>1, LeadsOn

\* After any part of the script, a pulse that is rejected.
LEMMA ThenReject ==
  ASSUME NEW a, NEW s,
         NEW owed \in Two, NEW sent \in Sends, NEW bad \in Bads, NEW noted \in Bads,
         NEW room \in Two, NEW last \in Programs,
         Leads(a, s, Stage(owed, sent, bad, noted, room, last)), bad < 4,
         NEW r \in Two, NEW blob \in Rejects, r = 1 <=> blob = "reply",
         r = 1 => owed = 1 /\ sent > 0, NEW more \in Bads, more = bad + 1,
         NEW left_owed \in Two, left_owed = IF r = 0 THEN owed ELSE 0
  PROVE  Leads(a, s \o Early(r, blob, Kernel), Stage(left_owed, sent, more, noted, r, blob))
<1>1. Leads(Stage(owed, sent, bad, noted, room, last), Early(r, blob, Kernel),
            Stage(left_owed, sent, more, noted, r, blob))
  BY LeadsReject
<1> QED
  BY <1>1, LeadsOn

\* The numbers and names of the script's stages.
LEMMA ScriptNumbers ==
  /\ 2 \in Sends /\ 3 \in Sends /\ 4 \in Sends /\ 5 \in Sends /\ 6 \in Sends
  /\ 7 \in Sends /\ 8 \in Sends /\ 9 \in Sends /\ 10 \in Sends /\ 1 \in Sends /\ 0 \in Sends
  /\ 0 \in Bads /\ 1 \in Bads /\ 2 \in Bads /\ 3 \in Bads /\ 4 \in Bads
  /\ 0 \in Two /\ 1 \in Two
  /\ 0 + 1 = 1 /\ 1 + 1 = 2 /\ 2 + 1 = 3 /\ 3 + 1 = 4 /\ 4 + 1 = 5 /\ 5 + 1 = 6
  /\ 6 + 1 = 7 /\ 7 + 1 = 8 /\ 8 + 1 = 9 /\ 9 + 1 = 10
  BY DEF Two, Sends, Bads

\* Three checks in a line.
LEMMA ThreeChecks ==
  ASSUME NEW b \in Stages,
         NEW w1 \in Checks, NEW w2 \in Checks, NEW w3 \in Checks,
         Meets(b, w1), Meets(b, w2), Meets(b, w3)
  PROVE  Leads(b, << Check(w1), Check(w2), Check(w3) >>, b)
<1>1. ASSUME NEW x \in Lines, NEW y \in Lines, NEW z \in Lines
      PROVE  /\ << x, y, z >> \in Seq(Lines) /\ Len(<< x, y, z >>) = 3
             /\ \A i \in 1 .. 3 : i = 1 \/ i = 2 \/ i = 3
  OBVIOUS
<1>2. \A what \in Checks : Check(what) \in Lines
  BY DEF Lines
<1> DEFINE t == << Check(w1), Check(w2), Check(w3) >>
<1>3. t \in Seq(Lines) /\ Len(t) = 3 /\ \A i \in 1 .. 3 : i = 1 \/ i = 2 \/ i = 3
  BY <1>1, <1>2
<1>4. t[1] = Check(w1) /\ t[2] = Check(w2) /\ t[3] = Check(w3)
  OBVIOUS
<1> HIDE DEF t
<1>5. \A i \in 1 .. Len(t) : \E what \in Checks : t[i] = Check(what) /\ Meets(b, what)
  BY <1>3, <1>4
<1>6. Leads(b, t, b)
  BY <1>3, <1>5, LeadsChecks
<1> QED
  BY <1>6 DEF t

\* Four checks in a line.
LEMMA FourChecks ==
  ASSUME NEW b \in Stages,
         NEW w1 \in Checks, NEW w2 \in Checks, NEW w3 \in Checks, NEW w4 \in Checks,
         Meets(b, w1), Meets(b, w2), Meets(b, w3), Meets(b, w4)
  PROVE  Leads(b, << Check(w1), Check(w2), Check(w3), Check(w4) >>, b)
<1>1. ASSUME NEW x \in Lines, NEW y \in Lines, NEW z \in Lines, NEW w \in Lines
      PROVE  /\ << x, y, z, w >> \in Seq(Lines) /\ Len(<< x, y, z, w >>) = 4
             /\ \A i \in 1 .. 4 : i = 1 \/ i = 2 \/ i = 3 \/ i = 4
  OBVIOUS
<1>2. \A what \in Checks : Check(what) \in Lines
  BY DEF Lines
<1> DEFINE t == << Check(w1), Check(w2), Check(w3), Check(w4) >>
<1>3. t \in Seq(Lines) /\ Len(t) = 4 /\ \A i \in 1 .. 4 : i = 1 \/ i = 2 \/ i = 3 \/ i = 4
  BY <1>1, <1>2
<1>4. t[1] = Check(w1) /\ t[2] = Check(w2) /\ t[3] = Check(w3) /\ t[4] = Check(w4)
  OBVIOUS
<1> HIDE DEF t
<1>5. \A i \in 1 .. Len(t) : \E what \in Checks : t[i] = Check(what) /\ Meets(b, what)
  BY <1>3, <1>4
<1>6. Leads(b, t, b)
  BY <1>3, <1>5, LeadsChecks
<1> QED
  BY <1>6 DEF t

\* Three bad pulses are three rejections, and leave the slot empty.
LEMMA LeadsBadPulses ==
  ASSUME NEW last \in Programs
  PROVE  Leads(Stage(0, 0, 0, 0, 0, last), BadPulses, Stage(0, 0, 3, 0, 0, "bad"))
<1> DEFINE a == Stage(0, 0, 0, 0, 0, last)
           b == Stage(0, 0, 3, 0, 0, "bad")
           s1 == << Check("refuse"), Note >>
           s2 == s1 \o Early(0, "mal", Kernel)
           s3 == s2 \o Early(0, "pay", Kernel)
           s4 == s3 \o Early(0, "bad", Kernel)
           t == << Check("three-rejected"), Check("slot-empty"), Check("refuse"),
                   Check("canary1") >>
<1>0. {"mal", "pay", "bad"} \subseteq Programs /\ {"mal", "pay", "bad"} \subseteq Rejects
  BY DEF Programs, Names, Rejects
<1>1. /\ a \in Stages /\ a.owed = 0
      /\ b \in Stages /\ b.owed = 0 /\ b.sent = 0 /\ b.bad = 3 /\ b.noted = 0
  <2>1. last \in Programs /\ "bad" \in Programs /\ 0 \in Two /\ 0 \in Sends /\ 0 \in Bads
        /\ 3 \in Bads
    BY <1>0, ScriptNumbers
  <2>2. a \in Stages /\ a.owed = 0
    BY <2>1, StageIs
  <2>3. b \in Stages /\ b.owed = 0 /\ b.sent = 0 /\ b.bad = 3 /\ b.noted = 0
    BY <2>1, StageIs
  <2> QED
    BY <2>2, <2>3
<1>2. {"three-rejected", "slot-empty", "refuse", "canary1"} \subseteq Checks
  BY DEF Checks
<1>3. Leads(a, s1, a)
  <2>1. Leads(a, << Check("refuse") >>, a)
    <3>1. Meets(a, "refuse")
      BY <1>1 DEF Meets
    <3> QED
      BY <1>1, <1>2, <3>1, LeadsCheck
  <2>2. Leads(a, << Note >>, a)
    BY ScriptNumbers, LeadsNote
  <2>3. s1 = << Check("refuse") >> \o << Note >>
    BY Pairs
  <2> QED
    BY <2>1, <2>2, <2>3, LeadsOn
<1> HIDE DEF s1
<1>4. Leads(a, s2, Stage(0, 0, 1, 0, 0, "mal"))
  BY <1>0, <1>3, ScriptNumbers, ThenReject
<1> HIDE DEF s2
<1>5. Leads(a, s3, Stage(0, 0, 2, 0, 0, "pay"))
  BY <1>0, <1>4, ScriptNumbers, ThenReject
<1> HIDE DEF s3
<1>6. Leads(a, s4, b)
  BY <1>0, <1>5, ScriptNumbers, ThenReject
<1> HIDE DEF s4, a, b
<1>7. Leads(b, t, b)
  <2>1. /\ Meets(b, "three-rejected") /\ Meets(b, "slot-empty") /\ Meets(b, "refuse")
        /\ Meets(b, "canary1")
    BY <1>1 DEF Meets
  <2> QED
    BY <1>1, <1>2, <2>1, FourChecks
<1> HIDE DEF t
<1>8. Leads(a, s4 \o t, b)
  BY <1>6, <1>7, LeadsOn
<1> QED
  BY <1>8 DEF a, b, s1, s2, s3, s4, t, BadPulses

\* Two messages owe one entry, and room 1 takes it.
LEMMA LeadsOneEntry ==
  Leads(Stage(0, 0, 3, 0, 0, "bad"), OneEntry, Stage(0, 2, 3, 0, 1, "recv"))
<1> DEFINE a == Stage(0, 0, 3, 0, 0, "bad")
           b == Stage(1, 2, 3, 0, 0, "send")
           c == Stage(0, 2, 3, 0, 1, "recv")
           s1 == SendOnce
           s2 == s1 \o SendOnce
           s3 == s2 \o << Check("slot-filled"), Check("canary1") >>
           s4 == s3 \o Early(1, "recv", Kernel)
           t == << Check("received"), Check("refuse"), Check("canary0") >>
<1>0. {"bad", "send", "recv"} \subseteq Programs /\ "received" \in Checks
  BY DEF Programs, Names, Checks
<1>1. b \in Stages /\ b.sent = 2
  BY <1>0, ScriptNumbers, StageIs
<1>2. c \in Stages /\ c.owed = 0 /\ c.blob = "recv"
  BY <1>0, ScriptNumbers, StageIs
<1>3. Leads(a, s1, Stage(1, 1, 3, 0, 0, "send"))
  <2>1. Leads(a, s1, Stage(1, 0 + 1, 3, 0, 0, "send"))
    BY <1>0, ScriptNumbers, LeadsSend
  <2> QED
    BY <2>1
<1> HIDE DEF s1
<1>4. Leads(a, s2, b)
  BY <1>0, <1>3, ScriptNumbers, ThenSend
<1> HIDE DEF s2, a
<1>5. Leads(a, s3, b)
  <2>1. /\ Meets(b, "slot-filled") /\ Meets(b, "canary1")
        /\ {"slot-filled", "canary1"} \subseteq Checks
    BY <1>1 DEF Meets, Checks
  <2> QED
    BY <1>1, <1>4, <2>1, ThenChecks
<1> HIDE DEF s3
<1>6. Leads(a, s4, c)
  <2>1. Leads(b, Early(1, "recv", Kernel), c)
    BY <1>0, ScriptNumbers, LeadsReceive
  <2> QED
    BY <1>5, <2>1, LeadsOn
<1> HIDE DEF s4, b, c
<1>7. Leads(c, t, c)
  <2>1. Meets(c, "received") /\ Meets(c, "refuse") /\ Meets(c, "canary0")
    BY <1>2 DEF Meets
  <2> QED
    BY <1>2, <2>1, ThreeChecks DEF Checks
<1> HIDE DEF t
<1>8. Leads(a, s4 \o t, c)
  BY <1>6, <1>7, LeadsOn
<1> QED
  BY <1>8 DEF a, b, c, s1, s2, s3, s4, t, OneEntry

\* Room 1 is contained, an entry for each of its programs.
LEMMA LeadsOtherContained ==
  Leads(Stage(0, 2, 3, 0, 1, "recv"), OtherContained, Stage(0, 7, 3, 0, 1, "steal"))
<1> DEFINE a == Stage(0, 2, 3, 0, 1, "recv")
           s1 == SendOnce \o Contained(1, "store", Data(0))
           s2 == s1 \o << Check("canary0"), Check("canary1") >>
           s3 == s2 \o SendOnce \o Contained(1, "fault", Kernel)
           s4 == s3 \o SendOnce \o Contained(1, "exec", Code(0))
           s5 == s4 \o SendOnce \o Contained(1, "store", Code(1))
           s6 == s5 \o << Check("code1") >>
           s7 == s6 \o SendOnce \o Contained(1, "steal", Kernel)
<1>0. /\ {"send", "recv", "store", "fault", "exec", "steal"} \subseteq Programs
      /\ {"store", "fault", "exec", "steal"} \subseteq Mild
      /\ Data(0) # Data(1) /\ Code(1) # Data(1)
  BY DEF Programs, Names, Mild, Data, Code
<1>1. Leads(a, s1, Stage(0, 3, 3, 0, 1, "store"))
  <2>1. Leads(a, SendOnce, Stage(1, 2 + 1, 3, 0, 0, "send"))
    BY <1>0, ScriptNumbers, LeadsSend
  <2>2. Leads(a, SendOnce, Stage(1, 3, 3, 0, 0, "send"))
    BY <2>1
  <2> QED
    BY <1>0, <2>2, ScriptNumbers, ScriptPages, ThenContained1
<1> HIDE DEF a, s1
<1>2. Leads(a, s2, Stage(0, 3, 3, 0, 1, "store"))
  <2>1. Stage(0, 3, 3, 0, 1, "store") \in Stages
    BY <1>0, ScriptNumbers, StageIs
  <2> QED
    BY <1>1, <2>1, MeetsAlways, ThenChecks
<1> HIDE DEF s2
<1>3. Leads(a, s3, Stage(0, 4, 3, 0, 1, "fault"))
  <2>1. Leads(a, s2 \o SendOnce, Stage(1, 4, 3, 0, 0, "send"))
    BY <1>0, <1>2, ScriptNumbers, ThenSend
  <2> QED
    BY <1>0, <2>1, ScriptNumbers, ScriptPages, ThenContained1
<1> HIDE DEF s3
<1>4. Leads(a, s4, Stage(0, 5, 3, 0, 1, "exec"))
  <2>1. Leads(a, s3 \o SendOnce, Stage(1, 5, 3, 0, 0, "send"))
    BY <1>0, <1>3, ScriptNumbers, ThenSend
  <2> QED
    BY <1>0, <2>1, ScriptNumbers, ScriptPages, ThenContained1
<1> HIDE DEF s4
<1>5. Leads(a, s5, Stage(0, 6, 3, 0, 1, "store"))
  <2>1. Leads(a, s4 \o SendOnce, Stage(1, 6, 3, 0, 0, "send"))
    BY <1>0, <1>4, ScriptNumbers, ThenSend
  <2> QED
    BY <1>0, <2>1, ScriptNumbers, ScriptPages, ThenContained1
<1> HIDE DEF s5
<1>6. Leads(a, s6, Stage(0, 6, 3, 0, 1, "store"))
  <2> DEFINE b == Stage(0, 6, 3, 0, 1, "store")
  <2>1. b \in Stages /\ b.room = 1 /\ b.blob = "store"
    BY <1>0, ScriptNumbers, StageIs
  <2>2. Meets(b, "code1")
    BY <2>1 DEF Meets
  <2> QED
    BY <1>5, <2>1, <2>2, MeetsAlways, ThenCheck
<1> HIDE DEF s6
<1>7. Leads(a, s7, Stage(0, 7, 3, 0, 1, "steal"))
  <2>1. Leads(a, s6 \o SendOnce, Stage(1, 7, 3, 0, 0, "send"))
    BY <1>0, <1>6, ScriptNumbers, ThenSend
  <2> QED
    BY <1>0, <2>1, ScriptNumbers, ScriptPages, ThenContained1
<1> HIDE DEF s7
<1>8. Leads(a, s7 \o << Check("cval") >>, Stage(0, 7, 3, 0, 1, "steal"))
  <2>1. Stage(0, 7, 3, 0, 1, "steal") \in Stages
    BY <1>0, ScriptNumbers, StageIs
  <2> QED
    BY <1>7, <2>1, MeetsAlways, ThenCheck
<1> QED
  BY <1>8 DEF a, s1, s2, s3, s4, s5, s6, s7, OtherContained

\* Room 1's own pulse is rejected, and a spinning room is ended by either interrupt.
LEMMA LeadsEnds ==
  Leads(Stage(0, 7, 3, 0, 1, "steal"), Ends, Stage(0, 10, 4, 3, 1, "spin"))
<1> DEFINE a == Stage(0, 7, 3, 0, 1, "steal")
           b == Stage(0, 8, 4, 3, 1, "reply")
           c == Stage(0, 10, 4, 3, 1, "spin")
           x == Poked(RunBlob(1, "spin", Kernel, "foreign"))
           y == RunBlob(1, "spin", Kernel, "irq")
           s1 == << Note >> \o SendOnce
           s2 == s1 \o Early(1, "reply", Kernel)
           s3 == s2 \o << Check("one-rejected"), Check("refuse") >>
           s4 == s3 \o SendOnce \o << x >>
           s5 == s4 \o << Check("canary0"), Check("canary1") >>
           s6 == s5 \o SendOnce
<1>0. /\ "send" \in Programs /\ "reply" \in Programs /\ "steal" \in Programs
      /\ "spin" \in Programs /\ "spin" \in Mild /\ "spin" \in Names /\ "reply" \in Rejects
  BY DEF Programs, Names, Mild, Rejects, Checks
<1>1. b \in Stages /\ b.owed = 0 /\ b.bad = 4 /\ b.noted = 3
  BY <1>0, ScriptNumbers, StageIs
<1>2. /\ x \in RunLines /\ x.room = 1 /\ x.blob = "spin"
      /\ y \in RunLines /\ y.room = 1 /\ y.blob = "spin"
  <2>1. 1 \in Two /\ "foreign" \in Wants /\ "irq" \in Wants
    BY DEF Two, Wants, Reasons
  <2> QED
    BY <1>0, <2>1, ScriptPages, RunBlobIs
<1>3. Leads(a, s1, Stage(1, 8, 3, 3, 0, "send"))
  <2>1. Leads(a, << Note >>, Stage(0, 7, 3, 3, 1, "steal"))
    BY <1>0, ScriptNumbers, LeadsNote
  <2> QED
    BY <1>0, <2>1, ScriptNumbers, ThenSend
<1> HIDE DEF a, s1, x, y
<1>4. Leads(a, s2, b)
  BY <1>0, <1>3, ScriptNumbers, ThenReject
<1> HIDE DEF s2
<1>5. Leads(a, s3, b)
  <2>1. Meets(b, "one-rejected") /\ Meets(b, "refuse")
    BY <1>1 DEF Meets
  <2> QED
    BY <1>1, <1>4, <2>1, ThenChecks DEF Checks
<1> HIDE DEF s3
<1>6. Leads(a, s4, Stage(0, 9, 4, 3, 1, "spin"))
  <2>1. Leads(a, s3 \o SendOnce, Stage(1, 9, 4, 3, 0, "send"))
    BY <1>0, <1>5, ScriptNumbers, ThenSend
  <2> QED
    BY <1>0, <1>2, <2>1, ScriptNumbers, ThenMild1
<1> HIDE DEF s4
<1>7. Leads(a, s5, Stage(0, 9, 4, 3, 1, "spin"))
  <2>1. Stage(0, 9, 4, 3, 1, "spin") \in Stages
    BY <1>0, ScriptNumbers, StageIs
  <2> QED
    BY <1>6, <2>1, MeetsAlways, ThenChecks
<1> HIDE DEF s5
<1>8. Leads(a, s6, Stage(1, 10, 4, 3, 0, "send"))
  BY <1>0, <1>7, ScriptNumbers, ThenSend
<1> HIDE DEF s6
<1>9. Leads(a, s6 \o << y, Check("canary0") >>, c)
  <2>1. Leads(Stage(1, 10, 4, 3, 0, "send"), << y >>, c)
    <3>1. y.blob \in Mild /\ y.blob # "store" /\ (IF y.room = 0 THEN 1 ELSE 0) = 0
      BY <1>0, <1>2
    <3>2. Leads(Stage(1, 10, 4, 3, 0, "send"), << y >>,
                Stage(IF y.room = 0 THEN 1 ELSE 0, 10, 4, 3, y.room, y.blob))
      BY <1>0, <1>2, <3>1, ScriptNumbers, LeadsMild
    <3> QED
      BY <1>2, <3>1, <3>2
  <2>2. Leads(c, << Check("canary0") >>, c)
    <3>1. c \in Stages
      BY <1>0, ScriptNumbers, StageIs
    <3> QED
      BY <3>1, MeetsAlways, LeadsCheck
  <2>3. << y >> \o << Check("canary0") >> = << y, Check("canary0") >>
    BY Pairs
  <2>4. Leads(Stage(1, 10, 4, 3, 0, "send"), << y, Check("canary0") >>, c)
    BY <2>1, <2>2, <2>3, LeadsOn
  <2> QED
    BY <1>8, <2>4, LeadsOn
<1> QED
  BY <1>9 DEF a, b, c, x, y, s1, s2, s3, s4, s5, s6, Ends

\* The script passes, line by line, from its first to its last.
LEMMA ScriptLeads ==
  \E b : Leads(Stage(0, 0, 0, 0, 0, "zero"), Script, b)
<1>1. PICK last \in Programs :
        Leads(Stage(0, 0, 0, 0, 0, "zero"), RootContained, Stage(0, 0, 0, 0, 0, last))
  BY LeadsRootContained
<1>2. Leads(Stage(0, 0, 0, 0, 0, "zero"), RootContained \o BadPulses,
            Stage(0, 0, 3, 0, 0, "bad"))
  BY <1>1, LeadsBadPulses, LeadsOn
<1>3. Leads(Stage(0, 0, 0, 0, 0, "zero"), RootContained \o BadPulses \o OneEntry,
            Stage(0, 2, 3, 0, 1, "recv"))
  BY <1>2, LeadsOneEntry, LeadsOn
<1>4. Leads(Stage(0, 0, 0, 0, 0, "zero"),
            RootContained \o BadPulses \o OneEntry \o OtherContained,
            Stage(0, 7, 3, 0, 1, "steal"))
  BY <1>3, LeadsOtherContained, LeadsOn
<1>5. Leads(Stage(0, 0, 0, 0, 0, "zero"), Script, Stage(0, 10, 4, 3, 1, "spin"))
  BY <1>4, LeadsEnds, LeadsOn DEF Script
<1> QED
  BY <1>5

-----------------------------------------------------------------------------
(***************************************************************************)
(* The programs.                                                            *)
(***************************************************************************)
\* Sequences of two and of four, and two more.
LEMMA Quads ==
  ASSUME NEW x, NEW y, NEW z, NEW w
  PROVE  << x, y >> \o << z, w >> = << x, y, z, w >>
<1> DEFINE S == {x, y, z, w}
           s == << x, y >> \o << z, w >>
<1>1. << x, y >> \in Seq(S) /\ << z, w >> \in Seq(S)
  OBVIOUS
<1>2. /\ Len(<< x, y >>) = 2 /\ Len(<< z, w >>) = 2 /\ << x, y >>[1] = x /\ << x, y >>[2] = y
      /\ << z, w >>[1] = z /\ << z, w >>[2] = w
  OBVIOUS
<1>3. s \in Seq(S) /\ Len(s) = 4 /\ s[1] = x /\ s[2] = y /\ s[3] = z /\ s[4] = w
  BY <1>1, <1>2, ConcatProperties
<1>4. /\ << x, y, z, w >> \in Seq(S) /\ Len(<< x, y, z, w >>) = 4 /\ << x, y, z, w >>[1] = x
      /\ << x, y, z, w >>[2] = y /\ << x, y, z, w >>[3] = z /\ << x, y, z, w >>[4] = w
  OBVIOUS
<1> HIDE DEF s, S
<1>5. s = << x, y, z, w >>
  <2> DEFINE q == << x, y, z, w >>
  <2>1. \A i \in 1 .. 4 : i = 1 \/ i = 2 \/ i = 3 \/ i = 4
    OBVIOUS
  <2>2. q \in Seq(S) /\ Len(q) = 4 /\ q[1] = x /\ q[2] = y /\ q[3] = z /\ q[4] = w
    BY <1>4
  <2> HIDE DEF q
  <2>3. \A i \in 1 .. Len(s) : s[i] = q[i]
    BY <1>3, <2>1, <2>2
  <2>4. s = q
    BY <1>3, <2>2, <2>3, SeqEqual
  <2> QED
    BY <2>4 DEF q
<1> QED
  BY <1>5 DEF s

\* Sequences of four, and two more.
LEMMA Sixes ==
  ASSUME NEW x, NEW y, NEW z, NEW w, NEW u, NEW v
  PROVE  << x, y, z, w >> \o << u, v >> = << x, y, z, w, u, v >>
<1> DEFINE S == {x, y, z, w, u, v}
           s == << x, y, z, w >> \o << u, v >>
           q == << x, y, z, w, u, v >>
<1>1. << x, y, z, w >> \in Seq(S) /\ << u, v >> \in Seq(S) /\ q \in Seq(S)
  OBVIOUS
<1>2. /\ Len(<< x, y, z, w >>) = 4 /\ Len(<< u, v >>) = 2
      /\ << x, y, z, w >>[1] = x /\ << x, y, z, w >>[2] = y
      /\ << x, y, z, w >>[3] = z /\ << x, y, z, w >>[4] = w
      /\ << u, v >>[1] = u /\ << u, v >>[2] = v
  OBVIOUS
<1>3. s \in Seq(S) /\ Len(s) = 6
  BY <1>1, <1>2, ConcatProperties
<1>4. s[1] = x /\ s[2] = y /\ s[3] = z /\ s[4] = w /\ s[5] = u /\ s[6] = v
  BY <1>1, <1>2, ConcatProperties
<1>5. /\ Len(q) = 6 /\ q[1] = x /\ q[2] = y /\ q[3] = z /\ q[4] = w /\ q[5] = u /\ q[6] = v
  OBVIOUS
<1> HIDE DEF s, S, q
<1>6. s = q
  <2>1. \A i \in 1 .. 6 : i = 1 \/ i = 2 \/ i = 3 \/ i = 4 \/ i = 5 \/ i = 6
    OBVIOUS
  <2>2. \A i \in 1 .. Len(s) : s[i] = q[i]
    BY <1>3, <1>4, <1>5, <2>1
  <2> QED
    BY <1>1, <1>3, <1>5, <2>2, SeqEqual
<1> QED
  BY <1>6 DEF s, q

\* What each instruction of a program is, by what it does.  Who writes a message writes his
\* own page, words 0 and 1 first; a pulse is the last thing before svc.
InsnOf(blob, insn, i, n) ==
  /\ i \in 1 .. n /\ n \in 1 .. 6
  /\ insn.op \in {"str", "ldr", "br", "copy", "msr", "pulse", "pulse-x1", "svc0", "b"}
  /\ insn.op = "str" =>
       \/ blob = "store" /\ insn.page = "x1"
       \/ /\ blob \in {"send", "mal", "pay", "reply"} /\ insn.page = "own"
          /\ i \in 1 .. 4 /\ i + 1 < n /\ insn.word = i - 1
          /\ i = 1 => insn.value = (IF blob \in {"send", "pay"} THEN 1 ELSE 0)
          /\ i = 2 => insn.value = (IF blob = "pay" THEN Other ELSE PAYLOAD)
          /\ i > 2 => insn.value = Other /\ blob = "send"
  /\ insn.op = "pulse" => blob \in {"send", "mal", "pay", "reply"} /\ i + 1 = n /\ i > 2
  /\ insn.op = "pulse-x1" => blob = "bad" /\ i = 1 /\ n = 2
  /\ insn.op = "svc0" => i = n
  /\ insn.op = "copy" => blob = "recv" /\ i = 1 /\ n = 2
  /\ insn.op = "ldr" => blob = "fault" /\ i = 1 /\ n = 2
  /\ insn.op = "msr" => blob = "steal"
  /\ blob = "send" <=> n = 6

\* The fields of an instruction.
LEMMA FieldsAre ==
  ASSUME NEW word, NEW value, NEW op
  PROVE  /\ Own(word, value).op = "str" /\ Own(word, value).page = "own"
         /\ Own(word, value).word = word /\ Own(word, value).value = value
         /\ Give(value).op = "str" /\ Give(value).page = "x1"
         /\ Do(op).op = op
  BY DEF Own, Give, Do

\* The program of each room is one of eleven.
LEMMA InsnsAre ==
  ASSUME NEW blob \in Names
  PROVE  /\ Len(Program(blob)) \in 1 .. 6
         /\ DOMAIN Program(blob) = 1 .. Len(Program(blob))
         /\ blob \in {"send", "recv"} \cup Rejects => Len(Program(blob)) > 1
         /\ \A i \in 1 .. Len(Program(blob)) :
              InsnOf(blob, Program(blob)[i], i, Len(Program(blob)))
<1> DEFINE P == Program(blob)
<1>1. CASE blob = "send"
  <2>1. P = << Own(0, 1), Own(1, PAYLOAD), Own(2, Other), Own(3, Other),
             Do("pulse"), Do("svc0") >>
    <3>1. << Own(0, 1), Own(1, PAYLOAD) >> \o << Own(2, Other), Own(3, Other) >>
            = << Own(0, 1), Own(1, PAYLOAD), Own(2, Other), Own(3, Other) >>
      BY Quads
    <3>2. P = << Own(0, 1), Own(1, PAYLOAD), Own(2, Other), Own(3, Other) >>
                \o << Do("pulse"), Do("svc0") >>
      BY <1>1, <3>1 DEF Program, Message2, Say
    <3> HIDE DEF P
    <3> QED
      BY <3>2, Sixes
  <2>2. /\ Len(P) = 6 /\ DOMAIN P = 1 .. 6
        /\ P[1] = Own(0, 1) /\ P[2] = Own(1, PAYLOAD) /\ P[3] = Own(2, Other)
        /\ P[4] = Own(3, Other) /\ P[5] = Do("pulse") /\ P[6] = Do("svc0")
    BY <2>1
  <2> HIDE DEF P
  <2>3. ASSUME NEW i \in 1 .. 6 PROVE InsnOf(blob, P[i], i, 6)
    <3>1. InsnOf(blob, P[1], 1, 6)
      BY <1>1, <2>2, FieldsAre DEF InsnOf
    <3>2. InsnOf(blob, P[2], 2, 6)
      BY <1>1, <2>2, FieldsAre DEF InsnOf
    <3>3. InsnOf(blob, P[3], 3, 6)
      BY <1>1, <2>2, FieldsAre DEF InsnOf
    <3>4. InsnOf(blob, P[4], 4, 6)
      BY <1>1, <2>2, FieldsAre DEF InsnOf
    <3>5. InsnOf(blob, P[5], 5, 6)
      BY <1>1, <2>2, FieldsAre DEF InsnOf
    <3>6. InsnOf(blob, P[6], 6, 6)
      BY <1>1, <2>2, FieldsAre DEF InsnOf
    <3> QED
      BY <3>1, <3>2, <3>3, <3>4, <3>5, <3>6
  <2>4. \A i \in 1 .. Len(P) : InsnOf(blob, P[i], i, Len(P))
    BY <2>2, <2>3
  <2>5. Len(P) \in 1 .. 6 /\ DOMAIN P = 1 .. Len(P)
        /\ (blob \in {"send", "recv"} \cup Rejects => Len(P) > 1)
    BY <1>1, <2>2 DEF Rejects
  <2> QED
    BY <2>4, <2>5 DEF P
<1>2. CASE blob = "mal"
  <2>1. P = << Own(0, 0), Own(1, PAYLOAD), Do("pulse"), Do("svc0") >>
    BY <1>2, Quads DEF Program, Message2, Say
  <2>2. /\ Len(P) = 4 /\ DOMAIN P = 1 .. 4
        /\ P[1] = Own(0, 0) /\ P[2] = Own(1, PAYLOAD) /\ P[3] = Do("pulse")
        /\ P[4] = Do("svc0")
    BY <2>1
  <2> HIDE DEF P
  <2>3. ASSUME NEW i \in 1 .. 4 PROVE InsnOf(blob, P[i], i, 4)
    <3>1. InsnOf(blob, P[1], 1, 4)
      BY <1>2, <2>2, FieldsAre DEF InsnOf
    <3>2. InsnOf(blob, P[2], 2, 4)
      BY <1>2, <2>2, FieldsAre DEF InsnOf
    <3>3. InsnOf(blob, P[3], 3, 4)
      BY <1>2, <2>2, FieldsAre DEF InsnOf
    <3>4. InsnOf(blob, P[4], 4, 4)
      BY <1>2, <2>2, FieldsAre DEF InsnOf
    <3> QED
      BY <3>1, <3>2, <3>3, <3>4
  <2>4. \A i \in 1 .. Len(P) : InsnOf(blob, P[i], i, Len(P))
    BY <2>2, <2>3
  <2>5. Len(P) \in 1 .. 6 /\ DOMAIN P = 1 .. Len(P)
        /\ (blob \in {"send", "recv"} \cup Rejects => Len(P) > 1)
    BY <1>2, <2>2 DEF Rejects
  <2> QED
    BY <2>4, <2>5 DEF P
<1>3. CASE blob = "pay"
  <2>1. P = << Own(0, 1), Own(1, Other), Do("pulse"), Do("svc0") >>
    BY <1>3, Quads DEF Program, Message2, Say
  <2>2. /\ Len(P) = 4 /\ DOMAIN P = 1 .. 4
        /\ P[1] = Own(0, 1) /\ P[2] = Own(1, Other) /\ P[3] = Do("pulse")
        /\ P[4] = Do("svc0")
    BY <2>1
  <2> HIDE DEF P
  <2>3. ASSUME NEW i \in 1 .. 4 PROVE InsnOf(blob, P[i], i, 4)
    <3>1. InsnOf(blob, P[1], 1, 4)
      BY <1>3, <2>2, FieldsAre DEF InsnOf
    <3>2. InsnOf(blob, P[2], 2, 4)
      BY <1>3, <2>2, FieldsAre DEF InsnOf
    <3>3. InsnOf(blob, P[3], 3, 4)
      BY <1>3, <2>2, FieldsAre DEF InsnOf
    <3>4. InsnOf(blob, P[4], 4, 4)
      BY <1>3, <2>2, FieldsAre DEF InsnOf
    <3> QED
      BY <3>1, <3>2, <3>3, <3>4
  <2>4. \A i \in 1 .. Len(P) : InsnOf(blob, P[i], i, Len(P))
    BY <2>2, <2>3
  <2>5. Len(P) \in 1 .. 6 /\ DOMAIN P = 1 .. Len(P)
        /\ (blob \in {"send", "recv"} \cup Rejects => Len(P) > 1)
    BY <1>3, <2>2 DEF Rejects
  <2> QED
    BY <2>4, <2>5 DEF P
<1>4. CASE blob = "reply"
  <2>1. P = << Own(0, 0), Own(1, PAYLOAD), Do("pulse"), Do("svc0") >>
    BY <1>4, Quads DEF Program, Message2, Say
  <2>2. /\ Len(P) = 4 /\ DOMAIN P = 1 .. 4
        /\ P[1] = Own(0, 0) /\ P[2] = Own(1, PAYLOAD) /\ P[3] = Do("pulse")
        /\ P[4] = Do("svc0")
    BY <2>1
  <2> HIDE DEF P
  <2>3. ASSUME NEW i \in 1 .. 4 PROVE InsnOf(blob, P[i], i, 4)
    <3>1. InsnOf(blob, P[1], 1, 4)
      BY <1>4, <2>2, FieldsAre DEF InsnOf
    <3>2. InsnOf(blob, P[2], 2, 4)
      BY <1>4, <2>2, FieldsAre DEF InsnOf
    <3>3. InsnOf(blob, P[3], 3, 4)
      BY <1>4, <2>2, FieldsAre DEF InsnOf
    <3>4. InsnOf(blob, P[4], 4, 4)
      BY <1>4, <2>2, FieldsAre DEF InsnOf
    <3> QED
      BY <3>1, <3>2, <3>3, <3>4
  <2>4. \A i \in 1 .. Len(P) : InsnOf(blob, P[i], i, Len(P))
    BY <2>2, <2>3
  <2>5. Len(P) \in 1 .. 6 /\ DOMAIN P = 1 .. Len(P)
        /\ (blob \in {"send", "recv"} \cup Rejects => Len(P) > 1)
    BY <1>4, <2>2 DEF Rejects
  <2> QED
    BY <2>4, <2>5 DEF P
<1>5. CASE blob = "bad"
  <2>1. P = << Do("pulse-x1"), Do("svc0") >>
    BY <1>5 DEF Program
  <2>2. /\ Len(P) = 2 /\ DOMAIN P = 1 .. 2
        /\ P[1] = Do("pulse-x1") /\ P[2] = Do("svc0")
    BY <2>1
  <2> HIDE DEF P
  <2>3. ASSUME NEW i \in 1 .. 2 PROVE InsnOf(blob, P[i], i, 2)
    <3>1. InsnOf(blob, P[1], 1, 2)
      BY <1>5, <2>2, FieldsAre DEF InsnOf
    <3>2. InsnOf(blob, P[2], 2, 2)
      BY <1>5, <2>2, FieldsAre DEF InsnOf
    <3> QED
      BY <3>1, <3>2
  <2>4. \A i \in 1 .. Len(P) : InsnOf(blob, P[i], i, Len(P))
    BY <2>2, <2>3
  <2>5. Len(P) \in 1 .. 6 /\ DOMAIN P = 1 .. Len(P)
        /\ (blob \in {"send", "recv"} \cup Rejects => Len(P) > 1)
    BY <1>5, <2>2 DEF Rejects
  <2> QED
    BY <2>4, <2>5 DEF P
<1>6. CASE blob = "recv"
  <2>1. P = << Do("copy"), Do("svc0") >>
    BY <1>6 DEF Program
  <2>2. /\ Len(P) = 2 /\ DOMAIN P = 1 .. 2
        /\ P[1] = Do("copy") /\ P[2] = Do("svc0")
    BY <2>1
  <2> HIDE DEF P
  <2>3. ASSUME NEW i \in 1 .. 2 PROVE InsnOf(blob, P[i], i, 2)
    <3>1. InsnOf(blob, P[1], 1, 2)
      BY <1>6, <2>2, FieldsAre DEF InsnOf
    <3>2. InsnOf(blob, P[2], 2, 2)
      BY <1>6, <2>2, FieldsAre DEF InsnOf
    <3> QED
      BY <3>1, <3>2
  <2>4. \A i \in 1 .. Len(P) : InsnOf(blob, P[i], i, Len(P))
    BY <2>2, <2>3
  <2>5. Len(P) \in 1 .. 6 /\ DOMAIN P = 1 .. Len(P)
        /\ (blob \in {"send", "recv"} \cup Rejects => Len(P) > 1)
    BY <1>6, <2>2 DEF Rejects
  <2> QED
    BY <2>4, <2>5 DEF P
<1>7. CASE blob = "fault"
  <2>1. P = << Do("ldr"), Do("svc0") >>
    BY <1>7 DEF Program
  <2>2. /\ Len(P) = 2 /\ DOMAIN P = 1 .. 2
        /\ P[1] = Do("ldr") /\ P[2] = Do("svc0")
    BY <2>1
  <2> HIDE DEF P
  <2>3. ASSUME NEW i \in 1 .. 2 PROVE InsnOf(blob, P[i], i, 2)
    <3>1. InsnOf(blob, P[1], 1, 2)
      BY <1>7, <2>2, FieldsAre DEF InsnOf
    <3>2. InsnOf(blob, P[2], 2, 2)
      BY <1>7, <2>2, FieldsAre DEF InsnOf
    <3> QED
      BY <3>1, <3>2
  <2>4. \A i \in 1 .. Len(P) : InsnOf(blob, P[i], i, Len(P))
    BY <2>2, <2>3
  <2>5. Len(P) \in 1 .. 6 /\ DOMAIN P = 1 .. Len(P)
        /\ (blob \in {"send", "recv"} \cup Rejects => Len(P) > 1)
    BY <1>7, <2>2 DEF Rejects
  <2> QED
    BY <2>4, <2>5 DEF P
<1>8. CASE blob = "store"
  <2>1. P = << Give(Blank), Do("svc0") >>
    BY <1>8 DEF Program
  <2>2. /\ Len(P) = 2 /\ DOMAIN P = 1 .. 2
        /\ P[1] = Give(Blank) /\ P[2] = Do("svc0")
    BY <2>1
  <2> HIDE DEF P
  <2>3. ASSUME NEW i \in 1 .. 2 PROVE InsnOf(blob, P[i], i, 2)
    <3>1. InsnOf(blob, P[1], 1, 2)
      BY <1>8, <2>2, FieldsAre DEF InsnOf
    <3>2. InsnOf(blob, P[2], 2, 2)
      BY <1>8, <2>2, FieldsAre DEF InsnOf
    <3> QED
      BY <3>1, <3>2
  <2>4. \A i \in 1 .. Len(P) : InsnOf(blob, P[i], i, Len(P))
    BY <2>2, <2>3
  <2>5. Len(P) \in 1 .. 6 /\ DOMAIN P = 1 .. Len(P)
        /\ (blob \in {"send", "recv"} \cup Rejects => Len(P) > 1)
    BY <1>8, <2>2 DEF Rejects
  <2> QED
    BY <2>4, <2>5 DEF P
<1>9. CASE blob = "steal"
  <2>1. P = << Do("msr"), Do("svc0") >>
    BY <1>9 DEF Program
  <2>2. /\ Len(P) = 2 /\ DOMAIN P = 1 .. 2
        /\ P[1] = Do("msr") /\ P[2] = Do("svc0")
    BY <2>1
  <2> HIDE DEF P
  <2>3. ASSUME NEW i \in 1 .. 2 PROVE InsnOf(blob, P[i], i, 2)
    <3>1. InsnOf(blob, P[1], 1, 2)
      BY <1>9, <2>2, FieldsAre DEF InsnOf
    <3>2. InsnOf(blob, P[2], 2, 2)
      BY <1>9, <2>2, FieldsAre DEF InsnOf
    <3> QED
      BY <3>1, <3>2
  <2>4. \A i \in 1 .. Len(P) : InsnOf(blob, P[i], i, Len(P))
    BY <2>2, <2>3
  <2>5. Len(P) \in 1 .. 6 /\ DOMAIN P = 1 .. Len(P)
        /\ (blob \in {"send", "recv"} \cup Rejects => Len(P) > 1)
    BY <1>9, <2>2 DEF Rejects
  <2> QED
    BY <2>4, <2>5 DEF P
<1>10. CASE blob = "exec"
  <2>1. P = << Do("br") >>
    BY <1>10 DEF Program
  <2>2. /\ Len(P) = 1 /\ DOMAIN P = 1 .. 1
        /\ P[1] = Do("br")
    BY <2>1
  <2> HIDE DEF P
  <2>3. ASSUME NEW i \in 1 .. 1 PROVE InsnOf(blob, P[i], i, 1)
    <3>1. InsnOf(blob, P[1], 1, 1)
      BY <1>10, <2>2, FieldsAre DEF InsnOf
    <3> QED
      BY <3>1
  <2>4. \A i \in 1 .. Len(P) : InsnOf(blob, P[i], i, Len(P))
    BY <2>2, <2>3
  <2>5. Len(P) \in 1 .. 6 /\ DOMAIN P = 1 .. Len(P)
        /\ (blob \in {"send", "recv"} \cup Rejects => Len(P) > 1)
    BY <1>10, <2>2 DEF Rejects
  <2> QED
    BY <2>4, <2>5 DEF P
<1>11. CASE blob = "spin"
  <2>1. P = << Do("b") >>
    BY <1>11 DEF Program
  <2>2. /\ Len(P) = 1 /\ DOMAIN P = 1 .. 1
        /\ P[1] = Do("b")
    BY <2>1
  <2> HIDE DEF P
  <2>3. ASSUME NEW i \in 1 .. 1 PROVE InsnOf(blob, P[i], i, 1)
    <3>1. InsnOf(blob, P[1], 1, 1)
      BY <1>11, <2>2, FieldsAre DEF InsnOf
    <3> QED
      BY <3>1
  <2>4. \A i \in 1 .. Len(P) : InsnOf(blob, P[i], i, Len(P))
    BY <2>2, <2>3
  <2>5. Len(P) \in 1 .. 6 /\ DOMAIN P = 1 .. Len(P)
        /\ (blob \in {"send", "recv"} \cup Rejects => Len(P) > 1)
    BY <1>11, <2>2 DEF Rejects
  <2> QED
    BY <2>4, <2>5 DEF P
<1> QED
  BY <1>1, <1>2, <1>3, <1>4, <1>5, <1>6, <1>7, <1>8, <1>9, <1>10, <1>11 DEF Names

-----------------------------------------------------------------------------
(***************************************************************************)
(* The invariant.  Ann gives each line its stage.  Between lines the state  *)
(* is that of the stage; while a run is under way it is that of the stage   *)
(* with what the program has done so far, which its next instruction tells. *)
(* What lets the programs' steps keep it is what Room promises: a room      *)
(* writes no page but its own data page, and the timer is out of its reach. *)
(***************************************************************************)
Ann == CHOOSE ann : Leading(ann, Script) /\ ann[1] = Stage(0, 0, 0, 0, 0, "zero")

AtStage(a) ==
  /\ grant = IF a.owed = 1 THEN 1 ELSE ROOM_N
  /\ delivered = a.sent /\ rejected = a.bad /\ rej = a.noted
  /\ first[a.room] = a.blob
  /\ a.blob = "send" => delivered = d + 1
  /\ a.blob = "recv" => words[1][2] = PAYLOAD

\* What a program has written before its next instruction.
Written(blob) ==
  /\ blob = "send" /\ ip > 1 => mem[Data(0)].dest = 1
  /\ blob = "send" /\ ip > 2 => mem[Data(0)].pay = PAYLOAD
  /\ blob = "mal" /\ ip > 1 => mem[Data(0)].dest = 0
  /\ blob = "pay" /\ ip > 2 => mem[Data(0)].pay = Other
  /\ blob = "recv" /\ ip > 1 => words[1][2] = PAYLOAD

\* The pulse is the last instruction but one.
Running(a, x) ==
  LET n == Len(Program(x.blob))
  IN  /\ cur = x.room /\ first[x.room] = x.blob /\ rej = a.noted
      /\ ip \in 1 .. n
      /\ mode \in {"prepared", "armed"} => ip = 1
      /\ x.blob = "send" => d = a.sent
      /\ delivered = IF x.blob = "send" /\ ip = n THEN a.sent + 1 ELSE a.sent
      /\ rejected = IF x.blob \in Rejects /\ ip = n THEN a.bad + 1 ELSE a.bad
      /\ grant = IF (x.blob = "send" /\ ip = n) \/ (x.room = 0 /\ a.owed = 1) THEN 1 ELSE ROOM_N
      /\ Written(x.blob)
      /\ mode = "left" /\ reason = "svc" => ip = n

Between == {"boot", "idle"}
Under   == {"prepared", "armed", "room", "left"}

ScriptType ==
  /\ words \in [Rooms -> [2 .. 4 -> Payloads \cup {Canary}]]
  /\ first \in [Rooms -> Programs]
  /\ line \in 1 .. Len(Script) + 1

\* Once the data pages are cleared, the slot is empty until the first message and holds one
\* ever after, and no program reaches the canaries.
KeptInv ==
  /\ mode \notin {"boot", "halted"} =>
       /\ mem[Data(1)].pay = IF delivered = 0 THEN Blank ELSE PAYLOAD
       /\ words[0][4] = Canary /\ words[1][4] = Canary /\ words[1][3] = Blank
  /\ mode \notin {"armed", "halted"} => left = armed

LineInv ==
  /\ mode = "boot" => line = 1
  /\ mode \in Between => AtStage(Ann[line])
  /\ mode \in Under => line \in 1 .. Len(Script) /\ At.do = "run" /\ Running(Ann[line], At)

ScriptInv == ScriptHolds /\ ScriptType /\ KeptInv /\ LineInv

\* What Room promises, as far as it is needed.
RoomInv == TypeOK /\ TableInv /\ DeadlineInv

\* The stages fit the lines.
LEMMA AnnIs ==
  /\ Ann[1] = Stage(0, 0, 0, 0, 0, "zero") /\ Len(Script) \in Nat
  /\ \A i \in 1 .. Len(Script) + 1 : Ann[i] \in Stages
  /\ \A i \in 1 .. Len(Script) : Passes(Ann[i], Script[i], Ann[i + 1])
<1>1. \E ann : Leading(ann, Script) /\ ann[1] = Stage(0, 0, 0, 0, 0, "zero")
  BY ScriptLeads DEF Leads
<1>2. Leading(Ann, Script) /\ Ann[1] = Stage(0, 0, 0, 0, 0, "zero")
  BY <1>1, Zenon DEF Ann
<1>3. Script \in Seq(Lines)
  BY ScriptLeads DEF Leads
<1> QED
  BY <1>2, <1>3 DEF Leading

\* The first stage: nothing sent, nothing owed.
LEMMA AnnFirst ==
  /\ Ann[1] \in Stages /\ Ann[1].owed = 0 /\ Ann[1].sent = 0 /\ Ann[1].bad = 0
  /\ Ann[1].noted = 0 /\ Ann[1].room = 0 /\ Ann[1].blob = "zero"
<1>1. "zero" \in Programs
  BY DEF Programs
<1> QED
  BY <1>1, AnnIs, ScriptNumbers, StageIs

\* A line of each kind is one of the script's lines of that kind, with what its stage allows.
LEMMA LineIs ==
  ASSUME NEW i \in 1 .. Len(Script)
  PROVE  /\ Ann[i] \in Stages /\ Ann[i + 1] \in Stages /\ i + 1 \in 1 .. Len(Script) + 1
         /\ Script[i].do = "run" => /\ Script[i] \in RunLines /\ MayRun(Ann[i], Script[i])
                                    /\ Ann[i + 1] = AfterRun(Ann[i], Script[i])
         /\ Script[i].do = "check" => /\ Script[i].what \in Checks
                                      /\ Meets(Ann[i], Script[i].what) /\ Ann[i + 1] = Ann[i]
         /\ Script[i].do = "note" =>
              Ann[i + 1] = Stage(Ann[i].owed, Ann[i].sent, Ann[i].bad, Ann[i].bad,
                                 Ann[i].room, Ann[i].blob)
<1> DEFINE a == Ann[i]
           b == Ann[i + 1]
           x == Script[i]
<1>1. a \in Stages /\ b \in Stages /\ i + 1 \in 1 .. Len(Script) + 1 /\ Passes(a, x, b)
  BY AnnIs
<1>2. Note.do = "note" /\ \A what : Check(what).do = "check" /\ Check(what).what = what
  BY DEF Note, Check
<1>3. x \in RunLines => x.do = "run"
  BY DEF RunLines
<1> HIDE DEF a, b, x
<1>4. x.do = "run" => x \in RunLines /\ MayRun(a, x) /\ b = AfterRun(a, x)
  BY <1>1, <1>2, <1>3 DEF Passes
<1>5. x.do = "check" => x.what \in Checks /\ Meets(a, x.what) /\ b = a
  BY <1>1, <1>2, <1>3 DEF Passes
<1>6. x.do = "note" => b = Stage(a.owed, a.sent, a.bad, a.bad, a.room, a.blob)
  BY <1>1, <1>2, <1>3 DEF Passes
<1> QED
  BY <1>1, <1>4, <1>5, <1>6 DEF a, b, x

\* What a stage after a run says.
LEMMA AfterRunIs ==
  ASSUME NEW a \in Stages, NEW x \in RunLines
  PROVE  /\ AfterRun(a, x).owed = IF x.blob = "send" THEN 1 ELSE IF x.room = 0 THEN a.owed ELSE 0
         /\ AfterRun(a, x).sent = IF x.blob = "send" THEN a.sent + 1 ELSE a.sent
         /\ AfterRun(a, x).bad = IF x.blob \in Rejects THEN a.bad + 1 ELSE a.bad
         /\ AfterRun(a, x).noted = a.noted
         /\ AfterRun(a, x).room = x.room /\ AfterRun(a, x).blob = x.blob
  BY DEF AfterRun, Stage

\* A counter below the script's ten does not wrap.
LEMMA BumpIs == ASSUME NEW n \in Nat, n < 10 PROVE Bump(n) = n + 1
  BY RoomAssumption, RoomsRunAssumption DEF RoomAssumption, RoomsRunAssumption, Bump

\* Rooms 0 and 1 are rooms, and the values of the script are what they are.
LEMMA RunRooms ==
  /\ 0 \in Rooms /\ 1 \in Rooms /\ Two \subseteq Rooms /\ ROOM_N # 1
  /\ PAYLOAD \in Payloads /\ Blank \in Payloads /\ Other \in Payloads
  /\ PAYLOAD # Blank /\ Other # PAYLOAD
  BY RoomAssumption, RoomsRunAssumption
  DEF RoomAssumption, RoomsRunAssumption, Rooms, Two

-----------------------------------------------------------------------------
(***************************************************************************)
(* Every step of the script keeps the invariant and is a step of Room.      *)
(***************************************************************************)
\* What the page tables of Room allow EL0, in a state of the invariant.
LEMMA RoomWindow == RoomInv => UserWindow
  BY WindowFromTable DEF RoomInv

\* The head of nxu_rooms_run: slot cleared, canaries planted, nothing sent.
LEMMA StartNext ==
  ASSUME RoomInv, ScriptInv, Start
  PROVE  Next /\ ScriptInv'
<1> USE DEF ScriptInv, ScriptType
<1>1. mode = "boot" /\ mode' = "idle" /\ line = 1 /\ line' = line /\ why' = why
  BY DEF Start, Setup, LineInv
<1>2. AtStage(Ann[1])
  BY <1>1 DEF LineInv, Between
<1>3. AtStage(Ann[1])'
  <2>1. /\ grant' = ROOM_N /\ delivered' = delivered /\ rejected' = rejected /\ rej' = rej
        /\ first' = first /\ d' = d
    BY DEF Start, Setup
  <2>2. grant = ROOM_N
    BY <1>2, AnnFirst DEF AtStage
  <2> QED
    BY <1>2, <2>1, <2>2, AnnFirst DEF AtStage
<1>4. ScriptHolds'
  BY <1>1 DEF ScriptHolds
<1>5. ScriptType'
  <2>1. words' \in [Rooms -> [2 .. 4 -> Payloads \cup {Canary}]]
    BY RunRooms DEF Start
  <2> QED
    BY <1>1, <2>1 DEF Start
<1>6. KeptInv'
  <2>1. mem'[Data(1)].pay = Blank
    BY ScriptPages, RunRooms DEF Start, Setup, Cleared, Data
  <2>2. delivered' = 0
    BY <1>2, AnnFirst DEF AtStage, Start, Setup
  <2>3. words'[0][4] = Canary /\ words'[1][4] = Canary /\ words'[1][3] = Blank
    BY RunRooms DEF Start
  <2>4. left' = armed'
    BY <1>1 DEF KeptInv, Start, Setup
  <2> QED
    BY <1>1, <2>1, <2>2, <2>3, <2>4 DEF KeptInv
<1>7. LineInv'
  <2>1. AtStage(Ann[line])'
    BY <1>1, <1>3
  <2> QED
    BY <1>1, <2>1 DEF LineInv, Under
<1> QED
  BY <1>4, <1>5, <1>6, <1>7 DEF Start, Next

\* What is known when a run of the script begins.
LEMMA AtRun ==
  ASSUME ScriptInv, ~Finished, At.do = "run"
  PROVE  /\ line \in 1 .. Len(Script) /\ At \in RunLines /\ MayRun(Ann[line], At)
         /\ Ann[line] \in Stages /\ Ann[line + 1] = AfterRun(Ann[line], At)
         /\ Ann[line + 1] \in Stages /\ line + 1 \in 1 .. Len(Script) + 1
         /\ At.room \in Rooms /\ At.blob \in Names /\ At.want \in Wants /\ At.poke \in BOOLEAN
<1>1. line \in 1 .. Len(Script)
  BY AnnIs DEF ScriptInv, ScriptType, Finished
<1>2. At \in RunLines /\ MayRun(Ann[line], At) /\ Ann[line + 1] = AfterRun(Ann[line], At)
  BY <1>1, LineIs DEF At
<1>3. Ann[line] \in Stages /\ Ann[line + 1] \in Stages /\ line + 1 \in 1 .. Len(Script) + 1
  BY <1>1, LineIs
<1>4. At.room \in Rooms /\ At.blob \in Names /\ At.want \in Wants /\ At.poke \in BOOLEAN
  BY <1>2, RunRooms DEF RunLines
<1> QED
  BY <1>1, <1>2, <1>3, <1>4

\* run admits the room its line names, and copies the program.
LEMMA BeginNext ==
  ASSUME RoomInv, ScriptInv, ~Finished, At.do = "run",
         \E blob \in Blobs : Run(At.room, blob),
         first' = [first EXCEPT ![At.room] = At.blob],
         d' = IF At.blob = "send" THEN delivered ELSE d, ip' = 1,
         UNCHANGED <<quiet, line, words, rej>>
  PROVE  Next /\ ScriptInv'
<1> DEFINE a == Ann[line]
           x == At
           r == At.room
<1>0. PICK blob \in Blobs : Run(r, blob)
  OBVIOUS
<1>1. /\ line \in 1 .. Len(Script) /\ x \in RunLines /\ MayRun(a, x) /\ a \in Stages
      /\ r \in Rooms /\ x.blob \in Names /\ r \in {0, 1}
  BY AtRun DEF RunLines, Two
<1>2. mode = "idle" /\ Consume(r)
  BY <1>0 DEF Run
<1>3. ~CopyFaults(r)
  BY <1>1, <1>2, CopySucceeds DEF RoomInv, TableInv
<1>4. /\ mem' = [mem EXCEPT ![Code(r)] = blob] /\ cur' = r /\ mode' = "prepared"
      /\ UNCHANGED <<why, reason, delivered, rejected, left, armed>>
  BY <1>0, <1>3 DEF Run, timerVars
<1>5. AtStage(a)
  BY <1>2 DEF ScriptInv, LineInv, Between
<1>6. mem'[Data(1)] = mem[Data(1)]
  BY <1>1, <1>4, ScriptPages DEF RoomInv, TypeOK, Code, Data
<1>7. ScriptHolds' /\ ScriptType'
  <2>1. first' \in [Rooms -> Programs]
    BY <1>1 DEF ScriptInv, ScriptType, Programs
  <2> QED
    BY <1>4, <2>1 DEF ScriptInv, ScriptType, ScriptHolds
<1>8. KeptInv'
  BY <1>2, <1>4, <1>6 DEF ScriptInv, KeptInv
<1>9. Running(a, x)'
  <2> DEFINE n == Len(Program(x.blob))
  <2>1. n \in 1 .. 6 /\ 1 \in 1 .. n /\ (x.blob \in {"send"} \cup Rejects => n > 1)
    <3>1. n \in 1 .. 6 /\ (x.blob \in {"send"} \cup Rejects => n > 1)
      BY <1>1, InsnsAre
    <3>2. \A k \in 1 .. 6 : 1 \in 1 .. k
      OBVIOUS
    <3> QED
      BY <3>1, <3>2
  <2>2. first'[x.room] = x.blob
    BY <1>1 DEF ScriptInv, ScriptType
  <2>3. grant' = IF r = 0 /\ a.owed = 1 THEN 1 ELSE ROOM_N
    BY <1>1, <1>2, <1>5 DEF AtStage, Consume, MayRun
  <2>4. Written(x.blob)'
    BY DEF Written
  <2>5. delivered' = a.sent /\ rejected' = a.bad /\ rej' = a.noted
        /\ (x.blob = "send" => d' = a.sent)
    BY <1>4, <1>5 DEF AtStage
  <2> HIDE DEF n
  <2>6. /\ cur' = r /\ first'[x.room] = x.blob /\ rej' = a.noted
        /\ ip' \in 1 .. n
        /\ mode' \in {"prepared", "armed"} => ip' = 1
        /\ x.blob = "send" => d' = a.sent
        /\ delivered' = IF x.blob = "send" /\ ip' = n THEN a.sent + 1 ELSE a.sent
        /\ rejected' = IF x.blob \in Rejects /\ ip' = n THEN a.bad + 1 ELSE a.bad
        /\ grant' = IF (x.blob = "send" /\ ip' = n) \/ (x.room = 0 /\ a.owed = 1)
                    THEN 1 ELSE ROOM_N
        /\ mode' = "left" /\ reason' = "svc" => ip' = n
    BY <1>4, <2>1, <2>2, <2>3, <2>5
  <2> QED
    BY <2>4, <2>6 DEF Running, n, At
<1>10. LineInv'
  <2>1. Running(Ann[line], At)' /\ line' = line /\ At' = At
    BY <1>9 DEF At
  <2> QED
    BY <1>1, <1>4, <2>1 DEF LineInv, Between
<1> QED
  BY <1>0, <1>1, <1>7, <1>8, <1>10 DEF ScriptInv, Next

\* A step that leaves the script and the edge alone, within a run.
LEMMA UnderNext ==
  ASSUME ScriptInv, mode \in Under, mode' \in Under,
         UNCHANGED <<cur, why, grant, delivered, rejected, mem, here>>,
         mode' \in {"prepared", "armed"} => mode \in {"prepared", "armed"},
         mode' # "armed" => left' = armed',
         mode' = "left" /\ reason' = "svc" =>
           (mode = "left" /\ reason = "svc") \/ ip = Len(Program(At.blob))
  PROVE  ScriptInv'
<1> USE DEF here
<1>1. line \in 1 .. Len(Script) /\ At.do = "run" /\ Running(Ann[line], At)
  BY DEF ScriptInv, LineInv
<1>2. At' = At /\ Ann[line]' = Ann[line]
  BY DEF At
<1>3. Running(Ann[line], At)'
  <2>1. Written(At.blob)'
    BY <1>1, <1>2 DEF Running, Written
  <2> DEFINE a == Ann[line]
             x == At
             n == Len(Program(x.blob))
  <2>2. /\ a' = a /\ x' = x /\ n' = n /\ Written(x.blob)'
        /\ cur' = cur /\ first' = first /\ rej' = rej /\ ip' = ip /\ d' = d
        /\ delivered' = delivered /\ rejected' = rejected /\ grant' = grant
    BY <1>1, <1>2, <2>1
  <2>3. /\ cur = x.room /\ first[x.room] = x.blob /\ rej = a.noted
        /\ ip \in 1 .. n
        /\ mode \in {"prepared", "armed"} => ip = 1
        /\ x.blob = "send" => d = a.sent
        /\ delivered = IF x.blob = "send" /\ ip = n THEN a.sent + 1 ELSE a.sent
        /\ rejected = IF x.blob \in Rejects /\ ip = n THEN a.bad + 1 ELSE a.bad
        /\ grant = IF (x.blob = "send" /\ ip = n) \/ (x.room = 0 /\ a.owed = 1)
                   THEN 1 ELSE ROOM_N
        /\ mode = "left" /\ reason = "svc" => ip = n
    BY <1>1 DEF Running
  <2> HIDE DEF a, x, n
  <2>4. /\ mode' \in {"prepared", "armed"} => ip' = 1
        /\ mode' = "left" /\ reason' = "svc" => ip' = n
    BY <2>2, <2>3 DEF n, x
  <2>5. Running(a, x)'
    BY <2>2, <2>3, <2>4 DEF Running, n
  <2> QED
    BY <2>5 DEF a, x
<1>4. KeptInv'
  BY DEF ScriptInv, KeptInv, Under
<1> QED
  BY <1>1, <1>2, <1>3, <1>4 DEF ScriptInv, ScriptHolds, ScriptType, LineInv, Between, Under

\* The kernel on the way to EL0: the deadline, and the last look at it.
LEMMA ArmNext ==
  ASSUME RoomInv, ScriptInv, ~Finished, At.do = "run", Arm(At.poke) \/ Enter, UNCHANGED here
  PROVE  Next /\ ScriptInv'
<1>1. /\ mode \in Under /\ mode' \in {"armed", "room"} /\ (mode' = "armed" => mode = "prepared")
      /\ mode' # "armed" => left' = armed'
      /\ UNCHANGED <<cur, why, grant, delivered, rejected, mem>>
  BY DEF Arm, Enter, Under, edgeVars
<1>2. ScriptInv'
  <2>1. mode' \in Under /\ mode' # "left"
    BY <1>1 DEF Under
  <2> QED
    BY <1>1, <2>1, UnderNext
<1>3. At.poke \in BOOLEAN
  BY AtRun
<1>4. Next
  BY <1>3 DEF Next, KernelStep
<1> QED
  BY <1>2, <1>4

\* A halt of which the script is not to blame.
LEMMA HaltNext ==
  ASSUME ScriptInv, mode' = "halted", why' \notin {"check", "grant", "sync"}, UNCHANGED here
  PROVE  ScriptInv'
  BY DEF here, ScriptInv, ScriptHolds, ScriptType, KeptInv, LineInv, Between, Under

\* A deadline that has passed, or a room that left as it should not or when it should not.
LEMMA StopNext ==
  ASSUME RoomInv, ScriptInv, ~Finished, At.do = "run", EnterLate \/ JudgeBad(At.want),
         UNCHANGED here
  PROVE  Next /\ ScriptInv'
<1>1. mode' = "halted" /\ why' \in {"late", "reason", "time"}
  BY DEF EnterLate, JudgeBad, Halt
<1>2. At.want \in Wants
  BY AtRun
<1>3. ScriptInv'
  BY <1>1, HaltNext
<1> QED
  BY <1>2, <1>3 DEF Next, KernelStep

\* No run of the script is refused: who is named is owed.
LEMMA RefusedNever ==
  ASSUME ScriptInv, ~Finished, At.do = "run" PROVE ~RunRefused(At.room)
<1> SUFFICES ASSUME RunRefused(At.room) PROVE FALSE
  OBVIOUS
<1>1. mode = "idle" /\ ~Admitted(At.room)
  BY DEF RunRefused
<1>2. AtStage(Ann[line])
  BY <1>1 DEF ScriptInv, LineInv, Between
<1>3. MayRun(Ann[line], At) /\ At.room \in {0, 1}
  BY AtRun DEF RunLines, Two
<1> QED
  BY <1>1, <1>2, <1>3 DEF AtStage, MayRun, Admitted

\* A run that ended as its line wants it has done all its stage says.
LEMMA JudgedNext ==
  ASSUME RoomInv, ScriptInv, ~Finished, At.do = "run", JudgeGood(At.want), line' = line + 1,
         UNCHANGED <<quiet, ip, words, first, d, rej>>
  PROVE  Next /\ ScriptInv'
<1> DEFINE a == Ann[line]
           x == At
           b == Ann[line + 1]
           n == Len(Program(x.blob))
<1>1. /\ line \in 1 .. Len(Script) /\ x \in RunLines /\ MayRun(a, x) /\ a \in Stages
      /\ b = AfterRun(a, x) /\ line + 1 \in 1 .. Len(Script) + 1 /\ x.want \in Wants
  BY AtRun
<1>2. /\ mode = "left" /\ mode' = "idle" /\ reason = x.want
      /\ UNCHANGED <<why, grant, delivered, rejected, mem, left, armed>>
  BY DEF JudgeGood, edgeVars, timerVars
<1>3. Running(a, x)
  BY <1>2 DEF ScriptInv, LineInv, Under
<1>4. x.blob \in {"send", "recv"} \cup Rejects => ip = n
  BY <1>1, <1>2, <1>3 DEF MayRun, Running
<1>5. x.blob \in Names /\ x.room \in {0, 1}
  BY <1>1 DEF RunLines, Two
<1>6. x.blob \in {"send", "recv"} \cup Rejects => n > 1
  BY <1>5, InsnsAre
<1>7. AtStage(Ann[line])'
  <2>1. /\ b.owed = IF x.blob = "send" THEN 1 ELSE IF x.room = 0 THEN a.owed ELSE 0
        /\ b.sent = IF x.blob = "send" THEN a.sent + 1 ELSE a.sent
        /\ b.bad = IF x.blob \in Rejects THEN a.bad + 1 ELSE a.bad
        /\ b.noted = a.noted /\ b.room = x.room /\ b.blob = x.blob
    BY <1>1, AfterRunIs
  <2>2. /\ first[x.room] = x.blob /\ rej = a.noted
        /\ x.blob = "send" => d = a.sent
        /\ delivered = IF x.blob = "send" /\ ip = n THEN a.sent + 1 ELSE a.sent
        /\ rejected = IF x.blob \in Rejects /\ ip = n THEN a.bad + 1 ELSE a.bad
        /\ grant = IF (x.blob = "send" /\ ip = n) \/ (x.room = 0 /\ a.owed = 1)
                   THEN 1 ELSE ROOM_N
        /\ x.blob = "recv" /\ ip > 1 => words[1][2] = PAYLOAD
    BY <1>3 DEF Running, Written
  <2> HIDE DEF n, a, b, x
  <2>3. /\ grant = IF b.owed = 1 THEN 1 ELSE ROOM_N
        /\ delivered = b.sent /\ rejected = b.bad /\ rej = b.noted
    BY <1>4, <2>1, <2>2
  <2>4. /\ first[b.room] = b.blob
        /\ b.blob = "send" => delivered = d + 1
        /\ b.blob = "recv" => words[1][2] = PAYLOAD
    BY <1>4, <1>6, <2>1, <2>2
  <2>5. Ann[line'] = b
    BY DEF b
  <2> QED
    BY <1>2, <2>3, <2>4, <2>5 DEF AtStage
<1>8. LineInv'
  BY <1>2, <1>7 DEF LineInv, Under
<1> QED
  BY <1>1, <1>2, <1>8 DEF Next, KernelStep, ScriptInv, ScriptHolds, ScriptType, KeptInv

\* The note of what was rejected, and a check: what it asks for is so.
LEMMA NoteNext == ASSUME ScriptInv, NoteLine PROVE UNCHANGED vars /\ ScriptInv'
<1> DEFINE a == Ann[line]
           b == Ann[line + 1]
<1>1. mode = "idle" /\ line \in 1 .. Len(Script) /\ At.do = "note"
  BY AnnIs DEF NoteLine, Finished, ScriptInv, ScriptType
<1>2. /\ a \in Stages /\ line + 1 \in 1 .. Len(Script) + 1
      /\ b = Stage(a.owed, a.sent, a.bad, a.bad, a.room, a.blob)
  BY <1>1, LineIs DEF At
<1>3. /\ b.owed = a.owed /\ b.sent = a.sent /\ b.bad = a.bad /\ b.noted = a.bad
      /\ b.room = a.room /\ b.blob = a.blob
  <2>1. /\ a.owed \in Two /\ a.sent \in Sends /\ a.bad \in Bads /\ a.room \in Two
        /\ a.blob \in Programs
    BY <1>2 DEF Stages
  <2> HIDE DEF a, b
  <2> QED
    BY <1>2, <2>1, StageIs
<1>4. /\ UNCHANGED vars /\ rej' = rejected /\ line' = line + 1
      /\ UNCHANGED <<ip, words, first, d>>
  BY DEF NoteLine
<1>5. /\ UNCHANGED <<mode, why, grant, delivered, rejected, mem, left, armed>>
  BY <1>4 DEF vars, edgeVars, timerVars
<1>6. AtStage(a)
  BY <1>1 DEF ScriptInv, LineInv, Between
<1>7. AtStage(Ann[line])'
  <2>1. Ann[line'] = b
    BY <1>4
  <2> HIDE DEF a, b
  <2> QED
    BY <1>3, <1>4, <1>5, <1>6, <2>1 DEF AtStage
<1>8. LineInv'
  BY <1>1, <1>5, <1>7 DEF LineInv, Under
<1> QED
  BY <1>1, <1>2, <1>4, <1>5, <1>8 DEF ScriptInv, ScriptHolds, ScriptType, KeptInv

\* Between two lines, what a stage meets holds.
LEMMA HoldsMet ==
  ASSUME ScriptInv, mode = "idle", NEW what \in Checks, NEW a \in Stages, AtStage(a),
         Meets(a, what)
  PROVE  Holds(what)
<1>1. /\ mem[Data(1)].pay = IF delivered = 0 THEN Blank ELSE PAYLOAD
      /\ words[0][4] = Canary /\ words[1][4] = Canary /\ words[1][3] = Blank /\ left = armed
  BY DEF ScriptInv, KeptInv
<1>2. a.sent \in Nat /\ a.bad \in Nat /\ a.noted \in Nat
  BY DEF Stages, Sends, Bads
<1>3. CASE what \in {"canary0", "canary1", "cval"}
  BY <1>1, <1>3 DEF Holds
<1>4. CASE what \in {"code0", "code1"}
  BY <1>4 DEF Holds, Meets, AtStage
<1>5. CASE what = "refuse"
  BY <1>5, RunRooms DEF Holds, Meets, AtStage
<1>6. CASE what \in {"three-rejected", "one-rejected"}
  BY <1>2, <1>6 DEF Holds, Meets, AtStage
<1>7. CASE what \in {"slot-empty", "slot-filled"}
  <2>1. delivered = a.sent
    BY DEF AtStage
  <2>2. CASE what = "slot-empty"
    BY <1>1, <2>1, <2>2 DEF Holds, Meets
  <2>3. CASE what = "slot-filled"
    <3>1. a.sent > 0
      BY <2>3 DEF Meets
    <3>2. mem[Data(1)].pay = PAYLOAD
      BY <1>1, <1>2, <2>1, <3>1
    <3> QED
      BY <1>1, <2>3, <3>2 DEF Holds
  <2> QED
    BY <1>7, <2>2, <2>3
<1>8. CASE what \in {"received", "sent"}
  BY <1>8 DEF Holds, Meets, AtStage
<1> QED
  BY <1>3, <1>4, <1>5, <1>6, <1>7, <1>8 DEF Checks

\* No check of the script fails.
LEMMA CheckNext == ASSUME ScriptInv, CheckLine PROVE UNCHANGED vars /\ ScriptInv'
<1>1. mode = "idle" /\ line \in 1 .. Len(Script) /\ At.do = "check"
  BY AnnIs DEF CheckLine, Finished, ScriptInv, ScriptType
<1>2. /\ Ann[line] \in Stages /\ Ann[line + 1] = Ann[line] /\ line + 1 \in 1 .. Len(Script) + 1
      /\ At.what \in Checks /\ Meets(Ann[line], At.what)
  BY <1>1, LineIs DEF At
<1>3. AtStage(Ann[line])
  BY <1>1 DEF ScriptInv, LineInv, Between
<1>4. Holds(At.what)
  BY <1>1, <1>2, <1>3, HoldsMet
<1>5. line' = line + 1 /\ UNCHANGED vars /\ UNCHANGED <<ip, words, first, d, rej>>
  BY <1>4 DEF CheckLine
<1>6. /\ UNCHANGED <<mode, why, grant, delivered, rejected, mem, left, armed>>
  BY <1>5 DEF vars, edgeVars, timerVars
<1>7. AtStage(Ann[line])'
  <2>1. Ann[line'] = Ann[line]
    BY <1>2, <1>5
  <2> QED
    BY <1>3, <1>5, <1>6, <2>1 DEF AtStage
<1>8. LineInv'
  BY <1>1, <1>6, <1>7 DEF LineInv, Under
<1> QED
  BY <1>1, <1>2, <1>5, <1>6, <1>8 DEF ScriptInv, ScriptHolds, ScriptType, KeptInv

\* Nothing moves.
LEMMA StutterNext == ASSUME ScriptInv, UNCHANGED allVars PROVE ScriptInv'
<1>1. /\ UNCHANGED <<mode, cur, reason, why, grant, delivered, rejected, mem, left, armed>>
      /\ UNCHANGED <<quiet, line, ip, words, first, d, rej>>
  BY DEF allVars, here, vars, edgeVars, timerVars
<1>2. At' = At /\ Ann[line'] = Ann[line]
  BY <1>1 DEF At
<1>3. AtStage(Ann[line]) => AtStage(Ann[line])'
  BY <1>1, <1>2 DEF AtStage
<1>4. CASE mode \in Under
  BY <1>1, <1>4, UnderNext DEF here, ScriptInv, KeptInv, LineInv, Running, Under
<1>5. CASE mode \notin Under
  BY <1>1, <1>3, <1>5 DEF ScriptInv, ScriptHolds, ScriptType, KeptInv, LineInv
<1> QED
  BY <1>4, <1>5

\* The counter advances.
LEMMA TickNext == ASSUME RoomInv, ScriptInv, Tick, UNCHANGED here PROVE ScriptInv'
<1>1. /\ UNCHANGED <<mode, cur, reason, why, grant, delivered, rejected, mem>>
      /\ left = armed => left' = armed'
  BY DEF Tick, edgeVars
<1>2. At' = At /\ Ann[line'] = Ann[line]
  BY DEF At, here
<1>3. AtStage(Ann[line]) => AtStage(Ann[line])'
  BY <1>1, <1>2 DEF AtStage, here
<1>4. CASE mode \in Under
  <2>1. mode' # "armed" => left' = armed'
    BY <1>1, <1>4 DEF ScriptInv, KeptInv, Under
  <2> QED
    BY <1>1, <1>4, <2>1, UnderNext
<1>5. CASE mode \notin Under
  BY <1>1, <1>3, <1>5 DEF here, ScriptInv, ScriptHolds, ScriptType, KeptInv, LineInv, Under
<1> QED
  BY <1>4, <1>5

\* What is known while a program runs: its line, and the next instruction.
LEMMA AtInsn ==
  ASSUME ScriptInv, mode = "room"
  PROVE  /\ line \in 1 .. Len(Script) /\ At \in RunLines /\ MayRun(Ann[line], At)
         /\ Ann[line] \in Stages /\ At.blob \in Names /\ At.at \in Pages
         /\ Running(Ann[line], At) /\ cur = At.room /\ cur \in {0, 1} /\ cur \in Rooms
         /\ InsnOf(At.blob, Insn, ip, Len(Program(At.blob)))
<1>1. line \in 1 .. Len(Script) /\ At.do = "run" /\ Running(Ann[line], At)
  BY DEF ScriptInv, LineInv, Under
<1>2. At \in RunLines /\ MayRun(Ann[line], At) /\ Ann[line] \in Stages
  BY <1>1, LineIs DEF At
<1>3. cur = At.room /\ ip \in 1 .. Len(Program(At.blob))
  BY <1>1 DEF Running
<1>4. At.blob \in Names /\ At.at \in Pages /\ At.room \in {0, 1}
  BY <1>2 DEF RunLines, Two
<1>5. InsnOf(At.blob, Insn, ip, Len(Program(At.blob)))
  BY <1>3, <1>4, InsnsAre DEF Insn
<1> QED
  BY <1>1, <1>2, <1>3, <1>4, <1>5, RunRooms

\* A program is left, by svc only when it has nothing left to do.
LEMMA LeaveNext ==
  ASSUME ScriptInv, NEW why_left, LeaveRoom(why_left),
         why_left = "svc" => ip = Len(Program(At.blob)), UNCHANGED here
  PROVE  ScriptInv'
<1>1. /\ mode = "room" /\ mode' = "left" /\ reason' = why_left
      /\ UNCHANGED <<cur, why, grant, delivered, rejected, mem, left, armed>>
  BY DEF LeaveRoom, edgeVars
<1>2. left' = armed'
  BY <1>1 DEF ScriptInv, KeptInv
<1> QED
  BY <1>1, <1>2, UnderNext DEF Under

\* The program goes on, and has done what its next instruction says.
LEMMA AdvanceNext ==
  ASSUME ScriptInv, mode = "room", mode' = "room", NextInsn,
         UNCHANGED <<cur, why, first, left, armed>>,
         words' \in [Rooms -> [2 .. 4 -> Payloads \cup {Canary}]],
         NEW n, n = Len(Program(At.blob)), ip < n,
         KeptInv', Written(At.blob)',
         delivered' = IF At.blob = "send" /\ ip + 1 = n THEN delivered + 1 ELSE delivered,
         rejected' = IF At.blob \in Rejects /\ ip + 1 = n THEN rejected + 1 ELSE rejected,
         grant' = IF At.blob = "send" /\ ip + 1 = n THEN 1 ELSE grant
  PROVE  ScriptInv'
<1> DEFINE a == Ann[line]
           x == At
<1>1. /\ line \in 1 .. Len(Script) /\ x.do = "run" /\ Running(a, x) /\ a \in Stages
  BY AtInsn DEF ScriptInv, LineInv, Under
<1>2. ip' = ip + 1 /\ line' = line /\ d' = d /\ rej' = rej /\ x' = x
  BY DEF NextInsn, At
<1>3. /\ cur = x.room /\ first[x.room] = x.blob /\ rej = a.noted
      /\ ip \in 1 .. n
      /\ x.blob = "send" => d = a.sent
      /\ delivered = IF x.blob = "send" /\ ip = n THEN a.sent + 1 ELSE a.sent
      /\ rejected = IF x.blob \in Rejects /\ ip = n THEN a.bad + 1 ELSE a.bad
      /\ grant = IF (x.blob = "send" /\ ip = n) \/ (x.room = 0 /\ a.owed = 1)
                 THEN 1 ELSE ROOM_N
  BY <1>1 DEF Running
<1>4. Len(Program(x.blob))' = n /\ n \in Nat
  <2>1. Len(Program(At.blob)) \in 1 .. 6
    BY AtInsn, InsnsAre
  <2> QED
    BY <1>2, <2>1
<1>5. a' = a /\ Written(x.blob)'
  BY <1>2
<1>10. /\ delivered' = IF x.blob = "send" /\ ip + 1 = n THEN delivered + 1 ELSE delivered
       /\ rejected' = IF x.blob \in Rejects /\ ip + 1 = n THEN rejected + 1 ELSE rejected
       /\ grant' = IF x.blob = "send" /\ ip + 1 = n THEN 1 ELSE grant
  OBVIOUS
<1> HIDE DEF a, x
<1>6. /\ ip' \in 1 .. n /\ ip < n
  BY <1>2, <1>3, <1>4
<1>11. ip # n
  BY <1>3, <1>4
<1>12. delivered' = IF x.blob = "send" /\ ip' = n THEN a.sent + 1 ELSE a.sent
  BY <1>2, <1>3, <1>10, <1>11
<1>13. rejected' = IF x.blob \in Rejects /\ ip' = n THEN a.bad + 1 ELSE a.bad
  BY <1>2, <1>3, <1>10, <1>11
<1>14. grant' = IF (x.blob = "send" /\ ip' = n) \/ (x.room = 0 /\ a.owed = 1)
                THEN 1 ELSE ROOM_N
  BY <1>2, <1>3, <1>10, <1>11
<1>8. Running(a, x)'
  BY <1>2, <1>3, <1>4, <1>5, <1>6, <1>12, <1>13, <1>14 DEF Running
<1>9. LineInv'
  BY <1>1, <1>2, <1>8 DEF LineInv, Between, a, x
<1> QED
  BY <1>2, <1>9 DEF ScriptInv, ScriptHolds, ScriptType

\* svc, a denied access, and an interrupt: the room is left.
LEMMA LeavesNext ==
  ASSUME ScriptInv, UNCHANGED here,
         \/ Fault
         \/ Svc0 /\ ip = Len(Program(At.blob))
         \/ IrqForeign
         \/ IrqTimer
         \/ IrqSpurious
  PROVE  Next /\ ScriptInv'
<1>1. CASE Fault
  <2>1. LeaveRoom("fault")
    BY <1>1 DEF Fault
  <2>2. ScriptInv'
    BY <2>1, LeaveNext
  <2> QED
    BY <1>1, <2>2 DEF Next
<1>2. CASE Svc0 /\ ip = Len(Program(At.blob))
  <2>1. LeaveRoom("svc")
    BY <1>2 DEF Svc0
  <2>2. ScriptInv'
    BY <1>2, <2>1, LeaveNext
  <2> QED
    BY <1>2, <2>2 DEF Next
<1>3. CASE IrqForeign
  <2>1. LeaveRoom("foreign")
    BY <1>3 DEF IrqForeign
  <2>2. ScriptInv'
    BY <2>1, LeaveNext
  <2> QED
    BY <1>3, <2>2 DEF Next, Interrupt
<1>4. CASE IrqTimer
  <2>1. LeaveRoom("irq")
    BY <1>4 DEF IrqTimer
  <2>2. ScriptInv'
    BY <2>1, LeaveNext
  <2> QED
    BY <1>4, <2>2 DEF Next, Interrupt
<1>5. CASE IrqSpurious
  <2>1. LeaveRoom("fault")
    BY <1>5 DEF IrqSpurious
  <2>2. ScriptInv'
    BY <2>1, LeaveNext
  <2> QED
    BY <1>5, <2>2 DEF Next
<1> QED
  BY <1>1, <1>2, <1>3, <1>4, <1>5

\* A word of a page: the slot of a message, or none of it.
LEMMA WordIs ==
  ASSUME NEW c \in Content, NEW word \in 0 .. 4, NEW value,
         word = 0 => value \in {0, 1}, word = 1 => value \in Payloads
  PROVE  /\ Word(c, word, value) \in Content
         /\ Word(c, word, value).dest = IF word = 0 THEN value ELSE c.dest
         /\ Word(c, word, value).pay = IF word = 1 THEN value ELSE c.pay
  BY DEF Word, Content

\* A program writes its message, a word at a time, into its own data page.
LEMMA WriteNext ==
  ASSUME RoomInv, ScriptInv, mode = "room", Insn.op = "str", Insn.page = "own",
         At.blob # "store", StoreWord(Target, Insn.word, Insn.value), NextInsn
  PROVE  Next /\ ScriptInv'
<1> DEFINE a == Ann[line]
           x == At
           n == Len(Program(x.blob))
           w == Insn.word
           v == Insn.value
           page == Data(cur)
<1>1. /\ MayRun(a, x) /\ a \in Stages /\ Running(a, x) /\ cur = x.room /\ cur \in {0, 1}
      /\ cur \in Rooms /\ InsnOf(x.blob, Insn, ip, n)
  BY AtInsn
<1>2. /\ x.blob \in {"send", "mal", "pay", "reply"} /\ ip \in 1 .. 4 /\ ip + 1 < n
      /\ w = ip - 1 /\ n \in 1 .. 6
      /\ ip = 1 => v = (IF x.blob \in {"send", "pay"} THEN 1 ELSE 0)
      /\ ip = 2 => v = (IF x.blob = "pay" THEN Other ELSE PAYLOAD)
      /\ ip > 2 => v = Other /\ x.blob = "send"
  BY <1>1 DEF InsnOf
<1>3. /\ w \in 0 .. 3 /\ (w = 0 => v \in {0, 1}) /\ (w > 0 => v \in Payloads)
      /\ (w > 1 => x.blob = "send")
  BY <1>2, RunRooms
<1>4. page \in Pages /\ page[1] = "data" /\ page[2] = cur
  BY <1>1 DEF Data, Pages, RoomPages
<1>5. /\ El0Store(page, Word(mem[page], w, v))
      /\ words' = IF w \in 2 .. 4 THEN [words EXCEPT ![cur][w] = v] ELSE words
      /\ first' = first
  <2>1. Target = page
    BY DEF Target
  <2> QED
    BY <1>4, <2>1 DEF StoreWord
<1>6. mem \in [Pages -> Content]
  BY DEF RoomInv, TypeOK
<1> HIDE DEF a, x, n, w, v, page
<1>7. /\ Word(mem[page], w, v) \in Content
      /\ Word(mem[page], w, v).dest = IF w = 0 THEN v ELSE mem[page].dest
      /\ Word(mem[page], w, v).pay = IF w = 1 THEN v ELSE mem[page].pay
  <2>1. mem[page] \in Content /\ w \in 0 .. 4 /\ (w = 1 => v \in Payloads)
    BY <1>3, <1>4, <1>6
  <2> QED
    BY <1>3, <2>1, WordIs
<1>8. /\ mem' = [mem EXCEPT ![page] = Word(mem[page], w, v)]
      /\ UNCHANGED <<mode, cur, reason, why, grant, delivered, rejected, left, armed>>
  BY <1>5 DEF El0Store, edgeVars, timerVars
<1>9. /\ mem'[page].dest = (IF w = 0 THEN v ELSE mem[page].dest)
      /\ mem'[page].pay = (IF w = 1 THEN v ELSE mem[page].pay)
      /\ \A p \in Pages : p # page => mem'[p] = mem[p]
  BY <1>4, <1>6, <1>7, <1>8
<1>10. words' \in [Rooms -> [2 .. 4 -> Payloads \cup {Canary}]]
  BY <1>1, <1>3, <1>5 DEF ScriptInv, ScriptType
<1>11. ip' = ip + 1
  BY DEF NextInsn
<1>12. /\ x.blob \in {"send", "mal", "pay"} => cur = 0
       /\ x.blob = "reply" => cur = 1 /\ delivered > 0
  <2>1. x.blob \in {"send", "mal", "pay"} => cur = 0
    BY <1>1 DEF MayRun
  <2>2. x.blob = "reply" => cur = 1 /\ a.sent > 0 /\ a.sent \in Nat
    BY <1>1 DEF MayRun, Stages, Sends
  <2>3. x.blob = "reply" => delivered = a.sent
    BY <1>1 DEF Running
  <2> QED
    BY <2>1, <2>2, <2>3
<1>13. Written(x.blob)'
  <2>1. /\ x.blob = "send" /\ ip > 1 => mem[Data(0)].dest = 1
        /\ x.blob = "send" /\ ip > 2 => mem[Data(0)].pay = PAYLOAD
        /\ x.blob = "mal" /\ ip > 1 => mem[Data(0)].dest = 0
        /\ x.blob = "pay" /\ ip > 2 => mem[Data(0)].pay = Other
    BY <1>1 DEF Running, Written
  <2>2. x.blob \in {"send", "mal", "pay"} => page = Data(0)
    BY <1>12 DEF page
  <2>3. x.blob # "recv" /\ x' = x
    BY <1>2 DEF x, At, NextInsn
  <2>4. /\ x.blob = "send" /\ ip' > 1 => mem'[Data(0)].dest = 1
        /\ x.blob = "mal" /\ ip' > 1 => mem'[Data(0)].dest = 0
    BY <1>2, <1>9, <1>11, <2>1, <2>2
  <2>5. /\ x.blob = "send" /\ ip' > 2 => mem'[Data(0)].pay = PAYLOAD
        /\ x.blob = "pay" /\ ip' > 2 => mem'[Data(0)].pay = Other
    BY <1>2, <1>9, <1>11, <2>1, <2>2
  <2> QED
    BY <2>3, <2>4, <2>5 DEF Written
<1>14. KeptInv'
  <2>1. /\ mem[Data(1)].pay = (IF delivered = 0 THEN Blank ELSE PAYLOAD) /\ left = armed
        /\ words[0][4] = Canary /\ words[1][4] = Canary /\ words[1][3] = Blank
    BY DEF ScriptInv, KeptInv
  <2>2. mem'[Data(1)].pay = mem[Data(1)].pay
    <3>1. CASE cur = 0
      <4>1. Data(1) \in Pages /\ Data(1) # page
        BY <3>1, ScriptPages DEF page, Data
      <4> QED
        BY <1>9, <4>1
    <3>2. CASE cur = 1
      <4>1. page = Data(1) /\ x.blob = "reply" /\ mem[Data(1)].pay = PAYLOAD
        BY <1>2, <1>12, <2>1, <3>2 DEF page
      <4> QED
        BY <1>2, <1>9, <4>1
    <3> QED
      BY <1>1, <3>1, <3>2
  <2>3. words'[0][4] = words[0][4] /\ words'[1][4] = words[1][4]
    BY <1>1, <1>3, <1>5, RunRooms DEF ScriptInv, ScriptType
  <2>4. words'[1][3] = words[1][3]
    BY <1>1, <1>3, <1>5, <1>12, RunRooms DEF ScriptInv, ScriptType
  <2> QED
    BY <1>8, <2>1, <2>2, <2>3, <2>4 DEF KeptInv
<1>15. ScriptInv'
  <2>1. /\ delivered' = IF x.blob = "send" /\ ip + 1 = n THEN delivered + 1 ELSE delivered
        /\ rejected' = IF x.blob \in Rejects /\ ip + 1 = n THEN rejected + 1 ELSE rejected
        /\ grant' = IF x.blob = "send" /\ ip + 1 = n THEN 1 ELSE grant
        /\ ip < n
    BY <1>2, <1>8
  <2> QED
    BY <1>5, <1>8, <1>10, <1>13, <1>14, <2>1, AdvanceNext DEF x, n
<1>16. Next
  BY <1>4, <1>5, <1>7 DEF Next
<1> QED
  BY <1>15, <1>16

\* A pulse of room 0 with the one message that passes is delivered; any other is
\* rejected.
LEMMA PulseNext ==
  ASSUME RoomInv, ScriptInv, mode = "room", NEW place \in {"page", "outside"},
         (Insn.op = "pulse" /\ place = "page") \/ (Insn.op = "pulse-x1" /\ place = "outside"),
         PulseRejected(place) \/ PulseDelivered(place),
         NextInsn, UNCHANGED <<words, first>>
  PROVE  Next /\ ScriptInv'
<1> DEFINE a == Ann[line]
           x == At
           n == Len(Program(x.blob))
<1>1. /\ MayRun(a, x) /\ a \in Stages /\ Running(a, x) /\ cur = x.room /\ cur \in {0, 1}
      /\ InsnOf(x.blob, Insn, ip, n)
  BY AtInsn
<1>2. /\ x.blob \in {"send", "mal", "pay", "reply", "bad"} /\ ip + 1 = n /\ ip \in Nat
      /\ n \in 1 .. 6
      /\ x.blob # "bad" => ip > 2 /\ place = "page"
      /\ x.blob = "bad" => place = "outside"
  <2> HIDE DEF a, x, n
  <2>1. CASE Insn.op = "pulse" /\ place = "page"
    BY <1>1, <2>1 DEF InsnOf
  <2>2. CASE Insn.op = "pulse-x1" /\ place = "outside"
    BY <1>1, <2>2 DEF InsnOf
  <2> QED
    BY <2>1, <2>2
<1>3. /\ x.blob # "reply" => cur = 0
      /\ x.blob = "reply" => cur = 1
      /\ x.blob = "send" => a.sent < 10
      /\ x.blob \in Rejects => a.bad < 4
  BY <1>1, <1>2 DEF MayRun, Rejects
<1>4. delivered = a.sent /\ rejected = a.bad /\ a.sent \in Nat /\ a.bad \in Nat
  <2>1. ip # n
    BY <1>2
  <2>2. a.sent \in Nat /\ a.bad \in Nat
    BY <1>1 DEF Stages, Sends, Bads
  <2>3. /\ delivered = IF x.blob = "send" /\ ip = n THEN a.sent + 1 ELSE a.sent
        /\ rejected = IF x.blob \in Rejects /\ ip = n THEN a.bad + 1 ELSE a.bad
    BY <1>1 DEF Running
  <2> HIDE DEF n, x, a
  <2> QED
    BY <2>1, <2>2, <2>3
<1>5. mem \in [Pages -> Content] /\ Data(0) \in Pages /\ Data(1) \in Pages /\ Data(0) # Data(1)
  BY ScriptPages DEF RoomInv, TypeOK, Data
<1>6. Message("page") = {mem[Data(0)]}
  BY DEF Message
<1>7. /\ x.blob = "send" => Accepted(mem[Data(0)])
      /\ x.blob \in {"mal", "pay"} => ~Accepted(mem[Data(0)])
  <2>1. /\ x.blob = "send" /\ ip > 2 => mem[Data(0)].dest = 1 /\ mem[Data(0)].pay = PAYLOAD
        /\ x.blob = "mal" /\ ip > 2 => mem[Data(0)].dest = 0
        /\ x.blob = "pay" /\ ip > 2 => mem[Data(0)].pay = Other
    BY <1>1 DEF Running, Written
  <2> QED
    BY <1>2, <2>1, RunRooms DEF Accepted
<1>8. x.blob = "send" => PulseDelivered(place) /\ ~PulseRejected(place)
  BY <1>2, <1>3, <1>6, <1>7 DEF PulseRejected, PulseDelivered, Inside
<1>9. x.blob # "send" => PulseRejected(place) /\ ~PulseDelivered(place)
  BY <1>2, <1>3, <1>6, <1>7 DEF PulseRejected, PulseDelivered, Inside
<1>10. /\ words' \in [Rooms -> [2 .. 4 -> Payloads \cup {Canary}]] /\ ip' = ip + 1 /\ x' = x
  BY DEF ScriptInv, ScriptType, NextInsn, At
<1>11. /\ mem[Data(1)].pay = (IF delivered = 0 THEN Blank ELSE PAYLOAD) /\ left = armed
       /\ words[0][4] = Canary /\ words[1][4] = Canary /\ words[1][3] = Blank
  BY DEF ScriptInv, KeptInv
<1>12. Written(x.blob)'
  <2>1. /\ x.blob = "send" /\ ip > 2 => mem[Data(0)].dest = 1 /\ mem[Data(0)].pay = PAYLOAD
        /\ x.blob = "mal" /\ ip > 2 => mem[Data(0)].dest = 0
        /\ x.blob = "pay" /\ ip > 2 => mem[Data(0)].pay = Other
    BY <1>1 DEF Running, Written
  <2>2. mem'[Data(0)] = mem[Data(0)]
    BY <1>5 DEF PulseRejected, PulseDelivered
  <2>3. x.blob # "recv" /\ (x.blob # "bad" => ip > 2)
    BY <1>2
  <2> QED
    BY <1>10, <2>1, <2>2, <2>3 DEF Written, Rejects
<1> HIDE DEF a, x, n
<1>13. CASE x.blob = "send"
  <2>1. PulseDelivered(place)
    BY <1>8, <1>13
  <2>2. /\ delivered' = delivered + 1 /\ grant' = 1 /\ rejected' = rejected
        /\ UNCHANGED <<mode, cur, reason, why, left, armed>>
    BY <1>3, <1>4, <1>13, <2>1, BumpIs DEF PulseDelivered, timerVars
  <2>3. mem' = [mem EXCEPT ![Data(1)].pay = PAYLOAD]
    BY <2>1, Zenon DEF PulseDelivered, Accepted
  <2>4. mem'[Data(1)].pay = PAYLOAD
    BY <1>5, <2>3 DEF Content
  <2>5. KeptInv'
    BY <1>4, <1>11, <2>2, <2>4 DEF KeptInv
  <2>6. /\ delivered' = IF x.blob = "send" /\ ip + 1 = n THEN delivered + 1 ELSE delivered
        /\ rejected' = IF x.blob \in Rejects /\ ip + 1 = n THEN rejected + 1 ELSE rejected
        /\ grant' = IF x.blob = "send" /\ ip + 1 = n THEN 1 ELSE grant
        /\ ip < n
    BY <1>2, <1>13, <2>2 DEF Rejects
  <2>7. ScriptInv'
    BY <1>10, <1>12, <2>2, <2>5, <2>6, AdvanceNext DEF x, n
  <2> QED
    BY <2>1, <2>7 DEF Next, Places
<1>14. CASE x.blob # "send"
  <2>1. PulseRejected(place) /\ x.blob \in Rejects
    BY <1>2, <1>9, <1>14 DEF Rejects
  <2>2. /\ rejected' = rejected + 1
        /\ UNCHANGED <<mode, cur, reason, why, grant, delivered, mem, left, armed>>
    BY <1>3, <1>4, <2>1, BumpIs DEF PulseRejected, timerVars
  <2>5. KeptInv'
    BY <1>11, <2>2 DEF KeptInv
  <2>6. /\ delivered' = IF x.blob = "send" /\ ip + 1 = n THEN delivered + 1 ELSE delivered
        /\ rejected' = IF x.blob \in Rejects /\ ip + 1 = n THEN rejected + 1 ELSE rejected
        /\ grant' = IF x.blob = "send" /\ ip + 1 = n THEN 1 ELSE grant
        /\ ip < n
    BY <1>2, <1>14, <2>1, <2>2
  <2>7. ScriptInv'
    BY <1>10, <1>12, <2>2, <2>5, <2>6, AdvanceNext DEF x, n
  <2> QED
    BY <2>1, <2>7 DEF Next, Places
<1> QED
  BY <1>13, <1>14

\* A program does what its next instruction says, or is stopped from doing it; a store out of
\* its own data page never succeeds, and the timer is out of its reach.
LEMMA ExecuteNext ==
  ASSUME RoomInv, ScriptInv, Execute
  PROVE  [Next]_vars /\ ScriptInv'
<1> DEFINE a == Ann[line]
           x == At
           n == Len(Program(x.blob))
<1>0. mode = "room"
  BY DEF Execute
<1>1. /\ MayRun(a, x) /\ a \in Stages /\ Running(a, x) /\ cur = x.room /\ cur \in {0, 1}
      /\ cur \in Rooms /\ InsnOf(x.blob, Insn, ip, n) /\ x.at \in Pages
  BY <1>0, AtInsn
<1>2. ASSUME NEW op, Denied(op) PROVE [Next]_vars /\ ScriptInv'
  BY <1>2, LeavesNext DEF Denied
<1>3. CASE Insn.op = "str"
  <2>1. SUFFICES ASSUME StoreWord(Target, Insn.word, Insn.value) /\ NextInsn
                 PROVE  [Next]_vars /\ ScriptInv'
    BY <1>2, <1>3 DEF Execute
  <2>2. CASE x.blob = "store"
    <3>1. Insn.page = "x1"
      BY <1>1, <1>3, <2>2 DEF InsnOf
    <3>2. Target = x.at /\ x.at # Data(cur)
      BY <1>1, <2>2, <3>1 DEF Target, MayRun
    <3>3. El0May("store", x.at)
      BY <2>1, <3>2 DEF StoreWord, El0Store
    <3>4. x.at = Data(cur)
      <4>1. "store" \in Ops /\ "store" \notin {"load", "fetch"}
        BY DEF Ops
      <4> QED
        BY <1>0, <1>1, <3>3, <4>1, RoomWindow DEF UserWindow
    <3> QED
      BY <3>2, <3>4
  <2>3. CASE x.blob # "store"
    <3>1. Insn.page = "own"
      BY <1>1, <1>3, <2>3 DEF InsnOf
    <3> QED
      BY <1>0, <1>3, <2>1, <2>3, <3>1, WriteNext
  <2> QED
    BY <2>2, <2>3
<1>4. CASE Insn.op = "ldr"
  <2>1. SUFFICES ASSUME NextInsn, UNCHANGED <<vars, words, first>>
                 PROVE  [Next]_vars /\ ScriptInv'
    BY <1>2, <1>4 DEF Execute
  <2>2. x.blob = "fault" /\ ip = 1 /\ n = 2
    BY <1>1, <1>4 DEF InsnOf
  <2>3. /\ UNCHANGED <<mode, cur, reason, why, grant, delivered, rejected, mem, left, armed>>
        /\ UNCHANGED <<words, first>>
    BY <2>1 DEF vars, edgeVars, timerVars
  <2>4. KeptInv'
    BY <2>3 DEF ScriptInv, KeptInv
  <2>5. Written(x.blob)'
    BY <2>1, <2>2 DEF Written, At, NextInsn
  <2>6. words' \in [Rooms -> [2 .. 4 -> Payloads \cup {Canary}]]
    BY <2>3 DEF ScriptInv, ScriptType
  <2>7. x.blob # "send" /\ x.blob \notin Rejects
    BY <2>2 DEF Rejects
  <2>8. /\ mode' = "room" /\ ip < n
        /\ delivered' = IF x.blob = "send" /\ ip + 1 = n THEN delivered + 1 ELSE delivered
        /\ rejected' = IF x.blob \in Rejects /\ ip + 1 = n THEN rejected + 1 ELSE rejected
        /\ grant' = IF x.blob = "send" /\ ip + 1 = n THEN 1 ELSE grant
    BY <1>0, <2>2, <2>3, <2>7
  <2>9. ScriptInv'
    BY <1>0, <2>1, <2>3, <2>4, <2>5, <2>6, <2>8, AdvanceNext
  <2> QED
    BY <2>1, <2>9
<1>5. CASE Insn.op = "br"
  BY <1>2, <1>5 DEF Execute
<1>6. CASE Insn.op = "copy"
  <2>1. StoreWord(Data(cur), 2, mem[Data(cur)].pay) /\ NextInsn
    BY <1>6 DEF Execute
  <2>2. x.blob = "recv" /\ ip = 1 /\ n = 2
    BY <1>1, <1>6 DEF InsnOf
  <2>3. cur = 1 /\ delivered # 0
    <3>1. cur = 1 /\ a.sent > 0 /\ a.sent \in Nat
      BY <1>1, <2>2 DEF MayRun, Stages, Sends
    <3>2. delivered = a.sent
      BY <1>1, <2>2 DEF Running
    <3> QED
      BY <3>1, <3>2
  <2>4. /\ mem[Data(1)].pay = PAYLOAD /\ left = armed
        /\ words[0][4] = Canary /\ words[1][4] = Canary /\ words[1][3] = Blank
    BY <1>0, <2>3 DEF ScriptInv, KeptInv
  <2>5. Data(1) \in Pages /\ mem \in [Pages -> Content] /\ mem[Data(1)] \in Content
    BY ScriptPages DEF RoomInv, TypeOK
  <2>6. /\ El0Store(Data(1), mem[Data(1)])
        /\ words' = [words EXCEPT ![1][2] = PAYLOAD] /\ first' = first
    <3>1. Word(mem[Data(1)], 2, PAYLOAD) = mem[Data(1)]
      BY DEF Word
    <3>2. Data(1)[1] = "data" /\ Data(1)[2] = 1 /\ 2 \in 2 .. 4
      BY DEF Data
    <3> QED
      BY <2>1, <2>3, <2>4, <3>1, <3>2 DEF StoreWord
  <2>7. /\ mem' = mem
        /\ UNCHANGED <<mode, cur, reason, why, grant, delivered, rejected, left, armed>>
    BY <2>5, <2>6 DEF El0Store, edgeVars, timerVars
  <2>8. /\ words' \in [Rooms -> [2 .. 4 -> Payloads \cup {Canary}]]
        /\ words'[1][2] = PAYLOAD /\ words'[1][4] = words[1][4] /\ words'[1][3] = words[1][3]
        /\ words'[0] = words[0]
    BY <2>6, RunRooms DEF ScriptInv, ScriptType
  <2>9. KeptInv'
    BY <2>4, <2>7, <2>8, <2>3 DEF KeptInv
  <2>10. Written(x.blob)'
    BY <2>1, <2>2, <2>8 DEF Written, At, NextInsn
  <2>11. x.blob # "send" /\ x.blob \notin Rejects
    BY <2>2 DEF Rejects
  <2>12. /\ mode' = "room" /\ ip < n
         /\ delivered' = IF x.blob = "send" /\ ip + 1 = n THEN delivered + 1 ELSE delivered
         /\ rejected' = IF x.blob \in Rejects /\ ip + 1 = n THEN rejected + 1 ELSE rejected
         /\ grant' = IF x.blob = "send" /\ ip + 1 = n THEN 1 ELSE grant
    BY <1>0, <2>2, <2>7, <2>11
  <2>13. ScriptInv'
    BY <1>0, <2>1, <2>6, <2>7, <2>8, <2>9, <2>10, <2>12, AdvanceNext
  <2> QED
    BY <2>5, <2>6, <2>13 DEF Next
<1>7. CASE Insn.op = "msr"
  <2>1. el0timer = FALSE
    BY <1>0 DEF RoomInv, DeadlineInv
  <2>2. Fault /\ UNCHANGED here
    BY <1>7, <2>1 DEF Execute, El0Timer
  <2> QED
    BY <2>2, LeavesNext
<1>8. CASE Insn.op = "pulse"
  BY <1>0, <1>8, PulseNext DEF Execute
<1>9. CASE Insn.op = "pulse-x1"
  BY <1>0, <1>9, PulseNext DEF Execute
<1>10. CASE Insn.op = "svc0"
  <2>1. Svc0 /\ UNCHANGED here
    BY <1>10 DEF Execute
  <2>2. ip = n
    BY <1>1, <1>10 DEF InsnOf
  <2> QED
    BY <2>1, <2>2, LeavesNext
<1>11. CASE Insn.op = "b"
  BY <1>11 DEF Execute
<1> QED
  BY <1>1, <1>3, <1>4, <1>5, <1>6, <1>7, <1>8, <1>9, <1>10, <1>11 DEF InsnOf

\* A line that runs a room, at any of its steps.
LEMMA RunLineNext == ASSUME RoomInv, ScriptInv, RunLine PROVE Next /\ ScriptInv'
<1>1. ~Finished /\ At.do = "run"
  BY DEF RunLine
<1>2. ~RunRefused(At.room)
  BY <1>1, RefusedNever
<1>3. CASE /\ \E blob \in Blobs : Run(At.room, blob)
           /\ first' = [first EXCEPT ![At.room] = At.blob]
           /\ d' = IF At.blob = "send" THEN delivered ELSE d
           /\ ip' = 1
           /\ UNCHANGED <<quiet, line, words, rej>>
  BY <1>1, <1>3, BeginNext
<1>4. CASE (Arm(At.poke) \/ Enter) /\ UNCHANGED here
  BY <1>1, <1>4, ArmNext
<1>5. CASE (EnterLate \/ JudgeBad(At.want)) /\ UNCHANGED here
  BY <1>1, <1>5, StopNext
<1>6. CASE JudgeGood(At.want) /\ line' = line + 1 /\ UNCHANGED <<quiet, ip, words, first, d, rej>>
  BY <1>1, <1>6, JudgedNext
<1> QED
  BY <1>2, <1>3, <1>4, <1>5, <1>6 DEF RunLine

\* Every step of the script is a step of Room or none, and keeps the invariant.
LEMMA ScriptStep ==
  ASSUME RoomInv, ScriptInv, [RunNext]_allVars
  PROVE  [Next]_vars /\ RoomInv' /\ ScriptInv'
<1>1. [Next]_vars /\ ScriptInv'
  <2>1. CASE Start
    BY <2>1, StartNext
  <2>2. CASE RunLine
    BY <2>2, RunLineNext
  <2>3. CASE NoteLine
    BY <2>3, NoteNext
  <2>4. CASE CheckLine
    BY <2>4, CheckNext
  <2>5. CASE Execute
    BY <2>5, ExecuteNext
  <2>6. CASE Clock
    BY <2>6, TickNext DEF Clock, Next
  <2>7. CASE TakeIrq
    BY <2>7, LeavesNext DEF TakeIrq, Interrupt
  <2>8. CASE TakeSpurious
    BY <2>8, LeavesNext DEF TakeSpurious
  <2>9. CASE AtEnd \/ UNCHANGED allVars
    BY <2>9, StutterNext DEF AtEnd, allVars
  <2> QED
    BY <2>1, <2>2, <2>3, <2>4, <2>5, <2>6, <2>7, <2>8, <2>9 DEF RunNext
<1>2. RoomInv'
  BY <1>1, TypeNext, TableInvInductive, DeadlineInvInductive DEF RoomInv
<1> QED
  BY <1>1, <1>2

\* The machine as nxu_rooms_run finds it.
LEMMA ScriptInit == RunInit => Init /\ RoomInv /\ ScriptInv
<1> SUFFICES ASSUME RunInit PROVE Init /\ RoomInv /\ ScriptInv
  OBVIOUS
<1>1. Init /\ line = 1
  BY DEF RunInit
<1>2. RoomInv
  BY <1>1, TypeInit, RoomAssumption
  DEF RoomInv, Init, TableInv, DeadlineInv, RoomAssumption
<1>3. ScriptType
  <2>1. words \in [Rooms -> [2 .. 4 -> Payloads \cup {Canary}]]
    BY RunRooms DEF RunInit
  <2>2. first \in [Rooms -> Programs]
    BY DEF RunInit, Programs
  <2>3. line \in 1 .. Len(Script) + 1
    BY <1>1, AnnIs
  <2> QED
    BY <2>1, <2>2, <2>3 DEF ScriptType
<1>4. AtStage(Ann[line])
  BY <1>1, AnnFirst, RunRooms DEF AtStage, RunInit, Init
<1>5. ScriptHolds /\ KeptInv /\ LineInv
  BY <1>1, <1>4 DEF ScriptHolds, KeptInv, LineInv, Under, Init
<1> QED
  BY <1>1, <1>2, <1>3, <1>5 DEF ScriptInv

\* The script with its programs does nothing Room.tla does not allow: nxu_rooms_run with
\* room_entry.S is one of the machines of which every other theorem here speaks.
THEOREM ScriptImplementsRoom == RunSpec => Spec
<1>1. RunSpec => [](RoomInv /\ ScriptInv)
  BY ScriptInit, ScriptStep, PTL DEF RunSpec
<1>2. RoomInv /\ ScriptInv /\ [RunNext]_allVars => [Next]_vars
  BY ScriptStep
<1> QED
  BY <1>1, <1>2, ScriptInit, PTL DEF RunSpec, Spec

\* Whatever the clock and the interrupts do while nxu_rooms_run goes through its script, no
\* check of it fails, no entry that is owed is refused, and the kernel never faults on its own
\* copy: it stops only for a deadline or an interrupt that came at the wrong time.
THEOREM ScriptAlwaysHolds == RunSpec => []ScriptHolds
<1>1. RoomInv /\ ScriptInv => ScriptHolds
  BY DEF ScriptInv
<1>2. RoomInv /\ ScriptInv /\ [RunNext]_allVars => (RoomInv /\ ScriptInv)'
  BY ScriptStep
<1> QED
  BY <1>1, <1>2, ScriptInit, PTL DEF RunSpec

\* The script's own variables: who ran where, and what was counted.
Ran == {Script[i].blob : i \in {j \in DOMAIN Script : Script[j].do = "run"}}
RestOK ==
  /\ quiet \in BOOLEAN
  /\ ip \in 1 .. 6
  /\ first \in [Rooms -> {"zero"} \cup Ran]
  /\ d \in 0 .. CountMod - 1 /\ rej \in 0 .. CountMod - 1
InProgram == mode = "room" => ip \in DOMAIN Program(At.blob) /\ ip \in 1 .. 6

\* A store leaves a code page with a program of the script, or with none.
LEMMA StoreRest ==
  ASSUME RestOK, NEW page, NEW word, NEW value, StoreWord(page, word, value)
  PROVE  mode' = "room" /\ first' \in [Rooms -> {"zero"} \cup Ran]
  BY DEF RestOK, StoreWord, El0Store

\* One instruction: the program goes on, or is left.
LEMMA ExecuteRest ==
  ASSUME RoomInv, ScriptInv, RestOK, Execute
  PROVE  /\ UNCHANGED <<quiet, d, rej>> /\ first' \in [Rooms -> {"zero"} \cup Ran]
         /\ ip' = ip \/ mode' = "room"
<1>0. mode = "room" /\ first \in [Rooms -> {"zero"} \cup Ran]
  BY DEF Execute, RestOK
<1>1. /\ UNCHANGED here => UNCHANGED <<quiet, d, rej, first, ip>>
      /\ NextInsn => UNCHANGED <<quiet, d, rej>>
  BY DEF here, NextInsn
<1>2. \A op : Denied(op) => UNCHANGED here
  BY DEF Denied
<1>3. CASE Insn.op = "str"
  <2>1. Denied("store") \/ (StoreWord(Target, Insn.word, Insn.value) /\ NextInsn)
    BY <1>3 DEF Execute
  <2> QED
    BY <1>0, <1>1, <1>2, <2>1, StoreRest
<1>4. CASE Insn.op = "ldr"
  <2>1. Denied("load") \/ (NextInsn /\ UNCHANGED <<vars, words, first>>)
    BY <1>4 DEF Execute
  <2> QED
    BY <1>0, <1>1, <1>2, <2>1 DEF vars
<1>5. CASE Insn.op = "br"
  BY <1>0, <1>1, <1>2, <1>5 DEF Execute
<1>6. CASE Insn.op = "copy"
  <2>1. StoreWord(Data(cur), 2, mem[Data(cur)].pay) /\ NextInsn
    BY <1>6 DEF Execute
  <2> QED
    BY <1>1, <2>1, StoreRest
<1>7. CASE Insn.op = "msr"
  <2>1. el0timer = FALSE
    BY <1>0 DEF RoomInv, DeadlineInv
  <2> QED
    BY <1>0, <1>1, <1>7, <2>1 DEF Execute
<1>8. CASE Insn.op \in {"pulse", "pulse-x1"}
  <2>1. /\ NextInsn /\ UNCHANGED first
        /\ \E place \in Places : PulseRejected(place) \/ PulseDelivered(place)
    BY <1>8 DEF Execute, Places
  <2>2. mode' = mode
    BY <2>1 DEF PulseRejected, PulseDelivered
  <2> QED
    BY <1>0, <1>1, <2>1, <2>2
<1>9. CASE Insn.op = "svc0"
  BY <1>0, <1>1, <1>9 DEF Execute
<1>10. CASE Insn.op = "b"
  BY <1>10 DEF Execute
<1> QED
  BY <1>0, <1>3, <1>4, <1>5, <1>6, <1>7, <1>8, <1>9, <1>10, AtInsn DEF InsnOf

\* Each step keeps them, if no program runs past its end.
LEMMA RestNext ==
  ASSUME RoomInv, ScriptInv, RestOK, [RunNext]_allVars, InProgram'
  PROVE  RestOK'
<1>1. CASE Execute
  BY <1>1, ExecuteRest DEF RestOK, InProgram
<1>2. CASE RunLine
  <2>1. ~Finished /\ At.do = "run"
    BY <1>2 DEF RunLine
  <2>2. At.room \in Rooms /\ At.blob \in Ran
    <3>1. At.room \in Rooms /\ line \in 1 .. Len(Script) /\ Script \in Seq(Lines)
      BY <2>1, AtRun, ScriptLeads DEF Leads
    <3> QED
      BY <2>1, <3>1 DEF Ran, At
  <2>3. delivered \in 0 .. CountMod - 1
    BY DEF RoomInv, TypeOK
  <2>4. CASE UNCHANGED here \/ UNCHANGED <<quiet, ip, words, first, d, rej>>
    BY <2>4 DEF RestOK, here
  <2>5. CASE /\ first' = [first EXCEPT ![At.room] = At.blob]
             /\ d' = IF At.blob = "send" THEN delivered ELSE d
             /\ ip' = 1
             /\ UNCHANGED <<quiet, line, words, rej>>
    <3>1. first' \in [Rooms -> {"zero"} \cup Ran]
      BY <2>2, <2>5 DEF RestOK
    <3> QED
      BY <2>3, <2>5, <3>1 DEF RestOK
  <2> QED
    BY <1>2, <2>4, <2>5 DEF RunLine
<1>3. CASE NoteLine
  BY <1>3 DEF NoteLine, RestOK, RoomInv, TypeOK
<1>4. CASE Start \/ CheckLine
  BY <1>4 DEF Start, CheckLine, RestOK
<1>5. CASE Clock \/ TakeIrq \/ TakeSpurious \/ AtEnd \/ UNCHANGED allVars
  BY <1>5 DEF Clock, TakeIrq, TakeSpurious, AtEnd, allVars, here, RestOK
<1> QED
  BY <1>1, <1>2, <1>3, <1>4, <1>5 DEF RunNext

\* The program in a room is one the script names, the counters are counters, and no program
\* runs past its last instruction, into what an earlier one left in the page.
THEOREM RunTypeCorrect == RunSpec => []RunTypeOK
<1>1. RunInit => RestOK
  <2> SUFFICES ASSUME RunInit PROVE RestOK
    OBVIOUS
  <2>1. 0 \in 0 .. CountMod - 1
    BY RoomAssumption DEF RoomAssumption
  <2>2. quiet \in BOOLEAN
    BY Zenon DEF RunInit
  <2> QED
    BY <2>1, <2>2 DEF RunInit, RestOK
<1>2. RoomInv /\ ScriptInv => InProgram
  <2> SUFFICES ASSUME ScriptInv, mode = "room"
               PROVE  ip \in DOMAIN Program(At.blob) /\ ip \in 1 .. 6
    BY DEF InProgram
  <2>1. ip \in 1 .. Len(Program(At.blob)) /\ At.blob \in Names
    BY AtInsn DEF InsnOf
  <2> QED
    BY <2>1, InsnsAre
<1>3. RoomInv /\ ScriptInv /\ RestOK /\ [RunNext]_allVars /\ InProgram' => RestOK'
  BY RestNext
<1>4. RoomInv /\ ScriptInv /\ RestOK /\ InProgram => RunTypeOK
  BY DEF RoomInv, TypeOK, ScriptInv, ScriptType, RestOK, Ran, InProgram, RunTypeOK
<1>5. RoomInv /\ ScriptInv /\ [RunNext]_allVars => (RoomInv /\ ScriptInv)'
  BY ScriptStep
<1> QED
  BY <1>1, <1>2, <1>3, <1>4, <1>5, ScriptInit, PTL DEF RunSpec
=============================================================================
