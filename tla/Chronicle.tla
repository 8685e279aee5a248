------------------------------ MODULE Chronicle ------------------------------
(***************************************************************************)
(* The record rings of one CPU: foundation/observe/chronicle.c and bbox.c,  *)
(* with nxu_log and nxu_fail on top.  A put is a run of plain stores; while *)
(* interrupts are open the handler of the same CPU, which puts records of   *)
(* its own (signal.c:41-64), may run between any two of them.  The handler  *)
(* itself is never interrupted, so a whole handler is one action.           *)
(***************************************************************************)
EXTENDS Integers, FiniteSets

CONSTANTS
  CHRONICLE_CAP,  \* 128
  BBOX_CAP,       \* 32
  MaxPuts         \* bound: records made in a behaviour

ASSUME ChronicleAssumption ==
  /\ CHRONICLE_CAP \in Nat \ {0} /\ BBOX_CAP \in Nat \ {0}
  /\ MaxPuts \in Nat

Rings == {"chronicle", "bbox"}
Cap(k) == IF k = "chronicle" THEN CHRONICLE_CAP ELSE BBOX_CAP

VARIABLES
  ring,     \* per ring: next, count, and the records
  fail,     \* per ring: the last-failure slot, 0 for none
  pc,       \* where the mainline stands in a put
  call,     \* the put of the mainline: what for, which ring, which slot, which record
  loaded,   \* the value that its count++ has loaded
  open,     \* are interrupts unmasked?
  made,     \* records made so far; record n is the n-th
  nested,   \* history: has the handler ever interrupted a put?
  failing   \* history: the failure being reported, 0 for none

vars == <<ring, fail, pc, call, loaded, open, made, nested, failing>>

\* A record is its number, twice: code and values may come to differ.
Rec(seq, code, data) == [seq |-> seq, code |-> code, data |-> data]
Ring(next, count, rec) == [next |-> next, count |-> count, rec |-> rec]
Record == [seq : Nat, code : 0 .. MaxPuts, data : 0 .. MaxPuts]
Purposes == {"put", "fail", "again", "faillog"}
Steps == {"seq", "code", "data", "next", "load", "store"}

TypeOK ==
  /\ ring = [k \in Rings |-> ring[k]]
  /\ \A k \in Rings : ring[k] \in [next : 0 .. Cap(k), count : Nat,
                                  rec : [0 .. Cap(k) - 1 -> Record]]
  /\ fail \in [Rings -> 0 .. MaxPuts]
  /\ pc \in {"idle", "failbox", "log", "halted"} \cup Steps
  /\ call \in [for : Purposes, ring : Rings, slot : Nat, record : 0 .. MaxPuts]
  /\ call.slot < Cap(call.ring) /\ loaded \in Nat
  /\ open \in BOOLEAN /\ nested \in BOOLEAN
  /\ made \in 0 .. MaxPuts /\ failing \in 0 .. MaxPuts

\* nxu_chronicle_init and nxu_bbox_init.
Init ==
  /\ ring = [k \in Rings |-> Ring(0, 0, [i \in 0 .. Cap(k) - 1 |-> Rec(0, 0, 0)])]
  /\ fail = [k \in Rings |-> 0]
  /\ pc = "idle"
  /\ call = [for |-> "put", ring |-> "chronicle", slot |-> 0, record |-> 0]
  /\ loaded = 0 /\ open = FALSE /\ made = 0 /\ nested = FALSE /\ failing = 0

SlotUnwrapped(k) == ring[k].next
Slot(k) == ring[k].next % Cap(k)

-----------------------------------------------------------------------------
(* nxu_chronicle_put of the mainline, which ends in nxu_bbox_put.            *)

Begin(k, purpose, record) ==
  /\ call' = [for |-> purpose, ring |-> k, slot |-> Slot(k), record |-> record]
  /\ pc' = IF k = "chronicle" THEN "seq" ELSE "code"

\* A new record: nxu_chronicle_put as such, or the log line of a failure.
Put ==
  /\ pc = "idle" /\ made < MaxPuts
  /\ made' = made + 1
  /\ Begin("chronicle", "put", made + 1)
  /\ UNCHANGED <<ring, fail, loaded, open, nested, failing>>

Here == ring[call.ring]
Kept == Here.rec[call.slot]
Store(rec) ==
  ring' = [ring EXCEPT ![call.ring] =
             Ring(Here.next, Here.count, [Here.rec EXCEPT ![call.slot] = rec])]

PutSeq ==
  /\ pc = "seq" /\ pc' = "code"
  /\ Store(Rec(Here.count, Kept.code, Kept.data))
  /\ UNCHANGED <<fail, call, loaded, open, made, nested, failing>>
PutCode ==
  /\ pc = "code" /\ pc' = "data"
  /\ Store(Rec(Kept.seq, call.record, Kept.data))
  /\ UNCHANGED <<fail, call, loaded, open, made, nested, failing>>
PutData ==
  /\ pc = "data" /\ pc' = "next"
  /\ Store(Rec(Kept.seq, Kept.code, call.record))
  /\ UNCHANGED <<fail, call, loaded, open, made, nested, failing>>
PutNext ==
  /\ pc = "next" /\ pc' = "load"
  /\ ring' = [ring EXCEPT ![call.ring] = Ring(call.slot + 1, Here.count, Here.rec)]
  /\ UNCHANGED <<fail, call, loaded, open, made, nested, failing>>

\* count++ is a load and a store.
PutLoad ==
  /\ pc = "load" /\ pc' = "store"
  /\ loaded' = Here.count
  /\ UNCHANGED <<ring, fail, call, open, made, nested, failing>>

\* ... and what follows: the other ring, the rest of nxu_fail, or the caller.
PutStore ==
  /\ pc = "store"
  /\ ring' = [ring EXCEPT ![call.ring] = Ring(Here.next, loaded + 1, Here.rec)]
  /\ \/ call.ring = "chronicle" /\ Begin("bbox", call.for, call.record)
     \/ call.ring = "bbox" /\ call.for = "fail" /\ Begin("bbox", "again", call.record)
     \/ /\ call.ring = "bbox" /\ call.for # "fail"
        /\ pc' = [put |-> "idle", again |-> "failbox", faillog |-> "halted"][call.for]
        /\ UNCHANGED call
  /\ UNCHANGED <<fail, loaded, open, made, nested, failing>>

-----------------------------------------------------------------------------
(* nxu_fail: the slot of the chronicle, a put, a second put into the black   *)
(* box and its slot, a log line, the dump, halt.                            *)

FailSlotOnce(k, record) == [fail EXCEPT ![k] = IF @ = 0 THEN record ELSE @]
FailSlot(k, record) == [fail EXCEPT ![k] = record]

Fail ==
  /\ pc = "idle" /\ made < MaxPuts
  /\ made' = made + 1 /\ failing' = made + 1
  /\ fail' = FailSlot("chronicle", made + 1)
  /\ Begin("chronicle", "fail", made + 1)
  /\ UNCHANGED <<ring, loaded, open, nested>>

FailBox ==
  /\ pc = "failbox" /\ pc' = "log"
  /\ fail' = FailSlot("bbox", call.record)
  /\ UNCHANGED <<ring, call, loaded, open, made, nested, failing>>

FailLog ==
  /\ pc = "log" /\ made < MaxPuts
  /\ made' = made + 1
  /\ Begin("chronicle", "faillog", made + 1)
  /\ UNCHANGED <<ring, fail, loaded, open, nested, failing>>

-----------------------------------------------------------------------------
(* The interrupt handler, wherever the mainline stands.                      *)

PutInto(k, r, record) ==
  LET i == r.next % Cap(k)
  IN  Ring(i + 1, r.count + 1,
           [r.rec EXCEPT ![i] = Rec(IF k = "chronicle" THEN r.count ELSE 0, record, record)])
Puts(rings, record) == [k \in Rings |-> PutInto(k, rings[k], record)]
BoxAgain(rings, record) == [rings EXCEPT !["bbox"] = PutInto("bbox", @, record)]

\* A bound IPI: one record for the interrupt, one for the IPI.
IrqIpi ==
  /\ open /\ pc # "halted" /\ made + 2 <= MaxPuts
  /\ made' = made + 2
  /\ ring' = Puts(Puts(ring, made + 1), made + 2)
  /\ nested' = (nested \/ pc # "idle")
  /\ UNCHANGED <<fail, pc, call, loaded, open, failing>>

\* An interrupt nobody owns: its record, then nxu_fail from the handler.
IrqUnbound ==
  /\ open /\ pc # "halted" /\ made + 3 <= MaxPuts
  /\ made' = made + 3
  /\ ring' = Puts(BoxAgain(Puts(Puts(ring, made + 1), made + 2), made + 2), made + 3)
  /\ fail' = [k \in Rings |-> FailSlot(k, made + 2)[k]]
  /\ failing' = made + 2
  /\ nested' = (nested \/ pc # "idle")
  /\ pc' = "halted"
  /\ UNCHANGED <<call, loaded, open>>

\* nxu_daif_unmask_irq and nxu_daif_mask_all of the boot CPU.
Unmask ==
  /\ pc = "idle" /\ ~open /\ open' = TRUE
  /\ UNCHANGED <<ring, fail, pc, call, loaded, made, nested, failing>>
Mask ==
  /\ pc = "idle" /\ open /\ open' = FALSE
  /\ UNCHANGED <<ring, fail, pc, call, loaded, made, nested, failing>>

\* nxu_halt, or the bound on records.
Stay == (pc = "halted" \/ made = MaxPuts) /\ UNCHANGED vars

Next ==
  \/ Put \/ PutSeq \/ PutCode \/ PutData \/ PutNext \/ PutLoad \/ PutStore
  \/ Fail \/ FailBox \/ FailLog
  \/ IrqIpi \/ IrqUnbound
  \/ Unmask \/ Mask \/ Stay

Spec == Init /\ [][Next]_vars

-----------------------------------------------------------------------------
(* What can be read back.                                                   *)

Held(k) == IF ring[k].count > Cap(k) THEN Cap(k) ELSE ring[k].count

\* nxu_bbox_dump: the slot of the i-th line, the oldest record first.
LineUnwrapped(k, i) == i
Line(k, i) == IF ring[k].count > Cap(k) THEN (ring[k].next + i) % Cap(k) ELSE i
Dump(k) == [i \in 0 .. Held(k) - 1 |-> ring[k].rec[Line(k, i)]]

Whole(r, n) == r.code = n /\ r.data = n

\* As long as no interrupt fell inside a put, a ring holds the newest records,
\* whole and in the order they were made, and the chronicle numbers them.
DumpInOrder ==
  pc = "idle" /\ ~nested =>
    \A k \in Rings : \A i \in DOMAIN Dump(k) :
      LET n == made - Held(k) + 1 + i
      IN  /\ Whole(Dump(k)[i], n)
          /\ k = "chronicle" => Dump(k)[i].seq = n - 1

\* The failure that failing the CPU is the one both last-failure slots name, even
\* when the handler failed while the mainline was failing.
HaltNamesFailure == pc = "halted" => \A k \in Rings : fail[k] = failing /\ failing # 0

\* "Chronicle is per-CPU, append-only in the ring sense" (closure invariant 19):
\* the newest records are all there.
NothingLost ==
  pc = "idle" =>
    \A n \in 1 .. made :
      made - n < CHRONICLE_CAP => \E i \in 0 .. CHRONICLE_CAP - 1 :
                                     Whole(ring["chronicle"].rec[i], n)
==============================================================================
