--------------------------- MODULE ChronicleProofs ---------------------------
(***************************************************************************)
(* Chronicle.tla for rings of any capacity and any number of records: the   *)
(* order of the dump, and the failure a halted CPU names.                   *)
(***************************************************************************)
EXTENDS Chronicle, TLAPS

\* Where the record made a puts before the newest lies.
Pos(k, next, a) == IF a < next THEN next - 1 - a ELSE next - 1 - a + Cap(k)

\* The ring has its place for the next record after m puts, and the newest of its
\* m records are in it, those younger than an age.
Shape(k, r, m) == /\ m <= Cap(k) => r.next = m
                  /\ m > Cap(k) => r.next \in 1 .. Cap(k)
Good(k, rec, n) == Whole(rec, n) /\ (k = "chronicle" => rec.seq = n - 1)
Holds(k, r, m, age) ==
  \A a \in 0 .. Cap(k) - 1 : a < m /\ a < age => Good(k, r.rec[Pos(k, r.next, a)], m - a)
Newest(k, r, m) == r.count = m /\ Shape(k, r, m) /\ Holds(k, r, m, Cap(k))

NextSlot(k, r) == IF r.next = Cap(k) THEN 0 ELSE r.next

\* A put of the mainline that nothing has interrupted, before and after it has
\* moved next.
Filling ==
  /\ Shape(call.ring, Here, made - 1) /\ Here.count = made - 1
  /\ call.slot = NextSlot(call.ring, Here)
  /\ Holds(call.ring, Here, made - 1, Cap(call.ring) - 1)
  /\ call.ring = "chronicle" /\ pc # "seq" => Kept.seq = made - 1
  /\ pc \in {"data", "next"} => Kept.code = made
  /\ pc = "next" => Kept.data = made
Filled ==
  /\ Shape(call.ring, Here, made) /\ Here.count = made - 1
  /\ Holds(call.ring, Here, made, Cap(call.ring))
  /\ pc = "store" => loaded = made - 1

DumpInv ==
  ~nested =>
    /\ pc = "idle" => \A k \in Rings : Newest(k, ring[k], made)
    /\ pc \in Steps /\ call.for = "put" =>
         /\ made >= 1 /\ call.record = made
         /\ call.ring = "bbox" => Newest("chronicle", ring["chronicle"], made)
         /\ call.ring = "chronicle" => Newest("bbox", ring["bbox"], made - 1)
         /\ pc \in {"seq", "code", "data", "next"} => Filling
         /\ pc \in {"load", "store"} => Filled

\* The failure that is reported, from the first slot to the halt.
FailInv ==
  /\ pc = "seq" => call.ring = "chronicle"
  /\ pc = "failbox" \/ (pc \in Steps /\ call.for \in {"fail", "again"}) =>
       fail["chronicle"] = failing /\ call.record = failing /\ failing # 0
  /\ pc \in {"log", "halted"} \/ (pc \in Steps /\ call.for = "faillog") =>
       /\ fail["chronicle"] = failing /\ fail["bbox"] = failing /\ failing # 0

IInv == TypeOK /\ DumpInv /\ FailInv

-----------------------------------------------------------------------------
\* The capacities are positive, and a place past the last is the first.
LEMMA CapType == \A k \in Rings : Cap(k) \in Nat \ {0}
  BY ChronicleAssumption DEF ChronicleAssumption, Cap

\* The remainder of a number below twice the capacity.
LEMMA Wrap ==
  ASSUME NEW C \in Nat \ {0}, NEW x \in 0 .. 2 * C - 1
  PROVE  x % C = IF x < C THEN x ELSE x - C
  BY SMT

RingType(k) == [next : 0 .. Cap(k), count : Nat, rec : [0 .. Cap(k) - 1 -> Record]]

\* The slot of a put is within the ring.
LEMMA SlotIs ==
  ASSUME NEW k \in Rings, NEW r \in RingType(k)
  PROVE  r.next % Cap(k) = NextSlot(k, r) /\ NextSlot(k, r) \in 0 .. Cap(k) - 1
<1>1. r.next \in 0 .. Cap(k) /\ Cap(k) \in Nat \ {0}
  BY CapType DEF RingType
<1>2. r.next \in 0 .. 2 * Cap(k) - 1
  BY <1>1
<1>3. r.next % Cap(k) = IF r.next < Cap(k) THEN r.next ELSE r.next - Cap(k)
  BY <1>1, <1>2, Wrap
<1> QED
  BY <1>1, <1>3 DEF NextSlot

\* After a put every record is one put older, and stands where it stood.
LEMMA PosShift ==
  ASSUME NEW k \in Rings, NEW r \in RingType(k)
  PROVE  /\ Pos(k, NextSlot(k, r) + 1, 0) = NextSlot(k, r)
         /\ \A a \in 0 .. Cap(k) - 2 :
              /\ Pos(k, NextSlot(k, r) + 1, a + 1) = Pos(k, r.next, a)
              /\ Pos(k, r.next, a) \in 0 .. Cap(k) - 1
              /\ Pos(k, r.next, a) # NextSlot(k, r)
<1> DEFINE C == Cap(k)
           x == r.next
           s == NextSlot(k, r)
<1>1. C \in Nat \ {0} /\ x \in 0 .. C
  BY CapType DEF RingType
<1>2. s = IF x = C THEN 0 ELSE x
  BY DEF NextSlot
<1>3. \A y, a : Pos(k, y, a) = IF a < y THEN y - 1 - a ELSE y - 1 - a + C
  BY DEF Pos
<1> HIDE DEF C, x, s
<1>4. Pos(k, s + 1, 0) = s
  BY <1>1, <1>2, <1>3
<1>5. ASSUME NEW a \in 0 .. C - 2
      PROVE  /\ Pos(k, s + 1, a + 1) = Pos(k, x, a)
             /\ Pos(k, x, a) \in 0 .. C - 1 /\ Pos(k, x, a) # s
  BY <1>1, <1>2, <1>3
<1> QED
  BY <1>4, <1>5 DEF C, x, s

\* A put whose slot is filled moves next: the ring holds one record more.
LEMMA Turn ==
  ASSUME NEW k \in Rings, NEW r \in RingType(k), NEW m \in Nat,
         NEW rec \in [0 .. Cap(k) - 1 -> Record], NEW q,
         Shape(k, r, m), Holds(k, r, m, Cap(k) - 1),
         \A i \in 0 .. Cap(k) - 1 : i # NextSlot(k, r) => rec[i] = r.rec[i],
         Good(k, rec[NextSlot(k, r)], m + 1),
         q.next = NextSlot(k, r) + 1, q.rec = rec
  PROVE  Shape(k, q, m + 1) /\ Holds(k, q, m + 1, Cap(k))
<1> DEFINE s == NextSlot(k, r)
<1>1. Cap(k) \in Nat \ {0} /\ r.next \in 0 .. Cap(k) /\ s \in 0 .. Cap(k) - 1
  BY CapType, SlotIs DEF RingType
<1>2. Shape(k, q, m + 1)
  BY <1>1 DEF Shape, NextSlot
<1>3. ASSUME NEW a \in 0 .. Cap(k) - 1, a < m + 1
      PROVE  Good(k, rec[Pos(k, s + 1, a)], m + 1 - a)
  <2>1. CASE a = 0
    BY <1>1, <2>1, PosShift DEF Good
  <2>2. CASE a # 0
    <3>1. a - 1 \in 0 .. Cap(k) - 2 /\ a - 1 < m /\ (a - 1) + 1 = a /\ m - (a - 1) = m + 1 - a
      BY <1>1, <1>3, <2>2
    <3>2. Good(k, r.rec[Pos(k, r.next, a - 1)], m + 1 - a)
      <4>1. a - 1 \in 0 .. Cap(k) - 1 /\ a - 1 < Cap(k) - 1
        BY <1>1, <3>1
      <4> QED
        BY <3>1, <4>1 DEF Holds
    <3>3. /\ Pos(k, s + 1, a) = Pos(k, r.next, a - 1)
          /\ Pos(k, r.next, a - 1) \in 0 .. Cap(k) - 1 /\ Pos(k, r.next, a - 1) # s
      BY <3>1, PosShift
    <3> QED
      BY <3>2, <3>3
  <2> QED
    BY <2>1, <2>2
<1> QED
  BY <1>2, <1>3 DEF Holds

\* A put that nothing interrupts.
LEMMA PutKeeps ==
  ASSUME NEW k \in Rings, NEW r \in RingType(k), NEW n \in 0 .. MaxPuts
  PROVE  /\ PutInto(k, r, n) \in RingType(k)
         /\ \A m \in Nat : n = m + 1 /\ Newest(k, r, m) => Newest(k, PutInto(k, r, n), n)
<1> DEFINE s == NextSlot(k, r)
           new == Rec(IF k = "chronicle" THEN r.count ELSE 0, n, n)
           rec == [r.rec EXCEPT ![s] = new]
<1>1. Cap(k) \in Nat \ {0} /\ s \in 0 .. Cap(k) - 1 /\ r.next % Cap(k) = s
  BY CapType, SlotIs
<1>2. PutInto(k, r, n) = Ring(s + 1, r.count + 1, rec)
  BY <1>1 DEF PutInto
<1>3. r.count \in Nat /\ r.rec \in [0 .. Cap(k) - 1 -> Record]
  BY DEF RingType
<1>4. new \in Record
  BY <1>3 DEF Record, Rec
<1>5. rec \in [0 .. Cap(k) - 1 -> Record]
  BY <1>3, <1>4
<1>6. s + 1 \in 0 .. Cap(k) /\ r.count + 1 \in Nat
  BY <1>1, <1>3
<1>7. PutInto(k, r, n) \in RingType(k)
  <2> HIDE DEF s, rec
  <2> QED
    BY <1>2, <1>5, <1>6 DEF RingType, Ring
<1>8. ASSUME NEW m \in Nat, n = m + 1, Newest(k, r, m) PROVE Newest(k, PutInto(k, r, n), n)
  <2> DEFINE q == Ring(s + 1, r.count + 1, rec)
  <2>1. q.next = s + 1 /\ q.rec = rec /\ q.count = n
    BY <1>8 DEF Ring, Newest
  <2>2. Shape(k, r, m) /\ Holds(k, r, m, Cap(k) - 1)
    BY <1>1, <1>8 DEF Newest, Holds
  <2>3. \A i \in 0 .. Cap(k) - 1 : i # s => rec[i] = r.rec[i]
    BY <1>3
  <2>4. Good(k, rec[s], m + 1)
    BY <1>1, <1>3, <1>8 DEF Good, Whole, Rec, Newest
  <2> HIDE DEF rec, q
  <2>5. Shape(k, q, m + 1) /\ Holds(k, q, m + 1, Cap(k))
    BY <1>5, <2>1, <2>2, <2>3, <2>4, Turn
  <2> QED
    BY <1>2, <1>8, <2>1, <2>5 DEF Newest, q
<1> QED
  BY <1>7, <1>8

\* A store into the slot of a put leaves the other records.
LEMMA StoreKeeps ==
  ASSUME NEW k \in Rings, NEW r \in RingType(k), NEW v \in Record, NEW q,
         q = Ring(r.next, r.count, [r.rec EXCEPT ![NextSlot(k, r)] = v])
  PROVE  /\ q \in RingType(k) /\ q.next = r.next /\ q.count = r.count
         /\ NextSlot(k, q) = NextSlot(k, r) /\ q.rec[NextSlot(k, r)] = v
         /\ \A m \in Nat : /\ Shape(k, r, m) => Shape(k, q, m)
                           /\ Holds(k, r, m, Cap(k) - 1) => Holds(k, q, m, Cap(k) - 1)
<1> DEFINE rec == [r.rec EXCEPT ![NextSlot(k, r)] = v]
<1>1. /\ Cap(k) \in Nat \ {0} /\ NextSlot(k, r) \in 0 .. Cap(k) - 1
      /\ r.next \in 0 .. Cap(k) /\ r.count \in Nat /\ r.rec \in [0 .. Cap(k) - 1 -> Record]
  BY CapType, SlotIs DEF RingType
<1>2. rec \in [0 .. Cap(k) - 1 -> Record] /\ rec[NextSlot(k, r)] = v
  BY <1>1
<1>3. \A i \in 0 .. Cap(k) - 1 : i # NextSlot(k, r) => rec[i] = r.rec[i]
  BY <1>1
<1> HIDE DEF rec
<1>4. q.next = r.next /\ q.count = r.count /\ q.rec = rec /\ q = Ring(r.next, r.count, rec)
  BY DEF Ring, rec
<1>5. q \in RingType(k)
  BY <1>1, <1>2, <1>4 DEF RingType, Ring
<1>6. ASSUME NEW m \in Nat, Holds(k, r, m, Cap(k) - 1) PROVE Holds(k, q, m, Cap(k) - 1)
  <2> SUFFICES ASSUME NEW a \in 0 .. Cap(k) - 1, a < m, a < Cap(k) - 1
               PROVE  Good(k, rec[Pos(k, r.next, a)], m - a)
    BY <1>4 DEF Holds
  <2>1. a \in 0 .. Cap(k) - 2
    BY <1>1
  <2>2. Good(k, r.rec[Pos(k, r.next, a)], m - a)
    BY <1>6 DEF Holds
  <2> QED
    BY <1>3, <2>1, <2>2, PosShift
<1> QED
  BY <1>2, <1>4, <1>5, <1>6 DEF Shape, NextSlot

\* What a step does to the ring of the put, and that it leaves the other.
LEMMA RingStep ==
  ASSUME TypeOK, NEW q \in RingType(call.ring), ring' = [ring EXCEPT ![call.ring] = q]
  PROVE  /\ ring'[call.ring] = q
         /\ \A k \in Rings : k # call.ring => ring'[k] = ring[k]
         /\ \A k \in Rings : ring'[k] \in RingType(k)
         /\ ring' = [k \in Rings |-> ring'[k]]
<1>1. call.ring \in Rings /\ ring = [k \in Rings |-> ring[k]]
  BY DEF TypeOK
<1>2. \A k \in Rings : ring[k] \in RingType(k)
  BY DEF TypeOK, RingType
<1>3. /\ ring'[call.ring] = q
      /\ \A k \in Rings : k # call.ring => ring'[k] = ring[k]
      /\ ring' = [k \in Rings |-> ring'[k]]
  BY <1>1
<1> QED
  BY <1>2, <1>3

\* The call of a put, and where it starts.
LEMMA BeginType ==
  ASSUME TypeOK, NEW k \in Rings, NEW purpose \in Purposes, NEW n \in 0 .. MaxPuts,
         Begin(k, purpose, n)
  PROVE  /\ call' \in [for : Purposes, ring : Rings, slot : Nat, record : 0 .. MaxPuts]
         /\ call'.slot < Cap(call'.ring) /\ call'.slot = NextSlot(k, ring[k])
         /\ call'.ring = k /\ call'.for = purpose /\ call'.record = n
         /\ pc' \in Steps
         /\ pc' = "seq" => k = "chronicle"
         /\ pc' \in {"seq", "code"} /\ (pc' = "seq" <=> k = "chronicle")
<1>1. ring[k] \in RingType(k)
  BY DEF TypeOK, RingType
<1>2. Slot(k) = NextSlot(k, ring[k]) /\ Slot(k) \in 0 .. Cap(k) - 1 /\ Cap(k) \in Nat
  BY <1>1, SlotIs, CapType DEF Slot
<1> QED
  BY <1>2 DEF Begin, Steps

\* The ring of the call, its slot and its record have their types.
LEMMA HereType ==
  ASSUME TypeOK
  PROVE  /\ call.ring \in Rings /\ Here \in RingType(call.ring)
         /\ call.slot \in 0 .. Cap(call.ring) - 1 /\ Kept \in Record
         /\ call.record \in 0 .. MaxPuts /\ Here.count \in Nat /\ Here.next \in 0 .. Cap(call.ring)
         /\ Here.rec \in [0 .. Cap(call.ring) - 1 -> Record]
         /\ Cap(call.ring) \in Nat \ {0}
<1>1. call.ring \in Rings /\ Here \in RingType(call.ring) /\ call.slot \in Nat
      /\ call.record \in 0 .. MaxPuts /\ call.slot < Cap(call.ring)
  BY DEF TypeOK, RingType, Here
<1>2. Cap(call.ring) \in Nat \ {0}
  BY <1>1, CapType
<1>3. Here.count \in Nat /\ Here.next \in 0 .. Cap(call.ring)
      /\ Here.rec \in [0 .. Cap(call.ring) - 1 -> Record]
  BY <1>1 DEF RingType
<1> QED
  BY <1>1, <1>2, <1>3 DEF Kept

\* The handler's puts, which nothing interrupts.
LEMMA PutsKeep ==
  ASSUME NEW rings, \A k \in Rings : rings[k] \in RingType(k), NEW n \in 0 .. MaxPuts
  PROVE  /\ Puts(rings, n) = [k \in Rings |-> Puts(rings, n)[k]]
         /\ \A k \in Rings : Puts(rings, n)[k] \in RingType(k)
         /\ \A m \in Nat : n = m + 1 /\ (\A k \in Rings : Newest(k, rings[k], m)) =>
              \A k \in Rings : Newest(k, Puts(rings, n)[k], n)
<1>1. \A k \in Rings : Puts(rings, n)[k] = PutInto(k, rings[k], n)
  BY DEF Puts
<1>2. Puts(rings, n) = [k \in Rings |-> Puts(rings, n)[k]]
  BY DEF Puts
<1> QED
  BY <1>1, <1>2, PutKeeps

\* A second store of a record into the black box keeps the types.
LEMMA BoxAgainType ==
  ASSUME NEW rings, rings = [k \in Rings |-> rings[k]],
         \A k \in Rings : rings[k] \in RingType(k), NEW n \in 0 .. MaxPuts
  PROVE  /\ BoxAgain(rings, n) = [k \in Rings |-> BoxAgain(rings, n)[k]]
         /\ \A k \in Rings : BoxAgain(rings, n)[k] \in RingType(k)
<1>1. PutInto("bbox", rings["bbox"], n) \in RingType("bbox")
  BY PutKeeps DEF Rings
<1> QED
  BY <1>1 DEF BoxAgain, Rings

\* Every step keeps every variable in its type.
LEMMA TypeStep == TypeOK /\ [Next]_vars => TypeOK'
<1> SUFFICES ASSUME TypeOK, [Next]_vars PROVE TypeOK'
  OBVIOUS
<1> DEFINE CallOK(c) == /\ c \in [for : Purposes, ring : Rings, slot : Nat, record : 0 .. MaxPuts]
                        /\ c.slot < Cap(c.ring)
           RingsOK(r) == /\ r = [k \in Rings |-> r[k]]
                         /\ \A k \in Rings : r[k] \in RingType(k)
           FailOK(f) == f \in [Rings -> 0 .. MaxPuts]
           PcOK(p) == p \in {"idle", "failbox", "log", "halted"} \cup Steps
           CountOK(m) == m \in 0 .. MaxPuts
           FlagsOK == open' \in BOOLEAN /\ nested' \in BOOLEAN
<1>1. TypeOK <=> /\ RingsOK(ring) /\ FailOK(fail) /\ PcOK(pc) /\ CallOK(call) /\ loaded \in Nat
                 /\ open \in BOOLEAN /\ nested \in BOOLEAN /\ CountOK(made) /\ CountOK(failing)
  BY DEF TypeOK, RingType
<1>2. made \in Nat /\ MaxPuts \in Nat
  BY <1>1, ChronicleAssumption DEF ChronicleAssumption
<1>3. FlagsOK
  BY <1>1, Zenon DEF Next, Put, PutSeq, PutCode, PutData, PutNext, PutLoad, PutStore, Fail,
     FailBox, FailLog, IrqIpi, IrqUnbound, Unmask, Mask, Stay, vars
<1>4. RingsOK(ring')
  <2>1. ASSUME NEW q \in RingType(call.ring), ring' = [ring EXCEPT ![call.ring] = q]
        PROVE  RingsOK(ring')
    BY <2>1, RingStep
  <2>2. CASE ring' = ring
    BY <1>1, <2>2
  <2>3. ASSUME NEW v \in Record, Store(v) PROVE RingsOK(ring')
    <3>1. [Here.rec EXCEPT ![call.slot] = v] \in [0 .. Cap(call.ring) - 1 -> Record]
      BY HereType
    <3>2. Ring(Here.next, Here.count, [Here.rec EXCEPT ![call.slot] = v]) \in RingType(call.ring)
      BY <3>1, HereType DEF Ring, RingType
    <3> QED
      BY <2>1, <2>3, <3>2 DEF Store
  <2>4. CASE PutSeq
    BY <2>3, <2>4, HereType DEF PutSeq, Rec, Record
  <2>5. CASE PutCode
    BY <2>3, <2>5, HereType DEF PutCode, Rec, Record
  <2>6. CASE PutData
    BY <2>3, <2>6, HereType DEF PutData, Rec, Record
  <2>7. CASE PutNext
    <3>1. Ring(call.slot + 1, Here.count, Here.rec) \in RingType(call.ring)
      BY HereType DEF Ring, RingType
    <3> QED
      BY <2>1, <2>7, <3>1 DEF PutNext
  <2>8. CASE PutStore
    <3>1. Ring(Here.next, loaded + 1, Here.rec) \in RingType(call.ring)
      BY <1>1, HereType DEF Ring, RingType
    <3> QED
      BY <2>1, <2>8, <3>1 DEF PutStore
  <2>9. CASE IrqIpi
    <3>1. made + 1 \in 0 .. MaxPuts /\ made + 2 \in 0 .. MaxPuts
      BY <1>1, <2>9, ChronicleAssumption DEF IrqIpi, ChronicleAssumption
    <3>2. RingsOK(Puts(ring, made + 1))
      BY <1>1, <3>1, PutsKeep
    <3>3. RingsOK(Puts(Puts(ring, made + 1), made + 2))
      BY <3>1, <3>2, PutsKeep
    <3> QED
      BY <2>9, <3>3 DEF IrqIpi
  <2>10. CASE IrqUnbound
    <3>1. /\ made + 1 \in 0 .. MaxPuts /\ made + 2 \in 0 .. MaxPuts
          /\ made + 3 \in 0 .. MaxPuts
      BY <1>1, <2>10, ChronicleAssumption DEF IrqUnbound, ChronicleAssumption
    <3>2. RingsOK(Puts(ring, made + 1))
      BY <1>1, <3>1, PutsKeep
    <3>3. RingsOK(Puts(Puts(ring, made + 1), made + 2))
      BY <3>1, <3>2, PutsKeep
    <3>4. RingsOK(BoxAgain(Puts(Puts(ring, made + 1), made + 2), made + 2))
      BY <3>1, <3>3, BoxAgainType
    <3>5. RingsOK(Puts(BoxAgain(Puts(Puts(ring, made + 1), made + 2), made + 2), made + 3))
      BY <3>1, <3>4, PutsKeep
    <3> QED
      BY <2>10, <3>5 DEF IrqUnbound
  <2> QED
    BY <2>2, <2>4, <2>5, <2>6, <2>7, <2>8, <2>9, <2>10 DEF Next, Put, PutLoad, Fail, FailBox,
       FailLog, Unmask, Mask, Stay, vars
<1>5. /\ CountOK(made') /\ CountOK(failing') /\ FailOK(fail') /\ loaded' \in Nat
  <2>a. /\ CountOK(made) /\ CountOK(failing) /\ FailOK(fail) /\ loaded \in Nat
        /\ call.record \in 0 .. MaxPuts /\ Here.count \in Nat
    BY <1>1, HereType
  <2>b. /\ made + 1 <= MaxPuts => CountOK(made + 1)
        /\ made + 2 <= MaxPuts => CountOK(made + 2)
        /\ made + 3 <= MaxPuts => CountOK(made + 3)
        /\ made < MaxPuts => CountOK(made + 1)
    BY <1>2
  <2>0. /\ CountOK(made) /\ CountOK(failing) /\ FailOK(fail) /\ loaded \in Nat
        /\ CountOK(call.record) /\ Here.count \in Nat
        /\ \A i \in {1, 2, 3} : made + i <= MaxPuts => CountOK(made + i)
        /\ made < MaxPuts => CountOK(made + 1)
    BY <2>a, <2>b
  <2> HIDE DEF CountOK
  <2>1. CASE Fail
    BY <2>0, <2>1 DEF Fail, FailSlot, Rings, CountOK
  <2>2. CASE FailBox
    BY <2>0, <2>2 DEF FailBox, FailSlot, CountOK
  <2>3. CASE FailLog \/ Put
    BY <2>0, <2>3 DEF FailLog, Put
  <2>4. CASE IrqIpi
    <3>1. made + 2 <= MaxPuts /\ made' = made + 2 /\ UNCHANGED <<fail, loaded, failing>>
      BY <2>4, Zenon DEF IrqIpi
    <3> QED
      BY <2>0, <3>1
  <2>5. CASE IrqUnbound
    <3>1. /\ made + 3 <= MaxPuts /\ made' = made + 3 /\ failing' = made + 2 /\ loaded' = loaded
          /\ fail' = [k \in Rings |-> FailSlot(k, made + 2)[k]]
      BY <2>5, Zenon DEF IrqUnbound
    <3>2. made + 2 <= MaxPuts
      BY <1>2, <3>1
    <3>3. \A k \in Rings : FailSlot(k, made + 2)[k] = made + 2
      BY <2>0 DEF FailSlot
    <3>4. FailOK(fail')
      BY <2>0, <3>1, <3>2, <3>3 DEF CountOK
    <3> QED
      BY <2>0, <3>1, <3>2, <3>4
  <2>6. CASE PutLoad
    BY <2>0, <2>6 DEF PutLoad
  <2> QED
    BY <2>0, <2>1, <2>2, <2>3, <2>4, <2>5, <2>6 DEF Next, PutSeq, PutCode, PutData, PutNext,
       PutStore, Unmask, Mask, Stay, vars
<1>6. PcOK(pc') /\ CallOK(call')
  <2>1. ASSUME NEW k \in Rings, NEW purpose \in Purposes, NEW n \in 0 .. MaxPuts,
               Begin(k, purpose, n)
        PROVE  PcOK(pc') /\ CallOK(call')
    BY <2>1, BeginType
  <2>2. made + 1 \in 0 .. MaxPuts \/ ~(made < MaxPuts)
    BY <1>1, ChronicleAssumption DEF ChronicleAssumption
  <2>3. CASE Put \/ Fail \/ FailLog
    BY <2>1, <2>2, <2>3 DEF Put, Fail, FailLog, Rings, Purposes
  <2>4. CASE PutStore
    <3>1. call.for \in Purposes /\ call.record \in 0 .. MaxPuts
      BY <1>1
    <3>2. CASE call.ring = "chronicle" /\ Begin("bbox", call.for, call.record)
      BY <2>1, <3>1, <3>2 DEF Rings
    <3>3. CASE call.ring = "bbox" /\ call.for = "fail" /\ Begin("bbox", "again", call.record)
      BY <2>1, <3>1, <3>3 DEF Rings, Purposes
    <3>4. CASE /\ call.ring = "bbox" /\ call.for # "fail"
               /\ pc' = [put |-> "idle", again |-> "failbox", faillog |-> "halted"][call.for]
               /\ UNCHANGED call
      BY <1>1, <3>1, <3>4 DEF Purposes
    <3> QED
      BY <2>4, <3>2, <3>3, <3>4 DEF PutStore
  <2> QED
    BY <1>1, <2>3, <2>4 DEF Next, PutSeq, PutCode, PutData, PutNext, PutLoad, FailBox,
       IrqIpi, IrqUnbound, Unmask, Mask, Stay, vars, Steps
<1>7. /\ ring' = [k \in Rings |-> ring'[k]]
      /\ \A k \in Rings : ring'[k] \in [next : 0 .. Cap(k), count : Nat,
                                      rec : [0 .. Cap(k) - 1 -> Record]]
  BY <1>4 DEF RingType
<1> QED
  BY <1>3, <1>5, <1>6, <1>7, Zenon DEF TypeOK

\* Every step keeps the failure that is reported.
LEMMA FailStep == TypeOK /\ FailInv /\ [Next]_vars => FailInv'
<1> SUFFICES ASSUME TypeOK, FailInv, [Next]_vars PROVE FailInv'
  OBVIOUS
<1> USE DEF FailInv
<1>0. made \in Nat /\ made + 1 # 0 /\ made + 2 # 0 /\ fail \in [Rings -> 0 .. MaxPuts]
      /\ (made < MaxPuts => made + 1 \in 0 .. MaxPuts) /\ call.for \in Purposes
      /\ call.record \in 0 .. MaxPuts /\ call.ring \in Rings
  BY ChronicleAssumption DEF TypeOK, ChronicleAssumption
<1>1. CASE Put
  BY <1>0, <1>1, BeginType DEF Put, Rings, Purposes
<1>2. CASE Fail
  BY <1>0, <1>2, BeginType DEF Fail, FailSlot, Rings, Purposes
<1>3. CASE FailLog
  BY <1>0, <1>3, BeginType DEF FailLog, Rings, Purposes
<1>4. CASE FailBox
  BY <1>0, <1>4 DEF FailBox, FailSlot, Rings, Steps
<1>5. CASE IrqUnbound
  BY <1>0, <1>5 DEF IrqUnbound, FailSlot, Rings, Steps
<1>6. CASE PutStore
  <2>1. CASE call.ring = "chronicle" /\ Begin("bbox", call.for, call.record)
    BY <1>0, <1>6, <2>1, BeginType DEF PutStore, Rings, Steps
  <2>2. CASE call.ring = "bbox" /\ call.for = "fail" /\ Begin("bbox", "again", call.record)
    BY <1>0, <1>6, <2>2, BeginType DEF PutStore, Rings, Purposes, Steps
  <2>3. CASE /\ call.ring = "bbox" /\ call.for # "fail"
             /\ pc' = [put |-> "idle", again |-> "failbox", faillog |-> "halted"][call.for]
             /\ UNCHANGED call
    BY <1>0, <1>6, <2>3 DEF PutStore, Purposes, Steps
  <2> QED
    BY <1>6, <2>1, <2>2, <2>3 DEF PutStore
<1>7. CASE PutSeq \/ PutCode \/ PutData \/ PutNext \/ PutLoad
  BY <1>7 DEF PutSeq, PutCode, PutData, PutNext, PutLoad, Steps
<1>8. CASE IrqIpi \/ Unmask \/ Mask \/ Stay \/ UNCHANGED vars
  BY <1>8 DEF IrqIpi, Unmask, Mask, Stay, vars
<1> QED
  BY <1>1, <1>2, <1>3, <1>4, <1>5, <1>6, <1>7, <1>8 DEF Next

\* A store of a put that nothing has interrupted: the slot alone changes.
LEMMA StoreStep ==
  ASSUME TypeOK, Filling, NEW v \in Record, Store(v), call' = call, made' = made
  PROVE  /\ Shape(call.ring, Here', made - 1) /\ Here'.count = made - 1
         /\ call.slot = NextSlot(call.ring, Here')
         /\ Holds(call.ring, Here', made - 1, Cap(call.ring) - 1)
         /\ Kept' = v
         /\ \A k \in Rings : k # call.ring => ring'[k] = ring[k]
<1> DEFINE q == Ring(Here.next, Here.count, [Here.rec EXCEPT ![call.slot] = v])
<1>1. /\ call.slot = NextSlot(call.ring, Here) /\ Here.count = made - 1
      /\ Shape(call.ring, Here, made - 1)
      /\ Holds(call.ring, Here, made - 1, Cap(call.ring) - 1)
  BY DEF Filling
<1>2. Here.count \in Nat /\ made - 1 \in Nat
  BY <1>1, HereType
<1>3. /\ q \in RingType(call.ring) /\ q.count = Here.count
      /\ NextSlot(call.ring, q) = call.slot /\ q.rec[call.slot] = v
      /\ Shape(call.ring, q, made - 1)
      /\ Holds(call.ring, q, made - 1, Cap(call.ring) - 1)
  BY <1>1, <1>2, HereType, StoreKeeps
<1>4. ring' = [ring EXCEPT ![call.ring] = q]
  BY DEF Store
<1> HIDE DEF q
<1>5. ring'[call.ring] = q /\ \A k \in Rings : k # call.ring => ring'[k] = ring[k]
  BY <1>3, <1>4, RingStep
<1>6. Here' = q /\ Kept' = v
  BY <1>3, <1>5 DEF Here, Kept
<1> QED
  BY <1>1, <1>3, <1>5, <1>6

\* A put starts at a ring whose newest records are in order.
LEMMA BeginFills ==
  ASSUME TypeOK, NEW k \in Rings, NEW m \in Nat, Newest(k, ring[k], m),
         Begin(k, "put", m + 1), m + 1 \in 0 .. MaxPuts, made' = m + 1, ring'[k] = ring[k]
  PROVE  Filling'
<1>1. call'.slot = NextSlot(k, ring[k]) /\ call'.ring = k
  BY BeginType DEF Purposes
<1>2. pc' \in {"seq", "code"} /\ (pc' = "seq" <=> k = "chronicle")
  BY DEF Begin
<1>3. Here' = ring[k]
  BY <1>1 DEF Here
<1>4. Shape(k, ring[k], m) /\ ring[k].count = m /\ Holds(k, ring[k], m, Cap(k) - 1)
  BY CapType DEF Newest, Holds
<1>5. made' - 1 = m
  OBVIOUS
<1> QED
  BY <1>1, <1>2, <1>3, <1>4, <1>5 DEF Filling

\* Every step keeps the newest records in order, unless the handler is nested in a
\* put, and then for good.
LEMMA DumpStep == TypeOK /\ FailInv /\ DumpInv /\ [Next]_vars => DumpInv'
<1> SUFFICES ASSUME TypeOK, FailInv, DumpInv, [Next]_vars, ~nested' PROVE DumpInv'
  BY DEF DumpInv
<1>0. /\ made \in Nat /\ MaxPuts \in Nat /\ (made < MaxPuts => made + 1 \in 0 .. MaxPuts)
      /\ call.ring \in Rings /\ call.for \in Purposes
      /\ \A k \in Rings : ring[k] \in RingType(k)
  BY ChronicleAssumption DEF TypeOK, ChronicleAssumption, RingType
<1>1. CASE Put
  <2>1. /\ pc = "idle" /\ ~nested /\ made' = made + 1 /\ ring' = ring
        /\ Begin("chronicle", "put", made + 1) /\ made + 1 \in 0 .. MaxPuts
    BY <1>0, <1>1 DEF Put
  <2>2. \A k \in Rings : Newest(k, ring[k], made)
    BY <2>1 DEF DumpInv
  <2>3. Filling'
    BY <1>0, <2>1, <2>2, BeginFills DEF Rings
  <2>4. pc' = "seq" /\ call'.ring = "chronicle" /\ call'.record = made + 1
    BY <2>1 DEF Begin
  <2> QED
    BY <1>0, <2>1, <2>2, <2>3, <2>4 DEF DumpInv, Rings
<1>2. CASE pc \in Steps /\ call.for = "put" /\ (PutSeq \/ PutCode \/ PutData \/ PutNext \/ PutLoad)
  <2>1. ~nested /\ made' = made /\ call' = call
    BY <1>2 DEF PutSeq, PutCode, PutData, PutNext, PutLoad
  <2>2. /\ made >= 1 /\ call.record = made
        /\ call.ring = "bbox" => Newest("chronicle", ring["chronicle"], made)
        /\ call.ring = "chronicle" => Newest("bbox", ring["bbox"], made - 1)
        /\ pc \in {"seq", "code", "data", "next"} => Filling
        /\ pc \in {"load", "store"} => Filled
    BY <1>2, <2>1 DEF DumpInv
  <2>3. /\ \A k \in Rings : k # call.ring => ring'[k] = ring[k]
        /\ \/ pc' \in {"code", "data", "next"} /\ Filling'
           \/ pc' \in {"load", "store"} /\ Filled'
    <3>1. ASSUME NEW v \in Record, Store(v), Filling
          PROVE  /\ Shape(call.ring, Here', made - 1) /\ Here'.count = made - 1
                 /\ call.slot = NextSlot(call.ring, Here')
                 /\ Holds(call.ring, Here', made - 1, Cap(call.ring) - 1)
                 /\ Kept' = v
                 /\ \A k \in Rings : k # call.ring => ring'[k] = ring[k]
      BY <2>1, <3>1, StoreStep
    <3>2. CASE PutSeq
      <4>1. Rec(Here.count, Kept.code, Kept.data) \in Record
        BY HereType DEF Rec, Record
      <4>2. Filling /\ Here.count = made - 1 /\ pc' = "code"
        BY <2>2, <3>2 DEF PutSeq, Filling
      <4>3. Store(Rec(Here.count, Kept.code, Kept.data))
        BY <3>2 DEF PutSeq
      <4>4. Kept'.seq = made - 1
        BY <3>1, <4>1, <4>2, <4>3 DEF Rec
      <4>5. /\ Shape(call.ring, Here', made - 1) /\ Here'.count = made - 1
            /\ call.slot = NextSlot(call.ring, Here')
            /\ Holds(call.ring, Here', made - 1, Cap(call.ring) - 1)
            /\ \A k \in Rings : k # call.ring => ring'[k] = ring[k]
        BY <3>1, <4>1, <4>2, <4>3
      <4>6. Filling'
        BY <2>1, <4>2, <4>4, <4>5 DEF Filling
      <4> QED
        BY <4>2, <4>5, <4>6
    <3>3. CASE PutCode
      <4>1. Rec(Kept.seq, call.record, Kept.data) \in Record
        BY HereType DEF Rec, Record
      <4>2. /\ Filling /\ pc' = "data"
            /\ call.ring = "chronicle" => Kept.seq = made - 1
        BY <2>2, <3>3 DEF PutCode, Filling
      <4>3. Store(Rec(Kept.seq, call.record, Kept.data))
        BY <3>3 DEF PutCode
      <4>4. Kept'.seq = Kept.seq /\ Kept'.code = made
        BY <2>2, <3>1, <4>1, <4>2, <4>3 DEF Rec
      <4>5. /\ Shape(call.ring, Here', made - 1) /\ Here'.count = made - 1
            /\ call.slot = NextSlot(call.ring, Here')
            /\ Holds(call.ring, Here', made - 1, Cap(call.ring) - 1)
            /\ \A k \in Rings : k # call.ring => ring'[k] = ring[k]
        BY <3>1, <4>1, <4>2, <4>3
      <4>6. Filling'
        BY <2>1, <4>2, <4>4, <4>5 DEF Filling
      <4> QED
        BY <4>2, <4>5, <4>6
    <3>4. CASE PutData
      <4>1. Rec(Kept.seq, Kept.code, call.record) \in Record
        BY HereType DEF Rec, Record
      <4>2. /\ Filling /\ pc' = "next" /\ Kept.code = made
            /\ call.ring = "chronicle" => Kept.seq = made - 1
        BY <2>2, <3>4 DEF PutData, Filling
      <4>3. Store(Rec(Kept.seq, Kept.code, call.record))
        BY <3>4 DEF PutData
      <4>4. Kept'.seq = Kept.seq /\ Kept'.code = made /\ Kept'.data = made
        BY <2>2, <3>1, <4>1, <4>2, <4>3 DEF Rec
      <4>5. /\ Shape(call.ring, Here', made - 1) /\ Here'.count = made - 1
            /\ call.slot = NextSlot(call.ring, Here')
            /\ Holds(call.ring, Here', made - 1, Cap(call.ring) - 1)
            /\ \A k \in Rings : k # call.ring => ring'[k] = ring[k]
        BY <3>1, <4>1, <4>2, <4>3
      <4>6. Filling'
        BY <2>1, <4>2, <4>4, <4>5 DEF Filling
      <4> QED
        BY <4>2, <4>5, <4>6
    <3>5. CASE PutNext
      <4> DEFINE q == Ring(call.slot + 1, Here.count, Here.rec)
      <4>1. /\ pc = "next" /\ pc' = "load" /\ Filling
            /\ ring' = [ring EXCEPT ![call.ring] = q]
        BY <2>2, <3>5 DEF PutNext
      <4>2. q.next = call.slot + 1 /\ q.count = Here.count /\ q.rec = Here.rec
        BY DEF Ring
      <4>3. q \in RingType(call.ring)
        BY HereType DEF Ring, RingType
      <4> HIDE DEF q
      <4>4. made - 1 \in Nat /\ (made - 1) + 1 = made
        BY <1>0, <2>2
      <4>5. /\ Shape(call.ring, Here, made - 1) /\ Here.count = made - 1
            /\ call.slot = NextSlot(call.ring, Here)
            /\ Holds(call.ring, Here, made - 1, Cap(call.ring) - 1)
            /\ call.ring = "chronicle" => Kept.seq = made - 1
            /\ Kept.code = made /\ Kept.data = made
        BY <4>1 DEF Filling
      <4>6. Good(call.ring, Here.rec[NextSlot(call.ring, Here)], (made - 1) + 1)
        BY <4>4, <4>5 DEF Good, Whole, Kept
      <4>7. Shape(call.ring, q, made) /\ Holds(call.ring, q, made, Cap(call.ring))
        BY <4>2, <4>4, <4>5, <4>6, HereType, Turn
      <4>8. ring'[call.ring] = q /\ \A k \in Rings : k # call.ring => ring'[k] = ring[k]
        BY <4>1, <4>3, RingStep
      <4>9. Here' = q
        BY <2>1, <4>8 DEF Here
      <4> QED
        BY <2>1, <4>1, <4>2, <4>5, <4>7, <4>8, <4>9 DEF Filled
    <3>6. CASE PutLoad
      <4>1. Filled /\ pc' = "store" /\ loaded' = Here.count /\ ring' = ring /\ Here' = Here
        BY <2>1, <2>2, <3>6 DEF PutLoad, Here
      <4> QED
        BY <2>1, <4>1 DEF Filled
    <3> QED
      BY <1>2, <3>2, <3>3, <3>4, <3>5, <3>6
  <2> QED
    BY <1>0, <2>1, <2>2, <2>3 DEF DumpInv, Rings
<1>3. CASE pc \in Steps /\ call.for = "put" /\ PutStore
  <2> DEFINE q == Ring(Here.next, loaded + 1, Here.rec)
  <2>1. /\ pc = "store" /\ ~nested /\ made' = made /\ ring' = [ring EXCEPT ![call.ring] = q]
    BY <1>3 DEF PutStore
  <2>2. /\ made >= 1 /\ call.record = made /\ Filled
        /\ call.ring = "bbox" => Newest("chronicle", ring["chronicle"], made)
        /\ call.ring = "chronicle" => Newest("bbox", ring["bbox"], made - 1)
    BY <1>3, <2>1 DEF DumpInv
  <2>3. /\ Shape(call.ring, Here, made) /\ Holds(call.ring, Here, made, Cap(call.ring))
        /\ loaded = made - 1
    BY <2>1, <2>2 DEF Filled
  <2>4. /\ q.next = Here.next /\ q.rec = Here.rec /\ q.count = made
        /\ q \in RingType(call.ring)
    <3>1. loaded + 1 = made
      BY <1>0, <2>3
    <3> QED
      BY <1>0, <3>1, HereType DEF Ring, RingType
  <2> HIDE DEF q
  <2>5. Newest(call.ring, q, made)
    BY <2>3, <2>4 DEF Newest, Shape, Holds
  <2>6. ring'[call.ring] = q /\ \A k \in Rings : k # call.ring => ring'[k] = ring[k]
    BY <2>1, <2>4, RingStep
  <2>7. CASE call.ring = "chronicle" /\ Begin("bbox", call.for, call.record)
    <3>1. made - 1 \in Nat /\ (made - 1) + 1 = made /\ made \in 0 .. MaxPuts
      BY <1>0, <2>2 DEF TypeOK
    <3>2. Newest("chronicle", ring'["chronicle"], made) /\ ring'["bbox"] = ring["bbox"]
      BY <2>5, <2>6, <2>7 DEF Rings
    <3>3. Filling'
      BY <1>3, <2>1, <2>2, <2>7, <3>1, <3>2, BeginFills DEF Rings
    <3>4. pc' = "code" /\ call'.ring = "bbox" /\ call'.record = made
      BY <2>2, <2>7 DEF Begin
    <3> QED
      BY <2>1, <2>2, <3>2, <3>3, <3>4 DEF DumpInv
  <2>8. CASE call.ring = "bbox" /\ pc' = "idle"
    BY <2>1, <2>2, <2>5, <2>6, <2>8 DEF DumpInv, Rings, Steps
  <2> QED
    BY <1>3, <2>7, <2>8 DEF PutStore
<1>4. CASE call.for # "put" /\ (PutSeq \/ PutCode \/ PutData \/ PutNext \/ PutLoad)
  BY <1>4 DEF PutSeq, PutCode, PutData, PutNext, PutLoad, DumpInv
<1>5. CASE call.for # "put" /\ PutStore
  <2>1. pc' # "idle" /\ (pc' \in Steps => call'.for # "put")
    <3>1. CASE call.ring = "chronicle" /\ Begin("bbox", call.for, call.record)
      BY <1>5, <3>1 DEF Begin
    <3>2. CASE call.ring = "bbox" /\ call.for = "fail" /\ Begin("bbox", "again", call.record)
      BY <3>2 DEF Begin
    <3>3. CASE /\ call.ring = "bbox" /\ call.for # "fail"
               /\ pc' = [put |-> "idle", again |-> "failbox", faillog |-> "halted"][call.for]
               /\ UNCHANGED call
      BY <1>0, <1>5, <3>3 DEF Purposes, Steps
    <3> QED
      BY <1>5, <3>1, <3>2, <3>3 DEF PutStore
  <2> QED
    BY <2>1 DEF DumpInv
<1>6. CASE Fail \/ FailLog
  BY <1>6 DEF Fail, FailLog, Begin, DumpInv
<1>7. CASE FailBox \/ IrqUnbound
  BY <1>7, Zenon DEF FailBox, IrqUnbound, DumpInv, Steps
<1>8. CASE IrqIpi
  <2>1. /\ pc = "idle" /\ ~nested /\ pc' = "idle" /\ made' = made + 2 /\ made + 2 <= MaxPuts
        /\ ring' = Puts(Puts(ring, made + 1), made + 2)
    BY <1>8, Zenon DEF IrqIpi
  <2>2. \A k \in Rings : Newest(k, ring[k], made)
    BY <2>1 DEF DumpInv
  <2>3. made + 1 \in 0 .. MaxPuts /\ made + 2 \in 0 .. MaxPuts /\ made + 1 \in Nat
        /\ made + 2 = (made + 1) + 1
    BY <1>0, <2>1
  <2>4. \A k \in Rings : /\ Puts(ring, made + 1)[k] \in RingType(k)
                         /\ Newest(k, Puts(ring, made + 1)[k], made + 1)
    BY <1>0, <2>2, <2>3, PutsKeep
  <2>5. \A k \in Rings : Newest(k, ring'[k], made + 2)
    BY <2>1, <2>3, <2>4, PutsKeep
  <2> QED
    BY <2>1, <2>5 DEF DumpInv, Steps
<1>9. CASE Unmask \/ Mask \/ Stay \/ UNCHANGED vars
  BY <1>9 DEF Unmask, Mask, Stay, vars, DumpInv, Filling, Filled, Here, Kept
<1>10. ASSUME PutSeq \/ PutCode \/ PutData \/ PutNext \/ PutLoad \/ PutStore PROVE pc \in Steps
  BY <1>10 DEF PutSeq, PutCode, PutData, PutNext, PutLoad, PutStore, Steps
<1> QED
  BY <1>1, <1>2, <1>3, <1>4, <1>5, <1>6, <1>7, <1>8, <1>9, <1>10 DEF Next

-----------------------------------------------------------------------------
\* The invariant holds of the empty rings.
LEMMA InitInv == Init => IInv
<1> SUFFICES ASSUME Init PROVE IInv
  OBVIOUS
<1>1. MaxPuts \in Nat
  BY ChronicleAssumption DEF ChronicleAssumption
<1>2. \A k \in Rings : ring[k] = Ring(0, 0, [i \in 0 .. Cap(k) - 1 |-> Rec(0, 0, 0)])
  BY DEF Init
<1>3. Rec(0, 0, 0) \in Record
  BY <1>1 DEF Rec, Record
<1>4. \A k \in Rings : ring[k].next = 0 /\ ring[k].count = 0 /\ ring[k] \in RingType(k)
  <2>1. \A k \in Rings : [i \in 0 .. Cap(k) - 1 |-> Rec(0, 0, 0)] \in [0 .. Cap(k) - 1 -> Record]
    BY <1>3
  <2>2. ASSUME NEW k \in Rings
        PROVE  ring[k].next = 0 /\ ring[k].count = 0 /\ ring[k] \in RingType(k)
    <3> DEFINE rec == [i \in 0 .. Cap(k) - 1 |-> Rec(0, 0, 0)]
    <3>1. rec \in [0 .. Cap(k) - 1 -> Record] /\ ring[k] = Ring(0, 0, rec) /\ Cap(k) \in Nat
      BY <1>2, <2>1, CapType
    <3> HIDE DEF rec
    <3> QED
      BY <3>1 DEF Ring, RingType
  <2> QED
    BY <2>2
<1>5. ring = [k \in Rings |-> ring[k]]
  BY DEF Init
<1>6. TypeOK
  <2>1. fail \in [Rings -> 0 .. MaxPuts]
    BY <1>1 DEF Init
  <2>2. /\ call \in [for : Purposes, ring : Rings, slot : Nat, record : 0 .. MaxPuts]
        /\ call.slot < Cap(call.ring)
    BY <1>1, CapType DEF Init, Rings, Purposes
  <2>3. \A k \in Rings : ring[k] \in [next : 0 .. Cap(k), count : Nat,
                                    rec : [0 .. Cap(k) - 1 -> Record]]
    BY <1>4 DEF RingType
  <2>4. /\ pc \in {"idle", "failbox", "log", "halted"} \cup Steps /\ loaded \in Nat
        /\ made \in 0 .. MaxPuts /\ failing \in 0 .. MaxPuts
    BY <1>1 DEF Init
  <2>5. open \in BOOLEAN /\ nested \in BOOLEAN
    BY Zenon DEF Init
  <2> QED
    BY <1>5, <2>1, <2>2, <2>3, <2>4, <2>5, Zenon DEF TypeOK
<1>7. \A k \in Rings : Newest(k, ring[k], made)
  <2>1. made = 0
    BY DEF Init
  <2> QED
    BY <1>4, <2>1, CapType DEF Newest, Shape, Holds
<1> QED
  BY <1>6, <1>7 DEF Init, IInv, DumpInv, FailInv, Steps

\* The whole invariant is inductive.
THEOREM Invariant == Spec => []IInv
<1>1. IInv /\ [Next]_vars => IInv'
  BY TypeStep, FailStep, DumpStep DEF IInv
<1> QED
  BY <1>1, InitInv, PTL DEF Spec

\* Every variable keeps its type, for rings of any size.
THEOREM TypeCorrect == Spec => []TypeOK
<1>1. IInv => TypeOK
  BY DEF IInv
<1> QED
  BY <1>1, Invariant, PTL

\* A halted CPU names the failure that halted it in both last-failure slots.
THEOREM HaltNames == Spec => []HaltNamesFailure
<1>1. IInv => HaltNamesFailure
  BY DEF IInv, FailInv, HaltNamesFailure, Rings
<1> QED
  BY <1>1, Invariant, PTL

\* The i-th line of a dump is the record put as many puts before the newest as
\* there are lines after it.
LEMMA LineIs ==
  ASSUME TypeOK, NEW k \in Rings, Newest(k, ring[k], made), NEW i \in 0 .. Held(k) - 1
  PROVE  LET a == Held(k) - 1 - i
         IN  a \in 0 .. Cap(k) - 1 /\ a < made /\ Line(k, i) = Pos(k, ring[k].next, a)
<1> DEFINE C == Cap(k)
           x == ring[k].next
           a == Held(k) - 1 - i
<1>1. C \in Nat \ {0} /\ x \in 0 .. C /\ made \in Nat /\ ring[k].count = made
  BY CapType DEF TypeOK, Newest
<1>2. (made <= C => x = made) /\ (made > C => x \in 1 .. C)
  BY DEF Newest, Shape
<1>3. Held(k) = IF made > C THEN C ELSE made
  BY <1>1 DEF Held
<1>4. Line(k, i) = IF made > C THEN (x + i) % C ELSE i
  BY <1>1 DEF Line
<1>5. Pos(k, x, a) = IF a < x THEN x - 1 - a ELSE x - 1 - a + C
  BY DEF Pos
<1> HIDE DEF C, x
<1>6. i \in 0 .. C - 1 /\ a \in 0 .. C - 1 /\ a < made
  BY <1>1, <1>3
<1>7. Line(k, i) = Pos(k, x, a)
  <2>1. CASE made > C
    <3>1. x + i \in 0 .. 2 * C - 1
      BY <1>1, <1>2, <1>6, <2>1
    <3>2. (x + i) % C = IF x + i < C THEN x + i ELSE x + i - C
      BY <1>1, <3>1, SMTT(30)
    <3>3. a = C - 1 - i
      BY <1>3, <2>1
    <3> HIDE DEF a
    <3> QED
      BY <1>1, <1>2, <1>4, <1>5, <1>6, <2>1, <3>2, <3>3
  <2>2. CASE made <= C
    <3>1. a = made - 1 - i
      BY <1>1, <1>3, <2>2
    <3> HIDE DEF a
    <3> QED
      BY <1>1, <1>2, <1>4, <1>5, <1>6, <2>2, <3>1
  <2> QED
    BY <1>1, <2>1, <2>2
<1> QED
  BY <1>6, <1>7 DEF C, x

\* As long as no interrupt falls inside a put, a dump shows the newest records,
\* whole and in the order they were made, whatever the size of the ring.
THEOREM DumpOrdered == Spec => []DumpInOrder
<1>1. IInv => DumpInOrder
  <2> SUFFICES ASSUME IInv, pc = "idle", ~nested, NEW k \in Rings, NEW i \in DOMAIN Dump(k)
               PROVE  Good(k, Dump(k)[i], made - Held(k) + 1 + i)
    BY DEF DumpInOrder, Good
  <2> DEFINE a == Held(k) - 1 - i
  <2>1. TypeOK /\ Newest(k, ring[k], made)
    BY DEF IInv, DumpInv
  <2>2. i \in 0 .. Held(k) - 1 /\ Dump(k)[i] = ring[k].rec[Line(k, i)]
    BY DEF Dump
  <2>3. a \in 0 .. Cap(k) - 1 /\ a < made /\ Line(k, i) = Pos(k, ring[k].next, a)
    BY <2>1, <2>2, LineIs
  <2>4. made \in Nat /\ Held(k) \in Nat /\ Cap(k) \in Nat
    BY <2>1, CapType DEF TypeOK, Held
  <2>5. made - a = made - Held(k) + 1 + i
    BY <2>2, <2>4
  <2> HIDE DEF a
  <2>6. a < Cap(k)
    BY <2>3, <2>4
  <2>7. Good(k, ring[k].rec[Pos(k, ring[k].next, a)], made - a)
    BY <2>1, <2>3, <2>6 DEF Newest, Holds
  <2> QED
    BY <2>2, <2>3, <2>5, <2>7
<1> QED
  BY <1>1, Invariant, PTL
=============================================================================
