--------------------------- MODULE TranslateProofs ---------------------------
(***************************************************************************)
(* Translate.tla for tables of any size, a pool of any size and any calls:  *)
(* the tables stay a tree, they implement the flat map of PageMap.tla, and   *)
(* the pool is spent on nothing else.                                       *)
(***************************************************************************)
EXTENDS Translate, FiniteSetTheorems, TLAPS

Tables == [Table -> [Slot -> Entry]]

\* The tables in use and the depth of each: a table is linked once, from a
\* table one level above it that was handed out before, and leaves are in the
\* tables of the last level only. The tables not handed out yet are empty.
Shape(T, n, d) ==
  /\ T \in Tables /\ n \in 1 .. PT_PAGES
  /\ d \in [Table -> 0 .. 3] /\ d[0] = 0
  /\ \A u \in Table, s \in Slot :
       /\ T[u][s].kind # "invalid" => u < n
       /\ T[u][s].kind = "page" => d[u] = 3
       /\ T[u][s].kind = "table" => /\ u < T[u][s].to /\ T[u][s].to < n
                                    /\ d[T[u][s].to] = d[u] + 1
  /\ \A t \in 1 .. n - 1 : \E u \in Table, s \in Slot : T[u][s] = Link(t)
  /\ \A t \in Table, u1, u2 \in Table, s1, s2 \in Slot :
       T[u1][s1] = Link(t) /\ T[u2][s2] = Link(t) => u1 = u2 /\ s1 = s2

\* The walk of nxu_mmu_leaf in tables T, level by level: what leads to the table
\* of the level, from the root on.
See(T, e, slot) == IF e.kind = "table" THEN T[e.to][slot] ELSE Invalid
Hop(T, p, level) ==
  LET one   == See(T, Link(0), Index(p, 0))
      two   == See(T, one, Index(p, 1))
      three == See(T, two, Index(p, 2))
  IN IF level = 0 THEN Link(0) ELSE IF level = 1 THEN one
     ELSE IF level = 2 THEN two ELSE three
FoundIn(T, p) == See(T, Hop(T, p, 3), Index(p, 3))

IInv ==
  /\ \E d : Shape(pt, used, d)
  /\ call \in [next : Nat, end : Nat, perm : Perm]
  /\ Busy => call.end - 1 \in Page
  /\ made \in 0 .. MaxCalls
  /\ why \in {"none", "pool"}

-----------------------------------------------------------------------------
(* Arithmetic                                                               *)

\* The number of a page is a slot and the rest.
LEMMA Digit ==
  ASSUME NEW p \in Nat
  PROVE  /\ p % FAN \in Slot /\ p \div FAN \in Nat
         /\ p = FAN * (p \div FAN) + (p % FAN)
  BY TranslateAssumption DEF TranslateAssumption, Slot

\* One slot fewer for a number of one table fewer.
LEMMA Shift ==
  ASSUME NEW p \in Nat, NEW y \in Nat, p < FAN * y
  PROVE  p \div FAN < y
<1>1. FAN \in Nat \ {0} /\ p \div FAN \in Nat /\ FAN * (p \div FAN) <= p
  BY Digit, TranslateAssumption DEF TranslateAssumption, Slot
<1>2. SUFFICES ASSUME p \div FAN >= y PROVE FALSE
  BY <1>1
<1>3. FAN * (p \div FAN) >= FAN * y
  <2>1. \A k \in Nat : k >= y => FAN * k >= FAN * y
    BY <1>1
  <2> QED
    BY <1>1, <1>2, <2>1
<1> QED
  BY <1>1, <1>3

\* The number of a page, without the slots of the levels below, is a slot of the
\* level and the number of the level above.
LEMMA Aboves ==
  ASSUME NEW p \in Page
  PROVE  /\ \A k \in 0 .. 3 : Above(p, k) \in Nat /\ Index(p, k) \in Slot
         /\ Above(p, 3) = p /\ Above(p, 0) = Index(p, 0)
         /\ \A k \in 0 .. 2 : /\ Above(p, k) = Above(p, k + 1) \div FAN
                            /\ Above(p, k + 1) = FAN * Above(p, k) + Index(p, k + 1)
<1> DEFINE Up(x) == x \div FAN
<1>1. \A x \in Nat : /\ Up(x) \in Nat /\ x % FAN \in Slot
                     /\ x = FAN * Up(x) + (x % FAN)
  BY Digit
<1>2. p \in Nat /\ Up(p) \in Nat /\ Up(Up(p)) \in Nat /\ Up(Up(Up(p))) \in Nat
  BY <1>1, TranslateAssumption DEF Page, TranslateAssumption
<1>3. /\ Above(p, 3) = p /\ Above(p, 2) = Up(p) /\ Above(p, 1) = Up(Up(p))
      /\ Above(p, 0) = Up(Up(Up(p)))
  BY DEF Above
<1>4. \A k \in 0 .. 3 : Index(p, k) = Above(p, k) % FAN
  BY DEF Index
<1>5. Up(Up(Up(p))) < FAN
  <2>1. FAN \in Nat /\ p < FAN * (FAN * (FAN * FAN))
    BY TranslateAssumption DEF Page, TranslateAssumption
  <2>2. FAN * FAN \in Nat /\ FAN * (FAN * FAN) \in Nat
    BY <2>1
  <2>3. Up(p) < FAN * (FAN * FAN)
    BY <1>2, <2>1, <2>2, Shift
  <2>4. Up(Up(p)) < FAN * FAN
    BY <1>2, <2>2, <2>3, Shift
  <2> QED
    BY <1>2, <2>1, <2>4, Shift
<1>6. \A x \in Nat : x < FAN => x % FAN = x
  BY TranslateAssumption DEF TranslateAssumption
<1>7. Above(p, 0) = Index(p, 0)
  BY <1>2, <1>3, <1>4, <1>5, <1>6
<1>8. \A k \in 0 .. 2 : k = 0 \/ k = 1 \/ k = 2
  OBVIOUS
<1>9. \A k \in 0 .. 2 : Above(p, k) = Up(Above(p, k + 1)) /\ Above(p, k + 1) \in Nat
  BY <1>2, <1>3, <1>8
<1>10. \A k \in 0 .. 3 : Above(p, k) \in Nat
  <2>1. \A k \in 0 .. 3 : k = 0 \/ k = 1 \/ k = 2 \/ k = 3
    OBVIOUS
  <2> QED
    BY <1>2, <1>3, <2>1
<1>11. \A k \in 0 .. 2 : Above(p, k + 1) = FAN * Above(p, k) + Index(p, k + 1)
  <2>1. TAKE k \in 0 .. 2
  <2>2. k + 1 \in 0 .. 3
    OBVIOUS
  <2>3. Index(p, k + 1) = Above(p, k + 1) % FAN
    BY <1>4, <2>2
  <2> HIDE DEF Up
  <2> QED
    BY <1>1, <1>9, <2>3
<1>12. \A k \in 0 .. 3 : Index(p, k) \in Slot
  BY <1>1, <1>4, <1>10
<1> QED
  BY <1>3, <1>7, <1>9, <1>10, <1>11, <1>12

\* Two pages have the same number at a level when their slots down to it are the same.
LEMMA SameAbove ==
  ASSUME NEW p \in Page, NEW q \in Page, NEW l \in 0 .. 3
  PROVE  Above(p, l) = Above(q, l) <=> \A k \in 0 .. l : Index(p, k) = Index(q, k)
<1> DEFINE Eq(k) == Above(p, k) = Above(q, k)
           Ix(k) == Index(p, k) = Index(q, k)
<1>1. Eq(0) <=> Ix(0)
  BY Aboves
<1>2. \A k \in 0 .. 2 : Eq(k + 1) <=> Eq(k) /\ Ix(k + 1)
  <2>1. TAKE k \in 0 .. 2
  <2>2. Eq(k + 1) => Eq(k) /\ Ix(k + 1)
    BY Aboves DEF Index
  <2>3. Eq(k) /\ Ix(k + 1) => Eq(k + 1)
    BY Aboves
  <2> QED
    BY <2>2, <2>3
<1> HIDE DEF Eq, Ix
<1>3. /\ Eq(1) <=> Eq(0) /\ Ix(1)
      /\ Eq(2) <=> Eq(1) /\ Ix(2)
      /\ Eq(3) <=> Eq(2) /\ Ix(3)
  BY <1>2
<1>4. CASE l = 0
  <2>1. (\A k \in 0 .. 0 : Ix(k)) <=> Ix(0)
    OBVIOUS
  <2> QED
    BY <1>1, <1>4, <2>1 DEF Eq, Ix
<1>5. CASE l = 1
  <2>1. (\A k \in 0 .. 1 : Ix(k)) <=> Ix(0) /\ Ix(1)
    OBVIOUS
  <2>2. Eq(1) <=> \A k \in 0 .. 1 : Ix(k)
    BY <1>1, <1>3, <2>1
  <2> QED
    BY <1>5, <2>2 DEF Eq, Ix
<1>6. CASE l = 2
  <2>1. (\A k \in 0 .. 2 : Ix(k)) <=> Ix(0) /\ Ix(1) /\ Ix(2)
    OBVIOUS
  <2>2. Eq(2) <=> \A k \in 0 .. 2 : Ix(k)
    BY <1>1, <1>3, <2>1
  <2> QED
    BY <1>6, <2>2 DEF Eq, Ix
<1>7. CASE l = 3
  <2>1. (\A k \in 0 .. 3 : Ix(k)) <=> Ix(0) /\ Ix(1) /\ Ix(2) /\ Ix(3)
    OBVIOUS
  <2>2. Eq(3) <=> \A k \in 0 .. 3 : Ix(k)
    BY <1>1, <1>3, <2>1
  <2> QED
    BY <1>7, <2>2 DEF Eq, Ix
<1> QED
  BY <1>4, <1>5, <1>6, <1>7

\* Each level has a slot for each page, and the four slots tell the page.
LEMMA Slots ==
  ASSUME NEW p \in Page
  PROVE  /\ \A k \in 0 .. 3 : Index(p, k) \in Slot
         /\ \A q \in Page : (\A k \in 0 .. 3 : Index(q, k) = Index(p, k)) => q = p
<1>1. ASSUME NEW q \in Page, \A k \in 0 .. 3 : Index(q, k) = Index(p, k) PROVE q = p
  <2>1. Above(q, 3) = Above(p, 3)
    <3>1. 3 \in 0 .. 3
      OBVIOUS
    <3> QED
      BY <1>1, <3>1, SameAbove
  <2> QED
    BY <2>1, Aboves
<1> QED
  BY <1>1, Aboves

-----------------------------------------------------------------------------
(* Entries and tables                                                       *)

\* What an entry is.
LEMMA Entries ==
  /\ Invalid \in Entry /\ Invalid.kind = "invalid"
  /\ \A t : Link(t).kind = "table" /\ Link(t).to = t
  /\ \A t \in Table : Link(t) \in Entry
  /\ \A p, perm : /\ Leaf(p, perm).kind = "page" /\ Leaf(p, perm).page = p
                  /\ Leaf(p, perm).perm = perm
  /\ \A p \in Page, perm \in Perm : Leaf(p, perm) \in Entry
  /\ \A e \in Entry : \/ e = Invalid
                      \/ e.kind = "table" /\ e.to \in Table /\ e = Link(e.to)
                      \/ e.kind = "page"
<1>1. /\ Invalid.kind = "invalid" /\ \A t : Link(t).kind = "table" /\ Link(t).to = t
      /\ \A p, perm : /\ Leaf(p, perm).kind = "page" /\ Leaf(p, perm).page = p
                      /\ Leaf(p, perm).perm = perm
  BY DEF Invalid, Link, Leaf
<1>2. \A e \in Entry : \/ e = Invalid
                       \/ \E t \in Table : e = Link(t)
                       \/ \E p \in Page, perm \in Perm : e = Leaf(p, perm)
  BY DEF Entry
<1>3. /\ Invalid \in Entry /\ \A t \in Table : Link(t) \in Entry
      /\ \A p \in Page, perm \in Perm : Leaf(p, perm) \in Entry
  BY DEF Entry
<1> QED
  BY <1>1, <1>2, <1>3

\* Writing one entry.
LEMMA Write ==
  ASSUME NEW T \in Tables, NEW a \in Table, NEW s \in Slot, NEW v \in Entry
  PROVE  /\ [T EXCEPT ![a][s] = v] \in Tables
         /\ [T EXCEPT ![a][s] = v][a][s] = v
         /\ \A u \in Table, r \in Slot :
              u # a \/ r # s => [T EXCEPT ![a][s] = v][u][r] = T[u][r]
  BY DEF Tables

\* The parts of Shape make Shape.
LEMMA MakeShape ==
  ASSUME NEW T, NEW n, NEW d,
         T \in Tables, n \in 1 .. PT_PAGES, d \in [Table -> 0 .. 3], d[0] = 0,
         \A u \in Table, s \in Slot :
           /\ T[u][s].kind # "invalid" => u < n
           /\ T[u][s].kind = "page" => d[u] = 3
           /\ T[u][s].kind = "table" => /\ u < T[u][s].to /\ T[u][s].to < n
                                        /\ d[T[u][s].to] = d[u] + 1,
         \A t \in 1 .. n - 1 : \E u \in Table, s \in Slot : T[u][s] = Link(t),
         \A t \in Table, u1, u2 \in Table, s1, s2 \in Slot :
           T[u1][s1] = Link(t) /\ T[u2][s2] = Link(t) => u1 = u2 /\ s1 = s2
  PROVE  Shape(T, n, d)
  BY Zenon DEF Shape

\* What Shape says of the table an entry leads to.
LEMMA ShapeTo ==
  ASSUME NEW T, NEW n, NEW d, Shape(T, n, d), NEW u \in Table, NEW s \in Slot,
         T[u][s].kind = "table"
  PROVE  /\ T[u][s].to \in Table /\ T[u][s] = Link(T[u][s].to)
         /\ u < T[u][s].to /\ T[u][s].to < n /\ d[T[u][s].to] = d[u] + 1
<1>1. T[u][s] \in Entry
  BY DEF Shape, Tables
<1> QED
  BY <1>1, Entries DEF Shape

\* Linking a table that was not handed out keeps the shape, one level down.
LEMMA GrowShape ==
  ASSUME NEW T, NEW n, NEW d, Shape(T, n, d), n < PT_PAGES,
         NEW a \in Table, NEW s \in Slot, a < n, d[a] \in 0 .. 2,
         T[a][s].kind = "invalid"
  PROVE  LET T2 == [T EXCEPT ![a][s] = Link(n)]
             d2 == [d EXCEPT ![n] = d[a] + 1]
         IN /\ Shape(T2, n + 1, d2) /\ d2[n] = d[a] + 1 /\ n \in Table
            /\ \A u \in Table : u < n => d2[u] = d[u]
<1> DEFINE T2 == [T EXCEPT ![a][s] = Link(n)]
           d2 == [d EXCEPT ![n] = d[a] + 1]
<1>1. /\ T \in Tables /\ n \in Table /\ n \in Nat \ {0} /\ n + 1 \in 1 .. PT_PAGES /\ 0 \in Table
      /\ Table \subseteq Nat
  BY TranslateAssumption DEF Shape, Table, TranslateAssumption
<1>2. /\ T2 \in Tables /\ T2[a][s] = Link(n)
      /\ \A u \in Table, r \in Slot : u # a \/ r # s => T2[u][r] = T[u][r]
  BY <1>1, Write, Entries
<1>3. /\ d2 \in [Table -> 0 .. 3] /\ d2[0] = 0 /\ d2[n] = d[a] + 1
      /\ \A u \in Table : u # n => d2[u] = d[u]
  BY <1>1 DEF Shape
<1> HIDE DEF T2, d2
<1>4. \A u \in Table, r \in Slot :
        /\ T2[u][r].kind # "invalid" => u < n + 1
        /\ T2[u][r].kind = "page" => d2[u] = 3
        /\ T2[u][r].kind = "table" => /\ u < T2[u][r].to /\ T2[u][r].to < n + 1
                                      /\ d2[T2[u][r].to] = d2[u] + 1
  <2>1. TAKE u \in Table, r \in Slot
  <2>2. CASE u = a /\ r = s
    <3>1. T2[u][r].kind = "table" /\ T2[u][r].to = n
      BY <1>2, <2>2, Entries
    <3> QED
      BY <1>1, <1>3, <2>2, <3>1
  <2>3. CASE ~(u = a /\ r = s)
    <3>1. T2[u][r] = T[u][r]
      BY <1>2, <2>3
    <3>2. T[u][r].kind # "invalid" => u < n
      BY DEF Shape
    <3>3. T[u][r].kind = "page" => d[u] = 3 /\ u < n
      BY DEF Shape
    <3>4. ASSUME T[u][r].kind = "table"
          PROVE  /\ u < T[u][r].to /\ T[u][r].to < n + 1
                 /\ d2[T[u][r].to] = d2[u] + 1
      <4>1. /\ T[u][r].to \in Table /\ u < T[u][r].to /\ T[u][r].to < n
            /\ d[T[u][r].to] = d[u] + 1
        BY <3>4, ShapeTo
      <4> QED
        BY <1>1, <1>3, <4>1
    <3> QED
      BY <1>1, <1>3, <3>1, <3>2, <3>3, <3>4
  <2> QED
    BY <2>2, <2>3
<1>5. \A t \in 1 .. (n + 1) - 1 : \E u \in Table, r \in Slot : T2[u][r] = Link(t)
  <2>1. TAKE t \in 1 .. (n + 1) - 1
  <2>2. CASE t = n
    BY <1>2, <2>2
  <2>3. CASE t # n
    <3>1. t \in 1 .. n - 1
      BY <1>1, <2>3
    <3>2. PICK u \in Table, r \in Slot : T[u][r] = Link(t)
      BY <3>1 DEF Shape
    <3>3. ~(u = a /\ r = s)
      BY <3>2, Entries
    <3> QED
      BY <1>2, <3>2, <3>3
  <2> QED
    BY <2>2, <2>3
<1>6. ASSUME NEW t \in Table, NEW u1 \in Table, NEW u2 \in Table, NEW s1 \in Slot, NEW s2 \in Slot,
             T2[u1][s1] = Link(t), T2[u2][s2] = Link(t)
      PROVE  u1 = u2 /\ s1 = s2
  <2>1. \A u \in Table, r \in Slot : T2[u][r] = Link(t) =>
          \/ u = a /\ r = s /\ t = n
          \/ T[u][r] = Link(t) /\ t < n
    <3>1. TAKE u \in Table, r \in Slot
    <3>2. HAVE T2[u][r] = Link(t)
    <3>3. CASE u = a /\ r = s
      BY <1>2, <3>2, <3>3, Entries
    <3>4. CASE ~(u = a /\ r = s)
      <4>1. T[u][r] = Link(t)
        BY <1>2, <3>2, <3>4
      <4>2. T[u][r].kind = "table" /\ T[u][r].to = t
        BY <4>1, Entries
      <4> QED
        BY <4>1, <4>2, ShapeTo
    <3> QED
      BY <3>3, <3>4
  <2>2. n \in Nat /\ t \in Nat
    BY <1>1
  <2>3. CASE t = n
    BY <1>6, <2>1, <2>2, <2>3
  <2>4. CASE t # n
    <3>1. T[u1][s1] = Link(t) /\ T[u2][s2] = Link(t)
      BY <1>6, <2>1, <2>4
    <3> QED
      BY <3>1 DEF Shape
  <2> QED
    BY <2>3, <2>4
<1>7. Shape(T2, n + 1, d2)
  <2>1. \A t \in Table, u1, u2 \in Table, s1, s2 \in Slot :
          T2[u1][s1] = Link(t) /\ T2[u2][s2] = Link(t) => u1 = u2 /\ s1 = s2
    BY <1>6
  <2>2. T2 \in Tables /\ n + 1 \in 1 .. PT_PAGES /\ d2 \in [Table -> 0 .. 3] /\ d2[0] = 0
    BY <1>1, <1>2, <1>3
  <2> QED
    BY <1>4, <1>5, <2>1, <2>2, MakeShape, Zenon
<1> QED
  BY <1>1, <1>3, <1>7 DEF T2, d2

\* Writing a leaf into a table of the last level keeps the shape.
LEMMA LeafShape ==
  ASSUME NEW T, NEW n, NEW d, Shape(T, n, d), NEW a \in Table, NEW s \in Slot, a < n, d[a] = 3,
         NEW v \in Entry, v.kind = "page"
  PROVE  Shape([T EXCEPT ![a][s] = v], n, d)
<1> DEFINE T2 == [T EXCEPT ![a][s] = v]
<1>1. /\ T \in Tables /\ n \in 1 .. PT_PAGES /\ d \in [Table -> 0 .. 3] /\ d[0] = 0
  BY DEF Shape
<1>2. /\ T2 \in Tables /\ T2[a][s] = v
      /\ \A u \in Table, r \in Slot : u # a \/ r # s => T2[u][r] = T[u][r]
  BY <1>1, Write
<1> HIDE DEF T2
<1>3. \A u \in Table, r \in Slot :
        /\ T2[u][r].kind # "invalid" => u < n
        /\ T2[u][r].kind = "page" => d[u] = 3
        /\ T2[u][r].kind = "table" => /\ u < T2[u][r].to /\ T2[u][r].to < n
                                      /\ d[T2[u][r].to] = d[u] + 1
  <2>1. TAKE u \in Table, r \in Slot
  <2>2. CASE u = a /\ r = s
    BY <1>2, <2>2
  <2>3. CASE ~(u = a /\ r = s)
    <3>1. T2[u][r] = T[u][r]
      BY <1>2, <2>3
    <3> QED
      BY <3>1 DEF Shape
  <2> QED
    BY <2>2, <2>3
<1>4. T[a][s].kind # "table"
  <2>1. SUFFICES ASSUME T[a][s].kind = "table" PROVE FALSE
    OBVIOUS
  <2>2. T[a][s].to \in Table /\ d[T[a][s].to] = 4
    BY <2>1, ShapeTo
  <2>3. d[T[a][s].to] \in 0 .. 3
    BY <1>1, <2>2
  <2> QED
    BY <2>2, <2>3
<1>5. \A t, u \in Table, r \in Slot : T2[u][r] = Link(t) <=> T[u][r] = Link(t)
  <2>1. TAKE t, u \in Table, r \in Slot
  <2>2. CASE u = a /\ r = s
    BY <1>2, <1>4, <2>2, Entries
  <2>3. CASE ~(u = a /\ r = s)
    BY <1>2, <2>3
  <2> QED
    BY <2>2, <2>3
<1>6. \A t \in 1 .. n - 1 : t \in Table
  BY <1>1, TranslateAssumption DEF Table, TranslateAssumption
<1>7. \A t \in 1 .. n - 1 : \E u \in Table, r \in Slot : T2[u][r] = Link(t)
  <2>1. TAKE t \in 1 .. n - 1
  <2>2. PICK u \in Table, r \in Slot : T[u][r] = Link(t)
    BY DEF Shape
  <2> QED
    BY <1>5, <1>6, <2>2
<1>8. \A t \in Table, u1, u2 \in Table, s1, s2 \in Slot :
        T2[u1][s1] = Link(t) /\ T2[u2][s2] = Link(t) => u1 = u2 /\ s1 = s2
  BY <1>5 DEF Shape
<1>9. Shape(T2, n, d)
  BY <1>1, <1>2, <1>3, <1>7, <1>8, MakeShape, Zenon
<1> QED
  BY <1>9 DEF T2

-----------------------------------------------------------------------------
(* The walk                                                                 *)

\* What leads to a table of a level, or to none.
Leads(n, d, e, level) ==
  \/ e = Invalid
  \/ e.kind = "table" /\ e.to \in Table /\ e = Link(e.to) /\ e.to < n /\ d[e.to] = level

\* One level further.
LEMMA HopNext ==
  ASSUME NEW T, NEW p, NEW l \in 0 .. 2
  PROVE  Hop(T, p, l + 1) = See(T, Hop(T, p, l), Index(p, l)) /\ Hop(T, p, 0) = Link(0)
  BY DEF Hop

\* From a table of a level the walk gets to one of the next level.
LEMMA SeeLevel ==
  ASSUME NEW T, NEW n, NEW d, Shape(T, n, d), NEW e, NEW l \in 0 .. 2, Leads(n, d, e, l),
         NEW i \in Slot
  PROVE  Leads(n, d, See(T, e, i), l + 1)
<1>1. CASE e = Invalid
  BY <1>1, Entries DEF See, Leads
<1>2. CASE e # Invalid
  <2>1. e.kind = "table" /\ e.to \in Table /\ e.to < n /\ d[e.to] = l
    BY <1>2 DEF Leads
  <2>2. See(T, e, i) = T[e.to][i]
    BY <2>1 DEF See
  <2>3. T[e.to][i] \in Entry /\ T[e.to][i].kind # "page"
    BY <2>1 DEF Shape, Tables
  <2>4. T[e.to][i] = Invalid \/ T[e.to][i].kind = "table"
    BY <2>3, Entries
  <2> QED
    BY <2>1, <2>2, <2>4, ShapeTo DEF Leads
<1> QED
  BY <1>1, <1>2

\* The walk of a page is at a table of the level it has reached.
LEMMA HopLevel ==
  ASSUME NEW T, NEW n, NEW d, Shape(T, n, d), NEW p \in Page, NEW l \in 0 .. 3
  PROVE  Leads(n, d, Hop(T, p, l), l)
<1>1. Leads(n, d, Link(0), 0)
  <2>1. 0 \in Table /\ 0 < n /\ d[0] = 0
    BY TranslateAssumption DEF Shape, Table, TranslateAssumption
  <2> QED
    BY <2>1, Entries DEF Leads
<1>2. \A k \in 0 .. 3 : Index(p, k) \in Slot
  BY Slots
<1>3. \A k \in 0 .. 2 : Leads(n, d, Hop(T, p, k), k) => Leads(n, d, Hop(T, p, k + 1), k + 1)
  BY <1>2, SeeLevel, HopNext
<1>4. Leads(n, d, Hop(T, p, 0), 0)
  BY <1>1, HopNext
<1>5. Leads(n, d, Hop(T, p, 1), 1)
  BY <1>3, <1>4
<1>6. Leads(n, d, Hop(T, p, 2), 2)
  BY <1>3, <1>5
<1>7. Leads(n, d, Hop(T, p, 3), 3)
  BY <1>3, <1>6
<1> QED
  BY <1>4, <1>5, <1>6, <1>7

\* An entry in two tables, one of which has a new table linked: the same, or none
\* in the one and the new table in the other.
Grown(n, e, e2) == e2 = e \/ (e = Invalid /\ e2 = Link(n))

LEMMA SeeGrow ==
  ASSUME NEW T, NEW n, NEW d, Shape(T, n, d), n < PT_PAGES, NEW a \in Table, NEW s \in Slot,
         a < n, d[a] \in 0 .. 2, T[a][s].kind = "invalid",
         NEW l \in 0 .. 3, NEW e, NEW e2, Leads(n, d, e, l), Grown(n, e, e2), NEW i \in Slot
  PROVE  LET T2 == [T EXCEPT ![a][s] = Link(n)]
         IN /\ Grown(n, See(T, e, i), See(T2, e2, i))
            /\ l = 3 => See(T2, e2, i) = See(T, e, i)
<1> DEFINE T2 == [T EXCEPT ![a][s] = Link(n)]
<1>1. T \in Tables /\ n \in Table /\ n \in Nat /\ \A u \in Table, r \in Slot : T[u][r] \in Entry
  BY TranslateAssumption DEF Shape, Tables, Table, TranslateAssumption
<1>2. /\ T2 \in Tables /\ T2[a][s] = Link(n)
      /\ \A u \in Table, r \in Slot : u # a \/ r # s => T2[u][r] = T[u][r]
  <2>1. Link(n) \in Entry
    BY <1>1, Entries
  <2> QED
    BY <1>1, <2>1, Write
<1> HIDE DEF T2
<1>3. T[a][s] = Invalid
  BY <1>1, Entries
<1>4. /\ Grown(n, See(T, e, i), See(T2, e2, i))
      /\ l = 3 => See(T2, e2, i) = See(T, e, i)
  <2>1. CASE e2 = e /\ e = Invalid
    BY <2>1, Entries DEF See, Grown
  <2>2. CASE e2 = e /\ e # Invalid
    <3>1. e.kind = "table" /\ e.to \in Table /\ d[e.to] = l
      BY <2>2 DEF Leads
    <3>2. See(T, e, i) = T[e.to][i] /\ See(T2, e2, i) = T2[e.to][i]
      BY <2>2, <3>1 DEF See
    <3>3. CASE e.to = a /\ i = s
      BY <1>2, <1>3, <3>1, <3>2, <3>3 DEF Grown
    <3>4. CASE ~(e.to = a /\ i = s)
      BY <1>2, <3>1, <3>2, <3>4 DEF Grown
    <3> QED
      BY <3>3, <3>4
  <2>3. CASE e = Invalid /\ e2 = Link(n)
    <3>1. See(T, e, i) = Invalid
      BY <2>3, Entries DEF See
    <3>2. See(T2, e2, i) = T2[n][i]
      BY <2>3, Entries DEF See
    <3>3. T2[n][i] = T[n][i]
      BY <1>1, <1>2
    <3>4. T[n][i].kind = "invalid"
      BY <1>1 DEF Shape
    <3>5. T[n][i] = Invalid
      BY <1>1, <3>4, Entries
    <3> QED
      BY <3>1, <3>2, <3>3, <3>5 DEF Grown
  <2> QED
    BY <2>1, <2>2, <2>3 DEF Grown
<1> QED
  BY <1>4 DEF T2

\* Linking an empty table changes nothing that is found, and is seen by the walk
\* that comes by it.
LEMMA GrowFinds ==
  ASSUME NEW T, NEW n, NEW d, Shape(T, n, d), n < PT_PAGES, NEW a \in Table, NEW s \in Slot,
         a < n, d[a] \in 0 .. 2, T[a][s].kind = "invalid", NEW p \in Page
  PROVE  LET T2 == [T EXCEPT ![a][s] = Link(n)]
         IN /\ FoundIn(T2, p) = FoundIn(T, p)
            /\ Hop(T, p, d[a]) = Link(a) /\ Index(p, d[a]) = s => Hop(T2, p, d[a] + 1) = Link(n)
            /\ \A k \in 0 .. 3 : Grown(n, Hop(T, p, k), Hop(T2, p, k))
<1> DEFINE T2 == [T EXCEPT ![a][s] = Link(n)]
<1>1. \A k \in 0 .. 3 : Index(p, k) \in Slot /\ Leads(n, d, Hop(T, p, k), k)
  BY Slots, HopLevel
<1>2. \A k \in 0 .. 3 : \A e, e2 : Leads(n, d, e, k) /\ Grown(n, e, e2) =>
        \A i \in Slot : /\ Grown(n, See(T, e, i), See(T2, e2, i))
                        /\ k = 3 => See(T2, e2, i) = See(T, e, i)
  BY SeeGrow
<1>3. /\ T2 \in Tables /\ T2[a][s] = Link(n)
      /\ \A u \in Table, r \in Slot : u # a \/ r # s => T2[u][r] = T[u][r]
  <2>1. T \in Tables /\ n \in Table
    BY TranslateAssumption DEF Shape, Table, TranslateAssumption
  <2>2. Link(n) \in Entry
    BY <2>1, Entries
  <2> QED
    BY <2>1, <2>2, Write
<1> HIDE DEF T2
<1>4. \A k \in 0 .. 2 : Grown(n, Hop(T, p, k), Hop(T2, p, k)) =>
                        Grown(n, Hop(T, p, k + 1), Hop(T2, p, k + 1))
  <2>1. TAKE k \in 0 .. 2
  <2>2. k \in 0 .. 3
    OBVIOUS
  <2> QED
    BY <1>1, <1>2, <2>2, HopNext
<1>5. Grown(n, Hop(T, p, 0), Hop(T2, p, 0))
  BY HopNext DEF Grown
<1>6. Grown(n, Hop(T, p, 1), Hop(T2, p, 1))
  BY <1>4, <1>5
<1>7. Grown(n, Hop(T, p, 2), Hop(T2, p, 2))
  BY <1>4, <1>6
<1>8. Grown(n, Hop(T, p, 3), Hop(T2, p, 3))
  BY <1>4, <1>7
<1>9. FoundIn(T2, p) = FoundIn(T, p)
  BY <1>1, <1>2, <1>8 DEF FoundIn
<1>10. ASSUME Hop(T, p, d[a]) = Link(a), Index(p, d[a]) = s
       PROVE  Hop(T2, p, d[a] + 1) = Link(n)
  <2>1. Grown(n, Hop(T, p, d[a]), Hop(T2, p, d[a]))
    BY <1>5, <1>6, <1>7
  <2>2. Hop(T2, p, d[a]) = Link(a)
    BY <1>10, <2>1, Entries DEF Grown
  <2>3. Hop(T2, p, d[a] + 1) = See(T2, Link(a), s)
    BY <1>10, <2>2, HopNext
  <2> QED
    BY <1>3, <2>3, Entries DEF See
<1>11. \A k \in 0 .. 3 : Grown(n, Hop(T, p, k), Hop(T2, p, k))
  <2>1. \A k \in 0 .. 3 : k = 0 \/ k = 1 \/ k = 2 \/ k = 3
    OBVIOUS
  <2> QED
    BY <1>5, <1>6, <1>7, <1>8, <2>1
<1> QED
  BY <1>9, <1>10, <1>11 DEF T2

\* map_page has got to a table of the level on the way of its page, or has met
\* the end of the pool; nothing that was found has changed.
WalkOK(w, p, level, d) ==
  /\ w = Walking(w.pt, w.used, w.at, w.stuck)
  /\ Shape(w.pt, w.used, d)
  /\ w.at \in Table /\ w.at < w.used /\ w.stuck \in {"none", "pool"}
  /\ w.stuck = "none" => d[w.at] = level /\ Hop(w.pt, p, level) = Link(w.at)
  /\ \A q \in Page : FoundIn(w.pt, q) = FoundIn(pt, q)

\* The fields of a walk.
LEMMA WalkingIs ==
  ASSUME NEW T, NEW n, NEW a, NEW r
  PROVE  /\ Walking(T, n, a, r).pt = T /\ Walking(T, n, a, r).used = n
         /\ Walking(T, n, a, r).at = a /\ Walking(T, n, a, r).stuck = r
  BY DEF Walking

\* One level of map_page.
LEMMA DownKeeps ==
  ASSUME NEW w, NEW p \in Page, NEW l \in 0 .. 2, NEW d, WalkOK(w, p, l, d)
  PROVE  \E d2 : WalkOK(Down(w, Index(p, l)), p, l + 1, d2)
<1> DEFINE s == Index(p, l)
           e == w.pt[w.at][s]
<1>1. /\ w = Walking(w.pt, w.used, w.at, w.stuck)
      /\ Shape(w.pt, w.used, d)
      /\ w.at \in Table /\ w.at < w.used /\ w.stuck \in {"none", "pool"}
      /\ w.stuck = "none" => d[w.at] = l /\ Hop(w.pt, p, l) = Link(w.at)
      /\ \A q \in Page : FoundIn(w.pt, q) = FoundIn(pt, q)
  BY DEF WalkOK
<1>2. s \in Slot /\ e \in Entry
  BY <1>1, Slots DEF Shape, Tables
<1>3. w.used \in 1 .. PT_PAGES /\ PT_PAGES \in Nat
  BY <1>1, TranslateAssumption DEF Shape, TranslateAssumption
<1>4. CASE w.stuck # "none"
  <2>1. Down(w, s) = w
    BY <1>4 DEF Down
  <2>2. WalkOK(w, p, l + 1, d)
    BY <1>1, <1>4, Zenon DEF WalkOK
  <2> QED
    BY <2>1, <2>2
<1>5. CASE w.stuck = "none" /\ e.kind = "invalid" /\ PoolSpent(w.used)
  <2>1. Down(w, s) = Walking(w.pt, w.used, w.at, "pool")
    BY <1>5 DEF Down, Grow
  <2>2. WalkOK(Walking(w.pt, w.used, w.at, "pool"), p, l + 1, d)
    BY <1>1, WalkingIs DEF WalkOK
  <2> QED
    BY <2>1, <2>2
<1>6. CASE w.stuck = "none" /\ e.kind = "invalid" /\ ~PoolSpent(w.used)
  <2> DEFINE n  == w.used
             T2 == [w.pt EXCEPT ![w.at][s] = Link(n)]
             d2 == [d EXCEPT ![n] = d[w.at] + 1]
             w2 == Walking(T2, n + 1, n, "none")
  <2>1. Down(w, s) = w2
    BY <1>6 DEF Down, Grow
  <2>2. n < PT_PAGES
    BY <1>3, <1>6 DEF PoolSpent
  <2>3. d[w.at] = l /\ d[w.at] \in 0 .. 2 /\ Hop(w.pt, p, l) = Link(w.at)
    BY <1>1, <1>6
  <2>4. Shape(T2, n + 1, d2) /\ d2[n] = l + 1 /\ n \in Table
    BY <1>1, <1>2, <1>6, <2>2, <2>3, GrowShape
  <2>5. \A q \in Page : /\ FoundIn(T2, q) = FoundIn(w.pt, q)
                        /\ Hop(w.pt, q, l) = Link(w.at) /\ Index(q, l) = s =>
                             Hop(T2, q, l + 1) = Link(n)
    BY <1>1, <1>2, <1>6, <2>2, <2>3, GrowFinds
  <2> HIDE DEF T2, d2
  <2>6. /\ w2.pt = T2 /\ w2.used = n + 1 /\ w2.at = n /\ w2.stuck = "none"
        /\ w2 = Walking(w2.pt, w2.used, w2.at, w2.stuck)
    BY WalkingIs
  <2> HIDE DEF w2
  <2>7. Hop(T2, p, l + 1) = Link(n)
    BY <2>3, <2>5
  <2>8. \A q \in Page : FoundIn(T2, q) = FoundIn(pt, q)
    BY <1>1, <2>5
  <2>9. n < n + 1
    BY <1>3
  <2>10. WalkOK(w2, p, l + 1, d2)
    BY <2>4, <2>6, <2>7, <2>8, <2>9 DEF WalkOK
  <2> QED
    BY <2>1, <2>10
<1>7. CASE w.stuck = "none" /\ e.kind # "invalid"
  <2>1. d[w.at] = l /\ Hop(w.pt, p, l) = Link(w.at)
    BY <1>1, <1>7
  <2>2. e.kind # "page"
    BY <1>1, <1>2, <2>1 DEF Shape
  <2>3. e.kind = "table"
    BY <1>2, <1>7, <2>2, Entries
  <2>4. e.to \in Table /\ e = Link(e.to) /\ e.to < w.used /\ d[e.to] = l + 1
    BY <1>1, <1>2, <2>1, <2>3, ShapeTo
  <2>5. Down(w, s) = Walking(w.pt, w.used, e.to, "none")
    BY <1>7, <2>4 DEF Down
  <2>6. Hop(w.pt, p, l + 1) = e
    BY <2>1, HopNext, Entries DEF See
  <2>7. WalkOK(Walking(w.pt, w.used, e.to, "none"), p, l + 1, d)
    BY <1>1, <2>4, <2>6, WalkingIs DEF WalkOK
  <2> QED
    BY <2>5, <2>7
<1> QED
  BY <1>4, <1>5, <1>6, <1>7

\* The three levels of map_page.
LEMMA WalkKeeps ==
  ASSUME NEW d, Shape(pt, used, d), NEW p \in Page
  PROVE  \E d2 : WalkOK(Walk(p), p, 3, d2)
<1> DEFINE w0 == Walking(pt, used, 0, "none")
           w1 == Down(w0, Index(p, 0))
           w2 == Down(w1, Index(p, 1))
<1>1. 0 \in Table /\ 0 < used /\ d[0] = 0
  BY TranslateAssumption DEF Shape, Table, TranslateAssumption
<1>2. WalkOK(w0, p, 0, d)
  BY <1>1, WalkingIs, HopNext DEF WalkOK
<1> HIDE DEF w0
<1>3. PICK d1 : WalkOK(w1, p, 1, d1)
  BY <1>2, DownKeeps
<1> HIDE DEF w1
<1>4. PICK d2 : WalkOK(w2, p, 2, d2)
  BY <1>3, DownKeeps
<1> HIDE DEF w2
<1>5. PICK d3 : WalkOK(Down(w2, Index(p, 2)), p, 3, d3)
  BY <1>4, DownKeeps
<1> QED
  BY <1>5 DEF Walk, w0, w1, w2

\* Two pages whose walks lead to one table of a level have the same slots above it.
LEMMA SameTable ==
  ASSUME NEW T, NEW n, NEW d, Shape(T, n, d), NEW p \in Page, NEW q \in Page, NEW l \in 0 .. 2,
         NEW t \in Table, Hop(T, p, l + 1) = Link(t), Hop(T, q, l + 1) = Link(t)
  PROVE  /\ Index(p, l) = Index(q, l)
         /\ \E u \in Table : Hop(T, p, l) = Link(u) /\ Hop(T, q, l) = Link(u)
<1>1. \A x \in {p, q} : \E u \in Table : Hop(T, x, l) = Link(u) /\ T[u][Index(x, l)] = Link(t)
  <2>1. TAKE x \in {p, q}
  <2>2. x \in Page /\ Hop(T, x, l + 1) = Link(t)
    OBVIOUS
  <2>3. See(T, Hop(T, x, l), Index(x, l)) = Link(t)
    BY <2>2, HopNext
  <2>4. Hop(T, x, l) # Invalid
    BY <2>3, Entries DEF See
  <2>5. Leads(n, d, Hop(T, x, l), l)
    BY <2>2, HopLevel
  <2> QED
    BY <2>3, <2>4, <2>5 DEF Leads, See
<1>2. PICK u \in Table : Hop(T, p, l) = Link(u) /\ T[u][Index(p, l)] = Link(t)
  BY <1>1
<1>3. PICK v \in Table : Hop(T, q, l) = Link(v) /\ T[v][Index(q, l)] = Link(t)
  BY <1>1
<1>4. Index(p, l) \in Slot /\ Index(q, l) \in Slot
  BY Slots
<1>5. u = v /\ Index(p, l) = Index(q, l)
  BY <1>2, <1>3, <1>4 DEF Shape
<1> QED
  BY <1>2, <1>3, <1>5

\* The leaf that map_page writes is found for its page, and for no other.
LEMMA LeafFinds ==
  ASSUME NEW T, NEW n, NEW d, Shape(T, n, d), NEW a \in Table, a < n, d[a] = 3,
         NEW p \in Page, Hop(T, p, 3) = Link(a), NEW v \in Entry, NEW q \in Page
  PROVE  LET T2 == [T EXCEPT ![a][Index(p, 3)] = v]
         IN /\ FoundIn(T2, q) = IF q = p THEN v ELSE FoundIn(T, q)
            /\ \A k \in 0 .. 3 : Hop(T2, q, k) = Hop(T, q, k)
<1> DEFINE T2 == [T EXCEPT ![a][Index(p, 3)] = v]
<1>1. /\ T \in Tables /\ \A k \in 0 .. 3 : Index(p, k) \in Slot /\ Index(q, k) \in Slot
  BY Slots DEF Shape
<1>2. Index(p, 3) \in Slot /\ Index(q, 3) \in Slot
  BY <1>1
<1>3. /\ T2 \in Tables /\ T2[a][Index(p, 3)] = v
      /\ \A u \in Table, r \in Slot : u # a \/ r # Index(p, 3) => T2[u][r] = T[u][r]
  BY <1>1, <1>2, Write
<1> HIDE DEF T2
<1>4. \A k \in 0 .. 2 : Hop(T2, q, k) = Hop(T, q, k) => Hop(T2, q, k + 1) = Hop(T, q, k + 1)
  <2>1. TAKE k \in 0 .. 2
  <2>2. HAVE Hop(T2, q, k) = Hop(T, q, k)
  <2>3. Leads(n, d, Hop(T, q, k), k)
    <3>1. k \in 0 .. 3
      OBVIOUS
    <3> QED
      BY <3>1, HopLevel
  <2>4. Index(q, k) \in Slot
    BY <1>1
  <2>5. See(T2, Hop(T, q, k), Index(q, k)) = See(T, Hop(T, q, k), Index(q, k))
    <3>1. CASE Hop(T, q, k) = Invalid
      BY <3>1, Entries DEF See
    <3>2. CASE Hop(T, q, k) # Invalid
      <4>1. Hop(T, q, k).kind = "table" /\ Hop(T, q, k).to \in Table /\ d[Hop(T, q, k).to] = k
        BY <2>3, <3>2 DEF Leads
      <4>2. Hop(T, q, k).to # a
        BY <4>1
      <4> QED
        BY <1>3, <2>4, <4>1, <4>2 DEF See
    <3> QED
      BY <3>1, <3>2
  <2> QED
    BY <2>2, <2>5, HopNext
<1>5. Hop(T2, q, 0) = Hop(T, q, 0)
  BY HopNext
<1>6. Hop(T2, q, 1) = Hop(T, q, 1)
  BY <1>4, <1>5
<1>7. Hop(T2, q, 2) = Hop(T, q, 2)
  BY <1>4, <1>6
<1>8. Hop(T2, q, 3) = Hop(T, q, 3)
  BY <1>4, <1>7
<1>9. Leads(n, d, Hop(T, q, 3), 3)
  BY HopLevel
<1>10. ASSUME q = p PROVE FoundIn(T2, q) = IF q = p THEN v ELSE FoundIn(T, q)
  <2>1. FoundIn(T2, q) = T2[a][Index(p, 3)]
    BY <1>8, <1>10, Entries DEF FoundIn, See
  <2> QED
    BY <1>3, <1>10, <2>1 DEF T2
<1>11. ASSUME q # p /\ Hop(T, q, 3) # Link(a)
       PROVE  FoundIn(T2, q) = IF q = p THEN v ELSE FoundIn(T, q)
  <2>1. FoundIn(T2, q) = FoundIn(T, q)
    <3>1. CASE Hop(T, q, 3) = Invalid
      BY <1>8, <3>1, Entries DEF FoundIn, See
    <3>2. CASE Hop(T, q, 3) # Invalid
      <4>1. Hop(T, q, 3).kind = "table" /\ Hop(T, q, 3).to \in Table /\ Hop(T, q, 3).to # a
        BY <1>9, <1>11, <3>2 DEF Leads
      <4> QED
        BY <1>2, <1>3, <1>8, <4>1 DEF FoundIn, See
    <3> QED
      BY <3>1, <3>2
  <2> QED
    BY <1>11, <2>1 DEF T2
<1>12. ASSUME q # p /\ Hop(T, q, 3) = Link(a)
       PROVE  FoundIn(T2, q) = IF q = p THEN v ELSE FoundIn(T, q)
  <2>1. /\ Index(p, 2) = Index(q, 2)
        /\ \E u \in Table : Hop(T, p, 2) = Link(u) /\ Hop(T, q, 2) = Link(u)
    BY <1>12, SameTable
  <2>2. /\ Index(p, 1) = Index(q, 1)
        /\ \E u \in Table : Hop(T, p, 1) = Link(u) /\ Hop(T, q, 1) = Link(u)
    BY <2>1, SameTable
  <2>3. Index(p, 0) = Index(q, 0)
    BY <2>2, SameTable
  <2>4. Index(p, 3) # Index(q, 3)
    <3>1. SUFFICES ASSUME Index(p, 3) = Index(q, 3) PROVE FALSE
      OBVIOUS
    <3>2. \A k \in 0 .. 3 : Index(q, k) = Index(p, k)
      BY <2>1, <2>2, <2>3, <3>1
    <3> QED
      BY <1>12, <3>2, Slots
  <2>5. FoundIn(T2, q) = T2[a][Index(q, 3)] /\ FoundIn(T, q) = T[a][Index(q, 3)]
    BY <1>8, <1>12, Entries DEF FoundIn, See
  <2>6. T2[a][Index(q, 3)] = T[a][Index(q, 3)]
    BY <1>2, <1>3, <2>4
  <2> QED
    BY <1>12, <2>5, <2>6 DEF T2
<1>13. \A k \in 0 .. 3 : Hop(T2, q, k) = Hop(T, q, k)
  <2>1. \A k \in 0 .. 3 : k = 0 \/ k = 1 \/ k = 2 \/ k = 3
    OBVIOUS
  <2> QED
    BY <1>5, <1>6, <1>7, <1>8, <2>1
<1> QED
  BY <1>10, <1>11, <1>12, <1>13 DEF T2

-----------------------------------------------------------------------------
(* The specification                                                        *)

\* nxu_mmu_leaf is that walk.
LEMMA FoundIs ==
  /\ \A p \in Page : Found(p) = FoundIn(pt, p)
  /\ \A p \in Page : Found(p)' = FoundIn(pt', p)
<1>1. \A T, i : See(T, Link(0), i) = T[0][i]
  BY Entries DEF See
<1>2. \A T : \A p \in Page : FoundIn(T, p) =
        See(T, See(T, See(T, T[0][Index(p, 0)], Index(p, 1)), Index(p, 2)), Index(p, 3))
  BY <1>1 DEF FoundIn, Hop
<1>3. \A p \in Page : Found(p) =
        See(pt, See(pt, See(pt, pt[0][Index(p, 0)], Index(p, 1)), Index(p, 2)), Index(p, 3))
  BY Zenon DEF Found, Follow, See
<1>4. \A p \in Page : Found(p)' =
        See(pt', See(pt', See(pt', pt'[0][Index(p, 0)], Index(p, 1)), Index(p, 2)), Index(p, 3))
  BY Zenon DEF Found, Follow, See
<1> QED
  BY <1>2, <1>3, <1>4

\* What a step of nxu_mmu_map does to the tables and to what is found in them.
LEMMA MapPageStep ==
  ASSUME IInv, MapPage
  PROVE  /\ \E d : Shape(pt', used', d)
         /\ call.next \in Page /\ why' \in {"none", "pool"}
         /\ \A q \in Page : FoundIn(pt', q) = IF why' = "none" /\ q = call.next
                                              THEN Leaf(q, call.perm) ELSE FoundIn(pt, q)
<1> DEFINE p == call.next
           w == Walk(p)
           v == Leaf(p, call.perm)
<1>1. call \in [next : Nat, end : Nat, perm : Perm] /\ call.next < call.end /\ call.end - 1 \in Page
  BY DEF IInv, MapPage, Busy
<1>2. p \in Page /\ call.perm \in Perm
  BY <1>1, TranslateAssumption DEF Page, TranslateAssumption
<1>3. PICK d0 : Shape(pt, used, d0)
  BY DEF IInv
<1>4. PICK d : WalkOK(w, p, 3, d)
  BY <1>2, <1>3, WalkKeeps
<1>5. /\ used' = w.used /\ why' = w.stuck
      /\ \/ w.stuck = "none" /\ pt' = [w.pt EXCEPT ![w.at][Index(p, 3)] = v]
         \/ w.stuck # "none" /\ pt' = w.pt
  BY DEF MapPage
<1> HIDE DEF w
<1>6. /\ Shape(w.pt, w.used, d) /\ w.at \in Table /\ w.at < w.used /\ w.stuck \in {"none", "pool"}
      /\ w.stuck = "none" => d[w.at] = 3 /\ Hop(w.pt, p, 3) = Link(w.at)
      /\ \A q \in Page : FoundIn(w.pt, q) = FoundIn(pt, q)
  BY <1>4 DEF WalkOK
<1>7. v \in Entry /\ v.kind = "page" /\ Index(p, 3) \in Slot
  BY <1>2, Entries, Slots
<1>8. CASE w.stuck = "none"
  <2>1. pt' = [w.pt EXCEPT ![w.at][Index(p, 3)] = v] /\ why' = "none"
    BY <1>5, <1>8
  <2>2. Shape(pt', used', d)
    BY <1>5, <1>6, <1>7, <1>8, <2>1, LeafShape
  <2>3. \A q \in Page : FoundIn(pt', q) = IF q = p THEN v ELSE FoundIn(w.pt, q)
    BY <1>2, <1>6, <1>7, <1>8, <2>1, LeafFinds
  <2> QED
    BY <1>2, <1>6, <2>1, <2>2, <2>3
<1>9. CASE w.stuck # "none"
  <2>1. Shape(pt', used', d) /\ pt' = w.pt /\ why' = "pool"
    BY <1>5, <1>6, <1>9
  <2> QED
    BY <1>2, <1>6, <2>1
<1> QED
  BY <1>8, <1>9

\* The invariant holds of the empty pool.
LEMMA InitInv == Init => IInv
<1> SUFFICES ASSUME Init PROVE IInv
  OBVIOUS
<1>1. Shape(pt, used, [t \in Table |-> 0])
  <2>1. /\ pt \in Tables /\ used \in 1 .. PT_PAGES /\ used = 1 /\ 0 \in Table
    BY Entries, TranslateAssumption DEF Init, Tables, Table, TranslateAssumption
  <2>2. \A u \in Table, s \in Slot : pt[u][s] = Invalid
    BY DEF Init
  <2>3. \A u \in Table, s \in Slot :
          pt[u][s].kind = "invalid" /\ \A t \in Table : pt[u][s] # Link(t)
    BY <2>2, Entries
  <2> QED
    BY <2>1, <2>3 DEF Shape
<1>2. Idle \in [next : Nat, end : Nat, perm : Perm] /\ ~(Idle.next < Idle.end)
  BY TranslateAssumption DEF Idle, TranslateAssumption
<1> QED
  BY <1>1, <1>2, TranslateAssumption DEF Init, IInv, Busy, TranslateAssumption

\* Every step keeps the invariant.
LEMMA NextInv == IInv /\ [Next]_vars => IInv'
<1> SUFFICES ASSUME IInv, [Next]_vars PROVE IInv'
  OBVIOUS
<1>1. ASSUME NEW first \in Page, NEW n \in 1 .. MaxPages, NEW perm \in Perm, Map(first, n, perm)
      PROVE  IInv'
  <2>1. /\ first \in Nat /\ n \in Nat /\ made < MaxCalls /\ first + n - 1 \in Page
        /\ call' = [next |-> first, end |-> first + n, perm |-> perm] /\ made' = made + 1
        /\ pt' = pt /\ used' = used /\ why' = why
    BY <1>1, TranslateAssumption DEF Map, Page, TranslateAssumption
  <2>2. call' \in [next : Nat, end : Nat, perm : Perm] /\ call'.end - 1 \in Page
    BY <2>1
  <2>3. made' \in 0 .. MaxCalls
    BY <2>1, TranslateAssumption DEF IInv, TranslateAssumption
  <2> QED
    BY <2>1, <2>2, <2>3 DEF IInv, Busy
<1>2. CASE MapPage
  <2>1. (\E d : Shape(pt', used', d)) /\ why' \in {"none", "pool"}
    BY <1>2, MapPageStep
  <2>2. call \in [next : Nat, end : Nat, perm : Perm] /\ call.end - 1 \in Page
    BY <1>2 DEF IInv, MapPage
  <2>3. made' = made /\ call' \in {call, Idle, [call EXCEPT !.next = call.next + 1]}
    BY <1>2 DEF MapPage
  <2>4. call' \in [next : Nat, end : Nat, perm : Perm] /\ (Busy' => call'.end - 1 \in Page)
    <3>1. Idle \in [next : Nat, end : Nat, perm : Perm] /\ ~(Idle.next < Idle.end)
      BY TranslateAssumption DEF Idle, TranslateAssumption
    <3> QED
      BY <2>2, <2>3, <3>1 DEF Busy
  <2> QED
    BY <2>1, <2>3, <2>4 DEF IInv
<1>3. CASE UNCHANGED vars
  BY <1>3 DEF IInv, Busy, vars
<1> QED
  BY <1>1, <1>2, <1>3 DEF Next, Stay

\* For tables of any size and any calls, the inductive invariant holds.
THEOREM Invariant == Spec => []IInv
  BY InitInv, NextInv, PTL DEF Spec

\* For tables of any size and any calls of nxu_mmu_map, the pool is within its
\* bounds and every entry is none, a link to a table of the pool, or a leaf
\* (mmu.c:30-52).
THEOREM TypeCorrect == Spec => []TypeOK
<1>1. IInv => TypeOK
  <2>1. IInv => pt \in [Table -> [Slot -> Entry]] /\ used \in 1 .. PT_PAGES
    BY DEF IInv, Shape, Tables
  <2> QED
    BY <2>1 DEF IInv, TypeOK
<1> QED
  BY <1>1, Invariant, PTL

\* For tables of any size and any calls, also those that halt in the middle of a
\* range, the tables in use are a tree: pt_index finds every table, and no two
\* ranges share one by accident (mmu.c:43-65, 129-156).
THEOREM TablesAreATree == Spec => []TreeShape
<1>1. IInv => TreeShape
  <2>1. SUFFICES ASSUME IInv PROVE TreeShape
    OBVIOUS
  <2>2. PICK d : Shape(pt, used, d)
    BY <2>1 DEF IInv
  <2>3. \A u \in Table, s \in Slot : pt[u][s].kind = "table" =>
          u < pt[u][s].to /\ pt[u][s].to < used
    BY <2>2 DEF Shape
  <2>4. \A t \in 1 .. used - 1 :
          Cardinality({at \in Table \X Slot : pt[at[1]][at[2]] = Link(t)}) = 1
    <3>1. TAKE t \in 1 .. used - 1
    <3>2. t \in Table
      BY <2>2, TranslateAssumption DEF Shape, Table, TranslateAssumption
    <3>3. PICK u \in Table, s \in Slot : pt[u][s] = Link(t)
      BY <2>2 DEF Shape
    <3>4. \A u2 \in Table, s2 \in Slot : pt[u2][s2] = Link(t) => u2 = u /\ s2 = s
      BY <2>2, <3>2, <3>3 DEF Shape
    <3>5. {at \in Table \X Slot : pt[at[1]][at[2]] = Link(t)} = {<<u, s>>}
      BY <3>3, <3>4
    <3> QED
      BY <3>5, FS_Singleton
  <2> QED
    BY <2>1, <2>3, <2>4 DEF TreeShape, IInv
<1> QED
  BY <1>1, Invariant, PTL

\* For tables of any size the map the tables stand for is the flat map of
\* PageMap: each step of a call gives one page its attribute and leaves what is
\* found of every other page alone, or the pool has run out and nothing that is
\* found changes (mmu.c:117-159, 169-213).
THEOREM FlatImplemented == Spec => FlatSpec
<1>1. Init => Flat!Init
  <2>1. SUFFICES ASSUME Init PROVE Flat!Init
    OBVIOUS
  <2>4. 0 \in Table
    BY TranslateAssumption DEF Table, TranslateAssumption
  <2>5. \A u \in Table, s \in Slot : pt[u][s] = Invalid
    BY <2>1 DEF Init
  <2>2. 0 \in Table /\ \A u \in Table, s \in Slot : pt[u][s] = Invalid
    BY <2>4, <2>5
  <2>3. \A p \in Page : Found(p).kind # "page"
    <3>1. TAKE p \in Page
    <3>2. \A k \in 0 .. 3 : Index(p, k) \in Slot
      BY Slots
    <3>3. pt[0][Index(p, 0)] = Invalid
      BY <2>2, <3>2
    <3> QED
      BY <3>3, Entries DEF Found, Follow
  <2> QED
    BY <2>1, <2>3 DEF Flat!Init, Init
<1>2. IInv /\ [Next]_vars =>
        [Flat!Next]_<<[p \in Page |-> IF Found(p).kind = "page" THEN Meant(p) ELSE "none"],
                      why = "none">>
  <2> DEFINE Seen(e, p) == IF e.kind = "page" THEN IF e.page = p THEN e.perm ELSE "another page"
                           ELSE "none"
             map == [p \in Page |-> IF Found(p).kind = "page" THEN Meant(p) ELSE "none"]
  <2>1. SUFFICES ASSUME IInv, [Next]_vars PROVE [Flat!Next]_<<map, why = "none">>
    OBVIOUS
  <2>2. /\ map = [p \in Page |-> Seen(FoundIn(pt, p), p)]
        /\ map' = [p \in Page |-> Seen(FoundIn(pt', p), p)]
    BY FoundIs DEF Meant, Seen, map
  <2> HIDE DEF map
  <2> HIDE DEF Seen
  <2>3. ASSUME pt' = pt, why' = why PROVE UNCHANGED <<map, why = "none">>
    BY <2>2, <2>3
  <2>4. CASE MapPage
    <3>1. /\ call.next \in Page /\ why' \in {"none", "pool"}
          /\ \A q \in Page : FoundIn(pt', q) = IF why' = "none" /\ q = call.next
                                               THEN Leaf(q, call.perm) ELSE FoundIn(pt, q)
      BY <2>1, <2>4, MapPageStep
    <3>2. why = "none" /\ call.perm \in Perm
      BY <2>1, <2>4 DEF MapPage, IInv
    <3>3. CASE why' = "none"
      <4>1. Seen(Leaf(call.next, call.perm), call.next) = call.perm
        <5>1. /\ Leaf(call.next, call.perm).kind = "page"
              /\ Leaf(call.next, call.perm).page = call.next
              /\ Leaf(call.next, call.perm).perm = call.perm
          BY Entries
        <5> QED
          BY <5>1, Zenon DEF Seen
      <4>2. map' = [map EXCEPT ![call.next] = call.perm]
        BY <2>2, <3>1, <3>3, <4>1
      <4>3. Flat!Set(call.next, call.perm)
        BY <3>2, <3>3, <4>2, Zenon DEF Flat!Set, map
      <4> QED
        BY <3>1, <3>2, <4>3 DEF Flat!Next
    <3>4. CASE why' # "none"
      <4>1. map' = map
        BY <2>2, <3>1, <3>4
      <4> QED
        BY <3>2, <3>4, <4>1, Zenon DEF Flat!Next, Flat!Fail, map
    <3> QED
      BY <3>3, <3>4
  <2>5. CASE ~MapPage
    <3>1. pt' = pt /\ why' = why
      BY <2>1, <2>5 DEF Next, Map, Stay, vars
    <3> QED
      BY <2>3, <3>1
  <2> QED
    BY <2>4, <2>5
<1> QED
  BY <1>1, <1>2, Invariant, PTL DEF Spec, FlatSpec, Flat!Spec

-----------------------------------------------------------------------------
(* The pool                                                                 *)

\* The beginning of a page's address that leads to a table of a level, and the
\* beginnings that lead to a table in tables T.
Mark(p, k) == <<k, Above(p, k - 1)>>
Reach(T) ==
  UNION {{Mark(p, k) : k \in {j \in 1 .. 3 : Hop(T, p, j) # Invalid}} : p \in Page}

\* Membership in the two sets of beginnings.
LEMMA Marks ==
  /\ \A T, x : x \in Reach(T) <=>
       \E p \in Page : \E k \in 1 .. 3 : x = Mark(p, k) /\ Hop(T, p, k) # Invalid
  /\ \A S, x : x \in Prefixes(S) <=> \E p \in S : \E k \in 1 .. 3 : x = Mark(p, k)
  /\ \A p, q, k, l : Mark(p, k) = Mark(q, l) <=> k = l /\ Above(p, k - 1) = Above(q, l - 1)
<1>1. \A T, x : x \in Reach(T) <=>
        \E p \in Page : \E k \in 1 .. 3 : x = Mark(p, k) /\ Hop(T, p, k) # Invalid
  BY DEF Reach
<1>2. \A S, x : x \in Prefixes(S) <=> \E p \in S : \E k \in 1 .. 3 : x = Mark(p, k)
  BY DEF Prefixes, Mark
<1>3. \A p, q, k, l : Mark(p, k) = Mark(q, l) <=> k = l /\ Above(p, k - 1) = Above(q, l - 1)
  BY DEF Mark
<1> QED
  BY <1>1, <1>2, <1>3

\* Pages with one beginning are led to one table.
LEMMA SameHop ==
  ASSUME NEW T, NEW p \in Page, NEW q \in Page, NEW l \in 0 .. 2, Above(p, l) = Above(q, l)
  PROVE  Hop(T, p, l + 1) = Hop(T, q, l + 1)
<1>1. \A k \in 0 .. l : Index(p, k) = Index(q, k)
  <2>1. l \in 0 .. 3
    OBVIOUS
  <2> QED
    BY <2>1, SameAbove
<1>2. \A k \in 0 .. l : k \in 0 .. 2
  OBVIOUS
<1>3. \A k \in 0 .. l : Hop(T, p, k) = Hop(T, q, k) => Hop(T, p, k + 1) = Hop(T, q, k + 1)
  BY <1>1, <1>2, HopNext
<1>4. Hop(T, p, 0) = Hop(T, q, 0)
  BY HopNext
<1>5. Hop(T, p, 1) = Hop(T, q, 1)
  <2>1. 0 \in 0 .. l
    OBVIOUS
  <2> QED
    BY <1>3, <1>4, <2>1
<1>6. l >= 1 => Hop(T, p, 2) = Hop(T, q, 2)
  BY <1>3, <1>5
<1>7. l >= 2 => Hop(T, p, 3) = Hop(T, q, 3)
  BY <1>3, <1>6
<1>8. l = 0 \/ l = 1 \/ l = 2
  OBVIOUS
<1> QED
  BY <1>5, <1>6, <1>7, <1>8

\* Pages that are led to one table have one beginning.
LEMMA SameMark ==
  ASSUME NEW T, NEW n, NEW d, Shape(T, n, d), NEW p \in Page, NEW q \in Page, NEW l \in 0 .. 2,
         NEW t \in Table, Hop(T, p, l + 1) = Link(t), Hop(T, q, l + 1) = Link(t)
  PROVE  Above(p, l) = Above(q, l)
<1> DEFINE Both(k) == \E u \in Table : Hop(T, p, k) = Link(u) /\ Hop(T, q, k) = Link(u)
           Ix(k) == Index(p, k) = Index(q, k)
<1>1. \A k \in 0 .. 2 : Both(k + 1) => Ix(k) /\ Both(k)
  BY SameTable
<1>2. Both(l + 1)
  OBVIOUS
<1> HIDE DEF Both, Ix
<1>3. \A k \in 0 .. l : Ix(k)
  <2>1. /\ Both(1) => Ix(0) /\ Both(0)
        /\ Both(2) => Ix(1) /\ Both(1)
        /\ Both(3) => Ix(2) /\ Both(2)
    BY <1>1
  <2>2. l = 0 \/ l = 1 \/ l = 2
    OBVIOUS
  <2>3. CASE l = 0
    BY <1>2, <2>1, <2>3
  <2>4. CASE l = 1
    BY <1>2, <2>1, <2>4
  <2>5. CASE l = 2
    BY <1>2, <2>1, <2>5
  <2> QED
    BY <2>2, <2>3, <2>4, <2>5
<1>4. l \in 0 .. 3
  OBVIOUS
<1> QED
  BY <1>3, <1>4, SameAbove DEF Ix

\* Where a walk meets an entry that leads nowhere, no page with that beginning
\* has a table.
LEMMA NotReached ==
  ASSUME NEW T, NEW n, NEW d, Shape(T, n, d), NEW a \in Table, NEW p \in Page, NEW l \in 0 .. 2,
         Hop(T, p, l) = Link(a), T[a][Index(p, l)].kind = "invalid"
  PROVE  Mark(p, l + 1) \notin Reach(T)
<1>1. Hop(T, p, l + 1) = Invalid
  <2>1. Hop(T, p, l + 1) = T[a][Index(p, l)]
    BY HopNext, Entries DEF See
  <2>2. T[a][Index(p, l)] \in Entry
    BY Slots DEF Shape, Tables
  <2> QED
    BY <2>1, <2>2, Entries
<1>2. SUFFICES ASSUME NEW q \in Page, NEW k \in 1 .. 3, Mark(p, l + 1) = Mark(q, k),
                      Hop(T, q, k) # Invalid
               PROVE  FALSE
  BY Marks
<1>3. k = l + 1 /\ Above(p, (l + 1) - 1) = Above(q, (l + 1) - 1)
  BY <1>2, Marks
<1>4. (l + 1) - 1 = l
  OBVIOUS
<1>5. Hop(T, q, l + 1) = Invalid
  BY <1>1, <1>3, <1>4, SameHop
<1> QED
  BY <1>2, <1>3, <1>5

\* A table that is linked is one more beginning, its own.
LEMMA GrowReach ==
  ASSUME NEW T, NEW n, NEW d, Shape(T, n, d), n < PT_PAGES, NEW a \in Table, a < n,
         NEW p \in Page, NEW l \in 0 .. 2, d[a] = l, Hop(T, p, l) = Link(a),
         NEW s \in Slot, s = Index(p, l), T[a][s].kind = "invalid"
  PROVE  Reach([T EXCEPT ![a][s] = Link(n)]) = Reach(T) \cup {Mark(p, l + 1)}
<1> DEFINE T2 == [T EXCEPT ![a][s] = Link(n)]
           d2 == [d EXCEPT ![n] = d[a] + 1]
<1>1. s \in Slot /\ d[a] \in 0 .. 2
  BY Slots
<1>2. Shape(T2, n + 1, d2) /\ d2[n] = l + 1 /\ n \in Table
  BY <1>1, GrowShape
<1>3. \A q \in Page, k \in 0 .. 3 : Grown(n, Hop(T, q, k), Hop(T2, q, k))
  BY <1>1, GrowFinds
<1>4. Hop(T2, p, l + 1) = Link(n)
  BY <1>1, GrowFinds
<1> HIDE DEF T2, d2
<1>5. Link(n) # Invalid
  BY Entries
<1>6. l + 1 \in 1 .. 3 /\ (l + 1) - 1 = l
  OBVIOUS
<1>7. ASSUME NEW x \in Reach(T) PROVE x \in Reach(T2)
  <2>1. PICK q \in Page, k \in 1 .. 3 : x = Mark(q, k) /\ Hop(T, q, k) # Invalid
    BY <1>7, Marks
  <2>2. k \in 0 .. 3
    OBVIOUS
  <2>3. Hop(T2, q, k) # Invalid
    BY <1>3, <2>1, <2>2 DEF Grown
  <2> QED
    BY <2>1, <2>3, Marks
<1>8. Mark(p, l + 1) \in Reach(T2)
  BY <1>4, <1>5, <1>6, Marks
<1>9. ASSUME NEW x \in Reach(T2), x \notin Reach(T) PROVE x = Mark(p, l + 1)
  <2>1. PICK q \in Page, k \in 1 .. 3 : x = Mark(q, k) /\ Hop(T2, q, k) # Invalid
    BY <1>9, Marks
  <2>2. k \in 0 .. 3
    OBVIOUS
  <2>3. Hop(T, q, k) = Invalid
    BY <1>9, <2>1, Marks
  <2>4. Hop(T2, q, k) = Link(n)
    BY <1>3, <2>1, <2>2, <2>3 DEF Grown
  <2>5. Leads(n + 1, d2, Link(n), k)
    BY <1>2, <2>2, <2>4, HopLevel
  <2>6. k = l + 1
    BY <1>2, <1>5, <2>5, Entries DEF Leads
  <2>7. Above(p, l) = Above(q, l)
    BY <1>2, <1>4, <2>4, <2>6, SameMark
  <2> QED
    BY <1>6, <2>1, <2>6, <2>7, Marks
<1> QED
  BY <1>7, <1>8, <1>9 DEF T2

\* What map_page has counted on its way: a table for each beginning, those of its
\* page as far as it has got, and one that is missing where the pool ended.
WalkCount(w, p, level) ==
  /\ IsFiniteSet(Reach(w.pt)) /\ w.used = 1 + Cardinality(Reach(w.pt))
  /\ Reach(pt) \subseteq Reach(w.pt) /\ Reach(w.pt) \subseteq Reach(pt) \cup Prefixes({p})
  /\ w.stuck = "none" => \A k \in 1 .. level : Mark(p, k) \in Reach(w.pt)
  /\ w.stuck # "none" => w.used >= PT_PAGES /\ \E k \in 1 .. 3 : Mark(p, k) \notin Reach(w.pt)

\* One level of map_page counts.
LEMMA DownCounts ==
  ASSUME NEW w, NEW p \in Page, NEW l \in 0 .. 2, NEW d, WalkOK(w, p, l, d), WalkCount(w, p, l)
  PROVE  WalkCount(Down(w, Index(p, l)), p, l + 1)
<1> DEFINE s == Index(p, l)
           e == w.pt[w.at][s]
<1>1. /\ Shape(w.pt, w.used, d) /\ w.at \in Table /\ w.at < w.used
      /\ w.stuck = "none" => d[w.at] = l /\ Hop(w.pt, p, l) = Link(w.at)
  BY DEF WalkOK
<1>2. /\ IsFiniteSet(Reach(w.pt)) /\ w.used = 1 + Cardinality(Reach(w.pt))
      /\ Reach(pt) \subseteq Reach(w.pt) /\ Reach(w.pt) \subseteq Reach(pt) \cup Prefixes({p})
      /\ w.stuck = "none" => \A k \in 1 .. l : Mark(p, k) \in Reach(w.pt)
      /\ w.stuck # "none" => w.used >= PT_PAGES /\ \E k \in 1 .. 3 : Mark(p, k) \notin Reach(w.pt)
  BY DEF WalkCount
<1>3. s \in Slot /\ e \in Entry
  BY <1>1, Slots DEF Shape, Tables
<1>4. l + 1 \in 1 .. 3 /\ \A k \in 1 .. l + 1 : k \in 1 .. l \/ k = l + 1
  OBVIOUS
<1>5. w.used \in 1 .. PT_PAGES /\ PT_PAGES \in Nat
  BY <1>1, TranslateAssumption DEF Shape, TranslateAssumption
<1>6. CASE w.stuck # "none"
  <2>1. Down(w, s) = w
    BY <1>6 DEF Down
  <2> QED
    BY <1>2, <1>6, <2>1, Zenon DEF WalkCount
<1>7. CASE w.stuck = "none" /\ e.kind = "invalid" /\ PoolSpent(w.used)
  <2> DEFINE w2 == Walking(w.pt, w.used, w.at, "pool")
  <2>1. Down(w, s) = w2
    BY <1>7 DEF Down, Grow
  <2>2. w2.pt = w.pt /\ w2.used = w.used /\ w2.stuck = "pool"
    BY WalkingIs
  <2>3. w.used >= PT_PAGES
    BY <1>7 DEF PoolSpent
  <2>4. Mark(p, l + 1) \notin Reach(w.pt)
    BY <1>1, <1>7, NotReached
  <2> HIDE DEF w2
  <2>5. WalkCount(w2, p, l + 1)
    BY <1>2, <1>4, <2>2, <2>3, <2>4 DEF WalkCount
  <2> QED
    BY <2>1, <2>5
<1>8. CASE w.stuck = "none" /\ e.kind = "invalid" /\ ~PoolSpent(w.used)
  <2> DEFINE n  == w.used
             T2 == [w.pt EXCEPT ![w.at][s] = Link(n)]
             w2 == Walking(T2, n + 1, n, "none")
  <2>1. Down(w, s) = w2
    BY <1>8 DEF Down, Grow
  <2>2. n < PT_PAGES
    BY <1>5, <1>8 DEF PoolSpent
  <2>3. Reach(T2) = Reach(w.pt) \cup {Mark(p, l + 1)}
    <3>1. d[w.at] = l /\ Hop(w.pt, p, l) = Link(w.at)
      BY <1>1, <1>8
    <3> QED
      BY <1>1, <1>3, <1>8, <2>2, <3>1, GrowReach
  <2>4. Mark(p, l + 1) \notin Reach(w.pt)
    BY <1>1, <1>8, NotReached
  <2> HIDE DEF T2
  <2>5. w2.pt = T2 /\ w2.used = n + 1 /\ w2.stuck = "none"
    BY WalkingIs
  <2> HIDE DEF w2
  <2>6. /\ IsFiniteSet(Reach(w.pt) \cup {Mark(p, l + 1)})
        /\ Cardinality(Reach(w.pt) \cup {Mark(p, l + 1)}) = Cardinality(Reach(w.pt)) + 1
    BY <1>2, <2>4, FS_AddElement
  <2>7. Cardinality(Reach(w.pt)) \in Nat
    BY <1>2, FS_CardinalityType
  <2>8. n + 1 = 1 + Cardinality(Reach(T2))
    BY <1>2, <2>3, <2>6, <2>7
  <2>9. Mark(p, l + 1) \in Prefixes({p})
    BY <1>4, Marks
  <2>10. /\ Reach(pt) \subseteq Reach(T2) /\ Reach(T2) \subseteq Reach(pt) \cup Prefixes({p})
    BY <1>2, <2>3, <2>9
  <2>11. \A k \in 1 .. l + 1 : Mark(p, k) \in Reach(T2)
    BY <1>2, <1>4, <1>8, <2>3
  <2>12. WalkCount(w2, p, l + 1)
    BY <2>3, <2>5, <2>6, <2>8, <2>10, <2>11 DEF WalkCount
  <2> QED
    BY <2>1, <2>12
<1>9. CASE w.stuck = "none" /\ e.kind # "invalid"
  <2>1. d[w.at] = l /\ Hop(w.pt, p, l) = Link(w.at)
    BY <1>1, <1>9
  <2>2. e.kind # "page"
    BY <1>1, <1>3, <2>1 DEF Shape
  <2>3. e.kind = "table"
    BY <1>3, <1>9, <2>2, Entries
  <2>4. e.to < w.used
    BY <1>1, <1>3, <2>3, ShapeTo
  <2> DEFINE w2 == Walking(w.pt, w.used, e.to, "none")
  <2>5. Down(w, s) = w2
    BY <1>9, <2>3, <2>4 DEF Down
  <2>6. w2.pt = w.pt /\ w2.used = w.used /\ w2.stuck = "none"
    BY WalkingIs
  <2>7. Hop(w.pt, p, l + 1) # Invalid
    BY <1>9, <2>1, HopNext, Entries DEF See
  <2>8. Mark(p, l + 1) \in Reach(w.pt)
    BY <1>4, <2>7, Marks
  <2>9. \A k \in 1 .. l + 1 : Mark(p, k) \in Reach(w.pt)
    BY <1>2, <1>4, <1>9, <2>8
  <2> HIDE DEF w2
  <2>10. WalkCount(w2, p, l + 1)
    BY <1>2, <2>6, <2>9 DEF WalkCount
  <2> QED
    BY <2>5, <2>10
<1> QED
  BY <1>6, <1>7, <1>8, <1>9

\* The three levels of map_page, with what they keep and what they count.
LEMMA WalkCounts ==
  ASSUME NEW d, Shape(pt, used, d), NEW p \in Page,
         IsFiniteSet(Reach(pt)), used = 1 + Cardinality(Reach(pt))
  PROVE  (\E d2 : WalkOK(Walk(p), p, 3, d2)) /\ WalkCount(Walk(p), p, 3)
<1> DEFINE w0 == Walking(pt, used, 0, "none")
           w1 == Down(w0, Index(p, 0))
           w2 == Down(w1, Index(p, 1))
<1>1. 0 \in Table /\ 0 < used /\ d[0] = 0
  BY TranslateAssumption DEF Shape, Table, TranslateAssumption
<1>2. WalkOK(w0, p, 0, d)
  BY <1>1, WalkingIs, HopNext DEF WalkOK
<1>3. WalkCount(w0, p, 0)
  BY WalkingIs DEF WalkCount
<1> HIDE DEF w0
<1>4. PICK d1 : WalkOK(w1, p, 1, d1)
  BY <1>2, DownKeeps
<1>5. WalkCount(w1, p, 1)
  BY <1>2, <1>3, DownCounts
<1> HIDE DEF w1
<1>6. PICK d2 : WalkOK(w2, p, 2, d2)
  BY <1>4, DownKeeps
<1>7. WalkCount(w2, p, 2)
  BY <1>4, <1>5, DownCounts
<1> HIDE DEF w2
<1>8. PICK d3 : WalkOK(Down(w2, Index(p, 2)), p, 3, d3)
  BY <1>6, DownKeeps
<1>9. WalkCount(Down(w2, Index(p, 2)), p, 3)
  BY <1>6, <1>7, DownCounts
<1> QED
  BY <1>8, <1>9 DEF Walk, w0, w1, w2

\* A leaf leads to no table.
LEMMA LeafReach ==
  ASSUME NEW T, NEW n, NEW d, Shape(T, n, d), NEW a \in Table, a < n, d[a] = 3,
         NEW p \in Page, Hop(T, p, 3) = Link(a), NEW v \in Entry
  PROVE  Reach([T EXCEPT ![a][Index(p, 3)] = v]) = Reach(T)
<1> DEFINE T2 == [T EXCEPT ![a][Index(p, 3)] = v]
<1>1. \A q \in Page : \A k \in 0 .. 3 : Hop(T2, q, k) = Hop(T, q, k)
  BY LeafFinds
<1> HIDE DEF T2
<1>2. \A k \in 1 .. 3 : k \in 0 .. 3
  OBVIOUS
<1>3. \A q \in Page : \A k \in 1 .. 3 : Hop(T2, q, k) = Hop(T, q, k)
  BY <1>1, <1>2
<1>4. ASSUME NEW x PROVE x \in Reach(T2) <=> x \in Reach(T)
  <2>1. x \in Reach(T2) <=>
          \E q \in Page : \E k \in 1 .. 3 : x = Mark(q, k) /\ Hop(T2, q, k) # Invalid
    BY Marks
  <2>2. x \in Reach(T) <=>
          \E q \in Page : \E k \in 1 .. 3 : x = Mark(q, k) /\ Hop(T, q, k) # Invalid
    BY Marks
  <2> QED
    BY <1>3, <2>1, <2>2
<1>5. Reach(T2) = Reach(T)
  BY <1>4
<1> QED
  BY <1>5 DEF T2

\* The beginnings of one page more.
LEMMA OneMore ==
  ASSUME NEW S, NEW p
  PROVE  /\ Prefixes(S \cup {p}) = Prefixes(S) \cup Prefixes({p})
         /\ \A k \in 1 .. 3 : Mark(p, k) \in Prefixes({p})
         /\ Prefixes({p}) = {Mark(p, 1), Mark(p, 2), Mark(p, 3)}
<1>1. Prefixes(S \cup {p}) = Prefixes(S) \cup Prefixes({p})
  BY Marks
<1>2. \A k \in 1 .. 3 : Mark(p, k) \in Prefixes({p})
  BY Marks
<1>3. \A x : x \in Prefixes({p}) <=> \E k \in 1 .. 3 : x = Mark(p, k)
  BY Marks
<1>4. \A k : k \in 1 .. 3 <=> k = 1 \/ k = 2 \/ k = 3
  OBVIOUS
<1>5. Prefixes({p}) = {Mark(p, 1), Mark(p, 2), Mark(p, 3)}
  BY <1>3, <1>4
<1> QED
  BY <1>1, <1>2, <1>5

\* A page is mapped by a step of nxu_mmu_map that does not halt.
LEMMA MappedStep ==
  ASSUME IInv, MapPage
  PROVE  Mapped' = IF why' = "none" THEN Mapped \cup {call.next} ELSE Mapped
<1>1. /\ call.next \in Page
      /\ \A q \in Page : FoundIn(pt', q) = IF why' = "none" /\ q = call.next
                                           THEN Leaf(q, call.perm) ELSE FoundIn(pt, q)
  BY MapPageStep
<1>2. Mapped = {q \in Page : FoundIn(pt, q).kind = "page"}
  BY FoundIs DEF Mapped
<1>3. Mapped' = {q \in Page : FoundIn(pt', q).kind = "page"}
  BY FoundIs DEF Mapped
<1>4. Leaf(call.next, call.perm).kind = "page"
  BY Entries
<1> QED
  BY <1>1, <1>2, <1>3, <1>4

\* A table for each beginning; while the boot runs they are those of the pages
\* that are mapped, and a halt comes of a page whose beginnings do not fit.
PoolInv ==
  /\ IsFiniteSet(Reach(pt)) /\ used = 1 + Cardinality(Reach(pt))
  /\ why = "none" => Reach(pt) = Prefixes(Mapped)
  /\ why # "none" => 1 + Cardinality(Prefixes(Mapped \cup {call.next})) > PT_PAGES

\* The empty pool holds the root, which needs no beginning.
LEMMA InitPool == Init => PoolInv
<1> SUFFICES ASSUME Init PROVE PoolInv
  OBVIOUS
<1>1. 0 \in Table /\ \A u \in Table, s \in Slot : pt[u][s] = Invalid
  BY TranslateAssumption DEF Init, Table, TranslateAssumption
<1>2. \A p \in Page : \A k \in 0 .. 3 : Index(p, k) \in Slot
  BY Slots
<1>3. ASSUME NEW p \in Page
      PROVE  (\A k \in 1 .. 3 : Hop(pt, p, k) = Invalid) /\ FoundIn(pt, p) = Invalid
  <2>1. See(pt, Link(0), Index(p, 0)) = Invalid
    BY <1>1, <1>2, Entries DEF See
  <2>2. \A i : See(pt, Invalid, i) = Invalid
    BY Entries DEF See
  <2> QED
    BY <2>1, <2>2 DEF Hop, FoundIn
<1>4. Reach(pt) = {}
  BY <1>3, Marks
<1>5. Mapped = {}
  BY <1>3, FoundIs, Entries DEF Mapped
<1>6. Prefixes({}) = {}
  BY Marks
<1>7. IsFiniteSet({}) /\ Cardinality({}) = 0
  BY FS_EmptySet
<1> QED
  BY <1>4, <1>5, <1>6, <1>7 DEF PoolInv, Init

\* A page that is mapped takes the tables its beginnings lack; a page that halts
\* the boot has too many of them.
LEMMA MapPagePool ==
  ASSUME IInv, PoolInv, MapPage
  PROVE  PoolInv'
<1> DEFINE p == call.next
           w == Walk(p)
           v == Leaf(p, call.perm)
<1>1. call \in [next : Nat, end : Nat, perm : Perm] /\ p \in Page /\ call.perm \in Perm
  BY MapPageStep DEF IInv
<1>2. PICK d0 : Shape(pt, used, d0)
  BY DEF IInv
<1>3. /\ IsFiniteSet(Reach(pt)) /\ used = 1 + Cardinality(Reach(pt))
      /\ Reach(pt) = Prefixes(Mapped)
  BY DEF PoolInv, MapPage
<1>4. (\E d2 : WalkOK(w, p, 3, d2)) /\ WalkCount(w, p, 3)
  BY <1>1, <1>2, <1>3, WalkCounts
<1>5. PICK d : WalkOK(w, p, 3, d)
  BY <1>4
<1>6. /\ used' = w.used /\ why' = w.stuck
      /\ \/ w.stuck = "none" /\ pt' = [w.pt EXCEPT ![w.at][Index(p, 3)] = v]
         \/ w.stuck # "none" /\ pt' = w.pt /\ call' = call
  BY DEF MapPage
<1> HIDE DEF w
<1>7. /\ Shape(w.pt, w.used, d) /\ w.at \in Table /\ w.at < w.used
      /\ w.stuck = "none" => d[w.at] = 3 /\ Hop(w.pt, p, 3) = Link(w.at)
  BY <1>5 DEF WalkOK
<1>8. /\ IsFiniteSet(Reach(w.pt)) /\ w.used = 1 + Cardinality(Reach(w.pt))
      /\ Reach(pt) \subseteq Reach(w.pt) /\ Reach(w.pt) \subseteq Reach(pt) \cup Prefixes({p})
      /\ w.stuck = "none" => \A k \in 1 .. 3 : Mark(p, k) \in Reach(w.pt)
      /\ w.stuck # "none" => w.used >= PT_PAGES /\ \E k \in 1 .. 3 : Mark(p, k) \notin Reach(w.pt)
  BY <1>4 DEF WalkCount
<1>9. Prefixes(Mapped \cup {p}) = Reach(pt) \cup {Mark(p, 1), Mark(p, 2), Mark(p, 3)}
  <2>1. Prefixes(Mapped \cup {p}) = Prefixes(Mapped) \cup Prefixes({p})
    BY OneMore
  <2>2. Prefixes({p}) = {Mark(p, 1), Mark(p, 2), Mark(p, 3)}
    BY OneMore
  <2> QED
    BY <1>3, <2>1, <2>2
<1>10. Prefixes({p}) = {Mark(p, 1), Mark(p, 2), Mark(p, 3)}
  BY OneMore
<1>11. CASE w.stuck = "none"
  <2>1. v \in Entry
    BY <1>1, Entries
  <2>2. pt' = [w.pt EXCEPT ![w.at][Index(p, 3)] = v] /\ why' = "none"
    BY <1>6, <1>11
  <2>3. Reach([w.pt EXCEPT ![w.at][Index(p, 3)] = v]) = Reach(w.pt)
    BY <1>1, <1>7, <1>11, <2>1, LeafReach
  <2>4. Mapped' = Mapped \cup {p}
    BY <2>2, MappedStep
  <2>5. \A k \in {1, 2, 3} : Mark(p, k) \in Reach(w.pt)
    BY <1>8, <1>11
  <2>6. Reach(w.pt) = Prefixes(Mapped \cup {p})
    BY <1>8, <1>9, <1>10, <2>5
  <2>7. Reach(pt') = Reach(w.pt)
    BY <2>2, <2>3
  <2>8. Reach(pt') = Prefixes(Mapped')
    BY <2>4, <2>6, <2>7
  <2> QED
    BY <1>6, <1>8, <2>2, <2>7, <2>8 DEF PoolInv
<1>12. CASE w.stuck # "none"
  <2>1. pt' = w.pt /\ why' # "none" /\ call' = call
    BY <1>6, <1>12
  <2>2. Mapped' = Mapped
    BY <2>1, MappedStep
  <2>3. PICK k \in 1 .. 3 : Mark(p, k) \notin Reach(w.pt)
    BY <1>8, <1>12
  <2> DEFINE P == Prefixes(Mapped \cup {p})
             R == Reach(w.pt) \cup {Mark(p, k)}
  <2>4. IsFiniteSet(P)
    <3>1. IsFiniteSet(Reach(pt) \cup {Mark(p, 1)})
      BY <1>3, FS_AddElement
    <3>2. IsFiniteSet((Reach(pt) \cup {Mark(p, 1)}) \cup {Mark(p, 2)})
      BY <3>1, FS_AddElement
    <3>3. IsFiniteSet(((Reach(pt) \cup {Mark(p, 1)}) \cup {Mark(p, 2)}) \cup {Mark(p, 3)})
      BY <3>2, FS_AddElement
    <3>4. P = ((Reach(pt) \cup {Mark(p, 1)}) \cup {Mark(p, 2)}) \cup {Mark(p, 3)}
      BY <1>9
    <3> QED
      BY <3>3, <3>4
  <2>5. R \subseteq P
    <3>1. Mark(p, k) \in Prefixes({p})
      BY OneMore
    <3> QED
      BY <1>8, <1>9, <1>10, <3>1
  <2>6. Cardinality(R) = Cardinality(Reach(w.pt)) + 1
    BY <1>8, <2>3, FS_AddElement
  <2> HIDE DEF P, R
  <2>7. Cardinality(R) <= Cardinality(P)
    BY <2>4, <2>5, FS_Subset
  <2>8. Cardinality(Reach(w.pt)) \in Nat /\ Cardinality(P) \in Nat
    BY <1>8, <2>4, FS_CardinalityType
  <2>9. w.used >= PT_PAGES /\ PT_PAGES \in Nat
    BY <1>8, <1>12, TranslateAssumption DEF TranslateAssumption
  <2>10. 1 + Cardinality(P) > PT_PAGES
    BY <1>8, <2>6, <2>7, <2>8, <2>9
  <2>11. 1 + Cardinality(Prefixes(Mapped' \cup {call'.next})) > PT_PAGES
    BY <2>1, <2>2, <2>10 DEF P
  <2> QED
    BY <1>6, <1>8, <2>1, <2>11 DEF PoolInv
<1> QED
  BY <1>11, <1>12

\* Every step keeps the count.
LEMMA NextPool == IInv /\ PoolInv /\ [Next]_vars => PoolInv'
<1> SUFFICES ASSUME IInv, PoolInv, [Next]_vars PROVE PoolInv'
  OBVIOUS
<1>1. CASE MapPage
  BY <1>1, MapPagePool
<1>2. CASE ~MapPage
  <2>1. /\ pt' = pt /\ used' = used /\ why' = why
        /\ why = "none" \/ call' = call
    BY <1>2 DEF Next, Map, Stay, vars
  <2>2. Mapped' = Mapped
    BY <2>1, FoundIs DEF Mapped
  <2> QED
    BY <2>1, <2>2 DEF PoolInv
<1> QED
  BY <1>1, <1>2

\* For tables of any size, a pool of any size and any calls, the pool is spent on
\* the pages that are mapped and on nothing else, and the boot halts for want of
\* tables only when those of the next page do not fit (mmu.c:43-52).
THEOREM PoolIsExact == Spec => []PoolExact
<1>1. PoolInv => PoolExact
  <2>1. SUFFICES ASSUME PoolInv PROVE PoolExact
    OBVIOUS
  <2>2. why = "none" => used = 1 + Cardinality(Prefixes(Mapped))
    BY <2>1 DEF PoolInv
  <2>3. why = "pool" => 1 + Cardinality(Prefixes(Mapped \cup {call.next})) > PT_PAGES
    BY <2>1 DEF PoolInv
  <2> QED
    BY <2>2, <2>3 DEF PoolExact
<1> QED
  BY <1>1, Invariant, InitPool, NextPool, PTL DEF Spec
=============================================================================
