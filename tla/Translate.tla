------------------------------ MODULE Translate ------------------------------
(***************************************************************************)
(* The translation tables of silicon/aarch64/translate/mmu.c: a pool of     *)
(* tables handed out in order and never given back, four levels of which    *)
(* the last holds leaves. nxu_mmu_map is called by S6 and by the rooms; a   *)
(* page of its range is a step, since a call may halt between two of them.  *)
(***************************************************************************)
EXTENDS Naturals, FiniteSets

CONSTANTS
  FAN,        \* entries of a table, 512
  PT_PAGES,   \* NXU_PT_PAGES, tables of the pool
  Perm,       \* attributes of a leaf, NXU_MAP_*
  MaxCalls,   \* bound on the calls of nxu_mmu_map
  MaxPages    \* bound on the pages of a call

VARIABLES
  pt,         \* nxu_pt, table -> entry -> what it holds
  used,       \* nxu_pt_used
  call,       \* the range being mapped: next page, end, attribute
  made,       \* calls of nxu_mmu_map so far
  why         \* what halted the boot, "none" while it runs

vars == <<pt, used, call, made, why>>

ASSUME TranslateAssumption ==
  /\ FAN \in Nat \ {0} /\ PT_PAGES \in Nat \ {0} /\ Perm # {}
  /\ MaxCalls \in Nat /\ MaxPages \in Nat

Page  == 0 .. FAN * FAN * FAN * FAN - 1
Slot  == 0 .. FAN - 1
Table == 0 .. PT_PAGES - 1

Invalid       == [kind |-> "invalid"]
Link(t)       == [kind |-> "table", to |-> t]
Leaf(p, perm) == [kind |-> "page", page |-> p, perm |-> perm]
Entry == {Invalid} \cup {Link(t) : t \in Table}
           \cup {Leaf(p, perm) : p \in Page, perm \in Perm}

\* The number of a page without the slots of the levels below.
Above(p, level) ==
  CASE level = 3 -> p
    [] level = 2 -> p \div FAN
    [] level = 1 -> (p \div FAN) \div FAN
    [] level = 0 -> ((p \div FAN) \div FAN) \div FAN

\* Mutant: the shift of one level used for another.
IndexSwapped(p, level) == Above(p, IF level = 2 THEN 3 ELSE level) % FAN

\* l0 .. l3: the slot of a page in the table of a level.
Index(p, level) == Above(p, level) % FAN

\* Mutants: the pool is taken to hold one table more; its last is never taken.
PoolSpentLate(u)  == u > PT_PAGES
PoolSpentEarly(u) == u + 1 >= PT_PAGES

\* pt_alloc's check of a pool of which u tables are taken.
PoolSpent(u) == u >= PT_PAGES

\* How far map_page has got: the tables, those in use, the one it is at, and
\* what it met.
Walking(tables, n, at, stuck) == [pt |-> tables, used |-> n, at |-> at, stuck |-> stuck]

\* Link a table that pt_alloc hands out.
Grow(walk, slot) ==
  IF PoolSpent(walk.used) THEN Walking(walk.pt, walk.used, walk.at, "pool")
  ELSE Walking([walk.pt EXCEPT ![walk.at][slot] = Link(walk.used)],
               walk.used + 1, walk.used, "none")

\* Mutant: a table is taken whether the entry is valid or not.
DownFresh(walk, slot) == IF walk.stuck # "none" THEN walk ELSE Grow(walk, slot)

\* One level of map_page: follow the entry, after linking a table when there is
\* none. pt_index knows the tables in use.
Down(walk, slot) ==
  LET e == walk.pt[walk.at][slot] IN
  IF walk.stuck # "none" THEN walk
  ELSE IF e.kind = "invalid" THEN Grow(walk, slot)
  ELSE IF e.to < walk.used THEN Walking(walk.pt, walk.used, e.to, "none")
  ELSE Walking(walk.pt, walk.used, walk.at, "index")

Walk(p) ==
  Down(Down(Down(Walking(pt, used, 0, "none"),
                 Index(p, 0)), Index(p, 1)), Index(p, 2))

-----------------------------------------------------------------------------
Idle == [next |-> 0, end |-> 0, perm |-> CHOOSE perm \in Perm : TRUE]
Busy == call.next < call.end

Map(first, n, perm) ==
  /\ why = "none" /\ ~Busy /\ made < MaxCalls
  /\ first + n - 1 \in Page
  /\ call' = [next |-> first, end |-> first + n, perm |-> perm]
  /\ made' = made + 1
  /\ UNCHANGED <<pt, used, why>>

\* map_page on the next page of the range. A walk that halts leaves the tables
\* it has linked.
MapPage ==
  /\ why = "none" /\ Busy
  /\ LET w == Walk(call.next)
         p == call.next
     IN /\ used' = w.used /\ why' = w.stuck
        /\ \/ /\ w.stuck = "none"
              /\ pt' = [w.pt EXCEPT ![w.at][Index(p, 3)] = Leaf(p, call.perm)]
              /\ call' = IF p + 1 = call.end THEN Idle ELSE [call EXCEPT !.next = p + 1]
           \/ w.stuck # "none" /\ pt' = w.pt /\ UNCHANGED call
        /\ UNCHANGED made

Stay == (why # "none" \/ (made = MaxCalls /\ ~Busy)) /\ UNCHANGED vars

\* nxu_mmu_init_pool takes table 0 as the root of an empty pool.
Init ==
  /\ pt = [t \in Table |-> [s \in Slot |-> Invalid]]
  /\ used = 1 /\ call = Idle /\ made = 0 /\ why = "none"

Next ==
  \/ \E first \in Page, n \in 1 .. MaxPages, perm \in Perm : Map(first, n, perm)
  \/ MapPage
  \/ Stay

Spec == Init /\ [][Next]_vars

-----------------------------------------------------------------------------
(* Properties *)

TypeOK ==
  /\ pt \in [Table -> [Slot -> Entry]]
  /\ used \in 1 .. PT_PAGES
  /\ call \in [next : Nat, end : Nat, perm : Perm]
  /\ made \in 0 .. MaxCalls
  /\ why \in {"none", "pool", "index"}

\* nxu_mmu_leaf: what a walk of the tables finds for a page.
Follow(e, slot) == IF e.kind = "table" THEN pt[e.to][slot] ELSE Invalid
Found(p) ==
  Follow(Follow(Follow(pt[0][Index(p, 0)], Index(p, 1)), Index(p, 2)), Index(p, 3))

\* Tables in use form a tree of which each is linked once, from a table handed
\* out before it, and pt_index never meets an address outside the pool
\* (mmu.c:43-65, 129-156): two ranges never share a table by accident.
TreeShape ==
  /\ why # "index"
  /\ \A t \in 1 .. used - 1 :
       Cardinality({at \in Table \X Slot : pt[at[1]][at[2]] = Link(t)}) = 1
  /\ \A u \in Table, s \in Slot : pt[u][s].kind = "table" =>
       u < pt[u][s].to /\ pt[u][s].to < used

\* The pool is spent on the pages that are mapped and on nothing else: a table
\* for each distinct beginning of their addresses, and the boot halts for want
\* of tables only when those of the next page do not fit (mmu.c:43-52).
Prefixes(S) == UNION {{<<k, Above(p, k - 1)>> : k \in 1 .. 3} : p \in S}
Mapped == {p \in Page : Found(p).kind = "page"}
PoolExact ==
  /\ why = "none" => used = 1 + Cardinality(Prefixes(Mapped))
  /\ why = "pool" => 1 + Cardinality(Prefixes(Mapped \cup {call.next})) > PT_PAGES

\* The tables implement the flat map of PageMap.tla: a call gives its pages
\* their attribute one after the other and changes no other page, and a page
\* that is found is the page itself, the map is the identity
\* (mmu.c:117-159, 201-213).
Meant(p) == IF Found(p).page = p THEN Found(p).perm ELSE "another page"
Flat == INSTANCE PageMap WITH
  None <- "none",
  map  <- [p \in Page |-> IF Found(p).kind = "page" THEN Meant(p) ELSE "none"],
  live <- (why = "none")
FlatSpec == Flat!Spec
==============================================================================
