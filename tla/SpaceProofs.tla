----------------------------- MODULE SpaceProofs -----------------------------
(***************************************************************************)
(* Space.tla for words, pages and owner tables of any size and any boards:  *)
(* what the owner table holds never wraps, a page is mapped for an owner it  *)
(* belongs to, and a board that is as it should be is never refused.        *)
(***************************************************************************)
EXTENDS Space, SequenceTheorems, TLAPS

-----------------------------------------------------------------------------
(* What the wrapping range operators of Range mean                           *)

\* Membership of the bytes of a range that ends below the last address is
\* two comparisons (range.h:18-26).
LEMMA InBytes ==
  ASSUME NEW b \in Word, NEW s \in Word, b + s < WORD, NEW x
  PROVE  x \in Bytes(b, s) <=> x \in Int /\ b <= x /\ x < b + s
<1>1. b \in Int /\ s \in Int /\ b >= 0 /\ WORD \in Int
  BY RangeAssumption DEF Word, RangeAssumption
<1>2. x \in Word <=> x \in Int /\ 0 <= x /\ x <= WORD - 1
  BY <1>1 DEF Word
<1>3. ASSUME x \in Int, b <= x, x < b + s
      PROVE  0 <= x /\ x <= WORD - 1
  BY <1>1, <1>3
<1> QED
  BY <1>1, <1>2, <1>3 DEF Bytes

\* A range that is accepted ends below the last address: one that wraps is
\* refused, and so is one that ends exactly at 2^64 (range.h:18-26).
LEMMA OkMeansEnds ==
  ASSUME NEW b \in Word, NEW s \in Word
  PROVE  RangeOk(b, s) <=> s > 0 /\ b + s < WORD
  BY RangeAssumption DEF RangeOk, Plus, Word, RangeAssumption

\* The sum of an accepted range does not wrap.
LEMMA OkMeansSum ==
  ASSUME NEW b \in Word, NEW s \in Word, RangeOk(b, s)
  PROVE  Plus(b, s) = b + s
  BY OkMeansEnds DEF Plus

\* The comparison of ends in nxu_range_contains is containment of bytes, for
\* every two accepted ranges (range.h:28-41).
THEOREM ContainsIsSubset ==
  ASSUME NEW ob \in Word, NEW on \in Word, NEW ib \in Word, NEW inn \in Word,
         RangeOk(ob, on), RangeOk(ib, inn)
  PROVE  RangeContains(ob, on, ib, inn) <=> Bytes(ib, inn) \subseteq Bytes(ob, on)
<1>1. ob + on < WORD /\ ib + inn < WORD /\ on > 0 /\ inn > 0
  BY OkMeansEnds
<1>2. RangeContains(ob, on, ib, inn) <=> ib >= ob /\ ib + inn <= ob + on
  BY OkMeansSum DEF RangeContains
<1>3. ob \in Int /\ on \in Int /\ ib \in Int /\ inn \in Int
  BY RangeAssumption DEF Word, RangeAssumption
<1>4. /\ \A x : x \in Bytes(ob, on) <=> x \in Int /\ ob <= x /\ x < ob + on
      /\ \A x : x \in Bytes(ib, inn) <=> x \in Int /\ ib <= x /\ x < ib + inn
  BY <1>1, InBytes
<1>5. ASSUME ib >= ob, ib + inn <= ob + on
      PROVE  Bytes(ib, inn) \subseteq Bytes(ob, on)
  <2>1. \A x \in Int : ib <= x /\ x < ib + inn => ob <= x /\ x < ob + on
    BY <1>3, <1>5
  <2> QED
    BY <2>1, <1>4
<1>6. ASSUME Bytes(ib, inn) \subseteq Bytes(ob, on)
      PROVE  ib >= ob /\ ib + inn <= ob + on
  <2> DEFINE last == ib + inn - 1
  <2>1. last \in Int /\ ib <= last /\ last < ib + inn /\ ib < ib + inn
    BY <1>1, <1>3
  <2>2. ib \in Bytes(ob, on) /\ last \in Bytes(ob, on)
    BY <2>1, <1>3, <1>4, <1>6
  <2>3. ob <= ib /\ last < ob + on
    BY <2>2, <1>4
  <2> QED
    BY <2>3, <1>3
<1> QED
  BY <1>2, <1>5, <1>6

\* ... and nxu_range_overlap tells whether they share a byte (range.h:43-53).
THEOREM OverlapIsCommonByte ==
  ASSUME NEW a \in Word, NEW an \in Word, NEW b \in Word, NEW bn \in Word,
         RangeOk(a, an), RangeOk(b, bn)
  PROVE  RangeOverlap(a, an, b, bn) <=> Bytes(a, an) \cap Bytes(b, bn) # {}
<1>1. a + an < WORD /\ b + bn < WORD /\ an > 0 /\ bn > 0
  BY OkMeansEnds
<1>2. RangeOverlap(a, an, b, bn) <=> a + an > b /\ b + bn > a
  BY OkMeansSum DEF RangeOverlap
<1>3. a \in Int /\ an \in Int /\ b \in Int /\ bn \in Int
  BY RangeAssumption DEF Word, RangeAssumption
<1>4. /\ \A x : x \in Bytes(a, an) <=> x \in Int /\ a <= x /\ x < a + an
      /\ \A x : x \in Bytes(b, bn) <=> x \in Int /\ b <= x /\ x < b + bn
  BY <1>1, InBytes
<1>5. ASSUME a + an > b, b + bn > a
      PROVE  Bytes(a, an) \cap Bytes(b, bn) # {}
  <2>1. CASE a <= b
    <3>1. b < a + an /\ b <= b /\ b < b + bn
      BY <1>1, <1>3, <1>5
    <3>2. b \in Bytes(a, an) /\ b \in Bytes(b, bn)
      BY <3>1, <2>1, <1>3, <1>4
    <3> QED
      BY <3>2
  <2>2. CASE b < a
    <3>1. b <= a /\ a < b + bn /\ a <= a /\ a < a + an
      BY <2>2, <1>1, <1>3, <1>5
    <3>2. a \in Bytes(a, an) /\ a \in Bytes(b, bn)
      BY <3>1, <1>3, <1>4
    <3> QED
      BY <3>2
  <2>3. a <= b \/ b < a
    BY <1>3
  <2> QED
    BY <2>1, <2>2, <2>3
<1>6. ASSUME NEW x \in Bytes(a, an), x \in Bytes(b, bn)
      PROVE  a + an > b /\ b + bn > a
  <2>1. x \in Int /\ a <= x /\ x < a + an /\ b <= x /\ x < b + bn
    BY <1>4, <1>6
  <2> QED
    BY <2>1, <1>3
<1> QED
  BY <1>2, <1>5, <1>6

-----------------------------------------------------------------------------
(* Pages                                                                    *)

Aligned(n) == n \in Nat /\ n % PAGE = 0

\* An aligned number is a number of pages.
LEMMA Multiple ==
  ASSUME NEW n \in Nat
  PROVE  /\ n \div PAGE \in Nat /\ n % PAGE \in 0 .. PAGE - 1
         /\ n = PAGE * (n \div PAGE) + (n % PAGE)
         /\ n % PAGE = 0 <=> \E k \in Nat : n = PAGE * k
<1>1. PAGE \in Nat \ {0}
  BY RangeAssumption DEF RangeAssumption
<1>2. /\ n \div PAGE \in Nat /\ n % PAGE \in 0 .. PAGE - 1
      /\ n = PAGE * (n \div PAGE) + (n % PAGE)
  BY <1>1
<1>3. n % PAGE = 0 => n = PAGE * (n \div PAGE)
  BY <1>1, <1>2
<1>4. ASSUME NEW k \in Nat, n = PAGE * k PROVE n % PAGE = 0
  <2> DEFINE q == n \div PAGE
             r == n % PAGE
  <2>1. q \in Nat /\ r \in 0 .. PAGE - 1 /\ PAGE * k = PAGE * q + r
    BY <1>2, <1>4
  <2> HIDE DEF q, r
  <2>2. PAGE * (q + 1) = PAGE * q + PAGE /\ PAGE * q \in Nat /\ PAGE * k \in Nat
    BY <1>1, <2>1
  <2>3. k < q + 1
    <3>1. SUFFICES ASSUME k >= q + 1 PROVE FALSE
      BY <2>1
    <3>2. PAGE * k >= PAGE * (q + 1)
      BY <1>1, <2>1, <3>1
    <3> QED
      BY <1>1, <2>1, <2>2, <3>2
  <2>4. PAGE * k <= PAGE * q
    <3>1. k <= q
      BY <2>1, <2>3
    <3> QED
      BY <1>1, <2>1, <3>1
  <2>5. r = 0
    BY <1>1, <2>1, <2>2, <2>4
  <2> QED
    BY <2>5 DEF r
<1> QED
  BY <1>2, <1>3, <1>4

\* Two aligned numbers are a page apart, and so are their sum and difference
\* from the next.
LEMMA Steps ==
  ASSUME NEW a, NEW c, Aligned(a), Aligned(c)
  PROVE  /\ a < c => a + PAGE <= c
         /\ Aligned(a + c) /\ (a <= c => Aligned(c - a))
         /\ Aligned(PAGE)
<1>1. PAGE \in Nat \ {0} /\ a \in Nat /\ c \in Nat
  BY RangeAssumption DEF RangeAssumption, Aligned
<1>2. PICK j \in Nat : a = PAGE * j
  BY <1>1, Multiple DEF Aligned
<1>3. PICK k \in Nat : c = PAGE * k
  BY <1>1, Multiple DEF Aligned
<1>4. \A m \in Nat : Aligned(PAGE * m)
  BY <1>1, Multiple DEF Aligned
<1>5. a + c = PAGE * (j + k)
  BY <1>1, <1>2, <1>3
<1>6. ASSUME a < c PROVE a + PAGE <= c
  <2>1. j < k
    <3>1. SUFFICES ASSUME j >= k PROVE FALSE
      OBVIOUS
    <3>2. PAGE * j >= PAGE * k
      BY <1>1, <3>1
    <3> QED
      BY <1>1, <1>2, <1>3, <1>6, <3>2
  <2>2. j + 1 <= k
    BY <2>1
  <2>3. PAGE * (j + 1) <= PAGE * k
    BY <1>1, <2>2
  <2>4. PAGE * (j + 1) = PAGE * j + PAGE
    BY <1>1
  <2> QED
    BY <1>1, <1>2, <1>3, <2>3, <2>4
<1>7. ASSUME a <= c PROVE Aligned(c - a)
  <2>1. j <= k
    <3>1. SUFFICES ASSUME j > k PROVE FALSE
      OBVIOUS
    <3>2. j >= k + 1
      BY <3>1
    <3>3. PAGE * j >= PAGE * (k + 1)
      BY <1>1, <3>2
    <3>4. PAGE * (k + 1) = PAGE * k + PAGE
      BY <1>1
    <3> QED
      BY <1>1, <1>2, <1>3, <1>7, <3>3, <3>4
  <2>2. k - j \in Nat /\ PAGE * (k - j) = PAGE * k - PAGE * j
    BY <1>1, <2>1
  <2> QED
    BY <1>2, <1>3, <1>4, <2>2
<1>8. PAGE = PAGE * 1
  BY <1>1
<1> QED
  BY <1>4, <1>5, <1>6, <1>7, <1>8

\* page_down: the page an address lies in.
LEMMA DownIs ==
  ASSUME NEW n \in Nat
  PROVE  Aligned(PageDown(n)) /\ PageDown(n) <= n /\ n < PageDown(n) + PAGE
<1>1. /\ PAGE \in Nat \ {0} /\ n \div PAGE \in Nat /\ n % PAGE \in 0 .. PAGE - 1
      /\ n = PAGE * (n \div PAGE) + (n % PAGE)
  BY Multiple, RangeAssumption DEF RangeAssumption
<1>2. PAGE * (n \div PAGE) \in Nat
  BY <1>1
<1>3. PageDown(n) = PAGE * (n \div PAGE)
  BY <1>1, <1>2 DEF PageDown
<1>4. Aligned(PAGE * (n \div PAGE))
  BY <1>1, <1>2, Multiple DEF Aligned
<1> QED
  BY <1>1, <1>2, <1>3, <1>4

\* page_up of a word that an aligned word is not below: no sum wraps.
LEMMA UpIs ==
  ASSUME NEW n \in Word, NEW e \in Word, Aligned(e), n <= e
  PROVE  /\ Aligned(PageUp(n)) /\ n <= PageUp(n) /\ PageUp(n) < n + PAGE /\ PageUp(n) <= e
         /\ (Aligned(n) => PageUp(n) = n) /\ (n > 0 => PageUp(n) >= PAGE)
<1>1. /\ PAGE \in Nat \ {0} /\ WORD \in Nat /\ n \in Nat /\ e \in Nat /\ e < WORD
      /\ Aligned(WORD)
  BY RangeAssumption DEF RangeAssumption, Word, Aligned
<1>2. e + PAGE <= WORD
  BY <1>1, Steps
<1>3. n + (PAGE - 1) < WORD /\ n + (PAGE - 1) \in Nat
  BY <1>1, <1>2
<1>4. PageUp(n) = PageDown(n + (PAGE - 1))
  BY <1>3 DEF PageUp, Plus
<1>5. /\ Aligned(PageUp(n)) /\ PageUp(n) <= n + (PAGE - 1)
      /\ n + (PAGE - 1) < PageUp(n) + PAGE
  BY <1>3, <1>4, DownIs
<1>6. PageUp(n) \in Nat
  BY <1>5 DEF Aligned
<1>7. n <= PageUp(n) /\ PageUp(n) < n + PAGE
  BY <1>1, <1>5, <1>6
<1>8. PageUp(n) <= e
  <2>1. SUFFICES ASSUME e < PageUp(n) PROVE FALSE
    BY <1>1, <1>6
  <2>2. e + PAGE <= PageUp(n)
    BY <1>5, <2>1, Steps
  <2> QED
    BY <1>1, <1>6, <1>7, <2>2
<1>9. Aligned(n) => PageUp(n) = n
  <2>1. SUFFICES ASSUME Aligned(n), n < PageUp(n) PROVE FALSE
    BY <1>1, <1>6, <1>7
  <2>2. n + PAGE <= PageUp(n)
    BY <1>5, <2>1, Steps
  <2> QED
    BY <1>1, <1>6, <1>7, <2>2
<1>10. n > 0 => PageUp(n) >= PAGE
  <2>1. SUFFICES ASSUME n > 0 PROVE PageUp(n) >= PAGE
    OBVIOUS
  <2>2. Aligned(0) /\ 0 < PageUp(n)
    BY <1>1, <1>6, <1>7, <2>1, Multiple DEF Aligned
  <2>3. 0 + PAGE <= PageUp(n)
    BY <1>5, <2>2, Steps
  <2> QED
    BY <1>1, <2>3
<1> QED
  BY <1>5, <1>7, <1>8, <1>9, <1>10

\* page_up of any word is a word, also when it wraps.
LEMMA UpIsWord ==
  ASSUME NEW n \in Word
  PROVE  PageUp(n) \in Word
<1>1. PAGE \in Nat \ {0} /\ WORD \in Nat /\ n \in Nat /\ n < WORD /\ PAGE < WORD
  BY RangeAssumption DEF RangeAssumption, Word
<1>2. Plus(n, PAGE - 1) \in Nat /\ Plus(n, PAGE - 1) < WORD
  BY <1>1 DEF Plus
<1>3. Aligned(PageUp(n)) /\ PageUp(n) <= Plus(n, PAGE - 1)
  BY <1>2, DownIs DEF PageUp
<1> QED
  BY <1>1, <1>2, <1>3 DEF Word, Aligned

\* The pages of a range of whole pages that the walk translates.
LEMMA TouchedIn ==
  ASSUME NEW b, NEW n, Aligned(b), Aligned(n), b + n <= VA, NEW p, p \in Touched(b, n)
  PROVE  /\ Aligned(p) /\ b <= p /\ p + PAGE <= b + n
         /\ \E x \in Bytes(b, n) : p = PageDown(x)
<1>1. VA \in Nat \ {0} /\ b \in Nat /\ n \in Nat /\ PAGE \in Nat \ {0}
  BY SpaceAssumption, RangeAssumption DEF SpaceAssumption, RangeAssumption, Aligned
<1>2. PICK x \in Bytes(b, n) : p = PageDown(x) % VA
  BY DEF Touched
<1>3. x \in Nat /\ b <= x /\ x < b + n
  BY RangeAssumption DEF Bytes, Word, RangeAssumption
<1>4. Aligned(PageDown(x)) /\ PageDown(x) <= x /\ x < PageDown(x) + PAGE /\ PageDown(x) \in Nat
  BY <1>3, DownIs DEF Aligned
<1>5. PageDown(x) < VA
  BY <1>1, <1>3, <1>4
<1>6. \A y \in Nat : y < VA => y % VA = y
  BY <1>1
<1>7. p = PageDown(x)
  BY <1>2, <1>4, <1>5, <1>6
<1>8. Aligned(b + n) /\ PageDown(x) < b + n
  <2>1. Aligned(b + n)
    BY Steps
  <2> QED
    BY <1>1, <1>3, <1>4, <2>1
<1>9. PageDown(x) + PAGE <= b + n
  BY <1>4, <1>8, Steps
<1>10. b <= PageDown(x)
  <2>1. SUFFICES ASSUME PageDown(x) < b PROVE FALSE
    BY <1>1, <1>4
  <2>2. PageDown(x) + PAGE <= b
    BY <1>4, <2>1, Steps
  <2> QED
    BY <1>1, <1>3, <1>4, <2>2
<1> QED
  BY <1>2, <1>4, <1>7, <1>9, <1>10

-----------------------------------------------------------------------------
(* The claims of S5                                                         *)

\* Where a board puts its ranges: the text and the constants end inside the
\* image, and RAM and the devices, in whole pages, lie below the addresses that
\* the walk translates.
Devices(f) == {f.gicd, f.gicr} \cup f.uart \cup f.pwrc
Placed(f) ==
  /\ f.image.text <= f.image.base + f.image.size
  /\ f.image.ro <= f.image.base + f.image.size
  /\ f.mem[1].base + f.mem[1].size <= VA
  /\ \A r \in Devices(f) : r.base + PageUp(r.size) <= VA
Board == \A f \in Facts : Placed(f)

\* A claim that a table may hold, and one of a board whose devices are placed.
Safe  == {c \in Claim : c.size > 0 /\ c.base + c.size < WORD}
Below == {c \in Claim : c.owner = "MMIO" => c.base + c.size <= VA}

\* The two that are looked for later: the first RAM, and the image.
LEMMA ClaimsAre ==
  ASSUME NEW S, S \subseteq Claim, facts \in Facts,
         \A i \in DOMAIN facts.mem :
           [base |-> facts.mem[i].base, size |-> facts.mem[i].size, owner |-> "NXU"] \in S,
         Whole(facts.image, "IMAGE") \in S,
         \A r \in facts.dtb : Whole(r, "RESERVED") \in S,
         \A r \in Devices(facts) : Whole(r, "MMIO") \in S
  PROVE  /\ Claims \in Seq(S)
         /\ 1 \in DOMAIN Claims
         /\ Claims[1] = [base |-> facts.mem[1].base, size |-> facts.mem[1].size, owner |-> "NXU"]
         /\ Len(facts.mem) + 1 \in DOMAIN Claims
         /\ Claims[Len(facts.mem) + 1] = Whole(facts.image, "IMAGE")
<1> DEFINE mem  == [i \in DOMAIN facts.mem |->
                      [base |-> facts.mem[i].base, size |-> facts.mem[i].size, owner |-> "NXU"]]
           img  == <<Whole(facts.image, "IMAGE")>>
           dtb  == Opt(facts.dtb, "RESERVED")
           gic  == <<Whole(facts.gicd, "MMIO"), Whole(facts.gicr, "MMIO")>>
           uart == Opt(facts.uart, "MMIO")
           pwrc == Opt(facts.pwrc, "MMIO")
           n    == Len(facts.mem)
<1>1. /\ facts.mem \in Seq(Ranges) /\ n \in Nat /\ n > 0 /\ DOMAIN facts.mem = 1 .. n
  BY SpaceAssumption DEF SpaceAssumption, Accepted
<1>2. mem \in [1 .. n -> S] /\ mem \in Seq(S) /\ Len(mem) = n
  BY <1>1
<1>3. img \in Seq(S) /\ Len(img) = 1 /\ img[1] = Whole(facts.image, "IMAGE")
  OBVIOUS
<1>4. facts.gicd \in Devices(facts) /\ facts.gicr \in Devices(facts)
  BY DEF Devices
<1>5. gic \in Seq(S)
  BY <1>4
<1>6. dtb \in Seq(S)
  BY DEF Opt
<1>7. uart \in Seq(S) /\ pwrc \in Seq(S)
  BY DEF Opt, Devices
<1>8. Claims = ((((mem \o img) \o dtb) \o gic) \o uart) \o pwrc
  BY DEF Claims
<1>9. mem[1] = [base |-> facts.mem[1].base, size |-> facts.mem[1].size, owner |-> "NXU"]
  BY <1>1
<1> HIDE DEF mem, img, dtb, gic, uart, pwrc, n
<1>10. \A s, t \in Seq(S) : /\ s \o t \in Seq(S) /\ Len(s \o t) = Len(s) + Len(t)
                            /\ Len(s) \in Nat /\ Len(t) \in Nat
                            /\ \A i \in 1 .. Len(s) : (s \o t)[i] = s[i]
  <2>1. TAKE s, t \in Seq(S)
  <2>2. Len(s) \in Nat /\ Len(t) \in Nat
    BY LenProperties
  <2> QED
    BY <2>2, ConcatProperties
<1>11. /\ mem \o img \in Seq(S) /\ Len(mem \o img) = n + 1
       /\ (mem \o img)[1] = mem[1] /\ (mem \o img)[n + 1] = img[1]
  <2>1. /\ mem \o img \in Seq(S) /\ Len(mem \o img) = Len(mem) + Len(img)
        /\ \A i \in 1 .. Len(mem) + Len(img) :
             (mem \o img)[i] = IF i <= Len(mem) THEN mem[i] ELSE img[i - Len(mem)]
    BY <1>2, <1>3, ConcatProperties
  <2>2. /\ 1 \in 1 .. Len(mem) + Len(img) /\ n + 1 \in 1 .. Len(mem) + Len(img)
        /\ 1 <= Len(mem) /\ ~(n + 1 <= Len(mem)) /\ (n + 1) - Len(mem) = 1
    BY <1>1, <1>2, <1>3
  <2> QED
    BY <1>2, <1>3, <2>1, <2>2
<1>12. \A t \in Seq(S) : \A s \in Seq(S) :
         Len(s) > n /\ s[1] = mem[1] /\ s[n + 1] = img[1] =>
           Len(s \o t) > n /\ (s \o t)[1] = mem[1] /\ (s \o t)[n + 1] = img[1]
  BY <1>1, <1>10
<1>13. /\ (mem \o img) \o dtb \in Seq(S) /\ Len((mem \o img) \o dtb) > n
       /\ ((mem \o img) \o dtb)[1] = mem[1] /\ ((mem \o img) \o dtb)[n + 1] = img[1]
  BY <1>1, <1>6, <1>10, <1>11, <1>12
<1> DEFINE three == (mem \o img) \o dtb
<1> HIDE DEF three
<1>14. /\ three \o gic \in Seq(S) /\ Len(three \o gic) > n
       /\ (three \o gic)[1] = mem[1] /\ (three \o gic)[n + 1] = img[1]
  BY <1>5, <1>10, <1>12, <1>13 DEF three
<1> DEFINE four == three \o gic
<1> HIDE DEF four
<1>15. /\ four \o uart \in Seq(S) /\ Len(four \o uart) > n
       /\ (four \o uart)[1] = mem[1] /\ (four \o uart)[n + 1] = img[1]
  BY <1>7, <1>10, <1>12, <1>14 DEF four
<1> DEFINE five == four \o uart
<1> HIDE DEF five
<1>16. /\ five \o pwrc \in Seq(S) /\ Len(five \o pwrc) > n
       /\ (five \o pwrc)[1] = mem[1] /\ (five \o pwrc)[n + 1] = img[1]
  BY <1>7, <1>10, <1>12, <1>15 DEF five
<1>17. Claims = five \o pwrc
  BY <1>8 DEF three, four, five
<1>18. DOMAIN Claims = 1 .. Len(Claims) /\ Len(Claims) \in Nat
  BY <1>16, <1>17, LenProperties
<1>19. 1 \in DOMAIN Claims /\ n + 1 \in DOMAIN Claims
  BY <1>1, <1>16, <1>17, <1>18
<1> QED
  BY <1>3, <1>9, <1>16, <1>17, <1>19 DEF n

\* Every claim is one, and those of the devices of a board are below VA.
LEMMA ClaimsTyped ==
  ASSUME facts \in Facts
  PROVE  /\ Claims \in Seq(Claim)
         /\ Board => Claims \in Seq(Below)
<1>1. /\ \A i \in DOMAIN facts.mem : facts.mem[i] \in Ranges
      /\ facts.image.base \in Word /\ facts.image.size \in Word
      /\ facts.dtb \subseteq Ranges /\ Devices(facts) \subseteq Ranges
  BY SpaceAssumption DEF SpaceAssumption, Accepted, Optionally, Devices
<1>2. \A r \in Ranges, o \in {"NXU", "IMAGE", "RESERVED", "MMIO"} :
        /\ [base |-> r.base, size |-> r.size, owner |-> o] \in Claim
        /\ Whole(r, o) \in Claim
  BY UpIsWord DEF Ranges, Claim, Whole
<1>3. Whole(facts.image, "IMAGE") \in Claim
  BY <1>1, UpIsWord DEF Claim, Whole
<1>4. Claims \in Seq(Claim)
  BY <1>1, <1>2, <1>3, ClaimsAre
<1>5. ASSUME Board PROVE Claims \in Seq(Below)
  <2>1. \A r \in Devices(facts) : r.base + PageUp(r.size) <= VA
    BY <1>5 DEF Board, Placed
  <2>2. \A r \in Devices(facts) : Whole(r, "MMIO") \in Below
    BY <1>1, <1>2, <2>1 DEF Below, Whole
  <2>3. Below \subseteq Claim
    BY DEF Below
  <2>4. Whole(facts.image, "IMAGE") \in Below
    BY <1>3 DEF Below, Whole
  <2>5. \A i \in DOMAIN facts.mem :
          [base |-> facts.mem[i].base, size |-> facts.mem[i].size, owner |-> "NXU"] \in Below
    BY <1>1, <1>2 DEF Below
  <2>6. \A r \in facts.dtb : Whole(r, "RESERVED") \in Below
    BY <1>1, <1>2 DEF Below, Whole
  <2> QED
    BY <2>2, <2>3, <2>4, <2>5, <2>6, ClaimsAre
<1> QED
  BY <1>4, <1>5

-----------------------------------------------------------------------------
(* The types, and what the table holds                                      *)

\* Every region of the table passed nxu_range_ok.
TypeInv ==
  /\ facts \in Facts
  /\ region \in Seq(Safe)
  /\ leaf \in [Pages -> Perms]
  /\ mapped \in Nat
  /\ at \in {"own", "map", "armed", "rooms", "run", "halt"}
  /\ why \in {"none", "wrap", "table", "unaligned", "pt", "owner", "no_ram"}

\* What a call of nxu_mmu_map does: it halts and leaves the map, or gives the pages
\* of an aligned range the attribute.
LEMMA MapIs ==
  ASSUME NEW b, NEW n, NEW perm, Map(b, n, perm)
  PROVE  /\ UNCHANGED <<facts, region>>
         /\ \/ at' = "halt" /\ why' \in {"wrap", "unaligned", "pt"} /\ UNCHANGED <<leaf, mapped>>
            \/ /\ RangeOk(b, n) /\ b % PAGE = 0 /\ n % PAGE = 0
               /\ leaf' = [p \in Pages |-> IF p \in Touched(b, n) THEN perm ELSE leaf[p]]
               /\ mapped' = mapped + 1 /\ UNCHANGED <<at, why>>
  BY DEF Map, Halt

\* A call keeps the types.
LEMMA MapTyped ==
  ASSUME TypeInv, NEW b, NEW n, NEW perm \in Perms, Map(b, n, perm)
  PROVE  TypeInv'
<1>1. UNCHANGED <<facts, region>>
  BY MapIs
<1>2. leaf' \in [Pages -> Perms] /\ mapped' \in Nat
  <2>1. CASE UNCHANGED <<leaf, mapped>>
    BY <2>1 DEF TypeInv
  <2>2. CASE /\ leaf' = [p \in Pages |-> IF p \in Touched(b, n) THEN perm ELSE leaf[p]]
             /\ mapped' = mapped + 1
    BY <2>2 DEF TypeInv
  <2> QED
    BY <2>1, <2>2, MapIs
<1>3. /\ at' \in {"own", "map", "armed", "rooms", "run", "halt"}
      /\ why' \in {"none", "wrap", "table", "unaligned", "pt", "owner", "no_ram"}
  BY MapIs DEF TypeInv
<1> QED
  BY <1>1, <1>2, <1>3 DEF TypeInv

\* The regions of the table are not touched once S5 is done.
LEMMA Appended ==
  ASSUME TypeInv, AddOwner, region' # region
  PROVE  /\ Claims[Len(region) + 1] \in Safe /\ Len(region) < Len(Claims)
         /\ region' = Append(region, Claims[Len(region) + 1])
         /\ UNCHANGED <<facts, leaf, mapped, at, why>>
<1> DEFINE c == Claims[Len(region) + 1]
<1>1. /\ RangeOk(c.base, c.size) /\ region' = Append(region, c)
      /\ UNCHANGED <<facts, leaf, mapped, at, why>> /\ Len(region) < Len(Claims)
  BY DEF AddOwner, Halt
<1>2. Claims \in Seq(Claim) /\ Len(region) \in Nat
  BY ClaimsTyped, LenProperties DEF TypeInv
<1>3. c \in Claim
  BY <1>1, <1>2
<1>4. c.size > 0 /\ c.base + c.size < WORD
  BY <1>1, <1>3, OkMeansEnds DEF Claim
<1> QED
  BY <1>1, <1>3, <1>4 DEF Safe

\* Every step keeps the types.
LEMMA TypeNext == TypeInv /\ [Next]_vars => TypeInv'
<1> SUFFICES ASSUME TypeInv, [Next]_vars PROVE TypeInv'
  OBVIOUS
<1>1. /\ {"RX", "R", "RW", "DEV"} \subseteq Perms
      /\ \A r : DeviceMap(r).perm = "DEV"
  BY DEF Perms, DeviceMap
<1>2. CASE AddOwner
  <2>1. CASE region' = region
    <3>1. \/ \E reason \in {"wrap", "table"} : Halt(reason)
          \/ UNCHANGED <<facts, leaf, mapped, at, why>>
      BY <1>2 DEF AddOwner
    <3> QED
      BY <2>1, <3>1 DEF TypeInv, Halt
  <2>2. CASE region' # region
    BY <1>2, <2>2, Appended, AppendProperties DEF TypeInv
  <2> QED
    BY <2>1, <2>2
<1>3. CASE MapImage
  <2>1. CASE Map(facts.image.base, TextEnd - facts.image.base, "RX")
    BY <1>1, <2>1, MapTyped
  <2>2. ASSUME NEW from, NEW to, NEW perm \in Perms, MapPart(from, to, perm) PROVE TypeInv'
    <3>1. CASE from < to
      BY <2>2, <3>1, MapTyped DEF MapPart
    <3>2. CASE ~(from < to)
      BY <2>2, <3>2 DEF MapPart, TypeInv
    <3> QED
      BY <3>1, <3>2
  <2> QED
    BY <1>1, <1>3, <2>1, <2>2 DEF MapImage
<1>4. CASE MapDevices
  <2> DEFINE r == region[mapped - 2]
  <2>1. MapDevice(r)
    BY <1>4 DEF MapDevices
  <2>2. CASE r.owner = "MMIO"
    <3>1. Map(DeviceMap(r).base, DeviceMap(r).size, "DEV")
      BY <1>1, <2>1, <2>2 DEF MapDevice
    <3> QED
      BY <1>1, <3>1, MapTyped
  <2>3. CASE r.owner # "MMIO"
    BY <2>1, <2>3 DEF MapDevice, TypeInv
  <2> QED
    BY <2>2, <2>3
<1>5. CASE PrivRoom
  BY <1>1, <1>5, MapTyped DEF PrivRoom
<1>6. CASE StartMap \/ Run \/ Stay \/ UNCHANGED vars
  BY <1>6 DEF StartMap, Run, Stay, vars, TypeInv
<1>7. CASE Arm \/ TakeRooms
  BY <1>7 DEF Arm, TakeRooms, Halt, TypeInv
<1> QED
  BY <1>2, <1>3, <1>4, <1>5, <1>6, <1>7 DEF Next

\* The types hold of the empty table.
LEMMA TypeInit == Init => TypeInv
  BY EmptySeq DEF Init, TypeInv, Perms

\* For words and pages of any size and whatever is accepted, the types hold.
THEOREM TypeCorrect == Spec => []TypeOK
<1>1. TypeInv => TypeOK
  <2>1. Safe \subseteq Claim
    BY DEF Safe
  <2>2. \A s : s \in Seq(Safe) => s \in Seq(Claim)
    BY <2>1, SeqMonotonic
  <2> QED
    BY <2>2 DEF TypeInv, TypeOK
<1> QED
  BY <1>1, TypeInit, TypeNext, PTL DEF Spec

\* For words of any size and whatever is accepted, also ranges at the end of the
\* word, the owner table holds no region that wraps (ownership.c:26-37, 70-90).
THEOREM NoRegionWraps == Spec => []RegionsAreWrapSafe
<1>1. TypeInv => RegionsAreWrapSafe
  <2>1. SUFFICES ASSUME TypeInv PROVE RegionsAreWrapSafe
    OBVIOUS
  <2>2. \A i \in DOMAIN region : region[i] \in Safe
    BY <2>1, LenProperties, ElementOfSeq DEF TypeInv
  <2> QED
    BY <2>2 DEF RegionsAreWrapSafe, Safe
<1> QED
  BY <1>1, TypeInit, TypeNext, PTL DEF Spec

-----------------------------------------------------------------------------
(* The owners of the pages                                                  *)

\* S5 records the claims in order, and leaves nothing mapped; S6 begins with an
\* image that begins at a page, or halts; the rooms' pages are in the first RAM.
OwnInv ==
  /\ TypeInv
  /\ region \in Seq(Below)
  /\ Len(region) <= Len(Claims) /\ \A k \in DOMAIN region : region[k] = Claims[k]
  /\ at = "own" => leaf = [p \in Pages |-> "none"] /\ mapped = 0
  /\ at \notin {"own", "halt"} => Len(region) = Len(Claims)
  /\ (at = "map" /\ mapped > 0) \/ at \in {"armed", "rooms", "run"} =>
       facts.image.base % PAGE = 0
  /\ at = "rooms" =>
       RangeContains(facts.mem[1].base, facts.mem[1].size, RoomBase, 4 * PAGE)
  /\ MappedIsOwned

\* The bytes of a region are owned by its owner.
LEMMA Owned ==
  ASSUME TypeInv, NEW i \in DOMAIN region
  PROVE  /\ region[i] \in Safe
         /\ Bytes(region[i].base, region[i].size) \subseteq OwnedBy({region[i].owner})
<1>1. region[i] \in Safe
  BY LenProperties, ElementOfSeq DEF TypeInv
<1>2. i \in {k \in DOMAIN region : region[k].owner \in {region[i].owner}}
  OBVIOUS
<1> QED
  BY <1>1, <1>2 DEF OwnedBy

\* The image and the first RAM are in the table.
LEMMA ImageAndRam ==
  ASSUME OwnInv, at \notin {"own", "halt"}
  PROVE  /\ Bytes(facts.image.base, PageUp(facts.image.size)) \subseteq OwnedBy({"IMAGE"})
         /\ Bytes(facts.mem[1].base, facts.mem[1].size) \subseteq OwnedBy({"NXU"})
<1>1. /\ facts \in Facts /\ region \in Seq(Safe) /\ Len(region) = Len(Claims)
      /\ \A k \in DOMAIN region : region[k] = Claims[k]
  BY DEF OwnInv, TypeInv
<1>2. Claims \in Seq(Claim)
  BY <1>1, ClaimsTyped
<1>3. DOMAIN region = DOMAIN Claims
  BY <1>1, <1>2, LenProperties
<1>4. /\ 1 \in DOMAIN Claims
      /\ Claims[1] = [base |-> facts.mem[1].base, size |-> facts.mem[1].size, owner |-> "NXU"]
      /\ Len(facts.mem) + 1 \in DOMAIN Claims
      /\ Claims[Len(facts.mem) + 1] = Whole(facts.image, "IMAGE")
  <2>1. /\ \A i \in DOMAIN facts.mem : facts.mem[i] \in Ranges
        /\ facts.image.base \in Word /\ facts.image.size \in Word
        /\ facts.dtb \subseteq Ranges /\ Devices(facts) \subseteq Ranges
    BY <1>1, SpaceAssumption DEF SpaceAssumption, Accepted, Optionally, Devices
  <2>2. \A r \in Ranges, o \in {"NXU", "IMAGE", "RESERVED", "MMIO"} :
          /\ [base |-> r.base, size |-> r.size, owner |-> o] \in Claim
          /\ Whole(r, o) \in Claim
    BY UpIsWord DEF Ranges, Claim, Whole
  <2>3. Whole(facts.image, "IMAGE") \in Claim
    BY <2>1, UpIsWord DEF Claim, Whole
  <2> QED
    BY <1>1, <2>1, <2>2, <2>3, ClaimsAre
<1>5. /\ region[1] = [base |-> facts.mem[1].base, size |-> facts.mem[1].size, owner |-> "NXU"]
      /\ region[Len(facts.mem) + 1] = Whole(facts.image, "IMAGE")
  BY <1>1, <1>3, <1>4
<1>6. TypeInv
  BY DEF OwnInv
<1>7. Bytes(facts.mem[1].base, facts.mem[1].size) \subseteq OwnedBy({"NXU"})
  <2>1. 1 \in DOMAIN region
    BY <1>3, <1>4
  <2>2. Bytes(region[1].base, region[1].size) \subseteq OwnedBy({region[1].owner})
    BY <1>6, <2>1, Owned
  <2>3. /\ region[1].base = facts.mem[1].base /\ region[1].size = facts.mem[1].size
        /\ region[1].owner = "NXU"
    BY <1>5
  <2> QED
    BY <2>2, <2>3
<1>8. Bytes(facts.image.base, PageUp(facts.image.size)) \subseteq OwnedBy({"IMAGE"})
  <2> DEFINE i == Len(facts.mem) + 1
  <2>1. i \in DOMAIN region
    BY <1>3, <1>4
  <2>2. Bytes(region[i].base, region[i].size) \subseteq OwnedBy({region[i].owner})
    BY <1>6, <2>1, Owned
  <2>3. /\ region[i].base = facts.image.base /\ region[i].size = PageUp(facts.image.size)
        /\ region[i].owner = "IMAGE"
    BY <1>5 DEF Whole
  <2> QED
    BY <2>2, <2>3
<1> QED
  BY <1>7, <1>8

\* The first RAM of a board.
LEMMA FirstRam ==
  ASSUME facts \in Facts
  PROVE  /\ facts.mem[1].base \in Word /\ facts.mem[1].size \in Word
         /\ Board => facts.mem[1].base + facts.mem[1].size <= VA
<1>1. facts.mem \in Seq(Ranges) /\ Len(facts.mem) > 0
  BY SpaceAssumption DEF SpaceAssumption, Accepted
<1>2. 1 \in 1 .. Len(facts.mem)
  BY <1>1, LenProperties
<1>3. facts.mem[1] \in Ranges
  BY <1>1, <1>2, ElementOfSeq
<1> QED
  BY <1>3 DEF Ranges, Board, Placed

\* The ends of the parts of an image that begins at a page.
LEMMA ImageEnds ==
  ASSUME Board, facts \in Facts, facts.image.base % PAGE = 0
  PROVE  /\ Aligned(facts.image.base) /\ Aligned(TextEnd) /\ Aligned(RoEnd) /\ Aligned(ImageEnd)
         /\ facts.image.base < TextEnd /\ TextEnd <= RoEnd /\ RoEnd <= ImageEnd
         /\ ImageEnd = facts.image.base + PageUp(facts.image.size) /\ ImageEnd <= VA
         /\ facts.image.base + facts.image.size <= ImageEnd
<1> DEFINE base == facts.image.base
           size == facts.image.size
           text == facts.image.text
           ro   == facts.image.ro
<1>1. /\ base \in Word /\ size \in Word /\ text \in Word /\ ro \in Word
      /\ facts.mem[1].base \in Word /\ facts.mem[1].size \in Word
      /\ RangeContains(facts.mem[1].base, facts.mem[1].size, base, size)
  BY FirstRam, SpaceAssumption DEF SpaceAssumption, Accepted
<1>2. /\ text <= base + size /\ ro <= base + size
      /\ facts.mem[1].base + facts.mem[1].size <= VA
  BY DEF Board, Placed
<1>3. size > 0 /\ base + size < WORD /\ Plus(base, size) = base + size
  BY <1>1, OkMeansEnds, OkMeansSum DEF RangeContains
<1>4. base + size <= VA
  <2> DEFINE ram == facts.mem[1].base
             of  == facts.mem[1].size
  <2>1. RangeOk(ram, of) /\ Plus(base, size) <= Plus(ram, of)
    BY <1>1 DEF RangeContains
  <2>2. Plus(ram, of) = ram + of
    BY <1>1, <2>1, OkMeansSum
  <2>3. ram \in Nat /\ of \in Nat /\ base \in Nat /\ size \in Nat /\ VA \in Nat
    BY <1>1, SpaceAssumption, RangeAssumption DEF Word, SpaceAssumption, RangeAssumption
  <2> HIDE DEF ram, of, base, size
  <2>4. base + size <= ram + of /\ ram + of <= VA
    BY <1>2, <1>3, <2>1, <2>2 DEF ram, of, base, size
  <2> QED
    BY <2>3, <2>4
<1> HIDE DEF base, size, text, ro
<1>5. /\ WORD \in Nat /\ PAGE \in Nat \ {0} /\ VA \in Nat /\ VA < WORD /\ Aligned(VA) /\ VA \in Word
      /\ \A x \in Word : x \in Nat /\ x < WORD
  BY SpaceAssumption, RangeAssumption DEF SpaceAssumption, RangeAssumption, Word, Aligned
<1>6. Aligned(base) /\ base \in Nat /\ size \in Nat
  BY <1>1, <1>5 DEF Aligned, base
<1>7. base + size \in Word
  BY <1>3, <1>5, <1>6 DEF Word
<1> DEFINE end == PageUp(base + size)
<1>8. Aligned(end) /\ base + size <= end /\ end <= VA
  BY <1>4, <1>5, <1>7, UpIs
<1> HIDE DEF end
<1>9. end \in Nat /\ base < end /\ base + PAGE <= end /\ end \in Word
  <2>1. end \in Nat /\ base < end
    BY <1>3, <1>6, <1>8 DEF Aligned
  <2>2. base + PAGE <= end
    BY <1>6, <1>8, <2>1, Steps
  <2> QED
    BY <1>5, <1>8, <2>1, <2>2 DEF Word
<1>10. end = base + PageUp(size)
  <2>1. Aligned(VA - base) /\ VA - base \in Word
    <3>1. base <= VA
      BY <1>5, <1>6, <1>8, <1>9
    <3>2. Aligned(VA - base)
      BY <1>5, <1>6, <3>1, Steps
    <3> QED
      BY <1>5, <1>6, <3>1, <3>2 DEF Word
  <2>2. size <= VA - base
    BY <1>4, <1>5, <1>6
  <2>3. /\ Aligned(PageUp(size)) /\ size <= PageUp(size) /\ PageUp(size) <= VA - base
        /\ PageUp(size) < size + PAGE
    BY <1>1, <2>1, <2>2, UpIs DEF size
  <2>4. PageUp(size) \in Nat
    BY <2>3 DEF Aligned
  <2>5. Aligned(base + PageUp(size))
    BY <1>6, <2>3, Steps
  <2>6. base + PageUp(size) \in Word /\ base + size <= base + PageUp(size)
    BY <1>5, <1>6, <2>3, <2>4 DEF Word
  <2>7. end <= base + PageUp(size)
    BY <1>7, <2>5, <2>6, UpIs DEF end
  <2>8. ~(end < base + PageUp(size))
    <3>1. SUFFICES ASSUME end < base + PageUp(size) PROVE FALSE
      OBVIOUS
    <3>2. end + PAGE <= base + PageUp(size)
      BY <1>8, <2>5, <3>1, Steps
    <3> QED
      BY <1>5, <1>6, <1>8, <1>9, <2>3, <2>4, <3>2
  <2> QED
    BY <1>6, <1>9, <2>4, <2>7, <2>8
<1>11. \A x \in Word :
         x <= base + size => Aligned(PageUp(x)) /\ PageUp(x) \in Nat /\ PageUp(x) <= end
  <2>1. TAKE x \in Word
  <2>2. HAVE x <= base + size
  <2>3. x <= end
    BY <1>5, <1>6, <1>8, <1>9, <2>2
  <2> QED
    BY <1>8, <1>9, <2>3, UpIs DEF Aligned
<1>12. /\ Aligned(PageUp(text)) /\ PageUp(text) \in Nat /\ PageUp(text) <= end
       /\ Aligned(PageUp(ro)) /\ PageUp(ro) \in Nat /\ PageUp(ro) <= end
  BY <1>1, <1>2, <1>11 DEF text, ro, base, size
<1>13. ImageEnd = end
  BY <1>3 DEF ImageEnd, end, base, size
<1>14. Plus(base, PAGE) = base + PAGE
  BY <1>5, <1>6, <1>8, <1>9 DEF Plus
<1>15. TextEnd = IF PageUp(text) <= base THEN base + PAGE ELSE PageUp(text)
  BY <1>14 DEF TextEnd, base, text
<1>16. Aligned(base + PAGE)
  BY <1>6, Steps
<1>17. Aligned(TextEnd) /\ TextEnd \in Nat /\ base < TextEnd /\ TextEnd <= end
  BY <1>5, <1>6, <1>9, <1>12, <1>15, <1>16
<1>18. Aligned(RoEnd) /\ TextEnd <= RoEnd /\ RoEnd <= end
  BY <1>12, <1>17 DEF RoEnd, ro
<1> QED
  BY <1>6, <1>8, <1>10, <1>13, <1>17, <1>18 DEF base, size

\* The pages of a part of the image hold bytes of the image only.
LEMMA ImageJustified ==
  ASSUME Board, OwnInv, at = "map", facts.image.base % PAGE = 0, NEW from, NEW to,
         Aligned(from), Aligned(to), facts.image.base <= from, from <= to, to <= ImageEnd,
         NEW p \in Touched(from, to - from)
  PROVE  PageBytes(p) \subseteq OwnedBy({"IMAGE"})
<1>1. /\ facts \in Facts /\ facts.image.base \in Nat
  BY ImageEnds DEF OwnInv, TypeInv, Aligned
<1>2. /\ ImageEnd \in Nat /\ ImageEnd <= facts.image.base + PageUp(facts.image.size)
      /\ ImageEnd <= VA
  BY <1>1, ImageEnds DEF Aligned
<1>3. from \in Nat /\ to \in Nat /\ VA \in Nat /\ PAGE \in Nat
  BY SpaceAssumption, RangeAssumption DEF SpaceAssumption, RangeAssumption, Aligned
<1>4. Aligned(to - from) /\ from + (to - from) = to
  BY <1>3, Steps
<1>5. from <= p /\ p + PAGE <= to /\ p \in Nat
  <2>1. from + (to - from) <= VA
    BY <1>2, <1>3, <1>4
  <2> QED
    BY <1>4, <2>1, TouchedIn DEF Aligned
<1>6. PageUp(facts.image.size) \in Nat
  <2>1. facts.image.size \in Word
    BY <1>1, SpaceAssumption DEF SpaceAssumption, Accepted
  <2> QED
    BY <2>1, UpIsWord, RangeAssumption DEF Word, RangeAssumption
<1>7. \A x \in Word : p <= x /\ x < p + PAGE =>
        facts.image.base <= x /\ x < facts.image.base + PageUp(facts.image.size)
  BY <1>1, <1>2, <1>3, <1>5, <1>6, RangeAssumption DEF Word, RangeAssumption
<1>8. PageBytes(p) \subseteq Bytes(facts.image.base, PageUp(facts.image.size))
  BY <1>7 DEF PageBytes, Bytes
<1> QED
  BY <1>8, ImageAndRam

\* The range of a device's map is one of pages, each of which holds a byte of the device.
LEMMA DevicePages ==
  ASSUME OwnInv, NEW i \in DOMAIN region, region[i].owner = "MMIO"
  PROVE  /\ Aligned(DeviceMap(region[i]).base) /\ Aligned(DeviceMap(region[i]).size)
         /\ DeviceMap(region[i]).base + DeviceMap(region[i]).size <= VA
         /\ \A p \in Touched(DeviceMap(region[i]).base, DeviceMap(region[i]).size) :
              PageBytes(p) \cap Bytes(region[i].base, region[i].size) # {}
<1> DEFINE r == region[i]
           b == PageDown(r.base)
           sum == r.size + (r.base - b)
<1>1. r \in Safe /\ r \in Below
  BY Owned, LenProperties, ElementOfSeq DEF OwnInv
<1>2. /\ r.base \in Word /\ r.size \in Word /\ r.size > 0 /\ r.base + r.size < WORD
      /\ r.base + r.size <= VA
  BY <1>1 DEF Safe, Below, Claim
<1> HIDE DEF r
<1>3. /\ WORD \in Nat /\ PAGE \in Nat \ {0} /\ VA \in Nat /\ VA < WORD /\ Aligned(VA)
      /\ r.base \in Nat /\ r.size \in Nat
  BY <1>2, SpaceAssumption, RangeAssumption
  DEF SpaceAssumption, RangeAssumption, Word, Aligned
<1>4. Aligned(b) /\ b \in Nat /\ b <= r.base /\ r.base < b + PAGE
  BY <1>3, DownIs DEF Aligned
<1> HIDE DEF b
<1>5. sum \in Nat /\ b + sum = r.base + r.size /\ sum <= VA - b /\ sum < WORD /\ sum > 0
  BY <1>2, <1>3, <1>4
<1> HIDE DEF sum
<1>6. Aligned(VA - b) /\ VA - b \in Word /\ sum \in Word
  <2>1. b <= VA
    BY <1>2, <1>3, <1>4
  <2>2. Aligned(VA - b)
    BY <1>3, <1>4, <2>1, Steps
  <2> QED
    BY <1>3, <1>4, <1>5, <2>1, <2>2 DEF Word
<1>7. Aligned(PageUp(sum)) /\ PageUp(sum) < sum + PAGE /\ PageUp(sum) <= VA - b
  BY <1>5, <1>6, UpIs
<1>8. DeviceMap(r).base = b /\ DeviceMap(r).size = PageUp(sum)
  <2>1. Plus(r.size, r.base - b) = sum
    BY <1>5 DEF Plus, sum
  <2> QED
    BY <2>1 DEF DeviceMap, b
<1>9. b + PageUp(sum) <= VA
  BY <1>3, <1>4, <1>7 DEF Aligned
<1>10. ASSUME NEW p \in Touched(b, PageUp(sum))
       PROVE  PageBytes(p) \cap Bytes(r.base, r.size) # {}
  <2>1. Aligned(p) /\ b <= p /\ p + PAGE <= b + PageUp(sum)
    BY <1>4, <1>7, <1>9, TouchedIn
  <2>2. p \in Nat /\ p < r.base + r.size /\ r.base < p + PAGE
    BY <1>3, <1>4, <1>5, <1>7, <2>1 DEF Aligned
  <2> DEFINE x == IF p >= r.base THEN p ELSE r.base
  <2>3. x \in Word /\ p <= x /\ x < p + PAGE /\ r.base <= x /\ x < r.base + r.size
    BY <1>2, <1>3, <2>2 DEF Word
  <2> HIDE DEF x
  <2>4. x \in PageBytes(p) /\ x \in Bytes(r.base, r.size)
    BY <2>3 DEF PageBytes, Bytes
  <2> QED
    BY <2>4
<1> QED
  BY <1>4, <1>7, <1>8, <1>9, <1>10 DEF r

\* A device's pages are justified.
LEMMA DeviceJustified ==
  ASSUME OwnInv, NEW i \in DOMAIN region, region[i].owner = "MMIO",
         NEW p \in Touched(DeviceMap(region[i]).base, DeviceMap(region[i]).size)
  PROVE  PageBytes(p) \cap OwnedBy({"MMIO"}) # {}
<1>1. Bytes(region[i].base, region[i].size) \subseteq OwnedBy({"MMIO"})
  BY Owned DEF OwnInv
<1> QED
  BY <1>1, DevicePages

\* The pages that the rooms take are pages of the first RAM.
LEMMA RoomJustified ==
  ASSUME Board, OwnInv, at = "rooms", NEW k \in 0 .. 3, NEW p \in Touched(RoomBase + k * PAGE, PAGE)
  PROVE  p \in RoomPages /\ PageBytes(p) \subseteq OwnedBy({"NXU"})
<1> DEFINE base == facts.mem[1].base
           size == facts.mem[1].size
           b    == RoomBase + k * PAGE
<1>1. /\ facts \in Facts /\ facts.image.base % PAGE = 0
      /\ RangeContains(base, size, RoomBase, 4 * PAGE)
  BY DEF OwnInv, TypeInv
<1>2. Aligned(RoomBase) /\ RoomBase <= VA /\ RoomBase \in Nat
  BY <1>1, ImageEnds DEF RoomBase, Aligned
<1>3. base \in Word /\ size \in Word /\ base + size <= VA
  BY <1>1, FirstRam
<1>4. /\ WORD \in Nat /\ PAGE \in Nat \ {0} /\ VA \in Nat /\ VA < WORD /\ 4 * PAGE \in Word
      /\ base \in Nat /\ size \in Nat /\ RoomBase \in Word
  BY <1>2, <1>3, SpaceAssumption, RangeAssumption DEF SpaceAssumption, RangeAssumption, Word
<1>5. base <= RoomBase /\ RoomBase + 4 * PAGE <= base + size
  BY <1>1, <1>3, <1>4, OkMeansSum DEF RangeContains
<1>6. k * PAGE \in {0, PAGE, 2 * PAGE, 3 * PAGE}
  BY <1>4
<1>7. Aligned(k * PAGE)
  <2>1. Aligned(0) /\ Aligned(PAGE) /\ Aligned(PAGE + PAGE) /\ Aligned((PAGE + PAGE) + PAGE)
    <3>1. Aligned(0)
      BY Multiple, <1>4 DEF Aligned
    <3>2. Aligned(PAGE)
      BY <1>2, Steps
    <3> QED
      BY <3>1, <3>2, Steps
  <2>2. 2 * PAGE = PAGE + PAGE /\ 3 * PAGE = (PAGE + PAGE) + PAGE
    BY <1>4
  <2> QED
    BY <1>6, <2>1, <2>2
<1>8. Aligned(b)
  BY <1>2, <1>7, Steps
<1>9. RoomBase <= b /\ b + PAGE <= RoomBase + 4 * PAGE /\ b \in Nat
  BY <1>2, <1>4, <1>6
<1> HIDE DEF b
<1>10. /\ b <= p /\ p + PAGE <= b + PAGE /\ p \in Nat
       /\ \E x \in Bytes(b, PAGE) : p = PageDown(x)
  <2>1. b + PAGE <= VA /\ p \in Touched(b, PAGE) /\ Aligned(PAGE)
    BY <1>2, <1>3, <1>4, <1>5, <1>9, Steps DEF b
  <2> QED
    BY <1>8, <2>1, TouchedIn DEF Aligned
<1>11. Bytes(b, PAGE) \subseteq Bytes(RoomBase, 4 * PAGE)
  BY <1>2, <1>4, <1>9 DEF Bytes, Word
<1>12. p \in RoomPages
  BY <1>10, <1>11 DEF RoomPages
<1>13. \A x \in Word : p <= x /\ x < p + PAGE => base <= x /\ x < base + size
  BY <1>2, <1>4, <1>5, <1>9, <1>10 DEF Word
<1>14. PageBytes(p) \subseteq Bytes(base, size)
  BY <1>13 DEF PageBytes, Bytes
<1> QED
  BY <1>12, <1>14, ImageAndRam

\* A call of nxu_mmu_map on pages that are justified leaves every page justified.
LEMMA MapOwned ==
  ASSUME OwnInv, NEW b, NEW n, NEW perm, Map(b, n, perm),
         RangeOk(b, n) /\ b % PAGE = 0 /\ n % PAGE = 0 =>
           \A p \in Pages : p \in Touched(b, n) => Justified(p, perm)
  PROVE  MappedIsOwned'
<1>1. \A p \in Pages : Justified(p, leaf[p])
  BY DEF OwnInv, MappedIsOwned
<1>2. UNCHANGED <<facts, region>>
  BY MapIs
<1>3. OwnedBy({"MMIO"})' = OwnedBy({"MMIO"}) /\ OwnedBy({"IMAGE"})' = OwnedBy({"IMAGE"})
  BY <1>2 DEF OwnedBy
<1>4. OwnedBy({"NXU"})' = OwnedBy({"NXU"}) /\ RoomPages' = RoomPages
  BY <1>2 DEF OwnedBy, RoomPages, RoomBase, ImageEnd
<1>5. \A p \in Pages : Justified(p, leaf'[p])
  BY <1>1, MapIs
<1>6. \A p \in Pages : Justified(p, leaf[p])'
  BY <1>3, <1>4, <1>5 DEF Justified
<1> QED
  BY <1>6 DEF MappedIsOwned

\* What is left of OwnInv after a call in S6 or of a room.
LEMMA MapKeeps ==
  ASSUME OwnInv, NEW b, NEW n, NEW perm \in Perms, Map(b, n, perm), at \in {"map", "rooms"},
         mapped = 0 => b = facts.image.base \/ at = "rooms",
         RangeOk(b, n) /\ b % PAGE = 0 /\ n % PAGE = 0 =>
           \A p \in Pages : p \in Touched(b, n) => Justified(p, perm)
  PROVE  OwnInv'
<1>1. TypeInv' /\ MappedIsOwned'
  BY MapTyped, MapOwned DEF OwnInv
<1>2. /\ UNCHANGED <<facts, region>>
      /\ at' = "halt" \/ (at' = at /\ b % PAGE = 0)
  BY MapIs
<1>3. Claims' = Claims /\ RoomBase' = RoomBase
  BY <1>2 DEF Claims, RoomBase, ImageEnd
<1>4. at' = "map" \/ at' = "rooms" => facts'.image.base % PAGE = 0
  BY <1>2 DEF OwnInv, TypeInv
<1> QED
  BY <1>1, <1>2, <1>3, <1>4 DEF OwnInv

\* A step that leaves facts, the table and the map alone keeps what is owned.
LEMMA SameOwned ==
  ASSUME OwnInv, UNCHANGED <<facts, region, leaf>>
  PROVE  MappedIsOwned' /\ Claims' = Claims /\ RoomBase' = RoomBase
<1>1. RoomBase' = RoomBase /\ Claims' = Claims
  BY DEF RoomBase, ImageEnd, Claims
<1>2. MappedIsOwned'
  BY <1>1 DEF OwnInv, MappedIsOwned, Justified, OwnedBy, RoomPages
<1> QED
  BY <1>1, <1>2

\* Every step of a boot of such boards keeps what S5 and S6 know.
LEMMA OwnNext == Board /\ OwnInv /\ [Next]_vars => OwnInv'
<1> SUFFICES ASSUME Board, OwnInv, [Next]_vars PROVE OwnInv'
  OBVIOUS
<1>1. TypeInv /\ TypeInv'
  BY TypeNext DEF OwnInv
<1>2. {"RX", "R", "RW", "DEV"} \subseteq Perms
  BY DEF Perms
<1>3. CASE AddOwner
  <2>1. CASE region' = region
    <3>1. \/ at' = "halt" /\ UNCHANGED <<facts, leaf, mapped>>
          \/ UNCHANGED <<facts, leaf, mapped, at, why>>
      BY <1>3 DEF AddOwner, Halt
    <3> QED
      BY <1>1, <2>1, <3>1, SameOwned DEF OwnInv
  <2>2. CASE region' # region
    <3> DEFINE c == Claims[Len(region) + 1]
    <3>1. /\ Len(region) < Len(Claims) /\ region' = Append(region, c)
          /\ UNCHANGED <<facts, leaf, mapped, at, why>> /\ at = "own"
      BY <1>1, <1>3, <2>2, Appended DEF AddOwner
    <3>2. Claims' = Claims /\ Claims \in Seq(Below) /\ facts \in Facts
      BY <1>1, <3>1, ClaimsTyped DEF TypeInv, Claims
    <3>3. Len(region) \in Nat /\ Len(Claims) \in Nat /\ region \in Seq(Below)
      BY <3>2, LenProperties DEF OwnInv
    <3>4. c \in Below
      <4>1. Len(region) + 1 \in 1 .. Len(Claims)
        BY <3>1, <3>3
      <4> QED
        BY <3>2, <4>1, ElementOfSeq
    <3> HIDE DEF c
    <3>5. /\ region' \in Seq(Below) /\ Len(region') = Len(region) + 1
          /\ \A i \in 1 .. Len(region) : region'[i] = region[i]
          /\ region'[Len(region) + 1] = c
      BY <3>1, <3>3, <3>4, AppendProperties
    <3>6. DOMAIN region = 1 .. Len(region) /\ DOMAIN region' = 1 .. (Len(region) + 1)
      BY <3>3, <3>5, LenProperties
    <3>7. \A k \in DOMAIN region' : region'[k] = Claims[k]
      <4>1. TAKE k \in DOMAIN region'
      <4>2. CASE k = Len(region) + 1
        BY <3>5, <4>2 DEF c
      <4>3. CASE k # Len(region) + 1
        <5>1. k \in DOMAIN region
          BY <3>3, <3>6, <4>3
        <5> QED
          BY <3>5, <3>6, <5>1 DEF OwnInv
      <4> QED
        BY <4>2, <4>3
    <3>8. \A p \in Pages : leaf'[p] = "none"
      BY <3>1 DEF OwnInv
    <3>9. MappedIsOwned'
      BY <3>8 DEF MappedIsOwned, Justified
    <3> QED
      BY <1>1, <3>1, <3>2, <3>3, <3>5, <3>7, <3>9 DEF OwnInv
  <2> QED
    BY <2>1, <2>2
<1>4. CASE StartMap
  <2>1. /\ UNCHANGED <<facts, region, leaf, mapped>> /\ at = "own" /\ at' = "map"
        /\ Len(region) = Len(Claims)
    BY <1>4 DEF StartMap
  <2>2. mapped' = 0
    BY <2>1 DEF OwnInv
  <2> QED
    BY <1>1, <2>1, <2>2, SameOwned DEF OwnInv
<1>5. CASE MapImage
  <2>1. at = "map" /\ facts \in Facts
    BY <1>1, <1>5 DEF MapImage, TypeInv
  <2>2. CASE mapped = 0 /\ Map(facts.image.base, TextEnd - facts.image.base, "RX")
    <3>1. ASSUME facts.image.base % PAGE = 0, NEW p \in Pages,
                 p \in Touched(facts.image.base, TextEnd - facts.image.base)
          PROVE  Justified(p, "RX")
      <4>1. /\ Aligned(facts.image.base) /\ Aligned(TextEnd) /\ Aligned(RoEnd) /\ Aligned(ImageEnd)
            /\ facts.image.base < TextEnd /\ TextEnd <= RoEnd /\ RoEnd <= ImageEnd
        BY <2>1, <3>1, ImageEnds
      <4>2. /\ facts.image.base <= facts.image.base /\ facts.image.base <= TextEnd
            /\ TextEnd <= ImageEnd
        BY <4>1 DEF Aligned
      <4>3. PageBytes(p) \subseteq OwnedBy({"IMAGE"})
        BY <2>1, <3>1, <4>1, <4>2, ImageJustified
      <4> QED
        BY <4>3 DEF Justified
    <3> QED
      BY <1>2, <2>1, <2>2, <3>1, MapKeeps
  <2>3. ASSUME NEW from, NEW to, NEW perm \in {"R", "RW"}, MapPart(from, to, perm), mapped > 0,
               <<from, to>> \in {<<TextEnd, RoEnd>>, <<RoEnd, ImageEnd>>}
        PROVE  OwnInv'
    <3>1. facts.image.base % PAGE = 0
      BY <2>1, <2>3 DEF OwnInv
    <3>2. /\ Aligned(facts.image.base) /\ Aligned(TextEnd) /\ Aligned(RoEnd) /\ Aligned(ImageEnd)
          /\ facts.image.base < TextEnd /\ TextEnd <= RoEnd /\ RoEnd <= ImageEnd
      BY <2>1, <3>1, ImageEnds
    <3>3. /\ Aligned(from) /\ Aligned(to) /\ facts.image.base <= from /\ from <= to
          /\ to <= ImageEnd
      BY <2>3, <3>2 DEF Aligned
    <3>4. ASSUME NEW p \in Pages, p \in Touched(from, to - from) PROVE Justified(p, perm)
      <4>1. PageBytes(p) \subseteq OwnedBy({"IMAGE"})
        BY <2>1, <3>1, <3>3, <3>4, ImageJustified
      <4> QED
        BY <2>3, <4>1 DEF Justified
    <3>5. CASE from < to
      <4>1. Map(from, to - from, perm) /\ mapped # 0 /\ perm \in Perms
        BY <1>1, <1>2, <2>3, <3>5 DEF MapPart, TypeInv
      <4> QED
        BY <2>1, <3>4, <4>1, MapKeeps
    <3>6. CASE ~(from < to)
      <4>1. mapped' = mapped + 1 /\ UNCHANGED <<facts, region, leaf, at, why>>
        BY <2>3, <3>6 DEF MapPart
      <4> QED
        BY <1>1, <2>1, <3>1, <4>1, SameOwned DEF OwnInv
    <3> QED
      BY <3>5, <3>6
  <2> QED
    BY <1>5, <2>2, <2>3 DEF MapImage
<1>6. CASE MapDevices
  <2> DEFINE i == mapped - 2
             b == DeviceMap(region[i]).base
             n == DeviceMap(region[i]).size
  <2>1. /\ at = "map" /\ mapped >= 3 /\ mapped < 3 + Len(region) /\ MapDevice(region[i])
        /\ mapped \in Nat
    BY <1>1, <1>6 DEF MapDevices, TypeInv
  <2>2. Len(region) \in Nat /\ DOMAIN region = 1 .. Len(region)
    BY <1>1, LenProperties DEF TypeInv
  <2>3. i \in DOMAIN region /\ mapped # 0 /\ mapped > 0
    BY <2>1, <2>2
  <2> HIDE DEF i
  <2>4. CASE region[i].owner = "MMIO"
    <3>1. Map(b, n, "DEV")
      BY <2>1, <2>4 DEF MapDevice, DeviceMap
    <3>2. RangeOk(b, n) => \A p \in Pages : p \in Touched(b, n) => Justified(p, "DEV")
      BY <2>3, <2>4, DeviceJustified DEF Justified
    <3> HIDE DEF b, n
    <3> QED
      BY <1>2, <2>1, <2>3, <3>1, <3>2, MapKeeps
  <2>5. CASE region[i].owner # "MMIO"
    <3>1. mapped' = mapped + 1 /\ UNCHANGED <<facts, region, leaf, at, why>>
      BY <2>1, <2>5 DEF MapDevice
    <3>2. facts.image.base % PAGE = 0
      BY <2>1, <2>3 DEF OwnInv
    <3> QED
      BY <1>1, <2>1, <3>1, <3>2, SameOwned DEF OwnInv
  <2> QED
    BY <2>4, <2>5
<1>7. CASE PrivRoom
  <2>1. at = "rooms" /\ mapped < 4 /\ mapped \in Nat /\ Map(RoomBase + mapped * PAGE, PAGE, "RW")
    BY <1>1, <1>7 DEF PrivRoom, TypeInv
  <2>2. \A p \in Pages : p \in Touched(RoomBase + mapped * PAGE, PAGE) => Justified(p, "RW")
    <3>1. mapped \in 0 .. 3
      BY <2>1
    <3> QED
      BY <2>1, <3>1, RoomJustified DEF Justified
  <2> QED
    BY <1>2, <2>1, <2>2, MapKeeps
<1>8. CASE Arm
  <2>1. UNCHANGED <<facts, region, leaf>> /\ at = "map" /\ mapped = 3 + Len(region)
        /\ at' \in {"halt", "armed"}
    BY <1>8 DEF Arm, Halt
  <2>2. facts.image.base % PAGE = 0
    <3>1. Len(region) \in Nat
      BY <1>1, LenProperties DEF TypeInv
    <3> QED
      BY <2>1, <3>1 DEF OwnInv
  <2> QED
    BY <1>1, <2>1, <2>2, SameOwned DEF OwnInv
<1>9. CASE TakeRooms
  <2>1. /\ UNCHANGED <<facts, region, leaf, mapped>> /\ at = "armed"
        /\ \/ at' = "halt"
           \/ /\ at' = "rooms"
              /\ RangeContains(facts.mem[1].base, facts.mem[1].size, RoomBase, 4 * PAGE)
    BY <1>9 DEF TakeRooms, Halt
  <2> QED
    BY <1>1, <2>1, SameOwned DEF OwnInv
<1>10. CASE Run
  BY <1>1, <1>10, SameOwned DEF Run, OwnInv
<1>11. CASE Stay \/ UNCHANGED vars
  <2>1. UNCHANGED <<facts, region, leaf, mapped, at, why>>
    BY <1>11 DEF Stay, vars
  <2> QED
    BY <1>1, <2>1, SameOwned DEF OwnInv
<1> QED
  BY <1>3, <1>4, <1>5, <1>6, <1>7, <1>8, <1>9, <1>10, <1>11 DEF Next

\* It holds of the empty table.
LEMMA OwnInit == Init => OwnInv
<1> SUFFICES ASSUME Init PROVE OwnInv
  OBVIOUS
<1>1. TypeInv /\ region = <<>> /\ at = "own" /\ mapped = 0 /\ facts \in Facts
      /\ leaf = [p \in Pages |-> "none"]
  BY TypeInit DEF Init
<1>2. Len(Claims) \in Nat
  BY <1>1, ClaimsTyped, LenProperties
<1>3. region \in Seq(Below) /\ Len(region) = 0 /\ DOMAIN region = {}
  BY <1>1, EmptySeq
<1>4. MappedIsOwned
  BY <1>1 DEF MappedIsOwned, Justified
<1> QED
  BY <1>1, <1>2, <1>3, <1>4 DEF OwnInv

\* For words, pages and owner tables of any size and every board whose RAM and
\* devices lie below the addresses that the walk translates: no page is mapped but
\* for the owner of its bytes, whatever order the ranges come in, whether they begin
\* inside a page, and wherever a call halts (mmu_policy.c:52-66, room.c:407-417).
THEOREM MappedAlwaysOwned == Board => (Spec => []MappedIsOwned)
<1>1. OwnInv => MappedIsOwned
  BY DEF OwnInv
<1> SUFFICES ASSUME Board PROVE Spec => []MappedIsOwned
  OBVIOUS
<1>2. Init => OwnInv
  BY OwnInit
<1>3. OwnInv /\ [Next]_vars => OwnInv'
  BY OwnNext
<1> QED
  BY <1>1, <1>2, <1>3, PTL DEF Spec

-----------------------------------------------------------------------------
(* The rights of the image, and the rooms' pages                            *)

\* The devices are apart from the first RAM, taken in whole pages.
Apart(f) ==
  \A r \in Devices(f) : \/ r.base + PageUp(r.size) <= f.mem[1].base
                        \/ PageUp(f.mem[1].base + f.mem[1].size) <= r.base
ApartBoard == Board /\ \A f \in Facts : Apart(f)

\* How the linker lays the image out: text and constants in whole pages.
Linked ==
  \A f \in Facts : /\ f.image.text % PAGE = 0 /\ f.image.ro % PAGE = 0
                   /\ f.image.base < f.image.text /\ f.image.text <= f.image.ro

Room(k) == RoomBase + k * PAGE
Fits == /\ facts.image.base % PAGE = 0
        /\ RangeContains(facts.mem[1].base, facts.mem[1].size, RoomBase, 4 * PAGE)

\* In a map, phase and count: the parts of the image that are done with have their
\* right, and the rooms' pages that are not taken yet have none.
Filled(map, from, to, perm) == \A p \in Pages : from <= p /\ p < to => map[p] = perm
Parts(map, phase, n) ==
  /\ phase \notin {"own", "halt"} =>
       /\ (phase = "map" => n >= 1) => Filled(map, facts.image.base, TextEnd, "RX")
       /\ (phase = "map" => n >= 2) => Filled(map, TextEnd, RoEnd, "R")
       /\ (phase = "map" => n >= 3) => Filled(map, RoEnd, ImageEnd, "RW")
  /\ phase \in {"map", "armed", "rooms"} /\ Fits =>
       \A k \in 0 .. 3 : (phase = "rooms" => k >= n) => map[Room(k)] = "none"
PartInv == OwnInv /\ Parts(leaf, at, mapped)

\* What the table holds of devices and of the image.
LEMMA TableApart ==
  ASSUME ApartBoard, OwnInv, at \notin {"own", "halt"}, NEW i \in DOMAIN region
  PROVE  /\ region[i] \in Safe
         /\ region[i].owner = "MMIO" =>
              \/ region[i].base + region[i].size <= facts.mem[1].base
              \/ PageUp(facts.mem[1].base + facts.mem[1].size) <= region[i].base
         /\ region[i].owner = "IMAGE" => region[i] = Whole(facts.image, "IMAGE")
<1> DEFINE S == {c \in Claim :
                   /\ c.owner = "MMIO" =>
                        \/ c.base + c.size <= facts.mem[1].base
                        \/ PageUp(facts.mem[1].base + facts.mem[1].size) <= c.base
                   /\ c.owner = "IMAGE" => c = Whole(facts.image, "IMAGE")}
<1>1. /\ facts \in Facts /\ TypeInv /\ Len(region) = Len(Claims)
      /\ \A k \in DOMAIN region : region[k] = Claims[k]
  BY DEF OwnInv, TypeInv
<1>2. /\ \A j \in DOMAIN facts.mem : facts.mem[j] \in Ranges
      /\ facts.image.base \in Word /\ facts.image.size \in Word
      /\ facts.dtb \subseteq Ranges /\ Devices(facts) \subseteq Ranges
  BY <1>1, SpaceAssumption DEF SpaceAssumption, Accepted, Optionally, Devices
<1>3. \A r \in Ranges, o \in {"NXU", "IMAGE", "RESERVED", "MMIO"} :
        /\ [base |-> r.base, size |-> r.size, owner |-> o] \in Claim
        /\ Whole(r, o) \in Claim
  BY UpIsWord DEF Ranges, Claim, Whole
<1>4. Whole(facts.image, "IMAGE") \in Claim
  BY <1>2, UpIsWord DEF Claim, Whole
<1>5. \A r, o : Whole(r, o).base = r.base /\ Whole(r, o).size = PageUp(r.size)
                /\ Whole(r, o).owner = o
  BY DEF Whole
<1>6. S \subseteq Claim /\ Whole(facts.image, "IMAGE") \in S
  BY <1>4, <1>5
<1>7. \A j \in DOMAIN facts.mem :
        [base |-> facts.mem[j].base, size |-> facts.mem[j].size, owner |-> "NXU"] \in S
  BY <1>2, <1>3
<1>8. \A r \in facts.dtb : Whole(r, "RESERVED") \in S
  BY <1>2, <1>3, <1>5
<1>9. \A r \in Devices(facts) : Whole(r, "MMIO") \in S
  <2>1. \A r \in Devices(facts) :
          \/ r.base + PageUp(r.size) <= facts.mem[1].base
          \/ PageUp(facts.mem[1].base + facts.mem[1].size) <= r.base
    BY <1>1 DEF ApartBoard, Apart
  <2>2. TAKE r \in Devices(facts)
  <2>3. Whole(r, "MMIO") \in Claim
    BY <1>2, <1>3
  <2>4. /\ Whole(r, "MMIO").base = r.base /\ Whole(r, "MMIO").size = PageUp(r.size)
        /\ Whole(r, "MMIO").owner # "IMAGE"
    BY <1>5
  <2>5. \/ r.base + PageUp(r.size) <= facts.mem[1].base
        \/ PageUp(facts.mem[1].base + facts.mem[1].size) <= r.base
    BY <2>1
  <2> QED
    BY <2>3, <2>4, <2>5, Zenon
<1> HIDE DEF S
<1>10. Claims \in Seq(S)
  BY <1>1, <1>6, <1>7, <1>8, <1>9, ClaimsAre
<1>11. i \in 1 .. Len(Claims)
  BY <1>1, LenProperties DEF TypeInv
<1>12. region[i] \in S
  BY <1>1, <1>10, <1>11, ElementOfSeq
<1>13. region[i] \in Safe
  BY <1>1, Owned
<1> QED
  BY <1>12, <1>13 DEF S

\* The pages of a range of pages are those that begin inside it.
LEMMA TouchedAre ==
  ASSUME NEW from, NEW to, Aligned(from), Aligned(to), from <= to, to <= VA, NEW p \in Pages
  PROVE  p \in Touched(from, to - from) <=> from <= p /\ p < to
<1>1. /\ from \in Nat /\ to \in Nat /\ p \in Nat /\ Aligned(p) /\ p < VA
      /\ VA \in Nat \ {0} /\ VA < WORD /\ WORD \in Nat /\ PAGE \in Nat \ {0}
  BY SpaceAssumption, RangeAssumption DEF SpaceAssumption, RangeAssumption, Aligned, Pages
<1>2. Aligned(to - from) /\ from + (to - from) = to
  <2>1. Aligned(to - from)
    BY Steps
  <2>2. from + (to - from) = to
    BY <1>1
  <2> QED
    BY <2>1, <2>2
<1>3. ASSUME p \in Touched(from, to - from) PROVE from <= p /\ p < to
  <2>1. from <= p /\ p + PAGE <= from + (to - from)
    BY <1>1, <1>2, <1>3, TouchedIn
  <2> QED
    BY <1>1, <1>2, <2>1
<1>4. ASSUME from <= p, p < to PROVE p \in Touched(from, to - from)
  <2>1. p \in Bytes(from, to - from)
    BY <1>1, <1>2, <1>4 DEF Bytes, Word
  <2>2. PageDown(p) = p
    BY <1>1 DEF PageDown, Aligned
  <2>3. p % VA = p
    <3>1. \A y \in Nat : y < VA => y % VA = y
      BY <1>1
    <3> QED
      BY <1>1, <3>1
  <2> QED
    BY <2>1, <2>2, <2>3 DEF Touched
<1> QED
  BY <1>3, <1>4

\* A device's pages are apart from the image and, where the rooms fit, from theirs.
LEMMA DeviceAway ==
  ASSUME ApartBoard, OwnInv, at \notin {"own", "halt"}, facts.image.base % PAGE = 0,
         NEW i \in DOMAIN region, region[i].owner = "MMIO", NEW p \in Pages,
         PageBytes(p) \cap Bytes(region[i].base, region[i].size) # {}
  PROVE  /\ ~(facts.image.base <= p /\ p < ImageEnd)
         /\ Fits => ~(RoomBase <= p /\ p < RoomBase + 4 * PAGE)
<1> DEFINE ram == facts.mem[1].base
           of  == facts.mem[1].size
           base == facts.image.base
<1>1. /\ facts \in Facts /\ ram \in Word /\ of \in Word /\ ram + of <= VA
  BY FirstRam DEF OwnInv, TypeInv, ApartBoard
<1>2. /\ Aligned(base) /\ Aligned(ImageEnd) /\ base < ImageEnd /\ ImageEnd <= VA
  BY <1>1, ImageEnds DEF ApartBoard, Aligned
<1>3. /\ WORD \in Nat /\ PAGE \in Nat \ {0} /\ VA \in Nat /\ VA < WORD /\ Aligned(VA) /\ VA \in Word
      /\ ram \in Nat /\ of \in Nat /\ ram + of \in Word /\ 4 * PAGE \in Word
  BY <1>1, SpaceAssumption, RangeAssumption
  DEF SpaceAssumption, RangeAssumption, Word, Aligned
<1>4. Aligned(PageUp(ram + of)) /\ ram + of <= PageUp(ram + of)
  BY <1>1, <1>3, UpIs
<1>5. ram <= base /\ base + facts.image.size <= ram + of /\ facts.image.size \in Nat /\ base \in Nat
  <2>1. /\ base \in Word /\ facts.image.size \in Word
        /\ RangeContains(ram, of, base, facts.image.size)
    BY <1>1, SpaceAssumption DEF SpaceAssumption, Accepted
  <2>2. Plus(base, facts.image.size) = base + facts.image.size /\ Plus(ram, of) = ram + of
    BY <1>1, <2>1, OkMeansSum DEF RangeContains
  <2> QED
    BY <1>3, <2>1, <2>2 DEF RangeContains, Word
<1>6. ImageEnd <= PageUp(ram + of)
  <2>1. base + facts.image.size <= PageUp(ram + of) /\ PageUp(ram + of) \in Word
    <3>1. PageUp(ram + of) <= VA /\ PageUp(ram + of) \in Nat
      BY <1>1, <1>3, <1>4, UpIs DEF Aligned
    <3> QED
      BY <1>3, <1>4, <1>5, <3>1 DEF Word
  <2>2. Plus(base, facts.image.size) = base + facts.image.size
    BY <1>1, <1>3, <1>5 DEF Plus, Word
  <2>3. base + facts.image.size \in Word
    BY <1>1, <1>3, <1>5 DEF Word
  <2> QED
    BY <1>4, <2>1, <2>2, <2>3, UpIs DEF ImageEnd
<1>7. PICK x \in PageBytes(p) : x \in Bytes(region[i].base, region[i].size)
  OBVIOUS
<1>8. /\ x \in Nat /\ p <= x /\ x < p + PAGE /\ p \in Nat /\ Aligned(p)
      /\ region[i].base <= x /\ x < region[i].base + region[i].size
  BY <1>3, <1>7 DEF PageBytes, Bytes, Word, Pages, Aligned
<1>9. /\ region[i].base \in Nat /\ region[i].size \in Nat
      /\ region[i].base + region[i].size <= ram \/ PageUp(ram + of) <= region[i].base
  BY <1>3, TableApart DEF Safe, Claim, Word
<1>10. x < ram \/ PageUp(ram + of) <= x
  BY <1>3, <1>4, <1>8, <1>9 DEF Aligned
<1> HIDE DEF ram, of, base
<1>11. ASSUME NEW c, NEW d, Aligned(c), Aligned(d), ram <= c, d <= PageUp(ram + of)
       PROVE  ~(c <= p /\ p < d)
  <2>1. c \in Nat /\ d \in Nat /\ PageUp(ram + of) \in Nat
    BY <1>4, <1>11 DEF Aligned
  <2>2. p < d => p + PAGE <= d
    BY <1>8, <1>11, Steps
  <2> QED
    BY <1>3, <1>8, <1>10, <1>11, <2>1, <2>2
<1>12. ~(base <= p /\ p < ImageEnd)
  BY <1>2, <1>5, <1>6, <1>11
<1>13. ASSUME Fits PROVE ~(RoomBase <= p /\ p < RoomBase + 4 * PAGE)
  <2>1. RoomBase = ImageEnd /\ RoomBase \in Nat /\ RoomBase \in Word
    BY <1>2, <1>3 DEF RoomBase, Aligned, Word
  <2>2. ram <= RoomBase /\ RoomBase + 4 * PAGE <= ram + of
    BY <1>1, <1>3, <1>13, <2>1, OkMeansSum DEF Fits, RangeContains, ram, of
  <2>3. Aligned(RoomBase + 4 * PAGE)
    <3>1. Aligned(PAGE + PAGE)
      BY <1>2, Steps
    <3>2. Aligned((PAGE + PAGE) + (PAGE + PAGE))
      BY <3>1, Steps
    <3>3. 4 * PAGE = (PAGE + PAGE) + (PAGE + PAGE)
      BY <1>3
    <3> QED
      BY <1>2, <2>1, <3>2, <3>3, Steps
  <2>4. RoomBase + 4 * PAGE <= PageUp(ram + of)
    BY <1>3, <1>4, <2>1, <2>2 DEF Aligned
  <2> QED
    BY <1>2, <1>11, <2>1, <2>2, <2>3, <2>4
<1> QED
  BY <1>12, <1>13 DEF base

\* The pages of the rooms, one after the other behind the image.
LEMMA RoomsAre ==
  ASSUME Board, facts \in Facts, Fits, NEW k \in 0 .. 3
  PROVE  /\ Room(k) \in Pages /\ Aligned(Room(k)) /\ Room(k) + PAGE <= VA
         /\ ImageEnd <= Room(k) /\ RoomBase <= Room(k) /\ Room(k) < RoomBase + 4 * PAGE
         /\ \A j \in 0 .. 3 : j < k => Room(j) + PAGE <= Room(k)
<1> DEFINE ram == facts.mem[1].base
           of  == facts.mem[1].size
<1>1. /\ Aligned(RoomBase) /\ RoomBase <= VA /\ RoomBase \in Nat /\ RoomBase = ImageEnd
  BY ImageEnds DEF RoomBase, Aligned, Fits
<1>2. ram \in Word /\ of \in Word /\ ram + of <= VA
  BY FirstRam
<1>3. /\ WORD \in Nat /\ PAGE \in Nat \ {0} /\ VA \in Nat /\ VA < WORD /\ 4 * PAGE \in Word
      /\ ram \in Nat /\ of \in Nat /\ RoomBase \in Word
  BY <1>1, <1>2, SpaceAssumption, RangeAssumption DEF SpaceAssumption, RangeAssumption, Word
<1>4. RangeContains(ram, of, RoomBase, 4 * PAGE)
  BY DEF Fits
<1> HIDE DEF ram, of
<1>5. RoomBase + 4 * PAGE <= VA
  <2>1. RoomBase + 4 * PAGE <= ram + of
    BY <1>2, <1>3, <1>4, OkMeansSum DEF RangeContains
  <2> QED
    BY <1>1, <1>2, <1>3, <2>1
<1>6. \A j \in 0 .. 3 : \/ j = 0 /\ j * PAGE = 0
                        \/ j = 1 /\ j * PAGE = PAGE
                        \/ j = 2 /\ j * PAGE = PAGE + PAGE
                        \/ j = 3 /\ j * PAGE = (PAGE + PAGE) + PAGE
  BY <1>3
<1>7. Aligned(k * PAGE)
  <2>1. Aligned(0)
    BY <1>3, Multiple DEF Aligned
  <2>2. Aligned(PAGE)
    BY <1>1, Steps
  <2>3. Aligned(PAGE + PAGE) /\ Aligned((PAGE + PAGE) + PAGE)
    BY <2>2, Steps
  <2> QED
    BY <1>6, <2>1, <2>2, <2>3
<1>8. Aligned(Room(k))
  BY <1>1, <1>7, Steps DEF Room
<1>9. \A j \in 0 .. 3 : /\ Room(j) = RoomBase + j * PAGE
                        /\ j < k => j * PAGE + PAGE <= k * PAGE
  BY <1>3, <1>6 DEF Room
<1>10. k * PAGE \in Nat /\ k * PAGE + PAGE <= 4 * PAGE /\ \A j \in 0 .. 3 : j * PAGE \in Nat
  BY <1>3, <1>6
<1>11. /\ Room(k) \in Nat /\ Room(k) + PAGE <= RoomBase + 4 * PAGE /\ RoomBase <= Room(k)
       /\ \A j \in 0 .. 3 : j < k => Room(j) + PAGE <= Room(k)
  BY <1>1, <1>3, <1>9, <1>10
<1>12. Room(k) + PAGE <= VA /\ Room(k) < VA
  BY <1>1, <1>3, <1>5, <1>11
<1>13. Room(k) \in Pages
  BY <1>3, <1>8, <1>11, <1>12 DEF Pages, Aligned
<1> QED
  BY <1>1, <1>3, <1>8, <1>11, <1>12, <1>13

\* What a call of nxu_mmu_map on a range of pages does to each page.
LEMMA MapRange ==
  ASSUME NEW from, NEW to, Aligned(from), Aligned(to), from <= to, to <= VA,
         NEW perm, Map(from, to - from, perm)
  PROVE  /\ UNCHANGED <<facts, region>>
         /\ \/ at' = "halt"
            \/ /\ at' = at /\ mapped' = mapped + 1
               /\ \A p \in Pages : leaf'[p] = IF from <= p /\ p < to THEN perm ELSE leaf[p]
<1>1. /\ UNCHANGED <<facts, region>>
      /\ \/ at' = "halt"
         \/ /\ leaf' = [p \in Pages |-> IF p \in Touched(from, to - from) THEN perm ELSE leaf[p]]
            /\ mapped' = mapped + 1 /\ at' = at
  BY MapIs
<1>2. CASE at' = "halt"
  BY <1>1, <1>2
<1>3. CASE at' # "halt"
  BY <1>1, <1>3, TouchedAre
<1> QED
  BY <1>2, <1>3

\* The parts are a statement about facts that do not change.
LEMMA PartsKept ==
  ASSUME OwnInv', UNCHANGED facts, Parts(leaf', at', mapped')
  PROVE  PartInv'
<1>1. /\ TextEnd' = TextEnd /\ RoEnd' = RoEnd /\ ImageEnd' = ImageEnd /\ RoomBase' = RoomBase
      /\ \A k : Room(k)' = Room(k)
  BY DEF TextEnd, RoEnd, ImageEnd, RoomBase, Room
<1>2. Fits' <=> Fits
  BY <1>1 DEF Fits
<1>3. Parts(leaf', at', mapped') => Parts(leaf, at, mapped)'
  BY <1>1, <1>2 DEF Parts, Filled
<1> QED
  BY <1>3 DEF PartInv

\* A step that maps no page of the image or of a room.
LEMMA PartsAway ==
  ASSUME ApartBoard, PartInv, OwnInv', UNCHANGED facts, at = "map", at' = "map",
         mapped >= 3, mapped' = mapped + 1, facts.image.base % PAGE = 0,
         \A p \in Pages :
           \/ leaf'[p] = leaf[p]
           \/ /\ ~(facts.image.base <= p /\ p < ImageEnd)
              /\ Fits => ~(RoomBase <= p /\ p < RoomBase + 4 * PAGE)
  PROVE  PartInv'
<1>1. /\ facts \in Facts /\ Board /\ mapped \in Nat
  BY DEF PartInv, OwnInv, TypeInv, ApartBoard
<1>2. /\ Aligned(facts.image.base) /\ Aligned(TextEnd) /\ Aligned(RoEnd) /\ Aligned(ImageEnd)
      /\ facts.image.base < TextEnd /\ TextEnd <= RoEnd /\ RoEnd <= ImageEnd
  BY <1>1, ImageEnds
<1>3. \A p \in Pages : p \in Nat
  BY DEF Pages
<1>4. \A p \in Pages : facts.image.base <= p /\ p < ImageEnd => leaf'[p] = leaf[p]
  OBVIOUS
<1>5. Parts(leaf, at, mapped)
  BY DEF PartInv
<1>6. /\ Filled(leaf, facts.image.base, TextEnd, "RX") /\ Filled(leaf, TextEnd, RoEnd, "R")
      /\ Filled(leaf, RoEnd, ImageEnd, "RW")
  BY <1>1, <1>5 DEF Parts
<1>7. /\ Filled(leaf', facts.image.base, TextEnd, "RX") /\ Filled(leaf', TextEnd, RoEnd, "R")
      /\ Filled(leaf', RoEnd, ImageEnd, "RW")
  BY <1>2, <1>3, <1>4, <1>6 DEF Filled, Aligned
<1>8. Fits => \A k \in 0 .. 3 : leaf'[Room(k)] = "none"
  <2>1. SUFFICES ASSUME Fits, NEW k \in 0 .. 3 PROVE leaf'[Room(k)] = "none"
    OBVIOUS
  <2>2. Room(k) \in Pages /\ RoomBase <= Room(k) /\ Room(k) < RoomBase + 4 * PAGE
    BY <1>1, <2>1, RoomsAre
  <2>3. leaf[Room(k)] = "none"
    BY <1>5, <2>1 DEF Parts
  <2> QED
    BY <2>1, <2>2, <2>3
<1>9. Parts(leaf', at', mapped')
  BY <1>7, <1>8 DEF Parts
<1> QED
  BY <1>9, PartsKept

\* A part of the image is mapped, or is empty.
LEMMA PartsMapped ==
  ASSUME Board, PartInv, OwnInv', UNCHANGED facts, at = "map", at' = "map",
         mapped' = mapped + 1, facts.image.base % PAGE = 0, NEW from, NEW to, NEW perm,
         <<mapped, from, to, perm>> \in {<<0, facts.image.base, TextEnd, "RX">>,
                                         <<1, TextEnd, RoEnd, "R">>, <<2, RoEnd, ImageEnd, "RW">>},
         \A p \in Pages : leaf'[p] = IF from <= p /\ p < to THEN perm ELSE leaf[p]
  PROVE  PartInv'
<1>1. facts \in Facts
  BY DEF PartInv, OwnInv, TypeInv
<1>2. /\ Aligned(facts.image.base) /\ Aligned(TextEnd) /\ Aligned(RoEnd) /\ Aligned(ImageEnd)
      /\ facts.image.base < TextEnd /\ TextEnd <= RoEnd /\ RoEnd <= ImageEnd
  BY <1>1, ImageEnds
<1>3. \A p \in Pages : p \in Nat
  BY DEF Pages
<1>4. Parts(leaf, at, mapped)
  BY DEF PartInv
<1>5. to \in Nat /\ to <= ImageEnd /\ ImageEnd \in Nat
  BY <1>2 DEF Aligned
<1>6. Fits => \A k \in 0 .. 3 : leaf'[Room(k)] = "none"
  <2>1. SUFFICES ASSUME Fits, NEW k \in 0 .. 3 PROVE leaf'[Room(k)] = "none"
    OBVIOUS
  <2>2. Room(k) \in Pages /\ ImageEnd <= Room(k) /\ Room(k) \in Nat
    BY <1>1, <2>1, RoomsAre DEF Aligned
  <2>3. leaf[Room(k)] = "none"
    BY <1>4, <2>1 DEF Parts
  <2> QED
    BY <1>5, <2>2, <2>3
<1>7. CASE mapped = 0 /\ from = facts.image.base /\ to = TextEnd /\ perm = "RX"
  <2>1. Filled(leaf', facts.image.base, TextEnd, "RX")
    BY <1>7 DEF Filled
  <2>2. Parts(leaf', at', mapped')
    BY <1>6, <1>7, <2>1 DEF Parts
  <2> QED
    BY <2>2, PartsKept
<1>8. CASE mapped = 1 /\ from = TextEnd /\ to = RoEnd /\ perm = "R"
  <2>1. Filled(leaf, facts.image.base, TextEnd, "RX")
    BY <1>4, <1>8 DEF Parts
  <2>2. Filled(leaf', facts.image.base, TextEnd, "RX") /\ Filled(leaf', TextEnd, RoEnd, "R")
    BY <1>2, <1>3, <1>8, <2>1 DEF Filled, Aligned
  <2>3. Parts(leaf', at', mapped')
    BY <1>6, <1>8, <2>2 DEF Parts
  <2> QED
    BY <2>3, PartsKept
<1>9. CASE mapped = 2 /\ from = RoEnd /\ to = ImageEnd /\ perm = "RW"
  <2>1. Filled(leaf, facts.image.base, TextEnd, "RX") /\ Filled(leaf, TextEnd, RoEnd, "R")
    BY <1>4, <1>9 DEF Parts
  <2>2. /\ Filled(leaf', facts.image.base, TextEnd, "RX") /\ Filled(leaf', TextEnd, RoEnd, "R")
        /\ Filled(leaf', RoEnd, ImageEnd, "RW")
    BY <1>2, <1>3, <1>9, <2>1 DEF Filled, Aligned
  <2>3. Parts(leaf', at', mapped')
    BY <1>6, <1>9, <2>2 DEF Parts
  <2> QED
    BY <2>3, PartsKept
<1> QED
  BY <1>7, <1>8, <1>9

-----------------------------------------------------------------------------
(* The parts are kept                                                       *)

\* An empty or a mapped part of the image, of those behind the text.
LEMMA MapPartRange ==
  ASSUME NEW from, NEW to, Aligned(from), Aligned(to), from <= to, to <= VA,
         NEW perm, MapPart(from, to, perm)
  PROVE  /\ UNCHANGED facts
         /\ \/ at' = "halt"
            \/ /\ at' = at /\ mapped' = mapped + 1
               /\ \A p \in Pages : leaf'[p] = IF from <= p /\ p < to THEN perm ELSE leaf[p]
<1>1. CASE from < to
  <2>1. Map(from, to - from, perm)
    BY <1>1 DEF MapPart
  <2> QED
    BY <2>1, MapRange
<1>2. CASE ~(from < to)
  <2>1. from \in Nat /\ to \in Nat /\ \A p \in Pages : p \in Nat
    BY DEF Aligned, Pages
  <2> QED
    BY <1>2, <2>1 DEF MapPart
<1> QED
  BY <1>1, <1>2

\* Every call for a part of the image keeps the parts.
LEMMA PartImage ==
  ASSUME ApartBoard, PartInv, OwnInv', MapImage
  PROVE  PartInv'
<1>1. Board /\ facts \in Facts /\ at = "map" /\ OwnInv
  BY DEF ApartBoard, PartInv, OwnInv, TypeInv, MapImage
<1>2. ASSUME UNCHANGED facts, at' = "halt" PROVE PartInv'
  <2>1. Parts(leaf', at', mapped')
    BY <1>2 DEF Parts
  <2> QED
    BY <1>2, <2>1, PartsKept
<1>3. ASSUME facts.image.base % PAGE = 0
      PROVE  /\ Aligned(facts.image.base) /\ Aligned(TextEnd) /\ Aligned(RoEnd)
             /\ Aligned(ImageEnd) /\ facts.image.base <= TextEnd /\ TextEnd <= RoEnd
             /\ RoEnd <= ImageEnd /\ TextEnd <= VA /\ RoEnd <= VA /\ ImageEnd <= VA
  <2>1. VA \in Nat
    BY SpaceAssumption DEF SpaceAssumption
  <2> QED
    BY <1>1, <1>3, <2>1, ImageEnds DEF Aligned
<1>4. CASE mapped = 0 /\ Map(facts.image.base, TextEnd - facts.image.base, "RX")
  <2>1. UNCHANGED facts /\ (at' = "halt" \/ facts.image.base % PAGE = 0)
    BY <1>4, MapIs
  <2>2. CASE at' = "halt"
    BY <1>2, <2>1, <2>2
  <2>3. CASE at' # "halt"
    <3>1. facts.image.base % PAGE = 0
      BY <2>1, <2>3
    <3>2. /\ at' = at /\ mapped' = mapped + 1
          /\ \A p \in Pages : leaf'[p] = IF facts.image.base <= p /\ p < TextEnd
                                         THEN "RX" ELSE leaf[p]
      BY <1>3, <1>4, <2>3, <3>1, MapRange
    <3> QED
      BY <1>1, <1>4, <2>1, <3>1, <3>2, PartsMapped
  <2> QED
    BY <2>2, <2>3
<1>5. CASE mapped = 1 /\ MapPart(TextEnd, RoEnd, "R")
  <2>1. facts.image.base % PAGE = 0
    BY <1>1, <1>5 DEF OwnInv
  <2>2. /\ UNCHANGED facts
        /\ \/ at' = "halt"
           \/ /\ at' = at /\ mapped' = mapped + 1
              /\ \A p \in Pages : leaf'[p] = IF TextEnd <= p /\ p < RoEnd THEN "R" ELSE leaf[p]
    BY <1>3, <1>5, <2>1, MapPartRange
  <2>3. CASE at' = "halt"
    BY <1>2, <2>2, <2>3
  <2>4. CASE at' # "halt"
    BY <1>1, <1>5, <2>1, <2>2, <2>4, PartsMapped
  <2> QED
    BY <2>3, <2>4
<1>6. CASE mapped = 2 /\ MapPart(RoEnd, ImageEnd, "RW")
  <2>1. facts.image.base % PAGE = 0
    BY <1>1, <1>6 DEF OwnInv
  <2>2. /\ UNCHANGED facts
        /\ \/ at' = "halt"
           \/ /\ at' = at /\ mapped' = mapped + 1
              /\ \A p \in Pages : leaf'[p] = IF RoEnd <= p /\ p < ImageEnd THEN "RW" ELSE leaf[p]
    BY <1>3, <1>6, <2>1, MapPartRange
  <2>3. CASE at' = "halt"
    BY <1>2, <2>2, <2>3
  <2>4. CASE at' # "halt"
    BY <1>1, <1>6, <2>1, <2>2, <2>4, PartsMapped
  <2> QED
    BY <2>3, <2>4
<1> QED
  BY <1>4, <1>5, <1>6 DEF MapImage

\* A device's pages are none of the image's or of the rooms'.
LEMMA PartDevices ==
  ASSUME ApartBoard, PartInv, OwnInv', MapDevices
  PROVE  PartInv'
<1> DEFINE i == mapped - 2
           m == DeviceMap(region[i])
<1>1. /\ Board /\ OwnInv /\ TypeInv /\ at = "map" /\ mapped \in Nat /\ mapped >= 3
      /\ mapped < 3 + Len(region) /\ MapDevice(region[i])
  BY DEF ApartBoard, PartInv, OwnInv, TypeInv, MapDevices
<1>2. i \in DOMAIN region
  BY <1>1, LenProperties DEF TypeInv
<1>3. facts.image.base % PAGE = 0
  BY <1>1 DEF OwnInv
<1> HIDE DEF i
<1>4. CASE region[i].owner # "MMIO"
  BY <1>1, <1>3, <1>4, PartsAway DEF MapDevice
<1>5. CASE region[i].owner = "MMIO"
  <2>1. Map(m.base, m.size, m.perm)
    BY <1>1, <1>5 DEF MapDevice
  <2> HIDE DEF m
  <2>2. /\ UNCHANGED facts
        /\ \/ at' = "halt"
           \/ /\ leaf' = [p \in Pages |-> IF p \in Touched(m.base, m.size) THEN m.perm ELSE leaf[p]]
              /\ mapped' = mapped + 1 /\ at' = at
    BY <2>1, MapIs
  <2>3. CASE at' = "halt"
    <3>1. Parts(leaf', at', mapped')
      BY <2>3 DEF Parts
    <3> QED
      BY <2>2, <3>1, PartsKept
  <2>4. CASE at' # "halt"
    <3>1. ASSUME NEW p \in Pages, p \in Touched(m.base, m.size)
          PROVE  /\ ~(facts.image.base <= p /\ p < ImageEnd)
                 /\ Fits => ~(RoomBase <= p /\ p < RoomBase + 4 * PAGE)
      <4>1. PageBytes(p) \cap Bytes(region[i].base, region[i].size) # {}
        BY <1>1, <1>2, <1>5, <3>1, DevicePages DEF m
      <4> QED
        BY <1>1, <1>2, <1>3, <1>5, <4>1, DeviceAway
    <3>2. \A p \in Pages :
            \/ leaf'[p] = leaf[p]
            \/ /\ ~(facts.image.base <= p /\ p < ImageEnd)
               /\ Fits => ~(RoomBase <= p /\ p < RoomBase + 4 * PAGE)
      BY <2>2, <2>4, <3>1
    <3> QED
      BY <1>1, <1>3, <2>2, <2>4, <3>2, PartsAway
  <2> QED
    BY <2>3, <2>4
<1> QED
  BY <1>4, <1>5

\* The page of a room that is taken is no page of the image or of a later one.
LEMMA PartRoom ==
  ASSUME ApartBoard, PartInv, OwnInv', PrivRoom
  PROVE  PartInv'
<1>1. /\ Board /\ facts \in Facts /\ at = "rooms" /\ mapped \in 0 .. 3 /\ Fits
      /\ Map(Room(mapped), PAGE, "RW") /\ Parts(leaf, at, mapped)
  BY DEF ApartBoard, PartInv, OwnInv, TypeInv, PrivRoom, Fits, Room
<1> DEFINE from == Room(mapped)
           to   == Room(mapped) + PAGE
<1>2. /\ Aligned(from) /\ to <= VA /\ ImageEnd <= from
  BY <1>1, RoomsAre
<1>3. Aligned(to) /\ from \in Nat /\ PAGE \in Nat /\ from <= to /\ to - from = PAGE /\ to \in Nat
  <2>1. PAGE \in Nat /\ from \in Nat
    BY <1>2, RangeAssumption DEF RangeAssumption, Aligned
  <2>2. Aligned(PAGE)
    BY <1>2, Steps
  <2>3. Aligned(to)
    BY <1>2, <2>2, Steps
  <2> QED
    BY <2>1, <2>3
<1> HIDE DEF from, to
<1>4. /\ UNCHANGED facts
      /\ \/ at' = "halt"
         \/ /\ at' = at /\ mapped' = mapped + 1
            /\ \A p \in Pages : leaf'[p] = IF from <= p /\ p < to THEN "RW" ELSE leaf[p]
  <2>1. Map(from, to - from, "RW")
    BY <1>1, <1>3 DEF from
  <2> QED
    BY <1>2, <1>3, <2>1, MapRange
<1>5. CASE at' = "halt"
  <2>1. Parts(leaf', at', mapped')
    BY <1>5 DEF Parts
  <2> QED
    BY <1>4, <2>1, PartsKept
<1>6. CASE at' # "halt"
  <2>1. /\ Filled(leaf, facts.image.base, TextEnd, "RX") /\ Filled(leaf, TextEnd, RoEnd, "R")
        /\ Filled(leaf, RoEnd, ImageEnd, "RW")
    BY <1>1 DEF Parts
  <2>2. /\ TextEnd \in Nat /\ RoEnd \in Nat /\ ImageEnd \in Nat
        /\ TextEnd <= RoEnd /\ RoEnd <= ImageEnd
    BY <1>1, ImageEnds DEF Aligned, Fits
  <2>3. \A p \in Pages : p < ImageEnd => leaf'[p] = leaf[p] /\ p \in Nat
    BY <1>2, <1>3, <1>4, <1>6, <2>2 DEF Pages
  <2>4. \A p \in Pages : p \in Nat
    BY DEF Pages
  <2>5. /\ Filled(leaf', facts.image.base, TextEnd, "RX") /\ Filled(leaf', TextEnd, RoEnd, "R")
        /\ Filled(leaf', RoEnd, ImageEnd, "RW")
    BY <2>1, <2>2, <2>3, <2>4 DEF Filled
  <2>6. ASSUME NEW k \in 0 .. 3, k >= mapped + 1 PROVE leaf'[Room(k)] = "none"
    <3>1. Room(k) \in Pages /\ to <= Room(k)
      BY <1>1, <2>6, RoomsAre DEF to
    <3>2. leaf[Room(k)] = "none"
      BY <1>1, <2>6 DEF Parts
    <3>3. Room(k) \in Nat
      BY <3>1 DEF Pages
    <3> QED
      BY <1>3, <1>4, <1>6, <3>1, <3>2, <3>3
  <2>7. Parts(leaf', at', mapped')
    BY <1>1, <1>4, <1>6, <2>5, <2>6 DEF Parts
  <2> QED
    BY <1>4, <2>7, PartsKept
<1> QED
  BY <1>5, <1>6

\* Every step keeps the parts.
LEMMA PartNext == ApartBoard /\ PartInv /\ [Next]_vars => PartInv'
<1> SUFFICES ASSUME ApartBoard, PartInv, [Next]_vars PROVE PartInv'
  OBVIOUS
<1>1. Board /\ OwnInv /\ TypeInv /\ facts \in Facts /\ Parts(leaf, at, mapped) /\ mapped \in Nat
  BY DEF ApartBoard, PartInv, OwnInv, TypeInv
<1>2. OwnInv'
  BY <1>1, OwnNext
<1>3. ASSUME UNCHANGED facts, at' \in {"own", "halt"} PROVE PartInv'
  <2>1. Parts(leaf', at', mapped')
    BY <1>3 DEF Parts
  <2> QED
    BY <1>2, <1>3, <2>1, PartsKept
<1>4. CASE AddOwner
  BY <1>3, <1>4 DEF AddOwner, Halt
<1>5. CASE StartMap
  <2>1. /\ leaf = [p \in Pages |-> "none"] /\ mapped = 0 /\ at' = "map"
        /\ UNCHANGED <<facts, leaf, mapped>>
    BY <1>1, <1>5 DEF StartMap, OwnInv
  <2>2. Fits => \A k \in 0 .. 3 : leaf[Room(k)] = "none"
    BY <1>1, <2>1, RoomsAre
  <2>3. Parts(leaf', at', mapped')
    BY <2>1, <2>2 DEF Parts
  <2> QED
    BY <1>2, <2>1, <2>3, PartsKept
<1>6. CASE MapImage
  BY <1>2, <1>6, PartImage
<1>7. CASE MapDevices
  BY <1>2, <1>7, PartDevices
<1>8. CASE Arm
  <2>1. CASE at' = "halt"
    BY <1>3, <1>8, <2>1 DEF Arm, Halt
  <2>2. CASE at' # "halt"
    <3>1. /\ at = "map" /\ mapped >= 3 /\ at' = "armed" /\ UNCHANGED <<facts, leaf>>
      <4>1. Len(region) \in Nat
        BY <1>1, LenProperties DEF TypeInv
      <4> QED
        BY <1>8, <2>2, <4>1 DEF Arm, Halt
    <3>2. Parts(leaf', at', mapped')
      BY <1>1, <3>1 DEF Parts
    <3> QED
      BY <1>2, <3>1, <3>2, PartsKept
  <2> QED
    BY <2>1, <2>2
<1>9. CASE TakeRooms
  <2>1. CASE at' = "halt"
    BY <1>3, <1>9, <2>1 DEF TakeRooms, Halt
  <2>2. CASE at' # "halt"
    <3>1. at = "armed" /\ at' = "rooms" /\ UNCHANGED <<facts, leaf, mapped>>
      BY <1>9, <2>2 DEF TakeRooms, Halt
    <3>2. Parts(leaf', at', mapped')
      BY <1>1, <3>1 DEF Parts
    <3> QED
      BY <1>2, <3>1, <3>2, PartsKept
  <2> QED
    BY <2>1, <2>2
<1>10. CASE PrivRoom
  BY <1>2, <1>10, PartRoom
<1>11. CASE Run
  <2>1. at = "rooms" /\ at' = "run" /\ UNCHANGED <<facts, leaf, mapped>>
    BY <1>11 DEF Run
  <2>2. Parts(leaf', at', mapped')
    BY <1>1, <2>1 DEF Parts
  <2> QED
    BY <1>2, <2>1, <2>2, PartsKept
<1>12. CASE Stay \/ UNCHANGED vars
  <2>1. UNCHANGED <<facts, leaf, at, mapped>>
    BY <1>12 DEF Stay, vars
  <2>2. Parts(leaf', at', mapped')
    BY <1>1, <2>1
  <2> QED
    BY <1>2, <2>1, <2>2, PartsKept
<1> QED
  BY <1>4, <1>5, <1>6, <1>7, <1>8, <1>9, <1>10, <1>11, <1>12 DEF Next

\* The parts hold of the empty table.
LEMMA PartInit == Init => PartInv
<1> SUFFICES ASSUME Init PROVE PartInv
  OBVIOUS
<1>1. OwnInv /\ at = "own"
  BY OwnInit DEF Init
<1> QED
  BY <1>1 DEF PartInv, Parts

\* For words, pages and owner tables of any size, when RAM and the devices of every
\* board lie apart below VA and the image is linked in whole pages: once the MMU is
\* on, every byte of the image has the rights of its part (mmu_policy.c:44-57).
THEOREM ImageKeepsItsRights == ApartBoard /\ Linked => (Spec => []ImageHasItsRights)
<1> SUFFICES ASSUME ApartBoard, Linked PROVE Spec => []ImageHasItsRights
  OBVIOUS
<1>1. PartInv => ImageHasItsRights
  <2> SUFFICES ASSUME PartInv, at \in {"armed", "rooms", "run"},
                      NEW x \in Bytes(facts.image.base, facts.image.size)
               PROVE  leaf[PageDown(x)] = IF x < facts.image.text THEN "RX"
                                          ELSE IF x < facts.image.ro THEN "R" ELSE "RW"
    BY DEF ImageHasItsRights
  <2> DEFINE base == facts.image.base
             text == facts.image.text
             ro   == facts.image.ro
             p    == PageDown(x)
  <2>1. /\ Board /\ facts \in Facts /\ base % PAGE = 0
        /\ Filled(leaf, base, TextEnd, "RX") /\ Filled(leaf, TextEnd, RoEnd, "R")
        /\ Filled(leaf, RoEnd, ImageEnd, "RW")
    BY DEF ApartBoard, PartInv, OwnInv, TypeInv, Parts
  <2>2. /\ Aligned(base) /\ Aligned(ImageEnd) /\ ImageEnd <= VA
        /\ base + facts.image.size <= ImageEnd
    BY <2>1, ImageEnds
  <2>3. /\ base \in Word /\ text \in Word /\ ro \in Word /\ facts.image.size \in Word
        /\ text <= base + facts.image.size /\ ro <= base + facts.image.size
    BY <2>1, SpaceAssumption DEF SpaceAssumption, Accepted, Board, Placed
  <2>4. text % PAGE = 0 /\ ro % PAGE = 0 /\ base < text /\ text <= ro
    BY <2>1 DEF Linked
  <2>5. /\ WORD \in Nat /\ PAGE \in Nat \ {0} /\ VA \in Nat /\ VA < WORD
        /\ \A y \in Word : y \in Nat /\ y < WORD
    BY SpaceAssumption, RangeAssumption DEF SpaceAssumption, RangeAssumption, Word
  <2>6. x \in Nat /\ base <= x /\ x < base + facts.image.size
    BY <2>5 DEF Bytes
  <2> HIDE DEF base, text, ro, p
  <2>7. Aligned(text) /\ Aligned(ro)
    BY <2>3, <2>4, <2>5 DEF Aligned
  <2>8. /\ ImageEnd \in Word /\ ImageEnd \in Nat /\ text <= ImageEnd /\ ro <= ImageEnd
        /\ x < ImageEnd
    BY <2>2, <2>3, <2>5, <2>6 DEF Aligned, Word
  <2>9. PageUp(text) = text /\ PageUp(ro) = ro
    BY <2>2, <2>3, <2>7, <2>8, UpIs
  <2>10. TextEnd = text /\ RoEnd = ro
    <3>1. TextEnd = text
      BY <2>3, <2>4, <2>5, <2>9 DEF TextEnd, text, base
    <3> QED
      BY <2>3, <2>4, <2>5, <2>9, <3>1 DEF RoEnd, ro
  <2>11. Aligned(p) /\ p \in Nat /\ p <= x /\ x < p + PAGE
    BY <2>6, DownIs DEF p, Aligned
  <2>12. p \in Pages
    BY <2>2, <2>5, <2>6, <2>8, <2>11 DEF Pages, Aligned
  <2>13. \A c : Aligned(c) => (x < c <=> p < c)
    <3>1. SUFFICES ASSUME NEW c, Aligned(c), p < c PROVE x < c
      BY <2>6, <2>11 DEF Aligned
    <3>2. p + PAGE <= c
      BY <2>11, <3>1, Steps
    <3> QED
      BY <2>5, <2>6, <2>11, <3>1, <3>2 DEF Aligned
  <2>14. base <= p /\ p < ImageEnd /\ (x < text <=> p < text) /\ (x < ro <=> p < ro)
    BY <2>2, <2>3, <2>5, <2>6, <2>7, <2>8, <2>11, <2>13
  <2>15. CASE x < text
    BY <2>1, <2>10, <2>12, <2>14, <2>15 DEF Filled, p, text, base
  <2>16. CASE ~(x < text) /\ x < ro
    <3>1. text <= p /\ p < ro
      BY <2>3, <2>5, <2>11, <2>14, <2>16
    <3> QED
      BY <2>1, <2>10, <2>12, <2>16, <3>1 DEF Filled, p, text, ro
  <2>17. CASE ~(x < text) /\ ~(x < ro)
    <3>1. ro <= p
      BY <2>3, <2>5, <2>11, <2>14, <2>17
    <3> QED
      BY <2>1, <2>10, <2>12, <2>14, <2>17, <3>1 DEF Filled, p, text, ro
  <2> QED
    BY <2>15, <2>16, <2>17
<1>2. Init => PartInv
  BY PartInit
<1>3. PartInv /\ [Next]_vars => PartInv'
  BY PartNext
<1> QED
  BY <1>1, <1>2, <1>3, PTL DEF Spec

\* The page that a room takes is in the first RAM, has no leaf, and is neither the
\* image's nor a device's.
LEMMA RoomIsFree ==
  ASSUME ApartBoard, PartInv, at = "rooms", mapped \in 0 .. 3, NEW p \in Pages,
         p \in Touched(Room(mapped), PAGE)
  PROVE  RoomPage(p)
<1>1. /\ Board /\ OwnInv /\ TypeInv /\ facts \in Facts /\ Fits /\ Parts(leaf, at, mapped)
      /\ facts.image.base % PAGE = 0
  BY DEF ApartBoard, PartInv, OwnInv, TypeInv, Fits
<1>2. p \in RoomPages /\ PageBytes(p) \subseteq OwnedBy({"NXU"})
  BY <1>1, RoomJustified DEF Room
<1>3. /\ Aligned(Room(mapped)) /\ Room(mapped) + PAGE <= VA /\ ImageEnd <= Room(mapped)
      /\ RoomBase <= Room(mapped) /\ Room(mapped) < RoomBase + 4 * PAGE
  BY <1>1, RoomsAre
<1>4. PAGE \in Nat \ {0} /\ Room(mapped) \in Nat /\ p \in Nat /\ WORD \in Nat
  BY <1>3, RangeAssumption DEF RangeAssumption, Aligned, Pages
<1>5. p = Room(mapped)
  <2>1. Aligned(PAGE)
    BY <1>3, Steps
  <2>2. Room(mapped) <= p /\ p + PAGE <= Room(mapped) + PAGE
    BY <1>3, <2>1, TouchedIn
  <2> QED
    BY <1>4, <2>2
<1>6. leaf[p] = "none"
  BY <1>1, <1>5 DEF Parts
<1>7. ASSUME NEW i \in DOMAIN region, region[i].owner \in {"IMAGE", "MMIO"}
      PROVE  PageBytes(p) \cap Bytes(region[i].base, region[i].size) = {}
  <2>1. CASE region[i].owner = "MMIO"
    BY <1>1, <1>3, <1>5, <2>1, DeviceAway
  <2>2. CASE region[i].owner = "IMAGE"
    <3>1. region[i] = Whole(facts.image, "IMAGE")
      BY <1>1, <2>2, TableApart
    <3>2. region[i].base + region[i].size = ImageEnd
      BY <1>1, <3>1, ImageEnds DEF Whole
    <3>3. ImageEnd \in Nat
      BY <1>1, ImageEnds DEF Aligned
    <3> QED
      BY <1>3, <1>4, <1>5, <3>2, <3>3 DEF PageBytes, Bytes, Word
  <2> QED
    BY <1>7, <2>1, <2>2
<1>8. PageBytes(p) \cap OwnedBy({"IMAGE", "MMIO"}) = {}
  BY <1>7 DEF OwnedBy
<1> QED
  BY <1>2, <1>6, <1>8 DEF RoomPage

\* For words, pages and owner tables of any size, when RAM and the devices of every
\* board lie apart below VA: once the MMU is on, the map grows by the rooms' pages
\* only, each free and in NXU's RAM (room.c:407-417).
THEOREM OnlyRoomsGrow == ApartBoard => (Spec => ArmedGrowsByRoomsOnly)
<1> SUFFICES ASSUME ApartBoard PROVE Spec => ArmedGrowsByRoomsOnly
  OBVIOUS
<1>1. Init => PartInv
  BY PartInit
<1>2. PartInv /\ [Next]_vars => PartInv'
  BY PartNext
<1>3. PartInv /\ [Next]_vars =>
        [(at \in {"armed", "rooms", "run"}) =>
           \A p \in Pages : leaf'[p] # leaf[p] => RoomPage(p)]_vars
  <2> SUFFICES ASSUME PartInv, Next, at \in {"armed", "rooms", "run"}, NEW p \in Pages,
                      leaf'[p] # leaf[p]
               PROVE  RoomPage(p)
    OBVIOUS
  <2>1. PrivRoom
    BY DEF Next, AddOwner, StartMap, MapImage, MapDevices, Arm, TakeRooms, Run, Stay, Halt, vars
  <2>2. at = "rooms" /\ mapped \in 0 .. 3 /\ Map(Room(mapped), PAGE, "RW")
    BY <2>1 DEF PrivRoom, PartInv, OwnInv, TypeInv, Room
  <2>3. p \in Touched(Room(mapped), PAGE)
    BY <2>2, MapIs
  <2> QED
    BY <2>2, <2>3, RoomIsFree
<1> QED
  BY <1>1, <1>2, <1>3, PTL DEF Spec, ArmedGrowsByRoomsOnly

-----------------------------------------------------------------------------
(* Boards that are never refused                                            *)

\* RAM and the image are claimed first, in the table's order.
LEMMA ClaimsLast ==
  ASSUME facts \in Facts
  PROVE  \A k \in DOMAIN Claims :
           k > Len(facts.mem) + 1 => Claims[k].owner \in {"RESERVED", "MMIO"}
<1> DEFINE n    == Len(facts.mem)
           mem  == [i \in DOMAIN facts.mem |->
                      [base |-> facts.mem[i].base, size |-> facts.mem[i].size, owner |-> "NXU"]]
           img  == <<Whole(facts.image, "IMAGE")>>
           dtb  == Opt(facts.dtb, "RESERVED")
           gic  == <<Whole(facts.gicd, "MMIO"), Whole(facts.gicr, "MMIO")>>
           uart == Opt(facts.uart, "MMIO")
           pwrc == Opt(facts.pwrc, "MMIO")
           Late == {c \in Claim : c.owner \in {"RESERVED", "MMIO"}}
           Ok(s) == /\ s \in Seq(Claim)
                    /\ \A k \in 1 .. Len(s) : k > n + 1 => s[k].owner \in {"RESERVED", "MMIO"}
                    /\ Len(s) >= n + 1
<1>1. /\ facts.mem \in Seq(Ranges) /\ n \in Nat /\ DOMAIN facts.mem = 1 .. n
      /\ \A i \in DOMAIN facts.mem : facts.mem[i] \in Ranges
      /\ facts.image.base \in Word /\ facts.image.size \in Word
      /\ facts.dtb \subseteq Ranges /\ Devices(facts) \subseteq Ranges
  BY SpaceAssumption DEF SpaceAssumption, Accepted, Optionally, Devices
<1>2. \A r \in Ranges, o \in {"NXU", "IMAGE", "RESERVED", "MMIO"} :
        /\ [base |-> r.base, size |-> r.size, owner |-> o] \in Claim
        /\ Whole(r, o) \in Claim /\ Whole(r, o).owner = o
  BY UpIsWord DEF Ranges, Claim, Whole
<1>3. Whole(facts.image, "IMAGE") \in Claim
  BY <1>1, UpIsWord DEF Claim, Whole
<1>4. mem \in Seq(Claim) /\ Len(mem) = n
  <2>1. mem \in [1 .. n -> Claim]
    BY <1>1, <1>2
  <2> QED
    BY <1>1, <2>1
<1>5. img \in Seq(Claim) /\ Len(img) = 1
  BY <1>3
<1>6. \A r \in Ranges, o \in {"RESERVED", "MMIO"} : Whole(r, o) \in Late
  BY <1>2
<1>7. gic \in Seq(Late)
  <2>1. facts.gicd \in Ranges /\ facts.gicr \in Ranges
    BY <1>1 DEF Devices
  <2>2. Whole(facts.gicd, "MMIO") \in Late /\ Whole(facts.gicr, "MMIO") \in Late
    BY <1>6, <2>1
  <2> HIDE DEF Late
  <2> QED
    BY <2>2
<1>8. \A R \in SUBSET Ranges, o \in {"RESERVED", "MMIO"} : Opt(R, o) \in Seq(Late)
  <2> HIDE DEF Late
  <2> QED
    BY <1>6 DEF Opt
<1>9. dtb \in Seq(Late) /\ uart \in Seq(Late) /\ pwrc \in Seq(Late)
  <2>1. facts.uart \in SUBSET Ranges /\ facts.pwrc \in SUBSET Ranges
    BY <1>1 DEF Devices
  <2> HIDE DEF Late
  <2> QED
    BY <1>1, <1>8, <2>1
<1>10. Claims = ((((mem \o img) \o dtb) \o gic) \o uart) \o pwrc
  BY DEF Claims
<1> HIDE DEF mem, img, dtb, gic, uart, pwrc, n, Late
<1>11. Ok(mem \o img)
  <2>1. mem \o img \in Seq(Claim) /\ Len(mem \o img) = Len(mem) + Len(img)
    BY <1>4, <1>5, ConcatProperties
  <2>2. Len(mem \o img) = n + 1
    BY <1>1, <1>4, <1>5, <2>1
  <2> QED
    BY <1>1, <2>1, <2>2
<1>12. ASSUME NEW s, Ok(s), NEW t \in Seq(Late) PROVE Ok(s \o t)
  <2>1. /\ \A k \in 1 .. Len(t) : t[k] \in Late
        /\ Len(t) \in Nat /\ Len(s) \in Nat
    BY <1>12, LenProperties, ElementOfSeq
  <2>2. t \in Seq(Claim)
    <3>1. Late \subseteq Claim
      BY DEF Late
    <3> QED
      BY <3>1, SeqMonotonic
  <2>3. /\ s \o t \in Seq(Claim) /\ Len(s \o t) = Len(s) + Len(t)
        /\ \A k \in 1 .. Len(s) + Len(t) :
             (s \o t)[k] = IF k <= Len(s) THEN s[k] ELSE t[k - Len(s)]
    BY <1>12, <2>2, ConcatProperties
  <2>4. ASSUME NEW k \in 1 .. Len(s \o t), k > n + 1
        PROVE  (s \o t)[k].owner \in {"RESERVED", "MMIO"}
    <3>1. CASE k <= Len(s)
      <4>1. (s \o t)[k] = s[k] /\ k \in 1 .. Len(s)
        BY <2>1, <2>3, <2>4, <3>1
      <4> QED
        BY <1>12, <2>4, <4>1
    <3>2. CASE ~(k <= Len(s))
      <4>1. (s \o t)[k] = t[k - Len(s)] /\ k - Len(s) \in 1 .. Len(t)
        BY <2>1, <2>3, <2>4, <3>2
      <4> QED
        BY <2>1, <4>1 DEF Late
    <3> QED
      BY <3>1, <3>2
  <2> QED
    BY <1>1, <1>12, <2>1, <2>3, <2>4
<1>13. Ok(Claims)
  <2> HIDE DEF Ok
  <2>1. Ok((mem \o img) \o dtb)
    BY <1>9, <1>11, <1>12
  <2>2. Ok(((mem \o img) \o dtb) \o gic)
    BY <1>7, <1>12, <2>1
  <2>3. Ok((((mem \o img) \o dtb) \o gic) \o uart)
    BY <1>9, <1>12, <2>2
  <2> QED
    BY <1>9, <1>10, <1>12, <2>3
<1> QED
  BY <1>13, LenProperties DEF n

\* A claim of an honest board: it ends below the last address, a device's by a page,
\* and the first page of the image lies in the image and in RAM no smaller than it.
HoldsFirst(c) == RangeContains(c.base, c.size, facts.image.base, PAGE)
Fitting ==
  {c \in Claim :
     /\ c.size > 0 /\ c.base + c.size < WORD
     /\ c.owner = "MMIO" => c.base + c.size + PAGE < WORD
     /\ c.owner = "IMAGE" => c = Whole(facts.image, "IMAGE")
     /\ c.owner # "IMAGE" /\ HoldsFirst(c) => c.owner = "NXU" /\ facts.image.size <= c.size}

\* A range that ends two pages below the last address, in whole pages.
LEMMA UpFits ==
  ASSUME NEW b \in Word, NEW n \in Word, n # 0, b + n + 2 * PAGE < WORD
  PROVE  /\ Aligned(PageUp(n)) /\ n <= PageUp(n) /\ PageUp(n) < n + PAGE
         /\ b + PageUp(n) + PAGE < WORD
<1> DEFINE e == WORD - PAGE
<1>1. /\ WORD \in Nat /\ PAGE \in Nat \ {0} /\ PAGE < WORD /\ b \in Nat /\ n \in Nat
      /\ Aligned(WORD) /\ Aligned(PAGE)
  <2>1. WORD \in Nat /\ PAGE \in Nat \ {0} /\ PAGE < WORD /\ Aligned(WORD)
    BY RangeAssumption DEF RangeAssumption, Aligned
  <2> QED
    BY <2>1, Steps DEF Word
<1>2. Aligned(e) /\ e \in Word /\ n <= e
  <2>1. Aligned(e)
    BY <1>1, Steps
  <2> QED
    BY <1>1, <2>1 DEF Word
<1>3. Aligned(PageUp(n)) /\ n <= PageUp(n) /\ PageUp(n) < n + PAGE
  BY <1>2, UpIs
<1> QED
  BY <1>1, <1>3 DEF Aligned

\* The image of an honest board is a range of whole pages in the first RAM.
LEMMA HonestImage ==
  ASSUME facts \in Facts, Honest
  PROVE  /\ facts.image.base \in Word /\ facts.image.size \in Word
         /\ Aligned(facts.image.base) /\ Aligned(facts.image.size) /\ PAGE <= facts.image.size
         /\ facts.image.base + facts.image.size < WORD
         /\ facts.mem[1].base \in Word /\ facts.mem[1].size \in Word
         /\ RangeOk(facts.mem[1].base, facts.mem[1].size)
         /\ facts.mem[1].base + facts.mem[1].size < WORD
         /\ facts.mem[1].base <= facts.image.base
         /\ facts.image.base + facts.image.size <= facts.mem[1].base + facts.mem[1].size
<1> DEFINE base == facts.image.base
           size == facts.image.size
           ram  == facts.mem[1].base
           of   == facts.mem[1].size
<1>1. /\ base \in Word /\ size \in Word /\ ram \in Word /\ of \in Word
      /\ RangeContains(ram, of, base, size)
  BY FirstRam, SpaceAssumption DEF SpaceAssumption, Accepted
<1>2. base % PAGE = 0 /\ size % PAGE = 0
  BY DEF Honest
<1> HIDE DEF base, size, ram, of
<1>3. /\ RangeOk(ram, of) /\ RangeOk(base, size) /\ ram <= base
      /\ Plus(base, size) <= Plus(ram, of)
  BY <1>1 DEF RangeContains
<1>4. size > 0 /\ base + size < WORD /\ ram + of < WORD /\ base + size <= ram + of
  BY <1>1, <1>3, OkMeansEnds, OkMeansSum
<1>5. Aligned(base) /\ Aligned(size)
  BY <1>1, <1>2, RangeAssumption DEF Word, RangeAssumption, Aligned
<1>6. PAGE <= size
  <2>1. Aligned(0)
    BY RangeAssumption DEF RangeAssumption, Aligned
  <2>2. 0 + PAGE <= size
    BY <1>4, <1>5, <2>1, Steps
  <2> QED
    BY <2>2, RangeAssumption DEF RangeAssumption
<1> QED
  BY <1>1, <1>3, <1>4, <1>5, <1>6 DEF base, size, ram, of

\* A range that holds the first page of the image, of which at most a page is not
\* the claimant's own, has a byte of its own in the image.
LEMMA FirstShared ==
  ASSUME facts \in Facts, Honest, NEW b \in Word, NEW n \in Word, NEW up \in Word,
         up < n + PAGE, b + n < WORD, b + up < WORD,
         RangeContains(b, up, facts.image.base, PAGE)
  PROVE  /\ facts.image.base \in Bytes(b, n)
         /\ facts.image.base \in Bytes(facts.image.base, facts.image.size)
         /\ facts.image.base \in Bytes(facts.mem[1].base, facts.mem[1].size)
<1> DEFINE base == facts.image.base
           size == facts.image.size
           ram  == facts.mem[1].base
           of   == facts.mem[1].size
<1>1. /\ base \in Word /\ size \in Word /\ ram \in Word /\ of \in Word
      /\ PAGE <= size /\ base + size < WORD /\ ram + of < WORD
      /\ ram <= base /\ base + size <= ram + of
  BY HonestImage
<1>2. RangeContains(b, up, base, PAGE)
  OBVIOUS
<1> HIDE DEF base, size, ram, of
<1>3. /\ PAGE \in Word /\ PAGE \in Nat \ {0} /\ WORD \in Nat
      /\ base \in Nat /\ size \in Nat /\ ram \in Nat /\ of \in Nat
      /\ b \in Nat /\ n \in Nat /\ up \in Nat
  BY <1>1, RangeAssumption DEF RangeAssumption, Word
<1>4. /\ RangeOk(b, up) /\ RangeOk(base, PAGE) /\ b <= base
      /\ Plus(base, PAGE) <= Plus(b, up)
  BY <1>2 DEF RangeContains
<1>5. base + PAGE <= b + up
  BY <1>1, <1>3, <1>4, OkMeansSum
<1>6. b <= base /\ base < b + n /\ base < base + size /\ base < ram + of
  BY <1>1, <1>3, <1>4, <1>5
<1> QED
  BY <1>1, <1>3, <1>6, InBytes DEF base, size, ram, of

\* A device's claim.
LEMMA HonestDevice ==
  ASSUME facts \in Facts, Honest, NEW r \in Devices(facts)
  PROVE  Whole(r, "MMIO") \in Fitting
<1>1. /\ r \in Devs /\ r \in Ranges /\ r.size # 0
  <2>1. /\ facts.gicd \in Ranges /\ facts.gicr \in Ranges
        /\ facts.gicd.size # 0 /\ facts.gicr.size # 0
        /\ Optionally(facts.uart) /\ Optionally(facts.pwrc)
    BY SpaceAssumption DEF SpaceAssumption, Accepted
  <2> QED
    BY <2>1 DEF Optionally, Devices, Devs
<1>2. r.base \in Word /\ r.size \in Word /\ r.base + r.size + 2 * PAGE < WORD
  BY <1>1 DEF Ranges, Honest
<1>3. 1 \in DOMAIN facts.mem
  BY SpaceAssumption DEF SpaceAssumption, Accepted
<1>4. PagesOf(r) \cap PagesOf(facts.mem[1]) = {}
  BY <1>1, <1>3 DEF Honest
<1> DEFINE up == PageUp(r.size)
           b  == r.base
           n  == r.size
<1>5. up < n + PAGE /\ n <= up /\ b + up + PAGE < WORD /\ up \in Nat
  BY <1>1, <1>2, UpFits DEF Aligned
<1>6. /\ PAGE \in Nat /\ WORD \in Nat /\ b \in Nat /\ n \in Nat /\ n > 0
  BY <1>1, <1>2, RangeAssumption DEF RangeAssumption, Word
<1> HIDE DEF up, b, n
<1>7. up \in Word /\ up > 0 /\ b + up < WORD /\ b + n < WORD
  BY <1>5, <1>6 DEF Word
<1>8. ~RangeContains(b, up, facts.image.base, PAGE)
  <2>1. SUFFICES ASSUME RangeContains(b, up, facts.image.base, PAGE) PROVE FALSE
    OBVIOUS
  <2>2. b \in Word /\ n \in Word
    BY <1>2 DEF b, n
  <2>3. facts.image.base \in Bytes(b, n)
        /\ facts.image.base \in Bytes(facts.mem[1].base, facts.mem[1].size)
    BY <1>5, <1>7, <2>1, <2>2, FirstShared
  <2>4. /\ PageDown(facts.image.base) \in PagesOf(r)
        /\ PageDown(facts.image.base) \in PagesOf(facts.mem[1])
    BY <2>3 DEF PagesOf, b, n
  <2> QED
    BY <1>4, <2>4
<1>9. Whole(r, "MMIO") = [base |-> b, size |-> up, owner |-> "MMIO"]
  BY DEF Whole, b, up
<1>10. b \in Word
  BY <1>2 DEF b
<1> QED
  BY <1>5, <1>6, <1>7, <1>8, <1>9, <1>10 DEF Fitting, Claim, HoldsFirst

\* The DTB's claim.
LEMMA HonestDtb ==
  ASSUME facts \in Facts, Honest, NEW r \in facts.dtb
  PROVE  Whole(r, "RESERVED") \in Fitting
<1>1. /\ r \in Ranges /\ r.size # 0
      /\ ~RangeOverlap(r.base, r.size, facts.image.base, facts.image.size)
  BY SpaceAssumption DEF SpaceAssumption, Accepted, Optionally
<1>2. r.base \in Word /\ r.size \in Word /\ r.base + r.size + 2 * PAGE < WORD
  BY <1>1 DEF Ranges, Honest
<1> DEFINE up == PageUp(r.size)
           b  == r.base
           n  == r.size
<1>3. up < n + PAGE /\ n <= up /\ b + up + PAGE < WORD /\ up \in Nat
  BY <1>1, <1>2, UpFits DEF Aligned
<1>4. /\ PAGE \in Nat /\ WORD \in Nat /\ b \in Nat /\ n \in Nat /\ n > 0
      /\ b \in Word /\ n \in Word
  BY <1>1, <1>2, RangeAssumption DEF RangeAssumption, Word
<1> HIDE DEF up, b, n
<1>5. up \in Word /\ up > 0 /\ b + up < WORD /\ b + n < WORD
  BY <1>3, <1>4 DEF Word
<1>6. ~RangeContains(b, up, facts.image.base, PAGE)
  <2>1. SUFFICES ASSUME RangeContains(b, up, facts.image.base, PAGE) PROVE FALSE
    OBVIOUS
  <2> DEFINE base == facts.image.base
             size == facts.image.size
  <2>2. base \in Bytes(b, n) /\ base \in Bytes(base, size)
    BY <1>3, <1>4, <1>5, <2>1, FirstShared
  <2>3. base \in Word /\ size \in Word /\ RangeOk(base, size) /\ RangeOk(b, n)
    <3>1. base \in Word /\ size \in Word /\ PAGE <= size /\ base + size < WORD
      BY HonestImage
    <3> HIDE DEF base, size
    <3>2. size > 0
      BY <3>1, RangeAssumption DEF RangeAssumption, Word
    <3> QED
      BY <1>4, <1>5, <3>1, <3>2, OkMeansEnds
  <2>4. ~RangeOverlap(b, n, base, size)
    BY <1>1 DEF b, n
  <2> HIDE DEF base, size
  <2>5. Bytes(b, n) \cap Bytes(base, size) = {}
    BY <1>4, <2>3, <2>4, OverlapIsCommonByte
  <2> QED
    BY <2>2, <2>5
<1>7. Whole(r, "RESERVED") = [base |-> b, size |-> up, owner |-> "RESERVED"]
  BY DEF Whole, b, up
<1> QED
  BY <1>4, <1>5, <1>6, <1>7 DEF Fitting, Claim, HoldsFirst

\* A claim of RAM: a range other than the first holds no byte of the image.
LEMMA HonestRam ==
  ASSUME facts \in Facts, Honest, NEW i \in DOMAIN facts.mem
  PROVE  [base |-> facts.mem[i].base, size |-> facts.mem[i].size, owner |-> "NXU"] \in Fitting
<1> DEFINE b  == facts.mem[i].base
           n  == facts.mem[i].size
           ram == facts.mem[1].base
           of  == facts.mem[1].size
           base == facts.image.base
           size == facts.image.size
<1>1. facts.mem \in Seq(Ranges) /\ Len(facts.mem) > 0 /\ facts.mem[i] \in Ranges
  <2>1. facts.mem \in Seq(Ranges) /\ Len(facts.mem) > 0
    BY SpaceAssumption DEF SpaceAssumption, Accepted
  <2> QED
    BY <2>1
<1>2. b \in Word /\ n \in Word /\ RangeOk(b, n) /\ 1 \in DOMAIN facts.mem
  BY <1>1 DEF Ranges, Honest
<1>3. /\ ram \in Word /\ of \in Word /\ RangeOk(ram, of)
      /\ base \in Word /\ size \in Word /\ ram <= base /\ base + size <= ram + of
  BY HonestImage
<1>4. ASSUME i # 1 PROVE Bytes(b, n) \cap Bytes(ram, of) = {}
  <2>1. ~RangeOverlap(b, n, ram, of)
    BY <1>2, <1>4 DEF Honest, RamApart
  <2> HIDE DEF b, n, ram, of
  <2> QED
    BY <1>2, <1>3, <2>1, OverlapIsCommonByte
<1>5. i = 1 => b = ram /\ n = of
  OBVIOUS
<1> HIDE DEF b, n, ram, of, base, size
<1>6. n > 0 /\ b + n < WORD /\ n \in Nat /\ n < n + PAGE
  BY <1>2, OkMeansEnds, RangeAssumption DEF RangeAssumption, Word
<1>7. ASSUME RangeContains(b, n, base, PAGE) PROVE size <= n
  <2>1. base \in Bytes(b, n) /\ base \in Bytes(ram, of)
    BY <1>2, <1>6, <1>7, FirstShared DEF base, ram, of
  <2>2. i = 1
    BY <1>4, <2>1
  <2>3. n = of /\ ram \in Nat /\ of \in Nat /\ base \in Nat /\ size \in Nat
    BY <1>3, <1>5, <2>2, RangeAssumption DEF RangeAssumption, Word
  <2> QED
    BY <1>3, <2>3
<1> QED
  BY <1>2, <1>6, <1>7 DEF Fitting, Claim, HoldsFirst, b, n, base, size

\* The image's claim.
LEMMA HonestWhole ==
  ASSUME facts \in Facts, Honest
  PROVE  /\ PageUp(facts.image.size) = facts.image.size
         /\ Whole(facts.image, "IMAGE") \in Fitting /\ HoldsFirst(Whole(facts.image, "IMAGE"))
<1> DEFINE base == facts.image.base
           size == facts.image.size
<1>1. /\ base \in Word /\ size \in Word /\ Aligned(size) /\ PAGE <= size /\ base + size < WORD
  BY HonestImage
<1> HIDE DEF base, size
<1>2. PageUp(size) = size
  <2>1. size <= size
    BY <1>1, RangeAssumption DEF RangeAssumption, Word
  <2> QED
    BY <1>1, <2>1, UpIs
<1>3. /\ PAGE \in Word /\ PAGE \in Nat \ {0} /\ size > 0 /\ base + PAGE < WORD
      /\ base \in Nat /\ size \in Nat
  BY <1>1, RangeAssumption DEF RangeAssumption, Word
<1>4. RangeOk(base, size) /\ RangeOk(base, PAGE)
  BY <1>1, <1>3, OkMeansEnds
<1>5. Plus(base, PAGE) <= Plus(base, size)
  BY <1>1, <1>3, <1>4, OkMeansSum
<1>6. RangeContains(base, size, base, PAGE)
  BY <1>3, <1>4, <1>5 DEF RangeContains
<1>7. Whole(facts.image, "IMAGE") = [base |-> base, size |-> size, owner |-> "IMAGE"]
  BY <1>2 DEF Whole, base, size
<1>8. Whole(facts.image, "IMAGE") \in Fitting
  BY <1>1, <1>3, <1>7 DEF Fitting, Claim
<1>9. HoldsFirst(Whole(facts.image, "IMAGE"))
  BY <1>6, <1>7 DEF HoldsFirst, base
<1> QED
  BY <1>2, <1>8, <1>9 DEF size

\* All the claims of an honest board.
LEMMA HonestClaims ==
  ASSUME facts \in Facts, Honest
  PROVE  /\ Claims \in Seq(Fitting)
         /\ Len(facts.mem) + 1 \in DOMAIN Claims
         /\ Claims[Len(facts.mem) + 1] = Whole(facts.image, "IMAGE")
<1>1. Fitting \subseteq Claim
  BY DEF Fitting
<1> QED
  BY <1>1, HonestRam, HonestWhole, HonestDtb, HonestDevice, ClaimsAre

\* The parts of an honest image begin and end at pages below the last address.
LEMMA HonestEnds ==
  ASSUME facts \in Facts, Honest
  PROVE  /\ Aligned(TextEnd) /\ Aligned(RoEnd) /\ Aligned(ImageEnd)
         /\ facts.image.base < TextEnd /\ TextEnd < WORD /\ RoEnd < WORD /\ ImageEnd < WORD
<1> DEFINE base == facts.image.base
           size == facts.image.size
           text == facts.image.text
           ro   == facts.image.ro
<1>1. /\ base \in Word /\ size \in Word /\ Aligned(base) /\ Aligned(size)
      /\ PAGE <= size /\ base + size < WORD
  BY HonestImage
<1>2. text \in Word /\ ro \in Word
  BY SpaceAssumption DEF SpaceAssumption, Accepted
<1> HIDE DEF base, size, text, ro
<1>3. /\ PAGE \in Nat \ {0} /\ WORD \in Nat /\ base \in Nat /\ size \in Nat
      /\ \A x \in Word : x \in Nat /\ x < WORD
  BY <1>1, RangeAssumption DEF RangeAssumption, Word
<1>4. \A x \in Word : Aligned(PageUp(x)) /\ PageUp(x) < WORD
  <2>1. TAKE x \in Word
  <2>2. Plus(x, PAGE - 1) \in Nat
    BY <1>3 DEF Plus
  <2>3. Aligned(PageUp(x))
    BY <2>2, DownIs DEF PageUp
  <2> QED
    BY <1>3, <2>3, UpIsWord
<1>5. /\ Plus(base, PAGE) = base + PAGE /\ base + PAGE < WORD /\ base < base + PAGE
      /\ Plus(base, size) = base + size
  BY <1>1, <1>3 DEF Plus
<1>6. Aligned(base + PAGE) /\ Aligned(base + size)
  <2>1. Aligned(PAGE)
    BY <1>1, Steps
  <2> QED
    BY <1>1, <2>1, Steps
<1>7. Aligned(TextEnd) /\ base < TextEnd /\ TextEnd < WORD
  <2>1. TextEnd = IF PageUp(text) <= base THEN base + PAGE ELSE PageUp(text)
    BY <1>5 DEF TextEnd, base, text
  <2>2. CASE PageUp(text) <= base
    BY <1>5, <1>6, <2>1, <2>2
  <2>3. CASE ~(PageUp(text) <= base)
    <3>1. TextEnd = PageUp(text) /\ Aligned(PageUp(text)) /\ PageUp(text) < WORD
      BY <1>2, <1>4, <2>1, <2>3
    <3> QED
      BY <1>3, <2>3, <3>1 DEF Aligned
  <2> QED
    BY <2>2, <2>3
<1>8. Aligned(RoEnd) /\ RoEnd < WORD
  <2>1. RoEnd = IF PageUp(ro) < TextEnd THEN TextEnd ELSE PageUp(ro)
    BY DEF RoEnd, ro
  <2>2. Aligned(PageUp(ro)) /\ PageUp(ro) < WORD
    BY <1>2, <1>4
  <2> QED
    BY <1>7, <2>1, <2>2
<1>9. Aligned(ImageEnd) /\ ImageEnd < WORD
  <2>1. ImageEnd = PageUp(base + size)
    BY <1>5 DEF ImageEnd, base, size
  <2>2. base + size \in Word
    BY <1>1, <1>3 DEF Word
  <2> QED
    BY <1>4, <2>1, <2>2
<1> QED
  BY <1>7, <1>8, <1>9 DEF base

\* A call of nxu_mmu_map for a range of pages that ends below the last address can
\* only find the pool of tables empty.
LEMMA MapPages ==
  ASSUME NEW b, NEW n, NEW perm, Map(b, n, perm), Aligned(b), Aligned(n), 0 < n, b + n < WORD
  PROVE  why' \in {why, "pt"}
<1>1. b \in Word /\ n \in Word /\ b \in Nat /\ n \in Nat
  BY RangeAssumption DEF RangeAssumption, Word, Aligned
<1>2. RangeOk(b, n) /\ b % PAGE = 0 /\ n % PAGE = 0
  BY <1>1, OkMeansEnds DEF Aligned
<1> QED
  BY <1>2 DEF Map, Halt

\* S6's calls for the parts of an honest image ...
LEMMA HonestParts ==
  ASSUME facts \in Facts, Honest, MapImage
  PROVE  why' \in {why, "pt"}
<1> DEFINE base == facts.image.base
<1>1. /\ Aligned(base) /\ Aligned(TextEnd) /\ Aligned(RoEnd) /\ Aligned(ImageEnd)
      /\ base < TextEnd /\ TextEnd < WORD /\ RoEnd < WORD /\ ImageEnd < WORD
  BY HonestEnds, HonestImage
<1>2. ASSUME NEW from, NEW to, NEW perm, Aligned(from), Aligned(to), from < to, to < WORD,
             Map(from, to - from, perm)
      PROVE  why' \in {why, "pt"}
  <2>1. from \in Nat /\ to \in Nat
    BY <1>2 DEF Aligned
  <2>2. Aligned(to - from) /\ 0 < to - from /\ from + (to - from) < WORD
    BY <1>2, <2>1, Steps
  <2> QED
    BY <1>2, <2>2, MapPages
<1>3. ASSUME NEW from, NEW to, NEW perm, Aligned(from), Aligned(to), to < WORD,
             MapPart(from, to, perm)
      PROVE  why' \in {why, "pt"}
  BY <1>2, <1>3 DEF MapPart
<1>4. \/ Map(base, TextEnd - base, "RX")
      \/ MapPart(TextEnd, RoEnd, "R")
      \/ MapPart(RoEnd, ImageEnd, "RW")
  BY DEF MapImage
<1> HIDE DEF base
<1> QED
  BY <1>1, <1>2, <1>3, <1>4

\* ... and for its devices.
LEMMA HonestDevices ==
  ASSUME facts \in Facts, Honest, NEW r \in Fitting, MapDevice(r)
  PROVE  why' \in {why, "pt"}
<1>1. CASE r.owner # "MMIO"
  BY <1>1 DEF MapDevice
<1>2. CASE r.owner = "MMIO"
  <2> DEFINE b   == PageDown(r.base)
             sum == r.size + (r.base - b)
             e   == WORD - PAGE
  <2>1. /\ r.base \in Word /\ r.size \in Word /\ r.size > 0 /\ r.base + r.size + PAGE < WORD
    BY <1>2 DEF Fitting, Claim
  <2>2. /\ PAGE \in Nat \ {0} /\ WORD \in Nat /\ PAGE < WORD /\ Aligned(WORD)
        /\ r.base \in Nat /\ r.size \in Nat
    BY <2>1, RangeAssumption DEF RangeAssumption, Word, Aligned
  <2>3. Aligned(b) /\ b \in Nat /\ b <= r.base
    BY <2>2, DownIs DEF Aligned
  <2> HIDE DEF b
  <2>4. sum \in Nat /\ b + sum = r.base + r.size /\ sum > 0 /\ b + sum + PAGE < WORD
    BY <2>1, <2>2, <2>3
  <2>5. sum = Plus(r.size, r.base - b)
    BY <2>2, <2>3, <2>4 DEF Plus
  <2>6. DeviceMap(r) = [base |-> b, size |-> PageUp(sum), perm |-> "DEV"]
    BY <2>5 DEF DeviceMap, b
  <2>7. Map(b, PageUp(sum), "DEV")
    BY <1>2, <2>6 DEF MapDevice
  <2> HIDE DEF sum
  <2>8. Aligned(e) /\ e \in Word /\ sum \in Word /\ sum <= e
    <3>1. Aligned(PAGE)
      BY <2>2, Steps
    <3>2. Aligned(e)
      BY <2>2, <3>1, Steps
    <3> QED
      BY <2>2, <2>3, <2>4, <3>2 DEF Word
  <2>9. Aligned(PageUp(sum)) /\ sum <= PageUp(sum) /\ PageUp(sum) < sum + PAGE
    BY <2>8, UpIs
  <2>10. 0 < PageUp(sum) /\ b + PageUp(sum) < WORD
    BY <2>2, <2>3, <2>4, <2>9 DEF Aligned
  <2> QED
    BY <2>3, <2>7, <2>9, <2>10, MapPages
<1> QED
  BY <1>1, <1>2

\* Until it halts, S5 has recorded the claims in their order; S6 sees all of them; and
\* the rooms' pages are in the first RAM.
HonestInv ==
  /\ TypeInv
  /\ Len(region) <= Len(Claims) /\ \A k \in DOMAIN region : region[k] = Claims[k]
  /\ at \notin {"own", "halt"} => Len(region) = Len(Claims)
  /\ at = "rooms" =>
       RangeContains(facts.mem[1].base, facts.mem[1].size, RoomBase, 4 * PAGE)
  /\ HonestFactsAreMapped

\* The owner of the image's first page is the image: of the regions that hold it none
\* is smaller, and none of its size comes later (ownership.c:39-58).
LEMMA HonestOwner ==
  ASSUME HonestInv, Honest, at = "map"
  PROVE  OwnerOf(facts.image.base, PAGE) = "IMAGE"
<1> DEFINE n     == Len(facts.mem)
           hold  == {i \in DOMAIN region :
                       RangeContains(region[i].base, region[i].size, facts.image.base,
                                     IF PAGE = 0 THEN 1 ELSE PAGE)}
           best  == {i \in hold : \A j \in hold :
                       \/ region[i].size < region[j].size
                       \/ region[i].size = region[j].size /\ j <= i}
<1>1. /\ facts \in Facts /\ Len(region) = Len(Claims) /\ region \in Seq(Safe)
      /\ \A k \in DOMAIN region : region[k] = Claims[k]
  BY DEF HonestInv, TypeInv
<1>2. /\ Claims \in Seq(Fitting) /\ n + 1 \in DOMAIN Claims
      /\ Claims[n + 1] = Whole(facts.image, "IMAGE")
  BY <1>1, HonestClaims
<1>3. /\ DOMAIN region = 1 .. Len(region) /\ DOMAIN region = DOMAIN Claims /\ Len(region) \in Nat
      /\ \A k \in DOMAIN region : region[k] \in Fitting
  BY <1>1, <1>2, LenProperties, ElementOfSeq
<1>4. \A k \in DOMAIN region : k > n + 1 => region[k].owner \in {"RESERVED", "MMIO"}
  BY <1>1, <1>3, ClaimsLast
<1>5. /\ n + 1 \in DOMAIN region /\ region[n + 1] = Whole(facts.image, "IMAGE")
      /\ region[n + 1].owner = "IMAGE" /\ region[n + 1].size = facts.image.size
      /\ HoldsFirst(region[n + 1])
  <2>1. region[n + 1] = Whole(facts.image, "IMAGE") /\ n + 1 \in DOMAIN region
    BY <1>1, <1>2, <1>3
  <2> QED
    BY <1>1, <2>1, HonestWhole DEF Whole
<1>6. \A i : i \in hold <=> i \in DOMAIN region /\ HoldsFirst(region[i])
  BY RangeAssumption DEF RangeAssumption, HoldsFirst
<1>7. n \in Nat
  <2>1. facts.mem \in Seq(Ranges)
    BY <1>1, SpaceAssumption DEF SpaceAssumption, Accepted
  <2> QED
    BY <2>1, LenProperties
<1>8. facts.image.size \in Nat /\ \A i \in DOMAIN region : region[i].size \in Nat
  <2>1. facts.image.size \in Word
    BY <1>1, HonestImage
  <2> QED
    BY <1>3, <2>1, RangeAssumption DEF RangeAssumption, Word, Fitting, Claim
<1> HIDE DEF hold, n
<1>9. n + 1 \in hold
  BY <1>5, <1>6
<1>10. ASSUME NEW i \in hold
       PROVE  /\ i \in DOMAIN region /\ i \in Int
              /\ \/ region[i].owner = "IMAGE" /\ region[i].size = facts.image.size
                 \/ region[i].owner = "NXU" /\ facts.image.size <= region[i].size
              /\ i <= n + 1
  <2>1. i \in DOMAIN region /\ HoldsFirst(region[i]) /\ region[i] \in Fitting
    BY <1>3, <1>6
  <2>2. \/ region[i].owner = "IMAGE" /\ region[i].size = facts.image.size
        \/ region[i].owner = "NXU" /\ facts.image.size <= region[i].size
    <3>1. CASE region[i].owner = "IMAGE"
      <4>1. region[i] = Whole(facts.image, "IMAGE")
        BY <2>1, <3>1 DEF Fitting
      <4> QED
        BY <1>5, <3>1, <4>1
    <3>2. CASE region[i].owner # "IMAGE"
      BY <2>1, <3>2 DEF Fitting
    <3> QED
      BY <3>1, <3>2
  <2>3. i \in Int
    BY <1>3, <2>1
  <2>4. ~(i > n + 1)
    BY <1>4, <2>1, <2>2
  <2> QED
    BY <1>7, <2>1, <2>2, <2>3, <2>4
<1>11. n + 1 \in best
  <2>1. ASSUME NEW j \in hold
        PROVE  \/ region[n + 1].size < region[j].size
               \/ region[n + 1].size = region[j].size /\ j <= n + 1
    BY <1>5, <1>8, <1>10
  <2> QED
    BY <1>9, <2>1
<1>12. ASSUME NEW i \in best PROVE region[i].owner = "IMAGE"
  <2>1. /\ i \in hold
        /\ \/ region[i].size < region[n + 1].size
           \/ region[i].size = region[n + 1].size /\ n + 1 <= i
    BY <1>9, <1>12
  <2>2. /\ i \in DOMAIN region /\ i \in Int /\ i <= n + 1
        /\ \/ region[i].owner = "IMAGE" /\ region[i].size = facts.image.size
           \/ region[i].owner = "NXU" /\ facts.image.size <= region[i].size
    BY <1>10, <2>1
  <2>3. n + 1 <= i \/ region[i].owner = "IMAGE"
    BY <1>5, <1>8, <2>1, <2>2
  <2>4. CASE n + 1 <= i
    <3>1. i = n + 1
      BY <1>7, <2>2, <2>4
    <3> QED
      BY <1>5, <3>1
  <2> QED
    BY <2>3, <2>4
<1>13. OwnerOf(facts.image.base, PAGE)
         = IF hold = {} THEN "UNKNOWN" ELSE region[CHOOSE i \in best : TRUE].owner
  BY DEF OwnerOf, hold
<1> HIDE DEF best
<1>14. (CHOOSE i \in best : TRUE) \in best
  BY <1>11
<1> QED
  BY <1>9, <1>12, <1>13, <1>14

\* What a call keeps of the invariant.
LEMMA HonestMapKeeps ==
  ASSUME HonestInv, TypeInv', NEW b, NEW n, NEW perm, Map(b, n, perm),
         at \in {"map", "rooms"}, Honest => why' \in {why, "pt"}
  PROVE  HonestInv'
<1>1. UNCHANGED <<facts, region>> /\ at' \in {at, "halt"}
  BY MapIs
<1>2. Claims' = Claims /\ RoomBase' = RoomBase /\ Honest' = Honest
  BY <1>1 DEF Claims, RoomBase, ImageEnd, Honest, Devs, RamApart, PagesOf, Whole, Opt
<1>3. HonestFactsAreMapped'
  BY <1>2 DEF HonestInv, HonestFactsAreMapped
<1> QED
  BY <1>1, <1>2, <1>3 DEF HonestInv

\* Every step keeps the invariant.
LEMMA HonestNext == HonestInv /\ [Next]_vars => HonestInv'
<1> SUFFICES ASSUME HonestInv, [Next]_vars PROVE HonestInv'
  OBVIOUS
<1>1. TypeInv /\ TypeInv' /\ facts \in Facts
  BY TypeNext DEF HonestInv, TypeInv
<1>2. ASSUME UNCHANGED facts
      PROVE  Claims' = Claims /\ RoomBase' = RoomBase /\ Honest' = Honest
  BY <1>2 DEF Claims, RoomBase, ImageEnd, Honest, Devs, RamApart, PagesOf, Whole, Opt
<1>3. ASSUME UNCHANGED <<facts, region>>, at \notin {"own", "halt"}, at' # "own",
             at' = "rooms" =>
               RangeContains(facts.mem[1].base, facts.mem[1].size, RoomBase, 4 * PAGE),
             Honest => why' \in {why, "pt", "no_ram"}
      PROVE  HonestInv'
  <2>1. Claims' = Claims /\ RoomBase' = RoomBase /\ Honest' = Honest
    BY <1>2, <1>3
  <2>2. HonestFactsAreMapped'
    BY <1>3, <2>1 DEF HonestInv, HonestFactsAreMapped
  <2> QED
    BY <1>1, <1>3, <2>1, <2>2 DEF HonestInv
<1>4. CASE AddOwner
  <2>1. UNCHANGED facts /\ at = "own"
    BY <1>4 DEF AddOwner, Halt
  <2>2. Claims' = Claims /\ RoomBase' = RoomBase /\ Honest' = Honest
    BY <1>2, <2>1
  <2>3. Len(region) \in Nat /\ region \in Seq(Safe)
    BY <1>1, LenProperties DEF TypeInv
  <2>4. CASE region' # region
    <3> DEFINE c == Claims[Len(region) + 1]
    <3>1. /\ Len(region) < Len(Claims) /\ region' = Append(region, c) /\ c \in Safe
          /\ UNCHANGED <<at, why>>
      BY <1>1, <1>4, <2>4, Appended
    <3> HIDE DEF c
    <3>2. /\ Len(region') = Len(region) + 1 /\ DOMAIN region' = 1 .. Len(region) + 1
          /\ \A k \in 1 .. Len(region) : region'[k] = region[k]
          /\ region'[Len(region) + 1] = c
      BY <2>3, <3>1, AppendProperties
    <3>3. \A k \in DOMAIN region' : region'[k] = Claims[k]
      <4>1. TAKE k \in DOMAIN region'
      <4>2. CASE k = Len(region) + 1
        BY <3>2, <4>2 DEF c
      <4>3. CASE k \in 1 .. Len(region)
        <5>1. k \in DOMAIN region
          BY <2>3, <4>3, LenProperties
        <5> QED
          BY <3>2, <4>3, <5>1 DEF HonestInv
      <4> QED
        BY <2>3, <3>2, <4>2, <4>3
    <3>4. Len(region') <= Len(Claims)
      <4>1. Len(Claims) \in Nat
        BY <1>1, ClaimsTyped, LenProperties
      <4> QED
        BY <2>3, <3>1, <3>2, <4>1
    <3> QED
      BY <1>1, <2>1, <2>2, <3>1, <3>3, <3>4 DEF HonestInv, HonestFactsAreMapped
  <2>5. CASE region' = region
    <3>1. ASSUME Honest PROVE FALSE
      <4> DEFINE c == Claims[Len(region) + 1]
      <4>1. Claims \in Seq(Fitting) /\ Len(Claims) <= OWNER_MAX
        BY <1>1, <3>1, HonestClaims DEF Honest
      <4>2. Len(region) < Len(Claims) /\ Len(Claims) \in Nat /\ OWNER_MAX \in Nat
        BY <1>4, <4>1, LenProperties, SpaceAssumption DEF AddOwner, SpaceAssumption
      <4>3. Len(region) + 1 \in 1 .. Len(Claims)
        BY <2>3, <4>2
      <4>4. c \in Fitting
        BY <4>1, <4>3, LenProperties, ElementOfSeq
      <4>5. RangeOk(c.base, c.size)
        BY <4>4, OkMeansEnds DEF Fitting, Claim
      <4> HIDE DEF c
      <4>6. ~(Len(region) >= OWNER_MAX)
        BY <2>3, <4>1, <4>2
      <4>7. region' = Append(region, c)
        BY <1>4, <4>5, <4>6 DEF AddOwner, c
      <4>8. c \in Safe
        BY <4>4 DEF Fitting, Safe, c
      <4>9. Len(region') = Len(region) + 1
        BY <2>3, <4>7, <4>8, AppendProperties
      <4> QED
        BY <2>3, <2>5, <4>9
    <3>2. at' \in {"own", "halt"}
      BY <1>4 DEF AddOwner, Halt
    <3> QED
      BY <1>1, <2>1, <2>2, <2>5, <3>1, <3>2 DEF HonestInv, HonestFactsAreMapped
  <2> QED
    BY <2>4, <2>5
<1>5. CASE StartMap
  <2>1. /\ UNCHANGED <<facts, region, why>> /\ at' = "map" /\ Len(region) = Len(Claims)
    BY <1>5 DEF StartMap
  <2> QED
    BY <1>1, <1>2, <2>1 DEF HonestInv, HonestFactsAreMapped
<1>6. CASE MapImage
  <2>1. Honest => why' \in {why, "pt"}
    BY <1>1, <1>6, HonestParts
  <2>2. UNCHANGED <<facts, region>> /\ at = "map" /\ at' \in {"map", "halt"}
    BY <1>6, MapIs DEF MapImage, MapPart
  <2> QED
    BY <1>3, <2>1, <2>2
<1>7. CASE MapDevices
  <2>1. /\ at = "map" /\ mapped - 2 \in 1 .. Len(region) /\ MapDevice(region[mapped - 2])
        /\ region \in Seq(Safe)
    BY <1>1, <1>7, LenProperties DEF MapDevices, TypeInv
  <2>2. ASSUME Honest PROVE why' \in {why, "pt"}
    <3>1. Claims \in Seq(Fitting) /\ Len(region) = Len(Claims)
      BY <1>1, <2>1, <2>2, HonestClaims DEF HonestInv
    <3>2. region[mapped - 2] = Claims[mapped - 2]
      BY <2>1, LenProperties DEF HonestInv
    <3>3. region[mapped - 2] \in Fitting
      BY <2>1, <3>1, <3>2, LenProperties, ElementOfSeq
    <3> QED
      BY <1>1, <2>1, <2>2, <3>3, HonestDevices
  <2>3. UNCHANGED <<facts, region>> /\ at' \in {"map", "halt"}
    BY <2>1, MapIs DEF MapDevice
  <2> QED
    BY <1>3, <2>1, <2>2, <2>3
<1>8. CASE Arm
  <2>1. at = "map" /\ UNCHANGED <<facts, region>> /\ at' \in {"armed", "halt"}
    BY <1>8 DEF Arm, Halt
  <2>2. Honest => why' = why
    BY <1>8, <2>1, HonestOwner DEF Arm
  <2> QED
    BY <1>3, <2>1, <2>2
<1>9. CASE TakeRooms
  <2>1. /\ at = "armed" /\ UNCHANGED <<facts, region>> /\ at' \in {"rooms", "halt"}
        /\ at' = "rooms" =>
             RangeContains(facts.mem[1].base, facts.mem[1].size, RoomBase, 4 * PAGE)
        /\ why' \in {why, "no_ram"}
    BY <1>9 DEF TakeRooms, Halt
  <2> QED
    BY <1>3, <2>1
<1>10. CASE PrivRoom
  <2>1. /\ at = "rooms" /\ mapped \in 0 .. 3 /\ Map(RoomBase + mapped * PAGE, PAGE, "RW")
        /\ RangeContains(facts.mem[1].base, facts.mem[1].size, RoomBase, 4 * PAGE)
    BY <1>1, <1>10 DEF PrivRoom, HonestInv, TypeInv
  <2>2. ASSUME Honest PROVE why' \in {why, "pt"}
    <3> DEFINE ram == facts.mem[1].base
               of  == facts.mem[1].size
               b   == RoomBase + mapped * PAGE
    <3>1. Aligned(RoomBase) /\ RoomBase < WORD
      BY <1>1, <2>2, HonestEnds DEF RoomBase
    <3>2. /\ ram \in Word /\ of \in Word /\ ram + of < WORD
      BY <1>1, <2>2, HonestImage
    <3>3. /\ WORD \in Nat /\ PAGE \in Nat \ {0} /\ 4 * PAGE < WORD /\ 4 * PAGE \in Word
          /\ RoomBase \in Word /\ Aligned(WORD)
      BY <3>1, SpaceAssumption, RangeAssumption
      DEF SpaceAssumption, RangeAssumption, Word, Aligned
    <3>4. RangeOk(RoomBase, 4 * PAGE)
      BY <2>1 DEF RangeContains
    <3>5. RoomBase + 4 * PAGE < WORD
      BY <3>3, <3>4, OkMeansEnds
    <3>6. Aligned(PAGE) /\ Aligned(b) /\ b + PAGE <= RoomBase + 4 * PAGE
      <4>1. Aligned(PAGE)
        BY <3>1, Steps
      <4>2. Aligned(RoomBase + PAGE)
        BY <3>1, <4>1, Steps
      <4>3. Aligned((RoomBase + PAGE) + PAGE)
        BY <4>1, <4>2, Steps
      <4>4. Aligned(((RoomBase + PAGE) + PAGE) + PAGE)
        BY <4>1, <4>3, Steps
      <4>5. RoomBase \in Nat /\ PAGE \in Nat
        BY <3>1, <3>3 DEF Aligned
      <4>6. CASE mapped = 0
        <5>1. b = RoomBase
          BY <4>5, <4>6
        <5> QED
          BY <3>1, <4>1, <4>5, <5>1
      <4>7. CASE mapped = 1
        <5>1. b = RoomBase + PAGE
          BY <4>5, <4>7
        <5> QED
          BY <4>1, <4>2, <4>5, <5>1
      <4>8. CASE mapped = 2
        <5>1. b = (RoomBase + PAGE) + PAGE
          BY <4>5, <4>8
        <5> QED
          BY <4>1, <4>3, <4>5, <5>1
      <4>9. CASE mapped = 3
        <5>1. b = ((RoomBase + PAGE) + PAGE) + PAGE
          BY <4>5, <4>9
        <5> QED
          BY <4>1, <4>4, <4>5, <5>1
      <4> QED
        BY <2>1, <4>6, <4>7, <4>8, <4>9
    <3> HIDE DEF b
    <3>7. b + PAGE < WORD
      BY <3>3, <3>5, <3>6 DEF Aligned, Word
    <3>8. Map(b, PAGE, "RW") /\ 0 < PAGE
      BY <2>1, <3>3 DEF b
    <3> QED
      BY <3>6, <3>7, <3>8, MapPages
  <2>3. UNCHANGED <<facts, region>> /\ at' \in {"rooms", "halt"}
    BY <2>1, MapIs
  <2> QED
    BY <1>3, <2>1, <2>2, <2>3
<1>11. CASE Run
  <2>1. at = "rooms" /\ UNCHANGED <<facts, region, why>> /\ at' = "run"
    BY <1>11 DEF Run
  <2> QED
    BY <1>3, <2>1
<1>12. CASE UNCHANGED vars
  <2>1. UNCHANGED <<facts, region, at, why>>
    BY <1>12 DEF vars
  <2> QED
    BY <1>1, <1>2, <2>1 DEF HonestInv, HonestFactsAreMapped
<1> QED
  BY <1>4, <1>5, <1>6, <1>7, <1>8, <1>9, <1>10, <1>11, <1>12 DEF Next, Stay

\* Before S5 nothing is recorded and nothing halted.
LEMMA HonestInit == Init => HonestInv
<1> SUFFICES ASSUME Init PROVE HonestInv
  OBVIOUS
<1>1. TypeInv /\ region = <<>> /\ at = "own" /\ why = "none" /\ facts \in Facts
  BY TypeInit DEF Init
<1>2. Len(Claims) \in Nat
  BY <1>1, ClaimsTyped, LenProperties
<1>3. Len(region) = 0 /\ DOMAIN region = {}
  BY <1>1, EmptySeq
<1> QED
  BY <1>1, <1>2, <1>3 DEF HonestInv, HonestFactsAreMapped

\* For words, pages and owner tables of any size: S5 and S6 never refuse a board that
\* is as it should be, however its devices lie among each other and also when its RAM
\* is no larger than the image (ownership.c:25-58, mmu_policy.c:34-69).
THEOREM HonestBoardsAreMapped == Spec => []HonestFactsAreMapped
<1>1. HonestInv => HonestFactsAreMapped
  BY DEF HonestInv
<1> QED
  BY <1>1, HonestInit, HonestNext, PTL DEF Spec
=============================================================================
