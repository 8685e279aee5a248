----------------------------- MODULE FactsProofs -----------------------------
(***************************************************************************)
(* Facts.tla and Fdt.tla for any machine: what S4 accepts is what somebody   *)
(* said, what the board said, and bears the load of the later steps, also    *)
(* when the DTB is read token by token from a blob of which nothing is       *)
(* known; and what S5 is handed over is what Space.tla takes.                *)
(***************************************************************************)
EXTENDS Fdt, SequenceTheorems, FiniteSetTheorems, WellFoundedInduction, TLAPS

-----------------------------------------------------------------------------
(* Sequences                                                                *)

\* A function on 1 .. n with its values in a set is a sequence of the set.
LEMMA SeqOf ==
  ASSUME NEW S, NEW n \in Nat, NEW f \in [1 .. n -> S]
  PROVE  f \in Seq(S) /\ Len(f) = n /\ DOMAIN f = 1 .. n
<1>1. f \in Seq(S)
  BY SeqDef
<1>2. DOMAIN f = 1 .. n
  OBVIOUS
<1> QED
  BY <1>1, <1>2, LenProperties

\* A sequence is empty or has a first element.
LEMMA FirstOf ==
  ASSUME NEW S, NEW s \in Seq(S)
  PROVE  /\ Len(s) \in Nat /\ DOMAIN s = 1 .. Len(s)
         /\ s # <<>> => 1 \in DOMAIN s /\ s[1] \in S /\ Len(s) >= 1
         /\ \A i \in DOMAIN s : s[i] \in S
<1>1. Len(s) \in Nat /\ DOMAIN s = 1 .. Len(s) /\ s \in [1 .. Len(s) -> S]
  BY LenProperties
<1>2. s # <<>> => Len(s) \in Nat \ {0}
  BY EmptySeq
<1> QED
  BY <1>1, <1>2

-----------------------------------------------------------------------------
(* Values, sources and grades                                               *)

\* One source makes a fact single or, when it is the CPU's own, observed; more
\* than one corroborate it (facts.c:29-61).
LEMMA GradesOfSources ==
  /\ GradeOf({"DTB"}) = "single" /\ GradeOf({"BOARD"}) = "single"
  /\ GradeOf({"OBS"}) = "observed"
  /\ GradeOf({"DTB", "BOARD"}) = "corroborated"
  /\ GradeOf({"DTB", "OBS"}) = "corroborated"
  /\ GradeOf({"BOARD", "OBS"}) = "corroborated"
  /\ GradeOf({"DTB", "BOARD", "OBS"}) = "corroborated"
<1>1. Cardinality({"DTB"}) = 1 /\ Cardinality({"BOARD"}) = 1
  BY FS_Singleton
<1>2. /\ IsFiniteSet({"DTB", "BOARD"}) /\ IsFiniteSet({"DTB", "OBS"})
      /\ IsFiniteSet({"BOARD", "OBS"}) /\ IsFiniteSet({"DTB", "BOARD", "OBS"})
  <2>1. /\ {"DTB", "BOARD"} = {"DTB"} \cup {"BOARD"} /\ {"DTB", "OBS"} = {"DTB"} \cup {"OBS"}
        /\ {"BOARD", "OBS"} = {"BOARD"} \cup {"OBS"}
        /\ {"DTB", "BOARD", "OBS"} = {"DTB", "BOARD"} \cup {"OBS"}
    OBVIOUS
  <2>2. IsFiniteSet({"DTB"}) /\ IsFiniteSet({"BOARD"})
    BY FS_Singleton
  <2>3. /\ IsFiniteSet({"DTB", "BOARD"}) /\ IsFiniteSet({"DTB", "OBS"})
        /\ IsFiniteSet({"BOARD", "OBS"})
    BY <2>1, <2>2, FS_AddElement
  <2> QED
    BY <2>1, <2>3, FS_AddElement
<1>3. \A S : IsFiniteSet(S) => (Cardinality(S) = 1 => \E x : S = {x})
  BY FS_Singleton
<1>4. /\ ~\E x : {"DTB", "BOARD"} = {x}
      /\ ~\E x : {"DTB", "OBS"} = {x}
      /\ ~\E x : {"BOARD", "OBS"} = {x}
      /\ ~\E x : {"DTB", "BOARD", "OBS"} = {x}
  OBVIOUS
<1>5. /\ Cardinality({"DTB", "BOARD"}) # 1 /\ Cardinality({"DTB", "OBS"}) # 1
      /\ Cardinality({"BOARD", "OBS"}) # 1 /\ Cardinality({"DTB", "BOARD", "OBS"}) # 1
  BY <1>2, <1>3, <1>4
<1>6. /\ {"DTB"} # {"OBS"} /\ {"BOARD"} # {"OBS"} /\ {"DTB", "BOARD"} # {"OBS"}
      /\ {"DTB", "OBS"} # {"OBS"} /\ {"BOARD", "OBS"} # {"OBS"}
      /\ {"DTB", "BOARD", "OBS"} # {"OBS"}
  OBVIOUS
<1> QED
  BY <1>1, <1>5, <1>6 DEF GradeOf

\* merge_ctl, case by case (facts.c:29-61).
LEMMA MergeCases ==
  ASSUME NEW c
  PROVE  /\ c.found = TRUE /\ c.board.size # 0 =>
              Merge(c) = Graded(c.dtb, {"DTB", "BOARD"}, "corroborated")
         /\ c.found = TRUE /\ c.board.size = 0 => Merge(c) = Graded(c.dtb, {"DTB"}, "single")
         /\ c.found = FALSE /\ c.board.size # 0 =>
              Merge(c) = Graded(c.board, {"BOARD"}, "single")
         /\ c.found = FALSE /\ c.board.size = 0 => Merge(c) = NoFact
  BY DEF Merge

-----------------------------------------------------------------------------
(* The invariant of S3 and S4. What the steps of S3 leave is typed, in       *)
(* bounds, and names no CPU twice; each group of S4 leaves its facts and the *)
(* checks it has passed, and no later step touches what they were made of.   *)

FactOf(T) == [value : T, source : SUBSET Sources, grade : Grades]

CandType ==
  [valid : BOOLEAN, mem : Seq(Ranges), cpu : Seq(Affinities), gicd : Ranges,
   gicr : Ranges, uart : SUBSET Ranges, psci : Methods, ppi : Nat]

FactsType ==
  [mem : Seq(FactOf(Ranges)), dtb : BOOLEAN, gicd : FactOf(Ranges), gicr : FactOf(Ranges),
   uart : FactOf(Ranges), psci : FactOf(Methods), pwrc : Ranges,
   cpu : Seq(FactOf(Affinities)), ppi : Nat, freq : Nat]

Reasons == {"wrap", "dtb", "overlap", "cpu", "mismatch", "no_ram", "image", "timer"}

Typed ==
  /\ in \in Inputs /\ node \in Nat /\ cand \in CandType /\ facts \in FactsType
  /\ at \in {"dtb", "ram", "ctl", "cpu", "timer", "done", "halt"}
  /\ why \in Reasons \cup {"none"}

CandOk ==
  /\ Len(cand.mem) <= MEM_FACT_MAX /\ Len(cand.cpu) <= CPU_BOUND
  /\ \A i \in DOMAIN cand.mem : RangeOk(cand.mem[i].base, cand.mem[i].size)
  /\ \A i, j \in DOMAIN cand.cpu : cand.cpu[i] = cand.cpu[j] => i = j
  /\ \A r, s \in cand.uart : r = s

RamPassed ==
  /\ RamAgrees /\ RamFacts # <<>> /\ ImageInRam(RamFacts)
  /\ facts.mem = RamFacts /\ facts.dtb = cand.valid

CtlPassed ==
  /\ ~Differ(OfGicd) /\ ~Differ(OfGicr) /\ ~Differ(OfUart) /\ ~PsciDiffers
  /\ ControllersFound
  /\ facts.gicd = Merge(OfGicd) /\ facts.gicr = Merge(OfGicr) /\ facts.uart = Merge(OfUart)
  /\ facts.psci.value = IF cand.psci # "none" THEN cand.psci ELSE in.board.psci
  /\ facts.pwrc = BoardHas(in.board.pwrc)

CpuPassed ==
  /\ \A i \in DOMAIN cand.cpu : ~CpuUnknown(cand.cpu[i])
  /\ cand.cpu = <<>> => Len(BoardCpus) <= CPU_BOUND
  /\ BootListed(CpuFacts) /\ facts.cpu = CpuFacts

TimerPassed ==
  /\ cand.ppi \in {0, ISA_PPI} /\ facts.ppi = ISA_PPI
  /\ facts.freq = Frequency /\ Frequency # 0

FactsInv ==
  /\ Typed /\ CandOk
  /\ at \in {"ctl", "cpu", "timer", "done"} => RamPassed
  /\ at \in {"cpu", "timer", "done"} => CtlPassed
  /\ at \in {"timer", "done"} => CpuPassed
  /\ at = "done" => TimerPassed

\* A step of S3 and S4, whichever nodes S3 has decoded and wherever it stops.
IsNode(n) == n.regs \in Seq(Ranges) /\ n.method \in Methods

AnyStep ==
  \/ NoDtb \/ (InDtb /\ Valid)
  \/ \E n : IsNode(n) /\ InDtb /\ Ended(n)
  \/ \E reason \in Reasons : InDtb /\ Halt(reason)
  \/ S4Ram \/ S4Ctl \/ S4Cpu \/ S4Timer
  \/ UNCHANGED vars

-----------------------------------------------------------------------------
(* What the groups of S4 make of a typed table                              *)

\* The machine's board, field by field.
LEMMA BoardTyped ==
  ASSUME in \in Inputs
  PROVE  /\ in.board.present \in BOOLEAN /\ in.board.ram \in Seq(Ranges)
         /\ in.board.gicd \in Ranges /\ in.board.gicr \in Ranges
         /\ in.board.uart \in Ranges /\ in.board.pwrc \in Ranges
         /\ in.board.psci \in Methods /\ in.board.freq \in Nat
         /\ in.board.cpu \in Seq(Nat) /\ in.mpidr \in Nat /\ in.freq \in Nat
         /\ in.image \in Ranges
         /\ NoRange \in Ranges
<1>1. IsMachine(in)
  BY MachinesAssumption
<1>2. NoRange \in Ranges
  <2>1. 0 \in Word
    BY RangeAssumption DEF RangeAssumption, Word
  <2> QED
    BY <2>1 DEF NoRange, Ranges
<1> QED
  BY <1>1, <1>2 DEF IsMachine, IsBoard

\* An affinity is the rest of an MPIDR (facts.c:153).
LEMMA AffinityTyped ==
  ASSUME NEW mpidr \in Nat
  PROVE  Affinity(mpidr) \in Affinities
  BY FactsAssumption DEF Affinity, Affinities, FactsAssumption

\* A range of a typed table is made of words.
LEMMA RangeTyped ==
  ASSUME NEW r \in Ranges
  PROVE  r.base \in Word /\ r.size \in Word /\ r = [base |-> r.base, size |-> r.size]
  BY DEF Ranges

\* The board's RAM and CPUs as S4 sees them.
LEMMA BoardSeqs ==
  ASSUME in \in Inputs
  PROVE  /\ BoardRam \in Seq(Ranges)
         /\ BoardCpus \in Seq(Affinities)
         /\ \A i, j \in DOMAIN BoardCpus : BoardCpus[i] = BoardCpus[j] => i = j
         /\ Boot \in Affinities
<1>1. BoardRam \in Seq(Ranges)
  BY BoardTyped DEF BoardRam
<1>2. in.board.cpu \in Seq(Nat) /\ Boot \in Affinities
  BY BoardTyped, AffinityTyped DEF Boot
<1>3. Len(in.board.cpu) \in Nat /\ DOMAIN in.board.cpu = 1 .. Len(in.board.cpu)
      /\ \A i \in DOMAIN in.board.cpu : in.board.cpu[i] \in Nat
  BY <1>2, FirstOf
<1>4. \A i \in 1 .. Len(in.board.cpu) : Affinity(in.board.cpu[i]) \in Affinities
  BY <1>3, AffinityTyped
<1>5. [i \in DOMAIN in.board.cpu |-> Affinity(in.board.cpu[i])] \in Seq(Affinities)
  BY <1>3, <1>4
<1>6. BoardCpus \in Seq(Affinities)
  BY <1>5, EmptySeq DEF BoardCpus
<1>7. \A i, j \in DOMAIN in.board.cpu :
        Affinity(in.board.cpu[i]) = Affinity(in.board.cpu[j]) => i = j
  BY MachinesAssumption DEF IsMachine, IsBoard, Affinity
<1>8. \A i, j \in DOMAIN BoardCpus : BoardCpus[i] = BoardCpus[j] => i = j
  BY <1>7 DEF BoardCpus
<1> QED
  BY <1>1, <1>2, <1>6, <1>8

\* The fields of a typed table of candidates.
LEMMA CandTyped ==
  ASSUME cand \in CandType
  PROVE  /\ cand.mem \in Seq(Ranges) /\ cand.cpu \in Seq(Affinities)
         /\ cand.gicd \in Ranges /\ cand.gicr \in Ranges /\ cand.uart \in SUBSET Ranges
         /\ cand.psci \in Methods /\ cand.ppi \in Nat /\ cand.valid \in BOOLEAN
  BY DEF CandType

\* A graded value is a fact of its type.
LEMMA GradedTyped ==
  ASSUME NEW T, NEW v \in T, NEW s \in SUBSET Sources, NEW g \in Grades
  PROVE  /\ Graded(v, s, g) \in FactOf(T)
         /\ Graded(v, s, g).value = v /\ Graded(v, s, g).source = s
         /\ Graded(v, s, g).grade = g
  BY DEF Graded, FactOf

\* RAM is as long as the DTB's, or the board's first range, or nothing; each
\* range is one that the DTB or the board has (facts.c:80-105).
LEMMA RamFactsAre ==
  ASSUME in \in Inputs, cand \in CandType
  PROVE  /\ RamFacts \in Seq(FactOf(Ranges))
         /\ cand.mem # <<>> =>
              /\ DOMAIN RamFacts = DOMAIN cand.mem /\ RamFacts # <<>>
              /\ \A i \in DOMAIN RamFacts :
                   \/ /\ i \in Common
                      /\ RamFacts[i] = Graded(cand.mem[i], {"DTB", "BOARD"}, "corroborated")
                   \/ i \notin Common /\ RamFacts[i] = Graded(cand.mem[i], {"DTB"}, "single")
         /\ cand.mem = <<>> /\ BoardRam # <<>> =>
              /\ DOMAIN RamFacts = {1} /\ RamFacts[1] = Graded(BoardRam[1], {"BOARD"}, "single")
         /\ cand.mem = <<>> /\ BoardRam = <<>> => RamFacts = <<>>
<1>1. /\ cand.mem \in Seq(Ranges) /\ BoardRam \in Seq(Ranges)
      /\ Len(cand.mem) \in Nat /\ DOMAIN cand.mem = 1 .. Len(cand.mem)
      /\ \A i \in DOMAIN cand.mem : cand.mem[i] \in Ranges
      /\ cand.mem # <<>> => 1 \in DOMAIN cand.mem
      /\ BoardRam # <<>> => BoardRam[1] \in Ranges
  BY CandTyped, BoardSeqs, FirstOf
<1>2. /\ {"DTB", "BOARD"} \in SUBSET Sources /\ {"DTB"} \in SUBSET Sources
      /\ {"BOARD"} \in SUBSET Sources /\ "corroborated" \in Grades /\ "single" \in Grades
  BY DEF Sources, Grades
<1>3. CASE cand.mem # <<>>
  <2> DEFINE f == [i \in DOMAIN cand.mem |->
                     IF i \in Common THEN Graded(cand.mem[i], {"DTB", "BOARD"}, "corroborated")
                     ELSE Graded(cand.mem[i], {"DTB"}, "single")]
  <2>1. RamFacts = f
    BY <1>3 DEF RamFacts
  <2>2. \A i \in 1 .. Len(cand.mem) : f[i] \in FactOf(Ranges)
    BY <1>1, <1>2, GradedTyped
  <2>3. f \in [1 .. Len(cand.mem) -> FactOf(Ranges)]
    BY <1>1, <2>2
  <2>4. DOMAIN f = DOMAIN cand.mem /\ 1 \in DOMAIN f
    BY <1>1, <1>3
  <2>5. \A i \in DOMAIN f :
          \/ i \in Common /\ f[i] = Graded(cand.mem[i], {"DTB", "BOARD"}, "corroborated")
          \/ i \notin Common /\ f[i] = Graded(cand.mem[i], {"DTB"}, "single")
    OBVIOUS
  <2> HIDE DEF f
  <2>6. f \in Seq(FactOf(Ranges))
    BY <1>1, <2>3, SeqOf
  <2>7. f # <<>>
    BY <2>4
  <2> QED
    BY <1>3, <2>1, <2>4, <2>5, <2>6, <2>7
<1>4. CASE cand.mem = <<>> /\ BoardRam # <<>>
  <2>1. RamFacts = <<Graded(BoardRam[1], {"BOARD"}, "single")>>
    BY <1>4 DEF RamFacts
  <2>2. Graded(BoardRam[1], {"BOARD"}, "single") \in FactOf(Ranges)
    BY <1>1, <1>2, <1>4, GradedTyped
  <2> QED
    BY <1>4, <2>1, <2>2
<1>5. CASE cand.mem = <<>> /\ BoardRam = <<>>
  <2>1. RamFacts = <<>>
    BY <1>5 DEF RamFacts
  <2> QED
    BY <1>5, <2>1, EmptySeq
<1> QED
  BY <1>3, <1>4, <1>5

\* What merge_ctl is given, and what it makes of it: the value is the DTB's or
\* the board's, and nothing is made of nothing (facts.c:29-61).
Given(c) == c.found \in BOOLEAN /\ c.dtb \in Ranges /\ c.board \in Ranges

\* What S4 gives to merge_ctl are candidates of both sources (facts.c:114-127).
LEMMA GivenTyped ==
  ASSUME in \in Inputs, cand \in CandType
  PROVE  Given(OfGicd) /\ Given(OfGicr) /\ Given(OfUart) /\ BoardHas(in.board.pwrc) \in Ranges
<1>1. /\ \A r \in Ranges : BoardHas(r) \in Ranges
      /\ in.board.gicd \in Ranges /\ in.board.gicr \in Ranges /\ in.board.uart \in Ranges
      /\ in.board.pwrc \in Ranges /\ NoRange \in Ranges
  BY BoardTyped DEF BoardHas
<1>2. cand.gicd \in Ranges /\ cand.gicr \in Ranges /\ cand.uart \in SUBSET Ranges
  BY CandTyped
<1>3. (IF cand.uart = {} THEN NoRange ELSE CHOOSE r \in cand.uart : TRUE) \in Ranges
  BY <1>1, <1>2
<1>4. Given(OfGicd) /\ Given(OfGicr)
  BY <1>1, <1>2 DEF Given, OfGicd, OfGicr
<1>5. Given(OfUart)
  BY <1>1, <1>3 DEF Given, OfUart
<1> QED
  BY <1>1, <1>4, <1>5

\* What merge_ctl makes of a candidate that it does not refuse (facts.c:29-61).
LEMMA MergeIs ==
  ASSUME NEW c, Given(c)
  PROVE  /\ Merge(c) \in FactOf(Ranges)
         /\ Merge(c) # NoFact => c.found \/ c.board.size # 0
         /\ c.found => Merge(c).value = c.dtb
         /\ ~c.found => Merge(c).value.size = c.board.size
         /\ ~c.found /\ c.board.size # 0 => Merge(c).value = c.board
         /\ ~Differ(c) /\ c.board.size # 0 => Merge(c).value = c.board
<1>1. /\ {"DTB", "BOARD"} \in SUBSET Sources /\ {"DTB"} \in SUBSET Sources
      /\ {"BOARD"} \in SUBSET Sources /\ {} \in SUBSET Sources
      /\ "corroborated" \in Grades /\ "single" \in Grades /\ "none" \in Grades
  BY DEF Sources, Grades
<1>2. NoRange \in Ranges
  BY RangeAssumption DEF NoRange, Ranges, Word, RangeAssumption
<1>3. NoFact \in FactOf(Ranges) /\ NoFact.value = NoRange /\ NoRange.size = 0
  BY <1>1, <1>2, GradedTyped DEF NoFact, NoRange
<1>4. CASE c.found /\ c.board.size # 0
  <2>1. Merge(c) = Graded(c.dtb, {"DTB", "BOARD"}, "corroborated")
    BY <1>4, MergeCases DEF Given
  <2>2. Merge(c) \in FactOf(Ranges) /\ Merge(c).value = c.dtb
    BY <1>1, <2>1, GradedTyped DEF Given
  <2> QED
    BY <1>4, <2>2 DEF Differ
<1>5. CASE c.found /\ c.board.size = 0
  <2>1. Merge(c) = Graded(c.dtb, {"DTB"}, "single")
    BY <1>5, MergeCases DEF Given
  <2>2. Merge(c) \in FactOf(Ranges) /\ Merge(c).value = c.dtb
    BY <1>1, <2>1, GradedTyped DEF Given
  <2> QED
    BY <1>5, <2>2
<1>6. CASE ~c.found /\ c.board.size # 0
  <2>1. Merge(c) = Graded(c.board, {"BOARD"}, "single")
    BY <1>6, MergeCases DEF Given
  <2>2. Merge(c) \in FactOf(Ranges) /\ Merge(c).value = c.board
    BY <1>1, <2>1, GradedTyped DEF Given
  <2> QED
    BY <1>6, <2>2
<1>7. CASE ~c.found /\ c.board.size = 0
  <2>1. Merge(c) = NoFact
    BY <1>7, MergeCases DEF Given
  <2> QED
    BY <1>3, <1>7, <2>1
<1> QED
  BY <1>4, <1>5, <1>6, <1>7 DEF Given

\* Where the CPUs come from, and what each says of itself (facts.c:153-217).
LEMMA CpuFactIs ==
  ASSUME NEW cpu \in Affinities, NEW s \in SUBSET Sources, NEW g \in Grades
  PROVE  /\ CpuFact(cpu, s, g) \in FactOf(Affinities) /\ CpuFact(cpu, s, g).value = cpu
         /\ cpu = Boot => CpuFact(cpu, s, g) = Graded(cpu, s \cup {"OBS"}, "corroborated")
         /\ cpu # Boot => CpuFact(cpu, s, g) = Graded(cpu, s, g)
<1>1. s \cup {"OBS"} \in SUBSET Sources /\ "corroborated" \in Grades
  BY DEF Sources, Grades
<1>2. CASE cpu = Boot
  BY <1>1, <1>2, GradedTyped DEF CpuFact
<1>3. CASE cpu # Boot
  BY <1>3, GradedTyped DEF CpuFact
<1> QED
  BY <1>2, <1>3

\* The CPU list, case by case (facts.c:153-217).
LEMMA CpuFactsAre ==
  ASSUME in \in Inputs, cand \in CandType
  PROVE  /\ CpuFacts \in Seq(FactOf(Affinities))
         /\ cand.cpu # <<>> =>
              /\ DOMAIN CpuFacts = DOMAIN cand.cpu
              /\ \A i \in DOMAIN CpuFacts :
                   /\ CpuFacts[i].value = cand.cpu[i]
                   /\ BoardCpus # <<>> =>
                        CpuFacts[i] = CpuFact(cand.cpu[i], {"DTB", "BOARD"}, "corroborated")
                   /\ BoardCpus = <<>> => CpuFacts[i] = CpuFact(cand.cpu[i], {"DTB"}, "single")
         /\ cand.cpu = <<>> /\ BoardCpus # <<>> =>
              /\ DOMAIN CpuFacts = DOMAIN BoardCpus
              /\ \A i \in DOMAIN CpuFacts :
                   /\ CpuFacts[i].value = BoardCpus[i]
                   /\ CpuFacts[i] = CpuFact(BoardCpus[i], {"BOARD"}, "single")
         /\ cand.cpu = <<>> /\ BoardCpus = <<>> =>
              /\ DOMAIN CpuFacts = {1} /\ CpuFacts[1].value = Boot
              /\ CpuFacts[1] = Graded(Boot, {"OBS"}, "observed")
<1>1. /\ cand.cpu \in Seq(Affinities) /\ BoardCpus \in Seq(Affinities)
      /\ Boot \in Affinities
      /\ Len(cand.cpu) \in Nat /\ DOMAIN cand.cpu = 1 .. Len(cand.cpu)
      /\ \A i \in DOMAIN cand.cpu : cand.cpu[i] \in Affinities
      /\ Len(BoardCpus) \in Nat /\ DOMAIN BoardCpus = 1 .. Len(BoardCpus)
      /\ \A i \in DOMAIN BoardCpus : BoardCpus[i] \in Affinities
  BY CandTyped, BoardSeqs, FirstOf
<1>2. /\ {"DTB", "BOARD"} \in SUBSET Sources /\ {"DTB"} \in SUBSET Sources
      /\ {"BOARD"} \in SUBSET Sources /\ {"OBS"} \in SUBSET Sources
      /\ "corroborated" \in Grades /\ "single" \in Grades /\ "observed" \in Grades
  BY DEF Sources, Grades
<1>3. CASE cand.cpu # <<>>
  <2> DEFINE f == [i \in DOMAIN cand.cpu |->
                     IF BoardCpus # <<>> THEN CpuFact(cand.cpu[i], {"DTB", "BOARD"}, "corroborated")
                     ELSE CpuFact(cand.cpu[i], {"DTB"}, "single")]
  <2>1. CpuFacts = f
    BY <1>3 DEF CpuFacts
  <2>2. /\ DOMAIN f = DOMAIN cand.cpu
        /\ \A i \in DOMAIN f :
             /\ BoardCpus # <<>> => f[i] = CpuFact(cand.cpu[i], {"DTB", "BOARD"}, "corroborated")
             /\ BoardCpus = <<>> => f[i] = CpuFact(cand.cpu[i], {"DTB"}, "single")
    OBVIOUS
  <2>3. \A i \in DOMAIN f : f[i] \in FactOf(Affinities) /\ f[i].value = cand.cpu[i]
    BY <1>1, <1>2, <2>2, CpuFactIs
  <2>4. f \in [1 .. Len(cand.cpu) -> FactOf(Affinities)]
    BY <1>1, <2>3
  <2> HIDE DEF f
  <2>5. f \in Seq(FactOf(Affinities))
    BY <1>1, <2>4, SeqOf
  <2> QED
    BY <1>3, <2>1, <2>2, <2>3, <2>5
<1>4. CASE cand.cpu = <<>> /\ BoardCpus # <<>>
  <2> DEFINE f == [i \in DOMAIN BoardCpus |-> CpuFact(BoardCpus[i], {"BOARD"}, "single")]
  <2>1. CpuFacts = f
    BY <1>4 DEF CpuFacts
  <2>2. /\ DOMAIN f = DOMAIN BoardCpus
        /\ \A i \in DOMAIN f : f[i] = CpuFact(BoardCpus[i], {"BOARD"}, "single")
    OBVIOUS
  <2>3. \A i \in DOMAIN f : f[i] \in FactOf(Affinities) /\ f[i].value = BoardCpus[i]
    BY <1>1, <1>2, <2>2, CpuFactIs
  <2>4. f \in [1 .. Len(BoardCpus) -> FactOf(Affinities)]
    BY <1>1, <2>3
  <2> HIDE DEF f
  <2>5. f \in Seq(FactOf(Affinities))
    BY <1>1, <2>4, SeqOf
  <2> QED
    BY <1>4, <2>1, <2>2, <2>3, <2>5
<1>5. CASE cand.cpu = <<>> /\ BoardCpus = <<>>
  <2>1. CpuFacts = <<Graded(Boot, {"OBS"}, "observed")>>
    BY <1>5 DEF CpuFacts
  <2>2. /\ Graded(Boot, {"OBS"}, "observed") \in FactOf(Affinities)
        /\ Graded(Boot, {"OBS"}, "observed").value = Boot
    BY <1>1, <1>2, GradedTyped
  <2> QED
    BY <1>5, <2>1, <2>2
<1> QED
  BY <1>3, <1>4, <1>5

\* Nothing that S4 compares changes while the candidates do not.
LEMMA SameCandidates ==
  ASSUME UNCHANGED <<in, cand>>
  PROVE  /\ RamAgrees' = RamAgrees /\ RamFacts' = RamFacts
         /\ OfGicd' = OfGicd /\ OfGicr' = OfGicr /\ OfUart' = OfUart
         /\ BoardHas(in.board.pwrc)' = BoardHas(in.board.pwrc)
         /\ BoardCpus' = BoardCpus /\ Boot' = Boot /\ CpuFacts' = CpuFacts
         /\ Frequency' = Frequency
<1>1. BoardRam' = BoardRam /\ BoardCpus' = BoardCpus /\ Boot' = Boot
  BY DEF BoardRam, BoardCpus, Boot
<1>2. RamAgrees' = RamAgrees /\ RamFacts' = RamFacts
  <2>1. Common' = Common
    BY <1>1 DEF Common
  <2> QED
    BY <1>1, <2>1 DEF RamAgrees, RamFacts
<1>3. OfGicd' = OfGicd /\ OfGicr' = OfGicr /\ OfUart' = OfUart
      /\ BoardHas(in.board.pwrc)' = BoardHas(in.board.pwrc)
  BY DEF OfGicd, OfGicr, OfUart, BoardHas
<1>4. CpuFacts' = CpuFacts
  BY <1>1 DEF CpuFacts, CpuFact
<1> QED
  BY <1>1, <1>2, <1>3, <1>4 DEF Frequency

\* So what a group of S4 has passed stays passed, as long as its facts stay.
LEMMA RamStays ==
  ASSUME RamPassed, UNCHANGED <<in, cand>>, facts'.mem = facts.mem, facts'.dtb = facts.dtb
  PROVE  RamPassed'
<1>1. RamAgrees' = RamAgrees /\ RamFacts' = RamFacts
  BY SameCandidates
<1>2. ImageInRam(RamFacts)' = ImageInRam(RamFacts)
  BY <1>1 DEF ImageInRam
<1> QED
  BY <1>1, <1>2 DEF RamPassed

\* A step that leaves the controllers alone leaves what S4 tested of them.
LEMMA CtlStays ==
  ASSUME CtlPassed, UNCHANGED <<in, cand>>,
         facts'.gicd = facts.gicd, facts'.gicr = facts.gicr, facts'.uart = facts.uart,
         facts'.psci = facts.psci, facts'.pwrc = facts.pwrc
  PROVE  CtlPassed'
<1>1. OfGicd' = OfGicd /\ OfGicr' = OfGicr /\ OfUart' = OfUart
      /\ BoardHas(in.board.pwrc)' = BoardHas(in.board.pwrc)
  BY SameCandidates
<1>2. PsciDiffers' = PsciDiffers
  BY DEF PsciDiffers
<1> QED
  BY <1>1, <1>2 DEF CtlPassed, ControllersFound

\* ... and one that leaves the CPU list alone what it tested of that.
LEMMA CpuStays ==
  ASSUME CpuPassed, UNCHANGED <<in, cand>>, facts'.cpu = facts.cpu
  PROVE  CpuPassed'
<1>1. BoardCpus' = BoardCpus /\ Boot' = Boot /\ CpuFacts' = CpuFacts
  BY SameCandidates
<1> QED
  BY <1>1 DEF CpuPassed, CpuUnknown, BootListed

-----------------------------------------------------------------------------
(* The steps of S3                                                          *)

\* What a node adds to RAM, and to the CPUs.
MemOf(n)  == IF "memory" \in n.kinds THEN n.regs ELSE <<>>
CpusOf(n) == IF "cpu" \in n.kinds /\ n.regs # <<>> THEN AddCpu(cand.cpu, n.regs[1].base)
             ELSE cand.cpu

\* add_cpu keeps the CPUs distinct, whatever the flags of the MPIDR
\* (fdt.c:108-121).
LEMMA AddCpuDistinct ==
  ASSUME NEW s \in Seq(Affinities), NEW mpidr \in Nat,
         \A i, j \in DOMAIN s : s[i] = s[j] => i = j
  PROVE  /\ AddCpu(s, mpidr) \in Seq(Affinities)
         /\ \A i, j \in DOMAIN AddCpu(s, mpidr) :
              AddCpu(s, mpidr)[i] = AddCpu(s, mpidr)[j] => i = j
         /\ \A i \in DOMAIN AddCpu(s, mpidr) :
              \/ i \in DOMAIN s /\ AddCpu(s, mpidr)[i] = s[i]
              \/ AddCpu(s, mpidr)[i] = Affinity(mpidr)
<1> DEFINE a == Affinity(mpidr)
           t == Append(s, a)
<1>1. a \in Affinities /\ Len(s) \in Nat /\ DOMAIN s = 1 .. Len(s)
  BY AffinityTyped, FirstOf
<1>2. CASE \E i \in DOMAIN s : s[i] = a
  <2>1. AddCpu(s, mpidr) = s
    BY <1>2 DEF AddCpu
  <2> QED
    BY <2>1
<1>3. CASE ~\E i \in DOMAIN s : s[i] = a
  <2>1. AddCpu(s, mpidr) = t
    BY <1>3 DEF AddCpu
  <2> HIDE DEF a
  <2>2. /\ t \in Seq(Affinities) /\ Len(t) = Len(s) + 1
        /\ \A i \in 1 .. Len(s) : t[i] = s[i]
        /\ t[Len(s) + 1] = a
    BY <1>1, AppendProperties
  <2> HIDE DEF t
  <2>3. DOMAIN t = 1 .. Len(s) + 1
    BY <2>2, FirstOf
  <2>4. \A i \in DOMAIN t : \/ i \in DOMAIN s /\ t[i] = s[i]
                            \/ i = Len(s) + 1 /\ t[i] = a
    BY <1>1, <2>2, <2>3
  <2>5. ASSUME NEW i \in DOMAIN t, NEW j \in DOMAIN t, t[i] = t[j]
        PROVE  i = j
    <3>1. CASE i \in DOMAIN s /\ t[i] = s[i]
      <4>1. t[j] # a
        BY <1>3, <2>5, <3>1
      <4>2. j \in DOMAIN s /\ t[j] = s[j]
        BY <2>4, <4>1
      <4> QED
        BY <2>5, <3>1, <4>2
    <3>2. CASE i = Len(s) + 1 /\ t[i] = a
      <4>1. ~(j \in DOMAIN s /\ t[j] = s[j])
        BY <1>3, <2>5, <3>2
      <4> QED
        BY <2>4, <3>2, <4>1
    <3> QED
      BY <2>4, <3>1, <3>2
  <2>6. \A i \in DOMAIN t : (i \in DOMAIN s /\ t[i] = s[i]) \/ t[i] = a
    BY <2>4
  <2> QED
    BY <2>1, <2>2, <2>5, <2>6 DEF a
<1> QED
  BY <1>2, <1>3

\* What a node is not refused for, and what it is refused for.
LEMMA RefusedIs ==
  ASSUME NEW n, IsNode(n), cand \in CandType, CandOk
  PROVE  /\ Refused(n) \in Reasons \cup {"none"}
         /\ Refused(n) = "none" =>
              /\ \A i \in DOMAIN MemOf(n) : RangeOk(MemOf(n)[i].base, MemOf(n)[i].size)
              /\ Len(cand.mem) + Len(MemOf(n)) <= MEM_FACT_MAX
              /\ Len(CpusOf(n)) <= CPU_BOUND
<1> DEFINE mem  == MemOf(n)
           room == MEM_FACT_MAX - Len(cand.mem)
           bad  == \E i \in DOMAIN mem : i <= room + 1 /\ ~RangeOk(mem[i].base, mem[i].size)
<1>1. Refused(n) = IF bad THEN "wrap" ELSE IF Len(mem) > room THEN "dtb"
                   ELSE IF Len(CpusOf(n)) > CPU_BOUND THEN "cpu" ELSE "none"
  BY DEF Refused, MemOf, CpusOf
<1>2. mem \in Seq(Ranges)
  BY EmptySeq DEF IsNode, MemOf
<1>3. Len(mem) \in Nat /\ DOMAIN mem = 1 .. Len(mem) /\ Len(cand.mem) \in Nat
  BY <1>2, CandTyped, FirstOf
<1>4. CpusOf(n) \in Seq(Affinities)
  <2>1. cand.cpu \in Seq(Affinities)
    BY CandTyped
  <2>2. ASSUME n.regs # <<>>
        PROVE  AddCpu(cand.cpu, n.regs[1].base) \in Seq(Affinities)
    <3>1. n.regs[1] \in Ranges
      BY <2>2, FirstOf DEF IsNode
    <3>2. n.regs[1].base \in Nat
      BY <3>1, RangeTyped, RangeAssumption DEF Word, RangeAssumption
    <3> QED
      BY <2>1, <3>2, AddCpuDistinct DEF CandOk
  <2> QED
    BY <2>1, <2>2 DEF CpusOf
<1>5. Len(CpusOf(n)) \in Nat /\ MEM_FACT_MAX \in Nat /\ CPU_BOUND \in Nat
  BY <1>4, FirstOf, FactsAssumption DEF FactsAssumption
<1>6. Refused(n) \in Reasons \cup {"none"}
  BY <1>1 DEF Reasons
<1>7. ASSUME Refused(n) = "none"
      PROVE  ~bad /\ ~(Len(mem) > room) /\ ~(Len(CpusOf(n)) > CPU_BOUND)
  BY <1>1, <1>7
<1>8. ASSUME Refused(n) = "none", NEW i \in DOMAIN mem
      PROVE  RangeOk(mem[i].base, mem[i].size)
  <2>1. i <= room + 1
    <3> DEFINE len == Len(mem)
               had == Len(cand.mem)
    <3>1. ~(len > room)
      BY <1>7, <1>8
    <3>2. i \in 1 .. len /\ len \in Nat /\ had \in Nat /\ MEM_FACT_MAX \in Nat
      BY <1>3, <1>5, <1>8
    <3> HIDE DEF len, had
    <3> QED
      BY <3>1, <3>2
  <2> QED
    BY <1>7, <1>8, <2>1
<1>9. ASSUME Refused(n) = "none"
      PROVE  Len(cand.mem) + Len(mem) <= MEM_FACT_MAX /\ Len(CpusOf(n)) <= CPU_BOUND
  BY <1>3, <1>5, <1>7, <1>9
<1> QED
  BY <1>6, <1>8, <1>9

\* What a node that is not refused teaches: RAM and CPUs in bounds, no CPU twice.
LEMMA LearntOk ==
  ASSUME NEW n, IsNode(n), cand \in CandType, CandOk, Refused(n) = "none",
         cand' = Learnt(n)
  PROVE  /\ cand' \in CandType /\ CandOk'
         /\ cand'.mem = cand.mem \o MemOf(n) /\ cand'.cpu = CpusOf(n)
         /\ \/ cand'.gicd = cand.gicd
            \/ "gic" \in n.kinds /\ 1 \in DOMAIN n.regs /\ cand'.gicd = n.regs[1]
         /\ \/ cand'.gicr = cand.gicr
            \/ "gic" \in n.kinds /\ 2 \in DOMAIN n.regs /\ cand'.gicr = n.regs[2]
         /\ \/ cand'.uart = cand.uart
            \/ "uart" \in n.kinds /\ 1 \in DOMAIN n.regs /\ cand'.uart = {n.regs[1]}
         /\ cand'.valid = cand.valid /\ cand'.ppi = cand.ppi
<1> DEFINE gic == "gic" \in n.kinds /\ Len(n.regs) >= 2 /\ cand.gicd.size = 0
           has(kind) == kind \in n.kinds /\ n.regs # <<>>
           mem  == IF "memory" \in n.kinds THEN cand.mem \o n.regs ELSE cand.mem
           gicd == IF gic THEN n.regs[1] ELSE cand.gicd
           gicr == IF gic THEN n.regs[2] ELSE cand.gicr
           uart == IF has("uart") THEN {n.regs[1]} ELSE cand.uart
           psci == IF "psci" \in n.kinds /\ n.method # "none" THEN n.method ELSE cand.psci
<1>1. /\ cand.mem \in Seq(Ranges) /\ cand.cpu \in Seq(Affinities) /\ n.regs \in Seq(Ranges)
      /\ cand.gicd \in Ranges /\ cand.gicr \in Ranges /\ cand.uart \in SUBSET Ranges
      /\ cand.psci \in Methods /\ n.method \in Methods
      /\ cand.valid \in BOOLEAN /\ cand.ppi \in Nat
  BY CandTyped DEF IsNode
<1>2. /\ Len(n.regs) \in Nat /\ DOMAIN n.regs = 1 .. Len(n.regs)
      /\ \A i \in DOMAIN n.regs : n.regs[i] \in Ranges
      /\ n.regs # <<>> => 1 \in DOMAIN n.regs /\ n.regs[1] \in Ranges
      /\ Len(cand.mem) \in Nat /\ DOMAIN cand.mem = 1 .. Len(cand.mem)
  BY <1>1, FirstOf
<1>3. cand' = [valid |-> cand.valid, mem |-> mem, cpu |-> CpusOf(n), gicd |-> gicd,
               gicr |-> gicr, uart |-> uart, psci |-> psci, ppi |-> cand.ppi]
  BY DEF Learnt, CandType, CpusOf
<1>4. MemOf(n) \in Seq(Ranges) /\ mem = cand.mem \o MemOf(n)
  <2>1. CASE "memory" \in n.kinds
    BY <1>1, <2>1 DEF MemOf
  <2>2. CASE "memory" \notin n.kinds
    BY <1>1, <2>2, ConcatEmptySeq DEF MemOf
  <2> QED
    BY <2>1, <2>2
<1>5. gic => 1 \in DOMAIN n.regs /\ 2 \in DOMAIN n.regs
  BY <1>2
<1>6. gicd \in Ranges /\ gicr \in Ranges /\ uart \in SUBSET Ranges /\ psci \in Methods
  BY <1>1, <1>2, <1>5
<1>7. /\ CpusOf(n) \in Seq(Affinities)
      /\ \A i, j \in DOMAIN CpusOf(n) : CpusOf(n)[i] = CpusOf(n)[j] => i = j
  <2>1. CASE has("cpu")
    <3>1. n.regs[1].base \in Nat
      BY <1>2, <2>1, RangeTyped, RangeAssumption DEF Word, RangeAssumption
    <3> QED
      BY <1>1, <2>1, <3>1, AddCpuDistinct DEF CpusOf, CandOk
  <2>2. CASE ~has("cpu")
    BY <1>1, <2>2 DEF CpusOf, CandOk
  <2> QED
    BY <2>1, <2>2
<1>8. /\ mem \in Seq(Ranges) /\ Len(mem) = Len(cand.mem) + Len(MemOf(n))
      /\ \A i \in DOMAIN mem : RangeOk(mem[i].base, mem[i].size)
  <2>1. Len(MemOf(n)) \in Nat /\ DOMAIN MemOf(n) = 1 .. Len(MemOf(n))
    BY <1>4, FirstOf
  <2> HIDE DEF mem
  <2>2. /\ mem \in Seq(Ranges) /\ Len(mem) = Len(cand.mem) + Len(MemOf(n))
        /\ \A i \in 1 .. Len(cand.mem) + Len(MemOf(n)) :
             mem[i] = IF i <= Len(cand.mem) THEN cand.mem[i] ELSE MemOf(n)[i - Len(cand.mem)]
    BY <1>1, <1>4, ConcatProperties
  <2>3. DOMAIN mem = 1 .. Len(cand.mem) + Len(MemOf(n))
    BY <2>2, FirstOf
  <2>4. \A i \in DOMAIN mem :
          \/ i \in DOMAIN cand.mem /\ mem[i] = cand.mem[i]
          \/ (i - Len(cand.mem)) \in DOMAIN MemOf(n) /\ mem[i] = MemOf(n)[i - Len(cand.mem)]
    BY <1>2, <2>1, <2>2, <2>3
  <2>5. \A i \in DOMAIN MemOf(n) : RangeOk(MemOf(n)[i].base, MemOf(n)[i].size)
    BY RefusedIs
  <2> QED
    BY <2>2, <2>4, <2>5 DEF CandOk
<1>9. \A r, s \in uart : r = s
  BY DEF CandOk
<1>10. \/ gicd = cand.gicd
       \/ "gic" \in n.kinds /\ 1 \in DOMAIN n.regs /\ gicd = n.regs[1]
  BY <1>5
<1>11. \/ gicr = cand.gicr
       \/ "gic" \in n.kinds /\ 2 \in DOMAIN n.regs /\ gicr = n.regs[2]
  BY <1>5
<1>12. \/ uart = cand.uart
       \/ "uart" \in n.kinds /\ 1 \in DOMAIN n.regs /\ uart = {n.regs[1]}
  BY <1>2
<1> HIDE DEF mem, gicd, gicr, uart, psci
<1>13. cand' \in CandType
  BY <1>1, <1>3, <1>6, <1>7, <1>8 DEF CandType
<1>14. /\ cand'.mem = mem /\ cand'.cpu = CpusOf(n) /\ cand'.gicd = gicd /\ cand'.gicr = gicr
       /\ cand'.uart = uart /\ cand'.valid = cand.valid /\ cand'.ppi = cand.ppi
  BY <1>3
<1>15. Len(cand'.mem) <= MEM_FACT_MAX /\ Len(cand'.cpu) <= CPU_BOUND
  BY <1>8, <1>14, RefusedIs
<1>16. CandOk'
  BY <1>7, <1>8, <1>9, <1>14, <1>15 DEF CandOk
<1> QED
  BY <1>4, <1>10, <1>11, <1>12, <1>13, <1>14, <1>16

-----------------------------------------------------------------------------
(* The invariant is inductive                                               *)

\* A halt leaves the table as it is.
LEMMA HaltKeeps ==
  ASSUME FactsInv, NEW reason \in Reasons, Halt(reason)
  PROVE  FactsInv'
<1>1. /\ UNCHANGED <<in, node, cand, facts>> /\ at' = "halt" /\ why' = reason
  BY DEF Halt
<1>2. Typed'
  BY <1>1 DEF FactsInv, Typed
<1>3. CandOk'
  BY <1>1 DEF FactsInv, CandOk
<1> QED
  BY <1>1, <1>2, <1>3 DEF FactsInv

\* So does a step of S3, apart from the candidates.
LEMMA S3Keeps ==
  ASSUME FactsInv, at' \in {"dtb", "ram"}, UNCHANGED <<in, facts, why>>,
         node' \in Nat, cand' \in CandType, CandOk'
  PROVE  FactsInv'
<1>1. Typed'
  BY DEF FactsInv, Typed
<1> QED
  BY <1>1 DEF FactsInv

\* S3 returns where there is no DTB (fdt.c:183-186).
LEMMA NoDtbKeeps ==
  ASSUME FactsInv, NoDtb
  PROVE  FactsInv'
<1>1. at' = "ram" /\ UNCHANGED <<in, why, node, cand, facts>>
  BY DEF NoDtb, Reach
<1>2. cand' \in CandType /\ node' \in Nat
  BY <1>1 DEF FactsInv, Typed
<1>3. CandOk'
  BY <1>1 DEF FactsInv, CandOk
<1> QED
  BY <1>1, <1>2, <1>3, S3Keeps

\* S3 ends: the candidates are valid (fdt.c:328).
LEMMA ValidKeeps ==
  ASSUME FactsInv, Valid
  PROVE  FactsInv'
<1>1. /\ at' = "ram" /\ UNCHANGED <<in, why, node, facts>>
      /\ cand' = [cand EXCEPT !.valid = TRUE]
  BY DEF Valid, Reach
<1>2. cand \in CandType /\ node' \in Nat
  BY <1>1 DEF FactsInv, Typed
<1>3. cand' \in CandType
  BY <1>1, <1>2 DEF CandType
<1>4. cand'.mem = cand.mem /\ cand'.cpu = cand.cpu /\ cand'.uart = cand.uart
  BY <1>1, <1>2 DEF CandType
<1>5. CandOk'
  BY <1>4 DEF FactsInv, CandOk
<1> QED
  BY <1>1, <1>2, <1>3, <1>5, S3Keeps

\* S3 takes a node, or halts at it (fdt.c:256-280).
LEMMA EndedKeeps ==
  ASSUME FactsInv, NEW n, IsNode(n), InDtb, Ended(n)
  PROVE  FactsInv'
<1>1. cand \in CandType /\ CandOk /\ node \in Nat
  BY DEF FactsInv, Typed
<1>2. CASE Refused(n) # "none" /\ Halt(Refused(n))
  <2>1. Refused(n) \in Reasons
    BY <1>1, <1>2, RefusedIs
  <2> QED
    BY <1>2, <2>1, HaltKeeps
<1>3. CASE Refused(n) = "none" /\ Learn(Learnt(n))
  <2>1. cand' = Learnt(n) /\ node' = node + 1 /\ UNCHANGED <<in, facts, at, why>>
    BY <1>3 DEF Learn
  <2>2. cand' \in CandType /\ CandOk'
    BY <1>1, <1>3, <2>1, LearntOk
  <2>3. at' = "dtb" /\ node' \in Nat
    BY <1>1, <2>1 DEF InDtb
  <2> QED
    BY <2>1, <2>2, <2>3, S3Keeps
<1> QED
  BY <1>2, <1>3 DEF Ended

\* What a step of S4 that halts nothing leaves alone.
LEMMA AcceptKeeps ==
  ASSUME FactsInv, NEW f \in FactsType, NEW stage \in {"ctl", "cpu", "timer", "done"},
         Accept(f, stage)
  PROVE  /\ Typed' /\ CandOk' /\ UNCHANGED <<in, cand>> /\ facts' = f /\ at' = stage
<1>1. facts' = f /\ at' = stage /\ UNCHANGED <<in, why, node, cand>>
  BY DEF Accept, Reach
<1>2. Typed'
  BY <1>1 DEF FactsInv, Typed
<1>3. CandOk'
  BY <1>1 DEF FactsInv, CandOk
<1> QED
  BY <1>1, <1>2, <1>3

\* S4 decides on RAM (facts.c:80-112).
LEMMA RamKeeps ==
  ASSUME FactsInv, S4Ram
  PROVE  FactsInv'
<1>1. in \in Inputs /\ cand \in CandType /\ facts \in FactsType
  BY DEF FactsInv, Typed
<1>2. CASE \E reason \in Reasons : Halt(reason)
  BY <1>2, HaltKeeps
<1>3. CASE /\ RamAgrees /\ RamFacts # <<>> /\ ImageInRam(RamFacts)
           /\ Accept([facts EXCEPT !.mem = RamFacts, !.dtb = cand.valid], "ctl")
  <2> DEFINE f == [facts EXCEPT !.mem = RamFacts, !.dtb = cand.valid]
  <2>1. RamFacts \in Seq(FactOf(Ranges)) /\ cand.valid \in BOOLEAN
    BY <1>1, RamFactsAre, CandTyped
  <2>2. f \in FactsType /\ f.mem = RamFacts /\ f.dtb = cand.valid
    BY <1>1, <2>1 DEF FactsType
  <2> HIDE DEF f
  <2>3. Accept(f, "ctl")
    BY <1>3 DEF f
  <2>4. Typed' /\ CandOk' /\ UNCHANGED <<in, cand>> /\ facts' = f /\ at' = "ctl"
    BY <2>2, <2>3, AcceptKeeps
  <2>5. RamAgrees' = RamAgrees /\ RamFacts' = RamFacts
    BY <2>4, SameCandidates
  <2>6. ImageInRam(RamFacts)' = ImageInRam(RamFacts)
    BY <2>4, <2>5 DEF ImageInRam
  <2>7. RamPassed'
    BY <1>3, <2>2, <2>4, <2>5, <2>6 DEF RamPassed
  <2> QED
    BY <2>4, <2>7 DEF FactsInv
<1>4. "mismatch" \in Reasons /\ "no_ram" \in Reasons /\ "image" \in Reasons
  BY DEF Reasons
<1> QED
  BY <1>2, <1>3, <1>4 DEF S4Ram

\* S4 decides on the controllers and on PSCI (facts.c:114-151).
LEMMA CtlKeeps ==
  ASSUME FactsInv, S4Ctl
  PROVE  FactsInv'
<1>1. in \in Inputs /\ cand \in CandType /\ facts \in FactsType /\ (at = "ctl" => RamPassed)
  BY DEF FactsInv, Typed
<1>2. CASE \E reason \in Reasons : Halt(reason)
  BY <1>2, HaltKeeps
<1> DEFINE differ == Differ(OfGicd) \/ Differ(OfGicr) \/ Differ(OfUart) \/ PsciDiffers
           said == {src \in {"DTB", "BOARD"} :
                      IF src = "DTB" THEN cand.psci # "none"
                      ELSE in.board.present /\ in.board.psci # "none"}
           conduit == IF cand.psci # "none" THEN cand.psci ELSE in.board.psci
           f == [facts EXCEPT !.gicd = Merge(OfGicd), !.gicr = Merge(OfGicr),
                   !.uart = Merge(OfUart), !.psci = Graded(conduit, said, "none"),
                   !.pwrc = BoardHas(in.board.pwrc)]
<1>3. CASE ~differ /\ ControllersFound /\ Accept(f, "cpu")
  <2>1. /\ Merge(OfGicd) \in FactOf(Ranges) /\ Merge(OfGicr) \in FactOf(Ranges)
        /\ Merge(OfUart) \in FactOf(Ranges) /\ BoardHas(in.board.pwrc) \in Ranges
    BY <1>1, GivenTyped, MergeIs
  <2>2. conduit \in Methods /\ said \in SUBSET Sources /\ "none" \in Grades
    BY <1>1, BoardTyped, CandTyped DEF Sources, Grades
  <2>3. at = "ctl"
    BY DEF S4Ctl
  <2> HIDE DEF said
  <2>4. Graded(conduit, said, "none") \in FactOf(Methods)
        /\ Graded(conduit, said, "none").value = conduit
    BY <2>2, GradedTyped
  <2>5. /\ f \in FactsType /\ f.gicd = Merge(OfGicd) /\ f.gicr = Merge(OfGicr)
        /\ f.uart = Merge(OfUart) /\ f.pwrc = BoardHas(in.board.pwrc)
        /\ f.psci = Graded(conduit, said, "none") /\ f.mem = facts.mem /\ f.dtb = facts.dtb
    <3> HIDE DEF conduit
    <3> QED
      BY <1>1, <2>1, <2>4 DEF FactsType
  <2> HIDE DEF f
  <2>6. Typed' /\ CandOk' /\ UNCHANGED <<in, cand>> /\ facts' = f /\ at' = "cpu"
    BY <1>3, <2>5, AcceptKeeps
  <2>7. RamPassed'
    BY <1>1, <2>3, <2>5, <2>6, RamStays
  <2>8. OfGicd' = OfGicd /\ OfGicr' = OfGicr /\ OfUart' = OfUart
        /\ BoardHas(in.board.pwrc)' = BoardHas(in.board.pwrc)
    BY <2>6, SameCandidates
  <2>9. PsciDiffers' = PsciDiffers /\ ControllersFound' = ControllersFound
    BY <2>6, <2>8 DEF PsciDiffers, ControllersFound
  <2>10. /\ facts'.gicd = Merge(OfGicd) /\ facts'.gicr = Merge(OfGicr)
         /\ facts'.uart = Merge(OfUart) /\ facts'.psci.value = conduit
         /\ facts'.pwrc = BoardHas(in.board.pwrc)
    BY <2>4, <2>5, <2>6
  <2>11. CtlPassed'
    BY <1>3, <2>6, <2>8, <2>9, <2>10 DEF CtlPassed
  <2> QED
    BY <2>6, <2>7, <2>11 DEF FactsInv
<1>4. "mismatch" \in Reasons
  BY DEF Reasons
<1> QED
  BY <1>2, <1>3, <1>4 DEF S4Ctl

\* S4 decides on the CPUs (facts.c:153-226).
LEMMA CpuKeeps ==
  ASSUME FactsInv, S4Cpu
  PROVE  FactsInv'
<1>1. /\ in \in Inputs /\ cand \in CandType /\ facts \in FactsType
      /\ at = "cpu" => RamPassed /\ CtlPassed
  BY DEF FactsInv, Typed
<1>2. CASE \E reason \in Reasons : Halt(reason)
  BY <1>2, HaltKeeps
<1> DEFINE strange == \/ \E i \in DOMAIN cand.cpu : CpuUnknown(cand.cpu[i])
                      \/ cand.cpu = <<>> /\ Len(BoardCpus) > CPU_BOUND
                      \/ ~BootListed(CpuFacts)
           f == [facts EXCEPT !.cpu = CpuFacts]
<1>3. CASE ~strange /\ Accept(f, "timer")
  <2>1. CpuFacts \in Seq(FactOf(Affinities))
    BY <1>1, CpuFactsAre
  <2>2. /\ f \in FactsType /\ f.cpu = CpuFacts /\ f.gicd = facts.gicd /\ f.gicr = facts.gicr
        /\ f.uart = facts.uart /\ f.psci = facts.psci /\ f.pwrc = facts.pwrc
        /\ f.mem = facts.mem /\ f.dtb = facts.dtb
    BY <1>1, <2>1 DEF FactsType
  <2>3. at = "cpu"
    BY DEF S4Cpu
  <2> HIDE DEF f
  <2>4. Typed' /\ CandOk' /\ UNCHANGED <<in, cand>> /\ facts' = f /\ at' = "timer"
    BY <1>3, <2>2, AcceptKeeps
  <2>5. RamPassed' /\ CtlPassed'
    BY <1>1, <2>2, <2>3, <2>4, RamStays, CtlStays
  <2>6. BoardCpus' = BoardCpus /\ Boot' = Boot /\ CpuFacts' = CpuFacts
    BY <2>4, SameCandidates
  <2>7. Len(BoardCpus) \in Nat /\ CPU_BOUND \in Nat
    BY <1>1, BoardSeqs, FirstOf, FactsAssumption DEF FactsAssumption
  <2>8. cand.cpu = <<>> => Len(BoardCpus) <= CPU_BOUND
    BY <1>3, <2>7
  <2>9. CpuPassed'
    BY <1>3, <2>2, <2>4, <2>6, <2>8 DEF CpuPassed, CpuUnknown, BootListed
  <2> QED
    BY <2>4, <2>5, <2>9 DEF FactsInv
<1>4. "cpu" \in Reasons
  BY DEF Reasons
<1> QED
  BY <1>2, <1>3, <1>4 DEF S4Cpu

\* S4 decides on the timer (facts.c:228-239).
LEMMA TimerKeeps ==
  ASSUME FactsInv, S4Timer
  PROVE  FactsInv'
<1>1. /\ in \in Inputs /\ cand \in CandType /\ facts \in FactsType
      /\ at = "timer" => RamPassed /\ CtlPassed /\ CpuPassed
  BY DEF FactsInv, Typed
<1>2. CASE \E reason \in Reasons : Halt(reason)
  BY <1>2, HaltKeeps
<1> DEFINE f == [facts EXCEPT !.ppi = ISA_PPI, !.freq = Frequency]
<1>3. CASE cand.ppi \in {0, ISA_PPI} /\ Frequency # 0 /\ Accept(f, "done")
  <2>1. Frequency \in Nat /\ ISA_PPI \in Nat
    BY <1>1, BoardTyped, FactsAssumption DEF Frequency, FactsAssumption
  <2>2. /\ f \in FactsType /\ f.cpu = facts.cpu /\ f.gicd = facts.gicd /\ f.gicr = facts.gicr
        /\ f.uart = facts.uart /\ f.psci = facts.psci /\ f.pwrc = facts.pwrc
        /\ f.mem = facts.mem /\ f.dtb = facts.dtb /\ f.ppi = ISA_PPI /\ f.freq = Frequency
    BY <1>1, <2>1 DEF FactsType
  <2>3. at = "timer"
    BY DEF S4Timer
  <2> HIDE DEF f
  <2>4. Typed' /\ CandOk' /\ UNCHANGED <<in, cand>> /\ facts' = f /\ at' = "done"
    BY <1>3, <2>2, AcceptKeeps
  <2>5. RamPassed' /\ CtlPassed' /\ CpuPassed'
    BY <1>1, <2>2, <2>3, <2>4, RamStays, CtlStays, CpuStays
  <2>6. Frequency' = Frequency
    BY <2>4, SameCandidates
  <2>7. TimerPassed'
    BY <1>3, <2>2, <2>4, <2>6 DEF TimerPassed
  <2> QED
    BY <2>4, <2>5, <2>7 DEF FactsInv
<1>4. "timer" \in Reasons /\ "mismatch" \in Reasons
  BY DEF Reasons
<1> QED
  BY <1>2, <1>3, <1>4 DEF S4Timer

\* The invariant survives every step, whatever the nodes.
LEMMA AnyStepKeeps ==
  ASSUME FactsInv, AnyStep
  PROVE  FactsInv'
<1>1. CASE UNCHANGED vars
  <2>1. UNCHANGED <<in, node, cand, facts, at, why>>
    BY <1>1 DEF vars
  <2>2. Typed' /\ CandOk'
    BY <2>1 DEF FactsInv, Typed, CandOk
  <2>3. RamPassed => RamPassed'
    BY <2>1, RamStays
  <2>4. CtlPassed => CtlPassed'
    BY <2>1, CtlStays
  <2>5. CpuPassed => CpuPassed'
    BY <2>1, CpuStays
  <2>6. TimerPassed => TimerPassed'
    BY <2>1 DEF TimerPassed, Frequency
  <2> QED
    BY <2>1, <2>2, <2>3, <2>4, <2>5, <2>6 DEF FactsInv
<1> QED
  BY <1>1, HaltKeeps, NoDtbKeeps, ValidKeeps, EndedKeeps, RamKeeps, CtlKeeps, CpuKeeps,
     TimerKeeps DEF AnyStep

\* The invariant holds before S3.
LEMMA InitHolds ==
  ASSUME Init
  PROVE  FactsInv
<1>1. NoRange \in Ranges
  BY BoardTyped DEF Init
<1>2. NoFact \in FactOf(Ranges) /\ Graded("none", {}, "none") \in FactOf(Methods)
  <2>1. {} \in SUBSET Sources /\ "none" \in Grades /\ "none" \in Methods
    BY DEF Grades, Methods
  <2> QED
    BY <1>1, <2>1, GradedTyped DEF NoFact
<1>3. \A S : <<>> \in Seq(S) /\ Len(<<>>) = 0
  BY EmptySeq
<1>4. cand \in CandType
  BY <1>1, <1>3 DEF Init, CandType, Methods
<1>5. facts \in FactsType
  BY <1>1, <1>2, <1>3 DEF Init, FactsType
<1>6. CandOk
  <2>1. cand.mem = <<>> /\ cand.cpu = <<>> /\ cand.uart = {}
    BY DEF Init
  <2>2. MEM_FACT_MAX \in Nat /\ CPU_BOUND \in Nat
    BY FactsAssumption DEF FactsAssumption
  <2> QED
    BY <1>3, <2>1, <2>2 DEF CandOk
<1> QED
  BY <1>4, <1>5, <1>6 DEF Init, FactsInv, Typed

-----------------------------------------------------------------------------
(* What the invariant says of a table that S4 is done with                  *)

\* A boot that goes on has every load-bearing fact.
LEMMA InvLoadBearing ==
  ASSUME FactsInv
  PROVE  LoadBearing
<1>1. SUFFICES ASSUME at = "done"
               PROVE  /\ ImageInRam(facts.mem) /\ BootListed(facts.cpu)
                      /\ \A i, j \in DOMAIN facts.cpu :
                           facts.cpu[i].value = facts.cpu[j].value => i = j
                      /\ facts.gicd.value.size # 0 /\ facts.gicr.value.size # 0
                      /\ facts.freq # 0 /\ facts.ppi = ISA_PPI
  BY DEF LoadBearing, ImageInRam, BootListed
<1>2. in \in Inputs /\ cand \in CandType /\ CandOk
      /\ RamPassed /\ CtlPassed /\ CpuPassed /\ TimerPassed
  BY <1>1 DEF FactsInv, Typed
<1>3. ImageInRam(facts.mem) /\ BootListed(facts.cpu) /\ facts.freq # 0 /\ facts.ppi = ISA_PPI
  BY <1>2 DEF RamPassed, CpuPassed, TimerPassed
<1>4. \A i, j \in DOMAIN CpuFacts : CpuFacts[i].value = CpuFacts[j].value => i = j
  <2>1. CASE cand.cpu # <<>>
    BY <1>2, <2>1, CpuFactsAre DEF CandOk
  <2>2. CASE cand.cpu = <<>> /\ BoardCpus # <<>>
    BY <1>2, <2>2, CpuFactsAre, BoardSeqs
  <2>3. CASE cand.cpu = <<>> /\ BoardCpus = <<>>
    BY <1>2, <2>3, CpuFactsAre
  <2> QED
    BY <2>1, <2>2, <2>3
<1>5. ASSUME NEW c, Given(c), c.found <=> c.dtb.size # 0, Merge(c) # NoFact
      PROVE  Merge(c).value.size # 0
  BY <1>5, MergeIs
<1>6. /\ OfGicd.found <=> OfGicd.dtb.size # 0
      /\ OfGicr.found <=> OfGicr.dtb.size # 0
  BY DEF OfGicd, OfGicr
<1>7. facts.gicd.value.size # 0 /\ facts.gicr.value.size # 0
  BY <1>2, <1>5, <1>6, GivenTyped DEF CtlPassed, ControllersFound
<1> QED
  BY <1>2, <1>3, <1>4, <1>7 DEF CpuPassed

\* What S4 has accepted is what the board says, where it speaks.
LEMMA InvBoardAgrees ==
  ASSUME FactsInv
  PROVE  BoardAgrees
<1>1. SUFFICES ASSUME at = "done", in.board.present PROVE BoardAgrees
  BY DEF BoardAgrees
<1>2. in \in Inputs /\ cand \in CandType /\ CandOk
      /\ RamPassed /\ CtlPassed /\ CpuPassed /\ TimerPassed
  BY <1>1 DEF FactsInv, Typed
<1>3. ASSUME NEW i \in DOMAIN facts.mem \cap DOMAIN in.board.ram
      PROVE  facts.mem[i].value = in.board.ram[i]
  <2>1. BoardRam = in.board.ram /\ facts.mem = RamFacts /\ RamAgrees /\ RamFacts # <<>>
    BY <1>1, <1>2 DEF BoardRam, RamPassed
  <2>2. BoardRam \in Seq(Ranges) /\ BoardRam[i] \in Ranges
    BY <1>2, <1>3, <2>1, BoardSeqs, FirstOf
  <2>3. {"DTB", "BOARD"} \in SUBSET Sources /\ {"BOARD"} \in SUBSET Sources
        /\ "corroborated" \in Grades /\ "single" \in Grades
    BY DEF Sources, Grades
  <2>4. CASE cand.mem # <<>>
    <3>1. i \in DOMAIN cand.mem /\ DOMAIN RamFacts = DOMAIN cand.mem
      BY <1>2, <1>3, <2>1, <2>4, RamFactsAre
    <3>2. i \in Common
      BY <1>3, <2>1, <3>1 DEF Common
    <3>3. RamFacts[i] = Graded(cand.mem[i], {"DTB", "BOARD"}, "corroborated")
      BY <1>2, <2>4, <3>1, <3>2, RamFactsAre
    <3>4. cand.mem[i] = BoardRam[i]
      BY <2>1, <3>2 DEF RamAgrees
    <3> QED
      BY <2>1, <2>2, <2>3, <3>3, <3>4, GradedTyped
  <2>5. CASE cand.mem = <<>> /\ BoardRam # <<>>
    <3>1. i = 1 /\ RamFacts[1] = Graded(BoardRam[1], {"BOARD"}, "single")
      BY <1>2, <1>3, <2>1, <2>5, RamFactsAre
    <3> QED
      BY <2>1, <2>2, <2>3, <3>1, GradedTyped
  <2> QED
    BY <1>2, <2>1, <2>4, <2>5, RamFactsAre
<1>4. /\ in.board.gicd.size # 0 => facts.gicd.value = in.board.gicd
      /\ in.board.gicr.size # 0 => facts.gicr.value = in.board.gicr
      /\ in.board.uart.size # 0 => facts.uart.value = in.board.uart
  <2>1. /\ OfGicd.board = in.board.gicd /\ OfGicr.board = in.board.gicr
        /\ OfUart.board = in.board.uart
    BY <1>1 DEF OfGicd, OfGicr, OfUart, BoardHas
  <2>2. /\ facts.gicd = Merge(OfGicd) /\ facts.gicr = Merge(OfGicr)
        /\ facts.uart = Merge(OfUart)
        /\ ~Differ(OfGicd) /\ ~Differ(OfGicr) /\ ~Differ(OfUart)
    BY <1>2 DEF CtlPassed
  <2>3. Given(OfGicd) /\ Given(OfGicr) /\ Given(OfUart)
    BY <1>2, GivenTyped
  <2> QED
    BY <2>1, <2>2, <2>3, MergeIs
<1>5. ASSUME in.board.psci # "none"
      PROVE  facts.psci.value = in.board.psci
  BY <1>1, <1>2, <1>5 DEF CtlPassed, PsciDiffers
<1>6. ASSUME in.board.cpu # <<>>, NEW i \in DOMAIN facts.cpu
      PROVE  InSeq(facts.cpu[i].value, BoardCpus)
  <2>1. facts.cpu = CpuFacts
    BY <1>2 DEF CpuPassed
  <2>2. BoardCpus # <<>>
    <3>1. in.board.cpu \in Seq(Nat)
      BY <1>2, BoardTyped
    <3>2. 1 \in DOMAIN in.board.cpu
      BY <1>6, <3>1, FirstOf
    <3>3. DOMAIN BoardCpus = DOMAIN in.board.cpu
      BY <1>1, <1>6 DEF BoardCpus
    <3> QED
      BY <3>2, <3>3
  <2>3. CASE cand.cpu # <<>>
    <3>1. i \in DOMAIN cand.cpu /\ CpuFacts[i].value = cand.cpu[i]
      BY <1>1, <1>2, <1>6, <2>1, <2>3, CpuFactsAre
    <3>2. ~CpuUnknown(cand.cpu[i])
      BY <1>2, <3>1 DEF CpuPassed
    <3> QED
      BY <2>1, <2>2, <3>1, <3>2 DEF CpuUnknown
  <2>4. CASE cand.cpu = <<>>
    <3>1. i \in DOMAIN BoardCpus /\ CpuFacts[i].value = BoardCpus[i]
      BY <1>1, <1>2, <1>6, <2>1, <2>2, <2>4, CpuFactsAre
    <3> QED
      BY <2>1, <3>1 DEF InSeq
  <2> QED
    BY <2>3, <2>4
<1> QED
  BY <1>1, <1>3, <1>4, <1>5, <1>6 DEF BoardAgrees

-----------------------------------------------------------------------------
(* The specification of S3 and S4                                           *)

\* A step over a list of nodes is one of these steps.
LEMMA NextIsAnyStep ==
  ASSUME FactsInv, [Next]_vars
  PROVE  AnyStep
<1>1. CASE EndNode
  <2>1. InDtb /\ node < Len(Nodes) /\ Ended(Here) /\ node \in Nat /\ in \in Inputs
    BY <1>1 DEF EndNode, FactsInv, Typed
  <2>2. Nodes \in Seq(Node)
    <3>1. Nodes \in in.dtb
      BY <2>1 DEF InDtb, Nodes
    <3> QED
      BY <2>1, <3>1, MachinesAssumption DEF IsMachine
  <2>3. Here \in Node
    <3>1. node + 1 \in 1 .. Len(Nodes)
      BY <2>1, <2>2, FirstOf
    <3> QED
      BY <2>2, <3>1, ElementOfSeq DEF Here
  <2>4. IsNode(Here)
    BY <2>3 DEF Node, IsNode
  <2> QED
    BY <2>1, <2>4 DEF AnyStep
<1>2. CASE EndDtb
  <2>1. InDtb /\ in \in Inputs
    BY <1>2 DEF EndDtb, FactsInv, Typed
  <2>2. in.flaw # "none" => in.flaw \in Reasons
    BY <2>1, MachinesAssumption DEF IsMachine, Reasons
  <2> QED
    BY <1>2, <2>1, <2>2 DEF EndDtb, AnyStep
<1>3. CASE Stay
  BY <1>3 DEF Stay, AnyStep
<1> QED
  BY <1>1, <1>2, <1>3 DEF Next, AnyStep

\* The invariant holds of every machine.
LEMMA InvHolds == Spec => []FactsInv
<1>1. Init => FactsInv
  BY InitHolds
<1>2. FactsInv /\ [Next]_vars => FactsInv'
  BY NextIsAnyStep, AnyStepKeeps
<1> QED
  BY <1>1, <1>2, PTL DEF Spec

\* A boot that S4 lets go on has RAM that holds the image, the boot CPU among
\* distinct CPUs, a controller, and a timer that runs (facts.c:103-107, 218-239).
THEOREM FactsBearLoad == Spec => []LoadBearing
<1>1. FactsInv => LoadBearing
  BY InvLoadBearing
<1> QED
  BY <1>1, InvHolds, PTL

\* What S4 accepts of RAM, controllers, console, method and CPUs is what the board
\* says, where it speaks (facts.c:84-96, 114-138, 160-172); of the frequency it may be
\* another (BoardFrequencyAgrees).
THEOREM FactsAgreeWithBoard == Spec => []BoardAgrees
<1>1. FactsInv => BoardAgrees
  BY InvBoardAgrees
<1> QED
  BY <1>1, InvHolds, PTL

\* The values have their types, and the tables their bounds.
THEOREM FactsTypeCorrect == Spec => []TypeOK
<1>1. ASSUME FactsInv
      PROVE  TypeOK
  <2>1. cand \in CandType /\ facts \in FactsType
    BY <1>1 DEF FactsInv, Typed
  <2>2. facts.cpu \in Seq(FactOf(Affinities))
    BY <2>1 DEF FactsType
  <2> QED
    BY <1>1, <2>1, <2>2, CandTyped DEF TypeOK, FactsInv, Typed, CandOk, FactOf, Reasons
<1> QED
  BY <1>1, InvHolds, PTL

\* The candidates are what a node of the DTB says.
Said ==
  /\ \A i \in DOMAIN cand.mem : cand.mem[i] \in DtbRanges("memory")
  /\ \A i \in DOMAIN cand.cpu : cand.cpu[i] \in DtbCpus
  /\ cand.gicd.size # 0 => cand.gicd \in DtbRanges("gic")
  /\ cand.gicr.size # 0 => cand.gicr \in DtbRanges("gic")
  /\ cand.uart \subseteq DtbRanges("uart")

\* A node's ranges and its CPU are among those that the DTB names.
LEMMA NodeSays ==
  ASSUME in.dtb # {}, NEW j \in DOMAIN Nodes
  PROVE  /\ \A kind \in Nodes[j].kinds : \A i \in DOMAIN Nodes[j].regs :
              Nodes[j].regs[i] \in DtbRanges(kind)
         /\ "cpu" \in Nodes[j].kinds /\ Nodes[j].regs # <<>> =>
              Affinity(Nodes[j].regs[1].base) \in DtbCpus
<1>1. ASSUME NEW kind \in Nodes[j].kinds
      PROVE  Nodes[j] \in DtbNodes(kind)
  BY <1>1 DEF DtbNodes
<1>2. ASSUME NEW kind \in Nodes[j].kinds, NEW i \in DOMAIN Nodes[j].regs
      PROVE  Nodes[j].regs[i] \in DtbRanges(kind)
  BY <1>1, <1>2 DEF DtbRanges
<1>3. ASSUME "cpu" \in Nodes[j].kinds, Nodes[j].regs # <<>>
      PROVE  Affinity(Nodes[j].regs[1].base) \in DtbCpus
  BY <1>1, <1>3 DEF DtbCpus
<1> QED
  BY <1>2, <1>3

\* What the DTB names does not change.
LEMMA SameDtb ==
  ASSUME UNCHANGED in
  PROVE  DtbCpus' = DtbCpus /\ \A kind : DtbRanges(kind)' = DtbRanges(kind)
<1>1. \A kind : DtbNodes(kind)' = DtbNodes(kind)
  BY DEF DtbNodes, Nodes
<1> QED
  BY <1>1 DEF DtbCpus, DtbRanges

\* A step that leaves the candidates leaves who said them.
LEMMA SaidKept ==
  ASSUME Said, UNCHANGED in,
         cand'.mem = cand.mem, cand'.cpu = cand.cpu, cand'.gicd = cand.gicd,
         cand'.gicr = cand.gicr, cand'.uart = cand.uart
  PROVE  Said'
  BY SameDtb DEF Said

\* What the DTB's nodes say stays true of the candidates, step by step.
LEMMA SaidKeeps ==
  ASSUME FactsInv, Said, [Next]_vars
  PROVE  Said'
<1>1. cand \in CandType /\ CandOk /\ node \in Nat /\ in \in Inputs
  BY DEF FactsInv, Typed
<1>2. CASE UNCHANGED <<in, cand>>
  BY <1>2, SaidKept
<1>3. CASE EndNode /\ Refused(Here) = "none" /\ Learn(Learnt(Here))
  <2>1. /\ InDtb /\ node < Len(Nodes) /\ in.dtb # {}
        /\ cand' = Learnt(Here) /\ UNCHANGED <<in, facts, at, why>>
    BY <1>3 DEF EndNode, Learn, InDtb
  <2>2. Nodes \in Seq(Node)
    <3>1. Nodes \in in.dtb
      BY <2>1 DEF Nodes
    <3> QED
      BY <1>1, <3>1, MachinesAssumption DEF IsMachine
  <2>3. node + 1 \in DOMAIN Nodes
    BY <1>1, <2>1, <2>2, FirstOf
  <2> DEFINE n == Here
  <2>4. n = Nodes[node + 1] /\ n \in Node
    BY <2>2, <2>3, FirstOf DEF Here
  <2>5. /\ \A kind \in n.kinds : \A i \in DOMAIN n.regs : n.regs[i] \in DtbRanges(kind)
        /\ "cpu" \in n.kinds /\ n.regs # <<>> => Affinity(n.regs[1].base) \in DtbCpus
    BY <2>1, <2>3, <2>4, NodeSays
  <2>6. IsNode(n)
    BY <2>4 DEF Node, IsNode
  <2> HIDE DEF n
  <2>7. Refused(n) = "none" /\ cand' = Learnt(n)
    BY <1>3, <2>1 DEF n
  <2>8. /\ cand'.mem = cand.mem \o MemOf(n) /\ cand'.cpu = CpusOf(n)
        /\ \/ cand'.gicd = cand.gicd
           \/ "gic" \in n.kinds /\ 1 \in DOMAIN n.regs /\ cand'.gicd = n.regs[1]
        /\ \/ cand'.gicr = cand.gicr
           \/ "gic" \in n.kinds /\ 2 \in DOMAIN n.regs /\ cand'.gicr = n.regs[2]
        /\ \/ cand'.uart = cand.uart
           \/ "uart" \in n.kinds /\ 1 \in DOMAIN n.regs /\ cand'.uart = {n.regs[1]}
    BY <1>1, <2>6, <2>7, LearntOk
  <2>9. \A i \in DOMAIN cand'.mem : cand'.mem[i] \in DtbRanges("memory")
    <3>1. MemOf(n) \in Seq(Ranges) /\ cand.mem \in Seq(Ranges)
      BY <1>1, <2>6, EmptySeq, CandTyped DEF MemOf, IsNode
    <3>2. \A i \in DOMAIN MemOf(n) : MemOf(n)[i] \in DtbRanges("memory")
      BY <2>5 DEF MemOf
    <3>3. /\ Len(cand.mem) \in Nat /\ DOMAIN cand.mem = 1 .. Len(cand.mem)
          /\ Len(MemOf(n)) \in Nat /\ DOMAIN MemOf(n) = 1 .. Len(MemOf(n))
      BY <3>1, FirstOf
    <3> DEFINE all == cand.mem \o MemOf(n)
    <3> HIDE DEF all
    <3>4. /\ all \in Seq(Ranges) /\ Len(all) = Len(cand.mem) + Len(MemOf(n))
          /\ \A i \in 1 .. Len(cand.mem) + Len(MemOf(n)) :
               all[i] = IF i <= Len(cand.mem) THEN cand.mem[i] ELSE MemOf(n)[i - Len(cand.mem)]
      BY <3>1, ConcatProperties DEF all
    <3>5. DOMAIN all = 1 .. Len(cand.mem) + Len(MemOf(n))
      BY <3>4, FirstOf
    <3>6. \A i \in DOMAIN all :
            \/ i \in DOMAIN cand.mem /\ all[i] = cand.mem[i]
            \/ (i - Len(cand.mem)) \in DOMAIN MemOf(n) /\ all[i] = MemOf(n)[i - Len(cand.mem)]
      BY <3>3, <3>4, <3>5
    <3>7. cand'.mem = all
      BY <2>8 DEF all
    <3> QED
      BY <3>2, <3>6, <3>7 DEF Said
  <2>10. \A i \in DOMAIN cand'.cpu : cand'.cpu[i] \in DtbCpus
    <3>1. CASE "cpu" \in n.kinds /\ n.regs # <<>>
      <4>1. n.regs[1] \in Ranges
        BY <2>6, <3>1, FirstOf DEF IsNode
      <4>2. n.regs[1].base \in Nat
        BY <4>1, RangeTyped, RangeAssumption DEF Word, RangeAssumption
      <4>3. cand'.cpu = AddCpu(cand.cpu, n.regs[1].base)
        BY <2>8, <3>1 DEF CpusOf
      <4>4. \A i \in DOMAIN cand'.cpu :
              \/ i \in DOMAIN cand.cpu /\ cand'.cpu[i] = cand.cpu[i]
              \/ cand'.cpu[i] = Affinity(n.regs[1].base)
        <5> DEFINE t == AddCpu(cand.cpu, n.regs[1].base)
        <5>1. cand.cpu \in Seq(Affinities)
          BY <1>1, CandTyped
        <5>2. \A i, j \in DOMAIN cand.cpu : cand.cpu[i] = cand.cpu[j] => i = j
          BY <1>1 DEF CandOk
        <5>3. \A i \in DOMAIN t : \/ i \in DOMAIN cand.cpu /\ t[i] = cand.cpu[i]
                                 \/ t[i] = Affinity(n.regs[1].base)
          BY <4>2, <5>1, <5>2, AddCpuDistinct
        <5> HIDE DEF t
        <5>4. cand'.cpu = t
          BY <4>3 DEF t
        <5> QED
          BY <5>3, <5>4
      <4> QED
        BY <2>5, <3>1, <4>4 DEF Said
    <3>2. CASE ~("cpu" \in n.kinds /\ n.regs # <<>>)
      BY <2>8, <3>2 DEF CpusOf, Said
    <3> QED
      BY <3>1, <3>2
  <2>11. /\ cand'.gicd.size # 0 => cand'.gicd \in DtbRanges("gic")
         /\ cand'.gicr.size # 0 => cand'.gicr \in DtbRanges("gic")
         /\ cand'.uart \subseteq DtbRanges("uart")
    BY <2>5, <2>8 DEF Said
  <2>12. DtbCpus' = DtbCpus /\ \A kind : DtbRanges(kind)' = DtbRanges(kind)
    BY <2>1, SameDtb
  <2> QED
    BY <2>9, <2>10, <2>11, <2>12 DEF Said
<1>4. CASE EndNode /\ Halt(Refused(Here))
  BY <1>2, <1>4 DEF Halt
<1>5. CASE EndDtb
  <2>1. CASE Valid
    <3>1. UNCHANGED in /\ cand' = [cand EXCEPT !.valid = TRUE]
      BY <2>1 DEF Valid, Reach
    <3>2. /\ cand'.mem = cand.mem /\ cand'.cpu = cand.cpu /\ cand'.gicd = cand.gicd
          /\ cand'.gicr = cand.gicr /\ cand'.uart = cand.uart
      BY <1>1, <3>1 DEF CandType
    <3> QED
      BY <3>1, <3>2, SaidKept
  <2>2. CASE Halt(in.flaw)
    BY <1>2, <2>2 DEF Halt
  <2> QED
    BY <1>5, <2>1, <2>2 DEF EndDtb
<1>6. CASE NoDtb \/ S4Ram \/ S4Ctl \/ S4Cpu \/ S4Timer \/ Stay \/ UNCHANGED vars
  <2>1. UNCHANGED <<in, cand>>
    BY <1>6 DEF NoDtb, S4Ram, S4Ctl, S4Cpu, S4Timer, Stay, Accept, Reach, Halt, vars
  <2> QED
    BY <1>2, <2>1
<1> QED
  BY <1>3, <1>4, <1>5, <1>6 DEF Next, EndNode, Ended

\* One merged range, of a candidate that a node named and a board that has it.
LEMMA MergeKnown ==
  ASSUME NEW c, Given(c), NEW dtb, c.found => c.dtb \in dtb, ~Differ(c), Merge(c) # NoFact
  PROVE  Known(Merge(c), dtb, {c.board}, {})
<1>1. /\ {"DTB", "BOARD"} \in SUBSET Sources /\ {"DTB"} \in SUBSET Sources
      /\ {"BOARD"} \in SUBSET Sources /\ "corroborated" \in Grades /\ "single" \in Grades
  BY DEF Sources, Grades
<1>2. CASE c.found /\ c.board.size # 0
  <2>1. Merge(c) = Graded(c.dtb, {"DTB", "BOARD"}, "corroborated") /\ c.dtb = c.board
    BY <1>2, MergeCases DEF Given, Differ
  <2>2. /\ Merge(c).value = c.dtb /\ Merge(c).source = {"DTB", "BOARD"}
        /\ Merge(c).grade = "corroborated"
    BY <1>1, <2>1, GradedTyped DEF Given
  <2> QED
    BY <1>2, <2>1, <2>2, GradesOfSources DEF Known, Says
<1>3. CASE c.found /\ c.board.size = 0
  <2>1. Merge(c) = Graded(c.dtb, {"DTB"}, "single")
    BY <1>3, MergeCases DEF Given
  <2>2. /\ Merge(c).value = c.dtb /\ Merge(c).source = {"DTB"}
        /\ Merge(c).grade = "single"
    BY <1>1, <2>1, GradedTyped DEF Given
  <2> QED
    BY <1>3, <2>2, GradesOfSources DEF Known, Says
<1>4. CASE ~c.found /\ c.board.size # 0
  <2>1. Merge(c) = Graded(c.board, {"BOARD"}, "single")
    BY <1>4, MergeCases DEF Given
  <2>2. /\ Merge(c).value = c.board /\ Merge(c).source = {"BOARD"}
        /\ Merge(c).grade = "single"
    BY <1>1, <2>1, GradedTyped DEF Given
  <2> QED
    BY <2>2, GradesOfSources DEF Known, Says
<1> QED
  BY <1>2, <1>3, <1>4, MergeCases DEF Given

\* ... and the facts of a boot that is through with S4 are graded by it.
LEMMA InvGradesHonest ==
  ASSUME FactsInv, Said
  PROVE  GradesHonest
<1>1. SUFFICES ASSUME at = "done" PROVE GradesHonest
  BY DEF GradesHonest
<1>2. in \in Inputs /\ cand \in CandType /\ CandOk
      /\ RamPassed /\ CtlPassed /\ CpuPassed /\ TimerPassed
  BY <1>1 DEF FactsInv, Typed
<1>3. /\ {"DTB", "BOARD"} \in SUBSET Sources /\ {"DTB"} \in SUBSET Sources
      /\ {"BOARD"} \in SUBSET Sources /\ {"OBS"} \in SUBSET Sources
      /\ {"DTB", "OBS"} \in SUBSET Sources /\ {"BOARD", "OBS"} \in SUBSET Sources
      /\ {"DTB", "BOARD", "OBS"} \in SUBSET Sources
      /\ "corroborated" \in Grades /\ "single" \in Grades /\ "observed" \in Grades
  BY DEF Sources, Grades
<1>4. ASSUME NEW i \in DOMAIN facts.mem
      PROVE  Known(facts.mem[i], DtbRanges("memory"), {BoardRam[j] : j \in DOMAIN BoardRam}, {})
  <2> DEFINE ram == {BoardRam[j] : j \in DOMAIN BoardRam}
  <2>1. facts.mem = RamFacts /\ RamAgrees
    BY <1>2 DEF RamPassed
  <2>2. CASE cand.mem # <<>> /\ i \in Common
    <3>1. /\ RamFacts[i] = Graded(cand.mem[i], {"DTB", "BOARD"}, "corroborated")
          /\ i \in DOMAIN cand.mem
      BY <1>2, <1>4, <2>1, <2>2, RamFactsAre
    <3>2. cand.mem[i] = BoardRam[i] /\ BoardRam[i] \in ram
      BY <2>1, <2>2 DEF RamAgrees, Common
    <3>3. cand.mem[i] \in DtbRanges("memory")
      BY <3>1 DEF Said
    <3>4. /\ RamFacts[i].value = cand.mem[i] /\ RamFacts[i].source = {"DTB", "BOARD"}
          /\ RamFacts[i].grade = "corroborated"
      BY <3>1 DEF Graded
    <3> HIDE DEF ram
    <3>5. Known(RamFacts[i], DtbRanges("memory"), ram, {})
      BY <3>2, <3>3, <3>4, GradesOfSources DEF Known, Says
    <3> QED
      BY <2>1, <3>5 DEF ram
  <2>3. CASE cand.mem # <<>> /\ i \notin Common
    <3>1. RamFacts[i] = Graded(cand.mem[i], {"DTB"}, "single") /\ i \in DOMAIN cand.mem
      BY <1>2, <1>4, <2>1, <2>3, RamFactsAre
    <3>2. cand.mem[i] \in DtbRanges("memory")
      BY <3>1 DEF Said
    <3>3. /\ RamFacts[i].value = cand.mem[i] /\ RamFacts[i].source = {"DTB"}
          /\ RamFacts[i].grade = "single"
      BY <3>1 DEF Graded
    <3> HIDE DEF ram
    <3>4. Known(RamFacts[i], DtbRanges("memory"), ram, {})
      BY <3>2, <3>3, GradesOfSources DEF Known, Says
    <3> QED
      BY <2>1, <3>4 DEF ram
  <2>4. CASE cand.mem = <<>> /\ BoardRam # <<>>
    <3>1. i = 1 /\ RamFacts[1] = Graded(BoardRam[1], {"BOARD"}, "single")
      BY <1>2, <1>4, <2>1, <2>4, RamFactsAre
    <3>2. BoardRam[1] \in ram
      BY <1>2, <2>4, BoardSeqs, FirstOf
    <3>3. /\ RamFacts[1].value = BoardRam[1] /\ RamFacts[1].source = {"BOARD"}
          /\ RamFacts[1].grade = "single"
      BY <3>1 DEF Graded
    <3> HIDE DEF ram
    <3>4. Known(RamFacts[1], DtbRanges("memory"), ram, {})
      BY <3>2, <3>3, GradesOfSources DEF Known, Says
    <3> QED
      BY <2>1, <3>1, <3>4 DEF ram
  <2> QED
    BY <1>2, <2>2, <2>3, <2>4, RamFactsAre DEF RamPassed
<1>5. ASSUME NEW i \in DOMAIN facts.cpu
      PROVE  Known(facts.cpu[i], DtbCpus, {BoardCpus[j] : j \in DOMAIN BoardCpus}, {Boot})
  <2> DEFINE board == {BoardCpus[j] : j \in DOMAIN BoardCpus}
  <2>1. facts.cpu = CpuFacts
    BY <1>2 DEF CpuPassed
  <2>2. ASSUME NEW cpu \in Affinities, NEW s \in SUBSET Sources, NEW g \in Grades,
               \/ s = {"DTB", "BOARD"} /\ g = "corroborated"
               \/ s = {"DTB"} /\ g = "single"
               \/ s = {"BOARD"} /\ g = "single",
               "DTB" \in s => cpu \in DtbCpus, "BOARD" \in s => cpu \in board
        PROVE  Known(CpuFact(cpu, s, g), DtbCpus, board, {Boot})
    <3> HIDE DEF board
    <3>1. CASE cpu = Boot
      <4>1. CpuFact(cpu, s, g) = Graded(cpu, s \cup {"OBS"}, "corroborated")
        BY <3>1, CpuFactIs
      <4>2. s \cup {"OBS"} \in SUBSET Sources
        BY <1>3
      <4>3. /\ CpuFact(cpu, s, g).value = cpu
            /\ CpuFact(cpu, s, g).source = s \cup {"OBS"}
            /\ CpuFact(cpu, s, g).grade = "corroborated"
        BY <1>3, <4>1, <4>2, GradedTyped
      <4>4. GradeOf(s \cup {"OBS"}) = "corroborated"
        <5>1. /\ {"DTB"} \cup {"OBS"} = {"DTB", "OBS"}
              /\ {"BOARD"} \cup {"OBS"} = {"BOARD", "OBS"}
              /\ {"DTB", "BOARD"} \cup {"OBS"} = {"DTB", "BOARD", "OBS"}
          OBVIOUS
        <5> QED
          BY <2>2, <5>1, GradesOfSources
      <4>5. Says(s \cup {"OBS"}, cpu, DtbCpus, board, {Boot})
        BY <2>2, <3>1 DEF Says
      <4>6. s \cup {"OBS"} # {}
        OBVIOUS
      <4> QED
        BY <4>3, <4>4, <4>5, <4>6 DEF Known
    <3>2. CASE cpu # Boot
      <4>1. CpuFact(cpu, s, g) = Graded(cpu, s, g)
        BY <3>2, CpuFactIs
      <4>2. /\ CpuFact(cpu, s, g).value = cpu /\ CpuFact(cpu, s, g).source = s
            /\ CpuFact(cpu, s, g).grade = g
        BY <4>1, GradedTyped
      <4>3. GradeOf(s) = g /\ s # {} /\ "OBS" \notin s
        BY <2>2, GradesOfSources
      <4> QED
        BY <2>2, <4>2, <4>3 DEF Known, Says
    <3> QED
      BY <3>1, <3>2
  <2>3. CASE cand.cpu # <<>>
    <3>1. i \in DOMAIN cand.cpu /\ cand.cpu[i] \in Affinities /\ cand.cpu[i] \in DtbCpus
      BY <1>2, <1>5, <2>1, <2>3, CpuFactsAre, CandTyped, FirstOf DEF Said
    <3>2. CASE BoardCpus # <<>>
      <4>1. cand.cpu[i] \in board
        BY <1>2, <3>1, <3>2 DEF CpuPassed, CpuUnknown, InSeq
      <4>2. CpuFacts[i] = CpuFact(cand.cpu[i], {"DTB", "BOARD"}, "corroborated")
        BY <1>2, <1>5, <2>1, <2>3, <3>2, CpuFactsAre
      <4> HIDE DEF board
      <4>3. Known(CpuFacts[i], DtbCpus, board, {Boot})
        BY <1>3, <2>2, <3>1, <4>1, <4>2
      <4> QED
        BY <2>1, <4>3 DEF board
    <3>3. CASE BoardCpus = <<>>
      <4>1. CpuFacts[i] = CpuFact(cand.cpu[i], {"DTB"}, "single")
        BY <1>2, <1>5, <2>1, <2>3, <3>3, CpuFactsAre
      <4> HIDE DEF board
      <4>2. Known(CpuFacts[i], DtbCpus, board, {Boot})
        BY <1>3, <2>2, <3>1, <4>1
      <4> QED
        BY <2>1, <4>2 DEF board
    <3> QED
      BY <3>2, <3>3
  <2>4. CASE cand.cpu = <<>> /\ BoardCpus # <<>>
    <3>1. i \in DOMAIN BoardCpus /\ CpuFacts[i] = CpuFact(BoardCpus[i], {"BOARD"}, "single")
      BY <1>2, <1>5, <2>1, <2>4, CpuFactsAre
    <3>2. BoardCpus[i] \in Affinities /\ BoardCpus[i] \in board
      BY <1>2, <3>1, BoardSeqs, FirstOf
    <3> HIDE DEF board
    <3>3. Known(CpuFacts[i], DtbCpus, board, {Boot})
      BY <1>3, <2>2, <3>1, <3>2
    <3> QED
      BY <2>1, <3>3 DEF board
  <2>5. CASE cand.cpu = <<>> /\ BoardCpus = <<>>
    <3>1. i = 1 /\ CpuFacts[1] = Graded(Boot, {"OBS"}, "observed") /\ Boot \in Affinities
      BY <1>2, <1>5, <2>1, <2>5, CpuFactsAre, BoardSeqs
    <3>2. /\ CpuFacts[1].value = Boot /\ CpuFacts[1].source = {"OBS"}
          /\ CpuFacts[1].grade = "observed"
      BY <1>3, <3>1, GradedTyped
    <3> HIDE DEF board
    <3>3. Known(CpuFacts[1], DtbCpus, board, {Boot})
      BY <3>2, GradesOfSources DEF Known, Says
    <3> QED
      BY <2>1, <3>1, <3>3 DEF board
  <2> QED
    BY <2>3, <2>4, <2>5
<1>6. /\ Given(OfGicd) /\ Given(OfGicr) /\ Given(OfUart)
      /\ ~Differ(OfGicd) /\ ~Differ(OfGicr) /\ ~Differ(OfUart)
      /\ Merge(OfGicd) # NoFact /\ Merge(OfGicr) # NoFact
      /\ facts.gicd = Merge(OfGicd) /\ facts.gicr = Merge(OfGicr) /\ facts.uart = Merge(OfUart)
  BY <1>2, GivenTyped DEF CtlPassed, ControllersFound
<1>7. /\ OfGicd.board = BoardHas(in.board.gicd) /\ OfGicr.board = BoardHas(in.board.gicr)
      /\ OfUart.board = BoardHas(in.board.uart)
  BY DEF OfGicd, OfGicr, OfUart
<1>8. /\ OfGicd.found => OfGicd.dtb \in DtbRanges("gic")
      /\ OfGicr.found => OfGicr.dtb \in DtbRanges("gic")
      /\ OfUart.found => OfUart.dtb \in DtbRanges("uart")
  <2>1. cand.uart # {} => (CHOOSE r \in cand.uart : TRUE) \in cand.uart
    OBVIOUS
  <2> QED
    BY <2>1 DEF OfGicd, OfGicr, OfUart, Said
<1>9. /\ Known(facts.gicd, DtbRanges("gic"), {BoardHas(in.board.gicd)}, {})
      /\ Known(facts.gicr, DtbRanges("gic"), {BoardHas(in.board.gicr)}, {})
      /\ facts.uart # NoFact =>
           Known(facts.uart, DtbRanges("uart"), {BoardHas(in.board.uart)}, {})
  BY <1>6, <1>7, <1>8, MergeKnown
<1> QED
  BY <1>4, <1>5, <1>9 DEF GradesHonest

\* Every accepted fact carries the sources that said it, each of which did, and
\* the grade that their number makes (facts.c:29-61, 80-105, 153-217).
THEOREM FactsGradedHonestly == Spec => []GradesHonest
<1>1. Init => FactsInv /\ Said
  <2>1. ASSUME Init PROVE Said
    <3>1. /\ cand.mem = <<>> /\ cand.cpu = <<>> /\ cand.uart = {}
          /\ cand.gicd.size = 0 /\ cand.gicr.size = 0
      BY <2>1 DEF Init, NoRange
    <3> QED
      BY <3>1 DEF Said
  <2> QED
    BY <2>1, InitHolds
<1>2. (FactsInv /\ Said) /\ [Next]_vars => (FactsInv /\ Said)'
  BY NextIsAnyStep, AnyStepKeeps, SaidKeeps
<1>3. FactsInv /\ Said => GradesHonest
  BY InvGradesHonest
<1> QED
  BY <1>1, <1>2, <1>3, PTL DEF Spec

-----------------------------------------------------------------------------
(* Induction. The library's induction theorems take a predicate; a least     *)
(* element of a set of numbers gives what is needed here.                    *)

\* The order of the naturals as a relation.
LEMMA LessThan == OpToRel(<, Nat) = {ss \in Nat \X Nat : ss[1] < ss[2]}
  BY Zenon DEF OpToRel

\* A set that holds 0 and with each number the next holds every number.
LEMMA EveryNumber ==
  ASSUME NEW S, 0 \in S, \A n \in Nat : n \in S => n + 1 \in S
  PROVE  Nat \subseteq S
<1> DEFINE R == {ss \in Nat \X Nat : ss[1] < ss[2]}
           T == {n \in Nat : n \notin S}
<1>1. IsWellFoundedOn(R, Nat)
  BY NatLessThanWellFounded, LessThan
<1>2. SUFFICES ASSUME T # {} PROVE FALSE
  OBVIOUS
<1>3. PICK x \in T : \A y \in T : ~(<<y, x>> \in R)
  <2>1. T \subseteq Nat
    OBVIOUS
  <2> HIDE DEF R, T
  <2> QED
    BY <1>1, <1>2, <2>1, WFMin
<1>4. x \in Nat /\ x \notin S /\ x # 0
  BY <1>3
<1>5. x - 1 \in Nat /\ x - 1 < x /\ (x - 1) + 1 = x
  BY <1>4
<1>6. x - 1 \notin S
  BY <1>4, <1>5
<1>7. x - 1 \in T /\ <<x - 1, x>> \in R
  BY <1>4, <1>5, <1>6
<1> QED
  BY <1>3, <1>7

-----------------------------------------------------------------------------
(* The decoder: what it reads is a word, whatever the blob                  *)

\* The blob of a machine is one of those that the assumption names.
LEMMA BlobTyped ==
  ASSUME in \in Inputs
  PROVE  IsBlob(Blob)
  BY BlobsAssumption DEF Blob

\* A cell of the blob, or of the memory behind it, is a word of 32 bits.
LEMMA CellTyped ==
  ASSUME in \in Inputs, NEW p \in Nat
  PROVE  Cell(p) \in Word32
<1>1. Blob.words \in Seq(Word32) /\ Blob.beyond \in Word32
  BY BlobTyped DEF IsBlob
<1>2. Len(Blob.words) \in Nat
  BY <1>1, FirstOf
<1>3. ASSUME p < 4 * Len(Blob.words)
      PROVE  Blob.words[p \div 4 + 1] \in Word32
  <2>1. p \div 4 + 1 \in 1 .. Len(Blob.words)
    BY <1>2, <1>3
  <2> QED
    BY <1>1, <2>1, ElementOfSeq
<1> QED
  BY <1>1, <1>3 DEF Cell, Total

\* The low 32 bits of a sum.
LEMMA U32Typed ==
  ASSUME NEW n \in Nat
  PROVE  U32(n) \in Word32 /\ U32(n) \in Nat /\ Align4(n) \in Word32 /\ Word32 \subseteq Nat
<1>1. CELL \in Nat \ {0}
  BY FdtAssumption DEF FdtAssumption
<1>2. \A m \in Nat : U32(m) \in Word32 /\ U32(m) \in Nat
  BY <1>1 DEF U32, Word32
<1> DEFINE up == U32(n + 3)
<1>3. up \in Nat /\ up \in 0 .. CELL - 1
  BY <1>2 DEF Word32
<1> HIDE DEF up
<1>4. up - (up % 4) \in 0 .. CELL - 1
  BY <1>1, <1>3
<1>5. Align4(n) = up - (up % 4)
  BY DEF Align4, up
<1> QED
  BY <1>1, <1>2, <1>4, <1>5 DEF Word32

\* A number of any number of cells is a word (fdt.c be_cells): the function that
\* adds them up exists, and each of its values is what is left of a remainder.
LEMMA NumberTyped ==
  ASSUME in \in Inputs, NEW p \in Nat, NEW cells \in Nat
  PROVE  Number(p, cells) \in Word
<1> DEFINE Mix(a, i) == (a * CELL + Cell(p + 4 * (i - 1))) % WORD
           IsSum(f, n) == f = [i \in 0 .. n |-> IF i = 0 THEN 0 ELSE Mix(f[i - 1], i)]
           S == {n \in Nat : \E f : IsSum(f, n)}
<1>1. WORD \in Nat \ {0} /\ CELL \in Nat \ {0}
  BY RangeAssumption, FdtAssumption DEF RangeAssumption, FdtAssumption
<1>2. ASSUME NEW a \in Nat, NEW i \in Nat \ {0}
      PROVE  Mix(a, i) \in Word
  <2>1. Cell(p + 4 * (i - 1)) \in Nat
    <3>1. p + 4 * (i - 1) \in Nat
      OBVIOUS
    <3> QED
      BY <3>1, CellTyped, U32Typed
  <2>2. a * CELL \in Nat
    BY <1>1
  <2>3. a * CELL + Cell(p + 4 * (i - 1)) \in Nat
    BY <2>1, <2>2
  <2> DEFINE t == a * CELL + Cell(p + 4 * (i - 1))
  <2>4. t \in Nat
    BY <2>3
  <2> HIDE DEF t
  <2>5. t % WORD \in 0 .. WORD - 1
    BY <1>1, <2>4
  <2> QED
    BY <2>5 DEF t, Word
<1>3. Number(p, cells) = (CHOOSE f : IsSum(f, cells))[cells]
  BY DEF Number
<1> HIDE DEF Mix
<1>4. 0 \in S
  <2> DEFINE g == [i \in 0 .. 0 |-> 0]
             h == [i \in 0 .. 0 |-> IF i = 0 THEN 0 ELSE Mix(g[i - 1], i)]
  <2>1. \A i \in 0 .. 0 : g[i] = h[i]
    OBVIOUS
  <2>2. g = h
    BY <2>1
  <2>3. IsSum(g, 0)
    BY <2>2
  <2> HIDE DEF IsSum, g
  <2> QED
    BY <2>3
<1>5. ASSUME NEW n \in Nat, n \in S
      PROVE  n + 1 \in S
  <2>1. PICK f : IsSum(f, n)
    BY <1>5
  <2> DEFINE g == [i \in 0 .. n + 1 |-> IF i = n + 1 THEN Mix(f[n], n + 1) ELSE f[i]]
             h == [i \in 0 .. n + 1 |-> IF i = 0 THEN 0 ELSE Mix(g[i - 1], i)]
  <2>2. ASSUME NEW i \in 0 .. n + 1
        PROVE  g[i] = h[i]
    <3>1. CASE i = 0
      <4>1. f[0] = 0
        BY <2>1
      <4> QED
        BY <3>1, <4>1
    <3>2. CASE i \in 1 .. n
      <4>1. f[i] = Mix(f[i - 1], i)
        BY <2>1, <3>2
      <4>2. g[i - 1] = f[i - 1] /\ g[i] = f[i]
        BY <3>2
      <4> QED
        BY <3>2, <4>1, <4>2
    <3>3. CASE i = n + 1
      <4>1. g[n] = f[n] /\ (n + 1) - 1 = n
        OBVIOUS
      <4> QED
        BY <3>3, <4>1
    <3> QED
      BY <3>1, <3>2, <3>3
  <2>3. g = h
    BY <2>2
  <2>4. IsSum(g, n + 1)
    BY <2>3
  <2> HIDE DEF IsSum, g
  <2> QED
    BY <2>4
<1>6. PICK g : IsSum(g, cells) /\ g = CHOOSE f : IsSum(f, cells)
  <2>1. Nat \subseteq S
    <3> HIDE DEF S
    <3> QED
      BY <1>4, <1>5, EveryNumber
  <2>2. \E f : IsSum(f, cells)
    BY <2>1
  <2> HIDE DEF IsSum
  <2> QED
    BY <2>2
<1> DEFINE W == {n \in Nat : n <= cells => g[n] \in Word}
<1>7. 0 \in W
  <2>1. g[0] = 0
    BY <1>6
  <2> QED
    BY <1>1, <2>1 DEF Word
<1>8. ASSUME NEW n \in Nat, n \in W
      PROVE  n + 1 \in W
  <2>1. SUFFICES ASSUME n + 1 <= cells PROVE g[n + 1] \in Word
    OBVIOUS
  <2>2. g[n] \in Word
    BY <1>8, <2>1
  <2>3. g[n] \in Nat
    BY <1>1, <2>2 DEF Word
  <2>4. g[n + 1] = Mix(g[n], n + 1)
    BY <1>6, <2>1
  <2> QED
    BY <1>2, <2>3, <2>4
<1>9. g[cells] \in Word
  <2>1. Nat \subseteq W
    <3> HIDE DEF W
    <3> QED
      BY <1>7, <1>8, EveryNumber
  <2> QED
    BY <2>1
<1> QED
  BY <1>3, <1>6, <1>9

-----------------------------------------------------------------------------
(* The stack of open nodes                                                  *)

Opened ==
  [ac : Word32, sc : Word32, reg_ac : Word32, reg_sc : Word32,
   kinds : SUBSET Kinds, method : Methods, regs : Seq(Ranges)]

\* An open node holds no more ranges than it has room for.
BoundedNodes == {n \in Opened : Len(n.regs) <= REGS}
Bounded(n) == n \in Opened /\ Len(n.regs) <= REGS

\* parse_reg leaves ranges of words, no more than a node holds, whatever the
\* cells and the length (fdt.c parse_reg).
LEMMA ParseRegBounded ==
  ASSUME in \in Inputs, NEW n, Bounded(n), NEW val \in Nat, NEW plen \in Nat
  PROVE  ParseReg(n, val, plen) \in Seq(Ranges) /\ Len(ParseReg(n, val, plen)) <= REGS
<1> DEFINE ac    == IF n.reg_ac = 0 THEN 1 ELSE n.reg_ac
           step  == U32(4 * (ac + n.reg_sc))
           told  == {k \in 1 .. REGS : \A i \in 1 .. k : U32(step * i) <= plen}
           count == Cardinality(told)
           f     == [i \in 1 .. count |->
                       LET p == val + U32(step * (i - 1))
                       IN [base |-> Number(p, ac), size |-> Number(p + 4 * ac, n.reg_sc)]]
<1>1. /\ n.reg_ac \in Nat /\ n.reg_sc \in Nat /\ n.regs \in Seq(Ranges) /\ Len(n.regs) <= REGS
  BY U32Typed DEF Bounded, Opened
<1>2. ac \in Nat /\ 4 * (ac + n.reg_sc) \in Nat
  BY <1>1
<1> HIDE DEF ac
<1>3. step \in Nat
  BY <1>2, U32Typed
<1>4. REGS \in Nat \ {0} /\ 0 \in Word
  BY FdtAssumption, RangeAssumption DEF FdtAssumption, RangeAssumption, Word
<1>5. ParseReg(n, val, plen) =
        IF n.reg_sc = 0
          THEN IF plen = U32(4 * ac) THEN <<[base |-> Number(val, ac), size |-> 0]>> ELSE n.regs
        ELSE IF step = 0 THEN n.regs ELSE f
  BY DEF ParseReg, ac
<1>6. CASE n.reg_sc = 0 /\ plen = U32(4 * ac)
  <2>1. Number(val, ac) \in Word
    BY <1>2, NumberTyped
  <2>2. [base |-> Number(val, ac), size |-> 0] \in Ranges
    BY <1>4, <2>1 DEF Ranges
  <2> DEFINE r == [base |-> Number(val, ac), size |-> 0]
  <2> HIDE DEF r
  <2>3. <<r>> \in Seq(Ranges) /\ Len(<<r>>) = 1
    BY <2>2 DEF r
  <2>4. ParseReg(n, val, plen) = <<r>>
    BY <1>5, <1>6 DEF r
  <2> QED
    BY <1>4, <2>3, <2>4
<1>7. CASE n.reg_sc # 0 /\ step # 0
  <2>1. IsFiniteSet(1 .. REGS) /\ Cardinality(1 .. REGS) = REGS
    BY <1>4, FS_Interval
  <2> HIDE DEF step
  <2>2. count \in Nat /\ count <= REGS
    <3>1. told \subseteq 1 .. REGS
      OBVIOUS
    <3> HIDE DEF told
    <3> QED
      BY <2>1, <3>1, FS_Subset, FS_CardinalityType
  <2> HIDE DEF count
  <2>3. ASSUME NEW i \in 1 .. count
        PROVE  f[i] \in Ranges
    <3> DEFINE p == val + U32(step * (i - 1))
    <3>1. U32(step * (i - 1)) \in Nat
      <4>1. step * (i - 1) \in Nat
        BY <1>3, <2>2
      <4> QED
        BY <4>1, U32Typed
    <3>2. p \in Nat /\ p + 4 * ac \in Nat
      BY <1>2, <3>1
    <3> HIDE DEF p
    <3>3. Number(p, ac) \in Word /\ Number(p + 4 * ac, n.reg_sc) \in Word
      BY <1>1, <1>2, <3>2, NumberTyped
    <3>4. f[i] = [base |-> Number(p, ac), size |-> Number(p + 4 * ac, n.reg_sc)]
      BY DEF p
    <3> HIDE DEF f
    <3> QED
      BY <3>3, <3>4 DEF Ranges
  <2>4. f \in [1 .. count -> Ranges]
    BY <2>3
  <2> HIDE DEF f
  <2>5. f \in Seq(Ranges) /\ Len(f) = count
    BY <2>2, <2>4, SeqOf
  <2>6. ParseReg(n, val, plen) = f
    BY <1>5, <1>7
  <2> QED
    BY <2>2, <2>5, <2>6
<1>8. CASE \/ n.reg_sc = 0 /\ plen # U32(4 * ac)
           \/ n.reg_sc # 0 /\ step = 0
  <2>1. ParseReg(n, val, plen) = n.regs
    BY <1>5, <1>8
  <2> QED
    BY <1>1, <2>1
<1> QED
  BY <1>6, <1>7, <1>8

\* A property changes one field of its node, or none (fdt.c:298-326).
LEMMA ToldIs ==
  ASSUME NEW n, NEW name, NEW val, NEW plen
  PROVE  \/ Told(n, name, val, plen) = [n EXCEPT !.ac = Cell(val)]
         \/ Told(n, name, val, plen) = [n EXCEPT !.sc = Cell(val)]
         \/ \E ks \in SUBSET Kinds : Told(n, name, val, plen) = [n EXCEPT !.kinds = @ \cup ks]
         \/ Told(n, name, val, plen) = [n EXCEPT !.regs = ParseReg(n, val, plen)]
         \/ \E m \in Methods : Told(n, name, val, plen) = [n EXCEPT !.method = m]
         \/ Told(n, name, val, plen) = n
<1>1. CASE name = "#address-cells" /\ plen = 4
  BY <1>1 DEF Told
<1>2. CASE name = "#size-cells" /\ plen = 4
  BY <1>2 DEF Told
<1>3. CASE name = "device_type" /\ plen >= 4
  <2>1. Told(n, name, val, plen) = [n EXCEPT !.kinds = @ \cup ({Text(val)} \cap {"memory", "cpu"})]
    BY <1>3 DEF Told
  <2>2. {Text(val)} \cap {"memory", "cpu"} \in SUBSET Kinds
    BY DEF Kinds
  <2> QED
    BY <2>1, <2>2
<1>4. CASE name = "compatible"
  <2> DEFINE ks == {kind \in {"gic", "uart", "psci"} : Has(val, plen,
                     CASE kind = "gic" -> "arm,gic-v3" [] kind = "uart" -> "arm,pl011"
                       [] kind = "psci" -> "arm,psci")}
  <2>1. Told(n, name, val, plen) = [n EXCEPT !.kinds = @ \cup ks]
    BY <1>4 DEF Told
  <2>2. ks \in SUBSET Kinds
    BY DEF Kinds
  <2> HIDE DEF ks
  <2> QED
    BY <2>1, <2>2
<1>5. CASE name = "reg"
  BY <1>5 DEF Told
<1>6. CASE name = "method"
  <2>1. Told(n, name, val, plen) =
          IF Text(val) \in {"hvc", "smc"} THEN [n EXCEPT !.method = Text(val)] ELSE n
    BY <1>6 DEF Told
  <2> QED
    BY <2>1 DEF Methods
<1>7. CASE /\ ~(name = "#address-cells" /\ plen = 4) /\ ~(name = "#size-cells" /\ plen = 4)
           /\ ~(name = "device_type" /\ plen >= 4)
           /\ name # "compatible" /\ name # "reg" /\ name # "method"
  BY <1>7 DEF Told
<1> QED
  BY <1>1, <1>2, <1>3, <1>4, <1>5, <1>6, <1>7

\* So the node stays one.
LEMMA ToldBounded ==
  ASSUME in \in Inputs, NEW n, Bounded(n), NEW name, NEW val \in Nat, NEW plen \in Nat
  PROVE  Bounded(Told(n, name, val, plen))
<1>1. Cell(val) \in Word32
  BY CellTyped
<1>2. ParseReg(n, val, plen) \in Seq(Ranges) /\ Len(ParseReg(n, val, plen)) <= REGS
  BY ParseRegBounded
<1>3. n \in Opened /\ Len(n.regs) <= REGS
  BY DEF Bounded
<1>4. Bounded([n EXCEPT !.ac = Cell(val)]) /\ Bounded([n EXCEPT !.sc = Cell(val)])
  BY <1>1, <1>3 DEF Bounded, Opened
<1>5. Bounded([n EXCEPT !.regs = ParseReg(n, val, plen)])
  BY <1>2, <1>3 DEF Bounded, Opened
<1>6. \A ks \in SUBSET Kinds : Bounded([n EXCEPT !.kinds = @ \cup ks])
  BY <1>3 DEF Bounded, Opened
<1>7. \A m \in Methods : Bounded([n EXCEPT !.method = m])
  BY <1>3 DEF Bounded, Opened
<1> QED
  BY <1>4, <1>5, <1>6, <1>7, ToldIs

-----------------------------------------------------------------------------
(* The decoder keeps the invariant of S3 and S4, whatever the blob           *)

StackOk ==
  /\ pos \in Word32
  /\ stack \in Seq(BoundedNodes) /\ Len(stack) <= DEPTH
  /\ stack # <<>> => HeaderFlaw = "none"
  /\ cand.valid => stack # <<>>

FdtInv == FactsInv /\ StackOk

\* The top of the stack is a node; what the next token adds is one.
LEMMA TopIs ==
  ASSUME StackOk, stack # <<>>
  PROVE  /\ Len(stack) \in Nat \ {0} /\ Len(stack) \in DOMAIN stack
         /\ Top \in BoundedNodes /\ Bounded(Top) /\ IsNode(Top)
<1>1. stack \in Seq(BoundedNodes)
  BY DEF StackOk
<1>2. Len(stack) \in Nat \ {0} /\ DOMAIN stack = 1 .. Len(stack)
  BY <1>1, EmptySeq, FirstOf
<1>3. Len(stack) \in DOMAIN stack
  BY <1>2
<1>4. Top \in BoundedNodes
  BY <1>1, <1>3, FirstOf DEF Top
<1>5. Bounded(Top)
  BY <1>4 DEF BoundedNodes, Bounded
<1>6. IsNode(Top)
  BY <1>5 DEF Bounded, Opened, IsNode
<1> QED
  BY <1>2, <1>3, <1>4, <1>5, <1>6

\* A node that is opened has no ranges yet (fdt.c:241-252).
LEMMA OpenBounded ==
  ASSUME NEW ac \in Word32, NEW sc \in Word32
  PROVE  Open(ac, sc) \in BoundedNodes
<1>1. <<>> \in Seq(Ranges) /\ Len(<<>>) = 0 /\ REGS \in Nat /\ "none" \in Methods
  BY EmptySeq, FdtAssumption DEF FdtAssumption, Methods
<1>2. Open(ac, sc) \in Opened /\ Open(ac, sc).regs = <<>>
  BY <1>1 DEF Open, Opened
<1> QED
  BY <1>1, <1>2 DEF BoundedNodes

\* The header does not change while the boot runs.
LEMMA SameHeader ==
  ASSUME UNCHANGED in
  PROVE  HeaderFlaw' = HeaderFlaw
  BY DEF HeaderFlaw, Blob, BlockEnd

\* What is wrong with a header is a reason to halt, or nothing.
LEMMA HeaderFlawIs ==
  HeaderFlaw \in Reasons \cup {"none"}
  BY DEF HeaderFlaw, Reasons

\* A step of S3 that halts.
LEMMA StopKeeps ==
  ASSUME FdtInv, NEW reason \in Reasons, Stop(reason)
  PROVE  FdtInv'
<1>1. Halt(reason) /\ UNCHANGED <<pos, stack>>
  BY DEF Stop, decoder
<1>2. FactsInv'
  BY <1>1, HaltKeeps DEF FdtInv
<1>3. UNCHANGED <<in, cand>>
  BY <1>1 DEF Halt
<1>4. HeaderFlaw' = HeaderFlaw
  BY <1>3, SameHeader
<1> QED
  BY <1>1, <1>2, <1>3, <1>4 DEF FdtInv, StackOk

\* A turn of the loop that only moves on.
LEMMA TurnKeeps ==
  ASSUME FdtInv, stack # <<>>, NEW p \in Word32, NEW s \in Seq(BoundedNodes),
         s # <<>>, Len(s) <= DEPTH, Turn(p, s)
  PROVE  FdtInv'
<1>1. pos' = p /\ stack' = s /\ UNCHANGED vars
  BY DEF Turn
<1>2. FactsInv'
  BY <1>1, AnyStepKeeps DEF FdtInv, AnyStep
<1>3. UNCHANGED <<in, cand>>
  BY <1>1 DEF vars
<1>4. HeaderFlaw' = HeaderFlaw
  BY <1>3, SameHeader
<1> QED
  BY <1>1, <1>2, <1>3, <1>4 DEF FdtInv, StackOk

\* The offsets of a turn are words.
LEMMA OffsetsTyped ==
  ASSUME FdtInv
  PROVE  /\ pos \in Nat /\ Next4 \in Word32 /\ Next4 \in Nat /\ in \in Inputs
         /\ Val \in Word32 /\ Val \in Nat /\ PLen \in Nat
         /\ Align4(Next4 + 1) \in Word32 /\ Align4(Val + PLen) \in Word32
<1>1. pos \in Nat /\ in \in Inputs
  BY U32Typed DEF FdtInv, FactsInv, Typed, StackOk
<1>2. Next4 \in Word32 /\ Next4 \in Nat
  BY <1>1, U32Typed DEF Next4
<1>3. Val \in Word32 /\ Val \in Nat
  BY <1>2, U32Typed DEF Val
<1>4. PLen \in Nat
  BY <1>1, <1>2, CellTyped, U32Typed DEF PLen
<1>5. Next4 + 1 \in Nat /\ Val + PLen \in Nat
  BY <1>2, <1>3, <1>4
<1> QED
  BY <1>1, <1>2, <1>3, <1>4, <1>5, U32Typed

\* The header is read (fdt.c:182-224).
LEMMA HeaderKeeps ==
  ASSUME FdtInv, Header
  PROVE  FdtInv'
<1>1. CASE HeaderFlaw # "none" /\ Halt(HeaderFlaw) /\ UNCHANGED decoder
  BY <1>1, HeaderFlawIs, StopKeeps DEF Stop
<1>2. CASE /\ HeaderFlaw = "none"
           /\ pos' = Blob.off_struct /\ stack' = <<Open(2, 1)>> /\ UNCHANGED vars
  <2>1. FactsInv'
    BY <1>2, AnyStepKeeps DEF FdtInv, AnyStep
  <2>2. UNCHANGED <<in, cand>> /\ in \in Inputs
    BY <1>2 DEF vars, FdtInv, FactsInv, Typed
  <2>3. pos' \in Word32
    BY <1>2, <2>2, BlobTyped DEF IsBlob
  <2>4. 1 \in Word32 /\ 2 \in Word32 /\ DEPTH \in Nat \ {0}
    BY FdtAssumption DEF FdtAssumption, Word32
  <2>5. Open(2, 1) \in BoundedNodes
    BY <2>4, OpenBounded
  <2>6. /\ <<Open(2, 1)>> \in Seq(BoundedNodes) /\ Len(<<Open(2, 1)>>) = 1
        /\ <<Open(2, 1)>> # <<>>
    <3> DEFINE n == Open(2, 1)
    <3> HIDE DEF n
    <3>1. <<n>> \in Seq(BoundedNodes) /\ Len(<<n>>) = 1 /\ <<n>> # <<>>
      BY <2>5 DEF n
    <3> QED
      BY <3>1 DEF n
  <2>7. HeaderFlaw' = "none"
    BY <1>2, <2>2, SameHeader
  <2> QED
    BY <1>2, <2>1, <2>3, <2>4, <2>6, <2>7 DEF FdtInv, StackOk
<1> QED
  BY <1>1, <1>2 DEF Header

\* A node begins: one more of the 16, or a halt (fdt.c:234-255).
LEMMA BeginKeeps ==
  ASSUME FdtInv, BeginNode
  PROVE  FdtInv'
<1>1. stack # <<>> /\ StackOk
  BY DEF BeginNode, Token, FdtInv
<1>2. CASE Len(stack) >= DEPTH /\ Stop("dtb")
  BY <1>2, StopKeeps DEF Reasons
<1>3. CASE ~(Len(stack) >= DEPTH) /\ Turn(Align4(Next4 + 1), Append(stack, Child(Top)))
  <2>1. Child(Top) \in BoundedNodes
    <3>1. Top.ac \in Word32 /\ Top.sc \in Word32
      BY <1>1, TopIs DEF Bounded, Opened
    <3> QED
      BY <3>1, OpenBounded DEF Child
  <2> DEFINE n == Child(Top)
  <2> HIDE DEF n
  <2>2. stack \in Seq(BoundedNodes) /\ n \in BoundedNodes
    BY <1>1, <2>1 DEF StackOk, n
  <2>3. /\ Append(stack, n) \in Seq(BoundedNodes) /\ Append(stack, n) # <<>>
        /\ Len(Append(stack, n)) = Len(stack) + 1
    BY <2>2, AppendProperties
  <2>4. Len(stack) + 1 <= DEPTH
    BY <1>1, <1>3, TopIs, FdtAssumption DEF FdtAssumption
  <2>5. Turn(Align4(Next4 + 1), Append(stack, n))
    BY <1>3 DEF n
  <2>6. Align4(Next4 + 1) \in Word32
    BY OffsetsTyped
  <2>7. Len(Append(stack, n)) <= DEPTH
    BY <2>3, <2>4
  <2> QED
    BY <1>1, <2>3, <2>5, <2>6, <2>7, TurnKeeps
<1> QED
  BY <1>2, <1>3 DEF BeginNode

\* A node ends and is taken; its parent is on top again (fdt.c:256-280).
LEMMA CloseKeeps ==
  ASSUME FdtInv, CloseNode
  PROVE  FdtInv'
<1>1. /\ stack # <<>> /\ StackOk /\ FactsInv /\ InDtb
      /\ cand \in CandType /\ CandOk /\ IsNode(Top)
  BY TopIs DEF CloseNode, Token, FdtInv, FactsInv, Typed
<1>2. CASE Refused(Top) # "none" /\ Stop(Refused(Top))
  <2>1. Refused(Top) \in Reasons
    BY <1>1, <1>2, RefusedIs
  <2> QED
    BY <1>2, <2>1, StopKeeps
<1>3. CASE Stop("dtb")
  BY <1>3, StopKeeps DEF Reasons
<1>4. CASE /\ Refused(Top) = "none" /\ Len(stack) > 1 /\ Learn(Learnt(Top))
           /\ pos' = Next4 /\ stack' = SubSeq(stack, 1, Len(stack) - 1)
  <2>1. FactsInv'
    BY <1>1, <1>4, EndedKeeps DEF Ended
  <2>2. cand' = Learnt(Top) /\ UNCHANGED in
    BY <1>4 DEF Learn
  <2>3. cand'.valid = cand.valid
    BY <1>1, <1>4, <2>2, LearntOk
  <2>4. pos' \in Word32
    BY <1>4, OffsetsTyped
  <2>5. /\ stack \in Seq(BoundedNodes) /\ Len(stack) \in Nat /\ Len(stack) <= DEPTH
        /\ \A i \in 1 .. Len(stack) : stack[i] \in BoundedNodes
    BY <1>1, FirstOf DEF StackOk
  <2> DEFINE m == Len(stack) - 1
  <2>6. m \in Nat \ {0} /\ m <= DEPTH /\ m < Len(stack)
    BY <1>4, <2>5, FdtAssumption DEF FdtAssumption
  <2>7. stack' = SubSeq(stack, 1, m)
    BY <1>4
  <2> HIDE DEF m
  <2>8. \A i \in 1 .. m : stack[i] \in BoundedNodes
    BY <2>5, <2>6
  <2>9. SubSeq(stack, 1, m) \in Seq(BoundedNodes) /\ Len(SubSeq(stack, 1, m)) = m
    <3>1. /\ SubSeq(stack, 1, m) \in Seq(BoundedNodes)
          /\ Len(SubSeq(stack, 1, m)) = IF 1 <= m THEN m - 1 + 1 ELSE 0
      BY <2>6, <2>8, SubSeqProperties
    <3> QED
      BY <2>6, <3>1
  <2>10. SubSeq(stack, 1, m) # <<>>
    BY <2>6, <2>9, EmptySeq
  <2>11. HeaderFlaw' = "none"
    BY <1>1, <2>2, SameHeader DEF StackOk
  <2> QED
    BY <2>1, <2>4, <2>6, <2>7, <2>9, <2>10, <2>11 DEF FdtInv, StackOk
<1> QED
  BY <1>2, <1>3, <1>4 DEF CloseNode

\* A property is read, or refused (fdt.c:283-325).
LEMMA PropertyKeeps ==
  ASSUME FdtInv, Property
  PROVE  FdtInv'
<1>1. stack # <<>> /\ StackOk
  BY DEF Property, Token, FdtInv
<1>2. CASE Stop("dtb")
  BY <1>2, StopKeeps DEF Reasons
<1> DEFINE told == Told(Top, Text(U32(Blob.off_strings + NameOff)), Val, PLen)
<1>3. CASE Turn(Align4(Val + PLen), [stack EXCEPT ![Len(stack)] = told])
  <2>1. Bounded(told)
    BY <1>1, TopIs, OffsetsTyped, ToldBounded
  <2> HIDE DEF told
  <2>2. told \in BoundedNodes
    BY <2>1 DEF Bounded, BoundedNodes
  <2> DEFINE s == [stack EXCEPT ![Len(stack)] = told]
  <2>3. stack \in Seq(BoundedNodes) /\ Len(stack) <= DEPTH /\ Len(stack) \in 1 .. Len(stack)
    BY <1>1, TopIs DEF StackOk
  <2>4. s \in Seq(BoundedNodes) /\ Len(s) = Len(stack)
    BY <2>2, <2>3, ExceptSeq
  <2>5. s # <<>>
    BY <1>1, <2>3, <2>4, EmptySeq, TopIs
  <2> HIDE DEF s
  <2>6. Turn(Align4(Val + PLen), s) /\ Align4(Val + PLen) \in Word32
    BY <1>3, OffsetsTyped DEF s
  <2> QED
    BY <1>1, <2>3, <2>4, <2>5, <2>6, TurnKeeps
<1> QED
  BY <1>2, <1>3 DEF Property

\* Every step of the decoder, and of S4 behind it.
LEMMA FdtStepKeeps ==
  ASSUME FdtInv, [FdtNext]_<<vars, decoder>>
  PROVE  FdtInv'
<1>1. CASE Nop
  <2>1. stack # <<>> /\ stack \in Seq(BoundedNodes) /\ Len(stack) <= DEPTH
        /\ Turn(Next4, stack)
    BY <1>1 DEF Nop, Token, FdtInv, StackOk
  <2> QED
    BY <2>1, OffsetsTyped, TurnKeeps
<1>2. CASE Finish
  <2>1. stack # <<>> /\ Valid /\ UNCHANGED <<pos, stack>>
    BY <1>2 DEF Finish, decoder
  <2>2. FactsInv' /\ UNCHANGED in
    BY <2>1, ValidKeeps DEF FdtInv, Valid, Reach
  <2>3. HeaderFlaw' = HeaderFlaw
    BY <2>2, SameHeader
  <2> QED
    BY <2>1, <2>2, <2>3 DEF FdtInv, StackOk
<1>3. CASE Unknown
  BY <1>3, StopKeeps DEF Unknown, Reasons
<1>4. CASE S4Step \/ UNCHANGED <<vars, decoder>>
  <2>1. AnyStep /\ UNCHANGED <<pos, stack>>
    BY <1>4 DEF S4Step, AnyStep, Stay, decoder
  <2>2. FactsInv'
    BY <2>1, AnyStepKeeps DEF FdtInv
  <2>3. UNCHANGED <<in, cand>>
    BY <1>4 DEF S4Step, NoDtb, S4Ram, S4Ctl, S4Cpu, S4Timer, Stay, Accept, Reach, Halt, vars
  <2>4. HeaderFlaw' = HeaderFlaw
    BY <2>3, SameHeader
  <2> QED
    BY <2>1, <2>2, <2>3, <2>4 DEF FdtInv, StackOk
<1> QED
  BY <1>1, <1>2, <1>3, <1>4, HeaderKeeps, BeginKeeps, CloseKeeps, PropertyKeeps
     DEF FdtNext, S3Step

\* Every state of the decoder, over any blob, satisfies the invariant.
LEMMA FdtInvHolds == FdtSpec => []FdtInv
<1>1. ASSUME FdtInit PROVE FdtInv
  <2>1. FactsInv
    BY <1>1, InitHolds DEF FdtInit
  <2>2. pos = 0 /\ stack = <<>> /\ ~cand.valid
    BY <1>1 DEF FdtInit, Init
  <2>3. 0 \in Word32 /\ DEPTH \in Nat
    BY FdtAssumption DEF FdtAssumption, Word32
  <2> QED
    BY <2>1, <2>2, <2>3, EmptySeq DEF FdtInv, StackOk
<1>2. FdtInv /\ [FdtNext]_<<vars, decoder>> => FdtInv'
  BY FdtStepKeeps
<1> QED
  BY <1>1, <1>2, PTL DEF FdtSpec

-----------------------------------------------------------------------------
(* What holds of S3 and S4 whatever the blob                                *)

\* Also when nothing is known of the blob, a boot that goes on has every
\* load-bearing fact (facts.c:103-107, 218-239; fdt.c:153-330).
THEOREM AnyBlobBearsLoad == FdtSpec => []LoadBearing
<1>1. FdtInv => LoadBearing
  BY InvLoadBearing DEF FdtInv
<1> QED
  BY <1>1, FdtInvHolds, PTL

\* ... and no blob has another RAM, controller, console, method or CPU accepted than
\* the board's, where it speaks (facts.c:84-96, 114-138, 160-172).
THEOREM AnyBlobAgreesWithBoard == FdtSpec => []BoardAgrees
<1>1. FdtInv => BoardAgrees
  BY InvBoardAgrees DEF FdtInv
<1> QED
  BY <1>1, FdtInvHolds, PTL

\* What the decoder keeps fits: open nodes in the stack, ranges in a node, RAM
\* ranges and CPUs in the table of candidates, and no CPU is there twice
\* (fdt.c:95-121, 123-151, 239-252).
WithinArrays ==
  /\ Len(stack) <= DEPTH /\ \A i \in DOMAIN stack : Len(stack[i].regs) <= REGS
  /\ Len(cand.mem) <= MEM_FACT_MAX /\ Len(cand.cpu) <= CPU_BOUND
  /\ \A i, j \in DOMAIN cand.cpu : cand.cpu[i] = cand.cpu[j] => i = j

\* No blob makes S3 write behind an array of its own.
THEOREM AnyBlobFits == FdtSpec => []WithinArrays
<1>1. ASSUME FdtInv
      PROVE  WithinArrays
  <2>1. StackOk /\ CandOk
    BY <1>1 DEF FdtInv, FactsInv
  <2>2. \A i \in DOMAIN stack : stack[i] \in BoundedNodes
    BY <2>1, FirstOf DEF StackOk
  <2> QED
    BY <2>1, <2>2 DEF WithinArrays, StackOk, CandOk, BoundedNodes
<1> QED
  BY <1>1, FdtInvHolds, PTL

-----------------------------------------------------------------------------
(* What S5 is handed over                                                   *)

\* A boot that S4 is done with hands a record to S5 that Space.tla takes, and a
\* list of CPUs that Topology.tla takes: distinct, in bounds, and the boot CPU
\* among them.
HandsOver ==
  at = "done" =>
    /\ \A text, ro \in Word : Accepted(HandedOver(text, ro))
    /\ LET cpus == [i \in DOMAIN facts.cpu |-> facts.cpu[i].value] IN
         /\ \E n \in 1 .. CPU_BOUND : cpus \in [1 .. n -> Affinities]
         /\ \A i, j \in DOMAIN cpus : cpus[i] = cpus[j] => i = j
         /\ \E i \in DOMAIN cpus : cpus[i] = Boot

\* A set of at most one range.
LEMMA OptionallyOne ==
  /\ Optionally({})
  /\ \A r \in Ranges : r.size # 0 => Optionally({r})
<1>1. Optionally({})
  BY FS_EmptySet DEF Optionally
<1>2. ASSUME NEW r \in Ranges, r.size # 0
      PROVE  Optionally({r})
  <2>1. Cardinality({r}) = 1
    BY FS_Singleton
  <2> QED
    BY <1>2, <2>1 DEF Optionally
<1> QED
  BY <1>1, <1>2

\* The decoder's invariant gives the record that S5 takes and the CPUs that S8 takes.
LEMMA InvHandsOver ==
  ASSUME FdtInv
  PROVE  HandsOver
<1> DEFINE cpus == [i \in DOMAIN facts.cpu |-> facts.cpu[i].value]
<1>1. SUFFICES ASSUME at = "done"
               PROVE  /\ \A text, ro \in Word : Accepted(HandedOver(text, ro))
                      /\ \E n \in 1 .. CPU_BOUND : cpus \in [1 .. n -> Affinities]
                      /\ \A i, j \in DOMAIN cpus : cpus[i] = cpus[j] => i = j
                      /\ \E i \in DOMAIN cpus : cpus[i] = Boot
  BY DEF HandsOver
<1>2. /\ in \in Inputs /\ cand \in CandType /\ facts \in FactsType /\ CandOk
      /\ RamPassed /\ CtlPassed /\ CpuPassed /\ TimerPassed /\ StackOk
  BY <1>1 DEF FdtInv, FactsInv, Typed
<1>3. /\ ImageInRam(facts.mem) /\ facts.gicd.value.size # 0 /\ facts.gicr.value.size # 0
      /\ BootListed(facts.cpu)
      /\ \A i, j \in DOMAIN facts.cpu : facts.cpu[i].value = facts.cpu[j].value => i = j
  <2>1. LoadBearing
    BY InvLoadBearing DEF FdtInv
  <2> QED
    BY <1>1, <2>1 DEF LoadBearing, ImageInRam, BootListed
<1>4. /\ facts.mem \in Seq(FactOf(Ranges)) /\ facts.mem # <<>> /\ facts.dtb = cand.valid
      /\ facts.gicd.value \in Ranges /\ facts.gicr.value \in Ranges
      /\ facts.uart.value \in Ranges /\ facts.pwrc \in Ranges
      /\ facts.cpu \in Seq(FactOf(Affinities)) /\ facts.dtb \in BOOLEAN
  BY <1>2 DEF RamPassed, FactsType, FactOf
<1>5. ASSUME NEW text \in Word, NEW ro \in Word
      PROVE  Accepted(HandedOver(text, ro))
  <2> DEFINE f == HandedOver(text, ro)
             mem == [i \in DOMAIN facts.mem |-> facts.mem[i].value]
  <2>1. /\ f.mem = mem
        /\ f.image = [base |-> in.image.base, text |-> text, ro |-> ro, size |-> in.image.size]
        /\ f.dtb = IF facts.dtb THEN {Rng(Blob.ptr, Blob.totalsize)} ELSE {}
        /\ f.gicd = facts.gicd.value /\ f.gicr = facts.gicr.value
        /\ f.uart = {r \in {facts.uart.value} : r.size # 0}
        /\ f.pwrc = {r \in {facts.pwrc} : r.size # 0}
    BY DEF HandedOver
  <2>2. /\ Len(facts.mem) \in Nat /\ DOMAIN facts.mem = 1 .. Len(facts.mem)
        /\ 1 \in DOMAIN facts.mem /\ Len(facts.mem) >= 1
        /\ \A i \in DOMAIN facts.mem : facts.mem[i] \in FactOf(Ranges)
    BY <1>4, FirstOf
  <2>3. mem \in [1 .. Len(facts.mem) -> Ranges]
    <3>1. \A i \in 1 .. Len(facts.mem) : facts.mem[i].value \in Ranges
      BY <2>2 DEF FactOf
    <3> QED
      BY <2>2, <3>1
  <2>4. mem[1] = facts.mem[1].value
    BY <2>2
  <2>5. in.image \in Ranges
    BY <1>2, BoardTyped
  <2>6. f.image \in [base : Word, text : Word, ro : Word, size : Word]
        /\ f.image.base = in.image.base /\ f.image.size = in.image.size
    BY <2>1, <2>5, RangeTyped
  <2>7. Optionally(f.uart) /\ Optionally(f.pwrc)
    <3>1. ASSUME NEW r \in Ranges
          PROVE  Optionally({s \in {r} : s.size # 0})
      <4>1. CASE r.size # 0
        <5>1. {s \in {r} : s.size # 0} = {r}
          BY <4>1
        <5> QED
          BY <4>1, <5>1, OptionallyOne
      <4>2. CASE r.size = 0
        <5>1. {s \in {r} : s.size # 0} = {}
          BY <4>2
        <5> QED
          BY <5>1, OptionallyOne
      <4> QED
        BY <4>1, <4>2
    <3> QED
      BY <1>4, <2>1, <3>1
  <2>8. ASSUME facts.dtb
        PROVE  /\ Rng(Blob.ptr, Blob.totalsize) \in Ranges /\ Blob.totalsize # 0
               /\ ~RangeOverlap(Blob.ptr, Blob.totalsize, in.image.base, in.image.size)
    <3>1. HeaderFlaw = "none"
      BY <1>2, <1>4, <2>8 DEF StackOk
    <3>2. /\ Blob.totalsize \in 40 .. PROBE_CAP
          /\ ~RangeOverlap(Blob.ptr, Blob.totalsize, in.image.base, in.image.size)
      BY <3>1 DEF HeaderFlaw
    <3>3. Blob.ptr \in Word /\ Blob.totalsize \in Word32
      BY <1>2, BlobTyped DEF IsBlob
    <3>4. Word32 \subseteq Word
      <4>1. CELL \in Nat \ {0} /\ WORD = CELL * CELL /\ WORD \in Nat
        BY FdtAssumption, RangeAssumption DEF FdtAssumption, RangeAssumption
      <4>2. CELL * CELL >= CELL
        BY <4>1
      <4>3. CELL <= WORD
        BY <4>1, <4>2
      <4> QED
        BY <4>1, <4>3 DEF Word32, Word
    <3> QED
      BY <3>2, <3>3, <3>4, FdtAssumption DEF Rng, Ranges, FdtAssumption
  <2>9. /\ Optionally(f.dtb)
        /\ \A d \in f.dtb : ~RangeOverlap(d.base, d.size, f.image.base, f.image.size)
    <3>1. CASE facts.dtb
      <4> DEFINE r == Rng(Blob.ptr, Blob.totalsize)
      <4>1. r \in Ranges /\ r.base = Blob.ptr /\ r.size = Blob.totalsize /\ r.size # 0
        BY <2>8, <3>1 DEF Rng
      <4> HIDE DEF r
      <4>2. f.dtb = {r}
        BY <2>1, <3>1 DEF r
      <4>3. Optionally({r})
        BY <4>1, OptionallyOne
      <4> HIDE DEF f
      <4> QED
        BY <2>6, <2>8, <3>1, <4>1, <4>2, <4>3
    <3>2. CASE ~facts.dtb
      <4>1. f.dtb = {}
        BY <2>1, <3>2
      <4> HIDE DEF f
      <4> QED
        BY <4>1, OptionallyOne
    <3> QED
      BY <3>1, <3>2
  <2>10. RangeContains(f.mem[1].base, f.mem[1].size, f.image.base, f.image.size)
    BY <1>3, <2>1, <2>4, <2>6 DEF ImageInRam
  <2> HIDE DEF mem
  <2>11. mem \in Seq(Ranges) /\ Len(mem) = Len(facts.mem)
    BY <2>2, <2>3, SeqOf
  <2> HIDE DEF f
  <2>12. f.mem \in Seq(Ranges) /\ Len(f.mem) > 0
    BY <2>1, <2>2, <2>11
  <2>13. f.gicd \in Ranges /\ f.gicr \in Ranges /\ f.gicd.size # 0 /\ f.gicr.size # 0
    BY <1>3, <1>4, <2>1
  <2>14. Accepted(f)
    BY <2>6, <2>7, <2>9, <2>10, <2>12, <2>13 DEF Accepted
  <2> QED
    BY <2>14 DEF f
<1>6. /\ Len(facts.cpu) \in Nat /\ DOMAIN facts.cpu = 1 .. Len(facts.cpu)
      /\ \A i \in DOMAIN facts.cpu : facts.cpu[i] \in FactOf(Affinities)
  BY <1>4, FirstOf
<1>7. cpus \in [1 .. Len(facts.cpu) -> Affinities]
  <2>1. \A i \in 1 .. Len(facts.cpu) : facts.cpu[i].value \in Affinities
    BY <1>6 DEF FactOf
  <2> QED
    BY <1>6, <2>1
<1>8. Len(facts.cpu) \in 1 .. CPU_BOUND
  <2>1. facts.cpu = CpuFacts /\ DOMAIN CpuFacts = 1 .. Len(facts.cpu)
    BY <1>2, <1>6 DEF CpuPassed
  <2>2. CPU_BOUND \in Nat \ {0} /\ Len(facts.cpu) # 0
    <3>1. Len(facts.cpu) # 0
      BY <1>3, <1>6 DEF BootListed
    <3> QED
      BY <3>1, FactsAssumption DEF FactsAssumption
  <2>3. /\ Len(cand.cpu) \in Nat /\ DOMAIN cand.cpu = 1 .. Len(cand.cpu)
        /\ Len(BoardCpus) \in Nat /\ DOMAIN BoardCpus = 1 .. Len(BoardCpus)
        /\ Len(cand.cpu) <= CPU_BOUND
        /\ cand.cpu = <<>> => Len(BoardCpus) <= CPU_BOUND
    BY <1>2, CandTyped, BoardSeqs, FirstOf DEF CandOk, CpuPassed
  <2>4. \/ DOMAIN CpuFacts = DOMAIN cand.cpu
        \/ cand.cpu = <<>> /\ DOMAIN CpuFacts = DOMAIN BoardCpus
        \/ DOMAIN CpuFacts = {1}
    BY <1>2, CpuFactsAre
  <2> DEFINE len == Len(facts.cpu)
             c == Len(cand.cpu)
             b == Len(BoardCpus)
  <2>5. \/ 1 .. len = 1 .. c
        \/ cand.cpu = <<>> /\ 1 .. len = 1 .. b
        \/ 1 .. len = {1}
    BY <2>1, <2>3, <2>4
  <2>6. len \in Nat \ {0} /\ c \in Nat /\ b \in Nat
    BY <1>6, <2>2, <2>3
  <2>7. c <= CPU_BOUND /\ (cand.cpu = <<>> => b <= CPU_BOUND)
    BY <2>3
  <2> HIDE DEF len, c, b
  <2>8. len \in 1 .. len
    BY <2>6
  <2>9. len <= CPU_BOUND
    <3>1. CASE 1 .. len = 1 .. c
      <4>1. len \in 1 .. c
        BY <2>8, <3>1
      <4> QED
        BY <2>2, <2>6, <2>7, <4>1
    <3>2. CASE cand.cpu = <<>> /\ 1 .. len = 1 .. b
      <4>1. len \in 1 .. b
        BY <2>8, <3>2
      <4> QED
        BY <2>2, <2>6, <2>7, <3>2, <4>1
    <3>3. CASE 1 .. len = {1}
      <4>1. len = 1
        BY <2>8, <3>3
      <4> QED
        BY <2>2, <4>1
    <3> QED
      BY <2>5, <3>1, <3>2, <3>3
  <2> QED
    BY <2>2, <2>6, <2>9 DEF len
<1>9. DOMAIN cpus = DOMAIN facts.cpu /\ \A i \in DOMAIN facts.cpu : cpus[i] = facts.cpu[i].value
  OBVIOUS
<1>10. /\ \A i, j \in DOMAIN cpus : cpus[i] = cpus[j] => i = j
       /\ \E i \in DOMAIN cpus : cpus[i] = Boot
  <2> HIDE DEF cpus
  <2> QED
    BY <1>3, <1>9 DEF BootListed
<1>11. \E n \in 1 .. CPU_BOUND : cpus \in [1 .. n -> Affinities]
  <2> HIDE DEF cpus
  <2> QED
    BY <1>7, <1>8
<1> QED
  BY <1>5, <1>10, <1>11

\* Whatever the blob, the boot that S4 lets go on hands S5 and S8 what their
\* specifications start from (facts.c:63-240, ownership.c:61-91).
THEOREM AnyBlobHandsOver == FdtSpec => []HandsOver
<1>1. FdtInv => HandsOver
  BY InvHandsOver
<1> QED
  BY <1>1, FdtInvHolds, PTL
==============================================================================
