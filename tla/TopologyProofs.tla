--------------------------- MODULE TopologyProofs ---------------------------
(***************************************************************************)
(* Topology.tla for any number of CPUs, any affinities and any frames: the  *)
(* records are the present set, and it is frozen exactly when each CPU has  *)
(* one frame in the region.                                                 *)
(***************************************************************************)
EXTENDS Topology, FiniteSetTheorems, SequenceTheorems, TLAPS

Facts    == 1 .. Len(facts)
CpuRec   == [aff : Aff, frame : Nat]
FrameRec == [aff : Aff, last : BOOLEAN]

\* What S4 leaves.
WorldInv ==
  /\ Len(facts) \in 1 .. CPU_BOUND /\ facts \in [Facts -> Aff] /\ region \in Nat
  /\ \A i, j \in Facts : facts[i] = facts[j] => i = j
  /\ \E b \in Facts : facts[b] = boot

\* What S8 makes of it: the records and the facts name each other.
PresentInv ==
  /\ cpu \in [Facts -> CpuRec] /\ place \in [Facts -> Nat]
  /\ cpu[1].aff = boot
  /\ \A i \in Facts : place[i] + 1 \in Facts /\ cpu[place[i] + 1].aff = facts[i]
  /\ \A i, j \in Facts : cpu[i].aff = cpu[j].aff => i = j
  /\ \A i \in Facts : \E j \in Facts : cpu[i].aff = facts[j]

\* The frames read so far that belong to a CPU, and the last one of each CPU.
Matching == {k \in 1 .. Len(frames) : \E j \in Facts : frames[k].aff = facts[j]}
LastOf(i) ==
  \/ cpu[i].frame = 0 /\ \A k \in 1 .. Len(frames) : frames[k].aff # cpu[i].aff
  \/ /\ cpu[i].frame \in 1 .. Len(frames) /\ frames[cpu[i].frame].aff = cpu[i].aff
WalkInv ==
  /\ frames \in Seq(FrameRec) /\ scanned = Len(frames)
  /\ nrd = Cardinality(Matching)
  /\ \A i \in Facts : LastOf(i)

\* The walk stops at the first last frame or behind the region.
StopInv ==
  /\ at = "walk" => scanned <= region /\ \A k \in 1 .. scanned : ~frames[k].last
  /\ at \in {"count", "frozen"} \/ (at = "halt" /\ scanned <= region) =>
       /\ scanned \in 1 .. region /\ frames[scanned].last
       /\ \A k \in 1 .. scanned - 1 : ~frames[k].last
  /\ at = "halt" /\ scanned > region => \A k \in 1 .. region : ~frames[k].last
  /\ at = "halt" /\ scanned <= region => FramesMissing
  /\ at = "frozen" => ~FramesMissing

IInv ==
  /\ WorldInv
  /\ at \in {"present", "init", "walk", "count", "frozen", "halt"}
  /\ at \in {"present", "init"} => frames = <<>> /\ nrd = 0 /\ scanned = 0
  /\ at # "present" => PresentInv
  /\ at \notin {"present", "init"} => WalkInv
  /\ StopInv

-----------------------------------------------------------------------------
\* The fields of a CPU record.
LEMMA CpuIs ==
  ASSUME NEW a, NEW f
  PROVE  /\ Cpu(a, f).aff = a /\ Cpu(a, f).frame = f
         /\ a \in Aff /\ f \in Nat => Cpu(a, f) \in CpuRec
  BY DEF Cpu, CpuRec

\* A function on 1 .. n is a sequence of length n.
LEMMA LenOf ==
  ASSUME NEW S, NEW n \in Nat, NEW f \in [1 .. n -> S]
  PROVE  f \in Seq(S) /\ Len(f) = n /\ DOMAIN f = 1 .. n
<1>1. f \in Seq(S)
  BY SeqDef
<1>2. Len(f) \in Nat /\ DOMAIN f = 1 .. Len(f)
  BY <1>1, LenProperties
<1> QED
  BY <1>1, <1>2

\* The CPUs before the boot CPU keep their place, those behind it move up by one.
LEMMA RankIs ==
  ASSUME WorldInv, NEW b \in Facts, facts[b] = boot, NEW i \in Facts
  PROVE  Rank(i) = IF i < b THEN i ELSE i - 1
<1>1. Len(facts) \in Nat /\ i \in Nat /\ b \in Nat
  BY DEF WorldInv, Facts
<1>2. {j \in 1 .. i : facts[j] # boot} = (1 .. i) \ {b}
  BY <1>1 DEF WorldInv, Facts
<1>3. IsFiniteSet(1 .. i) /\ Cardinality(1 .. i) = i
  BY <1>1, FS_Interval DEF Facts
<1>4. Cardinality((1 .. i) \ {b}) = IF b \in 1 .. i THEN i - 1 ELSE i
  BY <1>3, FS_RemoveElement
<1>5. b \in 1 .. i <=> ~(i < b)
  BY <1>1 DEF Facts
<1> QED
  BY <1>2, <1>4, <1>5 DEF Rank

\* The loop of S8 passes over the boot CPU alone.
LEMMA OthersAre ==
  ASSUME WorldInv, NEW b \in Facts, facts[b] = boot
  PROVE  /\ Len(Others) = Len(facts) - 1
         /\ \A k \in 1 .. Len(facts) - 1 : Others[k] = facts[IF k < b THEN k ELSE k + 1]
<1>1. Len(facts) \in Nat \ {0} /\ facts \in [Facts -> Aff] /\ DOMAIN facts = Facts
  BY DEF WorldInv
<1>2. Rank(Len(facts)) = Len(facts) - 1
  <2>1. Len(facts) \in Facts
    BY <1>1 DEF Facts
  <2> QED
    BY <1>1, <2>1, RankIs DEF Facts
<1>3. ASSUME NEW k \in 1 .. Len(facts) - 1
      PROVE  LET i == IF k < b THEN k ELSE k + 1
             IN  /\ i \in Facts /\ facts[i] # boot /\ Rank(i) = k
                 /\ \A j \in Facts : facts[j] # boot /\ Rank(j) = k => j = i
  <2> DEFINE i == IF k < b THEN k ELSE k + 1
  <2>1. i \in Facts /\ i # b
    BY <1>1 DEF Facts
  <2>2. \A j \in Facts : facts[j] # boot <=> j # b
    BY DEF WorldInv
  <2>3. \A j \in Facts : Rank(j) = IF j < b THEN j ELSE j - 1
    BY RankIs
  <2>4. \A j \in Facts : j # b /\ Rank(j) = k => j = i
    BY <2>3 DEF Facts
  <2>5. Rank(i) = k
    BY <2>1, <2>3 DEF Facts
  <2> HIDE DEF i
  <2>6. i \in Facts /\ facts[i] # boot /\ Rank(i) = k
        /\ \A j \in Facts : facts[j] # boot /\ Rank(j) = k => j = i
    BY <2>1, <2>2, <2>4, <2>5
  <2> QED
    BY <2>6 DEF i
<1>4. \A k \in 1 .. Len(facts) - 1 :
        (CHOOSE i \in DOMAIN facts : facts[i] # boot /\ Rank(i) = k)
          = IF k < b THEN k ELSE k + 1
  <2> SUFFICES ASSUME NEW k \in 1 .. Len(facts) - 1
               PROVE  (CHOOSE i \in Facts : facts[i] # boot /\ Rank(i) = k)
                        = IF k < b THEN k ELSE k + 1
    BY <1>1
  <2> DEFINE i == IF k < b THEN k ELSE k + 1
  <2>1. i \in Facts /\ facts[i] # boot /\ Rank(i) = k
        /\ \A j \in Facts : facts[j] # boot /\ Rank(j) = k => j = i
    BY <1>3
  <2> HIDE DEF i
  <2>2. (CHOOSE j \in Facts : facts[j] # boot /\ Rank(j) = k) = i
    BY <2>1
  <2> QED
    BY <2>2 DEF i
<1>5. Others \in [1 .. Len(facts) - 1 -> Aff]
  <2>1. \A k \in 1 .. Len(facts) - 1 : (IF k < b THEN k ELSE k + 1) \in Facts
    BY <1>1 DEF Facts
  <2>2. \A k \in 1 .. Len(facts) - 1 :
          facts[CHOOSE i \in DOMAIN facts : facts[i] # boot /\ Rank(i) = k] \in Aff
    BY <1>1, <1>4, <2>1
  <2>3. Others = [k \in 1 .. Len(facts) - 1 |->
                    facts[CHOOSE i \in DOMAIN facts : facts[i] # boot /\ Rank(i) = k]]
    BY <1>2, Zenon DEF Others
  <2> QED
    BY <2>2, <2>3
<1>6. Len(facts) - 1 \in Nat
  BY <1>1
<1>7. Len(Others) = Len(facts) - 1
  BY <1>5, <1>6, LenOf
<1> QED
  BY <1>2, <1>4, <1>7 DEF Others

\* Frames come and go, the present set stays.
LEMMA PresentKept ==
  ASSUME PresentInv, Facts' = Facts, facts' = facts, boot' = boot, place' = place, 1 \in Facts,
         cpu' \in [Facts -> CpuRec], \A i \in Facts : cpu'[i].aff = cpu[i].aff
  PROVE  PresentInv'
<1>1. cpu'[1].aff = boot /\ place' \in [Facts -> Nat]
  BY DEF PresentInv
<1>2. \A i \in Facts : place'[i] + 1 \in Facts /\ cpu'[place'[i] + 1].aff = facts[i]
  BY DEF PresentInv
<1>3. \A i, j \in Facts : cpu'[i].aff = cpu'[j].aff => i = j
  BY DEF PresentInv
<1>4. \A i \in Facts : \E j \in Facts : cpu'[i].aff = facts[j]
  BY DEF PresentInv
<1>5. /\ cpu' \in [Facts' -> CpuRec] /\ place' \in [Facts' -> Nat] /\ cpu'[1].aff = boot'
      /\ \A i \in Facts' : place'[i] + 1 \in Facts' /\ cpu'[place'[i] + 1].aff = facts'[i]
      /\ \A i, j \in Facts' : cpu'[i].aff = cpu'[j].aff => i = j
      /\ \A i \in Facts' : \E j \in Facts' : cpu'[i].aff = facts'[j]
  BY <1>1, <1>2, <1>3, <1>4
<1> QED
  BY <1>5, Zenon DEF PresentInv, CpuRec

\* S8 makes the present set.
LEMMA PresentStep == IInv /\ Present => IInv'
<1> SUFFICES ASSUME IInv, Present PROVE IInv'
  OBVIOUS
<1>1. WorldInv /\ at = "present"
  BY DEF IInv, Present
<1>2. PICK b \in Facts : facts[b] = boot
  BY <1>1 DEF WorldInv
<1> DEFINE M == Len(facts)
<1>3. /\ M \in 1 .. CPU_BOUND /\ CPU_BOUND \in Nat /\ b \in 1 .. M /\ Facts = 1 .. M
      /\ facts \in [1 .. M -> Aff] /\ DOMAIN facts = 1 .. M
      /\ \A i, j \in 1 .. M : facts[i] = facts[j] => i = j
  BY <1>1, <1>2, TopologyAssumption DEF WorldInv, Facts, TopologyAssumption
<1>4. /\ Len(Others) = M - 1
      /\ \A k \in 1 .. M - 1 : Others[k] = facts[IF k < b THEN k ELSE k + 1]
  BY <1>1, <1>2, OthersAre
<1>5. \A i \in 1 .. M : Rank(i) = IF i < b THEN i ELSE i - 1
  BY <1>1, <1>2, <1>3, RankIs
<1>6. /\ at' = "init" /\ UNCHANGED <<world, frames, nrd, scanned>>
      /\ cpu' = [k \in 1 .. M |-> Cpu(IF k = 1 THEN boot ELSE Others[k - 1], 0)]
      /\ place' = [i \in 1 .. M |-> IF facts[i] = boot THEN 0 ELSE Rank(i)]
  <2> HIDE DEF M
  <2>1. Len(facts) \in 1 .. CPU_BOUND /\ 1 + Len(Others) <= CPU_BOUND
    BY <1>3, <1>4 DEF M
  <2>2. 1 + Len(Others) = M
    BY <1>3, <1>4
  <2> QED
    BY <1>3, <2>1, <2>2 DEF Present
<1>7. /\ \A k \in 1 .. M : cpu'[k].aff = facts[IF k = 1 THEN b ELSE IF k - 1 < b THEN k - 1 ELSE k]
      /\ \A k \in 1 .. M : cpu'[k].frame = 0
  <2> HIDE DEF M
  <2> SUFFICES ASSUME NEW k \in 1 .. M
               PROVE  /\ cpu'[k].aff = facts[IF k = 1 THEN b ELSE IF k - 1 < b THEN k - 1 ELSE k]
                      /\ cpu'[k].frame = 0
    OBVIOUS
  <2>1. CASE k = 1
    BY <1>2, <1>6, <2>1 DEF Cpu
  <2>2. CASE k # 1
    <3>1. k - 1 \in 1 .. M - 1 /\ (k - 1) + 1 = k
      BY <1>3, <2>2
    <3>2. Others[k - 1] = facts[IF k - 1 < b THEN k - 1 ELSE k]
      BY <1>4, <3>1
    <3> QED
      BY <1>6, <2>2, <3>2 DEF Cpu
  <2> QED
    BY <2>1, <2>2
<1>8. \A i \in 1 .. M : place'[i] = IF i = b THEN 0 ELSE IF i < b THEN i ELSE i - 1
  BY <1>2, <1>3, <1>5, <1>6
<1> HIDE DEF M
<1> DEFINE src(k) == IF k = 1 THEN b ELSE IF k - 1 < b THEN k - 1 ELSE k
<1>9. /\ \A k \in 1 .. M : src(k) \in 1 .. M
      /\ \A k, l \in 1 .. M : src(k) = src(l) => k = l
      /\ \A i \in 1 .. M : place'[i] \in Nat /\ place'[i] + 1 \in 1 .. M
      /\ \A i \in 1 .. M : src(place'[i] + 1) = i
      /\ src(1) = b
  BY <1>3, <1>8
<1> HIDE DEF src
<1>10. \A k \in 1 .. M : cpu'[k].aff = facts[src(k)] /\ cpu'[k].frame = 0
  BY <1>7 DEF src
<1>11. cpu' \in [1 .. M -> CpuRec]
  <2>1. \A k \in 1 .. M : Cpu(IF k = 1 THEN boot ELSE Others[k - 1], 0) = cpu'[k]
    BY <1>6
  <2>2. \A k \in 1 .. M : cpu'[k].aff \in Aff
    BY <1>3, <1>9, <1>10
  <2>3. \A k \in 1 .. M : cpu'[k] \in CpuRec
    BY <2>1, <2>2, CpuIs
  <2> QED
    BY <1>6, <2>3
<1>12. place' \in [1 .. M -> Nat]
  BY <1>6, <1>9
<1>13. PresentInv'
  <2>1. Facts' = 1 .. M /\ facts' = facts /\ boot' = boot
    BY <1>6 DEF Facts, world, M
  <2>2. cpu'[1].aff = boot
    BY <1>2, <1>3, <1>9, <1>10
  <2>3. \A i \in 1 .. M : cpu'[place'[i] + 1].aff = facts[i]
    BY <1>9, <1>10
  <2>4. \A i, j \in 1 .. M : cpu'[i].aff = cpu'[j].aff => i = j
    BY <1>3, <1>9, <1>10
  <2>5. \A i \in 1 .. M : \E j \in 1 .. M : cpu'[i].aff = facts[j]
    BY <1>9, <1>10
  <2> QED
    BY <1>9, <1>11, <1>12, <2>1, <2>2, <2>3, <2>4, <2>5 DEF PresentInv, CpuRec
<1>14. WorldInv' /\ frames' = <<>> /\ nrd' = 0 /\ scanned' = 0
  BY <1>1, <1>6 DEF IInv, WorldInv, world, Facts
<1> QED
  BY <1>6, <1>13, <1>14 DEF IInv, StopInv

-----------------------------------------------------------------------------
\* S9 leaves the present set, and no CPU has a frame.
LEMMA InitStep == IInv /\ InitCpus => IInv'
<1> SUFFICES ASSUME IInv, InitCpus PROVE IInv'
  OBVIOUS
<1>1. /\ WorldInv /\ PresentInv /\ at' = "walk" /\ UNCHANGED <<world, frames, place, nrd, scanned>>
      /\ frames = <<>> /\ nrd = 0 /\ scanned = 0
      /\ cpu' = [i \in Facts |-> Cpu(cpu[i].aff, 0)]
  BY DEF IInv, InitCpus, PresentInv
<1>2. \A i \in Facts : cpu[i].aff \in Aff
  BY <1>1 DEF PresentInv, CpuRec
<1>3. cpu' \in [Facts -> CpuRec] /\ \A i \in Facts : cpu'[i].aff = cpu[i].aff /\ cpu'[i].frame = 0
  BY <1>1, <1>2, CpuIs
<1>4. Facts' = Facts /\ facts' = facts /\ boot' = boot /\ region' = region /\ WorldInv' /\ 1 \in Facts
  BY <1>1 DEF Facts, world, WorldInv
<1>5. PresentInv'
  BY <1>1, <1>3, <1>4, PresentKept
<1>6. frames' \in Seq(FrameRec) /\ Len(frames') = 0 /\ 1 .. 0 = {}
  BY <1>1, EmptySeq
<1>7. Matching' = {}
  BY <1>6 DEF Matching
<1>8. WalkInv'
  BY <1>1, <1>3, <1>4, <1>6, <1>7, FS_EmptySet DEF WalkInv, LastOf
<1>9. scanned' = 0 /\ region' \in Nat
  BY <1>1, <1>4 DEF WorldInv
<1> QED
  BY <1>1, <1>4, <1>5, <1>8, <1>9 DEF IInv, StopInv

\* One more frame is counted when it is a CPU's, and becomes that CPU's last.
LEMMA WalkStep == IInv /\ Walk => IInv'
<1> SUFFICES ASSUME IInv, NEW aff \in Aff, NEW last \in BOOLEAN,
                    at = "walk",
                    frames' = Append(frames, [aff |-> aff, last |-> last]),
                    cpu' = [i \in DOMAIN cpu |->
                              IF cpu[i].aff = aff THEN Cpu(aff, Len(frames')) ELSE cpu[i]],
                    nrd' = nrd + Counted(aff), scanned' = scanned + 1,
                    \/ scanned' > region /\ at' = "halt"
                    \/ ~(scanned' > region) /\ last /\ at' = "count"
                    \/ ~(scanned' > region) /\ ~last /\ at' = at,
                    UNCHANGED <<world, place>>
             PROVE  IInv'
  BY DEF Walk, PastRegion
<1> DEFINE L == Len(frames)
<1>1. /\ WorldInv /\ PresentInv /\ WalkInv /\ scanned = L /\ region \in Nat
      /\ scanned <= region /\ \A k \in 1 .. scanned : ~frames[k].last
      /\ DOMAIN cpu = Facts
  BY DEF IInv, StopInv, WalkInv, WorldInv, PresentInv
<1>2. frames \in Seq(FrameRec) /\ [aff |-> aff, last |-> last] \in FrameRec
  BY <1>1 DEF WalkInv, FrameRec
<1>3. L \in Nat
  BY <1>2, LenProperties
<1>4. /\ frames' \in Seq(FrameRec) /\ Len(frames') = L + 1
      /\ \A k \in 1 .. L : frames'[k] = frames[k]
      /\ frames'[L + 1] = [aff |-> aff, last |-> last]
  BY <1>2, AppendProperties
<1> HIDE DEF L
<1>5. /\ Facts' = Facts /\ facts' = facts /\ boot' = boot /\ region' = region /\ place' = place
      /\ WorldInv' /\ 1 \in Facts
  BY <1>1 DEF Facts, world, WorldInv
<1>6. /\ cpu' = [i \in Facts |-> IF cpu[i].aff = aff THEN Cpu(aff, L + 1) ELSE cpu[i]]
      /\ cpu \in [Facts -> CpuRec]
  BY <1>1, <1>4 DEF PresentInv
<1>7. \A i \in Facts : /\ cpu'[i].aff = cpu[i].aff /\ cpu'[i] \in CpuRec
                       /\ cpu'[i].frame = IF cpu[i].aff = aff THEN L + 1 ELSE cpu[i].frame
  <2> SUFFICES ASSUME NEW i \in Facts
               PROVE  /\ cpu'[i].aff = cpu[i].aff /\ cpu'[i] \in CpuRec
                      /\ cpu'[i].frame = IF cpu[i].aff = aff THEN L + 1 ELSE cpu[i].frame
    OBVIOUS
  <2>1. CASE cpu[i].aff = aff
    BY <1>3, <1>6, <2>1 DEF Cpu, CpuRec
  <2>2. CASE cpu[i].aff # aff
    BY <1>6, <2>2
  <2> QED
    BY <2>1, <2>2
<1>8. cpu' \in [Facts -> CpuRec]
  BY <1>6, <1>7
<1>9. PresentInv'
  BY <1>1, <1>5, <1>7, <1>8, PresentKept
<1>10. (\E i \in DOMAIN cpu : cpu[i].aff = aff) <=> \E j \in Facts : aff = facts[j]
  <2>1. ASSUME NEW i \in Facts, cpu[i].aff = aff PROVE \E j \in Facts : aff = facts[j]
    BY <1>1, <2>1 DEF PresentInv
  <2>2. ASSUME NEW j \in Facts, aff = facts[j] PROVE \E i \in Facts : cpu[i].aff = aff
    BY <1>1, <2>2 DEF PresentInv
  <2> QED
    BY <1>1, <2>1, <2>2
<1>11. nrd' = Cardinality(Matching')
  <2>1. IsFiniteSet(Matching)
    <3>1. IsFiniteSet(1 .. L) /\ Matching \in SUBSET (1 .. L)
      BY <1>3, FS_Interval DEF Matching, L
    <3> QED
      BY <3>1, FS_Subset
  <2>2. Matching' = {k \in 1 .. L + 1 : \E j \in Facts : frames'[k].aff = facts[j]}
    BY <1>4, <1>5 DEF Matching
  <2>3. Matching = {k \in 1 .. L : \E j \in Facts : frames[k].aff = facts[j]}
    BY DEF Matching, L
  <2>4. frames'[L + 1].aff = aff /\ L + 1 \notin Matching /\ nrd = Cardinality(Matching)
    BY <1>1, <1>3, <1>4, <2>3 DEF WalkInv
  <2>5. CASE \E j \in Facts : aff = facts[j]
    <3>1. Matching' = Matching \cup {L + 1}
      BY <1>3, <1>4, <2>2, <2>3, <2>4, <2>5
    <3>2. Counted(aff) = 1
      BY <1>10, <2>5 DEF Counted
    <3> QED
      BY <2>1, <2>4, <3>1, <3>2, FS_AddElement
  <2>6. CASE ~ \E j \in Facts : aff = facts[j]
    <3>1. Matching' = Matching
      BY <1>3, <1>4, <2>2, <2>3, <2>4, <2>6
    <3>2. Counted(aff) = 0
      BY <1>10, <2>6 DEF Counted
    <3>3. Cardinality(Matching) \in Nat
      BY <2>1, FS_CardinalityType
    <3> QED
      BY <2>4, <3>1, <3>2, <3>3
  <2> QED
    BY <2>5, <2>6
<1>12. \A i \in Facts : LastOf(i)'
  <2> SUFFICES ASSUME NEW i \in Facts PROVE LastOf(i)'
    OBVIOUS
  <2>1. LastOf(i) /\ cpu[i].frame \in Nat
    BY <1>1, <1>6 DEF WalkInv, CpuRec
  <2>2. CASE cpu[i].aff = aff
    <3>1. cpu'[i].frame = L + 1 /\ cpu'[i].aff = aff /\ L + 1 \in 1 .. L + 1
      BY <1>3, <1>7, <2>2
    <3>2. frames'[L + 1].aff = aff
      BY <1>4
    <3> QED
      BY <1>4, <3>1, <3>2 DEF LastOf
  <2>3. CASE cpu[i].aff # aff
    <3>1. cpu'[i].aff = cpu[i].aff /\ cpu'[i].frame = cpu[i].frame
      BY <1>7, <2>3
    <3>2. \A k \in 1 .. L + 1 : k \in 1 .. L \/ k = L + 1
      BY <1>3
    <3>3. CASE cpu[i].frame = 0 /\ \A k \in 1 .. L : frames[k].aff # cpu[i].aff
      <4>1. frames'[L + 1].aff # cpu'[i].aff
        BY <1>4, <2>3, <3>1
      <4>2. \A k \in 1 .. L + 1 : frames'[k].aff # cpu'[i].aff
        BY <1>4, <3>1, <3>2, <3>3, <4>1
      <4> QED
        BY <1>4, <3>1, <3>3, <4>2 DEF LastOf
    <3>4. CASE cpu[i].frame \in 1 .. L /\ frames[cpu[i].frame].aff = cpu[i].aff
      BY <1>3, <1>4, <3>1, <3>4 DEF LastOf
    <3> QED
      BY <2>1, <3>3, <3>4 DEF LastOf, L
  <2> QED
    BY <2>2, <2>3
<1>13. WalkInv'
  BY <1>1, <1>4, <1>5, <1>11, <1>12 DEF WalkInv
<1>14. /\ scanned' = L + 1 /\ region' = region /\ region \in Nat /\ L <= region
       /\ \A k \in 1 .. L : ~frames'[k].last
  BY <1>1, <1>4, <1>5
<1>15. frames'[L + 1].last <=> last
  BY <1>4
<1>16. StopInv'
  <2>1. CASE L + 1 > region /\ at' = "halt"
    <3>1. region' = L /\ scanned' = L + 1 /\ scanned' > region' /\ ~(scanned' <= region')
      BY <1>3, <1>14, <2>1
    <3>2. \A k \in 1 .. region' : ~frames'[k].last
      BY <1>14, <3>1
    <3> QED
      BY <2>1, <3>1, <3>2 DEF StopInv
  <2>2. CASE ~(L + 1 > region) /\ last /\ at' = "count"
    <3>1. L + 1 \in 1 .. region /\ (L + 1) - 1 = L
      BY <1>3, <1>14, <2>2
    <3> QED
      BY <1>14, <1>15, <2>2, <3>1 DEF StopInv
  <2>3. CASE ~(L + 1 > region) /\ ~last /\ at' = "walk"
    <3>1. \A k \in 1 .. L + 1 : k \in 1 .. L \/ k = L + 1
      BY <1>3
    <3>2. \A k \in 1 .. L + 1 : ~frames'[k].last
      BY <1>14, <1>15, <2>3, <3>1
    <3>3. scanned' = L + 1 /\ scanned' <= region'
      BY <1>3, <1>14, <2>3
    <3> QED
      BY <2>3, <3>2, <3>3 DEF StopInv
  <2> QED
    BY <1>14, <2>1, <2>2, <2>3
<1> QED
  BY <1>5, <1>9, <1>13, <1>16 DEF IInv

\* The count decides.
LEMMA FreezeStep == IInv /\ Freeze => IInv'
<1> SUFFICES ASSUME IInv, Freeze PROVE IInv'
  OBVIOUS
<1>1. /\ WorldInv /\ PresentInv /\ WalkInv /\ at = "count" /\ StopInv /\ region \in Nat
      /\ UNCHANGED <<world, frames, cpu, place, nrd, scanned>>
      /\ at' \in {"halt", "frozen"} /\ (at' = "halt" <=> FramesMissing)
  BY DEF IInv, Freeze, Halt, WorldInv
<1>2. WorldInv' /\ PresentInv' /\ WalkInv'
  <2>1. Facts' = Facts /\ WorldInv'
    BY <1>1 DEF WorldInv, Facts, world
  <2>2. /\ 1 \in Facts /\ facts' = facts /\ boot' = boot /\ cpu' = cpu /\ place' = place
        /\ cpu \in [Facts -> CpuRec]
    BY <1>1 DEF PresentInv, WorldInv, Facts, world
  <2>4. PresentInv'
    BY <1>1, <2>1, <2>2, PresentKept
  <2>3. Matching' = Matching /\ \A i \in Facts : LastOf(i)' <=> LastOf(i)
    BY <1>1, <2>1 DEF Matching, LastOf, world
  <2> QED
    BY <1>1, <2>1, <2>3, <2>4 DEF WalkInv
<1>3. FramesMissing' <=> FramesMissing
  BY <1>1 DEF FramesMissing
<1>4. region' = region
  BY <1>1 DEF world
<1>5. scanned \in 1 .. region /\ scanned' = scanned /\ frames' = frames
  BY <1>1 DEF StopInv
<1>6. StopInv'
  BY <1>1, <1>3, <1>4, <1>5 DEF StopInv
<1> QED
  BY <1>1, <1>2, <1>6 DEF IInv

\* The invariant holds before S8.
LEMMA InitInv == Init => IInv
<1> SUFFICES ASSUME Init PROVE IInv
  OBVIOUS
<1>1. PICK n \in 1 .. CPU_BOUND : facts \in [1 .. n -> Aff]
  BY DEF Init, CpuLists
<1>2. n \in Nat
  BY <1>1, TopologyAssumption DEF TopologyAssumption
<1>3. Len(facts) = n /\ DOMAIN facts = 1 .. n
  BY <1>1, <1>2, LenOf
<1>4. \A i, j \in DOMAIN facts : facts[i] = facts[j] => i = j
  BY DEF Init, CpuLists
<1>5. region \in Nat
  BY TopologyAssumption DEF Init, TopologyAssumption
<1>6. WorldInv
  BY <1>1, <1>3, <1>4, <1>5 DEF Init, WorldInv, Facts
<1> QED
  BY <1>6 DEF Init, IInv, StopInv

\* The whole invariant is inductive.
THEOREM Invariant == Spec => []IInv
<1>1. IInv /\ [Next]_vars => IInv'
  <2>1. ASSUME IInv, UNCHANGED vars PROVE IInv'
    <3>1. UNCHANGED <<facts, boot, frames, region, cpu, place, nrd, scanned, at>>
      BY <2>1 DEF vars, world
    <3>2. Facts' = Facts /\ (WorldInv => WorldInv')
      BY <3>1 DEF WorldInv, Facts
    <3>3. PresentInv => PresentInv'
      BY <3>1, <3>2 DEF PresentInv, CpuRec
    <3>4. Matching' = Matching /\ \A i \in Facts : LastOf(i)' <=> LastOf(i)
      BY <3>1, <3>2 DEF Matching, LastOf
    <3>5. WalkInv => WalkInv'
      BY <3>1, <3>2, <3>4 DEF WalkInv
    <3>6. StopInv => StopInv'
      BY <3>1 DEF StopInv, FramesMissing
    <3> QED
      BY <2>1, <3>1, <3>2, <3>3, <3>5, <3>6 DEF IInv
  <2>2. Stay => UNCHANGED vars
    BY DEF Stay
  <2> QED
    BY <2>1, <2>2, PresentStep, InitStep, WalkStep, FreezeStep DEF Next
<1> QED
  BY <1>1, InitInv, PTL DEF Spec

\* The records are the present set, for any number of CPUs in any order of the
\* facts (nxu_s8_present).
THEOREM PresentIsExact == Spec => []PresentExact
<1>1. IInv => PresentExact
  <2> SUFFICES ASSUME IInv, at \notin {"present", "halt"}
               PROVE  /\ cpu[1].aff = boot
                      /\ Len(cpu) = Len(facts) /\ Len(place) = Len(facts)
                      /\ \A i \in DOMAIN facts : cpu[place[i] + 1].aff = facts[i]
                      /\ \A i, j \in DOMAIN cpu : cpu[i].aff = cpu[j].aff => i = j
    BY DEF PresentExact
  <2>1. WorldInv /\ PresentInv
    BY DEF IInv
  <2>2. Len(facts) \in Nat /\ DOMAIN facts = Facts
    BY <2>1 DEF WorldInv
  <2>3. Len(cpu) = Len(facts) /\ Len(place) = Len(facts) /\ DOMAIN cpu = Facts
    BY <2>1, <2>2, LenOf DEF PresentInv, Facts
  <2> QED
    BY <2>1, <2>2, <2>3 DEF PresentInv
<1> QED
  BY <1>1, Invariant, PTL

-----------------------------------------------------------------------------
\* When each CPU has a frame, the frames named are as many as the CPUs and among
\* those that match.
LEMMA NamedFrames ==
  ASSUME WorldInv, PresentInv, WalkInv, \A i \in Facts : cpu[i].frame # 0
  PROVE  /\ [i \in Facts |-> cpu[i].frame] \in Injection(Facts, Matching)
         /\ IsFiniteSet(Matching) /\ Cardinality(Facts) = Len(facts)
<1> DEFINE f == [i \in Facts |-> cpu[i].frame]
<1>1. \A i \in Facts : cpu[i].frame \in 1 .. Len(frames) /\ frames[cpu[i].frame].aff = cpu[i].aff
  BY DEF WalkInv, LastOf
<1>2. f \in [Facts -> Matching]
  <2>1. \A i \in Facts : \E j \in Facts : frames[cpu[i].frame].aff = facts[j]
    BY <1>1 DEF PresentInv
  <2> QED
    BY <1>1, <2>1 DEF Matching
<1>3. ASSUME NEW i \in Facts, NEW j \in Facts, f[i] = f[j] PROVE i = j
  <2>1. cpu[i].aff = cpu[j].aff
    BY <1>1, <1>3
  <2> QED
    BY <2>1 DEF PresentInv
<1>4. f \in Injection(Facts, Matching)
  BY <1>2, <1>3 DEF Injection, IsInjective
<1>5. Len(frames) \in Nat /\ Len(facts) \in Nat
  BY LenProperties DEF WalkInv, WorldInv
<1>6. IsFiniteSet(Matching)
  <2>1. IsFiniteSet(1 .. Len(frames)) /\ Matching \in SUBSET (1 .. Len(frames))
    BY <1>5, FS_Interval DEF Matching
  <2> QED
    BY <2>1, FS_Subset
<1>7. Cardinality(Facts) = Len(facts)
  <2> DEFINE n == Len(facts)
  <2> HIDE DEF n
  <2>1. n \in Nat /\ Facts = 1 .. n
    BY <1>5 DEF n, Facts
  <2>2. Cardinality(1 .. n) = IF 1 > n THEN 0 ELSE n - 1 + 1
    BY <2>1, FS_Interval
  <2>3. Cardinality(1 .. n) = n
    BY <2>1, <2>2
  <2> QED
    BY <2>1, <2>3 DEF n
<1> QED
  BY <1>4, <1>6, <1>7

\* When the counts agree, each frame of a CPU is the one its record names.
LEMMA CountsAgree ==
  ASSUME WorldInv, PresentInv, WalkInv, ~FramesMissing
  PROVE  \A i \in Facts : {k \in 1 .. Len(frames) : frames[k].aff = cpu[i].aff} = {cpu[i].frame}
<1>1. DOMAIN cpu = Facts /\ Len(cpu) = Len(facts) /\ Len(facts) \in Nat
  <2>1. cpu \in [1 .. Len(facts) -> CpuRec] /\ Len(facts) \in Nat
    <3>1. cpu \in [Facts -> CpuRec]
      BY DEF PresentInv
    <3> QED
      BY <3>1 DEF WorldInv, Facts
  <2> QED
    BY <2>1, LenOf DEF Facts
<1>2. nrd = Len(facts) /\ \A i \in Facts : cpu[i].frame # 0
  BY <1>1 DEF FramesMissing
<1> DEFINE f == [i \in Facts |-> cpu[i].frame]
<1>3. f \in Injection(Facts, Matching) /\ IsFiniteSet(Matching)
      /\ Cardinality(Facts) = Cardinality(Matching)
  BY <1>2, NamedFrames DEF WalkInv
<1>4. f \in Surjection(Facts, Matching)
  BY <1>3, FS_Injection
<1>5. \A k \in Matching : \E j \in Facts : cpu[j].frame = k
  BY <1>4 DEF Surjection
<1> SUFFICES ASSUME NEW i \in Facts
             PROVE  {k \in 1 .. Len(frames) : frames[k].aff = cpu[i].aff} = {cpu[i].frame}
  OBVIOUS
<1>6. \A j \in Facts : cpu[j].frame \in 1 .. Len(frames) /\ frames[cpu[j].frame].aff = cpu[j].aff
  BY <1>2 DEF WalkInv, LastOf
<1>7. ASSUME NEW k \in 1 .. Len(frames), frames[k].aff = cpu[i].aff PROVE k = cpu[i].frame
  <2>1. k \in Matching
    BY <1>7 DEF Matching, PresentInv
  <2>2. PICK j \in Facts : cpu[j].frame = k
    BY <1>5, <2>1
  <2>3. cpu[j].aff = cpu[i].aff
    BY <1>6, <1>7, <2>2
  <2> QED
    BY <2>2, <2>3 DEF PresentInv
<1> QED
  BY <1>6, <1>7

\* And the other way round.
LEMMA FramesAgree ==
  ASSUME WorldInv, PresentInv, WalkInv,
         \A i \in Facts : \E k : {l \in 1 .. Len(frames) : frames[l].aff = facts[i]} = {k}
  PROVE  ~FramesMissing
<1>1. DOMAIN cpu = Facts /\ Len(cpu) = Len(facts) /\ Len(facts) \in Nat
  <2>1. cpu \in [1 .. Len(facts) -> CpuRec] /\ Len(facts) \in Nat
    <3>1. cpu \in [Facts -> CpuRec]
      BY DEF PresentInv
    <3> QED
      BY <3>1 DEF WorldInv, Facts
  <2> QED
    BY <2>1, LenOf DEF Facts
<1>2. \A i \in Facts : \E k \in 1 .. Len(frames) : frames[k].aff = facts[i]
  OBVIOUS
<1>3. \A i \in Facts : cpu[i].frame # 0
  <2> SUFFICES ASSUME NEW i \in Facts PROVE cpu[i].frame # 0
    OBVIOUS
  <2>1. PICK j \in Facts : cpu[i].aff = facts[j]
    BY DEF PresentInv
  <2>2. \E k \in 1 .. Len(frames) : frames[k].aff = cpu[i].aff
    BY <1>2, <2>1
  <2>3. 0 \notin 1 .. Len(frames)
    OBVIOUS
  <2> QED
    BY <2>2, <2>3 DEF WalkInv, LastOf
<1>4. \A j \in Facts : cpu[j].frame \in 1 .. Len(frames) /\ frames[cpu[j].frame].aff = cpu[j].aff
  BY <1>3 DEF WalkInv, LastOf
<1> DEFINE f == [i \in Facts |-> cpu[i].frame]
<1>5. f \in Injection(Facts, Matching) /\ IsFiniteSet(Matching) /\ Cardinality(Facts) = Len(facts)
  BY <1>3, NamedFrames
<1>6. ASSUME NEW k \in Matching PROVE \E j \in Facts : f[j] = k
  <2>1. PICK i \in Facts : frames[k].aff = facts[i] /\ k \in 1 .. Len(frames)
    BY <1>6 DEF Matching
  <2>2. place[i] + 1 \in Facts /\ cpu[place[i] + 1].aff = facts[i]
    BY DEF PresentInv
  <2>3. cpu[place[i] + 1].frame \in {l \in 1 .. Len(frames) : frames[l].aff = facts[i]}
    BY <1>4, <2>2
  <2>4. cpu[place[i] + 1].frame = k
    BY <2>1, <2>3
  <2> QED
    BY <2>2, <2>4
<1>7. f \in Surjection(Facts, Matching)
  BY <1>5, <1>6 DEF Surjection, Injection
<1>8. Cardinality(Facts) = Cardinality(Matching)
  BY <1>5, <1>7, FS_Injection
<1> QED
  BY <1>1, <1>3, <1>5, <1>8 DEF FramesMissing, WalkInv

\* The present set is frozen exactly when the controller has one frame for each CPU,
\* whatever frames there are and in whatever order (nxu_s10_gic).
THEOREM FrozenWhenCorroborated == Spec => []FrozenIffCorroborated
<1>1. ASSUME IInv, scanned \in 1 .. region, frames[scanned].last, WalkInv,
             \A k \in 1 .. scanned - 1 : ~frames[k].last
      PROVE  Ends # {} /\ End = Len(frames)
  <2>1. scanned = Len(frames) /\ region \in Nat /\ DOMAIN frames = 1 .. Len(frames)
        /\ Len(frames) \in Nat
    BY <1>1, LenProperties DEF WalkInv, IInv, WorldInv
  <2>2. scanned \in Ends /\ \A k \in Ends : k \in Nat /\ scanned <= k
    BY <1>1, <2>1 DEF Ends
  <2>3. \A k \in Ends : (\A j \in Ends : k <= j) => k = scanned
    BY <1>1, <2>1, <2>2
  <2> QED
    BY <2>1, <2>2, <2>3 DEF End
<1>2. ASSUME IInv, at = "frozen"
      PROVE  Agrees /\ \A i \in DOMAIN cpu : FramesOf(cpu[i].aff) = {cpu[i].frame}
  <2>1. WorldInv /\ PresentInv /\ WalkInv /\ ~FramesMissing
    BY <1>2 DEF IInv, StopInv
  <2>2. Ends # {} /\ End = Len(frames)
    BY <1>1, <1>2, <2>1 DEF IInv, StopInv
  <2>3. DOMAIN cpu = Facts /\ DOMAIN facts = Facts
    BY <2>1 DEF PresentInv, WorldInv
  <2>4. \A i \in Facts : FramesOf(cpu[i].aff) = {cpu[i].frame}
    BY <2>1, <2>2, CountsAgree DEF FramesOf
  <2>5. \A i \in Facts : Cardinality(FramesOf(facts[i])) = 1
    <3>1. \A i \in Facts : \E j \in Facts : cpu[j].aff = facts[i]
      BY <2>1 DEF PresentInv
    <3>2. ASSUME NEW i \in Facts PROVE \E k : FramesOf(facts[i]) = {k}
      <4>1. PICK j \in Facts : cpu[j].aff = facts[i]
        BY <3>1
      <4>2. FramesOf(cpu[j].aff) = {cpu[j].frame}
        BY <2>4
      <4> QED
        BY <4>1, <4>2
    <3> QED
      BY <3>2, FS_Singleton
  <2> QED
    BY <2>2, <2>3, <2>4, <2>5 DEF Agrees
<1>3. ASSUME IInv, at = "halt" PROVE ~Agrees
  <2>1. WorldInv /\ PresentInv /\ WalkInv /\ region \in Nat /\ scanned \in Nat
    BY <1>3, LenProperties DEF IInv, WorldInv, WalkInv
  <2>2. CASE scanned > region
    BY <1>3, <2>1, <2>2 DEF IInv, StopInv, Ends, Agrees
  <2>3. CASE scanned <= region
    <3>1. FramesMissing /\ End = Len(frames)
      BY <1>1, <1>3, <2>1, <2>3 DEF IInv, StopInv
    <3>2. SUFFICES ASSUME Agrees PROVE FALSE
      OBVIOUS
    <3>3. \A i \in Facts : Cardinality(FramesOf(facts[i])) = 1
      BY <2>1, <3>2 DEF Agrees, WorldInv
    <3>4. ASSUME NEW i \in Facts
          PROVE  \E k : {l \in 1 .. Len(frames) : frames[l].aff = facts[i]} = {k}
      <4>1. IsFiniteSet(FramesOf(facts[i]))
        <5>1. Len(frames) \in Nat
          BY <2>1, LenProperties DEF WalkInv
        <5>2. IsFiniteSet(1 .. Len(frames)) /\ FramesOf(facts[i]) \in SUBSET (1 .. Len(frames))
          BY <3>1, <5>1, FS_Interval DEF FramesOf
        <5> QED
          BY <5>2, FS_Subset
      <4>2. \E k : FramesOf(facts[i]) = {k}
        BY <3>3, <4>1, FS_Singleton
      <4> QED
        BY <3>1, <4>2 DEF FramesOf
    <3> QED
      BY <2>1, <3>1, <3>4, FramesAgree
  <2> QED
    BY <2>1, <2>2, <2>3
<1>4. IInv => FrozenIffCorroborated
  BY <1>2, <1>3 DEF FrozenIffCorroborated
<1> QED
  BY <1>4, Invariant, PTL
=============================================================================
