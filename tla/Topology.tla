------------------------------ MODULE Topology ------------------------------
(***************************************************************************)
(* The CPU records before the other CPUs run: S8 and S9 (foundation/cpu/    *)
(* cpu.c) number the present CPUs, and S10 (foundation/signal/signal.c)     *)
(* walks the redistributor frames of the interrupt controller to give each  *)
(* its own. The boot CPU runs alone. What it reads of a frame comes from    *)
(* the controller, whose order and number of frames it does not choose.     *)
(***************************************************************************)
EXTENDS Naturals, Sequences, FiniteSets

CONSTANTS
  CPU_BOUND,  \* NXU_CPU_BOUND
  Aff,        \* affinities
  MaxFrames   \* bound on the frames of the region

VARIABLES
  facts,      \* affinities of nxu_facts.cpu[], in order
  boot,       \* affinity of the boot CPU
  frames,     \* what each frame read so far held, from gicr_base on
  region,     \* frames that the accepted range holds, size / NXU_GICR_STRIDE
  cpu,        \* nxu_cpu[0 .. present - 1]: affinity and frame, 0 when it has none
  place,      \* nxu_facts.cpu[].logical, 0 while S8 has not set it
  nrd,        \* frames of a present CPU
  scanned,    \* frames read
  at,         \* the next step: "present", "init", "walk", "count", "frozen", "halt"
  why         \* what halted the boot, "none" while it runs

vars == <<facts, boot, frames, region, cpu, place, nrd, scanned, at, why>>
world == <<facts, boot, region>>

ASSUME TopologyAssumption == CPU_BOUND \in Nat \ {0} /\ MaxFrames \in Nat \ {0}

Cpu(aff, frame) == [aff |-> aff, frame |-> frame]

Halt(reason) ==
  /\ at' = "halt" /\ why' = reason
  /\ UNCHANGED <<world, frames, cpu, place, nrd, scanned>>

-----------------------------------------------------------------------------
\* Mutant: the boot CPU keeps its place in the facts, and is first as well.
AllOfFacts == facts

\* The CPUs of the facts but the boot CPU, and how many there are up to the i-th.
Rank(i) == Cardinality({j \in 1 .. i : facts[j] # boot})
Others ==
  [k \in 1 .. Rank(Len(facts)) |->
     facts[CHOOSE i \in DOMAIN facts : facts[i] # boot /\ Rank(i) = k]]

\* S8: the boot CPU is 0, and the others follow in the order of the facts.
Present ==
  /\ at = "present"
  /\ IF Len(facts) \in 1 .. CPU_BOUND /\ 1 + Len(Others) <= CPU_BOUND
     THEN /\ cpu' = [k \in 1 .. 1 + Len(Others) |->
                       Cpu(IF k = 1 THEN boot ELSE Others[k - 1], 0)]
          /\ place' = [i \in DOMAIN facts |-> IF facts[i] = boot THEN 0 ELSE Rank(i)]
          /\ at' = "init"
          /\ UNCHANGED <<world, frames, nrd, scanned, why>>
     ELSE Halt("cpu")

\* S9: no CPU has a frame yet; S10 starts at gicr_base.
InitCpus ==
  /\ at = "init"
  /\ cpu' = [i \in DOMAIN cpu |-> Cpu(cpu[i].aff, 0)]
  /\ at' = "walk"
  /\ UNCHANGED <<world, frames, place, nrd, scanned, why>>

\* Whether a frame of this affinity counts.
Counted(aff) == IF \E i \in DOMAIN cpu : cpu[i].aff = aff THEN 1 ELSE 0

\* Mutant: one frame more than the region holds.
PastRegionLate(n) == n > region + 1

\* Checked once the frame has been read, counted and given to its CPU.
PastRegion(n) == n > region

\* One turn of the loop of nxu_s10_gic: the frame says whose it is and whether
\* it is the last.
Walk ==
  /\ at = "walk"
  /\ \E aff \in Aff, last \in BOOLEAN :
       /\ frames' = Append(frames, [aff |-> aff, last |-> last])
       /\ cpu' = [i \in DOMAIN cpu |->
                    IF cpu[i].aff = aff THEN Cpu(aff, Len(frames')) ELSE cpu[i]]
       /\ nrd' = nrd + Counted(aff)
       /\ scanned' = scanned + 1
       /\ \/ PastRegion(scanned') /\ at' = "halt" /\ why' = "gic"
          \/ ~PastRegion(scanned') /\ last /\ at' = "count" /\ UNCHANGED why
          \/ ~PastRegion(scanned') /\ ~last /\ UNCHANGED <<at, why>>
  /\ UNCHANGED <<world, place>>

\* Mutant: only the number of frames is checked.
FramesMissingUncounted == nrd # Len(cpu)

\* The number of frames that counted, and a frame for each CPU.
FramesMissing == nrd # Len(cpu) \/ \E i \in DOMAIN cpu : cpu[i].frame = 0

\* The present set is frozen only when the controller agrees with it.
Freeze ==
  /\ at = "count"
  /\ \/ FramesMissing /\ Halt("gic")
     \/ /\ ~FramesMissing
        /\ at' = "frozen"
        /\ UNCHANGED <<world, frames, cpu, place, nrd, scanned, why>>

Stay == at \in {"frozen", "halt"} /\ UNCHANGED vars

\* S4 leaves distinct CPUs, the boot CPU among them, no more than CPU_BOUND.
CpuLists == {s \in UNION {[1 .. n -> Aff] : n \in 1 .. CPU_BOUND} :
               \A i, j \in DOMAIN s : s[i] = s[j] => i = j}

Init ==
  /\ facts \in CpuLists /\ boot \in {facts[i] : i \in DOMAIN facts}
  /\ region \in 0 .. MaxFrames - 1
  /\ frames = <<>> /\ cpu = <<>> /\ place = <<>>
  /\ nrd = 0 /\ scanned = 0
  /\ at = "present" /\ why = "none"

Next == Present \/ InitCpus \/ Walk \/ Freeze \/ Stay

Spec == Init /\ [][Next]_vars

-----------------------------------------------------------------------------
(* Properties *)

TypeOK ==
  /\ cpu \in Seq([aff : Aff, frame : 0 .. MaxFrames]) /\ Len(cpu) <= CPU_BOUND
  /\ place \in Seq(0 .. CPU_BOUND - 1)
  /\ frames \in Seq([aff : Aff, last : BOOLEAN])
  /\ nrd \in 0 .. MaxFrames /\ scanned \in 0 .. MaxFrames
  /\ at \in {"present", "init", "walk", "count", "frozen", "halt"}
  /\ why \in {"none", "cpu", "gic"}

\* The records are the present set and nothing else: the boot CPU first, each
\* CPU of the facts once, and each fact knows its record (cpu.c:60-77;
\* invariants 9 and 10).
PresentExact ==
  at \notin {"present", "halt"} =>
    /\ cpu[1].aff = boot
    /\ Len(cpu) = Len(facts) /\ Len(place) = Len(facts)
    /\ \A i \in DOMAIN facts : cpu[place[i] + 1].aff = facts[i]
    /\ \A i, j \in DOMAIN cpu : cpu[i].aff = cpu[j].aff => i = j

\* What the controller says of a CPU: the frames with its affinity, down to the
\* last frame, when the region holds that one.
Ends == {k \in DOMAIN frames \cap 1 .. region : frames[k].last}
End  == CHOOSE k \in Ends : \A j \in Ends : k <= j
FramesOf(aff) == {k \in 1 .. End : frames[k].aff = aff}
Agrees == Ends # {} /\ \A i \in DOMAIN facts : Cardinality(FramesOf(facts[i])) = 1

\* The present set is frozen exactly when the controller corroborates it: each
\* CPU has one frame in the region, and its record names that frame, though the
\* code counts frames and not CPUs. Frames of one affinity that stand for two
\* CPUs, frames without a CPU and CPUs without a frame end as they should
\* (signal.c:96-132; rule C5).
FrozenIffCorroborated ==
  /\ at = "frozen" => /\ Agrees
                      /\ \A i \in DOMAIN cpu : FramesOf(cpu[i].aff) = {cpu[i].frame}
  /\ at = "halt" => ~Agrees

\* GENESIS_V2_CLOSURE.md:100, "No use before ownership": a frame is read only
\* when the accepted range of the redistributors holds it.
ReadsItsRegion == scanned <= region
==============================================================================
