-------------------------------- MODULE Facts --------------------------------
(***************************************************************************)
(* The fact table: S3 (foundation/facts/fdt.c) takes candidates from the    *)
(* nodes of a DTB, and S4 (foundation/facts/facts.c) accepts them against   *)
(* the board's constants and what the boot CPU observes of itself.          *)
(*                                                                         *)
(* A node stands for what the decoder has collected of it at FDT_END_NODE;  *)
(* how it collects it is in Fdt. Each node is a step, and so is each group  *)
(* of facts, for each may halt the boot.                                    *)
(***************************************************************************)
EXTENDS Handover

CONSTANTS
  MEM_FACT_MAX,  \* NXU_MEM_FACT_MAX, RAM ranges of a DTB
  CPU_BOUND,     \* NXU_CPU_BOUND, CPUs
  AFF,           \* values of an affinity; an MPIDR holds flags above it
  ISA_PPI,       \* interrupt of the EL1 physical timer, 30
  Inputs         \* machines: what the loader, the board and the CPU present

VARIABLES
  in,     \* the machine
  node,   \* nodes of the DTB decoded so far
  cand,   \* nxu_dtb_cand
  facts,  \* nxu_facts
  at,     \* the next step: "dtb", "ram", "ctl", "cpu", "timer", "done", "halt"
  why     \* what halted the boot, "none" while it runs

vars == <<in, node, cand, facts, at, why>>

ASSUME FactsAssumption ==
  /\ MEM_FACT_MAX \in Nat \ {0} /\ CPU_BOUND \in Nat \ {0}
  /\ AFF \in Nat \ {0} /\ ISA_PPI \in Nat \ {0}

\* What the boards of the repository are: constants, with each CPU once.
Methods == {"none", "hvc", "smc"}
IsBoard(b) ==
  /\ b.present \in BOOLEAN /\ b.ram \in Seq(Ranges)
  /\ b.gicd \in Ranges /\ b.gicr \in Ranges /\ b.uart \in Ranges /\ b.pwrc \in Ranges
  /\ b.psci \in Methods /\ b.freq \in Nat /\ b.cpu \in Seq(Nat)
  /\ \A i, j \in DOMAIN b.cpu : b.cpu[i] % AFF = b.cpu[j] % AFF => i = j

\* A node at its end: what it was found to be, its ranges, and the rest of it.
Kinds == {"memory", "cpu", "gic", "uart", "psci", "timer"}
Node  == [kinds : SUBSET Kinds, regs : Seq(Ranges), method : Methods, ppi : Nat]

\* A machine: at most one DTB, whatever its nodes, and what is wrong with it.
IsMachine(m) ==
  /\ Cardinality(m.dtb) \in 0 .. 1 /\ \A nodes \in m.dtb : nodes \in Seq(Node)
  /\ m.flaw \in {"none", "dtb", "wrap", "overlap"}
  /\ IsBoard(m.board) /\ m.mpidr \in Nat /\ m.freq \in Nat /\ m.image \in Ranges

ASSUME MachinesAssumption == \A m \in Inputs : IsMachine(m)

NoRange == [base |-> 0, size |-> 0]

\* Mutant: the flags are kept.
AffinityRaw(mpidr) == mpidr

\* The flags of an MPIDR are masked off wherever it is compared.
Affinity(mpidr) == mpidr % AFF

\* A fact: its value, who said so, and how well it is known.
Graded(value, source, grade) == [value |-> value, source |-> source, grade |-> grade]
NoFact == Graded(NoRange, {}, "none")

Halt(reason) ==
  /\ at' = "halt" /\ why' = reason
  /\ UNCHANGED <<in, node, cand, facts>>

Reach(stage) == at' = stage /\ UNCHANGED <<in, why>>

-----------------------------------------------------------------------------
(* S3 *)

\* No DTB pointer: nothing is a candidate.
NoDtb == at = "dtb" /\ in.dtb = {} /\ Reach("ram") /\ UNCHANGED <<node, cand, facts>>

Nodes == CHOOSE nodes \in in.dtb : TRUE
Here  == Nodes[node + 1]

\* Mutant: a CPU that two nodes name is counted twice.
AddCpuTwice(cpus, mpidr) == Append(cpus, Affinity(mpidr))

\* add_cpu: a CPU already named is kept once.
AddCpu(cpus, mpidr) ==
  IF \E i \in DOMAIN cpus : cpus[i] = Affinity(mpidr) THEN cpus
  ELSE Append(cpus, Affinity(mpidr))

Learn(c) == cand' = c /\ node' = node + 1 /\ UNCHANGED <<in, facts, at, why>>

\* The ranges of a memory node, one by one: the first that wraps or has no place
\* halts. The CPU comes after the memory.
Refused(n) ==
  LET mem  == IF "memory" \in n.kinds THEN n.regs ELSE <<>>
      room == MEM_FACT_MAX - Len(cand.mem)
      cpus == IF "cpu" \in n.kinds /\ n.regs # <<>> THEN AddCpu(cand.cpu, n.regs[1].base)
                                                    ELSE cand.cpu
  IN IF \E i \in DOMAIN mem : i <= room + 1 /\ ~RangeOk(mem[i].base, mem[i].size) THEN "wrap"
     ELSE IF Len(mem) > room THEN "dtb"
     ELSE IF Len(cpus) > CPU_BOUND THEN "cpu"
     ELSE "none"

\* FDT_END_NODE, by what the node was found to be. The first controller with both
\* its ranges is kept, the last console, and the last enable-method.
Learnt(n) ==
  LET gic == "gic" \in n.kinds /\ Len(n.regs) >= 2 /\ cand.gicd.size = 0
      has(kind) == kind \in n.kinds /\ n.regs # <<>>
  IN [cand EXCEPT
        !.mem  = IF "memory" \in n.kinds THEN @ \o n.regs ELSE @,
        !.cpu  = IF has("cpu") THEN AddCpu(@, n.regs[1].base) ELSE @,
        !.gicd = IF gic THEN n.regs[1] ELSE @,
        !.gicr = IF gic THEN n.regs[2] ELSE @,
        !.uart = IF has("uart") THEN {n.regs[1]} ELSE @,
        !.psci = IF "psci" \in n.kinds /\ n.method # "none" THEN n.method ELSE @]

Ended(n) ==
  \/ Refused(n) # "none" /\ Halt(Refused(n))
  \/ Refused(n) = "none" /\ Learn(Learnt(n))

InDtb == at = "dtb" /\ in.dtb # {}

EndNode == InDtb /\ node < Len(Nodes) /\ Ended(Here)

Valid == cand' = [cand EXCEPT !.valid = TRUE] /\ Reach("ram") /\ UNCHANGED <<node, facts>>

\* After its last node the DTB ends, or a flaw of it halts the boot.
EndDtb ==
  /\ InDtb /\ node = Len(Nodes)
  /\ \/ in.flaw = "none" /\ Valid
     \/ in.flaw # "none" /\ Halt(in.flaw)

-----------------------------------------------------------------------------
(* S4 *)

Accept(f, stage) == facts' = f /\ Reach(stage) /\ UNCHANGED <<node, cand>>

BoardRam == IF in.board.present THEN in.board.ram ELSE <<>>
Common   == DOMAIN cand.mem \cap DOMAIN BoardRam

RamAgrees == \A i \in Common : cand.mem[i] = BoardRam[i]

ImageInRam(ram) ==
  RangeContains(ram[1].value.base, ram[1].value.size, in.image.base, in.image.size)

\* RAM comes from the DTB, compared range by range with the board's, and only
\* without one from the board's first range.
RamFacts ==
  IF cand.mem # <<>>
    THEN [i \in DOMAIN cand.mem |->
            IF i \in Common THEN Graded(cand.mem[i], {"DTB", "BOARD"}, "corroborated")
            ELSE Graded(cand.mem[i], {"DTB"}, "single")]
  ELSE IF BoardRam # <<>> THEN <<Graded(BoardRam[1], {"BOARD"}, "single")>>
  ELSE <<>>

S4Ram ==
  /\ at = "ram"
  /\ \/ ~RamAgrees /\ Halt("mismatch")
     \/ RamAgrees /\ RamFacts = <<>> /\ Halt("no_ram")
     \/ RamAgrees /\ RamFacts # <<>> /\ ~ImageInRam(RamFacts) /\ Halt("image")
     \/ /\ RamAgrees /\ RamFacts # <<>> /\ ImageInRam(RamFacts)
        /\ Accept([facts EXCEPT !.mem = RamFacts, !.dtb = cand.valid], "ctl")

BoardHas(r) == IF in.board.present THEN r ELSE NoRange

\* What merge_ctl is given: the DTB's candidate, whether it counts, and the
\* board's. The two ranges of the controller count when they have a size, a
\* console whenever a node named one.
OfGicd == [found |-> cand.gicd.size # 0, dtb |-> cand.gicd, board |-> BoardHas(in.board.gicd)]
OfGicr == [found |-> cand.gicr.size # 0, dtb |-> cand.gicr, board |-> BoardHas(in.board.gicr)]
OfUart == [found |-> cand.uart # {}, board |-> BoardHas(in.board.uart),
           dtb |-> IF cand.uart = {} THEN NoRange ELSE CHOOSE r \in cand.uart : TRUE]

\* Mutant: two sources that agree are graded as one.
MergeSingle(c) ==
  CASE c.found /\ c.board.size # 0 -> Graded(c.dtb, {"DTB", "BOARD"}, "single")
    [] c.found /\ c.board.size = 0 -> Graded(c.dtb, {"DTB"}, "single")
    [] ~c.found /\ c.board.size # 0 -> Graded(c.board, {"BOARD"}, "single")
    [] OTHER -> NoFact

\* merge_ctl, of candidates that do not differ.
Merge(c) ==
  CASE c.found /\ c.board.size # 0 -> Graded(c.dtb, {"DTB", "BOARD"}, "corroborated")
    [] c.found /\ c.board.size = 0 -> Graded(c.dtb, {"DTB"}, "single")
    [] ~c.found /\ c.board.size # 0 -> Graded(c.board, {"BOARD"}, "single")
    [] OTHER -> NoFact

\* Mutant: only the bases are compared.
DifferBase(c) == c.found /\ c.board.size # 0 /\ c.dtb.base # c.board.base

Differ(c) == c.found /\ c.board.size # 0 /\ c.dtb # c.board

PsciDiffers ==
  /\ cand.psci # "none" /\ in.board.present /\ in.board.psci # "none"
  /\ cand.psci # in.board.psci

ControllersFound == Merge(OfGicd) # NoFact /\ Merge(OfGicr) # NoFact

\* The interrupt controller is required, the console is not; then the
\* enable-method and the power controller.
S4Ctl ==
  /\ at = "ctl"
  /\ LET differ == Differ(OfGicd) \/ Differ(OfGicr) \/ Differ(OfUart) \/ PsciDiffers
     IN \/ (differ \/ ~ControllersFound) /\ Halt("mismatch")
        \/ /\ ~differ /\ ControllersFound
           /\ Accept([facts EXCEPT
                !.gicd = Merge(OfGicd), !.gicr = Merge(OfGicr), !.uart = Merge(OfUart),
                !.psci = Graded(IF cand.psci # "none" THEN cand.psci ELSE in.board.psci,
                                {src \in {"DTB", "BOARD"} :
                                   IF src = "DTB" THEN cand.psci # "none"
                                   ELSE in.board.present /\ in.board.psci # "none"},
                                "none"),
                !.pwrc = BoardHas(in.board.pwrc)], "cpu")

Boot == Affinity(in.mpidr)
BoardCpus ==
  IF in.board.present THEN [i \in DOMAIN in.board.cpu |-> Affinity(in.board.cpu[i])]
  ELSE <<>>
InSeq(x, s) == \E i \in DOMAIN s : s[i] = x

\* A CPU of the DTB that a board with a list of CPUs does not list.
CpuUnknown(cpu) == BoardCpus # <<>> /\ ~InSeq(cpu, BoardCpus)

\* The boot CPU has been seen as well.
CpuFact(cpu, source, grade) ==
  IF cpu = Boot THEN Graded(cpu, source \cup {"OBS"}, "corroborated")
  ELSE Graded(cpu, source, grade)

CpuFacts ==
  IF cand.cpu # <<>>
    THEN [i \in DOMAIN cand.cpu |->
            IF BoardCpus # <<>> THEN CpuFact(cand.cpu[i], {"DTB", "BOARD"}, "corroborated")
            ELSE CpuFact(cand.cpu[i], {"DTB"}, "single")]
  ELSE IF BoardCpus # <<>>
    THEN [i \in DOMAIN BoardCpus |-> CpuFact(BoardCpus[i], {"BOARD"}, "single")]
  ELSE <<Graded(Boot, {"OBS"}, "observed")>>

BootListed(cpus) == \E i \in DOMAIN cpus : cpus[i].value = Boot

\* CPUs come from the DTB, else from the board, else the boot CPU is alone.
S4Cpu ==
  /\ at = "cpu"
  /\ LET strange == \/ \E i \in DOMAIN cand.cpu : CpuUnknown(cand.cpu[i])
                    \/ cand.cpu = <<>> /\ Len(BoardCpus) > CPU_BOUND
                    \/ ~BootListed(CpuFacts)
     IN \/ strange /\ Halt("cpu")
        \/ ~strange /\ Accept([facts EXCEPT !.cpu = CpuFacts], "timer")

Frequency ==
  IF in.freq = 0 /\ in.board.present THEN in.board.freq ELSE in.freq

S4Timer ==
  /\ at = "timer"
  /\ LET stray == cand.ppi \notin {0, ISA_PPI} IN
     \/ (stray \/ Frequency = 0) /\ Halt(IF stray THEN "mismatch" ELSE "timer")
     \/ /\ ~stray /\ Frequency # 0
        /\ Accept([facts EXCEPT !.ppi = ISA_PPI, !.freq = Frequency], "done")

Stay == at \in {"done", "halt"} /\ UNCHANGED vars

Init ==
  /\ in \in Inputs /\ node = 0
  /\ cand = [valid |-> FALSE, mem |-> <<>>, cpu |-> <<>>, gicd |-> NoRange,
             gicr |-> NoRange, uart |-> {}, psci |-> "none", ppi |-> 0]
  /\ facts = [mem |-> <<>>, dtb |-> FALSE, gicd |-> NoFact, gicr |-> NoFact,
              uart |-> NoFact, psci |-> Graded("none", {}, "none"), pwrc |-> NoRange,
              cpu |-> <<>>, ppi |-> 0, freq |-> 0]
  /\ at = "dtb" /\ why = "none"

Next == NoDtb \/ EndNode \/ EndDtb \/ S4Ram \/ S4Ctl \/ S4Cpu \/ S4Timer \/ Stay

Spec == Init /\ [][Next]_vars

-----------------------------------------------------------------------------
(* Properties *)

Affinities == 0 .. AFF - 1
Sources == {"DTB", "BOARD", "OBS"}
Grades  == {"none", "single", "corroborated", "observed"}

TypeOK ==
  /\ node \in Nat
  /\ cand.mem \in Seq(Ranges) /\ Len(cand.mem) <= MEM_FACT_MAX
  /\ cand.cpu \in Seq(Affinities) /\ Len(cand.cpu) <= CPU_BOUND
  /\ facts.cpu \in Seq([value : Affinities, source : SUBSET Sources, grade : Grades])
  /\ at \in {"dtb", "ram", "ctl", "cpu", "timer", "done", "halt"}
  /\ why \in {"none", "wrap", "dtb", "overlap", "cpu", "mismatch", "no_ram", "image", "timer"}

\* What the nodes of the DTB say, read from the input and not from the table.
DtbNodes(kind) ==
  IF in.dtb = {} THEN {}
  ELSE {Nodes[i] : i \in {j \in DOMAIN Nodes : kind \in Nodes[j].kinds}}
DtbCpus == {Affinity(n.regs[1].base) : n \in {m \in DtbNodes("cpu") : m.regs # <<>>}}
DtbRanges(kind) == UNION {{n.regs[i] : i \in DOMAIN n.regs} : n \in DtbNodes(kind)}

\* A witness of a value, or of nothing.
Says(source, value, dtb, board, seen) ==
  /\ ("DTB" \in source) => value \in dtb
  /\ ("BOARD" \in source) => value \in board
  /\ ("OBS" \in source) => value \in seen

GradeOf(source) ==
  IF source = {"OBS"} THEN "observed"
  ELSE IF Cardinality(source) = 1 THEN "single" ELSE "corroborated"

Known(f, dtb, board, seen) ==
  /\ f.source # {} /\ Says(f.source, f.value, dtb, board, seen)
  /\ f.grade = GradeOf(f.source)

\* Every accepted fact carries the sources that said it, each of which did, and
\* the grade that their number makes (facts.c:29-61, 80-105, 153-217;
\* invariant 24). The sources are read from the machine itself.
GradesHonest ==
  at = "done" =>
    /\ \A i \in DOMAIN facts.mem :
         Known(facts.mem[i], DtbRanges("memory"), {BoardRam[j] : j \in DOMAIN BoardRam}, {})
    /\ \A i \in DOMAIN facts.cpu :
         Known(facts.cpu[i], DtbCpus, {BoardCpus[j] : j \in DOMAIN BoardCpus}, {Boot})
    /\ Known(facts.gicd, DtbRanges("gic"), {BoardHas(in.board.gicd)}, {})
    /\ Known(facts.gicr, DtbRanges("gic"), {BoardHas(in.board.gicr)}, {})
    /\ facts.uart # NoFact =>
         Known(facts.uart, DtbRanges("uart"), {BoardHas(in.board.uart)}, {})

\* Where the board speaks of RAM, of a controller, of the console, of the method or
\* of CPUs, what is accepted is what it says: a DTB that says otherwise halts the
\* boot (facts.c:84-96, 114-138, 160-172; invariant 16). Nothing of the kind holds of
\* the frequency, see BoardFrequencyAgrees; the DTB and the boot CPU are heard in
\* GradesHonest and LoadBearing.
BoardAgrees ==
  at = "done" /\ in.board.present =>
    /\ \A i \in DOMAIN facts.mem \cap DOMAIN in.board.ram :
         facts.mem[i].value = in.board.ram[i]
    /\ in.board.gicd.size # 0 => facts.gicd.value = in.board.gicd
    /\ in.board.gicr.size # 0 => facts.gicr.value = in.board.gicr
    /\ in.board.uart.size # 0 => facts.uart.value = in.board.uart
    /\ in.board.psci # "none" => facts.psci.value = in.board.psci
    /\ in.board.cpu # <<>> =>
         \A i \in DOMAIN facts.cpu : InSeq(facts.cpu[i].value, BoardCpus)

\* A boot that goes on has every load-bearing fact: RAM that holds the image, the
\* boot CPU among distinct CPUs, a controller, and a timer that runs
\* (facts.c:103-107, 218-239; rule M3, invariants 6 and 10).
LoadBearing ==
  at = "done" =>
    /\ RangeContains(facts.mem[1].value.base, facts.mem[1].value.size,
                     in.image.base, in.image.size)
    /\ \E i \in DOMAIN facts.cpu : facts.cpu[i].value = Boot
    /\ \A i, j \in DOMAIN facts.cpu : facts.cpu[i].value = facts.cpu[j].value => i = j
    /\ facts.gicd.value.size # 0 /\ facts.gicr.value.size # 0
    /\ facts.freq # 0 /\ facts.ppi = ISA_PPI

\* The comment of facts.c:228-229: a DTB whose timer node names another
\* interrupt than the EL1 physical timer's is a mismatch.
StrayTimerMismatches ==
  at = "done" => \A n \in DtbNodes("timer") : n.ppi = ISA_PPI

\* genesis v2.md:320, S4: a fact is accepted only when "agreed where two sources
\* speak", of the frequency that the board and CNTFRQ both give (facts.c:234-236).
BoardFrequencyAgrees ==
  at = "done" /\ in.board.present /\ in.board.freq # 0 => facts.freq = in.board.freq

\* The header of board/soc/facts.c:6: a boot with the board that has no facts
\* fails closed at facts.
AbsentBoardFailsClosed ==
  at = "done" => in.board.present
==============================================================================
