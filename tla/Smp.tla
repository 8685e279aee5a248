--------------------------------- MODULE Smp ---------------------------------
(***************************************************************************)
(* Bringing the secondaries up (S12, foundation/cpu/smp.c) and proving the  *)
(* inter-processor interrupt (S13, foundation/signal/signal.c), up to the   *)
(* freeze (S14, foundation/observe/freeze.c).                               *)
(*                                                                         *)
(* CPU 0 walks S12 and S13 by itself; each secondary runs the entry code    *)
(* and then its wait loop; the interrupt handler may run on any CPU whose   *)
(* interrupts are open, between any two of its steps.  They share the CPU   *)
(* records, the gate, and the echo word.                                    *)
(***************************************************************************)
EXTENDS Integers, FiniteSets

CONSTANTS
  N,          \* nxu_cpu_present_count
  Cluster,    \* Aff2 of each CPU
  Aff3        \* Aff3 of each CPU

Cpus        == 0 .. N - 1
Secondaries == 1 .. N - 1

ASSUME SmpAssumption ==
  /\ N \in Nat /\ N >= 1 /\ N <= 8
  /\ Cluster \in [Cpus -> Nat] /\ Aff3 \in [Cpus -> Nat]

None == -1

VARIABLES
  conduit,    \* how a secondary is released: "gate", "psci", or "none" at all
  patient,    \* do the bounded waits last as long as it takes? (2 s in S12, a
              \* million spins in S13, ten thousand for a redistributor to wake)
  pc,         \* where each CPU stands
  at,         \* the CPU that CPU 0 brings up (S12) or signals (S13)
  state,      \* nxu_cpu[c].state
  life,       \* nxu_cpu[c].ctx.life
  ready,      \* has the CPU its MMU, its vectors and its CPU interface?
  heard,      \* GICR_ISENABLER0 of the CPU's own frame: is NXU_SGI_IPI let in?
  open,       \* are interrupts unmasked?
  gate,       \* nxu_cpu_gate[c]: the key of the CPU it lets through, if ready
  bound,      \* nxu_sig_ipi.enabled
  pend,       \* is NXU_SGI_IPI pending at the CPU?
  seen,       \* nxu_cpu[c].ipi_seen
  sent,       \* history: SGIs generated for the CPU since S13 began
  before,     \* ipi_to's snapshot of the target's ipi_seen
  before0,    \* the echo request's snapshot of CPU 0's ipi_seen
  echo,       \* nxu_ipi_echo (0 for no request)
  asked,      \* the CPU CPU 0 waits for an answer from, or None
  why         \* the nxu_fail that stopped a CPU

machine == <<conduit, patient>>
wait0 == <<at, before, before0, asked>>
setup == <<ready, heard>>
cpus  == <<state, life, setup>>
irqs  == <<open, bound, pend, seen, sent>>
vars == <<machine, pc, why, gate, echo, wait0, cpus, irqs>>

\* nxu_cpu[c].mpidr as the C code keeps it, and as the reset code composes it
\* from MPIDR_EL1 before it searches the gate: bytes 4, 3 and the rest.
Mpidr(c)      == <<Aff3[c], 0, c>>
SearchKeyRaw(c) == <<Aff3[c], 128, c>>
SearchKey(c)  == <<0, Aff3[c], c>>
NoKey == <<0, 0, 0>>

Boot0 == {"s12", "next", "release", "await", "s13", "snap", "sgi", "spin", "ask", "answer",
          "s14", "done"}
Entry == {"off", "reset", "enter", "frame", "init", "waiting", "online", "loop", "asleep",
          "read", "clear", "reply", "reboot"}

TypeOK ==
  /\ conduit \in {"gate", "psci", "none"} /\ patient \in BOOLEAN
  /\ pc \in [Cpus -> Boot0 \cup Entry \cup {"halted"}]
  /\ at \in Cpus
  /\ state \in [Cpus -> {"AVAILABLE", "STARTING", "ONLINE"}]
  /\ life \in [Cpus -> {"ARMED", "RUNNING", "WAITING"}]
  /\ ready \in [Cpus -> BOOLEAN] /\ heard \in [Cpus -> BOOLEAN] /\ open \in [Cpus -> BOOLEAN]
  /\ gate \in [Cpus -> [key : {Mpidr(c) : c \in Cpus} \cup {NoKey}, ready : BOOLEAN]]
  /\ bound \in BOOLEAN
  /\ pend \in [Cpus -> BOOLEAN]
  /\ seen \in [Cpus -> Nat] /\ sent \in [Cpus -> Nat]
  /\ before \in Nat /\ before0 \in Nat
  /\ echo \in Cpus
  /\ asked \in Cpus \cup {None}
  /\ why \in [Cpus -> {"none", "timeout", "psci", "unbound", "invariant"}]

\* What S9 and S11 leave: every CPU available, no interrupt open, and the SGI
\* of the boot CPU not enabled. The conduit is a fact of S4; patience is chosen to
\* ask what would come if no bound ran out.
Init ==
  /\ conduit \in {"gate", "psci", "none"} /\ patient \in BOOLEAN
  /\ pc = [c \in Cpus |-> IF c = 0 THEN "s12" ELSE "off"]
  /\ at = 0
  /\ state = [c \in Cpus |-> "AVAILABLE"]
  /\ life = [c \in Cpus |-> IF c = 0 THEN "RUNNING" ELSE "ARMED"]
  /\ ready = [c \in Cpus |-> c = 0] /\ heard = [c \in Cpus |-> FALSE]
  /\ open = [c \in Cpus |-> FALSE]
  /\ gate = [c \in Cpus |-> [key |-> NoKey, ready |-> FALSE]]
  /\ bound = FALSE
  /\ pend = [c \in Cpus |-> FALSE]
  /\ seen = [c \in Cpus |-> 0]
  /\ sent = [c \in Cpus |-> 0]
  /\ before = 0 /\ before0 = 0
  /\ echo = 0
  /\ asked = None
  /\ why = [c \in Cpus |-> "none"]

-----------------------------------------------------------------------------
Goto(c, label) == pc' = [pc EXCEPT ![c] = label]

\* nxu_fail on one CPU stops that CPU; nobody tells the others.
Fail(c, code) ==
  /\ pc' = [pc EXCEPT ![c] = "halted"]
  /\ open' = [open EXCEPT ![c] = FALSE]
  /\ why' = [why EXCEPT ![c] = code]

\* ICC_SGI1R: one pending bit per target, however many writers.
Raise(c) ==
  /\ pend' = [pend EXCEPT ![c] = TRUE]
  /\ sent' = [sent EXCEPT ![c] = @ + 1]

-----------------------------------------------------------------------------
(* S12 on CPU 0.                                                             *)

\* nxu_s12_smp, to the head of its loop.
S12 ==
  /\ pc[0] = "s12"
  /\ IF conduit = "none"
     THEN Fail(0, "psci") /\ UNCHANGED state
     ELSE /\ state' = [state EXCEPT ![0] = "ONLINE"]
          /\ Goto(0, "next") /\ UNCHANGED <<open, why>>
  /\ UNCHANGED <<machine, gate, echo, wait0, life, setup, bound, pend, seen, sent>>

\* The next secondary is marked before it is released, or all are online.
OneTooMany == at + 1 <= N
OneMore == at + 1 < N
S12Next ==
  /\ pc[0] = "next"
  /\ IF OneMore
     THEN /\ at' = at + 1
          /\ state' = [state EXCEPT ![at + 1] = "STARTING"]
          /\ Goto(0, "release")
     ELSE at' = 0 /\ Goto(0, "s13") /\ UNCHANGED state
  /\ UNCHANGED <<machine, why, gate, echo, before, before0, asked, life, setup, irqs>>

\* release through the gate: the record first, then the power-on write.
ReleaseGate ==
  /\ pc[0] = "release" /\ conduit = "gate"
  /\ gate' = [gate EXCEPT ![at] = [key |-> Mpidr(at), ready |-> TRUE]]
  /\ pc' = [pc EXCEPT ![0] = "await", ![at] = "reset"]
  /\ UNCHANGED <<machine, why, echo, wait0, cpus, irqs>>

\* release through PSCI: the firmware starts the CPU at nxu_secondary_entry.
ReleasePsci ==
  /\ pc[0] = "release" /\ conduit = "psci"
  /\ pc' = [pc EXCEPT ![0] = "await", ![at] = "enter"]
  /\ UNCHANGED <<machine, why, gate, echo, wait0, cpus, irqs>>

\* ... or refuses.
ReleaseRefused ==
  /\ pc[0] = "release" /\ conduit = "psci"
  /\ Fail(0, "psci")
  /\ UNCHANGED <<machine, gate, echo, wait0, cpus, bound, pend, seen, sent>>

\* Being released is not being online: the loop waits for the CPU's own word.
AwaitReleased ==
  /\ pc[0] = "await"
  /\ Goto(0, "next")
  /\ UNCHANGED <<machine, why, gate, echo, wait0, cpus, irqs>>
AwaitMarking ==
  /\ pc[0] = "await"
  /\ state' = [state EXCEPT ![at] = "STARTING"]
  /\ Goto(0, "next")
  /\ UNCHANGED <<machine, why, gate, echo, wait0, life, setup, irqs>>
AwaitOnline ==
  /\ pc[0] = "await" /\ state[at] = "ONLINE"
  /\ Goto(0, "next")
  /\ UNCHANGED <<machine, why, gate, echo, wait0, cpus, irqs>>

-----------------------------------------------------------------------------
(* A secondary.                                                              *)

\* nxu_entry after a power-on reset: the first gate with this CPU's key is its own,
\* without one the CPU takes the boot path.
FindGate(c) ==
  /\ pc[c] = "reset"
  /\ Goto(c, IF \E s \in Cpus : gate[s].ready /\ gate[s].key = SearchKey(c)
             THEN "enter" ELSE "reboot")
  /\ UNCHANGED <<machine, why, gate, echo, wait0, cpus, irqs>>

\* nxu_secondary: MMU, vectors, CPU interface, and its own frame asked to wake.
Occupy(c) ==
  /\ pc[c] = "enter"
  /\ ready' = [ready EXCEPT ![c] = TRUE]
  /\ Goto(c, "frame")
  /\ UNCHANGED <<machine, why, gate, echo, wait0, state, life, heard, irqs>>

\* The frame wakes in time and keeps what it is told of the SGI ...
FrameWakes(c) ==
  /\ pc[c] = "frame"
  /\ heard' = [heard EXCEPT ![c] = TRUE]
  /\ Goto(c, "init")
  /\ UNCHANGED <<machine, why, gate, echo, wait0, state, life, ready, irqs>>

\* ... or nxu_gicr_wake returns without it, nobody looks at which it was, and
\* a sleeping frame drops the enable.
FrameSleeps(c) ==
  /\ pc[c] = "frame" /\ ~patient
  /\ Goto(c, "init")
  /\ UNCHANGED <<machine, why, gate, echo, wait0, cpus, irqs>>

\* The context first, then the state CPU 0 waits for.
SetWaitingLate(c) ==
  /\ pc[c] = "init"
  /\ state' = [state EXCEPT ![c] = "ONLINE"]
  /\ Goto(c, "waiting")
  /\ UNCHANGED <<machine, why, gate, echo, wait0, life, setup, irqs>>
SetWaiting(c) ==
  /\ pc[c] = "init"
  /\ life' = [life EXCEPT ![c] = "WAITING"]
  /\ Goto(c, "waiting")
  /\ UNCHANGED <<machine, why, gate, echo, wait0, state, setup, irqs>>

SetOnline(c) ==
  /\ pc[c] = "waiting"
  /\ state' = [state EXCEPT ![c] = "ONLINE"]
  /\ Goto(c, "online")
  /\ UNCHANGED <<machine, why, gate, echo, wait0, life, setup, irqs>>

Unmask(c) ==
  /\ pc[c] = "online"
  /\ open' = [open EXCEPT ![c] = TRUE]
  /\ Goto(c, "loop")
  /\ UNCHANGED <<machine, why, gate, echo, wait0, cpus, bound, pend, seen, sent>>

\* The wait loop.  wfi sleeps until an interrupt is pending; one that was taken
\* just before it is gone.  It may also end for no reason, or on a spurious
\* interrupt (nxu_irq_c returns), but nothing promises that it will.
Wfi(c) ==
  /\ pc[c] = "loop"
  /\ Goto(c, "asleep")
  /\ UNCHANGED <<machine, why, gate, echo, wait0, cpus, irqs>>

Wake(c) ==
  /\ pc[c] = "asleep"
  /\ Goto(c, "read")
  /\ UNCHANGED <<machine, why, gate, echo, wait0, cpus, irqs>>

ReadEcho(c) ==
  /\ pc[c] = "read"
  /\ Goto(c, IF echo = c /\ seen[c] # 0 THEN "clear" ELSE "loop")
  /\ UNCHANGED <<machine, why, gate, echo, wait0, cpus, irqs>>

\* The answer, in two steps: the request is withdrawn, then CPU 0 is signalled.
AnswerSwapped(first) ==
  IF first THEN Raise(0) /\ UNCHANGED echo ELSE echo' = 0 /\ UNCHANGED <<pend, sent>>
Answer(first) ==
  IF first THEN echo' = 0 /\ UNCHANGED <<pend, sent>> ELSE Raise(0) /\ UNCHANGED echo

ClearEcho(c) ==
  /\ pc[c] = "clear"
  /\ Answer(TRUE)
  /\ Goto(c, "reply")
  /\ UNCHANGED <<machine, why, gate, wait0, cpus, open, bound, seen>>

Reply(c) ==
  /\ pc[c] = "reply"
  /\ Answer(FALSE)
  /\ Goto(c, "loop")
  /\ UNCHANGED <<machine, why, gate, wait0, cpus, open, bound, seen>>

\* nxu_irq_c and nxu_irq_dispatch: the SGI is counted, or nobody owns it. One that
\* the frame does not let in stays pending.
Irq(c) ==
  /\ open[c] /\ pend[c] /\ heard[c]
  /\ pend' = [pend EXCEPT ![c] = FALSE]
  /\ IF bound
     THEN /\ seen' = [seen EXCEPT ![c] = @ + 1]
          /\ pc' = [pc EXCEPT ![c] = IF @ = "asleep" THEN "read" ELSE @]
          /\ UNCHANGED <<open, why>>
     ELSE Fail(c, "unbound") /\ UNCHANGED seen
  /\ UNCHANGED <<machine, gate, echo, wait0, cpus, bound, sent>>

-----------------------------------------------------------------------------
(* S13 on CPU 0: itself, every secondary, then one answer from the first     *)
(* secondary and one from the first CPU of another cluster.                  *)

First == 1
Foreign == {c \in Secondaries : Cluster[c] # Cluster[0]}
IsCross(c) == c \in Foreign /\ \A d \in Foreign : c <= d

\* nxu_s13_ipi, to its own IPI.  The signal has an owner before the SGI can come,
\* and the boot CPU's frame is awake since S11 (Boot).
BindLate == UNCHANGED bound
Bind == bound' = TRUE
S13 ==
  /\ pc[0] = "s13"
  /\ Bind
  /\ heard' = [heard EXCEPT ![0] = TRUE]
  /\ open' = [open EXCEPT ![0] = TRUE]
  /\ seen' = [seen EXCEPT ![0] = 0]
  /\ Goto(0, "snap")
  /\ UNCHANGED <<machine, why, gate, echo, wait0, state, life, ready, pend, sent>>

\* ipi_to: the snapshot, the SGI, the wait.
Snap ==
  /\ pc[0] = "snap"
  /\ before' = seen[at]
  /\ Goto(0, "sgi")
  /\ UNCHANGED <<machine, why, gate, echo, at, before0, asked, cpus, irqs>>

Sgi ==
  /\ pc[0] = "sgi"
  /\ Raise(at)
  /\ Goto(0, "spin")
  /\ UNCHANGED <<machine, why, gate, echo, wait0, cpus, open, bound, seen>>

ArrivedUnchecked == seen[at] >= before
Arrived == seen[at] # before
LastShort == N - 2
Last == N - 1
Spin ==
  /\ pc[0] = "spin" /\ Arrived
  /\ IF asked # None THEN Goto(0, "answer") /\ UNCHANGED at
     ELSE IF at < Last THEN Goto(0, "snap") /\ at' = at + 1
     ELSE Goto(0, "ask") /\ UNCHANGED at
  /\ UNCHANGED <<machine, why, gate, echo, before, before0, asked, cpus, irqs>>

\* An echo request: the snapshot of CPU 0's own count, the word, then ipi_to.
Ask(c) ==
  /\ pc[0] = "ask"
  /\ \/ asked = None /\ c = First
     \/ asked = First /\ IsCross(c) /\ c # First
  /\ before0' = seen[0]
  /\ echo' = c /\ asked' = c /\ at' = c
  /\ Goto(0, "snap")
  /\ UNCHANGED <<machine, why, gate, before, cpus, irqs>>

AskNobody ==
  /\ pc[0] = "ask"
  /\ \/ Secondaries = {}
     \/ asked # None /\ ~(asked = First /\ \E c \in Foreign : IsCross(c) /\ c # First)
  /\ Goto(0, "s14")
  /\ UNCHANGED <<machine, why, gate, echo, wait0, cpus, irqs>>

Answered ==
  /\ pc[0] = "answer" /\ seen[0] # before0
  /\ Goto(0, "ask")
  /\ UNCHANGED <<machine, why, gate, echo, wait0, cpus, irqs>>

\* Every wait of CPU 0 is bounded; running out stops CPU 0 alone.
RunOut ==
  /\ ~patient
  /\ \/ pc[0] = "await" /\ state[at] # "ONLINE"
     \/ pc[0] = "spin" /\ ~Arrived
     \/ pc[0] = "answer" /\ seen[0] = before0
  /\ Fail(0, "timeout")
  /\ UNCHANGED <<machine, gate, echo, wait0, cpus, bound, pend, seen, sent>>

\* nxu_s14_freeze: invariants 28 and 12 of every present CPU.
S14 ==
  /\ pc[0] = "s14"
  /\ IF \A c \in Cpus : state[c] = "ONLINE" /\ life[c] \in {"RUNNING", "WAITING"}
     THEN /\ life' = [life EXCEPT ![0] = "WAITING"]
          /\ Goto(0, "done") /\ UNCHANGED <<open, why>>
     ELSE Fail(0, "invariant") /\ UNCHANGED life
  /\ UNCHANGED <<machine, gate, echo, wait0, state, setup, bound, pend, seen, sent>>

\* One more turn of a waiting loop, or of wfi, changes nothing.
Idle == pc[0] \in {"await", "spin", "answer", "done", "halted"} /\ UNCHANGED vars

-----------------------------------------------------------------------------
BootStep ==
  \/ S12 \/ S12Next \/ ReleaseGate \/ ReleasePsci \/ ReleaseRefused \/ AwaitOnline
  \/ S13 \/ Snap \/ Sgi \/ Spin
  \/ \E c \in Secondaries : Ask(c)
  \/ AskNobody \/ Answered \/ S14

SecondaryStep(c) ==
  \/ FindGate(c) \/ Occupy(c) \/ FrameWakes(c) \/ SetWaiting(c) \/ SetOnline(c) \/ Unmask(c)
  \/ Wfi(c) \/ ReadEcho(c) \/ ClearEcho(c) \/ Reply(c)

Next ==
  \/ BootStep
  \/ RunOut
  \/ \E c \in Secondaries : SecondaryStep(c) \/ FrameSleeps(c) \/ Wake(c)
  \/ \E c \in Cpus : Irq(c)
  \/ Idle

Spec == Init /\ [][Next]_vars

\* Every CPU keeps executing, and an open pending interrupt is taken.
Fairness ==
  /\ WF_vars(BootStep)
  /\ \A c \in Secondaries : WF_vars(SecondaryStep(c))
  /\ \A c \in Cpus : WF_vars(Irq(c))

FairSpec == Spec /\ Fairness

-----------------------------------------------------------------------------
(* Safety.                                                                   *)

\* Online is more than released (smp.c:8, closure invariant 18): a CPU that says
\* ONLINE has its MMU, its vectors, its CPU interface and its context, and opens its
\* interrupts no earlier; S13 signals only such CPUs. That its frame lets the
\* SGI in is not part of the word (smp.c:61-63): S13 finds out, see S13Proves.
OnlineReady ==
  /\ \A c \in Secondaries : state[c] = "ONLINE" => ready[c] /\ life[c] = "WAITING"
  /\ \A c \in Secondaries : open[c] => state[c] = "ONLINE"
  /\ pc[0] \in {"s13", "snap", "sgi", "spin", "ask", "answer", "s14", "done"} =>
       \A c \in Cpus : state[c] = "ONLINE"

\* No CPU ever takes an SGI nobody owns (signal.c:63), whenever it opens.
NoUnbound == \A c \in Cpus : why[c] # "unbound"

\* One request at a time, and the CPU that withdraws a request withdraws its own:
\* a slow answer to the first request never wipes the second (smp.c:77,
\* signal.c:231).
EchoExclusive ==
  /\ pc[0] \in {"ask", "s14", "done"} => echo = 0
  /\ \A c \in Secondaries : pc[c] = "clear" => echo = c

\* The single pending bit of the SGI never merges two: what S13 counts is what
\* was sent, so a snapshot can tell a new arrival from an old one.
EverySgiCounted == \A c \in Cpus : sent[c] = seen[c] + (IF pend[c] THEN 1 ELSE 0)

\* What S13 proves when it returns: every CPU took exactly the SGIs meant for
\* it, the first secondary and the first CPU of another cluster each answered
\* once, nothing is left under way, and every CPU's own frame lets the SGI in, whether
\* its wake ran out of its bound or not.
Asked == {First} \cup {c \in Secondaries : IsCross(c)}
S13Proves ==
  pc[0] \in {"s14", "done"} =>
    /\ \A c \in Secondaries : seen[c] = (IF c \in Asked THEN 2 ELSE 1)
    /\ seen[0] = 1 + Cardinality(Asked \cap Secondaries)
    /\ \A c \in Cpus : ~pend[c] /\ heard[c]

\* ONLINE is final: no late store of CPU 0 takes back what a secondary said, even
\* when CPU 0 has given up waiting.
OnlineStays ==
  [][\A c \in Cpus : state[c] = "ONLINE" => state'[c] = "ONLINE"]_vars

\* GENESIS_V2_CLOSURE.md:50, load-bearing facts: the enable-method is one "if
\* present count > 1", so a machine of one CPU does not halt for want of it.
OneCpuNeedsNoMethod == N = 1 => why[0] # "psci"

\* gicv3.c:180-182, of the wake: "this must succeed before any ISENABLER programming
\* is trusted". A CPU that says ONLINE trusts it.
OnlineIsHeard == \A c \in Secondaries : state[c] = "ONLINE" => heard[c]

-----------------------------------------------------------------------------
(* Liveness, for waits that do not run out.                                  *)

\* S12 ends, every secondary takes its SGI, and the first request for an answer
\* is sent and taken: with patience the boot reaches the wait for the answer,
\* unless PSCI refuses a CPU. A released CPU that found no record in the gate
\* would end this (smp.c:104-140, signal.c:150-215).
ReachesAnswer ==
  patient /\ conduit # "none" => <>(pc[0] = "answer" \/ why[0] = "psci")

\* A requested answer comes (signal.c:217-222).
EchoAnswered == (patient /\ pc[0] = "answer") ~> (pc[0] # "answer")
=============================================================================
