------------------------------ MODULE SmpProofs ------------------------------
(***************************************************************************)
(* Smp.tla for any number of CPUs, any clusters, any affinities: a CPU is   *)
(* ONLINE only when it is ready, no SGI is lost, merged or unowned, and an  *)
(* answer is never given twice.                                             *)
(***************************************************************************)
EXTENDS Smp, FiniteSetTheorems, TLAPS

S12Labels == {"s12", "next", "release", "await"}
S13Labels == {"snap", "sgi", "spin", "ask", "answer", "s14", "done"}
Up        == {"online", "loop", "asleep", "read", "clear", "reply"}

\* Where a CPU stands, and what it has by then. No secondary ever halts.
PlaceInv ==
  /\ pc[0] \in Boot0 \cup {"halted"}
  /\ \A c \in Secondaries :
       /\ pc[c] \in Entry /\ why[c] = "none"
       /\ state[c] = "ONLINE" <=> pc[c] \in Up
       /\ pc[c] \in {"frame", "init", "waiting"} \cup Up => ready[c]
       /\ pc[c] \in {"waiting"} \cup Up => life[c] = "WAITING"
       /\ open[c] => pc[c] \in Up

\* S12 takes the secondaries one after the other: those behind it are online,
\* those before it are off.
OrderInv ==
  /\ pc[0] \in {"s12", "release"} => \A c \in Secondaries : at <= c => pc[c] = "off"
  /\ pc[0] = "s12" => at = 0
  /\ pc[0] \in S12Labels => \A c \in Secondaries : at < c => pc[c] = "off"
  /\ pc[0] = "next" => \A c \in Cpus : c <= at => state[c] = "ONLINE"
  /\ pc[0] \in {"release", "await"} =>
       at \in Secondaries /\ \A c \in Cpus : c < at => state[c] = "ONLINE"
  /\ pc[0] \in {"s13"} \cup S13Labels => \A c \in Cpus : state[c] = "ONLINE"

\* Before the signal is bound there is none.
QuietInv ==
  /\ pc[0] \in S12Labels \cup {"s13"} => ~bound
  /\ pc[0] = "s13" => at = 0
  /\ pc[0] \in S13Labels => bound
  /\ why[0] # "unbound"
  /\ ~bound => /\ asked = None /\ echo = 0
               /\ \A c \in Cpus : seen[c] = 0 /\ sent[c] = 0 /\ ~pend[c]

\* The answer is in one place at a time: requested, withdrawn, sent, or taken.
EchoInv ==
  /\ asked # None => asked \in Secondaries /\ at = asked
  /\ echo # 0 =>
       /\ asked = echo /\ seen[0] = before0
       /\ pc[0] \in {"snap", "sgi", "spin", "answer", "halted"}
  /\ \A c \in Secondaries :
       /\ pc[c] = "clear" => echo = c
       /\ pc[c] = "reply" =>
            /\ asked = c /\ echo = 0 /\ seen[0] = before0
            /\ pc[0] \in {"snap", "sgi", "spin", "answer", "halted"}

\* A pending SGI is the one CPU 0 waits for, or the answer on its way.
SentByBoot(c) == pc[0] \in {"spin", "halted"} /\ at = c /\ seen[c] = before
SentAsAnswer(c) ==
  /\ c = 0 /\ asked # None /\ echo = 0 /\ seen[0] = before0
  /\ pc[0] \in {"snap", "sgi", "spin", "answer", "halted"}
  /\ \A d \in Secondaries : pc[d] # "reply"
PendInv ==
  /\ \A c \in Cpus : pend[c] => SentByBoot(c) \/ SentAsAnswer(c)
  /\ pc[0] = "sgi" => seen[at] = before

\* Only a frame that lets the SGI in has had one counted.
HeardInv == \A c \in Cpus : seen[c] # 0 => heard[c]

IInv ==
  /\ TypeOK /\ PlaceInv /\ OrderInv /\ QuietInv /\ EchoInv /\ PendInv
  /\ EverySgiCounted /\ HeardInv

\* CPU 0 is a CPU, and the others are the secondaries.
LEMMA CpuFacts ==
  /\ 0 \in Cpus /\ 0 \notin Secondaries /\ Cpus = Secondaries \cup {0}
  /\ None \notin Cpus
  BY SmpAssumption DEF SmpAssumption, Cpus, Secondaries, None

\* CPU 0 comes before the others.
LEMMA Behind0 == \A c \in Secondaries : 0 < c /\ ~(c <= 0) /\ ~(c < 0)
  BY SmpAssumption DEF SmpAssumption, Secondaries

\* The CPUs in the order in which S12 and S13 take them.
LEMMA NextCpu ==
  ASSUME NEW i \in Cpus
  PROVE  /\ \A c \in Secondaries : i < c => c # i /\ ~(c <= i)
         /\ \A c \in Cpus : c < i => c # i
         /\ \A c \in Cpus : c <= i <=> c < i \/ c = i
         /\ i < Last => /\ i + 1 \in Secondaries
                       /\ \A c \in Cpus : c < i + 1 <=> c < i \/ c = i
         /\ ~(i < i)
         /\ (i + 1 < N) => /\ i + 1 \in Secondaries
                           /\ \A c \in Cpus : i + 1 <= c <=> i < c
                           /\ \A c \in Cpus : c < i + 1 <=> c <= i
                           /\ \A c \in Cpus : i + 1 < c => i < c
         /\ ~(i + 1 < N) => \A c \in Cpus : c <= i
  BY SmpAssumption DEF SmpAssumption, Cpus, Secondaries, Last

\* A halt, whatever its code, keeps the three types it touches.
LEMMA FailType ==
  ASSUME TypeOK, NEW c \in Cpus, NEW code \in {"timeout", "psci", "unbound",
       "invariant"}, Fail(c, code)
  PROVE  /\ pc' \in [Cpus -> Boot0 \cup Entry \cup {"halted"}]
         /\ open' \in [Cpus -> BOOLEAN]
         /\ why' \in [Cpus -> {"none", "timeout", "psci", "unbound", "invariant"}]
<1>1. open' \in [Cpus -> BOOLEAN]
  BY DEF Fail, TypeOK
<1> QED
  BY <1>1 DEF Fail, TypeOK

\* Every step keeps every variable in its type.
LEMMA TypeStep == TypeOK /\ [Next]_vars => TypeOK'
<1> SUFFICES ASSUME TypeOK, [Next]_vars PROVE TypeOK'
  OBVIOUS
<1> USE CpuFacts DEF TypeOK, Boot0, Entry, machine, wait0, cpus, setup, irqs
<1>1. CASE S12
  <2>1. CASE conduit = "none"
    BY <1>1, <2>1, FailType DEF S12
  <2>2. CASE conduit # "none"
    BY <1>1, <2>2 DEF S12, Goto
  <2> QED
    BY <2>1, <2>2
<1>2. CASE S12Next
  <2>1. CASE OneMore
    BY <1>2, <2>1, NextCpu DEF S12Next, OneMore, Goto
  <2>2. CASE ~OneMore
    BY <1>2, <2>2 DEF S12Next, OneMore, Goto
  <2> QED
    BY <2>1, <2>2
<1>3. CASE ReleaseGate
  BY <1>3 DEF ReleaseGate, Mpidr
<1>4. CASE ReleasePsci
  BY <1>4 DEF ReleasePsci
<1>5. CASE ReleaseRefused
  BY <1>5 DEF ReleaseRefused, Fail
<1>6. CASE AwaitOnline
  BY <1>6 DEF AwaitOnline, Goto
<1>7. CASE S13
  BY <1>7 DEF S13, Bind, Goto
<1>8. CASE Snap
  BY <1>8 DEF Snap, Goto
<1>9. CASE Sgi
  BY <1>9 DEF Sgi, Raise, Goto
<1>10. CASE Spin
  <2>1. CASE asked # None
    BY <1>10, <2>1 DEF Spin, Arrived, Goto
  <2>2. CASE asked = None /\ at < Last
    BY <1>10, <2>2, NextCpu DEF Spin, Arrived, Goto
  <2>3. CASE asked = None /\ ~(at < Last)
    BY <1>10, <2>3 DEF Spin, Arrived, Goto
  <2> QED
    BY <2>1, <2>2, <2>3
<1>11. ASSUME NEW c \in Secondaries, Ask(c) PROVE TypeOK'
  BY <1>11 DEF Ask, First, IsCross, Foreign, Goto
<1>12. CASE AskNobody
  BY <1>12 DEF AskNobody, Goto
<1>13. CASE Answered
  BY <1>13 DEF Answered, Goto
<1>14. CASE S14
  <2>1. CASE Fail(0, "invariant") /\ UNCHANGED life
    BY <1>14, <2>1, FailType DEF S14
  <2>2. CASE life' = [life EXCEPT ![0] = "WAITING"] /\ Goto(0, "done") /\ UNCHANGED
       <<open, why>>
    BY <1>14, <2>2 DEF S14, Goto
  <2> QED
    BY <1>14, <2>1, <2>2 DEF S14
<1>15. CASE RunOut
  BY <1>15 DEF RunOut, Fail, Arrived
<1>16. ASSUME NEW c \in Secondaries, FindGate(c) PROVE TypeOK'
  BY <1>16 DEF FindGate, Goto
<1>17. ASSUME NEW c \in Secondaries, Occupy(c) PROVE TypeOK'
  BY <1>17 DEF Occupy, Goto
<1>18. ASSUME NEW c \in Secondaries, SetWaiting(c) PROVE TypeOK'
  BY <1>18 DEF SetWaiting, Goto
<1>19. ASSUME NEW c \in Secondaries, SetOnline(c) PROVE TypeOK'
  BY <1>19 DEF SetOnline, Goto
<1>20. ASSUME NEW c \in Secondaries, Unmask(c) PROVE TypeOK'
  BY <1>20 DEF Unmask, Goto
<1>21. ASSUME NEW c \in Secondaries, Wfi(c) PROVE TypeOK'
  BY <1>21 DEF Wfi, Goto
<1>22. ASSUME NEW c \in Secondaries, ReadEcho(c) PROVE TypeOK'
  BY <1>22 DEF ReadEcho, Goto
<1>23. ASSUME NEW c \in Secondaries, ClearEcho(c) PROVE TypeOK'
  BY <1>23 DEF ClearEcho, Answer, Goto
<1>24. ASSUME NEW c \in Secondaries, Reply(c) PROVE TypeOK'
  <2>1. Raise(0)
    BY <1>24, Zenon DEF Reply, Answer
  <2>2. pend' \in [Cpus -> BOOLEAN]
    BY <2>1 DEF Raise
  <2>3. sent' \in [Cpus -> Nat]
    BY <2>1 DEF Raise
  <2> QED
    BY <1>24, <2>2, <2>3 DEF Reply, Answer, Goto
<1>25. ASSUME NEW c \in Secondaries, Wake(c) PROVE TypeOK'
  BY <1>25 DEF Wake, Goto
<1>26. ASSUME NEW c \in Cpus, Irq(c) PROVE TypeOK'
  <2>1. CASE bound
    BY <1>26, <2>1 DEF Irq
  <2>2. CASE ~bound
    BY <1>26, <2>2, FailType DEF Irq
  <2> QED
    BY <2>1, <2>2
<1>27. CASE Idle \/ UNCHANGED vars
  BY <1>27 DEF Idle, vars
<1>28. ASSUME NEW c \in Secondaries, FrameWakes(c) PROVE TypeOK'
  BY <1>28 DEF FrameWakes, Goto
<1>29. ASSUME NEW c \in Secondaries, FrameSleeps(c) PROVE TypeOK'
  BY <1>29 DEF FrameSleeps, Goto
<1> QED
  BY <1>1, <1>2, <1>3, <1>4, <1>5, <1>6, <1>7, <1>8, <1>9, <1>10, <1>11, <1>12, <1>13,
       <1>14, <1>15, <1>16, <1>17, <1>18, <1>19, <1>20, <1>21, <1>22, <1>23, <1>24,
       <1>25, <1>26, <1>27, <1>28, <1>29 DEF Next, BootStep, SecondaryStep

\* Every step leaves each CPU what its place promises.
LEMMA PlaceStep == IInv /\ [Next]_vars => PlaceInv'
<1> SUFFICES ASSUME IInv, [Next]_vars PROVE PlaceInv'
  OBVIOUS
<1> USE CpuFacts DEF IInv, PlaceInv, TypeOK, Up, Boot0, Entry, machine, wait0, cpus, setup,
     irqs
<1>1. CASE S12
  BY <1>1 DEF S12, Goto, Fail
<1>2. CASE S12Next
  <2>1. CASE OneMore
    BY <1>2, <2>1, NextCpu DEF S12Next, OneMore, Goto, OrderInv, S12Labels
  <2>2. CASE ~OneMore
    BY <1>2, <2>2 DEF S12Next, OneMore, Goto, OrderInv, S12Labels
  <2> QED
    BY <2>1, <2>2
<1>3. CASE ReleaseGate
  <2>1. pc' = [pc EXCEPT ![0] = "await", ![at] = "reset"]
    BY <1>3 DEF ReleaseGate
  <2>2. at \in Secondaries /\ pc[at] = "off"
    BY <1>3, NextCpu DEF ReleaseGate, OrderInv
  <2>3. UNCHANGED <<why, state, life, ready, open>>
    BY <1>3 DEF ReleaseGate
  <2> QED
    BY <2>1, <2>2, <2>3
<1>4. CASE ReleasePsci
  <2>1. pc' = [pc EXCEPT ![0] = "await", ![at] = "enter"]
    BY <1>4 DEF ReleasePsci
  <2>2. at \in Secondaries /\ pc[at] = "off"
    BY <1>4, NextCpu DEF ReleasePsci, OrderInv
  <2>3. UNCHANGED <<why, state, life, ready, open>>
    BY <1>4 DEF ReleasePsci
  <2> QED
    BY <2>1, <2>2, <2>3
<1>5. CASE ReleaseRefused
  BY <1>5 DEF ReleaseRefused, Fail
<1>6. CASE AwaitOnline
  BY <1>6 DEF AwaitOnline, Goto
<1>7. CASE S13
  BY <1>7 DEF S13, Bind, Goto
<1>8. CASE Snap
  BY <1>8 DEF Snap, Goto
<1>9. CASE Sgi
  BY <1>9 DEF Sgi, Raise, Goto
<1>10. CASE Spin
  <2>1. CASE asked # None
    BY <1>10, <2>1 DEF Spin, Arrived, Goto
  <2>2. CASE asked = None /\ at < Last
    BY <1>10, <2>2, NextCpu DEF Spin, Arrived, Goto
  <2>3. CASE asked = None /\ ~(at < Last)
    BY <1>10, <2>3 DEF Spin, Arrived, Goto
  <2> QED
    BY <2>1, <2>2, <2>3
<1>11. ASSUME NEW c \in Secondaries, Ask(c) PROVE PlaceInv'
  BY <1>11 DEF Ask, First, IsCross, Foreign, Goto
<1>12. CASE AskNobody
  BY <1>12 DEF AskNobody, Goto
<1>13. CASE Answered
  BY <1>13 DEF Answered, Goto
<1>14. CASE S14
  BY <1>14 DEF S14, Goto, Fail
<1>15. CASE RunOut
  BY <1>15 DEF RunOut, Fail, Arrived
<1>16. ASSUME NEW c \in Secondaries, FindGate(c) PROVE PlaceInv'
  BY <1>16 DEF FindGate, Goto
<1>17. ASSUME NEW c \in Secondaries, Occupy(c) PROVE PlaceInv'
  BY <1>17 DEF Occupy, Goto
<1>18. ASSUME NEW c \in Secondaries, SetWaiting(c) PROVE PlaceInv'
  BY <1>18 DEF SetWaiting, Goto
<1>19. ASSUME NEW c \in Secondaries, SetOnline(c) PROVE PlaceInv'
  BY <1>19 DEF SetOnline, Goto
<1>20. ASSUME NEW c \in Secondaries, Unmask(c) PROVE PlaceInv'
  BY <1>20 DEF Unmask, Goto
<1>21. ASSUME NEW c \in Secondaries, Wfi(c) PROVE PlaceInv'
  BY <1>21 DEF Wfi, Goto
<1>22. ASSUME NEW c \in Secondaries, ReadEcho(c) PROVE PlaceInv'
  BY <1>22 DEF ReadEcho, Goto
<1>23. ASSUME NEW c \in Secondaries, ClearEcho(c) PROVE PlaceInv'
  BY <1>23 DEF ClearEcho, Answer, Goto
<1>24. ASSUME NEW c \in Secondaries, Reply(c) PROVE PlaceInv'
  BY <1>24 DEF Reply, Answer, Raise, Goto
<1>25. ASSUME NEW c \in Secondaries, Wake(c) PROVE PlaceInv'
  BY <1>25 DEF Wake, Goto
<1>26. ASSUME NEW c \in Cpus, Irq(c) PROVE PlaceInv'
  <2>1. CASE bound
    BY <1>26, <2>1 DEF Irq, Fail, QuietInv
  <2>2. CASE ~bound
    BY <1>26, <2>2 DEF Irq, Fail, QuietInv
  <2> QED
    BY <2>1, <2>2
<1>27. CASE Idle \/ UNCHANGED vars
  BY <1>27 DEF Idle, vars
<1>28. ASSUME NEW c \in Secondaries, FrameWakes(c) PROVE PlaceInv'
  BY <1>28 DEF FrameWakes, Goto
<1>29. ASSUME NEW c \in Secondaries, FrameSleeps(c) PROVE PlaceInv'
  BY <1>29 DEF FrameSleeps, Goto
<1> QED
  BY <1>1, <1>2, <1>3, <1>4, <1>5, <1>6, <1>7, <1>8, <1>9, <1>10, <1>11, <1>12, <1>13,
       <1>14, <1>15, <1>16, <1>17, <1>18, <1>19, <1>20, <1>21, <1>22, <1>23, <1>24,
       <1>25, <1>26, <1>27, <1>28, <1>29 DEF Next, BootStep, SecondaryStep

\* Every step keeps the order of S12.
LEMMA OrderStep == IInv /\ [Next]_vars => OrderInv'
<1> SUFFICES ASSUME IInv, [Next]_vars PROVE OrderInv'
  OBVIOUS
<1> USE CpuFacts DEF IInv, OrderInv, TypeOK, S12Labels, S13Labels, machine, wait0, cpus, setup,
     irqs
<1>1. CASE S12
  BY <1>1, Behind0 DEF S12, Goto, Fail
<1>2. CASE S12Next
  <2>1. CASE OneMore
    BY <1>2, <2>1, NextCpu DEF S12Next, OneMore, Goto
  <2>2. CASE ~OneMore
    BY <1>2, <2>2, NextCpu DEF S12Next, OneMore, Goto
  <2> QED
    BY <2>1, <2>2
<1>3. CASE ReleaseGate
  BY <1>3, NextCpu DEF ReleaseGate, Mpidr
<1>4. CASE ReleasePsci
  BY <1>4, NextCpu DEF ReleasePsci
<1>5. CASE ReleaseRefused
  BY <1>5 DEF ReleaseRefused, Fail
<1>6. CASE AwaitOnline
  BY <1>6, NextCpu DEF AwaitOnline, Goto
<1>7. CASE S13
  BY <1>7 DEF S13, Bind, Goto
<1>8. CASE Snap
  BY <1>8 DEF Snap, Goto
<1>9. CASE Sgi
  BY <1>9 DEF Sgi, Raise, Goto
<1>10. CASE Spin
  <2>1. CASE asked # None
    BY <1>10, <2>1 DEF Spin, Arrived, Goto
  <2>2. CASE asked = None /\ at < Last
    BY <1>10, <2>2, NextCpu DEF Spin, Arrived, Goto
  <2>3. CASE asked = None /\ ~(at < Last)
    BY <1>10, <2>3 DEF Spin, Arrived, Goto
  <2> QED
    BY <2>1, <2>2, <2>3
<1>11. ASSUME NEW c \in Secondaries, Ask(c) PROVE OrderInv'
  BY <1>11 DEF Ask, First, IsCross, Foreign, Goto
<1>12. CASE AskNobody
  BY <1>12 DEF AskNobody, Goto
<1>13. CASE Answered
  BY <1>13 DEF Answered, Goto
<1>14. CASE S14
  BY <1>14 DEF S14, Goto, Fail
<1>15. CASE RunOut
  BY <1>15 DEF RunOut, Fail, Arrived
<1>16. ASSUME NEW c \in Secondaries, FindGate(c) PROVE OrderInv'
  BY <1>16 DEF FindGate, Goto
<1>17. ASSUME NEW c \in Secondaries, Occupy(c) PROVE OrderInv'
  BY <1>17 DEF Occupy, Goto
<1>18. ASSUME NEW c \in Secondaries, SetWaiting(c) PROVE OrderInv'
  BY <1>18 DEF SetWaiting, Goto
<1>19. ASSUME NEW c \in Secondaries, SetOnline(c) PROVE OrderInv'
  BY <1>19 DEF SetOnline, Goto
<1>20. ASSUME NEW c \in Secondaries, Unmask(c) PROVE OrderInv'
  BY <1>20 DEF Unmask, Goto
<1>21. ASSUME NEW c \in Secondaries, Wfi(c) PROVE OrderInv'
  BY <1>21 DEF Wfi, Goto
<1>22. ASSUME NEW c \in Secondaries, ReadEcho(c) PROVE OrderInv'
  BY <1>22 DEF ReadEcho, Goto
<1>23. ASSUME NEW c \in Secondaries, ClearEcho(c) PROVE OrderInv'
  BY <1>23 DEF ClearEcho, Answer, Goto
<1>24. ASSUME NEW c \in Secondaries, Reply(c) PROVE OrderInv'
  BY <1>24 DEF Reply, Answer, Raise, Goto
<1>25. ASSUME NEW c \in Secondaries, Wake(c) PROVE OrderInv'
  BY <1>25 DEF Wake, Goto
<1>26. ASSUME NEW c \in Cpus, Irq(c) PROVE OrderInv'
  <2>1. CASE bound
    BY <1>26, <2>1 DEF Irq, Fail, PlaceInv, QuietInv, Boot0
  <2>2. CASE ~bound
    BY <1>26, <2>2 DEF Irq, Fail, PlaceInv, QuietInv, Boot0
  <2> QED
    BY <2>1, <2>2
<1>27. CASE Idle \/ UNCHANGED vars
  BY <1>27 DEF Idle, vars
<1>28. ASSUME NEW c \in Secondaries, FrameWakes(c) PROVE OrderInv'
  BY <1>28 DEF FrameWakes, Goto
<1>29. ASSUME NEW c \in Secondaries, FrameSleeps(c) PROVE OrderInv'
  BY <1>29 DEF FrameSleeps, Goto
<1> QED
  BY <1>1, <1>2, <1>3, <1>4, <1>5, <1>6, <1>7, <1>8, <1>9, <1>10, <1>11, <1>12, <1>13,
       <1>14, <1>15, <1>16, <1>17, <1>18, <1>19, <1>20, <1>21, <1>22, <1>23, <1>24,
       <1>25, <1>26, <1>27, <1>28, <1>29 DEF Next, BootStep, SecondaryStep

\* Every step keeps an unbound SGI from being sent.
LEMMA QuietStep == IInv /\ [Next]_vars => QuietInv'
<1> SUFFICES ASSUME IInv, [Next]_vars PROVE QuietInv'
  OBVIOUS
<1> USE CpuFacts DEF IInv, QuietInv, TypeOK, S12Labels, S13Labels, machine, wait0, cpus, setup,
     irqs
<1>1. CASE S12
  BY <1>1 DEF S12, Goto, Fail
<1>2. CASE S12Next
  BY <1>2 DEF S12Next, Goto, OneMore
<1>3. CASE ReleaseGate
  BY <1>3 DEF ReleaseGate, Mpidr
<1>4. CASE ReleasePsci
  BY <1>4 DEF ReleasePsci
<1>5. CASE ReleaseRefused
  BY <1>5 DEF ReleaseRefused, Fail
<1>6. CASE AwaitOnline
  BY <1>6 DEF AwaitOnline, Goto
<1>7. CASE S13
  BY <1>7 DEF S13, Bind, Goto
<1>8. CASE Snap
  BY <1>8 DEF Snap, Goto
<1>9. CASE Sgi
  BY <1>9 DEF Sgi, Raise, Goto
<1>10. CASE Spin
  <2>1. CASE asked # None
    BY <1>10, <2>1 DEF Spin, Arrived, Goto
  <2>2. CASE asked = None /\ at < Last
    BY <1>10, <2>2, NextCpu DEF Spin, Arrived, Goto
  <2>3. CASE asked = None /\ ~(at < Last)
    BY <1>10, <2>3 DEF Spin, Arrived, Goto
  <2> QED
    BY <2>1, <2>2, <2>3
<1>11. ASSUME NEW c \in Secondaries, Ask(c) PROVE QuietInv'
  BY <1>11 DEF Ask, First, IsCross, Foreign, Goto
<1>12. CASE AskNobody
  BY <1>12 DEF AskNobody, Goto
<1>13. CASE Answered
  BY <1>13 DEF Answered, Goto
<1>14. CASE S14
  BY <1>14 DEF S14, Goto, Fail
<1>15. CASE RunOut
  BY <1>15 DEF RunOut, Fail, Arrived
<1>16. ASSUME NEW c \in Secondaries, FindGate(c) PROVE QuietInv'
  BY <1>16 DEF FindGate, Goto
<1>17. ASSUME NEW c \in Secondaries, Occupy(c) PROVE QuietInv'
  BY <1>17 DEF Occupy, Goto
<1>18. ASSUME NEW c \in Secondaries, SetWaiting(c) PROVE QuietInv'
  BY <1>18 DEF SetWaiting, Goto
<1>19. ASSUME NEW c \in Secondaries, SetOnline(c) PROVE QuietInv'
  BY <1>19 DEF SetOnline, Goto
<1>20. ASSUME NEW c \in Secondaries, Unmask(c) PROVE QuietInv'
  BY <1>20 DEF Unmask, Goto
<1>21. ASSUME NEW c \in Secondaries, Wfi(c) PROVE QuietInv'
  BY <1>21 DEF Wfi, Goto
<1>22. ASSUME NEW c \in Secondaries, ReadEcho(c) PROVE QuietInv'
  BY <1>22 DEF ReadEcho, Goto, PlaceInv
<1>23. ASSUME NEW c \in Secondaries, ClearEcho(c) PROVE QuietInv'
  BY <1>23 DEF ClearEcho, Answer, Goto, EchoInv, PlaceInv
<1>24. ASSUME NEW c \in Secondaries, Reply(c) PROVE QuietInv'
  BY <1>24 DEF Reply, Answer, Raise, Goto, EchoInv, PlaceInv
<1>25. ASSUME NEW c \in Secondaries, Wake(c) PROVE QuietInv'
  BY <1>25 DEF Wake, Goto
<1>26. ASSUME NEW c \in Cpus, Irq(c) PROVE QuietInv'
  <2>1. CASE bound
    BY <1>26, <2>1 DEF Irq, Fail, PlaceInv, Boot0
  <2>2. CASE ~bound
    BY <1>26, <2>2 DEF Irq, Fail, PlaceInv, Boot0
  <2> QED
    BY <2>1, <2>2
<1>27. CASE Idle \/ UNCHANGED vars
  BY <1>27 DEF Idle, vars
<1>28. ASSUME NEW c \in Secondaries, FrameWakes(c) PROVE QuietInv'
  BY <1>28 DEF FrameWakes, Goto
<1>29. ASSUME NEW c \in Secondaries, FrameSleeps(c) PROVE QuietInv'
  BY <1>29 DEF FrameSleeps, Goto
<1> QED
  BY <1>1, <1>2, <1>3, <1>4, <1>5, <1>6, <1>7, <1>8, <1>9, <1>10, <1>11, <1>12, <1>13,
       <1>14, <1>15, <1>16, <1>17, <1>18, <1>19, <1>20, <1>21, <1>22, <1>23, <1>24,
       <1>25, <1>26, <1>27, <1>28, <1>29 DEF Next, BootStep, SecondaryStep

\* Every step keeps the answer in one place.
LEMMA EchoStep == IInv /\ [Next]_vars => EchoInv'
<1> SUFFICES ASSUME IInv, [Next]_vars PROVE EchoInv'
  OBVIOUS
<1> USE CpuFacts DEF IInv, EchoInv, PendInv, TypeOK, SentByBoot, SentAsAnswer, machine,
     wait0, cpus, setup, irqs
<1>1. CASE S12
  BY <1>1 DEF S12, Goto, Fail, QuietInv, S12Labels
<1>2. CASE S12Next
  <2>1. CASE OneMore
    BY <1>2, <2>1 DEF S12Next, OneMore, Goto, QuietInv, S12Labels
  <2>2. CASE ~OneMore
    BY <1>2, <2>2 DEF S12Next, OneMore, Goto, QuietInv, S12Labels
  <2> QED
    BY <2>1, <2>2
<1>3. CASE ReleaseGate
  BY <1>3 DEF ReleaseGate, Mpidr
<1>4. CASE ReleasePsci
  BY <1>4 DEF ReleasePsci
<1>5. CASE ReleaseRefused
  BY <1>5 DEF ReleaseRefused, Fail
<1>6. CASE AwaitOnline
  BY <1>6 DEF AwaitOnline, Goto
<1>7. CASE S13
  BY <1>7 DEF S13, Bind, Goto, QuietInv, S12Labels
<1>8. CASE Snap
  BY <1>8 DEF Snap, Goto
<1>9. CASE Sgi
  BY <1>9 DEF Sgi, Raise, Goto
<1>10. CASE Spin
  <2>1. CASE asked # None
    BY <1>10, <2>1 DEF Spin, Arrived, Goto
  <2>2. CASE asked = None /\ at < Last
    BY <1>10, <2>2 DEF Spin, Arrived, Goto
  <2>3. CASE asked = None /\ ~(at < Last)
    BY <1>10, <2>3 DEF Spin, Arrived, Goto
  <2> QED
    BY <2>1, <2>2, <2>3
<1>11. ASSUME NEW c \in Secondaries, Ask(c) PROVE EchoInv'
  BY <1>11 DEF Ask, First, IsCross, Foreign, Goto
<1>12. CASE AskNobody
  BY <1>12 DEF AskNobody, Goto
<1>13. CASE Answered
  BY <1>13 DEF Answered, Goto
<1>14. CASE S14
  BY <1>14 DEF S14, Goto, Fail
<1>15. CASE RunOut
  BY <1>15 DEF RunOut, Fail, Arrived
<1>16. ASSUME NEW c \in Secondaries, FindGate(c) PROVE EchoInv'
  BY <1>16 DEF FindGate, Goto
<1>17. ASSUME NEW c \in Secondaries, Occupy(c) PROVE EchoInv'
  BY <1>17 DEF Occupy, Goto
<1>18. ASSUME NEW c \in Secondaries, SetWaiting(c) PROVE EchoInv'
  BY <1>18 DEF SetWaiting, Goto
<1>19. ASSUME NEW c \in Secondaries, SetOnline(c) PROVE EchoInv'
  BY <1>19 DEF SetOnline, Goto
<1>20. ASSUME NEW c \in Secondaries, Unmask(c) PROVE EchoInv'
  BY <1>20 DEF Unmask, Goto
<1>21. ASSUME NEW c \in Secondaries, Wfi(c) PROVE EchoInv'
  BY <1>21 DEF Wfi, Goto
<1>22. ASSUME NEW c \in Secondaries, ReadEcho(c) PROVE EchoInv'
  BY <1>22 DEF ReadEcho, Goto
<1>23. ASSUME NEW c \in Secondaries, ClearEcho(c) PROVE EchoInv'
  BY <1>23 DEF ClearEcho, Answer, Goto
<1>24. ASSUME NEW c \in Secondaries, Reply(c) PROVE EchoInv'
  BY <1>24 DEF Reply, Answer, Raise, Goto
<1>25. ASSUME NEW c \in Secondaries, Wake(c) PROVE EchoInv'
  BY <1>25 DEF Wake, Goto
<1>26. ASSUME NEW c \in Cpus, Irq(c) PROVE EchoInv'
  BY <1>26 DEF Irq, Fail
<1>27. CASE Idle \/ UNCHANGED vars
  BY <1>27 DEF Idle, vars
<1>28. ASSUME NEW c \in Secondaries, FrameWakes(c) PROVE EchoInv'
  BY <1>28 DEF FrameWakes, Goto
<1>29. ASSUME NEW c \in Secondaries, FrameSleeps(c) PROVE EchoInv'
  BY <1>29 DEF FrameSleeps, Goto
<1> QED
  BY <1>1, <1>2, <1>3, <1>4, <1>5, <1>6, <1>7, <1>8, <1>9, <1>10, <1>11, <1>12, <1>13,
       <1>14, <1>15, <1>16, <1>17, <1>18, <1>19, <1>20, <1>21, <1>22, <1>23, <1>24,
       <1>25, <1>26, <1>27, <1>28, <1>29 DEF Next, BootStep, SecondaryStep

\* Every step keeps at most one SGI pending for a CPU.
LEMMA PendStep == IInv /\ [Next]_vars => PendInv'
<1> SUFFICES ASSUME IInv, [Next]_vars PROVE PendInv'
  OBVIOUS
<1> USE CpuFacts DEF IInv, PendInv, EchoInv, TypeOK, SentByBoot, SentAsAnswer, machine,
     wait0, cpus, setup, irqs
<1>1. CASE S12
  BY <1>1 DEF S12, Goto, Fail
<1>2. CASE S12Next
  BY <1>2 DEF S12Next, Goto, OneMore, QuietInv, S12Labels
<1>3. CASE ReleaseGate
  BY <1>3 DEF ReleaseGate, Mpidr
<1>4. CASE ReleasePsci
  BY <1>4 DEF ReleasePsci
<1>5. CASE ReleaseRefused
  BY <1>5 DEF ReleaseRefused, Fail
<1>6. CASE AwaitOnline
  BY <1>6 DEF AwaitOnline, Goto
<1>7. CASE S13
  BY <1>7 DEF S13, Bind, Goto, QuietInv, S12Labels
<1>8. CASE Snap
  BY <1>8 DEF Snap, Goto
<1>9. CASE Sgi
  BY <1>9 DEF Sgi, Raise, Goto
<1>10. CASE Spin
  <2>1. CASE asked # None
    BY <1>10, <2>1 DEF Spin, Arrived, Goto
  <2>2. CASE asked = None /\ at < Last
    BY <1>10, <2>2 DEF Spin, Arrived, Goto
  <2>3. CASE asked = None /\ ~(at < Last)
    BY <1>10, <2>3 DEF Spin, Arrived, Goto
  <2> QED
    BY <2>1, <2>2, <2>3
<1>11. ASSUME NEW c \in Secondaries, Ask(c) PROVE PendInv'
  BY <1>11 DEF Ask, First, IsCross, Foreign, Goto, S13Labels
<1>12. CASE AskNobody
  BY <1>12 DEF AskNobody, Goto
<1>13. CASE Answered
  BY <1>13 DEF Answered, Goto
<1>14. CASE S14
  BY <1>14 DEF S14, Goto, Fail
<1>15. CASE RunOut
  BY <1>15 DEF RunOut, Fail, Arrived
<1>16. ASSUME NEW c \in Secondaries, FindGate(c) PROVE PendInv'
  BY <1>16 DEF FindGate, Goto
<1>17. ASSUME NEW c \in Secondaries, Occupy(c) PROVE PendInv'
  BY <1>17 DEF Occupy, Goto
<1>18. ASSUME NEW c \in Secondaries, SetWaiting(c) PROVE PendInv'
  BY <1>18 DEF SetWaiting, Goto
<1>19. ASSUME NEW c \in Secondaries, SetOnline(c) PROVE PendInv'
  BY <1>19 DEF SetOnline, Goto
<1>20. ASSUME NEW c \in Secondaries, Unmask(c) PROVE PendInv'
  BY <1>20 DEF Unmask, Goto
<1>21. ASSUME NEW c \in Secondaries, Wfi(c) PROVE PendInv'
  BY <1>21 DEF Wfi, Goto
<1>22. ASSUME NEW c \in Secondaries, ReadEcho(c) PROVE PendInv'
  BY <1>22 DEF ReadEcho, Goto
<1>23. ASSUME NEW c \in Secondaries, ClearEcho(c) PROVE PendInv'
  BY <1>23 DEF ClearEcho, Answer, Goto
<1>24. ASSUME NEW c \in Secondaries, Reply(c) PROVE PendInv'
  BY <1>24 DEF Reply, Answer, Raise, Goto
<1>25. ASSUME NEW c \in Secondaries, Wake(c) PROVE PendInv'
  BY <1>25 DEF Wake, Goto
<1>26. ASSUME NEW c \in Cpus, Irq(c) PROVE PendInv'
  BY <1>26 DEF Irq, Fail
<1>27. CASE Idle \/ UNCHANGED vars
  BY <1>27 DEF Idle, vars
<1>28. ASSUME NEW c \in Secondaries, FrameWakes(c) PROVE PendInv'
  BY <1>28 DEF FrameWakes, Goto
<1>29. ASSUME NEW c \in Secondaries, FrameSleeps(c) PROVE PendInv'
  BY <1>29 DEF FrameSleeps, Goto
<1> QED
  BY <1>1, <1>2, <1>3, <1>4, <1>5, <1>6, <1>7, <1>8, <1>9, <1>10, <1>11, <1>12, <1>13,
       <1>14, <1>15, <1>16, <1>17, <1>18, <1>19, <1>20, <1>21, <1>22, <1>23, <1>24,
       <1>25, <1>26, <1>27, <1>28, <1>29 DEF Next, BootStep, SecondaryStep

\* Every step counts what it takes.
LEMMA CountStep == IInv /\ [Next]_vars => EverySgiCounted'
<1> SUFFICES ASSUME IInv, [Next]_vars PROVE EverySgiCounted'
  OBVIOUS
<1> USE CpuFacts DEF IInv, EverySgiCounted, PendInv, EchoInv, TypeOK, SentByBoot,
     SentAsAnswer, machine, wait0, cpus, setup, irqs
<1>1. CASE S12
  BY <1>1 DEF S12, Goto, Fail
<1>2. CASE S12Next
  BY <1>2 DEF S12Next, Goto, OneMore
<1>3. CASE ReleaseGate
  BY <1>3 DEF ReleaseGate, Mpidr
<1>4. CASE ReleasePsci
  BY <1>4 DEF ReleasePsci
<1>5. CASE ReleaseRefused
  BY <1>5 DEF ReleaseRefused, Fail
<1>6. CASE AwaitOnline
  BY <1>6 DEF AwaitOnline, Goto
<1>7. CASE S13
  BY <1>7 DEF S13, Bind, Goto, QuietInv, S12Labels
<1>8. CASE Snap
  BY <1>8 DEF Snap, Goto
<1>9. CASE Sgi
  BY <1>9 DEF Sgi, Raise, Goto
<1>10. CASE Spin
  BY <1>10 DEF Spin, Arrived, Last, Goto
<1>11. ASSUME NEW c \in Secondaries, Ask(c) PROVE EverySgiCounted'
  BY <1>11 DEF Ask, First, IsCross, Foreign, Goto
<1>12. CASE AskNobody
  BY <1>12 DEF AskNobody, Goto
<1>13. CASE Answered
  BY <1>13 DEF Answered, Goto
<1>14. CASE S14
  BY <1>14 DEF S14, Goto, Fail
<1>15. CASE RunOut
  BY <1>15 DEF RunOut, Fail, Arrived
<1>16. ASSUME NEW c \in Secondaries, FindGate(c) PROVE EverySgiCounted'
  BY <1>16 DEF FindGate, Goto
<1>17. ASSUME NEW c \in Secondaries, Occupy(c) PROVE EverySgiCounted'
  BY <1>17 DEF Occupy, Goto
<1>18. ASSUME NEW c \in Secondaries, SetWaiting(c) PROVE EverySgiCounted'
  BY <1>18 DEF SetWaiting, Goto
<1>19. ASSUME NEW c \in Secondaries, SetOnline(c) PROVE EverySgiCounted'
  BY <1>19 DEF SetOnline, Goto
<1>20. ASSUME NEW c \in Secondaries, Unmask(c) PROVE EverySgiCounted'
  BY <1>20 DEF Unmask, Goto
<1>21. ASSUME NEW c \in Secondaries, Wfi(c) PROVE EverySgiCounted'
  BY <1>21 DEF Wfi, Goto
<1>22. ASSUME NEW c \in Secondaries, ReadEcho(c) PROVE EverySgiCounted'
  BY <1>22 DEF ReadEcho, Goto
<1>23. ASSUME NEW c \in Secondaries, ClearEcho(c) PROVE EverySgiCounted'
  BY <1>23 DEF ClearEcho, Answer, Goto
<1>24. ASSUME NEW c \in Secondaries, Reply(c) PROVE EverySgiCounted'
  BY <1>24 DEF Reply, Answer, Raise, Goto
<1>25. ASSUME NEW c \in Secondaries, Wake(c) PROVE EverySgiCounted'
  BY <1>25 DEF Wake, Goto
<1>26. ASSUME NEW c \in Cpus, Irq(c) PROVE EverySgiCounted'
  <2>1. CASE bound
    BY <1>26, <2>1 DEF Irq, Fail, QuietInv
  <2>2. CASE ~bound
    BY <1>26, <2>2 DEF Irq, Fail, QuietInv
  <2> QED
    BY <2>1, <2>2
<1>27. CASE Idle \/ UNCHANGED vars
  BY <1>27 DEF Idle, vars
<1>28. ASSUME NEW c \in Secondaries, FrameWakes(c) PROVE EverySgiCounted'
  BY <1>28 DEF FrameWakes, Goto
<1>29. ASSUME NEW c \in Secondaries, FrameSleeps(c) PROVE EverySgiCounted'
  BY <1>29 DEF FrameSleeps, Goto
<1> QED
  BY <1>1, <1>2, <1>3, <1>4, <1>5, <1>6, <1>7, <1>8, <1>9, <1>10, <1>11, <1>12, <1>13,
       <1>14, <1>15, <1>16, <1>17, <1>18, <1>19, <1>20, <1>21, <1>22, <1>23, <1>24,
       <1>25, <1>26, <1>27, <1>28, <1>29 DEF Next, BootStep, SecondaryStep

\* Every step counts only what the frame of the CPU lets in.
LEMMA HeardStep == IInv /\ [Next]_vars => HeardInv'
<1> SUFFICES ASSUME IInv, [Next]_vars PROVE HeardInv'
  OBVIOUS
<1> USE CpuFacts DEF IInv, HeardInv, TypeOK, machine, wait0, cpus, setup, irqs
<1>1. CASE S13
  BY <1>1 DEF S13, Goto
<1>2. ASSUME NEW c \in Secondaries, FrameWakes(c) PROVE HeardInv'
  BY <1>2 DEF FrameWakes
<1>3. ASSUME NEW c \in Cpus, Irq(c) PROVE HeardInv'
  BY <1>3 DEF Irq
<1>4. \/ seen' = seen /\ heard' = heard
      \/ S13
      \/ \E c \in Secondaries : FrameWakes(c)
      \/ \E c \in Cpus : Irq(c)
  <2> USE DEF S12, S12Next, ReleaseGate, ReleasePsci, ReleaseRefused, AwaitOnline, Snap,
       Sgi, Spin, Ask, AskNobody, Answered, S14, RunOut, FindGate, Occupy, FrameSleeps,
       SetWaiting, SetOnline, Unmask, Wfi, ReadEcho, ClearEcho, Reply, Wake, Idle, vars
  <2> QED
    BY Zenon DEF Next, BootStep, SecondaryStep
<1> QED
  BY <1>1, <1>2, <1>3, <1>4

\* The invariant holds when S12 starts: what S9 and S11 leave satisfies it.
LEMMA InitInv == Init => IInv
<1> SUFFICES ASSUME Init PROVE IInv
  OBVIOUS
<1> USE CpuFacts DEF Init
<1>1. TypeOK
  BY DEF TypeOK, Boot0, Entry
<1>2. PlaceInv /\ QuietInv
  BY DEF PlaceInv, QuietInv, Boot0, Entry, Up, S12Labels, S13Labels
<1>3. OrderInv
  BY DEF OrderInv, S12Labels, S13Labels
<1>4. EchoInv /\ PendInv /\ EverySgiCounted /\ HeardInv
  BY DEF EchoInv, PendInv, EverySgiCounted, HeardInv
<1> QED
  BY <1>1, <1>2, <1>3, <1>4 DEF IInv

\* The invariant is inductive.
THEOREM Invariant == Spec => []IInv
<1>1. IInv /\ [Next]_vars => IInv'
  BY TypeStep, PlaceStep, OrderStep, QuietStep, EchoStep, PendStep, CountStep,
     HeardStep DEF IInv
<1> QED
  BY InitInv, <1>1, PTL DEF Spec

\* The variables stay in their types (smp.c, signal.c, secondary.S).
THEOREM TypeCorrect == Spec => []TypeOK
<1>1. IInv => TypeOK
  BY DEF IInv
<1> QED
  BY Invariant, <1>1, PTL

\* On any number of CPUs one that says ONLINE has its MMU, its vectors, its CPU
\* interface and its context, and S13 signals no other (smp.c:104-140,
\* nxu_secondary). Nothing here says that its frame is awake: nxu_gicr_wake may give
\* up and the word is published all the same (Smp's OnlineIsHeard).
THEOREM OnlineIsReady == Spec => []OnlineReady
<1>1. IInv => OnlineReady
  BY CpuFacts DEF IInv, PlaceInv, OrderInv, OnlineReady, S13Labels, Up
<1> QED
  BY Invariant, <1>1, PTL

\* No CPU takes an SGI that nobody owns (nxu_irq_dispatch).
THEOREM EverySgiIsBound == Spec => []NoUnbound
<1>1. IInv => NoUnbound
  BY CpuFacts DEF IInv, PlaceInv, QuietInv, NoUnbound
<1> QED
  BY Invariant, <1>1, PTL

\* A secondary withdraws its own request only, and S13 leaves none (nxu_s13_ipi,
\* nxu_ipi_echo).
THEOREM OneEcho == Spec => []EchoExclusive
<1>1. IInv => EchoExclusive
  BY CpuFacts DEF IInv, TypeOK, EchoInv, EchoExclusive
<1> QED
  BY Invariant, <1>1, PTL

\* Two SGIs never share the pending bit of a CPU (nxu_gic_sgi, nxu_irq_dispatch).
THEOREM NoSgiMerged == Spec => []EverySgiCounted
<1>1. IInv => EverySgiCounted
  BY DEF IInv
<1> QED
  BY Invariant, <1>1, PTL

\* No late store of CPU 0 takes ONLINE back (nxu_s12_smp).
THEOREM OnlineForever == Spec => OnlineStays
<1>1. ASSUME IInv, [Next]_vars
      PROVE  \A c \in Cpus : state[c] = "ONLINE" => state'[c] = "ONLINE"
  <2> USE <1>1, CpuFacts DEF IInv, TypeOK, machine, wait0, cpus, setup, irqs
  <2>1. CASE S12Next
    BY <2>1, NextCpu DEF S12Next, OneMore, OrderInv, PlaceInv, S12Labels, Up
  <2>2. CASE S12
    BY <2>2 DEF S12
  <2>3. ASSUME NEW c \in Secondaries, SetOnline(c) PROVE state' = [state EXCEPT ![c] =
       "ONLINE"]
    BY <2>3 DEF SetOnline
  <2>4. state' = state \/ S12Next \/ S12 \/ \E c \in Secondaries : SetOnline(c)
    <3> USE DEF ReleaseGate, ReleasePsci, ReleaseRefused, AwaitOnline, S13, Snap, Sgi,
         Spin,
          Ask, AskNobody, Answered, S14, RunOut, FindGate, Occupy, FrameWakes,
          FrameSleeps, SetWaiting, Unmask, Wfi,
          ReadEcho, ClearEcho, Reply, Wake, Irq, Idle, vars
    <3> QED
      BY Zenon DEF Next, BootStep, SecondaryStep
  <2> QED
    BY <2>1, <2>2, <2>3, <2>4
<1> QED
  BY Invariant, <1>1, PTL DEF Spec, OnlineStays

-----------------------------------------------------------------------------
(* What S13 has proved when it returns.                                      *)

\* How many SGIs each CPU has been sent, from where CPU 0 stands: one each in the
\* first round; one more for the CPU asked first, and for the one asked second.
Given == {"spin", "answer", "ask", "s14", "done"}
SentTo(c) ==
  IF asked = None
  THEN IF c < at \/ (c = at /\ pc[0] \in Given) THEN 1 ELSE 0
  ELSE IF asked # First /\ c = First THEN 2
  ELSE IF c = asked /\ pc[0] \in Given THEN 2 ELSE 1

\* An answer that has been asked for and is not sent yet.
Outstanding == echo # 0 \/ \E c \in Secondaries : pc[c] = "reply"
SentTo0 ==
  IF asked = None THEN IF at = 0 /\ pc[0] \notin Given THEN 0 ELSE 1
  ELSE IF asked = First THEN IF Outstanding THEN 1 ELSE 2
  ELSE IF Outstanding THEN 2 ELSE 3

SentInv ==
  /\ pc[0] \in S13Labels =>
       /\ sent[0] = SentTo0
       /\ \A c \in Secondaries : sent[c] = SentTo(c)
       /\ asked # None => asked \in Asked /\ First \in Secondaries
  /\ pc[0] = "ask" /\ asked = None => at = Last
  /\ pc[0] = "answer" => asked # None
  /\ pc[0] \in {"s14", "done"} =>
       \/ Secondaries = {}
       \/ asked # None /\ ~(asked = First /\ \E c \in Foreign : IsCross(c) /\ c # First)

\* Behind the last CPU there is none, and where there are secondaries, 1 is one.
LEMMA LastCpu ==
  ASSUME NEW i \in Cpus, ~(i < Last)
  PROVE  i = Last /\ \A c \in Secondaries : c < i \/ c = i
  BY SmpAssumption DEF SmpAssumption, Cpus, Secondaries, Last

\* The first CPU that S12 starts is one of those it has to start.
LEMMA FirstCpu == Secondaries # {} => First \in Secondaries
  BY SmpAssumption DEF SmpAssumption, Secondaries, First

\* Every step keeps the numbers sent.
LEMMA SentStep == IInv /\ SentInv /\ [Next]_vars => SentInv'
<1> SUFFICES ASSUME IInv, SentInv, [Next]_vars PROVE SentInv'
  OBVIOUS
<1> USE CpuFacts DEF IInv, SentInv, EchoInv, TypeOK, S13Labels, SentTo, SentTo0, Given,
     Outstanding, machine, wait0, cpus, setup, irqs
<1>1. CASE S12
  BY <1>1 DEF S12, Goto, Fail
<1>2. CASE S12Next
  BY <1>2 DEF S12Next, Goto, OneMore, S12Labels
<1>3. CASE ReleaseGate
  BY <1>3 DEF ReleaseGate, Mpidr
<1>4. CASE ReleasePsci
  BY <1>4 DEF ReleasePsci
<1>5. CASE ReleaseRefused
  BY <1>5 DEF ReleaseRefused, Fail
<1>6. CASE AwaitOnline
  BY <1>6 DEF AwaitOnline, Goto
<1>7. CASE S13
  BY <1>7, Behind0 DEF S13, Bind, Goto, QuietInv, S12Labels, None, First
<1>8. CASE Snap
  BY <1>8 DEF Snap, Goto
<1>9. CASE Sgi
  <2>1. CASE asked = None
    BY <1>9, <2>1, NextCpu DEF Sgi, Raise, Goto
  <2>2. CASE asked # None
    BY <1>9, <2>2 DEF Sgi, Raise, Goto
  <2> QED
    BY <2>1, <2>2
<1>10. CASE Spin
  <2>1. CASE asked # None
    BY <1>10, <2>1 DEF Spin, Arrived, Goto
  <2>2. CASE asked = None /\ at < Last
    BY <1>10, <2>2, NextCpu DEF Spin, Arrived, Goto
  <2>3. CASE asked = None /\ ~(at < Last)
    BY <1>10, <2>3, LastCpu DEF Spin, Arrived, Goto
  <2> QED
    BY <2>1, <2>2, <2>3
<1>11. ASSUME NEW c \in Secondaries, Ask(c) PROVE SentInv'
  <2>1. c \in Asked /\ First \in Secondaries
    BY <1>11, FirstCpu DEF Ask, Asked, SentInv
  <2>2. CASE asked = None
    <3>1. at = Last
      BY <1>11, <2>2 DEF Ask
    <3>2. \A d \in Secondaries : d < at \/ d = at
      BY <3>1, NextCpu, LastCpu
    <3>3. sent[0] = 1 /\ \A d \in Secondaries : sent[d] = 1
      BY <1>11, <2>2, <3>2 DEF Ask
    <3> QED
      BY <1>11, <2>1, <2>2, <3>3 DEF Ask, Goto
  <2>3. CASE asked = First /\ First # None
    BY <1>11, <2>1, <2>3 DEF Ask, Goto
  <2> QED
    BY <1>11, <2>1, <2>2, <2>3 DEF Ask
<1>12. CASE AskNobody
  BY <1>12 DEF AskNobody, Goto
<1>13. CASE Answered
  BY <1>13 DEF Answered, Goto
<1>14. CASE S14
  BY <1>14 DEF S14, Goto, Fail
<1>15. CASE RunOut
  BY <1>15 DEF RunOut, Fail, Arrived
<1>16. ASSUME NEW c \in Secondaries, FindGate(c) PROVE SentInv'
  BY <1>16 DEF FindGate, Goto
<1>17. ASSUME NEW c \in Secondaries, Occupy(c) PROVE SentInv'
  BY <1>17 DEF Occupy, Goto
<1>18. ASSUME NEW c \in Secondaries, SetWaiting(c) PROVE SentInv'
  BY <1>18 DEF SetWaiting, Goto
<1>19. ASSUME NEW c \in Secondaries, SetOnline(c) PROVE SentInv'
  BY <1>19 DEF SetOnline, Goto
<1>20. ASSUME NEW c \in Secondaries, Unmask(c) PROVE SentInv'
  BY <1>20 DEF Unmask, Goto
<1>21. ASSUME NEW c \in Secondaries, Wfi(c) PROVE SentInv'
  BY <1>21 DEF Wfi, Goto
<1>22. ASSUME NEW c \in Secondaries, ReadEcho(c) PROVE SentInv'
  BY <1>22 DEF ReadEcho, Goto
<1>23. ASSUME NEW c \in Secondaries, ClearEcho(c) PROVE SentInv'
  BY <1>23 DEF ClearEcho, Answer, Goto
<1>24. ASSUME NEW c \in Secondaries, Reply(c) PROVE SentInv'
  BY <1>24 DEF Reply, Answer, Raise, Goto
<1>25. ASSUME NEW c \in Secondaries, Wake(c) PROVE SentInv'
  BY <1>25 DEF Wake, Goto
<1>26. ASSUME NEW c \in Cpus, Irq(c) PROVE SentInv'
  <2>1. CASE bound
    BY <1>26, <2>1 DEF Irq, Fail, QuietInv, PlaceInv, Boot0
  <2>2. CASE ~bound
    BY <1>26, <2>2 DEF Irq, Fail, QuietInv, PlaceInv, Boot0
  <2> QED
    BY <2>1, <2>2
<1>27. CASE Idle \/ UNCHANGED vars
  BY <1>27 DEF Idle, vars
<1>28. ASSUME NEW c \in Secondaries, FrameWakes(c) PROVE SentInv'
  BY <1>28 DEF FrameWakes, Goto
<1>29. ASSUME NEW c \in Secondaries, FrameSleeps(c) PROVE SentInv'
  BY <1>29 DEF FrameSleeps, Goto
<1> QED
  BY <1>1, <1>2, <1>3, <1>4, <1>5, <1>6, <1>7, <1>8, <1>9, <1>10, <1>11, <1>12, <1>13,
       <1>14, <1>15, <1>16, <1>17, <1>18, <1>19, <1>20, <1>21, <1>22, <1>23, <1>24,
       <1>25, <1>26, <1>27, <1>28, <1>29 DEF Next, BootStep, SecondaryStep

\* S13 returns only when every CPU has taken exactly the SGIs meant for it, each
\* answer came once (signal.c:190-236), and no CPU is left with a frame that slept
\* through its enable.
THEOREM S13Finishes == Spec => []S13Proves
<1>1. Init => SentInv
  BY CpuFacts DEF Init, SentInv, S13Labels
<1>2. IInv /\ SentInv => S13Proves
  <2> SUFFICES ASSUME IInv, SentInv, pc[0] \in {"s14", "done"} PROVE S13Proves
    BY DEF S13Proves
  <2> USE CpuFacts
  <2>1. \A c \in Cpus : ~pend[c] /\ seen[c] = sent[c]
    BY DEF IInv, PendInv, SentByBoot, SentAsAnswer, EverySgiCounted, TypeOK
  <2>2. ~Outstanding
    BY DEF Outstanding, IInv, EchoInv
  <2>3. sent[0] = SentTo0 /\ \A c \in Secondaries : sent[c] = SentTo(c)
    BY DEF SentInv, S13Labels
  <2>4. ASSUME NEW c \in Cpus, seen[c] # 0 PROVE heard[c]
    BY <2>4 DEF IInv, HeardInv
  <2>5. CASE Secondaries = {}
    <3>1. asked = None
      BY <2>5 DEF IInv, EchoInv
    <3>2. seen[0] = 1
      BY <2>1, <2>3, <3>1 DEF SentTo0, Given
    <3>3. Cardinality(Asked \cap Secondaries) = 0
      BY <2>5, FS_EmptySet
    <3> QED
      BY <2>1, <2>5, <2>4, <3>2, <3>3 DEF S13Proves
  <2>6. CASE asked = First /\ ~\E c \in Foreign : IsCross(c) /\ c # First
    <3>1. First # None
      BY DEF First, None
    <3>2. First \in Secondaries
      BY <2>6, <3>1 DEF SentInv, S13Labels
    <3>3. Asked \cap Secondaries = {First}
      BY <2>6, <3>2 DEF Asked, IsCross
    <3>4. Cardinality(Asked \cap Secondaries) = 1
      BY <3>3, FS_Singleton
    <3>5. \A c \in Secondaries : c \in Asked <=> c = First
      BY <3>3
    <3>6. seen[0] = 2
      BY <2>1, <2>2, <2>3, <2>6, <3>1 DEF SentTo0
    <3>7. \A c \in Secondaries : seen[c] = (IF c = First THEN 2 ELSE 1)
      BY <2>1, <2>3, <2>6, <3>1 DEF SentTo, Given
    <3> QED
      BY <2>1, <2>4, <3>4, <3>5, <3>6, <3>7 DEF S13Proves
  <2>7. CASE asked # None /\ asked # First
    <3>1. asked \in Asked /\ First \in Secondaries /\ asked \in Secondaries
      BY <2>7 DEF SentInv, S13Labels, IInv, EchoInv
    <3>2. Asked \cap Secondaries = {First, asked}
      <4>1. \A c, d \in Secondaries : IsCross(c) /\ IsCross(d) => c = d
        BY SmpAssumption DEF IsCross, Foreign, Secondaries, SmpAssumption
      <4> QED
        BY <2>7, <3>1, <4>1 DEF Asked
    <3>3. Cardinality({First, asked}) = 2
      <4>1. IsFiniteSet({asked}) /\ Cardinality({asked}) = 1
        BY FS_Singleton
      <4>2. First \notin {asked}
        BY <2>7
      <4>3. Cardinality({asked} \cup {First}) = Cardinality({asked}) + 1
        BY <4>1, <4>2, FS_AddElement, Zenon
      <4>4. Cardinality({asked} \cup {First}) = 2
        BY <4>1, <4>3
      <4>5. {asked} \cup {First} = {First, asked}
        OBVIOUS
      <4> QED
        BY <4>4, <4>5
    <3>4. seen[0] = 3
      BY <2>1, <2>2, <2>3, <2>7 DEF SentTo0
    <3>5. \A c \in Secondaries : seen[c] = (IF c \in {First, asked} THEN 2 ELSE 1)
      BY <2>1, <2>3, <2>7 DEF SentTo, Given
    <3>6. \A c \in Secondaries : c \in Asked <=> c \in {First, asked}
      BY <3>2
    <3> QED
      BY <2>1, <2>4, <3>2, <3>3, <3>4, <3>5, <3>6 DEF S13Proves
  <2>8. \/ Secondaries = {}
        \/ asked # None /\ ~(asked = First /\ \E c \in Foreign : IsCross(c) /\ c #
             First)
    BY DEF SentInv
  <2> QED
    BY <2>5, <2>6, <2>7, <2>8
<1> QED
  BY <1>1, <1>2, Invariant, SentStep, PTL DEF Spec
==============================================================================
