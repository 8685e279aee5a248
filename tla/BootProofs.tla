----------------------------- MODULE BootProofs -----------------------------
(***************************************************************************)
(* Boot.tla for every machine: the stages in their order, what S11 proves,  *)
(* and the causes of a halt.                                                *)
(***************************************************************************)
EXTENDS Boot, TLAPS

\* The labels at which interrupts may be open, and those S11 has armed by.
Opened  == {"spin", "giveup", "mask", "ipi", "s14", "frozen"}
Armed   == Opened \cup {"s12", "await", "s13"}
Counted == Armed \ {"spin", "giveup"}
Early   == {"reset", "group", "arrive", "s0", "s1", "s2", "s3", "s4", "s5", "s6", "s7", "s8",
            "s9", "s10", "wake", "s11", "enable", "program"}

\* The labels of the boot after a stage has returned.
Past14 == {"frozen"}
Past13 == Past14 \cup {"s14"}
Past12 == Past13 \cup {"s13", "ipi"}
Past11 == Past12 \cup {"s12", "await"}
Past10 == Past11 \cup {"s11", "enable", "program", "unmask", "spin", "giveup", "mask"}
Past9  == Past10 \cup {"s10", "wake"}
Past8  == Past9 \cup {"s9"}
Past7  == Past8 \cup {"s8"}
Past6  == Past7 \cup {"s7"}
Past5  == Past6 \cup {"s6"}
Past4  == Past5 \cup {"s5"}
Past3  == Past4 \cup {"s4"}
Past0  == Past3 \cup {"s1", "s2", "s3"}

OrderInv ==
  /\ at # "stuck"
  /\ at # "halt" => why = "none"
  /\ at \in Past0  => "s0" \in done
  /\ at \in Past3  => "s3" \in done
  /\ at \in Past4  => "s4" \in done
  /\ at \in Past5  => "s5" \in done
  /\ at \in Past6  => "s6" \in done
  /\ at \in Past7  => "s7" \in done
  /\ at \in Past8  => "s8" \in done
  /\ at \in Past9  => "s9" \in done
  /\ at \in Past10 => "s10" \in done
  /\ at \in Past11 => "s11" \in done
  /\ at \in Past12 => "s12" \in done
  /\ at \in Past13 => "s13" \in done
  /\ at \in Past14 => "s14" \in done

\* EL1 has been granted what it uses, and interrupts are open only under the
\* full vectors and with the deadline armed.
PeInv ==
  /\ at = "reset" => (machine.el = 1 => granted /\ sre)
  /\ at # "reset" => granted /\ sre
  /\ at \in Armed \cup {"s8", "s9", "s10", "wake", "s11", "enable", "program", "unmask"}
       =>
       vbar = "full"
  /\ open => at \in Opened
  /\ irq = "vector" => at \in Opened

\* The timer's interrupt: until it is counted, what is pending is the firmware's or
\* has the compare of S11 behind it; the handler masks the timer, so one
\* more is all that a late line can make of it.
ClockInv ==
  /\ at \in {"enable", "program", "unmask"} => bound
  /\ at \in Early => armed = FALSE /\ (~machine.stale => ctl = "off")
  /\ at \in Early \cup {"unmask"} => fired = 0
  /\ at = "unmask" \/ at \in Armed => armed /\ bound
  /\ at = "unmask" \/ (at \in Armed /\ fired = 0) => ctl = "on"
  /\ fired = 0 => proof = "none"
  /\ fired = 0 /\ ~machine.stale => ~latch
  /\ fired # 0 => ctl = "masked" /\ rdist = "awake"
  /\ at \in Counted => fired # 0
  /\ S11Proves

\* What can stop a boot: bounds that run out, the interrupt the firmware left.
CauseInv ==
  /\ stray => machine.stray
  /\ at = "giveup" => ~machine.patient
  /\ HaltDeserved

IInv == TypeOK /\ OrderInv /\ PeInv /\ ClockInv /\ CauseInv

-----------------------------------------------------------------------------
\* The Boolean variables, which the provers want apart from the others.
FlagsOK ==
  /\ open \in BOOLEAN /\ granted \in BOOLEAN /\ sre \in BOOLEAN /\ iface \in BOOLEAN
  /\ group1 \in BOOLEAN /\ enabled \in BOOLEAN /\ met \in BOOLEAN /\ armed \in BOOLEAN
  /\ latch \in BOOLEAN /\ stray \in BOOLEAN /\ bound \in BOOLEAN

-----------------------------------------------------------------------------
\* Every step keeps the flags Boolean.
LEMMA FlagsStep == TypeOK /\ [Next]_vars => FlagsOK'
<1> SUFFICES ASSUME TypeOK, [Next]_vars PROVE FlagsOK'
  OBVIOUS
<1> USE DEF TypeOK, FlagsOK, stage, pe, gic, clock, signal, lines
<1>1. CASE Drop
  BY <1>1, Zenon DEF Drop, Step, Goto, Grant, Asked
<1>2. CASE Group
  BY <1>2, Zenon DEF Group, Step, Goto
<1>3. CASE Arrive
  BY <1>3, Zenon DEF Arrive, Step, Goto
<1>4. CASE S0
  BY <1>4, Zenon DEF S0, Check, Step, Pass, Follows, Halt
<1>5. CASE S1
  BY <1>5, Zenon DEF S1, Check, Step, Pass, Follows, Halt
<1>6. CASE S2
  BY <1>6, Zenon DEF S2, Check, Step, Pass, Follows, Halt
<1>7. CASE S7
  BY <1>7, Zenon DEF S7, Step, Pass, Follows, Vectors
<1>8. CASE S10
  BY <1>8, Zenon DEF S10, Step, Goto, Halt, Asked
<1>9. CASE Wake
  BY <1>9, Zenon DEF Wake, Step, Pass, Follows
<1>10. ASSUME NEW s \in Deciding, Decide(s) PROVE FlagsOK'
  BY <1>10, Zenon DEF Decide, Deciding, Step, Pass, Follows, Halt
<1>11. CASE S11
  BY <1>11, Zenon DEF S11, Step, Goto, Own
<1>12. CASE Enable
  BY <1>12, Zenon DEF Enable, Step, Goto
<1>13. CASE Program
  BY <1>13, Zenon DEF Program, Step, Goto, Arm, LateLine
<1>14. CASE Unmask
  BY <1>14, Zenon DEF Unmask, Step, Goto
<1>15. CASE See
  BY <1>15, Zenon DEF See, Step, Goto
<1>16. CASE GiveUp
  BY <1>16, Zenon DEF GiveUp, Step, Goto
<1>17. CASE Report
  BY <1>17, Zenon DEF Report, Step, Halt
<1>18. CASE Mask
  BY <1>18, Zenon DEF Mask, Step, Pass, Follows
<1>19. CASE S13
  BY <1>19, Zenon DEF S13, Step, Goto
<1>20. CASE S14
  BY <1>20, Zenon DEF S14, Step, Pass, Follows, Halt
<1>21. CASE Take
  BY <1>21, Zenon DEF Take, Goto, Signalled
<1>22. CASE IrqTimer
  BY <1>22, Zenon DEF IrqTimer, Ack, Return, LateLine
<1>23. CASE IrqUnbound
  BY <1>23, Zenon DEF IrqUnbound, Halt
<1>24. CASE IrqSpurious
  BY <1>24, Zenon DEF IrqSpurious, Return
<1>25. CASE Tick
  BY <1>25, Zenon DEF Tick
<1>26. CASE FrameWakes
  BY <1>26, Zenon DEF FrameWakes
<1>27. CASE StrayFalls
  BY <1>27, Zenon DEF StrayFalls
<1>29. CASE S12
  BY <1>29, Zenon DEF S12, Step, Goto, Halt
<1>30. CASE Online
  BY <1>30, Zenon DEF Online, Step, Pass, Follows
<1>31. CASE Answered
  BY <1>31, Zenon DEF Answered, Step, Pass, Follows
<1>32. CASE RunOut
  BY <1>32, Zenon DEF RunOut, Step, Halt
<1>28. CASE Stay \/ UNCHANGED vars
  BY <1>28, Zenon DEF Stay, vars
<1> QED
  BY <1>1, <1>2, <1>3, <1>4, <1>5, <1>6, <1>7, <1>8, <1>9, <1>10, <1>11, <1>12, <1>13,
       <1>14, <1>15, <1>16, <1>17, <1>18, <1>19, <1>20, <1>21, <1>22, <1>23, <1>24,
       <1>25, <1>26, <1>27, <1>28, <1>29, <1>30, <1>31, <1>32 DEF Next, BootStep, IrqStep

\* Every step keeps every variable in its type.
LEMMA TypeStep == TypeOK /\ [Next]_vars => TypeOK'
<1> SUFFICES ASSUME TypeOK, [Next]_vars PROVE TypeOK'
  OBVIOUS
<1> USE DEF TypeOK, Labels, stage, pe, gic, clock, signal, lines
<1>0. FlagsOK'
  BY FlagsStep
<1> USE DEF FlagsOK
<1>1. CASE Drop
  BY <1>1, <1>0 DEF Drop, Step, Goto, Grant, Asked
<1>2. CASE Group
  BY <1>2, <1>0 DEF Group, Step, Goto, Stages
<1>3. CASE Arrive
  BY <1>3, <1>0 DEF Arrive, Step, Goto, Stages
<1>4. CASE S0
  BY <1>4, <1>0 DEF S0, Check, Step, Pass, Follows, Halt, Stages
<1>5. CASE S1
  BY <1>5, <1>0 DEF S1, Check, Step, Pass, Follows, Halt, Stages
<1>6. CASE S2
  BY <1>6, <1>0 DEF S2, Check, Step, Pass, Follows, Halt, Stages
<1>7. CASE S7
  BY <1>7, <1>0 DEF S7, Step, Pass, Follows, Vectors, Stages
<1>8. CASE S10
  BY <1>8, <1>0 DEF S10, Step, Goto, Halt, Asked
<1>9. CASE Wake
  BY <1>9, <1>0 DEF Wake, Step, Pass, Follows, Stages
<1>10. ASSUME NEW s \in Deciding, Decide(s) PROVE TypeOK'
  BY <1>10, <1>0 DEF Decide, Deciding, Step, Pass, Follows, Halt, Stages
<1>11. CASE S11
  BY <1>11, <1>0 DEF S11, Step, Goto, Own, Stages
<1>12. CASE Enable
  BY <1>12, <1>0 DEF Enable, Step, Goto, Stages
<1>13. CASE Program
  BY <1>13, <1>0 DEF Program, Step, Goto, Arm, LateLine
<1>14. CASE Unmask
  BY <1>14, <1>0 DEF Unmask, Step, Goto, Stages
<1>15. CASE See
  BY <1>15, <1>0 DEF See, Step, Goto, Stages
<1>16. CASE GiveUp
  BY <1>16, <1>0 DEF GiveUp, Step, Goto, Stages
<1>17. CASE Report
  BY <1>17, <1>0 DEF Report, Step, Halt, Stages
<1>18. CASE Mask
  BY <1>18, <1>0 DEF Mask, Step, Pass, Follows, Stages
<1>19. CASE S13
  BY <1>19, <1>0 DEF S13, Step, Goto, Stages
<1>20. CASE S14
  BY <1>20, <1>0 DEF S14, Step, Pass, Follows, Halt, Stages
<1>21. CASE Take
  BY <1>21, <1>0 DEF Take, Goto, Signalled
<1>22. CASE IrqTimer
  BY <1>22, <1>0 DEF IrqTimer, Ack, Return, LateLine, Stages
<1>23. CASE IrqUnbound
  BY <1>23, <1>0 DEF IrqUnbound, Halt, Stages
<1>24. CASE IrqSpurious
  BY <1>24, <1>0 DEF IrqSpurious, Return, Stages
<1>25. CASE Tick
  BY <1>25, <1>0 DEF Tick, Stages
<1>26. CASE FrameWakes
  BY <1>26, <1>0 DEF FrameWakes, Stages
<1>27. CASE StrayFalls
  BY <1>27, <1>0 DEF StrayFalls, Stages
<1>29. CASE S12
  <2>1. CASE machine.fault = "refused"
    BY <1>29, <1>0, <2>1 DEF S12, Step, Halt, Stages
  <2>2. CASE machine.fault # "refused"
    <3>1. at' = "await" /\ why' = why /\ done' = done /\ irq' = irq
      BY <1>29, <2>2 DEF S12, Goto
    <3>2. machine' = machine /\ vbar' = vbar /\ rdist' = rdist /\ ctl' = ctl
          /\ fired' = fired /\ proof' = proof
      BY <1>29 DEF S12
    <3> QED
      BY <1>0, <3>1, <3>2 DEF Stages
  <2> QED
    BY <2>1, <2>2
<1>30. CASE Online
  BY <1>30, <1>0 DEF Online, Step, Pass, Follows, Stages
<1>31. CASE Answered
  BY <1>31, <1>0 DEF Answered, Step, Pass, Follows, Stages
<1>32. CASE RunOut
  BY <1>32, <1>0 DEF RunOut, Step, Halt, Stages
<1>28. CASE Stay \/ UNCHANGED vars
  BY <1>28, <1>0 DEF Stay, vars
<1> QED
  BY <1>1, <1>2, <1>3, <1>4, <1>5, <1>6, <1>7, <1>8, <1>9, <1>10, <1>11, <1>12, <1>13,
       <1>14, <1>15, <1>16, <1>17, <1>18, <1>19, <1>20, <1>21, <1>22, <1>23, <1>24,
       <1>25, <1>26, <1>27, <1>28, <1>29, <1>30, <1>31, <1>32 DEF Next, BootStep, IrqStep

\* A stage comes after those before it.
LEMMA OrderStep == IInv /\ [Next]_vars => OrderInv'
<1> SUFFICES ASSUME IInv, [Next]_vars PROVE OrderInv'
  OBVIOUS
<1> USE DEF IInv, OrderInv, PeInv, TypeOK, Opened, Armed, Past0, Past3, Past4, Past5,
     Past6, Past7, Past8, Past9, Past10, Past11, Past12, Past13, Past14, stage, pe, gic,
     clock, signal, lines
<1>1. CASE Drop
  BY <1>1 DEF Drop, Step, Goto, Grant, Asked
<1>2. CASE Group
  BY <1>2 DEF Group, Step, Goto
<1>3. CASE Arrive
  BY <1>3 DEF Arrive, Step, Goto
<1>4. CASE S0
  BY <1>4 DEF S0, Check, Step, Pass, Follows, Halt
<1>5. CASE S1
  BY <1>5 DEF S1, Check, Step, Pass, Follows, Halt
<1>6. CASE S2
  BY <1>6 DEF S2, Check, Step, Pass, Follows, Halt
<1>7. CASE S7
  BY <1>7 DEF S7, Step, Pass, Follows, Vectors
<1>8. CASE S10
  BY <1>8 DEF S10, Step, Goto, Halt, Asked
<1>9. CASE Wake
  BY <1>9 DEF Wake, Step, Pass, Follows
<1>10. ASSUME NEW s \in Deciding, Decide(s) PROVE OrderInv'
  BY <1>10 DEF Decide, Deciding, Step, Pass, Follows, Halt
<1>11. CASE S11
  BY <1>11 DEF S11, Step, Goto, Own
<1>12. CASE Enable
  BY <1>12 DEF Enable, Step, Goto
<1>13. CASE Program
  BY <1>13 DEF Program, Step, Goto, Arm, LateLine
<1>14. CASE Unmask
  BY <1>14 DEF Unmask, Step, Goto
<1>15. CASE See
  BY <1>15 DEF See, Step, Goto
<1>16. CASE GiveUp
  BY <1>16 DEF GiveUp, Step, Goto
<1>17. CASE Report
  BY <1>17 DEF Report, Step, Halt
<1>18. CASE Mask
  BY <1>18 DEF Mask, Step, Pass, Follows
<1>19. CASE S13
  BY <1>19 DEF S13, Step, Goto
<1>20. CASE S14
  BY <1>20 DEF S14, Step, Pass, Follows, Halt
<1>21. CASE Take
  BY <1>21 DEF Take, Goto, Signalled
<1>22. CASE IrqTimer
  BY <1>22 DEF IrqTimer, Ack, Return, LateLine
<1>23. CASE IrqUnbound
  BY <1>23 DEF IrqUnbound, Halt
<1>24. CASE IrqSpurious
  BY <1>24 DEF IrqSpurious, Return
<1>25. CASE Tick
  BY <1>25 DEF Tick
<1>26. CASE FrameWakes
  BY <1>26 DEF FrameWakes
<1>27. CASE StrayFalls
  BY <1>27 DEF StrayFalls
<1>29. CASE S12
  BY <1>29 DEF S12, Step, Goto, Halt
<1>30. CASE Online
  BY <1>30 DEF Online, Step, Pass, Follows
<1>31. CASE Answered
  BY <1>31 DEF Answered, Step, Pass, Follows
<1>32. CASE RunOut
  BY <1>32 DEF RunOut, Step, Halt
<1>28. CASE Stay \/ UNCHANGED vars
  BY <1>28 DEF Stay, vars
<1> QED
  BY <1>1, <1>2, <1>3, <1>4, <1>5, <1>6, <1>7, <1>8, <1>9, <1>10, <1>11, <1>12, <1>13,
       <1>14, <1>15, <1>16, <1>17, <1>18, <1>19, <1>20, <1>21, <1>22, <1>23, <1>24,
       <1>25, <1>26, <1>27, <1>28, <1>29, <1>30, <1>31, <1>32 DEF Next, BootStep, IrqStep

\* Interrupts are open only under the full vectors.
LEMMA PeStep == IInv /\ [Next]_vars => PeInv'
<1> SUFFICES ASSUME IInv, [Next]_vars PROVE PeInv'
  OBVIOUS
<1> USE DEF IInv, PeInv, TypeOK, Opened, Armed, stage, pe, gic, clock, signal, lines
<1>1. CASE Drop
  BY <1>1 DEF Drop, Step, Goto, Grant, Asked
<1>2. CASE Group
  BY <1>2 DEF Group, Step, Goto
<1>3. CASE Arrive
  BY <1>3 DEF Arrive, Step, Goto
<1>4. CASE S0
  BY <1>4 DEF S0, Check, Step, Pass, Follows, Halt
<1>5. CASE S1
  BY <1>5 DEF S1, Check, Step, Pass, Follows, Halt
<1>6. CASE S2
  BY <1>6 DEF S2, Check, Step, Pass, Follows, Halt
<1>7. CASE S7
  BY <1>7 DEF S7, Step, Pass, Follows, Vectors
<1>8. CASE S10
  BY <1>8 DEF S10, Step, Goto, Halt, Asked
<1>9. CASE Wake
  BY <1>9 DEF Wake, Step, Pass, Follows
<1>10. ASSUME NEW s \in Deciding, Decide(s) PROVE PeInv'
  BY <1>10 DEF Decide, Deciding, Step, Pass, Follows, Halt
<1>11. CASE S11
  BY <1>11 DEF S11, Step, Goto, Own
<1>12. CASE Enable
  BY <1>12 DEF Enable, Step, Goto
<1>13. CASE Program
  BY <1>13 DEF Program, Step, Goto, Arm, LateLine
<1>14. CASE Unmask
  BY <1>14 DEF Unmask, Step, Goto
<1>15. CASE See
  BY <1>15 DEF See, Step, Goto
<1>16. CASE GiveUp
  BY <1>16 DEF GiveUp, Step, Goto
<1>17. CASE Report
  BY <1>17 DEF Report, Step, Halt
<1>18. CASE Mask
  BY <1>18 DEF Mask, Step, Pass, Follows
<1>19. CASE S13
  BY <1>19 DEF S13, Step, Goto
<1>20. CASE S14
  BY <1>20 DEF S14, Step, Pass, Follows, Halt
<1>21. CASE Take
  BY <1>21 DEF Take, Goto, Signalled
<1>22. CASE IrqTimer
  BY <1>22 DEF IrqTimer, Ack, Return, LateLine
<1>23. CASE IrqUnbound
  BY <1>23 DEF IrqUnbound, Halt
<1>24. CASE IrqSpurious
  BY <1>24 DEF IrqSpurious, Return
<1>25. CASE Tick
  BY <1>25 DEF Tick
<1>26. CASE FrameWakes
  BY <1>26 DEF FrameWakes
<1>27. CASE StrayFalls
  BY <1>27 DEF StrayFalls
<1>29. CASE S12
  BY <1>29 DEF S12, Step, Goto, Halt
<1>30. CASE Online
  BY <1>30 DEF Online, Step, Pass, Follows
<1>31. CASE Answered
  BY <1>31 DEF Answered, Step, Pass, Follows
<1>32. CASE RunOut
  BY <1>32 DEF RunOut, Step, Halt
<1>28. CASE Stay \/ UNCHANGED vars
  BY <1>28 DEF Stay, vars
<1> QED
  BY <1>1, <1>2, <1>3, <1>4, <1>5, <1>6, <1>7, <1>8, <1>9, <1>10, <1>11, <1>12, <1>13,
       <1>14, <1>15, <1>16, <1>17, <1>18, <1>19, <1>20, <1>21, <1>22, <1>23, <1>24,
       <1>25, <1>26, <1>27, <1>28, <1>29, <1>30, <1>31, <1>32 DEF Next, BootStep, IrqStep

\* What is pending, and what has been counted.
LEMMA ClockStep == IInv /\ [Next]_vars => ClockInv'
<1> SUFFICES ASSUME IInv, [Next]_vars PROVE ClockInv'
  OBVIOUS
<1> USE DEF IInv, ClockInv, S11Proves, PeInv, OrderInv, Counted, Opened, Armed, Early, stage,
     pe, gic, clock, signal, lines
<1>1. CASE Drop
  BY <1>1 DEF Drop, Step, Goto, Grant, Asked
<1>2. CASE Group
  BY <1>2 DEF Group, Step, Goto
<1>3. CASE Arrive
  BY <1>3 DEF Arrive, Step, Goto
<1>4. CASE S0
  BY <1>4 DEF S0, Check, Step, Pass, Follows, Halt
<1>5. CASE S1
  BY <1>5 DEF S1, Check, Step, Pass, Follows, Halt
<1>6. CASE S2
  BY <1>6 DEF S2, Check, Step, Pass, Follows, Halt
<1>7. CASE S7
  BY <1>7 DEF S7, Step, Pass, Follows, Vectors
<1>8. CASE S10
  BY <1>8 DEF S10, Step, Goto, Halt, Asked
<1>9. CASE Wake
  BY <1>9 DEF Wake, Step, Pass, Follows
<1>10. ASSUME NEW s \in Deciding, Decide(s) PROVE ClockInv'
  BY <1>10 DEF Decide, Deciding, Step, Pass, Follows, Halt
<1>11. CASE S11
  BY <1>11 DEF S11, Step, Goto, Own
<1>12. CASE Enable
  BY <1>12 DEF Enable, Step, Goto
<1>13. CASE Program
  BY <1>13 DEF Program, Step, Goto, Arm, LateLine, Line
<1>14. CASE Unmask
  BY <1>14 DEF Unmask, Step, Goto
<1>15. CASE See
  BY <1>15 DEF See, Step, Goto
<1>16. CASE GiveUp
  BY <1>16 DEF GiveUp, Step, Goto
<1>17. CASE Report
  BY <1>17 DEF Report, Step, Halt
<1>18. CASE Mask
  BY <1>18 DEF Mask, Step, Pass, Follows, TypeOK
<1>19. CASE S13
  BY <1>19 DEF S13, Step, Goto
<1>20. CASE S14
  BY <1>20 DEF S14, Step, Pass, Follows, Halt
<1>21. CASE Take
  BY <1>21 DEF Take, Goto, Signalled
<1>22. CASE IrqTimer
  <2> USE <1>22 DEF IrqTimer, Ack, Return, LateLine, Line, TypeOK, TimerSignalled
  <2>1. at \in Opened /\ at' = at /\ done' = done /\ bound' = bound /\ armed' = armed
    OBVIOUS
  <2>2. CASE fired = 0
    <3>1. fired' = 1 /\ ctl' = "masked" /\ rdist' = "awake"
      BY <2>2
    <3>2. proof' = "stale" => machine.stale
      BY <2>1, <2>2
    <3> QED
      BY <2>1, <2>2, <3>1, <3>2
  <2>3. CASE fired # 0
    <3>1. fired = 1 /\ ~Line
      BY <2>3
    <3>2. fired' = 2 /\ ~latch' /\ ctl' = "masked" /\ rdist' = "awake" /\ proof' = proof
      BY <2>3, <3>1
    <3> QED
      BY <2>1, <2>3, <3>1, <3>2
  <2> QED
    BY <2>2, <2>3
<1>23. CASE IrqUnbound
  BY <1>23 DEF IrqUnbound, Halt
<1>24. CASE IrqSpurious
  BY <1>24 DEF IrqSpurious, Return
<1>25. CASE Tick
  BY <1>25 DEF Tick
<1>26. CASE FrameWakes
  BY <1>26 DEF FrameWakes
<1>27. CASE StrayFalls
  BY <1>27 DEF StrayFalls
<1>29. CASE S12
  BY <1>29 DEF S12, Step, Goto, Halt
<1>30. CASE Online
  BY <1>30 DEF Online, Step, Pass, Follows
<1>31. CASE Answered
  BY <1>31 DEF Answered, Step, Pass, Follows
<1>32. CASE RunOut
  BY <1>32 DEF RunOut, Step, Halt
<1>28. CASE Stay \/ UNCHANGED vars
  BY <1>28 DEF Stay, vars
<1> QED
  BY <1>1, <1>2, <1>3, <1>4, <1>5, <1>6, <1>7, <1>8, <1>9, <1>10, <1>11, <1>12, <1>13,
       <1>14, <1>15, <1>16, <1>17, <1>18, <1>19, <1>20, <1>21, <1>22, <1>23, <1>24,
       <1>25, <1>26, <1>27, <1>28, <1>29, <1>30, <1>31, <1>32 DEF Next, BootStep, IrqStep

\* A halt has its cause in the machine.
LEMMA CauseStep == IInv /\ [Next]_vars => CauseInv'
<1> SUFFICES ASSUME IInv, [Next]_vars PROVE CauseInv'
  OBVIOUS
<1> USE DEF IInv, CauseInv, HaltDeserved, Sound, OrderInv, PeInv, TypeOK, stage, pe, gic,
     clock, signal, lines
<1>1. CASE Drop
  BY <1>1 DEF Drop, Step, Goto, Grant, Asked
<1>2. CASE Group
  BY <1>2 DEF Group, Step, Goto
<1>3. CASE Arrive
  BY <1>3 DEF Arrive, Step, Goto
<1>4. CASE S0
  BY <1>4 DEF S0, Check, Step, Pass, Follows, Halt
<1>5. CASE S1
  BY <1>5 DEF S1, Check, Step, Pass, Follows, Halt
<1>6. CASE S2
  BY <1>6 DEF S2, Check, Step, Pass, Follows, Halt
<1>7. CASE S7
  BY <1>7 DEF S7, Step, Pass, Follows, Vectors
<1>8. CASE S10
  BY <1>8 DEF S10, Step, Goto, Halt, Asked
<1>9. CASE Wake
  BY <1>9 DEF Wake, Step, Pass, Follows
<1>10. ASSUME NEW s \in Deciding, Decide(s) PROVE CauseInv'
  BY <1>10 DEF Decide, Deciding, Step, Pass, Follows, Halt
<1>11. CASE S11
  BY <1>11 DEF S11, Step, Goto, Own
<1>12. CASE Enable
  BY <1>12 DEF Enable, Step, Goto
<1>13. CASE Program
  BY <1>13 DEF Program, Step, Goto, Arm, LateLine
<1>14. CASE Unmask
  BY <1>14 DEF Unmask, Step, Goto
<1>15. CASE See
  BY <1>15 DEF See, Step, Goto
<1>16. CASE GiveUp
  BY <1>16 DEF GiveUp, Step, Goto
<1>17. CASE Report
  BY <1>17 DEF Report, Step, Halt
<1>18. CASE Mask
  BY <1>18 DEF Mask, Step, Pass, Follows
<1>19. CASE S13
  BY <1>19 DEF S13, Step, Goto
<1>20. CASE S14
  BY <1>20 DEF S14, Step, Pass, Follows, Halt, Past0, Past3, Past4, Past5, Past6, Past7,
       Past8, Past9, Past10, Past11, Past12, Past13, Past14
<1>21. CASE Take
  BY <1>21 DEF Take, Goto, Signalled
<1>22. CASE IrqTimer
  BY <1>22 DEF IrqTimer, Ack, Return, LateLine
<1>23. CASE IrqUnbound
  BY <1>23 DEF IrqUnbound, Halt, ClockInv, TimerSignalled, StraySignalled, Opened, Armed
<1>24. CASE IrqSpurious
  BY <1>24 DEF IrqSpurious, Return
<1>25. CASE Tick
  BY <1>25 DEF Tick
<1>26. CASE FrameWakes
  BY <1>26 DEF FrameWakes
<1>27. CASE StrayFalls
  BY <1>27 DEF StrayFalls
<1>29. CASE S12
  BY <1>29 DEF S12, Step, Goto, Halt
<1>30. CASE Online
  BY <1>30 DEF Online, Step, Pass, Follows
<1>31. CASE Answered
  BY <1>31 DEF Answered, Step, Pass, Follows
<1>32. CASE RunOut
  BY <1>32 DEF RunOut, Step, Halt
<1>28. CASE Stay \/ UNCHANGED vars
  BY <1>28 DEF Stay, vars
<1> QED
  BY <1>1, <1>2, <1>3, <1>4, <1>5, <1>6, <1>7, <1>8, <1>9, <1>10, <1>11, <1>12, <1>13,
       <1>14, <1>15, <1>16, <1>17, <1>18, <1>19, <1>20, <1>21, <1>22, <1>23, <1>24,
       <1>25, <1>26, <1>27, <1>28, <1>29, <1>30, <1>31, <1>32 DEF Next, BootStep, IrqStep

\* The invariant holds when the entry starts, on every machine.
LEMMA InitInv == Init => IInv
<1> SUFFICES ASSUME Init PROVE IInv
  OBVIOUS
<1>1. FlagsOK
  BY Zenon DEF Init, FlagsOK, Machines
<1>2. TypeOK
  BY <1>1, SMT DEF Init, TypeOK, FlagsOK, Labels, Stages
<1>3. OrderInv
  BY DEF Init, OrderInv, Past0, Past3, Past4, Past5, Past6, Past7, Past8, Past9, Past10,
       Past11, Past12, Past13, Past14
<1>4. PeInv
  BY Zenon DEF Init, PeInv, Opened, Armed
<1>5. ClockInv
  <2>1. latch = FALSE \/ machine.stale
    BY Zenon DEF Init
  <2> QED
    BY <2>1, SMT DEF Init, ClockInv, S11Proves, Opened, Armed, Counted, Early
<1>6. CauseInv
  BY DEF Init, CauseInv, HaltDeserved, Sound
<1> QED
  BY <1>2, <1>3, <1>4, <1>5, <1>6 DEF IInv

\* The whole invariant is inductive.
THEOREM Invariant == Spec => []IInv
<1>1. IInv /\ [Next]_vars => IInv'
  BY TypeStep, OrderStep, PeStep, ClockStep, CauseStep DEF IInv
<1> QED
  BY InitInv, <1>1, PTL DEF Spec

\* The variables stay in their types (nxu_foundation and what it calls).
THEOREM TypeCorrect == Spec => []TypeOK
<1>1. IInv => TypeOK
  BY DEF IInv
<1> QED
  BY Invariant, <1>1, PTL

\* On every machine, every stage finds what it reads and the CPU never traps to the
\* level above nor takes an interrupt it has no vectors for (enter.c, start.S).
THEOREM ReadyAlways == Spec => []Ready
<1>1. IInv => Ready
  BY DEF IInv, TypeOK, OrderInv, Ready, Reads, Labels, Stages, Past0, Past3, Past4,
       Past5, Past6, Past7, Past8, Past9, Past10, Past11, Past12, Past13, Past14
<1> QED
  BY Invariant, <1>1, PTL

\* S11 returns only after an interrupt of the timer, of its own deadline unless the
\* firmware left the timer running; a line that drops late makes one more of it at most;
\* and the frame is awake by then (time.c, signal.c, gicv3.c).
THEOREM DeadlineCounted == Spec => []S11Proves
<1>1. IInv => S11Proves
  BY DEF IInv, ClockInv
<1> QED
  BY Invariant, <1>1, PTL

\* No boot is stopped by the sequence itself: a sound machine whose waits last never
\* halts, no machine halts for a trap or an invariant of the freeze, and an interrupt
\* nobody owns is one the firmware left enabled (fail.c).
THEOREM HaltsAreDeserved == Spec => []HaltDeserved
<1>1. IInv => HaltDeserved
  BY DEF IInv, CauseInv
<1> QED
  BY Invariant, <1>1, PTL
=============================================================================
