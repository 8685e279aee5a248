-------------------------------- MODULE Boot --------------------------------
(***************************************************************************)
(* The boot CPU from reset to the freeze: the drop to EL1 and the residue   *)
(* (silicon/aarch64/entry/start.S), the order of S0 to S14 (foundation/     *)
(* enter.c), the wake of its redistributor at the end of S10, and S11       *)
(* (foundation/time/time.c), which arms the EL1 physical timer once and     *)
(* waits for its interrupt.                                                 *)
(*                                                                         *)
(* Beside the CPU there are the counter, a redistributor that wakes in its  *)
(* own time, and a device whose interrupt the firmware may have left        *)
(* enabled. What a stage decides is in Fdt, Facts, Space, Topology and Smp; *)
(* here it passes, halts, or never returns. The timer's interrupt is        *)
(* level-sensitive, but its pending bit may outlive the line.               *)
(***************************************************************************)
EXTENDS Naturals

VARIABLES
  machine,    \* what NXU is started on, see Machines
  at,         \* the next stage, or the step within S10 and S11
  done,       \* stages that have returned
  why,        \* the nxu_fail that stopped the boot, "none" while it runs
  vbar,       \* vectors in force at EL1
  open,       \* are interrupts unmasked?
  irq,        \* "vector" from the exception to the acknowledge, else "idle"
  granted,    \* CNTHCTL_EL2: may EL1 use CNTP?
  sre,        \* may EL1 use the GIC's system registers?
  iface,      \* ICC_IGRPEN1 and GICD_CTLR: are Group 1 interrupts signalled?
  rdist,      \* the redistributor: "asleep", "asked" to wake, "awake"
  group1,     \* GICR_IGROUPR0 of the timer's PPI
  enabled,    \* GICR_ISENABLER0 of the timer's PPI
  latch,      \* is the timer's PPI pending whatever its line says now?
  ctl,        \* CNTP_CTL: "off", "on", "masked" (ENABLE and IMASK)
  met,        \* has the counter reached the compare?
  armed,      \* history: the compare is the one S11 wrote
  stray,      \* is the line of the left-over interrupt high?
  bound,      \* nxu_sig_timer.enabled
  fired,      \* nxu_cpu[0].timer_fired
  proof       \* history: what the first timer interrupt taken stood for

stage == <<at, done, why>>
pe    == <<vbar, open, irq, granted, sre>>
gic   == <<iface, rdist, group1, enabled>>  \* what the sequence sets up
clock == <<ctl, met, armed>>
signal == <<bound, fired, proof>>
lines == <<latch, stray>>
vars == <<machine, stage, pe, gic, clock, signal, lines>>

\* What may be wrong: with the residue, the header or the facts; a blob the decoder
\* of S3 never leaves (WrapHalts of MCFacts); frames that are not one for each CPU
\* (Topology); CPUs that S12 cannot release, that never say ONLINE, or that do not
\* answer in S13, which may be nobody's fault (EchoAnswered of Smp).
Faults == {"none", "mmu", "stack", "header", "facts", "loop", "gic", "refused", "lost",
           "silent"}

\* What NXU may find: the level it is entered at; what is wrong; two security states;
\* what the firmware did of the timer's group, and the board's row with this CPU's
\* frame when there is no firmware; what the firmware left behind, stale being the
\* timer enabled and its compare in the past; and whether the redistributor ever
\* wakes, and the bounded waits last as long as it takes.
Machines ==
  {m \in [el : 1 .. 3, fault : Faults,
          secure : BOOLEAN, grouped : BOOLEAN, row : BOOLEAN,
          stray : BOOLEAN, stale : BOOLEAN, wakes : BOOLEAN, patient : BOOLEAN] :
     IF m.el = 3 THEN ~m.grouped /\ ~m.stray /\ ~m.stale ELSE ~m.row}

\* nxu_foundation.
Follows(s) ==
  CASE s = "s0" -> "s1" [] s = "s1" -> "s2" [] s = "s2" -> "s3" [] s = "s3" -> "s4"
    [] s = "s4" -> "s5" [] s = "s5" -> "s6" [] s = "s6" -> "s7" [] s = "s7" -> "s8"
    [] s = "s8" -> "s9" [] s = "s9" -> "s10" [] s = "s10" -> "s11" [] s = "s11" -> "s12"
    [] s = "s12" -> "s13" [] s = "s13" -> "s14" [] s = "s14" -> "frozen"

\* The stages whose results a stage reads: the image's footprint (S0), the
\* candidates (S3), the facts (S4), the owners (S5), the tables and the mapped
\* devices (S6), the vectors (S7), the present set (S8), the records (S9), their
\* frames (S10), the timer's signal (S11), the CPUs online (S12).
Reads(s) ==
  CASE s \in {"s2", "s3"} -> {"s0"}
    [] s = "s4" -> {"s0", "s3"}
    [] s = "s5" -> {"s0", "s3", "s4"}
    [] s = "s6" -> {"s0", "s4", "s5"}
    [] s = "s7" -> {"s6"}
    [] s = "s8" -> {"s4"}
    [] s = "s9" -> {"s6", "s8"}
    [] s = "s10" -> {"s4", "s6", "s9"}
    [] s = "s11" -> {"s4", "s7", "s10"}
    [] s = "s12" -> {"s4", "s9", "s10"}
    [] s = "s13" -> {"s7", "s10", "s12"}
    [] s = "s14" -> {"s4", "s6", "s9", "s10", "s11", "s12", "s13"}
    [] s = "frozen" -> {"s4", "s11", "s14"}
    [] OTHER -> {}

Goto(label) == at' = label /\ UNCHANGED <<done, why>>

\* Mutant: the interrupt controller before the CPU records.
PassGicFirst(s) ==
  /\ at' = CASE s = "s8" -> "s10" [] s = "s10" -> "s9" [] s = "s9" -> "s11"
             [] OTHER -> Follows(s)
  /\ done' = done \cup {s} /\ UNCHANGED why
Pass(s) == at' = Follows(s) /\ done' = done \cup {s} /\ UNCHANGED why

\* nxu_fail: interrupts stay as they are through the report and are masked at its
\* end; the report itself is in Chronicle.
Halt(code) == at' = "halt" /\ why' = code /\ open' = FALSE /\ irq' = "idle" /\ UNCHANGED done

\* A step of the stages: no handler is under way.
Step(label) == at = label /\ irq = "idle"

-----------------------------------------------------------------------------
(* From reset to EL1                                                        *)

Asked == IF rdist = "awake" THEN "awake" ELSE "asked"

\* Mutant: the drop leaves EL1 without the physical timer.
GrantNothing == granted
Grant == TRUE

\* el3_to_el1, el2_to_el1: EL1 gets the counter, the timer and the GIC's system
\* registers from the level above. At EL3 the board's row leads to the frame of
\* this CPU, which is asked to wake.
Drop ==
  /\ Step("reset")
  /\ IF machine.el = 1 THEN UNCHANGED <<granted, sre>> ELSE granted' = Grant /\ sre' = TRUE
  /\ IF machine.el = 3 /\ machine.row
     THEN Goto("group") /\ rdist' = Asked
     ELSE Goto("arrive") /\ UNCHANGED rdist
  /\ UNCHANGED <<machine, vbar, open, irq, iface, group1, enabled, clock, signal, lines>>

\* The wait for the frame is bounded; what a sleeping frame is told is lost.
Group ==
  /\ Step("group") /\ (rdist = "awake" \/ ~machine.patient)
  /\ group1' = (group1 \/ rdist = "awake")
  /\ Goto("arrive")
  /\ UNCHANGED <<machine, pe, iface, rdist, enabled, clock, signal, lines>>

\* el1_arrive: residue, stack, and vectors that halt.
Arrive ==
  /\ Step("arrive")
  /\ vbar' = "halt"
  /\ Goto("s0")
  /\ UNCHANGED <<machine, open, irq, granted, sre, gic, clock, signal, lines>>

-----------------------------------------------------------------------------
(* Stages that pass, halt or never return                                   *)

\* SCTLR.M, the stack and the image header are looked at in S0, S1 and S2. The
\* other checks of S1 hold by what el1_arrive does.
Check(s, fault) ==
  /\ Step(s)
  /\ IF machine.fault = fault
     THEN Halt(fault)
     ELSE Pass(s) /\ UNCHANGED <<open, irq>>
  /\ UNCHANGED <<machine, vbar, granted, sre, gic, clock, signal, lines>>

S0 == Check("s0", "mmu")
S1 == Check("s1", "stack")
S2 == Check("s2", "header")

\* fdt.c:294: the loop of S3 need not end.
Looping == at = "s3" /\ machine.fault = "loop"

\* S3 to S6, S8 and S9: somewhere among them the facts do not do.
Decide(s) ==
  /\ Step(s) /\ ~Looping
  /\ \/ Pass(s) /\ UNCHANGED <<open, irq>>
     \/ machine.fault = "facts" /\ Halt("facts")
  /\ UNCHANGED <<machine, vbar, granted, sre, gic, clock, signal, lines>>

Vectors == "full"
S7 ==
  /\ Step("s7")
  /\ vbar' = Vectors
  /\ Pass("s7")
  /\ UNCHANGED <<machine, open, irq, granted, sre, gic, clock, signal, lines>>

-----------------------------------------------------------------------------
(* S10 and S11                                                              *)

\* nxu_s10_gic: the frames, then the CPU interface, the distributor, and this CPU's
\* frame asked to wake.
S10 ==
  /\ Step("s10")
  /\ \/ machine.fault = "gic" /\ Halt("gic") /\ UNCHANGED <<iface, rdist>>
     \/ machine.fault # "gic" /\ ~sre /\ Halt("sync") /\ UNCHANGED <<iface, rdist>>
     \/ /\ machine.fault # "gic" /\ sre
        /\ Goto("wake") /\ iface' = TRUE /\ rdist' = Asked /\ UNCHANGED <<open, irq>>
  /\ UNCHANGED <<machine, vbar, granted, sre, group1, enabled, clock, signal, lines>>

\* nxu_gicr_wake returns when the frame is awake, and when its bound runs out.
Wake ==
  /\ Step("wake") /\ (rdist = "awake" \/ ~machine.patient)
  /\ Pass("s10")
  /\ UNCHANGED <<machine, pe, gic, clock, signal, lines>>

\* Mutant: the signal has no owner yet.
OwnLate == bound
Own == TRUE
S11 ==
  /\ Step("s11")
  /\ bound' = Own /\ fired' = 0
  /\ Goto("enable")
  /\ UNCHANGED <<machine, pe, gic, clock, proof, lines>>

\* gicr_frame_enable: the group, which only one security state may change from
\* here, and the enable.
Enable ==
  /\ Step("enable")
  /\ group1' = (group1 \/ (rdist = "awake" /\ ~machine.secure))
  /\ enabled' = (enabled \/ rdist = "awake")
  /\ Goto("program")
  /\ UNCHANGED <<machine, pe, iface, rdist, clock, signal, lines>>

\* Mutant: the timer is switched on with the compare it had.
ArmControlOnly == ctl' = "on" /\ UNCHANGED <<met, armed>>
Arm == ctl' = "on" /\ met' = FALSE /\ armed' = TRUE

\* The level of the timer's PPI, and what a change of it leaves pending: the line
\* may drop late and be seen again.
Line == ctl = "on" /\ met
LateLine(was) == latch' \in (IF Line THEN BOOLEAN ELSE {was})

\* nxu_timer_program: TVAL, then CTL, and the pending bit as it is. Without the grant
\* the access traps to EL2, whose vectors spin.
Program ==
  /\ Step("program")
  /\ IF granted THEN Arm /\ Goto("unmask") /\ LateLine(latch)
                ELSE Goto("stuck") /\ UNCHANGED <<clock, latch>>
  /\ UNCHANGED <<machine, pe, gic, signal, stray>>

Unmask ==
  /\ Step("unmask")
  /\ open' = TRUE
  /\ Goto("spin")
  /\ UNCHANGED <<machine, vbar, irq, granted, sre, gic, clock, signal, lines>>

See ==
  /\ Step("spin") /\ fired # 0
  /\ Goto("mask")
  /\ UNCHANGED <<machine, pe, gic, clock, signal, lines>>

\* Ten million spins have seen nothing. Interrupts are still open.
GiveUp ==
  /\ Step("spin") /\ fired = 0 /\ ~machine.patient
  /\ Goto("giveup")
  /\ UNCHANGED <<machine, pe, gic, clock, signal, lines>>

\* ISTATUS is read; IMASK does not clear it.
Report ==
  /\ Step("giveup")
  /\ Halt(IF met THEN "timer_met" ELSE "timer")
  /\ UNCHANGED <<machine, vbar, granted, sre, gic, clock, signal, lines>>

Mask ==
  /\ Step("mask")
  /\ open' = FALSE
  /\ Pass("s11")
  /\ UNCHANGED <<machine, vbar, irq, granted, sre, gic, clock, signal, lines>>

-----------------------------------------------------------------------------
(* S12 and S13, whose other side is in Smp                                  *)

\* nxu_s12_smp: no method, or PSCI refuses; else it waits for each CPU's word.
S12 ==
  /\ Step("s12")
  /\ IF machine.fault = "refused"
     THEN Halt("psci")
     ELSE Goto("await") /\ UNCHANGED <<open, irq>>
  /\ UNCHANGED <<machine, vbar, granted, sre, gic, clock, signal, lines>>

Online ==
  /\ Step("await") /\ machine.fault # "lost"
  /\ Pass("s12")
  /\ UNCHANGED <<machine, pe, gic, clock, signal, lines>>

\* nxu_s13_ipi opens the interrupts for good, and waits for counts and answers.
S13 ==
  /\ Step("s13")
  /\ open' = TRUE
  /\ Goto("ipi")
  /\ UNCHANGED <<machine, vbar, irq, granted, sre, gic, clock, signal, lines>>

Answered ==
  /\ Step("ipi") /\ machine.fault # "silent"
  /\ Pass("s13")
  /\ UNCHANGED <<machine, pe, gic, clock, signal, lines>>

\* Each of these waits is bounded.
RunOut ==
  /\ (Step("await") \/ Step("ipi")) /\ ~machine.patient
  /\ Halt("timeout")
  /\ UNCHANGED <<machine, vbar, granted, sre, gic, clock, signal, lines>>

\* The freeze looks at what S4, S6 and S10 established; the CPUs are in Smp.
S14 ==
  /\ Step("s14")
  /\ IF {"s4", "s6", "s10"} \subseteq done
     THEN Pass("s14") /\ UNCHANGED <<open, irq>>
     ELSE Halt("invariant")
  /\ UNCHANGED <<machine, vbar, granted, sre, gic, clock, signal, lines>>

-----------------------------------------------------------------------------
(* The interrupt                                                            *)

TimerSignalled == (latch \/ Line) /\ enabled /\ group1 /\ rdist = "awake"
StraySignalled == stray /\ rdist = "awake"
Signalled == iface /\ (TimerSignalled \/ StraySignalled)

\* The exception masks interrupts; only the full vectors lead to nxu_irq_c.
Take ==
  /\ open /\ irq = "idle" /\ Signalled
  /\ open' = FALSE
  /\ IF vbar = "full" THEN irq' = "vector" /\ UNCHANGED stage
                      ELSE Goto("stuck") /\ UNCHANGED irq
  /\ UNCHANGED <<machine, vbar, granted, sre, gic, clock, signal, lines>>

\* The return from the handler opens the interrupts again.
Return == irq' = "idle" /\ open' = TRUE

Ack == "masked"

\* The acknowledge takes the pending bit; the timer is masked before the end of the
\* interrupt, and its line may still be seen after it.
IrqTimer ==
  /\ irq = "vector" /\ TimerSignalled /\ bound
  /\ fired' = fired + 1
  /\ proof' = IF fired # 0 THEN proof ELSE IF armed /\ met THEN "deadline" ELSE "stale"
  /\ ctl' = Ack /\ LateLine(FALSE)
  /\ Return
  /\ UNCHANGED <<machine, stage, vbar, granted, sre, gic, met, armed, bound, stray>>

IrqUnbound ==
  /\ irq = "vector" /\ (StraySignalled \/ (TimerSignalled /\ ~bound))
  /\ Halt("unbound")
  /\ UNCHANGED <<machine, vbar, granted, sre, gic, clock, signal, lines>>

\* The line fell before the acknowledge, which returns 1023.
IrqSpurious ==
  /\ irq = "vector" /\ ~Signalled
  /\ Return
  /\ UNCHANGED <<machine, stage, vbar, granted, sre, gic, clock, signal, lines>>

-----------------------------------------------------------------------------
(* The machine                                                              *)

Tick ==
  /\ ctl # "off" /\ ~met
  /\ met' = TRUE
  /\ UNCHANGED <<machine, stage, pe, gic, ctl, armed, signal, lines>>

FrameWakes ==
  /\ rdist = "asked" /\ machine.wakes
  /\ rdist' = "awake"
  /\ UNCHANGED <<machine, stage, pe, iface, group1, enabled, clock, signal, lines>>

StrayFalls ==
  /\ stray /\ stray' = FALSE
  /\ UNCHANGED <<machine, stage, pe, gic, clock, signal, latch>>

\* One more turn of a loop that waits.
Stay ==
  /\ at \in {"group", "wake", "spin", "await", "ipi", "frozen", "halt", "stuck"} \/ Looping
  /\ UNCHANGED vars

-----------------------------------------------------------------------------
Init ==
  /\ machine \in Machines
  /\ at = "reset" /\ done = {} /\ why = "none"
  /\ vbar = "firmware" /\ open = FALSE /\ irq = "idle"
  /\ granted = (machine.el = 1) /\ sre = (machine.el = 1)
  /\ iface = FALSE /\ group1 = machine.grouped
  /\ rdist \in (IF machine.el = 3 THEN {"asleep"} ELSE {"asleep", "awake"})
  /\ enabled = machine.stale /\ stray = machine.stray
  /\ ctl = IF machine.stale THEN "on" ELSE "off"
  /\ met = machine.stale /\ armed = FALSE
  /\ latch \in (IF machine.stale THEN BOOLEAN ELSE {FALSE})
  /\ bound = FALSE /\ fired = 0 /\ proof = "none"

Deciding == {"s3", "s4", "s5", "s6", "s8", "s9"}

BootStep ==
  \/ Drop \/ Group \/ Arrive \/ S0 \/ S1 \/ S2 \/ S7 \/ S10 \/ Wake
  \/ \E s \in Deciding : Decide(s)
  \/ S11 \/ Enable \/ Program \/ Unmask \/ See \/ GiveUp \/ Report \/ Mask
  \/ S12 \/ Online \/ S13 \/ Answered \/ RunOut \/ S14
IrqStep == Take \/ IrqTimer \/ IrqUnbound \/ IrqSpurious

Next == BootStep \/ IrqStep \/ Tick \/ FrameWakes \/ StrayFalls \/ Stay

Spec == Init /\ [][Next]_vars

\* The CPU goes on, also past a bound that has run out, an open interrupt is taken,
\* the counter counts, and a frame that wakes at all wakes some time.
Fairness == WF_vars(BootStep) /\ WF_vars(IrqStep) /\ WF_vars(Tick) /\ WF_vars(FrameWakes)

FairSpec == Spec /\ Fairness

-----------------------------------------------------------------------------
(* Properties                                                               *)

Stages == {"s0", "s1", "s2", "s3", "s4", "s5", "s6", "s7", "s8", "s9", "s10", "s11",
           "s12", "s13", "s14"}
Labels == Stages \cup {"reset", "group", "arrive", "wake", "enable", "program", "unmask",
                       "spin", "giveup", "mask", "await", "ipi", "frozen", "halt",
                       "stuck"}

TypeOK ==
  /\ machine \in Machines
  /\ at \in Labels /\ done \subseteq Stages
  /\ why \in {"none", "mmu", "stack", "header", "facts", "gic", "sync", "unbound", "timer",
              "timer_met", "psci", "timeout", "invariant"}
  /\ vbar \in {"firmware", "halt", "full"} /\ open \in BOOLEAN /\ irq \in {"idle", "vector"}
  /\ granted \in BOOLEAN /\ sre \in BOOLEAN /\ iface \in BOOLEAN
  /\ rdist \in {"asleep", "asked", "awake"} /\ group1 \in BOOLEAN /\ enabled \in BOOLEAN
  /\ ctl \in {"off", "on", "masked"} /\ met \in BOOLEAN /\ armed \in BOOLEAN
  /\ latch \in BOOLEAN /\ stray \in BOOLEAN /\ bound \in BOOLEAN /\ fired \in Nat
  /\ proof \in {"none", "stale", "deadline"}

\* Every stage finds what it reads, and the CPU is never lost: from any level it
\* is entered at, no access traps to the level above, and no interrupt comes
\* before the vectors that can take it (enter.c:16, "ownership-phase order; no use
\* before ownership"; exception.c:9, "VBAR is NXU's before unmask").
Ready == Reads(at) \subseteq done /\ at # "stuck"

\* What S11 proves when it returns (time.c:134-155, signal.c:51-56): an interrupt of
\* the timer was taken, and unless the firmware had left the timer running, it came
\* when the compare S11 wrote had been reached. The handler masks the timer, so what
\* S13 lets in can be at most one more, of a line that dropped late. And the
\* boot CPU's frame is awake, which S10 did not make sure of: what S13 enables is kept.
S11Proves ==
  /\ fired <= 2 /\ (proof = "stale" => machine.stale)
  /\ fired = 2 => ctl = "masked" /\ ~latch
  /\ "s11" \in done => fired >= 1 /\ ctl = "masked" /\ rdist = "awake"

\* A machine with nothing wrong on which an interrupt of the timer can be delivered:
\* its frame wakes, the PPI gets into Group 1 from one side or the other, and no
\* other interrupt was left enabled.
Sound ==
  /\ machine.fault = "none" /\ machine.wakes /\ ~machine.stray
  /\ machine.secure => machine.grouped \/ machine.row

\* The sequence itself never stops a boot: not on a sound machine whose waits last,
\* wherever the interrupts come and whatever of the timer was left pending; on any
\* machine not by a trap or an invariant of the freeze, and by an interrupt
\* without an owner only if the firmware left one enabled (signal.c:63,
\* exception.c:37-63, freeze.c:46-57).
HaltDeserved ==
  at = "halt" =>
    /\ ~(Sound /\ machine.patient)
    /\ why = "unbound" => machine.stray
    /\ why \notin {"none", "sync", "invariant"}

\* A sound machine whose waits last gets to the freeze: the sequence sets up all that
\* the first deadline needs, whatever level it begins at. With the code's bounds every
\* boot ends, halted or frozen, if the decoder leaves the blob (time.c:138-152,
\* gicv3.c:139-152, 184-209, smp.c:133-137, signal.c:162-167, 216-222).
BootEnds ==
  IF machine.patient THEN Sound => <>(at = "frozen")
  ELSE machine.fault # "loop" => <>(at \in {"frozen", "halt"})

\* genesis v2.md:493, of S11: "Deadline fires."
OwnDeadline == proof # "stale"

\* gicv3.c:180-182: "this must succeed before any ISENABLER programming is
\* trusted".
WakeBeforeEnable == at = "enable" => rdist = "awake"
==============================================================================
