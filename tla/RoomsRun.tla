------------------------------ MODULE RoomsRun ------------------------------
(***************************************************************************)
(* nxu_rooms_run (foundation/room/room.c) with the programs it really runs  *)
(* (foundation/room/room_entry.S).  Every step is a step of Room.tla, which *)
(* allows any program and any order of calls, narrowed by the script and by *)
(* the next instruction of the program, or one of the script's own checks.  *)
(***************************************************************************)
EXTENDS Room, Sequences

CONSTANTS
  Other,      \* every word that is neither zero nor PAYLOAD: 1, 0x1111
  Canary,     \* CANARY0, CANARY1
  UartValid   \* has the board a UART?

ASSUME RoomsRunAssumption ==
  /\ Other \in Payloads \ {PAYLOAD, Blank}
  /\ UartValid \in BOOLEAN
  /\ CountMod > 10      \* the script counts ten pulses

VARIABLES
  quiet,      \* does the clock wait for the programs, and is no interrupt spurious?
  line,       \* the next line of the script
  ip,         \* the next instruction of the running program
  words,      \* words 2, 3 and 4 of the data pages
  first,      \* the first instruction of the code pages: a program, or zero
  d,          \* send_once: delivered before the run
  rej         \* rejected as the script last noted it

here == <<quiet, line, ip, words, first, d, rej>>
allVars == <<vars, here>>

-----------------------------------------------------------------------------
(* room_entry.S.  x0 is the data page of the room, x1 the address given to   *)
(* nxu_room_enter; x2 holds what is stored.                                 *)

Own(word, value) == [op |-> "str", page |-> "own", word |-> word, value |-> value]
Give(value)      == [op |-> "str", page |-> "x1", word |-> 4, value |-> value]
Do(op)           == [op |-> op, page |-> "x1", word |-> 4, value |-> Blank]

Message2(w0, w1) == << Own(0, w0), Own(1, w1) >>
SayOnly == << Do("pulse") >>
Say == << Do("pulse"), Do("svc0") >>

Program(blob) ==
  CASE blob = "fault" -> << Do("ldr"), Do("svc0") >>
    [] blob = "store" -> << Give(Blank), Do("svc0") >>
    [] blob = "exec"  -> << Do("br") >>
    [] blob = "steal" -> << Do("msr"), Do("svc0") >>
    [] blob = "send"  -> Message2(1, PAYLOAD) \o << Own(2, Other), Own(3, Other) >> \o Say
    [] blob = "mal"   -> Message2(0, PAYLOAD) \o Say
    [] blob = "pay"   -> Message2(1, Other) \o Say
    [] blob = "bad"   -> << Do("pulse-x1"), Do("svc0") >>
    [] blob = "reply" -> Message2(0, PAYLOAD) \o Say
    [] blob = "recv"  -> << Do("copy"), Do("svc0") >>
    [] blob = "spin"  -> << Do("b") >>

-----------------------------------------------------------------------------
(* The script.                                                               *)

RunBlob(r, blob, at, want) ==
  [do |-> "run", room |-> r, blob |-> blob, at |-> at, want |-> want, poke |-> FALSE]
Poked(run) == [run EXCEPT !.poke = TRUE]
Check(what) == [do |-> "check", what |-> what]
Note == [do |-> "note"]

\* contained, early_svc, send_once
Contained(r, blob, at) == << RunBlob(r, blob, at, "fault") >>
Early(r, blob, at) == << RunBlob(r, blob, at, "svc") >>
SendOnce == Early(0, "send", Kernel) \o << Check("sent") >>

RootContained ==
  Contained(0, "fault", Kernel) \o << Check("canary1") >> \o
  Contained(0, "fault", Data(1)) \o << Check("canary1") >> \o
  Contained(0, "store", Data(1)) \o << Check("canary1") >> \o
  Contained(0, "exec", Data(0)) \o
  Contained(0, "exec", Code(1)) \o << Check("canary1") >> \o
  Contained(0, "store", Code(0)) \o << Check("code0") >> \o
  (IF UartValid THEN Contained(0, "fault", Uart) ELSE << >>)

BadPulses ==
  << Check("refuse"), Note >> \o
  Early(0, "mal", Kernel) \o Early(0, "pay", Kernel) \o Early(0, "bad", Kernel) \o
  << Check("three-rejected"), Check("slot-empty"), Check("refuse"), Check("canary1") >>

OneEntry ==
  SendOnce \o SendOnce \o << Check("slot-filled"), Check("canary1") >> \o
  Early(1, "recv", Kernel) \o << Check("received"), Check("refuse"), Check("canary0") >>

OtherContained ==
  SendOnce \o Contained(1, "store", Data(0)) \o << Check("canary0"), Check("canary1") >> \o
  SendOnce \o Contained(1, "fault", Kernel) \o
  SendOnce \o Contained(1, "exec", Code(0)) \o
  SendOnce \o Contained(1, "store", Code(1)) \o << Check("code1") >> \o
  SendOnce \o Contained(1, "steal", Kernel) \o << Check("cval") >>

Ends ==
  << Note >> \o SendOnce \o Early(1, "reply", Kernel) \o
  << Check("one-rejected"), Check("refuse") >> \o
  SendOnce \o << Poked(RunBlob(1, "spin", Kernel, "foreign")) >> \o
  << Check("canary0"), Check("canary1") >> \o
  SendOnce \o << RunBlob(1, "spin", Kernel, "irq"), Check("canary0") >>

Script == RootContained \o BadPulses \o OneEntry \o OtherContained \o Ends

At == Script[line]
Finished == line > Len(Script)

Holds(what) ==
  CASE what = "canary0" -> words[0][4] = Canary
    [] what = "canary1" -> words[1][4] = Canary
    [] what = "code0"   -> first[0] = "store"
    [] what = "code1"   -> first[1] = "store"
    [] what = "refuse"  -> grant # 1
    [] what = "three-rejected" -> rejected >= rej + 3
    [] what = "one-rejected"   -> rejected = rej + 1
    [] what = "slot-empty"  -> mem[Data(1)].pay = Blank
    [] what = "slot-filled" -> mem[Data(1)].pay = PAYLOAD /\ words[1][3] = Blank
    [] what = "received"    -> words[1][2] = PAYLOAD
    [] what = "cval" -> left = armed
    [] what = "sent" -> delivered = d + 1

-----------------------------------------------------------------------------
(* The kernel's side.                                                        *)

RunInit ==
  /\ quiet \in BOOLEAN
  /\ Init /\ line = 1 /\ ip = 1 /\ d = 0 /\ rej = 0
  /\ words = [r \in Rooms |-> [w \in 2 .. 4 |-> Other]]
  /\ first = [r \in Rooms |-> "zero"]

\* clear_page and plant.
Start ==
  /\ Setup
  /\ words' = [r \in Rooms |-> [w \in 2 .. 4 |-> IF w = 4 THEN Canary ELSE Blank]]
  /\ UNCHANGED <<quiet, line, ip, first, d, rej>>

\* No call of run wipes.
RunLine ==
  /\ ~Finished /\ At.do = "run"
  /\ \/ RunRefused(At.room) /\ UNCHANGED here
     \/ /\ \E blob \in Blobs : Run(At.room, blob)
        /\ first' = [first EXCEPT ![At.room] = At.blob]
        /\ d' = IF At.blob = "send" THEN delivered ELSE d
        /\ ip' = 1
        /\ UNCHANGED <<quiet, line, words, rej>>
     \/ Arm(At.poke) /\ UNCHANGED here
     \/ (EnterLate \/ Enter) /\ UNCHANGED here
     \/ JudgeBad(At.want) /\ UNCHANGED here
     \/ JudgeGood(At.want) /\ line' = line + 1 /\ UNCHANGED <<quiet, ip, words, first, d, rej>>

NoteLine ==
  /\ mode = "idle" /\ ~Finished /\ At.do = "note"
  /\ rej' = rejected /\ line' = line + 1
  /\ UNCHANGED <<vars, quiet, ip, words, first, d>>

CheckLine ==
  /\ mode = "idle" /\ ~Finished /\ At.do = "check"
  /\ IF Holds(At.what)
     THEN line' = line + 1 /\ UNCHANGED vars
     ELSE /\ Halt("check") /\ UNCHANGED line
          /\ UNCHANGED <<cur, reason, edgeVars, spaceVars, mem, timerVars, gicVars>>
  /\ UNCHANGED <<quiet, ip, words, first, d, rej>>

-----------------------------------------------------------------------------
(* The program's side.                                                       *)

Insn == Program(At.blob)[ip]
Target == IF Insn.page = "own" THEN Data(cur) ELSE At.at
NextInsn == ip' = ip + 1 /\ UNCHANGED <<quiet, line, d, rej>>

\* A store of one word of a page: words 0 and 1 are the message.
Word(content, word, value) ==
  CASE word = 0 -> [content EXCEPT !.dest = value]
    [] word = 1 -> [content EXCEPT !.pay = value]
    [] OTHER    -> content
StoreWord(page, word, value) ==
  /\ El0Store(page, Word(mem[page], word, value))
  /\ words' = IF page[1] = "data" /\ word \in 2 .. 4
              THEN [words EXCEPT ![page[2]][word] = value] ELSE words
  /\ first' = IF page[1] = "code" THEN [first EXCEPT ![page[2]] = "zero"] ELSE first

Denied(op) == ~El0May(op, Target) /\ Fault /\ UNCHANGED here

Execute ==
  /\ mode = "room"
  /\ CASE Insn.op = "str" ->
            \/ Denied("store")
            \/ StoreWord(Target, Insn.word, Insn.value) /\ NextInsn
       [] Insn.op = "ldr" ->
            \/ Denied("load")
            \/ El0May("load", Target) /\ NextInsn /\ UNCHANGED <<vars, words, first>>
       [] Insn.op = "br" -> Denied("fetch")
       [] Insn.op = "copy" -> StoreWord(Data(cur), 2, mem[Data(cur)].pay) /\ NextInsn
       [] Insn.op = "msr" ->
            /\ El0Timer(0)
            /\ IF el0timer THEN NextInsn /\ UNCHANGED <<words, first>> ELSE UNCHANGED here
       [] Insn.op \in {"pulse", "pulse-x1"} ->
            /\ LET place == IF Insn.op = "pulse" THEN "page" ELSE "outside"
               IN  PulseRejected(place) \/ PulseDelivered(place)
            /\ NextInsn /\ UNCHANGED <<words, first>>
       [] Insn.op = "svc0" -> Svc0 /\ UNCHANGED here
       [] Insn.op = "b" -> FALSE

\* A quiet machine: the counter moves only while a program spins undisturbed.
Spinning == mode = "room" /\ Insn.op = "b" /\ ~sgi
Clock == (quiet => Spinning) /\ Tick /\ UNCHANGED here
TakeIrq == Interrupt /\ UNCHANGED here
TakeSpurious == ~quiet /\ IrqSpurious /\ UNCHANGED here

\* nxu_halt, after the last line as after a failure.
AtEnd ==
  /\ mode = "halted" \/ (mode = "idle" /\ Finished)
  /\ UNCHANGED allVars

RunNext ==
  \/ Start \/ RunLine \/ NoteLine \/ CheckLine
  \/ Execute \/ Clock \/ TakeIrq \/ TakeSpurious \/ AtEnd

RunSpec == RunInit /\ [][RunNext]_allVars

\* The CPU keeps executing.
RunFairSpec == RunSpec /\ WF_allVars(RunNext)

-----------------------------------------------------------------------------
\* Also: no program runs past its last instruction, into what an earlier program left
\* in the page (copy_blob does not clear the rest).
RunTypeOK ==
  /\ quiet \in BOOLEAN /\ why \in Halts \cup {"check"}
  /\ line \in 1 .. Len(Script) + 1
  /\ ip \in 1 .. 6
  /\ mode = "room" => ip \in DOMAIN Program(At.blob)
  /\ words \in [Rooms -> [2 .. 4 -> Payloads \cup {Canary}]]
  /\ first \in [Rooms -> {"zero"} \cup
                {Script[i].blob : i \in {j \in DOMAIN Script : Script[j].do = "run"}}]
  /\ d \in 0 .. CountMod - 1 /\ rej \in 0 .. CountMod - 1

\* Whatever the clock and the interrupts do, no canary is broken, no code page
\* rewritten, no pulse miscounted, no owed entry refused, and the kernel's copy never
\* faults. What is left to stop the script is a verdict on how or when a room ended.
ScriptHolds == why \notin {"check", "grant", "sync"}

\* On a quiet machine the whole script passes: ten pulses delivered, four rejected,
\* every owed entry spent.
QuietCompletes ==
  quiet => <>(Finished /\ mode = "idle" /\ delivered = 10 /\ rejected = 4 /\ grant = ROOM_N)
=============================================================================
