--------------------------------- MODULE Fdt ---------------------------------
(***************************************************************************)
(* S3 token by token (foundation/facts/fdt.c): the header of the blob, then *)
(* one token of the structure block at a time, with a stack of open nodes   *)
(* that inherit the cell sizes of their parents. Facts is what this decoder *)
(* promises; S4 is taken from there.                                        *)
(*                                                                         *)
(* The blob is its 32-bit words; offsets and lengths are bytes, and their   *)
(* sums are 32-bit. A string is one word, the number of its text. The       *)
(* machine's in.blob is what the loader left, in.dtb the nodes it stands    *)
(* for, and in.flaw what is wrong with it after them.                       *)
(***************************************************************************)
EXTENDS Facts

CONSTANTS
  CELL,       \* values of a 32-bit word; WORD is its square
  PROBE_CAP,  \* NXU_DTB_PROBE_CAP
  DEPTH,      \* open nodes the stack holds, 16
  REGS        \* ranges a node holds, 4

ASSUME FdtAssumption ==
  /\ CELL \in Nat \ {0} /\ CELL % 4 = 0 /\ WORD = CELL * CELL
  /\ PROBE_CAP \in Nat /\ DEPTH \in Nat \ {0} /\ REGS \in Nat \ {0}

\* A blob, whatever is in it: its place, the fields of its header, its words, and
\* the word that is found behind them.
Word32 == 0 .. CELL - 1
IsBlob(b) ==
  /\ b.ptr \in Word /\ b.magic \in BOOLEAN /\ b.words \in Seq(Word32) /\ b.beyond \in Word32
  /\ b.totalsize \in Word32 /\ b.off_struct \in Word32 /\ b.size_struct \in Word32
  /\ b.off_strings \in Word32 /\ b.size_strings \in Word32

ASSUME BlobsAssumption == \A m \in Inputs : IsBlob(m.blob)

VARIABLES
  pos,    \* offset of the next token
  stack   \* open nodes, st[0] first; empty before the header is accepted

decoder == <<pos, stack>>

U32(n) == n % CELL
Align4(n) == LET up == U32(n + 3) IN up - (up % 4)

Blob == in.blob
Total == 4 * Len(Blob.words)

\* Memory after the blob is as it happens to be.
Cell(p) == IF p < Total THEN Blob.words[p \div 4 + 1] ELSE Blob.beyond

Texts ==
  <<"#address-cells", "#size-cells", "device_type", "compatible", "reg", "method",
    "memory", "cpu", "arm,gic-v3", "arm,pl011", "arm,psci", "hvc", "smc">>
Text(p) == IF Cell(p) \in DOMAIN Texts THEN Texts[Cell(p)] ELSE "another"

\* be_cells: high words shift out.
Number(p, cells) ==
  LET v[i \in 0 .. cells] == IF i = 0 THEN 0 ELSE (v[i - 1] * CELL + Cell(p + 4 * (i - 1))) % WORD
  IN v[cells]

-----------------------------------------------------------------------------
(* The header                                                               *)

BlockEnd == U32(Blob.off_struct + Blob.size_struct)

HeaderFlaw ==
  IF Blob.ptr % 8 # 0 \/ ~Blob.magic \/ Blob.totalsize \notin 40 .. PROBE_CAP THEN "dtb"
  ELSE IF ~RangeOk(Blob.ptr, Blob.totalsize) THEN "wrap"
  ELSE IF RangeOverlap(Blob.ptr, Blob.totalsize, in.image.base, in.image.size) THEN "overlap"
  ELSE IF \/ BlockEnd > Blob.totalsize
          \/ U32(Blob.off_strings + Blob.size_strings) > Blob.totalsize THEN "dtb"
  ELSE "none"

Open(ac, sc) ==
  [ac |-> ac, sc |-> sc, reg_ac |-> ac, reg_sc |-> sc,
   kinds |-> {}, method |-> "none", regs |-> <<>>]

Header ==
  /\ InDtb /\ stack = <<>>
  /\ \/ HeaderFlaw # "none" /\ Halt(HeaderFlaw) /\ UNCHANGED decoder
     \/ /\ HeaderFlaw = "none"
        /\ pos' = Blob.off_struct /\ stack' = <<Open(2, 1)>>
        /\ UNCHANGED vars

-----------------------------------------------------------------------------
(* The tokens                                                               *)

Top  == stack[Len(stack)]
InBlock  == U32(pos + 4) <= BlockEnd
Token(t) == InDtb /\ stack # <<>> /\ InBlock /\ Cell(pos) = t
Next4    == U32(pos + 4)

Turn(p, s) == pos' = p /\ stack' = s /\ UNCHANGED vars
Stop(reason) == Halt(reason) /\ UNCHANGED decoder

Nop == Token(4) /\ Turn(Next4, stack)

\* A block that runs out is as good as one with FDT_END.
Finish ==
  /\ InDtb /\ stack # <<>> /\ (InBlock => Cell(pos) = 9)
  /\ Valid /\ UNCHANGED decoder

\* Mutant: a node's ranges are read in the cells its parent inherited.
ChildOfGrandparent(n) == [Open(n.ac, n.sc) EXCEPT !.reg_ac = n.reg_ac, !.reg_sc = n.reg_sc]
Child(n) == Open(n.ac, n.sc)

BeginNode ==
  /\ Token(1)
  /\ IF Len(stack) >= DEPTH THEN Stop("dtb")
     ELSE Turn(Align4(Next4 + 1), Append(stack, Child(Top)))

CloseNode ==
  /\ Token(2)
  /\ \/ Refused(Top) # "none" /\ Stop(Refused(Top))
     \/ Refused(Top) = "none" /\ Len(stack) = 1 /\ Stop("dtb")
     \/ /\ Refused(Top) = "none" /\ Len(stack) > 1
        /\ Learn(Learnt(Top))
        /\ pos' = Next4 /\ stack' = SubSeq(stack, 1, Len(stack) - 1)

\* parse_reg. Without size cells there is one address or none; ranges after the
\* last that a node holds are dropped. The end of each range is a 32-bit sum.
ParseReg(n, val, plen) ==
  LET ac    == IF n.reg_ac = 0 THEN 1 ELSE n.reg_ac
      step  == U32(4 * (ac + n.reg_sc))
      count == Cardinality({k \in 1 .. REGS : \A i \in 1 .. k : U32(step * i) <= plen})
  IN IF n.reg_sc = 0
       THEN IF plen = U32(4 * ac) THEN <<[base |-> Number(val, ac), size |-> 0]>> ELSE n.regs
     ELSE IF step = 0 THEN n.regs
     ELSE [i \in 1 .. count |->
             LET p == val + U32(step * (i - 1))
             IN [base |-> Number(p, ac), size |-> Number(p + 4 * ac, n.reg_sc)]]

\* str_has, of the strings of a list.
Has(val, plen, text) == \E i \in 0 .. plen \div 4 - 1 : Text(val + 4 * i) = text

Told(n, name, val, plen) ==
  CASE name = "#address-cells" /\ plen = 4 -> [n EXCEPT !.ac = Cell(val)]
    [] name = "#size-cells" /\ plen = 4 -> [n EXCEPT !.sc = Cell(val)]
    [] name = "device_type" /\ plen >= 4 ->
         [n EXCEPT !.kinds = @ \cup ({Text(val)} \cap {"memory", "cpu"})]
    [] name = "compatible" ->
         [n EXCEPT !.kinds = @ \cup {kind \in {"gic", "uart", "psci"} : Has(val, plen,
            CASE kind = "gic" -> "arm,gic-v3" [] kind = "uart" -> "arm,pl011"
              [] kind = "psci" -> "arm,psci")}]
    [] name = "reg" -> [n EXCEPT !.regs = ParseReg(n, val, plen)]
    [] name = "method" -> IF Text(val) \in {"hvc", "smc"} THEN [n EXCEPT !.method = Text(val)] ELSE n
    [] OTHER -> n

\* The length and the name of a property are read before they are looked at.
PLen    == Cell(Next4)
NameOff == Cell(U32(Next4 + 4))
Val     == U32(Next4 + 8)
Outside == NameOff >= Blob.size_strings \/ U32(Val + PLen) > BlockEnd

Property ==
  /\ Token(3)
  /\ \/ Outside /\ Stop("dtb")
     \/ /\ ~Outside
        /\ LET told == Told(Top, Text(U32(Blob.off_strings + NameOff)), Val, PLen)
           IN Turn(Align4(Val + PLen), [stack EXCEPT ![Len(stack)] = told])

Unknown == InDtb /\ stack # <<>> /\ InBlock /\ Cell(pos) \notin {1, 2, 3, 4, 9} /\ Stop("dtb")

-----------------------------------------------------------------------------
FdtInit == Init /\ pos = 0 /\ stack = <<>>

S3Step == Header \/ Nop \/ Finish \/ BeginNode \/ CloseNode \/ Property \/ Unknown
S4Step == (NoDtb \/ S4Ram \/ S4Ctl \/ S4Cpu \/ S4Timer \/ Stay) /\ UNCHANGED decoder

FdtNext == S3Step \/ S4Step

FdtSpec == FdtInit /\ [][FdtNext]_<<vars, decoder>>

\* What S5 takes over, with the ends of the image's text and constants: the blob
\* as S3 found it, and the console and the power controller where they have a size.
HandedOver(text, ro) ==
  [mem   |-> [i \in DOMAIN facts.mem |-> facts.mem[i].value],
   image |-> [base |-> in.image.base, text |-> text, ro |-> ro, size |-> in.image.size],
   dtb   |-> IF facts.dtb THEN {Rng(Blob.ptr, Blob.totalsize)} ELSE {},
   gicd  |-> facts.gicd.value, gicr |-> facts.gicr.value,
   uart  |-> {r \in {facts.uart.value} : r.size # 0},
   pwrc  |-> {r \in {facts.pwrc} : r.size # 0}]

-----------------------------------------------------------------------------
(* Properties *)

\* Whatever the blob looks like (its cell sizes, the order of its properties,
\* buses, padding, a block that is cut short or damaged), the candidates are those
\* of the nodes it stands for, in their order, and a flaw halts: the decoder
\* implements the S3 of Facts, and the boot its specification (fdt.c:9, 153-330).
ImplementsFacts == Spec

\* The offsets the next turn of the loop reads.
Reading ==
  IF ~(InDtb /\ stack # <<>> /\ InBlock) THEN {}
  ELSE {pos} \cup (IF Cell(pos) = 3 THEN {Next4, U32(Next4 + 4)} ELSE {})

\* GENESIS_V2_CLOSURE.md:100: before ownership, the DTB probe is a bounded read.
ReadsInWindow == \A p \in Reading : p < Total
==============================================================================
