------------------------------- MODULE MCFacts -------------------------------
(***************************************************************************)
(* Fdt.tla and Facts.tla on machines of two CPUs and two RAM ranges. One    *)
(* group of facts varies at a time, with the other groups as an honest      *)
(* machine has them; then the encoding of one blob varies, and its damage.  *)
(***************************************************************************)
EXTENDS Fdt, SequencesExt

R(b, n) == [base |-> b, size |-> n]
NodeOf(kinds, regs) == [kinds |-> kinds, regs |-> regs, method |-> "none", ppi |-> 0]

Memory(regs) == NodeOf({"memory"}, regs)
Cpu(mpidr)   == NodeOf({"cpu"}, <<R(mpidr, 0)>>)
Gic(d, r)    == NodeOf({"gic"}, <<d, r>>)
Uart(r)      == NodeOf({"uart"}, <<r>>)
Psci(m)      == [NodeOf({"psci"}, <<>>) EXCEPT !.method = m]
Timer(ppi)   == [NodeOf({"timer"}, <<>>) EXCEPT !.ppi = ppi]
Bus          == NodeOf({}, <<>>)

RamA  == R(CELL + 8, 16)
RamB  == R(48, 8)
Gicd  == R(32, 4)
Gicr  == R(36, 4)
Tty   == R(40, 1)

QemuBoard ==
  [present |-> TRUE, ram |-> <<RamA>>, gicd |-> Gicd, gicr |-> Gicr, uart |-> Tty,
   cpu |-> <<0, 1>>, psci |-> "hvc", freq |-> 7, pwrc |-> NoRange]
NoBoard ==
  [present |-> FALSE, ram |-> <<>>, gicd |-> NoRange, gicr |-> NoRange, uart |-> NoRange,
   cpu |-> <<>>, psci |-> "none", freq |-> 0, pwrc |-> NoRange]

\* A DTB of five groups of nodes: the CPUs have a bus of their own, and so have the
\* controller and the console. The nodes in the order of their ends:
Dtb(mem, cpu, gic, uart, rest) ==
  [mem |-> mem, cpu |-> cpu, devices |-> gic \o uart, rest |-> rest]
Held(n) == [n EXCEPT !.regs = SubSeq(@, 1, IF Len(@) < REGS THEN Len(@) ELSE REGS)]
EndsOf(d) ==
  LET all == d.mem \o d.cpu \o <<Bus>> \o d.devices \o <<Bus>> \o d.rest \o <<Bus>>
  IN [i \in DOMAIN all |-> Held(all[i])]

-----------------------------------------------------------------------------
\* The encoding of a DTB, token by token. A style says in how many cells each bus
\* writes its addresses and sizes, whether NOPs are between the tokens, whether a
\* node tells its ranges before its type, and whether the strings come first.
Style(root, cpus, bus) ==
  [root |-> root, cpus |-> cpus, bus |-> bus, nops |-> FALSE, late |-> FALSE, strings |-> FALSE]
Plain == Style(<<2, 2>>, <<1, 0>>, <<1, 1>>)

Words(v, cells) ==
  [i \in 1 .. cells |-> IF cells - i > 1 THEN 5 ELSE (v \div CELL ^ (cells - i)) % CELL]
PropAt(nameoff, value) == <<3, 4 * Len(value), nameoff>> \o value
Prop(name, value) ==
  PropAt(4 * ((CHOOSE i \in 1 .. 6 : Texts[i] = name) - 1), value)
Number1(text) == <<CHOOSE i \in DOMAIN Texts : Texts[i] = text>>

TypeOf(n) ==
  CASE n.kinds = {"memory"} -> <<Prop("device_type", Number1("memory"))>>
    [] n.kinds = {"cpu"}    -> <<Prop("device_type", Number1("cpu"))>>
    [] n.kinds = {"gic"}    -> <<Prop("compatible", <<0>> \o Number1("arm,gic-v3"))>>
    [] n.kinds = {"uart"}   -> <<Prop("compatible", Number1("arm,pl011") \o <<0>>)>>
    [] n.kinds = {"psci"}   -> <<Prop("compatible", Number1("arm,psci"))>>
    [] OTHER                -> <<PropAt(24, <<6, 0>>)>>
RangesOf(n, cells) ==
  IF n.regs = <<>> THEN <<>>
  ELSE <<Prop("reg", FlattenSeq([i \in DOMAIN n.regs |->
           Words(n.regs[i].base, IF cells[1] = 0 THEN 1 ELSE cells[1])
             \o Words(n.regs[i].size, cells[2])]))>>
MethodOf(n) == IF n.method = "none" THEN <<>> ELSE <<Prop("method", Number1(n.method))>>

Encode(n, cells, late) ==
  <<<<1, 0>>>> \o (IF late THEN RangesOf(n, cells) \o MethodOf(n) \o TypeOf(n)
                          ELSE TypeOf(n) \o MethodOf(n) \o RangesOf(n, cells)) \o <<<<2>>>>
EncodeAll(nodes, cells, late) ==
  FlattenSeq([i \in DOMAIN nodes |-> Encode(nodes[i], cells, late)])
\* A bus whose cells are those it inherits does not say them.
EncodeBus(outer, cells, inside) ==
  <<<<1, 0>>>> \o (IF cells = outer THEN <<>>
                  ELSE <<Prop("#address-cells", <<cells[1]>>), Prop("#size-cells", <<cells[2]>>)>>)
    \o inside \o <<<<2>>>>
EncodeDtb(d, s) ==
  LET all(nodes, cells) == EncodeAll(nodes, cells, s.late)
      tokens == EncodeBus(<<2, 1>>, s.root,
                  all(d.mem, s.root) \o EncodeBus(s.root, s.cpus, all(d.cpu, s.cpus))
                  \o EncodeBus(s.root, s.bus, all(d.devices, s.bus)) \o all(d.rest, s.root))
                \o <<<<9>>>>
  IN IF s.nops THEN FlattenSeq([i \in DOMAIN tokens |-> <<<<4>>, tokens[i]>>]) ELSE tokens

\* A structure block in a blob, with the strings before it or after it.
BlobOf(block, first) ==
  LET names == <<1, 2, 3, 4, 5, 6, 0>>
      head  == [i \in 1 .. 10 |-> 0]
      words == IF first THEN head \o names \o block ELSE head \o block \o names
  IN [ptr |-> 8 * CELL, magic |-> TRUE, totalsize |-> 4 * Len(words), words |-> words,
      off_struct |-> IF first THEN 68 ELSE 40, size_struct |-> 4 * Len(block),
      off_strings |-> IF first THEN 40 ELSE 40 + 4 * Len(block), size_strings |-> 28,
      beyond |-> 0]

MachineWith(nodes, flaw, blob, board, mpidr, freq) ==
  [dtb |-> nodes, flaw |-> flaw, blob |-> blob, board |-> board, mpidr |-> mpidr,
   freq |-> freq, image |-> R(CELL + 8, 6)]

Styled(d, s, board) ==
  MachineWith({EndsOf(d)}, "none", BlobOf(FlattenSeq(EncodeDtb(d, s)), s.strings), board, 0, 7)
Machine(d, board, mpidr, freq) ==
  [Styled(d, Plain, board) EXCEPT !.mpidr = mpidr, !.freq = freq]
NoDtbMachine(board) == MachineWith({}, "none", BlobOf(<<>>, FALSE), board, 0, 7)

-----------------------------------------------------------------------------
Mem0 == <<Memory(<<RamA>>)>>
Cpu0 == <<Cpu(0), Cpu(1)>>
Gic0 == <<Gic(Gicd, Gicr)>>
Tty0 == <<Uart(Tty)>>
Etc0 == <<Psci("hvc"), Timer(30)>>

Boards == {QemuBoard, NoBoard}

\* RAM: absent, the board's, another, in two ranges or in two nodes, too much,
\* in the wrong order, and a range that wraps.
MemNodes ==
  {<<>>, Mem0, <<Memory(<<RamB, RamA>>)>>, <<Memory(<<RamA, RamB>>)>>,
   <<Memory(<<RamA>>), Memory(<<RamB>>)>>, <<Memory(<<RamA, RamB, R(60, 1)>>)>>,
   <<Memory(<<R(CELL + 8, 4)>>)>>, <<Memory(<<R(CELL + 8, WORD - 16)>>)>>}
MemBoards == Boards \cup {[QemuBoard EXCEPT !.ram = x] : x \in {<<>>, <<RamA, RamB>>, <<RamA, RamA>>}}
MemInputs == {Machine(Dtb(m, Cpu0, Gic0, Tty0, Etc0), b, 0, 7) : m \in MemNodes, b \in MemBoards}
               \cup {NoDtbMachine(b) : b \in MemBoards}

\* CPUs: none, one, two, one of them twice and with flags, one too many.
CpuNodes ==
  {<<>>, <<Cpu(0)>>, Cpu0, <<Cpu(1), Cpu(0)>>, <<Cpu(0), Cpu(1), Cpu(5)>>,
   <<Cpu(4), Cpu(0)>>, <<Cpu(0), Cpu(2)>>, <<Cpu(0), Cpu(1), Cpu(2)>>,
   <<NodeOf({"cpu"}, <<>>), Cpu(1)>>}
CpuBoards == Boards \cup {[QemuBoard EXCEPT !.cpu = x] : x \in {<<>>, <<4, 5>>, <<1>>, <<0, 1, 2>>}}
CpuInputs == {Machine(Dtb(Mem0, c, Gic0, Tty0, Etc0), b, m, 7) :
                c \in CpuNodes, b \in CpuBoards, m \in {0, 5}}

\* Devices: absent, another size, another base, two of a kind, a controller
\* with one range only.
DevNodes ==
  {Gic0 \o Tty0, <<>>, Gic0, Tty0, <<Gic(Gicd, R(36, 2))>> \o Tty0,
   <<Gic(R(33, 4), Gicr)>>, <<NodeOf({"gic"}, <<Gicd>>)>> \o Gic0, Gic0 \o <<Gic(R(50, 2), Gicr)>>,
   Gic0 \o <<Uart(R(41, 1)), Uart(Tty)>>, Gic0 \o <<Uart(Tty), Uart(R(41, 1))>>,
   Gic0 \o <<NodeOf({"uart"}, <<>>)>>, Gic0 \o <<Uart(R(40, 0))>>, <<Gic(Gicd, NoRange)>>}
DevBoards == Boards \cup
  {[QemuBoard EXCEPT !.gicd = NoRange], [QemuBoard EXCEPT !.gicr = NoRange],
   [QemuBoard EXCEPT !.uart = NoRange], [QemuBoard EXCEPT !.pwrc = R(44, 2)]}
DevInputs == {Machine(Dtb(Mem0, Cpu0, d, <<>>, Etc0), b, 0, 7) : d \in DevNodes, b \in DevBoards}

\* Methods and timers.
EtcNodes == {<<>>, Etc0, <<Psci("smc")>>, <<Psci("none"), Timer(29)>>, <<Psci("smc"), Psci("hvc")>>}
EtcBoards == Boards \cup {[QemuBoard EXCEPT !.psci = "none"], [QemuBoard EXCEPT !.freq = 0]}
EtcInputs == {Machine(Dtb(Mem0, Cpu0, Gic0, Tty0, e), b, 0, f) :
                e \in EtcNodes, b \in EtcBoards, f \in {0, 9}}

\* One DTB in many styles, with and without a board; a range of its memory has a
\* high word, and one node has more ranges than are held.
Honest == Dtb(Mem0, Cpu0, Gic0, Tty0, Etc0)
Styles ==
  {Style(r, c, b) : r \in {<<1, 1>>, <<2, 1>>, <<2, 2>>, <<3, 2>>},
                    c \in {<<1, 0>>, <<2, 0>>, <<0, 0>>}, b \in {<<1, 1>>, <<2, 2>>, <<0, 1>>, <<2, 1>>}}
Wide == {s \in Styles : s.root[1] > 1}
StyleInputs ==
  {Styled(Honest, s, b) : s \in Wide, b \in Boards}
    \cup {Styled([Honest EXCEPT !.mem = <<Memory(<<RamB>>)>>], s, NoBoard) : s \in Styles}
    \cup {Styled(Honest, [Plain EXCEPT !.nops = n, !.late = l, !.strings = f], NoBoard) :
            n \in BOOLEAN, l \in BOOLEAN, f \in BOOLEAN}
    \cup {Styled([Honest EXCEPT !.devices = <<NodeOf({"gic"}, <<Gicd, Gicr, RamB, Tty>>)>>], Plain, NoBoard),
          Styled(Honest, [Plain EXCEPT !.bus = <<3, 3>>], QemuBoard)}

\* The structure block cut short after any word, or with a token that is none: the
\* nodes that have ended remain. A property that is cut is a flaw, another token
\* only ends the block early.
Small   == Dtb(Mem0, <<Cpu(0)>>, Gic0, <<>>, Etc0)
Tokens  == EncodeDtb(Small, Plain)
Block   == FlattenSeq(Tokens)
SizeOf(tokens) == Len(FlattenSeq(tokens))
Whole(k) == CHOOSE n \in 0 .. Len(Tokens) :
  /\ SizeOf(SubSeq(Tokens, 1, n)) <= k
  /\ n = Len(Tokens) \/ SizeOf(SubSeq(Tokens, 1, n + 1)) > k
EndsIn(n) == Cardinality({i \in 1 .. n : Tokens[i] = <<2>>})
SmallBlob == BlobOf(Block, FALSE)
Damaged(ended, flaw, blob) ==
  MachineWith({SubSeq(EndsOf(Small), 1, ended)}, flaw, blob, QemuBoard, 0, 7)
CutInputs ==
  {LET n == Whole(k)
       torn == SizeOf(SubSeq(Tokens, 1, n)) # k /\ Tokens[n + 1][1] = 3
   IN Damaged(EndsIn(n), IF torn THEN "dtb" ELSE "none", [SmallBlob EXCEPT !.size_struct = 4 * k]) :
     k \in 0 .. Len(Block)}
BadTokens ==
  {Damaged(EndsIn(n), "dtb",
           BlobOf(FlattenSeq([i \in DOMAIN Tokens |-> IF i = n + 1 THEN bad ELSE Tokens[i]]), FALSE)) :
     n \in 0 .. Len(Tokens) - 1, bad \in {<<7>>, PropAt(28, <<0>>)}}
Nest(n) == FlattenSeq([i \in 1 .. 2 * n |-> IF i > n THEN <<2>> ELSE <<1, 0>>])
Nested ==
  {MachineWith({[i \in 1 .. n |-> Bus]}, "none", BlobOf(Nest(n), FALSE), QemuBoard, 0, 7) :
     n \in 1 .. DEPTH - 1}
    \cup {MachineWith({<<>>}, "dtb", BlobOf(Nest(DEPTH), FALSE), QemuBoard, 0, 7),
          MachineWith({<<Bus>>}, "dtb", BlobOf(Nest(1) \o <<2, 9>>, FALSE), QemuBoard, 0, 7)}
BadHeaders ==
  {Damaged(0, "dtb", b) :
     b \in {[SmallBlob EXCEPT !.ptr = @ + 4], [SmallBlob EXCEPT !.magic = FALSE],
            [SmallBlob EXCEPT !.totalsize = 36], [SmallBlob EXCEPT !.totalsize = PROBE_CAP + 4],
            [SmallBlob EXCEPT !.size_struct = SmallBlob.totalsize],
            [SmallBlob EXCEPT !.size_strings = 32]}}
    \cup {Damaged(0, "wrap", [SmallBlob EXCEPT !.ptr = WORD - 8]),
          Damaged(0, "overlap", [SmallBlob EXCEPT !.ptr = CELL])}

Machines ==
  MemInputs \cup CpuInputs \cup DevInputs \cup EtcInputs \cup StyleInputs \cup CutInputs
    \cup BadTokens \cup Nested \cup BadHeaders

\* The block is last and cut inside a property; its bounds wrap.
WindowMachines ==
  {Damaged(0, "dtb", BlobOf(SubSeq(Block, 1, 3), TRUE)),
   Damaged(0, "dtb", [SmallBlob EXCEPT !.off_struct = CELL - 4, !.size_struct = 44])}

\* fdt.c:9, "wrap -> halt", of the end of a property's value: refuted on WrapMachines,
\* where the decoder comes back to the same property for ever.
WrapHalts == Token(3) /\ Val + PLen >= CELL => Outside
WrapMachines == {Damaged(0, "dtb", BlobOf(<<1, 0, 3, CELL - 12, 24>>, FALSE))}
==============================================================================
