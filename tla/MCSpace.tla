------------------------------- MODULE MCSpace -------------------------------
(***************************************************************************)
(* Space.tla on a word of 64 addresses, pages of two bytes and a walk that  *)
(* translates the lower 32. RAM is in 0..15, the devices in 16..31.         *)
(***************************************************************************)
EXTENDS Space

MemSet ==
  {<<Rng(0, 16)>>, <<Rng(2, 6)>>, <<Rng(2, 9), Rng(11, 5)>>, <<Rng(1, 13)>>}

\* base, text pages, constant pages, other pages
ImageSet ==
  {[base |-> b, text |-> b + 2 * t, ro |-> b + 2 * (t + r),
    size |-> 2 * (t + r + w)] : b \in {2, 4}, t \in {1, 2}, r \in {0, 1}, w \in {0, 1}}

ImageAt(b, n) == [base |-> b, text |-> b + n, ro |-> b + n, size |-> n]

Optional(S) == {{}} \cup {{x} : x \in S}

\* The distributor may start and end inside a page; the redistributors may end
\* where the UART starts; the power controller may share a page with the UART.
BoardOf(mems, images, dtbs, gicds, uarts) ==
  {f \in [mem : mems, image : images, dtb : dtbs, gicd : gicds,
          gicr : {Rng(20, 4), Rng(21, 2)}, uart : uarts,
          pwrc : Optional({Rng(25, 1)})] : Accepted(f)}

Board(dtbs, gicds, uarts) == BoardOf(MemSet, ImageSet, dtbs, gicds, uarts)

\* Devices where a board has them, a DTB outside RAM or away from the rooms.
HonestFacts ==
  Board(Optional({Rng(0, 1), Rng(14, 2), Rng(28, 3)}),
        {Rng(16, 4), Rng(17, 2), Rng(18, 1)},
        Optional({Rng(24, 2), Rng(24, 1)}))

\* A DTB anywhere in RAM that does not overlap the image.
DtbFacts == Board({{Rng(b, 2)} : b \in {0, 6, 9, 12}}, {Rng(16, 4)}, {{}})

\* A UART that a DTB puts in RAM.
RamFacts == Board({{}}, {Rng(16, 4)}, {{Rng(4, 1)}})

\* Boards that S5 or S6 halt: an image that starts inside a page, more RAM
\* ranges than the table has room for, a distributor that wraps when it is
\* rounded up to pages or when its first page is taken whole, and a UART on
\* the first page of the image.
RefusedFacts ==
  BoardOf({<<Rng(0, 16)>>, <<Rng(0, 16), Rng(16, 2), Rng(18, 2), Rng(28, 2)>>},
          {ImageAt(2, 4), ImageAt(3, 4)}, Optional({Rng(12, 2)}),
          {Rng(16, 4), Rng(60, 3), Rng(61, 2), Rng(63, 1)},
          {{Rng(24, 1)}, {Rng(2, 2)}})

\* Every board of this module that may go on to the rooms or must halt.
AllFacts == HonestFacts \cup RefusedFacts

\* A distributor above the addresses that the walk translates.
FarFacts == Board({{}}, {Rng(48, 2)}, {{}})
==============================================================================
