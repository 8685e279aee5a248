-------------------------------- MODULE Range --------------------------------
(***************************************************************************)
(* Physical ranges as include/nxu/range.h and the page_up and page_down of  *)
(* foundation/space see them: an unsigned base and an unsigned size, whose  *)
(* sums wrap.                                                               *)
(***************************************************************************)
EXTENDS Integers

CONSTANTS
  WORD,   \* number of values of a word, 2^64
  PAGE    \* bytes of a page, NXU_PAGE_SIZE

ASSUME RangeAssumption ==
  /\ WORD \in Nat /\ PAGE \in Nat \ {0}
  /\ WORD % PAGE = 0 /\ WORD > PAGE

Word == 0 .. WORD - 1

\* The sum of two words.
Plus(a, b) == IF a + b < WORD THEN a + b ELSE a + b - WORD

\* Mutant: the sum is not looked at.
RangeOkAnyEnd(base, size) == size # 0

RangeOk(base, size) == size # 0 /\ Plus(base, size) >= base

RangeContains(outer, osize, inner, isize) ==
  /\ RangeOk(outer, osize) /\ RangeOk(inner, isize)
  /\ inner >= outer
  /\ Plus(inner, isize) <= Plus(outer, osize)

RangeOverlap(a, asize, b, bsize) ==
  /\ RangeOk(a, asize) /\ RangeOk(b, bsize)
  /\ Plus(a, asize) > b
  /\ Plus(b, bsize) > a

PageDown(n) == n - (n % PAGE)
PageUp(n)   == PageDown(Plus(n, PAGE - 1))

-----------------------------------------------------------------------------
\* The bytes a range means, whatever its end.
Bytes(base, size) == {a \in Word : base <= a /\ a < base + size}
==============================================================================
