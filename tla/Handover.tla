------------------------------- MODULE Handover -------------------------------
(***************************************************************************)
(* What S3 and S4 hand over to S5: Facts proves that a boot that gets        *)
(* through S4 hands over such a record, and Space takes any of them.         *)
(***************************************************************************)
EXTENDS Range, Sequences, FiniteSets

Rng(b, n) == [base |-> b, size |-> n]
Ranges == [base : Word, size : Word]

\* At most one range, and that one with a size: where there is none, S5 has none.
Optionally(ranges) ==
  /\ ranges \in SUBSET Ranges /\ Cardinality(ranges) \in 0 .. 1
  /\ \A r \in ranges : r.size # 0

\* A fact record: mem is a sequence of ranges, image has its two inner ends,
\* dtb, uart and pwrc are sets of at most one range.
Accepted(f) ==
  /\ f.mem \in Seq(Ranges) /\ Len(f.mem) > 0
  /\ f.image \in [base : Word, text : Word, ro : Word, size : Word]
  /\ f.gicd \in Ranges /\ f.gicr \in Ranges
  /\ Optionally(f.dtb) /\ Optionally(f.uart) /\ Optionally(f.pwrc)
  /\ RangeContains(f.mem[1].base, f.mem[1].size, f.image.base, f.image.size)
  /\ \A d \in f.dtb : ~RangeOverlap(d.base, d.size, f.image.base, f.image.size)
  /\ f.gicd.size # 0 /\ f.gicr.size # 0
==============================================================================
