------------------------------- MODULE MCRoom -------------------------------
(***************************************************************************)
(* Room.tla for TLC: two rooms, slices of two ticks, two words.             *)
(***************************************************************************)
EXTENDS Room

\* The slots hold the payload of the edge, or anything else.
MCPayloads == {PAYLOAD, Blank}

\* No program of room_entry.S begins with the payload word.
MCBlobs == {[dest |-> 0, pay |-> Blank]}

-----------------------------------------------------------------------------
(* Statements of the repository that the code does not keep.                 *)

\* "After CPU_ON of the first secondary is issued, ... page tables are read-only"
\* (GENESIS_V2_CLOSURE.md, invariant 27).  The rooms run after S14 and every
\* entry rewrites leaves (room.c:84-96).
TablesFrozen == [][pt' = pt]_vars

\* "A pulse copies one payload from the sender's own data page, or it is
\* rejected" (room.c:3): an accepted pulse finds its message in page 0.
PulseFromSender == [][delivered' # delivered => Accepted(mem[Data(0)])]_vars
=============================================================================
