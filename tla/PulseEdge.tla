------------------------------ MODULE PulseEdge ------------------------------
(***************************************************************************)
(* What the one edge between the rooms promises (room.c:1-6 and the edge    *)
(* table of FOUNDATION_MAP.md): room 1 is entered only when an entry is     *)
(* owed, an accepted pulse of room 0 owes exactly one entry however often   *)
(* it is repeated, and besides room 1 itself only an accepted pulse writes  *)
(* the slot.  Room.tla is shown to implement this module.                   *)
(***************************************************************************)
EXTENDS Integers

CONSTANTS
  Payloads,   \* the eight-byte values a slot can hold
  PAYLOAD,    \* the only value the edge carries
  Blank       \* the value of a cleared slot

VARIABLES
  active,     \* the room that has been admitted, or Nobody
  owed,       \* is an entry into room 1 outstanding?
  slot        \* the payload word of room 1's data page

vars == <<active, owed, slot>>

Nobody == -1

Init == active = Nobody /\ owed = FALSE /\ slot = Blank

\* A pulse is accepted while room 0 runs; it refreshes the slot.
Pulse ==
  /\ active = 0
  /\ slot' = PAYLOAD
  /\ owed' = TRUE
  /\ UNCHANGED active

\* The root enters freely, room 1 spends the entry it is owed.
EnterRoot  == active = Nobody /\ active' = 0 /\ UNCHANGED <<owed, slot>>
EnterOwed  == active = Nobody /\ owed /\ active' = 1 /\ owed' = FALSE /\ UNCHANGED slot

\* Room 1 owns the page its slot lies in.
Write ==
  /\ active = 1
  /\ slot' \in Payloads
  /\ UNCHANGED <<active, owed>>

Leave == active # Nobody /\ active' = Nobody /\ UNCHANGED <<owed, slot>>

Next == Pulse \/ EnterRoot \/ EnterOwed \/ Write \/ Leave

Spec == Init /\ [][Next]_vars
=============================================================================
