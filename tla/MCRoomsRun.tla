----------------------------- MODULE MCRoomsRun -----------------------------
(***************************************************************************)
(* RoomsRun.tla for TLC: the two rooms and the words of the real script.    *)
(***************************************************************************)
EXTENDS RoomsRun

MCPayloads == {PAYLOAD, Blank, Other}
MCBlobs == {[dest |-> 0, pay |-> Other]}
=============================================================================
