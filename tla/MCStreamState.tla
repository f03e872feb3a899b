--------------------------- MODULE MCStreamState ---------------------------
(***************************************************************************)
(* StreamState for TLC: untargeted events (StreamState only stores the     *)
(* targeting; SseHub uses it), interchangeable conversations.              *)
(***************************************************************************)
EXTENDS StreamState, TLC

CONSTANTS c1, c2, everyone

MCConversations == {c1, c2}
MCTargetings == {everyone}
Symmetry == Permutations(MCConversations)
============================================================================
