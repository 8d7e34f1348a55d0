------------------------------ MODULE MCAiTurn ------------------------------
(* Small instances of AiTurn for TLC. *)
EXTENDS AiTurn, TLC

CONSTANTS r1, r2, h1, h2

TwoRequests   == {r1, r2}
OneHandler  == {h1}
TwoHandlers == {h1, h2}

\* Every message says the same.
SameText == [r \in Requests |-> "same"]

HandlerSymmetry == Permutations(Handlers)
=============================================================================
