--------------------------- MODULE MCOfflineSync ---------------------------
(* Small instances of OfflineSync for TLC. *)
EXTENDS OfflineSync, TLC

CONSTANTS j1, tab1, tab2

OneTab  == {tab1}
TwoTabs == {tab1, tab2}

AllOnOneJob == [i \in Ops |-> j1]

\* Tabs are interchangeable.
Symmetry == Permutations(Tabs)
=============================================================================
