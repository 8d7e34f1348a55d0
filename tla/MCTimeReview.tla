---------------------------- MODULE MCTimeReview ----------------------------
(* Small instances of TimeReview for TLC. *)
EXTENDS TimeReview, TLC

CONSTANTS t1, t2, e1, e2, e3, g1, h1, h2, h3

OneTech  == {t1}
TwoTechs == {t1, t2}
OneGrant == {g1}
NoGrants == {}
OneHandler  == {h1}
TwoHandlers == {h1, h2}
ThreeHandlers == {h1, h2, h3}

Shift(a, b) == [from |-> a, to |-> b]

\* Two shifts that overlap, each as long as an authorization allows.
OverlappingShifts == {Shift(0, 2), Shift(1, 3)}
\* One technician, two shifts that follow each other.
TwoShifts   == {Shift(0, 1), Shift(1, 3)}
OneShift    == {Shift(0, 1)}

\* Every authorization is the first technician's, for the whole day, and
\* leaves room for the longest shift alone.
HeldByFirst == [g \in Grants |-> t1]
WholeDay    == [g \in Grants |-> Shift(0, 4)]
TwoUnits    == [g \in Grants |-> 2]

\* Handlers and entry ids are interchangeable.
Symmetry == Permutations(Handlers) \cup Permutations(Entries)
=============================================================================
