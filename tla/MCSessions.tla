----------------------------- MODULE MCSessions -----------------------------
(* Small instances of Sessions for TLC. *)
EXTENDS Sessions, TLC

CONSTANTS s1, s2, s3, t1, t2, t3, b1, b2

ThreeIds  == {s1, s2, s3}
ThreeTabs == {t1, t2, t3}

\* Two tabs in one browser and a second browser beside them.
TwoAndOne == [t \in Tabs |-> IF t = t3 THEN b2 ELSE b1]

\* Ids are interchangeable, and so are the tabs of one browser.
Symmetry == Permutations(Ids) \cup Permutations({t1, t2})
=============================================================================
