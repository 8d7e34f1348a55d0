--------------------------- MODULE MCStorageQuota ---------------------------
(* Small instances of StorageQuota for TLC. *)
EXTENDS StorageQuota, TLC

CONSTANTS f1, f2, l1, l2, h1, h2

TwoFiles == {f1, f2}
NoLogos == {}
TwoLogos == {l1, l2}
TwoHandlers == {h1, h2}

\* Two files or a logo and a file fill the plan.
Sizes == [k \in Keys |-> IF k = f2 THEN 2 ELSE 1]

HandlerSymmetry == Permutations(Handlers)
=============================================================================
