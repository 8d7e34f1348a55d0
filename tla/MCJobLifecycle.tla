--------------------------- MODULE MCJobLifecycle ---------------------------
(* Small instances of JobLifecycle for TLC. *)
EXTENDS JobLifecycle, TLC

CONSTANTS j1, t1, t2, s1, s2, s3, e1, r1, h1, h2

OneJob   == {j1}
OneTech  == {t1}
TwoTechs == {t1, t2}
TwoHandlers == {h1, h2}

\* Every technician is assigned to every job.
FullCrew == [j \in Jobs |-> Technicians]

\* An approved manual correction exists for everybody on every job.
AllWork == Technicians \X Jobs

\* Handlers, technicians and session ids are interchangeable.
Symmetry == Permutations(Handlers) \cup Permutations(Technicians)
            \cup Permutations(Sessions)
=============================================================================
