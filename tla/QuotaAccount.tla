---------------------------- MODULE QuotaAccount ----------------------------
(***************************************************************************)
(* What the API promises about an allowance of the subscription plan, such *)
(* as the AI tasks of a month or the bytes of a workspace.  An item is     *)
(* reserved while there is room for it, and is then either charged or let  *)
(* go; what is let go is never charged afterwards.  Reserved and charged   *)
(* items together never exceed the limit.  There are no handlers, leases,  *)
(* tokens or locks here.                                                   *)
(***************************************************************************)
EXTENDS Integers

CONSTANTS
    Items,          \* what may be charged to the account
    Charge(_),      \* what a set of items costs
    Limit           \* what the account may cost

\* More items never cost less, and nothing costs no more than the limit.
ChargeGrows ==
    /\ Limit \in Int /\ Charge({}) <= Limit
    /\ \A S, T \in SUBSET Items :
         /\ Charge(S) \in Int
         /\ S \subseteq T => Charge(S) <= Charge(T)

VARIABLE phase

Phases == {"NEW", "HELD", "CHARGED", "GONE"}

\* What may become of an item in one step; it is left alone otherwise.
Onward ==
    [NEW     |-> {"HELD", "GONE"},
     HELD    |-> {"CHARGED", "GONE"},
     CHARGED |-> {"GONE"},
     GONE    |-> {}]

On == {i \in Items : phase[i] \in {"HELD", "CHARGED"}}

Init == phase = [i \in Items |-> "NEW"]

\* One request may let go of what was abandoned and reserve beside it; a new
\* reservation is made only within the limit.
Next ==
    /\ phase' \in [Items -> Phases]
    /\ \A i \in Items : phase'[i] = phase[i] \/ phase'[i] \in Onward[phase[i]]
    /\ (\E i \in Items : phase[i] = "NEW" /\ phase'[i] = "HELD")
         => Charge(On') <= Limit

Spec == Init /\ [][Next]_phase

\* The allowance of the plan is never exceeded by what is reserved and what
\* is charged together.
WithinLimit == Charge(On) <= Limit
=============================================================================
