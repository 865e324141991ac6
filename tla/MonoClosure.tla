---------------------------- MODULE MonoClosure ------------------------------
(* What monomorphization promises the code generator: starting from the      *)
(* instances the type checker met, it only ever adds instances some member    *)
(* refers to, and it hands the table over only once it holds everything its   *)
(* members refer to.  Otherwise the program is rejected.                      *)
CONSTANTS
    Program,             \* the programs considered
    Met(_),              \* program -> the instances the type checker met
    Needs(_, _)          \* program, instance -> what it refers to directly

VARIABLES prog, table, verdict

Owed == Met(prog) \cup UNION {Needs(prog, x) : x \in table}

CInit == prog \in Program /\ table = {} /\ verdict = "open"

Grow ==
    /\ verdict = "open"
    /\ \E x \in Owed : table' = table \cup {x}
    /\ UNCHANGED <<prog, verdict>>

Accept ==
    /\ verdict = "open" /\ verdict' = "accepted"
    /\ Owed \subseteq table
    /\ UNCHANGED <<prog, table>>

Reject ==
    /\ verdict = "open" /\ verdict' = "rejected"
    /\ UNCHANGED <<prog, table>>

CNext == Grow \/ Accept \/ Reject

CSpec == CInit /\ [][CNext]_<<prog, table, verdict>>
=============================================================================
