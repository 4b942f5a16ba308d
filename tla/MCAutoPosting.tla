--------------------------- MODULE MCAutoPosting ---------------------------
(***************************************************************************)
(* AutoPosting with every post in the first project.                       *)
(***************************************************************************)
EXTENDS AutoPosting, TLC

MCProjectOf == [p \in Posts |-> CHOOSE q \in Projects : TRUE]

\* Bound: the history ends with the first disturbance of a post, which the
\* posting_liveness run explores.
NoDisturbance == disturbed = {}

(* The liveness run starts with an active project whose posts are all       *)
(* scheduled.                                                               *)
LivenessInit ==
    /\ Init
    /\ \A q \in Projects : project[q] = "ACTIVE"
    /\ \A p \in Posts : post[p].status = "PENDING"

LivenessSpec == LivenessInit /\ [][Next]_vars /\ Fairness

\* Used without liveness only.
MCSymmetry == Permutations(Posts) \cup Permutations(Ticks)
              \cup Permutations(Callbacks) \cup Permutations(Callers)
=============================================================================
