---------------------------- MODULE PostDelivery ----------------------------
(***************************************************************************)
(* What scheduled posting promises of a post, whatever the concurrency     *)
(* behind it.  A post is picked for publishing only when it is due and     *)
(* pending and its project is active.  Only what was picked is handed to   *)
(* n8n, and it is not picked again before n8n has told what became of it,  *)
(* and never once it was published.  Its row says POSTED from the report   *)
(* that it was published on, until it is deleted, and nothing brings it    *)
(* back then.                                                              *)
(*                                                                         *)
(* What is promised ends at the pick: the post may be edited, cancelled or *)
(* deleted and the project paused afterwards, and the post is handed over  *)
(* all the same.  A disturbed post has lost the promise for good.          *)
(***************************************************************************)

CONSTANTS Posts, Projects, ProjectOf

VARIABLES
    place,   \* where every post is
    status,  \* what its row says
    due,     \* the posts whose time has come
    active   \* the projects that are active

deliveryVars == <<place, status, due, active>>

Place  == {"waiting", "picked", "handed", "published", "disturbed"}
Status == {"none", "PENDING", "POSTED", "FAILED", "CANCELLED", "deleted"}

Init ==
    /\ place = [p \in Posts |-> "waiting"]
    /\ status \in [Posts -> {"none", "PENDING"}]
    /\ due = {}
    /\ active \subseteq Projects

\* A post goes from one place to another.
Goes(p, from, to) == place[p] = from /\ place'[p] = to

\* The row of a deleted post stays as it is.
Says(p, outcome) == status'[p] = IF status[p] = "deleted" THEN "deleted" ELSE outcome

Pick(p) ==
    /\ Goes(p, "waiting", "picked")
    /\ p \in due /\ status[p] = "PENDING" /\ ProjectOf[p] \in active
    /\ UNCHANGED status[p]

HandOver(p) ==
    /\ Goes(p, "picked", "handed")
    /\ UNCHANGED status[p]

\* n8n did not take it, or the run of the job was aborted before it came to it.
PutBack(p) ==
    /\ Goes(p, "picked", "waiting")
    /\ Says(p, "FAILED") \/ UNCHANGED status[p]

Report(p) ==
    \/ Goes(p, "handed", "published") /\ Says(p, "POSTED")
    \/ Goes(p, "handed", "waiting") /\ Says(p, "FAILED")

\* Users and the job write the row of a post that was not published.
Write(p) ==
    /\ place[p] \in {"waiting", "picked", "handed"}
    /\ status[p] # "deleted"
    /\ status'[p] \in {"PENDING", "FAILED", "CANCELLED"}
    /\ UNCHANGED place[p]

Delete(p) ==
    /\ status[p] # "none"
    /\ status'[p] = "deleted"
    /\ UNCHANGED place[p]

Disturb(p) == place'[p] = "disturbed"

Stay(p) == UNCHANGED <<place[p], status[p]>>

(* One step may concern several posts: those of a project go together.  The *)
(* time and the users decide what is due and active.                        *)
Next ==
    /\ place' \in [Posts -> Place]
    /\ status' \in [Posts -> Status]
    /\ due' \subseteq Posts /\ active' \subseteq Projects
    /\ \A p \in Posts :
         \/ Pick(p)
         \/ HandOver(p)
         \/ PutBack(p)
         \/ Report(p)
         \/ Write(p)
         \/ Delete(p)
         \/ Disturb(p)
         \/ Stay(p)

Spec == Init /\ [][Next]_deliveryVars
=============================================================================
