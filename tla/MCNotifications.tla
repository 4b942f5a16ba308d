-------------------------- MODULE MCNotifications --------------------------
(***************************************************************************)
(* Notifications of one user and one administrator.                        *)
(***************************************************************************)
EXTENDS Notifications, TLC

CONSTANT admin

MCAdmins == {admin}

\* The types of the notifications created or about to be.
Mentioned == {note[n].type : n \in {m \in Notes : note[m].state = "live"}}
               \cup {handler[h].type : h \in {g \in Handlers : handler[g].pc # "idle"}}

(* Bound: in separate behaviours, connections with notifications of         *)
(* activities, and reports with theirs.  What the two share is the users    *)
(* and what is created for them.                                            *)
OneArea ==
    \/ \A r \in Reports : report[r].status = "none"
    \/ /\ \A s \in Sockets : socket[s].pc = "off"
       /\ \A h \in Handlers : handler[h].pc # "idle" => handler[h].report # None
       /\ \A n \in Notes : note[n].state = "live" => note[n].report # None

(* Bound: test notifications only while nobody is connected.                *)
TestsApart ==
    "TEST_NOTIFICATION" \in Mentioned => \A s \in Sockets : socket[s].pc = "off"

Bounds == OneArea /\ TestsApart

MCSymmetry == Permutations(Notes) \cup Permutations(Sockets)
                \cup Permutations(Handlers) \cup Permutations(Reports)
=============================================================================
