----------------------------- MODULE MCServices -----------------------------
(***************************************************************************)
(* Two users and two pages of one Facebook user; one blog, post and        *)
(* collection.                                                             *)
(***************************************************************************)
EXTENDS Services, TLC

NoPlatforms == account = [f \in FbUsers |-> [id |-> 0, owner |-> None]]
               /\ issued = 0 /\ \A c \in Callbacks : callback[c].pc = "idle"
NoBlogs     == \A b \in Blogs : blog[b] = None
NoPosts     == /\ \A p \in Posts : post[p] = None
               /\ \A k \in Collections : collection[k] = None

Calling  == {c \in Callbacks : callback[c].pc # "idle"}
Visiting == {v \in Visits : visit[v].pc # "idle"}
Busy     == {r \in Requests : request[r].pc # "idle"}

(* Bound: beside platforms or a library, users sign up, sign in and are     *)
(* deleted one after the other; one other request meets the deletion.       *)
Quiet ==
    /\ stranded = {} /\ byAdmin = {} /\ Cardinality(Busy) <= 1
    /\ \A r \in Busy : /\ request[r].pc \in {"signup", "tokens", "firebase", "rows"}
                       /\ request[r].todo = {}
    /\ \A r \in Busy :
         IF request[r].pc = "rows"
         THEN Cardinality(Calling) <= 1 /\ Cardinality(Visiting) <= 1
         ELSE Calling = {} /\ Visiting = {}

OnePage == Cardinality({p \in Pages : \E u \in Users : platform[u][p].id > 0}) <= 1

(* Bound: beside platforms, both users have signed in, and are deleted.     *)
SignedInFirst ==
    /\ signedIn = Users
    /\ \A r \in Busy : request[r].pc \in {"firebase", "rows"} /\ HasAccount(request[r].user)

(* Bound: users connect to Facebook at the same time; or have projects, or  *)
(* update configs, with one page.                                           *)
OnePlatformArea ==
    \/ \A j \in Projects : project[j] = None
       /\ (moved = {} \/ crossed = {}) /\ reverted = {}
       /\ \A c \in Calling : callback[c].pc \notin {"project", "move", "config"}
    \/ OnePage /\ Cardinality(Calling) <= 1 /\ crossed = {} /\ reverted = {}
       /\ (moved = {} \/ strayed = {})
       /\ \A c \in Calling : callback[c].pc # "config"
    \/ OnePage /\ \A j \in Projects : project[j] = None
       /\ crossed = {} /\ Cardinality({c \in Calling : callback[c].pc # "config"}) <= 1
       /\ \A c \in Calling : callback[c].pc \notin {"project", "move"}

(* Bound: a behaviour has platforms, or blogs, or posts, or busy accounts.  *)
OneArea ==
    \/ NoPlatforms /\ NoBlogs /\ NoPosts
    \/ Quiet /\ NoPlatforms /\ NoBlogs
    \/ Quiet /\ NoPlatforms /\ NoPosts
    \/ Quiet /\ NoBlogs /\ NoPosts /\ SignedInFirst /\ OnePlatformArea

MCSymmetry == Permutations(Requests) \cup Permutations(Callbacks) \cup Permutations(Visits)
              \cup Permutations(Users) \cup Permutations(Emails) \cup Permutations(Pages)
=============================================================================
