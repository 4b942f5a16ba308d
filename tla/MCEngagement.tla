---------------------------- MODULE MCEngagement ----------------------------
(***************************************************************************)
(* Engagement with posts that all belong to one user.                      *)
(***************************************************************************)
EXTENDS Engagement, TLC

CONSTANT owner

MCOwnerOf == [t \in Targets |-> owner]

(* Bound: one kind of row at a time.  Users, posts and deleteUserById are   *)
(* all that likes, shares, comments, ratings and follows share.             *)
Areas == <<\E t \in Targets : likeCount[t] # 0,
           \E t \in Targets : shareCount[t] # 0,
           \E c \in Comments : comment[c].state # "none",
           \/ \E u \in Users : rating[u].target # None
           \/ \E t \in Targets : averaged[t] # NoRatings,
           \/ \E pair \in Follow : followed[pair] + unfollowed[pair] > 0
           \/ \E u \in Users : followersCount[u] + followingsCount[u] # 0>>

OneArea == \A i, j \in DOMAIN Areas : Areas[i] /\ Areas[j] => i = j

\* Bound: transactions in progress and events not handled yet, together.
InFlight ==
    Cardinality({u \in Users : deletion[u].active})
      + Cardinality({u \in Users : rating[u].target # None})
      + Cardinality({c \in Comments : removing[c].active})
      + Cardinality({pair \in Follow : followed[pair] > 0})
      + Cardinality({pair \in Follow : unfollowed[pair] > 0}) <= 2

\* Bound: only the first comment is liked, before there is another one.
LoneCommentLikes ==
    (\E c \in Comments : likeCount[c] # 0) =>
      Cardinality({c \in Comments : comment[c].state # "none"}) = 1

\* Bound: the history ends when a counter may have drifted.
Bounds == OneArea /\ InFlight /\ LoneCommentLikes /\ drifted = {}

MCSymmetry == Permutations(Comments) \cup Permutations(Users \ {owner})
=============================================================================
