-------------------------- MODULE Engagement_proofs --------------------------
(***************************************************************************)
(* Proofs about Engagement: every state is well typed, likes are counted   *)
(* exactly, comments and shares never below what there is, and follows     *)
(* exactly once their events are handled, for any number of users, posts,  *)
(* comments and pending events, and any number of accounts being deleted   *)
(* at the same time.                                                       *)
(*                                                                         *)
(* A counter is right because two more things are: what a deletion that is *)
(* in progress has read about a target is still so (unless the target has  *)
(* drifted), and the replies a removal has deleted stay there, below the   *)
(* comment, until it commits.  A count of follows is right with what the   *)
(* pending events will add to it.                                          *)
(***************************************************************************)
EXTENDS Engagement, FiniteSetTheorems, TLAPS

Existing == targets \cup {c \in Comments : Live(c)}

\* A reply belongs to the target of its parent, and no comment is its own parent.
TreeInv ==
    \A c \in Comments : comment[c].state # "none" =>
      /\ comment[c].target \in Targets
      /\ comment[c].author \in Users
      /\ comment[c].parent # None =>
           /\ comment[c].parent \in Comments \ {c}
           /\ comment[comment[c].parent].state # "none"
           /\ comment[comment[c].parent].target = comment[c].target

LockInv ==
    \A c \in Comments : \A r \in removing[c].replies : Live(r) /\ comment[r].parent = c

\* Nobody has read or liked a comment that was not written yet.
FreshInv ==
    \A c \in Comments : comment[c].state = "none" =>
      /\ likes[c] = {}
      /\ likeCount[c] = 0
      /\ \A u \in Users : c \notin deletion[u].likes \cup deletion[u].comments

LikeInv ==
    \A x \in Existing \ drifted :
      /\ likeCount[x] = Cardinality(likes[x])
      /\ \A u \in Users : deletion[u].active => (x \in deletion[u].likes <=> u \in likes[x])

ShareInv ==
    \A t \in targets :
      /\ shareCount[t] >= Cardinality(shares[t])
      /\ t \notin cascaded => shareCount[t] = Cardinality(shares[t])

CommentInv ==
    \A t \in targets \ drifted :
      /\ commentCount[t] >= Cardinality(CommentsOf(t))
      /\ t \notin cascaded => commentCount[t] = Cardinality(CommentsOf(t))
      /\ \A u \in Users : deletion[u].active =>
           {c \in deletion[u].comments : comment[c].target = t}
             = {c \in Written(u) : comment[c].target = t}

\* What the ratings of the blog that v rates will be.
Mine(v) == [ratings[rating[v].target] EXCEPT ![v] = rating[v].value]

RatingInv ==
    /\ \A t \in targets \ stale : averaged[t] = ratings[t]
    /\ \A v \in Users : rating[v].clean /\ rating[v].target \in targets =>
         rating[v].aggregate = Mine(v)

(* Follows.  An event waiting for its handler is one of MaxPending tickets  *)
(* of its pair, so that what is pending about a user is a set to count.     *)
Tickets(P)    == P \X (1 .. MaxPending)
Pending(e, P) == {k \in Tickets(P) : k[2] <= e[k[1]]}

To(u)   == {pair \in Follow : pair[2] = u}
From(u) == {pair \in Follow : pair[1] = u}

Followers(u)  == {f \in Users : <<f, u>> \in follows}
Followings(u) == {g \in Users : <<u, g>> \in follows}

More(e, pair) == [e EXCEPT ![pair] = @ + 1]
Less(e, pair) == [e EXCEPT ![pair] = @ - 1]

\* A count, when the events about the pairs P are taken in.
Expected(count, follow, unfollow, P) ==
    count + Cardinality(Pending(follow, P)) - Cardinality(Pending(unfollow, P))

\* What a deletion has read of u is so.
ReadRight(u) ==
    \A v \in Users : deletion[v].active =>
      /\ u \in deletion[v].followers <=> <<u, v>> \in follows
      /\ u \in deletion[v].followings <=> <<v, u>> \in follows

FollowInv ==
    \A u \in users \ drifted :
      /\ Expected(followersCount[u], followed, unfollowed, To(u)) = Cardinality(Followers(u))
      /\ Expected(followingsCount[u], followed, unfollowed, From(u))
           = Cardinality(Followings(u))
      /\ ReadRight(u)

EngagementInv ==
    /\ TypeOK
    /\ TreeInv /\ LockInv /\ FreshInv
    /\ LikeInv /\ ShareInv /\ CommentInv /\ RatingInv /\ FollowInv

-----------------------------------------------------------------------------
(* The steps of the system, one disjunct per effect.                        *)
LEMMA StepCases ==
  ASSUME Next
  PROVE  \/ \E u \in Users, x \in Existing : AddLike(u, x) \/ DropLike(u, x)
         \/ \E u \in Users, t \in Targets : CreateShare(u, t)
         \/ \E u \in Users, t \in Targets, value \in Inputs : BeginRate(u, t, value)
         \/ \E u \in Users, c \in Comments, t \in Targets, parent \in Comments \cup {None} :
              Create(u, c, t, parent)
         \/ \E u \in Users, c \in Comments : BeginRemove(u, c)
         \/ \E c \in Comments : FinishRemove(c) \/ AbortRemove(c)
         \/ \E u \in Users : FinishRate(u) \/ AbortRate(u)
         \/ \E f \in Users : \E g \in Users \ {f} :
              \/ FollowUser(f, g)
              \/ UnfollowUser(f, g)
              \/ HandleUpdateFollowCounts(f, g)
              \/ HandleUpdateUnfollowCounts(f, g)
              \/ LoseEvent(f, g)
         \/ \E t \in Targets : DeletePost(t)
         \/ \E u \in Users : BeginDeleteUser(u) \/ DeleteUserById(u) \/ AbortDeletion(u)
<1>1. CASE \E u \in Users : TargetStep(u)
  BY <1>1 DEF TargetStep, CreateLike, RemoveLike, Existing
<1>2. CASE \E u \in Users : CommentStep(u)
  BY <1>2 DEF CommentStep, LikeComment, UnlikeComment, Existing
<1>3. CASE \E u \in Users : FollowStep(u)
  BY <1>3 DEF FollowStep
<1> QED
  BY <1>1, <1>2, <1>3 DEF Next

(* What the cascade deletes: what it starts from, and all that is below.    *)
LEMMA CascadeFacts ==
  ASSUME NEW C \in SUBSET Comments
  PROVE  /\ C \subseteq Cascade(C)
         /\ Cascade(C) \subseteq Comments
         /\ \A d \in Cascade(C) : RepliesTo(d) \subseteq Cascade(C)
         /\ \A D \in SUBSET Comments :
              C \subseteq D /\ (\A d \in D : RepliesTo(d) \subseteq D) => Cascade(C) \subseteq D
<1>1. C \subseteq Cascade(C) /\ Cascade(C) \subseteq Comments
  BY DEF Cascade
<1>2. ASSUME NEW d \in Cascade(C), NEW r \in RepliesTo(d)
      PROVE  r \in Cascade(C)
  <2>1. r \in Comments
    BY DEF RepliesTo
  <2>2. ASSUME NEW D \in SUBSET Comments, C \subseteq D, \A e \in D : RepliesTo(e) \subseteq D
        PROVE  r \in D
    BY <1>2, <2>2 DEF Cascade
  <2> QED
    BY <2>1, <2>2 DEF Cascade
<1>3. ASSUME NEW D \in SUBSET Comments, C \subseteq D, \A d \in D : RepliesTo(d) \subseteq D
      PROVE  Cascade(C) \subseteq D
  BY <1>3 DEF Cascade
<1> QED
  BY <1>1, <1>2, <1>3

(* The comments below one comment are live and on the same target.          *)
LEMMA CascadeOfOne ==
  ASSUME TypeOK, TreeInv, NEW c \in Comments, Live(c)
  PROVE  \A d \in Cascade({c}) : Live(d) /\ comment[d].target = comment[c].target
<1> DEFINE D == CommentsOf(comment[c].target)
<1>1. D \in SUBSET Comments /\ {c} \subseteq D
  BY DEF CommentsOf
<1>2. \A d \in D : RepliesTo(d) \subseteq D
  BY EngagementAssumption DEF RepliesTo, CommentsOf, TreeInv, Live
<1>3. Cascade({c}) \subseteq D
  BY <1>1, <1>2, CascadeFacts
<1> QED
  BY <1>3 DEF CommentsOf

(* The comments that go with a deleted user are live.                       *)
LEMMA CascadeOfWritten ==
  ASSUME NEW u \in Users
  PROVE  /\ Written(u) \subseteq Cascade(Written(u))
         /\ Cascade(Written(u)) \subseteq Comments
         /\ \A d \in Cascade(Written(u)) : Live(d)
<1>1. Written(u) \in SUBSET Comments
  BY DEF Written
<1> DEFINE D == {c \in Comments : Live(c)}
<1>2. /\ D \in SUBSET Comments /\ Written(u) \subseteq D
      /\ \A d \in D : RepliesTo(d) \subseteq D
  BY DEF Written, RepliesTo
<1>3. Cascade(Written(u)) \subseteq D
  BY <1>1, <1>2, CascadeFacts
<1> QED
  BY <1>1, <1>3, CascadeFacts

(* Cardinalities of sets of users and of comments.                          *)
LEMMA Counting ==
  ASSUME NEW S, IsFiniteSet(S)
  PROVE  /\ Cardinality(S) \in Nat
         /\ \A x : x \notin S => Cardinality(S \cup {x}) = Cardinality(S) + 1
         /\ \A x \in S : Cardinality(S \ {x}) = Cardinality(S) - 1
         /\ \A T : T \subseteq S => /\ IsFiniteSet(T)
                                    /\ Cardinality(T) \in Nat
                                    /\ Cardinality(T) <= Cardinality(S)
                                    /\ Cardinality(S \ T) = Cardinality(S) - Cardinality(T)
<1>1. Cardinality(S) \in Nat
  BY FS_CardinalityType
<1>2. \A x : x \notin S => Cardinality(S \cup {x}) = Cardinality(S) + 1
  BY FS_AddElement
<1>3. \A x \in S : Cardinality(S \ {x}) = Cardinality(S) - 1
  BY FS_RemoveElement
<1>4. ASSUME NEW T, T \subseteq S
      PROVE  /\ IsFiniteSet(T)
             /\ Cardinality(T) \in Nat
             /\ Cardinality(T) <= Cardinality(S)
             /\ Cardinality(S \ T) = Cardinality(S) - Cardinality(T)
  <2>1. IsFiniteSet(T) /\ Cardinality(T) <= Cardinality(S)
    BY <1>4, FS_Subset
  <2>2. S \cap T = T
    BY <1>4
  <2>3. Cardinality(S \ T) = Cardinality(S) - Cardinality(S \cap T)
    BY FS_Difference
  <2> QED
    BY <2>1, <2>2, <2>3, FS_CardinalityType
<1> QED
  BY <1>1, <1>2, <1>3, <1>4

-----------------------------------------------------------------------------
(* The constants that records are made of have their types.                 *)
LEMMA InitialTypes ==
  /\ NoComment \in CommentRow
  /\ NoRemoval \in Removal
  /\ NoRatings \in RatingMap
  /\ NoRating \in RatingCall
  /\ NoDeletion \in Deletion
<1>1. NoRatings \in RatingMap
  BY DEF NoRatings, RatingMap
<1>2. NoRating \in RatingCall
  BY <1>1 DEF NoRating, RatingCall
<1> QED
  BY <1>1, <1>2 DEF NoComment, CommentRow, NoRemoval, Removal, NoDeletion, Deletion

(* The variables are well typed initially.                                  *)
LEMMA InitTypes == Init => TypeOK
<1> SUFFICES ASSUME Init PROVE TypeOK
  OBVIOUS
<1> USE EngagementAssumption, InitialTypes DEF Init
<1>1. users \subseteq Users /\ targets \subseteq Targets
  OBVIOUS
<1>2. likes \in [Likeable -> SUBSET Users] /\ likeCount \in [Likeable -> Int]
  OBVIOUS
<1>3. shares \in [Targets -> SUBSET Users] /\ shareCount \in [Targets -> Int]
  OBVIOUS
<1>4. /\ comment \in [Comments -> CommentRow]
      /\ commentCount \in [Targets -> Int]
      /\ removing \in [Comments -> Removal]
  OBVIOUS
<1>5. /\ ratings \in [Targets -> RatingMap]
      /\ averaged \in [Targets -> RatingMap]
      /\ rating \in [Users -> RatingCall]
  OBVIOUS
<1>6. /\ follows \subseteq Follow
      /\ followersCount \in [Users -> Int]
      /\ followingsCount \in [Users -> Int]
      /\ followed \in [Follow -> 0 .. MaxPending]
      /\ unfollowed \in [Follow -> 0 .. MaxPending]
  OBVIOUS
<1>7. /\ deletion \in [Users -> Deletion]
      /\ drifted \subseteq Likeable \cup Users
      /\ cascaded \subseteq Targets
      /\ stale \subseteq Targets
  OBVIOUS
<1> QED
  BY <1>1, <1>2, <1>3, <1>4, <1>5, <1>6, <1>7 DEF TypeOK

LikeTypes    == likes \in [Likeable -> SUBSET Users] /\ likeCount \in [Likeable -> Int]
ShareTypes   == shares \in [Targets -> SUBSET Users] /\ shareCount \in [Targets -> Int]
CommentTypes == /\ comment \in [Comments -> CommentRow]
                /\ commentCount \in [Targets -> Int]
                /\ removing \in [Comments -> Removal]
RatingTypes  == /\ ratings \in [Targets -> RatingMap]
                /\ averaged \in [Targets -> RatingMap]
                /\ rating \in [Users -> RatingCall]
                /\ stale \subseteq Targets
FollowTypes  == /\ follows \subseteq Follow
                /\ followersCount \in [Users -> Int]
                /\ followingsCount \in [Users -> Int]
                /\ followed \in [Follow -> 0 .. MaxPending]
                /\ unfollowed \in [Follow -> 0 .. MaxPending]
AccountTypes == /\ users \subseteq Users
                /\ targets \subseteq Targets
                /\ deletion \in [Users -> Deletion]
DriftTypes   == drifted \subseteq Likeable \cup Users /\ cascaded \subseteq Targets

(* The type invariant is the conjunction of those of the parts.             *)
LEMMA TypesByPart ==
  /\ TypeOK => /\ LikeTypes /\ ShareTypes /\ CommentTypes /\ RatingTypes
               /\ FollowTypes /\ AccountTypes /\ DriftTypes
  /\ /\ LikeTypes' /\ ShareTypes' /\ CommentTypes' /\ RatingTypes'
     /\ FollowTypes' /\ AccountTypes' /\ DriftTypes'
     => TypeOK'
BY DEF TypeOK, LikeTypes, ShareTypes, CommentTypes, RatingTypes, FollowTypes, AccountTypes,
       DriftTypes

(* A part whose variables do not change keeps its types.                    *)
LEMMA UnchangedTypes ==
  /\ LikeTypes /\ UNCHANGED likeVars => LikeTypes'
  /\ ShareTypes /\ UNCHANGED shareVars => ShareTypes'
  /\ CommentTypes /\ UNCHANGED commentVars => CommentTypes'
  /\ RatingTypes /\ UNCHANGED ratingVars => RatingTypes'
  /\ FollowTypes /\ UNCHANGED followVars => FollowTypes'
  /\ AccountTypes /\ UNCHANGED accountVars => AccountTypes'
BY DEF LikeTypes, likeVars, ShareTypes, shareVars, CommentTypes, commentVars, RatingTypes,
       ratingVars, FollowTypes, followVars, AccountTypes, accountVars
-----------------------------------------------------------------------------
(* Every step keeps the types: a lemma for each kind of step.               *)
LEMMA LikeStepTypes ==
  ASSUME TypeOK, NEW u \in Users, NEW x \in Existing, AddLike(u, x) \/ DropLike(u, x)
  PROVE  TypeOK'
<1>1. x \in Likeable
  BY DEF TypeOK, Existing, Likeable
<1>2. LikeTypes'
  BY <1>1 DEF LikeTypes, TypeOK, AddLike, DropLike
<1>3. DriftTypes'
  BY <1>1 DEF DriftTypes, TypeOK, AddLike, DropLike, Drift
<1> QED
  BY <1>2, <1>3, TypesByPart, UnchangedTypes DEF AddLike, DropLike

(* Shares.                                                                  *)
LEMMA ShareStepTypes ==
  ASSUME TypeOK, NEW u \in Users, NEW t \in Targets, CreateShare(u, t)
  PROVE  TypeOK'
<1>1. ShareTypes'
  BY DEF ShareTypes, TypeOK, CreateShare
<1>2. DriftTypes'
  BY DEF DriftTypes, TypeOK, CreateShare
<1> QED
  BY <1>1, <1>2, TypesByPart, UnchangedTypes DEF CreateShare

(* Calls that are outdated by another one stay well typed.                  *)
LEMMA OutdatedTypes ==
  ASSUME TypeOK, NEW B
  PROVE  Outdated(rating, B) \in [Users -> RatingCall]
<1>1. \A v \in Users, flag \in BOOLEAN : [rating[v] EXCEPT !.clean = flag] \in RatingCall
  BY DEF TypeOK, RatingCall
<1>2. \A v \in Users : rating[v].clean \in BOOLEAN
  BY DEF TypeOK, RatingCall
<1> QED
  BY <1>1, <1>2 DEF Outdated

(* Both halves of rateBlog.                                                 *)
LEMMA RatingStepTypes ==
  ASSUME TypeOK, NEW u \in Users,
         \/ \E t \in Targets, value \in Inputs : BeginRate(u, t, value)
         \/ FinishRate(u)
         \/ AbortRate(u)
  PROVE  TypeOK'
<1>1. CASE \E t \in Targets, value \in Inputs : BeginRate(u, t, value)
  <2> PICK t \in Targets, value \in Inputs : BeginRate(u, t, value)
    BY <1>1
  <2>1. [ratings[t] EXCEPT ![u] = value] \in RatingMap /\ value \in 0 .. 5
    BY DEF BeginRate, RatingMap, TypeOK
  <2>2. RatingTypes'
    BY <2>1 DEF RatingTypes, TypeOK, BeginRate, RatingCall
  <2>3. DriftTypes'
    BY DEF DriftTypes, TypeOK, BeginRate
  <2> QED
    BY <2>2, <2>3, TypesByPart, UnchangedTypes DEF BeginRate
<1>2. CASE FinishRate(u)
  <2> DEFINE b == rating[u].target
  <2>1. rating[u] \in RatingCall /\ b \in Targets
    BY <1>2, EngagementAssumption DEF FinishRate, TypeOK, RatingCall
  <2>2. Outdated(rating, {b}) \in [Users -> RatingCall]
    BY OutdatedTypes
  <2>3. rating' \in [Users -> RatingCall]
    BY <1>2, <2>2, InitialTypes DEF FinishRate
  <2> DEFINE mine == [ratings[b] EXCEPT ![u] = rating[u].value]
  <2>4. mine \in RatingMap /\ rating[u].aggregate \in RatingMap
    BY <2>1 DEF TypeOK, RatingCall, RatingMap
  <2>6. /\ ratings' \in [Targets -> RatingMap]
        /\ averaged' \in [Targets -> RatingMap]
        /\ stale' \subseteq Targets
    <3>1. /\ ratings' = [ratings EXCEPT ![b] = mine]
          /\ averaged' = [averaged EXCEPT ![b] = rating[u].aggregate]
          /\ stale' = IF rating[u].clean THEN stale \ {b} ELSE stale \cup {b}
      BY <1>2 DEF FinishRate
    <3> QED
      BY <2>1, <2>4, <3>1 DEF TypeOK
  <2>5. RatingTypes' /\ DriftTypes'
    BY <1>2, <2>3, <2>6 DEF RatingTypes, DriftTypes, TypeOK, FinishRate
  <2> QED
    BY <1>2, <2>5, TypesByPart, UnchangedTypes DEF FinishRate
<1>3. CASE AbortRate(u)
  <2>1. RatingTypes' /\ DriftTypes'
    BY <1>3, InitialTypes DEF RatingTypes, DriftTypes, TypeOK, AbortRate
  <2> QED
    BY <1>3, <2>1, TypesByPart, UnchangedTypes DEF AbortRate
<1> QED
  BY <1>1, <1>2, <1>3

(* Comments that are written ...                                            *)
LEMMA CreateTypes ==
  ASSUME TypeOK, NEW u \in Users, NEW c \in Comments, NEW t \in Targets,
         NEW parent \in Comments \cup {None}, Create(u, c, t, parent)
  PROVE  TypeOK'
<1> DEFINE row == [state |-> "live", author |-> u, target |-> t, parent |-> parent]
<1>1. row \in CommentRow
  BY DEF CommentRow
<1>2. comment' \in [Comments -> CommentRow]
  BY <1>1 DEF Create, TypeOK
<1>3. CommentTypes' /\ DriftTypes'
  BY <1>2 DEF CommentTypes, DriftTypes, TypeOK, Create, Drift, Likeable
<1> QED
  BY <1>3, TypesByPart, UnchangedTypes DEF Create

(* Comments that are deleted stay well typed.                               *)
LEMMA DeletedTypes ==
  ASSUME TypeOK, NEW D, DeleteComments(D)
  PROVE  comment' \in [Comments -> CommentRow]
BY DEF DeleteComments, TypeOK, CommentRow

(* What drifts with deleted comments are targets.                           *)
LEMMA RacedAreTargets ==
  ASSUME TypeOK, TreeInv, NEW D \in SUBSET Comments, \A d \in D : Live(d)
  PROVE  RacedTargets(D) \subseteq Targets
BY DEF RacedTargets, TreeInv, Live

(* ... and removed, in two steps.                                           *)
LEMMA RemoveStepTypes ==
  ASSUME TypeOK, TreeInv, NEW c \in Comments,
         \/ \E u \in Users : BeginRemove(u, c)
         \/ FinishRemove(c) \/ AbortRemove(c)
  PROVE  TypeOK'
<1>1. CASE \E u \in Users : BeginRemove(u, c)
  <2> PICK u \in Users : BeginRemove(u, c)
    BY <1>1
  <2>1. [active |-> TRUE, replies |-> RepliesTo(c)] \in Removal
    BY DEF Removal, RepliesTo
  <2>2. CommentTypes' /\ DriftTypes'
    BY <2>1 DEF CommentTypes, DriftTypes, TypeOK, BeginRemove
  <2> QED
    BY <2>2, TypesByPart, UnchangedTypes DEF BeginRemove
<1>2. CASE FinishRemove(c)
  <2> DEFINE D == Cascade({c})
             t == comment[c].target
  <2>1. D \in SUBSET Comments /\ \A d \in D : Live(d)
    BY <1>2, CascadeFacts, CascadeOfOne DEF FinishRemove
  <2>2. RacedTargets(D) \subseteq Targets
    BY <2>1, RacedAreTargets
  <2>3. removing[c].replies \in SUBSET Comments
    BY DEF TypeOK, Removal
  <2>4. Cardinality(removing[c].replies) \in Nat
    BY <2>3, EngagementAssumption, Counting
  <2>5. comment' \in [Comments -> CommentRow]
    BY <1>2, DeletedTypes DEF FinishRemove
  <2>6. commentCount' \in [Targets -> Int]
    BY <1>2, <2>4 DEF FinishRemove, TypeOK
  <2>7. removing' \in [Comments -> Removal]
    BY <1>2, InitialTypes DEF FinishRemove, TypeOK
  <2>8. LikeTypes'
    BY <1>2 DEF FinishRemove, LikeTypes, TypeOK
  <2>9. DriftTypes'
    BY <1>2, <2>2 DEF FinishRemove, DriftTypes, TypeOK, Likeable
  <2>10. CommentTypes'
    BY <2>5, <2>6, <2>7 DEF CommentTypes
  <2> QED
    BY <1>2, <2>8, <2>9, <2>10, TypesByPart, UnchangedTypes DEF FinishRemove
<1>3. CASE AbortRemove(c)
  <2>1. CommentTypes' /\ DriftTypes'
    BY <1>3, InitialTypes DEF CommentTypes, DriftTypes, TypeOK, AbortRemove
  <2> QED
    BY <1>3, <2>1, TypesByPart, UnchangedTypes DEF AbortRemove
<1> QED
  BY <1>1, <1>2, <1>3

(* Follows, and the events about them.                                      *)
LEMMA FollowStepTypes ==
  ASSUME TypeOK, NEW f \in Users, NEW g \in Users \ {f},
         \/ FollowUser(f, g)
         \/ UnfollowUser(f, g)
         \/ HandleUpdateFollowCounts(f, g)
         \/ HandleUpdateUnfollowCounts(f, g)
         \/ LoseEvent(f, g)
  PROVE  TypeOK'
<1>1. <<f, g>> \in Follow
  BY DEF Follow
<1> USE EngagementAssumption
<1>2. CASE FollowUser(f, g)
  <2>1. follows' \subseteq Follow /\ followed' \in [Follow -> 0 .. MaxPending]
    BY <1>1, <1>2 DEF TypeOK, FollowUser
  <2>3. FollowTypes'
    BY <1>2, <2>1 DEF FollowTypes, TypeOK, FollowUser
  <2>2. DriftTypes'
    BY <1>2 DEF DriftTypes, TypeOK, FollowUser
  <2> QED
    BY <1>2, <2>2, <2>3, TypesByPart, UnchangedTypes DEF FollowUser
<1>3. CASE UnfollowUser(f, g)
  <2>1. FollowTypes'
    BY <1>1, <1>3 DEF FollowTypes, TypeOK, UnfollowUser
  <2>2. DriftTypes'
    BY <1>3 DEF DriftTypes, TypeOK, UnfollowUser
  <2> QED
    BY <1>3, <2>1, <2>2, TypesByPart, UnchangedTypes DEF UnfollowUser
<1>4. CASE HandleUpdateFollowCounts(f, g)
  <2>1. FollowTypes'
    BY <1>1, <1>4 DEF FollowTypes, TypeOK, HandleUpdateFollowCounts, UpdateCounts
  <2>2. DriftTypes'
    BY <1>4 DEF DriftTypes, TypeOK, HandleUpdateFollowCounts, UpdateCounts
  <2> QED
    BY <1>4, <2>1, <2>2, TypesByPart, UnchangedTypes DEF HandleUpdateFollowCounts
<1>5. CASE HandleUpdateUnfollowCounts(f, g)
  <2>1. FollowTypes'
    BY <1>1, <1>5 DEF FollowTypes, TypeOK, HandleUpdateUnfollowCounts, UpdateCounts
  <2>2. DriftTypes'
    BY <1>5 DEF DriftTypes, TypeOK, HandleUpdateUnfollowCounts, UpdateCounts
  <2> QED
    BY <1>5, <2>1, <2>2, TypesByPart, UnchangedTypes DEF HandleUpdateUnfollowCounts
<1>6. CASE LoseEvent(f, g)
  <2>1. /\ followed' \in [Follow -> 0 .. MaxPending]
        /\ unfollowed' \in [Follow -> 0 .. MaxPending]
    <3>1. CASE followed[<<f, g>>] > 0 /\ followed' = [followed EXCEPT ![<<f, g>>] = @ - 1]
                 /\ UNCHANGED unfollowed
      BY <1>1, <3>1 DEF TypeOK
    <3>2. CASE unfollowed[<<f, g>>] > 0 /\ unfollowed' = [unfollowed EXCEPT ![<<f, g>>] = @ - 1]
                 /\ UNCHANGED followed
      BY <1>1, <3>2 DEF TypeOK
    <3> QED
      BY <1>6, <3>1, <3>2 DEF LoseEvent
  <2>3. FollowTypes'
    BY <1>6, <2>1 DEF FollowTypes, TypeOK, LoseEvent
  <2>2. DriftTypes'
    BY <1>6 DEF DriftTypes, TypeOK, LoseEvent
  <2> QED
    BY <1>6, <2>2, <2>3, TypesByPart, UnchangedTypes DEF LoseEvent
<1> QED
  BY <1>2, <1>3, <1>4, <1>5, <1>6

(* The deletion of a post or blog ...                                       *)
LEMMA DeletePostTypes ==
  ASSUME TypeOK, NEW t \in Targets, DeletePost(t)
  PROVE  TypeOK'
<1>1. LikeTypes' /\ ShareTypes'
  BY DEF LikeTypes, ShareTypes, TypeOK, DeletePost, Likeable
<1>2. RatingTypes'
  BY InitialTypes DEF RatingTypes, TypeOK, DeletePost
<1>3. AccountTypes' /\ DriftTypes'
  BY DEF AccountTypes, DriftTypes, TypeOK, DeletePost
<1> QED
  BY <1>1, <1>2, <1>3, TypesByPart, UnchangedTypes DEF DeletePost, accountVars

(* ... and of a user.                                                       *)
LEMMA DeletionStepTypes ==
  ASSUME TypeOK, TreeInv, NEW u \in Users,
         BeginDeleteUser(u) \/ DeleteUserById(u) \/ AbortDeletion(u)
  PROVE  TypeOK'
<1>1. CASE BeginDeleteUser(u)
  <2> DEFINE read == [active     |-> TRUE,
                      followers  |-> {f \in Users : <<f, u>> \in follows},
                      followings |-> {g \in Users : <<u, g>> \in follows},
                      comments   |-> {c \in Comments : Live(c) /\ comment[c].author = u},
                      likes      |-> {x \in Likeable : u \in likes[x]}]
  <2>1. read \in Deletion
    BY DEF Deletion
  <2>2. AccountTypes' /\ DriftTypes'
    BY <1>1, <2>1 DEF AccountTypes, DriftTypes, TypeOK, BeginDeleteUser
  <2> QED
    BY <1>1, <2>2, TypesByPart, UnchangedTypes DEF BeginDeleteUser
<1>2. CASE DeleteUserById(u)
  <2> DEFINE read == deletion[u]
             D    == Cascade(Written(u))
             own(t) == {c \in read.comments : comment[c].target = t}
  <2>1. read \in Deletion
    BY DEF TypeOK
  <2>2. D \in SUBSET Comments /\ \A d \in D : Live(d)
    BY CascadeOfWritten
  <2>3. \A t \in Targets : Cardinality(own(t)) \in Nat
    BY <2>1, EngagementAssumption, Counting DEF Deletion
  <2>4. comment' \in [Comments -> CommentRow]
    BY <1>2, DeletedTypes DEF DeleteUserById
  <2>5. commentCount' \in [Targets -> Int]
    BY <1>2, <2>3 DEF DeleteUserById, TypeOK
  <2>6. CommentTypes'
    BY <1>2, <2>4, <2>5 DEF CommentTypes, DeleteUserById, TypeOK
  <2>7. LikeTypes'
    BY <1>2 DEF LikeTypes, DeleteUserById, Lowered, TypeOK
  <2>8. ShareTypes'
    BY <1>2 DEF ShareTypes, DeleteUserById, TypeOK
  <2>9. RatingTypes'
    <3>1. ratings' \in [Targets -> RatingMap]
      <4>1. \A t \in Targets : [ratings[t] EXCEPT ![u] = 0] \in RatingMap
        BY DEF TypeOK, RatingMap
      <4> QED
        BY <1>2, <4>1, InitialTypes DEF DeleteUserById, TypeOK
    <3>2. rating' \in [Users -> RatingCall]
      BY <1>2, OutdatedTypes DEF DeleteUserById
    <3> QED
      BY <1>2, <3>1, <3>2 DEF RatingTypes, DeleteUserById, TypeOK
  <2>10. FollowTypes'
    BY <1>2 DEF FollowTypes, DeleteUserById, Lowered, TypeOK
  <2>11. AccountTypes'
    BY <1>2, InitialTypes DEF AccountTypes, DeleteUserById, TypeOK
  <2>12. RacedTargets({d \in D : comment[d].author # u}) \subseteq Targets
    BY <2>2, RacedAreTargets
  <2>13. {comment[d].target : d \in D \ Written(u)} \subseteq Targets
    BY <2>2 DEF TreeInv, Live
  <2>14. DriftTypes'
    BY <1>2, <2>12, <2>13 DEF DriftTypes, DeleteUserById, TypeOK, Likeable
  <2> QED
    BY <2>6, <2>7, <2>8, <2>9, <2>10, <2>11, <2>14, TypesByPart
<1>3. CASE AbortDeletion(u)
  <2>1. AccountTypes' /\ DriftTypes'
    BY <1>3, InitialTypes DEF AccountTypes, DriftTypes, TypeOK, AbortDeletion
  <2> QED
    BY <1>3, <2>1, TypesByPart, UnchangedTypes DEF AbortDeletion
<1> QED
  BY <1>1, <1>2, <1>3

(* Every step keeps the types.                                              *)
LEMMA TypeStep == TypeOK /\ TreeInv /\ [Next]_vars => TypeOK'
<1> SUFFICES ASSUME TypeOK, TreeInv, [Next]_vars PROVE TypeOK'
  OBVIOUS
<1>1. CASE Next
  BY <1>1, StepCases, LikeStepTypes, ShareStepTypes, RatingStepTypes, CreateTypes,
     RemoveStepTypes, FollowStepTypes, DeletePostTypes, DeletionStepTypes
<1>2. CASE UNCHANGED vars
  <2>1. DriftTypes'
    BY <1>2 DEF DriftTypes, TypeOK, vars
  <2> QED
    BY <1>2, <2>1, TypesByPart, UnchangedTypes DEF vars
<1> QED
  BY <1>1, <1>2
-----------------------------------------------------------------------------
(* The comments: what is above a comment, and what a removal holds.         *)
LEMMA TreeStep == TypeOK /\ TreeInv /\ [Next]_vars => TreeInv'
<1> SUFFICES ASSUME TypeOK, TreeInv, [Next]_vars PROVE TreeInv'
  OBVIOUS
<1>1. ASSUME NEW D, DeleteComments(D), \A d \in D : Live(d)
      PROVE  TreeInv'
  <2>1. \A c \in Comments :
          /\ comment'[c].target = comment[c].target
          /\ comment'[c].author = comment[c].author
          /\ comment'[c].parent = comment[c].parent
          /\ comment'[c].state = IF c \in D THEN "deleted" ELSE comment[c].state
    BY <1>1 DEF DeleteComments, TypeOK, CommentRow
  <2>2. \A c \in Comments : comment'[c].state = "none" <=> comment[c].state = "none"
    BY <1>1, <2>1 DEF Live
  <2> QED
    BY <2>1, <2>2 DEF TreeInv
<1>2. ASSUME UNCHANGED comment
      PROVE  TreeInv'
  BY <1>2 DEF TreeInv
<1>3. ASSUME NEW u \in Users, NEW c \in Comments, NEW t \in Targets,
             NEW parent \in Comments \cup {None}, Create(u, c, t, parent)
      PROVE  TreeInv'
  <2>1. /\ comment[c].state = "none"
        /\ comment' = [comment EXCEPT ![c] = [state |-> "live", author |-> u,
                                              target |-> t, parent |-> parent]]
        /\ parent # None => /\ comment[parent].state = "live"
                            /\ comment[parent].target = t
    BY <1>3 DEF Create, Live
  <2> QED
    BY <2>1, EngagementAssumption DEF TreeInv, TypeOK, CommentRow
<1>4. CASE \E u \in Users, x \in Existing : AddLike(u, x) \/ DropLike(u, x)
  BY <1>2, <1>4
     DEF AddLike, DropLike, commentVars
<1>5. CASE \E u \in Users, t \in Targets : CreateShare(u, t)
  BY <1>2, <1>5
     DEF CreateShare, commentVars
<1>6. CASE \E u \in Users, t \in Targets, value \in Inputs : BeginRate(u, t, value)
  BY <1>2, <1>6
     DEF BeginRate, commentVars
<1>7. CASE \E u \in Users : FinishRate(u) \/ AbortRate(u)
  BY <1>2, <1>7
     DEF FinishRate, AbortRate, commentVars
<1>8. CASE \E u \in Users, c \in Comments, t \in Targets, parent \in Comments \cup {None} :
            Create(u, c, t, parent)
  BY <1>3, <1>8
<1>9. CASE \E u \in Users, c \in Comments : BeginRemove(u, c)
  BY <1>2, <1>9
     DEF BeginRemove
<1>10. CASE \E c \in Comments : FinishRemove(c) \/ AbortRemove(c)
  <2>1. ASSUME NEW c \in Comments, FinishRemove(c)
        PROVE  TreeInv'
    BY <1>1, <2>1, CascadeOfOne DEF FinishRemove
  <2> QED
    BY <1>2, <1>10, <2>1 DEF AbortRemove
<1>11. CASE \E f \in Users : \E g \in Users \ {f} :
            \/ FollowUser(f, g)
            \/ UnfollowUser(f, g)
            \/ HandleUpdateFollowCounts(f, g)
            \/ HandleUpdateUnfollowCounts(f, g)
            \/ LoseEvent(f, g)
  BY <1>2, <1>11
     DEF FollowUser, UnfollowUser, HandleUpdateFollowCounts, HandleUpdateUnfollowCounts,
         LoseEvent, commentVars
<1>12. CASE \E t \in Targets : DeletePost(t)
  BY <1>2, <1>12
     DEF DeletePost, commentVars
<1>13. CASE \E u \in Users : BeginDeleteUser(u) \/ DeleteUserById(u) \/ AbortDeletion(u)
  <2>1. ASSUME NEW u \in Users, DeleteUserById(u)
        PROVE  TreeInv'
    BY <1>1, <2>1, CascadeOfWritten DEF DeleteUserById
  <2> QED
    BY <1>2, <1>13, <2>1 DEF BeginDeleteUser, AbortDeletion, commentVars
<1>14. CASE UNCHANGED vars
  BY <1>2, <1>14 DEF vars, commentVars
<1> QED
  BY <1>4, <1>5, <1>6, <1>7, <1>8, <1>9,
     <1>10, <1>11, <1>12, <1>13, <1>14, StepCases

(* What a removal has deleted stays below its comment until it ends.        *)
LEMMA LockStep == TypeOK /\ TreeInv /\ LockInv /\ [Next]_vars => LockInv'
<1> SUFFICES ASSUME TypeOK, TreeInv, LockInv, [Next]_vars PROVE LockInv'
  OBVIOUS
<1>1. ASSUME UNCHANGED <<comment, removing>>
      PROVE  LockInv'
  BY <1>1 DEF LockInv, Live
<1>2. ASSUME NEW u \in Users, NEW c \in Comments, NEW t \in Targets,
             NEW parent \in Comments \cup {None}, Create(u, c, t, parent)
      PROVE  LockInv'
  BY <1>2 DEF LockInv, Create, Live, TypeOK, Removal
<1>3. ASSUME NEW u \in Users, NEW c \in Comments, BeginRemove(u, c)
      PROVE  LockInv'
  BY <1>3 DEF LockInv, BeginRemove, RepliesTo, Live, TypeOK
<1>4. ASSUME NEW c \in Comments, FinishRemove(c)
      PROVE  LockInv'
  <2> DEFINE D == Cascade({c})
  <2> SUFFICES ASSUME NEW d \in Comments, NEW r \in removing'[d].replies
               PROVE  Live(r)' /\ comment'[r].parent = d
    BY DEF LockInv
  <2>1. d # c /\ r \in removing[d].replies /\ r \in Comments
    BY <1>4 DEF FinishRemove, NoRemoval, TypeOK, Removal
  <2>2. Live(r) /\ comment[r].parent = d
    BY <2>1 DEF LockInv
  <2>3. r \notin removing[c].replies
    BY <2>1, <2>2 DEF LockInv
  <2>4. r \notin D
    BY <1>4, <2>1, <2>3 DEF FinishRemove, Locked
  <2> QED
    BY <1>4, <2>1, <2>2, <2>4 DEF FinishRemove, DeleteComments, Live
<1>5. ASSUME NEW c \in Comments, AbortRemove(c)
      PROVE  LockInv'
  BY <1>5 DEF LockInv, AbortRemove, NoRemoval, TypeOK, Live
<1>6. ASSUME NEW u \in Users, DeleteUserById(u)
      PROVE  LockInv'
  <2> SUFFICES ASSUME NEW d \in Comments, NEW r \in removing[d].replies
               PROVE  Live(r)' /\ comment'[r].parent = d
    BY <1>6 DEF LockInv, DeleteUserById
  <2>1. r \notin Cascade(Written(u)) /\ r \in Comments
    BY <1>6 DEF DeleteUserById, Locked, TypeOK, Removal
  <2> QED
    BY <1>6, <2>1 DEF DeleteUserById, DeleteComments, LockInv, Live
<1>7. CASE \E u \in Users, x \in Existing : AddLike(u, x) \/ DropLike(u, x)
  BY <1>1, <1>7
     DEF AddLike, DropLike, commentVars
<1>8. CASE \E u \in Users, t \in Targets : CreateShare(u, t)
  BY <1>1, <1>8
     DEF CreateShare, commentVars
<1>9. CASE \E u \in Users, t \in Targets, value \in Inputs : BeginRate(u, t, value)
  BY <1>1, <1>9
     DEF BeginRate, commentVars
<1>10. CASE \E u \in Users : FinishRate(u) \/ AbortRate(u)
  BY <1>1, <1>10
     DEF FinishRate, AbortRate, commentVars
<1>11. CASE \E u \in Users, c \in Comments, t \in Targets, parent \in Comments \cup {None} :
            Create(u, c, t, parent)
  BY <1>2, <1>11
<1>12. CASE \E u \in Users, c \in Comments : BeginRemove(u, c)
  BY <1>3, <1>12
<1>13. CASE \E c \in Comments : FinishRemove(c) \/ AbortRemove(c)
  BY <1>4, <1>5, <1>13
<1>14. CASE \E f \in Users : \E g \in Users \ {f} :
            \/ FollowUser(f, g)
            \/ UnfollowUser(f, g)
            \/ HandleUpdateFollowCounts(f, g)
            \/ HandleUpdateUnfollowCounts(f, g)
            \/ LoseEvent(f, g)
  BY <1>1, <1>14
     DEF FollowUser, UnfollowUser, HandleUpdateFollowCounts, HandleUpdateUnfollowCounts,
         LoseEvent, commentVars
<1>15. CASE \E t \in Targets : DeletePost(t)
  BY <1>1, <1>15
     DEF DeletePost, commentVars
<1>16. CASE \E u \in Users : BeginDeleteUser(u) \/ DeleteUserById(u) \/ AbortDeletion(u)
  BY <1>1, <1>6, <1>16
     DEF BeginDeleteUser, AbortDeletion, commentVars
<1>17. CASE UNCHANGED vars
  BY <1>1, <1>17 DEF vars, commentVars
<1> QED
  BY <1>7, <1>8, <1>9, <1>10, <1>11, <1>12,
     <1>13, <1>14, <1>15, <1>16, <1>17, StepCases

-----------------------------------------------------------------------------
(* Shares.                                                                  *)
LEMMA ShareStep == TypeOK /\ ShareInv /\ [Next]_vars => ShareInv'
<1> SUFFICES ASSUME TypeOK, ShareInv, [Next]_vars PROVE ShareInv'
  OBVIOUS
<1>1. \A t \in Targets : IsFiniteSet(shares[t])
  BY EngagementAssumption, Counting DEF TypeOK
<1>2. ASSUME UNCHANGED shareVars, targets' \subseteq targets, cascaded \subseteq cascaded'
      PROVE  ShareInv'
  BY <1>2 DEF ShareInv, shareVars
<1>3. ASSUME NEW u \in Users, NEW t \in Targets, CreateShare(u, t)
      PROVE  ShareInv'
  <2>1. Cardinality(shares[t] \cup {u}) = Cardinality(shares[t]) + 1
    BY <1>1, <1>3, Counting DEF CreateShare
  <2>2. Cardinality(shares[t]) \in Nat
    BY <1>1, Counting
  <2> QED
    BY <1>3, <2>1, <2>2 DEF CreateShare, ShareInv, TypeOK, accountVars
<1>4. ASSUME NEW t \in Targets, DeletePost(t)
      PROVE  ShareInv'
  BY <1>4 DEF DeletePost, ShareInv, TypeOK
<1>5. ASSUME NEW u \in Users, DeleteUserById(u)
      PROVE  ShareInv'
  <2> SUFFICES ASSUME NEW t \in targets'
               PROVE  /\ shareCount'[t] >= Cardinality(shares'[t])
                      /\ t \notin cascaded' => shareCount'[t] = Cardinality(shares'[t])
    BY DEF ShareInv
  <2>1. /\ t \in targets /\ t \in Targets /\ shareCount' = shareCount
        /\ shares'[t] = shares[t] \ {u}
        /\ t \notin cascaded' => t \notin cascaded /\ u \notin shares[t]
    BY <1>5 DEF DeleteUserById, TypeOK
  <2>2. /\ Cardinality(shares[t]) \in Nat
        /\ Cardinality(shares[t] \ {u}) \in Nat
        /\ Cardinality(shares[t] \ {u}) <= Cardinality(shares[t])
    BY <1>1, <2>1, Counting
  <2>3. u \notin shares[t] => shares[t] \ {u} = shares[t]
    OBVIOUS
  <2>4. /\ shareCount[t] \in Int
        /\ shareCount[t] >= Cardinality(shares[t])
        /\ t \notin cascaded => shareCount[t] = Cardinality(shares[t])
    BY <2>1 DEF ShareInv, TypeOK
  <2>5. /\ shareCount'[t] = shareCount[t]
        /\ Cardinality(shares'[t]) = Cardinality(shares[t] \ {u})
    BY <2>1
  <2>6. CASE t \in cascaded'
    BY <2>2, <2>4, <2>5, <2>6
  <2>7. CASE t \notin cascaded'
    BY <2>1, <2>2, <2>3, <2>4, <2>5, <2>7
  <2> QED
    BY <2>6, <2>7
<1>6. CASE \E u \in Users, x \in Existing : AddLike(u, x) \/ DropLike(u, x)
  BY <1>2, <1>6
     DEF AddLike, DropLike, accountVars
<1>7. CASE \E u \in Users, t \in Targets : CreateShare(u, t)
  BY <1>3, <1>7
<1>8. CASE \E u \in Users, t \in Targets, value \in Inputs : BeginRate(u, t, value)
  BY <1>2, <1>8
     DEF BeginRate, accountVars
<1>9. CASE \E u \in Users : FinishRate(u) \/ AbortRate(u)
  BY <1>2, <1>9
     DEF FinishRate, AbortRate, accountVars
<1>10. CASE \E u \in Users, c \in Comments, t \in Targets, parent \in Comments \cup {None} :
            Create(u, c, t, parent)
  BY <1>2, <1>10
     DEF Create, accountVars
<1>11. CASE \E u \in Users, c \in Comments : BeginRemove(u, c)
  BY <1>2, <1>11
     DEF BeginRemove, accountVars
<1>12. CASE \E c \in Comments : FinishRemove(c) \/ AbortRemove(c)
  BY <1>2, <1>12
     DEF FinishRemove, AbortRemove, accountVars
<1>13. CASE \E f \in Users : \E g \in Users \ {f} :
            \/ FollowUser(f, g)
            \/ UnfollowUser(f, g)
            \/ HandleUpdateFollowCounts(f, g)
            \/ HandleUpdateUnfollowCounts(f, g)
            \/ LoseEvent(f, g)
  BY <1>2, <1>13
     DEF FollowUser, UnfollowUser, HandleUpdateFollowCounts, HandleUpdateUnfollowCounts,
         LoseEvent, accountVars
<1>14. CASE \E t \in Targets : DeletePost(t)
  BY <1>4, <1>14
<1>15. CASE \E u \in Users : BeginDeleteUser(u) \/ DeleteUserById(u) \/ AbortDeletion(u)
  BY <1>2, <1>5, <1>15
     DEF BeginDeleteUser, AbortDeletion
<1>16. CASE UNCHANGED vars
  BY <1>2, <1>16 DEF vars, accountVars
<1> QED
  BY <1>6, <1>7, <1>8, <1>9, <1>10, <1>11,
     <1>12, <1>13, <1>14, <1>15, <1>16, StepCases
-----------------------------------------------------------------------------
(* Likes.  Deleting comments leaves the ones not written yet alone.         *)
LEMMA DeletedRows ==
  ASSUME TypeOK, NEW D \in SUBSET Comments, DeleteComments(D), \A d \in D : Live(d)
  PROVE  \A c \in Comments :
           /\ comment'[c].target = comment[c].target
           /\ comment'[c].author = comment[c].author
           /\ comment'[c].parent = comment[c].parent
           /\ Live(c)' <=> Live(c) /\ c \notin D
           /\ comment'[c].state = "none" <=> comment[c].state = "none"
<1>1. \A c \in Comments :
        /\ comment'[c].target = comment[c].target
        /\ comment'[c].author = comment[c].author
        /\ comment'[c].parent = comment[c].parent
        /\ comment'[c].state = IF c \in D THEN "deleted" ELSE comment[c].state
  BY DEF DeleteComments, TypeOK, CommentRow
<1> QED
  BY <1>1 DEF Live

(* Only a comment that is written is liked or read.                         *)
LEMMA FreshStep == TypeOK /\ TreeInv /\ FreshInv /\ [Next]_vars => FreshInv'
<1> SUFFICES ASSUME TypeOK, TreeInv, FreshInv, [Next]_vars PROVE FreshInv'
  OBVIOUS
<1>1. ASSUME UNCHANGED <<likes, likeCount, comment, deletion>>
      PROVE  FreshInv'
  BY <1>1 DEF FreshInv
<1>2. ASSUME NEW u \in Users, NEW x \in Existing, AddLike(u, x) \/ DropLike(u, x)
      PROVE  FreshInv'
  <2>1. x \in Likeable /\ \A c \in Comments : comment[c].state = "none" => c # x
    BY EngagementAssumption DEF Existing, Live, TypeOK, Likeable
  <2>2. \A y \in Likeable \ {x} : likes'[y] = likes[y] /\ likeCount'[y] = likeCount[y]
    BY <1>2, <2>1 DEF AddLike, DropLike, TypeOK
  <2>3. UNCHANGED <<comment, deletion>>
    BY <1>2 DEF AddLike, DropLike, commentVars, accountVars
  <2> QED
    BY <2>1, <2>2, <2>3 DEF FreshInv, Likeable
<1>3. ASSUME NEW u \in Users, NEW c \in Comments, NEW t \in Targets,
             NEW parent \in Comments \cup {None}, Create(u, c, t, parent)
      PROVE  FreshInv'
  BY <1>3 DEF Create, FreshInv, TypeOK, CommentRow, likeVars, accountVars
<1>4. ASSUME NEW c \in Comments, FinishRemove(c)
      PROVE  FreshInv'
  <2>1. \A d \in Comments : comment'[d].state = "none" <=> comment[d].state = "none"
    BY <1>4, CascadeFacts, CascadeOfOne, DeletedRows DEF FinishRemove
  <2>2. \A x \in Comments : likes[x] = {} => likes'[x] = {}
    BY <1>4 DEF FinishRemove, Likeable
  <2> QED
    BY <1>4, <2>1, <2>2 DEF FinishRemove, FreshInv, accountVars
<1>5. ASSUME NEW t \in Targets, DeletePost(t)
      PROVE  FreshInv'
  BY <1>5, EngagementAssumption DEF DeletePost, FreshInv, TypeOK, Likeable, commentVars
<1>6. ASSUME NEW u \in Users, BeginDeleteUser(u)
      PROVE  FreshInv'
  <2>1. \A c \in Comments : comment[c].state = "none" =>
          c \notin deletion'[u].likes \cup deletion'[u].comments
    BY <1>6 DEF BeginDeleteUser, FreshInv, TypeOK, Live
  <2>2. \A v \in Users \ {u} : deletion'[v] = deletion[v]
    BY <1>6 DEF BeginDeleteUser, TypeOK
  <2> QED
    BY <1>6, <2>1, <2>2 DEF BeginDeleteUser, FreshInv, likeVars, commentVars
<1>7. ASSUME NEW u \in Users, DeleteUserById(u)
      PROVE  FreshInv'
  <2>1. \A d \in Comments : comment'[d].state = "none" <=> comment[d].state = "none"
    BY <1>7, CascadeOfWritten, DeletedRows DEF DeleteUserById
  <2>2. \A x \in Comments : likes[x] = {} => likes'[x] = {}
    BY <1>7 DEF DeleteUserById, Likeable
  <2>3. \A x \in Comments : x \notin deletion[u].likes => likeCount'[x] = likeCount[x]
    BY <1>7 DEF DeleteUserById, Lowered, TypeOK, Likeable
  <2>4. \A v \in Users : deletion'[v] = IF v = u THEN NoDeletion ELSE deletion[v]
    BY <1>7 DEF DeleteUserById, TypeOK
  <2> QED
    BY <2>1, <2>2, <2>3, <2>4 DEF FreshInv, NoDeletion
<1>8. ASSUME NEW u \in Users, AbortDeletion(u)
      PROVE  FreshInv'
  <2>1. \A v \in Users : deletion'[v] = IF v = u THEN NoDeletion ELSE deletion[v]
    BY <1>8 DEF AbortDeletion, TypeOK
  <2> QED
    BY <1>8, <2>1 DEF AbortDeletion, FreshInv, NoDeletion, likeVars, commentVars
<1>9. CASE \E u \in Users, x \in Existing : AddLike(u, x) \/ DropLike(u, x)
  BY <1>2, <1>9
<1>10. CASE \E u \in Users, t \in Targets : CreateShare(u, t)
  BY <1>1, <1>10
     DEF CreateShare,
         likeVars, commentVars, accountVars
<1>11. CASE \E u \in Users, t \in Targets, value \in Inputs : BeginRate(u, t, value)
  BY <1>1, <1>11
     DEF BeginRate,
         likeVars, commentVars, accountVars
<1>12. CASE \E u \in Users : FinishRate(u) \/ AbortRate(u)
  BY <1>1, <1>12
     DEF FinishRate, AbortRate,
         likeVars, commentVars, accountVars
<1>13. CASE \E u \in Users, c \in Comments, t \in Targets, parent \in Comments \cup {None} :
            Create(u, c, t, parent)
  BY <1>3, <1>13
<1>14. CASE \E u \in Users, c \in Comments : BeginRemove(u, c)
  BY <1>1, <1>14
     DEF BeginRemove,
         likeVars, commentVars, accountVars
<1>15. CASE \E c \in Comments : FinishRemove(c) \/ AbortRemove(c)
  <2>1. ASSUME NEW c \in Comments, AbortRemove(c)
        PROVE  UNCHANGED <<likes, likeCount, comment, targets, deletion, drifted>>
    BY <2>1 DEF AbortRemove, likeVars, accountVars
  <2> QED
    BY <1>1, <1>4, <1>15, <2>1
<1>16. CASE \E f \in Users : \E g \in Users \ {f} :
            \/ FollowUser(f, g)
            \/ UnfollowUser(f, g)
            \/ HandleUpdateFollowCounts(f, g)
            \/ HandleUpdateUnfollowCounts(f, g)
            \/ LoseEvent(f, g)
  BY <1>1, <1>16
     DEF FollowUser, UnfollowUser, HandleUpdateFollowCounts, HandleUpdateUnfollowCounts,
         LoseEvent,
         likeVars, commentVars, accountVars
<1>17. CASE \E t \in Targets : DeletePost(t)
  BY <1>5, <1>17
<1>18. CASE \E u \in Users : BeginDeleteUser(u) \/ DeleteUserById(u) \/ AbortDeletion(u)
  BY <1>6, <1>7, <1>8, <1>18
<1>19. CASE UNCHANGED vars
  BY <1>1, <1>19 DEF vars, likeVars, commentVars, accountVars
<1> QED
  BY <1>9, <1>10, <1>11, <1>12, <1>13, <1>14,
     <1>15, <1>16, <1>17, <1>18, <1>19, StepCases

(* The counts of likes follow the likes, and what deletions have read too.  *)
LEMMA LikeStep == TypeOK /\ TreeInv /\ FreshInv /\ LikeInv /\ [Next]_vars => LikeInv'
<1> SUFFICES ASSUME TypeOK, TreeInv, FreshInv, LikeInv, [Next]_vars PROVE LikeInv'
  OBVIOUS
<1> USE EngagementAssumption
<1>0. \A x \in Likeable : IsFiniteSet(likes[x]) /\ Cardinality(likes[x]) \in Nat
  BY Counting DEF TypeOK
<1>1. ASSUME UNCHANGED <<likes, likeCount, comment, targets, deletion>>,
             drifted \subseteq drifted'
      PROVE  LikeInv'
  BY <1>1 DEF LikeInv, Existing, Live
<1>2. ASSUME NEW u \in Users, NEW x \in Existing, AddLike(u, x) \/ DropLike(u, x)
      PROVE  LikeInv'
  <2>1. x \in Likeable /\ Existing' = Existing /\ deletion' = deletion
    BY <1>2 DEF Existing, Live, TypeOK, Likeable, AddLike, DropLike, commentVars, accountVars
  <2>2. \A y \in Likeable \ {x} : likes'[y] = likes[y] /\ likeCount'[y] = likeCount[y]
    BY <1>2, <2>1 DEF AddLike, DropLike, TypeOK
  <2>3. drifted \subseteq drifted' /\ (deletion[u].active => x \in drifted')
    BY <1>2 DEF AddLike, DropLike, Drift, Racing
  <2>4. x \notin drifted' =>
          /\ likeCount'[x] = Cardinality(likes'[x])
          /\ \A v \in Users \ {u} : v \in likes'[x] <=> v \in likes[x]
    <3>1. CASE AddLike(u, x)
      <4>1. Cardinality(likes[x] \cup {u}) = Cardinality(likes[x]) + 1
        BY <1>0, <2>1, <3>1, Counting DEF AddLike
      <4>2. likes'[x] = likes[x] \cup {u} /\ likeCount'[x] = likeCount[x] + 1
        BY <2>1, <3>1 DEF AddLike, TypeOK
      <4> QED
        BY <2>3, <4>1, <4>2 DEF LikeInv
    <3>2. CASE DropLike(u, x)
      <4>1. Cardinality(likes[x] \ {u}) = Cardinality(likes[x]) - 1
        BY <1>0, <2>1, <3>2, Counting DEF DropLike
      <4>2. likes'[x] = likes[x] \ {u} /\ likeCount'[x] = likeCount[x] - 1
        BY <2>1, <3>2 DEF DropLike, TypeOK
      <4> QED
        BY <2>3, <4>1, <4>2 DEF LikeInv
    <3> QED
      BY <1>2, <3>1, <3>2
  <2>5. Existing \subseteq Likeable
    BY DEF Existing, TypeOK, Likeable
  <2> SUFFICES ASSUME NEW y \in Existing \ drifted'
               PROVE  /\ likeCount'[y] = Cardinality(likes'[y])
                      /\ \A v \in Users : deletion[v].active =>
                           (y \in deletion[v].likes <=> v \in likes'[y])
    BY <2>1 DEF LikeInv
  <2>6. CASE y = x
    BY <2>3, <2>4, <2>6 DEF LikeInv
  <2>7. CASE y # x
    BY <2>2, <2>3, <2>5, <2>7 DEF LikeInv
  <2> QED
    BY <2>6, <2>7
<1>3. ASSUME NEW u \in Users, NEW c \in Comments, NEW t \in Targets,
             NEW parent \in Comments \cup {None}, Create(u, c, t, parent)
      PROVE  LikeInv'
  <2>1. /\ Existing' \subseteq Existing \cup {c}
        /\ comment[c].state = "none"
        /\ drifted \subseteq drifted'
        /\ UNCHANGED <<likes, likeCount, deletion>>
    BY <1>3 DEF Create, Existing, Live, TypeOK, Drift, likeVars, accountVars
  <2>2. likeCount[c] = Cardinality(likes[c])
    BY <2>1, FS_EmptySet DEF FreshInv
  <2>3. \A v \in Users : c \in deletion[v].likes <=> v \in likes[c]
    BY <2>1 DEF FreshInv
  <2> QED
    BY <2>1, <2>2, <2>3 DEF LikeInv
<1>4. ASSUME NEW c \in Comments, FinishRemove(c)
      PROVE  LikeInv'
  <2>1. Existing' = Existing \ Cascade({c})
    <3>1. Cascade({c}) \in SUBSET Comments /\ \A d \in Cascade({c}) : Live(d)
      BY <1>4, CascadeFacts, CascadeOfOne DEF FinishRemove
    <3>2. {d \in Comments : Live(d)'} = {d \in Comments : Live(d)} \ Cascade({c})
      BY <1>4, <3>1, DeletedRows DEF FinishRemove
    <3>3. targets' = targets /\ targets \cap Cascade({c}) = {}
      BY <1>4, <3>1 DEF FinishRemove, accountVars, TypeOK
    <3> QED
      BY <3>2, <3>3 DEF Existing
  <2>2. \A x \in Existing' : likes'[x] = likes[x]
    BY <1>4, <2>1 DEF FinishRemove, Existing, Likeable, TypeOK
  <2>3. UNCHANGED <<likeCount, deletion>> /\ drifted \subseteq drifted'
    BY <1>4 DEF FinishRemove, accountVars
  <2> QED
    BY <2>1, <2>2, <2>3 DEF LikeInv
<1>5. ASSUME NEW t \in Targets, DeletePost(t)
      PROVE  LikeInv'
  <2>1. Existing' = Existing \ {t}
    BY <1>5 DEF DeletePost, Existing, Live, TypeOK, commentVars
  <2>2. \A x \in Existing' : likes'[x] = likes[x]
    BY <1>5, <2>1 DEF DeletePost, TypeOK
  <2> QED
    BY <1>5, <2>1, <2>2 DEF DeletePost, LikeInv
<1>6. ASSUME NEW u \in Users, BeginDeleteUser(u)
      PROVE  LikeInv'
  <2>1. Existing' = Existing /\ Existing \subseteq Likeable
    BY <1>6 DEF BeginDeleteUser, Existing, Live, commentVars, TypeOK, Likeable
  <2>2. \A x \in Likeable : x \in deletion'[u].likes <=> u \in likes[x]
    BY <1>6 DEF BeginDeleteUser, TypeOK
  <2>3. \A v \in Users \ {u} : deletion'[v] = deletion[v]
    BY <1>6 DEF BeginDeleteUser, TypeOK
  <2> QED
    BY <1>6, <2>1, <2>2, <2>3 DEF BeginDeleteUser, LikeInv, likeVars
<1>7. ASSUME NEW u \in Users, DeleteUserById(u)
      PROVE  LikeInv'
  <2>1. Existing' = (Existing \ OwnTargets(u)) \ Cascade(Written(u))
    <3>1. targets \cap Cascade(Written(u)) = {} /\ Comments \cap OwnTargets(u) = {}
      BY CascadeOfWritten DEF OwnTargets, TypeOK
    <3>2. {c \in Comments : Live(c)'} = {c \in Comments : Live(c)} \ Cascade(Written(u))
      BY <1>7, CascadeOfWritten, DeletedRows DEF DeleteUserById
    <3>3. targets' = targets \ OwnTargets(u)
      BY <1>7 DEF DeleteUserById
    <3> QED
      BY <3>1, <3>2, <3>3 DEF Existing
  <2>2. Existing' \subseteq Likeable
    BY <2>1 DEF Existing, Likeable, TypeOK
  <2>3. \A x \in Existing' : /\ likes'[x] = likes[x] \ {u}
                             /\ likeCount'[x] = IF x \in deletion[u].likes THEN likeCount[x] - 1
                                                ELSE likeCount[x]
    BY <1>7, <2>1, <2>2 DEF DeleteUserById, Lowered, TypeOK
  <2>4. /\ deletion[u].active /\ drifted \subseteq drifted'
        /\ \A v \in Users : deletion'[v] = IF v = u THEN NoDeletion ELSE deletion[v]
    BY <1>7 DEF DeleteUserById, TypeOK
  <2>5. \A x \in Likeable : /\ u \in likes[x] => Cardinality(likes[x] \ {u}) = Cardinality(likes[x]) - 1
                            /\ u \notin likes[x] => likes[x] \ {u} = likes[x]
    BY <1>0, Counting
  <2> SUFFICES ASSUME NEW x \in Existing' \ drifted'
               PROVE  /\ likeCount'[x] = Cardinality(likes'[x])
                      /\ \A v \in Users : deletion'[v].active =>
                           (x \in deletion'[v].likes <=> v \in likes'[x])
    BY DEF LikeInv
  <2>6. /\ likeCount[x] = Cardinality(likes[x])
        /\ x \in deletion[u].likes <=> u \in likes[x]
        /\ \A v \in Users : deletion[v].active => (x \in deletion[v].likes <=> v \in likes[x])
    BY <2>1, <2>4 DEF LikeInv
  <2>7. likeCount'[x] = Cardinality(likes'[x])
    BY <2>2, <2>3, <2>5, <2>6
  <2> QED
    BY <2>3, <2>4, <2>6, <2>7 DEF NoDeletion
<1>8. ASSUME NEW u \in Users, AbortDeletion(u)
      PROVE  LikeInv'
  <2>1. \A v \in Users : deletion'[v] = IF v = u THEN NoDeletion ELSE deletion[v]
    BY <1>8 DEF AbortDeletion, TypeOK
  <2> QED
    BY <1>8, <2>1 DEF AbortDeletion, LikeInv, Existing, Live, NoDeletion, likeVars, commentVars
<1>9. CASE \E u \in Users, x \in Existing : AddLike(u, x) \/ DropLike(u, x)
  BY <1>2, <1>9
<1>10. CASE \E u \in Users, t \in Targets : CreateShare(u, t)
  BY <1>1, <1>10
     DEF CreateShare,
         likeVars, commentVars, accountVars
<1>11. CASE \E u \in Users, t \in Targets, value \in Inputs : BeginRate(u, t, value)
  BY <1>1, <1>11
     DEF BeginRate,
         likeVars, commentVars, accountVars
<1>12. CASE \E u \in Users : FinishRate(u) \/ AbortRate(u)
  BY <1>1, <1>12
     DEF FinishRate, AbortRate,
         likeVars, commentVars, accountVars
<1>13. CASE \E u \in Users, c \in Comments, t \in Targets, parent \in Comments \cup {None} :
            Create(u, c, t, parent)
  BY <1>3, <1>13
<1>14. CASE \E u \in Users, c \in Comments : BeginRemove(u, c)
  BY <1>1, <1>14
     DEF BeginRemove,
         likeVars, commentVars, accountVars
<1>15. CASE \E c \in Comments : FinishRemove(c) \/ AbortRemove(c)
  <2>1. ASSUME NEW c \in Comments, AbortRemove(c)
        PROVE  UNCHANGED <<likes, likeCount, comment, targets, deletion, drifted>>
    BY <2>1 DEF AbortRemove, likeVars, accountVars
  <2> QED
    BY <1>1, <1>4, <1>15, <2>1
<1>16. CASE \E f \in Users : \E g \in Users \ {f} :
            \/ FollowUser(f, g)
            \/ UnfollowUser(f, g)
            \/ HandleUpdateFollowCounts(f, g)
            \/ HandleUpdateUnfollowCounts(f, g)
            \/ LoseEvent(f, g)
  <2>1. ASSUME NEW f \in Users, NEW g \in Users,
               \/ FollowUser(f, g)
               \/ UnfollowUser(f, g)
               \/ HandleUpdateFollowCounts(f, g)
               \/ HandleUpdateUnfollowCounts(f, g)
               \/ LoseEvent(f, g)
        PROVE  /\ UNCHANGED <<likes, likeCount, comment, targets, deletion>>
               /\ drifted \subseteq drifted'
    BY <2>1 DEF FollowUser, UnfollowUser, HandleUpdateFollowCounts, HandleUpdateUnfollowCounts,
                UpdateCounts, LoseEvent, likeVars, commentVars, accountVars
  <2> QED
    BY <1>1, <1>16, <2>1
<1>17. CASE \E t \in Targets : DeletePost(t)
  BY <1>5, <1>17
<1>18. CASE \E u \in Users : BeginDeleteUser(u) \/ DeleteUserById(u) \/ AbortDeletion(u)
  BY <1>6, <1>7, <1>8, <1>18
<1>19. CASE UNCHANGED vars
  BY <1>1, <1>19 DEF vars, likeVars, commentVars, accountVars
<1> QED
  BY <1>9, <1>10, <1>11, <1>12, <1>13, <1>14,
     <1>15, <1>16, <1>17, <1>18, <1>19, StepCases
-----------------------------------------------------------------------------
(* Comments.  What deleting the comments D leaves of a target's comments    *)
(* and of those an author has written.                                      *)
LEMMA RemainingComments ==
  ASSUME TypeOK, NEW D \in SUBSET Comments, DeleteComments(D), \A d \in D : Live(d)
  PROVE  /\ \A t \in Targets : CommentsOf(t)' = CommentsOf(t) \ D
         /\ \A v \in Users : Written(v)' = Written(v) \ D
<1>1. \A c \in Comments : /\ comment'[c].target = comment[c].target
                          /\ comment'[c].author = comment[c].author
                          /\ Live(c)' <=> Live(c) /\ c \notin D
  BY DeletedRows
<1> QED
  BY <1>1 DEF CommentsOf, Written

(* The comments of a target can be counted.                                 *)
LEMMA CountComments ==
  ASSUME NEW t \in Targets
  PROVE  /\ IsFiniteSet(CommentsOf(t))
         /\ Cardinality(CommentsOf(t)) \in Nat
<1>1. CommentsOf(t) \subseteq Comments
  BY DEF CommentsOf
<1> QED
  BY <1>1, EngagementAssumption, FS_Subset, FS_CardinalityType

(* A step that changes no comment and reads for no deletion.                *)
CommentFrame == /\ UNCHANGED <<comment, commentCount>>
                /\ drifted \subseteq drifted' /\ cascaded \subseteq cascaded'
                /\ targets' \subseteq targets
                /\ \A v \in Users : \/ deletion'[v] = deletion[v]
                                    \/ ~deletion'[v].active

(* The counts of comments follow the comments, up to what cascades delete.  *)
LEMMA CommentsStep ==
  TypeOK /\ TreeInv /\ LockInv /\ FreshInv /\ CommentInv /\ [Next]_vars => CommentInv'
<1> SUFFICES ASSUME TypeOK, TreeInv, LockInv, FreshInv, CommentInv, [Next]_vars
             PROVE  CommentInv'
  OBVIOUS
<1> USE EngagementAssumption
<1>1. ASSUME CommentFrame
      PROVE  CommentInv'
  <2>1. /\ \A t \in Targets : CommentsOf(t)' = CommentsOf(t)
        /\ \A v \in Users : Written(v)' = Written(v)
    BY <1>1 DEF CommentFrame, CommentsOf, Written, Live
  <2>2. targets \subseteq Targets
    BY DEF TypeOK
  <2> QED
    BY <1>1, <2>1, <2>2 DEF CommentFrame, CommentInv
<1>2. ASSUME NEW u \in Users, NEW c \in Comments, NEW t \in Targets,
             NEW parent \in Comments \cup {None}, Create(u, c, t, parent)
      PROVE  CommentInv'
  <2>1. /\ comment[c].state = "none"
        /\ comment' = [comment EXCEPT ![c] = [state |-> "live", author |-> u,
                                              target |-> t, parent |-> parent]]
        /\ commentCount' = [commentCount EXCEPT ![t] = @ + 1]
        /\ UNCHANGED <<targets, deletion, cascaded>>
        /\ drifted \subseteq drifted'
        /\ deletion[u].active => t \in drifted'
    BY <1>2 DEF Create, Drift, Racing, accountVars
  <2>2. \A d \in Comments \ {c} : comment'[d] = comment[d]
    BY <2>1 DEF TypeOK
  <2>3. Live(c)' /\ comment'[c].author = u /\ comment'[c].target = t
    BY <2>1 DEF TypeOK, Live
  <2>4. /\ CommentsOf(t)' = CommentsOf(t) \cup {c} /\ c \notin CommentsOf(t)
        /\ \A s \in Targets \ {t} : CommentsOf(s)' = CommentsOf(s)
    BY <2>1, <2>2, <2>3 DEF CommentsOf, Live
  <2>5. /\ \A v \in Users \ {u} : Written(v)' = Written(v)
        /\ Written(u)' = Written(u) \cup {c}
    BY <2>1, <2>2, <2>3 DEF Written, Live
  <2>6. Cardinality(CommentsOf(t)') = Cardinality(CommentsOf(t)) + 1
    BY <2>4, CountComments, Counting
  <2>7. \A s \in Targets : commentCount'[s] = IF s = t THEN commentCount[s] + 1 ELSE commentCount[s]
    BY <2>1 DEF TypeOK
  <2> SUFFICES ASSUME NEW s \in targets' \ drifted'
               PROVE  /\ commentCount'[s] >= Cardinality(CommentsOf(s)')
                      /\ s \notin cascaded' => commentCount'[s] = Cardinality(CommentsOf(s)')
                      /\ \A v \in Users : deletion'[v].active =>
                           {d \in deletion'[v].comments : comment'[d].target = s}
                             = {d \in Written(v)' : comment'[d].target = s}
    BY DEF CommentInv
  <2>8. s \in targets \ drifted /\ s \in Targets /\ commentCount[s] \in Int
        /\ Cardinality(CommentsOf(s)) \in Nat
    BY <2>1, CountComments DEF TypeOK
  <2>9. /\ commentCount[s] >= Cardinality(CommentsOf(s))
        /\ s \notin cascaded => commentCount[s] = Cardinality(CommentsOf(s))
        /\ \A v \in Users : deletion[v].active =>
             {d \in deletion[v].comments : comment[d].target = s}
               = {d \in Written(v) : comment[d].target = s}
    BY <2>8 DEF CommentInv
  <2>10. /\ commentCount'[s] >= Cardinality(CommentsOf(s)')
         /\ s \notin cascaded' => commentCount'[s] = Cardinality(CommentsOf(s)')
    <3>1. CASE s = t
      <4>1. Cardinality(CommentsOf(s)') = Cardinality(CommentsOf(s)) + 1
        BY <2>6, <3>1
      <4>2. commentCount'[s] = commentCount[s] + 1 /\ cascaded' = cascaded
        BY <2>1, <2>7, <2>8, <3>1
      <4> QED
        BY <2>8, <2>9, <4>1, <4>2
    <3>2. CASE s # t
      <4>1. CommentsOf(s)' = CommentsOf(s)
        BY <2>4, <2>8, <3>2
      <4>2. commentCount'[s] = commentCount[s] /\ cascaded' = cascaded
        BY <2>1, <2>7, <2>8, <3>2
      <4> QED
        BY <2>9, <4>1, <4>2
    <3> QED
      BY <3>1, <3>2
  <2>11. ASSUME NEW v \in Users, deletion'[v].active
         PROVE  {d \in deletion'[v].comments : comment'[d].target = s}
                  = {d \in Written(v)' : comment'[d].target = s}
    <3>1. c \notin deletion[v].comments /\ deletion[v].comments \subseteq Comments
      BY <2>1 DEF FreshInv, TypeOK, Deletion
    <3>2. Written(v) \subseteq Comments \ {c}
      BY <2>1 DEF Written, Live
    <3>3. {d \in Written(v)' : comment'[d].target = s} = {d \in Written(v) : comment'[d].target = s}
      BY <2>1, <2>3, <2>5, <2>11
    <3>4. /\ {d \in Written(v) : comment'[d].target = s} = {d \in Written(v) : comment[d].target = s}
          /\ {d \in deletion[v].comments : comment'[d].target = s}
               = {d \in deletion[v].comments : comment[d].target = s}
      BY <2>2, <3>1, <3>2
    <3> QED
      BY <2>1, <2>9, <2>11, <3>3, <3>4
  <2> QED
    BY <2>10, <2>11
<1>3. ASSUME NEW c \in Comments, FinishRemove(c)
      PROVE  CommentInv'
  <2> DEFINE D == Cascade({c})
             R == removing[c].replies
  <2>0. PICK t : t = comment[c].target
    OBVIOUS
  <2>1. /\ D \in SUBSET Comments /\ c \in D
        /\ \A d \in D : Live(d) /\ comment[d].target = t
        /\ \A d \in D : RepliesTo(d) \subseteq D
    BY <1>3, <2>0, CascadeFacts, CascadeOfOne DEF FinishRemove
  <2>2. /\ t \in targets /\ t \in Targets
        /\ DeleteComments(D)
        /\ commentCount' = [commentCount EXCEPT ![t] = @ - 1 - Cardinality(R)]
        /\ drifted' = drifted \cup RacedTargets(D)
        /\ cascaded' = cascaded \cup {x \in {t} : D # R \cup {c}}
        /\ UNCHANGED <<targets, deletion>>
    BY <1>3, <2>0 DEF FinishRemove, accountVars, TypeOK
  <2>3. R \subseteq D /\ c \notin R
    <3>1. R \subseteq Comments /\ \A r \in R : Live(r) /\ comment[r].parent = c
      BY DEF LockInv, TypeOK, Removal
    <3>2. R \subseteq RepliesTo(c)
      BY <3>1 DEF RepliesTo
    <3>3. c \notin R
      BY <3>1 DEF TreeInv, Live
    <3> QED
      BY <2>1, <3>2, <3>3
  <2>4. /\ \A s \in Targets : CommentsOf(s)' = CommentsOf(s) \ D
        /\ \A v \in Users : Written(v)' = Written(v) \ D
        /\ \A d \in Comments : comment'[d].target = comment[d].target
    BY <2>1, <2>2, RemainingComments, DeletedRows
  <2>5. D \subseteq CommentsOf(t)
    BY <2>1 DEF CommentsOf
  <2>6. \A s \in Targets \ {t} : CommentsOf(s)' = CommentsOf(s)
    BY <2>1, <2>4 DEF CommentsOf
  <2>7. /\ Cardinality(CommentsOf(t)') = Cardinality(CommentsOf(t)) - Cardinality(D)
        /\ IsFiniteSet(D) /\ Cardinality(D) \in Nat
    BY <2>2, <2>4, <2>5, CountComments, Counting
  <2>8. /\ Cardinality(R \cup {c}) = Cardinality(R) + 1 /\ Cardinality(R) \in Nat
        /\ Cardinality(R \cup {c}) <= Cardinality(D)
    <3>1. R \cup {c} \subseteq D
      BY <2>1, <2>3
    <3>2. Cardinality(R \cup {c}) <= Cardinality(D) /\ IsFiniteSet(R)
      BY <2>3, <2>7, <3>1, Counting
    <3>3. Cardinality(R \cup {c}) = Cardinality(R) + 1 /\ Cardinality(R) \in Nat
      BY <2>3, <3>2, Counting
    <3> QED
      BY <3>2, <3>3
  <2> SUFFICES ASSUME NEW s \in targets' \ drifted'
               PROVE  /\ commentCount'[s] >= Cardinality(CommentsOf(s)')
                      /\ s \notin cascaded' => commentCount'[s] = Cardinality(CommentsOf(s)')
                      /\ \A v \in Users : deletion'[v].active =>
                           {d \in deletion'[v].comments : comment'[d].target = s}
                             = {d \in Written(v)' : comment'[d].target = s}
    BY DEF CommentInv
  <2>9. /\ s \in targets \ drifted /\ s \in Targets /\ commentCount[s] \in Int
        /\ Cardinality(CommentsOf(s)) \in Nat
    BY <2>2, CountComments DEF TypeOK
  <2>10. /\ commentCount[s] >= Cardinality(CommentsOf(s))
         /\ s \notin cascaded => commentCount[s] = Cardinality(CommentsOf(s))
         /\ \A v \in Users : deletion[v].active =>
              {d \in deletion[v].comments : comment[d].target = s}
                = {d \in Written(v) : comment[d].target = s}
    BY <2>9 DEF CommentInv
  <2>11. /\ commentCount'[s] >= Cardinality(CommentsOf(s)')
         /\ s \notin cascaded' => commentCount'[s] = Cardinality(CommentsOf(s)')
    <3>1. CASE s = t
      <4>1. commentCount'[s] = commentCount[s] - 1 - Cardinality(R)
        BY <2>2, <3>1 DEF TypeOK
      <4>2. Cardinality(CommentsOf(s)') = Cardinality(CommentsOf(s)) - Cardinality(D)
        BY <2>7, <3>1
      <4>3. s \notin cascaded' => s \notin cascaded /\ Cardinality(D) = Cardinality(R) + 1
        BY <2>2, <2>8, <3>1
      <4> HIDE DEF D, R
      <4> QED
        BY <2>7, <2>8, <2>9, <2>10, <4>1, <4>2, <4>3
    <3>2. CASE s # t
      <4>1. CommentsOf(s)' = CommentsOf(s) /\ commentCount'[s] = commentCount[s]
        BY <2>2, <2>6, <2>9, <3>2 DEF TypeOK
      <4>2. s \notin cascaded' => s \notin cascaded
        BY <2>2
      <4> QED
        BY <2>10, <4>1, <4>2
    <3> QED
      BY <3>1, <3>2
  <2>12. ASSUME NEW v \in Users, deletion'[v].active
         PROVE  {d \in deletion'[v].comments : comment'[d].target = s}
                  = {d \in Written(v)' : comment'[d].target = s}
    <3>1. deletion[v].active /\ deletion[v].comments \subseteq Comments
      BY <2>2, <2>12 DEF TypeOK, Deletion
    <3>2. \A d \in D : comment[d].author = v => comment[d].target # s
      BY <2>2, <3>1 DEF RacedTargets, Racing
    <3>3. {d \in Written(v)' : comment'[d].target = s} = {d \in Written(v) : comment[d].target = s}
      BY <2>4, <3>2 DEF Written
    <3> QED
      BY <2>2, <2>4, <2>10, <3>1, <3>3
  <2> QED
    BY <2>11, <2>12
<1>4. ASSUME NEW u \in Users, BeginDeleteUser(u)
      PROVE  CommentInv'
  <2>1. /\ UNCHANGED <<comment, commentCount, targets, drifted, cascaded>>
        /\ deletion'[u].comments = Written(u)
        /\ \A v \in Users \ {u} : deletion'[v] = deletion[v]
    BY <1>4 DEF BeginDeleteUser, Written, TypeOK, commentVars
  <2>2. /\ \A t \in Targets : CommentsOf(t)' = CommentsOf(t)
        /\ \A v \in Users : Written(v)' = Written(v)
    BY <2>1 DEF CommentsOf, Written, Live
  <2>3. targets \subseteq Targets
    BY DEF TypeOK
  <2> QED
    BY <2>1, <2>2, <2>3 DEF CommentInv
<1>5. ASSUME NEW u \in Users, DeleteUserById(u)
      PROVE  CommentInv'
  <2> DEFINE D == Cascade(Written(u))
             Read(s) == {c \in deletion[u].comments : comment[c].target = s}
  <2>1. /\ D \in SUBSET Comments /\ Written(u) \subseteq D
        /\ \A d \in D : Live(d)
    BY CascadeOfWritten
  <2>2. /\ deletion[u].active
        /\ DeleteComments(D)
        /\ targets' \subseteq targets
        /\ \A v \in Users : deletion'[v] = IF v = u THEN NoDeletion ELSE deletion[v]
        /\ commentCount' = [s \in Targets |-> commentCount[s] - Cardinality(Read(s))]
        /\ drifted' = drifted \cup RacedTargets({d \in D : comment[d].author # u})
        /\ cascaded \subseteq cascaded'
        /\ {comment[d].target : d \in D \ Written(u)} \subseteq cascaded'
    BY <1>5 DEF DeleteUserById, TypeOK
  <2>3. /\ \A s \in Targets : CommentsOf(s)' = CommentsOf(s) \ D
        /\ \A v \in Users : Written(v)' = Written(v) \ D
        /\ \A d \in Comments : comment'[d].target = comment[d].target
    BY <2>1, <2>2, RemainingComments, DeletedRows
  <2> SUFFICES ASSUME NEW s \in targets' \ drifted'
               PROVE  /\ commentCount'[s] >= Cardinality(CommentsOf(s)')
                      /\ s \notin cascaded' => commentCount'[s] = Cardinality(CommentsOf(s)')
                      /\ \A v \in Users : deletion'[v].active =>
                           {d \in deletion'[v].comments : comment'[d].target = s}
                             = {d \in Written(v)' : comment'[d].target = s}
    BY DEF CommentInv
  <2>4. /\ s \in targets \ drifted /\ s \in Targets /\ commentCount[s] \in Int
        /\ Cardinality(CommentsOf(s)) \in Nat /\ IsFiniteSet(CommentsOf(s))
    BY <2>2, CountComments DEF TypeOK
  <2>5. /\ commentCount[s] >= Cardinality(CommentsOf(s))
        /\ s \notin cascaded => commentCount[s] = Cardinality(CommentsOf(s))
        /\ \A v \in Users : deletion[v].active =>
             {d \in deletion[v].comments : comment[d].target = s}
               = {d \in Written(v) : comment[d].target = s}
    BY <2>4 DEF CommentInv
  <2> DEFINE Lost == CommentsOf(s) \cap D
  <2>6. Read(s) \subseteq Lost
    BY <2>1, <2>2, <2>5 DEF Written, CommentsOf
  <2>7. s \notin cascaded' => Read(s) = Lost
    BY <2>1, <2>2, <2>5, <2>6 DEF CommentsOf
  <2>8. /\ IsFiniteSet(Lost) /\ Cardinality(Lost) \in Nat
        /\ Cardinality(CommentsOf(s)') = Cardinality(CommentsOf(s)) - Cardinality(Lost)
    <3>1. CommentsOf(s)' = CommentsOf(s) \ Lost /\ Lost \subseteq CommentsOf(s)
      BY <2>3, <2>4
    <3> QED
      BY <2>4, <3>1, Counting
  <2>9. Cardinality(Read(s)) \in Nat /\ Cardinality(Read(s)) <= Cardinality(Lost)
    BY <2>6, <2>8, Counting
  <2>10. commentCount'[s] = commentCount[s] - Cardinality(Read(s))
    BY <2>2, <2>4
  <2>11. /\ commentCount'[s] >= Cardinality(CommentsOf(s)')
         /\ s \notin cascaded' => commentCount'[s] = Cardinality(CommentsOf(s)')
    <3>1. s \notin cascaded' => s \notin cascaded /\ Cardinality(Read(s)) = Cardinality(Lost)
      BY <2>2, <2>7
    <3> HIDE DEF D, Read, Lost
    <3> QED
      BY <2>4, <2>5, <2>8, <2>9, <2>10, <3>1
  <2>12. ASSUME NEW v \in Users, deletion'[v].active
         PROVE  {d \in deletion'[v].comments : comment'[d].target = s}
                  = {d \in Written(v)' : comment'[d].target = s}
    <3>1. /\ v # u /\ deletion'[v] = deletion[v]
          /\ deletion[v].active /\ deletion[v].comments \subseteq Comments
      BY <2>2, <2>12 DEF TypeOK, Deletion, NoDeletion
    <3>2. \A d \in D : comment[d].author = v => comment[d].target # s
      BY <2>2, <3>1 DEF RacedTargets, Racing
    <3>3. {d \in Written(v)' : comment'[d].target = s} = {d \in Written(v) : comment[d].target = s}
      BY <2>3, <3>2 DEF Written
    <3> QED
      BY <2>3, <2>5, <3>1, <3>3
  <2> QED
    BY <2>11, <2>12
<1>6. ASSUME NEW u \in Users, AbortDeletion(u)
      PROVE  CommentFrame
  BY <1>6 DEF AbortDeletion, CommentFrame, TypeOK, NoDeletion, commentVars
<1>7. ASSUME NEW u \in Users, NEW x \in Existing, AddLike(u, x) \/ DropLike(u, x)
      PROVE  CommentFrame
  BY <1>7 DEF AddLike, DropLike, Drift, CommentFrame, commentVars, accountVars
<1>8. ASSUME NEW f \in Users, NEW g \in Users,
             \/ FollowUser(f, g)
             \/ UnfollowUser(f, g)
             \/ HandleUpdateFollowCounts(f, g)
             \/ HandleUpdateUnfollowCounts(f, g)
             \/ LoseEvent(f, g)
      PROVE  CommentFrame
  BY <1>8 DEF FollowUser, UnfollowUser, HandleUpdateFollowCounts, HandleUpdateUnfollowCounts,
              UpdateCounts, LoseEvent, CommentFrame, commentVars, accountVars
<1>9. ASSUME NEW c \in Comments, AbortRemove(c)
      PROVE  CommentFrame
  BY <1>9 DEF AbortRemove, CommentFrame, accountVars
<1>10. CASE \E u \in Users, x \in Existing : AddLike(u, x) \/ DropLike(u, x)
  BY <1>1, <1>7, <1>10
<1>11. CASE \E u \in Users, t \in Targets : CreateShare(u, t)
  BY <1>1, <1>11 DEF CreateShare, CommentFrame, commentVars, accountVars
<1>12. CASE \E u \in Users, t \in Targets, value \in Inputs : BeginRate(u, t, value)
  BY <1>1, <1>12 DEF BeginRate, CommentFrame, commentVars, accountVars
<1>13. CASE \E u \in Users : FinishRate(u) \/ AbortRate(u)
  BY <1>1, <1>13 DEF FinishRate, AbortRate, CommentFrame, commentVars, accountVars
<1>14. CASE \E u \in Users, c \in Comments, t \in Targets, parent \in Comments \cup {None} :
            Create(u, c, t, parent)
  BY <1>2, <1>14
<1>15. CASE \E u \in Users, c \in Comments : BeginRemove(u, c)
  BY <1>1, <1>15 DEF BeginRemove, CommentFrame, accountVars
<1>16. CASE \E c \in Comments : FinishRemove(c) \/ AbortRemove(c)
  BY <1>1, <1>3, <1>9, <1>16
<1>17. CASE \E f \in Users : \E g \in Users \ {f} :
            \/ FollowUser(f, g)
            \/ UnfollowUser(f, g)
            \/ HandleUpdateFollowCounts(f, g)
            \/ HandleUpdateUnfollowCounts(f, g)
            \/ LoseEvent(f, g)
  BY <1>1, <1>8, <1>17
<1>18. CASE \E t \in Targets : DeletePost(t)
  BY <1>1, <1>18 DEF DeletePost, CommentFrame, commentVars
<1>19. CASE \E u \in Users : BeginDeleteUser(u) \/ DeleteUserById(u) \/ AbortDeletion(u)
  BY <1>1, <1>4, <1>5, <1>6, <1>19
<1>20. CASE UNCHANGED vars
  BY <1>1, <1>20 DEF vars, CommentFrame, commentVars, accountVars
<1> QED
  BY <1>10, <1>11, <1>12, <1>13, <1>14, <1>15,
     <1>16, <1>17, <1>18, <1>19, <1>20, StepCases

-----------------------------------------------------------------------------
(* Ratings.  A step that changes neither ratings nor calls of rateBlog.     *)
RatingFrame == /\ UNCHANGED <<ratings, averaged, rating, stale>>
               /\ targets' \subseteq targets

(* A call that is outdated differs in its flag only.                        *)
LEMMA OutdatedFields ==
  ASSUME TypeOK, NEW B, NEW v \in Users
  PROVE  /\ Outdated(rating, B)[v].target = rating[v].target
         /\ Outdated(rating, B)[v].value = rating[v].value
         /\ Outdated(rating, B)[v].aggregate = rating[v].aggregate
         /\ Outdated(rating, B)[v].clean => rating[v].clean /\ rating[v].target \notin B
<1> DEFINE flag == rating[v].clean /\ rating[v].target \notin B
<1>1. Outdated(rating, B)[v] = [rating[v] EXCEPT !.clean = flag]
  BY DEF Outdated
<1>2. rating[v] \in RatingCall
  BY DEF TypeOK
<1> HIDE DEF flag
<1>3. /\ [rating[v] EXCEPT !.clean = flag].target = rating[v].target
      /\ [rating[v] EXCEPT !.clean = flag].value = rating[v].value
      /\ [rating[v] EXCEPT !.clean = flag].aggregate = rating[v].aggregate
      /\ [rating[v] EXCEPT !.clean = flag].clean = flag
  BY <1>2 DEF RatingCall
<1> QED
  BY <1>1, <1>3 DEF flag

(* A clean call still has the ratings of its blog, and averages are those   *)
(* of the last clean call.                                                  *)
LEMMA RatingsStep == TypeOK /\ RatingInv /\ [Next]_vars => RatingInv'
<1> SUFFICES ASSUME TypeOK, RatingInv, [Next]_vars PROVE RatingInv'
  OBVIOUS
<1> USE EngagementAssumption
<1>0. targets \subseteq Targets
  BY DEF TypeOK
<1>1. ASSUME RatingFrame
      PROVE  RatingInv'
  BY <1>1 DEF RatingFrame, RatingInv, Mine
<1>2. ASSUME NEW u \in Users, NEW b \in Targets, NEW value \in Inputs, BeginRate(u, b, value)
      PROVE  RatingInv'
  <2>1. /\ UNCHANGED <<ratings, averaged, stale, targets>>
        /\ \A v \in Users \ {u} : rating'[v] = rating[v]
        /\ rating'[u].target = b /\ rating'[u].value = value
        /\ rating'[u].aggregate = [ratings[b] EXCEPT ![u] = value]
    BY <1>2 DEF BeginRate, TypeOK, accountVars
  <2> QED
    BY <2>1 DEF RatingInv, Mine
<1>3. ASSUME NEW u \in Users, FinishRate(u)
      PROVE  RatingInv'
  <2>0. PICK b : b = rating[u].target
    OBVIOUS
  <2>1. /\ rating' = [Outdated(rating, {b}) EXCEPT ![u] = NoRating]
        /\ UNCHANGED targets
        /\ b \in Targets
    BY <1>3, <2>0 DEF FinishRate, accountVars, TypeOK, RatingCall
  <2>2. /\ rating'[u] = NoRating
        /\ \A v \in Users \ {u} : /\ rating'[v].target = rating[v].target
                                  /\ rating'[v].value = rating[v].value
                                  /\ rating'[v].aggregate = rating[v].aggregate
                                  /\ rating'[v].clean => rating[v].clean /\ rating[v].target # b
    <3>1. Outdated(rating, {b}) \in [Users -> RatingCall]
      BY OutdatedTypes
    <3>2. /\ rating'[u] = NoRating
          /\ \A v \in Users \ {u} : rating'[v] = Outdated(rating, {b})[v]
      BY <2>1, <3>1
    <3> QED
      BY <3>2, OutdatedFields
  <2>3. NoRating.target \notin targets
    BY <1>0 DEF NoRating
  <2>4. /\ ratings' = [ratings EXCEPT ![b][u] = rating[u].value]
        /\ averaged' = [averaged EXCEPT ![b] = rating[u].aggregate]
        /\ stale' = IF rating[u].clean THEN stale \ {b} ELSE stale \cup {b}
    BY <1>3, <2>0 DEF FinishRate
  <2>5. /\ \A t \in Targets \ {b} : ratings'[t] = ratings[t] /\ averaged'[t] = averaged[t]
        /\ ratings'[b] = [ratings[b] EXCEPT ![u] = rating[u].value]
        /\ averaged'[b] = rating[u].aggregate
    BY <2>1, <2>4 DEF TypeOK
  <2>6. b \in targets /\ rating[u].clean => averaged'[b] = ratings'[b]
    BY <2>0, <2>5 DEF RatingInv, Mine
  <2>7. \A t \in targets' \ stale' : averaged'[t] = ratings'[t]
    BY <1>0, <2>1, <2>4, <2>5, <2>6 DEF RatingInv
  <2>8. ASSUME NEW v \in Users, rating'[v].clean, rating'[v].target \in targets'
        PROVE  rating'[v].aggregate = Mine(v)'
    <3>1. rating'[v].target \in targets
      BY <2>1, <2>8
    <3>2. v # u
      BY <2>2, <2>3, <3>1
    <3>3. rating[v].clean /\ rating[v].target \in targets \ {b}
      BY <2>2, <2>8, <3>1, <3>2
    <3>4. rating[v].aggregate = Mine(v)
      BY <3>3 DEF RatingInv
    <3>5. ratings'[rating[v].target] = ratings[rating[v].target]
      BY <1>0, <2>5, <3>3
    <3>6. Mine(v)' = Mine(v)
      BY <2>2, <3>2, <3>5 DEF Mine
    <3> QED
      BY <2>2, <3>2, <3>4, <3>6
  <2> QED
    BY <2>7, <2>8 DEF RatingInv
<1>4. ASSUME NEW t \in Targets, DeletePost(t)
      PROVE  RatingInv'
  <2>1. /\ UNCHANGED <<averaged, rating, stale>>
        /\ targets' = targets \ {t}
        /\ \A s \in Targets \ {t} : ratings'[s] = ratings[s]
    BY <1>4 DEF DeletePost, TypeOK
  <2> QED
    BY <1>0, <2>1 DEF RatingInv, Mine
<1>5. ASSUME NEW u \in Users, DeleteUserById(u)
      PROVE  RatingInv'
  <2>1. /\ UNCHANGED averaged
        /\ targets' = targets \ OwnTargets(u)
        /\ stale' = stale \cup {t \in Targets : ratings[t][u] # 0}
        /\ \A t \in targets' : ratings'[t] = [ratings[t] EXCEPT ![u] = 0]
        /\ rating' = Outdated(rating, {t \in Targets : ratings[t][u] # 0})
    BY <1>5 DEF DeleteUserById, TypeOK
  <2>2. \A t \in targets' : ratings[t][u] = 0 => ratings'[t] = ratings[t]
    <3>1. ASSUME NEW t \in targets', ratings[t][u] = 0
          PROVE  ratings'[t] = ratings[t]
      <4>1. ratings[t] \in [Users -> 0 .. 5]
        BY <1>0, <2>1 DEF TypeOK, RatingMap
      <4>2. [ratings[t] EXCEPT ![u] = 0] = ratings[t]
        BY <3>1, <4>1
      <4> QED
        BY <2>1, <4>2
    <3> QED
      BY <3>1
  <2>3. \A v \in Users : /\ rating'[v].target = rating[v].target
                         /\ rating'[v].value = rating[v].value
                         /\ rating'[v].aggregate = rating[v].aggregate
                         /\ rating'[v].clean =>
                              /\ rating[v].clean
                              /\ rating[v].target \notin {t \in Targets : ratings[t][u] # 0}
    BY <2>1, OutdatedFields
  <2>4. \A t \in targets' \ stale' : averaged'[t] = ratings'[t]
    BY <1>0, <2>1, <2>2 DEF RatingInv
  <2>5. ASSUME NEW v \in Users, rating'[v].clean, rating'[v].target \in targets'
        PROVE  rating'[v].aggregate = Mine(v)'
    <3>1. /\ rating[v].clean /\ rating[v].target \in targets'
          /\ rating[v].target \in targets /\ ratings[rating[v].target][u] = 0
      BY <1>0, <2>1, <2>3, <2>5
    <3>2. rating[v].aggregate = Mine(v)
      BY <3>1 DEF RatingInv
    <3>3. ratings'[rating[v].target] = ratings[rating[v].target]
      BY <2>2, <3>1
    <3>4. Mine(v)' = Mine(v)
      BY <2>3, <3>3 DEF Mine
    <3> QED
      BY <2>3, <3>2, <3>4
  <2> QED
    BY <2>4, <2>5 DEF RatingInv
<1>6. ASSUME NEW u \in Users, NEW x \in Existing, AddLike(u, x) \/ DropLike(u, x)
      PROVE  RatingFrame
  BY <1>6 DEF AddLike, DropLike, RatingFrame, ratingVars, accountVars
<1>7. ASSUME NEW f \in Users, NEW g \in Users,
             \/ FollowUser(f, g)
             \/ UnfollowUser(f, g)
             \/ HandleUpdateFollowCounts(f, g)
             \/ HandleUpdateUnfollowCounts(f, g)
             \/ LoseEvent(f, g)
      PROVE  RatingFrame
  BY <1>7 DEF FollowUser, UnfollowUser, HandleUpdateFollowCounts, HandleUpdateUnfollowCounts,
              LoseEvent, RatingFrame, ratingVars, accountVars
<1>8. ASSUME NEW c \in Comments, FinishRemove(c) \/ AbortRemove(c)
      PROVE  RatingFrame
  BY <1>8 DEF FinishRemove, AbortRemove, RatingFrame, ratingVars, accountVars
<1>9. ASSUME NEW u \in Users, BeginDeleteUser(u) \/ AbortDeletion(u)
      PROVE  RatingFrame
  BY <1>9 DEF BeginDeleteUser, AbortDeletion, RatingFrame, ratingVars
<1>21. ASSUME NEW u \in Users, AbortRate(u)
       PROVE  RatingInv'
  <2>1. /\ UNCHANGED <<ratings, averaged, stale, targets>>
        /\ \A v \in Users : rating'[v] = IF v = u THEN NoRating ELSE rating[v]
    BY <1>21 DEF AbortRate, accountVars, TypeOK
  <2>2. NoRating.target \notin targets
    BY <1>0 DEF NoRating
  <2> QED
    BY <2>1, <2>2 DEF RatingInv, Mine
<1>10. CASE \E u \in Users, x \in Existing : AddLike(u, x) \/ DropLike(u, x)
  BY <1>1, <1>6, <1>10
<1>11. CASE \E u \in Users, t \in Targets : CreateShare(u, t)
  BY <1>1, <1>11 DEF CreateShare, RatingFrame, ratingVars, accountVars
<1>12. CASE \E u \in Users, t \in Targets, value \in Inputs : BeginRate(u, t, value)
  BY <1>2, <1>12
<1>13. CASE \E u \in Users : FinishRate(u) \/ AbortRate(u)
  BY <1>3, <1>13, <1>21
<1>14. CASE \E u \in Users, c \in Comments, t \in Targets, parent \in Comments \cup {None} :
            Create(u, c, t, parent)
  BY <1>1, <1>14 DEF Create, RatingFrame, ratingVars, accountVars
<1>15. CASE \E u \in Users, c \in Comments : BeginRemove(u, c)
  BY <1>1, <1>15 DEF BeginRemove, RatingFrame, ratingVars, accountVars
<1>16. CASE \E c \in Comments : FinishRemove(c) \/ AbortRemove(c)
  BY <1>1, <1>8, <1>16
<1>17. CASE \E f \in Users : \E g \in Users \ {f} :
            \/ FollowUser(f, g)
            \/ UnfollowUser(f, g)
            \/ HandleUpdateFollowCounts(f, g)
            \/ HandleUpdateUnfollowCounts(f, g)
            \/ LoseEvent(f, g)
  BY <1>1, <1>7, <1>17
<1>18. CASE \E t \in Targets : DeletePost(t)
  BY <1>4, <1>18
<1>19. CASE \E u \in Users : BeginDeleteUser(u) \/ DeleteUserById(u) \/ AbortDeletion(u)
  BY <1>1, <1>5, <1>9, <1>19
<1>20. CASE UNCHANGED vars
  BY <1>1, <1>20 DEF vars, RatingFrame, ratingVars, accountVars
<1> QED
  BY <1>10, <1>11, <1>12, <1>13, <1>14, <1>15,
     <1>16, <1>17, <1>18, <1>19, <1>20, StepCases

-----------------------------------------------------------------------------
(* Follows.  The tickets of a pair are its pending events.                  *)
LEMMA PendingFinite ==
  ASSUME NEW P \in SUBSET Follow, NEW e \in [Follow -> 0 .. MaxPending]
  PROVE  IsFiniteSet(Pending(e, P)) /\ Cardinality(Pending(e, P)) \in Nat
<1>1. IsFiniteSet(Users \X Users)
  BY EngagementAssumption, FS_Product
<1>2. IsFiniteSet(P)
  <2>1. P \subseteq Users \X Users
    BY DEF Follow
  <2> QED
    BY <1>1, <2>1, FS_Subset
<1>3. IsFiniteSet(1 .. MaxPending)
  BY EngagementAssumption, FS_Interval
<1>4. IsFiniteSet(Tickets(P))
  BY <1>2, <1>3, FS_Product DEF Tickets
<1> QED
  BY <1>4, Counting DEF Pending

(* One event more, or one less.                                             *)
LEMMA PendingChange ==
  ASSUME NEW P \in SUBSET Follow, NEW e \in [Follow -> 0 .. MaxPending], NEW pair \in Follow
  PROVE  /\ pair \notin P => \A n : Pending([e EXCEPT ![pair] = n], P) = Pending(e, P)
         /\ pair \in P /\ e[pair] < MaxPending =>
              Cardinality(Pending([e EXCEPT ![pair] = @ + 1], P)) = Cardinality(Pending(e, P)) + 1
         /\ pair \in P /\ e[pair] > 0 =>
              Cardinality(Pending([e EXCEPT ![pair] = @ - 1], P)) = Cardinality(Pending(e, P)) - 1
<1>1. MaxPending \in Nat /\ e[pair] \in 0 .. MaxPending
  BY EngagementAssumption
<1>2. ASSUME pair \notin P, NEW n
      PROVE  Pending([e EXCEPT ![pair] = n], P) = Pending(e, P)
  BY <1>2 DEF Pending, Tickets
<1>3. ASSUME pair \in P, e[pair] < MaxPending
      PROVE  Cardinality(Pending([e EXCEPT ![pair] = @ + 1], P)) = Cardinality(Pending(e, P)) + 1
  <2> DEFINE last == <<pair, e[pair] + 1>>
             more == [e EXCEPT ![pair] = @ + 1]
  <2>1. last \in Tickets(P) /\ last \notin Pending(e, P)
    BY <1>1, <1>3 DEF Pending, Tickets
  <2>2. ASSUME NEW k \in Tickets(P)
        PROVE  k[2] <= more[k[1]] <=> k[2] <= e[k[1]] \/ k = last
    <3>1. k = <<k[1], k[2]>> /\ k[1] \in P /\ k[2] \in 1 .. MaxPending
      BY DEF Tickets
    <3>2. CASE k[1] = pair
      <4>1. more[k[1]] = e[pair] + 1
        BY <3>2
      <4>2. k[2] <= e[pair] + 1 <=> k[2] <= e[pair] \/ k[2] = e[pair] + 1
        BY <1>1, <3>1
      <4> QED
        BY <3>1, <3>2, <4>1, <4>2
    <3>3. CASE k[1] # pair
      BY <3>1, <3>3
    <3> QED
      BY <3>2, <3>3
  <2>3. Pending(more, P) = Pending(e, P) \cup {last}
    BY <2>1, <2>2 DEF Pending
  <2> QED
    BY <2>1, <2>3, PendingFinite, FS_AddElement
<1>4. ASSUME pair \in P, e[pair] > 0
      PROVE  Cardinality(Pending([e EXCEPT ![pair] = @ - 1], P)) = Cardinality(Pending(e, P)) - 1
  <2> DEFINE last == <<pair, e[pair]>>
             less == [e EXCEPT ![pair] = @ - 1]
  <2>1. last \in Tickets(P) /\ last \in Pending(e, P)
    BY <1>1, <1>4 DEF Pending, Tickets
  <2>2. ASSUME NEW k \in Tickets(P)
        PROVE  k[2] <= less[k[1]] <=> k[2] <= e[k[1]] /\ k # last
    <3>1. k = <<k[1], k[2]>> /\ k[1] \in P /\ k[2] \in 1 .. MaxPending
      BY DEF Tickets
    <3>2. CASE k[1] = pair
      <4>1. less[k[1]] = e[pair] - 1
        BY <3>2
      <4>2. k[2] <= e[pair] - 1 <=> k[2] <= e[pair] /\ k[2] # e[pair]
        BY <1>1, <3>1
      <4> QED
        BY <3>1, <3>2, <4>1, <4>2
    <3>3. CASE k[1] # pair
      BY <3>1, <3>3
    <3> QED
      BY <3>2, <3>3
  <2>3. Pending(less, P) = Pending(e, P) \ {last}
    BY <2>1, <2>2 DEF Pending
  <2>4. IsFiniteSet(Pending(e, P))
    BY PendingFinite
  <2> QED
    BY <2>1, <2>3, <2>4, Counting
<1> QED
  BY <1>2, <1>3, <1>4

(* ... changes what a count will be.                                        *)
LEMMA ExpectedCount ==
  ASSUME NEW P \in SUBSET Follow, NEW count \in Int, NEW n \in Int,
         NEW d \in [Follow -> 0 .. MaxPending], NEW e \in [Follow -> 0 .. MaxPending]
  PROVE  /\ Expected(count, d, e, P) \in Int
         /\ Expected(count + n, d, e, P) = Expected(count, d, e, P) + n
<1>1. Cardinality(Pending(d, P)) \in Nat /\ Cardinality(Pending(e, P)) \in Nat
  BY PendingFinite
<1> QED
  BY <1>1 DEF Expected

LEMMA PendingMore ==
  ASSUME NEW P \in SUBSET Follow, NEW pair \in Follow, NEW d \in [Follow -> 0 .. MaxPending],
         d[pair] < MaxPending
  PROVE  Cardinality(Pending(More(d, pair), P))
           = Cardinality(Pending(d, P)) + (IF pair \in P THEN 1 ELSE 0)
<1>1. CASE pair \in P
  BY <1>1, PendingChange DEF More
<1>2. CASE pair \notin P
  <2>1. Pending(More(d, pair), P) = Pending(d, P)
    BY <1>2 DEF Pending, Tickets, More
  <2>2. Cardinality(Pending(d, P)) \in Nat
    BY PendingFinite
  <2> QED
    BY <1>2, <2>1, <2>2
<1> QED
  BY <1>1, <1>2

LEMMA PendingLess ==
  ASSUME NEW P \in SUBSET Follow, NEW pair \in Follow, NEW d \in [Follow -> 0 .. MaxPending],
         d[pair] > 0
  PROVE  Cardinality(Pending(Less(d, pair), P))
           = Cardinality(Pending(d, P)) - (IF pair \in P THEN 1 ELSE 0)
<1>1. CASE pair \in P
  BY <1>1, PendingChange DEF Less
<1>2. CASE pair \notin P
  <2>1. Pending(Less(d, pair), P) = Pending(d, P)
    BY <1>2 DEF Pending, Tickets, Less
  <2>2. Cardinality(Pending(d, P)) \in Nat
    BY PendingFinite
  <2> QED
    BY <1>2, <2>1, <2>2
<1> QED
  BY <1>1, <1>2

LEMMA ExpectedFollow ==
  ASSUME NEW P \in SUBSET Follow, NEW pair \in Follow, NEW count \in Int,
         NEW d \in [Follow -> 0 .. MaxPending], NEW e \in [Follow -> 0 .. MaxPending],
         d[pair] < MaxPending
  PROVE  Expected(count, More(d, pair), e, P)
           = Expected(count, d, e, P) + (IF pair \in P THEN 1 ELSE 0)
<1>1. Cardinality(Pending(d, P)) \in Nat /\ Cardinality(Pending(e, P)) \in Nat
  BY PendingFinite
<1>2. Cardinality(Pending(More(d, pair), P))
        = Cardinality(Pending(d, P)) + (IF pair \in P THEN 1 ELSE 0)
  BY PendingMore
<1> QED
  BY <1>1, <1>2 DEF Expected

LEMMA ExpectedFollowTaken ==
  ASSUME NEW P \in SUBSET Follow, NEW pair \in Follow, NEW count \in Int,
         NEW d \in [Follow -> 0 .. MaxPending], NEW e \in [Follow -> 0 .. MaxPending],
         d[pair] > 0
  PROVE  Expected(count, Less(d, pair), e, P)
           = Expected(count, d, e, P) - (IF pair \in P THEN 1 ELSE 0)
<1>1. Cardinality(Pending(d, P)) \in Nat /\ Cardinality(Pending(e, P)) \in Nat
  BY PendingFinite
<1>2. Cardinality(Pending(Less(d, pair), P))
        = Cardinality(Pending(d, P)) - (IF pair \in P THEN 1 ELSE 0)
  BY PendingLess
<1> QED
  BY <1>1, <1>2 DEF Expected

LEMMA ExpectedUnfollow ==
  ASSUME NEW P \in SUBSET Follow, NEW pair \in Follow, NEW count \in Int,
         NEW d \in [Follow -> 0 .. MaxPending], NEW e \in [Follow -> 0 .. MaxPending],
         e[pair] < MaxPending
  PROVE  Expected(count, d, More(e, pair), P)
           = Expected(count, d, e, P) - (IF pair \in P THEN 1 ELSE 0)
<1>1. Cardinality(Pending(d, P)) \in Nat /\ Cardinality(Pending(e, P)) \in Nat
  BY PendingFinite
<1>2. Cardinality(Pending(More(e, pair), P))
        = Cardinality(Pending(e, P)) + (IF pair \in P THEN 1 ELSE 0)
  BY PendingMore
<1> QED
  BY <1>1, <1>2 DEF Expected

LEMMA ExpectedUnfollowTaken ==
  ASSUME NEW P \in SUBSET Follow, NEW pair \in Follow, NEW count \in Int,
         NEW d \in [Follow -> 0 .. MaxPending], NEW e \in [Follow -> 0 .. MaxPending],
         e[pair] > 0
  PROVE  Expected(count, d, Less(e, pair), P)
           = Expected(count, d, e, P) + (IF pair \in P THEN 1 ELSE 0)
<1>1. Cardinality(Pending(d, P)) \in Nat /\ Cardinality(Pending(e, P)) \in Nat
  BY PendingFinite
<1>2. Cardinality(Pending(Less(e, pair), P))
        = Cardinality(Pending(e, P)) - (IF pair \in P THEN 1 ELSE 0)
  BY PendingLess
<1> QED
  BY <1>1, <1>2 DEF Expected

(* The sets that are counted are finite, and the pair <<f, g>> is counted   *)
(* to g and from f.                                                         *)
LEMMA FollowSets ==
  ASSUME TypeOK
  PROVE  /\ \A u \in Users : /\ IsFiniteSet(Followers(u)) /\ Cardinality(Followers(u)) \in Nat
                             /\ IsFiniteSet(Followings(u)) /\ Cardinality(Followings(u)) \in Nat
                             /\ To(u) \in SUBSET Follow /\ From(u) \in SUBSET Follow
         /\ \A f \in Users : \A g \in Users \ {f} :
              /\ <<f, g>> \in Follow
              /\ \A u \in Users : /\ <<f, g>> \in To(u) <=> u = g
                                  /\ <<f, g>> \in From(u) <=> u = f
<1>1. ASSUME NEW u \in Users
      PROVE  /\ IsFiniteSet(Followers(u)) /\ Cardinality(Followers(u)) \in Nat
             /\ IsFiniteSet(Followings(u)) /\ Cardinality(Followings(u)) \in Nat
  BY Counting, EngagementAssumption DEF Followers, Followings
<1> QED
  BY <1>1 DEF To, From, Follow

(* A follow is counted by the event it emits ...                            *)
LEMMA FollowUserStep ==
  ASSUME TypeOK, FollowInv, NEW f \in Users, NEW g \in Users \ {f},
         FollowUser(f, g) \/ UnfollowUser(f, g)
  PROVE  FollowInv'
<1> DEFINE pair == <<f, g>>
<1>1. /\ UNCHANGED <<users, deletion, followersCount, followingsCount>>
      /\ drifted \subseteq drifted'
      /\ deletion[f].active => g \in drifted'
      /\ deletion[g].active => f \in drifted'
  BY DEF FollowUser, UnfollowUser, accountVars, Racing
<1>2. /\ followersCount \in [Users -> Int] /\ followingsCount \in [Users -> Int]
      /\ followed \in [Follow -> 0 .. MaxPending] /\ unfollowed \in [Follow -> 0 .. MaxPending]
      /\ users \subseteq Users
  BY DEF TypeOK
<1>3. \A x, y : <<x, y>> # pair => (<<x, y>> \in follows' <=> <<x, y>> \in follows)
  BY DEF FollowUser, UnfollowUser
<1> SUFFICES ASSUME NEW u \in users', u \notin drifted'
             PROVE  /\ Expected(followersCount[u], followed, unfollowed, To(u))'
                         = Cardinality(Followers(u))'
                    /\ Expected(followingsCount[u], followed, unfollowed, From(u))'
                         = Cardinality(Followings(u))'
                    /\ ReadRight(u)'
  BY DEF FollowInv
<1>4. u \in Users /\ followersCount[u] \in Int /\ followingsCount[u] \in Int
  BY <1>1, <1>2
<1>5. /\ Expected(followersCount[u], followed, unfollowed, To(u)) = Cardinality(Followers(u))
      /\ Expected(followingsCount[u], followed, unfollowed, From(u)) = Cardinality(Followings(u))
      /\ ReadRight(u)
  BY <1>1 DEF FollowInv
<1>6. ReadRight(u)'
  <2> SUFFICES ASSUME NEW v \in Users, deletion[v].active
               PROVE  /\ u \in deletion[v].followers <=> <<u, v>> \in follows'
                      /\ u \in deletion[v].followings <=> <<v, u>> \in follows'
    BY <1>1 DEF ReadRight
  <2>1. <<u, v>> # pair /\ <<v, u>> # pair
    BY <1>1
  <2> QED
    BY <1>3, <1>5, <2>1 DEF ReadRight
<1>7. /\ pair \in Follow /\ To(u) \in SUBSET Follow /\ From(u) \in SUBSET Follow
      /\ pair \in To(u) <=> u = g
      /\ pair \in From(u) <=> u = f
      /\ IsFiniteSet(Followers(u)) /\ Cardinality(Followers(u)) \in Nat
      /\ IsFiniteSet(Followings(u)) /\ Cardinality(Followings(u)) \in Nat
  BY <1>4, FollowSets
<1>8. /\ u # g => Followers(u)' = Followers(u)
      /\ u # f => Followings(u)' = Followings(u)
  BY <1>3 DEF Followers, Followings
<1>9. CASE FollowUser(f, g)
  <2>1. /\ followed' = More(followed, pair)
        /\ followed[pair] < MaxPending /\ unfollowed' = unfollowed
    BY <1>9 DEF FollowUser, More
  <2>2. /\ u = g => Cardinality(Followers(u)') = Cardinality(Followers(u)) + 1
        /\ u = f => Cardinality(Followings(u)') = Cardinality(Followings(u)) + 1
    <3>1. /\ u = g => Followers(u)' = Followers(u) \cup {f} /\ f \notin Followers(u)
          /\ u = f => Followings(u)' = Followings(u) \cup {g} /\ g \notin Followings(u)
      BY <1>9 DEF FollowUser, Followers, Followings
    <3> QED
      BY <1>7, <3>1, Counting
  <2>3. ASSUME NEW P \in SUBSET Follow, NEW count \in Int
        PROVE  Expected(count, followed', unfollowed, P)
                 = Expected(count, followed, unfollowed, P) + (IF pair \in P THEN 1 ELSE 0)
    BY <1>2, <1>7, <2>1, ExpectedFollow
  <2>4. /\ Expected(followersCount[u], followed', unfollowed, To(u)) =
             Expected(followersCount[u], followed, unfollowed, To(u)) + (IF u = g THEN 1 ELSE 0)
        /\ Expected(followingsCount[u], followed', unfollowed, From(u)) =
             Expected(followingsCount[u], followed, unfollowed, From(u)) + (IF u = f THEN 1 ELSE 0)
    BY <1>4, <1>7, <2>3
  <2> QED
    BY <1>1, <1>5, <1>6, <1>7, <1>8, <2>1, <2>2, <2>4
<1>10. CASE UnfollowUser(f, g)
  <2>1. /\ unfollowed' = More(unfollowed, pair)
        /\ unfollowed[pair] < MaxPending /\ followed' = followed
    BY <1>10 DEF UnfollowUser, More
  <2>2. /\ u = g => Cardinality(Followers(u)') = Cardinality(Followers(u)) - 1
        /\ u = f => Cardinality(Followings(u)') = Cardinality(Followings(u)) - 1
    <3>1. /\ u = g => Followers(u)' = Followers(u) \ {f} /\ f \in Followers(u)
          /\ u = f => Followings(u)' = Followings(u) \ {g} /\ g \in Followings(u)
      BY <1>10 DEF UnfollowUser, Followers, Followings
    <3> QED
      BY <1>7, <3>1, Counting
  <2>3. ASSUME NEW P \in SUBSET Follow, NEW count \in Int
        PROVE  Expected(count, followed, unfollowed', P)
                 = Expected(count, followed, unfollowed, P) - (IF pair \in P THEN 1 ELSE 0)
    BY <1>2, <1>7, <2>1, ExpectedUnfollow
  <2>4. /\ Expected(followersCount[u], followed, unfollowed', To(u)) =
             Expected(followersCount[u], followed, unfollowed, To(u)) - (IF u = g THEN 1 ELSE 0)
        /\ Expected(followingsCount[u], followed, unfollowed', From(u)) =
             Expected(followingsCount[u], followed, unfollowed, From(u)) - (IF u = f THEN 1 ELSE 0)
    BY <1>4, <1>7, <2>3
  <2> QED
    BY <1>1, <1>5, <1>6, <1>7, <1>8, <2>1, <2>2, <2>4
<1> QED
  BY <1>9, <1>10

(* ... which the counts take in, or which is lost of both users.            *)
LEMMA FollowEventStep ==
  ASSUME TypeOK, FollowInv, NEW f \in Users, NEW g \in Users \ {f},
         HandleUpdateFollowCounts(f, g) \/ HandleUpdateUnfollowCounts(f, g) \/ LoseEvent(f, g)
  PROVE  FollowInv'
<1> DEFINE pair == <<f, g>>
<1>1. /\ UNCHANGED <<users, deletion, follows>>
      /\ drifted \subseteq drifted'
  BY DEF HandleUpdateFollowCounts, HandleUpdateUnfollowCounts, LoseEvent, UpdateCounts,
         accountVars
<1>2. /\ followed \in [Follow -> 0 .. MaxPending] /\ unfollowed \in [Follow -> 0 .. MaxPending]
      /\ followersCount \in [Users -> Int] /\ followingsCount \in [Users -> Int]
      /\ users \subseteq Users
  BY DEF TypeOK
<1>3. PICK n \in {1, -1} : /\ UpdateCounts(f, g, n) \/ LoseEvent(f, g)
                           /\ \/ /\ n = 1
                                 /\ followed[pair] > 0
                                 /\ followed' = Less(followed, pair)
                                 /\ unfollowed' = unfollowed
                              \/ /\ n = -1
                                 /\ unfollowed[pair] > 0
                                 /\ unfollowed' = Less(unfollowed, pair)
                                 /\ followed' = followed
  BY DEF HandleUpdateFollowCounts, HandleUpdateUnfollowCounts, LoseEvent, Less
<1> SUFFICES ASSUME NEW u \in users', u \notin drifted'
             PROVE  /\ Expected(followersCount[u], followed, unfollowed, To(u))'
                         = Cardinality(Followers(u))'
                    /\ Expected(followingsCount[u], followed, unfollowed, From(u))'
                         = Cardinality(Followings(u))'
                    /\ ReadRight(u)'
  BY DEF FollowInv
<1>4. u \in Users /\ followersCount[u] \in Int /\ followingsCount[u] \in Int
  BY <1>1, <1>2
<1>5. /\ Expected(followersCount[u], followed, unfollowed, To(u)) = Cardinality(Followers(u))
      /\ Expected(followingsCount[u], followed, unfollowed, From(u)) = Cardinality(Followings(u))
      /\ ReadRight(u)
  BY <1>1 DEF FollowInv
<1>6. /\ Followers(u)' = Followers(u) /\ Followings(u)' = Followings(u)
      /\ ReadRight(u)'
  BY <1>1, <1>5 DEF Followers, Followings, ReadRight
<1>7. /\ pair \in Follow /\ To(u) \in SUBSET Follow /\ From(u) \in SUBSET Follow
      /\ pair \in To(u) <=> u = g
      /\ pair \in From(u) <=> u = f
  BY <1>4, FollowSets
<1>8. /\ followersCount'[u] = followersCount[u] + (IF u = g THEN n ELSE 0)
      /\ followingsCount'[u] = followingsCount[u] + (IF u = f THEN n ELSE 0)
  <2>1. CASE UNCHANGED <<followersCount, followingsCount>> /\ {f, g} \subseteq drifted'
    BY <1>4, <2>1
  <2>2. CASE /\ followingsCount' = [followingsCount EXCEPT ![f] = @ + n]
             /\ followersCount' = [followersCount EXCEPT ![g] = @ + n]
    BY <1>2, <1>4, <2>2
  <2> QED
    BY <1>3, <2>1, <2>2 DEF UpdateCounts, LoseEvent
<1>9. ASSUME NEW P \in SUBSET Follow, NEW count \in Int
      PROVE  Expected(count, followed', unfollowed', P)
               = Expected(count, followed, unfollowed, P) - (IF pair \in P THEN n ELSE 0)
  <2>1. Expected(count, followed, unfollowed, P) \in Int
    BY <1>2, ExpectedCount
  <2>2. CASE n = 1
    BY <1>2, <1>3, <1>7, <2>1, <2>2, ExpectedFollowTaken
  <2>3. CASE n = -1
    BY <1>2, <1>3, <1>7, <2>1, <2>3, ExpectedUnfollowTaken
  <2> QED
    BY <2>2, <2>3
<1>10. ASSUME NEW P \in SUBSET Follow, NEW count \in Int, NEW k \in Int
       PROVE  /\ Expected(count, followed, unfollowed, P) \in Int
              /\ Expected(count + k, followed, unfollowed, P)
                   = Expected(count, followed, unfollowed, P) + k
  BY <1>2, ExpectedCount
<1>11. Expected(followersCount[u], followed, unfollowed, To(u))'
         = Expected(followersCount[u], followed, unfollowed, To(u))
  <2> DEFINE k == IF u = g THEN n ELSE 0
  <2>1. followersCount'[u] = followersCount[u] + k /\ k \in Int
    BY <1>8
  <2>2. Expected(followersCount[u] + k, followed', unfollowed', To(u))
          = Expected(followersCount[u] + k, followed, unfollowed, To(u)) - k
    BY <1>4, <1>7, <1>9, <2>1
  <2> QED
    BY <1>4, <1>7, <1>10, <2>1, <2>2
<1>12. Expected(followingsCount[u], followed, unfollowed, From(u))'
         = Expected(followingsCount[u], followed, unfollowed, From(u))
  <2> DEFINE k == IF u = f THEN n ELSE 0
  <2>1. followingsCount'[u] = followingsCount[u] + k /\ k \in Int
    BY <1>8
  <2>2. Expected(followingsCount[u] + k, followed', unfollowed', From(u))
          = Expected(followingsCount[u] + k, followed, unfollowed, From(u)) - k
    BY <1>4, <1>7, <1>9, <2>1
  <2> QED
    BY <1>4, <1>7, <1>10, <2>1, <2>2
<1> QED
  BY <1>5, <1>6, <1>11, <1>12

(* A deletion that has read what is so lowers the counts by the rows that   *)
(* go with the user.                                                        *)
LEMMA FollowDeletionStep ==
  ASSUME TypeOK, FollowInv, NEW v \in Users, DeleteUserById(v)
  PROVE  FollowInv'
<1>1. /\ users' = users \ {v} /\ drifted \subseteq drifted'
      /\ UNCHANGED <<followed, unfollowed>>
      /\ follows' = {pair \in follows : v \notin {pair[1], pair[2]}}
      /\ deletion[v].active
      /\ deletion' = [deletion EXCEPT ![v] = NoDeletion]
      /\ followersCount' = Lowered(followersCount, deletion[v].followings)
      /\ followingsCount' = Lowered(followingsCount, deletion[v].followers)
  BY DEF DeleteUserById
<1>2. /\ followersCount \in [Users -> Int] /\ followingsCount \in [Users -> Int]
      /\ followed \in [Follow -> 0 .. MaxPending] /\ unfollowed \in [Follow -> 0 .. MaxPending]
      /\ users \subseteq Users /\ deletion \in [Users -> Deletion]
  BY DEF TypeOK
<1> SUFFICES ASSUME NEW u \in users', u \notin drifted'
             PROVE  /\ Expected(followersCount[u], followed, unfollowed, To(u))'
                         = Cardinality(Followers(u))'
                    /\ Expected(followingsCount[u], followed, unfollowed, From(u))'
                         = Cardinality(Followings(u))'
                    /\ ReadRight(u)'
  BY DEF FollowInv
<1>3. u # v /\ u \in Users /\ followersCount[u] \in Int /\ followingsCount[u] \in Int
  BY <1>1, <1>2
<1>4. /\ Expected(followersCount[u], followed, unfollowed, To(u)) = Cardinality(Followers(u))
      /\ Expected(followingsCount[u], followed, unfollowed, From(u)) = Cardinality(Followings(u))
      /\ ReadRight(u)
  BY <1>1 DEF FollowInv
<1>5. \A w \in Users : w # v => /\ <<u, w>> \in follows' <=> <<u, w>> \in follows
                                /\ <<w, u>> \in follows' <=> <<w, u>> \in follows
  BY <1>1, <1>3
<1>6. ReadRight(u)'
  <2> SUFFICES ASSUME NEW w \in Users, deletion'[w].active
               PROVE  /\ u \in deletion'[w].followers <=> <<u, w>> \in follows'
                      /\ u \in deletion'[w].followings <=> <<w, u>> \in follows'
    BY DEF ReadRight
  <2>1. w # v /\ deletion'[w] = deletion[w]
    BY <1>1, <1>2 DEF NoDeletion
  <2> QED
    BY <1>4, <1>5, <2>1 DEF ReadRight
<1>7. /\ Followers(u)' = Followers(u) \ {v}
      /\ Followings(u)' = Followings(u) \ {v}
  BY <1>1, <1>3 DEF Followers, Followings
<1>8. /\ v \in Followers(u) <=> u \in deletion[v].followings
      /\ v \in Followings(u) <=> u \in deletion[v].followers
  BY <1>1, <1>4 DEF ReadRight, Followers, Followings
<1>9. /\ followersCount'[u] = IF v \in Followers(u) THEN followersCount[u] - 1
                              ELSE followersCount[u]
      /\ followingsCount'[u] = IF v \in Followings(u) THEN followingsCount[u] - 1
                               ELSE followingsCount[u]
  BY <1>1, <1>2, <1>3, <1>8 DEF Lowered
<1>10. /\ IsFiniteSet(Followers(u)) /\ Cardinality(Followers(u)) \in Nat
       /\ IsFiniteSet(Followings(u)) /\ Cardinality(Followings(u)) \in Nat
       /\ To(u) \in SUBSET Follow /\ From(u) \in SUBSET Follow
  BY <1>3, FollowSets
<1>11. ASSUME NEW S, IsFiniteSet(S), Cardinality(S) \in Nat, NEW P \in SUBSET Follow,
              NEW count \in Int,
              Expected(count, followed, unfollowed, P) = Cardinality(S)
       PROVE  Expected(IF v \in S THEN count - 1 ELSE count, followed, unfollowed, P)
                = Cardinality(S \ {v})
  <2>1. CASE v \in S
    <3>1. Cardinality(S \ {v}) = Cardinality(S) - 1
      BY <1>11, <2>1, Counting
    <3>2. Expected(count + (-1), followed, unfollowed, P) = Cardinality(S) + (-1)
      BY <1>2, <1>11, ExpectedCount
    <3>3. count + (-1) = count - 1 /\ Cardinality(S) + (-1) = Cardinality(S) - 1
      BY <1>11
    <3> QED
      BY <2>1, <3>1, <3>2, <3>3
  <2>2. CASE v \notin S
    <3>1. S \ {v} = S
      BY <2>2
    <3> QED
      BY <1>11, <2>2, <3>1
  <2> QED
    BY <2>1, <2>2
<1>12. /\ Expected(followersCount'[u], followed, unfollowed, To(u)) = Cardinality(Followers(u)')
       /\ Expected(followingsCount'[u], followed, unfollowed, From(u))
            = Cardinality(Followings(u)')
  BY <1>3, <1>4, <1>7, <1>9, <1>10, <1>11
<1> QED
  BY <1>1, <1>6, <1>12

(* Every step keeps what the counts will be.                                *)
LEMMA FollowsStep == TypeOK /\ FollowInv /\ [Next]_vars => FollowInv'
<1> SUFFICES ASSUME TypeOK, FollowInv, [Next]_vars PROVE FollowInv'
  OBVIOUS
<1>1. ASSUME UNCHANGED <<followVars, users>>, drifted \subseteq drifted',
             \A u \in users \ drifted : ReadRight(u) => ReadRight(u)'
      PROVE  FollowInv'
  BY <1>1 DEF FollowInv, followVars, Followers, Followings
<1>2. ASSUME UNCHANGED <<followVars, users, deletion>>, drifted \subseteq drifted'
      PROVE  FollowInv'
  BY <1>1, <1>2 DEF followVars, ReadRight
<1>3. ASSUME NEW v \in Users, BeginDeleteUser(v) \/ AbortDeletion(v)
      PROVE  FollowInv'
  <2>1. /\ UNCHANGED <<followVars, users, drifted>>
        /\ \A w \in Users : w # v => deletion'[w] = deletion[w]
    BY <1>3 DEF BeginDeleteUser, AbortDeletion, TypeOK
  <2>2. ASSUME deletion'[v].active
        PROVE  /\ deletion'[v].followers = {f \in Users : <<f, v>> \in follows}
               /\ deletion'[v].followings = {g \in Users : <<v, g>> \in follows}
    BY <1>3, <2>2 DEF BeginDeleteUser, AbortDeletion, NoDeletion, TypeOK
  <2>3. ASSUME NEW u \in users \ drifted, ReadRight(u)
        PROVE  ReadRight(u)'
    <3> SUFFICES ASSUME NEW w \in Users, deletion'[w].active
                 PROVE  /\ u \in deletion'[w].followers <=> <<u, w>> \in follows
                        /\ u \in deletion'[w].followings <=> <<w, u>> \in follows
      BY <2>1 DEF ReadRight, followVars
    <3>1. CASE w = v
      BY <2>2, <3>1 DEF TypeOK
    <3>2. CASE w # v
      BY <2>1, <2>3, <3>2 DEF ReadRight
    <3> QED
      BY <3>1, <3>2
  <2> QED
    BY <1>1, <2>1, <2>3
<1>4. CASE \E u \in Users, x \in Existing : AddLike(u, x) \/ DropLike(u, x)
  BY <1>2, <1>4 DEF AddLike, DropLike, Drift, accountVars
<1>5. CASE \E u \in Users, t \in Targets : CreateShare(u, t)
  BY <1>2, <1>5 DEF CreateShare, accountVars
<1>6. CASE \E u \in Users, t \in Targets, value \in Inputs : BeginRate(u, t, value)
  BY <1>2, <1>6 DEF BeginRate, accountVars
<1>7. CASE \E u \in Users : FinishRate(u) \/ AbortRate(u)
  BY <1>2, <1>7 DEF FinishRate, AbortRate, accountVars
<1>8. CASE \E u \in Users, c \in Comments, t \in Targets, parent \in Comments \cup {None} :
            Create(u, c, t, parent)
  BY <1>2, <1>8 DEF Create, Drift, accountVars
<1>9. CASE \E u \in Users, c \in Comments : BeginRemove(u, c)
  BY <1>2, <1>9 DEF BeginRemove, accountVars
<1>10. CASE \E c \in Comments : FinishRemove(c) \/ AbortRemove(c)
  BY <1>2, <1>10 DEF FinishRemove, AbortRemove, accountVars
<1>11. CASE \E f \in Users : \E g \in Users \ {f} :
            \/ FollowUser(f, g)
            \/ UnfollowUser(f, g)
            \/ HandleUpdateFollowCounts(f, g)
            \/ HandleUpdateUnfollowCounts(f, g)
            \/ LoseEvent(f, g)
  BY <1>11, FollowUserStep, FollowEventStep
<1>12. CASE \E t \in Targets : DeletePost(t)
  BY <1>2, <1>12 DEF DeletePost
<1>13. CASE \E u \in Users : BeginDeleteUser(u) \/ DeleteUserById(u) \/ AbortDeletion(u)
  BY <1>3, <1>13, FollowDeletionStep
<1>14. CASE UNCHANGED vars
  BY <1>2, <1>14 DEF vars, accountVars
<1> QED
  BY <1>4, <1>5, <1>6, <1>7, <1>8, <1>9,
     <1>10, <1>11, <1>12, <1>13, <1>14, StepCases

(* No one follows anyone at first.                                          *)
LEMMA FollowsInit == Init /\ TypeOK => FollowInv
<1> SUFFICES ASSUME Init, TypeOK, NEW u \in Users
             PROVE  /\ Expected(0, followed, unfollowed, To(u)) = Cardinality(Followers(u))
                    /\ Expected(0, followed, unfollowed, From(u)) = Cardinality(Followings(u))
                    /\ ReadRight(u)
  BY DEF FollowInv, Init
<1>1. Followers(u) = {} /\ Followings(u) = {}
  BY DEF Init, Followers, Followings
<1>2. ReadRight(u)
  BY DEF Init, ReadRight, NoDeletion
<1>3. ASSUME NEW P \in SUBSET Follow
      PROVE  Pending(followed, P) = {} /\ Pending(unfollowed, P) = {}
  BY <1>3, EngagementAssumption DEF Init, Pending, Tickets
<1>4. To(u) \in SUBSET Follow /\ From(u) \in SUBSET Follow
  BY FollowSets
<1>5. /\ Pending(followed, To(u)) = {} /\ Pending(unfollowed, To(u)) = {}
      /\ Pending(followed, From(u)) = {} /\ Pending(unfollowed, From(u)) = {}
  BY <1>3, <1>4
<1> QED
  BY <1>1, <1>2, <1>5, FS_EmptySet DEF Expected

(* When nothing is pending about a user, its counts are what they will be.  *)
LEMMA FollowsSuffice == TypeOK /\ FollowInv => FollowsAreCounted
<1> SUFFICES ASSUME TypeOK, FollowInv, NEW u \in users \ drifted, Settled(u)
             PROVE  /\ followersCount[u] = Cardinality(Followers(u))
                    /\ followingsCount[u] = Cardinality(Followings(u))
  BY DEF FollowsAreCounted, Followers, Followings
<1>1. u \in Users /\ followersCount[u] \in Int /\ followingsCount[u] \in Int
  BY DEF TypeOK
<1>2. ASSUME NEW P \in {To(u), From(u)}
      PROVE  Pending(followed, P) = {} /\ Pending(unfollowed, P) = {}
  <2>1. \A pair \in P : /\ pair \in Follow
                        /\ followed[pair] \in 0 .. MaxPending
                        /\ unfollowed[pair] \in 0 .. MaxPending
                        /\ followed[pair] + unfollowed[pair] = 0
    BY DEF To, From, Settled, TypeOK
  <2>2. \A pair \in P : followed[pair] = 0 /\ unfollowed[pair] = 0
    BY <2>1, EngagementAssumption
  <2> QED
    BY <2>2, EngagementAssumption DEF Pending, Tickets
<1>3. /\ Expected(followersCount[u], followed, unfollowed, To(u)) = followersCount[u]
      /\ Expected(followingsCount[u], followed, unfollowed, From(u)) = followingsCount[u]
  <2>1. /\ Pending(followed, To(u)) = {} /\ Pending(unfollowed, To(u)) = {}
        /\ Pending(followed, From(u)) = {} /\ Pending(unfollowed, From(u)) = {}
    BY <1>2
  <2> QED
    BY <1>1, <2>1, FS_EmptySet DEF Expected
<1> QED
  BY <1>3 DEF FollowInv

-----------------------------------------------------------------------------
(* The invariant holds initially ...                                        *)
LEMMA InitInv == Init => EngagementInv
<1> SUFFICES ASSUME Init PROVE EngagementInv
  OBVIOUS
<1>1. TypeOK
  BY InitTypes
<1>2. \A c \in Comments : comment[c] = NoComment /\ ~Live(c)
  BY DEF Init, NoComment, Live
<1>3. \A u \in Users : /\ ~deletion[u].active
                       /\ deletion[u].likes = {} /\ deletion[u].comments = {}
  BY DEF Init, NoDeletion
<1>4. \A c \in Comments : removing[c].replies = {}
  BY DEF Init, NoRemoval
<1>5. TreeInv /\ LockInv
  BY <1>2, <1>4 DEF TreeInv, LockInv, NoComment
<1>6. FreshInv
  BY <1>3 DEF Init, FreshInv, Likeable
<1>7. LikeInv
  BY <1>1, <1>2, <1>3, FS_EmptySet DEF Init, LikeInv, Existing, Likeable, TypeOK
<1>8. ShareInv
  BY FS_EmptySet DEF Init, ShareInv
<1>9. CommentInv
  <2>1. \A t \in Targets : Cardinality(CommentsOf(t)) = 0 /\ commentCount[t] = 0
    BY <1>2, FS_EmptySet DEF Init, CommentsOf
  <2> QED
    BY <1>1, <1>3, <2>1 DEF CommentInv, TypeOK
<1>11. FollowInv
  BY <1>1, FollowsInit
<1>10. RatingInv
  <2>1. \A v \in Users : rating[v].target \notin targets
    BY EngagementAssumption DEF Init, NoRating
  <2> QED
    BY <2>1 DEF Init, RatingInv
<1> QED
  BY <1>1, <1>5, <1>6, <1>7, <1>8, <1>9, <1>10, <1>11 DEF EngagementInv

(* ... and every step keeps it.                                             *)
LEMMA InvStep == EngagementInv /\ [Next]_vars => EngagementInv'
BY TypeStep, TreeStep, LockStep, FreshStep, LikeStep, ShareStep, CommentsStep,
   RatingsStep, FollowsStep
   DEF EngagementInv

(* The inductive invariant of the engagement counters.                      *)
THEOREM EngagementInvariant == Spec => []EngagementInv
BY InitInv, InvStep, PTL DEF Spec

(* Every state is well typed.                                               *)
THEOREM EngagementTypeCorrect == Spec => []TypeOK
<1>1. EngagementInv => TypeOK
  BY DEF EngagementInv
<1> QED
  BY <1>1, EngagementInvariant, PTL

(* Like counts are exact (LikesService, CommentService.likeComment and      *)
(* unlikeComment), however many accounts are being deleted.                 *)
THEOREM LikesCounted == Spec => []LikesAreCounted
<1>1. EngagementInv => LikesAreCounted
  BY DEF EngagementInv, LikeInv, Existing, LikesAreCounted
<1> QED
  BY <1>1, EngagementInvariant, PTL

(* Comment and share counts are never too low, and exact but for what       *)
(* cascades delete (CommentService, SharesService, deleteUserById).         *)
THEOREM CommentsAndSharesCounted == Spec => []CommentsAndSharesAreCounted
<1>1. EngagementInv => CommentsAndSharesAreCounted
  BY DEF EngagementInv, CommentInv, ShareInv, CommentsAndSharesAreCounted
<1> QED
  BY <1>1, EngagementInvariant, PTL

(* The counts of a user nothing is pending about are those of its follow    *)
(* rows (UserFollowService, NotificationService.handleUpdateFollowCounts,   *)
(* deleteUserById), however events and deletions were ordered.              *)
THEOREM FollowsCounted == Spec => []FollowsAreCounted
<1>1. EngagementInv => FollowsAreCounted
  BY FollowsSuffice DEF EngagementInv
<1> QED
  BY <1>1, EngagementInvariant, PTL

(* An average that some rating was given for without overlap is the average *)
(* of the ratings there are (BlogManagementService.rateBlog).               *)
THEOREM RatingsAveraged == Spec => []RatingsAreAveraged
<1>1. EngagementInv => RatingsAreAveraged
  BY DEF EngagementInv, RatingInv, RatingsAreAveraged
<1> QED
  BY <1>1, EngagementInvariant, PTL
=============================================================================
