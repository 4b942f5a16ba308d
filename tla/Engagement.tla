----------------------------- MODULE Engagement -----------------------------
(***************************************************************************)
(* What users do with posts, blogs, comments and each other, and the       *)
(* counters kept beside the rows.                                          *)
(*                                                                         *)
(*   LikesService, SharesService, CommentService                           *)
(*   BlogManagementService.rateBlog                                        *)
(*   UserFollowService, and NotificationService, which updates the counts  *)
(*   of a follow later, on an event held in memory                         *)
(*   UserAdminService.deleteUserById                                       *)
(*                                                                         *)
(* PostgreSQL runs a transaction at READ COMMITTED: one whose later        *)
(* statements use what an earlier one read is two steps here, the others   *)
(* are one.  A check before a transaction that the transaction repeats (a  *)
(* foreign key, a unique index, a row that must exist) is not a step.      *)
(***************************************************************************)
EXTENDS Integers, FiniteSets

CONSTANTS
    Users,
    Targets,     \* ids of posts and blogs
    Blogs,       \* the targets that can be rated
    Comments,    \* ids of comments
    OwnerOf,     \* the author of every target
    Inputs,      \* bound: the ratings that callers send
    MaxPending,  \* bound: events of one kind about one follower and one followed
    None         \* no user, no target, no comment

ASSUME EngagementAssumption ==
    /\ IsFiniteSet(Users) /\ IsFiniteSet(Comments)
    /\ Blogs \subseteq Targets
    /\ Targets \cap Comments = {}
    /\ OwnerOf \in [Targets -> Users]
    /\ Inputs \subseteq Int
    /\ MaxPending \in Nat
    /\ None \notin Users \cup Targets \cup Comments

VARIABLES
    users, targets,      \* the rows that exist
    likes, likeCount,    \* of targets and of comments
    shares, shareCount,
    comment,             \* the comments
    commentCount,
    removing,            \* removals of a comment in progress: the replies deleted so far
    ratings, averaged,   \* Rating rows; those averageRating and ratingCount stand for
    rating,              \* rateBlog calls in progress
    follows, followersCount, followingsCount,
    followed, unfollowed,  \* update-counts events emitted and not handled yet
    deletion,            \* deleteUserById calls in progress: what they read
    drifted,             \* history: what was engaged with while its user was being
                         \* deleted, and the users an update-counts event was lost of
    cascaded,            \* history: targets that lost comments or shares to a cascade
    stale                \* history: blogs whose ratings changed after their average

likeVars    == <<likes, likeCount>>
shareVars   == <<shares, shareCount>>
commentVars == <<comment, commentCount, removing>>
ratingVars  == <<ratings, averaged, rating, stale>>
followVars  == <<follows, followersCount, followingsCount, followed, unfollowed>>
accountVars == <<users, targets, deletion>>
vars == <<likeVars, shareVars, commentVars, ratingVars, followVars, accountVars,
          drifted, cascaded>>

-----------------------------------------------------------------------------
Likeable == Targets \cup Comments

CommentRow == [state : {"none", "live", "deleted"}, author : Users \cup {None},
               target : Targets \cup {None}, parent : Comments \cup {None}]
NoComment  == [state |-> "none", author |-> None, target |-> None, parent |-> None]

Removal   == [active : BOOLEAN, replies : SUBSET Comments]
NoRemoval == [active |-> FALSE, replies |-> {}]

RatingMap  == [Users -> 0 .. 5]       \* 0: none
RatingCall == [target : Targets \cup {None}, value : 0 .. 5,
               aggregate : RatingMap, clean : BOOLEAN]
NoRatings  == [u \in Users |-> 0]
NoRating   == [target |-> None, value |-> 0, aggregate |-> NoRatings, clean |-> TRUE]

Deletion   == [active : BOOLEAN, followers : SUBSET Users, followings : SUBSET Users,
               comments : SUBSET Comments, likes : SUBSET Likeable]
NoDeletion == [active |-> FALSE, followers |-> {}, followings |-> {},
               comments |-> {}, likes |-> {}]

Follow == {pair \in Users \X Users : pair[1] # pair[2]}

(* Every variable has its type. *)
TypeOK ==
    /\ users \subseteq Users
    /\ targets \subseteq Targets
    /\ likes \in [Likeable -> SUBSET Users]
    /\ likeCount \in [Likeable -> Int]
    /\ shares \in [Targets -> SUBSET Users]
    /\ shareCount \in [Targets -> Int]
    /\ comment \in [Comments -> CommentRow]
    /\ commentCount \in [Targets -> Int]
    /\ removing \in [Comments -> Removal]
    /\ ratings \in [Targets -> RatingMap]
    /\ averaged \in [Targets -> RatingMap]
    /\ rating \in [Users -> RatingCall]
    /\ follows \subseteq Follow
    /\ followersCount \in [Users -> Int]
    /\ followingsCount \in [Users -> Int]
    /\ followed \in [Follow -> 0 .. MaxPending]
    /\ unfollowed \in [Follow -> 0 .. MaxPending]
    /\ deletion \in [Users -> Deletion]
    /\ drifted \subseteq Likeable \cup Users
    /\ cascaded \subseteq Targets
    /\ stale \subseteq Targets

(* Accounts and posts that nobody has engaged with yet. *)
Init ==
    /\ users = Users
    /\ targets = Targets
    /\ likes = [x \in Likeable |-> {}]
    /\ likeCount = [x \in Likeable |-> 0]
    /\ shares = [t \in Targets |-> {}]
    /\ shareCount = [t \in Targets |-> 0]
    /\ comment = [c \in Comments |-> NoComment]
    /\ commentCount = [t \in Targets |-> 0]
    /\ removing = [c \in Comments |-> NoRemoval]
    /\ ratings = [t \in Targets |-> NoRatings]
    /\ averaged = [t \in Targets |-> NoRatings]
    /\ rating = [u \in Users |-> NoRating]
    /\ follows = {}
    /\ followersCount = [u \in Users |-> 0]
    /\ followingsCount = [u \in Users |-> 0]
    /\ followed = [pair \in Follow |-> 0]
    /\ unfollowed = [pair \in Follow |-> 0]
    /\ deletion = [u \in Users |-> NoDeletion]
    /\ drifted = {}
    /\ cascaded = {}
    /\ stale = {}

-----------------------------------------------------------------------------
\* The rows u is read to have are not those u will have when it is deleted.
Racing(u) == deletion[u].active

Drift(u, things) == drifted' = IF Racing(u) THEN drifted \cup things ELSE drifted

Live(c) == comment[c].state = "live"

CommentsOf(t) == {c \in Comments : Live(c) /\ comment[c].target = t}
RepliesTo(c)  == {r \in Comments : Live(r) /\ comment[r].parent = c}

(* The comments that ON DELETE CASCADE deletes with those in C: the least   *)
(* set that holds C and the replies to its members.                         *)
Cascade(C) ==
    {c \in Comments : \A D \in SUBSET Comments :
       C \subseteq D /\ (\A d \in D : RepliesTo(d) \subseteq D) => c \in D}

\* Deleted by a removal that has not committed: others wait for it.
Locked(c) == \E d \in Comments : c \in removing[d].replies

-----------------------------------------------------------------------------
(* LikesService, and CommentService.likeComment and unlikeComment.          *)

AddLike(u, x) ==
    /\ u \in users
    /\ u \notin likes[x]
    /\ likes' = [likes EXCEPT ![x] = @ \cup {u}]
    /\ likeCount' = [likeCount EXCEPT ![x] = @ + 1]
    /\ Drift(u, {x})
    /\ UNCHANGED <<shareVars, commentVars, ratingVars, followVars, accountVars, cascaded>>

DropLike(u, x) ==
    /\ u \in likes[x]
    /\ likes' = [likes EXCEPT ![x] = @ \ {u}]
    /\ likeCount' = [likeCount EXCEPT ![x] = @ - 1]
    /\ Drift(u, {x})
    /\ UNCHANGED <<shareVars, commentVars, ratingVars, followVars, accountVars, cascaded>>

\* A duplicate hits the unique index and changes nothing.
CreateLike(u, t) == t \in targets /\ AddLike(u, t)

\* Mutation: the counter is decremented whether or not a row was deleted.
RemoveLikeUnchecked(u, t) ==
    /\ t \in targets
    /\ likes' = [likes EXCEPT ![t] = @ \ {u}]
    /\ likeCount' = [likeCount EXCEPT ![t] = @ - 1]
    /\ Drift(u, {t})
    /\ UNCHANGED <<shareVars, commentVars, ratingVars, followVars, accountVars, cascaded>>

\* deleteMany finds no row when there is no like; nothing is decremented then.
RemoveLike(u, t) == t \in targets /\ DropLike(u, t)

LikeComment(u, c)   == Live(c) /\ AddLike(u, c)
UnlikeComment(u, c) == Live(c) /\ DropLike(u, c)

(* SharesService.createShare: "You have already shared this", or the index. *)
CreateShare(u, t) ==
    /\ u \in users
    /\ t \in targets
    /\ u \notin shares[t]
    /\ shares' = [shares EXCEPT ![t] = @ \cup {u}]
    /\ shareCount' = [shareCount EXCEPT ![t] = @ + 1]
    /\ UNCHANGED <<likeVars, commentVars, ratingVars, followVars, accountVars,
                   drifted, cascaded>>

-----------------------------------------------------------------------------
(* CommentService.  A comment names its target without a foreign key, and   *)
(* its parent with one that cascades.                                       *)

Create(u, c, t, parent) ==
    /\ u \in users
    /\ t \in targets
    /\ comment[c].state = "none"
    /\ parent # None => /\ Live(parent)
                        /\ ~Locked(parent)
                        /\ comment[parent].target = t
    /\ comment' = [comment EXCEPT ![c] = [state |-> "live", author |-> u,
                                          target |-> t, parent |-> parent]]
    /\ commentCount' = [commentCount EXCEPT ![t] = @ + 1]
    /\ Drift(u, {t})
    /\ UNCHANGED <<removing, likeVars, shareVars, ratingVars, followVars, accountVars, cascaded>>

DeleteComments(D) ==
    comment' = [c \in Comments |-> IF c \in D THEN [comment[c] EXCEPT !.state = "deleted"]
                                   ELSE comment[c]]

\* Authors that are being deleted, and had been read to have one of D.
RacedTargets(D) == {comment[d].target : d \in {e \in D : Racing(comment[e].author)}}

(* remove: the transaction first deletes the direct replies ...             *)
BeginRemove(u, c) ==
    /\ Live(c)
    /\ comment[c].author = u
    /\ ~removing[c].active
    /\ \A r \in RepliesTo(c) \cup {c} : ~Locked(r)
    /\ removing' = [removing EXCEPT ![c] = [active |-> TRUE, replies |-> RepliesTo(c)]]
    /\ UNCHANGED <<comment, commentCount, likeVars, shareVars, ratingVars, followVars,
                   accountVars, drifted, cascaded>>

\* Mutation: the count is lowered although the comment is gone.
FinishRemoveTwice(c) ==
    LET t == comment[c].target
        D == Cascade({c})
    IN  /\ removing[c].active
        /\ removing' = [removing EXCEPT ![c] = NoRemoval]
        /\ t \in targets
        /\ \A d \in D \ removing[c].replies : ~Locked(d)
        /\ DeleteComments(D)
        /\ commentCount' = [commentCount EXCEPT ![t] = @ - 1 - Cardinality(removing[c].replies)]
        /\ drifted' = drifted \cup RacedTargets(D)
        /\ likes' = [x \in Likeable |-> IF x \in D THEN {} ELSE likes[x]]
        /\ cascaded' = cascaded \cup {x \in {t} : D # removing[c].replies \cup {c}}
        /\ UNCHANGED <<likeCount, shareVars, ratingVars, followVars, accountVars>>

(* ... then the comment, with what is below it, and lowers the count by one *)
(* and the replies it deleted.                                              *)
FinishRemove(c) ==
    LET t == comment[c].target
        D == Cascade({c})
    IN  /\ removing[c].active
        /\ removing' = [removing EXCEPT ![c] = NoRemoval]
        /\ Live(c)
        /\ t \in targets
        /\ \A d \in D \ removing[c].replies : ~Locked(d)
        /\ DeleteComments(D)
        /\ commentCount' = [commentCount EXCEPT ![t] = @ - 1 - Cardinality(removing[c].replies)]
        /\ drifted' = drifted \cup RacedTargets(D)
        /\ likes' = [x \in Likeable |-> IF x \in D THEN {} ELSE likes[x]]
        /\ cascaded' = cascaded \cup {x \in {t} : D # removing[c].replies \cup {c}}
        /\ UNCHANGED <<likeCount, shareVars, ratingVars, followVars, accountVars>>

\* Another transaction was first, the target is gone, or the two deadlocked.
AbortRemove(c) ==
    /\ removing[c].active
    /\ removing' = [removing EXCEPT ![c] = NoRemoval]
    /\ UNCHANGED <<comment, commentCount, likeVars, shareVars, ratingVars, followVars,
                   accountVars, drifted, cascaded>>

-----------------------------------------------------------------------------
(* BlogManagementService.rateBlog: the row is written and the ratings are   *)
(* aggregated; what is written to the blog at the end may be out of date.   *)

\* Mutation: the ratings are aggregated before the own one is written.
BeginRateEarly(u, b, value) ==
    /\ value \in 1 .. 5
    /\ u \in users
    /\ b \in targets
    /\ OwnerOf[b] # u
    /\ rating[u].target = None
    /\ rating' = [rating EXCEPT ![u] = [target |-> b, value |-> value, clean |-> TRUE,
                                        aggregate |-> ratings[b]]]
    /\ UNCHANGED <<ratings, averaged, stale, likeVars, shareVars, commentVars, followVars,
                   accountVars, drifted, cascaded>>

\* Mutation: any value is accepted.
BeginRateUnchecked(u, b, value) ==
    /\ u \in users
    /\ b \in targets
    /\ OwnerOf[b] # u
    /\ rating[u].target = None
    /\ rating' = [rating EXCEPT ![u] = [target |-> b, value |-> value, clean |-> TRUE,
                                        aggregate |-> [ratings[b] EXCEPT ![u] = value]]]
    /\ UNCHANGED <<ratings, averaged, stale, likeVars, shareVars, commentVars, followVars,
                   accountVars, drifted, cascaded>>

BeginRate(u, b, value) ==
    /\ value \in 1 .. 5
    /\ u \in users
    /\ b \in targets
    /\ OwnerOf[b] # u
    /\ rating[u].target = None
    /\ rating' = [rating EXCEPT ![u] = [target |-> b, value |-> value, clean |-> TRUE,
                                        aggregate |-> [ratings[b] EXCEPT ![u] = value]]]
    /\ UNCHANGED <<ratings, averaged, stale, likeVars, shareVars, commentVars, followVars,
                   accountVars, drifted, cascaded>>

\* The calls that are aggregating the ratings of one of the blogs B.
Outdated(calls, B) ==
    [u \in Users |-> [calls[u] EXCEPT !.clean = calls[u].clean /\ calls[u].target \notin B]]

FinishRate(u) ==
    LET b == rating[u].target IN
    /\ b # None
    /\ rating' = [Outdated(rating, {b}) EXCEPT ![u] = NoRating]
    /\ ratings' = [ratings EXCEPT ![b][u] = rating[u].value]
    /\ averaged' = [averaged EXCEPT ![b] = rating[u].aggregate]
    /\ stale' = IF rating[u].clean THEN stale \ {b} ELSE stale \cup {b}
    /\ UNCHANGED <<likeVars, shareVars, commentVars, followVars, accountVars, drifted, cascaded>>

\* The transaction times out.
AbortRate(u) ==
    /\ rating[u].target # None
    /\ rating' = [rating EXCEPT ![u] = NoRating]
    /\ UNCHANGED <<ratings, averaged, stale, likeVars, shareVars, commentVars, followVars,
                   accountVars, drifted, cascaded>>

\* The row a call has written holds its user and its blog in place.
RatedBy(U, T) == \E v \in Users : rating[v].target # None
                                  /\ (v \in U \/ rating[v].target \in T)

-----------------------------------------------------------------------------
(* UserFollowService.  The counts follow when the event is handled; events  *)
(* are held in memory.                                                      *)

\* Mutation: the row is written by an upsert, which a duplicate passes.
FollowUserAgain(f, g) ==
    /\ {f, g} \subseteq users
    /\ f # g
    /\ followed[<<f, g>>] < MaxPending
    /\ follows' = follows \cup {<<f, g>>}
    /\ followed' = [followed EXCEPT ![<<f, g>>] = @ + 1]
    /\ drifted' = drifted \cup {x \in {f, g} : \E y \in {f, g} \ {x} : Racing(y)}
    /\ UNCHANGED <<followersCount, followingsCount, unfollowed, likeVars, shareVars,
                   commentVars, ratingVars, accountVars, cascaded>>

\* A duplicate violates the primary key and emits nothing.
FollowUser(f, g) ==
    /\ {f, g} \subseteq users
    /\ f # g
    /\ <<f, g>> \notin follows
    /\ followed[<<f, g>>] < MaxPending
    /\ follows' = follows \cup {<<f, g>>}
    /\ followed' = [followed EXCEPT ![<<f, g>>] = @ + 1]
    /\ drifted' = drifted \cup {x \in {f, g} : \E y \in {f, g} \ {x} : Racing(y)}
    /\ UNCHANGED <<followersCount, followingsCount, unfollowed, likeVars, shareVars,
                   commentVars, ratingVars, accountVars, cascaded>>

UnfollowUser(f, g) ==
    /\ <<f, g>> \in follows
    /\ unfollowed[<<f, g>>] < MaxPending
    /\ follows' = follows \ {<<f, g>>}
    /\ unfollowed' = [unfollowed EXCEPT ![<<f, g>>] = @ + 1]
    /\ drifted' = drifted \cup {x \in {f, g} : \E y \in {f, g} \ {x} : Racing(y)}
    /\ UNCHANGED <<followersCount, followingsCount, followed, likeVars, shareVars,
                   commentVars, ratingVars, accountVars, cascaded>>

(* NotificationService.handleUpdateFollowCounts: both counts or none.       *)
UpdateCounts(f, g, n) ==
    \/ /\ {f, g} \subseteq users
       /\ followingsCount' = [followingsCount EXCEPT ![f] = @ + n]
       /\ followersCount' = [followersCount EXCEPT ![g] = @ + n]
       /\ UNCHANGED drifted
    \/ /\ ~{f, g} \subseteq users
       /\ drifted' = drifted \cup {f, g}
       /\ UNCHANGED <<followersCount, followingsCount>>

HandleUpdateFollowCounts(f, g) ==
    /\ followed[<<f, g>>] > 0
    /\ followed' = [followed EXCEPT ![<<f, g>>] = @ - 1]
    /\ UpdateCounts(f, g, 1)
    /\ UNCHANGED <<follows, unfollowed, likeVars, shareVars, commentVars, ratingVars,
                   accountVars, cascaded>>

HandleUpdateUnfollowCounts(f, g) ==
    /\ unfollowed[<<f, g>>] > 0
    /\ unfollowed' = [unfollowed EXCEPT ![<<f, g>>] = @ - 1]
    /\ UpdateCounts(f, g, -1)
    /\ UNCHANGED <<follows, followed, likeVars, shareVars, commentVars, ratingVars,
                   accountVars, cascaded>>

\* The update fails, which is logged, or the server restarts.
LoseEvent(f, g) ==
    /\ \/ /\ followed[<<f, g>>] > 0
          /\ followed' = [followed EXCEPT ![<<f, g>>] = @ - 1]
          /\ UNCHANGED unfollowed
       \/ /\ unfollowed[<<f, g>>] > 0
          /\ unfollowed' = [unfollowed EXCEPT ![<<f, g>>] = @ - 1]
          /\ UNCHANGED followed
    /\ drifted' = drifted \cup {f, g}
    /\ UNCHANGED <<follows, followersCount, followingsCount, likeVars, shareVars,
                   commentVars, ratingVars, accountVars, cascaded>>

-----------------------------------------------------------------------------
(* Posts and blogs are deleted, with all that names them by a foreign key:  *)
(* comments do not.                                                         *)

DeletePost(t) ==
    /\ t \in targets
    /\ ~RatedBy({}, {t})
    /\ targets' = targets \ {t}
    /\ likes' = [likes EXCEPT ![t] = {}]
    /\ shares' = [shares EXCEPT ![t] = {}]
    /\ ratings' = [ratings EXCEPT ![t] = NoRatings]
    /\ UNCHANGED <<users, deletion, likeCount, shareCount, averaged, rating, stale,
                   commentVars, followVars, drifted, cascaded>>

(* UserAdminService.deleteUserById: the transaction reads what the counters *)
(* depend on ...                                                            *)
BeginDeleteUser(u) ==
    /\ u \in users
    /\ ~deletion[u].active
    /\ deletion' = [deletion EXCEPT ![u] =
         [active     |-> TRUE,
          followers  |-> {f \in Users : <<f, u>> \in follows},
          followings |-> {g \in Users : <<u, g>> \in follows},
          comments   |-> {c \in Comments : Live(c) /\ comment[c].author = u},
          likes      |-> {x \in Likeable : u \in likes[x]}]]
    /\ UNCHANGED <<users, targets, likeVars, shareVars, commentVars, ratingVars, followVars,
                   drifted, cascaded>>

\* f lowered by one where it counts one of the rows X.
Lowered(f, X) == [x \in DOMAIN f |-> IF x \in X THEN f[x] - 1 ELSE f[x]]

Written(u)  == {c \in Comments : Live(c) /\ comment[c].author = u}
OwnTargets(u) == {t \in targets : OwnerOf[t] = u}

(* ... lowers them accordingly, and deletes the user; what names the user,  *)
(* its posts or its comments goes with it.                                  *)
DeleteUserById(u) ==
    LET read == deletion[u]
        gone == OwnTargets(u)
        D    == Cascade(Written(u))
    IN  /\ read.active
        /\ u \in users
        /\ \A d \in D : ~Locked(d)
        /\ ~RatedBy({u}, gone)
        /\ users' = users \ {u}
        /\ targets' = targets \ gone
        /\ deletion' = [deletion EXCEPT ![u] = NoDeletion]
        /\ likes' = [x \in Likeable |-> IF x \in gone \cup D THEN {} ELSE likes[x] \ {u}]
        /\ likeCount' = Lowered(likeCount, read.likes)
        /\ shares' = [t \in Targets |-> IF t \in gone THEN {} ELSE shares[t] \ {u}]
        /\ DeleteComments(D)
        /\ commentCount' =
             [t \in Targets |->
                commentCount[t] - Cardinality({c \in read.comments : comment[c].target = t})]
        /\ ratings' = [t \in Targets |-> IF t \in gone THEN NoRatings
                                         ELSE [ratings[t] EXCEPT ![u] = 0]]
        /\ rating' = Outdated(rating, {t \in Targets : ratings[t][u] # 0})
        /\ follows' = {pair \in follows : u \notin {pair[1], pair[2]}}
        /\ followersCount' = Lowered(followersCount, read.followings)
        /\ followingsCount' = Lowered(followingsCount, read.followers)
        /\ drifted' = drifted \cup RacedTargets({d \in D : comment[d].author # u})
        /\ cascaded' = cascaded \cup {t \in Targets : u \in shares[t]}
                                \cup {comment[d].target : d \in D \ Written(u)}
        /\ stale' = stale \cup {t \in Targets : ratings[t][u] # 0}
        /\ UNCHANGED <<shareCount, removing, averaged, followed, unfollowed>>

\* The transaction times out, or another one deleted the user.
AbortDeletion(u) ==
    /\ deletion[u].active
    /\ deletion' = [deletion EXCEPT ![u] = NoDeletion]
    /\ UNCHANGED <<users, targets, likeVars, shareVars, commentVars, ratingVars, followVars,
                   drifted, cascaded>>

-----------------------------------------------------------------------------
TargetStep(u) ==
    \E t \in Targets :
      \/ CreateLike(u, t)
      \/ RemoveLike(u, t)
      \/ CreateShare(u, t)
      \/ t \in Blogs /\ \E value \in Inputs : BeginRate(u, t, value)
      \/ \E c \in Comments, parent \in Comments \cup {None} : Create(u, c, t, parent)

CommentStep(u) ==
    \E c \in Comments : LikeComment(u, c) \/ UnlikeComment(u, c) \/ BeginRemove(u, c)

FollowStep(f) ==
    \E g \in Users \ {f} :
      \/ FollowUser(f, g)
      \/ UnfollowUser(f, g)
      \/ HandleUpdateFollowCounts(f, g)
      \/ HandleUpdateUnfollowCounts(f, g)
      \/ LoseEvent(f, g)

Next ==
    \/ \E u \in Users : \/ TargetStep(u)
                        \/ CommentStep(u)
                        \/ FollowStep(u)
                        \/ FinishRate(u)
                        \/ AbortRate(u)
                        \/ BeginDeleteUser(u)
                        \/ DeleteUserById(u)
                        \/ AbortDeletion(u)
    \/ \E c \in Comments : FinishRemove(c) \/ AbortRemove(c)
    \/ \E t \in Targets : DeletePost(t)

Spec == Init /\ [][Next]_vars

-----------------------------------------------------------------------------
(* Properties *)

(* The likes shown under a post, a blog or a comment are the likes there    *)
(* are, whoever likes, unlikes, removes comments and is deleted at the same *)
(* time - unless the one being deleted likes or unlikes it meanwhile.       *)
LikesAreCounted ==
    \A x \in targets \cup {c \in Comments : Live(c)} :
      x \notin drifted => likeCount[x] = Cardinality(likes[x])

(* Concurrent replies, removals of a comment and of what is below it, and   *)
(* deletions of users never leave a post with a lower count than it has     *)
(* comments or shares, and the counts are exact unless a cascade deleted    *)
(* rows that nothing subtracts: replies to replies, the replies of others   *)
(* to a deleted user, and a deleted user's shares.                          *)
CommentsAndSharesAreCounted ==
    \A t \in targets \ drifted :
      LET comments == Cardinality(CommentsOf(t))
          shared   == Cardinality(shares[t])
      IN  /\ commentCount[t] >= comments
          /\ shareCount[t] >= shared
          /\ t \notin cascaded => commentCount[t] = comments /\ shareCount[t] = shared

Settled(u) ==
    \A pair \in Follow : u \in {pair[1], pair[2]} => followed[pair] + unfollowed[pair] = 0

(* When the events about a user are handled, its counts are those of its    *)
(* follow rows, in whatever order events and deletions were processed -     *)
(* unless an event was lost, or found its other user deleted.               *)
FollowsAreCounted ==
    \A u \in users \ drifted : Settled(u) =>
      /\ followersCount[u] = Cardinality({f \in Users : <<f, u>> \in follows})
      /\ followingsCount[u] = Cardinality({g \in Users : <<u, g>> \in follows})

(* The average and the number of ratings of a blog are those of its ratings *)
(* once a rating was given that no other one overlapped.                    *)
RatingsAreAveraged ==
    \A b \in (targets \cap Blogs) \ stale : averaged[b] = ratings[b]
=============================================================================
