-------------------------- MODULE ContentIndex_proofs --------------------------
(***************************************************************************)
(* Proofs about the vectors of posts, blogs and categories.                *)
(***************************************************************************)
EXTENDS Content_proofs

-----------------------------------------------------------------------------
(* What is deleted.                                                        *)

Cleaning(i) == \E c \in Calls : call[c].pc \in {"files", "points"} /\ i \in call[c].ids

\* Nothing in progress brings back the vectors of what is deleted.
GhostInv ==
    \A i \in Items \ forgotten : row[i].state = "deleted" =>
      /\ point[i] # NoPoint => Cleaning(i)
      /\ i \notin Upserting
      /\ ~Syncing(i)

LEMMA GhostInitial == Init => GhostInv
  BY DEF Init, GhostInv, NoRow

LEMMA GhostSuffices == GhostInv => NoGhostVectors
  BY DEF GhostInv, NoGhostVectors, Cleaning

LEMMA GhostKept ==
  ASSUME GhostInv, forgotten \subseteq forgotten',
         \A i \in Items \ forgotten' : row'[i].state = "deleted" =>
           /\ row[i].state = "deleted"
           /\ point'[i] # NoPoint => point[i] # NoPoint
           /\ i \in Upserting' => i \in Upserting
           /\ Syncing(i)' => Syncing(i)
           /\ Cleaning(i) => Cleaning(i)'
  PROVE  GhostInv'
  BY DEF GhostInv

LEMMA OneCall ==
  ASSUME TypeInv, NEW c \in Calls, Others(c)
  PROVE  /\ call'[c].pc # "upsert" => Upserting' \subseteq Upserting
         /\ Upserting' \subseteq Upserting \cup {call'[c].item}
         /\ \A i \in Items :
              Cleaning(i) /\ (call[c].pc \notin {"files", "points"} \/ i \notin call[c].ids)
                => Cleaning(i)'
  BY DEF Upserting, Cleaning, Others

LEMMA TouchKeeps ==
  ASSUME NEW S, Touch(S), SyncOK
  PROVE  /\ \A i : Syncing(i)' <=> Syncing(i)
         /\ sync'.pc = sync.pc /\ sync'.coll = sync.coll /\ sync'.items = sync.items
         /\ sync'.read = sync.read /\ sync'.touched = sync.touched \cup (S \cap sync.items)
<1>1. sync' = [sync EXCEPT !.touched = sync.touched \cup (S \cap sync.items)]
  BY DEF Touch
<1> QED BY <1>1 DEF SyncOK, Sync, Syncing

\* A call begins or goes on without deleting anything.
LEMMA GhostGoesOn ==
  ASSUME TypeInv, GhostInv, NEW c \in Calls, Others(c),
         call'[c].pc # "upsert", call[c].pc \notin {"files", "points"},
         UNCHANGED <<point, forgotten>>, \A i \in Items : Syncing(i)' => Syncing(i),
         \A i \in Items : row'[i].state = "deleted" => row[i].state = "deleted"
  PROVE  GhostInv'
  BY GhostKept, OneCall

LEMMA GhostReads ==
  ASSUME TypeInv, GhostInv, NEW c \in Calls,
         \/ \E p \in Posts : DeletePost(c, p)
         \/ \E p \in Posts, e \in Edits : CreatePost(c, p, e) \/ UpdatePost(c, p, e)
         \/ \E b \in Blogs, e \in Edits : UpdateBlog(c, b, e)
         \/ \E g \in Categories, e \in Edits : UpdateCategory(c, g, e)
         \/ \E g \in Categories : RemoveCategory(c, g)
  PROVE  GhostInv'
<1>1. Others(c) /\ call'[c].pc # "upsert" /\ call[c].pc = "idle"
      /\ UNCHANGED <<row, sync, point, forgotten>>
  BY CreatePostIs, UpdatePostIs, ReadIs DEF Preparing
<1> QED BY <1>1, GhostGoesOn DEF Syncing

LEMMA GhostPrepares ==
  ASSUME TypeInv, GhostInv, NEW c \in Calls,
         DeleteThumbnail(c) \/ UploadImages(c) \/ DeleteImages(c)
  PROVE  GhostInv'
<1>1. CASE DeleteThumbnail(c) \/ UploadImages(c)
  <2>1. Others(c) /\ call'[c].pc # "upsert" /\ call[c].pc \notin {"files", "points"}
        /\ UNCHANGED <<row, sync, point, forgotten>>
    BY <1>1, DeleteThumbnailIs, UploadImagesIs, AfterSteps
  <2> QED BY <2>1, GhostGoesOn DEF Syncing
<1>2. CASE DeleteImages(c)
  <2> DEFINE i == call[c].item
  <2>1. Others(c) /\ call'[c].pc # "upsert" /\ call[c].pc = "images"
        /\ UNCHANGED <<point, forgotten>> /\ Touch({i})
    BY <1>2, DeleteImagesIs, AfterSteps, IdleOK
  <2>2. \A j \in Items : row'[j].state = row[j].state
    <3>1. \/ row' = row
          \/ row' = [row EXCEPT ![i] = [row[i] EXCEPT !.images = row[i].images \ Dropping(call[c])]]
      BY <1>2, DeleteImagesIs
    <3>2. row \in [Items -> Row] /\ i \in Items
      BY <1>2, DeleteImagesIs DEF TypeInv
    <3> QED BY <3>1, <3>2 DEF Row
  <2> QED BY <2>1, <2>2, TouchKeeps, GhostGoesOn DEF TypeInv
<1> QED BY <1>1, <1>2

LEMMA GhostEnds ==
  ASSUME TypeInv, GhostInv, NEW S \in SUBSET Calls, Abandon(S), LeftPoints(S) \subseteq forgotten',
         forgotten \subseteq forgotten', point' = point, \A i \in Items : Syncing(i)' => Syncing(i),
         \A i \in Items : row'[i].state = "deleted" => row[i].state = "deleted"
  PROVE  GhostInv'
<1>1. \A c \in Calls : IF c \in S THEN call'[c] = Idle ELSE call'[c] = call[c]
  BY DEF Abandon
<1>2. Upserting' \subseteq Upserting
  BY <1>1, IdleOK DEF Upserting
<1>3. \A i \in Items \ forgotten' : Cleaning(i) => Cleaning(i)'
  BY <1>1 DEF Cleaning, LeftPoints
<1> QED BY <1>2, <1>3, GhostKept

LEMMA GhostWrites ==
  ASSUME TypeInv, GhostInv, NEW c \in Calls,
         \/ DeleteVideo(c) \/ WritePost(c) \/ WriteBlog(c) \/ WriteCategory(c)
  PROVE  GhostInv'
<1>1. CASE DeleteVideo(c)
  <2>1. \A j \in Items : row'[j].state = "deleted" => row[j].state = "deleted"
    BY <1>1, DeleteVideoIs
  <2>2. UNCHANGED <<point, sync, forgotten>> /\ call[c].pc = "video"
    BY <1>1, DeleteVideoIs
  <2>3. CASE Others(c) /\ call'[c].pc = "write"
    BY <2>1, <2>2, <2>3, GhostGoesOn DEF Syncing
  <2>4. CASE Abandon({c})
    <3>1. LeftPoints({c}) = {}
      BY <2>2 DEF LeftPoints
    <3> QED BY <2>1, <2>2, <2>4, <3>1, GhostEnds DEF Syncing
  <2> QED BY <1>1, <2>3, <2>4, DeleteVideoIs
<1>2. CASE WritePost(c) \/ WriteBlog(c) \/ WriteCategory(c)
  <2>1. \A j \in Items : row'[j].state = "deleted" => row[j].state = "deleted"
    BY <1>2, WriteIs
  <2>2. UNCHANGED <<point, forgotten>> /\ call[c].pc = "write" /\ Touch({call[c].item}) /\ Others(c)
    BY <1>2, WriteIs DEF Writes
  <2>3. call'[c].pc # "upsert"
    BY <1>2, WriteIs, EmbeddingIs
  <2> QED BY <2>1, <2>2, <2>3, GhostGoesOn, TouchKeeps DEF TypeInv
<1> QED BY <1>1, <1>2

LEMMA GhostNewRow ==
  ASSUME TypeInv, GhostInv, NEW c \in Calls,
         \/ InsertPost(c)
         \/ \E b \in Blogs, e \in Edits : CreateBlog(c, b, e)
         \/ \E g \in Categories, e \in Edits : CreateCategory(c, g, e)
  PROVE  GhostInv'
<1> DEFINE i == call'[c].item
<1>1. /\ Others(c) /\ i \in Items /\ row'[i].state = "live"
      /\ \A j \in Items \ {i} : row'[j] = row[j]
      /\ call[c].pc \in {"insert", "idle"}
      /\ UNCHANGED <<point, sync, forgotten>>
  BY NewRowIs
<1>2. Upserting' \subseteq Upserting \cup {i} /\ \A j \in Items : Cleaning(j) => Cleaning(j)'
  BY <1>1, OneCall
<1> HIDE DEF i
<1> QED BY <1>1, <1>2, GhostKept DEF Syncing

LEMMA GhostDeletes ==
  ASSUME TypeInv, GhostInv, NEW c \in Calls,
         \/ FinishDeletePost(c) \/ FinishRemoveCategory(c)
         \/ \E S \in (SUBSET Blogs) \ {{}} : DeleteBlogs(c, S)
  PROVE  GhostInv'
<1>1. PICK S \in SUBSET Items :
           /\ DeleteRows(S, S) /\ S \subseteq call'[c].ids
           /\ Others(c) /\ call'[c].pc \in {"files", "points"}
           /\ call[c].pc \in {"delete", "idle"}
           /\ UNCHANGED point
  BY DeleteIs
<1>2. \A i \in S : Cleaning(i)'
  BY <1>1 DEF Cleaning
<1>3. Upserting' \subseteq Upserting /\ \A i \in Items : Cleaning(i) => Cleaning(i)'
  BY <1>1, OneCall
<1>4. \A i : Syncing(i)' <=> Syncing(i)
  BY <1>1, TouchKeeps DEF DeleteRows, TypeInv
<1>5. /\ forgotten \subseteq forgotten'
      /\ \A i \in Items \ S : row'[i] = row[i]
      /\ \A i \in S \ forgotten' : i \notin Upserting /\ ~Syncing(i)
  BY <1>1 DEF DeleteRows
<1> QED BY <1>1, <1>2, <1>3, <1>4, <1>5 DEF GhostInv

LEMMA GhostAdmin ==
  ASSUME TypeInv, GhostInv,
         \/ \E p \in Posts, e \in Edits : UpdatePostByAdmin(p, e)
         \/ \E S \in (SUBSET Posts) \ {{}} : BulkDeletePosts(S)
         \/ \E u \in Users : DeleteUser(u)
  PROVE  GhostInv'
<1>1. CASE \E p \in Posts, e \in Edits : UpdatePostByAdmin(p, e)
  <2>1. PICK p \in Posts, e \in Edits : UpdatePostByAdmin(p, e)
    BY <1>1
  <2>2. /\ \A i \in Items : row'[i].state = "deleted" => row[i].state = "deleted"
        /\ Touch({p}) /\ UNCHANGED <<point, forgotten, call>>
    BY <2>1, AdminIs
  <2>3. Upserting' = Upserting /\ \A i : Cleaning(i)' <=> Cleaning(i)
    BY <2>2 DEF Upserting, Cleaning
  <2> QED BY <2>2, <2>3, TouchKeeps, GhostKept DEF TypeInv
<1>2. CASE (\E S \in (SUBSET Posts) \ {{}} : BulkDeletePosts(S)) \/ \E u \in Users : DeleteUser(u)
  <2>1. PICK S \in SUBSET Items : DeleteRows(S, {}) /\ UNCHANGED <<point, call>>
    BY <1>2, PurgeIs
  <2>2. \A i : Syncing(i)' <=> Syncing(i)
    BY <2>1, TouchKeeps DEF DeleteRows, TypeInv
  <2>3. S \cup forgotten \subseteq forgotten' /\ \A i \in Items \ S : row'[i] = row[i]
    BY <2>1 DEF DeleteRows
  <2>4. Upserting' = Upserting /\ \A i : Cleaning(i)' <=> Cleaning(i)
    BY <2>1 DEF Upserting, Cleaning
  <2> QED BY <2>1, <2>2, <2>3, <2>4, GhostKept
<1> QED BY <1>1, <1>2

LEMMA GhostBackground ==
  ASSUME TypeInv, GhostInv, NEW c \in Calls,
         \/ DeleteFiles(c) \/ DeleteThePoints(c)
         \/ UpsertEmbedding(c) \/ WriteVectors(c) \/ DropVectors(c)
  PROVE  GhostInv'
<1>1. CASE DeleteFiles(c)
  <2>1. /\ Others(c) /\ call[c].pc = "files" /\ call'[c].pc = "points" /\ call'[c].ids = call[c].ids
        /\ UNCHANGED <<row, point, sync, forgotten>>
    BY <1>1, DeleteFilesIs DEF GoesOn
  <2>2. \A i : Cleaning(i) => Cleaning(i)'
    BY <2>1 DEF Cleaning, Others
  <2> QED BY <2>1, <2>2, OneCall, GhostKept DEF Syncing
<1>2. CASE DeleteThePoints(c)
  <2>1. /\ call'[c] = Idle /\ Others(c)
        /\ point' = [i \in Items |-> IF i \in call[c].ids THEN NoPoint ELSE point[i]]
        /\ UNCHANGED <<row, sync, forgotten>>
    BY <1>2, Steps DEF DeleteThePoints, DeletePoints
  <2>2. \A i \in Items : i \notin call[c].ids /\ Cleaning(i) => Cleaning(i)'
    BY <2>1, OneCall
  <2>3. Upserting' \subseteq Upserting
    BY <2>1, IdleOK, OneCall
  <2> QED BY <2>1, <2>2, <2>3 DEF GhostInv, Syncing
<1>3. CASE UpsertEmbedding(c)
  <2>1. /\ call'[c] = Idle /\ Others(c) /\ call[c].pc = "upsert" /\ call[c].item \in Upserting
        /\ \A i \in Items \ {call[c].item} : point'[i] = point[i]
        /\ UNCHANGED <<row, sync, forgotten>>
    BY <1>3, Steps DEF UpsertEmbedding, Upsert, Upserting, TypeInv
  <2>2. Upserting' \subseteq Upserting /\ \A i \in Items : Cleaning(i) => Cleaning(i)'
    BY <2>1, IdleOK, OneCall
  <2> QED BY <2>1, <2>2 DEF GhostInv, Syncing
<1>4. CASE WriteVectors(c) \/ DropVectors(c)
  <2>1. PICK v : call'[c] = Embedding(call[c].item, v) /\ Others(c)
    BY <1>4, Steps DEF WriteVectors, DropVectors, Remaining, TypeInv
  <2>2. call'[c].pc # "upsert" /\ call[c].pc = "update"
    BY <1>4, <2>1, EmbeddingIs DEF WriteVectors, DropVectors
  <2>3. \A i \in Items : point'[i] # NoPoint => point[i] # NoPoint
    BY <1>4 DEF WriteVectors, DropVectors, UpdateVectors, DeleteVectors, CanUpdateVectors, TypeInv
  <2>4. Upserting' \subseteq Upserting /\ \A i \in Items : Cleaning(i) => Cleaning(i)'
    BY <2>1, <2>2, OneCall
  <2>5. UNCHANGED <<row, sync, forgotten>>
    BY <1>4 DEF WriteVectors, DropVectors
  <2> QED BY <2>3, <2>4, <2>5, GhostKept DEF Syncing
<1> QED BY <1>1, <1>2, <1>3, <1>4

LEMMA GhostSync ==
  ASSUME TypeInv, GhostInv, (\E K \in Collections : SyncEmbeddings(K)) \/ SyncGoesOn
  PROVE  GhostInv'
<1>1. call' = call
  BY DEF SyncEmbeddings, SyncGoesOn
<1>2. Upserting' = Upserting /\ \A i : Cleaning(i)' <=> Cleaning(i)
  BY <1>1 DEF Upserting, Cleaning
<1>3. CASE \E K \in Collections : SyncEmbeddings(K)
  <2>1. PICK K \in Collections : SyncEmbeddings(K)
    BY <1>3
  <2>2. sync'.pc = "cleared" /\ forgotten' = forgotten \ (K \ Upserting) /\ row' = row
        /\ point' = [i \in Items |-> IF i \in K THEN NoPoint ELSE point[i]]
    BY <2>1 DEF SyncEmbeddings, StartSync, DeletePoints, NoSync
  <2> QED BY <1>2, <2>2 DEF GhostInv, Syncing
<1>4. CASE FetchItems
  <2>1. \A i : Syncing(i)' => HasRow(i)
    BY <1>4, NoSyncOK DEF FetchItems, Syncing, TypeInv, SyncOK, Sync
  <2> QED BY <1>2, <1>4, <2>1 DEF FetchItems, GhostInv, HasRow
<1>5. CASE \E S \in SUBSET sync.items : UpsertItems(S, Busy)
  BY <1>2, <1>5, NoSyncOK DEF UpsertItems, GhostInv, Syncing
<1>6. CASE SyncFails
  BY <1>2, <1>6, NoSyncOK DEF SyncFails, GhostInv, Syncing
<1> QED BY <1>3, <1>4, <1>5, <1>6 DEF SyncGoesOn, SyncStep

LEMMA GhostStep == TypeInv /\ GhostInv /\ [Next]_vars => GhostInv'
<1> SUFFICES ASSUME TypeInv, GhostInv, [Next]_vars PROVE GhostInv'
  OBVIOUS
<1>1. CASE Crash
  BY <1>1, NoSyncOK, GhostEnds DEF Crash, Syncing
<1>2. ASSUME NEW c \in Calls, CallFails(c) PROVE GhostInv'
  BY <1>2, GhostEnds DEF CallFails, Syncing
<1>3. ASSUME NEW c \in Calls, CallStep(c) PROVE GhostInv'
  BY <1>1, <1>2, <1>3, GhostPrepares, GhostWrites, GhostNewRow, GhostDeletes, GhostBackground
  DEF CallStep, PointMissing
<1>4. CASE UNCHANGED vars
  BY <1>4 DEF vars, GhostInv, Upserting, Cleaning, Syncing
<1> QED BY <1>1, <1>3, <1>4, GhostReads, GhostNewRow, GhostDeletes, GhostAdmin, GhostSync DEF Next

(* What is deleted leaves no vectors behind once its deletion is done, but  *)
(* for the cases forgotten names, for any number of items and of calls.     *)
THEOREM NoVectorsOfDeleted == Spec => []NoGhostVectors
<1>1. Spec => [](TypeInv /\ GhostInv)
  BY TypeInitial, TypeStep, GhostInitial, GhostStep, PTL DEF Spec
<1> QED BY <1>1, GhostSuffices, PTL

-----------------------------------------------------------------------------
(* What is changed.                                                        *)

\* The images of i are to be embedded by an updatePost that has deleted some.
ImagesDue(i) == \E c \in Calls : call[c].item = i /\ ImagesGone(call[c])

\* What the point of i need not have from its row: images that are still to be embedded,
\* and a title that became empty, whose vector nothing deletes.
Due(i, f) == \/ f = "images" /\ ImagesDue(i)
             \/ f = "title" /\ row[i].title = Empty

\* The synchronisation is to write the point of i.
SyncDue(i) == (sync.pc = "cleared" /\ i \in sync.coll) \/ Syncing(i)

Embeds(k, i) == k.item = i /\ k.pc \in {"upsert", "update"}

\* Some call is to write v to field f of the point of i.
Pending(i, f, v) == \E c \in Calls : Embeds(call[c], i) /\ call[c].changes[f] = v

\* What v says of i, its row says.
Agrees(i, v) == \A f \in Field : v[f] \in {None, VectorsOf(row[i])[f]} \/ Due(i, f)

SeenNow(i, k) == k.seen.title = row[i].title /\ k.seen.text = row[i].text

SeenFollows(i) ==
    \A c \in Calls : call[c].item = i /\ call[c].pc \in Preparing => SeenNow(i, call[c])
ChangesFollow(i) == \A c \in Calls : Embeds(call[c], i) => Agrees(i, call[c].changes)
ReadFollows(i)   == Syncing(i) => Agrees(i, sync.read[i]) /\ sync.read[i] # NoPoint

\* Each field of the point is that of the row, or will be.
PointFollows(i) ==
    /\ \A f \in Field : LET v == VectorsOf(row[i])[f]
                        IN point[i][f] = v \/ Pending(i, f, v) \/ Due(i, f)
    /\ point[i] = NoPoint => i \in Upserting

Follows(i) == /\ SeenFollows(i) /\ ChangesFollow(i) /\ ReadFollows(i)
              /\ SyncDue(i) \/ PointFollows(i)

VectorsInv == \A i \in Items \ stale : HasRow(i) => Follows(i)

\* A row read by the synchronisation is as it was, unless it was written to.
ReadsInv == \A i \in Items : Syncing(i) /\ i \notin sync.touched =>
              HasRow(i) /\ sync.read[i] = VectorsOf(row[i])

DroppingInv == \A c \in Calls : call[c].pc = "images" => Dropping(call[c]) # {}

LEMMA FieldTypes ==
  ASSUME TypeInv, NEW i \in Items, HasRow(i)
  PROVE  /\ VectorsOf(row[i]) \in Vectors
         /\ \A f \in Field : VectorsOf(row[i])[f] # None
<1>1. row[i].title \in Texts \cup {Empty} /\ row[i].text \in Texts \cup {Empty} /\ row[i].images \in SUBSET Files
  BY DEF TypeInv, RowOK, Row, HasRow
<1> QED BY <1>1, VectorAssumption DEF VectorsOf, Vectors, Field

LEMMA VectorTypes ==
  /\ \A v \in Vectors : v # NoPoint /\ \A f \in Field : v[f] # None
  /\ \A v, w \in Vectors : (\A f \in Field : v[f] = w[f]) => v = w
  /\ \A f \in Field : NoPoint[f] = None /\ NoChange[f] = None
  /\ Preparing \cap {"upsert", "update", "idle", "insert", "delete", "files", "points"} = {}
<1>1. \A v \in Vectors : v # NoPoint /\ \A f \in Field : v[f] # None
  BY VectorAssumption DEF Vectors, Field, NoPoint
<1>2. \A v, w \in Vectors : (\A f \in Field : v[f] = w[f]) => v = w
  BY DEF Vectors, Field
<1>3. \A f \in Field : NoPoint[f] = None /\ NoChange[f] = None
  BY DEF Field, NoPoint, NoChange
<1> QED BY <1>1, <1>2, <1>3 DEF Preparing

LEMMA VectorsInitial == Init => VectorsInv /\ ReadsInv /\ DroppingInv
  BY IdleOK, NoSyncOK
  DEF Init, VectorsInv, ReadsInv, DroppingInv, HasRow, NoRow, Syncing

LEMMA VectorsSuffice == TypeInv /\ VectorsInv => VectorsFollowRows
<1> SUFFICES ASSUME TypeInv, VectorsInv, NEW i \in Items \ (stale \cup Busy), HasRow(i),
                    ~(sync.pc # "idle" /\ i \in sync.coll), NEW f \in Field
             PROVE  FieldFollows(i, f)
  BY DEF VectorsFollowRows
<1>1. \A c \in Calls : call[c].item = i => call[c].pc = "idle"
  BY DEF Busy
<1>2. ~SyncDue(i)
  BY DEF SyncDue, Syncing, TypeInv, SyncOK
<1>3. PointFollows(i)
  BY <1>2 DEF VectorsInv, Follows
<1>4. ~Pending(i, f, VectorsOf(row[i])[f]) /\ ~ImagesDue(i)
  <2>1. \A c \in Calls : ~Embeds(call[c], i)
    BY <1>1 DEF Embeds
  <2>2. \A c \in Calls : ~(call[c].item = i /\ ImagesGone(call[c]))
    BY <1>1 DEF ImagesGone, Preparing
  <2> QED BY <2>1, <2>2 DEF Pending, ImagesDue
<1> QED BY <1>3, <1>4 DEF PointFollows, Due, FieldFollows

\* An embedding that has nothing to do is one of no change, or of an empty title.
LEMMA NothingToEmbed ==
  ASSUME NEW v \in Changes, Written(v) \cup Dropped(v) = {}, NEW f \in Field
  PROVE  v[f] = None \/ (f = "title" /\ v[f] = Empty)
<1>1. v[f] \in {None, Empty, {}}
  BY DEF Written
<1>2. f # "title" => v[f] = None
  BY <1>1 DEF Dropped
<1>3. v.title \in Texts \cup {Empty, None} /\ {} \notin Texts /\ {} # None
  BY VectorAssumption DEF Changes
<1> QED BY <1>1, <1>2, <1>3

\* Nothing happens to the embeddings of i; what a call reads of it is so.
LEMMA FollowsKept ==
  ASSUME TypeInv, NEW i \in Items, HasRow(i), Follows(i),
         point'[i] = point[i], sync'.read = sync.read,
         Syncing(i)' <=> Syncing(i), SyncDue(i)' <=> SyncDue(i),
         row'[i].title = row[i].title, row'[i].text = row[i].text,
         row'[i].images = row[i].images \/ ImagesDue(i)',
         \A d \in Calls :
           \/ call'[d] = call[d]
           \/ /\ ~Embeds(call[d], i) /\ ~Embeds(call'[d], i)
              /\ call[d].item = i /\ ImagesGone(call[d]) => ImagesDue(i)'
              /\ call'[d].item = i /\ call'[d].pc \in Preparing => SeenNow(i, call'[d])
  PROVE  Follows(i)'
<1>1. ImagesDue(i) => ImagesDue(i)'
  BY DEF ImagesDue
<1>2. \A f \in Field : Due(i, f) => Due(i, f)'
  BY <1>1 DEF Due
<1>3. \A f \in Field : VectorsOf(row'[i])[f] = VectorsOf(row[i])[f] \/ Due(i, f)'
  BY DEF VectorsOf, Field, Due
<1>4. \A v : Agrees(i, v) => Agrees(i, v)'
  BY <1>2, <1>3 DEF Agrees
<1>5. SeenFollows(i)'
  BY DEF Follows, SeenFollows, SeenNow
<1>6. ChangesFollow(i)'
  <2>1. ASSUME NEW d \in Calls, Embeds(call'[d], i)
        PROVE  call'[d] = call[d] /\ Agrees(i, call[d].changes)
    BY <2>1 DEF Follows, ChangesFollow
  <2>2. ASSUME NEW d \in Calls, Embeds(call'[d], i), NEW v, v = call[d].changes
        PROVE  call'[d] = call[d] /\ Agrees(i, v)'
    BY <1>4, <2>1, <2>2
  <2> QED BY <2>2 DEF ChangesFollow, Agrees
<1>7. ReadFollows(i)'
  <2>1. Syncing(i) => Agrees(i, sync.read[i]) /\ sync.read[i] # NoPoint
    BY DEF Follows, ReadFollows
  <2>2. ASSUME NEW v, v = sync.read[i], Syncing(i) PROVE Agrees(i, v)'
    BY <1>4, <2>1, <2>2
  <2> QED BY <2>1, <2>2 DEF ReadFollows, Agrees
<1>8. PointFollows(i) => PointFollows(i)'
  <2>1. \A f \in Field : \A v : Pending(i, f, v) => Pending(i, f, v)'
    BY DEF Pending
  <2>2. i \in Upserting => i \in Upserting'
    BY DEF Upserting, Embeds
  <2>3. ASSUME PointFollows(i), NEW f \in Field
        PROVE  \/ point'[i][f] = VectorsOf(row'[i])[f] \/ Due(i, f)'
               \/ \E v : v = VectorsOf(row'[i])[f] /\ Pending(i, f, v)'
    BY <1>2, <1>3, <2>1, <2>3 DEF PointFollows
  <2> QED BY <2>2, <2>3 DEF PointFollows, Pending
<1> QED BY <1>5, <1>6, <1>7, <1>8 DEF Follows

LEMMA DroppingStep == TypeInv /\ DroppingInv /\ [Next]_vars => DroppingInv'
<1> SUFFICES ASSUME TypeInv, DroppingInv, [Next]_vars PROVE DroppingInv'
  OBVIOUS
<1>1. ASSUME NEW c \in Calls, Others(c), call'[c].pc = "images" => Dropping(call'[c]) # {}
      PROVE  DroppingInv'
  BY <1>1 DEF DroppingInv, Others
<1>2. \A k : /\ AfterThumb(k) = "images" => Dropping(k) # {}
             /\ AfterRead(k) = "images" => Dropping(k) # {}
  BY AfterSteps DEF AfterThumb, AfterRead
<1>3. ASSUME NEW S \in SUBSET Calls, Abandon(S) PROVE DroppingInv'
  BY <1>3, IdleOK DEF Abandon, DroppingInv
<1>4. ASSUME NEW c \in Calls,
             \/ \E p \in Posts : DeletePost(c, p)
             \/ \E p \in Posts, e \in Edits : CreatePost(c, p, e) \/ UpdatePost(c, p, e)
             \/ \E b \in Blogs, e \in Edits : UpdateBlog(c, b, e)
             \/ \E g \in Categories, e \in Edits : UpdateCategory(c, g, e)
             \/ \E g \in Categories : RemoveCategory(c, g)
      PROVE  DroppingInv'
  <2>1. Others(c) /\ (call'[c].pc = "images" => call'[c].pc = AfterRead(call'[c]))
    BY <1>4, CreatePostIs, UpdatePostIs, ReadIs
  <2> QED BY <1>1, <1>2, <2>1
<1>5. ASSUME NEW c \in Calls, DeleteThumbnail(c) PROVE DroppingInv'
  <2>1. Others(c) /\ GoesOn(call[c], call'[c]) /\ call'[c].pc = AfterThumb(call[c])
    BY <1>5, DeleteThumbnailIs
  <2>2. Dropping(call'[c]) = Dropping(call[c])
    BY <2>1 DEF GoesOn, Dropping
  <2> QED BY <1>1, <1>2, <2>1, <2>2
<1>6. ASSUME NEW c \in Calls,
             \/ UploadImages(c) \/ DeleteImages(c) \/ DeleteVideo(c)
             \/ WritePost(c) \/ WriteBlog(c) \/ WriteCategory(c)
      PROVE  DroppingInv'
  <2>1. \A k : "images" \notin {AfterUpload(k), AfterImages(k)}
    BY AfterSteps
  <2>2. CASE UploadImages(c) \/ DeleteImages(c)
    <3>1. \/ call'[c].pc = AfterUpload(call[c]) \/ call'[c].pc = AfterImages(call[c])
          \/ call'[c] = Idle
      BY <2>2, UploadImagesIs, DeleteImagesIs
    <3>2. Others(c)
      BY <2>2, UploadImagesIs, DeleteImagesIs
    <3>3. call'[c].pc # "images"
      BY <2>1, <3>1, IdleOK
    <3> QED BY <1>1, <3>2, <3>3
  <2>3. CASE DeleteVideo(c)
    BY <1>1, <1>3, <2>3, DeleteVideoIs
  <2>4. CASE WritePost(c) \/ WriteBlog(c) \/ WriteCategory(c)
    <3>1. Others(c) /\ call'[c].pc # "images"
      BY <2>4, WriteIs, EmbeddingIs
    <3> QED BY <1>1, <3>1
  <2> QED BY <1>6, <2>2, <2>3, <2>4
<1>7. ASSUME NEW c \in Calls,
             \/ InsertPost(c) \/ DeleteFiles(c)
             \/ \E b \in Blogs, e \in Edits : CreateBlog(c, b, e)
             \/ \E g \in Categories, e \in Edits : CreateCategory(c, g, e)
             \/ FinishDeletePost(c) \/ FinishRemoveCategory(c)
             \/ \E S \in (SUBSET Blogs) \ {{}} : DeleteBlogs(c, S)
      PROVE  DroppingInv'
  <2>1. Others(c) /\ call'[c].pc # "images"
    BY <1>7, NewRowIs, DeleteFilesIs, DeleteIs
  <2> QED BY <1>1, <2>1
<1>8. ASSUME NEW c \in Calls,
             UpsertEmbedding(c) \/ WriteVectors(c) \/ DropVectors(c) \/ DeleteThePoints(c)
      PROVE  DroppingInv'
  <2>1. CASE UpsertEmbedding(c) \/ DeleteThePoints(c)
    BY <1>1, <2>1, Steps, IdleOK DEF UpsertEmbedding, DeleteThePoints
  <2>2. CASE WriteVectors(c) \/ DropVectors(c)
    <3>1. PICK v : call'[c] = Embedding(call[c].item, v) /\ Others(c)
      BY <2>2, Steps DEF WriteVectors, DropVectors, Remaining, TypeInv
    <3> QED BY <1>1, <3>1, EmbeddingIs
  <2> QED BY <1>8, <2>1, <2>2
<1>9. CASE Crash
  BY <1>3, <1>9 DEF Crash
<1>10. ASSUME NEW c \in Calls, CallStep(c) PROVE DroppingInv'
  BY <1>3, <1>5, <1>6, <1>7, <1>8, <1>9, <1>10 DEF CallStep, CallFails, PointMissing
<1>11. CASE call' = call
  BY <1>11 DEF DroppingInv
<1>12. CASE \/ UNCHANGED vars \/ SyncGoesOn \/ \E K \in Collections : SyncEmbeddings(K)
            \/ \E p \in Posts, e \in Edits : UpdatePostByAdmin(p, e)
            \/ \E S \in (SUBSET Posts) \ {{}} : BulkDeletePosts(S)
            \/ \E u \in Users : DeleteUser(u)
  BY <1>11, <1>12 DEF vars, SyncGoesOn, SyncEmbeddings, UpdatePostByAdmin, BulkDeletePosts, DeleteUser
<1> QED BY <1>4, <1>7, <1>9, <1>10, <1>12 DEF Next

\* A row that was not touched is as it was.
LEMMA ReadsKept ==
  ASSUME TypeInv, ReadsInv, sync'.read = sync.read, sync.touched \subseteq sync'.touched,
         \A i \in Items : Syncing(i)' => Syncing(i),
         \A i \in Items : Syncing(i) /\ i \notin sync'.touched =>
           row'[i].state = row[i].state /\ VectorsOf(row'[i]) = VectorsOf(row[i])
  PROVE  ReadsInv'
<1>1. ASSUME NEW i \in Items, Syncing(i)', i \notin sync'.touched
      PROVE  HasRow(i)' /\ sync'.read[i] = VectorsOf(row'[i])
  <2>1. HasRow(i) /\ sync.read[i] = VectorsOf(row[i])
    BY <1>1 DEF ReadsInv
  <2> QED BY <1>1, <2>1 DEF HasRow
<1> QED BY <1>1 DEF ReadsInv, VectorsOf

LEMMA ReadsStep == TypeInv /\ CallsInv /\ ReadsInv /\ [Next]_vars => ReadsInv'
<1> SUFFICES ASSUME TypeInv, CallsInv, ReadsInv, [Next]_vars PROVE ReadsInv'
  OBVIOUS
<1>1. CASE row' = row /\ sync' = sync
  BY <1>1 DEF ReadsInv, Syncing, HasRow, VectorsOf
<1>2. CASE sync'.pc # "fetched"
  BY <1>2 DEF ReadsInv, Syncing
<1>3. ASSUME NEW S, Touch(S), \A j \in Items \ S : row'[j] = row[j] PROVE ReadsInv'
  <2>1. /\ \A i \in Items : Syncing(i)' <=> Syncing(i)
        /\ sync'.read = sync.read /\ sync'.touched = sync.touched \cup (S \cap sync.items)
    BY <1>3, TouchKeeps DEF TypeInv
  <2>2. \A i \in Items : Syncing(i) /\ i \notin sync'.touched => row'[i] = row[i]
    BY <1>3, <2>1 DEF Syncing
  <2> QED BY <2>1, <2>2, ReadsKept
<1>4. ASSUME NEW c \in Calls,
             \/ InsertPost(c)
             \/ \E b \in Blogs, e \in Edits : CreateBlog(c, b, e)
             \/ \E g \in Categories, e \in Edits : CreateCategory(c, g, e)
      PROVE  ReadsInv'
  <2> DEFINE i == call'[c].item
  <2>1. /\ i \in Items /\ \A j \in Items \ {i} : row'[j] = row[j]
        /\ \/ call[c].pc = "insert" /\ call[c].item = i
           \/ row[i].state = "none"
        /\ sync' = sync
    BY <1>4, NewRowIs
  <2>2. ~Syncing(i)
    BY <2>1 DEF CallsInv, TypeInv, SyncOK
  <2> HIDE DEF i
  <2>3. \A j \in Items : Syncing(j) => row'[j] = row[j]
    BY <2>1, <2>2
  <2>4. \A j \in Items : Syncing(j)' => Syncing(j)
    BY <2>1 DEF Syncing
  <2> QED BY <2>1, <2>3, <2>4, ReadsKept
<1>5. ASSUME NEW c \in Calls, DeleteVideo(c) PROVE ReadsInv'
  <2>1. /\ sync' = sync /\ HasRow(call[c].item)
        /\ \A j \in Items \ {call[c].item} : row'[j] = row[j]
        /\ row'[call[c].item].state = "live"
        /\ row'[call[c].item].title = row[call[c].item].title
        /\ row'[call[c].item].text = row[call[c].item].text
        /\ row'[call[c].item].images = row[call[c].item].images
    BY <1>5, DeleteVideoIs
  <2>2. \A j \in Items : row'[j].state = row[j].state /\ VectorsOf(row'[j]) = VectorsOf(row[j])
    BY <2>1 DEF HasRow, VectorsOf
  <2>3. \A j \in Items : Syncing(j)' => Syncing(j)
    BY <2>1 DEF Syncing
  <2> QED BY <2>1, <2>2, <2>3, ReadsKept
<1>6. ASSUME NEW c \in Calls, DeleteImages(c) PROVE ReadsInv'
  <2>1. /\ Touch({call[c].item})
        /\ \/ row' = row
           \/ row' = [row EXCEPT ![call[c].item] =
                        [row[call[c].item] EXCEPT
                           !.images = row[call[c].item].images \ Dropping(call[c])]]
    BY <1>6, DeleteImagesIs
  <2>2. \A j \in Items \ {call[c].item} : row'[j] = row[j]
    BY <2>1 DEF TypeInv
  <2> QED BY <1>3, <2>1, <2>2
<1>7. ASSUME NEW c \in Calls, WritePost(c) \/ WriteBlog(c) \/ WriteCategory(c) PROVE ReadsInv'
  <2>1. Writes(c, call[c].item) /\ \A j \in Items \ {call[c].item} : row'[j] = row[j]
    BY <1>7, WriteIs
  <2> QED BY <1>3, <2>1 DEF Writes
<1>8. ASSUME NEW S \in SUBSET Items, NEW kept, DeleteRows(S, kept) PROVE ReadsInv'
  <2>1. Touch(S) /\ \A j \in Items \ S : row'[j] = row[j]
    BY <1>8 DEF DeleteRows
  <2> QED BY <1>3, <2>1
<1>9. ASSUME NEW c \in Calls,
             \/ FinishDeletePost(c) \/ FinishRemoveCategory(c)
             \/ \E S \in (SUBSET Blogs) \ {{}} : DeleteBlogs(c, S)
      PROVE  ReadsInv'
  <2>1. PICK S \in SUBSET Items : DeleteRows(S, S)
    BY <1>9, DeleteIs
  <2> QED BY <1>8, <2>1
<1>10. ASSUME NEW c \in Calls,
              \/ \E p \in Posts : DeletePost(c, p)
              \/ \E p \in Posts, e \in Edits : CreatePost(c, p, e) \/ UpdatePost(c, p, e)
              \/ \E b \in Blogs, e \in Edits : UpdateBlog(c, b, e)
              \/ \E g \in Categories, e \in Edits : UpdateCategory(c, g, e)
              \/ \E g \in Categories : RemoveCategory(c, g)
       PROVE  ReadsInv'
  BY <1>1, <1>10, CreatePostIs, UpdatePostIs, ReadIs
<1>11. CASE Crash
  BY <1>2, <1>11, NoSyncOK DEF Crash
<1>12. ASSUME NEW c \in Calls, CallStep(c) PROVE ReadsInv'
  BY <1>1, <1>4, <1>5, <1>6, <1>7, <1>9, <1>11, <1>12
  DEF CallStep, CallFails, PointMissing, DeleteThumbnail, UploadImages, DeleteFiles, indexVars,
      DeleteThePoints, UpsertEmbedding, WriteVectors, DropVectors
<1>13. CASE \E K \in Collections : SyncEmbeddings(K)
  <2>1. sync'.pc = "cleared"
    BY <1>13 DEF SyncEmbeddings, StartSync, NoSync
  <2> QED BY <1>2, <2>1
<1>14. CASE SyncGoesOn
  <2>1. CASE FetchItems
    <3> DEFINE S == {i \in sync.coll : HasRow(i)}
    <3>1. sync \in Sync /\ sync.coll \subseteq Items
      BY DEF TypeInv, SyncOK, Sync
    <3>2. CASE sync' = NoSync
      BY <1>2, <3>2, NoSyncOK
    <3>3. CASE sync' # NoSync
      <4>1. /\ sync'.items = S
            /\ sync'.read = [i \in Items |-> IF i \in S THEN VectorsOf(row[i]) ELSE NoPoint]
            /\ row' = row
        BY <2>1, <3>1, <3>3 DEF FetchItems, Sync
      <4>2. \A i \in S : i \in Items /\ HasRow(i)
        BY <3>1
      <4> HIDE DEF S
      <4>3. \A i \in Items : Syncing(i)' => i \in S
        BY <4>1 DEF Syncing
      <4> QED BY <4>1, <4>2, <4>3 DEF ReadsInv, HasRow, VectorsOf
    <3> QED BY <3>2, <3>3
  <2>2. CASE SyncFails \/ \E S \in SUBSET sync.items : UpsertItems(S, Busy)
    BY <1>2, <2>2, NoSyncOK DEF SyncFails, UpsertItems
  <2> QED BY <1>14, <2>1, <2>2 DEF SyncGoesOn, SyncStep
<1>15. ASSUME NEW p \in Posts, NEW e \in Edits, UpdatePostByAdmin(p, e) PROVE ReadsInv'
  <2>1. Touch({p}) /\ \A j \in Items \ {p} : row'[j] = row[j]
    BY <1>15, AdminIs
  <2> QED BY <1>3, <2>1
<1>16. CASE (\E S \in (SUBSET Posts) \ {{}} : BulkDeletePosts(S)) \/ \E u \in Users : DeleteUser(u)
  <2>1. PICK S \in SUBSET Items : DeleteRows(S, {})
    BY <1>16, PurgeIs
  <2> QED BY <1>8, <2>1
<1>17. CASE UNCHANGED vars
  BY <1>1, <1>17 DEF vars
<1> QED BY <1>4, <1>9, <1>10, <1>11, <1>12, <1>13, <1>14, <1>15, <1>16, <1>17 DEF Next

\* One call goes on with something else.
LEMMA FollowsOne ==
  ASSUME TypeInv, NEW i \in Items, HasRow(i), Follows(i),
         NEW c \in Calls, Others(c), ~Embeds(call[c], i), ~Embeds(call'[c], i),
         call[c].item = i /\ ImagesGone(call[c]) => ImagesDue(i)',
         call'[c].item = i /\ call'[c].pc \in Preparing => SeenNow(i, call'[c]),
         point'[i] = point[i], sync'.read = sync.read,
         Syncing(i)' <=> Syncing(i), SyncDue(i)' <=> SyncDue(i),
         row'[i].title = row[i].title, row'[i].text = row[i].text,
         row'[i].images = row[i].images \/ ImagesDue(i)'
  PROVE  Follows(i)'
<1>1. \A d \in Calls :
        \/ call'[d] = call[d]
        \/ /\ ~Embeds(call[d], i) /\ ~Embeds(call'[d], i)
           /\ call[d].item = i /\ ImagesGone(call[d]) => ImagesDue(i)'
           /\ call'[d].item = i /\ call'[d].pc \in Preparing => SeenNow(i, call'[d])
  BY DEF Others
<1> QED BY <1>1, FollowsKept

LEMMA SyncSame ==
  sync' = sync => /\ sync'.read = sync.read
                  /\ \A i : (Syncing(i)' <=> Syncing(i)) /\ (SyncDue(i)' <=> SyncDue(i))
  BY DEF Syncing, SyncDue

LEMMA SyncTouched ==
  ASSUME TypeInv, NEW S, Touch(S)
  PROVE  /\ sync'.read = sync.read
         /\ \A i : (Syncing(i)' <=> Syncing(i)) /\ (SyncDue(i)' <=> SyncDue(i))
  BY TouchKeeps DEF TypeInv, Syncing, SyncDue

LEMMA VectorsBegin ==
  ASSUME TypeInv, VectorsInv, NEW c \in Calls,
         \/ \E p \in Posts : DeletePost(c, p)
         \/ \E p \in Posts, e \in Edits : CreatePost(c, p, e) \/ UpdatePost(c, p, e)
         \/ \E b \in Blogs, e \in Edits : UpdateBlog(c, b, e)
         \/ \E g \in Categories, e \in Edits : UpdateCategory(c, g, e)
         \/ \E g \in Categories : RemoveCategory(c, g)
  PROVE  VectorsInv'
<1>1. /\ Others(c) /\ call[c].pc = "idle" /\ UNCHANGED <<row, point, sync, stale>>
      /\ call'[c].pc \notin {"upsert", "update"}
      /\ call'[c].pc \in Preparing => call'[c].seen = row[call'[c].item]
  <2>1. CASE \E p \in Posts, e \in Edits : CreatePost(c, p, e)
    BY <2>1, CreatePostIs DEF Preparing
  <2>2. CASE \E p \in Posts, e \in Edits : UpdatePost(c, p, e)
    <3>1. PICK p \in Posts, e \in Edits : UpdatePost(c, p, e)
      BY <2>2
    <3>2. /\ Others(c) /\ call[c].pc = "idle" /\ UNCHANGED <<row, point, sync, stale>>
          /\ call'[c].pc \in Preparing
          /\ call'[c].item = p /\ call'[c].seen = row[p]
      BY <3>1, UpdatePostIs
    <3> QED BY <3>2 DEF Preparing
  <2>3. CASE \/ \E p \in Posts : DeletePost(c, p)
             \/ \E b \in Blogs, e \in Edits : UpdateBlog(c, b, e)
             \/ \E g \in Categories, e \in Edits : UpdateCategory(c, g, e)
             \/ \E g \in Categories : RemoveCategory(c, g)
    <3>1. /\ Others(c) /\ call[c].pc = "idle" /\ UNCHANGED <<row, point, sync, stale>>
          /\ call'[c].pc \in {"delete", "write"}
          /\ \/ call'[c].seen = row[call'[c].item]
             \/ call'[c].pc = "delete"
      BY <2>3, ReadIs
    <3> QED BY <3>1 DEF Preparing
  <2> QED BY <2>1, <2>2, <2>3
<1>2. ASSUME NEW i \in Items \ stale, HasRow(i) PROVE Follows(i)'
  <2>1. ~Embeds(call[c], i) /\ ~Embeds(call'[c], i) /\ ~ImagesGone(call[c])
    BY <1>1 DEF Embeds, ImagesGone, Preparing
  <2>2. call'[c].item = i /\ call'[c].pc \in Preparing => SeenNow(i, call'[c])
    BY <1>1 DEF SeenNow
  <2>3. Follows(i)
    BY <1>2 DEF VectorsInv
  <2> QED BY <1>1, <1>2, <2>1, <2>2, <2>3, SyncSame, FollowsOne
<1> QED BY <1>1, <1>2 DEF VectorsInv, HasRow

\* A call ends without having written.
LEMMA VectorsEnd ==
  ASSUME TypeInv, VectorsInv, NEW c \in Calls, call[c].pc \notin {"upsert", "update"}, Abandon({c}),
         stale' = stale \cup LeftStale({c}), UNCHANGED <<point, sync>>,
         \A i \in Items : /\ row'[i].state = row[i].state
                          /\ row'[i].title = row[i].title /\ row'[i].text = row[i].text
                          /\ row'[i].images = row[i].images
  PROVE  VectorsInv'
<1>1. call'[c] = Idle /\ Others(c)
  BY DEF Abandon, Others
<1>2. ASSUME NEW i \in Items \ stale', HasRow(i) PROVE Follows(i)'
  <2>1. ~Embeds(call[c], i) /\ ~Embeds(call'[c], i) /\ call'[c].pc \notin Preparing
    BY <1>1, IdleOK DEF Embeds, Preparing
  <2>2. ~(call[c].item = i /\ ImagesGone(call[c]))
    BY <1>2 DEF LeftStale
  <2>3. Follows(i)
    BY <1>2 DEF VectorsInv
  <2> QED BY <1>1, <1>2, <2>1, <2>2, <2>3, SyncSame, FollowsOne
<1> QED BY <1>2 DEF VectorsInv, HasRow

LEMMA VectorsCrash == TypeInv /\ VectorsInv /\ Crash => VectorsInv'
<1> SUFFICES ASSUME TypeInv, VectorsInv, Crash PROVE VectorsInv'
  OBVIOUS
<1>1. /\ \A c \in Calls : call'[c] = Idle
      /\ stale' = stale \cup LeftStale(Calls) \cup Unsynced
      /\ sync' = NoSync /\ UNCHANGED <<row, point>>
  BY DEF Crash, Abandon
<1>2. ASSUME NEW i \in Items \ stale', HasRow(i) PROVE Follows(i)'
  <2>1. \A c \in Calls : ~Embeds(call[c], i) /\ ~(call[c].item = i /\ ImagesGone(call[c]))
    BY <1>1, <1>2 DEF LeftStale, Embeds
  <2>2. ~SyncDue(i)
    BY <1>1, <1>2 DEF Unsynced, SyncDue, Syncing, TypeInv, SyncOK
  <2>3. PointFollows(i)
    BY <1>1, <1>2, <2>2 DEF VectorsInv, Follows
  <2>4. /\ \A f \in Field : \/ point[i][f] = VectorsOf(row[i])[f]
                            \/ f = "title" /\ row[i].title = Empty
        /\ point[i] # NoPoint
    <3>1. \A f \in Field : ~Pending(i, f, VectorsOf(row[i])[f])
      BY <2>1 DEF Pending
    <3>2. ~ImagesDue(i)
      BY <2>1 DEF ImagesDue
    <3>3. i \notin Upserting
      BY <2>1 DEF Upserting, Embeds
    <3> QED BY <2>3, <3>1, <3>2, <3>3 DEF PointFollows, Due
  <2>5. PointFollows(i)'
    BY <1>1, <2>4 DEF PointFollows, Due
  <2>6. SeenFollows(i)' /\ ChangesFollow(i)' /\ ReadFollows(i)'
    BY <1>1, IdleOK, NoSyncOK DEF SeenFollows, ChangesFollow, ReadFollows, Embeds, Preparing, Syncing
  <2> QED BY <2>5, <2>6 DEF Follows
<1> QED BY <1>1, <1>2 DEF VectorsInv, HasRow

\* updatePost between the read and the write.
LEMMA VectorsPrepare ==
  ASSUME TypeInv, VectorsInv, DroppingInv, NEW c \in Calls,
         DeleteThumbnail(c) \/ UploadImages(c) \/ DeleteImages(c) \/ DeleteVideo(c)
  PROVE  VectorsInv'
<1>1. ASSUME NEW i \in Items \ stale, HasRow(i), Others(c), GoesOn(call[c], call'[c]),
             call[c].pc \in Preparing, call'[c].pc \in Preparing,
             ImagesGone(call[c]) => call'[c].pc \notin {"thumbnail", "images"},
             point' = point, sync'.read = sync.read,
             Syncing(i)' <=> Syncing(i), SyncDue(i)' <=> SyncDue(i),
             row'[i].title = row[i].title, row'[i].text = row[i].text,
             row'[i].images = row[i].images \/ (call[c].item = i /\ ImagesGone(call'[c]))
      PROVE  Follows(i)'
  <2>1. ~Embeds(call[c], i) /\ ~Embeds(call'[c], i)
    BY <1>1 DEF Embeds, Preparing
  <2>2. call'[c].item = call[c].item /\ call'[c].seen = call[c].seen
        /\ Dropping(call'[c]) = Dropping(call[c])
    BY <1>1 DEF GoesOn, Dropping
  <2>3. ImagesGone(call[c]) => ImagesGone(call'[c])
    BY <1>1, <2>2 DEF ImagesGone
  <2>4. call[c].item = i /\ ImagesGone(call'[c]) => ImagesDue(i)'
    BY <2>2 DEF ImagesDue
  <2>5. Follows(i)
    BY <1>1 DEF VectorsInv
  <2>6. call'[c].item = i /\ call'[c].pc \in Preparing => SeenNow(i, call'[c])
    BY <1>1, <2>2, <2>5 DEF Follows, SeenFollows, SeenNow
  <2> QED BY <1>1, <2>1, <2>2, <2>3, <2>4, <2>5, <2>6, FollowsOne
<1>2. CASE DeleteThumbnail(c)
  <2>1. /\ Others(c) /\ GoesOn(call[c], call'[c]) /\ call[c].pc = "thumbnail"
        /\ call'[c].pc = AfterThumb(call[c]) /\ UNCHANGED <<row, point, sync, stale>>
    BY <1>2, DeleteThumbnailIs
  <2>2. call[c].pc \in Preparing /\ call'[c].pc \in Preparing /\ ~ImagesGone(call[c])
    BY <2>1, AfterSteps DEF Preparing, ImagesGone
  <2> QED BY <1>1, <2>1, <2>2, SyncSame DEF VectorsInv, HasRow
<1>3. CASE UploadImages(c)
  <2>1. /\ Others(c) /\ GoesOn(call[c], call'[c]) /\ call[c].pc = "upload"
        /\ call'[c].pc = AfterUpload(call[c]) /\ UNCHANGED <<row, point, sync, stale>>
    BY <1>3, UploadImagesIs
  <2>2. call[c].pc \in Preparing /\ call'[c].pc \in Preparing \ {"thumbnail", "images"}
    BY <2>1, AfterSteps DEF Preparing
  <2> QED BY <1>1, <2>1, <2>2, SyncSame DEF VectorsInv, HasRow
<1>4. CASE DeleteImages(c)
  <2> DEFINE j == call[c].item
             S == Dropping(call[c])
  <2>1. /\ Others(c) /\ j \in Items /\ call[c].pc = "images" /\ Touch({j})
        /\ \/ row' = row
           \/ row' = [row EXCEPT ![j] = [row[j] EXCEPT !.images = row[j].images \ S]]
        /\ point' = point
        /\ \/ /\ GoesOn(call[c], call'[c]) /\ call'[c].pc = AfterImages(call[c])
              /\ stale' = stale
           \/ call'[c] = Idle /\ stale' = stale \cup {j}
    BY <1>4, DeleteImagesIs
  <2>2. \A i \in Items : row'[i].title = row[i].title /\ row'[i].text = row[i].text
                         /\ row'[i].state = row[i].state
                         /\ (i # j => row'[i].images = row[i].images)
    BY <2>1 DEF TypeInv, Row
  <2>3. S # {} /\ ~ImagesGone(call[c]) /\ call[c].pc \in Preparing
    BY <2>1 DEF DroppingInv, ImagesGone, Preparing
  <2>4. CASE GoesOn(call[c], call'[c]) /\ call'[c].pc = AfterImages(call[c]) /\ stale' = stale
    <3>1. call'[c].pc \in Preparing \ {"thumbnail", "images"}
      BY <2>4, AfterSteps DEF Preparing
    <3>2. ImagesGone(call'[c])
      BY <2>3, <2>4, <3>1 DEF ImagesGone, GoesOn, Dropping
    <3> HIDE DEF S
    <3> QED BY <1>1, <2>1, <2>2, <2>3, <2>4, <3>1, <3>2, SyncTouched DEF VectorsInv, HasRow
  <2>5. CASE call'[c] = Idle /\ stale' = stale \cup {j}
    <3>1. ASSUME NEW i \in Items \ stale', HasRow(i) PROVE Follows(i)'
      <4>1. i # j /\ Follows(i)
        BY <2>5, <3>1 DEF VectorsInv
      <4>2. ~Embeds(call[c], i) /\ ~Embeds(call'[c], i) /\ call'[c].pc \notin Preparing
        BY <2>5, <4>1, IdleOK DEF Embeds, Preparing
      <4> HIDE DEF S
      <4> QED BY <2>1, <2>2, <3>1, <4>1, <4>2, SyncTouched, FollowsOne
    <3> QED BY <2>2, <3>1 DEF VectorsInv, HasRow
  <2> QED BY <2>1, <2>4, <2>5
<1>5. CASE DeleteVideo(c)
  <2>1. /\ call[c].item \in Items /\ HasRow(call[c].item) /\ call[c].pc = "video"
        /\ \A j \in Items \ {call[c].item} : row'[j] = row[j]
        /\ row'[call[c].item].state = "live"
        /\ row'[call[c].item].title = row[call[c].item].title
        /\ row'[call[c].item].text = row[call[c].item].text
        /\ row'[call[c].item].images = row[call[c].item].images
        /\ UNCHANGED <<point, sync>>
        /\ \/ /\ Others(c) /\ GoesOn(call[c], call'[c]) /\ call'[c].pc = "write"
              /\ stale' = stale
           \/ Abandon({c}) /\ stale' = stale \cup LeftStale({c})
    BY <1>5, DeleteVideoIs
  <2>2. \A i \in Items : /\ row'[i].state = row[i].state
                         /\ row'[i].title = row[i].title /\ row'[i].text = row[i].text
                         /\ row'[i].images = row[i].images
    BY <2>1 DEF HasRow
  <2>3. call[c].pc \in Preparing /\ "write" \in Preparing \ {"thumbnail", "images"}
        /\ call[c].pc \notin {"upsert", "update"}
    BY <2>1 DEF Preparing
  <2>4. CASE Others(c) /\ GoesOn(call[c], call'[c]) /\ call'[c].pc = "write" /\ stale' = stale
    BY <1>1, <2>1, <2>2, <2>3, <2>4, SyncSame DEF VectorsInv, HasRow
  <2>5. CASE Abandon({c}) /\ stale' = stale \cup LeftStale({c})
    BY <2>1, <2>2, <2>3, <2>5, VectorsEnd
  <2> QED BY <2>1, <2>4, <2>5
<1> QED BY <1>2, <1>3, <1>4, <1>5

\* The item of the row that is written: what differs from the row it read is pending.
LEMMA WrittenFollows ==
  ASSUME TypeInv, VectorsInv, NEW c \in Calls, WritePost(c) \/ WriteBlog(c) \/ WriteCategory(c),
         NEW i \in Items \ stale', i = call[c].item
  PROVE  Follows(i)'
<1> DEFINE k == call[c]
<1>1. /\ Others(c) /\ k.pc = "write" /\ HasRow(i) /\ row'[i].state = "live"
      /\ row'[i].title = Given(k.title, row[i].title)
      /\ row'[i].text = Given(k.text, row[i].text)
      /\ row'[i].images = row[i].images \cup k.add
      /\ Writes(c, i) /\ point' = point
  BY WriteIs
<1>2. PICK changes \in Changes :
         /\ call'[c] = Embedding(i, changes)
         /\ changes.title = Changed(k.title, k.seen.title)
         /\ \/ changes.text = Changed(k.text, k.seen.text)
            \/ changes.text = IF k.text = k.seen.text THEN None ELSE row'[i].text
         /\ changes.images = IF Dropping(k) # {} \/ k.adds THEN row'[i].images ELSE None
  BY WriteIs
<1>3. /\ i \notin stale /\ ~Syncing(i) /\ k.pc \in Preparing
      /\ \A d \in Calls \ {c} : call[d].item = i => call[d].pc = "idle"
  BY <1>1 DEF Writes, InProgress, Preparing
<1>4. Follows(i) /\ k.seen.title = row[i].title /\ k.seen.text = row[i].text
  BY <1>1, <1>3 DEF VectorsInv, Follows, SeenFollows, SeenNow
<1>5. \A d \in Calls : ~Embeds(call[d], i)
  BY <1>1, <1>3 DEF Embeds
<1>6. /\ row[i].title \in Texts \cup {Empty} /\ row[i].text \in Texts \cup {Empty}
      /\ row[i].images \in SUBSET Files /\ k.add \in SUBSET Files
  BY <1>1 DEF TypeInv, RowOK, Row, HasRow, CallType
<1>7. ~ImagesGone(k) => ~ImagesDue(i)
  BY <1>3 DEF ImagesDue, ImagesGone, Preparing
<1>8. \A f \in Field :
        \/ changes[f] = VectorsOf(row'[i])[f] /\ changes[f] # None
        \/ changes[f] = None /\ VectorsOf(row'[i])[f] = VectorsOf(row[i])[f]
           /\ (Due(i, f) => Due(i, f)')
  <2>1. \/ changes.title = row'[i].title /\ changes.title # None
        \/ changes.title = None /\ row'[i].title = row[i].title
    BY <1>1, <1>2, <1>4, <1>6, VectorAssumption DEF Given, Changed
  <2>2. \/ changes.text = row'[i].text /\ changes.text # None
        \/ changes.text = None /\ row'[i].text = row[i].text
    BY <1>1, <1>2, <1>4, <1>6, VectorAssumption DEF Given, Changed
  <2>3. \/ changes.images = row'[i].images /\ changes.images # None
        \/ changes.images = None /\ row'[i].images = row[i].images /\ ~ImagesDue(i)
    <3>1. CASE Dropping(k) # {} \/ k.adds
      BY <1>1, <1>2, <1>6, <3>1, VectorAssumption
    <3>2. CASE Dropping(k) = {} /\ ~k.adds
      <4>1. k.add = {}
        BY <1>3, <3>2 DEF TypeInv, CallOK
      <4>2. ~ImagesDue(i)
        BY <1>7, <3>2 DEF ImagesGone
      <4> QED BY <1>1, <1>2, <3>2, <4>1, <4>2
    <3> QED BY <3>1, <3>2
  <2> QED BY <2>1, <2>2, <2>3 DEF Field, VectorsOf, Due
<1>9. ~Syncing(i)' /\ sync'.read = sync.read /\ (SyncDue(i) => SyncDue(i)')
  BY <1>1, <1>3, SyncTouched DEF Writes
<1>10. /\ call'[c].pc \in {"idle", "update"}
       /\ call'[c].pc = "update" => call'[c].item = i /\ call'[c].changes = changes
       /\ call'[c].pc = "idle" => Written(changes) \cup Dropped(changes) = {}
  BY <1>2, EmbeddingIs
<1>11. \A d \in Calls \ {c} : call'[d] = call[d]
  BY <1>1 DEF Others
<1>12. SeenFollows(i)' /\ ReadFollows(i)'
  BY <1>3, <1>9, <1>10, <1>11 DEF SeenFollows, ReadFollows, Preparing
<1>13. ChangesFollow(i)'
  <2>1. ASSUME NEW d \in Calls, Embeds(call'[d], i) PROVE call'[d].changes = changes
    BY <1>5, <1>10, <1>11, <2>1 DEF Embeds
  <2> QED BY <1>8, <2>1 DEF ChangesFollow, Agrees
<1>14. PointFollows(i) => PointFollows(i)'
  <2>1. \A f \in Field : changes[f] # None =>
          Pending(i, f, changes[f])' \/ (f = "title" /\ changes[f] = Empty)
    BY <1>10, NothingToEmbed DEF Pending, Embeds
  <2>2. PointFollows(i) => \A f \in Field : point[i][f] = VectorsOf(row[i])[f] \/ Due(i, f)
    BY <1>5 DEF PointFollows, Pending
  <2>3. i \notin Upserting
    BY <1>5 DEF Upserting, Embeds
  <2>4. PointFollows(i) => \A f \in Field :
          \/ point'[i][f] = VectorsOf(row'[i])[f]
          \/ changes[f] = VectorsOf(row'[i])[f] /\ Pending(i, f, changes[f])'
          \/ Due(i, f)'
    <3>1. \A f \in Field : f = "title" /\ VectorsOf(row'[i])[f] = Empty => Due(i, f)'
      BY DEF VectorsOf, Due
    <3> QED BY <1>1, <1>8, <2>1, <2>2, <3>1
  <2> QED BY <1>1, <2>3, <2>4 DEF PointFollows, Pending
<1> QED BY <1>4, <1>9, <1>12, <1>13, <1>14 DEF Follows

LEMMA VectorsWrite ==
  ASSUME TypeInv, VectorsInv, NEW c \in Calls, WritePost(c) \/ WriteBlog(c) \/ WriteCategory(c)
  PROVE  VectorsInv'
<1>1. /\ Others(c) /\ call[c].pc = "write" /\ call[c].item \in Items /\ HasRow(call[c].item)
      /\ \A j \in Items \ {call[c].item} : row'[j] = row[j]
      /\ Writes(c, call[c].item) /\ point' = point
  BY WriteIs
<1>2. PICK v : call'[c] = Embedding(call[c].item, v)
  BY WriteIs
<1>3. /\ call'[c].pc \in {"idle", "update"}
      /\ call'[c].pc = "update" => call'[c].item = call[c].item
  BY <1>2, EmbeddingIs
<1>4. stale \subseteq stale' /\ Touch({call[c].item})
  BY <1>1 DEF Writes
<1>5. ASSUME NEW i \in Items \ stale', HasRow(i)' PROVE Follows(i)'
  <2>1. CASE i = call[c].item
    BY <1>5, <2>1, WrittenFollows
  <2>2. CASE i # call[c].item
    <3>1. row'[i] = row[i] /\ HasRow(i) /\ Follows(i)
      BY <1>1, <1>4, <1>5, <2>2 DEF VectorsInv, HasRow
    <3>2. ~Embeds(call[c], i) /\ ~Embeds(call'[c], i) /\ call'[c].pc \notin Preparing
      BY <1>3, <2>2 DEF Embeds, Preparing
    <3> QED BY <1>1, <1>4, <1>5, <2>2, <3>1, <3>2, SyncTouched, FollowsOne
  <2> QED BY <2>1, <2>2
<1> QED BY <1>5 DEF VectorsInv

LEMMA VectorsNewRow ==
  ASSUME TypeInv, CallsInv, VectorsInv, NEW c \in Calls,
         \/ InsertPost(c)
         \/ \E b \in Blogs, e \in Edits : CreateBlog(c, b, e)
         \/ \E g \in Categories, e \in Edits : CreateCategory(c, g, e)
  PROVE  VectorsInv'
<1> DEFINE j == call'[c].item
<1>1. /\ Others(c) /\ j \in Items /\ call'[c].pc = "upsert"
      /\ call'[c].changes = VectorsOf(row'[j])
      /\ \A i \in Items \ {j} : row'[i] = row[i]
      /\ \/ call[c].pc = "insert" /\ call[c].item = j
         \/ call[c].pc = "idle" /\ row[j].state = "none"
      /\ UNCHANGED <<point, sync, stale>>
  BY NewRowIs
<1>2. row[j].state = "none"
  BY <1>1 DEF CallsInv
<1>3. ASSUME NEW i \in Items \ stale', HasRow(i)' PROVE Follows(i)'
  <2>1. CASE i = j
    <3>1. ~Syncing(i)' /\ \A d \in Calls \ {c} : call'[d] = call[d]
      BY <1>1, <1>2, <2>1, SyncSame DEF TypeInv, SyncOK, Others
    <3>2. \A d \in Calls \ {c} : call'[d].item = i => call'[d].pc \in {"idle", "insert"}
      BY <1>1, <1>2, <2>1, <3>1 DEF CallsInv
    <3>3. SeenFollows(i)' /\ ReadFollows(i)'
      BY <1>1, <3>1, <3>2 DEF SeenFollows, ReadFollows, Preparing
    <3>4. \A d \in Calls : Embeds(call'[d], i) => call'[d].changes = VectorsOf(row'[i])
      BY <1>1, <2>1, <3>2 DEF Embeds
    <3>5. ChangesFollow(i)'
      BY <3>4 DEF ChangesFollow, Agrees
    <3>6. PointFollows(i)'
      BY <1>1, <2>1 DEF PointFollows, Pending, Embeds, Upserting
    <3> QED BY <3>3, <3>5, <3>6 DEF Follows
  <2>2. CASE i # j
    <3>1. row'[i] = row[i] /\ HasRow(i) /\ Follows(i)
      BY <1>1, <1>3, <2>2 DEF VectorsInv, HasRow
    <3>2. ~Embeds(call[c], i) /\ ~Embeds(call'[c], i) /\ call'[c].pc \notin Preparing
          /\ ~ImagesGone(call[c])
      BY <1>1, <2>2 DEF Embeds, Preparing, ImagesGone
    <3> HIDE DEF j
    <3> QED BY <1>1, <1>3, <3>1, <3>2, SyncSame, FollowsOne
  <2> QED BY <2>1, <2>2
<1> QED BY <1>3 DEF VectorsInv

\* A call writes some of the fields it is to write, and goes on with the others.
LEMMA EmbeddingFollows ==
  ASSUME TypeInv, NEW i \in Items, HasRow(i), Follows(i), NEW c \in Calls, Others(c),
         Embeds(call[c], i), NEW F \in SUBSET Field, \A f \in F : call[c].changes[f] # None,
         \/ /\ point'[i] # NoPoint
            /\ \A f \in Field : point'[i][f] = IF f \in F THEN call[c].changes[f] ELSE point[i][f]
         \/ point'[i] = NoPoint /\ point[i] = NoPoint /\ call[c].pc = "update",
         call'[c] = Embedding(i, Without(call[c].changes, F)),
         UNCHANGED <<row, sync>>
  PROVE  Follows(i)'
<1> DEFINE k == call[c]
           v == VectorsOf(row[i])
           m == Without(k.changes, F)
<1>1. /\ call'[c].pc \in {"idle", "update"}
      /\ call'[c].pc = "update" => call'[c].item = i /\ call'[c].changes = m
      /\ call'[c].pc = "idle" => Written(m) \cup Dropped(m) = {}
  BY EmbeddingIs
<1>2. \A f \in Field : m[f] = IF f \in F THEN None ELSE k.changes[f]
  BY DEF Without
<1> HIDE DEF m
<1>3. \A d \in Calls \ {c} : call'[d] = call[d]
  BY DEF Others
<1>4. k.pc \notin Preparing /\ call'[c].pc \notin Preparing
  BY <1>1 DEF Embeds, Preparing
<1>5. ImagesDue(i) => ImagesDue(i)'
  BY <1>3, <1>4 DEF ImagesDue, ImagesGone
<1>6. \A f \in Field : Due(i, f) => Due(i, f)'
  BY <1>5 DEF Due
<1>7. \A f \in Field : v[f] # None /\ VectorsOf(row'[i])[f] = v[f]
  BY FieldTypes
<1>8. \A d \in Calls : Embeds(call[d], i) =>
        \A f \in Field : call[d].changes[f] \in {None, v[f]} \/ Due(i, f)
  BY DEF Follows, ChangesFollow, Agrees
<1>9. SeenFollows(i)'
  BY <1>3, <1>4 DEF Follows, SeenFollows, SeenNow
<1>10. ReadFollows(i)'
  BY <1>6, SyncSame DEF Follows, ReadFollows, Agrees
<1>11. ChangesFollow(i)'
  <2>1. ASSUME NEW d \in Calls, Embeds(call'[d], i), NEW f \in Field
        PROVE  call'[d].changes[f] \in {None, v[f]} \/ Due(i, f)'
    <3>1. CASE d = c
      <4>1. call'[c].changes = m
        BY <1>1, <2>1, <3>1 DEF Embeds
      <4>2. k.changes[f] \in {None, v[f]} \/ Due(i, f)
        BY <1>8
      <4> QED BY <1>2, <1>6, <3>1, <4>1, <4>2
    <3>2. CASE d # c
      BY <1>3, <1>6, <1>8, <2>1, <3>2
    <3> QED BY <3>1, <3>2
  <2> QED BY <1>7, <2>1 DEF ChangesFollow, Agrees
<1>12. m \in Changes
  <2>1. k.changes \in Changes
    BY DEF TypeInv, CallType
  <2> QED BY <2>1, Pruning DEF m
<1>13. PointFollows(i) => PointFollows(i)'
  <2> SUFFICES ASSUME PointFollows(i) PROVE PointFollows(i)'
    OBVIOUS
  <2>1. CASE /\ point'[i] # NoPoint
             /\ \A f \in Field : point'[i][f] = IF f \in F THEN k.changes[f] ELSE point[i][f]
    <3>1. ASSUME NEW f \in Field
          PROVE  \/ point'[i][f] = v[f] \/ Due(i, f)'
                 \/ \E d \in Calls : Embeds(call'[d], i) /\ call'[d].changes[f] = v[f]
      <4>1. CASE f \in F
        BY <1>6, <1>8, <2>1, <4>1
      <4>2. CASE f \notin F
        <5>1. point[i][f] = v[f] \/ Due(i, f) \/ Pending(i, f, v[f])
          BY DEF PointFollows
        <5>2. CASE Pending(i, f, v[f])
          <6>1. PICK d \in Calls : Embeds(call[d], i) /\ call[d].changes[f] = v[f]
            BY <5>2 DEF Pending
          <6>2. CASE d = c
            <7>1. m[f] = v[f] /\ m[f] # None
              BY <1>2, <1>7, <4>2, <6>1, <6>2
            <7>2. CASE call'[c].pc = "update"
              BY <1>1, <7>1, <7>2 DEF Embeds
            <7>3. CASE call'[c].pc = "idle"
              <8>1. f = "title" /\ v[f] = Empty
                BY <1>1, <1>12, <7>1, <7>3, NothingToEmbed
              <8> QED BY <1>6, <8>1 DEF Due, VectorsOf
            <7> QED BY <1>1, <7>2, <7>3
          <6>3. CASE d # c
            BY <1>3, <6>1, <6>3
          <6> QED BY <6>2, <6>3
        <5> QED BY <1>6, <2>1, <4>2, <5>1, <5>2
      <4> QED BY <4>1, <4>2
    <3> QED BY <1>7, <2>1, <3>1 DEF PointFollows, Pending
  <2>2. CASE point'[i] = NoPoint /\ point[i] = NoPoint /\ k.pc = "update"
    <3>1. PICK d \in Calls : call[d].pc = "upsert" /\ call[d].item = i
      BY <2>2 DEF PointFollows, Upserting
    <3>2. d # c /\ call'[d] = call[d] /\ Embeds(call[d], i) /\ call[d].changes \in Vectors
      BY <1>3, <2>2, <3>1 DEF Embeds, TypeInv, CallOK
    <3>3. \A f \in Field : call[d].changes[f] = v[f] \/ Due(i, f)
      BY <1>8, <3>2, VectorTypes
    <3>4. \A f \in Field : Due(i, f)' \/ call'[d].changes[f] = v[f]
      BY <1>6, <3>2, <3>3
    <3>5. i \in Upserting'
      BY <3>1, <3>2 DEF Upserting
    <3> QED BY <1>7, <3>2, <3>4, <3>5 DEF PointFollows, Pending
  <2> QED BY <2>1, <2>2
<1> QED BY <1>9, <1>10, <1>11, <1>13, SyncSame DEF Follows

LEMMA VectorsEmbed ==
  ASSUME TypeInv, VectorsInv, NEW c \in Calls,
         UpsertEmbedding(c) \/ WriteVectors(c) \/ DropVectors(c)
  PROVE  VectorsInv'
<1> DEFINE j == call[c].item
           k == call[c].changes
<1>1. /\ UNCHANGED <<row, sync, stale>> /\ Embeds(call[c], j) /\ j \in Items /\ k \in Changes
      /\ call[c].pc \in {"upsert", "update"} /\ point \in [Items -> Vectors \cup {NoPoint}]
  BY DEF UpsertEmbedding, WriteVectors, DropVectors, Embeds, TypeInv, CallOK, CallType
<1>2. \E F \in SUBSET Field :
        /\ \A f \in F : k[f] # None
        /\ \A i \in Items \ {j} : point'[i] = point[i]
        /\ \/ /\ point'[j] # NoPoint
              /\ \A f \in Field : point'[j][f] = IF f \in F THEN k[f] ELSE point[j][f]
           \/ point'[j] = NoPoint /\ point[j] = NoPoint /\ call[c].pc = "update"
        /\ call'[c] = Embedding(j, Without(k, F)) /\ Others(c)
  <2>1. CASE UpsertEmbedding(c)
    <3>1. /\ call[c].pc = "upsert" /\ point' = [point EXCEPT ![j] = k]
          /\ call'[c] = Idle /\ Others(c)
      BY <2>1, Steps DEF UpsertEmbedding, Upsert
    <3>2. k \in Vectors
      BY <3>1 DEF TypeInv, CallOK
    <3>3. Without(k, Field) = NoChange
      BY DEF Without, NoChange, NoPoint, Field
    <3>4. Embedding(j, Without(k, Field)) = Idle
      <4>1. Written(NoChange) \cup Dropped(NoChange) = {}
        BY VectorTypes, VectorAssumption DEF Written, Dropped
      <4> QED BY <3>3, <4>1 DEF Embedding
    <3> QED BY <1>1, <3>1, <3>2, <3>4, VectorTypes
  <2>2. CASE WriteVectors(c)
    <3> DEFINE F == Written(k)
    <3>1. /\ call[c].pc = "update" /\ point[j] # NoPoint
          /\ point' = [point EXCEPT ![j] = Change(point[j], k, F)]
          /\ call'[c] = Embedding(j, Without(k, F)) /\ Others(c)
      BY <1>1, <2>2, Steps DEF WriteVectors, UpdateVectors, CanUpdateVectors, Remaining, TypeInv
    <3>2. F \in SUBSET Field /\ \A f \in F : k[f] # None
      BY DEF Written
    <3>3. Change(point[j], k, F) \in Vectors
      BY <1>1, <3>1, Changing
    <3>4. \A f \in Field : Change(point[j], k, F)[f] = IF f \in F THEN k[f] ELSE point[j][f]
      BY DEF Change
    <3> HIDE DEF F
    <3> QED BY <1>1, <3>1, <3>2, <3>3, <3>4, VectorTypes
  <2>3. CASE DropVectors(c)
    <3> DEFINE F == Dropped(k)
    <3>1. /\ call[c].pc = "update"
          /\ point' = IF point[j] = NoPoint THEN point
                      ELSE [point EXCEPT ![j] = Change(point[j], k, F)]
          /\ call'[c] = Embedding(j, Without(k, F)) /\ Others(c)
      BY <1>1, <2>3, Steps DEF DropVectors, DeleteVectors, Remaining, TypeInv
    <3>2. F \in SUBSET Field
      BY DEF Dropped
    <3>3. \A f \in F : k[f] # None
      BY VectorAssumption DEF Dropped
    <3>4. point[j] # NoPoint => Change(point[j], k, F) \in Vectors
      BY <1>1, Changing
    <3>5. \A f \in Field : Change(point[j], k, F)[f] = IF f \in F THEN k[f] ELSE point[j][f]
      BY DEF Change
    <3> HIDE DEF F
    <3> QED BY <1>1, <3>1, <3>2, <3>3, <3>4, <3>5, VectorTypes
  <2> QED BY <2>1, <2>2, <2>3
<1>3. PICK F \in SUBSET Field :
        /\ \A f \in F : k[f] # None
        /\ \A i \in Items \ {j} : point'[i] = point[i]
        /\ \/ /\ point'[j] # NoPoint
              /\ \A f \in Field : point'[j][f] = IF f \in F THEN k[f] ELSE point[j][f]
           \/ point'[j] = NoPoint /\ point[j] = NoPoint /\ call[c].pc = "update"
        /\ call'[c] = Embedding(j, Without(k, F)) /\ Others(c)
  BY <1>2
<1>4. ASSUME NEW i \in Items \ stale, HasRow(i) PROVE Follows(i)'
  <2>1. Follows(i)
    BY <1>4 DEF VectorsInv
  <2>2. CASE i = j
    BY <1>1, <1>3, <1>4, <2>1, <2>2, EmbeddingFollows
  <2>3. CASE i # j
    <3>1. /\ call'[c].pc \in {"idle", "update"}
          /\ call'[c].pc = "update" => call'[c].item = j
      BY <1>3, EmbeddingIs
    <3>2. ~Embeds(call[c], i) /\ ~Embeds(call'[c], i) /\ call'[c].pc \notin Preparing
      BY <2>3, <3>1 DEF Embeds, Preparing
    <3>3. row'[i] = row[i] /\ point'[i] = point[i]
      BY <1>1, <1>3, <2>3
    <3> QED BY <1>1, <1>3, <1>4, <2>1, <2>3, <3>2, <3>3, SyncSame, FollowsOne
  <2> QED BY <2>2, <2>3
<1> QED BY <1>1, <1>4 DEF VectorsInv, HasRow

LEMMA VectorsDelete ==
  ASSUME TypeInv, CallsInv, VectorsInv, NEW c \in Calls,
         \/ FinishDeletePost(c) \/ FinishRemoveCategory(c)
         \/ \E S \in (SUBSET Blogs) \ {{}} : DeleteBlogs(c, S)
         \/ DeleteFiles(c) \/ DeleteThePoints(c)
  PROVE  VectorsInv'
<1>1. ASSUME Others(c), call[c].pc \in {"idle", "delete", "files", "points"},
             call'[c].pc \in {"idle", "files", "points"}, stale' = stale,
             NEW i \in Items \ stale, HasRow(i), row'[i] = row[i], point'[i] = point[i],
             sync'.read = sync.read, Syncing(i)' <=> Syncing(i), SyncDue(i)' <=> SyncDue(i)
      PROVE  Follows(i)'
  <2>1. ~Embeds(call[c], i) /\ ~Embeds(call'[c], i) /\ call'[c].pc \notin Preparing
        /\ ~ImagesGone(call[c])
    BY <1>1 DEF Embeds, Preparing, ImagesGone
  <2>2. Follows(i)
    BY <1>1 DEF VectorsInv
  <2> QED BY <1>1, <2>1, <2>2, FollowsOne
<1>2. CASE \/ FinishDeletePost(c) \/ FinishRemoveCategory(c)
           \/ \E S \in (SUBSET Blogs) \ {{}} : DeleteBlogs(c, S)
  <2>1. PICK S \in SUBSET Items :
           /\ DeleteRows(S, S) /\ Others(c) /\ call'[c].pc \in {"files", "points"}
           /\ call[c].pc \in {"idle", "delete"}
           /\ UNCHANGED <<point, stale>>
    BY <1>2, DeleteIs
  <2>2. /\ Touch(S) /\ \A i \in Items \ S : row'[i] = row[i]
        /\ \A i \in S : ~HasRow(i)'
    BY <2>1 DEF DeleteRows, HasRow, Deleted, NoRow
  <2> QED BY <1>1, <2>1, <2>2, SyncTouched DEF VectorsInv, HasRow
<1>3. CASE DeleteFiles(c)
  <2>1. /\ Others(c) /\ call[c].pc = "files" /\ call'[c].pc = "points"
        /\ UNCHANGED <<row, point, sync, stale>>
    BY <1>3, DeleteFilesIs
  <2> QED BY <1>1, <2>1, SyncSame DEF VectorsInv, HasRow
<1>4. CASE DeleteThePoints(c)
  <2>1. /\ call'[c] = Idle /\ Others(c) /\ call[c].pc = "points"
        /\ point' = [i \in Items |-> IF i \in call[c].ids THEN NoPoint ELSE point[i]]
        /\ UNCHANGED <<row, sync, stale>>
    BY <1>4, Steps DEF DeleteThePoints, DeletePoints
  <2>2. \A i \in Items : HasRow(i) => point'[i] = point[i]
    BY <2>1 DEF CallsInv, HasRow
  <2> QED BY <1>1, <2>1, <2>2, IdleOK, SyncSame DEF VectorsInv, HasRow
<1> QED BY <1>2, <1>3, <1>4

LEMMA VectorsByAdmin ==
  ASSUME TypeInv, VectorsInv,
         \/ \E p \in Posts, e \in Edits : UpdatePostByAdmin(p, e)
         \/ \E S \in (SUBSET Posts) \ {{}} : BulkDeletePosts(S)
         \/ \E u \in Users : DeleteUser(u)
  PROVE  VectorsInv'
<1>1. ASSUME call' = call, NEW S, Touch(S), NEW i \in Items \ stale, HasRow(i), point' = point,
             row'[i].title = row[i].title, row'[i].text = row[i].text,
             row'[i].images = row[i].images
      PROVE  Follows(i)'
  <2>1. Follows(i)
    BY <1>1 DEF VectorsInv
  <2> QED BY <1>1, <2>1, SyncTouched, FollowsKept
<1>2. CASE \E p \in Posts, e \in Edits : UpdatePostByAdmin(p, e)
  <2>1. PICK p \in Posts, e \in Edits : UpdatePostByAdmin(p, e)
    BY <1>2
  <2>2. /\ p \in Items /\ HasRow(p) /\ \A j \in Items \ {p} : row'[j] = row[j]
        /\ VectorsOf(row'[p]) = VectorsOf(row[p]) \/ p \in stale'
        /\ Touch({p}) /\ stale \subseteq stale' /\ UNCHANGED <<point, call>>
    BY <2>1, AdminIs
  <2>3. ASSUME NEW i \in Items \ stale', HasRow(i)'
        PROVE  /\ i \in Items \ stale /\ HasRow(i)
               /\ row'[i].title = row[i].title /\ row'[i].text = row[i].text
               /\ row'[i].images = row[i].images
    BY <2>2, <2>3 DEF VectorsOf, HasRow
  <2> QED BY <1>1, <2>2, <2>3 DEF VectorsInv
<1>3. CASE (\E S \in (SUBSET Posts) \ {{}} : BulkDeletePosts(S)) \/ \E u \in Users : DeleteUser(u)
  <2>1. PICK S \in SUBSET Items : DeleteRows(S, {}) /\ UNCHANGED <<point, stale, call>>
    BY <1>3, PurgeIs
  <2>2. /\ Touch(S) /\ \A i \in Items \ S : row'[i] = row[i]
        /\ \A i \in S : ~HasRow(i)'
    BY <2>1 DEF DeleteRows, HasRow, Deleted, NoRow
  <2> QED BY <1>1, <2>1, <2>2 DEF VectorsInv, HasRow
<1> QED BY <1>2, <1>3

\* The embeddings of i are left as they are; its point is written or to be written by
\* the synchronisation.
LEMMA FollowsSynced ==
  ASSUME TypeInv, NEW i \in Items, SeenFollows(i), ChangesFollow(i), UNCHANGED <<row, call>>,
         ReadFollows(i)', SyncDue(i)' \/ PointFollows(i)'
  PROVE  Follows(i)'
<1>1. SeenFollows(i)'
  BY DEF SeenFollows, SeenNow
<1>2. ChangesFollow(i)'
  BY DEF ChangesFollow, Agrees, Due, ImagesDue
<1> QED BY <1>1, <1>2 DEF Follows

LEMMA VectorsSync ==
  ASSUME TypeInv, VectorsInv, ReadsInv, (\E K \in Collections : SyncEmbeddings(K)) \/ SyncGoesOn
  PROVE  VectorsInv'
<1>1. UNCHANGED <<row, call>>
  BY DEF SyncEmbeddings, SyncGoesOn, StartSync, SyncStep, FetchItems, UpsertItems, SyncFails
<1>2. sync \in Sync /\ sync.items \subseteq sync.coll /\ sync.coll \subseteq Items
  BY DEF TypeInv, SyncOK, Sync
<1>3. \A i : point'[i] = point[i] /\ PointFollows(i) => PointFollows(i)'
  BY <1>1 DEF PointFollows, Pending, Due, ImagesDue, Upserting
<1>4. CASE \E K \in Collections : SyncEmbeddings(K)
  <2>1. PICK K \in Collections : SyncEmbeddings(K)
    BY <1>4
  <2>2. /\ sync.pc = "idle" /\ sync'.pc = "cleared" /\ sync'.coll = K /\ stale' = stale
        /\ point' = [i \in Items |-> IF i \in K THEN NoPoint ELSE point[i]]
    BY <2>1 DEF SyncEmbeddings, StartSync, DeletePoints, NoSync
  <2>3. ASSUME NEW i \in Items \ stale, HasRow(i) PROVE Follows(i)'
    <3>1. Follows(i) /\ ~SyncDue(i)
      BY <2>2, <2>3 DEF VectorsInv, SyncDue, Syncing
    <3>2. ReadFollows(i)'
      BY <2>2 DEF ReadFollows, Syncing
    <3>3. SyncDue(i)' \/ PointFollows(i)'
      BY <1>3, <2>2, <3>1 DEF Follows, SyncDue
    <3> QED BY <1>1, <3>1, <3>2, <3>3, FollowsSynced DEF Follows
  <2> QED BY <1>1, <2>2, <2>3 DEF VectorsInv, HasRow
<1>5. CASE FetchItems
  <2> DEFINE S == {i \in sync.coll : HasRow(i)}
  <2>1. /\ sync.pc = "cleared" /\ UNCHANGED <<point, stale>>
        /\ \/ S = {} /\ sync' = NoSync
           \/ /\ sync'.pc = "fetched" /\ sync'.items = S
              /\ sync'.read = [i \in Items |-> IF i \in S THEN VectorsOf(row[i]) ELSE NoPoint]
    BY <1>2, <1>5 DEF FetchItems, Sync
  <2>2. ASSUME NEW i \in Items \ stale, HasRow(i) PROVE Follows(i)'
    <3>1. Follows(i) /\ (i \in sync.coll <=> i \in S)
      BY <2>2 DEF VectorsInv
    <3>2. Syncing(i)' => sync'.read[i] = VectorsOf(row[i]) /\ i \in S
      BY <2>1, NoSyncOK DEF Syncing
    <3>3. ReadFollows(i)'
      BY <1>1, <2>2, <3>2, FieldTypes, VectorTypes DEF ReadFollows, Agrees
    <3>4. SyncDue(i) => SyncDue(i)'
      BY <2>1, <3>1 DEF SyncDue, Syncing
    <3>5. SyncDue(i)' \/ PointFollows(i)'
      BY <1>3, <2>1, <3>1, <3>4 DEF Follows
    <3> QED BY <1>1, <3>1, <3>3, <3>5, FollowsSynced DEF Follows
  <2> QED BY <1>1, <2>1, <2>2 DEF VectorsInv, HasRow
<1>6. CASE SyncFails
  <2>1. /\ sync.pc # "idle" /\ stale' = stale \cup Unsynced /\ sync' = NoSync /\ point' = point
    BY <1>6 DEF SyncFails
  <2>2. ASSUME NEW i \in Items \ stale', HasRow(i) PROVE Follows(i)'
    <3>1. Follows(i) /\ ~SyncDue(i)
      BY <1>2, <2>1, <2>2 DEF VectorsInv, Unsynced, SyncDue, Syncing
    <3>2. ReadFollows(i)'
      BY <2>1, NoSyncOK DEF ReadFollows, Syncing
    <3>3. PointFollows(i)'
      BY <1>3, <2>1, <3>1 DEF Follows
    <3> QED BY <1>1, <3>1, <3>2, <3>3, FollowsSynced DEF Follows
  <2> QED BY <1>1, <2>1, <2>2 DEF VectorsInv, HasRow
<1>7. CASE \E S \in SUBSET sync.items : UpsertItems(S, Busy)
  <2>1. PICK S \in SUBSET sync.items : UpsertItems(S, Busy)
    BY <1>7
  <2>2. /\ sync.pc = "fetched" /\ sync' = NoSync
        /\ point' = [i \in Items |-> IF i \in S THEN sync.read[i] ELSE point[i]]
        /\ stale' = (stale \ (S \ (sync.touched \cup Busy))) \cup (sync.items \ S)
    BY <2>1 DEF UpsertItems
  <2>3. ASSUME NEW i \in Items \ stale', HasRow(i) PROVE Follows(i)'
    <3>1. ReadFollows(i)'
      BY <2>2, NoSyncOK DEF ReadFollows, Syncing
    <3>2. CASE i \notin sync.items
      <4>1. Follows(i) /\ ~SyncDue(i) /\ point'[i] = point[i]
        BY <2>2, <2>3, <3>2 DEF VectorsInv, SyncDue, Syncing
      <4> QED BY <1>1, <1>3, <3>1, <4>1, FollowsSynced DEF Follows
    <3>3. CASE i \in sync.items /\ i \notin stale
      <4>1. i \in S /\ point'[i] = sync.read[i] /\ Follows(i) /\ Syncing(i)
        BY <2>2, <2>3, <3>3 DEF VectorsInv, Syncing
      <4>2. Agrees(i, sync.read[i]) /\ sync.read[i] # NoPoint
        BY <4>1 DEF Follows, ReadFollows
      <4>3. sync.read[i] \in Vectors
        BY <1>2, <4>2 DEF Sync
      <4>4. \A f \in Field : point'[i][f] = VectorsOf(row[i])[f] \/ Due(i, f)
        BY <4>1, <4>2, <4>3, VectorTypes DEF Agrees
      <4>5. PointFollows(i)'
        BY <1>1, <4>1, <4>2, <4>4 DEF PointFollows, Due, ImagesDue
      <4> QED BY <1>1, <3>1, <4>1, <4>5, FollowsSynced DEF Follows
    <3>4. CASE i \in sync.items /\ i \in stale
      <4>1. i \in S /\ point'[i] = sync.read[i] /\ i \notin sync.touched \cup Busy /\ Syncing(i)
        BY <2>2, <2>3, <3>4 DEF Syncing
      <4>2. sync.read[i] = VectorsOf(row[i])
        BY <4>1 DEF ReadsInv
      <4>3. \A c \in Calls : call[c].item = i => call[c].pc = "idle"
        BY <4>1 DEF Busy
      <4>4. SeenFollows(i) /\ ChangesFollow(i)
        BY <4>3 DEF SeenFollows, ChangesFollow, Embeds, Preparing
      <4>5. VectorsOf(row[i]) # NoPoint
        BY <2>3, FieldTypes, VectorTypes
      <4>6. PointFollows(i)'
        BY <1>1, <4>1, <4>2, <4>5 DEF PointFollows
      <4> QED BY <1>1, <3>1, <4>4, <4>6, FollowsSynced
    <3> QED BY <3>2, <3>3, <3>4
  <2> QED BY <1>1, <2>3 DEF VectorsInv, HasRow
<1> QED BY <1>4, <1>5, <1>6, <1>7 DEF SyncGoesOn, SyncStep

LEMMA VectorsStep ==
  TypeInv /\ CallsInv /\ VectorsInv /\ ReadsInv /\ DroppingInv /\ [Next]_vars => VectorsInv'
<1> SUFFICES ASSUME TypeInv, CallsInv, VectorsInv, ReadsInv, DroppingInv, [Next]_vars
             PROVE  VectorsInv'
  OBVIOUS
<1>1. ASSUME NEW c \in Calls, CallFails(c) PROVE VectorsInv'
  BY <1>1, VectorsEnd DEF CallFails
<1>2. ASSUME NEW c \in Calls, CallStep(c) PROVE VectorsInv'
  BY <1>1, <1>2, VectorsNewRow, VectorsPrepare, VectorsWrite, VectorsDelete, VectorsEmbed,
     VectorsCrash
  DEF CallStep, PointMissing
<1>3. CASE UNCHANGED vars
  <2>1. ASSUME NEW i \in Items \ stale, HasRow(i) PROVE Follows(i)'
    <3>1. Follows(i)
      BY <2>1 DEF VectorsInv
    <3> QED BY <1>3, <2>1, <3>1, SyncSame, FollowsKept DEF vars
  <2> QED BY <1>3, <2>1 DEF VectorsInv, HasRow, vars
<1> QED BY <1>2, <1>3, VectorsCrash, VectorsBegin, VectorsNewRow, VectorsDelete, VectorsByAdmin,
        VectorsSync DEF Next

(* Whatever the calls, the synchronisations and the failures, an item that  *)
(* nothing is in progress on is found by what its row says, but for what    *)
(* stale names and the vector of a title that became empty: each other      *)
(* field is in the point already, or some call or the synchronisation is    *)
(* about to write it.                                                       *)
THEOREM PointsFollowRows == Spec => []VectorsFollowRows
<1> DEFINE Inv == TypeInv /\ CallsInv /\ VectorsInv /\ ReadsInv /\ DroppingInv
<1>1. Init => Inv
  BY TypeInitial, CallsInitial, VectorsInitial
<1>2. Inv /\ [Next]_vars => Inv'
  BY TypeStep, CallsStep, VectorsStep, ReadsStep, DroppingStep
<1>3. Inv => VectorsFollowRows
  BY VectorsSuffice
<1> QED BY <1>1, <1>2, <1>3, PTL DEF Spec
=============================================================================
