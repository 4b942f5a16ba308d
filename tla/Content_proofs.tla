---------------------------- MODULE Content_proofs ----------------------------
(***************************************************************************)
(* Proofs about Content: types, the images and the thumbnails of posts.    *)
(***************************************************************************)
EXTENDS Content, TLAPS

-----------------------------------------------------------------------------
(* Types.                                                                  *)

\* What a row of item i holds.
RowOK(i, r) ==
    /\ r \in Row
    /\ r.state = "live" => /\ r.title \in Texts \cup {Empty} /\ r.text \in Texts \cup {Empty}
                           /\ r.title = Empty => i \in Posts
                           /\ i \in Posts => r.thumb \in Thumbs
    /\ r.state # "live" \/ i \notin Posts => r.images = {} /\ r.thumb = None

\* What a call holds: what it is about, and what it has uploaded.
CallOK(k) ==
    /\ k \in CallType
    /\ k.pc = "insert" => /\ k.item \in Posts /\ k.thumb \in Thumbs
                          /\ k.title \in Texts /\ k.text \in Texts \cup {Empty}
    /\ k.pc = "upsert" => k.item \in Items /\ k.changes \in Vectors
    /\ k.pc = "update" => k.item \in Items
    /\ k.pc = "delete" => k.item \in Items /\ k.ids = {k.item}
    /\ k.pc \in Preparing =>
         \/ k.item \in Posts
         \/ /\ k.pc = "write" /\ k.item \in Items
            /\ k.thumb = None /\ ~k.adds /\ k.seen.images = {} /\ k.title # Empty
    /\ k.pc \in Preparing /\ ~k.adds => k.add = {} /\ k.pc # "upload"
    /\ k.add # {} => k.pc \in {"insert", "video", "write"}
    /\ k.thumb # None => k.pc \in Preparing \cup {"insert"}

SyncOK ==
    /\ sync \in Sync
    /\ sync.items \subseteq sync.coll
    /\ \A i \in Items : Syncing(i) => row[i].state # "none"

HistoryOK ==
    /\ stale \subseteq Items /\ forgotten \subseteq Items
    /\ torn \subseteq Posts /\ leaked \subseteq Files

TypeInv ==
    /\ row \in [Items -> Row] /\ \A i \in Items : RowOK(i, row[i])
    /\ point \in [Items -> Vectors \cup {NoPoint}]
    /\ SyncOK
    /\ HistoryOK
    /\ users \subseteq Users
    /\ object \in [Files \cup Thumbs -> {"new", "stored", "deleted"}]
    /\ call \in [Calls -> CallType] /\ \A c \in Calls : CallOK(call[c])

LEMMA TypeSuffices == TypeInv => TypeOK
  BY ContentAssumption, VectorAssumption
  DEF TypeInv, TypeOK, RowOK, CallOK, SyncOK, HistoryOK, Row, CallType, HasRow, VectorsOf,
      Vectors, Preparing, Items

LEMMA IdleOK == CallOK(Idle) /\ Idle.pc = "idle" /\ Idle.item = None /\ Idle.seen = NoRow
                /\ Idle.thumb = None /\ Idle.add = {} /\ Idle.changes = NoChange
  BY DEF CallOK, Idle, CallType, NoRow, Row, Changes, NoChange, NoPoint, Preparing

LEMMA NoRowOK == \A i \in Items : RowOK(i, NoRow) /\ RowOK(i, Deleted)
  BY DEF RowOK, NoRow, Deleted, Row

LEMMA NoSyncOK == NoSync \in Sync /\ NoSync.pc = "idle" /\ NoSync.items = {} /\ NoSync.coll = {}
  BY DEF NoSync, Sync

LEMMA TypeInitial == Init => TypeInv
  BY IdleOK, NoRowOK, NoSyncOK
  DEF Init, TypeInv, SyncOK, HistoryOK, RowOK, CallOK, Syncing

\* A call goes on, or ends.
LEMMA CallChanges ==
  ASSUME TypeInv, NEW c \in Calls, NEW k, CallOK(k), call' = [call EXCEPT ![c] = k]
  PROVE  call' \in [Calls -> CallType] /\ \A d \in Calls : CallOK(call'[d])
  BY DEF TypeInv, CallOK

\* Rows of the table are written.
LEMMA Touching ==
  ASSUME SyncOK, NEW S, Touch(S), \A i \in Items : row[i].state # "none" => row'[i].state # "none"
  PROVE  SyncOK'
<1>1. sync' = [sync EXCEPT !.touched = sync.touched \cup (S \cap sync.items)]
  BY DEF Touch
<1>2. sync' \in Sync /\ sync'.pc = sync.pc /\ sync'.items = sync.items /\ sync'.coll = sync.coll
  BY <1>1 DEF SyncOK, Sync
<1> QED BY <1>2 DEF SyncOK, Syncing

\* What is left undone by calls that end is about posts and their images.
LEMMA Abandoning ==
  ASSUME TypeInv, NEW S \in SUBSET Calls
  PROVE  /\ Abandon(S) => /\ call' \in [Calls -> CallType] /\ \A d \in Calls : CallOK(call'[d])
                          /\ torn' \subseteq Posts /\ leaked' \subseteq Files
         /\ LeftStale(S) \subseteq Items /\ LeftPoints(S) \subseteq Items
<1> USE DEF TypeInv
<1>1. Abandon(S) => /\ call' \in [Calls -> CallType] /\ \A d \in Calls : CallOK(call'[d])
  BY IdleOK DEF Abandon, CallOK
<1>2. \A d \in Calls : ThumbGone(call[d]) => call[d].item \in Posts
  BY DEF ThumbGone, NewThumb, CallOK
<1>3. Abandon(S) => torn' \subseteq Posts
  BY <1>2 DEF Abandon, HistoryOK
<1>4. \A d \in Calls : call[d].add \subseteq Files /\ call[d].seen.images \subseteq Files
                       /\ call[d].ids \subseteq Items
  BY DEF CallType, Row
<1>5. Abandon(S) => leaked' \subseteq Files
  BY <1>4 DEF Abandon, HistoryOK
<1>6. \A d \in Calls : ImagesGone(call[d]) => call[d].item \in Items
  BY DEF ImagesGone, CallOK, Items
<1>7. LeftStale(S) \subseteq Items
  BY <1>6 DEF LeftStale, CallOK
<1>8. LeftPoints(S) \subseteq Items
  BY <1>4 DEF LeftPoints
<1> QED BY <1>1, <1>3, <1>5, <1>7, <1>8

\* A change of some vectors.
LEMMA Changing ==
  ASSUME NEW v \in Vectors, NEW k \in Changes,
         NEW F \in {Written(k), Dropped(k)}
  PROVE  Change(v, k, F) \in Vectors
  BY VectorAssumption DEF Change, Vectors, Changes, Written, Dropped, Field

LEMMA Pruning ==
  ASSUME NEW k \in Changes, NEW F
  PROVE  Without(k, F) \in Changes
  BY DEF Without, Changes, Field

LEMMA Putting ==
  ASSUME TypeInv, NEW S, NEW state \in {"new", "stored", "deleted"}
  PROVE  Put(object, S, state) \in [Files \cup Thumbs -> {"new", "stored", "deleted"}]
  BY DEF TypeInv, Put

LEMMA Frame == TypeInv /\ UNCHANGED vars => TypeInv'
  BY DEF TypeInv, SyncOK, HistoryOK, Syncing, vars

\* A step of one call that leaves the tables alone.
LEMMA CallGoesOn ==
  ASSUME TypeInv, NEW c \in Calls, NEW k, CallOK(k), call' = [call EXCEPT ![c] = k],
         object' \in [Files \cup Thumbs -> {"new", "stored", "deleted"}],
         UNCHANGED <<row, point, sync, users>>, HistoryOK'
  PROVE  TypeInv'
  BY CallChanges DEF TypeInv, SyncOK, Syncing

\* A step of one call that writes a row.
LEMMA CallWrites ==
  ASSUME TypeInv, NEW c \in Calls, NEW k, CallOK(k), call' = [call EXCEPT ![c] = k],
         NEW i \in Items, NEW r, RowOK(i, r), r.state # "none", row' = [row EXCEPT ![i] = r],
         object' \in [Files \cup Thumbs -> {"new", "stored", "deleted"}],
         UNCHANGED <<point, users>>, SyncOK', HistoryOK'
  PROVE  TypeInv'
  BY CallChanges DEF TypeInv, RowOK

\* A step of one call that changes points.
LEMMA CallChangesPoints ==
  ASSUME TypeInv, NEW c \in Calls, NEW k, CallOK(k), call' = [call EXCEPT ![c] = k],
         point' \in [Items -> Vectors \cup {NoPoint}],
         UNCHANGED <<row, sync, stale, forgotten, users, object, torn, leaked>>
  PROVE  TypeInv'
  BY CallChanges DEF TypeInv, SyncOK, Syncing, HistoryOK

LEMMA AfterSteps ==
  ASSUME NEW k
  PROVE  /\ AfterVideo(k) = "write"
         /\ AfterUpload(k) \in {"video", "write"}
         /\ AfterImages(k) \in {"upload", "video", "write"}
         /\ AfterThumb(k) \in {"images", "upload", "video", "write"}
         /\ AfterRead(k) \in Preparing
         /\ ~k.adds => "upload" \notin {AfterRead(k), AfterThumb(k), AfterImages(k)}
  BY DEF AfterVideo, AfterUpload, AfterImages, AfterThumb, AfterRead, Preparing

\* An updatePost goes on.
LEMMA PreparingOK ==
  ASSUME NEW k \in CallType, k.item \in Posts, NEW pc \in Preparing, NEW add \in SUBSET Files,
         ~k.adds => add = {} /\ pc # "upload", add # {} => pc \in {"video", "write"}
  PROVE  CallOK(Going(pc, [k EXCEPT !.add = add]))
  BY DEF CallOK, Going, CallType, Preparing, Items

LEMMA UpsertOK ==
  ASSUME NEW i \in Items, NEW v \in Vectors
  PROVE  CallOK([Idle EXCEPT !.pc = "upsert", !.item = i, !.changes = v])
<1> DEFINE k == [Idle EXCEPT !.pc = "upsert", !.item = i, !.changes = v]
<1>1. v \in Changes
  BY DEF Vectors, Changes
<1>2. k \in CallType /\ k.pc = "upsert" /\ k.item = i /\ k.changes = v /\ k.add = {} /\ k.thumb = None
  BY <1>1, IdleOK DEF CallOK, CallType
<1> HIDE DEF k
<1> QED BY <1>2 DEF CallOK, Preparing, k

LEMMA EmbeddingOK ==
  ASSUME NEW i \in Items, NEW v \in Changes
  PROVE  CallOK(Embedding(i, v))
<1> DEFINE k == [Idle EXCEPT !.pc = "update", !.item = i, !.changes = v]
<1>1. k \in CallType /\ k.pc = "update" /\ k.item = i /\ k.add = {} /\ k.thumb = None
  BY IdleOK DEF CallOK, CallType
<1>2. Embedding(i, v) \in {Idle, k}
  BY DEF Embedding
<1> HIDE DEF k
<1>3. CallOK(k)
  BY <1>1 DEF CallOK, Preparing
<1> QED BY <1>2, <1>3, IdleOK

LEMMA TypeCreatePost ==
  ASSUME TypeInv, NEW c \in Calls, NEW p \in Posts, NEW e \in Edits, CreatePost(c, p, e)
  PROVE  TypeInv'
<1>1. PICK add \in FreshImages(e.add), t \in FreshThumbs :
         /\ object' = Put(object, add \cup {t}, "stored")
         /\ call' = [call EXCEPT ![c] =
                       [Idle EXCEPT !.pc = "insert", !.item = p, !.title = e.title,
                                    !.text = e.text, !.thumb = t, !.add = add,
                                    !.video = e.video]]
  BY DEF CreatePost
<1>2. add \in SUBSET Files /\ t \in Thumbs
  BY <1>1 DEF FreshImages, FreshThumbs
<1>3. e \in Edit /\ e.title \in Texts /\ e.text \in Texts \cup {Empty}
  BY ContentAssumption DEF CreatePost, Edit
<1> DEFINE k == [Idle EXCEPT !.pc = "insert", !.item = p, !.title = e.title,
                             !.text = e.text, !.thumb = t, !.add = add, !.video = e.video]
<1>4. /\ k \in CallType
      /\ k.pc = "insert" /\ k.item \in Posts /\ k.title \in Texts /\ k.text \in Texts \cup {Empty}
      /\ k.thumb \in Thumbs
  BY <1>2, <1>3, IdleOK DEF CallOK, CallType, Edit, Items
<1>5. call' = [call EXCEPT ![c] = k]
  BY <1>1
<1> HIDE DEF k
<1>6. CallOK(k)
  BY <1>4 DEF CallOK, Preparing
<1> QED BY <1>1, <1>5, <1>6, CallGoesOn, Putting DEF CreatePost, HistoryOK, TypeInv

LEMMA TypeInsertPost ==
  ASSUME TypeInv, NEW c \in Calls, InsertPost(c)
  PROVE  TypeInv'
<1> DEFINE k == call[c]
           r == [state |-> "live", title |-> k.title, text |-> k.text, images |-> k.add,
                 thumb |-> k.thumb, videos |-> {k.video} \ {None}]
           n == [Idle EXCEPT !.pc = "upsert", !.item = k.item, !.changes = VectorsOf(r)]
<1>1. k \in CallType /\ CallOK(k) /\ k.pc = "insert"
  BY DEF TypeInv, InsertPost
<1>2. k.item \in Items /\ RowOK(k.item, r) /\ VectorsOf(r) \in Vectors /\ r.state # "none"
  BY <1>1 DEF CallOK, CallType, RowOK, Row, VectorsOf, Vectors, Items
<1>3. CallOK(n)
  BY <1>2, UpsertOK
<1>4. SyncOK'
  BY <1>2 DEF InsertPost, TypeInv, SyncOK, Syncing
<1>5. row' = [row EXCEPT ![k.item] = r] /\ call' = [call EXCEPT ![c] = n]
  BY DEF InsertPost
<1> HIDE DEF r, n
<1> QED BY <1>2, <1>3, <1>4, <1>5, CallWrites DEF InsertPost, HistoryOK, TypeInv

LEMMA TypeUpdatePost ==
  ASSUME TypeInv, NEW c \in Calls, NEW p \in Posts, NEW e \in Edits, UpdatePost(c, p, e)
  PROVE  TypeInv'
<1>1. PICK t \in CASE e.thumb = "none" -> {None} [] e.thumb = "same" -> {row[p].thumb}
                   [] OTHER -> FreshThumbs :
         LET k == [Idle EXCEPT !.item = p, !.seen = row[p], !.title = e.title,
                               !.text = e.text, !.thumb = t, !.keep = e.keep,
                               !.adds = e.add, !.video = e.video]
         IN /\ call' = [call EXCEPT ![c] = Going(AfterRead(k), k)]
            /\ object' = IF e.thumb = "new" THEN Put(object, {t}, "stored") ELSE object
  BY DEF UpdatePost
<1> DEFINE k == [Idle EXCEPT !.item = p, !.seen = row[p], !.title = e.title,
                             !.text = e.text, !.thumb = t, !.keep = e.keep,
                             !.adds = e.add, !.video = e.video]
<1>2. t \in Thumbs \cup {None} /\ row[p] \in Row /\ p \in Items
  BY <1>1 DEF FreshThumbs, TypeInv, Row, Items
<1>3. e \in Edit
  BY ContentAssumption
<1>4. k \in CallType /\ k.item \in Posts /\ k.add = {}
  BY <1>2, <1>3, IdleOK DEF CallOK, CallType, Idle, Edit
<1>5. CallOK(Going(AfterRead(k), [k EXCEPT !.add = {}]))
  BY <1>4, AfterSteps, PreparingOK
<1>6. [k EXCEPT !.add = {}] = k
  BY <1>4 DEF CallType
<1>7. call' = [call EXCEPT ![c] = Going(AfterRead(k), k)]
  BY <1>1
<1>8. object' \in [Files \cup Thumbs -> {"new", "stored", "deleted"}]
  BY <1>1, Putting DEF TypeInv
<1> HIDE DEF k
<1> QED BY <1>5, <1>6, <1>7, <1>8, CallGoesOn DEF UpdatePost, HistoryOK, TypeInv

\* A step of an updatePost that may change objects, and begins the next.
LEMMA TypePreparing ==
  ASSUME TypeInv, NEW c \in Calls,
         DeleteThumbnail(c) \/ UploadImages(c)
  PROVE  TypeInv'
<1> DEFINE k == call[c]
<1>1. k \in CallType /\ CallOK(k)
  BY DEF TypeInv
<1>2. CASE DeleteThumbnail(c)
  <2>1. k.pc = "thumbnail" /\ k.item \in Posts /\ k.add = {}
    BY <1>1, <1>2 DEF DeleteThumbnail, CallOK, Preparing
  <2>2. CallOK(Going(AfterThumb(k), [k EXCEPT !.add = {}])) /\ k = [k EXCEPT !.add = {}]
    BY <1>1, <2>1, AfterSteps, PreparingOK DEF CallType, Preparing
  <2> QED BY <1>2, <2>2, CallGoesOn, Putting DEF DeleteThumbnail, HistoryOK, TypeInv
<1>3. CASE UploadImages(c)
  <2>1. k.pc = "upload" /\ k.item \in Posts
    BY <1>1, <1>3 DEF UploadImages, CallOK, Preparing
  <2>2. PICK add \in FreshImages(TRUE) :
            /\ object' = Put(object, add, "stored")
            /\ call' = [call EXCEPT ![c] = Going(AfterUpload(k), [k EXCEPT !.add = add])]
    BY <1>3 DEF UploadImages
  <2>3. add \in SUBSET Files
    BY DEF FreshImages
  <2>4. k.adds /\ [k EXCEPT !.add = add] \in CallType
    BY <1>1, <1>3, <2>3 DEF UploadImages, CallOK, CallType, Preparing
  <2>5. CallOK(Going(AfterUpload(k), [k EXCEPT !.add = add]))
    BY <1>1, <2>1, <2>3, <2>4, AfterSteps, PreparingOK DEF Preparing
  <2> QED BY <1>3, <2>2, <2>5, CallGoesOn, Putting DEF UploadImages, HistoryOK, TypeInv
<1> QED BY <1>2, <1>3

LEMMA TypeDeleteImages ==
  ASSUME TypeInv, NEW c \in Calls, DeleteImages(c)
  PROVE  TypeInv'
<1> DEFINE k == call[c]
           S == Dropping(k)
<1>1. k \in CallType /\ CallOK(k) /\ k.pc = "images" /\ k.item \in Posts /\ k.item \in Items
      /\ k.add = {}
  BY DEF TypeInv, DeleteImages, CallOK, Preparing, Items
<1>2. PICK rows, objects \in BOOLEAN :
        /\ row' = IF rows /\ HasRow(k.item) THEN [row EXCEPT ![k.item].images = @ \ S] ELSE row
        /\ object' = IF objects THEN Put(object, S, "deleted") ELSE object
        /\ IF rows /\ objects
           THEN /\ call' = [call EXCEPT ![c] = Going(AfterImages(k), k)]
                /\ UNCHANGED <<stale, torn, leaked>>
           ELSE /\ call' = [call EXCEPT ![c] = Idle]
                /\ stale' = stale \cup {k.item}
                /\ torn' = IF ThumbGone(k) THEN torn \cup {k.item} ELSE torn
                /\ leaked' = leaked \cup S
  BY DEF DeleteImages
<1> DEFINE r == [row[k.item] EXCEPT !.images = @ \ S]
<1>3. row[k.item] \in Row /\ RowOK(k.item, row[k.item]) /\ S \in SUBSET Files
  BY <1>1 DEF TypeInv, Dropping, CallType, Row
<1>4. r \in Row /\ r.state = row[k.item].state /\ r.title = row[k.item].title
      /\ r.text = row[k.item].text /\ r.thumb = row[k.item].thumb
      /\ (row[k.item].images = {} => r.images = {})
  BY <1>3 DEF Row
<1>5. RowOK(k.item, r)
  BY <1>3, <1>4 DEF RowOK
<1>6. row' = row \/ row' = [row EXCEPT ![k.item] = r]
  BY <1>1, <1>2, <1>3 DEF TypeInv
<1> HIDE DEF r
<1>7. row' \in [Items -> Row] /\ \A i \in Items : RowOK(i, row'[i]) /\ row'[i].state = row[i].state
  BY <1>1, <1>4, <1>5, <1>6 DEF TypeInv
<1>8. SyncOK'
  BY <1>7, Touching DEF DeleteImages, TypeInv
<1>9. CallOK(Going(AfterImages(k), [k EXCEPT !.add = {}])) /\ k = [k EXCEPT !.add = {}]
  BY <1>1, AfterSteps, PreparingOK DEF CallType, Preparing
<1>10. call' \in [Calls -> CallType] /\ \A d \in Calls : CallOK(call'[d])
  BY <1>2, <1>9, IdleOK, CallChanges
<1>11. HistoryOK'
  BY <1>1, <1>2, <1>3 DEF DeleteImages, HistoryOK, TypeInv
<1> HIDE DEF S
<1>12. object' \in [Files \cup Thumbs -> {"new", "stored", "deleted"}]
  BY <1>2, Putting DEF TypeInv
<1> QED BY <1>7, <1>8, <1>10, <1>11, <1>12 DEF DeleteImages, TypeInv

LEMMA TypeDeleteVideo ==
  ASSUME TypeInv, NEW c \in Calls, DeleteVideo(c)
  PROVE  TypeInv'
<1> DEFINE k == call[c]
           r == [row[k.item] EXCEPT !.videos = @ \ OldVideo(k)]
<1>1. k \in CallType /\ CallOK(k) /\ k.pc = "video" /\ k.item \in Posts /\ k.item \in Items
  BY DEF TypeInv, DeleteVideo, CallOK, Preparing, Items
<1>2. RowOK(k.item, row[k.item]) /\ row[k.item].state = "live"
  BY <1>1 DEF TypeInv, DeleteVideo, HasRow
<1>3. RowOK(k.item, r) /\ r.state # "none"
  BY <1>2 DEF RowOK, Row
<1>4. row' = [row EXCEPT ![k.item] = r]
  BY <1>1 DEF DeleteVideo, TypeInv
<1> HIDE DEF r
<1>5. CASE OldVideo(k) \subseteq InBucket
  <2>1. CallOK(Going("write", [k EXCEPT !.add = k.add])) /\ k = [k EXCEPT !.add = k.add]
    BY <1>1, PreparingOK DEF CallType, Preparing, CallOK
  <2>2. call' = [call EXCEPT ![c] = Going("write", k)]
    BY <1>5 DEF DeleteVideo, AfterVideo
  <2>3. SyncOK'
    BY <1>1, <1>3, <1>4 DEF DeleteVideo, TypeInv, SyncOK, Syncing
  <2> QED BY <1>1, <1>3, <1>4, <1>5, <2>1, <2>2, <2>3, CallWrites
          DEF DeleteVideo, HistoryOK, TypeInv
<1>6. CASE ~(OldVideo(k) \subseteq InBucket)
  <2>1. Abandon({c}) /\ stale' = stale \cup LeftStale({c}) /\ UNCHANGED <<point, sync, forgotten, users, object>>
    BY <1>6 DEF DeleteVideo
  <2>2. row' \in [Items -> Row] /\ \A i \in Items : RowOK(i, row'[i])
    BY <1>1, <1>3, <1>4 DEF TypeInv, RowOK
  <2>3. SyncOK'
    BY <1>1, <1>3, <1>4, <2>1 DEF TypeInv, SyncOK, Syncing
  <2> QED BY <2>1, <2>2, <2>3, Abandoning DEF HistoryOK, TypeInv
<1> QED BY <1>5, <1>6

\* What the three services write.
LEMMA TypeWrites ==
  ASSUME TypeInv, NEW c \in Calls, NEW r, RowOK(call[c].item, r), r.state = "live",
         call[c].item \in Items, row' = [row EXCEPT ![call[c].item] = r],
         NEW changes \in Changes, call' = [call EXCEPT ![c] = Embedding(call[c].item, changes)],
         Writes(c, call[c].item), UNCHANGED <<point, forgotten, users, object, leaked>>
  PROVE  TypeInv'
<1>1. CallOK(Embedding(call[c].item, changes))
  BY EmbeddingOK
<1>2. SyncOK'
  BY Touching DEF Writes, TypeInv
<1>3. HistoryOK'
  BY DEF Writes, TypeInv, HistoryOK
<1> QED BY <1>1, <1>2, <1>3, CallWrites DEF TypeInv

LEMMA TypeWritePost ==
  ASSUME TypeInv, NEW c \in Calls, WritePost(c)
  PROVE  TypeInv'
<1> DEFINE k == call[c]
           i == k.item
           r == [row[i] EXCEPT !.title = Given(k.title, @), !.text = Given(k.text, @),
                               !.images = @ \cup k.add, !.thumb = Given(k.thumb, @),
                               !.videos = @ \cup NewVideo(k)]
           changes == [title  |-> Changed(k.title, k.seen.title),
                       text   |-> Changed(k.text, k.seen.text),
                       images |-> IF Dropping(k) # {} \/ k.adds THEN r.images ELSE None]
<1>1. k \in CallType /\ i \in Posts /\ i \in Items
  BY DEF TypeInv, WritePost, Items
<1>2. RowOK(i, row[i]) /\ row[i].state = "live"
  BY <1>1 DEF TypeInv, WritePost, HasRow
<1>3. NewVideo(k) \subseteq Videos
  BY <1>1 DEF NewVideo, CallType
<1>4. RowOK(i, r) /\ r.state = "live" /\ r.images \in SUBSET Files
  <2>1. /\ Given(k.title, row[i].title) \in Texts \cup {Empty}
        /\ Given(k.text, row[i].text) \in Texts \cup {Empty}
        /\ Given(k.thumb, row[i].thumb) \in Thumbs
        /\ row[i].images \cup k.add \in SUBSET Files
        /\ row[i].videos \cup NewVideo(k) \in SUBSET Videos
    BY <1>1, <1>2, <1>3 DEF RowOK, Row, Given, CallType
  <2> QED BY <1>1, <1>2, <2>1 DEF RowOK, Row
<1>5. row' = [row EXCEPT ![i] = r] /\ call' = [call EXCEPT ![c] = Embedding(i, changes)]
  BY DEF WritePost
<1> HIDE DEF r
<1>6. changes \in Changes
  BY <1>1, <1>4 DEF Changes, Changed, CallType
<1> HIDE DEF changes
<1> QED BY <1>1, <1>4, <1>5, <1>6, TypeWrites DEF WritePost

LEMMA TypeWriteBlog ==
  ASSUME TypeInv, NEW c \in Calls, WriteBlog(c)
  PROVE  TypeInv'
<1> DEFINE k == call[c]
           i == k.item
           r == [row[i] EXCEPT !.title = Given(k.title, @), !.text = Given(k.text, @)]
           changes == [title  |-> Changed(k.title, k.seen.title),
                       text   |-> IF k.text = k.seen.text THEN None ELSE r.text,
                       images |-> None]
<1>1. k \in CallType /\ i \in Items /\ k.title # Empty
  BY VectorAssumption DEF TypeInv, WriteBlog, Items, CallOK, Preparing
<1>2. RowOK(i, row[i]) /\ row[i].state = "live"
  BY <1>1 DEF TypeInv, WriteBlog, HasRow
<1>3. RowOK(i, r) /\ r.state = "live" /\ r.text \in Texts \cup {Empty}
  BY <1>1, <1>2 DEF RowOK, Row, Given, CallType
<1>4. row' = [row EXCEPT ![i] = r] /\ call' = [call EXCEPT ![c] = Embedding(i, changes)]
  BY DEF WriteBlog
<1> HIDE DEF r
<1>5. changes \in Changes
  BY <1>1, <1>3 DEF Changes, Changed, CallType
<1> HIDE DEF changes
<1> QED BY <1>1, <1>3, <1>4, <1>5, TypeWrites DEF WriteBlog

LEMMA TypeWriteCategory ==
  ASSUME TypeInv, NEW c \in Calls, WriteCategory(c)
  PROVE  TypeInv'
<1> DEFINE k == call[c]
           i == k.item
           r == [row[i] EXCEPT !.title = Given(k.title, @), !.text = Given(k.text, @)]
           changes == [title  |-> Changed(k.title, k.seen.title),
                       text   |-> Changed(k.text, k.seen.text),
                       images |-> None]
<1>1. k \in CallType /\ i \in Items /\ k.title # Empty
  BY VectorAssumption DEF TypeInv, WriteCategory, Items, CallOK, Preparing
<1>2. RowOK(i, row[i]) /\ row[i].state = "live"
  BY <1>1 DEF TypeInv, WriteCategory, HasRow
<1>3. RowOK(i, r) /\ r.state = "live"
  BY <1>1, <1>2 DEF RowOK, Row, Given, CallType
<1>4. row' = [row EXCEPT ![i] = r] /\ call' = [call EXCEPT ![c] = Embedding(i, changes)]
  BY DEF WriteCategory
<1> HIDE DEF r
<1>5. changes \in Changes
  BY <1>1, <1>3 DEF Changes, Changed, CallType
<1> HIDE DEF changes
<1> QED BY <1>1, <1>3, <1>4, <1>5, TypeWrites DEF WriteCategory

\* A call reads an item, to write or to delete it.
LEMMA ReadingOK ==
  ASSUME TypeInv, NEW i \in Items
  PROVE  /\ CallOK([Idle EXCEPT !.pc = "delete", !.ids = {i}, !.item = i, !.seen = row[i]])
         /\ CallOK([Idle EXCEPT !.pc = "delete", !.item = i, !.ids = {i}])
         /\ \A e \in Edits : i \notin Posts /\ e.title # Empty =>
              CallOK([Idle EXCEPT !.pc = "write", !.item = i, !.seen = row[i],
                                  !.title = e.title, !.text = e.text])
<1> DEFINE k == [Idle EXCEPT !.pc = "delete", !.ids = {i}, !.item = i, !.seen = row[i]]
           l == [Idle EXCEPT !.pc = "delete", !.item = i, !.ids = {i}]
<1>1. row[i] \in Row /\ RowOK(i, row[i])
  BY DEF TypeInv
<1>2. k \in CallType /\ k.pc = "delete" /\ k.item = i /\ k.ids = {i} /\ k.add = {} /\ k.thumb = None
  BY <1>1, IdleOK DEF CallOK, CallType
<1>3. l \in CallType /\ l.pc = "delete" /\ l.item = i /\ l.ids = {i} /\ l.add = {} /\ l.thumb = None
  BY IdleOK DEF CallOK, CallType
<1>4. ASSUME NEW e \in Edits, e.title # Empty, i \notin Posts
      PROVE  CallOK([Idle EXCEPT !.pc = "write", !.item = i, !.seen = row[i],
                                 !.title = e.title, !.text = e.text])
  <2> DEFINE w == [Idle EXCEPT !.pc = "write", !.item = i, !.seen = row[i],
                               !.title = e.title, !.text = e.text]
  <2>1. e \in Edit /\ Idle \in CallType
    BY IdleOK, ContentAssumption DEF CallOK
  <2>2. w \in CallType
    BY <1>1, <2>1 DEF CallType, Edit
  <2>3. /\ w.pc = "write" /\ w.item = i /\ w.add = {} /\ w.thumb = None /\ ~w.adds
        /\ w.seen = row[i] /\ w.title # Empty
    BY <1>4, <2>1 DEF CallType, Idle
  <2>4. row[i].images = {}
    BY <1>1, <1>4 DEF RowOK
  <2> HIDE DEF w
  <2>5. CallOK(w)
    BY <2>2, <2>3, <2>4 DEF CallOK, Preparing
  <2> QED BY <2>5 DEF w
<1> HIDE DEF k, l
<1>5. CallOK(k) /\ CallOK(l)
  BY <1>2, <1>3 DEF CallOK, Preparing
<1> QED BY <1>4, <1>5 DEF k, l

LEMMA TypeReads ==
  ASSUME TypeInv, NEW c \in Calls,
         \/ \E p \in Posts : DeletePost(c, p)
         \/ \E b \in Blogs, e \in Edits : UpdateBlog(c, b, e)
         \/ \E g \in Categories, e \in Edits : UpdateCategory(c, g, e)
         \/ \E g \in Categories : RemoveCategory(c, g)
  PROVE  TypeInv'
<1>1. PICK k : CallOK(k) /\ call' = [call EXCEPT ![c] = k]
  BY ReadingOK, VectorAssumption DEF DeletePost, UpdateBlog, UpdateCategory, RemoveCategory, Items
<1> QED BY <1>1, CallGoesOn
        DEF DeletePost, UpdateBlog, UpdateCategory, RemoveCategory, TypeInv, HistoryOK, indexVars

\* Rows are deleted, and what hangs on them is left to a call, or to nobody.
LEMMA DeletingRows ==
  ASSUME TypeInv, NEW S \in SUBSET Items, \A i \in S : HasRow(i), NEW kept, DeleteRows(S, kept)
  PROVE  /\ row' \in [Items -> Row] /\ \A i \in Items : RowOK(i, row'[i])
         /\ SyncOK'
         /\ forgotten' \subseteq Items
<1>1. row' \in [Items -> Row] /\ \A i \in Items : RowOK(i, row'[i])
  BY NoRowOK DEF DeleteRows, TypeInv, RowOK
<1>2. \A i \in Items : row[i].state # "none" => row'[i].state # "none"
  BY DEF DeleteRows, Deleted, NoRow
<1>3. SyncOK'
  BY <1>2, Touching DEF DeleteRows, TypeInv
<1>4. forgotten' \subseteq Items
  BY DEF DeleteRows, TypeInv, HistoryOK
<1> QED BY <1>1, <1>3, <1>4

LEMMA TypeDeletes ==
  ASSUME TypeInv, NEW c \in Calls,
         \/ FinishDeletePost(c) \/ FinishRemoveCategory(c)
         \/ \E S \in (SUBSET Blogs) \ {{}} : DeleteBlogs(c, S)
  PROVE  TypeInv'
<1>1. ASSUME NEW S \in SUBSET Items, \A i \in S : HasRow(i), NEW kept, DeleteRows(S, kept),
             NEW k, CallOK(k), call' = [call EXCEPT ![c] = k],
             UNCHANGED <<point, stale, users, object, torn>>, leaked' \subseteq Files
      PROVE  TypeInv'
  BY <1>1, DeletingRows, CallChanges DEF TypeInv, HistoryOK
<1>2. ASSUME NEW k \in CallType, CallOK(k), k.pc = "delete", NEW pc \in {"points", "files"}
      PROVE  CallOK(Going(pc, k))
  <2>1. k.add = {} /\ k.thumb = None
    BY <1>2 DEF CallOK, Preparing
  <2> DEFINE n == [k EXCEPT !.pc = pc]
  <2>2. n \in CallType /\ n.pc = pc /\ n.add = k.add /\ n.thumb = k.thumb
    BY DEF CallType
  <2> HIDE DEF n
  <2>3. CallOK(n)
    BY <2>1, <2>2 DEF CallOK, Preparing
  <2> QED BY <2>3 DEF n, Going
<1>3. call[c] \in CallType /\ CallOK(call[c])
  BY DEF TypeInv
<1>4. CASE FinishDeletePost(c)
  <2>1. leaked' \subseteq Files
    BY <1>4 DEF FinishDeletePost, TypeInv, HistoryOK, Images, Row, Items
  <2>2. call[c].item \in Items
    BY <1>4 DEF FinishDeletePost, Items
  <2> QED BY <1>1, <1>2, <1>3, <1>4, <2>1, <2>2 DEF FinishDeletePost
<1>5. CASE FinishRemoveCategory(c)
  <2>1. leaked' \subseteq Files /\ call[c].item \in Items
    BY <1>5 DEF FinishRemoveCategory, TypeInv, HistoryOK, Items
  <2> QED BY <1>1, <1>2, <1>3, <1>5, <2>1 DEF FinishRemoveCategory
<1>6. CASE \E S \in (SUBSET Blogs) \ {{}} : DeleteBlogs(c, S)
  <2>1. PICK S \in SUBSET Blogs : DeleteBlogs(c, S)
    BY <1>6
  <2> DEFINE live == {b \in S : HasRow(b)}
             k == [Idle EXCEPT !.pc = "points", !.ids = S]
  <2>2. live \in SUBSET Items /\ S \in SUBSET Items
    BY DEF Items
  <2>3. k \in CallType /\ k.pc = "points" /\ k.add = {} /\ k.thumb = None
    BY <2>2, IdleOK DEF CallOK, CallType
  <2>4. leaked' \subseteq Files /\ DeleteRows(live, live) /\ call' = [call EXCEPT ![c] = k]
        /\ UNCHANGED <<point, stale, users, object, torn>>
    BY <2>1 DEF DeleteBlogs, TypeInv, HistoryOK
  <2> HIDE DEF k
  <2>5. CallOK(k)
    BY <2>3 DEF CallOK, Preparing
  <2> QED BY <1>1, <2>2, <2>4, <2>5
<1> QED BY <1>4, <1>5, <1>6

LEMMA TypeDeleteFiles ==
  ASSUME TypeInv, NEW c \in Calls, DeleteFiles(c)
  PROVE  TypeInv'
<1> DEFINE k == [call[c] EXCEPT !.pc = "points"]
<1>1. call[c] \in CallType /\ CallOK(call[c]) /\ call[c].pc = "files"
  BY DEF TypeInv, DeleteFiles
<1>2. k \in CallType /\ k.pc = "points" /\ k.add = {} /\ k.thumb = None
  BY <1>1 DEF CallType, CallOK, Preparing
<1>3. call' = [call EXCEPT ![c] = k]
  BY DEF DeleteFiles, Going
<1> HIDE DEF k
<1>4. CallOK(k)
  BY <1>2 DEF CallOK, Preparing
<1> QED BY <1>3, <1>4, CallGoesOn, Putting DEF DeleteFiles, TypeInv, HistoryOK, indexVars

\* Administrators, and the deletion of an account.
LEMMA TypeAdmin ==
  ASSUME TypeInv,
         \/ \E p \in Posts, e \in Edits : UpdatePostByAdmin(p, e)
         \/ \E S \in (SUBSET Posts) \ {{}} : BulkDeletePosts(S)
         \/ \E u \in Users : DeleteUser(u)
  PROVE  TypeInv'
<1>1. CASE \E p \in Posts, e \in Edits : UpdatePostByAdmin(p, e)
  <2>1. PICK p \in Posts, e \in Edits : UpdatePostByAdmin(p, e)
    BY <1>1
  <2>2. PICK t \in IF e.thumb = "new" THEN FreshThumbs ELSE {None} :
         /\ row' = [row EXCEPT ![p] =
                      [row[p] EXCEPT !.title = NotEmpty(e.title, @),
                                     !.text  = NotEmpty(e.text, @),
                                     !.thumb = Given(t, @)]]
         /\ object' = IF t = None THEN object ELSE Put(object, {t}, "stored")
    BY <2>1 DEF UpdatePostByAdmin
  <2>3. e \in Edit /\ t \in Thumbs \cup {None} /\ p \in Items
    BY ContentAssumption DEF FreshThumbs, Items
  <2> DEFINE x == NotEmpty(e.title, row[p].title)
             y == NotEmpty(e.text, row[p].text)
             z == Given(t, row[p].thumb)
             r == [row[p] EXCEPT !.title = x, !.text = y, !.thumb = z]
  <2>4. RowOK(p, row[p]) /\ row[p].state = "live"
    BY <2>1, <2>3 DEF UpdatePostByAdmin, TypeInv, HasRow
  <2>5. /\ x \in Texts \cup {Empty} /\ y \in Texts \cup {Empty} /\ z \in Thumbs
    BY <2>3, <2>4 DEF RowOK, Edit, Given, NotEmpty
  <2>6. row' = [row EXCEPT ![p] = r]
    BY <2>2
  <2> HIDE DEF x, y, z
  <2>7. RowOK(p, r) /\ r.state = "live"
    BY <2>4, <2>5 DEF RowOK, Row
  <2> HIDE DEF r
  <2>8. row' \in [Items -> Row] /\ \A i \in Items : RowOK(i, row'[i])
    BY <2>3, <2>6, <2>7 DEF TypeInv, RowOK
  <2>9. \A i \in Items : row[i].state # "none" => row'[i].state # "none"
    BY <2>3, <2>6, <2>7 DEF TypeInv
  <2>10. SyncOK'
    BY <2>1, <2>9, Touching DEF UpdatePostByAdmin, TypeInv
  <2>11. HistoryOK'
    BY <2>1, <2>3 DEF UpdatePostByAdmin, TypeInv, HistoryOK
  <2>12. object' \in [Files \cup Thumbs -> {"new", "stored", "deleted"}]
    BY <2>2, Putting DEF TypeInv
  <2> QED BY <2>1, <2>8, <2>10, <2>11, <2>12 DEF UpdatePostByAdmin, TypeInv
<1>2. ASSUME NEW S \in SUBSET Items, \A i \in S : HasRow(i), DeleteRows(S, {}), users' \subseteq Users,
             leaked' = leaked \cup UNION {Images(i) : i \in S},
             UNCHANGED <<point, stale, object, call, torn>>
      PROVE  TypeInv'
  <2>1. leaked' \subseteq Files
    BY <1>2 DEF TypeInv, HistoryOK, Images, Row
  <2> QED BY <1>2, <2>1, DeletingRows DEF TypeInv, HistoryOK
<1>3. CASE \E S \in (SUBSET Posts) \ {{}} : BulkDeletePosts(S)
  BY <1>2, <1>3 DEF BulkDeletePosts, TypeInv, Items
<1>4. CASE \E u \in Users : DeleteUser(u)
  <2>1. PICK u \in Users : DeleteUser(u)
    BY <1>4
  <2> DEFINE S == {i \in Posts \cup Blogs : Author[i] = u /\ HasRow(i)}
  <2>2. S \in SUBSET Items /\ \A i \in S : HasRow(i)
    BY DEF Items
  <2>3. DeleteRows(S, {}) /\ users' \subseteq Users /\ leaked' = leaked \cup UNION {Images(i) : i \in S}
        /\ UNCHANGED <<point, stale, object, call, torn>>
    BY <2>1 DEF DeleteUser, TypeInv
  <2> HIDE DEF S
  <2> QED BY <1>2, <2>2, <2>3
<1> QED BY <1>1, <1>3, <1>4

LEMMA TypeCreates ==
  ASSUME TypeInv, NEW c \in Calls, NEW e \in Edits,
         \/ \E b \in Blogs : CreateBlog(c, b, e)
         \/ \E g \in Categories : CreateCategory(c, g, e)
  PROVE  TypeInv'
<1> DEFINE r == [NoRow EXCEPT !.state = "live", !.title = e.title, !.text = e.text]
<1>1. PICK i \in Blogs \cup Categories :
        /\ row[i].state = "none" /\ e.title \in Texts /\ e.text \in Texts
        /\ row' = [row EXCEPT ![i] = r]
        /\ call' = [call EXCEPT ![c] = [Idle EXCEPT !.pc = "upsert", !.item = i,
                                                    !.changes = VectorsOf(row'[i])]]
        /\ UNCHANGED <<point, sync, stale, forgotten, users, object, torn, leaked>>
  BY DEF CreateBlog, CreateCategory
<1>2. i \in Items /\ i \notin Posts /\ e \in Edit
  BY ContentAssumption, VectorAssumption DEF Items
<1>3. RowOK(i, r) /\ r.state = "live" /\ VectorsOf(r) \in Vectors
  BY <1>1, <1>2, VectorAssumption DEF RowOK, Row, NoRow, Edit, VectorsOf, Vectors
<1> HIDE DEF r
<1>4. row'[i] = r
  BY <1>1, <1>2 DEF TypeInv
<1>5. CallOK([Idle EXCEPT !.pc = "upsert", !.item = i, !.changes = VectorsOf(row'[i])])
  BY <1>2, <1>3, <1>4, UpsertOK
<1>6. SyncOK'
  BY <1>1, <1>2, <1>3 DEF TypeInv, SyncOK, Syncing
<1> QED BY <1>1, <1>2, <1>3, <1>5, <1>6, CallWrites DEF TypeInv, HistoryOK

LEMMA TypeBackground ==
  ASSUME TypeInv, NEW c \in Calls,
         UpsertEmbedding(c) \/ WriteVectors(c) \/ DropVectors(c) \/ DeleteThePoints(c)
  PROVE  TypeInv'
<1> DEFINE k == call[c]
<1>1. k \in CallType /\ CallOK(k) /\ k.changes \in Changes
  BY DEF TypeInv, CallType
<1>2. CASE UpsertEmbedding(c)
  BY <1>1, <1>2, IdleOK, CallChangesPoints DEF UpsertEmbedding, Upsert, CallOK, TypeInv
<1>3. CASE WriteVectors(c)
  <2>1. k.item \in Items /\ point[k.item] \in Vectors
    BY <1>1, <1>3 DEF WriteVectors, CanUpdateVectors, CallOK, TypeInv
  <2>2. Change(point[k.item], k.changes, Written(k.changes)) \in Vectors
    BY <1>1, <2>1, Changing
  <2>3. point' \in [Items -> Vectors \cup {NoPoint}]
    BY <1>3, <2>1, <2>2 DEF WriteVectors, UpdateVectors, TypeInv
  <2>4. CallOK(Embedding(k.item, Without(k.changes, Written(k.changes))))
    BY <1>1, <2>1, Pruning, EmbeddingOK
  <2>5. call' = [call EXCEPT ![c] = Embedding(k.item, Without(k.changes, Written(k.changes)))]
    BY <1>3 DEF WriteVectors, Remaining, TypeInv
  <2> QED BY <1>3, <2>3, <2>4, <2>5, CallChangesPoints DEF WriteVectors
<1>4. CASE DropVectors(c)
  <2>1. k.item \in Items
    BY <1>1, <1>4 DEF DropVectors, CallOK
  <2>2. point[k.item] \in Vectors
          => Change(point[k.item], k.changes, Dropped(k.changes)) \in Vectors
    BY <1>1, Changing
  <2>3. point' \in [Items -> Vectors \cup {NoPoint}]
    BY <1>4, <2>1, <2>2 DEF DropVectors, DeleteVectors, TypeInv
  <2>4. CallOK(Embedding(k.item, Without(k.changes, Dropped(k.changes))))
    BY <1>1, <2>1, Pruning, EmbeddingOK
  <2>5. call' = [call EXCEPT ![c] = Embedding(k.item, Without(k.changes, Dropped(k.changes)))]
    BY <1>4 DEF DropVectors, Remaining, TypeInv
  <2> QED BY <1>4, <2>3, <2>4, <2>5, CallChangesPoints DEF DropVectors
<1>5. CASE DeleteThePoints(c)
  BY <1>5, IdleOK, CallChangesPoints DEF DeleteThePoints, DeletePoints, TypeInv
<1> QED BY <1>2, <1>3, <1>4, <1>5

LEMMA TypeEnds ==
  ASSUME TypeInv, (\E c \in Calls : CallFails(c)) \/ Crash
  PROVE  TypeInv'
<1>1. CASE Crash
  <2>1. Unsynced \subseteq Items /\ SyncOK'
    BY <1>1, NoSyncOK DEF Unsynced, TypeInv, SyncOK, Syncing, Sync, Crash
  <2> QED BY <1>1, <2>1, Abandoning DEF Crash, TypeInv, HistoryOK
<1>2. ASSUME NEW c \in Calls, CallFails(c)
      PROVE  TypeInv'
  <2>1. SyncOK'
    BY <1>2 DEF CallFails, TypeInv, SyncOK, Syncing
  <2> QED BY <1>2, <2>1, Abandoning DEF CallFails, TypeInv, HistoryOK
<1> QED BY <1>1, <1>2

LEMMA TypeSync ==
  ASSUME TypeInv, (\E K \in Collections : SyncEmbeddings(K)) \/ SyncGoesOn
  PROVE  TypeInv'
<1>1. CASE \E K \in Collections : SyncEmbeddings(K)
  <2>1. PICK K \in Collections : SyncEmbeddings(K)
    BY <1>1
  <2>2. K \subseteq Items
    BY DEF Collections, Items
  <2>3. SyncOK'
    BY <2>1, <2>2, NoSyncOK DEF SyncEmbeddings, StartSync, SyncOK, NoSync, Sync, Syncing
  <2>4. point' \in [Items -> Vectors \cup {NoPoint}]
    BY <2>1 DEF SyncEmbeddings, StartSync, DeletePoints, TypeInv
  <2> QED BY <2>1, <2>3, <2>4 DEF SyncEmbeddings, StartSync, TypeInv, HistoryOK
<1>2. CASE FetchItems /\ UNCHANGED <<users, object, call, torn, leaked>>
  <2> DEFINE S == {i \in sync.coll : HasRow(i)}
  <2>1. S \subseteq Items /\ S \subseteq sync.coll /\ \A i \in S : VectorsOf(row[i]) \in Vectors
    BY DEF TypeInv, SyncOK, Sync, HasRow, RowOK, Row, VectorsOf, Vectors
  <2>2. [i \in Items |-> IF i \in S THEN VectorsOf(row[i]) ELSE NoPoint]
          \in [Items -> Vectors \cup {NoPoint}]
    BY <2>1
  <2>3. SyncOK'
    BY <1>2, <2>1, <2>2, NoSyncOK DEF FetchItems, TypeInv, SyncOK, Sync, Syncing, HasRow
  <2> QED BY <1>2, <2>3 DEF FetchItems, TypeInv, HistoryOK
<1>3. ASSUME NEW S \in SUBSET sync.items, UpsertItems(S, Busy),
             UNCHANGED <<users, object, call, torn, leaked>>
      PROVE  TypeInv'
  <2>1. SyncOK' /\ sync.items \subseteq Items
    BY <1>3, NoSyncOK DEF UpsertItems, TypeInv, SyncOK, Syncing, Sync
  <2>2. point' \in [Items -> Vectors \cup {NoPoint}]
    BY <1>3 DEF UpsertItems, TypeInv, SyncOK, Sync
  <2>3. HistoryOK'
    BY <1>3, <2>1 DEF UpsertItems, TypeInv, HistoryOK
  <2> QED BY <1>3, <2>1, <2>2, <2>3 DEF UpsertItems, TypeInv
<1>4. CASE SyncFails /\ UNCHANGED <<users, object, call, torn, leaked>>
  <2>1. Unsynced \subseteq Items /\ SyncOK'
    BY <1>4, NoSyncOK DEF Unsynced, TypeInv, SyncOK, Syncing, Sync, SyncFails
  <2> QED BY <1>4, <2>1 DEF SyncFails, TypeInv, HistoryOK
<1> QED BY <1>1, <1>2, <1>3, <1>4 DEF SyncGoesOn, SyncStep

LEMMA TypeStep == TypeInv /\ [Next]_vars => TypeInv'
<1> SUFFICES ASSUME TypeInv, [Next]_vars PROVE TypeInv'
  OBVIOUS
<1>1. ASSUME NEW c \in Calls, CallStep(c) PROVE TypeInv'
  BY <1>1, TypeInsertPost, TypePreparing, TypeDeleteImages, TypeDeleteVideo, TypeWritePost,
     TypeWriteBlog, TypeWriteCategory, TypeDeletes, TypeDeleteFiles, TypeBackground, TypeEnds
  DEF CallStep, PointMissing
<1> QED BY <1>1, Frame, TypeCreatePost, TypeUpdatePost, TypeCreates, TypeReads, TypeDeletes,
        TypeAdmin, TypeSync, TypeEnds DEF Next

(* Every variable has its type, for any number of calls, users and items:   *)
(* a row that exists has its title and, if a post, its thumbnail, through   *)
(* every step of every service.                                             *)
THEOREM TypeCorrect == Spec => []TypeOK
<1>1. Spec => []TypeInv
  BY TypeInitial, TypeStep, PTL DEF Spec
<1> QED BY <1>1, TypeSuffices, PTL

-----------------------------------------------------------------------------
(* What a step makes of the call it is a step of.                          *)

Others(c) == \A d \in Calls \ {c} : call'[d] = call[d]

\* A call that has read and uploaded nothing.
Empties(k) == k.seen = NoRow /\ k.thumb = None /\ k.add = {}

\* A call that goes on with what it knows.
GoesOn(k, l) ==
    /\ l.item = k.item /\ l.ids = k.ids /\ l.seen = k.seen /\ l.thumb = k.thumb
    /\ l.keep = k.keep /\ l.adds = k.adds /\ l.title = k.title /\ l.text = k.text

LEMMA Steps ==
  ASSUME TypeInv, NEW c \in Calls, NEW k, call' = [call EXCEPT ![c] = k]
  PROVE  call'[c] = k /\ Others(c)
  BY DEF TypeInv, Others

LEMMA Goes ==
  ASSUME NEW k \in CallType, NEW pc
  PROVE  GoesOn(k, Going(pc, k)) /\ Going(pc, k).pc = pc /\ Going(pc, k).add = k.add
  BY DEF Going, GoesOn, CallType

LEMMA EmbeddingIs ==
  ASSUME NEW i, NEW v
  PROVE  /\ Empties(Embedding(i, v)) /\ Embedding(i, v).pc \in {"idle", "update"}
         /\ Embedding(i, v).pc = "idle" => Written(v) \cup Dropped(v) = {}
         /\ Embedding(i, v).pc = "update" =>
              Embedding(i, v).item = i /\ Embedding(i, v).changes = v
  BY DEF Embedding, Idle, Empties

LEMMA CreatePostIs ==
  ASSUME TypeInv, NEW c \in Calls, NEW p \in Posts, NEW e \in Edits, CreatePost(c, p, e)
  PROVE  \E add \in SUBSET Files, t \in Thumbs :
           /\ \A o \in add \cup {t} : object[o] = "new"
           /\ object' = Put(object, add \cup {t}, "stored")
           /\ Others(c) /\ call[c].pc = "idle"
           /\ call'[c].pc = "insert" /\ call'[c].item = p /\ call'[c].seen = NoRow
           /\ call'[c].thumb = t /\ call'[c].add = add
           /\ row[p].state = "none" /\ p \notin InProgress(c) /\ p \in Items
           /\ UNCHANGED <<row, point, sync, stale, forgotten, users, torn, leaked>>
<1>1. PICK add \in FreshImages(e.add), t \in FreshThumbs :
         /\ object' = Put(object, add \cup {t}, "stored")
         /\ call' = [call EXCEPT ![c] =
                       [Idle EXCEPT !.pc = "insert", !.item = p, !.title = e.title,
                                    !.text = e.text, !.thumb = t, !.add = add,
                                    !.video = e.video]]
  BY DEF CreatePost
<1> DEFINE k == [Idle EXCEPT !.pc = "insert", !.item = p, !.title = e.title,
                             !.text = e.text, !.thumb = t, !.add = add, !.video = e.video]
<1>2. add \in SUBSET Files /\ t \in Thumbs /\ \A o \in add \cup {t} : object[o] = "new"
  BY <1>1 DEF FreshImages, FreshThumbs
<1>3. k.pc = "insert" /\ k.item = p /\ k.seen = NoRow /\ k.thumb = t /\ k.add = add
  BY DEF Idle
<1>4. call'[c] = k /\ Others(c)
  BY <1>1, Steps
<1> HIDE DEF k
<1>5. /\ call[c].pc = "idle" /\ row[p].state = "none" /\ p \notin InProgress(c) /\ p \in Items
      /\ UNCHANGED <<row, point, sync, stale, forgotten, users, torn, leaked>>
  BY DEF CreatePost, Items
<1>6. add \in SUBSET Files /\ t \in Thumbs
  BY <1>2
<1> USE <1>6
<1> WITNESS add \in SUBSET Files, t \in Thumbs
<1> QED BY <1>1, <1>2, <1>3, <1>4, <1>5

LEMMA UpdatePostIs ==
  ASSUME TypeInv, NEW c \in Calls, NEW p \in Posts, NEW e \in Edits, UpdatePost(c, p, e)
  PROVE  /\ Others(c) /\ call[c].pc = "idle" /\ HasRow(p) /\ p \in Items
         /\ call'[c].pc = AfterRead(call'[c]) /\ call'[c].pc \in Preparing
         /\ call'[c].item = p /\ call'[c].seen = row[p] /\ call'[c].add = {}
         /\ \/ call'[c].thumb \in {None, row[p].thumb} /\ object' = object
            \/ /\ call'[c].thumb \in Thumbs /\ object[call'[c].thumb] = "new"
               /\ object' = Put(object, {call'[c].thumb}, "stored")
         /\ UNCHANGED <<row, point, sync, stale, forgotten, users, torn, leaked>>
<1>1. PICK t \in CASE e.thumb = "none" -> {None} [] e.thumb = "same" -> {row[p].thumb}
                   [] OTHER -> FreshThumbs :
         LET k == [Idle EXCEPT !.item = p, !.seen = row[p], !.title = e.title,
                               !.text = e.text, !.thumb = t, !.keep = e.keep,
                               !.adds = e.add, !.video = e.video]
         IN /\ call' = [call EXCEPT ![c] = Going(AfterRead(k), k)]
            /\ object' = IF e.thumb = "new" THEN Put(object, {t}, "stored") ELSE object
  BY DEF UpdatePost
<1> DEFINE k == [Idle EXCEPT !.item = p, !.seen = row[p], !.title = e.title,
                             !.text = e.text, !.thumb = t, !.keep = e.keep,
                             !.adds = e.add, !.video = e.video]
           g == Going(AfterRead(k), k)
<1>2. e \in Edit /\ p \in Items
  BY ContentAssumption DEF Items
<1>3. \/ e.thumb # "new" /\ t \in {None, row[p].thumb}
      \/ e.thumb = "new" /\ t \in Thumbs /\ object[t] = "new"
  BY <1>1, <1>2 DEF Edit, FreshThumbs
<1>4. /\ k.item = p /\ k.seen = row[p] /\ k.add = {} /\ k.thumb = t /\ k.keep = e.keep
      /\ k.adds = e.add /\ k.video = e.video
  BY DEF Idle
<1>5. /\ g.item = k.item /\ g.seen = k.seen /\ g.add = k.add /\ g.thumb = k.thumb /\ g.keep = k.keep
      /\ g.adds = k.adds /\ g.video = k.video /\ g.pc = AfterRead(k)
  BY DEF Going, Idle
<1>6. call'[c] = g /\ Others(c)
  BY <1>1, Steps
<1> HIDE DEF k, g
<1>7. AfterRead(g) = AfterRead(k)
  BY <1>5 DEF AfterRead, AfterThumb, AfterImages, AfterUpload, AfterVideo, NewThumb, Dropping,
              OldVideo, SameVideo, FirstVideo
<1>8. \/ g.thumb \in {None, row[p].thumb} /\ object' = object
      \/ /\ g.thumb \in Thumbs /\ object[g.thumb] = "new"
         /\ object' = Put(object, {g.thumb}, "stored")
  BY <1>1, <1>3, <1>4, <1>5
<1> QED BY <1>2, <1>4, <1>5, <1>6, <1>7, <1>8, AfterSteps DEF UpdatePost

\* A call reads an item, to delete it, or to write one without media.
LEMMA ReadIs ==
  ASSUME TypeInv, NEW c \in Calls,
         \/ \E p \in Posts : DeletePost(c, p)
         \/ \E b \in Blogs, e \in Edits : UpdateBlog(c, b, e)
         \/ \E g \in Categories, e \in Edits : UpdateCategory(c, g, e)
         \/ \E g \in Categories : RemoveCategory(c, g)
  PROVE  /\ Others(c) /\ call[c].pc = "idle"
         /\ call'[c].item \in Items /\ HasRow(call'[c].item)
         /\ call'[c].thumb = None /\ call'[c].add = {}
         /\ \/ call'[c].pc = "delete" /\ call'[c].ids = {call'[c].item}
            \/ call'[c].pc = "write" /\ call'[c].item \notin Posts
         /\ \/ call'[c].seen = row[call'[c].item]
            \/ call'[c].pc = "delete" /\ call'[c].seen = NoRow
         /\ UNCHANGED <<row, point, sync, stale, forgotten, users, object, torn, leaked>>
<1>1. UNCHANGED <<row, point, sync, stale, forgotten, users, object, torn, leaked>>
      /\ call[c].pc = "idle"
  BY DEF DeletePost, UpdateBlog, UpdateCategory, RemoveCategory, indexVars
<1>2. ASSUME NEW p \in Posts, DeletePost(c, p)
      PROVE  /\ Others(c) /\ call'[c].item = p /\ HasRow(p) /\ call'[c].thumb = None
             /\ call'[c].add = {} /\ call'[c].pc = "delete" /\ call'[c].ids = {p}
             /\ call'[c].seen = row[p]
  <2> DEFINE k == [Idle EXCEPT !.pc = "delete", !.ids = {p}, !.item = p, !.seen = row[p]]
  <2>1. call'[c] = k /\ Others(c) /\ HasRow(p)
    BY <1>2, Steps DEF DeletePost
  <2>2. /\ k.item = p /\ k.thumb = None /\ k.add = {} /\ k.pc = "delete" /\ k.ids = {p}
        /\ k.seen = row[p]
    BY DEF Idle
  <2> HIDE DEF k
  <2> QED BY <2>1, <2>2
<1>3. ASSUME NEW i \in Blogs \cup Categories, NEW e \in Edits,
             UpdateBlog(c, i, e) \/ UpdateCategory(c, i, e)
      PROVE  /\ Others(c) /\ call'[c].item = i /\ HasRow(i) /\ call'[c].thumb = None
             /\ call'[c].add = {} /\ call'[c].pc = "write" /\ call'[c].seen = row[i]
  <2> DEFINE k == [Idle EXCEPT !.pc = "write", !.item = i, !.seen = row[i],
                               !.title = e.title, !.text = e.text]
  <2>1. call'[c] = k /\ Others(c) /\ HasRow(i)
    BY <1>3, Steps DEF UpdateBlog, UpdateCategory
  <2>2. k.item = i /\ k.thumb = None /\ k.add = {} /\ k.pc = "write" /\ k.seen = row[i]
    BY DEF Idle
  <2> HIDE DEF k
  <2> QED BY <2>1, <2>2
<1>4. ASSUME NEW g \in Categories, RemoveCategory(c, g)
      PROVE  /\ Others(c) /\ call'[c].item = g /\ HasRow(g) /\ call'[c].thumb = None
             /\ call'[c].add = {} /\ call'[c].pc = "delete" /\ call'[c].ids = {g}
             /\ call'[c].seen = NoRow
  <2> DEFINE k == [Idle EXCEPT !.pc = "delete", !.item = g, !.ids = {g}]
  <2>1. call'[c] = k /\ Others(c) /\ HasRow(g)
    BY <1>4, Steps DEF RemoveCategory
  <2>2. /\ k.item = g /\ k.thumb = None /\ k.add = {} /\ k.pc = "delete" /\ k.ids = {g}
        /\ k.seen = NoRow
    BY DEF Idle
  <2> HIDE DEF k
  <2> QED BY <2>1, <2>2
<1>5. \A i \in Blogs \cup Categories : i \notin Posts /\ i \in Items
  BY VectorAssumption DEF Items
<1>6. Posts \subseteq Items
  BY DEF Items
<1>7. CASE \E p \in Posts : DeletePost(c, p)
  BY <1>1, <1>2, <1>6, <1>7
<1>8. CASE \E g \in Categories : RemoveCategory(c, g)
  BY <1>1, <1>4, <1>5, <1>8
<1>9. CASE \E i \in Blogs \cup Categories, e \in Edits :
             UpdateBlog(c, i, e) \/ UpdateCategory(c, i, e)
  BY <1>1, <1>3, <1>5, <1>9
<1> QED BY <1>7, <1>8, <1>9

LEMMA DeleteThumbnailIs ==
  ASSUME TypeInv, NEW c \in Calls, DeleteThumbnail(c)
  PROVE  /\ Others(c) /\ GoesOn(call[c], call'[c]) /\ call[c].item \in Posts
         /\ call[c].pc = "thumbnail" /\ call'[c].pc = AfterThumb(call[c])
         /\ call[c].add = {} /\ call'[c].add = {}
         /\ call[c].seen.thumb \in Thumbs
         /\ object' = Put(object, {call[c].seen.thumb}, "deleted")
         /\ UNCHANGED <<row, point, sync, stale, forgotten, users, torn, leaked>>
<1>1. CallOK(call[c]) /\ call[c] \in CallType /\ call[c].seen \in Row /\ call[c].pc = "thumbnail"
  BY DEF TypeInv, DeleteThumbnail, CallType
<1>2. call[c].add = {} /\ call[c].item \in Posts
  BY <1>1 DEF CallOK, Preparing
<1>3. call[c].seen.thumb \in Thumbs
  BY <1>1, ContentAssumption DEF DeleteThumbnail, Row
<1>4. call'[c] = Going(AfterThumb(call[c]), call[c]) /\ Others(c)
  BY Steps DEF DeleteThumbnail
<1>5. /\ GoesOn(call[c], call'[c]) /\ call'[c].pc = AfterThumb(call[c])
      /\ call'[c].add = call[c].add
  BY <1>1, <1>4, Goes
<1>6. /\ object' = Put(object, {call[c].seen.thumb}, "deleted")
      /\ UNCHANGED <<row, point, sync, stale, forgotten, users, torn, leaked>>
  BY DEF DeleteThumbnail
<1> QED BY <1>1, <1>2, <1>3, <1>4, <1>5, <1>6

LEMMA UploadImagesIs ==
  ASSUME TypeInv, NEW c \in Calls, UploadImages(c)
  PROVE  /\ Others(c) /\ GoesOn(call[c], call'[c]) /\ call[c].item \in Posts
         /\ call[c].pc = "upload" /\ call'[c].pc = AfterUpload(call[c])
         /\ call[c].adds
         /\ call'[c].add \in SUBSET Files /\ \A f \in call'[c].add : object[f] = "new"
         /\ object' = Put(object, call'[c].add, "stored")
         /\ UNCHANGED <<row, point, sync, stale, forgotten, users, torn, leaked>>
<1>1. CallOK(call[c]) /\ call[c].pc = "upload" /\ call[c] \in CallType
  BY DEF TypeInv, UploadImages
<1>2. call[c].item \in Posts /\ call[c].adds
  BY <1>1 DEF CallOK, CallType, Preparing
<1>3. PICK add \in FreshImages(TRUE) :
           /\ object' = Put(object, add, "stored")
           /\ call' = [call EXCEPT ![c] = Going(AfterUpload(call[c]), [call[c] EXCEPT !.add = add])]
  BY DEF UploadImages
<1>4. add \in SUBSET Files /\ \A f \in add : object[f] = "new"
  BY DEF FreshImages
<1>5. call'[c] = Going(AfterUpload(call[c]), [call[c] EXCEPT !.add = add]) /\ Others(c)
  BY <1>3, Steps
<1>6. GoesOn(call[c], call'[c]) /\ call'[c].pc = AfterUpload(call[c]) /\ call'[c].add = add
  BY <1>1, <1>5 DEF GoesOn, Going, CallType
<1>7. UNCHANGED <<row, point, sync, stale, forgotten, users, torn, leaked>>
  BY DEF UploadImages
<1> QED BY <1>1, <1>2, <1>3, <1>4, <1>5, <1>6, <1>7

LEMMA DeleteImagesIs ==
  ASSUME TypeInv, NEW c \in Calls, DeleteImages(c)
  PROVE  LET i == call[c].item
             S == Dropping(call[c])
         IN /\ Others(c) /\ i \in Posts /\ i \in Items
            /\ call[c].pc = "images" /\ call[c].add = {} /\ call'[c].add = {}
            /\ S \subseteq Files /\ Touch({i})
            /\ \/ row' = row
               \/ /\ HasRow(i)
                  /\ row' = [row EXCEPT ![i] = [row[i] EXCEPT !.images = row[i].images \ S]]
            /\ object' = object \/ object' = Put(object, S, "deleted")
            /\ UNCHANGED <<point, forgotten, users>>
            /\ \/ /\ GoesOn(call[c], call'[c]) /\ call'[c].pc = AfterImages(call[c])
                  /\ row' = row => ~HasRow(i) \/ Images(i) \cap S = {}
                  /\ object' = Put(object, S, "deleted")
                  /\ UNCHANGED <<stale, torn, leaked>>
               \/ /\ call'[c] = Idle /\ stale' = stale \cup {i} /\ leaked' = leaked \cup S
                  /\ torn' = IF ThumbGone(call[c]) THEN torn \cup {i} ELSE torn
<1> DEFINE k == call[c]
           i == k.item
           S == Dropping(k)
<1>1. k \in CallType /\ CallOK(k) /\ k.pc = "images" /\ i \in Posts /\ i \in Items /\ k.add = {}
  BY DEF TypeInv, DeleteImages, CallOK, Preparing, Items
<1>2. PICK rows, objects \in BOOLEAN :
        /\ row' = IF rows /\ HasRow(i) THEN [row EXCEPT ![i].images = @ \ S] ELSE row
        /\ object' = IF objects THEN Put(object, S, "deleted") ELSE object
        /\ IF rows /\ objects
           THEN /\ call' = [call EXCEPT ![c] = Going(AfterImages(k), k)]
                /\ UNCHANGED <<stale, torn, leaked>>
           ELSE /\ call' = [call EXCEPT ![c] = Idle]
                /\ stale' = stale \cup {i}
                /\ torn' = IF ThumbGone(k) THEN torn \cup {i} ELSE torn
                /\ leaked' = leaked \cup S
  BY DEF DeleteImages
<1>3. S \subseteq Files
  BY <1>1 DEF Dropping, CallType, Row
<1>4. rows /\ HasRow(i) => row' = [row EXCEPT ![i] = [row[i] EXCEPT !.images = row[i].images \ S]]
  BY <1>1, <1>2 DEF TypeInv
<1>5. rows /\ HasRow(i) /\ row' = row => Images(i) \cap S = {}
  <2>1. row[i] \in Row
    BY <1>1 DEF TypeInv
  <2>2. [row[i] EXCEPT !.images = row[i].images \ S].images = row[i].images \ S
    BY <2>1 DEF Row
  <2> QED BY <1>1, <1>4, <2>2 DEF TypeInv, Images
<1>6. Touch({i}) /\ UNCHANGED <<point, forgotten, users>>
  BY DEF DeleteImages
<1>7. IF rows /\ objects THEN call'[c] = Going(AfterImages(k), k) /\ Others(c)
      ELSE call'[c] = Idle /\ Others(c)
  BY <1>2, Steps
<1>8. CASE rows /\ objects
  <2>1. GoesOn(k, call'[c]) /\ call'[c].pc = AfterImages(k) /\ call'[c].add = k.add
    BY <1>1, <1>7, <1>8, Goes
  <2> QED BY <1>1, <1>2, <1>3, <1>4, <1>5, <1>6, <1>7, <1>8, <2>1
<1>9. CASE ~(rows /\ objects)
  BY <1>1, <1>2, <1>3, <1>4, <1>6, <1>7, <1>9, IdleOK
<1> QED BY <1>8, <1>9

LEMMA DeleteVideoIs ==
  ASSUME TypeInv, NEW c \in Calls, DeleteVideo(c)
  PROVE  LET i == call[c].item
         IN /\ i \in Posts /\ i \in Items /\ HasRow(i) /\ call[c].pc = "video"
            /\ row' \in [Items -> Row] /\ \A j \in Items \ {i} : row'[j] = row[j]
            /\ row'[i].state = "live" /\ row'[i].title = row[i].title /\ row'[i].text = row[i].text
            /\ row'[i].images = row[i].images /\ row'[i].thumb = row[i].thumb
            /\ UNCHANGED <<point, sync, forgotten, users, object>>
            /\ \/ /\ Others(c) /\ GoesOn(call[c], call'[c]) /\ call'[c].pc = "write"
                  /\ call'[c].add = call[c].add
                  /\ UNCHANGED <<stale, torn, leaked>>
               \/ Abandon({c}) /\ stale' = stale \cup LeftStale({c})
<1> DEFINE k == call[c]
           i == k.item
           r == [row[i] EXCEPT !.videos = @ \ OldVideo(k)]
<1>1. k \in CallType /\ CallOK(k) /\ k.pc = "video" /\ i \in Posts /\ i \in Items /\ HasRow(i)
  BY DEF TypeInv, DeleteVideo, CallOK, Preparing, Items
<1>2. row[i] \in Row /\ row \in [Items -> Row]
  BY <1>1 DEF TypeInv
<1>3. row' = [row EXCEPT ![i] = r]
  BY <1>1, <1>2 DEF DeleteVideo
<1>4. /\ r \in Row /\ r.state = row[i].state /\ r.title = row[i].title /\ r.text = row[i].text
      /\ r.images = row[i].images /\ r.thumb = row[i].thumb
  BY <1>2 DEF Row
<1> HIDE DEF r
<1>5. /\ row' \in [Items -> Row] /\ \A j \in Items \ {i} : row'[j] = row[j]
      /\ row'[i] = r
  BY <1>1, <1>2, <1>3, <1>4
<1>6. \/ call' = [call EXCEPT ![c] = Going("write", k)] /\ UNCHANGED <<stale, torn, leaked>>
      \/ Abandon({c}) /\ stale' = stale \cup LeftStale({c})
  BY DEF DeleteVideo, AfterVideo
<1>7. call' = [call EXCEPT ![c] = Going("write", k)]
        => Others(c) /\ GoesOn(call[c], call'[c]) /\ call'[c].pc = "write" /\ call'[c].add = call[c].add
  <2>1. call' = [call EXCEPT ![c] = Going("write", k)] => call'[c] = Going("write", k) /\ Others(c)
    BY Steps
  <2> QED BY <1>1, <2>1, Goes
<1>8. UNCHANGED <<point, sync, forgotten, users, object>>
  BY DEF DeleteVideo
<1>9. row'[i].state = "live"
  BY <1>1, <1>4, <1>5 DEF HasRow
<1> QED BY <1>1, <1>4, <1>5, <1>6, <1>7, <1>8, <1>9

\* The row of a new item is written, and its vectors are to be.
LEMMA NewRowIs ==
  ASSUME TypeInv, NEW c \in Calls,
         \/ InsertPost(c)
         \/ \E b \in Blogs, e \in Edits : CreateBlog(c, b, e)
         \/ \E g \in Categories, e \in Edits : CreateCategory(c, g, e)
  PROVE  LET i == call'[c].item
         IN /\ Others(c) /\ i \in Items
            /\ call'[c].pc = "upsert" /\ call'[c].changes = VectorsOf(row'[i])
            /\ Empties(call'[c])
            /\ row' \in [Items -> Row] /\ \A j \in Items \ {i} : row'[j] = row[j]
            /\ row'[i].state = "live"
            /\ \/ /\ call[c].pc = "insert" /\ call[c].item = i
                  /\ row'[i].images = call[c].add /\ row'[i].thumb = call[c].thumb
               \/ /\ call[c].pc = "idle" /\ row[i].state = "none" /\ i \notin Posts
                  /\ row'[i].images = {} /\ row'[i].thumb = None
            /\ UNCHANGED <<point, sync, stale, forgotten, users, object, torn, leaked>>
<1>0. row' \in [Items -> Row]
  BY TypeInsertPost, TypeCreates DEF TypeInv
<1>1. ASSUME NEW i, NEW v, call' = [call EXCEPT ![c] = [Idle EXCEPT !.pc = "upsert", !.item = i, !.changes = v]]
      PROVE  /\ Others(c) /\ call'[c].pc = "upsert" /\ call'[c].item = i /\ call'[c].changes = v
             /\ Empties(call'[c])
  <2> DEFINE k == [Idle EXCEPT !.pc = "upsert", !.item = i, !.changes = v]
  <2>1. call'[c] = k /\ Others(c)
    BY <1>1, Steps
  <2>2. k.pc = "upsert" /\ k.item = i /\ k.changes = v /\ Empties(k)
    BY DEF Idle, Empties
  <2> HIDE DEF k
  <2> QED BY <2>1, <2>2
<1>2. CASE InsertPost(c)
  <2> DEFINE i == call[c].item
             r == [state |-> "live", title |-> call[c].title, text |-> call[c].text,
                   images |-> call[c].add, thumb |-> call[c].thumb,
                   videos |-> {call[c].video} \ {None}]
  <2>1. i \in Items /\ call[c].pc = "insert"
    BY <1>2 DEF InsertPost, TypeInv, CallOK, Items
  <2>2. row' = [row EXCEPT ![i] = r]
        /\ call' = [call EXCEPT ![c] = [Idle EXCEPT !.pc = "upsert", !.item = i,
                                                    !.changes = VectorsOf(r)]]
        /\ UNCHANGED <<point, sync, stale, forgotten, users, object, torn, leaked>>
    BY <1>2 DEF InsertPost
  <2>3. r.state = "live" /\ r.images = call[c].add /\ r.thumb = call[c].thumb
    OBVIOUS
  <2> HIDE DEF r
  <2>4. row'[i] = r /\ \A j \in Items \ {i} : row'[j] = row[j]
    BY <2>1, <2>2 DEF TypeInv
  <2>5. /\ Others(c) /\ call'[c].pc = "upsert" /\ call'[c].item = i
        /\ call'[c].changes = VectorsOf(r) /\ Empties(call'[c])
    BY <1>1, <2>2
  <2> QED BY <1>0, <2>1, <2>2, <2>3, <2>4, <2>5
<1>3. ASSUME NEW i \in Blogs \cup Categories, NEW e \in Edits,
             CreateBlog(c, i, e) \/ CreateCategory(c, i, e)
      PROVE  /\ Others(c) /\ i \in Items /\ i \notin Posts /\ call'[c].item = i
             /\ call'[c].pc = "upsert" /\ call'[c].changes = VectorsOf(row'[i])
             /\ Empties(call'[c])
             /\ \A j \in Items \ {i} : row'[j] = row[j]
             /\ row'[i].state = "live"
             /\ call[c].pc = "idle" /\ row[i].state = "none"
             /\ row'[i].images = {} /\ row'[i].thumb = None
             /\ UNCHANGED <<point, sync, stale, forgotten, users, object, torn, leaked>>
  <2> DEFINE r == [NoRow EXCEPT !.state = "live", !.title = e.title, !.text = e.text]
  <2>1. /\ row' = [row EXCEPT ![i] = r] /\ i \in Items
        /\ call' = [call EXCEPT ![c] = [Idle EXCEPT !.pc = "upsert", !.item = i,
                                                    !.changes = VectorsOf(row'[i])]]
        /\ call[c].pc = "idle" /\ row[i].state = "none"
        /\ UNCHANGED <<point, sync, stale, forgotten, users, object, torn, leaked>>
        /\ i \notin Posts
    BY <1>3, VectorAssumption DEF CreateBlog, CreateCategory, Items
  <2>2. r.state = "live" /\ r.images = {} /\ r.thumb = None
    BY DEF NoRow
  <2> HIDE DEF r
  <2>3. row'[i] = r /\ \A j \in Items \ {i} : row'[j] = row[j]
    BY <2>1 DEF TypeInv
  <2> QED BY <1>1, <2>1, <2>2, <2>3
<1>4. CASE \E i \in Blogs \cup Categories, e \in Edits : CreateBlog(c, i, e) \/ CreateCategory(c, i, e)
  BY <1>0, <1>3, <1>4
<1> QED BY <1>2, <1>4

\* A row is written again.
LEMMA WriteIs ==
  ASSUME TypeInv, NEW c \in Calls, WritePost(c) \/ WriteBlog(c) \/ WriteCategory(c)
  PROVE  LET k == call[c]
             i == k.item
             r == row'[i]
         IN /\ Others(c) /\ k.pc = "write" /\ i \in Items /\ HasRow(i)
            /\ row' \in [Items -> Row] /\ \A j \in Items \ {i} : row'[j] = row[j]
            /\ r.state = "live"
            /\ r.title = Given(k.title, row[i].title) /\ r.text = Given(k.text, row[i].text)
            /\ r.images = row[i].images \cup k.add /\ r.thumb = Given(k.thumb, row[i].thumb)
            /\ \E changes \in Changes :
                 /\ call'[c] = Embedding(i, changes)
                 /\ changes.title = Changed(k.title, k.seen.title)
                 /\ \/ changes.text = Changed(k.text, k.seen.text)
                    \/ changes.text = IF k.text = k.seen.text THEN None ELSE r.text
                 /\ changes.images = IF Dropping(k) # {} \/ k.adds THEN r.images ELSE None
            /\ Writes(c, i) /\ UNCHANGED <<point, forgotten, users, object, leaked>>
<1> DEFINE k == call[c]
           i == k.item
<1>1. k \in CallType /\ CallOK(k) /\ k.pc = "write" /\ i \in Items /\ HasRow(i) /\ row[i] \in Row
      /\ row \in [Items -> Row]
  BY DEF TypeInv, WritePost, WriteBlog, WriteCategory, Items
<1>2. Writes(c, i) /\ UNCHANGED <<point, forgotten, users, object, leaked>>
  BY DEF WritePost, WriteBlog, WriteCategory
<1>3. row' \in [Items -> Row]
  BY TypeWritePost, TypeWriteBlog, TypeWriteCategory DEF TypeInv
<1>4. ASSUME NEW r, row' = [row EXCEPT ![i] = r], NEW changes,
             call' = [call EXCEPT ![c] = Embedding(i, changes)]
      PROVE  /\ row'[i] = r /\ \A j \in Items \ {i} : row'[j] = row[j]
             /\ Others(c) /\ call'[c] = Embedding(i, changes)
  BY <1>1, <1>4, Steps
<1>5. CASE WritePost(c)
  <2> DEFINE r == [row[i] EXCEPT !.title = Given(k.title, @), !.text = Given(k.text, @),
                                 !.images = @ \cup k.add, !.thumb = Given(k.thumb, @),
                                 !.videos = @ \cup NewVideo(k)]
             changes == [title  |-> Changed(k.title, k.seen.title),
                         text   |-> Changed(k.text, k.seen.text),
                         images |-> IF Dropping(k) # {} \/ k.adds THEN r.images ELSE None]
  <2>1. row' = [row EXCEPT ![i] = r] /\ call' = [call EXCEPT ![c] = Embedding(i, changes)]
    BY <1>5 DEF WritePost
  <2>2. /\ r.state = "live"
        /\ r.title = Given(k.title, row[i].title) /\ r.text = Given(k.text, row[i].text)
        /\ r.images = row[i].images \cup k.add /\ r.thumb = Given(k.thumb, row[i].thumb)
        /\ r.images \in SUBSET Files
    BY <1>1 DEF Row, HasRow, CallType
  <2> HIDE DEF r
  <2>3. /\ changes.title = Changed(k.title, k.seen.title)
        /\ changes.text = Changed(k.text, k.seen.text)
        /\ changes.images = IF Dropping(k) # {} \/ k.adds THEN r.images ELSE None
        /\ changes \in Changes
    BY <1>1, <2>2 DEF Changes, Changed, CallType
  <2> HIDE DEF changes
  <2> QED BY <1>1, <1>2, <1>3, <1>4, <2>1, <2>2, <2>3
<1>6. CASE WriteBlog(c) \/ WriteCategory(c)
  <2> DEFINE r == [row[i] EXCEPT !.title = Given(k.title, @), !.text = Given(k.text, @)]
  <2>1. /\ r.state = "live"
        /\ r.title = Given(k.title, row[i].title) /\ r.text = Given(k.text, row[i].text)
        /\ r.images = row[i].images /\ r.thumb = row[i].thumb
        /\ r.text \in Texts \cup {Empty, None} /\ row' = [row EXCEPT ![i] = r]
    BY <1>1, <1>6 DEF Row, HasRow, WriteBlog, WriteCategory, Given, CallType
  <2> HIDE DEF r
  <2>2. i \notin Posts
    BY <1>6, VectorAssumption DEF WriteBlog, WriteCategory
  <2>3. k.add = {} /\ k.thumb = None /\ ~k.adds /\ Dropping(k) = {}
    BY <1>1, <2>2 DEF CallOK, Preparing, Dropping
  <2>4. PICK text \in {Changed(k.text, k.seen.text), IF k.text = k.seen.text THEN None ELSE r.text} :
           call' = [call EXCEPT ![c] = Embedding(i, [title |-> Changed(k.title, k.seen.title),
                                                     text |-> text, images |-> None])]
    BY <1>6 DEF WriteBlog, WriteCategory, r
  <2> DEFINE changes == [title |-> Changed(k.title, k.seen.title), text |-> text, images |-> None]
  <2>5. /\ changes.title = Changed(k.title, k.seen.title) /\ changes.text = text
        /\ changes.images = None /\ changes \in Changes
    BY <1>1, <2>1, <2>4 DEF Changes, Changed, CallType
  <2>6. call' = [call EXCEPT ![c] = Embedding(i, changes)]
    BY <2>4
  <2> HIDE DEF changes
  <2>7. Given(k.thumb, row[i].thumb) = row[i].thumb /\ row[i].images \cup k.add = row[i].images
    BY <2>3 DEF Given
  <2>8. /\ row'[i] = r /\ \A j \in Items \ {i} : row'[j] = row[j]
        /\ Others(c) /\ call'[c] = Embedding(i, changes)
    BY <1>4, <2>1, <2>6
  <2>9. \/ changes.text = Changed(k.text, k.seen.text)
        \/ changes.text = IF k.text = k.seen.text THEN None ELSE row'[i].text
    BY <2>4, <2>5, <2>8
  <2>10. \E n \in Changes :
          /\ call'[c] = Embedding(i, n)
          /\ n.title = Changed(k.title, k.seen.title)
          /\ \/ n.text = Changed(k.text, k.seen.text)
             \/ n.text = IF k.text = k.seen.text THEN None ELSE row'[i].text
          /\ n.images = IF Dropping(k) # {} \/ k.adds THEN row'[i].images ELSE None
    BY <2>3, <2>5, <2>8, <2>9
  <2> QED BY <1>1, <1>2, <1>3, <2>1, <2>3, <2>7, <2>8, <2>10
<1> QED BY <1>5, <1>6

\* Rows are deleted by a call that goes on to delete their points.
LEMMA DeleteIs ==
  ASSUME TypeInv, NEW c \in Calls,
         \/ FinishDeletePost(c) \/ FinishRemoveCategory(c)
         \/ \E S \in (SUBSET Blogs) \ {{}} : DeleteBlogs(c, S)
  PROVE  \E S \in SUBSET Items :
           /\ \A i \in S : HasRow(i)
           /\ DeleteRows(S, S) /\ S \subseteq call'[c].ids
           /\ \A i \in call'[c].ids \ S : row[i].state = "deleted"
           /\ Others(c) /\ call'[c].pc \in {"files", "points"}
           /\ call'[c].thumb = None /\ call'[c].add = {}
           /\ \/ /\ call[c].pc = "delete" /\ call'[c].item = call[c].item
                 /\ call'[c].seen = call[c].seen /\ call'[c].ids = {call[c].item}
                 /\ call[c].item \in Items /\ S = {call[c].item}
              \/ /\ call[c].pc = "idle" /\ Empties(call'[c])
                 /\ call'[c].item = None /\ call'[c].pc = "points"
           /\ leaked \subseteq leaked'
           /\ \A i \in S : \A f \in Images(i) \ leaked' :
                call'[c].pc = "files" /\ f \in call'[c].seen.images
           /\ UNCHANGED <<point, stale, users, object, torn>>
<1> DEFINE k == call[c]
<1>1. k \in CallType /\ CallOK(k)
  BY DEF TypeInv
<1>2. ASSUME NEW i \in Items, k.pc = "delete", k.item = i, HasRow(i), DeleteRows({i}, {i}),
             NEW pc \in {"files", "points"}, call' = [call EXCEPT ![c] = Going(pc, k)],
             leaked \subseteq leaked',
             \A f \in Images(i) \ leaked' : pc = "files" /\ f \in k.seen.images,
             UNCHANGED <<point, stale, users, object, torn>>
      PROVE  \E S \in SUBSET Items :
               /\ \A j \in S : HasRow(j)
               /\ DeleteRows(S, S) /\ S \subseteq call'[c].ids
               /\ \A j \in call'[c].ids \ S : row[j].state = "deleted"
               /\ Others(c) /\ call'[c].pc \in {"files", "points"}
               /\ call'[c].thumb = None /\ call'[c].add = {}
               /\ call[c].pc = "delete" /\ call'[c].item = call[c].item
               /\ call'[c].seen = call[c].seen /\ call'[c].ids = {call[c].item}
               /\ call[c].item \in Items /\ S = {call[c].item}
               /\ leaked \subseteq leaked'
               /\ \A j \in S : \A f \in Images(j) \ leaked' :
                    call'[c].pc = "files" /\ f \in call'[c].seen.images
               /\ UNCHANGED <<point, stale, users, object, torn>>
  <2>1. k.ids = {i} /\ k.thumb = None /\ k.add = {}
    BY <1>1, <1>2 DEF CallOK, Preparing
  <2>2. call'[c] = Going(pc, k) /\ Others(c)
    BY <1>2, Steps
  <2>3. call'[c].pc = pc /\ call'[c].add = k.add /\ GoesOn(k, call'[c])
    BY <1>1, <2>2, Goes
  <2> QED BY <1>2, <2>1, <2>2, <2>3 DEF GoesOn
<1>3. CASE FinishDeletePost(c)
  <2> DEFINE pc == IF k.seen.images \cup k.seen.videos = {} THEN "points" ELSE "files"
  <2>1. /\ k.pc = "delete" /\ k.item \in Items /\ HasRow(k.item)
        /\ DeleteRows({k.item}, {k.item}) /\ call' = [call EXCEPT ![c] = Going(pc, k)]
        /\ leaked' = leaked \cup (Images(k.item) \ k.seen.images)
        /\ UNCHANGED <<point, stale, users, object, torn>>
    BY <1>3 DEF FinishDeletePost, Items
  <2>2. \A f \in Images(k.item) \ leaked' : pc = "files" /\ f \in k.seen.images
    BY <2>1
  <2>3. pc \in {"files", "points"} /\ leaked \subseteq leaked'
    BY <2>1
  <2> HIDE DEF pc
  <2> QED BY <1>2, <2>1, <2>2, <2>3
<1>4. CASE FinishRemoveCategory(c)
  <2>1. /\ k.pc = "delete" /\ k.item \in Items /\ k.item \notin Posts /\ HasRow(k.item)
        /\ DeleteRows({k.item}, {k.item}) /\ call' = [call EXCEPT ![c] = Going("points", k)]
        /\ UNCHANGED <<point, stale, users, object, torn, leaked>>
    BY <1>4, VectorAssumption DEF FinishRemoveCategory, Items
  <2>2. Images(k.item) = {}
    BY <2>1 DEF Images, TypeInv, RowOK
  <2> QED BY <1>2, <2>1, <2>2
<1>5. CASE \E S \in (SUBSET Blogs) \ {{}} : DeleteBlogs(c, S)
  <2>1. PICK B \in SUBSET Blogs : DeleteBlogs(c, B)
    BY <1>5
  <2> DEFINE S == {b \in B : HasRow(b)}
             n == [Idle EXCEPT !.pc = "points", !.ids = B]
  <2>2. /\ call[c].pc = "idle" /\ DeleteRows(S, S) /\ call' = [call EXCEPT ![c] = n]
        /\ UNCHANGED <<point, stale, users, object, torn, leaked>>
        /\ \A b \in B : row[b].state # "none"
    BY <2>1 DEF DeleteBlogs
  <2>3. S \in SUBSET Items /\ \A i \in S : HasRow(i) /\ i \notin Posts
    BY VectorAssumption DEF Items
  <2>4. \A b \in B \ S : row[b].state = "deleted"
    BY <2>2 DEF HasRow, TypeInv, Row, Items
  <2>5. \A i \in S : Images(i) = {}
    BY <2>3 DEF Images, TypeInv, RowOK
  <2>6. n.pc = "points" /\ n.ids = B /\ Empties(n) /\ n.item = None
    BY DEF Idle, Empties
  <2>7. call'[c] = n /\ Others(c)
    BY <2>2, Steps
  <2>8. S \subseteq B
    OBVIOUS
  <2> HIDE DEF n, S
  <2> QED BY <2>2, <2>3, <2>4, <2>5, <2>6, <2>7, <2>8 DEF Empties
<1> QED BY <1>2, <1>3, <1>4, <1>5

LEMMA DeleteFilesIs ==
  ASSUME TypeInv, NEW c \in Calls, DeleteFiles(c)
  PROVE  /\ Others(c) /\ GoesOn(call[c], call'[c])
         /\ call[c].pc = "files" /\ call'[c].pc = "points"
         /\ call[c].add = {} /\ call'[c].add = {} /\ call[c].thumb = None
         /\ call[c].seen.images \subseteq Files
         /\ object' = Put(object, call[c].seen.images, "deleted")
         /\ UNCHANGED <<row, point, sync, stale, forgotten, users, torn, leaked>>
<1>1. call[c] \in CallType /\ CallOK(call[c]) /\ call[c].pc = "files"
  BY DEF TypeInv, DeleteFiles
<1>2. call[c].add = {} /\ call[c].thumb = None
  BY <1>1 DEF CallOK, Preparing
<1>3. call'[c] = Going("points", call[c]) /\ Others(c)
  BY Steps DEF DeleteFiles
<1>4. GoesOn(call[c], call'[c]) /\ call'[c].pc = "points" /\ call'[c].add = call[c].add
  BY <1>1, <1>3, Goes
<1>5. call[c].seen.images \subseteq Files
  BY <1>1 DEF CallType, Row
<1> QED BY <1>1, <1>2, <1>3, <1>4, <1>5 DEF DeleteFiles, indexVars

LEMMA AdminIs ==
  ASSUME TypeInv, NEW p \in Posts, NEW e \in Edits, UpdatePostByAdmin(p, e)
  PROVE  /\ p \in Items /\ HasRow(p)
         /\ row' \in [Items -> Row] /\ \A j \in Items \ {p} : row'[j] = row[j]
         /\ row'[p].state = "live" /\ row'[p].images = row[p].images
         /\ \/ row'[p].thumb = row[p].thumb /\ object' = object
            \/ /\ row'[p].thumb \in Thumbs /\ object[row'[p].thumb] = "new"
               /\ object' = Put(object, {row'[p].thumb}, "stored")
         /\ VectorsOf(row'[p]) = VectorsOf(row[p]) \/ p \in stale'
         /\ Touch({p}) /\ stale \subseteq stale' /\ stale' \subseteq stale \cup {p}
         /\ UNCHANGED <<point, forgotten, users, call, torn, leaked>>
<1>1. row' \in [Items -> Row]
  BY TypeAdmin DEF TypeInv
<1>2. PICK t \in IF e.thumb = "new" THEN FreshThumbs ELSE {None} :
         /\ row' = [row EXCEPT ![p] =
                      [row[p] EXCEPT !.title = NotEmpty(e.title, @),
                                     !.text  = NotEmpty(e.text, @),
                                     !.thumb = Given(t, @)]]
         /\ object' = IF t = None THEN object ELSE Put(object, {t}, "stored")
  BY DEF UpdatePostByAdmin
<1> DEFINE r == [row[p] EXCEPT !.title = NotEmpty(e.title, @),
                               !.text  = NotEmpty(e.text, @),
                               !.thumb = Given(t, @)]
<1>3. p \in Items /\ HasRow(p) /\ row[p] \in Row /\ row \in [Items -> Row]
  BY DEF UpdatePostByAdmin, TypeInv, Items
<1>4. r.state = "live" /\ r.images = row[p].images /\ r.thumb = Given(t, row[p].thumb)
  BY <1>3 DEF Row, HasRow
<1>5. row' = [row EXCEPT ![p] = r]
  BY <1>2
<1> HIDE DEF r
<1>6. row'[p] = r /\ \A j \in Items \ {p} : row'[j] = row[j]
  BY <1>3, <1>5
<1>7. (t \in Thumbs /\ object[t] = "new") \/ t = None
  BY <1>2 DEF FreshThumbs
<1>8. \/ row'[p].thumb = row[p].thumb /\ object' = object
      \/ /\ row'[p].thumb \in Thumbs /\ object[row'[p].thumb] = "new"
         /\ object' = Put(object, {row'[p].thumb}, "stored")
  BY <1>2, <1>4, <1>6, <1>7, ContentAssumption DEF Given
<1> QED BY <1>1, <1>3, <1>4, <1>6, <1>8 DEF UpdatePostByAdmin

LEMMA PurgeIs ==
  ASSUME TypeInv,
         (\E S \in (SUBSET Posts) \ {{}} : BulkDeletePosts(S)) \/ \E u \in Users : DeleteUser(u)
  PROVE  \E S \in SUBSET Items :
           /\ \A i \in S : HasRow(i)
           /\ DeleteRows(S, {})
           /\ leaked' = leaked \cup UNION {Images(i) : i \in S}
           /\ UNCHANGED <<point, stale, object, call, torn>>
<1>1. ASSUME NEW S \in SUBSET Posts, BulkDeletePosts(S)
      PROVE  /\ S \in SUBSET Items /\ \A i \in S : HasRow(i)
             /\ DeleteRows(S, {})
             /\ leaked' = leaked \cup UNION {Images(i) : i \in S}
             /\ UNCHANGED <<point, stale, object, call, torn>>
  BY <1>1 DEF BulkDeletePosts, Items
<1>2. ASSUME NEW u \in Users, DeleteUser(u)
      PROVE  \E S \in SUBSET Items :
               /\ \A i \in S : HasRow(i)
               /\ DeleteRows(S, {})
               /\ leaked' = leaked \cup UNION {Images(i) : i \in S}
               /\ UNCHANGED <<point, stale, object, call, torn>>
  <2> DEFINE S == {i \in Posts \cup Blogs : Author[i] = u /\ HasRow(i)}
  <2>1. S \in SUBSET Items /\ \A i \in S : HasRow(i)
    BY DEF Items
  <2>2. DeleteRows(S, {}) /\ leaked' = leaked \cup UNION {Images(i) : i \in S}
        /\ UNCHANGED <<point, stale, object, call, torn>>
    BY <1>2 DEF DeleteUser
  <2> HIDE DEF S
  <2> QED BY <2>1, <2>2
<1> QED BY <1>1, <1>2

-----------------------------------------------------------------------------
(* Calls and the rows they are about.                                      *)

\* What is inserted is new; what is cleaned up is gone; the rest is about a row that
\* was made.
CallsInv ==
    \A c \in Calls :
      /\ call[c].pc = "insert" =>
           /\ row[call[c].item].state = "none"
           /\ \A d \in Calls : call[d].pc = "insert" /\ call[d].item = call[c].item => c = d
      /\ call[c].pc \in {"files", "points"} => \A i \in call[c].ids : row[i].state = "deleted"
      /\ call[c].pc = "files" => call[c].ids = {call[c].item}
      /\ call[c].pc \notin {"idle", "insert"} /\ call[c].item \in Items
           => row[call[c].item].state # "none"

LEMMA CallsKept ==
  ASSUME TypeInv, CallsInv, NEW c \in Calls, Others(c),
         \A i \in Items : /\ row[i].state = "deleted" => row'[i].state = "deleted"
                          /\ row[i].state # "none" => row'[i].state # "none",
         \A d \in Calls \ {c} : call[d].pc = "insert" =>
           /\ row'[call[d].item].state = row[call[d].item].state
           /\ call'[c].pc = "insert" => call[d].item # call'[c].item,
         call'[c].pc = "insert" => row'[call'[c].item].state = "none",
         call'[c].pc \in {"files", "points"} => \A i \in call'[c].ids : row'[i].state = "deleted",
         call'[c].pc = "files" => call'[c].ids = {call'[c].item},
         call'[c].pc \notin {"idle", "insert"} /\ call'[c].item \in Items
           => row'[call'[c].item].state # "none"
  PROVE  CallsInv'
<1>1. \A d \in Calls : call[d].ids \subseteq Items
  BY DEF TypeInv, CallType
<1> QED BY <1>1 DEF CallsInv, Others

\* No row comes or goes.
LEMMA CallsGoOn ==
  ASSUME TypeInv, CallsInv, NEW c \in Calls, Others(c),
         \A i \in Items : row'[i].state = row[i].state, call'[c].pc # "insert",
         \/ call'[c].pc = "idle"
         \/ /\ call'[c].item = call[c].item /\ call'[c].ids = call[c].ids
            /\ call[c].pc \notin {"idle", "insert"}
            /\ call'[c].pc = "files" => call[c].pc = "files"
            /\ call'[c].pc = "points" => call[c].pc = "files"
         \/ /\ call'[c].item \in Items /\ HasRow(call'[c].item)
            /\ call'[c].pc \notin {"files", "points"}
  PROVE  CallsInv'
<1>1. \A d \in Calls : call[d].pc = "insert" => call[d].item \in Items
  BY DEF TypeInv, CallOK, Items
<1>2. \A d \in Calls : call[d].ids \subseteq Items
  BY DEF TypeInv, CallType
<1> QED BY <1>1, <1>2, CallsKept DEF CallsInv, HasRow

LEMMA CallsEnd ==
  ASSUME TypeInv, CallsInv, NEW S \in SUBSET Calls, Abandon(S),
         \A i \in Items : row'[i].state = row[i].state
  PROVE  CallsInv'
<1>1. \A c \in Calls : IF c \in S THEN call'[c].pc = "idle" ELSE call'[c] = call[c]
  BY IdleOK DEF Abandon
<1>2. \A d \in Calls : call[d].pc = "insert" => call[d].item \in Items
  BY DEF TypeInv, CallOK, Items
<1>3. \A d \in Calls : call[d].ids \subseteq Items
  BY DEF TypeInv, CallType
<1> QED BY <1>1, <1>2, <1>3 DEF CallsInv

LEMMA CallsInitial == Init => CallsInv
  BY IdleOK DEF Init, CallsInv

LEMMA CallsBegin ==
  ASSUME TypeInv, CallsInv, NEW c \in Calls,
         \/ \E p \in Posts : DeletePost(c, p)
         \/ \E p \in Posts, e \in Edits : CreatePost(c, p, e) \/ UpdatePost(c, p, e)
         \/ \E b \in Blogs, e \in Edits : UpdateBlog(c, b, e)
         \/ \E g \in Categories, e \in Edits : UpdateCategory(c, g, e)
         \/ \E g \in Categories : RemoveCategory(c, g)
  PROVE  CallsInv'
<1>1. ASSUME NEW p \in Posts, NEW e \in Edits, CreatePost(c, p, e)
      PROVE  CallsInv'
  <2>1. /\ Others(c) /\ call'[c].pc = "insert" /\ call'[c].item = p /\ row[p].state = "none"
        /\ p \notin InProgress(c) /\ row' = row
    BY <1>1, CreatePostIs
  <2>2. \A d \in Calls \ {c} : call[d].pc = "insert" => call[d].item # p
    BY <2>1 DEF InProgress
  <2> QED BY <2>1, <2>2, CallsKept
<1>2. ASSUME NEW p \in Posts, NEW e \in Edits, UpdatePost(c, p, e)
      PROVE  CallsInv'
  <2>1. Others(c) /\ row' = row /\ call'[c].pc \in Preparing /\ call'[c].item = p /\ HasRow(p)
        /\ p \in Items
    BY <1>2, UpdatePostIs
  <2> QED BY <2>1, CallsGoOn DEF Preparing
<1>3. CASE \/ \E p \in Posts : DeletePost(c, p)
           \/ \E b \in Blogs, e \in Edits : UpdateBlog(c, b, e)
           \/ \E g \in Categories, e \in Edits : UpdateCategory(c, g, e)
           \/ \E g \in Categories : RemoveCategory(c, g)
  <2>1. Others(c) /\ row' = row /\ call'[c].pc \in {"delete", "write"}
        /\ call'[c].item \in Items /\ HasRow(call'[c].item)
    BY <1>3, ReadIs
  <2> QED BY <2>1, CallsGoOn
<1> QED BY <1>1, <1>2, <1>3

LEMMA CallsPrepare ==
  ASSUME TypeInv, CallsInv, NEW c \in Calls,
         DeleteThumbnail(c) \/ UploadImages(c) \/ DeleteImages(c) \/ DeleteFiles(c)
  PROVE  CallsInv'
<1>1. CASE DeleteThumbnail(c) \/ UploadImages(c) \/ DeleteFiles(c)
  <2>1. /\ Others(c) /\ row' = row /\ call'[c].item = call[c].item /\ call'[c].ids = call[c].ids
        /\ call[c].pc \in {"thumbnail", "upload", "files"}
        /\ call'[c].pc \in {"images", "upload", "video", "write", "points"}
        /\ call'[c].pc = "points" => call[c].pc = "files"
    <3>1. CASE DeleteThumbnail(c)
      BY <3>1, DeleteThumbnailIs, AfterSteps DEF GoesOn
    <3>2. CASE UploadImages(c)
      BY <3>2, UploadImagesIs, AfterSteps DEF GoesOn
    <3>3. CASE DeleteFiles(c)
      BY <3>3, DeleteFilesIs DEF GoesOn
    <3> QED BY <1>1, <3>1, <3>2, <3>3
  <2> QED BY <2>1, CallsGoOn
<1>2. CASE DeleteImages(c)
  <2> DEFINE i == call[c].item
  <2>1. \A j \in Items : row'[j].state = row[j].state
    <3>1. \/ row' = row
          \/ row' = [row EXCEPT ![i] = [row[i] EXCEPT !.images = row[i].images \ Dropping(call[c])]]
      BY <1>2, DeleteImagesIs
    <3>2. row \in [Items -> Row] /\ i \in Items
      BY <1>2, DeleteImagesIs DEF TypeInv
    <3> QED BY <3>1, <3>2 DEF Row
  <2>2. /\ Others(c) /\ call[c].pc = "images"
        /\ \/ call'[c].pc = "idle"
           \/ /\ call'[c].item = call[c].item /\ call'[c].ids = call[c].ids
              /\ call'[c].pc \in {"upload", "video", "write"}
    BY <1>2, DeleteImagesIs, AfterSteps, IdleOK DEF GoesOn
  <2> QED BY <2>1, <2>2, CallsGoOn
<1> QED BY <1>1, <1>2

LEMMA CallsWrite ==
  ASSUME TypeInv, CallsInv, NEW c \in Calls,
         \/ DeleteVideo(c) \/ WritePost(c) \/ WriteBlog(c) \/ WriteCategory(c)
  PROVE  CallsInv'
<1>1. CASE DeleteVideo(c)
  <2>1. \A j \in Items : row'[j].state = row[j].state
    BY <1>1, DeleteVideoIs DEF HasRow
  <2>2. \/ Abandon({c})
        \/ /\ Others(c) /\ call[c].pc = "video" /\ call'[c].item = call[c].item
           /\ call'[c].ids = call[c].ids /\ call'[c].pc = "write"
    BY <1>1, DeleteVideoIs DEF GoesOn
  <2> QED BY <2>1, <2>2, CallsGoOn, CallsEnd
<1>2. CASE WritePost(c) \/ WriteBlog(c) \/ WriteCategory(c)
  <2>1. (\A j \in Items : row'[j].state = row[j].state) /\ Others(c)
        /\ call[c].item \in Items /\ HasRow(call[c].item)
    BY <1>2, WriteIs DEF HasRow
  <2>2. call'[c].pc \in {"idle", "update"} /\ (call'[c].pc = "update" => call'[c].item = call[c].item)
    BY <1>2, WriteIs, EmbeddingIs
  <2> QED BY <2>1, <2>2, CallsGoOn
<1> QED BY <1>1, <1>2

LEMMA CallsNewRow ==
  ASSUME TypeInv, CallsInv, NEW c \in Calls,
         \/ InsertPost(c)
         \/ \E b \in Blogs, e \in Edits : CreateBlog(c, b, e)
         \/ \E g \in Categories, e \in Edits : CreateCategory(c, g, e)
  PROVE  CallsInv'
<1> DEFINE i == call'[c].item
<1>1. /\ Others(c) /\ i \in Items /\ row'[i].state = "live" /\ call'[c].pc = "upsert"
      /\ \A j \in Items \ {i} : row'[j] = row[j]
      /\ \/ call[c].pc = "insert" /\ call[c].item = i
         \/ row[i].state = "none" /\ i \notin Posts
  BY NewRowIs
<1>2. row[i].state = "none"
  BY <1>1 DEF CallsInv
<1>3. \A d \in Calls \ {c} : call[d].pc = "insert" => call[d].item # i /\ call[d].item \in Items
  BY <1>1 DEF CallsInv, TypeInv, CallOK, Items
<1> HIDE DEF i
<1>4. call'[c].item = i
  BY DEF i
<1> QED BY <1>1, <1>2, <1>3, <1>4, CallsKept

LEMMA CallsDelete ==
  ASSUME TypeInv, CallsInv, NEW c \in Calls,
         \/ FinishDeletePost(c) \/ FinishRemoveCategory(c)
         \/ \E S \in (SUBSET Blogs) \ {{}} : DeleteBlogs(c, S)
  PROVE  CallsInv'
<1>1. PICK S \in SUBSET Items :
           /\ \A i \in S : HasRow(i)
           /\ DeleteRows(S, S)
           /\ \A i \in call'[c].ids \ S : row[i].state = "deleted"
           /\ Others(c) /\ call'[c].pc \in {"files", "points"}
           /\ \/ /\ call'[c].item = call[c].item /\ call'[c].ids = {call[c].item}
                 /\ call[c].item \in Items /\ S = {call[c].item}
              \/ call'[c].item = None /\ call'[c].pc = "points"
  BY DeleteIs
<1>2. None \notin Items
  BY ContentAssumption
<1>3. \A i \in Items : row'[i].state = IF i \in S THEN "deleted" ELSE row[i].state
  BY <1>1 DEF DeleteRows, Deleted
<1>4. \A d \in Calls : call[d].pc = "insert" => call[d].item \in Items \ S
  BY <1>1 DEF CallsInv, TypeInv, CallOK, Items, HasRow
<1>5. call'[c].ids \subseteq Items
  BY TypeDeletes DEF TypeInv, CallType
<1> QED BY <1>1, <1>2, <1>3, <1>4, <1>5, CallsKept

\* No call changes, and rows are written or deleted.
LEMMA CallsStay ==
  ASSUME TypeInv, CallsInv, call' = call,
         \A i \in Items : row'[i].state = row[i].state
                          \/ (row[i].state = "live" /\ row'[i].state = "deleted")
  PROVE  CallsInv'
<1>1. \A d \in Calls : call[d].pc = "insert" => call[d].item \in Items
  BY DEF TypeInv, CallOK, Items
<1>2. \A d \in Calls : call[d].ids \subseteq Items
  BY DEF TypeInv, CallType
<1> QED BY <1>1, <1>2 DEF CallsInv

LEMMA CallsStep == TypeInv /\ CallsInv /\ [Next]_vars => CallsInv'
<1> SUFFICES ASSUME TypeInv, CallsInv, [Next]_vars PROVE CallsInv'
  OBVIOUS
<1>1. CASE Crash
  BY <1>1, CallsEnd DEF Crash
<1>2. ASSUME NEW c \in Calls, CallFails(c) PROVE CallsInv'
  BY <1>2, CallsEnd DEF CallFails
<1>3. ASSUME NEW c \in Calls,
             UpsertEmbedding(c) \/ WriteVectors(c) \/ DropVectors(c) \/ DeleteThePoints(c)
      PROVE  CallsInv'
  <2>1. row' = row
    BY <1>3 DEF UpsertEmbedding, WriteVectors, DropVectors, DeleteThePoints
  <2>2. CASE UpsertEmbedding(c) \/ DeleteThePoints(c)
    <3>1. call'[c].pc = "idle" /\ Others(c)
      BY <2>2, Steps, IdleOK DEF UpsertEmbedding, DeleteThePoints
    <3> QED BY <2>1, <3>1, CallsGoOn
  <2>3. CASE WriteVectors(c) \/ DropVectors(c)
    <3>1. PICK v : call'[c] = Embedding(call[c].item, v) /\ Others(c) /\ call[c].pc = "update"
      BY <2>3, Steps DEF WriteVectors, DropVectors, Remaining, TypeInv
    <3>2. call[c].item \in Items /\ row[call[c].item].state # "none"
      BY <3>1 DEF CallsInv, TypeInv, CallOK
    <3>3. call'[c].pc = "idle" \/ (call'[c].pc = "update" /\ call'[c].item = call[c].item)
      BY <3>1, EmbeddingIs
    <3> QED BY <2>1, <3>1, <3>2, <3>3, CallsKept DEF CallsInv
  <2> QED BY <1>3, <2>2, <2>3
<1>4. ASSUME NEW c \in Calls, CallStep(c) PROVE CallsInv'
  BY <1>1, <1>2, <1>3, <1>4, CallsPrepare, CallsWrite, CallsNewRow, CallsDelete
  DEF CallStep, PointMissing
<1>5. CASE UNCHANGED vars \/ SyncGoesOn \/ \E K \in Collections : SyncEmbeddings(K)
  <2>1. call' = call /\ row' = row
    BY <1>5 DEF vars, SyncGoesOn, SyncStep, FetchItems, UpsertItems, SyncFails, SyncEmbeddings,
                StartSync
  <2> QED BY <2>1, CallsStay
<1>6. CASE \E p \in Posts, e \in Edits : UpdatePostByAdmin(p, e)
  BY <1>6, AdminIs, CallsStay DEF HasRow
<1>7. CASE (\E S \in (SUBSET Posts) \ {{}} : BulkDeletePosts(S)) \/ \E u \in Users : DeleteUser(u)
  <2>1. PICK S \in SUBSET Items :
          (\A i \in S : HasRow(i)) /\ DeleteRows(S, {}) /\ call' = call
    BY <1>7, PurgeIs
  <2>2. \A i \in Items : row'[i].state = IF i \in S THEN "deleted" ELSE row[i].state
    BY <2>1 DEF DeleteRows, Deleted
  <2> QED BY <2>1, <2>2, CallsStay DEF HasRow
<1> QED BY <1>1, <1>4, <1>5, <1>6, <1>7, CallsBegin, CallsNewRow, CallsDelete DEF Next

-----------------------------------------------------------------------------
(* Images.                                                                 *)

\* An image has one place: a post, or the call that has uploaded it; who has read a
\* post knows images of that post only.
ImagesApart ==
    /\ \A i, j \in Items : \A f \in Images(i) : f \in Images(j) => i = j
    /\ \A c \in Calls : \A f \in call[c].add :
         /\ \A i \in Items : f \notin Images(i)
         /\ \A d \in Calls : f \notin call[d].seen.images /\ (f \in call[d].add => c = d)
    /\ \A c \in Calls, i \in Items : \A f \in call[c].seen.images :
         f \in Images(i) => call[c].item = i

NewUnused ==
    \A f \in Files : object[f] = "new" =>
      /\ \A i \in Items : f \notin Images(i)
      /\ \A c \in Calls : f \notin call[c].add \cup call[c].seen.images

\* Where the images are that are in the bucket.
PlacesAreStored ==
    \A f \in Files \ leaked :
      ((\E c \in Calls : f \in call[c].add) \/ \E i \in Items : f \in Images(i))
        => object[f] = "stored"

StoredHavePlaces ==
    \A f \in Files \ leaked : object[f] = "stored" =>
      \/ \E i \in Items : f \in Images(i)
      \/ \E c \in Calls : f \in call[c].add
      \/ \E c \in Calls : call[c].pc = "files" /\ f \in call[c].seen.images

ImagesInv == ImagesApart /\ NewUnused /\ PlacesAreStored /\ StoredHavePlaces

LEMMA ImagesInitial == Init => ImagesInv
  BY IdleOK DEF Init, ImagesInv, ImagesApart, NewUnused, PlacesAreStored, StoredHavePlaces, Images,
                NoRow

LEMMA ImagesSuffice == TypeInv /\ ImagesInv => ImagesMatchRows
<1> SUFFICES ASSUME TypeInv, ImagesInv, NEW f \in Files \ leaked
             PROVE  /\ (\E p \in Posts : f \in Images(p)) => object[f] = "stored"
                    /\ object[f] = "stored" => f \in Held \/ \E p \in Posts : f \in Images(p)
  BY DEF ImagesMatchRows
<1>1. \A i \in Items : f \in Images(i) => i \in Posts
  BY DEF TypeInv, RowOK, Images
<1>2. (\E c \in Calls : f \in call[c].add) => f \in Held
  BY DEF Held
<1>3. (\E c \in Calls : call[c].pc = "files" /\ f \in call[c].seen.images) => f \in Held
  BY DEF Held
<1> QED BY <1>1, <1>2, <1>3 DEF ImagesInv, PlacesAreStored, StoredHavePlaces, Items

\* A call knows no more images than before, and drops only what leaked.
LEMMA ImagesKept ==
  ASSUME TypeInv, ImagesInv, NEW c \in Calls, Others(c), leaked \subseteq leaked',
         \A i \in Items : row'[i].images = row[i].images,
         \A f \in Files : object'[f] = object[f],
         call'[c].add \subseteq call[c].add, call[c].add \ call'[c].add \subseteq leaked',
         \/ call'[c].seen.images = {}
         \/ call'[c].seen = call[c].seen /\ call'[c].item = call[c].item
         \/ call'[c].item \in Items /\ call'[c].seen = row[call'[c].item],
         call[c].pc = "files" => call[c].seen.images \subseteq leaked'
  PROVE  ImagesInv'
<1>1. \A d \in Calls : call[d].add \subseteq Files /\ call[d].seen.images \subseteq Files
  BY DEF TypeInv, CallType, Row
<1>2. ImagesApart'
  BY DEF ImagesInv, ImagesApart, Others, Images
<1>3. NewUnused'
  BY DEF ImagesInv, NewUnused, Others, Images
<1>4. PlacesAreStored'
  BY DEF ImagesInv, PlacesAreStored, Others, Images
<1>5. StoredHavePlaces'
  BY DEF ImagesInv, StoredHavePlaces, Others, Images
<1> QED BY <1>2, <1>3, <1>4, <1>5 DEF ImagesInv

\* A call has uploaded images.
LEMMA ImagesUploaded ==
  ASSUME TypeInv, ImagesInv, NEW c \in Calls, Others(c), leaked' = leaked, row' = row,
         call[c].add = {}, call[c].pc # "files",
         call'[c].add \subseteq Files, \A f \in call'[c].add : object[f] = "new",
         NEW T \in SUBSET Thumbs, object' = Put(object, call'[c].add \cup T, "stored"),
         \/ call'[c].seen.images = {}
         \/ call'[c].seen = call[c].seen /\ call'[c].item = call[c].item
  PROVE  ImagesInv'
<1>1. \A f \in Files : object'[f] = IF f \in call'[c].add THEN "stored" ELSE object[f]
  BY ContentAssumption DEF Put
<1>2. ImagesApart'
  <2>1. \A i, j \in Items : \A f \in Images(i)' : f \in Images(j)' => i = j
    BY DEF ImagesInv, ImagesApart, Images
  <2>2. \A d \in Calls : \A f \in call'[d].add :
          /\ \A i \in Items : f \notin Images(i)'
          /\ \A e \in Calls : f \notin call'[e].seen.images /\ (f \in call'[e].add => d = e)
    <3>1. \A f \in call'[c].add :
            /\ \A i \in Items : f \notin Images(i)
            /\ \A e \in Calls : f \notin call[e].seen.images /\ f \notin call[e].add
      BY DEF ImagesInv, NewUnused
    <3> QED BY <3>1 DEF ImagesInv, ImagesApart, Others, Images
  <2>3. \A d \in Calls, i \in Items : \A f \in call'[d].seen.images : f \in Images(i)' => call'[d].item = i
    BY DEF ImagesInv, ImagesApart, Others, Images
  <2> QED BY <2>1, <2>2, <2>3 DEF ImagesApart
<1>3. NewUnused'
  BY <1>1 DEF ImagesInv, NewUnused, Others, Images
<1>4. PlacesAreStored'
  BY <1>1 DEF ImagesInv, PlacesAreStored, Others, Images
<1>5. StoredHavePlaces'
  <2>1. \A d \in Calls : call[d].add \subseteq call'[d].add
    BY DEF Others
  <2>2. \A d \in Calls : call[d].pc = "files" => call'[d] = call[d]
    BY DEF Others
  <2>3. ASSUME NEW f \in Files \ leaked, object'[f] = "stored"
        PROVE  \/ \E i \in Items : f \in row[i].images
               \/ \E d \in Calls : f \in call'[d].add
               \/ \E d \in Calls : call'[d].pc = "files" /\ f \in call'[d].seen.images
    <3>1. CASE f \in call'[c].add
      BY <3>1
    <3>2. CASE f \notin call'[c].add
      <4>1. \/ \E i \in Items : f \in row[i].images
            \/ \E d \in Calls : f \in call[d].add
            \/ \E d \in Calls : call[d].pc = "files" /\ f \in call[d].seen.images
        BY <1>1, <2>3, <3>2 DEF ImagesInv, StoredHavePlaces, Images
      <4> QED BY <2>1, <2>2, <4>1
    <3> QED BY <3>1, <3>2
  <2> QED BY <2>3 DEF StoredHavePlaces, Images
<1> QED BY <1>2, <1>3, <1>4, <1>5 DEF ImagesInv

\* A call gives the images it has uploaded to a post.
LEMMA ImagesGiven ==
  ASSUME TypeInv, ImagesInv, NEW c \in Calls, Others(c), leaked' = leaked, object' = object,
         NEW i \in Items, row'[i].images = row[i].images \cup call[c].add,
         \A j \in Items \ {i} : row'[j] = row[j],
         call'[c].add = {}, call'[c].seen.images = {}, call[c].pc # "files"
  PROVE  ImagesInv'
<1>1. ImagesApart'
  BY DEF ImagesInv, ImagesApart, Others, Images
<1>2. NewUnused'
  BY DEF ImagesInv, NewUnused, Others, Images
<1>3. PlacesAreStored'
  BY DEF ImagesInv, PlacesAreStored, Others, Images
<1>4. StoredHavePlaces'
  BY DEF ImagesInv, StoredHavePlaces, Others, Images
<1> QED BY <1>1, <1>2, <1>3, <1>4 DEF ImagesInv

\* The images of deleted rows are left to a call, or have leaked.
LEMMA ImagesDeleted ==
  ASSUME TypeInv, ImagesInv, NEW S \in SUBSET Items, NEW kept, DeleteRows(S, kept), object' = object,
         leaked \subseteq leaked',
         \A d \in Calls : call'[d].add = call[d].add,
         \A d \in Calls : \/ call'[d].seen.images = {}
                          \/ call'[d].seen = call[d].seen /\ call'[d].item = call[d].item,
         \A d \in Calls : call[d].pc = "files" => call'[d] = call[d],
         \A i \in S : \A f \in Images(i) \ leaked' :
           \E d \in Calls : call'[d].pc = "files" /\ f \in call'[d].seen.images
  PROVE  ImagesInv'
<1>1. \A i \in Items : row'[i].images = IF i \in S THEN {} ELSE row[i].images
  BY DEF DeleteRows, Deleted, NoRow
<1>2. ImagesApart'
  BY <1>1 DEF ImagesInv, ImagesApart, Images
<1>3. NewUnused'
  BY <1>1 DEF ImagesInv, NewUnused, Images
<1>4. PlacesAreStored'
  BY <1>1 DEF ImagesInv, PlacesAreStored, Images
<1>5. StoredHavePlaces'
  BY <1>1 DEF ImagesInv, StoredHavePlaces, Images
<1> QED BY <1>2, <1>3, <1>4, <1>5 DEF ImagesInv

LEMMA ImagesRemove ==
  ASSUME TypeInv, ImagesInv, NEW c \in Calls, DeleteImages(c)
  PROVE  ImagesInv'
<1> DEFINE i == call[c].item
           S == Dropping(call[c])
<1>1. /\ Others(c) /\ i \in Items /\ call[c].pc = "images"
      /\ call[c].add = {} /\ call'[c].add = {} /\ S \subseteq Files
      /\ object' = object \/ object' = Put(object, S, "deleted")
      /\ \/ call'[c].seen = call[c].seen /\ call'[c].item = call[c].item
         \/ call'[c].seen.images = {}
      /\ leaked \subseteq leaked'
  <2>1. /\ Others(c) /\ i \in Items /\ call[c].pc = "images"
        /\ call[c].add = {} /\ call'[c].add = {} /\ S \subseteq Files
        /\ object' = object \/ object' = Put(object, S, "deleted")
    BY DeleteImagesIs
  <2>2. CASE GoesOn(call[c], call'[c]) /\ leaked' = leaked
    BY <2>1, <2>2 DEF GoesOn
  <2>3. CASE call'[c] = Idle /\ leaked' = leaked \cup S
    BY <2>1, <2>3, IdleOK DEF NoRow
  <2> QED BY <2>2, <2>3, DeleteImagesIs
<1>2. S \subseteq call[c].seen.images
  BY DEF Dropping
<1>3. \A j \in Items : \/ row'[j].images = row[j].images
                       \/ j = i /\ row'[j].images = row[j].images \ S
  <2>1. row[i] \in Row /\ row \in [Items -> Row]
    BY <1>1 DEF TypeInv
  <2>2. row' = row \/ row' = [row EXCEPT ![i] = [row[i] EXCEPT !.images = row[i].images \ S]]
    BY DeleteImagesIs
  <2> QED BY <1>1, <2>1, <2>2 DEF Row
<1>4. \/ S \subseteq leaked' /\ leaked' = leaked \cup S
      \/ leaked' = leaked /\ object' = Put(object, S, "deleted") /\ row'[i].images \cap S = {}
  <2>1. CASE leaked' = leaked \cup S
    BY <2>1
  <2>2. CASE leaked' # leaked \cup S
    <3>1. /\ row' = row => ~HasRow(i) \/ Images(i) \cap S = {}
          /\ object' = Put(object, S, "deleted") /\ leaked' = leaked
          /\ row' = row \/ row' = [row EXCEPT ![i] = [row[i] EXCEPT !.images = row[i].images \ S]]
      BY <2>2, DeleteImagesIs
    <3>2. ~HasRow(i) => Images(i) = {}
      BY <1>1 DEF TypeInv, RowOK, HasRow, Images
    <3>3. row[i] \in Row /\ row \in [Items -> Row]
      BY <1>1 DEF TypeInv
    <3>4. row' # row => row'[i].images = row[i].images \ S
      BY <1>1, <3>1, <3>3 DEF Row
    <3> QED BY <3>1, <3>2, <3>4 DEF Images
  <2> QED BY <2>1, <2>2
<1>5. \A f \in Files : object'[f] = object[f] \/ (f \in S /\ object'[f] = "deleted")
  BY <1>1 DEF Put
<1>6. \A f \in S \ leaked' : object'[f] = "deleted"
  BY <1>1, <1>4, <1>5 DEF Put
<1>7. \A d \in Calls : call'[d].add = call[d].add
  BY <1>1 DEF Others
<1>8. \A d \in Calls : \/ call'[d].seen = call[d].seen /\ call'[d].item = call[d].item
                       \/ call'[d].seen.images = {}
  BY <1>1 DEF Others
<1>9. \A d \in Calls : call[d].pc = "files" => call'[d] = call[d]
  BY <1>1 DEF Others
<1>10. \A j \in Items : \A f \in Images(j) : f \in S => j = i
  BY <1>1, <1>2 DEF ImagesInv, ImagesApart
<1> HIDE DEF S, i
<1>11. ImagesApart'
  BY <1>3, <1>7, <1>8 DEF ImagesInv, ImagesApart, Images
<1>12. NewUnused'
  BY <1>3, <1>5, <1>7, <1>8 DEF ImagesInv, NewUnused, Images
<1>13. \A f \in S, d \in Calls : f \notin call[d].add
  BY <1>2 DEF ImagesInv, ImagesApart, S
<1>14. PlacesAreStored'
  <2>1. ASSUME NEW f \in Files \ leaked',
               (\E d \in Calls : f \in call'[d].add) \/ \E j \in Items : f \in Images(j)'
        PROVE  object'[f] = "stored"
    <3>1. (\E d \in Calls : f \in call[d].add) \/ \E j \in Items : f \in Images(j)
      BY <1>3, <1>7, <2>1 DEF Images
    <3>2. object[f] = "stored"
      BY <1>4, <2>1, <3>1 DEF ImagesInv, PlacesAreStored
    <3>3. f \notin S
      BY <1>3, <1>4, <1>7, <1>10, <1>13, <2>1 DEF Images
    <3> QED BY <1>5, <2>1, <3>2, <3>3
  <2> QED BY <2>1 DEF PlacesAreStored
<1>15. StoredHavePlaces'
  <2>1. ASSUME NEW f \in Files \ leaked', object'[f] = "stored"
        PROVE  \/ \E j \in Items : f \in row'[j].images
               \/ \E d \in Calls : f \in call'[d].add
               \/ \E d \in Calls : call'[d].pc = "files" /\ f \in call'[d].seen.images
    <3>1. f \notin S /\ object[f] = "stored" /\ f \notin leaked
      BY <1>4, <1>5, <1>6, <2>1
    <3>2. \/ \E j \in Items : f \in row[j].images
          \/ \E d \in Calls : f \in call[d].add
          \/ \E d \in Calls : call[d].pc = "files" /\ f \in call[d].seen.images
      BY <3>1 DEF ImagesInv, StoredHavePlaces, Images
    <3> QED BY <1>3, <1>7, <1>9, <3>1, <3>2
  <2> QED BY <2>1 DEF StoredHavePlaces, Images
<1> QED BY <1>11, <1>12, <1>14, <1>15 DEF ImagesInv

LEMMA ImagesCleaned ==
  ASSUME TypeInv, CallsInv, ImagesInv, NEW c \in Calls, DeleteFiles(c)
  PROVE  ImagesInv'
<1> DEFINE S == call[c].seen.images
<1>1. /\ Others(c) /\ call[c].pc = "files" /\ call[c].add = {} /\ call'[c].add = {}
      /\ call'[c].seen = call[c].seen /\ call'[c].item = call[c].item
      /\ S \subseteq Files /\ object' = Put(object, S, "deleted")
      /\ row' = row /\ leaked' = leaked
  BY DeleteFilesIs DEF GoesOn
<1>2. \A i \in Items : S \cap Images(i) = {}
  <2>1. \A i \in Items : S \cap Images(i) # {} => call[c].item = i
    BY DEF ImagesInv, ImagesApart
  <2>2. call[c].item \in Items => row[call[c].item].state = "deleted"
    BY <1>1 DEF CallsInv
  <2> QED BY <2>1, <2>2 DEF TypeInv, RowOK, Images
<1>3. \A d \in Calls : S \cap call[d].add = {}
  BY DEF ImagesInv, ImagesApart
<1>4. \A f \in Files : object'[f] = IF f \in S THEN "deleted" ELSE object[f]
  BY <1>1 DEF Put
<1>5. \A d \in Calls : call'[d].add = call[d].add /\ call'[d].seen = call[d].seen
                       /\ call'[d].item = call[d].item
  BY <1>1 DEF Others
<1>6. \A d \in Calls : call[d].pc = "files" => d = c \/ call'[d].pc = "files"
  BY <1>1 DEF Others
<1>7. ImagesApart'
  BY <1>1, <1>5 DEF ImagesInv, ImagesApart, Images
<1>8. NewUnused'
  BY <1>1, <1>4, <1>5 DEF ImagesInv, NewUnused, Images
<1>9. PlacesAreStored'
  BY <1>1, <1>2, <1>3, <1>4, <1>5 DEF ImagesInv, PlacesAreStored, Images
<1>10. StoredHavePlaces'
  <2>1. ASSUME NEW f \in Files \ leaked, object'[f] = "stored"
        PROVE  \/ \E i \in Items : f \in row[i].images
               \/ \E d \in Calls : f \in call[d].add
               \/ \E d \in Calls : call'[d].pc = "files" /\ f \in call[d].seen.images
    BY <1>4, <1>6, <2>1 DEF ImagesInv, StoredHavePlaces, Images
  <2> QED BY <1>1, <1>5, <2>1 DEF StoredHavePlaces, Images
<1> QED BY <1>7, <1>8, <1>9, <1>10 DEF ImagesInv

LEMMA ImagesAbandoned ==
  ASSUME TypeInv, ImagesInv, NEW S \in SUBSET Calls, Abandon(S), object' = object, 
         \A i \in Items : row'[i].images = row[i].images
  PROVE  ImagesInv'
<1>1. \A c \in Calls : IF c \in S THEN call'[c].add = {} /\ call'[c].seen.images = {}
                       ELSE call'[c] = call[c]
  BY IdleOK DEF Abandon, NoRow
<1>2. leaked \subseteq leaked'
  BY DEF Abandon
<1>3. \A c \in S : call[c].pc \notin {"update", "upsert"} => call[c].add \subseteq leaked'
  BY DEF Abandon
<1>4. \A c \in S : call[c].pc = "files" => call[c].seen.images \subseteq leaked'
  BY DEF Abandon
<1>5. \A c \in S : call[c].add \subseteq leaked'
  BY <1>3 DEF TypeInv, CallOK
<1>6. ImagesApart'
  BY <1>1 DEF ImagesInv, ImagesApart, Images
<1>7. NewUnused'
  BY <1>1 DEF ImagesInv, NewUnused, Images
<1>8. PlacesAreStored'
  BY <1>1, <1>2 DEF ImagesInv, PlacesAreStored, Images
<1>9. StoredHavePlaces'
  <2>1. ASSUME NEW f \in Files \ leaked', object[f] = "stored"
        PROVE  \/ \E i \in Items : f \in row[i].images
               \/ \E c \in Calls : f \in call'[c].add
               \/ \E c \in Calls : call'[c].pc = "files" /\ f \in call'[c].seen.images
    <3>1. \/ \E i \in Items : f \in row[i].images
          \/ \E d \in Calls : f \in call[d].add
          \/ \E d \in Calls : call[d].pc = "files" /\ f \in call[d].seen.images
      BY <1>2, <2>1 DEF ImagesInv, StoredHavePlaces, Images
    <3> QED BY <1>1, <1>4, <1>5, <2>1, <3>1
  <2> QED BY <2>1 DEF StoredHavePlaces, Images
<1> QED BY <1>6, <1>7, <1>8, <1>9 DEF ImagesInv

LEMMA ImagesBegin ==
  ASSUME TypeInv, ImagesInv, NEW c \in Calls,
         \/ \E p \in Posts : DeletePost(c, p)
         \/ \E p \in Posts, e \in Edits : CreatePost(c, p, e) \/ UpdatePost(c, p, e)
         \/ \E b \in Blogs, e \in Edits : UpdateBlog(c, b, e)
         \/ \E g \in Categories, e \in Edits : UpdateCategory(c, g, e)
         \/ \E g \in Categories : RemoveCategory(c, g)
  PROVE  ImagesInv'
<1>0. call[c].pc = "idle" => call[c].add = {} /\ call[c].pc # "files"
  BY DEF TypeInv, CallOK
<1>1. ASSUME NEW p \in Posts, NEW e \in Edits, CreatePost(c, p, e)
      PROVE  ImagesInv'
  <2>1. PICK add \in SUBSET Files, t \in Thumbs :
           /\ \A o \in add \cup {t} : object[o] = "new"
           /\ object' = Put(object, add \cup {t}, "stored")
           /\ Others(c) /\ call[c].pc = "idle"
           /\ call'[c].pc = "insert" /\ call'[c].item = p /\ call'[c].seen = NoRow
           /\ call'[c].thumb = t /\ call'[c].add = add
           /\ row[p].state = "none" /\ p \notin InProgress(c) /\ p \in Items
           /\ UNCHANGED <<row, point, sync, stale, forgotten, users, torn, leaked>>
    BY <1>1, CreatePostIs
  <2>2. {t} \in SUBSET Thumbs /\ call'[c].seen.images = {}
    BY <2>1 DEF NoRow
  <2> QED BY <1>0, <2>1, <2>2, ImagesUploaded
<1>2. ASSUME NEW p \in Posts, NEW e \in Edits, UpdatePost(c, p, e)
      PROVE  ImagesInv'
  <2>1. /\ Others(c) /\ call[c].pc = "idle" /\ row' = row /\ leaked' = leaked
        /\ call'[c].item \in Items /\ call'[c].seen = row[call'[c].item] /\ call'[c].add = {}
    BY <1>2, UpdatePostIs
  <2>2. \A f \in Files : object'[f] = object[f]
    <3>1. \/ object' = object
          \/ call'[c].thumb \in Thumbs /\ object' = Put(object, {call'[c].thumb}, "stored")
      BY <1>2, UpdatePostIs
    <3> QED BY <3>1, ContentAssumption DEF Put
  <2> QED BY <1>0, <2>1, <2>2, ImagesKept
<1>3. CASE \/ \E p \in Posts : DeletePost(c, p)
           \/ \E b \in Blogs, e \in Edits : UpdateBlog(c, b, e)
           \/ \E g \in Categories, e \in Edits : UpdateCategory(c, g, e)
           \/ \E g \in Categories : RemoveCategory(c, g)
  <2>1. /\ Others(c) /\ call[c].pc = "idle" /\ row' = row /\ leaked' = leaked /\ object' = object
        /\ call'[c].item \in Items /\ call'[c].add = {}
        /\ call'[c].seen = row[call'[c].item] \/ call'[c].seen.images = {}
    BY <1>3, ReadIs DEF NoRow
  <2> QED BY <1>0, <2>1, ImagesKept
<1> QED BY <1>1, <1>2, <1>3

LEMMA ImagesStep == TypeInv /\ CallsInv /\ ImagesInv /\ [Next]_vars => ImagesInv'
<1> SUFFICES ASSUME TypeInv, CallsInv, ImagesInv, [Next]_vars PROVE ImagesInv'
  OBVIOUS
<1>1. CASE Crash
  BY <1>1, ImagesAbandoned DEF Crash
<1>2. ASSUME NEW c \in Calls, CallFails(c) PROVE ImagesInv'
  BY <1>2, ImagesAbandoned DEF CallFails
<1>3. ASSUME NEW c \in Calls, DeleteThumbnail(c) PROVE ImagesInv'
  <2>1. /\ Others(c) /\ call[c].pc = "thumbnail" /\ call'[c].item = call[c].item
        /\ call'[c].seen = call[c].seen /\ call[c].add = {} /\ call'[c].add = {}
        /\ call[c].seen.thumb \in Thumbs /\ object' = Put(object, {call[c].seen.thumb}, "deleted")
        /\ row' = row /\ leaked' = leaked
    BY <1>3, DeleteThumbnailIs DEF GoesOn
  <2>2. \A f \in Files : object'[f] = object[f]
    BY <2>1, ContentAssumption DEF Put
  <2> QED BY <2>1, <2>2, ImagesKept
<1>4. ASSUME NEW c \in Calls, UploadImages(c) PROVE ImagesInv'
  <2>1. /\ Others(c) /\ call[c].pc = "upload" /\ call'[c].item = call[c].item
        /\ call'[c].seen = call[c].seen
        /\ call'[c].add \in SUBSET Files /\ \A f \in call'[c].add : object[f] = "new"
        /\ object' = Put(object, call'[c].add \cup {}, "stored")
        /\ row' = row /\ leaked' = leaked
    BY <1>4, UploadImagesIs DEF GoesOn
  <2>2. call[c].add = {}
    BY <2>1 DEF TypeInv, CallOK
  <2> QED BY <2>1, <2>2, ImagesUploaded
<1>5. ASSUME NEW c \in Calls, DeleteVideo(c) PROVE ImagesInv'
  <2>1. \A i \in Items : row'[i].images = row[i].images
    BY <1>5, DeleteVideoIs
  <2>2. \/ Abandon({c}) /\ object' = object
        \/ /\ Others(c) /\ call[c].pc = "video" /\ call'[c].item = call[c].item
           /\ call'[c].seen = call[c].seen /\ call'[c].add = call[c].add
           /\ leaked' = leaked /\ object' = object
    BY <1>5, DeleteVideoIs DEF GoesOn
  <2> QED BY <2>1, <2>2, ImagesAbandoned, ImagesKept
<1>6. ASSUME NEW c \in Calls, WritePost(c) \/ WriteBlog(c) \/ WriteCategory(c)
      PROVE  ImagesInv'
  <2>1. PICK i \in Items :
          /\ Others(c) /\ call[c].pc = "write" /\ leaked' = leaked /\ object' = object
          /\ row'[i].images = row[i].images \cup call[c].add
          /\ \A j \in Items \ {i} : row'[j] = row[j]
    BY <1>6, WriteIs
  <2>2. Empties(call'[c])
    BY <1>6, WriteIs, EmbeddingIs
  <2> QED BY <2>1, <2>2, ImagesGiven DEF Empties, NoRow
<1>7. ASSUME NEW c \in Calls,
             \/ InsertPost(c)
             \/ \E b \in Blogs, e \in Edits : CreateBlog(c, b, e)
             \/ \E g \in Categories, e \in Edits : CreateCategory(c, g, e)
      PROVE  ImagesInv'
  <2> DEFINE i == call'[c].item
  <2>1. /\ Others(c) /\ i \in Items /\ Empties(call'[c]) /\ object' = object /\ leaked' = leaked
        /\ \A j \in Items \ {i} : row'[j] = row[j]
        /\ \/ call[c].pc = "insert" /\ call[c].item = i /\ row'[i].images = call[c].add
           \/ call[c].pc = "idle" /\ row[i].state = "none" /\ row'[i].images = {}
    BY <1>7, NewRowIs
  <2>2. row[i].state = "none" /\ call[c].pc # "files"
    BY <2>1 DEF CallsInv
  <2>3. row[i].images = {} /\ (call[c].pc = "idle" => call[c].add = {})
    BY <2>1, <2>2 DEF TypeInv, RowOK, CallOK
  <2> HIDE DEF i
  <2> QED BY <2>1, <2>2, <2>3, ImagesGiven DEF Empties, NoRow
<1>8. ASSUME NEW c \in Calls,
             \/ FinishDeletePost(c) \/ FinishRemoveCategory(c)
             \/ \E S \in (SUBSET Blogs) \ {{}} : DeleteBlogs(c, S)
      PROVE  ImagesInv'
  <2>1. PICK S \in SUBSET Items :
           /\ DeleteRows(S, S) /\ Others(c) /\ call'[c].add = {} /\ object' = object
           /\ \/ /\ call[c].pc = "delete" /\ call'[c].item = call[c].item
                 /\ call'[c].seen = call[c].seen
              \/ call[c].pc = "idle" /\ Empties(call'[c])
           /\ leaked \subseteq leaked'
           /\ \A i \in S : \A f \in Images(i) \ leaked' :
                call'[c].pc = "files" /\ f \in call'[c].seen.images
    BY <1>8, DeleteIs
  <2>2. call[c].add = {} /\ call[c].pc # "files"
    BY <2>1 DEF TypeInv, CallOK
  <2>3. \/ call'[c].seen.images = {}
        \/ call'[c].seen = call[c].seen /\ call'[c].item = call[c].item
    BY <2>1 DEF Empties, NoRow
  <2>4. \A d \in Calls : /\ call'[d].add = call[d].add
                         /\ call[d].pc = "files" => call'[d] = call[d]
                         /\ \/ call'[d].seen.images = {}
                            \/ call'[d].seen = call[d].seen /\ call'[d].item = call[d].item
    BY <2>1, <2>2, <2>3 DEF Others
  <2> QED BY <2>1, <2>4, ImagesDeleted
<1>9. ASSUME NEW c \in Calls,
             UpsertEmbedding(c) \/ WriteVectors(c) \/ DropVectors(c) \/ DeleteThePoints(c)
      PROVE  ImagesInv'
  <2>1. /\ row' = row /\ object' = object /\ leaked' = leaked
        /\ call[c].pc \in {"upsert", "update", "points"}
    BY <1>9 DEF UpsertEmbedding, WriteVectors, DropVectors, DeleteThePoints
  <2>2. Others(c) /\ Empties(call'[c])
    <3>1. CASE UpsertEmbedding(c) \/ DeleteThePoints(c)
      BY <3>1, Steps, IdleOK DEF UpsertEmbedding, DeleteThePoints, Empties
    <3>2. CASE WriteVectors(c) \/ DropVectors(c)
      <4>1. PICK v : call'[c] = Embedding(call[c].item, v) /\ Others(c)
        BY <3>2, Steps DEF WriteVectors, DropVectors, Remaining, TypeInv
      <4> QED BY <4>1, EmbeddingIs
    <3> QED BY <1>9, <3>1, <3>2
  <2>3. call[c].add = {}
    BY <2>1 DEF TypeInv, CallOK
  <2> QED BY <2>1, <2>2, <2>3, ImagesKept DEF Empties, NoRow
<1>10. ASSUME NEW c \in Calls, CallStep(c) PROVE ImagesInv'
  BY <1>1, <1>2, <1>3, <1>4, <1>5, <1>6, <1>7, <1>8, <1>9, <1>10, ImagesRemove, ImagesCleaned
  DEF CallStep, PointMissing
<1>11. ASSUME call' = call, leaked' = leaked, \A f \in Files : object'[f] = object[f],
              \A i \in Items : row'[i].images = row[i].images
       PROVE  ImagesInv'
  BY <1>11 DEF ImagesInv, ImagesApart, NewUnused, PlacesAreStored, StoredHavePlaces, Images
<1>12. CASE UNCHANGED vars \/ SyncGoesOn \/ \E K \in Collections : SyncEmbeddings(K)
  BY <1>11, <1>12 DEF vars, SyncGoesOn, SyncStep, FetchItems, UpsertItems, SyncFails,
                      SyncEmbeddings, StartSync
<1>13. ASSUME NEW p \in Posts, NEW e \in Edits, UpdatePostByAdmin(p, e) PROVE ImagesInv'
  <2>1. /\ call' = call /\ leaked' = leaked /\ \A i \in Items : row'[i].images = row[i].images
        /\ \/ object' = object
           \/ row'[p].thumb \in Thumbs /\ object' = Put(object, {row'[p].thumb}, "stored")
    BY <1>13, AdminIs
  <2>2. \A f \in Files : object'[f] = object[f]
    BY <2>1, ContentAssumption DEF Put
  <2> QED BY <1>11, <2>1, <2>2
<1>14. CASE (\E S \in (SUBSET Posts) \ {{}} : BulkDeletePosts(S)) \/ \E u \in Users : DeleteUser(u)
  <2>1. PICK S \in SUBSET Items :
           /\ DeleteRows(S, {}) /\ leaked' = leaked \cup UNION {Images(i) : i \in S}
           /\ UNCHANGED <<object, call>>
    BY <1>14, PurgeIs
  <2>2. \A i \in S : Images(i) \subseteq leaked'
    BY <2>1
  <2> QED BY <2>1, <2>2, ImagesDeleted
<1> QED BY <1>1, <1>7, <1>8, <1>10, <1>12, <1>13, <1>14, ImagesBegin DEF Next

(* However the updates and deletions of any number of calls interleave, the *)
(* images of the posts are those in the bucket, but for what leaked names.  *)
THEOREM ImagesAreWhereRowsSay == Spec => []ImagesMatchRows
<1>1. TypeInv /\ CallsInv /\ ImagesInv /\ [Next]_vars => (TypeInv /\ CallsInv /\ ImagesInv)'
  BY TypeStep, CallsStep, ImagesStep
<1>2. Spec => [](TypeInv /\ CallsInv /\ ImagesInv)
  BY TypeInitial, CallsInitial, ImagesInitial, <1>1, PTL DEF Spec
<1> QED BY <1>2, ImagesSuffice, PTL

-----------------------------------------------------------------------------
(* Thumbnails.                                                             *)

\* A thumbnail belongs to one post, and who has read it was reading that post; one just
\* uploaded is known to nobody else.
ThumbsApart ==
    /\ \A p, q \in Posts : row[p].thumb # None /\ row[p].thumb = row[q].thumb => p = q
    /\ \A c \in Calls, p \in Posts :
         call[c].seen.thumb # None /\ call[c].seen.thumb = row[p].thumb => call[c].item = p
    /\ \A c, d \in Calls :
         call[c].seen.thumb # None /\ call[c].seen.thumb = call[d].seen.thumb
           => call[c].item = call[d].item

NewThumbsApart ==
    \A c \in Calls : NewThumb(call[c]) =>
      /\ object[call[c].thumb] = "stored"
      /\ \A p \in Posts : call[c].thumb # row[p].thumb
      /\ \A d \in Calls : /\ call[c].thumb # call[d].seen.thumb
                          /\ call[c].thumb = call[d].thumb => c = d

NewThumbsUnused ==
    \A t \in Thumbs : object[t] = "new" =>
      /\ \A p \in Posts : t # row[p].thumb
      /\ \A c \in Calls : t # call[c].thumb /\ t # call[c].seen.thumb

\* t is in the bucket, or a new thumbnail of p is about to be written.
Shown(p, t) == object[t] = "stored" \/ \E c \in Calls : call[c].item = p /\ ThumbGone(call[c])

SeenIsShown ==
    \A c \in Calls : call[c].pc \in Preparing /\ call[c].item \in Posts \ torn =>
      Shown(call[c].item, call[c].seen.thumb)

RowIsShown == \A p \in Posts \ torn : HasRow(p) => Shown(p, row[p].thumb)

SeenThumbs ==
    \A c \in Calls :
      /\ call[c].pc \in Preparing /\ call[c].item \in Posts => call[c].seen.thumb \in Thumbs
      /\ call[c].pc = "insert" => call[c].seen = NoRow
      /\ call[c].pc = "thumbnail" => NewThumb(call[c])

ThumbsInv == /\ ThumbsApart /\ NewThumbsApart /\ NewThumbsUnused
             /\ SeenIsShown /\ RowIsShown /\ SeenThumbs

LEMMA ThumbsInitial == Init => ThumbsInv
  BY IdleOK, ContentAssumption
  DEF Init, ThumbsInv, ThumbsApart, NewThumbsApart, NewThumbsUnused, SeenIsShown, RowIsShown,
      SeenThumbs, NoRow, HasRow, NewThumb, Preparing, Items

LEMMA ThumbsSuffice == ThumbsInv => ThumbnailIsStored
  BY DEF ThumbsInv, RowIsShown, Shown, ThumbnailIsStored

LEMMA ThumbTypes ==
  ASSUME TypeInv
  PROVE  /\ \A c \in Calls : call[c].thumb \in Thumbs \cup {None}
                             /\ call[c].seen.thumb \in Thumbs \cup {None}
         /\ \A p \in Posts : row[p].thumb \in Thumbs \cup {None} /\ p \in Items
         /\ \A p \in Posts : HasRow(p) => row[p].thumb \in Thumbs
         /\ \A c \in Calls : ThumbGone(call[c]) => call[c].item \in Posts
         /\ Preparing \cap {"idle", "insert", "delete", "files", "points", "upsert", "update"} = {}
         /\ None \notin Thumbs
<1>1. \A c \in Calls : call[c] \in CallType /\ call[c].seen \in Row
  BY DEF TypeInv, CallType
<1>2. \A c \in Calls : call[c].thumb \in Thumbs \cup {None}
                       /\ call[c].seen.thumb \in Thumbs \cup {None}
  BY <1>1 DEF CallType, Row
<1>3. \A p \in Posts : row[p].thumb \in Thumbs \cup {None} /\ p \in Items
  BY DEF TypeInv, Row, Items
<1>4. \A p \in Posts : HasRow(p) => row[p].thumb \in Thumbs
  BY <1>3 DEF TypeInv, RowOK, HasRow
<1>5. \A c \in Calls : ThumbGone(call[c]) => call[c].item \in Posts
  BY DEF TypeInv, CallOK, ThumbGone, NewThumb
<1> QED BY <1>2, <1>3, <1>4, <1>5, ContentAssumption DEF Preparing

\* Calls end or go on with the thumbnails they know; rows may be deleted.
LEMMA ThumbsKept ==
  ASSUME TypeInv, ThumbsInv, NEW S \in SUBSET Calls,
         \A c \in Calls \ S : call'[c] = call[c],
         \A c \in S :
           /\ \/ call'[c].thumb = None /\ call'[c].seen.thumb = None
              \/ call'[c].thumb = call[c].thumb /\ call'[c].seen = call[c].seen
                 /\ call'[c].item = call[c].item
           /\ call'[c].pc \in Preparing => call[c].pc \in Preparing /\ call'[c].item = call[c].item
                                           /\ call'[c].seen = call[c].seen
           /\ call'[c].pc \notin {"insert", "thumbnail"}
           /\ ThumbGone(call[c]) => \/ call[c].item \in torn'
                                    \/ ThumbGone(call'[c]) /\ call'[c].item = call[c].item,
         \A p \in Posts : \/ row'[p].thumb = row[p].thumb /\ row'[p].state = row[p].state
                          \/ row'[p].thumb = None /\ row'[p].state # "live",
         \A t \in Thumbs : object'[t] = object[t],
         torn \subseteq torn'
  PROVE  ThumbsInv'
<1>1. ThumbsApart'
  BY ThumbTypes DEF ThumbsInv, ThumbsApart
<1>2. NewThumbsApart'
  BY ThumbTypes DEF ThumbsInv, NewThumbsApart, NewThumb
<1>3. NewThumbsUnused'
  BY ThumbTypes DEF ThumbsInv, NewThumbsUnused
<1>4. \A p \in Posts \ torn', t \in Thumbs : Shown(p, t) => Shown(p, t)'
  BY DEF Shown
<1>5. SeenThumbs'
  BY DEF ThumbsInv, SeenThumbs
<1>6. SeenIsShown'
  <2>1. ASSUME NEW c \in Calls, call'[c].pc \in Preparing, call'[c].item \in Posts \ torn'
        PROVE  Shown(call[c].item, call[c].seen.thumb)'
    <3>1. /\ call[c].pc \in Preparing /\ call'[c].item = call[c].item
          /\ call'[c].seen = call[c].seen
      BY <2>1
    <3>2. call[c].seen.thumb \in Thumbs /\ Shown(call[c].item, call[c].seen.thumb)
      BY <2>1, <3>1 DEF ThumbsInv, SeenThumbs, SeenIsShown
    <3> QED BY <1>4, <2>1, <3>1, <3>2 DEF Shown
  <2> QED BY <2>1 DEF SeenIsShown
<1>7. RowIsShown'
  BY <1>4, ThumbTypes DEF ThumbsInv, RowIsShown, HasRow
<1> QED BY <1>1, <1>2, <1>3, <1>5, <1>6, <1>7 DEF ThumbsInv

\* A call begins; what it uploads nobody else knows.
LEMMA ThumbsRead ==
  ASSUME TypeInv, ThumbsInv, NEW c \in Calls, Others(c), call[c].pc = "idle",
         row' = row, torn' = torn,
         \/ call'[c].seen = NoRow
         \/ call'[c].item \in Items /\ call'[c].seen = row[call'[c].item],
         call'[c].pc \in Preparing /\ call'[c].item \in Posts
           => HasRow(call'[c].item) /\ call'[c].seen = row[call'[c].item],
         call'[c].pc = "insert" => call'[c].seen = NoRow,
         call'[c].pc = "thumbnail" => NewThumb(call'[c]),
         \/ /\ call'[c].thumb \in {None, call'[c].seen.thumb}
            /\ \A t \in Thumbs : object'[t] = object[t]
         \/ /\ call'[c].thumb \in Thumbs /\ object[call'[c].thumb] = "new"
            /\ object'[call'[c].thumb] = "stored"
            /\ \A t \in Thumbs \ {call'[c].thumb} : object'[t] = object[t]
  PROVE  ThumbsInv'
<1>1. \A i \in Items \ Posts : row[i].thumb = None
  BY DEF TypeInv, RowOK
<1>2. NoRow.thumb = None
  BY DEF NoRow
<1>3. ThumbsApart'
  BY <1>1, <1>2, ThumbTypes DEF ThumbsInv, ThumbsApart, Others
<1>4. NewThumbsApart'
  <2>1. \A d \in Calls : NewThumb(call[d]) => call[d].thumb \in Thumbs /\ object[call[d].thumb] = "stored"
    BY ThumbTypes DEF ThumbsInv, NewThumbsApart, NewThumb
  <2>2. \A d \in Calls \ {c} : NewThumb(call'[d]) =>
          /\ object'[call'[d].thumb] = "stored"
          /\ \A p \in Posts : call'[d].thumb # row'[p].thumb
          /\ \A e \in Calls : /\ call'[d].thumb # call'[e].seen.thumb
                              /\ call'[d].thumb = call'[e].thumb => d = e
    BY <1>1, <1>2, <2>1, ThumbTypes DEF ThumbsInv, NewThumbsApart, Others, NewThumb
  <2>3. NewThumb(call'[c]) =>
          /\ object'[call'[c].thumb] = "stored"
          /\ \A p \in Posts : call'[c].thumb # row'[p].thumb
          /\ \A e \in Calls : /\ call'[c].thumb # call'[e].seen.thumb
                              /\ call'[c].thumb = call'[e].thumb => c = e
    BY <1>1, <1>2, ThumbTypes DEF ThumbsInv, NewThumbsUnused, Others, NewThumb
  <2> QED BY <2>2, <2>3 DEF NewThumbsApart
<1>5. NewThumbsUnused'
  BY <1>1, <1>2, ThumbTypes DEF ThumbsInv, NewThumbsUnused, Others
<1>6. SeenThumbs'
  BY ThumbTypes DEF ThumbsInv, SeenThumbs, Others
<1>7. \A p \in Posts, t \in Thumbs : Shown(p, t) => Shown(p, t)'
  BY ThumbTypes DEF Shown, Others, ThumbGone
<1>8. RowIsShown'
  BY <1>7, ThumbTypes DEF ThumbsInv, RowIsShown, HasRow
<1>9. SeenIsShown'
  <2>1. ASSUME NEW d \in Calls, call'[d].pc \in Preparing, call'[d].item \in Posts \ torn'
        PROVE  Shown(call[d].item, call[d].seen.thumb)'
    <3>1. call'[d].seen.thumb \in Thumbs
      BY <1>6, <2>1 DEF SeenThumbs
    <3>2. Shown(call'[d].item, call'[d].seen.thumb)
      BY <2>1 DEF ThumbsInv, SeenIsShown, RowIsShown, Others
    <3> QED BY <1>7, <2>1, <3>1, <3>2 DEF Shown
  <2> QED BY <2>1 DEF SeenIsShown
<1> QED BY <1>3, <1>4, <1>5, <1>6, <1>8, <1>9 DEF ThumbsInv

\* A call writes the thumbnail of its post: its new one, or one that was there.
LEMMA ThumbsWritten ==
  ASSUME TypeInv, ThumbsInv, NEW c \in Calls, Others(c), Empties(call'[c]),
         call'[c].pc \notin Preparing \cup {"insert"}, object' = object,
         NEW i \in Posts, call[c].item = i, \A p \in Posts \ {i} : row'[p] = row[p],
         \/ NewThumb(call[c]) /\ row'[i].thumb = call[c].thumb
         \/ /\ ~NewThumb(call[c]) /\ HasRow(i)
            /\ \/ row'[i].thumb = row[i].thumb
               \/ call[c].pc \in Preparing /\ row'[i].thumb = call[c].seen.thumb,
         torn \subseteq torn', torn' \subseteq torn \cup {i},
         \A d \in Calls \ {c} : call[d].pc \in Preparing /\ call[d].item = i => i \in torn'
  PROVE  ThumbsInv'
<1>1. call'[c].thumb = None /\ call'[c].seen.thumb = None
  BY DEF Empties, NoRow
<1>2. ThumbsApart'
  BY <1>1, ThumbTypes DEF ThumbsInv, ThumbsApart, NewThumbsApart, Others
<1>3. NewThumbsApart'
  BY <1>1, ThumbTypes DEF ThumbsInv, NewThumbsApart, Others, NewThumb
<1>4. NewThumbsUnused'
  BY <1>1, ThumbTypes DEF ThumbsInv, NewThumbsUnused, Others
<1>5. SeenThumbs'
  BY <1>1 DEF ThumbsInv, SeenThumbs, Others, Preparing
<1>6. \A p \in Posts \ {i}, t \in Thumbs : Shown(p, t) => Shown(p, t)'
  BY DEF Shown, Others
<1>7. SeenIsShown'
  <2>1. ASSUME NEW d \in Calls, call'[d].pc \in Preparing, call'[d].item \in Posts \ torn'
        PROVE  Shown(call[d].item, call[d].seen.thumb)'
    <3>1. d # c /\ call'[d] = call[d] /\ call[d].item # i
      BY <2>1 DEF Others
    <3>2. call[d].seen.thumb \in Thumbs /\ Shown(call[d].item, call[d].seen.thumb)
      BY <2>1, <3>1 DEF ThumbsInv, SeenIsShown, SeenThumbs
    <3> QED BY <1>6, <2>1, <3>1, <3>2 DEF Shown
  <2> QED BY <2>1 DEF SeenIsShown
<1>8. RowIsShown'
  <2>1. ASSUME NEW p \in Posts \ torn', p # i, HasRow(p)' PROVE Shown(p, row[p].thumb)'
    <3>1. row[p].thumb \in Thumbs /\ Shown(p, row[p].thumb) /\ row'[p] = row[p]
      BY <2>1, ThumbTypes DEF ThumbsInv, RowIsShown, HasRow
    <3> QED BY <1>6, <2>1, <3>1 DEF Shown
  <2>2. ASSUME i \notin torn' PROVE object'[row'[i].thumb] = "stored"
    <3>1. CASE NewThumb(call[c]) /\ row'[i].thumb = call[c].thumb
      BY <3>1 DEF ThumbsInv, NewThumbsApart
    <3>2. CASE ~NewThumb(call[c])
      <4>1. Shown(i, row'[i].thumb)
        BY <2>2, <3>2 DEF ThumbsInv, RowIsShown, SeenIsShown
      <4>2. \A d \in Calls : call[d].item = i => ~ThumbGone(call[d])
        BY <2>2, <3>2 DEF ThumbGone
      <4> QED BY <4>1, <4>2 DEF Shown
    <3> QED BY <3>1, <3>2
  <2> QED BY <2>1, <2>2 DEF RowIsShown, Shown
<1> QED BY <1>2, <1>3, <1>4, <1>5, <1>7, <1>8 DEF ThumbsInv

\* The old thumbnail goes, the new one is about to be written.
LEMMA ThumbsReplaced ==
  ASSUME TypeInv, ThumbsInv, NEW c \in Calls, DeleteThumbnail(c)
  PROVE  ThumbsInv'
<1> DEFINE k == call[c]
           l == call'[c]
           t == k.seen.thumb
<1>1. /\ Others(c) /\ GoesOn(k, l) /\ k.item \in Posts
      /\ k.pc = "thumbnail" /\ l.pc = AfterThumb(k) /\ t \in Thumbs
      /\ object' = Put(object, {t}, "deleted") /\ row' = row /\ torn' = torn
  BY DeleteThumbnailIs
<1>2. l.pc \in Preparing \ {"thumbnail", "insert"} /\ k.pc \in Preparing
  BY <1>1, AfterSteps DEF Preparing
<1>3. l.item = k.item /\ l.seen = k.seen /\ l.thumb = k.thumb
  BY <1>1 DEF GoesOn
<1>4. object'[t] = "deleted" /\ \A o \in (Files \cup Thumbs) \ {t} : object'[o] = object[o]
  BY <1>1 DEF Put
<1> HIDE DEF t, l, k
<1>5. \A d \in Calls : /\ call'[d].thumb = call[d].thumb /\ call'[d].seen = call[d].seen
                       /\ call'[d].item = call[d].item
                       /\ call'[d].pc \in Preparing <=> call[d].pc \in Preparing
                       /\ call'[d].pc = "insert" => call[d].pc = "insert"
  BY <1>1, <1>2, <1>3 DEF Others, k, l
<1>6. ThumbsApart'
  BY <1>1, <1>5 DEF ThumbsInv, ThumbsApart
<1>7. NewThumbsApart'
  <2>1. \A d \in Calls : NewThumb(call[d]) => call[d].thumb \in Thumbs /\ call[d].thumb # t
    BY ThumbTypes DEF ThumbsInv, NewThumbsApart, NewThumb, t, k
  <2>2. \A d \in Calls : NewThumb(call'[d]) => NewThumb(call[d])
    BY <1>5 DEF NewThumb
  <2>3. \A d \in Calls : NewThumb(call[d]) => object'[call[d].thumb] = "stored"
    BY <1>4, <2>1 DEF ThumbsInv, NewThumbsApart
  <2>4. \A d \in Calls : NewThumb(call[d]) =>
          /\ \A p \in Posts : call[d].thumb # row'[p].thumb
          /\ \A e \in Calls : /\ call[d].thumb # call[e].seen.thumb
                              /\ call[d].thumb = call[e].thumb => d = e
    BY <1>1 DEF ThumbsInv, NewThumbsApart
  <2>5. \A d \in Calls : call'[d].thumb = call[d].thumb /\ call'[d].seen.thumb = call[d].seen.thumb
    BY <1>5
  <2> QED BY <2>2, <2>3, <2>4, <2>5 DEF NewThumbsApart
<1>8. NewThumbsUnused'
  BY <1>1, <1>4, <1>5 DEF ThumbsInv, NewThumbsUnused
<1>9. SeenThumbs'
  BY <1>1, <1>2, <1>5 DEF ThumbsInv, SeenThumbs, NewThumb, Others, k, l
<1>10. ThumbGone(l)
  <2>1. k.thumb # None /\ k.thumb # t
    BY <1>1 DEF k, t, ThumbsInv, SeenThumbs, NewThumb
  <2> QED BY <1>2, <1>3, <2>1 DEF ThumbGone, NewThumb, t
<1>11. \A p \in Posts, s \in Thumbs : p = k.item => Shown(p, s)'
  BY <1>3, <1>10 DEF Shown, l, k
<1>12. \A p \in Posts, s \in Thumbs \ {t} : Shown(p, s) => Shown(p, s)'
  <2>1. \A d \in Calls : ThumbGone(call[d]) => ThumbGone(call'[d])
    BY <1>1, <1>10 DEF Others, l
  <2> QED BY <1>4, <1>5, <2>1 DEF Shown
<1>13. SeenIsShown'
  <2>1. ASSUME NEW d \in Calls, call'[d].pc \in Preparing, call'[d].item \in Posts \ torn'
        PROVE  Shown(call[d].item, call[d].seen.thumb)'
    <3>1. call[d].seen.thumb \in Thumbs /\ Shown(call[d].item, call[d].seen.thumb)
      BY <1>1, <1>5, <2>1 DEF ThumbsInv, SeenIsShown, SeenThumbs
    <3>2. call[d].seen.thumb = t => call[d].item = k.item
      BY <1>1, ThumbTypes DEF ThumbsInv, ThumbsApart, t, k
    <3>3. \A p \in Posts, s \in Thumbs : p = call[d].item /\ s = call[d].seen.thumb => Shown(p, s)'
      BY <1>11, <1>12, <3>1, <3>2
    <3> QED BY <1>1, <1>5, <2>1, <3>1, <3>3 DEF Shown
  <2> QED BY <2>1 DEF SeenIsShown
<1>14. RowIsShown'
  <2>1. ASSUME NEW p \in Posts \ torn', HasRow(p) PROVE Shown(p, row[p].thumb)'
    <3>1. row[p].thumb \in Thumbs /\ Shown(p, row[p].thumb)
      BY <1>1, <2>1, ThumbTypes DEF ThumbsInv, RowIsShown
    <3>2. row[p].thumb = t => p = k.item
      BY <1>1, ThumbTypes DEF ThumbsInv, ThumbsApart, t, k
    <3>3. \A s \in Thumbs : s = row[p].thumb => Shown(p, s)'
      BY <1>11, <1>12, <2>1, <3>1, <3>2
    <3> QED BY <1>1, <3>1, <3>3 DEF Shown
  <2> QED BY <1>1, <2>1 DEF RowIsShown, HasRow, Shown
<1> QED BY <1>6, <1>7, <1>8, <1>9, <1>13, <1>14 DEF ThumbsInv

LEMMA ThumbsAbandoned ==
  ASSUME TypeInv, ThumbsInv, NEW S \in SUBSET Calls, Abandon(S), object' = object,
         \A p \in Posts : row'[p].thumb = row[p].thumb /\ row'[p].state = row[p].state
  PROVE  ThumbsInv'
<1>1. \A c \in Calls : call'[c] = IF c \in S THEN Idle ELSE call[c]
  BY DEF Abandon
<1>2. Idle.pc \notin Preparing \cup {"insert", "thumbnail"} /\ Idle.thumb = None
      /\ Idle.seen.thumb = None
  BY IdleOK DEF NoRow, Preparing
<1>3. \A c \in S : ThumbGone(call[c]) => call[c].item \in torn'
  BY DEF Abandon
<1>4. torn \subseteq torn'
  BY DEF Abandon
<1> QED BY <1>1, <1>2, <1>3, <1>4, ThumbsKept

\* A call goes on with what it knows, and has deleted no thumbnail.
LEMMA ThumbsGoOn ==
  ASSUME TypeInv, ThumbsInv, NEW c \in Calls, Others(c), GoesOn(call[c], call'[c]),
         \/ call[c].pc \in Preparing /\ call'[c].pc \in Preparing \ {"thumbnail"}
         \/ /\ call[c].pc \notin Preparing
            /\ call'[c].pc \notin Preparing \cup {"insert", "thumbnail"},
         \A p \in Posts : row'[p].thumb = row[p].thumb /\ row'[p].state = row[p].state,
         \A t \in Thumbs : object'[t] = object[t], torn' = torn
  PROVE  ThumbsInv'
<1>1. call'[c].pc \notin {"insert", "thumbnail"}
  BY DEF Preparing
<1>2. /\ call'[c].item = call[c].item /\ call'[c].seen = call[c].seen
      /\ call'[c].thumb = call[c].thumb
  BY DEF GoesOn
<1>3. ThumbGone(call[c]) => ThumbGone(call'[c])
  BY <1>2 DEF ThumbGone, NewThumb
<1>4. {c} \in SUBSET Calls /\ \A d \in Calls \ {c} : call'[d] = call[d]
  BY DEF Others
<1>5. \A d \in {c} :
        /\ \/ call'[d].thumb = None /\ call'[d].seen.thumb = None
           \/ call'[d].thumb = call[d].thumb /\ call'[d].seen = call[d].seen
              /\ call'[d].item = call[d].item
        /\ call'[d].pc \in Preparing => call[d].pc \in Preparing /\ call'[d].item = call[d].item
                                        /\ call'[d].seen = call[d].seen
        /\ call'[d].pc \notin {"insert", "thumbnail"}
        /\ ThumbGone(call[d]) => \/ call[d].item \in torn'
                                 \/ ThumbGone(call'[d]) /\ call'[d].item = call[d].item
  BY <1>1, <1>2, <1>3
<1>6. torn \subseteq torn'
  OBVIOUS
<1> QED BY <1>4, <1>5, <1>6, ThumbsKept

\* A call that writes no thumbnail ends, or goes on in the background.
LEMMA ThumbsDone ==
  ASSUME TypeInv, ThumbsInv, NEW c \in Calls, Others(c),
         call'[c].thumb = None, call'[c].seen.thumb = None \/ /\ call'[c].seen = call[c].seen
                                                              /\ call'[c].item = call[c].item
                                                              /\ call[c].thumb = None,
         call'[c].pc \notin Preparing \cup {"insert", "thumbnail"},
         ThumbGone(call[c]) => call[c].item \in torn',
         \A p \in Posts : \/ row'[p].thumb = row[p].thumb /\ row'[p].state = row[p].state
                          \/ row'[p].thumb = None /\ row'[p].state # "live",
         \A t \in Thumbs : object'[t] = object[t],
         torn \subseteq torn'
  PROVE  ThumbsInv'
<1>1. {c} \in SUBSET Calls /\ \A d \in Calls \ {c} : call'[d] = call[d]
  BY DEF Others
<1>2. \A d \in {c} :
        /\ \/ call'[d].thumb = None /\ call'[d].seen.thumb = None
           \/ call'[d].thumb = call[d].thumb /\ call'[d].seen = call[d].seen
              /\ call'[d].item = call[d].item
        /\ call'[d].pc \in Preparing => call[d].pc \in Preparing /\ call'[d].item = call[d].item
                                        /\ call'[d].seen = call[d].seen
        /\ call'[d].pc \notin {"insert", "thumbnail"}
        /\ ThumbGone(call[d]) => \/ call[d].item \in torn'
                                 \/ ThumbGone(call'[d]) /\ call'[d].item = call[d].item
  OBVIOUS
<1> QED BY <1>1, <1>2, ThumbsKept

LEMMA ThumbsBegin ==
  ASSUME TypeInv, ThumbsInv, NEW c \in Calls,
         \/ \E p \in Posts : DeletePost(c, p)
         \/ \E p \in Posts, e \in Edits : CreatePost(c, p, e) \/ UpdatePost(c, p, e)
         \/ \E b \in Blogs, e \in Edits : UpdateBlog(c, b, e)
         \/ \E g \in Categories, e \in Edits : UpdateCategory(c, g, e)
         \/ \E g \in Categories : RemoveCategory(c, g)
  PROVE  ThumbsInv'
<1>1. ASSUME NEW p \in Posts, NEW e \in Edits, CreatePost(c, p, e)
      PROVE  ThumbsInv'
  <2>1. PICK add \in SUBSET Files, t \in Thumbs :
           /\ \A o \in add \cup {t} : object[o] = "new"
           /\ object' = Put(object, add \cup {t}, "stored")
           /\ Others(c) /\ call[c].pc = "idle"
           /\ call'[c].pc = "insert" /\ call'[c].item = p /\ call'[c].seen = NoRow
           /\ call'[c].thumb = t /\ call'[c].add = add
           /\ row[p].state = "none" /\ p \notin InProgress(c) /\ p \in Items
           /\ UNCHANGED <<row, point, sync, stale, forgotten, users, torn, leaked>>
    BY <1>1, CreatePostIs
  <2>2. object[t] = "new" /\ object'[t] = "stored"
        /\ \A s \in Thumbs \ {t} : object'[s] = object[s]
    BY <2>1, ContentAssumption DEF Put
  <2>3. "insert" \notin Preparing
    BY DEF Preparing
  <2> QED BY <2>1, <2>2, <2>3, ThumbsRead
<1>2. ASSUME NEW p \in Posts, NEW e \in Edits, UpdatePost(c, p, e)
      PROVE  ThumbsInv'
  <2>1. /\ Others(c) /\ call[c].pc = "idle" /\ HasRow(p) /\ p \in Items
        /\ call'[c].pc = AfterRead(call'[c]) /\ call'[c].pc \in Preparing
        /\ call'[c].item = p /\ call'[c].seen = row[p] /\ row' = row /\ torn' = torn
        /\ \/ call'[c].thumb \in {None, row[p].thumb} /\ object' = object
           \/ /\ call'[c].thumb \in Thumbs /\ object[call'[c].thumb] = "new"
              /\ object' = Put(object, {call'[c].thumb}, "stored")
    BY <1>2, UpdatePostIs
  <2>2. call'[c].pc # "insert"
    BY <2>1 DEF Preparing
  <2>3. call'[c].pc = "thumbnail" => NewThumb(call'[c])
    BY <2>1, AfterSteps DEF AfterRead
  <2>4. \/ /\ call'[c].thumb \in {None, call'[c].seen.thumb}
           /\ \A t \in Thumbs : object'[t] = object[t]
        \/ /\ call'[c].thumb \in Thumbs /\ object[call'[c].thumb] = "new"
           /\ object'[call'[c].thumb] = "stored"
           /\ \A t \in Thumbs \ {call'[c].thumb} : object'[t] = object[t]
    BY <2>1, ContentAssumption DEF Put
  <2> QED BY <2>1, <2>2, <2>3, <2>4, ThumbsRead
<1>3. CASE \/ \E p \in Posts : DeletePost(c, p)
           \/ \E b \in Blogs, e \in Edits : UpdateBlog(c, b, e)
           \/ \E g \in Categories, e \in Edits : UpdateCategory(c, g, e)
           \/ \E g \in Categories : RemoveCategory(c, g)
  <2>1. /\ Others(c) /\ call[c].pc = "idle" /\ row' = row /\ torn' = torn /\ object' = object
        /\ call'[c].item \in Items /\ HasRow(call'[c].item) /\ call'[c].thumb = None
        /\ \/ call'[c].pc = "delete"
           \/ call'[c].pc = "write" /\ call'[c].item \notin Posts
        /\ \/ call'[c].seen = row[call'[c].item]
           \/ call'[c].pc = "delete" /\ call'[c].seen = NoRow
    BY <1>3, ReadIs
  <2>2. "delete" \notin Preparing /\ call'[c].pc \notin {"insert", "thumbnail"}
    BY <2>1 DEF Preparing
  <2> QED BY <2>1, <2>2, ThumbsRead
<1> QED BY <1>1, <1>2, <1>3

LEMMA ThumbsWrite ==
  ASSUME TypeInv, ThumbsInv, NEW c \in Calls, WritePost(c) \/ WriteBlog(c) \/ WriteCategory(c)
  PROVE  ThumbsInv'
<1> DEFINE k == call[c]
           i == k.item
<1>1. /\ Others(c) /\ k.pc = "write" /\ i \in Items /\ HasRow(i)
      /\ \A j \in Items \ {i} : row'[j] = row[j]
      /\ row'[i].state = "live" /\ row'[i].thumb = Given(k.thumb, row[i].thumb)
      /\ Writes(c, i) /\ object' = object
  BY WriteIs
<1>2. Empties(call'[c]) /\ call'[c].pc \in {"idle", "update"}
  BY WriteIs, EmbeddingIs
<1>3. k.pc \in Preparing /\ call'[c].pc \notin Preparing \cup {"insert", "thumbnail"}
  BY <1>1, <1>2 DEF Preparing
<1>4. /\ torn \subseteq torn' /\ torn' \subseteq torn \cup {i}
      /\ i \in Posts => \A d \in Calls \ {c} : call[d].pc \in Preparing /\ call[d].item = i => i \in torn'
  BY <1>1 DEF Writes, Prepared
<1>5. CASE i \in Posts
  <2>1. \/ NewThumb(k) /\ row'[i].thumb = k.thumb
        \/ ~NewThumb(k) /\ (row'[i].thumb = row[i].thumb \/ row'[i].thumb = k.seen.thumb)
    BY <1>1 DEF Given, NewThumb
  <2>2. \A p \in Posts \ {i} : row'[p] = row[p]
    BY <1>1 DEF Items
  <2> QED BY <1>1, <1>2, <1>3, <1>4, <1>5, <2>1, <2>2, ThumbsWritten
<1>6. CASE i \notin Posts
  <2>1. ~ThumbGone(k)
    BY <1>6, ThumbTypes
  <2>2. \A p \in Posts : row'[p] = row[p]
    BY <1>1, <1>6 DEF Items
  <2>3. call'[c].thumb = None /\ call'[c].seen.thumb = None
    BY <1>2 DEF Empties, NoRow
  <2> QED BY <1>1, <1>2, <1>3, <1>4, <2>1, <2>2, <2>3, ThumbsDone
<1> QED BY <1>5, <1>6

LEMMA ThumbsInsert ==
  ASSUME TypeInv, CallsInv, ThumbsInv, NEW c \in Calls,
         \/ InsertPost(c)
         \/ \E b \in Blogs, e \in Edits : CreateBlog(c, b, e)
         \/ \E g \in Categories, e \in Edits : CreateCategory(c, g, e)
  PROVE  ThumbsInv'
<1> DEFINE i == call'[c].item
<1>1. /\ Others(c) /\ i \in Items /\ call'[c].pc = "upsert" /\ Empties(call'[c])
      /\ \A j \in Items \ {i} : row'[j] = row[j]
      /\ object' = object /\ torn' = torn
      /\ \/ call[c].pc = "insert" /\ call[c].item = i /\ row'[i].thumb = call[c].thumb
         \/ call[c].pc = "idle" /\ i \notin Posts
  BY NewRowIs
<1> HIDE DEF i
<1>2. /\ call'[c].pc \notin Preparing \cup {"insert", "thumbnail"}
      /\ call'[c].thumb = None /\ call'[c].seen.thumb = None
  BY <1>1 DEF Empties, NoRow, Preparing
<1>3. CASE call[c].pc = "insert" /\ call[c].item = i /\ row'[i].thumb = call[c].thumb
  <2>1. i \in Posts /\ NewThumb(call[c])
    BY <1>3, ContentAssumption DEF TypeInv, CallOK, ThumbsInv, SeenThumbs, NewThumb, NoRow
  <2>2. \A d \in Calls \ {c} : ~(call[d].pc \in Preparing /\ call[d].item = i)
    BY <1>1, <1>3 DEF CallsInv, Preparing
  <2>3. \A p \in Posts \ {i} : row'[p] = row[p]
    BY <1>1 DEF Items
  <2> QED BY <1>1, <1>2, <1>3, <2>1, <2>2, <2>3, ThumbsWritten
<1>4. CASE call[c].pc = "idle" /\ i \notin Posts
  <2>1. \A p \in Posts : row'[p] = row[p]
    BY <1>1, <1>4 DEF Items
  <2>2. ~ThumbGone(call[c])
    BY <1>4 DEF ThumbGone, Preparing
  <2> QED BY <1>1, <1>2, <2>1, <2>2, ThumbsDone
<1> QED BY <1>1, <1>3, <1>4

\* The steps of updatePost between the thumbnail and the write.
LEMMA ThumbsStay ==
  ASSUME TypeInv, ThumbsInv, NEW c \in Calls,
         UploadImages(c) \/ DeleteImages(c) \/ DeleteVideo(c) \/ DeleteFiles(c)
  PROVE  ThumbsInv'
<1>2. \A S \in SUBSET Files, t \in Thumbs : Put(object, S, "deleted")[t] = object[t]
                                            /\ Put(object, S, "stored")[t] = object[t]
  BY ContentAssumption DEF Put
<1>3. {"upload", "images", "video", "write"} \subseteq Preparing \ {"thumbnail"}
  BY DEF Preparing
<1>4. CASE UploadImages(c)
  <2>1. /\ Others(c) /\ GoesOn(call[c], call'[c])
        /\ call[c].pc = "upload" /\ call'[c].pc = AfterUpload(call[c])
        /\ call'[c].add \in SUBSET Files /\ object' = Put(object, call'[c].add, "stored")
        /\ row' = row /\ torn' = torn
    BY <1>4, UploadImagesIs
  <2>2. AfterUpload(call[c]) \in {"video", "write"}
    BY AfterSteps
  <2> QED BY <1>2, <1>3, <2>1, <2>2, ThumbsGoOn
<1>5. CASE DeleteImages(c)
  <2> DEFINE S == Dropping(call[c])
  <2>1. /\ Others(c) /\ call[c].pc = "images" /\ S \in SUBSET Files
        /\ \/ row' = row
           \/ row' = [row EXCEPT ![call[c].item] = [row[call[c].item] EXCEPT
                                    !.images = row[call[c].item].images \ S]]
        /\ object' = object \/ object' = Put(object, S, "deleted")
        /\ \/ /\ GoesOn(call[c], call'[c]) /\ call'[c].pc = AfterImages(call[c])
              /\ torn' = torn
           \/ /\ call'[c] = Idle
              /\ torn' = IF ThumbGone(call[c]) THEN torn \cup {call[c].item} ELSE torn
    BY <1>5, DeleteImagesIs
  <2>2. AfterImages(call[c]) \in {"upload", "video", "write"}
    BY AfterSteps
  <2>3. \A p \in Posts : row'[p].thumb = row[p].thumb /\ row'[p].state = row[p].state
    BY <2>1 DEF TypeInv, Row, Items
  <2> HIDE DEF S
  <2>4. \A t \in Thumbs : object'[t] = object[t]
    BY <1>2, <2>1
  <2>5. CASE GoesOn(call[c], call'[c]) /\ call'[c].pc = AfterImages(call[c]) /\ torn' = torn
    BY <1>3, <2>1, <2>2, <2>3, <2>4, <2>5, ThumbsGoOn
  <2>6. CASE /\ call'[c] = Idle
             /\ torn' = IF ThumbGone(call[c]) THEN torn \cup {call[c].item} ELSE torn
    <3>1. /\ Idle.pc \notin Preparing \cup {"insert", "thumbnail"}
          /\ Idle.thumb = None /\ Idle.seen.thumb = None
      BY IdleOK DEF NoRow, Preparing
    <3> QED BY <2>1, <2>3, <2>4, <2>6, <3>1, ThumbsDone
  <2> QED BY <2>1, <2>5, <2>6
<1>6. CASE DeleteVideo(c)
  <2>1. /\ call[c].item \in Posts /\ call[c].item \in Items /\ HasRow(call[c].item)
        /\ call[c].pc = "video" /\ object' = object
        /\ \A j \in Items \ {call[c].item} : row'[j] = row[j]
        /\ row'[call[c].item].state = "live"
        /\ row'[call[c].item].thumb = row[call[c].item].thumb
        /\ \/ Others(c) /\ GoesOn(call[c], call'[c]) /\ call'[c].pc = "write" /\ torn' = torn
           \/ Abandon({c})
    BY <1>6, DeleteVideoIs
  <2>2. \A p \in Posts : row'[p].thumb = row[p].thumb /\ row'[p].state = row[p].state
    BY <2>1 DEF HasRow, Items
  <2> QED BY <1>3, <2>1, <2>2, ThumbsGoOn, ThumbsAbandoned
<1>7. CASE DeleteFiles(c)
  <2>1. /\ Others(c) /\ GoesOn(call[c], call'[c]) /\ call[c].pc = "files" /\ call'[c].pc = "points"
        /\ call[c].seen.images \in SUBSET Files
        /\ object' = Put(object, call[c].seen.images, "deleted") /\ row' = row /\ torn' = torn
    BY <1>7, DeleteFilesIs
  <2>2. {"files", "points"} \cap (Preparing \cup {"insert", "thumbnail"}) = {}
    BY DEF Preparing
  <2> QED BY <1>2, <2>1, <2>2, ThumbsGoOn
<1> QED BY <1>4, <1>5, <1>6, <1>7

LEMMA ThumbsByAdmin ==
  ASSUME TypeInv, ThumbsInv, NEW p \in Posts, NEW e \in Edits, UpdatePostByAdmin(p, e)
  PROVE  ThumbsInv'
<1>1. /\ p \in Items /\ HasRow(p) /\ \A j \in Items \ {p} : row'[j] = row[j]
      /\ call' = call /\ torn' = torn
      /\ \/ row'[p].thumb = row[p].thumb /\ object' = object
         \/ /\ row'[p].thumb \in Thumbs /\ object[row'[p].thumb] = "new"
            /\ object' = Put(object, {row'[p].thumb}, "stored")
  BY AdminIs
<1>2. \A t \in Thumbs : object'[t] = object[t] \/ object'[t] = "stored"
  BY <1>1, ContentAssumption DEF Put
<1>3. \A q \in Posts : row'[q].thumb = row[q].thumb
                       \/ /\ q = p /\ row'[p].thumb \in Thumbs /\ object[row'[p].thumb] = "new"
                          /\ object'[row'[p].thumb] = "stored"
  BY <1>1 DEF Items, Put
<1>4. \A t \in Thumbs : object'[t] = "new" => object[t] = "new"
  BY <1>2
<1>5. ThumbsApart'
  BY <1>1, <1>3, ThumbTypes DEF ThumbsInv, ThumbsApart, NewThumbsUnused
<1>6. NewThumbsApart'
  <2>1. \A c \in Calls : NewThumb(call[c]) => call[c].thumb \in Thumbs /\ object[call[c].thumb] = "stored"
    BY ThumbTypes DEF ThumbsInv, NewThumbsApart, NewThumb
  <2> QED BY <1>1, <1>2, <1>3, <2>1 DEF ThumbsInv, NewThumbsApart
<1>7. NewThumbsUnused'
  BY <1>1, <1>3, <1>4 DEF ThumbsInv, NewThumbsUnused
<1>8. SeenThumbs'
  BY <1>1 DEF ThumbsInv, SeenThumbs
<1>9. \A q \in Posts, t \in Thumbs : Shown(q, t) => Shown(q, t)'
  BY <1>1, <1>2 DEF Shown
<1>10. SeenIsShown'
  <2>1. ASSUME NEW d \in Calls, call[d].pc \in Preparing, call[d].item \in Posts \ torn
        PROVE  Shown(call[d].item, call[d].seen.thumb)'
    <3>1. call[d].seen.thumb \in Thumbs /\ Shown(call[d].item, call[d].seen.thumb)
      BY <2>1 DEF ThumbsInv, SeenIsShown, SeenThumbs
    <3> QED BY <1>1, <1>9, <2>1, <3>1 DEF Shown
  <2> QED BY <1>1, <2>1 DEF SeenIsShown
<1>11. RowIsShown'
  <2>1. ASSUME NEW q \in Posts \ torn', HasRow(q)' PROVE Shown(q, row[q].thumb)'
    <3>1. HasRow(q) /\ q \in Posts \ torn
      BY <1>1, <2>1 DEF HasRow, Items
    <3>2. row[q].thumb \in Thumbs /\ Shown(q, row[q].thumb)
      BY <3>1, ThumbTypes DEF ThumbsInv, RowIsShown
    <3> QED BY <1>1, <1>2, <1>3, <1>9, <3>1, <3>2 DEF Shown
  <2> QED BY <2>1 DEF RowIsShown
<1> QED BY <1>5, <1>6, <1>7, <1>8, <1>10, <1>11 DEF ThumbsInv

LEMMA ThumbsStep == TypeInv /\ CallsInv /\ ThumbsInv /\ [Next]_vars => ThumbsInv'
<1> SUFFICES ASSUME TypeInv, CallsInv, ThumbsInv, [Next]_vars PROVE ThumbsInv'
  OBVIOUS
<1>1. CASE Crash
  BY <1>1, ThumbsAbandoned DEF Crash
<1>2. ASSUME NEW c \in Calls, CallFails(c) PROVE ThumbsInv'
  BY <1>2, ThumbsAbandoned DEF CallFails
<1>3. ASSUME NEW S \in SUBSET Items, NEW kept, DeleteRows(S, kept)
      PROVE  \A p \in Posts : \/ row'[p].thumb = row[p].thumb /\ row'[p].state = row[p].state
                              \/ row'[p].thumb = None /\ row'[p].state # "live"
  BY <1>3 DEF DeleteRows, Deleted, NoRow, Items
<1>4. ASSUME NEW c \in Calls,
             \/ FinishDeletePost(c) \/ FinishRemoveCategory(c)
             \/ \E S \in (SUBSET Blogs) \ {{}} : DeleteBlogs(c, S)
      PROVE  ThumbsInv'
  <2>1. PICK S \in SUBSET Items :
           /\ DeleteRows(S, S) /\ Others(c) /\ call'[c].pc \in {"files", "points"}
           /\ call'[c].thumb = None
           /\ \/ /\ call[c].pc = "delete" /\ call'[c].item = call[c].item
                 /\ call'[c].seen = call[c].seen
              \/ call[c].pc = "idle" /\ Empties(call'[c])
           /\ UNCHANGED <<object, torn>>
    BY <1>4, DeleteIs
  <2>2. call'[c].pc \notin Preparing \cup {"insert", "thumbnail"} /\ ~ThumbGone(call[c])
    BY <2>1 DEF Preparing, ThumbGone
  <2>3. call[c].thumb = None
    BY <2>1 DEF TypeInv, CallOK, Preparing
  <2>4. \A p \in Posts : \/ row'[p].thumb = row[p].thumb /\ row'[p].state = row[p].state
                         \/ row'[p].thumb = None /\ row'[p].state # "live"
    BY <1>3, <2>1
  <2>5. Empties(call'[c]) => call'[c].seen.thumb = None
    BY DEF Empties, NoRow
  <2> QED BY <2>1, <2>2, <2>3, <2>4, <2>5, ThumbsDone
<1>5. ASSUME NEW c \in Calls,
             UpsertEmbedding(c) \/ WriteVectors(c) \/ DropVectors(c) \/ DeleteThePoints(c)
      PROVE  ThumbsInv'
  <2>1. /\ row' = row /\ object' = object /\ torn' = torn
        /\ call[c].pc \in {"upsert", "update", "points"}
    BY <1>5 DEF UpsertEmbedding, WriteVectors, DropVectors, DeleteThePoints
  <2>2. Others(c) /\ Empties(call'[c]) /\ call'[c].pc \in {"idle", "update"}
    <3>1. CASE UpsertEmbedding(c) \/ DeleteThePoints(c)
      BY <3>1, Steps, IdleOK DEF UpsertEmbedding, DeleteThePoints, Empties
    <3>2. CASE WriteVectors(c) \/ DropVectors(c)
      <4>1. PICK v : call'[c] = Embedding(call[c].item, v) /\ Others(c)
        BY <3>2, Steps DEF WriteVectors, DropVectors, Remaining, TypeInv
      <4> QED BY <4>1, EmbeddingIs
    <3> QED BY <1>5, <3>1, <3>2
  <2>3. /\ call'[c].pc \notin Preparing \cup {"insert", "thumbnail"} /\ ~ThumbGone(call[c])
        /\ call'[c].thumb = None /\ call'[c].seen.thumb = None
    BY <2>1, <2>2 DEF Preparing, ThumbGone, Empties, NoRow
  <2> QED BY <2>1, <2>2, <2>3, ThumbsDone
<1>6. ASSUME NEW c \in Calls, CallStep(c) PROVE ThumbsInv'
  BY <1>1, <1>2, <1>4, <1>5, <1>6, ThumbsInsert, ThumbsReplaced, ThumbsStay, ThumbsWrite
  DEF CallStep, PointMissing
<1>7. ASSUME call' = call, torn' = torn, object' = object,
             \A p \in Posts : \/ row'[p].thumb = row[p].thumb /\ row'[p].state = row[p].state
                              \/ row'[p].thumb = None /\ row'[p].state # "live"
      PROVE  ThumbsInv'
  BY <1>7, ThumbsKept, {} \in SUBSET Calls
<1>8. CASE UNCHANGED vars \/ SyncGoesOn \/ \E K \in Collections : SyncEmbeddings(K)
  BY <1>7, <1>8 DEF vars, SyncGoesOn, SyncStep, FetchItems, UpsertItems, SyncFails,
                    SyncEmbeddings, StartSync
<1>9. CASE (\E S \in (SUBSET Posts) \ {{}} : BulkDeletePosts(S)) \/ \E u \in Users : DeleteUser(u)
  <2>1. PICK S \in SUBSET Items : DeleteRows(S, {}) /\ UNCHANGED <<object, call, torn>>
    BY <1>9, PurgeIs
  <2> QED BY <1>3, <1>7, <2>1
<1> QED BY <1>1, <1>4, <1>6, <1>8, <1>9, ThumbsInsert, ThumbsBegin, ThumbsByAdmin DEF Next

(* However updates, deletions and failures interleave, a post shows a       *)
(* thumbnail that is in the bucket, but for what torn names.                *)
THEOREM ThumbnailsAreStored == Spec => []ThumbnailIsStored
<1>1. TypeInv /\ CallsInv /\ ThumbsInv /\ [Next]_vars => (TypeInv /\ CallsInv /\ ThumbsInv)'
  BY TypeStep, CallsStep, ThumbsStep
<1>2. Spec => [](TypeInv /\ CallsInv /\ ThumbsInv)
  BY TypeInitial, CallsInitial, ThumbsInitial, <1>1, PTL DEF Spec
<1> QED BY <1>2, ThumbsSuffice, PTL
=============================================================================
