------------------------------- MODULE Content -------------------------------
(***************************************************************************)
(* Posts, blogs and categories: their rows, the images of posts in the     *)
(* bucket, and the vectors they are searched by.                           *)
(*                                                                         *)
(*   PostsManagementService, PostsAdminService                             *)
(*   BlogManagementService, CategoriesManagementService                    *)
(*   S3StorageProvider                                                     *)
(*                                                                         *)
(* A call is a run of one of their methods with what it leaves running in  *)
(* the background after its answer: one step per await.  An error in a     *)
(* background embedding is caught by nobody, and ends the process.         *)
(***************************************************************************)
EXTENDS VectorIndex

CONSTANTS
    Users,          \* authors
    Author,         \* whose a post or blog is
    Thumbs,         \* objects uploaded to be thumbnails
    Videos,         \* URLs of videos
    InBucket,       \* the URLs of thumbnails and videos that deleteFiles accepts
    Edits,          \* bound: what a call may ask for
    Calls           \* bound: calls in progress

\* What a client sends; the title of a post that is updated may be empty.  thumb: no
\* thumbnailUrl, that of the post, or that of an object just uploaded.  keep:
\* existingImageUrls.  add: an image comes with it.
Edit == [title : Texts \cup {Empty, None}, text : Texts \cup {Empty, None},
         thumb : {"none", "same", "new"}, keep : SUBSET Files, add : BOOLEAN,
         video : Videos \cup {None}]

ASSUME ContentAssumption ==
    /\ Author \in [Posts \cup Blogs -> Users]
    /\ InBucket \subseteq Thumbs \cup Videos
    /\ Edits \subseteq Edit
    /\ None \notin Thumbs \cup Videos \cup Items
    /\ Files \cap Thumbs = {}

VARIABLES
    users,      \* the rows of User
    object,     \* the objects of the bucket: images and thumbnails
    call,
    torn,       \* history: posts whose thumbnail an update failed at or raced for
    leaked      \* history: images whose row and object parted

indexVars == <<row, point, sync, stale, forgotten>>
vars == <<row, point, sync, stale, forgotten, users, object, call, torn, leaked>>

-----------------------------------------------------------------------------
Row == [state : {"none", "live", "deleted"}, title : Texts \cup {Empty, None},
        text : Texts \cup {Empty, None}, images : SUBSET Files,
        thumb : Thumbs \cup {None}, videos : SUBSET Videos]
NoRow   == [state |-> "none", title |-> None, text |-> None, images |-> {},
            thumb |-> None, videos |-> {}]
Deleted == [NoRow EXCEPT !.state = "deleted"]

\* ids: the items a deletion is about.  seen: the row that was read.  thumb: the
\* new thumbnail.  add: the images just uploaded.
CallType ==
    [pc : {"idle", "insert", "thumbnail", "images", "upload", "video", "write",
           "delete", "files", "points", "upsert", "update"},
     item : Items \cup {None}, ids : SUBSET Items, seen : Row,
     title : Texts \cup {Empty, None}, text : Texts \cup {Empty, None},
     thumb : Thumbs \cup {None}, keep : SUBSET Files, adds : BOOLEAN,
     add : SUBSET Files, video : Videos \cup {None}, changes : Changes]
Idle ==
    [pc |-> "idle", item |-> None, ids |-> {}, seen |-> NoRow, title |-> None,
     text |-> None, thumb |-> None, keep |-> {}, adds |-> FALSE, add |-> {},
     video |-> None, changes |-> NoChange]

(* Every variable has its type; a row or a call in progress has what its    *)
(* kind requires.                                                           *)
TypeOK ==
    /\ row \in [Items -> Row]
    /\ point \in [Items -> Vectors \cup {NoPoint}]
    /\ sync \in Sync
    /\ stale \subseteq Items /\ forgotten \subseteq Items
    /\ users \subseteq Users
    /\ object \in [Files \cup Thumbs -> {"new", "stored", "deleted"}]
    /\ call \in [Calls -> CallType]
    /\ torn \subseteq Posts /\ leaked \subseteq Files
    /\ \A i \in Items : HasRow(i) =>
         /\ VectorsOf(row[i]) \in Vectors
         /\ i \in Posts <=> row[i].thumb # None
         /\ row[i].title = Empty => i \in Posts
    /\ \A c \in Calls :
         /\ call[c].pc \in {"insert", "thumbnail", "images", "upload", "video", "write",
                            "upsert", "update"} => call[c].item \in Items
         /\ call[c].pc \in {"insert", "thumbnail", "images", "upload", "video"}
              => call[c].item \in Posts

Init ==
    /\ row = [i \in Items |-> NoRow]
    /\ point = [i \in Items |-> NoPoint]
    /\ sync = NoSync
    /\ stale = {} /\ forgotten = {}
    /\ users = Users
    /\ object = [o \in Files \cup Thumbs |-> "new"]
    /\ call = [c \in Calls |-> Idle]
    /\ torn = {} /\ leaked = {}

-----------------------------------------------------------------------------
Put(o, S, state) == [x \in Files \cup Thumbs |-> IF x \in S THEN state ELSE o[x]]
Images(i)     == row[i].images
Dropping(k)   == k.seen.images \ k.keep          \* imagesToDelete

\* Mutation: no thumbnailUrl counts as another one.
OtherThumb(k) == k.thumb # k.seen.thumb

NewThumb(k)   == k.thumb # None /\ k.thumb # k.seen.thumb
Going(pc, k)  == [k EXCEPT !.pc = pc]

\* updatePost looks at one video of the post, and compares its URL.
FirstVideo(k) == CHOOSE v \in k.seen.videos : TRUE
SameVideo(k)  == k.seen.videos # {} /\ FirstVideo(k) = k.video
OldVideo(k)   == IF k.seen.videos = {} \/ SameVideo(k) THEN {} ELSE {FirstVideo(k)}
NewVideo(k)   == IF k.video = None \/ SameVideo(k) THEN {} ELSE {k.video}

\* The steps of updatePost that have something to do, in order.
AfterVideo(k)  == "write"
AfterUpload(k) == IF OldVideo(k) # {} THEN "video" ELSE AfterVideo(k)
AfterImages(k) == IF k.adds THEN "upload" ELSE AfterUpload(k)
AfterThumb(k)  == IF Dropping(k) # {} THEN "images" ELSE AfterImages(k)
AfterRead(k)   == IF NewThumb(k) THEN "thumbnail" ELSE AfterThumb(k)

\* The calls that an awaiting caller can still see fail, before they write.
Preparing == {"thumbnail", "images", "upload", "video", "write"}
ThumbGone(k)  == NewThumb(k) /\ k.pc \in Preparing \ {"thumbnail"}
ImagesGone(k) == Dropping(k) # {} /\ k.pc \in Preparing \ {"thumbnail", "images"}

(* What is left undone when the calls of S end early.                       *)
Abandon(S) ==
    /\ call' = [c \in Calls |-> IF c \in S THEN Idle ELSE call[c]]
    /\ torn' = torn \cup {call[c].item : c \in {d \in S : ThumbGone(call[d])}}
    /\ leaked' = leaked
         \cup (UNION {call[c].add : c \in {d \in S : call[d].pc # "update"
                                                     /\ call[d].pc # "upsert"}})
         \cup (UNION {call[c].seen.images : c \in {d \in S : call[d].pc = "files"}})

\* and what this means for the index.
LeftStale(S) ==
    {call[c].item : c \in {d \in S : call[d].pc \in {"upsert", "update"}
                                      \/ ImagesGone(call[d])}}
LeftPoints(S) == UNION {call[c].ids : c \in {d \in S : call[d].pc \in {"files", "points"}}}

\* The call of an awaiting client fails; also when what it awaited was done and only
\* the answer got lost: then it has taken that step, and fails at the next.
CallFails(c) ==
    /\ call[c].pc \notin {"idle", "upsert", "update"}
    /\ Abandon({c})
    /\ stale' = stale \cup LeftStale({c})
    /\ forgotten' = forgotten \cup LeftPoints({c})
    /\ UNCHANGED <<row, point, sync, users, object>>

\* The process ends and is restarted: on an update, or because an upsert or an
\* update of vectors threw and nobody catches the error.
Crash ==
    /\ Abandon(Calls)
    /\ stale' = stale \cup LeftStale(Calls) \cup Unsynced
    /\ forgotten' = forgotten \cup LeftPoints(Calls)
    /\ sync' = NoSync
    /\ UNCHANGED <<row, point, users, object>>

-----------------------------------------------------------------------------
(* What makes rows and vectors part.                                       *)

InProgress(c) == {call[d].item : d \in {e \in Calls \ {c} : call[e].pc # "idle"}}
Prepared(c)   == {call[d].item : d \in {e \in Calls \ {c} : call[e].pc \in Preparing}}
Upserting     == {call[d].item : d \in {e \in Calls : call[e].pc = "upsert"}}

\* Call c writes the row of i.
Writes(c, i) ==
    /\ stale' = IF i \in InProgress(c) \/ Syncing(i) THEN stale \cup {i} ELSE stale
    /\ torn'  = IF i \in Prepared(c) \cap Posts THEN torn \cup {i} ELSE torn
    /\ Touch({i})

\* The rows of S are deleted; kept: those whose points are deleted afterwards.
DeleteRows(S, kept) ==
    /\ row' = [i \in Items |-> IF i \in S THEN Deleted ELSE row[i]]
    /\ forgotten' = forgotten
         \cup {i \in S : i \notin kept \/ i \in Upserting \/ Syncing(i)}
    /\ Touch(S)

-----------------------------------------------------------------------------
(* Posts.                                                                  *)

FreshImages(adds) == IF adds THEN {{f} : f \in {g \in Files : object[g] = "new"}} ELSE {{}}
FreshThumbs       == {t \in Thumbs : object[t] = "new"}

\* createPost up to the insert: the client has uploaded the thumbnail, the server
\* uploads the image; an image or a video is required.
CreatePost(c, p, e) ==
    /\ call[c].pc = "idle"
    /\ row[p].state = "none"
    /\ Author[p] \in users
    /\ p \notin InProgress(c)
    /\ e.title \in Texts /\ e.text # None /\ e.thumb = "new"
    /\ e.add \/ e.video # None
    /\ \E add \in FreshImages(e.add), t \in FreshThumbs :
         /\ object' = Put(object, add \cup {t}, "stored")
         /\ call' = [call EXCEPT ![c] =
                       [Idle EXCEPT !.pc = "insert", !.item = p, !.title = e.title,
                                    !.text = e.text, !.thumb = t, !.add = add,
                                    !.video = e.video]]
    /\ UNCHANGED <<row, point, sync, stale, forgotten, users, torn, leaked>>

\* The insert, unless the author is gone; the embedding starts.
InsertPost(c) ==
    LET k == call[c]
        r == [state |-> "live", title |-> k.title, text |-> k.text, images |-> k.add,
              thumb |-> k.thumb, videos |-> {k.video} \ {None}]
    IN /\ k.pc = "insert"
       /\ Author[k.item] \in users
       /\ row' = [row EXCEPT ![k.item] = r]
       /\ call' = [call EXCEPT ![c] = [Idle EXCEPT !.pc = "upsert", !.item = k.item,
                                                   !.changes = VectorsOf(r)]]
       /\ UNCHANGED <<point, sync, stale, forgotten, users, object, torn, leaked>>

\* updatePost reads the post.
UpdatePost(c, p, e) ==
    /\ call[c].pc = "idle"
    /\ HasRow(p)
    /\ \E t \in CASE e.thumb = "none" -> {None} [] e.thumb = "same" -> {row[p].thumb}
                  [] OTHER -> FreshThumbs :
         LET k == [Idle EXCEPT !.item = p, !.seen = row[p], !.title = e.title,
                               !.text = e.text, !.thumb = t, !.keep = e.keep,
                               !.adds = e.add, !.video = e.video]
         IN /\ call' = [call EXCEPT ![c] = Going(AfterRead(k), k)]
            /\ object' = IF e.thumb = "new" THEN Put(object, {t}, "stored") ELSE object
    /\ UNCHANGED <<row, point, sync, stale, forgotten, users, torn, leaked>>

\* deleteFiles of the old thumbnail, which refuses a URL outside the bucket.
DeleteThumbnail(c) ==
    LET k == call[c]
    IN /\ k.pc = "thumbnail"
       /\ k.seen.thumb \in InBucket
       /\ object' = Put(object, {k.seen.thumb}, "deleted")
       /\ call' = [call EXCEPT ![c] = Going(AfterThumb(k), k)]
       /\ UNCHANGED <<row, point, sync, stale, forgotten, users, torn, leaked>>

\* The rows and the objects of the images that go are deleted in parallel; the
\* call ends if one of the two fails.
DeleteImages(c) ==
    LET k == call[c]
        S == Dropping(k)
    IN /\ k.pc = "images"
       /\ \E rows, objects \in BOOLEAN :
            /\ row' = IF rows /\ HasRow(k.item)
                      THEN [row EXCEPT ![k.item].images = @ \ S] ELSE row
            /\ object' = IF objects THEN Put(object, S, "deleted") ELSE object
            /\ IF rows /\ objects
               THEN /\ call' = [call EXCEPT ![c] = Going(AfterImages(k), k)]
                    /\ UNCHANGED <<stale, torn, leaked>>
               ELSE /\ call' = [call EXCEPT ![c] = Idle]
                    /\ stale' = stale \cup {k.item}
                    /\ torn' = IF ThumbGone(k) THEN torn \cup {k.item} ELSE torn
                    /\ leaked' = leaked \cup S
       /\ Touch({k.item})
       /\ UNCHANGED <<point, forgotten, users>>

UploadImages(c) ==
    LET k == call[c]
    IN /\ k.pc = "upload"
       /\ \E add \in FreshImages(TRUE) :
            /\ object' = Put(object, add, "stored")
            /\ call' = [call EXCEPT ![c] = Going(AfterUpload(k), [k EXCEPT !.add = add])]
       /\ UNCHANGED <<row, point, sync, stale, forgotten, users, torn, leaked>>

\* The row of the old video and its object, in parallel: the row goes even if
\* deleteFiles refuses the URL, and the call fails then.
DeleteVideo(c) ==
    LET k == call[c]
        S == OldVideo(k)
    IN /\ k.pc = "video"
       /\ HasRow(k.item) /\ S \subseteq row[k.item].videos
       /\ row' = [row EXCEPT ![k.item].videos = @ \ S]
       /\ IF S \subseteq InBucket
          THEN /\ call' = [call EXCEPT ![c] = Going(AfterVideo(k), k)]
               /\ UNCHANGED <<stale, torn, leaked>>
          ELSE /\ Abandon({c})
               /\ stale' = stale \cup LeftStale({c})
       /\ UNCHANGED <<point, sync, forgotten, users, object>>

Given(new, old) == IF new = None THEN old ELSE new
Changed(new, old) == IF new = old THEN None ELSE new

\* The tail of a call that may have changes to embed: nothing comes of an empty title.
Embedding(i, changes) ==
    IF Written(changes) \cup Dropped(changes) = {} THEN Idle
    ELSE [Idle EXCEPT !.pc = "update", !.item = i, !.changes = changes]

\* post.update: it writes what was given; what differs from the row that was read
\* is to be embedded, and the images the post now has if some came or went.
WritePost(c) ==
    LET k == call[c]
        i == k.item
        r == [row[i] EXCEPT !.title = Given(k.title, @), !.text = Given(k.text, @),
                            !.images = @ \cup k.add, !.thumb = Given(k.thumb, @),
                            !.videos = @ \cup NewVideo(k)]
        changes == [title  |-> Changed(k.title, k.seen.title),
                    text   |-> Changed(k.text, k.seen.text),
                    images |-> IF Dropping(k) # {} \/ k.adds THEN r.images ELSE None]
    IN /\ k.pc = "write" /\ i \in Posts
       /\ HasRow(i)
       /\ row' = [row EXCEPT ![i] = r]
       /\ call' = [call EXCEPT ![c] = Embedding(i, changes)]
       /\ Writes(c, i)
       /\ UNCHANGED <<point, forgotten, users, object, leaked>>

\* deletePost reads the post and its media ...
DeletePost(c, p) ==
    /\ call[c].pc = "idle"
    /\ HasRow(p)
    /\ call' = [call EXCEPT ![c] = [Idle EXCEPT !.pc = "delete", !.ids = {p},
                                                !.item = p, !.seen = row[p]]]
    /\ UNCHANGED <<indexVars, users, object, torn, leaked>>

\* Mutation: cleanupExternalResources looks for videos only.
FinishDeleteVideoPost(c) ==
    LET k == call[c]
    IN /\ k.pc = "delete" /\ k.item \in Posts
       /\ HasRow(k.item)
       /\ DeleteRows({k.item}, {k.item})
       /\ call' = [call EXCEPT ![c] =
                     Going(IF k.seen.videos = {} THEN "points" ELSE "files", k)]
       /\ leaked' = leaked \cup (Images(k.item) \ k.seen.images)
       /\ UNCHANGED <<point, stale, users, object, torn>>

\* ... deletes the row, and answers; cleanupExternalResources goes on with the
\* media it had read.
FinishDeletePost(c) ==
    LET k == call[c]
    IN /\ k.pc = "delete" /\ k.item \in Posts
       /\ HasRow(k.item)
       /\ DeleteRows({k.item}, {k.item})
       /\ call' = [call EXCEPT ![c] =
                     Going(IF k.seen.images \cup k.seen.videos = {} THEN "points"
                           ELSE "files", k)]
       /\ leaked' = leaked \cup (Images(k.item) \ k.seen.images)
       /\ UNCHANGED <<point, stale, users, object, torn>>

\* Mutation: the points are not deleted after the files.
DeleteFilesOnly(c) ==
    LET k == call[c]
    IN /\ k.pc = "files"
       /\ k.seen.videos \subseteq InBucket
       /\ object' = Put(object, k.seen.images, "deleted")
       /\ call' = [call EXCEPT ![c] = Idle]
       /\ UNCHANGED <<indexVars, users, torn, leaked>>

\* deleteFiles removes nothing if it refuses one of the URLs.
DeleteFiles(c) ==
    LET k == call[c]
    IN /\ k.pc = "files"
       /\ k.seen.videos \subseteq InBucket
       /\ object' = Put(object, k.seen.images, "deleted")
       /\ call' = [call EXCEPT ![c] = Going("points", k)]
       /\ UNCHANGED <<indexVars, users, torn, leaked>>

\* buildUpdateData passes over what is empty.
NotEmpty(new, old) == IF new = Empty THEN old ELSE Given(new, old)

\* updatePostByAdmin writes the row and leaves the vectors alone.
UpdatePostByAdmin(p, e) ==
    /\ HasRow(p)
    /\ \E t \in IF e.thumb = "new" THEN FreshThumbs ELSE {None} :
         /\ row' = [row EXCEPT ![p] =
                      [row[p] EXCEPT !.title = NotEmpty(e.title, @),
                                     !.text  = NotEmpty(e.text, @),
                                     !.thumb = Given(t, @)]]
         /\ object' = IF t = None THEN object ELSE Put(object, {t}, "stored")
    /\ stale' = IF VectorsOf(row'[p]) # VectorsOf(row[p]) THEN stale \cup {p} ELSE stale
    /\ Touch({p})
    /\ UNCHANGED <<point, forgotten, users, call, torn, leaked>>

\* deletePostByAdmin and bulkDeletePosts: the rows only.
BulkDeletePosts(S) ==
    /\ \A p \in S : HasRow(p)
    /\ DeleteRows(S, {})
    /\ leaked' = leaked \cup UNION {Images(p) : p \in S}
    /\ UNCHANGED <<point, stale, users, object, call, torn>>

\* An account is deleted: posts and blogs cascade.
DeleteUser(u) ==
    LET S == {i \in Posts \cup Blogs : Author[i] = u /\ HasRow(i)}
    IN /\ u \in users
       /\ users' = users \ {u}
       /\ DeleteRows(S, {})
       /\ leaked' = leaked \cup UNION {Images(i) : i \in S}
       /\ UNCHANGED <<point, stale, object, call, torn>>

-----------------------------------------------------------------------------
(* Blogs.                                                                  *)

CreateBlog(c, b, e) ==
    /\ call[c].pc = "idle"
    /\ row[b].state = "none"
    /\ Author[b] \in users
    /\ e.title \in Texts /\ e.text \in Texts
    /\ row' = [row EXCEPT ![b] = [NoRow EXCEPT !.state = "live", !.title = e.title,
                                              !.text = e.text]]
    /\ call' = [call EXCEPT ![c] = [Idle EXCEPT !.pc = "upsert", !.item = b,
                                               !.changes = VectorsOf(row'[b])]]
    /\ UNCHANGED <<point, sync, stale, forgotten, users, object, torn, leaked>>

\* updateBlog reads the blog and checks the author ...
UpdateBlog(c, b, e) ==
    /\ call[c].pc = "idle"
    /\ HasRow(b)
    /\ e.title # Empty /\ e.text # Empty
    /\ call' = [call EXCEPT ![c] = [Idle EXCEPT !.pc = "write", !.item = b, !.seen = row[b],
                                               !.title = e.title, !.text = e.text]]
    /\ UNCHANGED <<indexVars, users, object, torn, leaked>>

\* ... and writes it.  The content that is embedded is the one the row has now,
\* whenever the content given is not the one that was read, and none given is not.
WriteBlog(c) ==
    LET k == call[c]
        i == k.item
        r == [row[i] EXCEPT !.title = Given(k.title, @), !.text = Given(k.text, @)]
        changes == [title  |-> Changed(k.title, k.seen.title),
                    text   |-> IF k.text = k.seen.text THEN None ELSE r.text,
                    images |-> None]
    IN /\ k.pc = "write" /\ i \in Blogs
       /\ HasRow(i)
       /\ row' = [row EXCEPT ![i] = r]
       /\ call' = [call EXCEPT ![c] = Embedding(i, changes)]
       /\ Writes(c, i)
       /\ UNCHANGED <<point, forgotten, users, object, leaked>>

\* deleteBlog and deleteManyBlogs: the rows there are, then all the points, of
\* blogs that exist or did.
DeleteBlogs(c, S) ==
    LET live == {b \in S : HasRow(b)}
    IN /\ call[c].pc = "idle"
       /\ live # {} /\ \A b \in S : row[b].state # "none"
       /\ DeleteRows(live, live)
       /\ call' = [call EXCEPT ![c] = [Idle EXCEPT !.pc = "points", !.ids = S]]
       /\ UNCHANGED <<point, stale, users, object, torn, leaked>>

-----------------------------------------------------------------------------
(* Categories.                                                             *)

\* Mutation: the description is not validated.
CreateCategoryUnchecked(c, g, e) ==
    /\ call[c].pc = "idle"
    /\ row[g].state = "none"
    /\ e.title \in Texts
    /\ row' = [row EXCEPT ![g] = [NoRow EXCEPT !.state = "live", !.title = e.title,
                                              !.text = e.text]]
    /\ call' = [call EXCEPT ![c] = [Idle EXCEPT !.pc = "upsert", !.item = g,
                                               !.changes = VectorsOf(row'[g])]]
    /\ UNCHANGED <<point, sync, stale, forgotten, users, object, torn, leaked>>

CreateCategory(c, g, e) ==
    /\ call[c].pc = "idle"
    /\ row[g].state = "none"
    /\ e.title \in Texts /\ e.text \in Texts
    /\ row' = [row EXCEPT ![g] = [NoRow EXCEPT !.state = "live", !.title = e.title,
                                              !.text = e.text]]
    /\ call' = [call EXCEPT ![c] = [Idle EXCEPT !.pc = "upsert", !.item = g,
                                               !.changes = VectorsOf(row'[g])]]
    /\ UNCHANGED <<point, sync, stale, forgotten, users, object, torn, leaked>>

UpdateCategory(c, g, e) ==
    /\ call[c].pc = "idle"
    /\ HasRow(g)
    /\ e.title # Empty /\ e.text # Empty
    /\ call' = [call EXCEPT ![c] = [Idle EXCEPT !.pc = "write", !.item = g, !.seen = row[g],
                                               !.title = e.title, !.text = e.text]]
    /\ UNCHANGED <<indexVars, users, object, torn, leaked>>

WriteCategory(c) ==
    LET k == call[c]
        i == k.item
        r == [row[i] EXCEPT !.title = Given(k.title, @), !.text = Given(k.text, @)]
        changes == [title  |-> Changed(k.title, k.seen.title),
                    text   |-> Changed(k.text, k.seen.text),
                    images |-> None]
    IN /\ k.pc = "write" /\ i \in Categories
       /\ HasRow(i)
       /\ row' = [row EXCEPT ![i] = r]
       /\ call' = [call EXCEPT ![c] = Embedding(i, changes)]
       /\ Writes(c, i)
       /\ UNCHANGED <<point, forgotten, users, object, leaked>>

\* remove checks that the category exists ...
RemoveCategory(c, g) ==
    /\ call[c].pc = "idle"
    /\ HasRow(g)
    /\ call' = [call EXCEPT ![c] = [Idle EXCEPT !.pc = "delete", !.item = g, !.ids = {g}]]
    /\ UNCHANGED <<indexVars, users, object, torn, leaked>>

\* ... deletes the row, and awaits the deletion of the point.
FinishRemoveCategory(c) ==
    LET k == call[c]
    IN /\ k.pc = "delete" /\ k.item \in Categories
       /\ HasRow(k.item)
       /\ DeleteRows({k.item}, {k.item})
       /\ call' = [call EXCEPT ![c] = Going("points", k)]
       /\ UNCHANGED <<point, stale, users, object, torn, leaked>>

-----------------------------------------------------------------------------
(* The background.                                                         *)

\* The embedding of a new item is done, and its point written.
UpsertEmbedding(c) ==
    /\ call[c].pc = "upsert"
    /\ Upsert(call[c].item, call[c].changes)
    /\ call' = [call EXCEPT ![c] = Idle]
    /\ UNCHANGED <<row, sync, stale, forgotten, users, object, torn, leaked>>

\* updatePostEmbedding and its likes run two requests in parallel.
Remaining(c, F) ==
    call' = [call EXCEPT ![c] = Embedding(@.item, Without(@.changes, F))]

WriteVectors(c) ==
    LET k == call[c]
    IN /\ k.pc = "update"
       /\ Written(k.changes) # {}
       /\ CanUpdateVectors(k.item, k.changes)
       /\ UpdateVectors(k.item, k.changes)
       /\ Remaining(c, Written(k.changes))
       /\ UNCHANGED <<row, sync, stale, forgotten, users, object, torn, leaked>>

DropVectors(c) ==
    LET k == call[c]
    IN /\ k.pc = "update"
       /\ Dropped(k.changes) # {}
       /\ DeleteVectors(k.item, k.changes)
       /\ Remaining(c, Dropped(k.changes))
       /\ UNCHANGED <<row, sync, stale, forgotten, users, object, torn, leaked>>

\* The point does not exist, or not yet: the error ends the process.
PointMissing(c) ==
    /\ call[c].pc = "update"
    /\ ~CanUpdateVectors(call[c].item, call[c].changes)
    /\ Crash

DeleteThePoints(c) ==
    /\ call[c].pc = "points"
    /\ DeletePoints(call[c].ids)
    /\ call' = [call EXCEPT ![c] = Idle]
    /\ UNCHANGED <<row, sync, stale, forgotten, users, object, torn, leaked>>

Busy == {call[c].item : c \in {d \in Calls : call[d].pc # "idle"}}

SyncEmbeddings(K) == StartSync(K, Upserting) /\ UNCHANGED <<users, object, call, torn, leaked>>
SyncGoesOn        == SyncStep(Busy) /\ UNCHANGED <<users, object, call, torn, leaked>>

-----------------------------------------------------------------------------
CallStep(c) ==
    \/ InsertPost(c) \/ DeleteThumbnail(c) \/ DeleteImages(c) \/ UploadImages(c)
    \/ DeleteVideo(c) \/ WritePost(c) \/ WriteBlog(c) \/ WriteCategory(c)
    \/ FinishDeletePost(c) \/ FinishRemoveCategory(c) \/ DeleteFiles(c)
    \/ DeleteThePoints(c) \/ UpsertEmbedding(c) \/ WriteVectors(c) \/ DropVectors(c)
    \/ PointMissing(c) \/ CallFails(c)

Next ==
    \/ \E c \in Calls, p \in Posts, e \in Edits : CreatePost(c, p, e) \/ UpdatePost(c, p, e)
    \/ \E c \in Calls, b \in Blogs, e \in Edits : CreateBlog(c, b, e) \/ UpdateBlog(c, b, e)
    \/ \E c \in Calls, g \in Categories, e \in Edits :
         CreateCategory(c, g, e) \/ UpdateCategory(c, g, e)
    \/ \E c \in Calls, p \in Posts : DeletePost(c, p)
    \/ \E c \in Calls, S \in (SUBSET Blogs) \ {{}} : DeleteBlogs(c, S)
    \/ \E c \in Calls, g \in Categories : RemoveCategory(c, g)
    \/ \E p \in Posts, e \in Edits : UpdatePostByAdmin(p, e)
    \/ \E S \in (SUBSET Posts) \ {{}} : BulkDeletePosts(S)
    \/ \E u \in Users : DeleteUser(u)
    \/ \E c \in Calls : CallStep(c)
    \/ \E K \in Collections : SyncEmbeddings(K)
    \/ SyncGoesOn
    \/ Crash

\* The event loop runs what is ready; a call of Qdrant, the bucket or the database
\* returns or throws.
Fairness == (\A c \in Calls : WF_vars(CallStep(c))) /\ WF_vars(SyncGoesOn)

Spec == Init /\ [][Next]_vars /\ Fairness

-----------------------------------------------------------------------------
(* Properties.                                                             *)

(* A deleted item has no vectors left once its deletion is done, so that    *)
(* search does not spend its places on it, unless it was deleted by an      *)
(* administrator or with its author, an error hit the cleanup, or an        *)
(* embedding of it was still being written.                                 *)
NoGhostVectors ==
    \A i \in Items \ forgotten :
      row[i].state = "deleted" /\ point[i] # NoPoint =>
        \E c \in Calls : call[c].pc \in {"files", "points"} /\ i \in call[c].ids

\* The vector of a title that became empty stays until the post gets another title.
FieldFollows(i, f) == \/ point[i][f] = VectorsOf(row[i])[f]
                      \/ f = "title" /\ row[i].title = Empty

(* When nothing is in progress on an item, it is found by what its row says *)
(* now: unless two writes of it overlapped, an error or an administrator    *)
(* came in between, and no synchronisation has repaired it since; and       *)
(* except for a title that is empty, whose vector no update deletes.        *)
VectorsFollowRows ==
    \A i \in Items \ (stale \cup Busy) :
      HasRow(i) /\ ~(sync.pc # "idle" /\ i \in sync.coll) =>
        \A f \in Field : FieldFollows(i, f)

(* The thumbnail of a post is in the bucket, unless an update that has      *)
(* deleted it has yet to write the new one, failed before, or raced another. *)
ThumbnailIsStored ==
    \A p \in Posts \ torn :
      HasRow(p) => \/ object[row[p].thumb] = "stored"
                   \/ \E c \in Calls : call[c].item = p /\ ThumbGone(call[c])

\* The images some call has uploaded for a post, or read of one it has deleted.
Held == (UNION {call[c].add : c \in Calls})
          \cup (UNION {call[c].seen.images : c \in {d \in Calls : call[d].pc = "files"}})

(* The images of a post are in the bucket, and an image in the bucket is    *)
(* one of a post or about to be, or to be removed, however updates and      *)
(* deletions interleave: unless an error or a cascade made the two part.    *)
ImagesMatchRows ==
    \A f \in Files \ leaked :
      /\ (\E p \in Posts : f \in Images(p)) => object[f] = "stored"
      /\ object[f] = "stored" => f \in Held \/ \E p \in Posts : f \in Images(p)

Settled(i) == IF HasRow(i) THEN \A f \in Field : FieldFollows(i, f) ELSE point[i] = NoPoint

(* What is created, changed or deleted is so in the index in the end, with  *)
(* the same exceptions.                                                     *)
IndexSettles ==
    \A i \in Items : ~Settled(i) ~> (Settled(i) \/ i \in stale \cup forgotten)
=============================================================================
