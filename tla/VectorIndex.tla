----------------------------- MODULE VectorIndex -----------------------------
(***************************************************************************)
(* The rows that are searched by meaning, and their vectors in Qdrant.     *)
(*                                                                         *)
(*   EmbeddingService, QdrantService                                       *)
(*   PostsEmbeddingService, BlogEmbeddingService, CategoriesEmbeddingService*)
(*                                                                         *)
(* One collection of points for posts, one for blogs and one for           *)
(* categories.  The module has the operations on points, for Content to    *)
(* use, and the synchronisation of a collection, which stands alone.       *)
(* A vector is represented by what it was computed from.                   *)
(***************************************************************************)
EXTENDS Naturals, FiniteSets

CONSTANTS
    Posts, Blogs, Categories,   \* ids
    Texts,                      \* titles, names, descriptions, contents
    Files,                      \* images the server has uploaded or may upload
    Empty,                      \* the text of a post without description, or an empty title
    None                        \* not given; no thumbnail, no vector

Items       == Posts \cup Blogs \cup Categories
Collections == {Posts, Blogs, Categories}

ASSUME VectorAssumption ==
    /\ Posts \cap Blogs = {} /\ (Posts \cup Blogs) \cap Categories = {}
    /\ Empty \notin Texts /\ None \notin Texts /\ None # Empty
    /\ \A S \in SUBSET Files : S # None
    /\ {} \notin Texts

VARIABLES
    row,        \* the rows of Post, Blog and Category
    point,      \* the points of the three collections
    sync,       \* the synchronisation in progress (bound: one at a time)
    stale,      \* history: items whose vectors the code may leave behind their row
    forgotten   \* history: items deleted without their vectors

-----------------------------------------------------------------------------
Field == {"title", "text", "images"}

\* What the vectors of an item are computed from.  A blog's text is its content, a
\* category's title its name; only posts may lack a title or text, or have images.
Vectors == [title : Texts \cup {Empty}, text : Texts \cup {Empty}, images : SUBSET Files]
NoPoint == [title |-> None, text |-> None, images |-> None]

\* New values of some of the vectors.
Changes  == [title : Texts \cup {Empty, None}, text : Texts \cup {Empty, None},
             images : (SUBSET Files) \cup {None}]
NoChange == NoPoint

VectorsOf(r) == [title |-> r.title, text |-> r.text, images |-> r.images]

\* A field that is empty has no vector; but the one of a title is never deleted.
Written(c) == {f \in Field : c[f] # None /\ c[f] # Empty /\ c[f] # {}}
Dropped(c) == {f \in Field \ {"title"} : c[f] = Empty \/ c[f] = {}}

Change(v, c, F)  == [f \in Field |-> IF f \in F THEN c[f] ELSE v[f]]
Without(c, F)    == [f \in Field |-> IF f \in F THEN None ELSE c[f]]

HasRow(i) == row[i].state = "live"

-----------------------------------------------------------------------------
(* Operations on the points, at the moment Qdrant performs them.           *)

\* upsertPostEmbedding, upsertBlogEmbeddings, upsertCategoryEmbeddings
Upsert(i, v) == point' = [point EXCEPT ![i] = v]

\* Mutation: the vectors are upserted.
CanUpsertVectors(i, c) == TRUE

\* Mutation: the point is replaced, and loses its other vectors.
ReplaceVectors(i, c) == point' = [point EXCEPT ![i] = Change(NoPoint, c, Written(c))]

\* updateVectors writes what is not empty; a point that does not exist is an error.
CanUpdateVectors(i, c) == Written(c) = {} \/ point[i] # NoPoint
UpdateVectors(i, c)    == point' = [point EXCEPT ![i] = Change(@, c, Written(c))]

\* deleteVectors removes what became empty; Qdrant ignores a missing point.
DeleteVectors(i, c) ==
    point' = IF point[i] = NoPoint THEN point
             ELSE [point EXCEPT ![i] = Change(@, c, Dropped(c))]

DeletePoints(S) == point' = [i \in Items |-> IF i \in S THEN NoPoint ELSE point[i]]

-----------------------------------------------------------------------------
(* The synchronisation of a collection.  items: the rows it has read;      *)
(* touched: those of them that were written to or deleted since.           *)

Sync   == [pc : {"idle", "cleared", "fetched"}, coll : SUBSET Items,
           items : SUBSET Items, read : [Items -> Vectors \cup {NoPoint}],
           touched : SUBSET Items]
NoSync == [pc |-> "idle", coll |-> {}, items |-> {},
           read |-> [i \in Items |-> NoPoint], touched |-> {}]

Syncing(i) == sync.pc = "fetched" /\ i \in sync.items
Touch(S)   == sync' = [sync EXCEPT !.touched = @ \cup (S \cap sync.items)]

\* The items a synchronisation that ends early leaves without vectors.
Unsynced == IF sync.pc = "idle" THEN {} ELSE {i \in sync.coll : HasRow(i)}

\* _syncEmbeddingsForModel clears the collection.  What was forgotten is gone,
\* unless something in progress will write it again.
StartSync(K, InProgress) ==
    /\ sync.pc = "idle"
    /\ DeletePoints(K)
    /\ sync' = [NoSync EXCEPT !.pc = "cleared", !.coll = K]
    /\ forgotten' = forgotten \ (K \ InProgress)
    /\ UNCHANGED <<row, stale>>

\* It reads all rows, and is done when there are none.
FetchItems ==
    LET S == {i \in sync.coll : HasRow(i)}
    IN /\ sync.pc = "cleared"
       /\ sync' = IF S = {} THEN NoSync
                  ELSE [sync EXCEPT !.pc    = "fetched",
                                    !.items = S,
                                    !.read  = [i \in Items |->
                                                 IF i \in S THEN VectorsOf(row[i])
                                                            ELSE NoPoint]]
       /\ UNCHANGED <<row, point, stale, forgotten>>

\* It upserts those whose embedding succeeded.  This repairs what was stale, if
\* nothing wrote to the row in the meantime and nothing is in progress on it.
UpsertItems(S, InProgress) ==
    /\ sync.pc = "fetched"
    /\ S \subseteq sync.items
    /\ point' = [i \in Items |-> IF i \in S THEN sync.read[i] ELSE point[i]]
    /\ stale' = (stale \ (S \ (sync.touched \cup InProgress)))
                  \cup (sync.items \ S)
    /\ sync' = NoSync
    /\ UNCHANGED <<row, forgotten>>

\* Qdrant or the database is not available, or refuses the vectors of one item.
SyncFails ==
    /\ sync.pc # "idle"
    /\ stale' = stale \cup Unsynced
    /\ sync' = NoSync
    /\ UNCHANGED <<row, point, forgotten>>

SyncStep(InProgress) ==
    \/ FetchItems
    \/ \E S \in SUBSET sync.items : UpsertItems(S, InProgress)
    \/ SyncFails
=============================================================================
