------------------------------ MODULE Library -------------------------------
(***************************************************************************)
(* What users keep: bookmarks and protection of blogs, and collections of  *)
(* posts.                                                                  *)
(*                                                                         *)
(*   BlogManagementService   toggleBookmark, protectBlog                   *)
(*   CollectionService       createCollection, addPostToCollection,        *)
(*                           removePostFromCollection, removeCollection    *)
(*                                                                         *)
(* Of a blog and a post this module has the rows only; Content has the     *)
(* rest.  The name and the flags of a collection are data.                 *)
(***************************************************************************)
EXTENDS Accounts

CONSTANTS
    Blogs,
    Posts,
    Collections,    \* bound: ids of collections
    Visits,         \* bound: requests about the library in progress
    Gone            \* a row that was deleted: its id is not used again

VARIABLES
    blog,           \* rows of Blog
    post,           \* rows of Post: their author
    bookmarks,      \* rows of Bookmark
    collection,     \* rows of Collection: their owner
    kept,           \* rows of PostsOnCollections
    visit,
    toggled,        \* history: bookmarks toggled an odd number of times, by the answers
    flipped,        \* history: blogs whose protection was, by the answers
    crossing        \* history: blogs whose protection was toggled by overlapping requests

libraryVars == <<blog, post, bookmarks, collection, kept, visit, toggled, flipped, crossing>>

Absent  == {None, Gone}
BlogRow == [author : Users, published : BOOLEAN, protected : BOOLEAN]

ASSUME LibraryAssumption ==
    /\ None \notin Blogs \cup Posts \cup Collections
    /\ Absent \cap (Users \cup BlogRow) = {}
    /\ None # Gone

VisitType ==
    [pc : {"idle", "bookmark", "delete", "insert", "protect", "post", "keep", "drop", "remove"},
     user : Users \cup {None}, blog : Blogs \cup {None}, post : Posts \cup {None},
     collection : Collections \cup {None}, protected : BOOLEAN]
NoVisit == [pc |-> "idle", user |-> None, blog |-> None, post |-> None, collection |-> None,
            protected |-> FALSE]

IsBlog(b) == blog[b] \notin Absent

\* A row of a join table joins two rows.
LibraryType ==
    /\ blog \in [Blogs -> BlogRow \cup Absent]
    /\ post \in [Posts -> Users \cup Absent]
    /\ bookmarks \subseteq {x \in Users \X Blogs : HasAccount(x[1]) /\ IsBlog(x[2])}
    /\ collection \in [Collections -> Users \cup Absent]
    /\ kept \subseteq {x \in Posts \X Collections : post[x[1]] \in Users /\ collection[x[2]] \in Users}
    /\ visit \in [Visits -> VisitType]
    /\ toggled \subseteq Users \X Blogs
    /\ flipped \subseteq Blogs /\ crossing \subseteq Blogs

LibraryInit ==
    /\ blog = [b \in Blogs |-> None]
    /\ post = [p \in Posts |-> None]
    /\ bookmarks = {} /\ kept = {}
    /\ collection = [k \in Collections |-> None]
    /\ visit = [v \in Visits |-> NoVisit]
    /\ toggled = {} /\ flipped = {} /\ crossing = {}

-----------------------------------------------------------------------------
VisitBegins(v, record) == /\ visit[v].pc = "idle"
                          /\ visit' = [visit EXCEPT ![v] = record]
VisitGoesOn(v, pc) == visit' = [visit EXCEPT ![v].pc = pc]
VisitEnds(v)       == visit' = [visit EXCEPT ![v] = NoVisit]

(* The rows that are made and deleted elsewhere.                            *)
CreateBlogRow(u, b) ==
    /\ HasAccount(u) /\ blog[b] = None
    /\ \E published \in BOOLEAN :
         blog' = [blog EXCEPT ![b] = [author |-> u, published |-> published, protected |-> FALSE]]
    /\ UNCHANGED <<post, bookmarks, collection, kept, visit, toggled, flipped, crossing>>

UpdateBlogRow(b, published) ==
    /\ IsBlog(b) /\ blog[b].published # published
    /\ blog' = [blog EXCEPT ![b].published = published]
    /\ UNCHANGED <<post, bookmarks, collection, kept, visit, toggled, flipped, crossing>>

CreatePostRow(u, p) ==
    /\ HasAccount(u) /\ post[p] = None
    /\ post' = [post EXCEPT ![p] = u]
    /\ UNCHANGED <<blog, bookmarks, collection, kept, visit, toggled, flipped, crossing>>

DeleteBlogRow(b) ==
    /\ IsBlog(b)
    /\ blog' = [blog EXCEPT ![b] = Gone]
    /\ bookmarks' = {x \in bookmarks : x[2] # b}
    /\ UNCHANGED <<post, collection, kept, visit, toggled, flipped, crossing>>

DeletePostRow(p) ==
    /\ post[p] \in Users
    /\ post' = [post EXCEPT ![p] = Gone]
    /\ kept' = {x \in kept : x[1] # p}
    /\ UNCHANGED <<blog, bookmarks, collection, visit, toggled, flipped, crossing>>

-----------------------------------------------------------------------------
(* toggleBookmark reads the blog, then the bookmark, and inserts or deletes *)
(* it; who finds it inserted or deleted by then gets an error.              *)
Accessible(u, b) ==
    /\ IsBlog(b)
    /\ \/ blog[b].published /\ ~blog[b].protected
       \/ blog[b].author = u

ToggleBookmark(v, u, b) ==
    /\ u \in signedIn /\ Accessible(u, b)
    /\ VisitBegins(v, [NoVisit EXCEPT !.pc = "bookmark", !.user = u, !.blog = b])
    /\ UNCHANGED <<blog, post, bookmarks, collection, kept, toggled, flipped, crossing>>

Marks(v) == <<visit[v].user, visit[v].blog>>

ReadBookmark(v) ==
    /\ visit[v].pc = "bookmark"
    /\ VisitGoesOn(v, IF Marks(v) \in bookmarks THEN "delete" ELSE "insert")
    /\ UNCHANGED <<blog, post, bookmarks, collection, kept, toggled, flipped, crossing>>

\* The request is answered: the user has been told of one more toggle.
Toggled(x) == toggled' = IF x \in toggled THEN toggled \ {x} ELSE toggled \cup {x}

\* Mutation: deleteMany, which does not mind that the bookmark is gone.
DeleteAnyBookmark(v) ==
    /\ visit[v].pc = "delete"
    /\ bookmarks' = bookmarks \ {Marks(v)}
    /\ Toggled(Marks(v))
    /\ VisitEnds(v)
    /\ UNCHANGED <<blog, post, collection, kept, flipped, crossing>>

DeleteBookmark(v) ==
    /\ visit[v].pc = "delete" /\ Marks(v) \in bookmarks
    /\ bookmarks' = bookmarks \ {Marks(v)}
    /\ Toggled(Marks(v))
    /\ VisitEnds(v)
    /\ UNCHANGED <<blog, post, collection, kept, flipped, crossing>>

InsertBookmark(v) ==
    /\ visit[v].pc = "insert" /\ Marks(v) \notin bookmarks
    /\ HasAccount(visit[v].user) /\ IsBlog(visit[v].blog)
    /\ bookmarks' = bookmarks \cup {Marks(v)}
    /\ Toggled(Marks(v))
    /\ VisitEnds(v)
    /\ UNCHANGED <<blog, post, collection, kept, flipped, crossing>>

(* protectBlog reads the flag, and writes its negation.                     *)
ProtectBlog(v, u, b) ==
    /\ u \in signedIn /\ IsBlog(b) /\ blog[b].author = u
    /\ VisitBegins(v, [NoVisit EXCEPT !.pc = "protect", !.user = u, !.blog = b,
                                      !.protected = blog[b].protected])
    /\ UNCHANGED <<blog, post, bookmarks, collection, kept, toggled, flipped, crossing>>

\* Mutation: a blog is protected, never unprotected.
ProtectedForGood(k) == TRUE \/ k.protected

NewProtection(k) == ~k.protected

WriteProtection(v) ==
    LET b == visit[v].blog IN
    /\ visit[v].pc = "protect" /\ IsBlog(b)
    /\ blog' = [blog EXCEPT ![b].protected = NewProtection(visit[v])]
    /\ flipped' = IF b \in flipped THEN flipped \ {b} ELSE flipped \cup {b}
    /\ crossing' = IF blog[b].protected = visit[v].protected THEN crossing ELSE crossing \cup {b}
    /\ VisitEnds(v)
    /\ UNCHANGED <<post, bookmarks, collection, kept, toggled>>

-----------------------------------------------------------------------------
(* CollectionService.                                                       *)
CreateCollection(u, k) ==
    /\ u \in signedIn /\ HasAccount(u) /\ collection[k] = None
    /\ collection' = [collection EXCEPT ![k] = u]
    /\ UNCHANGED <<blog, post, bookmarks, kept, visit, toggled, flipped, crossing>>

\* findCollectionOwnedByUser, for one of the operations that go on to pc.
FindCollection(v, u, k, p, pc) ==
    /\ u \in signedIn /\ collection[k] = u
    /\ VisitBegins(v, [NoVisit EXCEPT !.pc = pc, !.user = u, !.collection = k, !.post = p])
    /\ UNCHANGED <<blog, post, bookmarks, collection, kept, toggled, flipped, crossing>>

FindPost(v) ==
    /\ visit[v].pc = "post" /\ post[visit[v].post] \in Users
    /\ VisitGoesOn(v, "keep")
    /\ UNCHANGED <<blog, post, bookmarks, collection, kept, toggled, flipped, crossing>>

AddPostToCollection(v) ==
    LET x == <<visit[v].post, visit[v].collection>> IN
    /\ visit[v].pc = "keep" /\ x \notin kept
    /\ post[x[1]] \in Users /\ collection[x[2]] \in Users
    /\ kept' = kept \cup {x}
    /\ VisitEnds(v)
    /\ UNCHANGED <<blog, post, bookmarks, collection, toggled, flipped, crossing>>

RemovePostFromCollection(v) ==
    LET x == <<visit[v].post, visit[v].collection>> IN
    /\ visit[v].pc = "drop" /\ x \in kept
    /\ kept' = kept \ {x}
    /\ VisitEnds(v)
    /\ UNCHANGED <<blog, post, bookmarks, collection, toggled, flipped, crossing>>

RemoveCollection(v) ==
    LET k == visit[v].collection IN
    /\ visit[v].pc = "remove" /\ collection[k] \in Users
    /\ collection' = [collection EXCEPT ![k] = Gone]
    /\ kept' = {x \in kept : x[2] # k}
    /\ VisitEnds(v)
    /\ UNCHANGED <<blog, post, bookmarks, toggled, flipped, crossing>>

\* What a request was after is no longer there, or the database fails.
VisitFails(v) ==
    /\ visit[v].pc # "idle"
    /\ VisitEnds(v)
    /\ UNCHANGED <<blog, post, bookmarks, collection, kept, toggled, flipped, crossing>>

-----------------------------------------------------------------------------
(* The cascade of a user's deletion.                                        *)
BlogsOf(u) == {b \in Blogs : IsBlog(b) /\ blog[b].author = u}

\* Mutation: the foreign key from Bookmark to User does not cascade.
BookmarksOnBlogs(u) == {x \in bookmarks : x[2] \in BlogsOf(u)}

LostBookmarks(u) == {x \in bookmarks : x[1] = u \/ x[2] \in BlogsOf(u)}

DropLibraryOfUser(u) ==
    /\ blog' = [b \in Blogs |-> IF b \in BlogsOf(u) THEN Gone ELSE blog[b]]
    /\ post' = [p \in Posts |-> IF post[p] = u THEN Gone ELSE post[p]]
    /\ collection' = [k \in Collections |-> IF collection[k] = u THEN Gone ELSE collection[k]]
    /\ kept' = {x \in kept : post[x[1]] # u /\ collection[x[2]] # u}
    /\ bookmarks' = bookmarks \ LostBookmarks(u)
    /\ toggled' = toggled \ LostBookmarks(u)
    /\ UNCHANGED <<visit, flipped, crossing>>

VisitsCrash ==
    /\ visit' = [v \in Visits |-> NoVisit]
    /\ UNCHANGED <<blog, post, bookmarks, collection, kept, toggled, flipped, crossing>>

LibraryStep(v) ==
    \/ \E u \in Users, b \in Blogs : ToggleBookmark(v, u, b) \/ ProtectBlog(v, u, b)
    \/ ReadBookmark(v) \/ DeleteBookmark(v) \/ InsertBookmark(v)
    \/ WriteProtection(v)
    \/ \E u \in Users, k \in Collections, p \in Posts, pc \in {"post", "drop"} :
         FindCollection(v, u, k, p, pc)
    \/ \E u \in Users, k \in Collections : FindCollection(v, u, k, None, "remove")
    \/ FindPost(v) \/ AddPostToCollection(v) \/ RemovePostFromCollection(v)
    \/ RemoveCollection(v)
    \/ VisitFails(v)

LibraryNext ==
    \/ \E v \in Visits : LibraryStep(v)
    \/ \E u \in Users, b \in Blogs : CreateBlogRow(u, b)
    \/ \E u \in Users, p \in Posts : CreatePostRow(u, p)
    \/ \E u \in Users, k \in Collections : CreateCollection(u, k)
    \/ \E b \in Blogs : DeleteBlogRow(b) \/ \E f \in BOOLEAN : UpdateBlogRow(b, f)
    \/ \E p \in Posts : DeletePostRow(p)

-----------------------------------------------------------------------------
(* A user who has been answered an odd number of times that a blog was      *)
(* toggled has it bookmarked, and else not, however the requests overlap:   *)
(* of two that find the same state one gets an error.                       *)
BookmarksFollowAnswers ==
    \A x \in Users \X Blogs : IsBlog(x[2]) =>
      (x \in bookmarks <=> x \in toggled)

(* protectBlog has no such error: the flag agrees with the answers unless   *)
(* two requests of the author overlapped.                                   *)
ProtectionFollowsAnswers ==
    \A b \in Blogs \ crossing : IsBlog(b) => (blog[b].protected <=> b \in flipped)
=============================================================================
