----------------------------- MODULE MCContent -----------------------------
(***************************************************************************)
(* One post, blog or category of one author, and two calls.                 *)
(***************************************************************************)
EXTENDS Content, TLC

CONSTANTS author, x, y, v, w

MCAuthor == [i \in Posts \cup Blogs |-> author]

Plain == [title |-> None, text |-> None, thumb |-> "none", keep |-> Files,
          add |-> FALSE, video |-> None]

\* A call is about words or about pictures.
MCEdits ==
    {[Plain EXCEPT !.title = x, !.text = x, !.thumb = "new", !.add = TRUE],
     [Plain EXCEPT !.title = x], [Plain EXCEPT !.title = y], [Plain EXCEPT !.title = Empty],
     [Plain EXCEPT !.text = Empty],
     [Plain EXCEPT !.thumb = "same", !.video = v], [Plain EXCEPT !.video = w],
     [Plain EXCEPT !.thumb = "new"],
     [Plain EXCEPT !.thumb = "same", !.keep = {}],
     [Plain EXCEPT !.thumb = "new", !.keep = {}, !.add = TRUE]}

(* Bound: one item, of any kind, in a behaviour.                            *)
OneItem == Cardinality({i \in Items : row[i].state # "none" \/ i \in Busy}) <= 1

\* The calls of the liveness run.
MCLiveEdits ==
    {[Plain EXCEPT !.title = x, !.text = x, !.thumb = "new", !.add = TRUE],
     [Plain EXCEPT !.title = Empty, !.text = y, !.keep = {}]}

WordsAside ==
    /\ \A i \in Items : row[i].title \in {None, x} /\ row[i].text \in {None, x}
    /\ \A c \in Calls : call[c].title \in {None, x} /\ call[c].text \in {None, x}

ImagesAside ==
    /\ Cardinality({o \in DOMAIN object : object[o] # "new"}) <= 2
    /\ \A c \in Calls : call[c].pc \in Preparing => Dropping(call[c]) = {} /\ ~call[c].adds

VideosAside ==
    /\ \A p \in Posts : row[p].videos = {}
    /\ \A c \in Calls : call[c].video = None

(* Bound: in separate behaviours, words change, with synchronisations, or   *)
(* images or videos do; until a thumbnail is torn, or an image is lost,     *)
(* unless its post goes with it.                                            *)
OneArea ==
    /\ torn = {}
    /\ \/ /\ ImagesAside /\ VideosAside
          /\ leaked # {} => \A p \in Posts : ~HasRow(p)
       \/ /\ WordsAside /\ sync.pc = "idle"
          /\ VideosAside \/ ImagesAside
          /\ leaked = {}

(* Bound: one call at a time beside a synchronisation.                      *)
OneBesideSync == sync.pc # "idle" => Cardinality({c \in Calls : call[c].pc # "idle"}) <= 1

Bounds == OneItem /\ OneArea /\ OneBesideSync

MCSymmetry == Permutations(Calls) \cup Permutations(Files) \cup Permutations(Thumbs)
=============================================================================
