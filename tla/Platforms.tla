----------------------------- MODULE Platforms ------------------------------
(***************************************************************************)
(* Facebook accounts, the pages users publish to, and the projects that    *)
(* use them.                                                               *)
(*                                                                         *)
(*   FacebookController, FacebookAuthService   the OAuth callback          *)
(*   PlatformService                           the rows of Platform        *)
(*   AutoProjectWriteService                   create, update and remove   *)
(*                                                                         *)
(* A platform names its user without a foreign key; it goes when its       *)
(* Facebook account goes, and takes its projects with it.  tokenExpiresAt  *)
(* is null in every row that is written, so PlatformScheduler finds none   *)
(* and a platform is always ACTIVE: both are left out.                     *)
(***************************************************************************)
EXTENDS Accounts

CONSTANTS
    FbUsers,        \* people on Facebook
    Pages,          \* their pages
    Projects,       \* bound: ids of projects
    Callbacks,      \* bound: requests about platforms in progress
    MaxToken,       \* bound: page tokens issued
    MaxId           \* bound: rows of one Facebook user, or of one user and page

ASSUME PlatformsAssumption ==
    /\ None \notin FbUsers \cup Pages \cup Projects
    /\ MaxToken \in Nat /\ MaxId \in Nat

VARIABLES
    account,        \* rows of FacebookAccount, by the unique facebookUserId
    platform,       \* rows of Platform, by the unique user and page
    project,        \* rows of AutoProject
    issued,         \* page tokens are numbered as Facebook issues them
    callback,
    expected,       \* history: the pages of the last synchronisation, as changed since
    latest,         \* history: the token last given to a platform
    moved,          \* history: Facebook accounts that changed hands
    crossed,        \* history: users whose synchronisations overlapped
    reverted,       \* history: platforms to which an update gave an old token back
    strayed         \* history: projects that an update put on a platform of somebody else

platformVars == <<account, platform, project, issued, callback, expected, latest,
                  moved, crossed, reverted, strayed>>

\* id counts the rows there have been; owner = None, live = FALSE: there is none now.
AccountRow  == [id : Nat, owner : Users \cup {None}]
PlatformRow == [id : Nat, live : BOOLEAN, account : FbUsers \cup {None}, token : Nat]
ProjectRow  == [user : Users, owner : Users, page : Pages]

\* owner, page, id: the platform, or the id of the account, that was read.
\* existing: the pages and ids of the platforms that were read.
CallbackType ==
    [pc : {"idle", "account", "pages", "read", "write", "config", "project", "move"},
     user : Users \cup {None}, owner : Users \cup {None}, fb : FbUsers \cup {None},
     page : Pages \cup {None}, project : Projects \cup {None},
     id : Nat, pages : SUBSET Pages, token : Nat, existing : SUBSET (Pages \X Nat)]
NoCallback == [pc |-> "idle", user |-> None, owner |-> None, fb |-> None, page |-> None,
               project |-> None, id |-> 0, pages |-> {}, token |-> 0, existing |-> {}]

PlatformsType ==
    /\ account \in [FbUsers -> AccountRow]
    /\ platform \in [Users -> [Pages -> PlatformRow]]
    /\ project \in [Projects -> ProjectRow \cup {None}]
    /\ issued \in Nat
    /\ callback \in [Callbacks -> CallbackType]
    /\ expected \in [Users -> SUBSET Pages]
    /\ latest \in [Users -> [Pages -> Nat]]
    /\ moved \subseteq FbUsers /\ crossed \subseteq Users
    /\ reverted \subseteq Users \X Pages /\ strayed \subseteq Projects

PlatformsInit ==
    /\ account = [f \in FbUsers |-> [id |-> 0, owner |-> None]]
    /\ platform = [u \in Users |-> [p \in Pages |->
                     [id |-> 0, live |-> FALSE, account |-> None, token |-> 0]]]
    /\ project = [j \in Projects |-> None]
    /\ issued = 0
    /\ callback = [c \in Callbacks |-> NoCallback]
    /\ expected = [u \in Users |-> {}]
    /\ latest = [u \in Users |-> [p \in Pages |-> 0]]
    /\ moved = {} /\ crossed = {} /\ reverted = {} /\ strayed = {}

-----------------------------------------------------------------------------
Live(u, p)    == platform[u][p].live
PagesOf(u)    == {p \in Pages : Live(u, p)}
PlatformsOf(u) == {<<p, platform[u][p].id>> : p \in PagesOf(u)}
Emptied(pl)      == [pl EXCEPT !.live = FALSE, !.account = None, !.token = 0]

\* A project uses one of the platforms of S, a set of users and pages.
UsesOneOf(j, S) == project[j] # None /\ <<project[j].owner, project[j].page>> \in S

\* The rows of S go, with the projects that use them.
DropPlatforms(S) ==
    /\ platform' = [u \in Users |-> [p \in Pages |->
         IF <<u, p>> \in S THEN Emptied(platform[u][p]) ELSE platform[u][p]]]
    /\ project' = [j \in Projects |-> IF UsesOneOf(j, S) THEN None ELSE project[j]]

CallbackBegins(c, record) == /\ callback[c].pc = "idle"
                             /\ callback' = [callback EXCEPT ![c] = record]
CallbackEnds(c) == callback' = [callback EXCEPT ![c] = NoCallback]

-----------------------------------------------------------------------------
(* The callback: the state names the user; the code, and the profile, tell  *)
(* who agreed on Facebook.                                                  *)
FacebookCallback(c, u, f) ==
    /\ u \in signedIn
    /\ CallbackBegins(c, [NoCallback EXCEPT !.pc = "account", !.user = u, !.fb = f])
    /\ UNCHANGED <<account, platform, project, issued, expected, latest, moved, crossed,
                   reverted, strayed>>

\* Mutation: an account that exists stays with its user.
UpsertUnowned(c) ==
    LET k == callback[c]
        old == account[k.fb] IN
    /\ k.pc = "account" /\ HasAccount(k.user)
    /\ old.owner = None => old.id < MaxId
    /\ account' = [account EXCEPT ![k.fb] =
         IF old.owner = None THEN [id |-> old.id + 1, owner |-> k.user] ELSE old]
    /\ callback' = [callback EXCEPT ![c].pc = "pages", ![c].id = account'[k.fb].id]
    /\ UNCHANGED <<platform, project, issued, expected, latest, moved, crossed, reverted, strayed>>

\* The upsert by facebookUserId: an account that exists goes to this user.
UpsertFacebookAccount(c) ==
    LET k == callback[c]
        old == account[k.fb] IN
    /\ k.pc = "account" /\ HasAccount(k.user)
    /\ old.owner = None => old.id < MaxId
    /\ account' = [account EXCEPT ![k.fb] =
         [id |-> IF old.owner = None THEN old.id + 1 ELSE old.id, owner |-> k.user]]
    /\ moved' = IF old.owner \in {None, k.user} THEN moved ELSE moved \cup {k.fb}
    /\ callback' = [callback EXCEPT ![c].pc = "pages", ![c].id = account'[k.fb].id]
    /\ UNCHANGED <<platform, project, issued, expected, latest, crossed, reverted, strayed>>

\* Facebook lists the pages the user agreed to, with new tokens.
FetchFacebookPages(c, S) ==
    /\ callback[c].pc = "pages" /\ issued < MaxToken
    /\ issued' = issued + 1
    /\ callback' = [callback EXCEPT ![c].pc = "read", ![c].pages = S, ![c].token = issued + 1]
    /\ UNCHANGED <<account, platform, project, expected, latest, moved, crossed, reverted, strayed>>

(* synchronizePlatforms reads, and then writes, in one transaction that     *)
(* sees what others commit in between.                                      *)
ReadPlatforms(c) ==
    /\ callback[c].pc = "read"
    /\ callback' = [callback EXCEPT ![c].pc = "write",
                                    ![c].existing = PlatformsOf(callback[c].user)]
    /\ UNCHANGED <<account, platform, project, issued, expected, latest, moved, crossed,
                   reverted, strayed>>

\* Mutation: the platforms of other Facebook accounts are left alone.
UnauthorizedHere(k) == {x \in k.existing : /\ x[1] \notin k.pages
                                           /\ platform[k.user][x[1]].account = k.fb}

\* platformsToDelete.
Unauthorized(k) == {x \in k.existing : x[1] \notin k.pages}

\* Mutation: the config of a platform that exists is left as it is.
UpsertedOnce(k, p) ==
    IF Live(k.user, p) THEN [platform[k.user][p] EXCEPT !.account = k.fb]
    ELSE [id |-> platform[k.user][p].id + 1, live |-> TRUE, account |-> k.fb, token |-> k.token]

Upserted(k, p) ==
    [id |-> IF Live(k.user, p) THEN platform[k.user][p].id ELSE platform[k.user][p].id + 1,
     live |-> TRUE, account |-> k.fb, token |-> k.token]

Synchronized(k) ==
    [p \in Pages |->
       IF p \in k.pages THEN Upserted(k, p)
       ELSE IF <<p, platform[k.user][p].id>> \in Unauthorized(k) THEN Emptied(platform[k.user][p])
       ELSE platform[k.user][p]]

SynchronizePlatforms(c) ==
    LET k == callback[c]
        new == Synchronized(k)
        lost == {<<k.user, p>> : p \in {q \in PagesOf(k.user) : ~new[q].live}} IN
    /\ k.pc = "write"
    /\ k.pages # {} => account[k.fb].owner # None /\ account[k.fb].id = k.id
    /\ \A p \in k.pages : Live(k.user, p) \/ platform[k.user][p].id < MaxId
    /\ platform' = [platform EXCEPT ![k.user] = new]
    /\ project' = [j \in Projects |-> IF UsesOneOf(j, lost) THEN None ELSE project[j]]
    /\ expected' = [expected EXCEPT ![k.user] = k.pages]
    /\ latest' = [latest EXCEPT ![k.user] = [p \in Pages |->
                    IF p \in k.pages THEN k.token ELSE latest[k.user][p]]]
    /\ crossed' = IF PlatformsOf(k.user) \subseteq k.existing
                  THEN crossed \ {k.user} ELSE crossed \cup {k.user}
    /\ reverted' = reverted \ ({k.user} \X k.pages)
    /\ CallbackEnds(c)
    /\ UNCHANGED <<account, issued, moved, strayed>>

\* Facebook, a foreign key or the database fails, at any point.
CallbackFails(c) ==
    /\ callback[c].pc # "idle"
    /\ CallbackEnds(c)
    /\ UNCHANGED <<account, platform, project, issued, expected, latest, moved, crossed,
                   reverted, strayed>>

-----------------------------------------------------------------------------
(* The operations of PlatformController.                                    *)
CreatePlatform(u, p) ==
    /\ ~Live(u, p) /\ platform[u][p].id < MaxId /\ issued < MaxToken
    /\ issued' = issued + 1
    /\ platform' = [platform EXCEPT ![u][p] =
         [id |-> platform[u][p].id + 1, live |-> TRUE, account |-> None, token |-> issued + 1]]
    /\ expected' = [expected EXCEPT ![u] = @ \cup {p}]
    /\ latest' = [latest EXCEPT ![u][p] = issued + 1]
    /\ reverted' = reverted \ {<<u, p>>}
    /\ UNCHANGED <<account, project, callback, moved, crossed, strayed>>

DeletePlatform(u, p) ==
    /\ Live(u, p)
    /\ DropPlatforms({<<u, p>>})
    /\ expected' = [expected EXCEPT ![u] = @ \ {p}]
    /\ UNCHANGED <<account, issued, callback, latest, moved, crossed, reverted, strayed>>

\* updatePlatformConfig reads the config, and writes it back whole.
UpdatePlatformConfig(c, u, p) ==
    /\ Live(u, p)
    /\ CallbackBegins(c, [NoCallback EXCEPT !.pc = "config", !.user = u, !.page = p,
                                            !.id = platform[u][p].id,
                                            !.token = platform[u][p].token])
    /\ UNCHANGED <<account, platform, project, issued, expected, latest, moved, crossed,
                   reverted, strayed>>

WriteConfig(c) ==
    LET k == callback[c]
        pl == platform[k.user][k.page] IN
    /\ k.pc = "config" /\ pl.live /\ pl.id = k.id
    /\ CallbackEnds(c)
    /\ \/ /\ platform' = [platform EXCEPT ![k.user][k.page].token = k.token]
          /\ reverted' = IF pl.token = k.token THEN reverted
                         ELSE reverted \cup {<<k.user, k.page>>}
          /\ UNCHANGED <<issued, latest>>
       \/ /\ issued < MaxToken           \* the administrator gives a new token
          /\ issued' = issued + 1
          /\ platform' = [platform EXCEPT ![k.user][k.page].token = issued + 1]
          /\ latest' = [latest EXCEPT ![k.user][k.page] = issued + 1]
          /\ reverted' = reverted \ {<<k.user, k.page>>}
    /\ UNCHANGED <<account, project, expected, moved, crossed, strayed>>

-----------------------------------------------------------------------------
(* AutoProjectWriteService.  create: validatePlatform, and the insertion.   *)
\* Mutation: the platform of another user is accepted.
AnyPlatform(u, owner) == u \in Users

OwnPlatform(u, owner) == owner = u

CreateProject(c, u, owner, p) ==
    /\ u \in signedIn
    /\ Live(owner, p) /\ OwnPlatform(u, owner)
    /\ CallbackBegins(c, [NoCallback EXCEPT !.pc = "project", !.user = u, !.owner = owner,
                                            !.page = p, !.id = platform[owner][p].id])
    /\ UNCHANGED <<account, platform, project, issued, expected, latest, moved, crossed,
                   reverted, strayed>>

\* Ids are not used again: the new one is in no request under way.
InsertProject(c, j) ==
    LET k == callback[c] IN
    /\ k.pc = "project" /\ project[j] = None
    /\ \A d \in Callbacks : callback[d].project # j
    /\ HasAccount(k.user)
    /\ Live(k.owner, k.page) /\ platform[k.owner][k.page].id = k.id
    /\ project' = [project EXCEPT ![j] = [user |-> k.user, owner |-> k.owner, page |-> k.page]]
    /\ strayed' = strayed \ {j}
    /\ CallbackEnds(c)
    /\ UNCHANGED <<account, platform, issued, expected, latest, moved, crossed, reverted>>

(* update reads a project of the user's (its status, which must be that of  *)
(* a draft or a pause, is data), and writes what the request gives: the     *)
(* platform too, which nothing but the foreign key checks.                  *)
UpdateProject(c, u, j) ==
    /\ u \in signedIn
    /\ project[j] # None /\ project[j].user = u
    /\ CallbackBegins(c, [NoCallback EXCEPT !.pc = "move", !.user = u, !.project = j])
    /\ UNCHANGED <<account, platform, project, issued, expected, latest, moved, crossed,
                   reverted, strayed>>

WriteProject(c, owner, p) ==
    LET j == callback[c].project IN
    /\ callback[c].pc = "move" /\ project[j] # None
    /\ Live(owner, p)
    /\ project' = [project EXCEPT ![j].owner = owner, ![j].page = p]
    /\ strayed' = IF owner = project[j].user THEN strayed \ {j} ELSE strayed \cup {j}
    /\ CallbackEnds(c)
    /\ UNCHANGED <<account, platform, issued, expected, latest, moved, crossed, reverted>>

\* remove finds a project of the user's, and deletes it by its id, which is not used again.
RemoveProject(u, j) ==
    /\ u \in signedIn
    /\ project[j] # None /\ project[j].user = u
    /\ project' = [project EXCEPT ![j] = None]
    /\ UNCHANGED <<account, platform, issued, callback, expected, latest, moved, crossed,
                   reverted, strayed>>

-----------------------------------------------------------------------------
(* The cascade of a user's deletion: their Facebook accounts, the platforms *)
(* of those, and the projects of the user and of those platforms.           *)
AccountsOf(u) == {f \in FbUsers : account[f].owner = u}

PlatformsOn(F) == {x \in Users \X Pages : Live(x[1], x[2])
                                           /\ platform[x[1]][x[2]].account \in F}

DropPlatformsOfUser(u) ==
    LET lost == PlatformsOn(AccountsOf(u)) IN
    /\ account' = [f \in FbUsers |-> IF f \in AccountsOf(u) THEN [account[f] EXCEPT !.owner = None]
                                      ELSE account[f]]
    /\ platform' = [w \in Users |-> [p \in Pages |->
         IF <<w, p>> \in lost THEN Emptied(platform[w][p]) ELSE platform[w][p]]]
    /\ project' = [j \in Projects |->
         IF project[j] # None /\ (project[j].user = u \/ UsesOneOf(j, lost)) THEN None
         ELSE project[j]]
    /\ expected' = [w \in Users |-> expected[w] \ {p \in Pages : <<w, p>> \in lost}]
    /\ moved' = moved \ AccountsOf(u)
    /\ UNCHANGED <<issued, callback, latest, crossed, reverted, strayed>>

CallbacksCrash ==
    /\ callback' = [c \in Callbacks |-> NoCallback]
    /\ UNCHANGED <<account, platform, project, issued, expected, latest, moved, crossed,
                   reverted, strayed>>

PlatformStep(c) ==
    \/ \E u \in Users, f \in FbUsers : FacebookCallback(c, u, f)
    \/ UpsertFacebookAccount(c)
    \/ \E S \in SUBSET Pages : FetchFacebookPages(c, S)
    \/ ReadPlatforms(c) \/ SynchronizePlatforms(c)
    \/ CallbackFails(c)
    \/ \E u \in Users, p \in Pages : UpdatePlatformConfig(c, u, p)
    \/ WriteConfig(c)
    \/ \E u, owner \in Users, p \in Pages : CreateProject(c, u, owner, p)
    \/ \E j \in Projects : InsertProject(c, j)
    \/ \E u \in Users, j \in Projects : UpdateProject(c, u, j)
    \/ \E owner \in Users, p \in Pages : WriteProject(c, owner, p)

PlatformsNext ==
    \/ \E c \in Callbacks : PlatformStep(c)
    \/ \E u \in Users, p \in Pages : CreatePlatform(u, p) \/ DeletePlatform(u, p)
    \/ \E u \in Users, j \in Projects : RemoveProject(u, j)

-----------------------------------------------------------------------------
(* The platforms of a user are the pages of the synchronisation that        *)
(* committed last, whatever else was under way, unless it read the table    *)
(* before another one of the same user had written: then pages the user no  *)
(* longer shares may stay.                                                  *)
PlatformsFollowSync ==
    \A u \in Users \ crossed : PagesOf(u) = expected[u]

(* A platform keeps the token it was given last, unless an update of its    *)
(* config began before a synchronisation and wrote the old token back.      *)
LatestTokenStored ==
    \A u \in Users, p \in Pages :
      Live(u, p) /\ <<u, p>> \notin reverted => platform[u][p].token = latest[u][p]

(* Every project publishes to a platform that exists, although platforms    *)
(* come and go between a check and a write; and to one of its own user's,   *)
(* unless an update, which checks nothing, put it on that of somebody else. *)
ProjectsOnOwnPlatforms ==
    \A j \in Projects : project[j] # None =>
      /\ Live(project[j].owner, project[j].page)
      /\ project[j].user = project[j].owner \/ j \in strayed

(* Deleting a user takes no project of another user along, unless an update *)
(* put it on a platform of somebody else, or it publishes through a         *)
(* Facebook account that has changed hands: then a platform hangs on the    *)
(* account of somebody else.                                                *)
LossesAreOwn ==
    [][\A u \in Users : user[u] # None /\ user'[u] = None =>
         \A j \in Projects : project[j] # None /\ project'[j] = None =>
           \/ project[j].user = u
           \/ platform[project[j].owner][project[j].page].account \in moved
           \/ j \in strayed]_<<user, project>>
=============================================================================
