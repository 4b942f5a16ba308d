--------------------------- MODULE Services_proofs ---------------------------
(***************************************************************************)
(* Proofs about Services: types, what outlives a Firebase account, what    *)
(* platforms and projects hang on, and what the answers of toggles say.    *)
(* Each component has its invariant; a step of one leaves those of the     *)
(* others alone, but for what Library knows of the rows of User.           *)
(***************************************************************************)
EXTENDS Services, TLAPS

-----------------------------------------------------------------------------
(* Accounts.                                                               *)

AccountsInv == AccountsType /\ RowsHaveFirebase /\ PlanFollowsUser

LEMMA AccountsInitial == AccountsInit => AccountsInv
  BY AccountsAssumption
  DEF AccountsInit, AccountsInv, AccountsType, RowsHaveFirebase, PlanFollowsUser, HasAccount,
      RequestType, NoRequest, AboutEmail

LEMMA AccountsFrame == AccountsInv /\ UNCHANGED accountVars => AccountsInv'
  BY DEF AccountsInv, AccountsType, RowsHaveFirebase, PlanFollowsUser, HasAccount, accountVars

\* A request that begins, or goes on, changes no table.
LEMMA RequestGoesOn ==
  ASSUME AccountsInv, NEW r \in Requests, NEW k \in RequestType,
         request' = [request EXCEPT ![r] = k],
         UNCHANGED <<firebase, user, signedIn, stranded, byAdmin>>,
         k.pc # "idle" => k.user \in Users,
         k.pc \in AboutEmail => k.email \in Emails,
         request[r].pc # "rows"
  PROVE  AccountsInv'
<1>1. AccountsType'
  BY DEF AccountsInv, AccountsType, RequestType, HasAccount
<1>2. RowsHaveFirebase'
  BY DEF AccountsInv, AccountsType, RowsHaveFirebase, HasAccount
<1>3. PlanFollowsUser'
  BY DEF AccountsInv, PlanFollowsUser, HasAccount
<1> QED BY <1>1, <1>2, <1>3 DEF AccountsInv

LEMMA NextDeletionRequest ==
  ASSUME AccountsType, NEW r \in Requests, request[r].pc \in {"firebase", "rows"}, NextDeletion(r)
  PROVE  \E k \in RequestType :
           /\ request' = [request EXCEPT ![r] = k]
           /\ k.pc # "idle" => k.user \in Users
           /\ k.pc \in {"idle", "firebase"}
<1> USE DEF AboutEmail
<1>1. CASE End(r)
  <2>1. NoRequest \in RequestType /\ NoRequest.pc = "idle"
    BY DEF RequestType, NoRequest
  <2> QED BY <1>1, <2>1 DEF End
<1>2. CASE \E u \in request[r].todo :
             request' = [request EXCEPT ![r].pc = "firebase", ![r].user = u, ![r].todo = @ \ {u}]
  <2>1. PICK u \in request[r].todo :
          request' = [request EXCEPT ![r].pc = "firebase", ![r].user = u, ![r].todo = @ \ {u}]
    BY <1>2
  <2> DEFINE k == [request[r] EXCEPT !.pc = "firebase", !.user = u, !.todo = @ \ {u}]
  <2>2. k \in RequestType /\ k.pc = "firebase" /\ k.user \in Users
    BY <2>1 DEF AccountsType, RequestType
  <2>3. request' = [request EXCEPT ![r] = k]
    BY <2>1 DEF AccountsType
  <2> QED BY <2>2, <2>3
<1> QED BY <1>1, <1>2 DEF NextDeletion

\* A row that is made: no other has its email.
LEMMA RowMade ==
  ASSUME AccountsInv, NEW u \in Users, NEW row \in UserRow, ~HasAccount(u), ~Taken(row.email),
         Insert(u, row)
  PROVE  /\ user' \in [Users -> UserRow \cup {None}]
         /\ user'[u] = row
         /\ \A w \in Users \ {u} : user'[w] = user[w]
         /\ \A w, x \in Users : user'[w] # None /\ user'[x] # None /\ w # x
                                => user'[w].email # user'[x].email
         /\ stranded' = IF u \in firebase THEN stranded ELSE stranded \cup {u}
<1>1. /\ user' = [user EXCEPT ![u] = row]
      /\ stranded' = IF u \in firebase THEN stranded ELSE stranded \cup {u}
  BY DEF Insert
<1>2. user \in [Users -> UserRow \cup {None}]
  BY DEF AccountsInv, AccountsType
<1>3. user'[u] = row /\ \A w \in Users \ {u} : user'[w] = user[w]
  BY <1>1, <1>2
<1>4. \A w, x \in Users : user[w] # None /\ user[x] # None /\ w # x
                            => user[w].email # user[x].email
  BY DEF AccountsInv, AccountsType
<1>5. \A w \in Users : user[w] # None => user[w].email # row.email
  BY DEF Taken, HasAccount
<1> QED BY <1>1, <1>2, <1>3, <1>4, <1>5

LEMMA AccountsStep ==
  ASSUME AccountsInv, NEW r \in Requests, AccountStep(r) \/ DeleteRow(r)
  PROVE  AccountsInv'
<1> USE AccountsAssumption DEF AboutEmail
<1> request[r] \in RequestType
  BY DEF AccountsInv, AccountsType
<1>1. ASSUME NEW pc \in {"signup", "checkNew", "checkEmail", "tokens"}, NEW u \in Users,
             NEW e \in Emails \cup {None}, Begin(r, pc, u, e), pc = "tokens" \/ e \in Emails
      PROVE  AccountsInv'
  <2> DEFINE k == [NoRequest EXCEPT !.pc = pc, !.user = u, !.email = e]
  <2>1. k \in RequestType /\ k.pc = pc /\ k.user = u /\ k.email = e
    BY DEF RequestType, NoRequest
  <2>2. request' = [request EXCEPT ![r] = k] /\ request[r].pc # "rows"
    BY <1>1 DEF Begin
  <2> HIDE DEF k
  <2> QED BY <1>1, <2>1, <2>2, RequestGoesOn DEF Begin
<1>2. ASSUME NEW u \in Users, NEW e \in Emails,
             Signup(r, u, e) \/ CreateUserByAdmin(r, u, e) \/ UpdateUser(r, u, e)
      PROVE  AccountsInv'
  BY <1>1, <1>2 DEF Signup, CreateUserByAdmin, UpdateUser
<1>3. ASSUME NEW u \in Users, Login(r, u) PROVE AccountsInv'
  BY <1>1, <1>3 DEF Login
<1>4. ASSUME NEW S \in SUBSET Users, DeleteUsers(r, S) PROVE AccountsInv'
  <2>1. PICK u \in S :
          /\ request[r].pc = "idle"
          /\ request' = [request EXCEPT ![r] = [NoRequest EXCEPT !.pc = "firebase", !.user = u,
                                                                !.todo = S \ {u}]]
          /\ UNCHANGED <<firebase, user, signedIn, stranded, byAdmin>>
    BY <1>4 DEF DeleteUsers
  <2> DEFINE k == [NoRequest EXCEPT !.pc = "firebase", !.user = u, !.todo = S \ {u}]
  <2>2. k \in RequestType /\ k.pc = "firebase" /\ k.user = u
    BY DEF RequestType, NoRequest
  <2> HIDE DEF k
  <2> QED BY <2>1, <2>2, RequestGoesOn DEF k
<1> NoRequest \in RequestType /\ NoRequest.pc = "idle"
  BY DEF RequestType, NoRequest
<1>5. CASE CreateSignedUp(r)
  <2> DEFINE u   == request[r].user
             row == [email |-> request[r].email, plan |-> TRUE]
  <2>1. u \in Users /\ row \in UserRow
    BY <1>5 DEF CreateSignedUp, AccountsInv, AccountsType, UserRow
  <2>2. /\ request' = [request EXCEPT ![r] = NoRequest]
        /\ UNCHANGED <<firebase, signedIn>>
    BY <1>5 DEF CreateSignedUp, End
  <2>3. request[r].pc = "signup"
    BY <1>5 DEF CreateSignedUp
  <2>4. CASE UNCHANGED <<user, stranded, byAdmin>>
    BY <2>2, <2>3, <2>4, RequestGoesOn
  <2>5. CASE /\ ~HasAccount(u) /\ ~Taken(row.email) /\ Insert(u, row)
             /\ byAdmin' = byAdmin
    <3>1. /\ user' \in [Users -> UserRow \cup {None}]
          /\ user'[u] = row
          /\ \A w \in Users \ {u} : user'[w] = user[w]
          /\ \A w, x \in Users : user'[w] # None /\ user'[x] # None /\ w # x
                                 => user'[w].email # user'[x].email
          /\ stranded' = IF u \in firebase THEN stranded ELSE stranded \cup {u}
      BY <2>1, <2>5, RowMade
    <3>2. row.plan = TRUE
      OBVIOUS
    <3> HIDE DEF u, row
    <3>3. AccountsType'
      BY <2>1, <2>2, <2>5, <3>1 DEF AccountsInv, AccountsType
    <3>4. RowsHaveFirebase'
      BY <2>1, <2>2, <2>3, <3>1 DEF AccountsInv, AccountsType, RowsHaveFirebase, HasAccount
    <3>5. PlanFollowsUser'
      BY <2>1, <2>5, <3>1, <3>2 DEF AccountsInv, PlanFollowsUser, HasAccount
    <3> QED BY <3>3, <3>4, <3>5 DEF AccountsInv
  <2>6. \/ UNCHANGED <<user, stranded, byAdmin>>
        \/ /\ ~HasAccount(u) /\ ~Taken(row.email) /\ Insert(u, row)
           /\ byAdmin' = byAdmin
    BY <1>5 DEF CreateSignedUp
  <2> QED BY <2>4, <2>5, <2>6
<1>6. CASE CreateForAdmin(r)
  <2> DEFINE u   == request[r].user
             row == [email |-> request[r].email, plan |-> FALSE]
  <2>1. u \in Users /\ row \in UserRow
    BY <1>6 DEF CreateForAdmin, AccountsInv, AccountsType, UserRow
  <2>2. /\ request' = [request EXCEPT ![r] = NoRequest]
        /\ UNCHANGED <<firebase, signedIn>>
    BY <1>6 DEF CreateForAdmin, End
  <2>3. request[r].pc = "create"
    BY <1>6 DEF CreateForAdmin
  <2>4. CASE UNCHANGED <<user, stranded, byAdmin>>
    BY <2>2, <2>3, <2>4, RequestGoesOn
  <2>5. CASE /\ ~HasAccount(u) /\ ~Taken(row.email) /\ Insert(u, row)
             /\ byAdmin' = byAdmin \cup {u}
    <3>1. /\ user' \in [Users -> UserRow \cup {None}]
          /\ user'[u] = row
          /\ \A w \in Users \ {u} : user'[w] = user[w]
          /\ \A w, x \in Users : user'[w] # None /\ user'[x] # None /\ w # x
                                 => user'[w].email # user'[x].email
          /\ stranded' = IF u \in firebase THEN stranded ELSE stranded \cup {u}
      BY <2>1, <2>5, RowMade
    <3>2. row.plan = FALSE
      OBVIOUS
    <3> HIDE DEF u, row
    <3>3. AccountsType'
      BY <2>1, <2>2, <2>5, <3>1 DEF AccountsInv, AccountsType
    <3>4. RowsHaveFirebase'
      BY <2>1, <2>2, <2>3, <3>1 DEF AccountsInv, AccountsType, RowsHaveFirebase, HasAccount
    <3>5. PlanFollowsUser'
      BY <2>1, <2>5, <3>1, <3>2 DEF AccountsInv, PlanFollowsUser, HasAccount
    <3> QED BY <3>3, <3>4, <3>5 DEF AccountsInv
  <2>6. \/ UNCHANGED <<user, stranded, byAdmin>>
        \/ /\ ~HasAccount(u) /\ ~Taken(row.email) /\ Insert(u, row)
           /\ byAdmin' = byAdmin \cup {u}
    BY <1>6 DEF CreateForAdmin
  <2> QED BY <2>4, <2>5, <2>6
<1>7. CASE CheckNewUser(r) \/ CheckEmail(r)
  <2>1. PICK pc \in {"create", "update"} :
          request' = [request EXCEPT ![r].pc = pc] \/ request' = [request EXCEPT ![r] = NoRequest]
    BY <1>7 DEF CheckNewUser, CheckEmail, End, Continue
  <2>2. /\ request[r].pc \in {"checkNew", "checkEmail"} /\ request[r].user \in Users
        /\ UNCHANGED <<firebase, user, signedIn, stranded, byAdmin>>
    BY <1>7 DEF CheckNewUser, CheckEmail, AccountsInv, AccountsType
  <2>3. request[r].email \in Emails
    BY <2>2 DEF AccountsInv, AccountsType
  <2> DEFINE k == [request[r] EXCEPT !.pc = pc]
  <2>4. k \in RequestType /\ k.pc = pc /\ k.user = request[r].user /\ k.email = request[r].email
    BY DEF RequestType
  <2>5. \/ request' = [request EXCEPT ![r] = k] \/ request' = [request EXCEPT ![r] = NoRequest]
    BY <2>1 DEF AccountsInv, AccountsType
  <2> HIDE DEF k
  <2>6. CASE request' = [request EXCEPT ![r] = k]
    BY <2>1, <2>2, <2>3, <2>4, <2>6, RequestGoesOn
  <2>7. CASE request' = [request EXCEPT ![r] = NoRequest]
    BY <2>2, <2>7, RequestGoesOn
  <2> QED BY <2>5, <2>6, <2>7
<1>8. CASE WriteUser(r)
  BY <1>8 DEF WriteUser, End, AccountsInv, AccountsType, RowsHaveFirebase, PlanFollowsUser,
              HasAccount, TakenFrom, UserRow
<1>9. CASE GetTokens(r) \/ LoginFails(r)
  BY <1>9 DEF GetTokens, LoginFails, End, AccountsInv, AccountsType, RowsHaveFirebase,
              PlanFollowsUser, HasAccount
<1>10. CASE DeleteFromFirebase(r)
  BY <1>10 DEF DeleteFromFirebase, Continue, AccountsInv, AccountsType, RequestType, RowsHaveFirebase,
               PlanFollowsUser, HasAccount
<1>11. ASSUME FirebaseFails(r) \/ RowMissing(r) \/ DeletionFails(r) \/ DeleteRow(r)
       PROVE  AccountsInv'
  <2>1. PICK k \in RequestType : /\ request' = [request EXCEPT ![r] = k]
                                 /\ k.pc # "idle" => k.user \in Users
                                 /\ k.pc \in {"idle", "firebase"}
    BY <1>11, NextDeletionRequest
    DEF AccountsInv, FirebaseFails, RowMissing, DeletionFails, DeleteRow
  <2>2. CASE FirebaseFails(r)
    BY <2>1, <2>2 DEF FirebaseFails, AccountsInv, AccountsType, RowsHaveFirebase, PlanFollowsUser,
                      HasAccount
  <2>3. CASE RowMissing(r)
    BY <2>1, <2>3 DEF RowMissing, AccountsInv, AccountsType, RowsHaveFirebase, PlanFollowsUser,
                      HasAccount
  <2>4. CASE DeletionFails(r)
    BY <2>1, <2>4 DEF DeletionFails, AccountsInv, AccountsType, RowsHaveFirebase, PlanFollowsUser,
                      HasAccount
  <2>5. CASE DeleteRow(r)
    BY <2>1, <2>5 DEF DeleteRow, AccountsInv, AccountsType, RowsHaveFirebase, PlanFollowsUser,
                      HasAccount
  <2> QED BY <1>11, <2>2, <2>3, <2>4, <2>5
<1> QED BY <1>2, <1>3, <1>4, <1>5, <1>6, <1>7, <1>8, <1>9, <1>10, <1>11 DEF AccountStep

LEMMA AccountsCrash == AccountsInv /\ RequestsCrash => AccountsInv'
  BY DEF RequestsCrash, NoRequest, AccountsInv, AccountsType, RequestType, RowsHaveFirebase,
         PlanFollowsUser, HasAccount, AboutEmail

\* Only a deletion takes the row of a user away.
LEMMA AccountsStay ==
  ASSUME AccountsInv, NEW r \in Requests, AccountStep(r), NEW u \in Users, HasAccount(u)
  PROVE  HasAccount(u)'
<1> USE AccountsAssumption
<1>1. user \in [Users -> UserRow \cup {None}]
  BY DEF AccountsInv, AccountsType
<1>2. CASE CreateSignedUp(r) \/ CreateForAdmin(r)
  <2>1. \/ UNCHANGED user
        \/ \E w \in Users : ~HasAccount(w) /\ \E row : user' = [user EXCEPT ![w] = row]
    BY <1>2 DEF CreateSignedUp, CreateForAdmin, Insert, AccountsInv, AccountsType
  <2> QED BY <1>1, <2>1 DEF HasAccount
<1>3. CASE WriteUser(r)
  <2>1. UNCHANGED user \/ (\E w \in Users, e \in Emails : HasAccount(w) /\ user' = [user EXCEPT ![w].email = e])
    BY <1>3 DEF WriteUser, AccountsInv, AccountsType, AboutEmail
  <2>2. ASSUME NEW w \in Users, NEW e \in Emails, HasAccount(w), user' = [user EXCEPT ![w].email = e]
        PROVE  HasAccount(u)'
    <3>1. [user[w] EXCEPT !.email = e] \in UserRow
      BY <1>1, <2>2 DEF HasAccount, UserRow
    <3>2. user'[u] = user[u] \/ user'[u] = [user[w] EXCEPT !.email = e]
      BY <1>1, <2>2
    <3> QED BY <3>1, <3>2 DEF HasAccount
  <2> QED BY <2>1, <2>2 DEF HasAccount
<1>4. CASE UNCHANGED user
  BY <1>4 DEF HasAccount
<1>5. CreateSignedUp(r) \/ CreateForAdmin(r) \/ WriteUser(r) \/ UNCHANGED user
  BY DEF AccountStep, Signup, CreateUserByAdmin, UpdateUser, Login, DeleteUsers, Begin, CheckNewUser,
         CheckEmail, GetTokens, LoginFails, DeleteFromFirebase, FirebaseFails, RowMissing, DeletionFails
<1> QED BY <1>2, <1>3, <1>4, <1>5

-----------------------------------------------------------------------------
(* Platforms.                                                              *)

\* What a callback has read, by where it is.
CallbacksTyped ==
  \A c \in Callbacks :
    /\ callback[c].pc # "idle" => callback[c].user \in Users
    /\ callback[c].pc \in {"account", "pages", "read", "write"} => callback[c].fb \in FbUsers
    /\ callback[c].pc \in {"pages", "read", "write"}
         => callback[c].id \leq account[callback[c].fb].id
    /\ callback[c].pc \in {"config", "project"} => callback[c].page \in Pages
    /\ callback[c].pc = "project" => callback[c].owner = callback[c].user
    /\ callback[c].pc = "move" => callback[c].project \in Projects

\* But for those that changed hands, Facebook accounts have platforms of their user only.
AccountsOwnPlatforms ==
  \A u \in Users, p \in Pages :
    Live(u, p) /\ platform[u][p].account \in FbUsers \ moved
      => account[platform[u][p].account].owner = u

\* And a callback gives them no others, if it still finds the row it made.
CallbacksOwn ==
  \A c \in Callbacks :
    /\ callback[c].pc \in {"pages", "read", "write"} /\ callback[c].fb \notin moved
    /\ account[callback[c].fb].owner # None /\ account[callback[c].fb].id = callback[c].id
    => account[callback[c].fb].owner = callback[c].user

PlatformsInv ==
  /\ PlatformsType
  /\ PlatformsFollowSync
  /\ LatestTokenStored
  /\ ProjectsOnOwnPlatforms
  /\ CallbacksTyped
  /\ AccountsOwnPlatforms
  /\ CallbacksOwn

LEMMA PlatformsInitial == PlatformsInit => PlatformsInv
  BY PlatformsAssumption
  DEF PlatformsInit, PlatformsInv, PlatformsType, PlatformsFollowSync, LatestTokenStored,
      ProjectsOnOwnPlatforms, CallbacksTyped, AccountsOwnPlatforms, CallbacksOwn, Live, PagesOf,
      AccountRow, PlatformRow, CallbackType, NoCallback

LEMMA PlatformsFrame == PlatformsInv /\ UNCHANGED platformVars => PlatformsInv'
  BY DEF PlatformsInv, PlatformsType, PlatformsFollowSync, LatestTokenStored,
         ProjectsOnOwnPlatforms, CallbacksTyped, AccountsOwnPlatforms, CallbacksOwn, Live, PagesOf,
         platformVars

\* A callback that begins, reads or ends changes no table.
LEMMA CallbackGoesOn ==
  ASSUME PlatformsInv, NEW c \in Callbacks, NEW k \in CallbackType,
         callback' = [callback EXCEPT ![c] = k], issued' \in Nat,
         UNCHANGED <<account, platform, project, expected, latest, moved, crossed, reverted, strayed>>,
         k.pc # "idle" => k.user \in Users,
         k.pc \in {"account", "pages", "read", "write"} => k.fb \in FbUsers,
         k.pc \in {"config", "project"} => k.page \in Pages,
         k.pc = "project" => k.owner = k.user,
         k.pc = "move" => k.project \in Projects,
         k.pc \in {"pages", "read", "write"} =>
           /\ callback[c].pc \in {"pages", "read", "write"}
           /\ callback[c].fb = k.fb /\ callback[c].id = k.id /\ callback[c].user = k.user
  PROVE  PlatformsInv'
<1>1. callback' \in [Callbacks -> CallbackType] /\ callback'[c] = k
      /\ \A d \in Callbacks \ {c} : callback'[d] = callback[d]
  BY DEF PlatformsInv, PlatformsType
<1>2. PlatformsType'
  BY <1>1 DEF PlatformsInv, PlatformsType
<1>3. PlatformsFollowSync' /\ LatestTokenStored' /\ ProjectsOnOwnPlatforms' /\ AccountsOwnPlatforms'
  BY DEF PlatformsInv, PlatformsFollowSync, LatestTokenStored, ProjectsOnOwnPlatforms,
         AccountsOwnPlatforms, Live, PagesOf
<1>4. CallbacksTyped'
  BY <1>1 DEF PlatformsInv, CallbacksTyped
<1>5. CallbacksOwn'
  BY <1>1 DEF PlatformsInv, CallbacksOwn
<1> QED BY <1>2, <1>3, <1>4, <1>5 DEF PlatformsInv

LEMMA CallbackEnding ==
  ASSUME PlatformsInv, NEW c \in Callbacks, CallbackFails(c)
  PROVE  PlatformsInv'
<1>1. NoCallback \in CallbackType /\ NoCallback.pc = "idle"
  BY DEF NoCallback, CallbackType
<1>2. /\ callback' = [callback EXCEPT ![c] = NoCallback] /\ issued' \in Nat
      /\ UNCHANGED <<account, platform, project, expected, latest, moved, crossed, reverted, strayed>>
  BY DEF CallbackFails, CallbackEnds, PlatformsInv, PlatformsType
<1> QED BY <1>1, <1>2, CallbackGoesOn

LEMMA CallbackReading ==
  ASSUME PlatformsInv, NEW c \in Callbacks,
         \/ \E u \in Users, f \in FbUsers : FacebookCallback(c, u, f)
         \/ \E S \in SUBSET Pages : FetchFacebookPages(c, S)
         \/ ReadPlatforms(c)
         \/ \E u \in Users, p \in Pages : UpdatePlatformConfig(c, u, p)
         \/ \E u, owner \in Users, p \in Pages : CreateProject(c, u, owner, p)
         \/ \E u \in Users, j \in Projects : UpdateProject(c, u, j)
  PROVE  PlatformsInv'
<1> callback[c] \in CallbackType /\ callback \in [Callbacks -> CallbackType]
  BY DEF PlatformsInv, PlatformsType
<1>1. ASSUME NEW u \in Users, NEW f \in FbUsers, FacebookCallback(c, u, f) PROVE PlatformsInv'
  <2> DEFINE k == [NoCallback EXCEPT !.pc = "account", !.user = u, !.fb = f]
  <2>1. k \in CallbackType /\ k.pc = "account" /\ k.user = u /\ k.fb = f
    BY DEF CallbackType, NoCallback
  <2>2. /\ callback' = [callback EXCEPT ![c] = k] /\ issued' \in Nat
        /\ UNCHANGED <<account, platform, project, expected, latest, moved, crossed, reverted, strayed>>
    BY <1>1 DEF FacebookCallback, CallbackBegins, PlatformsInv, PlatformsType
  <2> HIDE DEF k
  <2> QED BY <2>1, <2>2, CallbackGoesOn
<1>2. ASSUME NEW S \in SUBSET Pages, FetchFacebookPages(c, S) PROVE PlatformsInv'
  <2> DEFINE k == [callback[c] EXCEPT !.pc = "read", !.pages = S, !.token = issued + 1]
  <2>1. issued + 1 \in Nat
    BY DEF PlatformsInv, PlatformsType
  <2>2. /\ k \in CallbackType /\ k.pc = "read" /\ k.user = callback[c].user
        /\ k.fb = callback[c].fb /\ k.id = callback[c].id
    BY <2>1 DEF CallbackType
  <2>3. /\ callback' = [callback EXCEPT ![c] = k] /\ issued' \in Nat /\ callback[c].pc = "pages"
        /\ UNCHANGED <<account, platform, project, expected, latest, moved, crossed, reverted, strayed>>
    BY <1>2, <2>1 DEF FetchFacebookPages
  <2> HIDE DEF k
  <2>4. k.user \in Users /\ k.fb \in FbUsers
    BY <2>2, <2>3 DEF PlatformsInv, CallbacksTyped
  <2> QED BY <2>2, <2>3, <2>4, CallbackGoesOn
<1>3. CASE ReadPlatforms(c)
  <2> DEFINE k == [callback[c] EXCEPT !.pc = "write", !.existing = PlatformsOf(callback[c].user)]
  <2>1. callback[c].user \in Users /\ callback[c].fb \in FbUsers /\ callback[c].pc = "read"
    BY <1>3 DEF ReadPlatforms, PlatformsInv, CallbacksTyped
  <2>2. PlatformsOf(callback[c].user) \subseteq Pages \X Nat
    BY <2>1 DEF PlatformsOf, PagesOf, PlatformsInv, PlatformsType, PlatformRow
  <2>3. /\ k \in CallbackType /\ k.pc = "write" /\ k.user = callback[c].user
        /\ k.fb = callback[c].fb /\ k.id = callback[c].id
    BY <2>2 DEF CallbackType
  <2>4. /\ callback' = [callback EXCEPT ![c] = k] /\ issued' \in Nat
        /\ UNCHANGED <<account, platform, project, expected, latest, moved, crossed, reverted, strayed>>
    BY <1>3 DEF ReadPlatforms, PlatformsInv, PlatformsType
  <2> HIDE DEF k
  <2> QED BY <2>1, <2>3, <2>4, CallbackGoesOn
<1>4. ASSUME NEW u \in Users, NEW owner \in Users, NEW p \in Pages,
             UpdatePlatformConfig(c, u, p) \/ CreateProject(c, u, owner, p)
      PROVE  PlatformsInv'
  <2>1. PICK k \in CallbackType :
          /\ callback' = [callback EXCEPT ![c] = k] /\ issued' \in Nat
          /\ k.pc \in {"config", "project"} /\ k.user = u /\ k.page = p
          /\ k.pc = "project" => k.owner = u
    <3>0. platform[u][p].id \in Nat /\ platform[u][p].token \in Nat
      BY DEF PlatformsInv, PlatformsType, PlatformRow
    <3> DEFINE k1 == [NoCallback EXCEPT !.pc = "config", !.user = u, !.page = p,
                                        !.id = platform[u][p].id, !.token = platform[u][p].token]
               k2 == [NoCallback EXCEPT !.pc = "project", !.user = u, !.owner = owner, !.page = p,
                                        !.id = platform[u][p].id]
               k3 == [NoCallback EXCEPT !.pc = "project", !.user = u, !.owner = owner, !.page = p,
                                        !.id = platform[owner][p].id]
    <3>1. k1 \in CallbackType /\ k1.pc = "config" /\ k1.user = u /\ k1.page = p
      BY <3>0 DEF CallbackType, NoCallback
    <3>2. k2 \in CallbackType /\ k2.pc = "project" /\ k2.user = u /\ k2.page = p /\ k2.owner = owner
      BY <3>0 DEF CallbackType, NoCallback
    <3>3. CASE UpdatePlatformConfig(c, u, p)
      <4>1. callback' = [callback EXCEPT ![c] = k1] /\ issued' \in Nat
        BY <3>3 DEF UpdatePlatformConfig, CallbackBegins, PlatformsInv, PlatformsType
      <4> HIDE DEF k1
      <4> QED BY <3>1, <4>1
    <3>4. CASE CreateProject(c, u, owner, p)
      <4>1. owner = u /\ callback' = [callback EXCEPT ![c] = k3] /\ issued' \in Nat
        BY <3>4 DEF CreateProject, CallbackBegins, OwnPlatform, PlatformsInv, PlatformsType
      <4>2. callback' = [callback EXCEPT ![c] = k2]
        BY <4>1
      <4> HIDE DEF k2, k3
      <4> QED BY <3>2, <4>1, <4>2
    <3> QED BY <1>4, <3>3, <3>4
  <2>2. UNCHANGED <<account, platform, project, expected, latest, moved, crossed, reverted, strayed>>
    BY <1>4 DEF UpdatePlatformConfig, CreateProject
  <2> QED BY <2>1, <2>2, CallbackGoesOn
<1>5. ASSUME NEW u \in Users, NEW j \in Projects, UpdateProject(c, u, j) PROVE PlatformsInv'
  <2> DEFINE k == [NoCallback EXCEPT !.pc = "move", !.user = u, !.project = j]
  <2>1. k \in CallbackType /\ k.pc = "move" /\ k.user = u /\ k.project = j
    BY DEF CallbackType, NoCallback
  <2>2. /\ callback' = [callback EXCEPT ![c] = k] /\ issued' \in Nat
        /\ UNCHANGED <<account, platform, project, expected, latest, moved, crossed, reverted, strayed>>
    BY <1>5 DEF UpdateProject, CallbackBegins, PlatformsInv, PlatformsType
  <2> HIDE DEF k
  <2> QED BY <2>1, <2>2, CallbackGoesOn
<1> QED BY <1>1, <1>2, <1>3, <1>4, <1>5

LEMMA AccountUpserted ==
  ASSUME PlatformsInv, NEW c \in Callbacks, UpsertFacebookAccount(c)
  PROVE  PlatformsInv'
<1> USE AccountsAssumption
<1> DEFINE k   == callback[c]
           f   == k.fb
           old == account[f]
           new == [id |-> IF old.owner = None THEN old.id + 1 ELSE old.id, owner |-> k.user]
           kk  == [k EXCEPT !.pc = "pages", !.id = new.id]
<1>1. /\ k \in CallbackType /\ f \in FbUsers /\ k.user \in Users /\ k.pc = "account"
      /\ old \in AccountRow
  BY DEF UpsertFacebookAccount, PlatformsInv, PlatformsType, CallbacksTyped
<1>2. /\ new \in AccountRow /\ new.owner = k.user /\ new.id \in Nat
      /\ new.id = IF old.owner = None THEN old.id + 1 ELSE old.id
  BY <1>1 DEF AccountRow
<1>3. /\ kk \in CallbackType /\ kk.pc = "pages" /\ kk.user = k.user /\ kk.fb = f /\ kk.id = new.id
  BY <1>1, <1>2 DEF CallbackType
<1>4. account' = [account EXCEPT ![f] = new]
  BY DEF UpsertFacebookAccount
<1>5. account' \in [FbUsers -> AccountRow] /\ account'[f] = new
      /\ \A g \in FbUsers \ {f} : account'[g] = account[g]
  BY <1>1, <1>2, <1>4 DEF PlatformsInv, PlatformsType
<1>6. callback' = [callback EXCEPT ![c] = kk]
  <2>1. account'[k.fb].id = new.id
    BY <1>5
  <2>2. callback' = [callback EXCEPT ![c].pc = "pages", ![c].id = account'[k.fb].id]
    BY DEF UpsertFacebookAccount
  <2> HIDE DEF new
  <2>3. callback' = [callback EXCEPT ![c].pc = "pages", ![c].id = new.id]
    BY <2>1, <2>2
  <2> QED BY <2>3 DEF PlatformsInv, PlatformsType
<1>7. /\ callback' \in [Callbacks -> CallbackType] /\ callback'[c] = kk
      /\ \A d \in Callbacks \ {c} : callback'[d] = callback[d]
  BY <1>3, <1>6 DEF PlatformsInv, PlatformsType
<1>8. /\ moved' = IF old.owner \in {None, k.user} THEN moved ELSE moved \cup {f}
      /\ UNCHANGED <<platform, project, issued, expected, latest, crossed, reverted, strayed>>
  BY DEF UpsertFacebookAccount
<1> HIDE DEF new, kk
<1>9. PlatformsType'
  BY <1>1, <1>5, <1>7, <1>8 DEF PlatformsInv, PlatformsType
<1>10. PlatformsFollowSync' /\ LatestTokenStored' /\ ProjectsOnOwnPlatforms'
  BY <1>8 DEF PlatformsInv, PlatformsFollowSync, LatestTokenStored, ProjectsOnOwnPlatforms, Live,
              PagesOf
<1>11. CallbacksTyped'
  <2>1. new.id \geq old.id
    BY <1>1, <1>2 DEF AccountRow
  <2>2. ASSUME NEW d \in Callbacks, callback[d].pc \in {"pages", "read", "write"}
        PROVE  /\ callback[d].fb \in FbUsers /\ callback[d].id \in Nat
               /\ callback[d].id \leq account'[callback[d].fb].id
    <3>1. callback[d].fb \in FbUsers /\ callback[d].id \leq account[callback[d].fb].id
      BY <2>2 DEF PlatformsInv, CallbacksTyped
    <3>2. callback[d].id \in Nat /\ account[callback[d].fb].id \in Nat
      BY <3>1 DEF PlatformsInv, PlatformsType, CallbackType, AccountRow
    <3> QED BY <1>1, <1>2, <1>5, <2>1, <3>1, <3>2
  <2> HIDE DEF k, f
  <2>3. kk.id \leq account'[kk.fb].id
    BY <1>2, <1>3, <1>5
  <2>4. ASSUME NEW d \in Callbacks \ {c}, callback'[d].pc \in {"pages", "read", "write"}
        PROVE  callback'[d].id \leq account'[callback'[d].fb].id
    BY <1>7, <2>2, <2>4
  <2>5. ASSUME NEW d \in Callbacks \ {c}
        PROVE  /\ callback'[d].pc # "idle" => callback'[d].user \in Users
               /\ callback'[d].pc \in {"account", "pages", "read", "write"} => callback'[d].fb \in FbUsers
               /\ callback'[d].pc \in {"config", "project"} => callback'[d].page \in Pages
               /\ callback'[d].pc = "project" => callback'[d].owner = callback'[d].user
               /\ callback'[d].pc = "move" => callback'[d].project \in Projects
    BY <1>7 DEF PlatformsInv, CallbacksTyped
  <2> QED BY <1>1, <1>3, <1>7, <2>3, <2>4, <2>5 DEF CallbacksTyped
<1>12. AccountsOwnPlatforms'
  <2>1. ASSUME NEW u \in Users, NEW p \in Pages, Live(u, p), platform[u][p].account \in FbUsers \ moved'
        PROVE  account'[platform[u][p].account].owner = u
    <3>1. account[platform[u][p].account].owner = u
      BY <1>8, <2>1 DEF PlatformsInv, AccountsOwnPlatforms
    <3> QED BY <1>2, <1>5, <1>8, <2>1, <3>1
  <2> QED BY <1>8, <2>1 DEF AccountsOwnPlatforms, Live
<1>13. CallbacksOwn'
  <2> SUFFICES ASSUME NEW d \in Callbacks,
                      callback'[d].pc \in {"pages", "read", "write"}, callback'[d].fb \notin moved',
                      account'[callback'[d].fb].owner # None,
                      account'[callback'[d].fb].id = callback'[d].id
               PROVE  account'[callback'[d].fb].owner = callback'[d].user
    BY DEF CallbacksOwn
  <2>1. CASE d = c
    BY <1>2, <1>3, <1>5, <1>7, <2>1
  <2>2. CASE d # c
    <3>1. callback'[d] = callback[d] /\ callback[d].fb \in FbUsers /\ callback[d].user \in Users
          /\ callback[d].id \leq account[callback[d].fb].id
      BY <1>7, <2>2 DEF PlatformsInv, CallbacksTyped
    <3>2. callback[d].id \in Nat /\ account[callback[d].fb].id \in Nat
      BY <3>1 DEF PlatformsInv, PlatformsType, CallbackType, AccountRow
    <3>3. callback[d].fb \notin moved
      BY <1>8, <3>1
    <3>4. CASE callback[d].fb # f
      BY <1>5, <3>1, <3>3, <3>4 DEF PlatformsInv, CallbacksOwn
    <3>5. CASE callback[d].fb = f
      <4>1. old.owner # None
        BY <1>2, <1>5, <3>1, <3>2, <3>5
      <4>2. old.owner = k.user
        BY <1>8, <3>1, <3>5, <4>1
      <4>3. old.owner = callback[d].user
        BY <1>2, <1>5, <3>1, <3>3, <3>5, <4>1 DEF PlatformsInv, CallbacksOwn
      <4> QED BY <1>2, <1>5, <3>1, <3>5, <4>2, <4>3
    <3> QED BY <3>4, <3>5
  <2> QED BY <2>1, <2>2
<1> QED BY <1>9, <1>10, <1>11, <1>12, <1>13 DEF PlatformsInv

\* A row of Platform is written, and what hangs on rows that are gone went with them.
LEMMA PlatformsWritten ==
  ASSUME PlatformsInv, platform' \in [Users -> [Pages -> PlatformRow]],
         project' \in [Projects -> ProjectRow \cup {None}], issued' \in Nat,
         expected' \in [Users -> SUBSET Pages], latest' \in [Users -> [Pages -> Nat]],
         crossed' \subseteq Users, reverted' \subseteq Users \X Pages, strayed' \subseteq Projects,
         callback' = callback \/ (\E c \in Callbacks : callback' = [callback EXCEPT ![c] = NoCallback]),
         UNCHANGED <<account, moved>>,
         PlatformsFollowSync', LatestTokenStored', ProjectsOnOwnPlatforms', AccountsOwnPlatforms'
  PROVE  PlatformsInv'
<1>1. NoCallback \in CallbackType /\ NoCallback.pc = "idle"
  BY DEF NoCallback, CallbackType
<1>2. /\ callback' \in [Callbacks -> CallbackType]
      /\ \A d \in Callbacks : callback'[d] = callback[d] \/ callback'[d] = NoCallback
  BY <1>1 DEF PlatformsInv, PlatformsType
<1>3. PlatformsType'
  BY <1>2 DEF PlatformsInv, PlatformsType
<1>4. CallbacksTyped'
  BY <1>1, <1>2 DEF PlatformsInv, CallbacksTyped
<1>5. CallbacksOwn'
  BY <1>1, <1>2 DEF PlatformsInv, CallbacksOwn
<1> QED BY <1>3, <1>4, <1>5 DEF PlatformsInv

LEMMA Synchronizing ==
  ASSUME PlatformsInv, NEW c \in Callbacks, SynchronizePlatforms(c)
  PROVE  PlatformsInv'
<1> USE AccountsAssumption, PlatformsAssumption
<1> DEFINE k    == callback[c]
           new  == Synchronized(k)
           lost == {<<k.user, p>> : p \in {q \in PagesOf(k.user) : ~new[q].live}}
<1>1. /\ k \in CallbackType /\ k.fb \in FbUsers /\ k.user \in Users /\ k.pc = "write"
      /\ k.pages \subseteq Pages /\ k.token \in Nat
  BY DEF SynchronizePlatforms, PlatformsInv, PlatformsType, CallbacksTyped, CallbackType
<1>2. /\ platform \in [Users -> [Pages -> PlatformRow]]
      /\ \A p \in Pages : platform[k.user][p] \in PlatformRow
  BY <1>1 DEF PlatformsInv, PlatformsType
<1>3. \A p \in k.pages : new[p].live /\ new[p].account = k.fb /\ new[p].token = k.token
  BY <1>1 DEF Synchronized, Upserted
<1>4. \A p \in Pages \ k.pages : new[p] \in {Emptied(platform[k.user][p]), platform[k.user][p]}
  BY <1>1 DEF Synchronized
<1>5. \A p \in Pages : Emptied(platform[k.user][p]) \in PlatformRow /\ ~Emptied(platform[k.user][p]).live
  BY <1>2 DEF Emptied, PlatformRow
<1>6. new \in [Pages -> PlatformRow]
  <2>1. \A p \in k.pages : new[p] = Upserted(k, p)
    BY <1>1 DEF Synchronized
  <2>2. \A p \in Pages : Upserted(k, p) \in PlatformRow
    BY <1>1, <1>2 DEF Upserted, PlatformRow
  <2>3. \A p \in Pages : new[p] \in PlatformRow
    BY <1>2, <1>4, <1>5, <2>1, <2>2
  <2> QED BY <2>3 DEF Synchronized
<1>7. /\ platform' = [platform EXCEPT ![k.user] = new]
      /\ project' = [j \in Projects |-> IF UsesOneOf(j, lost) THEN None ELSE project[j]]
      /\ expected' = [expected EXCEPT ![k.user] = k.pages]
      /\ latest' = [latest EXCEPT ![k.user] = [p \in Pages |->
                      IF p \in k.pages THEN k.token ELSE latest[k.user][p]]]
      /\ crossed' = IF PlatformsOf(k.user) \subseteq k.existing
                    THEN crossed \ {k.user} ELSE crossed \cup {k.user}
      /\ reverted' = reverted \ ({k.user} \X k.pages)
      /\ callback' = [callback EXCEPT ![c] = NoCallback]
      /\ UNCHANGED <<account, issued, moved, strayed>>
      /\ k.pages # {} => account[k.fb].owner # None /\ account[k.fb].id = k.id
  BY DEF SynchronizePlatforms, CallbackEnds
<1>8. PlatformsOf(k.user) \subseteq k.existing => \A p \in Pages \ k.pages : ~new[p].live
  <2> SUFFICES ASSUME PlatformsOf(k.user) \subseteq k.existing, NEW p \in Pages \ k.pages, new[p].live
               PROVE  FALSE
    OBVIOUS
  <2>1. new[p] = platform[k.user][p] /\ Live(k.user, p)
    BY <1>4, <1>5 DEF Live
  <2>2. <<p, platform[k.user][p].id>> \in k.existing
    BY <2>1 DEF PlatformsOf, PagesOf
  <2>3. <<p, platform[k.user][p].id>> \in Unauthorized(k)
    BY <2>2 DEF Unauthorized
  <2>4. new[p] = Emptied(platform[k.user][p])
    BY <2>3 DEF Synchronized
  <2> QED BY <1>5, <2>4
<1> HIDE DEF new
<1>9. /\ platform' \in [Users -> [Pages -> PlatformRow]] /\ platform'[k.user] = new
      /\ \A u \in Users \ {k.user} : platform'[u] = platform[u]
  BY <1>1, <1>2, <1>6, <1>7
<1>10. /\ project' \in [Projects -> ProjectRow \cup {None}] /\ issued' \in Nat
       /\ expected' \in [Users -> SUBSET Pages] /\ latest' \in [Users -> [Pages -> Nat]]
       /\ crossed' \subseteq Users /\ reverted' \subseteq Users \X Pages
       /\ strayed' \subseteq Projects
  BY <1>1, <1>7 DEF PlatformsInv, PlatformsType
<1>11. PlatformsFollowSync'
  <2> SUFFICES ASSUME NEW u \in Users \ crossed'
               PROVE  {p \in Pages : platform'[u][p].live} = expected'[u]
    BY DEF PlatformsFollowSync, PagesOf, Live
  <2>1. CASE u # k.user
    <3>1. u \notin crossed /\ platform'[u] = platform[u] /\ expected'[u] = expected[u]
      BY <1>7, <1>9, <2>1 DEF PlatformsInv, PlatformsType
    <3> QED BY <3>1 DEF PlatformsInv, PlatformsFollowSync, PagesOf, Live
  <2>2. CASE u = k.user
    <3>1. PlatformsOf(k.user) \subseteq k.existing
      BY <1>7, <2>2
    <3>2. expected'[u] = k.pages
      BY <1>1, <1>7, <2>2 DEF PlatformsInv, PlatformsType
    <3> QED BY <1>1, <1>3, <1>8, <1>9, <2>2, <3>1, <3>2
  <2> QED BY <2>1, <2>2
<1>12. LatestTokenStored'
  <2> SUFFICES ASSUME NEW u \in Users, NEW p \in Pages, platform'[u][p].live, <<u, p>> \notin reverted'
               PROVE  platform'[u][p].token = latest'[u][p]
    BY DEF LatestTokenStored, Live
  <2>1. CASE u = k.user /\ p \in k.pages
    BY <1>1, <1>3, <1>7, <1>9, <2>1 DEF PlatformsInv, PlatformsType
  <2>2. CASE ~(u = k.user /\ p \in k.pages)
    <3>1. latest'[u][p] = latest[u][p] /\ <<u, p>> \notin reverted
      BY <1>1, <1>7, <2>2 DEF PlatformsInv, PlatformsType
    <3>2. platform'[u][p] = platform[u][p]
      BY <1>4, <1>5, <1>9, <2>2
    <3> QED BY <3>1, <3>2 DEF PlatformsInv, LatestTokenStored, Live
  <2> QED BY <2>1, <2>2
<1>13. ProjectsOnOwnPlatforms'
  <2> SUFFICES ASSUME NEW j \in Projects, project'[j] # None
               PROVE  /\ project'[j].user = project'[j].owner \/ j \in strayed
                      /\ platform'[project'[j].owner][project'[j].page].live
    BY <1>7 DEF ProjectsOnOwnPlatforms, Live
  <2>1. project'[j] = project[j] /\ project[j] # None /\ ~UsesOneOf(j, lost)
    BY <1>7
  <2>2. /\ project[j].user = project[j].owner \/ j \in strayed
        /\ Live(project[j].owner, project[j].page)
        /\ project[j].owner \in Users /\ project[j].page \in Pages
    BY <2>1 DEF PlatformsInv, PlatformsType, ProjectsOnOwnPlatforms, ProjectRow
  <2>3. CASE project[j].owner # k.user
    BY <1>9, <2>1, <2>2, <2>3 DEF Live
  <2>4. CASE project[j].owner = k.user
    <3>1. <<k.user, project[j].page>> \notin lost
      BY <2>1, <2>4 DEF UsesOneOf
    <3>2. project[j].page \in PagesOf(k.user)
      BY <2>2, <2>4 DEF PagesOf
    <3> QED BY <1>9, <2>1, <2>2, <2>4, <3>1, <3>2
  <2> QED BY <2>3, <2>4
<1>14. AccountsOwnPlatforms'
  <2> SUFFICES ASSUME NEW u \in Users, NEW p \in Pages, platform'[u][p].live,
                      platform'[u][p].account \in FbUsers \ moved
               PROVE  account[platform'[u][p].account].owner = u
    BY <1>7 DEF AccountsOwnPlatforms, Live
  <2>1. CASE u = k.user /\ p \in k.pages
    <3>1. platform'[u][p].account = k.fb
      BY <1>3, <1>9, <2>1
    <3>2. account[k.fb].owner # None /\ account[k.fb].id = k.id
      BY <1>7, <2>1
    <3> QED BY <1>1, <2>1, <3>1, <3>2 DEF PlatformsInv, CallbacksOwn
  <2>2. CASE ~(u = k.user /\ p \in k.pages)
    <3>1. platform'[u][p] = platform[u][p]
      BY <1>4, <1>5, <1>9, <2>2
    <3> QED BY <3>1 DEF PlatformsInv, AccountsOwnPlatforms, Live
  <2> QED BY <2>1, <2>2
<1> QED BY <1>7, <1>9, <1>10, <1>11, <1>12, <1>13, <1>14, PlatformsWritten

LEMMA PlatformCreated ==
  ASSUME PlatformsInv, NEW u \in Users, NEW p \in Pages, CreatePlatform(u, p)
  PROVE  PlatformsInv'
<1> USE PlatformsAssumption
<1> DEFINE row == [id |-> platform[u][p].id + 1, live |-> TRUE, account |-> None, token |-> issued + 1]
<1>1. /\ platform' = [platform EXCEPT ![u][p] = row]
      /\ issued' = issued + 1
      /\ expected' = [expected EXCEPT ![u] = @ \cup {p}]
      /\ latest' = [latest EXCEPT ![u][p] = issued + 1]
      /\ reverted' = reverted \ {<<u, p>>}
      /\ UNCHANGED <<account, project, callback, moved, crossed, strayed>>
  BY DEF CreatePlatform
<1>2. row \in PlatformRow /\ row.live /\ row.account = None /\ row.token = issued + 1
  BY DEF PlatformsInv, PlatformsType, PlatformRow
<1> HIDE DEF row
<1>3. /\ platform' \in [Users -> [Pages -> PlatformRow]] /\ platform'[u][p] = row
      /\ \A w \in Users, q \in Pages : <<w, q>> # <<u, p>> => platform'[w][q] = platform[w][q]
  BY <1>1, <1>2 DEF PlatformsInv, PlatformsType
<1>4. /\ issued' \in Nat /\ expected' \in [Users -> SUBSET Pages] /\ latest' \in [Users -> [Pages -> Nat]]
      /\ reverted' \subseteq Users \X Pages /\ project' \in [Projects -> ProjectRow \cup {None}]
      /\ crossed' \subseteq Users /\ strayed' \subseteq Projects
  BY <1>1 DEF PlatformsInv, PlatformsType
<1>5. PlatformsFollowSync'
  BY <1>1, <1>2, <1>3 DEF PlatformsInv, PlatformsType, PlatformsFollowSync, PagesOf, Live
<1>6. LatestTokenStored'
  BY <1>1, <1>2, <1>3 DEF PlatformsInv, PlatformsType, LatestTokenStored, Live
<1>7. ProjectsOnOwnPlatforms'
  BY <1>1, <1>2, <1>3 DEF PlatformsInv, PlatformsType, ProjectsOnOwnPlatforms, ProjectRow, Live
<1>8. AccountsOwnPlatforms'
  BY <1>1, <1>2, <1>3 DEF PlatformsInv, AccountsOwnPlatforms, Live
<1> QED BY <1>1, <1>3, <1>4, <1>5, <1>6, <1>7, <1>8, PlatformsWritten

LEMMA EmptiedRow ==
  ASSUME PlatformsInv, NEW u \in Users, NEW p \in Pages
  PROVE  /\ platform[u][p] \in PlatformRow
         /\ Emptied(platform[u][p]) \in PlatformRow /\ ~Emptied(platform[u][p]).live
<1>1. platform[u][p] \in PlatformRow
  BY DEF PlatformsInv, PlatformsType
<1> QED BY <1>1 DEF Emptied, PlatformRow

LEMMA PlatformDeleted ==
  ASSUME PlatformsInv, NEW u \in Users, NEW p \in Pages, DeletePlatform(u, p)
  PROVE  PlatformsInv'
<1> USE PlatformsAssumption
<1>1. /\ platform' = [w \in Users |-> [q \in Pages |->
           IF <<w, q>> \in {<<u, p>>} THEN Emptied(platform[w][q]) ELSE platform[w][q]]]
      /\ project' = [j \in Projects |-> IF UsesOneOf(j, {<<u, p>>}) THEN None ELSE project[j]]
      /\ expected' = [expected EXCEPT ![u] = @ \ {p}]
      /\ UNCHANGED <<account, issued, callback, latest, moved, crossed, reverted, strayed>>
  BY DEF DeletePlatform, DropPlatforms
<1>2. \A w \in Users, q \in Pages : /\ Emptied(platform[w][q]) \in PlatformRow
                                    /\ ~Emptied(platform[w][q]).live
  BY EmptiedRow
<1>3. /\ platform' \in [Users -> [Pages -> PlatformRow]] /\ ~platform'[u][p].live
      /\ \A w \in Users, q \in Pages : <<w, q>> # <<u, p>> => platform'[w][q] = platform[w][q]
  BY <1>1, <1>2 DEF PlatformsInv, PlatformsType
<1>4. /\ issued' \in Nat /\ expected' \in [Users -> SUBSET Pages] /\ latest' \in [Users -> [Pages -> Nat]]
      /\ reverted' \subseteq Users \X Pages /\ project' \in [Projects -> ProjectRow \cup {None}]
      /\ crossed' \subseteq Users /\ strayed' \subseteq Projects
  BY <1>1 DEF PlatformsInv, PlatformsType
<1>5. PlatformsFollowSync'
  BY <1>1, <1>3 DEF PlatformsInv, PlatformsType, PlatformsFollowSync, PagesOf, Live
<1>6. LatestTokenStored'
  BY <1>1, <1>3 DEF PlatformsInv, LatestTokenStored, Live
<1>7. ProjectsOnOwnPlatforms'
  <2> SUFFICES ASSUME NEW j \in Projects, project'[j] # None
               PROVE  /\ project'[j].user = project'[j].owner \/ j \in strayed
                      /\ platform'[project'[j].owner][project'[j].page].live
    BY <1>1 DEF ProjectsOnOwnPlatforms, Live
  <2>1. project'[j] = project[j] /\ project[j] # None /\ ~UsesOneOf(j, {<<u, p>>})
    BY <1>1
  <2>2. <<project[j].owner, project[j].page>> # <<u, p>>
    BY <2>1 DEF UsesOneOf
  <2>3. /\ project[j].user = project[j].owner \/ j \in strayed
        /\ Live(project[j].owner, project[j].page)
        /\ project[j].owner \in Users /\ project[j].page \in Pages
    BY <2>1 DEF PlatformsInv, PlatformsType, ProjectsOnOwnPlatforms, ProjectRow
  <2> QED BY <1>3, <2>1, <2>2, <2>3 DEF Live
<1>8. AccountsOwnPlatforms'
  BY <1>1, <1>3 DEF PlatformsInv, AccountsOwnPlatforms, Live
<1> QED BY <1>1, <1>3, <1>4, <1>5, <1>6, <1>7, <1>8, PlatformsWritten

LEMMA ConfigWritten ==
  ASSUME PlatformsInv, NEW c \in Callbacks, WriteConfig(c)
  PROVE  PlatformsInv'
<1> USE PlatformsAssumption
<1> DEFINE u == callback[c].user
           p == callback[c].page
<1>1. u \in Users /\ p \in Pages /\ callback[c].token \in Nat /\ platform[u][p].live
  BY DEF WriteConfig, PlatformsInv, PlatformsType, CallbacksTyped, CallbackType
<1>2. PICK t \in Nat :
        /\ platform' = [platform EXCEPT ![u][p].token = t]
        /\ \/ /\ reverted' = IF platform[u][p].token = t THEN reverted ELSE reverted \cup {<<u, p>>}
              /\ UNCHANGED <<issued, latest>>
           \/ /\ issued' = issued + 1 /\ latest' = [latest EXCEPT ![u][p] = t]
              /\ reverted' = reverted \ {<<u, p>>}
  <2>1. issued + 1 \in Nat
    BY DEF PlatformsInv, PlatformsType
  <2> QED BY <1>1, <2>1 DEF WriteConfig
<1>3. /\ callback' = [callback EXCEPT ![c] = NoCallback]
      /\ UNCHANGED <<account, project, expected, moved, crossed, strayed>>
  BY DEF WriteConfig, CallbackEnds
<1> DEFINE row == [platform[u][p] EXCEPT !.token = t]
<1>4. row \in PlatformRow /\ row.live /\ row.account = platform[u][p].account /\ row.token = t
  <2>1. platform[u][p] \in PlatformRow
    BY <1>1, EmptiedRow
  <2> QED BY <1>1, <2>1 DEF PlatformRow
<1>5. platform' = [platform EXCEPT ![u][p] = row]
  BY <1>1, <1>2 DEF PlatformsInv, PlatformsType
<1> HIDE DEF row
<1>6. /\ platform' \in [Users -> [Pages -> PlatformRow]] /\ platform'[u][p] = row
      /\ \A w \in Users, q \in Pages : <<w, q>> # <<u, p>> => platform'[w][q] = platform[w][q]
  BY <1>1, <1>4, <1>5 DEF PlatformsInv, PlatformsType
<1>7. /\ issued' \in Nat /\ expected' \in [Users -> SUBSET Pages] /\ latest' \in [Users -> [Pages -> Nat]]
      /\ reverted' \subseteq Users \X Pages /\ project' \in [Projects -> ProjectRow \cup {None}]
      /\ crossed' \subseteq Users /\ strayed' \subseteq Projects
  <2>1. /\ issued \in Nat /\ latest \in [Users -> [Pages -> Nat]] /\ reverted \subseteq Users \X Pages
        /\ latest[u] \in [Pages -> Nat]
    BY <1>1 DEF PlatformsInv, PlatformsType
  <2>2. [latest EXCEPT ![u][p] = t] \in [Users -> [Pages -> Nat]]
    BY <1>1, <2>1
  <2>3. /\ expected' \in [Users -> SUBSET Pages] /\ project' \in [Projects -> ProjectRow \cup {None}]
        /\ crossed' \subseteq Users /\ strayed' \subseteq Projects
    BY <1>3 DEF PlatformsInv, PlatformsType
  <2>4. issued' \in Nat /\ latest' \in [Users -> [Pages -> Nat]]
    <3>1. CASE UNCHANGED <<issued, latest>>
      BY <2>1, <3>1
    <3>2. CASE issued' = issued + 1 /\ latest' = [latest EXCEPT ![u][p] = t]
      BY <2>1, <2>2, <3>2
    <3> QED BY <1>2, <3>1, <3>2
  <2>5. reverted' \subseteq reverted \cup {<<u, p>>}
    BY <1>2
  <2> QED BY <1>1, <2>1, <2>3, <2>4, <2>5
<1>8. \A w \in Users, q \in Pages : Live(w, q)' = Live(w, q)
  <2> SUFFICES ASSUME NEW w \in Users, NEW q \in Pages PROVE platform'[w][q].live = platform[w][q].live
    BY DEF Live
  <2>1. CASE <<w, q>> = <<u, p>>
    <3>1. w = u /\ q = p
      BY <2>1
    <3> QED BY <1>1, <1>4, <1>6, <3>1
  <2>2. CASE <<w, q>> # <<u, p>>
    BY <1>6, <2>2
  <2> QED BY <2>1, <2>2
<1>9. PlatformsFollowSync'
  BY <1>3, <1>8 DEF PlatformsInv, PlatformsFollowSync, PagesOf
<1>10. LatestTokenStored'
  <2> SUFFICES ASSUME NEW w \in Users, NEW q \in Pages, Live(w, q)', <<w, q>> \notin reverted'
               PROVE  platform'[w][q].token = latest'[w][q]
    BY DEF LatestTokenStored
  <2>1. latest \in [Users -> [Pages -> Nat]] /\ (Live(w, q) /\ <<w, q>> \notin reverted
                                                => platform[w][q].token = latest[w][q])
    BY DEF PlatformsInv, PlatformsType, LatestTokenStored
  <2>2. CASE <<w, q>> = <<u, p>>
    <3>1. platform'[w][q].token = t
      BY <1>4, <1>6, <2>2
    <3>2. CASE reverted' = reverted \ {<<u, p>>} /\ latest' = [latest EXCEPT ![u][p] = t]
      BY <1>1, <2>1, <2>2, <3>1, <3>2
    <3>3. CASE UNCHANGED latest /\ platform[u][p].token = t /\ reverted' = reverted
      BY <1>8, <2>1, <2>2, <3>1, <3>3
    <3>4. CASE reverted' = reverted \cup {<<u, p>>}
      BY <2>2, <3>4
    <3> QED BY <1>2, <3>2, <3>3, <3>4
  <2>3. CASE <<w, q>> # <<u, p>>
    <3>1. platform'[w][q] = platform[w][q] /\ Live(w, q)
      BY <1>6, <1>8, <2>3
    <3>2. <<w, q>> \notin reverted
      BY <1>2, <2>3
    <3>3. latest'[w][q] = latest[w][q]
      <4>1. w # u \/ q # p
        BY <2>3
      <4>2. UNCHANGED latest \/ latest' = [latest EXCEPT ![u][p] = t]
        BY <1>2
      <4>3. [latest EXCEPT ![u][p] = t][w][q] = latest[w][q]
        BY <2>1, <4>1
      <4> QED BY <4>2, <4>3
    <3> QED BY <2>1, <3>1, <3>2, <3>3
  <2> QED BY <2>2, <2>3
<1>11. ProjectsOnOwnPlatforms'
  BY <1>3, <1>8 DEF PlatformsInv, PlatformsType, ProjectsOnOwnPlatforms, ProjectRow
<1>12. AccountsOwnPlatforms'
  BY <1>3, <1>4, <1>6, <1>8 DEF PlatformsInv, AccountsOwnPlatforms
<1> QED BY <1>3, <1>6, <1>7, <1>9, <1>10, <1>11, <1>12, PlatformsWritten

\* A row of AutoProject is written, put on a live platform, or goes.
LEMMA ProjectWritten ==
  ASSUME PlatformsInv, NEW j \in Projects, NEW row \in ProjectRow \cup {None},
         project' = [project EXCEPT ![j] = row], strayed' \subseteq Projects,
         strayed \ {j} \subseteq strayed',
         row # None => /\ Live(row.owner, row.page)
                       /\ row.user = row.owner \/ j \in strayed',
         callback' = callback \/ (\E c \in Callbacks : callback' = [callback EXCEPT ![c] = NoCallback]),
         UNCHANGED <<account, platform, issued, expected, latest, moved, crossed, reverted>>
  PROVE  PlatformsInv'
<1>1. /\ project' \in [Projects -> ProjectRow \cup {None}] /\ project'[j] = row
      /\ \A i \in Projects \ {j} : project'[i] = project[i]
  BY DEF PlatformsInv, PlatformsType
<1>2. /\ platform' \in [Users -> [Pages -> PlatformRow]]
      /\ issued' \in Nat /\ expected' \in [Users -> SUBSET Pages] /\ latest' \in [Users -> [Pages -> Nat]]
      /\ reverted' \subseteq Users \X Pages /\ crossed' \subseteq Users
  BY DEF PlatformsInv, PlatformsType
<1>3. PlatformsFollowSync' /\ LatestTokenStored' /\ AccountsOwnPlatforms'
  BY DEF PlatformsInv, PlatformsFollowSync, LatestTokenStored, AccountsOwnPlatforms, PagesOf, Live
<1>4. ProjectsOnOwnPlatforms'
  BY <1>1 DEF PlatformsInv, ProjectsOnOwnPlatforms, Live
<1> QED BY <1>1, <1>2, <1>3, <1>4, PlatformsWritten

LEMMA ProjectInserted ==
  ASSUME PlatformsInv, NEW c \in Callbacks, NEW j \in Projects, InsertProject(c, j)
  PROVE  PlatformsInv'
<1> DEFINE k   == callback[c]
           row == [user |-> k.user, owner |-> k.owner, page |-> k.page]
<1>1. k.user \in Users /\ k.owner = k.user /\ k.page \in Pages /\ Live(k.owner, k.page)
  BY DEF InsertProject, PlatformsInv, CallbacksTyped
<1>2. row \in ProjectRow /\ row.user = row.owner /\ Live(row.owner, row.page)
  BY <1>1 DEF ProjectRow
<1>3. /\ project' = [project EXCEPT ![j] = row] /\ callback' = [callback EXCEPT ![c] = NoCallback]
      /\ strayed' = strayed \ {j}
      /\ UNCHANGED <<account, platform, issued, expected, latest, moved, crossed, reverted>>
  BY DEF InsertProject, CallbackEnds
<1>4. strayed' \subseteq Projects
  BY <1>3 DEF PlatformsInv, PlatformsType
<1> HIDE DEF row
<1> QED BY <1>2, <1>3, <1>4, ProjectWritten

LEMMA ProjectMoved ==
  ASSUME PlatformsInv, NEW c \in Callbacks, NEW owner \in Users, NEW p \in Pages,
         WriteProject(c, owner, p)
  PROVE  PlatformsInv'
<1> DEFINE j   == callback[c].project
           row == [project[j] EXCEPT !.owner = owner, !.page = p]
<1>1. j \in Projects /\ project[j] \in ProjectRow
  BY DEF WriteProject, PlatformsInv, PlatformsType, CallbacksTyped
<1>2. /\ row \in ProjectRow /\ row.owner = owner /\ row.page = p /\ row.user = project[j].user
      /\ Live(owner, p)
  BY <1>1 DEF WriteProject, ProjectRow
<1>3. /\ project' = [project EXCEPT ![j] = row] /\ callback' = [callback EXCEPT ![c] = NoCallback]
      /\ strayed' = IF owner = project[j].user THEN strayed \ {j} ELSE strayed \cup {j}
      /\ UNCHANGED <<account, platform, issued, expected, latest, moved, crossed, reverted>>
  BY <1>1 DEF WriteProject, CallbackEnds, PlatformsInv, PlatformsType
<1>4. strayed' \subseteq Projects /\ strayed \ {j} \subseteq strayed'
      /\ (owner = project[j].user \/ j \in strayed')
  BY <1>1, <1>3 DEF PlatformsInv, PlatformsType
<1> HIDE DEF row, j
<1> QED BY <1>1, <1>2, <1>3, <1>4, ProjectWritten

LEMMA ProjectRemoved ==
  ASSUME PlatformsInv, NEW u \in Users, NEW j \in Projects, RemoveProject(u, j)
  PROVE  PlatformsInv'
<1>1. /\ project' = [project EXCEPT ![j] = None]
      /\ UNCHANGED <<account, platform, issued, callback, expected, latest, moved, crossed,
                     reverted, strayed>>
  BY DEF RemoveProject
<1>2. strayed' \subseteq Projects
  BY <1>1 DEF PlatformsInv, PlatformsType
<1> QED BY <1>1, <1>2, ProjectWritten

LEMMA PlatformsDropped ==
  ASSUME PlatformsInv, NEW u \in Users, DropPlatformsOfUser(u)
  PROVE  /\ PlatformsInv'
         /\ \A j \in Projects : project[j] # None /\ project'[j] = None =>
              \/ project[j].user = u
              \/ platform[project[j].owner][project[j].page].account \in moved
              \/ j \in strayed
<1> USE AccountsAssumption, PlatformsAssumption
<1> DEFINE mine == AccountsOf(u)
           lost == PlatformsOn(mine)
<1>1. /\ account' = [f \in FbUsers |-> IF f \in mine THEN [account[f] EXCEPT !.owner = None]
                                       ELSE account[f]]
      /\ platform' = [w \in Users |-> [p \in Pages |->
           IF <<w, p>> \in lost THEN Emptied(platform[w][p]) ELSE platform[w][p]]]
      /\ project' = [j \in Projects |->
           IF project[j] # None /\ (project[j].user = u \/ UsesOneOf(j, lost)) THEN None
           ELSE project[j]]
      /\ expected' = [w \in Users |-> expected[w] \ {p \in Pages : <<w, p>> \in lost}]
      /\ moved' = moved \ mine
      /\ UNCHANGED <<issued, callback, latest, crossed, reverted, strayed>>
  BY DEF DropPlatformsOfUser
<1>2. \A f \in FbUsers : /\ f \in mine <=> account[f].owner = u
                         /\ account'[f].owner = IF f \in mine THEN None ELSE account[f].owner
                         /\ account'[f].id = account[f].id
                         /\ account'[f] \in AccountRow
  <2>1. \A f \in FbUsers : account[f] \in AccountRow /\ (f \in mine <=> account[f].owner = u)
    BY DEF AccountsOf, PlatformsInv, PlatformsType
  <2> HIDE DEF mine
  <2>2. \A f \in FbUsers : account'[f] = IF f \in mine THEN [account[f] EXCEPT !.owner = None] ELSE account[f]
    BY <1>1
  <2> QED BY <2>1, <2>2 DEF AccountRow
<1>3. \A w \in Users, q \in Pages : /\ Emptied(platform[w][q]) \in PlatformRow
                                    /\ ~Emptied(platform[w][q]).live
  BY EmptiedRow
<1>5. \A w \in Users, q \in Pages : <<w, q>> \in lost <=> Live(w, q) /\ platform[w][q].account \in mine
  BY DEF PlatformsOn
<1>6. \A j \in Projects : project[j] # None =>
        /\ project[j].user = project[j].owner \/ j \in strayed
        /\ Live(project[j].owner, project[j].page)
        /\ project[j].owner \in Users /\ project[j].page \in Pages
  BY DEF PlatformsInv, PlatformsType, ProjectsOnOwnPlatforms, ProjectRow
<1> HIDE DEF mine, lost
<1>4. /\ platform' \in [Users -> [Pages -> PlatformRow]]
      /\ \A w \in Users, q \in Pages : /\ platform'[w][q].live <=> Live(w, q) /\ <<w, q>> \notin lost
                                       /\ platform'[w][q].live => platform'[w][q] = platform[w][q]
  <2>1. \A w \in Users, q \in Pages :
          platform'[w][q] = IF <<w, q>> \in lost THEN Emptied(platform[w][q]) ELSE platform[w][q]
    BY <1>1
  <2>2. \A w \in Users, q \in Pages : platform[w][q] \in PlatformRow
    BY EmptiedRow
  <2>3. platform' \in [Users -> [Pages -> PlatformRow]]
    <3>1. \A w \in Users, q \in Pages :
            (IF <<w, q>> \in lost THEN Emptied(platform[w][q]) ELSE platform[w][q]) \in PlatformRow
      BY <1>3, <2>2
    <3> QED BY <1>1, <3>1
  <2>4. \A w \in Users, q \in Pages : Live(w, q) \in BOOLEAN
    BY <2>2 DEF Live, PlatformRow
  <2> QED BY <1>3, <2>1, <2>3, <2>4 DEF Live
<1>7. PlatformsType'
  <2>1. account' \in [FbUsers -> AccountRow] /\ moved' \subseteq FbUsers
    BY <1>1, <1>2 DEF PlatformsInv, PlatformsType
  <2>2. project' \in [Projects -> ProjectRow \cup {None}] /\ expected' \in [Users -> SUBSET Pages]
    BY <1>1 DEF PlatformsInv, PlatformsType
  <2> QED BY <1>1, <1>4, <2>1, <2>2 DEF PlatformsInv, PlatformsType
<1>8. PlatformsFollowSync'
  <2>1. crossed' = crossed
        /\ \A w \in Users : expected'[w] = expected[w] \ {p \in Pages : <<w, p>> \in lost}
    BY <1>1
  <2>2. \A w \in Users : PagesOf(w)' = PagesOf(w) \ {p \in Pages : <<w, p>> \in lost}
    BY <1>4 DEF PagesOf, Live
  <2> QED BY <2>1, <2>2 DEF PlatformsInv, PlatformsFollowSync
<1>9. LatestTokenStored'
  <2>1. latest' = latest /\ reverted' = reverted
    BY <1>1
  <2> QED BY <1>4, <2>1 DEF PlatformsInv, LatestTokenStored, Live
<1>10. ProjectsOnOwnPlatforms'
  <2> SUFFICES ASSUME NEW j \in Projects, project'[j] # None
               PROVE  /\ project'[j].user = project'[j].owner \/ j \in strayed
                      /\ platform'[project'[j].owner][project'[j].page].live
    BY <1>1 DEF ProjectsOnOwnPlatforms, Live
  <2>1. project'[j] = project[j] /\ project[j] # None /\ ~UsesOneOf(j, lost)
    BY <1>1
  <2>2. <<project[j].owner, project[j].page>> \notin lost
    BY <2>1 DEF UsesOneOf
  <2>3. /\ project[j].owner \in Users /\ project[j].page \in Pages
        /\ project[j].user = project[j].owner \/ j \in strayed
        /\ Live(project[j].owner, project[j].page)
    BY <1>6, <2>1
  <2> QED BY <1>4, <2>1, <2>2, <2>3
<1>11. AccountsOwnPlatforms'
  <2> SUFFICES ASSUME NEW w \in Users, NEW p \in Pages, platform'[w][p].live,
                      platform'[w][p].account \in FbUsers \ moved'
               PROVE  account'[platform'[w][p].account].owner = w
    BY DEF AccountsOwnPlatforms, Live
  <2>1. platform'[w][p] = platform[w][p] /\ Live(w, p) /\ platform[w][p].account \notin mine
    <3>1. platform'[w][p] = platform[w][p] /\ Live(w, p) /\ <<w, p>> \notin lost
      BY <1>4
    <3> QED BY <1>5, <3>1
  <2>2. platform[w][p].account \in FbUsers \ moved
    BY <1>1, <2>1
  <2> QED BY <1>2, <2>1, <2>2 DEF PlatformsInv, AccountsOwnPlatforms
<1>12. CallbacksTyped'
  BY <1>1, <1>2 DEF PlatformsInv, CallbacksTyped
<1>13. CallbacksOwn'
  <2> SUFFICES ASSUME NEW d \in Callbacks,
                      callback[d].pc \in {"pages", "read", "write"}, callback[d].fb \notin moved',
                      account'[callback[d].fb].owner # None,
                      account'[callback[d].fb].id = callback[d].id
               PROVE  account'[callback[d].fb].owner = callback[d].user
    BY <1>1 DEF CallbacksOwn
  <2>1. callback[d].fb \in FbUsers
    BY DEF PlatformsInv, CallbacksTyped
  <2>2. callback[d].fb \notin mine
    BY <1>2, <2>1
  <2> QED BY <1>1, <1>2, <2>1, <2>2 DEF PlatformsInv, CallbacksOwn
<1>14. ASSUME NEW j \in Projects, project[j] # None, project'[j] = None, project[j].user # u,
              j \notin strayed
       PROVE  platform[project[j].owner][project[j].page].account \in moved
  <2>1. UsesOneOf(j, lost)
    BY <1>1, <1>14
  <2>2. <<project[j].owner, project[j].page>> \in lost
    BY <2>1 DEF UsesOneOf
  <2> DEFINE f == platform[project[j].owner][project[j].page].account
  <2>3. f \in mine /\ Live(project[j].owner, project[j].page)
    BY <1>5, <1>6, <1>14, <2>2
  <2>4. f \in FbUsers /\ account[f].owner = u
    BY <1>2, <2>3 DEF mine, AccountsOf
  <2> QED BY <1>6, <1>14, <2>3, <2>4 DEF PlatformsInv, AccountsOwnPlatforms
<1> QED BY <1>7, <1>8, <1>9, <1>10, <1>11, <1>12, <1>13, <1>14 DEF PlatformsInv

LEMMA PlatformsStep == PlatformsInv /\ PlatformsNext => PlatformsInv'
  BY AccountUpserted, CallbackReading, CallbackEnding, Synchronizing, ConfigWritten, ProjectInserted,
     PlatformCreated, PlatformDeleted, ProjectMoved, ProjectRemoved
  DEF PlatformsNext, PlatformStep

LEMMA PlatformsCrash == PlatformsInv /\ CallbacksCrash => PlatformsInv'
<1> SUFFICES ASSUME PlatformsInv, CallbacksCrash PROVE PlatformsInv'
  OBVIOUS
<1>1. NoCallback \in CallbackType /\ NoCallback.pc = "idle"
  BY DEF NoCallback, CallbackType
<1>2. /\ callback' = [c \in Callbacks |-> NoCallback]
      /\ UNCHANGED <<account, platform, project, issued, expected, latest, moved, crossed, reverted, strayed>>
  BY DEF CallbacksCrash
<1>3. PlatformsType'
  BY <1>1, <1>2 DEF PlatformsInv, PlatformsType
<1>4. CallbacksTyped' /\ CallbacksOwn'
  BY <1>1, <1>2 DEF CallbacksTyped, CallbacksOwn
<1>5. PlatformsFollowSync' /\ LatestTokenStored' /\ ProjectsOnOwnPlatforms' /\ AccountsOwnPlatforms'
  BY <1>2 DEF PlatformsInv, PlatformsFollowSync, LatestTokenStored, ProjectsOnOwnPlatforms,
              AccountsOwnPlatforms, Live, PagesOf
<1> QED BY <1>3, <1>4, <1>5 DEF PlatformsInv

-----------------------------------------------------------------------------
(* Library.                                                                *)

\* What a visit is about, by where it is.
VisitsTyped ==
  \A v \in Visits :
    /\ visit[v].pc \in {"bookmark", "delete", "insert", "protect"}
         => visit[v].user \in Users /\ visit[v].blog \in Blogs
    /\ visit[v].pc \in {"post", "keep", "drop"}
         => visit[v].post \in Posts /\ visit[v].collection \in Collections
    /\ visit[v].pc = "remove" => visit[v].collection \in Collections

\* Answers are about blogs that are, or have been.
AnswersAboutBlogs ==
  /\ \A x \in toggled : blog[x[2]] # None
  /\ \A b \in flipped \cup crossing : blog[b] # None

LibraryInv ==
  /\ LibraryType
  /\ BookmarksFollowAnswers
  /\ ProtectionFollowsAnswers
  /\ VisitsTyped
  /\ AnswersAboutBlogs

LEMMA LibraryInitial == LibraryInit => LibraryInv
  BY LibraryAssumption
  DEF LibraryInit, LibraryInv, LibraryType, BookmarksFollowAnswers, ProtectionFollowsAnswers,
      VisitsTyped, AnswersAboutBlogs, IsBlog, Absent, VisitType, NoVisit

\* The rows of User may change, as long as none of them goes.
LEMMA LibraryFrame ==
  ASSUME LibraryInv, UNCHANGED libraryVars, \A u \in Users : HasAccount(u) => HasAccount(u)'
  PROVE  LibraryInv'
  BY DEF LibraryInv, LibraryType, BookmarksFollowAnswers, ProtectionFollowsAnswers, VisitsTyped,
         AnswersAboutBlogs, IsBlog, libraryVars

\* Visits that begin, read or end change no table.
LEMMA VisitsGoOn ==
  ASSUME LibraryInv, visit' \in [Visits -> VisitType], VisitsTyped',
         UNCHANGED <<user, blog, post, bookmarks, collection, kept, toggled, flipped, crossing>>
  PROVE  LibraryInv'
  BY DEF LibraryInv, LibraryType, BookmarksFollowAnswers, ProtectionFollowsAnswers,
         AnswersAboutBlogs, IsBlog, HasAccount

LEMMA VisitGoesTo ==
  ASSUME LibraryInv, NEW v \in Visits, NEW k \in VisitType, visit' = [visit EXCEPT ![v] = k],
         k.pc \in {"bookmark", "delete", "insert", "protect"} => k.user \in Users /\ k.blog \in Blogs,
         k.pc \in {"post", "keep", "drop"} => k.post \in Posts /\ k.collection \in Collections,
         k.pc = "remove" => k.collection \in Collections
  PROVE  visit' \in [Visits -> VisitType] /\ VisitsTyped'
  BY DEF LibraryInv, LibraryType, VisitsTyped

LEMMA VisitOver ==
  ASSUME LibraryInv, NEW v \in Visits, VisitEnds(v)
  PROVE  visit' \in [Visits -> VisitType] /\ VisitsTyped'
<1>1. NoVisit \in VisitType /\ NoVisit.pc = "idle"
  BY DEF NoVisit, VisitType
<1>2. visit' = [visit EXCEPT ![v] = NoVisit]
  BY DEF VisitEnds
<1> QED BY <1>1, <1>2, VisitGoesTo

LEMMA VisitReading ==
  ASSUME LibraryInv, NEW v \in Visits, UNCHANGED user,
         \/ \E u \in Users, b \in Blogs : ToggleBookmark(v, u, b) \/ ProtectBlog(v, u, b)
         \/ ReadBookmark(v)
         \/ \E u \in Users, k \in Collections, p \in Posts, pc \in {"post", "drop"} :
              FindCollection(v, u, k, p, pc)
         \/ \E u \in Users, k \in Collections : FindCollection(v, u, k, None, "remove")
         \/ FindPost(v)
         \/ VisitFails(v)
  PROVE  LibraryInv'
<1> USE LibraryAssumption
<1> visit \in [Visits -> VisitType] /\ visit[v] \in VisitType
  BY DEF LibraryInv, LibraryType
<1>1. ASSUME NEW u \in Users, NEW b \in Blogs, ToggleBookmark(v, u, b) PROVE LibraryInv'
  <2> DEFINE k == [NoVisit EXCEPT !.pc = "bookmark", !.user = u, !.blog = b]
  <2>1. k \in VisitType /\ k.pc = "bookmark" /\ k.user = u /\ k.blog = b
    BY DEF VisitType, NoVisit
  <2>2. /\ visit' = [visit EXCEPT ![v] = k]
        /\ UNCHANGED <<blog, post, bookmarks, collection, kept, toggled, flipped, crossing>>
    BY <1>1 DEF ToggleBookmark, VisitBegins
  <2> HIDE DEF k
  <2>3. visit' \in [Visits -> VisitType] /\ VisitsTyped'
    BY <2>1, <2>2, VisitGoesTo
  <2> QED BY <2>2, <2>3, VisitsGoOn
<1>2. ASSUME NEW u \in Users, NEW b \in Blogs, ProtectBlog(v, u, b) PROVE LibraryInv'
  <2> DEFINE k == [NoVisit EXCEPT !.pc = "protect", !.user = u, !.blog = b,
                                  !.protected = blog[b].protected]
  <2>1. blog[b] \in BlogRow
    BY <1>2 DEF ProtectBlog, IsBlog, LibraryInv, LibraryType
  <2>2. blog[b].protected \in BOOLEAN
    BY <2>1 DEF BlogRow
  <2>3. k \in VisitType /\ k.pc = "protect" /\ k.user = u /\ k.blog = b
    BY <2>2 DEF VisitType, NoVisit
  <2>4. /\ visit' = [visit EXCEPT ![v] = k]
        /\ UNCHANGED <<blog, post, bookmarks, collection, kept, toggled, flipped, crossing>>
    BY <1>2 DEF ProtectBlog, VisitBegins
  <2> HIDE DEF k
  <2>5. visit' \in [Visits -> VisitType] /\ VisitsTyped'
    BY <2>3, <2>4, VisitGoesTo
  <2> QED BY <2>4, <2>5, VisitsGoOn
<1>3. CASE ReadBookmark(v) \/ FindPost(v)
  <2>1. PICK pc \in {"delete", "insert", "keep"} :
          /\ visit' = [visit EXCEPT ![v].pc = pc]
          /\ pc = "keep" <=> visit[v].pc = "post"
          /\ visit[v].pc \in {"bookmark", "post"}
          /\ UNCHANGED <<blog, post, bookmarks, collection, kept, toggled, flipped, crossing>>
    BY <1>3 DEF ReadBookmark, FindPost, VisitGoesOn
  <2> DEFINE k == [visit[v] EXCEPT !.pc = pc]
  <2>2. /\ k \in VisitType /\ k.pc = pc /\ k.user = visit[v].user /\ k.blog = visit[v].blog
        /\ k.post = visit[v].post /\ k.collection = visit[v].collection
    BY DEF VisitType
  <2>3. visit' = [visit EXCEPT ![v] = k]
    BY <2>1
  <2> HIDE DEF k
  <2>4. /\ pc \in {"delete", "insert"} => visit[v].user \in Users /\ visit[v].blog \in Blogs
        /\ pc = "keep" => visit[v].post \in Posts /\ visit[v].collection \in Collections
    BY <2>1 DEF LibraryInv, VisitsTyped
  <2>5. visit' \in [Visits -> VisitType] /\ VisitsTyped'
    BY <2>2, <2>3, <2>4, VisitGoesTo
  <2> QED BY <2>1, <2>5, VisitsGoOn
<1>4. ASSUME NEW u \in Users, NEW c \in Collections, NEW p \in Posts \cup {None},
             NEW pc \in {"post", "drop", "remove"}, FindCollection(v, u, c, p, pc),
             pc # "remove" => p \in Posts
      PROVE  LibraryInv'
  <2> DEFINE k == [NoVisit EXCEPT !.pc = pc, !.user = u, !.collection = c, !.post = p]
  <2>1. k \in VisitType /\ k.pc = pc /\ k.user = u /\ k.collection = c /\ k.post = p
    BY DEF VisitType, NoVisit
  <2>2. /\ visit' = [visit EXCEPT ![v] = k]
        /\ UNCHANGED <<blog, post, bookmarks, collection, kept, toggled, flipped, crossing>>
    BY <1>4 DEF FindCollection, VisitBegins
  <2> HIDE DEF k
  <2>3. visit' \in [Visits -> VisitType] /\ VisitsTyped'
    BY <1>4, <2>1, <2>2, VisitGoesTo
  <2> QED BY <2>2, <2>3, VisitsGoOn
<1>5. CASE VisitFails(v)
  <2>1. /\ VisitEnds(v)
        /\ UNCHANGED <<blog, post, bookmarks, collection, kept, toggled, flipped, crossing>>
    BY <1>5 DEF VisitFails
  <2> QED BY <2>1, VisitOver, VisitsGoOn
<1> QED BY <1>1, <1>2, <1>3, <1>4, <1>5

LEMMA BookmarkWritten ==
  ASSUME LibraryInv, NEW v \in Visits, UNCHANGED user, DeleteBookmark(v) \/ InsertBookmark(v)
  PROVE  LibraryInv'
<1> USE LibraryAssumption
<1> DEFINE x == Marks(v)
<1>1. x \in Users \X Blogs /\ x[1] = visit[v].user /\ x[2] = visit[v].blog
  BY DEF DeleteBookmark, InsertBookmark, Marks, LibraryInv, VisitsTyped
<1>2. /\ VisitEnds(v)
      /\ toggled' = IF x \in toggled THEN toggled \ {x} ELSE toggled \cup {x}
      /\ UNCHANGED <<blog, post, collection, kept, flipped, crossing>>
  BY DEF DeleteBookmark, InsertBookmark, Toggled
<1>3. \/ x \in bookmarks /\ bookmarks' = bookmarks \ {x}
      \/ /\ x \notin bookmarks /\ bookmarks' = bookmarks \cup {x}
         /\ HasAccount(x[1]) /\ IsBlog(x[2])
  BY <1>1 DEF DeleteBookmark, InsertBookmark
<1>4. HasAccount(x[1]) /\ IsBlog(x[2])
  BY <1>3 DEF LibraryInv, LibraryType
<1> HIDE DEF x
<1>5. visit' \in [Visits -> VisitType] /\ VisitsTyped'
  BY <1>2, VisitOver
<1>6. \A u \in Users : HasAccount(u)' = HasAccount(u)
  BY DEF HasAccount
<1>7. \A b \in Blogs : IsBlog(b)' = IsBlog(b)
  BY <1>2 DEF IsBlog
<1>8. LibraryType'
  BY <1>1, <1>2, <1>3, <1>4, <1>5, <1>6, <1>7 DEF LibraryInv, LibraryType
<1>9. BookmarksFollowAnswers'
  BY <1>1, <1>2, <1>3, <1>4, <1>7 DEF LibraryInv, BookmarksFollowAnswers
<1>10. ProtectionFollowsAnswers'
  BY <1>2, <1>7 DEF LibraryInv, ProtectionFollowsAnswers
<1>11. AnswersAboutBlogs'
  BY <1>1, <1>2, <1>4 DEF LibraryInv, AnswersAboutBlogs, IsBlog, Absent
<1> QED BY <1>5, <1>8, <1>9, <1>10, <1>11 DEF LibraryInv

\* A row of Blog is written; answers are still about blogs.
LEMMA BlogsWritten ==
  ASSUME LibraryInv, UNCHANGED user, NEW b \in Blogs, NEW row \in BlogRow \cup Absent,
         blog' = [blog EXCEPT ![b] = row], row \in BlogRow => blog[b] # Gone,
         row # None, \/ row \in BlogRow /\ UNCHANGED bookmarks
                     \/ row = Gone /\ bookmarks' = {x \in bookmarks : x[2] # b},
         visit' \in [Visits -> VisitType], VisitsTyped',
         UNCHANGED <<post, collection, kept, toggled>>,
         flipped' \subseteq flipped \cup {b}, crossing' \subseteq crossing \cup {b},
         ProtectionFollowsAnswers'
  PROVE  LibraryInv'
<1> USE LibraryAssumption
<1>1. /\ blog' \in [Blogs -> BlogRow \cup Absent] /\ blog'[b] = row
      /\ \A a \in Blogs \ {b} : blog'[a] = blog[a]
  BY DEF LibraryInv, LibraryType
<1>2. IsBlog(b)' <=> row \in BlogRow
  BY <1>1 DEF IsBlog, Absent
<1>3. \A a \in Blogs \ {b} : IsBlog(a)' <=> IsBlog(a)
  BY <1>1 DEF IsBlog
<1>4. /\ bookmarks' \subseteq bookmarks
      /\ \A x \in bookmarks : x[2] = b => (x \in bookmarks' <=> row \in BlogRow)
      /\ \A x \in bookmarks : x[2] # b => x \in bookmarks'
  BY DEF Absent
<1>5. \A x \in Users \X Blogs : x \in bookmarks => HasAccount(x[1])' /\ IsBlog(x[2])
  BY DEF HasAccount, LibraryInv, LibraryType
<1>6. bookmarks' \subseteq {x \in Users \X Blogs : HasAccount(x[1])' /\ IsBlog(x[2])'}
  BY <1>2, <1>3, <1>4, <1>5 DEF LibraryInv, LibraryType
<1>7. LibraryType'
  BY <1>1, <1>6 DEF LibraryInv, LibraryType
<1>8. AnswersAboutBlogs'
  BY <1>1 DEF LibraryInv, LibraryType, AnswersAboutBlogs
<1>9. BookmarksFollowAnswers'
  <2> SUFFICES ASSUME NEW x \in Users \X Blogs, IsBlog(x[2])'
               PROVE  x \in bookmarks' <=> x \in toggled
    BY DEF BookmarksFollowAnswers
  <2>1. CASE IsBlog(x[2])
    BY <1>2, <1>4, <2>1 DEF LibraryInv, BookmarksFollowAnswers
  <2>2. CASE ~IsBlog(x[2])
    <3>1. x \notin bookmarks'
      BY <1>4, <1>5, <2>2
    <3>2. blog[x[2]] = None
      <4>1. CASE x[2] = b
        BY <1>2, <2>2, <4>1 DEF IsBlog, Absent, LibraryInv, LibraryType
      <4>2. CASE x[2] # b
        BY <1>3, <2>2, <4>2
      <4> QED BY <4>1, <4>2
    <3> QED BY <3>1, <3>2 DEF LibraryInv, AnswersAboutBlogs
  <2> QED BY <2>1, <2>2
<1> QED BY <1>7, <1>8, <1>9 DEF LibraryInv

LEMMA BlogRows ==
  ASSUME LibraryInv, UNCHANGED user, NEW b \in Blogs,
         \/ \E u \in Users : CreateBlogRow(u, b)
         \/ \E f \in BOOLEAN : UpdateBlogRow(b, f)
         \/ DeleteBlogRow(b)
         \/ \E v \in Visits : visit[v].blog = b /\ WriteProtection(v)
  PROVE  LibraryInv'
<1> USE LibraryAssumption
<1> blog \in [Blogs -> BlogRow \cup Absent] /\ blog[b] \in BlogRow \cup Absent
  BY DEF LibraryInv, LibraryType
<1>1. ASSUME UNCHANGED visit PROVE visit' \in [Visits -> VisitType] /\ VisitsTyped'
  BY <1>1 DEF LibraryInv, LibraryType, VisitsTyped
<1>2. ASSUME NEW row \in BlogRow \cup Absent, blog' = [blog EXCEPT ![b] = row],
             \A a \in Blogs \ {b} : a \in flipped' <=> a \in flipped,
             crossing \subseteq crossing',
             \/ row \notin BlogRow
             \/ b \in crossing'
             \/ row.protected <=> b \in flipped'
      PROVE  ProtectionFollowsAnswers'
  <2> SUFFICES ASSUME NEW a \in Blogs \ crossing', IsBlog(a)'
               PROVE  blog'[a].protected <=> a \in flipped'
    BY DEF ProtectionFollowsAnswers
  <2>1. CASE a = b
    BY <1>2, <2>1 DEF IsBlog
  <2>2. CASE a # b
    BY <1>2, <2>2 DEF IsBlog, LibraryInv, ProtectionFollowsAnswers
  <2> QED BY <2>1, <2>2
<1>3. ASSUME NEW u \in Users, CreateBlogRow(u, b) PROVE LibraryInv'
  <2>1. PICK published \in BOOLEAN :
          blog' = [blog EXCEPT ![b] = [author |-> u, published |-> published, protected |-> FALSE]]
    BY <1>3 DEF CreateBlogRow
  <2> DEFINE row == [author |-> u, published |-> published, protected |-> FALSE]
  <2>2. row \in BlogRow /\ ~row.protected /\ row # None
    <3>1. row \in BlogRow /\ ~row.protected
      BY DEF BlogRow
    <3> HIDE DEF row
    <3> QED BY <3>1 DEF Absent
  <2>3. /\ blog[b] = None /\ blog' = [blog EXCEPT ![b] = row]
        /\ UNCHANGED <<post, bookmarks, collection, kept, visit, toggled, flipped, crossing>>
    BY <1>3, <2>1 DEF CreateBlogRow
  <2> HIDE DEF row
  <2>4. b \notin flipped
    BY <2>3 DEF LibraryInv, AnswersAboutBlogs
  <2>5. row.protected <=> b \in flipped'
    BY <2>2, <2>3, <2>4
  <2>6. ProtectionFollowsAnswers'
    BY <1>2, <2>2, <2>3, <2>5
  <2> QED BY <1>1, <2>2, <2>3, <2>6, BlogsWritten
<1>4. ASSUME NEW f \in BOOLEAN, UpdateBlogRow(b, f) PROVE LibraryInv'
  <2> DEFINE row == [blog[b] EXCEPT !.published = f]
  <2>1. /\ IsBlog(b) /\ blog' = [blog EXCEPT ![b] = row]
        /\ UNCHANGED <<post, bookmarks, collection, kept, visit, toggled, flipped, crossing>>
    BY <1>4 DEF UpdateBlogRow
  <2>2. blog[b] \in BlogRow /\ blog[b] # Gone
    BY <2>1 DEF IsBlog, Absent
  <2>3. row \in BlogRow /\ row.protected = blog[b].protected /\ blog[b].protected \in BOOLEAN
    BY <2>2 DEF BlogRow
  <2>4. row # None
    BY <2>3 DEF Absent
  <2> HIDE DEF row
  <2>5. b \in crossing \/ (row.protected <=> b \in flipped)
    <3>1. b \in crossing \/ (blog[b].protected <=> b \in flipped)
      BY <2>1 DEF LibraryInv, ProtectionFollowsAnswers
    <3> QED BY <2>3, <3>1
  <2>6. ProtectionFollowsAnswers'
    BY <1>2, <2>1, <2>3, <2>5
  <2> QED BY <1>1, <2>1, <2>2, <2>3, <2>4, <2>6, BlogsWritten
<1>5. CASE DeleteBlogRow(b)
  <2>1. /\ blog' = [blog EXCEPT ![b] = Gone] /\ bookmarks' = {x \in bookmarks : x[2] # b}
        /\ UNCHANGED <<post, collection, kept, visit, toggled, flipped, crossing>>
    BY <1>5 DEF DeleteBlogRow
  <2>2. Gone \in BlogRow \cup Absent /\ Gone # None /\ Gone \notin BlogRow
    BY DEF Absent
  <2>3. ProtectionFollowsAnswers'
    BY <1>2, <2>1, <2>2
  <2> QED BY <1>1, <2>1, <2>2, <2>3, BlogsWritten
<1>6. ASSUME NEW v \in Visits, visit[v].blog = b, WriteProtection(v) PROVE LibraryInv'
  <2> DEFINE row == [blog[b] EXCEPT !.protected = NewProtection(visit[v])]
  <2>1. /\ IsBlog(b) /\ blog' = [blog EXCEPT ![b] = row]
        /\ flipped' = IF b \in flipped THEN flipped \ {b} ELSE flipped \cup {b}
        /\ crossing' = IF blog[b].protected = visit[v].protected THEN crossing ELSE crossing \cup {b}
        /\ VisitEnds(v)
        /\ UNCHANGED <<post, bookmarks, collection, kept, toggled>>
    BY <1>6 DEF WriteProtection
  <2>2. blog[b] \in BlogRow /\ blog[b] # Gone
    BY <2>1 DEF IsBlog, Absent
  <2>3. /\ row \in BlogRow /\ row.protected = ~visit[v].protected
        /\ blog[b].protected \in BOOLEAN /\ visit[v].protected \in BOOLEAN
    BY <2>2 DEF BlogRow, NewProtection, LibraryInv, LibraryType, VisitType
  <2>4. row # None
    BY <2>3 DEF Absent
  <2> HIDE DEF row
  <2>5. b \in crossing' \/ (row.protected <=> b \in flipped')
    <3>1. b \in crossing \/ (blog[b].protected <=> b \in flipped)
      BY <2>1 DEF LibraryInv, ProtectionFollowsAnswers
    <3>2. b \in flipped' <=> b \notin flipped
      BY <2>1
    <3>3. CASE blog[b].protected = visit[v].protected
      BY <2>1, <2>3, <3>1, <3>2, <3>3
    <3>4. CASE blog[b].protected # visit[v].protected
      BY <2>1, <3>4
    <3> QED BY <3>3, <3>4
  <2>6. ProtectionFollowsAnswers'
    BY <1>2, <2>1, <2>3, <2>5
  <2>7. visit' \in [Visits -> VisitType] /\ VisitsTyped'
    BY <2>1, VisitOver
  <2>8. flipped' \subseteq flipped \cup {b} /\ crossing' \subseteq crossing \cup {b}
    BY <2>1
  <2> QED BY <2>1, <2>2, <2>3, <2>4, <2>6, <2>7, <2>8, BlogsWritten
<1> QED BY <1>3, <1>4, <1>5, <1>6

\* Posts, collections and what joins them: nothing about blogs.
LEMMA CollectionsWritten ==
  ASSUME LibraryInv, UNCHANGED <<user, blog, bookmarks, toggled, flipped, crossing>>,
         post' \in [Posts -> Users \cup Absent], collection' \in [Collections -> Users \cup Absent],
         kept' \subseteq {x \in Posts \X Collections : post'[x[1]] \in Users /\ collection'[x[2]] \in Users},
         visit' \in [Visits -> VisitType], VisitsTyped'
  PROVE  LibraryInv'
  BY DEF LibraryInv, LibraryType, BookmarksFollowAnswers, ProtectionFollowsAnswers,
         AnswersAboutBlogs, IsBlog, HasAccount

LEMMA CollectionRows ==
  ASSUME LibraryInv, UNCHANGED user,
         \/ \E u \in Users, p \in Posts : CreatePostRow(u, p)
         \/ \E p \in Posts : DeletePostRow(p)
         \/ \E u \in Users, k \in Collections : CreateCollection(u, k)
         \/ \E v \in Visits : AddPostToCollection(v) \/ RemovePostFromCollection(v) \/ RemoveCollection(v)
  PROVE  LibraryInv'
<1> USE LibraryAssumption DEF Absent
<1>0. /\ post \in [Posts -> Users \cup Absent] /\ collection \in [Collections -> Users \cup Absent]
      /\ kept \subseteq {x \in Posts \X Collections : post[x[1]] \in Users /\ collection[x[2]] \in Users}
  BY DEF LibraryInv, LibraryType
<1>1. ASSUME UNCHANGED visit PROVE visit' \in [Visits -> VisitType] /\ VisitsTyped'
  BY <1>1 DEF LibraryInv, LibraryType, VisitsTyped
<1>2. ASSUME NEW u \in Users, NEW p \in Posts, CreatePostRow(u, p) PROVE LibraryInv'
  BY <1>0, <1>1, <1>2, CollectionsWritten DEF CreatePostRow
<1>3. ASSUME NEW p \in Posts, DeletePostRow(p) PROVE LibraryInv'
  BY <1>0, <1>1, <1>3, CollectionsWritten DEF DeletePostRow
<1>4. ASSUME NEW u \in Users, NEW k \in Collections, CreateCollection(u, k) PROVE LibraryInv'
  BY <1>0, <1>1, <1>4, CollectionsWritten DEF CreateCollection
<1>5. ASSUME NEW v \in Visits, AddPostToCollection(v) PROVE LibraryInv'
  <2>1. <<visit[v].post, visit[v].collection>> \in Posts \X Collections
    BY <1>5 DEF AddPostToCollection, LibraryInv, VisitsTyped
  <2>2. /\ VisitEnds(v) /\ UNCHANGED <<blog, post, bookmarks, collection, toggled, flipped, crossing>>
        /\ kept' \subseteq {x \in Posts \X Collections : post[x[1]] \in Users /\ collection[x[2]] \in Users}
    BY <1>0, <1>5, <2>1 DEF AddPostToCollection
  <2>3. visit' \in [Visits -> VisitType] /\ VisitsTyped'
    BY <2>2, VisitOver
  <2> QED BY <1>0, <2>2, <2>3, CollectionsWritten
<1>6. ASSUME NEW v \in Visits, RemovePostFromCollection(v) PROVE LibraryInv'
  <2>1. /\ VisitEnds(v) /\ UNCHANGED <<blog, post, bookmarks, collection, toggled, flipped, crossing>>
        /\ kept' \subseteq kept
    BY <1>6 DEF RemovePostFromCollection
  <2>2. visit' \in [Visits -> VisitType] /\ VisitsTyped'
    BY <2>1, VisitOver
  <2> QED BY <1>0, <2>1, <2>2, CollectionsWritten
<1>7. ASSUME NEW v \in Visits, RemoveCollection(v) PROVE LibraryInv'
  <2> DEFINE k == visit[v].collection
  <2>1. /\ VisitEnds(v) /\ UNCHANGED <<blog, post, bookmarks, toggled, flipped, crossing>>
        /\ collection' = [collection EXCEPT ![k] = Gone] /\ kept' = {x \in kept : x[2] # k}
    BY <1>7 DEF RemoveCollection
  <2> HIDE DEF k
  <2>2. visit' \in [Visits -> VisitType] /\ VisitsTyped'
    BY <2>1, VisitOver
  <2>3. /\ collection' \in [Collections -> Users \cup Absent]
        /\ kept' \subseteq {x \in Posts \X Collections : post'[x[1]] \in Users /\ collection'[x[2]] \in Users}
    BY <1>0, <2>1
  <2> QED BY <1>0, <2>1, <2>2, <2>3, CollectionsWritten
<1> QED BY <1>2, <1>3, <1>4, <1>5, <1>6, <1>7

LEMMA LibraryStepInv ==
  ASSUME LibraryInv, UNCHANGED user, LibraryNext
  PROVE  LibraryInv'
<1>1. ASSUME NEW v \in Visits, WriteProtection(v) PROVE visit[v].blog \in Blogs
  BY <1>1 DEF WriteProtection, LibraryInv, VisitsTyped
<1>2. ASSUME NEW v \in Visits, LibraryStep(v) PROVE LibraryInv'
  BY <1>1, <1>2, VisitReading, BookmarkWritten, BlogRows, CollectionRows DEF LibraryStep
<1> QED BY <1>2, BlogRows, CollectionRows DEF LibraryNext

LEMMA LibraryCrash ==
  ASSUME LibraryInv, UNCHANGED user, VisitsCrash
  PROVE  LibraryInv'
<1>1. NoVisit \in VisitType /\ NoVisit.pc = "idle"
  BY DEF NoVisit, VisitType
<1>2. visit' \in [Visits -> VisitType] /\ VisitsTyped'
  BY <1>1 DEF VisitsCrash, VisitsTyped
<1> QED BY <1>2, VisitsGoOn DEF VisitsCrash

LEMMA LibraryDropped ==
  ASSUME LibraryInv, AccountsType, NEW u \in Users, user' = [user EXCEPT ![u] = None],
         DropLibraryOfUser(u)
  PROVE  LibraryInv'
<1> USE LibraryAssumption
<1> DEFINE mine == BlogsOf(u)
           lost == LostBookmarks(u)
<1>1. /\ blog' = [b \in Blogs |-> IF b \in mine THEN Gone ELSE blog[b]]
      /\ post' = [p \in Posts |-> IF post[p] = u THEN Gone ELSE post[p]]
      /\ collection' = [k \in Collections |-> IF collection[k] = u THEN Gone ELSE collection[k]]
      /\ kept' = {x \in kept : post[x[1]] # u /\ collection[x[2]] # u}
      /\ bookmarks' = bookmarks \ lost /\ toggled' = toggled \ lost
      /\ UNCHANGED <<visit, flipped, crossing>>
  BY DEF DropLibraryOfUser
<1>2. \A x : x \in lost <=> x \in bookmarks /\ (x[1] = u \/ x[2] \in mine)
  BY DEF LostBookmarks
<1>3. \A b \in mine : IsBlog(b)
  BY DEF BlogsOf
<1> HIDE DEF mine, lost
<1>4. \A b \in Blogs : IsBlog(b)' <=> IsBlog(b) /\ b \notin mine
  BY <1>1 DEF IsBlog, Absent
<1>5. \A w \in Users \ {u} : HasAccount(w) => HasAccount(w)'
  BY DEF AccountsType, HasAccount
<1>6. LibraryType'
  <2>1. blog' \in [Blogs -> BlogRow \cup Absent] /\ post' \in [Posts -> Users \cup Absent]
        /\ collection' \in [Collections -> Users \cup Absent]
    BY <1>1 DEF LibraryInv, LibraryType, Absent
  <2>2. bookmarks' \subseteq {x \in Users \X Blogs : HasAccount(x[1])' /\ IsBlog(x[2])'}
    BY <1>1, <1>2, <1>4, <1>5 DEF LibraryInv, LibraryType
  <2>3. kept' \subseteq {x \in Posts \X Collections : post'[x[1]] \in Users /\ collection'[x[2]] \in Users}
    BY <1>1 DEF LibraryInv, LibraryType
  <2>4. /\ visit' \in [Visits -> VisitType] /\ toggled' \subseteq Users \X Blogs
        /\ flipped' \subseteq Blogs /\ crossing' \subseteq Blogs
    BY <1>1 DEF LibraryInv, LibraryType
  <2> QED BY <2>1, <2>2, <2>3, <2>4 DEF LibraryType
<1>7. BookmarksFollowAnswers'
  BY <1>1, <1>2, <1>4 DEF LibraryInv, BookmarksFollowAnswers
<1>8. ProtectionFollowsAnswers'
  <2>1. \A b \in Blogs : IsBlog(b)' => IsBlog(b) /\ blog'[b] = blog[b]
    BY <1>1, <1>4
  <2>2. flipped' = flipped /\ crossing' = crossing
    BY <1>1
  <2> QED BY <2>1, <2>2 DEF LibraryInv, ProtectionFollowsAnswers
<1>9. VisitsTyped'
  BY <1>1 DEF LibraryInv, VisitsTyped
<1>10. AnswersAboutBlogs'
  <2>1. \A b \in Blogs : blog[b] # None => blog'[b] # None
    BY <1>1
  <2>2. \A x \in toggled : x[2] \in Blogs
    BY DEF LibraryInv, LibraryType
  <2> QED BY <1>1, <2>1, <2>2 DEF LibraryInv, LibraryType, AnswersAboutBlogs
<1> QED BY <1>6, <1>7, <1>8, <1>9, <1>10 DEF LibraryInv

-----------------------------------------------------------------------------
(* Services.                                                               *)

ServicesInv == AccountsInv /\ PlatformsInv /\ LibraryInv

LEMMA ServicesInitial == Init => ServicesInv
  BY AccountsInitial, PlatformsInitial, LibraryInitial DEF Init, ServicesInv

\* The row goes, and everything that hangs on it.
LEMMA UserDeleted ==
  ASSUME ServicesInv, NEW r \in Requests, DeleteUserRow(r)
  PROVE  /\ ServicesInv'
         /\ \A u \in Users : user[u] # None /\ user'[u] = None =>
              \A j \in Projects : project[j] # None /\ project'[j] = None =>
                \/ project[j].user = u
                \/ platform[project[j].owner][project[j].page].account \in moved
                \/ j \in strayed
<1> DEFINE w == request[r].user
<1>1. DeleteRow(r) /\ DropPlatformsOfUser(w) /\ DropLibraryOfUser(w)
  BY DEF DeleteUserRow
<1>2. w \in Users /\ user' = [user EXCEPT ![w] = None]
  BY <1>1 DEF DeleteRow, ServicesInv, AccountsInv, AccountsType
<1>3. AccountsInv'
  BY <1>1, AccountsStep DEF ServicesInv
<1> HIDE DEF w
<1>4. /\ PlatformsInv'
      /\ \A j \in Projects : project[j] # None /\ project'[j] = None =>
           \/ project[j].user = w
           \/ platform[project[j].owner][project[j].page].account \in moved
           \/ j \in strayed
  BY <1>1, <1>2, PlatformsDropped DEF ServicesInv
<1>5. LibraryInv'
  BY <1>1, <1>2, LibraryDropped DEF ServicesInv, AccountsInv
<1>6. \A u \in Users : user[u] # None /\ user'[u] = None => u = w
  BY <1>2 DEF ServicesInv, AccountsInv, AccountsType
<1> QED BY <1>3, <1>4, <1>5, <1>6 DEF ServicesInv

LEMMA ServicesStep ==
  ASSUME ServicesInv, [Next]_vars
  PROVE  ServicesInv'
<1>1. ASSUME NEW r \in Requests, AccountStep(r), UNCHANGED <<platformVars, libraryVars>>
      PROVE  ServicesInv'
  <2>1. AccountsInv' /\ PlatformsInv'
    BY <1>1, AccountsStep, PlatformsFrame DEF ServicesInv
  <2>2. \A u \in Users : HasAccount(u) => HasAccount(u)'
    BY <1>1, AccountsStay DEF ServicesInv
  <2>3. LibraryInv'
    BY <1>1, <2>2, LibraryFrame DEF ServicesInv
  <2> QED BY <2>1, <2>3 DEF ServicesInv
<1>2. ASSUME NEW r \in Requests, DeleteUserRow(r) PROVE ServicesInv'
  BY <1>2, UserDeleted
<1>3. ASSUME UNCHANGED user PROVE \A u \in Users : HasAccount(u) => HasAccount(u)'
  BY <1>3 DEF HasAccount
<1>4. CASE PlatformsNext /\ UNCHANGED <<accountVars, libraryVars>>
  <2>1. UNCHANGED user
    BY <1>4 DEF accountVars
  <2> QED BY <1>3, <1>4, <2>1, AccountsFrame, PlatformsStep, LibraryFrame DEF ServicesInv
<1>5. CASE LibraryNext /\ UNCHANGED <<accountVars, platformVars>>
  <2>1. UNCHANGED user
    BY <1>5 DEF accountVars
  <2> QED BY <1>5, <2>1, AccountsFrame, PlatformsFrame, LibraryStepInv DEF ServicesInv
<1>6. CASE Crash
  <2>1. UNCHANGED user /\ RequestsCrash /\ CallbacksCrash /\ VisitsCrash
    BY <1>6 DEF Crash, RequestsCrash
  <2> QED BY <2>1, AccountsCrash, PlatformsCrash, LibraryCrash DEF ServicesInv
<1>7. CASE UNCHANGED vars
  <2>1. UNCHANGED <<accountVars, platformVars, libraryVars>> /\ UNCHANGED user
    BY <1>7 DEF vars, accountVars
  <2> QED BY <1>3, <2>1, AccountsFrame, PlatformsFrame, LibraryFrame DEF ServicesInv
<1> QED BY <1>1, <1>2, <1>4, <1>5, <1>6, <1>7 DEF Next

\* The conjunction is inductive.
LEMMA ServicesInvariant == Spec => []ServicesInv
<1>1. Init => ServicesInv
  BY ServicesInitial
<1>2. ServicesInv /\ [Next]_vars => ServicesInv'
  BY ServicesStep
<1> QED BY <1>1, <1>2, PTL DEF Spec

(* Whatever users, administrators and Facebook do, and wherever a request   *)
(* is interrupted, the state is well-typed: emails stay unique, bookmarks   *)
(* join users and blogs that are there, and so do kept posts.               *)
THEOREM TypeCorrect == Spec => []TypeOK
<1>1. ServicesInv => TypeOK
  BY DEF ServicesInv, AccountsInv, PlatformsInv, LibraryInv, TypeOK
<1> QED BY <1>1, ServicesInvariant, PTL

(* deleteUserById deletes in Firebase first: a row without its Firebase     *)
(* account is one that is about to go, or whose deletion ended in an error. *)
THEOREM RowsKeepFirebase == Spec => []RowsHaveFirebase
<1>1. ServicesInv => RowsHaveFirebase
  BY DEF ServicesInv, AccountsInv
<1> QED BY <1>1, ServicesInvariant, PTL

(* signup writes the row and the plan in one transaction, so a user without *)
(* a plan was made by an administrator.                                     *)
THEOREM PlansFollowUsers == Spec => []PlanFollowsUser
<1>1. ServicesInv => PlanFollowsUser
  BY DEF ServicesInv, AccountsInv
<1> QED BY <1>1, ServicesInvariant, PTL

(* A synchronisation that saw all rows leaves exactly the pages of Facebook.*)
THEOREM SynchronizedPlatforms == Spec => []PlatformsFollowSync
<1>1. ServicesInv => PlatformsFollowSync
  BY DEF ServicesInv, PlatformsInv
<1> QED BY <1>1, ServicesInvariant, PTL

(* No token is lost but to an update of a config that had read the old one. *)
THEOREM TokensStayLatest == Spec => []LatestTokenStored
<1>1. ServicesInv => LatestTokenStored
  BY DEF ServicesInv, PlatformsInv
<1> QED BY <1>1, ServicesInvariant, PTL

(* A project has a platform at all times, and but for one that an update    *)
(* put elsewhere, which checks nothing, it is a platform of the project's   *)
(* own user.                                                                *)
THEOREM ProjectsKeepPlatforms == Spec => []ProjectsOnOwnPlatforms
<1>1. ServicesInv => ProjectsOnOwnPlatforms
  BY DEF ServicesInv, PlatformsInv
<1> QED BY <1>1, ServicesInvariant, PTL

(* toggleBookmark needs no transaction: the unique row is what decides.     *)
THEOREM BookmarksAsAnswered == Spec => []BookmarksFollowAnswers
<1>1. ServicesInv => BookmarksFollowAnswers
  BY DEF ServicesInv, LibraryInv
<1> QED BY <1>1, ServicesInvariant, PTL

(* protectBlog loses a toggle only to one that overlapped with it.          *)
THEOREM ProtectionAsAnswered == Spec => []ProtectionFollowsAnswers
<1>1. ServicesInv => ProtectionFollowsAnswers
  BY DEF ServicesInv, LibraryInv
<1> QED BY <1>1, ServicesInvariant, PTL

(* The cascade of a user's deletion reaches the projects of another user    *)
(* only through a Facebook account that has changed hands, or if an update  *)
(* had put the project on a platform of somebody else.                      *)
THEOREM DeletionsAreOwn == Spec => LossesAreOwn
<1> DEFINE Own == \A u \in Users : user[u] # None /\ user'[u] = None =>
                    \A j \in Projects : project[j] # None /\ project'[j] = None =>
                      \/ project[j].user = u
                      \/ platform[project[j].owner][project[j].page].account \in moved
                      \/ j \in strayed
<1>1. ServicesInv /\ [Next]_vars => [Own]_<<user, project>>
  <2> SUFFICES ASSUME ServicesInv, Next, ~UNCHANGED <<user, project>> PROVE Own
    BY DEF vars, accountVars, platformVars
  <2>1. ASSUME NEW r \in Requests, AccountStep(r) PROVE Own
    <3>1. \A u \in Users : HasAccount(u) => HasAccount(u)'
      BY <2>1, AccountsStay DEF ServicesInv
    <3> QED BY <3>1 DEF HasAccount
  <2>2. ASSUME NEW r \in Requests, DeleteUserRow(r) PROVE Own
    BY <2>2, UserDeleted
  <2>3. CASE UNCHANGED user
    BY <2>3
  <2>4. CASE \/ PlatformsNext /\ UNCHANGED <<accountVars, libraryVars>>
             \/ LibraryNext /\ UNCHANGED <<accountVars, platformVars>>
             \/ Crash
    BY <2>3, <2>4 DEF accountVars, Crash, RequestsCrash
  <2> QED BY <2>1, <2>2, <2>4 DEF Next
<1> QED BY <1>1, ServicesInvariant, PTL DEF Spec, LossesAreOwn
=============================================================================
