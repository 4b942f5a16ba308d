------------------------------ MODULE Accounts ------------------------------
(***************************************************************************)
(* The accounts of users: the rows of User with their plan, and what       *)
(* Firebase Auth knows of them.                                            *)
(*                                                                         *)
(*   AuthService        signup, login, loginAdmin                          *)
(*   UserService        updateUserProfile                                  *)
(*   UserAdminService   createUserByAdmin, updateUserByAdmin,              *)
(*                      deleteUserById, deleteUsers                        *)
(*                                                                         *)
(* The email stands for both unique fields of a row, email and username;   *)
(* everything else in it is data.  Services composes this module with the  *)
(* tables whose rows hang on User.                                         *)
(***************************************************************************)
EXTENDS Naturals, FiniteSets

CONSTANTS
    Users,          \* Firebase uids
    Emails,
    Requests,       \* bound: requests about accounts in progress
    None

VARIABLES
    firebase,       \* the accounts of Firebase Auth
    user,           \* the rows of User
    signedIn,       \* the users who hold an access token
    request,
    stranded,       \* history: users whose row may lack a Firebase account
    byAdmin         \* history: users whose row an administrator created

accountVars == <<firebase, user, signedIn, request, stranded, byAdmin>>

\* plan: the row has its UserAccess and UserUsage.
UserRow == [email : Emails, plan : BOOLEAN]

ASSUME AccountsAssumption == None \notin Users \cup Emails \cup UserRow

\* email: the one asked for.  todo: who else deleteUsers is to delete.
RequestType ==
    [pc : {"idle", "signup", "checkNew", "create", "checkEmail", "update",
           "firebase", "rows", "tokens"},
     user : Users \cup {None}, email : Emails \cup {None}, todo : SUBSET Users]
AboutEmail == {"signup", "checkNew", "create", "checkEmail", "update"}
NoRequest == [pc |-> "idle", user |-> None, email |-> None, todo |-> {}]

AccountsType ==
    /\ firebase \subseteq Users
    /\ user \in [Users -> UserRow \cup {None}]
    /\ \A u, w \in Users : user[u] # None /\ user[w] # None /\ u # w
                             => user[u].email # user[w].email
    /\ signedIn \subseteq Users
    /\ request \in [Requests -> RequestType]
    /\ \A r \in Requests : request[r].pc # "idle" => request[r].user \in Users
    /\ \A r \in Requests : request[r].pc \in AboutEmail => request[r].email \in Emails
    /\ stranded \subseteq Users /\ byAdmin \subseteq Users

(* The users have registered with Firebase, in the client.                  *)
AccountsInit ==
    /\ firebase = Users
    /\ user = [u \in Users |-> None]
    /\ signedIn = {}
    /\ request = [r \in Requests |-> NoRequest]
    /\ stranded = {} /\ byAdmin = {}

-----------------------------------------------------------------------------
HasAccount(u)  == user[u] # None
Taken(e)       == \E u \in Users : HasAccount(u) /\ user[u].email = e
TakenFrom(u, e) == \E w \in Users \ {u} : HasAccount(w) /\ user[w].email = e

Begin(r, pc, u, e) ==
    /\ request[r].pc = "idle"
    /\ request' = [request EXCEPT ![r] = [NoRequest EXCEPT !.pc = pc, !.user = u, !.email = e]]
    /\ UNCHANGED <<firebase, user, signedIn, stranded, byAdmin>>

Continue(r, pc) == request' = [request EXCEPT ![r].pc = pc]
End(r)          == request' = [request EXCEPT ![r] = NoRequest]

\* A row made without a look at Firebase.
Insert(u, row) ==
    /\ user' = [user EXCEPT ![u] = row]
    /\ stranded' = IF u \in firebase THEN stranded ELSE stranded \cup {u}

(* signup, up to the reads; who has a row is told so.                       *)
Signup(r, u, e) == ~HasAccount(u) /\ Begin(r, "signup", u, e)

\* Mutation: the row, the access and the usage are written one by one.
CreateWithoutTransaction(r) ==
    LET u == request[r].user IN
    /\ request[r].pc = "signup"
    /\ End(r)
    /\ \/ \E plan \in BOOLEAN :
            /\ ~HasAccount(u) /\ ~Taken(request[r].email)
            /\ Insert(u, [email |-> request[r].email, plan |-> plan])
       \/ UNCHANGED <<user, stranded>>
    /\ UNCHANGED <<firebase, signedIn, byAdmin>>

(* The transaction of signup: the row with its role, access and usage.      *)
CreateSignedUp(r) ==
    LET u == request[r].user IN
    /\ request[r].pc = "signup"
    /\ End(r)
    /\ \/ /\ ~HasAccount(u) /\ ~Taken(request[r].email)
          /\ Insert(u, [email |-> request[r].email, plan |-> TRUE])
       \/ UNCHANGED <<user, stranded>>       \* not unique, or the database fails
    /\ UNCHANGED <<firebase, signedIn, byAdmin>>

(* createUserByAdmin: the id, the unique fields, the row.                   *)
CreateUserByAdmin(r, u, e) == ~HasAccount(u) /\ Begin(r, "checkNew", u, e)

CheckNewUser(r) ==
    /\ request[r].pc = "checkNew"
    /\ IF Taken(request[r].email) THEN End(r) ELSE Continue(r, "create")
    /\ UNCHANGED <<firebase, user, signedIn, stranded, byAdmin>>

CreateForAdmin(r) ==
    LET u == request[r].user IN
    /\ request[r].pc = "create"
    /\ End(r)
    /\ \/ /\ ~HasAccount(u) /\ ~Taken(request[r].email)
          /\ Insert(u, [email |-> request[r].email, plan |-> FALSE])
          /\ byAdmin' = byAdmin \cup {u}
       \/ UNCHANGED <<user, stranded, byAdmin>>
    /\ UNCHANGED <<firebase, signedIn>>

(* updateUserProfile and updateUserByAdmin, for a change of a unique field. *)
UpdateUser(r, u, e) ==
    /\ HasAccount(u) /\ e # user[u].email
    /\ Begin(r, "checkEmail", u, e)

CheckEmail(r) ==
    /\ request[r].pc = "checkEmail"
    /\ IF TakenFrom(request[r].user, request[r].email) THEN End(r) ELSE Continue(r, "update")
    /\ UNCHANGED <<firebase, user, signedIn, stranded, byAdmin>>

WriteUser(r) ==
    LET u == request[r].user IN
    /\ request[r].pc = "update"
    /\ End(r)
    /\ \/ /\ HasAccount(u) /\ ~TakenFrom(u, request[r].email)
          /\ user' = [user EXCEPT ![u].email = request[r].email]
       \/ UNCHANGED user                     \* P2025, P2002
    /\ UNCHANGED <<firebase, signedIn, stranded, byAdmin>>

(* login: the tokens are signed for the row that was read, and handed out   *)
(* although the refresh token finds no row to be stored in.                 *)
Login(r, u) == HasAccount(u) /\ Begin(r, "tokens", u, None)

GetTokens(r) ==
    /\ request[r].pc = "tokens"
    /\ End(r)
    /\ signedIn' = signedIn \cup {request[r].user}
    /\ UNCHANGED <<firebase, user, stranded, byAdmin>>

\* loginAdmin has no such tolerance; a database may fail in either.
LoginFails(r) ==
    /\ request[r].pc = "tokens"
    /\ End(r)
    /\ UNCHANGED <<firebase, user, signedIn, stranded, byAdmin>>

-----------------------------------------------------------------------------
(* Deletion, in the order deleteUsers is given.                             *)
DeleteUsers(r, S) ==
    \E u \in S :
      /\ request[r].pc = "idle"
      /\ request' = [request EXCEPT ![r] = [NoRequest EXCEPT !.pc = "firebase", !.user = u,
                                                             !.todo = S \ {u}]]
      /\ UNCHANGED <<firebase, user, signedIn, stranded, byAdmin>>

\* An error of one deletion does not end the others.
NextDeletion(r) ==
    \/ request[r].todo = {} /\ End(r)
    \/ \E u \in request[r].todo :
         request' = [request EXCEPT ![r].pc = "firebase", ![r].user = u, ![r].todo = @ \ {u}]

DeleteFromFirebase(r) ==
    LET u == request[r].user IN
    /\ request[r].pc = "firebase"
    /\ firebase' = firebase \ {u}            \* a missing account is passed over
    /\ Continue(r, "rows")
    /\ UNCHANGED <<user, signedIn, stranded, byAdmin>>

\* Another error of Firebase, which may have deleted the account all the same.
FirebaseFails(r) ==
    LET u == request[r].user IN
    /\ request[r].pc = "firebase"
    /\ \/ UNCHANGED <<firebase, stranded>>
       \/ firebase' = firebase \ {u} /\ stranded' = stranded \cup {u}
    /\ NextDeletion(r)
    /\ UNCHANGED <<user, signedIn, byAdmin>>

(* The transaction commits; the row takes with it all that hangs on it.     *)
DeleteRow(r) ==
    LET u == request[r].user IN
    /\ request[r].pc = "rows"
    /\ HasAccount(u)
    /\ user' = [user EXCEPT ![u] = None]
    /\ stranded' = stranded \ {u} /\ byAdmin' = byAdmin \ {u}
    /\ NextDeletion(r)
    /\ UNCHANGED <<firebase, signedIn>>

RowMissing(r) ==
    /\ request[r].pc = "rows"
    /\ ~HasAccount(request[r].user)
    /\ NextDeletion(r)
    /\ UNCHANGED <<firebase, user, signedIn, stranded, byAdmin>>

\* Mutation: a transaction that fails passes for a user who has no row.
DeletionFailsQuietly(r) ==
    /\ request[r].pc = "rows"
    /\ NextDeletion(r)
    /\ UNCHANGED <<firebase, user, signedIn, stranded, byAdmin>>

DeletionFails(r) ==
    /\ request[r].pc = "rows"
    /\ stranded' = stranded \cup {request[r].user}
    /\ NextDeletion(r)
    /\ UNCHANGED <<firebase, user, signedIn, byAdmin>>

-----------------------------------------------------------------------------
RequestsCrash ==
    /\ request' = [r \in Requests |-> NoRequest]
    /\ stranded' = stranded \cup {request[r].user : r \in {q \in Requests : request[q].pc = "rows"}}
    /\ UNCHANGED <<firebase, user, signedIn, byAdmin>>

\* All steps but DeleteRow and RequestsCrash, which concern other tables.
AccountStep(r) ==
    \/ \E u \in Users, e \in Emails :
         Signup(r, u, e) \/ CreateUserByAdmin(r, u, e) \/ UpdateUser(r, u, e)
    \/ \E u \in Users : Login(r, u)
    \/ \E S \in SUBSET Users : DeleteUsers(r, S)
    \/ CreateSignedUp(r) \/ CheckNewUser(r) \/ CreateForAdmin(r)
    \/ CheckEmail(r) \/ WriteUser(r)
    \/ GetTokens(r) \/ LoginFails(r)
    \/ DeleteFromFirebase(r) \/ FirebaseFails(r) \/ RowMissing(r) \/ DeletionFails(r)

-----------------------------------------------------------------------------
(* Firebase and the database are two stores that no transaction spans.  The *)
(* row of a user whose Firebase account deleteUserById has deleted is gone  *)
(* too, once the deletion has answered without an error, unless the row was *)
(* made again afterwards: the error is the only trace that a half is left.  *)
RowsHaveFirebase ==
    \A u \in Users :
      HasAccount(u) /\ u \notin firebase =>
        \/ u \in stranded
        \/ \E r \in Requests : request[r].pc = "rows" /\ request[r].user = u

(* Only an administrator makes a user without a plan and credits.  (Such a  *)
(* user who signs up is told to have an account, and never gets a plan.)    *)
PlanFollowsUser ==
    \A u \in Users : HasAccount(u) /\ ~user[u].plan => u \in byAdmin
=============================================================================
