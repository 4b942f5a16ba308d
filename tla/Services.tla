------------------------------ MODULE Services ------------------------------
(***************************************************************************)
(* Accounts with the tables whose rows hang on User: Platforms and Library.*)
(* The deletion of a user and the restart of the process are steps of all  *)
(* three; every other step is one of theirs.                               *)
(***************************************************************************)
EXTENDS Platforms, Library

vars == <<accountVars, platformVars, libraryVars>>

TypeOK == AccountsType /\ PlatformsType /\ LibraryType

Init == AccountsInit /\ PlatformsInit /\ LibraryInit

\* The transaction of deleteUserById: ON DELETE CASCADE does the rest.
DeleteUserRow(r) ==
    /\ DeleteRow(r)
    /\ DropPlatformsOfUser(request[r].user)
    /\ DropLibraryOfUser(request[r].user)

Crash == RequestsCrash /\ CallbacksCrash /\ VisitsCrash

Next ==
    \/ \E r \in Requests : AccountStep(r) /\ UNCHANGED <<platformVars, libraryVars>>
    \/ \E r \in Requests : DeleteUserRow(r)
    \/ PlatformsNext /\ UNCHANGED <<accountVars, libraryVars>>
    \/ LibraryNext /\ UNCHANGED <<accountVars, platformVars>>
    \/ Crash

Spec == Init /\ [][Next]_vars
=============================================================================
