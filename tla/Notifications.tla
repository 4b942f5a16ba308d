---------------------------- MODULE Notifications ----------------------------
(***************************************************************************)
(* Notifications, the WebSocket connections they are pushed to, and the    *)
(* reports whose resolution is notified.                                   *)
(*                                                                         *)
(*   NotificationService, NotificationsGateway                             *)
(*   ReportService                                                         *)
(*                                                                         *)
(* The row of a notification is in PostgreSQL; the handler that creates    *)
(* and pushes it, and the gateway's map of sockets, are in memory.  An     *)
(* event is emitted to its handler at once, so the two are one step up to  *)
(* the handler's first await.                                              *)
(***************************************************************************)
EXTENDS Naturals, Functions

CONSTANTS
    Users,
    Admins,         \* the users whose role is administrator
    Notes,          \* ids of notifications
    Reports,        \* ids of reports
    Sockets,        \* ids of WebSocket connections
    Handlers,       \* bound: event handlers and requests in progress
    None            \* no user, notification or report

ASSUME NotificationsAssumption ==
    /\ Admins \subseteq Users
    /\ None \notin Users \cup Notes \cup Reports

VARIABLES
    users,              \* the rows of User
    note,               \* Notification rows
    report,             \* Report rows
    handler,            \* what is notifying somebody
    socket,             \* the connections: a run of handleConnection and its client
    connectedClients,   \* the gateway's map
    dropped             \* history: the reports a resolution of which was lost

vars == <<users, note, report, handler, socket, connectedClients, dropped>>

-----------------------------------------------------------------------------
Types == {"activity", "report_created", "report_resolved", "TEST_NOTIFICATION"}

NoteRow  == [state : {"none", "live", "deleted"}, userId : Users \cup {None},
             type : Types, report : Reports \cup {None}, isRead : BOOLEAN]
NoNote   == [state |-> "none", userId |-> None, type |-> "activity",
             report |-> None, isRead |-> FALSE]

ReportRow == [status : {"none", "PENDING", "RESOLVED", "DISMISSED", "deleted"},
              reporterId : Users \cup {None}, resolved : BOOLEAN]  \* resolvedAt is set
NoReport  == [status |-> "none", reporterId |-> None, resolved |-> FALSE]

\* pc: "admins" of createReport, "checking" of handleReportResolved, the others
\* of createAndPush
Handler == [pc : {"idle", "admins", "checking", "creating", "pushing"},
            to : Users \cup {None}, type : Types,
            report : Reports \cup {None}, note : Notes \cup {None}]
Idle    == [pc |-> "idle", to |-> None, type |-> "activity",
            report |-> None, note |-> None]

\* pc: "verifying" the token, "listed" in the map, "queried" what is undelivered,
\* "open" when handleConnection is done.  got: what this connection was sent.
Socket   == [pc : {"off", "verifying", "listed", "queried", "open", "closed"},
             user : Users \cup {None}, connected : BOOLEAN, late : BOOLEAN,
             undelivered : SUBSET Notes, got : SUBSET Notes]
NoSocket == [pc |-> "off", user |-> None, connected |-> FALSE, late |-> FALSE,
             undelivered |-> {}, got |-> {}]
Closed   == [NoSocket EXCEPT !.pc = "closed"]

(* Every variable has its type, and what is in progress is about somebody. *)
TypeOK ==
    /\ users \subseteq Users
    /\ note \in [Notes -> NoteRow]
    /\ report \in [Reports -> ReportRow]
    /\ handler \in [Handlers -> Handler]
    /\ socket \in [Sockets -> Socket]
    /\ connectedClients \in [Users -> SUBSET Sockets]
    /\ dropped \subseteq Reports
    /\ \A h \in Handlers :
         /\ handler[h].pc # "idle" => handler[h].to \in Users
         /\ handler[h].pc = "pushing" => handler[h].note \in Notes
         /\ handler[h].type = "report_resolved" => handler[h].report \in Reports
    /\ \A r \in Reports :
         report[r].status \notin {"none", "deleted"} => report[r].reporterId \in Users
    /\ \A s \in Sockets : socket[s].pc \notin {"off", "closed"} => socket[s].user \in Users

Init ==
    /\ users = Users
    /\ note = [n \in Notes |-> NoNote]
    /\ report = [r \in Reports |-> NoReport]
    /\ handler = [h \in Handlers |-> Idle]
    /\ socket = [s \in Sockets |-> NoSocket]
    /\ connectedClients = [u \in Users |-> {}]
    /\ dropped = {}

-----------------------------------------------------------------------------
(* The gateway.                                                            *)

Undelivered(u) == {n \in Notes : /\ note[n].state = "live"
                                 /\ note[n].userId = u
                                 /\ ~note[n].isRead}

\* The handshake: handleConnection starts to verify the token.
Connect(s, u) ==
    /\ socket[s].pc = "off"
    /\ socket' = [socket EXCEPT ![s] = [@ EXCEPT !.pc = "verifying", !.user = u,
                                                 !.connected = TRUE]]
    /\ UNCHANGED <<users, note, report, handler, connectedClients, dropped>>

\* The client is registered before its undelivered notifications are read.  It
\* is registered as well if it has gone in the meantime.
Register(s) ==
    /\ socket[s].pc = "verifying"
    /\ connectedClients' = [connectedClients EXCEPT ![socket[s].user] = @ \cup {s}]
    /\ socket' = [socket EXCEPT ![s].pc = "listed", ![s].late = ~socket[s].connected]
    /\ UNCHANGED <<users, note, report, handler, dropped>>

\* Mutation: one of the undelivered notifications is read.
QueryFirst(s) ==
    /\ socket[s].pc = "listed"
    /\ socket' = [socket EXCEPT ![s].pc = "queried",
                    ![s].undelivered = {n \in Undelivered(socket[s].user) :
                       n = CHOOSE m \in Undelivered(socket[s].user) : TRUE}]
    /\ UNCHANGED <<users, note, report, handler, connectedClients, dropped>>

QueryUndelivered(s) ==
    /\ socket[s].pc = "listed"
    /\ socket' = [socket EXCEPT ![s].pc = "queried",
                                ![s].undelivered = Undelivered(socket[s].user)]
    /\ UNCHANGED <<users, note, report, handler, connectedClients, dropped>>

SendUndelivered(s) ==
    /\ socket[s].pc = "queried"
    /\ socket' = [socket EXCEPT ![s] =
                     [@ EXCEPT !.pc = "open", !.undelivered = {},
                               !.got = IF socket[s].connected
                                       THEN socket[s].got \cup socket[s].undelivered
                                       ELSE {}]]
    /\ UNCHANGED <<users, note, report, handler, connectedClients, dropped>>

\* The map once handleDisconnect has been called for s.
Unlisted(s) == [u \in Users |-> connectedClients[u] \ {s}]

\* Mutation: all connections of the user are taken off the map.
DisconnectUser(s) ==
    /\ socket[s].connected
    /\ socket' = [socket EXCEPT ![s] = Closed]
    /\ connectedClients' = [connectedClients EXCEPT ![socket[s].user] = {}]
    /\ UNCHANGED <<users, note, report, handler, dropped>>

\* Mutation: only a connection that is open is taken off the map.
DisconnectWhenOpen(s) ==
    /\ socket[s].connected
    /\ socket' = [socket EXCEPT ![s] = IF @.pc = "open" THEN Closed
                        ELSE [@ EXCEPT !.connected = FALSE, !.got = {}]]
    /\ connectedClients' = IF socket[s].pc = "open" THEN Unlisted(s)
                           ELSE connectedClients
    /\ UNCHANGED <<users, note, report, handler, dropped>>

\* The client goes.
Disconnect(s) ==
    /\ socket[s].connected
    /\ socket' = [socket EXCEPT ![s] = IF @.pc = "open" THEN Closed
                        ELSE [@ EXCEPT !.connected = FALSE, !.got = {}]]
    /\ connectedClients' = Unlisted(s)
    /\ UNCHANGED <<users, note, report, handler, dropped>>

\* The token is not valid, or the query fails: client.disconnect() and return.
RefuseConnection(s) ==
    /\ socket[s].pc \in {"verifying", "listed"}
    /\ socket' = [socket EXCEPT ![s] = IF s \in connectedClients[@.user] /\ ~@.connected
                        THEN [@ EXCEPT !.pc = "closed"] ELSE Closed]
    /\ connectedClients' = IF socket[s].connected THEN Unlisted(s) ELSE connectedClients
    /\ UNCHANGED <<users, note, report, handler, dropped>>

Connection(s) == Register(s) \/ QueryUndelivered(s) \/ SendUndelivered(s)

Connected(u) == {s \in connectedClients[u] : socket[s].connected}

\* The sockets of u that are gone are taken off the map; the others are sent what.
SendToUser(u, what) ==
    /\ connectedClients' = [connectedClients EXCEPT ![u] = Connected(u)]
    /\ socket' = [s \in Sockets |->
                    IF s \in Connected(u)
                    THEN [socket[s] EXCEPT !.got = @ \cup what] ELSE socket[s]]

\* sendDebugPing of the controller's debug endpoint.
Ping(u) ==
    /\ SendToUser(u, {})
    /\ UNCHANGED <<users, note, report, handler, dropped>>

-----------------------------------------------------------------------------
(* The service.                                                            *)

\* A like, a comment, a follow or a post of from emits push-notification.
PushNotification(h, from, to) ==
    /\ handler[h].pc = "idle"
    /\ from # to
    /\ handler' = [handler EXCEPT ![h] = [Idle EXCEPT !.pc = "creating", !.to = to]]
    /\ UNCHANGED <<users, note, report, socket, connectedClients, dropped>>

SendTestNotification(h, u) ==
    /\ handler[h].pc = "idle"
    /\ handler' = [handler EXCEPT ![h] = [Idle EXCEPT !.pc = "creating", !.to = u,
                                                      !.type = "TEST_NOTIFICATION"]]
    /\ UNCHANGED <<users, note, report, socket, connectedClients, dropped>>

\* Mutation: any resolution the user was told of counts as this one.
DuplicatesOfType(to, r) ==
    {n \in Notes : /\ note[n].state = "live"
                   /\ note[n].userId = to
                   /\ note[n].type = "report_resolved"}

\* handleReportResolved looks for a notification of this report.  It looks for
\* the type REPORT_RESOLVED and creates report_resolved.
Duplicates(to, r) ==
    {n \in Notes : /\ note[n].state = "live"
                   /\ note[n].userId = to
                   /\ note[n].type = "REPORT_RESOLVED"
                   /\ note[n].report = r}

CheckDuplicate(h) ==
    /\ handler[h].pc = "checking"
    /\ handler' = [handler EXCEPT ![h] =
                     IF Duplicates(handler[h].to, handler[h].report) # {}
                     THEN Idle ELSE [@ EXCEPT !.pc = "creating"]]
    /\ UNCHANGED <<users, note, report, socket, connectedClients, dropped>>

\* The insert, which the foreign key refuses for a user that is gone.
CreateNotification(h, n) ==
    /\ handler[h].pc = "creating"
    /\ handler[h].to \in users
    /\ note[n].state = "none"
    /\ note' = [note EXCEPT ![n] = [state |-> "live", userId |-> handler[h].to,
                                    type |-> handler[h].type,
                                    report |-> handler[h].report, isRead |-> FALSE]]
    /\ handler' = [handler EXCEPT ![h].pc = "pushing", ![h].note = n]
    /\ UNCHANGED <<users, report, socket, connectedClients, dropped>>

Push(h) ==
    /\ handler[h].pc = "pushing"
    /\ SendToUser(handler[h].to, {handler[h].note})
    /\ handler' = [handler EXCEPT ![h] = Idle]
    /\ UNCHANGED <<users, note, report, dropped>>

\* The resolutions that nobody learns of when the handlers hs end.
Lost(hs) == {handler[h].report : h \in {g \in hs : /\ handler[g].type = "report_resolved"
                                                   /\ handler[g].pc # "pushing"}}

\* A query or the insert throws; the error is logged.
HandlerFails(h) ==
    /\ handler[h].pc \in {"admins", "checking", "creating"}
    /\ handler' = [handler EXCEPT ![h] = Idle]
    /\ dropped' = dropped \cup Lost({h})
    /\ UNCHANGED <<users, note, report, socket, connectedClients>>

MarkAsRead(n) ==
    /\ note[n].state = "live"
    /\ note' = [note EXCEPT ![n].isRead = TRUE]
    /\ UNCHANGED <<users, report, handler, socket, connectedClients, dropped>>

MarkAllAsRead(u) ==
    /\ note' = [n \in Notes |-> IF n \in Undelivered(u)
                                THEN [note[n] EXCEPT !.isRead = TRUE] ELSE note[n]]
    /\ UNCHANGED <<users, report, handler, socket, connectedClients, dropped>>

-----------------------------------------------------------------------------
(* Reports.                                                                *)

CreateReport(h, r, u) ==
    /\ handler[h].pc = "idle"
    /\ u \in users
    /\ report[r].status = "none"
    /\ report' = [report EXCEPT ![r] = [status |-> "PENDING", reporterId |-> u,
                                        resolved |-> FALSE]]
    /\ handler' = [handler EXCEPT ![h] = [Idle EXCEPT !.pc = "admins", !.to = u,
                                                      !.report = r]]
    /\ UNCHANGED <<users, note, socket, connectedClients, dropped>>

\* Every administrator but the reporter is notified: one handler each, this one
\* being free again.  The event without a recipient that follows is dropped by
\* shouldSendNotification.
NotifyAdmins(h) ==
    /\ handler[h].pc = "admins"
    /\ LET free == {g \in Handlers : handler[g].pc = "idle"} \cup {h}
       IN  \E handlerOf \in Injection((Admins \cap users) \ {handler[h].to}, free) :
             handler' = [g \in Handlers |->
               IF \E a \in DOMAIN handlerOf : handlerOf[a] = g
               THEN [pc |-> "creating", type |-> "report_created",
                     to |-> CHOOSE a \in DOMAIN handlerOf : handlerOf[a] = g,
                     report |-> handler[h].report, note |-> None]
               ELSE IF g = h THEN Idle ELSE handler[g]]
    /\ UNCHANGED <<users, note, report, socket, connectedClients, dropped>>

\* Any status, RESOLVED included; nobody is told.
UpdateReportStatus(r, status) ==
    /\ report[r].status \notin {"none", "deleted"}
    /\ report' = [report EXCEPT ![r].status = status]
    /\ UNCHANGED <<users, note, handler, socket, connectedClients, dropped>>

\* Mutation: a report that is not there is resolved.
ResolveMissing(h, r) ==
    /\ handler[h].pc = "idle"
    /\ report[r].status # "deleted"
    /\ report' = [report EXCEPT ![r].status = "RESOLVED", ![r].resolved = TRUE]
    /\ handler' = [handler EXCEPT ![h] = [Idle EXCEPT !.pc = "checking",
                     !.to = report[r].reporterId, !.type = "report_resolved",
                     !.report = r]]
    /\ UNCHANGED <<users, note, socket, connectedClients, dropped>>

\* A report that is resolved can be resolved again.
ResolveReport(h, r) ==
    /\ handler[h].pc = "idle"
    /\ report[r].status \notin {"none", "deleted"}
    /\ report' = [report EXCEPT ![r].status = "RESOLVED", ![r].resolved = TRUE]
    /\ handler' = [handler EXCEPT ![h] = [Idle EXCEPT !.pc = "checking",
                     !.to = report[r].reporterId, !.type = "report_resolved",
                     !.report = r]]
    /\ UNCHANGED <<users, note, socket, connectedClients, dropped>>

-----------------------------------------------------------------------------
\* The account is deleted; its notifications and reports go with it.
DeleteUser(u) ==
    /\ u \in users
    /\ users' = users \ {u}
    /\ note' = [n \in Notes |-> IF note[n].userId = u
                                THEN [NoNote EXCEPT !.state = "deleted"] ELSE note[n]]
    /\ report' = [r \in Reports |-> IF report[r].reporterId = u
                                    THEN [NoReport EXCEPT !.status = "deleted"]
                                    ELSE report[r]]
    /\ UNCHANGED <<handler, socket, connectedClients, dropped>>

\* The server restarts: handlers, map and connections are gone.
Crash ==
    /\ dropped' = dropped \cup Lost(Handlers)
    /\ handler' = [h \in Handlers |-> Idle]
    /\ connectedClients' = [u \in Users |-> {}]
    /\ socket' = [s \in Sockets |->
                    IF socket[s].pc = "off" THEN NoSocket ELSE Closed]
    /\ UNCHANGED <<users, note, report>>

Next ==
    \/ \E s \in Sockets, u \in Users : Connect(s, u)
    \/ \E s \in Sockets : Connection(s) \/ Disconnect(s) \/ RefuseConnection(s)
    \/ \E u \in Users : Ping(u) \/ MarkAllAsRead(u) \/ DeleteUser(u)
    \/ \E h \in Handlers, from \in Users, to \in Users : PushNotification(h, from, to)
    \/ \E h \in Handlers, u \in Users : SendTestNotification(h, u)
    \/ \E h \in Handlers, n \in Notes : CreateNotification(h, n)
    \/ \E h \in Handlers : CheckDuplicate(h) \/ Push(h) \/ HandlerFails(h)
    \/ \E h \in Handlers : NotifyAdmins(h)
    \/ \E n \in Notes : MarkAsRead(n)
    \/ \E h \in Handlers, r \in Reports, u \in Users : CreateReport(h, r, u)
    \/ \E h \in Handlers, r \in Reports : ResolveReport(h, r)
    \/ \E r \in Reports, status \in {"PENDING", "RESOLVED", "DISMISSED"} :
         UpdateReportStatus(r, status)
    \/ Crash

\* The event loop runs what is ready.
Fairness ==
    /\ \A s \in Sockets : WF_vars(Connection(s))
    /\ \A h \in Handlers : WF_vars(Push(h))

Spec == Init /\ [][Next]_vars /\ Fairness

-----------------------------------------------------------------------------
(* Properties.                                                             *)

BeingPushed == {handler[h].note : h \in {g \in Handlers : handler[g].pc = "pushing"}}

(* A connection that handleConnection is done with has been sent every      *)
(* notification of its user that is not read, whenever it was created: by   *)
(* handleConnection if before, by createAndPush if later; none falls        *)
(* between the query and the registration.                                  *)
NothingMissed ==
    \A s \in Sockets :
      socket[s].pc = "open" /\ socket[s].connected =>
        Undelivered(socket[s].user) \subseteq socket[s].got \cup BeingPushed

(* getUserConnectionStatus tells that a user is connected only if a         *)
(* connection of that user is open, or was closed while its token was       *)
(* verified, which handleDisconnect cannot notice.                          *)
ConnectionStatusIsHonest ==
    \A u \in Users : \A s \in connectedClients[u] :
      socket[s].user = u /\ (socket[s].connected \/ socket[s].late)

Announced(r) ==
    \/ \E n \in Notes : /\ note[n].state = "live"
                        /\ note[n].type = "report_resolved"
                        /\ note[n].report = r
                        /\ note[n].userId = report[r].reporterId
    \/ \E h \in Handlers : /\ handler[h].type = "report_resolved"
                           /\ handler[h].report = r

(* The reporter of a report that resolveReport resolved is notified, or     *)
(* will be, unless an error or a restart lost the event.                    *)
ResolutionsAreAnnounced ==
    \A r \in Reports \ dropped : report[r].resolved => Announced(r)

(* A notification that is not read reaches every connection of its user     *)
(* that stays.                                                              *)
UnreadArrive ==
    \A s \in Sockets, n \in Notes :
      (socket[s].connected /\ n \in Undelivered(socket[s].user))
        ~> \/ n \in socket[s].got
           \/ ~socket[s].connected
           \/ n \notin Undelivered(socket[s].user)
=============================================================================
