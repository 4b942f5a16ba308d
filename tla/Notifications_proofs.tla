------------------------ MODULE Notifications_proofs ------------------------
(***************************************************************************)
(* Proofs about Notifications: types, that no connection misses a          *)
(* notification, what the gateway's map says, and that resolutions are     *)
(* announced.                                                              *)
(***************************************************************************)
EXTENDS Notifications, TLAPS

-----------------------------------------------------------------------------
(* The invariant.                                                          *)

\* The map holds connections that are past their verification, under their
\* user, and every one of those that is still connected.
GatewayInv ==
    /\ \A u \in Users : \A s \in connectedClients[u] :
         /\ socket[s].pc \notin {"off", "verifying"}
         /\ socket[s].user = u
         /\ socket[s].connected \/ socket[s].late
    /\ \A s \in Sockets :
         socket[s].connected =>
           /\ socket[s].pc \notin {"off", "closed"}
           /\ socket[s].pc # "verifying" => s \in connectedClients[socket[s].user]

\* What a connection has not been sent, it is about to be.
DeliveryInv ==
    \A s \in Sockets :
      socket[s].connected /\ socket[s].pc \in {"queried", "open"} =>
        \A n \in Undelivered(socket[s].user) :
          n \in socket[s].got \cup socket[s].undelivered \cup BeingPushed

\* A handler that pushes has created what it pushes, unless the user has been
\* deleted since.
PushInv ==
    \A h \in Handlers :
      /\ handler[h].pc = "pushing" =>
           \/ handler[h].to \notin users /\ note[handler[h].note].state = "deleted"
           \/ /\ note[handler[h].note].state = "live"
              /\ note[handler[h].note].userId = handler[h].to
              /\ note[handler[h].note].type = handler[h].type
              /\ note[handler[h].note].report = handler[h].report
      /\ handler[h].pc \in {"idle", "admins"} => handler[h].type = "activity"

\* Reports belong to users that exist, and their resolutions are told to those.
ReportInv ==
    /\ \A r \in Reports :
         /\ report[r].status \notin {"none", "deleted"} => report[r].reporterId \in users
         /\ report[r].status \in {"none", "deleted"} => ~report[r].resolved
    /\ \A h \in Handlers :
         handler[h].type = "report_resolved" =>
           \/ report[handler[h].report].status = "deleted"
           \/ /\ report[handler[h].report].status # "none"
              /\ report[handler[h].report].reporterId = handler[h].to

OpenInv == \A s \in Sockets : socket[s].pc = "open" => socket[s].undelivered = {}

NotificationsInv ==
    /\ TypeOK
    /\ GatewayInv
    /\ DeliveryInv
    /\ OpenInv
    /\ PushInv
    /\ ReportInv
    /\ ResolutionsAreAnnounced

-----------------------------------------------------------------------------
(* Types.                                                                  *)

\* The constant records have their types.
LEMMA ConstantTypes ==
    /\ NoNote \in NoteRow /\ NoReport \in ReportRow /\ Idle \in Handler
    /\ NoSocket \in Socket /\ Closed \in Socket
    /\ Closed.pc = "closed" /\ ~Closed.connected /\ Closed.undelivered = {}
    /\ Idle.pc = "idle" /\ Idle.type = "activity"
BY DEF NoNote, NoteRow, NoReport, ReportRow, Idle, Handler, NoSocket, Closed,
       Socket, Types

\* Every step keeps the types.
LEMMA TypeStep ==
    ASSUME TypeOK, [Next]_vars
    PROVE  TypeOK'
<1> USE NotificationsAssumption, ConstantTypes DEF TypeOK
<1>1. ASSUME NEW s \in Sockets, NEW u \in Users, Connect(s, u) PROVE TypeOK'
  <2>1. [socket[s] EXCEPT !.pc = "verifying", !.user = u, !.connected = TRUE] \in Socket
    BY DEF Socket
  <2>2. socket' \in [Sockets -> Socket]
    BY <1>1, <2>1 DEF Connect
  <2> QED
    BY <1>1, <2>2 DEF Connect, Socket
<1>2. ASSUME NEW s \in Sockets, Register(s) PROVE TypeOK'
  BY <1>2 DEF Register, Socket
<1>3. ASSUME NEW s \in Sockets, QueryUndelivered(s) PROVE TypeOK'
  BY <1>3 DEF QueryUndelivered, Undelivered, Socket
<1>4. ASSUME NEW s \in Sockets, SendUndelivered(s) PROVE TypeOK'
  <2> DEFINE got == IF socket[s].connected
                    THEN socket[s].got \cup socket[s].undelivered ELSE {}
             sent == [socket[s] EXCEPT !.pc = "open", !.undelivered = {}, !.got = got]
  <2>1. got \in SUBSET Notes
    BY DEF Socket
  <2>2. sent \in Socket /\ sent.user = socket[s].user
    BY <2>1 DEF Socket
  <2>3. socket' = [socket EXCEPT ![s] = sent]
    BY <1>4 DEF SendUndelivered
  <2>4. socket' \in [Sockets -> Socket]
    BY <2>2, <2>3
  <2> QED
    BY <1>4, <2>2, <2>3, <2>4 DEF SendUndelivered, Socket
<1>5. ASSUME NEW s \in Sockets, Disconnect(s) PROVE TypeOK'
  BY <1>5 DEF Disconnect, Unlisted, Socket
<1>6. ASSUME NEW s \in Sockets, RefuseConnection(s) PROVE TypeOK'
  BY <1>6 DEF RefuseConnection, Unlisted, Socket
<1>7. ASSUME NEW u \in Users, Ping(u) PROVE TypeOK'
  BY <1>7 DEF Ping, SendToUser, Connected, Socket
<1>8. ASSUME NEW h \in Handlers, NEW from \in Users, NEW to \in Users,
             PushNotification(h, from, to)
      PROVE TypeOK'
  BY <1>8 DEF PushNotification, Handler
<1>9. ASSUME NEW h \in Handlers, NEW u \in Users, SendTestNotification(h, u) PROVE TypeOK'
  BY <1>9 DEF SendTestNotification, Handler, Types
<1>10. ASSUME NEW h \in Handlers, CheckDuplicate(h) PROVE TypeOK'
  BY <1>10 DEF CheckDuplicate, Handler
<1>11. ASSUME NEW h \in Handlers, NEW n \in Notes, CreateNotification(h, n) PROVE TypeOK'
  <2>1. note' \in [Notes -> NoteRow]
    BY <1>11 DEF CreateNotification, Handler, NoteRow
  <2>2. handler' \in [Handlers -> Handler]
    BY <1>11 DEF CreateNotification, Handler
  <2> QED
    BY <1>11, <2>1, <2>2 DEF CreateNotification, Handler
<1>12. ASSUME NEW h \in Handlers, Push(h) PROVE TypeOK'
  <2>1. socket' \in [Sockets -> Socket]
    <3>1. handler[h].note \in Notes
      BY <1>12 DEF Push
    <3>2. \A s \in Sockets :
            [socket[s] EXCEPT !.got = @ \cup {handler[h].note}] \in Socket
      BY <3>1 DEF Socket
    <3> QED
      BY <1>12, <3>2 DEF Push, SendToUser
  <2>2. \A s \in Sockets : socket'[s].pc = socket[s].pc /\ socket'[s].user = socket[s].user
    BY <1>12 DEF Push, SendToUser, Socket
  <2>3. connectedClients' \in [Users -> SUBSET Sockets]
    BY <1>12 DEF Push, SendToUser, Connected
  <2> QED
    BY <1>12, <2>1, <2>2, <2>3 DEF Push, Handler
<1>13. ASSUME NEW h \in Handlers, HandlerFails(h) PROVE TypeOK'
  BY <1>13 DEF HandlerFails, Lost, Handler
<1>14. ASSUME NEW n \in Notes, MarkAsRead(n) PROVE TypeOK'
  BY <1>14 DEF MarkAsRead, NoteRow
<1>15. ASSUME NEW u \in Users, MarkAllAsRead(u) PROVE TypeOK'
  BY <1>15 DEF MarkAllAsRead, NoteRow
<1>16. ASSUME NEW h \in Handlers, NEW r \in Reports, NEW u \in Users, CreateReport(h, r, u)
       PROVE TypeOK'
  BY <1>16 DEF CreateReport, ReportRow, Handler
<1>17. ASSUME NEW h \in Handlers, NotifyAdmins(h) PROVE TypeOK'
  BY <1>17 DEF NotifyAdmins, Handler, Types, Injection
<1>18. ASSUME NEW h \in Handlers, NEW r \in Reports, ResolveReport(h, r) PROVE TypeOK'
  BY <1>18 DEF ResolveReport, ReportRow, Handler, Types
<1>19. ASSUME NEW r \in Reports, NEW status \in {"PENDING", "RESOLVED", "DISMISSED"},
              UpdateReportStatus(r, status)
       PROVE TypeOK'
  BY <1>19 DEF UpdateReportStatus, ReportRow
<1>20. ASSUME NEW u \in Users, DeleteUser(u) PROVE TypeOK'
  BY <1>20 DEF DeleteUser, NoteRow, ReportRow
<1>21. ASSUME Crash PROVE TypeOK'
  <2>1. socket' \in [Sockets -> Socket]
    BY <1>21 DEF Crash
  <2>2. \A s \in Sockets : socket'[s].pc \in {"off", "closed"}
    BY <1>21 DEF Crash, NoSocket
  <2>3. dropped' \subseteq Reports
    BY <1>21 DEF Crash, Lost
  <2> QED
    BY <1>21, <2>1, <2>2, <2>3 DEF Crash
<1>22. ASSUME UNCHANGED vars PROVE TypeOK'
  BY <1>22 DEF vars
<1> QED
  BY <1>1, <1>2, <1>3, <1>4, <1>5, <1>6, <1>7, <1>8, <1>9, <1>10, <1>11, <1>12,
     <1>13, <1>14, <1>15, <1>16, <1>17, <1>18, <1>19, <1>20, <1>21, <1>22
  DEF Next, Connection

\* The map keeps what GatewayInv says of it.
LEMMA GatewayStep ==
    ASSUME TypeOK, GatewayInv, [Next]_vars
    PROVE  GatewayInv'
<1> USE ConstantTypes DEF GatewayInv, TypeOK
<1>1. ASSUME NEW s \in Sockets, NEW u \in Users, Connect(s, u) PROVE GatewayInv'
  BY <1>1 DEF Connect, Socket
<1>2. ASSUME NEW s \in Sockets, Register(s) PROVE GatewayInv'
  BY <1>2 DEF Register, Socket
<1>3. ASSUME NEW s \in Sockets, QueryUndelivered(s) PROVE GatewayInv'
  BY <1>3 DEF QueryUndelivered, Socket
<1>4. ASSUME NEW s \in Sockets, SendUndelivered(s) PROVE GatewayInv'
  BY <1>4 DEF SendUndelivered, Socket
<1>5. ASSUME NEW s \in Sockets, Disconnect(s) PROVE GatewayInv'
  BY <1>5 DEF Disconnect, Socket, Unlisted
<1>6. ASSUME NEW s \in Sockets, RefuseConnection(s) PROVE GatewayInv'
  BY <1>6 DEF RefuseConnection, Socket, Unlisted
<1>7. ASSUME NEW u \in Users, Ping(u) PROVE GatewayInv'
  BY <1>7 DEF Ping, SendToUser, Connected, Socket
<1>8. ASSUME NEW h \in Handlers, Push(h) PROVE GatewayInv'
  BY <1>8 DEF Push, SendToUser, Connected, Socket
<1>9. ASSUME Crash PROVE GatewayInv'
  BY <1>9 DEF Crash, NoSocket
<1>10. ASSUME UNCHANGED <<socket, connectedClients>> PROVE GatewayInv'
  BY <1>10
<1> QED
  BY <1>1, <1>2, <1>3, <1>4, <1>5, <1>6, <1>7, <1>8, <1>9, <1>10
  DEF Next, Connection, vars, PushNotification, SendTestNotification,
      CheckDuplicate, CreateNotification, HandlerFails, MarkAsRead, MarkAllAsRead,
      CreateReport, NotifyAdmins, ResolveReport, UpdateReportStatus, DeleteUser

\* A connection that is open has nothing left to send.
LEMMA OpenStep ==
    ASSUME TypeOK, OpenInv, [Next]_vars
    PROVE  OpenInv'
<1> USE ConstantTypes DEF OpenInv, TypeOK
<1>1. ASSUME NEW s \in Sockets, NEW u \in Users, Connect(s, u) PROVE OpenInv'
  BY <1>1 DEF Connect, Socket
<1>2. ASSUME NEW s \in Sockets, Register(s) PROVE OpenInv'
  BY <1>2 DEF Register, Socket
<1>3. ASSUME NEW s \in Sockets, QueryUndelivered(s) PROVE OpenInv'
  BY <1>3 DEF QueryUndelivered, Socket
<1>4. ASSUME NEW s \in Sockets, SendUndelivered(s) PROVE OpenInv'
  BY <1>4 DEF SendUndelivered, Socket
<1>5. ASSUME NEW s \in Sockets, Disconnect(s) PROVE OpenInv'
  BY <1>5 DEF Disconnect, Socket
<1>6. ASSUME NEW s \in Sockets, RefuseConnection(s) PROVE OpenInv'
  BY <1>6 DEF RefuseConnection, Socket
<1>7. ASSUME NEW u \in Users, Ping(u) PROVE OpenInv'
  BY <1>7 DEF Ping, SendToUser, Socket
<1>8. ASSUME NEW h \in Handlers, Push(h) PROVE OpenInv'
  BY <1>8 DEF Push, SendToUser, Socket
<1>9. ASSUME Crash PROVE OpenInv'
  BY <1>9 DEF Crash, NoSocket
<1>10. ASSUME UNCHANGED socket PROVE OpenInv'
  BY <1>10
<1> QED
  BY <1>1, <1>2, <1>3, <1>4, <1>5, <1>6, <1>7, <1>8, <1>9, <1>10
  DEF Next, Connection, vars, PushNotification, SendTestNotification,
      CheckDuplicate, CreateNotification, HandlerFails, MarkAsRead, MarkAllAsRead,
      CreateReport, NotifyAdmins, ResolveReport, UpdateReportStatus, DeleteUser

\* What a handler pushes stays what it has created.
LEMMA PushStep ==
    ASSUME TypeOK, PushInv, [Next]_vars
    PROVE  PushInv'
<1> USE ConstantTypes DEF PushInv, TypeOK
<1>1. ASSUME NEW h \in Handlers, NEW from \in Users, NEW to \in Users,
             PushNotification(h, from, to)
      PROVE PushInv'
  BY <1>1 DEF PushNotification, Handler
<1>2. ASSUME NEW h \in Handlers, NEW u \in Users, SendTestNotification(h, u)
      PROVE PushInv'
  BY <1>2 DEF SendTestNotification, Handler
<1>3. ASSUME NEW h \in Handlers, CheckDuplicate(h) PROVE PushInv'
  BY <1>3 DEF CheckDuplicate, Handler
<1>4. ASSUME NEW h \in Handlers, NEW n \in Notes, CreateNotification(h, n)
      PROVE PushInv'
  BY <1>4 DEF CreateNotification, Handler, NoteRow
<1>5. ASSUME NEW h \in Handlers, Push(h) PROVE PushInv'
  BY <1>5 DEF Push, Handler
<1>6. ASSUME NEW h \in Handlers, HandlerFails(h) PROVE PushInv'
  BY <1>6 DEF HandlerFails, Handler
<1>7. ASSUME NEW n \in Notes, MarkAsRead(n) PROVE PushInv'
  BY <1>7 DEF MarkAsRead, NoteRow
<1>8. ASSUME NEW u \in Users, MarkAllAsRead(u) PROVE PushInv'
  BY <1>8 DEF MarkAllAsRead, NoteRow
<1>9. ASSUME NEW h \in Handlers, NEW r \in Reports, NEW u \in Users,
             CreateReport(h, r, u)
      PROVE PushInv'
  BY <1>9 DEF CreateReport, Handler
<1>10. ASSUME NEW h \in Handlers, NotifyAdmins(h) PROVE PushInv'
  BY <1>10 DEF NotifyAdmins, Handler, Injection
<1>11. ASSUME NEW h \in Handlers, NEW r \in Reports, ResolveReport(h, r)
      PROVE PushInv'
  BY <1>11 DEF ResolveReport, Handler
<1>12. ASSUME NEW u \in Users, DeleteUser(u) PROVE PushInv'
  BY <1>12 DEF DeleteUser, NoteRow
<1>13. ASSUME Crash PROVE PushInv'
  BY <1>13 DEF Crash, Handler
<1>14. ASSUME UNCHANGED <<users, note, handler>> PROVE PushInv'
  BY <1>14
<1> QED
  BY <1>1, <1>2, <1>3, <1>4, <1>5, <1>6, <1>7, <1>8, <1>9, <1>10, <1>11, <1>12,
      <1>13, <1>14
  DEF Next, Connection, vars, Connect, Register, QueryUndelivered, SendUndelivered,
      Disconnect, RefuseConnection, Ping, UpdateReportStatus

\* Reports and those who are told of them stay together.
LEMMA ReportStep ==
    ASSUME TypeOK, PushInv, ReportInv, [Next]_vars
    PROVE  ReportInv'
<1> USE ConstantTypes DEF ReportInv, TypeOK
<1>1. ASSUME NEW h \in Handlers, NEW from \in Users, NEW to \in Users,
             PushNotification(h, from, to)
      PROVE ReportInv'
  BY <1>1 DEF PushNotification, Handler
<1>2. ASSUME NEW h \in Handlers, NEW u \in Users, SendTestNotification(h, u)
      PROVE ReportInv'
  BY <1>2 DEF SendTestNotification, Handler
<1>3. ASSUME NEW h \in Handlers, CheckDuplicate(h) PROVE ReportInv'
  BY <1>3 DEF CheckDuplicate, Handler
<1>4. ASSUME NEW h \in Handlers, NEW n \in Notes, CreateNotification(h, n)
      PROVE ReportInv'
  BY <1>4 DEF CreateNotification, Handler
<1>5. ASSUME NEW h \in Handlers, Push(h) PROVE ReportInv'
  BY <1>5 DEF Push, Handler
<1>6. ASSUME NEW h \in Handlers, HandlerFails(h) PROVE ReportInv'
  BY <1>6 DEF HandlerFails, Handler
<1>7. ASSUME NEW h \in Handlers, NEW r \in Reports, NEW u \in Users,
             CreateReport(h, r, u)
      PROVE ReportInv'
  BY <1>7 DEF CreateReport, Handler, ReportRow
<1>8. ASSUME NEW h \in Handlers, NotifyAdmins(h) PROVE ReportInv'
  BY <1>8 DEF NotifyAdmins, Handler, Injection
<1>9. ASSUME NEW h \in Handlers, NEW r \in Reports, ResolveReport(h, r)
      PROVE ReportInv'
  BY <1>9 DEF ResolveReport, Handler, ReportRow
<1>10. ASSUME NEW r \in Reports,
             NEW status \in {"PENDING", "RESOLVED", "DISMISSED"},
             UpdateReportStatus(r, status)
      PROVE ReportInv'
  BY <1>10 DEF UpdateReportStatus, ReportRow
<1>11. ASSUME NEW u \in Users, DeleteUser(u) PROVE ReportInv'
  BY <1>11 DEF DeleteUser, ReportRow, NoReport
<1>12. ASSUME Crash PROVE ReportInv'
  BY <1>12 DEF Crash, Handler
<1>13. ASSUME UNCHANGED <<users, report, handler>> PROVE ReportInv'
  BY <1>13
<1> QED
  BY <1>1, <1>2, <1>3, <1>4, <1>5, <1>6, <1>7, <1>8, <1>9, <1>10, <1>11, <1>12,
      <1>13
  DEF Next, Connection, vars, Connect, Register, QueryUndelivered, SendUndelivered,
      Disconnect, RefuseConnection, Ping, MarkAsRead, MarkAllAsRead

\* Who resolved a report told its reporter, or is about to.
LEMMA AnnouncedStep ==
    ASSUME TypeOK, PushInv, ReportInv, ResolutionsAreAnnounced, [Next]_vars
    PROVE  ResolutionsAreAnnounced'
<1> USE ConstantTypes DEF ResolutionsAreAnnounced, TypeOK
<1>1. ASSUME NEW h \in Handlers, NEW from \in Users, NEW to \in Users,
             PushNotification(h, from, to)
      PROVE ResolutionsAreAnnounced'
  BY <1>1 DEF PushNotification, Announced, Handler, PushInv
<1>2. ASSUME NEW h \in Handlers, NEW u \in Users, SendTestNotification(h, u)
      PROVE ResolutionsAreAnnounced'
  BY <1>2 DEF SendTestNotification, Announced, Handler, PushInv
<1>3. ASSUME NEW h \in Handlers, CheckDuplicate(h) PROVE ResolutionsAreAnnounced'
  <2>1. Duplicates(handler[h].to, handler[h].report) = {}
    BY DEF Duplicates, NoteRow, Types
  <2> QED
    BY <1>3, <2>1 DEF CheckDuplicate, Announced, Handler
<1>4. ASSUME NEW h \in Handlers, NEW n \in Notes, CreateNotification(h, n)
      PROVE ResolutionsAreAnnounced'
  <2> SUFFICES ASSUME NEW r \in Reports \ dropped, report[r].resolved
               PROVE  Announced(r)'
    BY <1>4 DEF CreateNotification
  <2>1. \A m \in Notes : note[m].state = "live" => note'[m] = note[m]
    BY <1>4 DEF CreateNotification
  <2>2. \A g \in Handlers : /\ handler'[g].type = handler[g].type
                            /\ handler'[g].report = handler[g].report
    BY <1>4 DEF CreateNotification, Handler
  <2>3. Announced(r) /\ report' = report
    BY <1>4 DEF CreateNotification
  <2> QED
    BY <2>1, <2>2, <2>3 DEF Announced
<1>5. ASSUME NEW h \in Handlers, Push(h) PROVE ResolutionsAreAnnounced'
  <2> SUFFICES ASSUME NEW r \in Reports \ dropped, report[r].resolved
               PROVE  Announced(r)'
    BY <1>5 DEF Push
  <2>1. CASE handler[h].type = "report_resolved" /\ handler[h].report = r
    <3>1. report[r].reporterId = handler[h].to /\ handler[h].to \in users
      BY <2>1 DEF ReportInv
    <3> QED
      BY <1>5, <2>1, <3>1 DEF Push, PushInv, Announced
  <2>2. CASE ~(handler[h].type = "report_resolved" /\ handler[h].report = r)
    BY <1>5, <2>2 DEF Push, Announced, Handler
  <2> QED
    BY <2>1, <2>2
<1>6. ASSUME NEW h \in Handlers, HandlerFails(h) PROVE ResolutionsAreAnnounced'
  BY <1>6 DEF HandlerFails, Announced, Handler, Lost
<1>7. ASSUME NEW n \in Notes, MarkAsRead(n) PROVE ResolutionsAreAnnounced'
  BY <1>7 DEF MarkAsRead, Announced, NoteRow
<1>8. ASSUME NEW u \in Users, MarkAllAsRead(u) PROVE ResolutionsAreAnnounced'
  BY <1>8 DEF MarkAllAsRead, Announced, NoteRow
<1>9. ASSUME NEW h \in Handlers, NEW r \in Reports, NEW u \in Users,
             CreateReport(h, r, u)
      PROVE ResolutionsAreAnnounced'
  BY <1>9 DEF CreateReport, Announced, Handler, PushInv, ReportRow
<1>10. ASSUME NEW h \in Handlers, NotifyAdmins(h) PROVE ResolutionsAreAnnounced'
  <2>1. \A g \in Handlers : handler[g].type = "report_resolved" => handler'[g] = handler[g]
    BY <1>10 DEF NotifyAdmins, PushInv, Injection
  <2> QED
    BY <1>10, <2>1 DEF NotifyAdmins, Announced
<1>11. ASSUME NEW h \in Handlers, NEW r \in Reports, ResolveReport(h, r)
      PROVE ResolutionsAreAnnounced'
  BY <1>11 DEF ResolveReport, Announced, Handler, PushInv, ReportRow
<1>12. ASSUME NEW r \in Reports,
             NEW status \in {"PENDING", "RESOLVED", "DISMISSED"},
             UpdateReportStatus(r, status)
      PROVE ResolutionsAreAnnounced'
  BY <1>12 DEF UpdateReportStatus, Announced, ReportRow
<1>13. ASSUME NEW u \in Users, DeleteUser(u) PROVE ResolutionsAreAnnounced'
  BY <1>13 DEF DeleteUser, Announced, NoteRow, ReportRow, NoReport
<1>14. ASSUME Crash PROVE ResolutionsAreAnnounced'
  <2> SUFFICES ASSUME NEW r \in Reports \ dropped', report[r].resolved
               PROVE  Announced(r)'
    BY <1>14 DEF Crash
  <2>1. Announced(r)
    BY <1>14 DEF Crash
  <2>2. CASE \E n \in Notes : /\ note[n].state = "live"
                              /\ note[n].type = "report_resolved"
                              /\ note[n].report = r
                              /\ note[n].userId = report[r].reporterId
    BY <1>14, <2>2 DEF Crash, Announced
  <2>3. CASE \E h \in Handlers : /\ handler[h].type = "report_resolved"
                                 /\ handler[h].report = r
    <3>1. PICK h \in Handlers : handler[h].type = "report_resolved" /\ handler[h].report = r
      BY <2>3
    <3>2. handler[h].pc = "pushing"
      BY <1>14, <3>1 DEF Crash, Lost
    <3>3. report[r].reporterId = handler[h].to /\ handler[h].to \in users
      BY <3>1 DEF ReportInv
    <3> QED
      BY <1>14, <3>1, <3>2, <3>3 DEF Crash, PushInv, Announced
  <2> QED
    BY <2>1, <2>2, <2>3 DEF Announced
<1>15. ASSUME UNCHANGED <<note, report, handler, dropped>> PROVE ResolutionsAreAnnounced'
  BY <1>15 DEF Announced
<1> QED
  BY <1>1, <1>2, <1>3, <1>4, <1>5, <1>6, <1>7, <1>8, <1>9, <1>10, <1>11, <1>12,
      <1>13, <1>14, <1>15
  DEF Next, Connection, vars, Connect, Register, QueryUndelivered, SendUndelivered,
      Disconnect, RefuseConnection, Ping

\* No step makes a connection miss a notification.
LEMMA DeliveryStep ==
    ASSUME TypeOK, GatewayInv, PushInv, DeliveryInv, [Next]_vars
    PROVE  DeliveryInv'
<1> USE ConstantTypes DEF DeliveryInv, TypeOK
<1>1. ASSUME NEW s \in Sockets, NEW u \in Users, Connect(s, u) PROVE DeliveryInv'
  BY <1>1 DEF Connect, Socket, Undelivered, BeingPushed
<1>2. ASSUME NEW s \in Sockets, Register(s) PROVE DeliveryInv'
  BY <1>2 DEF Register, Socket, Undelivered, BeingPushed
<1>3. ASSUME NEW s \in Sockets, QueryUndelivered(s) PROVE DeliveryInv'
  BY <1>3 DEF QueryUndelivered, Socket, Undelivered, BeingPushed
<1>4. ASSUME NEW s \in Sockets, SendUndelivered(s) PROVE DeliveryInv'
  <2>1. /\ socket'[s].user = socket[s].user
        /\ socket'[s].connected = socket[s].connected
        /\ socket[s].connected => socket'[s].got = socket[s].got \cup socket[s].undelivered
    BY <1>4 DEF SendUndelivered, Socket
  <2>2. \A t \in Sockets \ {s} : socket'[t] = socket[t]
    BY <1>4 DEF SendUndelivered
  <2>3. \A u : Undelivered(u)' = Undelivered(u)
    BY <1>4 DEF SendUndelivered, Undelivered
  <2>4. BeingPushed' = BeingPushed
    BY <1>4 DEF SendUndelivered, BeingPushed
  <2> QED
    BY <1>4, <2>1, <2>2, <2>3, <2>4 DEF SendUndelivered
<1>5. ASSUME NEW s \in Sockets, Disconnect(s) PROVE DeliveryInv'
  BY <1>5 DEF Disconnect, Socket, Undelivered, BeingPushed
<1>6. ASSUME NEW s \in Sockets, RefuseConnection(s) PROVE DeliveryInv'
  BY <1>6 DEF RefuseConnection, Socket, Undelivered, BeingPushed
<1>7. ASSUME NEW u \in Users, Ping(u) PROVE DeliveryInv'
  BY <1>7 DEF Ping, SendToUser, Connected, Socket, Undelivered, BeingPushed
<1>8. ASSUME NEW h \in Handlers, NEW from \in Users, NEW to \in Users,
             PushNotification(h, from, to)
      PROVE DeliveryInv'
  <2>1. BeingPushed \subseteq BeingPushed'
    BY <1>8 DEF PushNotification, BeingPushed, Handler
  <2> QED
    BY <1>8, <2>1 DEF PushNotification, Undelivered
<1>9. ASSUME NEW h \in Handlers, NEW u \in Users, SendTestNotification(h, u)
      PROVE DeliveryInv'
  <2>1. BeingPushed \subseteq BeingPushed'
    BY <1>9 DEF SendTestNotification, BeingPushed, Handler
  <2> QED
    BY <1>9, <2>1 DEF SendTestNotification, Undelivered
<1>10. ASSUME NEW h \in Handlers, CheckDuplicate(h) PROVE DeliveryInv'
  <2>1. BeingPushed \subseteq BeingPushed'
    BY <1>10 DEF CheckDuplicate, BeingPushed, Handler
  <2> QED
    BY <1>10, <2>1 DEF CheckDuplicate, Undelivered
<1>11. ASSUME NEW h \in Handlers, NEW n \in Notes, CreateNotification(h, n)
      PROVE DeliveryInv'
  <2>1. n \in BeingPushed' /\ BeingPushed \subseteq BeingPushed'
    BY <1>11 DEF CreateNotification, BeingPushed, Handler
  <2>2. \A u : Undelivered(u)' \subseteq Undelivered(u) \cup {n}
    BY <1>11 DEF CreateNotification, Undelivered
  <2> QED
    BY <1>11, <2>1, <2>2 DEF CreateNotification
<1>12. ASSUME NEW h \in Handlers, Push(h) PROVE DeliveryInv'
  <2>1. BeingPushed \subseteq BeingPushed' \cup {handler[h].note}
    BY <1>12 DEF Push, BeingPushed, Handler
  <2>2. \A u : Undelivered(u)' = Undelivered(u)
    BY <1>12 DEF Push, Undelivered
  <2>3. \A s \in Sockets : /\ socket'[s].pc = socket[s].pc
                           /\ socket'[s].user = socket[s].user
                           /\ socket'[s].connected = socket[s].connected
                           /\ socket'[s].undelivered = socket[s].undelivered
                           /\ socket[s].got \subseteq socket'[s].got
                           /\ s \in Connected(handler[h].to) =>
                                handler[h].note \in socket'[s].got
    BY <1>12 DEF Push, SendToUser, Socket
  <2> SUFFICES ASSUME NEW s \in Sockets, socket[s].connected,
                      socket[s].pc \in {"queried", "open"},
                      handler[h].note \in Undelivered(socket[s].user)
               PROVE  handler[h].note \in socket'[s].got
    BY <2>1, <2>2, <2>3
  <2>4. note[handler[h].note].userId = socket[s].user /\ note[handler[h].note].state = "live"
    BY DEF Undelivered
  <2>5. s \in connectedClients[socket[s].user] /\ socket[s].user \in Users
    BY DEF GatewayInv
  <2> QED
    BY <1>12, <2>3, <2>4, <2>5 DEF Push, PushInv, Connected
<1>13. ASSUME NEW h \in Handlers, HandlerFails(h) PROVE DeliveryInv'
  <2>1. BeingPushed \subseteq BeingPushed'
    BY <1>13 DEF HandlerFails, BeingPushed, Handler
  <2> QED
    BY <1>13, <2>1 DEF HandlerFails, Undelivered
<1>14. ASSUME NEW n \in Notes, MarkAsRead(n) PROVE DeliveryInv'
  <2>1. \A u : Undelivered(u)' \subseteq Undelivered(u)
    BY <1>14 DEF MarkAsRead, Undelivered, NoteRow
  <2> QED
    BY <1>14, <2>1 DEF MarkAsRead, BeingPushed
<1>15. ASSUME NEW u \in Users, MarkAllAsRead(u) PROVE DeliveryInv'
  <2>1. \A v : Undelivered(v)' \subseteq Undelivered(v)
    BY <1>15 DEF MarkAllAsRead, Undelivered, NoteRow
  <2> QED
    BY <1>15, <2>1 DEF MarkAllAsRead, BeingPushed
<1>16. ASSUME NEW h \in Handlers, NEW r \in Reports, NEW u \in Users,
             CreateReport(h, r, u)
      PROVE DeliveryInv'
  <2>1. BeingPushed \subseteq BeingPushed'
    BY <1>16 DEF CreateReport, BeingPushed, Handler
  <2> QED
    BY <1>16, <2>1 DEF CreateReport, Undelivered
<1>17. ASSUME NEW h \in Handlers, NotifyAdmins(h) PROVE DeliveryInv'
  <2>1. \A g \in Handlers : handler[g].pc = "pushing" => handler'[g] = handler[g]
    BY <1>17 DEF NotifyAdmins, Injection
  <2>2. BeingPushed \subseteq BeingPushed'
    BY <2>1 DEF BeingPushed
  <2> QED
    BY <1>17, <2>2 DEF NotifyAdmins, Undelivered
<1>18. ASSUME NEW h \in Handlers, NEW r \in Reports, ResolveReport(h, r)
      PROVE DeliveryInv'
  <2>1. BeingPushed \subseteq BeingPushed'
    BY <1>18 DEF ResolveReport, BeingPushed, Handler
  <2> QED
    BY <1>18, <2>1 DEF ResolveReport, Undelivered
<1>19. ASSUME NEW u \in Users, DeleteUser(u) PROVE DeliveryInv'
  <2>1. \A v : Undelivered(v)' \subseteq Undelivered(v)
    BY <1>19 DEF DeleteUser, Undelivered, NoNote
  <2> QED
    BY <1>19, <2>1 DEF DeleteUser, BeingPushed
<1>20. ASSUME Crash PROVE DeliveryInv'
  BY <1>20 DEF Crash, NoSocket
<1>21. ASSUME UNCHANGED <<note, handler, socket>> PROVE DeliveryInv'
  BY <1>21 DEF Undelivered, BeingPushed
<1> QED
  BY <1>1, <1>2, <1>3, <1>4, <1>5, <1>6, <1>7, <1>8, <1>9, <1>10, <1>11, <1>12,
      <1>13, <1>14, <1>15, <1>16, <1>17, <1>18, <1>19, <1>20, <1>21
  DEF Next, Connection, vars, UpdateReportStatus

-----------------------------------------------------------------------------
(* The theorems.                                                           *)

\* The invariant holds initially and every step keeps it.
LEMMA Invariance == Spec => []NotificationsInv
<1>1. Init => NotificationsInv
  BY NotificationsAssumption, ConstantTypes
  DEF Init, NotificationsInv, TypeOK, GatewayInv, DeliveryInv, OpenInv, PushInv,
      ReportInv, ResolutionsAreAnnounced, NoNote, NoReport, NoSocket
<1>2. NotificationsInv /\ [Next]_vars => NotificationsInv'
  BY TypeStep, GatewayStep, DeliveryStep, OpenStep, PushStep, ReportStep,
     AnnouncedStep DEF NotificationsInv
<1> QED
  BY <1>1, <1>2, PTL DEF Spec

(* For any number of users, connections and handlers, every reachable state *)
(* of NotificationService, NotificationsGateway and ReportService is well   *)
(* typed.                                                                   *)
THEOREM NotificationsTypeCorrect == Spec => []TypeOK
<1>1. NotificationsInv => TypeOK
  BY DEF NotificationsInv
<1> QED
  BY <1>1, Invariance, PTL

(* A connection that handleConnection is done with has been sent every      *)
(* notification that its user has not read.                                 *)
THEOREM NoNotificationMissed == Spec => []NothingMissed
<1>1. NotificationsInv => NothingMissed
  BY DEF NotificationsInv, NothingMissed, DeliveryInv, OpenInv
<1> QED
  BY <1>1, Invariance, PTL

(* getUserConnectionStatus counts a connection that is closed only if it    *)
(* closed while its token was verified.                                     *)
THEOREM ConnectionsAreReal == Spec => []ConnectionStatusIsHonest
<1>1. NotificationsInv => ConnectionStatusIsHonest
  BY DEF NotificationsInv, ConnectionStatusIsHonest, GatewayInv
<1> QED
  BY <1>1, Invariance, PTL

(* What resolveReport resolved is told to the reporter, unless an error or  *)
(* a restart lost the event.                                                *)
THEOREM ResolutionsAnnounced == Spec => []ResolutionsAreAnnounced
<1>1. NotificationsInv => ResolutionsAreAnnounced
  BY DEF NotificationsInv
<1> QED
  BY <1>1, Invariance, PTL
=============================================================================
