---------------------------- MODULE AutoPosting ----------------------------
(***************************************************************************)
(* Scheduled posts of the automation projects.                             *)
(*                                                                         *)
(*   AutoPostScheduler        the job that hands due posts to n8n          *)
(*   AutoPostService          the calls of the users, n8n's status reports *)
(*   AutoProjectWriteService  start, pause, resume, edit, remove           *)
(*   AutoPostGenerateServiceV2.generateAutoPosts                           *)
(*                                                                         *)
(* The job runs every minute whether or not the previous run has ended and *)
(* works through the posts it found; a post stays PENDING until n8n, which *)
(* publishes it and is external, reports what became of it.  Every await   *)
(* of the source ends a step.                                              *)
(***************************************************************************)
EXTENDS Integers, FiniteSets

CONSTANTS
    Projects,    \* ids of automation projects
    Posts,       \* ids of their posts
    ProjectOf,   \* the project of every post
    Ticks,       \* runs of the job at the same time
    Callbacks,   \* status reports processed at the same time
    Callers,     \* users' calls processed at the same time
    PutStatuses, \* bound: the statuses a PUT of a project carries
    MaxRuns,     \* bound: n8n executions of one post at the same time
    MaxCount,    \* bound: publications of a post are counted up to here
    MaxCrashes,  \* bound: restarts of the server
    None         \* no post, no project

ASSUME PostingAssumption == /\ ProjectOf \in [Posts -> Projects]
                            /\ PutStatuses \subseteq
                                 {"DRAFT", "ACTIVE", "PAUSED", "COMPLETED",
                                  "COMPLETED_WITH_ERRORS", "CANCELLED", "FAILED"}
                            /\ MaxRuns \in Nat
                            /\ MaxCount \in Nat \ {0}
                            /\ MaxCrashes \in Nat
                            /\ None \notin Posts
                            /\ None \notin Projects

VARIABLES
    project,    \* AutoProject.status; "none" before and "deleted" after the row
    post,       \* AutoPost.status, and whether scheduledAt has passed
    tick,       \* the local variables of every run of the job
    running,    \* n8n: how many executions of a post have not reported yet
    callback,   \* the local variables of every status report in progress
    call,       \* the local variables of every user's call in progress
    crashes,    \* restarts so far
    published,  \* history: how often a post was published
    started,    \* history: the projects that were ever ACTIVE
    disturbed,  \* history: the posts triggered while in progress, lost on the way
                \* to or from n8n, or written by a user who had read another status
    touched     \* history: the projects edited by a user, failed by the job, or
                \* started and paused by overlapping calls

rows    == <<project, post>>
history == <<published, started, disturbed, touched>>
vars == <<project, post, tick, running, callback, call, crashes, history>>

-----------------------------------------------------------------------------
ProjectStatus == {"DRAFT", "ACTIVE", "PAUSED", "COMPLETED", "COMPLETED_WITH_ERRORS",
                  "CANCELLED", "FAILED"}
PostStatus    == {"PENDING", "POSTED", "FAILED", "CANCELLED"}
NoRow         == {"none", "deleted"}
Outcome       == {"POSTED", "FAILED"}

PostOps    == {"create", "update", "cancel", "delete"}
ProjectOps == {"start", "pause", "put", "remove"}

NoCallback == [pc |-> "idle", post |-> None, outcome |-> "FAILED", final |-> "COMPLETED"]
NoCall     == [pc |-> "idle", op |-> "start", post |-> None, project |-> None,
               seen |-> "none"]

TickState     == [pc : {"loop", "http", "fail"}, queue : SUBSET Posts,
                  current : Posts \cup {None}]
CallbackState == [pc : {"idle", "check", "complete", "rewrite"},
                  post : Posts \cup {None}, outcome : Outcome,
                  final : {"COMPLETED", "COMPLETED_WITH_ERRORS"}]
CallState     == [pc : {"idle", "project", "write"}, op : PostOps \cup ProjectOps,
                  post : Posts \cup {None}, project : Projects \cup {None},
                  seen : ProjectStatus \cup PostStatus \cup NoRow]

IdleTick == [pc |-> "loop", queue |-> {}, current |-> None]

(* Every variable has its type. *)
TypeOK ==
    /\ project \in [Projects -> ProjectStatus \cup NoRow]
    /\ post \in [Posts -> [status : PostStatus \cup NoRow, due : BOOLEAN]]
    /\ tick \in [Ticks -> TickState]
    /\ running \in [Posts -> 0 .. MaxRuns]
    /\ callback \in [Callbacks -> CallbackState]
    /\ call \in [Callers -> CallState]
    /\ crashes \in 0 .. MaxCrashes
    /\ published \in [Posts -> 0 .. MaxCount]
    /\ started \subseteq Projects
    /\ disturbed \subseteq Posts
    /\ touched \subseteq Projects

(* Projects that are being set up, or that were just started. *)
Init ==
    /\ project \in [Projects -> {"none", "DRAFT", "ACTIVE"}]
    /\ post \in [Posts -> [status : {"none", "PENDING"}, due : {FALSE}]]
    /\ \A p \in Posts : project[ProjectOf[p]] = "none" => post[p].status = "none"
    /\ \A q \in Projects : project[q] = "ACTIVE" =>
         \E p \in Posts : ProjectOf[p] = q /\ post[p].status = "PENDING"
    /\ tick = [t \in Ticks |-> IdleTick]
    /\ running = [p \in Posts |-> 0]
    /\ callback = [c \in Callbacks |-> NoCallback]
    /\ call = [u \in Callers |-> NoCall]
    /\ crashes = 0
    /\ published = [p \in Posts |-> 0]
    /\ started = {q \in Projects : project[q] = "ACTIVE"}
    /\ disturbed = {}
    /\ touched = {}

-----------------------------------------------------------------------------
PostExists(p)    == post[p].status \notin NoRow
ProjectExists(q) == project[q] \notin NoRow
PostsOf(q)       == {p \in Posts : ProjectOf[p] = q /\ PostExists(p)}

\* The job or n8n is at work on the post.
Busy(p) == \/ \E t \in Ticks : p \in tick[t].queue \cup {tick[t].current}
           \/ running[p] > 0
           \/ \E c \in Callbacks : callback[c].post = p

SetStatus(p, status) == post' = [post EXCEPT ![p].status = status]

BecomesDue(p) ==
    /\ PostExists(p)
    /\ ~post[p].due
    /\ post' = [post EXCEPT ![p].due = TRUE]
    /\ UNCHANGED <<project, tick, running, callback, call, crashes, history>>

-----------------------------------------------------------------------------
(* AutoPostScheduler.handleScheduledPostsTrigger.  The status of the        *)
(* project is read with the posts, once; the loop tests it in that copy.    *)

\* Mutation: the query does not join the project.
DuePostsOfAnyProject == {p \in Posts : post[p].status = "PENDING" /\ post[p].due}

\* Mutation: the query does not filter by status.
DuePostsOfAnyStatus == {p \in Posts : /\ PostExists(p)
                                      /\ post[p].due
                                      /\ project[ProjectOf[p]] = "ACTIVE"}

\* Mutation: the query does not compare scheduledAt with the time.
DuePostsOfAnyTime == {p \in Posts : /\ post[p].status = "PENDING"
                                    /\ project[ProjectOf[p]] = "ACTIVE"}

DuePosts == {p \in Posts : /\ post[p].status = "PENDING"
                           /\ post[p].due
                           /\ project[ProjectOf[p]] = "ACTIVE"}

StartTick(t) ==
    /\ tick[t] = IdleTick
    /\ DuePosts # {}
    /\ tick' = [tick EXCEPT ![t].queue = DuePosts]
    /\ disturbed' = disturbed \cup {p \in DuePosts : Busy(p)}
    /\ UNCHANGED <<rows, running, callback, call, crashes, published, started, touched>>

\* The update of n8nTriggeredAt, which throws when the post was deleted.
TriggerPost(t, p) ==
    /\ tick[t].pc = "loop"
    /\ p \in tick[t].queue
    /\ tick' = [tick EXCEPT ![t] = [pc      |-> IF PostExists(p) THEN "http" ELSE "fail",
                                    queue   |-> tick[t].queue \ {p},
                                    current |-> p]]
    /\ UNCHANGED <<rows, running, callback, call, crashes, history>>

\* Mutation: the loop continues without failPost.
SkipSilently(t, p) ==
    /\ tick[t].pc = "loop"
    /\ p \in tick[t].queue
    /\ tick' = [tick EXCEPT ![t].queue = @ \ {p}]
    /\ UNCHANGED <<rows, running, callback, call, crashes, history>>

\* The platform has no usable configuration: failPost is the first await.
SkipMisconfigured(t, p) ==
    /\ tick[t].pc = "loop"
    /\ p \in tick[t].queue
    /\ tick' = [tick EXCEPT ![t] = [pc      |-> "fail",
                                    queue   |-> tick[t].queue \ {p},
                                    current |-> p]]
    /\ UNCHANGED <<rows, running, callback, call, crashes, history>>

(* The request to n8n: it starts an execution or not, and the answer        *)
(* arrives or not.                                                          *)
CallN8n(t) ==
    LET p == tick[t].current IN
    /\ tick[t].pc = "http"
    /\ \/ /\ running[p] < MaxRuns
          /\ running' = [running EXCEPT ![p] = @ + 1]
          /\ \/ /\ tick' = [tick EXCEPT ![t].pc = "loop", ![t].current = None]
                /\ UNCHANGED disturbed
             \/ /\ tick' = [tick EXCEPT ![t].pc = "fail"]
                /\ disturbed' = disturbed \cup {p}
       \/ /\ tick' = [tick EXCEPT ![t].pc = "fail"]
          /\ UNCHANGED <<running, disturbed>>
    /\ UNCHANGED <<rows, callback, call, crashes, published, started, touched>>

(* failPost, which throws out of the loop when the post was deleted.        *)
FailPost(t) ==
    LET p == tick[t].current IN
    /\ tick[t].pc = "fail"
    /\ \/ /\ PostExists(p)
          /\ SetStatus(p, "FAILED")
          /\ tick' = [tick EXCEPT ![t].pc = "loop", ![t].current = None]
          /\ touched' = touched \cup {ProjectOf[p]}
       \/ /\ ~PostExists(p)
          /\ tick' = [tick EXCEPT ![t] = IdleTick]
          /\ UNCHANGED <<post, touched>>
    /\ UNCHANGED <<project, running, callback, call, crashes, published, started, disturbed>>

-----------------------------------------------------------------------------
(* n8n publishes a post, or fails to, and reports it to update-status.      *)

Publish(p, outcome) ==
    published' = [published EXCEPT ![p] = IF outcome = "FAILED" \/ @ = MaxCount THEN @ ELSE @ + 1]

ExecutionLost(p) ==
    \E outcome \in Outcome :
      /\ running[p] > 0
      /\ running' = [running EXCEPT ![p] = @ - 1]
      /\ Publish(p, outcome)
      /\ disturbed' = disturbed \cup {p}
      /\ UNCHANGED <<rows, tick, callback, call, crashes, started, touched>>

(* AutoPostService.updateAutoPostStatus: the status is stored, the posts of *)
(* the project are read, the project is completed, and the status is stored *)
(* once more.                                                               *)
\* Mutation: the status is only stored at the end.
StoreStatusAtEnd(c, p, outcome) ==
    /\ callback[c].pc = "idle"
    /\ running[p] > 0
    /\ running' = [running EXCEPT ![p] = @ - 1]
    /\ Publish(p, outcome)
    /\ PostExists(p)
    /\ callback' = [callback EXCEPT ![c] = [NoCallback EXCEPT !.pc      = "check",
                                                              !.post    = p,
                                                              !.outcome = outcome]]
    /\ UNCHANGED <<rows, tick, call, crashes, started, disturbed, touched>>

StoreStatus(c, p, outcome) ==
    /\ callback[c].pc = "idle"
    /\ running[p] > 0
    /\ running' = [running EXCEPT ![p] = @ - 1]
    /\ Publish(p, outcome)
    /\ \/ /\ PostExists(p)
          /\ SetStatus(p, outcome)
          /\ callback' = [callback EXCEPT ![c] = [NoCallback EXCEPT !.pc      = "check",
                                                                    !.post    = p,
                                                                    !.outcome = outcome]]
       \/ ~PostExists(p) /\ UNCHANGED <<post, callback>>
    /\ UNCHANGED <<project, tick, call, crashes, started, disturbed, touched>>

Final == {"POSTED", "FAILED", "CANCELLED"}

FinalStatus(q) ==
    IF \E p \in PostsOf(q) : post[p].status = "FAILED" THEN "COMPLETED_WITH_ERRORS"
    ELSE "COMPLETED"

CheckProject(c) ==
    LET q == ProjectOf[callback[c].post] IN
    /\ callback[c].pc = "check"
    /\ \/ /\ \A p \in PostsOf(q) : post[p].status \in Final
          /\ callback' = [callback EXCEPT ![c].pc = "complete", ![c].final = FinalStatus(q)]
       \/ /\ ~\A p \in PostsOf(q) : post[p].status \in Final
          /\ callback' = [callback EXCEPT ![c].pc = "rewrite"]
    /\ UNCHANGED <<rows, tick, running, call, crashes, history>>

\* Mutation: the project gets the status of the post.
CompleteWithPostStatus(c) ==
    LET q == ProjectOf[callback[c].post] IN
    /\ callback[c].pc = "complete"
    /\ ProjectExists(q)
    /\ project' = [project EXCEPT ![q] = callback[c].outcome]
    /\ callback' = [callback EXCEPT ![c].pc = "rewrite"]
    /\ UNCHANGED <<post, tick, running, call, crashes, history>>

CompleteProject(c) ==
    LET q == ProjectOf[callback[c].post] IN
    /\ callback[c].pc = "complete"
    /\ \/ /\ ProjectExists(q)
          /\ project' = [project EXCEPT ![q] = callback[c].final]
          /\ callback' = [callback EXCEPT ![c].pc = "rewrite"]
       \/ /\ ~ProjectExists(q)
          /\ callback' = [callback EXCEPT ![c] = NoCallback]
          /\ UNCHANGED project
    /\ UNCHANGED <<post, tick, running, call, crashes, history>>

RewriteStatus(c) ==
    LET p == callback[c].post IN
    /\ callback[c].pc = "rewrite"
    /\ callback' = [callback EXCEPT ![c] = NoCallback]
    /\ IF PostExists(p) THEN SetStatus(p, callback[c].outcome) ELSE UNCHANGED post
    /\ UNCHANGED <<project, tick, running, call, crashes, history>>

-----------------------------------------------------------------------------
(* The calls of the users on posts: read the post, read its project, write. *)

Return(u) == call' = [call EXCEPT ![u] = NoCall]

Modifiable(op) == CASE op = "create" -> {"none"}
                    [] op = "delete" -> PostStatus \ {"POSTED"}
                    [] OTHER         -> {"PENDING", "FAILED"}

\* checkProjectIsEditable
ProjectIsEditable(q) == project[q] \notin {"ACTIVE", "COMPLETED"}

BeginPostCall(u, op, p) ==
    /\ call[u].pc = "idle"
    /\ IF op = "create" THEN post[p].status = "none" ELSE PostExists(p)
    /\ call' = [call EXCEPT ![u] = [NoCall EXCEPT !.pc   = "project",
                                                  !.op   = op,
                                                  !.post = p,
                                                  !.seen = post[p].status]]
    /\ UNCHANGED <<rows, tick, running, callback, crashes, history>>

CheckPostCall(u) ==
    /\ call[u].pc = "project"
    /\ \/ /\ ProjectIsEditable(ProjectOf[call[u].post])
          /\ call[u].seen \in Modifiable(call[u].op)
          /\ call' = [call EXCEPT ![u].pc = "write"]
       \/ /\ ~ /\ ProjectIsEditable(ProjectOf[call[u].post])
               /\ call[u].seen \in Modifiable(call[u].op)
          /\ Return(u)
    /\ UNCHANGED <<rows, tick, running, callback, crashes, history>>

\* A FAILED post that is edited is PENDING again.
NewStatus(op, seen, current) ==
    CASE op = "create" -> "PENDING"
      [] op = "cancel" -> "CANCELLED"
      [] op = "delete" -> "deleted"
      [] op = "update" -> IF seen = "FAILED" THEN "PENDING" ELSE current

WritePost(u) ==
    LET p  == call[u].post
        op == call[u].op
    IN  /\ call[u].pc = "write"
        /\ op \in PostOps
        /\ Return(u)
        /\ \/ /\ IF op = "create" THEN /\ ProjectExists(ProjectOf[p])
                                       /\ post[p].status = "none"
                 ELSE PostExists(p)
              /\ \E due \in IF op \in {"create", "update"} THEN BOOLEAN ELSE {post[p].due} :
                   post' = [post EXCEPT ![p] =
                     [status |-> NewStatus(op, call[u].seen, post[p].status), due |-> due]]
              /\ touched' = touched \cup {ProjectOf[p]}
              /\ disturbed' = disturbed \cup {r \in {p} : post[p].status # call[u].seen}
           \/ /\ ~ IF op = "create" THEN /\ ProjectExists(ProjectOf[p])
                                         /\ post[p].status = "none"
                   ELSE PostExists(p)
              /\ UNCHANGED <<post, touched, disturbed>>
        /\ UNCHANGED <<project, tick, running, callback, crashes, published, started>>

(* generateAutoPosts asks neither for the project's owner nor its status.   *)
GenerateAutoPost(p) ==
    /\ post[p].status = "none"
    /\ ProjectExists(ProjectOf[p])
    /\ post' = [post EXCEPT ![p] = [status |-> "PENDING", due |-> TRUE]]
    /\ touched' = touched \cup {ProjectOf[p]}
    /\ UNCHANGED <<project, tick, running, callback, call, crashes, published, started,
                   disturbed>>

-----------------------------------------------------------------------------
(* The calls of the users on projects: read, then write. *)

CreateProject(q) ==
    /\ project[q] = "none"
    /\ project' = [project EXCEPT ![q] = "DRAFT"]
    /\ UNCHANGED <<post, tick, running, callback, call, crashes, history>>

Permitted(op, q) ==
    CASE op = "start" -> /\ project[q] \in {"DRAFT", "PAUSED"}
                         /\ PostsOf(q) # {}
                         /\ \A p \in PostsOf(q) : ~post[p].due
      [] op = "put"   -> project[q] \notin {"ACTIVE", "COMPLETED"}
      [] OTHER        -> TRUE

BeginProjectCall(u, op, q) ==
    /\ call[u].pc = "idle"
    /\ ProjectExists(q)
    /\ Permitted(op, q)
    /\ call' = [call EXCEPT ![u] = [NoCall EXCEPT !.pc      = "write",
                                                  !.op      = op,
                                                  !.project = q,
                                                  !.seen    = project[q]]]
    /\ touched' = touched \cup {r \in {q} : \E v \in Callers : call[v].project = r}
    /\ UNCHANGED <<rows, tick, running, callback, crashes, published, started, disturbed>>

SetProject(q, status) ==
    /\ project' = [project EXCEPT ![q] = status]
    /\ started' = started \cup {r \in {q} : status = "ACTIVE"}

\* A PUT may carry any status; the posts are deleted with their project.
WriteProject(u) ==
    LET q  == call[u].project
        op == call[u].op
    IN  /\ call[u].pc = "write"
        /\ op \in ProjectOps
        /\ Return(u)
        /\ \/ /\ ProjectExists(q)
              /\ \/ op = "start" /\ SetProject(q, "ACTIVE") /\ UNCHANGED post
                 \/ op = "pause" /\ SetProject(q, "PAUSED") /\ UNCHANGED post
                 \/ /\ op = "put"
                    /\ \E status \in PutStatuses : SetProject(q, status)
                    /\ UNCHANGED post
                 \/ /\ op = "remove"
                    /\ SetProject(q, "deleted")
                    /\ post' = [p \in Posts |-> IF p \in PostsOf(q)
                                                THEN [post[p] EXCEPT !.status = "deleted"]
                                                ELSE post[p]]
              /\ touched' = touched \cup {r \in {q} : \/ op \in {"put", "remove"}
                                                      \/ project[q] # call[u].seen}
           \/ /\ ~ProjectExists(q)
              /\ UNCHANGED <<rows, started, touched>>
        /\ UNCHANGED <<tick, running, callback, crashes, published, disturbed>>

-----------------------------------------------------------------------------
(* The server restarts: everything in memory is gone. *)
Crash ==
    /\ crashes < MaxCrashes
    /\ crashes' = crashes + 1
    /\ tick' = [t \in Ticks |-> IdleTick]
    /\ callback' = [c \in Callbacks |-> NoCallback]
    /\ call' = [u \in Callers |-> NoCall]
    /\ disturbed' = disturbed \cup {p \in Posts : Busy(p)}
    /\ UNCHANGED <<rows, running, published, started, touched>>

TickStep(t) ==
    \/ \E p \in Posts : TriggerPost(t, p) \/ SkipMisconfigured(t, p)
    \/ CallN8n(t)
    \/ FailPost(t)

CallbackStep(c) == CheckProject(c) \/ CompleteProject(c) \/ RewriteStatus(c)

UserStep(u) ==
    \/ \E op \in PostOps, p \in Posts : BeginPostCall(u, op, p)
    \/ CheckPostCall(u)
    \/ WritePost(u)
    \/ \E op \in ProjectOps, q \in Projects : BeginProjectCall(u, op, q)
    \/ WriteProject(u)

Next ==
    \/ \E t \in Ticks : StartTick(t) \/ TickStep(t)
    \/ \E c \in Callbacks : \/ \E p \in Posts, o \in Outcome : StoreStatus(c, p, o)
                            \/ CallbackStep(c)
    \/ \E u \in Callers : UserStep(u)
    \/ \E p \in Posts : BecomesDue(p) \/ ExecutionLost(p) \/ GenerateAutoPost(p)
    \/ \E q \in Projects : CreateProject(q)
    \/ Crash

Spec == Init /\ [][Next]_vars

(* Fairness.  The job is started every minute and n8n, or the network,      *)
(* answers every request it is sent in the end.                             *)
Fairness == \A t \in Ticks : WF_vars(StartTick(t)) /\ WF_vars(TickStep(t))

FairSpec == Spec /\ Fairness

-----------------------------------------------------------------------------
(* Properties *)

(* A post that says POSTED was published, and only posts of a project that  *)
(* was active once are handed to n8n - whatever the job, its reports, edits *)
(* and restarts do meanwhile.                                               *)
PostedWasPublished ==
    \A p \in Posts : /\ post[p].status = "POSTED" => published[p] > 0
                     /\ published[p] + running[p] > 0 => ProjectOf[p] \in started

(* Unless it is triggered while it is in progress, lost on the way to or    *)
(* from n8n, or written over by a stale edit, a post is published once at   *)
(* most, and says so as soon as neither the job nor n8n is at work on it.   *)
PublishedAtMostOnce ==
    \A p \in Posts \ disturbed :
      /\ published[p] <= 1
      /\ ~Busy(p) /\ PostExists(p) => (post[p].status = "POSTED" <=> published[p] = 1)

Undisturbed(q) ==
    /\ q \notin touched
    /\ \A p \in Posts : ProjectOf[p] = q =>
         /\ p \notin disturbed
         /\ \A c \in Callbacks : callback[c].post # p

(* The reports of the posts of a project complete it, in whatever order     *)
(* they are processed: a project that nobody edits is active while one of   *)
(* its posts is open, and its final status tells whether one of them failed.*)
ProjectFollowsPosts ==
    \A q \in Projects : Undisturbed(q) =>
      LET open == {p \in PostsOf(q) : post[p].status \notin Final} IN
      /\ project[q] = "ACTIVE" => open # {}
      /\ project[q] \in {"COMPLETED", "COMPLETED_WITH_ERRORS"} =>
           open = {} /\ project[q] = FinalStatus(q)

\* A run of the job has the post.
Taken(t, p) == p \in tick[t].queue \/ p = tick[t].current

(* The promise this implements: see PostDelivery. *)
PlaceOf(p) ==
    IF p \in disturbed THEN "disturbed"
    ELSE IF published[p] > 0 THEN "published"
    ELSE IF running[p] > 0 THEN "handed"
    ELSE IF \E t \in Ticks : Taken(t, p) THEN "picked"
    ELSE "waiting"

Delivery == INSTANCE PostDelivery WITH
              place  <- [p \in Posts |-> PlaceOf(p)],
              status <- [p \in Posts |-> post[p].status],
              due    <- {p \in Posts : post[p].due},
              active <- {q \in Projects : project[q] = "ACTIVE"}

(* Whatever runs of the job, reports, edits and restarts interleave, an     *)
(* undisturbed post is picked when it is due, pending and of an active      *)
(* project, handed over once at a time and only if picked, never again once *)
(* it was published, and its row only says POSTED from then on.             *)
DeliverySpec == Delivery!Spec

(* A due post of an active project reaches n8n, or fails, or is edited or   *)
(* paused first - whatever else is in the batches of the job.               *)
DuePostIsTriggered ==
    \A p \in Posts : p \in DuePosts ~> p \notin DuePosts \/ running[p] > 0
=============================================================================
