------------------------- MODULE AutoPosting_proofs -------------------------
(***************************************************************************)
(* Proofs about AutoPosting: its types, that a post only says POSTED when  *)
(* it was published, that it is published once, that a project ends with   *)
(* its posts, and that it implements PostDelivery, for any number of       *)
(* projects, posts, runs of the job, reports and calls.                    *)
(***************************************************************************)
EXTENDS AutoPosting, TLAPS

(* The post a run of the job is at, and the row a call writes, exist. *)
TickInv ==
    \A t \in Ticks :
      /\ tick[t].pc # "loop" => tick[t].current \in Posts
      /\ \A p \in Posts : p \in tick[t].queue \/ p = tick[t].current
                            => ProjectOf[p] \in started

CallInv ==
    \A u \in Callers :
      /\ call[u].pc = "project" => call[u].op \in PostOps
      /\ call[u].pc # "idle" /\ call[u].op \in PostOps => call[u].post \in Posts
      /\ call[u].pc # "idle" /\ call[u].op \in ProjectOps => call[u].project \in Projects

(* A report of POSTED is about a post that was published. *)
CallbackInv ==
    \A c \in Callbacks :
      callback[c].pc # "idle" =>
        /\ callback[c].post \in Posts
        /\ callback[c].outcome = "POSTED" => published[callback[c].post] > 0

(* Every active project is one that was active once. *)
StartedInv == \A q \in Projects : project[q] = "ACTIVE" => q \in started

PostingInv ==
    TypeOK /\ TickInv /\ CallInv /\ CallbackInv /\ StartedInv /\ PostedWasPublished

-----------------------------------------------------------------------------
(* The idle records, and the records that replace them. *)
LEMMA IdleTypes ==
  /\ IdleTick \in TickState /\ IdleTick.pc = "loop"
  /\ IdleTick.queue = {} /\ IdleTick.current = None
  /\ NoCallback \in CallbackState /\ NoCallback.pc = "idle"
  /\ NoCall \in CallState /\ NoCall.pc = "idle"
BY DEF IdleTick, TickState, NoCallback, CallbackState, Outcome, NoCall, CallState,
       PostOps, ProjectOps, ProjectStatus, PostStatus, NoRow

(* A status written to a post row keeps the type of the table. *)
LEMMA PostRowType ==
  ASSUME TypeOK, NEW p \in Posts, NEW status \in PostStatus \cup NoRow, SetStatus(p, status)
  PROVE  /\ post' \in [Posts -> [status : PostStatus \cup NoRow, due : BOOLEAN]]
         /\ post'[p].status = status
         /\ \A r \in Posts \ {p} : post'[r] = post[r]
BY DEF TypeOK, SetStatus

(* The initial states satisfy the invariant. *)
LEMMA PostingInit == Init => PostingInv
<1> SUFFICES ASSUME Init PROVE PostingInv
  OBVIOUS
<1>1. TypeOK
  <2>1. project \in [Projects -> ProjectStatus \cup NoRow]
    BY DEF Init, ProjectStatus, NoRow
  <2>2. post \in [Posts -> [status : PostStatus \cup NoRow, due : BOOLEAN]]
    <3>1. SUFFICES ASSUME NEW r \in [status : {"none", "PENDING"}, due : {FALSE}]
                   PROVE  r \in [status : PostStatus \cup NoRow, due : BOOLEAN]
      BY DEF Init
    <3>2. r = [status |-> r.status, due |-> r.due]
      OBVIOUS
    <3>3. r.status \in PostStatus \cup NoRow
      BY DEF PostStatus, NoRow
    <3>4. r.due \in BOOLEAN
      OBVIOUS
    <3> QED  BY <3>2, <3>3, <3>4
  <2>3. tick \in [Ticks -> TickState] /\ callback \in [Callbacks -> CallbackState]
        /\ call \in [Callers -> CallState]
    BY IdleTypes DEF Init
  <2> QED  BY <2>1, <2>2, <2>3, PostingAssumption DEF Init, TypeOK
<1>2. TickInv /\ CallInv /\ CallbackInv
  BY IdleTypes, PostingAssumption DEF Init, TickInv, CallInv, CallbackInv
<1>3. StartedInv
  BY DEF Init, StartedInv
<1>4. PostedWasPublished
  <2>1. \A p \in Posts : post[p].status # "POSTED" /\ published[p] = 0 /\ running[p] = 0
    BY DEF Init
  <2> QED  BY <2>1 DEF PostedWasPublished
<1> QED  BY <1>1, <1>2, <1>3, <1>4 DEF PostingInv

-----------------------------------------------------------------------------
(* The job: starting a run of it, and its steps. *)
LEMMA StartTickKeepsInv ==
  ASSUME PostingInv, NEW t \in Ticks, StartTick(t)
  PROVE  PostingInv'
<1> USE DEF PostingInv
<1> DEFINE new == [tick[t] EXCEPT !.queue = DuePosts]
<1>1. /\ new \in TickState /\ new.pc = "loop"
      /\ new.queue = DuePosts /\ new.current = None
      /\ tick' = [tick EXCEPT ![t] = new]
  <2>1. tick[t] \in TickState /\ tick[t].pc = "loop" /\ tick[t].current = None
    BY IdleTypes DEF StartTick
  <2>2. DuePosts \subseteq Posts
    BY DEF DuePosts
  <2> QED  BY <2>1, <2>2 DEF StartTick, TypeOK, TickState
<1> HIDE DEF new
<1>2. \A p \in DuePosts : p \in Posts /\ ProjectOf[p] \in started
  BY PostingAssumption DEF DuePosts, StartedInv
<1>3. TypeOK'
  BY <1>1, <1>2 DEF StartTick, TypeOK, rows
<1>4. TickInv'
  BY <1>1, <1>2, PostingAssumption DEF StartTick, TypeOK, TickInv, rows
<1>5. (CallInv /\ CallbackInv /\ StartedInv /\ PostedWasPublished)'
  BY DEF StartTick, CallInv, CallbackInv, StartedInv, PostedWasPublished, rows
<1> QED  BY <1>3, <1>4, <1>5

(* Taking the next post of the batch. *)
LEMMA NextPostKeepsInv ==
  ASSUME PostingInv, NEW t \in Ticks, NEW p \in Posts,
         TriggerPost(t, p) \/ SkipMisconfigured(t, p)
  PROVE  PostingInv'
<1> USE DEF PostingInv
<1>1. PICK pc \in {"http", "fail"} :
        tick' = [tick EXCEPT ![t] = [pc |-> pc, queue |-> tick[t].queue \ {p},
                                     current |-> p]]
  BY DEF TriggerPost, SkipMisconfigured
<1>2. p \in tick[t].queue
  BY DEF TriggerPost, SkipMisconfigured
<1>3. TypeOK'
  BY <1>1 DEF TriggerPost, SkipMisconfigured, TypeOK, TickState, rows, history
<1>4. TickInv'
  BY <1>1, <1>2 DEF TriggerPost, SkipMisconfigured, TypeOK, TickInv, rows, history
<1>5. (CallInv /\ CallbackInv /\ StartedInv /\ PostedWasPublished)'
  BY DEF TriggerPost, SkipMisconfigured, CallInv, CallbackInv, StartedInv,
         PostedWasPublished, rows, history
<1> QED  BY <1>3, <1>4, <1>5

(* Ending a turn of the loop, or the batch, keeps what is known of the runs. *)
LEMMA ClearKeepsTickInv ==
  ASSUME TypeOK, TickInv, NEW t \in Ticks, started \subseteq started',
         \/ tick' = [tick EXCEPT ![t].pc = "loop", ![t].current = None]
         \/ tick' = [tick EXCEPT ![t] = IdleTick]
  PROVE  tick' \in [Ticks -> TickState] /\ TickInv'
<1>1. PICK new \in TickState :
        /\ new.pc = "loop" /\ new.current = None /\ new.queue \subseteq tick[t].queue
        /\ tick' = [tick EXCEPT ![t] = new]
  <2>1. CASE tick' = [tick EXCEPT ![t].pc = "loop", ![t].current = None]
    <3> DEFINE new == [tick[t] EXCEPT !.pc = "loop", !.current = None]
    <3>1. new \in TickState /\ new.pc = "loop" /\ new.current = None
          /\ new.queue = tick[t].queue
      BY DEF TypeOK, TickState
    <3>2. tick' = [tick EXCEPT ![t] = new]
      BY <2>1
    <3> HIDE DEF new
    <3> QED  BY <3>1, <3>2
  <2>2. CASE tick' = [tick EXCEPT ![t] = IdleTick]
    BY <2>2, IdleTypes
  <2> QED  BY <2>1, <2>2
<1>2. tick' \in [Ticks -> TickState]
  BY <1>1 DEF TypeOK
<1>3. TickInv'
  BY <1>1, PostingAssumption DEF TypeOK, TickInv
<1> QED  BY <1>2, <1>3

(* The request to n8n. *)
LEMMA CallN8nKeepsInv ==
  ASSUME PostingInv, NEW t \in Ticks, CallN8n(t)
  PROVE  PostingInv'
<1> USE DEF PostingInv
<1> DEFINE p == tick[t].current
<1>1. p \in Posts /\ ProjectOf[p] \in started
  BY DEF CallN8n, TickInv
<1>2. tick' \in [Ticks -> TickState] /\ TickInv'
  <2>1. CASE tick' = [tick EXCEPT ![t].pc = "loop", ![t].current = None]
    BY <2>1, ClearKeepsTickInv DEF CallN8n, rows
  <2>2. CASE tick' = [tick EXCEPT ![t].pc = "fail"]
    BY <1>1, <2>2 DEF CallN8n, TypeOK, TickState, TickInv, rows
  <2> QED  BY <2>1, <2>2 DEF CallN8n
<1>3. running' \in [Posts -> 0 .. MaxRuns] /\ \A r \in Posts \ {p} : running'[r] = running[r]
  BY <1>1, PostingAssumption DEF CallN8n, TypeOK
<1>4. TypeOK'
  BY <1>1, <1>2, <1>3 DEF CallN8n, TypeOK, rows
<1>5. PostedWasPublished'
  BY <1>1, <1>3 DEF CallN8n, PostedWasPublished, rows
<1>6. (CallInv /\ CallbackInv /\ StartedInv)'
  BY DEF CallN8n, CallInv, CallbackInv, StartedInv, rows
<1> QED  BY <1>2, <1>4, <1>5, <1>6

(* failPost. *)
LEMMA FailPostKeepsInv ==
  ASSUME PostingInv, NEW t \in Ticks, FailPost(t)
  PROVE  PostingInv'
<1> USE DEF PostingInv
<1> DEFINE p == tick[t].current
<1>1. p \in Posts
  BY DEF FailPost, TickInv
<1>2. tick' \in [Ticks -> TickState] /\ TickInv'
  BY ClearKeepsTickInv DEF FailPost
<1>3. /\ post' \in [Posts -> [status : PostStatus \cup NoRow, due : BOOLEAN]]
      /\ \A r \in Posts : post'[r].status = "POSTED" => post[r].status = "POSTED"
  BY <1>1, PostRowType DEF FailPost, TypeOK, PostStatus
<1>4. TypeOK'
  BY <1>1, <1>2, <1>3, PostingAssumption DEF FailPost, TypeOK
<1>5. (CallInv /\ CallbackInv /\ StartedInv /\ PostedWasPublished)'
  BY <1>3 DEF FailPost, CallInv, CallbackInv, StartedInv, PostedWasPublished
<1> QED  BY <1>2, <1>4, <1>5

-----------------------------------------------------------------------------
(* n8n and its reports. *)

(* An execution that ends leaves counts that are types, and publishes the   *)
(* post when that is its outcome.                                           *)
LEMMA ExecutionEnds ==
  ASSUME PostingInv, NEW p \in Posts, NEW outcome \in Outcome, running[p] > 0,
         running' = [running EXCEPT ![p] = @ - 1], Publish(p, outcome)
  PROVE  /\ running' \in [Posts -> 0 .. MaxRuns]
         /\ published' \in [Posts -> 0 .. MaxCount]
         /\ \A r \in Posts : published'[r] >= published[r]
         /\ outcome = "POSTED" => published'[p] > 0
         /\ \A r \in Posts : published'[r] + running'[r] > 0 => ProjectOf[r] \in started
<1> USE DEF PostingInv
<1>1. running' \in [Posts -> 0 .. MaxRuns]
  BY PostingAssumption DEF TypeOK
<1>2. /\ published' \in [Posts -> 0 .. MaxCount]
      /\ \A r \in Posts : published'[r] >= published[r]
      /\ outcome = "POSTED" => published'[p] > 0
      /\ \A r \in Posts \ {p} : published'[r] = published[r]
  BY PostingAssumption DEF Publish, TypeOK, Outcome
<1>3. ProjectOf[p] \in started
  BY DEF TypeOK, PostedWasPublished
<1>4. \A r \in Posts \ {p} : running'[r] = running[r]
  BY DEF TypeOK
<1> QED  BY <1>1, <1>2, <1>3, <1>4 DEF PostedWasPublished

LEMMA ExecutionLostKeepsInv ==
  ASSUME PostingInv, NEW p \in Posts, ExecutionLost(p)
  PROVE  PostingInv'
<1> USE DEF PostingInv
<1> PICK outcome \in Outcome :
      running[p] > 0 /\ running' = [running EXCEPT ![p] = @ - 1] /\ Publish(p, outcome)
  BY DEF ExecutionLost
<1>1. /\ running' \in [Posts -> 0 .. MaxRuns]
      /\ published' \in [Posts -> 0 .. MaxCount]
      /\ \A r \in Posts : published'[r] >= published[r]
      /\ \A r \in Posts : published'[r] + running'[r] > 0 => ProjectOf[r] \in started
  BY ExecutionEnds
<1>2. TypeOK'
  BY <1>1 DEF ExecutionLost, TypeOK, rows
<1>3. (TickInv /\ CallInv /\ StartedInv)'
  BY DEF ExecutionLost, TickInv, CallInv, StartedInv, rows
<1>4. CallbackInv'
  BY <1>1 DEF ExecutionLost, CallbackInv, TypeOK
<1>5. PostedWasPublished'
  BY <1>1 DEF ExecutionLost, PostedWasPublished, TypeOK, rows
<1> QED  BY <1>2, <1>3, <1>4, <1>5

(* The first store of a report. *)
LEMMA StoreStatusKeepsInv ==
  ASSUME PostingInv, NEW c \in Callbacks, NEW p \in Posts, NEW outcome \in Outcome,
         StoreStatus(c, p, outcome)
  PROVE  PostingInv'
<1> USE DEF PostingInv
<1>1. /\ running' \in [Posts -> 0 .. MaxRuns]
      /\ published' \in [Posts -> 0 .. MaxCount]
      /\ \A r \in Posts : published'[r] >= published[r]
      /\ outcome = "POSTED" => published'[p] > 0
      /\ \A r \in Posts : published'[r] + running'[r] > 0 => ProjectOf[r] \in started
  BY ExecutionEnds DEF StoreStatus
<1>2. (TickInv /\ CallInv /\ StartedInv)'
  BY DEF StoreStatus, TickInv, CallInv, StartedInv
<1>3. CASE UNCHANGED <<post, callback>>
  <2>1. TypeOK'
    BY <1>1, <1>3 DEF StoreStatus, TypeOK
  <2>2. CallbackInv'
    BY <1>1, <1>3 DEF CallbackInv, TypeOK
  <2>3. PostedWasPublished'
    BY <1>1, <1>3 DEF StoreStatus, PostedWasPublished, TypeOK
  <2> QED  BY <1>2, <2>1, <2>2, <2>3
<1>4. CASE SetStatus(p, outcome)
           /\ callback' = [callback EXCEPT ![c] = [NoCallback EXCEPT !.pc      = "check",
                                                                     !.post    = p,
                                                                     !.outcome = outcome]]
  <2> DEFINE new == [NoCallback EXCEPT !.pc = "check", !.post = p, !.outcome = outcome]
  <2>1. new \in CallbackState /\ new.post = p /\ new.outcome = outcome
    BY IdleTypes DEF CallbackState
  <2> HIDE DEF new
  <2>2. callback' = [callback EXCEPT ![c] = new]
    BY <1>4 DEF new
  <2>3. outcome \in PostStatus
    BY DEF Outcome, PostStatus
  <2>4. /\ post' \in [Posts -> [status : PostStatus \cup NoRow, due : BOOLEAN]]
        /\ post'[p].status = outcome
        /\ \A r \in Posts \ {p} : post'[r] = post[r]
    BY <1>4, <2>3, PostRowType
  <2>5. TypeOK'
    BY <1>1, <2>1, <2>2, <2>4 DEF StoreStatus, TypeOK
  <2>6. CallbackInv'
    BY <1>1, <2>1, <2>2 DEF CallbackInv, TypeOK
  <2>7. PostedWasPublished'
    BY <1>1, <2>4 DEF StoreStatus, PostedWasPublished, TypeOK
  <2> QED  BY <1>2, <2>5, <2>6, <2>7
<1> QED  BY <1>3, <1>4 DEF StoreStatus

(* The check of the project, its completion and the second store. *)
LEMMA CallbackStepKeepsInv ==
  ASSUME PostingInv, NEW c \in Callbacks, CallbackStep(c)
  PROVE  PostingInv'
<1> USE DEF PostingInv
<1>1. callback[c].pc # "idle" /\ callback[c].post \in Posts
  BY DEF CallbackStep, CheckProject, CompleteProject, RewriteStatus, CallbackInv
<1>2. /\ callback' \in [Callbacks -> CallbackState]
      /\ CallbackInv'
  <2>1. PICK new \in CallbackState :
          /\ callback' = [callback EXCEPT ![c] = new]
          /\ new.pc # "idle" => new.post = callback[c].post /\ new.outcome = callback[c].outcome
    <3> DEFINE rewrite        == [callback[c] EXCEPT !.pc = "rewrite"]
               complete(final) == [callback[c] EXCEPT !.pc = "complete", !.final = final]
    <3>0. /\ rewrite \in CallbackState
          /\ rewrite.post = callback[c].post /\ rewrite.outcome = callback[c].outcome
      BY DEF TypeOK, CallbackState
    <3>c. \A final \in {"COMPLETED", "COMPLETED_WITH_ERRORS"} :
            /\ complete(final) \in CallbackState
            /\ complete(final).post = callback[c].post
            /\ complete(final).outcome = callback[c].outcome
      BY DEF TypeOK, CallbackState
    <3>1. CASE CheckProject(c)
      <4>1. \/ callback' = [callback EXCEPT ![c] =
                 complete(FinalStatus(ProjectOf[callback[c].post]))]
            \/ callback' = [callback EXCEPT ![c] = rewrite]
        BY <3>1 DEF CheckProject
      <4>2. FinalStatus(ProjectOf[callback[c].post]) \in {"COMPLETED", "COMPLETED_WITH_ERRORS"}
        BY DEF FinalStatus
      <4> HIDE DEF rewrite, complete
      <4> QED  BY <4>1, <4>2, <3>0, <3>c
    <3>2. CASE CompleteProject(c)
      <4>1. \/ callback' = [callback EXCEPT ![c] = rewrite]
            \/ callback' = [callback EXCEPT ![c] = NoCallback]
        BY <3>2 DEF CompleteProject
      <4> HIDE DEF rewrite, complete
      <4> QED  BY <4>1, <3>0, IdleTypes
    <3>3. CASE RewriteStatus(c)
      BY <3>3, IdleTypes DEF RewriteStatus
    <3> QED  BY <3>1, <3>2, <3>3 DEF CallbackStep
  <2>2. UNCHANGED published
    BY DEF CallbackStep, CheckProject, CompleteProject, RewriteStatus, history
  <2> QED  BY <1>1, <2>1, <2>2 DEF TypeOK, CallbackInv
<1>3. project' \in [Projects -> ProjectStatus \cup NoRow] /\ StartedInv'
  <2>1. ProjectOf[callback[c].post] \in Projects
    BY <1>1, PostingAssumption
  <2>2. callback[c].final \in {"COMPLETED", "COMPLETED_WITH_ERRORS"}
    BY DEF TypeOK, CallbackState
  <2> QED  BY <2>1, <2>2 DEF CallbackStep, CheckProject, CompleteProject, RewriteStatus,
              rows, history, TypeOK, StartedInv, ProjectStatus
<1>4. post' \in [Posts -> [status : PostStatus \cup NoRow, due : BOOLEAN]]
      /\ PostedWasPublished'
  <2>1. CASE SetStatus(callback[c].post, callback[c].outcome)
             /\ UNCHANGED <<published, running, started>>
    <3>1. callback[c].outcome \in PostStatus
      BY DEF TypeOK, CallbackState, Outcome, PostStatus
    <3>2. /\ post' \in [Posts -> [status : PostStatus \cup NoRow, due : BOOLEAN]]
          /\ post'[callback[c].post].status = callback[c].outcome
          /\ \A r \in Posts \ {callback[c].post} : post'[r] = post[r]
      BY <1>1, <2>1, <3>1, PostRowType
    <3> QED  BY <1>1, <2>1, <3>2 DEF PostedWasPublished, CallbackInv
  <2>2. CASE UNCHANGED <<post, published, running, started>>
    BY <2>2 DEF PostedWasPublished, TypeOK
  <2> QED  BY <2>1, <2>2 DEF CallbackStep, CheckProject, CompleteProject, RewriteStatus,
              rows, history
<1>5. TypeOK'
  BY <1>2, <1>3, <1>4 DEF CallbackStep, CheckProject, CompleteProject, RewriteStatus,
     rows, history, TypeOK
<1>6. (TickInv /\ CallInv)'
  BY DEF CallbackStep, CheckProject, CompleteProject, RewriteStatus, rows, history,
         TickInv, CallInv
<1> QED  BY <1>2, <1>3, <1>4, <1>5, <1>6

-----------------------------------------------------------------------------
(* The users' calls. *)

(* Starting or ending a call changes nothing but the call.  A call that     *)
(* starts names a row of its kind.                                          *)
LEMMA CallChangeKeepsInv ==
  ASSUME TypeOK, CallInv, NEW u \in Callers, NEW new \in CallState,
         call' = [call EXCEPT ![u] = new],
         new.pc = "project" => new.op \in PostOps,
         new.pc # "idle" /\ new.op \in PostOps => new.post \in Posts,
         new.pc # "idle" /\ new.op \in ProjectOps => new.project \in Projects
  PROVE  call' \in [Callers -> CallState] /\ CallInv'
BY DEF TypeOK, CallInv

LEMMA ReturnKeepsInv ==
  ASSUME TypeOK, CallInv, NEW u \in Callers, Return(u)
  PROVE  call' \in [Callers -> CallState] /\ CallInv'
BY CallChangeKeepsInv, IdleTypes DEF Return

LEMMA BeginPostCallKeepsInv ==
  ASSUME PostingInv, NEW u \in Callers, NEW op \in PostOps, NEW p \in Posts,
         BeginPostCall(u, op, p)
  PROVE  PostingInv'
<1> USE DEF PostingInv
<1> DEFINE new == [NoCall EXCEPT !.pc   = "project", !.op   = op,
                                 !.post = p,         !.seen = post[p].status]
<1>1. /\ new \in CallState /\ new.pc = "project" /\ new.op = op /\ new.post = p
      /\ call' = [call EXCEPT ![u] = new]
  BY IdleTypes DEF BeginPostCall, TypeOK, CallState
<1>2. op \notin ProjectOps
  BY DEF PostOps, ProjectOps
<1> HIDE DEF new
<1>3. call' \in [Callers -> CallState] /\ CallInv'
  BY <1>1, <1>2, CallChangeKeepsInv
<1> QED  BY <1>3 DEF BeginPostCall, TypeOK, TickInv, CallbackInv, StartedInv,
            PostedWasPublished, rows, history

LEMMA CheckPostCallKeepsInv ==
  ASSUME PostingInv, NEW u \in Callers, CheckPostCall(u)
  PROVE  PostingInv'
<1> USE DEF PostingInv
<1>1. call' \in [Callers -> CallState] /\ CallInv'
  <2>1. CASE Return(u)
    BY <2>1, ReturnKeepsInv
  <2>2. CASE call' = [call EXCEPT ![u].pc = "write"]
    <3> DEFINE new == [call[u] EXCEPT !.pc = "write"]
    <3>1. /\ new \in CallState /\ new.pc = "write"
          /\ new.op = call[u].op /\ new.post = call[u].post /\ new.project = call[u].project
          /\ call' = [call EXCEPT ![u] = new]
      BY <2>2 DEF TypeOK, CallState
    <3> HIDE DEF new
    <3>2. call[u].pc = "project" /\ call[u].op \in PostOps /\ call[u].op \notin ProjectOps
      BY DEF CheckPostCall, CallInv, PostOps, ProjectOps
    <3> QED  BY <3>1, <3>2, CallChangeKeepsInv DEF CallInv
  <2> QED  BY <2>1, <2>2 DEF CheckPostCall
<1> QED  BY <1>1 DEF CheckPostCall, TypeOK, TickInv, CallbackInv, StartedInv,
            PostedWasPublished, rows, history

LEMMA WritePostKeepsInv ==
  ASSUME PostingInv, NEW u \in Callers, WritePost(u)
  PROVE  PostingInv'
<1> USE DEF PostingInv
<1> DEFINE p == call[u].post
           status == NewStatus(call[u].op, call[u].seen, post[p].status)
<1>1. p \in Posts /\ ProjectOf[p] \in Projects
  BY PostingAssumption DEF WritePost, CallInv
<1>2. call' \in [Callers -> CallState] /\ CallInv'
  BY ReturnKeepsInv DEF WritePost
<1>3. /\ status \in PostStatus \cup NoRow
      /\ status = "POSTED" => post[p].status = "POSTED"
  BY <1>1 DEF WritePost, NewStatus, PostOps, TypeOK, PostStatus, NoRow
<1>4. /\ post' \in [Posts -> [status : PostStatus \cup NoRow, due : BOOLEAN]]
      /\ \A r \in Posts : post'[r].status = "POSTED" => post[r].status = "POSTED"
  <2>1. CASE UNCHANGED post
    BY <2>1 DEF TypeOK
  <2>2. CASE \E due \in BOOLEAN : post' = [post EXCEPT ![p] = [status |-> status, due |-> due]]
    BY <2>2, <1>1, <1>3 DEF TypeOK
  <2>3. post[p].due \in BOOLEAN
    BY <1>1 DEF TypeOK
  <2> QED  BY <2>1, <2>2, <2>3 DEF WritePost
<1>5. TypeOK'
  BY <1>1, <1>2, <1>4 DEF WritePost, TypeOK
<1>6. (TickInv /\ CallbackInv /\ StartedInv /\ PostedWasPublished)'
  BY <1>4 DEF WritePost, TickInv, CallbackInv, StartedInv, PostedWasPublished
<1> QED  BY <1>2, <1>5, <1>6

LEMMA BeginProjectCallKeepsInv ==
  ASSUME PostingInv, NEW u \in Callers, NEW op \in ProjectOps, NEW q \in Projects,
         BeginProjectCall(u, op, q)
  PROVE  PostingInv'
<1> USE DEF PostingInv
<1> DEFINE new == [NoCall EXCEPT !.pc      = "write", !.op   = op,
                                 !.project = q,       !.seen = project[q]]
<1>1. /\ new \in CallState /\ new.pc = "write" /\ new.op = op /\ new.project = q
      /\ call' = [call EXCEPT ![u] = new]
  BY IdleTypes DEF BeginProjectCall, TypeOK, CallState
<1>2. op \notin PostOps
  BY DEF PostOps, ProjectOps
<1> HIDE DEF new
<1>3. call' \in [Callers -> CallState] /\ CallInv'
  BY <1>1, <1>2, CallChangeKeepsInv
<1> QED  BY <1>3 DEF BeginProjectCall, TypeOK, TickInv, CallbackInv, StartedInv,
            PostedWasPublished, rows

LEMMA WriteProjectKeepsInv ==
  ASSUME PostingInv, NEW u \in Callers, WriteProject(u)
  PROVE  PostingInv'
<1> USE DEF PostingInv
<1> DEFINE q == call[u].project
<1>1. q \in Projects
  BY DEF WriteProject, CallInv
<1>2. call' \in [Callers -> CallState] /\ CallInv'
  BY ReturnKeepsInv DEF WriteProject
<1>3. /\ project' \in [Projects -> ProjectStatus \cup NoRow]
      /\ StartedInv'
      /\ started \subseteq started' /\ started' \subseteq Projects
  <2>1. ASSUME NEW status \in ProjectStatus \cup NoRow, SetProject(q, status)
        PROVE  /\ project' \in [Projects -> ProjectStatus \cup NoRow]
               /\ StartedInv'
               /\ started \subseteq started' /\ started' \subseteq Projects
    BY <2>1, <1>1 DEF SetProject, TypeOK, StartedInv
  <2>2. {"ACTIVE", "PAUSED", "deleted"} \cup PutStatuses \subseteq ProjectStatus \cup NoRow
    BY PostingAssumption DEF ProjectStatus, NoRow
  <2>3. CASE UNCHANGED <<project, started>>
    BY <2>3 DEF TypeOK, StartedInv
  <2> QED  BY <2>1, <2>2, <2>3 DEF WriteProject, rows
<1>4. /\ post' \in [Posts -> [status : PostStatus \cup NoRow, due : BOOLEAN]]
      /\ \A r \in Posts : post'[r].status = "POSTED" => post[r].status = "POSTED"
  <2>1. CASE UNCHANGED post
    BY <2>1 DEF TypeOK
  <2>2. CASE post' = [r \in Posts |-> IF r \in PostsOf(q)
                                      THEN [post[r] EXCEPT !.status = "deleted"]
                                      ELSE post[r]]
    <3>1. \A r \in Posts : /\ [post[r] EXCEPT !.status = "deleted"]
                                \in [status : PostStatus \cup NoRow, due : BOOLEAN]
                           /\ [post[r] EXCEPT !.status = "deleted"].status = "deleted"
      BY DEF TypeOK, NoRow
    <3> QED  BY <2>2, <3>1 DEF TypeOK
  <2> QED  BY <2>1, <2>2 DEF WriteProject, rows
<1>5. TypeOK'
  BY <1>1, <1>2, <1>3, <1>4 DEF WriteProject, TypeOK
<1>6. (TickInv /\ CallbackInv /\ PostedWasPublished)'
  BY <1>3, <1>4 DEF WriteProject, TickInv, CallbackInv, PostedWasPublished
<1> QED  BY <1>2, <1>3, <1>5, <1>6

-----------------------------------------------------------------------------
(* Time, generated posts, new projects and restarts. *)
LEMMA OtherStepsKeepInv ==
  ASSUME PostingInv,
         \/ \E p \in Posts : BecomesDue(p) \/ GenerateAutoPost(p)
         \/ \E q \in Projects : CreateProject(q)
  PROVE  PostingInv'
<1> USE DEF PostingInv
<1>1. CASE \E p \in Posts : BecomesDue(p) \/ GenerateAutoPost(p)
  <2> PICK p \in Posts : BecomesDue(p) \/ GenerateAutoPost(p)
    BY <1>1
  <2>1. /\ post' \in [Posts -> [status : PostStatus \cup NoRow, due : BOOLEAN]]
        /\ \A r \in Posts : post'[r].status = "POSTED" => post[r].status = "POSTED"
    <3>1. CASE BecomesDue(p)
      <4> DEFINE new == [post[p] EXCEPT !.due = TRUE]
      <4>1. new \in [status : PostStatus \cup NoRow, due : BOOLEAN]
            /\ new.status = post[p].status
        BY DEF TypeOK
      <4>2. post' = [post EXCEPT ![p] = new]
        BY <3>1 DEF BecomesDue
      <4> HIDE DEF new
      <4> QED  BY <4>1, <4>2 DEF TypeOK
    <3>2. CASE GenerateAutoPost(p)
      <4> DEFINE new == [status |-> "PENDING", due |-> TRUE]
      <4>1. new \in [status : PostStatus \cup NoRow, due : BOOLEAN] /\ new.status = "PENDING"
        BY DEF PostStatus
      <4>2. post' = [post EXCEPT ![p] = new]
        BY <3>2 DEF GenerateAutoPost
      <4> HIDE DEF new
      <4> QED  BY <4>1, <4>2 DEF TypeOK
    <3> QED  BY <3>1, <3>2
  <2> QED  BY <2>1, PostingAssumption
           DEF BecomesDue, GenerateAutoPost, TypeOK, TickInv, CallInv, CallbackInv,
               StartedInv, PostedWasPublished, history
<1>2. CASE \E q \in Projects : CreateProject(q)
  BY <1>2 DEF CreateProject, TypeOK, TickInv, CallInv, CallbackInv, StartedInv,
              PostedWasPublished, ProjectStatus, history
<1> QED  BY <1>1, <1>2

LEMMA CrashKeepsInv ==
  ASSUME PostingInv, Crash
  PROVE  PostingInv'
<1> USE DEF PostingInv
<1>1. (TickInv /\ CallInv /\ CallbackInv)'
  BY IdleTypes, PostingAssumption DEF Crash, TickInv, CallInv, CallbackInv
<1>2. TypeOK'
  BY IdleTypes, PostingAssumption DEF Crash, TypeOK, rows
<1>3. (StartedInv /\ PostedWasPublished)'
  BY DEF Crash, StartedInv, PostedWasPublished, rows
<1> QED  BY <1>1, <1>2, <1>3

(* Every step keeps the invariant. *)
LEMMA PostingStep == PostingInv /\ [Next]_vars => PostingInv'
<1> SUFFICES ASSUME PostingInv, [Next]_vars PROVE PostingInv'
  OBVIOUS
<1>1. CASE \E t \in Ticks : StartTick(t) \/ TickStep(t)
  BY <1>1, StartTickKeepsInv, NextPostKeepsInv, CallN8nKeepsInv, FailPostKeepsInv DEF TickStep
<1>2. CASE \E c \in Callbacks : \/ \E p \in Posts, o \in Outcome : StoreStatus(c, p, o)
                                \/ CallbackStep(c)
  BY <1>2, StoreStatusKeepsInv, CallbackStepKeepsInv
<1>3. CASE \E u \in Callers : UserStep(u)
  BY <1>3, BeginPostCallKeepsInv, CheckPostCallKeepsInv, WritePostKeepsInv,
     BeginProjectCallKeepsInv, WriteProjectKeepsInv DEF UserStep
<1>4. CASE \E p \in Posts : BecomesDue(p) \/ ExecutionLost(p) \/ GenerateAutoPost(p)
  BY <1>4, OtherStepsKeepInv, ExecutionLostKeepsInv
<1>5. CASE \E q \in Projects : CreateProject(q)
  BY <1>5, OtherStepsKeepInv
<1>6. CASE Crash
  BY <1>6, CrashKeepsInv
<1>7. CASE UNCHANGED vars
  BY <1>7 DEF vars, history, PostingInv, TypeOK, TickInv, CallInv, CallbackInv,
              StartedInv, PostedWasPublished
<1> QED  BY <1>1, <1>2, <1>3, <1>4, <1>5, <1>6, <1>7 DEF Next

(* Every variable always has its type, whatever the numbers of projects,    *)
(* posts, runs of the job, reports and calls.                               *)
THEOREM PostingTypeCorrect == Spec => []TypeOK
<1>1. PostingInv => TypeOK
  BY DEF PostingInv
<1> QED  BY <1>1, PostingInit, PostingStep, PTL DEF Spec

(* A post that says POSTED was published, and only posts of a project that  *)
(* was active once reach n8n: updateAutoPostStatus and the query of the job *)
(* keep this under every interleaving with edits, deletions and restarts.   *)
THEOREM PostedMeansPublished == Spec => []PostedWasPublished
<1>1. PostingInv => PostedWasPublished
  BY DEF PostingInv
<1> QED  BY <1>1, PostingInit, PostingStep, PTL DEF Spec

-----------------------------------------------------------------------------
(* Publishing once.  An undisturbed post has one place at most: the batch   *)
(* of a run of the job, an execution of n8n, or a report.                   *)

\* What a run, a report and a call hold at each step.
HeldInv ==
    /\ \A t \in Ticks : /\ tick[t].pc = "loop" => tick[t].current = None
                        /\ tick[t].current \notin tick[t].queue
    /\ \A c \in Callbacks : callback[c].pc = "idle" => callback[c].post = None
    /\ \A u \in Callers :
         /\ call[u].pc = "write" /\ call[u].op \in PostOps
              => call[u].seen \in Modifiable(call[u].op)
         /\ call[u].project # None => call[u].pc = "write" /\ call[u].op \in ProjectOps

OnePlace(p) ==
    /\ \A t \in Ticks : Taken(t, p) =>
         /\ running[p] = 0
         /\ published[p] = 0
         /\ \A s \in Ticks : Taken(s, p) => s = t
         /\ \A c \in Callbacks : callback[c].post # p
    /\ running[p] <= 1
    /\ running[p] > 0 => published[p] = 0 /\ \A c \in Callbacks : callback[c].post # p
    /\ \A c \in Callbacks : callback[c].post = p =>
         /\ published[p] = IF callback[c].outcome = "POSTED" THEN 1 ELSE 0
         /\ \A d \in Callbacks : callback[d].post = p => d = c

Says(p) ==
    /\ published[p] <= 1
    /\ post[p].status = "POSTED" => published[p] = 1
    /\ published[p] = 1 => post[p].status \in {"POSTED", "deleted"}
    /\ post[p].status = "none" => ~Busy(p)

OnceInv == HeldInv /\ \A p \in Posts \ disturbed : OnePlace(p) /\ Says(p)

LEMMA OnceSuffices == TypeOK /\ OnceInv => PublishedAtMostOnce
  BY DEF OnceInv, Says, PublishedAtMostOnce, PostExists, NoRow, TypeOK

LEMMA OnceInitial == Init => OnceInv
<1> SUFFICES ASSUME Init PROVE OnceInv
  OBVIOUS
<1>1. HeldInv
  BY IdleTypes, PostingAssumption DEF Init, HeldInv, NoCallback, NoCall
<1>2. \A p \in Posts : /\ running[p] = 0 /\ published[p] = 0
                       /\ post[p].status \in {"none", "PENDING"}
                       /\ \A t \in Ticks : ~Taken(t, p)
                       /\ \A c \in Callbacks : callback[c].post # p
  <2>1. \A p \in Posts : post[p].status \in {"none", "PENDING"}
    BY DEF Init
  <2> QED  BY <2>1, IdleTypes, PostingAssumption DEF Init, Taken, NoCallback
<1> QED  BY <1>1, <1>2 DEF OnceInv, OnePlace, Says, Busy, Taken

\* Only places and counts of p matter, and that its status stays what it says.
LEMMA OnceKept ==
  ASSUME NEW p \in Posts, OnePlace(p), Says(p), published'[p] = published[p],
         running'[p] = running[p],
         \A t \in Ticks : Taken(t, p)' => Taken(t, p),
         \A c \in Callbacks : callback'[c].post = p =>
           callback[c].post = p /\ callback'[c].outcome = callback[c].outcome,
         \/ post'[p].status = post[p].status
         \/ published[p] = 0 /\ post'[p].status \notin {"POSTED", "none"}
         \/ post'[p].status = "deleted"
         \/ post'[p].status = "POSTED" /\ published[p] = 1
  PROVE  OnePlace(p)' /\ Says(p)'
<1>1. OnePlace(p)'
  BY DEF OnePlace
<1>2. Busy(p)' => Busy(p)
  BY DEF Busy, Taken
<1> QED  BY <1>1, <1>2 DEF Says

LEMMA OnceStartTick ==
  ASSUME PostingInv, OnceInv, NEW t \in Ticks, StartTick(t)
  PROVE  OnceInv'
<1>1. /\ tick[t].pc = "loop" /\ tick[t].current = None /\ tick[t].queue = {}
      /\ tick'[t].pc = "loop" /\ tick'[t].current = None /\ tick'[t].queue = DuePosts
      /\ \A s \in Ticks \ {t} : tick'[s] = tick[s]
  BY IdleTypes DEF StartTick, PostingInv, TypeOK, TickState
<1>2. DuePosts \subseteq Posts /\ None \notin DuePosts
  BY PostingAssumption DEF DuePosts
<1>3. UNCHANGED <<post, running, callback, call, published>>
      /\ disturbed' = disturbed \cup {p \in DuePosts : Busy(p)}
  BY DEF StartTick, rows
<1>4. HeldInv'
  BY <1>1, <1>2, <1>3 DEF HeldInv, OnceInv
<1>5. ASSUME NEW p \in Posts \ disturbed' PROVE OnePlace(p)' /\ Says(p)'
  <2>1. OnePlace(p) /\ Says(p)
    BY <1>3, <1>5 DEF OnceInv
  <2>2. CASE p \in DuePosts
    <3>1. ~Busy(p) /\ post[p].status = "PENDING"
      BY <1>3, <1>5, <2>2 DEF DuePosts
    <3>2. /\ \A s \in Ticks : ~Taken(s, p)
          /\ \A c \in Callbacks : callback[c].post # p
          /\ running[p] = 0 /\ published[p] = 0
      <4>1. running[p] \in Nat /\ published[p] \in Nat
        BY PostingAssumption DEF PostingInv, TypeOK
      <4>2. running[p] = 0 /\ published[p] = 0
        BY <2>1, <3>1, <4>1 DEF Busy, Says
      <4> QED  BY <3>1, <4>2 DEF Busy, Taken
    <3>3. \A s \in Ticks : Taken(s, p)' => s = t
      BY <1>1, <3>2 DEF Taken
    <3> QED  BY <1>3, <3>1, <3>2, <3>3 DEF OnePlace, Says
  <2>3. CASE p \notin DuePosts
    <3>1. \A s \in Ticks : Taken(s, p)' => Taken(s, p)
      BY <1>1, <2>3, PostingAssumption DEF Taken
    <3> QED  BY <1>3, <2>1, <3>1, OnceKept
  <2> QED  BY <2>2, <2>3
<1> QED  BY <1>4, <1>5 DEF OnceInv

\* The steps of the job that only move a post from the batch to the current one.
LEMMA OnceTakes ==
  ASSUME PostingInv, OnceInv, NEW t \in Ticks, NEW p \in Posts,
         TriggerPost(t, p) \/ SkipMisconfigured(t, p)
  PROVE  OnceInv'
<1>1. PICK pc \in {"http", "fail"} :
        tick' = [tick EXCEPT ![t] = [pc |-> pc, queue |-> tick[t].queue \ {p}, current |-> p]]
  BY DEF TriggerPost, SkipMisconfigured
<1>2. /\ tick'[t].pc # "loop" /\ tick'[t].current = p /\ tick'[t].queue = tick[t].queue \ {p}
      /\ \A s \in Ticks \ {t} : tick'[s] = tick[s]
      /\ p \in tick[t].queue
  BY <1>1 DEF TriggerPost, SkipMisconfigured, PostingInv, TypeOK
<1>3. UNCHANGED <<post, running, callback, call, published, disturbed>>
  BY DEF TriggerPost, SkipMisconfigured, rows, history
<1>4. HeldInv'
  BY <1>2, <1>3 DEF HeldInv, OnceInv
<1>5. \A r \in Posts, s \in Ticks : Taken(s, r)' => Taken(s, r)
  BY <1>2 DEF Taken
<1> QED  BY <1>3, <1>4, <1>5, OnceKept DEF OnceInv

\* Where a run goes on, the post it was at is no longer its own.
LEMMA RunGoesOn ==
  ASSUME TypeOK, HeldInv, NEW t \in Ticks, tick[t].pc # "loop",
         NEW p \in Posts, p = tick[t].current,
         \/ tick' = [tick EXCEPT ![t].pc = "loop", ![t].current = None]
         \/ tick' = [tick EXCEPT ![t].pc = "fail"]
         \/ tick' = [tick EXCEPT ![t] = IdleTick]
  PROVE  /\ \A s \in Ticks : /\ tick'[s].pc = "loop" => tick'[s].current = None
                             /\ tick'[s].current \notin tick'[s].queue
         /\ \A s \in Ticks, r \in Posts : Taken(s, r)' => Taken(s, r)
         /\ tick'[t].pc = "loop" => ~Taken(t, p)'
<1>1. /\ tick[t] \in TickState
      /\ None \notin tick[t].queue
      /\ \A s \in Ticks \ {t} : tick'[s] = tick[s]
  BY PostingAssumption DEF TypeOK, TickState
<1>2. \/ tick'[t].pc = "loop" /\ tick'[t].current = None /\ tick'[t].queue = tick[t].queue
      \/ /\ tick'[t].pc = "fail" /\ tick'[t].current = tick[t].current
         /\ tick'[t].queue = tick[t].queue
      \/ tick'[t].pc = "loop" /\ tick'[t].current = None /\ tick'[t].queue = {}
  BY <1>1, IdleTypes DEF TypeOK, TickState
<1>3. tick[t].current \notin tick[t].queue
  BY DEF HeldInv
<1>4. /\ tick'[t].pc = "loop" => tick'[t].current = None /\ tick[t].current \notin tick'[t].queue
      /\ tick'[t].current \notin tick'[t].queue
      /\ tick'[t].queue \subseteq tick[t].queue
      /\ tick'[t].current \in {None, tick[t].current}
  BY <1>1, <1>2, <1>3
<1>5. \A r \in Posts : Taken(t, r)' => Taken(t, r)
  BY <1>4, PostingAssumption DEF Taken
<1>6. tick'[t].pc = "loop" => ~Taken(t, p)'
  BY <1>4, PostingAssumption DEF Taken
<1> QED  BY <1>1, <1>4, <1>5, <1>6 DEF HeldInv, Taken

LEMMA OnceCallN8n ==
  ASSUME PostingInv, OnceInv, NEW t \in Ticks, CallN8n(t)
  PROVE  OnceInv'
<1>1. TypeOK /\ HeldInv /\ tick[t].current \in Posts /\ tick[t].pc # "loop"
  BY DEF PostingInv, OnceInv, TickInv, CallN8n
<1> PICK p \in Posts : p = tick[t].current
  BY <1>1
<1>2. UNCHANGED <<post, callback, call, published>> /\ disturbed \subseteq disturbed'
  BY DEF CallN8n, rows
<1>3. /\ \A s \in Ticks : /\ tick'[s].pc = "loop" => tick'[s].current = None
                          /\ tick'[s].current \notin tick'[s].queue
      /\ \A s \in Ticks, r \in Posts : Taken(s, r)' => Taken(s, r)
      /\ tick'[t].pc = "loop" => ~Taken(t, p)'
  BY <1>1, RunGoesOn DEF CallN8n
<1>4. HeldInv'
  BY <1>1, <1>2, <1>3 DEF HeldInv
<1>5. ASSUME NEW r \in Posts \ disturbed', running'[r] = running[r] PROVE OnePlace(r)' /\ Says(r)'
  <2>1. OnePlace(r) /\ Says(r)
    BY <1>2, <1>5 DEF OnceInv
  <2> QED  BY <1>2, <1>3, <1>5, <2>1, OnceKept
<1>6. ASSUME p \notin disturbed', running' = [running EXCEPT ![p] = @ + 1]
      PROVE  OnePlace(p)' /\ Says(p)'
  <2>1. OnePlace(p) /\ Says(p)
    BY <1>1, <1>2, <1>6 DEF OnceInv
  <2>2. Taken(t, p)
    BY DEF Taken
  <2>3. /\ running[p] = 0 /\ running'[p] = 1 /\ published[p] = 0
        /\ \A c \in Callbacks : callback[c].post # p
        /\ \A s \in Ticks : Taken(s, p) => s = t
    BY <1>1, <1>6, <2>1, <2>2 DEF OnePlace, TypeOK
  <2>4. tick'[t].pc = "loop"
    <3>1. tick' = [tick EXCEPT ![t].pc = "loop", ![t].current = None]
      <4>1. running' # running
        BY <2>3
      <4> QED  BY <1>6, <4>1 DEF CallN8n
    <3> QED  BY <1>1, <3>1 DEF TypeOK, TickState
  <2>5. \A s \in Ticks : ~Taken(s, p)'
    BY <1>3, <2>3, <2>4
  <2>6. post[p].status # "none"
    BY <2>1, <2>2 DEF Says, Busy, Taken
  <2> QED  BY <1>2, <2>1, <2>3, <2>5, <2>6 DEF OnePlace, Says
<1>7. \A r \in Posts \ {p} : running'[r] = running[r]
  BY <1>1 DEF CallN8n, TypeOK
<1>8. running' = running \/ running' = [running EXCEPT ![p] = @ + 1]
  BY DEF CallN8n
<1> QED  BY <1>4, <1>5, <1>6, <1>7, <1>8 DEF OnceInv

LEMMA OnceFails ==
  ASSUME PostingInv, OnceInv, NEW t \in Ticks, FailPost(t)
  PROVE  OnceInv'
<1>1. TypeOK /\ HeldInv /\ tick[t].current \in Posts /\ tick[t].pc # "loop"
  BY DEF PostingInv, OnceInv, TickInv, FailPost
<1> PICK p \in Posts : p = tick[t].current
  BY <1>1
<1>2. UNCHANGED <<running, callback, call, published, disturbed>>
  BY DEF FailPost
<1>3. /\ \A s \in Ticks : /\ tick'[s].pc = "loop" => tick'[s].current = None
                          /\ tick'[s].current \notin tick'[s].queue
      /\ \A s \in Ticks, r \in Posts : Taken(s, r)' => Taken(s, r)
  BY <1>1, RunGoesOn DEF FailPost
<1>4. HeldInv'
  BY <1>1, <1>2, <1>3 DEF HeldInv
<1>5. ASSUME NEW r \in Posts \ disturbed' PROVE OnePlace(r)' /\ Says(r)'
  <2>1. OnePlace(r) /\ Says(r)
    BY <1>2, <1>5 DEF OnceInv
  <2>2. r = p => published[r] = 0
    BY <2>1 DEF OnePlace, Taken
  <2>3. post'[r] = post[r] \/ (r = p /\ post'[r].status = "FAILED")
    <3>1. UNCHANGED post \/ SetStatus(p, "FAILED")
      BY DEF FailPost
    <3>2. "FAILED" \in PostStatus
      BY DEF PostStatus
    <3>3. SetStatus(p, "FAILED") => /\ post'[p].status = "FAILED"
                                    /\ \A v \in Posts \ {p} : post'[v] = post[v]
      BY <1>1, <3>2, PostRowType
    <3> QED  BY <1>5, <3>1, <3>3
  <2> QED  BY <1>2, <1>3, <2>1, <2>2, <2>3, OnceKept
<1> QED  BY <1>4, <1>5 DEF OnceInv

LEMMA OnceLost ==
  ASSUME PostingInv, OnceInv, NEW p \in Posts, ExecutionLost(p)
  PROVE  OnceInv'
<1>1. /\ UNCHANGED <<post, tick, callback, call>> /\ disturbed' = disturbed \cup {p}
      /\ \A r \in Posts \ {p} : running'[r] = running[r] /\ published'[r] = published[r]
  BY DEF ExecutionLost, Publish, rows, PostingInv, TypeOK
<1>2. HeldInv'
  BY <1>1 DEF HeldInv, OnceInv
<1>3. ASSUME NEW r \in Posts \ disturbed' PROVE OnePlace(r)' /\ Says(r)'
  <2>1. OnePlace(r) /\ Says(r) /\ r # p
    BY <1>1, <1>3 DEF OnceInv
  <2>2. \A t \in Ticks : Taken(t, r)' => Taken(t, r)
    BY <1>1 DEF Taken
  <2> QED  BY <1>1, <1>3, <2>1, <2>2, OnceKept
<1> QED  BY <1>2, <1>3 DEF OnceInv

LEMMA OnceStores ==
  ASSUME PostingInv, OnceInv, NEW c \in Callbacks, NEW p \in Posts, NEW outcome \in Outcome,
         StoreStatus(c, p, outcome)
  PROVE  OnceInv'
<1>1. /\ UNCHANGED <<tick, call, disturbed>> /\ TypeOK /\ HeldInv
      /\ callback[c].pc = "idle" /\ callback[c].post = None
      /\ running[p] > 0 /\ running'[p] = running[p] - 1
      /\ \A r \in Posts \ {p} : running'[r] = running[r] /\ published'[r] = published[r]
  BY DEF StoreStatus, Publish, PostingInv, OnceInv, HeldInv, TypeOK
<1>2. published[p] = 0 => published'[p] = IF outcome = "POSTED" THEN 1 ELSE 0
  BY <1>1, PostingAssumption DEF StoreStatus, Publish, TypeOK, Outcome
<1>3. \A r \in Posts \ {p} : post'[r] = post[r]
  BY DEF StoreStatus, SetStatus, PostingInv, TypeOK
<1>4. \/ /\ PostExists(p) /\ post'[p].status = outcome
         /\ callback'[c].pc = "check" /\ callback'[c].post = p /\ callback'[c].outcome = outcome
         /\ \A d \in Callbacks \ {c} : callback'[d] = callback[d]
      \/ ~PostExists(p) /\ UNCHANGED <<post, callback>>
  <2>1. PostExists(p) => post'[p].status = outcome
    BY <1>1, PostRowType DEF StoreStatus, Outcome, PostStatus
  <2> DEFINE new == [NoCallback EXCEPT !.pc = "check", !.post = p, !.outcome = outcome]
  <2>2. new.pc = "check" /\ new.post = p /\ new.outcome = outcome
    BY DEF NoCallback
  <2>3. PostExists(p) => callback' = [callback EXCEPT ![c] = new]
    BY DEF StoreStatus
  <2> HIDE DEF new
  <2> QED  BY <1>1, <2>1, <2>2, <2>3 DEF StoreStatus, TypeOK
<1>5. HeldInv'
  BY <1>1, <1>4 DEF HeldInv
<1>6. ASSUME NEW r \in Posts \ disturbed', r # p PROVE OnePlace(r)' /\ Says(r)'
  <2>1. OnePlace(r) /\ Says(r)
    BY <1>1, <1>6 DEF OnceInv
  <2>2. \A t \in Ticks : Taken(t, r)' => Taken(t, r)
    BY <1>1 DEF Taken
  <2> QED  BY <1>1, <1>3, <1>4, <1>6, <2>1, <2>2, OnceKept
<1>7. ASSUME p \notin disturbed' PROVE OnePlace(p)' /\ Says(p)'
  <2>1. OnePlace(p) /\ Says(p)
    BY <1>1, <1>7 DEF OnceInv
  <2>2. /\ published[p] = 0 /\ running'[p] = 0
        /\ \A t \in Ticks : ~Taken(t, p)
        /\ \A d \in Callbacks : callback[d].post # p
    BY <1>1, <2>1, PostingAssumption DEF OnePlace, TypeOK
  <2>3. post[p].status # "none"
    BY <1>1, <2>1 DEF Says, Busy
  <2>4. \A t \in Ticks : ~Taken(t, p)'
    BY <1>1, <2>2 DEF Taken
  <2>5. OnePlace(p)'
    BY <1>2, <1>4, <2>2, <2>4 DEF OnePlace
  <2>6. Says(p)'
    BY <1>2, <1>4, <2>1, <2>2, <2>3 DEF Says, PostExists, NoRow, Outcome
  <2> QED  BY <2>5, <2>6
<1> QED  BY <1>5, <1>6, <1>7 DEF OnceInv

LEMMA OnceReports ==
  ASSUME PostingInv, OnceInv, NEW c \in Callbacks, CallbackStep(c)
  PROVE  OnceInv'
<1>1. /\ UNCHANGED <<tick, running, call, published, disturbed>> /\ TypeOK /\ HeldInv
      /\ callback[c].pc # "idle" /\ callback[c].post \in Posts
  BY DEF CallbackStep, CheckProject, CompleteProject, RewriteStatus, PostingInv, OnceInv,
         CallbackInv, rows, history
<1>2. /\ \A d \in Callbacks \ {c} : callback'[d] = callback[d]
      /\ \/ callback'[c].pc # "idle" /\ callback'[c].post = callback[c].post
            /\ callback'[c].outcome = callback[c].outcome
         \/ callback'[c].pc = "idle" /\ callback'[c].post = None
  BY <1>1 DEF CallbackStep, CheckProject, CompleteProject, RewriteStatus, TypeOK,
              CallbackState, NoCallback
<1>3. HeldInv'
  BY <1>1, <1>2 DEF HeldInv
<1>4. \A r \in Posts : \/ post'[r] = post[r]
                       \/ /\ r = callback[c].post /\ PostExists(r)
                          /\ post'[r].status = callback[c].outcome
  <2>1. callback[c].outcome \in PostStatus
    BY <1>1 DEF TypeOK, CallbackState, Outcome, PostStatus
  <2> QED  BY <1>1, <2>1, PostRowType
           DEF CallbackStep, CheckProject, CompleteProject, RewriteStatus, rows
<1>5. ASSUME NEW r \in Posts \ disturbed' PROVE OnePlace(r)' /\ Says(r)'
  <2>1. OnePlace(r) /\ Says(r)
    BY <1>1, <1>5 DEF OnceInv
  <2>2. \A t \in Ticks : Taken(t, r)' => Taken(t, r)
    BY <1>1 DEF Taken
  <2>3. \A d \in Callbacks : callback'[d].post = r =>
          callback[d].post = r /\ callback'[d].outcome = callback[d].outcome
    BY <1>2, PostingAssumption
  <2>4. \/ post'[r].status = post[r].status
        \/ published[r] = 0 /\ post'[r].status \notin {"POSTED", "none"}
        \/ post'[r].status = "POSTED" /\ published[r] = 1
    BY <1>1, <1>4, <2>1 DEF OnePlace, TypeOK, CallbackState, Outcome
  <2> QED  BY <1>1, <2>1, <2>2, <2>3, <2>4, OnceKept
<1> QED  BY <1>3, <1>5 DEF OnceInv

\* A call that starts or ends: what it has is by its kind.
LEMMA OnceCalls ==
  ASSUME PostingInv, OnceInv, NEW u \in Callers,
         \/ \E op \in PostOps, p \in Posts : BeginPostCall(u, op, p)
         \/ CheckPostCall(u)
         \/ \E op \in ProjectOps, q \in Projects : BeginProjectCall(u, op, q)
  PROVE  OnceInv'
<1>1. UNCHANGED <<post, tick, running, callback, published, disturbed>> /\ TypeOK /\ HeldInv
  BY DEF BeginPostCall, CheckPostCall, BeginProjectCall, PostingInv, OnceInv, rows, history
<1>2. HeldInv'
  <2>1. /\ \A v \in Callers \ {u} : call'[v] = call[v]
        /\ call'[u].pc = "write" /\ call'[u].op \in PostOps
             => call'[u].seen \in Modifiable(call'[u].op)
        /\ call'[u].project # None => call'[u].pc = "write" /\ call'[u].op \in ProjectOps
    <3>1. CASE \E op \in PostOps, p \in Posts : BeginPostCall(u, op, p)
      <4>1. PICK op \in PostOps, p \in Posts : BeginPostCall(u, op, p)
        BY <3>1
      <4> DEFINE new == [NoCall EXCEPT !.pc = "project", !.op = op, !.post = p,
                                       !.seen = post[p].status]
      <4>2. new.pc = "project" /\ new.project = None /\ call' = [call EXCEPT ![u] = new]
        BY <4>1 DEF BeginPostCall, NoCall
      <4> HIDE DEF new
      <4> QED  BY <1>1, <4>2 DEF TypeOK
    <3>2. CASE CheckPostCall(u)
      BY <1>1, <3>2 DEF CheckPostCall, Return, NoCall, TypeOK, CallState, HeldInv
    <3>3. CASE \E op \in ProjectOps, q \in Projects : BeginProjectCall(u, op, q)
      <4>1. PICK op \in ProjectOps, q \in Projects : BeginProjectCall(u, op, q)
        BY <3>3
      <4> DEFINE new == [NoCall EXCEPT !.pc = "write", !.op = op, !.project = q,
                                       !.seen = project[q]]
      <4>2. new.pc = "write" /\ new.op = op /\ call' = [call EXCEPT ![u] = new]
        BY <4>1 DEF BeginProjectCall, NoCall
      <4> HIDE DEF new
      <4> QED  BY <1>1, <4>2 DEF TypeOK, PostOps, ProjectOps
    <3> QED  BY <3>1, <3>2, <3>3
  <2> QED  BY <1>1, <2>1 DEF HeldInv
<1>3. \A r \in Posts, t \in Ticks : Taken(t, r)' => Taken(t, r)
  BY <1>1 DEF Taken
<1> QED  BY <1>1, <1>2, <1>3, OnceKept DEF OnceInv

LEMMA OnceWritesPost ==
  ASSUME PostingInv, OnceInv, NEW u \in Callers, WritePost(u)
  PROVE  OnceInv'
<1>1. /\ UNCHANGED <<tick, running, callback, published>> /\ TypeOK /\ HeldInv
      /\ call[u].op \in PostOps /\ call[u].post \in Posts /\ call[u].pc = "write"
      /\ disturbed \subseteq disturbed'
  BY DEF WritePost, PostingInv, OnceInv, CallInv
<1> PICK p \in Posts : p = call[u].post
  BY <1>1
<1>2. HeldInv'
  BY <1>1, IdleTypes DEF HeldInv, WritePost, Return, TypeOK, NoCall
<1>3. \A r \in Posts \ {p} : post'[r] = post[r]
  BY <1>1 DEF WritePost, TypeOK
<1>4. \/ post' = post
      \/ /\ post'[p].status = NewStatus(call[u].op, call[u].seen, post[p].status)
         /\ post[p].status = call[u].seen \/ p \in disturbed'
  <2> DEFINE status == NewStatus(call[u].op, call[u].seen, post[p].status)
  <2>1. CASE UNCHANGED post
    BY <2>1
  <2>2. CASE /\ \E due : post' = [post EXCEPT ![p] = [status |-> status, due |-> due]]
             /\ disturbed' = disturbed \cup {r \in {p} : post[p].status # call[u].seen}
    BY <1>1, <2>2 DEF TypeOK
  <2> QED  BY <2>1, <2>2 DEF WritePost
<1>5. ASSUME NEW r \in Posts \ disturbed' PROVE OnePlace(r)' /\ Says(r)'
  <2>1. OnePlace(r) /\ Says(r)
    BY <1>1, <1>5 DEF OnceInv
  <2>2. \A t \in Ticks : Taken(t, r)' => Taken(t, r)
    BY <1>1 DEF Taken
  <2>3. CASE post'[r] = post[r]
    BY <1>1, <2>1, <2>2, <2>3, OnceKept
  <2>4. CASE post'[r] # post[r]
    <3>1. r = p /\ post[p].status = call[u].seen
          /\ post'[p].status = NewStatus(call[u].op, call[u].seen, post[p].status)
      BY <1>3, <1>4, <1>5, <2>4
    <3>2. call[u].seen \in Modifiable(call[u].op)
      BY <1>1 DEF HeldInv
    <3>3. published[r] \in Nat
      BY PostingAssumption DEF PostingInv, TypeOK
    <3>4. published[r] = 0 \/ post[r].status = "deleted"
      BY <1>1, <2>1, <3>1, <3>2, <3>3 DEF Says, Modifiable, PostOps, PostStatus
    <3>5. \/ published[r] = 0 /\ post'[r].status \notin {"POSTED", "none"}
          \/ post'[r].status = "deleted"
      BY <1>1, <3>1, <3>2, <3>4 DEF Modifiable, NewStatus, PostOps, PostStatus
    <3> QED  BY <1>1, <2>1, <2>2, <3>5, OnceKept
  <2> QED  BY <2>3, <2>4
<1> QED  BY <1>2, <1>5 DEF OnceInv

LEMMA OnceWritesProject ==
  ASSUME PostingInv, OnceInv, NEW u \in Callers, WriteProject(u)
  PROVE  OnceInv'
<1>1. UNCHANGED <<tick, running, callback, published, disturbed>> /\ TypeOK /\ HeldInv
  BY DEF WriteProject, PostingInv, OnceInv
<1>2. HeldInv'
  BY <1>1, IdleTypes DEF HeldInv, WriteProject, Return, TypeOK, NoCall
<1>3. \A r \in Posts : post'[r] = post[r] \/ post'[r].status = "deleted"
  <2>1. \A r \in Posts : [post[r] EXCEPT !.status = "deleted"].status = "deleted"
    BY <1>1 DEF TypeOK
  <2> QED  BY <2>1 DEF WriteProject, rows
<1>4. \A r \in Posts, t \in Ticks : Taken(t, r)' => Taken(t, r)
  BY <1>1 DEF Taken
<1> QED  BY <1>1, <1>2, <1>3, <1>4, OnceKept DEF OnceInv

LEMMA OnceOthers ==
  ASSUME PostingInv, OnceInv,
         \/ \E p \in Posts : BecomesDue(p) \/ GenerateAutoPost(p)
         \/ \E q \in Projects : CreateProject(q)
  PROVE  OnceInv'
<1>1. UNCHANGED <<tick, running, callback, call, published, disturbed>> /\ TypeOK /\ HeldInv
  BY DEF BecomesDue, GenerateAutoPost, CreateProject, PostingInv, OnceInv, history
<1>2. HeldInv'
  BY <1>1 DEF HeldInv
<1>3. \A r \in Posts : \/ post'[r].status = post[r].status
                       \/ post[r].status = "none" /\ post'[r].status = "PENDING"
  BY <1>1 DEF BecomesDue, GenerateAutoPost, CreateProject, TypeOK
<1>4. \A r \in Posts, t \in Ticks : Taken(t, r)' => Taken(t, r)
  BY <1>1 DEF Taken
<1>5. ASSUME NEW r \in Posts \ disturbed' PROVE OnePlace(r)' /\ Says(r)'
  <2>1. OnePlace(r) /\ Says(r)
    BY <1>1, <1>5 DEF OnceInv
  <2>2. published[r] \in Nat
    BY <1>1, PostingAssumption DEF TypeOK
  <2>3. post[r].status = "none" => published[r] = 0
    BY <2>1, <2>2 DEF Says
  <2> QED  BY <1>1, <1>3, <1>4, <2>1, <2>3, OnceKept
<1> QED  BY <1>2, <1>5 DEF OnceInv

LEMMA OnceCrash ==
  ASSUME PostingInv, OnceInv, Crash
  PROVE  OnceInv'
<1>1. HeldInv'
  BY IdleTypes, PostingAssumption DEF Crash, HeldInv, NoCallback, NoCall
<1>2. /\ UNCHANGED <<post, running, published>> /\ disturbed \subseteq disturbed'
      /\ \A r \in Posts, t \in Ticks : ~Taken(t, r)'
      /\ \A r \in Posts, c \in Callbacks : callback'[c].post # r
  BY IdleTypes, PostingAssumption DEF Crash, rows, Taken, NoCallback
<1>3. ASSUME NEW r \in Posts \ disturbed' PROVE OnePlace(r)' /\ Says(r)'
  <2>1. OnePlace(r) /\ Says(r)
    BY <1>2, <1>3 DEF OnceInv
  <2> QED  BY <1>2, <2>1, OnceKept
<1> QED  BY <1>1, <1>3 DEF OnceInv

LEMMA OnceStep == PostingInv /\ OnceInv /\ [Next]_vars => OnceInv'
<1> SUFFICES ASSUME PostingInv, OnceInv, [Next]_vars PROVE OnceInv'
  OBVIOUS
<1>1. CASE \E t \in Ticks : StartTick(t) \/ TickStep(t)
  BY <1>1, OnceStartTick, OnceTakes, OnceCallN8n, OnceFails DEF TickStep
<1>2. CASE \E c \in Callbacks : \/ \E p \in Posts, o \in Outcome : StoreStatus(c, p, o)
                                \/ CallbackStep(c)
  BY <1>2, OnceStores, OnceReports
<1>3. CASE \E u \in Callers : UserStep(u)
  BY <1>3, OnceCalls, OnceWritesPost, OnceWritesProject DEF UserStep
<1>4. CASE \/ \E p \in Posts : BecomesDue(p) \/ ExecutionLost(p) \/ GenerateAutoPost(p)
           \/ \E q \in Projects : CreateProject(q)
  BY <1>4, OnceOthers, OnceLost
<1>5. CASE Crash
  BY <1>5, OnceCrash
<1>6. CASE UNCHANGED vars
  BY <1>6 DEF vars, history, OnceInv, HeldInv, OnePlace, Says, Busy, Taken
<1> QED  BY <1>1, <1>2, <1>3, <1>4, <1>5, <1>6 DEF Next

(* A post no run, lost report or stale edit disturbed is published once at  *)
(* most, and then says so: under every interleaving of overlapping runs of  *)
(* the job, reports, edits and restarts.                                    *)
THEOREM PostsArePublishedOnce == Spec => []PublishedAtMostOnce
<1>1. PostingInv /\ OnceInv => PublishedAtMostOnce
  BY OnceSuffices DEF PostingInv
<1>2. Spec => [](PostingInv /\ OnceInv)
  BY PostingInit, OnceInitial, PostingStep, OnceStep, PTL DEF Spec
<1> QED  BY <1>1, <1>2, PTL

-----------------------------------------------------------------------------
(* Projects and their posts.                                               *)

\* A project that nobody disturbed: the job and the reports alone change its posts.
Followed(q) == q \notin touched /\ \A p \in Posts : ProjectOf[p] = q => p \notin disturbed

Open(q)  == {p \in PostsOf(q) : post[p].status \notin Final}
InJob(p) == (\E t \in Ticks : Taken(t, p)) \/ running[p] > 0

\* A post is pending until its report is stored, and was due when it was taken.
PostsFollow(q) ==
    \A p \in Posts : ProjectOf[p] = q =>
      /\ post[p].status \in {"none", "PENDING", "POSTED", "FAILED"}
      /\ InJob(p) => post[p].status = "PENDING"
      /\ \A c \in Callbacks : callback[c].post = p => post[p].status = callback[c].outcome
      /\ Busy(p) \/ post[p].status \in {"POSTED", "FAILED"} => post[p].due

\* A project that is about to be started has all its posts before it.
CallsFollow(q) ==
    \A u \in Callers : call[u].project = q =>
      /\ \A v \in Callers : call[v].project = q => v = u
      /\ call[u].op = "start" =>
           /\ project[q] \in {"DRAFT", "PAUSED"}
           /\ PostsOf(q) # {}
           /\ \A p \in PostsOf(q) : post[p].status = "PENDING" /\ ~Busy(p)

\* The last report completes the project by what is still true.
CompletesFollow(q) ==
    \A c \in Callbacks : callback[c].pc = "complete" /\ ProjectOf[callback[c].post] = q =>
      Open(q) = {} /\ callback[c].final = FinalStatus(q)

\* The report c may still complete the project q.
Deciding(c, q) == callback[c].pc \in {"check", "complete"} /\ ProjectOf[callback[c].post] = q

StatusFollows(q) ==
    /\ project[q] = "ACTIVE" /\ Open(q) = {} => \E c \in Callbacks : Deciding(c, q)
    /\ project[q] \in {"COMPLETED", "COMPLETED_WITH_ERRORS"} =>
         Open(q) = {} /\ project[q] = FinalStatus(q)

Follows(q) == PostsFollow(q) /\ CallsFollow(q) /\ CompletesFollow(q) /\ StatusFollows(q)

FollowInv == \A q \in Projects : Followed(q) => Follows(q)

LEMMA FollowSuffices == PostingInv /\ FollowInv => ProjectFollowsPosts
<1> SUFFICES ASSUME PostingInv, FollowInv, NEW q \in Projects, Undisturbed(q)
             PROVE  LET open == {p \in PostsOf(q) : post[p].status \notin Final} IN
                    /\ project[q] = "ACTIVE" => open # {}
                    /\ project[q] \in {"COMPLETED", "COMPLETED_WITH_ERRORS"} =>
                         open = {} /\ project[q] = FinalStatus(q)
  BY DEF ProjectFollowsPosts
<1>1. StatusFollows(q)
  BY DEF FollowInv, Followed, Undisturbed, Follows
<1>2. \A c \in Callbacks : ~Deciding(c, q)
  BY DEF Deciding, Undisturbed, PostingInv, CallbackInv
<1> QED  BY <1>1, <1>2 DEF StatusFollows, Open

LEMMA FollowInitial == Init => FollowInv
<1> SUFFICES ASSUME Init, NEW q \in Projects PROVE Follows(q)
  BY DEF FollowInv
<1>1. \A p \in Posts : post[p].status \in {"none", "PENDING"}
  BY DEF Init
<1>2. /\ \A p \in Posts : ~InJob(p) /\ ~Busy(p)
      /\ \A c \in Callbacks : callback[c].post = None /\ callback[c].pc = "idle"
      /\ \A u \in Callers : call[u].project = None
  BY IdleTypes, PostingAssumption DEF Init, InJob, Busy, Taken, NoCallback, NoCall
<1>3. PostsFollow(q)
  BY <1>1, <1>2, PostingAssumption DEF PostsFollow
<1>4. CallsFollow(q) /\ CompletesFollow(q)
  BY <1>2, PostingAssumption DEF CallsFollow, CompletesFollow
<1>5. project[q] = "ACTIVE" => Open(q) # {}
  BY DEF Init, Open, PostsOf, PostExists, NoRow, Final
<1>6. project[q] \in {"none", "DRAFT", "ACTIVE"}
  BY DEF Init
<1> QED  BY <1>3, <1>4, <1>5, <1>6 DEF Follows, StatusFollows

LEMMA SamePosts ==
  ASSUME NEW q \in Projects,
         \A p \in Posts : ProjectOf[p] = q => post'[p].status = post[p].status
  PROVE  PostsOf(q)' = PostsOf(q) /\ Open(q)' = Open(q) /\ FinalStatus(q)' = FinalStatus(q)
<1>1. PostsOf(q)' = PostsOf(q)
  BY DEF PostsOf, PostExists
<1>2. \A p \in PostsOf(q) : post'[p].status = post[p].status
  BY DEF PostsOf
<1> QED  BY <1>1, <1>2 DEF Open, FinalStatus

\* The steps that leave the status of q and of its posts alone.
LEMMA FollowKept ==
  ASSUME NEW q \in Projects, Follows(q), project'[q] = project[q],
         \A p \in Posts : ProjectOf[p] = q =>
           /\ post'[p].status = post[p].status
           /\ post[p].due => post'[p].due
           /\ InJob(p)' => InJob(p)
           /\ \A c \in Callbacks : callback'[c].post = p =>
                callback[c].post = p /\ callback'[c].outcome = callback[c].outcome,
         \A c \in Callbacks : callback'[c].pc = "complete" /\ ProjectOf[callback'[c].post] = q =>
           \/ /\ callback[c].pc = "complete" /\ ProjectOf[callback[c].post] = q
              /\ callback'[c].final = callback[c].final
           \/ Open(q) = {} /\ callback'[c].final = FinalStatus(q),
         \A c \in Callbacks : Deciding(c, q) =>
           Deciding(c, q)' \/ Open(q) # {} \/ project[q] # "ACTIVE",
         \A u \in Callers : call'[u].project = q =>
           call[u].project = q /\ call'[u].op = call[u].op
  PROVE  Follows(q)'
<1>1. PostsOf(q)' = PostsOf(q) /\ Open(q)' = Open(q) /\ FinalStatus(q)' = FinalStatus(q)
  BY SamePosts
<1>2. \A p \in Posts : ProjectOf[p] = q /\ Busy(p)' => Busy(p)
  BY DEF Busy, InJob, Taken
<1>3. PostsFollow(q)'
  BY <1>2 DEF Follows, PostsFollow
<1>4. \A p \in PostsOf(q) : post'[p].status = post[p].status /\ (Busy(p)' => Busy(p))
  BY <1>2 DEF PostsOf
<1>5. CallsFollow(q)'
  BY <1>1, <1>4 DEF Follows, CallsFollow
<1>6. CompletesFollow(q)'
  BY <1>1 DEF Follows, CompletesFollow
<1>7. StatusFollows(q)'
  BY <1>1 DEF Follows, StatusFollows
<1> QED  BY <1>3, <1>5, <1>6, <1>7 DEF Follows

LEMMA FollowStartTick ==
  ASSUME PostingInv, OnceInv, FollowInv, NEW t \in Ticks, StartTick(t)
  PROVE  FollowInv'
<1> SUFFICES ASSUME NEW q \in Projects, Followed(q)' PROVE Follows(q)'
  BY DEF FollowInv
<1>1. /\ UNCHANGED <<project, post, running, callback, call, touched>>
      /\ disturbed' = disturbed \cup {p \in DuePosts : Busy(p)}
      /\ tick[t].current = None /\ tick'[t].current = None /\ tick'[t].queue = DuePosts
      /\ \A s \in Ticks \ {t} : tick'[s] = tick[s]
  BY IdleTypes DEF StartTick, PostingInv, TypeOK, TickState, rows
<1>2. Followed(q) /\ Follows(q)
  BY <1>1 DEF Followed, FollowInv
<1>3. /\ PostsOf(q)' = PostsOf(q) /\ Open(q)' = Open(q) /\ FinalStatus(q)' = FinalStatus(q)
      /\ CompletesFollow(q)' /\ StatusFollows(q)'
  BY <1>1, <1>2 DEF PostsOf, PostExists, Open, FinalStatus, Follows, CompletesFollow,
                    StatusFollows, Deciding
<1>4. \A p \in Posts : /\ InJob(p)' => InJob(p) \/ p \in DuePosts
                       /\ Busy(p)' => Busy(p) \/ p \in DuePosts
  BY <1>1, PostingAssumption DEF InJob, Busy, Taken
<1>5. PostsFollow(q)'
  BY <1>1, <1>2, <1>4 DEF Follows, PostsFollow, DuePosts
<1>6. project[q] # "ACTIVE" => \A p \in PostsOf(q) : p \notin DuePosts
  BY DEF PostsOf, DuePosts
<1>7. CallsFollow(q)'
  BY <1>1, <1>2, <1>3, <1>4, <1>6 DEF Follows, CallsFollow, PostsOf
<1> QED  BY <1>3, <1>5, <1>7 DEF Follows

\* The other steps of the job; a post it fails is an edit of the project.
LEMMA FollowJob ==
  ASSUME PostingInv, OnceInv, FollowInv, NEW t \in Ticks, TickStep(t)
  PROVE  FollowInv'
<1> SUFFICES ASSUME NEW q \in Projects, Followed(q)' PROVE Follows(q)'
  BY DEF FollowInv
<1>1. /\ UNCHANGED <<project, callback, call>>
      /\ touched \subseteq touched' /\ disturbed \subseteq disturbed'
  BY DEF TickStep, TriggerPost, SkipMisconfigured, CallN8n, FailPost, rows, history
<1>2. Followed(q) /\ Follows(q)
  BY <1>1 DEF Followed, FollowInv
<1>3. \A p \in Posts : InJob(p)' => InJob(p)
  <2>1. ASSUME NEW p \in Posts, TriggerPost(t, p) \/ SkipMisconfigured(t, p)
        PROVE  \A r \in Posts : InJob(r)' => InJob(r)
    <3>1. PICK pc \in {"http", "fail"} :
            tick' = [tick EXCEPT ![t] = [pc |-> pc, queue |-> tick[t].queue \ {p}, current |-> p]]
      BY <2>1 DEF TriggerPost, SkipMisconfigured
    <3>2. /\ tick'[t].current = p /\ tick'[t].queue = tick[t].queue \ {p}
          /\ \A s \in Ticks \ {t} : tick'[s] = tick[s]
          /\ p \in tick[t].queue /\ UNCHANGED running
      BY <2>1, <3>1 DEF TriggerPost, SkipMisconfigured, PostingInv, TypeOK
    <3>3. \A r \in Posts, s \in Ticks : Taken(s, r)' => Taken(s, r)
      BY <3>2 DEF Taken
    <3> QED  BY <3>2, <3>3 DEF InJob
  <2>2. ASSUME CallN8n(t) \/ FailPost(t)
        PROVE  \A r \in Posts : InJob(r)' => InJob(r)
    <3>1. TypeOK /\ HeldInv /\ tick[t].pc # "loop" /\ tick[t].current \in Posts
      BY <2>2 DEF CallN8n, FailPost, PostingInv, OnceInv, TickInv
    <3> PICK p \in Posts : p = tick[t].current
      BY <3>1
    <3>2. \A r \in Posts, s \in Ticks : Taken(s, r)' => Taken(s, r)
      BY <2>2, <3>1, RunGoesOn DEF CallN8n, FailPost
    <3>3. \A r \in Posts \ {p} : running'[r] = running[r]
      BY <2>2, <3>1 DEF CallN8n, FailPost, TypeOK
    <3>4. InJob(p)
      BY DEF InJob, Taken
    <3> QED  BY <3>2, <3>3, <3>4 DEF InJob
  <2> QED  BY <2>1, <2>2 DEF TickStep
<1>4. \A p \in Posts : ProjectOf[p] = q => post'[p] = post[p]
  <2>1. CASE FailPost(t)
    <3>1. tick[t].current \in Posts
      BY <2>1 DEF FailPost, PostingInv, TickInv
    <3> QED  BY <2>1, <3>1 DEF FailPost, SetStatus, PostingInv, TypeOK, Followed
  <2>2. CASE ~FailPost(t)
    BY <2>2 DEF TickStep, TriggerPost, SkipMisconfigured, CallN8n, rows
  <2> QED  BY <2>1, <2>2
<1>5. \A c \in Callbacks : Deciding(c, q) => Deciding(c, q)'
  BY <1>1 DEF Deciding
<1> QED  BY <1>1, <1>2, <1>3, <1>4, <1>5, FollowKept

LEMMA FollowLost ==
  ASSUME PostingInv, OnceInv, FollowInv, NEW r \in Posts, ExecutionLost(r)
  PROVE  FollowInv'
<1> SUFFICES ASSUME NEW q \in Projects, Followed(q)' PROVE Follows(q)'
  BY DEF FollowInv
<1>1. /\ UNCHANGED <<project, post, tick, callback, call, touched>>
      /\ disturbed' = disturbed \cup {r}
      /\ \A p \in Posts \ {r} : running'[p] = running[p]
  BY DEF ExecutionLost, rows, PostingInv, TypeOK
<1>2. Followed(q) /\ Follows(q) /\ ProjectOf[r] # q
  BY <1>1 DEF Followed, FollowInv
<1>3. \A p \in Posts \ {r} : InJob(p)' => InJob(p)
  BY <1>1 DEF InJob, Taken
<1>4. \A c \in Callbacks : Deciding(c, q) => Deciding(c, q)'
  BY <1>1 DEF Deciding
<1> QED  BY <1>1, <1>2, <1>3, <1>4, FollowKept

LEMMA FollowStores ==
  ASSUME PostingInv, OnceInv, FollowInv, NEW c \in Callbacks, NEW p \in Posts,
         NEW outcome \in Outcome, StoreStatus(c, p, outcome)
  PROVE  FollowInv'
<1> SUFFICES ASSUME NEW q \in Projects, Followed(q)' PROVE Follows(q)'
  BY DEF FollowInv
<1>1. /\ UNCHANGED <<project, tick, call, touched, disturbed>> /\ TypeOK
      /\ callback[c].pc = "idle" /\ callback[c].post = None
      /\ running[p] > 0 /\ running'[p] = running[p] - 1
      /\ \A r \in Posts \ {p} : running'[r] = running[r]
  BY DEF StoreStatus, PostingInv, OnceInv, HeldInv, TypeOK
<1>2. \A r \in Posts \ {p} : post'[r] = post[r]
  BY DEF StoreStatus, SetStatus, PostingInv, TypeOK
<1>3. Followed(q) /\ Follows(q)
  BY <1>1 DEF Followed, FollowInv
<1>4. \/ /\ PostExists(p) /\ post'[p].status = outcome /\ post'[p].due = post[p].due
         /\ callback'[c].pc = "check" /\ callback'[c].post = p /\ callback'[c].outcome = outcome
         /\ \A d \in Callbacks \ {c} : callback'[d] = callback[d]
      \/ ~PostExists(p) /\ UNCHANGED <<post, callback>>
  <2>1. PostExists(p) => post'[p].status = outcome /\ post'[p].due = post[p].due
    <3>1. PostExists(p) => post' = [post EXCEPT ![p].status = outcome]
      BY <1>1 DEF StoreStatus, SetStatus
    <3> QED  BY <1>1, <3>1 DEF TypeOK
  <2> DEFINE new == [NoCallback EXCEPT !.pc = "check", !.post = p, !.outcome = outcome]
  <2>2. new.pc = "check" /\ new.post = p /\ new.outcome = outcome
    BY DEF NoCallback
  <2>3. PostExists(p) => callback' = [callback EXCEPT ![c] = new]
    BY DEF StoreStatus
  <2> HIDE DEF new
  <2> QED  BY <1>1, <2>1, <2>2, <2>3 DEF StoreStatus, TypeOK
<1>5. \A r \in Posts : InJob(r)' => InJob(r)
  BY <1>1 DEF InJob, Taken
<1>6. CASE ProjectOf[p] # q
  <2>1. \A d \in Callbacks : Deciding(d, q) => Deciding(d, q)'
    BY <1>1, <1>4 DEF Deciding
  <2>2. \A r \in Posts : ProjectOf[r] = q => \A d \in Callbacks : callback'[d].post = r =>
          callback[d].post = r /\ callback'[d].outcome = callback[d].outcome
    BY <1>4, <1>6
  <2>3. \A d \in Callbacks : callback'[d].pc = "complete" /\ ProjectOf[callback'[d].post] = q =>
          callback'[d] = callback[d]
    BY <1>4, <1>6
  <2> QED  BY <1>1, <1>2, <1>3, <1>5, <1>6, <2>1, <2>2, <2>3, FollowKept
<1>7. CASE ProjectOf[p] = q
  <2>1. p \notin disturbed /\ OnePlace(p) /\ InJob(p) /\ Busy(p)
    BY <1>1, <1>3, <1>7 DEF Followed, OnceInv, InJob, Busy
  <2>2. /\ post[p].status = "PENDING" /\ post[p].due /\ p \in PostsOf(q) /\ p \in Open(q)
        /\ \A d \in Callbacks : callback[d].post # p
        /\ ~InJob(p)'
    BY <1>1, <1>3, <1>7, <2>1, PostingAssumption
    DEF Follows, PostsFollow, OnePlace, PostsOf, PostExists, NoRow, Open, Final, InJob, Taken,
        TypeOK
  <2>3. /\ post'[p].status = outcome /\ post'[p].due
        /\ callback'[c].pc = "check" /\ callback'[c].post = p /\ callback'[c].outcome = outcome
        /\ \A d \in Callbacks \ {c} : callback'[d] = callback[d]
    BY <1>4, <2>2 DEF PostsOf
  <2>4. \A r \in Posts \ {p} : Busy(r)' => Busy(r)
    BY <1>1, <2>3 DEF Busy, Taken
  <2>5. PostsFollow(q)'
    <3>1. ASSUME NEW r \in Posts \ {p}, ProjectOf[r] = q
          PROVE  /\ post'[r].status \in {"none", "PENDING", "POSTED", "FAILED"}
                 /\ InJob(r)' => post'[r].status = "PENDING"
                 /\ \A d \in Callbacks :
                      callback'[d].post = r => post'[r].status = callback'[d].outcome
                 /\ Busy(r)' \/ post'[r].status \in {"POSTED", "FAILED"} => post'[r].due
      BY <1>2, <1>3, <1>5, <2>3, <2>4, <3>1 DEF Follows, PostsFollow
    <3>2. \A d \in Callbacks : callback'[d].post = p => post'[p].status = callback'[d].outcome
      BY <2>2, <2>3
    <3> QED  BY <2>2, <2>3, <3>1, <3>2 DEF PostsFollow, Outcome
  <2>6. \A u \in Callers : call[u].project = q => call[u].op # "start"
    BY <1>3, <2>1, <2>2 DEF Follows, CallsFollow
  <2>7. CallsFollow(q)'
    BY <1>1, <1>3, <2>6 DEF Follows, CallsFollow
  <2>8. CompletesFollow(q)'
    <3>1. \A d \in Callbacks : callback[d].pc = "complete" => ProjectOf[callback[d].post] # q
      BY <1>3, <2>2 DEF Follows, CompletesFollow
    <3> QED  BY <2>3, <3>1 DEF CompletesFollow
  <2>9. Deciding(c, q)'
    BY <1>7, <2>3 DEF Deciding
  <2>10. project[q] \notin {"COMPLETED", "COMPLETED_WITH_ERRORS"}
    BY <1>3, <2>2 DEF Follows, StatusFollows
  <2>11. StatusFollows(q)'
    BY <1>1, <2>9, <2>10 DEF StatusFollows
  <2> QED  BY <2>5, <2>7, <2>8, <2>11 DEF Follows
<1> QED  BY <1>6, <1>7

LEMMA FollowReports ==
  ASSUME PostingInv, OnceInv, FollowInv, NEW c \in Callbacks, CallbackStep(c)
  PROVE  FollowInv'
<1> SUFFICES ASSUME NEW q \in Projects, Followed(q)' PROVE Follows(q)'
  BY DEF FollowInv
<1>1. /\ UNCHANGED <<tick, running, call, touched, disturbed>> /\ TypeOK
      /\ callback[c].pc # "idle" /\ callback[c].post \in Posts
  BY DEF CallbackStep, CheckProject, CompleteProject, RewriteStatus, PostingInv,
         CallbackInv, rows, history
<1>2. /\ \A d \in Callbacks \ {c} : callback'[d] = callback[d]
      /\ \/ callback'[c].pc # "idle" /\ callback'[c].post = callback[c].post
            /\ callback'[c].outcome = callback[c].outcome
         \/ callback'[c].pc = "idle" /\ callback'[c].post = None
  BY <1>1 DEF CallbackStep, CheckProject, CompleteProject, RewriteStatus, TypeOK,
              CallbackState, NoCallback
<1>3. Followed(q) /\ Follows(q)
  BY <1>1 DEF Followed, FollowInv
<1>4. \A r \in Posts : /\ InJob(r)' => InJob(r)
                       /\ \A d \in Callbacks : callback'[d].post = r =>
                            callback[d].post = r /\ callback'[d].outcome = callback[d].outcome
  BY <1>1, <1>2, PostingAssumption DEF InJob, Taken
<1>5. \A r \in Posts : ProjectOf[r] = q =>
        post'[r].status = post[r].status /\ (post[r].due => post'[r].due)
  <2>1. CASE ~RewriteStatus(c)
    BY <2>1 DEF CallbackStep, CheckProject, CompleteProject, rows
  <2>2. CASE RewriteStatus(c)
    <3>1. \A r \in Posts : \/ post'[r] = post[r]
                           \/ r = callback[c].post /\ post'[r].due = post[r].due
                              /\ post'[r].status = callback[c].outcome
      BY <1>1, <2>2 DEF RewriteStatus, SetStatus, TypeOK
    <3>2. \A r \in Posts : ProjectOf[r] = q /\ callback[c].post = r
                             => post[r].status = callback[c].outcome
      BY <1>3 DEF Follows, PostsFollow
    <3> QED  BY <3>1, <3>2
  <2> QED  BY <2>1, <2>2
<1>6. CASE ProjectOf[callback[c].post] # q
  <2>1. project'[q] = project[q]
    BY <1>1, <1>6 DEF CallbackStep, CheckProject, CompleteProject, RewriteStatus, rows, TypeOK
  <2>2. \A d \in Callbacks : Deciding(d, q) => Deciding(d, q)'
    BY <1>2, <1>6 DEF Deciding
  <2>3. \A d \in Callbacks : callback'[d].pc = "complete" /\ ProjectOf[callback'[d].post] = q =>
          callback'[d] = callback[d]
    BY <1>2, <1>6
  <2> QED  BY <1>1, <1>3, <1>4, <1>5, <2>1, <2>2, <2>3, FollowKept
<1>7. CASE ProjectOf[callback[c].post] = q /\ CheckProject(c)
  <2>1. UNCHANGED project
    BY <1>7 DEF CheckProject, rows
  <2>2. \/ Open(q) = {} /\ callback'[c].pc = "complete" /\ callback'[c].final = FinalStatus(q)
        \/ Open(q) # {} /\ callback'[c].pc = "rewrite"
    BY <1>1, <1>7 DEF CheckProject, Open, TypeOK, CallbackState
  <2>3. \A d \in Callbacks : Deciding(d, q) => Deciding(d, q)' \/ Open(q) # {}
    BY <1>2, <2>2 DEF Deciding
  <2>4. \A d \in Callbacks : callback'[d].pc = "complete" /\ ProjectOf[callback'[d].post] = q =>
          \/ /\ callback[d].pc = "complete" /\ ProjectOf[callback[d].post] = q
             /\ callback'[d].final = callback[d].final
          \/ Open(q) = {} /\ callback'[d].final = FinalStatus(q)
    BY <1>2, <2>2
  <2> QED  BY <1>1, <1>3, <1>4, <1>5, <2>1, <2>3, <2>4, FollowKept
<1>8. CASE ProjectOf[callback[c].post] = q /\ RewriteStatus(c)
  <2>1. UNCHANGED project /\ callback'[c].pc = "idle" /\ callback[c].pc = "rewrite"
    BY <1>1, <1>8, IdleTypes DEF RewriteStatus, TypeOK
  <2>2. \A d \in Callbacks : Deciding(d, q) => Deciding(d, q)'
    BY <1>2, <2>1 DEF Deciding
  <2>3. \A d \in Callbacks : callback'[d].pc = "complete" => callback'[d] = callback[d]
    BY <1>2, <2>1
  <2> QED  BY <1>1, <1>3, <1>4, <1>5, <2>1, <2>2, <2>3, FollowKept
<1>9. CASE ProjectOf[callback[c].post] = q /\ CompleteProject(c)
  <2>1. /\ callback[c].pc = "complete" /\ callback'[c].pc \in {"rewrite", "idle"}
        /\ \/ project'[q] = callback[c].final
           \/ project'[q] = project[q] /\ ~ProjectExists(q)
    BY <1>1, <1>9 DEF CompleteProject, TypeOK, CallbackState, NoCallback
  <2>2. Open(q) = {} /\ callback[c].final = FinalStatus(q)
    BY <1>3, <1>9, <2>1 DEF Follows, CompletesFollow
  <2>3. PostsOf(q)' = PostsOf(q) /\ Open(q)' = Open(q) /\ FinalStatus(q)' = FinalStatus(q)
    BY <1>5, SamePosts
  <2>4. /\ \A r \in Posts : Busy(r)' => Busy(r)
        /\ \A r \in PostsOf(q) : post'[r].status = post[r].status
    BY <1>4, <1>5 DEF Busy, InJob, Taken, PostsOf
  <2>5. PostsFollow(q)'
    BY <1>3, <1>4, <1>5, <2>4 DEF Follows, PostsFollow
  <2>6. \A u \in Callers : call[u].project = q => call[u].op # "start"
    <3>1. callback[c].post \in PostsOf(q) /\ Busy(callback[c].post)
      BY <1>1, <1>3, <1>9 DEF Follows, PostsFollow, PostsOf, PostExists, NoRow, Busy,
                              TypeOK, CallbackState, Outcome
    <3> QED  BY <1>3, <3>1 DEF Follows, CallsFollow
  <2>7. CallsFollow(q)'
    BY <1>1, <1>3, <2>6 DEF Follows, CallsFollow
  <2>8. CompletesFollow(q)'
    BY <1>2, <1>3, <2>1, <2>3 DEF Follows, CompletesFollow
  <2>9. StatusFollows(q)'
    BY <2>1, <2>2, <2>3 DEF StatusFollows, FinalStatus, ProjectExists, NoRow
  <2> QED  BY <2>5, <2>7, <2>8, <2>9 DEF Follows
<1> QED  BY <1>6, <1>7, <1>8, <1>9 DEF CallbackStep

\* Calls on posts until they write, and the writes.
LEMMA FollowPostCalls ==
  ASSUME PostingInv, OnceInv, FollowInv, NEW u \in Callers,
         \/ \E op \in PostOps, p \in Posts : BeginPostCall(u, op, p)
         \/ CheckPostCall(u) \/ WritePost(u)
  PROVE  FollowInv'
<1> SUFFICES ASSUME NEW q \in Projects, Followed(q)' PROVE Follows(q)'
  BY DEF FollowInv
<1>1. /\ UNCHANGED <<project, tick, running, callback>> /\ TypeOK
      /\ touched \subseteq touched' /\ disturbed \subseteq disturbed'
  BY DEF BeginPostCall, CheckPostCall, WritePost, PostingInv, rows, history
<1>2. Followed(q) /\ Follows(q)
  BY <1>1 DEF Followed, FollowInv
<1>3. /\ \A v \in Callers \ {u} : call'[v] = call[v]
      /\ call'[u].project = None
  <2>1. CASE \E op \in PostOps, p \in Posts : BeginPostCall(u, op, p)
    <3>1. PICK op \in PostOps, p \in Posts : BeginPostCall(u, op, p)
      BY <2>1
    <3> DEFINE new == [NoCall EXCEPT !.pc = "project", !.op = op, !.post = p,
                                     !.seen = post[p].status]
    <3>2. new.project = None /\ call' = [call EXCEPT ![u] = new]
      BY <3>1 DEF BeginPostCall, NoCall
    <3> HIDE DEF new
    <3> QED  BY <1>1, <3>2 DEF TypeOK
  <2>2. CASE CheckPostCall(u)
    <3>1. call[u].project = None
      BY <2>2 DEF CheckPostCall, OnceInv, HeldInv
    <3> QED  BY <1>1, <2>2, <3>1 DEF CheckPostCall, Return, NoCall, TypeOK, CallState
  <2>3. CASE WritePost(u)
    BY <1>1, <2>3 DEF WritePost, Return, NoCall, TypeOK
  <2> QED  BY <2>1, <2>2, <2>3
<1>4. \A p \in Posts : ProjectOf[p] = q => post'[p] = post[p]
  <2>1. CASE WritePost(u)
    <3>1. call[u].post \in Posts
      BY <2>1 DEF WritePost, PostingInv, CallInv
    <3>2. post' = post \/ ProjectOf[call[u].post] \in touched'
      BY <2>1 DEF WritePost
    <3>3. \A p \in Posts \ {call[u].post} : post'[p] = post[p]
      BY <1>1, <2>1, <3>1 DEF WritePost, TypeOK
    <3> QED  BY <3>2, <3>3 DEF Followed
  <2>2. CASE ~WritePost(u)
    BY <2>2 DEF BeginPostCall, CheckPostCall, rows
  <2> QED  BY <2>1, <2>2
<1>5. /\ \A p \in Posts : InJob(p)' => InJob(p)
      /\ \A c \in Callbacks : Deciding(c, q) => Deciding(c, q)'
  BY <1>1 DEF InJob, Taken, Deciding
<1>6. \A v \in Callers : call'[v].project = q => call[v].project = q /\ call'[v].op = call[v].op
  BY <1>3, PostingAssumption
<1> QED  BY <1>1, <1>2, <1>4, <1>5, <1>6, FollowKept

LEMMA FollowBegins ==
  ASSUME PostingInv, OnceInv, FollowInv, NEW u \in Callers, NEW op \in ProjectOps,
         NEW a \in Projects, BeginProjectCall(u, op, a)
  PROVE  FollowInv'
<1> SUFFICES ASSUME NEW q \in Projects, Followed(q)' PROVE Follows(q)'
  BY DEF FollowInv
<1>1. /\ UNCHANGED <<project, post, tick, running, callback, disturbed>> /\ TypeOK
      /\ touched' = touched \cup {r \in {a} : \E v \in Callers : call[v].project = r}
      /\ Permitted(op, a)
  BY DEF BeginProjectCall, PostingInv, rows
<1>2. Followed(q) /\ Follows(q)
  BY <1>1 DEF Followed, FollowInv
<1>3. /\ \A v \in Callers \ {u} : call'[v] = call[v]
      /\ call'[u].project = a /\ call'[u].op = op
  <2> DEFINE new == [NoCall EXCEPT !.pc = "write", !.op = op, !.project = a, !.seen = project[a]]
  <2>1. new.project = a /\ new.op = op /\ call' = [call EXCEPT ![u] = new]
    BY DEF BeginProjectCall, NoCall
  <2> HIDE DEF new
  <2> QED  BY <1>1, <2>1 DEF TypeOK
<1>4. /\ \A p \in Posts : InJob(p)' => InJob(p)
      /\ \A c \in Callbacks : Deciding(c, q) => Deciding(c, q)'
  BY <1>1 DEF InJob, Taken, Deciding
<1>5. CASE a # q
  BY <1>1, <1>2, <1>3, <1>4, <1>5, FollowKept
<1>6. CASE a = q
  <2>1. \A v \in Callers : call[v].project # q
    BY <1>1, <1>6 DEF Followed
  <2>2. /\ PostsFollow(q)' /\ CompletesFollow(q)' /\ StatusFollows(q)'
        /\ PostsOf(q)' = PostsOf(q)
    BY <1>1, <1>2 DEF Follows, PostsFollow, CompletesFollow, StatusFollows, Deciding, InJob,
       Busy, Taken, PostsOf, PostExists, Open, FinalStatus
  <2>3. ASSUME op = "start"
        PROVE  /\ project[q] \in {"DRAFT", "PAUSED"} /\ PostsOf(q) # {}
               /\ \A p \in PostsOf(q) : post[p].status = "PENDING" /\ ~Busy(p)
    <3>1. /\ project[q] \in {"DRAFT", "PAUSED"} /\ PostsOf(q) # {}
          /\ \A p \in PostsOf(q) : ~post[p].due
      BY <1>1, <1>6, <2>3 DEF Permitted
    <3> QED  BY <1>2, <3>1 DEF Follows, PostsFollow, PostsOf, PostExists, NoRow
  <2>4. \A p \in Posts : Busy(p)' <=> Busy(p)
    BY <1>1 DEF Busy
  <2>5. CallsFollow(q)'
    BY <1>1, <1>3, <1>6, <2>1, <2>2, <2>3, <2>4 DEF CallsFollow, PostsOf
  <2> QED  BY <2>2, <2>5 DEF Follows
<1> QED  BY <1>5, <1>6

LEMMA FollowWrites ==
  ASSUME PostingInv, OnceInv, FollowInv, NEW u \in Callers, WriteProject(u)
  PROVE  FollowInv'
<1> SUFFICES ASSUME NEW q \in Projects, Followed(q)' PROVE Follows(q)'
  BY DEF FollowInv
<1>1. /\ UNCHANGED <<tick, running, callback, disturbed>> /\ TypeOK
      /\ touched \subseteq touched'
      /\ call[u].op \in ProjectOps /\ call[u].project \in Projects
      /\ ProjectExists(call[u].project) \/ UNCHANGED <<project, post>>
  BY DEF WriteProject, PostingInv, CallInv, rows
<1> PICK a \in Projects : a = call[u].project
  BY <1>1
<1>2. Followed(q) /\ Follows(q)
  BY <1>1 DEF Followed, FollowInv
<1>3. /\ \A v \in Callers \ {u} : call'[v] = call[v]
      /\ call'[u].project = None
  BY <1>1 DEF WriteProject, Return, NoCall, TypeOK
<1>4. /\ \A p \in Posts : InJob(p)' => InJob(p)
      /\ \A p \in Posts : Busy(p)' <=> Busy(p)
      /\ \A c \in Callbacks : Deciding(c, q)' <=> Deciding(c, q)
      /\ \A v \in Callers : call'[v].project = q => call[v] = call'[v]
  BY <1>1, <1>3, PostingAssumption DEF InJob, Busy, Taken, Deciding
<1>5. CASE a # q \/ ~ProjectExists(a)
  <2>1. project'[q] = project[q]
    BY <1>1, <1>5 DEF WriteProject, SetProject, rows, TypeOK
  <2>2. \A p \in Posts : ProjectOf[p] = q => post'[p] = post[p]
    BY <1>1, <1>5 DEF WriteProject, PostsOf, rows
  <2> QED  BY <1>1, <1>2, <1>4, <2>1, <2>2, FollowKept
<1>6. CASE a = q /\ ProjectExists(a)
  <2>1. /\ UNCHANGED post
        /\ \/ call[u].op = "start" /\ project'[q] = "ACTIVE"
           \/ project'[q] = "PAUSED"
    BY <1>1, <1>6 DEF WriteProject, SetProject, Followed, TypeOK
  <2>2. PostsOf(q)' = PostsOf(q) /\ Open(q)' = Open(q) /\ FinalStatus(q)' = FinalStatus(q)
    BY <2>1, SamePosts
  <2>3. PostsFollow(q)' /\ CompletesFollow(q)'
    BY <1>1, <1>2, <1>4, <2>1, <2>2 DEF Follows, PostsFollow, CompletesFollow
  <2>4. \A v \in Callers : call'[v].project # q
    <3>1. \A v \in Callers : call[v].project = q => v = u
      BY <1>2, <1>6 DEF Follows, CallsFollow
    <3>2. None # q
      BY PostingAssumption
    <3> QED  BY <1>3, <3>1, <3>2
  <2>5. CallsFollow(q)'
    BY <2>4 DEF CallsFollow
  <2>6. call[u].op = "start" => Open(q) # {}
    <3>1. call[u].op = "start" =>
            PostsOf(q) # {} /\ \A p \in PostsOf(q) : post[p].status = "PENDING"
      BY <1>2, <1>6 DEF Follows, CallsFollow
    <3> QED  BY <3>1 DEF Open, Final
  <2>7. StatusFollows(q)'
    BY <2>1, <2>2, <2>6 DEF StatusFollows
  <2> QED  BY <2>3, <2>5, <2>7 DEF Follows
<1> QED  BY <1>5, <1>6

LEMMA FollowOthers ==
  ASSUME PostingInv, OnceInv, FollowInv,
         \/ \E p \in Posts : BecomesDue(p) \/ GenerateAutoPost(p)
         \/ \E a \in Projects : CreateProject(a)
  PROVE  FollowInv'
<1> SUFFICES ASSUME NEW q \in Projects, Followed(q)' PROVE Follows(q)'
  BY DEF FollowInv
<1>1. /\ UNCHANGED <<tick, running, callback, call, disturbed>> /\ TypeOK
      /\ touched \subseteq touched'
  BY DEF BecomesDue, GenerateAutoPost, CreateProject, PostingInv, history
<1>2. Followed(q) /\ Follows(q)
  BY <1>1 DEF Followed, FollowInv
<1>3. /\ \A p \in Posts : InJob(p)' => InJob(p)
      /\ \A p \in Posts : Busy(p)' <=> Busy(p)
      /\ \A c \in Callbacks : Deciding(c, q)' <=> Deciding(c, q)
  BY <1>1 DEF InJob, Busy, Taken, Deciding
<1>4. \A p \in Posts : ProjectOf[p] = q =>
        post'[p].status = post[p].status /\ (post[p].due => post'[p].due)
  BY <1>1 DEF BecomesDue, GenerateAutoPost, CreateProject, Followed, TypeOK
<1>5. \/ project'[q] = project[q]
      \/ project[q] = "none" /\ project'[q] = "DRAFT"
  BY <1>1 DEF BecomesDue, GenerateAutoPost, CreateProject, TypeOK
<1>6. CASE project'[q] = project[q]
  BY <1>1, <1>2, <1>3, <1>4, <1>6, FollowKept
<1>7. CASE project[q] = "none" /\ project'[q] = "DRAFT"
  <2>1. PostsOf(q)' = PostsOf(q) /\ Open(q)' = Open(q) /\ FinalStatus(q)' = FinalStatus(q)
    BY <1>4, SamePosts
  <2>2. PostsFollow(q)' /\ CompletesFollow(q)' /\ StatusFollows(q)'
    BY <1>1, <1>2, <1>3, <1>4, <1>7, <2>1
    DEF Follows, PostsFollow, CompletesFollow, StatusFollows
  <2>3. CallsFollow(q)'
    BY <1>1, <1>2, <1>7 DEF Follows, CallsFollow
  <2> QED  BY <2>2, <2>3 DEF Follows
<1> QED  BY <1>5, <1>6, <1>7

\* A restart finds nothing of a project that it does not disturb in memory.
LEMMA FollowCrash ==
  ASSUME PostingInv, OnceInv, FollowInv, Crash
  PROVE  FollowInv'
<1> SUFFICES ASSUME NEW q \in Projects, Followed(q)' PROVE Follows(q)'
  BY DEF FollowInv
<1>1. /\ UNCHANGED <<project, post, running, touched>>
      /\ disturbed' = disturbed \cup {p \in Posts : Busy(p)}
      /\ \A r \in Posts, t \in Ticks : ~Taken(t, r)'
      /\ \A c \in Callbacks : callback'[c].post = None /\ callback'[c].pc = "idle"
      /\ \A u \in Callers : call'[u].project = None
  BY IdleTypes, PostingAssumption DEF Crash, rows, Taken, NoCallback, NoCall
<1>2. Followed(q) /\ Follows(q)
  BY <1>1 DEF Followed, FollowInv
<1>3. \A c \in Callbacks : ~Deciding(c, q)
  BY <1>1 DEF Followed, Busy, Deciding, PostingInv, CallbackInv
<1>4. /\ \A p \in Posts : InJob(p)' => InJob(p)
      /\ \A p \in Posts, c \in Callbacks : callback'[c].post # p
      /\ \A u \in Callers : call'[u].project # q
  BY <1>1, PostingAssumption DEF InJob
<1> QED  BY <1>1, <1>2, <1>3, <1>4, FollowKept

LEMMA FollowStep == PostingInv /\ OnceInv /\ FollowInv /\ [Next]_vars => FollowInv'
<1> SUFFICES ASSUME PostingInv, OnceInv, FollowInv, [Next]_vars PROVE FollowInv'
  OBVIOUS
<1>1. CASE \E t \in Ticks : StartTick(t) \/ TickStep(t)
  BY <1>1, FollowStartTick, FollowJob
<1>2. CASE \E c \in Callbacks : \/ \E p \in Posts, o \in Outcome : StoreStatus(c, p, o)
                                \/ CallbackStep(c)
  BY <1>2, FollowStores, FollowReports
<1>3. CASE \E u \in Callers : UserStep(u)
  BY <1>3, FollowPostCalls, FollowBegins, FollowWrites DEF UserStep
<1>4. CASE \/ \E p \in Posts : BecomesDue(p) \/ ExecutionLost(p) \/ GenerateAutoPost(p)
           \/ \E q \in Projects : CreateProject(q)
  BY <1>4, FollowOthers, FollowLost
<1>5. CASE Crash
  BY <1>5, FollowCrash
<1>6. CASE UNCHANGED vars
  <2> SUFFICES ASSUME NEW q \in Projects, Followed(q)' PROVE Follows(q)'
    BY DEF FollowInv
  <2>1. Follows(q)
    BY <1>6 DEF vars, history, Followed, FollowInv
  <2>2. /\ \A p \in Posts : InJob(p)' => InJob(p)
        /\ \A c \in Callbacks : Deciding(c, q)' <=> Deciding(c, q)
        /\ UNCHANGED <<project, post, callback, call>>
    BY <1>6 DEF vars, InJob, Taken, Deciding
  <2> QED  BY <2>1, <2>2, FollowKept
<1> QED  BY <1>1, <1>2, <1>3, <1>4, <1>5, <1>6 DEF Next

(* A project that nobody disturbed is active while one of its posts is      *)
(* open, and then tells whether one of them failed: in whatever order       *)
(* updateAutoPostStatus processes the reports, and for any number of posts. *)
THEOREM ProjectsEndWithTheirPosts == Spec => []ProjectFollowsPosts
<1>1. Spec => [](PostingInv /\ OnceInv /\ FollowInv)
  BY PostingInit, OnceInitial, FollowInitial, PostingStep, OnceStep, FollowStep, PTL DEF Spec
<1> QED  BY <1>1, FollowSuffices, PTL

-----------------------------------------------------------------------------
(* AutoPosting implements PostDelivery.  Where an undisturbed post is, is   *)
(* told by the counts of its executions and publications; they only change  *)
(* in three steps.                                                          *)

\* The steps of a call before it writes.
LEMMA CallsOnlyRead ==
  ASSUME NEW u \in Callers, UserStep(u)
  PROVE  \/ WritePost(u)
         \/ WriteProject(u)
         \/ UNCHANGED <<rows, tick, running, callback, crashes, published, started, disturbed>>
<1>1. ASSUME NEW op \in PostOps, NEW p \in Posts, BeginPostCall(u, op, p)
      PROVE  UNCHANGED <<rows, tick, running, callback, crashes, published, started, disturbed>>
  BY <1>1 DEF BeginPostCall, history
<1>2. ASSUME CheckPostCall(u)
      PROVE  UNCHANGED <<rows, tick, running, callback, crashes, published, started, disturbed>>
  BY <1>2 DEF CheckPostCall, history
<1>3. ASSUME NEW op \in ProjectOps, NEW q \in Projects, BeginProjectCall(u, op, q)
      PROVE  UNCHANGED <<rows, tick, running, callback, crashes, published, started, disturbed>>
  BY <1>3 DEF BeginProjectCall
<1> QED  BY <1>1, <1>2, <1>3 DEF UserStep

\* A deleted row stays deleted, and a row is made before it is deleted.
RowStays(p) == /\ post[p].status = "deleted" => post'[p].status = "deleted"
               /\ post[p].status # "none" => post'[p].status # "none"
               /\ post[p].status = "none" => post'[p].status # "deleted"

LEMMA RowsStay ==
  ASSUME PostingInv, [Next]_vars, NEW p \in Posts
  PROVE  RowStays(p)
<1>t. TypeOK
  BY DEF PostingInv
<1>1. ASSUME NEW r \in Posts, NEW status \in PostStatus, SetStatus(r, status), PostExists(r)
      PROVE  RowStays(p)
  BY <1>t, <1>1, PostRowType DEF RowStays, PostExists, NoRow, PostStatus
<1>2. ASSUME NEW t \in Ticks, StartTick(t) \/ TickStep(t)
      PROVE  UNCHANGED post \/ \E r \in Posts : PostExists(r) /\ SetStatus(r, "FAILED")
  <2>1. (\/ StartTick(t) \/ CallN8n(t)
         \/ \E r \in Posts : TriggerPost(t, r) \/ SkipMisconfigured(t, r))
          => UNCHANGED post
    BY DEF StartTick, CallN8n, TriggerPost, SkipMisconfigured, rows
  <2>2. FailPost(t) => UNCHANGED post \/ \E r \in Posts : PostExists(r) /\ SetStatus(r, "FAILED")
    BY DEF FailPost, PostingInv, TickInv
  <2> QED  BY <1>2, <2>1, <2>2 DEF TickStep
<1>3. ASSUME NEW c \in Callbacks,
             CallbackStep(c) \/ \E r \in Posts, o \in Outcome : StoreStatus(c, r, o)
      PROVE  UNCHANGED post \/ \E r \in Posts, o \in Outcome : PostExists(r) /\ SetStatus(r, o)
  <2>1. CheckProject(c) \/ CompleteProject(c) => UNCHANGED post
    BY DEF CheckProject, CompleteProject, rows
  <2>2. RewriteStatus(c) => \/ UNCHANGED post
                            \/ /\ PostExists(callback[c].post)
                               /\ SetStatus(callback[c].post, callback[c].outcome)
    BY DEF RewriteStatus
  <2>3. RewriteStatus(c) => callback[c].post \in Posts /\ callback[c].outcome \in Outcome
    BY <1>t DEF RewriteStatus, PostingInv, CallbackInv, TypeOK, CallbackState
  <2>4. ASSUME NEW r \in Posts, NEW o \in Outcome, StoreStatus(c, r, o)
        PROVE  UNCHANGED post \/ (PostExists(r) /\ SetStatus(r, o))
    BY <2>4 DEF StoreStatus
  <2> QED  BY <1>3, <2>1, <2>2, <2>3, <2>4 DEF CallbackStep
<1>4. ASSUME NEW u \in Callers, UserStep(u)
      PROVE  RowStays(p)
  <2>1. CASE UNCHANGED post
    BY <2>1 DEF RowStays
  <2>2. CASE WritePost(u) /\ ~UNCHANGED post
    <3> DEFINE status == NewStatus(call[u].op, call[u].seen, post[call[u].post].status)
    <3>1. /\ call[u].op \in PostOps /\ call[u].post \in Posts /\ call[u].pc = "write"
          /\ \E due : post' = [post EXCEPT ![call[u].post] = [status |-> status, due |-> due]]
          /\ IF call[u].op = "create" THEN post[call[u].post].status = "none"
             ELSE PostExists(call[u].post)
      BY <2>2 DEF WritePost, PostingInv, CallInv
    <3>2. post[call[u].post].status # "deleted"
      BY <3>1 DEF PostExists, NoRow
    <3>3. call[u].op # "create" => post[call[u].post].status # "none"
      BY <3>1 DEF PostExists, NoRow
    <3>4. status # "none" /\ (call[u].op = "create" => status = "PENDING")
      BY <3>1, <3>3 DEF NewStatus, PostOps
    <3> HIDE DEF status
    <3>5. \/ post'[p] = post[p]
          \/ p = call[u].post /\ post'[p].status = status
      BY <1>t, <3>1 DEF TypeOK
    <3> QED  BY <3>2, <3>3, <3>4, <3>5 DEF RowStays
  <2>3. CASE WriteProject(u) /\ ~UNCHANGED post
    <3>1. \A r \in Posts : [post[r] EXCEPT !.status = "deleted"].status = "deleted"
      BY <1>t DEF TypeOK
    <3>2. \A r \in Posts : \/ post'[r] = post[r]
                           \/ PostExists(r) /\ post'[r].status = "deleted"
      BY <2>3, <3>1 DEF WriteProject, rows, PostsOf
    <3> QED  BY <3>2 DEF RowStays, PostExists, NoRow
  <2>4. ~WritePost(u) /\ ~WriteProject(u) => UNCHANGED post
    BY <1>4, CallsOnlyRead DEF rows
  <2> QED  BY <2>1, <2>2, <2>3, <2>4
<1>5. ASSUME NEW r \in Posts, BecomesDue(r) \/ ExecutionLost(r) \/ GenerateAutoPost(r)
      PROVE  RowStays(p)
  <2>1. \/ post'[p].status = post[p].status
        \/ post[p].status = "none" /\ post'[p].status = "PENDING"
    BY <1>t, <1>5 DEF BecomesDue, ExecutionLost, GenerateAutoPost, TypeOK, rows
  <2> QED  BY <2>1 DEF RowStays
<1>6. (\E q \in Projects : CreateProject(q)) \/ Crash \/ UNCHANGED vars => UNCHANGED post
  BY DEF CreateProject, Crash, vars, rows
<1>7. Outcome \subseteq PostStatus /\ "FAILED" \in PostStatus
  BY DEF Outcome, PostStatus
<1>8. CASE \E t \in Ticks : StartTick(t) \/ TickStep(t)
  BY <1>1, <1>2, <1>7, <1>8 DEF RowStays
<1>9. CASE \E c \in Callbacks :
             CallbackStep(c) \/ \E r \in Posts, o \in Outcome : StoreStatus(c, r, o)
  BY <1>1, <1>3, <1>7, <1>9 DEF RowStays
<1> QED  BY <1>4, <1>5, <1>6, <1>8, <1>9 DEF Next, RowStays

\* The steps that change a count of an undisturbed post.
LEMMA DeliveryWrites ==
  ASSUME PostingInv, [Next]_vars, NEW p \in Posts, p \notin disturbed',
         running'[p] # running[p] \/ published'[p] # published[p]
  PROVE  \/ /\ \E t \in Ticks : CallN8n(t) /\ tick[t].current = p
            /\ running'[p] = running[p] + 1 /\ UNCHANGED <<post, published>>
         \/ /\ \E c \in Callbacks, o \in Outcome : StoreStatus(c, p, o)
            /\ running[p] > 0 /\ running'[p] = running[p] - 1
<1>t. TypeOK
  BY DEF PostingInv
<1>1. ASSUME NEW t \in Ticks, StartTick(t) \/ TickStep(t)
      PROVE  /\ CallN8n(t) /\ tick[t].current = p
             /\ running'[p] = running[p] + 1 /\ UNCHANGED <<post, published>>
  <2>1. ~CallN8n(t) => UNCHANGED <<running, published>>
    BY <1>1 DEF StartTick, TickStep, TriggerPost, SkipMisconfigured, FailPost, history
  <2>2. CallN8n(t)
    BY <2>1
  <2>3. UNCHANGED <<post, published>>
    BY <2>2 DEF CallN8n, rows
  <2> QED  BY <1>t, <2>2, <2>3 DEF CallN8n, TypeOK
<1>2. ASSUME NEW c \in Callbacks, NEW r \in Posts, NEW o \in Outcome, StoreStatus(c, r, o)
      PROVE  r = p /\ running[p] > 0 /\ running'[p] = running[p] - 1
  BY <1>t, <1>2 DEF StoreStatus, Publish, TypeOK
<1>3. ASSUME NEW c \in Callbacks, CallbackStep(c)
      PROVE  UNCHANGED <<running, published>>
  BY <1>3 DEF CallbackStep, CheckProject, CompleteProject, RewriteStatus, history
<1>4. ASSUME NEW u \in Callers, UserStep(u)
      PROVE  UNCHANGED <<running, published>>
  BY <1>4, CallsOnlyRead DEF WritePost, WriteProject
<1>5. ASSUME NEW r \in Posts, BecomesDue(r) \/ GenerateAutoPost(r)
      PROVE  UNCHANGED <<running, published>>
  BY <1>5 DEF BecomesDue, GenerateAutoPost, history
<1>6. ASSUME NEW r \in Posts, ExecutionLost(r)
      PROVE  running'[p] = running[p] /\ published'[p] = published[p]
  BY <1>t, <1>6 DEF ExecutionLost, Publish, TypeOK
<1>7. (\E q \in Projects : CreateProject(q)) \/ Crash \/ UNCHANGED vars
        => UNCHANGED <<running, published>>
  BY DEF CreateProject, Crash, vars, history
<1> QED  BY <1>1, <1>2, <1>3, <1>4, <1>5, <1>6, <1>7 DEF Next

\* Nothing forgets a disturbance.
LEMMA HistoryStays ==
  ASSUME [Next]_vars
  PROVE  disturbed \subseteq disturbed'
<1>1. ASSUME NEW t \in Ticks, StartTick(t) \/ TickStep(t)
      PROVE  disturbed \subseteq disturbed'
  BY <1>1 DEF StartTick, TickStep, TriggerPost, SkipMisconfigured, CallN8n, FailPost, history
<1>2. ASSUME NEW c \in Callbacks,
             CallbackStep(c) \/ \E r \in Posts, o \in Outcome : StoreStatus(c, r, o)
      PROVE  UNCHANGED disturbed
  <2>1. CallbackStep(c) => UNCHANGED disturbed
    BY DEF CallbackStep, CheckProject, CompleteProject, RewriteStatus, history
  <2>2. \A r \in Posts, o \in Outcome : StoreStatus(c, r, o) => UNCHANGED disturbed
    BY DEF StoreStatus
  <2> QED  BY <1>2, <2>1, <2>2
<1>3. ASSUME NEW u \in Callers, UserStep(u)
      PROVE  disturbed \subseteq disturbed'
  BY <1>3, CallsOnlyRead DEF WritePost, WriteProject
<1>4. ASSUME NEW r \in Posts, BecomesDue(r) \/ GenerateAutoPost(r) \/ ExecutionLost(r)
      PROVE  disturbed \subseteq disturbed'
  BY <1>4 DEF BecomesDue, GenerateAutoPost, ExecutionLost, history
<1>5. (\E q \in Projects : CreateProject(q)) \/ Crash \/ UNCHANGED vars
        => disturbed \subseteq disturbed'
  BY DEF CreateProject, Crash, vars, history
<1> QED  BY <1>1, <1>2, <1>3, <1>4, <1>5 DEF Next

\* A run of the job takes a post that is due, and leaves it as it is or FAILED.
Picked(p) == \E t \in Ticks : Taken(t, p)

LEMMA PickedMoves ==
  ASSUME PostingInv, HeldInv, [Next]_vars, NEW p \in Posts, p \notin disturbed',
         running'[p] = running[p]
  PROVE  \/ Picked(p)' <=> Picked(p)
         \/ Picked(p)' /\ p \in DuePosts /\ UNCHANGED <<post, project>>
         \/ /\ ~Picked(p)'
            /\ \/ UNCHANGED post
               \/ post[p].status # "deleted" /\ post'[p].status = "FAILED"
<1>t. TypeOK
  BY DEF PostingInv
<1>1. ASSUME NEW t \in Ticks, StartTick(t)
      PROVE  \/ Picked(p)' <=> Picked(p)
             \/ Picked(p)' /\ p \in DuePosts /\ UNCHANGED <<post, project>>
  <2>1. /\ tick[t].current = None /\ tick[t].queue = {}
        /\ tick'[t].current = None /\ tick'[t].queue = DuePosts
        /\ \A s \in Ticks \ {t} : tick'[s] = tick[s]
    BY <1>t, <1>1, IdleTypes DEF StartTick, TypeOK, TickState
  <2>2. UNCHANGED <<post, project>>
    BY <1>1 DEF StartTick, rows
  <2>3. Picked(p)' <=> Picked(p) \/ p \in DuePosts
    BY <2>1, PostingAssumption DEF Picked, Taken
  <2> QED  BY <2>2, <2>3
<1>2. ASSUME NEW t \in Ticks, NEW r \in Posts, TriggerPost(t, r) \/ SkipMisconfigured(t, r)
      PROVE  Picked(p)' <=> Picked(p)
  <2>1. /\ r \in tick[t].queue /\ tick[t].current = None
        /\ tick'[t].queue = tick[t].queue \ {r} /\ tick'[t].current = r
        /\ \A s \in Ticks \ {t} : tick'[s] = tick[s]
    BY <1>t, <1>2 DEF TriggerPost, SkipMisconfigured, TypeOK, HeldInv
  <2> QED  BY <2>1, PostingAssumption DEF Picked, Taken
<1>3. ASSUME NEW t \in Ticks, CallN8n(t)
      PROVE  Picked(p)' <=> Picked(p)
  <2>1. /\ tick'[t].queue = tick[t].queue
        /\ tick'[t].current \in {tick[t].current, None}
        /\ \A s \in Ticks \ {t} : tick'[s] = tick[s]
    BY <1>t, <1>3 DEF CallN8n, TypeOK, TickState
  <2>2. p = tick[t].current => tick'[t].current = tick[t].current
    BY <1>t, <1>3, PostingAssumption DEF CallN8n, TypeOK, TickState
  <2> QED  BY <2>1, <2>2, PostingAssumption DEF Picked, Taken
<1>4. ASSUME NEW t \in Ticks, FailPost(t)
      PROVE  \/ Picked(p)' <=> Picked(p)
             \/ /\ ~Picked(p)'
                /\ \/ UNCHANGED post
                   \/ post[p].status # "deleted" /\ post'[p].status = "FAILED"
  <2>1. /\ tick'[t].queue \subseteq tick[t].queue /\ tick'[t].current = None
        /\ \A s \in Ticks \ {t} : tick'[s] = tick[s]
    BY <1>t, <1>4, IdleTypes DEF FailPost, TypeOK, TickState
  <2>2. Picked(p)' => Picked(p)
    BY <2>1, PostingAssumption DEF Picked, Taken
  <2>3. CASE UNCHANGED post
    BY <2>2, <2>3
  <2>4. CASE /\ PostExists(tick[t].current) /\ SetStatus(tick[t].current, "FAILED")
             /\ tick'[t].queue = tick[t].queue
    <3>1. p = tick[t].current => post[p].status # "deleted" /\ post'[p].status = "FAILED"
      BY <1>t, <2>4 DEF SetStatus, PostExists, NoRow, TypeOK
    <3>2. p # tick[t].current => (Picked(p) => Picked(p)')
      BY <2>1, <2>4 DEF Picked, Taken
    <3> QED  BY <2>2, <3>1, <3>2
  <2>5. \/ UNCHANGED post
        \/ /\ PostExists(tick[t].current) /\ SetStatus(tick[t].current, "FAILED")
           /\ tick'[t].queue = tick[t].queue
    BY <1>t, <1>4 DEF FailPost, TypeOK, TickState
  <2> QED  BY <2>3, <2>4, <2>5
<1>5. CASE Crash
  <2>1. ~Picked(p)
    BY <1>5 DEF Crash, Busy, Picked, Taken
  <2>2. ~Picked(p)'
    BY <1>5, IdleTypes, PostingAssumption DEF Crash, Picked, Taken
  <2> QED  BY <2>1, <2>2
<1>6. UNCHANGED tick => (Picked(p)' <=> Picked(p))
  BY DEF Picked, Taken
<1>7. ASSUME NEW c \in Callbacks,
             CallbackStep(c) \/ \E r \in Posts, o \in Outcome : StoreStatus(c, r, o)
      PROVE  UNCHANGED tick
  <2>1. CallbackStep(c) => UNCHANGED tick
    BY DEF CallbackStep, CheckProject, CompleteProject, RewriteStatus
  <2>2. \A r \in Posts, o \in Outcome : StoreStatus(c, r, o) => UNCHANGED tick
    BY DEF StoreStatus
  <2> QED  BY <1>7, <2>1, <2>2
<1>8. ASSUME NEW u \in Callers, UserStep(u)
      PROVE  UNCHANGED tick
  BY <1>8, CallsOnlyRead DEF WritePost, WriteProject
<1>9. ASSUME NEW r \in Posts, BecomesDue(r) \/ GenerateAutoPost(r) \/ ExecutionLost(r)
      PROVE  UNCHANGED tick
  BY <1>9 DEF BecomesDue, GenerateAutoPost, ExecutionLost
<1>10. (\E q \in Projects : CreateProject(q)) \/ UNCHANGED vars => UNCHANGED tick
  BY DEF CreateProject, vars
<1> QED  BY <1>1, <1>2, <1>3, <1>4, <1>5, <1>6, <1>7, <1>8, <1>9, <1>10 DEF Next, TickStep

(* What the row and the counts of an undisturbed post can be, and where it  *)
(* is.                                                                      *)
Placed(p) ==
    /\ published[p] \in {0, 1} /\ running[p] \in {0, 1}
    /\ running[p] = 1 => published[p] = 0
    /\ Picked(p) => running[p] = 0 /\ published[p] = 0
    /\ published[p] = 0 => post[p].status # "POSTED"
    /\ published[p] = 1 => post[p].status \in {"POSTED", "deleted"}
    /\ running[p] = 1 => post[p].status # "none"
    /\ PlaceOf(p) = IF published[p] = 1 THEN "published"
                    ELSE IF running[p] = 1 THEN "handed"
                    ELSE IF Picked(p) THEN "picked" ELSE "waiting"

PlacedInv == \A p \in Posts \ disturbed : Placed(p)

LEMMA PlacedSuffices == PostingInv /\ OnceInv => PlacedInv
<1> SUFFICES ASSUME PostingInv, OnceInv, NEW p \in Posts, p \notin disturbed
             PROVE  Placed(p)
  BY DEF PlacedInv
<1>1. OnePlace(p) /\ Says(p) /\ published[p] \in Nat /\ running[p] \in Nat
  BY PostingAssumption DEF OnceInv, PostingInv, TypeOK
<1>2. published[p] \in {0, 1} /\ running[p] \in {0, 1}
  BY <1>1 DEF OnePlace, Says
<1>3. running[p] = 1 => published[p] = 0 /\ post[p].status # "none"
  BY <1>1 DEF OnePlace, Says, Busy
<1>4. /\ published[p] = 0 => post[p].status # "POSTED"
      /\ published[p] = 1 => post[p].status \in {"POSTED", "deleted"}
  BY <1>1 DEF Says
<1>5. Picked(p) => running[p] = 0 /\ published[p] = 0
  BY <1>1 DEF OnePlace, Picked
<1> QED  BY <1>2, <1>3, <1>4, <1>5 DEF Placed, PlaceOf, Picked

\* One step of an undisturbed post, as the abstract specification sees it.
LEMMA PostStep ==
  ASSUME PostingInv, HeldInv, PostingInv', PlacedInv, PlacedInv', [Next]_vars,
         NEW p \in Posts, p \notin disturbed'
  PROVE  \/ Delivery!Pick(p)
         \/ Delivery!HandOver(p)
         \/ Delivery!PutBack(p)
         \/ Delivery!Report(p)
         \/ Delivery!Write(p)
         \/ Delivery!Delete(p)
         \/ Delivery!Stay(p)
<1> DEFINE place  == [r \in Posts |-> PlaceOf(r)]
           status == [r \in Posts |-> post[r].status]
<1>1. Placed(p) /\ Placed(p)'
  BY HistoryStays DEF PlacedInv
<1>2. /\ place[p]  = IF published[p] = 1 THEN "published"
                     ELSE IF running[p] = 1 THEN "handed"
                     ELSE IF Picked(p) THEN "picked" ELSE "waiting"
      /\ place'[p] = IF published'[p] = 1 THEN "published"
                     ELSE IF running'[p] = 1 THEN "handed"
                     ELSE IF Picked(p)' THEN "picked" ELSE "waiting"
  BY <1>1 DEF Placed
<1>3. /\ status[p] = post[p].status /\ status'[p] = post'[p].status
      /\ status[p] = "deleted" => status'[p] = "deleted"
      /\ status[p] # "none" => status'[p] # "none"
      /\ status[p] = "none" => status'[p] # "deleted"
      /\ status'[p] \in Delivery!Status
  BY RowsStay DEF RowStays, PostingInv, TypeOK, Delivery!Status, PostStatus, NoRow
<1> HIDE DEF place, status
<1>4. CASE running'[p] = running[p] /\ published'[p] = published[p]
  <2>1. CASE published[p] = 1
    <3>1. place'[p] = place[p]
      BY <1>2, <1>4, <2>1
    <3>2. status'[p] = status[p] \/ (status[p] # "none" /\ status'[p] = "deleted")
      BY <1>1, <1>3, <1>4, <2>1 DEF Placed
    <3> QED  BY <3>1, <3>2 DEF Delivery!Stay, Delivery!Delete, place, status
  <2>2. CASE published[p] = 0 /\ place'[p] = place[p]
    <3>1. \/ status'[p] = status[p]
          \/ status[p] # "none" /\ status'[p] = "deleted"
          \/ status[p] # "deleted" /\ status'[p] \in {"PENDING", "FAILED", "CANCELLED"}
      BY <1>1, <1>3, <1>4, <2>2 DEF Placed, Delivery!Status
    <3>2. place[p] \in {"waiting", "picked", "handed"}
      BY <1>2, <2>2
    <3> QED  BY <2>2, <3>1, <3>2
             DEF Delivery!Stay, Delivery!Delete, Delivery!Write, place, status
  <2>3. CASE published[p] = 0 /\ place'[p] # place[p]
    <3>1. running[p] = 0 /\ (Picked(p)' <=> ~Picked(p))
      <4>1. running[p] \in {0, 1} /\ running'[p] = running[p] /\ published'[p] = 0
        BY <1>1, <1>4, <2>3 DEF Placed
      <4>2. running[p] # 1
        BY <1>2, <2>3, <4>1
      <4>3. (Picked(p)' <=> Picked(p)) => place'[p] = place[p]
        BY <1>2, <2>3, <4>1
      <4> QED  BY <2>3, <4>1, <4>2, <4>3
    <3>2. CASE Picked(p)' /\ ~Picked(p)
      <4>1. p \in DuePosts /\ UNCHANGED <<post, project>>
        BY <1>4, <3>2, PickedMoves
      <4>2. /\ post[p].status = "PENDING" /\ post[p].due
            /\ project[ProjectOf[p]] = "ACTIVE" /\ ProjectOf[p] \in Projects
        BY <4>1, PostingAssumption DEF DuePosts
      <4>3. place[p] = "waiting" /\ place'[p] = "picked" /\ status'[p] = status[p]
        BY <1>2, <1>3, <1>4, <2>3, <3>1, <3>2, <4>1
      <4> QED  BY <1>3, <4>2, <4>3 DEF Delivery!Pick, Delivery!Goes, place, status
    <3>3. CASE ~Picked(p)' /\ Picked(p)
      <4>1. UNCHANGED post \/ (post[p].status # "deleted" /\ post'[p].status = "FAILED")
        BY <1>4, <3>3, PickedMoves
      <4>2. status'[p] = status[p] \/ (status[p] # "deleted" /\ status'[p] = "FAILED")
        BY <1>3, <4>1
      <4>3. place[p] = "picked" /\ place'[p] = "waiting"
        BY <1>2, <1>4, <2>3, <3>1, <3>3
      <4> QED  BY <4>2, <4>3 DEF Delivery!PutBack, Delivery!Goes, Delivery!Says, place, status
    <3> QED  BY <3>1, <3>2, <3>3
  <2> QED  BY <1>1, <2>1, <2>2, <2>3 DEF Placed
<1>5. CASE /\ \E t \in Ticks : CallN8n(t) /\ tick[t].current = p
           /\ running'[p] = running[p] + 1 /\ UNCHANGED <<post, published>>
  <2>1. Picked(p) /\ running[p] = 0 /\ published[p] = 0 /\ running'[p] = 1 /\ published'[p] = 0
    BY <1>1, <1>5 DEF Placed, Picked, Taken
  <2>2. place[p] = "picked" /\ place'[p] = "handed" /\ status'[p] = status[p]
    BY <1>2, <1>3, <1>5, <2>1
  <2> QED  BY <2>2 DEF Delivery!HandOver, Delivery!Goes, place, status
<1>6. ASSUME NEW c \in Callbacks, NEW o \in Outcome, StoreStatus(c, p, o),
             running[p] > 0, running'[p] = running[p] - 1
      PROVE  Delivery!Report(p)
  <2>1. running[p] = 1 /\ running'[p] = 0 /\ published[p] = 0 /\ ~Picked(p)
    BY <1>1, <1>6 DEF Placed
  <2>2. published'[p] = IF o = "POSTED" THEN 1 ELSE 0
    BY <1>6, <2>1, PostingAssumption DEF StoreStatus, Publish, PostingInv, TypeOK, Outcome
  <2>3. ~Picked(p)'
    BY <1>6, <2>1 DEF StoreStatus, Picked, Taken
  <2>4. place[p] = "handed" /\ place'[p] = IF o = "POSTED" THEN "published" ELSE "waiting"
    BY <1>2, <2>1, <2>2, <2>3
  <2>5. status'[p] = IF status[p] = "deleted" THEN "deleted" ELSE o
    <3>1. PostExists(p) => post'[p].status = o
      BY <1>6, PostRowType DEF StoreStatus, PostingInv, Outcome, PostStatus
    <3>2. PostExists(p) <=> status[p] # "deleted"
      BY <1>1, <1>3, <2>1 DEF Placed, PostExists, NoRow
    <3> QED  BY <1>3, <3>1, <3>2
  <2> QED  BY <2>4, <2>5
           DEF Delivery!Report, Delivery!Goes, Delivery!Says, Outcome, place, status
<1> QED  BY <1>4, <1>5, <1>6, DeliveryWrites

LEMMA DeliveryStep ==
  ASSUME PostingInv, HeldInv, PostingInv', PlacedInv, PlacedInv', [Next]_vars
  PROVE  Delivery!Next
<1>1. [p \in Posts |-> PlaceOf(p)]' \in [Posts -> Delivery!Place]
  BY DEF PlaceOf, Delivery!Place
<1>2. [p \in Posts |-> post[p].status]' \in [Posts -> Delivery!Status]
  BY DEF PostingInv, TypeOK, Delivery!Status, PostStatus, NoRow
<1>3. ASSUME NEW p \in Posts, p \in disturbed' PROVE Delivery!Disturb(p)
  BY <1>3 DEF PlaceOf, Delivery!Disturb
<1> QED  BY <1>1, <1>2, <1>3, PostStep DEF Delivery!Next

(* Scheduled posting implements PostDelivery: under every interleaving of   *)
(* overlapping runs of the job, reports, edits, failures and restarts, an   *)
(* undisturbed post is picked only when it is due, pending and of an active *)
(* project, is handed over once at a time and never after it was published, *)
(* and its row says so from the report on.                                  *)
THEOREM ImplementsDelivery == Spec => DeliverySpec
<1>1. Init => Delivery!Init
  <2> SUFFICES ASSUME Init PROVE Delivery!Init
    OBVIOUS
  <2>1. \A p \in Posts : \A t \in Ticks : ~Taken(t, p)
    BY IdleTypes, PostingAssumption DEF Init, Taken
  <2>2. \A p \in Posts : PlaceOf(p) = "waiting"
    BY <2>1 DEF Init, PlaceOf
  <2>3. [p \in Posts |-> post[p].status] \in [Posts -> {"none", "PENDING"}]
    BY DEF Init
  <2>4. {p \in Posts : post[p].due} = {}
    BY DEF Init
  <2> QED  BY <2>2, <2>3, <2>4 DEF Delivery!Init
<1>2. Spec => [](PostingInv /\ OnceInv)
  BY PostingInit, OnceInitial, PostingStep, OnceStep, PTL DEF Spec
<1>3. PostingInv /\ OnceInv => PlacedInv /\ HeldInv
  BY PlacedSuffices DEF OnceInv
<1>4. PostingInv /\ PostingInv' /\ HeldInv /\ PlacedInv /\ PlacedInv' /\ [Next]_vars
        => [Delivery!Next]_(Delivery!deliveryVars)
  BY DeliveryStep
<1> QED
  BY <1>1, <1>2, <1>3, <1>4, PTL DEF Spec, DeliverySpec, Delivery!Spec
=============================================================================
