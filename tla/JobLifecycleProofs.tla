------------------------- MODULE JobLifecycleProofs -------------------------
EXTENDS JobLifecycle, TLAPS

-----------------------------------------------------------------------------
(* What the steps leave alone. *)

LEMMA HandlerFrame ==
  ASSUME NEW m \in Messages,
         Claim(m) \/ DuplicateSkipped(m) \/ HandlerStep(m) \/ QueueStep(m)
           \/ HandlerFault(m)
  PROVE  /\ UNCHANGED <<threads, served, plan, req, outbound_sent, mails>>
         /\ EnqueueInline(m) \/ Dispatch(m) \/ UNCHANGED pc
  BY DEF HandlerStep, QueueStep, HandlerFault, Claim, DuplicateSkipped, SaveJob,
         EnqueueInline, CreateTask, InlineReturns, InlineEscapes, MarkFailed,
         Dispatch, Respond, ClaimUnanswered, SaveJobFails, CreateTaskFails,
         MarkFailedFails, CrashHandler, Deadline, store, run

LEMMA RunFrame ==
  ASSUME NEW e \in Execs, RunStep(e) \/ RunFault(e)
  PROVE  /\ CrashRun(e) \/ UNCHANGED <<hook, task>>
         /\ UNCHANGED <<acked, attempts>>
         /\ pc[e] \in Live
         /\ \/ UNCHANGED jobs
            \/ jobs' = [jobs EXCEPT ![Mid(e)] = "done"]
            \/ jobs' = [jobs EXCEPT ![Mid(e)] = "failed"]
  BY DEF RunStep, RunFault, VerifyOidc, Load, Classify, Extract, Merge, Scrape,
         Package, Reply, Upsert, DoneWrite, Apologise, FailWrite, StageFails,
         ReplyUnanswered, UpsertFails, DoneWriteUnanswered, ApologiseFails,
         FailWriteFails, CrashRun, store, front, queue, Live, Stages

(* A step of one run is invisible to the others. *)
LEMMA RunLocal ==
  ASSUME TypeOK, NEW e \in Execs, RunStep(e) \/ RunFault(e),
         NEW f \in Execs, f # e
  PROVE  /\ pc'[f] = pc[f] /\ plan'[f] = plan[f] /\ req'[f] = req[f]
         /\ mails'[f] = mails[f] /\ outbound_sent'[f] = outbound_sent[f]
<1>1. CASE RunStep(e)
  BY <1>1 DEF TypeOK, RunStep, VerifyOidc, Load, Classify, Decide, Extract,
         Merge, Scrape, Package, Reply, Upsert, DoneWrite, Apologise, FailWrite
<1>2. CASE RunFault(e)
  BY <1>2 DEF TypeOK, RunFault, StageFails, ReplyUnanswered, UpsertFails,
         DoneWriteUnanswered, ApologiseFails, FailWriteFails, CrashRun
<1>q. QED
  BY <1>1, <1>2

-----------------------------------------------------------------------------
(* Types, and the bookkeeping of the queue they rest on. *)

LEMMA TypeInit == Init => TypeOK /\ QueueInv
  BY DataAssumption, BoundAssumption
     DEF Init, TypeOK, QueueInv, Requests, Opening, Labels, Plans

LEMMA TypeHandler ==
  ASSUME TypeOK, QueueInv, NEW m \in Messages,
         Claim(m) \/ DuplicateSkipped(m) \/ HandlerStep(m) \/ QueueStep(m)
           \/ HandlerFault(m)
  PROVE  TypeOK'
<1> USE BoundAssumption DEF TypeOK, store, front, queue, run
<1>1. CASE Claim(m)
  BY <1>1 DEF Claim
<1>2. CASE DuplicateSkipped(m)
  BY <1>2 DEF DuplicateSkipped
<1>3. CASE SaveJob(m)
  BY <1>3 DEF SaveJob
<1>4. CASE EnqueueInline(m)
  BY <1>4 DEF EnqueueInline, Labels, Live, Stages
<1>5. CASE CreateTask(m)
  BY <1>5 DEF CreateTask
<1>6. CASE InlineReturns(m) \/ InlineEscapes(m)
  BY <1>6 DEF InlineReturns, InlineEscapes
<1>7. CASE MarkFailed(m)
  BY <1>7 DEF MarkFailed, Terminal
<1>8. CASE Dispatch(m)
  <2>1. attempts' \in [Messages -> 0 .. MaxAttempts]
    BY <1>8 DEF Dispatch, QueueInv
  <2>2. pc' \in [Execs -> Labels]
    BY <1>8 DEF Dispatch, Labels, Live, Stages
  <2>q. QED
    BY <1>8, <2>1, <2>2 DEF Dispatch
<1>9. CASE Respond(m)
  BY <1>9 DEF Respond, Requeue
<1>10. CASE ClaimUnanswered(m)
  BY <1>10 DEF ClaimUnanswered, Fault
<1>11. CASE SaveJobFails(m)
  BY <1>11 DEF SaveJobFails, Fault
<1>12. CASE CreateTaskFails(m)
  BY <1>12 DEF CreateTaskFails, Fault
<1>13. CASE MarkFailedFails(m)
  BY <1>13 DEF MarkFailedFails, Fault, Terminal
<1>14. CASE CrashHandler(m)
  BY <1>14 DEF CrashHandler, Fault
<1>15. CASE Deadline(m)
  BY <1>15 DEF Deadline, Fault, Requeue
<1>q. QED
  BY <1>1, <1>2, <1>3, <1>4, <1>5, <1>6, <1>7, <1>8, <1>9, <1>10, <1>11,
     <1>12, <1>13, <1>14, <1>15 DEF HandlerStep, QueueStep, HandlerFault

LEMMA TypeRun ==
  ASSUME TypeOK, NEW e \in Execs, RunStep(e) \/ RunFault(e)
  PROVE  TypeOK'
<1> USE BoundAssumption DEF TypeOK, store, front, queue
<1>1. CASE VerifyOidc(e) \/ Load(e) \/ Package(e)
  BY <1>1 DEF VerifyOidc, Load, Package, Labels, Live, Stages
<1>2. CASE Classify(e)
  BY <1>2 DEF Classify, Decide, Labels, Live, Stages, Plans, Kinds
<1>3. CASE Extract(e)
  BY <1>3, DataAssumption DEF Extract, Labels, Live, Stages, Execs, Mid
<1>4. CASE Merge(e)
  <2>1. Inherit(req[e], ContextOf(Mid(e))) \in Requests
    BY DataAssumption DEF Inherit, ContextOf, Requests, Execs, Mid
  <2>2. req' \in [Execs -> Requests]
    BY <1>4, <2>1 DEF Merge
  <2>3. plan' \in [Execs -> Plans] /\ pc' \in [Execs -> Labels]
    BY <1>4 DEF Merge, Labels, Live, Stages, Plans, Kinds
  <2>q. QED
    BY <1>4, <2>2, <2>3 DEF Merge
<1>5. CASE Scrape(e)
  BY <1>5 DEF Scrape, Decide, Labels, Live, Stages, Plans, Kinds
<1>6. CASE Reply(e)
  BY <1>6 DEF Reply, Labels, Live, Stages
<1>7. CASE Upsert(e)
  <2>1. threads' \in [Threads -> Requests \cup {None}]
    BY <1>7 DEF Upsert
  <2>2. served' \in [Threads -> Messages \cup {None}]
    BY <1>7 DEF Upsert, Execs, Mid
  <2>q. QED
    BY <1>7, <2>1, <2>2 DEF Upsert, Labels, Live, Stages
<1>8. CASE DoneWrite(e) \/ FailWrite(e)
  BY <1>8 DEF DoneWrite, FailWrite, Labels, Terminal
<1>9. CASE Apologise(e)
  BY <1>9 DEF Apologise, Labels, Live, Kinds
<1>10. CASE StageFails(e)
  BY <1>10 DEF StageFails, Handler, Fault, Labels, Live
<1>11. CASE ReplyUnanswered(e)
  BY <1>11 DEF ReplyUnanswered, Handler, Fault, Labels, Live
<1>12. CASE UpsertFails(e) \/ ApologiseFails(e)
  BY <1>12 DEF UpsertFails, ApologiseFails, Fault, Labels, Live, Stages
<1>13. CASE DoneWriteUnanswered(e)
  <2>1. jobs' \in [Messages -> {"absent", "claimed", "processing"} \cup Terminal]
    BY <1>13 DEF DoneWriteUnanswered, Terminal
  <2>2. pc' \in [Execs -> Labels]
    BY <1>13 DEF DoneWriteUnanswered, Handler, Labels, Live
  <2>q. QED
    BY <1>13, <2>1, <2>2 DEF DoneWriteUnanswered, Fault
<1>14. CASE FailWriteFails(e)
  BY <1>14 DEF FailWriteFails, Fault, Labels, Terminal
<1>15. CASE CrashRun(e)
  BY <1>15 DEF CrashRun, Requeue, Fault, Labels, Execs, Mid
<1>q. QED
  BY <1>1, <1>2, <1>3, <1>4, <1>5, <1>6, <1>7, <1>8, <1>9, <1>10, <1>11,
     <1>12, <1>13, <1>14, <1>15 DEF RunStep, RunFault

LEMMA QueueInvStep ==
  ASSUME TypeOK, QueueInv, JobInv, [Next]_vars
  PROVE  QueueInv'
<1> USE BoundAssumption, ModeAssumption
    DEF TypeOK, QueueInv, Opening, store, front, queue, run
<1>1. ASSUME NEW m \in Messages, HandlerStep(m) PROVE QueueInv'
  BY <1>1 DEF HandlerStep, SaveJob, EnqueueInline, CreateTask, InlineReturns,
              InlineEscapes, MarkFailed
<1>2. ASSUME NEW m \in Messages, Dispatch(m) PROVE QueueInv'
  BY <1>2 DEF Dispatch
<1>3. ASSUME NEW m \in Messages, Respond(m) \/ Deadline(m) PROVE QueueInv'
  BY <1>3 DEF Respond, Deadline, Requeue
<1>4. ASSUME NEW m \in Messages,
             Claim(m) \/ DuplicateSkipped(m) \/ ClaimUnanswered(m)
      PROVE  QueueInv'
  <2>1. CASE Claim(m)
    BY <2>1 DEF Claim
  <2>2. CASE DuplicateSkipped(m)
    BY <2>2 DEF DuplicateSkipped
  <2>3. CASE ClaimUnanswered(m)
    BY <2>3 DEF ClaimUnanswered
  <2>q. QED
    BY <1>4, <2>1, <2>2, <2>3
<1>5. ASSUME NEW m \in Messages,
             SaveJobFails(m) \/ CreateTaskFails(m) \/ MarkFailedFails(m)
               \/ CrashHandler(m)
      PROVE  QueueInv'
  <2>1. CASE SaveJobFails(m)
    BY <2>1 DEF SaveJobFails
  <2>2. CASE CreateTaskFails(m)
    BY <2>2 DEF CreateTaskFails
  <2>3. CASE MarkFailedFails(m)
    BY <2>3 DEF MarkFailedFails
  <2>4. CASE CrashHandler(m)
    BY <2>4 DEF CrashHandler
  <2>q. QED
    BY <1>5, <2>1, <2>2, <2>3, <2>4
<1>6. ASSUME NEW e \in Execs, CrashRun(e) PROVE QueueInv'
  <2>1. Mid(e) \in Messages
    BY DEF Execs, Mid
  <2>2. jobs[Mid(e)] # "absent" /\ UNCHANGED <<jobs, attempts>>
    BY <1>6 DEF CrashRun, JobInv, Saved, Terminal, Live, Stages
  <2>3. CASE hook' = [hook EXCEPT ![Mid(e)] = "dead"] /\ UNCHANGED task
    BY <2>1, <2>2, <2>3
  <2>4. CASE Awaited(e) /\ Requeue(Mid(e)) /\ UNCHANGED hook
    BY <2>1, <2>2, <2>4 DEF Awaited, Requeue
  <2>5. CASE UNCHANGED <<hook, task>>
    BY <2>2, <2>5
  <2>q. QED
    BY <1>6, <2>3, <2>4, <2>5 DEF CrashRun
<1>7. ASSUME NEW e \in Execs, ~CrashRun(e), RunStep(e) \/ RunFault(e)
      PROVE  QueueInv'
  BY <1>7, RunFrame DEF Execs, Mid
<1>8. CASE UNCHANGED vars
  BY <1>8 DEF vars
<1>q. QED
  BY <1>1, <1>2, <1>3, <1>4, <1>5, <1>6, <1>7, <1>8
     DEF Next, QueueStep, HandlerFault

LEMMA TypeStep ==
  ASSUME TypeOK, QueueInv, JobInv, [Next]_vars
  PROVE  TypeOK' /\ QueueInv'
<1>1. CASE UNCHANGED vars
  BY <1>1 DEF vars, TypeOK, QueueInv
<1>q. QED
  BY <1>1, TypeHandler, TypeRun, QueueInvStep DEF Next

-----------------------------------------------------------------------------
(* A run is idle until it is started. *)

(* No step takes a handler back to before its dispatch. *)
LEMMA OpeningFrame ==
  ASSUME TypeOK, JobInv, QueueInv, NEW m \in Messages,
         Claim(m) \/ DuplicateSkipped(m) \/ HandlerStep(m) \/ QueueStep(m)
           \/ HandlerFault(m),
         NEW n \in Messages, hook'[n] \in Opening
  PROVE  hook[n] \in Opening
<1> USE DEF TypeOK, Opening
<1>1. CASE Claim(m) \/ ClaimUnanswered(m)
  BY <1>1 DEF Claim, ClaimUnanswered, QueueInv
<1>2. CASE DuplicateSkipped(m) \/ QueueStep(m) \/ Deadline(m)
  BY <1>2 DEF DuplicateSkipped, QueueStep, Dispatch, Respond, Deadline, front
<1>3. CASE HandlerStep(m)
  BY <1>3 DEF HandlerStep, SaveJob, EnqueueInline, CreateTask, InlineReturns,
              InlineEscapes, MarkFailed
<1>4. CASE SaveJobFails(m) \/ CreateTaskFails(m) \/ MarkFailedFails(m)
             \/ CrashHandler(m)
  BY <1>4 DEF SaveJobFails, CreateTaskFails, MarkFailedFails, CrashHandler
<1>q. QED
  BY <1>1, <1>2, <1>3, <1>4 DEF HandlerFault

LEMMA StartInvStep ==
  ASSUME TypeOK, QueueInv, StartInv, JobInv, [Next]_vars
  PROVE  StartInv'
<1> USE BoundAssumption, ModeAssumption DEF Execs, Mid
<1>1. ASSUME NEW m \in Messages,
             Claim(m) \/ DuplicateSkipped(m) \/ HandlerStep(m) \/ QueueStep(m)
               \/ HandlerFault(m)
      PROVE  StartInv'
  <2>1. \A n \in Messages : hook'[n] \in Opening => hook[n] \in Opening
    BY <1>1, OpeningFrame
  <2>2. CASE EnqueueInline(m)
    BY <2>1, <2>2 DEF EnqueueInline, StartInv, TypeOK, queue, Opening
  <2>3. CASE Dispatch(m)
    <3>1. QueueMode = "tasks"
      BY <2>3 DEF Dispatch, QueueInv
    <3>q. QED
      BY <2>3, <3>1 DEF Dispatch, StartInv, TypeOK
  <2>4. CASE UNCHANGED <<pc, attempts>>
    BY <2>1, <2>4 DEF StartInv
  <2>5. EnqueueInline(m) \/ Dispatch(m) \/ UNCHANGED <<pc, attempts>>
    BY <1>1 DEF HandlerStep, QueueStep, HandlerFault, Claim, DuplicateSkipped,
         SaveJob, CreateTask, InlineReturns, InlineEscapes, MarkFailed, Respond,
         ClaimUnanswered, SaveJobFails, CreateTaskFails, MarkFailedFails,
         CrashHandler, Deadline, queue, run
  <2>q. QED
    BY <2>2, <2>3, <2>4, <2>5
<1>2. ASSUME NEW e \in Execs, RunStep(e) \/ RunFault(e)
      PROVE  StartInv'
  <2>1. pc[e] # "idle" /\ UNCHANGED attempts
    BY <1>2, RunFrame DEF Live, Stages
  <2>2. \A f \in Execs : f # e => pc'[f] = pc[f]
    BY <1>2, RunLocal
  <2>3. hook' = hook \/ hook' = [hook EXCEPT ![Mid(e)] = "dead"]
    BY <1>2, RunFrame DEF CrashRun
  <2>q. QED
    BY <2>1, <2>2, <2>3 DEF StartInv, TypeOK, Opening
<1>3. CASE UNCHANGED vars
  BY <1>3 DEF vars, StartInv
<1>q. QED
  BY <1>1, <1>2, <1>3 DEF Next

-----------------------------------------------------------------------------
(* What a run has decided and sent by the time it gets somewhere. *)

LEMMA PlanInvStep ==
  ASSUME TypeOK, QueueInv, StartInv, PlanInv, [Next]_vars
  PROVE  PlanInv'
<1>1. ASSUME NEW m \in Messages,
             Claim(m) \/ DuplicateSkipped(m) \/ HandlerStep(m) \/ QueueStep(m)
               \/ HandlerFault(m)
      PROVE  PlanInv'
  <2>1. UNCHANGED <<plan, outbound_sent, mails>>
    BY <1>1, HandlerFrame
  <2>2. CASE EnqueueInline(m)
    <3>1. <<m, 1>> \in Execs /\ pc[<<m, 1>>] = "idle"
      BY <2>2, BoundAssumption DEF EnqueueInline, StartInv, Execs, Mid, Opening
    <3>q. QED
      BY <2>1, <2>2, <3>1 DEF EnqueueInline, PlanInv, TypeOK, Early, Answered
  <2>3. CASE Dispatch(m)
    <3>1. QueueMode = "tasks" /\ attempts[m] < MaxAttempts
      BY <2>3, ModeAssumption DEF Dispatch, QueueInv
    <3>2. /\ <<m, attempts[m] + 1>> \in Execs
          /\ pc[<<m, attempts[m] + 1>>] = "idle"
      BY <3>1, BoundAssumption DEF StartInv, TypeOK, Execs, Mid
    <3>q. QED
      BY <2>1, <2>3, <3>2 DEF Dispatch, PlanInv, TypeOK, Early, Answered
  <2>4. CASE UNCHANGED pc
    BY <2>1, <2>4 DEF PlanInv, Answered
  <2>q. QED
    BY <1>1, <2>2, <2>3, <2>4, HandlerFrame
<1>2. ASSUME NEW e \in Execs, RunStep(e) \/ RunFault(e)
      PROVE  PlanInv'
  <2> DEFINE Good(f) ==
        /\ pc[f] \in Early =>
             plan[f] \in {"undecided", "request"} /\ mails[f] = {} /\ ~outbound_sent[f]
        /\ pc[f] = "package" => plan[f] = "documents"
        /\ pc[f] = "reply" => plan[f] \in Kinds \ {"failure"}
        /\ pc[f] = "upsert" => plan[f] \in {"empty", "documents"} \cap mails[f]
        /\ pc[f] = "done_write" => Answered(f)
  <2>1. \A f \in Execs : Good(f)
    BY DEF PlanInv
  <2>2. \A f \in Execs : f # e => Good(f)'
    BY <1>2, <2>1, RunLocal DEF Answered
  <2>3. Good(e)'
    <3> USE <2>1 DEF TypeOK, Early, Kinds, Answered
    <3>1. CASE VerifyOidc(e) \/ Load(e) \/ Extract(e) \/ Package(e)
      BY <3>1 DEF VerifyOidc, Load, Extract, Package
    <3>2. CASE Classify(e)
      BY <3>2 DEF Classify, Decide
    <3>3. CASE Merge(e)
      BY <3>3 DEF Merge
    <3>4. CASE Scrape(e)
      BY <3>4 DEF Scrape, Decide
    <3>5. CASE Reply(e)
      BY <3>5 DEF Reply
    <3>6. CASE Upsert(e) \/ UpsertFails(e)
      BY <3>6 DEF Upsert, UpsertFails
    <3>7. CASE DoneWrite(e) \/ FailWrite(e) \/ Apologise(e)
      BY <3>7 DEF DoneWrite, FailWrite, Apologise
    <3>8. CASE StageFails(e)
      BY <3>8 DEF StageFails, Handler
    <3>9. CASE ReplyUnanswered(e) \/ DoneWriteUnanswered(e)
      BY <3>9 DEF ReplyUnanswered, DoneWriteUnanswered, Handler
    <3>10. CASE ApologiseFails(e) \/ FailWriteFails(e) \/ CrashRun(e)
      BY <3>10 DEF ApologiseFails, FailWriteFails, CrashRun
    <3>q. QED
      BY <1>2, <3>1, <3>2, <3>3, <3>4, <3>5, <3>6, <3>7, <3>8, <3>9, <3>10
         DEF RunStep, RunFault
  <2>q. QED
    BY <2>2, <2>3 DEF PlanInv
<1>3. CASE UNCHANGED vars
  BY <1>3 DEF vars, PlanInv, Answered
<1>q. QED
  BY <1>1, <1>2, <1>3 DEF Next

-----------------------------------------------------------------------------
(* The row of a message against its handler, its task and its runs. *)

(* What happens to the row of a run's message when the run takes a step. *)
LEMMA RunSettles ==
  ASSUME TypeOK, JobInv, NEW e \in Execs, RunStep(e) \/ RunFault(e)
  PROVE  /\ Saved(Mid(e)) /\ Saved(Mid(e))'
         /\ jobs[Mid(e)] \in Terminal => jobs'[Mid(e)] \in Terminal
         /\ pc'[e] = "returned" => jobs'[Mid(e)] \in Terminal
         /\ \A m \in Messages : m # Mid(e) => jobs'[m] = jobs[m]
<1>1. Mid(e) \in Messages /\ Saved(Mid(e))
  BY RunFrame DEF Execs, Mid, JobInv, Live, Stages
<1>2. /\ Saved(Mid(e))'
      /\ jobs[Mid(e)] \in Terminal => jobs'[Mid(e)] \in Terminal
      /\ \A m \in Messages : m # Mid(e) => jobs'[m] = jobs[m]
  BY <1>1, RunFrame DEF TypeOK, Saved, Terminal
<1>3. ASSUME pc'[e] = "returned" PROVE jobs'[Mid(e)] \in Terminal
  <2>1. CASE RunStep(e)
    BY <1>1, <1>3, <2>1
       DEF TypeOK, Saved, Terminal, RunStep, VerifyOidc, Load, Classify, Decide,
           Extract, Merge, Scrape, Package, Reply, Upsert, DoneWrite, Apologise,
           FailWrite
  <2>2. CASE RunFault(e)
    BY <1>3, <2>2
       DEF TypeOK, RunFault, StageFails, ReplyUnanswered, UpsertFails,
           DoneWriteUnanswered, ApologiseFails, FailWriteFails, CrashRun, Handler
  <2>q. QED
    BY <2>1, <2>2
<1>q. QED
  BY <1>1, <1>2, <1>3

LEMMA JobInvHandler ==
  ASSUME TypeOK, QueueInv, StartInv, JobInv, OwnerInv, NEW m \in Messages,
         Claim(m) \/ DuplicateSkipped(m) \/ HandlerStep(m) \/ QueueStep(m)
           \/ HandlerFault(m)
  PROVE  JobInv'
<1> USE BoundAssumption, ModeAssumption
    DEF TypeOK, JobInv, Saved, Terminal, Execs, Mid, store, front, queue, run
<1>1. CASE Claim(m)
  BY <1>1 DEF Claim, QueueInv, Opening
<1>2. CASE DuplicateSkipped(m)
  BY <1>2 DEF DuplicateSkipped
<1>3. CASE SaveJob(m)
  BY <1>3 DEF SaveJob
<1>4. CASE EnqueueInline(m)
  BY <1>4 DEF EnqueueInline
<1>5. CASE CreateTask(m)
  BY <1>5 DEF CreateTask
<1>6. CASE InlineReturns(m)
  BY <1>6 DEF InlineReturns
<1>7. CASE InlineEscapes(m)
  BY <1>7 DEF InlineEscapes
<1>8. CASE MarkFailed(m)
  BY <1>8 DEF MarkFailed
<1>9. CASE Dispatch(m)
  BY <1>9 DEF Dispatch
<1>10. CASE Respond(m)
  BY <1>10 DEF Respond, Requeue, QueueInv
<1>11. CASE ClaimUnanswered(m)
  BY <1>11 DEF ClaimUnanswered, QueueInv, Opening
<1>12. CASE SaveJobFails(m)
  BY <1>12 DEF SaveJobFails
<1>13. CASE CreateTaskFails(m)
  BY <1>13 DEF CreateTaskFails
<1>14. CASE MarkFailedFails(m)
  BY <1>14 DEF MarkFailedFails
<1>15. CASE CrashHandler(m)
  BY <1>15 DEF CrashHandler
<1>16. CASE Deadline(m)
  BY <1>16 DEF Deadline, Requeue
<1>q. QED
  BY <1>1, <1>2, <1>3, <1>4, <1>5, <1>6, <1>7, <1>8, <1>9, <1>10, <1>11,
     <1>12, <1>13, <1>14, <1>15, <1>16 DEF HandlerStep, QueueStep, HandlerFault

LEMMA JobInvRun ==
  ASSUME TypeOK, QueueInv, JobInv, NEW e \in Execs, RunStep(e) \/ RunFault(e)
  PROVE  JobInv'
<1>1. Mid(e) \in Messages
  BY DEF Execs, Mid
<1>2. \/ UNCHANGED <<hook, task>>
      \/ hook' = [hook EXCEPT ![Mid(e)] = "dead"] /\ UNCHANGED task
      \/ \E w \in {"queued", "exhausted"} :
           task' = [task EXCEPT ![Mid(e)] = w] /\ UNCHANGED hook
  BY RunFrame DEF CrashRun, Requeue
<1>3. \A f \in Execs : f # e => pc'[f] = pc[f]
  BY RunLocal
<1>4. ASSUME NEW m \in Messages
      PROVE  /\ hook'[m] = "idle" => jobs'[m] = "absent"
             /\ hook'[m] = "save" => jobs'[m] = "claimed"
             /\ hook'[m] \in {"enqueue", "await", "mark_failed"} => Saved(m)'
             /\ task'[m] # "none" => Saved(m)'
             /\ hook'[m] = "answered" => jobs'[m] \in Terminal \/ task'[m] # "none"
             /\ task'[m] = "finished" => jobs'[m] \in Terminal
  BY <1>1, <1>2, RunSettles DEF JobInv, TypeOK, Saved, Terminal
<1>5. ASSUME NEW f \in Execs
      PROVE  /\ pc'[f] # "idle" => Saved(Mid(f))'
             /\ pc'[f] = "returned" => jobs'[Mid(f)] \in Terminal
  BY <1>1, <1>3, RunSettles DEF JobInv, Saved, Execs, Mid
<1>q. QED
  BY <1>4, <1>5 DEF JobInv

LEMMA JobInvStep ==
  ASSUME TypeOK, QueueInv, StartInv, JobInv, OwnerInv, [Next]_vars
  PROVE  JobInv'
<1>1. CASE UNCHANGED vars
  BY <1>1 DEF vars, JobInv, Saved
<1>q. QED
  BY <1>1, JobInvHandler, JobInvRun DEF Next

-----------------------------------------------------------------------------
(* A handler or a task that waits for a run waits for one that is there. *)

(* A running task's current attempt, and a handler's only run, are Execs. *)
LEMMA CurrentExec ==
  ASSUME TypeOK, QueueInv, NEW m \in Messages
  PROVE  /\ <<m, 1>> \in Execs
         /\ task[m] = "running" => <<m, attempts[m]>> \in Execs
  BY BoundAssumption DEF TypeOK, QueueInv, Execs

LEMMA OwnerInvHandler ==
  ASSUME TypeOK, QueueInv, StartInv, JobInv, OwnerInv, NEW m \in Messages,
         Claim(m) \/ DuplicateSkipped(m) \/ HandlerStep(m) \/ QueueStep(m)
           \/ HandlerFault(m)
  PROVE  OwnerInv'
<1> USE BoundAssumption, ModeAssumption
    DEF TypeOK, OwnerInv, Live, Stages, Over, Execs, store, front, queue, run
<1>1. CASE Claim(m)
  BY <1>1 DEF Claim, QueueInv, Opening
<1>2. CASE DuplicateSkipped(m)
  BY <1>2 DEF DuplicateSkipped, JobInv
<1>3. CASE SaveJob(m)
  BY <1>3 DEF SaveJob
<1>4. CASE EnqueueInline(m)
  <2>1. task[m] = "none" /\ pc'[<<m, 1>>] = "load" /\ <<m, 1>> \in Execs
    BY <1>4 DEF EnqueueInline, QueueInv
  <2>2. \A e \in Execs : e # <<m, 1>> => pc'[e] = pc[e]
    BY <1>4 DEF EnqueueInline
  <2>3. \A n \in Messages : n # m =>
          /\ pc'[<<n, 1>>] = pc[<<n, 1>>]
          /\ task[n] = "running" => pc'[<<n, attempts[n]>>] = pc[<<n, attempts[n]>>]
    BY <2>2, CurrentExec
  <2>4. ASSUME NEW n \in Messages
        PROVE  /\ task'[n] = "running" => pc'[<<n, attempts'[n]>>] \in Live \cup Over
               /\ hook'[n] = "await" => pc'[<<n, 1>>] \in Live \cup Over
               /\ n \in acked' => hook'[n] # "idle"
    <3>1. CASE n = m
      BY <1>4, <2>1, <3>1 DEF EnqueueInline
    <3>2. CASE n # m
      BY <1>4, <2>3, <3>2 DEF EnqueueInline
    <3>q. QED
      BY <3>1, <3>2
  <2>q. QED
    BY <2>4
<1>5. CASE CreateTask(m)
  BY <1>5 DEF CreateTask
<1>6. CASE InlineReturns(m)
  BY <1>6 DEF InlineReturns
<1>7. CASE InlineEscapes(m)
  BY <1>7 DEF InlineEscapes
<1>8. CASE MarkFailed(m)
  BY <1>8 DEF MarkFailed
<1>9. CASE Dispatch(m)
  <2>1. /\ <<m, attempts[m] + 1>> \in Execs /\ hook[m] # "await"
        /\ pc'[<<m, attempts'[m]>>] = "verify"
    BY <1>9 DEF Dispatch, QueueInv
  <2>2. \A e \in Execs : e # <<m, attempts[m] + 1>> => pc'[e] = pc[e]
    BY <1>9 DEF Dispatch
  <2>3. \A n \in Messages : n # m =>
          /\ pc'[<<n, 1>>] = pc[<<n, 1>>]
          /\ task[n] = "running" => pc'[<<n, attempts[n]>>] = pc[<<n, attempts[n]>>]
    BY <2>2, CurrentExec
  <2>4. ASSUME NEW n \in Messages
        PROVE  /\ task'[n] = "running" => pc'[<<n, attempts'[n]>>] \in Live \cup Over
               /\ hook'[n] = "await" => pc'[<<n, 1>>] \in Live \cup Over
               /\ n \in acked' => hook'[n] # "idle"
    <3>1. CASE n = m
      BY <1>9, <2>1, <3>1 DEF Dispatch
    <3>2. CASE n # m
      BY <1>9, <2>3, <3>2 DEF Dispatch
    <3>q. QED
      BY <3>1, <3>2
  <2>q. QED
    BY <2>4
<1>10. CASE Respond(m)
  BY <1>10 DEF Respond, Requeue
<1>11. CASE ClaimUnanswered(m)
  BY <1>11 DEF ClaimUnanswered
<1>12. CASE SaveJobFails(m)
  BY <1>12 DEF SaveJobFails
<1>13. CASE CreateTaskFails(m)
  BY <1>13 DEF CreateTaskFails
<1>14. CASE MarkFailedFails(m)
  BY <1>14 DEF MarkFailedFails
<1>15. CASE CrashHandler(m)
  BY <1>15 DEF CrashHandler
<1>16. CASE Deadline(m)
  BY <1>16 DEF Deadline, Requeue
<1>q. QED
  BY <1>1, <1>2, <1>3, <1>4, <1>5, <1>6, <1>7, <1>8, <1>9, <1>10, <1>11,
     <1>12, <1>13, <1>14, <1>15, <1>16 DEF HandlerStep, QueueStep, HandlerFault

LEMMA OwnerInvRun ==
  ASSUME TypeOK, QueueInv, OwnerInv, NEW e \in Execs, RunStep(e) \/ RunFault(e)
  PROVE  OwnerInv'
<1>1. Mid(e) \in Messages /\ e = <<Mid(e), e[2]>> /\ UNCHANGED <<acked, attempts>>
  BY RunFrame DEF Execs, Mid
<1>2. \A f \in Execs : f # e => pc'[f] = pc[f]
  BY RunLocal
<1>3. CASE ~CrashRun(e)
  <2>1. pc'[e] \in Live \cup Over
    BY <1>3 DEF TypeOK, RunStep, RunFault, VerifyOidc, Load, Classify, Decide,
         Extract, Merge, Scrape, Package, Reply, Upsert, DoneWrite, Apologise,
         FailWrite, StageFails, ReplyUnanswered, UpsertFails,
         DoneWriteUnanswered, ApologiseFails, FailWriteFails, Handler, Live,
         Stages, Over
  <2>2. UNCHANGED <<hook, task>>
    BY <1>3, RunFrame
  <2>3. \A f \in Execs : pc[f] \in Live \cup Over => pc'[f] \in Live \cup Over
    BY <1>2, <2>1
  <2>4. ASSUME NEW m \in Messages
        PROVE  /\ task'[m] = "running" => pc'[<<m, attempts'[m]>>] \in Live \cup Over
               /\ hook'[m] = "await" => pc'[<<m, 1>>] \in Live \cup Over
               /\ m \in acked' => hook'[m] # "idle"
    BY <1>1, <2>2, <2>3, CurrentExec DEF OwnerInv
  <2>q. QED
    BY <2>4 DEF OwnerInv
<1>4. CASE CrashRun(e)
  <2>1. ASSUME NEW m \in Messages, hook'[m] = "await"
        PROVE  pc'[<<m, 1>>] \in Live \cup Over
    <3>1. hook[m] = "await" /\ QueueMode = "inline" /\ m # Mid(e)
      BY <1>1, <1>4, <2>1 DEF CrashRun, QueueInv, TypeOK
    <3>2. <<m, 1>> \in Execs
      BY <1>1, CurrentExec
    <3>3. Mid(<<m, 1>>) = m
      BY DEF Mid
    <3>4. <<m, 1>> # e
      BY <3>1, <3>3
    <3>5. pc'[<<m, 1>>] = pc[<<m, 1>>]
      BY <1>2, <3>2, <3>4
    <3>q. QED
      BY <3>1, <3>5 DEF OwnerInv
  <2>2. ASSUME NEW m \in Messages, task'[m] = "running"
        PROVE  pc'[<<m, attempts'[m]>>] \in Live \cup Over
    <3>1. task[m] = "running" /\ (m # Mid(e) \/ ~Awaited(e))
      BY <1>1, <1>4, <2>2, ModeAssumption
         DEF CrashRun, Requeue, QueueInv, TypeOK
    <3>2. <<m, attempts[m]>> # e /\ <<m, attempts[m]>> \in Execs
      BY <1>1, <3>1 DEF Awaited, Execs, Mid, QueueInv, TypeOK
    <3>q. QED
      BY <1>1, <1>2, <3>1, <3>2 DEF OwnerInv
  <2>3. ASSUME NEW m \in acked' PROVE hook'[m] # "idle"
    BY <1>1, <1>4, <2>3 DEF CrashRun, OwnerInv, TypeOK
  <2>q. QED
    BY <2>1, <2>2, <2>3 DEF OwnerInv, TypeOK
<1>q. QED
  BY <1>3, <1>4

LEMMA OwnerInvStep ==
  ASSUME TypeOK, QueueInv, StartInv, JobInv, OwnerInv, [Next]_vars
  PROVE  OwnerInv'
<1>1. CASE UNCHANGED vars
  BY <1>1 DEF vars, OwnerInv
<1>q. QED
  BY <1>1, OwnerInvHandler, OwnerInvRun DEF Next

-----------------------------------------------------------------------------
(* Answers, and the contexts written after them. *)

(* Once a run has chosen its answer it keeps it, and mails are never undone. *)
LEMMA LateFrame ==
  ASSUME TypeOK, [Next]_vars, NEW f \in Execs, pc[f] \notin Early
  PROVE  /\ plan'[f] = plan[f] /\ req'[f] = req[f]
         /\ mails[f] \subseteq mails'[f]
<1>1. CASE \E m \in Messages :
             Claim(m) \/ DuplicateSkipped(m) \/ HandlerStep(m) \/ QueueStep(m)
               \/ HandlerFault(m)
  BY <1>1, HandlerFrame
<1>2. ASSUME NEW e \in Execs, RunStep(e) \/ RunFault(e), e # f
      PROVE  plan'[f] = plan[f] /\ req'[f] = req[f] /\ mails'[f] = mails[f]
  BY <1>2, RunLocal
<1>3. CASE RunStep(f)
  BY <1>3 DEF TypeOK, Early, RunStep, VerifyOidc, Load, Classify, Extract, Merge,
       Scrape, Package, Reply, Upsert, DoneWrite, Apologise, FailWrite
<1>4. CASE RunFault(f)
  BY <1>4 DEF TypeOK, RunFault, StageFails, ReplyUnanswered, UpsertFails,
       DoneWriteUnanswered, ApologiseFails, FailWriteFails, CrashRun
<1>5. CASE UNCHANGED vars
  BY <1>5 DEF vars
<1>q. QED
  BY <1>1, <1>2, <1>3, <1>4, <1>5 DEF Next

LEMMA AnsweredStable ==
  ASSUME TypeOK, PlanInv, [Next]_vars, NEW f \in Execs, Answered(f)
  PROVE  Answered(f)' /\ plan'[f] = plan[f] /\ req'[f] = req[f]
<1>1. pc[f] \notin Early
  BY DEF PlanInv, Answered
<1>q. QED
  BY <1>1, LateFrame DEF Answered

(* A job becomes done only by a run that stands before its last write. *)
LEMMA DoneFrom ==
  ASSUME TypeOK, [Next]_vars, NEW m \in Messages, jobs'[m] = "done", jobs[m] # "done"
  PROVE  \E e \in Execs : Mid(e) = m /\ pc[e] = "done_write"
<1>1. ASSUME NEW n \in Messages,
             Claim(n) \/ DuplicateSkipped(n) \/ HandlerStep(n) \/ QueueStep(n)
               \/ HandlerFault(n)
      PROVE  FALSE
  BY <1>1 DEF TypeOK, HandlerStep, QueueStep, HandlerFault, Claim,
       DuplicateSkipped, SaveJob, EnqueueInline, CreateTask, InlineReturns,
       InlineEscapes, MarkFailed, Dispatch, Respond, ClaimUnanswered,
       SaveJobFails, CreateTaskFails, MarkFailedFails, CrashHandler, Deadline,
       store
<1>2. ASSUME NEW e \in Execs, RunStep(e) \/ RunFault(e)
      PROVE  Mid(e) = m /\ pc[e] = "done_write"
  BY <1>2 DEF TypeOK, Execs, Mid, RunStep, RunFault, VerifyOidc, Load, Classify,
       Extract, Merge, Scrape, Package, Reply, Upsert, DoneWrite, Apologise,
       FailWrite, StageFails, ReplyUnanswered, UpsertFails, DoneWriteUnanswered,
       ApologiseFails, FailWriteFails, CrashRun, store
<1>q. QED
  BY <1>1, <1>2 DEF Next, vars

LEMMA DoneStep ==
  ASSUME TypeOK, PlanInv, DoneWasAnswered, [Next]_vars
  PROVE  DoneWasAnswered'
<1>1. SUFFICES ASSUME NEW m \in Messages, jobs'[m] = "done"
               PROVE  \E e \in Execs : Mid(e) = m /\ Answered(e)'
  BY DEF DoneWasAnswered, RunsOf, Answered
<1>2. PICK e \in Execs : Mid(e) = m /\ Answered(e)
  BY <1>1, DoneFrom DEF DoneWasAnswered, RunsOf, Answered, PlanInv
<1>q. QED
  BY <1>2, AnsweredStable

LEMMA ContextStep ==
  ASSUME TypeOK, PlanInv, ContextWasServed, [Next]_vars
  PROVE  ContextWasServed'
<1> DEFINE Wrote(t, e) == /\ Thread[Mid(e)] = t
                          /\ req[e] = threads[t]
                          /\ plan[e] \in {"empty", "documents"} \cap mails[e]
<1>1. SUFFICES ASSUME NEW t \in Threads, threads'[t] # None
               PROVE  \E e \in RunsOf(served'[t]) : Wrote(t, e)'
  BY DEF ContextWasServed
<1>2. CASE threads'[t] = threads[t] /\ served'[t] = served[t]
  <2>1. PICK e \in RunsOf(served[t]) : Wrote(t, e)
    BY <1>1, <1>2 DEF ContextWasServed
  <2>2. e \in Execs /\ Answered(e)
    BY <2>1 DEF RunsOf, Answered
  <2>3. Answered(e)' /\ plan'[e] = plan[e] /\ req'[e] = req[e]
    BY <2>2, AnsweredStable
  <2>4. Wrote(t, e)'
    BY <1>2, <2>1, <2>3 DEF Answered
  <2>q. QED
    BY <1>2, <2>1, <2>4 DEF RunsOf
<1>3. ASSUME NEW e \in Execs, Upsert(e)
      PROVE  \E f \in RunsOf(served'[t]) : Wrote(t, f)'
  <2>1. CASE Thread[Mid(e)] = t
    <3>0. t # None
      BY DataAssumption
    <3>1. threads'[t] = req[e] /\ served'[t] = Mid(e)
      BY <1>3, <2>1, <3>0 DEF Upsert, TypeOK
    <3>2. plan[e] \in {"empty", "documents"} \cap mails[e]
      BY <1>3 DEF Upsert, PlanInv
    <3>3. Wrote(t, e)'
      BY <1>3, <2>1, <3>1, <3>2 DEF Upsert
    <3>q. QED
      BY <3>1, <3>3 DEF RunsOf
  <2>2. CASE Thread[Mid(e)] # t
    <3>1. threads'[t] = threads[t] /\ served'[t] = served[t]
      BY <1>3, <2>2 DEF Upsert, TypeOK
    <3>q. QED
      BY <1>2, <3>1
  <2>q. QED
    BY <2>1, <2>2
<1>4. \/ UNCHANGED <<threads, served>>
      \/ \E e \in Execs : Upsert(e)
  <2>1. ASSUME NEW e \in Execs, RunStep(e) \/ RunFault(e), ~Upsert(e)
        PROVE  UNCHANGED <<threads, served>>
    BY <2>1 DEF RunStep, RunFault, VerifyOidc, Load, Classify, Extract, Merge,
         Scrape, Package, Reply, DoneWrite, Apologise, FailWrite, StageFails,
         ReplyUnanswered, UpsertFails, DoneWriteUnanswered, ApologiseFails,
         FailWriteFails, CrashRun, store
  <2>q. QED
    BY <2>1, HandlerFrame DEF Next, vars
<1>q. QED
  BY <1>2, <1>3, <1>4

LEMMA RequestStep ==
  ASSUME TypeOK, PlanInv, ContextWasServed, RequestWasAsked, [Next]_vars
  PROVE  RequestWasAsked'
<1> DEFINE Asked(f, r) ==
      /\ r.matter # None =>
           \E m \in Messages : Near(Mid(f), m) /\ Asks[m].matter = r.matter
      /\ r.type # None =>
           \E m \in Messages : Near(Mid(f), m) /\ Asks[m].type = r.type
<1>1. \A f \in Execs : Asked(f, req[f])
  BY DEF RequestWasAsked
<1>2. \A f \in Execs : Asked(f, Asks[Mid(f)])
  BY DEF Near, Execs, Mid
<1>3. ASSUME NEW f \in Execs, ContextOf(Mid(f)) # None
      PROVE  Asked(f, ContextOf(Mid(f)))
  <2>1. /\ Thread[Mid(f)] # None /\ Thread[Mid(f)] \in Threads
        /\ ContextOf(Mid(f)) = threads[Thread[Mid(f)]]
    BY <1>3, DataAssumption DEF ContextOf, Execs, Mid
  <2>2. PICK e \in Execs : /\ Thread[Mid(e)] = Thread[Mid(f)]
                           /\ req[e] = threads[Thread[Mid(f)]]
    BY <1>3, <2>1 DEF ContextWasServed, RunsOf
  <2>3. \A m \in Messages : Near(Mid(e), m) => Near(Mid(f), m)
    BY <2>1, <2>2 DEF Near
  <2>q. QED
    BY <1>1, <2>1, <2>2, <2>3
<1>4. ASSUME NEW f \in Execs
      PROVE  Asked(f, Inherit(req[f], ContextOf(Mid(f))))
  <2>1. CASE ContextOf(Mid(f)) = None
    BY <1>1, <2>1 DEF Inherit
  <2>2. CASE ContextOf(Mid(f)) # None
    BY <1>1, <1>3, <2>2 DEF Inherit
  <2>q. QED
    BY <2>1, <2>2
<1>5. ASSUME NEW f \in Execs
      PROVE  req'[f] \in {req[f], Asks[Mid(f)], Inherit(req[f], ContextOf(Mid(f)))}
  <2>1. ASSUME NEW e \in Execs, RunStep(e) \/ RunFault(e)
        PROVE  req'[f] \in {req[f], Asks[Mid(f)], Inherit(req[f], ContextOf(Mid(f)))}
    <3>1. CASE e # f
      BY <2>1, <3>1, RunLocal
    <3>2. CASE e = f
      BY <2>1, <3>2 DEF TypeOK, RunStep, RunFault, VerifyOidc, Load, Classify,
           Extract, Merge, Scrape, Package, Reply, Upsert, DoneWrite, Apologise,
           FailWrite, StageFails, ReplyUnanswered, UpsertFails,
           DoneWriteUnanswered, ApologiseFails, FailWriteFails, CrashRun
    <3>q. QED
      BY <3>1, <3>2
  <2>q. QED
    BY <2>1, HandlerFrame DEF Next, vars
<1>6. \A f \in Execs : Asked(f, req'[f])
  BY <1>1, <1>2, <1>4, <1>5
<1>q. QED
  BY <1>6 DEF RequestWasAsked, Near

-----------------------------------------------------------------------------
(* The inductive invariant and what follows from it. *)

LEMMA IInvInit == Init => IInv
<1> SUFFICES ASSUME Init PROVE IInv
  OBVIOUS
<1>1. TypeOK /\ QueueInv
  BY TypeInit
<1>2. StartInv /\ PlanInv
  BY DEF Init, StartInv, PlanInv, Early
<1>3. JobInv /\ OwnerInv
  BY DEF Init, JobInv, OwnerInv, Terminal, Saved
<1>4. DoneWasAnswered /\ ContextWasServed /\ RequestWasAsked
  BY DEF Init, DoneWasAnswered, ContextWasServed, RequestWasAsked
<1>q. QED
  BY <1>1, <1>2, <1>3, <1>4 DEF IInv

LEMMA IInvStep == IInv /\ [Next]_vars => IInv'
  BY TypeStep, StartInvStep, PlanInvStep, JobInvStep, OwnerInvStep, DoneStep,
     ContextStep, RequestStep DEF IInv

(* The inductive invariant holds of every behaviour, whatever the mode of  *)
(* the queue, the number of messages and the faults.                       *)
THEOREM Inductive == Spec => []IInv
  BY IInvInit, IInvStep, PTL DEF Spec

(* Every variable keeps its type; in particular a task is dispatched at    *)
(* most MaxAttempts times, however its dispatches fail.                    *)
THEOREM TypeCorrect == Spec => []TypeOK
<1>1. IInv => TypeOK
  BY DEF IInv
<1>q. QED
  BY <1>1, Inductive, PTL

(* No job is reported done unless its user was answered, or it was junk.   *)
THEOREM DoneCorrect == Spec => []DoneWasAnswered
<1>1. IInv => DoneWasAnswered
  BY DEF IInv
<1>q. QED
  BY <1>1, Inductive, PTL

(* A thread's row is a request its own users were served, never another's. *)
THEOREM ContextCorrect == Spec => [](ContextWasServed /\ RequestWasAsked)
<1>1. IInv => ContextWasServed /\ RequestWasAsked
  BY DEF IInv
<1>q. QED
  BY <1>1, Inductive, PTL

(* Every request that a job works on is what its own thread asked for, or  *)
(* completed from what that thread was served (_inherit_from_thread).      *)
THEOREM RequestsCorrect == Spec => []RequestWasAsked
<1>1. IInv => RequestWasAsked
  BY DEF IInv
<1>q. QED
  BY <1>1, Inductive, PTL

(* An acknowledged email is settled, owned, or lost in a known way.        *)
THEOREM AckedCorrect == Spec => []AckedIsAccounted
<1>1. ASSUME IInv PROVE AckedIsAccounted
  <2>1. SUFFICES ASSUME NEW m \in acked
                 PROVE  jobs[m] \in Terminal \/ Owned(m) \/ Lost(m)
    BY DEF AckedIsAccounted
  <2>2. m \in Messages /\ hook[m] # "idle"
    BY <1>1, <2>1 DEF IInv, TypeOK, OwnerInv
  <2>3. CASE hook[m] = "answered"
    <3>1. jobs[m] \in Terminal \/ task[m] # "none"
      BY <1>1, <2>2, <2>3 DEF IInv, JobInv
    <3>2. task[m] = "finished" => jobs[m] \in Terminal
      BY <1>1, <2>2 DEF IInv, JobInv
    <3>3. /\ task[m] = "queued" => attempts[m] < MaxAttempts
          /\ task[m] = "running" => pc[<<m, attempts[m]>>] \in Live \cup Over
      BY <1>1, <2>2 DEF IInv, QueueInv, OwnerInv
    <3>4. task[m] \in {"none", "queued", "running", "finished", "exhausted"}
      BY <1>1, <2>2 DEF IInv, TypeOK
    <3>q. QED
      BY <3>1, <3>2, <3>3, <3>4 DEF Owned, Lost, Over
  <2>4. CASE hook[m] = "await"
    BY <1>1, <2>2, <2>4 DEF IInv, OwnerInv, Owned, Over
  <2>5. CASE hook[m] \notin {"idle", "answered", "await"}
    BY <1>1, <2>2, <2>5 DEF IInv, TypeOK, Owned, Lost
  <2>q. QED
    BY <2>2, <2>3, <2>4, <2>5
<1>q. QED
  BY <1>1, Inductive, PTL

=============================================================================
