-------------------------- MODULE JobFaultsProofs --------------------------
(***************************************************************************)
(* What faults cost: for any number of messages, attempts and faults of    *)
(* any kind, a job's mails beyond its first are paid for by faults, a      *)
(* failed job whose run reported it left a mail unless there were two, and *)
(* no retry takes a done job back.                                         *)
(***************************************************************************)
EXTENDS JobPromiseProofs, FiniteSetTheorems

-----------------------------------------------------------------------------
(* Faults only add up, and an exception of a run is one. *)

LEMMA HandlerPays ==
  ASSUME TypeOK, NEW m \in Messages,
         Claim(m) \/ DuplicateSkipped(m) \/ HandlerStep(m) \/ QueueStep(m)
           \/ HandlerFault(m)
  PROVE  faults \in Nat /\ faults' \in Nat /\ faults' >= faults
  BY BoundAssumption
     DEF TypeOK, HandlerStep, QueueStep, HandlerFault, Claim, DuplicateSkipped,
         SaveJob, EnqueueInline, CreateTask, InlineReturns, InlineEscapes,
         MarkFailed, Dispatch, Respond, ClaimUnanswered, SaveJobFails,
         CreateTaskFails, MarkFailedFails, CrashHandler, Deadline, Fault

LEMMA RunPays ==
  ASSUME TypeOK, NEW e \in Execs, RunStep(e) \/ RunFault(e)
  PROVE  /\ faults \in Nat /\ faults' \in Nat /\ faults' >= faults
         /\ pc'[e] = "raised" => faults' = faults + 1
         /\ CrashRun(e) => faults' = faults + 1
<1>1. faults \in Nat
  BY BoundAssumption DEF TypeOK
<1>2. CASE RunStep(e)
  BY <1>1, <1>2
     DEF TypeOK, RunStep, VerifyOidc, Load, Classify, Decide, Extract, Merge,
         Scrape, Package, Reply, Upsert, DoneWrite, Apologise, FailWrite,
         CrashRun, Fault
<1>3. CASE RunFault(e)
  BY <1>1, <1>3
     DEF RunFault, StageFails, ReplyUnanswered, UpsertFails,
         DoneWriteUnanswered, ApologiseFails, FailWriteFails, CrashRun, Fault
<1>q. QED
  BY <1>2, <1>3

-----------------------------------------------------------------------------
(* Every dispatch after the first was bought by a fault. *)

LEMMA RetryHandler ==
  ASSUME TypeOK, QueueInv, OwnerInv, RetryInv, NEW m \in Messages,
         Claim(m) \/ DuplicateSkipped(m) \/ HandlerStep(m) \/ QueueStep(m)
           \/ HandlerFault(m)
  PROVE  RetryInv'
<1> DEFINE Paid(n) == /\ attempts[n] <= 1 + faults
                      /\ task[n] = "queued" => attempts[n] <= faults
                      /\ task[n] = "running" /\ pc[<<n, attempts[n]>>] = "raised"
                           => attempts[n] <= faults
<1>1. \A n \in Messages : Paid(n) /\ attempts[n] \in Nat
  BY BoundAssumption DEF TypeOK, RetryInv
<1>2. faults \in Nat /\ faults' \in Nat /\ faults' >= faults
  BY HandlerPays
<1>3. CASE UNCHANGED <<task, attempts, pc>>
  BY <1>1, <1>2, <1>3 DEF RetryInv
<1>4. CASE EnqueueInline(m)
  <2>1. \A n \in Messages : task[n] = "none"
    BY <1>4 DEF EnqueueInline, QueueInv
  <2>q. QED
    BY <1>1, <1>4, <2>1 DEF EnqueueInline, RetryInv, store, queue
<1>5. CASE CreateTask(m) \/ CreateTaskFails(m)
  <2>1. attempts[m] = 0 /\ UNCHANGED <<attempts, pc>>
    BY <1>5 DEF CreateTask, CreateTaskFails, QueueInv, Opening, run
  <2>2. UNCHANGED task \/ task' = [task EXCEPT ![m] = "queued"]
    BY <1>5 DEF CreateTask, CreateTaskFails
  <2>q. QED
    BY <1>1, <1>2, <2>1, <2>2 DEF TypeOK, RetryInv
<1>6. CASE Dispatch(m)
  <2>0. task[m] = "queued" /\ attempts[m] \in Nat /\ attempts[m] < MaxAttempts
    BY <1>1, <1>6 DEF Dispatch, QueueInv
  <2>a. attempts[m] + 1 \in 1 .. MaxAttempts
    BY <2>0, BoundAssumption
  <2>b. <<m, attempts[m] + 1>> \in Execs
    BY <2>a DEF Execs
  <2>c. /\ attempts' = [attempts EXCEPT ![m] = @ + 1]
        /\ task' = [task EXCEPT ![m] = "running"]
        /\ pc' = [pc EXCEPT ![<<m, attempts[m] + 1>>] = "verify"]
        /\ UNCHANGED faults
    BY <1>6 DEF Dispatch
  <2>1. attempts[m] <= faults
    BY <1>1, <2>0
  <2>2. ASSUME NEW n \in Messages
        PROVE  Paid(n)'
    <3>1. CASE n = m
      BY <1>1, <1>2, <2>b, <2>c, <2>1, <3>1 DEF TypeOK
    <3>2. CASE n # m
      <4>1. <<n, attempts[n]>> # <<m, attempts[m] + 1>>
        BY <3>2
      <4>2. attempts'[n] = attempts[n] /\ task'[n] = task[n]
        BY <2>c, <3>2 DEF TypeOK
      <4>3. task[n] = "running" => <<n, attempts[n]>> \in Execs
        BY CurrentExec
      <4>q. QED
        BY <1>1, <2>c, <4>1, <4>2, <4>3 DEF TypeOK
    <3>q. QED
      BY <3>1, <3>2
  <2>q. QED
    BY <2>2 DEF RetryInv
<1>7. CASE Respond(m) \/ Deadline(m)
  <2>1. UNCHANGED <<attempts, pc>> /\ task[m] = "running"
    BY <1>7 DEF Respond, Deadline, run
  <2>2. CASE task' = [task EXCEPT ![m] = "finished"]
    BY <1>1, <1>2, <2>1, <2>2 DEF TypeOK, RetryInv
  <2>3. ASSUME Requeue(m), attempts[m] <= faults'
        PROVE  RetryInv'
    BY <1>1, <1>2, <2>1, <2>3 DEF TypeOK, Requeue, RetryInv
  <2>4. CASE Deadline(m)
    BY <1>1, <1>2, <2>3, <2>4 DEF Deadline, Fault
  <2>5. CASE Respond(m)
    BY <1>1, <1>2, <2>1, <2>2, <2>3, <2>5 DEF Respond
  <2>q. QED
    BY <1>7, <2>4, <2>5
<1>q. QED
  BY <1>3, <1>4, <1>5, <1>6, <1>7
     DEF HandlerStep, QueueStep, HandlerFault, Claim, DuplicateSkipped, SaveJob,
         InlineReturns, InlineEscapes, MarkFailed, ClaimUnanswered,
         SaveJobFails, MarkFailedFails, CrashHandler, queue, run

LEMMA RetryRun ==
  ASSUME TypeOK, QueueInv, RetryInv, NEW e \in Execs, RunStep(e) \/ RunFault(e)
  PROVE  RetryInv'
<1>1. /\ UNCHANGED attempts
      /\ CrashRun(e) \/ UNCHANGED task
      /\ \A n \in Messages : attempts[n] \in Nat
  BY RunFrame, BoundAssumption DEF TypeOK
<1>2. /\ faults \in Nat /\ faults' \in Nat /\ faults' >= faults
      /\ pc'[e] = "raised" => faults' = faults + 1
  BY RunPays
<1>3. CASE CrashRun(e)
  <2>1. faults' = faults + 1
    BY <1>3, RunPays
  <2>2. ASSUME NEW n \in Messages
        PROVE  attempts'[n] <= 1 + faults' /\ attempts'[n] <= faults'
    <3>1. attempts'[n] = attempts[n] /\ attempts[n] \in Nat
      BY <1>1
    <3>2. attempts[n] <= 1 + faults
      BY DEF RetryInv
    <3>q. QED
      BY <1>2, <2>1, <3>1, <3>2
  <2>q. QED
    BY <2>2 DEF RetryInv
<1>4. CASE ~CrashRun(e)
  <2> SUFFICES ASSUME NEW n \in Messages, task[n] = "running",
                      pc'[<<n, attempts[n]>>] = "raised"
               PROVE  attempts[n] <= faults'
    BY <1>1, <1>2, <1>4 DEF RetryInv
  <2>1. CASE pc[<<n, attempts[n]>>] = "raised"
    BY <1>1, <1>2, <2>1 DEF RetryInv
  <2>2. CASE pc[<<n, attempts[n]>>] # "raised"
    <3>1. DOMAIN pc' = DOMAIN pc /\ \A f \in DOMAIN pc : f # e => pc'[f] = pc[f]
      BY RunLocal, TypeRun DEF TypeOK
    <3>2. <<n, attempts[n]>> \in DOMAIN pc => <<n, attempts[n]>> = e
      BY <2>2, <3>1
    <3>3. <<n, attempts[n]>> \in DOMAIN pc
      BY CurrentExec DEF TypeOK
    <3>4. faults' = faults + 1
      BY <1>2, <3>2, <3>3
    <3>5. attempts[n] <= 1 + faults
      BY DEF RetryInv
    <3>q. QED
      BY <1>1, <1>2, <3>4, <3>5
  <2>q. QED
    BY <2>1, <2>2
<1>q. QED
  BY <1>3, <1>4

LEMMA RetryStep ==
  ASSUME TypeOK, QueueInv, OwnerInv, RetryInv, [Next]_vars
  PROVE  RetryInv'
<1>1. CASE UNCHANGED vars
  BY <1>1 DEF vars, RetryInv
<1>q. QED
  BY <1>1, RetryHandler, RetryRun DEF Next

-----------------------------------------------------------------------------
(* What a run has sent, and why. *)

LEMMA ExcuseHandler ==
  ASSUME TypeOK, ExcuseInv, NEW m \in Messages,
         Claim(m) \/ DuplicateSkipped(m) \/ HandlerStep(m) \/ QueueStep(m)
           \/ HandlerFault(m)
  PROVE  ExcuseInv'
<1>1. /\ UNCHANGED <<plan, outbound_sent, mails>>
      /\ EnqueueInline(m) \/ Dispatch(m) \/ UNCHANGED pc
  BY HandlerFrame
<1>2. \A e \in Execs : pc'[e] \in {pc[e], "load", "verify"}
  BY <1>1 DEF TypeOK, EnqueueInline, Dispatch
<1>3. faults \in Nat /\ faults' \in Nat /\ faults' >= faults
  BY HandlerPays
<1>q. QED
  BY <1>1, <1>2, <1>3 DEF ExcuseInv, Excused

(* The except clause apologises inline only, and not after a reply.        *)
LEMMA HandlerExcuses ==
  ASSUME NEW e \in Execs, NEW text
  PROVE  /\ Handler(e, text) \in {"raised", "fail_write", "apologise"}
         /\ Handler(e, text) # "raised" => QueueMode = "inline"
         /\ Handler(e, text) = "fail_write" => outbound_sent[e]
  BY ModeAssumption DEF Handler

LEMMA ExcuseRun ==
  ASSUME TypeOK, PlanInv, ExcuseInv, NEW e \in Execs, RunStep(e) \/ RunFault(e)
  PROVE  ExcuseInv'
<1>0. Excused(e)
  BY DEF ExcuseInv
<1>1. /\ faults \in Nat /\ faults' \in Nat /\ faults' >= faults
      /\ \A f \in Execs : f # e =>
           /\ pc'[f] = pc[f] /\ plan'[f] = plan[f]
           /\ mails'[f] = mails[f] /\ outbound_sent'[f] = outbound_sent[f]
  BY RunPays, RunLocal
<1>2. \A f \in Execs : f # e => Excused(f)'
  BY <1>1 DEF ExcuseInv, Excused
<1>3. Excused(e)'
  <2>1. CASE pc[e] \in Early /\ RunStep(e)
    <3>1. mails[e] = {} /\ ~outbound_sent[e]
      BY <2>1 DEF PlanInv
    <3>2. UNCHANGED <<mails, outbound_sent>>
      BY <2>1 DEF RunStep, Early, VerifyOidc, Load, Classify, Extract, Merge,
           Scrape, Package, Reply, Upsert, DoneWrite, Apologise, FailWrite
    <3>3. pc'[e] \notin {"apologise", "fail_write"}
      BY <2>1 DEF TypeOK, RunStep, Early, VerifyOidc, Load, Classify, Decide,
           Extract, Merge, Scrape, Package, Reply, Upsert, DoneWrite, Apologise,
           FailWrite
    <3>q. QED
      BY <3>1, <3>2, <3>3 DEF Excused
  <2>2. CASE Package(e) \/ Upsert(e) \/ DoneWrite(e) \/ UpsertFails(e) \/ CrashRun(e)
    <3>1. /\ UNCHANGED <<plan, mails, outbound_sent>>
          /\ pc'[e] \in {"reply", "done_write", "returned", "dead"}
      BY <2>2 DEF TypeOK, Package, Upsert, DoneWrite, UpsertFails, CrashRun
    <3>q. QED
      BY <1>0, <1>1, <3>1 DEF Excused
  <2>3. CASE Reply(e)
    <3>1. /\ mails'[e] = mails[e] \cup {plan[e]} /\ plan'[e] = plan[e]
          /\ plan[e] # "failure" /\ pc'[e] \in {"upsert", "done_write"}
          /\ UNCHANGED faults
      BY <2>3 DEF TypeOK, Reply, PlanInv
    <3>q. QED
      BY <1>0, <3>1 DEF Excused
  <2>4. CASE StageFails(e) \/ DoneWriteUnanswered(e)
    <3>1. /\ UNCHANGED <<plan, mails, outbound_sent>>
          /\ \E text : pc'[e] = Handler(e, text)
          /\ faults' = faults + 1
      BY <2>4 DEF TypeOK, StageFails, DoneWriteUnanswered, Fault
    <3>2. /\ pc'[e] \in {"raised", "fail_write", "apologise"}
          /\ pc'[e] # "raised" => QueueMode = "inline"
          /\ pc'[e] = "fail_write" => outbound_sent[e]
      BY <3>1, HandlerExcuses
    <3>q. QED
      BY <1>0, <1>1, <3>1, <3>2 DEF Excused
  <2>5. CASE ReplyUnanswered(e)
    <3>1. /\ UNCHANGED <<plan, outbound_sent>>
          /\ mails'[e] = mails[e] \cup {plan[e]} /\ plan[e] # "failure"
          /\ \E text : pc'[e] = Handler(e, text)
          /\ faults' = faults + 1
      BY <2>5 DEF TypeOK, ReplyUnanswered, Fault, PlanInv
    <3>2. /\ pc'[e] \in {"raised", "fail_write", "apologise"}
          /\ pc'[e] # "raised" => QueueMode = "inline"
      BY <3>1, HandlerExcuses
    <3>q. QED
      BY <1>0, <1>1, <3>1, <3>2 DEF Excused
  <2>6. CASE Apologise(e) \/ ApologiseFails(e)
    <3>1. /\ QueueMode = "inline" /\ faults >= 1
          /\ UNCHANGED <<plan, outbound_sent>> /\ pc'[e] = "fail_write"
      BY <1>0, <2>6 DEF TypeOK, Apologise, ApologiseFails, Excused
    <3>2. \/ mails'[e] = mails[e] \cup {"failure"} /\ UNCHANGED faults
          \/ UNCHANGED mails /\ faults' = faults + 1
      BY <2>6 DEF TypeOK, Apologise, ApologiseFails, Fault
    <3>q. QED
      BY <1>0, <1>1, <3>1, <3>2 DEF Excused
  <2>7. CASE FailWrite(e) \/ FailWriteFails(e)
    <3>1. /\ UNCHANGED <<plan, mails, outbound_sent>>
          /\ pc'[e] \in {"returned", "raised"}
      BY <2>7 DEF TypeOK, FailWrite, FailWriteFails
    <3>q. QED
      BY <1>0, <1>1, <3>1 DEF Excused
  <2>q. QED
    BY <2>1, <2>2, <2>3, <2>4, <2>5, <2>6, <2>7
       DEF RunStep, RunFault, Early, VerifyOidc, Load, Classify, Extract, Merge,
           Scrape
<1>q. QED
  BY <1>2, <1>3 DEF ExcuseInv

LEMMA ExcuseStep ==
  ASSUME TypeOK, PlanInv, ExcuseInv, [Next]_vars
  PROVE  ExcuseInv'
<1>1. CASE UNCHANGED vars
  BY <1>1 DEF vars, ExcuseInv, Excused
<1>q. QED
  BY <1>1, ExcuseHandler, ExcuseRun DEF Next

-----------------------------------------------------------------------------
(* How an inline run ends. *)

LEMMA EndHandler ==
  ASSUME QueueMode = "inline", TypeOK, QueueInv, JobInv, EndInv,
         NEW m \in Messages,
         Claim(m) \/ DuplicateSkipped(m) \/ HandlerStep(m) \/ QueueStep(m)
           \/ HandlerFault(m)
  PROVE  EndInv'
<1>1. UNCHANGED mails /\ faults \in Nat /\ faults' \in Nat /\ faults' >= faults
  BY HandlerFrame, HandlerPays
<1>2. ~Dispatch(m)
  BY DEF QueueInv, Dispatch
<1>3. EnqueueInline(m) \/ UNCHANGED pc
  BY <1>2, HandlerFrame
<1> SUFFICES ASSUME NEW e \in Execs
             PROVE  /\ hook'[Mid(e)] = "mark_failed" => pc'[e] = "raised"
                    /\ pc'[e] = "returned" =>
                         jobs'[Mid(e)] = "done" \/ mails'[e] # {} \/ faults' >= 2
  BY DEF EndInv
<1>4. Mid(e) \in Messages /\ e = <<Mid(e), 1>>
  BY SoleRun
<1>5. /\ hook[Mid(e)] = "mark_failed" => pc[e] = "raised"
      /\ pc[e] = "returned" =>
           jobs[Mid(e)] = "done" \/ mails[e] # {} \/ faults >= 2
  BY DEF EndInv
<1>6. CASE EnqueueInline(m)
  BY <1>1, <1>4, <1>5, <1>6 DEF TypeOK, EnqueueInline, store, queue
<1>7. CASE UNCHANGED pc
  <2>1. hook'[Mid(e)] = "mark_failed" => pc[e] = "raised"
    BY <1>4, <1>5, <1>7
       DEF TypeOK, HandlerStep, QueueStep, HandlerFault, Claim,
           DuplicateSkipped, SaveJob, EnqueueInline, CreateTask, InlineReturns,
           InlineEscapes, MarkFailed, Dispatch, Respond, ClaimUnanswered,
           SaveJobFails, CreateTaskFails, MarkFailedFails, CrashHandler,
           Deadline, front
  <2>2. jobs[Mid(e)] = "done" /\ pc[e] = "returned" => jobs'[Mid(e)] = "done"
    BY <1>4, <1>5, <1>7
       DEF TypeOK, JobInv, HandlerStep, QueueStep, HandlerFault, Claim,
           DuplicateSkipped, SaveJob, EnqueueInline, CreateTask, InlineReturns,
           InlineEscapes, MarkFailed, Dispatch, Respond, ClaimUnanswered,
           SaveJobFails, CreateTaskFails, MarkFailedFails, CrashHandler,
           Deadline, store
  <2>q. QED
    BY <1>1, <1>5, <1>7, <2>1, <2>2
<1>q. QED
  BY <1>3, <1>6, <1>7

LEMMA EndRun ==
  ASSUME QueueMode = "inline", TypeOK, JobInv, ExcuseInv, EndInv,
         NEW e \in Execs, RunStep(e) \/ RunFault(e)
  PROVE  EndInv'
<1>1. /\ faults \in Nat /\ faults' \in Nat /\ faults' >= faults
      /\ pc[e] \in Live /\ (CrashRun(e) \/ UNCHANGED hook)
  BY RunPays, RunFrame
<1>2. \A f \in Execs : Mid(f) \in Messages /\ f = <<Mid(f), 1>>
  BY SoleRun
<1>3. \A n \in Messages : hook'[n] = "mark_failed" => hook[n] = "mark_failed"
  BY <1>1, <1>2 DEF TypeOK, CrashRun
<1>4. ASSUME NEW f \in Execs, f # e
      PROVE  /\ hook'[Mid(f)] = "mark_failed" => pc'[f] = "raised"
             /\ pc'[f] = "returned" =>
                  jobs'[Mid(f)] = "done" \/ mails'[f] # {} \/ faults' >= 2
  <2>1. pc'[f] = pc[f] /\ mails'[f] = mails[f] /\ Mid(f) # Mid(e)
    BY <1>2, <1>4, RunLocal
  <2>2. jobs'[Mid(f)] = jobs[Mid(f)]
    BY <1>2, <2>1, RunSettles
  <2>q. QED
    BY <1>1, <1>2, <1>3, <2>1, <2>2 DEF EndInv
<1>5. hook'[Mid(e)] # "mark_failed"
  BY <1>1, <1>2, <1>3 DEF EndInv, Live, Stages
<1>6. ASSUME pc'[e] = "returned"
      PROVE  jobs'[Mid(e)] = "done" \/ mails'[e] # {} \/ faults' >= 2
  <2>1. pc[e] # "idle" /\ Saved(Mid(e))
    BY <1>1 DEF JobInv, Live, Stages
  <2>2. DoneWrite(e) \/ FailWrite(e)
    BY <1>6, <2>1
       DEF TypeOK, RunStep, RunFault, VerifyOidc, Load, Classify, Decide,
           Extract, Merge, Scrape, Package, Reply, Upsert, DoneWrite, Apologise,
           FailWrite, StageFails, ReplyUnanswered, UpsertFails,
           DoneWriteUnanswered, ApologiseFails, FailWriteFails, CrashRun,
           Handler, Saved, Terminal
  <2>3. CASE DoneWrite(e)
    BY <1>2, <2>3 DEF TypeOK, DoneWrite
  <2>4. CASE FailWrite(e)
    <3>1. UNCHANGED mails /\ (mails[e] # {} \/ faults >= 2)
      BY <2>4 DEF FailWrite, ExcuseInv, Excused
    <3>q. QED
      BY <1>1, <3>1
  <2>q. QED
    BY <2>2, <2>3, <2>4
<1>q. QED
  BY <1>4, <1>5, <1>6 DEF EndInv

LEMMA EndStep ==
  ASSUME TypeOK, QueueInv, JobInv, ExcuseInv, EndInv, [Next]_vars
  PROVE  EndInv'
<1>1. CASE UNCHANGED vars
  BY <1>1 DEF vars, EndInv
<1>2. CASE QueueMode # "inline"
  BY <1>2 DEF EndInv
<1>q. QED
  BY <1>1, <1>2, EndHandler, EndRun DEF Next

-----------------------------------------------------------------------------
LEMMA PaidInvInit == Init => PaidInv
<1> SUFFICES ASSUME Init PROVE PaidInv
  OBVIOUS
<1>1. IInv
  BY IInvInit
<1>2. RetryInv /\ ExcuseInv
  BY DEF Init, RetryInv, ExcuseInv, Excused
<1>3. EndInv
  BY DEF Init, EndInv, Execs, Mid
<1>q. QED
  BY <1>1, <1>2, <1>3 DEF PaidInv

LEMMA PaidInvStep == PaidInv /\ [Next]_vars => PaidInv'
  BY IInvStep, RetryStep, ExcuseStep, EndStep DEF PaidInv, IInv

LEMMA PaidInvAlways == Spec => []PaidInv
  BY PaidInvInit, PaidInvStep, PTL DEF Spec

-----------------------------------------------------------------------------
(* Counting the mails of a job. *)

(* As a Cloud Task, each of its runs mails once, and its runs were paid for. *)
LEMMA TasksArePaid ==
  ASSUME PaidInv, QueueMode = "tasks", NEW m \in Messages
  PROVE  Cardinality(Posted(m)) <= 1 + faults
<1>t. /\ attempts[m] \in Nat /\ attempts[m] <= 1 + faults /\ faults \in Nat
      /\ \A e \in Execs : mails[e] \subseteq {plan[e]}
  <2>1. attempts[m] \in Nat /\ faults \in Nat
    BY BoundAssumption DEF PaidInv, IInv, TypeOK
  <2>2. \A e \in Execs : mails[e] \subseteq {plan[e]}
    BY DEF PaidInv, ExcuseInv, Excused
  <2>q. QED
    BY <2>1, <2>2 DEF PaidInv, RetryInv
<1> DEFINE attempt == [p \in Posted(m) |-> p[1][2]]
<1>p. ASSUME NEW p \in Posted(m)
      PROVE  /\ p = <<p[1], p[2]>> /\ p[1] \in RunsOf(m) /\ p[2] \in mails[p[1]]
  <2>1. p \in RunsOf(m) \X Kinds /\ p[2] \in mails[p[1]]
    BY DEF Posted
  <2>q. QED
    BY <2>1
<1>1. ASSUME NEW p \in Posted(m)
      PROVE  /\ p[1] = <<m, p[1][2]>> /\ p[2] = plan[p[1]]
             /\ p = <<p[1], p[2]>> /\ p[1][2] \in 1 .. attempts[m]
  <2>1. /\ p = <<p[1], p[2]>> /\ p[1] \in Execs /\ Mid(p[1]) = m
        /\ p[2] \in mails[p[1]]
    BY <1>p DEF RunsOf
  <2>2. p[1] = <<m, p[1][2]>> /\ p[1][2] \in Nat /\ p[1][2] >= 1
    BY <2>1, BoundAssumption DEF Execs, Mid
  <2>3. pc[p[1]] # "idle"
    BY <2>1 DEF PaidInv, IInv, PlanInv, Early
  <2>4. p[1][2] <= attempts[m]
    BY <1>t, <2>1, <2>2, <2>3 DEF PaidInv, IInv, StartInv
  <2>q. QED
    BY <1>t, <2>1, <2>2, <2>4
<1>2. attempt \in Injection(Posted(m), 1 .. attempts[m])
  <2>1. attempt \in [Posted(m) -> 1 .. attempts[m]]
    BY <1>1
  <2>2. ASSUME NEW p \in Posted(m), NEW q \in Posted(m), attempt[p] = attempt[q]
        PROVE  p = q
    <3>1. p[1][2] = q[1][2]
      BY <2>2
    <3>2. p[1] = q[1]
      BY <1>1, <3>1
    <3>q. QED
      BY <1>1, <3>2
  <2>q. QED
    BY <2>1, <2>2 DEF Injection, IsInjective
<1>3. IsFiniteSet(1 .. attempts[m]) /\ Cardinality(1 .. attempts[m]) = attempts[m]
  BY <1>t, FS_Interval
<1>4. /\ Cardinality(Posted(m)) <= attempts[m]
      /\ Cardinality(Posted(m)) \in Nat
  BY <1>2, <1>3, FS_Injection, FS_CardinalityType
<1>q. QED
  BY <1>t, <1>4

(* Inline, its one run mails its answer, and after a fault its apology.      *)
LEMMA InlineIsPaid ==
  ASSUME PaidInv, QueueMode = "inline", NEW m \in Messages
  PROVE  Cardinality(Posted(m)) <= 1 + faults
<1> DEFINE e == <<m, 1>>
           answer == <<e, plan[e]>>
           apology == <<e, "failure">>
<1>t. /\ faults \in Nat /\ mails[e] \subseteq {plan[e], "failure"}
      /\ "failure" \in mails[e] => faults >= 1
  BY SoleRun, BoundAssumption DEF PaidInv, IInv, TypeOK, ExcuseInv, Excused
<1>1. \A p \in Posted(m) : p \in {answer, apology} /\ p[2] \in mails[e]
  BY <1>t, SoleRun DEF Posted
<1>2. IsFiniteSet({answer}) /\ Cardinality({answer}) = 1
  BY FS_Singleton
<1>3. CASE "failure" \notin mails[e]
  <2>1. Posted(m) \subseteq {answer}
    BY <1>1, <1>3
  <2>2. Cardinality(Posted(m)) <= 1 /\ Cardinality(Posted(m)) \in Nat
    BY <1>2, <2>1, FS_Subset, FS_CardinalityType
  <2>q. QED
    BY <1>t, <2>2
<1>4. CASE "failure" \in mails[e]
  <2>1. IsFiniteSet({answer} \cup {apology}) /\ Cardinality({answer} \cup {apology}) <= 2
    <3> HIDE DEF answer, apology
    <3>q. QED
      BY <1>2, FS_AddElement
  <2>2. Posted(m) \subseteq {answer} \cup {apology}
    BY <1>1
  <2>3. /\ Cardinality(Posted(m)) <= Cardinality({answer} \cup {apology})
        /\ Cardinality(Posted(m)) \in Nat
        /\ Cardinality({answer} \cup {apology}) \in Nat
    BY <2>1, <2>2, FS_Subset, FS_CardinalityType
  <2>q. QED
    BY <1>t, <1>4, <2>1, <2>3
<1>q. QED
  BY <1>3, <1>4

(* In either mode of the queue, with any number of messages, attempts and    *)
(* faults of any kind: of all the mails that all runs of process_job send    *)
(* for a job, each beyond the first was paid for by a fault of its own.      *)
THEOREM MailsPaid == Spec => []MailsArePaid
<1>1. PaidInv => MailsArePaid
  BY TasksArePaid, InlineIsPaid, ModeAssumption DEF MailsArePaid
<1>q. QED
  BY PaidInvAlways, <1>1, PTL

(* Inline, a job that was understood and that process_job reported failed    *)
(* left its user a mail, unless two things went wrong (pipeline.py:9-10).    *)
(* In tasks mode process_job reports no failure, and its caller mails none.  *)
THEOREM InlineFailureIsMailed ==
  QueueMode = "inline" => (Spec => []OneFailureIsMailed)
<1> SUFFICES ASSUME QueueMode = "inline" PROVE Spec => []OneFailureIsMailed
  OBVIOUS
<1>1. ASSUME PaidInv PROVE OneFailureIsMailed
  <2> SUFFICES ASSUME NEW m \in Messages, jobs[m] = "failed", faults <= 1,
                      NEW e \in RunsOf(m), pc[e] = "returned"
               PROVE  mails[e] # {}
    BY DEF OneFailureIsMailed, Mailed
  <2>1. e \in Execs /\ Mid(e) = m /\ faults \in Nat
    BY <1>1, BoundAssumption DEF RunsOf, PaidInv, IInv, TypeOK
  <2>2. jobs[Mid(e)] = "done" \/ mails[e] # {} \/ faults >= 2
    BY <1>1, <2>1 DEF PaidInv, EndInv
  <2>q. QED
    BY <2>1, <2>2
<1>q. QED
  BY PaidInvAlways, <1>1, PTL

(* No retry and no redelivery takes a done job back: as a Cloud Task because *)
(* a run that fails there writes no status at all, inline because a run that *)
(* is answered writes none after done.  (Inline, a done write whose answer   *)
(* is lost is followed by the write of failed: the doubt is in the code.)    *)
THEOREM RetriesKeepDone ==
  QueueMode = "tasks" \/ "lostAck" \notin FaultKinds => (Spec => RunsKeepDone)
<1>1. CASE QueueMode = "tasks"
  <2>1. ASSUME PaidInv, Next, NEW m \in Messages, jobs[m] = "done",
               hook[m] # "mark_failed"
        PROVE  jobs'[m] = "done"
    <3>1. ASSUME NEW n \in Messages,
                 Claim(n) \/ DuplicateSkipped(n) \/ HandlerStep(n) \/ QueueStep(n)
                   \/ HandlerFault(n)
          PROVE  jobs'[m] = "done"
      BY <2>1, <3>1
         DEF PaidInv, IInv, TypeOK, JobInv, HandlerStep, QueueStep, HandlerFault,
             Claim, DuplicateSkipped, SaveJob, EnqueueInline, CreateTask,
             InlineReturns, InlineEscapes, MarkFailed, Dispatch, Respond,
             ClaimUnanswered, SaveJobFails, CreateTaskFails, MarkFailedFails,
             CrashHandler, Deadline, store
    <3>2. ASSUME NEW e \in Execs, RunStep(e) \/ RunFault(e)
          PROVE  jobs'[m] = "done"
      <4>1. pc[e] # "fail_write"
        BY <1>1, <2>1 DEF PaidInv, ExcuseInv, Excused
      <4>2. ~FailWrite(e) /\ ~FailWriteFails(e)
        BY <4>1 DEF FailWrite, FailWriteFails
      <4>3. UNCHANGED jobs \/ jobs' = [jobs EXCEPT ![Mid(e)] = "done"]
        BY <3>2, <4>2
           DEF RunStep, RunFault, VerifyOidc, Load, Classify, Extract, Merge,
               Scrape, Package, Reply, Upsert, DoneWrite, Apologise, StageFails,
               ReplyUnanswered, UpsertFails, DoneWriteUnanswered,
               ApologiseFails, CrashRun, store
      <4>q. QED
        BY <2>1, <4>3 DEF PaidInv, IInv, TypeOK
    <3>q. QED
      BY <2>1, <3>1, <3>2 DEF Next
  <2>2. PaidInv /\ [Next]_vars =>
          [\A m \in Messages : jobs[m] = "done" /\ hook[m] # "mark_failed"
             => jobs'[m] = "done"]_vars
    BY <2>1
  <2>q. QED
    BY PaidInvAlways, <2>2, PTL DEF Spec, RunsKeepDone
<1>2. CASE QueueMode = "inline" /\ "lostAck" \notin FaultKinds
  <2>1. Spec => DoneIsFinal
    BY <1>2, InlineDoneIsFinal DEF Answering
  <2>2. [\A m \in Messages : jobs[m] = "done" => jobs'[m] = "done"]_vars =>
          [\A m \in Messages : jobs[m] = "done" /\ hook[m] # "mark_failed"
             => jobs'[m] = "done"]_vars
    OBVIOUS
  <2>q. QED
    BY <2>1, <2>2, PTL DEF DoneIsFinal, RunsKeepDone
<1>q. QED
  BY <1>1, <1>2, ModeAssumption

=============================================================================
