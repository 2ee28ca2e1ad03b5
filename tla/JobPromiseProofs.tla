-------------------------- MODULE JobPromiseProofs --------------------------
(***************************************************************************)
(* The inline pipeline keeps the promise of OneOutbound, for any number of *)
(* messages and of faults, as long as no call takes effect and loses its   *)
(* answer.                                                                 *)
(***************************************************************************)
EXTENDS JobLifecycleProofs

(* The two assumptions of this module. *)
Answering == QueueMode = "inline" /\ "lostAck" \notin FaultKinds

LEMMA NoLostAck ==
  ASSUME Answering
  PROVE  ~Fault("lostAck")
  BY DEF Answering, Fault

(* A message has one run. *)
LEMMA SoleRun ==
  ASSUME QueueMode = "inline"
  PROVE  /\ \A m \in Messages : <<m, 1>> \in Execs /\ RunsOf(m) = {<<m, 1>>}
         /\ \A e \in Execs : Mid(e) \in Messages /\ e = <<Mid(e), 1>>
<1>1. MaxAttempts = 1
  BY BoundAssumption
<1>2. \A e \in Execs : Mid(e) \in Messages /\ e = <<Mid(e), 1>>
  BY <1>1 DEF Execs, Mid
<1>3. \A m \in Messages : <<m, 1>> \in Execs /\ Mid(<<m, 1>>) = m
  BY <1>1 DEF Execs, Mid
<1>q. QED
  BY <1>2, <1>3 DEF RunsOf

LEMMA OneRun ==
  ASSUME Answering
  PROVE  /\ \A m \in Messages : <<m, 1>> \in Execs /\ RunsOf(m) = {<<m, 1>>}
         /\ \A e \in Execs : Mid(e) \in Messages /\ e = <<Mid(e), 1>>
  BY SoleRun DEF Answering

-----------------------------------------------------------------------------
(* The flag outbound_sent is the truth about a run's mails. *)

LEMMA OneMailStep ==
  ASSUME Answering, IInv, OneMailInv, [Next]_vars
  PROVE  OneMailInv'
<1>g. \A e \in Execs : OneMail(e)
  BY DEF OneMailInv
<1>t. TypeOK /\ PlanInv /\ QueueInv /\ StartInv
  BY DEF IInv
<1>1. ASSUME NEW m \in Messages,
             Claim(m) \/ DuplicateSkipped(m) \/ HandlerStep(m) \/ QueueStep(m)
               \/ HandlerFault(m)
      PROVE  \A e \in Execs : OneMail(e)'
  <2>1. UNCHANGED <<plan, outbound_sent, mails>>
    BY <1>1, HandlerFrame
  <2>2. ~Dispatch(m)
    BY <1>t DEF Dispatch, QueueInv, Answering
  <2>3. CASE EnqueueInline(m)
    <3>1. <<m, 1>> \in Execs /\ pc[<<m, 1>>] = "idle"
      BY <1>t, <2>3, OneRun DEF EnqueueInline, StartInv, Answering, Mid, Opening
    <3>2. mails[<<m, 1>>] = {} /\ ~outbound_sent[<<m, 1>>]
      BY <1>t, <3>1 DEF PlanInv, Early
    <3>3. pc' = [pc EXCEPT ![<<m, 1>>] = "load"]
      BY <2>3 DEF EnqueueInline
    <3>4. OneMail(<<m, 1>>)'
      BY <1>t, <2>1, <3>1, <3>2, <3>3 DEF TypeOK, OneMail
    <3>5. \A e \in Execs : e # <<m, 1>> => OneMail(e)'
      BY <1>g, <1>t, <2>1, <3>3 DEF TypeOK, OneMail
    <3>q. QED
      BY <3>4, <3>5
  <2>4. CASE UNCHANGED pc
    BY <1>g, <2>1, <2>4 DEF OneMail
  <2>q. QED
    BY <1>1, <2>2, <2>3, <2>4, HandlerFrame
<1>2. ASSUME NEW e \in Execs, RunStep(e) \/ RunFault(e)
      PROVE  \A f \in Execs : OneMail(f)'
  <2>1. \A f \in Execs : f # e => OneMail(f)'
    BY <1>2, <1>g, <1>t, RunLocal DEF OneMail
  <2>2. OneMail(e)'
    <3>e. /\ OneMail(e)
          /\ pc[e] \in Early => mails[e] = {} /\ ~outbound_sent[e]
          /\ pc[e] = "reply" => plan[e] # "failure"
      BY <1>g, <1>t DEF PlanInv
    <3>l. pc[e] \in Live
      BY <1>2, RunFrame
    <3>1. CASE VerifyOidc(e) \/ Load(e) \/ Extract(e) \/ Package(e)
      BY <3>1, <3>e, <1>t DEF TypeOK, OneMail, VerifyOidc, Load, Extract, Package, Early, Stages
    <3>2. CASE Classify(e) \/ Scrape(e)
      BY <3>2, <3>e, <1>t DEF TypeOK, OneMail, Classify, Scrape, Decide, Early, Stages
    <3>3. CASE Merge(e)
      BY <3>3, <3>e, <1>t DEF TypeOK, OneMail, Merge, Early, Stages
    <3>4. CASE Reply(e)
      BY <3>4, <3>e, <1>t DEF TypeOK, OneMail, Reply, Stages
    <3>5. CASE Upsert(e) \/ UpsertFails(e)
      BY <3>5, <3>e, <1>t DEF TypeOK, OneMail, Upsert, UpsertFails, Stages
    <3>6. CASE DoneWrite(e) \/ FailWrite(e) \/ ApologiseFails(e) \/ FailWriteFails(e)
                 \/ CrashRun(e)
      BY <3>6, <3>e, <1>t
         DEF TypeOK, OneMail, DoneWrite, FailWrite, ApologiseFails, FailWriteFails, CrashRun,
             Stages
    <3>7. CASE Apologise(e)
      BY <3>7, <3>e, <1>t DEF TypeOK, OneMail, Apologise, Stages
    <3>8. CASE StageFails(e)
      BY <3>8, <3>e, <1>t DEF TypeOK, OneMail, StageFails, Handler, Stages
    <3>9. CASE ReplyUnanswered(e) \/ DoneWriteUnanswered(e)
      BY <3>9, NoLostAck DEF ReplyUnanswered, DoneWriteUnanswered
    <3>q. QED
      BY <1>2, <3>1, <3>2, <3>3, <3>4, <3>5, <3>6, <3>7, <3>8, <3>9
         DEF RunStep, RunFault
  <2>q. QED
    BY <2>1, <2>2
<1>3. CASE UNCHANGED vars
  BY <1>3, <1>g DEF vars, OneMail, OneMailInv
<1>q. QED
  BY <1>1, <1>2, <1>3 DEF Next, OneMailInv

-----------------------------------------------------------------------------
(* A live run's job is open, and its handler waits for it. *)

LEMMA SettledHandler ==
  ASSUME Answering, IInv, SettledInv, NEW m \in Messages,
         Claim(m) \/ DuplicateSkipped(m) \/ HandlerStep(m) \/ QueueStep(m)
           \/ HandlerFault(m)
  PROVE  SettledInv'
<1>t. TypeOK /\ QueueInv /\ StartInv /\ JobInv
  BY DEF IInv
<1>e. \A e \in Execs : Mid(e) \in Messages /\ e = <<Mid(e), 1>>
  BY OneRun
<1>s. \A e \in Execs : Settled(e)
  BY DEF SettledInv
<1>1. CASE Claim(m)
  <2>1. hook[m] = "idle"
    BY <1>1, <1>t DEF Claim, QueueInv
  <2>q. QED
    BY <1>1, <2>1, <1>e, <1>s, <1>t DEF Claim, run, TypeOK, SettledInv, Settled
<1>2. CASE DuplicateSkipped(m)
  BY <1>2, <1>s DEF DuplicateSkipped, store, run, SettledInv, Settled
<1>3. CASE SaveJob(m)
  BY <1>3, <1>e, <1>s, <1>t DEF SaveJob, run, TypeOK, SettledInv, Settled
<1>4. CASE EnqueueInline(m)
  <2>1. \A e \in Execs : Mid(e) # m => Settled(e)'
    <3> SUFFICES ASSUME NEW e \in Execs, Mid(e) # m PROVE Settled(e)'
      OBVIOUS
    <3>1. e # <<m, 1>>
      BY DEF Mid
    <3>2. pc'[e] = pc[e] /\ hook'[Mid(e)] = hook[Mid(e)] /\ jobs' = jobs
      BY <1>4, <1>e, <1>t, <3>1 DEF EnqueueInline, TypeOK, store
    <3>q. QED
      BY <1>s, <3>2 DEF Settled
  <2>2. Settled(<<m, 1>>)'
    <3>1. <<m, 1>> \in Execs /\ Mid(<<m, 1>>) = m
      BY OneRun DEF Mid
    <3>2. jobs[m] = "processing"
      BY <1>4, <1>s, <3>1 DEF EnqueueInline, Settled
    <3>3. /\ pc'[<<m, 1>>] = "load" /\ hook'[m] = "await" /\ jobs' = jobs
      BY <1>4, <1>t, <3>1 DEF EnqueueInline, TypeOK, store
    <3>q. QED
      BY <3>1, <3>2, <3>3 DEF Settled, Terminal
  <2>q. QED
    BY <1>e, <2>1, <2>2 DEF SettledInv
<1>5. CASE CreateTask(m) \/ CreateTaskFails(m) \/ QueueStep(m) \/ Deadline(m)
  BY <1>5, <1>t DEF Answering, CreateTask, CreateTaskFails, QueueStep, Dispatch,
       Respond, Deadline, QueueInv
<1>6. CASE InlineReturns(m)
  <2>1. /\ hook' = [hook EXCEPT ![m] = "answered"] /\ hook[m] = "await"
        /\ pc[<<m, 1>>] = "returned" /\ UNCHANGED <<jobs, pc>>
    BY <1>6 DEF InlineReturns, store, run
  <2>2. ASSUME NEW e \in Execs PROVE Settled(e)'
    <3>1. CASE Mid(e) = m
      <4>1. pc[e] = "returned" /\ hook'[Mid(e)] = "answered"
        BY <2>1, <3>1, <1>e, <1>t DEF TypeOK
      <4>q. QED
        BY <2>1, <3>1, <4>1 DEF Settled, Live, Stages
    <3>2. CASE Mid(e) # m
      BY <1>s, <1>e, <1>t, <2>1, <3>2 DEF TypeOK, Settled
    <3>q. QED
      BY <3>1, <3>2
  <2>q. QED
    BY <2>2 DEF SettledInv
<1>7. CASE InlineEscapes(m)
  <2>1. /\ hook' = [hook EXCEPT ![m] = "mark_failed"] /\ hook[m] = "await"
        /\ pc[<<m, 1>>] = "raised" /\ UNCHANGED <<jobs, pc>>
    BY <1>7 DEF InlineEscapes, store, run
  <2>2. ASSUME NEW e \in Execs PROVE Settled(e)'
    <3>1. CASE Mid(e) = m
      <4>1. pc[e] = "raised" /\ hook'[Mid(e)] = "mark_failed"
        BY <2>1, <3>1, <1>e, <1>t DEF TypeOK
      <4>q. QED
        BY <1>s, <2>1, <3>1, <4>1 DEF Settled, Live, Stages
    <3>2. CASE Mid(e) # m
      BY <1>s, <1>e, <1>t, <2>1, <3>2 DEF TypeOK, Settled
    <3>q. QED
      BY <3>1, <3>2
  <2>q. QED
    BY <2>2 DEF SettledInv
<1>8. CASE MarkFailed(m)
  BY <1>8, <1>e, <1>s, <1>t
     DEF MarkFailed, run, TypeOK, SettledInv, Settled, Live, Stages
<1>9. CASE ClaimUnanswered(m)
  BY <1>9, NoLostAck DEF ClaimUnanswered
<1>10. CASE SaveJobFails(m) \/ MarkFailedFails(m) \/ CrashHandler(m)
  <2>1. /\ hook[m] \in {"save", "enqueue", "mark_failed"}
        /\ hook' \in {[hook EXCEPT ![m] = "aborted"], [hook EXCEPT ![m] = "dead"]}
        /\ UNCHANGED <<jobs, pc>>
    BY <1>10, NoLostAck DEF SaveJobFails, MarkFailedFails, CrashHandler, store, run
  <2>q. QED
    BY <2>1, <1>e, <1>s, <1>t DEF TypeOK, SettledInv, Settled
<1>q. QED
  BY <1>1, <1>2, <1>3, <1>4, <1>5, <1>6, <1>7, <1>8, <1>9, <1>10
     DEF HandlerStep, HandlerFault

LEMMA SettledRun ==
  ASSUME Answering, IInv, SettledInv, NEW e \in Execs, RunStep(e) \/ RunFault(e)
  PROVE  SettledInv'
<1>t. TypeOK /\ QueueInv /\ StartInv /\ JobInv
  BY DEF IInv
<1>e. \A f \in Execs : Mid(f) \in Messages /\ f = <<Mid(f), 1>>
  BY OneRun
<1>s. \A f \in Execs : Settled(f)
  BY DEF SettledInv
<1>l. pc[e] \in Live /\ hook[Mid(e)] = "await" /\ jobs[Mid(e)] \notin Terminal
  BY <1>s, RunFrame DEF Settled
<1>1. ASSUME NEW f \in Execs, f # e PROVE Settled(f)'
  <2>1. Mid(f) # Mid(e)
    BY <1>e, <1>1
  <2>2. pc'[f] = pc[f]
    BY <1>1, <1>t, RunLocal
  <2>3. jobs'[Mid(f)] = jobs[Mid(f)]
    BY <1>e, <1>t, <2>1, RunSettles
  <2>4. hook'[Mid(f)] = hook[Mid(f)]
    BY <1>e, <1>t, <2>1, RunFrame DEF CrashRun, TypeOK
  <2>q. QED
    BY <1>s, <2>2, <2>3, <2>4 DEF Settled
<1>2. Settled(e)'
  <2>1. CASE CrashRun(e)
    <3>1. pc'[e] = "dead" /\ hook'[Mid(e)] = "dead"
      BY <1>e, <1>t, <2>1 DEF CrashRun, Answering, TypeOK
    <3>q. QED
      BY <3>1 DEF Settled, Live, Stages
  <2>2. CASE DoneWrite(e) \/ FailWrite(e)
    BY <1>l, <1>t, <2>2
       DEF DoneWrite, FailWrite, Settled, TypeOK, front, Live, Stages
  <2>3. CASE UNCHANGED <<jobs, hook>>
    BY <1>l, <2>3 DEF Settled, Terminal
  <2>4. CrashRun(e) \/ DoneWrite(e) \/ FailWrite(e) \/ UNCHANGED <<jobs, hook>>
    <3>1. CASE RunStep(e)
      BY <3>1 DEF RunStep, VerifyOidc, Load, Classify, Extract, Merge, Scrape,
           Package, Reply, Upsert, Apologise, store, front
    <3>2. CASE RunFault(e)
      BY <3>2, NoLostAck DEF RunFault, StageFails, ReplyUnanswered, UpsertFails,
           DoneWriteUnanswered, ApologiseFails, FailWriteFails, store, front
    <3>3. RunStep(e) \/ RunFault(e)
      OBVIOUS
    <3>q. QED
      BY <3>1, <3>2, <3>3
  <2>q. QED
    BY <2>1, <2>2, <2>3, <2>4
<1>q. QED
  BY <1>1, <1>2 DEF SettledInv

LEMMA SettledStep ==
  ASSUME Answering, IInv, SettledInv, [Next]_vars
  PROVE  SettledInv'
<1>1. CASE UNCHANGED vars
  BY <1>1 DEF vars, SettledInv, Settled
<1>q. QED
  BY <1>1, SettledHandler, SettledRun DEF Next

-----------------------------------------------------------------------------
(* What the promise sees of a step: nothing, a terminal write of an open job,  *)
(* or the first mail of an open job.                                           *)

Quiet == UNCHANGED mails /\ \A m \in Messages :
           jobs'[m] = jobs[m] \/ (jobs[m] \notin Terminal /\ jobs'[m] \notin Terminal)
Finishes(m, s) ==
  /\ jobs[m] \notin Terminal /\ jobs' = [jobs EXCEPT ![m] = s]
  /\ s = "done" => "failure" \notin mails[<<m, 1>>]
  /\ UNCHANGED mails
Sends(m, k) ==
  /\ jobs[m] \notin Terminal /\ UNCHANGED jobs
  /\ mails[<<m, 1>>] = {} /\ mails' = [mails EXCEPT ![<<m, 1>>] = {k}]

LEMMA HandlerVisible ==
  ASSUME Answering, IInv, SettledInv, NEW m \in Messages,
         Claim(m) \/ DuplicateSkipped(m) \/ HandlerStep(m) \/ QueueStep(m)
           \/ HandlerFault(m)
  PROVE  Quiet \/ Finishes(m, "failed")
<1>t. TypeOK /\ QueueInv /\ JobInv
  BY DEF IInv
<1>m. UNCHANGED mails
  BY HandlerFrame
<1>1. CASE Claim(m)
  BY <1>1, <1>m, <1>t DEF Claim, Quiet, TypeOK, Terminal
<1>2. CASE SaveJob(m)
  BY <1>2, <1>m, <1>t DEF SaveJob, Quiet, TypeOK, JobInv, Terminal
<1>3. CASE MarkFailed(m)
  <2>1. Settled(<<m, 1>>) /\ Mid(<<m, 1>>) = m
    BY OneRun DEF SettledInv, Mid
  <2>2. jobs[m] # "done" /\ jobs' = [jobs EXCEPT ![m] = "failed"]
    BY <1>3, <2>1 DEF Settled, MarkFailed
  <2>3. CASE jobs[m] = "failed"
    BY <1>m, <1>t, <2>2, <2>3 DEF Quiet, TypeOK
  <2>4. CASE jobs[m] # "failed"
    BY <1>m, <2>2, <2>4 DEF Finishes, Terminal
  <2>q. QED
    BY <2>3, <2>4
<1>4. CASE UNCHANGED jobs
  BY <1>4, <1>m DEF Quiet
<1>5. Claim(m) \/ SaveJob(m) \/ MarkFailed(m) \/ UNCHANGED jobs
  BY NoLostAck DEF HandlerStep, QueueStep, HandlerFault, DuplicateSkipped,
     EnqueueInline, CreateTask, InlineReturns, InlineEscapes, Dispatch, Respond,
     ClaimUnanswered, SaveJobFails, CreateTaskFails, MarkFailedFails,
     CrashHandler, Deadline, store
<1>q. QED
  BY <1>1, <1>2, <1>3, <1>4, <1>5

LEMMA RunVisible ==
  ASSUME Answering, IInv, OneMailInv, SettledInv, NEW e \in Execs,
         RunStep(e) \/ RunFault(e)
  PROVE  \/ Quiet
         \/ \E s \in Terminal : Finishes(Mid(e), s)
         \/ \E k \in Kinds : Sends(Mid(e), k)
<1>t. TypeOK /\ PlanInv
  BY DEF IInv
<1>e. e = <<Mid(e), 1>> /\ Mid(e) \in Messages
  BY OneRun
<1>o. OneMail(e) /\ jobs[Mid(e)] \notin Terminal
  BY RunFrame DEF OneMailInv, SettledInv, Settled
<1>1. CASE Reply(e)
  <2>1. mails[e] = {} /\ plan[e] \in Kinds /\ UNCHANGED jobs
    BY <1>1, <1>o, <1>t DEF Reply, OneMail, Stages, PlanInv, store
  <2>2. mails' = [mails EXCEPT ![e] = {plan[e]}]
    BY <1>1, <2>1 DEF Reply
  <2>q. QED
    BY <1>e, <1>o, <2>1, <2>2 DEF Sends
<1>2. CASE Apologise(e)
  <2>1. mails[e] = {} /\ "failure" \in Kinds /\ UNCHANGED jobs
    BY <1>2, <1>o DEF Apologise, OneMail, store, Kinds
  <2>2. mails' = [mails EXCEPT ![e] = {"failure"}]
    BY <1>2, <2>1 DEF Apologise
  <2>q. QED
    BY <1>e, <1>o, <2>1, <2>2 DEF Sends
<1>3. CASE DoneWrite(e)
  <2>1. "failure" \notin mails[e] /\ "done" \in Terminal
    BY <1>3, <1>o DEF DoneWrite, OneMail, Terminal
  <2>2. Finishes(Mid(e), "done")
    BY <1>3, <1>e, <1>o, <2>1 DEF DoneWrite, Finishes
  <2>q. QED
    BY <2>1, <2>2
<1>4. CASE FailWrite(e)
  <2>1. Finishes(Mid(e), "failed") /\ "failed" \in Terminal
    BY <1>4, <1>o DEF FailWrite, Finishes, Terminal
  <2>q. QED
    BY <2>1
<1>5. CASE UNCHANGED <<jobs, mails>>
  BY <1>5 DEF Quiet
<1>6. \/ Reply(e) \/ Apologise(e) \/ DoneWrite(e) \/ FailWrite(e)
      \/ UNCHANGED <<jobs, mails>>
  <2>1. CASE RunStep(e)
    BY <2>1 DEF RunStep, VerifyOidc, Load, Classify, Extract, Merge, Scrape,
         Package, Upsert, store
  <2>2. CASE RunFault(e)
    BY <2>2, NoLostAck DEF RunFault, StageFails, ReplyUnanswered, UpsertFails,
         DoneWriteUnanswered, ApologiseFails, FailWriteFails, CrashRun, store
  <2>3. RunStep(e) \/ RunFault(e)
    OBVIOUS
  <2>q. QED
    BY <2>1, <2>2, <2>3
<1>q. QED
  BY <1>1, <1>2, <1>3, <1>4, <1>5, <1>6

LEMMA Visible ==
  ASSUME Answering, IInv, OneMailInv, SettledInv, [Next]_vars
  PROVE  \/ Quiet
         \/ \E m \in Messages : \E s \in Terminal : Finishes(m, s)
         \/ \E m \in Messages : \E k \in Kinds : Sends(m, k)
<1>1. CASE UNCHANGED vars
  BY <1>1 DEF vars, Quiet
<1>2. ASSUME NEW m \in Messages,
             Claim(m) \/ DuplicateSkipped(m) \/ HandlerStep(m) \/ QueueStep(m)
               \/ HandlerFault(m)
      PROVE  Quiet \/ Finishes(m, "failed")
  BY <1>2, HandlerVisible
<1>3. "failed" \in Terminal /\ \A e \in Execs : Mid(e) \in Messages
  BY OneRun DEF Terminal
<1>q. QED
  BY <1>1, <1>2, <1>3, RunVisible DEF Next

LEMMA PromiseInvInit == Init => PromiseInv
<1> SUFFICES ASSUME Init PROVE PromiseInv
  OBVIOUS
<1>1. IInv
  BY IInvInit
<1>2. OneMailInv
  BY DEF Init, OneMailInv, OneMail, Stages
<1>3. SettledInv
  BY DEF Init, SettledInv, Settled, Live, Stages, Execs, Mid
<1>q. QED
  BY <1>1, <1>2, <1>3 DEF PromiseInv

LEMMA PromiseInvStep ==
  ASSUME Answering, PromiseInv, [Next]_vars
  PROVE  PromiseInv'
  BY IInvStep, OneMailStep, SettledStep DEF PromiseInv

LEMMA PromiseInvAlways == Answering => (Spec => []PromiseInv)
<1> SUFFICES ASSUME Answering PROVE Spec => []PromiseInv
  OBVIOUS
<1>1. PromiseInv /\ [Next]_vars => PromiseInv'
  BY PromiseInvStep
<1>q. QED
  BY PromiseInvInit, <1>1, PTL DEF Spec

-----------------------------------------------------------------------------
(* The refinement mapping. *)

LEMMA SentOf ==
  ASSUME Answering, NEW m \in Messages
  PROVE  /\ Sent(m) = mails[<<m, 1>>]
         /\ Sent(m)' = mails'[<<m, 1>>]
<1>1. RunsOf(m) = {<<m, 1>>}
  BY OneRun
<1>2. UNION {mails[e] : e \in RunsOf(m)} = mails[<<m, 1>>]
  BY <1>1
<1>3. RunsOf(m)' = {<<m, 1>>}
  BY <1>1 DEF RunsOf
<1>4. UNION {mails'[e] : e \in RunsOf(m)'} = mails'[<<m, 1>>]
  BY <1>3
<1>5. Sent(m) = mails[<<m, 1>>]
  BY <1>2 DEF Sent
<1>6. Sent(m)' = mails'[<<m, 1>>]
  BY <1>4 DEF Sent
<1>q. QED
  BY <1>5, <1>6

(* A quiet step stutters. *)
LEMMA QuietMaps ==
  ASSUME Answering, Quiet
  PROVE  /\ [m \in Messages |-> Status(m)'] = [m \in Messages |-> Status(m)]
         /\ [m \in Messages |-> Sent(m)'] = [m \in Messages |-> Sent(m)]
<1>1. \A m \in Messages : Status(m)' = Status(m)
  BY DEF Quiet, Status
<1>2. \A m \in Messages : Sent(m)' = Sent(m)
  BY SentOf DEF Quiet
<1>q. QED
  BY <1>1, <1>2

(* A terminal write is a Finish. *)
LEMMA FinishMaps ==
  ASSUME Answering, PromiseInv, NEW m \in Messages, NEW s \in Terminal,
         Finishes(m, s)
  PROVE  Promise!Finish(m, s)
<1>t. TypeOK
  BY DEF PromiseInv, IInv
<1>1. Status(m) = "open"
  BY DEF Finishes, Status
<1>2. s = "done" => "failure" \notin Sent(m)
  BY SentOf DEF Finishes
<1>3. \A n \in Messages : Status(n)' = IF n = m THEN s ELSE Status(n)
  BY <1>t DEF Finishes, Status, TypeOK
<1>4. \A n \in Messages : Sent(n)' = Sent(n)
  BY SentOf DEF Finishes
<1>q. QED
  BY <1>1, <1>2, <1>3, <1>4 DEF Promise!Finish

(* A first mail is a Send. *)
LEMMA SendMaps ==
  ASSUME Answering, PromiseInv, NEW m \in Messages, NEW k \in Kinds, Sends(m, k)
  PROVE  Promise!Send(m, k)
<1>t. TypeOK
  BY DEF PromiseInv, IInv
<1>1. Status(m) = "open" /\ Sent(m) = {}
  BY SentOf DEF Sends, Status
<1>2. mails'[<<m, 1>>] = {k}
  BY <1>t, OneRun DEF Sends, TypeOK
<1>3. Sent(m)' = {k}
  BY <1>2, SentOf
<1>4. ASSUME NEW n \in Messages, n # m PROVE Sent(n)' = Sent(n)
  <2>1. <<n, 1>> # <<m, 1>> /\ <<n, 1>> \in Execs
    BY <1>4, OneRun
  <2>2. mails'[<<n, 1>>] = mails[<<n, 1>>]
    BY <1>t, <2>1 DEF Sends, TypeOK
  <2>q. QED
    BY <2>2, SentOf
<1>5. \A n \in Messages : Status(n)' = Status(n)
  BY DEF Sends, Status
<1>q. QED
  BY <1>1, <1>3, <1>4, <1>5 DEF Promise!Send

LEMMA MappedStep ==
  ASSUME Answering, PromiseInv, [Next]_vars
  PROVE  [Promise!Next]_<<[m \in Messages |-> Status(m)], [m \in Messages |-> Sent(m)]>>
<1>1. CASE Quiet
  BY <1>1, QuietMaps
<1>2. ASSUME NEW m \in Messages, NEW s \in Terminal, Finishes(m, s)
      PROVE  Promise!Next
  BY <1>2, FinishMaps DEF Promise!Next, Terminal
<1>3. ASSUME NEW m \in Messages, NEW k \in Kinds, Sends(m, k)
      PROVE  Promise!Next
  BY <1>3, SendMaps DEF Promise!Next, Kinds
<1>q. QED
  BY <1>1, <1>2, <1>3, Visible DEF PromiseInv

LEMMA MappedInit == ASSUME Answering, Init PROVE Promise!Init
<1>1. \A m \in Messages : Status(m) = "open"
  BY DEF Init, Status, Terminal
<1>2. \A m \in Messages : Sent(m) = {}
  BY OneRun, SentOf DEF Init
<1>q. QED
  BY <1>1, <1>2 DEF Promise!Init

(* Inline and without lost answers the pipeline implements OneOutbound: at   *)
(* most one mail per job, then one terminal status, nothing after it, and    *)
(* no done job whose user got the failure email (app/pipeline.py:1-12).      *)
THEOREM InlineKeepsPromise == Answering => (Spec => PromiseKept)
<1> SUFFICES ASSUME Answering PROVE Spec => PromiseKept
  OBVIOUS
<1>1. Init => Promise!Init
  BY MappedInit
<1>2. PromiseInv /\ [Next]_vars =>
        [Promise!Next]_<<[m \in Messages |-> Status(m)], [m \in Messages |-> Sent(m)]>>
  BY MappedStep
<1>3. Spec => []PromiseInv
  BY PromiseInvAlways
<1>q. QED
  BY <1>1, <1>2, <1>3, PTL DEF Spec, PromiseKept, Promise!Spec

(* A corollary in the form of RunsKeepDone: a job once reported done stays   *)
(* done, whatever its handler does.                                          *)
DoneIsFinal ==
  [][\A m \in Messages : jobs[m] = "done" => jobs'[m] = "done"]_vars

LEMMA InlineDoneIsFinal == Answering => (Spec => DoneIsFinal)
<1> SUFFICES ASSUME Answering PROVE Spec => DoneIsFinal
  OBVIOUS
<1>1. PromiseInv /\ [Next]_vars =>
        [\A m \in Messages : jobs[m] = "done" => jobs'[m] = "done"]_vars
  <2> SUFFICES ASSUME PromiseInv, [Next]_vars, NEW m \in Messages, jobs[m] = "done"
               PROVE  jobs'[m] = "done"
    OBVIOUS
  <2>1. CASE Quiet
    BY <2>1 DEF Quiet, Terminal
  <2>2. ASSUME NEW n \in Messages, NEW s \in Terminal, Finishes(n, s)
        PROVE  jobs'[m] = "done"
    BY <2>2 DEF Finishes, Terminal, PromiseInv, IInv, TypeOK
  <2>3. ASSUME NEW n \in Messages, NEW k \in Kinds, Sends(n, k)
        PROVE  jobs'[m] = "done"
    BY <2>3 DEF Sends
  <2>q. QED
    BY <2>1, <2>2, <2>3, Visible DEF PromiseInv
<1>q. QED
  BY <1>1, PromiseInvAlways, PTL DEF Spec, DoneIsFinal

=============================================================================
