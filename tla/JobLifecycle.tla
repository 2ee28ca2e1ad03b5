---------------------------- MODULE JobLifecycle ----------------------------
(***************************************************************************)
(* The life of an inbound email in the document agent: the webhook handler *)
(* that claims, saves and dispatches it (app/main.py), the queue that runs *)
(* it inline or as a Cloud Task (app/queue/tasks.py), the pipeline that    *)
(* classifies, extracts, scrapes, replies and records (app/pipeline.py),   *)
(* and the rows the store keeps for the job and for the email's thread     *)
(* (app/store/).                                                           *)
(*                                                                         *)
(* Every await in the code ends an action here, so jobs of different       *)
(* messages, the webhook's redeliveries and the attempts of one Cloud Task *)
(* interleave as the event loop and the instances let them.  Faults (an    *)
(* exception, an answer lost after its effect took place, a crash, a       *)
(* request cut off by its deadline) are bounded by the budget MaxFaults.   *)
(***************************************************************************)
EXTENDS Naturals, FiniteSets

CONSTANTS
  Messages,     \* message ids, the idempotency keys of inbound emails
  Threads,      \* conversation ids
  Matters,      \* matter numbers
  DocTypes,     \* document types
  None,         \* Python's None: no thread, no matter, no type, no row
  Thread,       \* Thread[m]: the thread id of message m, or None
  Asks,         \* Asks[m]: what extract reads in m, at temperature 0
  ReceivedAt,   \* ReceivedAt[m]: when m was received
  QueueMode,    \* the setting queue_mode
  MaxAttempts,  \* attempts Cloud Tasks makes of a task (1 in inline mode)
  FaultKinds,   \* the kinds of fault of this instance
  MaxFaults     \* how many faults may happen

Requests == [matter : Matters \cup {None}, type : DocTypes \cup {None}]

ASSUME ModeAssumption == QueueMode \in {"inline", "tasks"}
ASSUME DataAssumption ==
  /\ Thread \in [Messages -> Threads \cup {None}]
  /\ Asks \in [Messages -> Requests]
  /\ ReceivedAt \in [Messages -> Nat]
  /\ None \notin Messages \cup Threads \cup Matters \cup DocTypes
  /\ None \notin Requests
ASSUME BoundAssumption ==
  /\ MaxAttempts \in Nat \ {0}
  /\ QueueMode = "inline" => MaxAttempts = 1
  /\ MaxFaults \in Nat
  /\ FaultKinds \subseteq {"error", "blank", "lostAck", "crash", "timeout"}

(***************************************************************************)
(* A run of process_job is named by its message and its attempt.           *)
(***************************************************************************)
Execs == Messages \X (1 .. MaxAttempts)
Mid(e) == e[1]

Terminal == {"done", "failed"}
Kinds == {"ack", "clarify", "not_found", "empty", "documents", "failure"}
Plans == (Kinds \ {"failure"}) \cup {"undecided", "request", "drop"}

(* Where an exception can come from: the awaits of process_job. *)
Stages == {"verify", "load", "classify", "extract", "merge", "scrape",
           "package", "reply", "done_write"}
(* The stages that talk through httpx, whose timeouts carry no message. *)
BlankStages == {"merge", "reply", "done_write"}
Live == Stages \cup {"upsert", "apologise", "fail_write"}
Labels == Live \cup {"idle", "returned", "raised", "dead"}

VARIABLES
  jobs,           \* the row of a message: absent, claimed (placeholder), status
  threads,        \* the row of a thread: a Requests record, or None
  hook,           \* the /inbound handler that won the claim
  acked,          \* messages whose webhook was answered with a 200
  task,           \* the Cloud Task of a message
  attempts,       \* dispatches of that task so far
  pc,             \* where a run of process_job is
  plan,           \* what that run has decided to answer
  req,            \* its ParsedRequest after merging
  outbound_sent,  \* its flag of that name
  mails,          \* history: the mails of a run the provider accepted
  served,         \* history: the message whose run wrote a thread's row
  faults          \* history: faults so far

store == <<jobs, threads, served>>
front == <<hook, acked>>
queue == <<task, attempts>>
run == <<pc, plan, req, outbound_sent>>
vars == <<jobs, threads, hook, acked, task, attempts, pc, plan, req,
          outbound_sent, mails, served, faults>>

Init ==
  /\ jobs = [m \in Messages |-> "absent"]
  /\ threads = [t \in Threads |-> None]
  /\ hook = [m \in Messages |-> "idle"]
  /\ acked = {}
  /\ task = [m \in Messages |-> "none"]
  /\ attempts = [m \in Messages |-> 0]
  /\ pc = [e \in Execs |-> "idle"]
  /\ plan = [e \in Execs |-> "undecided"]
  /\ req = [e \in Execs |-> [matter |-> None, type |-> None]]
  /\ outbound_sent = [e \in Execs |-> FALSE]
  /\ mails = [e \in Execs |-> {}]
  /\ served = [t \in Threads |-> None]
  /\ faults = 0

(* One fault of kind k is spent from the budget. *)
Fault(k) ==
  /\ k \in FaultKinds
  /\ faults < MaxFaults
  /\ faults' = faults + 1

-----------------------------------------------------------------------------
(***************************************************************************)
(* POST /inbound.                                                          *)
(***************************************************************************)

(* Mutant of Claim: the claim replaces an existing row instead of failing. *)
ClaimOverwrites(m) ==
  /\ jobs' = [jobs EXCEPT ![m] = "claimed"]
  /\ hook' = [hook EXCEPT ![m] = "save"]
  /\ UNCHANGED <<threads, served, acked, queue, run, mails, faults>>

(* The first delivery claims the message: the UNIQUE insert succeeded. *)
Claim(m) ==
  /\ jobs[m] = "absent"
  /\ jobs' = [jobs EXCEPT ![m] = "claimed"]
  /\ hook' = [hook EXCEPT ![m] = "save"]
  /\ UNCHANGED <<threads, served, acked, queue, run, mails, faults>>

(* The insert took place but its answer was lost: the handler raised a 500. *)
ClaimUnanswered(m) ==
  /\ jobs[m] = "absent"
  /\ Fault("lostAck")
  /\ jobs' = [jobs EXCEPT ![m] = "claimed"]
  /\ hook' = [hook EXCEPT ![m] = "aborted"]
  /\ UNCHANGED <<threads, served, acked, queue, run, mails>>

(* AgentMail redelivers until it is answered 200; a claimed message is skipped. *)
DuplicateSkipped(m) ==
  /\ jobs[m] # "absent"
  /\ m \notin acked
  /\ acked' = acked \cup {m}
  /\ UNCHANGED <<store, hook, queue, run, mails, faults>>

SaveJob(m) ==
  /\ hook[m] = "save"
  /\ jobs' = [jobs EXCEPT ![m] = "processing"]
  /\ hook' = [hook EXCEPT ![m] = "enqueue"]
  /\ UNCHANGED <<threads, served, acked, queue, run, mails, faults>>

(* save_job raises outside the handler's try: a 500, and the claim stays. *)
SaveJobFails(m) ==
  /\ hook[m] = "save"
  /\ \/ Fault("error") /\ UNCHANGED jobs
     \/ Fault("lostAck") /\ jobs' = [jobs EXCEPT ![m] = "processing"]
  /\ hook' = [hook EXCEPT ![m] = "aborted"]
  /\ UNCHANGED <<threads, served, acked, queue, run, mails>>

(* enqueue in inline mode awaits process_job inside the webhook request. *)
EnqueueInline(m) ==
  /\ QueueMode = "inline"
  /\ hook[m] = "enqueue"
  /\ hook' = [hook EXCEPT ![m] = "await"]
  /\ pc' = [pc EXCEPT ![<<m, 1>>] = "load"]
  /\ UNCHANGED <<store, acked, queue, plan, req, outbound_sent, mails, faults>>

(* enqueue in tasks mode creates the Cloud Task, and the webhook is answered. *)
CreateTask(m) ==
  /\ QueueMode = "tasks"
  /\ hook[m] = "enqueue"
  /\ task' = [task EXCEPT ![m] = "queued"]
  /\ hook' = [hook EXCEPT ![m] = "answered"]
  /\ acked' = acked \cup {m}
  /\ UNCHANGED <<store, attempts, run, mails, faults>>

CreateTaskFails(m) ==
  /\ QueueMode = "tasks"
  /\ hook[m] = "enqueue"
  /\ \/ Fault("error") /\ UNCHANGED task
     \/ Fault("lostAck") /\ task' = [task EXCEPT ![m] = "queued"]
  /\ hook' = [hook EXCEPT ![m] = "mark_failed"]
  /\ UNCHANGED <<store, acked, attempts, run, mails>>

(* process_job came back inside the webhook request: 200. *)
InlineReturns(m) ==
  /\ hook[m] = "await"
  /\ pc[<<m, 1>>] = "returned"
  /\ hook' = [hook EXCEPT ![m] = "answered"]
  /\ acked' = acked \cup {m}
  /\ UNCHANGED <<store, queue, run, mails, faults>>

(* An exception escaped process_job: the handler is about to mark the job. *)
InlineEscapes(m) ==
  /\ hook[m] = "await"
  /\ pc[<<m, 1>>] = "raised"
  /\ hook' = [hook EXCEPT ![m] = "mark_failed"]
  /\ UNCHANGED <<store, acked, queue, run, mails, faults>>

(* Mutant of MarkFailed: the 200 is given without the status write. *)
AnswersUnmarked(m) ==
  /\ hook[m] = "mark_failed"
  /\ hook' = [hook EXCEPT ![m] = "answered"]
  /\ acked' = acked \cup {m}
  /\ UNCHANGED <<store, queue, run, mails, faults>>

MarkFailed(m) ==
  /\ hook[m] = "mark_failed"
  /\ jobs' = [jobs EXCEPT ![m] = "failed"]
  /\ hook' = [hook EXCEPT ![m] = "answered"]
  /\ acked' = acked \cup {m}
  /\ UNCHANGED <<threads, served, queue, run, mails, faults>>

(* set_status in the handler's except clause is itself unguarded: a 500. *)
MarkFailedFails(m) ==
  /\ hook[m] = "mark_failed"
  /\ \/ Fault("error") /\ UNCHANGED jobs
     \/ Fault("lostAck") /\ jobs' = [jobs EXCEPT ![m] = "failed"]
  /\ hook' = [hook EXCEPT ![m] = "aborted"]
  /\ UNCHANGED <<threads, served, acked, queue, run, mails>>

-----------------------------------------------------------------------------
(***************************************************************************)
(* Cloud Tasks and POST /process.  The queue redispatches a task that was  *)
(* not answered 2xx, MaxAttempts times in all; the answer of a request the *)
(* queue gave up on is discarded, its process_job runs on.                 *)
(***************************************************************************)
Requeue(m) ==
  task' = [task EXCEPT ![m] =
             IF attempts[m] < MaxAttempts THEN "queued" ELSE "exhausted"]

Dispatch(m) ==
  /\ task[m] = "queued"
  /\ attempts' = [attempts EXCEPT ![m] = @ + 1]
  /\ task' = [task EXCEPT ![m] = "running"]
  /\ pc' = [pc EXCEPT ![<<m, attempts[m] + 1>>] = "verify"]
  /\ UNCHANGED <<store, front, plan, req, outbound_sent, mails, faults>>

(* The token of this dispatch verifies; a rejection (401) is a StageFails. *)
VerifyOidc(e) ==
  /\ pc[e] = "verify"
  /\ pc' = [pc EXCEPT ![e] = "load"]
  /\ UNCHANGED <<store, front, queue, plan, req, outbound_sent, mails, faults>>

(* Mutant of Respond: /process answers 200 to a retryable exception too. *)
RespondAlwaysOk(m) ==
  /\ task[m] = "running"
  /\ pc[<<m, attempts[m]>>] \in {"returned", "raised"}
  /\ task' = [task EXCEPT ![m] = "finished"]
  /\ UNCHANGED <<store, front, attempts, run, mails, faults>>

(* Mutant of Respond: /process answers 503 whatever came of the job. *)
RespondNeverOk(m) ==
  /\ task[m] = "running"
  /\ pc[<<m, attempts[m]>>] \in {"returned", "raised"}
  /\ Requeue(m)
  /\ UNCHANGED <<store, front, attempts, run, mails, faults>>

(* /process answers 200, or 503 when process_job raised. *)
Respond(m) ==
  /\ task[m] = "running"
  /\ \/ /\ pc[<<m, attempts[m]>>] = "returned"
        /\ task' = [task EXCEPT ![m] = "finished"]
     \/ /\ pc[<<m, attempts[m]>>] = "raised"
        /\ Requeue(m)
  /\ UNCHANGED <<store, front, attempts, run, mails, faults>>

(* The request outlives its deadline; the job it started is not cancelled. *)
Deadline(m) ==
  /\ task[m] = "running"
  /\ pc[<<m, attempts[m]>>] \in Live
  /\ Fault("timeout")
  /\ Requeue(m)
  /\ UNCHANGED <<store, front, attempts, run, mails>>

-----------------------------------------------------------------------------
(***************************************************************************)
(* process_job.                                                            *)
(***************************************************************************)

(* A placeholder row, or no row, is not a job: nothing to do. *)
Load(e) ==
  /\ pc[e] = "load"
  /\ pc' = [pc EXCEPT ![e] = IF jobs[Mid(e)] \in {"absent", "claimed"}
                               THEN "returned" ELSE "classify"]
  /\ UNCHANGED <<store, front, queue, plan, req, outbound_sent, mails, faults>>

(* The run settles on plan p and goes to its next stage. *)
Decide(e, p, next) ==
  /\ plan' = [plan EXCEPT ![e] = p]
  /\ pc' = [pc EXCEPT ![e] = next]

(* Mutant of Classify: a label outside the three is kept, not coerced. *)
ClassifyUncoerced(e) ==
  /\ pc[e] = "classify"
  /\ plan' = [plan EXCEPT ![e] = "spam"]
  /\ pc' = [pc EXCEPT ![e] = "extract"]
  /\ UNCHANGED <<store, front, queue, req, outbound_sent, mails, faults>>

Classify(e) ==
  /\ pc[e] = "classify"
  /\ \/ Decide(e, "drop", "done_write")   \* junk
     \/ Decide(e, "ack", "reply")         \* conversational
     \/ Decide(e, "request", "extract")
  /\ UNCHANGED <<store, front, queue, req, outbound_sent, mails, faults>>

Extract(e) ==
  /\ pc[e] = "extract"
  /\ req' = [req EXCEPT ![e] = Asks[Mid(e)]]
  /\ pc' = [pc EXCEPT ![e] = "merge"]
  /\ UNCHANGED <<store, front, queue, plan, outbound_sent, mails, faults>>

(* Null fields are inherited from the thread's row, explicit ones win. *)
Inherit(r, ctx) ==
  IF ctx = None THEN r
  ELSE [matter |-> IF r.matter = None THEN ctx.matter ELSE r.matter,
        type   |-> IF r.type = None THEN ctx.type ELSE r.type]

(* Mutant of ContextOf: the row is looked up without the thread's key. *)
ContextOfAnyone(m) ==
  LET rows == {t \in Threads : threads[t] # None}
  IN  IF rows = {} THEN None ELSE threads[CHOOSE t \in rows : TRUE]

ContextOf(m) == IF Thread[m] = None THEN None ELSE threads[Thread[m]]

Merge(e) ==
  /\ pc[e] = "merge"
  /\ LET merged == Inherit(req[e], ContextOf(Mid(e)))
         clear == merged.matter # None /\ merged.type # None
     IN  /\ req' = [req EXCEPT ![e] = merged]
         /\ plan' = [plan EXCEPT ![e] = IF clear THEN @ ELSE "clarify"]
         /\ pc' = [pc EXCEPT ![e] = IF clear THEN "scrape" ELSE "reply"]
  /\ UNCHANGED <<store, front, queue, outbound_sent, mails, faults>>

(* The matter is not found, has nothing of the type, or documents came down. *)
Scrape(e) ==
  /\ pc[e] = "scrape"
  /\ \/ Decide(e, "not_found", "reply")
     \/ Decide(e, "empty", "reply")
     \/ Decide(e, "documents", "package")
  /\ UNCHANGED <<store, front, queue, req, outbound_sent, mails, faults>>

(* Mutant of Package: the thread's row is written before the reply is sent. *)
PackageThenUpsert(e) ==
  /\ pc[e] = "package"
  /\ pc' = [pc EXCEPT ![e] = "upsert"]
  /\ UNCHANGED <<store, front, queue, plan, req, outbound_sent, mails, faults>>

(* package, then summarize. *)
Package(e) ==
  /\ pc[e] = "package"
  /\ pc' = [pc EXCEPT ![e] = "reply"]
  /\ UNCHANGED <<store, front, queue, plan, req, outbound_sent, mails, faults>>

Reply(e) ==
  /\ pc[e] = "reply"
  /\ mails' = [mails EXCEPT ![e] = @ \cup {plan[e]}]
  /\ outbound_sent' = [outbound_sent EXCEPT ![e] = TRUE]
  /\ pc' = [pc EXCEPT ![e] = IF plan[e] \in {"empty", "documents"}
                               THEN "upsert" ELSE "done_write"]
  /\ UNCHANGED <<store, front, queue, plan, req, faults>>

(* A message without a thread has no row to write. *)
Upsert(e) ==
  /\ pc[e] = "upsert"
  /\ LET t == Thread[Mid(e)]
     IN  IF t = None THEN UNCHANGED <<threads, served>>
         ELSE /\ threads' = [threads EXCEPT ![t] = req[e]]
              /\ served' = [served EXCEPT ![t] = Mid(e)]
  /\ pc' = [pc EXCEPT ![e] = "done_write"]
  /\ UNCHANGED <<jobs, front, queue, plan, req, outbound_sent, mails, faults>>

(* The store's exception is logged and swallowed: the reply is already out. *)
UpsertFails(e) ==
  /\ pc[e] = "upsert"
  /\ Thread[Mid(e)] # None
  /\ Fault("error")
  /\ pc' = [pc EXCEPT ![e] = "done_write"]
  /\ UNCHANGED <<store, front, queue, plan, req, outbound_sent, mails>>

DoneWrite(e) ==
  /\ pc[e] = "done_write"
  /\ jobs' = [jobs EXCEPT ![Mid(e)] = "done"]
  /\ pc' = [pc EXCEPT ![e] = "returned"]
  /\ UNCHANGED <<threads, served, front, queue, plan, req, outbound_sent, mails,
                 faults>>

(***************************************************************************)
(* The generic except clause: in tasks mode re-raise; inline, apologise    *)
(* unless a reply went out.  load_job runs before the try.  An exception   *)
(* whose text is empty makes str(exc).splitlines()[0] raise IndexError     *)
(* inside the clause, so that it escapes.                                  *)
(***************************************************************************)
(* Mutant of Handler: a send that raised is treated as sent. *)
HandlerSwallowsSend(e, text) ==
  IF pc[e] = "reply" THEN "done_write" ELSE "raised"

(* Mutant of Handler: the failure email goes out whether or not a reply did. *)
HandlerIgnoresSent(e, text) ==
  IF pc[e] = "load" \/ text = "blank" THEN "raised" ELSE "apologise"

(* Mutant of Handler: the failure email is forgotten. *)
HandlerForgetsMail(e, text) ==
  IF pc[e] = "load" \/ text = "blank" THEN "raised" ELSE "fail_write"

Handler(e, text) ==
  IF pc[e] \in {"verify", "load"} \/ QueueMode = "tasks" \/ text = "blank"
    THEN "raised"
    ELSE IF outbound_sent[e] THEN "fail_write" ELSE "apologise"

StageFails(e) ==
  /\ pc[e] \in Stages
  /\ \E text \in {"error", "blank"} :
       /\ text = "blank" => pc[e] \in BlankStages
       /\ Fault(text)
       /\ pc' = [pc EXCEPT ![e] = Handler(e, text)]
  /\ UNCHANGED <<store, front, queue, plan, req, outbound_sent, mails>>

(* The provider took the mail, but its answer was lost and the call raised. *)
ReplyUnanswered(e) ==
  /\ pc[e] = "reply"
  /\ Fault("lostAck")
  /\ mails' = [mails EXCEPT ![e] = @ \cup {plan[e]}]
  /\ \E text \in {"error"} \cup (FaultKinds \cap {"blank"}) :
       pc' = [pc EXCEPT ![e] = Handler(e, text)]
  /\ UNCHANGED <<store, front, queue, plan, req, outbound_sent>>

DoneWriteUnanswered(e) ==
  /\ pc[e] = "done_write"
  /\ Fault("lostAck")
  /\ jobs' = [jobs EXCEPT ![Mid(e)] = "done"]
  /\ \E text \in {"error"} \cup (FaultKinds \cap {"blank"}) :
       pc' = [pc EXCEPT ![e] = Handler(e, text)]
  /\ UNCHANGED <<threads, served, front, queue, plan, req, outbound_sent, mails>>

(* The failure email, best effort. *)
Apologise(e) ==
  /\ pc[e] = "apologise"
  /\ mails' = [mails EXCEPT ![e] = @ \cup {"failure"}]
  /\ pc' = [pc EXCEPT ![e] = "fail_write"]
  /\ UNCHANGED <<store, front, queue, plan, req, outbound_sent, faults>>

ApologiseFails(e) ==
  /\ pc[e] = "apologise"
  /\ Fault("error")
  /\ pc' = [pc EXCEPT ![e] = "fail_write"]
  /\ UNCHANGED <<store, front, queue, plan, req, outbound_sent, mails>>

FailWrite(e) ==
  /\ pc[e] = "fail_write"
  /\ jobs' = [jobs EXCEPT ![Mid(e)] = "failed"]
  /\ pc' = [pc EXCEPT ![e] = "returned"]
  /\ UNCHANGED <<threads, served, front, queue, plan, req, outbound_sent, mails,
                 faults>>

FailWriteFails(e) ==
  /\ pc[e] = "fail_write"
  /\ \/ Fault("error") /\ UNCHANGED jobs
     \/ Fault("lostAck") /\ jobs' = [jobs EXCEPT ![Mid(e)] = "failed"]
  /\ pc' = [pc EXCEPT ![e] = "raised"]
  /\ UNCHANGED <<threads, served, front, queue, plan, req, outbound_sent, mails>>

-----------------------------------------------------------------------------
(***************************************************************************)
(* Crashes of an instance.  The store is durable, nothing is swept or      *)
(* resumed at startup; Cloud Tasks sees the lost request as a failure.     *)
(***************************************************************************)
CrashHandler(m) ==
  /\ hook[m] \in {"save", "enqueue", "mark_failed"}
  /\ Fault("crash")
  /\ hook' = [hook EXCEPT ![m] = "dead"]
  /\ UNCHANGED <<store, acked, queue, run, mails>>

Awaited(e) == task[Mid(e)] = "running" /\ attempts[Mid(e)] = e[2]

CrashRun(e) ==
  /\ pc[e] \in Live
  /\ Fault("crash")
  /\ pc' = [pc EXCEPT ![e] = "dead"]
  /\ \/ /\ QueueMode = "inline"
        /\ hook' = [hook EXCEPT ![Mid(e)] = "dead"]
        /\ UNCHANGED task
     \/ QueueMode = "tasks" /\ Awaited(e) /\ Requeue(Mid(e)) /\ UNCHANGED hook
     \/ QueueMode = "tasks" /\ ~Awaited(e) /\ UNCHANGED <<hook, task>>
  /\ UNCHANGED <<store, acked, attempts, plan, req, outbound_sent, mails>>

-----------------------------------------------------------------------------
HandlerStep(m) ==
  \/ SaveJob(m) \/ EnqueueInline(m) \/ CreateTask(m)
  \/ InlineReturns(m) \/ InlineEscapes(m) \/ MarkFailed(m)

QueueStep(m) == Dispatch(m) \/ Respond(m)

RunStep(e) ==
  \/ VerifyOidc(e) \/ Load(e) \/ Classify(e) \/ Extract(e) \/ Merge(e)
  \/ Scrape(e) \/ Package(e) \/ Reply(e) \/ Upsert(e) \/ DoneWrite(e)
  \/ Apologise(e) \/ FailWrite(e)

HandlerFault(m) ==
  \/ ClaimUnanswered(m) \/ SaveJobFails(m) \/ CreateTaskFails(m)
  \/ MarkFailedFails(m) \/ CrashHandler(m) \/ Deadline(m)

RunFault(e) ==
  \/ StageFails(e) \/ ReplyUnanswered(e) \/ UpsertFails(e)
  \/ DoneWriteUnanswered(e) \/ ApologiseFails(e) \/ FailWriteFails(e)
  \/ CrashRun(e)

Next ==
  \/ \E m \in Messages :
       Claim(m) \/ DuplicateSkipped(m) \/ HandlerStep(m) \/ QueueStep(m)
         \/ HandlerFault(m)
  \/ \E e \in Execs : RunStep(e) \/ RunFault(e)

Spec == Init /\ [][Next]_vars

(***************************************************************************)
(* A coroutine whose await has completed is resumed, and Cloud Tasks       *)
(* dispatches what it holds; nobody has to send an email.                  *)
(***************************************************************************)
Fairness ==
  /\ \A m \in Messages : WF_vars(HandlerStep(m)) /\ WF_vars(QueueStep(m))
  /\ \A e \in Execs : WF_vars(RunStep(e))

FairSpec == Spec /\ Fairness

-----------------------------------------------------------------------------
(***************************************************************************)
(* Properties.                                                             *)
(***************************************************************************)
TypeOK ==
  /\ jobs \in [Messages -> {"absent", "claimed", "processing"} \cup Terminal]
  /\ threads \in [Threads -> Requests \cup {None}]
  /\ served \in [Threads -> Messages \cup {None}]
  /\ hook \in [Messages -> {"idle", "save", "enqueue", "await", "mark_failed",
                            "answered", "aborted", "dead"}]
  /\ acked \subseteq Messages
  /\ task \in [Messages -> {"none", "queued", "running", "finished", "exhausted"}]
  /\ attempts \in [Messages -> 0 .. MaxAttempts]
  /\ pc \in [Execs -> Labels]
  /\ plan \in [Execs -> Plans]
  /\ req \in [Execs -> Requests]
  /\ outbound_sent \in [Execs -> BOOLEAN]
  /\ mails \in [Execs -> SUBSET (Kinds \cup Plans)]
  /\ faults \in 0 .. MaxFaults

RunsOf(m) == {e \in Execs : Mid(e) = m}

(* "Guarantees exactly one outbound action per job" (app/pipeline.py:4): of *)
(* all mails of all runs for a message, at most one was ever accepted.      *)
AtMostOneMail ==
  \A e, f \in Execs : Mid(e) = Mid(f) =>
    \A k \in mails[e], l \in mails[f] : e = f /\ k = l

(* What is left of that promise under faults, in either queue mode: every   *)
(* mail beyond a job's first was paid for by a fault.  A retry that replies *)
(* again, and a failure email after a reply that went out unnoticed, cost   *)
(* one fault each, and nothing in the code mails twice of its own accord.   *)
Posted(m) == {p \in RunsOf(m) \X Kinds : p[2] \in mails[p[1]]}
MailsArePaid == \A m \in Messages : Cardinality(Posted(m)) <= 1 + faults

(* A job reported done had its answer accepted by the provider, or was a    *)
(* junk mail dropped on purpose (the set_status calls of process_job).      *)
DoneWasAnswered ==
  \A m \in Messages : jobs[m] = "done" =>
    \E e \in RunsOf(m) : plan[e] = "drop" \/ plan[e] \in mails[e]

(* A webhook answered 200 is never redelivered, so its job must be settled, *)
(* or owned by a handler or a task that is still alive, or lost in one of   *)
(* the three ways the code knows: the handler died or answered 500 between  *)
(* claim and dispatch, or the task ran out of attempts.                     *)
Owned(m) ==
  \/ hook[m] \in {"save", "enqueue", "mark_failed"}
  \/ hook[m] = "await" /\ pc[<<m, 1>>] \in Live \cup {"returned", "raised"}
  \/ task[m] = "queued" /\ attempts[m] < MaxAttempts
  \/ task[m] = "running" /\ pc[<<m, attempts[m]>>] \in Live \cup {"returned", "raised"}
Lost(m) == hook[m] \in {"aborted", "dead"} \/ task[m] = "exhausted"
AckedIsAccounted ==
  \A m \in acked : jobs[m] \in Terminal \/ Owned(m) \/ Lost(m)

(* A thread's row is what some run of a message of that very thread asked   *)
(* for and was answered with (an answer, not an apology, went out first).   *)
ContextWasServed ==
  \A t \in Threads : threads[t] # None =>
    \E e \in RunsOf(served[t]) :
      /\ Thread[Mid(e)] = t
      /\ req[e] = threads[t]
      /\ plan[e] \in {"empty", "documents"} \cap mails[e]

(* Inheritance never invents or leaks: the matter and the type a run works  *)
(* on were each named by an email of its own thread, or by its own email.   *)
Near(m, n) == m = n \/ (Thread[m] # None /\ Thread[m] = Thread[n])
RequestWasAsked ==
  \A e \in Execs :
    /\ req[e].matter # None =>
         \E m \in Messages : Near(Mid(e), m) /\ Asks[m].matter = req[e].matter
    /\ req[e].type # None =>
         \E m \in Messages : Near(Mid(e), m) /\ Asks[m].type = req[e].type

(* "in inline mode ... sends the failure email once (unless a reply already *)
(* went out)" (app/pipeline.py:9-10): a failed job that was understood, that*)
(* is, got past classify, left its user with some mail.                     *)
Understood(m) == \E e \in RunsOf(m) : plan[e] # "undecided"
Mailed(m) == \E e \in RunsOf(m) : mails[e] # {}
FailureIsMailed ==
  \A m \in Messages : jobs[m] = "failed" /\ Understood(m) => Mailed(m)

(* The same of the jobs that process_job itself has reported failed: one    *)
(* fault is not enough to leave their user without a mail.                  *)
OneFailureIsMailed ==
  \A m \in Messages :
    /\ jobs[m] = "failed" /\ Understood(m) /\ faults <= 1
    /\ \E e \in RunsOf(m) : pc[e] = "returned"
    => Mailed(m)

(* Neither a redelivered email nor a run of process_job, late or retried,   *)
(* undoes a done job (the UNIQUE insert of claim, memory_store.py:28): at   *)
(* most the webhook handler does, that took the creation of its task for    *)
(* failed.                                                                  *)
RunsKeepDone ==
  [][\A m \in Messages : jobs[m] = "done" /\ hook[m] # "mark_failed"
       => jobs'[m] = "done"]_vars

(* A thread's row is "the thread's last request" (app/pipeline.py:216, 255):*)
(* a run never replaces it with the request of an older email.              *)
ContextMovesForward ==
  [][\A t \in Threads : served'[t] # served[t] /\ served[t] # None =>
       ReceivedAt[served'[t]] > ReceivedAt[served[t]]]_vars

(* Inline, a saved job reaches a terminal status (app/pipeline.py:5), also  *)
(* when an exception escapes process_job, unless its handler dies or fails. *)
InlineSettles ==
  \A m \in Messages :
    jobs[m] = "processing" ~> jobs[m] \in Terminal \/ hook[m] \in {"dead", "aborted"}

(* In tasks mode, so does a job whose task was created.                     *)
TaskSettles == \A m \in Messages : task[m] = "queued" ~> jobs[m] \in Terminal

(***************************************************************************)
(* The promise of app/pipeline.py as an abstract specification.            *)
(***************************************************************************)
Status(m) == IF jobs[m] \in Terminal THEN jobs[m] ELSE "open"
Sent(m) == UNION {mails[e] : e \in RunsOf(m)}

Promise == INSTANCE OneOutbound WITH
  Answers <- Kinds \ {"failure"},
  status <- [m \in Messages |-> Status(m)],
  sent <- [m \in Messages |-> Sent(m)]
PromiseKept == Promise!Spec

-----------------------------------------------------------------------------
(***************************************************************************)
(* The inductive invariant.  Each part says which places of the handler,   *)
(* the task and the run can be occupied together, and what they left       *)
(* behind in the store and in the mailbox.                                 *)
(***************************************************************************)
Early == {"idle", "verify", "load", "classify", "extract", "merge", "scrape"}
Opening == {"idle", "save", "enqueue"}
Over == {"returned", "raised"}
Answered(e) == plan[e] = "drop" \/ plan[e] \in mails[e]
Saved(m) == jobs[m] \in {"processing"} \cup Terminal

(* A queued task has attempts left, and only CreateTask makes one. *)
QueueInv ==
  \A m \in Messages :
    /\ task[m] = "queued" => attempts[m] < MaxAttempts
    /\ task[m] = "none" => attempts[m] = 0
    /\ task[m] = "running" => attempts[m] > 0
    /\ QueueMode = "inline" \/ hook[m] \in Opening => task[m] = "none"
    /\ hook[m] = "await" => QueueMode = "inline"
    /\ jobs[m] = "absent" => hook[m] = "idle"

(* A run is idle until it is started: by its dispatch, or by the handler. *)
StartInv ==
  \A e \in Execs :
    /\ QueueMode = "tasks" /\ e[2] > attempts[Mid(e)] => pc[e] = "idle"
    /\ QueueMode = "inline" /\ hook[Mid(e)] \in Opening => pc[e] = "idle"

(* What a run has decided and sent by the time it gets somewhere. *)
PlanInv ==
  \A e \in Execs :
    /\ pc[e] \in Early =>
         plan[e] \in {"undecided", "request"} /\ mails[e] = {} /\ ~outbound_sent[e]
    /\ pc[e] = "package" => plan[e] = "documents"
    /\ pc[e] = "reply" => plan[e] \in Kinds \ {"failure"}
    /\ pc[e] = "upsert" => plan[e] \in {"empty", "documents"} \cap mails[e]
    /\ pc[e] = "done_write" => Answered(e)

(* The row of a message against its handler, its task and its runs. *)
JobInv ==
  /\ \A m \in Messages :
       /\ hook[m] = "idle" => jobs[m] = "absent"
       /\ hook[m] = "save" => jobs[m] = "claimed"
       /\ hook[m] \in {"enqueue", "await", "mark_failed"} => Saved(m)
       /\ task[m] # "none" => Saved(m)
       /\ hook[m] = "answered" => jobs[m] \in Terminal \/ task[m] # "none"
       /\ task[m] = "finished" => jobs[m] \in Terminal
  /\ \A e \in Execs :
       /\ pc[e] # "idle" => Saved(Mid(e))
       /\ pc[e] = "returned" => jobs[Mid(e)] \in Terminal

(* A handler or a task that waits for a run waits for one that is there. *)
OwnerInv ==
  \A m \in Messages :
    /\ task[m] = "running" => pc[<<m, attempts[m]>>] \in Live \cup Over
    /\ hook[m] = "await" => pc[<<m, 1>>] \in Live \cup Over
    /\ m \in acked => hook[m] # "idle"

IInv ==
  /\ TypeOK /\ QueueInv /\ StartInv /\ PlanInv /\ JobInv /\ OwnerInv
  /\ DoneWasAnswered /\ ContextWasServed /\ RequestWasAsked

(* Every dispatch after a task's first was bought by a fault: the one that  *)
(* made the run before it raise, crash or miss its deadline.                *)
RetryInv ==
  \A m \in Messages :
    /\ attempts[m] <= 1 + faults
    /\ task[m] = "queued" => attempts[m] <= faults
    /\ task[m] = "running" /\ pc[<<m, attempts[m]>>] = "raised"
         => attempts[m] <= faults

(* What a run sent, and the faults behind its way through the except clause. *)
Excused(e) ==
  /\ mails[e] \subseteq {plan[e], "failure"}
  /\ outbound_sent[e] => mails[e] # {}
  /\ pc[e] = "apologise" \/ "failure" \in mails[e]
       => QueueMode = "inline" /\ faults >= 1
  /\ pc[e] = "fail_write"
       => QueueMode = "inline" /\ (mails[e] # {} \/ faults >= 2)
ExcuseInv == \A e \in Execs : Excused(e)

(* Inline, a job that its run has brought to an end is done, or its user    *)
(* got some mail, or there was more than one fault.                         *)
EndInv ==
  QueueMode = "inline" =>
    \A e \in Execs :
      /\ hook[Mid(e)] = "mark_failed" => pc[e] = "raised"
      /\ pc[e] = "returned"
           => jobs[Mid(e)] = "done" \/ mails[e] # {} \/ faults >= 2

PaidInv == IInv /\ RetryInv /\ ExcuseInv /\ EndInv

(* Inline, when no answer is lost, a run's flag outbound_sent is the truth  *)
(* about its mails, and a live run's job has no terminal status yet.        *)
OneMail(e) ==
  /\ pc[e] \in Stages \cup {"apologise"} /\ ~outbound_sent[e] => mails[e] = {}
  /\ pc[e] \in {"package", "reply", "apologise"} => ~outbound_sent[e]
  /\ pc[e] = "upsert" => outbound_sent[e]
  /\ \A k, l \in mails[e] : k = l
  /\ pc[e] \in {"upsert", "done_write"} => "failure" \notin mails[e]
OneMailInv == \A e \in Execs : OneMail(e)

Settled(e) ==
  /\ pc[e] \in Live => hook[Mid(e)] = "await"
  /\ hook[Mid(e)] \in {"await", "mark_failed"} /\ pc[e] # "returned"
       => jobs[Mid(e)] # "done"
  /\ pc[e] \in Live => jobs[Mid(e)] \notin Terminal
  /\ hook[Mid(e)] = "mark_failed" => pc[e] = "raised"
  /\ hook[Mid(e)] = "enqueue" => jobs[Mid(e)] = "processing"
SettledInv == \A e \in Execs : Settled(e)

PromiseInv ==
  IInv /\ OneMailInv /\ SettledInv

=============================================================================
