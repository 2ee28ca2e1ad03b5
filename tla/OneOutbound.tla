----------------------------- MODULE OneOutbound -----------------------------
(***************************************************************************)
(* What app/pipeline.py promises of a job (lines 1-12): at most one        *)
(* outbound mail, then one terminal status, and nothing after it.  A reply *)
(* and the failure email exclude each other; a job whose user was sent the *)
(* failure email is never reported done.                                   *)
(***************************************************************************)
CONSTANTS
  Messages,  \* message ids
  Answers    \* the kinds of reply, the failure email not among them

VARIABLES
  status,    \* "open" until the job's terminal write
  sent       \* the mails the user got: kinds of reply, or "failure"

Init ==
  /\ status = [m \in Messages |-> "open"]
  /\ sent = [m \in Messages |-> {}]

Send(m, kind) ==
  /\ status[m] = "open"
  /\ sent[m] = {}
  /\ sent' = [sent EXCEPT ![m] = {kind}]
  /\ UNCHANGED status

(* A junk mail is done with nothing sent. *)
Finish(m, s) ==
  /\ status[m] = "open"
  /\ s = "done" => "failure" \notin sent[m]
  /\ status' = [status EXCEPT ![m] = s]
  /\ UNCHANGED sent

Next ==
  \E m \in Messages :
    \/ \E kind \in Answers \cup {"failure"} : Send(m, kind)
    \/ \E s \in {"done", "failed"} : Finish(m, s)

Spec == Init /\ [][Next]_<<status, sent>>

=============================================================================
