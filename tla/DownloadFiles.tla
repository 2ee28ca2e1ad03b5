---------------------------- MODULE DownloadFiles ----------------------------
(***************************************************************************)
(* Downloading the files of the documents that a collection opens, one     *)
(* after another on one browser page: download_with_retries and            *)
(* _download_doc of app/scrape/scraper.py.                                 *)
(*                                                                         *)
(* A click on a file button asks the portal for a download, which starts   *)
(* some time later.  The page reports its start to whoever is expecting a  *)
(* download then: the code asks for the next one, not for a certain one,   *)
(* and a request it has given up on may still start.                       *)
(***************************************************************************)
EXTENDS Naturals, FiniteSets, Sequences

CONSTANTS
  Documents,   \* how many documents are opened
  NFiles,      \* NFiles[d]: file buttons in the modal of document d
  Attempts,    \* attempts of each file (3)
  FaultKinds,  \* the kinds of fault of this instance
  MaxFaults    \* how many faults may happen

ASSUME SizeAssumption ==
  /\ Documents \in Nat \ {0}
  /\ NFiles \in [1 .. Documents -> Nat]
  /\ Attempts \in Nat \ {0}
ASSUME FaultAssumption ==
  /\ FaultKinds \subseteq {"click", "start", "transfer", "other"}
  /\ MaxFaults \in Nat

(* A request for a download: its document, its file and the attempt. *)
Requests ==
  UNION {{d} \X (1 .. NFiles[d]) \X (1 .. Attempts) : d \in 1 .. Documents}
FileOf(q) == <<q[1], q[2]>>

VARIABLES
  doc,      \* the document being downloaded, Documents + 1 at the end
  file,     \* the file button
  attempt,  \* the attempt of that file
  pc,       \* where _fetch is
  coming,   \* downloads asked for that have not started
  caught,   \* the requests whose download the code caught and is saving
  saved,    \* the files saved for the document
  result,   \* what became of each document: its files, or a failure
  late,     \* history: a wait for a download was abandoned
  missed,   \* history: the requests that a transient exception ended
  bugs,     \* history: the documents that met an exception not retried
  faults    \* history: faults so far

history == <<late, missed, bugs>>
vars == <<doc, file, attempt, pc, coming, caught, saved, result, late, missed,
          bugs, faults>>

Asked == <<doc, file, attempt>>

Pending == [kind |-> "pending", files |-> <<>>]
Failed == [kind |-> "failed", files |-> <<>>]
Got(files) == [kind |-> "got", files |-> files]

Fault(k) ==
  /\ k \in FaultKinds
  /\ faults < MaxFaults
  /\ faults' = faults + 1

Init ==
  /\ doc = 1
  /\ file = 1
  /\ attempt = 1
  /\ pc = "open"
  /\ coming = {}
  /\ caught = {}
  /\ saved = <<>>
  /\ result = [d \in 1 .. Documents |-> Pending]
  /\ late = FALSE
  /\ missed = {}
  /\ bugs = {}
  /\ faults = 0

-----------------------------------------------------------------------------
(* The document is settled and the collection opens the next one. *)
Settle(outcome) ==
  /\ result' = [result EXCEPT ![doc] = outcome]
  /\ doc' = doc + 1
  /\ pc' = IF doc = Documents THEN "end" ELSE "open"
  /\ file' = 1
  /\ attempt' = 1
  /\ saved' = <<>>

(* A modal without file buttons is a failure at once. *)
Open ==
  /\ pc = "open"
  /\ IF NFiles[doc] = 0
       THEN Settle(Failed)
       ELSE pc' = "click" /\ UNCHANGED <<doc, file, attempt, saved, result>>
  /\ UNCHANGED <<coming, caught, history, faults>>

Click ==
  /\ pc = "click"
  /\ coming' = coming \cup {Asked}
  /\ pc' = "wait"
  /\ UNCHANGED <<doc, file, attempt, caught, saved, result, history, faults>>

(* A download starts: it is caught by the one who waits, or by nobody. *)
Start ==
  \E q \in coming :
    /\ coming' = coming \ {q}
    /\ IF pc = "wait" THEN caught' = {q} /\ pc' = "save"
                      ELSE UNCHANGED <<caught, pc>>
    /\ UNCHANGED <<doc, file, attempt, saved, result, history, faults>>

(* Mutant of Keep: what a fetch returns replaces what was kept. *)
KeepLast(f) == <<f>>

Keep(f) == Append(saved, f)

(* Mutant of Advance: a file inherits the attempts of the one before it. *)
AdvanceKeepsAttempts(kept) ==
  /\ saved' = kept
  /\ file' = file + 1
  /\ pc' = "click"
  /\ UNCHANGED <<doc, attempt, result>>

(* On to the next file, with all its attempts. *)
Advance(kept) ==
  /\ saved' = kept
  /\ file' = file + 1
  /\ attempt' = 1
  /\ pc' = "click"
  /\ UNCHANGED <<doc, result>>

(* The file is saved under its own name; the document is complete after its *)
(* last file.                                                               *)
Save ==
  /\ pc = "save"
  /\ \E q \in caught :
       LET kept == Keep(FileOf(q))
       IN  IF file = NFiles[doc] THEN Settle(Got(kept)) ELSE Advance(kept)
  /\ caught' = {}
  /\ UNCHANGED <<coming, history, faults>>

(* Mutant of Retry: one attempt more than the budget. *)
RetryOnceMore ==
  /\ missed' = missed \cup {Asked}
  /\ IF attempt <= Attempts
       THEN /\ attempt' = attempt + 1
            /\ pc' = "click"
            /\ UNCHANGED <<doc, file, saved, result>>
       ELSE Settle(Failed)

(* A transient exception: again, until the attempts are used up. *)
Retry ==
  /\ missed' = missed \cup {Asked}
  /\ IF attempt < Attempts
       THEN /\ attempt' = attempt + 1
            /\ pc' = "click"
            /\ UNCHANGED <<doc, file, saved, result>>
       ELSE Settle(Failed)

(* A click that raises may have asked for the download all the same; nobody *)
(* waits for it any more.                                                   *)
ClickLost ==
  \/ UNCHANGED <<coming, late>>
  \/ coming' = coming \cup {Asked} /\ late' = TRUE

ClickTimesOut ==
  /\ pc = "click"
  /\ Fault("click")
  /\ Retry
  /\ ClickLost
  /\ UNCHANGED <<caught, bugs>>

(* The download did not start in time; its request stands. *)
StartTimesOut ==
  /\ pc = "wait"
  /\ Fault("start")
  /\ Retry
  /\ late' = TRUE
  /\ UNCHANGED <<coming, caught, bugs>>

(* Mutant of TransferStalls: a transfer without a time limit. *)
StallHangs ==
  /\ pc = "save"
  /\ Fault("transfer")
  /\ pc' = "hung"
  /\ UNCHANGED <<doc, file, attempt, coming, caught, saved, result, history>>

(* The transfer stalled and is abandoned. *)
TransferStalls ==
  /\ pc = "save"
  /\ Fault("transfer")
  /\ Retry
  /\ caught' = {}
  /\ UNCHANGED <<coming, late, bugs>>

(* An exception outside of retry_exceptions is not retried, nor one that    *)
(* counting the buttons raises.                                             *)
NotRetried ==
  /\ pc \in {"open", "click", "wait", "save"}
  /\ Fault("other")
  /\ Settle(Failed)
  /\ caught' = {}
  /\ IF pc = "click" THEN ClickLost ELSE late' = (late \/ pc = "wait") /\ UNCHANGED coming
  /\ bugs' = bugs \cup {doc}
  /\ UNCHANGED missed

-----------------------------------------------------------------------------
Step == Open \/ Click \/ Save
Trouble == ClickTimesOut \/ StartTimesOut \/ TransferStalls \/ NotRetried
Next == Step \/ Start \/ Trouble

Spec == Init /\ [][Next]_vars

(* The code goes on, and an awaited download starts or times out. *)
FairSpec == Spec /\ WF_vars(Step) /\ WF_vars(Start)

-----------------------------------------------------------------------------
(***************************************************************************)
(* Properties.                                                             *)
(***************************************************************************)
TypeOK ==
  /\ doc \in 1 .. Documents + 1
  /\ file \in Nat \ {0}
  /\ attempt \in 1 .. Attempts
  /\ pc \in {"open", "click", "wait", "save", "end"}
  /\ coming \subseteq Requests
  /\ caught \subseteq Requests
  /\ saved \in Seq({FileOf(q) : q \in Requests})
  /\ result \in [1 .. Documents -> [kind : {"pending", "failed", "got"},
                                    files : Seq({FileOf(q) : q \in Requests})]]
  /\ late \in BOOLEAN
  /\ missed \subseteq Requests
  /\ bugs \subseteq 1 .. Documents
  /\ faults \in 0 .. MaxFaults

Complete(d) == result[d].files = [n \in 1 .. NFiles[d] |-> <<d, n>>]

(* "Download EVERY file button in the open modal" (scraper.py:504): a       *)
(* document that counts as downloaded has each of its own files, once, and  *)
(* no file of another document, however its files were retried, as long as  *)
(* no wait for a download was abandoned.                                    *)
OwnFiles ==
  ~late => \A d \in 1 .. Documents : result[d].kind = "got" => Complete(d)

(* The same with abandoned waits, which the retry is for.                   *)
EveryFile == \A d \in 1 .. Documents : result[d].kind = "got" => Complete(d)

(* A document is given up only when one of its own files failed in each of  *)
(* its Attempts attempts, or for an exception of its own that is not        *)
(* retried: the attempts of a file are never used up by another file or by  *)
(* another document.                                                        *)
GivenUp == {d \in 1 .. Documents : result[d] = Failed /\ NFiles[d] > 0}
Exhausted(d, f) == \A a \in 1 .. Attempts : <<d, f, a>> \in missed
NothingGivenUpEarly ==
  \A d \in GivenUp : d \in bugs \/ \E f \in 1 .. NFiles[d] : Exhausted(d, f)

(* Every document is settled, however often its files have to be retried.   *)
EverySettled == <>(\A d \in 1 .. Documents : result[d] # Pending)

-----------------------------------------------------------------------------
(***************************************************************************)
(* The inductive invariant.                                                *)
(***************************************************************************)
Busy == {"click", "wait", "save"}

(* The loops are where they say, and have not touched what is to come. *)
PlaceInv ==
  /\ pc # "end" => doc \in 1 .. Documents
  /\ pc \in Busy => file \in 1 .. NFiles[doc]
  /\ \A d \in 1 .. Documents : d >= doc => result[d] = Pending

(* Until a wait is abandoned, a download belongs to the file waited for. *)
PunctualInv ==
  ~late =>
    /\ coming = IF pc = "wait" THEN {Asked} ELSE {}
    /\ caught = IF pc = "save" THEN {Asked} ELSE {}
    /\ pc \in Busy \cup {"open"} => saved = [n \in 1 .. file - 1 |-> <<doc, n>>]

(* Every attempt before this one of the file being fetched has failed. *)
TriedInv ==
  pc \in Busy => \A a \in 1 .. attempt - 1 : <<doc, file, a>> \in missed

IInv ==
  /\ TypeOK /\ PlaceInv /\ PunctualInv /\ OwnFiles /\ TriedInv
  /\ NothingGivenUpEarly /\ (pc = "open" => file = 1 /\ attempt = 1)

=============================================================================
