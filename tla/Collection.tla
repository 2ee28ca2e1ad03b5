------------------------------ MODULE Collection ------------------------------
(***************************************************************************)
(* What collect_documents (app/scrape/scraper.py:105) promises of the      *)
(* documents behind a list, whatever the list does under it: each is taken *)
(* up at most once and decided once, as delivered or as failed, while more *)
(* are wanted; what was decided stays so; and the collection gives up      *)
(* short of its limit only after passes in a row that met nothing new.     *)
(***************************************************************************)
EXTENDS Naturals, Sequences

CONSTANTS
  Docs,          \* the documents behind the list
  Limits,        \* the limits asked for
  MaxNoProgress  \* passes without anything new that end a collection

VARIABLES
  limit,      \* how many documents are wanted
  seen,       \* the documents taken up
  open,       \* the one that is being decided, if any
  documents,  \* those delivered, in order
  failed,     \* how many were given up
  idle,       \* passes in a row without anything new
  state       \* "collecting", "returned" or "raised"

result == <<seen, open, documents, failed>>
vars == <<limit, seen, open, documents, failed, idle, state>>

Init ==
  /\ limit \in Limits
  /\ seen = {}
  /\ open = {}
  /\ documents = <<>>
  /\ failed = 0
  /\ idle = 0
  /\ state = "collecting"

TakeUp(d) ==
  /\ state = "collecting" /\ open = {}
  /\ Len(documents) < limit
  /\ d \notin seen
  /\ seen' = seen \cup {d}
  /\ open' = {d}
  /\ idle' = 0
  /\ UNCHANGED <<limit, documents, failed, state>>

Deliver(d) ==
  /\ open = {d}
  /\ documents' = Append(documents, d)
  /\ open' = {}
  /\ UNCHANGED <<limit, seen, failed, idle, state>>

GiveUp ==
  /\ open # {}
  /\ failed' = failed + 1
  /\ open' = {}
  /\ UNCHANGED <<limit, seen, documents, idle, state>>

(* A pass over the list that met nothing new. *)
IdlePass ==
  /\ state = "collecting" /\ open = {}
  /\ Len(documents) < limit /\ idle < MaxNoProgress
  /\ idle' = idle + 1
  /\ UNCHANGED <<limit, result, state>>

(* The result: complete, exhausted, or of a tab that showed no row. *)
Return ==
  /\ state = "collecting" /\ open = {}
  /\ \/ Len(documents) = limit \/ idle = MaxNoProgress
     \/ seen = {} /\ idle = 0
  /\ state' = "returned"
  /\ UNCHANGED <<limit, result, idle>>

Raise ==
  /\ state = "collecting" /\ open = {}
  /\ state' = "raised"
  /\ UNCHANGED <<limit, result, idle>>

Next ==
  \/ \E d \in Docs : TakeUp(d) \/ Deliver(d)
  \/ GiveUp \/ IdlePass \/ Return \/ Raise

Spec == Init /\ [][Next]_vars

=============================================================================
