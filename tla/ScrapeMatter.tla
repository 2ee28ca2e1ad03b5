---------------------------- MODULE ScrapeMatter ----------------------------
(***************************************************************************)
(* From a request to what its mail says: scrape_matter with the search and *)
(* the counts of app/scrape/scraper.py, and the answer that                *)
(* app/pipeline.py makes of its result.                                    *)
(*                                                                         *)
(* The portal is the environment.  Its results screen is painted by the    *)
(* browser label by label; the code takes the screen for complete as soon  *)
(* as it sees one label, and takes a label it does not see for a count of  *)
(* zero.  It types the matter number into a box that may swallow what is   *)
(* typed too early, and never reads back what the screen is about.         *)
(*                                                                         *)
(* The collection of the documents is the subject of CollectDocuments and  *)
(* is one step here, with the outcomes that module shows it to have.       *)
(***************************************************************************)
EXTENDS Summary, FiniteSets

CONSTANTS
  Counts,        \* numbers of documents the portal may have of a type
  MaxDocuments,  \* the setting max_documents
  Writings,      \* texts that the model may write
  FaultKinds,    \* the kinds of fault of this instance
  MaxFaults      \* how many faults may happen

ASSUME CountAssumption ==
  /\ MaxDocuments \in Nat \ {0}
  /\ 0 \in Counts
  /\ Counts \cup 0 .. MaxDocuments \subseteq Printed
  /\ Writings \subseteq Text
ASSUME FaultAssumption ==
  /\ FaultKinds \subseteq {"raise", "keystroke", "slow", "download", "close"}
  /\ MaxFaults \in Nat

VARIABLES
  portal,   \* the matters of the portal: their counts, or None
  matter,   \* the matter asked for
  type,     \* the document type asked for
  pc,       \* where process_job is
  field,    \* the matter in the search box, or None
  painted,  \* the labels on the results screen
  counts,   \* the DocCounts read
  k,        \* documents downloaded
  link,     \* the link to the zip when it is too large to attach
  answer,   \* the kind of mail that the result leads to
  text,     \* the text of a mail with documents
  faults    \* history: faults so far

request == <<portal, matter, type>>
mail == <<answer, text>>
vars == <<portal, matter, type, pc, field, painted, counts, k, link, answer,
          text, faults>>

NoCounts == [t \in Types |-> 0]

Init ==
  /\ portal \in [Matters -> {None} \cup [Types -> Counts]]
  /\ matter \in Matters
  /\ type \in Types
  /\ pc = "launch"
  /\ field = None
  /\ painted = {}
  /\ counts = NoCounts
  /\ k = 0
  /\ link = None
  /\ answer = "none"
  /\ text = None
  /\ faults = 0

Fault(kind) ==
  /\ kind \in FaultKinds
  /\ faults < MaxFaults
  /\ faults' = faults + 1

(* The matter whose screen the browser shows, if there is one. *)
Shown == field # None /\ portal[field] # None

-----------------------------------------------------------------------------
(* The browser, its context, the trace and the page. *)
Launch ==
  /\ pc = "launch"
  /\ pc' = "goto"
  /\ UNCHANGED <<request, field, painted, counts, k, link, mail, faults>>

(* Widgets are waited for; that they did not come in time is only logged. *)
GotoAndReady ==
  /\ pc = "goto"
  /\ pc' = "search"
  /\ UNCHANGED <<request, field, painted, counts, k, link, mail, faults>>

(* The number is typed, character by character, and the button of that row  *)
(* clicked.  Characters typed before the box is in edit mode are lost.      *)
Search ==
  /\ pc = "search"
  /\ \/ field' = matter /\ UNCHANGED faults
     \/ /\ Fault("keystroke")
        /\ field' \in ({None} \cup Matters) \ {matter}
  /\ pc' = "results"
  /\ UNCHANGED <<request, painted, counts, k, link, mail>>

(* The browser paints another label of the results screen. *)
Paint ==
  /\ pc \in {"results", "counts", "download", "close"}
  /\ Shown
  /\ \E t \in Types \ painted : painted' = painted \cup {t}
  /\ UNCHANGED <<request, pc, field, counts, k, link, mail, faults>>

(* Any label will do. *)
ResultsShow ==
  /\ pc = "results"
  /\ painted # {}
  /\ pc' = "counts"
  /\ UNCHANGED <<request, field, painted, counts, k, link, mail, faults>>

(* Mutant of NoResults: the poll has no deadline. *)
NoResultsNever == FALSE /\ UNCHANGED vars

(* No label by the deadline: there is no such matter, or the portal is slow. *)
NoResults ==
  /\ pc = "results"
  /\ painted = {}
  /\ IF Shown THEN Fault("slow") ELSE UNCHANGED faults
  /\ answer' = "not_found"
  /\ pc' = "close"
  /\ UNCHANGED <<request, field, painted, counts, k, link, text>>

(* parse_counts: a label that is not there counts zero. *)
Parsed == [t \in Types |-> IF t \in painted THEN portal[field][t] ELSE 0]

(* The counts are read, then the text for the model's metadata, then the    *)
(* counts replace whatever the model made of them.                          *)
ReadCounts ==
  /\ pc = "counts"
  /\ counts' = Parsed
  /\ IF Parsed[type] = 0
       THEN answer' = "empty" /\ pc' = "close"
       ELSE pc' = "download" /\ UNCHANGED answer
  /\ UNCHANGED <<request, field, painted, k, link, text, faults>>

(* Mutant of Limit: the cap is forgotten. *)
LimitUncapped == counts[type]

Limit == IF counts[type] < MaxDocuments THEN counts[type] ELSE MaxDocuments

(* The collection ends within its limit, short of it only if the page fails. *)
Download ==
  /\ pc = "download"
  /\ \/ k' = Limit /\ UNCHANGED faults
     \/ Fault("download") /\ k' \in 0 .. Limit
  /\ pc' = "close"
  /\ UNCHANGED <<request, field, painted, counts, link, mail>>

(* The trace is dealt with, context and browser are closed, the result is   *)
(* returned.  A mail that needs no documents is then on its way; no         *)
(* document at all is an error.                                             *)
Close ==
  /\ pc = "close"
  /\ pc' = IF answer # "none" THEN "over"
           ELSE IF k = 0 THEN "failed" ELSE "package"
  /\ UNCHANGED <<request, field, painted, counts, k, link, mail, faults>>

(* What raises between the launch and the mail ends the run: a page that    *)
(* lacks its box or button, a navigation, the model's metadata, a summary   *)
(* whose exception has no text to log, or closing the context, which        *)
(* discards a result that was complete.                                     *)
Raise ==
  /\ \/ pc \in {"launch", "goto", "search", "results", "counts", "download",
               "package", "summarize"} /\ Fault("raise")
     \/ pc = "close" /\ Fault("close")
  /\ answer' = "none"
  /\ pc' = "failed"
  /\ UNCHANGED <<request, field, painted, counts, k, link, text>>

-----------------------------------------------------------------------------
(* The size of the zip decides whether it is attached or linked to. *)
Package ==
  /\ pc = "package"
  /\ link' \in Links
  /\ pc' = "summarize"
  /\ UNCHANGED <<request, field, painted, counts, k, mail, faults>>

(* Mutant of Facts: N is what was wanted, not what there is. *)
FactsOfLimit == [matter |-> matter, counts |-> counts, k |-> k, n |-> Limit,
                 type |-> type, link |-> link]

(* The facts of the result: N is the total of the type, not the cap. *)
Facts == [matter |-> matter, counts |-> counts, k |-> k, n |-> counts[type],
          type |-> type, link |-> link]

(* The model is given the facts and writes what it likes, or fails. *)
Summarize ==
  /\ pc = "summarize"
  /\ \E written \in {None} \cup Writings : text' = summarize(written, Facts)
  /\ answer' = "documents"
  /\ pc' = "over"
  /\ UNCHANGED <<request, field, painted, counts, k, link, faults>>

-----------------------------------------------------------------------------
Step ==
  \/ Launch \/ GotoAndReady \/ Search \/ ResultsShow \/ NoResults \/ ReadCounts
  \/ Download \/ Close \/ Package \/ Summarize

Next == Step \/ Raise \/ Paint

Spec == Init /\ [][Next]_vars

(* Every await of the code ends, and the browser goes on painting. *)
FairSpec == Spec /\ WF_vars(Step) /\ WF_vars(Paint)

-----------------------------------------------------------------------------
(***************************************************************************)
(* Properties.                                                             *)
(***************************************************************************)
Labels == {"launch", "goto", "search", "results", "counts", "download", "close",
           "package", "summarize", "over", "failed"}

TypeOK ==
  /\ portal \in [Matters -> {None} \cup [Types -> Counts]]
  /\ matter \in Matters
  /\ type \in Types
  /\ pc \in Labels
  /\ field \in {None} \cup Matters
  /\ painted \in SUBSET Types
  /\ counts \in [Types -> Counts]
  /\ k \in 0 .. MaxDocuments
  /\ link \in Links
  /\ answer \in {"none", "not_found", "empty", "documents"}
  /\ text \in {None} \cup Text
  /\ faults \in 0 .. MaxFaults

Typed == field = matter

(* "k of the N type" is right wherever documents are delivered, on a half   *)
(* painted screen too, and whatever the model wrote: N is what the portal   *)
(* has of the type that was asked for, k what was downloaded, which is      *)
(* something and never more than the cap.                                   *)
TotalIsTrue ==
  answer = "documents" /\ Typed =>
    /\ portal[matter] # None
    /\ text.type = type
    /\ text.n = portal[matter][type]
    /\ text.k = k /\ k \in 1 .. MaxDocuments /\ k <= text.n

(* "Any miss falls back to the deterministic template" (anthropic_client.py *)
(* :258): whatever the model wrote, the link is never lost, and the matter  *)
(* named is the one asked for or a longer number.  The count of a type that *)
(* was not asked for is the portal's, or none where its label may not have  *)
(* been painted, or a longer numeral that ends like one of these.  Nothing  *)
(* of the kind holds of the count of the type that was asked for.           *)
TextKeepsFacts ==
  answer = "documents" =>
    /\ link # None => text.link = link
    /\ BeginsWith(text.matter, matter)
    /\ Typed =>
         \A t \in Types \ {type} :
           \E v \in {0, portal[matter][t]} : EndsWith(text.counts[t], v)

(* A request is answered or fails, however slow the portal is. *)
Ends == <>(pc \in {"over", "failed"})

-----------------------------------------------------------------------------
(***************************************************************************)
(* The inductive invariant.                                                *)
(***************************************************************************)
(* What the code holds at each place is what the screen showed. *)
ScreenInv ==
  /\ pc \in {"launch", "goto", "search"} => painted = {}
  /\ painted # {} => Shown
  /\ pc = "counts" => painted # {}
Delivering ==
  \/ pc \in {"download", "package", "summarize"}
  \/ pc = "close" /\ answer = "none"
  \/ pc = "over" /\ answer = "documents"
CountInv ==
  Delivering =>
    /\ Shown
    /\ counts[type] = portal[field][type] /\ counts[type] # 0
    /\ \A t \in Types : counts[t] \in {0, portal[field][t]}
    /\ k <= counts[type]
AnswerInv ==
  /\ pc \notin {"close", "over"} => answer = "none"
  /\ answer = "documents" => pc = "over"
  /\ pc \in {"package", "summarize"} => k # 0
  /\ pc \in {"launch", "goto", "search", "results", "counts"} => k = 0
IInv ==
  /\ TypeOK /\ ScreenInv /\ CountInv /\ AnswerInv
  /\ TotalIsTrue /\ TextKeepsFacts

=============================================================================
