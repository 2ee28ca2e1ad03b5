-------------------------- MODULE CollectDocuments --------------------------
(***************************************************************************)
(* Collecting the documents of one type from the portal's result list:     *)
(* download_type and collect_documents of app/scrape/scraper.py, with the  *)
(* page operations they are given.                                         *)
(*                                                                         *)
(* The page is the environment.  Its list is virtualized: only the rows    *)
(* near the scroll position have a "Go Get It" button, the code addresses  *)
(* them by their rank among those buttons, and a rank read before a scroll *)
(* may name another row after it.  A row opens a modal window whose        *)
(* curtain blocks every click until it is closed.  Faults of the page are  *)
(* bounded by MaxFaults.                                                   *)
(***************************************************************************)
EXTENDS Naturals, FiniteSets, Sequences

CONSTANTS
  MaxRows,        \* the longest list
  Limits,         \* the limits asked for, values of the setting max_documents
  Doc,            \* Doc[r]: parse_doc_no of the files of row r
  Window,         \* rows in the visible clip of the grid
  Above, Below,   \* rows rendered beyond either end of the clip
  Step,           \* rows scrolled by one wheel event
  MaxNoProgress,  \* the parameter of that name (3)
  FaultKinds,     \* the kinds of fault of this instance
  MaxFaults       \* how many faults may happen

Rows == 1 .. MaxRows
Docs == {Doc[r] : r \in Rows}

ASSUME ListAssumption ==
  /\ MaxRows \in Nat \ {0}
  /\ Limits \subseteq Nat \ {0}
  /\ DOMAIN Doc = Rows
ASSUME GridAssumption ==
  /\ Window \in Nat \ {0}
  /\ Above \in Nat /\ Below \in Nat
  /\ Step \in 1 .. Window
ASSUME LoopAssumption ==
  /\ MaxNoProgress \in Nat \ {0}
  /\ MaxFaults \in Nat
  /\ FaultKinds \subseteq {"rows", "geometry", "click", "hang", "download",
                           "stuck", "escape", "scroll"}

VARIABLES
  total,        \* how many rows the list has
  limit,        \* how many documents are wanted
  top,          \* the first row in the clip
  modal,        \* the row whose modal is open, 0 when none is
  pc,           \* where download_type is
  todo,         \* the ranks of this pass that are still to be tried
  progressed,   \* whether this pass saw a new document
  no_progress,  \* passes in a row that did not
  done,         \* the documents seen
  docs,         \* the rows downloaded
  failed,       \* how many downloads were given up
  lost,         \* history: clicks and scrolls lost since a pass met a new one
  blocked,      \* history: a curtain was left standing over the list
  faults        \* history: faults so far

page == <<total, limit, top, modal>>
loop == <<todo, progressed, no_progress, lost>>
result == <<done, docs, failed>>
vars == <<total, limit, top, modal, pc, todo, progressed, no_progress, done,
          docs, failed, lost, blocked, faults>>

Fault(k) ==
  /\ k \in FaultKinds
  /\ faults < MaxFaults
  /\ faults' = faults + 1

Init ==
  /\ total \in Rows
  /\ limit \in Limits
  /\ top = 1
  /\ modal = 0
  /\ pc = "tab"
  /\ todo = {}
  /\ progressed = FALSE
  /\ no_progress = 0
  /\ done = {}
  /\ docs = <<>>
  /\ failed = 0
  /\ lost = 0
  /\ blocked = FALSE
  /\ faults = 0

-----------------------------------------------------------------------------
(***************************************************************************)
(* The grid.                                                               *)
(***************************************************************************)
LastTop == IF total > Window THEN total - Window + 1 ELSE 1

(* The rows with a button in the DOM. *)
Rendered == {r \in 1 .. total : top <= r + Above /\ r < top + Window + Below}

(* The rank of a row's button: the number of buttons up to it. *)
Rank(r) == Cardinality({q \in Rendered : q <= r})

(* Mutant of BehindBanner: a row that starts with the clip counts as hidden. *)
AtBanner(r) == r <= top

(* A row above the clip lies behind the header banner. *)
BehindBanner(r) == r < top

(* Playwright scrolls a row below the clip into view before it clicks. *)
Reveal(r) == IF r < top + Window THEN top ELSE r - Window + 1

-----------------------------------------------------------------------------
(* The tab is clicked and its rows are waited for. *)
OpenTab ==
  /\ pc = "tab"
  /\ pc' = "list"
  /\ UNCHANGED <<page, loop, result, blocked, faults>>

(* A tab that is absent or paints no row in time is an empty collection; a  *)
(* click on it that fails raises.                                           *)
NoRowsInTime ==
  /\ pc = "tab"
  /\ Fault("rows")
  /\ pc' \in {"empty", "raised"}
  /\ UNCHANGED <<page, loop, result, blocked>>

(* Mutant of Wanted: the limit is not looked at inside a pass. *)
WantedOutside == pc = "row" \/ Len(docs) < limit

Wanted == Len(docs) < limit

(* One pass: the ranks of the rows clear of the banner, or of all rendered  *)
(* rows when the geometry cannot be read.                                   *)
ListRows ==
  /\ pc = "list"
  /\ Wanted /\ no_progress < MaxNoProgress
  /\ \/ todo' = {Rank(r) : r \in {q \in Rendered : ~BehindBanner(q)}} /\ UNCHANGED faults
     \/ todo' = {Rank(r) : r \in Rendered} /\ Fault("geometry")
  /\ progressed' = FALSE
  /\ pc' = "row"
  /\ UNCHANGED <<page, no_progress, lost, result, blocked>>

(* The buttons cannot even be counted: the exception leaves the loop.       *)
ListRaises ==
  /\ pc = "list"
  /\ Wanted /\ no_progress < MaxNoProgress
  /\ Fault("geometry")
  /\ pc' = "raised"
  /\ UNCHANGED <<page, loop, result, blocked>>

Finish ==
  /\ \/ pc = "list" /\ ~(Wanted /\ no_progress < MaxNoProgress)
     \/ pc = "row" /\ ~Wanted
  /\ pc' = "end"
  /\ UNCHANGED <<page, loop, result, blocked, faults>>

(* The rank this pass tries next, and the row a click there reaches: none   *)
(* behind the banner, under a curtain, or where no button is any more.      *)
NextRank == CHOOSE i \in todo : \A j \in todo : i <= j
Reached ==
  {r \in Rendered : Rank(r) = NextRank /\ ~BehindBanner(r) /\ modal = 0}

(* Mutant of Seen: a document is recognised by its row only. *)
SeenRow(r) == \E n \in 1 .. Len(docs) : docs[n] = r

(* Scroll overlap: a pass meets rows it has met before. *)
Seen(r) == Doc[r] \in done

(* A row's modal opens.  A new document is marked before its download, so   *)
(* that a failing one is not tried on every pass.                           *)
OpenModal ==
  /\ pc = "row" /\ Wanted /\ todo # {}
  /\ \E r \in Reached :
       /\ modal' = r
       /\ top' = Reveal(r)
       /\ IF Seen(r)
            THEN pc' = "close" /\ UNCHANGED <<progressed, done>>
            ELSE /\ pc' = "download"
                 /\ progressed' = TRUE
                 /\ done' = done \cup {Doc[r]}
  /\ todo' = todo \ {NextRank}
  /\ UNCHANGED <<total, limit, no_progress, docs, failed, lost, blocked, faults>>

(* open_modal raised: the click reached no row, or timed out before or      *)
(* after its row was scrolled into view, or its modal came up without a     *)
(* file button in time.  The pass goes on.                                  *)
OpenFails ==
  /\ pc = "row" /\ Wanted /\ todo # {}
  /\ \/ Reached = {} /\ UNCHANGED <<modal, top, lost, blocked, faults>>
     \/ /\ Fault("click")
        /\ \E r \in Reached : top' \in {top, Reveal(r)}
        /\ lost' = lost + 1
        /\ UNCHANGED <<modal, blocked>>
     \/ /\ Fault("hang")
        /\ \E r \in Reached : modal' = r /\ top' = Reveal(r)
        /\ blocked' = TRUE
        /\ UNCHANGED lost
  /\ todo' = todo \ {NextRank}
  /\ UNCHANGED <<total, limit, pc, progressed, no_progress, result>>

Download ==
  /\ pc = "download"
  /\ docs' = Append(docs, modal)
  /\ pc' = "close"
  /\ UNCHANGED <<page, loop, done, failed, blocked, faults>>

(* Mutant of DownloadFails: only what was downloaded stays marked. *)
FailureForgotten ==
  /\ pc = "download"
  /\ Fault("download")
  /\ failed' = failed + 1
  /\ done' = done \ {Doc[modal]}
  /\ pc' = "close"
  /\ UNCHANGED <<page, loop, docs, blocked>>

(* download_doc raised after its retries: the document is given up. *)
DownloadFails ==
  /\ pc = "download"
  /\ Fault("download")
  /\ failed' = failed + 1
  /\ pc' = "close"
  /\ UNCHANGED <<page, loop, done, docs, blocked>>

CloseModal ==
  /\ pc = "close"
  /\ modal' = 0
  /\ pc' = "row"
  /\ UNCHANGED <<total, limit, top, loop, result, blocked, faults>>

(* The curtain outlives its timeout, which is only logged. *)
CurtainStays ==
  /\ pc = "close"
  /\ Fault("stuck")
  /\ blocked' = TRUE
  /\ pc' = "row"
  /\ UNCHANGED <<page, loop, result>>

(* Such a curtain may go after all, in its own time. *)
CurtainGoes ==
  /\ pc \in {"list", "row"} /\ modal # 0
  /\ modal' = 0
  /\ UNCHANGED <<total, limit, top, pc, loop, result, blocked, faults>>

(* The fallback key press raised too: the whole collection is lost. *)
CloseRaises ==
  /\ pc = "close"
  /\ Fault("escape")
  /\ pc' = "raised"
  /\ UNCHANGED <<page, loop, result, blocked>>

(* Mutant of Count: a pass without a new document is not counted. *)
CountNothing == IF progressed THEN 0 ELSE no_progress

Count == IF progressed THEN 0 ELSE no_progress + 1

(* Mutant of Scrolled: the list may be scrolled past its end. *)
ScrolledPast == top + Step

Scrolled == IF top + Step > LastTop THEN LastTop ELSE top + Step

(* The wheel event; the curtain of an open modal may swallow it. *)
Scroll ==
  /\ pc = "row" /\ Wanted /\ todo = {}
  /\ \/ top' = Scrolled
     \/ modal # 0 /\ top' = top
  /\ no_progress' = Count
  /\ lost' = IF progressed THEN 0 ELSE lost
  /\ pc' = "list"
  /\ UNCHANGED <<total, limit, modal, todo, progressed, result, blocked, faults>>

(* An exception of the scroll is only logged: the list stays where it was.  *)
ScrollFails ==
  /\ pc = "row" /\ Wanted /\ todo = {}
  /\ Fault("scroll")
  /\ no_progress' = Count
  /\ lost' = lost + 1
  /\ pc' = "list"
  /\ UNCHANGED <<page, todo, progressed, result, blocked>>

-----------------------------------------------------------------------------
Working ==
  \/ OpenTab \/ ListRows \/ Finish \/ OpenModal \/ Download \/ CloseModal \/ Scroll
Failing ==
  \/ NoRowsInTime \/ ListRaises \/ OpenFails \/ DownloadFails
  \/ CurtainStays \/ CloseRaises \/ ScrollFails

Next == Working \/ Failing \/ CurtainGoes

Spec == Init /\ [][Next]_vars

(* Every await of the scraper has a timeout: it goes on, one way or another. *)
FairSpec == Spec /\ WF_vars(Working \/ Failing)

-----------------------------------------------------------------------------
(***************************************************************************)
(* Properties.                                                             *)
(***************************************************************************)
TypeOK ==
  /\ total \in Rows
  /\ limit \in Limits
  /\ top \in Rows
  /\ modal \in 0 .. MaxRows
  /\ pc \in {"tab", "list", "row", "download", "close", "end", "empty",
            "raised"}
  /\ todo \subseteq Rows
  /\ progressed \in BOOLEAN
  /\ no_progress \in 0 .. MaxNoProgress
  /\ done \subseteq Docs
  /\ docs \in Seq(Rows)
  /\ failed \in Nat
  /\ lost \in Nat
  /\ blocked \in BOOLEAN
  /\ faults \in 0 .. MaxFaults

Delivered == {Doc[docs[n]] : n \in 1 .. Len(docs)}

(* What the result reports adds up, however the passes over the list        *)
(* overlap: no document is delivered twice, and every document seen is      *)
(* delivered, counted as failed, or the one being downloaded.               *)
Accounted ==
  /\ \A n, k \in 1 .. Len(docs) : Doc[docs[n]] = Doc[docs[k]] => n = k
  /\ Delivered \subseteq done
  /\ Cardinality(done) = Len(docs) + failed + (IF pc = "download" THEN 1 ELSE 0)

(* Never more documents than asked for, though a pass may see more rows.    *)
WithinLimit == Len(docs) <= limit

(* Rows 1 .. F name these documents, this many of them one named before.   *)
DocsUpTo(F) == {Doc[r] : r \in 1 .. F}
Repeated(F) == F - Cardinality(DocsUpTo(F))

(* A list is quiet when the clicks and scrolls lost since a pass last met   *)
(* something new, and its rows that repeat a document, are fewer than the   *)
(* passes without progress that end a collection.                           *)
Quiet == lost + Repeated(total) < MaxNoProgress
Missed == DocsUpTo(total) \ Delivered

(* "Per-document download failures are isolated: retry, then                *)
(* skip-and-report ... never failing the whole job for one bad document"    *)
(* (README.md:307-308), and a rank that went stale skips nothing (the       *)
(* unchanged scroll step "still reach[es] every document",                  *)
(* scraper.py:433-434): when a collection of a quiet list that saw no       *)
(* curtain left behind came short of its limit, each fault of the page cost *)
(* it at most one document of the list.                                     *)
OneEach == Len(docs) = limit \/ Cardinality(Missed) <= faults
IsolatedLosses == pc = "end" /\ ~blocked /\ Quiet => OneEach

(* A row whose modal hangs is skipped and "output stays correct"            *)
(* (README.md:352-354): the same with a curtain left behind.                *)
HangIsSkipped == pc = "end" /\ Quiet => OneEach

(* The collection as its caller sees it: the page, the ranks and the modal  *)
(* window are gone, and a pass is over when it is scrolled on.              *)
Idle == IF progressed THEN 0 ELSE no_progress
State == IF pc = "raised" THEN "raised"
         ELSE IF pc \in {"end", "empty"} THEN "returned" ELSE "collecting"
DeliveredInOrder == [n \in 1 .. Len(docs) |-> Doc[docs[n]]]
Caller == INSTANCE Collection WITH
  seen <- done,
  open <- IF pc = "download" THEN {Doc[modal]} ELSE {},
  documents <- DeliveredInOrder,
  idle <- Idle,
  state <- State

(* "A failing doc is not retried every scroll" and "transient download      *)
(* failures never end collection early" (scraper.py:119-121, 150): however  *)
(* list, faults and passes interleave, each document is decided once, and   *)
(* only passes that met nothing new end a collection short of its limit.    *)
DecidedOnce == Caller!Spec

(* The inductive invariant. *)
Within == pc \in {"row", "download", "close"}
IInv ==
  /\ TypeOK /\ Accounted /\ WithinLimit /\ IsFiniteSet(done)
  /\ Within => no_progress < MaxNoProgress
  /\ pc = "download" =>
       modal \in Rows /\ Doc[modal] \in done \ Delivered /\ Wanted

(* What the caller is told: no pass is counted before it is over, and a tab *)
(* that showed no row has shown no document.                                *)
TellsInv ==
  /\ pc = "list" /\ progressed => no_progress = 0
  /\ pc = "tab" => done = {} /\ ~progressed /\ no_progress = 0

(* How far the list has been dealt with.  Each document of the rows 1 .. F, *)
(* and each one seen beyond them, was delivered, or a fault is charged with *)
(* it, or it is being downloaded; none lies beyond the clip.                *)
Charged(F) ==
  Cardinality((DocsUpTo(F) \cup done) \ Delivered)
    <= faults + (IF pc = "download" THEN 1 ELSE 0)
InView == \A d \in done : \E r \in 1 .. total : r < top + Window /\ Doc[r] = d

(* A pass without progress over the clip from row t on is paid for: its     *)
(* last row repeats a document, as the rows before it name all documents    *)
(* seen, or its click will be found lost.                                   *)
Afforded(t) ==
  LET paid == lost + Repeated(t + Window - 2)
  IN  /\ no_progress <= paid
      /\ done \subseteq DocsUpTo(t + Window - 2) \/ no_progress < paid

(* Between two passes, the clip starts no later than the first row that was *)
(* not dealt with.                                                          *)
Between(F) ==
  /\ top <= F + 1
  /\ IF top < LastTop THEN Afforded(top) ELSE no_progress <= lost + Repeated(total)

(* Within a pass that began with the clip at row t, when the next rank named *)
(* row c.  The rows of that clip are dealt with one after the other.  Each   *)
(* row below it may move the clip down, by as much as the ranks are stale    *)
(* by then and one row more.                                                 *)
FirstAt(t) == IF t > Above THEN t - Above ELSE 1
LastAt(t) == IF t + Window + Below <= total THEN t + Window + Below - 1 ELSE total
Pays(t, c) ==
  IF c < t + Window
    THEN Afforded(t)
    ELSE no_progress + 1 <= lost + Repeated(t + Window - 1)
Left(t, c) == todo = {r + 1 - FirstAt(t) : r \in c .. LastAt(t)}
Moved(F, t, c) ==
  /\ t <= top /\ t <= F + 1
  /\ IF c <= t + Window
       THEN top = t /\ c <= F + 1
       ELSE /\ t + Window <= F
            /\ 2 * (top - t) <= (c - t - Window) * (c - t - Window + 1)
PassAt(F, t, c) ==
  Left(t, c) /\ Moved(F, t, c) /\ (t < LastTop /\ ~progressed => Pays(t, c))

Dealing(F) ==
  \/ F = total
  \/ pc \in {"tab", "list"} /\ Between(F)
  \/ /\ Within
     /\ \E t \in 1 .. LastTop : \E c \in FirstAt(t) .. LastAt(t) + 1 : PassAt(F, t, c)
  \/ /\ pc = "end"
     /\ \/ Len(docs) = limit
        \/ no_progress = MaxNoProgress /\ no_progress <= lost + Repeated(total)

(* Every rank that goes stale within a pass names a row the next clip shows. *)
Steady == 2 * Step + Below * (Below + 1) <= 2 * (Window + 1)

LossInv ==
  ~blocked /\ pc \notin {"empty", "raised"} =>
    /\ pc \in {"tab", "list", "row"} => modal = 0
    /\ top <= LastTop /\ InView
    /\ \E F \in 0 .. total : Charged(F) /\ Dealing(F)

(* The collection ends, whatever the page does (the termination rule of     *)
(* collect_documents is new-row progress).                                  *)
Ends == <>(pc \in {"end", "empty", "raised"})

=============================================================================
