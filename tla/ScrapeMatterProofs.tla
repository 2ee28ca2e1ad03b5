------------------------- MODULE ScrapeMatterProofs -------------------------
(***************************************************************************)
(* Proofs about ScrapeMatter: what a mail says is true of the portal, for  *)
(* every portal, request, cap, set of writings and number of faults.       *)
(***************************************************************************)
EXTENDS ScrapeMatter, TLAPS

(* No label is painted when the counts are reset: zero is a count. *)
LEMMA NoCountsType == NoCounts \in [Types -> Counts]
BY CountAssumption DEF NoCounts

(* What is read from a screen is what the portal has, or zero. *)
LEMMA ParsedType ==
  ASSUME TypeOK, ScreenInv, pc = "counts"
  PROVE  Parsed \in [Types -> Counts]
<1>1. painted # {} /\ Shown
  BY DEF ScreenInv
<1>2. field \in Matters /\ portal[field] \in [Types -> Counts]
  BY <1>1 DEF TypeOK, Shown
<1>. QED
  BY <1>2, CountAssumption DEF Parsed

LEMMA ParsedTrue ==
  ASSUME TypeOK, ScreenInv, pc = "counts"
  PROVE  \A t \in Types : Parsed[t] \in {0, portal[field][t]}
<1>1. painted # {} /\ Shown
  BY DEF ScreenInv
<1>2. field \in Matters /\ portal[field] \in [Types -> Counts]
  BY <1>1 DEF TypeOK, Shown
<1>. QED
  BY <1>2 DEF Parsed

LEMMA LimitType ==
  ASSUME TypeOK, counts[type] # 0
  PROVE  Limit \in 1 .. MaxDocuments /\ Limit <= counts[type]
<1>1. counts[type] \in Nat /\ MaxDocuments \in Nat \ {0}
  BY CountAssumption, TextAssumption DEF TypeOK
<1>. QED
  BY <1>1 DEF Limit

LEMMA FactsType ==
  ASSUME TypeOK
  PROVE  Facts \in Text
<1>1. counts \in [Types -> Printed] /\ counts[type] \in Printed /\ k \in Printed
  BY CountAssumption DEF TypeOK
<1>. QED
  BY <1>1 DEF Facts, Text, TypeOK

(* What is mailed states the figures, the type and the link of the result, *)
(* whatever the model wrote.                                               *)
LEMMA SummarizeKeeps ==
  ASSUME TypeOK, NEW written \in {None} \cup Writings
  PROVE  LET mailed == summarize(written, Facts)
         IN  /\ mailed \in Text
             /\ mailed.k = k /\ mailed.n = counts[type] /\ mailed.type = type
             /\ link # None => mailed.link = link
             /\ BeginsWith(mailed.matter, matter)
             /\ \A t \in Types \ {type} : EndsWith(mailed.counts[t], counts[t])
<1>1. CASE summary_is_valid(written, Facts)
  <2>1. written \in Text /\ summarize(written, Facts) = written
    BY <1>1, CountAssumption DEF summarize, summary_is_valid
  <2>2. /\ BeginsWith(written.matter, matter)
        /\ <<written.k, written.n, written.type>> = <<k, counts[type], type>>
        /\ \A t \in Types \ {type} : EndsWith(written.counts[t], counts[t])
        /\ link # None => written.link = link
    BY <1>1 DEF summary_is_valid, Facts
  <2>. QED
    BY <2>1, <2>2
<1>2. CASE ~summary_is_valid(written, Facts)
  <2>1. summarize(written, Facts) = Facts
    BY <1>2 DEF summarize, render_success_body
  <2>2. /\ Facts.k = k /\ Facts.n = counts[type] /\ Facts.type = type
        /\ Facts.link = link /\ Facts.matter = matter /\ Facts.counts = counts
    BY DEF Facts
  <2>. QED
    BY <2>1, <2>2, FactsType DEF BeginsWith, EndsWith
<1>. QED
  BY <1>1, <1>2

-----------------------------------------------------------------------------
(***************************************************************************)
(* Types.                                                                  *)
(***************************************************************************)
LEMMA FaultType ==
  ASSUME TypeOK, NEW kind, Fault(kind)
  PROVE  faults' \in 0 .. MaxFaults
BY FaultAssumption DEF TypeOK, Fault

LEMMA InitType == Init => TypeOK
<1>. SUFFICES ASSUME Init PROVE TypeOK
  OBVIOUS
<1>1. counts \in [Types -> Counts]
  BY NoCountsType DEF Init
<1>2. k \in 0 .. MaxDocuments /\ faults \in 0 .. MaxFaults
  BY CountAssumption, FaultAssumption DEF Init
<1>3. /\ portal \in [Matters -> {None} \cup [Types -> Counts]]
      /\ matter \in Matters /\ type \in Types
  BY DEF Init
<1>4. /\ pc \in Labels /\ field \in {None} \cup Matters
      /\ painted \in SUBSET Types /\ link \in Links
      /\ answer \in {"none", "not_found", "empty", "documents"}
      /\ text \in {None} \cup Text
  BY DEF Init, Labels, Links
<1>. QED
  BY <1>1, <1>2, <1>3, <1>4 DEF TypeOK

LEMMA StepType == IInv /\ [Next]_vars => TypeOK'
<1>. SUFFICES ASSUME IInv, [Next]_vars PROVE TypeOK'
  OBVIOUS
<1>0. TypeOK /\ ScreenInv /\ CountInv
  BY DEF IInv
<1>1. CASE Launch
  BY <1>0, <1>1 DEF TypeOK, Launch, Labels, request, mail
<1>2. CASE GotoAndReady
  BY <1>0, <1>2 DEF TypeOK, GotoAndReady, Labels, request, mail
<1>3. CASE Search
  <2>1. faults' \in 0 .. MaxFaults
    BY <1>0, <1>3, FaultType DEF Search, TypeOK
  <2>2. field' \in {None} \cup Matters
    BY <1>0, <1>3 DEF Search, TypeOK
  <2>. QED
    BY <1>0, <1>3, <2>1, <2>2 DEF TypeOK, Search, Labels, request, mail
<1>4. CASE ResultsShow
  BY <1>0, <1>4 DEF TypeOK, ResultsShow, Labels, request, mail
<1>5. CASE NoResults
  <2>1. faults' \in 0 .. MaxFaults
    BY <1>0, <1>5, FaultType DEF NoResults, TypeOK
  <2>. QED
    BY <1>0, <1>5, <2>1 DEF TypeOK, NoResults, Labels, request
<1>6. CASE ReadCounts
  <2>1. counts' \in [Types -> Counts]
    BY <1>0, <1>6, ParsedType DEF ReadCounts
  <2>2. answer' \in {"none", "not_found", "empty", "documents"} /\ pc' \in Labels
    BY <1>0, <1>6 DEF ReadCounts, TypeOK, Labels
  <2>. QED
    BY <1>0, <1>6, <2>1, <2>2 DEF TypeOK, ReadCounts, request
<1>7. CASE Download
  <2>1. counts[type] # 0
    BY <1>0, <1>7 DEF Download, CountInv, Delivering
  <2>2. Limit \in 1 .. MaxDocuments
    BY <1>0, <2>1, LimitType
  <2>3. faults' \in 0 .. MaxFaults
    BY <1>0, <1>7, FaultType DEF Download, TypeOK
  <2>4. k' \in 0 .. MaxDocuments
    BY <1>7, <2>2, CountAssumption DEF Download
  <2>. QED
    BY <1>0, <1>7, <2>3, <2>4 DEF TypeOK, Download, Labels, request, mail
<1>8. CASE Close
  <2>1. pc' \in Labels
    BY <1>8 DEF Close, Labels
  <2>. QED
    BY <1>0, <1>8, <2>1 DEF TypeOK, Close, request, mail
<1>9. CASE Raise
  <2>1. faults' \in 0 .. MaxFaults
    BY <1>0, <1>9, FaultType DEF Raise
  <2>. QED
    BY <1>0, <1>9, <2>1 DEF TypeOK, Raise, Labels, request
<1>10. CASE Package
  BY <1>0, <1>10 DEF TypeOK, Package, Labels, request, mail
<1>11. CASE Summarize
  <2>1. text' \in Text
    BY <1>0, <1>11, SummarizeKeeps DEF Summarize
  <2>. QED
    BY <1>0, <1>11, <2>1 DEF TypeOK, Summarize, Labels, request
<1>12. CASE Paint
  <2>1. painted' \in SUBSET Types
    BY <1>0, <1>12 DEF Paint, TypeOK
  <2>. QED
    BY <1>0, <1>12, <2>1 DEF TypeOK, Paint, request, mail
<1>13. CASE UNCHANGED vars
  BY <1>0, <1>13 DEF TypeOK, vars
<1>. QED
  BY <1>1, <1>2, <1>3, <1>4, <1>5, <1>6, <1>7, <1>8, <1>9, <1>10, <1>11, <1>12,
     <1>13 DEF Next, Step

-----------------------------------------------------------------------------
(***************************************************************************)
(* The screen and the counts.                                              *)
(***************************************************************************)
LEMMA StepScreen == IInv /\ [Next]_vars => ScreenInv'
<1>. SUFFICES ASSUME IInv, [Next]_vars PROVE ScreenInv'
  OBVIOUS
<1>0. ScreenInv
  BY DEF IInv
<1>1. CASE Launch
  BY <1>0, <1>1 DEF ScreenInv, Shown, Launch, request, mail
<1>2. CASE GotoAndReady
  BY <1>0, <1>2 DEF ScreenInv, Shown, GotoAndReady, request, mail
<1>3. CASE Search
  BY <1>0, <1>3 DEF ScreenInv, Shown, Search, request, mail
<1>4. CASE ResultsShow
  BY <1>0, <1>4 DEF ScreenInv, Shown, ResultsShow, request, mail
<1>5. CASE NoResults
  BY <1>0, <1>5 DEF ScreenInv, Shown, NoResults, request, mail
<1>6. CASE ReadCounts
  BY <1>0, <1>6 DEF ScreenInv, Shown, ReadCounts, request, mail
<1>7. CASE Download
  BY <1>0, <1>7 DEF ScreenInv, Shown, Download, request, mail
<1>8. CASE Close
  BY <1>0, <1>8 DEF ScreenInv, Shown, Close, request, mail
<1>9. CASE Raise
  BY <1>0, <1>9 DEF ScreenInv, Shown, Raise, request, mail
<1>10. CASE Package
  BY <1>0, <1>10 DEF ScreenInv, Shown, Package, request, mail
<1>11. CASE Summarize
  BY <1>0, <1>11 DEF ScreenInv, Shown, Summarize, request, mail
<1>12. CASE Paint
  BY <1>0, <1>12 DEF ScreenInv, Shown, Paint, request, mail
<1>13. CASE UNCHANGED vars
  BY <1>0, <1>13 DEF ScreenInv, Shown, vars, request, mail
<1>. QED
  BY <1>1, <1>2, <1>3, <1>4, <1>5, <1>6, <1>7, <1>8, <1>9, <1>10, <1>11, <1>12,
     <1>13 DEF Next, Step

LEMMA StepAnswer == IInv /\ [Next]_vars => AnswerInv'
<1>. SUFFICES ASSUME IInv, [Next]_vars PROVE AnswerInv'
  OBVIOUS
<1>0. AnswerInv /\ TypeOK
  BY DEF IInv
<1>1. CASE Launch
  BY <1>0, <1>1 DEF AnswerInv, Launch, request, mail
<1>2. CASE GotoAndReady
  BY <1>0, <1>2 DEF AnswerInv, GotoAndReady, request, mail
<1>3. CASE Search
  BY <1>0, <1>3 DEF AnswerInv, Search, request, mail
<1>4. CASE ResultsShow
  BY <1>0, <1>4 DEF AnswerInv, ResultsShow, request, mail
<1>5. CASE NoResults
  BY <1>0, <1>5 DEF AnswerInv, NoResults, request
<1>6. CASE ReadCounts
  BY <1>0, <1>6 DEF AnswerInv, ReadCounts, request
<1>7. CASE Download
  BY <1>0, <1>7 DEF AnswerInv, Download, request, mail
<1>8. CASE Close
  BY <1>0, <1>8 DEF AnswerInv, Close, request, mail
<1>9. CASE Raise
  BY <1>0, <1>9 DEF AnswerInv, Raise, request
<1>10. CASE Package
  BY <1>0, <1>10 DEF AnswerInv, Package, request, mail
<1>11. CASE Summarize
  BY <1>0, <1>11 DEF AnswerInv, Summarize, request
<1>12. CASE Paint
  BY <1>0, <1>12 DEF AnswerInv, Paint, request, mail
<1>13. CASE UNCHANGED vars
  BY <1>0, <1>13 DEF AnswerInv, vars, request, mail
<1>. QED
  BY <1>1, <1>2, <1>3, <1>4, <1>5, <1>6, <1>7, <1>8, <1>9, <1>10, <1>11, <1>12,
     <1>13 DEF Next, Step

(* The matter whose screen is shown does not change once it is typed. *)
LEMMA StepCount == IInv /\ [Next]_vars => CountInv'
<1>. SUFFICES ASSUME IInv, [Next]_vars PROVE CountInv'
  OBVIOUS
<1>0. CountInv /\ TypeOK /\ ScreenInv /\ AnswerInv
  BY DEF IInv
<1>1. CASE Launch
  BY <1>1 DEF CountInv, Delivering, Launch
<1>2. CASE GotoAndReady
  BY <1>2 DEF CountInv, Delivering, GotoAndReady
<1>3. CASE Search
  BY <1>3 DEF CountInv, Delivering, Search
<1>4. CASE ResultsShow
  BY <1>4 DEF CountInv, Delivering, ResultsShow
<1>5. CASE NoResults
  BY <1>5 DEF CountInv, Delivering, NoResults
<1>6. CASE ReadCounts
  <2>1. CASE Parsed[type] = 0
    BY <1>6, <2>1 DEF CountInv, Delivering, ReadCounts
  <2>2. CASE Parsed[type] # 0
    <3>1. \A t \in Types : Parsed[t] \in {0, portal[field][t]}
      BY <1>0, <1>6, ParsedTrue DEF ReadCounts
    <3>2. Shown
      BY <1>0, <1>6 DEF ScreenInv, ReadCounts
    <3>3. Parsed[type] \in Nat
      BY <1>0, <1>6, ParsedType, CountAssumption, TextAssumption DEF TypeOK, ReadCounts
    <3>4. k = 0
      BY <1>0, <1>6 DEF AnswerInv, ReadCounts
    <3>. QED
      <4>1. /\ counts' = Parsed /\ type' = type /\ portal' = portal
            /\ field' = field /\ k' = k
        BY <1>6 DEF ReadCounts, request
      <4>2. Shown'
        BY <3>2, <4>1 DEF Shown
      <4>3. counts'[type'] = portal'[field'] [type'] /\ counts'[type'] # 0
        BY <1>0, <2>2, <3>1, <4>1 DEF TypeOK
      <4>4. \A t \in Types : counts'[t] \in {0, portal'[field'][t]}
        BY <3>1, <4>1
      <4>5. k' <= counts'[type']
        BY <3>3, <3>4, <4>1
      <4>. QED
        BY <4>2, <4>3, <4>4, <4>5 DEF CountInv
  <2>. QED
    BY <2>1, <2>2
<1>7. CASE Download
  <2>1. Limit \in 1 .. MaxDocuments /\ Limit <= counts[type] /\ counts[type] # 0
    BY <1>0, <1>7, LimitType DEF Download, CountInv, Delivering
  <2>2. counts[type] \in Nat /\ MaxDocuments \in Nat
    BY <1>0, CountAssumption, TextAssumption DEF TypeOK
  <2>3. k' <= counts[type]
    BY <1>7, <2>1, <2>2 DEF Download
  <2>. QED
    BY <1>0, <1>7, <2>3 DEF CountInv, Delivering, Shown, Download, request, mail
<1>8. CASE Close
  BY <1>0, <1>8 DEF CountInv, Delivering, Shown, AnswerInv, Close, request, mail
<1>9. CASE Raise
  BY <1>9 DEF CountInv, Delivering, Raise
<1>10. CASE Package
  BY <1>0, <1>10 DEF CountInv, Delivering, Shown, Package, request, mail
<1>11. CASE Summarize
  BY <1>0, <1>11 DEF CountInv, Delivering, Shown, Summarize, request
<1>12. CASE Paint
  BY <1>0, <1>12 DEF CountInv, Delivering, Shown, Paint, request, mail
<1>13. CASE UNCHANGED vars
  BY <1>0, <1>13 DEF CountInv, Delivering, Shown, vars, request, mail
<1>. QED
  BY <1>1, <1>2, <1>3, <1>4, <1>5, <1>6, <1>7, <1>8, <1>9, <1>10, <1>11, <1>12,
     <1>13 DEF Next, Step

-----------------------------------------------------------------------------
(***************************************************************************)
(* What the mail says.                                                     *)
(***************************************************************************)
(* A mail with documents is written in one step; none follows it. *)
LEMMA StepMailed == IInv /\ Next /\ ~Summarize => answer' # "documents" \/
                      (answer = "documents" /\ UNCHANGED <<request, field, counts, k,
                                                          link, mail>>)
<1>. SUFFICES ASSUME IInv, Next, ~Summarize
              PROVE  answer' # "documents" \/
                      (answer = "documents" /\ UNCHANGED <<request, field, counts, k,
                                                          link, mail>>)
  OBVIOUS
<1>0. AnswerInv
  BY DEF IInv
<1>1. CASE Launch \/ GotoAndReady \/ Search \/ ResultsShow \/ NoResults
  BY <1>0, <1>1 DEF AnswerInv, Launch, GotoAndReady, Search, ResultsShow, NoResults, mail
<1>2. CASE ReadCounts \/ Download
  BY <1>0, <1>2 DEF AnswerInv, ReadCounts, Download, mail
<1>3. CASE Close \/ Raise \/ Package
  BY <1>0, <1>3 DEF AnswerInv, Close, Raise, Package, mail
<1>4. CASE Paint
  BY <1>0, <1>4 DEF AnswerInv, Paint, mail
<1>. QED
  BY <1>1, <1>2, <1>3, <1>4 DEF Next, Step

LEMMA StepText == IInv /\ [Next]_vars => TotalIsTrue' /\ TextKeepsFacts'
<1>. SUFFICES ASSUME IInv, [Next]_vars PROVE TotalIsTrue' /\ TextKeepsFacts'
  OBVIOUS
<1>0. TotalIsTrue /\ TextKeepsFacts /\ TypeOK /\ CountInv /\ AnswerInv
  BY DEF IInv
<1>1. CASE Summarize
  <2>1. PICK written \in {None} \cup Writings : text' = summarize(written, Facts)
    BY <1>1 DEF Summarize
  <2>2. /\ pc = "summarize" /\ answer' = "documents"
        /\ portal' = portal /\ matter' = matter /\ type' = type /\ field' = field
        /\ counts' = counts /\ k' = k /\ link' = link
    BY <1>1 DEF Summarize, request
  <2>3. /\ text'.k = k /\ text'.n = counts[type] /\ text'.type = type
        /\ link # None => text'.link = link
        /\ BeginsWith(text'.matter, matter)
        /\ \A t \in Types \ {type} : EndsWith(text'.counts[t], counts[t])
    BY <1>0, <2>1, SummarizeKeeps
  <2>4. /\ Shown /\ counts[type] = portal[field][type]
        /\ \A t \in Types : counts[t] \in {0, portal[field][t]}
        /\ k <= counts[type]
    BY <1>0, <2>2 DEF CountInv, Delivering
  <2>5. k \in 0 .. MaxDocuments /\ k # 0 /\ MaxDocuments \in Nat
    BY <1>0, <2>2, CountAssumption DEF TypeOK, AnswerInv
  <2>6. k \in 1 .. MaxDocuments
    BY <2>5
  <2>7. TotalIsTrue'
    BY <2>2, <2>3, <2>4, <2>6 DEF TotalIsTrue, Typed, Shown
  <2>8. TextKeepsFacts'
    BY <2>2, <2>3, <2>4 DEF TextKeepsFacts, Typed
  <2>. QED
    BY <2>7, <2>8
<1>2. CASE Next /\ ~Summarize
  <2>1. CASE answer' # "documents"
    BY <2>1 DEF TotalIsTrue, TextKeepsFacts
  <2>2. CASE answer = "documents" /\ UNCHANGED <<request, field, counts, k, link,
                                                  mail>>
    BY <1>0, <2>2 DEF TotalIsTrue, TextKeepsFacts, Typed, request, mail
  <2>. QED
    BY <1>2, <2>1, <2>2, StepMailed
<1>3. CASE UNCHANGED vars
  BY <1>0, <1>3 DEF TotalIsTrue, TextKeepsFacts, Typed, vars, request, mail
<1>. QED
  BY <1>1, <1>2, <1>3

-----------------------------------------------------------------------------
(***************************************************************************)
(* Theorems.                                                               *)
(***************************************************************************)
LEMMA IInvInit == Init => IInv
<1>. SUFFICES ASSUME Init PROVE IInv
  OBVIOUS
<1>1. TypeOK
  BY InitType
<1>2. pc = "launch" /\ painted = {} /\ k = 0 /\ answer = "none"
  BY DEF Init
<1>3. ScreenInv /\ AnswerInv
  BY <1>2 DEF ScreenInv, AnswerInv
<1>4. CountInv
  BY <1>2 DEF CountInv, Delivering
<1>5. TotalIsTrue /\ TextKeepsFacts
  BY <1>2 DEF TotalIsTrue, TextKeepsFacts
<1>. QED
  BY <1>1, <1>3, <1>4, <1>5 DEF IInv

LEMMA IInvStep == IInv /\ [Next]_vars => IInv'
BY StepType, StepScreen, StepCount, StepAnswer, StepText DEF IInv

(* The inductive invariant: what the code holds is what the screen showed, *)
(* and a count that is not zero is the portal's.                           *)
THEOREM AnswerInductive == Spec => []IInv
BY IInvInit, IInvStep, PTL DEF Spec

(* Every variable has its type: what is read from a screen is a count, and *)
(* what is downloaded stays below the cap.                                 *)
THEOREM AnswerTypes == Spec => []TypeOK
<1>1. IInv => TypeOK
  BY DEF IInv
<1>. QED
  BY <1>1, AnswerInductive, PTL

(* "k of the N type" in a mail is right, on a half painted screen too, and *)
(* whatever the model wrote (scraper.py:66, anthropic_client.py:277).      *)
THEOREM TotalsTrue == Spec => []TotalIsTrue
<1>1. IInv => TotalIsTrue
  BY DEF IInv
<1>. QED
  BY <1>1, AnswerInductive, PTL

(* Whatever the model wrote, a mail never loses its link, its matter number *)
(* begins as the one asked for, and the counts of the types that were not   *)
(* asked for end as what the screen showed (anthropic_client.py:258-287).   *)
THEOREM TextsKeepFacts == Spec => []TextKeepsFacts
<1>1. IInv => TextKeepsFacts
  BY DEF IInv
<1>. QED
  BY <1>1, AnswerInductive, PTL

================================================================================
