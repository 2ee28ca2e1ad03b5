------------------------ MODULE DownloadFilesProofs ------------------------
(***************************************************************************)
(* Theorems about DownloadFiles, for any documents, files, attempts and    *)
(* faults.                                                                 *)
(***************************************************************************)
EXTENDS DownloadFiles, FiniteSetTheorems, TLAPS

LEMMA AskedIsRequest ==
  ASSUME TypeOK, PlaceInv, pc \in Busy
  PROVE  Asked \in Requests
<1>1. /\ doc \in 1 .. Documents /\ file \in 1 .. NFiles[doc]
      /\ attempt \in 1 .. Attempts
  BY DEF PlaceInv, Busy, TypeOK
<1>q. QED
  BY <1>1 DEF Asked, Requests

(* What Settle does, one document on. *)
LEMMA SettleTypes ==
  ASSUME TypeOK, PlaceInv, pc # "end", NEW outcome, Settle(outcome),
         outcome \in {Failed} \cup {Got(f) : f \in Seq({FileOf(q) : q \in Requests})}
  PROVE  /\ doc' \in 1 .. Documents + 1 /\ file' \in Nat \ {0}
         /\ attempt' \in 1 .. Attempts /\ pc' \in {"open", "end"}
         /\ saved' \in Seq({FileOf(q) : q \in Requests})
         /\ result' \in [1 .. Documents ->
              [kind : {"pending", "failed", "got"},
               files : Seq({FileOf(q) : q \in Requests})]]
         /\ pc' # "end" => doc' \in 1 .. Documents
         /\ \A d \in 1 .. Documents : d >= doc' => result'[d] = Pending
<1> DEFINE F == Seq({FileOf(q) : q \in Requests})
<1>1. outcome \in [kind : {"pending", "failed", "got"}, files : F]
  <2>1. CASE outcome = Failed
    <3>1. <<>> \in F
      OBVIOUS
    <3>q. QED
      BY <2>1, <3>1 DEF Failed
  <2>2. ASSUME NEW f \in F, outcome = Got(f)
        PROVE  outcome \in [kind : {"pending", "failed", "got"}, files : F]
    BY <2>2 DEF Got
  <2>q. QED
    BY <2>1, <2>2
<1>2. doc \in 1 .. Documents /\ Documents \in Nat /\ Attempts \in Nat \ {0}
  BY SizeAssumption DEF PlaceInv
<1>3. result' \in [1 .. Documents -> [kind : {"pending", "failed", "got"}, files : F]]
  BY <1>1, <1>2 DEF Settle, TypeOK
<1>4. \A d \in 1 .. Documents : d >= doc' => result'[d] = Pending
  BY <1>2 DEF Settle, PlaceInv, TypeOK
<1>5. saved' \in F
  BY DEF Settle
<1>q. QED
  BY <1>2, <1>3, <1>4, <1>5 DEF Settle

LEMMA TypePlaceStep ==
  ASSUME IInv, [Next]_vars
  PROVE  TypeOK' /\ PlaceInv' /\ (pc = "open" => file = 1 /\ attempt = 1)'
<1> DEFINE F == Seq({FileOf(q) : q \in Requests})
<1>t. TypeOK /\ PlaceInv /\ (pc = "open" => file = 1 /\ attempt = 1)
  BY DEF IInv
<1>a. Documents \in Nat /\ Attempts \in Nat \ {0} /\ MaxFaults \in Nat
      /\ NFiles \in [1 .. Documents -> Nat]
  BY SizeAssumption, FaultAssumption
<1>f. \A k : Fault(k) => faults' \in 0 .. MaxFaults /\ faults' = faults + 1
  BY <1>t, <1>a DEF Fault, TypeOK
<1>1. CASE Open
  <2>1. CASE NFiles[doc] = 0
    <3>1. Settle(Failed) /\ pc = "open"
      BY <1>1, <2>1 DEF Open
    <3>2. UNCHANGED <<coming, caught, late, missed, bugs, faults>>
      BY <1>1 DEF Open, history
    <3>q. QED
      BY <1>t, <3>1, <3>2, SettleTypes DEF TypeOK, PlaceInv, Busy, Settle
  <2>2. CASE NFiles[doc] # 0
    <3>1. /\ pc' = "click" /\ pc = "open"
          /\ UNCHANGED <<doc, file, attempt, saved, result, coming, caught,
                         late, missed, bugs, faults>>
      BY <1>1, <2>2 DEF Open, history
    <3>2. file' \in 1 .. NFiles[doc'] /\ pc' # "open" /\ doc' \in 1 .. Documents
      BY <1>t, <1>a, <2>2, <3>1 DEF PlaceInv
    <3>q. QED
      BY <1>t, <3>1, <3>2 DEF TypeOK, PlaceInv
  <2>q. QED
    BY <2>1, <2>2
<1>2. CASE Click
  BY <1>2, <1>t, AskedIsRequest DEF Click, TypeOK, PlaceInv, Busy, Asked, history
<1>3. CASE Start
  BY <1>3, <1>t DEF Start, TypeOK, PlaceInv, Busy, history
<1>4. CASE Save
  <2>1. PICK q \in caught :
          IF file = NFiles[doc]
            THEN Settle(Got(Keep(FileOf(q))))
            ELSE Advance(Keep(FileOf(q)))
    BY <1>4 DEF Save
  <2>2. /\ pc = "save" /\ caught' = {}
        /\ UNCHANGED <<coming, late, missed, bugs, faults>>
    BY <1>4 DEF Save, history
  <2>3. Keep(FileOf(q)) \in F
    BY <1>t, <2>1 DEF Keep, TypeOK
  <2>4. CASE file = NFiles[doc]
    BY <1>t, <2>1, <2>2, <2>3, <2>4, SettleTypes
       DEF TypeOK, PlaceInv, Busy, Settle
  <2>5. CASE file # NFiles[doc]
    <3>1. /\ saved' \in F /\ file' = file + 1 /\ attempt' = 1 /\ pc' = "click"
          /\ UNCHANGED <<doc, result>>
      BY <2>1, <2>3, <2>5 DEF Advance
    <3>2. file \in 1 .. NFiles[doc] /\ doc \in 1 .. Documents
      BY <1>t, <2>2 DEF PlaceInv, Busy
    <3>3. file' \in 1 .. NFiles[doc] /\ file' \in Nat \ {0} /\ attempt' \in 1 .. Attempts
      BY <1>a, <2>5, <3>1, <3>2
    <3>4. TypeOK'
      BY <1>t, <2>2, <3>1, <3>3 DEF TypeOK
    <3>5. PlaceInv'
      BY <1>t, <3>1, <3>2, <3>3 DEF PlaceInv
    <3>q. QED
      BY <3>1, <3>4, <3>5
  <2>q. QED
    BY <2>4, <2>5
<1>c. Busy \subseteq {"click", "wait", "save"} /\ (pc \in Busy => Asked \in Requests)
  BY <1>t, AskedIsRequest DEF Busy
<1>5. ASSUME pc \in Busy, Retry, UNCHANGED bugs, late' \in BOOLEAN,
             coming' \subseteq Requests, caught' \subseteq caught,
             faults' \in 0 .. MaxFaults
      PROVE  TypeOK' /\ PlaceInv' /\ (pc = "open" => file = 1 /\ attempt = 1)'
  <2>m. missed' \subseteq Requests
    BY <1>5, <1>c, <1>t DEF Retry, TypeOK
  <2>1. CASE attempt < Attempts
    <3>1. /\ attempt' = attempt + 1 /\ pc' = "click"
          /\ UNCHANGED <<doc, file, saved, result>>
      BY <1>5, <2>1 DEF Retry
    <3>2. attempt' \in 1 .. Attempts
      BY <1>t, <1>a, <2>1, <3>1 DEF TypeOK
    <3>3. TypeOK'
      BY <1>5, <1>t, <2>m, <3>1, <3>2 DEF TypeOK
    <3>4. PlaceInv' /\ pc' # "open"
      BY <1>5, <1>t, <3>1 DEF PlaceInv, Busy
    <3>q. QED
      BY <3>3, <3>4
  <2>2. CASE ~(attempt < Attempts)
    <3>1. Settle(Failed) /\ pc # "end"
      BY <1>5, <2>2 DEF Retry, Busy
    <3>q. QED
      BY <1>5, <1>t, <2>m, <3>1, SettleTypes DEF TypeOK, PlaceInv, Busy, Settle
  <2>q. QED
    BY <2>1, <2>2
<1>l. ASSUME pc = "click", ClickLost
      PROVE  late' \in BOOLEAN /\ coming' \subseteq Requests
  BY <1>l, <1>c, <1>t DEF ClickLost, TypeOK, Busy
<1>6. CASE ClickTimesOut
  <2>1. /\ pc = "click" /\ Retry /\ ClickLost /\ UNCHANGED <<caught, bugs>>
        /\ faults' \in 0 .. MaxFaults
    BY <1>6, <1>f DEF ClickTimesOut
  <2>q. QED
    BY <1>5, <1>l, <2>1 DEF Busy
<1>7. CASE StartTimesOut
  BY <1>5, <1>7, <1>f, <1>t DEF StartTimesOut, Busy, TypeOK
<1>8. CASE TransferStalls
  BY <1>5, <1>8, <1>f, <1>t DEF TransferStalls, Busy, TypeOK
<1>9. CASE NotRetried
  <2>1. /\ Settle(Failed) /\ pc # "end" /\ caught' = {} /\ missed' = missed
        /\ bugs' = bugs \cup {doc} /\ faults' \in 0 .. MaxFaults
    BY <1>9, <1>f DEF NotRetried
  <2>2. late' \in BOOLEAN /\ coming' \subseteq Requests
    <3>1. CASE pc = "click"
      BY <1>9, <1>l, <3>1 DEF NotRetried
    <3>2. CASE pc # "click"
      BY <1>9, <1>t, <3>2 DEF NotRetried, TypeOK
    <3>q. QED
      BY <3>1, <3>2
  <2>3. bugs' \subseteq 1 .. Documents
    BY <1>t, <2>1 DEF TypeOK, PlaceInv
  <2>q. QED
    BY <1>t, <2>1, <2>2, <2>3, SettleTypes DEF TypeOK, PlaceInv, Busy, Settle
<1>10. CASE UNCHANGED vars
  BY <1>10, <1>t DEF vars, TypeOK, PlaceInv, Busy
<1>q. QED
  BY <1>1, <1>2, <1>3, <1>4, <1>6, <1>7, <1>8, <1>9, <1>10
     DEF Next, Step, Trouble

-----------------------------------------------------------------------------
(* What is kept are the files asked for, until a wait is abandoned. *)

(* The list of the first files of a document, and one more. *)
LEMMA NextFile ==
  ASSUME NEW d \in Nat, NEW n \in Nat
  PROVE  Append([k \in 1 .. n |-> <<d, k>>], <<d, n + 1>>)
           = [k \in 1 .. n + 1 |-> <<d, k>>]
<1> DEFINE L == [k \in 1 .. n |-> <<d, k>>]
           A == Append(L, <<d, n + 1>>)
<1>1. L \in Seq(Nat \X Nat) /\ Len(L) = n
  OBVIOUS
<1>2. <<d, n + 1>> \in Nat \X Nat
  OBVIOUS
<1>3. /\ A \in Seq(Nat \X Nat) /\ Len(A) = n + 1
      /\ \A k \in 1 .. n + 1 : A[k] = IF k = n + 1 THEN <<d, n + 1>> ELSE L[k]
  BY <1>1, <1>2
<1>4. \A k \in 1 .. n + 1 : A[k] = <<d, k>>
  BY <1>3
<1>5. A = [k \in 1 .. n + 1 |-> A[k]]
  <2> HIDE DEF A
  <2>q. QED
    BY <1>3
<1>q. QED
  BY <1>4, <1>5

LEMMA PunctualStep ==
  ASSUME IInv, [Next]_vars
  PROVE  PunctualInv' /\ OwnFiles'
<1>t. TypeOK /\ PlaceInv /\ PunctualInv /\ OwnFiles
  BY DEF IInv
<1>a. Documents \in Nat /\ Attempts \in Nat \ {0}
      /\ NFiles \in [1 .. Documents -> Nat]
  BY SizeAssumption
<1>o. ASSUME UNCHANGED <<result, late>> PROVE OwnFiles'
  BY <1>o, <1>t DEF OwnFiles, Complete
<1>s. ASSUME pc # "end", Settle(Failed), coming' = {}, caught' = {}, late' = late
      PROVE  PunctualInv' /\ OwnFiles'
  <2>1. pc' \in {"open", "end"} /\ file' = 1 /\ saved' = <<>>
        /\ result' = [result EXCEPT ![doc] = Failed]
    BY <1>s DEF Settle
  <2>2. saved' = [n \in 1 .. file' - 1 |-> <<doc', n>>]
    BY <2>1
  <2>3. PunctualInv'
    BY <1>s, <2>1, <2>2 DEF PunctualInv
  <2>4. OwnFiles'
    BY <1>s, <1>t, <2>1 DEF OwnFiles, Complete, TypeOK, Failed
  <2>q. QED
    BY <2>3, <2>4
<1>r. ASSUME pc \in Busy, ~late, Retry, coming' = {}, caught' = {}, late' = late
      PROVE  PunctualInv' /\ OwnFiles'
  <2>1. CASE attempt < Attempts
    <3>1. pc' = "click" /\ UNCHANGED <<doc, file, saved, result, late>>
      BY <1>r, <2>1 DEF Retry
    <3>q. QED
      BY <1>r, <1>t, <1>o, <3>1 DEF PunctualInv, Busy
  <2>2. CASE ~(attempt < Attempts)
    BY <1>r, <1>s, <2>2 DEF Retry, Busy
  <2>q. QED
    BY <2>1, <2>2
<1>1. CASE late'
  BY <1>1 DEF PunctualInv, OwnFiles
<1>2. CASE late
  <2>1. late'
    BY <1>2 DEF Next, Step, Trouble, Open, Click, Start, Save, ClickTimesOut,
       ClickLost, StartTimesOut, TransferStalls, NotRetried, vars, history
  <2>q. QED
    BY <1>1, <2>1
<1>3. ASSUME ~late, ~late' PROVE PunctualInv' /\ OwnFiles'
  <2>p. /\ coming = IF pc = "wait" THEN {Asked} ELSE {}
        /\ caught = IF pc = "save" THEN {Asked} ELSE {}
        /\ pc \in Busy \cup {"open"} => saved = [n \in 1 .. file - 1 |-> <<doc, n>>]
    BY <1>3, <1>t DEF PunctualInv
  <2>1. CASE Open
    <3>1. CASE NFiles[doc] = 0
      BY <1>s, <2>1, <2>p, <3>1 DEF Open, history
    <3>2. CASE NFiles[doc] # 0
      <4>1. /\ pc = "open" /\ pc' = "click"
            /\ UNCHANGED <<doc, file, attempt, saved, result, coming, caught, late>>
        BY <2>1, <3>2 DEF Open, history
      <4>q. QED
        BY <1>o, <2>p, <4>1 DEF PunctualInv, Busy
    <3>q. QED
      BY <3>1, <3>2
  <2>2. CASE Click
    <3>1. /\ pc = "click" /\ pc' = "wait" /\ coming' = {Asked}
          /\ UNCHANGED <<doc, file, attempt, saved, result, caught, late>>
      BY <2>2, <2>p DEF Click, Asked, history
    <3>q. QED
      BY <1>o, <2>p, <3>1 DEF PunctualInv, Busy, Asked
  <2>3. CASE Start
    <3>1. /\ pc = "wait" /\ pc' = "save" /\ coming' = {} /\ caught' = {Asked}
          /\ UNCHANGED <<doc, file, attempt, saved, result, late>>
      BY <2>3, <2>p DEF Start, history
    <3>q. QED
      BY <1>o, <2>p, <3>1 DEF PunctualInv, Busy, Asked
  <2>4. CASE Save
    <3>1. /\ pc = "save" /\ caught = {Asked} /\ coming = {} /\ caught' = {}
          /\ coming' = {} /\ late' = late
          /\ saved = [n \in 1 .. file - 1 |-> <<doc, n>>]
      BY <2>4, <2>p DEF Save, Busy, history
    <3>2. doc \in 1 .. Documents /\ file \in 1 .. NFiles[doc] /\ NFiles[doc] \in Nat
      BY <1>t, <1>a, <3>1 DEF PlaceInv, Busy
    <3>3. Keep(FileOf(Asked)) = [n \in 1 .. file |-> <<doc, n>>]
      <4>1. Keep(FileOf(Asked)) = Append(saved, <<doc, file>>)
        BY DEF Keep, FileOf, Asked
      <4>2. file - 1 \in Nat /\ (file - 1) + 1 = file /\ doc \in Nat
        BY <1>a, <3>2
      <4>3. Append([n \in 1 .. file - 1 |-> <<doc, n>>], <<doc, (file - 1) + 1>>)
              = [n \in 1 .. (file - 1) + 1 |-> <<doc, n>>]
        BY <4>2, NextFile
      <4>q. QED
        BY <3>1, <4>1, <4>2, <4>3
    <3>4. CASE file = NFiles[doc]
      <4>1. Settle(Got(Keep(FileOf(Asked))))
        BY <2>4, <3>1, <3>4 DEF Save
      <4>2. /\ pc' \in {"open", "end"} /\ file' = 1 /\ saved' = <<>>
            /\ result' = [result EXCEPT ![doc] = Got([n \in 1 .. file |-> <<doc, n>>])]
        BY <3>3, <4>1 DEF Settle
      <4>3. saved' = [n \in 1 .. file' - 1 |-> <<doc', n>>]
        BY <4>2
      <4>4. PunctualInv'
        BY <3>1, <4>2, <4>3 DEF PunctualInv
      <4>5. OwnFiles'
        <5>1. result'[doc].files = [n \in 1 .. NFiles[doc] |-> <<doc, n>>]
          BY <1>t, <3>2, <3>4, <4>2 DEF TypeOK, Got
        <5>2. \A d \in 1 .. Documents : d # doc => result'[d] = result[d]
          BY <1>t, <4>2 DEF TypeOK
        <5>q. QED
          BY <1>3, <1>t, <5>1, <5>2 DEF OwnFiles, Complete
      <4>q. QED
        BY <4>4, <4>5
    <3>5. CASE file # NFiles[doc]
      <4>1. /\ saved' = [n \in 1 .. file |-> <<doc, n>>] /\ file' = file + 1
            /\ pc' = "click" /\ UNCHANGED <<doc, result>>
        BY <2>4, <3>1, <3>3, <3>5 DEF Save, Advance
      <4>2. file' - 1 = file
        BY <1>a, <3>2, <4>1
      <4>q. QED
        BY <1>o, <3>1, <4>1, <4>2 DEF PunctualInv, Busy
    <3>q. QED
      BY <3>4, <3>5
  <2>5. CASE ClickTimesOut
    BY <1>3, <1>r, <2>5, <2>p DEF ClickTimesOut, ClickLost, Busy
  <2>6. CASE StartTimesOut
    BY <1>3, <2>6 DEF StartTimesOut
  <2>7. CASE TransferStalls
    BY <1>3, <1>r, <2>7, <2>p DEF TransferStalls, Busy
  <2>8. CASE NotRetried
    <3>1. pc # "wait" /\ pc # "end" /\ late' = late /\ coming' = coming
      BY <1>3, <1>t, <2>8 DEF NotRetried, ClickLost, TypeOK
    <3>2. Settle(Failed) /\ coming' = {} /\ caught' = {}
      BY <2>8, <2>p, <3>1 DEF NotRetried
    <3>q. QED
      BY <1>s, <3>1, <3>2
  <2>9. CASE UNCHANGED vars
    BY <1>o, <2>9, <2>p DEF vars, PunctualInv, Asked
  <2>q. QED
    BY <2>1, <2>2, <2>3, <2>4, <2>5, <2>6, <2>7, <2>8, <2>9 DEF Next, Step, Trouble
<1>q. QED
  BY <1>1, <1>2, <1>3

-----------------------------------------------------------------------------
(* What is given up was tried as often as it may be. *)

(* Nothing that was missed, or that met an exception, is forgotten. *)
LEMMA HistoryGrows ==
  ASSUME IInv, [Next]_vars
  PROVE  missed \subseteq missed' /\ bugs \subseteq bugs'
<1>1. CASE Open \/ Click \/ Start \/ Save
  BY <1>1 DEF Open, Click, Start, Save, history
<1>2. CASE ClickTimesOut \/ StartTimesOut \/ TransferStalls
  BY <1>2 DEF ClickTimesOut, StartTimesOut, TransferStalls, Retry
<1>3. CASE NotRetried
  BY <1>3 DEF NotRetried
<1>4. CASE UNCHANGED vars
  BY <1>4 DEF vars
<1>q. QED
  BY <1>1, <1>2, <1>3, <1>4 DEF Next, Step, Trouble

LEMMA ExhaustedStays ==
  ASSUME IInv, [Next]_vars, NEW d, NEW f, Exhausted(d, f)
  PROVE  Exhausted(d, f)'
BY HistoryGrows DEF Exhausted

(* The documents given up stay so, and one settled joins them only if it is *)
(* the current one.                                                         *)
LEMMA GivenUpSettled ==
  ASSUME TypeOK, NEW outcome, Settle(outcome)
  PROVE  GivenUp' \subseteq GivenUp \cup {d \in {doc} : outcome = Failed /\ NFiles[d] > 0}
<1>1. result' = [result EXCEPT ![doc] = outcome]
  BY DEF Settle
<1>q. QED
  BY <1>1 DEF GivenUp, TypeOK

LEMMA TriedStep ==
  ASSUME IInv, [Next]_vars
  PROVE  TriedInv' /\ NothingGivenUpEarly'
<1>t. /\ TypeOK /\ PlaceInv /\ TriedInv /\ NothingGivenUpEarly
      /\ pc = "open" => file = 1 /\ attempt = 1
  BY DEF IInv
<1>a. /\ Attempts \in Nat \ {0} /\ attempt \in 1 .. Attempts
      /\ NFiles \in [1 .. Documents -> Nat]
  BY <1>t, SizeAssumption DEF TypeOK
<1>g. ASSUME NEW d \in GivenUp
      PROVE  d \in bugs' \/ \E f \in 1 .. NFiles[d] : Exhausted(d, f)'
  <2>1. CASE d \in bugs
    BY <2>1, HistoryGrows
  <2>2. CASE d \notin bugs
    <3>1. PICK f \in 1 .. NFiles[d] : Exhausted(d, f)
      BY <1>t, <2>2 DEF NothingGivenUpEarly
    <3>q. QED
      BY <3>1, ExhaustedStays
  <2>q. QED
    BY <2>1, <2>2
<1>k. ASSUME GivenUp' \subseteq GivenUp
      PROVE  NothingGivenUpEarly'
  BY <1>g, <1>k DEF NothingGivenUpEarly
<1>f. ASSUME attempt' = 1
      PROVE  TriedInv'
  BY <1>f DEF TriedInv
<1>r. ASSUME pc \in Busy, Retry
      PROVE  TriedInv' /\ NothingGivenUpEarly'
  <2>1. /\ missed' = missed \cup {Asked}
        /\ \A n \in 1 .. attempt - 1 : <<doc, file, n>> \in missed
    BY <1>r, <1>t DEF Retry, TriedInv
  <2>2. \A n \in 1 .. attempt : <<doc, file, n>> \in missed'
    <3>1. \A n \in 1 .. attempt : n \in 1 .. attempt - 1 \/ n = attempt
      BY <1>a
    <3>q. QED
      BY <2>1, <3>1 DEF Asked
  <2>3. CASE attempt < Attempts
    <3>1. attempt' = attempt + 1 /\ UNCHANGED <<doc, file, result>>
      BY <1>r, <2>3 DEF Retry
    <3>2. attempt' - 1 = attempt
      BY <1>a, <3>1
    <3>3. TriedInv'
      BY <2>2, <3>1, <3>2 DEF TriedInv
    <3>4. GivenUp' = GivenUp
      BY <3>1 DEF GivenUp
    <3>q. QED
      BY <1>k, <3>3, <3>4
  <2>4. CASE ~(attempt < Attempts)
    <3>1. Settle(Failed) /\ attempt = Attempts
      BY <1>r, <1>a, <2>4 DEF Retry
    <3>2. file \in 1 .. NFiles[doc]
      BY <1>r, <1>t DEF PlaceInv
    <3>3. GivenUp' \subseteq GivenUp \cup {doc}
      BY <1>t, <3>1, GivenUpSettled
    <3>4. NothingGivenUpEarly'
      <4>1. ASSUME NEW d \in GivenUp'
            PROVE  d \in bugs' \/ \E f \in 1 .. NFiles[d] : Exhausted(d, f)'
        <5>1. CASE d \in GivenUp
          BY <1>g, <5>1
        <5>2. CASE d = doc
          BY <2>2, <3>1, <3>2, <5>2 DEF Exhausted
        <5>q. QED
          BY <3>3, <4>1, <5>1, <5>2
      <4>q. QED
        BY <4>1 DEF NothingGivenUpEarly
    <3>q. QED
      BY <1>f, <3>1, <3>4 DEF Settle
  <2>q. QED
    BY <2>3, <2>4
<1>1. CASE Open
  <2>1. CASE NFiles[doc] = 0
    <3>1. Settle(Failed)
      BY <1>1, <2>1 DEF Open
    <3>2. GivenUp' \subseteq GivenUp
      BY <1>t, <2>1, <3>1, GivenUpSettled
    <3>q. QED
      BY <1>f, <1>k, <3>1, <3>2 DEF Settle
  <2>2. CASE NFiles[doc] # 0
    <3>1. UNCHANGED <<attempt, result>> /\ pc = "open"
      BY <1>1, <2>2 DEF Open
    <3>2. attempt' = 1 /\ GivenUp' = GivenUp
      BY <1>t, <3>1 DEF GivenUp
    <3>q. QED
      BY <1>f, <1>k, <3>2
  <2>q. QED
    BY <2>1, <2>2
<1>2. CASE Click \/ Start
  <2>1. pc \in Busy => UNCHANGED <<doc, file, attempt, missed>>
    BY <1>2 DEF Click, Start, history
  <2>2. pc' \in Busy => pc \in Busy
    BY <1>2 DEF Click, Start, Busy
  <2>3. GivenUp' = GivenUp
    BY <1>2 DEF Click, Start, GivenUp
  <2>q. QED
    BY <1>t, <1>k, <2>1, <2>2, <2>3 DEF TriedInv
<1>3. CASE Save
  <2>1. ASSUME NEW f, Settle(Got(f)) PROVE TriedInv' /\ NothingGivenUpEarly'
    <3>1. Got(f) # Failed
      BY DEF Got, Failed
    <3>2. GivenUp' \subseteq GivenUp
      BY <1>t, <2>1, <3>1, GivenUpSettled
    <3>q. QED
      BY <1>f, <1>k, <2>1, <3>2 DEF Settle
  <2>2. ASSUME NEW f, Advance(f) PROVE TriedInv' /\ NothingGivenUpEarly'
    <3>1. attempt' = 1 /\ result' = result
      BY <2>2 DEF Advance
    <3>2. GivenUp' = GivenUp
      BY <3>1 DEF GivenUp
    <3>q. QED
      BY <1>f, <1>k, <3>1, <3>2
  <2>3. PICK q \in caught : IF file = NFiles[doc] THEN Settle(Got(Keep(FileOf(q))))
                                                  ELSE Advance(Keep(FileOf(q)))
    BY <1>3 DEF Save
  <2>q. QED
    BY <2>1, <2>2, <2>3
<1>4. CASE ClickTimesOut \/ StartTimesOut \/ TransferStalls
  BY <1>4, <1>r DEF ClickTimesOut, StartTimesOut, TransferStalls, Busy
<1>5. CASE NotRetried
  <2>1. Settle(Failed) /\ doc \in bugs'
    BY <1>5 DEF NotRetried
  <2>2. GivenUp' \subseteq GivenUp \cup {doc}
    BY <1>t, <2>1, GivenUpSettled
  <2>3. NothingGivenUpEarly'
    BY <1>g, <2>1, <2>2 DEF NothingGivenUpEarly
  <2>q. QED
    BY <1>f, <2>1, <2>3 DEF Settle
<1>6. CASE UNCHANGED vars
  BY <1>6, <1>t, <1>k DEF vars, GivenUp, TriedInv, Busy
<1>q. QED
  BY <1>1, <1>2, <1>3, <1>4, <1>5, <1>6 DEF Next, Step, Trouble

-----------------------------------------------------------------------------
LEMMA InitIInv == Init => IInv
<1> SUFFICES ASSUME Init PROVE IInv
  OBVIOUS
<1>a. /\ Documents \in Nat \ {0} /\ Attempts \in Nat \ {0} /\ MaxFaults \in Nat
  BY SizeAssumption, FaultAssumption
<1>1. TypeOK
  <2>1. Pending \in [kind : {"pending", "failed", "got"},
                     files : Seq({FileOf(q) : q \in Requests})]
    BY DEF Pending
  <2>2. result \in [1 .. Documents ->
          [kind : {"pending", "failed", "got"},
           files : Seq({FileOf(q) : q \in Requests})]]
    BY <2>1 DEF Init
  <2>3. saved \in Seq({FileOf(q) : q \in Requests})
    BY DEF Init
  <2>4. doc \in 1 .. Documents + 1 /\ file \in Nat \ {0} /\ attempt \in 1 .. Attempts
    BY <1>a DEF Init
  <2>5. /\ pc \in {"open", "click", "wait", "save", "end"} /\ coming = {}
        /\ caught = {} /\ late \in BOOLEAN /\ missed = {} /\ bugs = {}
    BY DEF Init
  <2>6. faults \in 0 .. MaxFaults
    BY <1>a DEF Init
  <2>q. QED
    BY <2>2, <2>3, <2>4, <2>5, <2>6 DEF TypeOK
<1>2. PlaceInv
  BY <1>a DEF Init, PlaceInv, Busy
<1>3. PunctualInv
  <2>1. saved = [n \in 1 .. file - 1 |-> <<doc, n>>]
    BY DEF Init
  <2>q. QED
    BY <2>1 DEF Init, PunctualInv
<1>4. OwnFiles
  BY DEF Init, OwnFiles, Pending
<1>5. TriedInv /\ NothingGivenUpEarly
  <2>1. GivenUp = {}
    BY DEF Init, GivenUp, Pending, Failed
  <2>q. QED
    BY <2>1 DEF Init, TriedInv, NothingGivenUpEarly, Busy
<1>q. QED
  BY <1>1, <1>2, <1>3, <1>4, <1>5 DEF IInv, Init

(* Every reachable state satisfies the inductive invariant: the loops over *)
(* documents, files and attempts of download_with_retries and              *)
(* _download_doc.                                                          *)
THEOREM DownloadInductive == Spec => []IInv
<1>1. IInv /\ [Next]_vars => IInv'
  BY TypePlaceStep, PunctualStep, TriedStep DEF IInv
<1>q. QED
  BY <1>1, InitIInv, PTL DEF Spec

(* The state of a collection's downloads has its type. *)
THEOREM DownloadTypes == Spec => []TypeOK
<1>1. IInv => TypeOK
  BY DEF IInv
<1>q. QED
  BY <1>1, DownloadInductive, PTL

(* A document that counts as downloaded has its own files, each once and in *)
(* order, as long as no wait for a download was abandoned (_fetch).         *)
THEOREM DownloadOwnFiles == Spec => []OwnFiles
<1>1. IInv => OwnFiles
  BY DEF IInv
<1>q. QED
  BY <1>1, DownloadInductive, PTL

(* A document is given up only when one of its own files failed in each of  *)
(* its attempts, or for an exception of its own that is not retried: a file *)
(* never pays for another one (download_with_retries).                      *)
THEOREM DownloadNotEarly == Spec => []NothingGivenUpEarly
<1>1. IInv => NothingGivenUpEarly
  BY DEF IInv
<1>q. QED
  BY <1>1, DownloadInductive, PTL

=============================================================================
