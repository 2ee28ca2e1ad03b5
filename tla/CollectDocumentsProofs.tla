----------------------- MODULE CollectDocumentsProofs -----------------------
(***************************************************************************)
(* Theorems about CollectDocuments, for every list, every grid geometry    *)
(* and every number of faults: what a collection reports adds up, stays    *)
(* within the limit, and is what Collection promises of it.                *)
(***************************************************************************)
EXTENDS CollectDocuments, FiniteSetTheorems, TLAPS

(* A button's rank is the number of a row of the list. *)
LEMMA RankIsRow ==
  ASSUME TypeOK, NEW r \in Rendered
  PROVE  Rank(r) \in Rows
<1> DEFINE Upto == {q \in Rendered : q <= r}
<1>1. total \in Nat /\ total <= MaxRows /\ MaxRows \in Nat
  BY ListAssumption DEF TypeOK, Rows
<1>2. IsFiniteSet(1 .. total) /\ Cardinality(1 .. total) = total
  BY <1>1, FS_Interval DEF TypeOK, Rows
<1>3. Upto \subseteq 1 .. total
  BY DEF Rendered
<1>4. IsFiniteSet(Upto) /\ Cardinality(Upto) <= total
  BY <1>2, <1>3, FS_Subset
<1>5. r \in Upto
  BY <1>1, GridAssumption DEF Rendered
<1>6. Cardinality(Upto) \in Nat /\ Cardinality(Upto) # 0
  BY <1>4, <1>5, FS_CardinalityType, FS_EmptySet
<1>q. QED
  BY <1>1, <1>4, <1>6 DEF Rank, Rows

(* Where a row of the list comes into view, the clip starts with a row. *)
LEMMA RevealIsRow ==
  ASSUME TypeOK, NEW r \in Rendered
  PROVE  r \in Rows /\ Reveal(r) \in Rows
  BY ListAssumption, GridAssumption DEF TypeOK, Rendered, Rows, Reveal

LEMMA ScrolledIsRow ==
  ASSUME TypeOK
  PROVE  Scrolled \in Rows
  BY ListAssumption, GridAssumption DEF TypeOK, Rows, Scrolled, LastTop

LEMMA InitIInv == Init => IInv
<1> SUFFICES ASSUME Init PROVE IInv
  OBVIOUS
<1>1. TypeOK
  <2>1. total \in Rows /\ limit \in Limits /\ top \in Rows
    BY ListAssumption DEF Init, Rows
  <2>2. docs \in Seq(Rows) /\ done \subseteq Docs /\ todo \subseteq Rows
    BY DEF Init
  <2>3. /\ modal \in 0 .. MaxRows /\ no_progress \in 0 .. MaxNoProgress
        /\ faults \in 0 .. MaxFaults /\ failed \in Nat /\ lost \in Nat
    BY ListAssumption, LoopAssumption DEF Init
  <2>q. QED
    BY <2>1, <2>2, <2>3 DEF Init, TypeOK
<1>2. Accounted /\ IsFiniteSet(done)
  BY FS_EmptySet DEF Init, Accounted, Delivered
<1>3. WithinLimit
  BY <1>1, ListAssumption DEF Init, TypeOK, WithinLimit
<1>q. QED
  BY <1>1, <1>2, <1>3 DEF Init, IInv, Within

(***************************************************************************)
(* Every step keeps the types.                                             *)
(***************************************************************************)
LEMMA TypeStep == IInv /\ [Next]_vars => TypeOK'
<1> SUFFICES ASSUME IInv, [Next]_vars PROVE TypeOK'
  OBVIOUS
<1>t. TypeOK
  BY DEF IInv
<1>f. \A k : Fault(k) => faults' \in 0 .. MaxFaults
  BY <1>t, LoopAssumption DEF TypeOK, Fault
<1>1. CASE OpenTab
  BY <1>1, <1>t DEF OpenTab, TypeOK, page, loop, result
<1>2. CASE NoRowsInTime
  BY <1>2, <1>t, <1>f DEF NoRowsInTime, TypeOK, page, loop, result
<1>3. CASE ListRows
  <2>1. todo' \subseteq Rows
    BY <1>3, <1>t, RankIsRow DEF ListRows
  <2>2. faults' \in 0 .. MaxFaults
    BY <1>3, <1>t, <1>f DEF ListRows, TypeOK
  <2>q. QED
    BY <1>3, <1>t, <2>1, <2>2 DEF ListRows, TypeOK, page, result
<1>4. CASE Finish
  BY <1>4, <1>t DEF Finish, TypeOK, page, loop, result
<1>5. CASE OpenModal
  <2>1. PICK r \in Reached :
          /\ modal' = r
          /\ top' = Reveal(r)
          /\ IF Seen(r)
               THEN pc' = "close" /\ UNCHANGED <<progressed, done>>
               ELSE /\ pc' = "download"
                    /\ progressed' = TRUE
                    /\ done' = done \cup {Doc[r]}
    BY <1>5 DEF OpenModal
  <2>2. r \in Rendered
    BY DEF Reached
  <2>3. r \in Rows /\ modal' \in 0 .. MaxRows /\ top' \in Rows
    BY <1>t, <2>1, <2>2, RevealIsRow, ListAssumption DEF Rows
  <2>4. done' \subseteq Docs
    BY <1>t, <2>1, <2>3 DEF TypeOK, Docs
  <2>5. progressed' \in BOOLEAN /\ pc' \in {"close", "download"}
    BY <1>t, <2>1 DEF TypeOK
  <2>q. QED
    BY <1>5, <1>t, <2>3, <2>4, <2>5 DEF OpenModal, TypeOK
<1>6. CASE OpenFails
  <2>1. modal' \in 0 .. MaxRows /\ top' \in Rows
    <3>1. CASE UNCHANGED <<modal, top>>
      BY <1>t, <3>1 DEF TypeOK
    <3>2. CASE \E r \in Reached : modal' = r /\ top' = Reveal(r)
      BY <1>t, <3>2, RevealIsRow, ListAssumption DEF Reached, Rows
    <3>3. CASE modal' = modal /\ \E r \in Reached : top' \in {top, Reveal(r)}
      BY <1>t, <3>3, RevealIsRow DEF Reached, TypeOK
    <3>q. QED
      BY <1>6, <3>1, <3>2, <3>3 DEF OpenFails
  <2>2. faults' \in 0 .. MaxFaults /\ lost' \in Nat
    BY <1>6, <1>t, <1>f DEF OpenFails, TypeOK
  <2>q. QED
    BY <1>6, <1>t, <2>1, <2>2 DEF OpenFails, TypeOK, result
<1>7. CASE Download
  <2>1. modal \in Rows
    BY <1>7 DEF Download, IInv
  <2>2. docs' \in Seq(Rows)
    BY <1>7, <1>t, <2>1 DEF Download, TypeOK
  <2>q. QED
    BY <1>7, <1>t, <2>2 DEF Download, TypeOK, page, loop
<1>8. CASE DownloadFails
  BY <1>8, <1>t, <1>f DEF DownloadFails, TypeOK, page, loop
<1>9. CASE CloseModal
  BY <1>9, <1>t, ListAssumption DEF CloseModal, TypeOK, loop, result
<1>10. CASE CurtainStays
  BY <1>10, <1>t, <1>f DEF CurtainStays, TypeOK, page, loop, result
<1>11. CASE CloseRaises
  BY <1>11, <1>t, <1>f DEF CloseRaises, TypeOK, page, loop, result
<1>12. CASE Scroll
  <2>1. top' \in Rows
    BY <1>12, <1>t, ScrolledIsRow DEF Scroll, TypeOK
  <2>2. no_progress' \in 0 .. MaxNoProgress
    BY <1>12, <1>t, LoopAssumption DEF Scroll, Count, IInv, Within, TypeOK
  <2>3. lost' \in Nat
    BY <1>12, <1>t DEF Scroll, TypeOK
  <2>q. QED
    BY <1>12, <1>t, <2>1, <2>2, <2>3 DEF Scroll, TypeOK, result
<1>13. CASE CurtainGoes
  BY <1>13, <1>t, ListAssumption DEF CurtainGoes, TypeOK, loop, result
<1>14. CASE ListRaises
  BY <1>14, <1>t, <1>f DEF ListRaises, TypeOK, page, loop, result
<1>15. CASE ScrollFails
  <2>1. no_progress' \in 0 .. MaxNoProgress
    BY <1>15, <1>t, LoopAssumption DEF ScrollFails, Count, IInv, Within, TypeOK
  <2>q. QED
    BY <1>15, <1>t, <1>f, <2>1 DEF ScrollFails, TypeOK, page, result
<1>16. CASE UNCHANGED vars
  BY <1>16, <1>t DEF vars, TypeOK
<1>q. QED
  BY <1>1, <1>2, <1>3, <1>4, <1>5, <1>6, <1>7, <1>8, <1>9, <1>10, <1>11,
     <1>12, <1>13, <1>14, <1>15, <1>16 DEF Next, Working, Failing

(***************************************************************************)
(* Every step keeps the accounts.                                          *)
(***************************************************************************)

(* A step that leaves the result alone and the downloading place alone. *)
LEMMA AccountsFrame ==
  ASSUME IInv, UNCHANGED <<result, limit>>,
         pc # "download", pc' # "download"
  PROVE  Accounted' /\ WithinLimit' /\ IsFiniteSet(done')
  BY DEF IInv, Accounted, WithinLimit, Delivered, result

LEMMA AccountsStep ==
  IInv /\ [Next]_vars => Accounted' /\ WithinLimit' /\ IsFiniteSet(done')
<1> SUFFICES ASSUME IInv, [Next]_vars
             PROVE  Accounted' /\ WithinLimit' /\ IsFiniteSet(done')
  OBVIOUS
<1>t. TypeOK /\ Accounted /\ WithinLimit /\ IsFiniteSet(done)
  BY DEF IInv
<1>n. /\ Len(docs) \in Nat /\ failed \in Nat /\ limit \in Nat
      /\ Cardinality(done) \in Nat
  BY <1>t, ListAssumption, FS_CardinalityType DEF TypeOK
<1>1. CASE OpenTab \/ NoRowsInTime \/ ListRows \/ ListRaises \/ Finish
  BY <1>1, AccountsFrame
     DEF OpenTab, NoRowsInTime, ListRows, ListRaises, Finish, page, result
<1>2. CASE OpenModal
  <2>1. PICK r \in Reached :
          IF Seen(r)
            THEN pc' = "close" /\ UNCHANGED <<progressed, done>>
            ELSE /\ pc' = "download"
                 /\ progressed' = TRUE
                 /\ done' = done \cup {Doc[r]}
    BY <1>2 DEF OpenModal
  <2>2. UNCHANGED <<limit, docs, failed>> /\ pc = "row" /\ Wanted
    BY <1>2 DEF OpenModal
  <2>3. CASE Seen(r)
    BY <2>1, <2>2, <2>3, AccountsFrame DEF result
  <2>4. CASE ~Seen(r)
    <3>1. Doc[r] \notin done /\ done' = done \cup {Doc[r]} /\ pc' = "download"
      BY <2>1, <2>4 DEF Seen
    <3>2. IsFiniteSet(done') /\ Cardinality(done') = Cardinality(done) + 1
      BY <1>t, <3>1, FS_AddElement
    <3>3. Cardinality(done) = Len(docs) + failed
      BY <1>t, <1>n, <2>2 DEF Accounted
    <3>4. Cardinality(done') = Len(docs') + failed' + 1
      BY <1>n, <2>2, <3>2, <3>3
    <3>5. Accounted'
      BY <1>t, <2>2, <3>1, <3>4 DEF Accounted, Delivered
    <3>q. QED
      BY <1>t, <2>2, <3>2, <3>5 DEF WithinLimit
  <2>q. QED
    BY <2>3, <2>4
<1>3. CASE OpenFails
  BY <1>3, AccountsFrame DEF OpenFails
<1>4. CASE Download
  <2>1. /\ Doc[modal] \in done \ Delivered /\ modal \in Rows
        /\ Wanted /\ pc = "download"
    BY <1>4 DEF Download, IInv
  <2>2. /\ docs' = Append(docs, modal) /\ pc' = "close"
        /\ UNCHANGED <<limit, done, failed>>
    BY <1>4 DEF Download, page
  <2>3. /\ docs \in Seq(Rows) /\ Len(docs') = Len(docs) + 1
        /\ docs'[Len(docs) + 1] = modal
        /\ \A n \in 1 .. Len(docs) : docs'[n] = docs[n]
    BY <1>t, <2>1, <2>2 DEF TypeOK
  <2>4. \A n \in 1 .. Len(docs) : Doc[docs[n]] # Doc[modal]
    BY <2>1 DEF Delivered
  <2>5. \A n, k \in 1 .. Len(docs') : Doc[docs'[n]] = Doc[docs'[k]] => n = k
    <3> SUFFICES ASSUME NEW n \in 1 .. Len(docs'), NEW k \in 1 .. Len(docs'),
                        Doc[docs'[n]] = Doc[docs'[k]]
                 PROVE  n = k
      OBVIOUS
    <3>1. n \in 1 .. Len(docs) \/ n = Len(docs) + 1
      BY <1>n, <2>3
    <3>2. k \in 1 .. Len(docs) \/ k = Len(docs) + 1
      BY <1>n, <2>3
    <3>q. QED
      BY <1>t, <2>3, <2>4, <3>1, <3>2 DEF Accounted
  <2>6. Delivered' \subseteq done'
    <3> SUFFICES ASSUME NEW n \in 1 .. Len(docs') PROVE Doc[docs'[n]] \in done
      BY <2>2 DEF Delivered
    <3>1. n \in 1 .. Len(docs) \/ n = Len(docs) + 1
      BY <1>n, <2>3
    <3>2. CASE n \in 1 .. Len(docs)
      BY <1>t, <2>3, <3>2 DEF Accounted, Delivered
    <3>q. QED
      BY <2>1, <2>3, <3>1, <3>2
  <2>7. Cardinality(done') = Len(docs') + failed'
    BY <1>t, <1>n, <2>1, <2>2, <2>3 DEF Accounted
  <2>8. Accounted'
    BY <1>n, <2>2, <2>3, <2>5, <2>6, <2>7 DEF Accounted, TypeOK
  <2>9. WithinLimit'
    BY <1>n, <2>1, <2>2, <2>3 DEF Wanted, WithinLimit
  <2>q. QED
    BY <1>t, <2>2, <2>8, <2>9
<1>5. CASE DownloadFails
  <2>1. /\ pc = "download" /\ pc' = "close" /\ failed' = failed + 1
        /\ UNCHANGED <<limit, done, docs>>
    BY <1>5 DEF DownloadFails, page
  <2>2. Cardinality(done) = Len(docs) + failed'
    BY <1>t, <1>n, <2>1 DEF Accounted
  <2>3. Accounted'
    BY <1>t, <1>n, <2>1, <2>2 DEF Accounted, Delivered
  <2>q. QED
    BY <1>t, <2>1, <2>3 DEF WithinLimit
<1>6. CASE CloseModal \/ CurtainStays \/ CloseRaises
  BY <1>6, AccountsFrame DEF CloseModal, CurtainStays, CloseRaises, page
<1>7. CASE Scroll \/ ScrollFails \/ CurtainGoes
  BY <1>7, AccountsFrame DEF Scroll, ScrollFails, CurtainGoes, page
<1>8. CASE UNCHANGED vars
  BY <1>t, <1>8 DEF vars, Accounted, WithinLimit, Delivered
<1>q. QED
  BY <1>1, <1>2, <1>3, <1>4, <1>5, <1>6, <1>7, <1>8 DEF Next, Working, Failing

(* Within a pass the loop's bound is not reached yet, and a download is of  *)
(* a document that is marked, not delivered, and still wanted.              *)
LEMMA PassStep ==
  IInv /\ [Next]_vars =>
    /\ (Within => no_progress < MaxNoProgress)'
    /\ (pc = "download" =>
          modal \in Rows /\ Doc[modal] \in done \ Delivered /\ Wanted)'
<1> SUFFICES ASSUME IInv, [Next]_vars
             PROVE  /\ (Within => no_progress < MaxNoProgress)'
                    /\ (pc = "download" => modal \in Rows
                          /\ Doc[modal] \in done \ Delivered /\ Wanted)'
  OBVIOUS
<1>1. CASE OpenModal
  <2>1. PICK r \in Reached :
          /\ modal' = r
          /\ IF Seen(r)
               THEN pc' = "close" /\ UNCHANGED <<progressed, done>>
               ELSE /\ pc' = "download"
                    /\ progressed' = TRUE
                    /\ done' = done \cup {Doc[r]}
    BY <1>1 DEF OpenModal
  <2>2. r \in Rows
    BY RevealIsRow DEF Reached, IInv
  <2>3. UNCHANGED <<no_progress, docs, limit>> /\ pc = "row" /\ Wanted
    BY <1>1 DEF OpenModal
  <2>4. Wanted' /\ Delivered' = Delivered
    BY <2>3 DEF Wanted, Delivered
  <2>5. ~Seen(r) => Doc[r] \in done' \ Delivered
    BY <2>1 DEF Seen, IInv, Accounted
  <2>q. QED
    BY <2>1, <2>2, <2>3, <2>4, <2>5 DEF IInv, Within
<1>2. CASE ListRows
  BY <1>2 DEF ListRows, IInv, Within
<1>3. CASE OpenTab \/ NoRowsInTime \/ ListRaises \/ Finish \/ Scroll \/ ScrollFails
  BY <1>3 DEF OpenTab, NoRowsInTime, ListRaises, Finish, Scroll, ScrollFails, Within
<1>4. CASE OpenFails \/ Download \/ DownloadFails
  BY <1>4 DEF OpenFails, Download, DownloadFails, IInv, Within, loop
<1>5. CASE CloseModal \/ CurtainStays \/ CloseRaises \/ CurtainGoes
  BY <1>5 DEF CloseModal, CurtainStays, CloseRaises, CurtainGoes, IInv, Within, loop
<1>6. CASE UNCHANGED vars
  BY <1>6 DEF vars, IInv, Within, Delivered, Wanted
<1>q. QED
  BY <1>1, <1>2, <1>3, <1>4, <1>5, <1>6 DEF Next, Working, Failing

(* The inductive invariant holds of every collection. *)
THEOREM CollectInductive == Spec => []IInv
<1>1. IInv /\ [Next]_vars => IInv'
  BY TypeStep, AccountsStep, PassStep DEF IInv
<1>q. QED
  BY InitIInv, <1>1, PTL DEF Spec

(* Type correctness of the collection loop and its page (collect_documents, *)
(* scraper.py:105).                                                         *)
THEOREM CollectTypes == Spec => []TypeOK
<1>1. IInv => TypeOK
  BY DEF IInv
<1>q. QED
  BY CollectInductive, <1>1, PTL

(* No document is delivered twice and every document seen is accounted for, *)
(* however the passes overlap (the done set of collect_documents).          *)
THEOREM CollectAccounts == Spec => []Accounted
<1>1. IInv => Accounted
  BY DEF IInv
<1>q. QED
  BY CollectInductive, <1>1, PTL

(* A collection never exceeds its limit (the two tests of len(docs) in      *)
(* collect_documents).                                                      *)
THEOREM CollectLimit == Spec => []WithinLimit
<1>1. IInv => WithinLimit
  BY DEF IInv
<1>q. QED
  BY CollectInductive, <1>1, PTL

(***************************************************************************)
(* The collection implements what its caller is promised.                  *)
(***************************************************************************)
LEMMA TellsStep == IInv /\ TellsInv /\ [Next]_vars => TellsInv'
<1> SUFFICES ASSUME IInv, TellsInv, [Next]_vars PROVE TellsInv'
  OBVIOUS
<1>1. CASE Working
  <2>1. CASE OpenTab \/ ListRows \/ Finish \/ Download \/ CloseModal
    BY <2>1 DEF OpenTab, ListRows, Finish, Download, CloseModal, TellsInv, page,
                loop, result
  <2>2. CASE OpenModal
    <3>1. pc' \in {"close", "download"}
      BY <2>2 DEF OpenModal
    <3>q. QED
      BY <3>1 DEF TellsInv
  <2>3. CASE Scroll
    BY <2>3 DEF Scroll, Count, TellsInv
  <2>q. QED
    BY <1>1, <2>1, <2>2, <2>3 DEF Working
<1>2. CASE Failing
  BY <1>2 DEF Failing, TellsInv, NoRowsInTime, ListRaises, OpenFails, DownloadFails,
              CurtainStays, CloseRaises, ScrollFails, Count, page, loop, result
<1>3. CASE CurtainGoes \/ UNCHANGED vars
  BY <1>3 DEF TellsInv, CurtainGoes, vars, loop, result
<1>q. QED
  BY <1>1, <1>2, <1>3 DEF Next

LEMMA TellsAlways == Spec => []TellsInv
<1>1. Init => TellsInv
  BY DEF Init, TellsInv
<1>q. QED
  BY <1>1, TellsStep, CollectInductive, PTL DEF Spec

(* One more delivery appends one document to what the caller sees. *)
LEMMA DeliveredNext ==
  ASSUME TypeOK, NEW r \in Rows, docs' = Append(docs, r)
  PROVE  DeliveredInOrder' = Append(DeliveredInOrder, Doc[r])
<1>1. /\ docs \in Seq(Rows) /\ Len(docs) \in Nat /\ Len(docs') = Len(docs) + 1
      /\ docs'[Len(docs) + 1] = r
      /\ \A n \in 1 .. Len(docs) : docs'[n] = docs[n]
  BY DEF TypeOK
<1>2. /\ DeliveredInOrder \in Seq(Docs) /\ Len(DeliveredInOrder) = Len(docs)
      /\ Doc[r] \in Docs
  BY <1>1 DEF DeliveredInOrder, Docs
<1> DEFINE Added == Append(DeliveredInOrder, Doc[r])
<1>3. /\ Added \in Seq(Docs) /\ Len(Added) = Len(docs) + 1
      /\ Added[Len(docs) + 1] = Doc[r]
      /\ \A n \in 1 .. Len(docs) : Added[n] = DeliveredInOrder[n]
  BY <1>1, <1>2
<1>4. \A n \in 1 .. Len(docs) + 1 : Added[n] = Doc[docs'[n]]
  <2> SUFFICES ASSUME NEW n \in 1 .. Len(docs) + 1 PROVE Added[n] = Doc[docs'[n]]
    OBVIOUS
  <2>1. n \in 1 .. Len(docs) \/ n = Len(docs) + 1
    BY <1>1
  <2>q. QED
    BY <1>1, <1>3, <2>1 DEF DeliveredInOrder
<1>5. Added = [n \in 1 .. Len(docs) + 1 |-> Added[n]]
  BY <1>1, <1>3
<1>q. QED
  BY <1>1, <1>4, <1>5 DEF DeliveredInOrder

LEMMA CallerInit == Init => Caller!Init
<1> SUFFICES ASSUME Init PROVE Caller!Init
  OBVIOUS
<1>1. DeliveredInOrder = <<>>
  BY DEF Init, DeliveredInOrder
<1>q. QED
  BY <1>1 DEF Init, Caller!Init, Idle, State

(* What the caller sees of a step that only moves the page. *)
LEMMA CallerStutters ==
  ASSUME UNCHANGED <<limit, result>>, Idle' = Idle, State' = State,
         pc # "download", pc' # "download"
  PROVE  UNCHANGED Caller!vars
<1>1. DeliveredInOrder' = DeliveredInOrder
  BY DEF DeliveredInOrder, result
<1>q. QED
  BY <1>1 DEF Caller!vars, result

LEMMA CallerStep ==
  IInv /\ TellsInv /\ [Next]_vars => [Caller!Next]_(Caller!vars)
<1> SUFFICES ASSUME IInv, TellsInv, [Next]_vars
             PROVE  Caller!Next \/ UNCHANGED Caller!vars
  BY DEF Caller!vars
<1>t. TypeOK /\ Accounted /\ WithinLimit
  BY DEF IInv
<1>n. /\ Len(docs) \in Nat /\ limit \in Nat /\ no_progress \in Nat
      /\ MaxNoProgress \in Nat \ {0}
  BY <1>t, ListAssumption, LoopAssumption DEF TypeOK
<1>l. DeliveredInOrder \in Seq(Docs) /\ Len(DeliveredInOrder) = Len(docs)
  BY <1>t DEF TypeOK, DeliveredInOrder, Docs
<1>1. CASE OpenTab \/ ListRows
  BY <1>1, CallerStutters
     DEF OpenTab, ListRows, TellsInv, Idle, State, page, loop, result
<1>2. CASE OpenFails \/ CloseModal \/ CurtainStays \/ CurtainGoes
  BY <1>2, CallerStutters
     DEF OpenFails, CloseModal, CurtainStays, CurtainGoes, Idle, State, page, loop,
         result
<1>3. CASE Finish
  <2>1. /\ pc \in {"list", "row"} /\ pc' = "end"
        /\ UNCHANGED <<limit, progressed, no_progress, done, docs, failed>>
    BY <1>3 DEF Finish, page, loop, result
  <2>2. CASE ~Wanted
    <3>1. Len(DeliveredInOrder) = limit
      BY <1>t, <1>n, <1>l, <2>2 DEF Wanted, WithinLimit
    <3>q. QED
      BY <2>1, <3>1 DEF Caller!Next, Caller!Return, Caller!result, State, Idle,
                        DeliveredInOrder
  <2>3. CASE Wanted
    <3>1. pc = "list" /\ ~(no_progress < MaxNoProgress)
      BY <1>3, <2>3 DEF Finish
    <3>2. no_progress = MaxNoProgress /\ no_progress # 0
      BY <1>t, <1>n, <3>1 DEF TypeOK
    <3>3. Idle = MaxNoProgress
      BY <3>1, <3>2 DEF TellsInv, Idle
    <3>q. QED
      BY <2>1, <3>3 DEF Caller!Next, Caller!Return, Caller!result, State, Idle,
                        DeliveredInOrder
  <2>q. QED
    BY <2>2, <2>3
<1>4. CASE NoRowsInTime
  BY <1>4 DEF NoRowsInTime, TellsInv, Caller!Next, Caller!Return, Caller!Raise,
              Caller!result, State, Idle, DeliveredInOrder, page, loop, result
<1>5. CASE CloseRaises \/ ListRaises
  BY <1>5 DEF CloseRaises, ListRaises, Caller!Next, Caller!Raise, Caller!result, State, Idle,
              DeliveredInOrder, page, loop, result
<1>6. CASE OpenModal
  <2>1. PICK r \in Reached :
          /\ modal' = r
          /\ IF Seen(r)
               THEN pc' = "close" /\ UNCHANGED <<progressed, done>>
               ELSE /\ pc' = "download"
                    /\ progressed' = TRUE
                    /\ done' = done \cup {Doc[r]}
    BY <1>6 DEF OpenModal
  <2>2. /\ UNCHANGED <<limit, no_progress, docs, failed>> /\ pc = "row"
        /\ Len(docs) < limit
    BY <1>6 DEF OpenModal, Wanted
  <2>3. CASE Seen(r)
    BY <2>1, <2>2, <2>3, CallerStutters DEF Idle, State, result
  <2>4. CASE ~Seen(r)
    <3>1. Doc[r] \in Docs
      BY <1>t, RevealIsRow DEF Reached, Docs
    <3>2. Caller!TakeUp(Doc[r])
      BY <1>l, <2>1, <2>2, <2>4
         DEF Seen, Caller!TakeUp, State, Idle, DeliveredInOrder
    <3>q. QED
      BY <3>1, <3>2 DEF Caller!Next
  <2>q. QED
    BY <2>3, <2>4
<1>7. CASE Download
  <2>1. /\ modal \in Rows /\ pc = "download" /\ pc' = "close"
        /\ docs' = Append(docs, modal)
        /\ UNCHANGED <<limit, progressed, no_progress, done, failed>>
    BY <1>7 DEF Download, IInv, page, loop
  <2>2. DeliveredInOrder' = Append(DeliveredInOrder, Doc[modal])
    BY <1>t, <2>1, DeliveredNext
  <2>3. Caller!Deliver(Doc[modal])
    BY <2>1, <2>2 DEF Caller!Deliver, State, Idle
  <2>q. QED
    BY <2>1, <2>3 DEF Caller!Next, Docs
<1>8. CASE DownloadFails
  BY <1>8 DEF DownloadFails, Caller!Next, Caller!GiveUp, State, Idle,
              DeliveredInOrder, page, loop
<1>9. CASE Scroll \/ ScrollFails
  <2>1. /\ pc = "row" /\ pc' = "list" /\ Len(docs) < limit /\ no_progress' = Count
        /\ UNCHANGED <<limit, progressed, done, docs, failed>>
    BY <1>9 DEF Scroll, ScrollFails, Wanted, page, result
  <2>2. CASE progressed
    BY <2>1, <2>2, CallerStutters DEF Idle, State, result
  <2>3. CASE ~progressed
    <3>1. no_progress < MaxNoProgress
      BY <2>1 DEF IInv, Within
    <3>2. Idle = no_progress /\ Idle' = no_progress + 1
      BY <2>1, <2>3 DEF Idle, Count
    <3>3. Caller!IdlePass
      BY <1>l, <2>1, <3>1, <3>2
         DEF Caller!IdlePass, Caller!result, State, DeliveredInOrder
    <3>q. QED
      BY <3>3 DEF Caller!Next
  <2>q. QED
    BY <2>2, <2>3
<1>10. CASE UNCHANGED vars
  BY <1>10 DEF vars, Caller!vars, Idle, State, DeliveredInOrder
<1>q. QED
  BY <1>1, <1>2, <1>3, <1>4, <1>5, <1>6, <1>7, <1>8, <1>9, <1>10
     DEF Next, Working, Failing

(* The loop over the page implements what its caller is promised: each       *)
(* document decided once, a failed one not tried again, and no collection    *)
(* ended by failures (collect_documents, scraper.py:116-121).                *)
THEOREM CollectDecidesOnce == Spec => DecidedOnce
<1>1. IInv /\ TellsInv /\ [Next]_vars => [Caller!Next]_(Caller!vars)
  BY CallerStep
<1>q. QED
  BY CallerInit, <1>1, CollectInductive, TellsAlways, PTL
     DEF Spec, DecidedOnce, Caller!Spec

=============================================================================
