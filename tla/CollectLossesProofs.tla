------------------------ MODULE CollectLossesProofs ------------------------
(***************************************************************************)
(* What a collection loses: where every rank that goes stale within a pass *)
(* names a row the next clip shows, each fault of the page costs the       *)
(* collection of a quiet list at most one document.  For every list, grid  *)
(* and number of faults, the rows rendered below the clip included, whose  *)
(* clicks make the ranks of a pass stale.                                  *)
(***************************************************************************)
EXTENDS CollectDocumentsProofs

-----------------------------------------------------------------------------
(* The documents of a prefix of the list. *)

LEMMA RangeOfRows ==
  ASSUME NEW a \in Nat, NEW b \in Nat, a <= b + 1
  PROVE  /\ IsFiniteSet({Doc[r] : r \in a .. b})
         /\ Cardinality({Doc[r] : r \in a .. b}) \in Nat
         /\ Cardinality({Doc[r] : r \in a .. b}) <= b + 1 - a
<1> DEFINE named == {Doc[r] : r \in a .. b}
           f == [r \in a .. b |-> Doc[r]]
<1>1. f \in Surjection(a .. b, named)
  BY DEF Surjection
<1>2. IsFiniteSet(a .. b) /\ Cardinality(a .. b) = b + 1 - a
  BY FS_Interval
<1> HIDE DEF named, f
<1>3. IsFiniteSet(named) /\ Cardinality(named) <= Cardinality(a .. b)
  BY <1>1, <1>2, FS_Surjection
<1>4. Cardinality(named) \in Nat
  BY <1>3, FS_CardinalityType
<1>q. QED
  BY <1>2, <1>3, <1>4 DEF named

LEMMA DocsFinite ==
  ASSUME NEW F \in Nat
  PROVE  /\ IsFiniteSet(DocsUpTo(F))
         /\ Cardinality(DocsUpTo(F)) \in Nat
         /\ Cardinality(DocsUpTo(F)) <= F
<1>1. 1 \in Nat /\ 1 <= F + 1 /\ F + 1 - 1 = F
  OBVIOUS
<1>2. /\ IsFiniteSet({Doc[r] : r \in 1 .. F})
      /\ Cardinality({Doc[r] : r \in 1 .. F}) \in Nat
      /\ Cardinality({Doc[r] : r \in 1 .. F}) <= F + 1 - 1
  BY <1>1, RangeOfRows
<1>q. QED
  BY <1>1, <1>2 DEF DocsUpTo

(* One more row names one more document, or repeats one. *)
LEMMA DocsNext ==
  ASSUME NEW F \in Nat
  PROVE  /\ DocsUpTo(F + 1) = DocsUpTo(F) \cup {Doc[F + 1]}
         /\ Cardinality(DocsUpTo(F + 1)) <= Cardinality(DocsUpTo(F)) + 1
         /\ Doc[F + 1] \in DocsUpTo(F) =>
              Cardinality(DocsUpTo(F + 1)) = Cardinality(DocsUpTo(F))
<1>1. DocsUpTo(F + 1) = DocsUpTo(F) \cup {Doc[F + 1]}
  <2>1. 1 .. F + 1 = (1 .. F) \cup {F + 1}
    OBVIOUS
  <2>q. QED
    BY <2>1 DEF DocsUpTo
<1>2. IsFiniteSet(DocsUpTo(F)) /\ Cardinality(DocsUpTo(F)) \in Nat
  BY DocsFinite
<1>q. QED
  BY <1>1, <1>2, FS_AddElement

(* The rows after F name at most as many documents as they are. *)
LEMMA DocsRest ==
  ASSUME NEW F \in Nat, NEW n \in Nat, F <= n
  PROVE  Cardinality(DocsUpTo(n)) <= Cardinality(DocsUpTo(F)) + (n - F)
<1> DEFINE rest == {Doc[r] : r \in F + 1 .. n}
<1>1. IsFiniteSet(rest) /\ Cardinality(rest) \in Nat /\ Cardinality(rest) <= n - F
  BY RangeOfRows
<1>2. IsFiniteSet(DocsUpTo(F)) /\ Cardinality(DocsUpTo(F)) \in Nat
  BY DocsFinite
<1>3. DocsUpTo(n) = DocsUpTo(F) \cup rest
  <2>1. 1 .. n = (1 .. F) \cup (F + 1 .. n)
    OBVIOUS
  <2>q. QED
    BY <2>1 DEF DocsUpTo
<1> HIDE DEF rest
<1>4. /\ IsFiniteSet(DocsUpTo(F) \cap rest)
      /\ Cardinality(DocsUpTo(F) \cap rest) \in Nat
  BY <1>2, FS_Intersection, FS_CardinalityType
<1>5. Cardinality(DocsUpTo(F) \cup rest) =
        Cardinality(DocsUpTo(F)) + Cardinality(rest)
          - Cardinality(DocsUpTo(F) \cap rest)
  BY <1>1, <1>2, FS_Union
<1>q. QED
  BY <1>1, <1>2, <1>3, <1>4, <1>5

(* The rows that repeat a document are counted along the list. *)
LEMMA RepeatedNat ==
  ASSUME NEW F \in Nat
  PROVE  Repeated(F) \in Nat
  BY DocsFinite DEF Repeated

LEMMA RepeatedGrows ==
  ASSUME NEW F \in Nat, NEW n \in Nat, F <= n
  PROVE  Repeated(F) <= Repeated(n)
<1>1. /\ Cardinality(DocsUpTo(F)) \in Nat /\ Cardinality(DocsUpTo(n)) \in Nat
      /\ Cardinality(DocsUpTo(n)) <= Cardinality(DocsUpTo(F)) + (n - F)
  BY DocsFinite, DocsRest
<1>q. QED
  BY <1>1 DEF Repeated

LEMMA RepeatedNext ==
  ASSUME NEW F \in Nat
  PROVE  IF Doc[F + 1] \in DocsUpTo(F)
           THEN DocsUpTo(F + 1) = DocsUpTo(F) /\ Repeated(F + 1) = Repeated(F) + 1
           ELSE Repeated(F + 1) = Repeated(F)
<1>1. /\ DocsUpTo(F + 1) = DocsUpTo(F) \cup {Doc[F + 1]}
      /\ IsFiniteSet(DocsUpTo(F)) /\ Cardinality(DocsUpTo(F)) \in Nat
  BY DocsFinite, DocsNext
<1>2. Cardinality(DocsUpTo(F + 1)) = IF Doc[F + 1] \in DocsUpTo(F)
                                       THEN Cardinality(DocsUpTo(F))
                                       ELSE Cardinality(DocsUpTo(F)) + 1
  BY <1>1, FS_AddElement
<1>q. QED
  BY <1>1, <1>2 DEF Repeated

-----------------------------------------------------------------------------
(* The grid. *)

LEMMA Numbers ==
  ASSUME TypeOK
  PROVE  /\ top \in Nat /\ top >= 1 /\ total \in Nat /\ total >= 1
         /\ Window \in Nat /\ Window >= 1 /\ Above \in Nat /\ Below \in Nat
         /\ Step \in Nat /\ Step >= 1 /\ Step <= Window
         /\ no_progress \in Nat /\ lost \in Nat /\ faults \in Nat
         /\ LastTop \in Nat /\ LastTop >= 1 /\ LastTop <= total
         /\ \A t \in Nat : t >= 1 => (t < LastTop <=> t + Window <= total)
<1>1. /\ top \in Nat /\ top >= 1 /\ total \in Nat /\ total >= 1
      /\ Window \in Nat /\ Window >= 1 /\ Above \in Nat /\ Below \in Nat
      /\ Step \in Nat /\ Step >= 1 /\ Step <= Window
      /\ no_progress \in Nat /\ lost \in Nat /\ faults \in Nat
  BY ListAssumption, GridAssumption, LoopAssumption DEF TypeOK, Rows
<1>q. QED
  BY <1>1 DEF LastTop

(* The rows rendered with the clip at row t. *)
LEMMA RenderedAt ==
  ASSUME TypeOK, NEW t \in Nat, t >= 1, t <= LastTop
  PROVE  /\ FirstAt(t) \in Nat /\ FirstAt(t) >= 1 /\ FirstAt(t) <= t
         /\ LastAt(t) \in Nat /\ LastAt(t) <= total /\ t <= LastAt(t)
         /\ LastAt(t) < t + Window + Below
         /\ t < LastTop => t + Window <= LastAt(t) + 1
         /\ t = LastTop => LastAt(t) = total /\ total < t + Window
  BY Numbers DEF FirstAt, LastAt, LastTop

LEMMA RenderedRange ==
  ASSUME TypeOK, top <= LastTop
  PROVE  Rendered = FirstAt(top) .. LastAt(top)
<1>1. /\ top \in Nat /\ top >= 1 /\ total \in Nat
      /\ Window \in Nat /\ Above \in Nat /\ Below \in Nat
  BY Numbers
<1>2. \A r \in Nat : r >= FirstAt(top) <=> r >= 1 /\ top <= r + Above
  BY <1>1 DEF FirstAt
<1>3. \A r \in Nat : r <= LastAt(top) <=> r <= total /\ r < top + Window + Below
  BY <1>1 DEF LastAt
<1>4. FirstAt(top) \in Nat /\ FirstAt(top) >= 1 /\ LastAt(top) \in Nat
  BY <1>1, RenderedAt
<1>5. \A r : r \in Rendered <=> r \in FirstAt(top) .. LastAt(top)
  BY <1>1, <1>2, <1>3, <1>4 DEF Rendered
<1>q. QED
  BY <1>5

LEMMA RankOf ==
  ASSUME TypeOK, top <= LastTop, NEW r \in Rendered
  PROVE  Rank(r) = r + 1 - FirstAt(top)
<1>1. /\ FirstAt(top) \in Nat /\ LastAt(top) \in Nat
      /\ Rendered = FirstAt(top) .. LastAt(top)
  BY RenderedRange, RenderedAt, Numbers
<1>2. {q \in Rendered : q <= r} = FirstAt(top) .. r
  BY <1>1
<1>3. Cardinality(FirstAt(top) .. r) = r + 1 - FirstAt(top)
  BY <1>1, FS_Interval
<1>q. QED
  BY <1>2, <1>3 DEF Rank

(* Of a pass that began with the clip at row t and tries the rank of row c, *)
(* the ranks from row c + 1 on are left; and as the clip moved on since,    *)
(* the rank may reach a row as much further down.                           *)
LEMMA NextOf ==
  ASSUME TypeOK, top <= LastTop, NEW t \in Nat, t >= 1, t <= top,
         NEW c \in FirstAt(t) .. LastAt(t),
         todo = {r + 1 - FirstAt(t) : r \in c .. LastAt(t)}
  PROVE  /\ todo \ {NextRank} = {r + 1 - FirstAt(t) : r \in c + 1 .. LastAt(t)}
         /\ \A r \in Reached : /\ r \in Nat /\ r >= top /\ r >= c
                              /\ r <= c + (top - t)
                              /\ r <= total /\ r >= 1
         /\ t = top /\ modal = 0 /\ Reached = {} => c < top
<1>1. /\ top \in Nat /\ top >= 1 /\ LastTop \in Nat /\ Above \in Nat
      /\ FirstAt(t) \in Nat /\ LastAt(t) \in Nat /\ total \in Nat
      /\ FirstAt(top) \in Nat /\ FirstAt(top) >= 1
      /\ LastAt(top) \in Nat /\ LastAt(top) <= total
      /\ Rendered = FirstAt(top) .. LastAt(top)
      /\ c \in Nat /\ c <= LastAt(t)
  <2>1. top \in Nat /\ top >= 1 /\ LastTop \in Nat /\ Above \in Nat /\ t <= LastTop
    BY Numbers
  <2>2. /\ FirstAt(t) \in Nat /\ LastAt(t) \in Nat
        /\ FirstAt(top) \in Nat /\ FirstAt(top) >= 1
        /\ LastAt(top) \in Nat /\ LastAt(top) <= total /\ total \in Nat
    BY <2>1, Numbers, RenderedAt
  <2>3. Rendered = FirstAt(top) .. LastAt(top)
    BY RenderedRange
  <2>4. c \in Nat /\ c <= LastAt(t)
    BY <2>2
  <2>q. QED
    BY <2>1, <2>2, <2>3, <2>4
<1>2. FirstAt(top) >= FirstAt(t) /\ FirstAt(top) - FirstAt(t) <= top - t
  BY <1>1 DEF FirstAt
<1> DEFINE first == FirstAt(t)
           last == LastAt(t)
<1>3. first \in Nat /\ last \in Nat /\ c <= last /\ c >= first
  BY <1>1
<1>4. NextRank = c + 1 - first
  <2>1. todo = {r + 1 - first : r \in c .. last}
    OBVIOUS
  <2> HIDE DEF first, last
  <2>2. /\ first \in Nat /\ last \in Nat /\ c \in Nat /\ c <= last
        /\ \A i : i \in todo <=> \E r \in c .. last : i = r + 1 - first
    BY <1>1, <1>3, <2>1
  <2>3. c \in c .. last
    BY <2>2
  <2>4. c + 1 - first \in todo
    BY <2>2, <2>3
  <2>5. \A i \in todo : i \in Int /\ c + 1 - first <= i
    BY <2>2
  <2>6. NextRank \in todo /\ \A j \in todo : NextRank <= j
    BY <2>4, <2>5 DEF NextRank
  <2>q. QED
    BY <2>2, <2>4, <2>5, <2>6
<1>5. todo \ {NextRank} = {r + 1 - first : r \in c + 1 .. last}
  <2>1. todo = {r + 1 - first : r \in c .. last}
    OBVIOUS
  <2> HIDE DEF first, last
  <2>2. \A r : r \in c .. last <=> r = c \/ r \in c + 1 .. last
    BY <1>1, <1>3
  <2>3. \A r \in c + 1 .. last : r + 1 - first # c + 1 - first
    BY <1>1, <1>3
  <2>q. QED
    BY <1>4, <2>1, <2>2, <2>3
<1>6. ASSUME NEW r \in Reached
      PROVE  /\ r \in Nat /\ r >= top /\ r >= c /\ r <= c + (top - t)
             /\ r <= total /\ r >= 1
  <2>1. r \in Rendered /\ Rank(r) = NextRank /\ ~BehindBanner(r)
    BY DEF Reached
  <2>2. r \in Nat /\ r >= 1 /\ r <= total /\ r >= top
    BY <1>1, <2>1 DEF BehindBanner
  <2>3. r + 1 - FirstAt(top) = c + 1 - FirstAt(t)
    BY <1>4, <2>1, RankOf
  <2>q. QED
    BY <1>1, <1>2, <2>2, <2>3
<1>7. ASSUME t = top, modal = 0, c >= top
      PROVE  c \in Reached
  <2>1. c \in Rendered /\ Rank(c) = c + 1 - FirstAt(top)
    BY <1>1, <1>7, RankOf
  <2>q. QED
    BY <1>1, <1>4, <1>7, <2>1 DEF Reached, BehindBanner
<1>8. t = top /\ modal = 0 /\ Reached = {} => c < top
  BY <1>1, <1>7
<1>q. QED
  BY <1>5, <1>6, <1>8

(* A row below the clip becomes the last row of the clip. *)
LEMMA RevealAt ==
  ASSUME TypeOK, top <= LastTop, NEW r \in Nat, r >= top, r <= total
  PROVE  /\ Reveal(r) \in Nat /\ Reveal(r) >= top /\ Reveal(r) <= LastTop
         /\ r < Reveal(r) + Window
         /\ r < top + Window => Reveal(r) = top
         /\ r >= top + Window => Reveal(r) = r - Window + 1
  BY Numbers DEF Reveal, LastTop

(* The clip moves by one row, then by two, and so on. *)
LEMMA Triangle ==
  ASSUME NEW j \in Nat
  PROVE  j * (j + 1) + 2 * (j + 1) = (j + 1) * (j + 1 + 1)
  OBVIOUS

LEMMA TriangleGrows ==
  ASSUME NEW j \in Nat, NEW k \in Nat, j <= k
  PROVE  j * (j + 1) <= k * (k + 1)
  OBVIOUS

-----------------------------------------------------------------------------
(* What is charged to faults, step by step. *)

LEMMA ChargedFinite ==
  ASSUME IInv, NEW F \in Nat
  PROVE  /\ IsFiniteSet((DocsUpTo(F) \cup done) \ Delivered)
         /\ Cardinality((DocsUpTo(F) \cup done) \ Delivered) \in Nat
<1>1. IsFiniteSet(DocsUpTo(F) \cup done)
  BY DocsFinite, FS_Union DEF IInv
<1>q. QED
  BY <1>1, FS_Difference, FS_CardinalityType

LEMMA FaultsGrow ==
  ASSUME TypeOK, TypeOK'
  PROVE  /\ faults \in Nat /\ faults' \in Nat
         /\ \A k : Fault(k) => faults' = faults + 1
  BY LoopAssumption DEF TypeOK, Fault

(* Nothing new is seen, delivered or left. *)
LEMMA ChargedFrame ==
  ASSUME IInv, NEW F \in Nat, Charged(F), UNCHANGED <<done, docs>>,
         faults \in Nat, faults' \in Nat, faults' >= faults,
         pc # "download" \/ pc' = "download"
  PROVE  Charged(F)'
<1>1. Delivered' = Delivered /\ DocsUpTo(F)' = DocsUpTo(F)
  BY DEF Delivered, DocsUpTo
<1>2. Cardinality((DocsUpTo(F) \cup done) \ Delivered) \in Nat
  BY ChargedFinite
<1>3. ((DocsUpTo(F) \cup done) \ Delivered)' = (DocsUpTo(F) \cup done) \ Delivered
  BY <1>1
<1>q. QED
  BY <1>2, <1>3 DEF Charged

(* Document d is dealt with: it is seen already, or a fault takes it, or    *)
(* its download begins.                                                     *)
LEMMA ChargedTry ==
  ASSUME IInv, NEW F \in Nat, NEW G \in Nat, NEW d, Charged(F), UNCHANGED docs,
         DocsUpTo(G) \subseteq DocsUpTo(F) \cup {d},
         faults \in Nat, faults' \in Nat, pc = "row",
         \/ UNCHANGED <<done, faults>> /\ d \in done
         \/ UNCHANGED done /\ faults' = faults + 1
         \/ done' = done \cup {d} /\ pc' = "download" /\ UNCHANGED faults
  PROVE  Charged(G)'
<1> DEFINE left == (DocsUpTo(F) \cup done) \ Delivered
           next == (DocsUpTo(G) \cup done') \ Delivered
<1>1. ((DocsUpTo(G) \cup done) \ Delivered)' = next
  BY DEF Delivered, DocsUpTo
<1>2. IsFiniteSet(left) /\ Cardinality(left) \in Nat /\ Cardinality(left) <= faults
  BY ChargedFinite DEF Charged
<1>3. /\ next \subseteq left \cup {d}
      /\ UNCHANGED done /\ d \in done => next \subseteq left
  OBVIOUS
<1> HIDE DEF left, next
<1>4. /\ IsFiniteSet(left \cup {d})
      /\ Cardinality(left \cup {d}) \in {Cardinality(left), Cardinality(left) + 1}
  BY <1>2, FS_AddElement
<1>5. /\ Cardinality(next) \in Nat /\ Cardinality(next) <= Cardinality(left) + 1
      /\ next \subseteq left => Cardinality(next) <= Cardinality(left)
  <2>1. /\ IsFiniteSet(next) /\ Cardinality(next) <= Cardinality(left \cup {d})
        /\ next \subseteq left => Cardinality(next) <= Cardinality(left)
    BY <1>2, <1>3, <1>4, FS_Subset
  <2>2. Cardinality(next) \in Nat
    BY <2>1, FS_CardinalityType
  <2>q. QED
    BY <1>2, <1>4, <2>1, <2>2
<1>6. Cardinality(next) <= faults' + (IF pc' = "download" THEN 1 ELSE 0)
  <2>1. CASE UNCHANGED <<done, faults>> /\ d \in done
    BY <1>2, <1>3, <1>5, <2>1
  <2>2. CASE faults' = faults + 1
    BY <1>2, <1>5, <2>2
  <2>3. CASE pc' = "download" /\ UNCHANGED faults
    BY <1>2, <1>5, <2>3
  <2>q. QED
    BY <2>1, <2>2, <2>3
<1>q. QED
  BY <1>1, <1>6 DEF Charged

(* The download of a marked document ends, with it or without it.           *)
LEMMA ChargedDownload ==
  ASSUME IInv, TypeOK', NEW F \in Nat, Charged(F), Download \/ DownloadFails
  PROVE  Charged(F)'
<1>1. /\ pc = "download" /\ pc' = "close" /\ done' = done
      /\ faults \in Nat /\ DocsUpTo(F)' = DocsUpTo(F) /\ docs \in Seq(Rows)
  BY FaultsGrow DEF IInv, TypeOK, Download, DownloadFails, DocsUpTo
<1> DEFINE left == (DocsUpTo(F) \cup done) \ Delivered
           next == (DocsUpTo(F) \cup done) \ Delivered'
<1>2. IsFiniteSet(left) /\ Cardinality(left) \in Nat /\ Cardinality(left) <= faults + 1
  BY <1>1, ChargedFinite DEF Charged
<1>3. ((DocsUpTo(F) \cup done) \ Delivered)' = next
  BY <1>1
<1>4. CASE DownloadFails
  <2>1. Delivered' = Delivered /\ faults' = faults + 1
    BY <1>4, FaultsGrow DEF IInv, DownloadFails, Delivered
  <2>q. QED
    BY <1>1, <1>2, <1>3, <2>1 DEF Charged
<1>5. CASE Download
  <2>1. /\ faults' = faults /\ docs' = Append(docs, modal) /\ modal \in Rows
        /\ Doc[modal] \in left
    BY <1>5 DEF Download, IInv
  <2>2. /\ Len(docs') = Len(docs) + 1 /\ docs'[Len(docs) + 1] = modal
        /\ \A n \in 1 .. Len(docs) : docs'[n] = docs[n]
        /\ Len(docs) \in Nat
    BY <1>1, <2>1
  <2>3. Delivered \subseteq Delivered' /\ Doc[modal] \in Delivered'
    BY <2>2 DEF Delivered
  <2>4. next \subseteq left \ {Doc[modal]}
    BY <2>3
  <2> HIDE DEF left, next
  <2>5. /\ IsFiniteSet(left \ {Doc[modal]})
        /\ Cardinality(left \ {Doc[modal]}) = Cardinality(left) - 1
        /\ Cardinality(left \ {Doc[modal]}) \in Nat
    BY <1>2, <2>1, FS_RemoveElement, FS_CardinalityType
  <2>6. Cardinality(next) \in Nat /\ Cardinality(next) <= Cardinality(left) - 1
    BY <2>4, <2>5, FS_Subset, FS_CardinalityType
  <2>q. QED
    <3>1. Cardinality(next) <= faults' + (IF pc' = "download" THEN 1 ELSE 0)
      BY <1>1, <1>2, <2>1, <2>6
    <3>q. QED
      BY <1>3, <3>1 DEF Charged
<1>q. QED
  BY <1>4, <1>5

-----------------------------------------------------------------------------
(* A row is tried. *)

(* What trying a rank comes to, for the row r it reaches or for none.       *)
Opens(r) ==
  \/ /\ pc' = "close" /\ Doc[r] \in done /\ top' = Reveal(r)
     /\ UNCHANGED <<done, faults, lost, progressed>>
  \/ /\ pc' = "download" /\ done' = done \cup {Doc[r]} /\ top' = Reveal(r)
     /\ progressed' /\ UNCHANGED <<faults, lost>>
  \/ /\ pc' = "row" /\ faults' = faults + 1 /\ lost' = lost + 1
     /\ top' \in {top, Reveal(r)}
     /\ UNCHANGED <<done, progressed>>
Passes == pc' = "row" /\ UNCHANGED <<top, done, faults, lost, progressed>>

LEMMA Outcomes ==
  ASSUME IInv, OpenModal \/ OpenFails, ~blocked'
  PROVE  /\ pc = "row" /\ UNCHANGED <<total, limit, docs, no_progress>>
         /\ todo' = todo \ {NextRank} /\ todo # {}
         /\ pc' = "row" => modal' = modal
         /\ (Reached = {} /\ Passes) \/ \E r \in Reached : Opens(r)
<1>1. CASE OpenModal
  <2>1. PICK r \in Reached :
          /\ top' = Reveal(r)
          /\ IF Seen(r)
               THEN pc' = "close" /\ UNCHANGED <<progressed, done>>
               ELSE /\ pc' = "download"
                    /\ progressed' = TRUE
                    /\ done' = done \cup {Doc[r]}
    BY <1>1 DEF OpenModal
  <2>2. Opens(r)
    BY <1>1, <2>1 DEF OpenModal, Seen, Opens
  <2>q. QED
    BY <1>1, <2>1, <2>2 DEF OpenModal
<1>2. CASE OpenFails
  <2>1. /\ pc = "row" /\ pc' = "row" /\ todo' = todo \ {NextRank} /\ todo # {}
        /\ UNCHANGED <<total, limit, docs, no_progress, done, progressed, modal>>
    BY <1>2 DEF OpenFails, result
  <2>2. CASE Reached = {} /\ UNCHANGED <<modal, top, lost, blocked, faults>>
    BY <2>1, <2>2 DEF Passes
  <2>3. CASE /\ Fault("click") /\ lost' = lost + 1
             /\ \E r \in Reached : top' \in {top, Reveal(r)}
    BY <2>1, <2>3 DEF Opens, Fault
  <2>q. QED
    BY <1>2, <2>2, <2>3 DEF OpenFails
<1>q. QED
  BY <1>1, <1>2

LEMMA ClipNat ==
  ASSUME TypeOK, NEW t \in Nat, t >= 1
  PROVE  /\ t + Window - 2 \in Nat /\ t + Window - 1 \in Nat
         /\ t + Window - 2 + 1 = t + Window - 1
         /\ Repeated(t + Window - 2) \in Nat /\ Repeated(t + Window - 1) \in Nat
<1>1. /\ t + Window - 2 \in Nat /\ t + Window - 1 \in Nat
      /\ t + Window - 2 + 1 = t + Window - 1
  BY Numbers
<1>q. QED
  BY <1>1, RepeatedNat

LEMMA AffordedKept ==
  ASSUME TypeOK, TypeOK', NEW t \in Nat, t >= 1, Afforded(t),
         UNCHANGED <<no_progress, done>>, lost' >= lost
  PROVE  Afforded(t)'
<1>1. /\ no_progress \in Nat /\ lost \in Nat /\ lost' \in Nat
      /\ Repeated(t + Window - 2) \in Nat
  BY Numbers, ClipNat DEF TypeOK
<1>2. Repeated(t + Window - 2)' = Repeated(t + Window - 2)
  BY DEF Repeated, DocsUpTo
<1>q. QED
  BY <1>1, <1>2 DEF Afforded, DocsUpTo

(* The ranks up to that of row c are tried without progress: the rows of    *)
(* the clip up to its last are seen, or the click on one of them is lost.   *)
LEMMA PaysNext ==
  ASSUME TypeOK, TypeOK', NEW t \in Nat, t >= 1, NEW c \in Nat, c >= 1,
         Pays(t, c), UNCHANGED <<no_progress, done>>,
         \/ lost' = lost + 1
         \/ lost' = lost /\ (Doc[c] \in done \/ c + 1 # t + Window)
  PROVE  Pays(t, c + 1)'
<1>l. lost \in Nat /\ lost' \in Nat /\ lost' >= lost
  <2>1. lost \in Nat
    BY Numbers
  <2>q. QED
    BY <2>1
<1>n. /\ no_progress \in Nat /\ lost \in Nat /\ lost' \in Nat /\ lost' >= lost
      /\ Window \in Nat /\ Window >= 1
      /\ t + Window - 2 \in Nat /\ t + Window - 2 + 1 = t + Window - 1
      /\ Repeated(t + Window - 2) \in Nat /\ Repeated(t + Window - 1) \in Nat
  BY <1>l, Numbers, ClipNat
<1>c. Repeated(t + Window - 1)' = Repeated(t + Window - 1)
  BY DEF Repeated, DocsUpTo
<1>1. CASE c + 1 < t + Window
  <2>1. Afforded(t)'
    BY <1>n, <1>1, AffordedKept DEF Pays
  <2>q. QED
    BY <1>1, <2>1 DEF Pays
<1>2. CASE c + 1 = t + Window
  <2>1. Afforded(t) /\ c = t + Window - 1
    BY <1>n, <1>2 DEF Pays
  <2>2. no_progress + 1 <= lost' + Repeated(t + Window - 1)
    <3>1. Repeated(t + Window - 1) >= Repeated(t + Window - 2)
      BY <1>n, RepeatedGrows
    <3>2. CASE lost' = lost + 1
      BY <1>n, <2>1, <3>1, <3>2 DEF Afforded
    <3>3. CASE lost' = lost /\ Doc[c] \in done
      <4>1. CASE no_progress < lost + Repeated(t + Window - 2)
        BY <1>n, <3>1, <3>3, <4>1
      <4>2. CASE done \subseteq DocsUpTo(t + Window - 2)
        <5>1. Repeated(t + Window - 1) = Repeated(t + Window - 2) + 1
          BY <1>n, <2>1, <3>3, <4>2, RepeatedNext
        <5>q. QED
          BY <1>n, <2>1, <3>3, <5>1 DEF Afforded
      <4>q. QED
        BY <2>1, <4>1, <4>2 DEF Afforded
    <3>q. QED
      BY <1>2, <3>2, <3>3
  <2>q. QED
    BY <1>n, <1>c, <1>2, <2>2 DEF Pays
<1>3. CASE c + 1 > t + Window
  <2>1. no_progress + 1 <= lost + Repeated(t + Window - 1)
    BY <1>n, <1>3 DEF Pays
  <2>2. ~(c + 1 < t + Window)
    BY <1>n, <1>3
  <2>q. QED
    BY <1>n, <1>c, <2>1, <2>2 DEF Pays
<1>q. QED
  BY <1>n, <1>1, <1>2, <1>3

(* A rank is tried: what is dealt with, charged and paid moves on with it.  *)
LEMMA TryRow ==
  ASSUME IInv, TypeOK', OpenModal \/ OpenFails, ~blocked', modal = 0, top <= LastTop,
         NEW F \in 0 .. total, F < total, Charged(F),
         NEW t \in 1 .. LastTop, NEW c \in FirstAt(t) .. LastAt(t) + 1,
         PassAt(F, t, c)
  PROVE  \E G \in 0 .. total : /\ Charged(G)'
                               /\ c + 1 \in FirstAt(t) .. LastAt(t) + 1
                               /\ PassAt(G, t, c + 1)'
<1>t. TypeOK
  BY DEF IInv
<1>n. /\ top \in Nat /\ total \in Nat /\ F \in Nat /\ Window \in Nat
      /\ Window >= 1 /\ t \in Nat /\ t >= 1 /\ t <= LastTop /\ LastTop \in Nat
      /\ lost \in Nat /\ faults \in Nat /\ faults' \in Nat
  BY <1>t, Numbers, FaultsGrow
<1>r. /\ FirstAt(t) \in Nat /\ FirstAt(t) >= 1
      /\ LastAt(t) \in Nat /\ LastAt(t) <= total
  BY <1>t, <1>n, RenderedAt
<1>p. /\ t <= top /\ t <= F + 1
      /\ todo = {r + 1 - FirstAt(t) : r \in c .. LastAt(t)}
      /\ c <= t + Window => top = t /\ c <= F + 1
      /\ c > t + Window =>
           t + Window <= F
           /\ 2 * (top - t) <= (c - t - Window) * (c - t - Window + 1)
      /\ t < LastTop /\ ~progressed => Pays(t, c)
  BY <1>n, <1>r DEF PassAt, Left, Moved
<1>o. /\ pc = "row" /\ UNCHANGED <<total, limit, docs, no_progress>>
      /\ todo' = todo \ {NextRank} /\ todo # {}
      /\ (Reached = {} /\ Passes) \/ \E r \in Reached : Opens(r)
  BY Outcomes
<1>1. c \in FirstAt(t) .. LastAt(t) /\ c \in Nat /\ c >= 1
  <2>1. c <= LastAt(t)
    <3>1. SUFFICES ASSUME c > LastAt(t) PROVE todo = {}
      BY <1>r, <1>o
    <3>q. QED
      BY <1>r, <1>p, <3>1
  <2>q. QED
    BY <1>r, <2>1
<1>2. /\ todo' = {r + 1 - FirstAt(t) : r \in c + 1 .. LastAt(t)}
      /\ \A r \in Reached : /\ r \in Nat /\ r >= top /\ r >= c
                            /\ r <= c + (top - t)
                            /\ r <= total /\ r >= 1
      /\ t = top /\ modal = 0 /\ Reached = {} => c < top
  BY <1>t, <1>n, <1>p, <1>o, <1>1, NextOf
<1>3. FirstAt(t)' = FirstAt(t) /\ LastAt(t)' = LastAt(t) /\ LastTop' = LastTop
  BY <1>o DEF FirstAt, LastAt, LastTop
<1>4. /\ c + 1 \in FirstAt(t) .. LastAt(t) + 1
      /\ Left(t, c + 1)'
  BY <1>r, <1>1, <1>2, <1>3 DEF Left
<1>5. ASSUME t < LastTop, ~progressed', Reached = {} => c + 1 # t + Window,
             c <= t + Window - 1 => Reached \subseteq {c}
      PROVE  Pays(t, c + 1)'
  <2>1. CASE Reached = {} /\ Passes
    <3>1. ~progressed /\ UNCHANGED <<done, lost>> /\ c + 1 # t + Window
      BY <1>5, <2>1 DEF Passes
    <3>q. QED
      BY <1>t, <1>n, <1>p, <1>o, <1>1, <1>5, <3>1, PaysNext
  <2>2. CASE \E r \in Reached : Opens(r)
    <3>1. PICK r \in Reached : Opens(r)
      BY <2>2
    <3>2. /\ ~progressed /\ UNCHANGED done
          /\ (lost' = lost /\ Doc[r] \in done) \/ lost' = lost + 1
      BY <1>5, <3>1 DEF Opens
    <3>3. c <= t + Window - 1 => r = c
      BY <1>5
    <3>4. \/ lost' = lost /\ (Doc[c] \in done \/ c + 1 # t + Window)
          \/ lost' = lost + 1
      BY <1>n, <1>1, <3>2, <3>3
    <3>q. QED
      BY <1>t, <1>n, <1>p, <1>o, <1>1, <1>5, <3>2, <3>4, PaysNext
  <2>q. QED
    BY <1>o, <2>1, <2>2
<1>6. CASE c <= t + Window
  <2>1. top = t /\ c <= F + 1 /\ (\A r \in Reached : r = c)
    BY <1>n, <1>p, <1>1, <1>2, <1>6
  <2>2. t < LastTop /\ ~progressed' => Pays(t, c + 1)'
    <3>1. Reached = {} => c + 1 # t + Window
      BY <1>n, <1>1, <1>2, <2>1
    <3>q. QED
      BY <1>5, <2>1, <3>1
  <2>3. CASE Reached = {} /\ Passes
    <3>1. c < t /\ top' = t /\ UNCHANGED <<done, faults>>
      BY <1>2, <2>1, <2>3 DEF Passes
    <3>2. Charged(F)'
      BY <1>n, <1>o, <3>1, ChargedFrame
    <3>3. c + 1 <= t + Window /\ c + 1 <= F + 1
      BY <1>n, <1>p, <1>1, <3>1
    <3>4. PassAt(F, t, c + 1)'
      BY <1>3, <1>4, <1>p, <2>2, <3>1, <3>3 DEF PassAt, Moved
    <3>q. QED
      BY <1>4, <3>2, <3>4
  <2>4. CASE \E r \in Reached : Opens(r)
    <3>1. Opens(c) /\ c \in Reached
      BY <2>1, <2>4
    <3> DEFINE G == IF c = F + 1 THEN F + 1 ELSE F
    <3>2. G \in 0 .. total /\ c <= G /\ F <= G /\ G \in Nat
      BY <1>n, <1>r, <1>1, <2>1
    <3>3. Charged(G)'
      <4>1. DocsUpTo(G) \subseteq DocsUpTo(F) \cup {Doc[c]}
        BY <1>n, <2>1, DocsNext
      <4>q. QED
        BY <1>n, <1>o, <3>1, <3>2, <4>1, ChargedTry DEF Opens
    <3>4. top' = t \/ (c = t + Window /\ top' = t + 1)
      <4>1. /\ c >= top /\ c <= total
            /\ c < top + Window => Reveal(c) = top
            /\ c >= top + Window => Reveal(c) = c - Window + 1
        BY <1>t, <1>1, <1>2, <3>1, RevealAt
      <4>2. top' = top \/ top' = Reveal(c)
        BY <3>1 DEF Opens
      <4>3. c < t + Window \/ c = t + Window
        BY <1>n, <1>1, <1>6
      <4>4. c = t + Window => Reveal(c) = t + 1
        BY <1>n, <2>1, <4>1
      <4>q. QED
        BY <2>1, <4>1, <4>2, <4>3, <4>4
    <3> HIDE DEF G
    <3>5. /\ t <= top' /\ t <= G + 1
          /\ IF c + 1 <= t + Window
               THEN top' = t /\ c + 1 <= G + 1
               ELSE /\ t + Window <= G
                    /\ 2 * (top' - t)
                         <= ((c + 1) - t - Window) * ((c + 1) - t - Window + 1)
      <4>1. CASE c + 1 <= t + Window
        BY <1>n, <1>1, <1>p, <3>2, <3>4, <4>1
      <4>2. CASE ~(c + 1 <= t + Window)
        <5>1. c = t + Window /\ t + Window <= G /\ (c + 1) - t - Window = 1
          BY <1>n, <1>1, <1>6, <3>2, <4>2
        <5>2. t <= G + 1 /\ (top' = t \/ top' = t + 1)
          BY <1>n, <3>2, <3>4, <5>1
        <5>q. QED
          BY <1>n, <4>2, <5>1, <5>2
      <4>q. QED
        BY <4>1, <4>2
    <3>6. PassAt(G, t, c + 1)'
      <4>1. Moved(G, t, c + 1)'
        BY <3>5, Zenon DEF Moved
      <4>q. QED
        BY <1>3, <1>4, <2>2, <4>1 DEF PassAt
    <3>q. QED
      BY <1>4, <3>2, <3>3, <3>6
  <2>q. QED
    BY <1>o, <2>3, <2>4
<1>7. CASE c > t + Window
  <2>1. /\ t + Window <= F
        /\ 2 * (top - t) <= (c - t - Window) * (c - t - Window + 1)
    BY <1>p, <1>7
  <2>2. t < LastTop /\ ~progressed' => Pays(t, c + 1)'
    <3>1. c + 1 # t + Window /\ ~(c <= t + Window - 1)
      BY <1>n, <1>1, <1>7
    <3>q. QED
      BY <1>5, <3>1
  <2>3. Charged(F)'
    <3>1. CASE Reached = {} /\ Passes
      BY <1>n, <1>o, <3>1, ChargedFrame DEF Passes
    <3>2. CASE \E r \in Reached : Opens(r)
      <4>1. PICK r \in Reached : Opens(r)
        BY <3>2
      <4>q. QED
        BY <1>n, <1>o, <4>1, ChargedTry DEF Opens
    <3>q. QED
      BY <1>o, <3>1, <3>2
  <2>4. PICK u \in Nat : u = top' /\ u >= top
                         /\ (u = top \/ u <= c + (top - t) - Window + 1)
    <3>1. CASE Reached = {} /\ Passes
      BY <1>n, <3>1 DEF Passes
    <3>2. CASE \E r \in Reached : Opens(r)
      <4>1. PICK r \in Reached : Opens(r)
        BY <3>2
      <4>2. /\ r \in Nat /\ r >= top /\ r <= total /\ r <= c + (top - t)
            /\ Reveal(r) \in Nat /\ Reveal(r) >= top
            /\ Reveal(r) = top \/ Reveal(r) = r - Window + 1
        <5>1. r \in Nat /\ r >= top /\ r <= total /\ r <= c + (top - t)
          BY <1>2
        <5>2. r < top + Window \/ r >= top + Window
          BY <1>n, <5>1
        <5>q. QED
          BY <1>t, <5>1, <5>2, RevealAt
      <4>3. top' = top \/ top' = Reveal(r)
        BY <4>1 DEF Opens
      <4>q. QED
        BY <1>n, <1>1, <4>2, <4>3
    <3>q. QED
      BY <1>o, <3>1, <3>2
  <2>5. 2 * (u - t) <= ((c + 1) - t - Window) * ((c + 1) - t - Window + 1)
    <3>1. PICK j \in Nat : c - t - Window = j /\ (c + 1) - t - Window = j + 1
      BY <1>n, <1>1, <1>7
    <3>2. 2 * (top - t) <= j * (j + 1)
      <4>1. (c - t - Window) * (c - t - Window + 1) = j * (j + 1)
        BY <3>1, Zenon
      <4>q. QED
        BY <2>1, <4>1
    <3>3. u - t <= (top - t) + (j + 1)
      <4>1. u \in Nat /\ u >= top /\ (u = top \/ u <= c + (top - t) - Window + 1)
        BY <2>4
      <4>2. c \in Nat /\ c = j + t + Window
        BY <1>n, <1>1, <3>1
      <4>q. QED
        BY <1>n, <4>1, <4>2
    <3>4. j * (j + 1) \in Nat /\ (j + 1) * (j + 1 + 1) \in Nat
          /\ j * (j + 1) + 2 * (j + 1) = (j + 1) * (j + 1 + 1)
      BY Triangle
    <3>5. 2 * (u - t) <= (j + 1) * (j + 1 + 1)
      <4>1. PICK a \in Nat : a = j * (j + 1)
        BY <3>4
      <4>2. PICK b \in Nat : b = (j + 1) * (j + 1 + 1)
        BY <3>4
      <4>3. a + 2 * (j + 1) = b /\ 2 * (top - t) <= a
        BY <3>2, <3>4, <4>1, <4>2
      <4>4. 2 * (u - t) <= b
        BY <1>n, <3>3, <4>3
      <4>q. QED
        BY <4>2, <4>4
    <3>q. QED
      BY <3>1, <3>5
  <2>6. t <= u /\ t <= F + 1 /\ ~(c + 1 <= t + Window)
    BY <1>n, <1>p, <1>1, <1>7, <2>4
  <2>7. PassAt(F, t, c + 1)'
    <3>1. t <= top' /\ 2 * (top' - t)
                         <= ((c + 1) - t - Window) * ((c + 1) - t - Window + 1)
      BY <2>4, <2>5, <2>6
    <3>q. QED
      <4>1. Moved(F, t, c + 1)'
        BY <2>1, <2>6, <3>1, Zenon DEF Moved
      <4>q. QED
        BY <1>3, <1>4, <2>2, <4>1 DEF PassAt
  <2>q. QED
    BY <1>4, <2>3, <2>7
<1>q. QED
  BY <1>n, <1>1, <1>6, <1>7

-----------------------------------------------------------------------------
(* The other steps of a collection whose list no curtain has covered.       *)

LEMMA InViewKept ==
  ASSUME TypeOK, TypeOK', InView, UNCHANGED <<total, done>>, top' >= top
  PROVE  InView'
<1>1. PICK u \in Nat : u = top'
  BY ListAssumption DEF TypeOK, Rows
<1>2. top \in Nat /\ Window \in Nat /\ total \in Nat /\ u >= top
  BY <1>1, Numbers
<1>3. ASSUME NEW d \in done
      PROVE  \E r \in 1 .. total : r < u + Window /\ Doc[r] = d
  <2>1. PICK r \in 1 .. total : r < top + Window /\ Doc[r] = d
    BY DEF InView
  <2>2. r < u + Window
    BY <1>2, <2>1
  <2>q. QED
    BY <2>1, <2>2
<1>q. QED
  BY <1>1, <1>3 DEF InView

(* While more rows follow the clip, what has been seen is in its rows or    *)
(* before them.                                                             *)
LEMMA SeenUpTo ==
  ASSUME TypeOK, InView, NEW n \in Nat, top + Window <= n + 1
  PROVE  done \subseteq DocsUpTo(n)
<1> SUFFICES ASSUME NEW d \in done PROVE \E r \in 1 .. n : Doc[r] = d
  BY DEF DocsUpTo
<1>1. PICK r \in 1 .. total : r < top + Window /\ Doc[r] = d
  BY DEF InView
<1>2. r \in 1 .. n
  BY <1>1, Numbers
<1>q. QED
  BY <1>1, <1>2

LEMMA PassKept ==
  ASSUME NEW F, NEW t, NEW c, PassAt(F, t, c),
         UNCHANGED <<total, top, todo, progressed, no_progress, lost, done>>
  PROVE  PassAt(F, t, c)'
  BY DEF PassAt, Left, Moved, Pays, Afforded, Repeated, DocsUpTo, LastTop, FirstAt,
         LastAt

(* A pass begins: every row from the clip on is to be tried, or every row   *)
(* rendered.                                                                *)
LEMMA ListPass ==
  ASSUME IInv, TypeOK', ListRows, top <= LastTop, NEW F \in 0 .. total, F < total,
         Between(F)
  PROVE  \E t \in 1 .. LastTop : \E c \in FirstAt(t) .. LastAt(t) + 1 :
           PassAt(F, t, c)'
<1>t. TypeOK
  BY DEF IInv
<1> DEFINE first == FirstAt(top)
           last == LastAt(top)
<1>n. /\ top \in Nat /\ top >= 1 /\ F \in Nat /\ Window \in Nat /\ Window >= 1
      /\ first \in Nat /\ first <= top /\ last \in Nat /\ top <= last
      /\ LastTop \in Nat
      /\ Rendered = first .. last
  BY <1>t, Numbers, RenderedAt, RenderedRange
<1>u. UNCHANGED <<total, top, no_progress, lost, done>> /\ progressed' = FALSE
  BY DEF ListRows, page, result
<1>1. PICK c \in first .. last : /\ c <= top
                                 /\ todo' = {Rank(r) : r \in c .. last}
  <2>1. {q \in Rendered : ~BehindBanner(q)} = top .. last
    BY <1>n DEF BehindBanner
  <2>2. \/ todo' = {Rank(r) : r \in top .. last}
        \/ todo' = {Rank(r) : r \in first .. last}
    BY <1>n, <2>1 DEF ListRows
  <2>3. top \in first .. last /\ first \in first .. last /\ top <= top
    BY <1>n
  <2>q. QED
    BY <1>n, <2>2, <2>3
<1>2. todo' = {r + 1 - first : r \in c .. last}
  <2>1. \A r \in c .. last : Rank(r) = r + 1 - first
    BY <1>t, <1>n, RankOf
  <2>q. QED
    BY <1>1, <2>1
<1>3. PICK t \in 1 .. LastTop : t = top
  BY <1>n
<1>4. Left(t, c)'
  BY <1>2, <1>3, <1>u DEF Left, FirstAt, LastAt
<1>5. Moved(F, t, c)'
  <2>1. t <= F + 1 /\ c <= t + Window /\ c <= F + 1
    BY <1>n, <1>1, <1>3 DEF Between
  <2>2. t <= top' /\ top' = t
    BY <1>n, <1>3, <1>u
  <2>q. QED
    BY <2>1, <2>2 DEF Moved
<1>6. t < LastTop => Pays(t, c)'
  <2>1. c < t + Window
    BY <1>n, <1>1, <1>3
  <2>2. t < LastTop => Afforded(t)'
    BY <1>3, <1>u DEF Between, Afforded, Repeated, DocsUpTo
  <2>q. QED
    BY <2>1, <2>2 DEF Pays
<1>7. LastTop' = LastTop
  BY <1>u DEF LastTop
<1>8. PassAt(F, t, c)'
  BY <1>4, <1>5, <1>6, <1>7 DEF PassAt
<1>9. c \in FirstAt(t) .. LastAt(t) + 1
  BY <1>n, <1>1, <1>3
<1>q. QED
  BY <1>8, <1>9

(* A pass is over: row F + 1, if there is one, is in reach of the wheel.    *)
LEMMA PassEnd ==
  ASSUME Steady, IInv, top <= LastTop, todo = {},
         NEW F \in 0 .. total, F < total,
         NEW t \in 1 .. LastTop, NEW c \in FirstAt(t) .. LastAt(t) + 1,
         PassAt(F, t, c)
  PROVE  /\ t < LastTop /\ t <= top /\ top + Step <= F + 1
         /\ progressed \/ no_progress + 1 <= lost + Repeated(t + Window - 1)
<1>t. TypeOK
  BY DEF IInv
<1>n. /\ top \in Nat /\ total \in Nat /\ F \in Nat /\ Window \in Nat
      /\ Window >= 1 /\ t \in Nat /\ t >= 1 /\ t <= LastTop /\ LastTop \in Nat
      /\ Below \in Nat /\ Step \in Nat /\ Step <= Window
  BY <1>t, Numbers
<1>r. /\ FirstAt(t) \in Nat /\ LastAt(t) \in Nat /\ LastAt(t) <= total
      /\ LastAt(t) < t + Window + Below
      /\ t < LastTop => t + Window <= LastAt(t) + 1
      /\ t = LastTop => LastAt(t) = total /\ total < t + Window
  BY <1>t, <1>n, RenderedAt
<1>p. /\ t <= top /\ t <= F + 1
      /\ todo = {r + 1 - FirstAt(t) : r \in c .. LastAt(t)}
      /\ c <= t + Window => top = t /\ c <= F + 1
      /\ c > t + Window =>
           t + Window <= F
           /\ 2 * (top - t) <= (c - t - Window) * (c - t - Window + 1)
      /\ t < LastTop /\ ~progressed => Pays(t, c)
  <2>1. c \in Nat /\ (c > t + Window <=> ~(c <= t + Window))
    BY <1>n, <1>r
  <2>q. QED
    BY <2>1 DEF PassAt, Left, Moved
<1>1. c = LastAt(t) + 1 /\ c \in Nat
  <2>1. SUFFICES ASSUME c <= LastAt(t) PROVE FALSE
    BY <1>r
  <2>2. c \in c .. LastAt(t)
    BY <1>r, <2>1
  <2>3. c + 1 - FirstAt(t) \in todo
    BY <1>p, <2>2
  <2>q. QED
    BY <2>3
<1>2. t < LastTop
  <2>1. SUFFICES ASSUME t = LastTop PROVE FALSE
    BY <1>n
  <2>2. c = total + 1 /\ c <= t + Window
    BY <1>n, <1>r, <1>1, <2>1
  <2>q. QED
    BY <1>n, <1>p, <2>2
<1>3. c >= t + Window
  BY <1>n, <1>r, <1>1, <1>2
<1>4. top + Step <= F + 1
  <2>1. CASE c <= t + Window
    BY <1>n, <1>p, <1>3, <2>1
  <2>2. CASE c > t + Window
    <3>1. PICK j \in Nat : c - t - Window = j /\ j <= Below
      BY <1>n, <1>r, <1>1, <2>2
    <3>2. (c - t - Window) * (c - t - Window + 1) = j * (j + 1)
      BY <3>1, Zenon
    <3>3. PICK a \in Nat : a = j * (j + 1)
      OBVIOUS
    <3>4. PICK b \in Nat : b = Below * (Below + 1)
      BY <1>n
    <3>5. a <= b
      BY <1>n, <3>1, <3>3, <3>4, TriangleGrows
    <3>6. 2 * (top - t) <= a /\ t + Window <= F
      BY <1>p, <2>2, <3>2, <3>3
    <3>7. 2 * Step + b <= 2 * (Window + 1)
      BY <3>4 DEF Steady
    <3>q. QED
      BY <1>n, <3>5, <3>6, <3>7
  <2>q. QED
    BY <1>n, <1>1, <2>1, <2>2
<1>5. progressed \/ no_progress + 1 <= lost + Repeated(t + Window - 1)
  BY <1>n, <1>p, <1>1, <1>2, <1>3 DEF Pays
<1>q. QED
  BY <1>p, <1>2, <1>4, <1>5

(* The wheel moves the clip no further than to row F + 1, or fails.         *)
LEMMA ScrollPass ==
  ASSUME IInv, TypeOK', Scroll \/ ScrollFails, modal = 0, InView, top <= LastTop,
         NEW F \in 0 .. total, NEW t \in Nat, t >= 1,
         t < LastTop, t <= top, top + Step <= F + 1,
         progressed \/ no_progress + 1 <= lost + Repeated(t + Window - 1)
  PROVE  Between(F)'
<1>t. TypeOK /\ UNCHANGED <<total, done, progressed>> /\ no_progress' = Count
  BY DEF IInv, Scroll, ScrollFails, page, result
<1>n. /\ top \in Nat /\ total \in Nat /\ F \in Nat /\ Window \in Nat /\ top >= 1
      /\ Window >= 1 /\ LastTop \in Nat /\ LastTop <= total
      /\ Step \in Nat /\ Step >= 1
      /\ no_progress \in Nat /\ lost \in Nat
      /\ \A s \in Nat : s >= 1 => (s < LastTop <=> s + Window <= total)
  BY <1>t, Numbers
<1>c. LastTop' = LastTop /\ \A s : Repeated(s)' = Repeated(s)
  BY <1>t DEF LastTop, Repeated, DocsUpTo
<1>1. PICK n \in Nat, u \in Nat, l \in Nat :
        n = no_progress' /\ u = top' /\ l = lost'
  BY ListAssumption, LoopAssumption DEF TypeOK, Rows
<1>2. n = IF progressed THEN 0 ELSE no_progress + 1
  BY <1>t, <1>1 DEF Count
<1>3. /\ t + Window - 1 \in Nat /\ Repeated(t + Window - 1) \in Nat
      /\ Repeated(total) \in Nat
      /\ Repeated(t + Window - 1) <= Repeated(total)
  <2>1. t + Window - 1 \in Nat /\ t + Window - 1 <= total
    BY <1>n
  <2>q. QED
    BY <1>n, <2>1, RepeatedNat, RepeatedGrows
<1>4. /\ n <= l + Repeated(total)
      /\ (l = lost /\ ~progressed) \/ (l = 0 /\ n = 0) \/ l = lost + 1
  <2>1. l = (IF progressed THEN 0 ELSE lost) \/ l = lost + 1
    BY <1>1 DEF Scroll, ScrollFails
  <2>q. QED
    BY <1>n, <1>2, <1>3, <2>1
<1>5. CASE u = top /\ l = lost + 1
  <2>1. top + Window - 2 \in Nat /\ top + Window - 2 + 1 = top + Window - 1
        /\ Repeated(top + Window - 2) \in Nat /\ Repeated(top + Window - 1) \in Nat
    BY <1>t, <1>n, ClipNat
  <2>2. Repeated(t + Window - 1) <= Repeated(top + Window - 1)
    BY <1>n, <1>3, <2>1, RepeatedGrows
  <2>3. n <= l + Repeated(top + Window - 2)
        /\ (done \subseteq DocsUpTo(top + Window - 2)
              \/ n < l + Repeated(top + Window - 2))
    <3>1. CASE Doc[top + Window - 1] \in DocsUpTo(top + Window - 2)
      <4>1. /\ DocsUpTo(top + Window - 1) = DocsUpTo(top + Window - 2)
            /\ Repeated(top + Window - 1) = Repeated(top + Window - 2) + 1
        BY <2>1, <3>1, RepeatedNext
      <4>2. done \subseteq DocsUpTo(top + Window - 1)
        BY <1>t, <1>n, SeenUpTo
      <4>q. QED
        BY <1>n, <1>2, <1>3, <1>5, <2>1, <2>2, <4>1, <4>2
    <3>2. CASE Doc[top + Window - 1] \notin DocsUpTo(top + Window - 2)
      <4>1. Repeated(top + Window - 1) = Repeated(top + Window - 2)
        BY <2>1, <3>2, RepeatedNext
      <4>q. QED
        BY <1>n, <1>2, <1>3, <1>5, <2>1, <2>2, <4>1
    <3>q. QED
      BY <3>1, <3>2
  <2>4. u <= F + 1
    BY <1>n, <1>5
  <2>q. QED
    BY <1>t, <1>c, <1>1, <1>4, <1>5, <2>3, <2>4 DEF Between, Afforded, DocsUpTo
<1>6. CASE u = Scrolled /\ ((l = lost /\ ~progressed) \/ (l = 0 /\ n = 0))
  <2>1. u <= F + 1 /\ (u = top + Step \/ u = LastTop)
    BY <1>n, <1>6 DEF Scrolled
  <2>2. CASE u = LastTop
    <3>1. ~(u < LastTop)
      BY <1>n, <2>2
    <3>q. QED
      BY <1>t, <1>c, <1>1, <1>4, <2>1, <3>1 DEF Between
  <2>3. CASE u = top + Step
    <3>1. /\ u + Window - 2 \in Nat /\ t + Window - 1 <= u + Window - 2
          /\ top + Window <= (u + Window - 2) + 1
      BY <1>n, <2>3
    <3>2. done \subseteq DocsUpTo(u + Window - 2)
      BY <1>t, <1>n, <3>1, SeenUpTo
    <3>3. /\ Repeated(t + Window - 1) <= Repeated(u + Window - 2)
          /\ Repeated(u + Window - 2) \in Nat
      BY <1>n, <1>3, <3>1, RepeatedGrows, RepeatedNat
    <3>4. n <= l + Repeated(u + Window - 2)
      BY <1>n, <1>2, <1>3, <1>6, <3>3
    <3>q. QED
      BY <1>t, <1>c, <1>1, <1>4, <2>1, <3>2, <3>4 DEF Between, Afforded, DocsUpTo
  <2>q. QED
    BY <2>1, <2>2, <2>3
<1>7. \/ u = top /\ l = lost + 1
      \/ u = Scrolled /\ ((l = lost /\ ~progressed) \/ (l = 0 /\ n = 0))
  <2>1. CASE ScrollFails
    BY <1>1, <2>1 DEF ScrollFails, page
  <2>2. CASE Scroll
    <3>1. u = Scrolled /\ l = IF progressed THEN 0 ELSE lost
      BY <1>1, <2>2 DEF Scroll
    <3>q. QED
      BY <1>2, <3>1
  <2>q. QED
    BY <2>1, <2>2
<1>q. QED
  BY <1>5, <1>6, <1>7

LEMMA LossInit == Init => LossInv
<1> SUFFICES ASSUME Init PROVE LossInv
  OBVIOUS
<1>t. TypeOK /\ top = 1 /\ no_progress = 0 /\ lost = 0 /\ faults = 0 /\ pc = "tab"
      /\ modal = 0 /\ done = {}
  BY InitIInv DEF IInv, Init
<1>n. total \in Nat /\ total >= 1 /\ LastTop \in Nat /\ LastTop >= 1
  BY <1>t, Numbers
<1>1. Charged(0)
  <2>1. DocsUpTo(0) = {}
    BY DEF DocsUpTo
  <2>q. QED
    BY <1>t, <2>1, FS_EmptySet DEF Charged
<1>2. Between(0)
  <2>1. Repeated(1 + Window - 2) \in Nat /\ Repeated(total) \in Nat
    BY <1>t, <1>n, ClipNat, RepeatedNat
  <2>q. QED
    BY <1>t, <2>1 DEF Between, Afforded
<1>3. InView
  BY <1>t DEF InView
<1>4. 0 \in 0 .. total /\ top <= LastTop
  BY <1>t, <1>n
<1>q. QED
  BY <1>t, <1>1, <1>2, <1>3, <1>4 DEF LossInv, Dealing

(* A step that moves no clip, marks no document and begins or ends no pass. *)
LEMMA DealingKept ==
  ASSUME NEW F, Dealing(F), pc # "end", pc' # "end",
         Within => Within', ~Within => pc' \in {"tab", "list"},
         UNCHANGED <<total, top, todo, progressed, no_progress, lost, done>>
  PROVE  Dealing(F)'
<1>1. CASE F = total
  BY <1>1 DEF Dealing
<1>2. CASE pc \in {"tab", "list"} /\ Between(F)
  <2>1. Between(F)'
    BY <1>2 DEF Between, Afforded, Repeated, DocsUpTo, LastTop
  <2>2. ~Within
    BY <1>2 DEF Within
  <2>q. QED
    BY <2>1, <2>2 DEF Dealing
<1>3. CASE /\ Within
           /\ \E t \in 1 .. LastTop : \E c \in FirstAt(t) .. LastAt(t) + 1 : PassAt(F, t, c)
  <2>1. PICK t \in 1 .. LastTop :
          \E c \in FirstAt(t) .. LastAt(t) + 1 : PassAt(F, t, c)
    BY <1>3
  <2>2. PICK c \in FirstAt(t) .. LastAt(t) + 1 : PassAt(F, t, c)
    BY <2>1
  <2>3. PassAt(F, t, c)'
    BY <2>2, PassKept
  <2>q. QED
    BY <1>3, <2>3 DEF Dealing, LastTop, FirstAt, LastAt
<1>q. QED
  BY <1>1, <1>2, <1>3 DEF Dealing

(* The invariant is kept, while no curtain is left over the list.           *)
LEMMA LossStep ==
  ASSUME Steady, IInv, TypeOK', LossInv, [Next]_vars
  PROVE  LossInv'
<1> DEFINE Kept == \E G \in 0 .. total' : Charged(G)' /\ Dealing(G)'
           Shown == top' <= LastTop' /\ InView'
<1> SUFFICES ASSUME ~blocked', pc' \notin {"empty", "raised"}
             PROVE  /\ pc' \in {"tab", "list", "row"} => modal' = 0
                    /\ Shown /\ Kept
  BY DEF LossInv
<1>t. TypeOK
  BY DEF IInv
<1>0. ~blocked /\ pc \notin {"empty", "raised"} /\ total' = total
  BY DEF TypeOK, IInv, Next, Working, Failing, OpenTab, NoRowsInTime, ListRows,
         ListRaises, Finish, OpenModal, OpenFails, Download, DownloadFails, CloseModal,
         CurtainStays, CloseRaises, CurtainGoes, Scroll, ScrollFails, vars, page
<1>1. PICK F \in 0 .. total : Charged(F) /\ Dealing(F)
  BY <1>0 DEF LossInv
<1>m. /\ pc \in {"tab", "list", "row"} => modal = 0
      /\ top <= LastTop /\ InView
  BY <1>0 DEF LossInv
<1>n. /\ F \in Nat /\ F <= total /\ total \in Nat /\ top \in Nat /\ LastTop \in Nat
      /\ faults \in Nat /\ faults' \in Nat
      /\ \A k : Fault(k) => faults' = faults + 1
  BY <1>t, Numbers, FaultsGrow
<1>c. LastTop' = LastTop /\ \A t : FirstAt(t)' = FirstAt(t) /\ LastAt(t)' = LastAt(t)
  BY <1>0 DEF LastTop, FirstAt, LastAt
<1>s. ASSUME Charged(F)', Dealing(F)'
      PROVE  Kept
  BY <1>0, <1>1, <1>s
<1>v. ASSUME UNCHANGED <<total, top, done>>
      PROVE  Shown
  BY <1>m, <1>v, <1>c DEF InView
<1>f. F = total => Dealing(F)'
  BY <1>0 DEF Dealing
<1>2. CASE OpenTab \/ CloseModal
  <2>1. Charged(F)'
    BY <1>1, <1>n, <1>2, ChargedFrame DEF OpenTab, CloseModal, result
  <2>2. Dealing(F)'
    BY <1>1, <1>2, DealingKept DEF OpenTab, CloseModal, page, loop, result, Within
  <2>q. QED
    BY <1>m, <1>s, <1>v, <1>2, <2>1, <2>2 DEF OpenTab, CloseModal, page, result
<1>3. CASE ListRows
  <2>1. Charged(F)'
    <3>1. faults' >= faults
      BY <1>n, <1>3 DEF ListRows
    <3>q. QED
      BY <1>1, <1>n, <1>3, <3>1, ChargedFrame DEF ListRows, result
  <2>2. F # total => Dealing(F)'
    <3>1. SUFFICES ASSUME F # total PROVE Dealing(F)'
      OBVIOUS
    <3>2. pc = "list" /\ pc' = "row"
      BY <1>3 DEF ListRows
    <3>3. Between(F) /\ F < total
      BY <1>1, <1>n, <3>1, <3>2 DEF Dealing, Within
    <3>4. \E t \in 1 .. LastTop : \E c \in FirstAt(t) .. LastAt(t) + 1 :
            PassAt(F, t, c)'
      BY <1>m, <1>3, <3>3, ListPass
    <3>q. QED
      BY <1>c, <3>2, <3>4 DEF Dealing, Within
  <2>q. QED
    BY <1>f, <1>m, <1>s, <1>v, <1>3, <2>1, <2>2 DEF ListRows, page, result
<1>4. CASE Finish
  <2>1. Charged(F)'
    BY <1>1, <1>n, <1>4, ChargedFrame DEF Finish, result
  <2>2. F # total => Dealing(F)'
    <3>1. SUFFICES ASSUME F # total PROVE Dealing(F)'
      OBVIOUS
    <3>2. pc' = "end" /\ UNCHANGED <<total, limit, docs, no_progress, lost>>
      BY <1>4 DEF Finish, page, loop, result
    <3>3. CASE ~Wanted
      <4>1. Len(docs) = limit
        <5>1. Len(docs) \in Nat /\ limit \in Nat /\ Len(docs) <= limit
          BY <1>t, ListAssumption DEF IInv, WithinLimit, TypeOK
        <5>q. QED
          BY <3>3, <5>1 DEF Wanted
      <4>q. QED
        BY <3>2, <4>1 DEF Dealing
    <3>4. CASE Wanted
      <4>1. pc = "list" /\ ~(no_progress < MaxNoProgress)
        BY <1>4, <3>4 DEF Finish
      <4>2. no_progress = MaxNoProgress
        BY <1>t, <4>1, LoopAssumption DEF TypeOK
      <4>3. Between(F)
        BY <1>1, <3>1, <4>1 DEF Dealing, Within
      <4>4. no_progress <= lost + Repeated(total)
        <5>1. CASE top < LastTop
          <6>1. /\ top + Window - 2 \in Nat /\ top + Window - 2 <= total
                /\ no_progress \in Nat /\ lost \in Nat
                /\ no_progress <= lost + Repeated(top + Window - 2)
            BY <1>t, <4>3, <5>1, Numbers DEF Between, Afforded
          <6>q. QED
            BY <1>n, <6>1, RepeatedNat, RepeatedGrows
        <5>q. QED
          BY <4>3, <5>1 DEF Between
      <4>5. (no_progress = MaxNoProgress /\ no_progress <= lost + Repeated(total))'
        BY <3>2, <4>2, <4>4 DEF Repeated, DocsUpTo
      <4>q. QED
        BY <3>2, <4>5 DEF Dealing
    <3>q. QED
      BY <3>3, <3>4
  <2>q. QED
    BY <1>f, <1>s, <1>v, <1>4, <2>1, <2>2 DEF Finish, page, result
<1>5. CASE OpenModal \/ OpenFails
  <2>1. /\ pc = "row" /\ modal = 0 /\ (pc' = "row" => modal' = modal)
        /\ UNCHANGED <<limit, docs, no_progress>> /\ todo # {}
        /\ (Reached = {} /\ Passes) \/ \E r \in Reached : Opens(r)
    BY <1>m, <1>5, Outcomes
  <2>p. Within /\ Within' /\ pc' \in {"row", "close", "download"}
    BY <2>1 DEF Within, Passes, Opens
  <2>2. Shown /\ (F = total => Charged(F)')
    <3>1. CASE Reached = {} /\ Passes
      <4>1. Charged(F)'
        BY <1>1, <1>n, <2>1, <3>1, ChargedFrame DEF Passes
      <4>q. QED
        BY <1>0, <1>v, <3>1, <4>1 DEF Passes
    <3>2. CASE \E r \in Reached : Opens(r)
      <4>1. PICK r \in Reached : Opens(r)
        BY <3>2
      <4>2. r \in Nat /\ r >= top /\ r >= 1 /\ r <= total
        BY <1>t, Numbers DEF Reached, Rendered, BehindBanner
      <4>3. /\ Reveal(r) \in Nat /\ Reveal(r) >= top /\ Reveal(r) <= LastTop
            /\ r < Reveal(r) + Window
        BY <1>t, <1>m, <4>2, RevealAt
      <4>4. top' <= LastTop' /\ top' >= top
        BY <1>n, <1>m, <1>c, <4>1, <4>3 DEF Opens
      <4>5. InView'
        <5>1. CASE UNCHANGED done
          BY <1>0, <1>t, <1>m, <4>4, <5>1, InViewKept
        <5>2. CASE done' = done \cup {Doc[r]} /\ top' = Reveal(r)
          <6>1. ASSUME NEW d \in done'
                PROVE  \E q \in 1 .. total : q < Reveal(r) + Window /\ Doc[q] = d
            <7>1. CASE d \in done
              <8>1. PICK q \in 1 .. total : q < top + Window /\ Doc[q] = d
                BY <1>m, <7>1 DEF InView
              <8>2. q < Reveal(r) + Window
                BY <1>t, <1>n, <4>3, <8>1, Numbers
              <8>q. QED
                BY <8>1, <8>2
            <7>2. CASE d = Doc[r]
              <8>1. r \in 1 .. total
                BY <1>n, <4>2
              <8>q. QED
                BY <4>3, <7>2, <8>1
            <7>q. QED
              BY <5>2, <6>1, <7>1, <7>2
          <6>q. QED
            BY <1>0, <5>2, <6>1 DEF InView
        <5>q. QED
          BY <4>1, <5>1, <5>2 DEF Opens
      <4>6. F = total => Charged(F)'
        BY <1>1, <1>n, <2>1, <4>1, ChargedTry DEF Opens
      <4>q. QED
        BY <4>4, <4>5, <4>6
    <3>q. QED
      BY <2>1, <3>1, <3>2
  <2>3. CASE F = total
    BY <1>f, <1>s, <2>1, <2>p, <2>2, <2>3
  <2>4. CASE F # total
    <3>0. PICK t \in 1 .. LastTop :
            \E c \in FirstAt(t) .. LastAt(t) + 1 : PassAt(F, t, c)
      BY <1>1, <2>1, <2>4 DEF Dealing, Within
    <3>1. PICK c \in FirstAt(t) .. LastAt(t) + 1 : PassAt(F, t, c)
      BY <3>0
    <3>2. PICK G \in 0 .. total : /\ Charged(G)'
                                  /\ c + 1 \in FirstAt(t) .. LastAt(t) + 1
                                  /\ PassAt(G, t, c + 1)'
      <4>1. F < total
        BY <1>n, <2>4
      <4>q. QED
        BY <1>1, <1>m, <1>5, <2>1, <3>1, <4>1, TryRow
    <3>3. Dealing(G)'
      BY <1>c, <2>p, <3>1, <3>2 DEF Dealing
    <3>q. QED
      BY <1>0, <2>1, <2>p, <2>2, <3>2, <3>3
  <2>q. QED
    BY <2>3, <2>4
<1>6. CASE Download \/ DownloadFails
  <2>1. Charged(F)'
    BY <1>1, <1>n, <1>6, ChargedDownload
  <2>2. Dealing(F)'
    BY <1>1, <1>6, DealingKept DEF Download, DownloadFails, page, loop, Within
  <2>q. QED
    BY <1>s, <1>v, <1>6, <2>1, <2>2 DEF Download, DownloadFails, page
<1>7. CASE Scroll \/ ScrollFails
  <2>1. /\ modal = 0 /\ modal' = modal /\ pc = "row" /\ pc' = "list" /\ todo = {}
        /\ UNCHANGED <<docs, done>> /\ faults' >= faults
        /\ (top' = top \/ top' = Scrolled)
    BY <1>m, <1>n, <1>7 DEF Scroll, ScrollFails, page, result
  <2>2. Charged(F)'
    BY <1>1, <1>n, <2>1, ChargedFrame
  <2>3. Shown
    <3>1. Scrolled \in Nat /\ Scrolled >= top /\ Scrolled <= LastTop
      BY <1>t, <1>n, <1>m, Numbers DEF Scrolled
    <3>2. top' <= LastTop' /\ top' >= top
      BY <1>n, <1>m, <1>c, <2>1, <3>1
    <3>q. QED
      BY <1>0, <1>t, <1>m, <2>1, <3>2, InViewKept
  <2>4. F # total => Dealing(F)'
    <3>1. SUFFICES ASSUME F # total PROVE Dealing(F)'
      OBVIOUS
    <3>0. PICK t \in 1 .. LastTop :
            \E c \in FirstAt(t) .. LastAt(t) + 1 : PassAt(F, t, c)
      BY <1>1, <2>1, <3>1 DEF Dealing, Within
    <3>2. PICK c \in FirstAt(t) .. LastAt(t) + 1 : PassAt(F, t, c)
      BY <3>0
    <3>3. /\ t < LastTop /\ t <= top /\ top + Step <= F + 1
          /\ progressed \/ no_progress + 1 <= lost + Repeated(t + Window - 1)
      <4>1. F < total
        BY <1>n, <3>1
      <4>q. QED
        BY <1>m, <2>1, <3>2, <4>1, PassEnd
    <3>4. t \in Nat /\ t >= 1
      BY <1>n
    <3>5. Between(F)'
      BY <1>m, <1>7, <2>1, <3>3, <3>4, ScrollPass
    <3>q. QED
      BY <2>1, <3>5 DEF Dealing
  <2>q. QED
    BY <1>f, <1>s, <2>1, <2>2, <2>3, <2>4
<1>8. CASE NoRowsInTime \/ ListRaises \/ CurtainStays \/ CloseRaises \/ CurtainGoes
  BY <1>m, <1>8 DEF NoRowsInTime, ListRaises, CurtainStays, CloseRaises, CurtainGoes
<1>9. CASE UNCHANGED vars
  <2>1. Charged(F)'
    BY <1>1, <1>9 DEF vars, Charged, DocsUpTo, Delivered
  <2>2. Dealing(F)'
    <3>1. CASE pc = "end"
      BY <1>1, <1>9, <3>1 DEF Dealing, vars, Within, Repeated, DocsUpTo
    <3>2. CASE pc # "end"
      <4>1. ~Within => pc \in {"tab", "list"}
        BY <1>t, <1>0, <3>2 DEF TypeOK, Within
      <4>q. QED
        BY <1>1, <1>9, <3>2, <4>1, DealingKept DEF vars, Within
    <3>q. QED
      BY <3>1, <3>2
  <2>q. QED
    BY <1>m, <1>s, <1>v, <1>9, <2>1, <2>2 DEF vars
<1>q. QED
  BY <1>2, <1>3, <1>4, <1>5, <1>6, <1>7, <1>8, <1>9 DEF Next, Working, Failing

-----------------------------------------------------------------------------
LEMMA LossInvAlways == Steady => (Spec => []LossInv)
<1> SUFFICES ASSUME Steady PROVE Spec => []LossInv
  OBVIOUS
<1>1. IInv /\ IInv' /\ LossInv /\ [Next]_vars => LossInv'
  BY LossStep DEF IInv
<1>q. QED
  BY CollectInductive, LossInit, <1>1, PTL DEF Spec

(* Where a stale rank names a row the next clip shows (Steady): a           *)
(* collection that saw no curtain left behind loses at most one document    *)
(* per fault, for any list, limit, window and overscan, and for any number  *)
(* of faults, as long as the clicks and scrolls lost since a pass last met  *)
(* something new, and the rows that repeat a document, stay below the       *)
(* passes without progress that the loop tolerates (README.md:307-308, and  *)
(* that the unchanged scroll step still reaches every document,             *)
(* scraper.py:433-434).                                                     *)
THEOREM LossesAreIsolated == Steady => (Spec => []IsolatedLosses)
<1> SUFFICES ASSUME Steady PROVE Spec => []IsolatedLosses
  OBVIOUS
<1>1. ASSUME IInv, LossInv PROVE IsolatedLosses
  <2> SUFFICES ASSUME pc = "end", ~blocked, Quiet PROVE OneEach
    BY DEF IsolatedLosses
  <2>1. PICK F \in 0 .. total : Charged(F) /\ Dealing(F)
    BY <1>1 DEF LossInv
  <2>n. /\ F \in Nat /\ total \in Nat /\ faults \in Nat /\ lost \in Nat
        /\ Repeated(total) \in Nat /\ no_progress \in Nat
    BY <1>1, Numbers, RepeatedNat DEF IInv
  <2>2. CASE F = total
    <3>1. /\ IsFiniteSet((DocsUpTo(F) \cup done) \ Delivered)
          /\ Cardinality((DocsUpTo(F) \cup done) \ Delivered) <= faults
      BY <1>1, <2>1, <2>n, ChargedFinite DEF Charged
    <3>2. Missed \subseteq (DocsUpTo(F) \cup done) \ Delivered
      BY <2>2 DEF Missed
    <3>3. /\ Cardinality(Missed) <= Cardinality((DocsUpTo(F) \cup done) \ Delivered)
          /\ Cardinality(Missed) \in Nat
          /\ Cardinality((DocsUpTo(F) \cup done) \ Delivered) \in Nat
      BY <3>1, <3>2, FS_Subset, FS_CardinalityType
    <3>q. QED
      BY <2>n, <3>1, <3>3 DEF OneEach
  <2>3. CASE F # total
    <3>1. \/ Len(docs) = limit
          \/ no_progress = MaxNoProgress /\ no_progress <= lost + Repeated(total)
      BY <2>1, <2>3 DEF Dealing, Within
    <3>q. QED
      BY <2>n, <3>1 DEF Quiet, OneEach
  <2>q. QED
    BY <2>2, <2>3
<1>q. QED
  BY CollectInductive, LossInvAlways, <1>1, PTL

=============================================================================
