---------------------------- MODULE JobFilesProofs ----------------------------
(***************************************************************************)
(* Proofs about JobFiles: for every number of runs and instances, every    *)
(* set of batches and every number of faults.                              *)
(***************************************************************************)
EXTENDS JobFiles, FiniteSetTheorems, TLAPS

-----------------------------------------------------------------------------
(***************************************************************************)
(* The zip that is built.                                                  *)
(***************************************************************************)
LEMMA BeforeType ==
  ASSUME NEW ps, NEW j \in Nat
  PROVE  Before(ps, j) \in Nat
<1>1. IsFiniteSet(1 .. j - 1)
  BY FS_Interval
<1>2. {k \in 1 .. j - 1 : ps[k] = ps[j]} \subseteq 1 .. j - 1
  OBVIOUS
<1>3. IsFiniteSet({k \in 1 .. j - 1 : ps[k] = ps[j]})
  BY <1>1, <1>2, FS_Subset
<1>. QED
  BY <1>3, FS_CardinalityType DEF Before

(* Every entry of a zip is a file of the run that builds it. *)
LEMMA ZippedType ==
  ASSUME TypeOK, NEW r \in Runs, NEW i \in 0 .. Len(paths[r]), NEW stuck
  PROVE  /\ Zipped(r, i, stuck) \subseteq Entries
         /\ \A e \in Zipped(r, i, stuck) : e[1] = r
<1>1. paths[r] \in Seq(Names)
  BY DEF TypeOK
<1>2. Len(paths[r]) \in Nat
  BY <1>1
<1>. SUFFICES ASSUME NEW e \in Zipped(r, i, stuck)
              PROVE  e \in Entries /\ e[1] = r
  OBVIOUS
<1>3. PICK j \in 1 .. i : e = <<r, paths[r][j], 0>>
                          \/ e = <<r, paths[r][j], Before(paths[r], j)>>
  BY DEF Zipped
<1>4. j \in 1 .. Len(paths[r]) /\ j \in Nat
  BY <1>2
<1>5. paths[r][j] \in Names
  BY <1>1, <1>4
<1>6. Before(paths[r], j) \in Nat
  BY <1>4, BeforeType
<1>. QED
  BY <1>3, <1>5, <1>6 DEF Entries

(* A zip that went through all the paths has every one of them. *)
LEMMA ZippedWhole ==
  ASSUME TypeOK, NEW r \in Runs, NEW stuck, NEW z,
         z.entries = Opened(host[r]) \cup Zipped(r, Len(paths[r]), stuck)
  PROVE  Whole(r, z)
<1>1. z.entries = Zipped(r, Len(paths[r]), stuck)
  BY DEF Opened
<1>2. Len(paths[r]) \in Nat
  BY DEF TypeOK
<1>3. \A e \in z.entries : e[1] = r
  BY <1>1, <1>2, ZippedType
<1>4. ASSUME NEW i \in 1 .. Len(paths[r])
      PROVE  \E e \in z.entries : e[2] = paths[r][i]
  <2>1. <<r, paths[r][i], 0>> \in z.entries
    BY <1>1 DEF Zipped
  <2>. QED
    BY <2>1
<1>. QED
  BY <1>3, <1>4 DEF Whole

LEMMA SourcesType ==
  ASSUME TypeOK, NEW r \in Runs, dir[r] # None, NEW i, NEW stuck
  PROVE  Sources(r, i, stuck) \in SUBSET Names
BY DEF TypeOK, Sources

-----------------------------------------------------------------------------
(***************************************************************************)
(* What a step of one run leaves alone.                                    *)
(***************************************************************************)
(* The places a run acts from. *)
LEMMA ActPlace ==
  ASSUME TypeOK, NEW r \in Runs, Act(r)
  PROVE  /\ pc[r] # "over"
         /\ pc[r] = "idle" => Start(r)
         /\ ~Start(r) => r \in UnderWay
BY DEF TypeOK, Labels, Act, Step, Failing, UnderWay, Start, Deliver, NothingToFetch, ScrapeLeaves, Build, BuildFails, Upload, UploadFails, Unlink, Reply, ReplyFails, Cleanup

LEMMA Frame ==
  ASSUME TypeOK, NEW r \in Runs, Act(r), NEW q \in Runs, q # r
  PROVE  /\ pc'[q] = pc[q] /\ paths'[q] = paths[q] /\ dir'[q] = dir[q]
         /\ cleanup'[q] = cleanup[q] /\ mail'[q] = mail[q]
<1>1. CASE Start(r)
  BY <1>1 DEF TypeOK, Start, Goto
<1>2. CASE Deliver(r)
  BY <1>2 DEF TypeOK, Deliver, Goto
<1>3. CASE NothingToFetch(r)
  BY <1>3 DEF TypeOK, NothingToFetch, Goto
<1>4. CASE ScrapeLeaves(r)
  BY <1>4 DEF TypeOK, ScrapeLeaves, Goto
<1>5. CASE Build(r)
  BY <1>5 DEF TypeOK, Build, Goto
<1>6. CASE BuildFails(r)
  BY <1>6 DEF TypeOK, BuildFails, Goto
<1>7. CASE Upload(r)
  BY <1>7 DEF TypeOK, Upload, Goto
<1>8. CASE UploadFails(r)
  BY <1>8 DEF TypeOK, UploadFails, Goto
<1>9. CASE Unlink(r)
  BY <1>9 DEF TypeOK, Unlink, Goto
<1>10. CASE Reply(r)
  BY <1>10 DEF TypeOK, Reply, Goto
<1>11. CASE ReplyFails(r)
  BY <1>11 DEF TypeOK, ReplyFails, Goto
<1>12. CASE Cleanup(r)
  BY <1>12 DEF TypeOK, Cleanup, Goto
<1>. QED
  BY <1>1, <1>2, <1>3, <1>4, <1>5, <1>6, <1>7, <1>8, <1>9, <1>10, <1>11, <1>12
  DEF Act, Step, Failing

(* A run only writes the zip of its own instance. *)
LEMMA FrameZip ==
  ASSUME TypeOK, NEW r \in Runs, Act(r)
  PROVE  host' = host /\ \A h \in Hosts : h # host[r] => zip'[h] = zip[h]
<1>0. zip \in [Hosts -> {None} \cup Zips]
  BY DEF TypeOK
<1>1. CASE Start(r)
  BY <1>0, <1>1 DEF Start
<1>2. CASE Deliver(r)
  BY <1>0, <1>2 DEF Deliver
<1>3. CASE NothingToFetch(r)
  BY <1>0, <1>3 DEF NothingToFetch
<1>4. CASE ScrapeLeaves(r)
  BY <1>0, <1>4 DEF ScrapeLeaves
<1>5. CASE Build(r)
  BY <1>0, <1>5 DEF Build
<1>6. CASE BuildFails(r)
  BY <1>0, <1>6 DEF BuildFails
<1>7. CASE Upload(r)
  BY <1>0, <1>7 DEF Upload
<1>8. CASE UploadFails(r)
  BY <1>0, <1>8 DEF UploadFails
<1>9. CASE Unlink(r)
  BY <1>0, <1>9 DEF Unlink
<1>10. CASE Reply(r)
  BY <1>0, <1>10 DEF Reply
<1>11. CASE ReplyFails(r)
  BY <1>0, <1>11 DEF ReplyFails
<1>12. CASE Cleanup(r)
  BY <1>0, <1>12 DEF Cleanup
<1>. QED
  BY <1>1, <1>2, <1>3, <1>4, <1>5, <1>6, <1>7, <1>8, <1>9, <1>10, <1>11, <1>12
  DEF Act, Step, Failing

(* The runs that a run has met only become more. *)
LEMMA MetGrows ==
  ASSUME TypeOK, PlaceInv, NEW r \in Runs, Act(r), NEW q \in Runs
  PROVE  met[q] \subseteq met'[q]
<1>1. CASE Start(r)
  BY <1>1 DEF TypeOK, PlaceInv, Start
<1>2. CASE ~Start(r)
  <2>1. met' = met
    BY <1>2 DEF Act, Step, Failing, Deliver, NothingToFetch, ScrapeLeaves, Build, BuildFails, Upload, UploadFails, Unlink, Reply, ReplyFails, Cleanup
  <2>. QED
    BY <2>1
<1>. QED
  BY <1>1, <1>2

-----------------------------------------------------------------------------
(***************************************************************************)
(* Types.                                                                  *)
(***************************************************************************)
LEMMA FaultType ==
  ASSUME TypeOK, NEW k, Fault(k)
  PROVE  faults' \in 0 .. MaxFaults
BY FaultAssumption DEF TypeOK, Fault

LEMMA SpillType ==
  ASSUME TypeOK, SpillInv, NEW k, Spill(k)
  PROVE  /\ faults' \in 0 .. MaxFaults /\ spilled' \in 0 .. MaxFaults
         /\ spilled' = spilled + 1 /\ spilled' <= faults'
BY FaultAssumption DEF TypeOK, SpillInv, Fault, Spill

LEMMA BatchType ==
  ASSUME NEW b \in Batches
  PROVE  /\ b.paths \in Seq(Names) /\ b.paths # <<>>
         /\ {b.paths[i] : i \in 1 .. Len(b.paths)} \cup b.strays \in SUBSET Names
<1>1. b.paths \in Seq(Names) /\ b.paths # <<>> /\ b.strays \in SUBSET Names
  BY NameAssumption DEF Batch
<1>2. \A i \in 1 .. Len(b.paths) : b.paths[i] \in Names
  BY <1>1
<1>. QED
  BY <1>1, <1>2

(* A zip that is written is a set of entries. *)
LEMMA ZipType ==
  ASSUME TypeOK, NEW r \in Runs, NEW i \in 0 .. Len(paths[r]), NEW stuck
  PROVE  /\ [entries |-> Zipped(r, i, stuck)] \in Zips
         /\ [entries |-> Opened(host[r]) \cup Zipped(r, i, stuck)] \in Zips
BY ZippedType DEF Zips, Opened

LEMMA InitType == Init => TypeOK
<1>. SUFFICES ASSUME Init PROVE TypeOK
  OBVIOUS
<1>1. paths \in [Runs -> Seq(Names)]
  BY DEF Init
<1>2. /\ pc \in [Runs -> Labels] /\ dir \in [Runs -> {None} \cup SUBSET Names]
      /\ cleanup \in [Runs -> SUBSET {"dir", "zip"}]
      /\ met \in [Runs -> SUBSET Runs]
  BY DEF Init, Labels
<1>3. /\ zip \in [Hosts -> {None} \cup Zips] /\ object \in {None} \cup Zips
      /\ mail \in [Runs -> {None} \cup [tier : Tiers, zip : Zips]]
  BY DEF Init
<1>4. spilled \in 0 .. MaxFaults /\ faults \in 0 .. MaxFaults
  BY FaultAssumption DEF Init
<1>. QED
  BY <1>1, <1>2, <1>3, <1>4 DEF Init, TypeOK

LEMMA StepType == IInv /\ [Next]_vars => TypeOK'
<1>. SUFFICES ASSUME IInv, [Next]_vars PROVE TypeOK'
  OBVIOUS
<1>0. TypeOK /\ SpillInv /\ PlaceInv /\ ObjectInv
  BY DEF IInv
<1>a. ASSUME NEW r \in Runs, NEW l \in Labels, Goto(r, l)
      PROVE  pc' \in [Runs -> Labels]
  BY <1>0, <1>a DEF TypeOK, Goto
<1>1. ASSUME NEW r \in Runs, Act(r) PROVE TypeOK'
  <2>1. CASE Start(r)
    <3>1. met' \in [Runs -> SUBSET Runs]
      BY <1>0, <2>1 DEF Start, TypeOK, UnderWay
    <3>2. pc' \in [Runs -> Labels]
      BY <1>a, <2>1 DEF Start, Labels
    <3>. QED
      BY <1>0, <2>1, <3>1, <3>2 DEF TypeOK, Start
  <2>2. CASE Deliver(r)
    <3>1. PICK b \in Batches :
            /\ paths' = [paths EXCEPT ![r] = b.paths]
            /\ dir' = [dir EXCEPT ![r] =
                         {b.paths[i] : i \in 1 .. Len(b.paths)} \cup b.strays]
      BY <2>2 DEF Deliver
    <3>2. paths' \in [Runs -> Seq(Names)] /\ dir' \in [Runs -> {None} \cup SUBSET Names]
      BY <1>0, <3>1, BatchType DEF TypeOK
    <3>3. pc' \in [Runs -> Labels] /\ cleanup' \in [Runs -> SUBSET {"dir", "zip"}]
      BY <1>0, <1>a, <2>2 DEF Deliver, Labels, TypeOK
    <3>. QED
      BY <1>0, <2>2, <3>2, <3>3 DEF TypeOK, Deliver
  <2>3. CASE NothingToFetch(r)
    <3>1. pc' \in [Runs -> Labels]
      BY <1>a, <2>3 DEF NothingToFetch, Labels
    <3>. QED
      BY <1>0, <2>3, <3>1 DEF TypeOK, NothingToFetch
  <2>4. CASE ScrapeLeaves(r)
    <3>1. pc' \in [Runs -> Labels] /\ dir' \in [Runs -> {None} \cup SUBSET Names]
      BY <1>0, <1>a, <2>4 DEF ScrapeLeaves, Labels, TypeOK
    <3>2. spilled' \in 0 .. MaxFaults /\ faults' \in 0 .. MaxFaults
      BY <1>0, <2>4, SpillType DEF ScrapeLeaves
    <3>. QED
      BY <1>0, <2>4, <3>1, <3>2 DEF TypeOK, ScrapeLeaves
  <2>5. CASE Build(r)
    <3>1. PICK stuck \in SUBSET Names :
            /\ IF stuck = {} THEN UNCHANGED faults ELSE Fault("unlink")
            /\ zip' = [zip EXCEPT ![host[r]] =
                 [entries |-> Opened(host[r]) \cup Zipped(r, Len(paths[r]), stuck)]]
            /\ dir' = [dir EXCEPT ![r] = Sources(r, Len(paths[r]), stuck)]
      BY <2>5 DEF Build
    <3>2. Len(paths[r]) \in 0 .. Len(paths[r])
      BY <1>0 DEF TypeOK
    <3>3. zip' \in [Hosts -> {None} \cup Zips]
      BY <1>0, <3>1, <3>2, ZipType DEF TypeOK
    <3>4. dir[r] # None
      BY <1>0, <2>5 DEF PlaceInv, Build
    <3>5. dir' \in [Runs -> {None} \cup SUBSET Names]
      BY <1>0, <3>1, <3>4, SourcesType DEF TypeOK
    <3>6. faults' \in 0 .. MaxFaults
      BY <1>0, <3>1, FaultType DEF TypeOK
    <3>7. pc' \in [Runs -> Labels]
      BY <1>a, <2>5 DEF Build, Labels
    <3>8. cleanup' \in [Runs -> SUBSET {"dir", "zip"}]
      <4>1. \/ cleanup' = [cleanup EXCEPT ![r] = cleanup[r] \cup {"zip"}]
            \/ cleanup' = cleanup
        BY <2>5 DEF Build
      <4>2. cleanup \in [Runs -> SUBSET {"dir", "zip"}]
        BY <1>0 DEF TypeOK
      <4>3. cleanup[r] \cup {"zip"} \in SUBSET {"dir", "zip"}
        BY <4>2
      <4>. QED
        BY <4>1, <4>2, <4>3
    <3>. QED
      BY <1>0, <2>5, <3>3, <3>5, <3>6, <3>7, <3>8 DEF TypeOK, Build
  <2>6. CASE BuildFails(r)
    <3>1. PICK i \in 0 .. Len(paths[r]) :
            /\ zip' = [zip EXCEPT ![host[r]] = [entries |-> Zipped(r, i, {})]]
            /\ dir' = [dir EXCEPT ![r] = Sources(r, i, {})]
      BY <2>6 DEF BuildFails
    <3>2. zip' \in [Hosts -> {None} \cup Zips]
      BY <1>0, <3>1, ZipType DEF TypeOK
    <3>3. dir[r] # None
      BY <1>0, <2>6 DEF PlaceInv, BuildFails
    <3>4. dir' \in [Runs -> {None} \cup SUBSET Names]
      BY <1>0, <3>1, <3>3, SourcesType DEF TypeOK
    <3>5. spilled' \in 0 .. MaxFaults /\ faults' \in 0 .. MaxFaults
      BY <1>0, <2>6, SpillType DEF BuildFails
    <3>6. pc' \in [Runs -> Labels]
      BY <1>a, <2>6 DEF BuildFails, Labels
    <3>. QED
      BY <1>0, <2>6, <3>2, <3>4, <3>5, <3>6 DEF TypeOK, BuildFails
  <2>7. CASE Upload(r)
    <3>1. pc' \in [Runs -> Labels]
      BY <1>a, <2>7 DEF Upload, Labels
    <3>2. object' \in {None} \cup Zips
      BY <1>0, <2>7 DEF Upload, TypeOK
    <3>. QED
      BY <1>0, <2>7, <3>1, <3>2 DEF TypeOK, Upload
  <2>8. CASE UploadFails(r)
    <3>1. pc' \in [Runs -> Labels]
      BY <1>a, <2>8 DEF UploadFails, Labels
    <3>2. object' \in {None} \cup Zips
      BY <1>0, <2>8 DEF UploadFails, TypeOK
    <3>3. spilled' \in 0 .. MaxFaults /\ faults' \in 0 .. MaxFaults
      BY <1>0, <2>8, SpillType DEF UploadFails, TypeOK
    <3>. QED
      BY <1>0, <2>8, <3>1, <3>2, <3>3 DEF TypeOK, UploadFails
  <2>9. CASE Unlink(r)
    <3>1. pc' \in [Runs -> Labels]
      BY <1>a, <2>9 DEF Unlink, Labels
    <3>2. zip' \in [Hosts -> {None} \cup Zips]
      BY <1>0, <2>9 DEF Unlink, TypeOK
    <3>3. spilled' \in 0 .. MaxFaults /\ faults' \in 0 .. MaxFaults
      BY <1>0, <2>9, SpillType DEF Unlink, TypeOK
    <3>. QED
      BY <1>0, <2>9, <3>1, <3>2, <3>3 DEF TypeOK, Unlink
  <2>10. CASE Reply(r)
    <3>1. pc' \in [Runs -> Labels]
      BY <1>a, <2>10 DEF Reply, Labels
    <3>2. mail' \in [Runs -> {None} \cup [tier : Tiers, zip : Zips]]
      <4>1. CASE "zip" \in cleanup[r]
        <5>1. zip[host[r]] \in Zips
          BY <1>0, <2>10, <4>1 DEF Reply, TypeOK
        <5>2. [tier |-> "attach", zip |-> zip[host[r]]] \in [tier : Tiers, zip : Zips]
          BY <5>1 DEF Tiers
        <5>3. mail' = [mail EXCEPT ![r] = [tier |-> "attach", zip |-> zip[host[r]]]]
          BY <2>10, <4>1 DEF Reply
        <5>. QED
          BY <1>0, <5>2, <5>3 DEF TypeOK
      <4>2. CASE "zip" \notin cleanup[r]
        <5>1. object \in Zips
          BY <1>0, <2>10, <4>2 DEF Reply, TypeOK, ObjectInv, NeedsObject
        <5>. QED
          BY <1>0, <2>10, <4>2, <5>1 DEF Reply, TypeOK, Tiers
      <4>. QED
        BY <4>1, <4>2
    <3>. QED
      BY <1>0, <2>10, <3>1, <3>2 DEF TypeOK, Reply
  <2>11. CASE ReplyFails(r)
    <3>1. pc' \in [Runs -> Labels]
      BY <1>a, <2>11 DEF ReplyFails, Labels
    <3>2. faults' \in 0 .. MaxFaults
      BY <1>0, <2>11, FaultType DEF ReplyFails, TypeOK
    <3>. QED
      BY <1>0, <2>11, <3>1, <3>2 DEF TypeOK, ReplyFails
  <2>12. CASE Cleanup(r)
    <3>1. pc' \in [Runs -> Labels]
      BY <1>a, <2>12 DEF Cleanup, Labels
    <3>2. zip' \in [Hosts -> {None} \cup Zips] /\ dir' \in [Runs -> {None} \cup SUBSET Names]
      BY <1>0, <2>12 DEF Cleanup, TypeOK
    <3>3. spilled' \in 0 .. MaxFaults /\ faults' \in 0 .. MaxFaults
      BY <1>0, <2>12, SpillType DEF Cleanup, TypeOK
    <3>. QED
      BY <1>0, <2>12, <3>1, <3>2, <3>3 DEF TypeOK, Cleanup
  <2>. QED
    BY <1>1, <2>1, <2>2, <2>3, <2>4, <2>5, <2>6, <2>7, <2>8, <2>9, <2>10, <2>11, <2>12
    DEF Act, Step, Failing
<1>2. CASE UNCHANGED vars
  BY <1>0, <1>2 DEF TypeOK, vars
<1>. QED
  BY <1>1, <1>2 DEF Next

-----------------------------------------------------------------------------
(***************************************************************************)
(* What a run has by the time it is somewhere, and whom it has met.        *)
(***************************************************************************)
Place(r) ==
  /\ pc[r] = "idle" => dir[r] = None /\ met[r] = {}
  /\ pc[r] = "package" => dir[r] # None
  /\ pc[r] \in {"idle", "scrape"} => paths[r] = <<>> /\ cleanup[r] = {}
  /\ pc[r] \in {"package", "upload", "unlink", "reply"} => paths[r] # <<>>
  /\ pc[r] \in {"package", "upload", "unlink"} => "zip" \notin cleanup[r]
  /\ pc[r] \notin {"finally", "over"} => mail[r] = None
  /\ pc[r] = "over" /\ "dir" \in cleanup[r] => dir[r] = None

LEMMA PlaceEach == PlaceInv <=> \A r \in Runs : Place(r)
BY DEF PlaceInv, Place

LEMMA StepPlace ==
  ASSUME IInv, NEW r \in Runs, Act(r)
  PROVE  PlaceInv'
<1>0. TypeOK /\ PlaceInv /\ Place(r)
  BY PlaceEach DEF IInv
<1>1. Place(r)'
  <2>1. CASE Start(r)
    BY <1>0, <2>1 DEF TypeOK, Place, Start, Goto
  <2>2. CASE Deliver(r)
    <3>1. PICK b \in Batches :
            /\ paths' = [paths EXCEPT ![r] = b.paths]
            /\ dir' = [dir EXCEPT ![r] =
                         {b.paths[i] : i \in 1 .. Len(b.paths)} \cup b.strays]
      BY <2>2 DEF Deliver
    <3>2. dir'[r] \in SUBSET Names /\ paths'[r] # <<>>
      BY <1>0, <3>1, BatchType DEF TypeOK
    <3>3. dir'[r] # None
      BY <3>2, NameAssumption
    <3>4. /\ pc'[r] = "package" /\ cleanup'[r] = {"dir"} /\ mail' = mail
          /\ pc[r] = "scrape"
      BY <1>0, <2>2 DEF TypeOK, Deliver, Goto
    <3>. QED
      BY <1>0, <3>2, <3>3, <3>4 DEF Place
  <2>3. CASE NothingToFetch(r)
    BY <1>0, <2>3 DEF TypeOK, Place, NothingToFetch, Goto
  <2>4. CASE ScrapeLeaves(r)
    BY <1>0, <2>4 DEF TypeOK, Place, ScrapeLeaves, Goto
  <2>5. CASE Build(r)
    <3>1. /\ pc'[r] \in {"reply", "upload"} /\ mail' = mail /\ paths' = paths
          /\ pc[r] = "package"
      BY <1>0, <2>5 DEF TypeOK, Build, Goto
    <3>2. pc'[r] = "upload" => cleanup'[r] = cleanup[r]
      BY <1>0, <2>5 DEF TypeOK, Build, Goto
    <3>. QED
      BY <1>0, <3>1, <3>2 DEF Place
  <2>6. CASE BuildFails(r)
    BY <1>0, <2>6 DEF TypeOK, Place, BuildFails, Goto
  <2>7. CASE Upload(r)
    BY <1>0, <2>7 DEF TypeOK, Place, Upload, Goto
  <2>8. CASE UploadFails(r)
    BY <1>0, <2>8 DEF TypeOK, Place, UploadFails, Goto
  <2>9. CASE Unlink(r)
    BY <1>0, <2>9 DEF TypeOK, Place, Unlink, Goto
  <2>10. CASE Reply(r)
    BY <1>0, <2>10 DEF TypeOK, Place, Reply, Goto
  <2>11. CASE ReplyFails(r)
    BY <1>0, <2>11 DEF TypeOK, Place, ReplyFails, Goto
  <2>12. CASE Cleanup(r)
    BY <1>0, <2>12 DEF TypeOK, Place, Cleanup, Goto
  <2>. QED
    BY <2>1, <2>2, <2>3, <2>4, <2>5, <2>6, <2>7, <2>8, <2>9, <2>10, <2>11, <2>12
    DEF Act, Step, Failing
<1>2. ASSUME NEW q \in Runs, q # r PROVE Place(q)'
  <2>1. /\ pc'[q] = pc[q] /\ paths'[q] = paths[q] /\ dir'[q] = dir[q]
        /\ cleanup'[q] = cleanup[q] /\ mail'[q] = mail[q]
    BY <1>0, <1>2, Frame
  <2>2. Place(q)
    BY <1>0, PlaceEach
  <2>3. pc[q] = "idle" => met'[q] = {}
    <3>1. CASE Start(r)
      BY <1>0, <1>2, <2>2, <3>1 DEF TypeOK, Place, Start, UnderWay
    <3>2. CASE ~Start(r)
      BY <2>2, <3>2 DEF Place, Act, Step, Failing, Deliver, NothingToFetch, ScrapeLeaves, Build, BuildFails, Upload, UploadFails, Unlink, Reply, ReplyFails, Cleanup
    <3>. QED
      BY <3>1, <3>2
  <2>. QED
    BY <2>1, <2>2, <2>3 DEF Place
<1>3. \A q \in Runs : Place(q)'
  BY <1>1, <1>2
<1>. QED
  BY <1>3 DEF PlaceInv, Place

LEMMA StepMet ==
  ASSUME IInv, NEW r \in Runs, Act(r)
  PROVE  MetInv'
<1>0. TypeOK /\ MetInv
  BY DEF IInv
<1>1. CASE Start(r)
  <2>1. /\ UnderWay' = UnderWay \cup {r}
        /\ r \notin UnderWay
    BY <1>0, <1>1 DEF TypeOK, Start, Goto, UnderWay
  <2>2. met'[r] = UnderWay /\ \A q \in UnderWay : met'[q] = met[q] \cup {r}
    BY <1>0, <1>1, <2>1 DEF TypeOK, Start, UnderWay
  <2>. QED
    BY <1>0, <2>1, <2>2 DEF MetInv
<1>2. CASE ~Start(r)
  <2>1. met' = met
    BY <1>2 DEF Act, Step, Failing, Deliver, NothingToFetch, ScrapeLeaves, Build, BuildFails, Upload, UploadFails, Unlink, Reply, ReplyFails, Cleanup
  <2>2. r \in UnderWay
    BY <1>0, <1>2, ActPlace
  <2>3. UnderWay' \subseteq UnderWay
    BY <1>0, <2>2, Frame DEF UnderWay
  <2>. QED
    BY <1>0, <2>1, <2>3 DEF MetInv
<1>. QED
  BY <1>1, <1>2

LEMMA StepTier ==
  ASSUME IInv, NEW r \in Runs, Act(r)
  PROVE  TierInv'
<1>0. TypeOK /\ PlaceInv /\ TierInv /\ Place(r)
  BY PlaceEach DEF IInv
<1>1. mail'[r] # None => (mail'[r].tier = "attach" <=> "zip" \in cleanup'[r])
  <2>1. CASE Reply(r)
    BY <1>0, <2>1 DEF TypeOK, Reply
  <2>2. CASE Deliver(r) \/ Build(r)
    BY <1>0, <2>2 DEF Place, Deliver, Build
  <2>3. CASE ~(Reply(r) \/ Deliver(r) \/ Build(r))
    <3>1. mail' = mail /\ cleanup' = cleanup
      BY <2>3 DEF Act, Step, Failing, Start, NothingToFetch, ScrapeLeaves, BuildFails, Upload, UploadFails, Unlink, ReplyFails, Cleanup
    <3>. QED
      BY <1>0, <3>1 DEF TierInv
  <2>. QED
    BY <2>1, <2>2, <2>3
<1>2. ASSUME NEW q \in Runs, q # r
      PROVE  mail'[q] # None => (mail'[q].tier = "attach" <=> "zip" \in cleanup'[q])
  BY <1>0, <1>2, Frame DEF TierInv
<1>. QED
  BY <1>1, <1>2 DEF TierInv

-----------------------------------------------------------------------------
(***************************************************************************)
(* Zips, the uploaded object and the mails.                                *)
(***************************************************************************)
(* A run that is alone after a step of another was so before it, and what  *)
(* a whole zip of it is has not changed.                                   *)
LEMMA OtherAlone ==
  ASSUME IInv, NEW r \in Runs, Act(r), NEW q \in Runs, q # r
  PROVE  /\ Alone(q)' => Alone(q)
         /\ paths'[q] = paths[q]
         /\ NeedsZip(q)' <=> NeedsZip(q)
         /\ NeedsObject(q)' <=> NeedsObject(q)
<1>0. TypeOK /\ PlaceInv
  BY DEF IInv
<1>1. /\ pc'[q] = pc[q] /\ paths'[q] = paths[q] /\ cleanup'[q] = cleanup[q]
      /\ host' = host /\ met[q] \subseteq met'[q]
  BY <1>0, Frame, FrameZip, MetGrows
<1>2. Alone(q)' => Alone(q)
  <2>1. met'[q] = {} => met[q] = {}
    BY <1>1
  <2>2. (\A p \in met'[q] : host'[p] # host'[q]) => \A p \in met[q] : host[p] # host[q]
    BY <1>1
  <2>. QED
    BY <1>1, <2>1, <2>2 DEF Alone
<1>. QED
  BY <1>1, <1>2 DEF NeedsZip, NeedsObject

(* The same for its own steps, where they change neither its paths nor what *)
(* it notes for the cleanup.                                               *)
LEMMA OwnAlone ==
  ASSUME NEW r, host' = host, met' = met, paths' = paths, cleanup' = cleanup
  PROVE  Alone(r)' <=> Alone(r)
BY DEF Alone

(* Two runs under way on one instance: neither is alone. *)
LEMMA NotAlone ==
  ASSUME IInv, NEW r \in UnderWay, NEW q \in UnderWay, q # r, Alone(q)
  PROVE  "zip" \in cleanup[q] /\ host[q] # host[r]
<1>1. r \in met[q]
  BY DEF IInv, MetInv
<1>. QED
  BY <1>1 DEF Alone

LEMMA StepZip ==
  ASSUME IInv, NEW r \in Runs, Act(r)
  PROVE  ZipInv'
<1>0. TypeOK /\ PlaceInv /\ ZipInv /\ Place(r)
  BY PlaceEach DEF IInv
<1>1. ASSUME NEW q \in Runs, q # r, NeedsZip(q)', Alone(q)'
      PROVE  zip'[host'[q]] # None /\ Whole(q, zip[host[q]])'
  <2>1. NeedsZip(q) /\ Alone(q) /\ paths'[q] = paths[q]
    BY <1>1, OtherAlone
  <2>2. zip[host[q]] # None /\ Whole(q, zip[host[q]])
    BY <1>0, <2>1 DEF ZipInv
  <2>3. zip'[host'[q]] = zip[host[q]]
    <3>1. CASE Start(r)
      BY <3>1 DEF Start
    <3>2. CASE ~Start(r)
      <4>1. r \in UnderWay /\ q \in UnderWay
        BY <1>0, <2>1, <3>2, ActPlace DEF UnderWay, NeedsZip
      <4>2. host[q] # host[r]
        BY <1>1, <2>1, <4>1, NotAlone
      <4>3. host[q] \in Hosts
        BY <1>0 DEF TypeOK
      <4>. QED
        BY <1>0, <4>2, <4>3, FrameZip
    <3>. QED
      BY <3>1, <3>2
  <2>. QED
    BY <2>1, <2>2, <2>3 DEF Whole
<1>2. ASSUME NeedsZip(r)', Alone(r)'
      PROVE  zip'[host'[r]] # None /\ Whole(r, zip[host[r]])'
  <2>1. CASE Build(r)
    <3>1. PICK stuck \in SUBSET Names :
            zip' = [zip EXCEPT ![host[r]] =
              [entries |-> Opened(host[r]) \cup Zipped(r, Len(paths[r]), stuck)]]
      BY <2>1 DEF Build
    <3>2. host' = host /\ paths' = paths
      BY <2>1 DEF Build
    <3>3. zip'[host[r]] =
            [entries |-> Opened(host[r]) \cup Zipped(r, Len(paths[r]), stuck)]
      BY <1>0, <3>1 DEF TypeOK
    <3>4. Whole(r, zip'[host[r]])
      <4>1. zip'[host[r]].entries =
              Opened(host[r]) \cup Zipped(r, Len(paths[r]), stuck)
        BY <3>3
      <4>. QED
        BY <1>0, <4>1, ZippedWhole
    <3>5. zip'[host[r]] \in Zips
      <4>1. Len(paths[r]) \in 0 .. Len(paths[r])
        BY <1>0 DEF TypeOK
      <4>. QED
        BY <1>0, <3>3, <4>1, ZipType
    <3>6. Whole(r, zip[host[r]])'
      BY <3>2, <3>4 DEF Whole
    <3>. QED
      BY <3>2, <3>5, <3>6, NameAssumption
  <2>2. CASE ~Build(r)
    <3>1. ~NeedsZip(r)'
      <4>1. CASE Start(r) \/ Deliver(r) \/ NothingToFetch(r) \/ ScrapeLeaves(r)
        BY <1>0, <4>1 DEF TypeOK, NeedsZip, Goto, Start, Deliver, NothingToFetch,
                          ScrapeLeaves
      <4>2. CASE BuildFails(r) \/ Upload(r) \/ UploadFails(r)
        BY <1>0, <4>2 DEF TypeOK, NeedsZip, Goto, BuildFails, Upload, UploadFails
      <4>3. CASE Unlink(r)
        <5>1. pc'[r] = "reply" /\ cleanup' = cleanup /\ pc[r] = "unlink"
          BY <1>0, <4>3 DEF TypeOK, Goto, Unlink
        <5>. QED
          BY <1>0, <5>1 DEF Place, NeedsZip
      <4>4. CASE Reply(r) \/ ReplyFails(r) \/ Cleanup(r)
        BY <1>0, <4>4 DEF TypeOK, NeedsZip, Goto, Reply, ReplyFails, Cleanup
      <4>. QED
        BY <2>2, <4>1, <4>2, <4>3, <4>4 DEF Act, Step, Failing
    <3>. QED
      BY <1>2, <3>1
  <2>. QED
    BY <2>1, <2>2
<1>. QED
  BY <1>1, <1>2 DEF ZipInv

(* The object is what it was, or the zip that the run has just uploaded. *)
LEMMA ObjectStep ==
  ASSUME IInv, NEW r \in Runs, Act(r)
  PROVE  \/ object' = object
         \/ /\ pc[r] = "upload" /\ zip[host[r]] # None /\ object' = zip[host[r]]
            /\ UNCHANGED <<host, met, paths, cleanup>>
<1>1. CASE Upload(r) \/ UploadFails(r)
  BY <1>1 DEF Upload, UploadFails
<1>2. CASE ~(Upload(r) \/ UploadFails(r))
  BY <1>2 DEF Act, Step, Failing, Start, Deliver, NothingToFetch, ScrapeLeaves,
        Build, BuildFails, Unlink, Reply, ReplyFails, Cleanup
<1>. QED
  BY <1>1, <1>2

LEMMA StepObject ==
  ASSUME IInv, NEW r \in Runs, Act(r)
  PROVE  ObjectInv'
<1>0. TypeOK /\ PlaceInv /\ ZipInv /\ ObjectInv /\ Place(r)
  BY PlaceEach DEF IInv
<1>1. ASSUME NEW q \in Runs, q # r, NeedsObject(q)'
      PROVE  object' # None /\ (Alone(q)' => Whole(q, object)')
  <2>1. /\ NeedsObject(q) /\ (Alone(q)' => Alone(q))
        /\ paths'[q] = paths[q]
    BY <1>1, OtherAlone
  <2>2. object # None /\ (Alone(q) => Whole(q, object))
    BY <1>0, <2>1 DEF ObjectInv
  <2>3. CASE object' = object
    BY <2>1, <2>2, <2>3 DEF Whole
  <2>4. CASE pc[r] = "upload" /\ zip[host[r]] # None /\ object' = zip[host[r]]
    <3>1. r \in UnderWay /\ q \in UnderWay
      BY <2>1, <2>4 DEF UnderWay, NeedsObject
    <3>2. "zip" \notin cleanup[q]
      BY <1>0, <2>1 DEF PlaceInv, NeedsObject
    <3>3. ~Alone(q)
      BY <1>1, <3>1, <3>2, NotAlone
    <3>. QED
      BY <2>1, <2>4, <3>3
  <2>. QED
    BY <2>3, <2>4, ObjectStep
<1>2. ASSUME NeedsObject(r)'
      PROVE  object' # None /\ (Alone(r)' => Whole(r, object)')
  <2>1. CASE Upload(r)
    <3>1. pc[r] = "upload" /\ zip[host[r]] # None /\ object' = zip[host[r]]
      BY <2>1 DEF Upload
    <3>2. (Alone(r)' <=> Alone(r)) /\ paths' = paths
      BY <2>1, OwnAlone DEF Upload
    <3>3. Alone(r) => Whole(r, zip[host[r]])
      BY <1>0, <3>1 DEF ZipInv, NeedsZip
    <3>. QED
      BY <3>1, <3>2, <3>3 DEF Whole
  <2>2. CASE Unlink(r)
    <3>1. pc[r] = "unlink" /\ object' = object
      BY <2>2 DEF Unlink
    <3>2. (Alone(r)' <=> Alone(r)) /\ paths' = paths
      BY <2>2, OwnAlone DEF Unlink
    <3>. QED
      BY <1>0, <3>1, <3>2 DEF ObjectInv, NeedsObject, Whole
  <2>3. CASE ~(Upload(r) \/ Unlink(r))
    <3>1. ~NeedsObject(r)'
      <4>1. CASE Start(r) \/ Deliver(r) \/ NothingToFetch(r) \/ ScrapeLeaves(r)
        BY <1>0, <4>1 DEF TypeOK, NeedsObject, Goto, Start, Deliver, NothingToFetch,
                          ScrapeLeaves
      <4>2. CASE BuildFails(r) \/ UploadFails(r)
        BY <1>0, <4>2 DEF TypeOK, NeedsObject, Goto, BuildFails, UploadFails
      <4>3. CASE Build(r)
        <5>1. \/ pc'[r] = "reply" /\ "zip" \in cleanup'[r]
              \/ pc'[r] = "upload"
          BY <1>0, <4>3 DEF TypeOK, Goto, Build
        <5>. QED
          BY <5>1 DEF NeedsObject
      <4>4. CASE Reply(r) \/ ReplyFails(r) \/ Cleanup(r)
        BY <1>0, <4>4 DEF TypeOK, NeedsObject, Goto, Reply, ReplyFails, Cleanup
      <4>. QED
        BY <2>3, <4>1, <4>2, <4>3, <4>4 DEF Act, Step, Failing
    <3>. QED
      BY <1>2, <3>1
  <2>. QED
    BY <2>1, <2>2, <2>3
<1>. QED
  BY <1>1, <1>2 DEF ObjectInv

(* Only a reply writes a mail, and only of the zip or object of its run. *)
LEMMA StepMail ==
  ASSUME IInv, NEW r \in Runs, Act(r)
  PROVE  MailIsWhole'
<1>0. TypeOK /\ PlaceInv /\ ZipInv /\ ObjectInv /\ MailIsWhole /\ Place(r)
  BY PlaceEach DEF IInv
<1>1. ASSUME NEW q \in Runs, q # r, mail'[q] # None, Alone(q)'
      PROVE  Whole(q, mail[q].zip)'
  <2>1. mail'[q] = mail[q]
    BY <1>0, <1>1, Frame
  <2>2. Alone(q) /\ paths'[q] = paths[q]
    BY <1>1, OtherAlone
  <2>. QED
    BY <1>0, <1>1, <2>1, <2>2 DEF MailIsWhole, Whole
<1>2. ASSUME mail'[r] # None, Alone(r)'
      PROVE  Whole(r, mail[r].zip)'
  <2>1. CASE Reply(r)
    <3>1. pc[r] = "reply" /\ Alone(r) /\ paths' = paths
      BY <1>2, <2>1, OwnAlone DEF Reply
    <3>2. CASE "zip" \in cleanup[r]
      <4>1. mail'[r].zip = zip[host[r]]
        BY <1>0, <2>1, <3>2 DEF TypeOK, Reply
      <4>2. Whole(r, zip[host[r]])
        BY <1>0, <3>1, <3>2 DEF ZipInv, NeedsZip
      <4>. QED
        BY <3>1, <4>1, <4>2 DEF Whole
    <3>3. CASE "zip" \notin cleanup[r]
      <4>1. mail'[r].zip = object
        BY <1>0, <2>1, <3>3 DEF TypeOK, Reply
      <4>2. Whole(r, object)
        BY <1>0, <3>1, <3>3 DEF ObjectInv, NeedsObject
      <4>. QED
        BY <3>1, <4>1, <4>2 DEF Whole
    <3>. QED
      BY <3>2, <3>3
  <2>2. CASE Cleanup(r)
    <3>1. mail' = mail /\ Alone(r) /\ paths' = paths
      BY <1>2, <2>2, OwnAlone DEF Cleanup
    <3>. QED
      BY <1>0, <1>2, <3>1 DEF MailIsWhole, Whole
  <2>3. CASE ~(Reply(r) \/ Cleanup(r))
    <3>1. mail' = mail /\ pc[r] \notin {"finally", "over"}
      BY <2>3 DEF Act, Step, Failing, Start, Deliver, NothingToFetch, ScrapeLeaves,
        Build, BuildFails, Upload, UploadFails, Unlink, ReplyFails
    <3>. QED
      BY <1>0, <1>2, <3>1 DEF Place
  <2>. QED
    BY <2>1, <2>2, <2>3
<1>. QED
  BY <1>1, <1>2 DEF MailIsWhole

LEMMA StepLink ==
  ASSUME IInv, NEW r \in Runs, Act(r)
  PROVE  LinkInv'
<1>0. TypeOK /\ PlaceInv /\ ZipInv /\ ObjectInv /\ LinkInv /\ Place(r)
  BY PlaceEach DEF IInv
<1>1. ASSUME NEW q \in Runs, mail'[q] # None, mail'[q].tier # "attach"
      PROVE  object' # None
  <2>1. object # None => object' # None
    BY ObjectStep
  <2>2. CASE q = r /\ Reply(r)
    <3>1. "zip" \notin cleanup[r] /\ pc[r] = "reply"
      BY <1>0, <1>1, <2>2 DEF TypeOK, Reply
    <3>2. object # None
      BY <1>0, <3>1 DEF ObjectInv, NeedsObject
    <3>. QED
      BY <2>1, <3>2
  <2>3. CASE ~(q = r /\ Reply(r))
    <3>1. mail'[q] = mail[q]
      <4>1. CASE q # r
        BY <1>0, <4>1, Frame
      <4>2. CASE ~Reply(r)
        BY <4>2 DEF Act, Step, Failing, Start, Deliver, NothingToFetch,
        ScrapeLeaves, Build, BuildFails, Upload, UploadFails, Unlink, ReplyFails, Cleanup
      <4>. QED
        BY <2>3, <4>1, <4>2
    <3>. QED
      BY <1>0, <1>1, <2>1, <3>1 DEF LinkInv
  <2>. QED
    BY <2>2, <2>3
<1>2. ASSUME \A q \in Runs : met'[q] = {}, object' # None
      PROVE  \E q \in Runs : paths'[q] # <<>> /\ Whole(q, object)'
  <2>1. \A q \in Runs : met[q] = {}
    BY <1>0, <1>2, MetGrows
  <2>2. CASE object' = object
    <3>1. PICK q \in Runs : paths[q] # <<>> /\ Whole(q, object)
      BY <1>0, <1>2, <2>1, <2>2 DEF LinkInv
    <3>2. paths'[q] = paths[q]
      <4>1. CASE q # r
        BY <1>0, <4>1, Frame
      <4>2. CASE q = r
        <5>1. ~Deliver(r)
          BY <1>0, <3>1, <4>2 DEF Place, Deliver
        <5>. QED
          BY <4>2, <5>1 DEF Act, Step, Failing, Start, NothingToFetch,
        ScrapeLeaves, Build, BuildFails, Upload, UploadFails, Unlink, Reply,
        ReplyFails, Cleanup
      <4>. QED
        BY <4>1, <4>2
    <3>. QED
      BY <2>2, <3>1, <3>2 DEF Whole
  <2>3. CASE /\ pc[r] = "upload" /\ zip[host[r]] # None /\ object' = zip[host[r]]
             /\ UNCHANGED <<host, met, paths, cleanup>>
    <3>1. paths[r] # <<>> /\ "zip" \notin cleanup[r]
      BY <1>0, <2>3 DEF Place
    <3>2. Alone(r)
      BY <2>1, <3>1 DEF Alone
    <3>3. Whole(r, zip[host[r]])
      BY <1>0, <2>3, <3>2 DEF ZipInv, NeedsZip
    <3>. QED
      BY <2>3, <3>1, <3>3 DEF Whole
  <2>. QED
    BY <2>2, <2>3, ObjectStep
<1>. QED
  BY <1>1, <1>2 DEF LinkInv

-----------------------------------------------------------------------------
(***************************************************************************)
(* What is left behind.                                                    *)
(***************************************************************************)
LEMMA SpillStep ==
  ASSUME IInv, NEW r \in Runs, Act(r)
  PROVE  SpillInv' /\ spilled \in Nat /\ spilled' \in Nat
<1>0. TypeOK /\ SpillInv /\ spilled \in Nat /\ faults \in Nat
  BY FaultAssumption DEF IInv, TypeOK
<1>1. \/ UNCHANGED <<spilled, faults>>
      \/ UNCHANGED spilled /\ faults' = faults + 1
      \/ \E k \in {"scrape", "zip", "upload", "unlink", "reply"} : Spill(k)
  <2>1. CASE Start(r)
    BY <2>1 DEF Start, Fault
  <2>2. CASE Deliver(r)
    BY <2>2 DEF Deliver, Fault
  <2>3. CASE NothingToFetch(r)
    BY <2>3 DEF NothingToFetch, Fault
  <2>4. CASE ScrapeLeaves(r)
    BY <2>4 DEF ScrapeLeaves, Fault
  <2>5. CASE Build(r)
    BY <2>5 DEF Build, Fault
  <2>6. CASE BuildFails(r)
    BY <2>6 DEF BuildFails, Fault
  <2>7. CASE Upload(r)
    BY <2>7 DEF Upload, Fault
  <2>8. CASE UploadFails(r)
    BY <2>8 DEF UploadFails, Fault
  <2>9. CASE Unlink(r)
    BY <2>9 DEF Unlink, Fault
  <2>10. CASE Reply(r)
    BY <2>10 DEF Reply, Fault
  <2>11. CASE ReplyFails(r)
    BY <2>11 DEF ReplyFails, Fault
  <2>12. CASE Cleanup(r)
    BY <2>12 DEF Cleanup, Fault
  <2>. QED
    BY <2>1, <2>2, <2>3, <2>4, <2>5, <2>6, <2>7, <2>8, <2>9, <2>10, <2>11, <2>12
    DEF Act, Step, Failing
<1>2. \/ UNCHANGED <<spilled, faults>>
      \/ UNCHANGED spilled /\ faults' = faults + 1
      \/ spilled' = spilled + 1 /\ faults' = faults + 1
  BY <1>1 DEF Spill, Fault
<1>. QED
  BY <1>0, <1>2 DEF SpillInv

(* A set that gains no element, or one, grows by no more than that. *)
LEMMA GrowsByOne ==
  ASSUME NEW S, NEW T, NEW x, IsFiniteSet(S), T \subseteq S \cup {x}
  PROVE  Cardinality(T) \in Nat /\ Cardinality(T) <= Cardinality(S) + 1
<1>1. /\ IsFiniteSet(S \cup {x})
      /\ Cardinality(S \cup {x}) =
           IF x \in S THEN Cardinality(S) ELSE Cardinality(S) + 1
  BY FS_AddElement
<1>2. /\ Cardinality(S) \in Nat /\ IsFiniteSet(T)
      /\ Cardinality(T) <= Cardinality(S \cup {x})
  BY <1>1, FS_CardinalityType, FS_Subset
<1>3. Cardinality(T) \in Nat
  BY <1>2, FS_CardinalityType
<1>. QED
  BY <1>1, <1>2, <1>3

LEMMA DebtFinite ==
  /\ IsFiniteSet(Forgotten) /\ IsFiniteSet(ForgottenZips)
  /\ Cardinality(Forgotten) \in Nat /\ Cardinality(ForgottenZips) \in Nat
<1>1. Forgotten \subseteq Runs /\ ForgottenZips \subseteq Hosts
  BY DEF Forgotten, ForgottenZips
<1>2. IsFiniteSet(Forgotten) /\ IsFiniteSet(ForgottenZips)
  BY <1>1, FiniteAssumption, FS_Subset
<1>. QED
  BY <1>2, FS_CardinalityType

(* A run becomes the owner of the zip it builds, and is so until it removes *)
(* it or fails to.                                                         *)
LEMMA OtherOwns ==
  ASSUME TypeOK, NEW r \in Runs, Act(r), NEW q \in Runs, q # r
  PROVE  Owns(q)' <=> Owns(q)
BY Frame DEF Owns

(* The debts of one step: none, a directory or a zip, each with its fault. *)
LEMMA DebtStep ==
  ASSUME IInv, NEW r \in Runs, Act(r)
  PROVE  \/ /\ Forgotten' \subseteq Forgotten
            /\ ForgottenZips' \subseteq ForgottenZips
         \/ /\ Forgotten' \subseteq Forgotten \cup {r}
            /\ ForgottenZips' \subseteq ForgottenZips
            /\ spilled' = spilled + 1
         \/ /\ Forgotten' \subseteq Forgotten
            /\ ForgottenZips' \subseteq ForgottenZips \cup {host[r]}
            /\ spilled' = spilled + 1
<1>0. TypeOK /\ PlaceInv /\ Place(r)
  BY PlaceEach DEF IInv
<1>a. \A q \in Runs : q # r => /\ dir'[q] = dir[q] /\ cleanup'[q] = cleanup[q]
                               /\ Owns(q)' <=> Owns(q)
  BY <1>0, Frame, OtherOwns
<1>b. host' = host /\ \A h \in Hosts : h # host[r] => zip'[h] = zip[h]
  BY <1>0, FrameZip
<1>c. ASSUME r \in Forgotten' => r \in Forgotten
      PROVE  Forgotten' \subseteq Forgotten
  BY <1>a, <1>c DEF Forgotten
(* The zips of other instances are as they were. *)
<1>d. ForgottenZips' \subseteq ForgottenZips \cup {host[r]}
  <2>1. ASSUME NEW h \in ForgottenZips', h # host[r]
        PROVE  h \in ForgottenZips
    <3>1. h \in Hosts /\ zip'[h] # None /\ \A q \in Runs : Owns(q)' => host'[q] # h
      BY <2>1 DEF ForgottenZips
    <3>2. zip[h] # None
      BY <1>b, <2>1, <3>1
    <3>3. ASSUME NEW q \in Runs, Owns(q) PROVE host[q] # h
      BY <1>a, <1>b, <2>1, <3>1, <3>3
    <3>. QED
      BY <3>1, <3>2, <3>3 DEF ForgottenZips
  <2>. QED
    BY <2>1
<1>e. ASSUME \/ zip'[host[r]] = None
             \/ Owns(r)'
             \/ zip'[host[r]] = zip[host[r]] /\ (Owns(r) => Owns(r)')
      PROVE  ForgottenZips' \subseteq ForgottenZips
  <2>1. ASSUME host[r] \in ForgottenZips'
        PROVE  host[r] \in ForgottenZips
    <3>1. /\ host[r] \in Hosts /\ zip'[host[r]] # None
          /\ \A q \in Runs : Owns(q)' => host'[q] # host[r]
      BY <2>1 DEF ForgottenZips
    <3>2. ~Owns(r)' /\ zip'[host[r]] = zip[host[r]] /\ ~Owns(r)
      BY <1>b, <1>e, <3>1
    <3>3. ASSUME NEW q \in Runs, Owns(q) PROVE host[q] # host[r]
      BY <1>a, <1>b, <3>1, <3>2, <3>3
    <3>. QED
      BY <3>1, <3>2, <3>3 DEF ForgottenZips
  <2>. QED
    BY <1>d, <2>1
<1>f. host[r] \in Hosts
  BY <1>0 DEF TypeOK
<1>1. CASE Start(r)
  <2>1. dir' = dir /\ cleanup' = cleanup /\ zip' = zip
    BY <1>1 DEF Start
  <2>2. ~Owns(r)
    BY <1>1 DEF Start, Owns
  <2>. QED
    BY <1>c, <1>e, <2>1, <2>2 DEF Forgotten
<1>2. CASE Deliver(r)
  <2>1. cleanup'[r] = {"dir"} /\ zip' = zip /\ ~Owns(r)
    BY <1>0, <1>2 DEF TypeOK, Deliver, Owns
  <2>2. r \notin Forgotten'
    BY <2>1 DEF Forgotten
  <2>. QED
    BY <1>c, <1>e, <2>1, <2>2
<1>3. CASE NothingToFetch(r)
  <2>1. dir' = dir /\ cleanup' = cleanup /\ zip' = zip /\ ~Owns(r)
    BY <1>3 DEF NothingToFetch, Owns
  <2>. QED
    BY <1>c, <1>e, <2>1 DEF Forgotten
<1>4. CASE ScrapeLeaves(r)
  <2>1. zip' = zip /\ ~Owns(r) /\ spilled' = spilled + 1
    BY <1>4 DEF ScrapeLeaves, Spill, Owns
  <2>2. Forgotten' \subseteq Forgotten \cup {r}
    BY <1>a DEF Forgotten
  <2>. QED
    BY <1>e, <2>1, <2>2
<1>5. CASE Build(r)
  <2>1. r \in Forgotten' => r \in Forgotten
    <3>1. dir[r] # None
      BY <1>0, <1>5 DEF Place, Build
    <3>2. "dir" \in cleanup[r] => "dir" \in cleanup'[r]
      BY <1>0, <1>5 DEF TypeOK, Build
    <3>. QED
      BY <3>1, <3>2 DEF Forgotten
  <2>2. Owns(r)'
    <3>1. \/ pc'[r] = "reply" /\ "zip" \in cleanup'[r]
          \/ pc'[r] = "upload"
      BY <1>0, <1>5 DEF TypeOK, Goto, Build
    <3>. QED
      BY <3>1 DEF Owns
  <2>. QED
    BY <1>c, <1>e, <2>1, <2>2
<1>6. CASE BuildFails(r)
  <2>1. dir[r] # None /\ cleanup' = cleanup /\ spilled' = spilled + 1
    BY <1>0, <1>6 DEF Place, BuildFails, Spill
  <2>. QED
    BY <1>c, <1>d, <2>1 DEF Forgotten
<1>7. CASE Upload(r)
  <2>1. dir' = dir /\ cleanup' = cleanup
    BY <1>7 DEF Upload
  <2>2. Owns(r)'
    BY <1>0, <1>7 DEF TypeOK, Upload, Goto, Owns
  <2>. QED
    BY <1>c, <1>e, <2>1, <2>2 DEF Forgotten
<1>8. CASE UploadFails(r)
  <2>1. dir' = dir /\ cleanup' = cleanup
    BY <1>8 DEF UploadFails
  <2>2. zip'[host[r]] = None \/ spilled' = spilled + 1
    BY <1>8 DEF UploadFails, Spill
  <2>. QED
    BY <1>c, <1>d, <1>e, <2>1, <2>2 DEF Forgotten
<1>9. CASE Unlink(r)
  <2>1. dir' = dir /\ cleanup' = cleanup
    BY <1>9 DEF Unlink
  <2>2. zip'[host[r]] = None \/ spilled' = spilled + 1
    BY <1>0, <1>9, <1>f DEF TypeOK, Unlink, Spill
  <2>. QED
    BY <1>c, <1>d, <1>e, <2>1, <2>2 DEF Forgotten
<1>10. CASE Reply(r)
  <2>1. dir' = dir /\ cleanup' = cleanup /\ zip' = zip
    BY <1>10 DEF Reply
  <2>2. Owns(r) => Owns(r)'
    BY <1>0, <1>10 DEF TypeOK, Reply, Goto, Owns
  <2>. QED
    BY <1>c, <1>e, <2>1, <2>2 DEF Forgotten
<1>11. CASE ReplyFails(r)
  <2>1. dir' = dir /\ cleanup' = cleanup /\ zip' = zip
    BY <1>11 DEF ReplyFails
  <2>2. Owns(r) => Owns(r)'
    BY <1>0, <1>11 DEF TypeOK, ReplyFails, Goto, Owns
  <2>. QED
    BY <1>c, <1>e, <2>1, <2>2 DEF Forgotten
<1>12. CASE Cleanup(r)
  <2>1. r \in Forgotten' => r \in Forgotten
    BY <1>0, <1>12 DEF TypeOK, Cleanup, Forgotten
  <2>2. \/ zip'[host[r]] = None
        \/ zip'[host[r]] = zip[host[r]] /\ ~Owns(r)
        \/ spilled' = spilled + 1
    <3>1. "zip" \notin cleanup[r] => ~Owns(r)
      BY <1>12 DEF Cleanup, Owns
    <3>2. \/ zip' = [zip EXCEPT ![host[r]] =
                       IF "zip" \in cleanup[r] THEN None ELSE zip[host[r]]]
          \/ spilled' = spilled + 1
      BY <1>12 DEF Cleanup, Spill
    <3>3. zip \in [Hosts -> {None} \cup Zips]
      BY <1>0 DEF TypeOK
    <3>. QED
      BY <1>f, <3>1, <3>2, <3>3
  <2>. QED
    BY <1>c, <1>d, <1>e, <2>1, <2>2
<1>. QED
  BY <1>1, <1>2, <1>3, <1>4, <1>5, <1>6, <1>7, <1>8, <1>9, <1>10, <1>11, <1>12
  DEF Act, Step, Failing

LEMMA StepDebt ==
  ASSUME IInv, NEW r \in Runs, Act(r)
  PROVE  DebtInv'
<1>0. DebtInv /\ spilled \in Nat /\ spilled' \in Nat
  BY SpillStep DEF IInv
<1>1. spilled' = spilled \/ spilled' = spilled + 1
  BY DEF Act, Step, Failing, Spill, Start, Deliver, NothingToFetch, ScrapeLeaves,
         Build, BuildFails, Upload, UploadFails, Unlink, Reply, ReplyFails, Cleanup
<1>2. Cardinality(Forgotten) \in Nat /\ Cardinality(ForgottenZips) \in Nat
  BY DebtFinite
<1>3. ASSUME Forgotten' \subseteq Forgotten
      PROVE  /\ Cardinality(Forgotten') \in Nat
             /\ Cardinality(Forgotten') <= Cardinality(Forgotten)
  BY <1>3, DebtFinite, FS_Subset, FS_CardinalityType
<1>4. ASSUME ForgottenZips' \subseteq ForgottenZips
      PROVE  /\ Cardinality(ForgottenZips') \in Nat
             /\ Cardinality(ForgottenZips') <= Cardinality(ForgottenZips)
  BY <1>4, DebtFinite, FS_Subset, FS_CardinalityType
<1>5. ASSUME Forgotten' \subseteq Forgotten \cup {r}
      PROVE  /\ Cardinality(Forgotten') \in Nat
             /\ Cardinality(Forgotten') <= Cardinality(Forgotten) + 1
  BY <1>5, DebtFinite, GrowsByOne
<1>6. ASSUME ForgottenZips' \subseteq ForgottenZips \cup {host[r]}
      PROVE  /\ Cardinality(ForgottenZips') \in Nat
             /\ Cardinality(ForgottenZips') <= Cardinality(ForgottenZips) + 1
  BY <1>6, DebtFinite, GrowsByOne
<1>7. Cardinality(Forgotten') + Cardinality(ForgottenZips') <= spilled'
  BY <1>0, <1>1, <1>2, <1>3, <1>4, <1>5, <1>6, DebtStep DEF DebtInv
<1>. QED
  BY <1>7 DEF DebtInv

-----------------------------------------------------------------------------
(***************************************************************************)
(* Theorems.                                                               *)
(***************************************************************************)
LEMMA IInvInit == Init => IInv
<1>. SUFFICES ASSUME Init PROVE IInv
  OBVIOUS
<1>1. TypeOK
  BY InitType
<1>2. \A r \in Runs : /\ pc[r] = "idle" /\ dir[r] = None /\ met[r] = {}
                      /\ paths[r] = <<>> /\ cleanup[r] = {} /\ mail[r] = None
  BY DEF Init
<1>3. PlaceInv
  BY <1>2 DEF PlaceInv
<1>4. TierInv /\ MailIsWhole /\ LinkInv
  BY <1>2 DEF TierInv, MailIsWhole, LinkInv, Init
<1>5. MetInv /\ ZipInv /\ ObjectInv
  BY <1>2 DEF MetInv, UnderWay, ZipInv, NeedsZip, ObjectInv, NeedsObject
<1>6. DebtInv
  <2>1. Forgotten = {}
    BY <1>2 DEF Forgotten
  <2>2. ForgottenZips = {}
    BY DEF Init, ForgottenZips
  <2>. QED
    BY <2>1, <2>2, FS_EmptySet DEF DebtInv, Init
<1>7. SpillInv
  BY DEF Init, SpillInv
<1>. QED
  BY <1>1, <1>3, <1>4, <1>5, <1>6, <1>7 DEF IInv

LEMMA Stutter == IInv /\ UNCHANGED vars => IInv'
<1>. SUFFICES ASSUME IInv, UNCHANGED vars PROVE IInv'
  OBVIOUS
<1>1. TypeOK' /\ SpillInv'
  BY StepType DEF IInv, SpillInv, vars
<1>2. PlaceInv' /\ TierInv' /\ MetInv'
  BY DEF IInv, vars, PlaceInv, TierInv, MetInv, UnderWay
<1>3. ZipInv' /\ ObjectInv'
  BY DEF IInv, vars, ZipInv, ObjectInv, NeedsZip, NeedsObject, Alone, Whole
<1>4. LinkInv' /\ MailIsWhole'
  BY DEF IInv, vars, LinkInv, MailIsWhole, Alone, Whole
<1>5. DebtInv'
  BY DEF IInv, vars, DebtInv, Forgotten, ForgottenZips, Owns
<1>. QED
  BY <1>1, <1>2, <1>3, <1>4, <1>5 DEF IInv

LEMMA IInvStep == IInv /\ [Next]_vars => IInv'
<1>1. ASSUME IInv, NEW r \in Runs, Act(r) PROVE IInv'
  <2>1. [Next]_vars
    BY <1>1 DEF Next
  <2>. QED
    BY <1>1, <2>1, StepType, StepPlace, StepTier, StepMet, StepZip, StepObject,
       StepLink, StepDebt, SpillStep, StepMail DEF IInv
<1>. QED
  BY <1>1, Stutter DEF Next

(* The inductive invariant: a run that met no other finds its own zip and  *)
(* its own object where it left them, and what is left behind is paid for. *)
THEOREM FilesInductive == Spec => []IInv
BY IInvInit, IInvStep, PTL DEF Spec

(* Every variable has its type: there is an object by the time a mail links *)
(* to it, and a zip is made of files of a download directory.              *)
THEOREM FileTypes == Spec => []TypeOK
<1>1. IInv => TypeOK
  BY DEF IInv
<1>. QED
  BY <1>1, FilesInductive, PTL

(* The mail of a run that shared no path with another carries, or links to, *)
(* what that run collected, all of it and nothing else (packager.py:53).   *)
THEOREM MailsAreWhole == Spec => []MailIsWhole
<1>1. IInv => MailIsWhole
  BY DEF IInv
<1>. QED
  BY <1>1, FilesInductive, PTL

(* A link goes on serving a whole zip of the job through every later run,  *)
(* retry and failure, as long as no two runs overlap (uploader.py:64).     *)
THEOREM LinksServe == Spec => []LinkServes
<1>1. IInv => LinkServes
  BY DEF IInv, LinkInv, LinkServes
<1>. QED
  BY <1>1, FilesInductive, PTL

(* When no run is under way, each directory or zip that is still on a disk *)
(* has its fault, however the runs overlapped (pipeline.py:197-210).       *)
THEOREM LeftoversArePaid == Spec => []LeftoversPaid
<1>1. ASSUME IInv PROVE LeftoversPaid
  <2>. SUFFICES ASSUME UnderWay = {}
                PROVE  Cardinality(Left) + Cardinality(LeftZips) <= spilled
    BY DEF LeftoversPaid
  <2>0. TypeOK /\ PlaceInv /\ DebtInv
    BY <1>1 DEF IInv
  <2>1. \A r \in Runs : pc[r] \in {"idle", "over"}
    BY DEF UnderWay
  <2>2. Left \subseteq Forgotten
    BY <2>0, <2>1 DEF Left, Forgotten, PlaceInv
  <2>3. LeftZips \subseteq ForgottenZips
    BY <2>1 DEF LeftZips, ForgottenZips, Owns
  <2>4. /\ Cardinality(Left) \in Nat /\ Cardinality(Left) <= Cardinality(Forgotten)
        /\ Cardinality(LeftZips) \in Nat
        /\ Cardinality(LeftZips) <= Cardinality(ForgottenZips)
    BY <2>2, <2>3, DebtFinite, FS_Subset, FS_CardinalityType
  <2>5. spilled \in Nat
    BY <2>0 DEF TypeOK
  <2>. QED
    BY <2>0, <2>4, <2>5, DebtFinite DEF DebtInv
<1>. QED
  BY <1>1, FilesInductive, PTL

==================================================================================
