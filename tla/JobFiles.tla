------------------------------ MODULE JobFiles ------------------------------
(***************************************************************************)
(* The files of one job: the download directory of each scrape             *)
(* (app/scrape/scraper.py), the zip that app/package/packager.py builds    *)
(* from it and app/package/uploader.py uploads, the mail that carries it,  *)
(* and the cleanup of app/pipeline.py.                                     *)
(*                                                                         *)
(* A job may be run several times: Cloud Tasks retries it, and a run whose *)
(* request was given up goes on beside its retry.  The download directory  *)
(* is a run's own, but the path of the zip and the key of the uploaded     *)
(* object are named after the job, so that its runs share them.  Between   *)
(* two awaits a run has its instance for itself: building the zip is one   *)
(* step, uploading it is not.                                              *)
(***************************************************************************)
EXTENDS Naturals, FiniteSets, Sequences

CONSTANTS
  Runs,        \* runs of process_job for the job
  Hosts,       \* instances of the service, each with a disk of its own
  Names,       \* file names in a download directory
  Batches,     \* what a scrape may deliver, see Batch
  None,        \* no directory, no zip, no object, no mail
  FaultKinds,  \* the kinds of fault of this instance
  MaxFaults    \* how many faults may happen

(* The paths of the delivered documents in order, and the files of documents *)
(* that failed after some of their downloads.  Two buttons with one file     *)
(* name are one path twice.                                                  *)
Batch == [paths : Seq(Names) \ {<<>>}, strays : SUBSET Names]

(* An entry of a zip: the run whose file it is, and its name de-collided by *)
(* a number.                                                                *)
Entries == Runs \X Names \X Nat
Zips == [entries : SUBSET Entries]

ASSUME NameAssumption ==
  /\ Batches \subseteq Batch
  /\ None \notin Zips /\ \A S \in SUBSET Names : S # None
ASSUME FaultAssumption ==
  /\ FaultKinds \subseteq {"scrape", "zip", "upload", "unlink", "reply"}
  /\ MaxFaults \in Nat
ASSUME FiniteAssumption == IsFiniteSet(Runs) /\ IsFiniteSet(Hosts)

VARIABLES
  host,     \* the instance that Cloud Run gives a run
  pc,       \* where a run is
  paths,    \* the paths its scrape delivered
  dir,      \* the files of its download directory
  cleanup,  \* what its finally clause will remove: "dir", "zip"
  zip,      \* the zip of the job on an instance
  object,   \* the uploaded object of the job
  mail,     \* the mail of a run: its tier, and the zip it carries or links to
  met,      \* history: the runs that a run was under way together with
  spilled,  \* history: faults that leave something on a disk
  faults    \* history: faults so far

vars == <<host, pc, paths, dir, cleanup, zip, object, mail, met, spilled, faults>>

Init ==
  /\ host \in [Runs -> Hosts]
  /\ pc = [r \in Runs |-> "idle"]
  /\ paths = [r \in Runs |-> <<>>]
  /\ dir = [r \in Runs |-> None]
  /\ cleanup = [r \in Runs |-> {}]
  /\ zip = [h \in Hosts |-> None]
  /\ object = None
  /\ mail = [r \in Runs |-> None]
  /\ met = [r \in Runs |-> {}]
  /\ spilled = 0
  /\ faults = 0

Fault(k) ==
  /\ k \in FaultKinds
  /\ faults < MaxFaults
  /\ faults' = faults + 1

Spill(k) == Fault(k) /\ spilled' = spilled + 1

Goto(r, l) == pc' = [pc EXCEPT ![r] = l]

UnderWay == {q \in Runs : pc[q] \notin {"idle", "over"}}

-----------------------------------------------------------------------------
Start(r) ==
  /\ pc[r] = "idle"
  /\ Goto(r, "scrape")
  /\ met' = [q \in Runs |->
               IF q = r THEN UnderWay
               ELSE IF q \in UnderWay THEN met[q] \cup {r} ELSE met[q]]
  /\ UNCHANGED <<host, paths, dir, cleanup, zip, object, mail, spilled, faults>>

(* The scrape delivers documents: their parent, one directory for all of    *)
(* them, is noted for the cleanup.                                          *)
Deliver(r) ==
  /\ pc[r] = "scrape"
  /\ \E b \in Batches :
       /\ paths' = [paths EXCEPT ![r] = b.paths]
       /\ dir' = [dir EXCEPT ![r] =
                    {b.paths[i] : i \in 1 .. Len(b.paths)} \cup b.strays]
  /\ cleanup' = [cleanup EXCEPT ![r] = {"dir"}]
  /\ Goto(r, "package")
  /\ UNCHANGED <<host, zip, object, mail, met, spilled, faults>>

(* Another mail, or a failure before the first download: no directory. *)
NothingToFetch(r) ==
  /\ pc[r] = "scrape"
  /\ Goto(r, "finally")
  /\ UNCHANGED <<host, paths, dir, cleanup, zip, object, mail, met, spilled, faults>>

(* A scrape that raises after its directory was made, or that delivers no   *)
(* document: the pipeline never hears of the directory.                     *)
ScrapeLeaves(r) ==
  /\ pc[r] = "scrape"
  /\ Spill("scrape")
  /\ \E strays \in SUBSET Names : dir' = [dir EXCEPT ![r] = strays]
  /\ Goto(r, "finally")
  /\ UNCHANGED <<host, paths, cleanup, zip, object, mail, met>>

-----------------------------------------------------------------------------
(***************************************************************************)
(* package: every source that exists is added and unlinked, in order; the  *)
(* sources in "stuck" cannot be unlinked.                                  *)
(***************************************************************************)
(* The number _dedupe_name gives the j-th path: of its name before it. *)
Before(ps, j) == Cardinality({k \in 1 .. j - 1 : ps[k] = ps[j]})

(* The zip after the first i paths: a name is added as it is when it is     *)
(* first met, and again, numbered, if it is still there.                    *)
Zipped(r, i, stuck) ==
  {<<r, paths[r][j], 0>> : j \in 1 .. i} \cup
  {<<r, paths[r][j], Before(paths[r], j)>> :
     j \in {k \in 1 .. i : paths[r][k] \in stuck}}

(* What is left of the sources after the first i paths. *)
Sources(r, i, stuck) == dir[r] \ ({paths[r][j] : j \in 1 .. i} \ stuck)

(* Mutant of Opened: the zip is opened for appending. *)
OpenedToAppend(h) == IF zip[h] = None THEN {} ELSE zip[h].entries

(* The mode "w": whatever was at the path is gone. *)
Opened(h) == {}

(* The zip is complete and its size decides: small enough to attach, and    *)
(* then noted for the cleanup, or to be uploaded.                           *)
Build(r) ==
  /\ pc[r] = "package"
  /\ \E stuck \in SUBSET Names :
       /\ IF stuck = {} THEN UNCHANGED faults ELSE Fault("unlink")
       /\ zip' = [zip EXCEPT ![host[r]] =
            [entries |-> Opened(host[r]) \cup Zipped(r, Len(paths[r]), stuck)]]
       /\ dir' = [dir EXCEPT ![r] = Sources(r, Len(paths[r]), stuck)]
  /\ \/ Goto(r, "reply") /\ cleanup' = [cleanup EXCEPT ![r] = @ \cup {"zip"}]
     \/ Goto(r, "upload") /\ UNCHANGED cleanup
  /\ UNCHANGED <<host, paths, object, mail, met, spilled>>

(* Mutant of BuildFails: the part that could be written is taken for all. *)
BuildGoesOn(r) ==
  /\ pc[r] = "package"
  /\ Spill("zip")
  /\ \E i \in 0 .. Len(paths[r]) :
       /\ zip' = [zip EXCEPT ![host[r]] = [entries |-> Zipped(r, i, {})]]
       /\ dir' = [dir EXCEPT ![r] = Sources(r, i, {})]
  /\ Goto(r, "upload")
  /\ UNCHANGED <<host, paths, cleanup, object, mail, met>>

(* Mutant of BuildFails: no finally clause. *)
BuildFailsAndStops(r) ==
  /\ pc[r] = "package"
  /\ Spill("zip")
  /\ Goto(r, "over")
  /\ UNCHANGED <<host, paths, dir, zip, cleanup, object, mail, met>>

(* The disk is full, or a source unreadable: what was written stays. *)
BuildFails(r) ==
  /\ pc[r] = "package"
  /\ Spill("zip")
  /\ \E i \in 0 .. Len(paths[r]) :
       /\ zip' = [zip EXCEPT ![host[r]] = [entries |-> Zipped(r, i, {})]]
       /\ dir' = [dir EXCEPT ![r] = Sources(r, i, {})]
  /\ Goto(r, "finally")
  /\ UNCHANGED <<host, paths, cleanup, object, mail, met>>

(* The thread of the upload reads the file some time after it was built.    *)
(* (A read torn by another run's build counts as a read after it.)          *)
Upload(r) ==
  /\ pc[r] = "upload" /\ zip[host[r]] # None
  /\ object' = zip[host[r]]
  /\ Goto(r, "unlink")
  /\ UNCHANGED <<host, paths, dir, cleanup, zip, mail, met, spilled, faults>>

(* The file is gone, or the upload or the signing after it fails. *)
UploadFails(r) ==
  /\ pc[r] = "upload"
  /\ \/ zip[host[r]] = None /\ UNCHANGED <<object, spilled, faults>>
     \/ /\ zip[host[r]] # None
        /\ Spill("upload")
        /\ object' \in {object, zip[host[r]]}
  /\ Goto(r, "finally")
  /\ UNCHANGED <<host, paths, dir, cleanup, zip, mail, met>>

(* Back from the upload, the local zip is redundant. *)
Unlink(r) ==
  /\ pc[r] = "unlink"
  /\ \/ zip' = [zip EXCEPT ![host[r]] = None] /\ UNCHANGED <<spilled, faults>>
     \/ Spill("unlink") /\ UNCHANGED zip
  /\ Goto(r, "reply")
  /\ UNCHANGED <<host, paths, dir, cleanup, object, mail, met>>

-----------------------------------------------------------------------------
(* Mutant of Reply: the attachment is named, and not read. *)
ReplyUnread(r) ==
  /\ pc[r] = "reply"
  /\ mail' = [mail EXCEPT ![r] =
                [tier |-> IF "zip" \in cleanup[r] THEN "attach" ELSE "link",
                 zip |-> IF "zip" \in cleanup[r] THEN zip[host[r]] ELSE object]]
  /\ Goto(r, "finally")
  /\ UNCHANGED <<host, paths, dir, cleanup, zip, object, met, spilled, faults>>

(* _reply, after the await of the summary: the attachment is read from the  *)
(* disk, or fetched from the bucket, or linked to.                          *)
Reply(r) ==
  /\ pc[r] = "reply"
  /\ IF "zip" \in cleanup[r]
       THEN /\ zip[host[r]] # None
            /\ mail' = [mail EXCEPT ![r] =
                          [tier |-> "attach", zip |-> zip[host[r]]]]
       ELSE \E t \in {"url_attach", "link"} :
              mail' = [mail EXCEPT ![r] = [tier |-> t, zip |-> object]]
  /\ Goto(r, "finally")
  /\ UNCHANGED <<host, paths, dir, cleanup, zip, object, met, spilled, faults>>

(* The attachment is gone, or the provider refuses. *)
ReplyFails(r) ==
  /\ pc[r] = "reply"
  /\ \/ "zip" \in cleanup[r] /\ zip[host[r]] = None /\ UNCHANGED faults
     \/ Fault("reply")
  /\ Goto(r, "finally")
  /\ UNCHANGED <<host, paths, dir, cleanup, zip, object, mail, met, spilled>>

(* Mutant of Cleanup: the zip is only removed once it was mailed. *)
CleanupMailed(r) ==
  /\ pc[r] = "finally"
  /\ dir' = [dir EXCEPT ![r] = IF "dir" \in cleanup[r] THEN None ELSE @]
  /\ zip' = [zip EXCEPT ![host[r]] =
               IF "zip" \in cleanup[r] /\ mail[r] # None THEN None ELSE @]
  /\ Goto(r, "over")
  /\ UNCHANGED <<host, paths, cleanup, object, mail, met, spilled, faults>>

(* The finally clause, after the awaits that record the job.  A zip that    *)
(* cannot be unlinked is left.                                              *)
Cleanup(r) ==
  /\ pc[r] = "finally"
  /\ dir' = [dir EXCEPT ![r] = IF "dir" \in cleanup[r] THEN None ELSE @]
  /\ \/ /\ zip' = [zip EXCEPT ![host[r]] =
                     IF "zip" \in cleanup[r] THEN None ELSE @]
        /\ UNCHANGED <<spilled, faults>>
     \/ "zip" \in cleanup[r] /\ Spill("unlink") /\ UNCHANGED zip
  /\ Goto(r, "over")
  /\ UNCHANGED <<host, paths, cleanup, object, mail, met>>

-----------------------------------------------------------------------------
Step(r) ==
  \/ Deliver(r) \/ NothingToFetch(r) \/ Build(r) \/ Upload(r) \/ Unlink(r)
  \/ Reply(r) \/ Cleanup(r)
Failing(r) ==
  \/ ScrapeLeaves(r) \/ BuildFails(r) \/ UploadFails(r) \/ ReplyFails(r)

Act(r) == Start(r) \/ Step(r) \/ Failing(r)

Next == \E r \in Runs : Act(r)

Spec == Init /\ [][Next]_vars

(* Each await of a run ends, and the run goes on. *)
FairSpec == Spec /\ \A r \in Runs : WF_vars(Step(r) \/ Failing(r))

-----------------------------------------------------------------------------
(***************************************************************************)
(* Properties.                                                             *)
(***************************************************************************)
Labels == {"idle", "scrape", "package", "upload", "unlink", "reply", "finally",
           "over"}
Tiers == {"attach", "url_attach", "link"}

TypeOK ==
  /\ host \in [Runs -> Hosts]
  /\ pc \in [Runs -> Labels]
  /\ paths \in [Runs -> Seq(Names)]
  /\ dir \in [Runs -> {None} \cup SUBSET Names]
  /\ cleanup \in [Runs -> SUBSET {"dir", "zip"}]
  /\ zip \in [Hosts -> {None} \cup Zips]
  /\ object \in {None} \cup Zips
  /\ mail \in [Runs -> {None} \cup [tier : Tiers, zip : Zips]]
  /\ met \in [Runs -> SUBSET Runs]
  /\ spilled \in 0 .. MaxFaults
  /\ faults \in 0 .. MaxFaults

(* A zip that holds every delivered file of run r, and nothing of another   *)
(* run.                                                                     *)
Whole(r, z) ==
  /\ \A e \in z.entries : e[1] = r
  /\ \A i \in 1 .. Len(paths[r]) : \E e \in z.entries : e[2] = paths[r][i]

(* No other run has been at the path of run r's zip: none was under way on  *)
(* its instance at the same time; for an uploaded zip, none anywhere.       *)
Alone(r) ==
  IF "zip" \in cleanup[r] THEN \A q \in met[r] : host[q] # host[r]
  ELSE met[r] = {}

(* What a mail delivers is what its own run collected, all of it: neither   *)
(* the rest of an earlier run that failed with its zip on the disk, nor a   *)
(* part of a zip that could not be written.                                 *)
MailIsWhole ==
  \A r \in Runs : mail[r] # None /\ Alone(r) => Whole(r, mail[r].zip)

(* A link that was mailed goes on serving a whole zip of the job, though    *)
(* later runs upload to the same key, as long as no two runs overlapped.    *)
LinkServes ==
  (\A r \in Runs : met[r] = {}) =>
    \A r \in Runs : mail[r] # None /\ mail[r].tier # "attach" =>
      object # None /\ \E q \in Runs : paths[q] # <<>> /\ Whole(q, object)

(* "A finally removes the per-job temp files" (pipeline.py:11): when no run *)
(* is under way, each directory or zip that is still on a disk is paid for  *)
(* by a fault that is known to leave one, however runs overlapped.          *)
Left == {r \in Runs : dir[r] # None}
LeftZips == {h \in Hosts : zip[h] # None}
LeftoversPaid ==
  UnderWay = {} => Cardinality(Left) + Cardinality(LeftZips) <= spilled

(* The sources of a run are gone in the end, whatever became of its zip and *)
(* its mail.                                                                *)
SourcesGo == \A r \in Runs : pc[r] = "package" ~> dir[r] = None

-----------------------------------------------------------------------------
(***************************************************************************)
(* The inductive invariant.                                                *)
(***************************************************************************)
(* What a run has by the time it is somewhere. *)
PlaceInv ==
  \A r \in Runs :
    /\ pc[r] = "idle" => dir[r] = None /\ met[r] = {}
    /\ pc[r] = "package" => dir[r] # None
    /\ pc[r] \in {"idle", "scrape"} => paths[r] = <<>> /\ cleanup[r] = {}
    /\ pc[r] \in {"package", "upload", "unlink", "reply"} => paths[r] # <<>>
    /\ pc[r] \in {"package", "upload", "unlink"} => "zip" \notin cleanup[r]
    /\ pc[r] \notin {"finally", "over"} => mail[r] = None
    /\ pc[r] = "over" /\ "dir" \in cleanup[r] => dir[r] = None

(* The tier of a mail follows what its run noted for the cleanup. *)
TierInv ==
  \A r \in Runs :
    mail[r] # None => (mail[r].tier = "attach" <=> "zip" \in cleanup[r])

(* Runs that are under way together have met. *)
MetInv == \A r, q \in UnderWay : r # q => q \in met[r]

(* A run that was alone finds its own zip where it left it. *)
NeedsZip(r) == pc[r] = "upload" \/ (pc[r] = "reply" /\ "zip" \in cleanup[r])
ZipInv ==
  \A r \in Runs : NeedsZip(r) /\ Alone(r) =>
    zip[host[r]] # None /\ Whole(r, zip[host[r]])

(* The same for the uploaded object. *)
NeedsObject(r) ==
  pc[r] = "unlink" \/ (pc[r] = "reply" /\ "zip" \notin cleanup[r])
ObjectInv ==
  \A r \in Runs : NeedsObject(r) =>
    object # None /\ (Alone(r) => Whole(r, object))

(* Without overlap the object is a whole zip from its first upload on. *)
LinkInv ==
  /\ \A r \in Runs : mail[r] # None /\ mail[r].tier # "attach" => object # None
  /\ (\A r \in Runs : met[r] = {}) /\ object # None =>
       \E q \in Runs : paths[q] # <<>> /\ Whole(q, object)

(* The directories nobody will remove, and the instances with a zip that no *)
(* run is going to remove.                                                  *)
Forgotten == {r \in Runs : dir[r] # None /\ "dir" \notin cleanup[r]}
Owns(r) ==
  \/ pc[r] \in {"upload", "unlink"}
  \/ pc[r] \in {"reply", "finally"} /\ "zip" \in cleanup[r]
ForgottenZips ==
  {h \in Hosts : zip[h] # None /\ \A r \in Runs : Owns(r) => host[r] # h}
DebtInv == Cardinality(Forgotten) + Cardinality(ForgottenZips) <= spilled

SpillInv == spilled <= faults

IInv ==
  /\ TypeOK /\ PlaceInv /\ TierInv /\ MetInv /\ ZipInv /\ ObjectInv
  /\ LinkInv /\ DebtInv /\ SpillInv /\ MailIsWhole

=============================================================================
