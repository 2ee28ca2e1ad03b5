# A verification project for the document agent

The repository is an email agent. A mail asks for the documents of a regulatory
matter ("the Exhibits of M12205"); the agent reads it with an LLM, collects the
documents from a web portal with a browser, zips them and replies in the thread.
This directory holds TLA+ models of it, their TLC runs and TLAPS proofs.

## 1. The system

| Component | State it keeps | Operations | What is hard about it |
|---|---|---|---|
| Webhook and process API (`app/main.py`) | none of its own; the place of each request | `POST /inbound`, `POST /process`, OIDC check | redelivery, crash or failure between claim and dispatch, exceptions mapped to status codes |
| Queue (`app/queue/tasks.py`, `DEPLOY.md`) | the Cloud Task of a message, its attempts | inline call or create_task; dispatch, retry, exhaustion | retry of a job that has partly happened, deadline of a request whose job runs on, lost answer of create_task |
| Pipeline (`app/pipeline.py`) | `outbound_sent`, the parsed request, temp files | `process_job`, merge and upsert of the thread context | one mail per job under failures at every await |
| Store (`app/store/`) | a row per message, a row per thread | claim, save, load, set_status, get/upsert thread | unconditional writes, lost answers |
| Email client (`app/email/`) | none | parse, verify, send_reply | a send whose answer is lost |
| LLM client (`app/llm/`) | none | classify, extract, metadata, summarize (falls back to a template) | a free text whose facts are checked as parts of it |
| Scraper (`app/scrape/`) | the browser page, the set of documents seen | search, counts, collect, download | a screen read while it is painted, virtualized list, modal curtain, downloads that start late, termination |
| Packager (`app/package/`) | a zip and source files on disk, an object in a bucket | package, upload | paths shared by the runs of a job, partial zips, files left behind |
| Models, replies, config, wiring | constants and text | | |

`/inbound` calls the store and the queue; the queue calls the pipeline, inline
or through `/process`; the pipeline calls LLM, scraper, packager, email client
and store in that order. Different messages, redeliveries of one message and
attempts of one task share the store, the thread rows and the mailbox.

What makes each correct:

* API, queue, pipeline and store together: at most one outbound mail per job, a
  job reported done was answered, a failed one was apologised for, an
  acknowledged mail is not forgotten, every job reaches a terminal status.
* Thread context: what a follow-up inherits was asked in its own thread.
* Collection: no document twice, never more than the limit, every document seen
  is accounted for, one fault of the page costs at most one document, though the
  list scrolls under the ranks that the code has read, it ends.
* Downloads: a document that counts as downloaded has all of its own files.
* Search and counts: the count of the type that was asked for is the portal's
  wherever documents are delivered, the limit follows from it, the request ends.
* Packager and temp files: the mail of a run carries its own files, all of them
  and no others, a mailed link goes on serving them, nothing stays on a disk.
* Summary: the figures of the type asked for, the link and the matter the user
  reads are the facts, whatever the model wrote.

The hazards behind these are listed in `PROJECT.json`, each at its line.

## 2. Modules

| Module | Models | Kind |
|---|---|---|
| `OneOutbound` | the promise of `app/pipeline.py:1-12` for a job | abstract specification |
| `JobLifecycle` | API, queue, pipeline and store rows | detailed specification, implements `OneOutbound` inline |
| `MCJobLifecycle` | instances of it | TLC |
| `JobLifecycleProofs` | its safety in both queue modes | TLAPS |
| `JobPromiseProofs` | that it implements `OneOutbound` inline | TLAPS |
| `JobFaultsProofs` | what its faults can cost, counted | TLAPS |
| `Collection` | what `collect_documents` promises of the documents of a list | abstract specification |
| `CollectDocuments` | `download_type`, `collect_documents`, the list, the modal | detailed specification, implements `Collection` |
| `MCCollectDocuments`, `CollectDocumentsProofs` | | TLC, TLAPS |
| `CollectLossesProofs` | what the faults of a page can cost a collection | TLAPS |
| `DownloadFiles` | `download_with_retries`, `_download_doc` | specification |
| `MCDownloadFiles`, `DownloadFilesProofs` | | TLC, TLAPS |
| `JobFiles` | the download directory, the zip, the uploaded object, the mail and the cleanup of a job's runs | specification |
| `MCJobFiles`, `JobFilesProofs` | | TLC, TLAPS |
| `Summary` | `summary_is_valid`, the template, `summarize` | operators |
| `ScrapeMatter` | `scrape_matter`, search, counts, and what the pipeline makes of the result; extends `Summary` | specification |
| `MCScrapeMatter`, `ScrapeMatterProofs` | | TLC, TLAPS |

The modules meet at the places where one treats the other as a step. The scrape
and the package of `JobLifecycle` are single steps with a free outcome;
`ScrapeMatter` says when each outcome is true, `JobFiles` what the zip holds.
The download of `ScrapeMatter` delivers at most its limit, which
`CollectDocuments` shows of the collection (`WithinLimit`), whose own download
step is what `DownloadFiles` opens up. Overlapping runs are possible for the
reason `JobLifecycle` shows: a request that outlived its deadline runs on beside
the retry.

### JobLifecycle

A run of `process_job` is a pair of message and attempt (`Execs`). Every await
of the code ends an action, so everything that shares the store interleaves.

| Variable | In the code |
|---|---|
| `jobs[m]` | the row of the message: none, the placeholder of the claim, or its status |
| `threads[t]` | the row of the thread: last matter and type |
| `hook[m]` | where the `/inbound` handler that won the claim is |
| `acked` | messages whose webhook was answered 200 (AgentMail stops redelivering) |
| `task[m]`, `attempts[m]` | the Cloud Task and its dispatches |
| `pc`, `plan`, `req`, `outbound_sent` | the run: its next await, the mail it decided on, its request, its flag |
| `mails[e]`, `served[t]` | history: mails the provider accepted; who wrote a thread row |
| `faults` | history: the budget of faults spent |

| Action | Code |
|---|---|
| `Claim`, `DuplicateSkipped`, `SaveJob`, `EnqueueInline`, `CreateTask`, `InlineReturns`, `InlineEscapes`, `MarkFailed` | `main.py:53-117`, `tasks.py:23-56` |
| `Dispatch`, `VerifyOidc`, `Respond`, `Deadline` | `main.py:119-177`, the queue of `DEPLOY.md` |
| `Load` ... `DoneWrite` | `pipeline.py:51-168`, one action per await |
| `StageFails`, `Apologise`, `FailWrite` | the except clauses, `pipeline.py:169-198` |
| `...Unanswered`, `...Fails`, `CrashHandler`, `CrashRun` | the same calls failing, taking effect without an answer, or cut by a crash |

The kinds of fault an instance allows are in `FaultKinds`: `error` (a call
raises and has no effect), `blank` (the same with an empty exception text, which
httpx timeouts have, hence only at calls that go through httpx), `lostAck` (a
call takes effect and raises), `crash` (the instance dies), `timeout` (Cloud
Tasks gives a request up; its job is not cancelled). `MaxFaults` bounds them.

Decisions worth knowing:

* The outcomes of classify and of a scrape are free choices; extraction is a
  function of the message (temperature 0).
* `classify_exception` maps every exception to `RetryableError` and nothing in
  `app/` raises `TerminalError`, so the branch of `pipeline.py:169-176` is dead
  and left out, and `Handler` needs no class of error.
* `summarize` is a part of `Package`, which fails as a whole. It falls back to
  the template, but can raise all the same: the log line of its except clause
  has the `splitlines()[0]` of `InlineBlankError` too (`anthropic_client.py:233`).
* Requests refused before the claim change no state and are left out.
* The store is durable across crashes, as in production; the in-memory store
  loses everything with its process, which is then one more execution.
* Nothing bounds the inline webhook request, so `Deadline` belongs to tasks.

### CollectDocuments

The page is the environment: `total` rows, the first row of the clip `top`,
`modal` (the row whose window is open, 0 for none). `Rendered` is what has a
button, `Rank` its position among the buttons (what the code calls an index),
`Reached` the row that a click on a rank really reaches. The loop has the names
of the code: `limit`, `progressed`, `no_progress`, `done`, `docs`, `failed`.
The list's length and the limit are chosen in `Init`, so that a run covers
every list up to `MaxRows` and every limit in `Limits`. `OpenTab` stands for the
tab click and its checks, `ListRows` / `OpenModal` / `OpenFails` / `Download` /
`CloseModal` / `Scroll` for the awaits of the loop. What may go wrong is an
action of its own: the geometry that cannot be read (`ListRows` with every
rendered row, or `ListRaises` when the buttons cannot even be counted), a click
that times out before or after its row was scrolled into view and a modal
without a file button (`OpenFails`), a download, a curtain, a fallback key press
that raises (`CloseRaises`), an exception of the scroll, which is only logged
(`ScrollFails`).

A click on a row below the clip scrolls the list (`Reveal`) while the ranks of
the pass stay what they were, so that the next rank names a row further down.
`Steady` is the condition on the grid under which the next pass still shows
every row that is skipped this way: twice the scroll step plus
`Below * (Below + 1)` is at most twice `Window + 1`.

A curtain that outlived its timeout may still go later (`CurtainGoes`), which
nothing guarantees; `blocked` remembers that one was left, and `lost` counts the
clicks and scrolls lost since a pass last met a new document.

`Collection` is the same loop for a caller who knows nothing of the page: a
document is taken up if it was never taken up before, while more are wanted, and
is then delivered or given up, for good; a pass that met nothing new is counted
(`IdlePass`); the result is returned when the limit is reached, or after
`MaxNoProgress` such passes in a row, or before any pass for a tab without rows. Its
state is the code's own (`done`, `docs` by their keys, `failed`), except that
`idle` is 0 as soon as a pass has seen something new, where the code resets
`no_progress` at the end of the pass (`Idle`).

### DownloadFiles

`doc`, `file`, `attempt` are the loop variables, `coming` the downloads asked
for that have not started, `caught` the one `expect_download` returned, `saved`
and `result` what was kept. `Start` is the portal's: it is caught by whoever
waits at that moment. A click that raises may have asked for its download all
the same (`ClickLost`). `late` remembers that a wait was abandoned, `missed`
which attempts of which files a transient exception ended, `bugs` the documents
that met an exception which is not retried.

### JobFiles

Several runs of one job, each on the instance (`host`) that Cloud Run chose for
it. The download directory belongs to a run; the zip belongs to a job and an
instance, and the object to a job, because `package` names both after the job.

| Variable | In the code |
|---|---|
| `pc[r]` | the next await of the run |
| `paths[r]` | the paths of the delivered documents, in order |
| `dir[r]` | the files of the directory that `download_type` made |
| `cleanup[r]` | the list `cleanup` of `process_job` |
| `zip[h]` | the file `{job_id}.zip` in the temp directory of an instance |
| `object` | the object `jobs/{job_id}.zip` in the bucket |
| `mail[r]` | the tier of the mail and the zip it carries or links to |
| `met`, `spilled`, `faults` | history: runs under way together, faults that leave something behind, faults |

`Build` is one step, since nothing in `package` awaits before the upload, and
includes the loop over the sources, the numbering of names (`Before`) and the
unlinking (`Sources`). `BuildFails` stops the loop anywhere. `Upload` reads the
file in a thread some time later; `Reply` reads or names what it finds then.
`UploadFails` and `ReplyFails` have a branch without a fault: an overlapping run
has removed the file. `ScrapeLeaves` stands for a scrape that raised, or
delivered nothing, after its directory was made.

A mailed link or a URL attachment is taken to be read when it is mailed; what a
link serves afterwards is `LinkServes`.

### Summary and ScrapeMatter

A text is the record of the facts it states: the matter, five counts, k, N, the
type, the link. Matter numbers are sequences of digits and counts are numbers,
because the check looks for them as parts of a text: `EndsWith` says which
numeral passes for which (`13 Exhibits` contains `3 Exhibits`), `BeginsWith`
which matter number (`M12205` contains `M1220`). The five types, the link and
the phrase "k of the N type" are matched whole. That phrase contains "N type",
so that the check of the five counts finds the one of the type that was asked
for whatever number the text states for it elsewhere; `summary_is_valid` looks
at the other four only. `summarize` mails what passes and the facts otherwise.
The clause about skipped documents and the metadata are no part of the check,
and are left out.

The portal (`portal`) and the screen (`painted`) are the environment of
`ScrapeMatter`: any matter may be missing, any count zero. `Paint` adds a label
at any moment between the search and the closing of the browser; `ResultsShow`
needs one label, `ReadCounts` takes a missing one for zero. `Search` may put
another number, or nothing, into the box, since keystrokes may be lost. `Close`
and `Raise` are the `finally` clause of `scrape_matter`, and what the pipeline
does with the result; `Raise` also stands for a summary whose exception has no
text to log.

`NoResults` takes a screen without a label for a matter that is not there, and
`ReadCounts` a missing label for a type without documents, as the code does. No
property says that these two answers are true, because they need not be
(section 3).

## 3. Runs

All runs say `CHECK_DEADLOCK FALSE`: the system comes to rest when every mail
is handled, and a collection when it is over.

| Run | Question | Result |
|---|---|---|
| `InlineFaults` | three mails inline, one fault of any kind: types, `DoneWasAnswered`, `AckedIsAccounted`, `ContextWasServed`, `RequestWasAsked`, `OneFailureIsMailed` | holds |
| `InlinePromise` | two faults, no lost answers: the refinement of `OneOutbound` (`PromiseKept`), `InlineSettles` | holds |
| `TasksFaults` | two mails in tasks mode, three attempts, one fault of any kind: `DoneWasAnswered`, `AckedIsAccounted`, `ContextWasServed`, `MailsArePaid`, `RunsKeepDone`, `TaskSettles` | holds |
| `TasksDuplicateReply` | one mail per job in tasks mode | violated: reply, failed done write, retry, second reply |
| `InlineBlankError` | a failed job that was understood left a mail, with an empty exception text | violated: `splitlines()[0]` raises in the except clause |
| `InlineStaleContext` | the thread row moves forward | violated: the older email finishes last |
| `Collect` | types, `Accounted`, `WithinLimit`, `IsolatedLosses`, the refinement of `Collection` (`DecidedOnce`), `Ends`, stale ranks and two faults of any kind | holds |
| `CollectHang` | a row whose modal hangs is merely skipped | violated: the modal stays open |
| `Download` | types, `OwnFiles`, `NothingGivenUpEarly`, `EverySettled`, five faults of any kind | holds |
| `DownloadLate` | `OwnFiles` also when a wait was abandoned | violated: the abandoned request starts while the next file is awaited |
| `Files` | two runs of a job, two faults of any kind: types, `MailIsWhole`, `LinkServes`, `LeftoversPaid`, `SourcesGo` | holds |
| `Answer` | every portal of two matters, two types and three counts, two faults of any kind: types, `TotalIsTrue`, `TextKeepsFacts`, `Ends` | holds |

Some properties come in two forms. The one that holds says under which
condition (`OneFailureIsMailed`: process_job itself reported the failure and
one fault happened; `MailsArePaid`: a mail beyond a job's first is paid for by a
fault; `IsolatedLosses`: no curtain was left standing and the list is `Quiet`;
`OwnFiles`: no wait was abandoned). The other one is what a comment or a document of the
repository says without that condition, and is the one that is violated.

Others hold under a condition that the code needs and does not enforce.

* `RunsKeepDone`: the handler is not taking create_task for failed. If it is,
  its task may have been created all the same, and its write takes a done job
  back.
* `TaskSettles` holds because one fault leaves an attempt of the three to
  finish the job, and `AckedIsAccounted` counts a task whose attempts are used
  up among the ways a mail is lost. The last attempt of a task re-raises like
  the others, so the job stays `processing` and its sender is told nothing; the
  repository's README has the email for that case among its later work.
* `MailIsWhole`, `LinkServes`: the run met no other at its paths. Two runs of a
  job that overlap on an instance can mail each other's zip, and one of them
  fails when the other has removed it.
* `IsolatedLosses`: the list is `Quiet`, which means that the clicks and scrolls
  lost since a pass last met a new document, and the rows that repeat one, are
  fewer than the passes without progress that end the loop. Without it, as many
  faults in a row as `MaxNoProgress` end a collection whose documents were never
  looked at. And the grid is `Steady`. Outside of it TLC finds rows that are
  skipped without any fault (the instance of `Collect.cfg` with `Step = 2`
  instead of 1), although the comment of `_clip_resident_indices` says that the
  unchanged scroll step "still reach every document" (`scraper.py:433-434`) and
  that rows below the clip are kept because Playwright scrolls them into view
  "fine". How many rows the portal renders below its clip, and how many the 520
  pixels of a wheel event are, the code does not say, so nothing here says on
  which side of the condition the live grid is.
* `TotalIsTrue`, and the counts of `TextKeepsFacts`: the number was typed as it
  is. What a screen is about is never read back, so a mistyped number is
  answered for the matter found under the number that was asked for.
* `TextKeepsFacts` says of the count of a type that was not asked for that it
  ends as the portal's does (or is a 0 of a half painted screen), and of a matter
  number that it begins as the one asked for does. Equality, which the comment
  of `summary_is_valid` has in mind ("so no count is model-invented",
  `anthropic_client.py:254-258`), is not what a search for a part of the text
  gives: a summary with `13 Transcripts` passes for a count of 3, and one with
  `99 Exhibits` passes for any count when it goes on to say
  `2 of the 3 Exhibits`.
* `LeftoversPaid` holds under any overlap, and counts the places that leave
  something behind: a scrape that raises (its directory), a zip that cannot be
  completed, uploaded or unlinked (the zip).

What no property says, because the code does not keep it, and no fault is needed
beyond a slow portal:

* "No such matter" is also the answer to a results screen that is slow
  (`scraper.py:325`), where the failure table of the repository
  (`README.md:317`) has `ScrapeStructureError` for a screen without labels, which
  the code raises nowhere after the search.
* "None of that type" is also the answer when the label of the type was not
  painted yet (`scraper.py:328`).

### Bounds

* Two emails are the fewest that interleave and share a thread; the third of
  `InlineFaults` is outside of the thread, so that a leak has somewhere to come
  from. One of them names a matter and a type, the others one of the two, so
  that inheritance matters.
* Two attempts are the fewest with a retry. `TasksFaults` has three, so that a
  retry which no fault has bought would show: with one fault only two of them
  may mail. The deployed queue has five.
* One fault reaches every place of the code once; the second one of
  `InlinePromise` hits the handling of the first. The proofs have no bound.
* `Collect` uses a window of three rows, with one row rendered above and two
  below it, where the portal renders about eight: what matters is that passes
  overlap, that a list of twelve rows is several windows long, and that a pass
  whose last two ranks are below the clip moves the list twice, so that the
  second of them names a row that was not rendered when it was read. With
  `Step = 1` this grid is just `Steady`; `Step = 2` is not, and violates
  `IsolatedLosses`. One limit lies within the list and one is its length. Two
  faults are one fault and a second one in its wake; three in a row, which end a
  collection by themselves, and every other number are the theorem's. Rows 2 and
  4 share a file stem.
* `MaxNoProgress` and `Attempts` have the values of the code (3); five faults
  use up the attempts of one file and leave two for another document.
* `Files`: two runs are the fewest that can be retry and first run, in sequence
  or at once, and two instances the fewest that can keep them apart; the
  assignment is chosen in `Init`. A scrape delivers two files, one file and the
  rest of a failed document, or one path twice. Two faults are one for a run and
  one for its retry.
* `Answer`: one of the matter numbers begins with the other. A count is zero,
  below the cap or above it; the writings include right counts, wrong ones and
  ones that end as they should (13 for 3), either figure for k and N, either
  type and the link or none. Two types stand for the five: a screen is half
  painted when one of them is missing.

### Fairness

`FairSpec` of `JobLifecycle` has weak fairness on the steps of a handler, of a
run and of the queue: a coroutine whose await has completed is resumed and
Cloud Tasks dispatches what it holds. Nothing forces a fault, a redelivery or a
new email. `CollectDocuments` and `DownloadFiles` assume that the scraper goes
on, since each of its awaits has a timeout, and that an awaited download starts
or times out. `JobFiles` assumes that a run that has begun goes on. `ScrapeMatter`
assumes the same of the scrape, and that the browser goes on painting; that a
fault happens is never assumed.

## 4. Proofs

`JobLifecycleProofs` proves for any messages, threads, attempts, either queue
mode and any number of faults of any kind: `TypeCorrect`, `DoneCorrect`,
`ContextCorrect` and `AckedCorrect`, from the assumptions on the constants that
`JobLifecycle` names. None of these is inductive: that an acknowledged message
is accounted for needs to know that a handler that waits has a live run
(`OwnerInv`), that a run that returned left a terminal status (`JobInv`), that
a queued task has attempts left (`QueueInv`) and that runs start only when
dispatched (`StartInv`); that a done job was answered needs what a run has
decided and sent by the time it reaches each await (`PlanInv`). `IInv` is their
conjunction; `Inductive` follows from `IInvInit` and `IInvStep`, whose lemmas
take one conjunct each and one action each.

`JobPromiseProofs` proves that the inline pipeline implements the abstract
`OneOutbound` (`InlineKeepsPromise`). The promise knows the set of mails a user
was sent, so that a second mail of any kind is a step it does not have. The one
assumption, `Answering`, is that the queue is inline and that no call takes
effect and loses its answer; any number of errors, blank errors and crashes is
allowed. Without the first half `TasksDuplicateReply` is a counterexample;
without the second, a reply whose answer is lost leaves `outbound_sent` false
(`ReplyUnanswered`) and the failure mail follows it. The argument has three
parts:

* `PromiseInv` adds to `IInv` what the promise needs: the flag `outbound_sent`
  tells the truth about the mails of a run that can still send or write
  (`OneMailInv`), a live run has a handler that awaits it and a job that is
  still open (`SettledInv`, so nobody writes a status behind its back), and no
  done job has a failure mail.
* `Visible` classifies every step by what the promise sees of it: nothing
  (`Quiet`), a terminal write of an open job (`Finishes`), or the first mail of
  an open job (`Sends`).
* `QuietMaps`, `FinishMaps` and `SendMaps` map these to a stutter, `Finish` and
  `Send` of `OneOutbound`.

`JobFaultsProofs` counts what faults can cost, in either queue mode, from
`PaidInv`, which adds three conjuncts to `IInv`: every dispatch of a task after
its first was bought by a fault, the one that made the run before it raise, die
or miss its deadline (`RetryInv`); a run sends what it decided on and at most a
failure mail besides, and has a fault behind it when it is in the except clause,
two when it leaves it without a mail (`ExcuseInv`); an inline run that came to
its end has a done job, a mail or two faults (`EndInv`).

* `MailsPaid` states `MailsArePaid` without any hypothesis. In tasks mode
  (`TasksArePaid`) no failure is mailed, so the mails of a job inject into its
  attempts; inline (`InlineIsPaid`) a job has one run (`SoleRun`), with one
  answer and, after a fault, one apology. This is what is left of "exactly one
  outbound action per job" where `TasksDuplicateReply` violates it.
* `InlineFailureIsMailed` states `OneFailureIsMailed` inline. As a Cloud Task
  process_job reports no failure and mails none, which is the point of a retry.
* `RetriesKeepDone` states `RunsKeepDone` in tasks mode under any faults, where
  a run that fails writes no status, and inline when no answer is lost. Inline
  with lost answers it is false: a done write that took effect and raised is
  followed by the write of `failed` (`DoneWriteUnanswered`, `FailWrite`).

`CollectDocumentsProofs` proves `CollectTypes`, `CollectAccounts` and
`CollectLimit` for every list, document key, grid geometry, limit and number of
faults. The inductive part is that during a download the document is marked,
not yet delivered and still wanted. `CollectDecidesOnce` proves that it
implements `Collection`: `CallerStep` maps each action to one of `Collection` or
to a stutter, `TellsInv` being what it needs besides, that no flag of the pass
before is left when the rows are read.

`CollectLossesProofs` proves `IsolatedLosses` for every list, limit, window,
overscan above and below, scroll step and number of faults, with all the ranks
that go stale within a pass (`LossesAreIsolated`), under one hypothesis on the
grid, `Steady`; that the list is `Quiet` is a part of the property.

The inductive invariant is `LossInv`: there is a frontier `F` such that at most
one fault each is charged for the documents of the rows up to `F`, and those
seen beyond it, that were not delivered (`Charged`), and the loop is still able
to deal with the rest (`Dealing`). Between two passes the clip starts no later
than row `F + 1` (`Between`). Within a pass that began at row `t`, when the next
rank named row `c` then (`PassAt`), the ranks left are those of the rows from
`c` on (`Left`), the rows before `c` are dealt with as long as `c` is in the
clip, and from then on each rank moves the clip by as much as it is stale and
one row more: after `j` of them it has moved by at most `j (j + 1) / 2` rows
(`Moved`, with the lemmas on that number `Triangle` and `TriangleGrows`), which
is where `Steady` comes from. Passes without progress are paid for by clicks and
scrolls that were lost and by rows that repeat a document (`Afforded`, `Pays`).

`NextOf` says which rows the rank of row `c` may reach in a clip that has moved,
`Outcomes` what opening a window can do, `TryRow` that trying a rank moves the
frontier and pays for it, `ListPass`, `PassEnd` and `ScrollPass` that a new
pass, and a scroll, start within reach of it; `LossStep` has one step for each
action.

`DownloadFilesProofs` proves `DownloadTypes`, `DownloadOwnFiles` and
`DownloadNotEarly` for any documents, files, attempts and faults. The inductive
invariant says that the documents from the present one on are untouched
(`PlaceInv`), that until a wait is abandoned the only download that can start or
be saved is the one asked for, and `saved` holds the files before it
(`PunctualInv`), and that every attempt of the present file before the present
one was missed (`TriedInv`), which is what makes `NothingGivenUpEarly`
inductive.

`JobFilesProofs` proves every safety property of `JobFiles`, for any number of
runs and instances, any batches and any faults: `FileTypes`, `MailsAreWhole`,
`LinksServe` and `LeftoversArePaid`. `IInv` says what a run has by the time it is
somewhere (`PlaceInv`), that runs under way together have met (`MetInv`), and
that a run that was alone finds its own zip, and its own object, where it left
them (`ZipInv`, `ObjectInv`). The lemmas about a step have two parts each: the
run that takes it, action by action, and the others, for which `Frame`,
`FrameZip` and `MetGrows` say what it leaves alone, and `NotAlone` that whoever
shares its path was never alone. `LeftoversPaid` is not inductive, because it
says nothing while a run is under way; `DebtInv` counts the directories that
nobody has noted for cleanup and the zips that no run will remove, and
`DebtStep` shows that one step adds at most one of them, with its fault.

`ScrapeMatterProofs` proves every safety property of `ScrapeMatter`, for any
portal, cap, set of writings and number of faults: `AnswerTypes`,
`TotalsTrue` and `TextsKeepFacts`. The inductive part is that a label is only
painted when there is such a matter (`ScreenInv`), and that from the moment the
documents are wanted the count of their type is the portal's and not zero
(`CountInv`); `SummarizeKeeps` is the lemma about `summarize`, for a text that
passes and for the template, of the counts that are looked at.

All proofs rest on the named assumptions on the constants, which TLC evaluates
for every instance, and on the hypotheses given above.

Model-checked only: liveness (`InlineSettles`, `TaskSettles`, `Ends`,
`EverySettled`, `SourcesGo`), which the proof system does not cover.

## 5. What is left

1. `ScrapeMatter` composed with `CollectDocuments` and `DownloadFiles`, whose
   steps its `Download` stands for.
2. That `Steady` is also necessary: so far it is one instance outside of it
   that violates `IsolatedLosses`.

Not modelled:

* the lock of `InMemoryStore` (the sections under it do not await, so the event
  loop runs them as one step anyway) and the lazily created client of
  `SupabaseStore`, which carries no state of a job;
* the trace, screenshot and page files of `_finish_trace`: they are made to be
  kept, nothing reads or removes them, and `LeftoversPaid` does not count them;
* the content of the metadata (organization, project, amount, dates), which the
  validation does not look at;
* the wording of mails and prompts, signature checks, parsing of payloads and
  of the portal's text beyond what a property tells apart, reading of the
  settings, logging;
* the discovery spike under `reference/`, a probe that the program never runs.
