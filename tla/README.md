# Formal models of WeKindle

TLA+ models of the parts of WeKindle in which order, failure and shared state
decide whether the program is right, the TLC runs that check them, and TLAPS
proofs. WeKindle is two applications over one core: a KOReader plugin
(`apps/koreader-plugin`) and a standalone reader for Kindle
(`apps/standalone`), both written in Lua over `core/lua/weread/lib`, with a thin
platform layer in Lua and C.  Python scripts beside the plugin try the service's
protocol on a live account.

    tlc -config MCReadReport.cfg MCReadReport      # any run of the table below
    tlapm ReadReportProofs.tla                     # the proofs, module by module:
                                                   # ReadReport, ProgressSync, Downloader,
                                                   # StandaloneReader, ChapterCache,
                                                   # ProgressProbe, FetchEpub, Login

## The system

| part | state | operations | talks to | hard behaviour |
|---|---|---|---|---|
| Reading-time reporter, `core/.../read_report.lua` | task generation, job (pid, pipe), cooldown of the cookie renewal, suspended flag | start, stop, tick, fork, poll, collect, apply outcome, lifecycle and menu handlers | UI scheduler, forked child, settings, server | callbacks of dead tasks; a child that outlives its job; an outcome older than what it overwrites |
| Position synchroniser, `core/.../progress_sync.lua` | verified gate, local position, pulling and uploading flags, generation, pending jump | open, close, page turn, pull, upload, conflict dialog, suspend, resume | reporter, reader, server, other devices | answers for the document before; retries after a busy reporter; the gate of the reporter |
| Download engine, `core/.../downloader.lua` | one record per download, shared standby counter | start, chapter step, batch step, save, cancel | scheduler, client, host UI, device, table of books | a step that raises; cancel between steps; two downloads with one guard |
| Device, `platform/kindle/device.lua` | suspend count | prevent and allow suspend, lifecycle state | power daemon | a power command that fails |
| Standalone loop, `apps/standalone/app.lua` with `reader_session.lua`, `foreground_time.lua` | screen, load step, session, foreground clock | a dozen ticks a frame, buttons | everything below | requests block the loop; errors leave state behind; kill at any point |
| Chapter cache, `core/.../canonical.lua`, `book_service.lua`, `cache_manager.lua` | files of a book, whole-book task | ensure a chapter, task step, cancel, export, clear | client, file system | kill between two writes; half of a removal fails |
| Settings, `core/.../settings.lua`, `book_store.lua`, stores | key-value store, three files per book, secrets | get, set, flush, update_auth, migrations | everybody | several writers of one table; several files of one record |
| Content, annotations, position mapper, protocol, crypto | none | pure transformations | client | offsets, ranges, rounding |
| Login, the plugin's `qr_login.lua` | generation, cookie jar, code on the screen, dialog for the one-time code | start, begin, poll, verify, complete, cancel | UI scheduler, service, settings | answers after cancel or restart; polls that time out |
| Progress verification script, `scripts/verify_progress_sync.py` | the position found, the exception under way | pull from three places, upload, renew, probe, wait, restore | service, Gateway with a cache, other devices | a write that has to be taken back whatever fails |
| EPUB fetching script, `scripts/fetch_weread_epub.py` | cookies, chapter and shards, output file | renew, load the reader, dump, report, fetch, write | service, file system | shards of two formats, scrambled; rotating cookies; files written late |
| QR login verification script, `scripts/verify_qr_login.py` | uid, code, temporary picture, session cookies | request by request | service, phone, terminal, file system | a file to remove whatever fails; a loop that asks |
| KOReader screens, statistics, reviews, LVGL and CREngine bindings, C host | views | | | display |

`PROJECT.json` lists every part with its status, and under `hazards` the places
in the code where something could go wrong that a test would hardly reach.

What makes each part right: the reporter neither stops silently nor reports
twice, leaves no zombie and overwrites nothing newer; the synchroniser sends only
positions of the open file, opens the gate only after it has seen the cloud and
does not forget to upload; a download accounts for each chapter, tells how it
ended and lets the device sleep again; the standalone loop loses no measured
second and no page; the cache never loses a chapter it has and the task says
what is true; the settings give back what was set; a login stores the account of that
login only, and its code does not stay on the screen; the progress script leaves
the position where it was, the EPUB script says "ok" of whole books only and
forgets no rotated cookie, and the login script leaves no picture of its code.

## Modules

| module | models | form |
|---|---|---|
| `ReadReport` | `read_report.lua`, and from the plugin the handlers that call it | state machine: UI loop, timers, child processes |
| `ReadReportProofs` | | theorems about `ReadReport` |
| `ProgressSync` | `progress_sync.lua`, the conflict dialog, chapter switching, the gate to the reporter | state machine |
| `ProgressSyncProofs` | | theorems about `ProgressSync` |
| `StandbyGuard` | what the guard of the downloads promises | abstract state machine |
| `Downloader` | `downloader.lua`, the guard of `device.lua`; implements `StandbyGuard` | state machine |
| `DownloaderProofs` | | theorems about `Downloader` |
| `StandaloneReader` | the reading part of `app.lua`, `reader_session.lua`, `foreground_time.lua`, `accept_remote` | state machine by frames |
| `StandaloneReaderProofs` | | theorems about `StandaloneReader` |
| `ChapterCache` | `canonical.lua` file by file, the task of `book_service.lua` with `task_tick`, `cache_manager.lua` | state machine by file operations |
| `ChapterCacheProofs` | | theorems about `ChapterCache` |
| `BookStore` | `Settings:get/set("books")`, `book_store.lua` | state machine by file operations |
| `ReversibleWrite` | what a run of the progress script promises | abstract state machine |
| `ProgressProbe` | `verify_progress_sync.py`; implements `ReversibleWrite` | state machine by exchanges |
| `ProgressProbeProofs` | | theorems about `ProgressProbe` |
| `ShardCodec` | the scrambling, base64 and UTF-8 of `fetch_weread_epub.py` | operators on sequences of codes |
| `FetchEpub` | one run of that script, over `ShardCodec` | state machine by requests |
| `FetchEpubProofs` | | theorems about `FetchEpub` |
| `LoginService` | the service and the phone behind a QR login (external) | operators |
| `QrLogin` | `verify_qr_login.py`, over `LoginService` | state machine by requests |
| `DeviceLogin` | the plugin's `qr_login.lua`, over `LoginService` | state machine by callbacks |
| `LoginProofs` | | theorems about `DeviceLogin` and `QrLogin` |
| `MC...` | instances | constants, symmetry |

`map` in `PROJECT.json` names the lines each definition stands for. Common
conventions:

- One action is one callback that the code runs without giving way: on the
  single UI thread nothing comes between. Where the code may be cut (a process
  killed between two file operations, a forked child, a request that blocks the
  frame while time passes) the handler is several actions.
- Timers are a bag or a field of queued callbacks, each of which may fire next.
  Delays are kept only where the code relies on their order: in `ProgressSync` a
  task that was queued 0.1 s ahead runs before one queued 2 s ahead at the same
  time.
- A request succeeds or fails, and where it matters may reach the server and
  still fail.
- Methods that call each other are operators from a record of the object, the
  queue and the processes to the next one, so an action reads as the handler
  does.
- A definition marked as a mutant is a plausible error in the definition it
  precedes. Replacing one by the other must break the property named with it;
  it belongs to no specification.

### ReadReport

`report` is the object, `timers` the bag of its callbacks, `child` what stands
behind each process id and its pipe. `Tick`, `Poll`, `CollectAgain` are the three
callbacks; `ChildRenews`, `ChildWrites`, `ChildDies` and `ChildExits` are the
forked process, at any speed or hanging for ever; `ReaderReady` to
`ClearAccount` are the plugin's events. A stored record is the number of edits of
the parent in it, which is what its fingerprint can tell. `MaxPolls` stands for
the job timeout.

### ProgressSync

One object lives through successive documents, as in KOReader while the plugin
is loaded. Positions are cells of a coarse grid with a chapter length, and
`Threshold` cells count as the same position. Another device may move while this
one has the document closed (`AwayWhen`); that it may move while this one sleeps
with a dialog open is a hazard (`progress_sync.lua:457`), and the constant admits it.
`overtaken` and `unseen` only observe.

### Downloader and StandbyGuard

`job[j].next` is the callback the scheduler holds for a download. Every call
that may raise is a branch of its step. A start that raises between taking the guard
and scheduling the first step leaves the download `stranded`: it holds the guard and
no callback. `index` counts through the list of chapters as the code does.
`standby` joins the reference count, the device's count and the power property,
which may not obey (`PowerWorks`). `StandbyGuard` has no counters: it is the set of
the holders, those of them that are lost with their guard, whether the property blocks,
and whether it is stuck after a release it refused. `Guard` maps the one to the other.
Two downloads at once are the plugin's, where KOReader keeps the device awake; under
`device.lua` the engine runs in the command-line process, which makes one. The module
joins both, so it has more behaviours than either.

### StandaloneReader

`phase` is the place in the frame. Time is in units that pass inside a tick
(`upload`, `load`) and between frames; `clock.running` is the interval not yet
added to `pending`. `owed`, `read` and `reported` only observe: seconds measured
and not yet acknowledged, time the book was on the screen, and time the server
was told. `BeingRead` is generous: it counts the loading, menu and error screens.
Prefetching is a request that takes time; articles are never reported; the
layout is the page count a chapter comes out with.

### ChapterCache

`live` says which files a book has, `legacy` whether the older directory is there,
through which every path to the cache goes (`Canonical.book_dir` is
`<cache>/<id>/../canonical/<id>`). `doing` is the handler under way: each file
operation is an action and may fail; `Crash` may come between any two. A write that
fails does so in one of two ways, as `write_atomic` looks at some results and not at
others: it is reported and leaves the old file, or it is not and renames a torn one
into place (`live.torn`). A document counts as cached in either state, as
`has_chapter` only opens it. `strays` are the directories left under a trash name, by a
crash or by a rename back that failed; nothing in the code looks for them.

### BookStore

Every disk operation succeeds; what the module shows needs no fault. The other
modules assume the contract it refutes, that a table of books which is set is
what is read back: they describe the reporter, the synchroniser and the download
engine over a settings store that works.

### ProgressProbe and ReversibleWrite

A step is one exchange with the service, chosen by `stage`, the place in `main()`.
`Upload` is the local function of that name: the answer may be lost after the
service has taken the position, and may be none it counts as success. `Raise` is
an exception: past the probe it goes by the finally block (`restore`, `confirm`),
and `pending` holds it meanwhile. A position is a chapter and an offset; each of
the three endpoints leaves out what `gives` says it leaves out, and the Gateway
may answer with the position of before. `Interrupt` is Ctrl-C, `Kill` the end of
the process, `OtherDevice` a reader elsewhere. `ReversibleWrite` knows none of
this: it has a position, writes near the origin, and a verdict. `Promise` maps the
one to the other; `disturbed` is what makes the promise void (an old answer,
another device, an endpoint without offsets).

### FetchEpub and ShardCodec

The texts of the chapters are code points, encoded by the service's side of the
module (`encode_payload`, external) and decoded by the script's, so that the order
of swaps, their places, the padding and the repair of bad UTF-8 all matter.
`stage` is the request that comes next, in the three modes dump, report and epub.
`Answers` lists what may come for a shard. Every answer may rotate the cookies;
`jar` and `saved` count how often they were in memory and in the file. Writing
the output is opening it, then its entries. `cut` and `reported` only observe.

### QrLogin and DeviceLogin

Both stand over `LoginService`: what a login at the service answers in each of its
phases and what the phone and the clock do to it. `QrLogin` is sequential: `Raise`
goes by the finally clause from inside the try block and ends the run elsewhere,
and `qr`, `qr_path` tell the file from what `main()` knows of it. `DeviceLogin` is the
opposite: every callback may come late. Logins are named by their generation,
cookies by the login they are of. `tasks` is the queue of `runOnlineTask`, which
runs in order as each entry waits the same 0.1 s; polls and buttons come between
its entries in any order. `Start` is disabled beside the dialog for the code,
which is modal.

## Runs

| run | states | question | result |
|---|---|---|---|
| `read_report` | 2 processes, 1 book, 3 events | all safety of the reporter | holds |
| `read_report_live` | 1 process, 1 book, 2 events | are children reaped, does the cadence survive a hanging child? | holds |
| `progress_sync` | 4 documents, 2 books, 3 positions, 4 events | are position, gate and flags about the open document; what does closing upload? | holds |
| `downloader` | 2 downloads, 2 chapters, 2 retries | guard and its abstract form, chapters, outcome, end | holds |
| `standalone_reader` | 2 books, 2 chapters, 2 pages, 2 units of time, 4 events | seconds, page, loading screen | holds |
| `standalone_reader_idle` | same, 4 units, 5 events | is only reading reported? | violated |
| `chapter_cache` | 2 chapters, 4 events | cache, task, clean-up | holds |
| `book_store` | 2 books, 3 changes | is a book that is set kept? | violated |
| `progress_probe` | 1 chapter, offsets 0 to 2, 1 move | is the probe taken back, the verdict true, the promise kept, the end reached? | holds |
| `fetch_epub` | 3 chapters, 2 faults, 1 rotation | is "ok" said of whole books, are cookies kept, is the reported place one? | holds |
| `qr_login` | 2 faults | is the picture removed, does every run end? | holds |
| `device_login` | 4 generations | is only the present login stored, its code polled once and taken away? | holds |

What the passing runs show, beyond their one-line questions:

- `read_report`: no late callback starts, stops or reports for another task
  (`OneContinuation`), every child has one callback to reap it
  (`ChildrenAccounted`), and what child and parent know of the session is merged:
  no later edit is overwritten and a renewal's cooldown is kept (`OutcomeMerged`).
- `progress_sync`: the position and the gate are never those of another document
  (`AboutThisDocument`), the busy flags come down with their callback, and
  closing uploads unless one of the races named below came first.
- `downloader`: the guard of a download, the shared counter and the device agree,
  whatever raises and whatever the power property does (`GuardMeansWork`), and
  the engine with the device implements `StandbyGuard` (`GuardIsASet`); the
  completion is called once and the end is silent only in one way (`OutcomeOnce`).
  The guard is leaked in one way too, by a start that raises after it took it.
- `standalone_reader`: measured seconds are either in the clock, in the store or
  acknowledged, through crashes (`SecondsKept`).
- `chapter_cache`: only a clean-up takes a document away, and only a write whose
  failure nobody sees tears one (`CachedStays`); what a task counts has its document,
  and a task that ends well has all of them (`CountedIsCached`, `DoneIsCached`); a
  clean-up that reports success has left nothing of the book, neither in place nor
  under a trash name, except as told there (`ClearedIsGone`).
- `progress_probe`: the last position the service took of a run is not the probe's
  unless the process died, a Ctrl-C hit the finally block or the service did not take
  the restoration, which is sent once (`ProbeIsTakenBack`); with answers
  that can be relied on, a reported difference is one (`AlarmMeansMoved`); the
  script implements `ReversibleWrite` (`KeepsPromise`) and ends (`Ends`).
- `fetch_epub`: "ok" is said of a book with the selected chapters in their order,
  each with the text the service scrambled (`OutputIsABook`), but for the answers
  the code takes for empty shards on purpose; rotated cookies reach the file
  (`CookiesAreKept`); a reported place is one some source named (`ReportedIsAPlace`),
  but for the case that `hazards` names, an offset of 0 taken for none.
- `qr_login`: the picture outlives only failures before `main()` knows its name and
  of the removal itself (`QrFileIsRemoved`).
- `device_login`: an account is stored only for the login under way and only with
  that login's cookies, though cookies are merged before the generation is
  compared (`StoredIsThisLogin`).

The two violations, each with the line of the code and of the comment, README or
test that says otherwise, are the `findings` of `PROJECT.json`:

- *Waking restarts the clock of a closed reader.* `close_reader` stops the clock
  but leaves its book; every wake resumes it, and the time on other screens is
  reported when the next book opens.
- *No book is ever kept.* `book_store.lua` tests a global, `ok_json`, that nothing
  sets; encoding raises for every value.

Five further disagreements were met while modelling. The models contain them; the
properties above are stated around them, and no run is spent on each:

- *Closing after an upload in flight loses the newer position.* An upload that
  is acknowledged (`progress_sync.lua:371`), or retried behind a busy reporter
  (line 341), after the reader moved on clears the mark of a position that was not
  sent, against the plugin's `README.md:43`. `overtaken` excuses it in `CloseUploads`.
- *A conflict leaves the gate open.* When a second pull finds a conflict
  (`progress_sync.lua:455`), the gate is still open from the first, and reports go
  on sending the local position while the dialog waits, against `README.md:39`.
- *A download can end in silence.* The error handler of a scheduled step acts only
  while the guard is held (`downloader.lua:143`); the last step gives it back
  before its last calls, against the comment at line 138. `OutcomeOnce` shows that
  this is the only silent end.
- *A failed removal is rolled back half-deleted.* `rm -rf` fails after deleting
  part of the tree, and the rest is renamed back to the live path
  (`cache_manager.lua:93`), against the comment at line 4.
- *A book may be called readable with a torn chapter.* `write_atomic` ignores what
  `write` and `close` return (`canonical.lua:38`), so on a full disk a torn document
  is renamed into place and counts as cached for good; the task then says that all
  chapters can be read offline (`app.lua:1454`). The properties speak of documents that
  are in the cache, not of whole ones.

### Bounds, and why they are enough

Every counter that is not bounded by the code is bounded by a constant:
`MaxEvents` (user, device and storage events), `MaxTime`, `MaxPolls`, `MaxChanges`.

- *Reporter.* A hazard needs an old child and a new one at once, hence two process
  ids, the least for a reused one; three events stop, start and stop again with
  a job in flight. Books and process ids are interchangeable, and the safety
  run reduces by that symmetry; the liveness run does not.
- *Synchroniser.* Four kinds of document are the least with a whole book, a chapter
  of it, another book and no book; three positions in two chapters with a
  threshold of one have pairs that are the same, that differ inside a chapter
  and across chapters. Four events open a document, move, close and open another
  while tasks are queued.
- *Downloads.* Two share the guard; two chapters have a first and a last; one
  batch with two retries can fail, recover and be given up.
- *Standalone loop.* Limits are as small as they can be told apart: one unit is
  worth a report, one unit's wait follows a failure, two units without a frame
  are a gap. Two units of time see both a report that fails and the retry, and
  seconds measured during an upload.
- *Cache.* Two chapters have one that succeeds and one that does not; four events
  fill the cache, clear it in part and run the task on what is left.
- *Progress script.* One chapter, as a run never leaves the one it found; offsets
  0 and 1 at the start, so that the probe steps ahead of one and back from the
  other; one move of another device, which is enough to void the promise at any
  point. About 1.4 million states: every combination of the fields the three
  endpoints leave out is an initial state.
- *EPUB script.* A cover, a chapter whose payload is long enough for swaps told by
  its tail, with code points of one to four bytes, and one whose payload is shorter;
  the last two share the name of an image. Two faults meet in one run, one rotation is enough to
  be forgotten.
- *Login script.* Two faults: one to enter the finally clause and one inside it.
- *Login on the device.* Four generations are a login, one given up, one started
  again and one more cancelled while callbacks of all of them are queued; the
  proofs cover any number.

### Fairness

- `ReadReport`: weak fairness of each queued timer and of the exit of a process
  that has finished or was killed. The UI loop runs due timers and the kernel
  ends such a process. Nothing is assumed of a child at work.
- `Downloader`: weak fairness of the callback the scheduler holds for each
  download. Cancelling and asking for downloads are not fair.
- `StandaloneReader`: weak fairness of the frame. Requests end, by their timeouts,
  and the loop goes on; the user and the power daemon need do nothing.
- `ChapterCache`: weak fairness of file operations and ticks, for the same reason.
- `ProgressProbe`: weak fairness of the script's own step. Each request has a
  timeout of 30 s; Ctrl-C, kill and other devices are not fair.
- `QrLogin`: weak fairness of a step without a fault, and strong fairness of the
  right code: whoever is asked again and again types it in the end. Without the
  latter a wrong code could be typed for ever, which no program can help.
- `DeviceLogin`: weak fairness of each scheduled poll, which the UI loop runs, and
  of the passing of time; nothing is assumed of the phone or of the network. Every poll
  may time out, for ever, and that must count as a poll run: `asked` turns over with
  each, so that a fair behaviour is not forced to an answer. The code then goes away by
  the 300 s check alone (`ShownGoesAway`).
- `ProgressSync`, `FetchEpub` and `BookStore` state safety only.

## Proofs

Every invariant and every action property of the passing runs is proved, for every
value of the constants; the liveness properties are checked only. Each theorem
rests on the named assumptions of the module it is about and on no other, except
for the hypothesis given with `AboutThisDocument`.

| module | theorem | property | strengthened to |
|---|---|---|---|
| `ReadReportProofs` | `TypeCorrect`, `TaskContinues`, `ChildrenLookedAfter` | `TypeOK`, `OneContinuation`, `ChildrenAccounted` | `Inv` |
| | `StatusIsTrue`, `OutcomeIsMerged`, `ReporterRuns` | `StatusTellsTruth`, `OutcomeMerged`, `RunsWhenDue` | `Truth` |
| `ProgressSyncProofs` | `TypeCorrect`, `FlagsAgree`, `ThisDocument`, `CloseIsUploaded` | `TypeOK`, `FlagsMatchTasks`, `AboutThisDocument`, `CloseUploads` | `Inv` |
| `DownloaderProofs` | `GuardIsKept`, `ChaptersAccounted`, `OutcomeTold` | `GuardMeansWork`, `EveryChapterAccounted`, `OutcomeOnce` | `Right` |
| | `CancelIsObeyed`, `GuardImplemented` | `CancelStops`, `GuardIsASet` | `Right` |
| `StandaloneReaderProofs` | `TypeCorrect`, `SecondsAreKept`, `PageIsKept` | `TypeOK`, `SecondsKept`, `WhereYouWere` | `Right` |
| `ChapterCacheProofs` | `TypeCorrect`, `Counts`, `DoneBooksAreCached`, `ChaptersStay`, `CancelIsFinal`, `CleanUpIsComplete` | `TypeOK`, `CountedIsCached`, `DoneIsCached`, `CachedStays`, `CancelStops`, `ClearedIsGone` | `Inv` |
| `ProgressProbeProofs` | `ProbeTakenBack` | `ProbeIsTakenBack` | `ProbeOut` |
| | `AlarmTrue`, `Implements` | `AlarmMeansMoved`, `KeepsPromise` | `ProbeInv` |
| `FetchEpubProofs` | `CookiesKept`, `PlaceReported` | `CookiesAreKept`, `ReportedIsAPlace` | `Course` |
| | `BookIsThere` | `OutputIsABook` | `Course /\ Book` |
| | `TextTravels` | (the codec gives back every text) | |
| `LoginProofs` | `ShownPolled`, `StoredThisLogin` | `ShownIsPolled`, `StoredIsThisLogin` | `LoginInv` |
| | `PictureRemoved` | `QrFileIsRemoved` | `PictureIsKnown` |

Where the code has an object with methods that call one another (`ReadReport`,
`ProgressSync`, `Downloader`), a method is an operator from a record to a record or to
a set of them; the invariant is then stated of such a record, each method has
lemmas from one such statement to the next, and the lemma of an action composes
them in the order of the calls. Elsewhere an action has one lemma for each part of
the invariant that it may disturb.

### ReadReport

That a dead task has no tick says nothing of a tick of a generation
that is to come. `Inv` adds that the live task is the one started last and that
generations only grow (`Newest`), counts ticks, polls and collectors exactly
(`Ticks`, `Polls`, `Collectors`), and says that a job belongs to the live task and
has a child to wait for (`JobOfTask`, `JobHasChild`). As a method calls others
before the counts are right again, `Watching(x, n, m, S)` is the invariant of an
intermediate system `x` in which `n` ticks and `m` polls are queued and the
collectors of `S` are missing.

`Truth` stands on `Inv` and is about what `Watching` leaves aside. `StatusTellsTruth`
needs that a suspended device has no task (`Honest`). That an outcome overwrites
nothing newer needs the fingerprints to mean something: the child that still runs is
the one the job in flight forked, and it has not written yet (`RunsForJob`), so what
is read from a pipe was decided before the parent's later edits and is compared with
them. `RunsWhenDue` is carried by `Due` through every handler of the plugin. The
assumptions: the bounds are numbers, and the nil values are none of the books or
documents.

### ProgressSync

`Inv` has four parts. `Rest` types what no method writes. `Object` says that each
kind of task is queued once exactly while its flag is up (`OneTask`), and that a pull
or a dialog which set out in this generation set out from the document that is open
still (`SetOut`): a late answer either is about this document or carries an older
generation. `Gate` says for which cloud position the gate may be open, also of the
choices that a dialog still offers, which open it later. `Accounted` is what
`CloseUploads` rests on: with the gate open and nothing settling, the object knows
where the reader is and either calls it dirty or agrees with the cloud about it,
unless `overtaken` records that a step ended for a position the reader had left.

`ThisDocument` proves `LocalPositionIsHere` without condition and
`AboutThisDocument` under `"asleep" \notin AwayWhen`, as the run has it: a device
that sleeps with a dialog open may be answered after another device has moved,
and the gate then opens for a position nobody has seen. `hazards` names the line
(`progress_sync.lua:457`).
The proofs showed that `NilAssumption` had to say that an unmapped chapter is none
of the chapters and an unknown position none of the positions.

### Downloader

A step changes one download, and takes the shared guard, gives it back or leaves
it alone with it. So `Right` is a statement about each download by itself (`JobRight`),
one about the counters of engine, device and power property (`StandbyRight`,
which says exactly how far each may be off after a power command that was not
obeyed), and that the shared count is the number of downloads that hold the guard.
Of the chapters `JobRight` says (`Listed`) that those before the index were taken or
failed and the others were not; with the index past the list that is
`EveryChapterAccounted`.
The last is a cardinality; `FiniteSetTheorems` carries it.
`CancelIsObeyed` adds to `Right` what a cancelled step may do.

`GuardImplemented` is the refinement. Each lemma about an action proves `GoodStep`:
`Right` again, and a step of `StandbyGuard` or none that it sees. As all but `Close` come
down to one change of one download (`ChangeMoves`), it takes two facts about the power property
(`BeginsBlocked`, `EndsBlocked`), and that the count is one exactly when the last
holder goes.

### StandaloneReader

`Right` has three parts that share no variable but the screen. `ScreenRight` tells
for each screen what the session is, which is what keeps a page number inside its
chapter when a layout changes (`RestoredInside`, for every chapter length and every
saved page). `ClockRight` and `Owes` split the seconds owed of a book between
interval, pending and store; `UploadRight` says that what an upload carries is still
pending, so that acknowledging it takes away no second measured meanwhile. `Kept`
relates the page shown to the page stored.

### ChapterCache

That the count is right
is not inductive: the step that counts a chapter comes several file operations,
and maybe some failures, after the one that wrote it. `EnsureStands` carries the
document over them (from the raw source on it is there, and the directory through
which it is reached too) and says that the chapter under way is the one the task
is at; `TaskStands` relates the stage of the task, the status of its job and the
failed chapters, so that a chapter is not counted twice and an end without
failures is the end of the catalog; `ClearStands` says what a clean-up without a
fault has removed so far, and that it has left nothing under a trash name that was not
there before. What a step does to the invariant depends on its kind
more than on itself, hence one lemma for each kind: the return of
`ensure_chapter` (`ReturnsInv`), its next operation (`GoesInv`), a step of the
task alone (`TaskStepInv`), of the clean-up (`ClearStepInv`). `CountOneMore` is
the one fact about cardinalities. `TypeOK` is a part of `Inv` and is proved without a run of
its own.

### ProgressProbe

`ProbeIsTakenBack` speaks of ended runs; `ProbeOut` says what
carries it there: while the last position the service took is the probe's, the run
waits for it or is about to restore, or has ended in one of the two ways that skip the
finally block. `UploadTaken` tells for each upload what the service took of it. Steps
fall into four kinds, with a lemma each: those that post nothing before the probe,
those that post the position itself, the probe, and the waits and signals after it.

The verdict and the promise need more: as long as nothing disturbed the run, what it
remembers is the position it found (`MemoryTrue`), and the position now is that one,
or the probe's once a probe was accepted (`PositionKnown`). `ProbeInv` says so; once
something did disturb it, it claims nothing. `Implements` is the refinement of
`ReversibleWrite`, step by step: an upload that the service takes is a write near
the origin, another device or an old answer is a disturbance, the end gives the
verdict, and every other step is a stutter.

### FetchEpub

`Course` types the run and keeps the jar, the cookie file and the place reported
together; it needs nothing of the codec. `Book` is about the chapters: the list
holds one entry for each round of the loop and each entry is what was selected there
(`Listing`, `AllKept`), the shards in hand are each what was sent, or will make the
decoding fail, or belong to a chapter in `cut` (`Shards`), what comes out of them is
the text of the chapter in hand (`InHand`), and the file is opened when the list is
complete (`File`). `LastImageWins` is the choice of an image among chapters that
share its name.

What comes out of the shards is the text because of `TextTravels`: every text of
code points comes out of the codec of `ShardCodec` as the service put it in, cut in
three or in two. It needs induction over the data, and the library's theorems of
induction take an operator as a parameter. `LeastElement`, from the well-founded
order of the numbers, does instead: the set of the indices at which a statement
fails, were it not empty, would have a least member. `Recursion` gives in the same way a
function for each recursive definition, and `FoldExists` the partial results of a fold. On these
rest the four layers:

- *the swaps*: `SwapTwice`, `SwapsUndone`: the swaps reversed in order give back the
  characters. The decoder computes their places from characters which the swaps
  themselves might have moved; `PositionsInReach` says that they end before the tail
  from which they are computed, and `TailStays` that the tail is as it was, so both
  ends compute the same places (`SamePositions`, `SwapsComeBack`);
- *base 64*: `FourOfThree`, `ThreeBytes` and, for the rest at the end, `BytesComeBack`;
- *UTF-8*: `TakenWhole` and `CodeComesBack` for one character of each length,
  `RepairWalks` and `FlatPlaces` for the walk over all of them: it never comes to a
  byte inside a character (`TextComesBack`);
- *the cut*: `PiecesJoin`.

The assumptions: the texts of the catalog are sequences of code points
(`TextsAssumption`), and what stands for a ValueError is no text (`NoTextAssumption`).
`BookIsThere` then says that no order of missing, short, corrupt or lost answers and no
selection of chapters makes the script say "ok" of another book than that of the catalog.

### Login

On the device, that the jar holds only the present login's cookies when the
account is stored depends on the queue, which may still have held a verification of an
earlier login when this one began. `LoginInv` says why it no longer does: tasks run in
order and the present login's is the last one (`TasksInOrder`), so a dialog or a
task beyond the first is reached only with the earlier ones run; a dialog excludes
every task and every other dialog (`OneDialog`); and the polls of the login on the
screen are counted (`PolledOnce`). `StaleTaskKeeps` is the task of an earlier login,
whatever it leaves in the jar; `LastTaskKeeps` and `LoneTask` are those of the
present one. `LoginInv` needs the
dialog for the code to be modal, which `Start` and `ClearAccount` state as a guard.

For the script, `PictureIsKnown` says that a picture which exists is being made or is
known to `main()` inside the try block or its finally clause, or that the reason it
will stay is on record.

### What stays with TLC

- Liveness, and with it every statement under fairness: `ChildrenReaped`,
  `KeepsReporting`, `EveryDownloadEnds`, `LoadingEnds`, `TaskEnds`, `ShownGoesAway`
  and `Ends` of both scripts. The prover has no ENABLED.
- The two runs that expect a violation: a counterexample is a fact about the instance.

## Plan

1. *Done*: the modules above, their runs, and the proofs of every invariant, action
   property and refinement that the runs check.
2. *Proofs*: the other refinements, as they are stated.
3. *Abstract specifications*: a login as the account of one generation,
   implemented by `DeviceLogin`; the seconds of a book as one number between device
   and server, implemented by `StandaloneReader`.
4. *Composition*: everybody who writes the table of books, for the update that is
   lost between them.
5. *Algorithms* against a reference: the position mapper in both directions, the
   edit lists and `Canonical.map_range`.
6. *Further components*: the SQLite and secret stores with their migrations, the
   annotated view of a chapter, the C host. `ProgressSync` with another device
   moving while this one sleeps.

Runs stay few: a run answers one question, and algorithms and refinements join
the run of the component they belong to.

## Not modelled

Formats, strings and drawing: HTML injection, ZIP bytes, XHTML and package
documents, request signatures, the derivation of reader URLs, QR codes, LVGL and
CREngine bindings, views, translations. Requests are reduced to their result.

Of the scripts and tools in Python:

- `scripts/verify_mp_articles.py` makes four requests in a row, checks each and
  prints it: it keeps no state and has no order that could go wrong;
- `tools/packaging/*.py` and `tools/security/secret_scan.py` each walk a tree once
  and write or check a list: there is one path, no actor and no state after it;
- `tools/smoke/stub_server.py`, the fixtures and the mock platform are test doubles
  with fixed answers.

The plugin's own decoder of shards, in `content.lua`, is not modelled either:
`ShardCodec` is the script's. The standalone reader's `login.lua` polls in one loop
of its own, so that none of the callbacks overlap for which `DeviceLogin` was
written; what it shares with the plugin is `LoginService`. The settings keys other
than those named, migrations, secrets, SQLite, the C host and the KOReader cache
management are not modelled yet (see the plan).
