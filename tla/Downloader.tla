------------------------------ MODULE Downloader ------------------------------
(***************************************************************************)
(* The download engine (core/lua/weread/lib/downloader.lua) and the guard  *)
(* that keeps the device awake while it works, down to the Kindle power    *)
(* property (platform/kindle/device.lua).  A download is a chain of        *)
(* scheduled steps: one per chapter, one per batch of thoughts, a last one *)
(* that builds the EPUB.  Several downloads share the guard, and the user  *)
(* may press Cancel between any two steps.  Requests and files either work *)
(* or fail; what they carry is left out.  Messages to the user are shown.  *)
(***************************************************************************)
EXTENDS Naturals, FiniteSets

CONSTANTS
    Jobs,        \* downloads the user may ask for, all of one book
    Chapters,    \* the book has chapters 1..Chapters
    Batches,     \* most batches of thoughts in a chapter
    Retries,     \* attempts after the first for a batch
    PowerWorks   \* {TRUE} if the power property always obeys, else BOOLEAN

ASSUME ChaptersAssumption == Chapters \in Nat \ {0}
ASSUME BatchesAssumption == Batches \in Nat
ASSUME RetriesAssumption == Retries \in Nat
ASSUME PowerAssumption == PowerWorks \subseteq BOOLEAN /\ TRUE \in PowerWorks

VARIABLES
    job,      \* each download
    standby,  \* _standby_ref, the device's suspend_count and its power property,
              \* and which commands it did not obey: "prevent", "release" (observer)
    cached    \* cached_chapters of the stored book

vars == <<job, standby, cached>>

Chapter == 1..Chapters

\* next: the callback the scheduler holds for the download; there is none for one
\* "stranded" by an error of its start.  Its list of chapters is one of them or all,
\* so `total` of them from `first` on.  outcome: what on_complete was told, calls: how
\* often.  told: the user saw how it ended.
Job == [next: {"unasked", "start", "step", "batch", "ended", "stranded"},
        first: Chapter, total: Chapter, index: 1..Chapters + 1,
        done: SUBSET Chapter, failed: SUBSET Chapter,
        batch: 0..Batches + 1, batches: 0..Batches, retry: 0..Retries,
        cancelled: BOOLEAN, guard: BOOLEAN, dialog: BOOLEAN, saved: BOOLEAN,
        outcome: {"none", "ok", "failed"}, calls: Nat, told: BOOLEAN]

Idle == [next |-> "unasked", first |-> 1, total |-> 1, index |-> 1,
         done |-> {}, failed |-> {}, batch |-> 0, batches |-> 0, retry |-> 0,
         cancelled |-> FALSE, guard |-> FALSE, dialog |-> FALSE, saved |-> FALSE,
         outcome |-> "none", calls |-> 0, told |-> FALSE]

-------------------------------------------------------------------------------
(***************************************************************************)
(* The guard: x is [job |-> one download, standby |-> the shared guard].   *)
(* A result is a set where the device may fail.                            *)
(***************************************************************************)
\* Device:prevent_suspend; a failure is ignored by the downloader.
PreventSuspend(s) ==
    IF s.count > 0 THEN {[s EXCEPT !.count = @ + 1]}
    ELSE {IF works THEN [s EXCEPT !.count = 1, !.blocked = TRUE]
          ELSE [s EXCEPT !.disobeyed = @ \union {"prevent"}] : works \in PowerWorks}

\* Device:allow_suspend keeps the guard when the power property does not obey.
AllowSuspend(s) ==
    IF s.count = 0 THEN {s}
    ELSE IF s.count > 1 THEN {[s EXCEPT !.count = @ - 1]}
    ELSE {IF works THEN [s EXCEPT !.count = 0, !.blocked = FALSE]
          ELSE [s EXCEPT !.disobeyed = @ \union {"release"}] : works \in PowerWorks}

\* _beginStandby
BeginStandby(s) ==
    LET t == [s EXCEPT !.ref = @ + 1] IN IF t.ref = 1 THEN PreventSuspend(t) ELSE {t}

EndStandbyEach(s) ==  \* mutant: asks the device at the end of each download
    IF s.ref = 0 THEN {s}
    ELSE AllowSuspend([s EXCEPT !.ref = @ - 1, !.disobeyed = @ \ {"prevent"}])

\* _endStandby.  A refused "prevent" is forgotten with the work it concerned.
EndStandby(s) ==
    IF s.ref = 0 THEN {s}
    ELSE LET t == [s EXCEPT !.ref = @ - 1]
         IN  IF t.ref > 0 THEN {t}
             ELSE AllowSuspend([t EXCEPT !.disobeyed = @ \ {"prevent"}])

\* _releaseStandby
ReleaseStandby(x) ==
    IF ~x.job.guard THEN {x}
    ELSE {[job |-> [x.job EXCEPT !.guard = FALSE], standby |-> s] : s \in EndStandby(x.standby)}

\* _notifyCompletion
Notify(j, outcome) ==
    IF j.calls > 0 THEN j ELSE [j EXCEPT !.outcome = outcome, !.calls = 1]

-------------------------------------------------------------------------------
(***************************************************************************)
(* The steps, as the sets of states they may lead to.                      *)
(***************************************************************************)
\* chapters, and chapters[index]
List(j) == j.first..j.first + j.total - 1
Current(j) == j.first + j.index - 1

\* _failChapter and the end of _finishChapter
NextChapter(j) == [j EXCEPT !.index = @ + 1, !.next = "step", !.batch = 0]
ChapterFailed(j) == [NextChapter(j) EXCEPT !.failed = @ \union {Current(j)}]
ChapterTaken(j) == [NextChapter(j) EXCEPT !.done = @ \union {Current(j)}]

\* _finishChapter, and _applyAnnotations before it: each may fail the chapter.
Finished(j) == {ChapterTaken(j), ChapterFailed(j)}

\* _startAnnotations: no underlines or no batches go straight to the end.
Annotated(j) ==
    {[j EXCEPT !.batches = n, !.batch = 1, !.retry = 0, !.next = "batch"] : n \in 1..Batches}

RaisedKeepsGuard(x) ==  \* mutant: reports the error and leaks the guard
    {[x EXCEPT !.job = [Notify(@, "failed") EXCEPT !.dialog = FALSE, !.told = TRUE,
                                                   !.next = "ended"]]}

\* A step that raises while the guard is held (_scheduleGuarded).
Raised(x) ==
    {[y EXCEPT !.job = [Notify(@, "failed") EXCEPT !.dialog = FALSE, !.told = TRUE,
                                                   !.next = "ended"]]
        : y \in ReleaseStandby(x)}

\* A step that raises after it gave the guard back: the error is swallowed.
Swallowed(x) == [x EXCEPT !.job.next = "ended"]

\* The cancelled branches of _step and of _annotationBatch.
CancelledStep(x) ==
    {[y EXCEPT !.job = [Notify(@, "failed") EXCEPT !.told = TRUE, !.next = "ended"]]
        : y \in ReleaseStandby(x)}
CancelledBatch(x) ==
    {[y EXCEPT !.job.told = TRUE, !.job.next = "ended"] : y \in ReleaseStandby(x)}

Closed(x) == [x EXCEPT !.job.dialog = FALSE]

NothingDownloadedSilent(x) ==  \* mutant: forgets the completion callback
    {[y EXCEPT !.job.told = TRUE, !.job.next = "ended"] : y \in ReleaseStandby(Closed(x))}

\* The tail of _step once nothing was downloaded.
NothingDownloaded(x) ==
    {[y EXCEPT !.job = [Notify(@, "failed") EXCEPT !.told = TRUE, !.next = "ended"]]
        : y \in ReleaseStandby(Closed(x))}

\* The tail of _step after the book was stored: refreshing the shelf or opening the
\* file may raise before anything is reported.
Reported(x, ok) ==
    {Swallowed(x),
     [x EXCEPT !.job = [Notify(@, IF ok THEN "ok" ELSE "failed")
                           EXCEPT !.told = TRUE, !.next = "ended"]]}

-------------------------------------------------------------------------------
Now(j) == [job |-> job[j], standby |-> standby]

Becomes(j, x) ==
    /\ job' = [job EXCEPT ![j] = x.job]
    /\ standby' = x.standby

\* start: refused without a login or a network, else run_online_task has it.
Start(j) ==
    /\ job[j].next = "unasked"
    /\ \E first \in Chapter, total \in {1, Chapters} :
         /\ first + total - 1 <= Chapters
         /\ LET asked == [job[j] EXCEPT !.first = first, !.total = total]
            IN \/ Becomes(j, [Now(j) EXCEPT !.job = [asked EXCEPT !.next = "start"]])
               \/ Becomes(j, [Now(j) EXCEPT !.job =
                      [Notify(asked, "failed") EXCEPT !.next = "ended", !.told = TRUE]])
    /\ UNCHANGED cached

\* The online task of start: the reader state may be out of reach, else the
\* guard is taken, the dialog shown and the first step scheduled.  An error after
\* the guard was taken is shown by the host (runOnlineTask), which knows neither of
\* the guard nor of on_complete; the dialog may be on the screen by then.
StartTask(j) ==
    /\ job[j].next = "start"
    /\ \/ Becomes(j, [Now(j) EXCEPT !.job =
             [Notify(@, "failed") EXCEPT !.next = "ended", !.told = TRUE]])
       \/ \E s \in BeginStandby(standby) :
            Becomes(j, [Now(j) EXCEPT !.standby = s,
                !.job = [@ EXCEPT !.guard = TRUE, !.dialog = TRUE, !.next = "step"]])
       \/ \E s \in BeginStandby(standby), shown \in BOOLEAN :
            Becomes(j, [Now(j) EXCEPT !.standby = s,
                !.job = [@ EXCEPT !.guard = TRUE, !.dialog = shown, !.told = TRUE,
                                  !.next = "stranded"]])
    /\ UNCHANGED cached

\* The Cancel button of the progress dialog.
Cancel(j) ==
    /\ job[j].dialog
    /\ job' = [job EXCEPT ![j].cancelled = TRUE, ![j].dialog = FALSE]
    /\ UNCHANGED <<standby, cached>>

StepCancelled(j) ==
    /\ job[j].next = "step" /\ job[j].cancelled
    /\ \E x \in CancelledStep(Now(j)) : Becomes(j, x)
    /\ UNCHANGED cached

StepChapterUncancelled(j) ==  \* mutant: does not look at the flag
    /\ job[j].next = "step" /\ job[j].index <= job[j].total
    /\ \E k \in Finished(job[j]) \union Annotated(job[j]) : Becomes(j, [Now(j) EXCEPT !.job = k])
    /\ UNCHANGED cached

\* _step on a chapter of the list.
StepChapter(j) ==
    /\ job[j].next = "step" /\ ~job[j].cancelled /\ job[j].index <= job[j].total
    /\ \/ \E k \in Finished(job[j]) \union Annotated(job[j]) :
            Becomes(j, [Now(j) EXCEPT !.job = k])
       \/ \E x \in Raised(Now(j)) : Becomes(j, x)
    /\ UNCHANGED cached

StepSaveEarly(j) ==  \* mutant: index >= total instead of index > total
    /\ job[j].next = "step" /\ ~job[j].cancelled
    /\ job[j].index >= job[j].total /\ job[j].done # {}
    /\ \E x \in ReleaseStandby(Closed(Now(j))) :
         /\ \E y \in Reported([x EXCEPT !.job.saved = TRUE], TRUE) : Becomes(j, y)
         /\ cached' = cached \union x.job.done

\* _step when the index has passed the list: build the EPUB, give the guard back,
\* store the book, report.  It may raise before the guard is given back, and in
\* storing the book.
StepSave(j) ==
    /\ job[j].next = "step" /\ ~job[j].cancelled /\ job[j].index > job[j].total
    /\ \/ (\E x \in Raised(Now(j)) : Becomes(j, x)) /\ UNCHANGED cached
       \/ /\ job[j].done = {} /\ UNCHANGED cached
          /\ \E x \in NothingDownloaded(Now(j)) : Becomes(j, x)
       \/ /\ job[j].done # {}
          /\ \E ok \in BOOLEAN : \E x \in ReleaseStandby(Closed(Now(j))) :
               LET stored == [x EXCEPT !.job.saved = ok] IN
               \/ /\ \E y \in Reported(stored, ok) : Becomes(j, y)
                  /\ cached' = IF ok THEN cached \union x.job.done ELSE cached \ x.job.done
               \/ Becomes(j, Swallowed(stored)) /\ UNCHANGED cached

BatchCancelled(j) ==
    /\ job[j].next = "batch" /\ job[j].cancelled
    /\ \E x \in CancelledBatch(Now(j)) : Becomes(j, x)
    /\ UNCHANGED cached

BatchRestarts(j) ==  \* mutant: a batch given up starts the thoughts over
    /\ job[j].next = "batch" /\ ~job[j].cancelled
    /\ \/ /\ job[j].retry < Retries
          /\ Becomes(j, [Now(j) EXCEPT !.job.retry = @ + 1])
       \/ /\ job[j].retry = Retries
          /\ Becomes(j, [Now(j) EXCEPT !.job.batch = 1, !.job.retry = 0])
    /\ UNCHANGED cached

\* _annotationBatch: fetch one, retry it, or give it up and go on.
Batch(j) ==
    /\ job[j].next = "batch" /\ ~job[j].cancelled
    /\ IF job[j].batch > job[j].batches
       THEN \E k \in Finished(job[j]) : Becomes(j, [Now(j) EXCEPT !.job = k])
       ELSE \/ /\ job[j].retry < Retries
               /\ Becomes(j, [Now(j) EXCEPT !.job.retry = @ + 1])
            \/ Becomes(j, [Now(j) EXCEPT !.job.batch = @ + 1, !.job.retry = 0])
            \/ \E x \in Raised(Now(j)) : Becomes(j, x)
    /\ UNCHANGED cached

\* The application closes, after its downloads: release_all_suspend_guards.  The
\* guards and dialogs it still had are gone with the process.
Close ==
    /\ \A j \in Jobs : job[j].next \in {"unasked", "ended", "stranded"}
    /\ standby' = [ref |-> 0, count |-> 0, blocked |-> FALSE, disobeyed |-> {}]
    /\ job' = [j \in Jobs |-> [job[j] EXCEPT !.guard = FALSE, !.dialog = FALSE]]
    /\ UNCHANGED cached

Init ==
    /\ job = [j \in Jobs |-> Idle]
    /\ standby = [ref |-> 0, count |-> 0, blocked |-> FALSE, disobeyed |-> {}]
    /\ cached = {}

Scheduled(j) ==
    \/ StartTask(j) \/ StepCancelled(j) \/ StepChapter(j) \/ StepSave(j)
    \/ BatchCancelled(j) \/ Batch(j)

Next == Close \/ \E j \in Jobs : Start(j) \/ Cancel(j) \/ Scheduled(j)

Spec == Init /\ [][Next]_vars

\* The scheduler runs every callback it holds.
FairSpec == Spec /\ \A j \in Jobs : WF_vars(Scheduled(j))

-------------------------------------------------------------------------------
(***************************************************************************)
(* Properties.                                                             *)
(***************************************************************************)
\* A download whose step the scheduler holds holds the guard, and the shared counter
\* is the number of downloads that hold it: no error of a step, no cancellation and no
\* end leaks the guard or gives it back twice.  It is leaked in one way, by an error
\* between _beginStandby and the first _scheduleGuarded: nothing gives that guard back
\* until the application closes.  So the device is awake exactly while some download
\* works or was stranded, but for a power property that did not obey: then it may
\* sleep during that work, or stays awake until the application closes.
GuardMeansWork ==
    /\ \A j \in Jobs : /\ job[j].next \in {"step", "batch"} => job[j].guard
                      /\ job[j].guard => job[j].next \in {"step", "batch", "stranded"}
    /\ standby.ref = Cardinality({j \in Jobs : job[j].guard})
    /\ standby.blocked <=> \/ "release" \in standby.disobeyed
                           \/ standby.ref > 0 /\ "prevent" \notin standby.disobeyed

\* The counters of the engine and of the device come to a guard that is the set of
\* its holders, of which the stranded ones never give it back: how often _beginStandby
\* and prevent_suspend are called and in which order the downloads end cannot be told
\* from the power property.
Holders == {j \in Jobs : job[j].guard}

Guard == INSTANCE StandbyGuard WITH
    holders <- Holders, lost <- {j \in Holders : job[j].next = "stranded"},
    blocked <- standby.blocked, stuck <- "release" \in standby.disobeyed
GuardIsASet == Guard!Spec

\* No chapter is lost between the steps: each one is taken or reported failed
\* before the EPUB is built, none is both.  The index that says so (_step) is moved by
\* _finishChapter and _failChapter, on either side of the batches of thoughts.
EveryChapterAccounted ==
    \A j \in Jobs :
        /\ job[j].done \intersect job[j].failed = {}
        /\ job[j].saved => job[j].done \union job[j].failed = List(job[j])

\* on_complete is called at most once, never during the work; it hears of
\* success only for an EPUB that was built, and hears nothing only after a
\* cancellation, an error of the start or one behind the build.  The last is also the
\* only way to an end the user is told nothing of (the guard it is reported by is given
\* back).
OutcomeOnce ==
    \A j \in Jobs :
        LET worked == job[j].done # {} /\ job[j].index > job[j].total
        IN  /\ job[j].calls <= 1
            /\ job[j].calls = 1 => job[j].next = "ended"
            /\ job[j].outcome = "ok" => job[j].saved
            /\ job[j].next = "ended" /\ job[j].calls = 0 => job[j].cancelled \/ worked
            /\ job[j].next \in {"ended", "stranded"} /\ ~job[j].told => worked

\* After Cancel a download takes no further chapter and builds no EPUB.
CancelStops ==
    [][\A j \in Jobs : job[j].cancelled
        => job'[j].done = job[j].done /\ job'[j].saved = job[j].saved]_vars

\* Every download that was accepted ends, whatever fails and however often, unless
\* its start was stranded.
EveryDownloadEnds ==
    \A j \in Jobs : job[j].next \in {"start", "step", "batch"}
                       ~> job[j].next \in {"ended", "stranded"}

===============================================================================
