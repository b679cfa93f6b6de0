------------------------------ MODULE ReadReport ------------------------------
(***************************************************************************)
(* The reading-time reporter of the KOReader plugin                        *)
(* (core/lua/weread/lib/read_report.lua).  One object lives on a           *)
(* single-threaded UI loop.  A periodic "tick" checks whether a report is  *)
(* due and forks a child process that talks to the server; a "poll" timer  *)
(* watches the child and applies what it wrote on its pipe; a "collect"    *)
(* timer reaps children nobody waits for any more.  Users, documents and   *)
(* the device interrupt this at any point between two callbacks.           *)
(*                                                                         *)
(* Time is abstract: any pending timer may fire next.  A job's age is      *)
(* counted in polls, so JOB_TIMEOUT_SECONDS is MaxPolls.  A stored record  *)
(* (the credentials, a book's report context) is abstracted to the number  *)
(* of parent-side edits it contains: that is all its fingerprint is for.   *)
(***************************************************************************)
EXTENDS Naturals, BagsExt

CONSTANTS
    Books,      \* book ids
    Pids,       \* process ids the operating system hands out (and reuses)
    NoBook,     \* nil book id, and the document that is no WeRead book
    NoDocument, \* no document is open
    NoJob,      \* self.job == nil
    Auth,       \* the stored credentials, as a record the child may renew
    MaxPolls,   \* polls until a job counts as timed out
    MaxEvents   \* bound on user, lifecycle and storage events

ASSUME MaxPollsAssumption == MaxPolls \in Nat
ASSUME MaxEventsAssumption == MaxEvents \in Nat
ASSUME NamesAssumption ==
    /\ NoBook \notin Books
    /\ NoDocument \notin Books \union {NoBook}
    /\ Auth \notin Books

VARIABLES
    config,        \* settings.read_report
    document,      \* what self.get_document() / self.detect_book() see
    report,        \* the ReadReport object
    timers,        \* the scheduler's queue, a bag of callbacks
    child,         \* each process id: the child behind it and its pipe
    stored,        \* per record: parent-side edits its stored value contains
    edits,         \* per record: parent-side edits made so far (observer)
    renewedLately, \* the server saw a renewal less than a cooldown ago (observer)
    lostRenewal,   \* such a renewal's outcome will never be applied (observer)
    parked,        \* the last handler stopped and meant not to restart (observer)
    events         \* user, lifecycle and storage events so far

vars == <<config, document, report, timers, child, stored, edits,
          renewedLately, lostRenewal, parked, events>>

Records == Books \union {Auth}

Config == [enabled: BOOLEAN, mode: {"auto", "manual"},
           book: Books \union {NoBook}, onOpen: BOOLEAN]

\* A started task is named by the generation its closure captured; 0 is nil.
NoTask == 0

ReportStates == {"stopped", "waiting", "active", "error", "offline",
                 "suspended", "waiting_for_progress"}

\* base: the stored records as the two fingerprints saw them at the fork.
Job == [pid: Pids, gen: Nat, book: Books, age: 0..MaxPolls,
        base: [auth: Nat, book: Nat]]

\* The code's nil is no table.
ASSUME NoJobAssumption == NoJob \notin Job

Report == [state: ReportStates, generation: Nat, task: Nat,
           current: Books \union {NoBook}, suspended: BOOLEAN,
           mayRenew: BOOLEAN, job: Job \union {NoJob}]

\* "free": never forked or already reaped.  "written": the whole payload is in
\* the pipe and the process is on its way out.  "exited": a zombie.
ChildStates == {"free", "running", "written", "killed", "exited"}
Payloads == {"accepted", "rejected"}
Child == [st: ChildStates, pipe: Payloads \union {"closed", "empty"}, renewed: BOOLEAN]
Reaped == [st |-> "free", pipe |-> "closed", renewed |-> FALSE]

TickOf(g) == [kind |-> "tick", gen |-> g]
PollOf(p) == [kind |-> "poll", pid |-> p]
CollectOf(p) == [kind |-> "collect", pid |-> p]
Callbacks == [kind: {"tick"}, gen: Nat] \union [kind: {"poll", "collect"}, pid: Pids]

Pending(queue, callback) ==
    IF callback \in DOMAIN queue THEN queue[callback] ELSE 0

-------------------------------------------------------------------------------
(***************************************************************************)
(* The methods of the object, as functions on what they read and write: x  *)
(* is a record of the object, the scheduler's queue and the processes.     *)
(***************************************************************************)
Now == [report |-> report, timers |-> timers, child |-> child]

Becomes(x) ==
    /\ report' = x.report
    /\ timers' = x.timers
    /\ child' = x.child

\* ReadReport:resolve_target.
ResolveTarget(cfg, doc) ==
    IF /\ cfg.mode = "manual"
       /\ cfg.book # NoBook
       /\ doc # NoDocument \/ ~cfg.onOpen
    THEN cfg.book
    ELSE IF doc \in Books THEN doc ELSE NoBook

SetState(x, s) == [x EXCEPT !.report.state = s]

\* _schedule_next: only the live task is put back on the queue.
ScheduleNext(x, g) ==
    IF x.report.generation = g /\ x.report.task = g
    THEN [x EXCEPT !.timers = BagAdd(@, TickOf(g))]
    ELSE x

\* Mutant: a child that has not exited at the first look is never looked at again.
CollectOnce(x, p) ==
    IF x.child[p].st = "exited" THEN [x EXCEPT !.child[p] = Reaped] ELSE x

\* The body of both "collect" closures: reap the child or try again later;
\* a payload in an open pipe is drained so that the writer can exit.
Collect(x, p) ==
    IF x.child[p].st = "exited"
    THEN [x EXCEPT !.child[p] = Reaped]
    ELSE [x EXCEPT !.timers = BagAdd(@, CollectOf(p)),
                   !.child[p].pipe = IF @ \in Payloads THEN "closed" ELSE @]

\* Mutant: the child is killed, but its job and its poll stay.
KillOnly(x) == [x EXCEPT !.child[x.report.job.pid].st = "killed"]

\* _abandon_job for the job in flight.
AbandonJob(x) ==
    LET p == x.report.job.pid IN
    Collect([x EXCEPT !.report.job = NoJob,
                      !.timers = BagRemoveAll(@, PollOf(p)),
                      !.child[p] = [@ EXCEPT !.st = IF @ = "exited" THEN @ ELSE "killed",
                                             !.renewed = FALSE]], p)

\* Mutant: the pending tick is left on the queue.
StopKeepsTick(x, reason) ==
    LET g == x.report.generation + 1
        halted == [x EXCEPT
            !.report = [@ EXCEPT
                !.generation = g,
                !.task = NoTask,
                !.state = IF reason = "suspend" THEN "suspended" ELSE "stopped"]]
    IN  IF x.report.job = NoJob THEN halted ELSE AbandonJob(halted)

\* stop(reason): invalidate the task, take its tick off the queue, kill the job.
Stop(x, reason) ==
    LET g == x.report.generation + 1
        halted == [x EXCEPT
            !.report = [@ EXCEPT
                !.generation = g,
                !.task = NoTask,
                !.state = IF reason = "suspend" THEN "suspended" ELSE "stopped"],
            !.timers = BagRemoveAll(@, TickOf(x.report.task))]
    IN  IF x.report.job = NoJob THEN halted ELSE AbandonJob(halted)

\* start(reason), called by MaybeStart alone: its own checks were just made.
Start(x, target) ==
    LET g == x.report.generation + 1 IN
    [x EXCEPT !.report = [@ EXCEPT !.generation = g, !.task = g,
                                   !.current = target, !.state = "waiting"],
              !.timers = BagAdd(@, TickOf(g))]

\* maybe_start(reason).
MaybeStart(x, cfg, doc) ==
    LET target == ResolveTarget(cfg, doc) IN
    IF ~cfg.enabled THEN x
    ELSE IF x.report.suspended THEN SetState(x, "suspended")
    ELSE IF target = NoBook THEN Stop(x, "no_target")
    ELSE IF x.report.task # NoTask THEN [x EXCEPT !.report.current = target]
    ELSE Start(x, target)

-------------------------------------------------------------------------------
(***************************************************************************)
(* The periodic tick.                                                      *)
(***************************************************************************)

\* _start_job: the child runs from here on with a copy of the parent's state.
StartJob(x, g, p, target) ==
    [x EXCEPT !.report = [@ EXCEPT
                  !.current = target,
                  !.job = [pid |-> p, gen |-> g, book |-> target, age |-> 0,
                           base |-> [auth |-> stored[Auth], book |-> stored[target]]]],
              !.timers = BagAdd(@, PollOf(p)),
              !.child[p] = [st |-> "running", pipe |-> "empty", renewed |-> FALSE]]

\* _precheck found the task out of date: what it leaves behind.
Outdated(x, target) ==
    \/ ~config.enabled
    \/ x.report.suspended
    \/ target = NoBook
    \/ x.report.current # NoBook /\ x.report.current # target

Retire(x, target) ==
    IF ~config.enabled THEN Stop(x, "disabled")
    ELSE IF x.report.suspended THEN Stop(x, "suspend")
    ELSE IF target = NoBook THEN Stop(x, "no_target")
    ELSE MaybeStart(Stop(x, "document_changed"), config, document)

\* A tick that sends nothing: no cookie or a failed task ("error"), no network,
\* position not verified yet.
SkipStates == {"error", "offline", "waiting_for_progress"}

\* No child could be forked: the pipeline runs on the UI loop, and may renew.
InlineReports(x) ==
    {[x EXCEPT !.report = [@ EXCEPT !.state = s, !.mayRenew = m]] :
        s \in {"active", "error"}, m \in {FALSE, x.report.mayRenew}}

FreePids(x) == {p \in Pids : x.child[p].st = "free"}

\* Every state a tick of task g may leave behind, once off the queue.  The job
\* test is the code's own; that it never holds is part of OneContinuation.
TickOutcomes(x, g) ==
    LET target == ResolveTarget(config, document)
        here == [x EXCEPT !.report.current = target]
    IN  IF x.report.generation # g \/ x.report.task # g THEN {x}
        ELSE IF Outdated(x, target) THEN {ScheduleNext(Retire(x, target), g)}
        ELSE {ScheduleNext(SetState(here, s), g) : s \in SkipStates}
             \union IF x.report.job # NoJob
                    THEN {ScheduleNext(here, g)}
                    ELSE {ScheduleNext(y, g) : y \in InlineReports(here)}
                         \union {StartJob(x, g, p, target) : p \in FreePids(x)}

Tick ==
    /\ \E callback \in DOMAIN timers :
         /\ callback.kind = "tick"
         /\ LET x == [Now EXCEPT !.timers = BagRemove(@, callback)]
            IN  \E y \in TickOutcomes(x, callback.gen) : Becomes(y)
    /\ renewedLately' = (renewedLately \/ report'.mayRenew # report.mayRenew)
    /\ UNCHANGED <<config, document, stored, edits, lostRenewal, parked, events>>

-------------------------------------------------------------------------------
(***************************************************************************)
(* Watching the child.                                                     *)
(***************************************************************************)

\* Mutant: a renewal is only put on the clock when the report was accepted.
ApplyOutcomeAccepted(x, payload, renewed) ==
    [x EXCEPT !.report = [@ EXCEPT
        !.state = IF payload = "accepted" THEN "active" ELSE "error",
        !.mayRenew = x.report.mayRenew /\ ~(renewed /\ payload = "accepted")]]

\* _apply_outcome, with the renewal it may report.
ApplyOutcome(x, payload, renewed) ==
    [x EXCEPT !.report = [@ EXCEPT
        !.state = IF payload = "accepted" THEN "active" ELSE "error",
        !.mayRenew = x.report.mayRenew /\ ~(renewed /\ payload \in Payloads)]]

\* Mutant: a child that is still writing when its outcome is read is not collected.
FinishJobUncollected(x, p) ==
    LET job == x.report.job
        c == x.child[p]
        read == [x EXCEPT !.report.job = NoJob,
                          !.child[p] = IF c.st = "exited" THEN Reaped
                                       ELSE [c EXCEPT !.pipe = "closed", !.renewed = FALSE]]
    IN  ScheduleNext(ApplyOutcome(read, c.pipe, c.renewed), job.gen)

\* _poll_job once the child is done or its pipe is readable: read and close the
\* pipe, reap the child (now or in the background), apply, put the task back.
FinishJob(x, p) ==
    LET job == x.report.job
        c == x.child[p]
        read == [x EXCEPT !.report.job = NoJob,
                          !.child[p] = IF c.st = "exited" THEN Reaped
                                       ELSE [c EXCEPT !.pipe = "closed", !.renewed = FALSE],
                          !.timers = IF c.st = "exited" THEN @
                                     ELSE BagAdd(@, CollectOf(p))]
    IN  ScheduleNext(ApplyOutcome(read, c.pipe, c.renewed), job.gen)

\* Mutant: a job never times out.
PollForEver(x, p) ==
    IF x.report.job = NoJob \/ x.report.job.pid # p THEN x
    ELSE IF x.child[p].st = "exited" \/ x.child[p].pipe \in Payloads
    THEN FinishJob(x, p)
    ELSE [x EXCEPT !.report.job.age = @ + 1, !.timers = BagAdd(@, PollOf(p))]

\* Mutant: after a timeout the task is not put back on the queue.
PollTimeoutEnds(x, p) ==
    IF x.report.job = NoJob \/ x.report.job.pid # p THEN x
    ELSE IF x.child[p].st = "exited" \/ x.child[p].pipe \in Payloads
    THEN FinishJob(x, p)
    ELSE IF x.report.job.age >= MaxPolls
    THEN SetState(AbandonJob(x), "error")
    ELSE [x EXCEPT !.report.job.age = @ + 1, !.timers = BagAdd(@, PollOf(p))]

\* _poll_job: finished, timed out, or look again later.
PollOutcome(x, p) ==
    IF x.report.job = NoJob \/ x.report.job.pid # p THEN x
    ELSE IF x.child[p].st = "exited" \/ x.child[p].pipe \in Payloads
    THEN FinishJob(x, p)
    ELSE IF x.report.job.age >= MaxPolls
    THEN ScheduleNext(SetState(AbandonJob(x), "error"), x.report.job.gen)
    ELSE [x EXCEPT !.report.job.age = @ + 1,
                   !.timers = BagAdd(@, PollOf(p))]

\* Mutant: the fingerprint is not compared.
WriteBackAlways(value, base) == base

\* _apply_job_outcome's write-back of one record: skipped when the parent's
\* value is not the one the child started from.
WriteBack(value, base) == IF value # base THEN value ELSE base

\* The records after the outcome of the job that p ran has been applied.
WrittenBack(job, p) ==
    IF job # NoJob /\ job.pid = p /\ child[p].pipe \in Payloads
    THEN [stored EXCEPT ![Auth] = WriteBack(@, job.base.auth),
                        ![job.book] = WriteBack(@, job.base.book)]
    ELSE stored

Poll(p) ==
    /\ PollOf(p) \in DOMAIN timers
    /\ Becomes(PollOutcome([Now EXCEPT !.timers = BagRemove(@, PollOf(p))], p))
    /\ stored' = WrittenBack(report.job, p)
    /\ lostRenewal' = (lostRenewal \/ /\ child[p].renewed
                                      /\ report'.job = NoJob
                                      /\ child[p].pipe \notin Payloads)
    /\ UNCHANGED <<config, document, edits, renewedLately, parked, events>>

CollectAgain(p) ==
    /\ CollectOf(p) \in DOMAIN timers
    /\ Becomes(Collect([Now EXCEPT !.timers = BagRemove(@, CollectOf(p))], p))
    /\ UNCHANGED <<config, document, stored, edits, renewedLately, lostRenewal, parked, events>>

-------------------------------------------------------------------------------
(***************************************************************************)
(* The child process: _child_report running _run_pipeline in the fork.     *)
(***************************************************************************)
childOnly == <<config, document, report, timers, stored, edits, parked, events>>

\* The pipeline asks the server to renew the cookie, if the parent allowed it at
\* the fork; nothing changes the parent's mind while the job is in flight.
ChildRenews(p) ==
    /\ child[p].st = "running" /\ report.mayRenew /\ ~child[p].renewed
    /\ child' = [child EXCEPT ![p].renewed = TRUE]
    /\ renewedLately' = TRUE
    /\ UNCHANGED <<childOnly, lostRenewal>>

ChildWrites(p) ==
    /\ child[p].st = "running"
    /\ \E payload \in Payloads :
         child' = [child EXCEPT ![p].st = "written", ![p].pipe = payload]
    /\ UNCHANGED <<childOnly, renewedLately, lostRenewal>>

\* The child dies without having written anything.
ChildDies(p) ==
    /\ child[p].st = "running"
    /\ child' = [child EXCEPT ![p].st = "exited"]
    /\ UNCHANGED <<childOnly, renewedLately, lostRenewal>>

ChildExits(p) ==
    /\ child[p].st \in {"written", "killed"}
    /\ child' = [child EXCEPT ![p].st = "exited"]
    /\ UNCHANGED <<childOnly, renewedLately, lostRenewal>>

-------------------------------------------------------------------------------
(***************************************************************************)
(* What happens to the object from outside: the document, the device, the  *)
(* settings menu, other writers of the stored records, the clock.          *)
(***************************************************************************)

\* A handler runs the methods that lead to x.  A job it killed takes the news of
\* its renewal with it.
Handle(x) ==
    /\ Becomes(x)
    /\ events < MaxEvents
    /\ events' = events + 1
    /\ lostRenewal' = (lostRenewal \/ /\ report.job # NoJob
                                      /\ x.report.job = NoJob
                                      /\ child[report.job.pid].renewed)
    /\ UNCHANGED renewedLately

\* onReaderReady -> on_reader_ready.
ReaderReady(doc) ==
    /\ document = NoDocument
    /\ document' = doc
    /\ Handle(MaybeStart([Now EXCEPT !.report.suspended = FALSE], config, doc))
    /\ parked' = FALSE
    /\ UNCHANGED <<config, stored, edits>>

\* Mutant: closing a document always stops, also a background report.
CloseAlwaysStops ==
    /\ document # NoDocument
    /\ document' = NoDocument
    /\ Handle([Stop(Now, "document_closed") EXCEPT !.report.current = NoBook])
    /\ UNCHANGED <<config, stored, edits, parked>>

\* onCloseDocument -> on_close_document, while the document is still there.
CloseDocument ==
    /\ document # NoDocument
    /\ document' = NoDocument
    /\ Handle(IF config.onOpen \/ config.mode = "auto"
              THEN [Stop(Now, "document_closed") EXCEPT !.report.current = NoBook]
              ELSE MaybeStart(Now, config, document))
    /\ UNCHANGED <<config, stored, edits, parked>>

Suspend ==
    /\ ~report.suspended
    /\ Handle(Stop([Now EXCEPT !.report.suspended = TRUE], "suspend"))
    /\ UNCHANGED <<config, document, stored, edits, parked>>

Resume ==
    /\ report.suspended
    /\ Handle(MaybeStart([Now EXCEPT !.report.suspended = FALSE], config, document))
    /\ parked' = FALSE
    /\ UNCHANGED <<config, document, stored, edits>>

\* "Enable reading time report"; in manual mode without a book it opens the picker.
ToggleEnabled ==
    LET cfg == [config EXCEPT !.enabled = ~@]
        picks == cfg.enabled /\ cfg.mode = "manual" /\ cfg.book = NoBook
    IN
    /\ config' = cfg
    /\ Handle(IF ~cfg.enabled THEN Stop(Now, "explicit_stop")
              ELSE IF picks THEN Now
              ELSE MaybeStart(Now, cfg, document))
    /\ parked' = picks
    /\ UNCHANGED <<document, stored, edits>>

\* The other menu entries save the setting, stop, and start again: "Only report
\* when reading", "Auto-associate with WeRead book", a book picked for manual mode.
Reconfigure(cfg) ==
    /\ config' = cfg
    /\ Handle(MaybeStart(Stop(Now, "target_changed"), cfg, document))
    /\ parked' = FALSE
    /\ UNCHANGED <<document, stored, edits>>

ToggleOnOpen == Reconfigure([config EXCEPT !.onOpen = ~@])
SetAuto == Reconfigure([config EXCEPT !.mode = "auto", !.book = NoBook])
PickBook(b) == config.mode = "manual" /\ Reconfigure([config EXCEPT !.book = b])

\* "Manually set report book" stops and leaves the rest to the picker.
SetManual ==
    /\ config' = [config EXCEPT !.mode = "manual"]
    /\ Handle(Stop(Now, "target_changed"))
    /\ parked' = TRUE
    /\ UNCHANGED <<document, stored, edits>>

\* "Clear WeRead cookie and API key?": stop, then wipe the credentials.
ClearAccount ==
    /\ Handle(Stop(Now, "account_cleared"))
    /\ edits' = [edits EXCEPT ![Auth] = @ + 1]
    /\ stored' = [stored EXCEPT ![Auth] = edits[Auth] + 1]
    /\ parked' = TRUE
    /\ UNCHANGED <<config, document>>

\* Signing in, a Set-Cookie merge, saving progress: somebody else writes record i.
EditRecord(i) ==
    /\ events < MaxEvents
    /\ events' = events + 1
    /\ edits' = [edits EXCEPT ![i] = @ + 1]
    /\ stored' = [stored EXCEPT ![i] = edits[i] + 1]
    /\ UNCHANGED <<config, document, report, timers, child, renewedLately, lostRenewal, parked>>

\* upload_position: refused as busy while a job is in flight; otherwise it runs
\* the pipeline on the UI loop and may renew the cookie there.
UploadPosition ==
    /\ report.job = NoJob
    /\ report.mayRenew
    /\ events < MaxEvents
    /\ events' = events + 1
    /\ report' = [report EXCEPT !.mayRenew = FALSE]
    /\ renewedLately' = TRUE
    /\ UNCHANGED <<config, document, timers, child, stored, edits, lostRenewal, parked>>

\* RENEWAL_COOLDOWN_SECONDS pass.  A job in flight is younger than that.
CooldownElapses ==
    /\ renewedLately
    /\ report.job = NoJob
    /\ events < MaxEvents
    /\ events' = events + 1
    /\ report' = [report EXCEPT !.mayRenew = TRUE]
    /\ renewedLately' = FALSE
    /\ lostRenewal' = FALSE
    /\ UNCHANGED <<config, document, timers, child, stored, edits, parked>>

-------------------------------------------------------------------------------
Fresh == [report |-> [state |-> "stopped", generation |-> 0, task |-> NoTask,
                      current |-> NoBook, suspended |-> FALSE,
                      mayRenew |-> TRUE, job |-> NoJob],
          timers |-> [callback \in {} |-> 0],
          child |-> [p \in Pids |-> Reaped]]

\* WeReadPlugin:init starts a background report of a fixed book at once.
Started(cfg) ==
    IF cfg.mode = "manual" /\ cfg.book # NoBook /\ ~cfg.onOpen
    THEN MaybeStart(Fresh, cfg, NoDocument)
    ELSE Fresh

Init ==
    /\ config \in Config
    /\ config.mode = "auto" => config.book = NoBook
    /\ document = NoDocument
    /\ report = Started(config).report
    /\ timers = Started(config).timers
    /\ child = Started(config).child
    /\ stored = [i \in Records |-> 0]
    /\ edits = [i \in Records |-> 0]
    /\ renewedLately = FALSE
    /\ lostRenewal = FALSE
    /\ parked = FALSE
    /\ events = 0

UserAction ==
    \/ \E doc \in Books \union {NoBook} : ReaderReady(doc)
    \/ CloseDocument
    \/ Suspend
    \/ Resume
    \/ ToggleEnabled
    \/ ToggleOnOpen
    \/ SetAuto
    \/ SetManual
    \/ \E b \in Books : PickBook(b)
    \/ ClearAccount

Next ==
    \/ Tick
    \/ \E p \in Pids : Poll(p) \/ CollectAgain(p)
    \/ \E p \in Pids : ChildRenews(p) \/ ChildWrites(p) \/ ChildDies(p) \/ ChildExits(p)
    \/ UserAction
    \/ \E i \in Records : EditRecord(i)
    \/ UploadPosition
    \/ CooldownElapses

Spec == Init /\ [][Next]_vars

\* The UI loop runs every due timer and the kernel lets a process that has
\* finished or was killed exit.  A child may hang for ever.
FairSpec ==
    /\ Spec
    /\ WF_vars(Tick)
    /\ \A p \in Pids : WF_vars(Poll(p)) /\ WF_vars(CollectAgain(p)) /\ WF_vars(ChildExits(p))

-------------------------------------------------------------------------------
(***************************************************************************)
(* Properties.                                                             *)
(***************************************************************************)

\* Every variable has its type.
TypeOK ==
    /\ config \in Config
    /\ document \in Books \union {NoBook, NoDocument}
    /\ report \in Report
    /\ DOMAIN timers \subseteq Callbacks
    /\ \A callback \in DOMAIN timers : timers[callback] \in Nat \ {0}
    /\ child \in [Pids -> Child]
    /\ stored \in [Records -> Nat]
    /\ edits \in [Records -> Nat]
    /\ {renewedLately, lostRenewal, parked} \subseteq BOOLEAN
    /\ events \in 0..MaxEvents

\* A live task has exactly one continuation, a queued tick or the poll of its own
\* job: two would report every interval twice, none would silently stop the
\* reporter.  A dead task has neither, so no old closure ever runs (start, stop,
\* _schedule_next, _poll_job).
OneContinuation ==
    /\ \A callback \in DOMAIN timers :
         callback.kind = "tick" =>
            /\ timers[callback] = 1
            /\ callback.gen = report.task /\ report.task # NoTask
            /\ report.job = NoJob
    /\ report.job # NoJob =>
         /\ report.task # NoTask /\ report.job.gen = report.task
         /\ Pending(timers, PollOf(report.job.pid)) = 1
    /\ report.task # NoTask =>
         \/ report.job # NoJob
         \/ Pending(timers, TickOf(report.task)) = 1

\* Every child that has not been reaped has exactly one callback that will reap
\* it, and no callback is about a process id that is not ours any more (it could
\* belong to a stranger by then); a reaped child leaves no open pipe behind
\* (_abandon_job, _collect_pid, _poll_job).
ChildrenAccounted ==
    \A p \in Pids :
        /\ Pending(timers, PollOf(p)) + Pending(timers, CollectOf(p))
             = (IF child[p].st = "free" THEN 0 ELSE 1)
        /\ child[p].st = "free" => child[p].pipe = "closed"

\* status() says stopped or suspended exactly when no task is live, whatever
\* callback or outcome wrote the state last.
StatusTellsTruth ==
    report.task = NoTask <=> report.state \in {"stopped", "suspended"}

\* What a job writes back never undoes a sign-in, a sign-out or saved progress
\* that happened while its child was running (_apply_job_outcome's fingerprints).
NoLostUpdate == stored = edits

\* A cookie renewal the server has seen is on the parent's cooldown clock, or is
\* about to be, unless its child was killed or died before telling: the only way
\* to a second renewal within RENEWAL_COOLDOWN_SECONDS.
CooldownRecorded ==
    renewedLately /\ ~lostRenewal =>
        \/ ~report.mayRenew
        \/ report.job # NoJob /\ child[report.job.pid].renewed

\* What parent and child each know of the session meets when the outcome is applied
\* (_apply_job_outcome), whoever wrote in between and whatever it says.
OutcomeMerged == NoLostUpdate /\ CooldownRecorded

\* Whenever reporting is enabled, the device awake and a target known, a task is
\* live, unless the user was sent to the book picker or signed out: no sequence
\* of document, device and menu events loses the reporter.
RunsWhenDue ==
    /\ config.enabled
    /\ ~report.suspended
    /\ ResolveTarget(config, document) # NoBook
    => report.task # NoTask \/ parked

\* Every child is reaped in the end, however the job that forked it ended: no
\* zombies (the promise above _abandon_job).
ChildrenReaped == \A p \in Pids : child[p].st # "free" ~> child[p].st = "free"

\* A live task keeps its cadence: time and again its tick is on the queue, even
\* if the child it forked hangs for ever.
KeepsReporting ==
    []<>(report.task = NoTask \/ Pending(timers, TickOf(report.task)) > 0)

===============================================================================
