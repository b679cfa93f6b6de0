----------------------------- MODULE ProgressSync -----------------------------
(***************************************************************************)
(* The reading-position synchroniser of the KOReader plugin                *)
(* (core/lua/weread/lib/progress_sync.lua).  One object lives through      *)
(* successive documents on a single-threaded UI loop.  What it starts runs *)
(* later: the check 0.6 s after a document opens, a pull or an upload      *)
(* 0.1 s after it was asked for, a retry 2 s after a busy answer, the      *)
(* capture 0.15 s after a jump, and the answer to a conflict dialog when   *)
(* the user gives one.  Documents, page turns, suspends and the reading    *)
(* time reports come in between.                                           *)
(*                                                                         *)
(* A position is a number on a coarse grid: ChapterLength cells to a       *)
(* chapter, one cell standing for the 0.5 % inside which the code calls    *)
(* two positions the same.  What is only displayed or stored for display   *)
(* (state, notifications, the persisted last_* fields) is left out.        *)
(***************************************************************************)
EXTENDS Naturals, Bags, BagsExt

CONSTANTS
    Books,         \* ids of WeRead books
    NoBook,        \* detect_book() == nil, or an article (is_mp_book)
    Documents,     \* the files that can be opened
    NoDocument,    \* get_document() == nil
    Whole,         \* the file of a document is the whole book
    Unmapped,      \* the file belongs to the book but to no known chapter
    Unknown,       \* nil position
    LastPosition,  \* positions are 0..LastPosition
    ChapterLength,
    Threshold,     \* SAME_THRESHOLD_PERCENT, in grid cells
    Attempts,      \* BUSY_RETRY_LIMIT
    Configs,       \* values of settings.sync
    AwayWhen,      \* when another device may move: {"closed", "asleep"}
    MaxEvents      \* bound on user, device and server events

Places == 0..LastPosition
ChapterOf(p) == p \div ChapterLength
Chapters == {ChapterOf(p) : p \in Places}

ASSUME GridAssumption ==
    /\ LastPosition \in Nat
    /\ ChapterLength \in Nat \ {0}
    /\ Threshold \in Nat
ASSUME BoundsAssumption == Attempts \in Nat \ {0} /\ MaxEvents \in Nat
ASSUME NilAssumption ==
    /\ NoBook \notin Books
    /\ NoDocument \notin Documents
    /\ Unmapped \notin Chapters
    /\ Unknown \notin [book: Books, at: Places]
ASSUME DocumentsAssumption ==
    Documents \subseteq
        [book: Books \union {NoBook}, chapter: Chapters \union {Whole, Unmapped}]
ASSUME ConfigsAssumption == Configs \subseteq [pull: BOOLEAN, upload: BOOLEAN, ask: BOOLEAN]

VARIABLES
    config,    \* settings.sync
    document,  \* the open document
    page,      \* where the reader is in it
    sync,      \* the ProgressSync object
    tasks,     \* the scheduler's queue, a bag of callbacks
    choices,   \* conflict dialogs on the screen
    asked,     \* chapter openings whose confirmation or download is under way
    report,    \* position a running report job carries to the server, or Unknown
    server,    \* per book: the position the cloud keeps
    link,      \* "down", "connected" (no route yet) or "online"
    asleep,    \* "no", or how long the device will have slept
    agreed,    \* where device and cloud were last reconciled here (observer)
    overtaken, \* a callback finished for a position the reader had left (observer)
    unseen,    \* another device moved and this one has not fetched it (observer)
    events     \* user, device and server events so far

vars == <<config, document, page, sync, tasks, choices, asked, report, server,
          link, asleep, agreed, overtaken, unseen, events>>

Position == [book: Books, at: Places]
Remote == [at: Places, conflict: BOOLEAN]
Reasons == {"none", "cleared", "positions_match", "local_selected",
            "remote_selected", "remote_chapter_applied"}

Sync == [generation: Nat, book: Books \union {NoBook}, at: Position \union {Unknown},
         verified: BOOLEAN, reason: Reasons, dirty: BOOLEAN, pulling: BOOLEAN,
         uploading: BOOLEAN, jump: Position \union {Unknown}]

\* gen is the generation at scheduling time.
OpenTask == [kind: {"open"}, gen: Nat]
PullTask == [kind: {"pull"}, gen: Nat, doc: Documents, from: Position, manual: BOOLEAN]
UploadTask == [kind: {"upload"}, gen: Nat, position: Position, attempt: 0..Attempts]
SettleTask == [kind: {"settle"}, gen: Nat, clears: BOOLEAN]
Task == OpenTask \union PullTask \union UploadTask \union SettleTask
Choice == [gen: Nat, doc: Documents, from: Position, remote: Remote, manual: BOOLEAN]

PlacesOf(doc) ==
    IF doc # NoDocument /\ doc.chapter \in Chapters
    THEN {p \in Places : ChapterOf(p) = doc.chapter} ELSE Places

-------------------------------------------------------------------------------
(***************************************************************************)
(* The object's methods, as functions on what they read and write.         *)
(***************************************************************************)
Now == [sync |-> sync, page |-> page, tasks |-> tasks, choices |-> choices,
        asked |-> asked, agreed |-> agreed]

Becomes(x) ==
    /\ sync' = x.sync
    /\ page' = x.page
    /\ tasks' = x.tasks
    /\ choices' = x.choices
    /\ asked' = x.asked
    /\ agreed' = x.agreed

Later(x, task) == [x EXCEPT !.tasks = BagAdd(@, task)]

DetectBook == IF document = NoDocument THEN NoBook ELSE document.book

\* capture_local, with the reader at x.page.
Capture(x) ==
    IF DetectBook \in Books /\ document.chapter # Unmapped
    THEN [book |-> DetectBook, at |-> x.page] ELSE Unknown

\* "not same_position(position, self.local_position)"; a nil one never differs.
Moved(x, position) == x.sync.at # Unknown /\ position # x.sync.at

\* PositionMapper.compare: "different" is near, but across a chapter border.
Compare(here, there) ==
    LET near == here <= there + Threshold /\ there <= here + Threshold IN
    IF near THEN IF ChapterOf(here) = ChapterOf(there) THEN "same" ELSE "different"
    ELSE IF there > here THEN "remote_ahead" ELSE "local_ahead"

\* _mark_verified, of the open book: each caller has made sure of that.
Verify(x, reason, position) ==
    [x EXCEPT !.sync.book = DetectBook, !.sync.verified = TRUE, !.sync.reason = reason,
              !.sync.at = position]

\* _clear_verified
Unverify(x) == [x EXCEPT !.sync.verified = FALSE, !.sync.reason = "cleared"]

\* on_page_update
PageUpdateForgets(x) ==  \* mutant: the move is recorded but not marked
    IF x.sync.book = NoBook \/ Capture(x) = Unknown THEN x
    ELSE [x EXCEPT !.sync.at = Capture(x)]
PageUpdate(x) ==
    IF x.sync.book = NoBook \/ Capture(x) = Unknown THEN x
    ELSE [x EXCEPT !.sync.dirty = @ \/ Moved(x, Capture(x)), !.sync.at = Capture(x)]

\* goto_fraction: the reader moves; its page event may already have arrived.
Goto(x, place) ==
    LET there == [x EXCEPT !.page = place] IN {there, PageUpdate(there)}

\* The branch of _apply_remote that needs another chapter's file: "cached" is
\* opened at once, "asked" after a confirmation and a download.
OpenChapter(x, place) ==
    LET left == Unverify([x EXCEPT !.sync.dirty = FALSE])
        waiting == [left EXCEPT !.sync.jump = [book |-> DetectBook, at |-> place]]
    IN  {[left EXCEPT !.sync.jump = Unknown], waiting, [waiting EXCEPT !.asked = @ + 1]}

\* _apply_remote; x itself is the failure to map the position or to jump.
ApplyRemote(x, doc, remote) ==
    IF doc.chapter \in Chapters /\ ChapterOf(remote.at) # doc.chapter
    THEN OpenChapter(x, remote.at)
    ELSE {x} \union
        {Later(Verify([y EXCEPT !.sync.dirty = FALSE,
                                !.agreed = [book |-> doc.book, at |-> remote.at]],
                      "remote_selected", y.sync.at),
               [kind |-> "settle", gen |-> x.sync.generation, clears |-> TRUE])
            : y \in Goto(x, remote.at)}

\* _upload_snapshot
UploadSnapshot(x, position) ==
    IF x.sync.uploading \/ link # "online" THEN x
    ELSE Later([x EXCEPT !.sync.uploading = TRUE],
               [kind |-> "upload", gen |-> x.sync.generation,
                position |-> position, attempt |-> 0])

\* _keep_local
KeepLocal(x, from, remote, uploadNow) ==
    LET y == Verify([x EXCEPT !.sync.dirty = from.at # remote.at,
                              !.agreed = [book |-> from.book, at |-> remote.at]],
                    "local_selected", from)
    IN  IF uploadNow THEN UploadSnapshot(y, from) ELSE y

\* _resolve
Resolve(x, task, remote) ==
    LET y == [x EXCEPT !.sync.at = task.from]
        relation == Compare(task.from.at, remote.at)
    IN  IF relation = "same" /\ ~remote.conflict
        THEN {Verify([y EXCEPT !.sync.dirty = FALSE, !.agreed = task.from],
                     "positions_match", task.from)}
        ELSE IF remote.conflict \/ config.ask
        THEN {[y EXCEPT !.choices = @ \union
                 {[gen |-> x.sync.generation, doc |-> task.doc, from |-> task.from,
                   remote |-> remote, manual |-> task.manual]}]}
        ELSE IF relation = "remote_ahead" THEN ApplyRemote(y, task.doc, remote)
        ELSE {KeepLocal(y, task.from, remote, task.manual)}

\* _pull, up to what it leaves to the scheduler.
PullAgain(x, manual) ==  \* mutant: does not look whether one is under way
    IF Capture(x) = Unknown \/ link # "online" THEN x
    ELSE Later([x EXCEPT !.sync.pulling = TRUE],
               [kind |-> "pull", gen |-> x.sync.generation, doc |-> document,
                from |-> Capture(x), manual |-> manual])
Pull(x, manual) ==
    IF x.sync.pulling \/ Capture(x) = Unknown \/ link # "online" THEN x
    ELSE Later([x EXCEPT !.sync.pulling = TRUE],
               [kind |-> "pull", gen |-> x.sync.generation, doc |-> document,
                from |-> Capture(x), manual |-> manual])

JumpAnywhere(x) ==  \* mutant: does not compare the chapter
    IF x.sync.jump = Unknown \/ x.sync.jump.book # DetectBook THEN {}
    ELSE {Verify([z EXCEPT !.sync.dirty = FALSE, !.agreed = x.sync.jump],
                 "remote_chapter_applied", Capture(x))
            : z \in Goto([x EXCEPT !.sync.jump = Unknown], x.sync.jump.at)}

\* _apply_pending_jump: a state is a result only if the jump was consumed.
PendingJump(x) ==
    IF \/ x.sync.jump = Unknown
       \/ x.sync.jump.book # DetectBook
       \/ document.chapter # ChapterOf(x.sync.jump.at)
    THEN {}
    ELSE LET y == [x EXCEPT !.sync.jump = Unknown] IN {y} \union
        {Later(Verify([z EXCEPT !.sync.dirty = FALSE, !.agreed = x.sync.jump],
                      "remote_chapter_applied", Capture(x)),
               [kind |-> "settle", gen |-> x.sync.generation, clears |-> FALSE])
            : z \in Goto(y, x.sync.jump.at)}

\* cancel_pending_jump
CancelJump(x) ==
    IF x.sync.jump = Unknown THEN x
    ELSE Unverify([x EXCEPT !.sync.jump = Unknown, !.sync.dirty = FALSE])

\* choice_is_current, and the same guard in the closure of _pull.
StaleAnyVisit(gen, doc) == DetectBook # doc.book  \* mutant: forgets the generation
Stale(gen, doc) == gen # sync.generation \/ DetectBook # doc.book

\* The end of an asynchronous step that set out from a position; an observer
\* notes if the reader has left it since.
Concludes(x, from) ==
    /\ Becomes(x)
    /\ overtaken' = (overtaken \/ (Capture(Now) # Unknown /\ from # Capture(Now)))

-------------------------------------------------------------------------------
(***************************************************************************)
(* Events.  Nothing but the other device acts while this one sleeps.       *)
(***************************************************************************)
Event ==
    /\ events < MaxEvents
    /\ events' = events + 1

Awake == asleep = "no"

\* A document opens, at the page KOReader remembers, and onReaderReady runs.
ReaderReady ==
    /\ Event /\ Awake /\ document = NoDocument
    /\ \E doc \in Documents : \E p \in PlacesOf(doc) :
         /\ document' = doc
         /\ page' = p
    /\ LET g == sync.generation + 1 IN
       /\ sync' = [sync EXCEPT !.generation = g, !.book = NoBook, !.at = Unknown,
                               !.verified = FALSE, !.dirty = FALSE]
       /\ tasks' = BagAdd(tasks, [kind |-> "open", gen |-> g])
    /\ agreed' = Unknown
    /\ overtaken' = FALSE
    /\ UNCHANGED <<config, choices, asked, report, server, link, asleep, unseen>>

\* on_close_document, while the document is still there.
Closed(x) ==
    LET position == IF Capture(x) # Unknown THEN Capture(x) ELSE x.sync.at
        uploads == position # Unknown /\ x.sync.verified /\ config.upload
        dirty == x.sync.dirty \/ (uploads /\ (x.sync.at = Unknown \/ Moved(x, position)))
        y == [x EXCEPT !.sync.dirty = dirty]
        z == IF uploads /\ dirty THEN UploadSnapshot(y, position) ELSE y
    IN  [z EXCEPT !.sync.generation = @ + 1, !.sync.book = NoBook,
                  !.sync.verified = FALSE, !.sync.at = Unknown, !.page = 0]

CloseDocument ==
    /\ Event /\ Awake /\ document # NoDocument
    /\ document' = NoDocument
    /\ Becomes(Closed(Now))
    /\ UNCHANGED <<config, report, server, link, asleep, overtaken, unseen>>

\* The reader turns to another page: onPageUpdate.
TurnPage ==
    /\ Event /\ Awake /\ document # NoDocument
    /\ \E p \in PlacesOf(document) \ {page} : Becomes(PageUpdate([Now EXCEPT !.page = p]))
    /\ overtaken' = (overtaken \/ sync.book = NoBook)
    /\ UNCHANGED <<config, document, report, server, link, asleep, unseen>>

\* on_suspend
Suspended(x) ==
    LET position == IF Capture(x) # Unknown THEN Capture(x) ELSE x.sync.at
        y == [x EXCEPT !.sync.dirty = @ \/ Moved(x, position)]
    IN  IF position # Unknown /\ y.sync.verified /\ y.sync.dirty /\ config.upload
        THEN UploadSnapshot(y, position) ELSE y

Suspend ==
    /\ Event /\ Awake
    /\ asleep' \in {"short", "long"}
    /\ Becomes(Suspended(Now))
    /\ UNCHANGED <<config, document, report, server, link, overtaken, unseen>>

\* on_resume: "long" is RESUME_RECHECK_SECONDS or more.
Resume ==
    /\ Event /\ ~Awake
    /\ asleep' = "no"
    /\ Becomes(IF asleep = "long" /\ config.pull THEN Pull(Unverify(Now), FALSE) ELSE Now)
    /\ UNCHANGED <<config, document, report, server, link, overtaken, unseen>>

\* sync_now, from the menu.
SyncNow ==
    /\ Event /\ Awake
    /\ Becomes(Pull(Now, TRUE))
    /\ UNCHANGED <<config, document, report, server, link, asleep, overtaken, unseen>>

\* The confirmation is refused or the download fails; a success only opens the
\* document, which ReaderReady does.
ChapterRefused ==
    /\ Awake /\ asked > 0
    /\ Becomes(CancelJump([Now EXCEPT !.asked = @ - 1]))
    /\ UNCHANGED <<config, document, report, server, link, asleep, overtaken, unseen, events>>

\* The user answers a dialog (choice_is_current guards both answers).
Answer ==
    /\ Awake
    /\ \E c \in choices :
         LET x == [Now EXCEPT !.choices = @ \ {c}] IN
         IF Stale(c.gen, c.doc)
         THEN Concludes(x, Capture(Now))
         ELSE \E y \in ApplyRemote(x, c.doc, c.remote)
                          \union {KeepLocal(x, c.from, c.remote, TRUE)} :
                Concludes(y, c.from)
    /\ UNCHANGED <<config, document, report, server, link, asleep, unseen, events>>

\* position_for_report: a reading-time report for the open book starts.
StartReport ==
    /\ Event /\ Awake /\ report = Unknown
    /\ sync.verified /\ Capture(Now) # Unknown
    /\ report' = Capture(Now)
    /\ sync' = [sync EXCEPT !.dirty = @ \/ Moved(Now, Capture(Now)), !.at = Capture(Now)]
    /\ UNCHANGED <<config, document, page, tasks, choices, asked, server, link, asleep,
                   agreed, overtaken, unseen>>

\* The report job ends; the server may have taken its position.
EndReport ==
    /\ Awake /\ report # Unknown
    /\ report' = Unknown
    /\ server' \in {server, [server EXCEPT ![report.book] = report.at]}
    /\ UNCHANGED <<config, document, page, sync, tasks, choices, asked, link, asleep,
                   agreed, overtaken, unseen, events>>

\* A book is read on another device.
ReadElsewhere ==
    /\ Event
    /\ \E b \in Books, p \in Places :
         /\ \/ "closed" \in AwayWhen /\ DetectBook # b
            \/ "asleep" \in AwayWhen /\ asleep = "long"
         /\ server[b] # p
         /\ server' = [server EXCEPT ![b] = p]
         /\ unseen' = [unseen EXCEPT ![b] = TRUE]
    /\ UNCHANGED <<config, document, page, sync, tasks, choices, asked, report, link,
                   asleep, agreed, overtaken>>

Network ==
    /\ Event /\ Awake
    /\ link' \in {"down", "connected", "online"} \ {link}
    /\ UNCHANGED <<config, document, page, sync, tasks, choices, asked, report, server,
                   asleep, agreed, overtaken, unseen>>

-------------------------------------------------------------------------------
(***************************************************************************)
(* The scheduler runs a callback.  Timers are abstract but for one thing:  *)
(* the check after a document opens waits longer than any task asked for   *)
(* before it opened, busy retries apart.                                   *)
(***************************************************************************)
Queued(kind) == {t \in DOMAIN tasks : t.kind = kind}
Without(task) == [Now EXCEPT !.tasks = BagRemove(@, task)]

Earlier(t, gen) ==
    t.kind \in {"pull", "settle", "upload"} /\ t.gen < gen
    /\ (t.kind = "upload" => t.attempt = 0)

\* The closure of on_reader_ready.
Opened(t, x) ==
    LET y == [x EXCEPT !.sync.book = DetectBook]
        z == [y EXCEPT !.sync.at = Capture(y)]
    IN  IF t.gen # sync.generation \/ DetectBook \notin Books THEN {x}
        ELSE IF PendingJump(y) # {} THEN PendingJump(y)
        ELSE IF Capture(y) = Unknown THEN {y}
        ELSE {IF config.pull THEN Pull(z, FALSE) ELSE z}

CheckOpened ==
    /\ Awake
    /\ \E t \in Queued("open") :
         /\ \A u \in DOMAIN tasks : ~Earlier(u, t.gen)
         /\ \E y \in Opened(t, Without(t)) : Becomes(y)
    /\ UNCHANGED <<config, document, report, server, link, asleep, overtaken, unseen, events>>

\* The closure of _pull: fetch, drop the answer if the document changed, resolve.
PullDone ==
    /\ Awake
    /\ \E t \in Queued("pull") :
         LET x == [Without(t) EXCEPT !.sync.pulling = FALSE]
         IN  \/ /\ Becomes(x)
                /\ UNCHANGED <<unseen, overtaken>>
             \/ /\ ~Stale(t.gen, t.doc) /\ link = "online"
                /\ \E conflict \in BOOLEAN :
                     \E y \in Resolve(x, t, [at |-> server[t.doc.book], conflict |-> conflict]) :
                       Concludes(y, t.from)
                /\ unseen' = [unseen EXCEPT ![t.doc.book] = FALSE]
    /\ UNCHANGED <<config, document, report, server, link, asleep, events>>

\* One attempt of _upload_snapshot; busy while a report job runs.
UploadAttempt ==
    /\ Awake
    /\ \E t \in Queued("upload") :
         LET busy == report # Unknown
             p == t.position
             x == [Without(t) EXCEPT !.sync.uploading = FALSE]
             arrived == [server EXCEPT ![p.book] = p.at]
             done == [x EXCEPT !.sync.dirty = FALSE,
                               !.agreed = IF p.book = DetectBook THEN p ELSE @]
         IN  IF busy /\ t.attempt + 1 < Attempts
             THEN /\ Becomes(Later(Without(t), [t EXCEPT !.attempt = @ + 1]))
                  /\ UNCHANGED <<server, overtaken>>
             ELSE \/ /\ ~busy /\ link = "online"
                     /\ server' = arrived
                     /\ Concludes(done, p)
                  \/ /\ server' \in IF busy THEN {server} ELSE {server, arrived}
                     /\ Becomes(x)
                     /\ UNCHANGED overtaken
    /\ UNCHANGED <<config, document, report, link, asleep, unseen, events>>

\* The capture 0.15 s after a jump.
Settle ==
    /\ Awake
    /\ \E t \in Queued("settle") :
         LET x == Without(t)
             y == [x EXCEPT !.sync.at = Capture(x), !.sync.dirty = @ /\ ~t.clears]
             z == IF Capture(x) = Unknown THEN x ELSE y
         IN  Concludes(z, agreed)
    /\ UNCHANGED <<config, document, report, server, link, asleep, unseen, events>>

-------------------------------------------------------------------------------
Init ==
    /\ config \in Configs
    /\ document = NoDocument
    /\ page = 0
    /\ sync = [generation |-> 0, book |-> NoBook, at |-> Unknown, verified |-> FALSE,
               reason |-> "none", dirty |-> FALSE, pulling |-> FALSE,
               uploading |-> FALSE, jump |-> Unknown]
    /\ tasks = EmptyBag
    /\ choices = {}
    /\ asked = 0
    /\ report = Unknown
    /\ server \in [Books -> Places]
    /\ link = "online"
    /\ asleep = "no"
    /\ agreed = Unknown
    /\ overtaken = FALSE
    /\ unseen = [b \in Books |-> TRUE]
    /\ events = 0

Next ==
    \/ ReaderReady \/ CloseDocument \/ TurnPage \/ Suspend \/ Resume \/ SyncNow
    \/ ChapterRefused \/ Answer \/ StartReport \/ EndReport \/ ReadElsewhere \/ Network
    \/ CheckOpened \/ PullDone \/ UploadAttempt \/ Settle

Spec == Init /\ [][Next]_vars

-------------------------------------------------------------------------------
(***************************************************************************)
(* Properties.                                                             *)
(***************************************************************************)
\* Every variable keeps its type; in particular the page stays inside the open
\* file, wherever a stale jump or a stale answer might send it.
TypeOK ==
    /\ config \in Configs
    /\ document \in Documents \union {NoDocument}
    /\ page \in PlacesOf(document)
    /\ sync \in Sync
    /\ \A t \in DOMAIN tasks : t \in Task /\ tasks[t] \in Nat \ {0}
    /\ \A c \in choices : c \in Choice
    /\ asked \in Nat
    /\ report \in Position \union {Unknown}
    /\ server \in [Books -> Places]
    /\ link \in {"down", "connected", "online"}
    /\ asleep \in {"no", "short", "long"}
    /\ agreed \in Position \union {Unknown}
    /\ overtaken \in BOOLEAN
    /\ unseen \in [Books -> BOOLEAN]
    /\ events \in 0..MaxEvents

\* The position the object compares with and uploads is one of the open file,
\* never one a late callback brought over from the document before.
LocalPositionIsHere ==
    sync.at # Unknown =>
        /\ document # NoDocument
        /\ sync.at.book = document.book
        /\ sync.at.at \in PlacesOf(document)

\* The reporting gate opens only for the open book, and only after the cloud
\* position as another device may have left it was fetched here -- unless this
\* document was opened by a jump the user had chosen earlier.
GateMeansSeen ==
    sync.verified =>
        /\ DetectBook \in Books
        /\ sync.reason = "remote_chapter_applied" \/ ~unseen[DetectBook]

\* Neither the position nor the gate is one that a late callback of another document
\* brought here (the generation compared in each of them).
AboutThisDocument == LocalPositionIsHere /\ GateMeansSeen

\* The busy flags and the queue agree: at most one pull and one upload are
\* under way, and no flag stays up without the callback that lowers it.
FlagsMatchTasks ==
    LET InFlight(kind) == {t \in DOMAIN tasks : t.kind = kind}
        AtMostOnce(kind, flag) ==
            /\ flag <=> InFlight(kind) # {}
            /\ \A t, u \in InFlight(kind) : t = u /\ tasks[t] = 1
    IN  AtMostOnce("pull", sync.pulling) /\ AtMostOnce("upload", sync.uploading)

UploadQueued(queue, position) ==
    \E t \in DOMAIN queue : t.kind = "upload" /\ t.position = position

MustUpload ==
    /\ document # NoDocument /\ document' = NoDocument
    /\ sync.verified /\ config.upload /\ link = "online"
    /\ agreed # [book |-> DetectBook, at |-> page]

\* Closing a verified book uploads where the reader is, if that is not where
\* device and cloud last agreed -- unless an upload or a jump is still under way,
\* or some asynchronous step ended after the reader had left the position it was
\* about (a move before the check after opening counts as one).
CloseUploads ==
    [][MustUpload /\ ~sync.uploading /\ Queued("settle") = {} /\ ~overtaken
        => UploadQueued(tasks', [book |-> DetectBook, at |-> page])]_vars

===============================================================================
