--------------------------- MODULE StandaloneReader ---------------------------
(***************************************************************************)
(* Reading in the standalone application (apps/standalone): the frame loop *)
(* of app.lua with the ticks that load a chapter, report reading time and  *)
(* watch the power state, the reading session (reader_session.lua) and the *)
(* foreground clock (foreground_time.lua).                                 *)
(*                                                                         *)
(* A frame goes lifecycle, report, load, input.  Requests block the loop,  *)
(* so time passes inside a tick as well as between frames; it passes in    *)
(* whole units, with the limits of the code (30 s to a report, 60 s after  *)
(* a failed one, a gap of 5 s) as CONSTANTS.  Left out: the other screens' *)
(* own work, prefetching (it only takes time), articles (never reported),  *)
(* the layout values (a reflow changes the page count) and the position    *)
(* sent along with a report.                                               *)
(***************************************************************************)
EXTENDS Naturals

CONSTANTS
    Books,
    NoBook,        \* nil book id
    NoSession,     \* state.reader_session == nil
    NoAction,      \* state.pending_open == nil
    NoPosition,    \* nothing saved for a book
    LastChapter,   \* every book has chapters 1..LastChapter
    MaxPages,      \* most pages of a chapter in any layout
    MinReport,     \* least time worth a report (30 s)
    AfterSuccess,  \* until the next report (30 s)
    AfterFailure,  \* until a retry (60 s)
    GapLimit,      \* longest frame that is no gap (5 s)
    MaxTime,       \* bound on the time that passes
    MaxEvents      \* bound on user actions, power changes and crashes

ASSUME SizesAssumption == {LastChapter, MaxPages} \subseteq Nat \ {0}
ASSUME LimitsAssumption ==
    /\ {MinReport, AfterSuccess, AfterFailure, GapLimit, MaxTime, MaxEvents} \subseteq Nat
    /\ AfterSuccess <= AfterFailure

VARIABLES
    phase,     \* what the frame loop does next
    ui,        \* screen, state.book, the session, pending_open and load_step
    clock,     \* the ForegroundTime object
    loop,      \* time since the last loop, until the next report, power_state
    enabled,   \* settings.read_report.enabled
    inflight,  \* seconds the upload under way carries
    powerd,    \* the device's power state
    positions, \* stored reading positions
    stored,    \* stored pending seconds
    owed,      \* measured and not acknowledged or given up (observer)
    read,      \* time a book was really being read (observer)
    reported,  \* time the server was told of (observer)
    time,
    events

vars == <<phase, ui, clock, loop, enabled, inflight, powerd, positions, stored,
          owed, read, reported, time, events>>

Chapters == 1..LastChapter
Pages == 1..MaxPages

\* page of count pages; exact unless it came from the cloud as a fraction.
Position == [chapter: Chapters, page: Pages, count: Pages, exact: BOOLEAN]
Action == [chapter: Chapters, mode: {"first", "last", "resume"},
           saved: Position \union {NoPosition}]
\* chapter = 0: the session has begun and no chapter was opened yet.
Session == [book: Books, chapter: 0..LastChapter, page: Pages, count: Pages]

ASSUME NilAssumption ==
    /\ NoBook \notin Books /\ NoPosition \notin Position
    /\ NoAction \notin Action /\ NoSession \notin Session

Screens == {"shelf", "detail", "loading", "reader", "menu", "error"}
Ui == [screen: Screens, book: Books \union {NoBook},
       session: Session \union {NoSession}, pending: Action \union {NoAction},
       step: {"catalog", "chapter", "render", "done"}]

Min2(a, b) == IF a < b THEN a ELSE b
Minus(a, b) == IF a < b THEN 0 ELSE a - b

-------------------------------------------------------------------------------
(***************************************************************************)
(* ReaderSession.                                                          *)
(***************************************************************************)
Opens(chapter, mode, saved) == [chapter |-> chapter, mode |-> mode, saved |-> saved]

\* position, of a session with a chapter
PositionOf(s) == [chapter |-> s.chapter, page |-> s.page, count |-> s.count, exact |-> TRUE]

Clamp(n, high) == IF n < 1 THEN 1 ELSE Min2(n, high)

\* restored_page: floor(fraction * (count - 1) + 1.5), the fraction being
\* (page - 1) / (count - 1) of the saved layout.
RestoredPageUnclamped(action, count) ==  \* mutant: trusts the saved page
    IF action.mode = "last" THEN count
    ELSE IF action.mode # "resume" \/ action.saved = NoPosition THEN 1
    ELSE action.saved.page
RestoredPage(action, count) ==
    LET saved == action.saved
        steps == saved.count - 1
        scaled == IF steps = 0 THEN 1
                  ELSE (2 * (saved.page - 1) * (count - 1) + 3 * steps) \div (2 * steps)
    IN  IF action.mode = "last" THEN count
        ELSE IF action.mode = "first" \/ saved = NoPosition \/ saved.chapter # action.chapter THEN 1
        ELSE Clamp(IF saved.exact /\ saved.count = count THEN saved.page ELSE scaled, count)

\* begin
Begun(book) ==
    LET saved == positions[book] IN
    [session |-> [book |-> book, chapter |-> 0, page |-> 1, count |-> 1],
     action |-> Opens(IF saved = NoPosition THEN 1 ELSE saved.chapter, "resume", saved)]

\* complete_open, before persist
Completed(s, action, count) ==
    [s EXCEPT !.chapter = action.chapter, !.count = count, !.page = RestoredPage(action, count)]

Persisted(s) == [positions EXCEPT ![s.book] = PositionOf(s)]

HasChapter(s) == s # NoSession /\ s.chapter # 0

-------------------------------------------------------------------------------
(***************************************************************************)
(* ForegroundTime.  running: the time since started_at.                     *)
(***************************************************************************)
NoClock == [book |-> NoBook, active |-> FALSE, running |-> 0, pending |-> 0]

\* _accrue
Accrued(c) == IF c.active THEN [c EXCEPT !.pending = @ + c.running, !.running = 0] ELSE c

\* _persist
StoredWith(c) == IF c.book = NoBook THEN stored ELSE [stored EXCEPT ![c.book] = c.pending]

Started(c) == IF c.active THEN c ELSE [c EXCEPT !.active = TRUE, !.running = 0]

EnterForgets(c, book) ==  \* mutant: changes the book before it accrues
    /\ clock' = Started([c EXCEPT !.book = book, !.pending = stored[book]])
    /\ stored' = stored

\* enter
Enter(c, book) ==
    IF c.book = book THEN clock' = Started(c) /\ stored' = stored
    ELSE /\ clock' = Started([Accrued(c) EXCEPT !.book = book, !.pending = stored[book]])
         /\ stored' = StoredWith(Accrued(c))

\* suspend, resume and close (which is suspend)
Suspended(c) == [Accrued(c) EXCEPT !.active = FALSE]
Resumed(c) == IF c.book = NoBook THEN c ELSE Started(c)

-------------------------------------------------------------------------------
(***************************************************************************)
(* The ticks of a frame.                                                   *)
(***************************************************************************)
\* lifecycle_tick: a long gap is not measured, then powerd is asked, which may
\* know nothing.
LifecycleTick ==
    /\ phase = "lifecycle" /\ phase' = "report"
    /\ LET gap == loop.since > GapLimit
           c == IF gap THEN [clock EXCEPT !.running = 0] ELSE clock
           given == IF gap THEN clock.running ELSE 0
       IN  /\ owed' = IF clock.book = NoBook THEN owed ELSE [owed EXCEPT ![clock.book] = @ - given]
           /\ \E seen \in {loop.power, powerd} :
                /\ loop' = [loop EXCEPT !.since = 0, !.power = seen]
                /\ LET goes == seen = "suspended" /\ loop.power # "suspended"
                       comes == seen = "active" /\ loop.power = "suspended"
                   IN  /\ clock' = IF goes THEN Suspended(c) ELSE IF comes THEN Resumed(c) ELSE c
                       /\ stored' = IF goes /\ c.active THEN StoredWith(Accrued(c)) ELSE stored
    /\ UNCHANGED <<ui, enabled, inflight, powerd, positions, read, reported, time, events>>

Due == ui.session # NoSession /\ clock.active /\ enabled /\ loop.wait = 0

\* read_report_tick up to the upload
ReportTick ==
    /\ phase = "report"
    /\ LET c == Accrued(clock) IN
       IF ~Due
       THEN phase' = "load" /\ UNCHANGED <<clock, stored, inflight, loop>>
       ELSE /\ clock' = c
            /\ stored' = StoredWith(c)
            /\ IF c.pending < MinReport
               THEN phase' = "load" /\ UNCHANGED <<inflight, loop>>
               ELSE /\ phase' = "upload"
                    /\ inflight' = c.pending
                    /\ loop' = [loop EXCEPT !.wait = AfterFailure]
    /\ UNCHANGED <<ui, enabled, powerd, positions, owed, read, reported, time, events>>

\* upload_position was accepted: acknowledge.
ReportAccepted ==
    /\ phase = "upload" /\ phase' = "load"
    /\ LET c == [Accrued(clock) EXCEPT !.pending = Minus(@, inflight)]
       IN  clock' = c /\ stored' = StoredWith(c)
    /\ owed' = [owed EXCEPT ![clock.book] = @ - inflight]
    /\ reported' = [reported EXCEPT ![ui.book] = @ + inflight]
    /\ loop' = [loop EXCEPT !.wait = Minus(@, AfterFailure - AfterSuccess)]
    /\ inflight' = 0
    /\ UNCHANGED <<ui, enabled, powerd, positions, read, time, events>>

\* It was not: the seconds stay pending.
ReportFailed ==
    /\ phase = "upload" /\ phase' = "load"
    /\ inflight' = 0
    /\ UNCHANGED <<ui, clock, loop, enabled, powerd, positions, stored, owed, read,
                   reported, time, events>>

Load(u) == phase = "load" /\ ui.screen = "loading" /\ phase' = "input" /\ ui' = u
OnlyUi == UNCHANGED <<clock, loop, enabled, inflight, powerd, positions, stored, owed,
                      read, reported, time, events>>

\* load_tick.  load_fail leaves the session alone.
LoadFails ==
    /\ ui.step # "done"
    /\ Load([ui EXCEPT !.screen = "error",
                       !.step = CASE @ = "chapter" -> "render" [] @ = "render" -> "done"
                                  [] OTHER -> @])
    /\ OnlyUi

LoadCatalog ==
    /\ ui.step = "catalog"
    /\ Load([ui EXCEPT !.session = Begun(ui.book).session, !.pending = Begun(ui.book).action,
                       !.step = "chapter"])
    /\ OnlyUi

LoadChapter ==
    /\ ui.step = "chapter"
    /\ Load([ui EXCEPT !.step = "render"])
    /\ OnlyUi

LoadRender ==
    /\ ui.step = "render"
    /\ \E count \in Pages :
         LET s == Completed(ui.session, ui.pending, count) IN
         /\ Load([ui EXCEPT !.step = "done", !.session = s, !.pending = NoAction,
                            !.screen = "reader"])
         /\ positions' = Persisted(s)
         /\ Enter(clock, ui.book)
    /\ UNCHANGED <<loop, enabled, inflight, powerd, owed, read, reported, time, events>>

NothingToLoad ==
    /\ phase = "load" /\ phase' = "input"
    /\ ui.screen # "loading" \/ ui.step = "done"
    /\ UNCHANGED ui /\ OnlyUi

\* The frame ends with no input.
EndFrame ==
    /\ phase = "input" /\ phase' = "lifecycle"
    /\ UNCHANGED ui /\ OnlyUi

-------------------------------------------------------------------------------
(***************************************************************************)
(* The user, in the event callbacks at the end of a frame.  The open detail *)
(* page stands for every screen reached from it that does not read.        *)
(***************************************************************************)
Event == phase = "input" /\ phase' = "lifecycle" /\ events < MaxEvents /\ events' = events + 1

Shows(u) ==
    /\ ui' = u
    /\ UNCHANGED <<clock, loop, enabled, inflight, powerd, positions, stored, owed, read,
                   reported, time>>

\* queue_chapter_open
QueueKeepsStep(u, action) ==  \* mutant: load_step is not set back
    [u EXCEPT !.pending = action, !.screen = "loading"]
Queue(u, action) == [u EXCEPT !.pending = action, !.screen = "loading", !.step = "chapter"]

\* open_book_record, and what it loads
OpenDetail ==
    /\ Event /\ ui.screen = "shelf"
    /\ \E b \in Books : Shows([ui EXCEPT !.screen = "detail", !.book = b,
                                         !.session = NoSession, !.pending = NoAction])

\* show_shelf, from a detail page or the error screen
BackToShelf ==
    /\ Event
    /\ ui.screen = "detail" \/ (ui.screen = "error" /\ ~(HasChapter(ui.session) /\ ui.step = "render"))
    /\ Shows([ui EXCEPT !.screen = "shelf"])

\* begin_reading
BeginReading ==
    /\ Event
    /\ \E b \in Books :
         /\ ui.screen = "shelf" \/ (ui.screen = "detail" /\ ui.book = b)
         /\ Shows([ui EXCEPT !.screen = "loading", !.book = b, !.session = NoSession,
                             !.pending = NoAction, !.step = "catalog"])

\* The other two buttons of the error screen; only a failed chapter step, which
\* has already moved load_step on, offers to return.
Retry ==
    /\ Event /\ ui.screen = "error" /\ ui.pending # NoAction
    /\ Shows(Queue(ui, ui.pending))
ReturnFromError ==
    /\ Event /\ ui.screen = "error" /\ HasChapter(ui.session) /\ ui.step = "render"
    /\ Shows([ui EXCEPT !.pending = NoAction, !.screen = "reader"])

TurnsTo(page) ==
    LET s == [ui.session EXCEPT !.page = page] IN
    /\ ui' = [ui EXCEPT !.session = s, !.screen = "reader"]
    /\ positions' = Persisted(s)
    /\ UNCHANGED <<clock, loop, enabled, inflight, powerd, stored, owed, read, reported, time>>

\* next and previous, through handle_reader_action; the end of the book shows
\* a boundary page, one of the menus.
NextPage ==
    /\ Event /\ ui.screen = "reader"
    /\ LET s == ui.session IN
       IF s.page < s.count THEN TurnsTo(s.page + 1)
       ELSE IF s.chapter < LastChapter THEN Shows(Queue(ui, Opens(s.chapter + 1, "first", NoPosition)))
       ELSE Shows([ui EXCEPT !.screen = "menu"])

PreviousPage ==
    /\ Event /\ ui.screen = "reader"
    /\ LET s == ui.session IN
       IF s.page > 1 THEN TurnsTo(s.page - 1)
       ELSE IF s.chapter > 1 THEN Shows(Queue(ui, Opens(s.chapter - 1, "last", NoPosition)))
       ELSE Shows([ui EXCEPT !.screen = "menu"])

\* The table of contents and the layout page, and back
OpenMenu == Event /\ ui.screen = "reader" /\ Shows([ui EXCEPT !.screen = "menu"])
CloseMenu == Event /\ ui.screen = "menu" /\ Shows([ui EXCEPT !.screen = "reader"])

\* jump_to_chapter
Jump ==
    /\ Event /\ ui.screen = "menu"
    /\ \E c \in Chapters :
         IF c = ui.session.chapter THEN TurnsTo(1)
         ELSE Shows(Queue(ui, Opens(c, "first", NoPosition)))

\* set_layout and reopen
Relayout ==
    /\ Event /\ ui.screen = "menu"
    /\ Shows(Queue(ui, Opens(ui.session.chapter, "resume", PositionOf(ui.session))))

\* The report toggle of the layout page
ToggleReport ==
    /\ Event /\ ui.screen = "menu"
    /\ enabled' = ~enabled
    /\ loop' = [loop EXCEPT !.wait = 0]
    /\ UNCHANGED <<ui, clock, inflight, powerd, positions, stored, owed, read, reported, time>>

\* close_reader, from the reader or the boundary page
CloseReader ==
    /\ Event /\ ui.screen \in {"reader", "menu"}
    /\ clock' = Suspended(clock)
    /\ stored' = IF clock.active THEN StoredWith(Accrued(clock)) ELSE stored
    /\ positions' = Persisted(ui.session)
    /\ ui' = [ui EXCEPT !.session = NoSession, !.pending = NoAction, !.screen = "detail"]
    /\ UNCHANGED <<loop, enabled, inflight, powerd, owed, read, reported, time>>

\* accept_remote: the next opening goes where the cloud says.
UseCloudBare ==  \* mutant: over the session of another screen
    /\ Event /\ ui.screen \in {"menu"}
    /\ \E at \in [chapter: Chapters, page: Pages, count: {MaxPages}, exact: {FALSE}] :
         positions' = [positions EXCEPT ![ui.book] = at]
    /\ UNCHANGED <<ui, clock, loop, enabled, inflight, powerd, stored, owed, read, reported, time>>
UseCloud ==
    /\ Event /\ ui.screen = "detail"
    /\ \E at \in [chapter: Chapters, page: Pages, count: {MaxPages}, exact: {FALSE}] :
         positions' = [positions EXCEPT ![ui.book] = at]
    /\ UNCHANGED <<ui, clock, loop, enabled, inflight, powerd, stored, owed, read, reported, time>>

-------------------------------------------------------------------------------
(***************************************************************************)
(* The world around the loop.                                              *)
(***************************************************************************)
\* A book is being read, to be generous, while any screen but the shelf and the
\* detail pages is about it.
BeingRead(b) == ui.book = b /\ ui.screen \notin {"shelf", "detail"}

\* A unit passes, in a request that blocks the loop or between two frames.
TimePasses ==
    /\ time < MaxTime /\ time' = time + 1
    /\ phase \in {"upload", "load", "input"}
    /\ loop' = [loop EXCEPT !.since = Min2(@ + 1, GapLimit + 1), !.wait = Minus(@, 1)]
    /\ clock' = IF clock.active THEN [clock EXCEPT !.running = @ + 1] ELSE clock
    /\ owed' = IF clock.active THEN [owed EXCEPT ![clock.book] = @ + 1] ELSE owed
    /\ read' = [b \in Books |-> IF BeingRead(b) THEN read[b] + 1 ELSE read[b]]
    /\ UNCHANGED <<phase, ui, enabled, inflight, powerd, positions, stored, reported, events>>

PowerChanges ==
    /\ events < MaxEvents /\ events' = events + 1
    /\ powerd' = IF powerd = "active" THEN "suspended" ELSE "active"
    /\ UNCHANGED <<phase, ui, clock, loop, enabled, inflight, positions, stored, owed, read,
                   reported, time>>

Fresh == [screen |-> "shelf", book |-> NoBook, session |-> NoSession,
          pending |-> NoAction, step |-> "done"]
NewLoop == [since |-> 0, wait |-> 0, power |-> "unknown"]

\* A new process finds what was stored.
Restarts ==
    /\ events < MaxEvents /\ events' = events + 1
    /\ phase' = "lifecycle"
    /\ ui' = Fresh
    /\ clock' = NoClock
    /\ loop' = NewLoop
    /\ inflight' = 0
    /\ UNCHANGED <<enabled, powerd, positions, read, time>>

\* The process is killed; an upload under way may have reached the server.
Crash ==
    /\ Restarts
    /\ owed' = IF clock.book = NoBook THEN owed
               ELSE [owed EXCEPT ![clock.book] = @ - clock.running]
    /\ \/ UNCHANGED reported
       \/ phase = "upload" /\ reported' = [reported EXCEPT ![ui.book] = @ + inflight]
    /\ UNCHANGED stored

\* The exit button of the shelf: main closes the clock.
Exit ==
    /\ phase = "input" /\ ui.screen = "shelf"
    /\ Restarts
    /\ stored' = IF clock.active THEN StoredWith(Accrued(clock)) ELSE stored
    /\ UNCHANGED <<owed, reported>>

Init ==
    /\ phase = "lifecycle"
    /\ ui = Fresh
    /\ clock = NoClock
    /\ loop = NewLoop
    /\ enabled \in BOOLEAN
    /\ inflight = 0
    /\ powerd = "active"
    /\ positions = [b \in Books |-> NoPosition]
    /\ stored = [b \in Books |-> 0]
    /\ owed = [b \in Books |-> 0]
    /\ read = [b \in Books |-> 0]
    /\ reported = [b \in Books |-> 0]
    /\ time = 0
    /\ events = 0

Frame ==
    \/ LifecycleTick
    \/ ReportTick \/ ReportAccepted \/ ReportFailed
    \/ LoadFails \/ LoadCatalog \/ LoadChapter \/ LoadRender \/ NothingToLoad
    \/ EndFrame

User ==
    \/ OpenDetail \/ BackToShelf \/ BeginReading \/ Retry \/ ReturnFromError
    \/ NextPage \/ PreviousPage \/ OpenMenu \/ CloseMenu \/ Jump \/ Relayout
    \/ ToggleReport \/ CloseReader \/ UseCloud

Next == Frame \/ User \/ TimePasses \/ PowerChanges \/ Crash \/ Exit

Spec == Init /\ [][Next]_vars

\* The loop goes on, whatever blocks it for a while.
FairSpec == Spec /\ WF_vars(Frame)

-------------------------------------------------------------------------------
(***************************************************************************)
(* Properties.                                                             *)
(***************************************************************************)
\* Every variable keeps its type; in particular a page restored into another
\* layout lies inside the chapter.
TypeOK ==
    /\ phase \in {"lifecycle", "report", "upload", "load", "input"}
    /\ ui \in Ui
    /\ ui.session # NoSession => ui.session.page <= ui.session.count
    /\ clock \in [book: Books \union {NoBook}, active: BOOLEAN, running: Nat, pending: Nat]
    /\ loop \in [since: 0..GapLimit + 1, wait: 0..AfterFailure,
                 power: {"unknown", "active", "suspended"}]
    /\ enabled \in BOOLEAN
    /\ inflight \in Nat
    /\ powerd \in {"active", "suspended"}
    /\ positions \in [Books -> Position \union {NoPosition}]
    /\ {stored, owed, read, reported} \subseteq [Books -> Nat]
    /\ time \in 0..MaxTime /\ events \in 0..MaxEvents

\* Every second the clock measured is pending until the server acknowledged it:
\* no change of book, suspend, failed report or second report loses or doubles
\* one, and a crash costs no more than the interval that is running.
SecondsKept ==
    \A b \in Books :
        owed[b] = IF clock.book = b THEN clock.pending + clock.running ELSE stored[b]

\* Killed at any moment, the application reopens the book at the page shown last.
WhereYouWere ==
    HasChapter(ui.session) => positions[ui.session.book] = PositionOf(ui.session)

\* The loading screen, which has no button, always gives way to another one.
LoadingEnds == ui.screen = "loading" ~> ui.screen # "loading"

\* Only time measured while the book was being read is reported for it.
ReportedIsRead == \A b \in Books : reported[b] <= read[b]

===============================================================================
