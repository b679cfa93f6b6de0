------------------------- MODULE StandaloneReaderProofs -------------------------
(***************************************************************************)
(* For any number of books, chapters and pages, and for all limits of the  *)
(* loop: no second that was measured is lost, the page shown last is the   *)
(* page stored, and every variable keeps its type.                         *)
(*                                                                         *)
(* Three invariants carry the proofs, each about its own variables: what a *)
(* screen tells of the reading session (ScreenRight), what the clock and   *)
(* the store hold of a book (ClockRight), and the types of the rest.       *)
(***************************************************************************)
EXTENDS StandaloneReader, TLAPS

\* A screen that reads has a chapter, one that waits to open one knows which, and the
\* detail page has no session.
ScreenRight(u) ==
    /\ u \in Ui
    /\ u.session # NoSession => u.session.page <= u.session.count /\ u.session.book = u.book
    /\ u.pending # NoAction => u.session # NoSession
    /\ u.screen \in {"reader", "menu"} => HasChapter(u.session)
    /\ u.screen = "detail" => u.session = NoSession
    /\ u.screen = "loading" /\ u.step \in {"chapter", "render"} => u.pending # NoAction
    /\ u.screen \in {"detail", "loading"} => u.book \in Books

\* The page of the session is the page stored.
Kept(u, p) == HasChapter(u.session) => p[u.session.book] = PositionOf(u.session)

Clock == [book : Books \union {NoBook}, active : BOOLEAN, running : Nat, pending : Nat]

\* A clock that runs has a book, one that stands measures nothing, and what is pending
\* of its book is stored.
ClockRight(c, st) ==
    /\ c \in Clock /\ st \in [Books -> Nat]
    /\ c.active => c.book # NoBook
    /\ ~c.active => c.running = 0
    /\ c.book # NoBook => st[c.book] = c.pending

\* Every second owed is in the clock or in the store.
Owes(c, st, ow) ==
    /\ ow \in [Books -> Nat]
    /\ \A b \in Books : ow[b] = IF c.book = b THEN c.pending + c.running ELSE st[b]

\* What an upload under way carries is still pending.
UploadRight ==
    phase = "upload" =>
        clock.active /\ inflight <= clock.pending /\ ui.session # NoSession

Screen == ScreenRight(ui) /\ positions \in [Books -> Position \union {NoPosition}] /\ Kept(ui, positions)

Seconds == ClockRight(clock, stored) /\ Owes(clock, stored, owed) /\ UploadRight

Rest ==
    /\ phase \in {"lifecycle", "report", "upload", "load", "input"}
    /\ loop \in [since : 0..GapLimit + 1, wait : 0..AfterFailure,
                 power : {"unknown", "active", "suspended"}]
    /\ enabled \in BOOLEAN
    /\ inflight \in Nat
    /\ powerd \in {"active", "suspended"}
    /\ read \in [Books -> Nat] /\ reported \in [Books -> Nat]
    /\ time \in 0..MaxTime /\ events \in 0..MaxEvents

\* The inductive invariant.
Right == Screen /\ Seconds /\ Rest

--------------------------------------------------------------------------------

\* restored_page lies inside the chapter, whatever layout the page was saved in.
LEMMA RestoredInside ==
    ASSUME NEW action \in Action, NEW count \in Pages
    PROVE  RestoredPage(action, count) \in 1..count
<1>1. ASSUME NEW n \in Nat
      PROVE  Clamp(n, count) \in 1..count
  BY DEF Clamp, Min2, Pages
<1>2. count \in 1..count /\ 1 \in 1..count
  BY DEF Pages
<1>3. CASE action.mode = "last" \/ action.mode = "first" \/ action.saved = NoPosition
           \/ action.saved.chapter # action.chapter
  BY <1>2, <1>3 DEF RestoredPage
<1>4. CASE ~(action.mode = "last" \/ action.mode = "first" \/ action.saved = NoPosition
             \/ action.saved.chapter # action.chapter)
  <2>1. PICK page \in Nat \ {0} : page = action.saved.page
    BY <1>4 DEF Action, Position, Pages
  <2>2. PICK steps \in Nat : steps = action.saved.count - 1
    BY <1>4 DEF Action, Position, Pages
  <2>3. PICK a \in Nat : a = 2 * (page - 1) * (count - 1) + 3 * steps
    <3>1. page - 1 \in Nat /\ count - 1 \in Nat
      BY DEF Pages
    <3>2. (page - 1) * (count - 1) \in Nat
      BY <3>1
    <3> QED
      BY <3>1, <3>2
  <2>4. ASSUME steps # 0 PROVE a \div (2 * steps) \in Nat
    <3>1. 2 * steps \in Nat /\ 2 * steps > 0
      BY <2>4
    <3> QED
      BY <3>1
  <2>5. PICK scaled \in Nat : scaled = IF steps = 0 THEN 1 ELSE a \div (2 * steps)
    BY <2>4
  <2>6. RestoredPage(action, count) =
          Clamp(IF action.saved.exact /\ action.saved.count = count THEN page ELSE scaled, count)
    BY <1>4, <2>1, <2>2, <2>3, <2>5 DEF RestoredPage
  <2> QED
    BY <1>1, <2>6
<1> QED
  BY <1>3, <1>4

\* _accrue takes the running interval into what is pending.
LEMMA AccruedIs ==
    ASSUME NEW c \in Clock
    PROVE  /\ Accrued(c) \in Clock /\ Accrued(c).book = c.book /\ Accrued(c).active = c.active
           /\ Accrued(c).running = (IF c.active THEN 0 ELSE c.running)
           /\ Accrued(c).pending = (IF c.active THEN c.pending + c.running ELSE c.pending)
<1>1. CASE c.active
  <2>1. PICK d : d = [c EXCEPT !.pending = @ + c.running, !.running = 0]
    OBVIOUS
  <2>2. c.pending + c.running \in Nat
    BY DEF Clock
  <2>3. d = [c EXCEPT !.pending = c.pending + c.running, !.running = 0]
    BY <2>1 DEF Clock
  <2>4. /\ d \in Clock /\ d.book = c.book /\ d.active = c.active
        /\ d.running = 0 /\ d.pending = c.pending + c.running
    BY <2>2, <2>3 DEF Clock
  <2>5. Accrued(c) = d
    BY <1>1, <2>1 DEF Accrued
  <2> QED
    BY <1>1, <2>4, <2>5
<1>2. CASE ~c.active
  BY <1>2 DEF Accrued
<1> QED
  BY <1>1, <1>2

\* Starting a clock that runs changes nothing; one that stands starts at zero.
LEMMA StartedIs ==
    ASSUME NEW c \in Clock
    PROVE  /\ Started(c) \in Clock /\ Started(c).book = c.book /\ Started(c).active = TRUE
           /\ Started(c).running = (IF c.active THEN c.running ELSE 0)
           /\ Started(c).pending = c.pending
BY DEF Started, Clock

\* suspend and close keep what they measured, once it is stored.
LEMMA SuspendKeeps ==
    ASSUME NEW c, NEW ow, ClockRight(c, stored), Owes(c, stored, ow),
           NEW st, st = IF c.active THEN StoredWith(Accrued(c)) ELSE stored
    PROVE  ClockRight(Suspended(c), st) /\ Owes(Suspended(c), st, ow)
<1>1. PICK a : a = Accrued(c)
  OBVIOUS
<1>2. /\ c \in Clock /\ a \in Clock /\ a.book = c.book /\ a.active = c.active
      /\ a.running = (IF c.active THEN 0 ELSE c.running)
      /\ a.pending = (IF c.active THEN c.pending + c.running ELSE c.pending)
  BY <1>1, AccruedIs DEF ClockRight
<1>3. PICK d : d = [a EXCEPT !.active = FALSE]
  OBVIOUS
<1>4. /\ d \in Clock /\ d.book = a.book /\ d.active = FALSE
      /\ d.running = a.running /\ d.pending = a.pending
  BY <1>2, <1>3 DEF Clock
<1>5. Suspended(c) = d
  BY <1>1, <1>3 DEF Suspended
<1>6. d.running = 0 /\ d.pending = c.pending + c.running
  BY <1>2, <1>4 DEF ClockRight, Clock
<1>7. CASE c.active
  <2>1. c.book \in Books /\ st = [stored EXCEPT ![c.book] = d.pending]
    BY <1>1, <1>2, <1>4, <1>7 DEF ClockRight, Clock, StoredWith
  <2>2. /\ st \in [Books -> Nat] /\ st[c.book] = d.pending
        /\ \A b \in Books : b # c.book => st[b] = stored[b]
    BY <1>4, <2>1 DEF ClockRight, Clock
  <2>3. ClockRight(d, st)
    BY <1>2, <1>4, <1>6, <2>2 DEF ClockRight
  <2>4. Owes(d, st, ow)
    BY <1>2, <1>4, <1>6, <2>2 DEF Owes, Clock
  <2> QED
    BY <1>5, <2>3, <2>4
<1>8. CASE ~c.active
  <2>1. st = stored /\ c.running = 0 /\ d.pending = c.pending /\ d.book = c.book
    BY <1>2, <1>4, <1>6, <1>8 DEF ClockRight, Clock
  <2>2. ClockRight(d, st)
    BY <1>4, <1>6, <2>1 DEF ClockRight
  <2>3. Owes(d, st, ow)
    BY <1>6, <2>1 DEF Owes
  <2> QED
    BY <1>5, <2>2, <2>3
<1> QED
  BY <1>7, <1>8 DEF ClockRight, Clock

\* A clock that is started has nothing new to owe.
LEMMA StartKeeps ==
    ASSUME NEW c, NEW st, NEW ow, ClockRight(c, st), Owes(c, st, ow), c.book # NoBook
    PROVE  ClockRight(Started(c), st) /\ Owes(Started(c), st, ow)
<1>1. PICK d : d = Started(c)
  OBVIOUS
<1>2. /\ d \in Clock /\ d.book = c.book /\ d.active = TRUE
      /\ d.running = (IF c.active THEN c.running ELSE 0) /\ d.pending = c.pending
  BY <1>1, StartedIs DEF ClockRight
<1>3. d.running = c.running
  BY <1>2 DEF ClockRight, Clock
<1> QED
  BY <1>1, <1>2, <1>3 DEF ClockRight, Owes

\* checkpoint accrues and stores.
LEMMA CheckpointKeeps ==
    ASSUME ClockRight(clock, stored), Owes(clock, stored, owed), clock.active,
           NEW c, c = Accrued(clock), NEW st, st = StoredWith(c)
    PROVE  ClockRight(c, st) /\ Owes(c, st, owed)
<1>1. /\ c \in Clock /\ c.book = clock.book /\ c.active = TRUE /\ c.running = 0
      /\ c.pending = clock.pending + clock.running /\ c.book \in Books
  <2>1. clock \in Clock /\ clock.book \in Books
    BY DEF ClockRight, Clock
  <2> QED
    BY <2>1, AccruedIs
<1>2. NoBook \notin Books
  BY NilAssumption
<1>3. /\ st \in [Books -> Nat] /\ st[c.book] = c.pending
      /\ \A b \in Books : b # c.book => st[b] = stored[b]
  BY <1>1, <1>2 DEF StoredWith, ClockRight, Clock
<1> QED
  BY <1>1, <1>3 DEF ClockRight, Owes, Clock

\* acknowledge takes what the report carried, and what passed meanwhile stays.
LEMMA AcknowledgeKeeps ==
    ASSUME ClockRight(clock, stored), Owes(clock, stored, owed), clock.active,
           inflight \in Nat, inflight <= clock.pending,
           NEW c, c = [Accrued(clock) EXCEPT !.pending = Minus(@, inflight)],
           NEW st, st = StoredWith(c),
           NEW ow, ow = [owed EXCEPT ![clock.book] = @ - inflight]
    PROVE  ClockRight(c, st) /\ Owes(c, st, ow)
<1>1. PICK a : a = Accrued(clock)
  OBVIOUS
<1>2. /\ a \in Clock /\ a.book = clock.book /\ a.active = TRUE /\ a.running = 0
      /\ a.pending = clock.pending + clock.running /\ clock.book \in Books
      /\ clock.pending \in Nat /\ clock.running \in Nat
  BY <1>1, AccruedIs DEF ClockRight, Clock
<1>3. Minus(a.pending, inflight) = a.pending - inflight /\ a.pending - inflight \in Nat
  BY <1>2 DEF Minus
<1>4. PICK n \in Nat : n = a.pending - inflight /\ c = [a EXCEPT !.pending = n]
  BY <1>1, <1>3
<1>5. /\ c \in Clock /\ c.book = clock.book /\ c.active = TRUE /\ c.running = 0
      /\ c.pending = clock.pending + clock.running - inflight /\ c.pending \in Nat
  <2>1. a \in Clock /\ c = [a EXCEPT !.pending = n]
    BY <1>2, <1>4
  <2>2. c \in Clock /\ c.book = a.book /\ c.active = a.active /\ c.running = a.running
        /\ c.pending = n
    BY <2>1 DEF Clock
  <2> QED
    BY <1>2, <1>4, <2>2
<1>6. NoBook \notin Books
  BY NilAssumption
<1>7. /\ st \in [Books -> Nat] /\ st[c.book] = c.pending
      /\ \A b \in Books : b # c.book => st[b] = stored[b]
  BY <1>2, <1>5, <1>6 DEF StoredWith, ClockRight
<1>8. owed[clock.book] = clock.pending + clock.running /\ owed \in [Books -> Nat]
  BY <1>2 DEF Owes
<1>9. /\ ow \in [Books -> Nat] /\ ow[c.book] = c.pending
      /\ \A b \in Books : b # c.book => ow[b] = owed[b]
  BY <1>2, <1>5, <1>8
<1>10. ClockRight(c, st)
  BY <1>2, <1>5, <1>6, <1>7 DEF ClockRight
<1>11. Owes(c, st, ow)
  BY <1>5, <1>7, <1>9 DEF Owes
<1> QED
  BY <1>10, <1>11

\* enter stores the seconds of the book before and takes up those of the new one.
LEMMA EnterKeeps ==
    ASSUME ClockRight(clock, stored), Owes(clock, stored, owed), NEW book \in Books,
           Enter(clock, book)
    PROVE  ClockRight(clock', stored') /\ Owes(clock', stored', owed)
<1>1. NoBook \notin Books
  BY NilAssumption
<1>2. CASE clock.book = book
  <2>1. clock' = Started(clock) /\ stored' = stored
    BY <1>2 DEF Enter
  <2> QED
    BY <1>1, <1>2, <2>1, StartKeeps
<1>3. CASE clock.book # book
  <2>1. PICK a : a = Accrued(clock)
    OBVIOUS
  <2>2. PICK c : c = [a EXCEPT !.book = book, !.pending = stored[book]]
    OBVIOUS
  <2>3. clock' = Started(c) /\ stored' = StoredWith(a)
    BY <1>3, <2>1, <2>2 DEF Enter
  <2>4. /\ a \in Clock /\ a.book = clock.book /\ a.active = clock.active
        /\ a.running = (IF clock.active THEN 0 ELSE clock.running)
        /\ a.pending = (IF clock.active THEN clock.pending + clock.running ELSE clock.pending)
    BY <2>1, AccruedIs DEF ClockRight
  <2>5. a.running = 0 /\ a.pending = clock.pending + clock.running
    BY <2>4 DEF ClockRight, Clock
  <2>6. stored \in [Books -> Nat] /\ stored[book] \in Nat
    BY DEF ClockRight
  <2>7. /\ c \in Clock /\ c.book = book /\ c.active = a.active /\ c.running = 0
        /\ c.pending = stored[book]
    BY <2>2, <2>4, <2>5, <2>6 DEF Clock
  <2>8. /\ stored' \in [Books -> Nat] /\ stored'[book] = stored[book]
        /\ \A b \in Books : b # clock.book => stored'[b] = stored[b]
        /\ clock.book \in Books => stored'[clock.book] = clock.pending + clock.running
    <3>1. CASE a.book = NoBook
      BY <1>1, <2>3, <2>4, <2>6, <3>1 DEF StoredWith
    <3>2. CASE a.book # NoBook
      <4>1. a.book \in Books /\ a.pending \in Nat
        BY <2>4, <3>2 DEF Clock
      <4>2. stored' = [stored EXCEPT ![a.book] = a.pending]
        BY <2>3, <3>2 DEF StoredWith
      <4> QED
        BY <1>3, <2>4, <2>5, <2>6, <4>1, <4>2
    <3> QED
      BY <3>1, <3>2
  <2>9. ClockRight(c, stored')
    BY <1>1, <2>7, <2>8 DEF ClockRight
  <2>10. Owes(c, stored', owed)
    BY <1>3, <2>7, <2>8 DEF Owes
  <2> QED
    BY <1>1, <2>3, <2>7, <2>9, <2>10, StartKeeps
<1> QED
  BY <1>2, <1>3

--------------------------------------------------------------------------------

\* A step that only changes what is shown keeps all the rest.
Shown ==
    /\ HasChapter(ui'.session) => ui'.session = ui.session
    /\ phase' \in {"lifecycle", "report", "load", "input"}
    /\ events' \in 0..MaxEvents
    /\ UNCHANGED <<clock, loop, enabled, inflight, powerd, positions, stored, owed, read,
                   reported, time>>

LEMMA ShownKeeps ==
    ASSUME Right, ScreenRight(ui'), Shown
    PROVE  Right'
<1>1. Screen'
  BY DEF Right, Screen, Shown, Kept, HasChapter, PositionOf
<1>2. Seconds'
  BY DEF Right, Seconds, Shown, ClockRight, Owes, UploadRight
<1>3. Rest'
  BY DEF Right, Rest, Shown
<1> QED
  BY <1>1, <1>2, <1>3 DEF Right

\* What the user does ends the frame; a load ends in waiting for the user.
LEMMA EventShows ==
    ASSUME Right, Event, NEW u, Shows(u), ScreenRight(u),
           HasChapter(u.session) => u.session = ui.session
    PROVE  Right'
<1>1. events' \in 0..MaxEvents
  BY LimitsAssumption DEF Event, Right, Rest
<1>2. Shown
  BY <1>1 DEF Shown, Shows, Event
<1> QED
  BY <1>2, ShownKeeps DEF Shows

LEMMA LoadShows ==
    ASSUME Right, NEW u, Load(u), OnlyUi, ScreenRight(u),
           HasChapter(u.session) => u.session = ui.session
    PROVE  Right'
<1>1. Shown
  BY DEF Shown, Load, OnlyUi, Right, Rest
<1> QED
  BY <1>1, ShownKeeps DEF Load

\* A chapter that is queued leaves the session where it is until it is open.
LEMMA QueueRight ==
    ASSUME NEW u, ScreenRight(u), u.session # NoSession, NEW action \in Action
    PROVE  ScreenRight(Queue(u, action)) /\ Queue(u, action).session = u.session
<1>1. PICK m : m = Queue(u, action)
  OBVIOUS
<1>2. u \in Ui /\ u.session \in Session
  BY DEF ScreenRight, Ui
<1>3. /\ m \in Ui /\ m.screen = "loading" /\ m.book = u.book /\ m.session = u.session
      /\ m.pending = action /\ m.step = "chapter"
  BY <1>1, <1>2 DEF Queue, Ui, Screens
<1>4. m.book \in Books /\ action # NoAction
  BY <1>2, <1>3, NilAssumption DEF ScreenRight, Session
<1>5. ScreenRight(m)
  BY <1>3, <1>4 DEF ScreenRight
<1> QED
  BY <1>1, <1>3, <1>5

\* A page of the chapter can be reopened in another layout.
LEMMA PositionIs ==
    ASSUME NEW s \in Session, s.chapter # 0
    PROVE  PositionOf(s) \in Position /\ s.chapter \in Chapters
<1>1. s.chapter \in Chapters
  BY SizesAssumption DEF Session, Chapters
<1> QED
  BY <1>1 DEF Session, PositionOf, Position

LEMMA OpensIs ==
    ASSUME NEW chapter \in Chapters, NEW mode \in {"first", "last", "resume"},
           NEW saved \in Position \union {NoPosition}
    PROVE  Opens(chapter, mode, saved) \in Action
BY DEF Opens, Action

\* What reads has a session with a chapter.
LEMMA ReadsAChapter ==
    ASSUME Right, ui.screen \in {"reader", "menu"}
    PROVE  /\ ui \in Ui /\ ui.session \in Session /\ ui.session # NoSession
           /\ ui.session.chapter \in Chapters /\ PositionOf(ui.session) \in Position
           /\ ui.session.book = ui.book /\ ui.book \in Books
           /\ ui.session.page \in Pages /\ ui.session.count \in Pages
           /\ ui.session.page <= ui.session.count
<1>1. ScreenRight(ui)
  BY DEF Right, Screen
<1>2. ui \in Ui /\ HasChapter(ui.session)
  BY <1>1 DEF ScreenRight
<1>3. ui.session \in Session /\ ui.session.chapter # 0 /\ ui.session # NoSession
  BY <1>2 DEF HasChapter, Ui
<1>4. ui.session.book = ui.book /\ ui.session.page <= ui.session.count
  BY <1>1, <1>3 DEF ScreenRight
<1>5. /\ ui.session.book \in Books /\ ui.session.page \in Pages /\ ui.session.count \in Pages
  BY <1>3 DEF Session
<1> QED
  BY <1>2, <1>3, <1>4, <1>5, PositionIs

--------------------------------------------------------------------------------
(* The actions that only change what is shown. *)

LEMMA OpenDetailKeeps ==
    ASSUME Right, OpenDetail
    PROVE  Right'
<1>1. PICK b \in Books :
        Shows([ui EXCEPT !.screen = "detail", !.book = b, !.session = NoSession,
                         !.pending = NoAction])
  BY DEF OpenDetail
<1>2. PICK m : m = [ui EXCEPT !.screen = "detail", !.book = b, !.session = NoSession,
                              !.pending = NoAction]
  OBVIOUS
<1>3. ui \in Ui
  BY DEF Right, Screen, ScreenRight
<1>4. /\ m \in Ui /\ m.screen = "detail" /\ m.book = b /\ m.session = NoSession
      /\ m.pending = NoAction
  BY <1>2, <1>3 DEF Ui, Screens
<1>5. ScreenRight(m) /\ ~HasChapter(m.session)
  BY <1>4 DEF ScreenRight, HasChapter
<1> QED
  BY <1>1, <1>2, <1>5, EventShows DEF OpenDetail

LEMMA BeginReadingKeeps ==
    ASSUME Right, BeginReading
    PROVE  Right'
<1>1. PICK b \in Books :
        Shows([ui EXCEPT !.screen = "loading", !.book = b, !.session = NoSession,
                         !.pending = NoAction, !.step = "catalog"])
  BY DEF BeginReading
<1>2. PICK m : m = [ui EXCEPT !.screen = "loading", !.book = b, !.session = NoSession,
                              !.pending = NoAction, !.step = "catalog"]
  OBVIOUS
<1>3. ui \in Ui
  BY DEF Right, Screen, ScreenRight
<1>4. /\ m \in Ui /\ m.screen = "loading" /\ m.book = b /\ m.session = NoSession
      /\ m.pending = NoAction /\ m.step = "catalog"
  BY <1>2, <1>3 DEF Ui, Screens
<1>5. ScreenRight(m) /\ ~HasChapter(m.session)
  BY <1>4 DEF ScreenRight, HasChapter
<1> QED
  BY <1>1, <1>2, <1>5, EventShows DEF BeginReading

LEMMA RetryKeeps ==
    ASSUME Right, Retry
    PROVE  Right'
<1>1. ScreenRight(ui) /\ ui.pending # NoAction /\ Shows(Queue(ui, ui.pending))
  BY DEF Right, Screen, Retry
<1>2. ui.session # NoSession /\ ui.pending \in Action
  BY <1>1 DEF ScreenRight, Ui
<1>3. PICK m : m = Queue(ui, ui.pending)
  OBVIOUS
<1>4. ScreenRight(m) /\ m.session = ui.session
  BY <1>1, <1>2, <1>3, QueueRight
<1> QED
  BY <1>1, <1>3, <1>4, EventShows DEF Retry

\* A screen that needs nothing of the session but what the one before it had.
LEMMA ScreenOnly ==
    ASSUME NEW u, ScreenRight(u), NEW screen \in Screens \ {"detail", "loading"},
           screen \in {"reader", "menu"} => HasChapter(u.session)
    PROVE  /\ ScreenRight([u EXCEPT !.screen = screen])
           /\ [u EXCEPT !.screen = screen].session = u.session
<1>1. PICK m : m = [u EXCEPT !.screen = screen]
  OBVIOUS
<1>2. u \in Ui
  BY DEF ScreenRight
<1>3. /\ m \in Ui /\ m.screen = screen /\ m.book = u.book /\ m.session = u.session
      /\ m.pending = u.pending /\ m.step = u.step
  BY <1>1, <1>2 DEF Ui, Screens
<1>4. screen # "detail" /\ screen # "loading"
  OBVIOUS
<1>5. ScreenRight(m)
  BY <1>3, <1>4 DEF ScreenRight
<1> QED
  BY <1>1, <1>3, <1>5

LEMMA ScreenOnlyKeeps ==
    ASSUME Right, Event, NEW screen \in Screens \ {"detail", "loading"},
           screen \in {"reader", "menu"} => HasChapter(ui.session),
           Shows([ui EXCEPT !.screen = screen])
    PROVE  Right'
<1>1. PICK m : m = [ui EXCEPT !.screen = screen]
  OBVIOUS
<1>2. ScreenRight(m) /\ m.session = ui.session
  BY <1>1, ScreenOnly DEF Right, Screen
<1> QED
  BY <1>1, <1>2, EventShows

LEMMA ReturnFromErrorKeeps ==
    ASSUME Right, ReturnFromError
    PROVE  Right'
<1>1. PICK m : m = [ui EXCEPT !.pending = NoAction, !.screen = "reader"]
  OBVIOUS
<1>2. ScreenRight(ui) /\ ui \in Ui /\ HasChapter(ui.session)
  BY DEF Right, Screen, ScreenRight, ReturnFromError
<1>3. /\ m \in Ui /\ m.screen = "reader" /\ m.book = ui.book /\ m.session = ui.session
      /\ m.pending = NoAction
  BY <1>1, <1>2 DEF Ui, Screens
<1>4. ScreenRight(m)
  BY <1>2, <1>3 DEF ScreenRight
<1> QED
  BY <1>1, <1>3, <1>4, EventShows DEF ReturnFromError

\* A failed load stays on the same session.
LEMMA LoadFailsKeeps ==
    ASSUME Right, LoadFails
    PROVE  Right'
<1>1. PICK t : t = CASE ui.step = "chapter" -> "render" [] ui.step = "render" -> "done"
                     [] OTHER -> ui.step
  OBVIOUS
<1>2. ScreenRight(ui) /\ ui \in Ui
  BY DEF Right, Screen, ScreenRight
<1>3. t \in {"catalog", "chapter", "render", "done"}
  BY <1>1, <1>2 DEF Ui
<1>4. PICK m : m = [ui EXCEPT !.screen = "error", !.step = t]
  OBVIOUS
<1>5. /\ m \in Ui /\ m.screen = "error" /\ m.book = ui.book /\ m.session = ui.session
      /\ m.pending = ui.pending
  BY <1>2, <1>3, <1>4 DEF Ui, Screens
<1>6. ScreenRight(m)
  BY <1>2, <1>5 DEF ScreenRight
<1>7. Load(m) /\ OnlyUi
  BY <1>1, <1>4 DEF LoadFails
<1> QED
  BY <1>5, <1>6, <1>7, LoadShows

LEMMA LoadChapterKeeps ==
    ASSUME Right, LoadChapter
    PROVE  Right'
<1>1. PICK m : m = [ui EXCEPT !.step = "render"]
  OBVIOUS
<1>2. ScreenRight(ui) /\ ui \in Ui /\ ui.step = "chapter"
  BY DEF Right, Screen, ScreenRight, LoadChapter
<1>3. /\ m \in Ui /\ m.screen = ui.screen /\ m.book = ui.book /\ m.session = ui.session
      /\ m.pending = ui.pending
  BY <1>1, <1>2 DEF Ui
<1>4. ScreenRight(m)
  BY <1>2, <1>3 DEF ScreenRight
<1> QED
  BY <1>1, <1>3, <1>4, LoadShows DEF LoadChapter

\* begin opens the session of the book that is loading, at the saved chapter.
LEMMA LoadCatalogKeeps ==
    ASSUME Right, LoadCatalog
    PROVE  Right'
<1>1. PICK s : s = Begun(ui.book).session
  OBVIOUS
<1>2. PICK a : a = Begun(ui.book).action
  OBVIOUS
<1>3. PICK m : m = [ui EXCEPT !.session = s, !.pending = a, !.step = "chapter"]
  OBVIOUS
<1>4. /\ ScreenRight(ui) /\ ui \in Ui /\ ui.screen = "loading"
      /\ positions \in [Books -> Position \union {NoPosition}]
  BY DEF Right, Screen, ScreenRight, LoadCatalog, Load
<1>5. ui.book \in Books
  BY <1>4 DEF ScreenRight
<1>6. /\ s \in Session /\ s.chapter = 0 /\ s.book = ui.book /\ s.page <= s.count
  BY <1>1, <1>5, SizesAssumption DEF Begun, Session, Pages
<1>7. a \in Action
  <2>1. PICK saved \in Position \union {NoPosition} : saved = positions[ui.book]
    BY <1>4, <1>5
  <2>2. PICK chapter : chapter = IF saved = NoPosition THEN 1 ELSE saved.chapter
    OBVIOUS
  <2>3. chapter \in Chapters
    BY <2>2, SizesAssumption DEF Position, Chapters
  <2> QED
    BY <1>2, <2>1, <2>2, <2>3, OpensIs DEF Begun
<1>8. /\ m \in Ui /\ m.screen = "loading" /\ m.book = ui.book /\ m.session = s
      /\ m.pending = a /\ m.step = "chapter"
  BY <1>3, <1>4, <1>6, <1>7 DEF Ui
<1>9. s # NoSession /\ a # NoAction
  BY <1>6, <1>7, NilAssumption
<1>10. ScreenRight(m) /\ ~HasChapter(m.session)
  BY <1>5, <1>6, <1>8, <1>9 DEF ScreenRight, HasChapter
<1> QED
  BY <1>1, <1>2, <1>3, <1>10, LoadShows DEF LoadCatalog

LEMMA NothingShownKeeps ==
    ASSUME Right, NothingToLoad \/ EndFrame
    PROVE  Right'
<1>1. Shown /\ ui' = ui
  BY DEF Shown, NothingToLoad, EndFrame, OnlyUi, Right, Rest
<1> QED
  BY <1>1, ShownKeeps DEF Right, Screen

--------------------------------------------------------------------------------
(* Turning pages and opening chapters. *)

LEMMA InsideIsAPage ==
    ASSUME NEW count \in Pages, NEW page \in 1..count
    PROVE  page \in Pages /\ page <= count
BY SizesAssumption DEF Pages

\* The page turned to is stored in the same step.
LEMMA TurnsKeep ==
    ASSUME Right, Event, ui.screen \in {"reader", "menu"}, NEW page \in 1..ui.session.count,
           TurnsTo(page)
    PROVE  Right'
<1>1. PICK s : s = [ui.session EXCEPT !.page = page]
  OBVIOUS
<1>2. PICK m : m = [ui EXCEPT !.session = s, !.screen = "reader"]
  OBVIOUS
<1>3. /\ ui \in Ui /\ ui.session \in Session /\ ui.session.chapter \in Chapters
      /\ ui.session.book = ui.book /\ ui.book \in Books /\ ui.session.count \in Pages
  BY ReadsAChapter
<1>4. page \in Pages /\ page <= ui.session.count
  BY <1>3, InsideIsAPage
<1>5. /\ s \in Session /\ s.book = ui.book /\ s.chapter = ui.session.chapter
      /\ s.page = page /\ s.count = ui.session.count
  BY <1>1, <1>3, <1>4 DEF Session
<1>6. s # NoSession /\ HasChapter(s) /\ PositionOf(s) \in Position
  BY <1>3, <1>5, NilAssumption, PositionIs DEF HasChapter, Chapters
<1>7. /\ m \in Ui /\ m.screen = "reader" /\ m.book = ui.book /\ m.session = s
      /\ m.pending = ui.pending
  BY <1>2, <1>3, <1>5 DEF Ui, Screens
<1>8. ScreenRight(m)
  BY <1>3, <1>4, <1>5, <1>6, <1>7 DEF ScreenRight
<1>9. ui' = m /\ positions' = [positions EXCEPT ![s.book] = PositionOf(s)]
  BY <1>1, <1>2 DEF TurnsTo, Persisted
<1>10. positions \in [Books -> Position \union {NoPosition}]
  BY DEF Right, Screen
<1>11. Screen'
  BY <1>3, <1>5, <1>6, <1>7, <1>8, <1>9, <1>10 DEF Screen, Kept
<1>12. Seconds'
  BY DEF Right, Seconds, TurnsTo, Event, ClockRight, Owes, UploadRight
<1>13. Rest'
  BY LimitsAssumption DEF Right, Rest, TurnsTo, Event
<1> QED
  BY <1>11, <1>12, <1>13 DEF Right

\* A chapter queued by the user.
LEMMA QueueKeeps ==
    ASSUME Right, Event, ui.screen \in {"reader", "menu"}, NEW action \in Action,
           Shows(Queue(ui, action))
    PROVE  Right'
<1>1. PICK m : m = Queue(ui, action)
  OBVIOUS
<1>2. ScreenRight(m) /\ m.session = ui.session
  BY <1>1, QueueRight, ReadsAChapter DEF Right, Screen
<1> QED
  BY <1>1, <1>2, EventShows

LEMMA NextPageKeeps ==
    ASSUME Right, NextPage
    PROVE  Right'
<1>1. /\ Event /\ ui.screen = "reader" /\ ui.session.chapter \in Chapters
      /\ ui.session.page \in Pages /\ ui.session.count \in Pages /\ HasChapter(ui.session)
  BY ReadsAChapter DEF NextPage, HasChapter, Chapters
<1>2. CASE ui.session.page < ui.session.count
  <2>1. ui.session.page + 1 \in 1..ui.session.count
    BY <1>1, <1>2 DEF Pages
  <2> QED
    BY <1>1, <1>2, <2>1, TurnsKeep DEF NextPage
<1>3. CASE ~(ui.session.page < ui.session.count) /\ ui.session.chapter < LastChapter
  <2>1. ui.session.chapter + 1 \in Chapters
    BY <1>1, <1>3, SizesAssumption DEF Chapters
  <2>2. PICK a \in Action : a = Opens(ui.session.chapter + 1, "first", NoPosition)
    BY <2>1, OpensIs
  <2> QED
    BY <1>1, <1>3, <2>2, QueueKeeps DEF NextPage
<1>4. CASE ~(ui.session.page < ui.session.count) /\ ~(ui.session.chapter < LastChapter)
  <2>1. Shows([ui EXCEPT !.screen = "menu"])
    BY <1>4 DEF NextPage
  <2> QED
    BY <1>1, <2>1, ScreenOnlyKeeps DEF Screens
<1> QED
  BY <1>2, <1>3, <1>4

LEMMA PreviousPageKeeps ==
    ASSUME Right, PreviousPage
    PROVE  Right'
<1>1. /\ Event /\ ui.screen = "reader" /\ ui.session.chapter \in Chapters
      /\ ui.session.page \in Pages /\ ui.session.count \in Pages /\ HasChapter(ui.session)
      /\ ui.session.page <= ui.session.count
  BY ReadsAChapter DEF PreviousPage, HasChapter, Chapters
<1>2. CASE ui.session.page > 1
  <2>1. ui.session.page - 1 \in 1..ui.session.count
    BY <1>1, <1>2 DEF Pages
  <2> QED
    BY <1>1, <1>2, <2>1, TurnsKeep DEF PreviousPage
<1>3. CASE ~(ui.session.page > 1) /\ ui.session.chapter > 1
  <2>1. ui.session.chapter - 1 \in Chapters
    BY <1>1, <1>3, SizesAssumption DEF Chapters
  <2>2. PICK a \in Action : a = Opens(ui.session.chapter - 1, "last", NoPosition)
    BY <2>1, OpensIs
  <2> QED
    BY <1>1, <1>3, <2>2, QueueKeeps DEF PreviousPage
<1>4. CASE ~(ui.session.page > 1) /\ ~(ui.session.chapter > 1)
  <2>1. Shows([ui EXCEPT !.screen = "menu"])
    BY <1>4 DEF PreviousPage
  <2> QED
    BY <1>1, <2>1, ScreenOnlyKeeps DEF Screens
<1> QED
  BY <1>2, <1>3, <1>4

LEMMA JumpKeeps ==
    ASSUME Right, Jump
    PROVE  Right'
<1>1. Event /\ ui.screen = "menu" /\ 1 \in 1..ui.session.count
  BY ReadsAChapter DEF Jump, Pages
<1>2. PICK c \in Chapters : IF c = ui.session.chapter THEN TurnsTo(1)
                            ELSE Shows(Queue(ui, Opens(c, "first", NoPosition)))
  BY DEF Jump
<1>3. CASE c = ui.session.chapter
  BY <1>1, <1>2, <1>3, TurnsKeep
<1>4. CASE c # ui.session.chapter
  <2>1. PICK a \in Action : a = Opens(c, "first", NoPosition)
    BY OpensIs
  <2> QED
    BY <1>1, <1>2, <1>4, <2>1, QueueKeeps
<1> QED
  BY <1>3, <1>4

LEMMA RelayoutKeeps ==
    ASSUME Right, Relayout
    PROVE  Right'
<1>1. /\ Event /\ ui.screen = "menu"
      /\ ui.session.chapter \in Chapters /\ PositionOf(ui.session) \in Position
  BY ReadsAChapter DEF Relayout
<1>2. PICK a \in Action : a = Opens(ui.session.chapter, "resume", PositionOf(ui.session))
  BY <1>1, OpensIs
<1> QED
  BY <1>1, <1>2, QueueKeeps DEF Relayout

\* complete_open shows a page of the chapter, stores it and starts the clock.
LEMMA LoadRenderKeeps ==
    ASSUME Right, LoadRender
    PROVE  Right'
<1>1. PICK count \in Pages :
        LET s == Completed(ui.session, ui.pending, count) IN
        /\ Load([ui EXCEPT !.step = "done", !.session = s, !.pending = NoAction,
                           !.screen = "reader"])
        /\ positions' = Persisted(s)
        /\ Enter(clock, ui.book)
  BY DEF LoadRender
<1>2. PICK s : s = Completed(ui.session, ui.pending, count)
  OBVIOUS
<1>3. PICK page : page = RestoredPage(ui.pending, count)
  OBVIOUS
<1>4. PICK m : m = [ui EXCEPT !.step = "done", !.session = s, !.pending = NoAction,
                              !.screen = "reader"]
  OBVIOUS
<1>5. /\ ScreenRight(ui) /\ ui \in Ui /\ ui.screen = "loading" /\ ui.step = "render"
      /\ positions \in [Books -> Position \union {NoPosition}]
      /\ ClockRight(clock, stored) /\ Owes(clock, stored, owed)
  BY <1>1 DEF Right, Screen, Seconds, ScreenRight, LoadRender, Load
<1>6. ui.pending # NoAction /\ ui.session # NoSession /\ ui.book \in Books
  BY <1>5 DEF ScreenRight
<1>7. ui.pending \in Action /\ ui.session \in Session /\ ui.session.book = ui.book
  BY <1>5, <1>6 DEF ScreenRight, Ui
<1>8. page \in 1..count
  BY <1>3, <1>7, RestoredInside
<1>9. page \in Pages /\ page <= count /\ ui.pending.chapter \in Chapters
  <2>1. page \in Pages /\ page <= count
    BY <1>8, InsideIsAPage
  <2>2. ui.pending.chapter \in Chapters
    BY <1>7 DEF Action
  <2> QED
    BY <2>1, <2>2
<1>10. PICK chapter \in Chapters : chapter = ui.pending.chapter
  BY <1>9
<1>11. s = [ui.session EXCEPT !.chapter = chapter, !.count = count, !.page = page]
  BY <1>2, <1>3, <1>10 DEF Completed
<1>12. /\ s \in Session /\ s.book = ui.book /\ s.chapter = chapter /\ s.page = page
       /\ s.count = count
  <2>1. PICK k \in Session : k = ui.session /\ k.book = ui.book
    BY <1>7
  <2>2. s = [k EXCEPT !.chapter = chapter, !.count = count, !.page = page]
    BY <1>11, <2>1
  <2>3. chapter \in 0..LastChapter
    BY <1>10, SizesAssumption DEF Chapters
  <2>4. /\ s \in Session /\ s.book = k.book /\ s.chapter = chapter /\ s.page = page
        /\ s.count = count
    BY <1>9, <2>2, <2>3 DEF Session
  <2> QED
    BY <2>1, <2>4
<1>13. s # NoSession /\ HasChapter(s) /\ PositionOf(s) \in Position
  BY <1>12, NilAssumption, PositionIs DEF HasChapter, Chapters
<1>14. /\ m \in Ui /\ m.screen = "reader" /\ m.book = ui.book /\ m.session = s
       /\ m.pending = NoAction
  BY <1>4, <1>5, <1>12 DEF Ui, Screens
<1>15. ScreenRight(m)
  BY <1>9, <1>12, <1>13, <1>14 DEF ScreenRight
<1>16. /\ ui' = m /\ phase' = "input"
       /\ positions' = [positions EXCEPT ![s.book] = PositionOf(s)]
  BY <1>1, <1>2, <1>4 DEF Load, Persisted
<1>17. Screen'
  BY <1>5, <1>6, <1>12, <1>13, <1>14, <1>15, <1>16 DEF Screen, Kept
<1>18. ClockRight(clock', stored') /\ Owes(clock', stored', owed')
  BY <1>1, <1>5, <1>6, EnterKeeps DEF LoadRender
<1>19. Seconds'
  BY <1>16, <1>18 DEF Seconds, UploadRight
<1>20. Rest'
  BY <1>16 DEF Right, Rest, LoadRender
<1> QED
  BY <1>17, <1>19, <1>20 DEF Right

--------------------------------------------------------------------------------
(* The clock: the ticks of the frame, the passing of time and the restarts. *)

\* What these actions leave alone of the screen.
LEMMA ScreenStays ==
    ASSUME Right, ui' = ui, positions' = positions
    PROVE  Screen'
BY DEF Right, Screen, Kept, ScreenRight, HasChapter, PositionOf

\* The seconds of a long gap are given up, and nothing else is.
LEMMA ForgetKeeps ==
    ASSUME ClockRight(clock, stored), Owes(clock, stored, owed), NEW gap \in BOOLEAN,
           NEW c, c = IF gap THEN [clock EXCEPT !.running = 0] ELSE clock,
           NEW given, given = IF gap THEN clock.running ELSE 0,
           NEW ow, ow = IF clock.book = NoBook THEN owed
                        ELSE [owed EXCEPT ![clock.book] = @ - given]
    PROVE  ClockRight(c, stored) /\ Owes(c, stored, ow)
<1>1. /\ clock \in Clock /\ stored \in [Books -> Nat] /\ owed \in [Books -> Nat]
      /\ clock.running \in Nat /\ clock.pending \in Nat
      /\ clock.book \in Books \union {NoBook} /\ NoBook \notin Books
  BY NilAssumption DEF ClockRight, Owes, Clock
<1>2. CASE ~gap
  <2>1. c = clock /\ given = 0
    BY <1>2
  <2>2. ow = owed
    <3>1. CASE clock.book = NoBook
      BY <3>1
    <3>2. CASE clock.book # NoBook
      <4>1. clock.book \in Books /\ owed[clock.book] \in Nat
        BY <1>1, <3>2
      <4> QED
        BY <1>1, <2>1, <3>2, <4>1
    <3> QED
      BY <3>1, <3>2
  <2> QED
    BY <2>1, <2>2
<1>3. CASE gap
  <2>1. c = [clock EXCEPT !.running = 0] /\ given = clock.running
    BY <1>3
  <2>2. /\ c \in Clock /\ c.book = clock.book /\ c.active = clock.active /\ c.running = 0
        /\ c.pending = clock.pending
    BY <1>1, <2>1 DEF Clock
  <2>3. ClockRight(c, stored)
    BY <2>2 DEF ClockRight
  <2>4. CASE clock.book = NoBook
    <3>1. ow = owed /\ \A b \in Books : c.book # b /\ clock.book # b
      BY <1>1, <2>2, <2>4
    <3> QED
      BY <2>3, <3>1 DEF Owes
  <2>5. CASE clock.book # NoBook
    <3>1. clock.book \in Books /\ owed[clock.book] = clock.pending + clock.running
      BY <1>1, <2>5 DEF Owes
    <3>2. owed[clock.book] - given = clock.pending
      BY <1>1, <2>1, <3>1
    <3>3. ow = [owed EXCEPT ![clock.book] = clock.pending]
      BY <2>5, <3>2
    <3>4. /\ ow \in [Books -> Nat] /\ ow[clock.book] = c.pending + c.running
          /\ \A b \in Books : b # clock.book => ow[b] = owed[b]
      BY <1>1, <2>2, <3>1, <3>3
    <3>5. Owes(c, stored, ow)
      BY <2>2, <3>4 DEF Owes
    <3> QED
      BY <2>3, <3>5
  <2> QED
    BY <2>4, <2>5
<1> QED
  BY <1>2, <1>3

LEMMA LifecycleTickKeeps ==
    ASSUME Right, LifecycleTick
    PROVE  Right'
<1>1. PICK gap \in BOOLEAN : gap <=> loop.since > GapLimit
  OBVIOUS
<1>2. PICK c : c = IF gap THEN [clock EXCEPT !.running = 0] ELSE clock
  OBVIOUS
<1>3. PICK given : given = IF gap THEN clock.running ELSE 0
  OBVIOUS
<1>4. PICK seen \in {loop.power, powerd} :
        /\ loop' = [loop EXCEPT !.since = 0, !.power = seen]
        /\ LET goes == seen = "suspended" /\ loop.power # "suspended"
               comes == seen = "active" /\ loop.power = "suspended"
           IN  /\ clock' = IF goes THEN Suspended(c) ELSE IF comes THEN Resumed(c) ELSE c
               /\ stored' = IF goes /\ c.active THEN StoredWith(Accrued(c)) ELSE stored
  BY <1>1, <1>2 DEF LifecycleTick
<1>5. /\ owed' = IF clock.book = NoBook THEN owed ELSE [owed EXCEPT ![clock.book] = @ - given]
      /\ phase' = "report"
  BY <1>1, <1>3 DEF LifecycleTick
<1>6. ClockRight(clock, stored) /\ Owes(clock, stored, owed)
  BY DEF Right, Seconds
<1>7. ClockRight(c, stored) /\ Owes(c, stored, owed')
  BY <1>2, <1>3, <1>5, <1>6, ForgetKeeps
<1>8. ClockRight(clock', stored') /\ Owes(clock', stored', owed')
  <2>1. CASE seen = "suspended" /\ loop.power # "suspended"
    <3>1. clock' = Suspended(c)
          /\ stored' = IF c.active THEN StoredWith(Accrued(c)) ELSE stored
      BY <1>4, <2>1
    <3> QED
      BY <1>7, <3>1, SuspendKeeps
  <2>2. CASE seen = "active" /\ loop.power = "suspended"
    <3>1. clock' = (IF c.book = NoBook THEN c ELSE Started(c)) /\ stored' = stored
      BY <1>4, <2>2 DEF Resumed
    <3> QED
      BY <1>7, <3>1, StartKeeps
  <2>3. CASE ~(seen = "suspended" /\ loop.power # "suspended")
             /\ ~(seen = "active" /\ loop.power = "suspended")
    <3>1. clock' = c /\ stored' = stored
      BY <1>4, <2>3
    <3> QED
      BY <1>7, <3>1
  <2> QED
    BY <2>1, <2>2, <2>3
<1>9. Seconds'
  BY <1>5, <1>8 DEF Seconds, UploadRight
<1>10. Screen'
  BY ScreenStays DEF LifecycleTick
<1>11. loop' \in [since : 0..GapLimit + 1, wait : 0..AfterFailure,
                  power : {"unknown", "active", "suspended"}]
  <2>1. 0 \in 0..GapLimit + 1
    BY LimitsAssumption
  <2>2. seen \in {"unknown", "active", "suspended"}
    BY DEF Right, Rest
  <2> QED
    BY <1>4, <2>1, <2>2 DEF Right, Rest
<1>12. Rest'
  BY <1>5, <1>11 DEF Right, Rest, LifecycleTick
<1> QED
  BY <1>9, <1>10, <1>12 DEF Right

LEMMA ReportTickKeeps ==
    ASSUME Right, ReportTick
    PROVE  Right'
<1>1. /\ ClockRight(clock, stored) /\ Owes(clock, stored, owed)
      /\ loop \in [since : 0..GapLimit + 1, wait : 0..AfterFailure,
                   power : {"unknown", "active", "suspended"}]
  BY DEF Right, Seconds, Rest
<1>2. Screen'
  BY ScreenStays DEF ReportTick
<1>3. CASE ~Due
  <2>1. phase' = "load" /\ UNCHANGED <<clock, stored, inflight, loop, owed>>
    BY <1>3 DEF ReportTick
  <2>2. Seconds'
    BY <1>1, <2>1 DEF Seconds, UploadRight
  <2>3. Rest'
    BY <2>1 DEF Right, Rest, ReportTick
  <2> QED
    BY <1>2, <2>2, <2>3 DEF Right
<1>4. CASE Due
  <2>1. PICK c : c = Accrued(clock)
    OBVIOUS
  <2>2. /\ clock.active /\ ui.session # NoSession
        /\ clock' = c /\ stored' = StoredWith(c) /\ owed' = owed /\ ui' = ui
    BY <1>4, <2>1 DEF Due, ReportTick
  <2>3. ClockRight(clock', stored') /\ Owes(clock', stored', owed')
    BY <1>1, <2>1, <2>2, CheckpointKeeps
  <2>4. clock \in Clock
    BY <1>1 DEF ClockRight
  <2>5. c \in Clock /\ c.active = clock.active
    BY <2>1, <2>4, AccruedIs
  <2>6. c.pending \in Nat
    BY <2>5 DEF Clock
  <2>7. CASE c.pending < MinReport
    <3>1. phase' = "load" /\ UNCHANGED <<inflight, loop>>
      BY <1>4, <2>1, <2>7 DEF ReportTick
    <3>2. Seconds'
      BY <2>3, <3>1 DEF Seconds, UploadRight
    <3>3. Rest'
      BY <3>1 DEF Right, Rest, ReportTick
    <3> QED
      BY <1>2, <3>2, <3>3 DEF Right
  <2>8. CASE ~(c.pending < MinReport)
    <3>1. /\ phase' = "upload" /\ inflight' = c.pending
          /\ loop' = [loop EXCEPT !.wait = AfterFailure]
      BY <1>4, <2>1, <2>8 DEF ReportTick
    <3>2. Seconds'
      BY <2>2, <2>3, <2>5, <2>6, <3>1 DEF Seconds, UploadRight
    <3>3. AfterFailure \in 0..AfterFailure
      BY LimitsAssumption
    <3>4. loop' \in [since : 0..GapLimit + 1, wait : 0..AfterFailure,
                     power : {"unknown", "active", "suspended"}]
      BY <1>1, <3>1, <3>3
    <3>5. Rest'
      BY <2>6, <3>1, <3>4 DEF Right, Rest, ReportTick
    <3> QED
      BY <1>2, <3>2, <3>5 DEF Right
  <2> QED
    BY <2>7, <2>8
<1> QED
  BY <1>3, <1>4

LEMMA ReportAcceptedKeeps ==
    ASSUME Right, ReportAccepted
    PROVE  Right'
<1>1. /\ ClockRight(clock, stored) /\ Owes(clock, stored, owed)
      /\ phase = "upload" /\ UploadRight /\ inflight \in Nat
      /\ loop \in [since : 0..GapLimit + 1, wait : 0..AfterFailure,
                   power : {"unknown", "active", "suspended"}]
      /\ ScreenRight(ui) /\ reported \in [Books -> Nat]
  BY DEF Right, Seconds, Rest, Screen, ReportAccepted
<1>2. clock.active /\ inflight <= clock.pending /\ ui.session # NoSession
  BY <1>1 DEF UploadRight
<1>3. ui.book \in Books
  BY <1>1, <1>2 DEF ScreenRight, Ui, Session
<1>4. PICK c : c = [Accrued(clock) EXCEPT !.pending = Minus(@, inflight)]
  OBVIOUS
<1>5. /\ clock' = c /\ stored' = StoredWith(c) /\ phase' = "load" /\ inflight' = 0
      /\ owed' = [owed EXCEPT ![clock.book] = @ - inflight]
      /\ reported' = [reported EXCEPT ![ui.book] = @ + inflight]
      /\ loop' = [loop EXCEPT !.wait = Minus(@, AfterFailure - AfterSuccess)]
  BY <1>4 DEF ReportAccepted
<1>6. ClockRight(clock', stored') /\ Owes(clock', stored', owed')
  BY <1>1, <1>2, <1>4, <1>5, AcknowledgeKeeps
<1>7. Seconds'
  BY <1>5, <1>6 DEF Seconds, UploadRight
<1>8. Screen'
  BY ScreenStays DEF ReportAccepted
<1>9. PICK wait \in 0..AfterFailure : wait = Minus(loop.wait, AfterFailure - AfterSuccess)
  <2>1. loop.wait \in 0..AfterFailure
    BY <1>1
  <2> QED
    BY <2>1, LimitsAssumption DEF Minus
<1>10. loop' = [loop EXCEPT !.wait = wait]
  BY <1>5, <1>9
<1>11. loop' \in [since : 0..GapLimit + 1, wait : 0..AfterFailure,
                  power : {"unknown", "active", "suspended"}]
  BY <1>1, <1>9, <1>10
<1>12. reported' \in [Books -> Nat]
  <2>1. reported[ui.book] + inflight \in Nat
    BY <1>1, <1>3
  <2> QED
    BY <1>1, <1>3, <1>5, <2>1
<1>13. Rest'
  BY <1>5, <1>11, <1>12 DEF Right, Rest, ReportAccepted
<1> QED
  BY <1>7, <1>8, <1>13 DEF Right

LEMMA ReportFailedKeeps ==
    ASSUME Right, ReportFailed
    PROVE  Right'
<1>1. Screen'
  BY ScreenStays DEF ReportFailed
<1>2. Seconds'
  BY DEF Right, Seconds, ReportFailed, UploadRight
<1>3. Rest'
  BY DEF Right, Rest, ReportFailed
<1> QED
  BY <1>1, <1>2, <1>3 DEF Right

LEMMA TimePassesKeeps ==
    ASSUME Right, TimePasses
    PROVE  Right'
<1>1. /\ ClockRight(clock, stored) /\ Owes(clock, stored, owed)
      /\ clock \in Clock /\ clock.running \in Nat
      /\ loop \in [since : 0..GapLimit + 1, wait : 0..AfterFailure,
                   power : {"unknown", "active", "suspended"}]
      /\ read \in [Books -> Nat] /\ time \in 0..MaxTime
  BY DEF Right, Seconds, Rest, ClockRight, Clock
<1>2. Screen'
  BY ScreenStays DEF TimePasses
<1>3. stored' = stored /\ phase' = phase /\ inflight' = inflight /\ ui' = ui
  BY DEF TimePasses
<1>4. Seconds'
  <2>1. CASE ~clock.active
    <3>1. clock' = clock /\ owed' = owed
      BY <2>1 DEF TimePasses
    <3> QED
      BY <1>3, <3>1 DEF Right, Seconds, ClockRight, Owes, UploadRight
  <2>2. CASE clock.active
    <3>1. PICK d : d = [clock EXCEPT !.running = clock.running + 1]
      OBVIOUS
    <3>2. clock' = d /\ owed' = [owed EXCEPT ![clock.book] = @ + 1]
      BY <2>2, <3>1 DEF TimePasses
    <3>3. /\ d \in Clock /\ d.book = clock.book /\ d.active = clock.active
          /\ d.running = clock.running + 1 /\ d.pending = clock.pending
      BY <1>1, <3>1 DEF Clock
    <3>4. ClockRight(d, stored)
      BY <1>1, <2>2, <3>3 DEF ClockRight
    <3>5. clock.book \in Books /\ clock.pending \in Nat /\ NoBook \notin Books
      BY <1>1, <2>2, NilAssumption DEF ClockRight, Clock
    <3>6. owed \in [Books -> Nat] /\ owed[clock.book] = clock.pending + clock.running
      BY <1>1, <3>5 DEF Owes
    <3>7. /\ owed' \in [Books -> Nat] /\ owed'[clock.book] = d.pending + d.running
          /\ \A b \in Books : b # clock.book => owed'[b] = owed[b]
      BY <1>1, <3>2, <3>3, <3>5, <3>6
    <3>8. Owes(d, stored, owed')
      BY <1>1, <3>3, <3>7 DEF Owes
    <3>9. UploadRight'
      BY <1>3, <3>2, <3>3 DEF Right, Seconds, UploadRight
    <3> QED
      BY <1>3, <3>2, <3>4, <3>8, <3>9 DEF Seconds
  <2> QED
    BY <2>1, <2>2
<1>5. loop' \in [since : 0..GapLimit + 1, wait : 0..AfterFailure,
                 power : {"unknown", "active", "suspended"}]
  <2>1. PICK since \in 0..GapLimit + 1 : since = Min2(loop.since + 1, GapLimit + 1)
    <3>1. loop.since \in 0..GapLimit + 1
      BY <1>1
    <3> QED
      BY <3>1, LimitsAssumption DEF Min2
  <2>2. PICK wait \in 0..AfterFailure : wait = Minus(loop.wait, 1)
    <3>1. loop.wait \in 0..AfterFailure
      BY <1>1
    <3> QED
      BY <3>1, LimitsAssumption DEF Minus
  <2>3. loop' = [loop EXCEPT !.since = since, !.wait = wait]
    BY <2>1, <2>2 DEF TimePasses
  <2> QED
    BY <1>1, <2>1, <2>2, <2>3
<1>6. read' \in [Books -> Nat]
  BY <1>1 DEF TimePasses
<1>7. time' \in 0..MaxTime
  BY <1>1, LimitsAssumption DEF TimePasses
<1>8. Rest'
  BY <1>5, <1>6, <1>7 DEF Right, Rest, TimePasses
<1> QED
  BY <1>2, <1>4, <1>8 DEF Right

LEMMA PowerChangesKeeps ==
    ASSUME Right, PowerChanges
    PROVE  Right'
<1>1. Screen'
  BY ScreenStays DEF PowerChanges
<1>2. Seconds'
  BY DEF Right, Seconds, PowerChanges, UploadRight
<1>3. Rest'
  BY LimitsAssumption DEF Right, Rest, PowerChanges
<1> QED
  BY <1>1, <1>2, <1>3 DEF Right

LEMMA ToggleReportKeeps ==
    ASSUME Right, ToggleReport
    PROVE  Right'
<1>1. Screen'
  BY ScreenStays DEF ToggleReport
<1>2. Seconds'
  BY DEF Right, Seconds, ToggleReport, Event, UploadRight
<1>3. Rest'
  BY LimitsAssumption DEF Right, Rest, ToggleReport, Event
<1> QED
  BY <1>1, <1>2, <1>3 DEF Right

\* The detail page, where the position of the cloud is taken, has no session.
LEMMA UseCloudKeeps ==
    ASSUME Right, UseCloud
    PROVE  Right'
<1>1. /\ ScreenRight(ui) /\ ui.screen = "detail" /\ ui' = ui
      /\ positions \in [Books -> Position \union {NoPosition}]
  BY DEF Right, Screen, UseCloud
<1>2. ui.book \in Books /\ ui.session = NoSession
  BY <1>1 DEF ScreenRight
<1>3. PICK at \in [chapter : Chapters, page : Pages, count : {MaxPages}, exact : {FALSE}] :
        positions' = [positions EXCEPT ![ui.book] = at]
  BY DEF UseCloud
<1>4. at \in Position
  <2>1. MaxPages \in Pages
    BY SizesAssumption DEF Pages
  <2>2. at.count \in Pages /\ at.exact \in BOOLEAN
    BY <2>1
  <2> QED
    BY <2>1, <2>2 DEF Position
<1>5. Screen'
  BY <1>1, <1>2, <1>3, <1>4 DEF Screen, Kept, HasChapter
<1>6. Seconds'
  BY DEF Right, Seconds, UseCloud, Event, UploadRight
<1>7. Rest'
  BY LimitsAssumption DEF Right, Rest, UseCloud, Event
<1> QED
  BY <1>5, <1>6, <1>7 DEF Right

LEMMA CloseReaderKeeps ==
    ASSUME Right, CloseReader
    PROVE  Right'
<1>1. PICK m : m = [ui EXCEPT !.session = NoSession, !.pending = NoAction, !.screen = "detail"]
  OBVIOUS
<1>2. /\ ui \in Ui /\ ui.session.book = ui.book /\ ui.book \in Books
      /\ PositionOf(ui.session) \in Position
  BY ReadsAChapter DEF CloseReader
<1>3. /\ m \in Ui /\ m.screen = "detail" /\ m.book = ui.book /\ m.session = NoSession
      /\ m.pending = NoAction
  BY <1>1, <1>2 DEF Ui, Screens
<1>4. ScreenRight(m)
  BY <1>2, <1>3 DEF ScreenRight
<1>5. ui' = m /\ positions' = [positions EXCEPT ![ui.book] = PositionOf(ui.session)]
  BY <1>1, <1>2 DEF CloseReader, Persisted
<1>6. positions \in [Books -> Position \union {NoPosition}]
  BY DEF Right, Screen
<1>7. Screen'
  BY <1>2, <1>3, <1>4, <1>5, <1>6 DEF Screen, Kept, HasChapter
<1>8. ClockRight(clock', stored') /\ Owes(clock', stored', owed')
  <2>1. ClockRight(clock, stored) /\ Owes(clock, stored, owed)
    BY DEF Right, Seconds
  <2>2. /\ clock' = Suspended(clock) /\ owed' = owed
        /\ stored' = IF clock.active THEN StoredWith(Accrued(clock)) ELSE stored
    BY DEF CloseReader
  <2> QED
    BY <2>1, <2>2, SuspendKeeps
<1>9. Seconds'
  BY <1>8 DEF Seconds, CloseReader, Event, UploadRight
<1>10. Rest'
  BY LimitsAssumption DEF Right, Rest, CloseReader, Event
<1> QED
  BY <1>7, <1>9, <1>10 DEF Right

\* A new process finds the seconds of a clock that measured nothing more.
LEMMA ResetKeeps ==
    ASSUME NEW c, NEW st, NEW ow, ClockRight(c, st), Owes(c, st, ow), c.running = 0
    PROVE  ClockRight(NoClock, st) /\ Owes(NoClock, st, ow)
<1>1. /\ NoClock \in Clock /\ NoClock.book = NoBook /\ NoClock.active = FALSE
      /\ NoClock.running = 0 /\ NoBook \notin Books
  BY NilAssumption DEF NoClock, Clock
<1>2. c.pending \in Nat /\ \A b \in Books : c.book = b => st[b] = c.pending
  BY <1>1 DEF ClockRight, Clock
<1>3. ASSUME NEW b \in Books
      PROVE  ow[b] = st[b]
  <2>1. CASE c.book = b
    <3>1. ow[b] = c.pending + c.running
      BY <2>1 DEF Owes
    <3> QED
      BY <1>2, <2>1, <3>1
  <2>2. CASE c.book # b
    BY <2>2 DEF Owes
  <2> QED
    BY <2>1, <2>2
<1>4. Owes(NoClock, st, ow)
  BY <1>1, <1>3 DEF Owes
<1>5. ClockRight(NoClock, st)
  BY <1>1 DEF ClockRight
<1> QED
  BY <1>4, <1>5

\* The screen of a new process.
LEMMA FreshRight ==
    ScreenRight(Fresh) /\ ~HasChapter(Fresh.session)
<1>1. /\ Fresh \in Ui /\ Fresh.screen = "shelf" /\ Fresh.session = NoSession
      /\ Fresh.pending = NoAction
  BY DEF Fresh, Ui, Screens
<1> QED
  BY <1>1 DEF ScreenRight, HasChapter

LEMMA NewLoopIs ==
    NewLoop \in [since : 0..GapLimit + 1, wait : 0..AfterFailure,
                 power : {"unknown", "active", "suspended"}]
BY LimitsAssumption DEF NewLoop

LEMMA RestartKeeps ==
    ASSUME Right, Restarts, ClockRight(NoClock, stored'), Owes(NoClock, stored', owed'),
           reported' \in [Books -> Nat]
    PROVE  Right'
<1>1. ui' = Fresh /\ positions' = positions /\ clock' = NoClock /\ phase' = "lifecycle"
  BY DEF Restarts
<1>2. Screen'
  BY <1>1, FreshRight DEF Right, Screen, Kept
<1>3. Seconds'
  BY <1>1 DEF Seconds, UploadRight
<1>4. Rest'
  BY LimitsAssumption, NewLoopIs DEF Right, Rest, Restarts
<1> QED
  BY <1>2, <1>3, <1>4 DEF Right

\* Killed, it loses the interval that runs and nothing else.
LEMMA CrashKeeps ==
    ASSUME Right, Crash
    PROVE  Right'
<1>1. ClockRight(clock, stored) /\ Owes(clock, stored, owed) /\ stored' = stored
  BY DEF Right, Seconds, Crash
<1>2. PICK c : c = [clock EXCEPT !.running = 0]
  OBVIOUS
<1>3. owed' = IF clock.book = NoBook THEN owed
              ELSE [owed EXCEPT ![clock.book] = @ - clock.running]
  BY DEF Crash
<1>4. ClockRight(c, stored) /\ Owes(c, stored, owed')
  BY <1>1, <1>2, <1>3, ForgetKeeps
<1>5. c.running = 0
  BY <1>1, <1>2 DEF ClockRight, Clock
<1>6. ClockRight(NoClock, stored') /\ Owes(NoClock, stored', owed')
  BY <1>1, <1>4, <1>5, ResetKeeps
<1>7. reported' \in [Books -> Nat]
  <2>1. CASE reported' = reported
    BY <2>1 DEF Right, Rest
  <2>2. CASE phase = "upload" /\ reported' = [reported EXCEPT ![ui.book] = @ + inflight]
    <3>1. ui.session # NoSession /\ ScreenRight(ui)
      BY <2>2 DEF Right, Seconds, Screen, UploadRight
    <3>2. ui.book \in Books
      BY <3>1 DEF ScreenRight, Ui, Session
    <3>3. reported \in [Books -> Nat] /\ inflight \in Nat
      BY DEF Right, Rest
    <3>4. reported[ui.book] + inflight \in Nat
      BY <3>2, <3>3
    <3> QED
      BY <2>2, <3>2, <3>3, <3>4
  <2> QED
    BY <2>1, <2>2 DEF Crash
<1> QED
  BY <1>6, <1>7, RestartKeeps DEF Crash

LEMMA ExitKeeps ==
    ASSUME Right, Exit
    PROVE  Right'
<1>1. ClockRight(clock, stored) /\ Owes(clock, stored, owed)
  BY DEF Right, Seconds
<1>2. /\ stored' = IF clock.active THEN StoredWith(Accrued(clock)) ELSE stored
      /\ owed' = owed /\ reported' \in [Books -> Nat]
  BY DEF Exit, Right, Rest
<1>3. PICK c : c = Suspended(clock)
  OBVIOUS
<1>4. ClockRight(c, stored') /\ Owes(c, stored', owed')
  BY <1>1, <1>2, <1>3, SuspendKeeps
<1>5. c.running = 0
  <2>1. clock \in Clock /\ Accrued(clock) \in Clock /\ Accrued(clock).running = 0
    BY <1>1, AccruedIs DEF ClockRight
  <2> QED
    BY <1>3, <2>1 DEF Suspended, Clock
<1>6. ClockRight(NoClock, stored') /\ Owes(NoClock, stored', owed')
  BY <1>4, <1>5, ResetKeeps
<1> QED
  BY <1>2, <1>6, RestartKeeps DEF Exit

--------------------------------------------------------------------------------
(* The invariant and what it means. *)

LEMMA InitRight == Init => Right
<1> SUFFICES ASSUME Init PROVE Right
  OBVIOUS
<1>1. Screen
  BY FreshRight DEF Init, Screen, Kept
<1>2. ClockRight(clock, stored) /\ Owes(clock, stored, owed)
  BY NilAssumption DEF Init, NoClock, Clock, ClockRight, Owes
<1>3. Seconds
  BY <1>2 DEF Init, Seconds, UploadRight
<1>4. Rest
  BY LimitsAssumption, NewLoopIs DEF Init, Rest
<1> QED
  BY <1>1, <1>3, <1>4 DEF Right

LEMMA FrameKeeps ==
    ASSUME Right, Frame
    PROVE  Right'
BY LifecycleTickKeeps, ReportTickKeeps, ReportAcceptedKeeps, ReportFailedKeeps, LoadFailsKeeps,
   LoadCatalogKeeps, LoadChapterKeeps, LoadRenderKeeps, NothingShownKeeps DEF Frame

LEMMA UserKeeps ==
    ASSUME Right, User
    PROVE  Right'
<1>1. CASE BackToShelf
  <2>1. Event /\ Shows([ui EXCEPT !.screen = "shelf"])
    BY <1>1 DEF BackToShelf
  <2> QED
    BY <2>1, ScreenOnlyKeeps DEF Screens
<1>2. CASE OpenMenu
  <2>1. Event /\ Shows([ui EXCEPT !.screen = "menu"]) /\ HasChapter(ui.session)
    BY <1>2 DEF OpenMenu, Right, Screen, ScreenRight
  <2> QED
    BY <2>1, ScreenOnlyKeeps DEF Screens
<1>3. CASE CloseMenu
  <2>1. Event /\ Shows([ui EXCEPT !.screen = "reader"]) /\ HasChapter(ui.session)
    BY <1>3 DEF CloseMenu, Right, Screen, ScreenRight
  <2> QED
    BY <2>1, ScreenOnlyKeeps DEF Screens
<1> QED
  BY <1>1, <1>2, <1>3, OpenDetailKeeps, BeginReadingKeeps, RetryKeeps, ReturnFromErrorKeeps,
     NextPageKeeps, PreviousPageKeeps, JumpKeeps, RelayoutKeeps, ToggleReportKeeps,
     CloseReaderKeeps, UseCloudKeeps DEF User

LEMMA StepKeeps == Right /\ [Next]_vars => Right'
<1> SUFFICES ASSUME Right, [Next]_vars PROVE Right'
  OBVIOUS
<1>1. CASE UNCHANGED vars
  <2>1. Screen'
    BY <1>1, ScreenStays DEF vars
  <2>2. Seconds'
    BY <1>1 DEF Right, Seconds, UploadRight, vars
  <2>3. Rest'
    BY <1>1 DEF Right, Rest, vars
  <2> QED
    BY <2>1, <2>2, <2>3 DEF Right
<1> QED
  BY <1>1, FrameKeeps, UserKeeps, TimePassesKeeps, PowerChangesKeeps, CrashKeeps, ExitKeeps
     DEF Next

\* The inductive invariant of the reading loop holds.
THEOREM Invariance == Spec => []Right
BY InitRight, StepKeeps, PTL DEF Spec

\* Every variable keeps its type; in particular a page restored into another layout lies
\* inside the chapter (restored_page).
THEOREM TypeCorrect == Spec => []TypeOK
<1>1. Right => TypeOK
  <2> SUFFICES ASSUME Right PROVE TypeOK
    OBVIOUS
  <2>1. ui \in Ui /\ (ui.session # NoSession => ui.session.page <= ui.session.count)
    BY DEF Right, Screen, ScreenRight
  <2>2. {stored, owed, read, reported} \subseteq [Books -> Nat]
    BY DEF Right, Seconds, ClockRight, Owes, Rest
  <2>3. clock \in [book : Books \union {NoBook}, active : BOOLEAN, running : Nat, pending : Nat]
        /\ positions \in [Books -> Position \union {NoPosition}]
    BY DEF Right, Seconds, Screen, ClockRight, Clock
  <2> QED
    BY <2>1, <2>2, <2>3 DEF TypeOK, Right, Rest
<1> QED
  BY <1>1, Invariance, PTL

\* Every second that was measured is pending, in the clock or in the store, until the
\* server acknowledged it, and is pending once (foreground_time.lua).
THEOREM SecondsAreKept == Spec => []SecondsKept
<1>1. Right => SecondsKept
  BY DEF Right, Seconds, Owes, SecondsKept
<1> QED
  BY <1>1, Invariance, PTL

\* The page stored of a book that is being read is the page shown last (persist).
THEOREM PageIsKept == Spec => []WhereYouWere
<1>1. Right => WhereYouWere
  BY DEF Right, Screen, Kept, WhereYouWere
<1> QED
  BY <1>1, Invariance, PTL

================================================================================
