----------------------------- MODULE ChapterCache -----------------------------
(***************************************************************************)
(* The chapter cache of one book in the standalone application: the files  *)
(* of canonical.lua, the whole-book task of book_service.lua and the       *)
(* task_tick of app.lua that drives it, opening a single chapter, and the  *)
(* clean-up of cache_manager.lua.                                          *)
(*                                                                         *)
(* One thread does all of it, so what competes with a handler is the end   *)
(* of the process between two of its file operations, and the user between *)
(* two frames.  write_atomic renames a finished file into place, so that   *)
(* the end of the process leaves none half-written; but it does not look   *)
(* at what write and close return, and on a disk that is full renames a    *)
(* torn file and reports success.  The book lives in two directories:      *)
(* canonical/<id>, which every path reaches as <id>/../canonical/<id>, and *)
(* the older <id>, which must therefore exist for the first one to be seen.*)
(* Left out: the assets (written before the document that names them), the *)
(* stylesheet, the file of the exported EPUB and what is in <id>.          *)
(***************************************************************************)
EXTENDS Naturals, FiniteSets

CONSTANTS
    LastChapter,  \* the catalog is 1..LastChapter
    MaxEvents     \* bound on user actions and crashes

ASSUME ChaptersAssumption == LastChapter \in Nat \ {0}
ASSUME EventsAssumption == MaxEvents \in Nat

VARIABLES
    live,     \* the tree canonical/<id>
    legacy,   \* directory <id> exists
    trash,    \* the tree the clean-up under way has under canonical/<id>.delete-...
    strays,   \* the directories of which a clean-up that is over left something under
              \* such a name; nothing ever looks for it
    screen,   \* "detail", "task"
    task,     \* state.task_* and the job
    doing,    \* the handler under way, between two file operations
    notes,    \* cache.download_underlines_and_thoughts
    notice,   \* state.cache_notice of the last clean-up
    events

vars == <<live, legacy, trash, strays, screen, task, doing, notes, notice, events>>

Chapters == 1..LastChapter

\* doc: <uid>.xhtml, torn: those of them a failing write cut off, raw: <uid>.raw.xhtml,
\* map: <uid>.textmap.json, catalog: a catalog.json that can be decoded
Tree == [catalog: BOOLEAN, doc: SUBSET Chapters, torn: SUBSET Chapters,
         raw: SUBSET Chapters, map: SUBSET Chapters, notes: SUBSET Chapters]
NoTree == [catalog |-> FALSE, doc |-> {}, torn |-> {}, raw |-> {}, map |-> {}, notes |-> {}]
Directories == {"canonical", "legacy"}

\* has_chapter, through <id>/..; it opens the document and does not read it.
HasChapter(c) == legacy /\ c \in live.doc
Cached == {c \in Chapters : HasChapter(c)}

Outcomes == {"none", "cancelled", "no_catalog", "no_job", "partial", "storage_full", "done",
             "exported", "export_failed"}

\* index, completed, failed and status are the job's, cancelled the task's.
Task == [mode: {"cache", "export"}, stage: {"catalog", "cache", "export", "done"},
         outcome: Outcomes, cancelled: BOOLEAN,
         status: {"none", "running", "done", "partial", "cancelled", "storage_full"},
         jobCancelled: BOOLEAN, index: 1..LastChapter + 1, completed: 0..LastChapter,
         failed: SUBSET Chapters]
NoTask == [mode |-> "cache", stage |-> "done", outcome |-> "none", cancelled |-> FALSE,
           status |-> "none", jobCancelled |-> FALSE, index |-> 1, completed |-> 0, failed |-> {}]

Stops == {"", "fetch", "doc", "raw", "map", "notes", "rename_canonical", "remove_canonical",
          "rename_legacy", "remove_legacy", "report"}
\* Of a clean-up: fault, what it counts as a failure; unmeasured, the directories it could
\* not rename and took for absent; earlier, the strays it found.
Handler == [op: {"nothing", "cache", "open", "clear"}, at: Stops, chapter: 0..LastChapter,
            fault: BOOLEAN, unmeasured: SUBSET Directories, earlier: SUBSET Directories]
Nothing == [op |-> "nothing", at |-> "", chapter |-> 0, fault |-> FALSE,
            unmeasured |-> {}, earlier |-> {}]

Idle == doing.op = "nothing"

\* A button: the handler runs before the next tick.
Event == Idle /\ events < MaxEvents /\ events' = events + 1

-------------------------------------------------------------------------------
(***************************************************************************)
(* ensure_chapter, called by the task, and by load_tick and prefetch_tick  *)
(* ("open"), one file operation after the other.                           *)
(***************************************************************************)
Ensuring(at) == doing.op \in {"cache", "open"} /\ doing.at = at
Goes(at) == doing' = [doing EXCEPT !.at = at]

\* A chapter that is there is not fetched again.
Ensure(op, c) ==
    doing' = [Nothing EXCEPT !.op = op, !.chapter = c,
                             !.at = IF HasChapter(c) THEN "notes" ELSE "fetch"]

StepResultUncounted(ok) ==  \* mutant: a failed chapter is passed over
    LET over == task.index + 1 > LastChapter IN
    [task EXCEPT !.completed = @ + 1, !.index = @ + 1, !.status = IF over THEN "done" ELSE @]

StepResultRetries(ok) ==  \* mutant: the chapter that failed is tried again
    IF ~ok THEN task
    ELSE [task EXCEPT !.completed = @ + 1, !.index = @ + 1,
                      !.status = IF task.index + 1 > LastChapter THEN "done" ELSE @]

\* The task's step_cache after its ensure_chapter
StepResult(ok) ==
    LET c == doing.chapter
        failed == IF ok THEN task.failed ELSE task.failed \union {c}
        over == task.index + 1 > LastChapter
    IN  [task EXCEPT !.completed = IF ok THEN @ + 1 ELSE @,
                     !.failed = failed,
                     !.index = @ + 1,
                     !.status = IF ~over THEN @ ELSE IF failed = {} THEN "done" ELSE "partial"]

\* task_tick after step_cache
AfterStep(t) ==
    CASE t.status = "running" -> t
      [] t.status = "done" /\ t.mode = "export" -> [t EXCEPT !.stage = "export"]
      [] OTHER -> [t EXCEPT !.stage = "done", !.outcome = t.status]

Returns(ok) ==
    /\ doing' = Nothing
    /\ task' = IF doing.op = "cache" THEN AfterStep(StepResult(ok)) ELSE task

\* The source and its images, then the directories
Fetch ==
    /\ Ensuring("fetch")
    /\ \/ Returns(FALSE) /\ legacy' \in {legacy, TRUE}
       \/ Goes("doc") /\ legacy' = TRUE /\ UNCHANGED task
    /\ UNCHANGED <<live, screen, notes, trash, strays, notice, events>>

\* The document is there, whole or torn.
Written(torn) == [live EXCEPT !.doc = @ \union {doing.chapter},
                              !.torn = IF torn THEN @ \union {doing.chapter}
                                       ELSE @ \ {doing.chapter}]

WriteDocUnchecked ==  \* mutant: looks no more at its failure than the next two
    /\ Ensuring("doc") /\ Goes("raw")
    /\ live' \in {live, Written(FALSE), Written(TRUE)}
    /\ UNCHANGED <<legacy, screen, task, notes, trash, strays, notice, events>>

WriteDocInPlace ==  \* mutant: writes the file itself, and may fail half-way
    /\ Ensuring("doc")
    /\ \/ Returns(FALSE) /\ live' = Written(TRUE)
       \/ Goes("raw") /\ UNCHANGED task /\ \E torn \in BOOLEAN : live' = Written(torn)
    /\ UNCHANGED <<legacy, screen, notes, trash, strays, notice, events>>

\* write_atomic: opening or renaming fails and the old file stays; or the new one is
\* renamed into place, whole or not.
WriteDoc ==
    /\ Ensuring("doc")
    /\ \/ Returns(FALSE) /\ UNCHANGED live
       \/ Goes("raw") /\ UNCHANGED task /\ \E torn \in BOOLEAN : live' = Written(torn)
    /\ UNCHANGED <<legacy, screen, notes, trash, strays, notice, events>>

\* Neither of these is looked at when it fails; whether they are whole is left out.
WriteRaw ==
    /\ Ensuring("raw") /\ Goes("map")
    /\ live' \in {live, [live EXCEPT !.raw = @ \union {doing.chapter}]}
    /\ UNCHANGED <<legacy, screen, task, notes, trash, strays, notice, events>>
WriteMap ==
    /\ Ensuring("map") /\ Goes("notes")
    /\ live' \in {live, [live EXCEPT !.map = @ \union {doing.chapter}]}
    /\ UNCHANGED <<legacy, screen, task, notes, trash, strays, notice, events>>

\* ensure_annotations: an error is no failure of the chapter.
WriteNotes ==
    /\ Ensuring("notes") /\ Returns(TRUE)
    /\ \/ UNCHANGED live
       \/ notes /\ live' = [live EXCEPT !.notes = @ \union {doing.chapter}]
    /\ UNCHANGED <<legacy, screen, notes, trash, strays, notice, events>>

-------------------------------------------------------------------------------
(***************************************************************************)
(* The whole-book task: task_tick, one stage or chapter per frame.         *)
(***************************************************************************)
StartTask ==
    /\ Event /\ screen = "detail" /\ screen' = "task"
    /\ \E mode \in {"cache", "export"} :
         task' = [NoTask EXCEPT !.mode = mode, !.stage = "catalog"]
    /\ UNCHANGED <<live, legacy, doing, notes, trash, strays, notice>>

CancelTaskOnly ==  \* mutant: tells only the task, not its job
    /\ Event /\ screen = "task" /\ task.stage # "done"
    /\ task' = [task EXCEPT !.cancelled = TRUE]
    /\ UNCHANGED <<live, legacy, screen, doing, notes, trash, strays, notice>>

\* The cancel button; cancel leaves a job that is over alone.
CancelTask ==
    /\ Event /\ screen = "task" /\ task.stage # "done"
    /\ task' = [task EXCEPT !.cancelled = TRUE,
                            !.jobCancelled = @ \/ task.status = "running"]
    /\ UNCHANGED <<live, legacy, screen, doing, notes, trash, strays, notice>>

LeaveTask ==
    /\ Event /\ screen = "task" /\ task.stage = "done" /\ screen' = "detail"
    /\ UNCHANGED <<live, legacy, task, doing, notes, trash, strays, notice>>

Ticks(stage) == Idle /\ screen = "task" /\ task.stage = stage
Finishes(outcome) == task' = [task EXCEPT !.stage = "done", !.outcome = outcome]

\* Cancelled with no job, or with one that is over
TickCancelled ==
    /\ Idle /\ screen = "task" /\ task.stage # "done"
    /\ task.cancelled /\ task.status # "running"
    /\ Finishes("cancelled")
    /\ UNCHANGED <<live, legacy, screen, doing, notes, trash, strays, notice, events>>

\* load_catalog and new_cache_job; each writes the catalog, and neither looks
\* whether it could.  A write that fails leaves the old one or a torn one.
TickCatalog ==
    /\ Ticks("catalog") /\ ~task.cancelled
    /\ \E online, space, written \in BOOLEAN :
         LET found == online \/ (legacy /\ live.catalog) IN
         /\ IF ~found THEN Finishes("no_catalog")
            ELSE IF ~space THEN Finishes("no_job")
            ELSE task' = [task EXCEPT !.stage = "cache", !.status = "running"]
         /\ LET writes == online \/ (found /\ space) IN
            /\ legacy' = (legacy \/ writes)
            /\ live' = IF writes THEN [live EXCEPT !.catalog = written] ELSE live
    /\ UNCHANGED <<screen, doing, notes, trash, strays, notice, events>>

\* step_cache up to ensure_chapter
TickChapter ==
    /\ Ticks("cache")
    /\ \/ /\ task.jobCancelled
          /\ task' = AfterStep([task EXCEPT !.status = "cancelled"])
          /\ UNCHANGED doing
       \/ /\ ~task.jobCancelled
          /\ task' = AfterStep([task EXCEPT !.status = "storage_full",
                                            !.failed = @ \union {task.index}])
          /\ UNCHANGED doing
       \/ /\ ~task.jobCancelled
          /\ Ensure("cache", task.index)
          /\ UNCHANGED task
    /\ UNCHANGED <<live, legacy, screen, notes, trash, strays, notice, events>>

\* export_epub reads every chapter, whole or torn; what it makes of it may fail.
TickExport ==
    /\ Ticks("export") /\ ~task.cancelled
    /\ \/ Cached = Chapters /\ Finishes("exported")
       \/ Finishes("export_failed")
    /\ UNCHANGED <<live, legacy, screen, doing, notes, trash, strays, notice, events>>

\* Reading or prefetching one chapter, and the switch for annotations
OpenChapter ==
    /\ Event /\ screen = "detail"
    /\ \E c \in Chapters : Ensure("open", c)
    /\ UNCHANGED <<live, legacy, screen, task, notes, trash, strays, notice>>
SwitchNotes ==
    /\ Event /\ screen = "detail" /\ notes' = ~notes
    /\ UNCHANGED <<live, legacy, screen, task, doing, trash, strays, notice>>

-------------------------------------------------------------------------------
(***************************************************************************)
(* clear_book: each directory is renamed, removed, and renamed back when   *)
(* that fails, canonical/<id> first.  A rename that fails is a failure     *)
(* only when the directory had a size: one that is not there has none, nor *)
(* has one that could not be measured.                                     *)
(***************************************************************************)
StartClear ==
    /\ Event /\ screen = "detail"
    /\ doing' = [Nothing EXCEPT !.op = "clear", !.at = "rename_canonical",
                             !.earlier = strays]
    /\ notice' = "none"
    /\ UNCHANGED <<live, legacy, trash, strays, screen, task, notes>>

Clearing(at) == doing.op = "clear" /\ doing.at = at
Continues(at, fault) == doing' = [doing EXCEPT !.at = at, !.fault = @ \/ fault]

Overlooks(at, directory) ==
    doing' = [doing EXCEPT !.at = at, !.unmeasured = @ \union {directory}]

\* canonical/<id> may be there and empty.
RenameCanonical ==
    /\ Clearing("rename_canonical")
    /\ \/ Continues("remove_canonical", FALSE) /\ trash' = live /\ live' = NoTree
       \/ Continues("rename_legacy", TRUE) /\ UNCHANGED <<live, trash>>
       \/ Overlooks("rename_legacy", "canonical") /\ UNCHANGED <<live, trash>>
       \/ live = NoTree /\ Continues("rename_legacy", FALSE) /\ UNCHANGED <<live, trash>>
    /\ UNCHANGED <<legacy, strays, screen, task, notes, notice, events>>

\* What a removal that fails may leave of a tree
Remains(t) == {r \in [catalog: {FALSE, t.catalog}, doc: SUBSET t.doc, torn: SUBSET t.torn,
                      raw: SUBSET t.raw, map: SUBSET t.map, notes: SUBSET t.notes] :
                 r.torn = t.torn \intersect r.doc}

\* Renamed back, or left where it is
PutBack ==
    \/ live' \in Remains(trash) /\ UNCHANGED strays
    \/ strays' = strays \union {"canonical"} /\ UNCHANGED live

RemoveCanonicalForgets ==  \* mutant: a failure is not remembered
    /\ Clearing("remove_canonical") /\ trash' = NoTree
    /\ Continues("rename_legacy", FALSE)
    /\ UNCHANGED <<live, strays>> \/ PutBack
    /\ UNCHANGED <<legacy, screen, task, notes, notice, events>>
RemoveCanonical ==
    /\ Clearing("remove_canonical") /\ trash' = NoTree
    /\ \/ Continues("rename_legacy", FALSE) /\ UNCHANGED <<live, strays>>
       \/ Continues("rename_legacy", TRUE) /\ PutBack
    /\ UNCHANGED <<legacy, screen, task, notes, notice, events>>

RenameLegacy ==
    /\ Clearing("rename_legacy")
    /\ \/ legacy /\ Continues("remove_legacy", FALSE) /\ legacy' = FALSE
       \/ legacy /\ Continues("report", TRUE) /\ UNCHANGED legacy
       \/ legacy /\ Overlooks("report", "legacy") /\ UNCHANGED legacy
       \/ ~legacy /\ Continues("report", FALSE) /\ UNCHANGED legacy
    /\ UNCHANGED <<live, trash, strays, screen, task, notes, notice, events>>

RemoveLegacy ==
    /\ Clearing("remove_legacy")
    /\ \/ Continues("report", FALSE) /\ UNCHANGED <<legacy, strays>>
       \/ Continues("report", TRUE) /\ legacy' = TRUE /\ UNCHANGED strays
       \/ /\ Continues("report", TRUE) /\ UNCHANGED legacy
          /\ strays' = strays \union {"legacy"}
    /\ UNCHANGED <<live, trash, screen, task, notes, notice, events>>

ReportClear ==
    /\ Clearing("report") /\ doing' = Nothing
    /\ notice' = IF doing.fault THEN "failed" ELSE "cleared"
    /\ UNCHANGED <<live, legacy, trash, strays, screen, task, notes, events>>

\* What a clean-up killed in the middle of a removal leaves under its trash name
LeftBehind ==
    CASE Clearing("remove_canonical") -> {"canonical"}
      [] Clearing("remove_legacy") -> {"legacy"}
      [] OTHER -> {}

\* The process is killed between two file operations.
Crash ==
    /\ events < MaxEvents /\ events' = events + 1
    /\ doing' = Nothing
    /\ screen' = "detail"
    /\ task' = NoTask
    /\ trash' = NoTree /\ strays' = strays \union LeftBehind
    /\ notice' = "none"
    /\ UNCHANGED <<live, legacy, notes>>

Init ==
    /\ live = NoTree /\ legacy = FALSE /\ trash = NoTree /\ strays = {}
    /\ screen = "detail"
    /\ task = NoTask
    /\ doing = Nothing
    /\ notes \in BOOLEAN
    /\ notice = "none"
    /\ events = 0

EnsureChapter == Fetch \/ WriteDoc \/ WriteRaw \/ WriteMap \/ WriteNotes
Tick == TickCancelled \/ TickCatalog \/ TickChapter \/ TickExport
ClearBook == RenameCanonical \/ RemoveCanonical \/ RenameLegacy \/ RemoveLegacy \/ ReportClear
User == StartTask \/ CancelTask \/ LeaveTask \/ OpenChapter \/ SwitchNotes \/ StartClear

Next == EnsureChapter \/ Tick \/ ClearBook \/ User \/ Crash

Spec == Init /\ [][Next]_vars

\* The frame loop goes on and every file operation returns.
FairSpec == Spec /\ WF_vars(EnsureChapter \/ Tick \/ ClearBook)

-------------------------------------------------------------------------------
(***************************************************************************)
(* Properties.                                                             *)
(***************************************************************************)
\* Every variable keeps its type.
TypeOK ==
    /\ {live, trash} \subseteq Tree /\ strays \subseteq Directories
    /\ legacy \in BOOLEAN /\ notes \in BOOLEAN
    /\ screen \in {"detail", "task"}
    /\ task \in Task /\ doing \in Handler
    /\ notice \in {"none", "cleared", "failed"}
    /\ events \in 0..MaxEvents

\* While a task shows its numbers, every chapter it passed and does not count as
\* failed has its document in the cache, whole or torn, and the count is exactly theirs.
CountedIsCached ==
    screen = "task" =>
        LET counted == (1..task.index - 1) \ task.failed IN
        counted \subseteq Cached /\ task.completed = Cardinality(counted)

\* "All chapters can be read offline" and "exported" are said only of a book
\* whose every chapter has its document in the cache.
DoneIsCached ==
    screen = "task" /\ task.outcome \in {"done", "exported"} => Cached = Chapters

\* write and close of the document fail, and ensure_chapter goes on.
FailsUnseen(c) == doing.at = "doc" /\ doing.chapter = c /\ doing'.at = "raw"

\* A chapter that is in the cache stays there through failing writes, crashes, and
\* whatever else fetches chapters: only a clean-up takes it away.  And what is there is
\* torn by a write whose failure nobody sees, never by one that is reported.
CachedStays ==
    [][doing.op # "clear" =>
         /\ Cached \subseteq Cached'
         /\ \A c \in live'.torn \ live.torn : FailsUnseen(c)]_vars

\* After a cancel no further chapter is begun.
CancelStops == [][task.cancelled /\ doing.op = "nothing" => doing'.op # "cache"]_vars

\* A clean-up that reports success has left nothing of the book, neither in its
\* directories nor under a trash name, but for a directory it could not rename and
\* measured as empty, and for what clean-ups before it left behind.
ClearedIsGone ==
    [][notice' = "cleared" /\ notice # "cleared" =>
         /\ live' = NoTree \/ "canonical" \in doing.unmeasured
         /\ ~legacy' \/ "legacy" \in doing.unmeasured
         /\ strays' = doing.earlier]_vars

\* A task ends, whatever fails: its screen has no way back until then.
TaskEnds == task.stage # "done" ~> task.stage = "done"

===============================================================================
