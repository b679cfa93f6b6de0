-------------------------- MODULE ChapterCacheProofs --------------------------
(***************************************************************************)
(* Proofs about ChapterCache, for every number of chapters and every bound *)
(* on events.                                                              *)
(***************************************************************************)
EXTENDS ChapterCache, FiniteSetTheorems, TLAPS

\* The fields of the task agree with its stage.
TaskStands ==
    /\ task.stage # "done" => screen = "task" /\ task.outcome = "none"
    /\ task.stage = "catalog" =>
         task.status = "none" /\ task.index = 1 /\ task.completed = 0 /\ task.failed = {}
    /\ task.stage = "cache" <=> task.status = "running"
    /\ task.stage = "cache" =>
         task.index \in Chapters /\ task.failed \subseteq 1..task.index - 1
    /\ task.stage = "export" => task.status = "done"
    /\ task.status = "done" => task.failed = {} /\ task.index = LastChapter + 1
    /\ task.outcome \in {"done", "exported"} => task.status = "done"
    /\ task.cancelled /\ task.status = "running" => task.jobCancelled
    /\ task.completed < task.index

\* ensure_chapter under way works for the task, or outside it; from the raw source
\* on its document is there.
EnsureStands ==
    doing.op \in {"cache", "open"} =>
        /\ doing.op = "cache" => task.stage = "cache" /\ doing.chapter = task.index
        /\ doing.op = "open" => screen = "detail"
        /\ doing.chapter \in Chapters
        /\ doing.at \in {"fetch", "doc", "raw", "map", "notes"}
        /\ doing.at = "doc" => legacy
        /\ doing.at \in {"raw", "map", "notes"} => HasChapter(doing.chapter)

\* A clean-up under way that met no fault has left nothing where it has been, but for a
\* directory it measured as empty, and nothing under a trash name.
ClearStands ==
    doing.op = "clear" =>
        /\ screen = "detail"
        /\ ~doing.fault =>
             /\ doing.at \in {"remove_canonical", "rename_legacy", "remove_legacy", "report"} =>
                  live = NoTree \/ "canonical" \in doing.unmeasured
             /\ doing.at \in {"remove_legacy", "report"} =>
                  ~legacy \/ "legacy" \in doing.unmeasured
             /\ strays = doing.earlier

\* The inductive invariant.
Inv == TypeOK /\ TaskStands /\ EnsureStands /\ ClearStands /\ CountedIsCached

Counted(t) == (1..t.index - 1) \ t.failed

-------------------------------------------------------------------------------
(***************************************************************************)
(* Lemmas.                                                                 *)
(***************************************************************************)
\* More files: what was cached still is.
LEMMA CacheGrows ==
    ASSUME legacy => legacy', live.doc \subseteq live'.doc
    PROVE  Cached \subseteq Cached'
BY DEF Cached, HasChapter

\* A step that leaves the counted chapters alone
LEMMA CountKept ==
    ASSUME CountedIsCached, Cached \subseteq Cached',
           screen' = "task" => /\ screen = "task"
                               /\ Counted(task') = Counted(task)
                               /\ task'.completed = task.completed
    PROVE  CountedIsCached'
BY DEF CountedIsCached, Counted

\* A screen without a task shows no numbers.
LEMMA NothingCounted ==
    ASSUME screen' = "detail"
    PROVE  CountedIsCached'
BY DEF CountedIsCached

\* Counting one chapter more
LEMMA CountOneMore ==
    ASSUME NEW i \in Chapters, NEW S \in SUBSET (1..i - 1)
    PROVE  /\ (1..i) \ S = ((1..i - 1) \ S) \union {i}
           /\ Cardinality((1..i) \ S) = Cardinality((1..i - 1) \ S) + 1
<1> DEFINE T == (1..i - 1) \ S
<1>1. i \in Nat /\ i # 0
  BY ChaptersAssumption DEF Chapters
<1>2. (1..i) \ S = T \union {i} /\ i \notin T
  BY <1>1
<1>3. IsFiniteSet(T)
  BY <1>1, FS_Interval, FS_Subset, T \subseteq 1..i - 1
<1>4. Cardinality(T \union {i}) = Cardinality(T) + 1
  <2> HIDE DEF T
  <2> QED BY <1>2, <1>3, FS_AddElement
<1> QED BY <1>2, <1>4

\* What step_cache makes of the task, field by field
LEMMA StepResultFields ==
    ASSUME TypeOK, TaskStands, EnsureStands, doing.op = "cache", NEW ok \in BOOLEAN,
           NEW t, t = StepResult(ok)
    PROVE  /\ t \in Task
           /\ t.mode = task.mode /\ t.stage = "cache" /\ t.outcome = "none"
           /\ t.cancelled = task.cancelled /\ t.jobCancelled = task.jobCancelled
           /\ t.index = task.index + 1
           /\ t.completed = task.completed + (IF ok THEN 1 ELSE 0)
           /\ t.failed = task.failed \union (IF ok THEN {} ELSE {task.index})
           /\ t.failed \subseteq 1..t.index - 1
           /\ IF t.index <= LastChapter THEN t.status = "running"
              ELSE t.status = IF t.failed = {} THEN "done" ELSE "partial"
<1>1. task \in Task /\ task.stage = "cache" /\ task.status = "running" /\ task.outcome = "none"
      /\ doing.chapter = task.index /\ task.index \in Chapters
      /\ task.failed \subseteq 1..task.index - 1 /\ task.completed < task.index
  BY DEF TypeOK, TaskStands, EnsureStands
<1>2. DOMAIN t = {"mode", "stage", "outcome", "cancelled", "status", "jobCancelled", "index",
                  "completed", "failed"}
      /\ t = [f \in DOMAIN t |-> t[f]]
  BY <1>1 DEF StepResult, Task
<1>3. /\ t.mode = task.mode /\ t.stage = task.stage /\ t.outcome = task.outcome
      /\ t.cancelled = task.cancelled /\ t.jobCancelled = task.jobCancelled
  BY <1>1 DEF StepResult, Task
<1>4. t.index = task.index + 1
  BY <1>1 DEF StepResult, Task
<1>5. t.completed = task.completed + (IF ok THEN 1 ELSE 0)
  BY <1>1 DEF StepResult, Task
<1>6. t.failed = task.failed \union (IF ok THEN {} ELSE {task.index})
  BY <1>1 DEF StepResult, Task
<1>7. t.status = IF t.index <= LastChapter THEN "running"
                 ELSE IF t.failed = {} THEN "done" ELSE "partial"
  BY <1>1, <1>4, <1>6, ChaptersAssumption DEF StepResult, Task, Chapters
<1>8. t.failed \subseteq 1..t.index - 1 /\ t.failed \subseteq Chapters
  BY <1>1, <1>4, <1>6, ChaptersAssumption DEF Chapters
<1>9. t.completed \in 0..LastChapter /\ t.index \in 1..LastChapter + 1
  BY <1>1, <1>4, <1>5, ChaptersAssumption DEF Chapters, Task
<1>10. t \in Task
  BY <1>1, <1>2, <1>3, <1>7, <1>8, <1>9 DEF Task
<1> QED BY <1>1, <1>3, <1>4, <1>5, <1>6, <1>7, <1>8, <1>10

\* Nothing in the cache, no task and no handler
LEMMA AtRest == NoTree \in Tree /\ NoTask \in Task /\ Nothing \in Handler
BY ChaptersAssumption DEF NoTree, Tree, NoTask, Task, Nothing, Handler, Outcomes, Stops, Directories

\* Finishing the task, whatever the outcome
LEMMA FinishFields ==
    ASSUME TypeOK, NEW outcome \in Outcomes, Finishes(outcome)
    PROVE  /\ task' \in Task
           /\ task'.stage = "done" /\ task'.outcome = outcome
           /\ task'.status = task.status /\ task'.index = task.index
           /\ task'.completed = task.completed /\ task'.failed = task.failed
           /\ task'.cancelled = task.cancelled /\ task'.jobCancelled = task.jobCancelled
BY DEF Finishes, TypeOK, Task

\* ensure_chapter begins.
LEMMA EnsureFields ==
    ASSUME NEW op \in {"cache", "open"}, NEW c \in Chapters, Ensure(op, c)
    PROVE  /\ doing' \in Handler /\ doing'.op = op /\ doing'.chapter = c
           /\ doing'.at = (IF HasChapter(c) THEN "notes" ELSE "fetch")
<1>1. doing' = [Nothing EXCEPT !.op = op, !.chapter = c,
                               !.at = IF HasChapter(c) THEN "notes" ELSE "fetch"]
  BY DEF Ensure
<1>2. c \in 0..LastChapter
  BY ChaptersAssumption DEF Chapters
<1>3. \A at \in Stops : [Nothing EXCEPT !.op = op, !.chapter = c, !.at = at] \in Handler
  BY <1>2, AtRest DEF Handler
<1>4. \A at : LET h == [Nothing EXCEPT !.op = op, !.chapter = c, !.at = at]
             IN  h.op = op /\ h.chapter = c /\ h.at = at
  BY AtRest DEF Handler
<1>5. CASE HasChapter(c)
  BY <1>1, <1>3, <1>4, <1>5 DEF Stops
<1>6. CASE ~HasChapter(c)
  BY <1>1, <1>3, <1>4, <1>6 DEF Stops
<1> QED BY <1>5, <1>6

\* A document written, whole or torn
LEMMA WrittenFields ==
    ASSUME live \in Tree, doing.chapter \in Chapters, NEW torn \in BOOLEAN
    PROVE  Written(torn) \in Tree /\ Written(torn).doc = live.doc \union {doing.chapter}
BY DEF Written, Tree

-------------------------------------------------------------------------------
(***************************************************************************)
(* The invariant holds first, and each step preserves it.                  *)
(***************************************************************************)
LEMMA InitInv == Init => Inv
<1> SUFFICES ASSUME Init PROVE Inv
  OBVIOUS
<1> USE ChaptersAssumption, EventsAssumption
<1>2. TypeOK
  <2>1. {live, trash} \subseteq Tree /\ strays \subseteq Directories
        /\ task \in Task /\ doing \in Handler
    BY AtRest DEF Init
  <2>2. legacy \in BOOLEAN /\ notes \in BOOLEAN
    BY DEF Init
  <2>3. screen \in {"detail", "task"} /\ notice \in {"none", "cleared", "failed"}
        /\ events \in 0..MaxEvents
    BY DEF Init
  <2> QED BY <2>1, <2>2, <2>3 DEF TypeOK
<1>3. TaskStands
  BY DEF Init, TaskStands, NoTask
<1>4. EnsureStands /\ ClearStands
  BY DEF Init, EnsureStands, ClearStands, Nothing
<1>5. CountedIsCached
  BY DEF Init, CountedIsCached
<1> QED BY <1>2, <1>3, <1>4, <1>5 DEF Inv

\* ensure_chapter returns, to the task or to the reader.
LEMMA ReturnsInv ==
    ASSUME Inv, NEW ok \in BOOLEAN, Returns(ok), doing.op \in {"cache", "open"},
           screen' = screen, ok => legacy' /\ doing.chapter \in live'.doc,
           Cached \subseteq Cached'
    PROVE  /\ task' \in Task /\ doing' \in Handler
           /\ TaskStands' /\ EnsureStands' /\ ClearStands' /\ CountedIsCached'
<1>1. TypeOK /\ TaskStands /\ EnsureStands /\ CountedIsCached
  BY DEF Inv
<1>2. doing' = Nothing
  BY DEF Returns
<1>3. doing' \in Handler /\ EnsureStands' /\ ClearStands'
  <2>1. doing' \in Handler
    BY <1>2, AtRest
  <2>2. doing'.op = "nothing"
    BY <1>2 DEF Nothing
  <2> QED BY <2>1, <2>2 DEF EnsureStands, ClearStands
<1>4. CASE doing.op = "open"
  <2>1. task' = task
    BY <1>4 DEF Returns
  <2>2. task' \in Task /\ TaskStands'
    BY <1>1, <2>1 DEF TypeOK, TaskStands
  <2>3. CountedIsCached'
    BY <1>1, <2>1, CountKept
  <2> QED BY <1>3, <2>2, <2>3
<1>5. CASE doing.op = "cache"
  <2> DEFINE t == StepResult(ok)
  <2>1. task' = AfterStep(t)
    BY <1>5 DEF Returns
  <2>2. /\ t \in Task
        /\ t.mode = task.mode /\ t.stage = "cache" /\ t.outcome = "none"
        /\ t.cancelled = task.cancelled /\ t.jobCancelled = task.jobCancelled
        /\ t.index = task.index + 1
        /\ t.completed = task.completed + (IF ok THEN 1 ELSE 0)
        /\ t.failed = task.failed \union (IF ok THEN {} ELSE {task.index})
        /\ t.failed \subseteq 1..t.index - 1
        /\ IF t.index <= LastChapter THEN t.status = "running"
           ELSE t.status = IF t.failed = {} THEN "done" ELSE "partial"
    BY <1>1, <1>5, StepResultFields
  <2> HIDE DEF t
  <2>3. /\ task.stage = "cache" /\ task.status = "running" /\ screen = "task"
        /\ task.index \in Chapters /\ doing.chapter = task.index
        /\ task.failed \in SUBSET (1..task.index - 1) /\ task.completed < task.index
        /\ task.cancelled => task.jobCancelled
        /\ task.completed \in Nat
    BY <1>1, <1>5 DEF TaskStands, EnsureStands, TypeOK, Task
  <2>4. /\ task' \in Task
        /\ task'.cancelled = t.cancelled /\ task'.jobCancelled = t.jobCancelled
        /\ task'.index = t.index /\ task'.completed = t.completed /\ task'.failed = t.failed
        /\ task'.status = t.status
        /\ IF t.status = "running" THEN task'.stage = "cache" /\ task'.outcome = "none"
           ELSE IF t.status = "done" /\ t.mode = "export"
                THEN task'.stage = "export" /\ task'.outcome = "none"
                ELSE task'.stage = "done" /\ task'.outcome = t.status
    BY <2>1, <2>2 DEF AfterStep, Task, Outcomes
  <2>5. TaskStands'
    BY <2>2, <2>3, <2>4, ChaptersAssumption DEF TaskStands, Chapters
  <2>6. CountedIsCached'
    <3>1. /\ Counted(task) \subseteq Cached
          /\ task.completed = Cardinality(Counted(task))
      BY <1>1, <2>3 DEF CountedIsCached, Counted
    <3>2. task.index \in Nat /\ task'.index - 1 = task.index
      BY <2>2, <2>3, <2>4 DEF Chapters
    <3>3. CASE ok
      <4>1. Counted(task') = Counted(task) \union {task.index}
            /\ Cardinality(Counted(task')) = task.completed + 1
        BY <2>2, <2>3, <2>4, <3>1, <3>2, <3>3, CountOneMore DEF Counted
      <4>2. task.index \in Cached'
        BY <2>3, <3>3 DEF Cached, HasChapter
      <4> QED BY <2>2, <2>4, <3>1, <3>3, <4>1, <4>2 DEF CountedIsCached, Counted
    <3>4. CASE ~ok
      <4>1. Counted(task') = Counted(task)
        BY <2>2, <2>3, <2>4, <3>2, <3>4 DEF Counted
      <4>2. task'.completed = task.completed
        BY <2>2, <2>3, <2>4, <3>4
      <4> QED BY <1>1, <2>3, <4>1, <4>2, CountKept
    <3> QED BY <3>3, <3>4
  <2> QED BY <1>3, <2>4, <2>5, <2>6
<1> QED BY <1>4, <1>5

\* The next file operation of ensure_chapter, which leaves the task alone
LEMMA GoesInv ==
    ASSUME Inv, NEW at \in {"doc", "raw", "map", "notes"}, Goes(at), UNCHANGED <<screen, task>>,
           doing.op \in {"cache", "open"}, Cached \subseteq Cached',
           legacy', at # "doc" => doing.chapter \in live'.doc
    PROVE  /\ doing' \in Handler
           /\ TaskStands' /\ EnsureStands' /\ ClearStands' /\ CountedIsCached'
<1>1. TypeOK /\ TaskStands /\ EnsureStands /\ CountedIsCached
  BY DEF Inv
<1>2. doing' \in Handler /\ doing'.op = doing.op /\ doing'.chapter = doing.chapter /\ doing'.at = at
  BY <1>1 DEF Goes, TypeOK, Handler, Stops
<1>3. EnsureStands' /\ ClearStands'
  BY <1>1, <1>2 DEF EnsureStands, ClearStands, HasChapter
<1>4. TaskStands' /\ CountedIsCached'
  BY <1>1, CountKept DEF TaskStands
<1> QED BY <1>2, <1>3, <1>4

\* A step of the task while no handler is under way, that leaves its count alone
LEMMA TaskStepInv ==
    ASSUME Inv, Idle, UNCHANGED <<screen, doing>>, Cached \subseteq Cached',
           task' \in Task, TaskStands', task'.completed = task.completed,
           Counted(task') = Counted(task)
    PROVE  doing' \in Handler /\ EnsureStands' /\ ClearStands' /\ CountedIsCached'
<1>1. TypeOK /\ CountedIsCached
  BY DEF Inv
<1>2. doing' \in Handler /\ EnsureStands' /\ ClearStands'
  BY <1>1 DEF Idle, TypeOK, EnsureStands, ClearStands
<1>3. CountedIsCached'
  BY <1>1, CountKept
<1> QED BY <1>2, <1>3

\* A step of the clean-up on the detail screen
LEMMA ClearStepInv ==
    ASSUME Inv, doing.op = "clear", UNCHANGED <<screen, task>>, doing' \in Handler,
           doing'.op \in {"clear", "nothing"}, ClearStands'
    PROVE  TaskStands' /\ EnsureStands' /\ CountedIsCached'
<1>1. TaskStands /\ ClearStands
  BY DEF Inv
<1>2. screen' = "detail"
  BY <1>1 DEF ClearStands
<1> QED BY <1>1, <1>2, NothingCounted DEF TaskStands, EnsureStands

LEMMA EnsureChapterInv == Inv /\ EnsureChapter => Inv'
<1> SUFFICES ASSUME Inv, EnsureChapter PROVE Inv'
  OBVIOUS
<1>1. TypeOK /\ TaskStands /\ EnsureStands /\ ClearStands
  BY DEF Inv
<1>2. live \in Tree /\ legacy \in BOOLEAN /\ doing \in Handler
  BY <1>1 DEF TypeOK
<1> DEFINE Left == UNCHANGED <<screen, notes, trash, strays, notice, events>>
<1> DEFINE Done == /\ task' \in Task /\ doing' \in Handler
                   /\ TaskStands' /\ EnsureStands' /\ ClearStands' /\ CountedIsCached'
<1> DEFINE Files == legacy' \in BOOLEAN /\ live' \in Tree
<1>3. ASSUME Left, Done, Files PROVE Inv'
  BY <1>1, <1>3 DEF TypeOK, Inv
<1>4. ASSUME UNCHANGED task PROVE task' \in Task
  BY <1>1, <1>4 DEF TypeOK
<1>5. CASE Fetch
  <2>0. doing.op \in {"cache", "open"} /\ Left /\ live' = live
    BY <1>5 DEF Fetch, Ensuring
  <2>1. legacy' \in BOOLEAN /\ (legacy => legacy')
    <3>1. legacy' \in {legacy, TRUE}
      BY <1>5, Zenon DEF Fetch
    <3>2. CASE legacy' = legacy
      BY <1>2, <3>2, Zenon
    <3>3. CASE legacy' = TRUE
      BY <3>3
    <3> QED BY <3>1, <3>2, <3>3
  <2>2. Cached \subseteq Cached' /\ Files
    BY <1>2, <2>0, <2>1, CacheGrows
  <2>3. CASE Returns(FALSE)
    BY <1>3, <2>0, <2>2, <2>3, ReturnsInv
  <2>4. CASE Goes("doc") /\ legacy' = TRUE /\ UNCHANGED task
    BY <1>3, <1>4, <2>0, <2>2, <2>4, GoesInv
  <2> QED BY <1>5, <2>3, <2>4 DEF Fetch
<1>6. CASE WriteDoc
  <2>1. doing.op \in {"cache", "open"} /\ Left /\ legacy' = legacy
        /\ legacy' = TRUE /\ doing.chapter \in Chapters
    BY <1>1, <1>2, <1>6 DEF WriteDoc, Ensuring, EnsureStands
  <2>2. CASE Returns(FALSE) /\ UNCHANGED live
    <3>1. Cached \subseteq Cached' /\ Files
      BY <1>2, <2>1, <2>2, CacheGrows
    <3> QED BY <1>3, <2>1, <2>2, <3>1, ReturnsInv
  <2>3. CASE Goes("raw") /\ UNCHANGED task /\ \E torn \in BOOLEAN : live' = Written(torn)
    <3>1. live' \in Tree /\ live'.doc = live.doc \union {doing.chapter}
      BY <1>2, <2>1, <2>3, WrittenFields
    <3>2. Cached \subseteq Cached' /\ Files
      BY <1>2, <2>1, <3>1, CacheGrows
    <3> QED BY <1>3, <1>4, <2>1, <2>3, <3>1, <3>2, GoesInv
  <2> QED BY <1>6, <2>2, <2>3 DEF WriteDoc
<1>7. CASE WriteRaw
  <2>1. doing.op \in {"cache", "open"} /\ Left /\ legacy' = legacy /\ UNCHANGED task /\ Goes("map")
        /\ legacy' /\ doing.chapter \in live.doc /\ doing.chapter \in Chapters
    BY <1>1, <1>7 DEF WriteRaw, Ensuring, EnsureStands, HasChapter
  <2>2. live' \in Tree /\ live'.doc = live.doc
    BY <1>2, <1>7, <2>1 DEF WriteRaw, Tree
  <2>3. Cached \subseteq Cached' /\ Files
    BY <1>2, <2>1, <2>2, CacheGrows
  <2> QED BY <1>3, <1>4, <2>1, <2>2, <2>3, GoesInv
<1>8. CASE WriteMap
  <2>1. doing.op \in {"cache", "open"} /\ Left /\ legacy' = legacy /\ UNCHANGED task /\ Goes("notes")
        /\ legacy' /\ doing.chapter \in live.doc /\ doing.chapter \in Chapters
    BY <1>1, <1>8 DEF WriteMap, Ensuring, EnsureStands, HasChapter
  <2>2. live' \in Tree /\ live'.doc = live.doc
    BY <1>2, <1>8, <2>1 DEF WriteMap, Tree
  <2>3. Cached \subseteq Cached' /\ Files
    BY <1>2, <2>1, <2>2, CacheGrows
  <2> QED BY <1>3, <1>4, <2>1, <2>2, <2>3, GoesInv
<1>9. CASE WriteNotes
  <2>1. doing.op \in {"cache", "open"} /\ Left /\ legacy' = legacy /\ Returns(TRUE)
        /\ legacy' /\ doing.chapter \in live.doc /\ doing.chapter \in Chapters
    BY <1>1, <1>9 DEF WriteNotes, Ensuring, EnsureStands, HasChapter
  <2>2. live' \in Tree /\ live'.doc = live.doc
    BY <1>2, <1>9, <2>1 DEF WriteNotes, Tree
  <2>3. Cached \subseteq Cached' /\ Files
    BY <1>2, <2>1, <2>2, CacheGrows
  <2> QED BY <1>3, <2>1, <2>2, <2>3, ReturnsInv
<1> QED BY <1>5, <1>6, <1>7, <1>8, <1>9 DEF EnsureChapter

LEMMA TickInv == Inv /\ Tick => Inv'
<1> SUFFICES ASSUME Inv, Tick PROVE Inv'
  OBVIOUS
<1>1. TypeOK /\ TaskStands /\ EnsureStands /\ ClearStands /\ CountedIsCached
  BY DEF Inv
<1>2. live \in Tree /\ legacy \in BOOLEAN /\ doing \in Handler /\ task \in Task
  BY <1>1 DEF TypeOK
<1> DEFINE Left == UNCHANGED <<screen, notes, trash, strays, notice, events>>
<1> DEFINE Done == /\ task' \in Task /\ doing' \in Handler
                   /\ TaskStands' /\ EnsureStands' /\ ClearStands' /\ CountedIsCached'
<1> DEFINE Files == legacy' \in BOOLEAN /\ live' \in Tree
<1>3. ASSUME Left, Done, Files PROVE Inv'
  BY <1>1, <1>3 DEF TypeOK, Inv
<1>4. ASSUME UNCHANGED <<live, legacy>> PROVE Files /\ Cached \subseteq Cached'
  BY <1>2, <1>4, CacheGrows
<1>5. CASE TickCancelled
  <2>1. Idle /\ Left /\ UNCHANGED <<live, legacy, doing>> /\ task.stage # "done"
        /\ task.status # "running" /\ screen = "task"
    BY <1>5 DEF TickCancelled
  <2>2. /\ task' \in Task
        /\ task'.stage = "done" /\ task'.outcome = "cancelled"
        /\ task'.status = task.status /\ task'.index = task.index
        /\ task'.completed = task.completed /\ task'.failed = task.failed
        /\ task'.cancelled = task.cancelled /\ task'.jobCancelled = task.jobCancelled
    BY <1>1, <1>5, FinishFields DEF TickCancelled, Outcomes
  <2>3. TaskStands'
    BY <1>1, <2>1, <2>2 DEF TaskStands
  <2> QED BY <1>3, <1>4, <2>1, <2>2, <2>3, TaskStepInv DEF Counted
<1>6. CASE TickCatalog
  <2>1. Idle /\ Left /\ UNCHANGED doing /\ screen = "task" /\ task.stage = "catalog" /\ ~task.cancelled
    BY <1>6 DEF TickCatalog, Ticks
  <2>2. PICK online \in BOOLEAN, space \in BOOLEAN, written \in BOOLEAN :
          LET found == online \/ (legacy /\ live.catalog)
              writes == online \/ (found /\ space) IN
          /\ IF ~found THEN Finishes("no_catalog")
             ELSE IF ~space THEN Finishes("no_job")
             ELSE task' = [task EXCEPT !.stage = "cache", !.status = "running"]
          /\ legacy' = (legacy \/ writes)
          /\ live' = IF writes THEN [live EXCEPT !.catalog = written] ELSE live
    BY <1>6 DEF TickCatalog
  <2>3. legacy' \in BOOLEAN /\ (legacy => legacy')
    BY <1>2, <2>2, Zenon
  <2>4. live' \in Tree /\ live'.doc = live.doc
    BY <1>2, <2>2 DEF Tree
  <2>5. Files /\ Cached \subseteq Cached'
    BY <2>3, <2>4, CacheGrows
  <2>6. CASE \E outcome \in {"no_catalog", "no_job"} : Finishes(outcome)
    <3>1. PICK outcome \in {"no_catalog", "no_job"} : Finishes(outcome)
      BY <2>6
    <3>2. /\ task' \in Task
          /\ task'.stage = "done" /\ task'.outcome = outcome
          /\ task'.status = task.status /\ task'.index = task.index
          /\ task'.completed = task.completed /\ task'.failed = task.failed
          /\ task'.cancelled = task.cancelled /\ task'.jobCancelled = task.jobCancelled
      BY <1>1, <3>1, FinishFields DEF Outcomes
    <3>3. TaskStands'
      BY <1>1, <2>1, <3>2 DEF TaskStands
    <3> QED BY <1>3, <2>1, <2>5, <3>2, <3>3, TaskStepInv DEF Counted
  <2>7. CASE task' = [task EXCEPT !.stage = "cache", !.status = "running"]
    <3>1. /\ task' \in Task
          /\ task'.stage = "cache" /\ task'.status = "running" /\ task'.outcome = task.outcome
          /\ task'.index = task.index /\ task'.completed = task.completed
          /\ task'.failed = task.failed /\ task'.cancelled = task.cancelled
      BY <1>2, <2>7 DEF Task
    <3>2. TaskStands'
      BY <1>1, <2>1, <3>1, ChaptersAssumption DEF TaskStands, Chapters
    <3> QED BY <1>3, <2>1, <2>5, <3>1, <3>2, TaskStepInv DEF Counted
  <2> QED BY <2>2, <2>6, <2>7
<1>7. CASE TickChapter
  <2>1. Idle /\ Left /\ UNCHANGED <<live, legacy>> /\ screen = "task" /\ task.stage = "cache"
    BY <1>7 DEF TickChapter, Ticks
  <2>2. /\ task.status = "running" /\ task.outcome = "none" /\ task.index \in Chapters
        /\ task.failed \subseteq 1..task.index - 1 /\ task.completed < task.index
        /\ task.cancelled => task.jobCancelled
    BY <1>1, <2>1 DEF TaskStands
  <2>3. CASE task' = AfterStep([task EXCEPT !.status = "cancelled"]) /\ UNCHANGED doing
    <3>1. /\ task' \in Task
          /\ task'.stage = "done" /\ task'.outcome = "cancelled" /\ task'.status = "cancelled"
          /\ task'.index = task.index /\ task'.completed = task.completed
          /\ task'.failed = task.failed
      BY <1>2, <2>3 DEF AfterStep, Task, Outcomes
    <3>2. TaskStands'
      BY <2>2, <3>1 DEF TaskStands
    <3> QED BY <1>3, <1>4, <2>1, <2>3, <3>1, <3>2, TaskStepInv DEF Counted
  <2>4. CASE /\ task' = AfterStep([task EXCEPT !.status = "storage_full",
                                               !.failed = @ \union {task.index}])
             /\ UNCHANGED doing
    <3>1. /\ task' \in Task
          /\ task'.stage = "done" /\ task'.outcome = "storage_full"
          /\ task'.status = "storage_full"
          /\ task'.index = task.index /\ task'.completed = task.completed
          /\ task'.failed = task.failed \union {task.index}
      BY <1>2, <2>2, <2>4 DEF AfterStep, Task, Outcomes
    <3>2. TaskStands'
      BY <2>2, <3>1 DEF TaskStands
    <3>3. Counted(task') = Counted(task)
      BY <2>2, <3>1, ChaptersAssumption DEF Counted, Chapters
    <3> QED BY <1>3, <1>4, <2>1, <2>4, <3>1, <3>2, <3>3, TaskStepInv
  <2>5. CASE Ensure("cache", task.index) /\ UNCHANGED task
    <3>1. doing'.op = "cache" /\ doing'.chapter = task.index
          /\ doing'.at = (IF HasChapter(task.index) THEN "notes" ELSE "fetch")
      BY <2>2, <2>5, EnsureFields
    <3>2. doing' \in Handler
      BY <2>2, <2>5, EnsureFields
    <3>3. EnsureStands' /\ ClearStands'
      BY <2>1, <2>2, <2>5, <3>1 DEF EnsureStands, ClearStands, HasChapter
    <3>4. TaskStands' /\ CountedIsCached'
      BY <1>1, <1>4, <2>1, <2>5, CountKept DEF TaskStands
    <3> QED BY <1>2, <1>3, <1>4, <2>1, <2>5, <3>2, <3>3, <3>4
  <2> QED BY <1>7, <2>3, <2>4, <2>5 DEF TickChapter
<1>8. CASE TickExport
  <2>1. Idle /\ Left /\ UNCHANGED <<live, legacy, doing>> /\ screen = "task"
        /\ task.stage = "export"
    BY <1>8 DEF TickExport, Ticks
  <2>2. PICK outcome \in {"exported", "export_failed"} : Finishes(outcome)
    BY <1>8 DEF TickExport
  <2>3. /\ task' \in Task
        /\ task'.stage = "done" /\ task'.outcome = outcome
        /\ task'.status = task.status /\ task'.index = task.index
        /\ task'.completed = task.completed /\ task'.failed = task.failed
        /\ task'.cancelled = task.cancelled /\ task'.jobCancelled = task.jobCancelled
    BY <1>1, <2>2, FinishFields DEF Outcomes
  <2>4. TaskStands'
    BY <1>1, <2>1, <2>3 DEF TaskStands
  <2> QED BY <1>3, <1>4, <2>1, <2>3, <2>4, TaskStepInv DEF Counted
<1> QED BY <1>5, <1>6, <1>7, <1>8 DEF Tick

LEMMA ClearBookInv == Inv /\ ClearBook => Inv'
<1> SUFFICES ASSUME Inv, ClearBook PROVE Inv'
  OBVIOUS
<1>1. TypeOK /\ ClearStands
  BY DEF Inv
<1>2. /\ live \in Tree /\ trash \in Tree /\ strays \subseteq Directories /\ legacy \in BOOLEAN
      /\ doing \in Handler /\ task \in Task /\ notice \in {"none", "cleared", "failed"}
  BY <1>1 DEF TypeOK
<1> DEFINE Files == /\ legacy' \in BOOLEAN /\ live' \in Tree /\ trash' \in Tree
                    /\ strays' \subseteq Directories
<1>3. doing.op = "clear" /\ UNCHANGED <<screen, task, notes, events>>
  BY DEF ClearBook, RenameCanonical, RemoveCanonical, RenameLegacy, RemoveLegacy, ReportClear,
         Clearing
<1>4. ASSUME Files, doing' \in Handler, doing'.op \in {"clear", "nothing"}, ClearStands',
             notice' \in {"none", "cleared", "failed"}
      PROVE  Inv'
  <2>1. TaskStands' /\ EnsureStands' /\ CountedIsCached'
    BY <1>3, <1>4, ClearStepInv
  <2> QED BY <1>1, <1>3, <1>4, <2>1 DEF TypeOK, Inv
<1>5. ASSUME NEW at \in Stops, NEW fault \in BOOLEAN, Continues(at, fault)
      PROVE  /\ doing' \in Handler /\ doing'.op = "clear" /\ doing'.at = at
             /\ ~doing'.fault => ~doing.fault /\ ~fault
             /\ doing'.unmeasured = doing.unmeasured /\ doing'.earlier = doing.earlier
  BY <1>2, <1>3, <1>5 DEF Continues, Handler
<1>6. ASSUME NEW at \in Stops, NEW directory \in Directories, Overlooks(at, directory)
      PROVE  /\ doing' \in Handler /\ doing'.op = "clear" /\ doing'.at = at
             /\ doing'.fault = doing.fault /\ doing'.earlier = doing.earlier
             /\ doing'.unmeasured = doing.unmeasured \union {directory}
  BY <1>2, <1>3, <1>6 DEF Overlooks, Handler
<1>7. ASSUME NEW t \in Tree PROVE Remains(t) \subseteq Tree
  BY <1>7 DEF Remains, Tree
<1>8. ASSUME doing'.op = "clear", doing'.fault PROVE ClearStands'
  BY <1>1, <1>3, <1>8 DEF ClearStands
<1>9. CASE RenameCanonical
  <2>1. UNCHANGED <<legacy, strays, notice>>
    BY <1>9 DEF RenameCanonical
  <2>2. CASE Continues("remove_canonical", FALSE) /\ trash' = live /\ live' = NoTree
    <3>1. Files
      BY <1>2, <2>1, <2>2, AtRest
    <3>2. /\ doing' \in Handler /\ doing'.op = "clear" /\ doing'.at = "remove_canonical"
          /\ ~doing'.fault => ~doing.fault
          /\ doing'.earlier = doing.earlier
      BY <1>5, <2>2 DEF Stops
    <3>3. ClearStands'
      BY <1>1, <1>3, <2>1, <2>2, <3>2 DEF ClearStands
    <3> QED BY <1>2, <1>4, <2>1, <3>1, <3>2, <3>3
  <2>3. CASE Continues("rename_legacy", TRUE) /\ UNCHANGED <<live, trash>>
    <3>1. doing' \in Handler /\ doing'.op = "clear" /\ doing'.fault
      BY <1>2, <1>3, <2>3 DEF Continues, Handler, Stops
    <3> QED BY <1>2, <1>4, <1>8, <2>1, <2>3, <3>1
  <2>4. CASE Overlooks("rename_legacy", "canonical") /\ UNCHANGED <<live, trash>>
    <3>1. /\ doing' \in Handler /\ doing'.op = "clear" /\ doing'.at = "rename_legacy"
          /\ doing'.fault = doing.fault /\ doing'.earlier = doing.earlier
          /\ "canonical" \in doing'.unmeasured
      BY <1>6, <2>4 DEF Stops, Directories
    <3>2. ClearStands'
      BY <1>1, <1>3, <2>1, <3>1 DEF ClearStands
    <3> QED BY <1>2, <1>4, <2>1, <2>4, <3>1, <3>2
  <2>5. CASE live = NoTree /\ Continues("rename_legacy", FALSE) /\ UNCHANGED <<live, trash>>
    <3>1. /\ doing' \in Handler /\ doing'.op = "clear" /\ doing'.at = "rename_legacy"
          /\ ~doing'.fault => ~doing.fault
          /\ doing'.earlier = doing.earlier
      BY <1>5, <2>5 DEF Stops
    <3>2. ClearStands'
      BY <1>1, <1>3, <2>1, <2>5, <3>1 DEF ClearStands
    <3> QED BY <1>2, <1>4, <2>1, <2>5, <3>1, <3>2
  <2> QED BY <1>9, <2>2, <2>3, <2>4, <2>5 DEF RenameCanonical
<1>10. CASE RemoveCanonical
  <2>1. UNCHANGED <<legacy, notice>> /\ trash' = NoTree /\ doing.at = "remove_canonical"
    BY <1>10 DEF RemoveCanonical, Clearing
  <2>2. CASE Continues("rename_legacy", FALSE) /\ UNCHANGED <<live, strays>>
    <3>1. /\ doing' \in Handler /\ doing'.op = "clear" /\ doing'.at = "rename_legacy"
          /\ ~doing'.fault => ~doing.fault
          /\ doing'.unmeasured = doing.unmeasured /\ doing'.earlier = doing.earlier
      BY <1>5, <2>2 DEF Stops
    <3>2. ClearStands'
      BY <1>1, <1>3, <2>1, <2>2, <3>1 DEF ClearStands
    <3> QED BY <1>2, <1>4, <2>1, <2>2, <3>1, <3>2, AtRest
  <2>3. CASE Continues("rename_legacy", TRUE) /\ PutBack
    <3>1. doing' \in Handler /\ doing'.op = "clear" /\ doing'.fault
      BY <1>2, <1>3, <2>3 DEF Continues, Handler, Stops
    <3>2. live' \in Tree /\ strays' \subseteq Directories
      BY <1>2, <1>7, <2>3 DEF PutBack, Directories
    <3> QED BY <1>2, <1>4, <1>8, <2>1, <3>1, <3>2, AtRest
  <2> QED BY <1>10, <2>2, <2>3 DEF RemoveCanonical
<1>11. CASE RenameLegacy
  <2>1. UNCHANGED <<live, trash, strays, notice>> /\ doing.at = "rename_legacy"
    BY <1>11 DEF RenameLegacy, Clearing
  <2>2. CASE legacy /\ Continues("report", TRUE) /\ UNCHANGED legacy
    <3>1. doing' \in Handler /\ doing'.op = "clear" /\ doing'.fault
      BY <1>2, <1>3, <2>2 DEF Continues, Handler, Stops
    <3> QED BY <1>2, <1>4, <1>8, <2>1, <2>2, <3>1
  <2>3. CASE /\ Continues("remove_legacy", FALSE) \/ Continues("report", FALSE)
             /\ legacy' = FALSE
    <3>1. /\ doing' \in Handler /\ doing'.op = "clear"
          /\ ~doing'.fault => ~doing.fault
          /\ doing'.unmeasured = doing.unmeasured /\ doing'.earlier = doing.earlier
      BY <1>5, <2>3 DEF Stops
    <3>2. ClearStands'
      BY <1>1, <1>3, <2>1, <2>3, <3>1 DEF ClearStands
    <3> QED BY <1>2, <1>4, <2>1, <2>3, <3>1, <3>2
  <2>4. CASE legacy /\ Overlooks("report", "legacy") /\ UNCHANGED legacy
    <3>1. /\ doing' \in Handler /\ doing'.op = "clear"
          /\ doing'.fault = doing.fault /\ doing'.earlier = doing.earlier
          /\ doing'.unmeasured = doing.unmeasured \union {"legacy"}
      BY <1>6, <2>4 DEF Stops, Directories
    <3>2. ClearStands'
      BY <1>1, <1>3, <2>1, <3>1 DEF ClearStands
    <3> QED BY <1>2, <1>4, <2>1, <2>4, <3>1, <3>2
  <2>5. CASE ~legacy /\ UNCHANGED legacy
    <3>1. legacy' = FALSE
      BY <1>2, <2>5, Zenon
    <3> QED BY <1>11, <2>2, <2>3, <2>5, <3>1 DEF RenameLegacy
  <2> QED BY <1>11, <2>2, <2>3, <2>4, <2>5 DEF RenameLegacy
<1>12. CASE RemoveLegacy
  <2>1. UNCHANGED <<live, trash, notice>> /\ doing.at = "remove_legacy"
    BY <1>12 DEF RemoveLegacy, Clearing
  <2>2. CASE Continues("report", FALSE) /\ UNCHANGED <<legacy, strays>>
    <3>1. /\ doing' \in Handler /\ doing'.op = "clear"
          /\ ~doing'.fault => ~doing.fault
          /\ doing'.unmeasured = doing.unmeasured /\ doing'.earlier = doing.earlier
      BY <1>5, <2>2 DEF Stops
    <3>2. ClearStands'
      BY <1>1, <1>3, <2>1, <2>2, <3>1 DEF ClearStands
    <3> QED BY <1>2, <1>4, <2>1, <2>2, <3>1, <3>2
  <2>3. CASE /\ Continues("report", TRUE)
             /\ legacy' \in {legacy, TRUE} /\ strays' \subseteq strays \union {"legacy"}
    <3>1. doing' \in Handler /\ doing'.op = "clear" /\ doing'.fault
      BY <1>2, <1>3, <2>3 DEF Continues, Handler, Stops
    <3>2. strays' \subseteq Directories
      BY <1>2, <2>3 DEF Directories
    <3>3. legacy' \in BOOLEAN
      BY <1>2, <2>3, Zenon
    <3> QED BY <1>2, <1>4, <1>8, <2>1, <3>1, <3>2, <3>3
  <2>4. CASE Continues("report", TRUE) /\ legacy' = TRUE /\ UNCHANGED strays
    BY <2>3, <2>4
  <2>5. CASE Continues("report", TRUE) /\ UNCHANGED legacy /\ strays' = strays \union {"legacy"}
    BY <2>3, <2>5
  <2> QED BY <1>12, <2>2, <2>4, <2>5 DEF RemoveLegacy
<1>13. CASE ReportClear
  <2>1. UNCHANGED <<live, legacy, trash, strays>> /\ doing' = Nothing
        /\ notice' \in {"none", "cleared", "failed"}
    BY <1>13 DEF ReportClear
  <2>2. doing' \in Handler /\ doing'.op = "nothing"
    BY <2>1, AtRest DEF Nothing
  <2>3. ClearStands'
    BY <2>2 DEF ClearStands
  <2> QED BY <1>2, <1>4, <2>1, <2>2, <2>3
<1> QED BY <1>9, <1>10, <1>11, <1>12, <1>13 DEF ClearBook

LEMMA UserInv == Inv /\ (User \/ Crash) => Inv'
<1> SUFFICES ASSUME Inv, User \/ Crash PROVE Inv'
  OBVIOUS
<1>1. TypeOK /\ TaskStands /\ EnsureStands /\ ClearStands /\ CountedIsCached
  BY DEF Inv
<1>2. live \in Tree /\ trash \in Tree /\ strays \subseteq Directories
      /\ doing \in Handler /\ task \in Task
      /\ legacy \in BOOLEAN /\ notes \in BOOLEAN
      /\ screen \in {"detail", "task"} /\ notice \in {"none", "cleared", "failed"}
      /\ events \in 0..MaxEvents
  BY <1>1 DEF TypeOK
<1>3. events' \in 0..MaxEvents /\ UNCHANGED <<live, legacy>>
  BY <1>2, EventsAssumption DEF User, Crash, StartTask, CancelTask, LeaveTask, OpenChapter,
     SwitchNotes, StartClear, Event
<1>4. Cached \subseteq Cached'
  BY <1>3 DEF Cached, HasChapter
<1>5. ASSUME trash' \in Tree, strays' \subseteq Directories, notes' \in BOOLEAN, screen' \in {"detail", "task"},
             notice' \in {"none", "cleared", "failed"},
             task' \in Task, doing' \in Handler,
             TaskStands', EnsureStands', ClearStands', CountedIsCached'
      PROVE  Inv'
  BY <1>2, <1>3, <1>5 DEF TypeOK, Inv
<1>6. ASSUME doing'.op = "nothing" PROVE EnsureStands' /\ ClearStands'
  BY <1>6 DEF EnsureStands, ClearStands
<1>7. ASSUME Idle, UNCHANGED doing PROVE doing' \in Handler /\ EnsureStands' /\ ClearStands'
  BY <1>2, <1>6, <1>7 DEF Idle
<1>8. CASE StartTask
  <2>1. Idle /\ screen' = "task" /\ UNCHANGED <<doing, notes, trash, strays, notice>>
    BY <1>8 DEF StartTask, Event
  <2>2. PICK mode \in {"cache", "export"} :
          task' = [NoTask EXCEPT !.mode = mode, !.stage = "catalog"]
    BY <1>8 DEF StartTask
  <2>3. /\ task' \in Task
        /\ task'.stage = "catalog" /\ task'.status = "none" /\ task'.outcome = "none"
        /\ task'.index = 1 /\ task'.completed = 0 /\ task'.failed = {}
    <3>1. NoTask.status = "none" /\ NoTask.outcome = "none" /\ NoTask.index = 1
          /\ NoTask.completed = 0 /\ NoTask.failed = {}
      BY DEF NoTask
    <3> QED BY <2>2, <3>1, AtRest DEF Task
  <2>4. TaskStands'
    BY <2>1, <2>3 DEF TaskStands
  <2>5. CountedIsCached'
    <3>1. (1..0) \ {} = {} /\ Cardinality({}) = 0
      BY FS_EmptySet
    <3> QED BY <2>3, <3>1 DEF CountedIsCached
  <2> QED BY <1>2, <1>5, <1>7, <2>1, <2>3, <2>4, <2>5
<1>9. CASE CancelTask
  <2>1. Idle /\ UNCHANGED <<screen, doing, notes, trash, strays, notice>> /\ task.stage # "done"
    BY <1>9 DEF CancelTask, Event
  <2>2. /\ task' \in Task
        /\ task'.stage = task.stage /\ task'.outcome = task.outcome
        /\ task'.status = task.status /\ task'.index = task.index
        /\ task'.completed = task.completed /\ task'.failed = task.failed
        /\ task.status = "running" => task'.jobCancelled
    BY <1>2, <1>9 DEF CancelTask, Task
  <2>3. TaskStands'
    BY <1>1, <2>1, <2>2 DEF TaskStands
  <2>4. CountedIsCached'
    BY <1>1, <1>4, <2>1, <2>2, CountKept DEF Counted
  <2> QED BY <1>2, <1>5, <1>7, <2>1, <2>2, <2>3, <2>4
<1>10. CASE LeaveTask
  <2>1. Idle /\ screen' = "detail" /\ UNCHANGED <<task, doing, notes, trash, strays, notice>>
        /\ task.stage = "done"
    BY <1>10 DEF LeaveTask, Event
  <2>2. TaskStands' /\ CountedIsCached'
    BY <1>1, <2>1, NothingCounted DEF TaskStands
  <2> QED BY <1>2, <1>5, <1>7, <2>1, <2>2
<1>11. CASE OpenChapter
  <2>1. screen = "detail" /\ UNCHANGED <<screen, task, notes, trash, strays, notice>>
    BY <1>11 DEF OpenChapter
  <2>2. PICK c \in Chapters : Ensure("open", c)
    BY <1>11 DEF OpenChapter
  <2>3. doing' \in Handler /\ doing'.op = "open" /\ doing'.chapter = c
        /\ doing'.at = (IF HasChapter(c) THEN "notes" ELSE "fetch")
    BY <2>2, EnsureFields
  <2>4. EnsureStands' /\ ClearStands'
    BY <1>3, <2>1, <2>3 DEF EnsureStands, ClearStands, HasChapter
  <2>5. TaskStands' /\ CountedIsCached'
    BY <1>1, <2>1, NothingCounted DEF TaskStands
  <2> QED BY <1>2, <1>5, <2>1, <2>3, <2>4, <2>5
<1>12. CASE SwitchNotes
  <2>1. Idle /\ notes' = ~notes /\ UNCHANGED <<screen, task, doing, trash, strays, notice>>
    BY <1>12 DEF SwitchNotes, Event
  <2>2. notes' \in BOOLEAN
    BY <2>1
  <2>3. TaskStands' /\ CountedIsCached'
    BY <1>1, <1>4, <2>1, CountKept DEF TaskStands
  <2> QED BY <1>2, <1>5, <1>7, <2>1, <2>2, <2>3
<1>13. CASE StartClear
  <2>1. screen = "detail" /\ UNCHANGED <<screen, task, notes, trash, strays>> /\ notice' = "none"
    BY <1>13 DEF StartClear
  <2>2. doing' \in Handler /\ doing'.op = "clear" /\ doing'.at = "rename_canonical"
        /\ doing'.earlier = strays
    <3>1. doing' = [Nothing EXCEPT !.op = "clear", !.at = "rename_canonical",
                                   !.earlier = strays]
      BY <1>13 DEF StartClear
    <3> QED BY <1>2, <3>1, AtRest DEF Handler, Stops
  <2>3. EnsureStands' /\ ClearStands'
    BY <2>1, <2>2 DEF EnsureStands, ClearStands
  <2>4. TaskStands' /\ CountedIsCached'
    BY <1>1, <2>1, NothingCounted DEF TaskStands
  <2> QED BY <1>2, <1>5, <2>1, <2>2, <2>3, <2>4
<1>14. CASE Crash
  <2>1. screen' = "detail" /\ task' = NoTask /\ doing' = Nothing /\ trash' = NoTree
        /\ notice' = "none" /\ notes' = notes /\ strays' \subseteq Directories
    BY <1>2, <1>14 DEF Crash, LeftBehind, Directories
  <2>2. doing'.op = "nothing"
    BY <2>1 DEF Nothing
  <2>3. TaskStands'
    BY <2>1 DEF TaskStands, NoTask
  <2>4. CountedIsCached'
    BY <2>1, NothingCounted
  <2> QED BY <1>2, <1>5, <1>6, <2>1, <2>2, <2>3, <2>4, AtRest
<1> QED BY <1>8, <1>9, <1>10, <1>11, <1>12, <1>13, <1>14 DEF User

LEMMA StepInv == Inv /\ [Next]_vars => Inv'
<1>1. ASSUME Inv, UNCHANGED vars PROVE Inv'
  BY <1>1 DEF vars, Inv, TypeOK, TaskStands, EnsureStands, ClearStands, CountedIsCached,
              Cached, HasChapter
<1> QED BY <1>1, EnsureChapterInv, TickInv, ClearBookInv, UserInv DEF Next

-------------------------------------------------------------------------------
(***************************************************************************)
(* The theorems.                                                           *)
(***************************************************************************)
\* The invariant holds in every state of every run.
THEOREM Invariance == Spec => []Inv
BY InitInv, StepInv, PTL DEF Spec

\* Every variable keeps its type, for every catalog and bound on events.
THEOREM TypeCorrect == Spec => []TypeOK
BY Invariance, PTL DEF Inv

\* The numbers a whole-book task shows are the numbers of chapters whose document is
\* in the cache.
THEOREM Counts == Spec => []CountedIsCached
BY Invariance, PTL DEF Inv

\* A task says that it cached or exported the book only when every chapter of the
\* catalog has its document in the cache.
THEOREM DoneBooksAreCached == Spec => []DoneIsCached
<1>1. Inv => DoneIsCached
  <2> SUFFICES ASSUME Inv, screen = "task", task.outcome \in {"done", "exported"}
               PROVE  Cached = Chapters
    BY DEF DoneIsCached
  <2>1. task.failed = {} /\ task.index = LastChapter + 1
    BY DEF Inv, TaskStands
  <2>2. (1..task.index - 1) \ task.failed = Chapters
    BY <2>1, ChaptersAssumption DEF Chapters
  <2> QED BY <2>2 DEF Inv, CountedIsCached, Cached
<1> QED BY <1>1, Invariance, PTL

\* What is newly torn is torn by a write whose failure nobody sees.
TornUnseen == \A c \in live'.torn \ live.torn : FailsUnseen(c)

\* No step but one of a clean-up takes a chapter out of the cache, and a failure that is
\* reported tears no document.
THEOREM ChaptersStay == Spec => CachedStays
<1>1. Inv /\ [Next]_vars /\ doing.op # "clear" => Cached \subseteq Cached' /\ TornUnseen
  <2> SUFFICES ASSUME Inv, [Next]_vars, doing.op # "clear"
               PROVE  Cached \subseteq Cached' /\ TornUnseen
    OBVIOUS
  <2>1. live \in Tree /\ legacy \in BOOLEAN /\ doing \in Handler /\ EnsureStands /\ ~ClearBook
    BY DEF Inv, TypeOK, ClearBook, RenameCanonical, RemoveCanonical, RenameLegacy, RemoveLegacy,
           ReportClear, Clearing
  <2>2. (legacy => legacy') /\ live.doc \subseteq live'.doc /\ TornUnseen
    <3>1. CASE EnsureChapter
      <4>1. CASE Fetch
        <5>1. live' = live /\ (legacy' = legacy \/ legacy' = TRUE)
          BY <4>1, Zenon DEF Fetch
        <5> QED BY <5>1 DEF TornUnseen
      <4>2. CASE WriteDoc
        <5>1. legacy' = legacy
          BY <4>2 DEF WriteDoc
        <5>2. CASE UNCHANGED live
          BY <5>1, <5>2 DEF TornUnseen
        <5>3. CASE Goes("raw") /\ \E torn \in BOOLEAN : live' = Written(torn)
          <6>1. doing.at = "doc" /\ doing'.at = "raw"
            BY <2>1, <4>2, <5>3 DEF WriteDoc, Ensuring, Goes, Handler
          <6>2. /\ live.doc \subseteq live'.doc
                /\ live'.torn \subseteq live.torn \union {doing.chapter}
            BY <2>1, <5>3 DEF Written, Tree
          <6> QED BY <5>1, <6>1, <6>2 DEF TornUnseen, FailsUnseen
        <5> QED BY <4>2, <5>2, <5>3 DEF WriteDoc
      <4>3. CASE WriteRaw \/ WriteMap \/ WriteNotes
        <5>1. legacy' = legacy /\ live'.doc = live.doc /\ live'.torn = live.torn
          BY <2>1, <4>3 DEF WriteRaw, WriteMap, WriteNotes, Tree
        <5> QED BY <5>1 DEF TornUnseen
      <4> QED BY <3>1, <4>1, <4>2, <4>3 DEF EnsureChapter
    <3>2. CASE Tick
      <4>1. CASE TickCatalog
        <5>1. \E written \in BOOLEAN : live' \in {live, [live EXCEPT !.catalog = written]}
          BY <4>1 DEF TickCatalog
        <5>2. \E writes : legacy' = (legacy \/ writes)
          BY <4>1, Zenon DEF TickCatalog
        <5>3. legacy => legacy'
          BY <5>2, Zenon
        <5>4. live'.doc = live.doc /\ live'.torn = live.torn
          BY <2>1, <5>1 DEF Tree
        <5> QED BY <5>3, <5>4 DEF TornUnseen
      <4>2. CASE TickCancelled \/ TickChapter \/ TickExport
        BY <4>2 DEF TickCancelled, TickChapter, TickExport, TornUnseen
      <4> QED BY <3>2, <4>1, <4>2 DEF Tick
    <3>3. CASE User \/ Crash
      BY <3>3 DEF User, Crash, StartTask, CancelTask, LeaveTask, OpenChapter, SwitchNotes,
                  StartClear, TornUnseen
    <3>4. CASE UNCHANGED vars
      BY <3>4 DEF vars, TornUnseen
    <3> QED BY <2>1, <3>1, <3>2, <3>3, <3>4 DEF Next
  <2> QED BY <2>2, CacheGrows
<1>2. Inv /\ [Next]_vars =>
        [doing.op # "clear" => /\ Cached \subseteq Cached'
                               /\ \A c \in live'.torn \ live.torn : FailsUnseen(c)]_vars
  BY <1>1 DEF TornUnseen
<1> QED BY <1>2, Invariance, PTL DEF Spec, CachedStays

\* After a cancel the task begins no chapter.
THEOREM CancelIsFinal == Spec => CancelStops
<1>1. Inv /\ [Next]_vars /\ task.cancelled /\ doing.op = "nothing" => doing'.op # "cache"
  <2> SUFFICES ASSUME Inv, [Next]_vars, task.cancelled, doing.op = "nothing"
               PROVE  doing'.op # "cache"
    OBVIOUS
  <2>1. task.status = "running" => task.jobCancelled
    BY DEF Inv, TaskStands
  <2>2. task.stage = "cache" => task.status = "running"
    BY DEF Inv, TaskStands
  <2>3. CASE EnsureChapter
    BY <2>3 DEF EnsureChapter, Fetch, WriteDoc, WriteRaw, WriteMap, WriteNotes, Ensuring
  <2>4. CASE Tick
    BY <2>1, <2>2, <2>4 DEF Tick, TickCancelled, TickCatalog, TickChapter, TickExport, Ticks
  <2>5. CASE ClearBook
    BY <2>5 DEF ClearBook, RenameCanonical, RemoveCanonical, RenameLegacy, RemoveLegacy,
                ReportClear, Clearing
  <2>6. CASE User \/ Crash
    <3>1. CASE StartClear
      <4>1. doing' = [Nothing EXCEPT !.op = "clear", !.at = "rename_canonical",
                                     !.earlier = strays]
        BY <3>1 DEF StartClear
      <4> QED BY <4>1, AtRest DEF Handler
    <3>2. CASE OpenChapter
      BY <3>2, EnsureFields DEF OpenChapter
    <3>3. CASE StartTask \/ CancelTask \/ LeaveTask \/ SwitchNotes
      BY <3>3 DEF StartTask, CancelTask, LeaveTask, SwitchNotes
    <3>4. CASE Crash
      BY <3>4 DEF Crash, Nothing
    <3> QED BY <2>6, <3>1, <3>2, <3>3, <3>4 DEF User
  <2>7. CASE UNCHANGED vars
    BY <2>7 DEF vars
  <2> QED BY <2>3, <2>4, <2>5, <2>6, <2>7 DEF Next
<1> QED BY <1>1, Invariance, PTL DEF Spec, CancelStops

\* What a clean-up that reports success has left
Removed ==
    /\ live' = NoTree \/ "canonical" \in doing.unmeasured
    /\ ~legacy' \/ "legacy" \in doing.unmeasured
    /\ strays' = doing.earlier

\* A clean-up that says so has removed everything that is kept of the book, and put
\* nothing of it aside, but for a directory it could neither rename nor measure.
THEOREM CleanUpIsComplete == Spec => ClearedIsGone
<1>1. Inv /\ [Next]_vars /\ notice' = "cleared" /\ notice # "cleared" => Removed
  <2> SUFFICES ASSUME Inv, [Next]_vars, notice' = "cleared", notice # "cleared"
               PROVE  Removed
    OBVIOUS
  <2>1. ReportClear
    BY DEF vars, Next, EnsureChapter, Fetch, WriteDoc, WriteRaw, WriteMap, WriteNotes,
           Tick, TickCancelled, TickCatalog, TickChapter, TickExport,
           User, Crash, StartTask, CancelTask, LeaveTask, OpenChapter, SwitchNotes, StartClear,
           ClearBook, RenameCanonical, RemoveCanonical, RenameLegacy, RemoveLegacy
  <2>2. doing.op = "clear" /\ doing.at = "report" /\ ~doing.fault
        /\ live' = live /\ legacy' = legacy /\ strays' = strays
    BY <2>1 DEF ReportClear, Clearing
  <2> QED BY <2>2 DEF Inv, ClearStands, Removed
<1>2. Inv /\ [Next]_vars =>
        [notice' = "cleared" /\ notice # "cleared" =>
           /\ live' = NoTree \/ "canonical" \in doing.unmeasured
           /\ ~legacy' \/ "legacy" \in doing.unmeasured
           /\ strays' = doing.earlier]_vars
  BY <1>1 DEF Removed
<1> QED BY <1>2, Invariance, PTL DEF Spec, ClearedIsGone

===============================================================================
