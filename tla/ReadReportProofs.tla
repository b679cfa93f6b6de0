--------------------------- MODULE ReadReportProofs ---------------------------
(***************************************************************************)
(* Proofs about ReadReport, for every set of books and process ids and     *)
(* every bound.  The methods of the object are functions on a record x of  *)
(* the object, the scheduler's queue and the processes, and call one       *)
(* another; between two calls x need not satisfy the invariant.  So the    *)
(* invariant is stated of such an x, with parameters that say how far a    *)
(* method has come, and each method has its lemma.                         *)
(***************************************************************************)
EXTENDS ReadReport, TLAPS

-------------------------------------------------------------------------------
(***************************************************************************)
(* The invariant.                                                          *)
(***************************************************************************)
IsQueue(q) ==
    /\ q = [callback \in DOMAIN q |-> q[callback]]
    /\ DOMAIN q \subseteq Callbacks
    /\ \A callback \in DOMAIN q : q[callback] \in Nat \ {0}

IsSystem(x) ==
    /\ DOMAIN x = {"report", "timers", "child"}
    /\ x.report \in Report
    /\ IsQueue(x.timers)
    /\ x.child \in [Pids -> Child]

Runs(x, p) == x.report.job # NoJob /\ x.report.job.pid = p

\* Generations only grow: the live task is the one started last.
Newest(x) == x.report.task = NoTask \/ x.report.task = x.report.generation

\* n ticks of the live task are queued unless its job is in flight, and no others.
Ticks(x, n) ==
    \A g \in Nat : Pending(x.timers, TickOf(g)) =
        IF g = x.report.task /\ g # NoTask /\ x.report.job = NoJob THEN n ELSE 0

\* n polls of the job in flight are queued, and no others.
Polls(x, n) ==
    \A p \in Pids : Pending(x.timers, PollOf(p)) = IF Runs(x, p) THEN n ELSE 0

\* Every child that no job waits for has one collector; one of p's was just run
\* and has not been put back for p in S.
Collectors(x, S) ==
    \A p \in Pids : Pending(x.timers, CollectOf(p)) =
        IF x.child[p].st = "free" \/ Runs(x, p) \/ p \in S THEN 0 ELSE 1

\* A job belongs to the live task, ...
JobOfTask(x) ==
    x.report.job # NoJob => x.report.task # NoTask /\ x.report.job.gen = x.report.task

\* ... and its child is there to be waited for.
JobHasChild(x) ==
    x.report.job # NoJob => x.child[x.report.job.pid].st \in {"running", "written", "exited"}

NoOpenPipe(x) == \A p \in Pids : x.child[p].st = "free" => x.child[p].pipe = "closed"

Children(x, n, S) ==
    /\ Polls(x, n)
    /\ Collectors(x, S)
    /\ JobHasChild(x)
    /\ NoOpenPipe(x)

\* x between two callbacks, except that n ticks, m polls are queued.
Watching(x, n, m, S) ==
    /\ Newest(x)
    /\ Ticks(x, n)
    /\ JobOfTask(x)
    /\ Children(x, m, S)

Rest ==
    /\ config \in Config
    /\ document \in Books \union {NoBook, NoDocument}
    /\ stored \in [Records -> Nat]
    /\ edits \in [Records -> Nat]
    /\ {renewedLately, lostRenewal, parked} \subseteq BOOLEAN
    /\ events \in 0..MaxEvents

\* The inductive invariant.
Inv ==
    /\ Rest
    /\ IsSystem(Now)
    /\ Watching(Now, 1, 1, {})

-------------------------------------------------------------------------------
(***************************************************************************)
(* The scheduler's queue.                                                  *)
(***************************************************************************)
LEMMA PendingNat ==
    ASSUME NEW q, IsQueue(q), NEW c
    PROVE  /\ Pending(q, c) \in Nat
           /\ c \in DOMAIN q <=> Pending(q, c) # 0
  BY DEF IsQueue, Pending

LEMMA AddPending ==
    ASSUME NEW q, IsQueue(q), NEW c \in Callbacks
    PROVE  /\ IsQueue(BagAdd(q, c))
           /\ \A d : Pending(BagAdd(q, c), d) =
                        IF d = c THEN Pending(q, d) + 1 ELSE Pending(q, d)
  BY DEF IsQueue, Pending, BagAdd

LEMMA RemoveAllPending ==
    ASSUME NEW q, IsQueue(q), NEW c
    PROVE  /\ IsQueue(BagRemoveAll(q, c))
           /\ \A d : Pending(BagRemoveAll(q, c), d) = IF d = c THEN 0 ELSE Pending(q, d)
  BY DEF IsQueue, Pending, BagRemoveAll

LEMMA RemoveLastPending ==
    ASSUME NEW q, IsQueue(q), NEW c, Pending(q, c) = 1
    PROVE  BagRemove(q, c) = BagRemoveAll(q, c)
  BY DEF IsQueue, Pending, BagRemove, BagRemoveAll

LEMMA CallbackNames ==
    /\ \A g \in Nat : TickOf(g) \in Callbacks
    /\ \A p \in Pids : PollOf(p) \in Callbacks /\ CollectOf(p) \in Callbacks
    /\ \A g, h : TickOf(g) = TickOf(h) <=> g = h
    /\ \A p, r : PollOf(p) = PollOf(r) <=> p = r
    /\ \A p, r : CollectOf(p) = CollectOf(r) <=> p = r
    /\ \A g, p : TickOf(g) # PollOf(p) /\ TickOf(g) # CollectOf(p)
    /\ \A p, r : PollOf(p) # CollectOf(r)
  BY DEF TickOf, PollOf, CollectOf, Callbacks

LEMMA AddTick ==
    ASSUME NEW q, IsQueue(q), NEW g \in Nat
    PROVE  LET r == BagAdd(q, TickOf(g)) IN
           /\ IsQueue(r)
           /\ \A h \in Nat : Pending(r, TickOf(h)) =
                    IF h = g THEN Pending(q, TickOf(h)) + 1 ELSE Pending(q, TickOf(h))
           /\ \A p : Pending(r, PollOf(p)) = Pending(q, PollOf(p))
           /\ \A p : Pending(r, CollectOf(p)) = Pending(q, CollectOf(p))
  BY AddPending, CallbackNames

LEMMA AddPoll ==
    ASSUME NEW q, IsQueue(q), NEW p \in Pids
    PROVE  LET r == BagAdd(q, PollOf(p)) IN
           /\ IsQueue(r)
           /\ \A h : Pending(r, TickOf(h)) = Pending(q, TickOf(h))
           /\ \A s : Pending(r, PollOf(s)) =
                    IF s = p THEN Pending(q, PollOf(s)) + 1 ELSE Pending(q, PollOf(s))
           /\ \A s : Pending(r, CollectOf(s)) = Pending(q, CollectOf(s))
  BY AddPending, CallbackNames

LEMMA AddCollect ==
    ASSUME NEW q, IsQueue(q), NEW p \in Pids
    PROVE  LET r == BagAdd(q, CollectOf(p)) IN
           /\ IsQueue(r)
           /\ \A h : Pending(r, TickOf(h)) = Pending(q, TickOf(h))
           /\ \A s : Pending(r, PollOf(s)) = Pending(q, PollOf(s))
           /\ \A s : Pending(r, CollectOf(s)) =
                    IF s = p THEN Pending(q, CollectOf(s)) + 1 ELSE Pending(q, CollectOf(s))
  BY AddPending, CallbackNames

LEMMA DropTick ==
    ASSUME NEW q, IsQueue(q), NEW g
    PROVE  LET r == BagRemoveAll(q, TickOf(g)) IN
           /\ IsQueue(r)
           /\ \A h : Pending(r, TickOf(h)) = IF h = g THEN 0 ELSE Pending(q, TickOf(h))
           /\ \A p : Pending(r, PollOf(p)) = Pending(q, PollOf(p))
           /\ \A p : Pending(r, CollectOf(p)) = Pending(q, CollectOf(p))
  BY RemoveAllPending, CallbackNames

LEMMA DropPoll ==
    ASSUME NEW q, IsQueue(q), NEW p
    PROVE  LET r == BagRemoveAll(q, PollOf(p)) IN
           /\ IsQueue(r)
           /\ \A h : Pending(r, TickOf(h)) = Pending(q, TickOf(h))
           /\ \A s : Pending(r, PollOf(s)) = IF s = p THEN 0 ELSE Pending(q, PollOf(s))
           /\ \A s : Pending(r, CollectOf(s)) = Pending(q, CollectOf(s))
  BY RemoveAllPending, CallbackNames

LEMMA DropCollect ==
    ASSUME NEW q, IsQueue(q), NEW p
    PROVE  LET r == BagRemoveAll(q, CollectOf(p)) IN
           /\ IsQueue(r)
           /\ \A h : Pending(r, TickOf(h)) = Pending(q, TickOf(h))
           /\ \A s : Pending(r, PollOf(s)) = Pending(q, PollOf(s))
           /\ \A s : Pending(r, CollectOf(s)) = IF s = p THEN 0 ELSE Pending(q, CollectOf(s))
  BY RemoveAllPending, CallbackNames

-------------------------------------------------------------------------------
(***************************************************************************)
(* The methods.                                                            *)
(***************************************************************************)

\* The invariant reads three fields of the object.
SameRest(x, y) ==
    /\ y.timers = x.timers /\ y.child = x.child
    /\ y.report.task = x.report.task
    /\ y.report.generation = x.report.generation
    /\ y.report.job = x.report.job

LEMMA WatchingSame ==
    ASSUME NEW x, NEW y, SameRest(x, y), NEW n, NEW m, NEW S, Watching(x, n, m, S)
    PROVE  Watching(y, n, m, S)
  BY DEF SameRest, Watching, Newest, Ticks, JobOfTask, Children, Polls, Collectors,
         JobHasChild, NoOpenPipe, Runs

\* An assignment to the other fields.
LEMMA OtherFields ==
    ASSUME NEW x, IsSystem(x), NEW r \in Report,
           r.task = x.report.task, r.generation = x.report.generation, r.job = x.report.job
    PROVE  LET y == [x EXCEPT !.report = r] IN IsSystem(y) /\ SameRest(x, y)
  BY DEF IsSystem, SameRest

LEMMA SetStateKeeps ==
    ASSUME NEW x, IsSystem(x), NEW s \in ReportStates
    PROVE  IsSystem(SetState(x, s)) /\ SameRest(x, SetState(x, s))
  <1> DEFINE r == [x.report EXCEPT !.state = s]
  <1>1. /\ r \in Report
        /\ r.task = x.report.task /\ r.generation = x.report.generation /\ r.job = x.report.job
    BY DEF IsSystem, Report
  <1>2. SetState(x, s) = [x EXCEPT !.report = r]
    BY DEF SetState
  <1> QED BY <1>1, <1>2, OtherFields

\* _schedule_next puts the live task back on the queue, ...
LEMMA ScheduleNextLive ==
    ASSUME NEW x, IsSystem(x), Watching(x, 0, 1, {}), x.report.job = NoJob,
           NEW g \in Nat \ {NoTask}, x.report.task = g
    PROVE  LET y == ScheduleNext(x, g) IN IsSystem(y) /\ Watching(y, 1, 1, {})
  <1> DEFINE y == ScheduleNext(x, g)
  <1>1. x.report.generation = g
    BY DEF Watching, Newest
  <1>2. /\ y.report = x.report /\ y.child = x.child /\ y.timers = BagAdd(x.timers, TickOf(g))
        /\ DOMAIN y = DOMAIN x
    BY <1>1 DEF ScheduleNext, IsSystem
  <1>3. IsQueue(x.timers)
    BY DEF IsSystem
  <1>4. IsSystem(y)
    BY <1>2, <1>3, AddTick DEF IsSystem
  <1>5. Ticks(y, 1)
    BY <1>2, <1>3, AddTick DEF Watching, Ticks
  <1>6. Children(y, 1, {})
    BY <1>2, <1>3, AddTick
    DEF Watching, Children, Polls, Collectors, JobHasChild, NoOpenPipe, Runs
  <1> QED BY <1>2, <1>4, <1>5, <1>6 DEF Watching, Newest, JobOfTask

\* ... and leaves a task alone that was replaced in the meantime.
LEMMA ScheduleNextStale ==
    ASSUME NEW x, NEW g, x.report.generation # g
    PROVE  ScheduleNext(x, g) = x
  BY DEF ScheduleNext

\* The body of the collect closures, for a child nobody else looks after.
LEMMA CollectWatches ==
    ASSUME NEW x, IsSystem(x), NEW p \in Pids, Children(x, 1, {p}), ~Runs(x, p),
           x.child[p].st # "free"
    PROVE  LET y == Collect(x, p) IN
           /\ IsSystem(y)
           /\ Children(y, 1, {})
           /\ y.report = x.report
           /\ \A g : Pending(y.timers, TickOf(g)) = Pending(x.timers, TickOf(g))
  <1> DEFINE y == Collect(x, p)
             t == x.timers
             c == x.child
  <1>1. IsQueue(t) /\ c \in [Pids -> Child]
    BY DEF IsSystem
  <1>2. CASE c[p].st = "exited"
    <2> DEFINE d == [c EXCEPT ![p] = Reaped]
    <2>1. y.report = x.report /\ y.timers = t /\ y.child = d /\ DOMAIN y = DOMAIN x
      BY <1>2 DEF Collect, IsSystem
    <2>2. /\ d \in [Pids -> Child]
          /\ \A s \in Pids : s # p => d[s] = c[s]
          /\ d[p].st = "free" /\ d[p].pipe = "closed"
      BY <1>1 DEF Reaped, Child, ChildStates
    <2>3. Polls(y, 1) /\ Collectors(y, {})
      BY <1>2, <2>1, <2>2 DEF Children, Polls, Collectors, Runs
    <2>4. JobHasChild(y) /\ NoOpenPipe(y)
      <3>1. x.report.job # NoJob => x.report.job.pid \in Pids \ {p}
        BY DEF IsSystem, Report, Job, Runs
      <3> QED BY <2>1, <2>2, <3>1 DEF Children, JobHasChild, NoOpenPipe
    <2> QED BY <2>1, <2>2, <2>3, <2>4 DEF Children, IsSystem
  <1>3. CASE c[p].st # "exited"
    <2> DEFINE u == BagAdd(t, CollectOf(p))
               d == [c EXCEPT ![p].pipe = IF @ \in Payloads THEN "closed" ELSE @]
    <2>1. y.report = x.report /\ y.timers = u /\ y.child = d /\ DOMAIN y = DOMAIN x
      BY <1>3 DEF Collect, IsSystem
    <2>2. /\ d \in [Pids -> Child]
          /\ \A s \in Pids : d[s].st = c[s].st
          /\ \A s \in Pids : d[s].pipe \in {c[s].pipe, "closed"}
      BY <1>1 DEF Child
    <2>3. Polls(y, 1)
      BY <1>1, <2>1, AddCollect DEF Children, Polls, Runs
    <2>4. Collectors(y, {})
      BY <1>1, <2>1, <2>2, AddCollect DEF Children, Collectors, Runs
    <2>5. JobHasChild(y) /\ NoOpenPipe(y)
      <3>1. x.report.job # NoJob => x.report.job.pid \in Pids
        BY DEF IsSystem, Report, Job
      <3> QED BY <2>1, <2>2, <3>1 DEF Children, JobHasChild, NoOpenPipe
    <2> QED BY <1>1, <2>1, <2>2, <2>3, <2>4, <2>5, AddCollect DEF Children, IsSystem
  <1> QED BY <1>2, <1>3

LEMMA AbandonJobWatches ==
    ASSUME NEW x, IsSystem(x), NEW m \in {0, 1}, Children(x, m, {}), x.report.job # NoJob
    PROVE  LET y == AbandonJob(x) IN
           /\ IsSystem(y)
           /\ Children(y, 1, {})
           /\ y.report = [x.report EXCEPT !.job = NoJob]
           /\ \A g : Pending(y.timers, TickOf(g)) = Pending(x.timers, TickOf(g))
  <1> DEFINE p == x.report.job.pid
             c == x.child
             k == [x EXCEPT !.report.job = NoJob,
                            !.timers = BagRemoveAll(@, PollOf(p)),
                            !.child[p] = [@ EXCEPT !.st = IF @ = "exited" THEN @ ELSE "killed",
                                                   !.renewed = FALSE]]
             d == [c EXCEPT ![p] = [@ EXCEPT !.st = IF @ = "exited" THEN @ ELSE "killed",
                                             !.renewed = FALSE]]
  <1>1. p \in Pids /\ c[p].st \in {"running", "written", "exited"}
    BY DEF IsSystem, Report, Job, Children, JobHasChild
  <1>2. /\ k.report = [x.report EXCEPT !.job = NoJob]
        /\ k.timers = BagRemoveAll(x.timers, PollOf(p))
        /\ k.child = d
        /\ DOMAIN k = DOMAIN x
    BY DEF IsSystem
  <1>3. k.report \in Report /\ k.report.job = NoJob
    BY <1>2 DEF IsSystem, Report
  <1>4. IsQueue(x.timers) /\ c \in [Pids -> Child]
    BY DEF IsSystem
  <1>5. /\ d \in [Pids -> Child]
        /\ \A s \in Pids : s # p => d[s] = c[s]
        /\ d[p].st \in {"exited", "killed"}
    BY <1>1, <1>4 DEF Child, ChildStates
  <1>6. IsSystem(k)
    BY <1>2, <1>3, <1>4, <1>5, DropPoll DEF IsSystem
  <1>7. AbandonJob(x) = Collect(k, p)
    BY DEF AbandonJob
  <1> HIDE DEF k, d
  <1>8. ~Runs(k, p) /\ Polls(k, 1)
    BY <1>2, <1>3, <1>4, DropPoll DEF Children, Polls, Runs
  <1>9. Collectors(k, {p})
    BY <1>1, <1>2, <1>3, <1>4, <1>5, DropPoll DEF Children, Collectors, Runs
  <1>10. JobHasChild(k) /\ NoOpenPipe(k)
    BY <1>2, <1>3, <1>5 DEF Children, JobHasChild, NoOpenPipe
  <1>11. Children(k, 1, {p}) /\ k.child[p].st # "free"
    BY <1>2, <1>5, <1>8, <1>9, <1>10 DEF Children
  <1>12. \A g : Pending(k.timers, TickOf(g)) = Pending(x.timers, TickOf(g))
    BY <1>2, <1>4, DropPoll
  <1> HIDE DEF p
  <1> QED BY <1>1, <1>2, <1>6, <1>7, <1>8, <1>11, <1>12, CollectWatches

\* stop takes the task's tick off the queue and kills its job: whatever of the
\* task was queued, nothing is left of it.
LEMMA StopWatches ==
    ASSUME NEW x, IsSystem(x), NEW n \in {0, 1}, Watching(x, n, 1, {}), NEW reason
    PROVE  LET y == Stop(x, reason) IN
           /\ IsSystem(y)
           /\ Watching(y, 1, 1, {})
           /\ y.report.generation = x.report.generation + 1
           /\ y.report.task = NoTask
           /\ y.report.suspended = x.report.suspended
           /\ y.report.job = NoJob
  <1> DEFINE g == x.report.generation + 1
             s == IF reason = "suspend" THEN "suspended" ELSE "stopped"
             r == [x.report EXCEPT !.generation = g, !.task = NoTask, !.state = s]
             h == [x EXCEPT !.report = [@ EXCEPT !.generation = g, !.task = NoTask, !.state = s],
                            !.timers = BagRemoveAll(@, TickOf(x.report.task))]
             y == Stop(x, reason)
  <1>1. y = IF x.report.job = NoJob THEN h ELSE AbandonJob(h)
    BY DEF Stop
  <1>2. /\ h.report = r
        /\ h.timers = BagRemoveAll(x.timers, TickOf(x.report.task))
        /\ h.child = x.child
        /\ DOMAIN h = DOMAIN x
    BY DEF IsSystem
  <1>3. /\ r \in Report
        /\ r.generation = g /\ r.task = NoTask /\ r.job = x.report.job
        /\ r.suspended = x.report.suspended
    <2>1. g \in Nat /\ s \in ReportStates
      BY DEF IsSystem, Report, ReportStates
    <2> HIDE DEF g, s
    <2> QED BY <2>1 DEF IsSystem, Report, NoTask
  <1>4. IsQueue(x.timers)
    BY DEF IsSystem
  <1> HIDE DEF h, r
  <1>5. IsSystem(h)
    BY <1>2, <1>3, <1>4, DropTick DEF IsSystem
  <1>6. \A k \in Nat : Pending(h.timers, TickOf(k)) = 0
    BY <1>2, <1>4, DropTick DEF Watching, Ticks
  <1>7. Children(h, 1, {})
    BY <1>2, <1>3, <1>4, DropTick
    DEF Watching, Children, Polls, Collectors, JobHasChild, NoOpenPipe, Runs
  <1>8. CASE x.report.job = NoJob
    <2>1. y = h
      BY <1>1, <1>8
    <2> QED BY <1>2, <1>3, <1>5, <1>6, <1>7, <1>8, <2>1
            DEF Watching, Newest, Ticks, JobOfTask
  <1>9. CASE x.report.job # NoJob
    <2> DEFINE z == AbandonJob(h)
    <2>1. y = z
      BY <1>1, <1>9
    <2>2. /\ IsSystem(z)
          /\ Children(z, 1, {})
          /\ z.report = [r EXCEPT !.job = NoJob]
          /\ \A k : Pending(z.timers, TickOf(k)) = Pending(h.timers, TickOf(k))
      BY <1>2, <1>3, <1>5, <1>7, <1>9, AbandonJobWatches
    <2>3. /\ z.report.task = NoTask /\ z.report.generation = g /\ z.report.job = NoJob
          /\ z.report.suspended = x.report.suspended
      BY <1>3, <2>2 DEF Report
    <2> HIDE DEF z
    <2> QED BY <1>6, <2>1, <2>2, <2>3 DEF Watching, Newest, Ticks, JobOfTask
  <1> QED BY <1>8, <1>9

LEMMA StartWatches ==
    ASSUME NEW x, IsSystem(x), Watching(x, 1, 1, {}), x.report.task = NoTask,
           NEW target \in Books
    PROVE  IsSystem(Start(x, target)) /\ Watching(Start(x, target), 1, 1, {})
  <1> DEFINE g == x.report.generation + 1
             r == [x.report EXCEPT !.generation = g, !.task = g,
                                   !.current = target, !.state = "waiting"]
             y == Start(x, target)
  <1>1. g \in Nat \ {NoTask}
    BY DEF IsSystem, Report, NoTask
  <1>2. /\ y.report = r
        /\ y.timers = BagAdd(x.timers, TickOf(g))
        /\ y.child = x.child
        /\ DOMAIN y = DOMAIN x
    BY DEF IsSystem, Start
  <1> HIDE DEF g
  <1>3. /\ r \in Report
        /\ r.generation = g /\ r.task = g /\ r.job = x.report.job
    BY <1>1 DEF IsSystem, Report, ReportStates
  <1>4. IsQueue(x.timers)
    BY DEF IsSystem
  <1>5. x.report.job = NoJob
    BY DEF Watching, JobOfTask
  <1> HIDE DEF r, y
  <1>6. IsSystem(y)
    BY <1>1, <1>2, <1>3, <1>4, AddTick DEF IsSystem
  <1>7. Ticks(y, 1)
    BY <1>1, <1>2, <1>3, <1>4, <1>5, AddTick DEF Watching, Ticks
  <1>8. Children(y, 1, {})
    BY <1>1, <1>2, <1>3, <1>4, <1>5, AddTick
    DEF Watching, Children, Polls, Collectors, JobHasChild, NoOpenPipe, Runs
  <1> QED BY <1>2, <1>3, <1>5, <1>6, <1>7, <1>8 DEF Watching, Newest, JobOfTask, y

LEMMA TargetIsBook ==
    ASSUME NEW cfg \in Config, NEW doc
    PROVE  ResolveTarget(cfg, doc) \in Books \union {NoBook}
  BY DEF Config, ResolveTarget

LEMMA MaybeStartWatches ==
    ASSUME NEW x, IsSystem(x), Watching(x, 1, 1, {}), NEW cfg \in Config, NEW doc
    PROVE  LET y == MaybeStart(x, cfg, doc) IN
           /\ IsSystem(y)
           /\ Watching(y, 1, 1, {})
           /\ y.report.generation >= x.report.generation
  <1> DEFINE target == ResolveTarget(cfg, doc)
             y == MaybeStart(x, cfg, doc)
  <1>0. x.report.generation \in Nat
    BY DEF IsSystem, Report
  <1>1. CASE ~cfg.enabled
    BY <1>0, <1>1 DEF MaybeStart
  <1>2. CASE cfg.enabled /\ x.report.suspended
    <2>1. y = SetState(x, "suspended")
      BY <1>2 DEF MaybeStart
    <2> HIDE DEF y
    <2>2. IsSystem(y) /\ SameRest(x, y)
      BY <2>1, SetStateKeeps DEF ReportStates
    <2> QED BY <1>0, <2>2, WatchingSame DEF SameRest, y
  <1>3. CASE cfg.enabled /\ ~x.report.suspended /\ target = NoBook
    <2>1. y = Stop(x, "no_target")
      BY <1>3 DEF MaybeStart
    <2> QED BY <1>0, <2>1, StopWatches
  <1>4. CASE cfg.enabled /\ ~x.report.suspended /\ target # NoBook
    <2>1. target \in Books
      BY <1>4, TargetIsBook
    <2>2. CASE x.report.task # NoTask
      <3> DEFINE r == [x.report EXCEPT !.current = target]
      <3>1. y = [x EXCEPT !.report = r]
        BY <1>4, <2>2 DEF MaybeStart
      <3>2. /\ r \in Report
            /\ r.task = x.report.task /\ r.generation = x.report.generation
            /\ r.job = x.report.job
        BY <2>1 DEF IsSystem, Report
      <3> HIDE DEF r, target
      <3>3. IsSystem(y) /\ SameRest(x, y)
        BY <3>1, <3>2, OtherFields
      <3> HIDE DEF y
      <3> QED BY <1>0, <3>3, WatchingSame DEF SameRest, y
    <2>3. CASE x.report.task = NoTask
      <3>1. y = Start(x, target)
        BY <1>4, <2>3 DEF MaybeStart
      <3>2. y.report.generation = x.report.generation + 1
        BY <3>1 DEF Start, IsSystem, Report
      <3> HIDE DEF y, target
      <3> QED BY <1>0, <2>1, <2>3, <3>1, <3>2, StartWatches DEF y
    <2> QED BY <2>2, <2>3
  <1> QED BY <1>1, <1>2, <1>3, <1>4

-------------------------------------------------------------------------------
(***************************************************************************)
(* The periodic tick.                                                      *)
(***************************************************************************)
LEMMA RetireWatches ==
    ASSUME NEW x, IsSystem(x), Watching(x, 0, 1, {}), config \in Config, NEW target
    PROVE  LET y == Retire(x, target) IN
           /\ IsSystem(y)
           /\ Watching(y, 1, 1, {})
           /\ y.report.generation # x.report.generation
  <1> DEFINE z == Stop(x, "document_changed")
             w == MaybeStart(z, config, document)
  <1>1. x.report.generation \in Nat
    BY DEF IsSystem, Report
  <1>2. \A reason :
            /\ IsSystem(Stop(x, reason))
            /\ Watching(Stop(x, reason), 1, 1, {})
            /\ Stop(x, reason).report.generation = x.report.generation + 1
    BY StopWatches
  <1>3. IsSystem(w) /\ Watching(w, 1, 1, {}) /\ w.report.generation >= z.report.generation
    <2> HIDE DEF z
    <2> QED BY <1>2, MaybeStartWatches DEF z
  <1>4. w.report.generation \in Nat
    BY <1>3 DEF IsSystem, Report
  <1>5. w.report.generation # x.report.generation
    BY <1>1, <1>2, <1>3, <1>4
  <1> QED BY <1>1, <1>2, <1>3, <1>5 DEF Retire

LEMMA StartJobWatches ==
    ASSUME NEW x, IsSystem(x), Watching(x, 0, 1, {}), x.report.job = NoJob,
           NEW g \in Nat \ {NoTask}, x.report.task = g,
           NEW p \in Pids, x.child[p].st = "free",
           NEW target \in Books, stored \in [Records -> Nat]
    PROVE  LET y == StartJob(x, g, p, target) IN IsSystem(y) /\ Watching(y, 1, 1, {})
  <1> DEFINE job == [pid |-> p, gen |-> g, book |-> target, age |-> 0,
                     base |-> [auth |-> stored[Auth], book |-> stored[target]]]
             r == [x.report EXCEPT !.current = target, !.job = job]
             new == [st |-> "running", pipe |-> "empty", renewed |-> FALSE]
             d == [x.child EXCEPT ![p] = new]
             y == StartJob(x, g, p, target)
  <1>1. /\ y.report = r
        /\ y.timers = BagAdd(x.timers, PollOf(p))
        /\ y.child = d
        /\ DOMAIN y = DOMAIN x
    BY DEF IsSystem, StartJob
  <1>2. job \in Job /\ job # NoJob /\ job.pid = p /\ job.gen = g
    BY MaxPollsAssumption, NoJobAssumption DEF Job, Records
  <1>3. new \in Child /\ new.st = "running"
    BY DEF Child, ChildStates
  <1> HIDE DEF job, new
  <1>4. /\ r \in Report
        /\ r.job = job /\ r.task = g /\ r.generation = x.report.generation
    BY <1>2 DEF IsSystem, Report
  <1>5. /\ d \in [Pids -> Child]
        /\ \A s \in Pids : s # p => d[s] = x.child[s]
        /\ d[p] = new
    BY <1>3 DEF IsSystem
  <1>6. IsQueue(x.timers)
    BY DEF IsSystem
  <1> HIDE DEF r, d, y
  <1>7. IsSystem(y)
    BY <1>1, <1>4, <1>5, <1>6, AddPoll DEF IsSystem
  <1>8. Ticks(y, 1)
    BY <1>1, <1>2, <1>4, <1>6, AddPoll DEF Watching, Ticks
  <1>9. Polls(y, 1)
    BY <1>1, <1>2, <1>4, <1>6, AddPoll DEF Watching, Children, Polls, Runs
  <1>10. Collectors(y, {})
    BY <1>1, <1>2, <1>3, <1>4, <1>5, <1>6, AddPoll DEF Watching, Children, Collectors, Runs
  <1>11. JobHasChild(y) /\ NoOpenPipe(y)
    BY <1>1, <1>2, <1>3, <1>4, <1>5 DEF Watching, Children, JobHasChild, NoOpenPipe
  <1> QED BY <1>1, <1>2, <1>4, <1>7, <1>8, <1>9, <1>10, <1>11
          DEF Watching, Newest, JobOfTask, Children, y

LEMMA TickOutcomesWatch ==
    ASSUME NEW x, IsSystem(x), Watching(x, 0, 1, {}), x.report.job = NoJob,
           NEW g \in Nat \ {NoTask}, x.report.task = g,
           config \in Config, stored \in [Records -> Nat],
           NEW y \in TickOutcomes(x, g)
    PROVE  IsSystem(y) /\ Watching(y, 1, 1, {})
  <1> DEFINE target == ResolveTarget(config, document)
             here == [x EXCEPT !.report.current = target]
  <1>1. x.report.generation = g
    BY DEF Watching, Newest
  <1>2. CASE Outdated(x, target)
    <2>1. y = ScheduleNext(Retire(x, target), g)
      BY <1>1, <1>2 DEF TickOutcomes
    <2> HIDE DEF target
    <2> QED BY <1>1, <2>1, RetireWatches, ScheduleNextStale
  <1>3. CASE ~Outdated(x, target)
    <2>1. target \in Books
      BY <1>3, TargetIsBook DEF Outdated
    <2>2. /\ IsSystem(here) /\ Watching(here, 0, 1, {})
          /\ here.report.job = NoJob /\ here.report.task = g
          /\ here.child = x.child
      <3> DEFINE r == [x.report EXCEPT !.current = target]
      <3>1. here = [x EXCEPT !.report = r]
        OBVIOUS
      <3>2. /\ r \in Report
            /\ r.task = x.report.task /\ r.generation = x.report.generation
            /\ r.job = x.report.job
        BY <2>1 DEF IsSystem, Report
      <3> HIDE DEF r, target
      <3>3. IsSystem(here) /\ SameRest(x, here)
        BY <3>1, <3>2, OtherFields
      <3> HIDE DEF here
      <3> QED BY <3>3, WatchingSame DEF SameRest
    <2>3. \/ \E s \in SkipStates : y = ScheduleNext(SetState(here, s), g)
          \/ \E z \in InlineReports(here) : y = ScheduleNext(z, g)
          \/ \E p \in FreePids(x) : y = StartJob(x, g, p, target)
      BY <1>1, <1>3 DEF TickOutcomes
    <2> HIDE DEF here, target
    <2>4. ASSUME NEW s \in SkipStates, y = ScheduleNext(SetState(here, s), g)
          PROVE  IsSystem(y) /\ Watching(y, 1, 1, {})
      <3> DEFINE z == SetState(here, s)
      <3>1. IsSystem(z) /\ SameRest(here, z)
        BY <2>2, SetStateKeeps DEF SkipStates, ReportStates
      <3> HIDE DEF z
      <3>2. Watching(z, 0, 1, {}) /\ z.report.job = NoJob /\ z.report.task = g
        BY <2>2, <3>1, WatchingSame DEF SameRest
      <3> QED BY <2>4, <3>1, <3>2, ScheduleNextLive DEF z
    <2>5. ASSUME NEW z \in InlineReports(here), y = ScheduleNext(z, g)
          PROVE  IsSystem(y) /\ Watching(y, 1, 1, {})
      <3>1. PICK s \in {"active", "error"}, m \in {FALSE, here.report.mayRenew} :
                z = [here EXCEPT !.report = [@ EXCEPT !.state = s, !.mayRenew = m]]
        BY DEF InlineReports
      <3> DEFINE r == [here.report EXCEPT !.state = s, !.mayRenew = m]
      <3>2. z = [here EXCEPT !.report = r]
        BY <3>1
      <3>3. /\ r \in Report
            /\ r.task = here.report.task /\ r.generation = here.report.generation
            /\ r.job = here.report.job
        BY <2>2 DEF IsSystem, Report, ReportStates
      <3> HIDE DEF r
      <3>4. IsSystem(z) /\ SameRest(here, z)
        BY <2>2, <3>2, <3>3, OtherFields
      <3>5. Watching(z, 0, 1, {}) /\ z.report.job = NoJob /\ z.report.task = g
        BY <2>2, <3>4, WatchingSame DEF SameRest
      <3> QED BY <2>5, <3>4, <3>5, ScheduleNextLive
    <2>6. ASSUME NEW p \in FreePids(x), y = StartJob(x, g, p, target)
          PROVE  IsSystem(y) /\ Watching(y, 1, 1, {})
      BY <2>1, <2>6, StartJobWatches DEF FreePids
    <2> QED BY <2>3, <2>4, <2>5, <2>6
  <1> QED BY <1>2, <1>3

-------------------------------------------------------------------------------
(***************************************************************************)
(* Watching the child.                                                     *)
(***************************************************************************)

\* A job that is over leaves its task without a continuation, ...
LEMMA JobOver ==
    ASSUME NEW x, Watching(x, 1, 0, {}), x.report.job # NoJob,
           NEW y, y.report.job = NoJob,
           y.report.task = x.report.task, y.report.generation = x.report.generation,
           Children(y, 1, {}),
           \A g : Pending(y.timers, TickOf(g)) = Pending(x.timers, TickOf(g))
    PROVE  Watching(y, 0, 1, {})
  BY DEF Watching, Newest, Ticks, JobOfTask

\* ... and _poll_job gives it one.
LEMMA TaskGoesOn ==
    ASSUME NEW x, IsSystem(x), Watching(x, 1, 0, {}), x.report.job # NoJob,
           NEW z, IsSystem(z), Watching(z, 0, 1, {}), z.report.job = NoJob,
           z.report.task = x.report.task
    PROVE  LET y == ScheduleNext(z, x.report.job.gen) IN
           IsSystem(y) /\ Watching(y, 1, 1, {})
  <1>1. x.report.job.gen \in Nat \ {NoTask} /\ z.report.task = x.report.job.gen
    BY DEF IsSystem, Report, Job, Watching, JobOfTask
  <1> QED BY <1>1, ScheduleNextLive

LEMMA FinishJobWatches ==
    ASSUME NEW x, IsSystem(x), Watching(x, 1, 0, {}), NEW p \in Pids, Runs(x, p)
    PROVE  LET y == FinishJob(x, p) IN IsSystem(y) /\ Watching(y, 1, 1, {})
  <1> DEFINE c == x.child[p]
             t == IF c.st = "exited" THEN x.timers ELSE BagAdd(x.timers, CollectOf(p))
             d == [x.child EXCEPT ![p] =
                      IF c.st = "exited" THEN Reaped
                      ELSE [c EXCEPT !.pipe = "closed", !.renewed = FALSE]]
             read == [x EXCEPT !.report.job = NoJob,
                               !.child[p] =
                                   IF c.st = "exited" THEN Reaped
                                   ELSE [c EXCEPT !.pipe = "closed", !.renewed = FALSE],
                               !.timers = IF c.st = "exited" THEN @
                                          ELSE BagAdd(@, CollectOf(p))]
             z == ApplyOutcome(read, c.pipe, c.renewed)
  <1>1. FinishJob(x, p) = ScheduleNext(z, x.report.job.gen)
    BY DEF FinishJob
  <1>2. /\ read.report = [x.report EXCEPT !.job = NoJob]
        /\ read.timers = t
        /\ read.child = d
        /\ DOMAIN read = DOMAIN x
    BY DEF IsSystem
  <1>3. c \in Child /\ c.st \in {"running", "written", "exited"}
    BY DEF IsSystem, Watching, Children, JobHasChild, Runs
  <1>4. /\ d \in [Pids -> Child]
        /\ \A s \in Pids : s # p => d[s] = x.child[s]
        /\ d[p].st = IF c.st = "exited" THEN "free" ELSE c.st
        /\ d[p].st = "free" => d[p].pipe = "closed"
    <2>1. [c EXCEPT !.pipe = "closed", !.renewed = FALSE] \in Child
      BY <1>3 DEF Child
    <2> QED BY <1>3, <2>1 DEF IsSystem, Reaped, Child, ChildStates
  <1>5. IsQueue(x.timers)
    BY DEF IsSystem
  <1>6. /\ read.report \in Report /\ read.report.job = NoJob
        /\ read.report.task = x.report.task
        /\ read.report.generation = x.report.generation
    BY <1>2 DEF IsSystem, Report
  <1> HIDE DEF read, d
  <1>7. IsSystem(read)
    BY <1>2, <1>4, <1>5, <1>6, AddCollect DEF IsSystem
  <1>8. Polls(read, 1)
    BY <1>2, <1>5, <1>6, AddCollect DEF Watching, Children, Polls, Runs
  <1>9. Collectors(read, {})
    BY <1>2, <1>3, <1>4, <1>5, <1>6, AddCollect DEF Watching, Children, Collectors, Runs
  <1>10. JobHasChild(read) /\ NoOpenPipe(read)
    BY <1>2, <1>4, <1>6 DEF Watching, Children, JobHasChild, NoOpenPipe
  <1>11. \A g : Pending(read.timers, TickOf(g)) = Pending(x.timers, TickOf(g))
    BY <1>2, <1>5, AddCollect
  <1>12. Watching(read, 0, 1, {})
    BY <1>6, <1>8, <1>9, <1>10, <1>11, JobOver DEF Children, Runs
  <1>13. IsSystem(z) /\ SameRest(read, z)
    <2> DEFINE s == IF c.pipe = "accepted" THEN "active" ELSE "error"
               m == read.report.mayRenew /\ ~(c.renewed /\ c.pipe \in Payloads)
               r == [read.report EXCEPT !.state = s, !.mayRenew = m]
    <2>1. z = [read EXCEPT !.report = r]
      BY DEF ApplyOutcome
    <2>2. m \in BOOLEAN /\ s \in ReportStates
      BY DEF ReportStates
    <2> HIDE DEF m, s
    <2>3. /\ r \in Report
          /\ r.task = read.report.task /\ r.generation = read.report.generation
          /\ r.job = read.report.job
      BY <1>6, <2>2 DEF Report
    <2> HIDE DEF r, z
    <2> QED BY <1>7, <2>1, <2>3, OtherFields
  <1> HIDE DEF z
  <1>14. Watching(z, 0, 1, {}) /\ z.report.job = NoJob /\ z.report.task = x.report.task
    BY <1>6, <1>12, <1>13, WatchingSame DEF SameRest
  <1> QED BY <1>1, <1>13, <1>14, TaskGoesOn DEF Runs

LEMMA PollOutcomeWatches ==
    ASSUME NEW x, IsSystem(x), Watching(x, 1, 0, {}), NEW p \in Pids, Runs(x, p)
    PROVE  LET y == PollOutcome(x, p) IN IsSystem(y) /\ Watching(y, 1, 1, {})
  <1> DEFINE y == PollOutcome(x, p)
             finished == x.child[p].st = "exited" \/ x.child[p].pipe \in Payloads
  <1>1. CASE finished
    <2>1. y = FinishJob(x, p)
      BY <1>1 DEF PollOutcome, Runs
    <2> QED BY <2>1, FinishJobWatches
  <1>2. CASE ~finished /\ x.report.job.age >= MaxPolls
    <2> DEFINE a == AbandonJob(x)
               z == SetState(a, "error")
    <2>1. y = ScheduleNext(z, x.report.job.gen)
      BY <1>2 DEF PollOutcome, Runs
    <2>2. /\ IsSystem(a) /\ Children(a, 1, {})
          /\ a.report = [x.report EXCEPT !.job = NoJob]
          /\ \A g : Pending(a.timers, TickOf(g)) = Pending(x.timers, TickOf(g))
      BY AbandonJobWatches DEF Watching, Runs
    <2>3. /\ a.report.job = NoJob /\ a.report.task = x.report.task
          /\ a.report.generation = x.report.generation
      BY <2>2 DEF IsSystem, Report
    <2> HIDE DEF a
    <2>4. Watching(a, 0, 1, {})
      BY <2>2, <2>3, JobOver DEF Runs
    <2>5. IsSystem(z) /\ SameRest(a, z)
      BY <2>2, SetStateKeeps DEF ReportStates
    <2> HIDE DEF z
    <2>6. Watching(z, 0, 1, {}) /\ z.report.job = NoJob /\ z.report.task = x.report.task
      BY <2>3, <2>4, <2>5, WatchingSame DEF SameRest
    <2> QED BY <2>1, <2>5, <2>6, TaskGoesOn DEF Runs
  <1>3. CASE ~finished /\ ~(x.report.job.age >= MaxPolls)
    <2> DEFINE job == [x.report.job EXCEPT !.age = @ + 1]
               r == [x.report EXCEPT !.job = job]
    <2>1. /\ y.report = r
          /\ y.timers = BagAdd(x.timers, PollOf(p))
          /\ y.child = x.child
          /\ DOMAIN y = DOMAIN x
      BY <1>3 DEF PollOutcome, Runs, IsSystem
    <2>2. x.report.job \in Job /\ x.report.job.pid = p
      BY DEF IsSystem, Report, Runs
    <2>3. job \in Job /\ job.pid = p /\ job.gen = x.report.job.gen
      <3>1. x.report.job.age + 1 \in 0..MaxPolls
        BY <1>3, <2>2, MaxPollsAssumption DEF Job
      <3> QED BY <2>2, <3>1 DEF Job
    <2>4. job # NoJob
      BY <2>3, NoJobAssumption
    <2> HIDE DEF job
    <2>5. /\ r \in Report /\ r.job = job
          /\ r.task = x.report.task /\ r.generation = x.report.generation
      BY <2>3 DEF IsSystem, Report
    <2>6. IsQueue(x.timers)
      BY DEF IsSystem
    <2> HIDE DEF r, y
    <2>7. IsSystem(y)
      BY <2>1, <2>5, <2>6, AddPoll DEF IsSystem
    <2>8. Ticks(y, 1)
      BY <2>1, <2>4, <2>5, <2>6, AddPoll DEF Watching, Ticks, Runs
    <2>9. Polls(y, 1)
      BY <2>1, <2>3, <2>4, <2>5, <2>6, AddPoll DEF Watching, Children, Polls, Runs
    <2>10. Collectors(y, {})
      BY <2>1, <2>3, <2>4, <2>5, <2>6, AddPoll DEF Watching, Children, Collectors, Runs
    <2>11. JobHasChild(y) /\ NoOpenPipe(y)
      BY <2>1, <2>3, <2>4, <2>5 DEF Watching, Children, JobHasChild, NoOpenPipe, Runs
    <2> QED BY <2>1, <2>3, <2>4, <2>5, <2>7, <2>8, <2>9, <2>10, <2>11
            DEF Watching, Newest, JobOfTask, Children, Runs, y
  <1> QED BY <1>1, <1>2, <1>3

-------------------------------------------------------------------------------
(***************************************************************************)
(* The invariant is inductive.                                             *)
(***************************************************************************)
Watched == IsSystem(Now) /\ Watching(Now, 1, 1, {})

LEMMA BecomesWatched ==
    ASSUME NEW x, IsSystem(x), Watching(x, 1, 1, {}), Becomes(x)
    PROVE  Watched'
  <1>1. IsSystem(Now)' /\ SameRest(x, Now')
    BY DEF Becomes, Now, IsSystem, SameRest
  <1>2. Watching(Now', 1, 1, {})
    BY <1>1, WatchingSame
  <1> QED BY <1>1, <1>2 DEF Watched

\* The object, the queue and the processes did not change.
LEMMA UnchangedWatched ==
    ASSUME Watched, UNCHANGED <<timers, child>>,
           report' \in Report,
           report'.task = report.task, report'.generation = report.generation,
           report'.job = report.job
    PROVE  Watched'
  <1>1. IsSystem(Now)'
    BY DEF Watched, IsSystem, Now
  <1>2. SameRest(Now, Now')
    BY DEF SameRest, Now
  <1>3. Watching(Now', 1, 1, {})
    BY <1>2, WatchingSame DEF Watched
  <1> QED BY <1>1, <1>3 DEF Watched

LEMMA TypedReport ==
    ASSUME Watched
    PROVE  report \in Report /\ child \in [Pids -> Child] /\ IsQueue(timers)
  BY DEF Watched, IsSystem, Now

\* The object with the suspended flag set: on_suspend, on_resume, on_reader_ready.
LEMMA SuspendedFlag ==
    ASSUME Watched, NEW u \in BOOLEAN
    PROVE  LET y == [Now EXCEPT !.report.suspended = u] IN
           IsSystem(y) /\ Watching(y, 1, 1, {})
  <1> DEFINE r == [report EXCEPT !.suspended = u]
             y == [Now EXCEPT !.report.suspended = u]
  <1>1. y = [Now EXCEPT !.report = r]
    BY DEF Now
  <1>2. /\ r \in Report
        /\ r.task = Now.report.task /\ r.generation = Now.report.generation
        /\ r.job = Now.report.job
    BY TypedReport DEF Now, Report
  <1> HIDE DEF r
  <1>3. IsSystem(y) /\ SameRest(Now, y)
    BY <1>1, <1>2, OtherFields DEF Watched
  <1> HIDE DEF y
  <1>4. Watching(y, 1, 1, {})
    BY <1>3, WatchingSame DEF Watched
  <1> QED BY <1>3, <1>4 DEF y

LEMMA InitWatched == Init => Watched
  <1> SUFFICES ASSUME Init PROVE Watched
    OBVIOUS
  <1> DEFINE x == Started(config)
  <1>1. config \in Config
    BY DEF Init
  <1>2. IsSystem(Fresh)
    <2>1. Fresh.report \in Report
      BY DEF Fresh, Report, ReportStates, NoTask
    <2>2. Fresh.child \in [Pids -> Child]
      BY DEF Fresh, Reaped, Child, ChildStates
    <2>3. IsQueue(Fresh.timers)
      BY DEF Fresh, IsQueue
    <2> QED BY <2>1, <2>2, <2>3 DEF IsSystem, Fresh
  <1>3. Watching(Fresh, 1, 1, {})
    BY DEF Fresh, Reaped, Watching, Newest, Ticks, JobOfTask, Children, Polls, Collectors,
           JobHasChild, NoOpenPipe, Runs, Pending, NoTask
  <1>4. IsSystem(x) /\ Watching(x, 1, 1, {})
    BY <1>1, <1>2, <1>3, MaybeStartWatches DEF Started
  <1>5. report = x.report /\ timers = x.timers /\ child = x.child
    BY DEF Init
  <1> HIDE DEF x
  <1>6. SameRest(x, Now) /\ IsSystem(Now)
    BY <1>4, <1>5 DEF SameRest, IsSystem, Now
  <1> QED BY <1>4, <1>6, WatchingSame DEF Watched

\* The system as a tick finds it, taken off the queue.
LEMMA TickTaken ==
    ASSUME Watched, NEW g \in Nat, g = report.task, report.job = NoJob,
           NEW x, x.report = report, x.child = child,
           x.timers = BagRemoveAll(timers, TickOf(g)), DOMAIN x = DOMAIN Now
    PROVE  IsSystem(x) /\ Watching(x, 0, 1, {})
  <1>1. IsQueue(timers)
    BY TypedReport
  <1>2. IsSystem(x)
    BY <1>1, DropTick DEF Watched, IsSystem, Now
  <1>3. Ticks(x, 0)
    BY <1>1, DropTick DEF Watched, Watching, Ticks, Now
  <1>4. Children(x, 1, {})
    BY <1>1, DropTick
    DEF Watched, Watching, Children, Polls, Collectors, JobHasChild, NoOpenPipe, Runs, Now
  <1>5. Watching(x, 0, 1, {})
    BY <1>3, <1>4 DEF Watched, Watching, Newest, JobOfTask, Now
  <1> QED BY <1>2, <1>5

LEMMA TickWatched == Watched /\ Rest /\ Tick => Watched'
  <1> SUFFICES ASSUME Watched, Rest, Tick PROVE Watched'
    OBVIOUS
  <1>1. PICK callback \in DOMAIN timers :
            /\ callback.kind = "tick"
            /\ LET x == [Now EXCEPT !.timers = BagRemove(@, callback)]
               IN  \E y \in TickOutcomes(x, callback.gen) : Becomes(y)
    BY DEF Tick
  <1> DEFINE g == callback.gen
             x == [Now EXCEPT !.timers = BagRemove(@, callback)]
  <1>2. IsQueue(timers) /\ report \in Report
    BY TypedReport
  <1>3. g \in Nat /\ callback = TickOf(g)
    BY <1>1, <1>2 DEF IsQueue, Callbacks, TickOf
  <1>4. Pending(timers, callback) # 0
    BY <1>1, <1>2, PendingNat
  <1>5. /\ g = report.task /\ g # NoTask /\ report.job = NoJob
        /\ Pending(timers, callback) = 1
    BY <1>3, <1>4 DEF Watched, Watching, Ticks, Now
  <1>6. /\ x.report = report /\ x.child = child
        /\ x.timers = BagRemoveAll(timers, TickOf(g))
        /\ DOMAIN x = DOMAIN Now
    BY <1>2, <1>3, <1>5, RemoveLastPending DEF Now
  <1>7. PICK y \in TickOutcomes(x, g) : Becomes(y)
    BY <1>1
  <1> HIDE DEF x, g
  <1>8. IsSystem(x) /\ Watching(x, 0, 1, {})
    BY <1>3, <1>5, <1>6, TickTaken
  <1>9. IsSystem(y) /\ Watching(y, 1, 1, {})
    BY <1>3, <1>5, <1>6, <1>7, <1>8, TickOutcomesWatch DEF Rest
  <1> QED BY <1>7, <1>9, BecomesWatched

LEMMA PollWatched ==
    ASSUME Watched, NEW p \in Pids, Poll(p)
    PROVE  Watched'
  <1> DEFINE x == [Now EXCEPT !.timers = BagRemove(@, PollOf(p))]
  <1>1. PollOf(p) \in DOMAIN timers /\ Becomes(PollOutcome(x, p))
    BY DEF Poll
  <1>2. IsQueue(timers)
    BY TypedReport
  <1>3. Runs(Now, p) /\ Pending(timers, PollOf(p)) = 1
    BY <1>1, <1>2, PendingNat DEF Watched, Watching, Children, Polls, Now
  <1>4. /\ x.report = report /\ x.child = child
        /\ x.timers = BagRemoveAll(timers, PollOf(p))
        /\ DOMAIN x = DOMAIN Now
    BY <1>2, <1>3, RemoveLastPending DEF Now
  <1> HIDE DEF x
  <1>5. IsSystem(x)
    BY <1>2, <1>4, DropPoll DEF Watched, IsSystem, Now
  <1>6. Ticks(x, 1)
    BY <1>2, <1>4, DropPoll DEF Watched, Watching, Ticks, Now
  <1>7. Polls(x, 0)
    BY <1>2, <1>3, <1>4, DropPoll DEF Watched, Watching, Children, Polls, Runs, Now
  <1>8. Collectors(x, {}) /\ JobHasChild(x) /\ NoOpenPipe(x)
    BY <1>2, <1>4, DropPoll
    DEF Watched, Watching, Children, Collectors, JobHasChild, NoOpenPipe, Runs, Now
  <1>9. Watching(x, 1, 0, {}) /\ Runs(x, p)
    BY <1>3, <1>4, <1>6, <1>7, <1>8
    DEF Watched, Watching, Newest, JobOfTask, Children, Runs, Now
  <1> QED BY <1>1, <1>5, <1>9, PollOutcomeWatches, BecomesWatched

LEMMA CollectWatched ==
    ASSUME Watched, NEW p \in Pids, CollectAgain(p)
    PROVE  Watched'
  <1> DEFINE x == [Now EXCEPT !.timers = BagRemove(@, CollectOf(p))]
             y == Collect(x, p)
  <1>1. CollectOf(p) \in DOMAIN timers /\ Becomes(y)
    BY DEF CollectAgain
  <1>2. IsQueue(timers)
    BY TypedReport
  <1>3. /\ child[p].st # "free" /\ ~Runs(Now, p)
        /\ Pending(timers, CollectOf(p)) = 1
    BY <1>1, <1>2, PendingNat DEF Watched, Watching, Children, Collectors, Now
  <1>4. /\ x.report = report /\ x.child = child
        /\ x.timers = BagRemoveAll(timers, CollectOf(p))
        /\ DOMAIN x = DOMAIN Now
    BY <1>2, <1>3, RemoveLastPending DEF Now
  <1> HIDE DEF x
  <1>5. IsSystem(x)
    BY <1>2, <1>4, DropCollect DEF Watched, IsSystem, Now
  <1>6. \A g : Pending(x.timers, TickOf(g)) = Pending(timers, TickOf(g))
    BY <1>2, <1>4, DropCollect
  <1>7. Collectors(x, {p})
    BY <1>2, <1>3, <1>4, DropCollect DEF Watched, Watching, Children, Collectors, Runs, Now
  <1>8. Polls(x, 1) /\ JobHasChild(x) /\ NoOpenPipe(x)
    BY <1>2, <1>4, DropCollect
    DEF Watched, Watching, Children, Polls, JobHasChild, NoOpenPipe, Runs, Now
  <1>9. /\ IsSystem(y) /\ Children(y, 1, {}) /\ y.report = report
        /\ \A g : Pending(y.timers, TickOf(g)) = Pending(timers, TickOf(g))
    BY <1>3, <1>4, <1>5, <1>6, <1>7, <1>8, CollectWatches DEF Children, Runs, Now
  <1> HIDE DEF y
  <1>10. Watching(y, 1, 1, {})
    BY <1>9 DEF Watched, Watching, Newest, Ticks, JobOfTask, Now
  <1> QED BY <1>1, <1>9, <1>10, BecomesWatched

\* What a child does by itself: its status moves on but it stays to be reaped.
LEMMA ChildMoves ==
    ASSUME Watched, NEW p \in Pids, UNCHANGED <<report, timers>>,
           child' \in [Pids -> Child],
           \A s \in Pids : s # p => child'[s] = child[s],
           child[p].st # "free",
           child[p].st = "killed" => child'[p].st = "exited",
           child[p].st # "killed" => child'[p].st \in {"running", "written", "exited"}
    PROVE  Watched'
  <1>1. IsSystem(Now)'
    BY DEF Watched, IsSystem, Now
  <1>2. Ticks(Now, 1)' /\ Polls(Now, 1)' /\ Newest(Now)' /\ JobOfTask(Now)'
    BY DEF Watched, Watching, Newest, Ticks, JobOfTask, Children, Polls, Runs, Now
  <1>3. child'[p].st # "free"
    OBVIOUS
  <1>4. Collectors(Now, {})' /\ NoOpenPipe(Now)'
    BY <1>3 DEF Watched, Watching, Children, Collectors, NoOpenPipe, Runs, Now
  <1>5. JobHasChild(Now)'
    <2>1. report.job # NoJob => report.job.pid \in Pids
      BY TypedReport DEF Report, Job
    <2> QED BY <2>1 DEF Watched, Watching, Children, JobHasChild, Now
  <1> QED BY <1>1, <1>2, <1>4, <1>5 DEF Watched, Watching, Children

LEMMA ChildWatched ==
    ASSUME Watched, NEW p \in Pids,
           ChildRenews(p) \/ ChildWrites(p) \/ ChildDies(p) \/ ChildExits(p)
    PROVE  Watched'
  <1>1. child \in [Pids -> Child]
    BY TypedReport
  <1>2. CASE ChildRenews(p)
    <2>1. /\ child' \in [Pids -> Child]
          /\ \A s \in Pids : s # p => child'[s] = child[s]
          /\ child[p].st = "running" /\ child'[p].st = "running"
      BY <1>1, <1>2 DEF ChildRenews, Child
    <2> QED BY <1>2, <2>1, ChildMoves DEF ChildRenews, childOnly
  <1>3. CASE ChildWrites(p)
    <2>1. PICK payload \in Payloads :
              child' = [child EXCEPT ![p].st = "written", ![p].pipe = payload]
      BY <1>3 DEF ChildWrites
    <2>2. /\ child' \in [Pids -> Child]
          /\ \A s \in Pids : s # p => child'[s] = child[s]
          /\ child'[p].st = "written"
      BY <1>1, <2>1 DEF Child, ChildStates
    <2> QED BY <1>3, <2>2, ChildMoves DEF ChildWrites, childOnly
  <1>4. CASE ChildDies(p) \/ ChildExits(p)
    <2>1. /\ child' \in [Pids -> Child]
          /\ \A s \in Pids : s # p => child'[s] = child[s]
          /\ child'[p].st = "exited"
          /\ child[p].st # "free"
      BY <1>1, <1>4 DEF ChildDies, ChildExits, Child, ChildStates
    <2> QED BY <1>4, <2>1, ChildMoves DEF ChildDies, ChildExits, childOnly
  <1> QED BY <1>2, <1>3, <1>4

LEMMA ReconfigureWatched ==
    ASSUME Watched, NEW cfg \in Config, Reconfigure(cfg)
    PROVE  Watched'
  <1> DEFINE x == Stop(Now, "target_changed")
             y == MaybeStart(x, cfg, document)
  <1>1. IsSystem(x) /\ Watching(x, 1, 1, {})
    BY StopWatches DEF Watched
  <1>2. Becomes(y)
    BY DEF Reconfigure, Handle
  <1> HIDE DEF x
  <1>3. IsSystem(y) /\ Watching(y, 1, 1, {})
    BY <1>1, MaybeStartWatches
  <1> HIDE DEF y
  <1> QED BY <1>2, <1>3, BecomesWatched

LEMMA UserWatched ==
    ASSUME Watched, config \in Config, UserAction
    PROVE  Watched'
  <1>0. \A reason : /\ IsSystem(Stop(Now, reason))
                    /\ Watching(Stop(Now, reason), 1, 1, {})
    BY StopWatches DEF Watched
  <1>1. ASSUME NEW doc, ReaderReady(doc) PROVE Watched'
    <2> DEFINE x == [Now EXCEPT !.report.suspended = FALSE]
               y == MaybeStart(x, config, doc)
    <2>1. Becomes(y)
      BY <1>1 DEF ReaderReady, Handle
    <2>2. IsSystem(x) /\ Watching(x, 1, 1, {})
      BY SuspendedFlag
    <2> HIDE DEF x
    <2>3. IsSystem(y) /\ Watching(y, 1, 1, {})
      BY <2>2, MaybeStartWatches
    <2> HIDE DEF y
    <2> QED BY <2>1, <2>3, BecomesWatched
  <1>2. ASSUME CloseDocument PROVE Watched'
    <2> DEFINE x == Stop(Now, "document_closed")
               y == [x EXCEPT !.report.current = NoBook]
               z == MaybeStart(Now, config, document)
    <2>1. Becomes(y) \/ Becomes(z)
      BY <1>2 DEF CloseDocument, Handle
    <2>2. IsSystem(x) /\ Watching(x, 1, 1, {})
      BY <1>0
    <2> HIDE DEF x
    <2>3. IsSystem(y) /\ SameRest(x, y)
      <3> DEFINE r == [x.report EXCEPT !.current = NoBook]
      <3>1. y = [x EXCEPT !.report = r]
        OBVIOUS
      <3>2. /\ r \in Report
            /\ r.task = x.report.task /\ r.generation = x.report.generation
            /\ r.job = x.report.job
        BY <2>2 DEF IsSystem, Report
      <3> HIDE DEF r, y
      <3> QED BY <2>2, <3>1, <3>2, OtherFields
    <2>4. IsSystem(z) /\ Watching(z, 1, 1, {})
      BY MaybeStartWatches DEF Watched
    <2> HIDE DEF y, z
    <2>5. Watching(y, 1, 1, {})
      BY <2>2, <2>3, WatchingSame
    <2> QED BY <2>1, <2>3, <2>4, <2>5, BecomesWatched
  <1>3. ASSUME Suspend PROVE Watched'
    <2> DEFINE x == [Now EXCEPT !.report.suspended = TRUE]
               y == Stop(x, "suspend")
    <2>1. Becomes(y)
      BY <1>3 DEF Suspend, Handle
    <2>2. IsSystem(x) /\ Watching(x, 1, 1, {})
      BY SuspendedFlag
    <2> HIDE DEF x
    <2>3. IsSystem(y) /\ Watching(y, 1, 1, {})
      BY <2>2, StopWatches
    <2> HIDE DEF y
    <2> QED BY <2>1, <2>3, BecomesWatched
  <1>4. ASSUME Resume PROVE Watched'
    <2> DEFINE x == [Now EXCEPT !.report.suspended = FALSE]
               y == MaybeStart(x, config, document)
    <2>1. Becomes(y)
      BY <1>4 DEF Resume, Handle
    <2>2. IsSystem(x) /\ Watching(x, 1, 1, {})
      BY SuspendedFlag
    <2> HIDE DEF x
    <2>3. IsSystem(y) /\ Watching(y, 1, 1, {})
      BY <2>2, MaybeStartWatches
    <2> HIDE DEF y
    <2> QED BY <2>1, <2>3, BecomesWatched
  <1>5. ASSUME ToggleEnabled PROVE Watched'
    <2> DEFINE cfg == [config EXCEPT !.enabled = ~@]
               y == MaybeStart(Now, cfg, document)
    <2>1. Becomes(Stop(Now, "explicit_stop")) \/ Becomes(Now) \/ Becomes(y)
      BY <1>5 DEF ToggleEnabled, Handle
    <2>2. cfg \in Config
      BY DEF Config
    <2> HIDE DEF cfg
    <2>3. IsSystem(y) /\ Watching(y, 1, 1, {})
      BY <2>2, MaybeStartWatches DEF Watched
    <2> HIDE DEF y
    <2> QED BY <1>0, <2>1, <2>3, BecomesWatched DEF Watched
  <1>6. ASSUME ToggleOnOpen PROVE Watched'
    <2>1. [config EXCEPT !.onOpen = ~@] \in Config
      BY DEF Config
    <2> QED BY <1>6, <2>1, ReconfigureWatched DEF ToggleOnOpen
  <1>7. ASSUME SetAuto PROVE Watched'
    <2>1. [config EXCEPT !.mode = "auto", !.book = NoBook] \in Config
      BY DEF Config
    <2> QED BY <1>7, <2>1, ReconfigureWatched DEF SetAuto
  <1>8. ASSUME NEW b \in Books, PickBook(b) PROVE Watched'
    <2>1. [config EXCEPT !.book = b] \in Config
      BY DEF Config
    <2> QED BY <1>8, <2>1, ReconfigureWatched DEF PickBook
  <1>9. ASSUME SetManual \/ ClearAccount PROVE Watched'
    <2>1. PICK reason : Becomes(Stop(Now, reason))
      BY <1>9 DEF SetManual, ClearAccount, Handle
    <2> QED BY <1>0, <2>1, BecomesWatched
  <1> QED BY <1>1, <1>2, <1>3, <1>4, <1>5, <1>6, <1>7, <1>8, <1>9 DEF UserAction

LEMMA OthersWatched ==
    ASSUME Watched,
           UploadPosition \/ CooldownElapses \/ \E i \in Records : EditRecord(i)
    PROVE  Watched'
  <1>1. report \in Report
    BY TypedReport
  <1>2. PICK m \in BOOLEAN : report' = report \/ report' = [report EXCEPT !.mayRenew = m]
    BY DEF UploadPosition, CooldownElapses, EditRecord
  <1>3. /\ report' \in Report
        /\ report'.task = report.task /\ report'.generation = report.generation
        /\ report'.job = report.job
    BY <1>1, <1>2 DEF Report
  <1>4. UNCHANGED <<timers, child>>
    BY DEF UploadPosition, CooldownElapses, EditRecord
  <1> QED BY <1>3, <1>4, UnchangedWatched

LEMMA ApartFromSystem ==
    ASSUME Inv, Next
    PROVE  Rest'
  <1>1. config' \in Config
    <2>1. CASE UserAction
      BY <2>1 DEF Inv, Rest, Config, UserAction, ReaderReady, CloseDocument, Suspend, Resume,
                  ToggleEnabled, ToggleOnOpen, SetAuto, SetManual, PickBook, ClearAccount,
                  Reconfigure
    <2>2. CASE ~UserAction
      BY <2>2 DEF Inv, Rest, Next, Tick, Poll, CollectAgain, ChildRenews, ChildWrites,
                  ChildDies, ChildExits, childOnly, EditRecord, UploadPosition, CooldownElapses
    <2> QED BY <2>1, <2>2
  <1>2. document' \in Books \union {NoBook, NoDocument}
    <2>1. CASE UserAction
      BY <2>1 DEF Inv, Rest, UserAction, ReaderReady, CloseDocument, Suspend, Resume,
                  ToggleEnabled, ToggleOnOpen, SetAuto, SetManual, PickBook, ClearAccount,
                  Reconfigure
    <2>2. CASE ~UserAction
      BY <2>2 DEF Inv, Rest, Next, Tick, Poll, CollectAgain, ChildRenews, ChildWrites,
                  ChildDies, ChildExits, childOnly, EditRecord, UploadPosition, CooldownElapses
    <2> QED BY <2>1, <2>2
  <1>3. stored' \in [Records -> Nat] /\ edits' \in [Records -> Nat]
    <2>0. stored \in [Records -> Nat] /\ edits \in [Records -> Nat] /\ Auth \in Records
      BY DEF Inv, Rest, Records
    <2>1. CASE ClearAccount \/ \E i \in Records : EditRecord(i)
      <3>1. PICK i \in Records : /\ edits' = [edits EXCEPT ![i] = @ + 1]
                                 /\ stored' = [stored EXCEPT ![i] = edits[i] + 1]
        BY <2>0, <2>1 DEF ClearAccount, EditRecord
      <3> QED BY <2>0, <3>1
    <2>2. CASE \E p \in Pids : Poll(p)
      <3>1. PICK p \in Pids : stored' = WrittenBack(report.job, p) /\ UNCHANGED edits
        BY <2>2 DEF Poll
      <3>2. \A v, b : WriteBack(v, b) = v
        BY DEF WriteBack
      <3>3. WrittenBack(report.job, p) \in [Records -> Nat]
        <4> DEFINE b == report.job.book
                   n == WriteBack(stored[b], report.job.base.book)
                   v == [stored EXCEPT ![Auth] = WriteBack(@, report.job.base.auth)]
                   w == [v EXCEPT ![b] = n]
        <4>1. WrittenBack(report.job, p) \in {w, stored}
          BY DEF WrittenBack
        <4>2. v \in [Records -> Nat]
          BY <2>0, <3>2
        <4>3. b \in Records => n \in Nat
          BY <2>0, <3>2
        <4> HIDE DEF b, n, v
        <4>4. w \in [Records -> Nat]
          BY <4>2, <4>3
        <4> QED BY <2>0, <4>1, <4>4
      <3> QED BY <2>0, <3>1, <3>3
    <2>3. CASE UserAction /\ ~ClearAccount
      BY <2>0, <2>3 DEF UserAction, ReaderReady, CloseDocument, Suspend, Resume,
                        ToggleEnabled, ToggleOnOpen, SetAuto, SetManual, PickBook, Reconfigure
    <2>4. CASE /\ ~UserAction
               /\ ~ \E p \in Pids : Poll(p)
               /\ ~ \E i \in Records : EditRecord(i)
      BY <2>0, <2>4 DEF Next, Tick, CollectAgain, ChildRenews, ChildWrites, ChildDies,
                        ChildExits, childOnly, UploadPosition, CooldownElapses
    <2> QED BY <2>1, <2>2, <2>3, <2>4
  <1>4. events' \in 0..MaxEvents
    <2>1. events' = events \/ (events < MaxEvents /\ events' = events + 1)
      BY DEF Next, UserAction, ReaderReady, CloseDocument, Suspend, Resume, ToggleEnabled,
             ToggleOnOpen, SetAuto, SetManual, PickBook, ClearAccount, Reconfigure, Handle,
             Tick, Poll, CollectAgain, ChildRenews, ChildWrites, ChildDies, ChildExits,
             childOnly, EditRecord, UploadPosition, CooldownElapses
    <2>2. events \in 0..MaxEvents
      BY DEF Inv, Rest
    <2> QED BY <2>1, <2>2, MaxEventsAssumption
  <1>5. {renewedLately, lostRenewal, parked}' \subseteq BOOLEAN
    <2>1. CASE UserAction
      BY <2>1 DEF Inv, Rest, UserAction, ReaderReady, CloseDocument, Suspend, Resume,
                  ToggleEnabled, ToggleOnOpen, SetAuto, SetManual, PickBook, ClearAccount,
                  Reconfigure, Handle
    <2>2. CASE ~UserAction
      BY <2>2 DEF Inv, Rest, Next, Tick, Poll, CollectAgain, ChildRenews, ChildWrites,
                  ChildDies, ChildExits, childOnly, EditRecord, UploadPosition, CooldownElapses
    <2> QED BY <2>1, <2>2
  <1> QED BY <1>1, <1>2, <1>3, <1>4, <1>5 DEF Rest

\* The inductive invariant holds of every behaviour.
THEOREM Invariance == Spec => []Inv
  <1>1. Init => Inv
    <2>1. Init => Rest
      <3> SUFFICES ASSUME Init PROVE Rest
        OBVIOUS
      <3>1. stored \in [Records -> Nat] /\ edits \in [Records -> Nat]
        BY DEF Init
      <3>2. events \in 0..MaxEvents
        BY MaxEventsAssumption DEF Init
      <3> QED BY <3>1, <3>2 DEF Init, Rest
    <2> QED BY <2>1, InitWatched DEF Inv, Watched
  <1>2. Inv /\ [Next]_vars => Inv'
    <2> SUFFICES ASSUME Inv, [Next]_vars PROVE Inv'
      OBVIOUS
    <2>1. CASE Next
      <3>1. Watched /\ Rest
        BY DEF Inv, Watched
      <3>2. Watched'
        BY <2>1, <3>1, TickWatched, PollWatched, CollectWatched, ChildWatched, UserWatched,
           OthersWatched
        DEF Next, Rest
      <3> QED BY <2>1, <3>2, ApartFromSystem DEF Inv, Watched
    <2>2. CASE UNCHANGED vars
      BY <2>2 DEF vars, Inv, Rest, IsSystem, Now, Watching, Newest, Ticks, JobOfTask, Children,
                  Polls, Collectors, JobHasChild, NoOpenPipe, Runs
    <2> QED BY <2>1, <2>2
  <1> QED BY <1>1, <1>2, PTL DEF Spec

\* Every variable keeps its type; in particular a job's age never passes MaxPolls,
\* so a job is always timed out in the end (_poll_job).
THEOREM TypeCorrect == Spec => []TypeOK
  <1>1. Inv => TypeOK
    BY DEF Inv, Rest, TypeOK, IsSystem, IsQueue, Now
  <1> QED BY <1>1, Invariance, PTL

\* A live task has exactly one continuation and a dead task none, for any number
\* of books and processes and any sequence of events (start, stop, _tick, _poll_job).
THEOREM TaskContinues == Spec => []OneContinuation
  <1>1. Inv => OneContinuation
    <2> SUFFICES ASSUME Inv PROVE OneContinuation
      OBVIOUS
    <2>1. IsQueue(timers) /\ report \in Report
      BY DEF Inv, IsSystem, Now
    <2>2. ASSUME NEW callback \in DOMAIN timers, callback.kind = "tick"
          PROVE  /\ timers[callback] = 1
                 /\ callback.gen = report.task /\ report.task # NoTask
                 /\ report.job = NoJob
      <3>1. callback.gen \in Nat /\ callback = TickOf(callback.gen)
        BY <2>1, <2>2 DEF IsQueue, Callbacks, TickOf
      <3>2. Pending(timers, TickOf(callback.gen)) # 0
        BY <2>1, <3>1, PendingNat
      <3>3. /\ callback.gen = report.task /\ report.task # NoTask /\ report.job = NoJob
            /\ Pending(timers, TickOf(callback.gen)) = 1
        BY <3>1, <3>2 DEF Inv, Watching, Ticks, Now
      <3> QED BY <3>1, <3>3 DEF Pending
    <2>3. ASSUME report.job # NoJob
          PROVE  /\ report.task # NoTask /\ report.job.gen = report.task
                 /\ Pending(timers, PollOf(report.job.pid)) = 1
      <3>1. report.job.pid \in Pids
        BY <2>1, <2>3 DEF Report, Job
      <3> QED BY <2>3, <3>1 DEF Inv, Watching, JobOfTask, Children, Polls, Runs, Now
    <2>4. report.task # NoTask /\ report.job = NoJob => Pending(timers, TickOf(report.task)) = 1
      BY <2>1 DEF Inv, Watching, Ticks, Now, Report
    <2> QED BY <2>2, <2>3, <2>4 DEF OneContinuation
  <1> QED BY <1>1, Invariance, PTL

\* Every child has exactly one callback that will reap it, for any number of
\* process ids, and reuse of ids never mixes two children up (_abandon_job,
\* _collect_pid, _poll_job).
THEOREM ChildrenLookedAfter == Spec => []ChildrenAccounted
  <1>1. Inv => ChildrenAccounted
    <2> SUFFICES ASSUME Inv, NEW p \in Pids
                 PROVE  /\ Pending(timers, PollOf(p)) + Pending(timers, CollectOf(p))
                              = (IF child[p].st = "free" THEN 0 ELSE 1)
                        /\ child[p].st = "free" => child[p].pipe = "closed"
      BY DEF ChildrenAccounted
    <2>1. Runs(Now, p) => child[p].st # "free"
      BY DEF Inv, Watching, Children, JobHasChild, Runs, Now
    <2>2. /\ Pending(timers, PollOf(p)) = IF Runs(Now, p) THEN 1 ELSE 0
          /\ Pending(timers, CollectOf(p)) =
                 IF child[p].st = "free" \/ Runs(Now, p) THEN 0 ELSE 1
      BY DEF Inv, Watching, Children, Polls, Collectors, Now
    <2> QED BY <2>1, <2>2 DEF Inv, Watching, Children, NoOpenPipe, Now
  <1> QED BY <1>1, Invariance, PTL

-------------------------------------------------------------------------------
(***************************************************************************)
(* What the user and the server are told.  A second invariant, on top of   *)
(* the first: it is about the fields that Watching leaves aside.           *)
(***************************************************************************)

\* status() tells of a live task, and a suspended device has none.
Honest(r) ==
    /\ r.task = NoTask <=> r.state \in {"stopped", "suspended"}
    /\ r.suspended => r.task = NoTask

\* Only the child of the job in flight still runs, and it has not written yet.
RunsForJob(x) ==
    \A p \in Pids : x.child[p].st = "running" => Runs(x, p) /\ x.child[p].pipe = "empty"

Sound(x) == Honest(x.report) /\ RunsForJob(x)

\* A due task is live.
Due(r, cfg, doc) ==
    cfg.enabled /\ ~r.suspended /\ ResolveTarget(cfg, doc) # NoBook => r.task # NoTask

\* From x to y no renewal is forgotten but that of a job that was given up.
Carries(x, y) ==
    /\ y.report.mayRenew = x.report.mayRenew
    /\ y.report.job = NoJob \/ (y.report.job = x.report.job /\ y.child = x.child)

Truth ==
    /\ Sound(Now)
    /\ NoLostUpdate
    /\ CooldownRecorded
    /\ RunsWhenDue

LEMMA CollectIs ==
    ASSUME NEW x, IsSystem(x), NEW p \in Pids
    PROVE  LET y == Collect(x, p) IN
           /\ y.report = x.report /\ DOMAIN y = DOMAIN x
           /\ \A s \in Pids : s # p => y.child[s] = x.child[s]
           /\ y.child[p].st \in {x.child[p].st, "free"}
           /\ y.child[p].pipe \in {x.child[p].pipe, "closed"}
           /\ x.child[p].pipe = "empty" /\ y.child[p].st # "free" => y.child[p].pipe = "empty"
  <1>1. PICK y : y = Collect(x, p)
    OBVIOUS
  <1>2. x.child \in [Pids -> Child]
    BY DEF IsSystem
  <1>3. CASE x.child[p].st = "exited"
    <2>1. PICK d : d = [x.child EXCEPT ![p] = Reaped]
      OBVIOUS
    <2>2. y.report = x.report /\ y.child = d /\ DOMAIN y = DOMAIN x
      BY <1>1, <1>3, <2>1 DEF Collect, IsSystem
    <2>3. d[p].st = "free" /\ d[p].pipe = "closed" /\ \A s \in Pids : s # p => d[s] = x.child[s]
      BY <1>2, <2>1 DEF Reaped
    <2> QED BY <1>1, <2>2, <2>3
  <1>4. CASE x.child[p].st # "exited"
    <2>1. PICK d : d = [x.child EXCEPT ![p].pipe = IF @ \in Payloads THEN "closed" ELSE @]
      OBVIOUS
    <2>2. y.report = x.report /\ y.child = d /\ DOMAIN y = DOMAIN x
      BY <1>1, <1>4, <2>1 DEF Collect, IsSystem
    <2>3. /\ d[p].st = x.child[p].st
          /\ d[p].pipe = IF x.child[p].pipe \in Payloads THEN "closed" ELSE x.child[p].pipe
          /\ \A s \in Pids : s # p => d[s] = x.child[s]
      BY <1>2, <2>1 DEF Child
    <2> QED BY <1>1, <2>2, <2>3 DEF Payloads
  <1> QED BY <1>3, <1>4

\* _abandon_job ends the only child that runs.
LEMMA AbandonJobIs ==
    ASSUME NEW x, IsSystem(x), x.report.job # NoJob, RunsForJob(x)
    PROVE  LET y == AbandonJob(x) IN
           /\ y.report = [x.report EXCEPT !.job = NoJob]
           /\ DOMAIN y = DOMAIN x
           /\ \A s \in Pids : y.child[s].st # "running"
  <1>1. PICK p \in Pids : p = x.report.job.pid
    BY DEF IsSystem, Report, Job
  <1>2. PICK d : d = [x.child EXCEPT ![p] = [@ EXCEPT !.st = IF @ = "exited" THEN @ ELSE "killed",
                                                      !.renewed = FALSE]]
    OBVIOUS
  <1>3. PICK k : k = [x EXCEPT !.report.job = NoJob,
                               !.timers = BagRemoveAll(@, PollOf(p)),
                               !.child[p] = [@ EXCEPT !.st = IF @ = "exited" THEN @ ELSE "killed",
                                                      !.renewed = FALSE]]
    OBVIOUS
  <1>4. /\ k.report = [x.report EXCEPT !.job = NoJob] /\ k.child = d
        /\ k.timers = BagRemoveAll(x.timers, PollOf(p)) /\ DOMAIN k = DOMAIN x
    BY <1>2, <1>3 DEF IsSystem
  <1>5. AbandonJob(x) = Collect(k, p)
    BY <1>1, <1>3 DEF AbandonJob
  <1>6. x.child \in [Pids -> Child] /\ IsQueue(x.timers)
    BY DEF IsSystem
  <1>7. /\ d \in [Pids -> Child] /\ d[p].st \in {"exited", "killed"}
        /\ \A s \in Pids : s # p => d[s] = x.child[s]
    BY <1>2, <1>6 DEF Child, ChildStates
  <1>8. k.report \in Report
    BY <1>4 DEF IsSystem, Report
  <1>9. IsSystem(k)
    BY <1>4, <1>6, <1>7, <1>8, DropPoll DEF IsSystem
  <1>10. \A s \in Pids : s # p => x.child[s].st # "running"
    BY <1>1 DEF RunsForJob, Runs
  <1>11. PICK y : y = Collect(k, p)
    OBVIOUS
  <1>12. /\ y.report = k.report /\ DOMAIN y = DOMAIN k /\ y.child[p].st \in {k.child[p].st, "free"}
         /\ \A s \in Pids : s # p => y.child[s] = k.child[s]
    BY <1>9, <1>11, CollectIs
  <1>13. \A s \in Pids : y.child[s].st # "running"
    BY <1>4, <1>7, <1>10, <1>12
  <1> QED BY <1>4, <1>5, <1>11, <1>12, <1>13

LEMMA StopIs ==
    ASSUME NEW x, IsSystem(x), RunsForJob(x), NEW reason
    PROVE  LET y == Stop(x, reason) IN
           /\ Sound(y) /\ y.report.job = NoJob /\ y.report.task = NoTask
           /\ y.report.suspended = x.report.suspended
           /\ y.report.mayRenew = x.report.mayRenew
  <1>1. PICK y : y = Stop(x, reason)
    OBVIOUS
  <1>2. PICK r : r = [x.report EXCEPT !.generation = x.report.generation + 1, !.task = NoTask,
                              !.state = IF reason = "suspend" THEN "suspended" ELSE "stopped"]
    OBVIOUS
  <1>3. PICK h : h = [x EXCEPT !.report =
                [@ EXCEPT !.generation = x.report.generation + 1, !.task = NoTask,
                          !.state = IF reason = "suspend" THEN "suspended" ELSE "stopped"],
                               !.timers = BagRemoveAll(@, TickOf(x.report.task))]
    OBVIOUS
  <1>4. y = IF x.report.job = NoJob THEN h ELSE AbandonJob(h)
    BY <1>1, <1>3 DEF Stop
  <1>5. /\ h.report = r /\ h.child = x.child /\ DOMAIN h = DOMAIN x
        /\ h.timers = BagRemoveAll(x.timers, TickOf(x.report.task))
    BY <1>2, <1>3 DEF IsSystem
  <1>6. x.report \in Report /\ x.report.generation + 1 \in Nat
    BY DEF IsSystem, Report
  <1>7. /\ r \in Report /\ r.task = NoTask /\ r.state \in {"suspended", "stopped"}
        /\ r.job = x.report.job /\ r.suspended = x.report.suspended
        /\ r.mayRenew = x.report.mayRenew
    BY <1>2, <1>6 DEF Report, ReportStates, NoTask
  <1>8. IsSystem(h)
    BY <1>5, <1>7, DropTick DEF IsSystem
  <1>9. RunsForJob(h)
    BY <1>5, <1>7 DEF RunsForJob, Runs
  <1>10. CASE x.report.job = NoJob
    <2>1. y = h
      BY <1>4, <1>10
    <2> QED BY <1>1, <1>5, <1>7, <1>9, <1>10, <2>1 DEF Sound, Honest
  <1>11. CASE x.report.job # NoJob
    <2>1. PICK a : a = AbandonJob(h)
      OBVIOUS
    <2>2. a.report = [r EXCEPT !.job = NoJob] /\ \A s \in Pids : a.child[s].st # "running"
      BY <1>5, <1>7, <1>8, <1>9, <1>11, <2>1, AbandonJobIs
    <2>3. /\ a.report.job = NoJob /\ a.report.task = NoTask
          /\ a.report.state = r.state /\ a.report.suspended = r.suspended
          /\ a.report.mayRenew = r.mayRenew
      BY <1>7, <2>2 DEF Report
    <2>4. y = a
      BY <1>4, <1>11, <2>1
    <2>5. Honest(y.report)
      BY <1>7, <2>3, <2>4 DEF Honest
    <2>6. RunsForJob(y)
      BY <2>2, <2>4 DEF RunsForJob
    <2> QED BY <1>1, <1>7, <2>3, <2>4, <2>5, <2>6 DEF Sound
  <1> QED BY <1>10, <1>11

LEMMA MaybeStartIs ==
    ASSUME NEW x, IsSystem(x), Sound(x), NEW cfg \in Config, NEW doc
    PROVE  LET y == MaybeStart(x, cfg, doc) IN
           Sound(y) /\ Due(y.report, cfg, doc) /\ Carries(x, y)
  <1>1. PICK y : y = MaybeStart(x, cfg, doc)
    OBVIOUS
  <1>2. PICK target : target = ResolveTarget(cfg, doc)
    OBVIOUS
  <1>3. x.report \in Report
    BY DEF IsSystem
  <1>4. CASE ~cfg.enabled
    BY <1>4 DEF MaybeStart, Due, Carries
  <1>5. CASE cfg.enabled /\ x.report.suspended
    <2>1. PICK r : r = [x.report EXCEPT !.state = "suspended"]
      OBVIOUS
    <2>2. /\ r.task = x.report.task /\ r.state = "suspended" /\ r.suspended = x.report.suspended
          /\ r.mayRenew = x.report.mayRenew /\ r.job = x.report.job
      BY <1>3, <2>1 DEF Report
    <2>3. y = [x EXCEPT !.report = r]
      BY <1>1, <1>5, <2>1 DEF MaybeStart, SetState
    <2>4. y.report = r /\ y.child = x.child
      BY <2>3 DEF IsSystem
    <2> QED BY <1>1, <1>5, <2>2, <2>4 DEF Sound, Honest, Due, Carries, RunsForJob, Runs
  <1>6. CASE cfg.enabled /\ ~x.report.suspended /\ target = NoBook
    <2>1. y = Stop(x, "no_target")
      BY <1>1, <1>2, <1>6 DEF MaybeStart
    <2>2. Sound(y) /\ y.report.job = NoJob /\ y.report.mayRenew = x.report.mayRenew
      BY <2>1, StopIs DEF Sound
    <2> QED BY <1>1, <1>2, <1>6, <2>2 DEF Due, Carries
  <1>7. CASE cfg.enabled /\ ~x.report.suspended /\ target # NoBook /\ x.report.task # NoTask
    <2>1. PICK r : r = [x.report EXCEPT !.current = target]
      OBVIOUS
    <2>2. /\ r.task = x.report.task /\ r.state = x.report.state
          /\ r.suspended = x.report.suspended
          /\ r.mayRenew = x.report.mayRenew /\ r.job = x.report.job
      BY <1>3, <2>1 DEF Report
    <2>3. y = [x EXCEPT !.report = r]
      BY <1>1, <1>2, <1>7, <2>1 DEF MaybeStart
    <2>4. y.report = r /\ y.child = x.child
      BY <2>3 DEF IsSystem
    <2> QED BY <1>1, <1>7, <2>2, <2>4 DEF Sound, Honest, Due, Carries, RunsForJob, Runs
  <1>8. CASE cfg.enabled /\ ~x.report.suspended /\ target # NoBook /\ x.report.task = NoTask
    <2>1. PICK g : g = x.report.generation + 1
      OBVIOUS
    <2>2. g # NoTask
      BY <1>3, <2>1 DEF Report, NoTask
    <2>3. PICK r : r = [x.report EXCEPT !.generation = g, !.task = g, !.current = target,
                                        !.state = "waiting"]
      OBVIOUS
    <2>4. /\ r.task = g /\ r.state = "waiting" /\ r.suspended = x.report.suspended
          /\ r.mayRenew = x.report.mayRenew /\ r.job = x.report.job
      BY <1>3, <2>3 DEF Report
    <2>5. y = Start(x, target)
      BY <1>1, <1>2, <1>8 DEF MaybeStart
    <2>6. y.report = r /\ y.child = x.child
      BY <2>1, <2>3, <2>5 DEF Start, IsSystem
    <2> QED BY <1>1, <1>8, <2>2, <2>4, <2>6 DEF Sound, Honest, Due, Carries, RunsForJob, Runs
  <1> QED BY <1>4, <1>5, <1>6, <1>7, <1>8

\* Two views of the same object and children.
LEMMA SoundSame ==
    ASSUME NEW x, Sound(x), NEW y, y.report = x.report, y.child = x.child
    PROVE  Sound(y)
  BY DEF Sound, RunsForJob, Runs

LEMMA ScheduleNextIs ==
    ASSUME NEW z, IsSystem(z), NEW g
    PROVE  ScheduleNext(z, g).report = z.report /\ ScheduleNext(z, g).child = z.child
  BY DEF ScheduleNext, IsSystem

\* A task whose target is gone is given up, or begun again for the new one.
LEMMA RetireIs ==
    ASSUME NEW x, IsSystem(x), Watching(x, 0, 1, {}), Sound(x), config \in Config,
           NEW target, target = ResolveTarget(config, document)
    PROVE  LET y == Retire(x, target) IN
           /\ Sound(y) /\ Due(y.report, config, document)
           /\ y.report.mayRenew = x.report.mayRenew
  <1>1. PICK y : y = Retire(x, target)
    OBVIOUS
  <1>2. ASSUME NEW reason
        PROVE  LET z == Stop(x, reason) IN
               /\ IsSystem(z) /\ Sound(z) /\ z.report.mayRenew = x.report.mayRenew
               /\ z.report.suspended = x.report.suspended
    BY StopIs, StopWatches DEF Sound
  <1>3. CASE ~config.enabled \/ x.report.suspended \/ target = NoBook
    <2>1. PICK reason : y = Stop(x, reason)
      BY <1>1, <1>3 DEF Retire
    <2> QED BY <1>1, <1>2, <1>3, <2>1 DEF Due
  <1>4. CASE config.enabled /\ ~x.report.suspended /\ target # NoBook
    <2>1. PICK z : z = Stop(x, "document_changed")
      OBVIOUS
    <2>2. y = MaybeStart(z, config, document)
      BY <1>1, <1>4, <2>1 DEF Retire
    <2>3. IsSystem(z) /\ Sound(z) /\ z.report.mayRenew = x.report.mayRenew
      BY <1>2, <2>1
    <2> QED BY <1>1, <2>2, <2>3, MaybeStartIs DEF Carries
  <1> QED BY <1>3, <1>4

LEMMA TickOutcomesAre ==
    ASSUME NEW x, IsSystem(x), Watching(x, 0, 1, {}), Sound(x), x.report.job = NoJob,
           NEW g \in Nat \ {NoTask}, x.report.task = g,
           config \in Config, stored \in [Records -> Nat],
           NEW y \in TickOutcomes(x, g)
    PROVE  /\ Sound(y) /\ Due(y.report, config, document)
           /\ y.report.mayRenew \in {FALSE, x.report.mayRenew}
  <1>1. PICK target : target = ResolveTarget(config, document)
    OBVIOUS
  <1>2. PICK here : here = [x EXCEPT !.report.current = target]
    OBVIOUS
  <1>3. x.report.generation = g
    BY DEF Watching, Newest
  <1>4. CASE Outdated(x, target)
    <2>1. PICK z : z = Retire(x, target)
      OBVIOUS
    <2>2. y = ScheduleNext(z, g)
      BY <1>1, <1>3, <1>4, <2>1 DEF TickOutcomes
    <2>3. IsSystem(z)
      BY <2>1, RetireWatches
    <2>4. y.report = z.report /\ y.child = z.child
      BY <2>2, <2>3, ScheduleNextIs
    <2>5. Sound(z) /\ Due(z.report, config, document) /\ z.report.mayRenew = x.report.mayRenew
      BY <1>1, <2>1, RetireIs
    <2> QED BY <2>4, <2>5, SoundSame
  <1>5. CASE ~Outdated(x, target)
    <2>1. target \in Books /\ ~x.report.suspended
      BY <1>1, <1>5, TargetIsBook DEF Outdated
    <2>2. \A p \in Pids : x.child[p].st # "running"
      BY DEF Sound, RunsForJob, Runs
    <2>3. /\ here.report \in Report /\ here.report.task = g /\ here.report.job = NoJob
          /\ here.report.suspended = x.report.suspended
          /\ here.report.mayRenew = x.report.mayRenew
          /\ here.timers = x.timers /\ here.child = x.child /\ IsSystem(here)
      <3>1. PICK r : r = [x.report EXCEPT !.current = target]
        OBVIOUS
      <3>2. here = [x EXCEPT !.report = r]
        BY <1>2, <3>1
      <3>3. /\ r \in Report /\ r.task = g /\ r.job = NoJob
            /\ r.suspended = x.report.suspended /\ r.mayRenew = x.report.mayRenew
        BY <2>1, <3>1 DEF IsSystem, Report
      <3> QED BY <3>2, <3>3 DEF IsSystem
    <2>4. ASSUME NEW s \in {"error", "offline", "waiting_for_progress", "active"},
                 NEW m \in {FALSE, x.report.mayRenew},
                 NEW r, r = [here.report EXCEPT !.state = s, !.mayRenew = m],
                 y = ScheduleNext([here EXCEPT !.report = r], g)
          PROVE  /\ Sound(y) /\ Due(y.report, config, document)
                 /\ y.report.mayRenew \in {FALSE, x.report.mayRenew}
      <3>1. PICK z : z = [here EXCEPT !.report = r]
        OBVIOUS
      <3>2. m \in BOOLEAN
        BY DEF IsSystem, Report
      <3>3. /\ r \in Report /\ r.task = g /\ r.state = s /\ r.mayRenew = m
            /\ r.suspended = x.report.suspended
        BY <2>3, <2>4, <3>2 DEF Report, ReportStates
      <3>4. z.report = r /\ z.child = x.child /\ IsSystem(z)
        BY <2>3, <3>1, <3>3 DEF IsSystem
      <3>5. y.report = r /\ y.child = x.child
        BY <2>4, <3>1, <3>4, ScheduleNextIs
      <3>6. Honest(r)
        BY <2>1, <3>3 DEF Honest
      <3> QED BY <2>2, <3>3, <3>5, <3>6 DEF Sound, RunsForJob, Due
    <2>5. CASE \E s \in SkipStates : y = ScheduleNext(SetState(here, s), g)
      <3>1. PICK s \in SkipStates : y = ScheduleNext(SetState(here, s), g)
        BY <2>5
      <3>2. PICK r : r = [here.report EXCEPT !.state = s, !.mayRenew = here.report.mayRenew]
        OBVIOUS
      <3>3. SetState(here, s) = [here EXCEPT !.report = r]
        <4>1. r = [here.report EXCEPT !.state = s]
          BY <2>3, <3>2 DEF Report
        <4> QED BY <4>1 DEF SetState
      <3> QED BY <2>3, <2>4, <3>1, <3>2, <3>3 DEF SkipStates
    <2>6. CASE \E z \in InlineReports(here) : y = ScheduleNext(z, g)
      <3>1. PICK s \in {"active", "error"}, m \in {FALSE, here.report.mayRenew} :
                y = ScheduleNext([here EXCEPT !.report = [@ EXCEPT !.state = s, !.mayRenew = m]], g)
        BY <2>6 DEF InlineReports
      <3>2. PICK r : r = [here.report EXCEPT !.state = s, !.mayRenew = m]
        OBVIOUS
      <3>3. y = ScheduleNext([here EXCEPT !.report = r], g)
        BY <3>1, <3>2
      <3> QED BY <2>3, <2>4, <3>2, <3>3
    <2>7. CASE \E p \in FreePids(x) : y = StartJob(x, g, p, target)
      <3>1. PICK p \in Pids : x.child[p].st = "free" /\ y = StartJob(x, g, p, target)
        BY <2>7 DEF FreePids
      <3>2. PICK job : job = [pid |-> p, gen |-> g, book |-> target, age |-> 0,
                              base |-> [auth |-> stored[Auth], book |-> stored[target]]]
        OBVIOUS
      <3>3. PICK r : r = [x.report EXCEPT !.current = target, !.job = job]
        OBVIOUS
      <3>4. PICK d : d = [x.child EXCEPT ![p] =
                              [st |-> "running", pipe |-> "empty", renewed |-> FALSE]]
        OBVIOUS
      <3>5. y.report = r /\ y.child = d
        BY <3>1, <3>2, <3>3, <3>4 DEF StartJob, IsSystem
      <3>6. /\ r.task = g /\ r.state = x.report.state /\ r.suspended = x.report.suspended
            /\ r.mayRenew = x.report.mayRenew /\ r.job = job
        BY <3>3 DEF IsSystem, Report
      <3>7. job \in Job /\ job # NoJob /\ job.pid = p
        BY <2>1, <3>2, MaxPollsAssumption, NoJobAssumption DEF Job, Records
      <3>8. /\ d[p].st = "running" /\ d[p].pipe = "empty"
            /\ \A s \in Pids : s # p => d[s] = x.child[s]
        BY <3>4 DEF IsSystem
      <3>9. Honest(r)
        BY <3>6 DEF Sound, Honest
      <3>10. RunsForJob(y)
        BY <2>2, <3>5, <3>6, <3>7, <3>8 DEF RunsForJob, Runs
      <3> QED BY <3>5, <3>6, <3>9, <3>10 DEF Sound, Due
    <2>8. \/ \E s \in SkipStates : y = ScheduleNext(SetState(here, s), g)
          \/ \E z \in InlineReports(here) : y = ScheduleNext(z, g)
          \/ \E p \in FreePids(x) : y = StartJob(x, g, p, target)
      BY <1>1, <1>2, <1>3, <1>5 DEF TickOutcomes
    <2> QED BY <2>5, <2>6, <2>7, <2>8
  <1> QED BY <1>4, <1>5

LEMMA TickTells ==
    ASSUME Inv, Truth, Tick
    PROVE  Truth'
  <1>1. PICK callback \in DOMAIN timers :
            /\ callback.kind = "tick"
            /\ LET x == [Now EXCEPT !.timers = BagRemove(@, callback)]
               IN  \E y \in TickOutcomes(x, callback.gen) : Becomes(y)
    BY DEF Tick
  <1>2. PICK g : g = callback.gen
    OBVIOUS
  <1>3. PICK x : x = [Now EXCEPT !.timers = BagRemove(@, callback)]
    OBVIOUS
  <1>4. PICK y \in TickOutcomes(x, g) : Becomes(y)
    BY <1>1, <1>2, <1>3
  <1>5. Watched /\ Rest /\ IsQueue(timers) /\ report \in Report
    BY TypedReport DEF Inv, Watched
  <1>6. g \in Nat /\ callback = TickOf(g)
    BY <1>1, <1>2, <1>5 DEF IsQueue, Callbacks, TickOf
  <1>7. Pending(timers, callback) # 0
    BY <1>1, <1>5, PendingNat
  <1>8. /\ g = report.task /\ g # NoTask /\ report.job = NoJob
        /\ Pending(timers, callback) = 1
    BY <1>5, <1>6, <1>7 DEF Watched, Watching, Ticks, Now
  <1>9. /\ x.report = report /\ x.child = child
        /\ x.timers = BagRemoveAll(timers, TickOf(g))
        /\ DOMAIN x = DOMAIN Now
    BY <1>3, <1>5, <1>6, <1>8, RemoveLastPending DEF Now
  <1>10. IsSystem(x) /\ Watching(x, 0, 1, {})
    BY <1>5, <1>6, <1>8, <1>9, TickTaken
  <1>11. Sound(x)
    BY <1>9, SoundSame DEF Truth, Now
  <1>12. /\ Sound(y) /\ Due(y.report, config, document)
         /\ y.report.mayRenew \in {FALSE, report.mayRenew}
    BY <1>5, <1>6, <1>8, <1>9, <1>10, <1>11, TickOutcomesAre DEF Rest
  <1>13. /\ report' = y.report /\ child' = y.child /\ UNCHANGED <<config, document, parked>>
         /\ UNCHANGED <<stored, edits, lostRenewal>>
         /\ renewedLately' = (renewedLately \/ report'.mayRenew # report.mayRenew)
    BY <1>4 DEF Tick, Becomes
  <1>14. Sound(Now)'
    BY <1>12, <1>13, SoundSame DEF Now
  <1>15. RunsWhenDue'
    BY <1>12, <1>13 DEF Due, RunsWhenDue
  <1>16. CooldownRecorded'
    <2>1. report.mayRenew \in BOOLEAN
      BY <1>5 DEF Report
    <2> QED BY <1>8, <1>12, <1>13, <2>1 DEF Truth, CooldownRecorded
  <1>17. NoLostUpdate'
    BY <1>13 DEF Truth, NoLostUpdate
  <1> QED BY <1>14, <1>15, <1>16, <1>17 DEF Truth

\* An outcome that says so puts the renewal on the clock.
LEMMA PollOutcomeIs ==
    ASSUME NEW x, IsSystem(x), NEW p \in Pids, Runs(x, p), Sound(x), x.report.task # NoTask
    PROVE  LET y == PollOutcome(x, p)
               c == x.child[p] IN
           /\ Sound(y)
           /\ y.report.task = x.report.task /\ y.report.suspended = x.report.suspended
           /\ \/ /\ y.report.job # NoJob /\ y.report.job.pid = p /\ y.child = x.child
                 /\ y.report.mayRenew = x.report.mayRenew
              \/ /\ y.report.job = NoJob
                 /\ y.report.mayRenew =
                      (x.report.mayRenew /\ ~(c.renewed /\ c.pipe \in Payloads))
  <1>1. PICK y : y = PollOutcome(x, p)
    OBVIOUS
  <1>2. PICK c : c = x.child[p]
    OBVIOUS
  <1>3. /\ x.report \in Report /\ x.child \in [Pids -> Child] /\ c \in Child
        /\ x.report.job \in Job /\ x.report.job.pid = p /\ x.report.job # NoJob
        /\ x.report.mayRenew \in BOOLEAN /\ ~x.report.suspended
    BY <1>2 DEF IsSystem, Runs, Report, Sound, Honest
  <1>4. \A s \in Pids : s # p => x.child[s].st # "running"
    BY <1>3 DEF Sound, RunsForJob, Runs
  <1>5. PICK finished \in BOOLEAN : finished <=> c.st = "exited" \/ c.pipe \in Payloads
    OBVIOUS
  <1>6. CASE finished
    <2>1. PICK e : e = IF c.st = "exited" THEN Reaped
                       ELSE [c EXCEPT !.pipe = "closed", !.renewed = FALSE]
      OBVIOUS
    <2>2. PICK read : read = [x EXCEPT !.report.job = NoJob, !.child[p] = e,
                                       !.timers = IF c.st = "exited" THEN @
                                                  ELSE BagAdd(@, CollectOf(p))]
      OBVIOUS
    <2>3. PICK z : z = ApplyOutcome(read, c.pipe, c.renewed)
      OBVIOUS
    <2>4. y = ScheduleNext(z, x.report.job.gen)
      BY <1>1, <1>2, <1>3, <1>5, <1>6, <2>1, <2>2, <2>3 DEF PollOutcome, FinishJob
    <2>5. PICK d : d = [x.child EXCEPT ![p] = e]
      OBVIOUS
    <2>6. c.st # "running"
      BY <1>2, <1>5, <1>6 DEF Sound, RunsForJob, Payloads
    <2>7. e.st # "running"
      BY <1>3, <2>1, <2>6 DEF Reaped, Child
    <2>8. \A s \in Pids : d[s].st # "running"
      BY <1>3, <1>4, <2>5, <2>7
    <2>9. PICK k : k = [x.report EXCEPT !.job = NoJob]
      OBVIOUS
    <2>10. /\ k.task = x.report.task /\ k.suspended = x.report.suspended /\ k.job = NoJob
           /\ k.mayRenew = x.report.mayRenew /\ k \in Report
      BY <1>3, <2>9 DEF Report
    <2>11. read.report = k /\ read.child = d
           /\ DOMAIN read = {"report", "timers", "child"}
      BY <2>2, <2>5, <2>9 DEF IsSystem
    <2>12. PICK state \in {"active", "error"} :
              state = IF c.pipe = "accepted" THEN "active" ELSE "error"
      OBVIOUS
    <2>13. PICK m \in BOOLEAN :
              m <=> x.report.mayRenew /\ ~(c.renewed /\ c.pipe \in Payloads)
      OBVIOUS
    <2>14. PICK r : r = [k EXCEPT !.state = state, !.mayRenew = m]
      OBVIOUS
    <2>15. /\ r.task = x.report.task /\ r.suspended = x.report.suspended /\ r.job = NoJob
           /\ r.state = state /\ r.mayRenew = m
      BY <2>10, <2>14 DEF Report
    <2>16. z = [read EXCEPT !.report = r]
      <3>1. m = (read.report.mayRenew /\ ~(c.renewed /\ c.pipe \in Payloads))
        BY <2>10, <2>11, <2>13
      <3>2. r = [read.report EXCEPT !.state = IF c.pipe = "accepted" THEN "active" ELSE "error",
                                    !.mayRenew = read.report.mayRenew
                                                 /\ ~(c.renewed /\ c.pipe \in Payloads)]
        BY <2>11, <2>12, <2>14, <3>1
      <3> QED BY <2>3, <3>2 DEF ApplyOutcome
    <2>17. z.report = r /\ z.child = d /\ DOMAIN z = {"report", "timers", "child"}
      BY <2>11, <2>16
    <2>18. y.report = r /\ y.child = d
      BY <2>4, <2>17 DEF ScheduleNext
    <2>19. Honest(r)
      BY <1>3, <2>12, <2>15 DEF Honest
    <2>20. Sound(y)
      BY <2>8, <2>18, <2>19 DEF Sound, RunsForJob
    <2>21. r.mayRenew = (x.report.mayRenew /\ ~(c.renewed /\ c.pipe \in Payloads))
      BY <2>13, <2>15
    <2> QED BY <1>1, <1>2, <2>15, <2>18, <2>20, <2>21
  <1>7. CASE ~finished /\ x.report.job.age >= MaxPolls
    <2>1. PICK a : a = AbandonJob(x)
      OBVIOUS
    <2>2. /\ a.report = [x.report EXCEPT !.job = NoJob] /\ DOMAIN a = DOMAIN x
          /\ \A s \in Pids : a.child[s].st # "running"
      BY <1>3, <2>1, AbandonJobIs DEF Sound
    <2>3. PICK z : z = SetState(a, "error")
      OBVIOUS
    <2>4. y = ScheduleNext(z, x.report.job.gen)
      BY <1>1, <1>2, <1>3, <1>5, <1>7, <2>1, <2>3 DEF PollOutcome
    <2>5. DOMAIN a = {"report", "timers", "child"}
      BY <2>2 DEF IsSystem
    <2>6. PICK r : r = [a.report EXCEPT !.state = "error"]
      OBVIOUS
    <2>7. /\ r.task = x.report.task /\ r.suspended = x.report.suspended /\ r.job = NoJob
          /\ r.state = "error" /\ r.mayRenew = x.report.mayRenew
      BY <1>3, <2>2, <2>6 DEF Report
    <2>8. z = [a EXCEPT !.report = r]
      BY <2>3, <2>6 DEF SetState
    <2>9. z.report = r /\ z.child = a.child /\ DOMAIN z = {"report", "timers", "child"}
      BY <2>5, <2>8
    <2>10. y.report = r /\ y.child = a.child
      BY <2>4, <2>9 DEF ScheduleNext
    <2>11. Honest(r)
      BY <1>3, <2>7 DEF Honest
    <2>12. Sound(y)
      BY <2>2, <2>10, <2>11 DEF Sound, RunsForJob
    <2>13. r.mayRenew = (x.report.mayRenew /\ ~(c.renewed /\ c.pipe \in Payloads))
      BY <1>3, <1>5, <1>7, <2>7
    <2> QED BY <1>1, <1>2, <2>7, <2>10, <2>12, <2>13
  <1>8. CASE ~finished /\ ~(x.report.job.age >= MaxPolls)
    <2>1. PICK job : job = [x.report.job EXCEPT !.age = @ + 1]
      OBVIOUS
    <2>2. job.pid = p
      BY <1>3, <2>1 DEF Job
    <2>3. job \in Job
      <3>1. x.report.job.age + 1 \in 0..MaxPolls
        BY <1>3, <1>8, MaxPollsAssumption DEF Job
      <3> QED BY <1>3, <2>1, <3>1 DEF Job
    <2>4. PICK r : r = [x.report EXCEPT !.job = job]
      OBVIOUS
    <2>5. /\ r.task = x.report.task /\ r.suspended = x.report.suspended /\ r.job = job
          /\ r.state = x.report.state /\ r.mayRenew = x.report.mayRenew
      BY <1>3, <2>4 DEF Report
    <2>6. y.report = r /\ y.child = x.child
      BY <1>1, <1>2, <1>3, <1>5, <1>8, <2>1, <2>4 DEF PollOutcome, IsSystem
    <2>7. job # NoJob
      BY <2>3, NoJobAssumption
    <2>8. Honest(r)
      BY <2>5 DEF Sound, Honest
    <2>9. RunsForJob(y)
      BY <1>3, <2>2, <2>5, <2>6, <2>7 DEF Sound, RunsForJob, Runs
    <2> QED BY <1>1, <1>2, <2>2, <2>5, <2>6, <2>7, <2>8, <2>9 DEF Sound
  <1> QED BY <1>6, <1>7, <1>8

\* The fingerprints of a job let nothing be written back over another edit.
LEMMA WriteBackSame ==
    ASSUME NEW job, NEW p, stored \in [Records -> Nat]
    PROVE  WrittenBack(job, p) = stored
  BY DEF WrittenBack, WriteBack

LEMMA PollTells ==
    ASSUME Inv, Truth, NEW p \in Pids, Poll(p)
    PROVE  Truth'
  <1>1. PICK x : x = [Now EXCEPT !.timers = BagRemove(@, PollOf(p))]
    OBVIOUS
  <1>2. PICK y : y = PollOutcome(x, p)
    OBVIOUS
  <1>3. /\ PollOf(p) \in DOMAIN timers /\ report' = y.report /\ child' = y.child
    BY <1>1, <1>2 DEF Poll, Becomes
  <1>4. Watched /\ Rest /\ IsQueue(timers) /\ report \in Report
    BY TypedReport DEF Inv, Watched
  <1>5. Runs(Now, p) /\ Pending(timers, PollOf(p)) = 1
    BY <1>3, <1>4, PendingNat DEF Watched, Watching, Children, Polls, Now
  <1>6. /\ x.report = report /\ x.child = child
        /\ x.timers = BagRemoveAll(timers, PollOf(p))
        /\ DOMAIN x = DOMAIN Now
    BY <1>1, <1>4, <1>5, RemoveLastPending DEF Now
  <1>7. IsSystem(x)
    BY <1>4, <1>6, DropPoll DEF Watched, IsSystem, Now
  <1>8. Runs(x, p) /\ Sound(x) /\ x.report.task # NoTask
    BY <1>4, <1>5, <1>6, SoundSame DEF Truth, Now, Runs, Watched, Watching, JobOfTask
  <1>9. /\ Sound(y) /\ y.report.task = report.task /\ y.report.suspended = report.suspended
        /\ \/ /\ y.report.job # NoJob /\ y.report.job.pid = p /\ y.child = child
              /\ y.report.mayRenew = report.mayRenew
           \/ /\ y.report.job = NoJob
              /\ y.report.mayRenew =
                    (report.mayRenew /\ ~(child[p].renewed /\ child[p].pipe \in Payloads))
    BY <1>2, <1>6, <1>7, <1>8, PollOutcomeIs
  <1>10. /\ UNCHANGED <<config, document, edits, renewedLately, parked>>
         /\ stored' = stored
         /\ lostRenewal' = (lostRenewal \/ /\ child[p].renewed
                                           /\ report'.job = NoJob
                                           /\ child[p].pipe \notin Payloads)
    BY <1>4, WriteBackSame DEF Poll, Rest
  <1>11. Sound(Now)'
    BY <1>3, <1>9, SoundSame DEF Now
  <1>12. RunsWhenDue'
    BY <1>3, <1>9, <1>10 DEF Truth, RunsWhenDue
  <1>13. NoLostUpdate'
    BY <1>10 DEF Truth, NoLostUpdate
  <1>14. CooldownRecorded'
    <2>1. report.job # NoJob /\ report.job.pid = p /\ report.mayRenew \in BOOLEAN
      BY <1>4, <1>5 DEF Runs, Now, Report
    <2>2. CASE y.report.job # NoJob /\ y.report.job.pid = p /\ y.child = child
               /\ y.report.mayRenew = report.mayRenew
      BY <1>3, <1>10, <2>1, <2>2 DEF Truth, CooldownRecorded
    <2>3. CASE y.report.job = NoJob /\ y.report.mayRenew =
                 (report.mayRenew /\ ~(child[p].renewed /\ child[p].pipe \in Payloads))
      <3> SUFFICES ASSUME renewedLately', ~lostRenewal', report'.mayRenew
                   PROVE  FALSE
        BY DEF CooldownRecorded
      <3>1. report.mayRenew /\ ~(child[p].renewed /\ child[p].pipe \in Payloads)
        BY <1>3, <2>3
      <3>2. renewedLately /\ ~lostRenewal /\ ~(child[p].renewed /\ child[p].pipe \notin Payloads)
        BY <1>3, <1>10, <2>3
      <3>3. child[p].renewed
        BY <2>1, <3>1, <3>2 DEF Truth, CooldownRecorded
      <3> QED BY <3>1, <3>2, <3>3
    <2> QED BY <1>9, <2>2, <2>3
  <1> QED BY <1>11, <1>12, <1>13, <1>14 DEF Truth

\* A handler ends the job or leaves it alone, and knows what the job's end loses.
LEMMA HandleTells ==
    ASSUME Inv, Truth, NEW y, Handle(y), Sound(y), Carries(Now, y)
    PROVE  Sound(Now)' /\ CooldownRecorded'
  <1>1. /\ report' = y.report /\ child' = y.child /\ renewedLately' = renewedLately
        /\ lostRenewal' = (lostRenewal \/ /\ report.job # NoJob
                                          /\ y.report.job = NoJob
                                          /\ child[report.job.pid].renewed)
    BY DEF Handle, Becomes
  <1>2. Sound(Now)'
    BY <1>1, SoundSame DEF Now
  <1>3. /\ y.report.mayRenew = report.mayRenew
        /\ y.report.job = NoJob \/ (y.report.job = report.job /\ y.child = child)
    BY DEF Carries, Now
  <1>4. CASE y.report.job = NoJob
    <2> SUFFICES ASSUME renewedLately', ~lostRenewal', report'.mayRenew
                 PROVE  FALSE
      BY <1>2 DEF CooldownRecorded
    <2>1. renewedLately /\ ~lostRenewal /\ report.mayRenew
      BY <1>1, <1>3
    <2>2. ~(report.job # NoJob /\ child[report.job.pid].renewed)
      BY <1>1, <1>4
    <2> QED BY <2>1, <2>2 DEF Truth, CooldownRecorded
  <1>5. CASE y.report.job = report.job /\ y.child = child
    BY <1>1, <1>2, <1>3, <1>5 DEF Truth, CooldownRecorded
  <1> QED BY <1>2, <1>3, <1>4, <1>5

\* stop, from any handler.
LEMMA StopNowIs ==
    ASSUME Inv, Truth, NEW reason
    PROVE  /\ IsSystem(Stop(Now, reason)) /\ Sound(Stop(Now, reason))
           /\ Carries(Now, Stop(Now, reason))
  BY StopIs, StopWatches DEF Inv, Truth, Sound, Carries

\* maybe_start, once the device is awake or as it was.
LEMMA StartNowIs ==
    ASSUME Inv, Truth, NEW x, x = Now \/ x = [Now EXCEPT !.report.suspended = FALSE],
           NEW cfg \in Config, NEW doc
    PROVE  LET y == MaybeStart(x, cfg, doc) IN
           Sound(y) /\ Due(y.report, cfg, doc) /\ Carries(Now, y)
  <1>1. IsSystem(x) /\ Sound(x) /\ Carries(Now, x) /\ x.child = child /\ x.report.job = report.job
        /\ x.report.mayRenew = report.mayRenew
    <2>1. CASE x = Now
      BY <2>1 DEF Inv, Truth, Carries, Now
    <2>2. CASE x = [Now EXCEPT !.report.suspended = FALSE]
      <3>1. IsSystem(x)
        BY <2>2, SuspendedFlag DEF Inv, Watched
      <3>2. PICK r : r = [report EXCEPT !.suspended = FALSE]
        OBVIOUS
      <3>3. x.report = r /\ x.child = child
        BY <2>2, <3>2 DEF Now
      <3>4. report \in Report
        BY TypedReport DEF Inv, Watched
      <3>5. /\ r.task = report.task /\ r.state = report.state /\ r.suspended = FALSE
            /\ r.job = report.job /\ r.mayRenew = report.mayRenew
        BY <3>2, <3>4 DEF Report
      <3>6. Honest(r)
        BY <3>5 DEF Truth, Sound, Honest, Now
      <3>7. RunsForJob(x)
        BY <3>3, <3>5 DEF Truth, Sound, RunsForJob, Runs, Now
      <3> QED BY <3>1, <3>3, <3>5, <3>6, <3>7 DEF Sound, Carries, Now
    <2> QED BY <2>1, <2>2
  <1>2. PICK y : y = MaybeStart(x, cfg, doc)
    OBVIOUS
  <1>3. Sound(y) /\ Due(y.report, cfg, doc) /\ Carries(x, y)
    BY <1>1, <1>2, MaybeStartIs
  <1> QED BY <1>1, <1>2, <1>3 DEF Carries, Now

LEMMA ReconfigureTells ==
    ASSUME Inv, Truth, NEW cfg \in Config, Reconfigure(cfg)
    PROVE  Truth'
  <1>1. PICK x : x = Stop(Now, "target_changed")
    OBVIOUS
  <1>2. PICK y : y = MaybeStart(x, cfg, document)
    OBVIOUS
  <1>3. /\ Handle(y) /\ report' = y.report /\ config' = cfg
        /\ UNCHANGED <<document, stored, edits>>
    BY <1>1, <1>2 DEF Reconfigure, Handle, Becomes
  <1>4. IsSystem(x) /\ Sound(x) /\ Carries(Now, x) /\ x.report.job = NoJob
    BY <1>1, StopNowIs, StopIs DEF Inv, Truth, Sound
  <1>5. Sound(y) /\ Due(y.report, cfg, document) /\ Carries(x, y)
    BY <1>2, <1>4, MaybeStartIs
  <1>6. Carries(Now, y)
    BY <1>4, <1>5 DEF Carries
  <1>7. Sound(Now)' /\ CooldownRecorded'
    BY <1>3, <1>5, <1>6, HandleTells
  <1>8. RunsWhenDue' /\ NoLostUpdate'
    BY <1>3, <1>5 DEF Due, RunsWhenDue, Truth, NoLostUpdate
  <1> QED BY <1>7, <1>8 DEF Truth

\* A task that reports on open documents only, or finds its own book, has no target
\* once the document is closed; for another its target stays.
LEMMA ClosedTarget ==
    ASSUME config \in Config, document # NoDocument
    PROVE  /\ config.onOpen \/ config.mode = "auto" => ResolveTarget(config, NoDocument) = NoBook
           /\ ~(config.onOpen \/ config.mode = "auto") =>
                 \/ ResolveTarget(config, NoDocument) = NoBook
                 \/ ResolveTarget(config, NoDocument) = ResolveTarget(config, document)
  BY NamesAssumption DEF ResolveTarget, Config

LEMMA UserTells ==
    ASSUME Inv, Truth, UserAction
    PROVE  Truth'
  <1>0. config \in Config
    BY DEF Inv, Rest
  <1>1. ASSUME NEW doc, ReaderReady(doc) PROVE Truth'
    <2>1. PICK x : x = [Now EXCEPT !.report.suspended = FALSE]
      OBVIOUS
    <2>2. PICK y : y = MaybeStart(x, config, doc)
      OBVIOUS
    <2>3. /\ Handle(y) /\ report' = y.report /\ document' = doc
          /\ UNCHANGED <<config, stored, edits>>
      BY <1>1, <2>1, <2>2 DEF ReaderReady, Handle, Becomes
    <2>4. Sound(y) /\ Due(y.report, config, doc) /\ Carries(Now, y)
      BY <1>0, <2>1, <2>2, StartNowIs
    <2>5. Sound(Now)' /\ CooldownRecorded'
      BY <2>3, <2>4, HandleTells
    <2>6. RunsWhenDue' /\ NoLostUpdate'
      BY <2>3, <2>4 DEF Due, RunsWhenDue, Truth, NoLostUpdate
    <2> QED BY <2>5, <2>6 DEF Truth
  <1>2. ASSUME CloseDocument PROVE Truth'
    <2>1. document # NoDocument /\ document' = NoDocument /\ UNCHANGED <<config, stored, edits>>
      BY <1>2 DEF CloseDocument
    <2>2. NoLostUpdate'
      BY <2>1 DEF Truth, NoLostUpdate
    <2>3. CASE config.onOpen \/ config.mode = "auto"
      <3>1. PICK x : x = Stop(Now, "document_closed")
        OBVIOUS
      <3>2. PICK y : y = [x EXCEPT !.report.current = NoBook]
        OBVIOUS
      <3>3. Handle(y)
        BY <1>2, <2>3, <3>1, <3>2 DEF CloseDocument
      <3>4. IsSystem(x) /\ Sound(x) /\ Carries(Now, x)
        BY <3>1, StopNowIs
      <3>5. PICK r : r = [x.report EXCEPT !.current = NoBook]
        OBVIOUS
      <3>6. y.report = r /\ y.child = x.child
        BY <3>2, <3>4, <3>5 DEF IsSystem
      <3>7. /\ r.task = x.report.task /\ r.state = x.report.state
            /\ r.suspended = x.report.suspended
            /\ r.job = x.report.job /\ r.mayRenew = x.report.mayRenew
        BY <3>4, <3>5 DEF IsSystem, Report
      <3>8. Sound(y) /\ Carries(Now, y)
        BY <3>4, <3>6, <3>7 DEF Sound, Honest, RunsForJob, Runs, Carries
      <3>9. RunsWhenDue'
        BY <1>0, <2>1, <2>3, ClosedTarget DEF RunsWhenDue
      <3> QED BY <2>2, <3>3, <3>8, <3>9, HandleTells DEF Truth
    <2>4. CASE ~(config.onOpen \/ config.mode = "auto")
      <3>1. PICK y : y = MaybeStart(Now, config, document)
        OBVIOUS
      <3>2. Handle(y) /\ report' = y.report
        BY <1>2, <2>4, <3>1 DEF CloseDocument, Handle, Becomes
      <3>3. Sound(y) /\ Due(y.report, config, document) /\ Carries(Now, y)
        BY <1>0, <3>1, StartNowIs
      <3>4. RunsWhenDue'
        BY <1>0, <2>1, <2>4, <3>2, <3>3, ClosedTarget DEF RunsWhenDue, Due
      <3> QED BY <2>2, <3>2, <3>3, <3>4, HandleTells DEF Truth
    <2> QED BY <2>3, <2>4
  <1>3. ASSUME Suspend PROVE Truth'
    <2>1. PICK x : x = [Now EXCEPT !.report.suspended = TRUE]
      OBVIOUS
    <2>2. PICK y : y = Stop(x, "suspend")
      OBVIOUS
    <2>3. Handle(y) /\ report' = y.report /\ UNCHANGED <<config, document, stored, edits>>
      BY <1>3, <2>1, <2>2 DEF Suspend, Handle, Becomes
    <2>4. IsSystem(x)
      BY <2>1, SuspendedFlag DEF Inv, Watched
    <2>5. PICK r : r = [report EXCEPT !.suspended = TRUE]
      OBVIOUS
    <2>6. x.report = r /\ x.child = child
      BY <2>1, <2>5 DEF Now
    <2>7. r.suspended = TRUE /\ r.job = report.job /\ r.mayRenew = report.mayRenew
      BY <2>5, TypedReport DEF Inv, Watched, Report
    <2>8. RunsForJob(x)
      BY <2>6, <2>7 DEF Truth, Sound, RunsForJob, Runs, Now
    <2>9. Sound(y) /\ y.report.job = NoJob /\ y.report.suspended = TRUE
          /\ y.report.mayRenew = report.mayRenew
      BY <2>2, <2>4, <2>6, <2>7, <2>8, StopIs
    <2>10. Sound(Now)' /\ CooldownRecorded'
      BY <2>3, <2>9, HandleTells DEF Carries, Now
    <2>11. RunsWhenDue' /\ NoLostUpdate'
      BY <2>3, <2>9 DEF RunsWhenDue, Truth, NoLostUpdate
    <2> QED BY <2>10, <2>11 DEF Truth
  <1>4. ASSUME Resume PROVE Truth'
    <2>1. PICK x : x = [Now EXCEPT !.report.suspended = FALSE]
      OBVIOUS
    <2>2. PICK y : y = MaybeStart(x, config, document)
      OBVIOUS
    <2>3. Handle(y) /\ report' = y.report /\ UNCHANGED <<config, document, stored, edits>>
      BY <1>4, <2>1, <2>2 DEF Resume, Handle, Becomes
    <2>4. Sound(y) /\ Due(y.report, config, document) /\ Carries(Now, y)
      BY <1>0, <2>1, <2>2, StartNowIs
    <2>5. Sound(Now)' /\ CooldownRecorded'
      BY <2>3, <2>4, HandleTells
    <2>6. RunsWhenDue' /\ NoLostUpdate'
      BY <2>3, <2>4 DEF Due, RunsWhenDue, Truth, NoLostUpdate
    <2> QED BY <2>5, <2>6 DEF Truth
  <1>5. ASSUME ToggleEnabled PROVE Truth'
    <2>1. PICK cfg : cfg = [config EXCEPT !.enabled = ~@]
      OBVIOUS
    <2>2. cfg \in Config
      BY <1>0, <2>1 DEF Config
    <2>3. PICK picks \in BOOLEAN :
              picks <=> cfg.enabled /\ cfg.mode = "manual" /\ cfg.book = NoBook
      OBVIOUS
    <2>4. PICK y : y = IF ~cfg.enabled THEN Stop(Now, "explicit_stop")
                       ELSE IF picks THEN Now ELSE MaybeStart(Now, cfg, document)
      OBVIOUS
    <2>5. /\ Handle(y) /\ report' = y.report /\ config' = cfg /\ (parked' <=> picks)
          /\ UNCHANGED <<document, stored, edits>>
      BY <1>5, <2>1, <2>3, <2>4 DEF ToggleEnabled, Handle, Becomes
    <2>6. Sound(y) /\ Carries(Now, y) /\ (cfg.enabled /\ ~picks => Due(y.report, cfg, document))
      <3>1. Sound(Now) /\ Carries(Now, Now)
        BY DEF Truth, Carries
      <3>2. Sound(Stop(Now, "explicit_stop")) /\ Carries(Now, Stop(Now, "explicit_stop"))
        BY StopNowIs
      <3>3. LET z == MaybeStart(Now, cfg, document) IN
            Sound(z) /\ Due(z.report, cfg, document) /\ Carries(Now, z)
        BY <2>2, StartNowIs
      <3> QED BY <2>4, <3>1, <3>2, <3>3
    <2>7. Sound(Now)' /\ CooldownRecorded'
      BY <2>5, <2>6, HandleTells
    <2>8. RunsWhenDue' /\ NoLostUpdate'
      BY <2>5, <2>6 DEF Due, RunsWhenDue, Truth, NoLostUpdate
    <2> QED BY <2>7, <2>8 DEF Truth
  <1>6. ASSUME ToggleOnOpen PROVE Truth'
    <2>1. [config EXCEPT !.onOpen = ~@] \in Config
      BY <1>0 DEF Config
    <2> QED BY <1>6, <2>1, ReconfigureTells DEF ToggleOnOpen
  <1>7. ASSUME SetAuto PROVE Truth'
    <2>1. [config EXCEPT !.mode = "auto", !.book = NoBook] \in Config
      BY <1>0 DEF Config
    <2> QED BY <1>7, <2>1, ReconfigureTells DEF SetAuto
  <1>8. ASSUME NEW b \in Books, PickBook(b) PROVE Truth'
    <2>1. [config EXCEPT !.book = b] \in Config
      BY <1>0 DEF Config
    <2> QED BY <1>8, <2>1, ReconfigureTells DEF PickBook
  <1>9. ASSUME SetManual \/ ClearAccount PROVE Truth'
    <2>1. PICK y : Handle(y) /\ \E reason : y = Stop(Now, reason)
      BY <1>9 DEF SetManual, ClearAccount
    <2>2. Sound(y) /\ Carries(Now, y)
      BY <2>1, StopNowIs
    <2>3. Sound(Now)' /\ CooldownRecorded'
      BY <2>1, <2>2, HandleTells
    <2>4. RunsWhenDue'
      BY <1>9 DEF SetManual, ClearAccount, RunsWhenDue
    <2>5. NoLostUpdate'
      <3>1. Auth \in Records /\ stored \in [Records -> Nat] /\ edits \in [Records -> Nat]
            /\ stored = edits
        BY DEF Inv, Rest, Records, Truth, NoLostUpdate
      <3> QED BY <1>9, <3>1 DEF SetManual, ClearAccount, NoLostUpdate
    <2> QED BY <2>3, <2>4, <2>5 DEF Truth
  <1> QED BY <1>1, <1>2, <1>3, <1>4, <1>5, <1>6, <1>7, <1>8, <1>9 DEF UserAction

LEMMA CollectTells ==
    ASSUME Inv, Truth, NEW p \in Pids, CollectAgain(p)
    PROVE  Truth'
  <1>1. PICK x : x = [Now EXCEPT !.timers = BagRemove(@, CollectOf(p))]
    OBVIOUS
  <1>2. PICK y : y = Collect(x, p)
    OBVIOUS
  <1>3. /\ CollectOf(p) \in DOMAIN timers /\ report' = y.report /\ child' = y.child
        /\ UNCHANGED <<config, document, stored, edits, renewedLately, lostRenewal, parked>>
    BY <1>1, <1>2 DEF CollectAgain, Becomes
  <1>4. Watched /\ IsQueue(timers) /\ report \in Report
    BY TypedReport DEF Inv, Watched
  <1>5. ~Runs(Now, p) /\ Pending(timers, CollectOf(p)) = 1
    BY <1>3, <1>4, PendingNat DEF Watched, Watching, Children, Collectors, Now
  <1>6. /\ x.report = report /\ x.child = child
        /\ x.timers = BagRemoveAll(timers, CollectOf(p))
        /\ DOMAIN x = DOMAIN Now
    BY <1>1, <1>4, <1>5, RemoveLastPending DEF Now
  <1>7. IsSystem(x)
    BY <1>4, <1>6, DropCollect DEF Watched, IsSystem, Now
  <1>8. /\ y.report = report
        /\ \A s \in Pids : s # p => y.child[s] = child[s]
        /\ y.child[p].st \in {child[p].st, "free"}
    BY <1>2, <1>6, <1>7, CollectIs
  <1>9. child[p].st # "running"
    BY <1>5 DEF Truth, Sound, RunsForJob, Now
  <1>10. Sound(Now)'
    BY <1>3, <1>8, <1>9 DEF Truth, Sound, RunsForJob, Runs, Now
  <1>11. CooldownRecorded'
    <2>1. report.job # NoJob => report.job.pid \in Pids \ {p}
      BY <1>4, <1>5 DEF Runs, Now, Report, Job
    <2> QED BY <1>3, <1>8, <2>1 DEF Truth, CooldownRecorded
  <1>12. RunsWhenDue' /\ NoLostUpdate'
    BY <1>3, <1>8 DEF Truth, RunsWhenDue, NoLostUpdate
  <1> QED BY <1>10, <1>11, <1>12 DEF Truth

\* What a child does is no news before its outcome is applied.
LEMMA ChildTells ==
    ASSUME Inv, Truth, NEW p \in Pids,
           ChildRenews(p) \/ ChildWrites(p) \/ ChildDies(p) \/ ChildExits(p)
    PROVE  Truth'
  <1>1. child \in [Pids -> Child] /\ report \in Report
    BY TypedReport DEF Inv, Watched
  <1>2. UNCHANGED <<config, document, report, stored, edits, parked, lostRenewal>>
    BY DEF ChildRenews, ChildWrites, ChildDies, ChildExits, childOnly
  <1>3. RunsWhenDue' /\ NoLostUpdate'
    BY <1>2 DEF Truth, RunsWhenDue, NoLostUpdate
  <1>4. report.job # NoJob => report.job.pid \in Pids
    BY <1>1 DEF Report, Job
  <1>5. CASE ChildRenews(p)
    <2>1. /\ \A s \in Pids : s # p => child'[s] = child[s]
          /\ child[p].st = "running" /\ child'[p].st = "running"
          /\ child'[p].pipe = child[p].pipe /\ child'[p].renewed = TRUE
      BY <1>1, <1>5 DEF ChildRenews, Child
    <2>2. Runs(Now, p) /\ child[p].pipe = "empty"
      BY <2>1 DEF Truth, Sound, RunsForJob, Now
    <2>3. CooldownRecorded'
      BY <1>2, <2>1, <2>2 DEF CooldownRecorded, Runs, Now
    <2>4. Sound(Now)'
      BY <1>2, <2>1, <2>2 DEF Truth, Sound, RunsForJob, Runs, Now
    <2> QED BY <1>3, <2>3, <2>4 DEF Truth
  <1>6. CASE ChildWrites(p) \/ ChildDies(p) \/ ChildExits(p)
    <2>1. /\ \A s \in Pids : s # p => child'[s] = child[s]
          /\ child'[p].renewed = child[p].renewed /\ child'[p].st # "running"
          /\ renewedLately' = renewedLately
      <3>1. CASE ChildWrites(p)
        <4>1. PICK payload \in Payloads :
                  child' = [child EXCEPT ![p].st = "written", ![p].pipe = payload]
          BY <3>1 DEF ChildWrites
        <4>2. /\ \A s \in Pids : s # p => child'[s] = child[s]
              /\ child'[p].renewed = child[p].renewed /\ child'[p].st = "written"
          BY <1>1, <4>1 DEF Child
        <4> QED BY <3>1, <4>2 DEF ChildWrites
      <3>2. CASE ChildDies(p) \/ ChildExits(p)
        BY <1>1, <3>2 DEF ChildDies, ChildExits, Child
      <3> QED BY <1>6, <3>1, <3>2
    <2>2. CooldownRecorded'
      BY <1>2, <1>4, <2>1 DEF Truth, CooldownRecorded
    <2>3. Sound(Now)'
      BY <1>2, <2>1 DEF Truth, Sound, RunsForJob, Runs, Now
    <2> QED BY <1>3, <2>2, <2>3 DEF Truth
  <1> QED BY <1>5, <1>6

LEMMA OthersTell ==
    ASSUME Inv, Truth,
           UploadPosition \/ CooldownElapses \/ \E i \in Records : EditRecord(i)
    PROVE  Truth'
  <1>1. report \in Report
    BY TypedReport DEF Inv, Watched
  <1>2. UNCHANGED <<config, document, child, parked>>
    BY DEF UploadPosition, CooldownElapses, EditRecord
  <1>3. /\ report'.task = report.task /\ report'.state = report.state
        /\ report'.suspended = report.suspended /\ report'.job = report.job
    BY <1>1 DEF UploadPosition, CooldownElapses, EditRecord, Report
  <1>4. Sound(Now)' /\ RunsWhenDue'
    BY <1>2, <1>3 DEF Truth, Sound, Honest, RunsForJob, Runs, RunsWhenDue, Now
  <1>5. CooldownRecorded'
    <2>1. CASE UploadPosition
      <3>1. report'.mayRenew = FALSE
        BY <1>1, <2>1 DEF UploadPosition, Report
      <3> QED BY <3>1 DEF CooldownRecorded
    <2>2. CASE CooldownElapses
      BY <2>2 DEF CooldownElapses, CooldownRecorded
    <2>3. CASE \E i \in Records : EditRecord(i)
      BY <2>3 DEF EditRecord, Truth, CooldownRecorded
    <2> QED BY <2>1, <2>2, <2>3
  <1>6. NoLostUpdate'
    <2>1. stored \in [Records -> Nat] /\ stored = edits
      BY DEF Inv, Rest, Truth, NoLostUpdate
    <2> QED BY <2>1 DEF UploadPosition, CooldownElapses, EditRecord, NoLostUpdate
  <1> QED BY <1>4, <1>5, <1>6 DEF Truth

LEMMA InitTells == Init => Truth
  <1> SUFFICES ASSUME Init PROVE Truth
    OBVIOUS
  <1>1. IsSystem(Fresh)
    <2>1. Fresh.report \in Report
      BY DEF Fresh, Report, ReportStates, NoTask
    <2>2. Fresh.child \in [Pids -> Child]
      BY DEF Fresh, Reaped, Child, ChildStates
    <2>3. IsQueue(Fresh.timers)
      BY DEF Fresh, IsQueue
    <2> QED BY <2>1, <2>2, <2>3 DEF IsSystem, Fresh
  <1>2. Sound(Fresh)
    BY DEF Fresh, Reaped, Sound, Honest, RunsForJob, NoTask
  <1>3. PICK x : x = Started(config)
    OBVIOUS
  <1>4. config \in Config /\ document = NoDocument /\ report = x.report /\ child = x.child
    BY <1>3 DEF Init
  <1>5. Sound(x) /\ Due(x.report, config, NoDocument)
    <2>1. CASE config.mode = "manual" /\ config.book # NoBook /\ ~config.onOpen
      <3>1. x = MaybeStart(Fresh, config, NoDocument)
        BY <1>3, <2>1 DEF Started
      <3> QED BY <1>1, <1>2, <1>4, <3>1, MaybeStartIs
    <2>2. CASE ~(config.mode = "manual" /\ config.book # NoBook /\ ~config.onOpen)
      <3>1. x = Fresh
        BY <1>3, <2>2 DEF Started
      <3>2. ResolveTarget(config, NoDocument) = NoBook
        BY <2>2, NamesAssumption DEF ResolveTarget
      <3> QED BY <1>2, <3>1, <3>2 DEF Due
    <2> QED BY <2>1, <2>2
  <1>6. Sound(Now)
    BY <1>4, <1>5, SoundSame DEF Now
  <1>7. RunsWhenDue
    BY <1>4, <1>5 DEF Due, RunsWhenDue
  <1> QED BY <1>6, <1>7 DEF Init, Truth, NoLostUpdate, CooldownRecorded

LEMMA StepTells == Inv /\ Truth /\ [Next]_vars => Truth'
  <1> SUFFICES ASSUME Inv, Truth, [Next]_vars PROVE Truth'
    OBVIOUS
  <1>1. CASE UNCHANGED vars
    BY <1>1 DEF vars, Truth, Sound, Honest, RunsForJob, Runs, Now, NoLostUpdate,
                CooldownRecorded, RunsWhenDue
  <1>2. CASE Next
    BY <1>2, TickTells, PollTells, CollectTells, ChildTells, UserTells, OthersTell DEF Next
  <1> QED BY <1>1, <1>2

\* The second invariant holds of every behaviour.
THEOREM TruthInvariance == Spec => []Truth
  <1> QED BY InitTells, StepTells, Invariance, PTL DEF Spec

\* status() says stopped or suspended exactly when no task is live, for any books, process
\* ids and bounds (stop, start, maybe_start, _apply_outcome, _precheck).
THEOREM StatusIsTrue == Spec => []StatusTellsTruth
  <1>1. Truth => StatusTellsTruth
    BY DEF Truth, Sound, Honest, StatusTellsTruth, Now
  <1> QED BY <1>1, TruthInvariance, PTL

\* An outcome undoes no edit of the records, and a renewal the server saw is on the
\* cooldown clock unless its child was given up (_apply_job_outcome, _start_job).
THEOREM OutcomeIsMerged == Spec => []OutcomeMerged
  <1>1. Truth => OutcomeMerged
    BY DEF Truth, OutcomeMerged
  <1> QED BY <1>1, TruthInvariance, PTL

\* No sequence of document, device and menu events loses the reporter: a target to report
\* has a live task (maybe_start and its callers).
THEOREM ReporterRuns == Spec => []RunsWhenDue
  <1>1. Truth => RunsWhenDue
    BY DEF Truth
  <1> QED BY <1>1, TruthInvariance, PTL

===============================================================================
