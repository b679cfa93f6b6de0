-------------------------- MODULE ProgressSyncProofs --------------------------
(***************************************************************************)
(* Proofs about ProgressSync, for any books, documents, grid, number of    *)
(* attempts and bound on events.  The methods of the object are functions  *)
(* on a record x of what they read and write, and call one another; so the *)
(* invariant is stated of such an x, and each method has its lemmas.       *)
(***************************************************************************)
EXTENDS ProgressSync, TLAPS

-------------------------------------------------------------------------------
(***************************************************************************)
(* The invariant.                                                          *)
(***************************************************************************)
IsObject(x) ==
    /\ DOMAIN x = {"sync", "page", "tasks", "choices", "asked", "agreed"}
    /\ x.sync \in Sync
    /\ x.asked \in Nat
    /\ x.agreed \in Position \union {Unknown}

IsQueue(q) == \A t \in DOMAIN q : t \in Task /\ q[t] \in Nat \ {0}

\* At most one task of the kind is queued, and one is while its flag is up.
OneTask(q, kind, flag) ==
    /\ flag <=> \E t \in DOMAIN q : t.kind = kind
    /\ \A t, u \in DOMAIN q : t.kind = kind /\ u.kind = kind => t = u /\ q[t] = 1

\* What a pull or a dialog set out from: a place in its document, which is the
\* open one unless another was opened or closed since.
SetOut(x, r) ==
    /\ r.gen <= x.sync.generation
    /\ r.gen = x.sync.generation => r.doc = document
    /\ r.doc.chapter # Unmapped
    /\ r.from.book = r.doc.book
    /\ r.from.at \in PlacesOf(r.doc)

IsHere(position) ==
    /\ document # NoDocument
    /\ position.book = document.book
    /\ position.at \in PlacesOf(document)

\* x between two methods, but for what the reporting gate says.
Object(x) ==
    /\ IsObject(x)
    /\ x.page \in PlacesOf(document)
    /\ IsQueue(x.tasks)
    /\ OneTask(x.tasks, "pull", x.sync.pulling)
    /\ OneTask(x.tasks, "upload", x.sync.uploading)
    /\ \A t \in DOMAIN x.tasks : t.kind = "pull" => SetOut(x, t)
    /\ \A c \in x.choices : c \in Choice /\ SetOut(x, c)
    /\ x.sync.at # Unknown => IsHere(x.sync.at)

\* The gate may be open only for a document whose position can be told, and for
\* a cloud position that was fetched since another device last moved, or chosen.
MayOpen(reason, notSeen) ==
    /\ DetectBook \in Books
    /\ document.chapter # Unmapped
    /\ "asleep" \notin AwayWhen /\ reason # "remote_chapter_applied"
          => ~notSeen[DetectBook]

Gate(x, notSeen) ==
    /\ x.sync.verified => MayOpen(x.sync.reason, notSeen)
    /\ \A c \in x.choices :
          "asleep" \notin AwayWhen /\ c.gen = x.sync.generation => ~notSeen[c.doc.book]

\* While the gate is open the object knows where the reader is, and whether that
\* is where device and cloud were last reconciled -- unless a jump has not
\* settled, or a step ended for a position the reader had left.
Settling(x) == \E t \in DOMAIN x.tasks : t.kind = "settle"
Knows(x) == x.sync.at = Capture(x) /\ (x.sync.dirty \/ x.agreed = x.sync.at)
Accounted(x, over) == x.sync.verified /\ ~Settling(x) /\ ~over => Knows(x)

Rest ==
    /\ config \in Configs
    /\ document \in Documents \union {NoDocument}
    /\ report \in Position \union {Unknown}
    /\ server \in [Books -> Places]
    /\ link \in {"down", "connected", "online"}
    /\ asleep \in {"no", "short", "long"}
    /\ overtaken \in BOOLEAN
    /\ unseen \in [Books -> BOOLEAN]
    /\ events \in 0..MaxEvents

\* The inductive invariant.
Inv ==
    /\ Rest
    /\ Object(Now)
    /\ Gate(Now, unseen)
    /\ Accounted(Now, overtaken)

-------------------------------------------------------------------------------
(***************************************************************************)
(* The scheduler's queue.                                                  *)
(***************************************************************************)
LEMMA AddTask ==
    ASSUME NEW q, IsQueue(q), NEW t \in Task
    PROVE  /\ IsQueue(BagAdd(q, t))
           /\ DOMAIN BagAdd(q, t) = DOMAIN q \union {t}
           /\ \A u \in DOMAIN q \ {t} : BagAdd(q, t)[u] = q[u]
           /\ t \notin DOMAIN q => BagAdd(q, t)[t] = 1
  BY DEF IsQueue, BagAdd

LEMMA RemoveTask ==
    ASSUME NEW q, IsQueue(q), NEW t \in DOMAIN q
    PROVE  /\ IsQueue(BagRemove(q, t))
           /\ DOMAIN BagRemove(q, t) \subseteq DOMAIN q
           /\ DOMAIN q \ {t} \subseteq DOMAIN BagRemove(q, t)
           /\ q[t] = 1 => t \notin DOMAIN BagRemove(q, t)
           /\ \A u \in DOMAIN q \ {t} : BagRemove(q, t)[u] = q[u]
  BY DEF IsQueue, BagRemove

LEMMA AddOther ==
    ASSUME NEW q, IsQueue(q), NEW t \in Task, NEW k, NEW flag,
           OneTask(q, k, flag), t.kind # k
    PROVE  OneTask(BagAdd(q, t), k, flag)
  <1>1. PICK r : r = BagAdd(q, t)
    OBVIOUS
  <1>2. /\ DOMAIN r = DOMAIN q \union {t}
        /\ \A u \in DOMAIN q \ {t} : r[u] = q[u]
    BY <1>1, AddTask
  <1>3. (\E u \in DOMAIN r : u.kind = k) <=> (\E u \in DOMAIN q : u.kind = k)
    BY <1>2
  <1> QED
    BY <1>1, <1>2, <1>3 DEF OneTask

LEMMA AddFirst ==
    ASSUME NEW q, IsQueue(q), NEW t \in Task, NEW k, OneTask(q, k, FALSE), t.kind = k
    PROVE  OneTask(BagAdd(q, t), k, TRUE)
  <1>1. \A u \in DOMAIN q : u.kind # k
    BY DEF OneTask
  <1>2. PICK r : r = BagAdd(q, t)
    OBVIOUS
  <1>3. DOMAIN r = DOMAIN q \union {t} /\ r[t] = 1
    BY <1>1, <1>2, AddTask
  <1>4. \A u \in DOMAIN r : u.kind = k => u = t
    BY <1>1, <1>3
  <1> QED
    BY <1>2, <1>3, <1>4 DEF OneTask

LEMMA RemoveOther ==
    ASSUME NEW q, IsQueue(q), NEW t \in DOMAIN q, NEW k, NEW flag,
           OneTask(q, k, flag), t.kind # k
    PROVE  OneTask(BagRemove(q, t), k, flag)
  <1>1. PICK r : r = BagRemove(q, t)
    OBVIOUS
  <1>2. /\ DOMAIN r \subseteq DOMAIN q
        /\ DOMAIN q \ {t} \subseteq DOMAIN r
        /\ \A u \in DOMAIN q \ {t} : r[u] = q[u]
    BY <1>1, RemoveTask
  <1>3. (\E u \in DOMAIN r : u.kind = k) <=> (\E u \in DOMAIN q : u.kind = k)
    BY <1>2
  <1> QED
    BY <1>1, <1>2, <1>3 DEF OneTask

LEMMA RemoveOnly ==
    ASSUME NEW q, IsQueue(q), NEW t \in DOMAIN q, NEW k, NEW flag,
           OneTask(q, k, flag), t.kind = k
    PROVE  OneTask(BagRemove(q, t), k, FALSE)
  <1>1. /\ q[t] = 1
        /\ \A u \in DOMAIN q : u.kind = k => u = t
    BY DEF OneTask
  <1>2. \A u \in DOMAIN BagRemove(q, t) : u \in DOMAIN q /\ u # t
    BY <1>1, RemoveTask
  <1> QED
    BY <1>1, <1>2 DEF OneTask

-------------------------------------------------------------------------------
(***************************************************************************)
(* What each method changes.                                               *)
(***************************************************************************)
\* y differs from x in neither queue nor dialogs, nor in what they refer to.
Quiet(x, y) ==
    /\ y.tasks = x.tasks
    /\ y.choices = x.choices
    /\ y.sync.generation = x.sync.generation
    /\ y.sync.pulling = x.sync.pulling
    /\ y.sync.uploading = x.sync.uploading

LEMMA VerifyEffect ==
    ASSUME DetectBook \in Books, NEW x, IsObject(x), NEW r \in Reasons, NEW p \in Position \union {Unknown}
    PROVE  LET y == Verify(x, r, p) IN
           /\ IsObject(y) /\ Quiet(x, y)
           /\ y.page = x.page /\ y.asked = x.asked /\ y.agreed = x.agreed
           /\ y.sync.at = p
           /\ y.sync.verified
           /\ y.sync.reason = r
           /\ y.sync.dirty = x.sync.dirty
  <1>1. PICK b \in Books : b = DetectBook
    OBVIOUS
  <1>2. PICK v : v = [x EXCEPT !.sync.book = b]
    OBVIOUS
  <1>3. /\ IsObject(v) /\ Quiet(x, v)
        /\ v.page = x.page /\ v.asked = x.asked /\ v.agreed = x.agreed
        /\ v.sync.dirty = x.sync.dirty
    BY <1>2 DEF IsObject, Quiet, Sync
  <1>4. PICK y : y = [v EXCEPT !.sync.verified = TRUE, !.sync.reason = r, !.sync.at = p]
    OBVIOUS
  <1>5. /\ IsObject(y) /\ Quiet(v, y)
        /\ y.page = v.page /\ y.asked = v.asked /\ y.agreed = v.agreed
        /\ y.sync.at = p /\ y.sync.verified /\ y.sync.reason = r
        /\ y.sync.dirty = v.sync.dirty
    BY <1>3, <1>4 DEF IsObject, Quiet, Sync
  <1>6. Verify(x, r, p) = y
    BY <1>1, <1>2, <1>4 DEF Verify
  <1> QED
    BY <1>3, <1>5, <1>6 DEF Quiet

LEMMA UnverifyEffect ==
    ASSUME NEW x, IsObject(x)
    PROVE  LET y == Unverify(x) IN
           /\ IsObject(y) /\ Quiet(x, y)
           /\ y.page = x.page /\ y.asked = x.asked /\ y.agreed = x.agreed
           /\ y.sync.at = x.sync.at
           /\ ~y.sync.verified
           /\ y.sync.jump = x.sync.jump
  BY DEF IsObject, Quiet, Unverify, Sync, Reasons

\* Where the reader is can be told only of a document of a book.
LEMMA CaptureIsHere ==
    ASSUME NEW x, x.page \in PlacesOf(document), document \in Documents \union {NoDocument}
    PROVE  /\ Capture(x) \in Position \union {Unknown}
           /\ Capture(x) # Unknown <=> DetectBook \in Books /\ document.chapter # Unmapped
           /\ Capture(x) # Unknown =>
                 /\ Capture(x) = [book |-> DetectBook, at |-> x.page]
                 /\ IsHere(Capture(x))
  BY NilAssumption DEF Capture, DetectBook, IsHere, Position, PlacesOf

LEMMA PageUpdateEffect ==
    ASSUME NEW x, IsObject(x), x.page \in PlacesOf(document),
           document \in Documents \union {NoDocument}
    PROVE  LET y == PageUpdate(x) IN
           /\ IsObject(y) /\ Quiet(x, y)
           /\ y.page = x.page /\ y.asked = x.asked /\ y.agreed = x.agreed
           /\ y.sync.verified = x.sync.verified
           /\ y.sync.reason = x.sync.reason
           /\ y.sync.at \in {x.sync.at, Capture(x)}
           /\ x.sync.book # NoBook /\ Capture(x) # Unknown =>
                 /\ y.sync.at = Capture(x)
                 /\ y.sync.dirty = (x.sync.dirty \/ Moved(x, Capture(x)))
  <1>1. CASE x.sync.book = NoBook \/ Capture(x) = Unknown
    BY <1>1 DEF PageUpdate, Quiet
  <1>2. CASE ~(x.sync.book = NoBook \/ Capture(x) = Unknown)
    <2>1. PICK p : p = Capture(x)
      OBVIOUS
    <2>2. p \in Position
      BY <1>2, <2>1, CaptureIsHere
    <2>3. PICK d \in BOOLEAN : d = (x.sync.dirty \/ Moved(x, p))
      BY DEF Moved
    <2>4. PageUpdate(x) = [x EXCEPT !.sync.dirty = d, !.sync.at = p]
      BY <1>2, <2>1, <2>3, Zenon DEF PageUpdate
    <2>5. PICK y : y = [x EXCEPT !.sync.dirty = d, !.sync.at = p]
      OBVIOUS
    <2>6. /\ IsObject(y) /\ Quiet(x, y)
          /\ y.page = x.page /\ y.asked = x.asked /\ y.agreed = x.agreed
          /\ y.sync.verified = x.sync.verified
          /\ y.sync.reason = x.sync.reason
          /\ y.sync.at = p
          /\ y.sync.dirty = d
      BY <2>2, <2>5 DEF IsObject, Quiet, Sync
    <2> QED
      BY <1>2, <2>1, <2>3, <2>4, <2>5, <2>6
  <1> QED
    BY <1>1, <1>2

LEMMA LaterEffect ==
    ASSUME NEW x, IsObject(x), NEW task
    PROVE  LET y == Later(x, task) IN
           /\ IsObject(y)
           /\ y.tasks = BagAdd(x.tasks, task)
           /\ y.sync = x.sync
           /\ y.page = x.page
           /\ y.choices = x.choices
           /\ y.agreed = x.agreed
  BY DEF IsObject, Later

-------------------------------------------------------------------------------
(***************************************************************************)
(* What each method keeps.                                                 *)
(***************************************************************************)
LEMMA QuietObject ==
    ASSUME NEW x, NEW y, Object(x), IsObject(y), Quiet(x, y), y.page \in PlacesOf(document),
           y.sync.at # Unknown => IsHere(y.sync.at)
    PROVE  Object(y)
  BY DEF Object, Quiet, SetOut

LEMMA QuietGate ==
    ASSUME NEW x, NEW y, NEW notSeen, Gate(x, notSeen), Quiet(x, y),
           y.sync.verified => MayOpen(y.sync.reason, notSeen)
    PROVE  Gate(y, notSeen)
  BY DEF Gate, Quiet

\* One that queues a task about the open document.
LEMMA LaterKeeps ==
    ASSUME NEW x, NEW notSeen, Object(x), Gate(x, notSeen), NEW task \in Task,
           task.kind \in {"settle", "open"}
    PROVE  LET y == Later(x, task) IN
           /\ Object(y)
           /\ Gate(y, notSeen)
           /\ Settling(y) <=> Settling(x) \/ task.kind = "settle"
  <1>1. PICK y : y = Later(x, task)
    OBVIOUS
  <1>2. /\ IsObject(y)
        /\ y.tasks = BagAdd(x.tasks, task)
        /\ y.sync = x.sync
        /\ y.page = x.page
        /\ y.choices = x.choices
    BY <1>1, LaterEffect DEF Object
  <1>3. /\ IsQueue(y.tasks)
        /\ DOMAIN y.tasks = DOMAIN x.tasks \union {task}
    <2>1. IsQueue(x.tasks)
      BY DEF Object
    <2> QED
      BY <1>2, <2>1, AddTask
  <1>4. /\ OneTask(y.tasks, "pull", y.sync.pulling)
        /\ OneTask(y.tasks, "upload", y.sync.uploading)
    BY <1>2, AddOther DEF Object
  <1>5. \A r : SetOut(x, r) => SetOut(y, r)
    BY <1>2 DEF SetOut
  <1>6. \A t \in DOMAIN y.tasks : t.kind = "pull" => SetOut(y, t)
    BY <1>3, <1>5 DEF Object
  <1>7. \A c \in y.choices : c \in Choice /\ SetOut(y, c)
    BY <1>2, <1>5 DEF Object
  <1>8. Object(y)
    <2>1. y.page \in PlacesOf(document) /\ (y.sync.at # Unknown => IsHere(y.sync.at))
      BY <1>2 DEF Object
    <2> QED
      BY <1>2, <1>3, <1>4, <1>6, <1>7, <2>1, Zenon DEF Object
  <1>9. Gate(y, notSeen)
    BY <1>2 DEF Gate
  <1> QED
    BY <1>1, <1>3, <1>8, <1>9 DEF Settling

LEMMA GotoEffect ==
    ASSUME NEW x, Object(x), NEW place \in PlacesOf(document),
           document \in Documents \union {NoDocument}, NEW y \in Goto(x, place)
    PROVE  /\ Object(y) /\ Quiet(x, y)
           /\ y.page = place
           /\ y.sync.verified = x.sync.verified
           /\ y.sync.reason = x.sync.reason
  <1>1. PICK there : there = [x EXCEPT !.page = place]
    OBVIOUS
  <1>2. /\ IsObject(there) /\ Quiet(x, there)
        /\ there.page = place
        /\ there.sync = x.sync
    BY <1>1 DEF Object, IsObject, Quiet
  <1>3. Object(there)
    BY <1>2, QuietObject DEF Object
  <1>4. CASE y = there
    BY <1>2, <1>3, <1>4
  <1>5. CASE y = PageUpdate(there)
    <2>1. /\ IsObject(y) /\ Quiet(there, y)
          /\ y.page = place
          /\ y.sync.verified = x.sync.verified
          /\ y.sync.reason = x.sync.reason
          /\ y.sync.at \in {there.sync.at, Capture(there)}
      BY <1>2, <1>5, PageUpdateEffect
    <2>2. y.sync.at # Unknown => IsHere(y.sync.at)
      BY <1>2, <1>3, <2>1, CaptureIsHere DEF Object
    <2>3. Object(y)
      BY <1>3, <2>1, <2>2, QuietObject
    <2>4. Quiet(x, y)
      BY <1>2, <2>1 DEF Quiet
    <2> QED
      BY <2>1, <2>3, <2>4
  <1> QED
    BY <1>1, <1>4, <1>5 DEF Goto

\* A jump inside the open document: the reader moves, the gate opens, and the
\* capture that follows is queued.
LEMMA JumpKeeps ==
    ASSUME NEW x, NEW notSeen, Object(x), Gate(x, notSeen),
           document \in Documents \union {NoDocument},
           NEW place \in PlacesOf(document), NEW y \in Goto(x, place),
           NEW reason \in Reasons, MayOpen(reason, notSeen),
           NEW p \in Position, NEW at \in Position \union {Unknown},
           at # Unknown => IsHere(at),
           NEW task \in SettleTask
    PROVE  LET z == Later(Verify([y EXCEPT !.sync.dirty = FALSE, !.agreed = p], reason, at),
                          task) IN
           Object(z) /\ Gate(z, notSeen) /\ Settling(z)
  <1>1. Object(y) /\ Quiet(x, y) /\ y.page = place
    BY GotoEffect
  <1>2. PICK v : v = [y EXCEPT !.sync.dirty = FALSE, !.agreed = p]
    OBVIOUS
  <1>3. IsObject(y)
    BY <1>1 DEF Object
  <1>4. IsObject(v) /\ Quiet(y, v) /\ v.page = y.page
    BY <1>2, <1>3 DEF IsObject, Quiet, Sync
  <1>5. PICK w : w = Verify(v, reason, at)
    OBVIOUS
  <1>6. /\ IsObject(w) /\ Quiet(v, w)
        /\ w.page = v.page
        /\ w.sync.at = at
        /\ w.sync.reason = reason
    BY <1>4, <1>5, VerifyEffect DEF MayOpen
  <1>7. Quiet(x, w) /\ Quiet(y, w)
    BY <1>1, <1>4, <1>6 DEF Quiet
  <1>8. Object(w)
    BY <1>1, <1>4, <1>6, <1>7, QuietObject
  <1>9. Gate(w, notSeen)
    BY <1>6, <1>7, QuietGate
  <1>10. task \in Task /\ task.kind = "settle"
    BY DEF SettleTask, Task
  <1>11. PICK z : z = Later(w, task)
    OBVIOUS
  <1>12. Object(z) /\ Gate(z, notSeen) /\ Settling(z)
    BY <1>8, <1>9, <1>10, <1>11, LaterKeeps, Zenon
  <1> QED
    BY <1>2, <1>5, <1>11, <1>12

LEMMA SetJumpEffect ==
    ASSUME NEW x, IsObject(x), NEW j \in Position \union {Unknown}
    PROVE  LET y == [x EXCEPT !.sync.jump = j] IN
           /\ IsObject(y) /\ Quiet(x, y)
           /\ y.page = x.page
           /\ y.agreed = x.agreed
           /\ y.sync.at = x.sync.at
           /\ y.sync.verified = x.sync.verified
           /\ y.sync.reason = x.sync.reason
           /\ y.sync.dirty = x.sync.dirty
  BY DEF IsObject, Quiet, Sync

\* A jump that needs another file closes the gate first.
LEMMA OpenChapterKeeps ==
    ASSUME NEW x, NEW notSeen, Object(x), Gate(x, notSeen),
           DetectBook \in Books, NEW place \in Places, NEW y \in OpenChapter(x, place)
    PROVE  Object(y) /\ Gate(y, notSeen) /\ ~y.sync.verified
  <1>1. PICK v : v = [x EXCEPT !.sync.dirty = FALSE]
    OBVIOUS
  <1>2. /\ IsObject(v) /\ Quiet(x, v)
        /\ v.page = x.page
        /\ v.sync.at = x.sync.at
    BY <1>1 DEF Object, IsObject, Quiet, Sync
  <1>3. PICK left : left = Unverify(v)
    OBVIOUS
  <1>4. /\ IsObject(left) /\ Quiet(v, left)
        /\ left.page = v.page
        /\ left.sync.at = v.sync.at
        /\ ~left.sync.verified
    BY <1>2, <1>3, UnverifyEffect
  <1>5. PICK j : j = [book |-> DetectBook, at |-> place]
    OBVIOUS
  <1>6. j \in Position
    BY <1>5 DEF Position
  <1>7. PICK waiting : waiting = [left EXCEPT !.sync.jump = j]
    OBVIOUS
  <1>8. /\ IsObject(waiting) /\ Quiet(left, waiting)
        /\ waiting.page = left.page
        /\ waiting.sync.at = left.sync.at
        /\ ~waiting.sync.verified
    BY <1>4, <1>6, <1>7, SetJumpEffect
  <1>9. IsObject(y) /\ Quiet(left, y) /\ y.page = left.page
        /\ y.sync.at = left.sync.at /\ ~y.sync.verified
    <2>1. CASE y = [left EXCEPT !.sync.jump = Unknown]
      BY <1>4, <2>1, SetJumpEffect
    <2>2. CASE y = waiting
      BY <1>8, <2>2
    <2>3. CASE y = [waiting EXCEPT !.asked = @ + 1]
      BY <1>8, <2>3 DEF IsObject, Quiet
    <2>4. y \in {[left EXCEPT !.sync.jump = Unknown], waiting, [waiting EXCEPT !.asked = @ + 1]}
      BY <1>1, <1>3, <1>5, <1>7 DEF OpenChapter
    <2> QED
      BY <2>1, <2>2, <2>3, <2>4
  <1>10. Quiet(x, y)
    BY <1>2, <1>4, <1>9 DEF Quiet
  <1>11. Object(y)
    BY <1>2, <1>4, <1>9, <1>10, QuietObject DEF Object
  <1>12. Gate(y, notSeen)
    BY <1>9, <1>10, QuietGate
  <1> QED
    BY <1>9, <1>11, <1>12

\* The answer of the cloud is applied: the reader jumps, or leaves for another
\* file, or nothing happens.
LEMMA ApplyRemoteKeeps ==
    ASSUME NEW x, NEW notSeen, Object(x), Gate(x, notSeen),
           document \in Documents, MayOpen("remote_selected", notSeen),
           NEW remote \in Remote, NEW y \in ApplyRemote(x, document, remote)
    PROVE  Object(y) /\ Gate(y, notSeen) /\ (y = x \/ ~y.sync.verified \/ Settling(y))
  <1>1. remote.at \in Places /\ DetectBook \in Books
    BY DEF Remote, MayOpen
  <1>2. CASE document.chapter \in Chapters /\ ChapterOf(remote.at) # document.chapter
    BY <1>1, <1>2, OpenChapterKeeps DEF ApplyRemote
  <1>3. CASE ~(document.chapter \in Chapters /\ ChapterOf(remote.at) # document.chapter)
    <2>1. remote.at \in PlacesOf(document)
      BY <1>1, <1>3 DEF PlacesOf
    <2>2. PICK p : p = [book |-> document.book, at |-> remote.at]
      OBVIOUS
    <2>3. p \in Position
      BY <1>1, <2>2, NilAssumption DEF Position, DetectBook
    <2>4. PICK task : task = [kind |-> "settle", gen |-> x.sync.generation, clears |-> TRUE]
      OBVIOUS
    <2>5. task \in SettleTask
      BY <2>4 DEF SettleTask, Object, IsObject, Sync
    <2>6. CASE y = x
      BY <2>6
    <2>7. ASSUME NEW z \in Goto(x, remote.at),
                 y = Later(Verify([z EXCEPT !.sync.dirty = FALSE, !.agreed = p],
                                  "remote_selected", z.sync.at), task)
          PROVE  Object(y) /\ Gate(y, notSeen) /\ Settling(y)
      <3>1. Object(z)
        BY <2>1, GotoEffect
      <3>2. z.sync.at \in Position \union {Unknown} /\ (z.sync.at # Unknown => IsHere(z.sync.at))
        BY <3>1 DEF Object, IsObject, Sync
      <3>3. "remote_selected" \in Reasons
        BY DEF Reasons
      <3> QED
        BY <2>1, <2>3, <2>5, <2>7, <3>2, <3>3, JumpKeeps
    <2>8. y = x \/ \E z \in Goto(x, remote.at) :
              y = Later(Verify([z EXCEPT !.sync.dirty = FALSE, !.agreed = p],
                               "remote_selected", z.sync.at), task)
      BY <1>3, <2>2, <2>4 DEF ApplyRemote
    <2> QED
      BY <2>6, <2>7, <2>8
  <1> QED
    BY <1>2, <1>3

\* One more task of a kind that was not queued, and its flag.
LEMMA UploadSnapshotKeeps ==
    ASSUME NEW x, NEW notSeen, Object(x), Gate(x, notSeen), NEW position \in Position
    PROVE  LET y == UploadSnapshot(x, position) IN
           /\ Object(y) /\ Gate(y, notSeen)
           /\ Settling(y) <=> Settling(x)
           /\ y.page = x.page
           /\ y.agreed = x.agreed
           /\ y.choices = x.choices
           /\ y.sync.generation = x.sync.generation
           /\ y.sync.at = x.sync.at
           /\ y.sync.verified = x.sync.verified
           /\ y.sync.dirty = x.sync.dirty
  <1>1. CASE x.sync.uploading \/ link # "online"
    BY <1>1 DEF UploadSnapshot
  <1>2. CASE ~(x.sync.uploading \/ link # "online")
    <2>1. PICK v : v = [x EXCEPT !.sync.uploading = TRUE]
      OBVIOUS
    <2>2. /\ IsObject(v)
          /\ v.tasks = x.tasks
          /\ v.page = x.page
          /\ v.agreed = x.agreed
          /\ v.choices = x.choices
          /\ v.sync.generation = x.sync.generation
          /\ v.sync.at = x.sync.at
          /\ v.sync.verified = x.sync.verified
          /\ v.sync.reason = x.sync.reason
          /\ v.sync.dirty = x.sync.dirty
          /\ v.sync.pulling = x.sync.pulling
          /\ v.sync.uploading
      BY <2>1 DEF Object, IsObject, Sync
    <2>3. PICK task : task = [kind |-> "upload", gen |-> x.sync.generation,
                              position |-> position, attempt |-> 0]
      OBVIOUS
    <2>4. task \in Task /\ task.kind = "upload"
      <3>1. x.sync.generation \in Nat /\ 0 \in 0..Attempts
        BY BoundsAssumption DEF Object, IsObject, Sync
      <3> QED
        BY <2>3, <3>1 DEF Task, UploadTask
    <2>5. PICK y : y = Later(v, task)
      OBVIOUS
    <2>6. /\ IsObject(y)
          /\ y.tasks = BagAdd(x.tasks, task)
          /\ y.sync = v.sync
          /\ y.page = x.page
          /\ y.choices = x.choices
          /\ y.agreed = x.agreed
      BY <2>2, <2>5, LaterEffect
    <2>7. IsQueue(x.tasks)
      BY DEF Object
    <2>8. IsQueue(y.tasks) /\ DOMAIN y.tasks = DOMAIN x.tasks \union {task}
      BY <2>4, <2>6, <2>7, AddTask
    <2>9. OneTask(y.tasks, "upload", y.sync.uploading)
      <3>1. OneTask(x.tasks, "upload", FALSE)
        BY <1>2, Zenon DEF Object, OneTask
      <3>2. OneTask(y.tasks, "upload", TRUE)
        BY <2>4, <2>6, <2>7, <3>1, AddFirst
      <3> QED
        BY <2>2, <2>6, <3>2 DEF OneTask
    <2>10. OneTask(y.tasks, "pull", y.sync.pulling)
      BY <2>2, <2>4, <2>6, <2>7, AddOther DEF Object
    <2>11. \A r : SetOut(x, r) => SetOut(y, r)
      BY <2>2, <2>6 DEF SetOut
    <2>12. \A t \in DOMAIN y.tasks : t.kind = "pull" => SetOut(y, t)
      BY <2>4, <2>8, <2>11 DEF Object
    <2>13. \A c \in y.choices : c \in Choice /\ SetOut(y, c)
      BY <2>6, <2>11 DEF Object
    <2>14. y.page \in PlacesOf(document) /\ (y.sync.at # Unknown => IsHere(y.sync.at))
      BY <2>2, <2>6 DEF Object
    <2>15. Object(y)
      BY <2>6, <2>8, <2>9, <2>10, <2>12, <2>13, <2>14, Zenon DEF Object
    <2>16. Gate(y, notSeen)
      BY <2>2, <2>6 DEF Gate
    <2>17. Settling(y) <=> Settling(x)
      BY <2>4, <2>8 DEF Settling
    <2>18. UploadSnapshot(x, position) = y
      BY <1>2, <2>1, <2>3, <2>5 DEF UploadSnapshot
    <2> QED
      BY <2>2, <2>6, <2>15, <2>16, <2>17, <2>18
  <1> QED
    BY <1>1, <1>2

LEMMA PullKeeps ==
    ASSUME NEW x, NEW notSeen, Object(x), Gate(x, notSeen), NEW manual \in BOOLEAN,
           document \in Documents \union {NoDocument}
    PROVE  LET y == Pull(x, manual) IN
           /\ Object(y) /\ Gate(y, notSeen)
           /\ Settling(y) <=> Settling(x)
           /\ y.page = x.page
           /\ y.agreed = x.agreed
           /\ y.sync.at = x.sync.at
           /\ y.sync.verified = x.sync.verified
           /\ y.sync.dirty = x.sync.dirty
  <1>1. CASE x.sync.pulling \/ Capture(x) = Unknown \/ link # "online"
    BY <1>1 DEF Pull
  <1>2. CASE ~(x.sync.pulling \/ Capture(x) = Unknown \/ link # "online")
    <2>1. PICK v : v = [x EXCEPT !.sync.pulling = TRUE]
      OBVIOUS
    <2>2. /\ IsObject(v)
          /\ v.tasks = x.tasks
          /\ v.page = x.page
          /\ v.agreed = x.agreed
          /\ v.choices = x.choices
          /\ v.sync.generation = x.sync.generation
          /\ v.sync.at = x.sync.at
          /\ v.sync.verified = x.sync.verified
          /\ v.sync.reason = x.sync.reason
          /\ v.sync.dirty = x.sync.dirty
          /\ v.sync.uploading = x.sync.uploading
          /\ v.sync.pulling
      BY <2>1 DEF Object, IsObject, Sync
    <2>3. PICK from : from = Capture(x)
      OBVIOUS
    <2>4. /\ from \in Position /\ IsHere(from)
          /\ document \in Documents
          /\ document.chapter # Unmapped
      BY <1>2, <2>3, CaptureIsHere, NilAssumption DEF Object, IsHere
    <2>5. PICK task : task = [kind |-> "pull", gen |-> x.sync.generation, doc |-> document,
                              from |-> from, manual |-> manual]
      OBVIOUS
    <2>6. task \in Task /\ task.kind = "pull"
      <3>1. x.sync.generation \in Nat
        BY DEF Object, IsObject, Sync
      <3> QED
        BY <2>4, <2>5, <3>1 DEF Task, PullTask
    <2>7. PICK y : y = Later(v, task)
      OBVIOUS
    <2>8. /\ IsObject(y)
          /\ y.tasks = BagAdd(x.tasks, task)
          /\ y.sync = v.sync
          /\ y.page = x.page
          /\ y.choices = x.choices
          /\ y.agreed = x.agreed
      BY <2>2, <2>7, LaterEffect
    <2>9. IsQueue(x.tasks)
      BY DEF Object
    <2>10. IsQueue(y.tasks) /\ DOMAIN y.tasks = DOMAIN x.tasks \union {task}
      BY <2>6, <2>8, <2>9, AddTask
    <2>11. OneTask(y.tasks, "pull", y.sync.pulling)
      <3>1. OneTask(x.tasks, "pull", FALSE)
        BY <1>2, Zenon DEF Object, OneTask
      <3>2. OneTask(y.tasks, "pull", TRUE)
        BY <2>6, <2>8, <2>9, <3>1, AddFirst
      <3> QED
        BY <2>2, <2>8, <3>2 DEF OneTask
    <2>12. OneTask(y.tasks, "upload", y.sync.uploading)
      BY <2>2, <2>6, <2>8, <2>9, AddOther DEF Object
    <2>13. \A r : SetOut(x, r) => SetOut(y, r)
      BY <2>2, <2>8 DEF SetOut
    <2>14. SetOut(y, task)
      <3>1. task.gen = y.sync.generation /\ y.sync.generation \in Nat
        BY <2>2, <2>5, <2>8 DEF IsObject, Sync
      <3>2. task.doc = document /\ task.from = from
        BY <2>5
      <3> QED
        BY <2>4, <3>1, <3>2 DEF SetOut, IsHere
    <2>15. \A t \in DOMAIN y.tasks : t.kind = "pull" => SetOut(y, t)
      BY <2>10, <2>13, <2>14 DEF Object
    <2>16. \A c \in y.choices : c \in Choice /\ SetOut(y, c)
      BY <2>8, <2>13 DEF Object
    <2>17. y.page \in PlacesOf(document) /\ (y.sync.at # Unknown => IsHere(y.sync.at))
      BY <2>2, <2>8 DEF Object
    <2>18. Object(y)
      BY <2>8, <2>10, <2>11, <2>12, <2>15, <2>16, <2>17, Zenon DEF Object
    <2>19. Gate(y, notSeen)
      BY <2>2, <2>8 DEF Gate
    <2>20. Settling(y) <=> Settling(x)
      BY <2>6, <2>10 DEF Settling
    <2>21. Pull(x, manual) = y
      BY <1>2, <2>1, <2>3, <2>5, <2>7 DEF Pull
    <2> QED
      BY <2>2, <2>8, <2>18, <2>19, <2>20, <2>21
  <1> QED
    BY <1>1, <1>2

LEMMA CaptureSame ==
    ASSUME NEW x, NEW y, x.page = y.page
    PROVE  Capture(x) = Capture(y)
  BY DEF Capture

\* The reader stays where the step set out: that is known to differ from the
\* cloud, or it is where both are.
LEMMA KeepLocalKeeps ==
    ASSUME NEW x, NEW notSeen, Object(x), Gate(x, notSeen),
           MayOpen("local_selected", notSeen), NEW from \in Position, IsHere(from),
           NEW remote \in Remote, NEW uploadNow \in BOOLEAN
    PROVE  LET y == KeepLocal(x, from, remote, uploadNow) IN
           /\ Object(y) /\ Gate(y, notSeen)
           /\ from = Capture(x) => Knows(y)
  <1>1. PICK d \in BOOLEAN : d = (from.at # remote.at)
    OBVIOUS
  <1>2. PICK p : p = [book |-> from.book, at |-> remote.at]
    OBVIOUS
  <1>3. p \in Position
    BY <1>2 DEF Position, Remote
  <1>4. PICK v : v = [x EXCEPT !.sync.dirty = d, !.agreed = p]
    OBVIOUS
  <1>5. /\ IsObject(v) /\ Quiet(x, v)
        /\ v.page = x.page
        /\ v.agreed = p
        /\ v.sync.dirty = d
    BY <1>3, <1>4 DEF Object, IsObject, Quiet, Sync
  <1>6. PICK w : w = Verify(v, "local_selected", from)
    OBVIOUS
  <1>7. "local_selected" \in Reasons /\ from \in Position \union {Unknown}
    BY DEF Reasons
  <1>8. /\ IsObject(w) /\ Quiet(v, w)
        /\ w.page = v.page
        /\ w.agreed = v.agreed
        /\ w.sync.at = from
        /\ w.sync.reason = "local_selected"
        /\ w.sync.dirty = v.sync.dirty
    BY <1>5, <1>6, <1>7, VerifyEffect DEF MayOpen
  <1>9. Quiet(x, w)
    BY <1>5, <1>8 DEF Quiet
  <1>10. Object(w)
    BY <1>5, <1>8, <1>9, QuietObject DEF Object
  <1>11. Gate(w, notSeen)
    BY <1>8, <1>9, QuietGate
  <1>12. w.sync.dirty \/ w.agreed = from
    BY <1>1, <1>2, <1>5, <1>8 DEF Position
  <1>13. PICK y : y = IF uploadNow THEN UploadSnapshot(w, from) ELSE w
    OBVIOUS
  <1>14. /\ Object(y) /\ Gate(y, notSeen)
         /\ y.page = w.page
         /\ y.agreed = w.agreed
         /\ y.sync.at = w.sync.at
         /\ y.sync.dirty = w.sync.dirty
    BY <1>10, <1>11, <1>13, UploadSnapshotKeeps
  <1>15. from = Capture(x) => Knows(y)
    BY <1>5, <1>8, <1>12, <1>14, CaptureSame DEF Knows
  <1>16. KeepLocal(x, from, remote, uploadNow) = y
    BY <1>1, <1>2, <1>4, <1>6, <1>13, Zenon DEF KeepLocal
  <1> QED
    BY <1>14, <1>15, <1>16

\* What a method that opens or closes the gate, or starts a jump, or leaves the
\* object as it was, says of where the reader is.
LEMMA AccountedStays ==
    ASSUME NEW x, NEW y, NEW over \in BOOLEAN, Accounted(x, over),
           y = x \/ ~y.sync.verified \/ Settling(y)
    PROVE  Accounted(y, over)
  BY DEF Accounted

LEMMA ResolveKeeps ==
    ASSUME NEW x, NEW notSeen, NEW over \in BOOLEAN, Object(x), Gate(x, notSeen),
           Accounted(x, over), document \in Documents,
           \A reason \in Reasons : MayOpen(reason, notSeen),
           NEW task \in PullTask, SetOut(x, task), task.doc = document,
           NEW remote \in Remote, NEW y \in Resolve(x, task, remote)
    PROVE  /\ Object(y) /\ Gate(y, notSeen)
           /\ task.from = Capture(x) => Accounted(y, over)
  <1>1. /\ task.from \in Position
        /\ task.manual \in BOOLEAN
        /\ task.doc \in Documents
        /\ IsHere(task.from)
    BY NilAssumption DEF PullTask, SetOut, IsHere
  <1>2. PICK from : from = task.from
    OBVIOUS
  <1>3. PICK v : v = [x EXCEPT !.sync.at = from]
    OBVIOUS
  <1>4. /\ IsObject(v) /\ Quiet(x, v)
        /\ v.page = x.page
        /\ v.agreed = x.agreed
        /\ v.asked = x.asked
        /\ v.sync.at = from
        /\ v.sync.verified = x.sync.verified
        /\ v.sync.reason = x.sync.reason
        /\ v.sync.dirty = x.sync.dirty
    BY <1>1, <1>2, <1>3 DEF Object, IsObject, Quiet, Sync
  <1>5. Object(v)
    BY <1>1, <1>2, <1>4, QuietObject DEF Object
  <1>6. Gate(v, notSeen)
    BY <1>4, QuietGate DEF Gate
  <1>7. from = Capture(x) => Accounted(v, over)
    BY <1>4, CaptureSame DEF Accounted, Knows, Settling, Quiet
  <1>8. /\ MayOpen("remote_selected", notSeen)
        /\ MayOpen("local_selected", notSeen)
        /\ MayOpen("positions_match", notSeen)
    BY DEF Reasons
  <1>9. ASSUME y = Verify([v EXCEPT !.sync.dirty = FALSE, !.agreed = from],
                          "positions_match", from)
        PROVE  Object(y) /\ Gate(y, notSeen) /\ (from = Capture(x) => Knows(y))
    <2>1. PICK w : w = [v EXCEPT !.sync.dirty = FALSE, !.agreed = from]
      OBVIOUS
    <2>2. IsObject(w) /\ Quiet(v, w) /\ w.page = v.page /\ w.agreed = from
      BY <1>1, <1>2, <1>4, <2>1 DEF IsObject, Quiet, Sync
    <2>3. "positions_match" \in Reasons /\ from \in Position \union {Unknown}
      BY <1>1, <1>2 DEF Reasons
    <2>4. /\ IsObject(y) /\ Quiet(w, y)
          /\ y.page = w.page /\ y.agreed = w.agreed
          /\ y.sync.at = from
          /\ y.sync.reason = "positions_match"
      <3>1. y = Verify(w, "positions_match", from)
        BY <1>9, <2>1, Zenon
      <3> QED
        BY <1>8, <2>2, <2>3, <3>1, VerifyEffect DEF MayOpen
    <2>5. Quiet(v, y)
      BY <2>2, <2>4 DEF Quiet
    <2>6. Object(y)
      <3>1. y.page \in PlacesOf(document)
        BY <1>5, <2>2, <2>4 DEF Object
      <3> QED
        BY <1>1, <1>2, <1>5, <2>4, <2>5, <3>1, QuietObject
    <2>7. Gate(y, notSeen)
      BY <1>6, <1>8, <2>4, <2>5, QuietGate
    <2>8. from = Capture(x) => Knows(y)
      BY <1>4, <2>2, <2>4, CaptureSame DEF Knows
    <2> QED
      BY <2>6, <2>7, <2>8
  <1>10. ASSUME NEW c, y = [v EXCEPT !.choices = @ \union {c}],
                c \in Choice, SetOut(x, c)
         PROVE  Object(y) /\ Gate(y, notSeen) /\ (from = Capture(x) => Accounted(y, over))
    <2>1. /\ IsObject(y)
          /\ y.sync = v.sync /\ y.page = v.page /\ y.tasks = v.tasks /\ y.agreed = v.agreed
          /\ y.choices = v.choices \union {c}
      BY <1>4, <1>10 DEF IsObject
    <2>2. \A r : SetOut(v, r) => SetOut(y, r)
      BY <2>1 DEF SetOut
    <2>3. SetOut(v, c)
      BY <1>4, <1>10 DEF SetOut, Quiet
    <2>4. \A b \in y.choices : b \in Choice /\ SetOut(y, b)
      BY <1>5, <1>10, <2>1, <2>2, <2>3 DEF Object
    <2>5. \A t \in DOMAIN y.tasks : t.kind = "pull" => SetOut(y, t)
      BY <1>5, <2>1, <2>2 DEF Object
    <2>6. /\ y.page \in PlacesOf(document)
          /\ IsQueue(y.tasks)
          /\ OneTask(y.tasks, "pull", y.sync.pulling)
          /\ OneTask(y.tasks, "upload", y.sync.uploading)
          /\ y.sync.at # Unknown => IsHere(y.sync.at)
      BY <1>5, <2>1 DEF Object
    <2>7. Object(y)
      BY <2>1, <2>4, <2>5, <2>6, Zenon DEF Object
    <2>8. c.gen = v.sync.generation => c.doc = document
      BY <2>3 DEF SetOut
    <2>9. Gate(y, notSeen)
      <3>1. "asleep" \notin AwayWhen /\ c.gen = y.sync.generation => ~notSeen[c.doc.book]
        <4>1. "asleep" \notin AwayWhen => ~notSeen[DetectBook]
          BY <1>8 DEF MayOpen
        <4>2. DetectBook = document.book
          BY NilAssumption DEF DetectBook
        <4> QED
          BY <2>1, <2>8, <4>1, <4>2
      <3> QED
        BY <1>6, <2>1, <3>1 DEF Gate
    <2>10. from = Capture(x) => Accounted(y, over)
      BY <1>7, <2>1, CaptureSame DEF Accounted, Knows, Settling
    <2> QED
      BY <2>7, <2>9, <2>10
  <1>11. CASE y \in ApplyRemote(v, document, remote)
    BY <1>2, <1>5, <1>6, <1>7, <1>8, <1>11, ApplyRemoteKeeps, AccountedStays
  <1>12. CASE y = KeepLocal(v, from, remote, task.manual)
    <2>1. Object(y) /\ Gate(y, notSeen) /\ (from = Capture(v) => Knows(y))
      BY <1>1, <1>2, <1>5, <1>6, <1>8, <1>12, KeepLocalKeeps
    <2> QED
      BY <1>2, <1>4, <2>1, CaptureSame DEF Accounted
  <1>13. PICK c : c = [gen |-> x.sync.generation, doc |-> task.doc, from |-> from,
                       remote |-> remote, manual |-> task.manual]
    OBVIOUS
  <1>14. c \in Choice /\ SetOut(x, c)
    <2>1. x.sync.generation \in Nat
      BY DEF Object, IsObject, Sync
    <2>2. c \in Choice
      BY <1>1, <1>2, <1>13, <2>1 DEF Choice
    <2>3. c.gen = x.sync.generation /\ c.doc = task.doc /\ c.from = task.from
      BY <1>2, <1>13
    <2> QED
      BY <2>1, <2>2, <2>3 DEF SetOut
  <1>15. \/ y = Verify([v EXCEPT !.sync.dirty = FALSE, !.agreed = from],
                       "positions_match", from)
         \/ y = [v EXCEPT !.choices = @ \union {c}]
         \/ y \in ApplyRemote(v, document, remote)
         \/ y = KeepLocal(v, from, remote, task.manual)
    BY <1>2, <1>3, <1>13 DEF Resolve
  <1> QED
    BY <1>2, <1>9, <1>10, <1>11, <1>12, <1>14, <1>15 DEF Accounted

LEMMA AccountedSame ==
    ASSUME NEW x, NEW y, NEW over \in BOOLEAN, Accounted(x, over),
           Settling(y) <=> Settling(x), y.page = x.page, y.agreed = x.agreed,
           y.sync.verified = x.sync.verified,
           y.sync.at = x.sync.at \/ y.sync.at = Capture(x),
           x.sync.dirty => y.sync.dirty
    PROVE  Accounted(y, over)
  BY CaptureSame DEF Accounted, Knows

\* A jump chosen in another file of the book arrives.
LEMMA PendingJumpKeeps ==
    ASSUME NEW x, NEW notSeen, NEW over \in BOOLEAN, Object(x), Gate(x, notSeen),
           Accounted(x, over), document \in Documents \union {NoDocument},
           NEW z \in PendingJump(x)
    PROVE  Object(z) /\ Gate(z, notSeen) /\ Accounted(z, over)
  <1>1. PICK jump : jump = x.sync.jump
    OBVIOUS
  <1>2. /\ jump # Unknown
        /\ jump.book = DetectBook
        /\ document.chapter = ChapterOf(jump.at)
    BY <1>1 DEF PendingJump
  <1>3. jump \in Position
    BY <1>1, <1>2 DEF Object, IsObject, Sync
  <1>4. /\ DetectBook \in Books
        /\ jump.at \in Places
        /\ ChapterOf(jump.at) \in Chapters
    BY <1>2, <1>3 DEF Position, Chapters
  <1>5. jump.at \in PlacesOf(document)
    BY <1>2, <1>4 DEF PlacesOf
  <1>6. MayOpen("remote_chapter_applied", notSeen) /\ "remote_chapter_applied" \in Reasons
    BY <1>2, <1>4, NilAssumption DEF MayOpen, Reasons
  <1>7. PICK y : y = [x EXCEPT !.sync.jump = Unknown]
    OBVIOUS
  <1>8. /\ IsObject(y) /\ Quiet(x, y)
        /\ y.page = x.page
        /\ y.agreed = x.agreed
        /\ y.sync.at = x.sync.at
        /\ y.sync.verified = x.sync.verified
        /\ y.sync.reason = x.sync.reason
        /\ y.sync.dirty = x.sync.dirty
    BY <1>7, SetJumpEffect DEF Object
  <1>9. Object(y)
    BY <1>8, QuietObject DEF Object
  <1>10. Gate(y, notSeen)
    BY <1>8, QuietGate DEF Gate
  <1>11. Accounted(y, over)
    BY <1>8, AccountedSame DEF Settling, Quiet
  <1>12. PICK at : at = Capture(x)
    OBVIOUS
  <1>13. at \in Position \union {Unknown} /\ (at # Unknown => IsHere(at))
    BY <1>12, CaptureIsHere DEF Object
  <1>14. PICK task : task = [kind |-> "settle", gen |-> x.sync.generation, clears |-> FALSE]
    OBVIOUS
  <1>15. task \in SettleTask
    BY <1>14 DEF SettleTask, Object, IsObject, Sync
  <1>16. \/ z = y
         \/ \E w \in Goto(y, jump.at) :
               z = Later(Verify([w EXCEPT !.sync.dirty = FALSE, !.agreed = jump],
                                "remote_chapter_applied", at), task)
    BY <1>1, <1>2, <1>7, <1>12, <1>14 DEF PendingJump
  <1>17. CASE z = y
    BY <1>9, <1>10, <1>11, <1>17
  <1>18. ASSUME NEW w \in Goto(y, jump.at),
                z = Later(Verify([w EXCEPT !.sync.dirty = FALSE, !.agreed = jump],
                                 "remote_chapter_applied", at), task)
         PROVE  Object(z) /\ Gate(z, notSeen) /\ Settling(z)
    BY <1>3, <1>5, <1>6, <1>9, <1>10, <1>13, <1>15, <1>18, JumpKeeps
  <1> QED
    BY <1>16, <1>17, <1>18 DEF Accounted

LEMMA CancelJumpKeeps ==
    ASSUME NEW x, NEW notSeen, NEW over \in BOOLEAN, Object(x), Gate(x, notSeen),
           Accounted(x, over)
    PROVE  LET y == CancelJump(x) IN
           Object(y) /\ Gate(y, notSeen) /\ Accounted(y, over)
  <1>1. PICK y : y = CancelJump(x)
    OBVIOUS
  <1>2. CASE x.sync.jump = Unknown
    BY <1>2 DEF CancelJump
  <1>3. CASE x.sync.jump # Unknown
    <2>1. PICK v : v = [x EXCEPT !.sync.jump = Unknown, !.sync.dirty = FALSE]
      OBVIOUS
    <2>2. IsObject(v) /\ Quiet(x, v) /\ v.page = x.page /\ v.sync.at = x.sync.at
      BY <2>1 DEF Object, IsObject, Quiet, Sync
    <2>3. y = Unverify(v)
      BY <1>1, <1>3, <2>1, Zenon DEF CancelJump
    <2>4. /\ IsObject(y) /\ Quiet(v, y) /\ y.page = v.page
          /\ y.sync.at = v.sync.at
          /\ ~y.sync.verified
      BY <2>2, <2>3, UnverifyEffect
    <2>5. Quiet(x, y)
      BY <2>2, <2>4 DEF Quiet
    <2>6. Object(y)
      BY <2>2, <2>4, <2>5, QuietObject DEF Object
    <2>7. Gate(y, notSeen)
      BY <2>4, <2>5, QuietGate
    <2>8. Accounted(y, over)
      BY <2>4 DEF Accounted
    <2> QED
      BY <1>1, <2>6, <2>7, <2>8
  <1> QED
    BY <1>2, <1>3

LEMMA UnverifyKeeps ==
    ASSUME NEW x, NEW notSeen, NEW over \in BOOLEAN, Object(x), Gate(x, notSeen)
    PROVE  LET y == Unverify(x) IN
           Object(y) /\ Gate(y, notSeen) /\ Accounted(y, over)
  <1>1. PICK y : y = Unverify(x)
    OBVIOUS
  <1>2. /\ IsObject(y) /\ Quiet(x, y) /\ y.page = x.page
        /\ y.sync.at = x.sync.at
        /\ ~y.sync.verified
    BY <1>1, UnverifyEffect DEF Object
  <1>3. Object(y)
    BY <1>2, QuietObject DEF Object
  <1>4. Gate(y, notSeen) /\ Accounted(y, over)
    BY <1>2, QuietGate DEF Accounted
  <1> QED
    BY <1>1, <1>3, <1>4

\* Whether the reader moved is noted, and nothing else.
LEMMA MarkKeeps ==
    ASSUME NEW x, NEW notSeen, NEW over \in BOOLEAN, Object(x), Gate(x, notSeen),
           Accounted(x, over), NEW d \in BOOLEAN, x.sync.dirty => d
    PROVE  LET y == [x EXCEPT !.sync.dirty = d] IN
           /\ Object(y) /\ Gate(y, notSeen) /\ Accounted(y, over)
           /\ Quiet(x, y) /\ y.page = x.page /\ y.agreed = x.agreed
           /\ y.sync.verified = x.sync.verified
           /\ y.sync.at = x.sync.at
           /\ y.sync.dirty = d
  <1>1. PICK y : y = [x EXCEPT !.sync.dirty = d]
    OBVIOUS
  <1>2. /\ IsObject(y) /\ Quiet(x, y) /\ y.page = x.page /\ y.agreed = x.agreed
        /\ y.sync.at = x.sync.at
        /\ y.sync.verified = x.sync.verified
        /\ y.sync.reason = x.sync.reason
        /\ y.sync.dirty = d
    BY <1>1 DEF Object, IsObject, Quiet, Sync
  <1>3. Object(y)
    BY <1>2, QuietObject DEF Object
  <1>4. Gate(y, notSeen)
    BY <1>2, QuietGate DEF Gate
  <1>5. Accounted(y, over)
    BY <1>2, AccountedSame DEF Settling, Quiet
  <1> QED
    BY <1>1, <1>2, <1>3, <1>4, <1>5

\* A turned page is where the reader is now, and makes a known position dirty --
\* except before the check after opening, when it is not recorded.
LEMMA TurnKeeps ==
    ASSUME NEW x, NEW notSeen, NEW over \in BOOLEAN, Object(x), Gate(x, notSeen),
           document \in Documents, NEW p \in PlacesOf(document) \ {x.page},
           over \/ Accounted(x, FALSE), x.sync.book = NoBook => over
    PROVE  LET y == PageUpdate([x EXCEPT !.page = p]) IN
           Object(y) /\ Gate(y, notSeen) /\ Accounted(y, over)
  <1>1. PICK v : v = [x EXCEPT !.page = p]
    OBVIOUS
  <1>2. /\ IsObject(v) /\ Quiet(x, v)
        /\ v.page = p /\ v.sync = x.sync /\ v.agreed = x.agreed
    BY <1>1 DEF Object, IsObject, Quiet
  <1>3. PICK y : y = PageUpdate(v)
    OBVIOUS
  <1>4. /\ IsObject(y) /\ Quiet(v, y)
        /\ y.page = p
        /\ y.sync.verified = x.sync.verified
        /\ y.sync.reason = x.sync.reason
        /\ y.sync.at \in {v.sync.at, Capture(v)}
        /\ v.sync.book # NoBook /\ Capture(v) # Unknown =>
              /\ y.sync.at = Capture(v)
              /\ y.sync.dirty = (v.sync.dirty \/ Moved(v, Capture(v)))
    BY <1>2, <1>3, PageUpdateEffect
  <1>5. Quiet(x, y)
    BY <1>2, <1>4 DEF Quiet
  <1>6. Object(y)
    <2>1. y.sync.at # Unknown => IsHere(y.sync.at)
      BY <1>2, <1>4, CaptureIsHere DEF Object
    <2> QED
      BY <1>4, <1>5, <2>1, QuietObject
  <1>7. Gate(y, notSeen)
    BY <1>4, <1>5, QuietGate DEF Gate
  <1>8. Accounted(y, over)
    <2> SUFFICES ASSUME y.sync.verified, ~Settling(y), ~over
                 PROVE  Knows(y)
      BY DEF Accounted
    <2>1. Knows(x) /\ x.sync.book # NoBook
      BY <1>4, <1>5 DEF Accounted, Settling, Quiet
    <2>2. DetectBook \in Books /\ document.chapter # Unmapped
      BY <1>4 DEF Gate, MayOpen
    <2>3. /\ Capture(x) = [book |-> DetectBook, at |-> x.page] /\ Capture(x) # Unknown
          /\ Capture(v) = [book |-> DetectBook, at |-> p] /\ Capture(v) # Unknown
      BY <1>2, <2>2, CaptureIsHere DEF Object
    <2>4. Moved(v, Capture(v))
      <3>1. Capture(x).at = x.page /\ Capture(v).at = p
        BY <2>3
      <3>2. v.sync.at = Capture(x)
        BY <1>2, <2>1 DEF Knows
      <3> QED
        BY <2>3, <3>1, <3>2 DEF Moved
    <2>5. y.sync.at = Capture(v) /\ y.sync.dirty
      BY <1>2, <1>4, <2>1, <2>3, <2>4
    <2> QED
      BY <1>2, <1>4, <2>5, CaptureSame DEF Knows
  <1> QED
    BY <1>1, <1>3, <1>6, <1>7, <1>8

\* The position a suspend or a closed document is about.
Last(x) == IF Capture(x) # Unknown THEN Capture(x) ELSE x.sync.at

LEMMA LastIsPosition ==
    ASSUME NEW x, Object(x), document \in Documents \union {NoDocument}
    PROVE  Last(x) \in Position \union {Unknown}
  BY CaptureIsHere DEF Last, Object, IsObject, Sync

LEMMA SuspendedKeeps ==
    ASSUME NEW x, NEW notSeen, NEW over \in BOOLEAN, Object(x), Gate(x, notSeen),
           Accounted(x, over), document \in Documents \union {NoDocument}
    PROVE  LET y == Suspended(x) IN
           Object(y) /\ Gate(y, notSeen) /\ Accounted(y, over)
  <1>1. PICK p : p = Last(x)
    OBVIOUS
  <1>2. PICK d \in BOOLEAN : d = (x.sync.dirty \/ Moved(x, p))
    BY DEF Moved
  <1>3. PICK v : v = [x EXCEPT !.sync.dirty = d]
    OBVIOUS
  <1>4. Object(v) /\ Gate(v, notSeen) /\ Accounted(v, over)
    BY <1>2, <1>3, MarkKeeps
  <1>5. PICK y : y = Suspended(x)
    OBVIOUS
  <1>6. y = v \/ (p # Unknown /\ y = UploadSnapshot(v, p))
    BY <1>1, <1>2, <1>3, <1>5, Zenon DEF Suspended, Last
  <1>7. CASE p # Unknown /\ y = UploadSnapshot(v, p)
    <2>1. p \in Position
      BY <1>1, <1>7, LastIsPosition
    <2>2. /\ Object(y) /\ Gate(y, notSeen)
          /\ Settling(y) <=> Settling(v)
          /\ y.page = v.page
          /\ y.agreed = v.agreed
          /\ y.sync.at = v.sync.at
          /\ y.sync.verified = v.sync.verified
          /\ y.sync.dirty = v.sync.dirty
      BY <1>4, <1>7, <2>1, UploadSnapshotKeeps
    <2> QED
      BY <1>4, <1>5, <2>2, AccountedSame
  <1> QED
    BY <1>4, <1>5, <1>6, <1>7

\* A closed document is left with the upload, if one is due, and nothing else.
LEMMA ClosedKeeps ==
    ASSUME NEW x, NEW notSeen, Object(x), Gate(x, notSeen), config \in Configs,
           document \in Documents \union {NoDocument}
    PROVE  \E z :
             /\ Object(z) /\ Gate(z, notSeen)
             /\ Closed(x) = [z EXCEPT !.sync.generation = @ + 1, !.sync.book = NoBook,
                                      !.sync.verified = FALSE, !.sync.at = Unknown,
                                      !.page = 0]
             /\ /\ x.sync.verified /\ config.upload /\ link = "online"
                /\ ~x.sync.uploading
                /\ Capture(x) # Unknown
                /\ x.sync.dirty \/ x.sync.at # Capture(x)
                => UploadQueued(z.tasks, Capture(x))
  <1>1. PICK p : p = Last(x)
    OBVIOUS
  <1>2. PICK due \in BOOLEAN : due = (p # Unknown /\ x.sync.verified /\ config.upload)
    OBVIOUS
  <1>3. PICK d \in BOOLEAN :
           d = (x.sync.dirty \/ (due /\ (x.sync.at = Unknown \/ Moved(x, p))))
    BY DEF Object, IsObject, Sync, Moved
  <1>4. PICK v : v = [x EXCEPT !.sync.dirty = d]
    OBVIOUS
  <1>5. /\ Object(v) /\ Gate(v, notSeen)
        /\ Quiet(x, v)
    <2>1. /\ IsObject(v) /\ Quiet(x, v) /\ v.page = x.page
          /\ v.sync.at = x.sync.at
          /\ v.sync.verified = x.sync.verified
          /\ v.sync.reason = x.sync.reason
      BY <1>4 DEF Object, IsObject, Quiet, Sync
    <2>2. Object(v)
      BY <2>1, QuietObject DEF Object
    <2>3. Gate(v, notSeen)
      BY <2>1, QuietGate DEF Gate
    <2> QED
      BY <2>1, <2>2, <2>3
  <1>6. PICK z : z = IF due /\ d THEN UploadSnapshot(v, p) ELSE v
    OBVIOUS
  <1>7. Object(z) /\ Gate(z, notSeen)
    <2>1. due => p \in Position
      BY <1>1, <1>2, LastIsPosition
    <2> QED
      BY <1>5, <1>6, <2>1, UploadSnapshotKeeps
  <1>8. Closed(x) = [z EXCEPT !.sync.generation = @ + 1, !.sync.book = NoBook,
                              !.sync.verified = FALSE, !.sync.at = Unknown, !.page = 0]
    BY <1>1, <1>2, <1>3, <1>4, <1>6, Zenon DEF Closed, Last
  <1>9. ASSUME x.sync.verified, config.upload, link = "online", ~x.sync.uploading,
               Capture(x) # Unknown, x.sync.dirty \/ x.sync.at # Capture(x)
        PROVE  UploadQueued(z.tasks, Capture(x))
    <2>1. p = Capture(x)
      BY <1>1, <1>9 DEF Last
    <2>2. due /\ d
      BY <1>2, <1>3, <1>9, <2>1 DEF Moved
    <2>3. PICK w : w = [v EXCEPT !.sync.uploading = TRUE]
      OBVIOUS
    <2>4. PICK task : task = [kind |-> "upload", gen |-> v.sync.generation,
                              position |-> p, attempt |-> 0]
      OBVIOUS
    <2>5. ~v.sync.uploading
      BY <1>5, <1>9 DEF Quiet
    <2>6. z = Later(w, task)
      BY <1>6, <1>9, <2>2, <2>3, <2>4, <2>5 DEF UploadSnapshot
    <2>7. IsObject(w)
      BY <1>5, <2>3 DEF Object, IsObject, Sync
    <2>8. z.tasks = BagAdd(w.tasks, task)
      BY <2>6, <2>7, LaterEffect
    <2>9. task \in DOMAIN BagAdd(w.tasks, task)
      BY DEF BagAdd
    <2>10. task.kind = "upload" /\ task.position = p
      BY <2>4
    <2> QED
      BY <2>1, <2>8, <2>9, <2>10 DEF UploadQueued
  <1> QED
    BY <1>7, <1>8, <1>9

\* The check after opening.
LEMMA OpenedKeeps ==
    ASSUME NEW x, NEW notSeen, NEW over \in BOOLEAN, Object(x), Gate(x, notSeen),
           Accounted(x, over), document \in Documents \union {NoDocument},
           NEW t, NEW w \in Opened(t, x)
    PROVE  Object(w) /\ Gate(w, notSeen) /\ Accounted(w, over)
  <1>1. CASE w = x
    BY <1>1
  <1>2. CASE w # x
    <2>1. DetectBook \in Books
      BY <1>2 DEF Opened
    <2>2. PICK b : b = DetectBook
      OBVIOUS
    <2>3. PICK y : y = [x EXCEPT !.sync.book = b]
      OBVIOUS
    <2>4. /\ IsObject(y) /\ Quiet(x, y) /\ y.page = x.page /\ y.agreed = x.agreed
          /\ y.sync.at = x.sync.at
          /\ y.sync.verified = x.sync.verified
          /\ y.sync.reason = x.sync.reason
          /\ y.sync.dirty = x.sync.dirty
      BY <2>1, <2>2, <2>3 DEF Object, IsObject, Quiet, Sync
    <2>5. Object(y)
      BY <2>4, QuietObject DEF Object
    <2>6. Gate(y, notSeen)
      BY <2>4, QuietGate DEF Gate
    <2>7. Accounted(y, over)
      BY <2>4, AccountedSame DEF Settling, Quiet
    <2>8. PICK p : p = Capture(y)
      OBVIOUS
    <2>9. PICK z : z = [y EXCEPT !.sync.at = p]
      OBVIOUS
    <2>10. \/ w \in PendingJump(y)
           \/ w = y
           \/ p # Unknown /\ (w = z \/ w = Pull(z, FALSE))
      BY <1>2, <2>2, <2>3, <2>8, <2>9, Zenon DEF Opened
    <2>11. CASE w \in PendingJump(y)
      BY <2>5, <2>6, <2>7, <2>11, PendingJumpKeeps
    <2>12. CASE w = y
      BY <2>5, <2>6, <2>7, <2>12
    <2>13. CASE p # Unknown /\ (w = z \/ w = Pull(z, FALSE))
      <3>1. p \in Position /\ IsHere(p)
        BY <2>5, <2>8, <2>13, CaptureIsHere DEF Object
      <3>2. /\ IsObject(z) /\ Quiet(y, z) /\ z.page = y.page /\ z.agreed = y.agreed
            /\ z.sync.at = p
            /\ z.sync.verified = y.sync.verified
            /\ z.sync.reason = y.sync.reason
            /\ z.sync.dirty = y.sync.dirty
        BY <2>4, <2>9, <3>1 DEF IsObject, Quiet, Sync
      <3>3. Object(z)
        BY <2>5, <3>1, <3>2, QuietObject DEF Object
      <3>4. Gate(z, notSeen)
        BY <2>6, <3>2, QuietGate DEF Gate
      <3>5. Accounted(z, over)
        BY <2>7, <2>8, <3>2, AccountedSame DEF Settling, Quiet
      <3>6. CASE w = Pull(z, FALSE)
        <4>1. /\ Object(w) /\ Gate(w, notSeen)
              /\ Settling(w) <=> Settling(z)
              /\ w.page = z.page
              /\ w.agreed = z.agreed
              /\ w.sync.at = z.sync.at
              /\ w.sync.verified = z.sync.verified
              /\ w.sync.dirty = z.sync.dirty
          BY <3>3, <3>4, <3>6, PullKeeps
        <4> QED
          BY <3>5, <4>1, AccountedSame
      <3> QED
        BY <2>13, <3>3, <3>4, <3>5, <3>6
    <2> QED
      BY <2>10, <2>11, <2>12, <2>13
  <1> QED
    BY <1>1, <1>2

\* A callback is taken off the queue, and its flag lowered.
LEMMA TakenKeeps ==
    ASSUME NEW x, NEW y, NEW notSeen, Object(x), Gate(x, notSeen),
           NEW t \in DOMAIN x.tasks, y.tasks = BagRemove(x.tasks, t), IsObject(y),
           y.page = x.page, y.choices = x.choices,
           y.sync.generation = x.sync.generation,
           y.sync.at = x.sync.at,
           y.sync.verified = x.sync.verified,
           y.sync.reason = x.sync.reason,
           OneTask(y.tasks, "pull", y.sync.pulling),
           OneTask(y.tasks, "upload", y.sync.uploading)
    PROVE  /\ Object(y) /\ Gate(y, notSeen)
           /\ t.kind # "settle" => (Settling(y) <=> Settling(x))
  <1>1. IsQueue(x.tasks)
    BY DEF Object
  <1>2. /\ IsQueue(y.tasks)
        /\ DOMAIN y.tasks \subseteq DOMAIN x.tasks
        /\ DOMAIN x.tasks \ {t} \subseteq DOMAIN y.tasks
    BY <1>1, RemoveTask
  <1>3. \A r : SetOut(x, r) => SetOut(y, r)
    BY DEF SetOut
  <1>4. \A u \in DOMAIN y.tasks : u.kind = "pull" => SetOut(y, u)
    BY <1>2, <1>3 DEF Object
  <1>5. \A c \in y.choices : c \in Choice /\ SetOut(y, c)
    BY <1>3 DEF Object
  <1>6. y.page \in PlacesOf(document) /\ (y.sync.at # Unknown => IsHere(y.sync.at))
    BY DEF Object
  <1>7. Object(y)
    BY <1>2, <1>4, <1>5, <1>6, Zenon DEF Object
  <1>8. Gate(y, notSeen)
    BY DEF Gate
  <1>9. t.kind # "settle" => (Settling(y) <=> Settling(x))
    BY <1>2 DEF Settling
  <1> QED
    BY <1>7, <1>8, <1>9

-------------------------------------------------------------------------------
(***************************************************************************)
(* The invariant is inductive.                                             *)
(***************************************************************************)
Good == Object(Now) /\ Gate(Now, unseen) /\ Accounted(Now, overtaken)

LEMMA NowFields ==
    /\ DOMAIN Now = {"sync", "page", "tasks", "choices", "asked", "agreed"}
    /\ Now.sync = sync
    /\ Now.page = page
    /\ Now.tasks = tasks
    /\ Now.choices = choices
    /\ Now.asked = asked
    /\ Now.agreed = agreed
  BY DEF Now

LEMMA BecomesGood ==
    ASSUME NEW y, Object(y), Gate(y, unseen'), Accounted(y, overtaken'), Becomes(y),
           document' = document
    PROVE  Good'
  <1>1. /\ DOMAIN Now' = {"sync", "page", "tasks", "choices", "asked", "agreed"}
        /\ Now'.sync = y.sync
        /\ Now'.page = y.page
        /\ Now'.tasks = y.tasks
        /\ Now'.choices = y.choices
        /\ Now'.asked = y.asked
        /\ Now'.agreed = y.agreed
    BY DEF Becomes, Now
  <1>2. IsObject(Now')
    BY <1>1 DEF Object, IsObject
  <1>3. Object(Now')
    <2>1. \A r : SetOut(y, r) => SetOut(Now', r)
      BY <1>1 DEF SetOut
    <2>2. \A u \in DOMAIN Now'.tasks : u.kind = "pull" => SetOut(Now', u)
      BY <1>1, <2>1 DEF Object
    <2>3. \A c \in Now'.choices : c \in Choice /\ SetOut(Now', c)
      BY <1>1, <2>1 DEF Object
    <2>4. /\ Now'.page \in PlacesOf(document)
          /\ Now'.sync.at # Unknown => IsHere(Now'.sync.at)
          /\ IsQueue(Now'.tasks)
          /\ OneTask(Now'.tasks, "pull", Now'.sync.pulling)
          /\ OneTask(Now'.tasks, "upload", Now'.sync.uploading)
      BY <1>1 DEF Object
    <2> QED
      BY <1>2, <2>2, <2>3, <2>4, Zenon DEF Object
  <1>4. Gate(Now', unseen')
    BY <1>1 DEF Gate
  <1>5. Accounted(Now', overtaken')
    BY <1>1, CaptureSame DEF Accounted, Settling, Knows
  <1>6. Object(Now)'
    BY <1>3 DEF Object, SetOut, IsHere, IsObject, IsQueue, OneTask
  <1>7. Gate(Now, unseen)'
    BY <1>4 DEF Gate, MayOpen, DetectBook
  <1>8. Accounted(Now, overtaken)'
    BY <1>5 DEF Accounted, Settling, Knows, Capture, DetectBook
  <1> QED
    BY <1>6, <1>7, <1>8 DEF Good

\* A step that leaves the object alone.
LEMMA UntouchedGood ==
    ASSUME Good, UNCHANGED <<document, page, sync, tasks, choices, asked, agreed>>,
           Gate(Now, unseen'), overtaken' = overtaken
    PROVE  Good'
  <1>1. PICK y : y = Now
    OBVIOUS
  <1>2. Object(y) /\ Gate(y, unseen') /\ Accounted(y, overtaken')
    BY <1>1 DEF Good
  <1>3. Becomes(y)
    BY <1>1, NowFields DEF Becomes
  <1> QED
    BY <1>2, <1>3, BecomesGood

LEMMA InitGood == Init => Rest /\ Good
  <1> SUFFICES ASSUME Init PROVE Rest /\ Good
    OBVIOUS
  <1>1. Rest
    <2>1. unseen \in [Books -> BOOLEAN]
      BY DEF Init
    <2>2. events \in 0..MaxEvents
      BY BoundsAssumption DEF Init
    <2> QED
      BY <2>1, <2>2 DEF Init, Rest
  <1>2. 0 \in Places
    BY GridAssumption DEF Places
  <1>3. IsObject(Now)
    BY NowFields DEF Init, IsObject, Sync, Reasons
  <1>4. DOMAIN tasks = {}
    BY DEF Init, EmptyBag, SetToBag
  <1>5. Object(Now)
    <2>1. IsQueue(Now.tasks)
      BY <1>4, NowFields DEF IsQueue
    <2>2. OneTask(Now.tasks, "pull", Now.sync.pulling)
      BY <1>4, NowFields DEF Init, OneTask
    <2>3. OneTask(Now.tasks, "upload", Now.sync.uploading)
      BY <1>4, NowFields DEF Init, OneTask
    <2>4. Now.page \in PlacesOf(document) /\ Now.sync.at = Unknown /\ Now.choices = {}
      BY <1>2, NowFields DEF Init, PlacesOf
    <2> QED
      BY <1>3, <1>4, <2>1, <2>2, <2>3, <2>4, NowFields DEF Object
  <1>6. ~sync.verified /\ choices = {}
    BY DEF Init
  <1>7. Gate(Now, unseen) /\ Accounted(Now, overtaken)
    BY <1>6, NowFields DEF Gate, Accounted
  <1> QED
    BY <1>1, <1>5, <1>7 DEF Good

LEMMA ReaderReadyGood ==
    ASSUME Rest, Good, ReaderReady
    PROVE  Good'
  <1>1. PICK g : g = sync.generation + 1
    OBVIOUS
  <1>2. Object(Now) /\ sync \in Sync /\ IsQueue(tasks)
    BY NowFields DEF Good, Object, IsObject
  <1>3. sync.generation \in Nat /\ g \in Nat /\ g > sync.generation
    BY <1>1, <1>2 DEF Sync
  <1>4. PICK task : task = [kind |-> "open", gen |-> g]
    OBVIOUS
  <1>5. task \in Task /\ task.kind = "open"
    BY <1>3, <1>4 DEF Task, OpenTask
  <1>6. /\ sync' = [sync EXCEPT !.generation = g, !.book = NoBook, !.at = Unknown,
                                !.verified = FALSE, !.dirty = FALSE]
        /\ tasks' = BagAdd(tasks, task)
        /\ agreed' = Unknown
        /\ choices' = choices /\ asked' = asked
        /\ document' \in Documents /\ page' \in PlacesOf(document')
    BY <1>1, <1>4 DEF ReaderReady
  <1>7. /\ sync' \in Sync
        /\ sync'.generation = g
        /\ sync'.at = Unknown
        /\ ~sync'.verified
        /\ sync'.pulling = sync.pulling
        /\ sync'.uploading = sync.uploading
    BY <1>2, <1>3, <1>6 DEF Sync
  <1>8. /\ DOMAIN Now' = {"sync", "page", "tasks", "choices", "asked", "agreed"}
        /\ Now'.sync = sync' /\ Now'.page = page' /\ Now'.tasks = tasks'
        /\ Now'.choices = choices /\ Now'.asked = asked /\ Now'.agreed = Unknown
    BY <1>6 DEF Now
  <1>9. IsQueue(tasks') /\ DOMAIN tasks' = DOMAIN tasks \union {task}
    BY <1>2, <1>5, <1>6, AddTask
  <1>10. /\ OneTask(tasks', "pull", sync'.pulling)
         /\ OneTask(tasks', "upload", sync'.uploading)
    BY <1>2, <1>5, <1>6, <1>7, AddOther, NowFields DEF Object
  <1>11. \A r : r.gen \in Nat /\ SetOut(Now, r) => SetOut(Now, r)'
    BY <1>3, <1>7, <1>8, NowFields DEF SetOut
  <1>12. \A u \in DOMAIN tasks' : u.kind = "pull" => SetOut(Now, u)'
    <2>1. \A u \in DOMAIN tasks : u.kind = "pull" => u.gen \in Nat
      BY <1>2 DEF IsQueue, Task, OpenTask, PullTask, UploadTask, SettleTask
    <2> QED
      BY <1>2, <1>5, <1>9, <1>11, <2>1, NowFields DEF Object
  <1>13. \A c \in choices : c \in Choice /\ SetOut(Now, c)'
    <2>1. \A c \in choices : c \in Choice /\ SetOut(Now, c)
      BY <1>2, NowFields DEF Object
    <2> QED
      BY <1>11, <2>1 DEF Choice
  <1>14. IsObject(Now')
    <2>1. asked \in Nat
      BY <1>2, NowFields DEF Object, IsObject
    <2> QED
      BY <1>7, <1>8, <2>1 DEF IsObject
  <1>15. Object(Now)'
    BY <1>6, <1>7, <1>8, <1>9, <1>10, <1>12, <1>13, <1>14
    DEF Object, IsObject, IsQueue, OneTask
  <1>16. Gate(Now, unseen)'
    <2>1. \A c \in choices : c.gen # sync'.generation
      <3>1. \A c \in choices : c.gen \in Nat /\ c.gen <= sync.generation
        BY <1>2, NowFields DEF Object, SetOut, Choice
      <3> QED
        BY <1>3, <1>7, <3>1
    <2> QED
      BY <1>7, <1>8, <2>1 DEF Gate
  <1>17. Accounted(Now, overtaken)'
    BY <1>7, <1>8 DEF Accounted
  <1> QED
    BY <1>15, <1>16, <1>17 DEF Good

LEMMA CloseDocumentGood ==
    ASSUME Rest, Good, CloseDocument
    PROVE  Good'
  <1>1. PICK x : x = Now
    OBVIOUS
  <1>2. Object(x) /\ Gate(x, unseen) /\ config \in Configs
        /\ document \in Documents \union {NoDocument}
    BY <1>1 DEF Good, Rest
  <1>3. PICK z :
          /\ Object(z) /\ Gate(z, unseen)
          /\ Closed(x) = [z EXCEPT !.sync.generation = @ + 1, !.sync.book = NoBook,
                                   !.sync.verified = FALSE, !.sync.at = Unknown, !.page = 0]
    BY <1>2, ClosedKeeps
  <1>4. PICK y : y = [z EXCEPT !.sync.generation = @ + 1, !.sync.book = NoBook,
                               !.sync.verified = FALSE, !.sync.at = Unknown, !.page = 0]
    OBVIOUS
  <1>5. Becomes(y) /\ document' = NoDocument /\ unseen' = unseen
    BY <1>1, <1>3, <1>4 DEF CloseDocument
  <1>6. IsObject(z) /\ z.sync.generation \in Nat
    BY <1>3 DEF Object, IsObject, Sync
  <1>7. /\ IsObject(y)
        /\ y.tasks = z.tasks
        /\ y.choices = z.choices
        /\ y.page = 0
        /\ y.sync.generation = z.sync.generation + 1
        /\ ~y.sync.verified
        /\ y.sync.at = Unknown
        /\ y.sync.pulling = z.sync.pulling
        /\ y.sync.uploading = z.sync.uploading
    <2>1. PICK g \in Nat : g = z.sync.generation + 1
      BY <1>6
    <2>2. PICK w : w = [z EXCEPT !.sync.generation = g, !.sync.book = NoBook,
                                 !.sync.verified = FALSE, !.sync.at = Unknown, !.page = 0]
      OBVIOUS
    <2>3. y = w
      BY <1>4, <2>1, <2>2, Zenon
    <2>4. /\ w.sync \in Sync
          /\ w.sync.generation = g
          /\ ~w.sync.verified
          /\ w.sync.at = Unknown
          /\ w.sync.pulling = z.sync.pulling
          /\ w.sync.uploading = z.sync.uploading
      BY <1>6, <2>2 DEF IsObject, Sync
    <2>5. /\ DOMAIN w = DOMAIN z
          /\ w.page = 0
          /\ w.tasks = z.tasks
          /\ w.choices = z.choices
          /\ w.asked = z.asked
          /\ w.agreed = z.agreed
      BY <1>6, <2>2 DEF IsObject
    <2> QED
      BY <1>6, <2>1, <2>3, <2>4, <2>5 DEF IsObject
  <1>8. /\ DOMAIN Now' = {"sync", "page", "tasks", "choices", "asked", "agreed"}
        /\ Now'.sync = y.sync /\ Now'.page = y.page /\ Now'.tasks = y.tasks
        /\ Now'.choices = y.choices /\ Now'.asked = y.asked /\ Now'.agreed = y.agreed
    BY <1>5 DEF Becomes, Now
  <1>9. 0 \in PlacesOf(document')
    BY <1>5, GridAssumption DEF PlacesOf, Places
  <1>10. \A r : r.gen \in Nat /\ SetOut(z, r) => SetOut(Now, r)' /\ r.gen # y.sync.generation
    BY <1>6, <1>7, <1>8 DEF SetOut
  <1>11. \A u \in DOMAIN z.tasks : u.kind = "pull" => SetOut(Now, u)'
    <2>1. IsQueue(z.tasks)
      BY <1>3 DEF Object
    <2>2. \A u \in DOMAIN z.tasks : u.kind = "pull" => u.gen \in Nat
      BY <2>1 DEF IsQueue, Task, OpenTask, PullTask, UploadTask, SettleTask
    <2> QED
      BY <1>3, <1>10, <2>2 DEF Object
  <1>12. \A c \in z.choices : c \in Choice /\ SetOut(Now, c)' /\ c.gen # y.sync.generation
    <2>1. \A c \in z.choices : c \in Choice /\ SetOut(z, c)
      BY <1>3 DEF Object
    <2> QED
      BY <1>10, <2>1 DEF Choice
  <1>13. IsObject(Now)'
    BY <1>7, <1>8 DEF IsObject
  <1>14. /\ IsQueue(z.tasks)
         /\ OneTask(z.tasks, "pull", y.sync.pulling)
         /\ OneTask(z.tasks, "upload", y.sync.uploading)
    BY <1>3, <1>7 DEF Object
  <1>15. Object(Now)'
    BY <1>7, <1>8, <1>9, <1>11, <1>12, <1>13, <1>14 DEF Object, IsQueue, OneTask
  <1>16. Gate(Now, unseen)' /\ Accounted(Now, overtaken)'
    BY <1>7, <1>8, <1>12 DEF Gate, Accounted
  <1> QED
    BY <1>15, <1>16 DEF Good

LEMMA TurnPageGood ==
    ASSUME Rest, Good, TurnPage
    PROVE  Good'
  <1>1. PICK x : x = Now
    OBVIOUS
  <1>2. Object(x) /\ Gate(x, unseen) /\ Accounted(x, overtaken) /\ x.page = page /\ x.sync = sync
    BY <1>1, NowFields DEF Good
  <1>3. PICK p \in PlacesOf(document) \ {page} : Becomes(PageUpdate([x EXCEPT !.page = p]))
    BY <1>1 DEF TurnPage
  <1>4. document \in Documents /\ document' = document /\ unseen' = unseen
    BY DEF TurnPage, Rest
  <1>5. PICK over \in BOOLEAN : over = (overtaken \/ sync.book = NoBook)
    OBVIOUS
  <1>6. overtaken' = over
    BY <1>5 DEF TurnPage
  <1>7. over \/ Accounted(x, FALSE)
    BY <1>2, <1>5 DEF Accounted
  <1>8. PICK y : y = PageUpdate([x EXCEPT !.page = p])
    OBVIOUS
  <1>9. Object(y) /\ Gate(y, unseen) /\ Accounted(y, over)
    BY <1>2, <1>4, <1>5, <1>7, <1>8, TurnKeeps
  <1> QED
    BY <1>3, <1>4, <1>6, <1>8, <1>9, BecomesGood

LEMMA SuspendGood ==
    ASSUME Rest, Good, Suspend
    PROVE  Good'
  <1>1. PICK x : x = Now
    OBVIOUS
  <1>2. PICK y : y = Suspended(x)
    OBVIOUS
  <1>3. /\ Becomes(y) /\ document' = document /\ unseen' = unseen /\ overtaken' = overtaken
        /\ document \in Documents \union {NoDocument} /\ overtaken \in BOOLEAN
    BY <1>1, <1>2 DEF Suspend, Rest
  <1>4. Object(y) /\ Gate(y, unseen) /\ Accounted(y, overtaken)
    BY <1>1, <1>2, <1>3, SuspendedKeeps DEF Good
  <1> QED
    BY <1>3, <1>4, BecomesGood

\* on_resume and sync_now pull, the former with the gate closed.
LEMMA PullGood ==
    ASSUME Rest, Good, UNCHANGED <<document, unseen, overtaken>>,
           NEW x, x = Now \/ x = Unverify(Now), NEW manual \in BOOLEAN,
           Becomes(Pull(x, manual))
    PROVE  Good'
  <1>1. Object(x) /\ Gate(x, unseen) /\ Accounted(x, overtaken)
    <2>1. PICK w : w = Now
      OBVIOUS
    <2>2. CASE x = Now
      BY <2>2 DEF Good
    <2>3. CASE x = Unverify(Now)
      BY <2>1, <2>3, UnverifyKeeps DEF Good, Rest
    <2> QED
      BY <2>2, <2>3
  <1>2. PICK y : y = Pull(x, manual)
    OBVIOUS
  <1>3. /\ Object(y) /\ Gate(y, unseen)
        /\ Settling(y) <=> Settling(x)
        /\ y.page = x.page
        /\ y.agreed = x.agreed
        /\ y.sync.at = x.sync.at
        /\ y.sync.verified = x.sync.verified
        /\ y.sync.dirty = x.sync.dirty
    BY <1>1, <1>2, PullKeeps DEF Rest
  <1>4. Accounted(y, overtaken)
    BY <1>1, <1>3, AccountedSame DEF Rest
  <1> QED
    BY <1>2, <1>3, <1>4, BecomesGood

LEMMA ResumeGood ==
    ASSUME Rest, Good, Resume
    PROVE  Good'
  <1>1. UNCHANGED <<document, unseen, overtaken>>
    BY DEF Resume
  <1>2. CASE asleep = "long" /\ config.pull
    <2>1. PICK x : x = Unverify(Now)
      OBVIOUS
    <2>2. Becomes(Pull(x, FALSE))
      BY <1>2, <2>1 DEF Resume
    <2> QED
      BY <1>1, <2>1, <2>2, PullGood
  <1>3. CASE ~(asleep = "long" /\ config.pull)
    <2>1. PICK y : y = Now
      OBVIOUS
    <2>2. Becomes(y)
      BY <1>3, <2>1 DEF Resume
    <2> QED
      BY <1>1, <2>1, <2>2, BecomesGood DEF Good
  <1> QED
    BY <1>2, <1>3

LEMMA SyncNowGood ==
    ASSUME Rest, Good, SyncNow
    PROVE  Good'
  <1>1. PICK x : x = Now
    OBVIOUS
  <1>2. UNCHANGED <<document, unseen, overtaken>> /\ Becomes(Pull(x, TRUE))
    BY <1>1 DEF SyncNow
  <1> QED
    BY <1>1, <1>2, PullGood

LEMMA ChapterRefusedGood ==
    ASSUME Rest, Good, ChapterRefused
    PROVE  Good'
  <1>1. PICK x : x = Now
    OBVIOUS
  <1>2. Object(x) /\ Gate(x, unseen) /\ Accounted(x, overtaken) /\ x.asked = asked
    BY <1>1, NowFields DEF Good
  <1>3. PICK v : v = [x EXCEPT !.asked = @ - 1]
    OBVIOUS
  <1>4. /\ asked \in Nat /\ asked > 0
        /\ UNCHANGED <<document, unseen, overtaken>>
        /\ Becomes(CancelJump(v))
    BY <1>1, <1>2, <1>3 DEF ChapterRefused, Object, IsObject
  <1>5. /\ IsObject(v) /\ Quiet(x, v)
        /\ v.page = x.page /\ v.sync = x.sync /\ v.agreed = x.agreed
    BY <1>2, <1>3, <1>4 DEF Object, IsObject, Quiet
  <1>6. Object(v)
    BY <1>2, <1>5, QuietObject DEF Object
  <1>7. Gate(v, unseen)
    BY <1>2, <1>5, QuietGate DEF Gate
  <1>8. Accounted(v, overtaken)
    BY <1>2, <1>5, AccountedSame DEF Settling, Quiet, Rest
  <1>9. PICK y : y = CancelJump(v)
    OBVIOUS
  <1>10. Object(y) /\ Gate(y, unseen) /\ Accounted(y, overtaken)
    BY <1>6, <1>7, <1>8, <1>9, CancelJumpKeeps DEF Rest
  <1> QED
    BY <1>4, <1>9, <1>10, BecomesGood

\* A step about a position the reader has left is noted; one about where the
\* reader is need only keep the account in that case.
LEMMA ConcludesGood ==
    ASSUME Rest, Good, NEW y, NEW from, Concludes(y, from), Object(y), Gate(y, unseen'),
           y.sync.verified /\ (Capture(Now) # Unknown => from = Capture(Now))
              => Accounted(y, overtaken),
           document' = document
    PROVE  Good'
  <1>1. Becomes(y)
    BY DEF Concludes
  <1>2. Accounted(y, overtaken')
    <2>1. CASE Capture(Now) # Unknown /\ from # Capture(Now)
      BY <2>1 DEF Concludes, Accounted
    <2>2. CASE ~(Capture(Now) # Unknown /\ from # Capture(Now))
      BY <2>2 DEF Concludes, Accounted
    <2> QED
      BY <2>1, <2>2
  <1> QED
    BY <1>1, <1>2, BecomesGood

LEMMA AnswerGood ==
    ASSUME Rest, Good, Answer
    PROVE  Good'
  <1>1. PICK n : n = Now
    OBVIOUS
  <1>2. /\ Object(n) /\ Gate(n, unseen) /\ Accounted(n, overtaken)
        /\ n.choices = choices /\ n.sync = sync /\ n.page = page
    BY <1>1, NowFields DEF Good
  <1>3. PICK c \in choices :
          LET x == [n EXCEPT !.choices = @ \ {c}] IN
          IF Stale(c.gen, c.doc)
          THEN Concludes(x, Capture(n))
          ELSE \E y \in ApplyRemote(x, c.doc, c.remote)
                           \union {KeepLocal(x, c.from, c.remote, TRUE)} :
                 Concludes(y, c.from)
    BY <1>1 DEF Answer
  <1>4. PICK x : x = [n EXCEPT !.choices = @ \ {c}]
    OBVIOUS
  <1>5. /\ IsObject(x)
        /\ x.choices = n.choices \ {c}
        /\ x.tasks = n.tasks /\ x.sync = n.sync /\ x.page = n.page /\ x.agreed = n.agreed
    BY <1>2, <1>4 DEF Object, IsObject
  <1>6. \A r : SetOut(n, r) => SetOut(x, r)
    BY <1>5 DEF SetOut
  <1>7. Object(x)
    <2>1. \A b \in x.choices : b \in Choice /\ SetOut(x, b)
      BY <1>2, <1>5, <1>6 DEF Object
    <2>2. \A t \in DOMAIN x.tasks : t.kind = "pull" => SetOut(x, t)
      BY <1>2, <1>5, <1>6 DEF Object
    <2>3. /\ x.page \in PlacesOf(document)
          /\ IsQueue(x.tasks)
          /\ OneTask(x.tasks, "pull", x.sync.pulling)
          /\ OneTask(x.tasks, "upload", x.sync.uploading)
          /\ x.sync.at # Unknown => IsHere(x.sync.at)
      BY <1>2, <1>5 DEF Object
    <2> QED
      BY <1>5, <2>1, <2>2, <2>3, Zenon DEF Object
  <1>8. Gate(x, unseen)
    BY <1>2, <1>5 DEF Gate
  <1>9. Accounted(x, overtaken)
    BY <1>2, <1>5, AccountedSame DEF Settling, Rest
  <1>10. document' = document /\ unseen' = unseen
    BY DEF Answer
  <1>11. CASE Stale(c.gen, c.doc)
    <2>1. Concludes(x, Capture(n))
      BY <1>3, <1>4, <1>11
    <2> QED
      BY <1>7, <1>8, <1>9, <1>10, <2>1, ConcludesGood
  <1>12. CASE ~Stale(c.gen, c.doc)
    <2>1. c \in Choice /\ SetOut(n, c)
      BY <1>2 DEF Object
    <2>2. /\ c.gen = n.sync.generation /\ c.doc = document
          /\ DetectBook = c.doc.book
          /\ c.remote \in Remote /\ c.from \in Position /\ c.from.book \in Books
          /\ c.doc \in Documents
      BY <1>2, <1>12, <2>1 DEF Stale, SetOut, Choice, Position
    <2>3. IsHere(c.from)
      BY <2>1, <2>2, NilAssumption DEF SetOut, IsHere
    <2>4. \A reason : MayOpen(reason, unseen)
      <3>1. DetectBook \in Books /\ document.chapter # Unmapped
        BY <2>1, <2>2 DEF SetOut
      <3>2. "asleep" \notin AwayWhen => ~unseen[c.doc.book]
        BY <1>2, <2>2 DEF Gate
      <3> QED
        BY <2>2, <3>1, <3>2 DEF MayOpen
    <2>5. PICK y : /\ y \in ApplyRemote(x, document, c.remote)
                         \/ y = KeepLocal(x, c.from, c.remote, TRUE)
                   /\ Concludes(y, c.from)
      BY <1>3, <1>4, <1>12, <2>2
    <2>6. CASE y \in ApplyRemote(x, document, c.remote)
      <3>1. Object(y) /\ Gate(y, unseen) /\ (y = x \/ ~y.sync.verified \/ Settling(y))
        BY <1>7, <1>8, <2>2, <2>4, <2>6, ApplyRemoteKeeps
      <3>2. Accounted(y, overtaken)
        BY <1>9, <3>1, AccountedStays DEF Rest
      <3> QED
        BY <1>10, <2>5, <3>1, <3>2, ConcludesGood
    <2>7. CASE y = KeepLocal(x, c.from, c.remote, TRUE)
      <3>1. PICK from \in Position : from = c.from
        BY <2>2
      <3>2. Object(y) /\ Gate(y, unseen) /\ (from = Capture(x) => Knows(y))
        BY <1>7, <1>8, <2>2, <2>3, <2>4, <2>7, <3>1, KeepLocalKeeps
      <3>3. Capture(Now) # Unknown /\ Capture(Now) = Capture(x)
        BY <1>1, <1>2, <1>5, <2>4, CaptureIsHere, CaptureSame DEF Object, MayOpen, Rest
      <3>4. y.sync.verified /\ (Capture(Now) # Unknown => from = Capture(Now))
                => Accounted(y, overtaken)
        BY <3>2, <3>3 DEF Accounted
      <3> QED
        BY <1>10, <2>5, <3>1, <3>2, <3>4, ConcludesGood
    <2> QED
      BY <2>5, <2>6, <2>7
  <1> QED
    BY <1>11, <1>12

LEMMA StartReportGood ==
    ASSUME Rest, Good, StartReport
    PROVE  Good'
  <1>1. PICK x : x = Now
    OBVIOUS
  <1>2. /\ Object(x) /\ Gate(x, unseen) /\ Accounted(x, overtaken) /\ x.sync = sync
        /\ x.page = page /\ x.tasks = tasks /\ x.choices = choices
        /\ x.asked = asked /\ x.agreed = agreed
    BY <1>1, NowFields DEF Good
  <1>3. PICK p : p = Capture(x)
    OBVIOUS
  <1>4. p \in Position /\ IsHere(p)
    BY <1>1, <1>2, <1>3, CaptureIsHere DEF StartReport, Object, Rest
  <1>5. PICK d \in BOOLEAN : d = (sync.dirty \/ Moved(x, p))
    BY DEF Moved
  <1>6. PICK y : y = [x EXCEPT !.sync.dirty = d, !.sync.at = p]
    OBVIOUS
  <1>7. /\ IsObject(y) /\ Quiet(x, y)
        /\ y.page = x.page /\ y.agreed = x.agreed /\ y.asked = x.asked
        /\ y.sync.at = p
        /\ y.sync.verified = x.sync.verified
        /\ y.sync.reason = x.sync.reason
        /\ y.sync.dirty = d
    BY <1>2, <1>4, <1>6 DEF Object, IsObject, Quiet, Sync
  <1>8. y.sync = [x.sync EXCEPT !.dirty = d, !.at = p]
    BY <1>2, <1>6 DEF Object, IsObject
  <1>9. sync' = [sync EXCEPT !.dirty = d, !.at = p]
    BY <1>1, <1>3, <1>5, Zenon DEF StartReport
  <1>10. Becomes(y) /\ UNCHANGED <<document, unseen, overtaken>>
    BY <1>2, <1>7, <1>8, <1>9 DEF StartReport, Becomes, Quiet
  <1>11. Object(y)
    BY <1>2, <1>4, <1>7, QuietObject DEF Object
  <1>12. Gate(y, unseen)
    BY <1>2, <1>7, QuietGate DEF Gate
  <1>13. Accounted(y, overtaken)
    <2>1. Settling(y) <=> Settling(x)
      BY <1>7 DEF Settling, Quiet
    <2>2. x.sync.dirty => y.sync.dirty
      BY <1>2, <1>5, <1>7
    <2>3. y.sync.at = Capture(x)
      BY <1>3, <1>7
    <2> QED
      BY <1>2, <1>7, <2>1, <2>2, <2>3, AccountedSame DEF Rest
  <1> QED
    BY <1>10, <1>11, <1>12, <1>13, BecomesGood

LEMMA ReadElsewhereGood ==
    ASSUME Rest, Good, ReadElsewhere
    PROVE  Good'
  <1>1. PICK b \in Books :
          /\ \/ "closed" \in AwayWhen /\ DetectBook # b
             \/ "asleep" \in AwayWhen /\ asleep = "long"
          /\ unseen' = [unseen EXCEPT ![b] = TRUE]
    BY DEF ReadElsewhere
  <1>2. PICK x : x = Now
    OBVIOUS
  <1>3. Object(x) /\ Gate(x, unseen)
    BY <1>2 DEF Good
  <1>4. "asleep" \notin AwayWhen /\ DetectBook \in Books => unseen'[DetectBook] = unseen[DetectBook]
    BY <1>1 DEF Rest
  <1>5. x.sync.verified => MayOpen(x.sync.reason, unseen')
    BY <1>3, <1>4 DEF Gate, MayOpen
  <1>6. \A c \in x.choices :
           "asleep" \notin AwayWhen /\ c.gen = x.sync.generation => ~unseen'[c.doc.book]
    <2> SUFFICES ASSUME NEW c \in x.choices, "asleep" \notin AwayWhen, c.gen = x.sync.generation
                 PROVE  ~unseen'[c.doc.book]
      OBVIOUS
    <2>1. c \in Choice /\ SetOut(x, c)
      BY <1>3 DEF Object
    <2>2. /\ c.doc = document /\ c.doc \in Documents
          /\ c.from.book = c.doc.book /\ c.from.book \in Books
      BY <2>1 DEF SetOut, Choice, Position
    <2>3. DetectBook = c.doc.book /\ DetectBook \in Books
      BY <2>2, NilAssumption DEF DetectBook
    <2> QED
      BY <1>3, <1>4, <2>3 DEF Gate
  <1>7. Gate(Now, unseen')
    BY <1>2, <1>5, <1>6 DEF Gate
  <1>8. UNCHANGED <<document, page, sync, tasks, choices, asked, agreed, overtaken>>
    BY DEF ReadElsewhere
  <1> QED
    BY <1>7, <1>8, UntouchedGood

LEMMA CheckOpenedGood ==
    ASSUME Rest, Good, CheckOpened
    PROVE  Good'
  <1>1. PICK n : n = Now
    OBVIOUS
  <1>2. /\ Object(n) /\ Gate(n, unseen) /\ Accounted(n, overtaken)
        /\ n.tasks = tasks
    BY <1>1, NowFields DEF Good
  <1>3. PICK t \in DOMAIN tasks :
          t.kind = "open" /\ \E y \in Opened(t, Without(t)) : Becomes(y)
    BY DEF CheckOpened, Queued
  <1>4. PICK x : x = [n EXCEPT !.tasks = BagRemove(@, t)]
    OBVIOUS
  <1>5. PICK y \in Opened(t, x) : Becomes(y)
    BY <1>1, <1>3, <1>4 DEF Without
  <1>6. /\ IsObject(x)
        /\ x.tasks = BagRemove(n.tasks, t)
        /\ x.sync = n.sync /\ x.page = n.page /\ x.choices = n.choices /\ x.agreed = n.agreed
    BY <1>2, <1>4 DEF Object, IsObject
  <1>7. IsQueue(n.tasks)
    BY <1>2 DEF Object
  <1>8. /\ OneTask(x.tasks, "pull", x.sync.pulling)
        /\ OneTask(x.tasks, "upload", x.sync.uploading)
    BY <1>2, <1>3, <1>6, <1>7, RemoveOther DEF Object
  <1>9. Object(x) /\ Gate(x, unseen) /\ (Settling(x) <=> Settling(n))
    BY <1>2, <1>3, <1>6, <1>8, TakenKeeps
  <1>10. Accounted(x, overtaken)
    BY <1>2, <1>6, <1>9, AccountedSame DEF Rest
  <1>11. UNCHANGED <<document, unseen, overtaken>>
    BY DEF CheckOpened
  <1>12. Object(y) /\ Gate(y, unseen) /\ Accounted(y, overtaken)
    BY <1>5, <1>9, <1>10, OpenedKeeps DEF Rest
  <1> QED
    BY <1>5, <1>11, <1>12, BecomesGood

LEMMA PullDoneGood ==
    ASSUME Rest, Good, PullDone
    PROVE  Good'
  <1>1. PICK n : n = Now
    OBVIOUS
  <1>2. /\ Object(n) /\ Gate(n, unseen) /\ Accounted(n, overtaken)
        /\ n.tasks = tasks /\ n.sync = sync /\ n.page = page
    BY <1>1, NowFields DEF Good
  <1>3. PICK t \in DOMAIN tasks :
          /\ t.kind = "pull"
          /\ LET x == [Without(t) EXCEPT !.sync.pulling = FALSE] IN
             \/ Becomes(x) /\ UNCHANGED <<unseen, overtaken>>
             \/ /\ ~Stale(t.gen, t.doc)
                /\ \E conflict \in BOOLEAN :
                     \E y \in Resolve(x, t, [at |-> server[t.doc.book], conflict |-> conflict]) :
                       Concludes(y, t.from)
                /\ unseen' = [unseen EXCEPT ![t.doc.book] = FALSE]
    BY DEF PullDone, Queued
  <1>4. PICK x : x = [n EXCEPT !.tasks = BagRemove(@, t), !.sync.pulling = FALSE]
    OBVIOUS
  <1>5. [Without(t) EXCEPT !.sync.pulling = FALSE] = x
    BY <1>1, <1>4 DEF Without
  <1>6. /\ IsObject(x)
        /\ x.tasks = BagRemove(n.tasks, t)
        /\ x.page = n.page /\ x.choices = n.choices /\ x.agreed = n.agreed
        /\ x.sync.generation = n.sync.generation
        /\ x.sync.at = n.sync.at
        /\ x.sync.verified = n.sync.verified
        /\ x.sync.reason = n.sync.reason
        /\ x.sync.dirty = n.sync.dirty
        /\ x.sync.uploading = n.sync.uploading
        /\ ~x.sync.pulling
    BY <1>2, <1>4 DEF Object, IsObject, Sync
  <1>7. IsQueue(n.tasks)
    BY <1>2 DEF Object
  <1>8. OneTask(x.tasks, "upload", x.sync.uploading)
    BY <1>2, <1>3, <1>6, <1>7, RemoveOther DEF Object
  <1>9. OneTask(x.tasks, "pull", x.sync.pulling)
    <2>1. PICK r : r = BagRemove(n.tasks, t)
      OBVIOUS
    <2>2. OneTask(r, "pull", FALSE)
      BY <1>2, <1>3, <1>7, <2>1, RemoveOnly DEF Object
    <2> QED
      BY <1>6, <2>1, <2>2 DEF OneTask
  <1>10. Object(x) /\ Gate(x, unseen) /\ (Settling(x) <=> Settling(n))
    BY <1>2, <1>3, <1>6, <1>8, <1>9, TakenKeeps
  <1>11. Accounted(x, overtaken)
    BY <1>2, <1>6, <1>10, AccountedSame DEF Rest
  <1>12. document' = document
    BY DEF PullDone
  <1>13. CASE Becomes(x) /\ UNCHANGED <<unseen, overtaken>>
    BY <1>10, <1>11, <1>12, <1>13, BecomesGood
  <1>14. ASSUME NEW conflict \in BOOLEAN, ~Stale(t.gen, t.doc),
                NEW y \in Resolve(x, t, [at |-> server[t.doc.book], conflict |-> conflict]),
                Concludes(y, t.from),
                unseen' = [unseen EXCEPT ![t.doc.book] = FALSE]
         PROVE  Good'
    <2>1. t \in PullTask
      BY <1>2, <1>3, <1>7 DEF IsQueue, Task, OpenTask, PullTask, UploadTask, SettleTask
    <2>2. SetOut(n, t)
      BY <1>2, <1>3 DEF Object
    <2>3. SetOut(x, t)
      BY <1>6, <2>2 DEF SetOut
    <2>4. /\ t.doc = document /\ t.doc \in Documents
          /\ t.from \in Position /\ t.doc.book \in Books
          /\ DetectBook = t.doc.book /\ document.chapter # Unmapped
      BY <1>2, <1>14, <2>1, <2>2 DEF SetOut, Stale, PullTask, Position
    <2>5. PICK remote \in Remote : remote = [at |-> server[t.doc.book], conflict |-> conflict]
      BY <2>4 DEF Remote, Rest
    <2>6. ~unseen'[DetectBook] /\ \A b \in Books : unseen'[b] => unseen[b]
      <3>1. unseen \in [Books -> BOOLEAN]
        BY DEF Rest
      <3> QED
        BY <1>14, <2>4, <3>1
    <2>7. \A reason : MayOpen(reason, unseen')
      BY <2>4, <2>6 DEF MayOpen
    <2>8. Gate(x, unseen')
      <3>1. \A c \in x.choices : c.doc.book \in Books
        <4>1. \A c \in x.choices : c \in Choice /\ SetOut(x, c)
          BY <1>10 DEF Object
        <4> QED
          BY <4>1 DEF SetOut, Choice, Position
      <3>2. \A c \in x.choices :
               "asleep" \notin AwayWhen /\ c.gen = x.sync.generation => ~unseen'[c.doc.book]
        BY <1>10, <2>6, <3>1 DEF Gate
      <3> QED
        BY <2>7, <3>2 DEF Gate
    <2>9. PICK ns : ns = unseen'
      OBVIOUS
    <2>10. Object(y) /\ Gate(y, ns) /\ (t.from = Capture(x) => Accounted(y, overtaken))
      BY <1>10, <1>11, <1>14, <2>1, <2>3, <2>4, <2>5, <2>7, <2>8, <2>9, ResolveKeeps DEF Rest
    <2>11. Capture(Now) # Unknown /\ Capture(Now) = Capture(x)
      BY <1>1, <1>2, <1>6, <2>4, CaptureIsHere, CaptureSame DEF Object, Rest
    <2> QED
      BY <1>12, <1>14, <2>9, <2>10, <2>11, ConcludesGood
  <1> QED
    BY <1>3, <1>5, <1>13, <1>14

\* An attempt to upload: busy, it is queued again; answered, device and cloud
\* agree on the position it carried.
LEMMA UploadAttemptGood ==
    ASSUME Rest, Good, UploadAttempt
    PROVE  Good'
  <1>1. PICK n : n = Now
    OBVIOUS
  <1>2. /\ Object(n) /\ Gate(n, unseen) /\ Accounted(n, overtaken)
        /\ n.tasks = tasks /\ n.sync = sync /\ n.page = page
    BY <1>1, NowFields DEF Good
  <1>3. PICK t \in DOMAIN tasks :
          /\ t.kind = "upload"
          /\ LET p == t.position
                 x == [Without(t) EXCEPT !.sync.uploading = FALSE]
                 done == [x EXCEPT !.sync.dirty = FALSE,
                                   !.agreed = IF p.book = DetectBook THEN p ELSE @]
             IN  \/ /\ t.attempt + 1 < Attempts
                    /\ Becomes(Later(Without(t), [t EXCEPT !.attempt = @ + 1]))
                    /\ UNCHANGED overtaken
                 \/ Concludes(done, p)
                 \/ Becomes(x) /\ UNCHANGED overtaken
    BY Zenon DEF UploadAttempt, Queued
  <1>4. UNCHANGED <<document, unseen>>
    BY DEF UploadAttempt
  <1>5. IsQueue(n.tasks)
    BY <1>2 DEF Object
  <1>6. t \in UploadTask
    BY <1>2, <1>3, <1>5 DEF IsQueue, Task, OpenTask, PullTask, UploadTask, SettleTask
  <1>7. PICK r : r = BagRemove(n.tasks, t)
    OBVIOUS
  <1>8. OneTask(r, "pull", n.sync.pulling) /\ OneTask(r, "upload", FALSE)
    BY <1>2, <1>3, <1>5, <1>7, RemoveOther, RemoveOnly DEF Object
  <1>9. PICK x : x = [n EXCEPT !.tasks = r, !.sync.uploading = FALSE]
    OBVIOUS
  <1>10. [Without(t) EXCEPT !.sync.uploading = FALSE] = x
    BY <1>1, <1>7, <1>9 DEF Without
  <1>11. /\ IsObject(x)
         /\ x.tasks = r
         /\ x.page = n.page /\ x.choices = n.choices /\ x.agreed = n.agreed
         /\ x.sync.generation = n.sync.generation
         /\ x.sync.at = n.sync.at
         /\ x.sync.verified = n.sync.verified
         /\ x.sync.reason = n.sync.reason
         /\ x.sync.dirty = n.sync.dirty
         /\ x.sync.pulling = n.sync.pulling
         /\ ~x.sync.uploading
    BY <1>2, <1>9 DEF Object, IsObject, Sync
  <1>12. OneTask(x.tasks, "pull", x.sync.pulling) /\ OneTask(x.tasks, "upload", x.sync.uploading)
    BY <1>8, <1>11 DEF OneTask
  <1>13. Object(x) /\ Gate(x, unseen) /\ (Settling(x) <=> Settling(n))
    BY <1>2, <1>3, <1>7, <1>11, <1>12, TakenKeeps
  <1>14. Accounted(x, overtaken)
    BY <1>2, <1>11, <1>13, AccountedSame DEF Rest
  <1>15. CASE Becomes(x) /\ UNCHANGED overtaken
    BY <1>4, <1>13, <1>14, <1>15, BecomesGood
  <1>16. ASSUME t.attempt + 1 < Attempts, UNCHANGED overtaken,
                Becomes(Later(Without(t), [t EXCEPT !.attempt = @ + 1]))
         PROVE  Good'
    <2>1. PICK u : u = [t EXCEPT !.attempt = @ + 1]
      OBVIOUS
    <2>2. u \in Task /\ u.kind = "upload"
      <3>1. t.attempt + 1 \in 0..Attempts
        BY <1>6, <1>16, BoundsAssumption DEF UploadTask
      <3> QED
        BY <1>6, <2>1, <3>1 DEF Task, UploadTask
    <2>3. PICK w : w = [n EXCEPT !.tasks = r]
      OBVIOUS
    <2>4. /\ IsObject(w) /\ w.tasks = r /\ w.sync = n.sync /\ w.page = n.page
          /\ w.choices = n.choices /\ w.agreed = n.agreed
      BY <1>2, <2>3 DEF Object, IsObject
    <2>5. PICK y : y = Later(w, u)
      OBVIOUS
    <2>6. /\ IsObject(y) /\ y.tasks = BagAdd(r, u) /\ y.sync = n.sync /\ y.page = n.page
          /\ y.choices = n.choices /\ y.agreed = n.agreed
      BY <2>4, <2>5, LaterEffect
    <2>7. /\ IsQueue(r)
          /\ DOMAIN r \subseteq DOMAIN n.tasks /\ DOMAIN n.tasks \ {t} \subseteq DOMAIN r
      BY <1>2, <1>3, <1>5, <1>7, RemoveTask
    <2>8. IsQueue(y.tasks) /\ DOMAIN y.tasks = DOMAIN r \union {u}
      BY <2>2, <2>6, <2>7, AddTask
    <2>9. OneTask(y.tasks, "upload", y.sync.uploading)
      <3>1. OneTask(y.tasks, "upload", TRUE)
        BY <1>8, <2>2, <2>6, <2>7, AddFirst
      <3>2. n.sync.uploading
        BY <1>2, <1>3 DEF Object, OneTask
      <3> QED
        BY <2>6, <3>1, <3>2 DEF OneTask
    <2>10. OneTask(y.tasks, "pull", y.sync.pulling)
      BY <1>8, <2>2, <2>6, <2>7, AddOther
    <2>11. \A q : SetOut(n, q) => SetOut(y, q)
      BY <2>6 DEF SetOut
    <2>12. \A q \in DOMAIN y.tasks : q.kind = "pull" => SetOut(y, q)
      BY <1>2, <2>2, <2>7, <2>8, <2>11 DEF Object
    <2>13. \A c \in y.choices : c \in Choice /\ SetOut(y, c)
      BY <1>2, <2>6, <2>11 DEF Object
    <2>14. y.page \in PlacesOf(document) /\ (y.sync.at # Unknown => IsHere(y.sync.at))
      BY <1>2, <2>6 DEF Object
    <2>15. Object(y)
      BY <2>6, <2>8, <2>9, <2>10, <2>12, <2>13, <2>14, Zenon DEF Object
    <2>16. Gate(y, unseen)
      BY <1>2, <2>6 DEF Gate
    <2>17. Settling(y) <=> Settling(n)
      BY <1>3, <2>2, <2>7, <2>8 DEF Settling
    <2>18. Accounted(y, overtaken)
      BY <1>2, <2>6, <2>17, AccountedSame DEF Rest
    <2>19. Becomes(y)
      BY <1>1, <1>7, <1>16, <2>1, <2>3, <2>5 DEF Without
    <2> QED
      BY <1>4, <1>16, <2>15, <2>16, <2>18, <2>19, BecomesGood
  <1>17. PICK p \in Position : p = t.position
    BY <1>6 DEF UploadTask
  <1>18. PICK a : a = IF p.book = DetectBook THEN p ELSE x.agreed
    OBVIOUS
  <1>19. PICK y : y = [x EXCEPT !.sync.dirty = FALSE, !.agreed = a]
    OBVIOUS
  <1>20. CASE Concludes(y, p)
    <2>1. a \in Position \union {Unknown}
      BY <1>11, <1>18 DEF IsObject
    <2>2. /\ IsObject(y) /\ Quiet(x, y)
          /\ y.page = x.page /\ y.agreed = a
          /\ y.sync.at = x.sync.at
          /\ y.sync.verified = x.sync.verified
          /\ y.sync.reason = x.sync.reason
      BY <1>11, <1>19, <2>1 DEF IsObject, Quiet, Sync
    <2>3. Object(y)
      BY <1>13, <2>2, QuietObject DEF Object
    <2>4. Gate(y, unseen)
      BY <1>13, <2>2, QuietGate DEF Gate
    <2>5. ASSUME y.sync.verified, Capture(Now) # Unknown => p = Capture(Now)
          PROVE  Accounted(y, overtaken)
      <3>1. DetectBook \in Books /\ document.chapter # Unmapped
        BY <1>13, <2>2, <2>5 DEF Gate, MayOpen
      <3>2. /\ Capture(Now) = Capture(x) /\ Capture(y) = Capture(x)
            /\ Capture(x) = [book |-> DetectBook, at |-> x.page]
            /\ Capture(x) # Unknown
        BY <1>1, <1>2, <1>11, <1>13, <2>2, <3>1, CaptureIsHere, CaptureSame DEF Object, Rest
      <3>3. p = Capture(x) /\ p.book = DetectBook
        BY <2>5, <3>2
      <3>4. y.agreed = Capture(y)
        BY <1>18, <2>2, <3>2, <3>3
      <3> QED
        BY <1>14, <2>2, <3>2, <3>4 DEF Accounted, Knows, Settling, Quiet
    <2> QED
      BY <1>4, <1>20, <2>3, <2>4, <2>5, ConcludesGood
  <1> QED
    BY <1>3, <1>10, <1>15, <1>16, <1>17, <1>18, <1>19, <1>20

\* The capture after a jump: the reader may have moved on from where the jump led.
LEMMA SettleGood ==
    ASSUME Rest, Good, Settle
    PROVE  Good'
  <1>1. PICK n : n = Now
    OBVIOUS
  <1>2. /\ Object(n) /\ Gate(n, unseen) /\ Accounted(n, overtaken)
        /\ n.tasks = tasks /\ n.sync = sync /\ n.page = page /\ n.agreed = agreed
    BY <1>1, NowFields DEF Good
  <1>3. PICK t \in DOMAIN tasks :
          /\ t.kind = "settle"
          /\ LET x == Without(t)
                 y == [x EXCEPT !.sync.at = Capture(x), !.sync.dirty = @ /\ ~t.clears]
                 z == IF Capture(x) = Unknown THEN x ELSE y
             IN  Concludes(z, agreed)
    BY Zenon DEF Settle, Queued
  <1>4. UNCHANGED <<document, unseen>>
    BY DEF Settle
  <1>5. IsQueue(n.tasks)
    BY <1>2 DEF Object
  <1>6. PICK x : x = [n EXCEPT !.tasks = BagRemove(@, t)]
    OBVIOUS
  <1>7. /\ IsObject(x)
        /\ x.tasks = BagRemove(n.tasks, t)
        /\ x.sync = n.sync /\ x.page = n.page /\ x.choices = n.choices /\ x.agreed = n.agreed
    BY <1>2, <1>6 DEF Object, IsObject
  <1>8. /\ OneTask(x.tasks, "pull", x.sync.pulling)
        /\ OneTask(x.tasks, "upload", x.sync.uploading)
    BY <1>2, <1>3, <1>5, <1>7, RemoveOther DEF Object
  <1>9. Object(x) /\ Gate(x, unseen)
    BY <1>2, <1>3, <1>7, <1>8, TakenKeeps
  <1>10. PICK p : p = Capture(x)
    OBVIOUS
  <1>11. PICK d \in BOOLEAN : d = (x.sync.dirty /\ ~t.clears)
    OBVIOUS
  <1>12. PICK y : y = [x EXCEPT !.sync.at = p, !.sync.dirty = d]
    OBVIOUS
  <1>13. PICK z : z = IF p = Unknown THEN x ELSE y
    OBVIOUS
  <1>14. Concludes(z, agreed)
    BY <1>1, <1>3, <1>6, <1>10, <1>11, <1>12, <1>13, Zenon DEF Without
  <1>15. CASE p = Unknown
    <2>1. ~z.sync.verified
      BY <1>9, <1>10, <1>13, <1>15, CaptureIsHere DEF Gate, MayOpen, Object, Rest
    <2> QED
      BY <1>4, <1>9, <1>13, <1>14, <1>15, <2>1, ConcludesGood
  <1>16. CASE p # Unknown
    <2>1. p \in Position /\ IsHere(p)
      BY <1>9, <1>10, <1>16, CaptureIsHere DEF Object, Rest
    <2>2. /\ IsObject(y) /\ Quiet(x, y)
          /\ y.page = x.page /\ y.agreed = x.agreed
          /\ y.sync.at = p
          /\ y.sync.verified = x.sync.verified
          /\ y.sync.reason = x.sync.reason
      BY <1>7, <1>12, <2>1 DEF IsObject, Quiet, Sync
    <2>3. Object(y)
      BY <1>9, <2>1, <2>2, QuietObject DEF Object
    <2>4. Gate(y, unseen)
      BY <1>9, <2>2, QuietGate DEF Gate
    <2>5. /\ Capture(Now) = p /\ Capture(y) = p
      BY <1>1, <1>7, <1>10, <2>2, CaptureSame
    <2>6. agreed = Capture(Now) => Accounted(y, overtaken)
      BY <1>2, <1>7, <2>2, <2>5 DEF Accounted, Knows
    <2>7. Capture(Now) # Unknown
      BY <1>16, <2>5
    <2> QED
      BY <1>4, <1>13, <1>14, <1>16, <2>3, <2>4, <2>6, <2>7, ConcludesGood
  <1> QED
    BY <1>15, <1>16

LEMMA NextGood == Rest /\ Good /\ [Next]_vars => Good'
  <1> SUFFICES ASSUME Rest, Good, [Next]_vars PROVE Good'
    OBVIOUS
  <1>1. CASE EndReport \/ Network \/ UNCHANGED vars
    <2>1. UNCHANGED <<document, page, sync, tasks, choices, asked, agreed, overtaken, unseen>>
      BY <1>1 DEF EndReport, Network, vars
    <2> QED
      BY <2>1, UntouchedGood DEF Good
  <1> QED
    BY <1>1, ReaderReadyGood, CloseDocumentGood, TurnPageGood, SuspendGood, ResumeGood,
       SyncNowGood, ChapterRefusedGood, AnswerGood, StartReportGood, ReadElsewhereGood,
       CheckOpenedGood, PullDoneGood, UploadAttemptGood, SettleGood
    DEF Next

\* What the object neither reads nor writes as a whole keeps its type.
LEMMA NextRest == Rest /\ Good /\ [Next]_vars => Rest'
  <1> SUFFICES ASSUME Rest, Good, [Next]_vars PROVE Rest'
    OBVIOUS
  <1> USE DEF Next, vars, Event, ReaderReady, CloseDocument, TurnPage, Suspend, Resume,
              SyncNow, ChapterRefused, Answer, StartReport, EndReport, ReadElsewhere,
              Network, CheckOpened, PullDone, UploadAttempt, Settle
  <1>1. /\ config' \in Configs
        /\ document' \in Documents \union {NoDocument}
        /\ link' \in {"down", "connected", "online"}
        /\ asleep' \in {"no", "short", "long"}
    BY DEF Rest
  <1>2. events' \in 0..MaxEvents
    <2>1. events' = events \/ (events < MaxEvents /\ events' = events + 1)
      BY Zenon
    <2>2. events \in 0..MaxEvents /\ MaxEvents \in Nat
      BY BoundsAssumption DEF Rest
    <2> HIDE DEF Next, vars
    <2> QED
      BY <2>1, <2>2
  <1>3. overtaken' \in BOOLEAN
    BY Zenon DEF Rest, Concludes
  <1>4. report' \in Position \union {Unknown}
    <2>1. Capture(Now) \in Position \union {Unknown}
      BY CaptureIsHere DEF Good, Object, Rest
    <2> QED
      BY <2>1 DEF Rest
  <1>5. server' \in [Books -> Places]
    <2>1. \/ server' = server
          \/ report # Unknown /\ server' = [server EXCEPT ![report.book] = report.at]
          \/ \E b \in Books, p \in Places : server' = [server EXCEPT ![b] = p]
          \/ \E t \in DOMAIN tasks :
                t.kind = "upload" /\ server' = [server EXCEPT ![t.position.book] = t.position.at]
      BY Zenon DEF Queued
    <2>2. \A t \in DOMAIN tasks : t.kind = "upload" => t.position \in Position
      <3>1. IsQueue(tasks)
        BY NowFields DEF Good, Object
      <3> QED
        BY <3>1 DEF IsQueue, Task, OpenTask, PullTask, UploadTask, SettleTask
    <2> QED
      BY <2>1, <2>2 DEF Rest, Position
  <1>6. unseen' \in [Books -> BOOLEAN]
    <2>1. \/ unseen' = unseen
          \/ \E b : unseen' = [unseen EXCEPT ![b] = TRUE]
          \/ \E b : unseen' = [unseen EXCEPT ![b] = FALSE]
      BY Zenon
    <2> QED
      BY <2>1 DEF Rest
  <1> QED
    BY <1>1, <1>2, <1>3, <1>4, <1>5, <1>6, Zenon DEF Rest

-------------------------------------------------------------------------------
(***************************************************************************)
(* The theorems.                                                           *)
(***************************************************************************)
\* The inductive invariant holds of every reachable state: what the queue, the
\* dialogs and the object say of one another, of the open document and of what
\* was last reconciled (progress_sync.lua, whole module).
THEOREM Invariance == Spec => []Inv
  <1>1. Inv <=> Rest /\ Good
    BY DEF Inv, Good
  <1>2. Init => Inv
    BY <1>1, InitGood
  <1>3. Inv /\ [Next]_vars => Inv'
    BY <1>1, NextGood, NextRest DEF Inv, Good
  <1> QED
    BY <1>2, <1>3, PTL DEF Spec

\* Every variable keeps its type, and the page stays inside the open file.
THEOREM TypeCorrect == Spec => []TypeOK
  <1>1. Inv => TypeOK
    <2> SUFFICES ASSUME Inv PROVE TypeOK
      OBVIOUS
    <2>1. Object(Now) /\ Rest
      BY DEF Inv
    <2>2. sync \in Sync /\ asked \in Nat /\ agreed \in Position \union {Unknown}
          /\ page \in PlacesOf(document)
      BY <2>1, NowFields DEF Object, IsObject
    <2>3. \A t \in DOMAIN tasks : t \in Task /\ tasks[t] \in Nat \ {0}
      BY <2>1, NowFields DEF Object, IsQueue
    <2>4. \A c \in choices : c \in Choice
      BY <2>1, NowFields DEF Object
    <2> QED
      BY <2>1, <2>2, <2>3, <2>4 DEF Rest, TypeOK
  <1> QED
    BY <1>1, Invariance, PTL

\* Whatever late callback runs, the busy flags and the queue agree: at most one
\* pull and one upload are under way, and no flag stays up without its callback
\* (_pull, _upload_snapshot).
THEOREM FlagsAgree == Spec => []FlagsMatchTasks
  <1>1. Inv => FlagsMatchTasks
    <2> SUFFICES ASSUME Inv PROVE FlagsMatchTasks
      OBVIOUS
    <2>1. /\ OneTask(tasks, "pull", sync.pulling)
          /\ OneTask(tasks, "upload", sync.uploading)
      BY NowFields DEF Inv, Object
    <2> QED
      BY <2>1 DEF OneTask, FlagsMatchTasks
  <1> QED
    BY <1>1, Invariance, PTL

\* The position the object compares with and uploads is one of the open file; and
\* if no other device is read on while this one sleeps, the gate is open only for
\* a cloud position that was fetched, or chosen, for this document.
THEOREM ThisDocument ==
    /\ Spec => []LocalPositionIsHere
    /\ "asleep" \notin AwayWhen => (Spec => []AboutThisDocument)
  <1>1. Inv => LocalPositionIsHere
    BY NowFields DEF Inv, Object, IsHere, LocalPositionIsHere
  <1>2. "asleep" \notin AwayWhen /\ Inv => AboutThisDocument
    <2> SUFFICES ASSUME "asleep" \notin AwayWhen, Inv PROVE AboutThisDocument
      OBVIOUS
    <2>1. sync.verified => MayOpen(sync.reason, unseen)
      BY NowFields DEF Inv, Gate
    <2> QED
      BY <1>1, <2>1 DEF MayOpen, GateMeansSeen, AboutThisDocument
  <1>3. Spec => []LocalPositionIsHere
    BY <1>1, Invariance, PTL
  <1>4. CASE "asleep" \notin AwayWhen
    <2>1. Inv => AboutThisDocument
      BY <1>2, <1>4
    <2>2. Spec => []AboutThisDocument
      BY <2>1, Invariance, PTL
    <2> QED
      BY <1>3, <2>2
  <1>5. CASE ~("asleep" \notin AwayWhen)
    BY <1>3, <1>5
  <1> QED
    BY <1>4, <1>5

\* Closing a verified book uploads where the reader is, unless that is where device
\* and cloud last agreed, or an upload or jump is under way, or a step ended for a
\* position the reader had left (on_close_document).
THEOREM CloseIsUploaded == Spec => CloseUploads
  <1>1. Inv /\ MustUpload /\ ~sync.uploading /\ Queued("settle") = {} /\ ~overtaken /\ [Next]_vars
            => UploadQueued(tasks', [book |-> DetectBook, at |-> page])
    <2> SUFFICES ASSUME Inv, MustUpload, ~sync.uploading, Queued("settle") = {}, ~overtaken,
                        [Next]_vars
                 PROVE  UploadQueued(tasks', [book |-> DetectBook, at |-> page])
      OBVIOUS
    <2>1. CloseDocument
      BY NilAssumption
      DEF MustUpload, Next, vars, ReaderReady, TurnPage, Suspend, Resume, SyncNow,
          ChapterRefused, Answer, StartReport, EndReport, ReadElsewhere, Network,
          CheckOpened, PullDone, UploadAttempt, Settle
    <2>2. PICK x : x = Now
      OBVIOUS
    <2>3. /\ Object(x) /\ Gate(x, unseen) /\ Accounted(x, overtaken)
          /\ x.sync = sync /\ x.page = page /\ x.tasks = tasks /\ x.agreed = agreed
      BY <2>2, NowFields DEF Inv
    <2>4. DetectBook \in Books /\ document.chapter # Unmapped
      BY <2>3 DEF MustUpload, Gate, MayOpen
    <2>5. Capture(x) = [book |-> DetectBook, at |-> page] /\ Capture(x) # Unknown
      BY <2>3, <2>4, CaptureIsHere DEF Object, Inv, Rest
    <2>6. Knows(x)
      BY <2>3 DEF MustUpload, Accounted, Settling, Queued
    <2>7. x.sync.dirty
      BY <2>3, <2>5, <2>6 DEF MustUpload, Knows
    <2>8. PICK z :
            /\ Object(z)
            /\ Closed(x) = [z EXCEPT !.sync.generation = @ + 1, !.sync.book = NoBook,
                                     !.sync.verified = FALSE, !.sync.at = Unknown, !.page = 0]
            /\ UploadQueued(z.tasks, Capture(x))
      BY <2>3, <2>5, <2>7, ClosedKeeps DEF MustUpload, Inv, Rest
    <2>9. tasks' = z.tasks
      BY <2>1, <2>2, <2>8 DEF CloseDocument, Becomes, Object, IsObject
    <2> QED
      BY <2>5, <2>8, <2>9
  <1> QED
    BY <1>1, Invariance, PTL DEF Spec, CloseUploads

===============================================================================
