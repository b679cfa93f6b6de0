-------------------------- MODULE ProgressProbeProofs --------------------------
(***************************************************************************)
(* For every value of the constants the probe is taken back, an alarm is   *)
(* true, and a run keeps the promise of ReversibleWrite.                   *)
(*                                                                         *)
(* The first rests on one fact: while the last position posted is the      *)
(* probe's, the run waits for it or is about to restore, or has ended in   *)
(* one of the two ways that skip the finally block.  The other two rest on *)
(* what a run knows as long as nothing disturbed it: what it remembers is  *)
(* the position it found, and the position now is that one, or the         *)
(* probe's once a probe was taken.                                         *)
(***************************************************************************)
EXTENDS ProgressProbe, TLAPS

\* The inductive invariant.
ProbeOut ==
    lastTaken = "probe" =>
        \/ stage \in {"observe", "restore"}
        \/ stage = "done" /\ outcome = "killed"
        \/ stage = "done" /\ outcome = "interrupted" /\ pending # "interrupted"

\* A step that uploads nothing, from a stage in which the probe is not out, keeps it so.
LEMMA NoPost ==
    ASSUME ProbeOut, lastTaken' = lastTaken, stage \notin {"observe", "restore", "done"}
    PROVE  ProbeOut'
BY DEF ProbeOut

\* A step after which another position than the probe's was taken last ends the matter.
LEMMA OtherPost ==
    ASSUME lastTaken' # "probe"
    PROVE  ProbeOut'
BY DEF ProbeOut

\* Reading the position, in any of the three places, posts nothing (lines 530-568).
LEMMA ReadingKeeps ==
    ASSUME ProbeOut, PullGateway \/ PullWeb \/ LoadReaderState
    PROVE  ProbeOut'
<1>1. CASE PullGateway
  BY <1>1, NoPost DEF PullGateway
<1>2. CASE PullWeb
  BY <1>2, NoPost DEF PullWeb, observer
<1>3. CASE LoadReaderState
  BY <1>3, NoPost DEF LoadReaderState, observer
<1> QED
  BY <1>1, <1>2, <1>3

\* What the service took of an upload is told by its stage (upload(), lines 595-611).
LEMMA UploadTaken ==
    ASSUME EnterRead \/ UploadPosition \/ UploadProbe \/ RestorePosition
    PROVE  \/ lastTaken' = stage
           \/ stage = "restore" /\ lastTaken' = "refused"
           \/ stage # "restore" /\ lastTaken' = lastTaken
BY DEF EnterRead, UploadPosition, UploadProbe, RestorePosition, Upload, Post

\* The uploads of the position itself, before the probe and after it.
LEMMA PositionPosted ==
    ASSUME ProbeOut, EnterRead \/ UploadPosition \/ RestorePosition
    PROVE  ProbeOut'
<1>1. stage \in {"enter", "upload", "restore"}
  BY DEF EnterRead, UploadPosition, RestorePosition
<1>2. stage # "restore" => lastTaken # "probe"
  BY <1>1 DEF ProbeOut
<1>3. lastTaken' # "probe"
  BY <1>1, <1>2, UploadTaken
<1> QED
  BY <1>3, OtherPost

\* After the probe comes the wait for it, or the finally block (lines 670-678).
LEMMA ProbePosted ==
    ASSUME UploadProbe
    PROVE  ProbeOut'
<1>1. stage = "probe"
  BY DEF UploadProbe
<1>2. stage' \in {"observe", "restore"}
  BY <1>1 DEF UploadProbe, Upload, Raise, Go
<1> QED
  BY <1>2 DEF ProbeOut

\* The wait for the probe goes on, or leads to the finally block; the other two waits
\* come after the restoration (lines 671-685).
LEMMA WaitKeeps ==
    ASSUME ProbeOut, WaitForPosition
    PROVE  ProbeOut'
<1>1. lastTaken' = lastTaken
  BY DEF WaitForPosition
<1>2. CASE stage = "observe"
  <2>1. stage' \in {"observe", "restore"}
    BY <1>2 DEF WaitForPosition, PullFails, AfterWait, Raise, Go
  <2> QED
    BY <2>1 DEF ProbeOut
<1>3. CASE stage # "observe"
  <2>1. stage \in {"confirm", "final"}
    BY <1>3 DEF WaitForPosition
  <2> QED
    BY <1>1, <2>1, NoPost
<1> QED
  BY <1>2, <1>3

\* The renewal of the cookie (lines 624-649) comes before the probe and posts no position.
LEMMA RenewKeeps ==
    ASSUME ProbeOut, RenewCookie
    PROVE  ProbeOut'
BY NoPost DEF RenewCookie, observer

\* A Ctrl-C while the probe is out leads to the finally block; one in that block
\* finds none pending, or does not come.
LEMMA InterruptKeeps ==
    ASSUME ProbeOut, Interrupt
    PROVE  ProbeOut'
<1>1. lastTaken' = lastTaken /\ stage # "done" /\ pending # "interrupted"
  BY DEF Interrupt, observer
<1>2. CASE stage = "observe"
  BY <1>2 DEF Interrupt, Raise, ProbeOut
<1>3. CASE stage = "restore"
  <2>1. stage' = "done" /\ outcome' = "interrupted" /\ pending' = pending
    BY <1>3 DEF Interrupt, Raise
  <2> QED
    BY <1>1, <2>1 DEF ProbeOut
<1>4. CASE stage \notin {"observe", "restore"}
  BY <1>1, <1>4, NoPost
<1> QED
  BY <1>2, <1>3, <1>4

\* A run that is killed is done, and excused.
LEMMA KillKeeps ==
    ASSUME ProbeOut, Kill
    PROVE  ProbeOut'
BY DEF ProbeOut, Kill, Finish

\* Another device moves the cloud's position, not the run's stage.
LEMMA OthersKeep ==
    ASSUME ProbeOut, OtherDevice \/ UNCHANGED vars
    PROVE  ProbeOut'
BY DEF ProbeOut, OtherDevice, vars, local, observer

\* The invariant holds in every reachable state.
THEOREM Invariance == Spec => []ProbeOut
<1>1. Init => ProbeOut
  BY DEF Init, ProbeOut
<1>2. ProbeOut /\ [Next]_vars => ProbeOut'
  BY ReadingKeeps, PositionPosted, ProbePosted, WaitKeeps, RenewKeeps, InterruptKeeps,
     KillKeeps, OthersKeep DEF Next, Step
<1> QED
  BY <1>1, <1>2, PTL DEF Spec

\* ProbeIsTakenBack (the finally block, lines 678-685), for every set of chapters, every
\* probe distance and any number of moves of other devices.
THEOREM ProbeTakenBack == Spec => []ProbeIsTakenBack
<1>1. ProbeOut => ProbeIsTakenBack
  BY DEF ProbeOut, ProbeIsTakenBack
<1> QED
  BY <1>1, Invariance, PTL

--------------------------------------------------------------------------------

Ended == {"ok", "readonly", "invalid", "unrestored", "unobserved", "differs", "crashed",
          "interrupted", "killed"}

\* The types, and what ties them to the stage.
Typed ==
    /\ stage \in Stages /\ tries \in Nat
    /\ roundTrip \in BOOLEAN /\ renewed \in BOOLEAN /\ probeSeen \in BOOLEAN
    /\ accepted \in BOOLEAN /\ misled \in BOOLEAN
    /\ gives \in [Endpoints -> SUBSET Fields]
    /\ home \in Answer /\ target \in Answer
    /\ cloud \in Position /\ cached \in Position /\ origin \in Position
    /\ moves \in Nat
    /\ pending \in {"open", "invalid", "crashed", "interrupted"}
    /\ IF stage = "done" THEN outcome \in Ended ELSE outcome = "open"
    /\ stage \notin {"gateway", "web", "context", "done"} => target \in Position
    /\ stage \in {"gateway", "web"} => ~renewed
    /\ stage = "context" /\ renewed => target \in Position

\* Where the probe of a run that found p goes.
ProbeOf(p) ==
    [p EXCEPT !.offset = IF @ >= ProbeDistance THEN @ - ProbeDistance ELSE @ + ProbeDistance]

\* The position is the one the run found, or the probe's once a probe was taken.
PositionKnown ==
    /\ cloud \in {origin, ProbeOf(origin)}
    /\ cloud # origin =>
          accepted /\ stage \in {"observe", "restore", "confirm", "final", "done"}

\* What the run remembers is the position it found.
MemoryTrue ==
    /\ stage \notin {"gateway", "done"} => home = Seen("gateway", origin)
    /\ stage \notin {"gateway", "web", "context", "done"} \/ (stage = "context" /\ renewed)
         => target = origin

\* What it says at the end is so.
VerdictTrue ==
    /\ probeSeen \/ stage = "final" => accepted
    /\ outcome = "ok" => accepted /\ cloud = origin
    /\ outcome \in {"unrestored", "differs"} /\ (\A e \in {"gateway", "web"} : "uid" \in gives[e])
         => cloud # origin

ProbeInv == Typed /\ (Reliable => PositionKnown /\ MemoryTrue /\ VerdictTrue)

\* What the assumption on the constants says of the values compared here.
LEMMA Distance == ProbeDistance \in Nat \ {0} /\ NoValue \notin Uids \union Nat
BY ProbeAssumption

\* An answer holds the fields its endpoint gives and no others.
LEMMA SeenFields ==
    ASSUME NEW e \in Endpoints, NEW p \in Position
    PROVE  /\ Seen(e, p) \in Answer
           /\ Seen(e, p).uid = IF "uid" \in gives[e] THEN p.uid ELSE NoValue
           /\ Seen(e, p).offset = IF "offset" \in gives[e] THEN p.offset ELSE NoValue
<1>1. Seen(e, p) = [f \in {"uid", "offset"} |-> IF f \in gives[e] THEN p[f] ELSE NoValue]
  BY DEF Seen, Fields
<1>2. /\ Seen(e, p).uid = IF "uid" \in gives[e] THEN p.uid ELSE NoValue
      /\ Seen(e, p).offset = IF "offset" \in gives[e] THEN p.offset ELSE NoValue
  BY <1>1
<1>3. Seen(e, p) = [uid |-> Seen(e, p).uid, offset |-> Seen(e, p).offset]
  BY <1>1
<1> QED
  BY <1>2, <1>3 DEF Answer, Position

\* The probe's place is a position, and another one than the run's.
LEMMA ProbeElsewhere ==
    ASSUME NEW p \in Position
    PROVE  ProbeOf(p) \in Position /\ ProbeOf(p).uid = p.uid /\ ProbeOf(p).offset # p.offset
BY Distance DEF Position, ProbeOf

\* A step that neither writes nor looks at an answer: the run goes on, or it ends
\* with no word about the position.
LEMMA SilentKeeps ==
    ASSUME ProbeInv, UNCHANGED <<service, observer, home, probeSeen, roundTrip>>,
           stage' \in Stages, tries' \in Nat, renewed' \in BOOLEAN, target' \in Answer,
           pending' \in {"open", "invalid", "crashed", "interrupted"},
           IF stage' = "done" THEN outcome' \in Ended \ {"ok", "unrestored", "differs"}
                              ELSE outcome' = "open",
           stage # "done", stage' # "gateway", stage = "gateway" => stage' = "done",
           stage' \notin {"web", "context", "done"} \/ (stage' = "context" /\ renewed')
             => target' \in Position /\ (Reliable => target' = origin),
           Reliable /\ cloud # origin => stage' \in {"observe", "restore", "confirm", "final", "done"},
           stage' \in {"gateway", "web"} => ~renewed', stage' # "final"
    PROVE  ProbeInv'
<1>0. Reliable' <=> Reliable
  BY DEF service, observer, Reliable
<1>1. Typed'
  BY DEF ProbeInv, Typed, service, observer, Answer, Position
<1>2. ASSUME Reliable PROVE PositionKnown' /\ MemoryTrue' /\ VerdictTrue'
  <2>1. PositionKnown'
    BY <1>2 DEF ProbeInv, Typed, PositionKnown, ProbeOf, service, observer
  <2>2. MemoryTrue'
    BY <1>2 DEF ProbeInv, Typed, MemoryTrue, Seen, service, observer
  <2>3. VerdictTrue'
    BY <1>2 DEF ProbeInv, Typed, VerdictTrue, service, observer
  <2> QED
    BY <2>1, <2>2, <2>3
<1> QED
  BY <1>0, <1>1, <1>2 DEF ProbeInv


\* An exception that nothing else happens with (Raise).
LEMMA RaiseKeeps ==
    ASSUME ProbeInv, NEW o \in {"invalid", "crashed", "interrupted"}, Raise(o), stage # "done",
           UNCHANGED <<service, observer, home, probeSeen, roundTrip, renewed, target>>,
           tries' \in Nat
    PROVE  ProbeInv'
<1>1. CASE stage \in {"probe", "observe"}
  <2>1. /\ stage' = "restore" /\ pending' = o /\ outcome' = "open"
    BY <1>1 DEF Raise, ProbeInv, Typed
  <2>2. target \in Position /\ (Reliable => target = origin)
    BY <1>1 DEF ProbeInv, Typed, MemoryTrue
  <2> QED
    BY <1>1, <2>1, <2>2, SilentKeeps DEF ProbeInv, Typed, Stages
<1>2. CASE stage \notin {"probe", "observe"}
  <2>1. stage' = "done" /\ outcome' = o /\ pending' = pending
    BY <1>2 DEF Raise
  <2> QED
    BY <2>1, SilentKeeps DEF ProbeInv, Typed, Stages, Ended
<1> QED
  BY <1>1, <1>2

\* An answer is what an endpoint says of the position of the moment, or of a cached one.
LEMMA AnswerShape ==
    ASSUME NEW answer \in PullCurrent
    PROVE  \E e \in {"gateway", "web"}, p \in {cloud, cached} :
             answer.read = Seen(e, p) /\ answer.old = (p # cloud)
<1>1. CASE answer = FromWeb
  <2>1. answer.read = Seen("web", cloud) /\ answer.old = FALSE
    BY <1>1 DEF FromWeb
  <2> QED
    BY <2>1
<1>2. CASE answer \in FromGateway
  <2>1. PICK p \in {cloud, cached} : answer = [read |-> Seen("gateway", p), old |-> p # cloud]
    BY <1>2 DEF FromGateway
  <2>2. answer.read = Seen("gateway", p)
    BY <2>1
  <2>3. answer.old = (p # cloud)
    BY <2>1
  <2> QED
    BY <2>2, <2>3
<1> QED
  BY <1>1, <1>2 DEF PullCurrent

\* What the Gateway may answer.
LEMMA GatewayShape ==
    ASSUME NEW answer \in FromGateway
    PROVE  \E p \in {cloud, cached} : answer.read = Seen("gateway", p) /\ answer.old = (p # cloud)
<1>1. PICK p \in {cloud, cached} : answer = [read |-> Seen("gateway", p), old |-> p # cloud]
  BY DEF FromGateway
<1>2. answer.read = Seen("gateway", p)
  BY <1>1
<1>3. answer.old = (p # cloud)
  BY <1>1
<1> QED
  BY <1>2, <1>3

\* An answer is a record of two fields.
LEMMA AnswerTyped ==
    ASSUME Typed, NEW answer \in PullCurrent
    PROVE  answer.read \in Answer /\ answer.old \in BOOLEAN
BY AnswerShape, SeenFields DEF Typed, Endpoints

\* What an answer is worth, while the run is undisturbed.
LEMMA AnswerTrue ==
    ASSUME Typed, NEW answer \in PullCurrent, misled' = (misled \/ answer.old),
           UNCHANGED service, Reliable'
    PROVE  /\ Reliable
           /\ answer.read.offset = cloud.offset
           /\ "uid" \in gives["gateway"] /\ "uid" \in gives["web"] => answer.read.uid = cloud.uid
<1>1. /\ ~misled' /\ moves = 0 /\ \A e \in {"gateway", "web"} : "offset" \in gives[e]
  BY DEF Reliable, service
<1>2. PICK e \in {"gateway", "web"}, p \in {cloud, cached} :
        answer.read = Seen(e, p) /\ answer.old = (p # cloud)
  BY AnswerShape
<1>3. p = cloud /\ ~misled
  BY <1>1, <1>2, AnswerTyped DEF Typed
<1>4. Seen(e, cloud).offset = cloud.offset
  BY <1>1, SeenFields DEF Typed, Endpoints
<1>5. "uid" \in gives["gateway"] /\ "uid" \in gives["web"] => Seen(e, cloud).uid = cloud.uid
  BY SeenFields DEF Typed, Endpoints
<1> QED
  BY <1>1, <1>2, <1>3, <1>4, <1>5 DEF Reliable

\* gateway_position is the position the run found (lines 530-537).
LEMMA PullGatewayKeeps ==
    ASSUME ProbeInv, PullGateway
    PROVE  ProbeInv'
<1>1. /\ stage = "gateway" /\ UNCHANGED <<roundTrip, target, renewed, service>>
      /\ UNCHANGED <<origin, lastTaken, accepted>>
  BY DEF PullGateway
<1>2. CASE PullFails
  <2>1. PICK o \in {"invalid", "crashed"} : Raise(o) /\ UNCHANGED <<tries, misled, home, probeSeen>>
    BY <1>2 DEF PullFails
  <2> QED
    BY <1>1, <2>1, RaiseKeeps DEF ProbeInv, Typed, observer
<1>3. ASSUME NEW answer \in FromGateway,
             home' = answer.read, misled' = (misled \/ answer.old), Go("web"), UNCHANGED probeSeen
      PROVE  ProbeInv'
  <2>1. answer \in PullCurrent
    BY DEF PullCurrent
  <2>2. Typed'
    BY <1>1, <1>3, <2>1, AnswerTyped DEF ProbeInv, Typed, Go, Stages, service, Position, Answer
  <2>3. ASSUME Reliable' PROVE PositionKnown' /\ MemoryTrue' /\ VerdictTrue'
    <3>0. PICK p \in {cloud, cached} : answer.read = Seen("gateway", p) /\ answer.old = (p # cloud)
      BY GatewayShape
    <3>1. Reliable /\ answer.read = Seen("gateway", cloud)
      BY <1>1, <1>3, <2>1, <2>3, <3>0, AnswerTrue DEF ProbeInv, Reliable
    <3>2. cloud = origin
      BY <1>1, <3>1 DEF ProbeInv, PositionKnown
    <3>3. home' = Seen("gateway", origin)'
      BY <1>1, <1>3, <3>1, <3>2 DEF Seen, service
    <3> QED
      BY <1>1, <1>3, <3>1, <3>2, <3>3
      DEF ProbeInv, Typed, PositionKnown, MemoryTrue, VerdictTrue, Go, service, ProbeOf
  <2> QED
    BY <2>2, <2>3 DEF ProbeInv
<1> QED
  BY <1>1, <1>2, <1>3 DEF PullGateway

\* The cookie endpoint's answer is printed only (lines 539-547).
LEMMA PullWebKeeps ==
    ASSUME ProbeInv, PullWeb
    PROVE  ProbeInv'
<1>1. /\ stage = "web"
      /\ UNCHANGED <<roundTrip, home, target, renewed, probeSeen, service, observer>>
  BY DEF PullWeb
<1>2. CASE Raise("crashed") /\ UNCHANGED tries
  BY <1>1, <1>2, RaiseKeeps DEF ProbeInv, Typed
<1>3. CASE Go("context")
  <2>1. stage' = "context" /\ tries' = 0 /\ pending' = pending /\ outcome' = outcome
    BY <1>3 DEF Go
  <2>2. ~renewed /\ ~renewed' /\ outcome' = "open" /\ (Reliable => cloud = origin)
    BY <1>1, <2>1 DEF ProbeInv, Typed, PositionKnown
  <2>3. Typed'
    BY <1>1, <2>1, <2>2 DEF ProbeInv, Typed, Stages, service, observer, Answer, Position
  <2>4. Reliable' <=> Reliable
    BY <1>1 DEF Reliable, service, observer
  <2> QED
    BY <1>1, <2>1, <2>2, <2>3, <2>4
    DEF ProbeInv, PositionKnown, MemoryTrue, VerdictTrue, Seen, service, observer, ProbeOf
<1> QED
  BY <1>2, <1>3 DEF PullWeb

\* upload_position is the position the run found (lines 307-328, 549-568).
LEMMA LoadReaderStateKeeps ==
    ASSUME ProbeInv, LoadReaderState
    PROVE  ProbeInv'
<1> DEFINE found == choose_upload_position(home, Seen("page", cloud))
<1>1. /\ stage = "context"
      /\ UNCHANGED <<roundTrip, home, renewed, probeSeen, service, observer>>
  BY DEF LoadReaderState
<1>2. CASE tries = 0 /\ tries' = 1 /\ UNCHANGED <<stage, target, pending, outcome>>
  BY <1>1, <1>2, SilentKeeps DEF ProbeInv, Typed, MemoryTrue, PositionKnown, service, observer, Reliable
<1>3. CASE \E o \in {"invalid", "crashed"} : Raise(o) /\ UNCHANGED <<tries, target>>
  BY <1>1, <1>3, RaiseKeeps DEF ProbeInv, Typed
<1>4. ASSUME NEW o \in {"readonly", "invalid"}, Finish(o), UNCHANGED target
      PROVE  ProbeInv'
  BY <1>1, <1>4, SilentKeeps DEF ProbeInv, Typed, Stages, Ended, Finish
<1>5. ASSUME Reliable PROVE cloud # origin => FALSE
  BY <1>1, <1>5 DEF ProbeInv, PositionKnown
<1>6. CASE renewed /\ Go("enter") /\ UNCHANGED target
  <2>1. stage' = "enter" /\ tries' = 0 /\ pending' = pending /\ outcome' = outcome
    BY <1>6 DEF Go
  <2>2. Typed'
    BY <1>1, <1>6, <2>1 DEF ProbeInv, Typed, Stages, service, observer
  <2> QED
    BY <1>1, <1>5, <1>6, <2>1, <2>2
    DEF ProbeInv, PositionKnown, MemoryTrue, VerdictTrue, Seen, Reliable, service, observer, ProbeOf
<1>7. CASE ~renewed /\ found.uid # NoValue /\ target' = found /\ Go("enter")
  <2>1. stage' = "enter" /\ tries' = 0 /\ pending' = pending /\ outcome' = outcome
    BY <1>7 DEF Go
  <2>2. /\ found.uid = IF home.uid # NoValue THEN home.uid ELSE Seen("page", cloud).uid
        /\ found.offset = LET v == IF home.offset # NoValue THEN home.offset
                                   ELSE Seen("page", cloud).offset
                          IN  IF v = NoValue THEN 0 ELSE v
        /\ found = [uid |-> found.uid, offset |-> found.offset]
    BY DEF choose_upload_position
  <2>3. home \in Answer /\ Seen("page", cloud) \in Answer
    BY SeenFields DEF ProbeInv, Typed, Endpoints
  <2>4. found \in Position
    <3> HIDE DEF found
    <3>1. found.uid \in Uids
      BY <1>7, <2>2, <2>3 DEF Answer
    <3>2. found.offset \in Nat
      BY <2>2, <2>3 DEF Answer
    <3> QED
      BY <2>2, <3>1, <3>2 DEF Position
  <2>5. ASSUME Reliable PROVE found = origin
    <3>1. cloud = origin /\ home = Seen("gateway", origin) /\ origin \in Position
      BY <1>1, <1>5, <2>5 DEF ProbeInv, MemoryTrue, Typed
    <3>2. home.offset = origin.offset /\ home.uid \in {origin.uid, NoValue}
      BY <2>5, <3>1, SeenFields DEF Endpoints, Reliable
    <3>3. Seen("page", cloud).uid \in {origin.uid, NoValue}
      BY <3>1, SeenFields DEF Endpoints
    <3>4. origin.offset # NoValue /\ origin = [uid |-> origin.uid, offset |-> origin.offset]
      BY <3>1, Distance DEF Position
    <3> HIDE DEF found
    <3>5. found.uid = origin.uid
      BY <1>7, <2>2, <3>2, <3>3
    <3>6. found.offset = origin.offset
      BY <2>2, <3>2, <3>4
    <3> QED
      BY <2>2, <3>4, <3>5, <3>6
  <2>6. Typed'
    BY <1>1, <1>7, <2>1, <2>4 DEF ProbeInv, Typed, Stages, service, observer, Answer, Position
  <2> HIDE DEF found
  <2> QED
    BY <1>1, <1>5, <1>7, <2>1, <2>5, <2>6
    DEF ProbeInv, PositionKnown, MemoryTrue, VerdictTrue, Seen, Reliable, service, observer, ProbeOf
<1> QED
  BY <1>1, <1>2, <1>3, <1>4, <1>6, <1>7 DEF LoadReaderState

\* What one upload leaves behind, whatever becomes of its answer (lines 583-621).
LEMMA PostKeeps ==
    ASSUME ProbeInv, stage \in {"enter", "upload", "probe", "restore"},
           NEW p \in Position, NEW taken \in BOOLEAN, Post(p, taken),
           UNCHANGED <<roundTrip, home, target, renewed, probeSeen>>,
           stage' \in {"upload", "renew", "probe", "observe", "restore", "confirm", "final", "done"},
           tries' \in Nat, pending' \in {"open", "invalid", "crashed", "interrupted"},
           outcome' = IF stage' = "done" THEN "crashed" ELSE "open",
           stage' = "final" => taken /\ stage # "enter",
           Reliable => p = origin \/ (p = ProbeOf(origin) /\ stage = "probe"),
           stage \in {"probe", "restore"} => stage' \in {"observe", "restore", "confirm", "done"}
    PROVE  ProbeInv'
<1>1. /\ UNCHANGED <<gives, moves, origin, misled>>
      /\ cloud' = IF taken THEN p ELSE cloud
      /\ cached' \in {cached, cloud}
      /\ accepted' = (accepted \/ (taken /\ stage # "enter"))
  BY DEF Post
<1>2. Typed'
  BY <1>1 DEF ProbeInv, Typed, Stages, Ended
<1>3. Reliable' <=> Reliable
  BY <1>1 DEF Reliable
<1>4. ASSUME Reliable PROVE PositionKnown' /\ MemoryTrue' /\ VerdictTrue'
  <2>1. stage \in {"enter", "upload"} => cloud = origin /\ cloud' = origin
    BY <1>1, <1>4 DEF ProbeInv, PositionKnown, ProbeOf
  <2>2. PositionKnown'
    BY <1>1, <1>4, <2>1 DEF ProbeInv, Typed, PositionKnown, ProbeOf
  <2>3. MemoryTrue'
    BY <1>1, <1>4 DEF ProbeInv, Typed, MemoryTrue, Seen
  <2>4. VerdictTrue'
    BY <1>1, <1>4 DEF ProbeInv, Typed, VerdictTrue
  <2> QED
    BY <2>2, <2>3, <2>4
<1> QED
  BY <1>2, <1>3, <1>4 DEF ProbeInv

\* The four uploads: upload_position three times, the probe once.
LEMMA UploadsKeep ==
    ASSUME ProbeInv, EnterRead \/ UploadPosition \/ UploadProbe \/ RestorePosition
    PROVE  ProbeInv'
<1>1. stage \in {"enter", "upload", "probe", "restore"}
      /\ UNCHANGED <<roundTrip, home, target, renewed, probeSeen>>
  BY DEF EnterRead, UploadPosition, UploadProbe, RestorePosition
<1>2. target \in Position /\ (Reliable => target = origin)
  BY <1>1 DEF ProbeInv, Typed, MemoryTrue
<1>3. ASSUME NEW p \in Position, NEW acknowledged, NEW otherwise,
             Upload(p, acknowledged, otherwise),
             Reliable => p = origin \/ (p = ProbeOf(origin) /\ stage = "probe"),
             {acknowledged, otherwise} \subseteq
                IF stage \in {"probe", "restore"} THEN {"observe", "confirm"}
                ELSE {"upload", "renew", "probe", "final"},
             acknowledged = "final" => stage # "enter", otherwise # "final"
      PROVE  ProbeInv'
  <2>1. PICK taken \in BOOLEAN :
          /\ Post(p, taken)
          /\ \/ taken /\ Go(acknowledged)
             \/ Go(otherwise)
             \/ Raise("crashed") /\ UNCHANGED tries
    BY <1>3 DEF Upload
  <2>2. CASE taken /\ Go(acknowledged)
    <3>1. stage' = acknowledged /\ tries' = 0 /\ pending' = pending /\ outcome' = "open"
      BY <1>1, <2>2 DEF Go, ProbeInv, Typed
    <3> QED
      BY <1>1, <1>3, <2>1, <2>2, <3>1, PostKeeps DEF ProbeInv, Typed
  <2>3. CASE Go(otherwise)
    <3>1. stage' = otherwise /\ tries' = 0 /\ pending' = pending /\ outcome' = "open"
      BY <1>1, <2>3 DEF Go, ProbeInv, Typed
    <3> QED
      BY <1>1, <1>3, <2>1, <3>1, PostKeeps DEF ProbeInv, Typed
  <2>4. CASE Raise("crashed") /\ UNCHANGED tries
    <3>1. IF stage = "probe" THEN stage' = "restore" /\ pending' = "crashed" /\ outcome' = "open"
          ELSE stage' = "done" /\ pending' = pending /\ outcome' = "crashed"
      BY <1>1, <2>4 DEF Raise, ProbeInv, Typed
    <3> QED
      BY <1>1, <1>3, <2>1, <2>4, <3>1, PostKeeps DEF ProbeInv, Typed
  <2> QED
    BY <2>1, <2>2, <2>3, <2>4
<1>4. CASE EnterRead
  BY <1>2, <1>3, <1>4 DEF EnterRead
<1>5. CASE UploadPosition
  BY <1>2, <1>3, <1>5 DEF UploadPosition
<1>6. CASE UploadProbe
  <2>1. [target EXCEPT !.offset = ProbeOffset] = ProbeOf(target)
    BY <1>2 DEF ProbeOf, ProbeOffset, Position
  <2>2. ProbeOf(target) \in Position
    BY <1>2, ProbeElsewhere
  <2> QED
    BY <1>2, <1>3, <1>6, <2>1, <2>2 DEF UploadProbe
<1>7. CASE RestorePosition
  BY <1>2, <1>3, <1>7 DEF RestorePosition
<1> QED
  BY <1>4, <1>5, <1>6, <1>7

\* After its own renewal main() takes the context again, with the position it holds.
LEMMA RenewCookieKeeps ==
    ASSUME ProbeInv, RenewCookie
    PROVE  ProbeInv'
<1>1. stage = "renew" /\ UNCHANGED <<roundTrip, home, target, probeSeen, service, observer>>
  BY DEF RenewCookie
<1>2. target \in Position /\ (Reliable => target = origin /\ cloud = origin)
  BY <1>1 DEF ProbeInv, Typed, MemoryTrue, PositionKnown
<1>3. ASSUME NEW s \in {"context", "probe"}, Go(s), renewed' = (renewed \/ s = "context")
      PROVE  ProbeInv'
  <2>1. stage' = s /\ tries' = 0 /\ pending' = pending /\ outcome' = "open"
    BY <1>1, <1>3 DEF Go, ProbeInv, Typed
  <2> QED
    BY <1>1, <1>2, <1>3, <2>1, SilentKeeps DEF ProbeInv, Typed, Stages
<1>4. CASE Raise("crashed") /\ UNCHANGED <<tries, renewed>>
  BY <1>1, <1>4, RaiseKeeps DEF ProbeInv, Typed
<1> QED
  BY <1>3, <1>4 DEF RenewCookie, ProbeInv, Typed

\* What an undisturbed run learns from one answer, in each of its three waits.
LEMMA MatchTells ==
    ASSUME ProbeInv, stage \in {"observe", "confirm", "final"},
           NEW answer \in PullCurrent, misled' = (misled \/ answer.old),
           UNCHANGED <<service, origin>>, Reliable'
    PROVE  /\ Reliable
           /\ stage = "observe" /\ positions_match(Expected, answer.read) => accepted
           /\ stage # "observe" /\ positions_match(Expected, answer.read) => cloud = origin
           /\ /\ stage # "observe" /\ "uid" \in gives["gateway"] /\ "uid" \in gives["web"]
              /\ ~positions_match(Expected, answer.read)
              => cloud # origin
<1>1. /\ Reliable /\ answer.read.offset = cloud.offset
      /\ "uid" \in gives["gateway"] /\ "uid" \in gives["web"] => answer.read.uid = cloud.uid
  BY AnswerTrue DEF ProbeInv
<1>2. /\ cloud \in Position /\ origin \in Position /\ home = Seen("gateway", origin)
      /\ target = origin /\ cloud \in {origin, ProbeOf(origin)} /\ (cloud # origin => accepted)
  BY <1>1 DEF ProbeInv, Typed, MemoryTrue, PositionKnown
<1>3. /\ home \in Answer /\ home.offset = origin.offset
      /\ "uid" \in gives["gateway"] => home.uid = origin.uid
  BY <1>1, <1>2, SeenFields DEF Endpoints, Reliable
<1>4. OffsetOf(answer.read) = cloud.offset
  BY <1>1, <1>2, Distance DEF OffsetOf, Position
<1>5. CASE stage = "observe"
  <2>1. ProbeOffset = ProbeOf(origin).offset
    BY <1>2 DEF ProbeOffset, ProbeOf, Position
  <2>2. Expected.offset = ProbeOffset
    BY <1>3, <1>5 DEF Expected, Answer
  <2>3. OffsetOf(Expected) = ProbeOf(origin).offset
    BY <1>2, <2>1, <2>2, ProbeElsewhere, Distance DEF OffsetOf, Position
  <2>4. positions_match(Expected, answer.read) => cloud # origin
    BY <1>2, <1>4, <2>3, ProbeElsewhere DEF positions_match
  <2> QED
    BY <1>1, <1>2, <1>5, <2>4
<1>6. CASE stage # "observe"
  <2>1. Expected = home
    BY <1>6 DEF Expected
  <2>2. OffsetOf(Expected) = origin.offset
    BY <1>2, <1>3, <2>1, Distance DEF OffsetOf, Position
  <2>3. positions_match(Expected, answer.read) => cloud = origin
    <3>1. ProbeOf(origin).offset # origin.offset
      BY <1>2, ProbeElsewhere
    <3>2. positions_match(Expected, answer.read) => cloud.offset = origin.offset
      BY <1>4, <2>2 DEF positions_match
    <3> QED
      BY <1>2, <3>1, <3>2
  <2>4. "uid" \in gives["gateway"] /\ "uid" \in gives["web"] /\ cloud = origin
          => positions_match(Expected, answer.read)
    BY <1>1, <1>3, <1>4, <2>1, <2>2 DEF positions_match
  <2> QED
    BY <1>1, <1>6, <2>3, <2>4
<1> QED
  BY <1>5, <1>6

\* The three waits: what the run says of the position is so (lines 575-593, 669-712).
LEMMA WaitForPositionKeeps ==
    ASSUME ProbeInv, WaitForPosition
    PROVE  ProbeInv'
<1>1. /\ stage \in {"observe", "confirm", "final"}
      /\ UNCHANGED <<roundTrip, target, renewed, service, origin, lastTaken, accepted>>
  BY DEF WaitForPosition
<1>2. CASE PullFails
  <2>1. PICK o \in {"invalid", "crashed"} : Raise(o) /\ UNCHANGED <<tries, misled, home, probeSeen>>
    BY <1>2 DEF PullFails
  <2> QED
    BY <1>1, <2>1, RaiseKeeps DEF ProbeInv, Typed, observer
<1>3. ASSUME NEW answer \in PullCurrent, misled' = (misled \/ answer.old), UNCHANGED home,
             IF positions_match(Expected, answer.read) THEN AfterWait(TRUE)
             ELSE IF tries = 3 THEN AfterWait(FALSE)
             ELSE tries' = tries + 1 /\ UNCHANGED <<stage, pending, outcome, probeSeen>>
      PROVE  ProbeInv'
  <2> DEFINE match == positions_match(Expected, answer.read)
  <2>1. match \in BOOLEAN
    BY DEF positions_match
  <2>2. /\ Reliable' => Reliable
        /\ Reliable' /\ stage = "observe" /\ match => accepted
        /\ Reliable' /\ stage # "observe" /\ match => cloud = origin
        /\ (Reliable' /\ stage # "observe" /\ "uid" \in gives["gateway"] /\ "uid" \in gives["web"]
             /\ ~match) => cloud # origin
    BY <1>1, <1>3, MatchTells
  <2>3. /\ stage' \in {"observe", "restore", "confirm", "final", "done"} /\ tries' \in Nat
        /\ probeSeen' \in BOOLEAN /\ pending' = pending
        /\ IF stage' = "done" THEN outcome' \in Ended ELSE outcome' = "open"
        /\ probeSeen' => probeSeen \/ (stage = "observe" /\ match)
        /\ stage' = "final" => stage = "final" \/ probeSeen
        /\ outcome' = "ok" => stage = "final" /\ match
        /\ outcome' \in {"unrestored", "differs"} => stage # "observe" /\ ~match
    <3>1. CASE match \/ tries = 3
      <4>1. AfterWait(match)
        BY <1>3, <2>1, <3>1
      <4> HIDE DEF match
      <4>2. CASE stage = "observe"
        BY <2>1, <4>1, <4>2 DEF AfterWait, Go, ProbeInv, Typed
      <4>3. CASE stage = "confirm"
        BY <2>1, <4>1, <4>3 DEF AfterWait, Go, Finish, ProbeInv, Typed, Ended
      <4>4. CASE stage = "final"
        BY <2>1, <4>1, <4>4 DEF AfterWait, Go, Finish, ProbeInv, Typed, Ended
      <4> QED
        BY <1>1, <4>2, <4>3, <4>4
    <3>2. CASE ~match /\ tries # 3
      BY <1>1, <1>3, <3>2 DEF ProbeInv, Typed
    <3> QED
      BY <3>1, <3>2
  <2> HIDE DEF match
  <2>4. Typed'
    <3>1. misled' \in BOOLEAN
      BY <1>3, AnswerTyped DEF ProbeInv, Typed
    <3> QED
      BY <1>1, <1>3, <2>3, <3>1 DEF ProbeInv, Typed, Stages, service
  <2>5. ASSUME Reliable' PROVE PositionKnown' /\ MemoryTrue' /\ VerdictTrue'
    <3>1. PositionKnown /\ MemoryTrue /\ VerdictTrue
      BY <2>2, <2>5 DEF ProbeInv
    <3>2. PositionKnown'
      BY <1>1, <2>3, <3>1 DEF PositionKnown, ProbeOf, service
    <3>3. MemoryTrue'
      BY <1>1, <1>3, <2>3, <3>1 DEF MemoryTrue, Seen, service
    <3>4. VerdictTrue'
      <4>1. outcome' = "ok" => accepted /\ cloud = origin
        BY <1>1, <2>2, <2>3, <2>5, <3>1 DEF VerdictTrue
      <4>2. probeSeen' \/ stage' = "final" => accepted
        BY <1>1, <2>2, <2>3, <2>5, <3>1 DEF VerdictTrue
      <4>3. outcome' \in {"unrestored", "differs"} /\ "uid" \in gives["gateway"]
              /\ "uid" \in gives["web"] => cloud # origin
        BY <1>1, <2>2, <2>3, <2>5
      <4> QED
        BY <1>1, <4>1, <4>2, <4>3 DEF VerdictTrue, service
    <3> QED
      BY <3>2, <3>3, <3>4
  <2> QED
    BY <2>4, <2>5 DEF ProbeInv
<1> QED
  BY <1>2, <1>3 DEF WaitForPosition

\* A Ctrl-C and the death of the process say nothing of the position.
LEMMA StoppedKeeps ==
    ASSUME ProbeInv, Interrupt \/ Kill
    PROVE  ProbeInv'
<1>1. CASE Interrupt
  BY <1>1, RaiseKeeps DEF Interrupt, ProbeInv, Typed
<1>2. CASE Kill
  BY <1>2, SilentKeeps DEF Kill, Finish, ProbeInv, Typed, Stages, Ended
<1> QED
  BY <1>1, <1>2

\* Once another device has moved, a run is not undisturbed again.
LEMMA OtherDeviceKeeps ==
    ASSUME ProbeInv, OtherDevice
    PROVE  ProbeInv' /\ ~Reliable'
<1>1. moves' # 0 /\ moves' \in Nat
  BY DEF OtherDevice, ProbeInv, Typed
<1>2. MaxOffset + ProbeDistance \in Nat
  BY ProbeAssumption
<1>3. cloud' \in Position
  BY <1>2 DEF OtherDevice, Offsets, Position
<1>4. Typed'
  BY <1>1, <1>3 DEF OtherDevice, local, observer, ProbeInv, Typed
<1> QED
  BY <1>1, <1>4 DEF ProbeInv, Reliable

\* A run begins knowing nothing, and nothing has moved.
LEMMA ProbeInit ==
    ASSUME Init
    PROVE  ProbeInv
<1>1. 0..MaxOffset \subseteq Nat
  OBVIOUS
<1>2. cloud \in Position
  BY <1>1 DEF Init, Position
<1>3. cached \in Position
  BY <1>1, <1>2 DEF Init, Position
<1>4. gives \in [Endpoints -> SUBSET Fields]
  BY ProbeAssumption DEF Init, Fields
<1>5. [uid |-> NoValue, offset |-> NoValue] \in Answer
  BY DEF Answer
<1> QED
  BY <1>2, <1>3, <1>4, <1>5 DEF Init, ProbeInv, Typed, PositionKnown, MemoryTrue, VerdictTrue, Stages

\* What a run knows of the position holds in every reachable state.
THEOREM ProbeInvariance == Spec => []ProbeInv
<1>1. ASSUME ProbeInv, [Next]_vars PROVE ProbeInv'
  <2>1. CASE UNCHANGED vars
    BY <1>1, <2>1 DEF vars, local, service, observer, ProbeInv, Typed, Reliable, PositionKnown,
       ProbeOf, MemoryTrue, Seen, VerdictTrue
  <2>2. CASE Step
    BY <1>1, <2>2, PullGatewayKeeps, PullWebKeeps, LoadReaderStateKeeps, UploadsKeep,
       RenewCookieKeeps, WaitForPositionKeeps DEF Step
  <2>3. CASE Interrupt \/ Kill \/ OtherDevice
    BY <1>1, <2>3, StoppedKeeps, OtherDeviceKeeps
  <2> QED
    BY <1>1, <2>1, <2>2, <2>3 DEF Next
<1> QED
  BY <1>1, ProbeInit, PTL DEF Spec

\* AlarmMeansMoved (lines 686-712): an undisturbed run with the chapter in its answers
\* reports a difference only when the position really is another than it was.
THEOREM AlarmTrue == Spec => []AlarmMeansMoved
<1>1. ProbeInv => AlarmMeansMoved
  BY DEF ProbeInv, VerdictTrue, AlarmMeansMoved
<1> QED
  BY <1>1, ProbeInvariance, PTL

--------------------------------------------------------------------------------

\* The probe is near, and so is the position itself.
LEMMA ProbeNear ==
    ASSUME NEW p \in Position
    PROVE  p \in Nearby(p) /\ ProbeOf(p) \in Nearby(p)
<1> DEFINE near == {p.offset, p.offset + ProbeDistance, p.offset - ProbeDistance} \intersect Nat
<1>1. p = [p EXCEPT !.offset = p.offset] /\ p.offset \in near
  BY DEF Position
<1>2. \E o \in near : ProbeOf(p) = [p EXCEPT !.offset = o]
  <2>1. CASE p.offset >= ProbeDistance
    <3>1. p.offset - ProbeDistance \in near
      BY <2>1, Distance DEF Position
    <3> QED
      BY <2>1, <3>1 DEF ProbeOf
  <2>2. CASE ~(p.offset >= ProbeDistance)
    <3>1. p.offset + ProbeDistance \in near
      BY Distance DEF Position
    <3> QED
      BY <2>2, <3>1 DEF ProbeOf
  <2> QED
    BY <2>1, <2>2
<1> QED
  BY <1>1, <1>2 DEF Nearby

\* The verdict of a run that goes on, and of one that ended.
LEMMA VerdictOf ==
    ASSUME ProbeInv
    PROVE  /\ stage # "done" => Verdict = "open"
           /\ Verdict \in {"open", "passed", "failed"}
           /\ Verdict = "passed" <=> outcome = "ok"
BY DEF ProbeInv, Typed, Verdict, Ended

\* A step that leaves the service alone is a stutter, a disturbance the run notices
\* nothing of, or the end of the run.
LEMMA QuietStep ==
    ASSUME ProbeInv, ProbeInv', stage # "done", misled => misled',
           UNCHANGED <<gives, moves, cloud, origin, accepted>>
    PROVE  [Promise!Next]_(Promise!promise)
<1>1. (Reliable' => Reliable) /\ Reliable \in BOOLEAN /\ Reliable' \in BOOLEAN
  BY DEF Reliable, ProbeInv, Typed
<1>2. Verdict = "open"
  BY VerdictOf
<1>3. Verdict' \in {"open", "passed", "failed"} /\ (Verdict' = "passed" <=> outcome' = "ok")
  <2>1. outcome' \in Ended \union {"open"}
    BY DEF ProbeInv, Typed
  <2> QED
    BY <2>1 DEF Verdict, Ended
<1>4. cloud' \in Position
  BY DEF ProbeInv, Typed
<1>5. CASE Verdict' = "open" /\ Reliable' = Reliable
  BY <1>2, <1>5 DEF Promise!promise
<1>6. CASE Verdict' = "open" /\ Reliable' # Reliable
  <2>1. ~Reliable'
    BY <1>1, <1>6
  <2>2. Promise!Disturb
    BY <1>2, <1>4, <1>6, <2>1 DEF Promise!Disturb
  <2> QED
    BY <2>2 DEF Promise!Next
<1>7. CASE Verdict' = "passed"
  <2>1. Reliable' => accepted /\ cloud = origin
    BY <1>3, <1>7 DEF ProbeInv, VerdictTrue
  <2>2. Promise!Pass
    BY <1>1, <1>2, <1>7, <2>1 DEF Promise!Pass
  <2> QED
    BY <2>2 DEF Promise!Next
<1>8. CASE Verdict' = "failed"
  <2>1. Promise!Fail
    BY <1>1, <1>2, <1>8 DEF Promise!Fail
  <2> QED
    BY <2>1 DEF Promise!Next
<1> QED
  BY <1>3, <1>5, <1>6, <1>7, <1>8

\* An upload is a write, to a place nearby as long as nothing disturbed the run.
LEMMA UploadStep ==
    ASSUME ProbeInv, ProbeInv', EnterRead \/ UploadPosition \/ UploadProbe \/ RestorePosition
    PROVE  Promise!Write
<1>1. /\ UNCHANGED <<gives, moves, origin, misled>> /\ accepted' \in {accepted, TRUE}
  BY DEF EnterRead, UploadPosition, UploadProbe, RestorePosition, Upload, Post, ProbeInv, Typed
<1>2. stage # "done" /\ outcome' # "ok"
  BY DEF EnterRead, UploadPosition, UploadProbe, RestorePosition, Upload, Go, Raise, ProbeInv, Typed
<1>3. Reliable' = Reliable
  BY <1>1 DEF Reliable
<1>4. Verdict = "open"
  BY <1>2, VerdictOf
<1>5. Verdict' \in {"open", "failed"}
  BY <1>2 DEF Verdict
<1>6. Reliable => cloud' \in Nearby(origin)
  <2>1. origin \in Position
    BY DEF ProbeInv, Typed
  <2>2. Reliable => cloud' \in {origin, ProbeOf(origin)}
    BY <1>1, <1>3 DEF ProbeInv, PositionKnown, ProbeOf
  <2> QED
    BY <2>1, <2>2, ProbeNear
<1>7. cloud' \in Position
  BY DEF ProbeInv, Typed
<1> QED
  BY <1>1, <1>3, <1>4, <1>5, <1>6, <1>7 DEF Promise!Write

\* Every step of a run is one that ReversibleWrite allows.
LEMMA StepImplements ==
    ASSUME ProbeInv, ProbeInv', [Next]_vars
    PROVE  [Promise!Next]_(Promise!promise)
<1>1. CASE UNCHANGED vars
  BY <1>1 DEF vars, local, service, observer, Verdict, Reliable, Promise!promise
<1>2. CASE PullGateway \/ PullWeb \/ LoadReaderState \/ RenewCookie \/ WaitForPosition
  <2>1. stage # "done"
    BY <1>2 DEF PullGateway, PullWeb, LoadReaderState, RenewCookie, WaitForPosition
  <2>2. UNCHANGED <<gives, moves, cloud, origin, accepted>>
    BY <1>2 DEF PullGateway, PullWeb, LoadReaderState, RenewCookie, WaitForPosition, service, observer
  <2>3. misled => misled'
    <3>1. CASE PullGateway \/ WaitForPosition
      BY <3>1 DEF PullGateway, WaitForPosition, PullFails
    <3>2. CASE PullWeb \/ LoadReaderState \/ RenewCookie
      BY <3>2 DEF PullWeb, LoadReaderState, RenewCookie, observer
    <3> QED
      BY <1>2, <3>1, <3>2
  <2> QED
    BY <2>1, <2>2, <2>3, QuietStep
<1>3. CASE Interrupt \/ Kill
  BY <1>3, QuietStep DEF Interrupt, Kill, service, observer
<1>4. CASE EnterRead \/ UploadPosition \/ UploadProbe \/ RestorePosition
  BY <1>4, UploadStep DEF Promise!Next
<1>5. CASE OtherDevice
  <2>1. /\ stage # "done" /\ UNCHANGED <<origin, accepted, outcome>> /\ ~Reliable'
    BY <1>5, OtherDeviceKeeps DEF OtherDevice, local, observer
  <2>2. Verdict = "open" /\ Verdict' = "open"
    BY <2>1, VerdictOf DEF Verdict
  <2>3. cloud' \in Position
    BY DEF ProbeInv, Typed
  <2>4. Promise!Disturb
    BY <2>1, <2>2, <2>3 DEF Promise!Disturb
  <2> QED
    BY <2>4 DEF Promise!Next
<1> QED
  BY <1>1, <1>2, <1>3, <1>4, <1>5 DEF Next, Step

\* A run that begins promises nothing yet.
LEMMA InitImplements ==
    ASSUME Init
    PROVE  Promise!Init
<1>1. cloud \in Position
  BY ProbeInit DEF ProbeInv, Typed
<1> QED
  BY <1>1 DEF Init, Verdict, Reliable, Promise!Init

\* KeepsPromise: the script, with whatever answers, failures and other devices, implements
\* ReversibleWrite (the PASSED of line 712, the finally block of lines 678-685).
THEOREM Implements == Spec => KeepsPromise
<1>1. Init => Promise!Init
  BY InitImplements
<1>2. ProbeInv /\ ProbeInv' /\ [Next]_vars => [Promise!Next]_(Promise!promise)
  BY StepImplements
<1> QED
  BY <1>1, <1>2, ProbeInvariance, PTL DEF Spec, KeepsPromise, Promise!Spec

================================================================================
