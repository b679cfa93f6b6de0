---------------------------- MODULE DownloaderProofs ----------------------------
(***************************************************************************)
(* For any number of downloads and chapters: the guard is held exactly for *)
(* the work, no chapter is lost, on_complete is called once, and a         *)
(* cancelled download does nothing more.                                   *)
(*                                                                         *)
(* A step changes one download, and takes the shared guard, gives it back  *)
(* or leaves it alone with it.  So it is enough that each download is      *)
(* right by itself (JobRight), that the counters of the guard are right by *)
(* themselves (StandbyRight), and that the shared count is the number of   *)
(* the downloads that hold the guard.                                      *)
(***************************************************************************)
EXTENDS Downloader, FiniteSetTheorems, TLAPS

\* suspend_count is one for the work under way, unless the power property refused to
\* stay awake for it, and one for a release that it refused.
StandbyRight(s) ==
    /\ s \in [ref : Nat, count : Nat, blocked : BOOLEAN, disobeyed : SUBSET {"prevent", "release"}]
    /\ "prevent" \in s.disobeyed => s.ref > 0 /\ "release" \notin s.disobeyed
    /\ s.count = (IF s.ref > 0 /\ "prevent" \notin s.disobeyed THEN 1 ELSE 0)
                 + (IF "release" \in s.disobeyed THEN 1 ELSE 0)
    /\ s.blocked <=> s.count > 0

\* The index has passed the list, and something was taken.
WorkDone(k) == k.done # {} /\ k.index > k.total

\* The chapters before the index were taken or failed, the others were not.
Listed(k) ==
    /\ k.first + k.total - 1 <= Chapters
    /\ k.index <= k.total + 1
    /\ k.done \intersect k.failed = {}
    /\ k.done \union k.failed = k.first..k.first + k.index - 2

SameList(k, m) ==
    /\ k.first = m.first /\ k.total = m.total /\ k.index = m.index
    /\ k.done = m.done /\ k.failed = m.failed

JobRight(k) ==
    /\ k \in Job
    /\ k.next \in {"step", "batch"} => k.guard
    /\ k.guard => k.next \in {"step", "batch", "stranded"}
    /\ Listed(k)
    /\ k.next = "batch" => k.index <= k.total
    /\ k.next \in {"unasked", "start"} => k.index = 1 /\ k.done = {} /\ k.failed = {}
    /\ k.next # "ended" => k.calls = 0 /\ k.outcome = "none" /\ ~k.saved
    /\ k.calls \in {0, 1}
    /\ k.saved => k.index > k.total
    /\ k.outcome = "ok" => k.saved
    /\ k.next = "ended" /\ k.calls = 0 => k.cancelled \/ WorkDone(k)
    /\ k.next \in {"ended", "stranded"} /\ ~k.told => WorkDone(k)

\* The inductive invariant.
Right ==
    /\ job \in [Jobs -> Job]
    /\ \A j \in Jobs : JobRight(job[j])
    /\ StandbyRight(standby)
    /\ IsFiniteSet(Holders)
    /\ standby.ref = Cardinality(Holders)

\* _beginStandby and Device:prevent_suspend together.
LEMMA Begins ==
    ASSUME NEW s, StandbyRight(s), NEW t \in BeginStandby(s)
    PROVE  StandbyRight(t) /\ t.ref = s.ref + 1
<1> DEFINE u == [s EXCEPT !.ref = @ + 1]
<1>1. /\ u \in [ref : Nat, count : Nat, blocked : BOOLEAN, disobeyed : SUBSET {"prevent", "release"}]
      /\ u.ref = s.ref + 1 /\ u.count = s.count /\ u.blocked = s.blocked /\ u.disobeyed = s.disobeyed
  BY DEF StandbyRight
<1>2. CASE u.ref # 1
  <2>1. t = u
    BY <1>2 DEF BeginStandby
  <2> QED
    BY <1>1, <1>2, <2>1 DEF StandbyRight
<1>3. CASE u.ref = 1
  <2>1. t \in PreventSuspend(u)
    BY <1>3 DEF BeginStandby
  <2>2. s.ref = 0 /\ "prevent" \notin s.disobeyed
    BY <1>1, <1>3 DEF StandbyRight
  <2> HIDE DEF u
  <2>3. CASE u.count > 0
    <3>1. t = [u EXCEPT !.count = @ + 1]
      BY <2>1, <2>3 DEF PreventSuspend
    <3> QED
      BY <1>1, <1>3, <2>2, <2>3, <3>1 DEF StandbyRight
  <2>4. CASE u.count = 0
    <3>1. \/ t = [u EXCEPT !.count = 1, !.blocked = TRUE]
          \/ t = [u EXCEPT !.disobeyed = @ \union {"prevent"}]
      BY <1>1, <2>1, <2>4 DEF PreventSuspend
    <3>2. "release" \notin s.disobeyed
      BY <1>1, <2>2, <2>4 DEF StandbyRight
    <3>3. CASE t = [u EXCEPT !.count = 1, !.blocked = TRUE]
      <4>1. /\ t.ref = 1 /\ t.count = 1 /\ t.blocked = TRUE /\ t.disobeyed = s.disobeyed
        BY <1>1, <1>3, <3>3
      <4>2. t \in [ref : Nat, count : Nat, blocked : BOOLEAN, disobeyed : SUBSET {"prevent", "release"}]
        BY <1>1, <3>3
      <4> QED
        BY <1>1, <1>3, <2>2, <3>2, <4>1, <4>2 DEF StandbyRight
    <3>4. CASE t = [u EXCEPT !.disobeyed = @ \union {"prevent"}]
      <4>1. /\ t.ref = 1 /\ t.count = 0 /\ t.blocked = s.blocked /\ t.disobeyed = {"prevent"}
        BY <1>1, <1>3, <2>2, <2>4, <3>2, <3>4
      <4>2. ~s.blocked
        BY <1>1, <2>4 DEF StandbyRight
      <4>3. t \in [ref : Nat, count : Nat, blocked : BOOLEAN, disobeyed : SUBSET {"prevent", "release"}]
        BY <1>1, <3>4
      <4> QED
        BY <1>1, <1>3, <4>1, <4>2, <4>3 DEF StandbyRight
    <3> QED
      BY <3>1, <3>3, <3>4
  <2> QED
    BY <1>1, <2>3, <2>4
<1> QED
  BY <1>2, <1>3

\* _endStandby and Device:allow_suspend together.
LEMMA Ends ==
    ASSUME NEW s, StandbyRight(s), s.ref > 0, NEW t \in EndStandby(s)
    PROVE  StandbyRight(t) /\ t.ref = s.ref - 1
<1>u. PICK u : u = [s EXCEPT !.ref = @ - 1]
  OBVIOUS
<1>v. PICK v : v = [u EXCEPT !.disobeyed = @ \ {"prevent"}]
  OBVIOUS
<1>1. /\ u \in [ref : Nat, count : Nat, blocked : BOOLEAN, disobeyed : SUBSET {"prevent", "release"}]
      /\ u.ref \in Nat /\ u.ref = s.ref - 1
      /\ u.count = s.count /\ u.blocked = s.blocked /\ u.disobeyed = s.disobeyed
  BY <1>u DEF StandbyRight
<1>2. /\ v \in [ref : Nat, count : Nat, blocked : BOOLEAN, disobeyed : SUBSET {"prevent", "release"}]
      /\ v.ref = u.ref /\ v.count = s.count /\ v.blocked = s.blocked
      /\ v.disobeyed = s.disobeyed \ {"prevent"}
  BY <1>1, <1>v
<1>3. CASE u.ref > 0
  <2>1. t = u
    BY <1>u, <1>3 DEF EndStandby
  <2> QED
    BY <1>1, <1>3, <2>1 DEF StandbyRight
<1>4. CASE u.ref = 0
  <2>1. t \in AllowSuspend(v)
    BY <1>u, <1>v, <1>1, <1>4 DEF EndStandby
  <2>2. CASE v.count = 0
    <3>1. t = v
      BY <2>1, <2>2 DEF AllowSuspend
    <3> QED
      BY <1>1, <1>2, <1>4, <2>2, <3>1 DEF StandbyRight
  <2>3. CASE v.count > 1
    <3>1. t = [v EXCEPT !.count = @ - 1]
      BY <1>2, <2>1, <2>3 DEF AllowSuspend
    <3> QED
      BY <1>1, <1>2, <1>4, <2>3, <3>1 DEF StandbyRight
  <2>4. CASE v.count = 1
    <3>1. \/ t = [v EXCEPT !.count = 0, !.blocked = FALSE]
          \/ t = [v EXCEPT !.disobeyed = @ \union {"release"}]
      BY <1>2, <2>1, <2>4 DEF AllowSuspend
    <3>2. "release" \notin v.disobeyed
      BY <1>1, <1>2, <2>4 DEF StandbyRight
    <3>3. CASE t = [v EXCEPT !.count = 0, !.blocked = FALSE]
      <4>1. /\ t.ref = 0 /\ t.count = 0 /\ t.blocked = FALSE /\ t.disobeyed = v.disobeyed
        BY <1>2, <1>4, <3>3
      <4>2. t \in [ref : Nat, count : Nat, blocked : BOOLEAN, disobeyed : SUBSET {"prevent", "release"}]
        BY <1>2, <3>3
      <4> QED
        BY <1>1, <1>2, <1>4, <3>2, <4>1, <4>2 DEF StandbyRight
    <3>4. CASE t = [v EXCEPT !.disobeyed = @ \union {"release"}]
      <4>1. /\ t.ref = 0 /\ t.count = 1 /\ t.blocked = v.blocked
            /\ t.disobeyed = v.disobeyed \union {"release"}
        BY <1>2, <1>4, <2>4, <3>4
      <4>2. v.blocked
        BY <1>2, <2>4 DEF StandbyRight
      <4>3. t \in [ref : Nat, count : Nat, blocked : BOOLEAN, disobeyed : SUBSET {"prevent", "release"}]
        BY <1>2, <3>4
      <4> QED
        BY <1>1, <1>2, <1>4, <4>1, <4>2, <4>3 DEF StandbyRight
    <3> QED
      BY <3>1, <3>3, <3>4
  <2> QED
    BY <1>2, <2>2, <2>3, <2>4
<1>5. u.ref > 0 \/ u.ref = 0
  <2>1. u.ref \in Nat
    BY <1>1
  <2> QED
    BY <2>1
<1> QED
  BY <1>3, <1>4, <1>5

\* What a step does to one download and to the guard keeps the invariant.
LEMMA Change ==
    ASSUME Right, NEW j \in Jobs, NEW k, JobRight(k), job' = [job EXCEPT ![j] = k],
           \/ (k.guard <=> job[j].guard) /\ standby' = standby
           \/ ~job[j].guard /\ k.guard /\ standby' \in BeginStandby(standby)
           \/ job[j].guard /\ ~k.guard /\ standby' \in EndStandby(standby)
    PROVE  Right'
<1>1. /\ job' \in [Jobs -> Job] /\ job'[j] = k
      /\ \A i \in Jobs \ {j} : job'[i] = job[i]
  BY DEF Right, JobRight
<1>2. \A i \in Jobs : JobRight(job'[i])
  BY <1>1 DEF Right
<1>3. CASE (k.guard <=> job[j].guard) /\ standby' = standby
  <2>1. Holders' = Holders
    BY <1>1, <1>3 DEF Holders
  <2> QED
    BY <1>1, <1>2, <1>3, <2>1 DEF Right
<1>4. CASE ~job[j].guard /\ k.guard /\ standby' \in BeginStandby(standby)
  <2>1. Holders' = Holders \union {j} /\ j \notin Holders
    BY <1>1, <1>4 DEF Holders
  <2>2. IsFiniteSet(Holders') /\ Cardinality(Holders') = Cardinality(Holders) + 1
    BY <2>1, FS_AddElement DEF Right
  <2>3. StandbyRight(standby') /\ standby'.ref = standby.ref + 1
    BY <1>4, Begins DEF Right
  <2> QED
    BY <1>1, <1>2, <2>2, <2>3 DEF Right, StandbyRight
<1>5. CASE job[j].guard /\ ~k.guard /\ standby' \in EndStandby(standby)
  <2>1. Holders' = Holders \ {j} /\ j \in Holders
    BY <1>1, <1>5 DEF Holders
  <2>2. IsFiniteSet(Holders') /\ Cardinality(Holders') = Cardinality(Holders) - 1
    BY <2>1, FS_RemoveElement DEF Right
  <2>3. standby.ref > 0
    BY <2>1, FS_EmptySet, FS_CardinalityType DEF Right
  <2>4. StandbyRight(standby') /\ standby'.ref = standby.ref - 1
    BY <1>5, <2>3, Ends DEF Right
  <2> QED
    BY <1>1, <1>2, <2>2, <2>4 DEF Right, StandbyRight
<1> QED
  BY <1>3, <1>4, <1>5

\* A step of the engine is a step of StandbyGuard, or none that it sees.
GoodStep == Right' /\ [Guard!Next]_(Guard!guard)

\* What _beginStandby does to the power property.
LEMMA BeginsBlocked ==
    ASSUME NEW s, StandbyRight(s), NEW t \in BeginStandby(s)
    PROVE  /\ t.blocked \in IF s.ref = 0 /\ "release" \notin s.disobeyed THEN PowerWorks
                            ELSE {s.blocked}
           /\ "release" \in t.disobeyed <=> "release" \in s.disobeyed
<1> DEFINE u == [s EXCEPT !.ref = @ + 1]
<1>1. /\ u \in [ref : Nat, count : Nat, blocked : BOOLEAN, disobeyed : SUBSET {"prevent", "release"}]
      /\ u.ref = s.ref + 1 /\ u.count = s.count /\ u.blocked = s.blocked /\ u.disobeyed = s.disobeyed
  BY DEF StandbyRight
<1>2. CASE u.ref # 1
  <2>1. t = u
    BY <1>2 DEF BeginStandby
  <2>2. s.ref # 0
    BY <1>1, <1>2
  <2> QED
    BY <1>1, <2>1, <2>2
<1>3. CASE u.ref = 1
  <2>1. t \in PreventSuspend(u)
    BY <1>3 DEF BeginStandby
  <2>2. s.ref = 0 /\ "prevent" \notin s.disobeyed
    BY <1>1, <1>3 DEF StandbyRight
  <2> HIDE DEF u
  <2>3. CASE u.count > 0
    <3>1. t = [u EXCEPT !.count = @ + 1]
      BY <2>1, <2>3 DEF PreventSuspend
    <3>2. "release" \in s.disobeyed
      BY <1>1, <2>2, <2>3 DEF StandbyRight
    <3> QED
      BY <1>1, <3>1, <3>2
  <2>4. CASE u.count = 0
    <3>1. PICK works \in PowerWorks :
             t = IF works THEN [u EXCEPT !.count = 1, !.blocked = TRUE]
                 ELSE [u EXCEPT !.disobeyed = @ \union {"prevent"}]
      BY <2>1, <2>4 DEF PreventSuspend
    <3>2. "release" \notin s.disobeyed /\ ~s.blocked
      BY <1>1, <2>2, <2>4 DEF StandbyRight
    <3>3. CASE works
      <4>1. t.blocked = TRUE /\ t.disobeyed = s.disobeyed
        BY <1>1, <3>1, <3>3
      <4>2. works = TRUE
        BY <3>3, PowerAssumption
      <4> QED
        BY <2>2, <3>2, <4>1, <4>2
    <3>4. CASE ~works
      <4>1. t.blocked = s.blocked /\ t.disobeyed = s.disobeyed \union {"prevent"}
        BY <1>1, <3>1, <3>4
      <4>2. works = FALSE /\ s.blocked = FALSE
        BY <1>1, <3>2, <3>4, PowerAssumption
      <4> QED
        BY <2>2, <3>2, <4>1, <4>2
    <3> QED
      BY <3>3, <3>4
  <2> QED
    BY <1>1, <2>3, <2>4
<1> QED
  BY <1>2, <1>3

\* What _endStandby does to it.
LEMMA EndsBlocked ==
    ASSUME NEW s, StandbyRight(s), s.ref > 0, NEW t \in EndStandby(s)
    PROVE  \/ /\ s.ref = 1 => "release" \in s.disobeyed \/ ~s.blocked
              /\ t.blocked = s.blocked
              /\ "release" \in t.disobeyed <=> "release" \in s.disobeyed
           \/ /\ s.ref = 1 /\ s.blocked /\ "release" \notin s.disobeyed
              /\ \E works \in PowerWorks :
                   t.blocked = ~works /\ ("release" \in t.disobeyed) = ~works
<1>u. PICK u : u = [s EXCEPT !.ref = @ - 1]
  OBVIOUS
<1>v. PICK v : v = [u EXCEPT !.disobeyed = @ \ {"prevent"}]
  OBVIOUS
<1>1. /\ u \in [ref : Nat, count : Nat, blocked : BOOLEAN, disobeyed : SUBSET {"prevent", "release"}]
      /\ u.ref \in Nat /\ u.ref = s.ref - 1 /\ s.ref \in Nat
      /\ u.count = s.count /\ u.blocked = s.blocked /\ u.disobeyed = s.disobeyed
  BY <1>u DEF StandbyRight
<1>2. /\ v \in [ref : Nat, count : Nat, blocked : BOOLEAN, disobeyed : SUBSET {"prevent", "release"}]
      /\ v.ref = u.ref /\ v.count = s.count /\ v.blocked = s.blocked
      /\ v.disobeyed = s.disobeyed \ {"prevent"}
  BY <1>1, <1>v
<1>3. CASE u.ref > 0
  <2>1. t = u
    BY <1>u, <1>3 DEF EndStandby
  <2>2. s.ref # 1
    BY <1>1, <1>3
  <2> QED
    BY <1>1, <2>1, <2>2
<1>4. CASE u.ref = 0
  <2>1. t \in AllowSuspend(v)
    BY <1>u, <1>v, <1>1, <1>4 DEF EndStandby
  <2>2. CASE v.count = 0
    <3>1. t = v
      BY <2>1, <2>2 DEF AllowSuspend
    <3>2. ~s.blocked
      BY <1>2, <2>2 DEF StandbyRight
    <3> QED
      BY <1>2, <3>1, <3>2
  <2>3. CASE v.count > 1
    <3>1. t = [v EXCEPT !.count = @ - 1]
      BY <1>2, <2>1, <2>3 DEF AllowSuspend
    <3>2. "release" \in s.disobeyed
      BY <1>1, <1>2, <2>3 DEF StandbyRight
    <3> QED
      BY <1>2, <3>1, <3>2
  <2>4. CASE v.count = 1
    <3>1. PICK works \in PowerWorks :
             t = IF works THEN [v EXCEPT !.count = 0, !.blocked = FALSE]
                 ELSE [v EXCEPT !.disobeyed = @ \union {"release"}]
      BY <1>2, <2>1, <2>4 DEF AllowSuspend
    <3>2. s.ref = 1 /\ s.blocked = TRUE
      BY <1>1, <1>2, <1>4, <2>4 DEF StandbyRight
    <3>3. "release" \notin s.disobeyed
      BY <1>1, <1>2, <2>4, <3>2 DEF StandbyRight
    <3>4. CASE works
      <4>1. t.blocked = FALSE /\ t.disobeyed = v.disobeyed
        BY <1>2, <3>1, <3>4
      <4>2. "release" \notin t.disobeyed
        BY <1>2, <3>3, <4>1
      <4>3. t.blocked = ~works
        BY <3>4, <4>1
      <4>4. ("release" \in t.disobeyed) = ~works
        <5>1. works = TRUE
          BY <3>4, PowerAssumption
        <5>2. ("release" \in t.disobeyed) = FALSE
          BY <4>2
        <5>3. ~works = FALSE
          BY <5>1
        <5> QED
          BY <5>2, <5>3
      <4> QED
        BY <3>2, <3>3, <4>3, <4>4
    <3>5. CASE ~works
      <4>1. t.blocked = TRUE /\ t.disobeyed = v.disobeyed \union {"release"}
        BY <1>2, <3>1, <3>2, <3>5
      <4>2. t.blocked = ~works /\ ("release" \in t.disobeyed) = ~works
        BY <3>5, <4>1
      <4> QED
        BY <3>2, <3>3, <4>2
    <3> QED
      BY <3>4, <3>5
  <2> QED
    BY <1>2, <2>2, <2>3, <2>4
<1>5. u.ref > 0 \/ u.ref = 0
  <2>1. u.ref \in Nat
    BY <1>1
  <2> QED
    BY <2>1
<1> QED
  BY <1>3, <1>4, <1>5

Lost == {j \in Holders : job[j].next = "stranded"}

\* One download takes the guard, gives it back or leaves it alone, as StandbyGuard has it.
\* A stranded one leaves it alone.
LEMMA ChangeMoves ==
    ASSUME Right, NEW j \in Jobs, NEW k, JobRight(k), job' = [job EXCEPT ![j] = k],
           job[j].guard => (k.guard /\ k.next = "stranded" <=> job[j].next = "stranded"),
           \/ (k.guard <=> job[j].guard) /\ standby' = standby
           \/ ~job[j].guard /\ k.guard /\ standby' \in BeginStandby(standby)
           \/ job[j].guard /\ ~k.guard /\ standby' \in EndStandby(standby)
    PROVE  GoodStep
<1>1. Right'
  BY Change
<1>2. /\ job' \in [Jobs -> Job] /\ job'[j] = k
      /\ \A i \in Jobs \ {j} : job'[i] = job[i]
  BY DEF Right, JobRight
<1>3. StandbyRight(standby) /\ standby.ref \in Nat
  BY DEF Right, StandbyRight
<1>4. standby.ref = 0 <=> Holders = {}
  BY FS_EmptySet DEF Right
<1>5. CASE (k.guard <=> job[j].guard) /\ standby' = standby
  <2>1. Holders' = Holders
    BY <1>2, <1>5 DEF Holders
  <2>2. Lost' = Lost
    BY <1>2, <1>5, <2>1 DEF Lost, Holders
  <2> QED
    BY <1>1, <1>5, <2>1, <2>2 DEF GoodStep, Guard!guard, Lost
<1>6. CASE ~job[j].guard /\ k.guard /\ standby' \in BeginStandby(standby)
  <2>1. Holders' = Holders \union {j} /\ j \notin Holders
    BY <1>2, <1>6 DEF Holders
  <2>2. /\ standby'.blocked \in IF standby.ref = 0 /\ "release" \notin standby.disobeyed
                                THEN PowerWorks ELSE {standby.blocked}
        /\ "release" \in standby'.disobeyed <=> "release" \in standby.disobeyed
    BY <1>3, <1>6, BeginsBlocked
  <2>l. Lost' \in {Lost, Lost \union {j}}
    <3>1. \A i \in Jobs \ {j} : i \in Lost' <=> i \in Lost
      BY <1>2, <2>1 DEF Lost
    <3>2. j \notin Lost /\ Lost \subseteq Jobs /\ Lost' \subseteq Jobs
      BY <1>6 DEF Lost, Holders
    <3> QED
      BY <3>1, <3>2
  <2>3. Guard!Take(j)
    BY <1>4, <2>1, <2>2, <2>l DEF Guard!Take, Lost
  <2> QED
    BY <1>1, <2>3 DEF GoodStep, Guard!Next
<1>7. CASE job[j].guard /\ ~k.guard /\ standby' \in EndStandby(standby)
  <2>1. Holders' = Holders \ {j} /\ j \in Holders
    BY <1>2, <1>7 DEF Holders
  <2>2. standby.ref > 0
    BY <1>3, <1>4, <2>1
  <2>l. j \notin Lost /\ Lost' = Lost
    BY <1>2, <1>7, <2>1 DEF Lost, Holders
  <2>3. standby.ref = 1 <=> Holders' = {}
    <3>1. IsFiniteSet(Holders') /\ Cardinality(Holders') = standby.ref - 1
      BY <2>1, FS_RemoveElement DEF Right
    <3>2. Cardinality(Holders') = 0 <=> Holders' = {}
      BY <3>1, FS_EmptySet
    <3> QED
      BY <1>3, <3>1, <3>2
  <2>4. CASE /\ standby.ref = 1 => "release" \in standby.disobeyed \/ ~standby.blocked
             /\ standby'.blocked = standby.blocked
             /\ "release" \in standby'.disobeyed <=> "release" \in standby.disobeyed
    <3>1. Guard!GiveBack(j)
      BY <2>1, <2>3, <2>4, <2>l DEF Guard!GiveBack, Lost
    <3> QED
      BY <1>1, <3>1 DEF GoodStep, Guard!Next
  <2>5. CASE /\ standby.ref = 1 /\ standby.blocked /\ "release" \notin standby.disobeyed
             /\ \E works \in PowerWorks : /\ standby'.blocked = ~works
                                          /\ ("release" \in standby'.disobeyed) = ~works
    <3>1. Holders = {j} /\ Holders' = {}
      BY <2>1, <2>3, <2>5
    <3>2. Guard!LetSleep(j)
      BY <2>5, <2>l, <3>1 DEF Guard!LetSleep, Lost
    <3> QED
      BY <1>1, <3>2 DEF GoodStep, Guard!Next
  <2> QED
    BY <1>3, <1>7, <2>2, <2>4, <2>5, EndsBlocked
<1> QED
  BY <1>5, <1>6, <1>7

\* _notifyCompletion, the first time.
LEMMA Notifies ==
    ASSUME NEW k \in Job, k.calls = 0, NEW o \in {"ok", "failed"}
    PROVE  Notify(k, o) = [k EXCEPT !.outcome = o, !.calls = 1] /\ Notify(k, o) \in Job
<1>1. Notify(k, o) = [k EXCEPT !.outcome = o, !.calls = 1]
  BY DEF Notify
<1>2. [k EXCEPT !.outcome = o, !.calls = 1] \in Job
  BY DEF Job
<1> QED
  BY <1>1, <1>2

\* Nothing but the list counts for the chapters.
LEMMA SameWork ==
    ASSUME NEW k, NEW m, SameList(m, k)
    PROVE  (Listed(m) <=> Listed(k)) /\ (WorkDone(m) <=> WorkDone(k))
BY DEF SameList, Listed, WorkDone

\* An end that on_complete and the user were told of.
LEMMA ToldEnd ==
    ASSUME NEW k, JobRight(k), k.next # "ended", NEW o \in {"ok", "failed"}, NEW m \in Job,
           m.next = "ended", m.guard = FALSE, m.calls = 1, m.outcome = o, m.told = TRUE,
           SameList(m, k), m.saved <=> o = "ok", o = "ok" => WorkDone(k)
    PROVE  JobRight(m)
<1>1. Listed(m) /\ (o = "ok" => m.index > m.total)
  BY SameWork DEF JobRight, WorkDone
<1>2. ~(m.next \in {"unasked", "start", "step", "batch", "stranded"}) /\ m.calls # 0
  OBVIOUS
<1>3. (m.outcome = "ok" => m.saved) /\ (m.saved => m.index > m.total)
  BY <1>1
<1> QED
  BY <1>1, <1>2, <1>3 DEF JobRight

\* The chapter at the index is none of those before it.
LEMMA IndexMoves ==
    ASSUME NEW k \in Job, Listed(k), k.index <= k.total, NEW m \in Job,
           m.first = k.first, m.total = k.total, m.index = k.index + 1,
           \/ m.done = k.done \union {Current(k)} /\ m.failed = k.failed
           \/ m.done = k.done /\ m.failed = k.failed \union {Current(k)}
    PROVE  Listed(m)
<1>1. /\ k.first \in Nat \ {0} /\ k.total \in Nat /\ k.index \in Nat \ {0}
      /\ Chapters \in Nat
  BY ChaptersAssumption DEF Job, Chapter
<1>2. Current(k) \notin k.first..k.first + k.index - 2
  BY <1>1 DEF Current
<1>3. Current(k) \notin k.done /\ Current(k) \notin k.failed
  BY <1>2 DEF Listed
<1>4. m.done \intersect m.failed = {}
  BY <1>3 DEF Listed
<1>5. m.done \union m.failed = (k.first..k.first + k.index - 2) \union {Current(k)}
  BY DEF Listed
<1>6. (k.first..k.first + k.index - 2) \union {Current(k)} = m.first..m.first + m.index - 2
  BY <1>1 DEF Current
<1>7. m.first + m.total - 1 <= Chapters /\ m.index <= m.total + 1
  BY <1>1 DEF Listed
<1> QED
  BY <1>4, <1>5, <1>6, <1>7 DEF Listed

\* _failChapter and _finishChapter: the chapter of the step is taken or failed.
LEMMA ChapterEnds ==
    ASSUME NEW k, JobRight(k), k.next \in {"step", "batch"}, k.index <= k.total,
           NEW m \in Finished(k)
    PROVE  JobRight(m) /\ m.guard = k.guard /\ m.next = "step"
<1>1. k \in Job /\ Listed(k) /\ k.calls = 0 /\ k.outcome = "none" /\ ~k.saved /\ k.guard
  BY DEF JobRight
<1>2. Current(k) \in Chapter /\ k.index + 1 \in 1..Chapters + 1
  BY <1>1, ChaptersAssumption DEF Listed, Current, Job, Chapter
<1>3. PICK n : n = NextChapter(k)
  OBVIOUS
<1>4. /\ n \in Job /\ n.next = "step" /\ n.index = k.index + 1 /\ n.first = k.first
      /\ n.total = k.total /\ n.done = k.done /\ n.failed = k.failed /\ n.guard = k.guard
      /\ n.calls = 0 /\ n.outcome = "none" /\ ~n.saved
  <2>1. 0 \in 0..Batches + 1
    BY BatchesAssumption
  <2>2. [k EXCEPT !.index = k.index + 1, !.next = "step", !.batch = 0] \in Job
    BY <1>1, <1>2, <2>1 DEF Job
  <2>3. n = [k EXCEPT !.index = k.index + 1, !.next = "step", !.batch = 0]
    BY <1>3 DEF NextChapter
  <2> QED
    BY <1>1, <2>2, <2>3 DEF Job
<1>5. \/ m = [n EXCEPT !.done = @ \union {Current(k)}]
      \/ m = [n EXCEPT !.failed = @ \union {Current(k)}]
  BY <1>3 DEF Finished, ChapterTaken, ChapterFailed
<1>6. n.done \union {Current(k)} \in SUBSET Chapter /\ n.failed \union {Current(k)} \in SUBSET Chapter
  BY <1>2, <1>4 DEF Job
<1>7. /\ m \in Job /\ m.next = "step" /\ m.index = k.index + 1 /\ m.first = k.first
      /\ m.total = k.total /\ m.guard = k.guard
      /\ m.calls = 0 /\ m.outcome = "none" /\ ~m.saved
      /\ \/ m.done = k.done \union {Current(k)} /\ m.failed = k.failed
         \/ m.done = k.done /\ m.failed = k.failed \union {Current(k)}
  <2>1. CASE m = [n EXCEPT !.done = @ \union {Current(k)}]
    <3>1. m \in Job
      BY <1>4, <1>6, <2>1 DEF Job
    <3>2. m.done = n.done \union {Current(k)} /\ m.failed = n.failed
      BY <1>4, <2>1 DEF Job
    <3> QED
      BY <1>4, <2>1, <3>1, <3>2 DEF Job
  <2>2. CASE m = [n EXCEPT !.failed = @ \union {Current(k)}]
    <3>1. m \in Job
      BY <1>4, <1>6, <2>2 DEF Job
    <3>2. m.failed = n.failed \union {Current(k)} /\ m.done = n.done
      BY <1>4, <2>2 DEF Job
    <3> QED
      BY <1>4, <2>2, <3>1, <3>2 DEF Job
  <2> QED
    BY <1>5, <2>1, <2>2
<1>8. Listed(m)
  BY <1>1, <1>7, IndexMoves
<1> QED
  BY <1>1, <1>7, <1>8 DEF JobRight

\* _startAnnotations: the chapter of the step stays open.
LEMMA ChapterWaits ==
    ASSUME NEW k, JobRight(k), k.next = "step", k.index <= k.total, NEW m \in Annotated(k)
    PROVE  JobRight(m) /\ m.guard = k.guard /\ m.next = "batch"
<1>1. PICK n \in 1..Batches : m = [k EXCEPT !.batches = n, !.batch = 1, !.retry = 0, !.next = "batch"]
  BY DEF Annotated
<1>2. m \in Job
  <2>1. k \in Job /\ n \in 0..Batches /\ 1 \in 0..Batches + 1 /\ 0 \in 0..Retries
    BY BatchesAssumption, RetriesAssumption DEF JobRight
  <2>2. [k EXCEPT !.batches = n, !.batch = 1, !.retry = 0, !.next = "batch"] \in Job
    BY <2>1 DEF Job
  <2> QED
    BY <1>1, <2>2
<1>3. /\ SameList(m, k)
      /\ m.next = "batch" /\ m.guard = k.guard /\ m.calls = k.calls
      /\ m.outcome = k.outcome /\ m.saved = k.saved
  BY <1>1 DEF JobRight, Job, SameList
<1>4. Listed(m) /\ m.index <= m.total
  BY <1>3, SameWork DEF JobRight, SameList
<1> QED
  BY <1>2, <1>3, <1>4 DEF JobRight

\* _releaseStandby by a download at work.
LEMMA Releases ==
    ASSUME NEW k, JobRight(k), k.next \in {"step", "batch"}, NEW s,
           NEW w, w.job = k, w.standby = s, NEW y \in ReleaseStandby(w)
    PROVE  y.standby \in EndStandby(s) /\ y.job = [k EXCEPT !.guard = FALSE]
           /\ y = [job |-> y.job, standby |-> y.standby]
<1>1. k.guard
  BY DEF JobRight
<1>2. PICK t \in EndStandby(s) : y = [job |-> [k EXCEPT !.guard = FALSE], standby |-> t]
  BY <1>1 DEF ReleaseStandby
<1> QED
  BY <1>2

\* A download that gives the guard back and reports its failure: _scheduleGuarded's
\* handler, a cancelled _step, and a _step that downloaded nothing.
LEMMA FailedEnds ==
    ASSUME NEW k, JobRight(k), k.next \in {"step", "batch"}, NEW s,
           NEW w, w.job = k, w.standby = s, NEW y \in ReleaseStandby(w), NEW z,
           \/ z = [y EXCEPT !.job = [Notify(@, "failed") EXCEPT !.dialog = FALSE, !.told = TRUE,
                                                               !.next = "ended"]]
           \/ z = [y EXCEPT !.job = [Notify(@, "failed") EXCEPT !.told = TRUE, !.next = "ended"]]
    PROVE  JobRight(z.job) /\ ~z.job.guard /\ z.standby \in EndStandby(s)
<1>1. PICK g : g = [k EXCEPT !.guard = FALSE]
  OBVIOUS
<1>2. PICK n : n = Notify(g, "failed")
  OBVIOUS
<1>3. y.job = g /\ y = [job |-> g, standby |-> y.standby] /\ y.standby \in EndStandby(s)
  BY <1>1, Releases
<1>4. g \in Job /\ g.guard = FALSE /\ g.calls = 0 /\ ~g.saved /\ SameList(g, k)
  BY <1>1 DEF JobRight, Job, SameList
<1>5. n \in Job /\ n = [g EXCEPT !.outcome = "failed", !.calls = 1]
  BY <1>2, <1>4, Notifies
<1>6. /\ n.guard = FALSE /\ n.calls = 1 /\ n.outcome = "failed" /\ ~n.saved
      /\ SameList(n, k)
  BY <1>4, <1>5 DEF Job, SameList
<1>7. ASSUME NEW m, \/ m = [n EXCEPT !.dialog = FALSE, !.told = TRUE, !.next = "ended"]
                    \/ m = [n EXCEPT !.told = TRUE, !.next = "ended"]
      PROVE  JobRight(m) /\ ~m.guard
  <2>1. m \in Job
    <3>1. [n EXCEPT !.dialog = FALSE, !.told = TRUE, !.next = "ended"] \in Job
      BY <1>5 DEF Job
    <3>2. [n EXCEPT !.told = TRUE, !.next = "ended"] \in Job
      BY <1>5 DEF Job
    <3>3. CASE m = [n EXCEPT !.dialog = FALSE, !.told = TRUE, !.next = "ended"]
      BY <3>1, <3>3
    <3>4. CASE m = [n EXCEPT !.told = TRUE, !.next = "ended"]
      BY <3>2, <3>4
    <3> QED
      BY <1>7, <3>3, <3>4
  <2>2. /\ m.next = "ended" /\ m.guard = FALSE /\ m.calls = 1 /\ m.outcome = "failed"
        /\ m.told = TRUE /\ ~m.saved /\ SameList(m, k)
    <3>1. CASE m = [n EXCEPT !.dialog = FALSE, !.told = TRUE, !.next = "ended"]
      BY <1>5, <1>6, <3>1 DEF Job, SameList
    <3>2. CASE m = [n EXCEPT !.told = TRUE, !.next = "ended"]
      BY <1>5, <1>6, <3>2 DEF Job, SameList
    <3> QED
      BY <1>7, <3>1, <3>2
  <2>3. k.next # "ended"
    OBVIOUS
  <2> QED
    BY <2>1, <2>2, <2>3, ToldEnd
<1>8. /\ z = [job |-> z.job, standby |-> y.standby]
      /\ \/ z.job = [n EXCEPT !.dialog = FALSE, !.told = TRUE, !.next = "ended"]
         \/ z.job = [n EXCEPT !.told = TRUE, !.next = "ended"]
  BY <1>2, <1>3
<1> QED
  BY <1>3, <1>7, <1>8

\* A cancelled _annotationBatch gives the guard back and reports to the user only.
LEMMA CancelledEnds ==
    ASSUME NEW k, JobRight(k), k.next \in {"step", "batch"}, k.cancelled, NEW s,
           NEW w, w.job = k, w.standby = s, NEW y \in ReleaseStandby(w), NEW z,
           z = [y EXCEPT !.job.told = TRUE, !.job.next = "ended"]
    PROVE  JobRight(z.job) /\ ~z.job.guard /\ z.standby \in EndStandby(s)
<1>1. PICK g : g = [k EXCEPT !.guard = FALSE]
  OBVIOUS
<1>2. y.job = g /\ y = [job |-> g, standby |-> y.standby] /\ y.standby \in EndStandby(s)
  BY <1>1, Releases
<1>3. /\ g \in Job /\ g.guard = FALSE /\ g.calls = 0 /\ ~g.saved /\ SameList(g, k)
      /\ g.outcome = "none" /\ g.cancelled
  BY <1>1 DEF JobRight, Job, SameList
<1>4. PICK m : m = [g EXCEPT !.told = TRUE, !.next = "ended"]
  OBVIOUS
<1>5. z.job = m /\ z.standby = y.standby
  BY <1>2, <1>4
<1>6. m \in Job
  BY <1>3, <1>4 DEF Job
<1>7. /\ m.guard = FALSE /\ m.calls = 0 /\ ~m.saved /\ SameList(m, k) /\ m.next = "ended"
      /\ m.outcome = "none" /\ m.cancelled /\ m.told
  BY <1>3, <1>4 DEF Job, SameList
<1>8. Listed(m)
  BY <1>7, SameWork DEF JobRight
<1>9. JobRight(m)
  BY <1>6, <1>7, <1>8 DEF JobRight
<1> QED
  BY <1>2, <1>5, <1>7, <1>9

\* Closing the dialog, by Cancel or by the last _step, changes nothing that counts.
LEMMA DialogCloses ==
    ASSUME NEW k, JobRight(k), NEW m,
           \/ m = [k EXCEPT !.dialog = FALSE]
           \/ m = [k EXCEPT !.cancelled = TRUE, !.dialog = FALSE]
    PROVE  /\ JobRight(m) /\ m.guard = k.guard /\ m.next = k.next
           /\ SameList(m, k) /\ m.saved = k.saved
<1>1. k \in Job
  BY DEF JobRight
<1>2. m \in Job
  <2>1. [k EXCEPT !.dialog = FALSE] \in Job /\ [k EXCEPT !.cancelled = TRUE, !.dialog = FALSE] \in Job
    BY <1>1 DEF Job
  <2> QED
    BY <2>1
<1>3. /\ m.next = k.next /\ m.guard = k.guard /\ m.calls = k.calls /\ m.outcome = k.outcome
      /\ SameList(m, k) /\ m.saved = k.saved
      /\ m.told = k.told /\ (k.cancelled => m.cancelled)
  BY <1>1 DEF Job, SameList
<1>4. (WorkDone(m) <=> WorkDone(k)) /\ (Listed(m) <=> Listed(k))
  BY <1>3, SameWork
<1> QED
  BY <1>2, <1>3, <1>4 DEF JobRight, SameList

\* The end of a download that took something: the EPUB is built or not, and an error
\* behind it may swallow the report.
LEMMA SavedEnds ==
    ASSUME NEW k, JobRight(k), k.next = "step", WorkDone(k), NEW s, NEW ok \in BOOLEAN,
           NEW w, w.job = k, w.standby = s, NEW y \in ReleaseStandby(w), NEW x, NEW z,
           x = [y EXCEPT !.job.saved = ok], z \in Reported(x, ok) \union {Swallowed(x)}
    PROVE  JobRight(z.job) /\ ~z.job.guard /\ z.standby \in EndStandby(s)
<1>1. PICK g : g = [k EXCEPT !.guard = FALSE]
  OBVIOUS
<1>2. PICK h : h = [g EXCEPT !.saved = ok]
  OBVIOUS
<1>3. y.job = g /\ y = [job |-> g, standby |-> y.standby] /\ y.standby \in EndStandby(s)
  BY <1>1, Releases
<1>4. x = [job |-> h, standby |-> y.standby]
  BY <1>2, <1>3
<1>5. /\ g \in Job /\ g.guard = FALSE /\ g.calls = 0 /\ g.outcome = "none" /\ SameList(g, k)
  BY <1>1 DEF JobRight, Job, SameList
<1>6. /\ h \in Job /\ h.guard = FALSE /\ h.calls = 0 /\ h.outcome = "none" /\ SameList(h, k)
      /\ h.saved = ok
  BY <1>2, <1>5 DEF Job, SameList
<1>7. k.next # "ended"
  OBVIOUS
<1>8. CASE z = Swallowed(x)
  <2>1. PICK m : m = [h EXCEPT !.next = "ended"]
    OBVIOUS
  <2>2. z = [job |-> m, standby |-> y.standby]
    BY <1>4, <1>8, <2>1 DEF Swallowed
  <2>3. m \in Job
    BY <1>6, <2>1 DEF Job
  <2>4. /\ m.next = "ended" /\ m.guard = FALSE /\ m.calls = 0 /\ m.outcome = "none"
        /\ SameList(m, k)
    BY <1>6, <2>1 DEF Job, SameList
  <2>5. WorkDone(m) /\ Listed(m)
    BY <2>4, SameWork DEF JobRight
  <2>6. JobRight(m)
    BY <2>3, <2>4, <2>5 DEF JobRight, WorkDone
  <2> QED
    BY <1>3, <2>2, <2>4, <2>6
<1>9. CASE z = [x EXCEPT !.job = [Notify(@, IF ok THEN "ok" ELSE "failed")
                                      EXCEPT !.told = TRUE, !.next = "ended"]]
  <2>1. PICK o \in {"ok", "failed"} : o = IF ok THEN "ok" ELSE "failed"
    OBVIOUS
  <2>2. PICK n : n = Notify(h, o)
    OBVIOUS
  <2>3. n \in Job /\ n = [h EXCEPT !.outcome = o, !.calls = 1]
    BY <1>6, <2>2, Notifies
  <2>4. PICK m : m = [n EXCEPT !.told = TRUE, !.next = "ended"]
    OBVIOUS
  <2>5. z = [job |-> m, standby |-> y.standby]
    BY <1>4, <1>9, <2>1, <2>2, <2>4
  <2>6. m \in Job
    BY <2>3, <2>4 DEF Job
  <2>7. /\ n.guard = FALSE /\ n.calls = 1 /\ n.outcome = o /\ n.saved = ok /\ SameList(n, k)
    BY <1>6, <2>3 DEF Job, SameList
  <2>8. /\ m.next = "ended" /\ m.guard = FALSE /\ m.calls = 1 /\ m.outcome = o
        /\ m.told = TRUE /\ m.saved = ok /\ SameList(m, k)
    BY <2>3, <2>4, <2>7 DEF Job, SameList
  <2>9. JobRight(m)
    BY <1>7, <2>1, <2>6, <2>8, ToldEnd
  <2> QED
    BY <1>3, <2>5, <2>8, <2>9
<1> QED
  BY <1>8, <1>9 DEF Reported

\* What a step leads to, as one download and the guard.
LEMMA Becoming ==
    ASSUME Right, NEW j \in Jobs, NEW x, Becomes(j, x), JobRight(x.job),
           job[j].guard => (x.job.guard /\ x.job.next = "stranded" <=> job[j].next = "stranded"),
           \/ (x.job.guard <=> job[j].guard) /\ x.standby = standby
           \/ ~job[j].guard /\ x.job.guard /\ x.standby \in BeginStandby(standby)
           \/ job[j].guard /\ ~x.job.guard /\ x.standby \in EndStandby(standby)
    PROVE  GoodStep
BY ChangeMoves DEF Becomes

\* The user asks for a download, which may be refused at once.
LEMMA StartKeeps ==
    ASSUME Right, NEW j \in Jobs, Start(j)
    PROVE  GoodStep
<1>1. PICK first \in Chapter, total \in {1, Chapters} :
        /\ first + total - 1 <= Chapters
        /\ LET asked == [job[j] EXCEPT !.first = first, !.total = total]
           IN \/ Becomes(j, [Now(j) EXCEPT !.job = [asked EXCEPT !.next = "start"]])
              \/ Becomes(j, [Now(j) EXCEPT !.job =
                     [Notify(asked, "failed") EXCEPT !.next = "ended", !.told = TRUE]])
  BY DEF Start
<1>2. PICK a : a = [job[j] EXCEPT !.first = first, !.total = total]
  OBVIOUS
<1>3. PICK n : n = Notify(a, "failed")
  OBVIOUS
<1>4. /\ JobRight(job[j]) /\ job[j] \in Job /\ job[j].next = "unasked"
      /\ job[j].guard = FALSE /\ first \in 1..Chapters /\ total \in 1..Chapters
  BY ChaptersAssumption DEF Right, JobRight, Start, Job, Chapter
<1>5. a \in Job
  BY <1>2, <1>4 DEF Job, Chapter
<1>6. /\ a.next = "unasked" /\ a.guard = FALSE /\ a.calls = 0 /\ a.outcome = "none" /\ ~a.saved
      /\ a.first = first /\ a.total = total /\ a.index = 1 /\ a.done = {} /\ a.failed = {}
  BY <1>2, <1>4 DEF JobRight, Job
<1>7. n \in Job /\ n = [a EXCEPT !.outcome = "failed", !.calls = 1]
  BY <1>3, <1>5, <1>6, Notifies
<1>l. ASSUME NEW m, SameList(m, a) PROVE Listed(m)
  <2>1. {} = first..first + 1 - 2
    BY <1>4
  <2>2. first + total - 1 <= Chapters /\ 1 <= total + 1
    BY <1>1, <1>4
  <2>3. Listed(a)
    BY <1>6, <2>1, <2>2 DEF Listed
  <2> QED
    BY <1>l, <2>3, SameWork
<1>8. CASE Becomes(j, [Now(j) EXCEPT !.job = [a EXCEPT !.next = "start"]])
  <2>1. PICK m : m = [a EXCEPT !.next = "start"]
    OBVIOUS
  <2>2. m \in Job
    BY <1>5, <2>1 DEF Job
  <2>3. /\ m.next = "start" /\ m.guard = FALSE /\ m.calls = 0 /\ m.outcome = "none" /\ ~m.saved
        /\ m.index = 1 /\ m.done = {} /\ m.failed = {} /\ SameList(m, a)
    BY <1>5, <1>6, <2>1 DEF Job, SameList
  <2>4. JobRight(m)
    BY <1>l, <2>2, <2>3 DEF JobRight
  <2>5. PICK x : x = [job |-> m, standby |-> standby]
    OBVIOUS
  <2>6. Becomes(j, x) /\ x.job = m /\ x.standby = standby
    BY <1>8, <2>1, <2>5 DEF Now
  <2> QED
    BY <1>4, <2>3, <2>4, <2>6, Becoming
<1>9. CASE Becomes(j, [Now(j) EXCEPT !.job = [n EXCEPT !.next = "ended", !.told = TRUE]])
  <2>1. PICK m : m = [n EXCEPT !.next = "ended", !.told = TRUE]
    OBVIOUS
  <2>2. m \in Job
    BY <1>7, <2>1 DEF Job
  <2>3. /\ n.guard = FALSE /\ n.calls = 1 /\ n.outcome = "failed" /\ ~n.saved /\ SameList(n, a)
    BY <1>5, <1>6, <1>7 DEF Job, SameList
  <2>4. /\ m.next = "ended" /\ m.guard = FALSE /\ m.calls = 1 /\ m.outcome = "failed" /\ ~m.saved
        /\ SameList(m, a) /\ m.told = TRUE
    BY <1>7, <2>1, <2>3 DEF Job, SameList
  <2>5. JobRight(m)
    BY <1>l, <2>2, <2>4 DEF JobRight
  <2>6. PICK x : x = [job |-> m, standby |-> standby]
    OBVIOUS
  <2>7. Becomes(j, x) /\ x.job = m /\ x.standby = standby
    BY <1>9, <2>1, <2>6 DEF Now
  <2> QED
    BY <1>4, <2>4, <2>5, <2>7, Becoming
<1> QED
  BY <1>1, <1>2, <1>3, <1>8, <1>9

\* The online task fails at once, or takes the guard and schedules the first step, or
\* raises with the guard taken.
LEMMA StartTaskKeeps ==
    ASSUME Right, NEW j \in Jobs, StartTask(j)
    PROVE  GoodStep
<1>1. PICK k : k = job[j]
  OBVIOUS
<1>2. JobRight(k) /\ k \in Job /\ k.next = "start"
  BY <1>1 DEF Right, JobRight, StartTask
<1>3. k.guard = FALSE /\ k.calls = 0 /\ k.outcome = "none" /\ ~k.saved /\ Listed(k)
  BY <1>2 DEF JobRight, Job
<1>4. CASE Becomes(j, [Now(j) EXCEPT !.job =
             [Notify(@, "failed") EXCEPT !.next = "ended", !.told = TRUE]])
  <2>1. PICK n : n = Notify(k, "failed")
    OBVIOUS
  <2>2. PICK m : m = [n EXCEPT !.next = "ended", !.told = TRUE]
    OBVIOUS
  <2>3. n \in Job /\ n = [k EXCEPT !.outcome = "failed", !.calls = 1]
    BY <1>2, <1>3, <2>1, Notifies
  <2>4. m \in Job
    BY <2>2, <2>3 DEF Job
  <2>5. /\ n.guard = FALSE /\ n.calls = 1 /\ n.outcome = "failed" /\ ~n.saved /\ SameList(n, k)
    BY <1>2, <1>3, <2>3 DEF Job, SameList
  <2>6. /\ m.next = "ended" /\ m.guard = FALSE /\ m.calls = 1 /\ m.outcome = "failed" /\ ~m.saved
        /\ SameList(m, k) /\ m.told = TRUE
    BY <2>2, <2>3, <2>5 DEF Job, SameList
  <2>7. Listed(m)
    BY <1>3, <2>6, SameWork
  <2>8. JobRight(m)
    BY <2>4, <2>6, <2>7 DEF JobRight
  <2>9. PICK x : x = [job |-> m, standby |-> standby]
    OBVIOUS
  <2>10. Becomes(j, x) /\ x.job = m /\ x.standby = standby
    BY <1>1, <1>4, <2>1, <2>2, <2>9 DEF Now
  <2> QED
    BY <1>1, <1>3, <2>6, <2>8, <2>10, Becoming
<1>5. ASSUME NEW s \in BeginStandby(standby), NEW m, JobRight(m), m.guard,
             NEW x, Becomes(j, x), x.job = m, x.standby = s
      PROVE  GoodStep
  BY <1>1, <1>3, <1>5, Becoming
<1>n. PICK n : n = Now(j)
  OBVIOUS
<1>o. n = [job |-> k, standby |-> standby]
  BY <1>1, <1>n DEF Now
<1>6. ASSUME NEW s \in BeginStandby(standby),
             Becomes(j, [Now(j) EXCEPT !.standby = s,
                 !.job = [@ EXCEPT !.guard = TRUE, !.dialog = TRUE, !.next = "step"]])
      PROVE  GoodStep
  <2>1. PICK m : m = [k EXCEPT !.guard = TRUE, !.dialog = TRUE, !.next = "step"]
    OBVIOUS
  <2>2. m \in Job
    BY <1>2, <2>1 DEF Job
  <2>3. /\ m.next = "step" /\ m.guard = TRUE /\ m.calls = 0 /\ m.outcome = "none" /\ ~m.saved
        /\ SameList(m, k)
    BY <1>2, <1>3, <2>1 DEF Job, SameList
  <2>4. Listed(m)
    BY <1>3, <2>3, SameWork
  <2>5. JobRight(m)
    BY <2>2, <2>3, <2>4 DEF JobRight
  <2>6. PICK x : x = [n EXCEPT !.standby = s,
                         !.job = [@ EXCEPT !.guard = TRUE, !.dialog = TRUE, !.next = "step"]]
    OBVIOUS
  <2>7. x.standby = s
    BY <1>o, <2>6
  <2>8. x.job = m
    BY <1>o, <2>1, <2>6
  <2>9. Becomes(j, x)
    BY <1>6, <1>n, <2>6
  <2> QED
    BY <1>5, <2>3, <2>5, <2>7, <2>8, <2>9
<1>7. ASSUME NEW s \in BeginStandby(standby), NEW shown \in BOOLEAN,
             Becomes(j, [Now(j) EXCEPT !.standby = s,
                 !.job = [@ EXCEPT !.guard = TRUE, !.dialog = shown, !.told = TRUE,
                                   !.next = "stranded"]])
      PROVE  GoodStep
  <2>1. PICK m : m = [k EXCEPT !.guard = TRUE, !.dialog = shown, !.told = TRUE,
                               !.next = "stranded"]
    OBVIOUS
  <2>2. m \in Job
    BY <1>2, <2>1 DEF Job
  <2>3. /\ m.next = "stranded" /\ m.guard = TRUE /\ m.calls = 0 /\ m.outcome = "none" /\ ~m.saved
        /\ m.told = TRUE /\ SameList(m, k)
    BY <1>2, <1>3, <2>1 DEF Job, SameList
  <2>4. Listed(m)
    BY <1>3, <2>3, SameWork
  <2>5. JobRight(m)
    BY <2>2, <2>3, <2>4 DEF JobRight
  <2>6. PICK x : x = [n EXCEPT !.standby = s,
                         !.job = [@ EXCEPT !.guard = TRUE, !.dialog = shown, !.told = TRUE,
                                           !.next = "stranded"]]
    OBVIOUS
  <2>7. x.standby = s
    BY <1>o, <2>6
  <2>8. x.job = m
    BY <1>o, <2>1, <2>6
  <2>9. Becomes(j, x)
    BY <1>7, <1>n, <2>6
  <2> QED
    BY <1>5, <2>3, <2>5, <2>7, <2>8, <2>9
<1> QED
  BY <1>4, <1>6, <1>7 DEF StartTask

\* The Cancel button sets a flag.
LEMMA CancelKeeps ==
    ASSUME Right, NEW j \in Jobs, Cancel(j)
    PROVE  GoodStep
<1>1. PICK m : m = [job[j] EXCEPT !.cancelled = TRUE, !.dialog = FALSE]
  OBVIOUS
<1>2. JobRight(job[j]) /\ job \in [Jobs -> Job]
  BY DEF Right
<1>3. JobRight(m) /\ m.guard = job[j].guard /\ m.next = job[j].next
  BY <1>1, <1>2, DialogCloses
<1>4. job' = [job EXCEPT ![j] = m] /\ standby' = standby
  BY <1>1, <1>2 DEF Cancel
<1> QED
  BY <1>3, <1>4, ChangeMoves

\* A step of a chapter: taken, failed, waiting for its thoughts, or an error.
LEMMA StepChapterKeeps ==
    ASSUME Right, NEW j \in Jobs, StepChapter(j)
    PROVE  GoodStep
<1>1. /\ job[j].next = "step" /\ JobRight(job[j]) /\ job[j].guard
      /\ job[j].index <= job[j].total
  BY DEF StepChapter, Right, JobRight
<1>2. ASSUME NEW k \in Finished(job[j]) \union Annotated(job[j]),
             Becomes(j, [Now(j) EXCEPT !.job = k])
      PROVE  GoodStep
  <2>1. JobRight(k) /\ k.guard = job[j].guard /\ k.next \in {"step", "batch"}
    <3>1. CASE k \in Finished(job[j])
      BY <1>1, <3>1, ChapterEnds
    <3>2. CASE k \in Annotated(job[j])
      BY <1>1, <3>2, ChapterWaits
    <3> QED
      BY <1>2, <3>1, <3>2
  <2>2. PICK x : x = [job |-> k, standby |-> standby]
    OBVIOUS
  <2>3. Becomes(j, x) /\ x.job = k /\ x.standby = standby
    BY <1>2, <2>2 DEF Now
  <2> QED
    BY <1>1, <2>1, <2>3, Becoming
<1>3. ASSUME NEW x \in Raised(Now(j)), Becomes(j, x)
      PROVE  GoodStep
  <2>1. JobRight(x.job) /\ ~x.job.guard /\ x.standby \in EndStandby(standby)
    BY <1>1, <1>3, FailedEnds DEF Raised, Now
  <2> QED
    BY <1>1, <1>3, <2>1, Becoming
<1> QED
  BY <1>2, <1>3 DEF StepChapter

\* A step that finds the flag set gives the guard back.
LEMMA CancelledKeeps ==
    ASSUME Right, NEW j \in Jobs, StepCancelled(j) \/ BatchCancelled(j)
    PROVE  GoodStep
<1>1. /\ job[j].next \in {"step", "batch"} /\ JobRight(job[j]) /\ job[j].guard
      /\ job[j].cancelled
  BY DEF StepCancelled, BatchCancelled, Right, JobRight
<1>2. ASSUME NEW x \in CancelledStep(Now(j)) \union CancelledBatch(Now(j)), Becomes(j, x)
      PROVE  GoodStep
  <2>1. JobRight(x.job) /\ ~x.job.guard /\ x.standby \in EndStandby(standby)
    <3>1. CASE x \in CancelledStep(Now(j))
      BY <1>1, <3>1, FailedEnds DEF CancelledStep, Now
    <3>2. CASE x \in CancelledBatch(Now(j))
      BY <1>1, <3>2, CancelledEnds DEF CancelledBatch, Now
    <3> QED
      BY <1>2, <3>1, <3>2
  <2> QED
    BY <1>1, <1>2, <2>1, Becoming
<1> QED
  BY <1>2 DEF StepCancelled, BatchCancelled

\* The last step, with something taken or nothing.
LEMMA StepSaveKeeps ==
    ASSUME Right, NEW j \in Jobs, StepSave(j)
    PROVE  GoodStep
<1>0. PICK h : h = job[j]
  OBVIOUS
<1>1. PICK k : k = [h EXCEPT !.dialog = FALSE]
  OBVIOUS
<1>2. /\ job[j].next = "step" /\ JobRight(job[j]) /\ job[j].guard
      /\ job[j].index > job[j].total
  BY DEF StepSave, Right, JobRight
<1>3. /\ JobRight(k) /\ k.next = "step" /\ k.done = job[j].done /\ k.index > k.total
  <2>1. JobRight(h) /\ h.next = "step"
    BY <1>0, <1>2
  <2>2. /\ JobRight(k) /\ k.next = h.next /\ SameList(k, h)
    BY <1>1, <2>1, DialogCloses
  <2> QED
    BY <1>0, <1>2, <2>1, <2>2 DEF SameList
<1>4. Closed(Now(j)).job = k /\ Closed(Now(j)).standby = standby
  <2>1. PICK n : n = Now(j)
    OBVIOUS
  <2>2. n = [job |-> h, standby |-> standby]
    BY <1>0, <2>1 DEF Now
  <2>3. [n EXCEPT !.job.dialog = FALSE].job = k
    <3>1. [n EXCEPT !.job.dialog = FALSE].job = [h EXCEPT !.dialog = FALSE]
      BY <2>2
    <3> QED
      BY <1>1, <3>1
  <2>4. [n EXCEPT !.job.dialog = FALSE].standby = standby
    BY <2>2
  <2> QED
    BY <2>1, <2>3, <2>4 DEF Closed
<1>5. ASSUME NEW x \in NothingDownloaded(Now(j)), Becomes(j, x)
      PROVE  GoodStep
  <2>1. JobRight(x.job) /\ ~x.job.guard /\ x.standby \in EndStandby(standby)
    <3>1. PICK w : w = Closed(Now(j))
      OBVIOUS
    <3>2. PICK y \in ReleaseStandby(w) :
            x = [y EXCEPT !.job = [Notify(@, "failed") EXCEPT !.told = TRUE, !.next = "ended"]]
      BY <3>1 DEF NothingDownloaded
    <3>3. w.job = k /\ w.standby = standby /\ k.next \in {"step", "batch"}
      BY <1>3, <1>4, <3>1
    <3> QED
      BY <1>3, <3>2, <3>3, FailedEnds
  <2> QED
    BY <1>2, <1>5, <2>1, Becoming
<1>6. ASSUME job[j].done # {}, NEW ok \in BOOLEAN, NEW y \in ReleaseStandby(Closed(Now(j))),
             NEW z \in Reported([y EXCEPT !.job.saved = ok], ok)
                        \union {Swallowed([y EXCEPT !.job.saved = ok])},
             Becomes(j, z)
      PROVE  GoodStep
  <2>1. WorkDone(k)
    BY <1>3, <1>6 DEF WorkDone
  <2>2. JobRight(z.job) /\ ~z.job.guard /\ z.standby \in EndStandby(standby)
    BY <1>3, <1>4, <1>6, <2>1, SavedEnds
  <2> QED
    BY <1>2, <1>6, <2>2, Becoming
<1>r. ASSUME NEW x \in Raised(Now(j)), Becomes(j, x)
      PROVE  GoodStep
  <2>1. JobRight(x.job) /\ ~x.job.guard /\ x.standby \in EndStandby(standby)
    BY <1>2, <1>r, FailedEnds DEF Raised, Now
  <2> QED
    BY <1>2, <1>r, <2>1, Becoming
<1>7. ASSUME job[j].done # {}, NEW ok \in BOOLEAN, NEW y \in ReleaseStandby(Closed(Now(j))),
             LET stored == [y EXCEPT !.job.saved = ok] IN
             \/ \E z \in Reported(stored, ok) : Becomes(j, z)
             \/ Becomes(j, Swallowed(stored))
      PROVE  GoodStep
  BY <1>6, <1>7
<1> QED
  BY <1>5, <1>r, <1>7 DEF StepSave

\* A batch of thoughts: fetched, tried again, given up, or an error.
LEMMA BatchKeeps ==
    ASSUME Right, NEW j \in Jobs, Batch(j)
    PROVE  GoodStep
<1>1. PICK k : k = job[j]
  OBVIOUS
<1>2. /\ k.next = "batch" /\ JobRight(k) /\ k.guard /\ k \in Job /\ k.index <= k.total
  BY <1>1 DEF Batch, Right, JobRight
<1>3. ASSUME NEW m \in Finished(job[j]), Becomes(j, [Now(j) EXCEPT !.job = m])
      PROVE  GoodStep
  <2>1. JobRight(m) /\ m.guard = job[j].guard /\ m.next = "step"
    BY <1>1, <1>2, ChapterEnds
  <2>2. PICK x : x = [job |-> m, standby |-> standby]
    OBVIOUS
  <2>3. Becomes(j, x) /\ x.job = m /\ x.standby = standby
    BY <1>3, <2>2 DEF Now
  <2> QED
    BY <1>1, <1>2, <2>1, <2>3, Becoming
<1>4. ASSUME NEW m, \/ k.retry < Retries /\ m = [k EXCEPT !.retry = @ + 1]
                    \/ ~(k.batch > k.batches) /\ m = [k EXCEPT !.batch = @ + 1, !.retry = 0],
             NEW x, Becomes(j, x), x.job = m, x.standby = standby
      PROVE  GoodStep
  <2>1. k.retry \in 0..Retries /\ k.batch \in 0..Batches + 1 /\ k.batches \in 0..Batches
    BY <1>2 DEF Job
  <2>2. /\ k.retry < Retries => k.retry + 1 \in 0..Retries
        /\ ~(k.batch > k.batches) => k.batch + 1 \in 0..Batches + 1
        /\ 0 \in 0..Retries
    BY <2>1, RetriesAssumption, BatchesAssumption
  <2>3. k.retry + 1 \in 0..Retries => [k EXCEPT !.retry = @ + 1] \in Job
    BY <1>2 DEF Job
  <2>4. k.batch + 1 \in 0..Batches + 1 => [k EXCEPT !.batch = @ + 1, !.retry = 0] \in Job
    BY <1>2, <2>2 DEF Job
  <2>5. m \in Job
    BY <1>4, <2>2, <2>3, <2>4
  <2>6. /\ m.next = "batch" /\ m.guard = k.guard /\ m.calls = k.calls /\ m.outcome = k.outcome
        /\ SameList(m, k) /\ m.saved = k.saved
    <3>1. CASE m = [k EXCEPT !.retry = @ + 1]
      BY <1>2, <3>1 DEF Job, SameList
    <3>2. CASE m = [k EXCEPT !.batch = @ + 1, !.retry = 0]
      BY <1>2, <3>2 DEF Job, SameList
    <3> QED
      BY <1>4, <3>1, <3>2
  <2>l. Listed(m) /\ m.index <= m.total
    BY <1>2, <2>6, SameWork DEF JobRight, SameList
  <2>7. JobRight(m)
    BY <1>2, <2>5, <2>6, <2>l DEF JobRight
  <2> QED
    BY <1>1, <1>2, <1>4, <2>6, <2>7, Becoming
<1>5. ASSUME NEW x \in Raised(Now(j)), Becomes(j, x)
      PROVE  GoodStep
  <2>1. JobRight(x.job) /\ ~x.job.guard /\ x.standby \in EndStandby(standby)
    BY <1>1, <1>2, <1>5, FailedEnds DEF Raised, Now
  <2> QED
    BY <1>1, <1>2, <1>5, <2>1, Becoming
<1>n. PICK n : n = Now(j)
  OBVIOUS
<1>o. n = [job |-> k, standby |-> standby]
  BY <1>1, <1>n DEF Now
<1>6. ASSUME k.retry < Retries, Becomes(j, [n EXCEPT !.job.retry = @ + 1])
      PROVE  GoodStep
  <2>1. PICK x : x = [n EXCEPT !.job.retry = @ + 1]
    OBVIOUS
  <2>2. x.job = [k EXCEPT !.retry = @ + 1]
    BY <1>o, <2>1
  <2>3. x.standby = standby
    BY <1>o, <2>1
  <2> QED
    BY <1>4, <1>6, <2>1, <2>2, <2>3
<1>7. ASSUME ~(k.batch > k.batches), Becomes(j, [n EXCEPT !.job.batch = @ + 1, !.job.retry = 0])
      PROVE  GoodStep
  <2>1. PICK x : x = [n EXCEPT !.job.batch = @ + 1, !.job.retry = 0]
    OBVIOUS
  <2>2. x.job = [k EXCEPT !.batch = @ + 1, !.retry = 0]
    BY <1>o, <2>1
  <2>3. x.standby = standby
    BY <1>o, <2>1
  <2> QED
    BY <1>4, <1>7, <2>1, <2>2, <2>3
<1>8. CASE job[j].batch > job[j].batches
  BY <1>3, <1>8 DEF Batch
<1>9. CASE ~(job[j].batch > job[j].batches)
  BY <1>1, <1>n, <1>5, <1>6, <1>7, <1>9 DEF Batch
<1> QED
  BY <1>8, <1>9

\* When the application closes nothing is at work, and the device may sleep again.
LEMMA CloseKeeps ==
    ASSUME Right, Close
    PROVE  GoodStep
<1>1. \A j \in Jobs : job'[j] = [job[j] EXCEPT !.guard = FALSE, !.dialog = FALSE]
  BY DEF Close
<1>2. ASSUME NEW j \in Jobs
      PROVE  JobRight(job'[j]) /\ job'[j].guard = FALSE
  <2>1. PICK k : k = job[j]
    OBVIOUS
  <2>2. PICK m : m = [k EXCEPT !.guard = FALSE, !.dialog = FALSE]
    OBVIOUS
  <2>3. JobRight(k) /\ k \in Job /\ k.next \in {"unasked", "ended", "stranded"}
    BY <2>1 DEF Close, Right, JobRight
  <2>4. m \in Job
    BY <2>2, <2>3 DEF Job
  <2>5. /\ m.next = k.next /\ m.guard = FALSE /\ m.calls = k.calls /\ m.outcome = k.outcome
        /\ SameList(m, k) /\ m.saved = k.saved /\ m.told = k.told /\ m.cancelled = k.cancelled
    BY <2>2, <2>3 DEF Job, SameList
  <2>6. (WorkDone(m) <=> WorkDone(k)) /\ (Listed(m) <=> Listed(k))
    BY <2>5, SameWork
  <2>7. JobRight(m)
    BY <2>3, <2>4, <2>5, <2>6 DEF JobRight, SameList
  <2> QED
    BY <1>1, <2>1, <2>2, <2>5, <2>7
<1>3. job' \in [Jobs -> Job]
  BY <1>2 DEF Close, JobRight
<1>4. /\ standby'.ref = 0 /\ standby'.count = 0 /\ standby'.blocked = FALSE
      /\ standby'.disobeyed = {} /\ StandbyRight(standby')
  <2>1. standby' = [ref |-> 0, count |-> 0, blocked |-> FALSE, disobeyed |-> {}]
    BY DEF Close
  <2>2. /\ standby'.ref = 0 /\ standby'.count = 0 /\ standby'.blocked = FALSE
        /\ standby'.disobeyed = {}
    BY <2>1
  <2>3. standby' \in [ref : Nat, count : Nat, blocked : BOOLEAN,
                      disobeyed : SUBSET {"prevent", "release"}]
    BY <2>1
  <2> QED
    BY <2>2, <2>3 DEF StandbyRight
<1>5. Holders' = {}
  BY <1>2 DEF Holders
<1>6. Right'
  BY <1>2, <1>3, <1>4, <1>5, FS_EmptySet DEF Right
<1>7. Holders = {j \in Holders : job[j].next = "stranded"}
  BY DEF Holders, Close, Right, JobRight
<1>8. {j \in Holders : job[j].next = "stranded"}' = {}
  BY <1>5
<1>9. Guard!Close
  BY <1>4, <1>5, <1>7, <1>8 DEF Guard!Close
<1> QED
  BY <1>6, <1>9 DEF GoodStep, Guard!Next

\* Nothing is at work at first.
LEMMA RightInit ==
    ASSUME Init
    PROVE  Right
<1>1. Idle \in Job
  BY ChaptersAssumption, BatchesAssumption, RetriesAssumption DEF Idle, Job, Chapter
<1>2. JobRight(Idle)
  <2>1. Listed(Idle)
    <3>1. {} = 1..1 + 1 - 2 /\ 1 + 1 - 1 <= Chapters /\ 1 <= 1 + 1
      BY ChaptersAssumption
    <3> QED
      BY <3>1 DEF Listed, Idle
  <2> QED
    BY <1>1, <2>1 DEF JobRight, Idle
<1>3. job \in [Jobs -> Job] /\ \A j \in Jobs : job[j] = Idle
  BY <1>1 DEF Init
<1>4. Holders = {}
  BY <1>3 DEF Holders, Idle
<1>5. StandbyRight(standby) /\ standby.ref = 0
  BY DEF Init, StandbyRight
<1> QED
  BY <1>2, <1>3, <1>4, <1>5, FS_EmptySet DEF Right

\* Every step of the engine keeps the invariant.
LEMMA RightStep ==
    ASSUME Right, [Next]_vars
    PROVE  GoodStep
<1>1. CASE UNCHANGED vars
  BY <1>1 DEF vars, Right, Holders, GoodStep, Guard!guard
<1>2. CASE Close
  BY <1>2, CloseKeeps
<1>3. ASSUME NEW j \in Jobs, Start(j) \/ Cancel(j) \/ Scheduled(j)
      PROVE  GoodStep
  BY <1>3, StartKeeps, CancelKeeps, StartTaskKeeps, StepChapterKeeps, StepSaveKeeps, BatchKeeps,
     CancelledKeeps DEF Scheduled
<1> QED
  BY <1>1, <1>2, <1>3 DEF Next

\* The invariant holds in every reachable state.
THEOREM Invariance == Spec => []Right
<1>1. Right /\ [Next]_vars => Right'
  BY RightStep DEF GoodStep
<1> QED
  BY <1>1, RightInit, PTL DEF Spec

\* The engine and the device implement StandbyGuard: for any number of downloads and any
\* order in which they come and go, fail and are cancelled, two counters and a power
\* property that may refuse do what a set of holders would.
THEOREM GuardImplemented == Spec => GuardIsASet
<1>1. Init => Guard!Init
  BY DEF Init, Idle, Holders, Guard!Init
<1>2. Right /\ [Next]_vars => [Guard!Next]_(Guard!guard)
  BY RightStep DEF GoodStep
<1> QED
  BY <1>1, <1>2, Invariance, PTL DEF Spec, GuardIsASet, Guard!Spec

\* GuardMeansWork (_beginStandby, _endStandby and _scheduleGuarded), for any number of
\* downloads: the device is kept awake exactly for the work, and for the downloads whose
\* start raised with the guard taken.
THEOREM GuardIsKept == Spec => []GuardMeansWork
<1>1. Right => GuardMeansWork
  <2> SUFFICES ASSUME Right PROVE GuardMeansWork
    OBVIOUS
  <2>1. \A j \in Jobs : /\ job[j].next \in {"step", "batch"} => job[j].guard
                       /\ job[j].guard => job[j].next \in {"step", "batch", "stranded"}
    BY DEF Right, JobRight
  <2>2. standby.ref = Cardinality({j \in Jobs : job[j].guard})
    BY DEF Right, Holders
  <2>3. standby.blocked <=> \/ "release" \in standby.disobeyed
                            \/ standby.ref > 0 /\ "prevent" \notin standby.disobeyed
    BY DEF Right, StandbyRight
  <2> QED
    BY <2>1, <2>2, <2>3 DEF GuardMeansWork
<1> QED
  BY <1>1, Invariance, PTL

\* EveryChapterAccounted (_step, _failChapter and _finishChapter), for a list of any
\* length: the chapters before the index are those taken or failed (Listed), so none is
\* left when _step finds it behind the list.
THEOREM ChaptersAccounted == Spec => []EveryChapterAccounted
<1>1. ASSUME Right, NEW j \in Jobs
      PROVE  /\ job[j].done \intersect job[j].failed = {}
             /\ job[j].saved => job[j].done \union job[j].failed = List(job[j])
  <2>1. PICK k : k = job[j]
    OBVIOUS
  <2>2. /\ Listed(k) /\ (k.saved => k.index > k.total)
        /\ k.first \in Nat /\ k.total \in Nat /\ k.index \in Nat
    BY <1>1, <2>1, ChaptersAssumption DEF Right, JobRight, Job, Chapter
  <2>3. k.saved => k.index = k.total + 1
    BY <2>2 DEF Listed
  <2>4. k.index = k.total + 1 => k.first + k.index - 2 = k.first + k.total - 1
    BY <2>2
  <2> QED
    BY <2>1, <2>2, <2>3, <2>4 DEF Listed, List
<1>2. Right => EveryChapterAccounted
  BY <1>1 DEF EveryChapterAccounted
<1> QED
  BY <1>2, Invariance, PTL

\* OutcomeOnce (_notifyCompletion and the ends of _step): on_complete is told once, the truth.
THEOREM OutcomeTold == Spec => []OutcomeOnce
<1>1. Right => OutcomeOnce
  BY DEF Right, JobRight, WorkDone, OutcomeOnce
<1> QED
  BY <1>1, Invariance, PTL

--------------------------------------------------------------------------------

\* The same chapters taken, and the same EPUB.
SameYield(k, m) == m.done = k.done /\ m.saved = k.saved

\* Being told takes no chapter.
LEMMA NotifyYields ==
    ASSUME NEW k \in Job, NEW o \in {"ok", "failed"}
    PROVE  SameYield(k, Notify(k, o)) /\ Notify(k, o) \in Job
<1>1. [k EXCEPT !.outcome = o, !.calls = 1] \in Job
  BY DEF Job
<1>2. SameYield(k, [k EXCEPT !.outcome = o, !.calls = 1])
  BY DEF SameYield, Job
<1>3. SameYield(k, k)
  BY DEF SameYield
<1> QED
  BY <1>1, <1>2, <1>3 DEF Notify

\* Nor does an end by cancellation.
LEMMA CancelledYields ==
    ASSUME NEW k \in Job, NEW s, NEW w, w = [job |-> k, standby |-> s],
           NEW x \in CancelledStep(w) \union CancelledBatch(w)
    PROVE  SameYield(k, x.job)
<1>1. ASSUME NEW y \in ReleaseStandby(w)
      PROVE  \E g \in Job : \E t : y = [job |-> g, standby |-> t] /\ SameYield(k, g)
  <2>1. CASE k.guard
    <3>1. PICK t \in EndStandby(s) : y = [job |-> [k EXCEPT !.guard = FALSE], standby |-> t]
      BY <2>1 DEF ReleaseStandby
    <3>2. [k EXCEPT !.guard = FALSE] \in Job
      BY DEF Job
    <3>3. SameYield(k, [k EXCEPT !.guard = FALSE])
      BY DEF SameYield, Job
    <3> QED
      BY <3>1, <3>2, <3>3
  <2>2. CASE ~k.guard
    <3>1. y = w
      BY <2>2 DEF ReleaseStandby
    <3>2. SameYield(k, k)
      BY DEF SameYield
    <3> QED
      BY <3>1, <3>2
  <2> QED
    BY <2>1, <2>2
<1>2. CASE x \in CancelledStep(w)
  <2>1. PICK y \in ReleaseStandby(w) :
          x = [y EXCEPT !.job = [Notify(@, "failed") EXCEPT !.told = TRUE, !.next = "ended"]]
    BY <1>2 DEF CancelledStep
  <2>2. PICK g \in Job : \E t : y = [job |-> g, standby |-> t] /\ SameYield(k, g)
    BY <1>1
  <2>3. PICK n \in Job : n = Notify(g, "failed") /\ SameYield(g, n)
    BY NotifyYields
  <2>4. x.job = [n EXCEPT !.told = TRUE, !.next = "ended"]
    BY <2>1, <2>2, <2>3
  <2>5. SameYield(n, x.job)
    BY <2>4 DEF SameYield, Job
  <2> QED
    BY <2>2, <2>3, <2>5 DEF SameYield
<1>3. CASE x \in CancelledBatch(w)
  <2>1. PICK y \in ReleaseStandby(w) : x = [y EXCEPT !.job.told = TRUE, !.job.next = "ended"]
    BY <1>3 DEF CancelledBatch
  <2>2. PICK g \in Job : \E t : y = [job |-> g, standby |-> t] /\ SameYield(k, g)
    BY <1>1
  <2>3. x.job = [g EXCEPT !.told = TRUE, !.next = "ended"]
    BY <2>1, <2>2
  <2>4. SameYield(g, x.job)
    BY <2>3 DEF SameYield, Job
  <2> QED
    BY <2>2, <2>4 DEF SameYield
<1> QED
  BY <1>2, <1>3

\* No step of a cancelled download takes a chapter or builds the EPUB.
LEMMA CancelledRests ==
    ASSUME Right, NEW j \in Jobs, job[j].cancelled, Start(j) \/ Cancel(j) \/ Scheduled(j)
    PROVE  SameYield(job[j], job'[j])
<1>1. PICK k : k = job[j]
  OBVIOUS
<1>2. k \in Job /\ k.cancelled /\ job \in [Jobs -> Job]
  BY <1>1 DEF Right
<1>3. PICK w : w = [job |-> k, standby |-> standby]
  OBVIOUS
<1>4. w = Now(j)
  BY <1>1, <1>3 DEF Now
<1>5. \A x : Becomes(j, x) => job'[j] = x.job
  BY <1>2 DEF Becomes
<1>6. CASE Start(j)
  <2>1. PICK first \in Chapter, total \in {1, Chapters} :
          LET asked == [job[j] EXCEPT !.first = first, !.total = total]
          IN  \/ Becomes(j, [Now(j) EXCEPT !.job = [asked EXCEPT !.next = "start"]])
              \/ Becomes(j, [Now(j) EXCEPT !.job =
                     [Notify(asked, "failed") EXCEPT !.next = "ended", !.told = TRUE]])
    BY <1>6 DEF Start
  <2>2. PICK a : a = [k EXCEPT !.first = first, !.total = total]
    OBVIOUS
  <2>3. total \in Chapter
    BY ChaptersAssumption DEF Chapter
  <2>4. a \in Job
    BY <1>2, <2>2, <2>3 DEF Job
  <2>5. SameYield(k, a)
    BY <1>2, <2>2 DEF SameYield, Job
  <2>6. PICK n \in Job : n = Notify(a, "failed") /\ SameYield(a, n)
    BY <2>4, NotifyYields
  <2>7. PICK m : m = [a EXCEPT !.next = "start"]
    OBVIOUS
  <2>8. PICK o : o = [n EXCEPT !.next = "ended", !.told = TRUE]
    OBVIOUS
  <2>9. SameYield(a, m) /\ SameYield(n, o)
    BY <2>4, <2>6, <2>7, <2>8 DEF SameYield, Job
  <2>10. Becomes(j, [w EXCEPT !.job = m]) \/ Becomes(j, [w EXCEPT !.job = o])
    BY <1>1, <1>4, <2>1, <2>2, <2>6, <2>7, <2>8
  <2>11. job'[j] \in {m, o}
    BY <1>3, <1>5, <2>10
  <2> QED
    BY <1>1, <2>5, <2>6, <2>9, <2>11 DEF SameYield
<1>7. CASE StartTask(j)
  <2>1. PICK n \in Job : n = Notify(k, "failed") /\ SameYield(k, n)
    BY <1>2, NotifyYields
  <2>2. PICK o : o = [n EXCEPT !.next = "ended", !.told = TRUE]
    OBVIOUS
  <2>3. PICK m : m = [k EXCEPT !.guard = TRUE, !.dialog = TRUE, !.next = "step"]
    OBVIOUS
  <2>4. SameYield(n, o) /\ SameYield(k, m)
    BY <1>2, <2>1, <2>2, <2>3 DEF SameYield, Job
  <2>5. CASE Becomes(j, [Now(j) EXCEPT !.job =
               [Notify(@, "failed") EXCEPT !.next = "ended", !.told = TRUE]])
    <3>1. PICK x : x = [w EXCEPT !.job = [Notify(@, "failed") EXCEPT !.next = "ended", !.told = TRUE]]
      OBVIOUS
    <3>2. x.job = o
      BY <1>3, <2>1, <2>2, <3>1
    <3>3. Becomes(j, x)
      BY <1>4, <2>5, <3>1
    <3> QED
      BY <1>1, <1>5, <2>1, <2>4, <3>2, <3>3 DEF SameYield
  <2>6. ASSUME NEW s, Becomes(j, [Now(j) EXCEPT !.standby = s,
                   !.job = [@ EXCEPT !.guard = TRUE, !.dialog = TRUE, !.next = "step"]])
        PROVE  SameYield(job[j], job'[j])
    <3>1. PICK x : x = [w EXCEPT !.standby = s,
                   !.job = [@ EXCEPT !.guard = TRUE, !.dialog = TRUE, !.next = "step"]]
      OBVIOUS
    <3>2. x.job = m
      BY <1>3, <2>3, <3>1
    <3>3. Becomes(j, x)
      BY <1>4, <2>6, <3>1
    <3> QED
      BY <1>1, <1>5, <2>4, <3>2, <3>3
  <2>7. ASSUME NEW s, NEW shown, Becomes(j, [Now(j) EXCEPT !.standby = s,
                   !.job = [@ EXCEPT !.guard = TRUE, !.dialog = shown, !.told = TRUE,
                                     !.next = "stranded"]])
        PROVE  SameYield(job[j], job'[j])
    <3>1. PICK x : x = [w EXCEPT !.standby = s,
                   !.job = [@ EXCEPT !.guard = TRUE, !.dialog = shown, !.told = TRUE,
                                     !.next = "stranded"]]
      OBVIOUS
    <3>2. PICK g : g = [k EXCEPT !.guard = TRUE, !.dialog = shown, !.told = TRUE,
                                 !.next = "stranded"]
      OBVIOUS
    <3>3. x.job = g
      BY <1>3, <3>1, <3>2
    <3>4. SameYield(k, g)
      BY <1>2, <3>2 DEF SameYield, Job
    <3>5. Becomes(j, x)
      BY <1>4, <2>7, <3>1
    <3> QED
      BY <1>1, <1>5, <3>3, <3>4, <3>5
  <2> QED
    BY <1>7, <2>5, <2>6, <2>7 DEF StartTask
<1>8. CASE Cancel(j)
  <2>1. job'[j] = [k EXCEPT !.cancelled = TRUE, !.dialog = FALSE]
    BY <1>1, <1>2, <1>8 DEF Cancel
  <2> QED
    BY <1>1, <1>2, <2>1 DEF SameYield, Job
<1>9. CASE StepCancelled(j) \/ BatchCancelled(j)
  <2>1. PICK x \in CancelledStep(w) \union CancelledBatch(w) : Becomes(j, x)
    BY <1>4, <1>9 DEF StepCancelled, BatchCancelled
  <2>2. SameYield(k, x.job)
    BY <1>2, <1>3, <2>1, CancelledYields
  <2> QED
    BY <1>1, <1>5, <2>1, <2>2
<1>10. ~(StepChapter(j) \/ StepSave(j) \/ Batch(j))
  BY DEF StepChapter, StepSave, Batch
<1> QED
  BY <1>6, <1>7, <1>8, <1>9, <1>10 DEF Scheduled

\* CancelStops (the cancelled branches of _step and of _annotationBatch): whatever the
\* other downloads do.
THEOREM CancelIsObeyed == Spec => CancelStops
<1>1. ASSUME Right, [Next]_vars
      PROVE  [\A j \in Jobs : job[j].cancelled
                => job'[j].done = job[j].done /\ job'[j].saved = job[j].saved]_vars
  <2>1. CASE UNCHANGED vars
    BY <2>1
  <2>2. CASE Close
    <3>1. ASSUME NEW j \in Jobs PROVE SameYield(job[j], job'[j])
      <4>1. job'[j] = [job[j] EXCEPT !.guard = FALSE, !.dialog = FALSE] /\ job[j] \in Job
        BY <1>1, <2>2 DEF Close, Right
      <4> QED
        BY <4>1 DEF SameYield, Job
    <3> QED
      BY <3>1 DEF SameYield
  <2>3. ASSUME NEW i \in Jobs, Start(i) \/ Cancel(i) \/ Scheduled(i), NEW j \in Jobs,
               job[j].cancelled
        PROVE  SameYield(job[j], job'[j])
    <3>1. CASE j = i
      BY <1>1, <2>3, <3>1, CancelledRests
    <3>2. CASE j # i
      <4>1. job \in [Jobs -> Job]
        BY <1>1 DEF Right
      <4>2. job'[j] = job[j]
        BY <2>3, <3>2, <4>1 DEF Start, Cancel, Scheduled, StartTask, StepCancelled, StepChapter,
           StepSave, BatchCancelled, Batch, Becomes
      <4> QED
        BY <4>2 DEF SameYield
    <3> QED
      BY <3>1, <3>2
  <2> QED
    BY <1>1, <2>1, <2>2, <2>3 DEF Next, SameYield
<1> QED
  BY <1>1, Invariance, PTL DEF Spec, CancelStops

================================================================================
