------------------------------ MODULE LoginProofs ------------------------------
(***************************************************************************)
(* The two clients of LoginService, on the device and in the verification  *)
(* script.                                                                 *)
(*                                                                         *)
(* On the device, only the login that is going on is stored, and its code  *)
(* alone is shown and polled once, for any number of logins.  The script   *)
(* removes the picture of its code, for any number of faults.              *)
(*                                                                         *)
(* The argument for the device: the login that is going on is at one place at a time - on *)
(* the screen, in the dialog for the code, or in the one task that is left *)
(* - and before it came there the queue had run every task of an earlier   *)
(* login, those that may still bring cookies into the jar included.        *)
(***************************************************************************)
EXTENDS DeviceLogin, SequenceTheorems, TLAPS

(*------------------------------- the device -------------------------------*)

\* What Scheduled puts into the queue.
Tasks == [kind : {"begin", "verify", "complete"}, gen : Logins, otp : Codes \union {NoCode}]

Typed ==
    /\ generation \in Nat
    /\ tasks \in Seq(Tasks)
    /\ polls \in [Logins -> Nat]

\* A task is of a login that was started, and one of the present login comes last: it is
\* the only one, unless it is the start of that login, and then the jar is its own.
TasksInOrder ==
    \A i \in 1..Len(tasks) :
        /\ tasks[i].gen <= generation
        /\ tasks[i].gen = generation => i = Len(tasks)
        /\ tasks[i].gen = generation /\ tasks[i].kind # "begin" =>
              Len(tasks) = 1 /\ login_cookies \subseteq {generation}

\* A dialog is of the present login, there is one at most, and no task beside it.
OneDialog ==
    /\ qr_dialog \in {0, generation}
    /\ otp_dialogs \subseteq {generation}
    /\ qr_dialog # 0 => otp_dialogs = {}
    /\ qr_dialog # 0 \/ otp_dialogs # {} => tasks = <<>> /\ login_cookies \subseteq {generation}

\* The code on the screen is polled once, a login that is not begun yet not at all.
PolledOnce ==
    /\ \A g \in Logins : g > generation => polls[g] = 0
    /\ \A i \in 1..Len(tasks) :
          tasks[i].gen = generation /\ tasks[i].kind = "begin" => polls[generation] = 0
    /\ qr_dialog # 0 => generation \in Logins /\ polls[generation] = 1

LoginInv == Typed /\ TasksInOrder /\ OneDialog /\ PolledOnce

\* The first task, and what the queue is without it.
LEMMA FirstTask ==
    ASSUME LoginInv, tasks # <<>>
    PROVE  /\ Head(tasks) = tasks[1] /\ Head(tasks) \in Tasks /\ Len(tasks) \in Nat \ {0}
           /\ Tail(tasks) \in Seq(Tasks) /\ Len(Tail(tasks)) = Len(tasks) - 1
           /\ \A i \in 1..Len(Tail(tasks)) : Tail(tasks)[i] = tasks[i + 1]
           /\ qr_dialog = 0 /\ otp_dialogs = {}
           /\ Head(tasks).gen = generation => Tail(tasks) = <<>> /\ Len(tasks) = 1
<1>1. tasks \in Seq(Tasks)
  BY DEF LoginInv, Typed
<1>2. /\ Head(tasks) = tasks[1] /\ Head(tasks) \in Tasks /\ Len(tasks) \in Nat \ {0}
      /\ Tail(tasks) \in Seq(Tasks) /\ Len(Tail(tasks)) = Len(tasks) - 1
      /\ \A i \in 1..Len(Tail(tasks)) : Tail(tasks)[i] = tasks[i + 1]
  BY <1>1
<1>3. qr_dialog = 0 /\ otp_dialogs = {}
  BY DEF LoginInv, OneDialog
<1>4. Head(tasks).gen = generation => Len(tasks) = 1
  <2>1. 1 \in 1..Len(tasks)
    BY <1>2
  <2> QED
    BY <1>2, <2>1 DEF LoginInv, TasksInOrder
<1>5. Len(tasks) = 1 => Tail(tasks) = <<>>
  <2>1. Len(tasks) = 1 => Len(Tail(tasks)) = 0
    BY <1>2
  <2> QED
    BY <1>2, <2>1, EmptySeq
<1> QED
  BY <1>2, <1>3, <1>4, <1>5

\* Generations are numbers.
LEMMA LoginsAreNumbers == Logins \subseteq Nat
BY MaxLoginsAssumption DEF Logins

\* A task's login, as a number.
LEMMA TaskOfLogin ==
    ASSUME LoginInv, NEW i \in 1..Len(tasks)
    PROVE  tasks[i].gen \in Nat /\ tasks[i].gen <= generation /\ generation \in Nat
<1>1. tasks[i] \in Tasks
  BY DEF LoginInv, Typed
<1>2. tasks[i].gen \in Nat
  BY <1>1, LoginsAreNumbers DEF Tasks
<1> QED
  BY <1>2 DEF LoginInv, Typed, TasksInOrder

\* What a queue with one more task is.
LEMMA QueueWith ==
    ASSUME NEW q \in Seq(Tasks), NEW t \in Tasks
    PROVE  /\ Append(q, t) \in Seq(Tasks) /\ Len(Append(q, t)) = Len(q) + 1 /\ Len(q) \in Nat
           /\ \A i \in 1..Len(q) : Append(q, t)[i] = q[i]
           /\ Append(q, t)[Len(q) + 1] = t
OBVIOUS

\* The queue's two smallest sizes.
LEMMA SmallQueue ==
    ASSUME NEW q, NEW t
    PROVE  (q = <<>> => Len(q) = 0) /\ Append(<<>>, t) = <<t>>
OBVIOUS

\* Of an empty queue all is true.
LEMMA NoTask ==
    ASSUME tasks' = <<>>
    PROVE  TasksInOrder' /\ (\A i \in 1..Len(tasks') : FALSE)
<1>1. Len(tasks') = 0
  OBVIOUS
<1> QED
  BY <1>1 DEF TasksInOrder

\* A queue that is empty, or holds one task of the present login that is not its start.
LEMMA LoneTask ==
    ASSUME generation \in Logins, generation' = generation, login_cookies' \subseteq {generation},
           NEW k \in {"verify", "complete"}, NEW o \in Codes \union {NoCode},
           tasks' = <<>> \/ tasks' = <<[kind |-> k, gen |-> generation, otp |-> o]>>
    PROVE  /\ tasks' \in Seq(Tasks) /\ TasksInOrder'
           /\ \A i \in 1..Len(tasks') : tasks'[i].kind # "begin"
<1>1. CASE tasks' = <<>>
  BY <1>1, NoTask
<1>2. CASE tasks' = <<[kind |-> k, gen |-> generation, otp |-> o]>>
  <2> DEFINE t == [kind |-> k, gen |-> generation, otp |-> o]
  <2>1. t \in Tasks /\ t.gen = generation /\ t.kind # "begin"
    BY DEF Tasks
  <2> HIDE DEF t
  <2>2. tasks' = <<t>> /\ Len(tasks') = 1 /\ tasks'[1] = t /\ tasks' \in Seq(Tasks)
    BY <1>2, <2>1 DEF t
  <2>3. \A i \in 1..Len(tasks') : i = 1 /\ tasks'[i] = t
    BY <2>2
  <2>4. generation \in Nat
    BY DEF Logins
  <2> QED
    BY <2>1, <2>2, <2>3, <2>4 DEF TasksInOrder
<1> QED
  BY <1>1, <1>2

\* A poll that is over, or none.
PollsOver == polls' = polls \/ \E g \in Logins : polls[g] > 0 /\ polls' = [polls EXCEPT ![g] = @ - 1]

\* cancel() from any place, the queue as it is or its first task done: what is left of
\* the login is of an earlier generation (lines 313-318).
LEMMA CancelKeeps ==
    ASSUME LoginInv, Cancel, tasks' = tasks \/ (tasks # <<>> /\ tasks' = Tail(tasks)),
           otp_dialogs' = {}, PollsOver
    PROVE  LoginInv'
<1> USE DEF LoginInv
<1>1. Typed'
  <2>1. tasks' \in Seq(Tasks)
    BY FirstTask DEF Typed
  <2>2. polls' \in [Logins -> Nat]
    BY DEF Typed, PollsOver
  <2>3. generation' \in Nat
    BY DEF Typed, Cancel
  <2> QED
    BY <2>1, <2>2, <2>3 DEF Typed
<1>2. \A i \in 1..Len(tasks') : tasks'[i].gen \in Nat /\ tasks'[i].gen < generation'
  <2>1. CASE tasks' = tasks
    BY <2>1, TaskOfLogin DEF Cancel
  <2>2. CASE tasks # <<>> /\ tasks' = Tail(tasks)
    <3>1. \A i \in 1..Len(tasks') : i + 1 \in 1..Len(tasks) /\ tasks'[i] = tasks[i + 1]
      <4>1. Len(tasks') = Len(tasks) - 1 /\ Len(tasks) \in Nat \ {0}
        BY <2>2, FirstTask
      <4>2. \A i \in 1..Len(tasks') : tasks'[i] = tasks[i + 1]
        BY <2>2, FirstTask
      <4> QED
        BY <4>1, <4>2
    <3> QED
      BY <3>1, TaskOfLogin DEF Cancel
  <2> QED
    BY <2>1, <2>2
<1>3. TasksInOrder'
  BY <1>1, <1>2 DEF Typed, TasksInOrder
<1>4. OneDialog'
  BY DEF OneDialog, Cancel
<1>5. PolledOnce'
  <2>1. \A g \in Logins : g > generation' => polls'[g] = 0
    <3>1. \A g \in Logins : g > generation' => polls[g] = 0
      BY LoginsAreNumbers DEF Typed, PolledOnce, Cancel
    <3> QED
      BY <3>1 DEF Typed, PollsOver
  <2>2. qr_dialog' = 0
    BY DEF Cancel
  <2>3. \A i \in 1..Len(tasks') : tasks'[i].gen # generation'
    BY <1>2
  <2> QED
    BY <2>1, <2>2, <2>3 DEF PolledOnce
<1> QED
  BY <1>1, <1>3, <1>4, <1>5

\* start(): the task that begins the login comes last (lines 320-345).
LEMMA StartKeeps ==
    ASSUME LoginInv, Start
    PROVE  LoginInv'
<1> USE DEF LoginInv
<1>1. generation' = generation + 1 /\ generation' \in Logins /\ generation \in Nat
  BY MaxLoginsAssumption DEF Start, Cancel, Typed, Logins
<1>2. CASE tasks' = tasks
  <2>1. Cancel /\ otp_dialogs' = {} /\ PollsOver
    BY DEF Start, PollsOver
  <2> QED
    BY <1>2, <2>1, CancelKeeps
<1>3. CASE tasks' = Append(tasks, [kind |-> "begin", gen |-> generation + 1, otp |-> NoCode])
  <2> DEFINE t == [kind |-> "begin", gen |-> generation + 1, otp |-> NoCode]
  <2>0. t \in Tasks /\ t.gen = generation' /\ t.kind = "begin"
    BY <1>1 DEF Tasks
  <2> HIDE DEF t
  <2>1. Typed'
    BY <1>1, <1>3, <2>0, QueueWith DEF Typed, Start, t
  <2>2. /\ Len(tasks') = Len(tasks) + 1 /\ Len(tasks) \in Nat
        /\ \A i \in 1..Len(tasks) : tasks'[i] = tasks[i]
        /\ tasks'[Len(tasks) + 1] = t
    BY <1>3, <2>0, QueueWith DEF Typed, t
  <2>3. TasksInOrder'
    <3> SUFFICES ASSUME NEW i \in 1..Len(tasks')
                 PROVE  /\ tasks'[i].gen <= generation'
                        /\ tasks'[i].gen = generation' => i = Len(tasks')
                        /\ tasks'[i].gen = generation' => tasks'[i].kind = "begin"
      BY DEF TasksInOrder
    <3>1. CASE i = Len(tasks) + 1
      BY <1>1, <2>0, <2>2, <3>1
    <3>2. CASE i \in 1..Len(tasks)
      BY <1>1, <2>2, <3>2, TaskOfLogin
    <3> QED
      BY <2>2, <3>1, <3>2
  <2>4. OneDialog'
    BY DEF OneDialog, Start, Cancel
  <2>5. PolledOnce'
    BY <1>1 DEF PolledOnce, Typed, Start, Cancel
  <2> QED
    BY <2>1, <2>3, <2>4, <2>5
<1> QED
  BY <1>2, <1>3 DEF Start, Scheduled

\* A task of an earlier login, whatever it leaves in the jar (lines 335, 487, 531).
LEMMA StaleTaskKeeps ==
    ASSUME LoginInv, tasks # <<>>, tasks' = Tail(tasks), Head(tasks).gen # generation,
           UNCHANGED <<generation, qr_dialog, polls, otp_dialogs>>
    PROVE  LoginInv'
<1>1. Typed'
  BY FirstTask DEF LoginInv, Typed
<1>2. \A i \in 1..Len(tasks') : i + 1 \in 1..Len(tasks) /\ tasks'[i] = tasks[i + 1]
  BY FirstTask
<1>3. TasksInOrder'
  <2> SUFFICES ASSUME NEW i \in 1..Len(tasks')
               PROVE  /\ tasks'[i].gen <= generation'
                      /\ tasks'[i].gen = generation' => i = Len(tasks')
                      /\ tasks'[i].gen = generation' => tasks'[i].kind = "begin"
    BY DEF TasksInOrder
  <2>1. i \in Nat /\ i + 1 \in 1..Len(tasks) /\ tasks'[i] = tasks[i + 1]
        /\ Len(tasks') = Len(tasks) - 1 /\ Len(tasks) \in Nat
    BY <1>2, FirstTask
  <2>3. i \in 1..(Len(tasks) - 1)
    BY <2>1
  <2>4. Len(tasks) \in Nat /\ Len(tasks) >= 2
    BY <2>1, <2>3
  <2>5. /\ tasks[i + 1].gen <= generation
        /\ tasks[i + 1].gen = generation => i + 1 = Len(tasks)
        /\ tasks[i + 1].gen = generation /\ tasks[i + 1].kind # "begin" => Len(tasks) = 1
    BY <2>1 DEF LoginInv, TasksInOrder
  <2>6. generation' = generation
    OBVIOUS
  <2>7. tasks[i + 1].gen = generation => tasks[i + 1].kind = "begin"
    BY <2>4, <2>5
  <2>8. tasks'[i].gen <= generation'
    BY <2>1, <2>5, <2>6
  <2>9. tasks'[i].gen = generation' => i = Len(tasks')
    <3>1. i + 1 = Len(tasks) => i = Len(tasks')
      <4>1. i \in Nat /\ Len(tasks') = Len(tasks) - 1 /\ Len(tasks) \in Nat
        BY <2>1
      <4>2. \A a, b \in Nat : a + 1 = b => a = b - 1
        OBVIOUS
      <4> QED
        BY <4>1, <4>2
    <3>2. tasks'[i].gen = generation' => i + 1 = Len(tasks)
      BY <2>1, <2>5, <2>6
    <3> QED
      BY <3>1, <3>2
  <2>10. tasks'[i].gen = generation' => tasks'[i].kind = "begin"
    BY <2>1, <2>6, <2>7
  <2> QED
    BY <2>8, <2>9, <2>10
<1>4. OneDialog'
  BY FirstTask DEF LoginInv, OneDialog
<1>5. PolledOnce'
  BY <1>2, FirstTask DEF LoginInv, PolledOnce
<1> QED
  BY <1>1, <1>3, <1>4, <1>5 DEF LoginInv

\* The last task of the present login, if it leaves the place empty or fills one dialog
\* with it (lines 330-380, 482-515).
LEMMA LastTaskKeeps ==
    ASSUME LoginInv, tasks # <<>>, tasks' = Tail(tasks), Head(tasks).gen = generation,
           generation' = generation,
           \/ qr_dialog' = 0 /\ otp_dialogs' = {} /\ polls' = polls
           \/ /\ qr_dialog' = 0 /\ otp_dialogs' = {generation} /\ polls' = polls
              /\ login_cookies' \subseteq {generation}
           \/ /\ qr_dialog' = generation /\ otp_dialogs' = {}
              /\ polls' = [polls EXCEPT ![generation] = @ + 1]
              /\ Head(tasks).kind = "begin" /\ login_cookies' = {generation}
    PROVE  LoginInv'
<1>1. tasks' = <<>> /\ generation \in Logins /\ generation \in Nat
  BY FirstTask DEF LoginInv, Typed, Tasks
<1>2. Typed'
  BY <1>1 DEF LoginInv, Typed
<1>3. TasksInOrder' /\ OneDialog'
  <2>2. TasksInOrder'
    BY <1>1, NoTask
  <2>3. OneDialog'
    BY <1>1 DEF OneDialog
  <2> QED
    BY <2>2, <2>3
<1>4. PolledOnce'
  <2>2. \A i \in 1..Len(tasks') : FALSE
    BY <1>1, NoTask
  <2>1. Head(tasks).kind = "begin" => polls[generation] = 0
    BY FirstTask DEF LoginInv, PolledOnce
  <2>3. \A g \in Logins : g > generation => polls'[g] = 0
    BY <1>1 DEF LoginInv, Typed, PolledOnce
  <2>4. qr_dialog' # 0 => polls'[generation] = 1
    BY <1>1, <2>1 DEF LoginInv, Typed
  <2> QED
    BY <1>1, <2>2, <2>3, <2>4 DEF PolledOnce
<1> QED
  BY <1>2, <1>3, <1>4 DEF LoginInv

\* The task of start(): only that of the present login shows a code (lines 330-345).
LEMMA BeginKeeps ==
    ASSUME LoginInv, Begin
    PROVE  LoginInv'
<1>1. tasks # <<>> /\ tasks' = Tail(tasks) /\ Head(tasks).kind = "begin"
  BY DEF Begin, Turn, Rest
<1>2. generation' = generation /\ otp_dialogs' = {} /\ qr_dialog = 0
  BY <1>1, FirstTask DEF Begin
<1>3. CASE Head(tasks).gen # generation
  <2>1. UNCHANGED <<qr_dialog, polls, otp_dialogs>>
    BY <1>3 DEF Begin
  <2> QED
    BY <1>1, <1>2, <1>3, <2>1, StaleTaskKeeps
<1>4. CASE Head(tasks).gen = generation
  <2>1. \/ qr_dialog' = 0 /\ polls' = polls
        \/ /\ qr_dialog' = generation /\ polls' = [polls EXCEPT ![generation] = @ + 1]
           /\ login_cookies' = {generation}
    BY <1>2, <1>4 DEF Begin, NewJar
  <2> QED
    BY <1>1, <1>2, <1>4, <2>1, LastTaskKeeps
<1> QED
  BY <1>3, <1>4

\* The screen's login goes on to the dialog for its code, or to its completion.
LEMMA ShownKeeps ==
    ASSUME LoginInv, qr_dialog # 0, generation' = generation, qr_dialog' = 0,
           Merge(generation), PollsOver,
           \/ otp_dialogs' = {generation} /\ tasks' = tasks
           \/ /\ otp_dialogs' = {}
              /\ Scheduled(tasks, "complete", generation, NoCode)
    PROVE  LoginInv'
<1>1. /\ tasks = <<>> /\ login_cookies' \subseteq {generation}
      /\ generation \in Logins /\ generation \in Nat
  BY DEF LoginInv, OneDialog, PolledOnce, Merge, Typed
<1>2. polls' \in [Logins -> Nat]
  BY DEF LoginInv, Typed, PollsOver
<1>3. tasks' = <<>> \/ tasks' = <<[kind |-> "complete", gen |-> generation, otp |-> NoCode]>>
  BY <1>1 DEF Scheduled
<1>4. /\ Typed' /\ TasksInOrder'
      /\ \A i \in 1..Len(tasks') : tasks'[i].kind # "begin"
  BY <1>1, <1>2, <1>3, LoneTask DEF Typed
<1>5. OneDialog'
  BY <1>1 DEF OneDialog
<1>6. PolledOnce'
  <2>1. \A g \in Logins : g > generation => polls'[g] = 0
    BY <1>1 DEF LoginInv, Typed, PolledOnce, PollsOver
  <2> QED
    BY <1>4, <2>1 DEF PolledOnce
<1> QED
  BY <1>4, <1>5, <1>6 DEF LoginInv

\* A poll of the code on the screen, or one whose code is gone (lines 375-446).
LEMMA PollKeeps ==
    ASSUME LoginInv, NEW g \in Logins, Poll(g)
    PROVE  LoginInv'
<1>1. CASE g = generation /\ qr_dialog # 0
  <2>1. otp_dialogs = {} /\ PollLive(g) /\ polls[g] > 0
    BY <1>1 DEF LoginInv, OneDialog, Poll
  <2>2. PollGone(g) => PollsOver
    BY <2>1 DEF PollGone, PollsOver
  <2>3. CASE Cancel /\ PollGone(g) /\ UNCHANGED <<tasks, otp_dialogs>>
    BY <2>1, <2>2, <2>3, CancelKeeps
  <2>4. CASE UNCHANGED <<login, tasks, polls, otp_dialogs>>
    BY <2>4 DEF LoginInv, login, Typed, TasksInOrder, OneDialog, PolledOnce
  <2>5. CASE /\ PollGone(g) /\ qr_dialog' = 0 /\ Merge(g) /\ generation' = generation
             /\ \/ otp_dialogs' = otp_dialogs \union {g} /\ tasks' = tasks
                \/ otp_dialogs' = otp_dialogs /\ Scheduled(tasks, "complete", g, NoCode)
    BY <1>1, <2>1, <2>2, <2>5, ShownKeeps
  <2> QED
    BY <2>1, <2>3, <2>4, <2>5 DEF PollLive, TimesOut, Answered
<1>2. CASE ~(g = generation /\ qr_dialog # 0)
  <2>1. PollGone(g) /\ polls[g] > 0 /\ UNCHANGED <<login, tasks, otp_dialogs>>
    BY <1>2 DEF Poll
  <2>2. Typed' /\ TasksInOrder' /\ OneDialog'
    BY <2>1 DEF LoginInv, login, Typed, TasksInOrder, OneDialog, PollGone
  <2>3. PolledOnce'
    BY <1>2, <2>1 DEF LoginInv, login, Typed, PolledOnce, PollGone
  <2> QED
    BY <2>2, <2>3 DEF LoginInv
<1> QED
  BY <1>1, <1>2

\* The three ways a login is given up by hand.
LEMMA GivenUpKeeps ==
    ASSUME LoginInv, Dismiss \/ (\E g \in Logins : OtpCancel(g)) \/ ClearAccount
    PROVE  LoginInv'
<1>1. Cancel /\ tasks' = tasks /\ PollsOver
  BY DEF Dismiss, OtpCancel, ClearAccount, PollsOver
<1>2. otp_dialogs' = {}
  BY DEF LoginInv, OneDialog, Dismiss, OtpCancel, ClearAccount
<1> QED
  BY <1>1, <1>2, CancelKeeps

\* The dialog for the code gives way to the task that sends it (lines 473-482).
LEMMA OtpVerifyKeeps ==
    ASSUME LoginInv, NEW g \in Logins, NEW otp \in Codes, OtpVerify(g, otp)
    PROVE  LoginInv'
<1>1. /\ g = generation /\ tasks = <<>> /\ qr_dialog = 0 /\ otp_dialogs' = {}
      /\ login_cookies \subseteq {generation}
      /\ UNCHANGED <<generation, login_cookies, qr_dialog, polls>>
  BY DEF LoginInv, OneDialog, OtpVerify, login
<1>2. tasks' = <<>> \/ tasks' = <<[kind |-> "verify", gen |-> generation, otp |-> otp]>>
  BY <1>1 DEF OtpVerify, Scheduled
<1>3. /\ Typed' /\ TasksInOrder'
      /\ \A i \in 1..Len(tasks') : tasks'[i].kind # "begin"
  BY <1>1, <1>2, LoneTask DEF LoginInv, Typed
<1>4. OneDialog'
  BY <1>1 DEF OneDialog
<1>5. PolledOnce'
  BY <1>1, <1>3 DEF LoginInv, PolledOnce
<1> QED
  BY <1>3, <1>4, <1>5 DEF LoginInv

\* The code is sent: the login ends, asks again or goes on to its completion (482-515).
LEMMA VerifyKeeps ==
    ASSUME LoginInv, Verify
    PROVE  LoginInv'
<1>1. tasks # <<>> /\ Head(tasks).kind = "verify" /\ UNCHANGED polls
  BY DEF Verify, Turn
<1>2. qr_dialog = 0 /\ otp_dialogs = {} /\ generation \in Nat
  BY <1>1, FirstTask DEF LoginInv, Typed
<1>3. CASE Head(tasks).gen # generation
  <2>1. tasks' = Tail(tasks) /\ UNCHANGED <<generation, qr_dialog, otp_dialogs>>
    BY <1>3 DEF Verify, Rest
  <2> QED
    BY <1>1, <1>3, <2>1, StaleTaskKeeps
<1>4. CASE Head(tasks).gen = generation
  <2>1. /\ Tail(tasks) = <<>> /\ login_cookies \subseteq {generation} /\ generation \in Logins
    BY <1>1, <1>4, FirstTask DEF LoginInv, TasksInOrder, Tasks
  <2>2. CASE Scheduled(Rest, "complete", generation, NoCode) /\ Merge(generation)
             /\ UNCHANGED <<generation, qr_dialog, otp_dialogs>>
    <3>1. \/ tasks' = <<>>
          \/ tasks' = <<[kind |-> "complete", gen |-> generation, otp |-> NoCode]>>
      BY <2>1, <2>2, SmallQueue DEF Scheduled, Rest
    <3>2. login_cookies' \subseteq {generation}
      BY <2>1, <2>2 DEF Merge
    <3>3. /\ Typed' /\ TasksInOrder'
          /\ \A i \in 1..Len(tasks') : tasks'[i].kind # "begin"
      BY <1>1, <2>1, <2>2, <3>1, <3>2, LoneTask DEF LoginInv, Typed
    <3>4. OneDialog'
      BY <1>2, <2>2, <3>2 DEF OneDialog
    <3>5. PolledOnce'
      BY <1>1, <1>2, <2>2, <3>3 DEF LoginInv, PolledOnce
    <3> QED
      BY <3>3, <3>4, <3>5 DEF LoginInv
  <2>3. CASE /\ tasks' = Rest /\ Merge(generation) /\ otp_dialogs' = otp_dialogs \union {generation}
             /\ UNCHANGED <<generation, qr_dialog>>
    <3>1. tasks' = Tail(tasks) /\ otp_dialogs' = {generation} /\ qr_dialog' = 0
          /\ login_cookies' \subseteq {generation}
      BY <1>2, <2>1, <2>3 DEF Rest, Merge
    <3> QED
      BY <1>1, <1>4, <2>3, <3>1, LastTaskKeeps
  <2>4. CASE tasks' = Rest /\ Cancel /\ UNCHANGED otp_dialogs
    <3>1. PollsOver /\ tasks' = Tail(tasks) /\ otp_dialogs' = {}
      BY <1>1, <1>2, <2>4 DEF PollsOver, Rest
    <3> QED
      BY <1>1, <2>4, <3>1, CancelKeeps
  <2> QED
    BY <1>4, <2>2, <2>3, <2>4 DEF Verify
<1> QED
  BY <1>3, <1>4

\* The completion ends the login, one way or the other (lines 227-300).
LEMMA CompleteKeeps ==
    ASSUME LoginInv, Complete
    PROVE  LoginInv'
<1>1. tasks # <<>> /\ tasks' = Tail(tasks) /\ UNCHANGED <<polls, otp_dialogs>>
  BY DEF Complete, Turn, Rest
<1>2. qr_dialog = 0 /\ otp_dialogs' = {}
  BY <1>1, FirstTask
<1>3. CASE Head(tasks).gen # generation
  <2>1. UNCHANGED <<generation, qr_dialog>>
    BY <1>3 DEF Complete, login
  <2> QED
    BY <1>1, <1>3, <2>1, StaleTaskKeeps
<1>4. CASE Head(tasks).gen = generation /\ Cancel
  <2>1. PollsOver
    BY <1>1 DEF PollsOver
  <2> QED
    BY <1>1, <1>2, <1>4, <2>1, CancelKeeps
<1>5. CASE Head(tasks).gen = generation /\ UNCHANGED <<generation, qr_dialog>>
  BY <1>1, <1>2, <1>5, LastTaskKeeps
<1> QED
  BY <1>3, <1>4, <1>5 DEF Complete

\* The clock, the phone and a stutter touch nothing the invariant is about.
LEMMA OthersKeep ==
    ASSUME LoginInv, Clock \/ (\E g \in Logins : Phone(g)) \/ UNCHANGED vars
    PROVE  LoginInv'
<1>1. UNCHANGED <<generation, login_cookies, qr_dialog, tasks, polls, otp_dialogs>>
  BY DEF Clock, Phone, vars, login
<1> QED
  BY <1>1 DEF LoginInv, Typed, TasksInOrder, OneDialog, PolledOnce

\* The invariant holds in every reachable state.
THEOREM Invariance == Spec => []LoginInv
<1>1. Init => LoginInv
  BY DEF Init, LoginInv, Typed, TasksInOrder, OneDialog, PolledOnce
<1>2. LoginInv /\ [Next]_vars => LoginInv'
  BY StartKeeps, BeginKeeps, VerifyKeeps, CompleteKeeps, PollKeeps, OtpVerifyKeeps,
     GivenUpKeeps, OthersKeep DEF Next
<1> QED
  BY <1>1, <1>2, PTL DEF Spec

\* ShownIsPolled (_schedule_poll, line 383), for any number of logins.
THEOREM ShownPolled == Spec => []ShownIsPolled
<1>1. LoginInv => ShownIsPolled
  BY DEF LoginInv, OneDialog, PolledOnce, ShownIsPolled
<1> QED
  BY <1>1, Invariance, PTL

\* StoredIsThisLogin (_complete_protocol, lines 239-298), for any number of logins.
THEOREM StoredThisLogin == Spec => StoredIsThisLogin
<1> DEFINE Stored == auth' # auth =>
             auth' \in {NoAuth, [account |-> generation, cookies |-> {generation}]}
<1>1. LoginInv /\ [Next]_vars => [Stored]_vars
  <2> SUFFICES ASSUME LoginInv, Next, auth' # auth
               PROVE  auth' \in {NoAuth, [account |-> generation, cookies |-> {generation}]}
    OBVIOUS
  <2>1. Complete \/ ClearAccount
    BY DEF Next, Start, Begin, Verify, Poll, OtpCancel, OtpVerify, Phone, Dismiss, Clock
  <2>2. CASE ClearAccount
    BY <2>2 DEF ClearAccount
  <2>3. CASE Complete
    <3>1. tasks # <<>> /\ Head(tasks).kind = "complete" /\ Head(tasks).gen = generation
          /\ auth' = [account |-> generation, cookies |-> login_cookies \union {generation}]
      BY <2>3 DEF Complete, Turn
    <3>2. login_cookies \subseteq {generation}
      BY <3>1, FirstTask DEF LoginInv, TasksInOrder
    <3>3. login_cookies \union {generation} = {generation}
      BY <3>2
    <3> QED
      BY <3>1, <3>3
  <2> QED
    BY <2>1, <2>2, <2>3
<1> QED
  BY <1>1, Invariance, PTL DEF Spec, StoredIsThisLogin

(*------------------------------- the script -------------------------------*)

CONSTANT MaxFaults

VARIABLES
    open_browser, stage, login_phase, otp, qr, qr_path, cookies, pending, faults, outcome, excused

Qr == INSTANCE QrLogin WITH phase <- login_phase

\* While there is a picture, open_qr_image is at work or main() knows the file and is in
\* the try block or its finally clause; or it is excused.
PictureIsKnown ==
    qr # "none" /\ ~excused =>
        \/ stage \in {"make", "save", "open"}
        \/ qr_path /\ stage \in Qr!InTry \union {"finally"}

\* Raise leads out of the try block by the finally clause only.
LEMMA RaiseKeeps ==
    ASSUME PictureIsKnown, NEW code, Qr!Raise(code), qr' = qr, qr_path' = qr_path,
           excused => excused', stage \notin {"make", "save", "open", "finally"}
    PROVE  PictureIsKnown'
<1>1. CASE stage \in Qr!InTry
  BY <1>1 DEF PictureIsKnown, Qr!Raise, Qr!InTry
<1>2. CASE stage \notin Qr!InTry
  BY <1>2 DEF PictureIsKnown
<1> QED
  BY <1>1, <1>2

\* An exchange that fails raises, one that goes well stays where it is: before the picture
\* is made or in the try block.
LEMMA ExchangeKeeps ==
    ASSUME PictureIsKnown, NEW s, NEW next, Qr!Exchange(s, next),
           qr' = qr, qr_path' = qr_path, excused' = excused,
           s \notin {"make", "save", "open", "finally"},
           s \in Qr!InTry => next \in Qr!InTry
    PROVE  PictureIsKnown'
<1>1. CASE Qr!Broken
  BY <1>1, RaiseKeeps DEF Qr!Exchange, Qr!Broken
<1>2. CASE Qr!Go(next)
  BY <1>2 DEF PictureIsKnown, Qr!Exchange, Qr!Go
<1> QED
  BY <1>1, <1>2 DEF Qr!Exchange

LEMMA ScriptKeeps ==
    ASSUME PictureIsKnown, [Qr!Next]_Qr!vars
    PROVE  PictureIsKnown'
<1>1. CASE Qr!SkillsPage
  BY <1>1, ExchangeKeeps DEF Qr!SkillsPage, Qr!file, Qr!InTry
<1>2. CASE Qr!LoginUid
  BY <1>2, ExchangeKeeps DEF Qr!LoginUid, Qr!file, Qr!InTry
<1>3. CASE Qr!ImportQrcode
  BY <1>3, ExchangeKeeps DEF Qr!ImportQrcode, Qr!file, Qr!InTry
<1>4. CASE Qr!OpenQrImage
  BY <1>4 DEF Qr!OpenQrImage, Qr!Opening, Qr!Broken, Qr!Go, PictureIsKnown, Qr!InTry
<1>5. CASE Qr!Poll
  <2>1. stage = "poll" /\ UNCHANGED <<qr, qr_path, excused>>
    BY <1>5 DEF Qr!Poll, Qr!file
  <2>2. ASSUME NEW answer, Qr!AfterPoll(answer)
        PROVE  PictureIsKnown'
    <3>1. CASE Qr!Raise(1)
      BY <2>1, <3>1, RaiseKeeps
    <3>2. CASE stage' \in {"install", "prompt"}
      BY <2>1, <3>2 DEF PictureIsKnown, Qr!InTry
    <3> QED
      BY <2>2, <3>1, <3>2 DEF Qr!AfterPoll, Qr!Go
  <2>3. CASE Qr!Raise(1)
    BY <2>1, <2>3, RaiseKeeps
  <2> QED
    BY <1>5, <2>2, <2>3 DEF Qr!Poll
<1>6. CASE Qr!InstallLoginCookies
  <2>1. stage = "install" /\ UNCHANGED <<qr, qr_path, excused>>
    BY <1>6 DEF Qr!InstallLoginCookies, Qr!file
  <2>2. CASE Qr!Broken
    BY <2>1, <2>2, RaiseKeeps DEF Qr!Broken
  <2>3. CASE Qr!Go("userInfo")
    BY <2>1, <2>3 DEF Qr!Go, PictureIsKnown, Qr!InTry
  <2> QED
    BY <1>6, <2>2, <2>3 DEF Qr!InstallLoginCookies
<1>7. CASE Qr!UserInfo
  BY <1>7, ExchangeKeeps DEF Qr!UserInfo, Qr!file, Qr!InTry
<1>8. CASE Qr!ApikeyGet
  BY <1>8, ExchangeKeeps DEF Qr!ApikeyGet, Qr!file, Qr!InTry
<1>9. CASE Qr!Renewal
  <2>1. stage = "renewal" /\ UNCHANGED <<qr, qr_path, excused>>
    BY <1>9 DEF Qr!Renewal, Qr!file
  <2>2. CASE Qr!Broken
    BY <2>1, <2>2, RaiseKeeps DEF Qr!Broken
  <2>3. CASE stage' = "finally"
    BY <2>1, <2>3 DEF PictureIsKnown, Qr!InTry
  <2> QED
    BY <1>9, <2>2, <2>3 DEF Qr!Renewal
<1>10. CASE Qr!Finally
  BY <1>10 DEF Qr!Finally, PictureIsKnown
<1>11. CASE \E code \in Qr!Codes : Qr!TypeCode(code)
  BY <1>11 DEF Qr!TypeCode, Qr!Go, Qr!file, PictureIsKnown, Qr!InTry
<1>12. CASE Qr!EndInput
  BY <1>12, RaiseKeeps DEF Qr!EndInput, Qr!Broken, Qr!file
<1>13. CASE Qr!Interrupt
  <2>1. UNCHANGED <<qr, qr_path>> /\ excused' = (excused \/ stage \in Qr!Opening \union {"finally"})
    BY <1>13 DEF Qr!Interrupt
  <2>2. CASE stage \in Qr!Opening \union {"finally"}
    BY <2>1, <2>2 DEF PictureIsKnown
  <2>3. CASE stage \notin Qr!Opening \union {"finally"}
    <3>1. excused => excused'
      BY <2>1
    <3>2. Qr!Raise(130) /\ stage \notin {"make", "save", "open", "finally"}
      BY <1>13, <2>3 DEF Qr!Interrupt, Qr!Opening
    <3> QED
      BY <2>1, <3>1, <3>2, RaiseKeeps
  <2> QED
    BY <2>2, <2>3
<1>14. CASE Qr!Kill
  BY <1>14 DEF Qr!Kill, PictureIsKnown
<1>15. CASE Qr!Phone
  BY <1>15 DEF Qr!Phone, Qr!file, PictureIsKnown
<1>16. CASE UNCHANGED Qr!vars
  BY <1>16 DEF Qr!vars, PictureIsKnown
<1> QED
  BY <1>1, <1>2, <1>3, <1>4, <1>5, <1>6, <1>7, <1>8, <1>9, <1>10, <1>11, <1>12, <1>13, <1>14,
     <1>15, <1>16 DEF Qr!Next, Qr!Step

\* QrFileIsRemoved (verify_qr_login.py, lines 307-321), for any number of faults.
THEOREM PictureRemoved == Qr!Spec => []Qr!QrFileIsRemoved
<1>1. Qr!Init => PictureIsKnown
  BY DEF Qr!Init, PictureIsKnown
<1>2. PictureIsKnown /\ [Qr!Next]_Qr!vars => PictureIsKnown'
  BY ScriptKeeps
<1>3. PictureIsKnown => Qr!QrFileIsRemoved
  BY DEF PictureIsKnown, Qr!QrFileIsRemoved, Qr!InTry
<1> QED
  BY <1>1, <1>2, <1>3, PTL DEF Qr!Spec

================================================================================
