----------------------------- MODULE ProgressProbe -----------------------------
(***************************************************************************)
(* verify_progress_sync.py: one run of the script that checks the pull of  *)
(* the reading position and its upload, with a write that it takes back.   *)
(*                                                                         *)
(* Every step is one exchange with the service.  A position keeps the two  *)
(* fields a run compares and moves, the chapter and the offset in it; the  *)
(* progress travels with them unchanged.  The cookie endpoint answers with *)
(* the position of the moment, the Gateway with that one or an earlier one *)
(* it has cached, and either may leave a field out.                        *)
(***************************************************************************)
EXTENDS Integers

CONSTANTS
    Uids,           \* chapters
    NoValue,        \* None: a field an answer leaves out
    FieldSets,      \* what an endpoint may fill in of "uid" and "offset"
    MaxOffset,      \* bound on the offset a run starts from
    ProbeDistance,  \* --probe-distance
    MaxMoves        \* bound on the moves of another device

ASSUME ProbeAssumption ==
    /\ Uids # {} /\ NoValue \notin Uids \union Nat
    /\ FieldSets \subseteq SUBSET {"uid", "offset"}
    /\ MaxOffset \in Nat /\ MaxMoves \in Nat
    /\ ProbeDistance \in Nat \ {0}   \* main(): max(1, int(args.probe_distance))

VARIABLES
    stage,      \* where main() is
    tries,      \* attempts made by the loop of this stage
    roundTrip,  \* --round-trip-write
    gives,      \* the fields that each endpoint fills in
    home,       \* gateway_position
    target,     \* upload_position
    renewed,    \* the upload is the one after the cookie renewal
    pending,    \* the exception that crosses the finally block
    probeSeen,  \* probe_observed
    outcome,    \* how the run ended
    cloud,      \* the position the service keeps
    cached,     \* the one the Gateway may still answer with
    moves,      \* moves of another device
    origin,     \* observer: the position before the run
    lastTaken,  \* observer: the stage whose position the service took last, or "refused"
                \* once it did not take the one that was to take the probe back
    accepted,   \* observer: the service took an upload of this run
    misled      \* observer: an answer was not the position of the moment

local == <<stage, tries, roundTrip, home, target, renewed, pending, probeSeen, outcome>>
service == <<gives, cloud, cached, moves>>
observer == <<origin, lastTaken, accepted, misled>>
vars == <<local, service, observer>>

Position == [uid : Uids, offset : Nat]
Fields == {"uid", "offset"}
Answer == [uid : Uids \union {NoValue}, offset : Nat \union {NoValue}]
Endpoints == {"gateway", "web", "page"}
Stages == {"gateway", "web", "context", "enter", "upload", "renew", "probe", "observe",
           "restore", "confirm", "final", "done"}
Outcomes == {"open", "ok", "readonly", "invalid", "unrestored", "unobserved", "differs",
             "crashed", "interrupted", "killed"}

\* normalized_position(find_progress_node(...)): the fields found, None for the others
Seen(e, p) == [f \in Fields |-> IF f \in gives[e] THEN p[f] ELSE NoValue]

\* int(position.get("chapter_offset") or 0)
OffsetOf(a) == IF a.offset = NoValue THEN 0 ELSE a.offset

positions_match(before, after) ==
    before.uid = after.uid /\ OffsetOf(before) = OffsetOf(after)

\* Field by field: what the Gateway said, else what the reader page says.
choose_upload_position(remote, page) ==
    LET value(f) == IF remote[f] # NoValue THEN remote[f] ELSE page[f]
    IN  [uid |-> value("uid"),
         offset |-> IF value("offset") = NoValue THEN 0 ELSE value("offset")]

ProbeOffset ==
    IF target.offset >= ProbeDistance THEN target.offset - ProbeDistance
    ELSE target.offset + ProbeDistance

\* Mutant: the restoration is compared with the probe.
ExpectedKept == IF stage = "final" THEN home ELSE [home EXCEPT !.offset = ProbeOffset]

Expected == IF stage = "observe" THEN [home EXCEPT !.offset = ProbeOffset] ELSE home

\* Mutant: no finally block.
RaiseNoFinally(o) == stage' = "done" /\ outcome' = o /\ UNCHANGED pending

\* An exception: the finally block of the probe runs before it leaves main().
Raise(o) ==
    IF stage \in {"probe", "observe"}
    THEN stage' = "restore" /\ pending' = o /\ UNCHANGED outcome
    ELSE stage' = "done" /\ outcome' = o /\ UNCHANGED pending

Go(s) == stage' = s /\ tries' = 0 /\ UNCHANGED <<pending, outcome>>
Finish(o) == stage' = "done" /\ outcome' = o /\ UNCHANGED <<tries, pending>>

(*------------------------------- reading -------------------------------*)

\* What may be read where, and whether it is an old position.
FromGateway == {[read |-> Seen("gateway", p), old |-> p # cloud] : p \in {cloud, cached}}
FromWeb == [read |-> Seen("web", cloud), old |-> FALSE]

\* Reading fails: HTTP errors, no connection and a body with no progress in it are
\* ValidationErrors; a body that is no JSON, and a read that times out (whose exception
\* has no "reason"), leave main() as they are.
PullFails ==
    \E o \in {"invalid", "crashed"} : Raise(o) /\ UNCHANGED <<tries, misled, home, probeSeen>>

PullGateway ==
    /\ stage = "gateway"
    /\ \/ \E answer \in FromGateway :
            /\ home' = answer.read /\ misled' = (misled \/ answer.old)
            /\ Go("web") /\ UNCHANGED probeSeen
       \/ PullFails
    /\ UNCHANGED <<roundTrip, target, renewed, service, origin, lastTaken, accepted>>

\* Printed and not used; only a lost connection ends the run.
PullWeb ==
    /\ stage = "web"
    /\ Go("context") \/ (Raise("crashed") /\ UNCHANGED tries)
    /\ UNCHANGED <<roundTrip, home, target, renewed, probeSeen, service, observer>>

\* load_reader_state: a page without a session is asked for once more after a renewal.
\* The second time main() comes here, after its own renewal, it keeps upload_position.
LoadReaderState ==
    /\ stage = "context"
    /\ \/ LET found == choose_upload_position(home, Seen("page", cloud)) IN
            IF ~roundTrip THEN Finish("readonly") /\ UNCHANGED target
            ELSE IF renewed THEN Go("enter") /\ UNCHANGED target
            ELSE IF found.uid = NoValue THEN Finish("invalid") /\ UNCHANGED target
            ELSE target' = found /\ Go("enter")
       \/ tries = 0 /\ tries' = 1 /\ UNCHANGED <<stage, target, pending, outcome>>
       \/ \E o \in {"invalid", "crashed"} : Raise(o) /\ UNCHANGED <<tries, target>>
    /\ UNCHANGED <<roundTrip, home, renewed, probeSeen, service, observer>>

\* pull_current_position: the cookie endpoint; the Gateway when that answers with an
\* error or with nothing of use, but not when the connection is lost (PullFails, too).
PullCurrent == {FromWeb} \union FromGateway

\* Mutant: the probe need not have been seen.
AfterWaitUnseen(found) ==
    CASE stage = "observe" -> probeSeen' = found /\ Go("restore")
      [] stage = "confirm" ->
           /\ UNCHANGED probeSeen
           /\ IF pending # "open" THEN Finish(pending)
              ELSE IF ~found THEN Finish("unrestored") ELSE Go("final")
      [] stage = "final" ->
           Finish(IF found THEN "ok" ELSE "differs") /\ UNCHANGED probeSeen

\* What main() does once wait_for_position has returned.
AfterWait(found) ==
    CASE stage = "observe" -> probeSeen' = found /\ Go("restore")
      [] stage = "confirm" ->
           /\ UNCHANGED probeSeen
           /\ IF pending # "open" THEN Finish(pending)
              ELSE IF ~found THEN Finish("unrestored")
              ELSE IF ~probeSeen THEN Finish("unobserved")
              ELSE Go("final")
      [] stage = "final" ->
           Finish(IF found THEN "ok" ELSE "differs") /\ UNCHANGED probeSeen

\* One attempt of wait_for_position's four.
WaitForPosition ==
    /\ stage \in {"observe", "confirm", "final"}
    /\ \/ \E answer \in PullCurrent :
            /\ misled' = (misled \/ answer.old) /\ UNCHANGED home
            /\ IF positions_match(Expected, answer.read) THEN AfterWait(TRUE)
               ELSE IF tries = 3 THEN AfterWait(FALSE)
               ELSE tries' = tries + 1 /\ UNCHANGED <<stage, pending, outcome, probeSeen>>
       \/ PullFails
    /\ UNCHANGED <<roundTrip, target, renewed, service, origin, lastTaken, accepted>>

(*------------------------------- writing -------------------------------*)

\* POST /web/book/read: the service may take it or not, whatever becomes of the answer.
Post(p, taken) ==
    /\ cloud' = IF taken THEN p ELSE cloud
    /\ cached' \in IF taken THEN {cached, cloud} ELSE {cached}
    /\ lastTaken' = IF taken THEN stage
                    ELSE IF stage = "restore" THEN "refused" ELSE lastTaken
    /\ accepted' = (accepted \/ (taken /\ stage # "enter"))
    /\ UNCHANGED <<gives, moves, origin, misled>>

\* upload(), and what comes after an answer that is a success or is not one.  An exchange
\* that fails is a RuntimeError, an OSError or a ValueError: not one of the exceptions
\* the script reports.
Upload(p, acknowledged, otherwise) ==
    \E taken \in BOOLEAN :
       /\ Post(p, taken)
       /\ \/ taken /\ Go(acknowledged)
          \/ Go(otherwise)
          \/ Raise("crashed") /\ UNCHANGED tries

EnterRead ==
    /\ stage = "enter"
    /\ Upload(target, "upload", "upload")
    /\ UNCHANGED <<roundTrip, home, target, renewed, probeSeen>>

\* Mutant: a renewal after every upload that is not acknowledged.
UploadAgain ==
    /\ stage = "upload"
    /\ Upload(target, "final", "renew")
    /\ UNCHANGED <<roundTrip, home, target, renewed, probeSeen>>

UploadPosition ==
    /\ stage = "upload"
    /\ Upload(target, "final", IF renewed THEN "probe" ELSE "renew")
    /\ UNCHANGED <<roundTrip, home, target, renewed, probeSeen>>

RenewCookie ==
    /\ stage = "renew"
    /\ \/ Go("context") /\ renewed' = TRUE
       \/ Go("probe") /\ UNCHANGED renewed
       \/ Raise("crashed") /\ UNCHANGED <<tries, renewed>>
    /\ UNCHANGED <<roundTrip, home, target, probeSeen, service, observer>>

UploadProbe ==
    /\ stage = "probe"
    /\ Upload([target EXCEPT !.offset = ProbeOffset], "observe", "observe")
    /\ UNCHANGED <<roundTrip, home, target, renewed, probeSeen>>

\* The finally block: an error of its own replaces the one that was pending.
RestorePosition ==
    /\ stage = "restore"
    /\ Upload(target, "confirm", "confirm")
    /\ UNCHANGED <<roundTrip, home, target, renewed, probeSeen>>

(*---------------------------- the rest of the world ----------------------------*)

\* Ctrl-C: a KeyboardInterrupt where the script is; one in the probe, not two.
Interrupt ==
    /\ stage # "done" /\ pending # "interrupted"
    /\ Raise("interrupted")
    /\ UNCHANGED <<tries, roundTrip, home, target, renewed, probeSeen, service, observer>>

Kill ==
    /\ stage # "done"
    /\ Finish("killed")
    /\ UNCHANGED <<roundTrip, home, target, renewed, probeSeen, service, observer>>

\* Where another device may move to: wherever a run may, and further.
Offsets == 0..(MaxOffset + ProbeDistance)

OtherDevice ==
    /\ stage # "done" /\ moves < MaxMoves
    /\ moves' = moves + 1
    /\ cloud' \in [uid : Uids, offset : Offsets] \ {cloud}
    /\ cached' \in {cached, cloud}
    /\ UNCHANGED <<local, gives, observer>>

Init ==
    /\ stage = "gateway" /\ tries = 0
    /\ roundTrip \in BOOLEAN
    /\ gives \in [Endpoints -> FieldSets]
    /\ home = [uid |-> NoValue, offset |-> NoValue] /\ target = home
    /\ renewed = FALSE /\ pending = "open" /\ probeSeen = FALSE /\ outcome = "open"
    /\ cloud \in [uid : Uids, offset : 0..MaxOffset]
    /\ cached \in [uid : {cloud.uid}, offset : 0..MaxOffset]
    /\ moves = 0
    /\ origin = cloud /\ lastTaken = "none"
    /\ accepted = FALSE /\ misled = FALSE

Step ==
    \/ PullGateway \/ PullWeb \/ LoadReaderState
    \/ EnterRead \/ UploadPosition \/ RenewCookie
    \/ UploadProbe \/ WaitForPosition \/ RestorePosition

Next == Step \/ Interrupt \/ Kill \/ OtherDevice

\* Every request has a timeout of 30 s: the script goes on.
Spec == Init /\ [][Next]_vars /\ WF_vars(Step)

(*------------------------------ properties ------------------------------*)

TypeOK ==
    /\ stage \in Stages /\ tries \in 0..3
    /\ roundTrip \in BOOLEAN /\ renewed \in BOOLEAN /\ probeSeen \in BOOLEAN
    /\ accepted \in BOOLEAN /\ misled \in BOOLEAN
    /\ gives \in [Endpoints -> FieldSets]
    /\ home \in Answer /\ target \in Answer
    /\ pending \in Outcomes /\ outcome \in Outcomes
    /\ cloud \in Position /\ cached \in Position /\ origin \in Position
    /\ lastTaken \in {"none", "enter", "upload", "probe", "restore", "refused"}
    /\ moves \in 0..MaxMoves

\* What the answers are worth: none was an old one, no other device moved, and the
\* endpoints that are compared give the offset.
Reliable ==
    ~misled /\ moves = 0 /\ \A e \in {"gateway", "web"} : "offset" \in gives[e]

\* The finally block (lines 678-685): whatever goes wrong once the probe is out, the
\* last position that the service took of a run is not the probe's, unless the process
\* dies, a Ctrl-C comes in the finally block itself, or the service did not take the
\* restoration ("refused"), which the block sends once and does not repeat.
ProbeIsTakenBack ==
    stage = "done" /\ outcome # "killed" /\ (outcome = "interrupted" => pending = outcome)
        => lastTaken # "probe"

\* "the original cloud position" (line 689) is told to be away or in place as it is:
\* with reliable answers that hold the chapter, a run that reports a difference has one.
AlarmMeansMoved ==
    outcome \in {"unrestored", "differs"} /\ Reliable
        /\ (\A e \in {"gateway", "web"} : "uid" \in gives[e])
        => cloud # origin

\* How the run looks to ReversibleWrite.
Nearby(p) ==
    {[p EXCEPT !.offset = o] :
        o \in {p.offset, p.offset + ProbeDistance, p.offset - ProbeDistance} \intersect Nat}

Verdict == CASE outcome = "open" -> "open" [] outcome = "ok" -> "passed" [] OTHER -> "failed"

Promise == INSTANCE ReversibleWrite WITH
    Positions <- Position, Near <- Nearby,
    position <- cloud, written <- accepted, disturbed <- ~Reliable, verdict <- Verdict

\* The run keeps what ReversibleWrite promises: "protocol validation passed" (line 712)
\* means that an upload was taken and that the position is the one it was, and at no
\* time is the position further from it than the probe.
KeepsPromise == Promise!Spec

\* The script ends: each of its retries is bounded.
Ends == <>(stage = "done")

================================================================================
