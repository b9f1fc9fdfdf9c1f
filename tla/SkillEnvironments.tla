--------------------------- MODULE SkillEnvironments ---------------------------
(***************************************************************************)
(* Preparation of the image of one skill bundle: SkillEnvironments of the  *)
(* sandbox manager and its SkillBuildRecords.  Builds run in a pool of one *)
(* worker; callers look at the image, then at the future in `pending'.     *)
(*                                                                         *)
(* An action is one engine call (image_id and the steps of a build), one   *)
(* critical section of `lock', or one wait on a future.  Builds are        *)
(* numbered in the order of their submission.                              *)
(***************************************************************************)
EXTENDS Naturals, FiniteSets

CONSTANTS
    Prepares,    \* start(retry_failed=True): an installation, a retry
    Polls,       \* status
    Scripts,     \* ready_image: a script call that needs the image
    MaxBuilds,   \* bound
    MaxTroubles  \* bound: engine or file calls that raise, restarts, image removals and imports

VARIABLES
    image,       \* the image exists
    latest,      \* pending[image]: the latest build, 0 for none
    submitted,   \* builds submitted so far, also before a restart
    build,       \* the future of a build, and where its thread is
    record,      \* status of the record of a build
    caller,      \* progress of a caller: pc, and the build it waits for
    reply,       \* what a caller answered
    seen,        \* callers during whose call the image existed or its build ended
    unwritten,   \* builds whose record could not be brought to its end
    envTroubles

envVars ==
    <<image, latest, submitted, build, record, caller, reply, seen, unwritten, envTroubles>>

buildVars == <<latest, submitted, build, record, unwritten>>
callerVars == <<caller, reply, seen>>

Builds == 1..MaxBuilds
Callers == Prepares \cup Polls \cup Scripts
Answers == {"none", "ready", "preparing", "failed", "image", "error"}

\* Where the thread of a build is; "queued" until the worker takes it.
Working == {"record", "attempt", "commit", "finish", "remove", "unlink", "fail", "unlink failed"}
Over == {"ok", "failed"}

EnvInit ==
    /\ image \in BOOLEAN
    /\ latest = 0 /\ submitted = 0
    /\ build = [b \in Builds |-> "none"]
    /\ record = [b \in Builds |-> "none"]
    /\ caller = [c \in Callers |-> [pc |-> "new", on |-> 0]]
    /\ reply = [c \in Callers |-> "none"]
    /\ seen = {} /\ unwritten = {}
    /\ envTroubles = 0

EnvTrouble == envTroubles < MaxTroubles /\ envTroubles' = envTroubles + 1

At(c, pc) == caller[c].pc = pc
Go(c, pc) == caller' = [caller EXCEPT ![c].pc = pc] /\ UNCHANGED reply
Answer(c, a) == /\ reply' = [reply EXCEPT ![c] = a]
                /\ caller' = [caller EXCEPT ![c].pc = "done"]
Active == {c \in Callers : caller[c].pc \notin {"new", "done"}}
\* The image exists after this step: every call in progress has seen it.
ImageIs(exists) == /\ image' = exists
                   /\ seen' = IF exists THEN seen \cup Active ELSE seen

------------------------------------------------------------------------------
(* Callers. *)

Call(c) ==
    /\ At(c, "new")
    /\ seen' = IF image THEN seen \cup {c} ELSE seen
    /\ Go(c, IF c \in Prepares THEN "start" ELSE "look")
    /\ UNCHANGED <<image, buildVars, envTroubles>>

\* The first look of status and ready_image.
Look(c) ==
    /\ At(c, "look")
    /\ IF image THEN Answer(c, IF c \in Scripts THEN "image" ELSE "ready")
       ELSE Go(c, IF c \in Scripts THEN "start" ELSE "status")
    /\ UNCHANGED <<image, buildVars, seen, envTroubles>>

StateOfBuild(b) == IF build[b] = "failed" THEN "failed" ELSE "preparing"

\* After a restart of the manager a poll resumes the preparation.
StatusOf(c) ==
    /\ At(c, "status")
    /\ IF latest = 0 THEN Go(c, "start") ELSE Answer(c, StateOfBuild(latest))
    /\ UNCHANGED <<image, buildVars, seen, envTroubles>>

StartLook(c) ==
    /\ At(c, "start")
    /\ IF ~image THEN Go(c, "submit")
       ELSE IF c \in Scripts THEN Go(c, "get") ELSE Answer(c, "ready")
    /\ UNCHANGED <<image, buildVars, seen, envTroubles>>

\* Mutant of Repeats: a build that succeeded is taken for the image.
RepeatsFailures(c) == latest = 0 \/ (build[latest] = "failed" /\ c \in Prepares)

\* A build that is over is repeated if it succeeded (the image has gone) or if
\* the caller retries failures.
Repeats(c) == latest = 0 \/ build[latest] = "ok"
                          \/ (build[latest] = "failed" /\ c \in Prepares)

Submit(c) ==
    /\ At(c, "submit")
    /\ IF Repeats(c)
       THEN /\ submitted < MaxBuilds
            /\ submitted' = submitted + 1
            /\ latest' = submitted'
            /\ build' = [build EXCEPT ![latest'] = "queued"]
       ELSE UNCHANGED <<latest, submitted, build>>
    /\ IF c \in Scripts THEN Go(c, "get")
       ELSE Answer(c, IF Repeats(c) THEN "preparing" ELSE StateOfBuild(latest))
    /\ UNCHANGED <<image, record, seen, unwritten, envTroubles>>

\* An image that appeared since the first look has no future: KeyError.
GetFuture(c) ==
    /\ At(c, "get")
    /\ IF latest = 0 THEN Answer(c, "error")
       ELSE caller' = [caller EXCEPT ![c] = [pc |-> "wait", on |-> latest]] /\ UNCHANGED reply
    /\ UNCHANGED <<image, buildVars, seen, envTroubles>>

AwaitFuture(c) ==
    /\ At(c, "wait")
    /\ \/ build[caller[c].on] = "ok" /\ Answer(c, "image")
       \/ build[caller[c].on] = "failed" /\ Answer(c, "failed")
       \/ build[caller[c].on] \notin Over /\ Answer(c, "preparing")   \* five seconds
    /\ UNCHANGED <<image, buildVars, seen, envTroubles>>

------------------------------------------------------------------------------
(* _build *)

BuildAt(b, pc) == build[b] = pc
BuildTo(b, pc) == build' = [build EXCEPT ![b] = pc]

\* The pool has one worker.
TakeBuild(b) ==
    /\ BuildAt(b, "queued")
    /\ \A d \in Builds : build[d] \notin Working
    /\ BuildTo(b, "record")
    /\ UNCHANGED <<image, latest, submitted, record, callerVars, unwritten, envTroubles>>

CreateRecord(b) ==
    /\ BuildAt(b, "record")
    /\ record' = [record EXCEPT ![b] = "preparing"]
    /\ BuildTo(b, "attempt")
    /\ UNCHANGED <<image, latest, submitted, callerVars, unwritten, envTroubles>>

\* The installer runs, with one source of packages after the other, each in a
\* fresh container, until it succeeds or has failed.
Attempt(b) ==
    /\ BuildAt(b, "attempt")
    /\ BuildTo(b, "commit") \/ BuildTo(b, "fail")
    /\ UNCHANGED <<image, latest, submitted, record, callerVars, unwritten, envTroubles>>

Commit(b) ==
    /\ BuildAt(b, "commit")
    /\ ImageIs(TRUE)
    /\ BuildTo(b, "finish")
    /\ UNCHANGED <<latest, submitted, record, caller, reply, unwritten, envTroubles>>

FinishRecord(b) ==
    /\ build[b] \in {"finish", "fail"}
    /\ record' = [record EXCEPT ![b] = IF BuildAt(b, "finish") THEN "ready" ELSE "failed"]
    /\ BuildTo(b, IF BuildAt(b, "finish") THEN "remove" ELSE "unlink failed")
    /\ UNCHANGED <<image, latest, submitted, callerVars, unwritten, envTroubles>>

RemoveContainer(b) ==
    /\ BuildAt(b, "remove")
    /\ BuildTo(b, "unlink")
    /\ UNCHANGED <<image, latest, submitted, record, callerVars, unwritten, envTroubles>>

RemoveNetwork(b) ==
    /\ build[b] \in {"unlink", "unlink failed"}
    /\ IF BuildAt(b, "unlink") THEN BuildTo(b, "ok") /\ seen' = seen \cup Active
       ELSE BuildTo(b, "failed") /\ UNCHANGED seen
    /\ UNCHANGED <<image, latest, submitted, record, caller, reply, unwritten, envTroubles>>

\* A call that raises inside the try block leads to its except clause, even
\* after the commit; before the try block and in the last clause it ends the
\* build.
BuildRaises(b) ==
    /\ build[b] \in Working
    /\ EnvTrouble
    /\ BuildTo(b, IF build[b] \in {"record", "fail", "unlink", "unlink failed"}
                  THEN "failed" ELSE "fail")
    /\ unwritten' = IF BuildAt(b, "fail") THEN unwritten \cup {b} ELSE unwritten
    /\ IF BuildAt(b, "commit") THEN ImageIs(TRUE) \/ UNCHANGED <<image, seen>>
       ELSE UNCHANGED <<image, seen>>
    /\ UNCHANGED <<latest, submitted, record, caller, reply>>

------------------------------------------------------------------------------
(* The image cache is pruned, or an archive imported. *)
ImageChanges ==
    /\ EnvTrouble
    /\ ImageIs(~image)
    /\ UNCHANGED <<buildVars, caller, reply>>

\* Mutant of ManagerRestarts: interrupted builds are not looked for.
RestartsOnly ==
    /\ EnvTrouble
    /\ latest' = 0
    /\ build' = [b \in Builds |->
          IF build[b] \in Working \cup {"queued"} THEN "failed" ELSE build[b]]
    /\ caller' = [c \in Callers |->
          IF At(c, "new") THEN caller[c] ELSE [caller[c] EXCEPT !.pc = "done"]]
    /\ UNCHANGED <<image, record, submitted, reply, seen, unwritten>>

\* recover_interrupted runs before requests are served.
ManagerRestarts ==
    /\ EnvTrouble
    /\ latest' = 0
    /\ build' = [b \in Builds |-> IF build[b] \in Working \cup {"queued"}
                            THEN "failed" ELSE build[b]]
    /\ record' = [b \in Builds |-> IF record[b] = "preparing" THEN "interrupted" ELSE record[b]]
    /\ caller' = [c \in Callers |->
          IF At(c, "new") THEN caller[c] ELSE [caller[c] EXCEPT !.pc = "done"]]
    /\ UNCHANGED <<image, submitted, reply, seen, unwritten>>

CallerStep(c) ==
    \/ Look(c) \/ StatusOf(c) \/ StartLook(c) \/ Submit(c) \/ GetFuture(c) \/ AwaitFuture(c)

BuildStep(b) ==
    \/ CreateRecord(b) \/ Attempt(b) \/ Commit(b) \/ FinishRecord(b)
    \/ RemoveContainer(b) \/ RemoveNetwork(b)

EnvNext ==
    \/ \E c \in Callers : Call(c) \/ CallerStep(c)
    \/ \E b \in Builds : TakeBuild(b) \/ BuildStep(b) \/ BuildRaises(b)
    \/ ImageChanges \/ ManagerRestarts

\* The worker takes the next build when it is free, and an installation ends,
\* or is ended by its deadline.
EnvFairness == \A b \in Builds : WF_envVars(TakeBuild(b)) /\ WF_envVars(BuildStep(b))

EnvSpec == EnvInit /\ [][EnvNext]_envVars

------------------------------------------------------------------------------
(* Properties. *)

EnvTypeOK ==
    /\ latest \in 0..submitted /\ submitted \in 0..MaxBuilds
    /\ \A b \in Builds :
          /\ build[b] \in {"none", "queued"} \cup Working \cup Over
          /\ record[b] \in {"none", "preparing", "ready", "failed", "interrupted"}
    /\ \A c \in Callers : reply[c] \in Answers

\* A script is given an image that existed, or was built, while it was called:
\* the success of an earlier build is never taken for the image, which may have
\* been pruned since.
AnsweredImageExisted == \A c \in Callers : reply[c] = "image" => c \in seen

\* A record that says `preparing' has a build that prepares, also after a
\* restart, unless it could not be written.
RecordsAreHonest ==
    \A b \in Builds \ unwritten : record[b] = "preparing" => build[b] \in Working

\* A preparation that was submitted ends, one build at a time.
BuildsAreOver == \A b \in Builds : build[b] \in {"none"} \cup Over

\* "reuses existing image and rebuilds only after cache removal".  This does not
\* hold: a caller that looked for the image before a build had committed it finds
\* that build over and submits another one.
RebuildsOnlyAfterRemoval ==
    [][submitted' > submitted => ~image \/ \A b \in Builds : build[b] # "ok"]_envVars
===============================================================================
