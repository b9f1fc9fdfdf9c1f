------------------------ MODULE KnowledgeVersions_proofs ------------------------
(***************************************************************************)
(* Proofs about module KnowledgeVersions, for any finite set of uploads    *)
(* and any number of requests, jobs, retries, callbacks and failures.      *)
(*                                                                         *)
(* The argument.  The versions are ranked as they are brought in, the one  *)
(* in processing is the latest (Latest), and only it, or the active one    *)
(* itself, is ever switched in: KnowledgeInv, and NeverSwitchedBack.       *)
(*                                                                         *)
(* Availability needs more, AvailableInv, because a callback decides in    *)
(* one step and removes in a later one.  Top is the latest version that is *)
(* still of interest.  What a callback has found superseded stays so, as   *)
(* Top only moves up; so the version it removes is neither Top nor the     *)
(* active one by then (Removing), and the version that is switched in is   *)
(* Top and has the vectors its job has written (Indexed).  As long as      *)
(* nothing fails, an indexed version is the active one or in the hands of  *)
(* a callback that will switch it in or remove it (Settling).              *)
(***************************************************************************)
EXTENDS KnowledgeVersions, FiniteSetTheorems, TLAPS

AskedSteps == {"new", "processing", "check", "request", "record", "refused", "delete",
               "deleted", "done"}
WithVersion == {"processing", "check", "request", "record", "refused"}
VersionOrNobody == Versions \cup {Nobody}

AskedType == asked \in
    [Requests -> [pc : AskedSteps, on : VersionOrNobody, then : VersionOrNobody,
                  task : Tasks \cup {0}]]
JobSteps == {"none", "queued", "indexing", "posted", "failing", "over"}
TaskType == task \in
    [Tasks -> [kind : {"none", "parse", "index"}, of : VersionOrNobody, pc : JobSteps, tries : Nat]]
Callbacks == [pc : {"idle", "find", "fail", "rows", "insert", "parsed", "request", "queue",
                    "indexed", "activate", "stale", "remove"},
              task : Tasks \cup {0}, says : {"none", "succeeded", "failed"},
              previous : VersionOrNobody, indexer : Tasks \cup {0}]
HandlerType == handler \in [Handlers -> Callbacks]
ResourceType == resource \in
    [active : VersionOrNobody, processing : VersionOrNobody, deleted : BOOLEAN]
RankType == rank \in [Versions -> Nat]

\* Tasks, callbacks and the requests that ask for a task are about a version.
TaskFrame ==
    \A j \in Tasks :
        /\ task[j].kind # "none" => task[j].of \in Versions
        /\ task[j].pc # "none" => task[j].kind # "none"
HandlerFrame == \A h \in Handlers : handler[h].pc # "idle" =>
                    handler[h].task \in Tasks /\ task[handler[h].task].kind # "none"
AskedFrame == \A q \in Requests : asked[q].pc \in WithVersion => asked[q].on \in Versions

Ranked == {v \in Versions : rank[v] > 0}
RankBound == \A v \in Versions : rank[v] <= Cardinality(Ranked)
UploadIsFresh == \A u \in Uploads : asked[u].pc \in {"new", "processing"} => rank[u] = 0
Latest == resource.processing # Nobody =>
              \A v \in Versions : v # resource.processing => rank[v] < rank[resource.processing]

Jobs == TaskType /\ HandlerType /\ TaskFrame /\ HandlerFrame
Asks == AskedType /\ AskedFrame
Order == ResourceType /\ RankType /\ RankBound /\ UploadIsFresh /\ Latest
KnowledgeInv == Jobs /\ Asks /\ Order

LEMMA KnowledgeInitInv == KnowledgeInit => KnowledgeInv
<1> SUFFICES ASSUME KnowledgeInit PROVE KnowledgeInv
  OBVIOUS
<1>1. Jobs
  BY DEF KnowledgeInit, Jobs, TaskType, JobSteps, HandlerType, Callbacks, TaskFrame, HandlerFrame, NoTask, Idle,
         VersionOrNobody
<1>2. Asks
  BY DEF KnowledgeInit, Asks, AskedType, AskedFrame, NewRequest, AskedSteps, WithVersion,
         VersionOrNobody
<1>3. Ranked = {}
  BY DEF KnowledgeInit, Ranked
<1>4. Order
  BY <1>3, FS_EmptySet DEF KnowledgeInit, Order, ResourceType, RankType, RankBound,
     UploadIsFresh, Latest, VersionOrNobody, Versions
<1> QED
  BY <1>1, <1>2, <1>4 DEF KnowledgeInv

------------------------------------------------------------------------------
(* What the parts of a step preserve.                                       *)

\* Tasks keep their kind and version.
LEMMA HandlersKeep ==
    ASSUME Jobs, TaskType', HandlerType', TaskFrame',
           \A j \in Tasks : task[j].kind # "none" => task'[j].kind # "none",
           \A h \in Handlers : handler'[h].pc # "idle" =>
               \/ handler[h].pc # "idle" /\ handler'[h].task = handler[h].task
               \/ handler'[h].task \in Tasks /\ task[handler'[h].task].kind # "none"
    PROVE  Jobs'
BY DEF Jobs, HandlerFrame

LEMMA TaskPcKeeps ==
    ASSUME Jobs, NEW j \in Tasks, task[j].kind # "none", NEW t,
           task' = [task EXCEPT ![j] = t],
           t \in [kind : {task[j].kind}, of : {task[j].of}, pc : JobSteps, tries : Nat]
    PROVE  /\ TaskType' /\ TaskFrame'
           /\ \A i \in Tasks : task'[i].kind = task[i].kind /\ task'[i].of = task[i].of
BY DEF Jobs, TaskType, JobSteps, TaskFrame

LEMMA RaisedKeeps ==
    ASSUME Jobs, NEW j \in Tasks, task[j].kind # "none", Raised(j)
    PROVE  /\ TaskType' /\ TaskFrame'
           /\ \A i \in Tasks : task'[i].kind = task[i].kind /\ task'[i].of = task[i].of
<1>1. Again(task[j]) \in
         [kind : {task[j].kind}, of : {task[j].of}, pc : JobSteps, tries : Nat]
  <2>1. CASE task[j].tries < MaxRetries
    <3>1. PICK n \in Nat : n = task[j].tries + 1
      BY DEF Jobs, TaskType, JobSteps
    <3>2. Again(task[j]) = [task[j] EXCEPT !.pc = "queued", !.tries = n]
      BY <2>1, <3>1, Zenon DEF Again
    <3>3. ASSUME NEW t \in [kind : {task[j].kind}, of : {task[j].of}, pc : JobSteps, tries : Nat]
          PROVE  [t EXCEPT !.pc = "queued", !.tries = n] \in
                    [kind : {task[j].kind}, of : {task[j].of}, pc : JobSteps, tries : Nat]
      BY DEF JobSteps
    <3>4. task[j] \in [kind : {task[j].kind}, of : {task[j].of}, pc : JobSteps, tries : Nat]
      BY DEF Jobs, TaskType
    <3> QED
      BY <3>2, <3>3, <3>4
  <2>2. CASE ~(task[j].tries < MaxRetries)
    BY <2>2 DEF Jobs, TaskType, JobSteps, Again
  <2> QED
    BY <2>1, <2>2
<1> QED
  BY <1>1, TaskPcKeeps DEF Raised

LEMMA TaskToKeeps ==
    ASSUME Jobs, NEW j \in Tasks, task[j].kind # "none",
           NEW pc \in {"queued", "indexing", "posted"}, TaskTo(j, pc)
    PROVE  /\ TaskType' /\ TaskFrame'
           /\ \A i \in Tasks : task'[i].kind = task[i].kind /\ task'[i].of = task[i].of
<1>1. [task[j] EXCEPT !.pc = pc] \in
         [kind : {task[j].kind}, of : {task[j].of}, pc : JobSteps, tries : Nat]
  BY DEF Jobs, TaskType, JobSteps
<1> QED
  BY <1>1, TaskPcKeeps DEF TaskTo

LEMMA NewTaskKeeps ==
    ASSUME Jobs, NEW n \in Tasks, NEW v \in Versions, NEW kind \in {"parse", "index"},
           NewTask(kind, v, n)
    PROVE  /\ TaskType' /\ TaskFrame'
           /\ \A i \in Tasks : task[i].kind # "none" => task'[i].kind # "none" /\ task'[i] = task[i]
           /\ \A i \in Tasks : task'[i].kind # "none" => task[i].kind # "none" \/ task'[i].of = v
<1>1. n \in Nat
  BY DEF Tasks
<1>2. task[n].kind = "none"
  BY <1>1 DEF NewTask
<1>3. task' = [task EXCEPT ![n] = [kind |-> kind, of |-> v, pc |-> "queued", tries |-> 0]]
  BY DEF NewTask
<1>4. \A i \in Tasks : i # n => task'[i] = task[i]
  BY <1>3 DEF Jobs, TaskType, JobSteps
<1>5. /\ task'[n].kind = kind /\ task'[n].of = v
  BY <1>3 DEF Jobs, TaskType, JobSteps
<1>6. TaskType' /\ TaskFrame'
  BY <1>3 DEF Jobs, TaskType, JobSteps, TaskFrame, VersionOrNobody
<1> QED
  BY <1>2, <1>4, <1>5, <1>6

LEMMA PostKeeps ==
    ASSUME Jobs, NEW j \in Tasks, NEW says \in {"succeeded", "failed"},
           task[j].kind # "none", Post(j, says), TaskTo(j, "posted")
    PROVE  Jobs'
<1>1. PICK h \in Free :
         handler' = [handler EXCEPT ![h] = [Idle EXCEPT !.pc = "find", !.task = j, !.says = says]]
  BY DEF Post
<1>2. h \in Handlers
  BY DEF Free
<1>3. HandlerType'
  BY <1>1, <1>2 DEF Jobs, HandlerType, Callbacks, Idle, VersionOrNobody
<1>4. \A k \in Handlers : handler'[k] = handler[k] \/ handler'[k].task = j
  BY <1>1, <1>2 DEF Jobs, HandlerType, Callbacks, Idle
<1> QED
  BY <1>3, <1>4, TaskToKeeps, HandlersKeep

LEMMA AnswerKeeps ==
    ASSUME Jobs, NEW h \in Handlers, NEW ok \in BOOLEAN, handler[h].pc # "idle", Answer(h, ok)
    PROVE  /\ Jobs'
           /\ \A i \in Tasks : task'[i].kind = task[i].kind /\ task'[i].of = task[i].of
<1> DEFINE j == handler[h].task
<1>1. j \in Tasks /\ task[j].kind # "none"
  BY DEF Jobs, HandlerFrame
<1>2. HandlerType' /\ \A k \in Handlers : handler'[k] = handler[k] \/ handler'[k].pc = "idle"
  BY DEF Answer, Jobs, HandlerType, Callbacks, Idle, VersionOrNobody
<1>3. /\ TaskType' /\ TaskFrame'
      /\ \A i \in Tasks : task'[i].kind = task[i].kind /\ task'[i].of = task[i].of
  <2>1. CASE UNCHANGED task
    BY <2>1 DEF Jobs, TaskType, JobSteps, TaskFrame
  <2>2. CASE task' = [task EXCEPT ![j] = [task[j] EXCEPT !.pc = "over", !.tries = 0]]
    <3>1. [task[j] EXCEPT !.pc = "over", !.tries = 0] \in
             [kind : {task[j].kind}, of : {task[j].of}, pc : JobSteps, tries : Nat]
      BY <1>1 DEF Jobs, TaskType, JobSteps
    <3> QED
      BY <1>1, <2>2, <3>1, TaskPcKeeps
  <2>3. CASE Raised(j)
    BY <1>1, <2>3, RaisedKeeps
  <2> QED
    BY <2>1, <2>2, <2>3 DEF Answer
<1> QED
  BY <1>2, <1>3, HandlersKeep

LEMMA CallbackHasVersion ==
    ASSUME Jobs, NEW h \in Handlers, handler[h].pc # "idle"
    PROVE  Of(h) \in Versions /\ Of(h) \in VersionOrNobody
<1>1. handler[h].task \in Tasks /\ task[handler[h].task].kind # "none"
  BY DEF Jobs, HandlerFrame
<1>2. \A j \in Tasks : task[j].kind # "none" => task[j].of \in Versions
  BY DEF Jobs, TaskFrame
<1>3. task[handler[h].task].of \in Versions
  BY <1>1, <1>2, Zenon
<1> QED
  BY <1>3 DEF Of, VersionOrNobody

\* A callback that goes on with its own task.
LEMMA HandlerGoesOn ==
    ASSUME Jobs, NEW h \in Handlers, handler[h].pc # "idle", UNCHANGED task,
           NEW pc \in {"fail", "rows", "insert", "parsed", "request", "indexed", "activate",
                       "stale", "remove"},
           NEW previous \in VersionOrNobody,
           handler' = [handler EXCEPT ![h] = [@ EXCEPT !.pc = pc, !.previous = previous]]
    PROVE  Jobs'
<1>1. HandlerType'
  <2>1. ASSUME NEW c \in Callbacks
        PROVE  [c EXCEPT !.pc = pc, !.previous = previous] \in Callbacks
    BY DEF Callbacks
  <2> QED
    BY <2>1 DEF Jobs, HandlerType
<1>2. \A k \in Handlers : handler'[k].task = handler[k].task /\ (k # h => handler'[k] = handler[k])
  BY DEF Jobs, HandlerType, Callbacks
<1> QED
  BY <1>1, <1>2 DEF Jobs, TaskType, JobSteps, TaskFrame, HandlerFrame

LEMMA NextKeeps ==
    ASSUME Jobs, NEW h \in Handlers, handler[h].pc # "idle", UNCHANGED task,
           NEW pc \in {"fail", "rows", "insert", "parsed", "request", "indexed", "activate",
                       "stale", "remove"},
           Next1(h, pc)
    PROVE  Jobs'
<1>1. HandlerType'
  BY DEF Jobs, HandlerType, Callbacks, Next1
<1>2. \A k \in Handlers : handler'[k].task = handler[k].task /\ (k # h => handler'[k] = handler[k])
  BY DEF Jobs, HandlerType, Callbacks, Next1
<1> QED
  BY <1>1, <1>2 DEF Jobs, TaskType, JobSteps, TaskFrame, HandlerFrame

LEMMA JobsStay ==
    ASSUME Jobs, UNCHANGED <<task, handler>>
    PROVE  Jobs'
BY DEF Jobs, TaskType, JobSteps, HandlerType, Callbacks, TaskFrame, HandlerFrame

\* No upload becomes fresh again.
Fresher == \A u \in Uploads : asked'[u].pc \in {"new", "processing"} =>
               asked[u].pc \in {"new", "processing"}

LEMMA OrderStays ==
    ASSUME Order, UNCHANGED <<resource, rank>>, Fresher
    PROVE  Order'
BY DEF Order, ResourceType, RankType, RankBound, Ranked, UploadIsFresh, Latest, Fresher

LEMMA GoKeeps ==
    ASSUME Asks, NEW q \in Requests, NEW pc \in AskedSteps \ {"new", "processing"},
           asked[q].pc \in WithVersion \/ pc \notin WithVersion, Go(q, pc)
    PROVE  Asks' /\ Fresher
<1>1. CASE pc = "done"
  <2>1. DoneRequest \in [pc : {"done"}, on : VersionOrNobody, then : VersionOrNobody,
                         task : Tasks \cup {0}]
    BY DEF DoneRequest, NewRequest, VersionOrNobody
  <2>2. asked' = [asked EXCEPT ![q] = DoneRequest]
    BY <1>1 DEF Go
  <2> QED
    BY <2>1, <2>2 DEF Asks, AskedType, AskedFrame, AskedSteps, WithVersion, Fresher, Requests
<1>2. CASE pc # "done"
  <2>1. asked' = [asked EXCEPT ![q] = [asked[q] EXCEPT !.pc = pc]]
    BY <1>2 DEF Go
  <2> QED
    BY <2>1 DEF Asks, AskedType, AskedFrame, AskedSteps, WithVersion, Fresher, Requests
<1> QED
  BY <1>1, <1>2

------------------------------------------------------------------------------
(* The steps of the requests.                                               *)

LEMMA InsertDocumentKeeps ==
    ASSUME KnowledgeInv, NEW u \in Uploads, InsertDocument(u)
    PROVE  KnowledgeInv'
<1> USE DEF KnowledgeInv
<1>1. asked' = [asked EXCEPT ![u] = [asked[u] EXCEPT !.pc = "processing", !.on = u]]
  BY DEF InsertDocument
<1>2. asked[u].pc = "new" /\ u \in Requests /\ u \in Versions
  BY DEF InsertDocument, New, At, Requests, Versions
<1>3. Asks' /\ Fresher
  BY <1>1, <1>2 DEF Asks, AskedType, AskedFrame, AskedSteps, WithVersion, Fresher, Requests,
     VersionOrNobody
<1> QED
  BY <1>3, OrderStays, JobsStay DEF InsertDocument, history

\* The version in processing gets the highest rank.
LEMMA SetProcessingKeeps ==
    ASSUME KnowledgeInv, NEW u \in Uploads, SetProcessing(u)
    PROVE  KnowledgeInv'
<1> USE DEF KnowledgeInv
<1>1. u \in Requests /\ u \in Versions /\ asked[u].pc = "processing" /\ Go(u, "request")
  BY DEF SetProcessing, At, Requests, Versions
<1>2. Asks' /\ Fresher
  BY <1>1, GoKeeps DEF AskedSteps, WithVersion
<1>3. Order'
  <2>1. CASE UNCHANGED <<resource, rank>>
    BY <1>2, <2>1, OrderStays
  <2>2. CASE /\ resource' = [resource EXCEPT !.processing = u]
             /\ rank' = [rank EXCEPT ![u] = 1 + Cardinality(Ranked)]
    <3>1. rank[u] = 0 /\ asked'[u].pc = "request"
      BY <1>1 DEF Order, UploadIsFresh, Go, Asks, AskedType
    <3>2. IsFiniteSet(Ranked) /\ Cardinality(Ranked) \in Nat
      BY UploadsAssumption, FS_Subset, FS_CardinalityType DEF Ranked, Versions
    <3>3. /\ rank' \in [Versions -> Nat] /\ rank'[u] = 1 + Cardinality(Ranked)
          /\ \A v \in Versions : v # u => rank'[v] = rank[v]
      BY <1>1, <2>2, <3>2 DEF Order, RankType
    <3>4. Ranked' = Ranked \cup {u} /\ u \notin Ranked
      BY <1>1, <3>1, <3>2, <3>3 DEF Ranked, Order, RankType
    <3>5. Cardinality(Ranked') = Cardinality(Ranked) + 1
      BY <3>2, <3>4, FS_AddElement
    <3>6. \A v \in Versions : rank'[v] <= Cardinality(Ranked') /\ (v # u => rank'[v] < rank'[u])
      BY <3>2, <3>3, <3>5 DEF Order, RankBound, RankType
    <3>7. resource'.processing = u /\ ResourceType'
      BY <1>1, <2>2 DEF Order, ResourceType, VersionOrNobody
    <3>8. UploadIsFresh'
      <4>1. \A w \in Uploads : w # u => rank'[w] = rank[w]
        BY <3>3 DEF Versions
      <4> QED
        BY <1>2, <3>1, <4>1 DEF Order, UploadIsFresh, Fresher
    <3> QED
      BY <3>3, <3>6, <3>7, <3>8 DEF Order, RankType, RankBound, Latest
  <2> QED
    BY <2>1, <2>2 DEF SetProcessing, Ranked
<1> QED
  BY <1>2, <1>3, JobsStay DEF SetProcessing

LEMMA ChooseVersionKeeps ==
    ASSUME KnowledgeInv, NEW r \in Relearns, ChooseVersion(r)
    PROVE  KnowledgeInv'
<1> USE DEF KnowledgeInv
<1> DEFINE v == IF resource.processing # Nobody THEN resource.processing ELSE resource.active
<1>1. r \in Requests /\ asked[r].pc = "new"
  BY DEF ChooseVersion, New, At, Requests
<1>2. Asks' /\ Fresher
  <2>1. CASE Go(r, "done")
    BY <1>1, <2>1, GoKeeps DEF AskedSteps, WithVersion
  <2>2. CASE v # Nobody /\ asked' = [asked EXCEPT ![r] = [asked[r] EXCEPT !.pc = "check", !.on = v]]
    <3>1. v \in Versions
      BY <2>2 DEF Order, ResourceType, VersionOrNobody
    <3> HIDE DEF v
    <3> QED
      BY <1>1, <2>2, <3>1 DEF Asks, AskedType, AskedFrame, AskedSteps, WithVersion, Fresher,
         Requests, VersionOrNobody
  <2> QED
    BY <2>1, <2>2 DEF ChooseVersion
<1> QED
  BY <1>2, OrderStays, JobsStay DEF ChooseVersion, stores, history

LEMMA ReadResourceKeeps ==
    ASSUME KnowledgeInv, NEW x \in Deletions, ReadResource(x)
    PROVE  KnowledgeInv'
<1> USE DEF KnowledgeInv
<1>1. x \in Requests /\ asked[x].pc = "new"
  BY DEF ReadResource, New, At, Requests
<1>2. Asks' /\ Fresher
  <2>1. CASE Go(x, "done")
    BY <1>1, <2>1, GoKeeps DEF AskedSteps, WithVersion
  <2>2. CASE asked' = [asked EXCEPT ![x] = [asked[x] EXCEPT
                 !.pc = "delete", !.on = resource.active, !.then = resource.processing]]
    <3>1. resource.active \in VersionOrNobody /\ resource.processing \in VersionOrNobody
      BY DEF Order, ResourceType
    <3> QED
      BY <1>1, <2>2, <3>1 DEF Asks, AskedType, AskedFrame, AskedSteps, WithVersion, Fresher, Requests
  <2> QED
    BY <2>1, <2>2 DEF ReadResource
<1> QED
  BY <1>2, OrderStays, JobsStay DEF ReadResource, stores, history

LEMMA DeleteVersionKeeps ==
    ASSUME KnowledgeInv, NEW x \in Requests, DeleteVersion(x)
    PROVE  KnowledgeInv'
<1> USE DEF KnowledgeInv
<1> DEFINE rest == IF asked[x].on # Nobody THEN asked[x].then ELSE Nobody
<1>1. asked[x].pc = "delete"
  BY DEF DeleteVersion, At
<1>2. Asks' /\ Fresher
  <2>1. CASE Go(x, "done") \/ Go(x, "deleted")
    BY <1>1, <2>1, GoKeeps DEF AskedSteps, WithVersion
  <2>2. CASE asked' = [asked EXCEPT ![x] = [asked[x] EXCEPT !.on = Nobody, !.then = rest]]
    <3>1. rest \in VersionOrNobody
      BY DEF Asks, AskedType, VersionOrNobody
    <3> HIDE DEF rest
    <3> QED
      BY <1>1, <2>2, <3>1 DEF Asks, AskedType, AskedFrame, AskedSteps, WithVersion, Fresher,
         Requests, VersionOrNobody
  <2> QED
    BY <2>1, <2>2 DEF DeleteVersion
<1> QED
  BY <1>2, OrderStays, JobsStay DEF DeleteVersion, history

LEMMA MarkDeletedKeeps ==
    ASSUME KnowledgeInv, NEW x \in Requests, MarkDeleted(x)
    PROVE  KnowledgeInv'
<1> USE DEF KnowledgeInv
<1>1. Asks' /\ Fresher
  BY GoKeeps DEF MarkDeleted, At, AskedSteps, WithVersion
<1>2. /\ ResourceType' /\ resource'.processing = resource.processing /\ UNCHANGED rank
  BY DEF MarkDeleted, history, Order, ResourceType
<1>3. Order'
  BY <1>1, <1>2 DEF Order, RankType, RankBound, Ranked, UploadIsFresh, Latest, Fresher
<1> QED
  BY <1>1, <1>3, JobsStay DEF MarkDeleted

\* The requests that only go on.
LEMMA RequestGoesKeeps ==
    ASSUME KnowledgeInv, NEW q \in Requests,
           CheckDocument(q) \/ RequestRefused(q) \/ RecordRefusal(q) \/ RecordParse(q) \/ RequestLost(q)
    PROVE  KnowledgeInv'
<1> USE DEF KnowledgeInv
<1>1. Asks' /\ Fresher
  <2>1. CASE CheckDocument(q)
    BY <2>1, GoKeeps DEF CheckDocument, At, AskedSteps, WithVersion
  <2>2. CASE RequestRefused(q)
    BY <2>2, GoKeeps DEF RequestRefused, At, AskedSteps, WithVersion
  <2>3. CASE RecordRefusal(q) \/ RecordParse(q) \/ RequestLost(q)
    BY <2>3, GoKeeps DEF RecordRefusal, RecordParse, RequestLost, AskedSteps, WithVersion
  <2> QED
    BY <2>1, <2>2, <2>3
<1>2. UNCHANGED <<resource, rank, task, handler>>
  BY DEF CheckDocument, RequestRefused, RecordRefusal, RecordParse, RequestLost, stores, history
<1> QED
  BY <1>1, <1>2, OrderStays, JobsStay

LEMMA RequestParseKeeps ==
    ASSUME KnowledgeInv, NEW q \in Requests, RequestParse(q)
    PROVE  KnowledgeInv'
<1> USE DEF KnowledgeInv
<1>1. PICK n \in Tasks :
         /\ NewTask("parse", asked[q].on, n)
         /\ asked' = [asked EXCEPT ![q] = [asked[q] EXCEPT !.pc = "record", !.task = n]]
  BY DEF RequestParse
<1>2. asked[q].pc = "request" /\ asked[q].on \in Versions
  BY DEF RequestParse, At, Asks, AskedFrame, WithVersion
<1>3. Jobs'
  <2>1. handler' = handler
    BY DEF RequestParse
  <2>2. HandlerType'
    BY <2>1 DEF Jobs, HandlerType, Callbacks
  <2> QED
    BY <1>1, <1>2, <2>1, <2>2, NewTaskKeeps, HandlersKeep
<1>4. Asks' /\ Fresher
  BY <1>1, <1>2 DEF Asks, AskedType, AskedFrame, AskedSteps, WithVersion, Fresher, Requests
<1> QED
  BY <1>3, <1>4, OrderStays DEF RequestParse, stores, history

------------------------------------------------------------------------------
(* The steps of the parser and of the callbacks.                            *)

LEMMA AsksStay ==
    ASSUME Asks, UNCHANGED asked
    PROVE  Asks' /\ Fresher
BY DEF Asks, AskedType, AskedFrame, Fresher

LEMMA TaskStepKeeps ==
    ASSUME KnowledgeInv, NEW j \in Tasks, TaskStep(j) \/ WorkRaises(j) \/ WorkerLost(j)
    PROVE  KnowledgeInv'
<1> USE DEF KnowledgeInv
<1>1. Jobs'
  <2>1. CASE ParseDone(j)
    BY <2>1, PostKeeps DEF ParseDone
  <2>2. CASE ReadChunks(j)
    <3>1. TaskTo(j, "indexing") /\ handler' = handler
      BY <2>2 DEF ReadChunks
    <3>2. HandlerType'
      BY <3>1 DEF Jobs, HandlerType, Callbacks
    <3> QED
      BY <2>2, <3>1, <3>2, TaskToKeeps, HandlersKeep DEF ReadChunks
  <2>3. CASE IndexDone(j) \/ ReportFailure(j)
    <3>1. task[j].kind # "none"
      BY <2>3 DEF IndexDone, ReportFailure, Jobs, TaskFrame
    <3> QED
      BY <2>3, <3>1, PostKeeps DEF IndexDone, ReportFailure
  <2>4. CASE WorkRaises(j) \/ WorkerLost(j)
    <3>1. handler' = handler /\ (Raised(j) \/ TaskTo(j, "queued"))
      BY <2>4 DEF WorkRaises, WorkerLost
    <3>2. HandlerType'
      BY <3>1 DEF Jobs, HandlerType, Callbacks
    <3>3. task[j].kind # "none"
      BY <2>4 DEF WorkRaises, WorkerLost, Jobs, TaskFrame
    <3> QED
      BY <3>1, <3>2, <3>3, TaskToKeeps, RaisedKeeps, HandlersKeep
  <2> QED
    BY <2>1, <2>2, <2>3, <2>4 DEF TaskStep
<1>2. UNCHANGED <<resource, rank, asked>>
  BY DEF TaskStep, ParseDone, ReadChunks, IndexDone, ReportFailure, WorkRaises, WorkerLost,
     stores, history
<1> QED
  BY <1>1, <1>2, AsksStay, OrderStays

\* A callback that answers or goes on, and leaves the resource alone.
LEMMA HandlerOnlyKeeps ==
    ASSUME KnowledgeInv, Jobs', UNCHANGED <<resource, rank, asked>>
    PROVE  KnowledgeInv'
BY AsksStay, OrderStays DEF KnowledgeInv

LEMMA FindDocumentKeeps ==
    ASSUME KnowledgeInv, NEW h \in Handlers, FindDocument(h)
    PROVE  KnowledgeInv'
<1>1. handler[h].pc = "find" /\ UNCHANGED <<resource, rank, asked>>
  BY DEF FindDocument, Now, stores
<1>2. Jobs
  BY DEF KnowledgeInv
<1>3. Jobs'
  <2>1. CASE Answer(h, FALSE)
    BY <1>1, <1>2, <2>1, AnswerKeeps
  <2>2. CASE /\ \E pc \in {"fail", "rows", "indexed"} : Next1(h, pc)
             /\ UNCHANGED task
    BY <1>1, <1>2, <2>2, NextKeeps
  <2>3. ~Matches(h) => Answer(h, FALSE)
    BY DEF FindDocument
  <2>4. Matches(h) => UNCHANGED task /\ (Next1(h, "fail") \/ Next1(h, "rows") \/ Next1(h, "indexed"))
    BY DEF FindDocument
  <2> QED
    BY <2>1, <2>2, <2>3, <2>4
<1> QED
  BY <1>1, <1>3, HandlerOnlyKeeps

LEMMA AnsweringKeeps ==
    ASSUME KnowledgeInv, NEW h \in Handlers,
           \/ RecordFailure(h) \/ IndexRefused(h) \/ RecordIndex(h) \/ RemoveVersion(h)
           \/ HandlerRaises(h)
    PROVE  KnowledgeInv'
<1>1. handler[h].pc # "idle" /\ UNCHANGED <<resource, rank, asked>>
  BY DEF RecordFailure, IndexRefused, RecordIndex, RemoveVersion, HandlerRaises, Now, stores
<1>2. Answer(h, TRUE) \/ Answer(h, FALSE)
  BY DEF RecordFailure, IndexRefused, RecordIndex, RemoveVersion, HandlerRaises
<1> QED
  BY <1>1, <1>2, AnswerKeeps, HandlerOnlyKeeps DEF KnowledgeInv

LEMMA InsertRowsKeeps ==
    ASSUME KnowledgeInv, NEW h \in Handlers, InsertRows(h)
    PROVE  KnowledgeInv'
<1>1. handler[h].pc = "insert" /\ UNCHANGED <<resource, rank, asked>>
  BY DEF InsertRows, Now
<1>2. Answer(h, FALSE) \/ (Next1(h, "parsed") /\ UNCHANGED task)
  BY DEF InsertRows
<1> QED
  BY <1>1, <1>2, AnswerKeeps, NextKeeps, HandlerOnlyKeeps DEF KnowledgeInv

LEMMA GoingOnKeeps ==
    ASSUME KnowledgeInv, NEW h \in Handlers,
           DeleteRows(h) \/ RecordParsed(h) \/ RecordIndexed(h)
    PROVE  KnowledgeInv'
<1>1. /\ handler[h].pc # "idle" /\ UNCHANGED <<resource, rank, asked, task>>
      /\ Next1(h, "insert") \/ Next1(h, "request") \/ Next1(h, "activate")
  BY DEF DeleteRows, RecordParsed, RecordIndexed, Now, history
<1> QED
  BY <1>1, NextKeeps, HandlerOnlyKeeps DEF KnowledgeInv

LEMMA RequestIndexKeeps ==
    ASSUME KnowledgeInv, NEW h \in Handlers, RequestIndex(h)
    PROVE  KnowledgeInv'
<1> USE DEF KnowledgeInv
<1>1. PICK n \in Tasks :
         /\ NewTask("index", Of(h), n)
         /\ handler' = [handler EXCEPT ![h] = [handler[h] EXCEPT !.pc = "queue", !.indexer = n]]
  BY DEF RequestIndex
<1>2. handler[h].pc = "request" /\ Of(h) \in Versions
  BY CallbackHasVersion DEF RequestIndex, Now
<1>3. HandlerType'
  <2>1. ASSUME NEW c \in Callbacks
        PROVE  [c EXCEPT !.pc = "queue", !.indexer = n] \in Callbacks
    BY DEF Callbacks
  <2> QED
    BY <1>1, <2>1 DEF Jobs, HandlerType
<1>4. \A k \in Handlers : handler'[k].task = handler[k].task /\ (k # h => handler'[k] = handler[k])
  BY <1>1 DEF Jobs, HandlerType, Callbacks
<1>5. Jobs'
  BY <1>1, <1>2, <1>3, <1>4, NewTaskKeeps, HandlersKeep
<1> QED
  BY <1>5, HandlerOnlyKeeps DEF RequestIndex, stores, history

LEMMA CheckStaleKeeps ==
    ASSUME KnowledgeInv, NEW h \in Handlers, CheckStale(h)
    PROVE  KnowledgeInv'
<1> USE DEF KnowledgeInv
<1>1. handler[h].pc = "stale" /\ UNCHANGED <<resource, rank, asked>>
  BY DEF CheckStale, Now, stores
<1>2. Of(h) \in VersionOrNobody
  BY <1>1, CallbackHasVersion
<1>3. Jobs'
  <2>1. CASE Answer(h, TRUE)
    BY <1>1, <2>1, AnswerKeeps
  <2>2. CASE /\ handler' = [handler EXCEPT ![h] =
                   [handler[h] EXCEPT !.pc = "remove", !.previous = Of(h)]]
             /\ UNCHANGED task
    BY <1>1, <1>2, <2>2, HandlerGoesOn
  <2> QED
    BY <2>1, <2>2 DEF CheckStale
<1> QED
  BY <1>1, <1>3, HandlerOnlyKeeps

\* Activation is the only step that changes the active version, and it takes
\* the one in processing, which is the latest.
LEMMA ActivateSwitches ==
    ASSUME KnowledgeInv, NEW h \in Handlers, Activate(h)
    PROVE  /\ Of(h) \in Versions /\ UNCHANGED rank
           /\ \/ UNCHANGED resource
              \/ /\ Current(Of(h))
                 /\ resource' = [resource EXCEPT !.active = Of(h), !.processing = Nobody]
<1>1. handler[h].pc = "activate"
  BY DEF Activate, Now
<1>2. Of(h) \in Versions
  BY <1>1, CallbackHasVersion DEF KnowledgeInv
<1> QED
  BY <1>2 DEF Activate

LEMMA ActivateKeeps ==
    ASSUME KnowledgeInv, NEW h \in Handlers, Activate(h)
    PROVE  KnowledgeInv'
<1> USE DEF KnowledgeInv
<1>1. handler[h].pc = "activate" /\ UNCHANGED <<rank, asked>>
  BY DEF Activate, Now
<1>2. Jobs'
  <2>1. CASE Answer(h, TRUE)
    BY <1>1, <2>1, AnswerKeeps
  <2>2. CASE /\ handler' = [handler EXCEPT ![h] =
                   [handler[h] EXCEPT !.pc = "remove", !.previous = resource.active]]
             /\ UNCHANGED task
    <3>1. resource.active \in VersionOrNobody
      BY DEF Order, ResourceType
    <3> QED
      BY <1>1, <2>2, <3>1, HandlerGoesOn
  <2>3. CASE Next1(h, "stale") /\ UNCHANGED task
    BY <1>1, <2>3, NextKeeps
  <2> QED
    BY <2>1, <2>2, <2>3 DEF Activate
<1>3. Asks' /\ Fresher
  BY <1>1, AsksStay
<1>4. Order'
  <2>1. CASE UNCHANGED resource
    BY <1>1, <1>3, <2>1, OrderStays
  <2>2. CASE resource' = [resource EXCEPT !.active = Of(h), !.processing = Nobody]
    <3>1. ResourceType' /\ resource'.processing = Nobody
      BY <2>2, ActivateSwitches DEF Order, ResourceType, VersionOrNobody
    <3> QED
      BY <1>1, <1>3, <3>1
         DEF Order, RankType, RankBound, Ranked, UploadIsFresh, Latest, Fresher
  <2> QED
    BY <2>1, <2>2, ActivateSwitches
<1> QED
  BY <1>2, <1>3, <1>4

LEMMA KnowledgeStutterKeeps ==
    ASSUME KnowledgeInv, UNCHANGED knowledgeVars
    PROVE  KnowledgeInv'
<1>1. UNCHANGED <<resource, rank, asked, task, handler>>
  BY DEF knowledgeVars, stores, history
<1> QED
  BY <1>1, JobsStay, HandlerOnlyKeeps DEF KnowledgeInv

LEMMA KnowledgeStepKeeps ==
    ASSUME KnowledgeInv, [KnowledgeNext]_knowledgeVars
    PROVE  KnowledgeInv'
<1>1. ASSUME NEW q \in Requests, RequestStep(q) \/ RequestLost(q)
      PROVE  KnowledgeInv'
  BY <1>1, SetProcessingKeeps, DeleteVersionKeeps, MarkDeletedKeeps, RequestGoesKeeps,
     RequestParseKeeps DEF RequestStep
<1>2. ASSUME NEW h \in Handlers, HandlerStep(h) \/ HandlerRaises(h)
      PROVE  KnowledgeInv'
  BY <1>2, FindDocumentKeeps, AnsweringKeeps, InsertRowsKeeps, GoingOnKeeps, RequestIndexKeeps,
     CheckStaleKeeps, ActivateKeeps DEF HandlerStep
<1> QED
  BY <1>1, <1>2, InsertDocumentKeeps, ChooseVersionKeeps, ReadResourceKeeps, TaskStepKeeps,
     KnowledgeStutterKeeps DEF KnowledgeNext

(* The invariant is inductive: whoever uploads, learns again or deletes, and *)
(* whatever is repeated or lost, the version in processing is the latest.    *)
THEOREM KnowledgeInductive == KnowledgeSpec => []KnowledgeInv
BY KnowledgeInitInv, KnowledgeStepKeeps, PTL DEF KnowledgeSpec

(* A version that was replaced never answers a search again, in whatever     *)
(* order the jobs of two versions end (_current_resource,                    *)
(* activate_indexed_document).                                               *)
THEOREM NeverSwitchedBack == KnowledgeSpec => NeverBack
<1>1. ASSUME KnowledgeInv, [KnowledgeNext]_knowledgeVars,
             resource'.active # resource.active, resource.active # Nobody
      PROVE  rank[resource'.active] > rank[resource.active]
  <2>1. PICK h \in Handlers : Activate(h)
    BY <1>1 DEF KnowledgeNext, InsertDocument, ChooseVersion, ReadResource, RequestStep,
       RequestLost, SetProcessing, CheckDocument, DeleteVersion, MarkDeleted, RequestParse,
       RequestRefused, RecordRefusal, RecordParse, TaskStep, WorkRaises, WorkerLost, ParseDone,
       ReadChunks, IndexDone, ReportFailure, HandlerStep, HandlerRaises, FindDocument,
       RecordFailure, DeleteRows, InsertRows, RecordParsed, RequestIndex, IndexRefused,
       RecordIndex, RecordIndexed, CheckStale, RemoveVersion, knowledgeVars, stores, history,
       KnowledgeInv, Order, ResourceType
  <2>2. /\ resource'.active = Of(h) /\ resource.processing = Of(h)
        /\ Of(h) \in Versions /\ resource.active \in Versions
    BY <1>1, <2>1, ActivateSwitches
       DEF KnowledgeInv, Order, ResourceType, VersionOrNobody, Current
  <2>3. Of(h) # Nobody
    BY <2>2, UploadsAssumption DEF Versions
  <2> QED
    BY <1>1, <2>2, <2>3 DEF KnowledgeInv, Order, Latest, RankType
<1>2. KnowledgeInv /\ [KnowledgeNext]_knowledgeVars
        => [resource'.active # resource.active /\ resource.active # Nobody
              => rank[resource'.active] > rank[resource.active]]_knowledgeVars
  BY <1>1
<1> QED
  BY <1>2, KnowledgeInductive, PTL DEF KnowledgeSpec, NeverBack

------------------------------------------------------------------------------
(* The version that answers a search stays.                                 *)

Statuses == {"not_started", "queued", "succeeded", "failed"}
Rows == [row : {"absent", "here", "deleted"}, parse : Statuses, index : Statuses,
         parser : Tasks \cup {0}, indexer : Tasks \cup {0}]
DocumentType == document \in [Versions -> Rows]
StoresType == chunks \subseteq Versions /\ vectors \subseteq Versions /\ givenUp \subseteq Versions
TroublesType == knowledgeTroubles \in Nat

Top == IF resource.processing # Nobody THEN resource.processing ELSE resource.active
Superseded(v) == rank[v] > 0 /\ v # Top
Leaving(v) == Superseded(v) /\ v # resource.active
TopIsLatest ==
    /\ Top # Nobody => rank[Top] > 0 /\ \A v \in Versions : v # Top => rank[v] < rank[Top]
    /\ Top = Nobody => \A v \in Versions : rank[v] = 0
    /\ resource.active # Nobody => rank[resource.active] > 0

\* Only a version that was set processing has jobs, or the resource is deleted.
Asking == {"check", "request", "record", "refused"}
Known ==
    /\ \A q \in Requests : asked[q].pc \in Asking => rank[asked[q].on] > 0 \/ resource.deleted
    /\ \A j \in Tasks : task[j].kind # "none" => rank[task[j].of] > 0 \/ resource.deleted
    /\ \A u \in Uploads : asked[u].pc = "processing" => asked[u].on = u
    /\ resource.deleted => Deleting
NewIsAbsent ==
    /\ \A u \in Uploads : asked[u].pc = "new" => document[u].row = "absent"
    /\ \A v \in Versions : document[v].row = "absent" => document[v].index # "succeeded"

Removing ==
    /\ \A h \in Handlers : handler[h].pc = "stale" => Superseded(Of(h)) \/ resource.deleted
    /\ \A h \in Handlers : handler[h].pc = "remove" =>
          /\ handler[h].previous \in Versions
          /\ Leaving(handler[h].previous) \/ resource.deleted
    /\ ~Deleting => \A v \in Versions : document[v].row = "deleted" => Leaving(v)

\* A callback that brings the news of an index.
Brings(h) ==
    \/ handler[h].pc = "find" /\ task[handler[h].task].kind # "parse" /\ handler[h].says # "failed"
    \/ handler[h].pc \in {"indexed", "activate"}
Indexed ==
    \A h \in Handlers : Brings(h) =>
        /\ Of(h) \in vectors \/ document[Of(h)].row = "deleted"
        /\ handler[h].pc # "find" => document[Of(h)].row # "absent"

\* A callback that will switch a version in or remove it.
Settles(h, v) ==
    \/ handler[h].pc \in {"activate", "stale"} /\ Of(h) = v
    \/ handler[h].pc = "remove" /\ handler[h].previous = v
Settling ==
    knowledgeTroubles = 0 =>
        \A v \in Versions : Here(v) /\ document[v].index = "succeeded" =>
            v = resource.active \/ \E h \in Handlers : Settles(h, v)

Typed == DocumentType /\ StoresType /\ TroublesType
AvailableInv ==
    /\ Typed /\ TopIsLatest /\ Known /\ NewIsAbsent
    /\ Removing /\ Indexed /\ Settling /\ ActiveIsAvailable

LEMMA AvailableInit == KnowledgeInit => AvailableInv
<1> SUFFICES ASSUME KnowledgeInit PROVE AvailableInv
  OBVIOUS
<1>1. Typed
  BY DEF KnowledgeInit, Typed, DocumentType, Rows, StoresType, TroublesType, Statuses
<1>2. /\ resource.active = Nobody /\ resource.processing = Nobody /\ ~resource.deleted
      /\ \A v \in Versions : /\ rank[v] = 0 /\ document[v].row = "absent"
                            /\ document[v].index = "not_started"
      /\ \A q \in Requests : asked[q].pc = "new"
      /\ \A j \in Tasks : task[j].kind = "none"
      /\ \A h \in Handlers : handler[h].pc = "idle"
  BY DEF KnowledgeInit, NewRequest, NoTask, Idle
<1>3. TopIsLatest
  BY <1>2 DEF TopIsLatest, Top
<1>4. Known /\ NewIsAbsent
  BY <1>2 DEF Known, NewIsAbsent, Asking, Requests, Versions
<1>5. Removing /\ Indexed /\ Settling /\ ActiveIsAvailable
  BY <1>2 DEF Removing, Indexed, Brings, Settling, ActiveIsAvailable, Here
<1> QED
  BY <1>1, <1>3, <1>4, <1>5 DEF AvailableInv

\* What a step may do to the parts of the state that the invariant speaks of.
SameTasks ==
    \A j \in Tasks : task[j].kind # "none" => task'[j].kind = task[j].kind /\ task'[j].of = task[j].of
SameRows == \A v \in Versions : document'[v].row = document[v].row
LessIndexed ==
    \A v \in Versions : document'[v].index = "succeeded" => document[v].index = "succeeded"
OnlyHandler(h) == \A k \in Handlers : k # h => handler'[k] = handler[k]
Troubled == knowledgeTroubles' = 0 => knowledgeTroubles = 0

LEMMA OfStays ==
    ASSUME Jobs, SameTasks, NEW h \in Handlers, handler[h].pc # "idle",
           handler'[h].task = handler[h].task
    PROVE  /\ Of(h)' = Of(h) /\ Of(h) \in Versions
           /\ task'[handler'[h].task].kind = task[handler[h].task].kind
<1>1. handler[h].task \in Tasks /\ task[handler[h].task].kind # "none"
  BY DEF Jobs, HandlerFrame
<1> QED
  BY <1>1, CallbackHasVersion DEF SameTasks, Of

\* The invariant after a step that leaves the resource, its versions' ranks and
\* the requests alone and moves at most the callbacks M.
LEMMA CallbacksGo ==
    ASSUME KnowledgeInv, AvailableInv, NEW M \in SUBSET Handlers, Typed', SameTasks,
           \A k \in Handlers \ M : handler'[k] = handler[k],
           UNCHANGED <<resource, rank, asked>>, vectors \subseteq vectors', SameRows, Troubled,
           \A j \in Tasks : task'[j].kind # "none" =>
               task[j].kind # "none" \/ rank[task'[j].of] > 0 \/ resource.deleted,
           \A h \in M :
               /\ handler'[h].pc = "stale" => Superseded(Of(h)') \/ resource.deleted
               /\ handler'[h].pc = "remove" =>
                    /\ handler'[h].previous \in Versions
                    /\ Leaving(handler'[h].previous) \/ resource.deleted
               /\ Brings(h)' =>
                    /\ Of(h)' \in Versions
                    /\ Of(h)' \in vectors' \/ document[Of(h)'].row = "deleted"
                    /\ handler'[h].pc # "find" => document[Of(h)'].row # "absent",
           \A v \in Versions : document[v].row = "absent" /\ document'[v].index = "succeeded" =>
               document[v].index = "succeeded",
           knowledgeTroubles' = 0 =>
               \A v \in Versions : Here(v) /\ document'[v].index = "succeeded" =>
                   /\ document[v].index = "succeeded" \/ \E h \in M : Settles(h, v)'
                   /\ \A h \in M : Settles(h, v) => Settles(h, v)' \/ v = resource.active
    PROVE  AvailableInv'
<1>1. \A k \in Handlers \ M : handler[k].pc # "idle" =>
             /\ Of(k)' = Of(k) /\ Of(k) \in Versions /\ handler'[k] = handler[k]
             /\ task'[handler'[k].task].kind = task[handler[k].task].kind
  BY OfStays DEF KnowledgeInv
<1>2. \A v : /\ Here(v)' <=> document'[v].row = "here"
             /\ Here(v) <=> document[v].row = "here"
             /\ Superseded(v)' <=> Superseded(v)
             /\ Leaving(v)' <=> Leaving(v)
  BY DEF Here, Superseded, Leaving, Top
<1>3. TopIsLatest'
  BY DEF AvailableInv, TopIsLatest, Top
<1>4. Known' /\ (Deleting' <=> Deleting)
  <2>1. \A j \in Tasks : task'[j].kind # "none" => rank[task'[j].of] > 0 \/ resource.deleted
    BY DEF AvailableInv, Known, SameTasks
  <2>2. Deleting' <=> Deleting
    BY DEF Deleting, At
  <2> QED
    BY <2>1, <2>2 DEF AvailableInv, Known
<1>5. NewIsAbsent'
  BY DEF AvailableInv, NewIsAbsent, SameRows, Versions
<1>6. Removing'
  <2>1. ASSUME NEW k \in Handlers, handler'[k].pc = "stale" PROVE Superseded(Of(k)') \/ resource.deleted
    BY <1>1, <2>1 DEF AvailableInv, Removing
  <2>2. ASSUME NEW k \in Handlers, handler'[k].pc = "remove"
        PROVE  /\ handler'[k].previous \in Versions
               /\ Leaving(handler'[k].previous) \/ resource.deleted
    BY <2>2 DEF AvailableInv, Removing
  <2>3. ~Deleting => \A v \in Versions : document'[v].row = "deleted" => Leaving(v)
    BY DEF AvailableInv, Removing, SameRows
  <2>4. \A k \in Handlers : handler'[k].pc = "stale" => Superseded(Of(k))' \/ resource'.deleted
    BY <2>1 DEF Superseded, Top
  <2>5. \A k \in Handlers : handler'[k].pc = "remove" =>
             handler'[k].previous \in Versions /\ (Leaving(handler[k].previous)' \/ resource'.deleted)
    BY <2>2 DEF Leaving, Superseded, Top
  <2> QED
    BY <1>2, <1>4, <2>3, <2>4, <2>5 DEF Removing
<1>7. Indexed'
  <2> SUFFICES ASSUME NEW k \in Handlers, Brings(k)'
               PROVE  /\ Of(k)' \in vectors' \/ document'[Of(k)'].row = "deleted"
                      /\ handler'[k].pc # "find" => document'[Of(k)'].row # "absent"
    BY DEF Indexed
  <2>1. CASE k \in M
    BY <2>1 DEF SameRows
  <2>2. CASE k \notin M
    <3>1. handler'[k] = handler[k] /\ handler[k].pc # "idle"
      BY <2>2 DEF Brings
    <3>2. Brings(k) /\ Of(k)' = Of(k) /\ Of(k) \in Versions
      BY <1>1, <2>2, <3>1 DEF Brings
    <3> QED
      BY <3>1, <3>2 DEF AvailableInv, Indexed, SameRows
  <2> QED
    BY <2>1, <2>2
<1>8. Settling'
  <2> SUFFICES ASSUME knowledgeTroubles' = 0, NEW v \in Versions, Here(v)', document'[v].index = "succeeded"
               PROVE  v = resource'.active \/ \E k \in Handlers : Settles(k, v)'
    BY DEF Settling
  <2>1. Here(v)
    BY <1>2 DEF SameRows
  <2>2. CASE \E h \in M : Settles(h, v)'
    BY <2>2
  <2>3. CASE document[v].index = "succeeded"
    <3>1. v = resource.active \/ \E k \in Handlers : Settles(k, v)
      BY <2>1, <2>3 DEF AvailableInv, Settling, Troubled
    <3>2. ASSUME NEW k \in Handlers, k \notin M, Settles(k, v) PROVE Settles(k, v)'
      BY <1>1, <3>2 DEF Settles
    <3> QED
      BY <2>1, <3>1, <3>2
  <2> QED
    BY <2>1, <2>2, <2>3
<1>9. ActiveIsAvailable'
  <2>1. resource.active # Nobody => resource.active \in Versions
    BY DEF KnowledgeInv, Order, ResourceType, VersionOrNobody
  <2> QED
    BY <1>2, <1>4, <2>1 DEF AvailableInv, ActiveIsAvailable, SameRows
<1> QED
  BY <1>3, <1>4, <1>5, <1>6, <1>7, <1>8, <1>9 DEF AvailableInv

LEMMA CallbackGoes ==
    ASSUME KnowledgeInv, AvailableInv, NEW h \in Handlers, Typed', SameTasks, OnlyHandler(h),
           UNCHANGED <<resource, rank, asked>>, vectors \subseteq vectors', SameRows, Troubled,
           \A j \in Tasks : task'[j].kind # "none" =>
               task[j].kind # "none" \/ rank[task'[j].of] > 0 \/ resource.deleted,
           handler'[h].pc = "stale" => Superseded(Of(h)') \/ resource.deleted,
           handler'[h].pc = "remove" =>
               /\ handler'[h].previous \in Versions
               /\ Leaving(handler'[h].previous) \/ resource.deleted,
           Brings(h)' =>
               /\ Of(h)' \in Versions
               /\ Of(h)' \in vectors' \/ document[Of(h)'].row = "deleted"
               /\ handler'[h].pc # "find" => document[Of(h)'].row # "absent",
           \A v \in Versions : document[v].row = "absent" /\ document'[v].index = "succeeded" =>
               document[v].index = "succeeded",
           knowledgeTroubles' = 0 =>
               \A v \in Versions : Here(v) /\ document'[v].index = "succeeded" =>
                   /\ document[v].index = "succeeded" \/ Settles(h, v)'
                   /\ Settles(h, v) => Settles(h, v)' \/ v = resource.active
    PROVE  AvailableInv'
<1>1. \A k \in Handlers \ {h} : handler'[k] = handler[k]
  BY DEF OnlyHandler
<1>2. {h} \in SUBSET Handlers
  OBVIOUS
<1>3. \A x \in {h} : x = h
  OBVIOUS
<1> QED
  BY <1>1, <1>2, <1>3, CallbacksGo

------------------------------------------------------------------------------
(* The callbacks.                                                           *)

LEMMA AnswerFacts ==
    ASSUME KnowledgeInv, StoresType, NEW h \in Handlers, NEW ok \in BOOLEAN,
           handler[h].pc # "idle", Answer(h, ok)
    PROVE  /\ OnlyHandler(h) /\ handler'[h].pc = "idle" /\ givenUp' \subseteq Versions
           /\ \A i \in Tasks : task'[i].kind = task[i].kind /\ task'[i].of = task[i].of
<1>1. handler' = [handler EXCEPT ![h] = Idle]
  BY DEF Answer
<1>2. OnlyHandler(h) /\ handler'[h].pc = "idle"
  BY <1>1 DEF KnowledgeInv, Jobs, HandlerType, Callbacks, OnlyHandler, Idle
<1>3. \A i \in Tasks : task'[i].kind = task[i].kind /\ task'[i].of = task[i].of
  BY AnswerKeeps DEF KnowledgeInv
<1>4. task[handler[h].task].of \in Versions
  BY CallbackHasVersion DEF KnowledgeInv, Of
<1>5. givenUp' \subseteq Versions
  BY <1>4 DEF Answer, StoresType
<1> QED
  BY <1>2, <1>3, <1>5

LEMMA NextFacts ==
    ASSUME KnowledgeInv, NEW h \in Handlers, NEW pc, Next1(h, pc)
    PROVE  /\ OnlyHandler(h) /\ handler'[h].pc = pc
           /\ handler'[h].task = handler[h].task /\ handler'[h].says = handler[h].says
           /\ handler'[h].previous = handler[h].previous
BY DEF KnowledgeInv, Jobs, HandlerType, Callbacks, OnlyHandler, Next1

\* A callback that neither brings the news of an index nor settles a version.
Quiet == {"idle", "fail", "rows", "insert", "parsed", "request", "queue"}
LEMMA CallbackGoesQuietly ==
    ASSUME KnowledgeInv, AvailableInv, NEW h \in Handlers, Typed', SameTasks, OnlyHandler(h),
           UNCHANGED <<resource, rank, asked>>, vectors' = vectors, SameRows, LessIndexed, Troubled,
           \A j \in Tasks : task'[j].kind # "none" =>
               task[j].kind # "none" \/ rank[task'[j].of] > 0 \/ resource.deleted,
           handler'[h].pc \in Quiet,
           handler[h].pc \notin {"activate", "stale", "remove"} \/ knowledgeTroubles' # 0
    PROVE  AvailableInv'
<1>1. ~ Brings(h)'
  BY DEF Brings, Quiet
<1>2. handler[h].pc \notin {"activate", "stale", "remove"} => \A v : ~Settles(h, v)
  BY DEF Settles
<1> QED
  BY <1>1, <1>2, CallbackGoes DEF Quiet, LessIndexed

LEMMA StoresTypeStays ==
    ASSUME StoresType, chunks' \subseteq Versions, vectors' \subseteq Versions, givenUp' \subseteq Versions
    PROVE  StoresType'
BY DEF StoresType

LEMMA AnsweringStaysAvailable ==
    ASSUME KnowledgeInv, AvailableInv, NEW h \in Handlers, NEW ok \in BOOLEAN,
           handler[h].pc \notin {"idle", "activate", "stale", "remove"} \/ knowledgeTroubles' # 0,
           handler[h].pc # "idle", Answer(h, ok),
           UNCHANGED <<resource, chunks, vectors, asked, rank>>,
           DocumentType', SameRows, LessIndexed, Troubled, TroublesType'
    PROVE  AvailableInv'
<1>1. /\ OnlyHandler(h) /\ handler'[h].pc = "idle" /\ givenUp' \subseteq Versions
      /\ \A i \in Tasks : task'[i].kind = task[i].kind /\ task'[i].of = task[i].of
  BY AnswerFacts DEF AvailableInv, Typed
<1>2. Typed'
  BY <1>1, StoresTypeStays DEF AvailableInv, Typed, StoresType
<1>3. SameTasks
  BY <1>1 DEF SameTasks
<1> QED
  BY <1>1, <1>2, <1>3, CallbackGoesQuietly DEF Quiet

LEMMA GoingOnStaysAvailable ==
    ASSUME KnowledgeInv, AvailableInv, NEW h \in Handlers, NEW pc \in Quiet,
           handler[h].pc \notin {"idle", "activate", "stale", "remove"}, Next1(h, pc),
           UNCHANGED <<resource, vectors, task, asked, history, knowledgeTroubles>>,
           chunks' \subseteq Versions,
           DocumentType', SameRows, LessIndexed
    PROVE  AvailableInv'
<1>1. OnlyHandler(h) /\ handler'[h].pc = pc
  BY NextFacts
<1>2. UNCHANGED <<rank, givenUp>>
  BY DEF history
<1>3. Typed' /\ Troubled
  BY <1>2, StoresTypeStays DEF AvailableInv, Typed, StoresType, TroublesType, Troubled
<1>4. SameTasks /\ \A j \in Tasks : task'[j] = task[j]
  BY DEF SameTasks
<1> QED
  BY <1>1, <1>2, <1>3, <1>4, CallbackGoesQuietly

\* What an update of one version's statuses keeps.
LEMMA UpdateKeeps ==
    ASSUME DocumentType, NEW v \in Versions, NEW d \in Rows,
           d.row = document[v].row, d.index # "succeeded",
           document' = [document EXCEPT ![v] = d]
    PROVE  DocumentType' /\ SameRows /\ LessIndexed
BY DEF DocumentType, SameRows, LessIndexed, Rows

LEMMA DocumentStays ==
    ASSUME DocumentType, document' = document
    PROVE  DocumentType' /\ SameRows /\ LessIndexed
BY DEF DocumentType, Rows, SameRows, LessIndexed

LEMMA TroublesStay ==
    ASSUME AvailableInv, knowledgeTroubles' = knowledgeTroubles
    PROVE  TroublesType' /\ Troubled
BY DEF AvailableInv, Typed, TroublesType, Troubled

LEMMA TroubleCounts ==
    ASSUME AvailableInv, Trouble
    PROVE  TroublesType' /\ Troubled /\ knowledgeTroubles' # 0
BY DEF AvailableInv, Typed, TroublesType, Troubled, Trouble

LEMMA RecordFailureStaysAvailable ==
    ASSUME KnowledgeInv, AvailableInv, NEW h \in Handlers, RecordFailure(h)
    PROVE  AvailableInv'
<1>1. /\ handler[h].pc = "fail" /\ Answer(h, TRUE)
      /\ UNCHANGED <<resource, chunks, vectors, asked, rank>> /\ UNCHANGED knowledgeTroubles
  BY DEF RecordFailure, Now
<1>2. Of(h) \in Versions /\ DocumentType
  BY <1>1, CallbackHasVersion DEF KnowledgeInv, AvailableInv, Typed
<1>3. DocumentType' /\ SameRows /\ LessIndexed
  <2>1. \/ document' = document
        \/ document' = [document EXCEPT ![Of(h)].parse = "failed"]
        \/ document' = [document EXCEPT ![Of(h)].index = "failed"]
    BY DEF RecordFailure
  <2> QED
    BY <1>2, <2>1 DEF DocumentType, Rows, Statuses, SameRows, LessIndexed
<1> QED
  BY <1>1, <1>3, TroublesStay, AnsweringStaysAvailable

LEMMA IndexRefusedStaysAvailable ==
    ASSUME KnowledgeInv, AvailableInv, NEW h \in Handlers, IndexRefused(h)
    PROVE  AvailableInv'
<1>1. /\ handler[h].pc = "request" /\ Answer(h, TRUE) /\ Trouble
      /\ UNCHANGED <<resource, chunks, vectors, asked, rank>>
  BY DEF IndexRefused, Now
<1>2. Of(h) \in Versions /\ DocumentType
  BY <1>1, CallbackHasVersion DEF KnowledgeInv, AvailableInv, Typed
<1>3. DocumentType' /\ SameRows /\ LessIndexed
  <2>1. \/ document' = document
        \/ document' = [document EXCEPT ![Of(h)].index = "failed"]
    BY DEF IndexRefused
  <2> QED
    BY <1>2, <2>1 DEF DocumentType, Rows, Statuses, SameRows, LessIndexed
<1> QED
  BY <1>1, <1>3, TroubleCounts, AnsweringStaysAvailable

LEMMA RecordIndexStaysAvailable ==
    ASSUME KnowledgeInv, AvailableInv, NEW h \in Handlers, RecordIndex(h)
    PROVE  AvailableInv'
<1>1. /\ handler[h].pc = "queue" /\ Answer(h, TRUE)
      /\ UNCHANGED <<resource, chunks, vectors, asked, rank>> /\ UNCHANGED knowledgeTroubles
  BY DEF RecordIndex, Now
<1>2. Of(h) \in Versions /\ DocumentType /\ handler[h].indexer \in Tasks \cup {0}
  BY <1>1, CallbackHasVersion DEF KnowledgeInv, AvailableInv, Typed, Jobs, HandlerType, Callbacks
<1>3. DocumentType' /\ SameRows /\ LessIndexed
  <2>1. \/ document' = document
        \/ document' = [document EXCEPT ![Of(h)] =
               [document[Of(h)] EXCEPT !.index = "queued", !.indexer = handler[h].indexer]]
    BY DEF RecordIndex
  <2>2. [document[Of(h)] EXCEPT !.index = "queued", !.indexer = handler[h].indexer] \in Rows
    BY <1>2 DEF DocumentType, Rows, Statuses
  <2>3. document[Of(h)] \in Rows
    BY <1>2 DEF DocumentType, Rows
  <2> QED
    BY <1>2, <2>1, <2>2, <2>3, UpdateKeeps, DocumentStays DEF Rows
<1> QED
  BY <1>1, <1>3, TroublesStay, AnsweringStaysAvailable

LEMMA HandlerRaisesStaysAvailable ==
    ASSUME KnowledgeInv, AvailableInv, NEW h \in Handlers, HandlerRaises(h)
    PROVE  AvailableInv'
<1>1. /\ handler[h].pc # "idle" /\ Answer(h, FALSE) /\ Trouble
      /\ UNCHANGED <<resource, chunks, vectors, asked, rank>> /\ document' = document
  BY DEF HandlerRaises, stores
<1>2. DocumentType' /\ SameRows /\ LessIndexed
  BY <1>1, DocumentStays DEF AvailableInv, Typed
<1> QED
  BY <1>1, <1>2, TroubleCounts, AnsweringStaysAvailable

LEMMA DeleteRowsStaysAvailable ==
    ASSUME KnowledgeInv, AvailableInv, NEW h \in Handlers, DeleteRows(h)
    PROVE  AvailableInv'
<1>1. /\ handler[h].pc = "rows" /\ Next1(h, "insert") /\ document' = document
      /\ UNCHANGED <<resource, vectors, task, asked, history, knowledgeTroubles>>
      /\ chunks' \subseteq chunks
  BY DEF DeleteRows, Now
<1>2. DocumentType' /\ SameRows /\ LessIndexed /\ chunks' \subseteq Versions
  BY <1>1, DocumentStays DEF AvailableInv, Typed, StoresType
<1> QED
  BY <1>1, <1>2, GoingOnStaysAvailable DEF Quiet

LEMMA InsertRowsStaysAvailable ==
    ASSUME KnowledgeInv, AvailableInv, NEW h \in Handlers, InsertRows(h)
    PROVE  AvailableInv'
<1>1. /\ handler[h].pc = "insert" /\ document' = document
      /\ UNCHANGED <<resource, vectors, asked, rank>> /\ UNCHANGED knowledgeTroubles
  BY DEF InsertRows, Now
<1>2. Of(h) \in Versions
  BY <1>1, CallbackHasVersion DEF KnowledgeInv
<1>3. DocumentType' /\ SameRows /\ LessIndexed
  BY <1>1, DocumentStays DEF AvailableInv, Typed
<1>4. CASE Answer(h, FALSE) /\ UNCHANGED chunks
  BY <1>1, <1>3, <1>4, TroublesStay, AnsweringStaysAvailable
<1>5. CASE chunks' = chunks \cup {Of(h)} /\ Next1(h, "parsed") /\ UNCHANGED <<task, givenUp>>
  <2>1. chunks' \subseteq Versions
    BY <1>2, <1>5 DEF AvailableInv, Typed, StoresType
  <2>2. UNCHANGED <<resource, vectors, task, asked, history, knowledgeTroubles>>
    BY <1>1, <1>5 DEF history
  <2> QED
    BY <1>1, <1>3, <1>5, <2>1, <2>2, GoingOnStaysAvailable DEF Quiet
<1> QED
  BY <1>4, <1>5 DEF InsertRows

LEMMA RecordParsedStaysAvailable ==
    ASSUME KnowledgeInv, AvailableInv, NEW h \in Handlers, RecordParsed(h)
    PROVE  AvailableInv'
<1>1. /\ handler[h].pc = "parsed" /\ Next1(h, "request")
      /\ UNCHANGED <<resource, vectors, task, asked, history, knowledgeTroubles>>
      /\ chunks' = chunks
  BY DEF RecordParsed, Now
<1>2. Of(h) \in Versions /\ DocumentType /\ chunks' \subseteq Versions
  BY <1>1, CallbackHasVersion DEF KnowledgeInv, AvailableInv, Typed, StoresType
<1>3. DocumentType' /\ SameRows /\ LessIndexed
  <2>1. \/ document' = document
        \/ document' = [document EXCEPT ![Of(h)] =
               [document[Of(h)] EXCEPT !.parse = "succeeded", !.index = "not_started", !.indexer = 0]]
    BY DEF RecordParsed
  <2>2. [document[Of(h)] EXCEPT !.parse = "succeeded", !.index = "not_started", !.indexer = 0] \in Rows
    BY <1>2 DEF DocumentType, Rows, Statuses
  <2>3. document[Of(h)] \in Rows
    BY <1>2 DEF DocumentType, Rows
  <2> QED
    BY <1>2, <2>1, <2>2, <2>3, UpdateKeeps, DocumentStays DEF Rows
<1> QED
  BY <1>1, <1>2, <1>3, GoingOnStaysAvailable DEF Quiet

LEMMA RequestIndexStaysAvailable ==
    ASSUME KnowledgeInv, AvailableInv, NEW h \in Handlers, RequestIndex(h)
    PROVE  AvailableInv'
<1>1. /\ handler[h].pc = "request"
      /\ UNCHANGED <<resource, document, chunks, vectors, asked, rank, givenUp>>
      /\ UNCHANGED knowledgeTroubles
  BY DEF RequestIndex, Now, stores, history
<1>2. PICK n \in Tasks :
         /\ NewTask("index", Of(h), n)
         /\ handler' = [handler EXCEPT ![h] = [handler[h] EXCEPT !.pc = "queue", !.indexer = n]]
  BY DEF RequestIndex
<1>3. /\ Of(h) \in Versions
      /\ rank[Of(h)] > 0 \/ resource.deleted
  <2>1. handler[h].task \in Tasks /\ task[handler[h].task].kind # "none"
    BY <1>1 DEF KnowledgeInv, Jobs, HandlerFrame
  <2> QED
    BY <1>1, <2>1, CallbackHasVersion DEF KnowledgeInv, AvailableInv, Known, Of
<1>4. OnlyHandler(h) /\ handler'[h].pc = "queue"
  BY <1>2 DEF KnowledgeInv, Jobs, HandlerType, Callbacks, OnlyHandler
<1>5. SameTasks /\ \A i \in Tasks : task'[i].kind # "none" => task[i].kind # "none" \/ task'[i].of = Of(h)
  BY <1>2, <1>3, NewTaskKeeps DEF KnowledgeInv, SameTasks
<1>6. DocumentType' /\ SameRows /\ LessIndexed
  BY <1>1, DocumentStays DEF AvailableInv, Typed
<1>7. Typed' /\ Troubled
  BY <1>1, <1>6, TroublesStay DEF AvailableInv, Typed, StoresType
<1>8. \A j \in Tasks : task'[j].kind # "none" =>
               task[j].kind # "none" \/ rank[task'[j].of] > 0 \/ resource.deleted
  BY <1>3, <1>5
<1> QED
  BY <1>1, <1>4, <1>5, <1>6, <1>7, <1>8, CallbackGoesQuietly DEF Quiet

LEMMA FindDocumentStaysAvailable ==
    ASSUME KnowledgeInv, AvailableInv, NEW h \in Handlers, FindDocument(h)
    PROVE  AvailableInv'
<1>1. /\ handler[h].pc = "find" /\ document' = document
      /\ UNCHANGED <<resource, chunks, vectors, asked, rank>> /\ UNCHANGED knowledgeTroubles
  BY DEF FindDocument, Now, stores
<1>2. DocumentType' /\ SameRows /\ LessIndexed
  BY <1>1, DocumentStays DEF AvailableInv, Typed
<1>3. CASE Answer(h, FALSE)
  BY <1>1, <1>2, <1>3, TroublesStay, AnsweringStaysAvailable
<1>4. ASSUME NEW pc \in {"fail", "rows"}, Next1(h, pc), UNCHANGED <<task, givenUp>>
      PROVE  AvailableInv'
  <2>1. UNCHANGED <<resource, vectors, task, asked, history, knowledgeTroubles>>
    BY <1>1, <1>4 DEF history
  <2>2. chunks' \subseteq Versions
    BY <1>1 DEF AvailableInv, Typed, StoresType
  <2> QED
    BY <1>1, <1>2, <1>4, <2>1, <2>2, GoingOnStaysAvailable DEF Quiet
<1>5. ASSUME Next1(h, "indexed"), UNCHANGED <<task, givenUp>>, Matches(h),
             handler[h].says # "failed", task[handler[h].task].kind # "parse"
      PROVE  AvailableInv'
  <2>1. /\ OnlyHandler(h) /\ handler'[h].pc = "indexed" /\ handler'[h].task = handler[h].task
    BY <1>5, NextFacts
  <2>2. SameTasks
    BY <1>5 DEF SameTasks
  <2>3. Of(h)' = Of(h) /\ Of(h) \in Versions
    BY <1>1, <2>1, <2>2, OfStays DEF KnowledgeInv
  <2>4. Brings(h) /\ document[Of(h)].row = "here"
    BY <1>1, <1>5 DEF Brings, Matches, Here
  <2>5. Of(h) \in vectors
    BY <2>4 DEF AvailableInv, Indexed
  <2>6. Typed' /\ Troubled
    BY <1>1, <1>2, <1>5, TroublesStay DEF AvailableInv, Typed, StoresType
  <2>7. \A v : ~Settles(h, v)
    BY <1>1 DEF Settles
  <2>8. \A j \in Tasks : task'[j] = task[j]
    BY <1>5
  <2> QED
    BY <1>1, <1>2, <2>1, <2>2, <2>3, <2>4, <2>5, <2>6, <2>7, <2>8, CallbackGoes DEF LessIndexed
<1>6. ~Matches(h) => Answer(h, FALSE)
  BY DEF FindDocument
<1>7. Matches(h) => /\ UNCHANGED <<task, givenUp>>
                    /\ \/ Next1(h, "fail") \/ Next1(h, "rows")
                       \/ /\ Next1(h, "indexed") /\ handler[h].says # "failed"
                          /\ task[handler[h].task].kind # "parse"
  BY DEF FindDocument
<1> QED
  BY <1>3, <1>4, <1>5, <1>6, <1>7

\* The version that is recorded as indexed is about to be switched in.
LEMMA RecordIndexedStaysAvailable ==
    ASSUME KnowledgeInv, AvailableInv, NEW h \in Handlers, RecordIndexed(h)
    PROVE  AvailableInv'
<1>1. /\ handler[h].pc = "indexed" /\ Next1(h, "activate")
      /\ UNCHANGED <<resource, chunks, vectors, task, asked, history, knowledgeTroubles>>
  BY DEF RecordIndexed, Now
<1>2. UNCHANGED <<rank, givenUp>>
  BY <1>1 DEF history
<1>3. /\ OnlyHandler(h) /\ handler'[h].pc = "activate" /\ handler'[h].task = handler[h].task
  BY <1>1, NextFacts
<1>4. SameTasks /\ \A j \in Tasks : task'[j] = task[j]
  BY <1>1 DEF SameTasks
<1>5. Of(h)' = Of(h) /\ Of(h) \in Versions
  BY <1>1, <1>3, <1>4, OfStays DEF KnowledgeInv
<1>6. /\ Of(h) \in vectors \/ document[Of(h)].row = "deleted"
      /\ document[Of(h)].row # "absent"
  BY <1>1 DEF AvailableInv, Indexed, Brings
<1>7. document' = document \/ document' = [document EXCEPT ![Of(h)].index = "succeeded"]
  BY DEF RecordIndexed
<1>8. /\ DocumentType' /\ SameRows
      /\ \A v \in Versions : document'[v].index = "succeeded" => document[v].index = "succeeded" \/ v = Of(h)
  BY <1>5, <1>7 DEF AvailableInv, Typed, DocumentType, Rows, Statuses, SameRows
<1>9. Typed' /\ Troubled
  BY <1>1, <1>2, <1>8, TroublesStay DEF AvailableInv, Typed, StoresType
<1>10. Settles(h, Of(h))' /\ \A v : ~Settles(h, v)
  BY <1>1, <1>3 DEF Settles
<1>11. \A v \in Versions : v = Of(h) => Settles(h, v)'
  BY <1>3, <1>5 DEF Settles
<1> QED
  BY <1>1, <1>2, <1>3, <1>4, <1>5, <1>6, <1>8, <1>9, <1>10, <1>11, CallbackGoes

\* Only a superseded version is removed.
LEMMA CheckStaleStaysAvailable ==
    ASSUME KnowledgeInv, AvailableInv, NEW h \in Handlers, CheckStale(h)
    PROVE  AvailableInv'
<1>1. /\ handler[h].pc = "stale" /\ document' = document
      /\ UNCHANGED <<resource, chunks, vectors, asked, rank, knowledgeTroubles>>
  BY DEF CheckStale, Now, stores
<1>2. DocumentType' /\ SameRows /\ LessIndexed
  BY <1>1, DocumentStays DEF AvailableInv, Typed
<1>3. Troubled /\ TroublesType' /\ UNCHANGED <<resource, rank, asked>> /\ vectors \subseteq vectors'
  BY <1>1, TroublesStay
<1>4. Superseded(Of(h)) \/ resource.deleted
  BY <1>1 DEF AvailableInv, Removing
<1>5. \A v : Settles(h, v) => v = Of(h)
  BY <1>1 DEF Settles
<1>6. CASE Answer(h, TRUE) /\ resource.active = Of(h)
  <2>1. /\ OnlyHandler(h) /\ handler'[h].pc = "idle" /\ givenUp' \subseteq Versions
        /\ \A i \in Tasks : task'[i].kind = task[i].kind /\ task'[i].of = task[i].of
    BY <1>1, <1>6, AnswerFacts DEF AvailableInv, Typed
  <2>2. Typed'
    BY <1>1, <1>2, <1>3, <2>1, StoresTypeStays DEF AvailableInv, Typed, StoresType
  <2>3. SameTasks
    BY <2>1 DEF SameTasks
  <2>4. ~ Brings(h)'
    BY <2>1 DEF Brings
  <2> QED
    BY <1>2, <1>3, <1>5, <1>6, <2>1, <2>2, <2>3, <2>4, CallbackGoes DEF LessIndexed
<1>7. CASE /\ handler' = [handler EXCEPT ![h] = [handler[h] EXCEPT !.pc = "remove", !.previous = Of(h)]]
           /\ UNCHANGED <<task, givenUp>>
           /\ resource.active # Of(h) \/ resource.deleted
  <2>1. /\ OnlyHandler(h) /\ handler'[h].pc = "remove" /\ handler'[h].previous = Of(h)
    BY <1>7 DEF KnowledgeInv, Jobs, HandlerType, Callbacks, OnlyHandler
  <2>2. SameTasks /\ \A j \in Tasks : task'[j] = task[j]
    BY <1>7 DEF SameTasks
  <2>3. Typed'
    BY <1>1, <1>2, <1>3, <1>7 DEF AvailableInv, Typed, StoresType
  <2>4. ~ Brings(h)'
    BY <2>1 DEF Brings
  <2>5. Leaving(Of(h)) \/ resource.deleted
    BY <1>4, <1>7 DEF Leaving
  <2>6. \A v : Settles(h, v) => Settles(h, v)'
    BY <1>5, <2>1 DEF Settles
  <2>7. Of(h) \in Versions
    BY <1>1, CallbackHasVersion DEF KnowledgeInv
  <2> QED
    BY <1>2, <1>3, <2>1, <2>2, <2>3, <2>4, <2>5, <2>6, <2>7, CallbackGoes DEF LessIndexed
<1> QED
  BY <1>6, <1>7 DEF CheckStale

------------------------------------------------------------------------------
(* The tasks of the parser.                                                 *)

LEMMA SteppingStaysAvailable ==
    ASSUME KnowledgeInv, AvailableInv,
           \A i \in Tasks : task'[i].kind = task[i].kind /\ task'[i].of = task[i].of,
           UNCHANGED <<stores, handler, asked, history>>, TroublesType', Troubled
    PROVE  AvailableInv'
<1>1. UNCHANGED <<resource, rank, asked, document, chunks, vectors, givenUp>>
  BY DEF stores, history
<1>2. Typed' /\ SameRows /\ LessIndexed
  BY <1>1, DocumentStays DEF AvailableInv, Typed, StoresType
<1>3. SameTasks
  BY DEF SameTasks
<1>4. \A k \in Handlers \ {} : handler'[k] = handler[k]
  OBVIOUS
<1>5. {} \in SUBSET Handlers
  OBVIOUS
<1>6. \A j \in Tasks : task'[j].kind # "none" => task[j].kind # "none"
  OBVIOUS
<1>7. \A v \in Versions : document'[v].index = "succeeded" => document[v].index = "succeeded"
  BY <1>2 DEF LessIndexed
<1> QED
  BY <1>1, <1>2, <1>3, <1>4, <1>5, <1>6, <1>7, CallbacksGo

LEMMA PostingStaysAvailable ==
    ASSUME KnowledgeInv, AvailableInv, NEW j \in Tasks, NEW says \in {"succeeded", "failed"},
           task[j].kind # "none", Post(j, says), TaskTo(j, "posted"),
           task[j].kind = "parse" \/ says = "failed" \/ task[j].of \in vectors',
           vectors \subseteq vectors', vectors' \subseteq Versions,
           UNCHANGED <<resource, document, chunks, asked, history, knowledgeTroubles>>
    PROVE  AvailableInv'
<1>1. PICK h \in Free :
         handler' = [handler EXCEPT ![h] = [Idle EXCEPT !.pc = "find", !.task = j, !.says = says]]
  BY DEF Post
<1>2. h \in Handlers /\ handler[h].pc = "idle"
  BY DEF Free
<1>3. OnlyHandler(h) /\ handler'[h].pc = "find" /\ handler'[h].task = j /\ handler'[h].says = says
  BY <1>1, <1>2 DEF KnowledgeInv, Jobs, HandlerType, Callbacks, OnlyHandler, Idle
<1>4. \A i \in Tasks : task'[i].kind = task[i].kind /\ task'[i].of = task[i].of
  BY TaskToKeeps DEF KnowledgeInv
<1>5. SameTasks
  BY <1>4 DEF SameTasks
<1>6. UNCHANGED <<rank, givenUp>>
  BY DEF history
<1>7. Typed' /\ SameRows /\ LessIndexed /\ Troubled
  BY <1>6, DocumentStays, TroublesStay DEF AvailableInv, Typed, StoresType
<1>8. Of(h)' = task[j].of /\ task[j].of \in Versions
  BY <1>3, <1>4 DEF KnowledgeInv, Jobs, TaskFrame, Of
<1>9. Brings(h)' => task[j].of \in vectors'
  BY <1>3, <1>4 DEF Brings
<1>10. \A v : ~Settles(h, v)
  BY <1>2 DEF Settles
<1> QED
  BY <1>2, <1>3, <1>4, <1>5, <1>6, <1>7, <1>8, <1>9, <1>10, CallbackGoes DEF LessIndexed

LEMMA TaskStepStaysAvailable ==
    ASSUME KnowledgeInv, AvailableInv, NEW j \in Tasks, TaskStep(j) \/ WorkRaises(j) \/ WorkerLost(j)
    PROVE  AvailableInv'
<1>1. /\ Jobs
      /\ vectors \subseteq Versions
  BY DEF KnowledgeInv, AvailableInv, Typed, StoresType
<1>2. CASE ParseDone(j)
  BY <1>1, <1>2, PostingStaysAvailable DEF ParseDone, stores
<1>3. CASE ReadChunks(j)
  <2>1. /\ task[j].kind # "none" /\ TaskTo(j, "indexing")
        /\ UNCHANGED <<stores, handler, asked, history, knowledgeTroubles>>
    BY <1>3 DEF ReadChunks
  <2> QED
    BY <1>1, <2>1, TaskToKeeps, TroublesStay, SteppingStaysAvailable
<1>4. CASE IndexDone(j)
  <2>1. /\ task[j].kind # "none" /\ Post(j, "succeeded") /\ TaskTo(j, "posted")
        /\ vectors' = vectors \cup {task[j].of}
        /\ UNCHANGED <<resource, document, chunks, asked, history, knowledgeTroubles>>
    BY <1>1, <1>4 DEF IndexDone, Jobs, TaskFrame
  <2>2. task[j].of \in Versions
    BY <1>1, <2>1 DEF Jobs, TaskFrame
  <2> QED
    BY <1>1, <2>1, <2>2, PostingStaysAvailable
<1>5. CASE ReportFailure(j)
  <2>1. /\ task[j].kind # "none" /\ Post(j, "failed") /\ TaskTo(j, "posted")
        /\ vectors' = vectors
        /\ UNCHANGED <<resource, document, chunks, asked, history, knowledgeTroubles>>
    BY <1>1, <1>5 DEF ReportFailure, Jobs, TaskFrame, stores
  <2> QED
    BY <1>1, <2>1, PostingStaysAvailable
<1>6. CASE WorkRaises(j) \/ WorkerLost(j)
  <2>1. /\ task[j].kind # "none"
        /\ TaskTo(j, "queued") \/ Raised(j)
        /\ UNCHANGED <<stores, handler, asked, history>> /\ Trouble
    BY <1>1, <1>6 DEF WorkRaises, WorkerLost, Jobs, TaskFrame
  <2> QED
    BY <1>1, <2>1, TaskToKeeps, RaisedKeeps, TroubleCounts, SteppingStaysAvailable
<1> QED
  BY <1>2, <1>3, <1>4, <1>5, <1>6 DEF TaskStep

------------------------------------------------------------------------------
(* The requests.                                                            *)

LEMMA GoFacts ==
    ASSUME KnowledgeInv, NEW q \in Requests, NEW pc, Go(q, pc)
    PROVE  /\ \A o \in Requests : o # q => asked'[o] = asked[o]
           /\ asked'[q].pc = pc /\ (pc # "done" => asked'[q].on = asked[q].on)
BY DEF KnowledgeInv, Asks, AskedType, Go, DoneRequest, NewRequest

\* The invariant after a step of a request that leaves the resource and the
\* callbacks alone.
LEMMA RequestGoes ==
    ASSUME KnowledgeInv, AvailableInv, NEW q \in Requests,
           \A o \in Requests : o # q => asked'[o] = asked[o], asked'[q].pc # "new",
           asked'[q].pc = "processing" => asked'[q].on = q,
           asked'[q].pc \in Asking => \/ asked[q].pc \in Asking /\ asked'[q].on = asked[q].on
                                      \/ rank[asked'[q].on] > 0 \/ resource.deleted,
           UNCHANGED <<resource, rank, handler, vectors>>, Typed', SameTasks, Troubled,
           \A j \in Tasks : task'[j].kind # "none" =>
               task[j].kind # "none" \/ rank[task'[j].of] > 0 \/ resource.deleted,
           LessIndexed,
           \A v \in Versions : \/ document'[v].row = document[v].row
                               \/ v = q /\ document[v].row = "absent" /\ document'[v].row = "here"
    PROVE  AvailableInv'
<1>1. \A k \in Handlers : handler[k].pc # "idle" =>
             /\ Of(k)' = Of(k) /\ Of(k) \in Versions
             /\ task'[handler'[k].task].kind = task[handler[k].task].kind
  BY OfStays DEF KnowledgeInv
<1>2. \A v : /\ Here(v)' <=> document'[v].row = "here"
             /\ Here(v) <=> document[v].row = "here"
             /\ Superseded(v)' <=> Superseded(v)
             /\ Leaving(v)' <=> Leaving(v)
  BY DEF Here, Superseded, Leaving, Top
<1>3. TopIsLatest'
  BY DEF AvailableInv, TopIsLatest, Top
<1>4. Deleting => Deleting'
  <2>1. \A o \in Requests : asked'[o].pc = "new" => asked[o].pc = "new"
    OBVIOUS
  <2> QED
    BY <2>1 DEF Deleting, At, Requests
<1>5. Known'
  <2>1. \A j \in Tasks : task'[j].kind # "none" => rank[task'[j].of] > 0 \/ resource.deleted
    BY DEF AvailableInv, Known, SameTasks
  <2>2. \A o \in Requests : asked'[o].pc \in Asking => rank[asked'[o].on] > 0 \/ resource.deleted
    BY DEF AvailableInv, Known
  <2>3. \A u \in Uploads : asked'[u].pc = "processing" => asked'[u].on = u
    BY DEF AvailableInv, Known, Requests
  <2> QED
    BY <1>4, <2>1, <2>2, <2>3 DEF AvailableInv, Known
<1>6. NewIsAbsent'
  <2>1. ASSUME NEW u \in Uploads, asked'[u].pc = "new" PROVE document'[u].row = "absent"
    BY <2>1 DEF AvailableInv, NewIsAbsent, Requests, Versions
  <2>2. ASSUME NEW v \in Versions, document'[v].row = "absent" PROVE document'[v].index # "succeeded"
    BY <2>2 DEF AvailableInv, NewIsAbsent, LessIndexed
  <2> QED
    BY <2>1, <2>2 DEF NewIsAbsent
<1>7. Removing'
  <2>1. ASSUME NEW k \in Handlers, handler'[k].pc = "stale" PROVE Superseded(Of(k)') \/ resource.deleted
    BY <1>1, <2>1 DEF AvailableInv, Removing
  <2>2. ASSUME NEW k \in Handlers, handler'[k].pc = "remove"
        PROVE  /\ handler'[k].previous \in Versions
               /\ Leaving(handler'[k].previous) \/ resource.deleted
    BY <2>2 DEF AvailableInv, Removing
  <2>3. ~Deleting => \A v \in Versions : document'[v].row = "deleted" => Leaving(v)
    BY DEF AvailableInv, Removing
  <2>4. \A k \in Handlers : handler'[k].pc = "stale" => Superseded(Of(k))' \/ resource'.deleted
    BY <2>1 DEF Superseded, Top
  <2>5. \A k \in Handlers : handler'[k].pc = "remove" =>
             handler'[k].previous \in Versions /\ (Leaving(handler[k].previous)' \/ resource'.deleted)
    BY <2>2 DEF Leaving, Superseded, Top
  <2> QED
    BY <1>2, <1>4, <2>3, <2>4, <2>5 DEF Removing
<1>8. Indexed'
  <2> SUFFICES ASSUME NEW k \in Handlers, Brings(k)'
               PROVE  /\ Of(k)' \in vectors' \/ document'[Of(k)'].row = "deleted"
                      /\ handler'[k].pc # "find" => document'[Of(k)'].row # "absent"
    BY DEF Indexed
  <2>1. Brings(k) /\ Of(k)' = Of(k) /\ Of(k) \in Versions
    BY <1>1 DEF Brings
  <2> QED
    BY <2>1 DEF AvailableInv, Indexed
<1>9. Settling'
  <2> SUFFICES ASSUME knowledgeTroubles' = 0, NEW v \in Versions, Here(v)', document'[v].index = "succeeded"
               PROVE  v = resource'.active \/ \E k \in Handlers : Settles(k, v)'
    BY DEF Settling
  <2>1. document[v].index = "succeeded" /\ Here(v)
    BY <1>2 DEF LessIndexed, AvailableInv, NewIsAbsent
  <2>2. v = resource.active \/ \E k \in Handlers : Settles(k, v)
    BY <2>1 DEF AvailableInv, Settling, Troubled
  <2>3. ASSUME NEW k \in Handlers, Settles(k, v) PROVE Settles(k, v)'
    BY <1>1, <2>3 DEF Settles
  <2> QED
    BY <2>2, <2>3
<1>10. ActiveIsAvailable'
  <2>1. resource.active # Nobody => resource.active \in Versions
    BY DEF KnowledgeInv, Order, ResourceType, VersionOrNobody
  <2> QED
    BY <1>2, <1>4, <2>1 DEF AvailableInv, ActiveIsAvailable
<1> QED
  BY <1>3, <1>5, <1>6, <1>7, <1>8, <1>9, <1>10 DEF AvailableInv

\* A request that goes on, is refused or is lost.
LEMMA GoingStaysAvailable ==
    ASSUME KnowledgeInv, AvailableInv, NEW q \in Requests, NEW pc \in AskedSteps \ {"new", "processing"},
           Go(q, pc), pc \in Asking => asked[q].pc \in Asking \/ resource.deleted,
           UNCHANGED <<resource, rank, task, handler, vectors, chunks, givenUp>>,
           DocumentType', SameRows, LessIndexed, TroublesType', Troubled
    PROVE  AvailableInv'
<1>1. /\ \A o \in Requests : o # q => asked'[o] = asked[o]
      /\ asked'[q].pc = pc /\ (pc # "done" => asked'[q].on = asked[q].on)
  BY GoFacts
<1>2. "done" \notin Asking
  BY DEF Asking
<1>3. SameTasks /\ \A j \in Tasks : task'[j] = task[j]
  BY DEF SameTasks
<1>4. Typed'
  BY DEF AvailableInv, Typed, StoresType
<1>5. \A v \in Versions : document'[v].row = document[v].row
  BY DEF SameRows
<1>6. asked'[q].pc # "new" /\ asked'[q].pc # "processing"
  BY <1>1
<1>7. asked'[q].pc \in Asking => \/ asked[q].pc \in Asking /\ asked'[q].on = asked[q].on
                                 \/ resource.deleted
  BY <1>1, <1>2
<1> QED
  BY <1>1, <1>3, <1>4, <1>5, <1>6, <1>7, RequestGoes

LEMMA InsertDocumentStaysAvailable ==
    ASSUME KnowledgeInv, AvailableInv, NEW u \in Uploads, InsertDocument(u)
    PROVE  AvailableInv'
<1>1. u \in Requests /\ u \in Versions /\ asked[u].pc = "new"
  BY DEF InsertDocument, New, At, Requests, Versions
<1>2. asked' = [asked EXCEPT ![u] = [asked[u] EXCEPT !.pc = "processing", !.on = u]]
  BY DEF InsertDocument
<1>3. /\ \A o \in Requests : o # u => asked'[o] = asked[o]
      /\ asked'[u].pc = "processing" /\ asked'[u].on = u
  BY <1>1, <1>2 DEF KnowledgeInv, Asks, AskedType
<1>4. /\ UNCHANGED <<resource, chunks, vectors, task, handler, knowledgeTroubles>>
      /\ UNCHANGED <<rank, givenUp>>
  BY DEF InsertDocument, history
<1>5. document' = [document EXCEPT ![u].row = "here"]
  BY DEF InsertDocument
<1>6. document[u].row = "absent" /\ DocumentType
  BY <1>1 DEF AvailableInv, NewIsAbsent, Typed
<1>7. /\ DocumentType' /\ LessIndexed /\ document'[u].row = "here"
      /\ \A v \in Versions : v # u => document'[v] = document[v]
  BY <1>1, <1>5, <1>6 DEF DocumentType, Rows, LessIndexed
<1>8. Typed' /\ Troubled
  BY <1>4, <1>7, TroublesStay DEF AvailableInv, Typed, StoresType
<1>9. SameTasks /\ \A j \in Tasks : task'[j] = task[j]
  BY <1>4 DEF SameTasks
<1>10. asked'[u].pc \notin Asking
  BY <1>3 DEF Asking
<1> QED
  BY <1>1, <1>3, <1>4, <1>6, <1>7, <1>8, <1>9, <1>10, RequestGoes

\* The version that is learned again is the latest one.
LEMMA ChooseVersionStaysAvailable ==
    ASSUME KnowledgeInv, AvailableInv, NEW r \in Relearns, ChooseVersion(r)
    PROVE  AvailableInv'
<1>1. r \in Requests
  BY DEF Requests
<1>2. /\ UNCHANGED <<resource, chunks, vectors, task, handler, knowledgeTroubles>>
      /\ UNCHANGED <<rank, givenUp>> /\ document' = document
  BY DEF ChooseVersion, stores, history
<1>3. DocumentType' /\ SameRows /\ LessIndexed /\ TroublesType' /\ Troubled
  BY <1>2, DocumentStays, TroublesStay DEF AvailableInv, Typed
<1>4. CASE Go(r, "done")
  BY <1>1, <1>2, <1>3, <1>4, GoingStaysAvailable DEF AskedSteps, Asking
<1>5. CASE Top # Nobody /\ asked' = [asked EXCEPT ![r] = [asked[r] EXCEPT !.pc = "check", !.on = Top]]
  <2>1. /\ \A o \in Requests : o # r => asked'[o] = asked[o]
        /\ asked'[r].pc = "check" /\ asked'[r].on = Top
    BY <1>1, <1>5 DEF KnowledgeInv, Asks, AskedType
  <2>2. rank[Top] > 0
    BY <1>5 DEF AvailableInv, TopIsLatest
  <2>3. Typed'
    BY <1>2, <1>3 DEF AvailableInv, Typed, StoresType
  <2>4. SameTasks /\ \A j \in Tasks : task'[j] = task[j]
    BY <1>2 DEF SameTasks
  <2>5. \A v \in Versions : document'[v].row = document[v].row
    BY <1>2
  <2> QED
    BY <1>1, <1>2, <1>3, <2>1, <2>2, <2>3, <2>4, <2>5, RequestGoes
<1> QED
  BY <1>4, <1>5 DEF ChooseVersion, Top

LEMMA ReadResourceStaysAvailable ==
    ASSUME KnowledgeInv, AvailableInv, NEW x \in Deletions, ReadResource(x)
    PROVE  AvailableInv'
<1>1. x \in Requests
  BY DEF Requests
<1>2. /\ UNCHANGED <<resource, chunks, vectors, task, handler, knowledgeTroubles>>
      /\ UNCHANGED <<rank, givenUp>> /\ document' = document
  BY DEF ReadResource, stores, history
<1>3. DocumentType' /\ SameRows /\ LessIndexed /\ TroublesType' /\ Troubled
  BY <1>2, DocumentStays, TroublesStay DEF AvailableInv, Typed
<1>4. CASE Go(x, "done")
  BY <1>1, <1>2, <1>3, <1>4, GoingStaysAvailable DEF AskedSteps, Asking
<1>5. CASE asked' = [asked EXCEPT ![x] = [asked[x] EXCEPT
                 !.pc = "delete", !.on = resource.active, !.then = resource.processing]]
  <2>1. /\ \A o \in Requests : o # x => asked'[o] = asked[o]
        /\ asked'[x].pc = "delete"
    BY <1>1, <1>5 DEF KnowledgeInv, Asks, AskedType
  <2>2. asked'[x].pc \notin Asking
    BY <2>1 DEF Asking
  <2>3. Typed'
    BY <1>2, <1>3 DEF AvailableInv, Typed, StoresType
  <2>4. SameTasks /\ \A j \in Tasks : task'[j] = task[j]
    BY <1>2 DEF SameTasks
  <2>5. \A v \in Versions : document'[v].row = document[v].row
    BY <1>2
  <2> QED
    BY <1>1, <1>2, <1>3, <2>1, <2>2, <2>3, <2>4, <2>5, RequestGoes
<1> QED
  BY <1>4, <1>5 DEF ReadResource

LEMMA CheckDocumentStaysAvailable ==
    ASSUME KnowledgeInv, AvailableInv, NEW r \in Requests, CheckDocument(r)
    PROVE  AvailableInv'
<1>1. /\ UNCHANGED <<resource, chunks, vectors, task, handler, knowledgeTroubles>>
      /\ UNCHANGED <<rank, givenUp>> /\ document' = document
      /\ asked[r].pc = "check" /\ (Go(r, "request") \/ Go(r, "done"))
  BY DEF CheckDocument, stores, history, At
<1>2. DocumentType' /\ SameRows /\ LessIndexed /\ TroublesType' /\ Troubled
  BY <1>1, DocumentStays, TroublesStay DEF AvailableInv, Typed
<1> QED
  BY <1>1, <1>2, GoingStaysAvailable DEF AskedSteps, Asking

LEMMA RequestFailsStaysAvailable ==
    ASSUME KnowledgeInv, AvailableInv, NEW q \in Requests, RequestRefused(q) \/ RequestLost(q)
    PROVE  AvailableInv'
<1>1. /\ UNCHANGED <<resource, chunks, vectors, task, handler>>
      /\ UNCHANGED <<rank, givenUp>> /\ document' = document
  BY DEF RequestRefused, RequestLost, stores, history
<1>2. /\ (asked[q].pc = "request" /\ Go(q, "refused")) \/ Go(q, "done")
      /\ Trouble
  BY DEF RequestRefused, RequestLost, At
<1>3. DocumentType' /\ SameRows /\ LessIndexed /\ TroublesType' /\ Troubled
  BY <1>1, <1>2, DocumentStays, TroubleCounts DEF AvailableInv, Typed
<1> QED
  BY <1>1, <1>2, <1>3, GoingStaysAvailable DEF AskedSteps, Asking

LEMMA RecordRefusalStaysAvailable ==
    ASSUME KnowledgeInv, AvailableInv, NEW q \in Requests, RecordRefusal(q)
    PROVE  AvailableInv'
<1>1. /\ UNCHANGED <<resource, chunks, vectors, task, handler, knowledgeTroubles>>
      /\ UNCHANGED <<rank, givenUp>> /\ asked[q].pc = "refused" /\ Go(q, "done")
  BY DEF RecordRefusal, history, At
<1>2. asked[q].on \in Versions /\ DocumentType
  BY <1>1 DEF KnowledgeInv, Asks, AskedFrame, WithVersion, AvailableInv, Typed
<1>3. document' = document \/ document' = [document EXCEPT ![asked[q].on].parse = "failed"]
  BY DEF RecordRefusal
<1>4. DocumentType' /\ SameRows /\ LessIndexed
  BY <1>2, <1>3 DEF DocumentType, Rows, Statuses, SameRows, LessIndexed
<1>5. TroublesType' /\ Troubled
  BY <1>1, TroublesStay
<1> QED
  BY <1>1, <1>4, <1>5, GoingStaysAvailable DEF AskedSteps, Asking

LEMMA RecordParseStaysAvailable ==
    ASSUME KnowledgeInv, AvailableInv, NEW q \in Requests, RecordParse(q)
    PROVE  AvailableInv'
<1> DEFINE v == asked[q].on
           queued == [document[v] EXCEPT !.parse = "queued", !.parser = asked[q].task]
           again == [queued EXCEPT !.index = "not_started", !.indexer = 0]
<1>1. /\ UNCHANGED <<resource, chunks, vectors, task, handler, knowledgeTroubles>>
      /\ UNCHANGED <<rank, givenUp>> /\ asked[q].pc = "record" /\ Go(q, "done")
  BY DEF RecordParse, history, At
<1>2. v \in Versions /\ DocumentType /\ asked[q].task \in Tasks \cup {0}
  BY <1>1 DEF KnowledgeInv, Asks, AskedType, AskedFrame, WithVersion, AvailableInv, Typed
<1>3. /\ queued \in Rows /\ queued.row = document[v].row /\ queued.index = document[v].index
      /\ again \in Rows /\ again.row = document[v].row /\ again.index = "not_started"
  <2>1. queued \in Rows /\ queued.row = document[v].row /\ queued.index = document[v].index
    <3>1. ASSUME NEW d \in Rows, NEW t \in Tasks \cup {0}
          PROVE  /\ [d EXCEPT !.parse = "queued", !.parser = t] \in Rows
                 /\ [d EXCEPT !.parse = "queued", !.parser = t].row = d.row
                 /\ [d EXCEPT !.parse = "queued", !.parser = t].index = d.index
      BY DEF Rows, Statuses
    <3>2. document[v] \in Rows
      BY <1>2 DEF DocumentType
    <3> QED
      BY <1>2, <3>1, <3>2
  <2>2. ASSUME NEW d \in Rows
        PROVE  /\ [d EXCEPT !.index = "not_started", !.indexer = 0] \in Rows
               /\ [d EXCEPT !.index = "not_started", !.indexer = 0].row = d.row
               /\ [d EXCEPT !.index = "not_started", !.indexer = 0].index = "not_started"
    BY DEF Rows, Statuses
  <2> HIDE DEF queued
  <2> QED
    BY <2>1, <2>2
<1>4. \/ document' = document
      \/ document' = [document EXCEPT ![v] = queued] \/ document' = [document EXCEPT ![v] = again]
  BY DEF RecordParse
<1>5. DocumentType' /\ SameRows /\ LessIndexed
  <2> HIDE DEF v, queued, again
  <2> QED
    BY <1>2, <1>3, <1>4 DEF DocumentType, SameRows, LessIndexed
<1>6. TroublesType' /\ Troubled
  BY <1>1, TroublesStay
<1> QED
  BY <1>1, <1>5, <1>6, GoingStaysAvailable DEF AskedSteps, Asking

LEMMA RequestParseStaysAvailable ==
    ASSUME KnowledgeInv, AvailableInv, NEW q \in Requests, RequestParse(q)
    PROVE  AvailableInv'
<1>1. PICK n \in Tasks :
         /\ NewTask("parse", asked[q].on, n)
         /\ asked' = [asked EXCEPT ![q] = [asked[q] EXCEPT !.pc = "record", !.task = n]]
  BY DEF RequestParse
<1>2. /\ UNCHANGED <<resource, chunks, vectors, handler, knowledgeTroubles>>
      /\ UNCHANGED <<rank, givenUp>> /\ document' = document /\ asked[q].pc = "request"
  BY DEF RequestParse, stores, history, At
<1>3. /\ asked[q].on \in Versions
      /\ rank[asked[q].on] > 0 \/ resource.deleted
  BY <1>2 DEF KnowledgeInv, Asks, AskedFrame, WithVersion, AvailableInv, Known, Asking
<1>4. SameTasks /\ \A i \in Tasks : task'[i].kind # "none" =>
                       task[i].kind # "none" \/ task'[i].of = asked[q].on
  BY <1>1, <1>3, NewTaskKeeps DEF KnowledgeInv, SameTasks
<1>5. /\ \A o \in Requests : o # q => asked'[o] = asked[o]
      /\ asked'[q].pc = "record" /\ asked'[q].on = asked[q].on
  BY <1>1 DEF KnowledgeInv, Asks, AskedType
<1>6. Typed' /\ SameRows /\ LessIndexed /\ Troubled
  BY <1>2, DocumentStays, TroublesStay DEF AvailableInv, Typed, StoresType
<1>7. \A v \in Versions : document'[v].row = document[v].row
  BY <1>2
<1>8. \A i \in Tasks : task'[i].kind # "none" =>
          task[i].kind # "none" \/ rank[task'[i].of] > 0 \/ resource.deleted
  BY <1>3, <1>4
<1> QED
  BY <1>2, <1>3, <1>4, <1>5, <1>6, <1>7, <1>8, RequestGoes

------------------------------------------------------------------------------
(* The steps that remove a version or make another one the latest.          *)

\* The invariant after a version was removed that is not the active one, or
\* while a deletion is under way.
LEMMA VersionGoes ==
    ASSUME KnowledgeInv, AvailableInv, NEW v \in Versions, Here(v),
           document' = [document EXCEPT ![v].row = "deleted"], vectors' = vectors \ {v},
           UNCHANGED <<resource, rank>>, StoresType', TroublesType', Troubled,
           \A i \in Tasks : task'[i].kind = task[i].kind /\ task'[i].of = task[i].of,
           \A k \in Handlers : \/ handler'[k] = handler[k]
                               \/ handler'[k].pc = "idle" /\ \A w : Settles(k, w) => w = v,
           \A q \in Requests : \/ asked'[q] = asked[q]
                               \/ /\ asked[q].pc # "new"
                                  /\ asked'[q].pc \notin Asking \cup {"new", "processing"},
           Leaving(v) \/ Deleting
    PROVE  AvailableInv'
<1>1. /\ DocumentType' /\ document'[v].row = "deleted"
      /\ \A w \in Versions : w # v => document'[w] = document[w]
      /\ \A w \in Versions : document'[w].index = document[w].index
  BY DEF AvailableInv, Typed, DocumentType, Rows
<1>2. \A k \in Handlers : handler'[k].pc # "idle" =>
          /\ handler'[k] = handler[k] /\ Of(k)' = Of(k) /\ Of(k) \in Versions
          /\ task'[handler'[k].task].kind = task[handler[k].task].kind
  <2>1. SameTasks
    BY DEF SameTasks
  <2> QED
    BY <2>1, OfStays DEF KnowledgeInv
<1>3. \A w : /\ Here(w)' <=> document'[w].row = "here"
             /\ Here(w) <=> document[w].row = "here"
             /\ Superseded(w)' <=> Superseded(w)
             /\ Leaving(w)' <=> Leaving(w)
  BY DEF Here, Superseded, Leaving, Top
<1>4. TopIsLatest'
  BY DEF AvailableInv, TopIsLatest, Top
<1>5. Deleting' <=> Deleting
  <2>1. \A o \in Requests : asked'[o].pc = "new" <=> asked[o].pc = "new"
    OBVIOUS
  <2> QED
    BY <2>1 DEF Deleting, At, Requests
<1>6. Known'
  <2>1. \A j \in Tasks : task'[j].kind # "none" => rank[task'[j].of] > 0 \/ resource.deleted
    BY DEF AvailableInv, Known
  <2>2. \A o \in Requests : asked'[o].pc \in Asking => rank[asked'[o].on] > 0 \/ resource.deleted
    BY DEF AvailableInv, Known
  <2>3. \A u \in Uploads : asked'[u].pc = "processing" => asked'[u].on = u
    BY DEF AvailableInv, Known, Requests
  <2> QED
    BY <1>5, <2>1, <2>2, <2>3 DEF AvailableInv, Known
<1>7. NewIsAbsent'
  <2>1. ASSUME NEW u \in Uploads, asked'[u].pc = "new" PROVE document'[u].row = "absent"
    <3>1. asked[u].pc = "new"
      BY <2>1 DEF Requests
    <3>2. document[u].row = "absent" /\ u # v
      BY <1>3, <3>1 DEF AvailableInv, NewIsAbsent
    <3> QED
      BY <1>1, <3>2 DEF Versions
  <2>2. ASSUME NEW w \in Versions, document'[w].row = "absent" PROVE document'[w].index # "succeeded"
    BY <1>1, <2>2 DEF AvailableInv, NewIsAbsent
  <2> QED
    BY <2>1, <2>2 DEF NewIsAbsent
<1>8. Removing'
  <2>1. ASSUME NEW k \in Handlers, handler'[k].pc = "stale" PROVE Superseded(Of(k)') \/ resource.deleted
    BY <1>2, <2>1 DEF AvailableInv, Removing
  <2>2. ASSUME NEW k \in Handlers, handler'[k].pc = "remove"
        PROVE  /\ handler'[k].previous \in Versions
               /\ Leaving(handler'[k].previous) \/ resource.deleted
    BY <1>2, <2>2 DEF AvailableInv, Removing
  <2>3. ~Deleting => \A w \in Versions : document'[w].row = "deleted" => Leaving(w)
    BY <1>1 DEF AvailableInv, Removing
  <2>4. \A k \in Handlers : handler'[k].pc = "stale" => Superseded(Of(k))' \/ resource'.deleted
    BY <2>1 DEF Superseded, Top
  <2>5. \A k \in Handlers : handler'[k].pc = "remove" =>
             handler'[k].previous \in Versions /\ (Leaving(handler[k].previous)' \/ resource'.deleted)
    BY <1>2, <2>2 DEF Leaving, Superseded, Top
  <2>6. \A k \in Handlers : handler'[k].pc = "remove" => handler'[k] = handler[k]
    BY <1>2
  <2> QED
    BY <1>3, <1>5, <2>3, <2>4, <2>5, <2>6 DEF Removing
<1>9. Indexed'
  <2> SUFFICES ASSUME NEW k \in Handlers, Brings(k)'
               PROVE  /\ Of(k)' \in vectors' \/ document'[Of(k)'].row = "deleted"
                      /\ handler'[k].pc # "find" => document'[Of(k)'].row # "absent"
    BY DEF Indexed
  <2>1. Brings(k) /\ Of(k)' = Of(k) /\ Of(k) \in Versions /\ handler'[k] = handler[k]
    BY <1>2 DEF Brings
  <2> QED
    BY <1>1, <2>1 DEF AvailableInv, Indexed
<1>10. Settling'
  <2> SUFFICES ASSUME knowledgeTroubles' = 0, NEW w \in Versions, Here(w)', document'[w].index = "succeeded"
               PROVE  w = resource'.active \/ \E k \in Handlers : Settles(k, w)'
    BY DEF Settling
  <2>1. w # v /\ document[w].index = "succeeded" /\ Here(w)
    BY <1>1, <1>3
  <2>2. w = resource.active \/ \E k \in Handlers : Settles(k, w)
    BY <2>1 DEF AvailableInv, Settling, Troubled
  <2>3. ASSUME NEW k \in Handlers, Settles(k, w) PROVE Settles(k, w)'
    <3>1. handler'[k] = handler[k] /\ handler[k].pc # "idle"
      BY <2>1, <2>3 DEF Settles
    <3> QED
      BY <1>2, <2>3, <3>1 DEF Settles
  <2> QED
    BY <2>2, <2>3
<1>11. ActiveIsAvailable'
  <2>1. resource.active # Nobody => resource.active \in Versions
    BY DEF KnowledgeInv, Order, ResourceType, VersionOrNobody
  <2>2. Leaving(v) => v # resource.active
    BY DEF Leaving
  <2> QED
    BY <1>1, <1>3, <1>5, <2>1, <2>2 DEF AvailableInv, ActiveIsAvailable
<1> QED
  BY <1>1, <1>4, <1>6, <1>7, <1>8, <1>9, <1>10, <1>11 DEF AvailableInv, Typed

LEMMA DeleteVersionStaysAvailable ==
    ASSUME KnowledgeInv, AvailableInv, NEW x \in Deletions, DeleteVersion(x)
    PROVE  AvailableInv'
<1> DEFINE v == IF asked[x].on # Nobody THEN asked[x].on ELSE asked[x].then
           rest == IF asked[x].on # Nobody THEN asked[x].then ELSE Nobody
<1>1. x \in Requests /\ asked[x].pc = "delete"
  BY DEF DeleteVersion, At, Requests
<1>2. /\ UNCHANGED <<resource, chunks, task, handler, knowledgeTroubles>>
      /\ UNCHANGED <<rank, givenUp>>
  BY DEF DeleteVersion, history
<1>3. TroublesType' /\ Troubled
  BY <1>2, TroublesStay
<1>4. CASE (Go(x, "done") \/ Go(x, "deleted")) /\ UNCHANGED <<document, vectors>>
  <2>1. DocumentType' /\ SameRows /\ LessIndexed
    BY <1>4, DocumentStays DEF AvailableInv, Typed
  <2> QED
    BY <1>1, <1>2, <1>3, <1>4, <2>1, GoingStaysAvailable DEF AskedSteps, Asking
<1>5. CASE /\ v # Nobody /\ Here(v)
           /\ document' = [document EXCEPT ![v].row = "deleted"]
           /\ vectors' = vectors \ {v}
           /\ asked' = [asked EXCEPT ![x] = [asked[x] EXCEPT !.on = Nobody, !.then = rest]]
  <2>1. v \in Versions
    BY <1>1, <1>5 DEF KnowledgeInv, Asks, AskedType, VersionOrNobody
  <2> HIDE DEF v, rest
  <2>2. /\ \A q \in Requests : q # x => asked'[q] = asked[q]
        /\ asked'[x].pc = "delete"
    BY <1>1, <1>5 DEF KnowledgeInv, Asks, AskedType
  <2>3. "delete" \notin Asking \cup {"new", "processing"}
    BY DEF Asking
  <2>4. Deleting
    BY <1>1 DEF Deleting, At
  <2>5. StoresType'
    BY <1>2, <1>5 DEF AvailableInv, Typed, StoresType
  <2>6. \A i \in Tasks : task'[i] = task[i]
    BY <1>2
  <2> QED
    BY <1>1, <1>2, <1>3, <1>5, <2>1, <2>2, <2>3, <2>4, <2>5, <2>6, VersionGoes
<1> QED
  BY <1>4, <1>5 DEF DeleteVersion

LEMMA RemoveVersionStaysAvailable ==
    ASSUME KnowledgeInv, AvailableInv, NEW h \in Handlers, RemoveVersion(h)
    PROVE  AvailableInv'
<1> DEFINE v == handler[h].previous
<1>1. /\ handler[h].pc = "remove" /\ Answer(h, TRUE)
      /\ UNCHANGED <<resource, chunks, asked, rank>> /\ UNCHANGED knowledgeTroubles
  BY DEF RemoveVersion, Now
<1>2. v \in Versions /\ (Leaving(v) \/ Deleting)
  BY <1>1 DEF AvailableInv, Removing, Known
<1>3. /\ OnlyHandler(h) /\ handler'[h].pc = "idle" /\ givenUp' \subseteq Versions
      /\ \A i \in Tasks : task'[i].kind = task[i].kind /\ task'[i].of = task[i].of
  BY <1>1, AnswerFacts DEF AvailableInv, Typed
<1>4. TroublesType' /\ Troubled
  BY <1>1, TroublesStay
<1>5. \A w : Settles(h, w) => w = v
  BY <1>1 DEF Settles
<1>6. CASE Here(v) /\ document' = [document EXCEPT ![v].row = "deleted"] /\ vectors' = vectors \ {v}
  <2>1. StoresType'
    BY <1>1, <1>3, <1>6, StoresTypeStays DEF AvailableInv, Typed, StoresType
  <2>2. \A k \in Handlers : handler'[k] = handler[k] \/ k = h
    BY <1>3 DEF OnlyHandler
  <2> QED
    BY <1>1, <1>2, <1>3, <1>4, <1>5, <1>6, <2>1, <2>2, VersionGoes
<1>7. CASE ~Here(v) /\ UNCHANGED <<document, vectors>>
  <2>1. DocumentType' /\ SameRows /\ LessIndexed
    BY <1>7, DocumentStays DEF AvailableInv, Typed
  <2>2. Typed'
    BY <1>1, <1>3, <1>4, <1>7, <2>1, StoresTypeStays DEF AvailableInv, Typed, StoresType
  <2>3. SameTasks
    BY <1>3 DEF SameTasks
  <2>4. ~ Brings(h)'
    BY <1>3 DEF Brings
  <2>5. \A w \in Versions : Here(w) => ~Settles(h, w)
    BY <1>5, <1>7
  <2> QED
    BY <1>1, <1>3, <1>4, <1>7, <2>1, <2>2, <2>3, <2>4, <2>5, CallbackGoes DEF LessIndexed
<1> QED
  BY <1>6, <1>7 DEF RemoveVersion

\* The invariant after a step of a request on the resource that leaves the
\* active version in its place.
LEMMA ResourceGoes ==
    ASSUME KnowledgeInv, AvailableInv,
           UNCHANGED <<document, chunks, vectors, task, handler, givenUp, knowledgeTroubles>>,
           resource'.active = resource.active, resource.deleted => resource'.deleted,
           \A v \in Versions : Superseded(v) => Superseded(v)',
           \A u \in Uploads : asked'[u].pc = "new" => asked[u].pc = "new",
           Deleting' <=> Deleting, TopIsLatest', Known'
    PROVE  AvailableInv'
<1>1. Typed' /\ Troubled
  BY DocumentStays, TroublesStay DEF AvailableInv, Typed, StoresType
<1>2. \A v \in Versions : Leaving(v) => Leaving(v)'
  BY DEF Leaving
<1>3. \A k \in Handlers : Of(k)' = Of(k) /\ (Brings(k)' <=> Brings(k))
  BY DEF Of, Brings
<1>4. NewIsAbsent'
  BY DEF AvailableInv, NewIsAbsent
<1>5. Removing'
  <2>1. \A k \in Handlers : handler[k].pc = "stale" => Of(k) \in Versions
    BY CallbackHasVersion DEF KnowledgeInv
  <2>2. \A k \in Handlers : handler[k].pc = "stale" => Superseded(Of(k))' \/ resource'.deleted
    <3> SUFFICES ASSUME NEW k \in Handlers, handler[k].pc = "stale"
                 PROVE  Superseded(Of(k))' \/ resource'.deleted
      OBVIOUS
    <3>1. Superseded(Of(k)) \/ resource.deleted
      BY DEF AvailableInv, Removing
    <3>2. PICK v \in Versions : v = Of(k)
      BY <2>1
    <3>3. Superseded(v) => Superseded(v)'
      OBVIOUS
    <3> QED
      BY <1>3, <3>1, <3>2, <3>3 DEF Superseded
  <2>3. \A k \in Handlers : handler[k].pc = "remove" =>
            /\ handler[k].previous \in Versions
            /\ Leaving(handler[k].previous)' \/ resource'.deleted
    <3> SUFFICES ASSUME NEW k \in Handlers, handler[k].pc = "remove"
                 PROVE  /\ handler[k].previous \in Versions
                        /\ Leaving(handler[k].previous)' \/ resource'.deleted
      OBVIOUS
    <3>1. PICK v \in Versions : v = handler[k].previous /\ (Leaving(v) \/ resource.deleted)
      BY DEF AvailableInv, Removing
    <3>2. Leaving(v) => Leaving(v)'
      BY <1>2
    <3> QED
      BY <3>1, <3>2 DEF Leaving, Superseded
  <2>4. ~Deleting' => \A v \in Versions : document'[v].row = "deleted" => Leaving(v)'
    BY <1>2 DEF AvailableInv, Removing
  <2>5. \A k \in Handlers : handler'[k] = handler[k]
    OBVIOUS
  <2> QED
    BY <2>2, <2>3, <2>4, <2>5 DEF Removing
<1>6. Indexed'
  BY <1>3 DEF AvailableInv, Indexed
<1>7. Settling'
  BY <1>3 DEF AvailableInv, Settling, Settles, Here
<1>8. ActiveIsAvailable'
  BY DEF AvailableInv, ActiveIsAvailable, Here
<1> QED
  BY <1>1, <1>4, <1>5, <1>6, <1>7, <1>8 DEF AvailableInv

\* The upload that is set processing is the latest version.
LEMMA SetProcessingStaysAvailable ==
    ASSUME KnowledgeInv, AvailableInv, NEW u \in Uploads, SetProcessing(u), KnowledgeInv'
    PROVE  AvailableInv'
<1>1. u \in Requests /\ u \in Versions /\ asked[u].pc = "processing" /\ Go(u, "request")
  BY DEF SetProcessing, At, Requests, Versions
<1>2. UNCHANGED <<document, chunks, vectors, task, handler, givenUp, knowledgeTroubles>>
  BY DEF SetProcessing
<1>3. CASE resource.deleted /\ UNCHANGED <<resource, rank>>
  <2>1. DocumentType' /\ SameRows /\ LessIndexed /\ TroublesType' /\ Troubled
    BY <1>2, DocumentStays, TroublesStay DEF AvailableInv, Typed
  <2> QED
    BY <1>1, <1>2, <1>3, <2>1, GoingStaysAvailable DEF AskedSteps, Asking
<1>4. CASE /\ ~resource.deleted
           /\ resource' = [resource EXCEPT !.processing = u]
           /\ rank' = [rank EXCEPT ![u] = 1 + Cardinality(Ranked)]
  <2>1. /\ resource'.active = resource.active /\ resource'.processing = u
        /\ resource'.deleted = resource.deleted /\ u # Nobody
    BY <1>1, <1>4, UploadsAssumption DEF KnowledgeInv, Order, ResourceType
  <2>2. PICK n \in Nat : n = 1 + Cardinality(Ranked) /\ n > 0
    <3>1. IsFiniteSet(Ranked) /\ Cardinality(Ranked) \in Nat
      BY UploadsAssumption, FS_Subset, FS_CardinalityType DEF Ranked, Versions
    <3> QED
      BY <3>1
  <2>3. /\ rank'[u] > 0 /\ \A v \in Versions : v # u => rank'[v] = rank[v]
        /\ rank[u] = 0
    BY <1>1, <1>4, <2>2 DEF KnowledgeInv, Order, RankType, UploadIsFresh
  <2>4. Top' = u
    BY <2>1 DEF Top
  <2>5. \A v \in Versions : Superseded(v) => Superseded(v)'
    BY <2>3, <2>4 DEF Superseded
  <2>6. TopIsLatest'
    <3>1. \A v \in Versions : v # u => rank'[v] < rank'[u]
      BY <2>1 DEF KnowledgeInv, Order, Latest
    <3>2. resource.active # Nobody => rank'[resource.active] > 0
      <4>1. resource.active # Nobody => resource.active \in Versions /\ rank[resource.active] > 0
        BY DEF AvailableInv, TopIsLatest, KnowledgeInv, Order, ResourceType, VersionOrNobody
      <4> QED
        BY <2>3, <4>1
    <3> QED
      BY <2>1, <2>3, <2>4, <3>1, <3>2 DEF TopIsLatest
  <2>7. /\ \A o \in Requests : o # u => asked'[o] = asked[o]
        /\ asked'[u].pc = "request" /\ asked'[u].on = asked[u].on
    BY <1>1, GoFacts
  <2>8. Deleting' <=> Deleting
    <3>1. \A o \in Requests : asked'[o].pc = "new" <=> asked[o].pc = "new"
      BY <1>1, <2>7
    <3> QED
      BY <3>1 DEF Deleting, At, Requests
  <2>9. \A v \in Versions : rank[v] > 0 => rank'[v] > 0
    BY <2>3
  <2>10. Known'
    <3>1. asked[u].on = u
      BY <1>1 DEF AvailableInv, Known
    <3>2. \A o \in Requests : asked'[o].pc \in Asking => rank'[asked'[o].on] > 0
      <4> SUFFICES ASSUME NEW o \in Requests, asked'[o].pc \in Asking
                   PROVE  rank'[asked'[o].on] > 0
        OBVIOUS
      <4>1. CASE o = u
        BY <2>3, <2>7, <3>1, <4>1
      <4>2. CASE o # u
        <5>1. asked[o].pc \in Asking /\ asked'[o].on = asked[o].on
          BY <2>7, <4>2
        <5>2. rank[asked[o].on] > 0
          BY <1>4, <5>1 DEF AvailableInv, Known
        <5>3. asked[o].on \in Versions
          BY <5>1 DEF KnowledgeInv, Asks, AskedFrame, Asking, WithVersion
        <5> QED
          BY <2>9, <5>1, <5>2, <5>3
      <4> QED
        BY <4>1, <4>2
    <3>3. \A j \in Tasks : task'[j].kind # "none" => rank'[task'[j].of] > 0
      <4> SUFFICES ASSUME NEW j \in Tasks, task[j].kind # "none" PROVE rank'[task[j].of] > 0
        BY <1>2
      <4>1. task[j].of \in Versions /\ rank[task[j].of] > 0
        BY <1>4 DEF AvailableInv, Known, KnowledgeInv, Jobs, TaskFrame
      <4> QED
        BY <2>9, <4>1
    <3>4. \A w \in Uploads : asked'[w].pc = "processing" => asked'[w].on = w
      BY <2>7 DEF AvailableInv, Known, Requests
    <3> QED
      BY <1>4, <2>1, <3>2, <3>3, <3>4 DEF Known
  <2>11. \A w \in Uploads : asked'[w].pc = "new" => asked[w].pc = "new"
    BY <2>7 DEF Requests
  <2> QED
    BY <1>2, <2>1, <2>5, <2>6, <2>8, <2>10, <2>11, ResourceGoes
<1> QED
  BY <1>3, <1>4 DEF SetProcessing, Ranked

LEMMA MarkDeletedStaysAvailable ==
    ASSUME KnowledgeInv, AvailableInv, NEW x \in Deletions, MarkDeleted(x)
    PROVE  AvailableInv'
<1>1. x \in Requests /\ asked[x].pc = "deleted" /\ Go(x, "done")
  BY DEF MarkDeleted, At, Requests
<1>2. /\ UNCHANGED <<document, chunks, vectors, task, handler, knowledgeTroubles>>
      /\ UNCHANGED <<rank, givenUp>>
  BY DEF MarkDeleted, history
<1>3. /\ resource'.active = resource.active /\ resource'.processing = resource.processing
      /\ resource'.deleted
  BY DEF MarkDeleted, KnowledgeInv, Order, ResourceType
<1>4. \A v \in Versions : Superseded(v) => Superseded(v)'
  BY <1>2, <1>3 DEF Superseded, Top
<1>5. TopIsLatest'
  BY <1>2, <1>3 DEF AvailableInv, TopIsLatest, Top
<1>6. /\ \A o \in Requests : o # x => asked'[o] = asked[o]
      /\ asked'[x].pc = "done"
  BY <1>1, GoFacts
<1>7. \A o \in Requests : asked'[o].pc = "new" <=> asked[o].pc = "new"
  BY <1>1, <1>6
<1>8. Deleting /\ Deleting'
  BY <1>1, <1>6 DEF Deleting, At
<1>9. Known'
  <2>1. \A u \in Uploads : asked'[u].pc = "processing" => asked'[u].on = u
    BY <1>6 DEF AvailableInv, Known, Requests
  <2> QED
    BY <1>3, <1>8, <2>1 DEF Known
<1> QED
  BY <1>2, <1>3, <1>4, <1>5, <1>7, <1>8, <1>9, ResourceGoes DEF Requests

\* The version that is switched in is the latest and has its vectors.
LEMMA SwitchedStaysAvailable ==
    ASSUME KnowledgeInv, AvailableInv, NEW h \in Handlers, handler[h].pc = "activate",
           Current(Of(h)), ~resource.deleted,
           resource' = [resource EXCEPT !.active = Of(h), !.processing = Nobody],
           UNCHANGED <<document, chunks, vectors, asked, rank, knowledgeTroubles>>,
           \A i \in Tasks : task'[i].kind = task[i].kind /\ task'[i].of = task[i].of,
           OnlyHandler(h), StoresType',
           IF resource.active \notin {Nobody, Of(h)}
           THEN handler'[h].pc = "remove" /\ handler'[h].previous = resource.active
           ELSE handler'[h].pc = "idle"
    PROVE  AvailableInv'
<1>1. PICK v \in Versions : v = Of(h)
  BY CallbackHasVersion DEF KnowledgeInv
<1>2. v # Nobody /\ (resource.active # Nobody => resource.active \in Versions)
  BY UploadsAssumption DEF KnowledgeInv, Order, ResourceType, VersionOrNobody, Versions
<1>3. resource'.active = v /\ resource'.processing = Nobody /\ ~resource'.deleted
  BY <1>1 DEF KnowledgeInv, Order, ResourceType
<1>4. rank[v] > 0
  <2>1. handler[h].task \in Tasks /\ task[handler[h].task].kind # "none"
    BY DEF KnowledgeInv, Jobs, HandlerFrame
  <2> QED
    BY <1>1, <2>1 DEF AvailableInv, Known, Of
<1>5. Top = v /\ Top' = v
  <2>1. Top' = v
    BY <1>3 DEF Top
  <2>2. CASE resource.processing = v
    BY <1>2, <2>1, <2>2 DEF Top
  <2>3. CASE resource.processing = Nobody /\ resource.active \in {v, Nobody}
    <3>1. Top # Nobody
      BY <1>4 DEF AvailableInv, TopIsLatest, KnowledgeInv, Order, RankType
    <3> QED
      BY <2>1, <2>3, <3>1 DEF Top
  <2> QED
    BY <1>1, <2>2, <2>3 DEF Current
<1>6. \A w : /\ Superseded(w)' <=> Superseded(w)
             /\ Leaving(w)' <=> Superseded(w)
             /\ Leaving(w) => Superseded(w)
             /\ Here(w)' <=> Here(w)
  BY <1>3, <1>5 DEF Superseded, Leaving, Here
<1>7. \A k \in Handlers : k # h /\ handler[k].pc # "idle" =>
          /\ handler'[k] = handler[k] /\ Of(k)' = Of(k) /\ Of(k) \in Versions
          /\ task'[handler'[k].task].kind = task[handler[k].task].kind
  <2>1. SameTasks
    BY DEF SameTasks
  <2> QED
    BY <2>1, OfStays DEF KnowledgeInv, OnlyHandler
<1>8. \A k \in Handlers : k # h => handler'[k] = handler[k]
  BY DEF OnlyHandler
<1>9. Deleting' <=> Deleting
  BY DEF Deleting, At
<1>10. Typed'
  BY DocumentStays, TroublesStay DEF AvailableInv, Typed
<1>11. TopIsLatest'
  <2>1. \A w \in Versions : w # v => rank[w] < rank[v]
    BY <1>2, <1>5 DEF AvailableInv, TopIsLatest
  <2> QED
    BY <1>2, <1>3, <1>4, <1>5, <2>1 DEF TopIsLatest
<1>12. Known'
  <2>1. \A j \in Tasks : task'[j].kind # "none" => rank[task'[j].of] > 0
    BY DEF AvailableInv, Known
  <2>2. \A q \in Requests : asked[q].pc \in Asking => rank[asked[q].on] > 0
    BY DEF AvailableInv, Known
  <2>3. \A u \in Uploads : asked[u].pc = "processing" => asked[u].on = u
    BY DEF AvailableInv, Known
  <2> QED
    BY <1>3, <2>1, <2>2, <2>3 DEF Known
<1>13. NewIsAbsent'
  BY DEF AvailableInv, NewIsAbsent
<1>14. Removing'
  <2>1. ASSUME NEW k \in Handlers, handler'[k].pc = "stale" PROVE Superseded(Of(k))'
    <3>1. k # h /\ handler[k].pc = "stale"
      BY <1>8, <2>1
    <3>2. Superseded(Of(k))
      BY <3>1 DEF AvailableInv, Removing
    <3>3. Of(k)' = Of(k)
      BY <1>7, <3>1
    <3> QED
      BY <1>5, <3>2, <3>3 DEF Superseded
  <2>2. ASSUME NEW k \in Handlers, handler'[k].pc = "remove"
        PROVE  handler'[k].previous \in Versions /\ Superseded(handler'[k].previous)
    <3>1. CASE k = h
      <4>1. resource.active \notin {Nobody, v} /\ handler'[k].previous = resource.active
        BY <1>1, <2>2, <3>1
      <4>2. rank[resource.active] > 0
        BY <4>1 DEF AvailableInv, TopIsLatest
      <4> QED
        BY <1>2, <1>5, <4>1, <4>2 DEF Superseded
    <3>2. CASE k # h
      BY <1>6, <1>8, <2>2, <3>2 DEF AvailableInv, Removing
    <3> QED
      BY <3>1, <3>2
  <2>3. \A w \in Versions : ~Deleting /\ document[w].row = "deleted" => Superseded(w)
    BY <1>6 DEF AvailableInv, Removing
  <2>4. \A k \in Handlers : handler'[k].pc = "remove" =>
            handler'[k].previous \in Versions /\ Leaving(handler[k].previous)'
    <3> SUFFICES ASSUME NEW k \in Handlers, handler'[k].pc = "remove"
                 PROVE  handler'[k].previous \in Versions /\ Leaving(handler[k].previous)'
      OBVIOUS
    <3>1. PICK w \in Versions : w = handler'[k].previous /\ Superseded(w)
      BY <2>2
    <3>2. Leaving(w)'
      BY <1>6, <3>1
    <3> QED
      BY <3>1, <3>2 DEF Leaving, Superseded
  <2>5. \A w \in Versions : ~Deleting' /\ document'[w].row = "deleted" => Leaving(w)'
    BY <1>6, <1>9, <2>3
  <2> QED
    BY <2>1, <2>4, <2>5 DEF Removing
<1>15. Indexed'
  <2> SUFFICES ASSUME NEW k \in Handlers, Brings(k)'
               PROVE  /\ Of(k)' \in vectors' \/ document'[Of(k)'].row = "deleted"
                      /\ handler'[k].pc # "find" => document'[Of(k)'].row # "absent"
    BY DEF Indexed
  <2>1. k # h
    BY DEF Brings
  <2>2. Brings(k) /\ Of(k)' = Of(k) /\ Of(k) \in Versions /\ handler'[k] = handler[k]
    BY <1>7, <1>8, <2>1 DEF Brings
  <2> QED
    BY <2>2 DEF AvailableInv, Indexed
<1>16. Settling'
  <2> SUFFICES ASSUME knowledgeTroubles' = 0, NEW w \in Versions, Here(w)', document'[w].index = "succeeded"
               PROVE  w = resource'.active \/ \E k \in Handlers : Settles(k, w)'
    BY DEF Settling
  <2>1. w = resource.active \/ \E k \in Handlers : Settles(k, w)
    BY <1>6 DEF AvailableInv, Settling
  <2>2. CASE w = v
    BY <1>3, <2>2
  <2>3. CASE w # v /\ w = resource.active
    <3>1. handler'[h].pc = "remove" /\ handler'[h].previous = w
      BY <1>1, <1>2, <2>3, UploadsAssumption DEF Versions
    <3> QED
      BY <3>1 DEF Settles
  <2>4. ASSUME NEW k \in Handlers, Settles(k, w), w # v PROVE Settles(k, w)'
    <3>1. k # h /\ handler[k].pc # "idle"
      BY <1>1, <2>4 DEF Settles
    <3> QED
      BY <1>7, <2>4, <3>1 DEF Settles
  <2> QED
    BY <2>1, <2>2, <2>3, <2>4
<1>17. ActiveIsAvailable'
  <2>1. ASSUME ~Deleting PROVE document[v].row = "here" /\ v \in vectors
    <3>1. /\ v \in vectors \/ document[v].row = "deleted"
          /\ document[v].row # "absent"
      BY <1>1 DEF AvailableInv, Indexed, Brings
    <3>2. document[v].row # "deleted"
      BY <1>5, <2>1 DEF AvailableInv, Removing, Leaving, Superseded
    <3>3. document[v].row \in {"absent", "here", "deleted"}
      BY DEF AvailableInv, Typed, DocumentType, Rows
    <3> QED
      BY <3>1, <3>2, <3>3
  <2> QED
    BY <1>3, <1>9, <2>1 DEF ActiveIsAvailable, Here
<1> QED
  BY <1>10, <1>11, <1>12, <1>13, <1>14, <1>15, <1>16, <1>17 DEF AvailableInv

LEMMA ActivateStaysAvailable ==
    ASSUME KnowledgeInv, AvailableInv, NEW h \in Handlers, Activate(h)
    PROVE  AvailableInv'
<1>1. /\ handler[h].pc = "activate"
      /\ UNCHANGED <<document, chunks, vectors, asked, rank, knowledgeTroubles>>
  BY DEF Activate, Now
<1>2. Of(h) \in Versions
  BY <1>1, CallbackHasVersion DEF KnowledgeInv
<1>3. DocumentType' /\ SameRows /\ LessIndexed /\ TroublesType' /\ Troubled
  BY <1>1, DocumentStays, TroublesStay DEF AvailableInv, Typed
<1>4. CASE Current(Of(h)) /\ ~resource.deleted
  <2>1. resource' = [resource EXCEPT !.active = Of(h), !.processing = Nobody]
    BY <1>4 DEF Activate
  <2>2. CASE resource.active \notin {Nobody, Of(h)}
    <3>1. /\ handler' = [handler EXCEPT ![h] =
                [handler[h] EXCEPT !.pc = "remove", !.previous = resource.active]]
          /\ UNCHANGED <<task, givenUp>>
      BY <1>4, <2>2 DEF Activate
    <3>2. /\ OnlyHandler(h) /\ handler'[h].pc = "remove" /\ handler'[h].previous = resource.active
      BY <3>1 DEF KnowledgeInv, Jobs, HandlerType, Callbacks, OnlyHandler
    <3>3. StoresType'
      BY <1>1, <3>1 DEF AvailableInv, Typed, StoresType
    <3>4. \A i \in Tasks : task'[i] = task[i]
      BY <3>1
    <3> QED
      BY <1>1, <1>4, <2>1, <2>2, <3>2, <3>3, <3>4, SwitchedStaysAvailable
  <2>3. CASE resource.active \in {Nobody, Of(h)}
    <3>1. Answer(h, TRUE)
      BY <1>4, <2>3 DEF Activate
    <3>2. /\ OnlyHandler(h) /\ handler'[h].pc = "idle" /\ givenUp' \subseteq Versions
          /\ \A i \in Tasks : task'[i].kind = task[i].kind /\ task'[i].of = task[i].of
      BY <1>1, <3>1, AnswerFacts DEF AvailableInv, Typed
    <3>3. StoresType'
      BY <1>1, <3>2, StoresTypeStays DEF AvailableInv, Typed, StoresType
    <3> QED
      BY <1>1, <1>4, <2>1, <2>3, <3>2, <3>3, SwitchedStaysAvailable
  <2> QED
    BY <2>2, <2>3
<1>5. CASE ~(Current(Of(h)) /\ ~resource.deleted)
  <2>1. Next1(h, "stale") /\ UNCHANGED <<resource, task, givenUp>>
    BY <1>5 DEF Activate
  <2>2. /\ OnlyHandler(h) /\ handler'[h].pc = "stale" /\ handler'[h].task = handler[h].task
    BY <2>1, NextFacts
  <2>3. SameTasks /\ \A j \in Tasks : task'[j] = task[j]
    BY <2>1 DEF SameTasks
  <2>4. Of(h)' = Of(h)
    BY <1>1, <2>2, <2>3, OfStays DEF KnowledgeInv
  <2>5. Superseded(Of(h)) \/ resource.deleted
    <3>1. handler[h].task \in Tasks /\ task[handler[h].task].kind # "none"
      BY <1>1 DEF KnowledgeInv, Jobs, HandlerFrame
    <3>2. rank[Of(h)] > 0 \/ resource.deleted
      BY <3>1 DEF AvailableInv, Known, Of
    <3>3. Of(h) # Nobody
      BY <1>2, UploadsAssumption DEF Versions
    <3> QED
      BY <1>5, <3>2, <3>3 DEF Superseded, Top, Current
  <2>6. Typed'
    BY <1>1, <1>3, <2>1 DEF AvailableInv, Typed, StoresType
  <2>7. ~ Brings(h)'
    BY <2>2 DEF Brings
  <2>8. \A w : Settles(h, w) => Settles(h, w)'
    BY <1>1, <2>2, <2>4 DEF Settles
  <2> QED
    BY <1>1, <1>3, <2>1, <2>2, <2>3, <2>4, <2>5, <2>6, <2>7, <2>8, CallbackGoes DEF LessIndexed
<1> QED
  BY <1>4, <1>5

------------------------------------------------------------------------------
(* The theorems.                                                            *)

LEMMA AvailableStutter ==
    ASSUME KnowledgeInv, AvailableInv, UNCHANGED knowledgeVars
    PROVE  AvailableInv'
<1>1. UNCHANGED <<stores, task, handler, asked, history, knowledgeTroubles>>
  BY DEF knowledgeVars
<1>2. \A i \in Tasks : task'[i] = task[i]
  BY <1>1
<1> QED
  BY <1>1, <1>2, TroublesStay, SteppingStaysAvailable

LEMMA AvailableStep ==
    ASSUME KnowledgeInv, AvailableInv, [KnowledgeNext]_knowledgeVars
    PROVE  AvailableInv'
<1>1. KnowledgeInv'
  BY KnowledgeStepKeeps
<1>2. ASSUME NEW q \in Requests, RequestStep(q) \/ RequestLost(q)
      PROVE  AvailableInv'
  BY <1>1, <1>2, SetProcessingStaysAvailable, CheckDocumentStaysAvailable,
     DeleteVersionStaysAvailable, MarkDeletedStaysAvailable, RequestParseStaysAvailable,
     RequestFailsStaysAvailable, RecordRefusalStaysAvailable, RecordParseStaysAvailable
     DEF RequestStep
<1>3. ASSUME NEW h \in Handlers, HandlerStep(h) \/ HandlerRaises(h)
      PROVE  AvailableInv'
  BY <1>3, FindDocumentStaysAvailable, RecordFailureStaysAvailable, DeleteRowsStaysAvailable,
     InsertRowsStaysAvailable, RecordParsedStaysAvailable, RequestIndexStaysAvailable,
     IndexRefusedStaysAvailable, RecordIndexStaysAvailable, RecordIndexedStaysAvailable,
     ActivateStaysAvailable, CheckStaleStaysAvailable, RemoveVersionStaysAvailable,
     HandlerRaisesStaysAvailable DEF HandlerStep
<1> QED
  BY <1>2, <1>3, InsertDocumentStaysAvailable, ChooseVersionStaysAvailable,
     ReadResourceStaysAvailable, TaskStepStaysAvailable, AvailableStutter DEF KnowledgeNext

(* The strengthened invariant is inductive.                                 *)
THEOREM AvailableInductive == KnowledgeSpec => [](KnowledgeInv /\ AvailableInv)
<1>1. KnowledgeInit => KnowledgeInv /\ AvailableInv
  BY KnowledgeInitInv, AvailableInit
<1>2. KnowledgeInv /\ AvailableInv /\ [KnowledgeNext]_knowledgeVars => (KnowledgeInv /\ AvailableInv)'
  BY KnowledgeStepKeeps, AvailableStep
<1> QED
  BY <1>1, <1>2, PTL DEF KnowledgeSpec

(* The stores of a resource keep their types through every request, callback *)
(* and repeated job.                                                         *)
THEOREM KnowledgeTypeCorrect == KnowledgeSpec => []KnowledgeTypeOK
<1>1. KnowledgeInv /\ AvailableInv => KnowledgeTypeOK
  <2> SUFFICES ASSUME KnowledgeInv, AvailableInv PROVE KnowledgeTypeOK
    OBVIOUS
  <2>1. {resource.active, resource.processing} \subseteq Versions \cup {Nobody}
    BY DEF KnowledgeInv, Order, ResourceType, VersionOrNobody
  <2>2. \A v \in Versions :
          /\ document[v].row \in {"absent", "here", "deleted"}
          /\ {document[v].parse, document[v].index} \subseteq
                {"not_started", "queued", "succeeded", "failed"}
          /\ {document[v].parser, document[v].indexer} \subseteq Tasks \cup {0}
    BY DEF AvailableInv, Typed, DocumentType, Rows, Statuses
  <2>3. chunks \cup vectors \cup givenUp \subseteq Versions
    BY DEF AvailableInv, Typed, StoresType
  <2> QED
    BY <2>1, <2>2, <2>3 DEF KnowledgeTypeOK
<1> QED
  BY <1>1, AvailableInductive, PTL

(* "The previous active version remains available until this processing     *)
(* version succeeds and is switched in" (upload_document): the version that *)
(* answers a search has its row and its vectors, whatever is uploaded,      *)
(* learned again, repeated, refused or lost, while no deletion was asked.   *)
THEOREM ActiveStaysAvailable == KnowledgeSpec => []ActiveIsAvailable
<1>1. AvailableInv => ActiveIsAvailable
  BY DEF AvailableInv
<1> QED
  BY <1>1, AvailableInductive, PTL

(* Undisturbed, a version that was indexed and replaced is removed: no search *)
(* finds it (activate_indexed_document, _soft_delete_document).              *)
THEOREM SupersededGo == KnowledgeSpec => []SupersededIsRemoved
<1>1. AvailableInv => SupersededIsRemoved
  <2> SUFFICES ASSUME AvailableInv, AtRest, knowledgeTroubles = 0,
                      NEW v \in Versions, Here(v), document[v].index = "succeeded"
               PROVE  v = resource.active
    BY DEF SupersededIsRemoved
  <2>1. \A h \in Handlers : ~Settles(h, v)
    BY DEF AtRest, Now, Settles
  <2> QED
    BY <2>1 DEF AvailableInv, Settling
<1> QED
  BY <1>1, AvailableInductive, PTL

================================================================================
