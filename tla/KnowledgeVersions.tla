--------------------------- MODULE KnowledgeVersions ---------------------------
(***************************************************************************)
(* The versions of one personal knowledge resource.  chat-api uploads a    *)
(* file, replaces it, learns it again or deletes it; admin-api keeps a     *)
(* document row per version, asks the document parser for a parse job and  *)
(* then an index job, and takes their callbacks; the version whose index   *)
(* job succeeds becomes the active one, and the one before is deleted.     *)
(*                                                                         *)
(* The parser's jobs are Celery tasks that are acknowledged late and       *)
(* repeated when they raise, also because a callback was answered with an  *)
(* error.  admin-api is single-threaded: an action is what a handler does  *)
(* between two awaits, which is one database operation or one synchronous  *)
(* request.                                                                *)
(*                                                                         *)
(* The subject is which version answers a search: the status texts, the    *)
(* previews and documents without text are left out.  A version is named   *)
(* by the upload that brings it.                                           *)
(***************************************************************************)
EXTENDS Naturals, FiniteSets

CONSTANTS
    Uploads,      \* uploads of a first and of later versions
    Relearns,     \* relearn requests
    Deletions,    \* delete requests
    Handlers,     \* callbacks admin-api serves at a time
    Nobody,
    MaxRequests,  \* bound: requests made
    MaxJobs,      \* bound: parse and index jobs
    MaxRetries,   \* retries of a task, two in the code
    MaxTroubles   \* bound: refused requests, raising handlers, crashes, lost workers

ASSUME UploadsAssumption == IsFiniteSet(Uploads) /\ Nobody \notin Uploads

VARIABLES
    resource,     \* the row of knowledge_resources
    document,     \* the rows of knowledge_documents
    chunks,       \* versions with rows in knowledge_document_chunks
    vectors,      \* versions with vectors
    task,         \* the jobs of the parser
    handler,      \* the callbacks admin-api is serving
    asked,        \* progress of the requests of chat-api
    rank,         \* when a version became the processing one
    givenUp,      \* versions whose job ended without a callback that was taken
    knowledgeTroubles

stores == <<resource, document, chunks, vectors>>
history == <<rank, givenUp>>
knowledgeVars == <<stores, task, handler, asked, history, knowledgeTroubles>>

Versions == Uploads
Requests == Uploads \cup Relearns \cup Deletions
Tasks == 1..MaxJobs
NewRequest == [pc |-> "new", on |-> Nobody, then |-> Nobody, task |-> 0]
DoneRequest == [NewRequest EXCEPT !.pc = "done"]
NoTask == [kind |-> "none", of |-> Nobody, pc |-> "none", tries |-> 0]
Idle == [pc |-> "idle", task |-> 0, says |-> "none", previous |-> Nobody, indexer |-> 0]

KnowledgeInit ==
    /\ resource = [active |-> Nobody, processing |-> Nobody, deleted |-> FALSE]
    /\ document = [v \in Versions |-> [row |-> "absent", parse |-> "not_started",
                   index |-> "not_started", parser |-> 0, indexer |-> 0]]
    /\ chunks = {} /\ vectors = {}
    /\ task = [j \in Tasks |-> NoTask]
    /\ handler = [h \in Handlers |-> Idle]
    /\ asked = [q \in Requests |-> NewRequest]
    /\ rank = [v \in Versions |-> 0]
    /\ givenUp = {}
    /\ knowledgeTroubles = 0

Trouble == knowledgeTroubles < MaxTroubles /\ knowledgeTroubles' = knowledgeTroubles + 1

Here(v) == document[v].row = "here"
\* Mutant of Current: every version may become the active one.
CurrentAnyway(v) == TRUE
Current(v) == \/ resource.processing = v
              \/ resource.processing = Nobody /\ resource.active \in {v, Nobody}

\* POST /api/jobs/document-parse or document-index
NewTask(kind, v, n) ==
    /\ \A j \in Tasks : j < n <=> task[j].kind # "none"
    /\ task' = [task EXCEPT ![n] = [kind |-> kind, of |-> v, pc |-> "queued", tries |-> 0]]

------------------------------------------------------------------------------
(* Requests of chat-api, and the routes of admin-api they call. *)

At(q, pc) == asked[q].pc = pc
New(q) == At(q, "new") /\ Cardinality({o \in Requests : ~At(o, "new")}) < MaxRequests
Go(q, pc) == asked' = [asked EXCEPT ![q] =
                          IF pc = "done" THEN DoneRequest ELSE [@ EXCEPT !.pc = pc]]

\* upload_document
InsertDocument(u) ==
    /\ New(u)
    /\ ~resource.deleted
    /\ document' = [document EXCEPT ![u].row = "here"]
    /\ asked' = [asked EXCEPT ![u] = [@ EXCEPT !.pc = "processing", !.on = u]]
    /\ UNCHANGED <<resource, chunks, vectors, task, handler, history, knowledgeTroubles>>

SetProcessing(u) ==
    /\ At(u, "processing")
    /\ IF resource.deleted THEN UNCHANGED <<resource, rank>>
       ELSE /\ resource' = [resource EXCEPT !.processing = u]
            /\ rank' = [rank EXCEPT ![u] = 1 + Cardinality({v \in Versions : rank[v] > 0})]
    /\ Go(u, "request")
    /\ UNCHANGED <<document, chunks, vectors, task, handler, givenUp, knowledgeTroubles>>

\* relearn_personal_document: the version that is being processed comes first.
ChooseVersion(r) ==
    /\ New(r)
    /\ LET v == IF resource.processing # Nobody THEN resource.processing ELSE resource.active
       IN  IF resource.deleted \/ v = Nobody THEN Go(r, "done")
           ELSE asked' = [asked EXCEPT ![r] = [@ EXCEPT !.pc = "check", !.on = v]]
    /\ UNCHANGED <<stores, task, handler, history, knowledgeTroubles>>

\* retry_document_parse
CheckDocument(r) ==
    /\ At(r, "check")
    /\ Go(r, IF Here(asked[r].on) /\ document[asked[r].on].parse # "queued"
             THEN "request" ELSE "done")
    /\ UNCHANGED <<stores, task, handler, history, knowledgeTroubles>>

RequestParse(q) ==
    /\ At(q, "request")
    /\ \E n \in Tasks :
          /\ NewTask("parse", asked[q].on, n)
          /\ asked' = [asked EXCEPT ![q] = [@ EXCEPT !.pc = "record", !.task = n]]
    /\ UNCHANGED <<stores, handler, history, knowledgeTroubles>>

RequestRefused(q) ==
    /\ At(q, "request")
    /\ Trouble
    /\ Go(q, "refused")
    /\ UNCHANGED <<stores, task, handler, history>>

RecordRefusal(q) ==
    /\ At(q, "refused")
    /\ LET v == asked[q].on
       IN  document' = IF Here(v)
             THEN [document EXCEPT ![v].parse = "failed"] ELSE document
    /\ Go(q, "done")
    /\ UNCHANGED <<resource, chunks, vectors, task, handler, history, knowledgeTroubles>>

\* Learning again starts the index from nothing.
RecordParse(q) ==
    /\ At(q, "record")
    /\ LET v == asked[q].on
           queued == [document[v] EXCEPT !.parse = "queued", !.parser = asked[q].task]
       IN  document' =
             IF q \in Uploads THEN [document EXCEPT ![v] = queued]
             ELSE IF Here(v)
             THEN [document EXCEPT ![v] = [queued EXCEPT !.index = "not_started", !.indexer = 0]]
             ELSE document
    /\ Go(q, "done")
    /\ UNCHANGED <<resource, chunks, vectors, task, handler, history, knowledgeTroubles>>

\* delete_personal_document deletes the active version, then the other one,
\* then chat-api marks the resource.
ReadResource(x) ==
    /\ New(x)
    /\ IF resource.deleted THEN Go(x, "done")
       ELSE asked' = [asked EXCEPT ![x] =
              [@ EXCEPT !.pc = "delete", !.on = resource.active, !.then = resource.processing]]
    /\ UNCHANGED <<stores, task, handler, history, knowledgeTroubles>>

\* A version that has gone already answers 404, which ends the deletion.
DeleteVersion(x) ==
    /\ At(x, "delete")
    /\ LET v == IF asked[x].on # Nobody THEN asked[x].on ELSE asked[x].then
           rest == IF asked[x].on # Nobody THEN asked[x].then ELSE Nobody
       IN  IF v = Nobody
           THEN Go(x, "deleted") /\ UNCHANGED <<document, vectors>>
           ELSE IF ~Here(v) THEN Go(x, "done") /\ UNCHANGED <<document, vectors>>
           ELSE /\ document' = [document EXCEPT ![v].row = "deleted"]
                /\ vectors' = vectors \ {v}
                /\ asked' = [asked EXCEPT ![x] = [@ EXCEPT !.on = Nobody, !.then = rest]]
    /\ UNCHANGED <<resource, chunks, task, handler, history, knowledgeTroubles>>

MarkDeleted(x) ==
    /\ At(x, "deleted")
    /\ resource' = [resource EXCEPT !.deleted = TRUE]
    /\ Go(x, "done")
    /\ UNCHANGED <<document, chunks, vectors, task, handler, history, knowledgeTroubles>>

------------------------------------------------------------------------------
(* The tasks of the document parser. *)

Free == {h \in Handlers : handler[h].pc = "idle"}

\* A callback is posted: admin-api begins to serve it.
Post(j, says) ==
    \E h \in Free :
       /\ h = CHOOSE x \in Free : TRUE
       /\ handler' = [handler EXCEPT ![h] = [Idle EXCEPT !.pc = "find", !.task = j, !.says = says]]

TaskTo(j, pc) == task' = [task EXCEPT ![j].pc = pc]

\* The task is repeated, or its failure is reported.
Again(t) == IF t.tries < MaxRetries
            THEN [t EXCEPT !.pc = "queued", !.tries = t.tries + 1]
            ELSE [t EXCEPT !.pc = "failing"]
Raised(j) == task' = [task EXCEPT ![j] = Again(task[j])]

ParseDone(j) ==
    /\ task[j].kind = "parse" /\ task[j].pc = "queued"
    /\ Post(j, "succeeded")
    /\ TaskTo(j, "posted")
    /\ UNCHANGED <<stores, asked, history, knowledgeTroubles>>

\* run_document_index reads the rows, whether or not they are marked deleted.
ReadChunks(j) ==
    /\ task[j].kind = "index" /\ task[j].pc = "queued"
    /\ task[j].of \in chunks
    /\ TaskTo(j, "indexing")
    /\ UNCHANGED <<stores, handler, asked, history, knowledgeTroubles>>

IndexDone(j) ==
    /\ task[j].pc = "indexing"
    /\ vectors' = vectors \cup {task[j].of}
    /\ Post(j, "succeeded")
    /\ TaskTo(j, "posted")
    /\ UNCHANGED <<resource, document, chunks, asked, history, knowledgeTroubles>>

\* A document that cannot be read, no rows, no embedding.
WorkRaises(j) ==
    /\ task[j].pc \in {"queued", "indexing"}
    /\ Trouble
    /\ Raised(j)
    /\ UNCHANGED <<stores, handler, asked, history>>

ReportFailure(j) ==
    /\ task[j].pc = "failing"
    /\ Post(j, "failed")
    /\ TaskTo(j, "posted")
    /\ UNCHANGED <<stores, asked, history, knowledgeTroubles>>

\* The worker is lost and the task delivered again, while the callback it has
\* posted is still served; or it waits 30 seconds for the answer in vain.
WorkerLost(j) ==
    /\ task[j].pc \in {"indexing", "posted"}
    /\ Trouble
    /\ TaskTo(j, "queued") \/ (task[j].pc = "posted" /\ Raised(j))
    /\ UNCHANGED <<stores, handler, asked, history>>

------------------------------------------------------------------------------
(* Callbacks. *)

Now(h, pc) == handler[h].pc = pc
Of(h) == task[handler[h].task].of
Next1(h, pc) == handler' = [handler EXCEPT ![h].pc = pc]

\* The answer: an error makes the task raise; a reported failure is over.
Answer(h, ok) ==
    LET j == handler[h].task
    IN  /\ handler' = [handler EXCEPT ![h] = Idle]
        /\ IF task[j].pc # "posted" THEN UNCHANGED <<task, givenUp>>
           ELSE IF ok \/ handler[h].says = "failed"
           THEN /\ task' = [task EXCEPT ![j] = [@ EXCEPT !.pc = "over", !.tries = 0]]
                /\ givenUp' = IF ok THEN givenUp ELSE givenUp \cup {task[j].of}
           ELSE Raised(j) /\ UNCHANGED givenUp

Matches(h) ==
    LET v == Of(h)
    IN  Here(v) /\ handler[h].task = IF task[handler[h].task].kind = "parse"
                                     THEN document[v].parser ELSE document[v].indexer

FindDocument(h) ==
    /\ Now(h, "find")
    /\ IF ~Matches(h) THEN Answer(h, FALSE)
       ELSE /\ Next1(h, IF handler[h].says = "failed" THEN "fail"
                        ELSE IF task[handler[h].task].kind = "parse" THEN "rows" ELSE "indexed")
            /\ UNCHANGED <<task, givenUp>>
    /\ UNCHANGED <<stores, asked, rank, knowledgeTroubles>>

RecordFailure(h) ==
    /\ Now(h, "fail")
    /\ document' = IF ~Matches(h) THEN document
         ELSE IF task[handler[h].task].kind = "parse"
         THEN [document EXCEPT ![Of(h)].parse = "failed"]
         ELSE [document EXCEPT ![Of(h)].index = "failed"]
    /\ Answer(h, TRUE)
    /\ UNCHANGED <<resource, chunks, vectors, asked, rank, knowledgeTroubles>>

DeleteRows(h) ==
    /\ Now(h, "rows")
    /\ chunks' = chunks \ {Of(h)}
    /\ Next1(h, "insert")
    /\ UNCHANGED <<resource, document, vectors, task, asked, history, knowledgeTroubles>>

\* The rows of a second delivery collide with those of the first.
InsertRows(h) ==
    /\ Now(h, "insert")
    /\ IF Of(h) \in chunks
       THEN Answer(h, FALSE) /\ UNCHANGED chunks
       ELSE /\ chunks' = chunks \cup {Of(h)}
            /\ Next1(h, "parsed")
            /\ UNCHANGED <<task, givenUp>>
    /\ UNCHANGED <<resource, document, vectors, asked, rank, knowledgeTroubles>>

RecordParsed(h) ==
    /\ Now(h, "parsed")
    /\ document' = IF ~Matches(h) THEN document ELSE
         [document EXCEPT ![Of(h)] = [@ EXCEPT !.parse = "succeeded", !.index = "not_started",
                                               !.indexer = 0]]
    /\ Next1(h, "request")
    /\ UNCHANGED <<resource, chunks, vectors, task, asked, history, knowledgeTroubles>>

RequestIndex(h) ==
    /\ Now(h, "request")
    /\ \E n \in Tasks :
          /\ NewTask("index", Of(h), n)
          /\ handler' = [handler EXCEPT ![h] = [@ EXCEPT !.pc = "queue", !.indexer = n]]
    /\ UNCHANGED <<stores, asked, history, knowledgeTroubles>>

IndexRefused(h) ==
    /\ Now(h, "request")
    /\ Trouble
    /\ document' = IF Here(Of(h)) THEN [document EXCEPT ![Of(h)].index = "failed"] ELSE document
    /\ Answer(h, TRUE)
    /\ UNCHANGED <<resource, chunks, vectors, asked, rank>>

RecordIndex(h) ==
    /\ Now(h, "queue")
    /\ document' = IF ~Here(Of(h)) THEN document ELSE
         [document EXCEPT ![Of(h)] = [@ EXCEPT !.index = "queued", !.indexer = handler[h].indexer]]
    /\ Answer(h, TRUE)
    /\ UNCHANGED <<resource, chunks, vectors, asked, rank, knowledgeTroubles>>

\* document_index_callback
RecordIndexed(h) ==
    /\ Now(h, "indexed")
    /\ document' = IF ~Matches(h) THEN document ELSE
         [document EXCEPT ![Of(h)].index = "succeeded"]
    /\ Next1(h, "activate")
    /\ UNCHANGED <<resource, chunks, vectors, task, asked, history, knowledgeTroubles>>

\* Mutant of Activate: the version before is left where it is.
ActivateBeside(h) ==
    /\ Now(h, "activate")
    /\ IF Current(Of(h)) /\ ~resource.deleted
       THEN /\ resource' = [resource EXCEPT !.active = Of(h), !.processing = Nobody]
            /\ Answer(h, TRUE)
       ELSE /\ Next1(h, "stale")
            /\ UNCHANGED <<resource, task, givenUp>>
    /\ UNCHANGED <<document, chunks, vectors, asked, rank, knowledgeTroubles>>

\* activate_indexed_document: the version becomes the active one if it is the
\* current one.
Activate(h) ==
    /\ Now(h, "activate")
    /\ LET v == Of(h)
           before == resource.active
       IN  IF Current(v) /\ ~resource.deleted
           THEN /\ resource' = [resource EXCEPT !.active = v, !.processing = Nobody]
                /\ IF before \notin {Nobody, v}
                   THEN /\ handler' = [handler EXCEPT ![h] =
                                          [@ EXCEPT !.pc = "remove", !.previous = before]]
                        /\ UNCHANGED <<task, givenUp>>
                   ELSE Answer(h, TRUE)
           ELSE /\ Next1(h, "stale")
                /\ UNCHANGED <<resource, task, givenUp>>
    /\ UNCHANGED <<document, chunks, vectors, asked, rank, knowledgeTroubles>>

\* Mutant of CheckStale: a version that was not switched in is removed.
RemoveStale(h) ==
    /\ Now(h, "stale")
    /\ handler' = [handler EXCEPT ![h] = [@ EXCEPT !.pc = "remove", !.previous = Of(h)]]
    /\ UNCHANGED <<task, givenUp, stores, asked, rank, knowledgeTroubles>>

\* A version that is neither the current nor the active one is removed.
CheckStale(h) ==
    /\ Now(h, "stale")
    /\ IF resource.active # Of(h) \/ resource.deleted
       THEN /\ handler' = [handler EXCEPT ![h] = [@ EXCEPT !.pc = "remove", !.previous = Of(h)]]
            /\ UNCHANGED <<task, givenUp>>
       ELSE Answer(h, TRUE)
    /\ UNCHANGED <<stores, asked, rank, knowledgeTroubles>>

\* _soft_delete_document; the vectors stay when their removal is refused.
RemoveVersion(h) ==
    /\ Now(h, "remove")
    /\ LET v == handler[h].previous
       IN  IF Here(v)
           THEN /\ document' = [document EXCEPT ![v].row = "deleted"]
                /\ vectors' = vectors \ {v}
           ELSE UNCHANGED <<document, vectors>>
    /\ Answer(h, TRUE)
    /\ UNCHANGED <<resource, chunks, asked, rank, knowledgeTroubles>>

\* A database operation raises: the task gets an error.
HandlerRaises(h) ==
    /\ handler[h].pc \notin {"idle", "find", "request"}
    /\ Trouble
    /\ Answer(h, FALSE)
    /\ UNCHANGED <<stores, asked, rank>>

\* admin-api crashes in the middle of an upload or a relearn.
RequestLost(q) ==
    /\ asked[q].pc \notin {"new", "done"}
    /\ Trouble
    /\ Go(q, "done")
    /\ UNCHANGED <<stores, task, handler, history>>

------------------------------------------------------------------------------
RequestStep(q) ==
    \/ q \in Uploads /\ SetProcessing(q)
    \/ q \in Relearns /\ CheckDocument(q)
    \/ q \in Deletions /\ (DeleteVersion(q) \/ MarkDeleted(q))
    \/ RequestParse(q) \/ RequestRefused(q) \/ RecordRefusal(q) \/ RecordParse(q)

TaskStep(j) == ParseDone(j) \/ ReadChunks(j) \/ IndexDone(j) \/ ReportFailure(j)

HandlerStep(h) ==
    \/ FindDocument(h) \/ RecordFailure(h)
    \/ DeleteRows(h) \/ InsertRows(h) \/ RecordParsed(h)
    \/ RequestIndex(h) \/ IndexRefused(h) \/ RecordIndex(h)
    \/ RecordIndexed(h) \/ Activate(h) \/ CheckStale(h) \/ RemoveVersion(h)

KnowledgeNext ==
    \/ \E u \in Uploads : InsertDocument(u)
    \/ \E r \in Relearns : ChooseVersion(r)
    \/ \E x \in Deletions : ReadResource(x)
    \/ \E q \in Requests : RequestStep(q) \/ RequestLost(q)
    \/ \E j \in Tasks : TaskStep(j) \/ WorkRaises(j) \/ WorkerLost(j)
    \/ \E h \in Handlers : HandlerStep(h) \/ HandlerRaises(h)

\* Requests and callbacks go on; a worker takes the task, and its work ends.
KnowledgeFairness ==
    /\ \A q \in Requests : WF_knowledgeVars(RequestStep(q))
    /\ \A j \in Tasks : WF_knowledgeVars(TaskStep(j))
    /\ \A h \in Handlers : WF_knowledgeVars(HandlerStep(h))

KnowledgeSpec == KnowledgeInit /\ [][KnowledgeNext]_knowledgeVars

------------------------------------------------------------------------------
(* Properties. *)

KnowledgeTypeOK ==
    /\ {resource.active, resource.processing} \subseteq Versions \cup {Nobody}
    /\ \A v \in Versions :
          /\ document[v].row \in {"absent", "here", "deleted"}
          /\ {document[v].parse, document[v].index} \subseteq
                {"not_started", "queued", "succeeded", "failed"}
          /\ {document[v].parser, document[v].indexer} \subseteq Tasks \cup {0}
    /\ chunks \cup vectors \cup givenUp \subseteq Versions

Deleting == \E x \in Deletions : ~At(x, "new")

\* "The previous active version remains available until this processing version
\* succeeds and is switched in": whatever is uploaded, learned again, repeated
\* or lost, the active version is there and has its vectors.
ActiveIsAvailable ==
    resource.active # Nobody /\ ~Deleting =>
        Here(resource.active) /\ resource.active \in vectors

\* A version that was replaced never becomes the active one again, in whatever
\* order the jobs of two versions end.
NeverBack ==
    [][resource'.active # resource.active /\ resource.active # Nobody
         => rank[resource'.active] > rank[resource.active]]_knowledgeVars

AtRest ==
    /\ \A q \in Requests : asked[q].pc \in {"new", "done"}
    /\ \A j \in Tasks : task[j].pc \in {"none", "over"}
    /\ \A h \in Handlers : Now(h, "idle")

\* Undisturbed, an indexed version that is not deleted is the resource's active
\* or processing one: a search finds no superseded version.
SupersededIsRemoved ==
    AtRest /\ knowledgeTroubles = 0 /\ ~Deleting =>
        \A v \in Versions : Here(v) /\ document[v].index = "succeeded" =>
            v \in {resource.active, resource.processing}

\* A version that is queued, which refuses to be learned again, leaves that state
\* unless its job could tell nobody how it ended.
NothingIsQueued ==
    \A v \in Versions : Here(v) /\ document[v].parse = "queued" => v \in givenUp
===============================================================================
