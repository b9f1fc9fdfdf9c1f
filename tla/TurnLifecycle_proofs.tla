------------------------ MODULE TurnLifecycle_proofs ------------------------
(***************************************************************************)
(* Proofs about TurnLifecycle for any number of requests, cancels, sweeps  *)
(* and any bound on the failures.                                          *)
(*                                                                         *)
(* The first part needs no condition: types, IInv, and what follows from   *)
(* it.  The second part is about the time before the first cancel.  It     *)
(* gives every step an effect (Effects) and proves, in this order, what    *)
(* ties handlers and documents together (GroundInv), what the host still   *)
(* has to say (SentInv), what the session shows (VisibleInv) and what is   *)
(* at work at rest (RestInv); and, where no sweep runs, what the logs and  *)
(* the stored events say (ExclusiveInv, SuspendInv, StayInv).              *)
(***************************************************************************)
EXTENDS TurnLifecycle, TLAPS

(* Actors are tagged tuples: an actor is of one kind and of one index.     *)
LEMMA ActorsDistinct ==
    /\ \A x, y : Prepare(x) # Runner(y) /\ Prepare(x) # Cancel(y) /\ Prepare(x) # Sweep(y)
    /\ \A x, y : Runner(x) # Cancel(y) /\ Runner(x) # Sweep(y) /\ Cancel(x) # Sweep(y)
    /\ \A x, y : /\ Prepare(x) = Prepare(y) => x = y
                 /\ Runner(x) = Runner(y) => x = y
                 /\ Cancel(x) = Cancel(y) => x = y
                 /\ Sweep(x) = Sweep(y) => x = y
  BY DEF Prepare, Runner, Cancel, Sweep

(* Every handler of a known index is an actor.                             *)
LEMMA ActorsKnown ==
    /\ \A r \in Requests : Prepare(r) \in Actors /\ Runner(r) \in Actors
    /\ \A c \in Cancels : Cancel(c) \in Actors
    /\ \A s \in Sweeps : Sweep(s) \in Actors
  BY DEF Actors

(* The types that the handlers' frames and rows belong to.                 *)
LEMMA FrameTypes ==
    ASSUME NEW pc \in CallPc, NEW m \in Requests \cup {None},
           NEW s \in Terminal \cup {"none"}, NEW b \in BOOLEAN, NEW why \in Why
    PROVE  /\ Frame(pc, m, s, b, why) \in FrameType
           /\ Finalizing(pc, m, s, b, why) \in FrameType
           /\ At(pc, m) \in FrameType
  BY DEF Frame, Finalizing, At, FrameType, Why

(* A handler that enters a frame keeps the type of the handlers' progress. *)
LEMMA EnterType ==
    ASSUME TypeOK, NEW a \in Actors, NEW f \in FrameType, Enter(a, f)
    PROVE  call' \in [Actors -> FrameType]
  BY DEF TypeOK, Enter

(* So does a handler that only moves to another place.                     *)
LEMMA GotoType ==
    ASSUME TypeOK, NEW a \in Actors, NEW pc \in CallPc, Goto(a, pc)
    PROVE  call' \in [Actors -> FrameType]
  <1>1. call \in [Actors -> FrameType] /\ call' = [call EXCEPT ![a].pc = pc]
    BY DEF TypeOK, Goto
  <1>2. [call[a] EXCEPT !.pc = pc] \in FrameType
    BY <1>1 DEF FrameType
  <1> QED
    BY <1>1, <1>2

(* Reading the binding row stores a generation and a cursor.               *)
LEMMA ReadType ==
    ASSUME TypeOK, NEW a \in Actors, Read(a)
    PROVE  seen' \in [Actors -> [gen : Nat, at : Nat]]
  BY DEF TypeOK, Read, Row

(* A synthetic failure row keeps the types of the event log.               *)
LEMMA PersistFailureType ==
    ASSUME TypeOK, NEW m \in Requests, PersistFailure(m)
    PROVE  /\ log' \in [Requests -> Terminal \cup {"none"}]
           /\ durable' \subseteq Requests \X Terminal \X (Requests \cup {None})
           /\ stored' \subseteq Nat
  BY DEF TypeOK, PersistFailure, Terminal

(* A position of the journal holds the verdict of a turn.                  *)
LEMMA JournalType ==
    ASSUME TypeOK
    PROVE  /\ Len(journal) \in Nat
           /\ \A p \in 1..Len(journal) :
                 p \in Nat /\ journal[p].st \in Terminal /\ journal[p].turn \in Requests
  <1> DEFINE Event == [turn : Requests, st : Terminal]
  <1>1. journal \in Seq(Event)
    BY DEF TypeOK
  <1>2. Len(journal) \in Nat /\ \A p \in 1..Len(journal) : p \in Nat /\ journal[p] \in Event
    <2> HIDE DEF Event
    <2> QED
      BY <1>1
  <1> QED
    BY <1>2

(* Storing journal positions keeps the types of the event log.             *)
LEMMA PersistNativeType ==
    ASSUME TypeOK, NEW m \in Requests, NEW P \in SUBSET (1..Len(journal)), PersistNative(m, P)
    PROVE  /\ log' \in [Requests -> Terminal \cup {"none"}]
           /\ durable' \subseteq Requests \X Terminal \X (Requests \cup {None})
           /\ stored' \subseteq Nat
  <1> DEFINE fresh == P \ stored
  <1>1. \A p \in P : p \in Nat /\ journal[p].st \in Terminal /\ journal[p].turn \in Requests
    BY JournalType
  <1>2. stored' \subseteq Nat
    BY <1>1 DEF TypeOK, PersistNative
  <1>3. durable' \subseteq Requests \X Terminal \X (Requests \cup {None})
    <2>1. durable' = durable \cup {<<m, journal[p].st, journal[p].turn>> : p \in fresh}
      BY DEF PersistNative
    <2>2. \A p \in fresh : <<m, journal[p].st, journal[p].turn>>
                                \in Requests \X Terminal \X (Requests \cup {None})
      BY <1>1
    <2>3. durable \subseteq Requests \X Terminal \X (Requests \cup {None})
      BY DEF TypeOK
    <2> HIDE DEF fresh
    <2> QED
      BY <2>1, <2>2, <2>3
  <1>4. log' \in [Requests -> Terminal \cup {"none"}]
    <2>1. CASE log' = log
      BY <2>1 DEF TypeOK
    <2>2. CASE \E last \in fresh : log' = [log EXCEPT ![m] = journal[last].st]
      BY <2>2, <1>1 DEF TypeOK
    <2> QED
      BY <2>1, <2>2 DEF PersistNative
  <1> QED
    BY <1>2, <1>3, <1>4

(* The parts of a handler's frame.                                         *)
LEMMA FrameFacts ==
    ASSUME TypeOK, NEW a \in Actors
    PROVE  /\ call[a] \in FrameType
           /\ call[a].pc \in CallPc /\ call[a].msg \in Requests \cup {None}
           /\ call[a].st \in Terminal \cup {"none"} /\ call[a].why \in Why
  BY DEF TypeOK, FrameType

(* The places a handler can be sent to are places.                         *)
LEMMA PcFacts ==
    /\ FinalizerPc \subseteq CallPc
    /\ {"new", "recover", "reread", "sync", "claim", "join", "recheck", "append",
        "mark", "launch", "attach", "send", "stream", "lookup", "orphan", "stop",
        "quiet", "wait", "ingest", "expired", "gather", "release", "returned",
        "raised", "done", "gone", "project", "finish", "clear", "suspend"} \subseteq CallPc
  BY DEF CallPc, FinalizerPc

(* The coordinator records a verdict for a known turn.                     *)
LEMMA TypeFinalizer ==
    ASSUME TypeOK, NEW a \in Actors, FinalizerStep(a) \/ StepFails(a), call[a].msg \in Requests,
           call[a].pc = "finish" => call[a].st \in Terminal
    PROVE  TypeOK'
  <1>1. call' \in [Actors -> FrameType]
    BY GotoType, PcFacts DEF FinalizerStep, Project, Finish, ClearRun, SuspendRun, StepFails
  <1>2. CASE Project(a)
    BY <1>1, <1>2 DEF Project, TypeOK, claim, events, host, budget
  <1>3. CASE Finish(a)
    BY <1>1, <1>3 DEF Finish, TypeOK, events, product, host, budget
  <1>4. CASE ClearRun(a)
    BY <1>1, <1>4 DEF ClearRun, NoRun, TypeOK, claim, events, host, budget
  <1>5. CASE SuspendRun(a)
    BY <1>1, <1>5 DEF SuspendRun, TypeOK, claim, events, host, budget
  <1>6. CASE StepFails(a)
    BY <1>1, <1>6 DEF StepFails, TypeOK, claim, events, product, host
  <1> QED
    BY <1>2, <1>3, <1>4, <1>5, <1>6 DEF FinalizerStep

(* Ingesting keeps the types of the log and of the caller's frame.         *)
LEMMA TypeIngest ==
    ASSUME TypeOK, NEW a \in Actors, NEW m \in Requests, NEW why \in Why,
           IngestOnce(a, m, why)
    PROVE  /\ call' \in [Actors -> FrameType]
           /\ cursor' \in Nat
           /\ log' \in [Requests -> Terminal \cup {"none"}]
           /\ durable' \subseteq Requests \X Terminal \X (Requests \cup {None})
           /\ stored' \subseteq Nat
  <1> DEFINE new == (seen[a].at + 1)..End
  <1>1. seen[a].at \in Nat /\ Len(journal) \in Nat
    BY JournalType DEF TypeOK
  <1>2. new \in SUBSET (1..Len(journal))
    BY <1>1 DEF End
  <1>3. CASE /\ Enter(a, Frame("raised", m, "none", FALSE, why))
             /\ UNCHANGED <<events, cursor>>
    <2>1. Frame("raised", m, "none", FALSE, why) \in FrameType
      BY FrameTypes, PcFacts
    <2> QED
      BY <1>3, <2>1, EnterType DEF TypeOK, events
  <1>4. CASE /\ PersistNative(m, new)
             /\ cursor' = IF new = {} THEN cursor ELSE Larger(cursor, End)
             /\ IF log'[m] = "none"
                THEN Enter(a, Frame("returned", m, "none", FALSE, why))
                ELSE FinalizeFromLog(a, m, log'[m], why)
    <2>1. /\ log' \in [Requests -> Terminal \cup {"none"}]
          /\ durable' \subseteq Requests \X Terminal \X (Requests \cup {None})
          /\ stored' \subseteq Nat
      BY <1>2, <1>4, PersistNativeType
    <2>2. cursor' \in Nat
      BY <1>1, <1>4 DEF TypeOK, Larger, End
    <2>3. /\ Frame("returned", m, "none", FALSE, why) \in FrameType
          /\ Finalizing("project", m, log'[m], Keeps(m, log'[m]), why) \in FrameType
      BY <2>1, FrameTypes, PcFacts DEF Keeps
    <2>4. call' \in [Actors -> FrameType]
      BY <1>4, <2>3, EnterType DEF FinalizeFromLog
    <2> QED
      BY <2>1, <2>2, <2>4
  <1> QED
    BY <1>3, <1>4 DEF IngestOnce

(* So does finalizing an orphaned claim.                                   *)
LEMMA TypeOrphan ==
    ASSUME TypeOK, NEW a \in Actors, NEW m \in Requests, NEW why \in Why,
           FinalizeOrphan(a, m, why)
    PROVE  /\ call' \in [Actors -> FrameType]
           /\ log' \in [Requests -> Terminal \cup {"none"}]
           /\ durable' \subseteq Requests \X Terminal \X (Requests \cup {None})
           /\ stored' \subseteq Nat
  <1>1. Finalizing("project", m, "failed", FALSE, why) \in FrameType
    BY FrameTypes, PcFacts DEF Terminal
  <1>2. CASE PersistFailure(m)
    BY <1>1, <1>2, EnterType, PersistFailureType DEF FinalizeOrphan
  <1>3. CASE UNCHANGED events
    BY <1>1, <1>3, EnterType DEF FinalizeOrphan, events, TypeOK
  <1> QED
    BY <1>2, <1>3 DEF FinalizeOrphan

(* Frames that the handlers enter without a coordinator.                   *)
LEMMA PlainFrames ==
    ASSUME NEW m \in Requests \cup {None}, NEW pc \in CallPc
    PROVE  At(pc, m) \in FrameType
  BY FrameTypes DEF Terminal, Why

(* Admission: a request repairs or recovers only a turn that was claimed.  *)
LEMMA TypePrepare ==
    ASSUME TypeOK, NEW r \in Requests, PrepareStep(r) \/ AdmissionFails(r),
           holder # None => verdict[holder] # "none",
           call[Prepare(r)].pc = "recover" => call[Prepare(r)].msg \in Requests
    PROVE  TypeOK'
  <1> DEFINE a == Prepare(r)
  <1>a. a \in Actors /\ Runner(r) \in Actors
    BY ActorsKnown
  <1>b. call[a] \in FrameType /\ call[a].msg \in Requests \cup {None}
    BY <1>a, FrameFacts
  <1>1. CASE PrepareBegin(r)
    <2>1. seen' \in [Actors -> [gen : Nat, at : Nat]]
      BY <1>1, <1>a, ReadType DEF PrepareBegin
    <2>2. CASE Goto(a, "sync")
      BY <1>1, <1>a, <2>1, <2>2, GotoType, PcFacts
         DEF PrepareBegin, TypeOK, claim, events, product, host, budget
    <2>3. CASE Running /\ Enter(a, At("recover", holder))
      <3>1. At("recover", holder) \in FrameType
        BY PlainFrames, PcFacts DEF TypeOK
      <3> QED
        BY <1>1, <1>a, <2>1, <2>3, <3>1, EnterType
           DEF PrepareBegin, TypeOK, claim, events, product, host, budget
    <2>4. CASE /\ holder # None /\ ~Running
               /\ Enter(a, Finalizing("finish", holder, verdict[holder], FALSE, "repair"))
      <3>1. verdict[holder] \in Terminal
        BY <2>4 DEF TypeOK, Running
      <3>2. Finalizing("finish", holder, verdict[holder], FALSE, "repair") \in FrameType
        BY <3>1, FrameTypes, PcFacts DEF TypeOK, Why
      <3> QED
        BY <1>1, <1>a, <2>1, <2>4, <3>2, EnterType
           DEF PrepareBegin, TypeOK, claim, events, product, host, budget
    <2> QED
      BY <1>1, <2>2, <2>3, <2>4 DEF PrepareBegin
  <1>2. CASE Recover(r)
    <2> DEFINE m == call[a].msg
    <2>0. m \in Requests
      BY <1>2 DEF Recover
    <2>1. CASE FinalizeFromLog(a, m, log[m], "recover") /\ UNCHANGED events
      <3>1. Finalizing("project", m, log[m], Keeps(m, log[m]), "recover") \in FrameType
        BY <2>0, FrameTypes, PcFacts DEF TypeOK, Why, Keeps
      <3> QED
        BY <1>2, <1>a, <2>1, <3>1, EnterType
           DEF Recover, FinalizeFromLog, TypeOK, claim, events, product, host, budget
    <2>2. CASE Goto(a, "reread") /\ UNCHANGED events
      BY <1>2, <1>a, <2>2, GotoType, PcFacts
         DEF Recover, TypeOK, claim, events, product, host, budget
    <2>3. CASE FinalizeOrphan(a, m, "recover")
      <3>1. /\ call' \in [Actors -> FrameType]
            /\ log' \in [Requests -> Terminal \cup {"none"}]
            /\ durable' \subseteq Requests \X Terminal \X (Requests \cup {None})
            /\ stored' \subseteq Nat
        BY <1>a, <2>0, <2>3, TypeOrphan DEF Why
      <3> QED
        BY <1>2, <3>1 DEF Recover, TypeOK, claim, product, host, budget
    <2> QED
      BY <1>2, <2>1, <2>2, <2>3 DEF Recover
  <1>3. CASE PrepareReturn(r) \/ SyncKeep(r) \/ SyncFails(r) \/ Join(r)
    <2>1. call' \in [Actors -> FrameType]
      BY <1>3, <1>a, GotoType, PcFacts DEF PrepareReturn, SyncKeep, SyncFails, Join
    <2> QED
      BY <1>3, <2>1 DEF PrepareReturn, SyncKeep, SyncFails, Join,
                        TypeOK, claim, events, product, host, budget
  <1>4. CASE Reread(r)
    <2>1. call' \in [Actors -> FrameType]
      BY <1>4, <1>a, GotoType, PcFacts DEF Reread
    <2> QED
      BY <1>4, <1>a, <2>1, ReadType DEF Reread, TypeOK, claim, events, product, host, budget
  <1>5. CASE SyncReplace(r)
    <2>1. call' \in [Actors -> FrameType]
      BY <1>5, <1>a, GotoType, PcFacts DEF SyncReplace
    <2>2. seen' \in [Actors -> [gen : Nat, at : Nat]] /\ gen' \in Nat
      BY <1>5, <1>a DEF SyncReplace, TypeOK
    <2> QED
      BY <1>5, <2>1, <2>2 DEF SyncReplace, TypeOK, product, budget
  <1>6. CASE Claim(r)
    <2>1. call' \in [Actors -> FrameType]
      BY <1>6, <1>a, GotoType, PcFacts DEF Claim
    <2>2. seen' \in [Actors -> [gen : Nat, at : Nat]]
      BY <1>6, <1>a, ReadType DEF Claim, TypeOK
    <2> QED
      BY <1>6, <2>1, <2>2 DEF Claim, TypeOK, events, product, host, budget
  <1>7. CASE Recheck(r)
    <2>1. call' \in [Actors -> FrameType]
      BY <1>7, <1>a, GotoType, PcFacts DEF Recheck, RollBack
    <2>2. verdict' \in [Requests -> Terminal \cup {"none", "running"}]
      <3>1. verdict' = verdict \/ RollBack(r)
        BY <1>7 DEF Recheck
      <3>2. CASE verdict' = verdict
        BY <3>2 DEF TypeOK
      <3>3. CASE RollBack(r)
        BY <3>3 DEF RollBack, Terminal, TypeOK
      <3> QED
        BY <3>1, <3>2, <3>3
    <2> QED
      BY <1>7, <2>1, <2>2 DEF Recheck, TypeOK, events, product, host, budget
  <1>8. CASE AdmissionFails(r)
    <2>1. call' \in [Actors -> FrameType]
      BY <1>8, <1>a, GotoType, PcFacts DEF AdmissionFails, RollBack
    <2>2. verdict' \in [Requests -> Terminal \cup {"none", "running"}]
      BY <1>8 DEF AdmissionFails, RollBack, Terminal, TypeOK
    <2> QED
      BY <1>8, <2>1, <2>2 DEF AdmissionFails, TypeOK, events, product, host
  <1>9. CASE AppendMessages(r)
    <2>1. call' \in [Actors -> FrameType]
      BY <1>9, <1>a, GotoType, PcFacts DEF AppendMessages
    <2> QED
      BY <1>9, <2>1 DEF AppendMessages, TypeOK, claim, events, host, budget
  <1>10. CASE MarkActiveRun(r)
    <2>1. call' \in [Actors -> FrameType]
      BY <1>10, <1>a, GotoType, PcFacts DEF MarkActiveRun
    <2>2. run' \in [msg : Requests \cup {None}, st : {"none", "running", "suspended"}]
      BY <1>10 DEF MarkActiveRun
    <2> QED
      BY <1>10, <2>1, <2>2 DEF MarkActiveRun, TypeOK, claim, events, host, budget
  <1>11. CASE Launch(r)
    <2>1. [call[a] EXCEPT !.pc = "done"] \in FrameType /\ At("attach", r) \in FrameType
      BY <1>b, PcFacts, PlainFrames DEF FrameType
    <2>2. call' \in [Actors -> FrameType]
      BY <1>11, <1>a, <2>1 DEF Launch, TypeOK
    <2>3. seen' \in [Actors -> [gen : Nat, at : Nat]]
      BY <1>11, <1>a DEF Launch, TypeOK
    <2> QED
      BY <1>11, <2>2, <2>3 DEF Launch, TypeOK, claim, events, product, host, budget
  <1> QED
    BY <1>1, <1>2, <1>3, <1>4, <1>5, <1>6, <1>7, <1>8, <1>9, <1>10, <1>11 DEF PrepareStep

(* A runner works on its own turn, and the terminal event it meets is a     *)
(* verdict of the journal.                                                 *)
LEMMA TypeRunner ==
    ASSUME TypeOK, NEW r \in Requests, RunnerStep(r) \/ RunnerTrouble(r)
    PROVE  TypeOK'
  <1> DEFINE a == Runner(r)
  <1>a. a \in Actors /\ seen[a].at \in Nat /\ seen[a].gen \in Nat
    BY ActorsKnown DEF TypeOK
  <1>1. CASE Attach(r)
    <2>1. call' \in [Actors -> FrameType]
      BY <1>1, <1>a, GotoType, PcFacts DEF Attach
    <2>2. End \in Nat
      BY JournalType DEF End
    <2>3. seen' \in [Actors -> [gen : Nat, at : Nat]]
      BY <1>1, <1>a, <2>2 DEF Attach, TypeOK
    <2> QED
      BY <1>1, <2>1, <2>3 DEF Attach, TypeOK, claim, events, product, host, budget
  <1>2. CASE AttachFallback(r)
    <2>1. call' \in [Actors -> FrameType]
      BY <1>2, <1>a, GotoType, PcFacts DEF AttachFallback
    <2> QED
      BY <1>2, <2>1 DEF AttachFallback, TypeOK, claim, events, product, host
  <1>3. CASE Send(r)
    <2>1. call' \in [Actors -> FrameType]
      BY <1>3, <1>a, GotoType, PcFacts DEF Send
    <2>2. queue' \in Seq(Requests)
      BY <1>3 DEF Send, TypeOK
    <2> QED
      BY <1>3, <2>1, <2>2 DEF Send, TypeOK, claim, events, product, budget
  <1>4. CASE TerminalArrives(r)
    <2> DEFINE p == seen[a].at + 1
               s == journal[p].st
    <2>1. p \in 1..Len(journal) /\ s \in Terminal
      BY <1>4, <1>a, JournalType DEF TerminalArrives, End
    <2>2. /\ log' \in [Requests -> Terminal \cup {"none"}]
          /\ durable' \subseteq Requests \X Terminal \X (Requests \cup {None})
          /\ stored' \subseteq Nat
      <3>1. PersistNative(r, {p}) /\ {p} \in SUBSET (1..Len(journal))
        BY <1>4, <2>1 DEF TerminalArrives
      <3> QED
        BY <3>1, PersistNativeType
    <2>3. cursor' \in Nat
      BY <1>4, <1>a DEF TerminalArrives, Larger, TypeOK
    <2>4. Finalizing("project", r, s, Keeps(r, s), "turn") \in FrameType
      BY <2>1, FrameTypes, PcFacts DEF Keeps, Why
    <2>5. call' \in [Actors -> FrameType]
      BY <1>4, <1>a, <2>4, EnterType DEF TerminalArrives
    <2> QED
      BY <1>4, <2>2, <2>3, <2>5 DEF TerminalArrives, TypeOK, product, host, budget
  <1>5. CASE StreamFails(r) /\ (faults' = faults \/ faults' = faults + 1)
    <2>1. Finalizing("project", r, "failed", FALSE, "turn") \in FrameType
      BY FrameTypes, PcFacts DEF Why, Terminal
    <2>2. call' \in [Actors -> FrameType]
      BY <1>5, <1>a, <2>1, EnterType DEF StreamFails
    <2>3. /\ log' \in [Requests -> Terminal \cup {"none"}]
          /\ durable' \subseteq Requests \X Terminal \X (Requests \cup {None})
          /\ stored' \subseteq Nat
      <3>1. CASE PersistFailure(r)
        BY <3>1, PersistFailureType
      <3>2. CASE UNCHANGED events
        BY <3>2 DEF events, TypeOK
      <3> QED
        BY <1>5, <3>1, <3>2 DEF StreamFails
    <2>4. faults' \in Nat
      BY <1>5 DEF TypeOK
    <2> QED
      BY <1>5, <2>2, <2>3, <2>4 DEF StreamFails, TypeOK, claim, product, host
  <1>6. CASE RunnerReturn(r)
    <2>1. Finalizing("finish", r, "failed", FALSE, "failure") \in FrameType
      BY FrameTypes, PcFacts DEF Why, Terminal
    <2>2. call' \in [Actors -> FrameType]
      BY <1>6, <1>a, <2>1, EnterType, GotoType, PcFacts DEF RunnerReturn
    <2> QED
      BY <1>6, <2>2 DEF RunnerReturn, TypeOK, claim, events, product, host, budget
  <1> QED
    BY <1>1, <1>2, <1>3, <1>4, <1>5, <1>6 DEF RunnerStep, RunnerTrouble, HostGone, RunnerFault

(* Inside its calls a cancel works on a message it has read.               *)
LEMMA TypeCancel ==
    ASSUME TypeOK, NEW c \in Cancels, CancelStep(c),
           holder # None => verdict[holder] # "none",
           call[Cancel(c)].pc \in WorkingPc => call[Cancel(c)].msg \in Requests
    PROVE  TypeOK'
  <1> DEFINE a == Cancel(c)
             m == call[a].msg
  <1>a. a \in Actors /\ call[a] \in FrameType /\ m \in Requests \cup {None}
    BY ActorsKnown, FrameFacts
  <1>1. CASE CancelAuthorize(c)
    <2>1. At("lookup", run.msg) \in FrameType
      BY PlainFrames, PcFacts DEF TypeOK
    <2>2. call' \in [Actors -> FrameType]
      BY <1>1, <1>a, <2>1, EnterType, GotoType, PcFacts DEF CancelAuthorize
    <2> QED
      BY <1>1, <2>2 DEF CancelAuthorize, TypeOK, claim, events, product, host, budget
  <1>2. CASE CancelLookup(c)
    <2>1. seen' \in [Actors -> [gen : Nat, at : Nat]]
      BY <1>2, <1>a, ReadType DEF CancelLookup
    <2>2. call' \in [Actors -> FrameType]
      <3>1. CASE \E pc \in {"orphan", "done"} : Goto(a, pc)
        BY <3>1, <1>a, GotoType, PcFacts
      <3>2. CASE Enter(a, At("stop", holder))
        BY <3>2, <1>a, EnterType, PlainFrames, PcFacts DEF TypeOK
      <3>3. CASE /\ holder # None /\ ~Running
                 /\ Enter(a, Finalizing("finish", holder, verdict[holder], FALSE, "repair"))
        <4>1. holder \in Requests /\ verdict[holder] \in Terminal
          BY <3>3 DEF TypeOK, Running
        <4>2. Finalizing("finish", holder, verdict[holder], FALSE, "repair") \in FrameType
          BY <4>1, FrameTypes, PcFacts DEF Why
        <4> QED
          BY <3>3, <1>a, <4>2, EnterType
      <3> QED
        BY <1>2, <3>1, <3>2, <3>3 DEF CancelLookup
    <2> QED
      BY <1>2, <2>1, <2>2 DEF CancelLookup, TypeOK, claim, events, product, host, budget
  <1>3. CASE CancelOrphanRun(c)
    <2>1. call' \in [Actors -> FrameType]
      BY <1>3, <1>a, GotoType, PcFacts DEF CancelOrphanRun
    <2>2. run' \in [msg : Requests \cup {None}, st : {"none", "running", "suspended"}]
      BY <1>3 DEF CancelOrphanRun, NoRun, TypeOK
    <2> QED
      BY <1>3, <2>1, <2>2 DEF CancelOrphanRun, TypeOK, claim, events, host, budget
  <1>4. CASE CancelStop(c)
    <2>1. call' \in [Actors -> FrameType]
      BY <1>4, <1>a, GotoType, PcFacts DEF CancelStop
    <2>2. stopping' \subseteq Requests
      BY <1>4 DEF CancelStop, Range, TypeOK
    <2> QED
      BY <1>4, <2>1, <2>2 DEF CancelStop, TypeOK, claim, events, product, budget
  <1>5. CASE CancelQuiet(c) \/ CancelSettle(c)
    <2>1. call' \in [Actors -> FrameType]
      BY <1>5, <1>a, GotoType, PcFacts DEF CancelQuiet, CancelSettle
    <2> QED
      BY <1>5, <2>1 DEF CancelQuiet, CancelSettle,
                        TypeOK, claim, events, product, host, budget
  <1>6. CASE CancelIngest(c)
    <2>0. m \in Requests
      BY <1>6 DEF CancelIngest, WorkingPc
    <2>1. CASE \E why \in Why : IngestOnce(a, m, why)
      <3>1. /\ call' \in [Actors -> FrameType] /\ cursor' \in Nat
            /\ log' \in [Requests -> Terminal \cup {"none"}]
            /\ durable' \subseteq Requests \X Terminal \X (Requests \cup {None})
            /\ stored' \subseteq Nat
        BY <1>a, <2>0, <2>1, TypeIngest
      <3> QED
        BY <1>6, <3>1 DEF CancelIngest, TypeOK, product, host, budget
    <2>2. CASE Goto(a, "gone") /\ UNCHANGED <<events, cursor>>
      BY <1>6, <1>a, <2>2, GotoType, PcFacts
         DEF CancelIngest, TypeOK, events, product, host, budget
    <2> QED
      BY <1>6, <2>1, <2>2 DEF CancelIngest, Why
  <1>7. CASE CancelReturn(c)
    <2>1. call' \in [Actors -> FrameType]
      <3>1. CASE \E pc \in {"release", "done", "gone"} : Goto(a, pc)
        BY <3>1, <1>a, GotoType, PcFacts
      <3>2. CASE /\ call[a].pc = "returned"
                 /\ call' = [call EXCEPT ![a].pc = "gather",
                                         ![Runner(m)] = IF RunnerLive(m) THEN Interrupted(m) ELSE @]
        <4>1. m \in Requests /\ Runner(m) \in Actors
          BY <3>2, ActorsKnown DEF WorkingPc
        <4>2. Interrupted(m) \in FrameType
          <5>1. Finalizing("project", m, "cancelled", FALSE, "cancelled") \in FrameType
            BY <4>1, FrameTypes, PcFacts DEF Terminal, Why
          <5>2. [call[Runner(m)] EXCEPT !.pc = "done"] \in FrameType
            BY <4>1, FrameFacts, PcFacts DEF FrameType
          <5> QED
            BY <5>1, <5>2 DEF Interrupted
        <4>3. [call[a] EXCEPT !.pc = "gather"] \in FrameType
          BY <1>a, PcFacts DEF FrameType
        <4> QED
          BY <3>2, <1>a, <4>1, <4>2, <4>3, ActorsDistinct DEF TypeOK
      <3> QED
        BY <1>7, <3>1, <3>2 DEF CancelReturn
    <2> QED
      BY <1>7, <2>1 DEF CancelReturn, TypeOK, claim, events, product, host, budget
  <1>8. CASE CancelRelease(c)
    <2>1. call' \in [Actors -> FrameType]
      <3>1. Finalizing("finish", m, "cancelled", FALSE, "release") \in FrameType
        BY <1>a, FrameTypes, PcFacts DEF Terminal, Why
      <3> QED
        BY <1>8, <1>a, <3>1, EnterType, GotoType, PcFacts DEF CancelRelease
    <2> QED
      BY <1>8, <2>1 DEF CancelRelease, TypeOK, claim, events, product, host, budget
  <1> QED
    BY <1>1, <1>2, <1>3, <1>4, <1>5, <1>6, <1>7, <1>8 DEF CancelStep

(* The sweep works on the turn it found in the binding.                    *)
LEMMA TypeSweep ==
    ASSUME TypeOK, NEW s \in Sweeps, SweepStep(s),
           call[Sweep(s)].pc = "ingest" => call[Sweep(s)].msg \in Requests
    PROVE  TypeOK'
  <1> DEFINE a == Sweep(s)
             m == call[a].msg
  <1>a. a \in Actors
    BY ActorsKnown
  <1>1. CASE SweepBegin(s)
    <2>1. seen' \in [Actors -> [gen : Nat, at : Nat]]
      BY <1>1, <1>a, ReadType DEF SweepBegin
    <2>2. call' \in [Actors -> FrameType]
      BY <1>1, <1>a, EnterType, PlainFrames, PcFacts DEF SweepBegin, TypeOK
    <2> QED
      BY <1>1, <2>1, <2>2 DEF SweepBegin, TypeOK, claim, events, product, host, budget
  <1>2. CASE SweepIngest(s)
    <2>0. m \in Requests
      BY <1>2 DEF SweepIngest
    <2>1. CASE IngestOnce(a, m, "ingest")
      <3>1. /\ call' \in [Actors -> FrameType] /\ cursor' \in Nat
            /\ log' \in [Requests -> Terminal \cup {"none"}]
            /\ durable' \subseteq Requests \X Terminal \X (Requests \cup {None})
            /\ stored' \subseteq Nat
        BY <1>a, <2>0, <2>1, TypeIngest DEF Why
      <3> QED
        BY <1>2, <3>1 DEF SweepIngest, TypeOK, product, host, budget
    <2>2. CASE FinalizeOrphan(a, m, "ingest") /\ UNCHANGED cursor
      <3>1. /\ call' \in [Actors -> FrameType]
            /\ log' \in [Requests -> Terminal \cup {"none"}]
            /\ durable' \subseteq Requests \X Terminal \X (Requests \cup {None})
            /\ stored' \subseteq Nat
        BY <1>a, <2>0, <2>2, TypeOrphan DEF Why
      <3> QED
        BY <1>2, <2>2, <3>1 DEF SweepIngest, TypeOK, product, host, budget
    <2> QED
      BY <1>2, <2>1, <2>2 DEF SweepIngest
  <1>3. CASE SweepReturn(s)
    <2>1. call' \in [Actors -> FrameType]
      BY <1>3, <1>a, EnterType, PlainFrames, PcFacts DEF SweepReturn
    <2> QED
      BY <1>3, <2>1 DEF SweepReturn, TypeOK, claim, events, product, host, budget
  <1> QED
    BY <1>1, <1>2, <1>3 DEF SweepStep

(* The host's and the process's own steps.                                 *)
LEMMA TypeEnvironment ==
    ASSUME TypeOK, KernelEnds \/ SessionLost \/ Crash
    PROVE  TypeOK'
  <1> DEFINE Event == [turn : Requests, st : Terminal]
  <1>1. CASE KernelEnds
    <2>1. queue[1] \in Requests /\ queue' \in Seq(Requests)
      BY <1>1 DEF KernelEnds, TypeOK
    <2>2. PICK s \in Terminal : journal' = Append(journal, [turn |-> queue[1], st |-> s])
      BY <1>1 DEF KernelEnds
    <2>3. [turn |-> queue[1], st |-> s] \in Event
      BY <2>1
    <2>4. journal \in Seq(Event)
      BY DEF TypeOK
    <2>5. journal' \in Seq(Event)
      <3> HIDE DEF Event
      <3> QED
        BY <2>2, <2>3, <2>4
    <2> QED
      BY <1>1, <2>1, <2>5 DEF KernelEnds, TypeOK, claim, events, product, budget
  <1>2. CASE SessionLost
    <2>1. queue' \in Seq(Requests) /\ journal' \in Seq(Event)
      BY <1>2 DEF SessionLost
    <2>2. stopping' \subseteq Requests /\ losses' \in Nat
      BY <1>2 DEF SessionLost, TypeOK
    <2>3. session' \in BOOLEAN
      BY <1>2, Zenon DEF SessionLost
    <2> QED
      BY <1>2, <2>1, <2>2, <2>3 DEF SessionLost, TypeOK, claim, events, product
  <1>3. CASE Crash
    <2>1. call' \in [Actors -> FrameType]
      BY <1>3, PlainFrames, PcFacts DEF Crash
    <2> QED
      BY <1>3, <2>1 DEF Crash, TypeOK, claim, events, product, host
  <1> QED
    BY <1>1, <1>2, <1>3

(* Under the inductive invariant every step keeps the types.               *)
LEMMA TypeStep ==
    ASSUME IInv, [Next]_vars
    PROVE  TypeOK'
  <1>0. TypeOK
    BY DEF IInv
  <1>1. ASSUME NEW r \in Requests, PrepareStep(r) \/ AdmissionFails(r)
        PROVE  TypeOK'
    <2>1. holder # None => verdict[holder] # "none"
      BY DEF IInv, LockInv, Claimed
    <2>2. call[Prepare(r)].pc = "recover" => call[Prepare(r)].msg \in Requests
      BY ActorsKnown DEF IInv, FrameInv, WorkingPc, Claimed
    <2> QED
      BY <1>0, <1>1, <2>1, <2>2, TypePrepare
  <1>2. ASSUME NEW r \in Requests, RunnerStep(r) \/ RunnerTrouble(r)
        PROVE  TypeOK'
    BY <1>0, <1>2, TypeRunner
  <1>3. ASSUME NEW c \in Cancels, CancelStep(c)
        PROVE  TypeOK'
    <2>1. holder # None => verdict[holder] # "none"
      BY DEF IInv, LockInv, Claimed
    <2>2. call[Cancel(c)].pc \in WorkingPc => call[Cancel(c)].msg \in Requests
      BY ActorsKnown DEF IInv, FrameInv, Claimed
    <2> QED
      BY <1>0, <1>3, <2>1, <2>2, TypeCancel
  <1>4. ASSUME NEW s \in Sweeps, SweepStep(s)
        PROVE  TypeOK'
    <2>1. call[Sweep(s)].pc = "ingest" => call[Sweep(s)].msg \in Requests
      BY ActorsKnown DEF IInv, FrameInv, WorkingPc, Claimed
    <2> QED
      BY <1>0, <1>4, <2>1, TypeSweep
  <1>5. ASSUME NEW a \in Actors, FinalizerStep(a) \/ StepFails(a)
        PROVE  TypeOK'
    <2>1. call[a].pc \in FinalizerPc
      BY <1>5 DEF FinalizerStep, Project, Finish, ClearRun, SuspendRun, StepFails, FinalizerPc
    <2>2. call[a].msg \in Requests
      BY <2>1 DEF IInv, FrameInv, WorkingPc, Claimed
    <2>3. call[a].pc = "finish" => call[a].st \in Terminal
      BY DEF IInv, CoordinatorInv
    <2> QED
      BY <1>0, <1>5, <2>2, <2>3, TypeFinalizer
  <1>6. CASE KernelEnds \/ SessionLost \/ Crash
    BY <1>0, <1>6, TypeEnvironment
  <1>7. CASE UNCHANGED vars
    BY <1>0, <1>7 DEF TypeOK, vars, claim, events, product, host, budget
  <1> QED
    BY <1>1, <1>2, <1>3, <1>4, <1>5, <1>6, <1>7 DEF Next

(* What one step may do to the admission lock: nothing, admit the request  *)
(* whose claim it is, give the running turn its verdict, or start an empty *)
(* binding when no turn runs.                                              *)
Admits(r) ==
    /\ call[Prepare(r)].pc = "claim" /\ call'[Prepare(r)].pc = "recheck"
    /\ ~Running
    /\ holder' = r /\ verdict' = [verdict EXCEPT ![r] = "running"]
Releases(m) ==
    /\ holder = m /\ verdict[m] = "running" /\ holder' = holder
    /\ \E s \in Terminal : /\ verdict' = [verdict EXCEPT ![m] = s]
                           /\ s = "completed" => m \in projected
Rotates == ~Running /\ holder' = None /\ verdict' = verdict

(* These are the only things a step does to the lock.                      *)
LEMMA LockMoves ==
    ASSUME IInv, [Next]_vars
    PROVE  \/ UNCHANGED <<holder, verdict>>
           \/ \E r \in Requests : Admits(r)
           \/ \E m \in Requests : Releases(m)
           \/ Rotates
  <1> DEFINE Kept == UNCHANGED <<holder, verdict>>
             Goal == \/ Kept
                     \/ \E r \in Requests : Admits(r)
                     \/ \E m \in Requests : Releases(m)
                     \/ Rotates
  <1>1. ASSUME NEW r \in Requests, PrepareStep(r) \/ AdmissionFails(r)
        PROVE  Goal
    <2>1. CASE \/ PrepareBegin(r) \/ Recover(r) \/ PrepareReturn(r) \/ Reread(r)
               \/ SyncKeep(r) \/ SyncFails(r) \/ Join(r)
               \/ AppendMessages(r) \/ MarkActiveRun(r) \/ Launch(r)
      BY <2>1 DEF PrepareBegin, Recover, PrepareReturn, Reread, SyncKeep, SyncFails, Join,
                  AppendMessages, MarkActiveRun, Launch, claim
    <2>2. CASE SyncReplace(r)
      BY <2>2 DEF SyncReplace, Rotates
    <2>3. CASE Claim(r)
      <3>1. CASE Goto(Prepare(r), "join") /\ UNCHANGED <<holder, verdict, seen>>
        BY <3>1
      <3>2. CASE /\ ~Running /\ holder' = r /\ verdict' = [verdict EXCEPT ![r] = "running"]
                 /\ Goto(Prepare(r), "recheck")
        <4>1. call'[Prepare(r)].pc = "recheck"
          BY <3>2, ActorsKnown DEF IInv, TypeOK, Goto, FrameType
        <4> QED
          BY <2>3, <3>2, <4>1 DEF Claim, Admits
      <3> QED
        BY <2>3, <3>1, <3>2 DEF Claim
    <2>4. CASE RollBack(r) /\ UNCHANGED holder
      <3>1. CASE holder = r /\ verdict[r] = "running"
        <4>1. verdict' = [verdict EXCEPT ![r] = "failed"]
          BY <2>4, <3>1 DEF RollBack
        <4> QED
          BY <2>4, <3>1, <4>1 DEF Releases, Terminal
      <3>2. CASE ~(holder = r /\ verdict[r] = "running")
        BY <2>4, <3>2 DEF RollBack
      <3> QED
        BY <3>1, <3>2
    <2>5. CASE Recheck(r) \/ AdmissionFails(r)
      BY <2>4, <2>5 DEF Recheck, AdmissionFails
    <2> QED
      BY <1>1, <2>1, <2>2, <2>3, <2>5 DEF PrepareStep
  <1>2. ASSUME NEW r \in Requests, RunnerStep(r) \/ RunnerTrouble(r)
        PROVE  Kept
    BY <1>2 DEF RunnerStep, RunnerTrouble, Attach, AttachFallback, Send, TerminalArrives,
                HostGone, RunnerFault, StreamFails, RunnerReturn, claim
  <1>3. ASSUME NEW c \in Cancels, CancelStep(c)
        PROVE  Kept
    BY <1>3 DEF CancelStep, CancelAuthorize, CancelLookup, CancelOrphanRun, CancelStop,
                CancelQuiet, CancelSettle, CancelIngest, CancelReturn, CancelRelease, claim
  <1>4. ASSUME NEW s \in Sweeps, SweepStep(s)
        PROVE  Kept
    BY <1>4 DEF SweepStep, SweepBegin, SweepIngest, SweepReturn, claim
  <1>5. ASSUME NEW a \in Actors, FinalizerStep(a) \/ StepFails(a)
        PROVE  Goal
    <2>1. CASE Project(a) \/ ClearRun(a) \/ SuspendRun(a) \/ StepFails(a)
      BY <2>1 DEF Project, ClearRun, SuspendRun, StepFails, claim
    <2>2. CASE Finish(a)
      <3> DEFINE m == call[a].msg
      <3>1. m \in Requests /\ call[a].st \in Terminal /\ holder' = holder
        BY <2>2 DEF Finish, IInv, FrameInv, CoordinatorInv, WorkingPc, FinalizerPc, Claimed
      <3>2. CASE holder = m /\ verdict[m] = "running"
        <4>1. verdict' = [verdict EXCEPT ![m] = call[a].st]
          BY <2>2, <3>2 DEF Finish
        <4>2. call[a].st = "completed" => m \in projected
          BY <2>2 DEF Finish, IInv, CoordinatorInv
        <4> QED
          BY <3>1, <3>2, <4>1, <4>2 DEF Releases
      <3>3. CASE ~(holder = m /\ verdict[m] = "running")
        BY <2>2, <3>1, <3>3 DEF Finish
      <3> QED
        BY <3>2, <3>3
    <2> QED
      BY <1>5, <2>1, <2>2 DEF FinalizerStep
  <1>6. CASE KernelEnds \/ SessionLost \/ Crash \/ UNCHANGED vars
    BY <1>6 DEF KernelEnds, SessionLost, Crash, vars, claim
  <1> QED
    BY <1>1, <1>2, <1>3, <1>4, <1>5, <1>6 DEF Next

(* A claimed turn stays claimed, and a verdict is final.                   *)
LEMMA VerdictsStay ==
    ASSUME IInv, [Next]_vars
    PROVE  /\ \A m : Claimed(m) => Claimed(m)'
           /\ \A m \in Requests : verdict[m] \in Terminal => verdict'[m] = verdict[m]
  <1>0. verdict \in [Requests -> Terminal \cup {"none", "running"}]
    BY DEF IInv, TypeOK
  <1>1. CASE UNCHANGED <<holder, verdict>> \/ Rotates
    BY <1>1 DEF Rotates, Claimed
  <1>2. CASE \E r \in Requests : Admits(r)
    <2>1. PICK r \in Requests : Admits(r)
      BY <1>2
    <2>2. verdict[r] = "none"
      BY <2>1 DEF Admits, IInv, AdmissionInv, Unclaimed
    <2> QED
      BY <1>0, <2>1, <2>2 DEF Admits, Claimed, Terminal
  <1>3. CASE \E m \in Requests : Releases(m)
    BY <1>0, <1>3 DEF Releases, Claimed, Terminal
  <1> QED
    BY <1>1, <1>2, <1>3, LockMoves

(* The answers that have been written stay written.                        *)
LEMMA AnswersStay ==
    ASSUME [Next]_vars
    PROVE  projected \subseteq projected'
  <1>1. ASSUME NEW r \in Requests, PrepareStep(r) \/ AdmissionFails(r)
        PROVE  projected' = projected
    BY <1>1 DEF PrepareStep, AdmissionFails, PrepareBegin, Recover, PrepareReturn, Reread,
                SyncKeep, SyncReplace, SyncFails, Claim, Join, Recheck,
                AppendMessages, MarkActiveRun, Launch, product
  <1>2. ASSUME NEW r \in Requests, RunnerStep(r) \/ RunnerTrouble(r)
        PROVE  projected' = projected
    BY <1>2 DEF RunnerStep, RunnerTrouble, Attach, AttachFallback, Send, TerminalArrives,
                HostGone, RunnerFault, StreamFails, RunnerReturn, product
  <1>3. ASSUME NEW c \in Cancels, CancelStep(c)
        PROVE  projected' = projected
    BY <1>3 DEF CancelStep, CancelAuthorize, CancelLookup, CancelOrphanRun, CancelStop,
                CancelQuiet, CancelSettle, CancelIngest, CancelReturn, CancelRelease, product
  <1>4. ASSUME NEW s \in Sweeps, SweepStep(s)
        PROVE  projected' = projected
    BY <1>4 DEF SweepStep, SweepBegin, SweepIngest, SweepReturn, product
  <1>5. ASSUME NEW a \in Actors, FinalizerStep(a) \/ StepFails(a)
        PROVE  projected \subseteq projected'
    BY <1>5 DEF FinalizerStep, Project, Finish, ClearRun, SuspendRun, StepFails, product
  <1>6. CASE KernelEnds \/ SessionLost \/ Crash \/ UNCHANGED vars
    BY <1>6 DEF KernelEnds, SessionLost, Crash, vars, product
  <1> QED
    BY <1>1, <1>2, <1>3, <1>4, <1>5, <1>6 DEF Next

(* A turn is recorded as completed by a coordinator that has written its   *)
(* answer, and by nobody else.                                             *)
LEMMA CompletedStep ==
    ASSUME IInv, [Next]_vars
    PROVE  CompletedIsProjected'
  <1>0. verdict \in [Requests -> Terminal \cup {"none", "running"}] /\ CompletedIsProjected
    BY DEF IInv, TypeOK
  <1>1. CASE UNCHANGED <<holder, verdict>> \/ Rotates
    BY <1>0, <1>1, AnswersStay DEF Rotates, CompletedIsProjected
  <1>2. CASE \E r \in Requests : Admits(r)
    BY <1>0, <1>2, AnswersStay DEF Admits, CompletedIsProjected
  <1>3. CASE \E m \in Requests : Releases(m)
    BY <1>0, <1>3, AnswersStay DEF Releases, CompletedIsProjected
  <1> QED
    BY <1>1, <1>2, <1>3, LockMoves

(* What the invariant says of a handler with frame f, when the verdicts    *)
(* are v and the answers p have been written.                              *)
Sound(f, v, p) ==
    /\ f.pc \in WorkingPc => f.msg \in Requests /\ v[f.msg] # "none"
    /\ f.pc = "lookup" /\ f.msg # None => f.msg \in Requests /\ v[f.msg] # "none"
    /\ f.pc \in {"project", "finish"} => f.st \in Terminal
    /\ f.pc = "finish" /\ f.st = "completed" => f.msg \in p
    /\ f.pc \in {"clear", "suspend", "orphan"} \/ (f.pc = "returned" /\ f.why \in {"repair", "release"})
          => v[f.msg] \in Terminal
SoundNow(a) == Sound(call[a], verdict, projected)
SoundNext(a) == Sound(call'[a], verdict', projected')

(* The inductive invariant makes every handler sound.                      *)
LEMMA SoundFrames ==
    ASSUME IInv, NEW a \in Actors
    PROVE  SoundNow(a)
  BY DEF IInv, FrameInv, CoordinatorInv, Sound, SoundNow, Claimed

(* A handler that does not move stays sound whatever the others do.        *)
LEMMA SoundStays ==
    ASSUME IInv, [Next]_vars, NEW a \in Actors, call'[a] = call[a]
    PROVE  SoundNext(a)
  <1> DEFINE f == call[a]
  <1>1. f.pc \in {"clear", "suspend", "orphan", "returned"} => f.pc \in WorkingPc
    BY DEF WorkingPc, FinalizerPc
  <1>2. Sound(f, verdict, projected)
    BY SoundFrames DEF SoundNow
  <1>3. f.msg \in Requests /\ verdict[f.msg] # "none" => verdict'[f.msg] # "none"
    BY VerdictsStay DEF Claimed
  <1>4. f.msg \in Requests /\ verdict[f.msg] \in Terminal => verdict'[f.msg] \in Terminal
    BY VerdictsStay
  <1>5. f.msg \in projected => f.msg \in projected'
    BY AnswersStay
  <1> HIDE DEF f
  <1>6. Sound(f, verdict', projected')
    BY <1>1, <1>2, <1>3, <1>4, <1>5 DEF Sound
  <1> QED
    BY <1>6 DEF SoundNext, f

(* A handler that waits, has ended or has not begun is sound.              *)
LEMMA IdleFrame ==
    ASSUME NEW f, NEW v, NEW p, f.pc \notin WorkingPc, f.pc # "lookup"
    PROVE  Sound(f, v, p)
  BY DEF Sound, WorkingPc, FinalizerPc

(* A handler that works on a claimed turn outside the coordinator is sound. *)
LEMMA BusyFrame ==
    ASSUME NEW f, NEW v, NEW p, f.msg \in Requests, v[f.msg] # "none",
           f.pc \notin FinalizerPc, f.pc # "orphan",
           f.pc = "returned" => f.why \notin {"repair", "release"}
    PROVE  Sound(f, v, p)
  BY DEF Sound, FinalizerPc

(* A coordinator that is given a claimed turn and a status is sound.       *)
LEMMA FinalizingFrame ==
    ASSUME NEW m, NEW v, NEW p, NEW s \in Terminal, NEW keep, NEW why,
           m \in Requests, v[m] # "none"
    PROVE  /\ Sound(Finalizing("project", m, s, keep, why), v, p)
           /\ (s = "completed" => m \in p)
                 => Sound(Finalizing("finish", m, s, keep, why), v, p)
  BY DEF Sound, Finalizing, Frame

(* Where a handler stands after it has entered a frame or moved on.        *)
LEMMA EnterFacts ==
    ASSUME TypeOK, NEW a \in Actors, NEW f, Enter(a, f)
    PROVE  call'[a] = f /\ \A b \in Actors : b # a => call'[b] = call[b]
  BY DEF TypeOK, Enter

(* A handler that moves keeps the rest of its frame.                       *)
LEMMA GotoFacts ==
    ASSUME TypeOK, NEW a \in Actors, NEW pc, Goto(a, pc)
    PROVE  /\ call'[a].pc = pc /\ call'[a].msg = call[a].msg
           /\ call'[a].st = call[a].st /\ call'[a].why = call[a].why
           /\ \A b \in Actors : b # a => call'[b] = call[b]
  BY DEF TypeOK, Goto, FrameType

(* A step of one handler leaves the others where they stand; a launch also *)
(* begins a runner, and a cancel may interrupt one.                        *)
LEMMA PrepareAlone ==
    ASSUME TypeOK, NEW r \in Requests, PrepareStep(r) \/ AdmissionFails(r),
           NEW b \in Actors, b # Prepare(r), b # Runner(r) \/ ~Launch(r)
    PROVE  call'[b] = call[b]
  <1>a. Prepare(r) \in Actors /\ Runner(r) \in Actors
    BY ActorsKnown
  <1>1. CASE \E pc : Goto(Prepare(r), pc)
    BY <1>a, <1>1, GotoFacts
  <1>2. CASE \E f : Enter(Prepare(r), f)
    BY <1>a, <1>2, EnterFacts
  <1>3. CASE Launch(r)
    BY <1>a, <1>3 DEF Launch, TypeOK
  <1>4. CASE PrepareBegin(r) \/ Recover(r) \/ PrepareReturn(r) \/ Reread(r)
    BY <1>1, <1>2, <1>4 DEF PrepareBegin, Recover, PrepareReturn, Reread,
                            FinalizeFromLog, FinalizeOrphan
  <1>5. CASE \/ SyncKeep(r) \/ SyncReplace(r) \/ SyncFails(r) \/ Claim(r) \/ Join(r)
             \/ Recheck(r) \/ AppendMessages(r) \/ MarkActiveRun(r) \/ AdmissionFails(r)
    BY <1>1, <1>5 DEF SyncKeep, SyncReplace, SyncFails, Claim, Join, Recheck,
                      AppendMessages, MarkActiveRun, AdmissionFails, RollBack
  <1> QED
    BY <1>3, <1>4, <1>5 DEF PrepareStep

(* A runner moves nobody else.                                             *)
LEMMA RunnerAlone ==
    ASSUME TypeOK, NEW r \in Requests, RunnerStep(r) \/ RunnerTrouble(r),
           NEW b \in Actors, b # Runner(r)
    PROVE  call'[b] = call[b]
  <1>a. Runner(r) \in Actors
    BY ActorsKnown
  <1>1. CASE \E pc : Goto(Runner(r), pc)
    BY <1>a, <1>1, GotoFacts
  <1>2. CASE \E f : Enter(Runner(r), f)
    BY <1>a, <1>2, EnterFacts
  <1>3. CASE Attach(r) \/ Send(r) \/ AttachFallback(r)
    BY <1>1, <1>3 DEF Attach, Send, AttachFallback
  <1>4. CASE TerminalArrives(r) \/ HostGone(r) \/ RunnerFault(r)
    BY <1>2, <1>4 DEF TerminalArrives, HostGone, RunnerFault, StreamFails
  <1>5. CASE RunnerReturn(r)
    BY <1>1, <1>2, <1>5 DEF RunnerReturn
  <1> QED
    BY <1>3, <1>4, <1>5 DEF RunnerStep, RunnerTrouble

(* Where ingest_once leaves its caller.                                    *)
LEMMA IngestEnters ==
    ASSUME NEW a \in Actors, NEW m, NEW why, IngestOnce(a, m, why)
    PROVE  \/ Enter(a, Frame("raised", m, "none", FALSE, why))
           \/ Enter(a, Frame("returned", m, "none", FALSE, why))
           \/ log'[m] # "none" /\ FinalizeFromLog(a, m, log'[m], why)
  BY DEF IngestOnce

(* A cancel moves nobody but itself and runners.                           *)
LEMMA CancelAlone ==
    ASSUME TypeOK, NEW c \in Cancels, CancelStep(c),
           NEW b \in Actors, b # Cancel(c), \A r \in Requests : b # Runner(r)
    PROVE  call'[b] = call[b]
  <1> DEFINE a == Cancel(c)
  <1>a. a \in Actors
    BY ActorsKnown
  <1>1. CASE \E pc : Goto(a, pc)
    BY <1>a, <1>1, GotoFacts
  <1>2. CASE \E f : Enter(a, f)
    BY <1>a, <1>2, EnterFacts
  <1>3. CASE CancelAuthorize(c) \/ CancelLookup(c) \/ CancelOrphanRun(c) \/ CancelStop(c)
    BY <1>1, <1>2, <1>3 DEF CancelAuthorize, CancelLookup, CancelOrphanRun, CancelStop
  <1>4. CASE CancelQuiet(c) \/ CancelSettle(c) \/ CancelRelease(c)
    BY <1>1, <1>2, <1>4 DEF CancelQuiet, CancelSettle, CancelRelease
  <1>5. CASE CancelIngest(c)
    BY <1>1, <1>2, <1>5, <1>a, IngestEnters DEF CancelIngest, FinalizeFromLog
  <1>6. CASE CancelReturn(c)
    <2> DEFINE m == call[a].msg
    <2>1. CASE call' = [call EXCEPT ![a].pc = "gather",
                                    ![Runner(m)] = IF RunnerLive(m) THEN Interrupted(m) ELSE @]
      <3>1. b # Runner(m)
        BY <1>a, FrameFacts, ActorsKnown DEF Actors, Prepare, Runner, Cancel, Sweep
      <3> QED
        BY <1>a, <2>1, <3>1 DEF TypeOK
    <2> QED
      BY <1>1, <1>6, <2>1 DEF CancelReturn
  <1> QED
    BY <1>3, <1>4, <1>5, <1>6 DEF CancelStep

(* The sweep moves nobody else.                                            *)
LEMMA SweepAlone ==
    ASSUME TypeOK, NEW s \in Sweeps, SweepStep(s), NEW b \in Actors, b # Sweep(s)
    PROVE  call'[b] = call[b]
  <1> DEFINE a == Sweep(s)
  <1>a. a \in Actors
    BY ActorsKnown
  <1>1. CASE \E f : Enter(a, f)
    BY <1>a, <1>1, EnterFacts
  <1> QED
    BY <1>1, <1>a, IngestEnters DEF SweepStep, SweepBegin, SweepIngest, SweepReturn,
                                    FinalizeOrphan, FinalizeFromLog

(* A step of the coordinator moves its caller only.                        *)
LEMMA FinalizerAlone ==
    ASSUME TypeOK, NEW a \in Actors, FinalizerStep(a) \/ StepFails(a),
           NEW b \in Actors, b # a
    PROVE  call'[b] = call[b]
  BY GotoFacts DEF FinalizerStep, Project, Finish, ClearRun, SuspendRun, StepFails

(* Places where a handler has nothing of a turn in its hands.              *)
QuietPc == {"new", "sync", "claim", "join", "reread", "recheck", "append", "mark", "launch",
            "done", "gone"}

(* A handler that moves to a quiet place is sound.                         *)
LEMMA QuietGoto ==
    ASSUME TypeOK, NEW a \in Actors, NEW pc \in QuietPc, Goto(a, pc)
    PROVE  SoundNext(a)
  <1>1. call'[a].pc = pc
    BY GotoFacts
  <1>2. pc \notin WorkingPc /\ pc # "lookup"
    BY DEF QuietPc, WorkingPc, FinalizerPc
  <1> QED
    BY <1>1, <1>2, IdleFrame DEF SoundNext

(* So is a handler that begins again.                                      *)
LEMMA QuietEnter ==
    ASSUME TypeOK, NEW a \in Actors, NEW pc \in QuietPc, NEW m, Enter(a, At(pc, m))
    PROVE  SoundNext(a)
  <1>1. call'[a].pc = pc
    BY EnterFacts DEF At, Frame
  <1>2. pc \notin WorkingPc /\ pc # "lookup"
    BY DEF QuietPc, WorkingPc, FinalizerPc
  <1> QED
    BY <1>1, <1>2, IdleFrame DEF SoundNext

(* The frames in which a handler works on a claimed turn.                  *)
LEMMA SoundEnter ==
    ASSUME IInv, [Next]_vars, NEW a \in Actors, NEW m, Claimed(m), NEW why,
           \/ \E pc : pc \notin FinalizerPc \cup {"orphan", "returned"} /\ Enter(a, At(pc, m))
           \/ Enter(a, Frame("raised", m, "none", FALSE, why))
           \/ why \notin {"repair", "release"} /\ Enter(a, Frame("returned", m, "none", FALSE, why))
           \/ \E s \in Terminal : \E keep : Enter(a, Finalizing("project", m, s, keep, why))
           \/ \E s \in Terminal : \E keep :
                 /\ s = "completed" => m \in projected
                 /\ Enter(a, Finalizing("finish", m, s, keep, why))
    PROVE  SoundNext(a)
  <1>0. TypeOK /\ m \in Requests /\ verdict'[m] # "none"
    BY VerdictsStay DEF IInv, Claimed
  <1>1. ASSUME NEW pc, pc \notin FinalizerPc \cup {"orphan", "returned"}, Enter(a, At(pc, m))
        PROVE  SoundNext(a)
    <2>1. call'[a] = At(pc, m)
      BY <1>0, <1>1, EnterFacts
    <2> QED
      BY <1>0, <1>1, <2>1, BusyFrame DEF SoundNext, At, Frame
  <1>2. CASE Enter(a, Frame("raised", m, "none", FALSE, why))
    <2>1. call'[a] = Frame("raised", m, "none", FALSE, why)
      BY <1>0, <1>2, EnterFacts
    <2> QED
      BY <1>0, <2>1, BusyFrame DEF SoundNext, Frame, FinalizerPc
  <1>3. CASE why \notin {"repair", "release"} /\ Enter(a, Frame("returned", m, "none", FALSE, why))
    <2>1. call'[a] = Frame("returned", m, "none", FALSE, why)
      BY <1>0, <1>3, EnterFacts
    <2> QED
      BY <1>0, <1>3, <2>1, BusyFrame DEF SoundNext, Frame, FinalizerPc
  <1>4. ASSUME NEW s \in Terminal, NEW keep, Enter(a, Finalizing("project", m, s, keep, why))
        PROVE  SoundNext(a)
    <2>1. call'[a] = Finalizing("project", m, s, keep, why)
      BY <1>0, <1>4, EnterFacts
    <2> QED
      BY <1>0, <2>1, FinalizingFrame DEF SoundNext
  <1>5. ASSUME NEW s \in Terminal, NEW keep, s = "completed" => m \in projected,
               Enter(a, Finalizing("finish", m, s, keep, why))
        PROVE  SoundNext(a)
    <2>1. call'[a] = Finalizing("finish", m, s, keep, why)
      BY <1>0, <1>5, EnterFacts
    <2>2. s = "completed" => m \in projected'
      BY <1>5, AnswersStay
    <2> QED
      BY <1>0, <2>1, <2>2, FinalizingFrame DEF SoundNext
  <1> QED
    BY <1>1, <1>2, <1>3, <1>4, <1>5

(* The turn of the binding, repaired or recovered, is a claimed one.       *)
LEMMA HolderFacts ==
    ASSUME IInv, holder # None
    PROVE  /\ Claimed(holder)
           /\ ~Running => /\ verdict[holder] \in Terminal
                          /\ verdict[holder] = "completed" => holder \in projected
  BY DEF IInv, LockInv, Running, TypeOK, Claimed, CompletedIsProjected

(* Finalizing an orphaned claim leaves the caller sound.                   *)
LEMMA OrphanSound ==
    ASSUME IInv, [Next]_vars, NEW a \in Actors, NEW m, Claimed(m), NEW why,
           FinalizeOrphan(a, m, why)
    PROVE  SoundNext(a)
  <1>1. Enter(a, Finalizing("project", m, "failed", FALSE, why)) /\ "failed" \in Terminal
    BY DEF FinalizeOrphan, Terminal
  <1> QED
    BY <1>1, SoundEnter

(* Ingesting leaves the caller sound: a durable status is a terminal one.  *)
LEMMA IngestSound ==
    ASSUME IInv, [Next]_vars, NEW a \in Actors, NEW m, Claimed(m), NEW why,
           why \notin {"repair", "release"}, IngestOnce(a, m, why)
    PROVE  SoundNext(a)
  <1>1. log' \in [Requests -> Terminal \cup {"none"}]
    BY TypeStep DEF TypeOK
  <1>2. CASE log'[m] # "none" /\ FinalizeFromLog(a, m, log'[m], why)
    <2>1. log'[m] \in Terminal
      BY <1>1, <1>2 DEF Claimed
    <2> QED
      BY <1>2, <2>1, SoundEnter DEF FinalizeFromLog
  <1> QED
    BY <1>2, IngestEnters, SoundEnter

(* Every step of a request leaves it, and the runner it launches, sound.   *)
LEMMA SoundPrepare ==
    ASSUME IInv, [Next]_vars, NEW r \in Requests, PrepareStep(r) \/ AdmissionFails(r)
    PROVE  \A b \in Actors : SoundNext(b)
  <1> DEFINE a == Prepare(r)
             m == call[a].msg
  <1>a. a \in Actors /\ Runner(r) \in Actors /\ TypeOK
    BY ActorsKnown DEF IInv
  <1>0. CASE Launch(r)
    <2>1. call'[a].pc = "done" /\ call'[Runner(r)] = At("attach", r)
      BY <1>0, <1>a, ActorsDistinct, FrameFacts DEF Launch, TypeOK, FrameType
    <2>2. SoundNext(a)
      BY <2>1, IdleFrame DEF SoundNext, WorkingPc, FinalizerPc
    <2>3. verdict'[r] # "none"
      BY <1>0, VerdictsStay DEF Launch, IInv, AdmissionInv, Claimed
    <2>4. SoundNext(Runner(r))
      BY <2>1, <2>3, BusyFrame DEF SoundNext, At, Frame, FinalizerPc
    <2>5. ASSUME NEW b \in Actors, b # a, b # Runner(r)
          PROVE  SoundNext(b)
      BY <1>a, <2>5, PrepareAlone, SoundStays
    <2> QED
      BY <2>2, <2>4, <2>5
  <1> SUFFICES ASSUME ~Launch(r)
               PROVE  SoundNext(a)
    <2>1. ASSUME NEW b \in Actors, b # a, ~Launch(r)
          PROVE  SoundNext(b)
      BY <1>a, <2>1, PrepareAlone, SoundStays
    <2> QED
      BY <1>0, <2>1
  <1>b. CASE \E pc \in QuietPc : Goto(a, pc)
    BY <1>a, <1>b, QuietGoto
  <1>1. CASE PrepareBegin(r)
    <2>1. CASE Running /\ Enter(a, At("recover", holder))
      <3>1. Claimed(holder)
        BY <2>1, HolderFacts DEF Running
      <3> QED
        BY <1>a, <2>1, <3>1, SoundEnter DEF FinalizerPc
    <2>2. CASE /\ holder # None /\ ~Running
               /\ Enter(a, Finalizing("finish", holder, verdict[holder], FALSE, "repair"))
      BY <1>a, <2>2, HolderFacts, SoundEnter
    <2> QED
      BY <1>1, <1>b, <2>1, <2>2 DEF PrepareBegin, QuietPc
  <1>2. CASE Recover(r)
    <2>0. Claimed(m) /\ log[m] \in Terminal \cup {"none"}
      BY <1>2, <1>a DEF Recover, IInv, FrameInv, WorkingPc, Claimed, TypeOK
    <2>1. CASE log[m] # "none" /\ FinalizeFromLog(a, m, log[m], "recover")
      BY <1>a, <2>0, <2>1, SoundEnter DEF FinalizeFromLog
    <2>2. CASE FinalizeOrphan(a, m, "recover")
      BY <1>a, <2>0, <2>2, OrphanSound
    <2> QED
      BY <1>2, <1>b, <2>1, <2>2 DEF Recover, QuietPc
  <1>3. CASE PrepareReturn(r) \/ Reread(r) \/ SyncKeep(r) \/ SyncReplace(r) \/ SyncFails(r)
    BY <1>3, <1>b DEF PrepareReturn, Reread, SyncKeep, SyncReplace, SyncFails, QuietPc
  <1>4. CASE \/ Claim(r) \/ Join(r) \/ Recheck(r) \/ AppendMessages(r) \/ MarkActiveRun(r)
             \/ AdmissionFails(r)
    BY <1>4, <1>b DEF Claim, Join, Recheck, AppendMessages, MarkActiveRun,
                      AdmissionFails, RollBack, QuietPc
  <1> QED
    BY <1>1, <1>2, <1>3, <1>4 DEF PrepareStep

(* Every step of a runner leaves it sound.                                 *)
LEMMA SoundRunner ==
    ASSUME IInv, [Next]_vars, NEW r \in Requests, RunnerStep(r) \/ RunnerTrouble(r)
    PROVE  \A b \in Actors : SoundNext(b)
  <1> DEFINE a == Runner(r)
  <1>a. a \in Actors /\ TypeOK
    BY ActorsKnown DEF IInv
  <1> SUFFICES SoundNext(a)
    BY <1>a, RunnerAlone, SoundStays
  <1>b. call[a].pc \in WorkingPc => Claimed(r)
    BY <1>a DEF IInv, FrameInv
  <1>1. CASE Attach(r) \/ AttachFallback(r) \/ Send(r)
    <2>1. Claimed(r)
      BY <1>1, <1>b DEF Attach, AttachFallback, Send, WorkingPc
    <2>2. call[a].msg = r
      BY <1>1 DEF IInv, FrameInv, WorkingPc, Attach, AttachFallback, Send
    <2>3. call'[a].msg = r /\ call'[a].pc \in {"send", "stream"}
      BY <1>1, <1>a, <2>2, GotoFacts DEF Attach, AttachFallback, Send
    <2>4. verdict'[r] # "none"
      BY <2>1, VerdictsStay DEF Claimed
    <2> QED
      BY <2>3, <2>4, BusyFrame DEF SoundNext, FinalizerPc
  <1>2. CASE TerminalArrives(r)
    <2> DEFINE s == journal[seen[a].at + 1].st
    <2>1. Claimed(r) /\ s \in Terminal
      <3>1. seen[a].at + 1 \in 1..Len(journal)
        BY <1>2, <1>a, JournalType DEF TerminalArrives, End, TypeOK
      <3> QED
        BY <1>2, <1>a, <1>b, <3>1, JournalType DEF TerminalArrives, WorkingPc
    <2>2. Enter(a, Finalizing("project", r, s, Keeps(r, s), "turn"))
      BY <1>2 DEF TerminalArrives
    <2> QED
      BY <1>a, <2>1, <2>2, SoundEnter
  <1>3. CASE HostGone(r) \/ RunnerFault(r)
    <2>1. Claimed(r) /\ "failed" \in Terminal
      BY <1>3, <1>b DEF HostGone, RunnerFault, WorkingPc, Terminal
    <2>2. Enter(a, Finalizing("project", r, "failed", FALSE, "turn"))
      BY <1>3 DEF HostGone, RunnerFault, StreamFails
    <2> QED
      BY <1>a, <2>1, <2>2, SoundEnter
  <1>4. CASE RunnerReturn(r)
    <2>1. CASE Goto(a, "done")
      BY <1>a, <2>1, QuietGoto DEF QuietPc
    <2>2. CASE call[a].pc = "raised" /\ Enter(a, Finalizing("finish", r, "failed", FALSE, "failure"))
      <3>1. Claimed(r) /\ "failed" \in Terminal /\ "failed" # "completed"
        BY <2>2, <1>b DEF WorkingPc, Terminal
      <3> QED
        BY <1>a, <2>2, <3>1, SoundEnter
    <2> QED
      BY <1>4, <2>1, <2>2 DEF RunnerReturn
  <1> QED
    BY <1>1, <1>2, <1>3, <1>4 DEF RunnerStep, RunnerTrouble

(* An interrupted runner finalizes its own turn, or stops where it stands. *)
LEMMA InterruptSound ==
    ASSUME IInv, [Next]_vars, NEW m \in Requests, Claimed(m)
    PROVE  Sound(Interrupted(m), verdict', projected')
  <1>1. CASE call[Runner(m)].pc \in {"attach", "send", "stream"}
    <2>1. "cancelled" \in Terminal /\ verdict'[m] # "none"
      BY VerdictsStay DEF Terminal, Claimed
    <2> QED
      BY <1>1, <2>1, FinalizingFrame DEF Interrupted
  <1>2. CASE call[Runner(m)].pc \notin {"attach", "send", "stream"}
    <2>1. Interrupted(m).pc = "done"
      BY <1>2, ActorsKnown, FrameFacts DEF Interrupted, IInv, FrameType
    <2> QED
      BY <2>1, IdleFrame DEF WorkingPc, FinalizerPc
  <1> QED
    BY <1>1, <1>2

(* Every step of a cancel leaves it, and the runner it interrupts, sound.  *)
LEMMA SoundCancel ==
    ASSUME IInv, [Next]_vars, NEW c \in Cancels, CancelStep(c)
    PROVE  \A b \in Actors : SoundNext(b)
  <1> DEFINE a == Cancel(c)
             m == call[a].msg
             R == Runner(m)
             Interrupts ==
                 /\ call[a].pc = "returned"
                 /\ call' = [call EXCEPT ![a].pc = "gather",
                                         ![R] = IF RunnerLive(m) THEN Interrupted(m) ELSE @]
  <1>a. a \in Actors /\ TypeOK /\ call \in [Actors -> FrameType]
    BY ActorsKnown DEF IInv, TypeOK
  <1>b. call[a].pc \in WorkingPc => Claimed(m) /\ verdict'[m] # "none"
    BY <1>a, VerdictsStay DEF IInv, FrameInv, Claimed
  <1>0. CASE Interrupts
    <2>1. Claimed(m) /\ verdict'[m] # "none" /\ m \in Requests /\ R \in Actors /\ R # a
      BY <1>0, <1>b, ActorsKnown, ActorsDistinct DEF WorkingPc, Claimed
    <2>2. call'[a].pc = "gather" /\ call'[a].msg = m
      BY <1>0, <1>a, <2>1 DEF FrameType
    <2>3. SoundNext(a)
      BY <2>1, <2>2, BusyFrame DEF SoundNext, FinalizerPc
    <2>4. call'[R] = IF RunnerLive(m) THEN Interrupted(m) ELSE call[R]
      BY <1>0, <1>a, <2>1
    <2>5. SoundNext(R)
      BY <2>1, <2>4, InterruptSound, SoundStays DEF SoundNext
    <2>6. ASSUME NEW b \in Actors, b # a, b # R
          PROVE  SoundNext(b)
      <3>1. call'[b] = call[b]
        BY <1>0, <1>a, <2>6
      <3> QED
        BY <3>1, SoundStays
    <2> QED
      BY <2>3, <2>5, <2>6
  <1> SUFFICES ASSUME ~Interrupts
               PROVE  SoundNext(a)
    <2>1. ASSUME NEW b \in Actors, b # a, ~Interrupts
          PROVE  SoundNext(b)
      <3>1. CASE \A r \in Requests : b # Runner(r)
        BY <2>1, <3>1, <1>a, CancelAlone, SoundStays
      <3>2. CASE \E r \in Requests : b = Runner(r)
        <4>1. CASE (\E pc : Goto(a, pc)) \/ (\E f : Enter(a, f))
          BY <1>a, <2>1, <4>1, GotoFacts, EnterFacts, SoundStays
        <4>2. CancelIngest(c) => (\E pc : Goto(a, pc)) \/ (\E f : Enter(a, f))
          BY <1>a, IngestEnters DEF CancelIngest, FinalizeFromLog
        <4>3. CancelReturn(c) => \E pc : Goto(a, pc)
          BY <2>1 DEF CancelReturn
        <4> QED
          BY <4>1, <4>2, <4>3 DEF CancelStep, CancelAuthorize, CancelLookup, CancelOrphanRun,
                                  CancelStop, CancelQuiet, CancelSettle, CancelRelease
      <3> QED
        BY <3>1, <3>2
    <2> HIDE DEF Interrupts
    <2> QED
      BY <1>0, <2>1
  <1>c. ASSUME NEW pc \in QuietPc, Goto(a, pc)
        PROVE  SoundNext(a)
    BY <1>a, <1>c, QuietGoto
  <1>d. ASSUME NEW pc \in {"quiet", "wait", "ingest", "expired", "gather", "release"},
               call[a].pc \in WorkingPc, Goto(a, pc)
        PROVE  SoundNext(a)
    <2>1. call'[a].pc = pc /\ call'[a].msg = m
      BY <1>a, <1>d, GotoFacts
    <2> QED
      BY <1>b, <1>d, <2>1, BusyFrame DEF SoundNext, FinalizerPc, Claimed
  <1>1. CASE CancelAuthorize(c)
    <2>1. CASE Enter(a, At("lookup", run.msg))
      <3>1. call'[a] = At("lookup", run.msg)
        BY <1>a, <2>1, EnterFacts
      <3>2. run.msg # None => run.msg \in Requests /\ verdict'[run.msg] # "none"
        BY VerdictsStay DEF IInv, LockInv, Claimed
      <3> QED
        BY <3>1, <3>2 DEF SoundNext, Sound, At, Frame, WorkingPc, FinalizerPc
    <2> QED
      BY <1>1, <1>c, <2>1 DEF CancelAuthorize, QuietPc
  <1>2. CASE CancelLookup(c)
    <2>1. CASE holder = None /\ m # None /\ Goto(a, "orphan")
      <3>1. m \in Requests /\ verdict[m] # "none"
        BY <1>2, <2>1, <1>a DEF CancelLookup, IInv, FrameInv, Claimed
      <3>2. verdict[m] \in Terminal
        BY <2>1, <3>1, NoneAssumption DEF IInv, LockInv, TypeOK
      <3>3. verdict'[m] \in Terminal /\ verdict'[m] # "none"
        BY <3>1, <3>2, VerdictsStay DEF Terminal
      <3>4. call'[a].pc = "orphan" /\ call'[a].msg = m
        BY <1>a, <2>1, GotoFacts
      <3> QED
        BY <3>1, <3>3, <3>4 DEF SoundNext, Sound
    <2>2. CASE Running /\ Enter(a, At("stop", holder))
      <3>1. Claimed(holder)
        BY <2>2, HolderFacts DEF Running
      <3> QED
        BY <1>a, <2>2, <3>1, SoundEnter DEF FinalizerPc
    <2>3. CASE /\ holder # None /\ ~Running
               /\ Enter(a, Finalizing("finish", holder, verdict[holder], FALSE, "repair"))
      BY <1>a, <2>3, HolderFacts, SoundEnter
    <2> QED
      BY <1>2, <1>c, <2>1, <2>2, <2>3 DEF CancelLookup, QuietPc
  <1>3. CASE CancelOrphanRun(c)
    BY <1>3, <1>c DEF CancelOrphanRun, QuietPc
  <1>4. CASE CancelStop(c) \/ CancelQuiet(c) \/ CancelSettle(c)
    BY <1>4, <1>c, <1>d DEF CancelStop, CancelQuiet, CancelSettle, QuietPc, WorkingPc
  <1>5. CASE CancelIngest(c)
    <2>1. Claimed(m)
      BY <1>5, <1>b DEF CancelIngest, WorkingPc
    <2>2. CASE \E why \in {"ingest", "expired"} : IngestOnce(a, m, why)
      BY <1>a, <2>1, <2>2, IngestSound
    <2> QED
      BY <1>5, <1>c, <2>2 DEF CancelIngest, QuietPc
  <1>6. CASE CancelReturn(c)
    BY <1>6, <1>c, <1>d DEF CancelReturn, QuietPc, WorkingPc
  <1>7. CASE CancelRelease(c)
    <2>1. CASE Enter(a, Finalizing("finish", m, "cancelled", FALSE, "release"))
      <3>1. Claimed(m) /\ "cancelled" \in Terminal /\ "cancelled" # "completed"
        BY <1>7, <1>b DEF CancelRelease, WorkingPc, Terminal
      <3> QED
        BY <1>a, <2>1, <3>1, SoundEnter
    <2> QED
      BY <1>7, <1>c, <2>1 DEF CancelRelease, QuietPc
  <1> QED
    BY <1>1, <1>2, <1>3, <1>4, <1>5, <1>6, <1>7 DEF CancelStep

(* Every step of the sweep leaves it sound.                                *)
LEMMA SoundSweep ==
    ASSUME IInv, [Next]_vars, NEW s \in Sweeps, SweepStep(s)
    PROVE  \A b \in Actors : SoundNext(b)
  <1> DEFINE a == Sweep(s)
             m == call[a].msg
  <1>a. a \in Actors /\ TypeOK
    BY ActorsKnown DEF IInv
  <1> SUFFICES SoundNext(a)
    BY <1>a, SweepAlone, SoundStays
  <1>1. CASE SweepBegin(s)
    <2>1. Claimed(holder)
      BY <1>1, HolderFacts DEF SweepBegin, Running
    <2> QED
      BY <1>1, <1>a, <2>1, SoundEnter DEF SweepBegin, FinalizerPc
  <1>2. CASE SweepIngest(s)
    <2>1. Claimed(m)
      BY <1>2, <1>a DEF SweepIngest, IInv, FrameInv, WorkingPc
    <2>2. CASE IngestOnce(a, m, "ingest")
      BY <1>a, <2>1, <2>2, IngestSound
    <2>3. CASE FinalizeOrphan(a, m, "ingest")
      BY <1>a, <2>1, <2>3, OrphanSound
    <2> QED
      BY <1>2, <2>2, <2>3 DEF SweepIngest
  <1>3. CASE SweepReturn(s)
    BY <1>3, <1>a, QuietEnter DEF SweepReturn, QuietPc
  <1> QED
    BY <1>1, <1>2, <1>3 DEF SweepStep

(* Every step of the coordinator leaves its caller sound: the answer is    *)
(* written before the verdict, and the verdict before the session row.     *)
LEMMA SoundFinalizer ==
    ASSUME IInv, [Next]_vars, NEW a \in Actors, FinalizerStep(a) \/ StepFails(a)
    PROVE  \A b \in Actors : SoundNext(b)
  <1> DEFINE m == call[a].msg
  <1>a. TypeOK /\ m \in Requests /\ verdict[m] # "none" /\ verdict'[m] # "none"
    <2>1. call[a].pc \in WorkingPc
      BY DEF FinalizerStep, Project, Finish, ClearRun, SuspendRun, StepFails, WorkingPc, FinalizerPc
    <2> QED
      BY <2>1, VerdictsStay DEF IInv, FrameInv, Claimed
  <1> SUFFICES SoundNext(a)
    BY <1>a, FinalizerAlone, SoundStays
  <1>b. ASSUME NEW pc, Goto(a, pc)
        PROVE  call'[a].pc = pc /\ call'[a].msg = m /\ call'[a].st = call[a].st
    BY <1>a, <1>b, GotoFacts
  <1>c. CASE Goto(a, "raised")
    BY <1>a, <1>b, <1>c, BusyFrame DEF SoundNext, FinalizerPc
  <1>1. CASE Project(a)
    <2>1. CASE Goto(a, "finish") /\ projected' = projected \cup {m}
      <3>1. call[a].st \in Terminal
        BY <1>1 DEF Project, IInv, CoordinatorInv
      <3> QED
        BY <1>a, <1>b, <2>1, <3>1 DEF SoundNext, Sound
    <2> QED
      BY <1>1, <1>c, <2>1 DEF Project
  <1>2. CASE Finish(a)
    <2>1. verdict'[m] \in Terminal
      <3>1. verdict \in [Requests -> Terminal \cup {"none", "running"}] /\ call[a].st \in Terminal
        BY <1>2 DEF Finish, IInv, TypeOK, CoordinatorInv
      <3>2. verdict[m] = "running" => holder = m
        BY <1>a DEF IInv, LockInv
      <3> QED
        BY <1>2, <1>a, <3>1, <3>2 DEF Finish
    <2>2. call'[a].msg = m /\ call'[a].pc \in {"clear", "suspend"}
      BY <1>2, <1>b DEF Finish
    <2> QED
      BY <1>a, <2>1, <2>2 DEF SoundNext, Sound
  <1>3. CASE ClearRun(a) \/ SuspendRun(a)
    <2>1. verdict[m] \in Terminal
      BY <1>3 DEF ClearRun, SuspendRun, IInv, CoordinatorInv
    <2>2. verdict'[m] \in Terminal
      BY <1>a, <2>1, VerdictsStay
    <2>3. call'[a].msg = m /\ call'[a].pc = "returned"
      BY <1>3, <1>b DEF ClearRun, SuspendRun
    <2> QED
      BY <1>a, <2>2, <2>3 DEF SoundNext, Sound
  <1>4. CASE StepFails(a)
    BY <1>4, <1>c DEF StepFails
  <1> QED
    BY <1>1, <1>2, <1>3, <1>4 DEF FinalizerStep

(* The host does not move handlers; a crash ends them all.                 *)
LEMMA SoundEnvironment ==
    ASSUME IInv, [Next]_vars, KernelEnds \/ SessionLost \/ Crash \/ UNCHANGED vars,
           NEW b \in Actors
    PROVE  SoundNext(b)
  <1>1. CASE Crash
    <2>1. call'[b].pc \in {"new", "gone"}
      BY <1>1 DEF Crash, At, Frame
    <2> QED
      BY <2>1, IdleFrame DEF SoundNext, WorkingPc, FinalizerPc
  <1>2. CASE KernelEnds \/ SessionLost \/ UNCHANGED vars
    BY <1>2, SoundStays DEF KernelEnds, SessionLost, vars
  <1> QED
    BY <1>1, <1>2

(* After every step every handler is sound.                                *)
LEMMA SoundStep ==
    ASSUME IInv, [Next]_vars
    PROVE  \A b \in Actors : SoundNext(b)
  BY SoundPrepare, SoundRunner, SoundCancel, SoundSweep, SoundFinalizer, SoundEnvironment
     DEF Next

(* What a step of one handler can be.                                      *)
LEMMA WhoMoves ==
    ASSUME IInv, [Next]_vars, NEW r \in Requests
    PROVE  /\ \/ call'[Prepare(r)] = call[Prepare(r)]
              \/ PrepareStep(r) \/ AdmissionFails(r) \/ Crash
              \/ FinalizerStep(Prepare(r)) \/ StepFails(Prepare(r))
           /\ \/ call'[Runner(r)] = call[Runner(r)]
              \/ Launch(r) \/ RunnerStep(r) \/ RunnerTrouble(r) \/ Crash
              \/ FinalizerStep(Runner(r)) \/ StepFails(Runner(r))
              \/ call'[Runner(r)] = Interrupted(r)
  <1>a. TypeOK /\ Prepare(r) \in Actors /\ Runner(r) \in Actors
    BY ActorsKnown DEF IInv
  <1>1. ASSUME NEW q \in Requests, PrepareStep(q) \/ AdmissionFails(q)
        PROVE  /\ q # r => call'[Prepare(r)] = call[Prepare(r)]
               /\ ~Launch(r) => call'[Runner(r)] = call[Runner(r)]
    BY <1>a, <1>1, PrepareAlone, ActorsDistinct
  <1>2. ASSUME NEW q \in Requests, RunnerStep(q) \/ RunnerTrouble(q)
        PROVE  /\ call'[Prepare(r)] = call[Prepare(r)]
               /\ q # r => call'[Runner(r)] = call[Runner(r)]
    BY <1>a, <1>2, RunnerAlone, ActorsDistinct
  <1>3. ASSUME NEW c \in Cancels, CancelStep(c)
        PROVE  /\ call'[Prepare(r)] = call[Prepare(r)]
               /\ call'[Runner(r)] = call[Runner(r)] \/ call'[Runner(r)] = Interrupted(r)
    <2> DEFINE a == Cancel(c)
               m == call[a].msg
    <2>1. call'[Prepare(r)] = call[Prepare(r)]
      BY <1>a, <1>3, CancelAlone, ActorsDistinct
    <2>2. CASE (\E pc : Goto(a, pc)) \/ (\E f : Enter(a, f))
      BY <1>a, <2>2, ActorsKnown, ActorsDistinct, GotoFacts, EnterFacts
    <2>3. CASE /\ call[a].pc = "returned"
               /\ call' = [call EXCEPT ![a].pc = "gather",
                                       ![Runner(m)] = IF RunnerLive(m) THEN Interrupted(m) ELSE @]
      <3>1. a # Runner(r) /\ a # Runner(m) /\ call \in [Actors -> FrameType]
        BY <1>a, ActorsDistinct DEF TypeOK
      <3>2. CASE m = r
        <4>1. call'[Runner(r)] = IF RunnerLive(r) THEN Interrupted(r) ELSE call[Runner(r)]
          BY <1>a, <2>3, <3>1, <3>2
        <4> QED
          BY <2>1, <4>1
      <3>3. CASE m # r
        <4>1. Runner(m) # Runner(r)
          BY <3>3, ActorsDistinct
        <4>2. call'[Runner(r)] = call[Runner(r)]
          BY <1>a, <2>3, <3>1, <4>1
        <4> QED
          BY <2>1, <4>2
      <3> QED
        BY <3>2, <3>3
    <2>4. CancelIngest(c) => (\E pc : Goto(a, pc)) \/ (\E f : Enter(a, f))
      BY IngestEnters, ActorsKnown DEF CancelIngest, FinalizeFromLog
    <2>5. CASE CancelReturn(c)
      BY <2>1, <2>2, <2>3, <2>5 DEF CancelReturn
    <2> QED
      BY <1>3, <2>1, <2>2, <2>4, <2>5
         DEF CancelStep, CancelAuthorize, CancelLookup, CancelOrphanRun,
             CancelStop, CancelQuiet, CancelSettle, CancelRelease
  <1>4. ASSUME NEW s \in Sweeps, SweepStep(s)
        PROVE  call'[Prepare(r)] = call[Prepare(r)] /\ call'[Runner(r)] = call[Runner(r)]
    BY <1>a, <1>4, SweepAlone, ActorsDistinct
  <1>5. ASSUME NEW a \in Actors, FinalizerStep(a) \/ StepFails(a)
        PROVE  /\ a # Prepare(r) => call'[Prepare(r)] = call[Prepare(r)]
               /\ a # Runner(r) => call'[Runner(r)] = call[Runner(r)]
    BY <1>a, <1>5, FinalizerAlone
  <1>6. CASE KernelEnds \/ SessionLost \/ UNCHANGED vars
    BY <1>6 DEF KernelEnds, SessionLost, vars
  <1> QED
    BY <1>1, <1>2, <1>3, <1>4, <1>5, <1>6 DEF Next

(* A request is without a turn until its claim succeeds.                   *)
LEMMA AdmissionStep ==
    ASSUME IInv, [Next]_vars
    PROVE  AdmissionInv'
  <1> SUFFICES ASSUME NEW r \in Requests
               PROVE  /\ call'[Prepare(r)].pc \in Unclaimed => verdict'[r] = "none"
                      /\ call'[Prepare(r)].pc \in {"recheck", "append", "mark", "launch"}
                            => verdict'[r] # "none"
    BY DEF AdmissionInv, Claimed
  <1> DEFINE a == Prepare(r)
             From == call[a].pc
             To == call'[a].pc
             Later == {"recheck", "append", "mark", "launch"}
  <1>a. a \in Actors /\ TypeOK
    BY ActorsKnown DEF IInv
  <1>b. Unclaimed \cap Later = {}
    BY DEF Unclaimed, FinalizerPc
  <1>c. /\ From \in Unclaimed => verdict[r] = "none"
        /\ From \in Later => verdict[r] # "none"
    BY DEF IInv, AdmissionInv, Claimed
  <1>d. verdict[r] # "none" => verdict'[r] # "none"
    BY VerdictsStay DEF Claimed
  <1>e. verdict[r] = "none" => \/ verdict'[r] = "none"
                               \/ From = "claim" /\ To = "recheck" /\ verdict'[r] = "running"
    <2>1. CASE UNCHANGED <<holder, verdict>> \/ Rotates
      BY <2>1 DEF Rotates
    <2>2. CASE \E q \in Requests : Admits(q)
      BY <1>a, <2>2 DEF Admits, TypeOK
    <2>3. CASE \E m \in Requests : Releases(m)
      BY <1>a, <2>3 DEF Releases, TypeOK
    <2> QED
      BY <2>1, <2>2, <2>3, LockMoves
  <1>f. CASE From \in Unclaimed /\ To \in Unclaimed
    BY <1>b, <1>c, <1>e, <1>f
  <1>g. CASE From \in Later /\ To \in Later
    BY <1>b, <1>c, <1>d, <1>g
  <1>h. CASE To \notin Unclaimed \cup Later
    BY <1>h
  <1>1. CASE call'[a] = call[a]
    <2> HIDE DEF a
    <2>1. From = To
      BY <1>1
    <2> QED
      BY <2>1, <1>f, <1>g, <1>h
  <1>2. CASE PrepareStep(r) \/ AdmissionFails(r)
    <2>g. ASSUME NEW pc, Goto(a, pc)
          PROVE  To = pc
      BY <1>a, <2>g, GotoFacts
    <2>e. ASSUME NEW f, Enter(a, f)
          PROVE  To = f.pc
      BY <1>a, <2>e, EnterFacts
    <2>1. CASE PrepareBegin(r) \/ Recover(r) \/ PrepareReturn(r)
      <3>1. From \in Unclaimed
        BY <2>1 DEF PrepareBegin, Recover, PrepareReturn, Unclaimed
      <3>2. To \in {"sync", "recover", "finish", "project", "reread", "gone"}
        BY <2>1, <2>g, <2>e DEF PrepareBegin, Recover, PrepareReturn, FinalizeFromLog,
                                FinalizeOrphan, Finalizing, At, Frame
      <3> QED
        BY <3>1, <3>2, <1>f, <1>h DEF Unclaimed, FinalizerPc
    <2>2. CASE Reread(r) \/ SyncKeep(r) \/ SyncReplace(r) \/ SyncFails(r)
      <3>1. From \in Unclaimed
        BY <2>2 DEF Reread, SyncKeep, SyncReplace, SyncFails, Unclaimed
      <3>2. To \in {"sync", "claim", "gone"}
        BY <2>2, <2>g DEF Reread, SyncKeep, SyncReplace, SyncFails
      <3> QED
        BY <3>1, <3>2, <1>f, <1>h DEF Unclaimed, FinalizerPc
    <2>3. CASE Claim(r)
      <3>1. CASE Goto(a, "join")
        BY <2>g, <3>1, <1>h DEF Unclaimed, FinalizerPc
      <3>2. CASE Goto(a, "recheck") /\ verdict' = [verdict EXCEPT ![r] = "running"]
        <4>1. To = "recheck" /\ verdict'[r] # "none"
          BY <1>a, <2>g, <3>2 DEF TypeOK
        <4> QED
          BY <4>1, <1>b
      <3> QED
        BY <2>3, <3>1, <3>2 DEF Claim
    <2>4. CASE Join(r) \/ Launch(r) \/ AdmissionFails(r)
      <3>1. To \in {"done", "gone"}
        <4>1. CASE Launch(r)
          BY <1>a, <4>1, ActorsDistinct, FrameFacts DEF Launch, TypeOK, FrameType
        <4> QED
          BY <2>4, <2>g, <4>1 DEF Join, AdmissionFails, RollBack
      <3> QED
        BY <3>1, <1>h DEF Unclaimed, FinalizerPc
    <2>5. CASE Recheck(r) \/ AppendMessages(r) \/ MarkActiveRun(r)
      <3>1. From \in Later
        BY <2>5 DEF Recheck, AppendMessages, MarkActiveRun
      <3>2. To \in {"append", "mark", "launch", "gone"}
        BY <2>5, <2>g DEF Recheck, AppendMessages, MarkActiveRun, RollBack
      <3> QED
        BY <3>1, <3>2, <1>g, <1>h DEF Unclaimed, FinalizerPc
    <2> QED
      BY <1>2, <2>1, <2>2, <2>3, <2>4, <2>5 DEF PrepareStep
  <1>3. CASE FinalizerStep(a) \/ StepFails(a)
    <2>1. From \in FinalizerPc
      BY <1>3 DEF FinalizerStep, Project, Finish, ClearRun, SuspendRun, StepFails, FinalizerPc
    <2>2. To \in {"finish", "raised", "clear", "suspend", "returned"}
      BY <1>3, <1>a, GotoFacts DEF FinalizerStep, Project, Finish, ClearRun, SuspendRun, StepFails
    <2> QED
      BY <2>1, <2>2, <1>f DEF Unclaimed, FinalizerPc
  <1>4. CASE Crash
    <2>1. (From = "new" /\ To = "new") \/ To = "gone"
      BY <1>4, <1>a, ActorsDistinct DEF Crash, At, Frame
    <2> QED
      BY <2>1, <1>f, <1>h DEF Unclaimed, FinalizerPc
  <1> QED
    BY <1>1, <1>2, <1>3, <1>4, WhoMoves

(* The lock keeps to one running turn, and the session row to claimed ones. *)
LEMMA LockStep ==
    ASSUME IInv, [Next]_vars
    PROVE  LockInv'
  <1>0. TypeOK /\ LockInv
    BY DEF IInv
  <1>1. /\ \A m \in Requests : verdict'[m] = "running" => holder' = m
        /\ holder' # None => holder' \in Requests /\ verdict'[holder'] # "none"
    <2>1. CASE UNCHANGED <<holder, verdict>>
      BY <1>0, <2>1 DEF LockInv, Claimed
    <2>2. CASE Rotates
      BY <1>0, <2>2, NoneAssumption DEF Rotates, LockInv, Running, TypeOK
    <2>3. CASE \E r \in Requests : Admits(r)
      BY <1>0, <2>3, NoneAssumption DEF Admits, LockInv, Running, TypeOK
    <2>4. CASE \E m \in Requests : Releases(m)
      BY <1>0, <2>4 DEF Releases, LockInv, Terminal, TypeOK
    <2> QED
      BY <2>1, <2>2, <2>3, <2>4, LockMoves
  <1>2. run.msg # None => run.msg \in Requests /\ verdict'[run.msg] # "none"
    BY <1>0, VerdictsStay DEF LockInv, Claimed
  <1>3. \/ run' = run \/ run'.msg = None \/ run'.msg = run.msg
        \/ \E r \in Requests : run'.msg = r /\ verdict'[r] # "none"
    <2>1. ASSUME NEW r \in Requests, PrepareStep(r) \/ AdmissionFails(r)
          PROVE  run' = run \/ (run'.msg = r /\ verdict'[r] # "none")
      <3>1. CASE MarkActiveRun(r)
        <4>1. verdict[r] # "none"
          BY <3>1 DEF MarkActiveRun, IInv, AdmissionInv, Claimed
        <4> QED
          BY <3>1, <4>1, VerdictsStay DEF MarkActiveRun, Claimed
      <3> QED
        BY <2>1, <3>1 DEF PrepareStep, AdmissionFails, PrepareBegin, Recover, PrepareReturn,
                          Reread, SyncKeep, SyncReplace, SyncFails, Claim, Join, Recheck,
                          AppendMessages, Launch, product
    <2>2. ASSUME NEW r \in Requests, RunnerStep(r) \/ RunnerTrouble(r)
          PROVE  run' = run
      BY <2>2 DEF RunnerStep, RunnerTrouble, Attach, AttachFallback, Send, TerminalArrives,
                  HostGone, RunnerFault, StreamFails, RunnerReturn, product
    <2>3. ASSUME NEW c \in Cancels, CancelStep(c)
          PROVE  run' = run \/ run'.msg = None
      <3>1. CASE CancelOrphanRun(c)
        BY <3>1 DEF CancelOrphanRun, NoRun
      <3>2. CASE CancelAuthorize(c) \/ CancelLookup(c) \/ CancelStop(c) \/ CancelQuiet(c)
        BY <3>2 DEF CancelAuthorize, CancelLookup, CancelStop, CancelQuiet, product
      <3>3. CASE CancelSettle(c) \/ CancelIngest(c) \/ CancelReturn(c) \/ CancelRelease(c)
        BY <3>3 DEF CancelSettle, CancelIngest, CancelReturn, CancelRelease, product
      <3> QED
        BY <2>3, <3>1, <3>2, <3>3 DEF CancelStep
    <2>4. ASSUME NEW s \in Sweeps, SweepStep(s)
          PROVE  run' = run
      BY <2>4 DEF SweepStep, SweepBegin, SweepIngest, SweepReturn, product
    <2>5. ASSUME NEW a \in Actors, FinalizerStep(a) \/ StepFails(a)
          PROVE  run' = run \/ run'.msg = None \/ run'.msg = run.msg
      <3>1. run.msg \in Requests \cup {None} /\ run = [msg |-> run.msg, st |-> run.st]
        BY <1>0 DEF TypeOK
      <3>2. CASE SuspendRun(a)
        BY <3>1, <3>2 DEF SuspendRun
      <3> QED
        BY <2>5, <3>2 DEF FinalizerStep, Project, Finish, ClearRun, StepFails, product, NoRun
    <2>6. CASE KernelEnds \/ SessionLost \/ Crash \/ UNCHANGED vars
      BY <2>6 DEF KernelEnds, SessionLost, Crash, vars, product
    <2> QED
      BY <2>1, <2>2, <2>3, <2>4, <2>5, <2>6 DEF Next
  <1> QED
    BY <1>1, <1>2, <1>3 DEF LockInv, Claimed

(* A runner works on the turn it was launched for and on no other.         *)
LEMMA OwnTurnStep ==
    ASSUME IInv, [Next]_vars, NEW r \in Requests, call'[Runner(r)].pc \in WorkingPc
    PROVE  call'[Runner(r)].msg = r
  <1> DEFINE a == Runner(r)
  <1>a. a \in Actors /\ TypeOK
    BY ActorsKnown DEF IInv
  <1>b. call[a].pc \in WorkingPc => call[a].msg = r
    BY DEF IInv, FrameInv
  <1>1. CASE call'[a] = call[a]
    BY <1>1, <1>b
  <1>2. CASE Launch(r)
    BY <1>2, <1>a, ActorsKnown, ActorsDistinct DEF Launch, At, Frame, TypeOK
  <1>3. CASE RunnerStep(r) \/ RunnerTrouble(r)
    <2>1. CASE \/ TerminalArrives(r) \/ HostGone(r) \/ RunnerFault(r)
      BY <2>1, <1>a, EnterFacts DEF TerminalArrives, HostGone, RunnerFault, StreamFails,
                                    Finalizing, Frame
    <2>2. CASE Attach(r) \/ Send(r) \/ AttachFallback(r)
      <3>1. call[a].pc \in WorkingPc
        BY <2>2 DEF Attach, Send, AttachFallback, WorkingPc
      <3> QED
        BY <2>2, <3>1, <1>a, <1>b, GotoFacts DEF Attach, Send, AttachFallback
    <2>3. CASE RunnerReturn(r)
      <3>1. call[a].pc \in WorkingPc
        BY <2>3 DEF RunnerReturn, WorkingPc
      <3> QED
        BY <2>3, <3>1, <1>a, <1>b, GotoFacts, EnterFacts DEF RunnerReturn, Finalizing, Frame
    <2> QED
      BY <1>3, <2>1, <2>2, <2>3 DEF RunnerStep, RunnerTrouble
  <1>4. CASE FinalizerStep(a) \/ StepFails(a)
    <2>1. call[a].pc \in WorkingPc
      BY <1>4 DEF FinalizerStep, Project, Finish, ClearRun, SuspendRun, StepFails,
                  WorkingPc, FinalizerPc
    <2> QED
      BY <1>4, <2>1, <1>a, <1>b, GotoFacts
         DEF FinalizerStep, Project, Finish, ClearRun, SuspendRun, StepFails
  <1>5. CASE Crash
    BY <1>5, <1>a DEF Crash, At, Frame, WorkingPc, FinalizerPc
  <1>6. CASE call'[a] = Interrupted(r)
    <2>1. CASE call[a].pc \in {"attach", "send", "stream"}
      BY <1>6, <2>1 DEF Interrupted, Finalizing, Frame
    <2>2. CASE call[a].pc \notin {"attach", "send", "stream"}
      <3>1. call'[a].pc = "done"
        BY <1>6, <1>a, <2>2, FrameFacts DEF Interrupted, FrameType
      <3> QED
        BY <3>1 DEF WorkingPc, FinalizerPc
    <2> QED
      BY <2>1, <2>2
  <1> QED
    BY <1>1, <1>2, <1>3, <1>4, <1>5, <1>6, WhoMoves

(* Every handler's frame is as the invariant says after every step.        *)
LEMMA FramesStep ==
    ASSUME IInv, [Next]_vars
    PROVE  FrameInv' /\ CoordinatorInv'
  <1>1. \A a \in Actors : Sound(call'[a], verdict', projected')
    BY SoundStep DEF SoundNext
  <1>2. \A r \in Requests : call'[Runner(r)].pc \in WorkingPc => call'[Runner(r)].msg = r
    BY OwnTurnStep
  <1> QED
    BY <1>1, <1>2 DEF FrameInv, CoordinatorInv, Sound, Claimed

(* The initial states satisfy the inductive invariant.                     *)
LEMMA InitIInv == Init => IInv
  <1> SUFFICES ASSUME Init
               PROVE  IInv
    OBVIOUS
  <1>1. TypeOK
    <2>1. call \in [Actors -> FrameType]
      BY PlainFrames, PcFacts DEF Init
    <2> QED
      BY <2>1 DEF Init, TypeOK, NoRun
  <1>2. \A a \in Actors : call[a].pc = "new" /\ call[a].msg = None
    BY DEF Init, At, Frame
  <1>3. CompletedIsProjected /\ LockInv
    BY DEF Init, CompletedIsProjected, LockInv, NoRun
  <1>4. AdmissionInv
    BY <1>2, ActorsKnown DEF Init, AdmissionInv
  <1>5. FrameInv /\ CoordinatorInv
    BY <1>2, ActorsKnown DEF FrameInv, CoordinatorInv, WorkingPc, FinalizerPc
  <1> QED
    BY <1>1, <1>3, <1>4, <1>5 DEF IInv

(* IInv is inductive: it holds of the initial states and every step, of a  *)
(* request, a runner, a cancel, the sweep, the coordinator, the host or a  *)
(* crash, preserves it.  It is the invariant behind the results below.     *)
THEOREM Inductive == Spec => []IInv
  <1>1. IInv /\ [Next]_vars => IInv'
    BY TypeStep, CompletedStep, AdmissionStep, LockStep, FramesStep DEF IInv
  <1> QED
    BY <1>1, InitIInv, PTL DEF Spec

(* Every variable keeps its type, for any number of requests, cancels and  *)
(* sweeps and any number of failures.                                      *)
THEOREM TypeCorrect == Spec => []TypeOK
  <1>1. IInv => TypeOK
    BY DEF IInv
  <1> QED
    BY <1>1, Inductive, PTL

(* The coordinator's order is never observable the wrong way round: a turn *)
(* the binding records as completed has its answer in the assistant row,   *)
(* whoever finalized it, however often, and whatever crashed meanwhile.    *)
THEOREM AnswerBeforeVerdict == Spec => []CompletedIsProjected
  <1>1. IInv => CompletedIsProjected
    BY DEF IInv
  <1> QED
    BY <1>1, Inductive, PTL

(* At most one turn of the Conversation runs at any time.                  *)
THEOREM OneTurnRuns == Spec => []Lock!AtMostOneRuns
  <1>1. IInv => Lock!AtMostOneRuns
    BY DEF IInv, LockInv, Lock!AtMostOneRuns
  <1> QED
    BY <1>1, Inductive, PTL

(* However many coordinators finalize a turn, the first verdict stands.    *)
THEOREM VerdictStands == Spec => Lock!VerdictIsFinal
  <1>1. IInv /\ [Next]_vars
          => [\A m \in Requests : verdict[m] \in Lock!Terminal
                  => verdict'[m] = verdict[m]]_Lock!claimVars
    BY VerdictsStay DEF Lock!Terminal, Terminal
  <1> QED
    BY <1>1, Inductive, PTL DEF Spec, Lock!VerdictIsFinal

(* The handlers implement the admission lock of TurnClaim: every step maps *)
(* to an admission, a release, a rotation or a stutter.                    *)
THEOREM Refinement == Spec => ImplementsTurnClaim
  <1>1. Init => Lock!ClaimInit
    BY DEF Init, Lock!ClaimInit
  <1>2. ASSUME IInv, [Next]_vars
        PROVE  [Lock!ClaimNext]_Lock!claimVars
    <2>1. ~Running => Lock!Idle
      BY <1>2, NoneAssumption DEF IInv, LockInv, Running, Lock!Idle
    <2>2. CASE UNCHANGED <<holder, verdict>>
      BY <2>2 DEF Lock!claimVars
    <2>3. ASSUME NEW r \in Requests, Admits(r)
          PROVE  Lock!Admit(r)
      <3>1. verdict[r] = "none"
        BY <1>2, <2>3 DEF Admits, IInv, AdmissionInv, Unclaimed
      <3> QED
        BY <2>1, <2>3, <3>1 DEF Admits, Lock!Admit
    <2>4. ASSUME NEW m \in Requests, Releases(m)
          PROVE  Lock!Release(m)
      BY <2>4 DEF Releases, Lock!Release, Lock!Terminal, Terminal
    <2>5. CASE Rotates
      BY <2>1, <2>5 DEF Rotates, Lock!ClaimNext, Lock!Rotate
    <2> QED
      BY <1>2, <2>2, <2>3, <2>4, <2>5, LockMoves DEF Lock!ClaimNext
  <1> QED
    BY <1>1, <1>2, Inductive, PTL DEF Spec, ImplementsTurnClaim, Lock!ClaimSpec

(* Only its own step makes a cancel call answer.                           *)
LEMMA CancelMoves ==
    ASSUME IInv, [Next]_vars, NEW c \in Cancels, CancelAnswers(c)
    PROVE  CancelStep(c)
  <1> DEFINE a == Cancel(c)
  <1>a. a \in Actors /\ TypeOK /\ call'[a] # call[a]
    BY ActorsKnown DEF IInv, CancelAnswers
  <1>1. ASSUME NEW r \in Requests, PrepareStep(r) \/ AdmissionFails(r)
        PROVE  FALSE
    BY <1>a, <1>1, PrepareAlone, ActorsDistinct
  <1>2. ASSUME NEW r \in Requests, RunnerStep(r) \/ RunnerTrouble(r)
        PROVE  FALSE
    BY <1>a, <1>2, RunnerAlone, ActorsDistinct
  <1>3. ASSUME NEW d \in Cancels, CancelStep(d), d # c
        PROVE  FALSE
    BY <1>a, <1>3, CancelAlone, ActorsDistinct
  <1>4. ASSUME NEW s \in Sweeps, SweepStep(s)
        PROVE  FALSE
    BY <1>a, <1>4, SweepAlone, ActorsDistinct
  <1>5. ASSUME NEW b \in Actors, FinalizerStep(b) \/ StepFails(b)
        PROVE  FALSE
    <2>1. b = a
      BY <1>a, <1>5, FinalizerAlone
    <2>2. call'[a].pc \in {"finish", "raised", "clear", "suspend", "returned"}
      BY <1>5, <1>a, <2>1, GotoFacts
         DEF FinalizerStep, Project, Finish, ClearRun, SuspendRun, StepFails
    <2> QED
      BY <2>2 DEF CancelAnswers
  <1>6. CASE Crash
    BY <1>6, <1>a DEF Crash, At, Frame, CancelAnswers
  <1>7. CASE KernelEnds \/ SessionLost \/ UNCHANGED vars
    BY <1>7, <1>a DEF KernelEnds, SessionLost, vars
  <1> QED
    BY <1>1, <1>2, <1>3, <1>4, <1>5, <1>6, <1>7 DEF Next

(* A cancel call that reports success, whichever of its paths it took, has *)
(* seen the turn it found leave the running state, for good.               *)
THEOREM CancelEnds == Spec => CancelEndsClaim
  <1>1. ASSUME IInv, [Next]_vars, NEW c \in Cancels, CancelAnswers(c)
        PROVE  verdict'[call[Cancel(c)].msg] \in Terminal
    <2> DEFINE a == Cancel(c)
               m == call[a].msg
    <2>a. a \in Actors /\ TypeOK /\ m \in Requests
      BY <1>1, ActorsKnown, FrameFacts DEF IInv, CancelAnswers
    <2>b. verdict[m] \in Terminal => verdict'[m] \in Terminal
      BY <1>1, <2>a, VerdictsStay
    <2>c. CancelStep(c)
      BY <1>1, CancelMoves
    <2>g. ASSUME NEW pc, Goto(a, pc)
          PROVE  pc = "done"
      BY <1>1, <2>a, <2>g, GotoFacts DEF CancelAnswers
    <2>e. ASSUME NEW f, Enter(a, f)
          PROVE  f.pc = "done"
      BY <1>1, <2>a, <2>e, EnterFacts DEF CancelAnswers
    <2>1. CASE CancelAuthorize(c) \/ CancelLookup(c)
      <3>1. CASE Enter(a, At("lookup", run.msg)) \/ Enter(a, At("stop", holder))
        BY <3>1, <2>e DEF At, Frame
      <3>2. CASE Enter(a, Finalizing("finish", holder, verdict[holder], FALSE, "repair"))
        BY <3>2, <2>e DEF Finalizing, Frame
      <3>3. CASE Goto(a, "gone") \/ Goto(a, "orphan")
        BY <3>3, <2>g
      <3>4. m # None
        BY <1>1 DEF CancelAnswers
      <3> QED
        BY <2>1, <3>1, <3>2, <3>3, <3>4 DEF CancelAuthorize, CancelLookup
    <2>5. CASE CancelStop(c) \/ CancelQuiet(c) \/ CancelSettle(c)
      BY <2>5, <2>g DEF CancelStop, CancelQuiet, CancelSettle
    <2>6. CASE CancelIngest(c)
      <3>1. ASSUME NEW why, IngestOnce(a, m, why)
            PROVE  FALSE
        <4>1. \/ Enter(a, Frame("raised", m, "none", FALSE, why))
              \/ Enter(a, Frame("returned", m, "none", FALSE, why))
              \/ FinalizeFromLog(a, m, log'[m], why)
          BY <3>1, <2>a, IngestEnters
        <4> QED
          BY <4>1, <2>e DEF FinalizeFromLog, Finalizing, Frame
      <3>2. CASE Goto(a, "gone")
        BY <3>2, <2>g
      <3> QED
        BY <2>6, <3>1, <3>2 DEF CancelIngest
    <2>2. CASE CancelOrphanRun(c)
      BY <1>1, <2>2, <2>a, <2>b DEF CancelOrphanRun, IInv, CoordinatorInv
    <2>3. CASE CancelReturn(c)
      <3>1. CASE call[a].pc = "returned" /\ call[a].why \in {"repair", "release"}
        BY <1>1, <3>1, <2>a, <2>b DEF IInv, CoordinatorInv
      <3>2. CASE Goto(a, "release") \/ Goto(a, "gone")
        BY <3>2, <2>g
      <3>3. CASE call' = [call EXCEPT ![a].pc = "gather",
                                      ![Runner(m)] = IF RunnerLive(m) THEN Interrupted(m) ELSE @]
        <4>1. call'[a].pc = "gather"
          <5>1. a # Runner(m) /\ call \in [Actors -> FrameType]
            BY <2>a, ActorsDistinct DEF TypeOK
          <5> QED
            BY <3>3, <2>a, <5>1 DEF FrameType
        <4> QED
          BY <1>1, <4>1 DEF CancelAnswers
      <3> QED
        BY <2>3, <3>1, <3>2, <3>3 DEF CancelReturn
    <2>4. CASE CancelRelease(c)
      <3>1. CASE Enter(a, Finalizing("finish", m, "cancelled", FALSE, "release"))
        BY <3>1, <2>e DEF Finalizing, Frame
      <3>2. CASE holder # m \/ ~Running
        <4>1. verdict[m] # "none" /\ verdict[m] # "running"
          <5>1. call[a].pc \in WorkingPc
            BY <2>4 DEF CancelRelease, WorkingPc
          <5>2. verdict[m] # "none"
            BY <1>1, <2>a, <5>1 DEF IInv, FrameInv, Claimed
          <5>3. verdict[m] # "running"
            BY <1>1, <2>a, <3>2, NoneAssumption DEF IInv, LockInv, Running
          <5> QED
            BY <5>2, <5>3
        <4> QED
          BY <2>a, <2>b, <4>1 DEF TypeOK
      <3> QED
        BY <2>4, <3>1, <3>2 DEF CancelRelease
    <2> QED
      BY <2>c, <2>1, <2>2, <2>3, <2>4, <2>5, <2>6 DEF CancelStep
  <1>2. IInv /\ [Next]_vars
          => [\A c \in Cancels : CancelAnswers(c)
                  => verdict'[call[Cancel(c)].msg] \in Terminal]_vars
    BY <1>1
  <1> QED
    BY <1>2, Inductive, PTL DEF Spec, CancelEndsClaim

------------------------------------------------------------------------------
(* What a step does to the parts of the state the conditional properties   *)
(* are about.                                                              *)

(* Only one handler's progress and reading of the binding change.          *)
Alone(a) == \A b \in Actors : b # a => call'[b] = call[b] /\ seen'[b] = seen[b]

(* Binding, session and stored positions are left alone.                   *)
Still == UNCHANGED <<holder, verdict, gen, cursor, stored, session, queue, journal>>
KeepsProduct == UNCHANGED <<run, rows>>

Admitting == {"recheck", "append", "mark", "launch"}
OnHost == {"attach", "send", "stream"}

(* A request reads the binding and repairs, recovers or goes on.           *)
Begins(r) ==
    /\ Alone(Prepare(r)) /\ Still /\ KeepsProduct /\ UNCHANGED <<log, durable, budget>>
    /\ seen'[Prepare(r)] = Row
    /\ call[Prepare(r)].pc = "new"
    /\ \/ call'[Prepare(r)].pc = "sync"
       \/ /\ Running
          /\ call'[Prepare(r)] = At("recover", holder)
       \/ /\ holder # None /\ ~Running
          /\ call'[Prepare(r)] = Finalizing("finish", holder, verdict[holder], FALSE, "repair")

(* What beginning a request does: it reads the row, and goes on to repair, *)
(* recovery or the session.                                                *)
LEMMA BeginFacts ==
    ASSUME TypeOK, NEW r \in Requests, PrepareBegin(r)
    PROVE  Begins(r)
  <1>a. Prepare(r) \in Actors
    BY ActorsKnown
  <1>1. \A b \in Actors : b # Prepare(r) => call'[b] = call[b]
    BY <1>a, GotoFacts, EnterFacts DEF PrepareBegin
  <1>2. \/ call'[Prepare(r)].pc = "sync"
        \/ /\ Running
           /\ call'[Prepare(r)] = At("recover", holder)
        \/ /\ holder # None /\ ~Running
           /\ call'[Prepare(r)] = Finalizing("finish", holder, verdict[holder], FALSE, "repair")
    BY <1>a, GotoFacts, EnterFacts DEF PrepareBegin
  <1> QED
    BY <1>a, <1>1, <1>2 DEF Begins, PrepareBegin, Read, TypeOK, Alone, Still, KeepsProduct, claim, events,
                            product, host

(* recover believes the log, leaves a turn alone whose session is there,   *)
(* and writes a failure over one whose session is not.                     *)
Recovers(r) ==
    /\ call[Prepare(r)].msg \in Requests
    /\ Alone(Prepare(r)) /\ Still /\ KeepsProduct /\ UNCHANGED <<seen, budget>>
    /\ call[Prepare(r)].pc = "recover"
    /\ \/ /\ log[call[Prepare(r)].msg] # "none"
          /\ UNCHANGED <<log, durable>>
          /\ call'[Prepare(r)] = Finalizing("project", call[Prepare(r)].msg,
                   log[call[Prepare(r)].msg],
                   Keeps(call[Prepare(r)].msg, log[call[Prepare(r)].msg]), "recover")
       \/ call'[Prepare(r)].pc = "reread" /\ UNCHANGED <<log, durable>>
       \/ /\ log[call[Prepare(r)].msg] = "none" /\ ~Reachable(Prepare(r))
          /\ call'[Prepare(r)] = Finalizing("project", call[Prepare(r)].msg, "failed", FALSE, "recover")
          /\ \/ UNCHANGED <<log, durable>>
             \/ PersistFailure(call[Prepare(r)].msg)

(* What recovering a turn does to the log, and which status it decides on. *)
LEMMA RecoverFacts ==
    ASSUME TypeOK, NEW r \in Requests, Recover(r), call[Prepare(r)].msg \in Requests
    PROVE  Recovers(r)
  <1> DEFINE a == Prepare(r)
             m == call[Prepare(r)].msg
  <1>a. a \in Actors
    BY ActorsKnown
  <1>1. \A b \in Actors : b # a => call'[b] = call[b]
    BY <1>a, GotoFacts, EnterFacts DEF Recover, FinalizeFromLog, FinalizeOrphan
  <1>2. CASE log[m] # "none" /\ FinalizeFromLog(a, m, log[m], "recover") /\ UNCHANGED events
    <2>1. call'[a] = Finalizing("project", m, log[m], Keeps(m, log[m]), "recover")
      BY <1>a, <1>2, EnterFacts DEF FinalizeFromLog
    <2>2. /\ call[a].pc = "recover" /\ Alone(a) /\ Still /\ KeepsProduct
          /\ UNCHANGED <<seen, budget, log, durable>>
      BY <1>1, <1>2 DEF Recover, Alone, Still, KeepsProduct, claim, events, product, host
    <2> QED
      BY <1>2, <2>1, <2>2, Zenon DEF Recovers
  <1>3. CASE Goto(a, "reread") /\ UNCHANGED events
    <2>1. call'[a].pc = "reread"
      BY <1>a, <1>3, GotoFacts
    <2>2. /\ call[a].pc = "recover" /\ Alone(a) /\ Still /\ KeepsProduct
          /\ UNCHANGED <<seen, budget, log, durable>>
      BY <1>1, <1>3 DEF Recover, Alone, Still, KeepsProduct, claim, events, product, host
    <2> QED
      BY <2>1, <2>2, Zenon DEF Recovers
  <1>4. CASE log[m] = "none" /\ ~Reachable(a) /\ FinalizeOrphan(a, m, "recover")
    <2>1. call'[a] = Finalizing("project", m, "failed", FALSE, "recover")
      BY <1>a, <1>4, EnterFacts DEF FinalizeOrphan
    <2>2. stored' = stored /\ (UNCHANGED <<log, durable>> \/ PersistFailure(m))
      BY <1>4 DEF FinalizeOrphan, events, PersistFailure
    <2> QED
      BY <1>a, <1>1, <1>4, <2>1, <2>2 DEF Recovers, Recover, Alone, Still, KeepsProduct, claim, product, host
  <1> QED
    BY <1>2, <1>3, <1>4 DEF Recovers, Recover

(* The steps of a request that touch nothing but its own progress.         *)
PassPc == {"returned", "raised", "reread", "sync", "claim", "join", "done", "gone"}
Passes(r) ==
    /\ Alone(Prepare(r)) /\ Still /\ KeepsProduct /\ UNCHANGED <<log, durable, budget>>
    /\ call[Prepare(r)].pc \in PassPc
    /\ call'[Prepare(r)].pc \in PassPc
    /\ call'[Prepare(r)].pc \in {"returned", "raised"} => call'[Prepare(r)].pc = call[Prepare(r)].pc
    /\ call[Prepare(r)].pc \in {"done", "gone"} => call'[Prepare(r)].pc = call[Prepare(r)].pc
    /\ \/ seen'[Prepare(r)] = seen[Prepare(r)]
       \/ seen'[Prepare(r)] = Row

(* The steps of a request that pass: waiting, joining, reading again, a    *)
(* claim that is lost.                                                     *)
LEMMA PassFacts ==
    ASSUME TypeOK, NEW r \in Requests,
           \/ PrepareReturn(r) \/ Reread(r) \/ SyncKeep(r) \/ SyncFails(r) \/ Join(r)
           \/ Claim(r) /\ (seen[Prepare(r)].gen # gen \/ Running)
    PROVE  Passes(r)
  <1>a. Prepare(r) \in Actors
    BY ActorsKnown
  <1>b. seen \in [Actors -> [gen : Nat, at : Nat]]
    BY DEF TypeOK
  <1>1. CASE PrepareReturn(r) \/ SyncKeep(r) \/ SyncFails(r) \/ Join(r)
    <2>1. seen' = seen
      BY <1>1 DEF PrepareReturn, SyncKeep, SyncFails, Join
    <2>2. call'[Prepare(r)].pc \in {"sync", "reread", "gone", "claim", "done"}
      BY <1>1, <1>a, GotoFacts DEF PrepareReturn, SyncKeep, SyncFails, Join
    <2>3. call[Prepare(r)].pc \in {"returned", "raised", "sync", "join"}
      BY <1>1 DEF PrepareReturn, SyncKeep, SyncFails, Join
    <2>4. \A b \in Actors : b # Prepare(r) => call'[b] = call[b]
      BY <1>1, <1>a, GotoFacts DEF PrepareReturn, SyncKeep, SyncFails, Join
    <2> QED
      BY <1>1, <2>1, <2>2, <2>3, <2>4
         DEF PrepareReturn, SyncKeep, SyncFails, Join, Alone, Still, KeepsProduct, claim, events,
             product, host, Passes, PassPc
  <1>2. CASE Reread(r)
    <2>1. seen'[Prepare(r)] = Row /\ \A b \in Actors : b # Prepare(r) => seen'[b] = seen[b]
      BY <1>2, <1>a, <1>b DEF Reread, Read
    <2>2. call'[Prepare(r)].pc \in {"gone", "sync"} /\ call[Prepare(r)].pc = "reread"
      BY <1>2, <1>a, GotoFacts DEF Reread
    <2>3. \A b \in Actors : b # Prepare(r) => call'[b] = call[b]
      BY <1>2, <1>a, GotoFacts DEF Reread
    <2> QED
      BY <1>2, <2>1, <2>2, <2>3
         DEF Reread, Alone, Still, KeepsProduct, claim, events, product, host, Passes, PassPc
  <1>3. CASE Claim(r) /\ (seen[Prepare(r)].gen # gen \/ Running)
    <2>1. Goto(Prepare(r), "join") /\ UNCHANGED <<holder, verdict, seen>>
      BY <1>3 DEF Claim
    <2>2. call'[Prepare(r)].pc = "join" /\ call[Prepare(r)].pc = "claim"
      BY <1>3, <2>1, <1>a, GotoFacts DEF Claim
    <2>3. \A b \in Actors : b # Prepare(r) => call'[b] = call[b]
      BY <2>1, <1>a, GotoFacts
    <2> QED
      BY <1>3, <2>1, <2>2, <2>3
         DEF Claim, Alone, Still, KeepsProduct, claim, events, product, host, Passes, PassPc
  <1> QED
    BY <1>1, <1>2, <1>3

(* Between the claim and the launch a request moves on by itself.          *)
Advances(r) ==
    /\ Alone(Prepare(r)) /\ Still /\ UNCHANGED <<seen, log, durable, budget>>
    /\ \/ /\ call[Prepare(r)].pc = "recheck" /\ call'[Prepare(r)].pc = "append"
          /\ KeepsProduct
       \/ /\ call[Prepare(r)].pc = "append" /\ call'[Prepare(r)].pc = "mark"
          /\ run' = run /\ rows' = rows \cup {r}
       \/ /\ call[Prepare(r)].pc = "mark" /\ call'[Prepare(r)].pc = "launch"
          /\ run' = [msg |-> r, st |-> "running"] /\ rows' = rows

(* An admission that goes well moves one place, and stores its message     *)
(* row, then its run.                                                      *)
LEMMA AdmitFacts ==
    ASSUME TypeOK, NEW r \in Requests,
           (Recheck(r) /\ ~RollBack(r)) \/ AppendMessages(r) \/ MarkActiveRun(r)
    PROVE  Advances(r)
  <1>a. Prepare(r) \in Actors
    BY ActorsKnown
  <1>1. CASE Recheck(r) /\ ~RollBack(r)
    BY <1>1, <1>a, GotoFacts DEF Advances, Recheck, Alone, Still, KeepsProduct, events, product, host
  <1>2. CASE AppendMessages(r)
    BY <1>2, <1>a, GotoFacts DEF Advances, AppendMessages, Alone, Still, claim, events, host
  <1>3. CASE MarkActiveRun(r)
    BY <1>3, <1>a, GotoFacts DEF Advances, MarkActiveRun, Alone, Still, claim, events, host
  <1> QED
    BY <1>1, <1>2, <1>3 DEF Advances

(* The runner starts on the binding row as its request claimed it.         *)
Launches(r) ==
    /\ \A b \in Actors : b # Prepare(r) /\ b # Runner(r)
           => call'[b] = call[b] /\ seen'[b] = seen[b]
    /\ Still /\ KeepsProduct /\ UNCHANGED <<log, durable, budget>>
    /\ call[Prepare(r)].pc = "launch" /\ call'[Prepare(r)].pc = "done"
    /\ call'[Runner(r)] = At("attach", r)
    /\ seen'[Prepare(r)] = seen[Prepare(r)] /\ seen'[Runner(r)] = seen[Prepare(r)]

(* A launch starts the runner on what its request has read.                *)
LEMMA LaunchFacts ==
    ASSUME TypeOK, NEW r \in Requests, Launch(r)
    PROVE  Launches(r)
  <1>a. Prepare(r) \in Actors /\ Runner(r) \in Actors /\ Prepare(r) # Runner(r)
    BY ActorsKnown, ActorsDistinct
  <1>1. call'[Prepare(r)].pc = "done" /\ call'[Runner(r)] = At("attach", r)
    BY <1>a DEF Launch, TypeOK, FrameType
  <1>2. \A b \in Actors : b # Prepare(r) /\ b # Runner(r) => call'[b] = call[b] /\ seen'[b] = seen[b]
    BY <1>a DEF Launch, TypeOK
  <1>3. seen'[Prepare(r)] = seen[Prepare(r)] /\ seen'[Runner(r)] = seen[Prepare(r)]
    BY <1>a DEF Launch, TypeOK
  <1> QED
    BY <1>1, <1>2, <1>3 DEF Launches, Launch, Still, KeepsProduct, claim, events, product, host

(* A failed admission gives its own claim back.                            *)
RollsBack(r) ==
    /\ Alone(Prepare(r)) /\ KeepsProduct
    /\ UNCHANGED <<holder, gen, cursor, stored, session, queue, journal, seen, log, durable, losses, crashes>>
    /\ call[Prepare(r)].pc \in {"recheck", "append", "mark"}
    /\ call'[Prepare(r)].pc = "gone"
    /\ \A m \in Requests : m # r => verdict'[m] = verdict[m]
    /\ \/ verdict'[r] = verdict[r] /\ ~(holder = r /\ verdict[r] = "running")
       \/ holder = r /\ verdict[r] = "running" /\ verdict'[r] = "failed"

(* An admission that fails ends a running claim of its own and no other.   *)
LEMMA RollBackFacts ==
    ASSUME TypeOK, NEW r \in Requests, (Recheck(r) /\ RollBack(r)) \/ AdmissionFails(r)
    PROVE  RollsBack(r) /\ (faults' = faults \/ faults' = faults + 1)
  <1>a. Prepare(r) \in Actors
    BY ActorsKnown
  <1>1. RollBack(r) /\ Goto(Prepare(r), "gone")
    BY DEF AdmissionFails, RollBack
  <1>2. call'[Prepare(r)].pc = "gone" /\ \A b \in Actors : b # Prepare(r) => call'[b] = call[b]
    BY <1>1, <1>a, GotoFacts
  <1>3. /\ \A m \in Requests : m # r => verdict'[m] = verdict[m]
        /\ \/ verdict'[r] = verdict[r] /\ ~(holder = r /\ verdict[r] = "running")
           \/ holder = r /\ verdict[r] = "running" /\ verdict'[r] = "failed"
    BY <1>1 DEF RollBack, TypeOK
  <1> QED
    BY <1>2, <1>3 DEF Recheck, AdmissionFails, Alone, KeepsProduct, events, product, host, budget, RollsBack

(* A rotation starts a new session under a row nobody has read yet.        *)
Replaces(r) ==
    /\ Alone(Prepare(r)) /\ KeepsProduct /\ UNCHANGED <<verdict, log, durable, budget>>
    /\ call[Prepare(r)].pc = "sync" /\ call'[Prepare(r)].pc = "claim"
    /\ ~Running /\ gen' = gen + 1 /\ cursor' = 0 /\ holder' = None
    /\ session' = TRUE /\ queue' = <<>> /\ journal' = <<>> /\ stored' = {}
    /\ seen'[Prepare(r)] = [gen |-> gen + 1, at |-> 0]

(* Rotating the session empties host and positions and moves the           *)
(* generation.                                                             *)
LEMMA ReplaceFacts ==
    ASSUME TypeOK, NEW r \in Requests, SyncReplace(r)
    PROVE  Replaces(r)
  <1>a. Prepare(r) \in Actors
    BY ActorsKnown
  <1>1. call'[Prepare(r)].pc = "claim" /\ \A b \in Actors : b # Prepare(r) => call'[b] = call[b]
    BY <1>a, GotoFacts DEF SyncReplace
  <1>2. /\ seen'[Prepare(r)] = [gen |-> gen + 1, at |-> 0]
        /\ \A b \in Actors : b # Prepare(r) => seen'[b] = seen[b]
    BY <1>a DEF SyncReplace, TypeOK
  <1> QED
    BY <1>1, <1>2 DEF Replaces, SyncReplace, Alone, KeepsProduct, product

(* A claim that succeeds finds the binding idle and keeps what it read.    *)
Wins(r) ==
    /\ Alone(Prepare(r)) /\ KeepsProduct
    /\ UNCHANGED <<gen, cursor, stored, session, queue, journal, log, durable, budget>>
    /\ call[Prepare(r)].pc = "claim" /\ call'[Prepare(r)].pc = "recheck"
    /\ ~Running /\ holder' = r /\ verdict'[r] = "running"
    /\ \A m \in Requests : m # r => verdict'[m] = verdict[m]
    /\ seen'[Prepare(r)] = Row

(* A claim either wins an idle binding or passes.                          *)
LEMMA ClaimFacts ==
    ASSUME TypeOK, NEW r \in Requests, Claim(r)
    PROVE  Wins(r) \/ Passes(r)
  <1>a. Prepare(r) \in Actors
    BY ActorsKnown
  <1>1. CASE seen[Prepare(r)].gen # gen \/ Running
    BY <1>1, PassFacts
  <1>2. CASE /\ ~Running
             /\ holder' = r
             /\ verdict' = [verdict EXCEPT ![r] = "running"]
             /\ Read(Prepare(r))
             /\ Goto(Prepare(r), "recheck")
    <2>1. call'[Prepare(r)].pc = "recheck" /\ \A b \in Actors : b # Prepare(r) => call'[b] = call[b]
      BY <1>2, <1>a, GotoFacts
    <2>2. seen'[Prepare(r)] = Row /\ \A b \in Actors : b # Prepare(r) => seen'[b] = seen[b]
      BY <1>2, <1>a DEF Read, TypeOK
    <2>3. verdict'[r] = "running" /\ \A m \in Requests : m # r => verdict'[m] = verdict[m]
      BY <1>2 DEF TypeOK
    <2> QED
      BY <1>2, <2>1, <2>2, <2>3 DEF Claim, Alone, KeepsProduct, events, product, host, Wins
  <1> QED
    BY <1>1, <1>2 DEF Claim

(* A runner attaches at the head of the journal, or where its row stood.   *)
Attaches(r) ==
    /\ Alone(Runner(r)) /\ Still /\ KeepsProduct /\ UNCHANGED <<log, durable, losses, crashes>>
    /\ call[Runner(r)].pc = "attach" /\ call'[Runner(r)].pc = "send"
    /\ seen'[Runner(r)].gen = seen[Runner(r)].gen
    /\ \/ Reachable(Runner(r)) /\ faults' = faults /\ seen'[Runner(r)].at = End
       \/ faults' = faults + 1 /\ seen'[Runner(r)] = seen[Runner(r)]

(* Attaching finds the end of the journal; falling back costs a fault and  *)
(* keeps the row's position.                                               *)
LEMMA AttachFacts ==
    ASSUME TypeOK, NEW r \in Requests, Attach(r) \/ AttachFallback(r)
    PROVE  Attaches(r)
  <1>a. Runner(r) \in Actors
    BY ActorsKnown
  <1>1. call'[Runner(r)].pc = "send" /\ \A b \in Actors : b # Runner(r) => call'[b] = call[b]
    BY <1>a, GotoFacts DEF Attach, AttachFallback
  <1>2. CASE Attach(r)
    <2>1. /\ seen'[Runner(r)].at = End /\ seen'[Runner(r)].gen = seen[Runner(r)].gen
          /\ \A b \in Actors : b # Runner(r) => seen'[b] = seen[b]
      BY <1>2, <1>a DEF Attach, TypeOK
    <2> QED
      BY <1>1, <1>2, <2>1 DEF Attaches, Attach, Alone, Still, KeepsProduct, claim, events, product, host, budget
  <1>3. CASE AttachFallback(r)
    BY <1>1, <1>3 DEF Attaches, AttachFallback, Alone, Still, KeepsProduct, claim, events, product, host
  <1> QED
    BY <1>2, <1>3 DEF Attaches

(* The turn is sent to the agent of the session.                           *)
Sends(r) ==
    /\ Alone(Runner(r)) /\ KeepsProduct
    /\ UNCHANGED <<holder, verdict, gen, cursor, stored, session, journal, seen, log, durable, budget>>
    /\ call[Runner(r)].pc = "send" /\ call'[Runner(r)].pc = "stream"
    /\ Reachable(Runner(r)) /\ queue' = Append(queue, r)

(* Sending puts the turn in the queue of a reachable agent.                *)
LEMMA SendFacts ==
    ASSUME TypeOK, NEW r \in Requests, Send(r)
    PROVE  Sends(r)
  <1>a. Runner(r) \in Actors
    BY ActorsKnown
  <1>1. call'[Runner(r)].pc = "stream" /\ \A b \in Actors : b # Runner(r) => call'[b] = call[b]
    BY <1>a, GotoFacts DEF Send
  <1> QED
    BY <1>1 DEF Sends, Send, Alone, KeepsProduct, claim, events, product

(* The first terminal event past the cursor is stored for the turn.        *)
Arrives(r, p) ==
    /\ p = seen[Runner(r)].at + 1
    /\ Alone(Runner(r)) /\ KeepsProduct
    /\ UNCHANGED <<holder, verdict, gen, session, queue, journal, seen, budget>>
    /\ call[Runner(r)].pc = "stream" /\ Reachable(Runner(r))
    /\ p \in 1..End /\ journal[p].st \in Terminal /\ journal[p].turn \in Requests
    /\ PersistNative(r, {p}) /\ cursor' = Larger(cursor, p)
    /\ call'[Runner(r)] = Finalizing("project", r, journal[p].st, Keeps(r, journal[p].st), "turn")

(* A terminal event that arrives is stored for the runner's own turn and   *)
(* takes it to the coordinator.                                            *)
LEMMA ArrivesFacts ==
    ASSUME TypeOK, NEW r \in Requests, NEW p, p = seen[Runner(r)].at + 1, TerminalArrives(r)
    PROVE  Arrives(r, p)
  <1>a. Runner(r) \in Actors
    BY ActorsKnown
  <1>1. seen[Runner(r)].at \in Nat /\ Len(journal) \in Nat
    BY <1>a, JournalType DEF TypeOK
  <1>2. p \in 1..End /\ PersistNative(r, {p}) /\ cursor' = Larger(cursor, p)
    BY <1>1 DEF TerminalArrives, End
  <1>3. journal[p].st \in Terminal /\ journal[p].turn \in Requests
    BY <1>2, JournalType DEF End
  <1>4. Enter(Runner(r), Finalizing("project", r, journal[p].st, Keeps(r, journal[p].st), "turn"))
    BY DEF TerminalArrives
  <1>5. /\ call'[Runner(r)] = Finalizing("project", r, journal[p].st, Keeps(r, journal[p].st), "turn")
        /\ \A b \in Actors : b # Runner(r) => call'[b] = call[b]
    BY <1>a, <1>4, EnterFacts
  <1> QED
    BY <1>2, <1>3, <1>5 DEF Arrives, TerminalArrives, Alone, KeepsProduct, product, host

(* A stream that breaks leaves at most a failure row.                      *)
Breaks(r) ==
    /\ Alone(Runner(r)) /\ Still /\ KeepsProduct /\ UNCHANGED <<seen, losses, crashes>>
    /\ call[Runner(r)].pc \in OnHost
    /\ call'[Runner(r)] = Finalizing("project", r, "failed", FALSE, "turn")
    /\ UNCHANGED <<log, durable>> \/ PersistFailure(r)
    /\ \/ faults' = faults /\ ~Reachable(Runner(r))
       \/ faults' = faults + 1

(* A host that is gone or a fault takes the runner to the coordinator with *)
(* a failure.                                                              *)
LEMMA StreamFacts ==
    ASSUME TypeOK, NEW r \in Requests, HostGone(r) \/ RunnerFault(r)
    PROVE  Breaks(r)
  <1>a. Runner(r) \in Actors
    BY ActorsKnown
  <1>1. StreamFails(r) /\ Enter(Runner(r), Finalizing("project", r, "failed", FALSE, "turn"))
    BY DEF HostGone, RunnerFault, StreamFails
  <1>2. /\ call'[Runner(r)] = Finalizing("project", r, "failed", FALSE, "turn")
        /\ \A b \in Actors : b # Runner(r) => call'[b] = call[b]
    BY <1>a, <1>1, EnterFacts
  <1>3. stored' = stored /\ (UNCHANGED <<log, durable>> \/ PersistFailure(r))
    BY <1>1 DEF StreamFails, PersistFailure, events
  <1> QED
    BY <1>1, <1>2, <1>3 DEF Breaks, HostGone, RunnerFault, StreamFails, Alone, Still, KeepsProduct,
                            claim, product, host, OnHost

(* Back from the coordinator a runner is done, or tries once more to fail. *)
Returns(r) ==
    /\ Alone(Runner(r)) /\ Still /\ KeepsProduct /\ UNCHANGED <<seen, log, durable, budget>>
    /\ \/ /\ call[Runner(r)].pc = "raised"
          /\ call'[Runner(r)] = Finalizing("finish", r, "failed", FALSE, "failure")
       \/ /\ call[Runner(r)].pc \in {"returned", "raised"}
          /\ call'[Runner(r)].pc = "done"

(* A runner returns once, after at most one more attempt to fail its turn. *)
LEMMA ReturnFacts ==
    ASSUME TypeOK, NEW r \in Requests, RunnerReturn(r)
    PROVE  Returns(r)
  <1>a. Runner(r) \in Actors
    BY ActorsKnown
  <1>1. \A b \in Actors : b # Runner(r) => call'[b] = call[b]
    BY <1>a, GotoFacts, EnterFacts DEF RunnerReturn
  <1>2. \/ /\ call[Runner(r)].pc = "raised"
           /\ call'[Runner(r)] = Finalizing("finish", r, "failed", FALSE, "failure")
        \/ /\ call[Runner(r)].pc \in {"returned", "raised"}
           /\ call'[Runner(r)].pc = "done"
    BY <1>a, GotoFacts, EnterFacts DEF RunnerReturn
  <1> QED
    BY <1>1, <1>2 DEF Returns, RunnerReturn, Alone, Still, KeepsProduct, claim, events, product, host

(* The sweep reads a running claim.                                        *)
Looks(s) ==
    /\ Alone(Sweep(s)) /\ Still /\ KeepsProduct /\ UNCHANGED <<log, durable, budget>>
    /\ call[Sweep(s)].pc = "new" /\ Running
    /\ call'[Sweep(s)] = At("ingest", holder) /\ seen'[Sweep(s)] = Row

(* A round of the sweep starts on the running claim and on the row as it   *)
(* stands.                                                                 *)
LEMMA SweepBeginFacts ==
    ASSUME TypeOK, NEW s \in Sweeps, SweepBegin(s)
    PROVE  Looks(s)
  <1>a. Sweep(s) \in Actors
    BY ActorsKnown
  <1>1. call'[Sweep(s)] = At("ingest", holder) /\ \A b \in Actors : b # Sweep(s) => call'[b] = call[b]
    BY <1>a, EnterFacts DEF SweepBegin
  <1>2. seen'[Sweep(s)] = Row /\ \A b \in Actors : b # Sweep(s) => seen'[b] = seen[b]
    BY <1>a DEF SweepBegin, Read, TypeOK
  <1> QED
    BY <1>1, <1>2 DEF Looks, SweepBegin, Alone, Still, KeepsProduct, claim, events, product, host

(* A finished round of the sweep.                                          *)
Rests(s) ==
    /\ Alone(Sweep(s)) /\ Still /\ KeepsProduct /\ UNCHANGED <<seen, log, durable, budget>>
    /\ call[Sweep(s)].pc \in {"returned", "raised"} /\ call'[Sweep(s)].pc = "new"

(* A round of the sweep that is over leaves everything but its own place   *)
(* alone.                                                                  *)
LEMMA SweepReturnFacts ==
    ASSUME TypeOK, NEW s \in Sweeps, SweepReturn(s)
    PROVE  Rests(s)
  <1>a. Sweep(s) \in Actors
    BY ActorsKnown
  <1>1. call'[Sweep(s)] = At("new", None) /\ \A b \in Actors : b # Sweep(s) => call'[b] = call[b]
    BY <1>a, EnterFacts DEF SweepReturn
  <1> QED
    BY <1>1 DEF Rests, SweepReturn, At, Frame, Alone, Still, KeepsProduct, claim, events, product, host

(* The sweep ingests, or fails the turn whose session is missing.          *)
Ingests(a, m, new) ==
    /\ new = (seen[a].at + 1)..End
    /\ Reachable(a) /\ UNCHANGED <<holder, verdict, gen, session, queue, journal>>
    /\ PersistNative(m, new)
    /\ cursor' = IF new = {} THEN cursor ELSE Larger(cursor, End)
    /\ log' \in [Requests -> Terminal \cup {"none"}]
    /\ \/ log'[m] = "none" /\ call'[a].pc = "returned"
       \/ log'[m] # "none" /\ call'[a] = Finalizing("project", m, log'[m], Keeps(m, log'[m]), "ingest")
Stores(s, m, new) ==
    /\ m = call[Sweep(s)].msg
    /\ Alone(Sweep(s)) /\ KeepsProduct /\ UNCHANGED <<seen, budget>>
    /\ call[Sweep(s)].pc = "ingest"
    /\ \/ Ingests(Sweep(s), m, new)
       \/ Still /\ UNCHANGED <<log, durable>> /\ call'[Sweep(s)].pc = "raised"
       \/ /\ Still /\ ~Reachable(Sweep(s))
          /\ UNCHANGED <<log, durable>> \/ PersistFailure(m)
          /\ call'[Sweep(s)] = Finalizing("project", m, "failed", FALSE, "ingest")

(* What ingesting does in the sweep: it stores what lies past the position *)
(* it read, fails, or writes a failure.                                    *)
LEMMA SweepIngestFacts ==
    ASSUME TypeOK, NEW s \in Sweeps, SweepIngest(s), NEW m \in Requests, m = call[Sweep(s)].msg,
           NEW new, new = (seen[Sweep(s)].at + 1)..End
    PROVE  Stores(s, m, new)
  <1> DEFINE a == Sweep(s)
  <1>a. a \in Actors
    BY ActorsKnown
  <1>b. \A b \in Actors : b # a => call'[b] = call[b]
    BY <1>a, SweepAlone DEF SweepStep
  <1>c. /\ Alone(a) /\ KeepsProduct /\ UNCHANGED <<seen, budget>> /\ call[a].pc = "ingest"
        /\ UNCHANGED <<holder, verdict, gen, session, queue, journal>>
    BY <1>b DEF SweepIngest, Alone, KeepsProduct, product, host
  <1>1. CASE ~Reachable(a) /\ FinalizeOrphan(a, m, "ingest") /\ UNCHANGED cursor
    <2>1. call'[a] = Finalizing("project", m, "failed", FALSE, "ingest")
      BY <1>a, <1>1, EnterFacts DEF FinalizeOrphan
    <2>2. stored' = stored /\ (UNCHANGED <<log, durable>> \/ PersistFailure(m))
      BY <1>1 DEF FinalizeOrphan, events, PersistFailure
    <2> QED
      BY <1>1, <1>c, <2>1, <2>2 DEF Stores, Still
  <1>2. CASE Enter(a, Frame("raised", m, "none", FALSE, "ingest")) /\ UNCHANGED <<events, cursor>>
    <2>1. call'[a] = Frame("raised", m, "none", FALSE, "ingest")
      BY <1>a, <1>2, EnterFacts
    <2>2. call'[a].pc = "raised"
      BY <2>1 DEF Frame
    <2> QED
      BY <1>2, <1>c, <2>2 DEF Stores, Still, events
  <1>3. CASE /\ Reachable(a) /\ PersistNative(m, new)
             /\ cursor' = IF new = {} THEN cursor ELSE Larger(cursor, End)
             /\ IF log'[m] = "none"
                THEN Enter(a, Frame("returned", m, "none", FALSE, "ingest"))
                ELSE FinalizeFromLog(a, m, log'[m], "ingest")
    <2>1. \/ log'[m] = "none" /\ call'[a].pc = "returned"
          \/ log'[m] # "none" /\ call'[a] = Finalizing("project", m, log'[m], Keeps(m, log'[m]), "ingest")
      BY <1>a, <1>3, EnterFacts DEF FinalizeFromLog, Frame
    <2>2. new \in SUBSET (1..Len(journal))
      <3>1. seen[a].at \in Nat /\ Len(journal) \in Nat
        BY <1>a, JournalType DEF TypeOK
      <3> QED
        BY <3>1 DEF End
    <2>3. log' \in [Requests -> Terminal \cup {"none"}]
      BY <1>3, <2>2, PersistNativeType
    <2> QED
      BY <1>3, <1>c, <2>1, <2>3 DEF Stores, Ingests
  <1> QED
    BY <1>1, <1>2, <1>3 DEF Stores, SweepIngest, IngestOnce

(* The coordinator: the answer, the verdict, the session row.              *)
Projects(a) ==
    /\ Alone(a) /\ Still /\ KeepsProduct /\ UNCHANGED <<seen, log, durable, budget>>
    /\ call[a].pc = "project"
    /\ call'[a].msg = call[a].msg /\ call'[a].st = call[a].st
    /\ call'[a].clear = call[a].clear
    /\ \/ call[a].msg \in rows /\ call'[a].pc = "finish"
       \/ call[a].msg \notin rows /\ call'[a].pc = "raised"

(* Projecting the answer needs the message row of the turn, and changes    *)
(* only the coordinator's place.                                           *)
LEMMA ProjectFacts ==
    ASSUME TypeOK, NEW a \in Actors, Project(a)
    PROVE  Projects(a)
  <1>1. /\ call'[a].pc = "finish" \/ call'[a].pc = "raised"
        /\ call[a].msg \in rows <=> call'[a].pc = "finish"
        /\ call'[a].msg = call[a].msg /\ call'[a].st = call[a].st
        /\ call'[a].clear = call[a].clear
        /\ \A b \in Actors : b # a => call'[b] = call[b]
    BY DEF Project, Goto, TypeOK, FrameType
  <1> QED
    BY <1>1 DEF Projects, Project, Alone, Still, KeepsProduct, claim, events, host

FinishNext(a) == IF call[a].clear THEN "clear" ELSE "suspend"
Finishes(a) ==
    /\ Alone(a) /\ KeepsProduct
    /\ UNCHANGED <<holder, gen, cursor, stored, session, queue, journal, seen, log, durable, budget>>
    /\ call[a].pc = "finish" /\ call'[a].msg = call[a].msg /\ call'[a].clear = call[a].clear
    /\ call'[a].pc = FinishNext(a)
    /\ \A m \in Requests : m # call[a].msg => verdict'[m] = verdict[m]
    /\ \/ verdict' = verdict /\ ~(holder = call[a].msg /\ verdict[call[a].msg] = "running")
       \/ /\ holder = call[a].msg /\ verdict[call[a].msg] = "running"
          /\ verdict'[call[a].msg] = call[a].st

(* Finishing a turn writes the verdict of a claim that runs, and of no     *)
(* other.                                                                  *)
LEMMA FinishFacts ==
    ASSUME TypeOK, NEW a \in Actors, Finish(a), call[a].msg \in Requests
    PROVE  Finishes(a)
  <1>1. /\ call'[a].pc = FinishNext(a)
        /\ call'[a].msg = call[a].msg
        /\ call'[a].clear = call[a].clear
        /\ \A b \in Actors : b # a => call'[b] = call[b]
    BY DEF Finish, Goto, TypeOK, FrameType, FinishNext
  <1>2. /\ \A m \in Requests : m # call[a].msg => verdict'[m] = verdict[m]
        /\ \/ verdict' = verdict /\ ~(holder = call[a].msg /\ verdict[call[a].msg] = "running")
           \/ /\ holder = call[a].msg /\ verdict[call[a].msg] = "running"
              /\ verdict'[call[a].msg] = call[a].st
    BY DEF Finish, TypeOK
  <1> QED
    BY <1>1, <1>2 DEF Finish, Alone, KeepsProduct, events, product, host, Finishes

Withdraws(a) ==
    /\ Alone(a) /\ Still /\ UNCHANGED <<rows, seen, log, durable, budget>>
    /\ call'[a].pc = "returned" /\ call'[a].msg = call[a].msg
    /\ \/ run' = run /\ run.msg # call[a].msg /\ call[a].pc \in {"clear", "suspend"}
       \/ run' = NoRun /\ run.msg = call[a].msg /\ call[a].pc = "clear"
       \/ /\ run'.msg = run.msg /\ run'.st = "suspended"
          /\ run.msg = call[a].msg /\ call[a].pc = "suspend"

(* The last step of the coordinator touches the session row only when it   *)
(* shows that turn.                                                        *)
LEMMA RunRowFacts ==
    ASSUME TypeOK, NEW a \in Actors, ClearRun(a) \/ SuspendRun(a)
    PROVE  Withdraws(a)
  <1>1. /\ call'[a].pc = "returned" /\ call'[a].msg = call[a].msg
        /\ \A b \in Actors : b # a => call'[b] = call[b]
    BY GotoFacts DEF ClearRun, SuspendRun
  <1>2. \/ run' = run /\ run.msg # call[a].msg /\ call[a].pc \in {"clear", "suspend"}
        \/ run' = NoRun /\ run.msg = call[a].msg /\ call[a].pc = "clear"
        \/ /\ run'.msg = run.msg /\ run'.st = "suspended"
           /\ run.msg = call[a].msg /\ call[a].pc = "suspend"
    BY DEF ClearRun, SuspendRun, TypeOK
  <1> QED
    BY <1>1, <1>2 DEF Withdraws, ClearRun, SuspendRun, Alone, Still, claim, events, host

Trips(a) ==
    /\ Alone(a) /\ Still /\ KeepsProduct /\ UNCHANGED <<seen, log, durable, losses, crashes>>
    /\ faults' = faults + 1
    /\ call[a].pc \in FinalizerPc /\ call'[a].pc = "raised"

(* A step of the coordinator that fails costs a fault and raises.          *)
LEMMA StepFailsFacts ==
    ASSUME TypeOK, NEW a \in Actors, StepFails(a)
    PROVE  Trips(a)
  <1>1. /\ call'[a].pc = "raised"
        /\ \A b \in Actors : b # a => call'[b] = call[b]
    BY GotoFacts DEF StepFails
  <1> QED
    BY <1>1 DEF Trips, StepFails, Alone, Still, KeepsProduct, claim, events, product, host

(* The agent, the volume, the process.                                     *)
Ends ==
    /\ UNCHANGED <<holder, verdict, gen, cursor, stored, session, log, durable, seen, call, budget>>
    /\ KeepsProduct
    /\ queue # <<>> /\ queue' = Tail(queue)
    /\ \E s \in Terminal : journal' = Append(journal, [turn |-> queue[1], st |-> s])

(* The agent ends the oldest turn of its queue with some terminal event.   *)
LEMMA KernelFacts ==
    ASSUME TypeOK, KernelEnds
    PROVE  Ends
  BY DEF Ends, KernelEnds, KeepsProduct, claim, events, product, budget

Loses ==
    /\ UNCHANGED <<holder, verdict, gen, cursor, stored, log, durable, seen, call, faults, crashes>>
    /\ KeepsProduct
    /\ losses' = losses + 1
    /\ ~session' /\ queue' = <<>> /\ journal' = <<>>

(* A lost session leaves neither queue nor journal.                        *)
LEMMA LostFacts ==
    ASSUME TypeOK, SessionLost
    PROVE  Loses
  BY DEF Loses, SessionLost, KeepsProduct, claim, events, product

Crashes ==
    /\ Still /\ KeepsProduct /\ UNCHANGED <<log, durable, seen, losses, faults>>
    /\ crashes' = crashes + 1
    /\ \A a \in Actors : /\ call'[a].pc \in {"new", "gone"}
                         /\ call[a].pc = "new" => call'[a].pc = "new"
    /\ \A r \in Requests : /\ call[Prepare(r)].pc # "new" => call'[Prepare(r)].pc = "gone"
                           /\ call[Runner(r)].pc # "new" => call'[Runner(r)].pc = "gone"
    /\ \A c \in Cancels : call[Cancel(c)].pc # "new" => call'[Cancel(c)].pc = "gone"

(* A crash ends every handler that has begun; the sweep begins again.      *)
LEMMA CrashFacts ==
    ASSUME TypeOK, Crash
    PROVE  Crashes
  <1>1. \A a \in Actors : call'[a] = IF call[a].pc = "new" \/ a \in {Sweep(s) : s \in Sweeps}
                                     THEN At("new", None) ELSE At("gone", None)
    BY DEF Crash
  <1>2. At("new", None).pc = "new" /\ At("gone", None).pc = "gone"
    BY DEF At, Frame
  <1>3. \A a \in Actors : /\ call'[a].pc \in {"new", "gone"}
                          /\ call[a].pc = "new" => call'[a].pc = "new"
    BY <1>1, <1>2
  <1>4. \A a \in Actors : (call[a].pc # "new" /\ \A s \in Sweeps : a # Sweep(s)) => call'[a].pc = "gone"
    BY <1>1, <1>2
  <1> QED
    BY <1>3, <1>4, ActorsKnown, ActorsDistinct
       DEF Crashes, Crash, Still, KeepsProduct, claim, events, product, host

(* A cancel call that has begun does not begin again.                      *)
LEMMA CancelBegins ==
    ASSUME TypeOK, NEW c \in Cancels, CancelStep(c)
    PROVE  call'[Cancel(c)].pc # "new"
  <1> DEFINE a == Cancel(c)
             m == call[Cancel(c)].msg
  <1>a. a \in Actors
    BY ActorsKnown
  <1>g. ASSUME NEW pc, Goto(a, pc)
        PROVE  call'[a].pc = pc
    BY <1>a, <1>g, GotoFacts
  <1>e. ASSUME NEW f, Enter(a, f)
        PROVE  call'[a].pc = f.pc
    BY <1>a, <1>e, EnterFacts
  <1>1. CASE CancelAuthorize(c) \/ CancelLookup(c)
    <2>1. CASE Enter(a, At("lookup", run.msg)) \/ Enter(a, At("stop", holder))
      BY <2>1, <1>e DEF At, Frame
    <2>2. CASE Enter(a, Finalizing("finish", holder, verdict[holder], FALSE, "repair"))
      BY <2>2, <1>e DEF Finalizing, Frame
    <2>3. CASE Goto(a, "gone") \/ Goto(a, "orphan") \/ Goto(a, "done")
      BY <2>3, <1>g
    <2> QED
      BY <1>1, <2>1, <2>2, <2>3 DEF CancelAuthorize, CancelLookup
  <1>2. CASE CancelOrphanRun(c) \/ CancelStop(c) \/ CancelQuiet(c) \/ CancelSettle(c)
    BY <1>2, <1>g DEF CancelOrphanRun, CancelStop, CancelQuiet, CancelSettle
  <1>3. CASE CancelIngest(c)
    <2>1. ASSUME NEW why, IngestOnce(a, m, why)
          PROVE  call'[a].pc # "new"
      <3>1. \/ Enter(a, Frame("raised", m, "none", FALSE, why))
            \/ Enter(a, Frame("returned", m, "none", FALSE, why))
            \/ FinalizeFromLog(a, m, log'[m], why)
        BY <1>a, <2>1, IngestEnters
      <3> QED
        BY <3>1, <1>e DEF FinalizeFromLog, Finalizing, Frame
    <2> QED
      BY <1>3, <1>g, <2>1 DEF CancelIngest
  <1>4. CASE CancelReturn(c)
    <2>1. CASE call' = [call EXCEPT ![a].pc = "gather",
                                    ![Runner(m)] = IF RunnerLive(m) THEN Interrupted(m) ELSE @]
      <3>1. a # Runner(m) /\ call \in [Actors -> FrameType]
        BY ActorsDistinct DEF TypeOK
      <3>2. call'[a].pc = "gather"
        BY <2>1, <1>a, <3>1 DEF FrameType
      <3> QED
        BY <3>2
    <2> QED
      BY <1>4, <1>g, <2>1 DEF CancelReturn
  <1>5. CASE CancelRelease(c)
    BY <1>5, <1>g, <1>e DEF CancelRelease, Finalizing, Frame
  <1> QED
    BY <1>1, <1>2, <1>3, <1>4, <1>5 DEF CancelStep

(* The steps that are left while nobody has cancelled.                     *)
FinalizerMoves(a) == FinalizerStep(a) \/ StepFails(a)
Moves ==
    \/ \E r \in Requests : PrepareStep(r) \/ AdmissionFails(r)
    \/ \E r \in Requests : RunnerStep(r) \/ RunnerTrouble(r)
    \/ \E s \in Sweeps : SweepStep(s)
    \/ \E a \in Actors : FinalizerMoves(a) /\ \A c \in Cancels : a # Cancel(c)
    \/ KernelEnds
    \/ SessionLost
    \/ Crash
    \/ UNCHANGED vars

(* What has not been cancelled after a step had not been before it, and    *)
(* nobody cancels in it.                                                   *)
LEMMA UncancelledBefore ==
    ASSUME IInv, [Next]_vars, Uncancelled'
    PROVE  Uncancelled /\ Moves
  <1>a. TypeOK /\ \A c \in Cancels : Cancel(c) \in Actors /\ call'[Cancel(c)].pc = "new"
    BY ActorsKnown DEF IInv, Uncancelled
  <1>1. ASSUME NEW r \in Requests, PrepareStep(r) \/ AdmissionFails(r)
        PROVE  Uncancelled
    BY <1>1, <1>a, PrepareAlone, ActorsDistinct DEF Uncancelled
  <1>2. ASSUME NEW r \in Requests, RunnerStep(r) \/ RunnerTrouble(r)
        PROVE  Uncancelled
    BY <1>2, <1>a, RunnerAlone, ActorsDistinct DEF Uncancelled
  <1>3. ASSUME NEW s \in Sweeps, SweepStep(s)
        PROVE  Uncancelled
    BY <1>3, <1>a, SweepAlone, ActorsDistinct DEF Uncancelled
  <1>4. ASSUME NEW a \in Actors, FinalizerStep(a) \/ StepFails(a)
        PROVE  Uncancelled /\ \A c \in Cancels : a # Cancel(c)
    <2>1. call'[a].pc \in {"finish", "raised", "clear", "suspend", "returned"}
      BY <1>4, <1>a, GotoFacts
         DEF FinalizerStep, Project, Finish, ClearRun, SuspendRun, StepFails
    <2>2. \A c \in Cancels : a # Cancel(c)
      BY <2>1, <1>a
    <2> QED
      BY <1>4, <1>a, <2>2, FinalizerAlone DEF Uncancelled
  <1>5. ASSUME NEW c \in Cancels, CancelStep(c)
        PROVE  FALSE
    BY <1>5, <1>a, CancelBegins
  <1>6. ASSUME KernelEnds \/ SessionLost \/ UNCHANGED vars
        PROVE  Uncancelled
    BY <1>6, <1>a DEF KernelEnds, SessionLost, vars, Uncancelled
  <1>7. ASSUME Crash
        PROVE  Uncancelled
    BY <1>7, <1>a, CrashFacts DEF Crashes, Uncancelled
  <1> QED
    BY <1>1, <1>2, <1>3, <1>4, <1>5, <1>6, <1>7 DEF Next, Moves, FinalizerMoves

(* The counters of failures only grow.                                     *)
LEMMA BudgetGrows ==
    ASSUME IInv, [Next]_vars
    PROVE  /\ faults' = faults \/ faults' = faults + 1
           /\ losses' = losses \/ losses' = losses + 1
           /\ crashes' = crashes \/ crashes' = crashes + 1
  <1>1. ASSUME NEW r \in Requests, PrepareStep(r) \/ AdmissionFails(r)
        PROVE  UNCHANGED <<losses, crashes>> /\ (faults' = faults \/ faults' = faults + 1)
    BY <1>1 DEF PrepareStep, AdmissionFails, PrepareBegin, Recover, PrepareReturn, Reread,
                SyncKeep, SyncReplace, SyncFails, Claim, Join, Recheck, AppendMessages,
                MarkActiveRun, Launch, budget
  <1>2. ASSUME NEW r \in Requests, RunnerStep(r) \/ RunnerTrouble(r)
        PROVE  UNCHANGED <<losses, crashes>> /\ (faults' = faults \/ faults' = faults + 1)
    BY <1>2 DEF RunnerStep, RunnerTrouble, Attach, AttachFallback, Send, TerminalArrives,
                HostGone, RunnerFault, StreamFails, RunnerReturn, budget
  <1>3. ASSUME NEW c \in Cancels, CancelStep(c)
        PROVE  UNCHANGED budget
    BY <1>3 DEF CancelStep, CancelAuthorize, CancelLookup, CancelOrphanRun, CancelStop,
                CancelQuiet, CancelSettle, CancelIngest, CancelReturn, CancelRelease, budget
  <1>4. ASSUME NEW s \in Sweeps, SweepStep(s)
        PROVE  UNCHANGED budget
    BY <1>4 DEF SweepStep, SweepBegin, SweepIngest, SweepReturn, budget
  <1>5. ASSUME NEW a \in Actors, FinalizerStep(a) \/ StepFails(a)
        PROVE  UNCHANGED <<losses, crashes>> /\ (faults' = faults \/ faults' = faults + 1)
    BY <1>5 DEF FinalizerStep, Project, Finish, ClearRun, SuspendRun, StepFails, budget
  <1>6. CASE KernelEnds \/ SessionLost \/ Crash \/ UNCHANGED vars
    BY <1>6 DEF KernelEnds, SessionLost, Crash, vars, budget
  <1> QED
    BY <1>1, <1>2, <1>3, <1>4, <1>5, <1>6 DEF Next, budget

(* What has not failed or crashed yet had not before the step either.      *)
LEMMA SteadyBefore ==
    ASSUME IInv, [Next]_vars
    PROVE  /\ Steady' => Steady /\ faults' = faults
           /\ losses' = 0 => losses = 0
           /\ crashes' = 0 => crashes = 0
  <1>1. faults \in Nat /\ losses \in Nat /\ crashes \in Nat
    BY DEF IInv, TypeOK
  <1>2. /\ faults' = 0 => faults = 0
        /\ losses' = 0 => losses = 0
        /\ crashes' = 0 => crashes = 0
    BY <1>1, BudgetGrows
  <1> QED
    BY <1>2, UncancelledBefore DEF Steady

(* Every step nobody cancels has one of these effects.                     *)
Effects ==
    \/ \E r \in Requests :
          \/ Begins(r) \/ Recovers(r) \/ Passes(r) \/ Advances(r) \/ Launches(r)
          \/ RollsBack(r) \/ Replaces(r) \/ Wins(r)
    \/ \E r \in Requests :
          \/ Attaches(r) \/ Sends(r) \/ Breaks(r) \/ Returns(r)
          \/ \E p : Arrives(r, p)
    \/ \E s \in Sweeps :
          \/ Looks(s) \/ Rests(s)
          \/ \E m \in Requests, new \in SUBSET Nat : Stores(s, m, new)
    \/ \E a \in Actors :
          /\ \A c \in Cancels : a # Cancel(c)
          /\ call[a].msg \in Requests
          /\ Projects(a) \/ Finishes(a) \/ Withdraws(a) \/ Trips(a)
    \/ Ends \/ Loses \/ Crashes \/ UNCHANGED vars

(* So an invariant of the uncancelled steps is proved effect by effect.    *)
LEMMA MovesHaveEffects ==
    ASSUME IInv, Moves
    PROVE  Effects
  <1>0. TypeOK
    BY DEF IInv
  <1>1. ASSUME NEW r \in Requests, PrepareStep(r) \/ AdmissionFails(r)
        PROVE  \/ Begins(r) \/ Recovers(r) \/ Passes(r) \/ Advances(r) \/ Launches(r)
               \/ RollsBack(r) \/ Replaces(r) \/ Wins(r)
    <2>1. CASE PrepareBegin(r)
      BY <1>0, <2>1, BeginFacts
    <2>2. CASE Recover(r)
      <3>1. call[Prepare(r)].pc \in WorkingPc
        BY <2>2 DEF Recover, WorkingPc
      <3>2. call[Prepare(r)].msg \in Requests
        BY <3>1, ActorsKnown DEF IInv, FrameInv, Claimed
      <3> QED
        BY <1>0, <2>2, <3>2, RecoverFacts
    <2>3. CASE PrepareReturn(r) \/ Reread(r) \/ SyncKeep(r) \/ SyncFails(r) \/ Join(r)
      BY <1>0, <2>3, PassFacts
    <2>4. CASE SyncReplace(r)
      BY <1>0, <2>4, ReplaceFacts
    <2>5. CASE Claim(r)
      BY <1>0, <2>5, ClaimFacts
    <2>6. CASE Recheck(r) \/ AppendMessages(r) \/ MarkActiveRun(r) \/ AdmissionFails(r)
      BY <1>0, <2>6, AdmitFacts, RollBackFacts
    <2>7. CASE Launch(r)
      BY <1>0, <2>7, LaunchFacts
    <2> QED
      BY <1>1, <2>1, <2>2, <2>3, <2>4, <2>5, <2>6, <2>7 DEF PrepareStep
  <1>2. ASSUME NEW r \in Requests, RunnerStep(r) \/ RunnerTrouble(r)
        PROVE  \/ Attaches(r) \/ Sends(r) \/ Breaks(r) \/ Returns(r)
               \/ \E p : Arrives(r, p)
    <2>1. TerminalArrives(r) => Arrives(r, seen[Runner(r)].at + 1)
      BY <1>0, ArrivesFacts
    <2> QED
      BY <1>0, <1>2, <2>1, AttachFacts, SendFacts, StreamFacts, ReturnFacts
         DEF RunnerStep, RunnerTrouble
  <1>3. ASSUME NEW s \in Sweeps, SweepStep(s)
        PROVE  \/ Looks(s) \/ Rests(s)
               \/ \E m \in Requests, new \in SUBSET Nat : Stores(s, m, new)
    <2>1. CASE SweepIngest(s)
      <3> DEFINE m == call[Sweep(s)].msg
                 new == (seen[Sweep(s)].at + 1)..End
      <3>1. call[Sweep(s)].pc \in WorkingPc
        BY <2>1 DEF SweepIngest, WorkingPc
      <3>2. m \in Requests
        BY <3>1, ActorsKnown DEF IInv, FrameInv, Claimed
      <3>3. new \in SUBSET Nat
        <4>1. seen[Sweep(s)].at \in Nat /\ Len(journal) \in Nat
          BY <1>0, ActorsKnown, JournalType DEF TypeOK
        <4> QED
          BY <4>1 DEF End
      <3>4. Stores(s, m, new)
        BY <1>0, <2>1, <3>2, SweepIngestFacts
      <3> QED
        BY <3>2, <3>3, <3>4
    <2> QED
      BY <1>0, <1>3, <2>1, SweepBeginFacts, SweepReturnFacts DEF SweepStep
  <1>4. ASSUME NEW a \in Actors, FinalizerMoves(a)
        PROVE  call[a].msg \in Requests /\ (Projects(a) \/ Finishes(a) \/ Withdraws(a) \/ Trips(a))
    <2>1. call[a].pc \in WorkingPc
      BY <1>4 DEF FinalizerMoves, FinalizerStep, Project, Finish, ClearRun, SuspendRun, StepFails,
                  WorkingPc, FinalizerPc
    <2>2. call[a].msg \in Requests
      BY <2>1 DEF IInv, FrameInv, Claimed
    <2> QED
      BY <1>0, <1>4, <2>2, ProjectFacts, FinishFacts, RunRowFacts, StepFailsFacts
         DEF FinalizerMoves, FinalizerStep
  <1>5. KernelEnds => Ends
    BY <1>0, KernelFacts
  <1>6. SessionLost => Loses
    BY <1>0, LostFacts
  <1>7. Crash => Crashes
    BY <1>0, CrashFacts
  <1> QED
    BY <1>1, <1>2, <1>3, <1>4, <1>5, <1>6, <1>7 DEF Moves, Effects

------------------------------------------------------------------------------
(* How requests and runners move.                                          *)
Early == {"new", "recover", "reread", "sync", "claim", "join", "returned", "raised"} \cup FinalizerPc
Left == {"done", "gone"}

RequestMoves(r) ==
    \/ call'[Prepare(r)].pc = call[Prepare(r)].pc
    \/ call[Prepare(r)].pc \in Early /\ call'[Prepare(r)].pc \in Early \cup Left
    \/ Wins(r) /\ call[Prepare(r)].pc = "claim" /\ call'[Prepare(r)].pc = "recheck"
    \/ /\ Advances(r)
       /\ \/ call[Prepare(r)].pc = "recheck" /\ call'[Prepare(r)].pc = "append"
          \/ call[Prepare(r)].pc = "append" /\ call'[Prepare(r)].pc = "mark"
          \/ call[Prepare(r)].pc = "mark" /\ call'[Prepare(r)].pc = "launch"
    \/ Launches(r) /\ call[Prepare(r)].pc = "launch" /\ call'[Prepare(r)].pc = "done"
    \/ RollsBack(r) /\ call[Prepare(r)].pc \in {"recheck", "append", "mark"} /\ call'[Prepare(r)].pc = "gone"
    \/ Crashes /\ call[Prepare(r)].pc # "new" /\ call'[Prepare(r)].pc = "gone"

(* A handler and what it has read change only by steps of its own.         *)
Coordinates(a) == Projects(a) \/ Finishes(a) \/ Withdraws(a) \/ Trips(a)
Same(a) == call'[a] = call[a] /\ seen'[a] = seen[a]

(* Whose step an effect is.                                                *)
ByRequest(r) == \/ Begins(r) \/ Recovers(r) \/ Passes(r) \/ Advances(r)
                \/ RollsBack(r) \/ Replaces(r) \/ Wins(r)
ByRunner(r) == \/ Attaches(r) \/ Sends(r) \/ Breaks(r) \/ Returns(r)
               \/ \E p : Arrives(r, p)
BySweep(s) == \/ Looks(s) \/ Rests(s)
              \/ \E m \in Requests, new \in SUBSET Nat : Stores(s, m, new)

(* An effect that is a handler's own leaves the other handlers alone.      *)
LEMMA EffectsAlone ==
    /\ \A r : ByRequest(r) => Alone(Prepare(r))
    /\ \A r : ByRunner(r) => Alone(Runner(r))
    /\ \A s : BySweep(s) => Alone(Sweep(s))
    /\ \A a : Coordinates(a) => Alone(a)
  <1>1. \A r : ByRequest(r) => Alone(Prepare(r))
    BY DEF ByRequest, Begins, Recovers, Passes, Advances, RollsBack, Replaces, Wins
  <1>2. \A r : ByRunner(r) => Alone(Runner(r))
    BY DEF ByRunner, Attaches, Sends, Breaks, Returns, Arrives
  <1>3. \A s : BySweep(s) => Alone(Sweep(s))
    BY DEF BySweep, Looks, Rests, Stores
  <1>4. \A a : Coordinates(a) => Alone(a)
    BY DEF Coordinates, Projects, Finishes, Withdraws, Trips
  <1> QED
    BY <1>1, <1>2, <1>3, <1>4

(* Why a handler's progress changes: its own step, its launch, the         *)
(* coordinator, or a crash.                                                *)
LEMMA WhoActs ==
    ASSUME Effects, NEW a \in Actors
    PROVE  \/ Same(a)
           \/ \E r \in Requests : a = Prepare(r) /\ (ByRequest(r) \/ Launches(r))
           \/ \E r \in Requests : a = Runner(r) /\ (ByRunner(r) \/ Launches(r))
           \/ \E s \in Sweeps : a = Sweep(s) /\ BySweep(s)
           \/ Coordinates(a)
           \/ Crashes
  <1>1. ASSUME NEW b, Alone(b)
        PROVE  a = b \/ Same(a)
    BY <1>1 DEF Alone, Same
  <1>2. ASSUME NEW r \in Requests, Launches(r)
        PROVE  a = Prepare(r) \/ a = Runner(r) \/ Same(a)
    BY <1>2 DEF Launches, Same
  <1>3. Ends \/ Loses \/ UNCHANGED vars => Same(a)
    BY DEF Ends, Loses, vars, Same
  <1>4. \/ \E r \in Requests : ByRequest(r) \/ Launches(r)
        \/ \E r \in Requests : ByRunner(r)
        \/ \E s \in Sweeps : BySweep(s)
        \/ \E b \in Actors : Coordinates(b)
        \/ Ends \/ Loses \/ Crashes \/ UNCHANGED vars
    BY DEF Effects, ByRequest, ByRunner, BySweep, Coordinates
  <1> QED
    BY <1>1, <1>2, <1>3, <1>4, EffectsAlone

(* Every effect moves a request along one of these edges.                  *)
LEMMA RequestEffects ==
    ASSUME TypeOK, Effects, NEW r \in Requests
    PROVE  RequestMoves(r)
  <1>a. Prepare(r) \in Actors
    BY ActorsKnown
  <1>b. \/ Same(Prepare(r)) \/ ByRequest(r) \/ Launches(r)
        \/ Coordinates(Prepare(r)) \/ Crashes
    BY <1>a, WhoActs, ActorsDistinct
  <1>1. CASE Begins(r) \/ Recovers(r)
    BY <1>1 DEF Begins, Recovers, RequestMoves, Early, FinalizerPc, At, Finalizing, Frame
  <1>2. CASE Passes(r)
    BY <1>2 DEF Passes, PassPc, RequestMoves, Early, Left
  <1>3. CASE RollsBack(r) \/ Replaces(r)
    BY <1>3 DEF RollsBack, Replaces, RequestMoves, Early
  <1>4. CASE Wins(r) \/ Launches(r) \/ Advances(r)
    BY <1>4 DEF Wins, Launches, Advances, RequestMoves
  <1>5. CASE Coordinates(Prepare(r))
    <2>1. call[Prepare(r)].pc \in Early /\ call'[Prepare(r)].pc \in Early
      BY <1>5 DEF Coordinates, Projects, Finishes, Withdraws, Trips, FinishNext, Early, FinalizerPc
    <2> QED
      BY <2>1 DEF RequestMoves
  <1>6. CASE Crashes
    BY <1>6, <1>a DEF Crashes, RequestMoves
  <1>7. CASE Same(Prepare(r))
    BY <1>7 DEF Same, RequestMoves
  <1> QED
    BY <1>b, <1>1, <1>2, <1>3, <1>4, <1>5, <1>6, <1>7 DEF ByRequest

RunnerMoves(r) ==
    \/ call'[Runner(r)].pc = call[Runner(r)].pc
    \/ Launches(r) /\ call'[Runner(r)].pc = "attach"
    \/ Attaches(r) /\ call[Runner(r)].pc = "attach" /\ call'[Runner(r)].pc = "send"
    \/ Sends(r) /\ call[Runner(r)].pc = "send" /\ call'[Runner(r)].pc = "stream"
    \/ /\ call[Runner(r)].pc \in OnHost /\ call'[Runner(r)].pc = "project"
       /\ Breaks(r) \/ \E p : Arrives(r, p)
    \/ Projects(Runner(r)) /\ call[Runner(r)].pc = "project" /\ call'[Runner(r)].pc \in {"finish", "raised"}
    \/ Finishes(Runner(r)) /\ call[Runner(r)].pc = "finish" /\ call'[Runner(r)].pc \in {"clear", "suspend"}
    \/ Withdraws(Runner(r)) /\ call[Runner(r)].pc \in {"clear", "suspend"} /\ call'[Runner(r)].pc = "returned"
    \/ Returns(r) /\ call[Runner(r)].pc = "raised" /\ call'[Runner(r)].pc = "finish"
    \/ Returns(r) /\ call[Runner(r)].pc \in {"returned", "raised"} /\ call'[Runner(r)].pc = "done"
    \/ Trips(Runner(r)) /\ call[Runner(r)].pc \in FinalizerPc /\ call'[Runner(r)].pc = "raised"
    \/ Crashes /\ call[Runner(r)].pc # "new" /\ call'[Runner(r)].pc = "gone"

(* Every effect moves a runner along one of these edges.                   *)
LEMMA RunnerEffects ==
    ASSUME TypeOK, Effects, NEW r \in Requests
    PROVE  RunnerMoves(r)
  <1>a. Runner(r) \in Actors
    BY ActorsKnown
  <1>b. \/ Same(Runner(r)) \/ ByRunner(r) \/ Launches(r)
        \/ Coordinates(Runner(r)) \/ Crashes
    BY <1>a, WhoActs, ActorsDistinct
  <1>1. CASE Launches(r)
    BY <1>1 DEF Launches, RunnerMoves, At, Frame
  <1>2. CASE Attaches(r) \/ Sends(r)
    BY <1>2 DEF Attaches, Sends, RunnerMoves
  <1>3. CASE Returns(r)
    BY <1>3 DEF Returns, RunnerMoves, Finalizing, Frame
  <1>4. CASE Breaks(r)
    BY <1>4 DEF Breaks, RunnerMoves, Finalizing, Frame
  <1>5. ASSUME NEW p, Arrives(r, p)
        PROVE  RunnerMoves(r)
    <2>1. call'[Runner(r)].pc = "project"
      BY <1>5 DEF Arrives, Finalizing, Frame
    <2>2. call[Runner(r)].pc \in OnHost
      BY <1>5 DEF Arrives, OnHost
    <2> QED
      BY <1>5, <2>1, <2>2 DEF RunnerMoves
  <1>6. CASE Coordinates(Runner(r))
    <2>1. CASE Projects(Runner(r)) \/ Trips(Runner(r))
      BY <2>1 DEF Projects, Trips, RunnerMoves
    <2>2. CASE Finishes(Runner(r))
      BY <2>2 DEF Finishes, FinishNext, RunnerMoves
    <2>3. CASE Withdraws(Runner(r))
      BY <2>3 DEF Withdraws, RunnerMoves
    <2> QED
      BY <1>6, <2>1, <2>2, <2>3 DEF Coordinates
  <1>7. CASE Crashes
    BY <1>7, <1>a DEF Crashes, RunnerMoves
  <1>8. CASE Same(Runner(r))
    BY <1>8 DEF Same, RunnerMoves
  <1> QED
    BY <1>b, <1>1, <1>2, <1>3, <1>4, <1>5, <1>6, <1>7, <1>8 DEF ByRunner

------------------------------------------------------------------------------
(* What ties the handlers to each other and to the documents while nobody  *)
(* has cancelled: a turn has one carrier, its request until the launch and *)
(* its runner from then on, and a carrier of a running turn works on the   *)
(* current binding row.                                                    *)
Runs(m) == verdict[m] = "running"
Carries(a, r) ==
    \/ a = Prepare(r) /\ call[a].pc \in Admitting
    \/ a = Runner(r) /\ call[a].pc \in OnHost
Carried(r) == call[Prepare(r)].pc \in Admitting \/ call[Runner(r)].pc \in OnHost
Unsent(r) == call[Prepare(r)].pc \in Admitting \/ call[Runner(r)].pc \in {"attach", "send"}
Tracks(a, m) == \E s \in Sweeps : a = Sweep(s) /\ call[a].pc = "ingest" /\ call[a].msg = m
Recovering(a, m) == \E r \in Requests : a = Prepare(r) /\ call[a].pc = "recover" /\ call[a].msg = m

OneCarrier ==
    \A r \in Requests : call[Runner(r)].pc # "new" => call[Prepare(r)].pc \in Left
RunRowInv ==
    /\ run.msg = None => run = NoRun
    /\ \A r \in Requests : run.msg = r => call[Prepare(r)].pc \in {"launch"} \cup Left
RowsExist ==
    \A r \in Requests :
        call[Prepare(r)].pc \in {"mark", "launch"} \/ call[Runner(r)].pc \in WorkingPc => r \in rows
LogClaimed == \A r \in Requests : log[r] # "none" => Claimed(r)
HostInv ==
    /\ ~session => queue = <<>> /\ journal = <<>>
    /\ losses = 0 => session
ReadBefore == \A a \in Actors : seen[a].gen <= gen
CurrentRow ==
    \A a \in Actors, m \in Requests :
        Runs(m) /\ (Carries(a, m) \/ Tracks(a, m) \/ Recovering(a, m)) => seen[a].gen = gen
KeepersComplete ==
    \A a \in Actors : call[a].pc \in {"project", "finish"} /\ ~call[a].clear => call[a].st = "completed"
NoneRaised == Steady => \A r \in Requests : call[Runner(r)].pc # "raised"

(* A runner has begun only when its request has left.                      *)
LEMMA OneCarrierStep ==
    ASSUME TypeOK, OneCarrier, Effects
    PROVE  OneCarrier'
  <1> SUFFICES ASSUME NEW r \in Requests, call'[Runner(r)].pc # "new"
               PROVE  call'[Prepare(r)].pc \in Left
    BY DEF OneCarrier
  <1>1. RequestMoves(r) /\ RunnerMoves(r)
    BY RequestEffects, RunnerEffects
  <1>2. call[Prepare(r)].pc \in Left => call'[Prepare(r)].pc \in Left
    BY <1>1 DEF RequestMoves, Left, Early, FinalizerPc
  <1>3. CASE call[Runner(r)].pc # "new"
    BY <1>2, <1>3 DEF OneCarrier
  <1>4. CASE Launches(r)
    BY <1>4 DEF Launches, Left
  <1>5. CASE call[Runner(r)].pc = "new" /\ ~Launches(r)
    BY <1>1, <1>5 DEF RunnerMoves, OnHost, FinalizerPc, Projects, Finishes, Withdraws, Returns
  <1> QED
    BY <1>3, <1>4, <1>5

(* Who changes the session row.                                            *)
LEMMA RunEffects ==
    ASSUME Effects
    PROVE  \/ run' = run
           \/ \E r \in Requests : /\ Advances(r) /\ run' = [msg |-> r, st |-> "running"]
                                  /\ call[Prepare(r)].pc = "mark" /\ call'[Prepare(r)].pc = "launch"
           \/ \E a \in Actors : /\ Withdraws(a) /\ run.msg = call[a].msg /\ call[a].msg \in Requests
                                /\ \/ run' = NoRun /\ call[a].pc = "clear"
                                   \/ run'.msg = run.msg /\ run'.st = "suspended" /\ call[a].pc = "suspend"
  <1>1. ASSUME NEW q \in Requests,
               \/ Begins(q) \/ Recovers(q) \/ Passes(q) \/ Launches(q)
               \/ RollsBack(q) \/ Replaces(q) \/ Wins(q)
               \/ Attaches(q) \/ Sends(q) \/ Breaks(q) \/ Returns(q)
               \/ \E p : Arrives(q, p)
        PROVE  run' = run
    BY <1>1 DEF Begins, Recovers, Passes, Launches, RollsBack, Replaces, Wins, KeepsProduct,
                Attaches, Sends, Breaks, Returns, Arrives
  <1>2. ASSUME NEW s \in Sweeps,
               \/ Looks(s) \/ Rests(s)
               \/ \E m \in Requests, new \in SUBSET Nat : Stores(s, m, new)
        PROVE  run' = run
    BY <1>2 DEF Looks, Rests, Stores, KeepsProduct
  <1>3. ASSUME NEW a \in Actors, Projects(a) \/ Finishes(a) \/ Trips(a)
        PROVE  run' = run
    BY <1>3 DEF Projects, Finishes, Trips, KeepsProduct
  <1>4. CASE Ends \/ Loses \/ Crashes \/ UNCHANGED vars
    BY <1>4 DEF Ends, Loses, Crashes, KeepsProduct, vars, product
  <1>5. ASSUME NEW q \in Requests, Advances(q)
        PROVE  \/ run' = run
               \/ /\ run' = [msg |-> q, st |-> "running"]
                  /\ call[Prepare(q)].pc = "mark" /\ call'[Prepare(q)].pc = "launch"
    BY <1>5 DEF Advances, KeepsProduct
  <1>6. ASSUME NEW a \in Actors, Withdraws(a)
        PROVE  \/ run' = run
               \/ /\ run.msg = call[a].msg
                  /\ \/ run' = NoRun /\ call[a].pc = "clear"
                     \/ run'.msg = run.msg /\ run'.st = "suspended" /\ call[a].pc = "suspend"
    BY <1>6 DEF Withdraws
  <1> QED
    BY <1>1, <1>2, <1>3, <1>4, <1>5, <1>6 DEF Effects

(* The session row shows a turn only once its request has marked it.       *)
LEMMA RunRowStep ==
    ASSUME TypeOK, RunRowInv, Effects
    PROVE  RunRowInv'
  <1>1. ASSUME NEW r \in Requests, call[Prepare(r)].pc \in {"launch"} \cup Left
        PROVE  call'[Prepare(r)].pc \in {"launch"} \cup Left
    <2>1. RequestMoves(r)
      BY RequestEffects
    <2> QED
      BY <1>1, <2>1 DEF RequestMoves, Left, Early, FinalizerPc
  <1>2. CASE run' = run
    BY <1>1, <1>2 DEF RunRowInv
  <1>3. ASSUME NEW r \in Requests, run' = [msg |-> r, st |-> "running"], call'[Prepare(r)].pc = "launch"
        PROVE  RunRowInv'
    BY <1>3, NoneAssumption DEF RunRowInv
  <1>4. CASE run' = NoRun
    BY <1>4, NoneAssumption DEF RunRowInv, NoRun
  <1>5. CASE run'.msg = run.msg /\ run.msg \in Requests
    BY <1>1, <1>5, NoneAssumption DEF RunRowInv
  <1> QED
    BY <1>2, <1>3, <1>4, <1>5, RunEffects

(* A turn has its message row from the append on.                          *)
LEMMA RowsExistStep ==
    ASSUME TypeOK, RowsExist, Effects
    PROVE  RowsExist'
  <1> SUFFICES ASSUME NEW r \in Requests,
                      call'[Prepare(r)].pc \in {"mark", "launch"} \/ call'[Runner(r)].pc \in WorkingPc
               PROVE  r \in rows'
    BY DEF RowsExist
  <1>0. RequestMoves(r) /\ RunnerMoves(r)
    BY RequestEffects, RunnerEffects
  <1>1. rows \subseteq rows'
    <2>1. ASSUME NEW q \in Requests,
                 \/ Begins(q) \/ Recovers(q) \/ Passes(q) \/ Launches(q)
                 \/ RollsBack(q) \/ Replaces(q) \/ Wins(q)
                 \/ Attaches(q) \/ Sends(q) \/ Breaks(q) \/ Returns(q)
                 \/ \E p : Arrives(q, p)
          PROVE  rows' = rows
      BY <2>1 DEF Begins, Recovers, Passes, Launches, RollsBack, Replaces, Wins, KeepsProduct,
                  Attaches, Sends, Breaks, Returns, Arrives
    <2>2. ASSUME NEW s \in Sweeps,
                 \/ Looks(s) \/ Rests(s)
                 \/ \E m \in Requests, new \in SUBSET Nat : Stores(s, m, new)
          PROVE  rows' = rows
      BY <2>2 DEF Looks, Rests, Stores, KeepsProduct
    <2>3. ASSUME NEW a \in Actors, Projects(a) \/ Finishes(a) \/ Trips(a) \/ Withdraws(a)
          PROVE  rows' = rows
      BY <2>3 DEF Projects, Finishes, Trips, Withdraws, KeepsProduct
    <2>4. CASE Ends \/ Loses \/ Crashes \/ UNCHANGED vars
      BY <2>4 DEF Ends, Loses, Crashes, KeepsProduct, vars, product
    <2>5. ASSUME NEW q \in Requests, Advances(q)
          PROVE  rows \subseteq rows'
      BY <2>5 DEF Advances, KeepsProduct
    <2> QED
      BY <2>1, <2>2, <2>3, <2>4, <2>5 DEF Effects
  <1>2. CASE call[Prepare(r)].pc \in {"mark", "launch"} \/ call[Runner(r)].pc \in WorkingPc
    BY <1>1, <1>2 DEF RowsExist
  <1>3. CASE call[Prepare(r)].pc = "append" /\ call'[Prepare(r)].pc = "mark" /\ Advances(r)
    BY <1>3 DEF Advances
  <1>4. CASE Launches(r)
    BY <1>1, <1>4 DEF Launches, RowsExist
  <1>5. call'[Prepare(r)].pc \in {"mark", "launch"}
           => \/ call[Prepare(r)].pc \in {"mark", "launch"}
              \/ call[Prepare(r)].pc = "append" /\ call'[Prepare(r)].pc = "mark" /\ Advances(r)
    BY <1>0 DEF RequestMoves, Early, Left, FinalizerPc
  <1>6. call'[Runner(r)].pc \in WorkingPc => call[Runner(r)].pc \in WorkingPc \/ Launches(r)
    BY <1>0 DEF RunnerMoves, OnHost, WorkingPc, FinalizerPc
  <1> QED
    BY <1>2, <1>3, <1>4, <1>5, <1>6

(* Where a carrier of a turn comes from.                                   *)
LEMMA CarriesBefore ==
    ASSUME TypeOK, Effects, NEW a \in Actors, NEW m \in Requests, Carries(a, m)'
    PROVE  \/ Carries(a, m) /\ seen'[a] = seen[a]
           \/ Carries(a, m) /\ a = Runner(m) /\ Attaches(m)
           \/ a = Runner(m) /\ Launches(m)
           \/ a = Prepare(m) /\ Wins(m)
  <1>1. CASE a = Prepare(m) /\ call'[a].pc \in Admitting
    <2>1. \/ Same(a) \/ ByRequest(m) \/ Launches(m) \/ Coordinates(a) \/ Crashes
      BY <1>1, WhoActs, ActorsDistinct
    <2>2. CASE Same(a)
      BY <1>1, <2>2 DEF Same, Carries
    <2>3. CASE Begins(m) \/ Recovers(m)
      BY <1>1, <2>3 DEF Begins, Recovers, At, Finalizing, Frame, Admitting
    <2>4. CASE Passes(m) \/ RollsBack(m) \/ Replaces(m) \/ Launches(m)
      BY <1>1, <2>4 DEF Passes, PassPc, RollsBack, Replaces, Launches, Admitting
    <2>5. CASE Advances(m)
      BY <1>1, <2>5 DEF Advances, Carries, Admitting
    <2>6. CASE Coordinates(a)
      BY <1>1, <2>6 DEF Coordinates, Projects, Finishes, FinishNext, Withdraws, Trips, Admitting
    <2>7. CASE Crashes
      BY <1>1, <2>7 DEF Crashes, Admitting
    <2>8. CASE Wins(m)
      BY <1>1, <2>8
    <2> QED
      BY <2>1, <2>2, <2>3, <2>4, <2>5, <2>6, <2>7, <2>8 DEF ByRequest
  <1>2. CASE a = Runner(m) /\ call'[a].pc \in OnHost
    <2>1. \/ Same(a) \/ ByRunner(m) \/ Launches(m) \/ Coordinates(a) \/ Crashes
      BY <1>2, WhoActs, ActorsDistinct
    <2>2. CASE Same(a)
      BY <1>2, <2>2 DEF Same, Carries
    <2>3. CASE Sends(m)
      BY <1>2, <2>3 DEF Sends, Carries, OnHost
    <2>4. CASE Attaches(m)
      BY <1>2, <2>4 DEF Attaches, Carries, OnHost
    <2>5. CASE Breaks(m) \/ Returns(m)
      BY <1>2, <2>5 DEF Breaks, Returns, Finalizing, Frame, OnHost
    <2>6. CASE Coordinates(a)
      BY <1>2, <2>6 DEF Coordinates, Projects, Finishes, FinishNext, Withdraws, Trips, OnHost
    <2>7. CASE Crashes
      BY <1>2, <2>7 DEF Crashes, OnHost
    <2>8. ASSUME NEW p, Arrives(m, p)
          PROVE  FALSE
      BY <1>2, <2>8 DEF Arrives, Finalizing, Frame, OnHost
    <2>9. CASE Launches(m)
      BY <1>2, <2>9
    <2> QED
      BY <2>1, <2>2, <2>3, <2>4, <2>5, <2>6, <2>7, <2>8, <2>9 DEF ByRunner
  <1> QED
    BY <1>1, <1>2 DEF Carries

(* The sweep, and a recovery, look at a turn that runs when they begin.    *)
LEMMA TracksBefore ==
    ASSUME TypeOK, Effects, NEW a \in Actors, NEW m \in Requests, Tracks(a, m)'
    PROVE  \/ Tracks(a, m) /\ Same(a)
           \/ Running /\ m = holder /\ \E s \in Sweeps : a = Sweep(s) /\ Looks(s)
  <1> PICK s \in Sweeps : a = Sweep(s) /\ call'[a].pc = "ingest" /\ call'[a].msg = m
    BY DEF Tracks
  <1>1. Same(a) \/ BySweep(s) \/ Coordinates(a) \/ Crashes
    BY WhoActs, ActorsDistinct
  <1>2. CASE Same(a)
    BY <1>2 DEF Same, Tracks
  <1>3. CASE Looks(s)
    BY <1>3 DEF Looks, At, Frame
  <1>4. CASE Rests(s)
    BY <1>4 DEF Rests
  <1>5. ASSUME NEW t \in Requests, NEW new \in SUBSET Nat, Stores(s, t, new)
        PROVE  FALSE
    BY <1>5 DEF Stores, Ingests, Finalizing, Frame
  <1>6. CASE Coordinates(a)
    BY <1>6 DEF Coordinates, Projects, Finishes, FinishNext, Withdraws, Trips
  <1>7. CASE Crashes
    BY <1>7 DEF Crashes
  <1> QED
    BY <1>1, <1>2, <1>3, <1>4, <1>5, <1>6, <1>7 DEF BySweep

(* Who recovers a turn did so before, or has just read the row that holds  *)
(* it.                                                                     *)
LEMMA RecoveringBefore ==
    ASSUME TypeOK, Effects, NEW a \in Actors, NEW m \in Requests, Recovering(a, m)'
    PROVE  \/ Recovering(a, m) /\ Same(a)
           \/ Running /\ m = holder /\ \E r \in Requests : a = Prepare(r) /\ Begins(r)
  <1> PICK r \in Requests : a = Prepare(r) /\ call'[a].pc = "recover" /\ call'[a].msg = m
    BY DEF Recovering
  <1>1. Same(a) \/ ByRequest(r) \/ Launches(r) \/ Coordinates(a) \/ Crashes
    BY WhoActs, ActorsDistinct
  <1>2. CASE Same(a)
    BY <1>2 DEF Same, Recovering
  <1>3. CASE Begins(r)
    BY <1>3 DEF Begins, At, Finalizing, Frame
  <1>4. CASE Recovers(r)
    BY <1>4 DEF Recovers, Finalizing, Frame
  <1>5. CASE Passes(r) \/ RollsBack(r) \/ Replaces(r) \/ Launches(r) \/ Wins(r) \/ Advances(r)
    BY <1>5 DEF Passes, PassPc, RollsBack, Replaces, Launches, Wins, Advances
  <1>6. CASE Coordinates(a)
    BY <1>6 DEF Coordinates, Projects, Finishes, FinishNext, Withdraws, Trips
  <1>7. CASE Crashes
    BY <1>7 DEF Crashes
  <1> QED
    BY <1>1, <1>2, <1>3, <1>4, <1>5, <1>6, <1>7 DEF ByRequest

(* A turn starts to run only when its claim succeeds; nobody works on it   *)
(* before, and the row is rotated only under an idle binding.              *)
LEMMA RunsBefore ==
    ASSUME IInv, Effects, NEW m \in Requests, Runs(m)'
    PROVE  Runs(m) \/ Wins(m)
  <1>1. ASSUME NEW q \in Requests, Begins(q) \/ Recovers(q) \/ Passes(q) \/ Advances(q) \/ Launches(q) \/ Replaces(q)
                                   \/ Attaches(q) \/ Sends(q) \/ Breaks(q) \/ Returns(q) \/ \E p : Arrives(q, p)
        PROVE  verdict' = verdict
    BY <1>1 DEF Begins, Recovers, Passes, Advances, Launches, Replaces, Attaches, Sends, Breaks, Returns, Arrives, Still
  <1>2. ASSUME NEW s \in Sweeps, Looks(s) \/ Rests(s) \/ \E t \in Requests, new \in SUBSET Nat : Stores(s, t, new)
        PROVE  verdict' = verdict
    BY <1>2 DEF Looks, Rests, Stores, Ingests, Still
  <1>3. ASSUME NEW a \in Actors, Projects(a) \/ Withdraws(a) \/ Trips(a)
        PROVE  verdict' = verdict
    BY <1>3 DEF Projects, Withdraws, Trips, Still
  <1>4. Ends \/ Loses \/ Crashes \/ UNCHANGED vars => verdict' = verdict
    BY DEF Ends, Loses, Crashes, Still, vars, claim
  <1>5. ASSUME NEW q \in Requests, RollsBack(q) \/ Wins(q)
        PROVE  Runs(m) \/ Wins(m)
    BY <1>5 DEF RollsBack, Wins, Runs
  <1>6. ASSUME NEW a \in Actors, Finishes(a), call[a].msg \in Requests
        PROVE  Runs(m)
    <2>1. call[a].st \in Terminal
      BY <1>6 DEF IInv, CoordinatorInv, Finishes
    <2> QED
      BY <1>6, <2>1 DEF Finishes, Runs, Terminal
  <1> QED
    BY <1>1, <1>2, <1>3, <1>4, <1>5, <1>6 DEF Effects, Runs

(* A request that waits to claim holds nothing that runs.                  *)
LEMMA UnclaimedIsIdle ==
    ASSUME IInv, OneCarrier, NEW m \in Requests, Wins(m)
    PROVE  /\ ~Claimed(m) /\ call[Prepare(m)].pc = "claim" /\ call[Runner(m)].pc = "new"
           /\ \A a \in Actors : ~Carries(a, m) /\ ~Tracks(a, m) /\ ~Recovering(a, m)
           /\ \A a \in Actors : call[a].pc \in WorkingPc => call[a].msg # m
  <1>1. call[Prepare(m)].pc = "claim"
    BY DEF Wins
  <1>2. verdict[m] = "none"
    BY <1>1 DEF IInv, AdmissionInv, Unclaimed
  <1>3. call[Runner(m)].pc = "new"
    BY <1>1 DEF OneCarrier, Left
  <1>4. \A a \in Actors : call[a].pc \in WorkingPc => call[a].msg # m
    BY <1>2 DEF IInv, FrameInv, Claimed
  <1> QED
    BY <1>1, <1>2, <1>3, <1>4 DEF Claimed, Carries, Tracks, Recovering, Admitting, OnHost, WorkingPc

(* A binding that is not running has no running turn.                      *)
LEMMA IdleRunsNothing ==
    ASSUME IInv, NEW m \in Requests, Runs(m)
    PROVE  holder = m /\ Running
  BY NoneAssumption DEF IInv, LockInv, Runs, Running

(* The row a handler has read is not newer than the current one.           *)
LEMMA GenEffects ==
    ASSUME TypeOK, Effects
    PROVE  \/ gen' = gen /\ \A a \in Actors : \/ seen'[a].gen = gen
                                              \/ \E b \in Actors : seen'[a].gen = seen[b].gen
           \/ \E r \in Requests : Replaces(r)
  <1>0. Row.gen = gen
    BY DEF Row
  <1>1. ASSUME NEW r \in Requests, Begins(r) \/ Passes(r) \/ Wins(r)
        PROVE  gen' = gen /\ \A a \in Actors : seen'[a].gen = gen \/ seen'[a] = seen[a]
    BY <1>0, <1>1 DEF Begins, Passes, Wins, Alone, Still
  <1>2. ASSUME NEW r \in Requests, Recovers(r) \/ Advances(r) \/ RollsBack(r) \/ Sends(r) \/ Breaks(r)
                                   \/ Returns(r) \/ \E p : Arrives(r, p)
        PROVE  gen' = gen /\ seen' = seen
    BY <1>2 DEF Recovers, Advances, RollsBack, Sends, Breaks, Returns, Arrives, Still
  <1>3. ASSUME NEW r \in Requests, Launches(r)
        PROVE  gen' = gen /\ \A a \in Actors : seen'[a] = seen[a] \/ seen'[a] = seen[Prepare(r)]
    BY <1>3 DEF Launches, Still
  <1>4. ASSUME NEW r \in Requests, Attaches(r)
        PROVE  gen' = gen /\ \A a \in Actors : seen'[a].gen = seen[a].gen
    BY <1>4 DEF Attaches, Alone, Still
  <1>5. ASSUME NEW s \in Sweeps, Looks(s)
        PROVE  gen' = gen /\ \A a \in Actors : seen'[a].gen = gen \/ seen'[a] = seen[a]
    BY <1>0, <1>5 DEF Looks, Alone, Still
  <1>6. ASSUME NEW s \in Sweeps, Rests(s) \/ \E m \in Requests, new \in SUBSET Nat : Stores(s, m, new)
        PROVE  gen' = gen /\ seen' = seen
    BY <1>6 DEF Rests, Stores, Ingests, Still
  <1>7. ASSUME NEW a \in Actors, Projects(a) \/ Finishes(a) \/ Withdraws(a) \/ Trips(a)
        PROVE  gen' = gen /\ seen' = seen
    BY <1>7 DEF Projects, Finishes, Withdraws, Trips, Still
  <1>8. Ends \/ Loses \/ Crashes \/ UNCHANGED vars => gen' = gen /\ seen' = seen
    BY DEF Ends, Loses, Crashes, Still, vars, claim
  <1> QED
    BY <1>1, <1>2, <1>3, <1>4, <1>5, <1>6, <1>7, <1>8, ActorsKnown DEF Effects

(* Nobody has read a generation that is still to come.                     *)
LEMMA ReadBeforeStep ==
    ASSUME TypeOK, ReadBefore, Effects
    PROVE  ReadBefore'
  <1>0. gen \in Nat /\ \A a \in Actors : seen[a].gen \in Nat
    BY DEF TypeOK
  <1>1. ASSUME NEW r \in Requests, Replaces(r)
        PROVE  ReadBefore'
    <2>1. gen' = gen + 1 /\ seen'[Prepare(r)].gen = gen + 1
      BY <1>1 DEF Replaces
    <2>2. \A a \in Actors : a # Prepare(r) => seen'[a] = seen[a]
      BY <1>1 DEF Replaces, Alone
    <2> QED
      BY <1>0, <2>1, <2>2 DEF ReadBefore
  <1>2. CASE gen' = gen /\ \A a \in Actors : \/ seen'[a].gen = gen
                                             \/ \E b \in Actors : seen'[a].gen = seen[b].gen
    BY <1>0, <1>2 DEF ReadBefore
  <1> QED
    BY <1>1, <1>2, GenEffects

(* Who works on a running turn has read the row of the current session.    *)
LEMMA CurrentRowStep ==
    ASSUME IInv, OneCarrier, CurrentRow, Effects
    PROVE  CurrentRow'
  <1> SUFFICES ASSUME NEW a \in Actors, NEW m \in Requests, Runs(m)',
                      Carries(a, m)' \/ Tracks(a, m)' \/ Recovering(a, m)'
               PROVE  seen'[a].gen = gen'
    BY DEF CurrentRow, Runs
  <1>0. TypeOK /\ Row.gen = gen
    BY DEF IInv, Row
  <1>1. CASE Wins(m)
    <2>1. ~Carries(a, m) /\ ~Tracks(a, m) /\ ~Recovering(a, m)
      BY <1>1, UnclaimedIsIdle
    <2>2. ~Running
      BY <1>1 DEF Wins
    <2>3. ~Launches(m)
      BY <1>1 DEF Wins, Launches
    <2>4. a = Prepare(m)
      BY <1>0, <2>1, <2>2, <2>3, CarriesBefore, TracksBefore, RecoveringBefore
    <2> QED
      BY <1>0, <1>1, <2>4 DEF Wins
  <1>2. CASE Runs(m) /\ ~Wins(m)
    <2>1. holder = m /\ Running
      BY <1>2, IdleRunsNothing
    <2>2. gen' = gen
      <3>1. \A r \in Requests : ~Replaces(r)
        BY <2>1 DEF Replaces
      <3> QED
        BY <1>0, <3>1, GenEffects
    <2>3. CASE Carries(a, m)'
      <3>1. CASE Carries(a, m) /\ seen'[a] = seen[a]
        BY <1>2, <2>2, <3>1 DEF CurrentRow
      <3>2. CASE Carries(a, m) /\ a = Runner(m) /\ Attaches(m)
        BY <1>2, <2>2, <3>2 DEF CurrentRow, Attaches
      <3>3. CASE a = Runner(m) /\ Launches(m)
        <4>1. Prepare(m) \in Actors /\ Carries(Prepare(m), m) /\ seen'[a] = seen[Prepare(m)]
          BY <3>3, ActorsKnown DEF Launches, Carries, Admitting
        <4> QED
          BY <1>2, <2>2, <4>1 DEF CurrentRow
      <3> QED
        BY <1>0, <1>2, <2>3, <3>1, <3>2, <3>3, CarriesBefore
    <2>4. CASE Tracks(a, m)'
      <3>1. ASSUME NEW s \in Sweeps, a = Sweep(s), Looks(s)
            PROVE  seen'[a].gen = gen'
        BY <1>0, <2>2, <3>1 DEF Looks
      <3>2. CASE Tracks(a, m) /\ Same(a)
        BY <1>2, <2>2, <3>2 DEF CurrentRow, Same
      <3> QED
        BY <1>0, <2>4, <3>1, <3>2, TracksBefore
    <2>5. CASE Recovering(a, m)'
      <3>1. ASSUME NEW r \in Requests, a = Prepare(r), Begins(r)
            PROVE  seen'[a].gen = gen'
        BY <1>0, <2>2, <3>1 DEF Begins
      <3>2. CASE Recovering(a, m) /\ Same(a)
        BY <1>2, <2>2, <3>2 DEF CurrentRow, Same
      <3> QED
        BY <1>0, <2>5, <3>1, <3>2, RecoveringBefore
    <2> QED
      BY <2>3, <2>4, <2>5
  <1> QED
    BY <1>1, <1>2, RunsBefore

(* The host: a session that is gone has no queue and no journal.           *)
LEMMA HostStep ==
    ASSUME IInv, [Next]_vars, HostInv, Effects
    PROVE  HostInv'
  <1>0. losses' = 0 => losses = 0
    BY SteadyBefore
  <1>1. ASSUME UNCHANGED <<session, queue, journal>>
        PROVE  HostInv'
    BY <1>0, <1>1 DEF HostInv
  <1>2. ASSUME NEW r \in Requests,
               \/ Begins(r) \/ Recovers(r) \/ Passes(r) \/ Advances(r) \/ Launches(r) \/ RollsBack(r) \/ Wins(r)
               \/ Attaches(r) \/ Breaks(r) \/ Returns(r) \/ \E p : Arrives(r, p)
        PROVE  HostInv'
    BY <1>1, <1>2 DEF Begins, Recovers, Passes, Advances, Launches, RollsBack, Wins, Attaches,
                      Breaks, Returns, Arrives, Still
  <1>3. ASSUME NEW r \in Requests, Replaces(r)
        PROVE  HostInv'
    BY <1>3 DEF Replaces, HostInv
  <1>4. ASSUME NEW r \in Requests, Sends(r)
        PROVE  HostInv'
    BY <1>0, <1>4 DEF Sends, Reachable, HostInv
  <1>5. ASSUME NEW s \in Sweeps, Looks(s) \/ Rests(s) \/ \E t \in Requests, new \in SUBSET Nat : Stores(s, t, new)
        PROVE  HostInv'
    BY <1>1, <1>5 DEF Looks, Rests, Stores, Ingests, Still
  <1>6. ASSUME NEW a \in Actors, Projects(a) \/ Finishes(a) \/ Withdraws(a) \/ Trips(a)
        PROVE  HostInv'
    BY <1>1, <1>6 DEF Projects, Finishes, Withdraws, Trips, Still
  <1>7. CASE Ends
    BY <1>0, <1>7 DEF Ends, HostInv
  <1>8. CASE Loses
    <2>1. losses' # 0
      BY <1>8 DEF Loses, IInv, TypeOK
    <2> QED
      BY <1>8, <2>1 DEF Loses, HostInv
  <1>9. CASE Crashes \/ UNCHANGED vars
    BY <1>1, <1>9 DEF Crashes, Still, vars, host
  <1> QED
    BY <1>2, <1>3, <1>4, <1>5, <1>6, <1>7, <1>8, <1>9 DEF Effects

(* Why a coordinator is at work on a turn: it was already, or its caller   *)
(* has just decided on a status.                                           *)
Finalizes(a, m) == call[a].pc \in {"project", "finish"} /\ call[a].msg = m
Frames(a, m, s) ==
    /\ call'[a].msg = m /\ call'[a].st = s
    /\ ~call'[a].clear => s = "completed"
Goes(a, m) == Finalizes(a, m) /\ call'[a].st = call[a].st /\ call'[a].clear = call[a].clear
Repairs(a, m) ==
    \E r \in Requests : /\ a = Prepare(r) /\ Begins(r) /\ ~Running /\ holder = m
                        /\ Frames(a, m, verdict[m])
Concludes(a, m) ==
    \E r \in Requests :
        /\ a = Prepare(r) /\ Recovers(r) /\ call[a].msg = m
        /\ \/ log[m] # "none" /\ UNCHANGED <<log, durable>> /\ Frames(a, m, log[m])
           \/ log[m] = "none" /\ ~Reachable(a) /\ Frames(a, m, "failed")
Gives(a, m) == a = Runner(m) /\ Breaks(m) /\ Frames(a, m, "failed")
Hears(a, m) == \E p : a = Runner(m) /\ Arrives(m, p) /\ Frames(a, m, journal[p].st)
Retries(a, m) == a = Runner(m) /\ Returns(m) /\ call[a].pc = "raised" /\ Frames(a, m, "failed")
Settles(a, m) ==
    \E s \in Sweeps, new \in SUBSET Nat :
        /\ a = Sweep(s) /\ Stores(s, m, new)
        /\ \/ Ingests(a, m, new) /\ log'[m] # "none" /\ Frames(a, m, log'[m])
           \/ Still /\ ~Reachable(a) /\ Frames(a, m, "failed")

(* A handler that enters the coordinator carries the status it was given,  *)
(* and keeps the run only of a turn that completed.                        *)
LEMMA FinalizingFrames ==
    ASSUME NEW a, NEW m, NEW s, NEW pc, NEW why
    PROVE  /\ call'[a] = Finalizing(pc, m, s, FALSE, why) => Frames(a, m, s)
           /\ call'[a] = Finalizing(pc, m, s, Keeps(m, s), why) => Frames(a, m, s)
  <1>1. ASSUME NEW keep \in BOOLEAN, call'[a] = Finalizing(pc, m, s, keep, why)
        PROVE  call'[a].msg = m /\ call'[a].st = s /\ (~call'[a].clear => keep)
    <2>1. call'[a].msg = m /\ call'[a].st = s /\ call'[a].clear = ~keep
      BY <1>1 DEF Finalizing, Frame
    <2>2. CASE keep = TRUE
      BY <2>1, <2>2
    <2>3. CASE keep = FALSE
      <3>1. call'[a].clear
        BY <2>1, <2>3, Zenon
      <3> QED
        BY <2>1, <3>1
    <2> QED
      BY <1>1, <2>2, <2>3
  <1>2. Keeps(m, s) \in BOOLEAN /\ (Keeps(m, s) => s = "completed")
    BY DEF Keeps
  <1> QED
    BY <1>1, <1>2 DEF Frames

(* These are the ways into the coordinator.                                *)
LEMMA FramesBefore ==
    ASSUME IInv, Effects, NEW a \in Actors, NEW m \in Requests,
           call'[a].pc \in {"project", "finish"}, call'[a].msg = m
    PROVE  \/ Goes(a, m) \/ Repairs(a, m) \/ Concludes(a, m)
           \/ Gives(a, m) \/ Hears(a, m) \/ Retries(a, m) \/ Settles(a, m)
  <1>1. CASE Same(a)
    BY <1>1 DEF Same, Goes, Finalizes
  <1>2. CASE Coordinates(a)
    BY <1>2 DEF Coordinates, Projects, Finishes, FinishNext, Withdraws, Trips, Goes, Finalizes
  <1>3. CASE Crashes
    BY <1>3 DEF Crashes
  <1>4. ASSUME NEW r \in Requests, a = Prepare(r), ByRequest(r) \/ Launches(r)
        PROVE  Repairs(a, m) \/ Concludes(a, m)
    <2>1. CASE Begins(r)
      <3>1. call'[a].pc # "sync" /\ call'[a] # At("recover", holder)
        BY DEF At, Frame
      <3>2. ~Running /\ call'[a] = Finalizing("finish", holder, verdict[holder], FALSE, "repair")
        BY <1>4, <2>1, <3>1 DEF Begins
      <3>3. Frames(a, holder, verdict[holder])
        BY <3>2, FinalizingFrames
      <3>4. holder = m
        BY <3>3 DEF Frames
      <3> QED
        BY <1>4, <2>1, <3>2, <3>3, <3>4 DEF Repairs
    <2>2. CASE Recovers(r)
      <3> DEFINE t == call[a].msg
      <3>1. \/ /\ log[t] # "none" /\ UNCHANGED <<log, durable>>
               /\ call'[a] = Finalizing("project", t, log[t], Keeps(t, log[t]), "recover")
            \/ /\ log[t] = "none" /\ ~Reachable(a)
               /\ call'[a] = Finalizing("project", t, "failed", FALSE, "recover")
        BY <1>4, <2>2 DEF Recovers
      <3>2. \/ log[t] # "none" /\ UNCHANGED <<log, durable>> /\ Frames(a, t, log[t])
            \/ log[t] = "none" /\ ~Reachable(a) /\ Frames(a, t, "failed")
        BY <3>1, FinalizingFrames
      <3>3. t = m
        BY <3>2 DEF Frames
      <3> QED
        BY <1>4, <2>2, <3>2, <3>3 DEF Concludes
    <2>3. CASE Passes(r) \/ Advances(r) \/ RollsBack(r) \/ Replaces(r) \/ Wins(r) \/ Launches(r)
      BY <1>4, <2>3 DEF Passes, PassPc, Advances, RollsBack, Replaces, Wins, Launches
    <2> QED
      BY <1>4, <2>1, <2>2, <2>3 DEF ByRequest
  <1>5. ASSUME NEW r \in Requests, a = Runner(r), ByRunner(r) \/ Launches(r)
        PROVE  Gives(a, m) \/ Hears(a, m) \/ Retries(a, m)
    <2>1. CASE Launches(r) \/ Attaches(r) \/ Sends(r)
      BY <1>5, <2>1 DEF Launches, Attaches, Sends, At, Frame
    <2>2. CASE Breaks(r)
      <3>1. Frames(a, r, "failed")
        BY <1>5, <2>2, FinalizingFrames DEF Breaks
      <3>2. r = m
        BY <3>1 DEF Frames
      <3> QED
        BY <1>5, <2>2, <3>1, <3>2 DEF Gives
    <2>3. CASE Returns(r)
      <3>1. call[a].pc = "raised" /\ Frames(a, r, "failed")
        BY <1>5, <2>3, FinalizingFrames DEF Returns
      <3>2. r = m
        BY <3>1 DEF Frames
      <3> QED
        BY <1>5, <2>3, <3>1, <3>2 DEF Retries
    <2>4. ASSUME NEW p, Arrives(r, p)
          PROVE  Hears(a, m)
      <3>1. Frames(a, r, journal[p].st)
        BY <1>5, <2>4, FinalizingFrames DEF Arrives
      <3>2. r = m
        BY <3>1 DEF Frames
      <3> QED
        BY <1>5, <2>4, <3>1, <3>2 DEF Hears
    <2> QED
      BY <1>5, <2>1, <2>2, <2>3, <2>4 DEF ByRunner
  <1>6. ASSUME NEW s \in Sweeps, a = Sweep(s), BySweep(s)
        PROVE  Settles(a, m)
    <2>1. CASE Looks(s) \/ Rests(s)
      BY <1>6, <2>1 DEF Looks, Rests, At, Frame
    <2>2. ASSUME NEW t \in Requests, NEW new \in SUBSET Nat, Stores(s, t, new)
          PROVE  Settles(a, m)
      <3>1. \/ Ingests(a, t, new) /\ log'[t] # "none" /\ Frames(a, t, log'[t])
            \/ Still /\ ~Reachable(a) /\ Frames(a, t, "failed")
        BY <1>6, <2>2, FinalizingFrames DEF Stores, Ingests
      <3>2. t = m
        BY <3>1 DEF Frames
      <3> QED
        BY <1>6, <2>2, <3>1, <3>2 DEF Settles
    <2> QED
      BY <1>6, <2>1, <2>2 DEF BySweep
  <1> QED
    BY <1>1, <1>2, <1>3, <1>4, <1>5, <1>6, WhoActs

(* Whose log a step writes, and with what.                                 *)
LEMMA FailureLog ==
    ASSUME TypeOK, NEW m \in Requests, PersistFailure(m)
    PROVE  /\ log'[m] = "failed" /\ \A q \in Requests : q # m => log'[q] = log[q]
           /\ durable' = durable \cup {<<m, "failed", None>>} /\ stored' = stored
  BY DEF PersistFailure, TypeOK

(* Storing events of a turn changes no other turn's log, and none if there *)
(* is nothing to store.                                                    *)
LEMMA NativeLog ==
    ASSUME TypeOK, NEW m \in Requests, NEW P, PersistNative(m, P)
    PROVE  /\ \A q \in Requests : q # m => log'[q] = log[q]
           /\ log'[m] = log[m] \/ P # {}
  BY DEF PersistNative, TypeOK

(* A turn's log is written by its runner, by the sweep, or by a recovery   *)
(* that finds the session gone.                                            *)
LEMMA LogEffects ==
    ASSUME IInv, Effects, NEW q \in Requests
    PROVE  \/ log'[q] = log[q]
           \/ \E r \in Requests : Recovers(r) /\ q = call[Prepare(r)].msg /\ PersistFailure(q)
                                  /\ log[q] = "none" /\ ~Reachable(Prepare(r))
           \/ Breaks(q) /\ PersistFailure(q)
           \/ \E p : Arrives(q, p)
           \/ \E s \in Sweeps, new \in SUBSET Nat : Stores(s, q, new)
  <1>0. TypeOK
    BY DEF IInv
  <1>1. ASSUME NEW r \in Requests,
               \/ Begins(r) \/ Passes(r) \/ Advances(r) \/ Launches(r) \/ RollsBack(r) \/ Wins(r) \/ Replaces(r)
               \/ Attaches(r) \/ Sends(r) \/ Returns(r)
        PROVE  log' = log
    BY <1>1 DEF Begins, Passes, Advances, Launches, RollsBack, Wins, Replaces, Attaches, Sends, Returns
  <1>2. ASSUME NEW r \in Requests, Recovers(r)
        PROVE  \/ log'[q] = log[q]
               \/ /\ q = call[Prepare(r)].msg /\ PersistFailure(q)
                  /\ log[q] = "none" /\ ~Reachable(Prepare(r))
    <2>1. CASE log' = log
      BY <2>1
    <2>2. CASE /\ PersistFailure(call[Prepare(r)].msg)
               /\ log[call[Prepare(r)].msg] = "none" /\ ~Reachable(Prepare(r))
      BY <1>0, <1>2, <2>2, FailureLog DEF Recovers
    <2> QED
      BY <1>2, <2>1, <2>2 DEF Recovers
  <1>3. ASSUME NEW r \in Requests, Breaks(r)
        PROVE  log'[q] = log[q] \/ (q = r /\ PersistFailure(q))
    BY <1>0, <1>3, FailureLog DEF Breaks
  <1>4. ASSUME NEW r \in Requests, NEW p, Arrives(r, p)
        PROVE  log'[q] = log[q] \/ q = r
    BY <1>0, <1>4, NativeLog DEF Arrives
  <1>5. ASSUME NEW s \in Sweeps, NEW t \in Requests, NEW new \in SUBSET Nat, Stores(s, t, new)
        PROVE  log'[q] = log[q] \/ q = t
    BY <1>0, <1>5, NativeLog, FailureLog DEF Stores, Ingests
  <1>6. ASSUME NEW s \in Sweeps, Looks(s) \/ Rests(s)
        PROVE  log' = log
    BY <1>6 DEF Looks, Rests
  <1>7. ASSUME NEW a \in Actors, Projects(a) \/ Finishes(a) \/ Withdraws(a) \/ Trips(a)
        PROVE  log' = log
    BY <1>7 DEF Projects, Finishes, Withdraws, Trips
  <1>8. Ends \/ Loses \/ Crashes \/ UNCHANGED vars => log' = log
    BY DEF Ends, Loses, Crashes, vars, events
  <1> QED
    BY <1>1, <1>2, <1>3, <1>4, <1>5, <1>6, <1>7, <1>8 DEF Effects

(* Only a turn that was claimed has a log.                                 *)
LEMMA LogClaimedStep ==
    ASSUME IInv, [Next]_vars, LogClaimed, Effects
    PROVE  LogClaimed'
  <1> SUFFICES ASSUME NEW q \in Requests, log'[q] # "none"
               PROVE  Claimed(q)
    BY VerdictsStay DEF LogClaimed
  <1>1. \A a \in Actors : call[a].pc \in WorkingPc => Claimed(call[a].msg)
    BY DEF IInv, FrameInv
  <1>2. \A r \in Requests : call[Runner(r)].pc \in WorkingPc => call[Runner(r)].msg = r
    BY DEF IInv, FrameInv
  <1>3. CASE log'[q] = log[q]
    BY <1>3 DEF LogClaimed
  <1>4. ASSUME NEW r \in Requests, Recovers(r), q = call[Prepare(r)].msg
        PROVE  Claimed(q)
    BY <1>1, <1>4, ActorsKnown DEF Recovers, WorkingPc
  <1>5. CASE Breaks(q) \/ \E p : Arrives(q, p)
    BY <1>1, <1>2, <1>5, ActorsKnown DEF Breaks, Arrives, OnHost, WorkingPc
  <1>6. ASSUME NEW s \in Sweeps, NEW new, Stores(s, q, new)
        PROVE  Claimed(q)
    BY <1>1, <1>6, ActorsKnown DEF Stores, WorkingPc
  <1> QED
    BY <1>3, <1>4, <1>5, <1>6, LogEffects

(* Only a coordinator of a completed turn keeps the run in the session     *)
(* row.                                                                    *)
LEMMA KeepersStep ==
    ASSUME IInv, [Next]_vars, KeepersComplete, Effects
    PROVE  KeepersComplete'
  <1> SUFFICES ASSUME NEW a \in Actors, call'[a].pc \in {"project", "finish"}, ~call'[a].clear
               PROVE  call'[a].st = "completed"
    BY DEF KeepersComplete
  <1>1. call'[a].msg \in Requests
    BY FramesStep DEF FrameInv, WorkingPc, FinalizerPc, Claimed
  <1>2. PICK m \in Requests : m = call'[a].msg
    BY <1>1
  <1>3. \/ Goes(a, m)
        \/ \E s : Frames(a, m, s)
    BY <1>2, FramesBefore DEF Repairs, Concludes, Gives, Hears, Retries, Settles
  <1> QED
    BY <1>3 DEF Goes, Finalizes, Frames, KeepersComplete

(* While nothing fails no runner comes back from the coordinator with an   *)
(* error.                                                                  *)
LEMMA NoneRaisedStep ==
    ASSUME IInv, [Next]_vars, Effects, RowsExist, NoneRaised
    PROVE  NoneRaised'
  <1> SUFFICES ASSUME Steady', NEW r \in Requests, call'[Runner(r)].pc = "raised"
               PROVE  FALSE
    BY DEF NoneRaised
  <1>1. Steady /\ faults' = faults /\ faults \in Nat
    BY SteadyBefore DEF IInv, TypeOK
  <1>2. RunnerMoves(r)
    BY RunnerEffects DEF IInv
  <1>3. call[Runner(r)].pc # "raised"
    BY <1>1 DEF NoneRaised
  <1>4. ~Trips(Runner(r))
    BY <1>1 DEF Trips
  <1>5. Projects(Runner(r)) /\ call[Runner(r)].pc = "project"
    BY <1>2, <1>3, <1>4 DEF RunnerMoves
  <1>6. call[Runner(r)].msg = r /\ r \in rows
    BY <1>5 DEF IInv, FrameInv, WorkingPc, FinalizerPc, RowsExist
  <1> QED
    BY <1>5, <1>6 DEF Projects

(* Together.                                                               *)
Grounded ==
    /\ OneCarrier /\ RunRowInv /\ RowsExist /\ LogClaimed /\ HostInv
    /\ ReadBefore /\ CurrentRow /\ KeepersComplete /\ NoneRaised
GroundInv == Uncancelled => Grounded

(* The conjuncts of Grounded are inductive together, until somebody        *)
(* cancels.                                                                *)
LEMMA GroundStep ==
    ASSUME IInv, [Next]_vars, GroundInv
    PROVE  GroundInv'
  <1> SUFFICES ASSUME Uncancelled'
               PROVE  Grounded'
    BY DEF GroundInv
  <1>1. TypeOK /\ Uncancelled /\ Effects
    BY UncancelledBefore, MovesHaveEffects DEF IInv
  <1>2. /\ OneCarrier /\ RunRowInv /\ RowsExist /\ LogClaimed /\ HostInv
        /\ ReadBefore /\ CurrentRow /\ KeepersComplete /\ NoneRaised
    BY <1>1 DEF GroundInv, Grounded
  <1>3. OneCarrier' /\ RunRowInv' /\ RowsExist' /\ LogClaimed'
    BY <1>1, <1>2, OneCarrierStep, RunRowStep, RowsExistStep, LogClaimedStep
  <1>4. HostInv' /\ ReadBefore' /\ CurrentRow' /\ KeepersComplete' /\ NoneRaised'
    BY <1>1, <1>2, HostStep, ReadBeforeStep, CurrentRowStep, KeepersStep, NoneRaisedStep
  <1> QED
    BY <1>3, <1>4 DEF Grounded

(* They hold at the start, where no handler has begun.                     *)
LEMMA InitGround == Init => GroundInv
  <1> SUFFICES ASSUME Init
               PROVE  GroundInv
    OBVIOUS
  <1>1. \A a \in Actors : call[a] = At("new", None) /\ seen[a] = [gen |-> 0, at |-> 0]
    BY DEF Init
  <1>2. \A a \in Actors : call[a].pc = "new" /\ seen[a].gen = 0
    BY <1>1 DEF At, Frame
  <1>3. OneCarrier /\ RowsExist /\ CurrentRow /\ KeepersComplete /\ NoneRaised
    BY <1>2, ActorsKnown DEF Init, OneCarrier, RowsExist, WorkingPc, FinalizerPc, CurrentRow, Carries,
                             Tracks, Recovering, Admitting, OnHost, KeepersComplete, NoneRaised
  <1>4. RunRowInv /\ LogClaimed /\ HostInv /\ ReadBefore
    BY <1>2, NoneAssumption DEF Init, RunRowInv, NoRun, LogClaimed, HostInv, ReadBefore
  <1> QED
    BY <1>3, <1>4 DEF GroundInv, Grounded

------------------------------------------------------------------------------
(* What the host still has to say about the turn that runs, while nothing  *)
(* has failed: a turn is sent to an idle agent with every earlier event    *)
(* ingested, and whoever decides that it is over has seen its last event.  *)
Settling(m) == log[m] # "none" \/ \E a \in Actors : Finalizes(a, m)
Watches(a, m) == Carries(a, m) \/ Tracks(a, m)
Done(m) == ~session \/ (~Unsent(m) /\ queue = <<>> /\ End <= cursor)

LastEvent == session => End + Len(queue) <= cursor + 1
IdleAgent ==
    session /\ (\A m \in Requests : Runs(m) => Unsent(m)) => queue = <<>> /\ End <= cursor
QueueRuns == \A r \in Requests : r \in Range(queue) => Runs(r) /\ ~Unsent(r)
UnsentRuns ==
    \A a \in Actors, r \in Requests : Carries(a, r) /\ Unsent(r) /\ Reachable(a) => Runs(r)
SettledDone == \A m \in Requests : Runs(m) /\ Settling(m) => Done(m)
WatchBound ==
    \A a \in Actors, m \in Requests :
        Watches(a, m) /\ Runs(m) /\ session =>
            /\ End + Len(queue) <= seen[a].at + 1
            /\ Unsent(m) => End <= seen[a].at
SentOnce == LastEvent /\ IdleAgent /\ QueueRuns /\ UnsentRuns /\ SettledDone /\ WatchBound

(* Positions and lengths are natural numbers.                              *)
LEMMA Numbers ==
    ASSUME TypeOK
    PROVE  /\ End \in Nat /\ Len(queue) \in Nat /\ cursor \in Nat
           /\ \A a \in Actors : seen[a].at \in Nat /\ seen[a].gen \in Nat
           /\ Len(queue) = 0 => queue = <<>>
           /\ queue = <<>> => Len(queue) = 0
  BY JournalType DEF TypeOK, End

(* The agent finishes the oldest turn of its queue.                        *)
LEMMA EndsMoves ==
    ASSUME TypeOK, Ends
    PROVE  /\ End' = End + 1 /\ Len(queue) = Len(queue') + 1 /\ Len(queue') \in Nat
           /\ \A r \in Requests : r \in Range(queue') => r \in Range(queue)
           /\ queue[1] \in Requests /\ queue[1] \in Range(queue)
           /\ \A p \in 1..End' : p \in 1..End \/ journal'[p].turn = queue[1]
           /\ \A p \in 1..End : journal'[p] = journal[p]
  <1>0. queue \in Seq(Requests) /\ queue # <<>> /\ queue' = Tail(queue)
    BY DEF TypeOK, Ends
  <1>1. Len(queue) \in Nat /\ Len(queue) # 0
    BY <1>0
  <1>t. Len(queue') \in Nat
    <2>1. queue' \in Seq(Requests)
      BY <1>0
    <2> QED
      BY <2>1
  <1>2. Len(queue) = Len(queue') + 1 /\ \A i \in 1..Len(queue') : queue'[i] = queue[i + 1] /\ i + 1 \in 1..Len(queue)
    BY <1>0, <1>1
  <1>3. queue[1] \in Requests /\ 1 \in DOMAIN queue
    BY <1>0, <1>1
  <1>4. \A r \in Requests : r \in Range(queue') => r \in Range(queue)
    <2>1. DOMAIN queue' = 1..Len(queue') /\ DOMAIN queue = 1..Len(queue)
      BY <1>0
    <2> QED
      BY <1>2, <2>1 DEF Range
  <1>5. PICK s \in Terminal : journal' = Append(journal, [turn |-> queue[1], st |-> s])
    BY DEF Ends
  <1> DEFINE Event == [turn : Requests, st : Terminal]
  <1>6. journal \in Seq(Event) /\ [turn |-> queue[1], st |-> s] \in Event
    BY <1>3 DEF TypeOK
  <1>7. PICK e \in Event : e = [turn |-> queue[1], st |-> s]
    BY <1>6
  <1>8. e.turn = queue[1] /\ journal' = Append(journal, e)
    BY <1>5, <1>7
  <1>9. /\ Len(journal) \in Nat /\ Len(journal') = Len(journal) + 1
        /\ \A p \in 1..Len(journal) : journal'[p] = journal[p]
        /\ journal'[Len(journal) + 1] = e
    <2> HIDE DEF Event
    <2> QED
      BY <1>6, <1>8
  <1>10. \A p \in 1..Len(journal') : p \in 1..Len(journal) \/ p = Len(journal) + 1
    BY <1>9
  <1>11. \A p \in 1..Len(journal') : p \in 1..Len(journal) \/ journal'[p].turn = queue[1]
    BY <1>8, <1>9, <1>10
  <1> QED
    BY <1>2, <1>3, <1>4, <1>9, <1>11, <1>t DEF Range, End

(* What a step does to binding, agent and journal.                         *)
LEMMA CoreEffects ==
    ASSUME Effects
    PROVE  \/ Still
           \/ \E r \in Requests : \/ RollsBack(r) \/ Wins(r) \/ Replaces(r) \/ Sends(r)
                                  \/ \E p : Arrives(r, p)
           \/ \E s \in Sweeps, m \in Requests, new \in SUBSET Nat :
                  Stores(s, m, new) /\ Ingests(Sweep(s), m, new)
           \/ \E a \in Actors : Finishes(a) /\ call[a].msg \in Requests
           \/ Ends \/ Loses
  <1>1. ASSUME NEW r \in Requests, Begins(r) \/ Recovers(r) \/ Passes(r) \/ Advances(r) \/ Launches(r)
                                   \/ Attaches(r) \/ Breaks(r) \/ Returns(r)
        PROVE  Still
    BY <1>1 DEF Begins, Recovers, Passes, Advances, Launches, Attaches, Breaks, Returns
  <1>2. ASSUME NEW s \in Sweeps, Looks(s) \/ Rests(s)
        PROVE  Still
    BY <1>2 DEF Looks, Rests
  <1>3. ASSUME NEW s \in Sweeps, NEW m \in Requests, NEW new \in SUBSET Nat, Stores(s, m, new)
        PROVE  Still \/ Ingests(Sweep(s), m, new)
    BY <1>3 DEF Stores
  <1>4. ASSUME NEW a \in Actors, Projects(a) \/ Withdraws(a) \/ Trips(a)
        PROVE  Still
    BY <1>4 DEF Projects, Withdraws, Trips
  <1>5. Crashes \/ UNCHANGED vars => Still
    BY DEF Crashes, Still, vars, claim, events, host
  <1> QED
    BY <1>1, <1>2, <1>3, <1>4, <1>5 DEF Effects

(* Once sent a turn is not sent again, and it stops running only when its  *)
(* admission is rolled back or a coordinator finishes it.                  *)
LEMMA UnsentBefore ==
    ASSUME TypeOK, Effects, NEW m \in Requests, Unsent(m)'
    PROVE  Unsent(m) \/ Wins(m)
  <1>1. RequestMoves(m) /\ RunnerMoves(m)
    BY RequestEffects, RunnerEffects
  <1>2. call'[Prepare(m)].pc \in Admitting => call[Prepare(m)].pc \in Admitting \/ Wins(m)
    BY <1>1 DEF RequestMoves, Admitting, Early, Left, FinalizerPc
  <1>3. call'[Runner(m)].pc \in {"attach", "send"}
            => call[Runner(m)].pc \in {"attach", "send"} \/ Launches(m)
    BY <1>1 DEF RunnerMoves
  <1>4. Launches(m) => Unsent(m)
    BY DEF Launches, Unsent, Admitting
  <1> QED
    BY <1>2, <1>3, <1>4 DEF Unsent

(* A running turn goes on running, unless its admission is rolled back or  *)
(* a coordinator finishes it.                                              *)
LEMMA RunsAfter ==
    ASSUME IInv, Effects, NEW m \in Requests, Runs(m)
    PROVE  \/ Runs(m)'
           \/ RollsBack(m)
           \/ \E a \in Actors : Finishes(a) /\ call[a].msg = m
  <1>1. CASE verdict' = verdict
    BY <1>1 DEF Runs
  <1>2. ASSUME NEW r \in Requests, RollsBack(r)
        PROVE  Runs(m)' \/ r = m
    BY <1>2 DEF RollsBack, Runs
  <1>3. ASSUME NEW a \in Actors, Finishes(a)
        PROVE  Runs(m)' \/ call[a].msg = m
    BY <1>3 DEF Finishes, Runs
  <1>4. ASSUME NEW r \in Requests, Wins(r)
        PROVE  Runs(m)'
    BY <1>4 DEF Wins, Runs
  <1>5. ASSUME NEW r \in Requests, Replaces(r) \/ Sends(r) \/ \E p : Arrives(r, p)
        PROVE  verdict' = verdict
    BY <1>5 DEF Replaces, Sends, Arrives
  <1>6. ASSUME NEW s \in Sweeps, NEW t \in Requests, NEW new \in SUBSET Nat, Ingests(Sweep(s), t, new)
        PROVE  verdict' = verdict
    BY <1>6 DEF Ingests
  <1>7. Still \/ Ends \/ Loses => verdict' = verdict
    BY DEF Still, Ends, Loses
  <1> QED
    BY <1>1, <1>2, <1>3, <1>4, <1>5, <1>6, <1>7, CoreEffects

(* One turn runs at a time.                                                *)
LEMMA OnlyOneRuns ==
    ASSUME IInv, NEW m \in Requests, Runs(m), NEW q \in Requests, Runs(q)
    PROVE  q = m
  BY IdleRunsNothing

(* Storing events moves the cursor forward, over the events stored.        *)
LEMMA CursorGrows ==
    ASSUME TypeOK
    PROVE  /\ \A r \in Requests : \A p : Arrives(r, p) => cursor' \in Nat /\ cursor <= cursor' /\ p <= cursor' /\ p \in 1..End
           /\ \A a \in Actors, m \in Requests : \A new : Ingests(a, m, new)
                => cursor' \in Nat /\ cursor <= cursor' /\ (new # {} => End <= cursor' /\ seen[a].at + 1 <= End)
  <1>0. End \in Nat /\ cursor \in Nat /\ \A a \in Actors : seen[a].at \in Nat
    BY Numbers
  <1>1. ASSUME NEW r \in Requests, NEW p, Arrives(r, p)
        PROVE  cursor' \in Nat /\ cursor <= cursor' /\ p <= cursor' /\ p \in 1..End
    BY <1>0, <1>1 DEF Arrives, Larger
  <1>2. ASSUME NEW a \in Actors, NEW m \in Requests, NEW new, Ingests(a, m, new)
        PROVE  cursor' \in Nat /\ cursor <= cursor' /\ (new # {} => End <= cursor' /\ seen[a].at + 1 <= End)
    BY <1>0, <1>2 DEF Ingests, Larger
  <1> QED
    BY <1>1, <1>2

(* A turn that runs is found over only by the runner and the sweep, from   *)
(* events of the host.                                                     *)
LEMMA SettlingBefore ==
    ASSUME IInv, Effects, CurrentRow, NoneRaised, Steady, faults' = faults,
           NEW m \in Requests, Runs(m), session, Settling(m)'
    PROVE  \/ Settling(m)
           \/ \E p : Arrives(m, p)
           \/ \E s \in Sweeps, new \in SUBSET Nat :
                  Stores(s, m, new) /\ Ingests(Sweep(s), m, new) /\ new # {}
  <1>0. TypeOK /\ faults \in Nat /\ Running
    BY IdleRunsNothing DEF IInv, TypeOK
  <1>1. \A a \in Actors : Carries(a, m) \/ Tracks(a, m) \/ Recovering(a, m) => Reachable(a)
    BY DEF CurrentRow, Reachable
  <1>2. ASSUME NEW r \in Requests, Recovers(r), call[Prepare(r)].msg = m
        PROVE  Reachable(Prepare(r))
    <2>1. Recovering(Prepare(r), m) /\ Prepare(r) \in Actors
      BY <1>2, ActorsKnown DEF Recovers, Recovering
    <2> QED
      BY <1>1, <2>1
  <1>3. ~Breaks(m)
    <2>1. Breaks(m) => Carries(Runner(m), m) /\ ~Reachable(Runner(m)) /\ Runner(m) \in Actors
      BY <1>0, ActorsKnown DEF Breaks, Carries
    <2> QED
      BY <1>1, <2>1
  <1>4. ASSUME NEW s \in Sweeps, NEW new \in SUBSET Nat, Stores(s, m, new)
        PROVE  Reachable(Sweep(s))
    <2>1. Tracks(Sweep(s), m) /\ Sweep(s) \in Actors
      BY <1>4, ActorsKnown DEF Stores, Tracks
    <2> QED
      BY <1>1, <2>1
  <1>5. ASSUME NEW s \in Sweeps, NEW new \in SUBSET Nat, Stores(s, m, new), Ingests(Sweep(s), m, new),
               log'[m] # "none", log[m] = "none"
        PROVE  new # {}
    BY <1>0, <1>5, NativeLog DEF Ingests
  <1>6. CASE log'[m] # "none" /\ log[m] = "none"
    <2>1. ASSUME NEW s \in Sweeps, NEW new \in SUBSET Nat, Stores(s, m, new)
          PROVE  Ingests(Sweep(s), m, new) /\ new # {}
      BY <1>4, <1>5, <1>6, <2>1 DEF Stores
    <2> QED
      BY <1>2, <1>3, <1>6, <2>1, LogEffects
  <1>7. ASSUME NEW a \in Actors, call'[a].pc \in {"project", "finish"}, call'[a].msg = m, log[m] = "none"
        PROVE  \/ Finalizes(a, m)
               \/ \E p : Arrives(m, p)
               \/ \E s \in Sweeps, new \in SUBSET Nat :
                      Stores(s, m, new) /\ Ingests(Sweep(s), m, new) /\ new # {}
    <2>1. ~Repairs(a, m) /\ ~Gives(a, m)
      BY <1>0, <1>3 DEF Repairs, Gives
    <2>2. ~Concludes(a, m)
      BY <1>2, <1>7 DEF Concludes
    <2>3. ~Retries(a, m)
      BY DEF Retries, NoneRaised
    <2>4. Hears(a, m) => \E p : Arrives(m, p)
      BY DEF Hears
    <2>5. Settles(a, m) => \E s \in Sweeps, new \in SUBSET Nat :
                      Stores(s, m, new) /\ Ingests(Sweep(s), m, new) /\ new # {}
      BY <1>4, <1>5, <1>7 DEF Settles
    <2>6. Goes(a, m) => Finalizes(a, m)
      BY DEF Goes
    <2> QED
      BY <1>7, <2>1, <2>2, <2>3, <2>4, <2>5, <2>6, FramesBefore
  <1> QED
    BY <1>6, <1>7 DEF Settling, Finalizes

(* A turn is sent to an agent that has nothing to do.                      *)
LEMMA SendsIdle ==
    ASSUME IInv, OneCarrier, IdleAgent, UnsentRuns, NEW r \in Requests, Sends(r)
    PROVE  /\ Runs(r) /\ Unsent(r) /\ ~Unsent(r)'
           /\ session /\ queue = <<>> /\ End <= cursor
  <1>0. Runner(r) \in Actors /\ Prepare(r) \in Actors /\ Prepare(r) # Runner(r)
    BY ActorsKnown, ActorsDistinct
  <1>1. Carries(Runner(r), r) /\ Unsent(r) /\ Reachable(Runner(r))
    BY DEF Sends, Carries, OnHost, Unsent
  <1>2. Runs(r) /\ session
    BY <1>0, <1>1 DEF UnsentRuns, Reachable
  <1>3. queue = <<>> /\ End <= cursor
    BY <1>1, <1>2, OnlyOneRuns DEF IdleAgent
  <1>4. call'[Runner(r)].pc = "stream" /\ call'[Prepare(r)].pc = call[Prepare(r)].pc
    BY <1>0 DEF Sends, Alone
  <1>5. call[Prepare(r)].pc \in Left
    BY DEF Sends, OneCarrier
  <1> QED
    BY <1>1, <1>2, <1>3, <1>4, <1>5 DEF Unsent, Left, Admitting

(* Who touches the host.                                                   *)
LEMMA HostMoves ==
    ASSUME IInv, Effects
    PROVE  \/ UNCHANGED <<session, queue, journal, gen>> /\ cursor <= cursor' /\ cursor' \in Nat
           \/ \E r \in Requests : Replaces(r) \/ Sends(r)
           \/ Ends \/ Loses
  <1>0. TypeOK /\ cursor \in Nat
    BY DEF IInv, TypeOK
  <1>1. ASSUME UNCHANGED <<session, queue, journal, gen, cursor>>
        PROVE  UNCHANGED <<session, queue, journal, gen>> /\ cursor <= cursor' /\ cursor' \in Nat
    BY <1>0, <1>1
  <1>2. CASE Still
    BY <1>1, <1>2 DEF Still
  <1>3. ASSUME NEW r \in Requests, RollsBack(r) \/ Wins(r)
        PROVE  UNCHANGED <<session, queue, journal, gen, cursor>>
    BY <1>3 DEF RollsBack, Wins
  <1>4. ASSUME NEW r \in Requests, NEW p, Arrives(r, p)
        PROVE  UNCHANGED <<session, queue, journal, gen>> /\ cursor <= cursor' /\ cursor' \in Nat
    BY <1>0, <1>4, CursorGrows DEF Arrives
  <1>5. ASSUME NEW s \in Sweeps, NEW m \in Requests, NEW new \in SUBSET Nat, Ingests(Sweep(s), m, new)
        PROVE  UNCHANGED <<session, queue, journal, gen>> /\ cursor <= cursor' /\ cursor' \in Nat
    <2>1. Sweep(s) \in Actors
      BY ActorsKnown
    <2> QED
      BY <1>0, <1>5, <2>1, CursorGrows DEF Ingests
  <1>6. ASSUME NEW a \in Actors, Finishes(a)
        PROVE  UNCHANGED <<session, queue, journal, gen, cursor>>
    BY <1>6 DEF Finishes
  <1> QED
    BY <1>1, <1>2, <1>3, <1>4, <1>5, <1>6, CoreEffects

(* What a turn that has been sent and still runs becomes: it goes on, or a *)
(* coordinator finishes it once the host has nothing left to say.          *)
LEMMA SentStays ==
    ASSUME IInv, Effects, SettledDone, NEW m \in Requests, Runs(m), ~Unsent(m)
    PROVE  /\ ~Unsent(m)'
           /\ Runs(m)' \/ (Done(m) /\ \E a \in Actors : Finishes(a))
  <1>0. TypeOK /\ Running
    BY IdleRunsNothing DEF IInv
  <1>1. ~Unsent(m)'
    BY <1>0, UnsentBefore DEF Wins
  <1>2. ~RollsBack(m)
    BY DEF RollsBack, Unsent, Admitting
  <1>3. ASSUME NEW a \in Actors, Finishes(a), call[a].msg = m
        PROVE  Done(m)
    BY <1>3 DEF Finishes, Finalizes, Settling, SettledDone
  <1> QED
    BY <1>1, <1>2, <1>3, RunsAfter

(* At most one terminal event is still to be ingested.                     *)
LEMMA LastEventStep ==
    ASSUME IInv, Effects, OneCarrier, LastEvent, IdleAgent, UnsentRuns
    PROVE  LastEvent'
  <1> SUFFICES ASSUME session'
               PROVE  End' + Len(queue') <= cursor' + 1
    BY DEF LastEvent
  <1>0. TypeOK
    BY DEF IInv
  <1> PICK e \in Nat, l \in Nat, c \in Nat : e = End /\ l = Len(queue) /\ c = cursor
    BY <1>0, Numbers
  <1>1. CASE UNCHANGED <<session, queue, journal, gen>> /\ cursor <= cursor' /\ cursor' \in Nat
    <2> PICK d \in Nat : d = cursor'
      BY <1>1
    <2>1. e + l <= c + 1 /\ c <= d
      BY <1>1 DEF LastEvent
    <2>2. e + l <= d + 1
      BY <2>1
    <2> QED
      BY <1>1, <2>2 DEF End
  <1>2. ASSUME NEW r \in Requests, Replaces(r)
        PROVE  End' + Len(queue') <= cursor' + 1
    BY <1>2 DEF Replaces, End
  <1>3. ASSUME NEW r \in Requests, Sends(r)
        PROVE  End' + Len(queue') <= cursor' + 1
    <2>1. queue = <<>> /\ e <= c
      BY <1>3, SendsIdle
    <2>2. queue' = Append(queue, r) /\ End' = e /\ cursor' = c
      BY <1>3 DEF Sends, End
    <2>3. Len(queue') = 1
      BY <2>1, <2>2
    <2> QED
      BY <2>1, <2>2, <2>3
  <1>4. CASE Ends
    <2> PICK k \in Nat, f \in Nat : k = Len(queue') /\ f = e + 1
      BY <1>0, <1>4, EndsMoves
    <2>1. End' = f /\ l = k + 1
      BY <1>0, <1>4, EndsMoves
    <2>2. session /\ cursor' = c
      BY <1>4 DEF Ends
    <2>3. e + l <= c + 1
      BY <2>2 DEF LastEvent
    <2>4. f + k <= c + 1
      BY <2>1, <2>3
    <2> QED
      BY <2>1, <2>2, <2>4
  <1>5. CASE Loses
    BY <1>5 DEF Loses
  <1> QED
    BY <1>1, <1>2, <1>3, <1>4, <1>5, HostMoves

(* While no turn that was sent is running the agent is idle and everything *)
(* has been ingested.                                                      *)
LEMMA IdleAgentStep ==
    ASSUME IInv, Effects, OneCarrier, IdleAgent, UnsentRuns, SettledDone
    PROVE  IdleAgent'
  <1> SUFFICES ASSUME session', \A m \in Requests : Runs(m)' => Unsent(m)'
               PROVE  queue' = <<>> /\ End' <= cursor'
    BY DEF IdleAgent
  <1>0. TypeOK
    BY DEF IInv
  <1> PICK e \in Nat, c \in Nat : e = End /\ c = cursor
    BY <1>0, Numbers
  <1>1. ASSUME NEW r \in Requests, Replaces(r)
        PROVE  queue' = <<>> /\ End' <= cursor'
    BY <1>1 DEF Replaces, End
  <1>2. ~Loses
    BY DEF Loses
  <1>3. ~\E r \in Requests : Sends(r)
    <2>1. ASSUME NEW r \in Requests, Sends(r)
          PROVE  FALSE
      <3>1. Runs(r)' /\ ~Unsent(r)'
        BY <2>1, SendsIdle DEF Sends, Runs
      <3> QED
        BY <3>1
    <2> QED
      BY <2>1
  <1>4. CASE session /\ \A m \in Requests : Runs(m) => Unsent(m)
    <2>1. queue = <<>> /\ e <= c
      BY <1>4 DEF IdleAgent
    <2>2. ~Ends
      BY <2>1 DEF Ends
    <2>3. ASSUME UNCHANGED <<session, queue, journal, gen>>, cursor <= cursor', cursor' \in Nat
          PROVE  queue' = <<>> /\ End' <= cursor'
      <3> PICK d \in Nat : d = cursor'
        BY <2>3
      <3>1. e <= d /\ End' = e
        BY <2>1, <2>3 DEF End
      <3> QED
        BY <2>1, <2>3, <3>1
    <2> QED
      BY <1>1, <1>2, <1>3, <2>2, <2>3, HostMoves
  <1>5. ASSUME NEW m \in Requests, Runs(m), ~Unsent(m), session
        PROVE  queue' = <<>> /\ End' <= cursor'
    <2>1. ~Runs(m)'
      BY <1>5, SentStays
    <2>2. Done(m) /\ \E a \in Actors : Finishes(a)
      BY <1>5, <2>1, SentStays
    <2>3. queue = <<>> /\ End <= cursor
      BY <1>5, <2>2 DEF Done
    <2>4. queue' = queue /\ End' = End /\ cursor' = cursor
      BY <2>2 DEF Finishes, End
    <2> QED
      BY <2>3, <2>4
  <1>6. CASE ~session
    <2>1. ~Ends
      BY <1>6 DEF Ends
    <2> QED
      BY <1>1, <1>2, <1>3, <1>6, <2>1, HostMoves
  <1> QED
    BY <1>4, <1>5, <1>6

(* The agent works on turns that run.                                      *)
LEMMA QueueRunsStep ==
    ASSUME IInv, Effects, OneCarrier, HostInv, IdleAgent, QueueRuns, UnsentRuns, SettledDone
    PROVE  QueueRuns'
  <1> SUFFICES ASSUME NEW r \in Requests, r \in Range(queue')
               PROVE  Runs(r)' /\ ~Unsent(r)'
    BY DEF QueueRuns
  <1>0. TypeOK
    BY DEF IInv
  <1>e. Range(<<>>) = {}
    BY DEF Range
  <1>1. CASE r \in Range(queue)
    <2>1. Runs(r) /\ ~Unsent(r) /\ queue # <<>>
      BY <1>1, <1>e DEF QueueRuns
    <2>2. ~Done(r)
      BY <2>1 DEF Done, HostInv
    <2> QED
      BY <2>1, <2>2, SentStays
  <1>2. ASSUME NEW q \in Requests, Sends(q), r \notin Range(queue)
        PROVE  Runs(r)' /\ ~Unsent(r)'
    <2>1. queue = <<>> /\ queue' = Append(queue, q)
      BY <1>2, SendsIdle DEF Sends
    <2>2. Len(queue') = 1 /\ queue'[1] = q /\ DOMAIN queue' = {1}
      BY <2>1
    <2>3. r = q
      BY <2>2 DEF Range
    <2> QED
      BY <1>2, <2>3, SendsIdle DEF Sends, Runs
  <1>3. ASSUME NEW q \in Requests, Replaces(q)
        PROVE  FALSE
    BY <1>3, <1>e DEF Replaces
  <1>4. Ends => r \in Range(queue)
    BY <1>0, EndsMoves
  <1>5. ~Loses
    BY <1>e DEF Loses
  <1> QED
    BY <1>1, <1>2, <1>3, <1>4, <1>5, HostMoves

(* A request that has given its claim back leaves nothing to send.         *)
LEMMA RolledBack ==
    ASSUME TypeOK, OneCarrier, NEW r \in Requests, RollsBack(r)
    PROVE  ~Unsent(r)'
  <1>1. call[Runner(r)].pc = "new" /\ call'[Prepare(r)].pc = "gone"
    BY DEF RollsBack, OneCarrier, Left
  <1>2. call'[Runner(r)] = call[Runner(r)]
    BY ActorsKnown, ActorsDistinct DEF RollsBack, Alone
  <1> QED
    BY <1>1, <1>2 DEF Unsent, Admitting

(* A carrier that can still send its turn carries one that runs.           *)
LEMMA UnsentRunsStep ==
    ASSUME IInv, Effects, OneCarrier, ReadBefore, UnsentRuns, SettledDone
    PROVE  UnsentRuns'
  <1> SUFFICES ASSUME NEW a \in Actors, NEW r \in Requests, Carries(a, r)', Unsent(r)', Reachable(a)'
               PROVE  Runs(r)'
    BY DEF UnsentRuns
  <1>0. TypeOK /\ Prepare(r) \in Actors
    BY ActorsKnown DEF IInv
  <1>1. CASE Wins(r)
    BY <1>1 DEF Wins, Runs
  <1>2. ASSUME ~Wins(r), NEW b \in Actors, Carries(b, r), seen'[a].gen = seen[b].gen
        PROVE  Runs(r)'
    <2>1. ~\E q \in Requests : Replaces(q)
      <3>1. ASSUME NEW q \in Requests, Replaces(q)
            PROVE  FALSE
        <4> PICK g \in Nat, h \in Nat : g = gen /\ h = seen[b].gen
          BY <1>0, Numbers DEF TypeOK
        <4>1. h <= g /\ h = g + 1
          BY <1>2, <3>1 DEF Replaces, ReadBefore, Reachable
        <4> QED
          BY <4>1
      <3> QED
        BY <3>1
    <2>2. session /\ gen' = gen
      BY <2>1, HostMoves DEF Ends, Loses, Sends, Reachable
    <2>3. Unsent(r) /\ Reachable(b)
      BY <1>0, <1>2, <2>2, UnsentBefore DEF Reachable
    <2>4. Runs(r)
      BY <1>2, <2>3 DEF UnsentRuns
    <2>5. ~RollsBack(r)
      BY <1>0, RolledBack
    <2>6. ASSUME NEW f \in Actors, Finishes(f), call[f].msg = r
          PROVE  FALSE
      <3>1. Done(r)
        BY <2>4, <2>6 DEF Finishes, Finalizes, Settling, SettledDone
      <3> QED
        BY <2>2, <2>3, <3>1 DEF Done
    <2> QED
      BY <2>4, <2>5, <2>6, RunsAfter
  <1>3. CASE Carries(a, r) /\ (seen'[a] = seen[a] \/ (a = Runner(r) /\ Attaches(r)))
    <2>1. seen'[a].gen = seen[a].gen
      BY <1>3 DEF Attaches
    <2> QED
      BY <1>1, <1>2, <1>3, <2>1
  <1>4. CASE a = Runner(r) /\ Launches(r)
    <2>1. Carries(Prepare(r), r) /\ seen'[a].gen = seen[Prepare(r)].gen
      BY <1>4 DEF Launches, Carries, Admitting
    <2> QED
      BY <1>0, <1>1, <1>2, <2>1
  <1> QED
    BY <1>0, <1>1, <1>3, <1>4, CarriesBefore

(* When a running turn is found over the host has nothing left to say      *)
(* about it.                                                               *)
LEMMA SettledDoneStep ==
    ASSUME IInv, Effects, Steady, faults' = faults, OneCarrier, LogClaimed, CurrentRow, NoneRaised,
           IdleAgent, UnsentRuns, SettledDone, WatchBound
    PROVE  SettledDone'
  <1> SUFFICES ASSUME NEW m \in Requests, Runs(m)', Settling(m)', session'
               PROVE  ~Unsent(m)' /\ queue' = <<>> /\ End' <= cursor'
    BY DEF SettledDone, Done
  <1>0. TypeOK
    BY DEF IInv
  <1> PICK e \in Nat, c \in Nat, l \in Nat : e = End /\ c = cursor /\ l = Len(queue)
    BY <1>0, Numbers
  <1>1. ~Wins(m)
    <2>1. ASSUME Wins(m)
          PROVE  FALSE
      <3>1. ~Claimed(m) /\ \A a \in Actors : call[a].pc \in WorkingPc => call[a].msg # m
        BY <2>1, UnclaimedIsIdle
      <3>2. log'[m] = "none"
        BY <2>1, <3>1 DEF Wins, LogClaimed
      <3>3. PICK a \in Actors : call'[a].pc \in {"project", "finish"} /\ call'[a].msg = m
        BY <3>2 DEF Settling, Finalizes
      <3>4. a # Prepare(m)
        BY <2>1, <3>3 DEF Wins
      <3>5. call'[a] = call[a]
        BY <2>1, <3>4 DEF Wins, Alone
      <3> QED
        BY <3>1, <3>3, <3>5 DEF WorkingPc, FinalizerPc
    <2> QED
      BY <2>1
  <1>2. Runs(m) /\ Running
    BY <1>1, RunsBefore, IdleRunsNothing
  <1>3. ~\E r \in Requests : Replaces(r)
    BY <1>2 DEF Replaces
  <1>4. session
    BY <1>3, HostMoves DEF Sends, Ends, Loses
  <1>5. CASE Settling(m)
    <2>1. ~Unsent(m) /\ queue = <<>> /\ e <= c
      BY <1>2, <1>4, <1>5 DEF SettledDone, Done
    <2>2. ~Unsent(m)'
      BY <1>2, <2>1, SentStays
    <2>3. ~\E r \in Requests : Sends(r)
      BY <1>2, <2>1, SendsIdle, OnlyOneRuns
    <2>4. UNCHANGED <<session, queue, journal, gen>> /\ cursor <= cursor' /\ cursor' \in Nat
      BY <1>3, <2>1, <2>3, HostMoves DEF Ends, Loses
    <2> PICK d \in Nat : d = cursor'
      BY <2>4
    <2>5. End' = e /\ e <= d
      BY <2>1, <2>4 DEF End
    <2> QED
      BY <2>1, <2>2, <2>4, <2>5
  <1>6. ASSUME NEW p, Arrives(m, p)
        PROVE  ~Unsent(m)' /\ queue' = <<>> /\ End' <= cursor'
    <2> PICK x \in Nat, d \in Nat : x = seen[Runner(m)].at /\ d = cursor'
      BY <1>0, <1>6, ActorsKnown, Numbers, CursorGrows
    <2>1. Runner(m) \in Actors /\ Watches(Runner(m), m) /\ ~Unsent(m)
      BY <1>6, ActorsKnown DEF Arrives, Watches, Carries, OnHost, Unsent, OneCarrier, Admitting, Left
    <2>2. e + l <= x + 1
      BY <1>2, <1>4, <2>1 DEF WatchBound
    <2>a. p = x + 1
      BY <1>6 DEF Arrives
    <2>b. p \in 1..End /\ p <= cursor'
      BY <1>0, <1>6, CursorGrows
    <2>3. p = x + 1 /\ p <= e /\ p <= d
      BY <2>a, <2>b
    <2>4. l = 0 /\ e <= d
      BY <2>2, <2>3
    <2>5. queue' = queue /\ End' = e
      BY <1>6 DEF Arrives, End
    <2>6. queue = <<>>
      BY <1>0, <2>4, Numbers
    <2> QED
      BY <1>2, <2>1, <2>4, <2>5, <2>6, SentStays
  <1>7. ASSUME NEW s \in Sweeps, NEW new \in SUBSET Nat,
               Stores(s, m, new), Ingests(Sweep(s), m, new), new # {}
        PROVE  ~Unsent(m)' /\ queue' = <<>> /\ End' <= cursor'
    <2>0. Sweep(s) \in Actors /\ Watches(Sweep(s), m)
      BY <1>7, ActorsKnown DEF Stores, Watches, Tracks
    <2> PICK x \in Nat, d \in Nat : x = seen[Sweep(s)].at /\ d = cursor'
      BY <1>0, <1>7, <2>0, Numbers, CursorGrows
    <2>1. e + l <= x + 1 /\ (Unsent(m) => e <= x)
      BY <1>2, <1>4, <2>0 DEF WatchBound
    <2>2. x + 1 <= e /\ e <= d
      BY <1>0, <1>7, <2>0, CursorGrows
    <2>3. l = 0 /\ ~Unsent(m)
      BY <2>1, <2>2
    <2>4. queue' = queue /\ End' = e
      BY <1>7 DEF Ingests, End
    <2>5. queue = <<>>
      BY <1>0, <2>3, Numbers
    <2> QED
      BY <1>2, <2>2, <2>3, <2>4, <2>5, SentStays
  <1> QED
    BY <1>2, <1>4, <1>5, <1>6, <1>7, SettlingBefore

(* What a reader knows of the journal stays true while the agent works.    *)
Bounds(x, m) ==
    /\ End + Len(queue) <= x + 1
    /\ Unsent(m) => End <= x

(* A bound on the journal survives every step in which the turn keeps      *)
(* running and the session is there.                                       *)
LEMMA BoundsStay ==
    ASSUME IInv, Effects, OneCarrier, IdleAgent, UnsentRuns,
           NEW m \in Requests, Runs(m), session', NEW x \in Nat, Bounds(x, m)
    PROVE  Bounds(x, m)'
  <1>0. TypeOK /\ Running
    BY IdleRunsNothing DEF IInv
  <1> PICK e \in Nat, l \in Nat : e = End /\ l = Len(queue)
    BY <1>0, Numbers
  <1>1. Unsent(m)' => Unsent(m)
    BY <1>0, UnsentBefore DEF Wins
  <1>2. ~\E r \in Requests : Replaces(r)
    BY <1>0 DEF Replaces
  <1>3. CASE UNCHANGED <<session, queue, journal, gen>>
    BY <1>1, <1>3 DEF Bounds, End
  <1>4. ASSUME NEW r \in Requests, Sends(r)
        PROVE  Bounds(x, m)'
    <2>1. r = m /\ Unsent(m) /\ ~Unsent(m)' /\ queue = <<>>
      BY <1>4, SendsIdle, OnlyOneRuns
    <2>2. e <= x /\ e + 1 <= x + 1
      BY <2>1 DEF Bounds
    <2>3. Len(queue') = 1 /\ End' = e
      BY <1>4, <2>1 DEF Sends, End
    <2> QED
      BY <2>1, <2>2, <2>3 DEF Bounds
  <1>5. CASE Ends
    <2> PICK k \in Nat, f \in Nat : k = Len(queue') /\ f = e + 1
      BY <1>0, <1>5, EndsMoves
    <2>1. End' = f /\ l = k + 1
      BY <1>0, <1>5, EndsMoves
    <2>2. f + k <= x + 1
      BY <2>1 DEF Bounds
    <2>3. ~Unsent(m)
      BY <1>5, OnlyOneRuns DEF Ends, IdleAgent
    <2> QED
      BY <1>1, <2>1, <2>2, <2>3 DEF Bounds
  <1>6. ~Loses
    BY DEF Loses
  <1> QED
    BY <1>2, <1>3, <1>4, <1>5, <1>6, HostMoves

(* The binding row as it stands bounds the journal.                        *)
LEMMA RowBounds ==
    ASSUME IInv, LastEvent, IdleAgent, session, NEW m \in Requests,
           \A q \in Requests : Runs(q) => q = m
    PROVE  Bounds(cursor, m)
  <1>1. End + Len(queue) <= cursor + 1
    BY DEF LastEvent
  <1>2. Unsent(m) => End <= cursor
    BY DEF IdleAgent
  <1> QED
    BY <1>1, <1>2 DEF Bounds

(* Who watches a running turn is behind the journal by one event at most.  *)
LEMMA WatchBoundStep ==
    ASSUME IInv, Effects, Steady, faults' = faults, OneCarrier,
           LastEvent, IdleAgent, UnsentRuns, WatchBound
    PROVE  WatchBound'
  <1> SUFFICES ASSUME NEW a \in Actors, NEW m \in Requests, Watches(a, m)', Runs(m)', session',
                      NEW y, y = seen'[a].at
               PROVE  Bounds(y, m)'
    BY DEF WatchBound, Bounds
  <1>0. TypeOK /\ faults \in Nat /\ Prepare(m) \in Actors
    BY ActorsKnown DEF IInv, TypeOK
  <1> PICK e \in Nat, l \in Nat : e = End /\ l = Len(queue)
    BY <1>0, Numbers
  <1>1. CASE Wins(m)
    <2>1. \A b \in Actors : ~Carries(b, m) /\ ~Tracks(b, m)
      BY <1>1, UnclaimedIsIdle
    <2>2. ~Launches(m) /\ ~Running
      BY <1>1 DEF Wins, Launches
    <2>3. a = Prepare(m)
      BY <1>0, <2>1, <2>2, CarriesBefore, TracksBefore DEF Watches
    <2>4. UNCHANGED <<session, queue, journal>>
      BY <1>1 DEF Wins
    <2>8. y = cursor
      BY <1>1, <2>3 DEF Wins, Row
    <2>5. \A q \in Requests : Runs(q) => q = m
      BY <2>2, IdleRunsNothing
    <2>6. queue = <<>> /\ End <= cursor
      BY <2>2, <2>4, IdleRunsNothing DEF IdleAgent
    <2>7. End + Len(queue) <= cursor + 1
      BY <2>4 DEF LastEvent
    <2>9. End' = End
      BY <2>4 DEF End
    <2> QED
      BY <2>4, <2>6, <2>7, <2>8, <2>9 DEF Bounds
  <1>2. ASSUME ~Wins(m)
        PROVE  Bounds(y, m)'
    <2>1. Runs(m) /\ Running
      BY <1>2, RunsBefore, IdleRunsNothing
    <2>2. session
      BY <2>1, HostMoves DEF Replaces, Sends, Ends, Loses
    <2>3. \A q \in Requests : Runs(q) => q = m
      BY <2>1, OnlyOneRuns
    <2>4. ASSUME NEW b \in Actors, Watches(b, m), y = seen[b].at
          PROVE  Bounds(y, m)'
      <3> PICK x \in Nat : x = seen[b].at
        BY <1>0, <2>4, Numbers
      <3>1. Bounds(x, m)
        BY <2>1, <2>2, <2>4 DEF WatchBound, Bounds
      <3>2. Bounds(x, m)'
        BY <2>1, <3>1, BoundsStay
      <3> QED
        BY <2>4, <3>2
    <2>5. CASE Carries(a, m) /\ seen'[a] = seen[a]
      BY <2>4, <2>5 DEF Watches
    <2>6. CASE Tracks(a, m) /\ Same(a)
      BY <2>4, <2>6 DEF Watches, Same
    <2>7. CASE a = Runner(m) /\ Launches(m)
      <3>1. Watches(Prepare(m), m) /\ y = seen[Prepare(m)].at
        BY <2>7 DEF Launches, Watches, Carries, Admitting
      <3> QED
        BY <1>0, <2>4, <3>1
    <2>8. CASE a = Runner(m) /\ Attaches(m)
      <3>a. faults' # faults + 1
        BY <1>0
      <3>b. y = e /\ Unsent(m)
        BY <2>8, <3>a DEF Attaches, Unsent
      <3>1. y = e /\ UNCHANGED <<session, queue, journal>> /\ Unsent(m)
        BY <2>8, <3>b DEF Attaches, Still
      <3>2. l = 0 /\ End' = e /\ Len(queue') = 0
        BY <2>2, <2>3, <3>1 DEF IdleAgent, End
      <3>3. e + 0 <= e + 1 /\ e <= e
        OBVIOUS
      <3> QED
        BY <3>1, <3>2, <3>3 DEF Bounds
    <2>9. ASSUME NEW s \in Sweeps, a = Sweep(s), Looks(s)
          PROVE  Bounds(y, m)'
      <3> PICK c \in Nat : c = cursor
        BY <1>0, Numbers
      <3>1. y = c
        BY <2>9 DEF Looks, Row
      <3>2. Bounds(c, m)
        BY <2>2, <2>3, RowBounds
      <3>3. Bounds(c, m)'
        BY <2>1, <3>2, BoundsStay
      <3> QED
        BY <3>1, <3>3
    <2> QED
      BY <1>0, <1>2, <2>5, <2>6, <2>7, <2>8, <2>9, CarriesBefore, TracksBefore DEF Watches
  <1> QED
    BY <1>1, <1>2

SentInv == Steady => SentOnce

(* The conjuncts of SentOnce are inductive together, while nothing fails   *)
(* and nobody cancels.                                                     *)
LEMMA SentStep ==
    ASSUME IInv, [Next]_vars, GroundInv, SentInv
    PROVE  SentInv'
  <1> SUFFICES ASSUME Steady'
               PROVE  SentOnce'
    BY DEF SentInv
  <1>1. Steady /\ faults' = faults /\ Effects
    BY SteadyBefore, UncancelledBefore, MovesHaveEffects DEF Steady
  <1>2. OneCarrier /\ LogClaimed /\ HostInv /\ ReadBefore /\ CurrentRow /\ NoneRaised
    BY <1>1 DEF GroundInv, Grounded, Steady
  <1>3. LastEvent /\ IdleAgent /\ QueueRuns /\ UnsentRuns /\ SettledDone /\ WatchBound
    BY <1>1 DEF SentInv, SentOnce
  <1>4. LastEvent' /\ IdleAgent' /\ QueueRuns' /\ UnsentRuns'
    BY <1>1, <1>2, <1>3, LastEventStep, IdleAgentStep, QueueRunsStep, UnsentRunsStep
  <1>5. SettledDone' /\ WatchBound'
    BY <1>1, <1>2, <1>3, SettledDoneStep, WatchBoundStep
  <1> QED
    BY <1>4, <1>5 DEF SentOnce

(* They hold at the start: the agent is idle and nothing has been stored.  *)
LEMMA InitSent == Init => SentInv
  <1> SUFFICES ASSUME Init
               PROVE  SentOnce
    BY DEF SentInv
  <1>1. \A a \in Actors : call[a].pc = "new"
    BY DEF Init, At, Frame
  <1>2. \A r \in Requests : ~Runs(r)
    <2>1. ASSUME NEW r \in Requests
          PROVE  verdict[r] = "none"
      BY Zenon DEF Init
    <2>2. "none" # "running"
      OBVIOUS
    <2> QED
      BY <2>1, <2>2, Zenon DEF Runs
  <1>4. \A r \in Requests, a \in Actors : ~Carries(a, r)
    BY <1>1 DEF Admitting, Carries, OnHost
  <1>3. Len(queue) = 0 /\ End = 0 /\ cursor = 0 /\ queue = <<>> /\ Range(queue) = {}
    BY DEF Init, End, Range
  <1>5. LastEvent /\ IdleAgent /\ QueueRuns
    BY <1>3 DEF LastEvent, IdleAgent, QueueRuns
  <1>6. UnsentRuns /\ SettledDone /\ WatchBound
    BY <1>2, <1>4 DEF UnsentRuns, SettledDone, WatchBound
  <1> QED
    BY <1>5, <1>6 DEF SentOnce

------------------------------------------------------------------------------
(* What the session shows, while nothing has failed and the host has kept  *)
(* its sessions: a turn that is still to be sent runs, and a running turn  *)
(* that has reached its launch is the one the session shows.               *)
UnsentRun == \A r \in Requests : Unsent(r) => Runs(r)
RunShown ==
    \A r \in Requests :
        Runs(r) /\ (call[Prepare(r)].pc = "launch" \/ call[Runner(r)].pc \in OnHost) => run.msg = r
VisibleInv == Steady /\ losses = 0 => UnsentRun /\ RunShown

(* Both facts about what the session shows are preserved while nothing     *)
(* fails and no session is lost.                                           *)
LEMMA VisibleStep ==
    ASSUME IInv, [Next]_vars, GroundInv, SentInv, VisibleInv
    PROVE  VisibleInv'
  <1> SUFFICES ASSUME Steady', losses' = 0
               PROVE  UnsentRun' /\ RunShown'
    BY DEF VisibleInv
  <1>0. TypeOK /\ Steady /\ losses = 0 /\ Effects
    BY SteadyBefore, UncancelledBefore, MovesHaveEffects DEF Steady, IInv
  <1>1. OneCarrier /\ HostInv /\ SettledDone /\ UnsentRun /\ RunShown
    BY <1>0 DEF GroundInv, Grounded, SentInv, SentOnce, VisibleInv, Steady
  <1>2. ASSUME NEW r \in Requests, Unsent(r)'
        PROVE  Runs(r)'
    <2>1. CASE Wins(r)
      BY <2>1 DEF Wins, Runs
    <2>2. CASE Unsent(r)
      <3>1. Runs(r) /\ ~RollsBack(r) /\ ~Done(r)
        BY <1>0, <1>1, <1>2, <2>2, RolledBack DEF UnsentRun, HostInv, Done
      <3>2. ASSUME NEW a \in Actors, Finishes(a), call[a].msg = r
            PROVE  FALSE
        BY <1>1, <3>1, <3>2 DEF Finishes, Finalizes, Settling, SettledDone
      <3> QED
        BY <1>0, <3>1, <3>2, RunsAfter
    <2> QED
      BY <1>0, <1>2, <2>1, <2>2, UnsentBefore
  <1>3. ASSUME NEW r \in Requests, Runs(r)', call'[Prepare(r)].pc = "launch" \/ call'[Runner(r)].pc \in OnHost
        PROVE  run'.msg = r
    <2>1. RequestMoves(r) /\ RunnerMoves(r)
      BY <1>0, RequestEffects, RunnerEffects
    <2>2. CASE Advances(r) /\ call[Prepare(r)].pc = "mark"
      BY <2>2 DEF Advances
    <2>3. CASE call[Prepare(r)].pc = "launch" \/ call[Runner(r)].pc \in OnHost
      <3>1. ~Wins(r)
        BY <1>1, <2>3, UnclaimedIsIdle DEF OnHost
      <3>2. Runs(r) /\ run.msg = r
        BY <1>0, <1>1, <1>3, <2>3, <3>1, RunsBefore DEF RunShown
      <3>3. ASSUME NEW q \in Requests, call[Prepare(q)].pc = "mark"
            PROVE  q = r
        <4>1. Runs(q)
          BY <1>1, <3>3 DEF UnsentRun, Unsent, Admitting
        <4> QED
          BY <3>2, <4>1, OnlyOneRuns
      <3>4. ASSUME NEW a \in Actors, call[a].pc \in {"clear", "suspend"}, call[a].msg = r
            PROVE  FALSE
        BY <3>2, <3>4 DEF IInv, CoordinatorInv, Runs, Terminal
      <3> QED
        BY <1>0, <3>2, <3>3, <3>4, RunEffects
    <2>4. Launches(r) => call[Prepare(r)].pc = "launch"
      BY DEF Launches
    <2> QED
      BY <1>3, <2>1, <2>2, <2>3, <2>4 DEF RequestMoves, RunnerMoves, Early, Left, FinalizerPc, OnHost
  <1> QED
    BY <1>2, <1>3 DEF UnsentRun, RunShown

(* At the start nothing has been sent and no run is shown.                 *)
LEMMA InitVisible == Init => VisibleInv
  <1> SUFFICES ASSUME Init
               PROVE  UnsentRun /\ RunShown
    BY DEF VisibleInv
  <1>1. \A a \in Actors : call[a].pc = "new"
    BY DEF Init, At, Frame
  <1>2. \A r \in Requests : call[Prepare(r)].pc = "new" /\ call[Runner(r)].pc = "new"
    BY <1>1, ActorsKnown, Zenon
  <1> QED
    BY <1>2 DEF UnsentRun, RunShown, Unsent, Admitting, OnHost

(* What is at work at rest, while nothing has failed and no process has    *)
(* crashed: a running turn has a carrier or a runner in the coordinator,   *)
(* and so has a run the session shows.                                     *)
RunAttended ==
    \A m \in Requests :
        Runs(m) => \/ call[Prepare(m)].pc \in Admitting
                   \/ call[Runner(m)].pc \in OnHost \cup {"project", "finish"}
ShownAttended ==
    \A m \in Requests :
        run.msg = m /\ run.st = "running"
            => call[Prepare(m)].pc = "launch" \/ call[Runner(m)].pc \in OnHost \cup FinalizerPc
RestInv == Steady /\ crashes = 0 => RunAttended /\ ShownAttended

(* Both facts about what is at work are preserved while nothing fails or   *)
(* crashes.                                                                *)
LEMMA RestStep ==
    ASSUME IInv, [Next]_vars, GroundInv, RestInv
    PROVE  RestInv'
  <1> SUFFICES ASSUME Steady', crashes' = 0
               PROVE  RunAttended' /\ ShownAttended'
    BY DEF RestInv
  <1>0. /\ TypeOK /\ Steady /\ crashes = 0 /\ Effects /\ faults' = faults
        /\ faults \in Nat /\ crashes \in Nat
    BY SteadyBefore, UncancelledBefore, MovesHaveEffects DEF Steady, IInv, TypeOK
  <1>1. OneCarrier /\ RunAttended /\ ShownAttended
    BY <1>0 DEF GroundInv, Grounded, RestInv, Steady
  <1>2. ~Crashes /\ \A a : ~Trips(a)
    BY <1>0 DEF Crashes, Trips
  <1>3. \A r \in Requests : call'[Runner(r)].pc # "raised"
    <2>1. Grounded' /\ Steady'
      BY GroundStep DEF GroundInv, Steady
    <2> QED
      BY <2>1 DEF Grounded, NoneRaised
  <1>4. \A r \in Requests : call[Runner(r)].pc \in FinalizerPc => call[Runner(r)].msg = r
    BY DEF IInv, FrameInv, WorkingPc
  <1>5. ASSUME NEW m \in Requests, Runs(m)'
        PROVE  \/ call'[Prepare(m)].pc \in Admitting
               \/ call'[Runner(m)].pc \in OnHost \cup {"project", "finish"}
    <2>1. RequestMoves(m) /\ RunnerMoves(m)
      BY <1>0, RequestEffects, RunnerEffects
    <2>2. CASE Wins(m)
      BY <2>2 DEF Wins, Admitting
    <2>3. CASE Runs(m) /\ call[Prepare(m)].pc \in Admitting
      <3>1. holder = m
        BY <2>3, IdleRunsNothing
      <3>2. ~RollsBack(m)
        BY <1>5, <2>3, <3>1 DEF RollsBack, Runs
      <3>3. Launches(m) => call'[Runner(m)].pc = "attach"
        BY DEF Launches, At, Frame
      <3> QED
        BY <1>2, <2>1, <2>3, <3>2, <3>3 DEF RequestMoves, Admitting, Early, FinalizerPc, OnHost
    <2>4. CASE Runs(m) /\ call[Runner(m)].pc \in OnHost \cup {"project", "finish"}
      <3>1. holder = m
        BY <2>4, IdleRunsNothing
      <3>2. ~Finishes(Runner(m))
        <4>1. ASSUME Finishes(Runner(m))
              PROVE  FALSE
          <5>1. Runner(m) \in Actors /\ call[Runner(m)].msg = m /\ call[Runner(m)].pc = "finish"
            BY <1>4, <4>1, ActorsKnown DEF Finishes, FinalizerPc
          <5>2. verdict'[m] \in Terminal
            BY <2>4, <3>1, <4>1, <5>1 DEF Finishes, IInv, CoordinatorInv, Runs
          <5> QED
            BY <1>5, <5>2 DEF Runs, Terminal
        <4> QED
          BY <4>1
      <3> QED
        BY <1>2, <1>3, <2>1, <2>4, <3>2 DEF RunnerMoves, OnHost
    <2> QED
      BY <1>0, <1>1, <1>5, <2>2, <2>3, <2>4, RunsBefore DEF RunAttended
  <1>6. ASSUME NEW m \in Requests, run'.msg = m, run'.st = "running"
        PROVE  call'[Prepare(m)].pc = "launch" \/ call'[Runner(m)].pc \in OnHost \cup FinalizerPc
    <2>1. RequestMoves(m) /\ RunnerMoves(m)
      BY <1>0, RequestEffects, RunnerEffects
    <2>2. ASSUME NEW q \in Requests, run' = [msg |-> q, st |-> "running"], call'[Prepare(q)].pc = "launch"
          PROVE  call'[Prepare(m)].pc = "launch"
      BY <1>6, <2>2
    <2>3. run' # NoRun /\ run'.st # "suspended"
      BY <1>6 DEF NoRun
    <2>4. CASE run' = run
      <3>1. run.msg = m /\ run.st = "running"
        BY <1>6, <2>4
      <3>2. CASE call[Prepare(m)].pc = "launch"
        <4>1. Launches(m) => call'[Runner(m)].pc = "attach"
          BY DEF Launches, At, Frame
        <4> QED
          BY <1>2, <2>1, <3>2, <4>1 DEF RequestMoves, Early, FinalizerPc, OnHost
      <3>3. CASE call[Runner(m)].pc \in OnHost \cup FinalizerPc
        <4>1. ASSUME Withdraws(Runner(m)), call[Runner(m)].pc \in {"clear", "suspend"}
              PROVE  FALSE
          <5>1. call[Runner(m)].msg = m
            BY <1>4, <4>1 DEF FinalizerPc
          <5> QED
            BY <2>3, <3>1, <4>1, <5>1 DEF Withdraws
        <4> QED
          BY <1>2, <1>3, <2>1, <3>3, <4>1 DEF RunnerMoves, OnHost, FinalizerPc
      <3> QED
        BY <1>1, <3>1, <3>2, <3>3 DEF ShownAttended
    <2> QED
      BY <1>0, <2>2, <2>3, <2>4, RunEffects
  <1> QED
    BY <1>5, <1>6 DEF RunAttended, ShownAttended

(* At the start nothing runs and no run is shown.                          *)
LEMMA InitRest == Init => RestInv
  <1> SUFFICES ASSUME Init
               PROVE  RunAttended /\ ShownAttended
    BY DEF RestInv
  <1>1. RunAttended
    <2>1. ASSUME NEW r \in Requests
          PROVE  ~Runs(r)
      <3>1. verdict[r] = "none"
        BY Zenon DEF Init
      <3>2. "none" # "running"
        OBVIOUS
      <3> QED
        BY <3>1, <3>2, Zenon DEF Runs
    <2> QED
      BY <2>1 DEF RunAttended
  <1>2. ShownAttended
    BY DEF Init, NoRun, ShownAttended
  <1> QED
    BY <1>1, <1>2

(* Together they are inductive.                                            *)
QuietInv == IInv /\ GroundInv /\ SentInv /\ VisibleInv /\ RestInv

(* The invariant of the conditional properties holds in every reachable    *)
(* state.                                                                  *)
LEMMA QuietInductive == Spec => []QuietInv
  <1>1. QuietInv /\ [Next]_vars => QuietInv'
    BY TypeStep, CompletedStep, AdmissionStep, LockStep, FramesStep, GroundStep, SentStep, VisibleStep, RestStep
       DEF QuietInv, IInv
  <1>2. Init => QuietInv
    BY InitIInv, InitGround, InitSent, InitVisible, InitRest DEF QuietInv
  <1> QED
    BY <1>1, <1>2, PTL DEF Spec

(* Nobody streams unseen: however many requests compete for a Conversation *)
(* and however often the sweep looks in, a runner that streams a running   *)
(* turn is the one the session shows, as long as nothing fails, nobody     *)
(* cancels and the host keeps its sessions.                                *)
THEOREM NobodyStreamsUnseen == Spec => []StreamVisible
  <1>1. QuietInv => StreamVisible
    BY DEF QuietInv, VisibleInv, RunShown, StreamVisible, Runs, OnHost
  <1> QED
    BY <1>1, QuietInductive, PTL

(* While nothing fails, nobody cancels and no process crashes, the binding *)
(* and the session row agree whenever no handler is at work: no lock is    *)
(* held and no run is shown that nobody will end.                          *)
THEOREM RestIsAgreed == Spec => []StoresAgreeAtRest
  <1>1. ASSUME QuietInv, Steady, crashes = 0, AtRest
        PROVE  ~Running /\ run.st # "running"
    <2>1. TypeOK /\ RunRowInv /\ RunAttended /\ ShownAttended
      BY <1>1 DEF QuietInv, IInv, GroundInv, Grounded, RestInv, Steady
    <2>2. \A r \in Requests : /\ call[Prepare(r)].pc \in {"new", "done", "gone"}
                              /\ call[Runner(r)].pc \in {"new", "done", "gone"}
      BY <1>1, ActorsKnown, Zenon DEF AtRest
    <2>3. ~Running
      <3>1. ASSUME Running
            PROVE  FALSE
        <4>1. holder \in Requests /\ Runs(holder)
          BY <2>1, <3>1 DEF Running, Runs, TypeOK
        <4> QED
          BY <2>1, <2>2, <4>1 DEF RunAttended, Admitting, OnHost
      <3> QED
        BY <3>1
    <2>4. run.st # "running"
      <3>1. ASSUME run.st = "running"
            PROVE  FALSE
        <4>1. run.msg \in Requests
          BY <2>1, <3>1 DEF RunRowInv, NoRun, TypeOK
        <4> QED
          BY <2>1, <2>2, <3>1, <4>1 DEF ShownAttended, OnHost, FinalizerPc
      <3> QED
        BY <3>1
    <2> QED
      BY <2>3, <2>4
  <1>2. QuietInv => StoresAgreeAtRest
    BY <1>1 DEF StoresAgreeAtRest
  <1> QED
    BY <1>2, QuietInductive, PTL

(* Before the first cancel a step is one nobody cancels, or that cancel    *)
(* being authorized.                                                       *)
LEMMA MovesOrAuthorizes ==
    ASSUME TypeOK, Uncancelled, [Next]_vars
    PROVE  Moves \/ \E c \in Cancels : CancelAuthorize(c)
  <1>1. ASSUME NEW c \in Cancels, CancelStep(c)
        PROVE  CancelAuthorize(c)
    BY <1>1 DEF Uncancelled, CancelStep, CancelLookup, CancelOrphanRun, CancelStop, CancelQuiet,
                CancelSettle, CancelIngest, CancelReturn, CancelRelease
  <1>2. ASSUME NEW a \in Actors, FinalizerMoves(a)
        PROVE  \A c \in Cancels : a # Cancel(c)
    BY <1>2 DEF Uncancelled, FinalizerMoves, FinalizerStep, Project, Finish, ClearRun, SuspendRun,
                StepFails, FinalizerPc
  <1> QED
    BY <1>1, <1>2 DEF Next, Moves, FinalizerMoves

(* While nothing fails and nobody cancels the session row outlives the     *)
(* claim: the run it shows is withdrawn, suspended or replaced only after  *)
(* that turn has stopped running.                                          *)
THEOREM RunOutlives == Spec => RunOutlivesClaim
  <1>1. ASSUME QuietInv, [Next]_vars, Steady, losses = 0, run # NoRun, run' # run
        PROVE  verdict[run.msg] # "running"
    <2>0. TypeOK /\ IInv /\ RunRowInv /\ UnsentRun /\ Uncancelled
      BY <1>1 DEF QuietInv, IInv, GroundInv, Grounded, VisibleInv, Steady
    <2>1. Effects
      <3>1. ~\E c \in Cancels : CancelAuthorize(c)
        BY <1>1 DEF CancelAuthorize, product
      <3> QED
        BY <1>1, <2>0, <3>1, MovesOrAuthorizes, MovesHaveEffects
    <2>2. run.msg \in Requests
      BY <1>1, <2>0 DEF RunRowInv, TypeOK
    <2>3. ASSUME NEW q \in Requests, call[Prepare(q)].pc = "mark", Runs(run.msg)
          PROVE  FALSE
      <3>1. Runs(q)
        BY <2>0, <2>3 DEF UnsentRun, Unsent, Admitting
      <3>2. run.msg = q
        BY <2>0, <2>2, <2>3, <3>1, OnlyOneRuns
      <3> QED
        BY <2>0, <2>3, <3>2 DEF RunRowInv, Left
    <2>4. ASSUME NEW a \in Actors, call[a].pc \in {"clear", "suspend"}, run.msg = call[a].msg
          PROVE  ~Runs(run.msg)
      BY <2>0, <2>4 DEF IInv, CoordinatorInv, Runs, Terminal
    <2>5. ~Runs(run.msg)
      BY <1>1, <2>1, <2>3, <2>4, RunEffects
    <2> QED
      BY <2>5 DEF Runs
  <1>2. QuietInv /\ [Next]_vars
          => [Steady /\ losses = 0 /\ run # NoRun /\ run' # run => verdict[run.msg] # "running"]_vars
    BY <1>1
  <1> QED
    BY <1>2, QuietInductive, PTL DEF Spec, RunOutlivesClaim

(* While nothing fails and nobody cancels, the agent is only ever sent a   *)
(* turn that holds the admission lock, also after the host has lost the    *)
(* session and the binding has moved to another.                           *)
THEOREM SentTurnsRun == Spec => OnlyClaimedTurnsAreSent
  <1>1. ASSUME QuietInv, [Next]_vars, Steady, NEW r \in Requests, r \in Range(queue'), r \notin Range(queue)
        PROVE  verdict[r] = "running"
    <2>0. TypeOK /\ IInv /\ OneCarrier /\ IdleAgent /\ UnsentRuns /\ Uncancelled
      BY <1>1 DEF QuietInv, IInv, GroundInv, Grounded, SentInv, SentOnce, Steady
    <2>1. Effects
      <3>1. ~\E c \in Cancels : CancelAuthorize(c)
        BY <1>1 DEF CancelAuthorize, host
      <3> QED
        BY <1>1, <2>0, <3>1, MovesOrAuthorizes, MovesHaveEffects
    <2>2. queue' # queue /\ queue' # <<>>
      BY <1>1 DEF Range
    <2>3. ~Ends
      BY <1>1, <2>0, EndsMoves
    <2>4. PICK q \in Requests : Sends(q)
      BY <2>0, <2>1, <2>2, <2>3, HostMoves DEF Replaces, Loses
    <2>5. Runs(q) /\ queue = <<>> /\ queue' = Append(queue, q)
      BY <2>0, <2>4, SendsIdle DEF Sends
    <2>6. Len(queue') = 1 /\ queue'[1] = q /\ DOMAIN queue' = {1}
      BY <2>5
    <2>7. r = q
      BY <1>1, <2>6 DEF Range
    <2> QED
      BY <2>5, <2>7 DEF Runs
  <1>2. QuietInv /\ [Next]_vars
          => [Steady => \A r \in Requests :
                 r \in Range(queue') /\ r \notin Range(queue) => verdict[r] = "running"]_vars
    BY <1>1
  <1> QED
    BY <1>2, QuietInductive, PTL DEF Spec, OnlyClaimedTurnsAreSent

------------------------------------------------------------------------------
(* What is true while no sweep runs beside the turns: the runner is the    *)
(* only reader of the events of its turn, so what it stores is new, and a  *)
(* turn is recorded as completed only from its own log.                    *)
CarrierRuns ==
    \A a \in Actors, r \in Requests : Carries(a, r) /\ Reachable(a) => Runs(r)
SettledAlone == \A m \in Requests : Runs(m) /\ Settling(m) /\ session => ~Carried(m)
StoredBehind == \A p \in stored : p <= cursor
CursorBehind == session => cursor <= End
CarrierFresh ==
    \A a \in Actors, r \in Requests :
        Carries(a, r) /\ Reachable(a) => \A p \in stored : p <= seen[a].at
LogIsDurable ==
    \A m \in Requests : log[m] = "completed" =>
        /\ ~Carried(m)
        /\ \E o \in Requests : <<m, "completed", o>> \in durable
CompletedIsLogged ==
    \A a \in Actors, m \in Requests :
        Finalizes(a, m) /\ call[a].st = "completed" => log[m] = "completed" \/ verdict[m] = "completed"
Exclusive ==
    /\ CarrierRuns /\ SettledAlone
    /\ StoredBehind /\ CursorBehind /\ CarrierFresh
    /\ LogIsDurable /\ CompletedIsLogged
ExclusiveInv == Uncancelled /\ Sweeps = {} => Exclusive

(* A turn that has just been claimed has no log and nobody ends it.        *)
LEMMA WinsFresh ==
    ASSUME IInv, OneCarrier, LogClaimed, NEW m \in Requests, Wins(m)
    PROVE  log[m] = "none" /\ ~Settling(m)'
  <1>1. ~Claimed(m) /\ \A a \in Actors : call[a].pc \in WorkingPc => call[a].msg # m
    BY UnclaimedIsIdle
  <1>2. log[m] = "none" /\ log'[m] = "none"
    BY <1>1 DEF Wins, LogClaimed
  <1>3. ASSUME NEW a \in Actors, call'[a].pc \in {"project", "finish"}, call'[a].msg = m
        PROVE  FALSE
    <2>1. a # Prepare(m)
      BY <1>3 DEF Wins
    <2>2. call'[a] = call[a]
      BY <2>1 DEF Wins, Alone
    <2> QED
      BY <1>1, <1>3, <2>2 DEF WorkingPc, FinalizerPc
  <1> QED
    BY <1>2, <1>3 DEF Settling, Finalizes

(* A turn comes to be carried only by its claim.                           *)
LEMMA CarriedBefore ==
    ASSUME TypeOK, Effects, NEW m \in Requests, Carried(m)'
    PROVE  Carried(m) \/ Wins(m)
  <1>1. PICK a \in Actors : Carries(a, m)'
    BY ActorsKnown DEF Carried, Carries
  <1>2. Launches(m) => Carried(m)
    BY DEF Launches, Carried, Admitting
  <1> QED
    BY <1>1, <1>2, CarriesBefore DEF Carries, Carried

(* A runner that has heard the end of its turn carries it no more.         *)
LEMMA RunnerLeaves ==
    ASSUME TypeOK, OneCarrier, NEW m \in Requests,
           \/ \E p : Arrives(m, p)
           \/ Breaks(m)
           \/ Returns(m) /\ call[Runner(m)].pc = "raised"
    PROVE  ~Carried(m)'
  <1>1. call[Prepare(m)].pc \in Left /\ call'[Prepare(m)] = call[Prepare(m)]
    BY ActorsKnown, ActorsDistinct DEF OneCarrier, Arrives, Breaks, Returns, OnHost, Alone
  <1>2. call'[Runner(m)].pc \in {"project", "finish", "done"}
    <2>1. ASSUME NEW p, Arrives(m, p)
          PROVE  call'[Runner(m)].pc = "project"
      BY <2>1 DEF Arrives, Finalizing, Frame
    <2>2. Breaks(m) => call'[Runner(m)].pc = "project"
      BY DEF Breaks, Finalizing, Frame
    <2>3. Returns(m) => call'[Runner(m)].pc \in {"finish", "done"}
      BY DEF Returns, Finalizing, Frame
    <2> QED
      BY <2>1, <2>2, <2>3
  <1> QED
    BY <1>1, <1>2 DEF Carried, Admitting, OnHost, Left

(* Who carries a turn on the current row did so before, on that row.       *)
LEMMA ReachedBefore ==
    ASSUME IInv, Effects, ReadBefore, NEW a \in Actors, NEW r \in Requests,
           Carries(a, r)', Reachable(a)', ~Wins(r)
    PROVE  /\ session /\ ~\E q \in Requests : Replaces(q)
           /\ \E b \in Actors :
                 /\ Carries(b, r) /\ Reachable(b)
                 /\ seen'[a].at = seen[b].at \/ (Attaches(r) /\ a = Runner(r) /\ seen'[a].at = End)
  <1>0. TypeOK /\ Prepare(r) \in Actors
    BY ActorsKnown DEF IInv
  <1>1. PICK b \in Actors :
             /\ Carries(b, r) /\ seen'[a].gen = seen[b].gen
             /\ seen'[a].at = seen[b].at \/ (Attaches(r) /\ a = Runner(r) /\ seen'[a].at = End)
    <2>1. CASE Carries(a, r) /\ seen'[a] = seen[a]
      BY <2>1
    <2>2. CASE Carries(a, r) /\ a = Runner(r) /\ Attaches(r)
      BY <2>2 DEF Attaches
    <2>3. CASE a = Runner(r) /\ Launches(r)
      BY <1>0, <2>3 DEF Launches, Carries, Admitting
    <2> QED
      BY <1>0, <2>1, <2>2, <2>3, CarriesBefore
  <1>2. ASSUME NEW q \in Requests, Replaces(q)
        PROVE  FALSE
    <2> PICK g \in Nat, h \in Nat : g = gen /\ h = seen[b].gen
      BY <1>0, Numbers DEF TypeOK
    <2>1. h <= g /\ h = g + 1
      BY <1>1, <1>2 DEF Replaces, ReadBefore, Reachable
    <2> QED
      BY <2>1
  <1>3. session /\ gen' = gen
    BY <1>2, HostMoves DEF Ends, Loses, Sends, Reachable
  <1> QED
    BY <1>1, <1>2, <1>3 DEF Reachable

(* Without the sweep, four things end a turn that runs.                    *)
LEMMA SettlesAlone ==
    ASSUME IInv, Effects, CurrentRow, Sweeps = {}, NEW m \in Requests, Runs(m), session, Settling(m)'
    PROVE  \/ Settling(m)
           \/ \E p : Arrives(m, p)
           \/ Breaks(m)
           \/ Returns(m) /\ call[Runner(m)].pc = "raised"
  <1>0. TypeOK /\ Running
    BY IdleRunsNothing DEF IInv
  <1>1. ASSUME NEW r \in Requests, Recovers(r), call[Prepare(r)].msg = m
        PROVE  Reachable(Prepare(r))
    <2>1. Recovering(Prepare(r), m) /\ Prepare(r) \in Actors
      BY <1>1, ActorsKnown DEF Recovers, Recovering
    <2> QED
      BY <2>1 DEF CurrentRow, Reachable
  <1>2. CASE log'[m] # "none" /\ log[m] = "none"
    BY <1>1, <1>2, LogEffects
  <1>3. ASSUME NEW a \in Actors, call'[a].pc \in {"project", "finish"}, call'[a].msg = m, log[m] = "none"
        PROVE  \/ Finalizes(a, m)
               \/ \E p : Arrives(m, p)
               \/ Breaks(m)
               \/ Returns(m) /\ call[Runner(m)].pc = "raised"
    <2>1. ~Repairs(a, m) /\ ~Concludes(a, m) /\ ~Settles(a, m)
      BY <1>0, <1>1, <1>3 DEF Repairs, Concludes, Settles
    <2> QED
      BY <1>3, <2>1, FramesBefore DEF Goes, Gives, Hears, Retries
  <1> QED
    BY <1>2, <1>3 DEF Settling, Finalizes

(* Who carries a turn in the current session carries one that runs.        *)
LEMMA CarrierRunsStep ==
    ASSUME IInv, Effects, OneCarrier, ReadBefore, CarrierRuns, SettledAlone
    PROVE  CarrierRuns'
  <1> SUFFICES ASSUME NEW a \in Actors, NEW r \in Requests, Carries(a, r)', Reachable(a)'
               PROVE  Runs(r)'
    BY DEF CarrierRuns
  <1>1. CASE Wins(r)
    BY <1>1 DEF Wins, Runs
  <1>2. CASE ~Wins(r)
    <2>1. PICK b \in Actors : session /\ Carries(b, r) /\ Reachable(b)
      BY <1>2, ReachedBefore
    <2>2. Runs(r) /\ Carried(r)
      BY <2>1 DEF CarrierRuns, Carries, Carried
    <2>3. ASSUME RollsBack(r)
          PROVE  FALSE
      <3>1. call[Runner(r)].pc = "new" /\ call'[Prepare(r)].pc = "gone"
        BY <2>3 DEF RollsBack, OneCarrier, Left
      <3>2. call'[Runner(r)] = call[Runner(r)]
        BY <2>3, ActorsKnown, ActorsDistinct DEF RollsBack, Alone
      <3> QED
        BY <3>1, <3>2 DEF Carries, Admitting, OnHost
    <2>4. ASSUME NEW f \in Actors, Finishes(f), call[f].msg = r
          PROVE  FALSE
      BY <2>1, <2>2, <2>4 DEF Finishes, Finalizes, Settling, SettledAlone
    <2> QED
      BY <2>2, <2>3, <2>4, RunsAfter
  <1> QED
    BY <1>1, <1>2

(* A running turn that is found over is carried no more.                   *)
LEMMA SettledAloneStep ==
    ASSUME IInv, Effects, Sweeps = {}, OneCarrier, LogClaimed, CurrentRow, SettledAlone
    PROVE  SettledAlone'
  <1> SUFFICES ASSUME NEW m \in Requests, Runs(m)', Settling(m)', session', Carried(m)'
               PROVE  FALSE
    BY DEF SettledAlone
  <1>0. TypeOK
    BY DEF IInv
  <1>1. ~Wins(m)
    BY WinsFresh
  <1>2. Runs(m) /\ Running
    BY <1>1, RunsBefore, IdleRunsNothing
  <1>3. session
    BY <1>2, HostMoves DEF Replaces, Sends, Ends, Loses
  <1>4. Carried(m)
    BY <1>0, <1>1, CarriedBefore
  <1>5. ~Settling(m)
    BY <1>2, <1>3, <1>4 DEF SettledAlone
  <1> QED
    BY <1>0, <1>2, <1>3, <1>5, SettlesAlone, RunnerLeaves

(* The cursor is past everything stored and not past the journal.          *)
LEMMA StoredBehindStep ==
    ASSUME IInv, Effects, Sweeps = {}, StoredBehind, CursorBehind
    PROVE  StoredBehind' /\ CursorBehind'
  <1>0. TypeOK
    BY DEF IInv
  <1> PICK e \in Nat, c \in Nat : e = End /\ c = cursor
    BY <1>0, Numbers
  <1>s. stored \subseteq Nat
    BY <1>0 DEF TypeOK
  <1>1. ASSUME UNCHANGED <<session, queue, journal, cursor, stored>>
        PROVE  StoredBehind' /\ CursorBehind'
    BY <1>1 DEF StoredBehind, CursorBehind, End
  <1>2. CASE Still
    BY <1>1, <1>2 DEF Still
  <1>3. ASSUME NEW r \in Requests, RollsBack(r) \/ Wins(r)
        PROVE  StoredBehind' /\ CursorBehind'
    BY <1>1, <1>3 DEF RollsBack, Wins
  <1>4. ASSUME NEW r \in Requests, Replaces(r)
        PROVE  StoredBehind' /\ CursorBehind'
    BY <1>4 DEF Replaces, StoredBehind, CursorBehind, End
  <1>5. ASSUME NEW r \in Requests, Sends(r)
        PROVE  StoredBehind' /\ CursorBehind'
    BY <1>5 DEF Sends, StoredBehind, CursorBehind, End
  <1>6. ASSUME NEW r \in Requests, NEW p, Arrives(r, p)
        PROVE  StoredBehind' /\ CursorBehind'
    <2>1. stored' \subseteq stored \cup {p}
      BY <1>6 DEF Arrives, PersistNative
    <2> PICK d \in Nat, x \in Nat : d = cursor' /\ x = p /\ c <= d /\ x <= d /\ x <= e
      BY <1>0, <1>6, CursorGrows
    <2>2. d = Larger(c, x)
      BY <1>6 DEF Arrives
    <2>3. StoredBehind'
      <3>1. ASSUME NEW q \in stored'
            PROVE  q <= d
        <4>1. q = x \/ (q \in stored /\ q \in Nat /\ q <= c)
          BY <1>s, <2>1, <3>1 DEF StoredBehind
        <4> QED
          BY <4>1
      <3> QED
        BY <3>1 DEF StoredBehind
    <2>4. session /\ End' = e
      BY <1>6 DEF Arrives, Reachable, End
    <2>5. c <= e
      BY <2>4 DEF CursorBehind
    <2>6. d <= e
      BY <2>2, <2>5 DEF Larger
    <2> QED
      BY <2>3, <2>4, <2>6 DEF CursorBehind
  <1>7. ASSUME NEW a \in Actors, Finishes(a)
        PROVE  StoredBehind' /\ CursorBehind'
    BY <1>1, <1>7 DEF Finishes
  <1>8. CASE Ends
    <2>1. End' = e + 1 /\ session' = session /\ cursor' = c /\ stored' = stored
      BY <1>0, <1>8, EndsMoves DEF Ends
    <2>2. session => c <= e + 1
      BY DEF CursorBehind
    <2> QED
      BY <2>1, <2>2 DEF StoredBehind, CursorBehind
  <1>9. CASE Loses
    BY <1>9 DEF Loses, StoredBehind, CursorBehind
  <1> QED
    BY <1>2, <1>3, <1>4, <1>5, <1>6, <1>7, <1>8, <1>9, CoreEffects

(* Who stores, while no sweep runs.                                        *)
LEMMA StoredGrows ==
    ASSUME IInv, Effects, Sweeps = {}
    PROVE  \/ stored' = stored
           \/ \E q \in Requests : Replaces(q)
           \/ \E q \in Requests : \E p : Arrives(q, p)
  BY CoreEffects DEF Still, RollsBack, Wins, Sends, Finishes, Ends, Loses

(* Nothing is stored past the position a carrier has read.                 *)
LEMMA CarrierFreshStep ==
    ASSUME IInv, Effects, Sweeps = {}, OneCarrier, ReadBefore, CarrierRuns,
           StoredBehind, CursorBehind, CarrierFresh
    PROVE  CarrierFresh'
  <1> SUFFICES ASSUME NEW a \in Actors, NEW r \in Requests, Carries(a, r)', Reachable(a)'
               PROVE  \A p \in stored' : p <= seen'[a].at
    BY DEF CarrierFresh
  <1>0. TypeOK
    BY DEF IInv
  <1>1. CASE Wins(r)
    <2>1. ASSUME NEW b \in Actors, Carries(b, r)
          PROVE  FALSE
      BY <1>1, <2>1, UnclaimedIsIdle
    <2>2. ~Launches(r)
      BY <1>1 DEF Wins, Launches
    <2>3. a = Prepare(r)
      BY <1>0, <2>1, <2>2, CarriesBefore
    <2> QED
      BY <1>1, <2>3 DEF Wins, Row, StoredBehind
  <1>2. CASE ~Wins(r)
    <2>1. PICK b \in Actors :
             /\ session /\ Carries(b, r) /\ Reachable(b)
             /\ seen'[a].at = seen[b].at \/ (Attaches(r) /\ seen'[a].at = End)
      BY <1>2, ReachedBefore
    <2>2. Runs(r)
      BY <2>1 DEF CarrierRuns
    <2>3. ASSUME NEW q \in Requests, NEW p, Arrives(q, p)
          PROVE  FALSE
      <3>1. Runner(q) \in Actors /\ Carries(Runner(q), q) /\ Reachable(Runner(q))
        BY <2>3, ActorsKnown DEF Arrives, Carries, OnHost
      <3>2. q = r
        BY <2>2, <3>1, OnlyOneRuns DEF CarrierRuns
      <3>3. ~Carried(r)'
        BY <1>0, <2>3, <3>2, RunnerLeaves
      <3> QED
        BY <3>3 DEF Carried, Carries
    <2>4. stored' = stored
      BY <1>2, <2>3, ReachedBefore, StoredGrows
    <2>5. CASE seen'[a].at = seen[b].at
      BY <2>1, <2>4, <2>5 DEF CarrierFresh
    <2>6. CASE seen'[a].at = End
      <3>1. ASSUME NEW p \in stored
            PROVE  p <= End
        <4> PICK e \in Nat, c \in Nat, x \in Nat : e = End /\ c = cursor /\ x = p
          BY <1>0, <3>1, Numbers DEF TypeOK
        <4>1. x <= c /\ c <= e
          BY <2>1 DEF StoredBehind, CursorBehind
        <4> QED
          BY <4>1
      <3> QED
        BY <2>4, <2>6, <3>1
    <2> QED
      BY <2>1, <2>5, <2>6
  <1> QED
    BY <1>1, <1>2

(* What a runner stores is new, and it is the event its turn ends with.    *)
LEMMA ArrivesNew ==
    ASSUME IInv, CarrierFresh, NEW r \in Requests, NEW p, Arrives(r, p)
    PROVE  /\ log'[r] = journal[p].st /\ \A q \in Requests : q # r => log'[q] = log[q]
           /\ durable' = durable \cup {<<r, journal[p].st, journal[p].turn>>}
           /\ journal[p].turn \in Requests
  <1>0. TypeOK
    BY DEF IInv
  <1>1. Runner(r) \in Actors /\ Carries(Runner(r), r) /\ Reachable(Runner(r))
    BY ActorsKnown DEF Arrives, Carries, OnHost
  <1>2. p \notin stored
    <2> PICK x \in Nat : x = seen[Runner(r)].at
      BY <1>0, <1>1, Numbers
    <2>1. p = x + 1
      BY DEF Arrives
    <2>2. ~(x + 1 <= x)
      OBVIOUS
    <2> QED
      BY <1>1, <2>1, <2>2 DEF CarrierFresh
  <1>3. {p} \ stored = {p}
    BY <1>2
  <1>4. PersistNative(r, {p}) /\ journal[p].turn \in Requests
    BY DEF Arrives
  <1>5. log' = [log EXCEPT ![r] = journal[p].st]
    BY <1>3, <1>4 DEF PersistNative
  <1>6. durable' = durable \cup {<<r, journal[p].st, journal[p].turn>>}
    BY <1>3, <1>4 DEF PersistNative
  <1> QED
    BY <1>0, <1>4, <1>5, <1>6 DEF TypeOK

(* What a step does to a log, while no sweep runs.                         *)
LEMMA LogMoves ==
    ASSUME IInv, Effects, Sweeps = {}, CarrierFresh, NEW q \in Requests
    PROVE  \/ log'[q] = log[q]
           \/ log'[q] = "failed" /\ (log[q] = "none" \/ Breaks(q))
           \/ \E p : Arrives(q, p)
  BY LogEffects, FailureLog DEF IInv

(* A durable row is never taken back.                                      *)
LEMMA DurableGrows ==
    ASSUME Effects
    PROVE  durable \subseteq durable'
  <1>1. ASSUME NEW r \in Requests,
               \/ Begins(r) \/ Recovers(r) \/ Passes(r) \/ Advances(r) \/ Launches(r)
               \/ RollsBack(r) \/ Replaces(r) \/ Wins(r)
        PROVE  durable \subseteq durable'
    BY <1>1 DEF Begins, Recovers, Passes, Advances, Launches, RollsBack, Replaces, Wins, PersistFailure
  <1>2. ASSUME NEW r \in Requests,
               \/ Attaches(r) \/ Sends(r) \/ Breaks(r) \/ Returns(r) \/ \E p : Arrives(r, p)
        PROVE  durable \subseteq durable'
    BY <1>2 DEF Attaches, Sends, Breaks, Returns, Arrives, PersistFailure, PersistNative
  <1>3. ASSUME NEW s \in Sweeps,
               Looks(s) \/ Rests(s) \/ \E m \in Requests, new \in SUBSET Nat : Stores(s, m, new)
        PROVE  durable \subseteq durable'
    BY <1>3 DEF Looks, Rests, Stores, Ingests, PersistFailure, PersistNative
  <1>4. ASSUME NEW a \in Actors, Projects(a) \/ Finishes(a) \/ Withdraws(a) \/ Trips(a)
        PROVE  durable \subseteq durable'
    BY <1>4 DEF Projects, Finishes, Withdraws, Trips
  <1>5. Ends \/ Loses \/ Crashes \/ UNCHANGED vars => durable' = durable
    BY DEF Ends, Loses, Crashes, vars, events
  <1> QED
    BY <1>1, <1>2, <1>3, <1>4, <1>5 DEF Effects

(* A log that says completed has its row in the inbox, and nobody carries  *)
(* that turn.                                                              *)
LEMMA LogIsDurableStep ==
    ASSUME IInv, Effects, Sweeps = {}, OneCarrier, LogClaimed, CarrierFresh, LogIsDurable
    PROVE  LogIsDurable'
  <1> SUFFICES ASSUME NEW m \in Requests, log'[m] = "completed"
               PROVE  ~Carried(m)' /\ \E o \in Requests : <<m, "completed", o>> \in durable'
    BY DEF LogIsDurable
  <1>0. TypeOK
    BY DEF IInv
  <1>1. CASE log'[m] = log[m]
    <2>1. ~Carried(m) /\ \E o \in Requests : <<m, "completed", o>> \in durable'
      BY <1>1, DurableGrows DEF LogIsDurable
    <2>2. ~Wins(m)
      BY <1>1, WinsFresh
    <2> QED
      BY <1>0, <2>1, <2>2, CarriedBefore
  <1>2. ASSUME NEW p, Arrives(m, p)
        PROVE  ~Carried(m)' /\ \E o \in Requests : <<m, "completed", o>> \in durable'
    <2>1. journal[p].st = "completed" /\ <<m, journal[p].st, journal[p].turn>> \in durable'
      BY <1>2, ArrivesNew
    <2>2. journal[p].turn \in Requests
      BY <1>2, ArrivesNew
    <2> QED
      BY <1>0, <1>2, <2>1, <2>2, RunnerLeaves
  <1> QED
    BY <1>1, <1>2, LogMoves

(* A log that says completed keeps saying so, while no sweep runs.         *)
LEMMA LogStands ==
    ASSUME IInv, Effects, Sweeps = {}, CarrierFresh, LogIsDurable, NEW m \in Requests, log[m] = "completed"
    PROVE  log'[m] = "completed"
  <1>1. ~Carried(m)
    BY DEF LogIsDurable
  <1>2. ~Breaks(m) /\ ~\E p : Arrives(m, p)
    BY <1>1 DEF Breaks, Arrives, Carried, OnHost
  <1> QED
    BY <1>2, LogMoves

(* A coordinator that completes a turn found completed in its log, or as   *)
(* its verdict.                                                            *)
LEMMA CompletedIsLoggedStep ==
    ASSUME IInv, [Next]_vars, Effects, Sweeps = {}, CarrierFresh, LogIsDurable, CompletedIsLogged
    PROVE  CompletedIsLogged'
  <1> SUFFICES ASSUME NEW a \in Actors, NEW m \in Requests,
                      call'[a].pc \in {"project", "finish"}, call'[a].msg = m, call'[a].st = "completed"
               PROVE  log'[m] = "completed" \/ verdict'[m] = "completed"
    BY DEF CompletedIsLogged, Finalizes
  <1>1. verdict[m] = "completed" => verdict'[m] = "completed"
    BY VerdictsStay DEF Terminal
  <1>2. CASE Goes(a, m)
    BY <1>1, <1>2, LogStands DEF Goes, CompletedIsLogged
  <1>3. CASE Repairs(a, m)
    BY <1>1, <1>3 DEF Repairs, Frames
  <1>4. CASE Concludes(a, m)
    BY <1>4, LogStands DEF Concludes, Frames
  <1>5. CASE Gives(a, m) \/ Retries(a, m) \/ Settles(a, m)
    BY <1>5 DEF Gives, Retries, Settles, Frames
  <1>6. CASE Hears(a, m)
    <2>1. PICK p : Arrives(m, p) /\ journal[p].st = "completed"
      BY <1>6 DEF Hears, Frames
    <2> QED
      BY <2>1, ArrivesNew
  <1> QED
    BY <1>2, <1>3, <1>4, <1>5, <1>6, FramesBefore

(* The conjuncts of Exclusive are inductive together, where no sweep runs  *)
(* and until somebody cancels.                                             *)
LEMMA ExclusiveStep ==
    ASSUME IInv, [Next]_vars, GroundInv, ExclusiveInv
    PROVE  ExclusiveInv'
  <1> SUFFICES ASSUME Uncancelled', Sweeps = {}
               PROVE  Exclusive'
    BY DEF ExclusiveInv
  <1>1. Uncancelled /\ Effects
    BY UncancelledBefore, MovesHaveEffects
  <1>2. OneCarrier /\ LogClaimed /\ ReadBefore /\ CurrentRow
    BY <1>1 DEF GroundInv, Grounded
  <1>3. /\ CarrierRuns /\ SettledAlone /\ StoredBehind /\ CursorBehind /\ CarrierFresh
        /\ LogIsDurable /\ CompletedIsLogged
    BY <1>1 DEF ExclusiveInv, Exclusive
  <1>4. CarrierRuns' /\ SettledAlone' /\ StoredBehind' /\ CursorBehind' /\ CarrierFresh'
    BY <1>1, <1>2, <1>3, CarrierRunsStep, SettledAloneStep, StoredBehindStep, CarrierFreshStep
  <1>5. LogIsDurable' /\ CompletedIsLogged'
    BY <1>1, <1>2, <1>3, LogIsDurableStep, CompletedIsLoggedStep
  <1> QED
    BY <1>4, <1>5 DEF Exclusive

(* They hold at the start, where nothing is stored and nobody carries a    *)
(* turn.                                                                   *)
LEMMA InitExclusive == Init => ExclusiveInv
  <1> SUFFICES ASSUME Init
               PROVE  Exclusive
    BY DEF ExclusiveInv
  <1>1. \A a \in Actors : call[a].pc = "new"
    BY DEF Init, At, Frame
  <1>2. \A r \in Requests, a \in Actors : ~Carries(a, r) /\ ~Finalizes(a, r)
    BY <1>1 DEF Admitting, Carries, OnHost, Finalizes
  <1>3. ASSUME NEW r \in Requests
        PROVE  log[r] = "none" /\ ~Runs(r)
    <2>1. verdict[r] = "none" /\ log[r] = "none"
      BY Zenon DEF Init
    <2>2. "none" # "running"
      OBVIOUS
    <2> QED
      BY <2>1, <2>2, Zenon DEF Runs
  <1>4. CarrierRuns /\ CarrierFresh /\ CompletedIsLogged
    BY <1>2 DEF CarrierRuns, CarrierFresh, CompletedIsLogged
  <1>5. SettledAlone /\ LogIsDurable
    BY <1>3 DEF SettledAlone, LogIsDurable
  <1>6. stored = {} /\ cursor = 0 /\ End = 0
    BY DEF Init, End
  <1>7. StoredBehind /\ CursorBehind
    BY <1>6 DEF StoredBehind, CursorBehind
  <1> QED
    BY <1>4, <1>5, <1>7 DEF Exclusive

(* Only the coordinator records a turn as completed.                       *)
LEMMA CompletedBefore ==
    ASSUME IInv, Effects, NEW m \in Requests, verdict'[m] = "completed"
    PROVE  \/ verdict[m] = "completed"
           \/ \E f \in Actors : Finishes(f) /\ call[f].msg = m /\ call[f].st = "completed"
  <1>1. ASSUME NEW r \in Requests, RollsBack(r)
        PROVE  verdict[m] = "completed"
    BY <1>1 DEF RollsBack
  <1>2. ASSUME NEW r \in Requests, Wins(r)
        PROVE  verdict[m] = "completed"
    BY <1>2 DEF Wins
  <1>3. ASSUME NEW f \in Actors, Finishes(f)
        PROVE  verdict[m] = "completed" \/ (call[f].msg = m /\ call[f].st = "completed")
    BY <1>3 DEF Finishes
  <1>4. ASSUME NEW r \in Requests, Replaces(r) \/ Sends(r) \/ \E p : Arrives(r, p)
        PROVE  verdict' = verdict
    BY <1>4 DEF Replaces, Sends, Arrives
  <1>5. ASSUME NEW s \in Sweeps, NEW t \in Requests, NEW new \in SUBSET Nat, Ingests(Sweep(s), t, new)
        PROVE  verdict' = verdict
    BY <1>5 DEF Ingests
  <1>6. Still \/ Ends \/ Loses => verdict' = verdict
    BY DEF Still, Ends, Loses
  <1> QED
    BY <1>1, <1>2, <1>3, <1>4, <1>5, <1>6, CoreEffects

(* A completed verdict keeps its durable row, and is given only to a turn  *)
(* that has one.                                                           *)
LEMMA DurableStep ==
    ASSUME IInv, [Next]_vars, ExclusiveInv, CompletedIsDurable, Sweeps = {}
    PROVE  CompletedIsDurable'
  <1> SUFFICES ASSUME Uncancelled', NEW m \in Requests, verdict'[m] = "completed"
               PROVE  \E o \in Requests : <<m, "completed", o>> \in durable'
    BY DEF CompletedIsDurable
  <1>1. Uncancelled /\ Effects
    BY UncancelledBefore, MovesHaveEffects
  <1>2. LogIsDurable /\ CompletedIsLogged
    BY <1>1 DEF ExclusiveInv, Exclusive
  <1>3. \E o \in Requests : <<m, "completed", o>> \in durable
    <2>1. CASE verdict[m] = "completed"
      BY <1>1, <2>1 DEF CompletedIsDurable
    <2>2. ASSUME NEW f \in Actors, Finishes(f), call[f].msg = m, call[f].st = "completed"
          PROVE  log[m] = "completed" \/ verdict[m] = "completed"
      BY <1>2, <2>2 DEF Finishes, Finalizes, CompletedIsLogged
    <2> QED
      BY <1>1, <1>2, <2>1, <2>2, CompletedBefore DEF LogIsDurable
  <1> QED
    BY <1>1, <1>3, DurableGrows

(* While nothing fails besides, a log that says completed is the verdict,  *)
(* of every coordinator at work on the turn and then of the binding, and a *)
(* run is suspended only after that verdict.                               *)
LogIsVerdict ==
    \A m \in Requests : log[m] = "completed" =>
        /\ Runs(m) => \A a \in Actors : Finalizes(a, m) => call[a].st = "completed"
        /\ verdict[m] \in Terminal => verdict[m] = "completed"
SuspendsCompleted ==
    \A a \in Actors, m \in Requests :
        call[a].pc = "suspend" /\ call[a].msg = m => verdict[m] = "completed"
ShowsCompleted ==
    \A m \in Requests : run.msg = m /\ run.st = "suspended" => verdict[m] = "completed"
SuspendInv == Steady /\ Sweeps = {} => LogIsVerdict /\ SuspendsCompleted /\ ShowsCompleted

(* A turn whose log says completed gets no other verdict.                  *)
LEMMA LogIsVerdictStep ==
    ASSUME IInv, [Next]_vars, Effects, Sweeps = {}, OneCarrier, LogClaimed, CurrentRow, NoneRaised, Steady,
           CarrierRuns, SettledAlone, CarrierFresh, LogIsDurable, LogIsVerdict
    PROVE  LogIsVerdict'
  <1> SUFFICES ASSUME NEW m \in Requests, log'[m] = "completed"
               PROVE  /\ Runs(m)' => \A a \in Actors : Finalizes(a, m)' => call'[a].st = "completed"
                      /\ verdict'[m] \in Terminal => verdict'[m] = "completed"
    BY DEF LogIsVerdict
  <1>0. TypeOK
    BY DEF IInv
  <1>1. ~Wins(m)
    <2>1. Wins(m) => log'[m] = log[m]
      BY DEF Wins
    <2> QED
      BY <2>1, WinsFresh
  <1>2. CASE log[m] = "completed"
    <2>1. ~Carried(m) /\ Claimed(m)
      BY <1>2 DEF LogIsDurable, LogClaimed
    <2>2. ~RollsBack(m)
      BY <2>1 DEF RollsBack, Carried, Admitting
    <2>3. ASSUME NEW a \in Actors, Runs(m)', call'[a].pc \in {"project", "finish"}, call'[a].msg = m
          PROVE  call'[a].st = "completed"
      <3>1. Runs(m) /\ Running
        BY <1>1, <2>3, RunsBefore, IdleRunsNothing
      <3>2. CASE Goes(a, m)
        BY <1>2, <3>1, <3>2 DEF Goes, LogIsVerdict
      <3>3. ~Repairs(a, m)
        BY <3>1 DEF Repairs
      <3>4. CASE Concludes(a, m)
        BY <1>2, <3>4 DEF Concludes, Frames
      <3>5. ~Gives(a, m) /\ ~Hears(a, m)
        BY <2>1 DEF Gives, Hears, Breaks, Arrives, Carried, OnHost
      <3>6. ~Retries(a, m) /\ ~Settles(a, m)
        BY DEF Retries, Settles, NoneRaised
      <3> QED
        BY <2>3, <3>2, <3>3, <3>4, <3>5, <3>6, FramesBefore
    <2>4. ASSUME verdict'[m] \in Terminal
          PROVE  verdict'[m] = "completed"
      <3>1. CASE verdict[m] \in Terminal
        BY <1>2, <3>1, VerdictsStay DEF LogIsVerdict
      <3>2. CASE Runs(m)
        <4>1. ~Runs(m)' /\ holder = m
          BY <2>4, <3>2, IdleRunsNothing DEF Runs, Terminal
        <4>2. PICK f \in Actors : Finishes(f) /\ call[f].msg = m
          BY <2>2, <3>2, <4>1, RunsAfter
        <4>3. call[f].st = "completed"
          BY <1>2, <3>2, <4>2 DEF Finishes, Finalizes, LogIsVerdict
        <4> QED
          BY <3>2, <4>1, <4>2, <4>3 DEF Finishes, Runs
      <3> QED
        BY <1>0, <2>1, <3>1, <3>2 DEF TypeOK, Claimed, Runs
    <2> QED
      BY <2>3, <2>4 DEF Finalizes
  <1>3. ASSUME NEW p, Arrives(m, p)
        PROVE  /\ Runs(m)' => \A a \in Actors : Finalizes(a, m)' => call'[a].st = "completed"
               /\ verdict'[m] \in Terminal => verdict'[m] = "completed"
    <2>1. Runner(m) \in Actors /\ Carries(Runner(m), m) /\ Reachable(Runner(m)) /\ Carried(m)
      BY <1>3, ActorsKnown DEF Arrives, Carries, Carried, OnHost
    <2>2. Runs(m) /\ verdict' = verdict /\ session
      BY <1>3, <2>1 DEF CarrierRuns, Arrives, Reachable
    <2>3. ~Settling(m) /\ Running
      BY <2>1, <2>2, IdleRunsNothing DEF SettledAlone
    <2>4. ASSUME NEW a \in Actors, call'[a].pc \in {"project", "finish"}, call'[a].msg = m
          PROVE  call'[a].st = "completed"
      <3>1. a = Runner(m)
        <4>1. ASSUME a # Runner(m)
              PROVE  FALSE
          <5>1. call'[a] = call[a]
            BY <1>3, <4>1 DEF Arrives, Alone
          <5> QED
            BY <2>3, <2>4, <5>1 DEF Settling, Finalizes
        <4> QED
          BY <4>1
      <3>2. Frames(a, m, journal[p].st)
        BY <1>3, <3>1, FinalizingFrames DEF Arrives
      <3>3. journal[p].st = "completed"
        BY <1>3, ArrivesNew
      <3> QED
        BY <3>2, <3>3 DEF Frames
    <2>5. verdict'[m] \notin Terminal
      BY <2>2 DEF Runs, Terminal
    <2> QED
      BY <2>4, <2>5 DEF Finalizes
  <1> QED
    BY <1>2, <1>3, LogMoves

(* A handler comes to suspend a run by finishing its turn.                 *)
LEMMA SuspendBefore ==
    ASSUME Effects, NEW a \in Actors, call'[a].pc = "suspend"
    PROVE  Same(a) \/ Finishes(a)
  <1>1. ASSUME NEW r \in Requests, ByRequest(r) \/ Launches(r), a = Prepare(r)
        PROVE  FALSE
    <2>1. ASSUME Begins(r) \/ Recovers(r), call'[a].pc # "sync", call'[a].pc # "reread"
          PROVE  call'[a].pc \in {"recover", "finish", "project"}
      BY <1>1, <2>1 DEF Begins, Recovers, At, Finalizing, Frame
    <2>2. ASSUME Passes(r) \/ Advances(r) \/ RollsBack(r) \/ Replaces(r) \/ Wins(r) \/ Launches(r)
          PROVE  call'[a].pc # "suspend"
      BY <1>1, <2>2 DEF Passes, PassPc, Advances, RollsBack, Replaces, Wins, Launches
    <2> QED
      BY <1>1, <2>1, <2>2 DEF ByRequest
  <1>2. ASSUME NEW r \in Requests, ByRunner(r) \/ Launches(r), a = Runner(r)
        PROVE  FALSE
    <2>1. ASSUME NEW p, Arrives(r, p)
          PROVE  call'[a].pc = "project"
      BY <1>2, <2>1 DEF Arrives, Finalizing, Frame
    <2>2. Breaks(r) => call'[a].pc = "project"
      BY <1>2 DEF Breaks, Finalizing, Frame
    <2>3. Returns(r) => call'[a].pc \in {"finish", "done"}
      BY <1>2 DEF Returns, Finalizing, Frame
    <2>4. Attaches(r) \/ Sends(r) \/ Launches(r) => call'[a].pc \in {"send", "stream", "attach"}
      BY <1>2 DEF Attaches, Sends, Launches, At, Frame
    <2> QED
      BY <1>2, <2>1, <2>2, <2>3, <2>4 DEF ByRunner
  <1>3. ASSUME NEW s \in Sweeps, BySweep(s), a = Sweep(s)
        PROVE  FALSE
    <2>1. Looks(s) \/ Rests(s) => call'[a].pc \in {"ingest", "new"}
      BY <1>3 DEF Looks, Rests, At, Frame
    <2>2. ASSUME NEW m \in Requests, NEW new \in SUBSET Nat, Stores(s, m, new)
          PROVE  call'[a].pc \in {"returned", "raised", "project"}
      BY <1>3, <2>2 DEF Stores, Ingests, Finalizing, Frame
    <2> QED
      BY <1>3, <2>1, <2>2 DEF BySweep
  <1>4. Coordinates(a) => Finishes(a)
    BY DEF Coordinates, Projects, Withdraws, Trips
  <1>5. ~Crashes
    BY DEF Crashes
  <1> QED
    BY <1>1, <1>2, <1>3, <1>4, <1>5, WhoActs

(* Who is about to suspend a run has recorded its turn as completed.       *)
LEMMA SuspendsStep ==
    ASSUME IInv, [Next]_vars, Effects, KeepersComplete, CompletedIsLogged, LogIsVerdict, SuspendsCompleted
    PROVE  SuspendsCompleted'
  <1> SUFFICES ASSUME NEW a \in Actors, NEW m \in Requests, call'[a].pc = "suspend", call'[a].msg = m
               PROVE  verdict'[m] = "completed"
    BY DEF SuspendsCompleted
  <1>1. verdict[m] = "completed" => verdict'[m] = "completed"
    BY VerdictsStay DEF Terminal
  <1>2. CASE Same(a)
    BY <1>1, <1>2 DEF Same, SuspendsCompleted
  <1>3. CASE Finishes(a)
    <2>1. call[a].pc = "finish" /\ call[a].msg = m /\ ~call[a].clear
      <3>1. call[a].pc = "finish" /\ call[a].msg = m /\ call'[a].pc = FinishNext(a)
        BY <1>3 DEF Finishes
      <3>2. CASE call[a].clear
        <4>1. FinishNext(a) = "clear"
          BY <3>2, Zenon DEF FinishNext
        <4> QED
          BY <3>1, <4>1
      <3> QED
        BY <3>1, <3>2
    <2>2. call[a].st = "completed" /\ Claimed(m)
      BY <2>1 DEF KeepersComplete, IInv, FrameInv, WorkingPc, FinalizerPc
    <2>3. log[m] = "completed" \/ verdict[m] = "completed"
      BY <2>1, <2>2 DEF CompletedIsLogged, Finalizes
    <2>4. CASE Runs(m)
      <3>1. holder = m
        BY <2>4, IdleRunsNothing
      <3> QED
        BY <1>3, <2>1, <2>2, <2>4, <3>1 DEF Finishes, Runs
    <2>5. CASE verdict[m] \in Terminal
      BY <1>1, <2>3, <2>5 DEF LogIsVerdict
    <2> QED
      BY <2>2, <2>4, <2>5 DEF IInv, TypeOK, Claimed, Runs
  <1> QED
    BY <1>2, <1>3, SuspendBefore

(* Verdict and suspended run agree after every step, while nothing fails.  *)
LEMMA SuspendStep ==
    ASSUME IInv, [Next]_vars, GroundInv, ExclusiveInv, SuspendInv
    PROVE  SuspendInv'
  <1> SUFFICES ASSUME Steady', Sweeps = {}
               PROVE  LogIsVerdict' /\ SuspendsCompleted' /\ ShowsCompleted'
    BY DEF SuspendInv
  <1>1. Steady /\ Uncancelled /\ Effects
    BY SteadyBefore, UncancelledBefore, MovesHaveEffects DEF Steady
  <1>2. OneCarrier /\ LogClaimed /\ CurrentRow /\ NoneRaised /\ KeepersComplete
    BY <1>1 DEF GroundInv, Grounded
  <1>3. CarrierRuns /\ SettledAlone /\ CarrierFresh /\ LogIsDurable /\ CompletedIsLogged
    BY <1>1 DEF ExclusiveInv, Exclusive
  <1>4. LogIsVerdict /\ SuspendsCompleted /\ ShowsCompleted
    BY <1>1 DEF SuspendInv
  <1>5. LogIsVerdict' /\ SuspendsCompleted'
    BY <1>1, <1>2, <1>3, <1>4, LogIsVerdictStep, SuspendsStep
  <1>6. ASSUME NEW m \in Requests, run'.msg = m, run'.st = "suspended"
        PROVE  verdict'[m] = "completed"
    <2>1. verdict[m] = "completed" => verdict'[m] = "completed"
      BY VerdictsStay DEF Terminal
    <2>2. CASE run' = run
      BY <1>4, <1>6, <2>1, <2>2 DEF ShowsCompleted
    <2>3. run' # NoRun /\ \A q \in Requests : run' # [msg |-> q, st |-> "running"]
      BY <1>6 DEF NoRun
    <2>4. ASSUME NEW a \in Actors, call[a].pc = "suspend", call[a].msg = run.msg, run'.msg = run.msg
          PROVE  verdict'[m] = "completed"
      BY <1>4, <1>6, <2>1, <2>4 DEF SuspendsCompleted
    <2> QED
      BY <1>1, <2>2, <2>3, <2>4, RunEffects
  <1> QED
    BY <1>5, <1>6 DEF ShowsCompleted

(* At the start no turn has a log or a verdict and no run is shown.        *)
LEMMA InitSuspend == Init => SuspendInv
  <1> SUFFICES ASSUME Init
               PROVE  LogIsVerdict /\ SuspendsCompleted /\ ShowsCompleted
    BY DEF SuspendInv
  <1>1. \A a \in Actors : call[a].pc = "new"
    BY DEF Init, At, Frame
  <1>2. ASSUME NEW r \in Requests
        PROVE  log[r] = "none"
    BY Zenon DEF Init
  <1>3. LogIsVerdict
    BY <1>2 DEF LogIsVerdict
  <1>4. SuspendsCompleted
    BY <1>1 DEF SuspendsCompleted
  <1>5. ShowsCompleted
    BY DEF Init, NoRun, ShowsCompleted
  <1> QED
    BY <1>3, <1>4, <1>5

(* While nothing fails and no sweep runs, what a runner still has to read  *)
(* are events of its own turn, so they are stored with it.                 *)
AheadIsOwn ==
    \A r \in Requests :
        call[Runner(r)].pc = "stream" /\ Reachable(Runner(r))
            => \A p \in 1..End : seen[Runner(r)].at < p => journal[p].turn = r
StoredOwn == \A d \in durable : d[3] # None => d[3] = d[1]
StayInv == Steady /\ Sweeps = {} => AheadIsOwn /\ StoredOwn

(* The events a runner has not read stay those of its own turn.            *)
LEMMA AheadStep ==
    ASSUME IInv, Effects, OneCarrier, ReadBefore, IdleAgent, QueueRuns, UnsentRuns, WatchBound,
           CarrierRuns, AheadIsOwn
    PROVE  AheadIsOwn'
  <1> SUFFICES ASSUME NEW r \in Requests, call'[Runner(r)].pc = "stream", Reachable(Runner(r))',
                      NEW p \in 1..End', seen'[Runner(r)].at < p
               PROVE  journal'[p].turn = r
    BY DEF AheadIsOwn
  <1>0. TypeOK /\ Runner(r) \in Actors /\ Carries(Runner(r), r)'
    BY ActorsKnown DEF IInv, Carries, OnHost
  <1>1. Sends(r) \/ (call[Runner(r)].pc = "stream" /\ call'[Runner(r)].pc = call[Runner(r)].pc)
    BY <1>0, RunnerEffects DEF RunnerMoves, Projects, Finishes, Withdraws, Trips
  <1>2. CASE Sends(r)
    <2>1. Runs(r) /\ Unsent(r) /\ session /\ Watches(Runner(r), r)
      BY <1>2, SendsIdle DEF Sends, Watches, Carries, OnHost
    <2>2. End <= seen[Runner(r)].at /\ End' = End /\ seen' = seen
      BY <1>0, <1>2, <2>1 DEF WatchBound, Sends, End
    <2> PICK e \in Nat, x \in Nat : e = End /\ x = seen[Runner(r)].at
      BY <1>0, Numbers
    <2>3. p \in 1..e /\ x < p /\ e <= x
      BY <2>2
    <2> QED
      BY <2>3
  <1>3. CASE ~Sends(r) /\ call[Runner(r)].pc = "stream"
    <2>1. ~Wins(r) /\ ~Attaches(r)
      BY <1>3, UnclaimedIsIdle DEF Attaches
    <2>2. session /\ ~\E q \in Requests : Replaces(q)
      BY <1>0, <2>1, ReachedBefore
    <2>3. /\ Carries(Runner(r), r) /\ seen'[Runner(r)] = seen[Runner(r)]
      <3>1. ~Launches(r)
        BY <1>3 DEF Launches, OneCarrier, Left
      <3> QED
        BY <1>0, <2>1, <3>1, ActorsDistinct, CarriesBefore
    <2>4. gen' = gen /\ Reachable(Runner(r))
      BY <2>2, <2>3, HostMoves DEF Sends, Ends, Loses, Reachable
    <2>5. CASE UNCHANGED journal
      BY <1>3, <2>3, <2>4, <2>5 DEF AheadIsOwn, End
    <2>6. CASE Ends
      <3>1. p \in 1..End \/ journal'[p].turn = queue[1]
        BY <1>0, <2>6, EndsMoves
      <3>2. queue[1] = r
        <4>1. queue[1] \in Requests /\ Runs(queue[1])
          BY <1>0, <2>6, EndsMoves DEF QueueRuns
        <4>2. Runs(r)
          BY <1>0, <2>3, <2>4 DEF CarrierRuns
        <4> QED
          BY <4>1, <4>2, OnlyOneRuns
      <3>3. CASE p \in 1..End
        <4>1. journal[p].turn = r
          BY <1>3, <2>3, <2>4, <3>3 DEF AheadIsOwn
        <4>2. journal'[p] = journal[p]
          BY <1>0, <2>6, <3>3, EndsMoves
        <4> QED
          BY <4>1, <4>2
      <3> QED
        BY <3>1, <3>2, <3>3
    <2> QED
      BY <2>2, <2>5, <2>6, HostMoves DEF Sends, Loses, Reachable
  <1> QED
    BY <1>1, <1>2, <1>3

(* What a step adds to the durable rows, while no sweep runs.              *)
LEMMA DurableMoves ==
    ASSUME IInv, Effects, Sweeps = {}, NEW d \in durable'
    PROVE  \/ d \in durable
           \/ \E m \in Requests : d = <<m, "failed", None>>
           \/ \E m \in Requests : \E p : Arrives(m, p) /\ d = <<m, journal[p].st, journal[p].turn>>
  <1>1. ASSUME NEW r \in Requests,
               \/ Begins(r) \/ Recovers(r) \/ Passes(r) \/ Advances(r) \/ Launches(r)
               \/ RollsBack(r) \/ Replaces(r) \/ Wins(r)
        PROVE  d \in durable \/ \E m \in Requests : d = <<m, "failed", None>>
    BY <1>1 DEF Begins, Recovers, Passes, Advances, Launches, RollsBack, Replaces, Wins, PersistFailure
  <1>2. ASSUME NEW r \in Requests, Attaches(r) \/ Sends(r) \/ Breaks(r) \/ Returns(r)
        PROVE  d \in durable \/ \E m \in Requests : d = <<m, "failed", None>>
    BY <1>2 DEF Attaches, Sends, Breaks, Returns, PersistFailure
  <1>3. ASSUME NEW r \in Requests, NEW p, Arrives(r, p)
        PROVE  d \in durable \/ d = <<r, journal[p].st, journal[p].turn>>
    BY <1>3 DEF Arrives, PersistNative
  <1>4. ASSUME NEW a \in Actors, Projects(a) \/ Finishes(a) \/ Withdraws(a) \/ Trips(a)
        PROVE  d \in durable
    BY <1>4 DEF Projects, Finishes, Withdraws, Trips
  <1>5. Ends \/ Loses \/ Crashes \/ UNCHANGED vars => durable' = durable
    BY DEF Ends, Loses, Crashes, vars, events
  <1> QED
    BY <1>1, <1>2, <1>3, <1>4, <1>5 DEF Effects

(* So every stored event is one of the turn it is stored with.             *)
LEMMA StayStep ==
    ASSUME IInv, [Next]_vars, GroundInv, SentInv, ExclusiveInv, StayInv
    PROVE  StayInv'
  <1> SUFFICES ASSUME Steady', Sweeps = {}
               PROVE  AheadIsOwn' /\ StoredOwn'
    BY DEF StayInv
  <1>1. Steady /\ Uncancelled /\ Effects /\ TypeOK
    BY SteadyBefore, UncancelledBefore, MovesHaveEffects DEF Steady, IInv
  <1>2. OneCarrier /\ ReadBefore /\ IdleAgent /\ QueueRuns /\ UnsentRuns /\ WatchBound /\ CarrierRuns
    BY <1>1 DEF GroundInv, Grounded, SentInv, SentOnce, ExclusiveInv, Exclusive
  <1>3. AheadIsOwn /\ StoredOwn
    BY <1>1 DEF StayInv
  <1>4. AheadIsOwn'
    BY <1>1, <1>2, <1>3, AheadStep
  <1>5. ASSUME NEW d \in durable', d[3] # None
        PROVE  d[3] = d[1]
    <2>1. CASE d \in durable
      BY <1>3, <1>5, <2>1 DEF StoredOwn
    <2>2. ASSUME NEW m \in Requests, NEW p, Arrives(m, p), d = <<m, journal[p].st, journal[p].turn>>
          PROVE  d[3] = d[1]
      <3>1. p \in 1..End /\ p = seen[Runner(m)].at + 1 /\ call[Runner(m)].pc = "stream" /\ Reachable(Runner(m))
        BY <2>2 DEF Arrives
      <3>2. seen[Runner(m)].at < p
        <4> PICK x \in Nat : x = seen[Runner(m)].at
          BY <1>1, ActorsKnown, Numbers
        <4>1. p = x + 1
          BY <3>1
        <4> QED
          BY <4>1
      <3>3. journal[p].turn = m
        BY <1>3, <3>1, <3>2 DEF AheadIsOwn
      <3> QED
        BY <2>2, <3>3
    <2>3. ASSUME NEW m \in Requests, d = <<m, "failed", None>>
          PROVE  FALSE
      BY <1>5, <2>3
    <2> QED
      BY <1>1, <2>1, <2>2, <2>3, DurableMoves
  <1> QED
    BY <1>4, <1>5 DEF StoredOwn

(* At the start nobody streams and nothing is stored.                      *)
LEMMA InitStay == Init => StayInv
  <1> SUFFICES ASSUME Init
               PROVE  AheadIsOwn /\ StoredOwn
    BY DEF StayInv
  <1>1. \A a \in Actors : call[a].pc = "new"
    BY DEF Init, At, Frame
  <1>2. ASSUME NEW r \in Requests
        PROVE  call[Runner(r)].pc # "stream"
    BY <1>1, ActorsKnown, Zenon
  <1>3. durable = {}
    BY DEF Init
  <1> QED
    BY <1>2, <1>3 DEF AheadIsOwn, StoredOwn

(* Together with what holds beside a sweep these are inductive.            *)
LoneInv == QuietInv /\ ExclusiveInv /\ SuspendInv /\ StayInv /\ (Sweeps = {} => CompletedIsDurable)

(* The invariant of the properties without a sweep holds in every          *)
(* reachable state.                                                        *)
LEMMA LoneInductive == Spec => []LoneInv
  <1>1. QuietInv /\ [Next]_vars => QuietInv'
    BY TypeStep, CompletedStep, AdmissionStep, LockStep, FramesStep, GroundStep, SentStep, VisibleStep, RestStep
       DEF QuietInv, IInv
  <1>2. LoneInv /\ [Next]_vars => ExclusiveInv' /\ SuspendInv' /\ StayInv'
    BY ExclusiveStep, SuspendStep, StayStep DEF LoneInv, QuietInv
  <1>3. LoneInv /\ [Next]_vars => (Sweeps = {} => CompletedIsDurable')
    BY DurableStep DEF LoneInv, QuietInv
  <1>4. LoneInv /\ [Next]_vars => LoneInv'
    BY <1>1, <1>2, <1>3 DEF LoneInv
  <1>5. ASSUME Init
        PROVE  CompletedIsDurable
    <2>1. ASSUME NEW m \in Requests
          PROVE  verdict[m] # "completed"
      <3>1. verdict[m] = "none"
        BY <1>5, Zenon DEF Init
      <3> QED
        BY <3>1
    <2> QED
      BY <2>1 DEF CompletedIsDurable
  <1>6. Init => LoneInv
    BY <1>5, InitIInv, InitGround, InitSent, InitVisible, InitRest, InitExclusive, InitSuspend, InitStay
       DEF LoneInv, QuietInv
  <1> QED
    BY <1>4, <1>6, PTL DEF Spec

(* Where no sweep runs, and until somebody cancels, every turn the binding *)
(* records as completed has its terminal event in the durable inbox, under *)
(* its own message, whatever fails, is lost or crashes.                    *)
THEOREM CompletionIsDurable == Sweeps = {} => (Spec => []CompletedIsDurable)
  <1> SUFFICES ASSUME Sweeps = {}
               PROVE  Spec => []CompletedIsDurable
    OBVIOUS
  <1>1. LoneInv => CompletedIsDurable
    BY DEF LoneInv
  <1> QED
    BY <1>1, LoneInductive, PTL

(* Where no sweep runs, while nothing fails and nobody cancels, a run that *)
(* waits for an intervention belongs to a turn recorded as completed.      *)
THEOREM SuspensionIsCompleted == Sweeps = {} => (Spec => []SuspendedIsCompleted)
  <1> SUFFICES ASSUME Sweeps = {}
               PROVE  Spec => []SuspendedIsCompleted
    OBVIOUS
  <1>1. ASSUME LoneInv, Steady, run.st = "suspended"
        PROVE  verdict[run.msg] = "completed"
    <2>1. TypeOK /\ RunRowInv /\ ShowsCompleted
      BY <1>1 DEF LoneInv, QuietInv, IInv, GroundInv, Grounded, SuspendInv, Steady
    <2>2. run.msg \in Requests
      BY <1>1, <2>1 DEF RunRowInv, NoRun, TypeOK
    <2> QED
      BY <1>1, <2>1, <2>2 DEF ShowsCompleted
  <1>2. LoneInv => SuspendedIsCompleted
    BY <1>1 DEF SuspendedIsCompleted
  <1> QED
    BY <1>2, LoneInductive, PTL

(* Where no sweep runs, while nothing fails and nobody cancels, a native   *)
(* terminal event is stored under the message of the turn it ends, though  *)
(* nothing in the event says so.                                           *)
THEOREM EventsStay == Sweeps = {} => (Spec => []EventsStayWithTheirTurn)
  <1> SUFFICES ASSUME Sweeps = {}
               PROVE  Spec => []EventsStayWithTheirTurn
    OBVIOUS
  <1>1. LoneInv => EventsStayWithTheirTurn
    BY DEF LoneInv, StayInv, StoredOwn, EventsStayWithTheirTurn
  <1> QED
    BY <1>1, LoneInductive, PTL

=============================================================================
