-------------------------------- MODULE Services --------------------------------
(***************************************************************************)
(* The components around the turn, together: the sandbox manager (task     *)
(* containers, script jobs, skill environments), the plugin runtimes of    *)
(* the runtime host, browser assistance, scheduled tasks and personal      *)
(* knowledge.                                                              *)
(*                                                                         *)
(* They share no state, so their composition is the conjunction of their   *)
(* specifications (ServicesSpec).  To check them their behaviours are put  *)
(* side by side and not interleaved: in Spec the initial state chooses the *)
(* component that moves.  The properties of one kind are gathered in one   *)
(* conjunction.                                                            *)
(***************************************************************************)
EXTENDS Integers, Assistance, ScriptJobs

CONSTANTS
    Calls, Finals, Slots,                                 \* TaskContainers
    Keys, Creates, Disposals, Sweeps, Uses,               \* PluginRuntimes
    Prepares, Polls, Scripts, MaxBuilds,                  \* SkillEnvironments
    DayLength, Zones, Anchors, Afters, WeekdaySets, Asked, None,       \* Schedule
    Workers, Manuals, Plans, NowPlans, FixedSession, Outcomes, Horizon, MaxCalls,
                                                          \* ScheduledDispatch
    Uploads, Relearns, Deletions, Handlers, MaxRequests, MaxJobs, MaxRetries
                                                          \* KnowledgeVersions

ASSUME TaskAssumption ==
    /\ IsFiniteSet(Calls) /\ Calls \cap Finals = {} /\ "nobody" \notin Calls \cup Finals
    /\ Slots \in Nat

ASSUME PluginAssumption ==
    /\ IsFiniteSet(Creates) /\ Nobody \notin Creates
    /\ Creates \cap Disposals = {} /\ Sweeps \cap (Creates \cup Disposals) = {}
    /\ Uses \cap (Creates \cup Disposals \cup Sweeps) = {}
    /\ \A s \in Sweeps, n \in 1..Cardinality(Creates) : <<s, n>> \notin Creates \cup Disposals

ASSUME EnvAssumption == MaxBuilds \in Nat

ASSUME DispatchAssumption ==
    /\ Outcomes \subseteq {"completed", "failed", "cancelled", "suspended"}
    /\ Horizon \in Nat /\ Plans \subseteq SUBSET Nat
    /\ IsFiniteSet(Workers) /\ IsFiniteSet(Manuals)
    /\ Manuals \cap Workers = {} /\ Manuals \cap Nat = {}
    /\ None \notin Nat /\ None \notin Workers /\ None \notin Manuals

ASSUME UploadsAssumption == IsFiniteSet(Uploads) /\ Nobody \notin Uploads

\* Instants are counted from the epoch on.  A change of the offset is shorter
\* than a day, and the hours of a gap are moved to later ones of the same day.
ASSUME CalendarAssumption ==
    /\ DayLength \in Nat \ {0} /\ Anchors \subseteq Nat /\ Afters \subseteq Nat
    /\ WeekdaySets \subseteq SUBSET (0..6)
    /\ Asked \notin Int /\ None \notin Int
    /\ \A z \in Zones :
          /\ z.at \in Int /\ {z.before, z.after} \subseteq -DayLength..DayLength
          /\ z.after - z.before \in 1 - DayLength .. DayLength - 1
          /\ \A wall \in z.at + z.before .. z.at + z.after - 1 :
                (wall % DayLength) + z.after - z.before < DayLength

VARIABLES
    focus,
    lease, stored, made, box, frozen, thread, busy, permits, doubled, taskTroubles,
    table, file, last, keyOf, live, lost, creating, server,
    runtimes, current, creation, retiring, call, todo, broken, pluginTroubles,
    image, latest, submitted, build, record, caller, reply, seen, unwritten, envTroubles,
    query, answer,
    now, job, run, turns, watch, proc, edit, raced, calls, crashes, faults, slow,
    resource, document, chunks, vectors, task, handler, asked, rank, givenUp, knowledgeTroubles

tasksVars == <<lease, stored, made, box, frozen, thread, busy, permits, doubled, taskTroubles>>
pluginsVars == <<table, file, last, keyOf, live, lost, creating, server, runtimes, current,
                 creation, retiring, call, todo, broken, pluginTroubles>>
environmentsVars ==
    <<image, latest, submitted, build, record, caller, reply, seen, unwritten, envTroubles>>
calendarVars == <<query, answer>>
dispatchVars == <<now, job, run, turns, watch, proc, edit, raced, calls, crashes, faults, slow>>
versionsVars ==
    <<resource, document, chunks, vectors, task, handler, asked, rank, givenUp, knowledgeTroubles>>
vars == <<focus, assistVars, jobVars, tasksVars, pluginsVars, environmentsVars,
            calendarVars, dispatchVars, versionsVars>>

Task == INSTANCE TaskContainers
Plugin == INSTANCE PluginRuntimes
Env == INSTANCE SkillEnvironments
Calendar == INSTANCE Schedule
Dispatch == INSTANCE ScheduledDispatch
Knowledge == INSTANCE KnowledgeVersions

\* Every component runs on its own.
ServicesSpec ==
    /\ AssistSpec /\ JobSpec /\ Task!TaskSpec /\ Plugin!PluginSpec /\ Env!EnvSpec
    /\ Calendar!Spec /\ Dispatch!Spec /\ Knowledge!KnowledgeSpec

Components == {"assistance", "jobs", "tasks", "plugins", "environments",
               "calendar", "dispatch", "knowledge"}

Init ==
    /\ focus \in Components
    /\ AssistInit /\ JobInit /\ Task!TaskInit /\ Plugin!PluginInit /\ Env!EnvInit
    /\ Calendar!Init
    /\ Dispatch!Init
    /\ (focus # "jobs" => limit = CHOOSE l \in Limits : TRUE)
    /\ (focus # "environments" => ~image)
    /\ Knowledge!KnowledgeInit

Next ==
    /\ UNCHANGED focus
    /\ IF focus = "assistance" THEN AssistNext ELSE UNCHANGED assistVars
    /\ IF focus = "jobs" THEN JobNext ELSE UNCHANGED jobVars
    /\ IF focus = "tasks" THEN Task!TaskNext ELSE UNCHANGED tasksVars
    /\ IF focus = "plugins" THEN Plugin!PluginNext ELSE UNCHANGED pluginsVars
    /\ IF focus = "environments" THEN Env!EnvNext ELSE UNCHANGED environmentsVars
    /\ IF focus = "calendar" THEN Calendar!Next ELSE UNCHANGED calendarVars
    /\ IF focus = "dispatch" THEN Dispatch!Next ELSE UNCHANGED dispatchVars
    /\ IF focus = "knowledge" THEN Knowledge!KnowledgeNext ELSE UNCHANGED versionsVars

\* The fairness of every component, asked of it only while it is the one that moves.
Fairness ==
    /\ WF_assistVars(focus = "assistance" /\ TurnStep)
    /\ \A q \in Resumes : WF_assistVars(focus = "assistance" /\ ResumeStep(q))
    /\ \A j \in Jobs : WF_jobVars(focus = "jobs" /\ JobStep(j))
    /\ \A c \in Calls :
          WF_tasksVars(focus = "tasks" /\ (Task!ExecuteStep(c) \/ Task!DisposeStep(c)))
    /\ \A f \in Finals :
          WF_tasksVars(focus = "tasks" /\ (Task!FinalStep(f) \/ Task!DisposeStep(f)))
    /\ \A p \in Plugin!Requests : WF_pluginsVars(focus = "plugins" /\ Plugin!ManagerStep(p))
    /\ \A p \in Plugin!Callers : WF_pluginsVars(focus = "plugins" /\ Plugin!HostStep(p))
    /\ \A b \in Env!Builds :
          /\ WF_environmentsVars(focus = "environments" /\ Env!TakeBuild(b))
          /\ WF_environmentsVars(focus = "environments" /\ Env!BuildStep(b))
    /\ \A w \in Workers :
          WF_dispatchVars(focus = "dispatch" /\ (Dispatch!LoopStep(w) \/ Dispatch!DispatchStep(w)))
    /\ WF_dispatchVars(focus = "dispatch" /\ \E k \in Dispatch!Runs : Dispatch!TurnStep(k))
    /\ WF_dispatchVars(focus = "dispatch" /\ \E k \in Dispatch!Runs : Dispatch!RunLeaseLapses(k))
    /\ WF_dispatchVars(focus = "dispatch" /\ Dispatch!JobLeaseLapses)
    /\ \A q \in Knowledge!Requests : WF_versionsVars(focus = "knowledge" /\ Knowledge!RequestStep(q))
    /\ \A j \in Knowledge!Tasks : WF_versionsVars(focus = "knowledge" /\ Knowledge!TaskStep(j))
    /\ \A h \in Handlers : WF_versionsVars(focus = "knowledge" /\ Knowledge!HandlerStep(h))

Spec == Init /\ [][Next]_vars /\ Fairness

------------------------------------------------------------------------------
(* Properties. *)

\* The types of every component.
TypesOK ==
    /\ AssistTypeOK /\ JobTypeOK /\ Task!TaskTypeOK /\ Plugin!PluginTypeOK /\ Env!EnvTypeOK
    /\ Calendar!TypeOK /\ Dispatch!TypeOK /\ Knowledge!KnowledgeTypeOK

\* What one workspace directory is used by: one running script of a turn, one
\* container of an isolation key (task_containers.py, plugin_runtimes.py).
OneAtATime == Task!OneScriptAtATime /\ Plugin!OneContainerPerKey

\* Slots and counters of the sandbox manager come back with every exit of a
\* script call, whatever raised (jobs.py, task_containers.py).
SlotsAgree == CountersAgree /\ Task!SlotsAreReturned

\* What the sandbox manager has in Docker is in its tables or in the hands of a
\* thread: scripts, jobs and plugin runtimes leave nothing behind but what a
\* call that raised or a restart explains.
NothingIsLeaked == Task!NoOrphan /\ OnlyRaisedIsLeft /\ Plugin!RunningIsLeased

\* A lease, a runtime or an image that is handed out is there.
AnsweredIsUsable ==
    Task!LeaseIsUsable /\ Plugin!OfferedIsRunning /\ Env!AnsweredImageExisted

\* The build records tell the truth about builds (skill_build_records.py).
RecordsAreHonest == Env!RecordsAreHonest

\* The next time of a schedule (schedule.py): the first occurrence, once a day,
\* at its time of day, over a change of the clock.
NextTimesAreRight ==
    Calendar!NextIsEarliest /\ Calendar!OncePerDay /\ Calendar!KeepsTimeOfDay

\* Whoever waits gets an answer: script calls and jobs, creations of runtimes,
\* preparations of images, resumes of a mission, and the parsing of a document.
\* Requests are finite in number, so in the end nobody waits.
EveryWaitEnds ==
    <>[](/\ Task!CallsAreOver /\ JobsAreOver /\ Plugin!CreatesAreOver /\ Env!BuildsAreOver
         /\ ResumesAreSettled /\ Knowledge!NothingIsQueued)

\* Every waiting run is dispatched, every due time is served (scheduler.py).
DueRunsAreServed ==
    <>[](focus = "dispatch" => Dispatch!NothingIsPending /\ Dispatch!NothingIsDue)
===============================================================================
