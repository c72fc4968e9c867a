----------------------------- MODULE Coordinator -----------------------------
(***************************************************************************)
(* The simulation loop: devs::RootCoordinator and devs::Coordinator over   *)
(* the event table (Scheduler) and the timed views (TimedObservation),     *)
(* with the structural changes an executive asks for during its transition *)
(* (devs::Executive, devs::ModelFactory).                                  *)
(*                                                                         *)
(* A bag is processed in the phases of Coordinator::run, named by pc; each *)
(* iteration of a loop over simulators is a step.  What a user's model     *)
(* does (which events it outputs, the date it asks for, the structural     *)
(* changes of an executive, an exception) is chosen nondeterministically.  *)
(***************************************************************************)
EXTENDS Scheduler, TimedObservation

CONSTANTS
    Model,          \* nodes of the graph: the simulators and coupled models
    Above,          \* the coupled models that enclose a node, the top excepted
    Initial,        \* the nodes of the graph when the simulation is loaded
    Conn,           \* <<s, t>>: the events s outputs reach t
    Observes,       \* the simulators each timed view observes
    TimeAdvance,    \* what init and timeAdvance of a user's model may return
    Begin,          \* m_begin
    Attached,       \* the functions of a simulator that event views observe
    Duration,       \* m_durationTime: the date of the end of the simulation
    Parallel,       \* the thread pool computes the transitions of dynamics
    Deletable,      \* the models the executives may ask to delete
    Throws,         \* transition functions may throw, any number of times
    MaxKept,        \* bound on the events a transition that threw leaves
    LaxDeletion,    \* an executive may ask again to delete a queued model,
                    \* and may delete models while the simulation is loaded
    MaxOps          \* bound on the structural changes of a simulation

ASSUME CoordinatorAssumption ==
    /\ Sim \subseteq Model /\ IsFiniteSet(Model)
    /\ Above \in [Model -> SUBSET (Model \ Sim)]
    /\ \A m \in Model : m \notin Above[m]
    /\ \A m \in Model : \A n \in Above[m] : Above[n] \subseteq Above[m]
    /\ Initial \subseteq Model /\ Deletable \subseteq Model
    /\ Conn \subseteq Sim \X Sim
    /\ Observes \in [TView -> SUBSET Sim]
    /\ Attached \in [Sim -> SUBSET {"output", "internal", "external",
                                    "confluent"}]
    /\ TimeAdvance \subseteq Time /\ TimeAdvance # {}
    /\ Begin \in Nat /\ Duration \in Nat
    /\ Begin <= Duration /\ Duration < Infinity
    /\ Parallel \in BOOLEAN /\ LaxDeletion \in BOOLEAN
    /\ Throws \in BOOLEAN /\ MaxKept \in Nat /\ MaxOps \in Nat

VARIABLES
    pc,             \* the phase of the simulation
    i,              \* index of the running loop over a vector of the bag
    m_currentTime,  \* the date of the coordinator
    nb_executive,   \* number of executives of the bag before the dispatch
    m_observations, \* Simulator: calls observed in this bag, to report
    m_result,       \* Simulator: the targets its output is still to reach
    emitted,        \* history: the simulators that output events in this bag
    threw,          \* history: a transition has thrown
    m_simulators,   \* the living simulators
    graph,          \* the nodes of the vpz tree
    m_delete_model, \* the nodes to delete at the end of the bag
    lst,            \* simulators of the deleted nodes
    ops             \* structural changes so far

coordinatorVars == <<pc, i, m_currentTime, nb_executive, m_observations,
                     m_result, emitted, threw, m_simulators, graph,
                     m_delete_model, lst, ops>>
structureVars == <<m_simulators, graph, m_delete_model, lst, ops, threw>>
vars == <<coordinatorVars, schedulerVars, observationVars>>

Phase == {"load", "start", "ready", "dispatch_dynamics",
          "dispatch_executives", "transition_dynamics", "schedule_dynamics",
          "transition_executives", "schedule_executives", "observe", "eat",
          "delete", "ended", "failed", "undefined"}

\* A node of the graph and everything it encloses.
Inside(m) == {n \in Model : n = m \/ m \in Above[n]}
Atoms(m) == Inside(m) \cap Sim

\* ::depth: the deeper the model, the smaller the number.
Depth(s) == -(Cardinality(Above[s]) + 1)

Targets(s) == {t \in m_simulators : <<s, t>> \in Conn}

TypeOK ==
    /\ SchedulerTypeOK
    /\ pc \in Phase
    /\ i \in Nat \ {0}
    /\ m_currentTime \in Time
    /\ nb_executive \in Nat
    /\ m_observations \in [Sim -> Seq({"output", "internal", "external",
                                       "confluent"})]
    /\ m_result \in [Sim -> SUBSET Sim]
    /\ emitted \subseteq Sim
    /\ threw \in BOOLEAN
    /\ m_simulators \subseteq Sim
    /\ graph \subseteq Model
    /\ m_delete_model \in Seq(Model)
    /\ lst \subseteq Sim
    /\ ops \in 0 .. MaxOps
    /\ m_observation \in [TView -> Time \cup {NoEvent}]
    /\ m_observableList \in [TView -> SUBSET Sim]
    /\ observed \in [TView -> Seq(Time)]

\* Every enabled timed view has a first observation at the beginning.
BuildViews ==
    /\ m_observation = [v \in TView |-> Begin]
    /\ m_observableList = [v \in TView |-> {}]
    /\ observed = [v \in TView |-> <<>>]

\* RootCoordinator::load.
Init ==
    /\ SchedulerInit
    /\ pc = "load"
    /\ i = 1
    /\ m_currentTime = Begin
    /\ nb_executive = 0
    /\ m_observations = [s \in Sim |-> <<>>]
    /\ m_result = [s \in Sim |-> {}]
    /\ emitted = {}
    /\ threw = FALSE
    /\ m_simulators = {}
    /\ graph = Initial
    /\ m_delete_model = <<>>
    /\ lst = {}
    /\ ops = 0
    /\ BuildViews

-----------------------------------------------------------------------------
(* Creation of models *)

\* ModelFactory::createModel for every atomic model of S: the simulator is
\* added, attached to its views and initialised (Coordinator::processInit),
\* which schedules it unless its first date is infinite.
AddSimulators(S) ==
    \E ta \in [S -> TimeAdvance] :
        LET tn(s) == Plus(m_currentTime, ta[s])
            finite == {s \in S : tn(s) < Infinity}
        IN  /\ m_simulators' = m_simulators \cup S
            /\ m_tn' = [s \in Sim |-> IF s \in S THEN tn(s) ELSE m_tn[s]]
            /\ m_scheduler' = m_scheduler \cup {<<s, tn(s)>> : s \in finite}
            /\ m_handle' = [s \in Sim |->
                   IF s \in finite THEN tn(s) ELSE m_handle[s]]
            /\ AddObservable([v \in TView |-> Observes[v] \cap S])
            /\ UNCHANGED <<m_observation, observed>>

\* ModelFactory::createModels
LoadModels ==
    /\ pc = "load"
    /\ pc' = "start"
    /\ AddSimulators(Initial \cap Sim)
    /\ UNCHANGED <<bagVars, m_current_time, m_have_internal,
                   m_external_events, i, m_currentTime, nb_executive,
                   m_observations, m_result, emitted, threw, graph,
                   m_delete_model, lst, ops>>

\* The executive that may change the structure: during the initialisation
\* one that is loaded, then the one whose transition is running.
Running(e) ==
    \/ pc = "start" /\ e \in m_simulators \cap Exec
    \/ pc = "transition_executives" /\ i <= Len(executives)
       /\ e = executives[i]

\* A node that never existed: the address of a model is not used twice.
Fresh(m) ==
    \A n \in Inside(m) :
        n \notin graph /\ (n \in Sim => m_tn[n] = NegativeInfinity)

\* Executive::createModel and createModelFromClass: a new node of the
\* coupled model of the executive, atomic or cloned from a class.
CreateModel(e, m) ==
    /\ Running(e)
    /\ ops < MaxOps
    /\ Above[m] = Above[e]
    /\ Fresh(m)
    /\ AddSimulators(Atoms(m))
    /\ graph' = graph \cup Inside(m)
    /\ ops' = ops + 1
    /\ UNCHANGED <<bagVars, m_current_time, m_have_internal,
                   m_external_events, pc, i, m_currentTime, nb_executive,
                   m_observations, m_result, emitted, threw, m_delete_model,
                   lst>>

\* Executive::delModel: the node must be a child of the executive's coupled
\* model; it is only queued, and is still found by a second call.
DelModel(e, m) ==
    /\ Running(e)
    /\ ops < MaxOps
    /\ Above[m] = Above[e]
    /\ m \in graph \cap Deletable
    /\ LaxDeletion \/ (pc # "start" /\ m \notin Range(m_delete_model))
    /\ m_delete_model' = Append(m_delete_model, m)
    /\ ops' = ops + 1
    /\ UNCHANGED <<schedulerVars, observationVars, pc, i, m_currentTime,
                   nb_executive, m_observations, m_result, emitted, threw,
                   m_simulators, graph, lst>>

\* The end of Coordinator::init.
Start ==
    /\ pc = "start"
    /\ pc' = "ready"
    /\ StartBag(Begin)
    /\ UNCHANGED <<observationVars, i, m_currentTime, nb_executive,
                   m_observations, m_result, emitted, structureVars>>

-----------------------------------------------------------------------------
(* Coordinator::run: outputs and dispatch of the events *)

\* RootCoordinator::run stops at the end of the simulation.
Over == m_currentTime = Infinity \/ Duration < m_currentTime

\* DynamicsObserver: the call of function f of s is observed, after those of
\* q, if an event view is attached to f.
Told(q, s, f) == IF f \in Attached[s] THEN Append(q, f) ELSE q
Observed(s, f) == Told(m_observations[s], s, f)

\* Any of the imminent simulators of vector q may output events.
Output(q, number) ==
    LET imminent == {q[k] : k \in 1 .. number} IN
    /\ \E S \in SUBSET imminent :
           /\ m_result' = [s \in Sim |->
                  IF s \in S THEN Targets(s) ELSE m_result[s]]
           /\ emitted' = emitted \cup S
    /\ m_observations' = [s \in Sim |->
           IF s \in imminent THEN Observed(s, "output")
                             ELSE m_observations[s]]

BeginBag ==
    /\ pc = "ready"
    /\ ~Over
    /\ m_currentTime' = IF dynamics # <<>> \/ executives # <<>>
                        THEN m_current_time ELSE m_currentTime
    /\ nb_executive' = Len(executives)
    /\ Output(dynamics, Len(dynamics))
    /\ pc' = "dispatch_dynamics"
    /\ UNCHANGED <<schedulerVars, observationVars, structureVars, i>>

\* Coordinator::dispatchExternalEvent, one target at a time, in the order of
\* the vector for the senders and in any order for the targets.
Dispatch(q) ==
    \E k \in DOMAIN q :
        /\ \A l \in 1 .. k - 1 : m_result[q[l]] = {}
        /\ \E t \in m_result[q[k]] :
               /\ AddExternal(t, q[k])
               /\ m_result' = [m_result EXCEPT ![q[k]] = @ \ {t}]

Dispatched == \A s \in Sim : m_result[s] = {}

DispatchDynamics ==
    /\ pc = "dispatch_dynamics"
    /\ Dispatch(dynamics)
    /\ UNCHANGED <<observationVars, structureVars, pc, i, m_currentTime,
                   nb_executive, m_observations, emitted>>

\* Mutant: the executives reached by an event output too.
OutputEveryExecutive ==
    /\ pc = "dispatch_dynamics"
    /\ Dispatched
    /\ Output(executives, Len(executives))
    /\ pc' = "dispatch_executives"
    /\ UNCHANGED <<schedulerVars, observationVars, structureVars, i,
                   m_currentTime, nb_executive>>

OutputExecutives ==
    /\ pc = "dispatch_dynamics"
    /\ Dispatched
    /\ Output(executives, nb_executive)
    /\ pc' = "dispatch_executives"
    /\ UNCHANGED <<schedulerVars, observationVars, structureVars, i,
                   m_currentTime, nb_executive>>

DispatchExecutives ==
    /\ pc = "dispatch_executives"
    /\ Dispatch(executives)
    /\ UNCHANGED <<observationVars, structureVars, pc, i, m_currentTime,
                   nb_executive, m_observations, emitted>>

\* Mutant: the executives are not sorted.
Unsorted(q) == {q}

\* The vectors std::sort may produce: it is not stable.
SortedByDepth(q) ==
    {[k \in DOMAIN q |-> q[p[k]]] : p \in
        {f \in Bijection(DOMAIN q, DOMAIN q) : \A k, l \in DOMAIN q :
            k < l => Depth(q[f[k]]) <= Depth(q[f[l]])}}

SortExecutives ==
    /\ pc = "dispatch_executives"
    /\ Dispatched
    /\ executives' \in SortedByDepth(executives)
    /\ pc' = "transition_dynamics"
    /\ i' = 1
    /\ UNCHANGED <<heapVars, dynamics, unique_simulators, m_current_time,
                   m_tn, m_have_internal, m_external_events, observationVars,
                   structureVars, m_currentTime, nb_executive,
                   m_observations, m_result, emitted>>

-----------------------------------------------------------------------------
(* Coordinator::run: transitions *)

\* The function of the dynamics that the transition of s calls.
Called(s) == IF ~m_have_internal[s] THEN "external"
             ELSE IF HaveExternalEvents(s) THEN "confluent" ELSE "internal"

\* Mutant: the external events are not cleared.
TransitionKeepsEvents(s) ==
    /\ \E ta \in TimeAdvance :
           m_tn' = [m_tn EXCEPT ![s] = Plus(m_currentTime, ta)]
    /\ m_have_internal' = [m_have_internal EXCEPT ![s] = FALSE]
    /\ m_observations' = [m_observations EXCEPT ![s] = Observed(s, Called(s))]
    /\ i' = i + 1
    /\ UNCHANGED m_external_events

\* The internal, external or confluent transition of s, by what it has to
\* process; the three leave no event behind and set the next date.
Transition(s) ==
    /\ \E ta \in TimeAdvance :
           m_tn' = [m_tn EXCEPT ![s] = Plus(m_currentTime, ta)]
    /\ m_have_internal' = [m_have_internal EXCEPT ![s] = FALSE]
    /\ m_external_events' = [m_external_events EXCEPT ![s] = <<>>]
    /\ m_observations' = [m_observations EXCEPT ![s] = Observed(s, Called(s))]
    /\ i' = i + 1

TransitionDynamics ==
    /\ pc = "transition_dynamics"
    /\ i <= Len(dynamics)
    /\ Transition(dynamics[i])
    /\ UNCHANGED <<heapVars, bagVars, m_current_time, observationVars,
                   structureVars, pc, m_currentTime, nb_executive, m_result,
                   emitted>>

TransitionExecutives ==
    /\ pc = "transition_executives"
    /\ i <= Len(executives)
    /\ Transition(executives[i])
    /\ UNCHANGED <<heapVars, bagVars, m_current_time, observationVars,
                   structureVars, pc, m_currentTime, nb_executive, m_result,
                   emitted>>

\* A transition throws and nothing catches it before the simulation loop:
\* the simulation stops.
TransitionThrows ==
    /\ Throws
    /\ \/ pc = "transition_dynamics" /\ ~Parallel /\ i <= Len(dynamics)
       \/ pc = "transition_executives" /\ i <= Len(executives)
    /\ pc' = "failed"
    /\ threw' = TRUE
    /\ UNCHANGED <<schedulerVars, observationVars, m_simulators, graph,
                   m_delete_model, lst, ops, i, m_currentTime, nb_executive,
                   m_observations, m_result, emitted>>

\* simulator_process catches the exception of a pooled transition and drops
\* it.  The events of the simulator are kept when the transition function
\* itself threw, and cleared when timeAdvance returned a negative duration;
\* in both cases the next date is not updated.
SwallowedThrow ==
    /\ Throws
    /\ Parallel
    /\ pc = "transition_dynamics" /\ i <= Len(dynamics)
    /\ \/ /\ Len(m_external_events[dynamics[i]]) <= MaxKept
          /\ UNCHANGED <<m_have_internal, m_external_events, m_observations>>
       \/ LET s == dynamics[i] IN
          /\ m_have_internal' = [m_have_internal EXCEPT ![s] = FALSE]
          /\ m_external_events' = [m_external_events EXCEPT ![s] = <<>>]
          /\ m_observations' =
                 [m_observations EXCEPT ![s] = Observed(s, Called(s))]
    /\ i' = i + 1
    /\ threw' = TRUE
    /\ UNCHANGED <<heapVars, bagVars, m_current_time, m_tn, observationVars,
                   m_simulators, graph, m_delete_model, lst, ops, pc,
                   m_currentTime, nb_executive, m_result, emitted>>

\* Mutant: a simulator that asked for the current date is not scheduled.
RescheduleLater(s) ==
    /\ IF m_tn[s] \in m_current_time + 1 .. Infinity - 1
       THEN AddInternal(s, m_tn[s])
       ELSE UNCHANGED heapVars
    /\ i' = i + 1
    /\ UNCHANGED <<bagVars, m_current_time, m_tn, m_have_internal,
                   m_external_events, observationVars, structureVars, pc,
                   m_currentTime, nb_executive, m_observations, m_result,
                   emitted>>

\* Mutant: a simulator that asked for no date is scheduled like the others.
RescheduleAlways(s) ==
    /\ AddInternal(s, m_tn[s])
    /\ i' = i + 1
    /\ UNCHANGED <<bagVars, m_current_time, m_tn, m_have_internal,
                   m_external_events, observationVars, structureVars, pc,
                   m_currentTime, nb_executive, m_observations, m_result,
                   emitted>>

\* Mutant: a simulator is scheduled at the date of the bag.
RescheduleNow(s) ==
    /\ AddInternal(s, m_current_time)
    /\ i' = i + 1
    /\ UNCHANGED <<bagVars, m_current_time, m_tn, m_have_internal,
                   m_external_events, observationVars, structureVars, pc,
                   m_currentTime, nb_executive, m_observations, m_result,
                   emitted>>

\* The loops that put the simulators of the bag back into the event table.
Reschedule(s) ==
    /\ IF m_tn[s] < Infinity THEN AddInternal(s, m_tn[s])
                             ELSE UNCHANGED heapVars
    /\ i' = i + 1
    /\ UNCHANGED <<bagVars, m_current_time, m_tn, m_have_internal,
                   m_external_events, observationVars, structureVars, pc,
                   m_currentTime, nb_executive, m_observations, m_result,
                   emitted>>

RescheduleDynamics ==
    /\ pc = "schedule_dynamics"
    /\ i <= Len(dynamics)
    /\ Reschedule(dynamics[i])

RescheduleExecutives ==
    /\ pc = "schedule_executives"
    /\ i <= Len(executives)
    /\ Reschedule(executives[i])

\* The end of each of the four loops.
EndLoop ==
    /\ \/ /\ pc = "transition_dynamics" /\ i > Len(dynamics)
          /\ pc' = "schedule_dynamics"
       \/ /\ pc = "schedule_dynamics" /\ i > Len(dynamics)
          /\ pc' = "transition_executives"
       \/ /\ pc = "transition_executives" /\ i > Len(executives)
          /\ pc' = "schedule_executives"
       \/ /\ pc = "schedule_executives" /\ i > Len(executives)
          /\ pc' = "observe"
    /\ i' = 1
    /\ UNCHANGED <<schedulerVars, observationVars, structureVars,
                   m_currentTime, nb_executive, m_observations, m_result,
                   emitted>>

-----------------------------------------------------------------------------
(* Coordinator::run: timed observations, deletions and the next bag *)

\* Mutant: the observations of the executives are not reported.
ObserveDynamics ==
    /\ pc = "observe"
    /\ m_observations' = [s \in Sim |->
           IF s \in Range(dynamics) THEN <<>> ELSE m_observations[s]]
    /\ pc' = IF GetNextTime > m_currentTime THEN "eat" ELSE "delete"
    /\ UNCHANGED <<schedulerVars, observationVars, structureVars, i,
                   m_currentTime, nb_executive, m_result, emitted>>

\* The calls observed in the bag are reported to the event views; timed views
\* are run only when the next bag has a later date.
Observe ==
    /\ pc = "observe"
    /\ m_observations' = [s \in Sim |->
           IF s \in Range(dynamics) \cup Range(executives)
           THEN <<>> ELSE m_observations[s]]
    /\ pc' = IF GetNextTime > m_currentTime THEN "eat" ELSE "delete"
    /\ UNCHANGED <<schedulerVars, observationVars, structureVars, i,
                   m_currentTime, nb_executive, m_result, emitted>>

\* Mutant: the date of the next bag is ignored.
EatUntilDuration == Duration

EatUntil == IF GetNextTime < Duration THEN GetNextTime ELSE Duration

EatViews ==
    /\ pc = "eat"
    /\ ObservationAtTime(EatUntil) # {}
    /\ RunViews(EatUntil, Infinity)
    /\ m_currentTime' = LastPopped(EatUntil)
    /\ UNCHANGED <<schedulerVars, structureVars, pc, i, nb_executive,
                   m_observations, m_result, emitted>>

EndEat ==
    /\ pc = "eat"
    /\ ObservationAtTime(EatUntil) = {}
    /\ IF GetNextTime > Duration
       THEN m_currentTime' = Duration /\ Finalize(Duration)
       ELSE UNCHANGED <<m_currentTime, observationVars>>
    /\ pc' = "delete"
    /\ UNCHANGED <<schedulerVars, structureVars, i, nb_executive,
                   m_observations, m_result, emitted>>

\* First loop of Coordinator::dynamic_deletion.  The tree frees the node and
\* everything it encloses; to read a freed node is undefined.
DeleteModel ==
    LET m == Head(m_delete_model) IN
    /\ pc = "delete"
    /\ m_delete_model # <<>>
    /\ IF m \in graph
       THEN /\ RemoveObservable(Atoms(m) \cap graph)
            /\ lst' = lst \cup (Atoms(m) \cap graph)
            /\ graph' = graph \ Inside(m)
            /\ m_delete_model' = Tail(m_delete_model)
            /\ UNCHANGED <<pc, m_observation, observed>>
       ELSE /\ pc' = "undefined"
            /\ UNCHANGED <<observationVars, lst, graph, m_delete_model>>
    /\ UNCHANGED <<schedulerVars, i, m_currentTime, nb_executive,
                   m_observations, m_result, emitted, threw, m_simulators,
                   ops>>

\* Second loop of Coordinator::dynamic_deletion.
DeleteSimulator ==
    /\ pc = "delete"
    /\ m_delete_model = <<>>
    /\ \E s \in lst :
           /\ DelSimulator(s)
           /\ m_simulators' = m_simulators \ {s}
           /\ lst' = lst \ {s}
           /\ m_observations' = [m_observations EXCEPT ![s] = <<>>]
    /\ UNCHANGED <<observationVars, pc, i, m_currentTime, nb_executive,
                   m_result, emitted, threw, graph, m_delete_model, ops>>

NextBag ==
    /\ pc = "delete"
    /\ m_delete_model = <<>> /\ lst = {}
    /\ MakeNextBag
    /\ m_currentTime' = m_current_time'
    /\ emitted' = {}
    /\ pc' = "ready"
    /\ UNCHANGED <<observationVars, structureVars, i, nb_executive,
                   m_observations, m_result>>

\* RootCoordinator::finish: every simulator and every view is finished.
Finish ==
    /\ pc = "ready"
    /\ Over
    /\ pc' = "ended"
    /\ UNCHANGED <<schedulerVars, observationVars, structureVars, i,
                   m_currentTime, nb_executive, m_observations, m_result,
                   emitted>>

Terminated ==
    /\ pc \in {"ended", "failed", "undefined"}
    /\ UNCHANGED vars

-----------------------------------------------------------------------------

Structure ==
    \E e \in Exec, m \in Model : CreateModel(e, m) \/ DelModel(e, m)

Run ==
    \/ LoadModels \/ Start \/ BeginBag
    \/ DispatchDynamics \/ OutputExecutives \/ DispatchExecutives
    \/ SortExecutives
    \/ TransitionDynamics \/ TransitionExecutives
    \/ TransitionThrows \/ SwallowedThrow
    \/ RescheduleDynamics \/ RescheduleExecutives \/ EndLoop
    \/ Observe \/ EatViews \/ EndEat
    \/ DeleteModel \/ DeleteSimulator \/ NextBag \/ Finish

Next == Structure \/ Run \/ Terminated

Spec == Init /\ [][Next]_vars

\* The simulation is one thread: it runs as long as it has a step to make,
\* and every function of a user's model returns.
FairSpec == Spec /\ WF_vars(Run)

-----------------------------------------------------------------------------
(* Properties *)

\* The event table is consistent with its simulators: the handle of a
\* simulator designates its only node, the node bears the date the simulator
\* asked for, which is not in the past, and the simulator is alive.
EventTableConsistent ==
    /\ \A s \in Sim :
           HaveHandle(s) => <<s, m_handle[s]>> \in m_scheduler
    /\ \A n \in m_scheduler :
           /\ n[1] \in m_simulators
           /\ m_handle[n[1]] = n[2] /\ m_tn[n[1]] = n[2]
           /\ n[2] >= m_current_time

\* The two vectors of a bag hold every simulator of the set once (the reason
\* unique_simulators exists), and nobody has an event to process but the
\* simulators of the bag.  The last part needs that no exception was
\* swallowed: a pooled transition that threw keeps its events for later.
BagConsistent ==
    pc \notin {"delete", "undefined"} =>
        /\ IsInjective(dynamics) /\ IsInjective(executives)
        /\ Range(dynamics) = unique_simulators \ Exec
        /\ Range(executives) = unique_simulators \cap Exec
        /\ ~threw =>
               \A s \in Sim : m_have_internal[s] \/ HaveExternalEvents(s) =>
                   s \in unique_simulators

\* No wake-up is lost: between two bags every living simulator that asked for
\* a date is in the heap at this date or in the bag.
NoLostWakeUp ==
    pc = "ready" => \A s \in m_simulators : m_tn[s] < Infinity =>
        \/ m_handle[s] = m_tn[s]
        \/ m_have_internal[s] /\ s \in unique_simulators

\* The invariant of the event table, whatever simulators answer and whatever
\* executives create and delete: the heap, the handles and the bag agree (see
\* Scheduler.cpp), and no simulator is forgotten.
EventTableInv == TypeOK /\ EventTableConsistent /\ BagConsistent /\ NoLostWakeUp

\* The assertions of the kernel: a simulator entered in a bag has something
\* to process when its turn comes, every date given to addInternal, and so
\* every node of the heap, is finite and not in the past, and the coordinator
\* and the event table agree on the date while simulators run.
AssertionsHold ==
    /\ pc = "transition_dynamics" /\ i <= Len(dynamics) =>
           m_have_internal[dynamics[i]] \/ HaveExternalEvents(dynamics[i])
    /\ pc = "transition_executives" /\ i <= Len(executives) =>
           m_have_internal[executives[i]] \/ HaveExternalEvents(executives[i])
    /\ \A n \in m_scheduler : m_current_time <= n[2] /\ n[2] < Infinity
    /\ pc \in {"dispatch_dynamics", "dispatch_executives",
               "transition_dynamics", "transition_executives"} =>
           m_currentTime = m_current_time

\* When the transitions begin, every event output in the bag has reached each
\* of its targets once, only simulators that were due have output, and no
\* simulator has another event; unless the pool swallowed an exception, and
\* with it a transition that still has its events.
EventsDelivered ==
    pc = "transition_dynamics" /\ i = 1 /\ ~threw =>
        /\ \A s \in emitted : m_have_internal[s]
        /\ \A t \in m_simulators :
               /\ IsInjective(m_external_events[t])
               /\ Range(m_external_events[t]) =
                      {s \in emitted : <<s, t>> \in Conn}

\* When the next bag is about to be built, a deleted model has left the event
\* table, the bag and the views, and its simulator
\* is gone (Executive::delModel).
DeletedModelsGone ==
    pc \in {"ready", "ended"} =>
        /\ m_simulators = graph \cap Sim
        /\ unique_simulators \subseteq m_simulators
        /\ Range(dynamics) \cup Range(executives) \subseteq m_simulators
        /\ Due(Infinity) \subseteq m_simulators
        /\ \A v \in TView : m_observableList[v] \subseteq m_simulators

\* The deletion of a model never reads a node that is already freed: an inner
\* model is queued before the coupled model that encloses it, because the
\* deepest executives run first.
NoUseAfterFree == pc # "undefined"

\* Each timed view was run at every multiple of its time step before the end
\* of the simulation, and once more at the end.
ViewsComplete ==
    pc = "ended" => \A v \in TView :
        LET n == Len(observed[v]) IN
        /\ n > 0 /\ observed[v][n] = Duration
        /\ \A k \in 1 .. n - 1 :
               observed[v][k] = Begin + (k - 1) * Timestep[v]
        /\ Begin + (n - 1) * Timestep[v] >= Duration
        /\ n > 1 => observed[v][n - 1] < Duration

\* A timed view sees the models as they are at the date it is run: no bag of
\* an earlier date is still to come, and none of a later date is processed.
ObservedOnTime ==
    [][\A v \in TView : observed'[v] # observed[v] =>
           LET t == observed'[v][Len(observed'[v])]
           IN  m_current_time <= t /\ t < GetNextTime]_vars

\* The event views are told of every call of the bag, once and in order: an
\* output and the transition of a simulator that was due, or the external
\* transition of one that was not; nothing is left for the next bag.
CallsObserved ==
    /\ pc = "observe" => \A s \in unique_simulators :
           m_observations[s] \in
               {Told(Told(<<>>, s, "output"), s, "internal"),
                Told(Told(<<>>, s, "output"), s, "confluent"),
                Told(<<>>, s, "external")}
    /\ pc = "ready" => \A s \in Sim : m_observations[s] = <<>>

\* The simulators that still have a transition to make in the bag.
Pending == {s \in Sim : m_have_internal[s] \/ HaveExternalEvents(s)}

Stage == CASE pc \in {"load", "start"} -> "setup"
           [] pc \in {"ready", "dispatch_dynamics", "dispatch_executives",
                      "ended"} -> "emit"
           [] OTHER -> "move"

Abstract == INSTANCE Devs WITH
    clock <- m_current_time, live <- m_simulators, tn <- m_tn,
    todo <- Pending, stage <- Stage

\* The coordinator implements parallel DEVS with dynamic structure: whatever
\* Coordinator::run does with the heap, the vectors and the deletions, the
\* clock, the dates and the transitions are those of Devs.
ImplementsDevs == Abstract!DevsSpec

\* A transition that leaves its simulator at the date of its own bag: the
\* model asked for this date, or it threw in the pool when it was imminent.
StaysAtDate ==
    \E bag \in {dynamics, executives} :
        /\ pc = IF bag = dynamics THEN "transition_dynamics"
                                 ELSE "transition_executives"
        /\ i <= Len(bag) /\ i' = i + 1
        /\ m_tn'[bag[i]] = m_current_time

\* The simulation ends, unless transitions leave their simulators at the date
\* of their own bag for ever.  A pooled model that throws each time it is
\* imminent does so, for simulator_process drops the exception and the model
\* is imminent again at the same date: that case is excepted.  An exception
\* of an external transition, or any finite number of exceptions, blocks
\* nothing, whatever events and dates it leaves behind.
SimulationEnds ==
    <>(pc \in {"ended", "failed"}) \/ []<><<StaysAtDate>>_vars

=============================================================================
