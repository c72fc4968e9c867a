-------------------------- MODULE CoordinatorProofs --------------------------
(***************************************************************************)
(* Theorems on the simulation loop, for any set of models, any nesting and *)
(* connections, any dates and any number of structural changes: the event  *)
(* table, then deletions in a safe order, delivery of the events, views    *)
(* run on time, and the semantics of Devs.                                 *)
(***************************************************************************)
EXTENDS Coordinator, Facts

Suffix(q) == {q[k] : k \in i .. Len(q)}

\* The simulators of the bag whose transition is still to be made.
Waiting ==
    CASE pc \in {"ready", "dispatch_dynamics", "dispatch_executives", "ended"} ->
             unique_simulators
      [] pc = "transition_dynamics" -> Suffix(dynamics) \cup Range(executives)
      [] pc = "schedule_dynamics" -> Range(executives)
      [] pc = "transition_executives" -> Suffix(executives)
      [] OTHER -> {}

\* The simulators of the bag that are not back in the event table.
Unplanned ==
    CASE pc \in {"ready", "dispatch_dynamics", "dispatch_executives", "ended",
                 "transition_dynamics"} -> unique_simulators
      [] pc = "schedule_dynamics" -> Suffix(dynamics) \cup Range(executives)
      [] pc = "transition_executives" -> Range(executives)
      [] pc = "schedule_executives" -> Suffix(executives)
      [] OTHER -> {}

Stopped == {"failed", "undefined"}

\* The coordinator and the event table have the same date, except before
\* the first bag and once the timed views have run.
Clock ==
    /\ pc \in {"load", "start"} =>
           m_currentTime = Begin /\ m_current_time = NegativeInfinity
    /\ pc \notin {"load", "start", "eat", "delete"} \cup Stopped =>
           m_currentTime = m_current_time
    /\ pc \in {"ready", "dispatch_dynamics", "dispatch_executives"} =>
           \A n \in m_scheduler : n[2] > m_current_time

\* The vectors of the bag hold the simulators of the set, each once.
Vectors ==
    pc \notin {"delete", "undefined"} =>
        /\ IsInjective(dynamics) /\ IsInjective(executives)
        /\ Range(dynamics) = unique_simulators \ Exec
        /\ Range(executives) = unique_simulators \cap Exec

\* A simulator of the bag is alive, and a living one has a date that is not
\* in the past.
Living ==
    /\ unique_simulators \subseteq m_simulators
    /\ pc = "load" => m_simulators = {} /\ \A s \in Sim : m_tn[s] = NegativeInfinity
    /\ \A s \in m_simulators : m_tn[s] \in Time /\ m_tn[s] >= m_current_time
    /\ pc = "start" => \A s \in m_simulators : m_tn[s] >= Begin

\* Outputs are dispatched before the transitions, to living simulators.
Outputs ==
    /\ \A s \in Sim : m_result[s] \subseteq m_simulators
    /\ pc \notin {"dispatch_dynamics", "dispatch_executives"} => Dispatched
    /\ pc = "dispatch_dynamics" => nb_executive <= Len(executives)

\* A living simulator that is not in the hands of the bag is in the heap at
\* its date; one that waits for its transition is not in the heap.
Planned ==
    /\ pc \notin Stopped =>
           \A s \in m_simulators \ Unplanned :
               m_tn[s] < Infinity => m_handle[s] = m_tn[s]
    /\ \A s \in Waiting : ~HaveHandle(s)

\* The simulators that have something to process are those that wait for
\* their transition.
Processing ==
    /\ pc = "ready" => \A s \in unique_simulators : m_have_internal[s]
    /\ Waiting \subseteq Pending
    /\ ~threw => Pending \subseteq Waiting

\* The living simulators are those of the tree and those of freed nodes that
\* are still to be deleted.
Nodes ==
    /\ IF pc = "load" THEN graph = Initial
                      ELSE m_simulators = (graph \cap Sim) \cup lst
    /\ lst \cap graph = {}
    /\ pc \notin {"delete", "undefined"} => lst = {}
    /\ \A v \in TView : m_observableList[v] \subseteq graph

TableInv ==
    /\ TypeOK /\ EventTableConsistent /\ Clock /\ Vectors /\ Living /\ Outputs
    /\ Planned /\ Processing /\ Nodes

-----------------------------------------------------------------------------
(* The operators of the model *)

\* The dates of an experiment, and a date a duration later.
LEMMA Dates1 ==
    /\ Begin \in Time /\ Duration \in Time /\ Infinity \in Time
    /\ Infinity \in Nat /\ Begin \in Nat /\ Duration \in Nat
    /\ \A t \in Time, d \in TimeAdvance :
           Plus(t, d) \in Time /\ Plus(t, d) >= t
BY SchedulerAssumption, CoordinatorAssumption DEF Time, Plus

\* getNextTime is the least date of the heap, or infinity.
LEMMA NextTime ==
    ASSUME TypeOK
    PROVE  /\ GetNextTime \in Time
           /\ \A n \in m_scheduler : GetNextTime <= n[2]
           /\ m_scheduler # {} => \E n \in m_scheduler : n[2] = GetNextTime
           /\ m_scheduler = {} => GetNextTime = Infinity
<1> USE DEF TypeOK, SchedulerTypeOK
<1>1. CASE m_scheduler = {}
    BY <1>1, Dates1 DEF GetNextTime
<1>2. CASE m_scheduler # {}
    <2>1. Dates # {} /\ Dates \in SUBSET Time
        BY <1>2 DEF Dates
    <2>2. Time \in SUBSET Nat
        BY Dates1 DEF Time
    <2>3. \E t \in Dates : \A u \in Dates : t <= u
        BY <2>1, <2>2, LeastNatural
    <2>4. GetNextTime \in Dates /\ \A u \in Dates : GetNextTime <= u
        BY <1>2, <2>3 DEF GetNextTime
    <2> QED
        BY <1>2, <2>1, <2>4 DEF Dates
<1> QED BY <1>1, <1>2

\* The parts of a set of simulators are finite.
LEMMA SimFinite ==
    ASSUME NEW S, S \subseteq Sim
    PROVE  IsFiniteSet(S)
BY FS_Subset, SchedulerAssumption

\* std::sort gives the same simulators, the deepest first.
LEMMA SortFacts ==
    ASSUME NEW q \in Seq(Sim), NEW r \in SortedByDepth(q)
    PROVE  /\ r \in Seq(Sim) /\ Len(r) = Len(q)
           /\ Range(r) = Range(q)
           /\ IsInjective(q) => IsInjective(r)
           /\ \A k, l \in DOMAIN r : k < l => Depth(r[k]) <= Depth(r[l])
<1>1. PICK p \in Bijection(DOMAIN q, DOMAIN q) :
          /\ r = [k \in DOMAIN q |-> q[p[k]]]
          /\ \A k, l \in DOMAIN q : k < l => Depth(q[p[k]]) <= Depth(q[p[l]])
    BY DEF SortedByDepth
<1>2. p \in [DOMAIN q -> DOMAIN q] /\ IsInjective(p)
      /\ \A t \in DOMAIN q : \E s \in DOMAIN q : p[s] = t
    BY DEF Bijection, Injection, Surjection
<1>3. DOMAIN q = 1 .. Len(q) /\ Len(q) \in Nat /\ \A k \in DOMAIN q : q[k] \in Sim
    OBVIOUS
<1>4. DOMAIN r = DOMAIN q /\ \A k \in DOMAIN q : r[k] = q[p[k]] /\ r[k] \in Sim
    BY <1>1, <1>2, <1>3
<1>5. r \in Seq(Sim) /\ Len(r) = Len(q)
    <2>1. r = [k \in 1 .. Len(q) |-> q[p[k]]]
        BY <1>1, <1>3
    <2> QED BY <2>1, <1>3, <1>4
<1>6. Range(r) = Range(q)
    <2>1. ASSUME NEW x \in Range(q) PROVE x \in Range(r)
        <3>1. PICK t \in DOMAIN q : x = q[t]
            BY DEF Range
        <3>2. PICK k \in DOMAIN q : p[k] = t
            BY <1>2
        <3> QED BY <3>1, <3>2, <1>4 DEF Range
    <2>2. Range(r) \subseteq Range(q)
        BY <1>2, <1>4 DEF Range
    <2> QED BY <2>1, <2>2
<1>7. IsInjective(q) => IsInjective(r)
    BY <1>2, <1>4 DEF IsInjective
<1> QED BY <1>1, <1>4, <1>5, <1>6, <1>7

\* What is left of a vector after std::remove are simulators.
LEMMA ErasedFacts ==
    ASSUME NEW q \in Seq(Sim), NEW s, NEW r \in Erased(q, s)
    PROVE  r \in Seq(Sim)
<1> DEFINE kept == {k \in DOMAIN q : q[k] # s}
<1>1. PICK f \in Orderings(kept) : r = [k \in DOMAIN f |-> q[f[k]]]
    BY DEF Erased
<1>2. IsFiniteSet(kept)
    <2>1. Len(q) \in Nat /\ DOMAIN q = 1 .. Len(q)
        OBVIOUS
    <2>2. IsFiniteSet(DOMAIN q)
        BY <2>1, FS_Interval
    <2> QED BY <2>2, FS_Subset
<1>3. f \in Seq(kept)
    BY <1>1, <1>2, OrderingIsSequence DEF Orderings
<1>4. DOMAIN f = 1 .. Len(f) /\ Len(f) \in Nat /\ \A k \in DOMAIN f : f[k] \in DOMAIN q
    BY <1>3
<1>5. \A k \in DOMAIN f : q[f[k]] \in Sim
    BY <1>4
<1>6. r = [k \in 1 .. Len(f) |-> q[f[k]]]
    BY <1>1, <1>4
<1> QED BY <1>4, <1>5, <1>6

-----------------------------------------------------------------------------
(* The event table *)

\* Before the models are loaded the event table is empty.
LEMMA InitTable == Init => TableInv
<1> SUFFICES ASSUME Init PROVE TableInv
    OBVIOUS
<1> USE DEF Init, SchedulerInit, BuildViews
<1>1. TypeOK
    <2>1. SchedulerTypeOK
        BY DEF SchedulerTypeOK, NegativeInfinity, NoHandle
    <2>2. threw \in BOOLEAN
        OBVIOUS
    <2>3. /\ pc \in Phase /\ i \in Nat \ {0} /\ m_currentTime \in Time
          /\ nb_executive \in Nat /\ emitted \subseteq Sim /\ m_simulators \subseteq Sim
          /\ lst \subseteq Sim /\ ops \in 0 .. MaxOps
        BY Dates1, CoordinatorAssumption DEF Phase
    <2>4. /\ m_observations \in [Sim -> Seq({"output", "internal", "external", "confluent"})]
          /\ m_result \in [Sim -> SUBSET Sim] /\ m_delete_model \in Seq(Model)
        OBVIOUS
    <2>5. /\ graph \subseteq Model /\ m_observableList \in [TView -> SUBSET Sim]
          /\ m_observation \in [TView -> Time \cup {NoEvent}]
          /\ observed \in [TView -> Seq(Time)]
        BY Dates1, CoordinatorAssumption
    <2> QED BY <2>1, <2>2, <2>3, <2>4, <2>5 DEF TypeOK
<1>2. EventTableConsistent
    BY DEF EventTableConsistent, HaveHandle
<1>3. Clock /\ Living /\ Outputs /\ Nodes
    BY DEF Clock, Living, Outputs, Nodes, Dispatched, Stopped
<1>4. Vectors
    BY DEF Vectors, IsInjective, Range
<1>5. Waiting = {} /\ Unplanned = {} /\ Pending = {}
    BY DEF Waiting, Unplanned, Pending, HaveExternalEvents
<1>6. Planned /\ Processing
    BY <1>5 DEF Planned, Processing
<1> QED BY <1>1, <1>2, <1>3, <1>4, <1>6 DEF TableInv

\* The initialisation of new simulators puts them in the heap and leaves the
\* others alone.
LEMMA AddSimulatorsFacts ==
    ASSUME TypeOK, EventTableConsistent, NEW S \in SUBSET Sim,
           AddSimulators(S), UNCHANGED m_current_time,
           \A s \in S : m_tn[s] = NegativeInfinity,
           m_current_time <= m_currentTime
    PROVE  /\ m_scheduler' \subseteq Sim \X Time
           /\ m_tn' \in [Sim -> Time \cup {NegativeInfinity}]
           /\ m_handle' \in [Sim -> Time \cup {NoHandle}]
           /\ m_simulators' = m_simulators \cup S
           /\ m_observableList' \in [TView -> SUBSET Sim]
           /\ \A v \in TView : m_observableList'[v] \subseteq m_observableList[v] \cup S
           /\ UNCHANGED <<m_observation, observed>>
           /\ EventTableConsistent'
           /\ \A s \in Sim \ S : m_tn'[s] = m_tn[s] /\ m_handle'[s] = m_handle[s]
           /\ \A s \in S : /\ m_tn'[s] \in Time /\ m_tn'[s] >= m_currentTime
                           /\ m_tn'[s] < Infinity => m_handle'[s] = m_tn'[s]
<1> USE DEF TypeOK, SchedulerTypeOK
<1> DEFINE tn(s, ta) == Plus(m_currentTime, ta[s])
<1> DEFINE finite(ta) == {s \in S : tn(s, ta) < Infinity}
<1>1. PICK ta \in [S -> TimeAdvance] :
          /\ m_simulators' = m_simulators \cup S
          /\ m_tn' = [s \in Sim |-> IF s \in S THEN tn(s, ta) ELSE m_tn[s]]
          /\ m_scheduler' = m_scheduler \cup {<<s, tn(s, ta)>> : s \in finite(ta)}
          /\ m_handle' = [s \in Sim |->
                 IF s \in finite(ta) THEN tn(s, ta) ELSE m_handle[s]]
          /\ AddObservable([v \in TView |-> Observes[v] \cap S])
          /\ UNCHANGED <<m_observation, observed>>
    BY DEF AddSimulators
<1>2. \A s \in S : tn(s, ta) \in Time /\ tn(s, ta) >= m_currentTime
    BY <1>1, Dates1
<1> HIDE DEF tn
<1>3. m_scheduler' \subseteq Sim \X Time
    BY <1>1, <1>2
<1>4. /\ m_tn' \in [Sim -> Time \cup {NegativeInfinity}]
      /\ m_handle' \in [Sim -> Time \cup {NoHandle}]
    BY <1>1, <1>2
<1>5. \A s \in S : m_handle[s] = NoHandle /\ \A n \in m_scheduler : n[1] # s
    <2>1. ASSUME NEW n \in m_scheduler, n[1] \in S PROVE FALSE
        <3>1. m_tn[n[1]] = n[2] /\ n[2] \in Nat
            BY Dates1 DEF EventTableConsistent, Time
        <3> QED BY <2>1, <3>1 DEF NegativeInfinity
    <2>2. ASSUME NEW s \in S, m_handle[s] # NoHandle PROVE FALSE
        <3>1. <<s, m_handle[s]>> \in m_scheduler
            BY <2>2 DEF EventTableConsistent, HaveHandle
        <3>2. <<s, m_handle[s]>>[1] \in S
            OBVIOUS
        <3> QED BY <2>1, <3>1, <3>2
    <2> QED BY <2>1, <2>2
<1>6. \A s \in Sim \ S : m_tn'[s] = m_tn[s] /\ m_handle'[s] = m_handle[s]
    BY <1>1
<1>7. \A s \in S : /\ m_tn'[s] = tn(s, ta) /\ m_tn'[s] \in Time /\ m_tn'[s] >= m_currentTime
                   /\ tn(s, ta) < Infinity => m_handle'[s] = m_tn'[s]
                   /\ ~(tn(s, ta) < Infinity) => m_handle'[s] = NoHandle
    BY <1>1, <1>2, <1>5
<1>8. EventTableConsistent'
    <2>1. ASSUME NEW s \in Sim, HaveHandle(s)' PROVE <<s, m_handle'[s]>> \in m_scheduler'
        <3>1. CASE s \in S
            BY <3>1, <2>1, <1>1, <1>7 DEF HaveHandle
        <3>2. CASE s \notin S
            BY <3>2, <2>1, <1>1, <1>6 DEF HaveHandle, EventTableConsistent
        <3> QED BY <3>1, <3>2
    <2>2. ASSUME NEW n \in m_scheduler'
          PROVE  /\ n[1] \in m_simulators'
                 /\ m_handle'[n[1]] = n[2] /\ m_tn'[n[1]] = n[2]
                 /\ n[2] >= m_current_time'
        <3>1. CASE n \in m_scheduler
            <4>1. n[1] \in Sim \ S /\ n[1] \in m_simulators
                BY <3>1, <1>5 DEF EventTableConsistent
            <4> QED BY <3>1, <4>1, <1>1, <1>6 DEF EventTableConsistent
        <3>2. CASE n \notin m_scheduler
            <4>1. PICK s \in finite(ta) : n = <<s, tn(s, ta)>>
                BY <3>2, <2>2, <1>1
            <4>2. s \in S /\ tn(s, ta) < Infinity /\ n[1] = s /\ n[2] = tn(s, ta)
                BY <4>1
            <4>3. n[2] >= m_current_time'
                BY <4>2, <1>2, Dates1 DEF Time, NegativeInfinity
            <4> QED BY <4>2, <4>3, <1>1, <1>7
        <3> QED BY <3>1, <3>2
    <2> QED BY <2>1, <2>2 DEF EventTableConsistent
<1>9. /\ m_observableList' \in [TView -> SUBSET Sim]
      /\ \A v \in TView : m_observableList'[v] \subseteq m_observableList[v] \cup S
    BY <1>1, CoordinatorAssumption DEF AddObservable
<1>10. \A s \in S : m_tn'[s] < Infinity => m_handle'[s] = m_tn'[s]
    BY <1>7
<1> QED BY <1>1, <1>3, <1>4, <1>6, <1>7, <1>8, <1>9, <1>10

\* The factory loads the models of the vpz file.
LEMMA LoadModelsTable ==
    ASSUME TableInv, LoadModels PROVE TableInv'
<1> USE DEF TableInv
<1> DEFINE S == Initial \cap Sim
<1>1. /\ \A s \in Sim : m_tn[s] = NegativeInfinity
      /\ m_current_time <= m_currentTime /\ m_currentTime = Begin
      /\ m_current_time = NegativeInfinity
      /\ m_simulators = {} /\ lst = {}
    BY Dates1 DEF LoadModels, Living, Clock, Time, NegativeInfinity, Nodes
<1>2. AddSimulators(S) /\ UNCHANGED m_current_time /\ S \in SUBSET Sim
    BY DEF LoadModels
<1> HIDE DEF S
<1>3. /\ m_scheduler' \subseteq Sim \X Time
      /\ m_tn' \in [Sim -> Time \cup {NegativeInfinity}]
      /\ m_handle' \in [Sim -> Time \cup {NoHandle}]
      /\ m_simulators' = m_simulators \cup S
      /\ m_observableList' \in [TView -> SUBSET Sim]
      /\ \A v \in TView : m_observableList'[v] \subseteq m_observableList[v] \cup S
      /\ UNCHANGED <<m_observation, observed>>
      /\ EventTableConsistent'
      /\ \A s \in Sim \ S : m_tn'[s] = m_tn[s] /\ m_handle'[s] = m_handle[s]
      /\ \A s \in S : /\ m_tn'[s] \in Time /\ m_tn'[s] >= m_currentTime
                      /\ m_tn'[s] < Infinity => m_handle'[s] = m_tn'[s]
    BY <1>1, <1>2, AddSimulatorsFacts
<1>4. TypeOK'
    BY <1>2, <1>3 DEF TypeOK, SchedulerTypeOK, LoadModels, Phase, bagVars
<1>5. Clock' /\ Vectors' /\ Outputs'
    BY <1>3 DEF LoadModels, Clock, Vectors, Outputs, Dispatched, bagVars, Stopped
<1>6. Living'
    <2>1. m_simulators' = S /\ S \subseteq Sim /\ pc' = "start"
          /\ UNCHANGED <<m_current_time, unique_simulators>>
        BY <1>1, <1>2, <1>3 DEF LoadModels, bagVars
    <2>2. ASSUME NEW s \in S
          PROVE  m_tn'[s] \in Time /\ m_tn'[s] >= Begin /\ m_tn'[s] >= m_current_time
        <3>1. m_tn'[s] \in Time /\ m_tn'[s] \in Int /\ m_tn'[s] >= Begin
            BY <1>1, <1>3, <2>1, Dates1 DEF Time, NegativeInfinity
        <3> QED BY <3>1, <1>1, Dates1 DEF NegativeInfinity
    <2> QED BY <1>1, <2>1, <2>2 DEF Living
<1>7. Waiting = {} /\ Waiting' = {} /\ Unplanned' = {} /\ Pending' = Pending
    BY DEF LoadModels, Waiting, Unplanned, Pending, HaveExternalEvents
<1>8. Planned'
    BY <1>1, <1>3, <1>7 DEF Planned
<1>9. Processing'
    BY <1>7 DEF Processing, LoadModels
<1>10. Nodes'
    BY <1>1, <1>3 DEF Nodes, LoadModels, S
<1> QED BY <1>3, <1>4, <1>5, <1>6, <1>8, <1>9, <1>10

\* An executive runs in its own transition, or before the first bag.
LEMMA CreateModelTable ==
    ASSUME TableInv, NEW e \in Exec, NEW m \in Model, CreateModel(e, m)
    PROVE  TableInv'
<1> USE DEF TableInv
<1> DEFINE S == Atoms(m)
<1>1. /\ pc \in {"start", "transition_executives"} /\ UNCHANGED pc
      /\ lst = {} /\ m_simulators = graph \cap Sim
    BY DEF CreateModel, Running, Nodes
<1>2. m_current_time <= m_currentTime /\ (pc = "start" => m_currentTime = Begin)
    BY <1>1, Dates1 DEF Clock, Stopped, TypeOK, SchedulerTypeOK, Time, NegativeInfinity
<1>3. AddSimulators(S) /\ UNCHANGED m_current_time /\ S \in SUBSET Sim
    BY DEF CreateModel, Atoms
<1>4. \A s \in S : m_tn[s] = NegativeInfinity /\ s \notin m_simulators /\ s \notin graph
    BY <1>1 DEF CreateModel, Fresh, Atoms
<1>5. graph' = graph \cup Inside(m) /\ Inside(m) \subseteq Model /\ S = Inside(m) \cap Sim
    BY DEF CreateModel, Inside, Atoms
<1> HIDE DEF S
<1>6. /\ m_scheduler' \subseteq Sim \X Time
      /\ m_tn' \in [Sim -> Time \cup {NegativeInfinity}]
      /\ m_handle' \in [Sim -> Time \cup {NoHandle}]
      /\ m_simulators' = m_simulators \cup S
      /\ m_observableList' \in [TView -> SUBSET Sim]
      /\ \A v \in TView : m_observableList'[v] \subseteq m_observableList[v] \cup S
      /\ UNCHANGED <<m_observation, observed>>
      /\ EventTableConsistent'
      /\ \A s \in Sim \ S : m_tn'[s] = m_tn[s] /\ m_handle'[s] = m_handle[s]
      /\ \A s \in S : /\ m_tn'[s] \in Time /\ m_tn'[s] >= m_currentTime
                      /\ m_tn'[s] < Infinity => m_handle'[s] = m_tn'[s]
    BY <1>2, <1>3, <1>4, AddSimulatorsFacts
<1>7. TypeOK'
    BY <1>1, <1>3, <1>5, <1>6, CoordinatorAssumption
       DEF TypeOK, SchedulerTypeOK, CreateModel, bagVars
<1>8. Clock' /\ Vectors'
    BY <1>1, <1>6 DEF CreateModel, Clock, Vectors, bagVars, Stopped
<1>9. Outputs'
    BY <1>1, <1>6 DEF CreateModel, Outputs, Dispatched, bagVars
<1>10. Living'
    <2>1. \A s \in m_simulators : s \in Sim \ S
        BY <1>4 DEF TypeOK
    <2>2. \A s \in m_simulators' : m_tn'[s] \in Time /\ m_tn'[s] >= m_current_time'
        <3>1. \A s \in S : m_tn'[s] \in Int /\ m_currentTime \in Int /\ m_current_time \in Int
            BY <1>3, <1>6, Dates1 DEF TypeOK, SchedulerTypeOK, Time, NegativeInfinity
        <3> QED BY <1>2, <1>3, <1>6, <2>1, <3>1 DEF Living
    <2> QED BY <1>1, <1>2, <1>3, <1>6, <2>1, <2>2 DEF CreateModel, Living, bagVars
<1>11. /\ Waiting' = Waiting /\ Unplanned' = Unplanned /\ Pending' = Pending
       /\ Waiting \subseteq unique_simulators
    BY <1>1 DEF CreateModel, Waiting, Unplanned, Pending, HaveExternalEvents, bagVars,
                Suffix, Vectors, Range, TypeOK, SchedulerTypeOK
<1>12. Planned'
    <2>1. \A s \in unique_simulators : s \in Sim \ S
        BY <1>4 DEF Living, TypeOK
    <2> QED BY <1>1, <1>4, <1>6, <1>11, <2>1 DEF Planned, HaveHandle, TypeOK
<1>13. Processing'
    BY <1>1, <1>11 DEF Processing, CreateModel
<1>14. Nodes'
    BY <1>1, <1>4, <1>5, <1>6 DEF Nodes, CreateModel
<1> QED BY <1>6, <1>7, <1>8, <1>9, <1>10, <1>12, <1>13, <1>14

\* An executive deletes a model: the simulators stay alive until the end of
\* the bag.
LEMMA DelModelTable ==
    ASSUME TableInv, NEW e \in Exec, NEW m \in Model, DelModel(e, m)
    PROVE  TableInv'
<1> USE DEF TableInv, DelModel, schedulerVars, heapVars, bagVars, observationVars
<1>1. TypeOK'
    <2>1. m_delete_model' \in Seq(Model) /\ ops' \in 0 .. MaxOps
        BY CoordinatorAssumption DEF TypeOK
    <2> QED BY <2>1 DEF TypeOK, SchedulerTypeOK
<1>2. EventTableConsistent' /\ Clock' /\ Vectors' /\ Living' /\ Outputs' /\ Nodes'
    BY DEF EventTableConsistent, HaveHandle, Clock, Vectors, Living, Outputs, Nodes,
           Dispatched
<1>3. Waiting' = Waiting /\ Unplanned' = Unplanned /\ Pending' = Pending
    BY DEF Waiting, Unplanned, Pending, HaveExternalEvents, Suffix
<1>4. Planned' /\ Processing'
    BY <1>3 DEF Planned, Processing, HaveHandle
<1> QED BY <1>1, <1>2, <1>4

\* Filling a bag moves the simulators that are due from the heap to the bag.
LEMMA FillBagFacts ==
    ASSUME TypeOK, EventTableConsistent, NEW t \in Time, FillBag(t),
           UNCHANGED m_simulators
    PROVE  /\ SchedulerTypeOK' /\ m_current_time' = t
           /\ EventTableConsistent'
           /\ Due(t) \subseteq m_simulators /\ unique_simulators' = Due(t)
           /\ IsInjective(dynamics') /\ Range(dynamics') = Due(t) \ Exec
           /\ IsInjective(executives') /\ Range(executives') = Due(t) \cap Exec
           /\ \A s \in Due(t) :
                  m_handle'[s] = NoHandle /\ m_have_internal'[s] /\ m_tn[s] <= t
           /\ \A s \in Sim \ Due(t) :
                  m_handle'[s] = m_handle[s] /\ m_have_internal'[s] = m_have_internal[s]
           /\ \A n \in m_scheduler' : n[2] > t
           /\ UNCHANGED <<m_tn, m_external_events>>
<1> USE DEF TypeOK, SchedulerTypeOK
<1> DEFINE S == Due(t)
<1>1. /\ m_current_time' = t
      /\ dynamics' \in Orderings(S \ Exec)
      /\ executives' \in Orderings(S \cap Exec)
      /\ unique_simulators' = S
      /\ m_have_internal' = [s \in Sim |-> s \in S \/ m_have_internal[s]]
      /\ m_handle' = [s \in Sim |-> IF s \in S THEN NoHandle ELSE m_handle[s]]
      /\ m_scheduler' = {n \in m_scheduler : n[2] > t}
      /\ UNCHANGED <<m_tn, m_external_events>>
    BY DEF FillBag
<1>2. \A n \in m_scheduler : n[2] <= t => n[1] \in S
    BY DEF Due
<1>3. ASSUME NEW s \in S
      PROVE  \E n \in m_scheduler : n[1] = s /\ n[2] <= t
    BY DEF Due
<1> HIDE DEF S
<1>4. S \subseteq m_simulators /\ S \subseteq Sim /\ \A s \in S : m_tn[s] <= t
    BY <1>3 DEF EventTableConsistent
<1>5. IsFiniteSet(S \ Exec) /\ IsFiniteSet(S \cap Exec)
    BY <1>4, SimFinite
<1>6. /\ dynamics' \in Seq(S \ Exec) /\ IsInjective(dynamics')
      /\ Range(dynamics') = S \ Exec
      /\ executives' \in Seq(S \cap Exec) /\ IsInjective(executives')
      /\ Range(executives') = S \cap Exec
    BY <1>1, <1>5, OrderingIsSequence DEF Orderings
<1>7. dynamics' \in Seq(Sim) /\ executives' \in Seq(Sim)
    BY <1>4, <1>6
<1>8. SchedulerTypeOK'
    <2>1. m_have_internal' \in [Sim -> BOOLEAN] /\ m_handle' \in [Sim -> Time \cup {NoHandle}]
        BY <1>1
    <2> QED BY <1>1, <1>4, <1>7, <2>1
<1>9. EventTableConsistent'
    <2>1. ASSUME NEW s \in Sim, HaveHandle(s)' PROVE <<s, m_handle'[s]>> \in m_scheduler'
        <3>1. s \notin S /\ m_handle'[s] = m_handle[s]
            BY <1>1, <2>1 DEF HaveHandle
        <3>2. <<s, m_handle[s]>> \in m_scheduler
            BY <2>1, <3>1 DEF EventTableConsistent, HaveHandle
        <3>3. ~(m_handle[s] <= t)
            <4>1. <<s, m_handle[s]>>[1] = s /\ <<s, m_handle[s]>>[2] = m_handle[s]
                OBVIOUS
            <4> QED BY <3>1, <3>2, <4>1, <1>2
        <3>4. m_handle[s] \in Int /\ t \in Int
            BY Dates1 DEF Time, NoHandle
        <3> QED BY <1>1, <3>1, <3>2, <3>3, <3>4
    <2>2. ASSUME NEW n \in m_scheduler'
          PROVE  /\ n[1] \in m_simulators'
                 /\ m_handle'[n[1]] = n[2] /\ m_tn'[n[1]] = n[2]
                 /\ n[2] >= m_current_time'
        <3>1. n \in m_scheduler /\ n[2] > t
            BY <1>1, <2>2
        <3>2. /\ n[1] \in m_simulators /\ n[1] \in Sim /\ n[2] \in Int /\ t \in Int
              /\ m_handle[n[1]] = n[2] /\ m_tn[n[1]] = n[2]
            BY <3>1, Dates1 DEF EventTableConsistent, Time
        <3>3. n[1] \notin S
            BY <3>1, <3>2, <1>4
        <3> QED BY <1>1, <3>1, <3>2, <3>3
    <2> QED BY <2>1, <2>2 DEF EventTableConsistent
<1>10. \A s \in S : m_handle'[s] = NoHandle /\ m_have_internal'[s] /\ m_tn[s] <= t
    BY <1>1, <1>4
<1>11. \A s \in Sim \ S : m_handle'[s] = m_handle[s] /\ m_have_internal'[s] = m_have_internal[s]
    BY <1>1
<1>12. \A n \in m_scheduler' : n[2] > t
    BY <1>1
<1> QED BY <1>1, <1>4, <1>6, <1>8, <1>9, <1>10, <1>11, <1>12 DEF S

\* The same, for a bag of the loop: nothing waits, nothing is unplanned.
LEMMA FillBagTable ==
    ASSUME TableInv, NEW t \in Time, FillBag(t), pc' = "ready",
           pc \in {"start", "delete"}, lst = {},
           m_currentTime' = t,
           \A s \in m_simulators : m_tn[s] >= t,
           UNCHANGED <<observationVars, i, nb_executive, m_observations, m_result>>,
           UNCHANGED structureVars, emitted' \in SUBSET Sim
    PROVE  TableInv'
<1> USE DEF TableInv, structureVars, observationVars
<1>1. /\ SchedulerTypeOK' /\ m_current_time' = t
      /\ EventTableConsistent'
      /\ Due(t) \subseteq m_simulators /\ unique_simulators' = Due(t)
      /\ IsInjective(dynamics') /\ Range(dynamics') = Due(t) \ Exec
      /\ IsInjective(executives') /\ Range(executives') = Due(t) \cap Exec
      /\ \A s \in Due(t) :
             m_handle'[s] = NoHandle /\ m_have_internal'[s] /\ m_tn[s] <= t
      /\ \A s \in Sim \ Due(t) :
             m_handle'[s] = m_handle[s] /\ m_have_internal'[s] = m_have_internal[s]
      /\ \A n \in m_scheduler' : n[2] > t
      /\ UNCHANGED <<m_tn, m_external_events>>
    BY FillBagFacts
<1>2. TypeOK'
    BY <1>1 DEF TypeOK, Phase
<1>3. Clock' /\ Vectors' /\ Living' /\ Outputs' /\ Nodes'
    BY <1>1 DEF Clock, Vectors, Living, Outputs, Nodes, Dispatched, Stopped
<1>4. Waiting = {} /\ Unplanned = {} /\ Waiting' = Due(t) /\ Unplanned' = Due(t)
    BY <1>1 DEF Waiting, Unplanned
<1>5. Planned'
    BY <1>1, <1>4 DEF Planned, HaveHandle, Stopped, TypeOK
<1>6. Processing'
    <2>1. \A s \in Sim \ Due(t) : s \in Pending' <=> s \in Pending
        BY <1>1 DEF Pending, HaveExternalEvents
    <2>2. Due(t) \subseteq Pending'
        BY <1>1 DEF Pending, TypeOK
    <2> QED BY <1>1, <1>4, <2>1, <2>2 DEF Processing, Pending
<1> QED BY <1>1, <1>2, <1>3, <1>5, <1>6

\* The first bag is made at the begin of the experiment.
LEMMA StartTable ==
    ASSUME TableInv, Start PROVE TableInv'
<1> USE DEF TableInv
<1>1. /\ pc = "start" /\ lst = {} /\ m_currentTime = Begin
      /\ \A s \in m_simulators : m_tn[s] >= Begin
    BY DEF Start, Nodes, Clock, Living
<1>2. FillBag(Begin) /\ m_currentTime' = Begin /\ emitted' \in SUBSET Sim /\ pc' = "ready"
    BY <1>1 DEF Start, StartBag, TypeOK
<1> QED BY <1>1, <1>2, Dates1, FillBagTable DEF Start

\* The next bag is made at the least date of the event table.
LEMMA NextBagTable ==
    ASSUME TableInv, NextBag PROVE TableInv'
<1> USE DEF TableInv
<1> DEFINE t == GetNextTime
<1>1. pc = "delete" /\ lst = {} /\ FillBag(t) /\ t \in Time
      /\ \A n \in m_scheduler : t <= n[2]
    BY NextTime DEF NextBag, MakeNextBag
<1>2. Unplanned = {}
    BY <1>1 DEF Unplanned
<1>3. ASSUME NEW s \in m_simulators PROVE m_tn[s] >= t
    <2>1. m_tn[s] \in Int /\ t \in Int /\ t <= Infinity
        BY <1>1, Dates1 DEF TypeOK, SchedulerTypeOK, Time, NegativeInfinity
    <2>2. CASE m_tn[s] < Infinity
        <3>1. m_handle[s] = m_tn[s]
            BY <1>1, <1>2, <2>2 DEF Planned, Stopped
        <3>2. CASE m_tn[s] = NoHandle
            BY <3>2, Dates1 DEF Living, Time, NoHandle
        <3>3. CASE m_tn[s] # NoHandle
            <4>1. <<s, m_tn[s]>> \in m_scheduler
                BY <3>1, <3>3 DEF EventTableConsistent, HaveHandle, TypeOK
            <4>2. t <= <<s, m_tn[s]>>[2]
                BY <1>1, <4>1
            <4> QED BY <4>2, <2>1
        <3> QED BY <3>2, <3>3
    <2>3. CASE ~(m_tn[s] < Infinity)
        BY <2>1, <2>3, Dates1
    <2> QED BY <2>2, <2>3
<1>4. m_currentTime' = t /\ pc' = "ready" /\ emitted' \in SUBSET Sim
    BY <1>1 DEF NextBag, FillBag
<1> QED BY <1>1, <1>3, <1>4, FillBagTable DEF NextBag

\* The outputs of the dynamics are computed.
LEMMA BeginBagTable ==
    ASSUME TableInv, BeginBag PROVE TableInv'
<1> USE DEF TableInv, schedulerVars, heapVars, bagVars, observationVars, structureVars
<1>1. /\ pc = "ready" /\ pc' = "dispatch_dynamics" /\ m_currentTime' = m_currentTime
      /\ nb_executive' = Len(executives)
      /\ UNCHANGED <<schedulerVars, observationVars, structureVars, i>>
    BY DEF BeginBag, Clock, Stopped
<1> DEFINE imminent == {dynamics[k] : k \in 1 .. Len(dynamics)}
<1>2. PICK S \in SUBSET imminent :
          /\ m_result' = [s \in Sim |-> IF s \in S THEN Targets(s) ELSE m_result[s]]
          /\ emitted' = emitted \cup S
    BY DEF BeginBag, Output
<1>3. m_observations' = [s \in Sim |->
          IF s \in imminent THEN Observed(s, "output") ELSE m_observations[s]]
    BY DEF BeginBag, Output
<1>4. imminent \subseteq Sim /\ executives \in Seq(Sim) /\ Len(executives) \in Nat
    BY DEF TypeOK, SchedulerTypeOK
<1> HIDE DEF imminent
<1>5. TypeOK'
    <2>1. \A s \in Sim : Targets(s) \subseteq m_simulators
        BY DEF Targets
    <2>2. \A s \in Sim : Observed(s, "output") \in
              Seq({"output", "internal", "external", "confluent"})
        BY DEF Observed, Told, TypeOK
    <2>3. m_observations' \in [Sim -> Seq({"output", "internal", "external", "confluent"})]
        BY <1>3, <2>2 DEF TypeOK
    <2>4. m_result' \in [Sim -> SUBSET Sim] /\ emitted' \subseteq Sim
        BY <1>2, <1>4, <2>1 DEF TypeOK
    <2> QED BY <1>1, <1>4, <2>3, <2>4 DEF TypeOK, SchedulerTypeOK, Phase
<1>6. EventTableConsistent' /\ Clock' /\ Vectors' /\ Living' /\ Nodes'
    BY <1>1 DEF EventTableConsistent, HaveHandle, Clock, Vectors, Living, Nodes, Stopped
<1>7. Outputs'
    BY <1>1, <1>2, <1>4 DEF Outputs, Targets
<1>8. Waiting' = Waiting /\ Unplanned' = Unplanned /\ Pending' = Pending
    BY <1>1 DEF Waiting, Unplanned, Pending, HaveExternalEvents
<1>9. Planned' /\ Processing'
    BY <1>1, <1>8 DEF Planned, Processing, HaveHandle, Stopped
<1> QED BY <1>5, <1>6, <1>7, <1>9

\* The outputs of the executives are computed.
LEMMA OutputExecutivesTable ==
    ASSUME TableInv, OutputExecutives PROVE TableInv'
<1> USE DEF TableInv, schedulerVars, heapVars, bagVars, observationVars, structureVars
<1>1. /\ pc = "dispatch_dynamics" /\ pc' = "dispatch_executives"
      /\ UNCHANGED <<schedulerVars, observationVars, structureVars, i, m_currentTime,
                     nb_executive>>
    BY DEF OutputExecutives
<1> DEFINE imminent == {executives[k] : k \in 1 .. nb_executive}
<1>2. PICK S \in SUBSET imminent :
          /\ m_result' = [s \in Sim |-> IF s \in S THEN Targets(s) ELSE m_result[s]]
          /\ emitted' = emitted \cup S
    BY DEF OutputExecutives, Output
<1>3. m_observations' = [s \in Sim |->
          IF s \in imminent THEN Observed(s, "output") ELSE m_observations[s]]
    BY DEF OutputExecutives, Output
<1>4. imminent \subseteq Sim
    <2>1. nb_executive <= Len(executives) /\ nb_executive \in Nat
        BY <1>1 DEF Outputs, TypeOK
    <2> QED BY <2>1 DEF TypeOK, SchedulerTypeOK
<1> HIDE DEF imminent
<1>5. TypeOK'
    <2>1. \A s \in Sim : Targets(s) \subseteq m_simulators
        BY DEF Targets
    <2>2. \A s \in Sim : Observed(s, "output") \in
              Seq({"output", "internal", "external", "confluent"})
        BY DEF Observed, Told, TypeOK
    <2>3. m_observations' \in [Sim -> Seq({"output", "internal", "external", "confluent"})]
        BY <1>3, <2>2 DEF TypeOK
    <2>4. m_result' \in [Sim -> SUBSET Sim] /\ emitted' \subseteq Sim
        BY <1>2, <1>4, <2>1 DEF TypeOK
    <2> QED BY <1>1, <2>3, <2>4 DEF TypeOK, SchedulerTypeOK, Phase
<1>6. EventTableConsistent' /\ Clock' /\ Vectors' /\ Living' /\ Nodes'
    BY <1>1 DEF EventTableConsistent, HaveHandle, Clock, Vectors, Living, Nodes, Stopped
<1>7. Outputs'
    BY <1>1, <1>2, <1>4 DEF Outputs, Targets
<1>8. Waiting' = Waiting /\ Unplanned' = Unplanned /\ Pending' = Pending
    BY <1>1 DEF Waiting, Unplanned, Pending, HaveExternalEvents
<1>9. Planned' /\ Processing'
    BY <1>1, <1>8 DEF Planned, Processing, HaveHandle, Stopped
<1> QED BY <1>5, <1>6, <1>7, <1>9

\* An event makes its target wait for a transition and leave the heap.
LEMMA DispatchTable ==
    ASSUME TableInv, NEW q \in {dynamics, executives}, Dispatch(q),
           pc \in {"dispatch_dynamics", "dispatch_executives"},
           UNCHANGED <<observationVars, structureVars, pc, i, m_currentTime,
                       nb_executive, m_observations, emitted>>
    PROVE  TableInv'
<1> USE DEF TableInv, observationVars, structureVars
<1>0. PICK k \in DOMAIN q : \E t \in m_result[q[k]] :
          /\ AddExternal(t, q[k])
          /\ m_result' = [m_result EXCEPT ![q[k]] = @ \ {t}]
    BY DEF Dispatch
<1>1. PICK t \in m_result[q[k]] :
          /\ AddExternal(t, q[k])
          /\ m_result' = [m_result EXCEPT ![q[k]] = @ \ {t}]
    BY <1>0
<1> DEFINE src == q[k]
<1>2. src \in Sim /\ t \in m_simulators /\ t \in Sim
    BY DEF TypeOK, SchedulerTypeOK, Outputs
<1>3. /\ EnterBag(t)
      /\ m_external_events' = [m_external_events EXCEPT ![t] = Append(@, src)]
      /\ IF HaveHandle(t) /\ m_tn[t] > m_current_time
         THEN EraseNode(t) ELSE UNCHANGED heapVars
      /\ UNCHANGED <<m_current_time, m_tn, m_have_internal>>
    BY <1>1 DEF AddExternal
<1> HIDE DEF src
<1>4. HaveHandle(t) => <<t, m_handle[t]>> \in m_scheduler /\ m_tn[t] > m_current_time
    <2> SUFFICES ASSUME HaveHandle(t)
                 PROVE  <<t, m_handle[t]>> \in m_scheduler /\ m_tn[t] > m_current_time
        OBVIOUS
    <2>1. <<t, m_handle[t]>> \in m_scheduler
        BY <1>2 DEF EventTableConsistent
    <2>2. <<t, m_handle[t]>>[1] = t /\ <<t, m_handle[t]>>[2] = m_handle[t]
        OBVIOUS
    <2>3. m_tn[t] = m_handle[t]
        BY <2>1, <2>2 DEF EventTableConsistent
    <2> QED BY <2>1, <2>2, <2>3 DEF Clock
<1>5. /\ m_scheduler' = m_scheduler \ {<<t, m_handle[t]>>}
      /\ m_handle' = [m_handle EXCEPT ![t] = NoHandle]
    <2>1. CASE HaveHandle(t)
        BY <2>1, <1>3, <1>4 DEF EraseNode
    <2>2. CASE ~HaveHandle(t)
        <3>1. m_handle[t] = NoHandle /\ UNCHANGED heapVars
            BY <2>2, <1>3 DEF HaveHandle
        <3>2. <<t, NoHandle>> \notin m_scheduler
            BY Dates1 DEF TypeOK, SchedulerTypeOK, Time, NoHandle
        <3> QED BY <3>1, <3>2, <1>2 DEF heapVars, TypeOK, SchedulerTypeOK
    <2> QED BY <2>1, <2>2
<1>6. /\ unique_simulators' = unique_simulators \cup {t}
      /\ dynamics' \in Seq(Sim) /\ executives' \in Seq(Sim)
      /\ Vectors' /\ Len(executives) <= Len(executives')
    <2>1. CASE t \in unique_simulators
        BY <2>1, <1>3 DEF EnterBag, bagVars, Vectors, TypeOK, SchedulerTypeOK
    <2>2. CASE t \notin unique_simulators /\ t \in Exec
        <3>1. /\ executives' = Append(executives, t) /\ UNCHANGED dynamics
              /\ unique_simulators' = unique_simulators \cup {t}
            BY <2>2, <1>3 DEF EnterBag
        <3>2. executives \in Seq(Sim) /\ t \notin Range(executives) /\ IsInjective(executives)
            BY <2>2 DEF Vectors, TypeOK, SchedulerTypeOK
        <3>3. /\ executives' \in Seq(Sim) /\ IsInjective(executives')
              /\ Range(executives') = Range(executives) \cup {t}
            BY <3>1, <3>2, <1>2, AppendFresh
        <3>4. Len(executives) <= Len(executives')
            BY <3>1, <3>2
        <3> QED BY <2>2, <3>1, <3>3, <3>4 DEF Vectors, TypeOK, SchedulerTypeOK
    <2>3. CASE t \notin unique_simulators /\ t \notin Exec
        <3>1. /\ dynamics' = Append(dynamics, t) /\ UNCHANGED executives
              /\ unique_simulators' = unique_simulators \cup {t}
            BY <2>3, <1>3 DEF EnterBag
        <3>2. dynamics \in Seq(Sim) /\ t \notin Range(dynamics) /\ IsInjective(dynamics)
            BY <2>3 DEF Vectors, TypeOK, SchedulerTypeOK
        <3>3. /\ dynamics' \in Seq(Sim) /\ IsInjective(dynamics')
              /\ Range(dynamics') = Range(dynamics) \cup {t}
            BY <3>1, <3>2, <1>2, AppendFresh
        <3> QED BY <2>3, <3>1, <3>3 DEF Vectors, TypeOK, SchedulerTypeOK
    <2> QED BY <2>1, <2>2, <2>3
<1>7. m_external_events' \in [Sim -> Seq(Sim)] /\ m_external_events'[t] # <<>>
      /\ \A s \in Sim \ {t} : m_external_events'[s] = m_external_events[s]
    <2> DEFINE a == Append(m_external_events[t], src)
    <2>1. m_external_events \in [Sim -> Seq(Sim)]
        BY DEF TypeOK, SchedulerTypeOK
    <2>2. m_external_events[t] \in Seq(Sim)
        BY <1>2, <2>1
    <2>3. a \in Seq(Sim) /\ a # <<>>
        BY <1>2, <2>2
    <2>4. m_external_events' = [m_external_events EXCEPT ![t] = a]
        BY <1>2, <1>3
    <2> HIDE DEF a
    <2> QED BY <1>2, <2>1, <2>3, <2>4
<1>8. TypeOK'
    <2>1. m_result' \in [Sim -> SUBSET Sim]
        BY <1>1, <1>2 DEF TypeOK
    <2>2. m_handle' \in [Sim -> Time \cup {NoHandle}] /\ m_scheduler' \subseteq Sim \X Time
        BY <1>5 DEF TypeOK, SchedulerTypeOK
    <2> QED BY <1>2, <1>3, <1>6, <1>7, <2>1, <2>2 DEF TypeOK, SchedulerTypeOK
<1>9. EventTableConsistent'
    <2>1. ASSUME NEW s \in Sim, HaveHandle(s)' PROVE <<s, m_handle'[s]>> \in m_scheduler'
        <3>1. s # t /\ m_handle'[s] = m_handle[s]
            BY <1>2, <1>5, <2>1 DEF HaveHandle, TypeOK, SchedulerTypeOK
        <3> QED BY <2>1, <3>1, <1>5 DEF HaveHandle, EventTableConsistent
    <2>2. ASSUME NEW n \in m_scheduler'
          PROVE  /\ n[1] \in m_simulators'
                 /\ m_handle'[n[1]] = n[2] /\ m_tn'[n[1]] = n[2]
                 /\ n[2] >= m_current_time'
        <3>1. n \in m_scheduler /\ n # <<t, m_handle[t]>> /\ n \in Sim \X Time
            BY <1>5 DEF TypeOK, SchedulerTypeOK
        <3>2. n = <<n[1], n[2]>> /\ m_handle[n[1]] = n[2]
            BY <3>1 DEF EventTableConsistent
        <3>3. n[1] # t
            BY <3>1, <3>2
        <3> QED BY <3>1, <3>3, <1>3, <1>5 DEF EventTableConsistent, TypeOK, SchedulerTypeOK
    <2> QED BY <2>1, <2>2 DEF EventTableConsistent
<1>10. Clock' /\ Nodes'
    BY <1>3, <1>5 DEF Clock, Nodes, Stopped
<1>11. Living'
    BY <1>2, <1>3, <1>6 DEF Living
<1>12. Outputs'
    <2>1. \A s \in Sim : m_result'[s] \subseteq m_result[s]
        BY <1>1, <1>2 DEF TypeOK
    <2>2. nb_executive \in Nat /\ Len(executives) \in Nat /\ Len(executives') \in Nat
        BY <1>6 DEF TypeOK, SchedulerTypeOK
    <2> QED BY <1>6, <2>1, <2>2 DEF Outputs
<1>13. /\ Waiting = unique_simulators /\ Unplanned = unique_simulators
       /\ Waiting' = unique_simulators' /\ Unplanned' = unique_simulators'
       /\ Pending' = Pending \cup {t}
    <2>1. Pending' = Pending \cup {t}
        BY <1>2, <1>3, <1>7 DEF Pending, HaveExternalEvents
    <2> QED BY <2>1 DEF Waiting, Unplanned
<1>14. Planned'
    <2>1. \A s \in Sim \ {t} : m_handle'[s] = m_handle[s]
        BY <1>5 DEF TypeOK, SchedulerTypeOK
    <2>2. m_handle'[t] = NoHandle
        BY <1>2, <1>5 DEF TypeOK, SchedulerTypeOK
    <2> QED BY <1>2, <1>3, <1>6, <1>13, <2>1, <2>2
            DEF Planned, HaveHandle, Stopped, TypeOK, SchedulerTypeOK
<1>15. Processing'
    BY <1>6, <1>13 DEF Processing
<1> QED BY <1>6, <1>8, <1>9, <1>10, <1>11, <1>12, <1>14, <1>15

\* The executives of the bag are sorted by depth.
LEMMA SortExecutivesTable ==
    ASSUME TableInv, SortExecutives PROVE TableInv'
<1> USE DEF TableInv, SortExecutives, heapVars, observationVars, structureVars
<1>1. executives \in Seq(Sim) /\ executives' \in SortedByDepth(executives)
    BY DEF TypeOK, SchedulerTypeOK
<1>2. /\ executives' \in Seq(Sim) /\ Range(executives') = Range(executives)
      /\ IsInjective(executives) => IsInjective(executives')
    BY <1>1, SortFacts
<1>3. TypeOK'
    BY <1>2 DEF TypeOK, SchedulerTypeOK, Phase
<1>4. EventTableConsistent' /\ Clock' /\ Living' /\ Outputs' /\ Nodes'
    BY DEF EventTableConsistent, HaveHandle, Clock, Living, Outputs, Nodes, Stopped,
           Dispatched
<1>5. Vectors'
    BY <1>2 DEF Vectors
<1>6. Waiting' = Waiting /\ Unplanned' = Unplanned /\ Pending' = Pending
    <2>1. Waiting = unique_simulators /\ Unplanned = unique_simulators
          /\ Waiting' = Suffix(dynamics)' \cup Range(executives')
          /\ Unplanned' = unique_simulators
        BY DEF Waiting, Unplanned
    <2>2. Suffix(dynamics)' = Range(dynamics)
        BY DEF Suffix, Range, TypeOK, SchedulerTypeOK
    <2>3. unique_simulators = Range(dynamics) \cup Range(executives)
        BY DEF Vectors
    <2>4. Pending' = Pending
        BY DEF Pending, HaveExternalEvents
    <2> QED BY <1>2, <2>1, <2>2, <2>3, <2>4
<1>7. Planned' /\ Processing'
    BY <1>6 DEF Planned, Processing, HaveHandle, Stopped
<1> QED BY <1>3, <1>4, <1>5, <1>7

\* The rest of a vector after one more iteration of a loop over it.
LEMMA SuffixStep ==
    ASSUME NEW q \in Seq(Sim), i \in Nat \ {0}, i <= Len(q), i' = i + 1
    PROVE  /\ q[i] \in Sim /\ q[i] \in Suffix(q) /\ q[i] \in Range(q)
           /\ Suffix(q) = {q[k] : k \in i + 1 .. Len(q)} \cup {q[i]}
           /\ IsInjective(q) => q[i] \notin {q[k] : k \in i + 1 .. Len(q)}
           /\ Suffix(q) \subseteq Range(q)
BY DEF Suffix, Range, IsInjective

\* Behind the end of a vector nothing is left.
LEMMA SuffixEmpty ==
    ASSUME NEW q \in Seq(Sim), i \in Nat \ {0}, i > Len(q)
    PROVE  Suffix(q) = {}
BY DEF Suffix

\* A transition clears what its simulator had to process and sets its date;
\* its node has left the heap before.
LEMMA TransitionTable ==
    ASSUME TableInv, NEW s \in Sim, Transition(s),
           pc \in {"transition_dynamics", "transition_executives"},
           s \in Waiting, Waiting' = Waiting \ {s},
           s \in Unplanned, Unplanned' = Unplanned,
           UNCHANGED <<heapVars, bagVars, m_current_time, observationVars,
                       structureVars, pc, m_currentTime, nb_executive, m_result,
                       emitted>>
    PROVE  TableInv'
<1> USE DEF TableInv, heapVars, bagVars, observationVars, structureVars
<1>1. PICK ta \in TimeAdvance : m_tn' = [m_tn EXCEPT ![s] = Plus(m_currentTime, ta)]
    BY DEF Transition
<1>2. /\ m_have_internal' = [m_have_internal EXCEPT ![s] = FALSE]
      /\ m_external_events' = [m_external_events EXCEPT ![s] = <<>>]
      /\ m_observations' = [m_observations EXCEPT ![s] = Observed(s, Called(s))]
      /\ i' = i + 1
    BY DEF Transition
<1> DEFINE d == Plus(m_currentTime, ta)
<1>3. d \in Time /\ d >= m_currentTime /\ m_currentTime = m_current_time
    BY Dates1 DEF TypeOK, Clock, Stopped
<1>4. m_tn'[s] = d /\ m_tn' \in [Sim -> Time \cup {NegativeInfinity}]
      /\ \A r \in Sim \ {s} : m_tn'[r] = m_tn[r]
    BY <1>1, <1>3 DEF TypeOK, SchedulerTypeOK
<1> HIDE DEF d
<1>5. TypeOK'
    <2>1. m_observations' \in [Sim -> Seq({"output", "internal", "external", "confluent"})]
        <3>1. m_observations[s] \in Seq({"output", "internal", "external", "confluent"})
            BY DEF TypeOK
        <3>2. Called(s) \in {"output", "internal", "external", "confluent"}
            BY DEF Called
        <3>3. Observed(s, Called(s)) \in Seq({"output", "internal", "external", "confluent"})
            BY <3>1, <3>2 DEF Observed, Told
        <3> QED BY <1>2, <3>3 DEF TypeOK
    <2>2. /\ m_have_internal' \in [Sim -> BOOLEAN]
          /\ m_external_events' \in [Sim -> Seq(Sim)]
        BY <1>2 DEF TypeOK, SchedulerTypeOK
    <2>3. i' \in Nat \ {0}
        BY <1>2 DEF TypeOK
    <2> QED BY <1>4, <2>1, <2>2, <2>3 DEF TypeOK, SchedulerTypeOK
<1>6. EventTableConsistent'
    <2>1. \A n \in m_scheduler : n[1] # s /\ n[1] \in Sim
        BY DEF Planned, HaveHandle, EventTableConsistent, TypeOK, SchedulerTypeOK, Time,
               NoHandle
    <2> QED BY <2>1, <1>4 DEF EventTableConsistent, HaveHandle
<1>7. Clock' /\ Vectors' /\ Outputs' /\ Nodes'
    BY DEF Clock, Vectors, Outputs, Nodes, Dispatched
<1>8. Living'
    BY <1>3, <1>4 DEF Living, TypeOK
<1>9. Pending' = Pending \ {s}
    <2>1. \A r \in Sim \ {s} : m_have_internal'[r] = m_have_internal[r]
                               /\ m_external_events'[r] = m_external_events[r]
        BY <1>2 DEF TypeOK, SchedulerTypeOK
    <2>2. m_have_internal'[s] = FALSE /\ m_external_events'[s] = <<>>
        BY <1>2 DEF TypeOK, SchedulerTypeOK
    <2> QED BY <2>1, <2>2 DEF Pending, HaveExternalEvents
<1>10. Planned'
    BY <1>4 DEF Planned, HaveHandle, TypeOK
<1>11. Processing'
    BY <1>9 DEF Processing
<1> QED BY <1>5, <1>6, <1>7, <1>8, <1>10, <1>11

\* A dynamics makes its transition, alone or in the pool.
LEMMA TransitionDynamicsTable ==
    ASSUME TableInv, TransitionDynamics PROVE TableInv'
<1> USE DEF TableInv
<1> DEFINE s == dynamics[i]
<1>1. /\ dynamics \in Seq(Sim) /\ i \in Nat \ {0} /\ i' = i + 1 /\ i <= Len(dynamics)
      /\ pc = "transition_dynamics" /\ pc' = pc
      /\ UNCHANGED <<dynamics, executives, unique_simulators>>
    BY DEF TransitionDynamics, TypeOK, SchedulerTypeOK, Transition, bagVars
<1>2. /\ s \in Sim /\ s \in Suffix(dynamics) /\ s \in Range(dynamics)
      /\ Suffix(dynamics) = {dynamics[k] : k \in i + 1 .. Len(dynamics)} \cup {s}
      /\ s \notin {dynamics[k] : k \in i + 1 .. Len(dynamics)}
    BY <1>1, SuffixStep DEF Vectors
<1>3. s \notin Range(executives) /\ s \in unique_simulators
    BY <1>1, <1>2 DEF Vectors
<1>4. Suffix(dynamics)' = {dynamics[k] : k \in i + 1 .. Len(dynamics)}
    BY <1>1 DEF Suffix
<1>5. /\ s \in Waiting /\ Waiting' = Waiting \ {s}
      /\ s \in Unplanned /\ Unplanned' = Unplanned
    <2>1. Waiting = Suffix(dynamics) \cup Range(executives)
          /\ Waiting' = Suffix(dynamics)' \cup Range(executives)
        BY <1>1 DEF Waiting
    <2>2. Unplanned = unique_simulators /\ Unplanned' = unique_simulators
        BY <1>1 DEF Unplanned
    <2> QED BY <1>2, <1>3, <1>4, <2>1, <2>2
<1> QED BY <1>1, <1>2, <1>5, TransitionTable DEF TransitionDynamics

\* An executive makes its transition.
LEMMA TransitionExecutivesTable ==
    ASSUME TableInv, TransitionExecutives PROVE TableInv'
<1> USE DEF TableInv
<1> DEFINE s == executives[i]
<1>1. /\ executives \in Seq(Sim) /\ i \in Nat \ {0} /\ i' = i + 1 /\ i <= Len(executives)
      /\ pc = "transition_executives" /\ pc' = pc
      /\ UNCHANGED <<dynamics, executives, unique_simulators>>
    BY DEF TransitionExecutives, TypeOK, SchedulerTypeOK, Transition, bagVars
<1>2. /\ s \in Sim /\ s \in Suffix(executives) /\ s \in Range(executives)
      /\ Suffix(executives) = {executives[k] : k \in i + 1 .. Len(executives)} \cup {s}
      /\ s \notin {executives[k] : k \in i + 1 .. Len(executives)}
    BY <1>1, SuffixStep DEF Vectors
<1>3. Suffix(executives)' = {executives[k] : k \in i + 1 .. Len(executives)}
    BY <1>1 DEF Suffix
<1>4. /\ s \in Waiting /\ Waiting' = Waiting \ {s}
      /\ s \in Unplanned /\ Unplanned' = Unplanned
    <2>1. Waiting = Suffix(executives) /\ Waiting' = Suffix(executives)'
        BY <1>1 DEF Waiting
    <2>2. Unplanned = Range(executives) /\ Unplanned' = Range(executives)
        BY <1>1 DEF Unplanned
    <2> QED BY <1>2, <1>3, <2>1, <2>2
<1> QED BY <1>1, <1>2, <1>4, TransitionTable DEF TransitionExecutives

\* A transition throws an exception in the loop of the coordinator.
LEMMA TransitionThrowsTable ==
    ASSUME TableInv, TransitionThrows PROVE TableInv'
<1> USE DEF TableInv, TransitionThrows, schedulerVars, heapVars, bagVars,
            observationVars
<1>1. TypeOK'
    BY CoordinatorAssumption DEF TypeOK, SchedulerTypeOK, Phase
<1>2. EventTableConsistent' /\ Clock' /\ Vectors' /\ Living' /\ Outputs' /\ Nodes'
    BY DEF EventTableConsistent, HaveHandle, Clock, Vectors, Living, Outputs, Nodes,
           Dispatched, Stopped
<1>3. Waiting' = {} /\ threw' /\ pc' = "failed"
    BY DEF Waiting, TypeOK
<1>4. Planned' /\ Processing'
    BY <1>3 DEF Planned, Processing, Stopped
<1> QED BY <1>1, <1>2, <1>4

\* The exception of a pooled transition leaves its simulator without a new
\* date, and perhaps with its events; it is put back in the heap anyway.
LEMMA SwallowedThrowTable ==
    ASSUME TableInv, SwallowedThrow PROVE TableInv'
<1> USE DEF TableInv, heapVars, bagVars, observationVars
<1> DEFINE s == dynamics[i]
<1>1. /\ dynamics \in Seq(Sim) /\ i \in Nat \ {0} /\ i' = i + 1 /\ i <= Len(dynamics)
      /\ pc = "transition_dynamics" /\ pc' = pc /\ threw' /\ threw' \in BOOLEAN
      /\ UNCHANGED <<heapVars, bagVars, m_current_time, m_tn, observationVars,
                     m_simulators, graph, m_delete_model, lst, ops,
                     m_currentTime, nb_executive, m_result, emitted>>
    BY CoordinatorAssumption DEF SwallowedThrow, TypeOK, SchedulerTypeOK
<1>2. /\ s \in Sim /\ s \in Suffix(dynamics) /\ s \in Range(dynamics)
      /\ Suffix(dynamics) = {dynamics[k] : k \in i + 1 .. Len(dynamics)} \cup {s}
      /\ s \notin {dynamics[k] : k \in i + 1 .. Len(dynamics)}
    BY <1>1, SuffixStep DEF Vectors
<1>3. s \notin Range(executives) /\ s \in unique_simulators
    BY <1>1, <1>2 DEF Vectors
<1>4. Suffix(dynamics)' = {dynamics[k] : k \in i + 1 .. Len(dynamics)}
    BY <1>1 DEF Suffix
<1>5. /\ s \in Waiting /\ Waiting' = Waiting \ {s} /\ Unplanned' = Unplanned
    <2>1. Waiting = Suffix(dynamics) \cup Range(executives)
          /\ Waiting' = Suffix(dynamics)' \cup Range(executives)
        BY <1>1 DEF Waiting
    <2>2. Unplanned = unique_simulators /\ Unplanned' = unique_simulators
        BY <1>1 DEF Unplanned
    <2> QED BY <1>2, <1>3, <1>4, <2>1, <2>2
<1>6. /\ m_have_internal' \in [Sim -> BOOLEAN]
      /\ m_external_events' \in [Sim -> Seq(Sim)]
      /\ m_observations' \in [Sim -> Seq({"output", "internal", "external", "confluent"})]
      /\ \A r \in Sim \ {s} : m_have_internal'[r] = m_have_internal[r]
                              /\ m_external_events'[r] = m_external_events[r]
    <2>1. CASE UNCHANGED <<m_have_internal, m_external_events, m_observations>>
        BY <2>1 DEF TypeOK, SchedulerTypeOK
    <2>2. CASE /\ m_have_internal' = [m_have_internal EXCEPT ![s] = FALSE]
               /\ m_external_events' = [m_external_events EXCEPT ![s] = <<>>]
               /\ m_observations' =
                      [m_observations EXCEPT ![s] = Observed(s, Called(s))]
        <3>1. m_observations[s] \in Seq({"output", "internal", "external", "confluent"})
            BY <1>2 DEF TypeOK
        <3>2. Called(s) \in {"output", "internal", "external", "confluent"}
            BY DEF Called
        <3>3. Observed(s, Called(s)) \in Seq({"output", "internal", "external", "confluent"})
            BY <3>1, <3>2 DEF Observed, Told
        <3> HIDE DEF s
        <3>4. <<>> \in Seq(Sim) /\ s \in Sim
            BY <1>2
        <3> QED BY <2>2, <3>3, <3>4 DEF TypeOK, SchedulerTypeOK
    <2> QED BY <2>1, <2>2 DEF SwallowedThrow
<1> HIDE DEF s
<1>7. TypeOK'
    <2>1. i' \in Nat \ {0}
        BY <1>1
    <2> QED BY <1>1, <1>6, <2>1 DEF TypeOK, SchedulerTypeOK
<1>8. EventTableConsistent' /\ Clock' /\ Vectors' /\ Living' /\ Outputs' /\ Nodes'
    BY <1>1 DEF EventTableConsistent, HaveHandle, Clock, Vectors, Living, Outputs, Nodes,
           Dispatched, Stopped
<1>9. Planned'
    BY <1>1, <1>5 DEF Planned, HaveHandle
<1>10. Processing'
    BY <1>1, <1>5, <1>6 DEF Processing, Pending, HaveExternalEvents
<1> QED BY <1>7, <1>8, <1>9, <1>10

\* A simulator of the bag goes back into the heap at its date.
LEMMA RescheduleTable ==
    ASSUME TableInv, NEW s \in Sim, Reschedule(s),
           pc \in {"schedule_dynamics", "schedule_executives"},
           s \in unique_simulators, s \notin Waiting, Waiting' = Waiting,
           Unplanned \subseteq Unplanned' \cup {s}
    PROVE  TableInv'
<1> USE DEF TableInv
<1>1. /\ IF m_tn[s] < Infinity THEN AddInternal(s, m_tn[s]) ELSE UNCHANGED heapVars
      /\ i' = i + 1
      /\ UNCHANGED <<bagVars, m_current_time, m_tn, m_have_internal,
                     m_external_events, observationVars, structureVars, pc,
                     m_currentTime, nb_executive, m_observations, m_result, emitted>>
    BY DEF Reschedule
<1> USE DEF heapVars, bagVars, observationVars, structureVars
<1>2. s \in m_simulators /\ m_tn[s] \in Time /\ m_tn[s] >= m_current_time
    BY DEF Living
<1>3. /\ m_scheduler' \subseteq Sim \X Time /\ m_handle' \in [Sim -> Time \cup {NoHandle}]
      /\ \A r \in Sim \ {s} : m_handle'[r] = m_handle[r]
      /\ m_tn[s] < Infinity => m_handle'[s] = m_tn[s]
    <2>1. CASE m_tn[s] < Infinity
        <3>1. <<s, m_tn[s]>> \in Sim \X Time
            BY <1>2
        <3>2. /\ m_scheduler' = (m_scheduler \ {<<s, m_handle[s]>>}) \cup {<<s, m_tn[s]>>}
              /\ m_handle' = [m_handle EXCEPT ![s] = m_tn[s]]
            BY <1>1, <2>1 DEF AddInternal
        <3>3. m_scheduler' \subseteq Sim \X Time
            BY <3>1, <3>2 DEF TypeOK, SchedulerTypeOK
        <3>4. m_handle \in [Sim -> Time \cup {NoHandle}]
            BY DEF TypeOK, SchedulerTypeOK
        <3> QED BY <1>2, <3>2, <3>3, <3>4
    <2>2. CASE ~(m_tn[s] < Infinity)
        BY <1>1, <2>2 DEF TypeOK, SchedulerTypeOK
    <2> QED BY <2>1, <2>2
<1>4. TypeOK'
    <2>1. i' \in Nat \ {0}
        BY <1>1 DEF TypeOK
    <2> QED BY <1>1, <1>3, <2>1 DEF TypeOK, SchedulerTypeOK
<1>5. EventTableConsistent'
    <2>1. CASE ~(m_tn[s] < Infinity)
        BY <1>1, <2>1 DEF EventTableConsistent, HaveHandle
    <2>2. CASE m_tn[s] < Infinity
        <3>1. /\ m_scheduler' = (m_scheduler \ {<<s, m_handle[s]>>}) \cup {<<s, m_tn[s]>>}
              /\ m_handle'[s] = m_tn[s]
            BY <1>1, <1>3, <2>2 DEF AddInternal
        <3>2. ASSUME NEW r \in Sim, HaveHandle(r)'
              PROVE  <<r, m_handle'[r]>> \in m_scheduler'
            <4>1. CASE r = s
                BY <4>1, <3>1
            <4>2. CASE r # s
                BY <4>2, <3>1, <3>2, <1>3 DEF EventTableConsistent, HaveHandle
            <4> QED BY <4>1, <4>2
        <3>3. ASSUME NEW n \in m_scheduler'
              PROVE  /\ n[1] \in m_simulators'
                     /\ m_handle'[n[1]] = n[2] /\ m_tn'[n[1]] = n[2]
                     /\ n[2] >= m_current_time'
            <4>1. CASE n = <<s, m_tn[s]>>
                BY <4>1, <3>1, <1>1, <1>2
            <4>2. CASE n # <<s, m_tn[s]>>
                <5>1. n \in m_scheduler /\ n # <<s, m_handle[s]>> /\ n \in Sim \X Time
                    BY <4>2, <3>1 DEF TypeOK, SchedulerTypeOK
                <5>2. n = <<n[1], n[2]>> /\ m_handle[n[1]] = n[2]
                    BY <5>1 DEF EventTableConsistent
                <5>3. n[1] # s /\ n[1] \in Sim
                    BY <5>1, <5>2
                <5> QED BY <5>1, <5>3, <1>1, <1>3 DEF EventTableConsistent
            <4> QED BY <4>1, <4>2
        <3> QED BY <3>2, <3>3 DEF EventTableConsistent
    <2> QED BY <2>1, <2>2
<1>6. Clock' /\ Vectors' /\ Living' /\ Outputs' /\ Nodes'
    BY <1>1 DEF Clock, Vectors, Living, Outputs, Nodes, Dispatched, Stopped
<1>7. Planned'
    <2>1. Waiting \subseteq Sim
        BY DEF Processing, Pending
    <2> QED BY <1>1, <1>3, <2>1 DEF Planned, HaveHandle, TypeOK, Stopped
<1>8. Processing'
    BY <1>1 DEF Processing, Pending, HaveExternalEvents
<1> QED BY <1>4, <1>5, <1>6, <1>7, <1>8

\* A dynamics gets its next date.
LEMMA RescheduleDynamicsTable ==
    ASSUME TableInv, RescheduleDynamics PROVE TableInv'
<1> USE DEF TableInv
<1> DEFINE s == dynamics[i]
<1>1. /\ dynamics \in Seq(Sim) /\ i \in Nat \ {0} /\ i' = i + 1 /\ i <= Len(dynamics)
      /\ pc = "schedule_dynamics" /\ pc' = pc /\ Reschedule(s)
      /\ UNCHANGED <<dynamics, executives, unique_simulators>>
    BY DEF RescheduleDynamics, TypeOK, SchedulerTypeOK, Reschedule, bagVars
<1>2. /\ s \in Sim /\ s \in Range(dynamics)
      /\ Suffix(dynamics) = {dynamics[k] : k \in i + 1 .. Len(dynamics)} \cup {s}
    BY <1>1, SuffixStep
<1>3. s \notin Range(executives) /\ s \in unique_simulators
    BY <1>1, <1>2 DEF Vectors
<1>4. Suffix(dynamics)' = {dynamics[k] : k \in i + 1 .. Len(dynamics)}
    BY <1>1 DEF Suffix
<1>5. Waiting = Range(executives) /\ Waiting' = Waiting
    BY <1>1 DEF Waiting
<1>6. Unplanned \subseteq Unplanned' \cup {s}
    <2>1. Unplanned = Suffix(dynamics) \cup Range(executives)
          /\ Unplanned' = Suffix(dynamics)' \cup Range(executives)
        BY <1>1 DEF Unplanned
    <2> QED BY <1>2, <1>4, <2>1
<1> QED BY <1>1, <1>2, <1>3, <1>5, <1>6, RescheduleTable

\* An executive gets its next date.
LEMMA RescheduleExecutivesTable ==
    ASSUME TableInv, RescheduleExecutives PROVE TableInv'
<1> USE DEF TableInv
<1> DEFINE s == executives[i]
<1>1. /\ executives \in Seq(Sim) /\ i \in Nat \ {0} /\ i' = i + 1 /\ i <= Len(executives)
      /\ pc = "schedule_executives" /\ pc' = pc /\ Reschedule(s)
      /\ UNCHANGED <<dynamics, executives, unique_simulators>>
    BY DEF RescheduleExecutives, TypeOK, SchedulerTypeOK, Reschedule, bagVars
<1>2. /\ s \in Sim /\ s \in Range(executives)
      /\ Suffix(executives) = {executives[k] : k \in i + 1 .. Len(executives)} \cup {s}
    BY <1>1, SuffixStep
<1>3. s \in unique_simulators
    BY <1>1, <1>2 DEF Vectors
<1>4. Suffix(executives)' = {executives[k] : k \in i + 1 .. Len(executives)}
    BY <1>1 DEF Suffix
<1>5. Waiting = {} /\ Waiting' = {}
    BY <1>1 DEF Waiting
<1>6. Unplanned = Suffix(executives) /\ Unplanned' = Suffix(executives)'
    BY <1>1 DEF Unplanned
<1>7. Unplanned \subseteq Unplanned' \cup {s} /\ s \notin Waiting
    BY <1>2, <1>4, <1>5, <1>6
<1> HIDE DEF s
<1> QED BY <1>1, <1>2, <1>3, <1>5, <1>7, RescheduleTable

\* A loop of the bag is left for the next one.
LEMMA EndLoopTable ==
    ASSUME TableInv, EndLoop PROVE TableInv'
<1> USE DEF TableInv, schedulerVars, heapVars, bagVars, observationVars, structureVars
<1>1. /\ i' = 1 /\ i \in Nat \ {0} /\ dynamics \in Seq(Sim) /\ executives \in Seq(Sim)
      /\ UNCHANGED <<schedulerVars, observationVars, structureVars,
                     m_currentTime, nb_executive, m_observations, m_result, emitted>>
    BY DEF EndLoop, TypeOK, SchedulerTypeOK
<1>2. /\ pc \in {"transition_dynamics", "schedule_dynamics", "transition_executives",
                 "schedule_executives"}
      /\ pc' \in {"schedule_dynamics", "transition_executives", "schedule_executives",
                  "observe"}
    BY DEF EndLoop
<1>3. TypeOK'
    BY <1>1, <1>2 DEF TypeOK, SchedulerTypeOK, Phase
<1>4. EventTableConsistent' /\ Clock' /\ Vectors' /\ Living' /\ Outputs' /\ Nodes'
    BY <1>1, <1>2 DEF EventTableConsistent, HaveHandle, Clock, Vectors, Living, Outputs,
                      Nodes, Dispatched, Stopped
<1>5. Suffix(dynamics)' = Range(dynamics) /\ Suffix(executives)' = Range(executives)
    BY <1>1 DEF Suffix, Range
<1>6. unique_simulators = Range(dynamics) \cup Range(executives)
    BY <1>2 DEF Vectors
<1>7. Waiting' = Waiting /\ Unplanned' = Unplanned
    <2>1. CASE pc = "transition_dynamics"
        <3>1. pc' = "schedule_dynamics" /\ Suffix(dynamics) = {}
            BY <2>1, <1>1, SuffixEmpty DEF EndLoop
        <3> QED BY <2>1, <3>1, <1>1, <1>5, <1>6 DEF Waiting, Unplanned
    <2>2. CASE pc = "schedule_dynamics"
        <3>1. pc' = "transition_executives" /\ Suffix(dynamics) = {}
            BY <2>2, <1>1, SuffixEmpty DEF EndLoop
        <3> QED BY <2>2, <3>1, <1>1, <1>5 DEF Waiting, Unplanned
    <2>3. CASE pc = "transition_executives"
        <3>1. pc' = "schedule_executives" /\ Suffix(executives) = {}
            BY <2>3, <1>1, SuffixEmpty DEF EndLoop
        <3> QED BY <2>3, <3>1, <1>1, <1>5 DEF Waiting, Unplanned
    <2>4. CASE pc = "schedule_executives"
        <3>1. pc' = "observe" /\ Suffix(executives) = {}
            BY <2>4, <1>1, SuffixEmpty DEF EndLoop
        <3> QED BY <2>4, <3>1, <1>1 DEF Waiting, Unplanned
    <2> QED BY <1>2, <2>1, <2>2, <2>3, <2>4
<1>8. Pending' = Pending
    BY <1>1 DEF Pending, HaveExternalEvents
<1>9. Planned' /\ Processing'
    BY <1>1, <1>2, <1>7, <1>8 DEF Planned, Processing, HaveHandle, Stopped
<1> QED BY <1>3, <1>4, <1>9

\* The steps between two bags that only move the views and the clock.
LEMMA ObserveTable ==
    ASSUME TableInv, Observe \/ EatViews \/ EndEat \/ Finish PROVE TableInv'
<1> USE DEF TableInv, schedulerVars, heapVars, bagVars, structureVars
<1>1. /\ UNCHANGED <<schedulerVars, structureVars, i, nb_executive, m_result, emitted>>
      /\ \/ pc \in {"observe", "eat"} /\ pc' \in {"eat", "delete"}
         \/ pc = "ready" /\ pc' = "ended" /\ UNCHANGED m_currentTime
    BY DEF Observe, EatViews, EndEat, Finish
<1>2. m_observations' \in [Sim -> Seq({"output", "internal", "external", "confluent"})]
    <2>1. CASE Observe
        <3>1. <<>> \in Seq({"output", "internal", "external", "confluent"})
            OBVIOUS
        <3> QED BY <2>1, <3>1 DEF Observe, TypeOK
    <2>2. CASE UNCHANGED m_observations
        BY <2>2 DEF TypeOK
    <2> QED BY <2>1, <2>2 DEF EatViews, EndEat, Finish
<1>3. /\ m_currentTime' \in Time
      /\ m_observation' \in [TView -> Time \cup {NoEvent}]
      /\ m_observableList' = m_observableList
      /\ observed' \in [TView -> Seq(Time)]
    <2>1. CASE Observe \/ Finish
        BY <2>1 DEF Observe, Finish, observationVars, TypeOK
    <2>2. CASE EatViews
        <3> DEFINE P == ObservationAtTime(EatUntil)
        <3>1. P # {} /\ RunViews(EatUntil, Infinity) /\ m_currentTime' = LastPopped(EatUntil)
            BY <2>2 DEF EatViews
        <3>2. \A v \in P : v \in TView /\ m_observation[v] \in Time
            BY DEF ObservationAtTime, HaveObservation, TypeOK
        <3>3. m_currentTime' \in Time
            <4> DEFINE D == {m_observation[v] : v \in P}
            <4>1. D # {} /\ D \in SUBSET (0 .. Infinity)
                BY <3>1, <3>2 DEF Time
            <4>2. \E t \in D : \A u \in D : u <= t
                BY <4>1, Dates1, GreatestNatural
            <4>3. \E t \in D : \A v \in P : m_observation[v] <= t
                BY <4>2
            <4>4. LastPopped(EatUntil) \in D
                BY <4>3 DEF LastPopped
            <4> QED BY <3>1, <4>1, <4>4 DEF Time
        <3>4. \A v \in P : m_observation[v] + Timestep[v] < Infinity =>
                  m_observation[v] + Timestep[v] \in Time
            BY <3>2, Dates1, TimedObservationAssumption DEF Time
        <3>5. m_observation' \in [TView -> Time \cup {NoEvent}]
            BY <3>1, <3>2, <3>4 DEF RunViews, TypeOK
        <3>6. \A v \in P : Append(observed[v], m_observation[v]) \in Seq(Time)
            BY <3>2 DEF TypeOK
        <3>7. observed' \in [TView -> Seq(Time)]
            BY <3>1, <3>6 DEF RunViews, TypeOK
        <3> QED BY <3>1, <3>3, <3>5, <3>7 DEF RunViews
    <2>3. CASE EndEat
        <3>1. \A v \in TView : Append(observed[v], Duration) \in Seq(Time)
            BY Dates1 DEF TypeOK
        <3>2. CASE GetNextTime > Duration
            <4>1. m_currentTime' = Duration /\ Finalize(Duration)
                BY <2>3, <3>2 DEF EndEat
            <4> QED BY <4>1, <3>1, Dates1 DEF Finalize, TypeOK
        <3>3. CASE ~(GetNextTime > Duration)
            BY <2>3, <3>3 DEF EndEat, observationVars, TypeOK
        <3> QED BY <3>2, <3>3
    <2> QED BY <2>1, <2>2, <2>3
<1>4. TypeOK'
    BY <1>1, <1>2, <1>3 DEF TypeOK, SchedulerTypeOK, Phase
<1>5. EventTableConsistent' /\ Clock' /\ Vectors' /\ Living' /\ Outputs' /\ Nodes'
    BY <1>1, <1>3 DEF EventTableConsistent, HaveHandle, Clock, Vectors, Living, Outputs,
                      Nodes, Dispatched, Stopped
<1>6. Waiting' = Waiting /\ Unplanned' = Unplanned /\ Pending' = Pending
    BY <1>1 DEF Waiting, Unplanned, Pending, HaveExternalEvents
<1>7. Planned' /\ Processing'
    BY <1>1, <1>6 DEF Planned, Processing, HaveHandle, Stopped
<1> QED BY <1>4, <1>5, <1>7

\* The end of a bag frees a model that was to be deleted.
LEMMA DeleteModelTable ==
    ASSUME TableInv, DeleteModel PROVE TableInv'
<1> USE DEF TableInv, schedulerVars, heapVars, bagVars
<1> DEFINE m == Head(m_delete_model)
<1>1. /\ pc = "delete" /\ m_delete_model # <<>> /\ m_delete_model \in Seq(Model)
      /\ UNCHANGED <<schedulerVars, i, m_currentTime, nb_executive,
                     m_observations, m_result, emitted, threw, m_simulators, ops>>
    BY DEF DeleteModel, TypeOK
<1>2. /\ pc' \in {"delete", "undefined"}
      /\ \/ /\ RemoveObservable(Atoms(m) \cap graph)
            /\ lst' = lst \cup (Atoms(m) \cap graph)
            /\ graph' = graph \ Inside(m)
            /\ m_delete_model' = Tail(m_delete_model)
            /\ UNCHANGED <<pc, m_observation, observed>>
         \/ UNCHANGED <<observationVars, lst, graph, m_delete_model>>
    BY <1>1 DEF DeleteModel
<1>3. TypeOK'
    <2>1. m_delete_model' \in Seq(Model) /\ lst' \subseteq Sim /\ graph' \subseteq Model
        <3>1. Tail(m_delete_model) \in Seq(Model)
            BY <1>1
        <3>2. Atoms(m) \subseteq Sim /\ lst \subseteq Sim /\ graph \subseteq Model
            BY DEF TypeOK, Atoms
        <3> HIDE DEF m
        <3> QED BY <1>1, <1>2, <3>1, <3>2
    <2>2. /\ m_observableList' \in [TView -> SUBSET Sim]
          /\ UNCHANGED <<m_observation, observed>>
        BY <1>2 DEF RemoveObservable, observationVars, TypeOK
    <2> QED BY <1>1, <1>2, <2>1, <2>2 DEF TypeOK, SchedulerTypeOK, Phase
<1>4. EventTableConsistent' /\ Clock' /\ Vectors' /\ Living' /\ Outputs'
    BY <1>1, <1>2 DEF EventTableConsistent, HaveHandle, Clock, Vectors, Living, Outputs,
                      Dispatched, Stopped
<1>5. Nodes'
    <2>1. CASE /\ RemoveObservable(Atoms(m) \cap graph)
               /\ lst' = lst \cup (Atoms(m) \cap graph)
               /\ graph' = graph \ Inside(m)
               /\ UNCHANGED pc
        <3>1. Atoms(m) = Inside(m) \cap Sim
            BY DEF Atoms
        <3>2. \A v \in TView : m_observableList'[v] = m_observableList[v] \ (Atoms(m) \cap graph)
            BY <2>1 DEF RemoveObservable
        <3>3. \A v \in TView : m_observableList[v] \subseteq Sim
            BY DEF TypeOK
        <3> QED BY <1>1, <2>1, <3>1, <3>2, <3>3 DEF Nodes
    <2>2. CASE UNCHANGED <<observationVars, lst, graph>>
        BY <1>1, <1>2, <2>2 DEF Nodes, observationVars
    <2> QED BY <1>2, <2>1, <2>2
<1>6. Waiting = {} /\ Unplanned = {} /\ Waiting' = {} /\ Unplanned' = {} /\ Pending' = Pending
    BY <1>1, <1>2 DEF Waiting, Unplanned, Pending, HaveExternalEvents
<1>7. Planned' /\ Processing'
    BY <1>1, <1>2, <1>6 DEF Planned, Processing, HaveHandle, Stopped
<1> QED BY <1>3, <1>4, <1>5, <1>7

\* The end of a bag deletes a simulator of a freed model.
LEMMA DeleteSimulatorTable ==
    ASSUME TableInv, DeleteSimulator PROVE TableInv'
<1> USE DEF TableInv
<1>1. PICK s \in lst :
          /\ DelSimulator(s)
          /\ m_simulators' = m_simulators \ {s}
          /\ lst' = lst \ {s}
          /\ m_observations' = [m_observations EXCEPT ![s] = <<>>]
    BY DEF DeleteSimulator
<1>2. /\ pc = "delete" /\ s \in Sim
      /\ UNCHANGED <<observationVars, pc, i, m_currentTime, nb_executive,
                     m_result, emitted, threw, graph, m_delete_model, ops>>
    BY DEF DeleteSimulator, TypeOK
<1>3. /\ dynamics' \in Erased(dynamics, s) /\ executives' \in Erased(executives, s)
      /\ unique_simulators' = unique_simulators \ {s}
      /\ m_scheduler' = m_scheduler \ {<<s, m_handle[s]>>}
      /\ m_handle' = [m_handle EXCEPT ![s] = NoHandle]
      /\ UNCHANGED <<m_current_time, m_tn, m_have_internal, m_external_events>>
    BY <1>1 DEF DelSimulator, EraseNode
<1>4. \A r \in Sim \ {s} : m_handle'[r] = m_handle[r]
    BY <1>3 DEF TypeOK, SchedulerTypeOK
<1>5. TypeOK'
    <2>1. dynamics' \in Seq(Sim) /\ executives' \in Seq(Sim)
        BY <1>3, ErasedFacts DEF TypeOK, SchedulerTypeOK
    <2>2. m_handle' \in [Sim -> Time \cup {NoHandle}]
        BY <1>3 DEF TypeOK, SchedulerTypeOK
    <2>3. m_observations' \in [Sim -> Seq({"output", "internal", "external", "confluent"})]
        <3>1. <<>> \in Seq({"output", "internal", "external", "confluent"})
            OBVIOUS
        <3> QED BY <1>1, <1>2, <3>1 DEF TypeOK
    <2> QED BY <1>1, <1>2, <1>3, <2>1, <2>2, <2>3 DEF TypeOK, SchedulerTypeOK, observationVars
<1>6. EventTableConsistent'
    <2>1. ASSUME NEW r \in Sim, HaveHandle(r)' PROVE <<r, m_handle'[r]>> \in m_scheduler'
        <3>1. r # s
            BY <1>2, <1>3, <2>1 DEF HaveHandle, TypeOK, SchedulerTypeOK
        <3> QED BY <2>1, <3>1, <1>3, <1>4 DEF HaveHandle, EventTableConsistent
    <2>2. ASSUME NEW n \in m_scheduler'
          PROVE  /\ n[1] \in m_simulators'
                 /\ m_handle'[n[1]] = n[2] /\ m_tn'[n[1]] = n[2]
                 /\ n[2] >= m_current_time'
        <3>1. n \in m_scheduler /\ n # <<s, m_handle[s]>> /\ n \in Sim \X Time
            BY <1>3, <2>2 DEF TypeOK, SchedulerTypeOK
        <3>2. n = <<n[1], n[2]>> /\ m_handle[n[1]] = n[2]
            BY <3>1 DEF EventTableConsistent
        <3>3. n[1] # s /\ n[1] \in Sim
            BY <3>1, <3>2
        <3> QED BY <3>1, <3>3, <1>1, <1>3, <1>4 DEF EventTableConsistent
    <2> QED BY <2>1, <2>2 DEF EventTableConsistent
<1>7. Clock' /\ Vectors' /\ Living'
    BY <1>1, <1>2, <1>3 DEF Clock, Vectors, Living, Stopped
<1>8. Outputs'
    <2>1. Dispatched
        BY <1>2 DEF Outputs
    <2> QED BY <1>2, <2>1 DEF Outputs, Dispatched
<1>9. Nodes'
    BY <1>1, <1>2 DEF Nodes, observationVars
<1>10. Waiting = {} /\ Unplanned = {} /\ Waiting' = {} /\ Unplanned' = {} /\ Pending' = Pending
    BY <1>2, <1>3 DEF Waiting, Unplanned, Pending, HaveExternalEvents
<1>11. Planned'
    BY <1>1, <1>2, <1>3, <1>4, <1>10 DEF Planned, TypeOK, Stopped
<1>12. Processing'
    BY <1>2, <1>3, <1>10 DEF Processing
<1> QED BY <1>5, <1>6, <1>7, <1>8, <1>9, <1>11, <1>12

\* Nothing changes.
LEMMA UnchangedTable ==
    ASSUME TableInv, UNCHANGED vars PROVE TableInv'
<1> USE DEF TableInv, vars, coordinatorVars, schedulerVars, heapVars, bagVars, observationVars
<1>1. TypeOK'
    BY DEF TypeOK, SchedulerTypeOK
<1>2. EventTableConsistent' /\ Clock' /\ Vectors' /\ Living' /\ Outputs' /\ Nodes'
    BY DEF EventTableConsistent, HaveHandle, Clock, Vectors, Living, Outputs, Nodes,
           Dispatched
<1>3. Waiting' = Waiting /\ Unplanned' = Unplanned /\ Pending' = Pending
    BY DEF Waiting, Unplanned, Pending, HaveExternalEvents, Suffix
<1>4. Planned' /\ Processing'
    BY <1>3 DEF Planned, Processing, HaveHandle
<1> QED BY <1>1, <1>2, <1>4

\* Every step of the simulation loop and every structural change of an
\* executive preserve the invariant of the event table.
LEMMA NextTable == TableInv /\ [Next]_vars => TableInv'
<1> SUFFICES ASSUME TableInv, [Next]_vars PROVE TableInv'
    OBVIOUS
<1>1. CASE Structure
    BY <1>1, CreateModelTable, DelModelTable DEF Structure
<1>2. CASE LoadModels \/ Start \/ NextBag
    BY <1>2, LoadModelsTable, StartTable, NextBagTable
<1>3. CASE BeginBag \/ OutputExecutives \/ SortExecutives
    BY <1>3, BeginBagTable, OutputExecutivesTable, SortExecutivesTable
<1>4. CASE DispatchDynamics
    BY <1>4, DispatchTable DEF DispatchDynamics
<1>5. CASE DispatchExecutives
    BY <1>5, DispatchTable DEF DispatchExecutives
<1>6. CASE TransitionDynamics \/ TransitionExecutives \/ TransitionThrows \/ SwallowedThrow
    BY <1>6, TransitionDynamicsTable, TransitionExecutivesTable, TransitionThrowsTable,
       SwallowedThrowTable
<1>7. CASE RescheduleDynamics \/ RescheduleExecutives \/ EndLoop
    BY <1>7, RescheduleDynamicsTable, RescheduleExecutivesTable, EndLoopTable
<1>8. CASE Observe \/ EatViews \/ EndEat \/ Finish
    BY <1>8, ObserveTable
<1>9. CASE DeleteModel \/ DeleteSimulator
    BY <1>9, DeleteModelTable, DeleteSimulatorTable
<1>10. CASE Terminated \/ UNCHANGED vars
    BY <1>10, UnchangedTable DEF Terminated
<1> QED
    BY <1>1, <1>2, <1>3, <1>4, <1>5, <1>6, <1>7, <1>8, <1>9, <1>10 DEF Next, Run

\* The invariant of the event table holds in every state.
LEMMA TableInvariant == Spec => []TableInv
<1>1. Init => TableInv
    BY InitTable
<1>2. TableInv /\ [Next]_vars => TableInv'
    BY NextTable
<1> QED BY <1>1, <1>2, PTL DEF Spec

\* The heap, the handles and the bag agree and no simulator is forgotten,
\* whatever the models answer, the executives create and delete, and the
\* pool swallows.
THEOREM EventTableIsConsistent == Spec => []EventTableInv
<1>1. TableInv => EventTableInv
    <2> SUFFICES ASSUME TableInv PROVE EventTableInv
        OBVIOUS
    <2> USE DEF TableInv
    <2>1. pc \notin {"delete", "undefined"} => Waiting \subseteq unique_simulators
        <3>1. ASSUME NEW q \in Seq(Sim) PROVE Suffix(q) \subseteq Range(q)
            BY DEF Suffix, Range, TypeOK
        <3>2. dynamics \in Seq(Sim) /\ executives \in Seq(Sim)
            BY DEF TypeOK, SchedulerTypeOK
        <3>3. Suffix(dynamics) \subseteq Range(dynamics)
              /\ Suffix(executives) \subseteq Range(executives)
            BY <3>1, <3>2
        <3> QED BY <3>3 DEF Waiting, Vectors
    <2>2. BagConsistent
        BY <2>1 DEF BagConsistent, Vectors, Processing, Pending
    <2>3. NoLostWakeUp
        BY DEF NoLostWakeUp, Planned, Unplanned, Processing, Stopped
    <2> QED BY <2>2, <2>3 DEF EventTableInv
<1> QED BY <1>1, TableInvariant, PTL

\* The first assertion of Scheduler::addInternal: the dates it is given, which
\* are those of the heap, are finite.
HeapFinite == \A n \in m_scheduler : n[2] < Infinity

\* A step of the coordinator enters no infinite date into the heap.
LEMMA HeapFiniteNext ==
    ASSUME TableInv, HeapFinite, [Next]_vars
    PROVE  HeapFinite'
<1> USE DEF HeapFinite
<1>1. ASSUME NEW S \in SUBSET Sim, AddSimulators(S)
      PROVE  HeapFinite'
    BY <1>1 DEF AddSimulators
<1>2. ASSUME NEW t \in Time, FillBag(t)
      PROVE  HeapFinite'
    BY <1>2 DEF FillBag
<1>3. ASSUME m_scheduler' \subseteq m_scheduler
      PROVE  HeapFinite'
    BY <1>3
<1>4. ASSUME NEW q, Dispatch(q)
      PROVE  m_scheduler' \subseteq m_scheduler
    BY <1>4 DEF Dispatch, AddExternal, EraseNode, heapVars
<1>5. ASSUME NEW s, Reschedule(s)
      PROVE  HeapFinite'
    BY <1>5 DEF Reschedule, AddInternal, heapVars
<1>6. CASE Structure
    <2>1. ASSUME NEW e \in Exec, NEW m \in Model, CreateModel(e, m)
          PROVE  HeapFinite'
        BY <2>1, <1>1 DEF CreateModel, Atoms
    <2>2. ASSUME NEW e \in Exec, NEW m \in Model, DelModel(e, m)
          PROVE  HeapFinite'
        BY <2>2, <1>3 DEF DelModel, schedulerVars, heapVars
    <2> QED BY <1>6, <2>1, <2>2 DEF Structure
<1>7. CASE LoadModels
    BY <1>7, <1>1 DEF LoadModels
<1>8. CASE Start \/ NextBag
    <2>1. Begin \in Time /\ GetNextTime \in Time
        BY Dates1, NextTime DEF TableInv
    <2> QED BY <1>8, <2>1, <1>2 DEF Start, StartBag, NextBag, MakeNextBag
<1>9. CASE DispatchDynamics \/ DispatchExecutives
    BY <1>9, <1>3, <1>4 DEF DispatchDynamics, DispatchExecutives
<1>10. CASE RescheduleDynamics \/ RescheduleExecutives
    BY <1>10, <1>5 DEF RescheduleDynamics, RescheduleExecutives
<1>11. CASE DeleteSimulator
    BY <1>11, <1>3 DEF DeleteSimulator, DelSimulator, EraseNode
<1>12. CASE BeginBag \/ OutputExecutives \/ SortExecutives \/ EndLoop
            \/ Observe \/ EatViews \/ EndEat \/ DeleteModel \/ Finish
            \/ Terminated \/ UNCHANGED vars
    BY <1>12, <1>3 DEF BeginBag, OutputExecutives, SortExecutives, EndLoop, Observe,
       EatViews, EndEat, DeleteModel, Finish, Terminated, vars, schedulerVars, heapVars
<1>13. CASE TransitionDynamics \/ TransitionExecutives \/ TransitionThrows
            \/ SwallowedThrow
    BY <1>13, <1>3 DEF TransitionDynamics, TransitionExecutives, TransitionThrows,
       SwallowedThrow, schedulerVars, heapVars
<1> QED
    BY <1>6, <1>7, <1>8, <1>9, <1>10, <1>11, <1>12, <1>13 DEF Next, Run

\* The assertions of the kernel never fail.
THEOREM KernelAssertions == Spec => []AssertionsHold
<1>1. TableInv /\ HeapFinite => AssertionsHold
    <2> SUFFICES ASSUME TableInv, HeapFinite PROVE AssertionsHold
        OBVIOUS
    <2> USE DEF TableInv
    <2>1. dynamics \in Seq(Sim) /\ executives \in Seq(Sim) /\ i \in Nat \ {0}
        BY DEF TypeOK, SchedulerTypeOK
    <2>2. ASSUME pc = "transition_dynamics", i <= Len(dynamics)
          PROVE  m_have_internal[dynamics[i]] \/ HaveExternalEvents(dynamics[i])
        <3>1. dynamics[i] \in Waiting
            BY <2>1, <2>2 DEF Waiting, Suffix
        <3> QED BY <3>1 DEF Processing, Pending
    <2>3. ASSUME pc = "transition_executives", i <= Len(executives)
          PROVE  m_have_internal[executives[i]] \/ HaveExternalEvents(executives[i])
        <3>1. executives[i] \in Waiting
            BY <2>1, <2>3 DEF Waiting, Suffix
        <3> QED BY <3>1 DEF Processing, Pending
    <2>4. \A n \in m_scheduler : m_current_time <= n[2] /\ n[2] < Infinity
        <3> SUFFICES ASSUME NEW n \in m_scheduler
                     PROVE  m_current_time <= n[2] /\ n[2] < Infinity
            OBVIOUS
        <3>1. n[2] >= m_current_time
            BY DEF EventTableConsistent
        <3>2. n[2] \in Int /\ m_current_time \in Int
            BY SchedulerAssumption DEF TypeOK, SchedulerTypeOK, Time, NegativeInfinity
        <3> QED BY <3>1, <3>2 DEF HeapFinite
    <2>5. pc \in {"dispatch_dynamics", "dispatch_executives",
                  "transition_dynamics", "transition_executives"} =>
              m_currentTime = m_current_time
        BY DEF Clock, Stopped
    <2> QED BY <2>2, <2>3, <2>4, <2>5 DEF AssertionsHold
<1>2. Init => HeapFinite
    BY DEF Init, SchedulerInit, HeapFinite
<1>3. TableInv /\ HeapFinite /\ [Next]_vars => HeapFinite'
    BY HeapFiniteNext
<1> QED BY <1>1, <1>2, <1>3, TableInvariant, PTL DEF Spec

\* When the next bag is ready, deleted models have left the event table, the
\* bag and the views.
THEOREM DeletionIsComplete == Spec => []DeletedModelsGone
<1>1. TableInv => DeletedModelsGone
    <2> SUFFICES ASSUME TableInv, pc \in {"ready", "ended"}
                 PROVE  /\ m_simulators = graph \cap Sim
                        /\ unique_simulators \subseteq m_simulators
                        /\ Range(dynamics) \cup Range(executives) \subseteq m_simulators
                        /\ Due(Infinity) \subseteq m_simulators
                        /\ \A v \in TView : m_observableList[v] \subseteq m_simulators
        BY DEF DeletedModelsGone
    <2> USE DEF TableInv
    <2>1. m_simulators = graph \cap Sim /\ \A v \in TView : m_observableList[v] \subseteq graph
        BY DEF Nodes
    <2>2. \A v \in TView : m_observableList[v] \subseteq Sim
        BY DEF TypeOK
    <2>3. Due(Infinity) \subseteq m_simulators
        BY DEF Due, EventTableConsistent
    <2> QED BY <2>1, <2>2, <2>3 DEF Living, Vectors
<1> QED BY <1>1, TableInvariant, PTL

-----------------------------------------------------------------------------
(* Deletions, delivery, the refinement of Devs, views.                     *)

\* While the executives run, the deepest are first.
Deepest ==
    pc \in {"transition_dynamics", "schedule_dynamics",
            "transition_executives"} =>
        \A k, l \in DOMAIN executives :
            k < l => Depth(executives[k]) <= Depth(executives[l])

Unqueued == {"load", "start", "ready", "dispatch_dynamics",
             "dispatch_executives", "transition_dynamics",
             "schedule_dynamics", "ended"}

\* A queued node is in the tree, is queued once, and is queued before the
\* nodes that enclose it; the nodes queued later are not deeper.
Queue ==
    /\ pc \in Unqueued => m_delete_model = <<>>
    /\ pc # "undefined"
    /\ \A k \in DOMAIN m_delete_model : m_delete_model[k] \in graph
    /\ \A k, l \in DOMAIN m_delete_model :
           k < l => m_delete_model[l] \notin Inside(m_delete_model[k])
    /\ pc = "transition_executives" =>
           \A k \in DOMAIN m_delete_model : \A l \in i .. Len(executives) :
               Cardinality(Above[m_delete_model[k]])
                   >= Cardinality(Above[executives[l]])

Dispatching == {"dispatch_dynamics", "dispatch_executives"}

\* The events output in the bag that t receives: each is either still to be
\* dispatched or has reached t, once.
Reached(t) ==
    /\ IsInjective(m_external_events[t])
    /\ Range(m_external_events[t]) \cup {s \in Sim : t \in m_result[s]} =
           {s \in emitted : <<s, t>> \in Conn}
    /\ \A s \in Range(m_external_events[t]) : t \notin m_result[s]

\* Before the dispatch nobody has output or received an event; while the
\* dynamics dispatch, no executive has output, and those that will are due.
Delivery ==
    ~threw =>
        /\ pc \in {"load", "start", "ready"} => emitted = {}
        /\ pc = "ready" => \A s \in Sim : m_external_events[s] = <<>>
        /\ pc = "dispatch_dynamics" =>
               /\ emitted \cap Exec = {}
               /\ \A k \in 1 .. nb_executive : m_have_internal[executives[k]]
        /\ pc \in Dispatching \/ (pc = "transition_dynamics" /\ i = 1) =>
               /\ \A s \in emitted : m_have_internal[s]
               /\ \A t \in m_simulators : Reached(t)

\* The date of the bag is in the period of the simulation, only simulators
\* that are due have an internal event, and no node of the heap is dated
\* infinity; without a pool an exception ends the simulation.
BagDates ==
    /\ pc \notin {"load", "start"} => m_current_time >= Begin
    /\ pc \notin {"load", "start", "ready", "ended"} => m_current_time <= Duration
    /\ ~threw /\ pc \in {"ready"} \cup Dispatching =>
           \A s \in m_simulators : m_have_internal[s] => m_tn[s] <= m_current_time
    /\ \A n \in m_scheduler : n[2] < Infinity
    /\ ~Parallel /\ threw => pc = "failed"

-----------------------------------------------------------------------------
(* Deletion *)

\* An enclosing node has fewer nodes above it.
LEMMA EnclosingIsHigher ==
    ASSUME NEW m \in Model, NEW n \in Above[m]
    PROVE  /\ Cardinality(Above[n]) < Cardinality(Above[m])
           /\ Cardinality(Above[n]) \in Nat /\ Cardinality(Above[m]) \in Nat
<1>1. /\ Above[m] \subseteq Model /\ n \in Model /\ Above[n] \subseteq Above[m]
      /\ n \notin Above[n] /\ IsFiniteSet(Model)
    BY CoordinatorAssumption
<1>2. IsFiniteSet(Above[m]) /\ IsFiniteSet(Above[n])
    BY <1>1, FS_Subset
<1>3. Above[n] # Above[m]
    BY <1>1
<1> QED BY <1>1, <1>2, <1>3, FS_Subset, FS_CardinalityType

\* A model has finitely many models around it.
LEMMA AboveFinite ==
    ASSUME NEW m \in Model
    PROVE  Cardinality(Above[m]) \in Nat
BY CoordinatorAssumption, FS_Subset, FS_CardinalityType

\* The order of sortExecutives: a model of a lower depth is enclosed in at
\* least as many models.
LEMMA DepthOrder ==
    ASSUME NEW r \in Model, NEW s \in Model, Depth(r) <= Depth(s)
    PROVE  Cardinality(Above[r]) >= Cardinality(Above[s])
BY AboveFinite DEF Depth

DeletionInv == Deepest /\ Queue

\* Steps that leave the queue as it is.
LEMMA QueueKept ==
    ASSUME Queue, UNCHANGED m_delete_model, graph \subseteq graph',
           pc' \in Unqueued => m_delete_model = <<>>, pc' # "undefined",
           pc' = "transition_executives" =>
               \/ m_delete_model = <<>>
               \/ /\ pc = "transition_executives" /\ UNCHANGED executives
                  /\ i' \in {i, i + 1} /\ i \in Nat
    PROVE  Queue'
<1>1. CASE m_delete_model = <<>>
    BY <1>1 DEF Queue
<1>2. CASE m_delete_model # <<>>
    <2>1. pc' = "transition_executives" =>
              \A l \in i' .. Len(executives') : l \in i .. Len(executives)
        BY <1>2
    <2>2. pc' = "transition_executives" =>
              \A k \in DOMAIN m_delete_model' : \A l \in i' .. Len(executives') :
                  Cardinality(Above[m_delete_model'[k]])
                      >= Cardinality(Above[executives'[l]])
        BY <1>2, <2>1 DEF Queue
    <2> QED BY <1>2, <2>2 DEF Queue
<1> QED BY <1>1, <1>2

\* No step frees a node that is still to be used.
LEMMA NextDeletion ==
    ASSUME ~LaxDeletion, TableInv, DeletionInv, [Next]_vars
    PROVE  DeletionInv'
<1> USE DEF DeletionInv
<1>a. /\ i \in Nat \ {0} /\ executives \in Seq(Sim) /\ m_delete_model \in Seq(Model)
      /\ Sim \subseteq Model
    BY CoordinatorAssumption DEF TableInv, TypeOK, SchedulerTypeOK
<1>1. ASSUME NEW e \in Exec, NEW m \in Model, CreateModel(e, m) PROVE DeletionInv'
    <2>1. /\ UNCHANGED <<m_delete_model, pc, executives, i>> /\ graph \subseteq graph'
        BY <1>1 DEF CreateModel, bagVars
    <2>2. Queue'
        BY <1>a, <2>1, QueueKept DEF Queue
    <2> QED BY <2>1, <2>2 DEF Deepest
<1>2. ASSUME NEW e \in Exec, NEW m \in Model, DelModel(e, m) PROVE DeletionInv'
    <2>1. /\ pc = "transition_executives" /\ e = executives[i] /\ i <= Len(executives)
          /\ Above[m] = Above[e] /\ m \in graph /\ m \notin Range(m_delete_model)
          /\ m_delete_model' = Append(m_delete_model, m)
          /\ UNCHANGED <<pc, i, executives, graph>>
        BY <1>2 DEF DelModel, Running, schedulerVars, bagVars
    <2> DEFINE q == m_delete_model
    <2> DEFINE n == Len(q)
    <2>2. /\ n \in Nat /\ DOMAIN q = 1 .. n /\ DOMAIN q' = 1 .. n + 1
          /\ q'[n + 1] = m /\ \A k \in 1 .. n : q'[k] = q[k] /\ q[k] \in Model
        BY <1>a, <2>1
    <2>3. \A l \in i .. Len(executives) :
              Cardinality(Above[m]) >= Cardinality(Above[executives[l]])
        <3>1. ASSUME NEW l \in i .. Len(executives)
              PROVE  Depth(executives[i]) <= Depth(executives[l])
            <4>1. /\ i \in DOMAIN executives /\ l \in DOMAIN executives
                  /\ l \in Nat /\ executives[i] \in Model
                BY <1>a, <2>1
            <4>2. CASE l = i
                BY <4>1, <4>2, AboveFinite DEF Depth
            <4>3. CASE i < l
                BY <2>1, <4>1, <4>3 DEF Deepest
            <4> QED BY <1>a, <4>1, <4>2, <4>3
        <3> QED BY <1>a, <2>1, <3>1, DepthOrder
    <2>4. ASSUME NEW k \in 1 .. n PROVE m \notin Inside(q[k])
        <3>1. q[k] # m
            BY <2>1, <2>2 DEF Range
        <3>2. Cardinality(Above[q[k]]) >= Cardinality(Above[m])
            BY <1>a, <2>1, <2>2 DEF Queue
        <3>3. q[k] \notin Above[m]
            BY <3>2, EnclosingIsHigher
        <3> QED BY <3>1, <3>3 DEF Inside
    <2>5. Queue'
        <3> HIDE DEF q
        <3>1. \A k \in DOMAIN q' : q'[k] \in graph'
            BY <2>1, <2>2 DEF Queue, q
        <3>2. \A k, l \in DOMAIN q' : k < l => q'[l] \notin Inside(q'[k])
            <4> SUFFICES ASSUME NEW k \in 1 .. n + 1, NEW l \in 1 .. n + 1, k < l
                         PROVE  q'[l] \notin Inside(q'[k])
                BY <2>2
            <4>1. k \in 1 .. n /\ q'[k] = q[k]
                BY <2>2
            <4>2. CASE l = n + 1
                BY <2>2, <2>4, <4>1, <4>2
            <4>3. CASE l \in 1 .. n
                BY <2>2, <4>1, <4>3 DEF Queue, q
            <4> QED BY <2>2, <4>2, <4>3
        <3>3. \A k \in DOMAIN q' : \A l \in i .. Len(executives) :
                  Cardinality(Above[q'[k]]) >= Cardinality(Above[executives[l]])
            BY <2>1, <2>2, <2>3 DEF Queue, q
        <3> QED BY <2>1, <3>1, <3>2, <3>3 DEF Queue, q, Unqueued
    <2> QED BY <2>1, <2>5 DEF Deepest
<1>3. CASE LoadModels \/ Start \/ BeginBag \/ DispatchDynamics \/ OutputExecutives
           \/ DispatchExecutives \/ TransitionThrows \/ RescheduleExecutives
           \/ Observe \/ EatViews \/ EndEat \/ DeleteSimulator \/ NextBag \/ Finish
    <2>1. /\ UNCHANGED <<m_delete_model, graph>>
          /\ pc' \notin {"transition_dynamics", "schedule_dynamics",
                         "transition_executives", "undefined"}
          /\ pc' \in Unqueued => m_delete_model = <<>>
        BY <1>3 DEF LoadModels, Start, BeginBag, DispatchDynamics, OutputExecutives,
             DispatchExecutives, TransitionThrows, RescheduleExecutives, Reschedule,
             Observe, EatViews, EndEat, DeleteSimulator, NextBag, Finish, structureVars,
             Unqueued, Queue
    <2>2. Queue'
        BY <2>1, QueueKept
    <2> QED BY <2>1, <2>2 DEF Deepest
<1>4. CASE SortExecutives
    <2>1. /\ pc = "dispatch_executives" /\ pc' = "transition_dynamics"
          /\ executives' \in SortedByDepth(executives)
          /\ UNCHANGED <<m_delete_model, graph>> /\ m_delete_model = <<>>
        BY <1>4 DEF SortExecutives, structureVars, Queue, Unqueued
    <2>2. Queue'
        BY <2>1, QueueKept
    <2> QED BY <1>a, <2>1, <2>2, SortFacts DEF Deepest
<1>5. CASE TransitionDynamics \/ SwallowedThrow \/ RescheduleDynamics
           \/ TransitionExecutives
    <2>1. /\ UNCHANGED <<m_delete_model, graph, executives, pc>> /\ i' = i + 1
          /\ pc \in {"transition_dynamics", "schedule_dynamics", "transition_executives"}
        BY <1>5 DEF TransitionDynamics, SwallowedThrow, RescheduleDynamics, Reschedule,
             TransitionExecutives, Transition, structureVars, bagVars
    <2>2. Queue'
        BY <1>a, <2>1, QueueKept DEF Queue
    <2> QED BY <2>1, <2>2 DEF Deepest
<1>6. CASE EndLoop
    <2>1. /\ UNCHANGED <<m_delete_model, graph, executives>>
          /\ \/ pc = "transition_dynamics" /\ pc' = "schedule_dynamics"
             \/ pc = "schedule_dynamics" /\ pc' = "transition_executives"
             \/ pc = "transition_executives" /\ pc' = "schedule_executives"
             \/ pc = "schedule_executives" /\ pc' = "observe"
        BY <1>6 DEF EndLoop, structureVars, schedulerVars, bagVars
    <2>2. Queue'
        BY <2>1, QueueKept DEF Queue, Unqueued
    <2> QED BY <2>1, <2>2 DEF Deepest
<1>7. CASE DeleteModel
    <2> DEFINE q == m_delete_model
    <2> DEFINE m == Head(q)
    <2>1. pc = "delete" /\ q # <<>>
        BY <1>7 DEF DeleteModel
    <2>2. /\ Len(q) \in Nat \ {0} /\ m = q[1] /\ Len(Tail(q)) = Len(q) - 1
          /\ DOMAIN q = 1 .. Len(q) /\ DOMAIN Tail(q) = 1 .. Len(q) - 1
          /\ \A k \in 1 .. Len(q) - 1 : Tail(q)[k] = q[k + 1]
        BY <1>a, <2>1
    <2>3. m \in graph
        BY <2>2 DEF Queue
    <2>4. graph' = graph \ Inside(m) /\ m_delete_model' = Tail(q) /\ pc' = "delete"
        BY <1>7, <2>1, <2>3 DEF DeleteModel
    <2>5. Queue'
        <3> HIDE DEF q, m
        <3>1. \A k \in DOMAIN m_delete_model' : m_delete_model'[k] \in graph'
            BY <2>2, <2>4 DEF Queue, q
        <3>2. \A k, l \in DOMAIN m_delete_model' :
                  k < l => m_delete_model'[l] \notin Inside(m_delete_model'[k])
            BY <2>2, <2>4 DEF Queue, q
        <3> QED BY <2>4, <3>1, <3>2 DEF Queue, Unqueued
    <2> QED BY <2>4, <2>5 DEF Deepest
<1>8. CASE Terminated \/ UNCHANGED vars
    <2>1. UNCHANGED <<m_delete_model, graph, executives, pc, i>>
        BY <1>8 DEF Terminated, vars, coordinatorVars, schedulerVars, bagVars
    <2>2. Queue'
        BY <1>a, <2>1, QueueKept DEF Queue
    <2> QED BY <2>1, <2>2 DEF Deepest
<1> QED
    BY <1>1, <1>2, <1>3, <1>4, <1>5, <1>6, <1>7, <1>8 DEF Next, Run, Structure

\* The deletion of a model never reads a freed node, however deep the models
\* nest and whichever executives ask for deletions in one bag, provided that
\* none asks twice for the same model (LaxDeletion = FALSE).
THEOREM DeletionIsSafe == ~LaxDeletion => (Spec => []NoUseAfterFree)
<1> SUFFICES ASSUME ~LaxDeletion PROVE Spec => []NoUseAfterFree
    OBVIOUS
<1>1. Init => DeletionInv
    BY DEF Init, DeletionInv, Deepest, Queue, Unqueued
<1>2. TableInv /\ DeletionInv /\ [Next]_vars => DeletionInv'
    BY NextDeletion
<1>3. DeletionInv => NoUseAfterFree
    BY DEF DeletionInv, Queue, NoUseAfterFree
<1> QED BY <1>1, <1>2, <1>3, TableInvariant, PTL DEF Spec

-----------------------------------------------------------------------------
(* Delivery of the events *)

\* A step outside the dispatch of the events.
LEMMA DeliveryElsewhere ==
    ASSUME pc' \notin {"load", "start", "ready"} \cup Dispatching,
           pc' = "transition_dynamics" => i' # 1
    PROVE  Delivery'
BY DEF Delivery, Dispatching

\* Before a bag, nobody has an event to process.
LEMMA NoEvents ==
    ASSUME TableInv, ~threw, pc \in {"start", "delete"}
    PROVE  \A s \in Sim : m_external_events[s] = <<>>
<1>1. Waiting = {}
    BY DEF Waiting
<1> QED BY <1>1 DEF TableInv, Processing, Pending, HaveExternalEvents

\* The outputs of the dynamics are the events to deliver first.
LEMMA BeginBagDelivery ==
    ASSUME TableInv, Delivery, BeginBag PROVE Delivery'
<1> USE DEF TableInv, schedulerVars, heapVars, bagVars, observationVars, structureVars
<1> SUFFICES ASSUME ~threw PROVE Delivery'
    BY DEF BeginBag, Delivery
<1> DEFINE imminent == {dynamics[k] : k \in 1 .. Len(dynamics)}
<1>1. PICK S \in SUBSET imminent :
          /\ m_result' = [s \in Sim |-> IF s \in S THEN Targets(s) ELSE m_result[s]]
          /\ emitted' = emitted \cup S
    BY DEF BeginBag, Output
<1>2. /\ pc = "ready" /\ pc' = "dispatch_dynamics" /\ nb_executive' = Len(executives)
      /\ UNCHANGED <<schedulerVars, m_simulators>>
    BY DEF BeginBag
<1>3. /\ imminent = Range(dynamics) /\ Range(dynamics) = unique_simulators \ Exec
      /\ \A k \in 1 .. Len(executives) : executives[k] \in unique_simulators
      /\ \A s \in unique_simulators : m_have_internal[s] /\ s \in Sim
    <2>1. dynamics \in Seq(Sim) /\ executives \in Seq(Sim) /\ unique_simulators \subseteq Sim
        BY DEF TypeOK, SchedulerTypeOK
    <2>2. /\ Range(dynamics) = unique_simulators \ Exec
          /\ Range(executives) = unique_simulators \cap Exec
        BY <1>2 DEF Vectors
    <2>3. imminent = Range(dynamics)
          /\ \A k \in 1 .. Len(executives) : executives[k] \in Range(executives)
        BY <2>1 DEF Range
    <2> QED BY <1>2, <2>1, <2>2, <2>3 DEF Processing
<1> HIDE DEF imminent
<1>4. /\ emitted' = S /\ S \subseteq Sim \ Exec
      /\ \A s \in Sim : m_external_events[s] = <<>> /\ m_result[s] = {}
    BY <1>1, <1>2, <1>3 DEF Delivery, Outputs, Dispatched
<1>5. ASSUME NEW t \in m_simulators PROVE Reached(t)'
    <2>1. m_external_events'[t] = <<>> /\ Range(m_external_events'[t]) = {}
          /\ IsInjective(m_external_events'[t])
        BY <1>2, <1>4 DEF Range, IsInjective, TypeOK
    <2>2. \A s \in Sim : t \in m_result'[s] <=> s \in S /\ <<s, t>> \in Conn
        BY <1>1, <1>4 DEF Targets
    <2> QED BY <1>4, <2>1, <2>2 DEF Reached
<1> QED BY <1>2, <1>3, <1>4, <1>5 DEF Delivery, Dispatching

\* The outputs of the executives join the events to deliver.
LEMMA OutputExecutivesDelivery ==
    ASSUME TableInv, Delivery, OutputExecutives PROVE Delivery'
<1> USE DEF TableInv, schedulerVars, heapVars, bagVars, observationVars, structureVars
<1> SUFFICES ASSUME ~threw PROVE Delivery'
    BY DEF OutputExecutives, Delivery
<1> DEFINE imminent == {executives[k] : k \in 1 .. nb_executive}
<1>1. PICK S \in SUBSET imminent :
          /\ m_result' = [s \in Sim |-> IF s \in S THEN Targets(s) ELSE m_result[s]]
          /\ emitted' = emitted \cup S
    BY DEF OutputExecutives, Output
<1>2. /\ pc = "dispatch_dynamics" /\ pc' = "dispatch_executives"
      /\ \A s \in Sim : m_result[s] = {}
      /\ UNCHANGED <<schedulerVars, m_simulators>>
    BY DEF OutputExecutives, Dispatched
<1>3. \A s \in imminent : s \in Exec /\ m_have_internal[s]
    <2>1. /\ nb_executive \in Nat /\ nb_executive <= Len(executives)
          /\ executives \in Seq(Sim) /\ Range(executives) \subseteq Exec
        BY <1>2 DEF TypeOK, SchedulerTypeOK, Outputs, Vectors
    <2>2. \A k \in 1 .. nb_executive : executives[k] \in Range(executives)
        BY <2>1 DEF Range
    <2> QED BY <1>2, <2>1, <2>2 DEF Delivery
<1> HIDE DEF imminent
<1>4. S \subseteq Exec /\ emitted \cap Exec = {} /\ S \subseteq Sim /\ emitted \subseteq Sim
    BY <1>2, <1>3, SchedulerAssumption DEF Delivery, TypeOK
<1>5. ASSUME NEW t \in m_simulators PROVE Reached(t)'
    <2>1. m_external_events' = m_external_events /\ Reached(t)
        BY <1>2 DEF Delivery, Dispatching
    <2>2. \A s \in Sim : t \in m_result'[s] <=> s \in S /\ <<s, t>> \in Conn
        BY <1>1, <1>2 DEF Targets
    <2>3. Range(m_external_events[t]) = {s \in emitted : <<s, t>> \in Conn}
        BY <1>2, <1>4, <2>1 DEF Reached
    <2>4. /\ IsInjective(m_external_events'[t])
          /\ Range(m_external_events'[t]) = {s \in emitted : <<s, t>> \in Conn}
        BY <2>1, <2>3 DEF Reached
    <2>5. \A s \in Range(m_external_events'[t]) : t \notin m_result'[s]
        BY <1>4, <2>2, <2>4
    <2> QED BY <1>1, <1>4, <2>2, <2>4, <2>5 DEF Reached
<1>6. \A s \in emitted' : m_have_internal'[s]
    BY <1>1, <1>2, <1>3 DEF Delivery, Dispatching
<1> QED BY <1>2, <1>5, <1>6 DEF Delivery, Dispatching

\* A dispatch moves one event from its sender to its target.
LEMMA DispatchDelivery ==
    ASSUME TableInv, Delivery, NEW q \in {dynamics, executives}, Dispatch(q),
           pc \in Dispatching,
           UNCHANGED <<structureVars, pc, i, nb_executive, emitted>>
    PROVE  Delivery'
<1> USE DEF TableInv, structureVars
<1> SUFFICES ASSUME ~threw PROVE Delivery'
    BY DEF Delivery
<1>0. PICK k \in DOMAIN q : \E t \in m_result[q[k]] :
          /\ AddExternal(t, q[k])
          /\ m_result' = [m_result EXCEPT ![q[k]] = @ \ {t}]
    BY DEF Dispatch
<1>1. PICK t \in m_result[q[k]] :
          /\ AddExternal(t, q[k])
          /\ m_result' = [m_result EXCEPT ![q[k]] = @ \ {t}]
    BY <1>0
<1> DEFINE src == q[k]
<1>2. src \in Sim /\ t \in m_simulators /\ t \in Sim /\ t \in m_result[src]
    BY DEF TypeOK, SchedulerTypeOK, Outputs
<1>3. /\ EnterBag(t)
      /\ m_external_events' = [m_external_events EXCEPT ![t] = Append(@, src)]
      /\ UNCHANGED m_have_internal
      /\ m_result' = [m_result EXCEPT ![src] = @ \ {t}]
    BY <1>1 DEF AddExternal
<1> HIDE DEF src
<1>4. /\ m_result \in [Sim -> SUBSET Sim] /\ m_external_events \in [Sim -> Seq(Sim)]
      /\ executives \in Seq(Sim) /\ nb_executive \in Nat
    BY DEF TypeOK, SchedulerTypeOK
<1>5. /\ m_result'[src] = m_result[src] \ {t}
      /\ \A s \in Sim \ {src} : m_result'[s] = m_result[s]
      /\ m_external_events'[t] = Append(m_external_events[t], src)
      /\ \A s \in Sim \ {t} : m_external_events'[s] = m_external_events[s]
    BY <1>2, <1>3, <1>4
<1>6. \A s \in m_simulators : Reached(s)
    BY DEF Delivery
<1>7. Reached(t)'
    <2> DEFINE E == m_external_events[t]
    <2>1. E \in Seq(Sim) /\ src \notin Range(E) /\ IsInjective(E)
        BY <1>2, <1>4, <1>6 DEF Reached
    <2>2. /\ IsInjective(m_external_events'[t])
          /\ Range(m_external_events'[t]) = Range(E) \cup {src}
        BY <1>2, <1>5, <2>1, AppendFresh
    <2>3. \A s \in Sim : t \in m_result'[s] <=> s # src /\ t \in m_result[s]
        BY <1>2, <1>5
    <2>4. /\ Range(E) \cup {s \in Sim : t \in m_result[s]} =
                 {s \in emitted : <<s, t>> \in Conn}
          /\ \A s \in Range(E) : t \notin m_result[s]
          /\ Range(E) \subseteq Sim
        BY <1>2, <1>6, <2>1 DEF Reached, Range
    <2> HIDE DEF E
    <2>5. \A s \in Range(E) \cup {src} : t \notin m_result'[s]
        BY <1>2, <2>3, <2>4
    <2>6. {s \in Sim : t \in m_result[s]} = {s \in Sim : t \in m_result'[s]} \cup {src}
        BY <1>2, <2>3
    <2>7. (Range(E) \cup {src}) \cup {s \in Sim : t \in m_result'[s]} =
              {s \in emitted : <<s, t>> \in Conn}
        BY <2>4, <2>6
    <2> QED BY <2>2, <2>5, <2>7 DEF Reached
<1>8. ASSUME NEW r \in m_simulators, r # t PROVE Reached(r)'
    <2>1. r \in Sim /\ m_external_events'[r] = m_external_events[r] /\ Reached(r)
        BY <1>5, <1>6, <1>8 DEF TypeOK
    <2>2. \A s \in Sim : r \in m_result'[s] <=> r \in m_result[s]
        BY <1>2, <1>5, <1>8
    <2>3. Range(m_external_events[r]) \subseteq Sim
        BY <2>1, <1>4 DEF Range
    <2> QED BY <2>1, <2>2, <2>3 DEF Reached
<1>9. pc = "dispatch_dynamics" =>
          \A l \in 1 .. nb_executive : executives'[l] = executives[l]
    <2>1. executives' = executives \/ executives' = Append(executives, t)
        BY <1>3 DEF EnterBag, bagVars
    <2>2. pc = "dispatch_dynamics" => nb_executive <= Len(executives)
        BY DEF Outputs
    <2>3. CASE executives' = Append(executives, t)
        <3>1. \A l \in 1 .. Len(executives) : executives'[l] = executives[l]
            BY <1>2, <1>4, <2>3
        <3>2. Len(executives) \in Nat
            BY <1>4
        <3> QED BY <1>4, <2>2, <3>1, <3>2
    <2> QED BY <2>1, <2>3
<1> QED BY <1>3, <1>7, <1>8, <1>9 DEF Delivery, Dispatching

\* No step loses or duplicates an event.
LEMMA NextDelivery ==
    ASSUME TableInv, Delivery, [Next]_vars PROVE Delivery'
<1>1. CASE Structure
    <2>1. /\ UNCHANGED <<pc, i, emitted, threw, m_external_events>>
          /\ pc \in {"start", "transition_executives"}
        BY <1>1 DEF Structure, CreateModel, DelModel, Running, schedulerVars
    <2> QED BY <2>1 DEF Delivery, Dispatching
<1>2. CASE LoadModels
    BY <1>2 DEF LoadModels, Delivery, Dispatching
<1>3. CASE Start
    <2>1. /\ pc = "start" /\ pc' = "ready"
          /\ UNCHANGED <<emitted, threw, m_external_events>>
        BY <1>3 DEF Start, StartBag, FillBag, structureVars
    <2>2. ~threw => \A s \in Sim : m_external_events[s] = <<>>
        BY <2>1, NoEvents
    <2> QED BY <2>1, <2>2 DEF Delivery, Dispatching
<1>4. CASE NextBag
    <2>1. /\ pc = "delete" /\ pc' = "ready" /\ emitted' = {}
          /\ UNCHANGED <<threw, m_external_events>>
        BY <1>4 DEF NextBag, MakeNextBag, FillBag, structureVars
    <2>2. ~threw => \A s \in Sim : m_external_events[s] = <<>>
        BY <2>1, NoEvents
    <2> QED BY <2>1, <2>2 DEF Delivery, Dispatching
<1>5. CASE BeginBag \/ OutputExecutives
    BY <1>5, BeginBagDelivery, OutputExecutivesDelivery
<1>6. CASE DispatchDynamics
    BY <1>6, DispatchDelivery DEF DispatchDynamics, Dispatching
<1>7. CASE DispatchExecutives
    BY <1>7, DispatchDelivery DEF DispatchExecutives, Dispatching
<1>8. CASE SortExecutives
    <2>1. /\ pc = "dispatch_executives" /\ pc' = "transition_dynamics"
          /\ UNCHANGED <<emitted, m_have_internal, m_simulators, m_external_events,
                         m_result, threw>>
        BY <1>8 DEF SortExecutives, structureVars
    <2> QED BY <2>1 DEF Delivery, Dispatching, Reached
<1>9. CASE \/ TransitionDynamics \/ TransitionExecutives \/ TransitionThrows
           \/ SwallowedThrow \/ RescheduleDynamics \/ RescheduleExecutives \/ EndLoop
           \/ Observe \/ EatViews \/ EndEat \/ DeleteModel \/ DeleteSimulator \/ Finish
    <2>1. i \in Nat \ {0}
        BY DEF TableInv, TypeOK
    <2>2. pc' \notin {"load", "start", "ready"} \cup Dispatching
        BY <1>9 DEF TransitionDynamics, TransitionExecutives, TransitionThrows,
             SwallowedThrow, RescheduleDynamics, RescheduleExecutives, Reschedule, EndLoop,
             Observe, EatViews, EndEat, DeleteModel, DeleteSimulator, Finish, Dispatching
    <2>3. pc' = "transition_dynamics" => i' # 1
        BY <1>9, <2>1 DEF TransitionDynamics, TransitionExecutives, TransitionThrows,
             SwallowedThrow, RescheduleDynamics, RescheduleExecutives, Reschedule, EndLoop,
             Observe, EatViews, EndEat, DeleteModel, DeleteSimulator, Finish, Transition
    <2> QED BY <2>2, <2>3, DeliveryElsewhere
<1>10. CASE Terminated \/ UNCHANGED vars
    BY <1>10 DEF Terminated, vars, coordinatorVars, schedulerVars, bagVars, Delivery,
                 Dispatching, Reached
<1> QED
    BY <1>1, <1>2, <1>3, <1>4, <1>5, <1>6, <1>7, <1>8, <1>9, <1>10 DEF Next, Run

\* When the transitions of a bag begin, every event output in the bag has
\* reached each of its targets once, and no simulator has another one.
THEOREM EventsAreDelivered == Spec => []EventsDelivered
<1>1. Init => Delivery
    BY DEF Init, Delivery, Dispatching
<1>2. TableInv /\ Delivery /\ [Next]_vars => Delivery'
    BY NextDelivery
<1>3. TableInv /\ Delivery => EventsDelivered
    <2> SUFFICES ASSUME TableInv, Delivery, pc = "transition_dynamics", i = 1, ~threw
                 PROVE  /\ \A s \in emitted : m_have_internal[s]
                        /\ \A t \in m_simulators :
                               /\ IsInjective(m_external_events[t])
                               /\ Range(m_external_events[t]) =
                                      {s \in emitted : <<s, t>> \in Conn}
        BY DEF EventsDelivered
    <2>1. \A s \in Sim : m_result[s] = {}
        BY DEF TableInv, Outputs, Dispatched
    <2> QED BY <2>1 DEF Delivery, Reached
<1> QED BY <1>1, <1>2, <1>3, TableInvariant, PTL DEF Spec

-----------------------------------------------------------------------------
(* Implementation of Devs *)

\* The steps that leave the heap, the dates and the bag alone.
LEMMA BagDatesKept ==
    ASSUME BagDates, m_scheduler' \subseteq m_scheduler, UNCHANGED m_current_time,
           threw' = threw \/ pc' = "failed" \/ (Parallel /\ pc' = "transition_dynamics"),
           \/ pc \notin {"load", "start", "ready", "ended"} /\ pc' \notin {"load", "start"}
           \/ pc' = pc \/ (pc = "ready" /\ pc' = "ended"),
           ~(pc = "failed" /\ pc' # "failed"),
           \/ pc' \notin {"ready"} \cup Dispatching
           \/ pc \in {"ready"} \cup Dispatching
              /\ UNCHANGED <<m_simulators, m_tn, m_have_internal, threw>>
    PROVE  BagDates'
BY DEF BagDates, Dispatching

\* The next date is that of the first living simulators to wake up.
LEMMA NextIsLeast ==
    ASSUME TableInv, BagDates, pc = "delete"
    PROVE  /\ GetNextTime \in Time /\ GetNextTime >= m_current_time
           /\ \A s \in m_simulators : GetNextTime <= m_tn[s]
           /\ GetNextTime < Infinity =>
                  \E s \in m_simulators : m_tn[s] = GetNextTime
<1> USE DEF TableInv
<1> DEFINE t == GetNextTime
<1>1. /\ t \in Time /\ \A n \in m_scheduler : t <= n[2]
      /\ m_scheduler # {} => \E n \in m_scheduler : n[2] = t
      /\ m_scheduler = {} => t = Infinity
    BY NextTime
<1> HIDE DEF t
<1>2. /\ t \in Int /\ t <= Infinity /\ m_current_time \in Int /\ m_current_time <= Infinity
    BY <1>1, Dates1 DEF TypeOK, SchedulerTypeOK, Time, NegativeInfinity
<1>3. t >= m_current_time
    <2>1. CASE m_scheduler = {}
        BY <1>1, <1>2, <2>1
    <2>2. CASE m_scheduler # {}
        BY <1>1, <2>2 DEF EventTableConsistent
    <2> QED BY <2>1, <2>2
<1>4. ASSUME NEW s \in m_simulators PROVE t <= m_tn[s]
    <2>1. m_tn[s] \in Int /\ m_tn[s] # NoHandle /\ s \in Sim
        BY Dates1 DEF Living, Time, NoHandle, TypeOK
    <2>2. CASE m_tn[s] < Infinity
        <3>1. Unplanned = {} /\ pc \notin Stopped
            BY DEF Unplanned, Stopped
        <3>2. m_handle[s] = m_tn[s]
            BY <2>2, <3>1 DEF Planned
        <3>3. <<s, m_tn[s]>> \in m_scheduler /\ <<s, m_tn[s]>>[2] = m_tn[s]
            BY <2>1, <3>2 DEF EventTableConsistent, HaveHandle
        <3> QED BY <1>1, <3>3
    <2>3. CASE ~(m_tn[s] < Infinity)
        BY <1>2, <2>1, <2>3, Dates1
    <2> QED BY <2>2, <2>3
<1>5. ASSUME t < Infinity PROVE \E s \in m_simulators : m_tn[s] = t
    <2>1. PICK n \in m_scheduler : n[2] = t
        BY <1>1, <1>2, <1>5, Dates1
    <2> QED BY <2>1 DEF EventTableConsistent
<1> QED BY <1>1, <1>3, <1>4, <1>5 DEF t

\* The simulators of a new bag are the living ones that are due.
LEMMA DueIsDue ==
    ASSUME TableInv, BagDates, pc \in {"start", "delete"}, NEW t \in Time
    PROVE  Due(t) = {s \in m_simulators : m_tn[s] <= t /\ m_tn[s] < Infinity}
<1> USE DEF TableInv
<1>1. ASSUME NEW s \in Due(t)
      PROVE  s \in m_simulators /\ m_tn[s] <= t /\ m_tn[s] < Infinity
    <2>1. PICK n \in m_scheduler : n[1] = s /\ n[2] <= t
        BY DEF Due
    <2> QED BY <2>1 DEF EventTableConsistent, BagDates
<1>2. ASSUME NEW s \in m_simulators, m_tn[s] <= t, m_tn[s] < Infinity
      PROVE  s \in Due(t)
    <2>1. m_tn[s] \in Int /\ m_tn[s] # NoHandle /\ s \in Sim
        BY Dates1 DEF Living, Time, NoHandle, TypeOK
    <2>2. Unplanned = {} /\ pc \notin Stopped
        BY DEF Unplanned, Stopped
    <2>3. m_handle[s] = m_tn[s]
        BY <1>2, <2>2 DEF Planned
    <2>4. /\ <<s, m_tn[s]>> \in m_scheduler
          /\ <<s, m_tn[s]>>[1] = s /\ <<s, m_tn[s]>>[2] = m_tn[s]
        BY <2>1, <2>3 DEF EventTableConsistent, HaveHandle
    <2> QED BY <1>2, <2>4 DEF Due
<1> QED BY <1>1, <1>2

\* The first bag and the next one.
LEMMA FillBagDates ==
    ASSUME TableInv, BagDates, NEW t \in Time, FillBag(t), t >= Begin,
           pc \in {"start", "delete"}, pc' = "ready",
           UNCHANGED <<m_simulators, threw>>
    PROVE  BagDates' /\ (~threw => Pending = {} /\ Pending' = Due(t))
<1> USE DEF TableInv
<1>1. /\ m_current_time' = t
      /\ Due(t) \subseteq m_simulators
      /\ \A s \in Due(t) : m_have_internal'[s] /\ m_tn[s] <= t
      /\ \A s \in Sim \ Due(t) : m_have_internal'[s] = m_have_internal[s]
      /\ UNCHANGED <<m_tn, m_external_events>>
    BY FillBagFacts
<1>2. m_scheduler' \subseteq m_scheduler
    BY DEF FillBag
<1>3. ~threw => Pending = {}
    BY DEF Processing, Waiting
<1>4. ~threw => Pending' = Due(t)
    BY <1>1, <1>3 DEF Pending, HaveExternalEvents, TypeOK
<1>5. ~threw => \A s \in m_simulators : m_have_internal'[s] => s \in Due(t)
    BY <1>4 DEF Pending, TypeOK
<1> QED BY <1>1, <1>2, <1>3, <1>4, <1>5 DEF BagDates

\* The dates of the bag are kept by every step.
LEMMA NextBagDates ==
    ASSUME TableInv, BagDates, [Next]_vars PROVE BagDates'
<1> USE DEF TableInv
<1>1. CASE LoadModels \/ \E e \in Exec, m \in Model : CreateModel(e, m)
    <2>1. PICK S \in SUBSET Sim : AddSimulators(S)
        BY <1>1 DEF LoadModels, CreateModel, Atoms
    <2>2. PICK ta \in [S -> TimeAdvance] : m_scheduler' = m_scheduler \cup
              {<<s, Plus(m_currentTime, ta[s])>> : s \in
                   {r \in S : Plus(m_currentTime, ta[r]) < Infinity}}
        BY <2>1 DEF AddSimulators
    <2>3. \A n \in m_scheduler' : n[2] < Infinity
        BY <2>2 DEF BagDates
    <2>4. /\ UNCHANGED <<m_current_time, threw>>
          /\ \/ pc = "load" /\ pc' = "start"
             \/ pc \in {"start", "transition_executives"} /\ pc' = pc
        BY <1>1 DEF LoadModels, CreateModel, Running
    <2> QED BY <2>3, <2>4 DEF BagDates, Dispatching
<1>2. ASSUME NEW e \in Exec, NEW m \in Model, DelModel(e, m) PROVE BagDates'
    <2>1. /\ UNCHANGED <<schedulerVars, m_simulators, pc, threw>>
          /\ pc \in {"start", "transition_executives"}
        BY <1>2 DEF DelModel, Running
    <2> QED BY <2>1, BagDatesKept DEF schedulerVars, heapVars, Dispatching
<1>3. CASE Start
    BY <1>3, FillBagDates, Dates1 DEF Start, StartBag, structureVars
<1>4. CASE NextBag
    <2>1. /\ pc = "delete" /\ pc' = "ready" /\ FillBag(GetNextTime)
          /\ UNCHANGED <<m_simulators, threw>>
        BY <1>4 DEF NextBag, MakeNextBag, structureVars
    <2>2. GetNextTime \in Time /\ GetNextTime >= m_current_time
        BY <2>1, NextIsLeast
    <2>3. GetNextTime >= Begin
        BY <2>1, <2>2, Dates1 DEF BagDates, Time, TypeOK, SchedulerTypeOK, NegativeInfinity
    <2> QED BY <2>1, <2>2, <2>3, FillBagDates
<1>5. CASE BeginBag
    <2>1. /\ pc = "ready" /\ pc' = "dispatch_dynamics" /\ m_current_time <= Duration
          /\ UNCHANGED <<schedulerVars, m_simulators, threw>>
        BY <1>5, Dates1 DEF BeginBag, Over, structureVars, Clock, Stopped, TypeOK, Time
    <2> QED BY <2>1 DEF BagDates, Dispatching, schedulerVars, heapVars
<1>6. CASE DispatchDynamics \/ DispatchExecutives
    <2>1. PICK q \in {dynamics, executives} : Dispatch(q)
        BY <1>6 DEF DispatchDynamics, DispatchExecutives
    <2>2. PICK k \in DOMAIN q : \E t \in m_result[q[k]] : AddExternal(t, q[k])
        BY <2>1 DEF Dispatch
    <2>3. /\ m_scheduler' \subseteq m_scheduler
          /\ UNCHANGED <<m_current_time, m_tn, m_have_internal>>
        BY <2>2 DEF AddExternal, EraseNode, heapVars
    <2>4. pc \in Dispatching /\ UNCHANGED <<pc, m_simulators, threw>>
        BY <1>6 DEF DispatchDynamics, DispatchExecutives, structureVars, Dispatching
    <2> QED BY <2>3, <2>4, BagDatesKept DEF Dispatching
<1>7. CASE OutputExecutives \/ SortExecutives
    <2>1. /\ pc \in Dispatching
          /\ pc' \in Dispatching \/ pc' = "transition_dynamics"
          /\ UNCHANGED <<m_scheduler, m_current_time, m_tn, m_have_internal,
                         m_simulators, threw>>
        BY <1>7 DEF OutputExecutives, SortExecutives, structureVars, schedulerVars,
                    heapVars, Dispatching
    <2> QED BY <2>1, BagDatesKept DEF Dispatching
<1>8. CASE TransitionDynamics \/ TransitionExecutives
    BY <1>8, BagDatesKept DEF TransitionDynamics, TransitionExecutives, heapVars,
         structureVars, Dispatching
<1>9. CASE TransitionThrows
    BY <1>9, BagDatesKept DEF TransitionThrows, schedulerVars, heapVars, Dispatching
<1>10. CASE SwallowedThrow
    BY <1>10, BagDatesKept DEF SwallowedThrow, heapVars, Dispatching
<1>11. CASE RescheduleDynamics \/ RescheduleExecutives
    <2>1. /\ pc \in {"schedule_dynamics", "schedule_executives"}
          /\ \E s \in {dynamics[i], executives[i]} : Reschedule(s)
        BY <1>11 DEF RescheduleDynamics, RescheduleExecutives
    <2>2. PICK s \in {dynamics[i], executives[i]} : Reschedule(s)
        BY <2>1
    <2>3. \A n \in m_scheduler' : n[2] < Infinity
        BY <2>2 DEF Reschedule, AddInternal, heapVars, BagDates
    <2>4. UNCHANGED <<m_current_time, pc, threw>>
        BY <2>2 DEF Reschedule, structureVars
    <2> QED BY <2>1, <2>3, <2>4 DEF BagDates, Dispatching
<1>12. CASE EndLoop \/ Observe \/ EatViews \/ EndEat \/ Finish
    <2>1. /\ UNCHANGED <<m_scheduler, m_current_time, threw>>
          /\ \/ pc \notin {"load", "start", "ready", "ended", "failed"}
                /\ pc' \notin {"load", "start", "ready"} \cup Dispatching
             \/ pc = "ready" /\ pc' = "ended"
        BY <1>12 DEF EndLoop, Observe, EatViews, EndEat, Finish, schedulerVars, heapVars,
             structureVars, Dispatching
    <2> QED BY <2>1, BagDatesKept DEF Dispatching
<1>13. CASE DeleteModel \/ DeleteSimulator
    <2>1. /\ m_scheduler' \subseteq m_scheduler /\ UNCHANGED <<m_current_time, threw>>
          /\ pc = "delete" /\ pc' \in {"delete", "undefined"}
        BY <1>13 DEF DeleteModel, DeleteSimulator, DelSimulator, EraseNode, schedulerVars,
             heapVars
    <2> QED BY <2>1, BagDatesKept DEF Dispatching
<1>14. CASE Terminated \/ UNCHANGED vars
    BY <1>14, BagDatesKept DEF Terminated, vars, coordinatorVars, schedulerVars, heapVars
<1> QED
    BY <1>1, <1>2, <1>3, <1>4, <1>5, <1>6, <1>7, <1>8, <1>9, <1>10, <1>11, <1>12,
       <1>13, <1>14 DEF Next, Run, Structure

\* Without a pool, exactly the simulators of the bag whose transition is to
\* come are pending.
LEMMA PendingIsWaiting ==
    ASSUME TableInv, BagDates, ~Parallel, pc # "failed"
    PROVE  Pending = Waiting /\ ~threw
BY DEF TableInv, Processing, BagDates

\* New simulators are models created at the present date.
LEMMA AddSimulatorsDevs ==
    ASSUME TableInv, BagDates, NEW S \in SUBSET Sim, AddSimulators(S),
           UNCHANGED m_current_time,
           pc \in {"load", "start", "transition_executives"},
           \A s \in S : m_tn[s] = NegativeInfinity,
           UNCHANGED <<m_have_internal, m_external_events, Stage>>
    PROVE  Abstract!Create
<1> USE DEF TableInv
<1>1. /\ m_current_time <= m_currentTime /\ m_currentTime >= Begin
      /\ m_currentTime \in Int /\ m_current_time \in Int
    BY Dates1 DEF Clock, BagDates, Stopped, TypeOK, SchedulerTypeOK, Time, NegativeInfinity
<1>2. /\ m_tn' \in [Sim -> Time \cup {NegativeInfinity}]
      /\ m_simulators' = m_simulators \cup S
      /\ \A s \in Sim \ S : m_tn'[s] = m_tn[s]
      /\ \A s \in S : m_tn'[s] \in Time /\ m_tn'[s] >= m_currentTime
    BY <1>1, AddSimulatorsFacts
<1>3. Stage # "emit"
    BY DEF Stage
<1>4. m_tn' \in [Sim -> -1 .. Infinity]
    <2>1. Time \cup {NegativeInfinity} \subseteq -1 .. Infinity
        BY Dates1 DEF Time, NegativeInfinity
    <2> QED BY <1>2, <2>1
<1>5. S \in SUBSET {s \in Sim : m_tn[s] = -1}
    BY DEF NegativeInfinity
<1>6. \A s \in S : m_tn'[s] \in m_current_time .. Infinity /\ m_tn'[s] >= Begin
    <2> SUFFICES ASSUME NEW s \in S
                 PROVE  m_tn'[s] \in m_current_time .. Infinity /\ m_tn'[s] >= Begin
        OBVIOUS
    <2>1. m_tn'[s] \in Int /\ m_tn'[s] <= Infinity /\ m_tn'[s] >= m_currentTime
        BY <1>2, Dates1 DEF Time
    <2> QED BY <1>1, <2>1, Dates1
<1>7. UNCHANGED <<m_current_time, Pending, Stage>>
    BY DEF Pending, HaveExternalEvents
<1> QED BY <1>2, <1>3, <1>4, <1>5, <1>6, <1>7 DEF Abstract!Create, Abstract!Unborn

\* The first bag opens the simulation of DEVS.
LEMMA StartDevs ==
    ASSUME TableInv, BagDates, ~Parallel, Start PROVE Abstract!Open
<1>1. /\ pc = "start" /\ pc' = "ready" /\ FillBag(Begin)
      /\ UNCHANGED <<m_simulators, threw>>
    BY DEF Start, StartBag, structureVars
<1>2. ~threw
    BY <1>1, PendingIsWaiting
<1>3. Pending' = Due(Begin)
    BY <1>1, <1>2, Dates1, FillBagDates
<1>4. Due(Begin) = {s \in m_simulators : m_tn[s] <= Begin /\ m_tn[s] < Infinity}
    BY <1>1, Dates1, DueIsDue
<1>5. \A s \in m_simulators : m_tn[s] <= Begin => m_tn[s] < Infinity
    BY CoordinatorAssumption, Dates1 DEF TableInv, Living, Time
<1>6. UNCHANGED m_tn /\ m_current_time' = Begin /\ Stage = "setup" /\ Stage' = "emit"
    BY <1>1 DEF FillBag, Stage
<1> QED BY <1>1, <1>3, <1>4, <1>5, <1>6 DEF Abstract!Open

\* The next bag is the advance of DEVS to the least date.
LEMMA NextBagDevs ==
    ASSUME TableInv, BagDates, ~Parallel, NextBag PROVE Abstract!Advance
<1> DEFINE t == GetNextTime
<1>1. /\ pc = "delete" /\ pc' = "ready" /\ FillBag(t)
      /\ UNCHANGED <<m_simulators, threw>>
    BY DEF NextBag, MakeNextBag, structureVars
<1>2. /\ t \in Time /\ t >= m_current_time
      /\ \A s \in m_simulators : t <= m_tn[s]
      /\ t < Infinity => \E s \in m_simulators : m_tn[s] = t
    BY <1>1, NextIsLeast
<1>3. Pending = Waiting /\ ~threw /\ Waiting = {}
    BY <1>1, PendingIsWaiting DEF Waiting
<1> HIDE DEF t
<1>4. t \in Int /\ t <= Infinity /\ m_current_time \in Int /\ m_current_time >= Begin
      /\ m_current_time <= Duration
    BY <1>1, <1>2, Dates1
       DEF BagDates, TableInv, TypeOK, SchedulerTypeOK, Time, NegativeInfinity
<1>5. Pending' = Due(t)
    BY <1>1, <1>2, <1>3, <1>4, Dates1, FillBagDates
<1>6. Due(t) = {s \in m_simulators : m_tn[s] <= t /\ m_tn[s] < Infinity}
    BY <1>1, <1>2, DueIsDue
<1>7. \A s \in m_simulators : m_tn[s] <= t /\ m_tn[s] < Infinity <=>
                              m_tn[s] = t /\ t < Infinity
    <2>1. \A s \in m_simulators : m_tn[s] \in Int
        BY Dates1 DEF TableInv, Living, Time
    <2> QED BY <1>2, <1>4, <2>1
<1>8. /\ UNCHANGED m_tn /\ m_current_time' = t /\ Stage = "move" /\ Stage' = "emit"
    BY <1>1 DEF FillBag, Stage
<1>9. t = Infinity \/ \E s \in m_simulators : m_tn[s] = t
    BY <1>2, <1>4, Dates1
<1>10. t \in m_current_time .. Infinity
    BY <1>2, <1>4, Dates1
<1> QED BY <1>1, <1>2, <1>3, <1>4, <1>5, <1>6, <1>7, <1>8, <1>9, <1>10
        DEF Abstract!Advance

\* A dispatch gives the outputs to the influenced models.
LEMMA DispatchDevs ==
    ASSUME TableInv, BagDates, Delivery, ~Parallel,
           NEW q \in {dynamics, executives}, Dispatch(q), pc \in Dispatching,
           UNCHANGED <<pc, m_simulators>>
    PROVE  Abstract!Influence
<1> USE DEF TableInv
<1>0. PICK k \in DOMAIN q : \E t \in m_result[q[k]] : AddExternal(t, q[k])
    BY DEF Dispatch
<1>1. PICK t \in m_result[q[k]] : AddExternal(t, q[k])
    BY <1>0
<1> DEFINE src == q[k]
<1>2. src \in Sim /\ t \in m_simulators /\ t \in Sim /\ t \in m_result[src]
    BY DEF TypeOK, SchedulerTypeOK, Outputs
<1>3. /\ m_external_events' = [m_external_events EXCEPT ![t] = Append(@, src)]
      /\ UNCHANGED <<m_current_time, m_tn, m_have_internal>>
    BY <1>1 DEF AddExternal
<1> HIDE DEF src
<1>4. Pending = Waiting /\ ~threw /\ Waiting = unique_simulators
    BY PendingIsWaiting DEF Waiting, Dispatching
<1>5. src \in emitted /\ m_have_internal[src]
    BY <1>2, <1>4 DEF Delivery, Reached
<1>6. src \in m_simulators /\ m_tn[src] <= m_current_time
    BY <1>2, <1>4, <1>5 DEF Pending, Living, BagDates
<1>7. Pending' = Pending \cup {t}
    <2> DEFINE a == Append(m_external_events[t], src)
    <2>1. m_external_events \in [Sim -> Seq(Sim)]
        BY DEF TypeOK, SchedulerTypeOK
    <2>2. m_external_events[t] \in Seq(Sim)
        BY <1>2, <2>1
    <2>3. a # <<>>
        BY <1>2, <2>2
    <2>4. m_external_events' = [m_external_events EXCEPT ![t] = a]
        BY <1>2, <1>3
    <2> HIDE DEF a
    <2>5. /\ m_external_events'[t] # <<>>
          /\ \A s \in Sim \ {t} : m_external_events'[s] = m_external_events[s]
        BY <1>2, <2>1, <2>3, <2>4
    <2> QED BY <1>2, <1>3, <2>5 DEF Pending, HaveExternalEvents
<1>8. Stage = "emit" /\ Stage' = "emit"
    BY DEF Stage, Dispatching
<1> QED BY <1>2, <1>3, <1>6, <1>7, <1>8 DEF Abstract!Influence

\* A transition of the loop is a transition of DEVS.
LEMMA TransitionDevs ==
    ASSUME TableInv, BagDates, ~Parallel, TransitionDynamics \/ TransitionExecutives
    PROVE  Abstract!Move
<1> USE DEF TableInv
<1>1. PICK s \in Sim :
          /\ Transition(s) /\ s \in Waiting /\ (s \in Exec => Waiting \subseteq Exec)
    <2>1. i \in Nat \ {0} /\ dynamics \in Seq(Sim) /\ executives \in Seq(Sim)
        BY DEF TypeOK, SchedulerTypeOK
    <2>2. CASE TransitionDynamics
        <3>1. /\ pc = "transition_dynamics" /\ i <= Len(dynamics) /\ Transition(dynamics[i])
              /\ i' = i + 1
            BY <2>2 DEF TransitionDynamics, Transition
        <3>2. /\ dynamics[i] \in Sim /\ dynamics[i] \in Suffix(dynamics)
              /\ dynamics[i] \in Range(dynamics)
            BY <2>1, <3>1, SuffixStep
        <3>3. dynamics[i] \notin Exec
            BY <3>1, <3>2 DEF Vectors
        <3> QED BY <3>1, <3>2, <3>3 DEF Waiting
    <2>3. CASE TransitionExecutives
        <3>1. /\ pc = "transition_executives" /\ i <= Len(executives)
              /\ Transition(executives[i]) /\ i' = i + 1
            BY <2>3 DEF TransitionExecutives, Transition
        <3>2. /\ executives[i] \in Sim /\ executives[i] \in Suffix(executives)
              /\ Suffix(executives) \subseteq Range(executives)
            BY <2>1, <3>1, SuffixStep
        <3>3. Waiting = Suffix(executives) /\ Range(executives) \subseteq Exec
            BY <3>1 DEF Waiting, Vectors
        <3> QED BY <3>1, <3>2, <3>3
    <2> QED BY <2>2, <2>3
<1>2. /\ pc \in {"transition_dynamics", "transition_executives"}
      /\ UNCHANGED <<pc, m_current_time, m_simulators>>
    BY DEF TransitionDynamics, TransitionExecutives, structureVars
<1>3. PICK ta \in TimeAdvance : m_tn' = [m_tn EXCEPT ![s] = Plus(m_currentTime, ta)]
    BY <1>1 DEF Transition
<1>4. /\ m_have_internal' = [m_have_internal EXCEPT ![s] = FALSE]
      /\ m_external_events' = [m_external_events EXCEPT ![s] = <<>>]
    BY <1>1 DEF Transition
<1> DEFINE d == Plus(m_currentTime, ta)
<1>5. d \in m_current_time .. Infinity
    <2>1. d \in Time /\ d >= m_currentTime /\ m_currentTime = m_current_time
        BY <1>2, Dates1 DEF TypeOK, Clock, Stopped
    <2> HIDE DEF d
    <2> QED BY <2>1, Dates1 DEF Time, TypeOK
<1> HIDE DEF d
<1>6. \E t \in m_current_time .. Infinity : m_tn' = [m_tn EXCEPT ![s] = t]
    BY <1>3, <1>5 DEF d
<1>7. Pending = Waiting
    BY <1>2, PendingIsWaiting
<1>8. Pending' = Pending \ {s}
    <2>1. \A r \in Sim \ {s} : m_have_internal'[r] = m_have_internal[r]
                               /\ m_external_events'[r] = m_external_events[r]
        BY <1>4 DEF TypeOK, SchedulerTypeOK
    <2>2. m_have_internal'[s] = FALSE /\ m_external_events'[s] = <<>>
        BY <1>4 DEF TypeOK, SchedulerTypeOK
    <2> QED BY <2>1, <2>2 DEF Pending, HaveExternalEvents
<1>9. Stage = "move" /\ Stage' = "move"
    BY <1>2 DEF Stage
<1> QED BY <1>1, <1>2, <1>6, <1>7, <1>8, <1>9 DEF Abstract!Move

\* Every step of the simulation loop is a step of Devs or leaves its state
\* unchanged.
LEMMA NextDevs ==
    ASSUME TableInv, BagDates, Delivery, ~Parallel, [Next]_vars
    PROVE  [Abstract!DevsNext]_(Abstract!devsVars)
<1> USE DEF Abstract!DevsNext, Abstract!devsVars
<1>1. CASE LoadModels
    <2>1. \A s \in Sim : m_tn[s] = NegativeInfinity
        BY <1>1 DEF LoadModels, TableInv, Living
    <2>2. UNCHANGED Stage /\ Initial \cap Sim \in SUBSET Sim
        BY <1>1 DEF LoadModels, Stage
    <2>3. Abstract!Create
        BY <1>1, <2>1, <2>2, AddSimulatorsDevs DEF LoadModels
    <2> QED BY <2>3
<1>2. ASSUME NEW e \in Exec, NEW m \in Model, CreateModel(e, m)
      PROVE  Abstract!Create
    <2>1. Atoms(m) \in SUBSET Sim /\ \A s \in Atoms(m) : m_tn[s] = NegativeInfinity
        BY <1>2 DEF CreateModel, Fresh, Atoms
    <2>2. UNCHANGED Stage /\ pc \in {"start", "transition_executives"}
        BY <1>2 DEF CreateModel, Running, Stage
    <2> QED BY <1>2, <2>1, <2>2, AddSimulatorsDevs DEF CreateModel
<1>3. CASE Start
    BY <1>3, StartDevs
<1>4. CASE NextBag
    BY <1>4, NextBagDevs
<1>5. CASE DispatchDynamics
    BY <1>5, DispatchDevs DEF DispatchDynamics, Dispatching, structureVars
<1>6. CASE DispatchExecutives
    BY <1>6, DispatchDevs DEF DispatchExecutives, Dispatching, structureVars
<1>7. CASE SortExecutives
    BY <1>7 DEF SortExecutives, structureVars, Abstract!Seal, Stage, Pending,
         HaveExternalEvents
<1>8. CASE TransitionDynamics \/ TransitionExecutives
    BY <1>8, TransitionDevs
<1>9. CASE DeleteSimulator
    <2>1. PICK s \in lst : m_simulators' = m_simulators \ {s}
        BY <1>9 DEF DeleteSimulator
    <2>2. /\ pc = "delete" /\ s \in m_simulators
          /\ UNCHANGED <<pc, m_current_time, m_tn, m_have_internal, m_external_events>>
        BY <1>9 DEF DeleteSimulator, DelSimulator, TableInv, Nodes
    <2>3. Pending = {} /\ Pending' = Pending /\ Stage = "move" /\ Stage' = "move"
        BY <2>2, PendingIsWaiting DEF Waiting, Pending, HaveExternalEvents, Stage
    <2>4. Abstract!Delete
        BY <2>1, <2>2, <2>3 DEF Abstract!Delete
    <2> QED BY <2>4
<1>10. CASE \/ BeginBag \/ OutputExecutives \/ TransitionThrows \/ RescheduleDynamics
            \/ RescheduleExecutives \/ EndLoop \/ Observe \/ EatViews \/ EndEat
            \/ DeleteModel \/ Finish \/ Terminated \/ UNCHANGED vars
            \/ \E e \in Exec, m \in Model : DelModel(e, m)
    <2>1. /\ UNCHANGED <<m_current_time, m_simulators, m_tn, m_have_internal,
                         m_external_events>>
          /\ Stage' = Stage
        BY <1>10 DEF BeginBag, OutputExecutives, TransitionThrows, RescheduleDynamics,
             RescheduleExecutives, Reschedule, EndLoop, Observe, EatViews, EndEat,
             DeleteModel, Finish, Terminated, DelModel, vars, coordinatorVars,
             schedulerVars, structureVars, Stage
    <2> QED BY <2>1 DEF Pending, HaveExternalEvents
<1>11. CASE SwallowedThrow
    BY <1>11 DEF SwallowedThrow
<1> QED
    BY <1>1, <1>2, <1>3, <1>4, <1>5, <1>6, <1>7, <1>8, <1>9, <1>10, <1>11
       DEF Next, Run, Structure

\* Without the thread pool, whose swallowed exceptions repeat or lose a
\* transition, the simulation loop implements parallel DEVS with dynamic
\* structure, whatever its models do.
THEOREM LoopImplementsDevs == ~Parallel => (Spec => ImplementsDevs)
<1> SUFFICES ASSUME ~Parallel PROVE Spec => ImplementsDevs
    OBVIOUS
<1>1. Init => Abstract!DevsInit
    BY DEF Init, SchedulerInit, Abstract!DevsInit, Abstract!Unborn, NegativeInfinity,
         Pending, HaveExternalEvents, Stage
<1>2. Init => BagDates /\ Delivery
    BY DEF Init, SchedulerInit, BagDates, Delivery, Dispatching
<1>3. TableInv /\ BagDates /\ [Next]_vars => BagDates'
    BY NextBagDates
<1>4. TableInv /\ Delivery /\ [Next]_vars => Delivery'
    BY NextDelivery
<1>5. TableInv /\ BagDates /\ Delivery /\ [Next]_vars
          => [Abstract!DevsNext]_(Abstract!devsVars)
    BY NextDevs
<1> QED
    BY <1>1, <1>2, <1>3, <1>4, <1>5, TableInvariant, PTL
       DEF Spec, ImplementsDevs, Abstract!DevsSpec

-----------------------------------------------------------------------------
(* What the views of a simulation are told: the calls of every bag for the *)
(* event views, the dates of the observations for the timed views.         *)

Silent == {"load", "start", "ready", "ended", "eat", "delete", "undefined"}

\* The calls observed before the transition of s, and after it.
Before(s) == IF m_have_internal[s] THEN Told(<<>>, s, "output") ELSE <<>>
After(s) == {Told(Told(<<>>, s, "output"), s, "internal"),
             Told(Told(<<>>, s, "output"), s, "confluent"),
             Told(<<>>, s, "external")}

\* The calls of a bag: the outputs of the dynamics, then those of the
\* executives, then the transition of each simulator of the bag.
Calls ==
    /\ pc \in Silent => \A s \in Sim : m_observations[s] = <<>>
    /\ pc = "dispatch_dynamics" =>
           /\ \A s \in Sim : m_observations[s] = IF s \in Exec THEN <<>> ELSE Before(s)
           /\ {executives[k] : k \in 1 .. nb_executive} =
                  {s \in Exec : m_have_internal[s]}
    /\ pc \notin Silent \cup {"dispatch_dynamics", "failed"} =>
           /\ \A s \in Waiting : m_observations[s] = Before(s)
           /\ \A s \in unique_simulators \ Waiting : m_observations[s] \in After(s)
           /\ \A s \in Sim \ unique_simulators : m_observations[s] = <<>>


\* No executive deletes a model (the deletion of the simulator that sets the
\* next date lets timed views miss dates, see the run delete_views), and the
\* date infinity is above the dates of the views.
Undisturbed ==
    /\ Deletable = {}
    /\ \A v \in TView : Duration + Timestep[v] <= Infinity

\* The timed views have been finished: no bag is left before the end.
Done ==
    \/ pc \in {"ready", "ended"} /\ m_current_time > Duration
    \/ pc = "delete" /\ GetNextTime > Duration

\* A view was run at every multiple of its time step; its pending date is
\* the next one.
Regular(v) ==
    /\ m_observation[v] = Begin + Len(observed[v]) * Timestep[v]
    /\ \A k \in 1 .. Len(observed[v]) :
           /\ observed[v][k] = Begin + (k - 1) * Timestep[v]
           /\ observed[v][k] < Duration

\* The view was run for the last time at the end of the simulation.
Finished(v) ==
    LET n == Len(observed[v]) IN
    /\ n > 0 /\ observed[v][n] = Duration
    /\ \A k \in 1 .. n - 1 :
           observed[v][k] = Begin + (k - 1) * Timestep[v] /\ observed[v][k] < Duration
    /\ Begin + (n - 1) * Timestep[v] >= Duration

\* The views are run up to the date of the bag, and up to the next one when
\* it is about to be built.
Views ==
    /\ m_delete_model = <<>> /\ lst = {}
    /\ IF Done THEN \A v \in TView : Finished(v)
               ELSE \A v \in TView : Regular(v) /\ m_observation[v] >= m_current_time
    /\ pc = "delete" /\ ~Done => \A v \in TView : m_observation[v] >= GetNextTime
    /\ pc = "ended" => Done
    /\ pc = "eat" => GetNextTime > m_current_time

-----------------------------------------------------------------------------
(* Event views *)

\* The phases in which the simulators of the bag make their transitions.
Telling == {"dispatch_executives", "transition_dynamics", "schedule_dynamics",
            "transition_executives", "schedule_executives", "observe"}

\* Steps between two bags, or that leave the observations alone.
LEMMA CallsKept ==
    ASSUME TableInv, BagDates, TableInv', BagDates', Calls, ~Parallel,
           UNCHANGED m_observations,
           \/ pc \in Silent /\ pc' \in Silent
           \/ /\ pc \in Telling /\ pc' \in Telling
              /\ UNCHANGED <<unique_simulators, m_have_internal, Pending>>
    PROVE  Calls'
<1>1. CASE pc \in Silent /\ pc' \in Silent
    BY <1>1 DEF Calls, Silent
<1>2. CASE /\ pc \in Telling /\ pc' \in Telling
           /\ UNCHANGED <<unique_simulators, m_have_internal, Pending>>
    <2>1. Waiting' = Waiting
        <3>1. Pending = Waiting
            BY <1>2, PendingIsWaiting DEF Telling
        <3>2. pc' # "failed"
            BY <1>2 DEF Telling
        <3>3. (Pending = Waiting)'
            BY <3>2 DEF TableInv, Processing, BagDates
        <3> QED BY <1>2, <3>1, <3>3
    <2> QED BY <1>2, <2>1 DEF Calls, Telling, Silent, Before, After
<1> QED BY <1>1, <1>2

\* The outputs of the dynamics are told to the event views.
LEMMA BeginBagCalls ==
    ASSUME TableInv, BagDates, Calls, ~Parallel, BeginBag PROVE Calls'
<1> USE DEF TableInv
<1> DEFINE imminent == {dynamics[k] : k \in 1 .. Len(dynamics)}
<1>1. /\ m_observations' = [s \in Sim |->
             IF s \in imminent THEN Observed(s, "output") ELSE m_observations[s]]
      /\ pc = "ready" /\ pc' = "dispatch_dynamics" /\ nb_executive' = Len(executives)
      /\ UNCHANGED <<executives, m_have_internal>>
    BY DEF BeginBag, Output, schedulerVars, bagVars
<1>2. /\ dynamics \in Seq(Sim) /\ executives \in Seq(Sim)
      /\ Range(dynamics) = unique_simulators \ Exec
      /\ Range(executives) = unique_simulators \cap Exec
    BY <1>1 DEF Vectors, TypeOK, SchedulerTypeOK
<1>3. /\ imminent = Range(dynamics)
      /\ {executives[k] : k \in 1 .. Len(executives)} = Range(executives)
    BY <1>2 DEF Range
<1> HIDE DEF imminent
<1>4. \A s \in Sim : m_have_internal[s] <=> s \in unique_simulators
    <2>1. Pending = unique_simulators
        BY <1>1, PendingIsWaiting DEF Waiting
    <2> QED BY <1>1, <2>1 DEF Pending, Processing
<1>5. \A s \in Sim : m_observations[s] = <<>>
    BY <1>1 DEF Calls, Silent
<1>6. \A s \in Sim : m_observations'[s] = IF s \in Exec THEN <<>> ELSE Before(s)
    BY <1>1, <1>2, <1>3, <1>4, <1>5 DEF Observed, Before
<1>7. {executives[k] : k \in 1 .. Len(executives)} = {s \in Exec : m_have_internal[s]}
    BY <1>2, <1>3, <1>4, SchedulerAssumption
<1> QED BY <1>1, <1>6, <1>7 DEF Calls, Silent, Before

\* Dispatching the outputs of the dynamics tells nothing.
LEMMA DispatchDynamicsCalls ==
    ASSUME TableInv, Calls, DispatchDynamics PROVE Calls'
<1> USE DEF TableInv
<1>1. /\ pc = "dispatch_dynamics" /\ UNCHANGED <<pc, nb_executive, m_observations>>
    BY DEF DispatchDynamics
<1>2. PICK k \in DOMAIN dynamics : \E t \in m_result[dynamics[k]] :
          AddExternal(t, dynamics[k])
    BY DEF DispatchDynamics, Dispatch
<1>3. PICK t \in m_result[dynamics[k]] : AddExternal(t, dynamics[k])
    BY <1>2
<1>4. /\ UNCHANGED m_have_internal
      /\ executives' = executives \/ executives' = Append(executives, t)
    BY <1>3 DEF AddExternal, EnterBag, bagVars
<1>5. /\ nb_executive \in Nat /\ nb_executive <= Len(executives)
      /\ executives \in Seq(Sim) /\ t \in Sim /\ Len(executives) \in Nat
    BY <1>1 DEF Outputs, TypeOK, SchedulerTypeOK
<1>6. \A l \in 1 .. nb_executive : executives'[l] = executives[l]
    <2>1. CASE executives' = Append(executives, t)
        <3>1. \A l \in 1 .. Len(executives) : executives'[l] = executives[l]
            BY <1>5, <2>1
        <3> QED BY <1>5, <3>1
    <2> QED BY <1>4, <2>1
<1>7. {executives'[l] : l \in 1 .. nb_executive} = {executives[l] : l \in 1 .. nb_executive}
    BY <1>6
<1> QED BY <1>1, <1>4, <1>7 DEF Calls, Silent, Before

\* The outputs of the executives are told to the event views.
LEMMA OutputExecutivesCalls ==
    ASSUME TableInv, BagDates, Calls, ~Parallel, OutputExecutives PROVE Calls'
<1> USE DEF TableInv
<1> DEFINE imminent == {executives[k] : k \in 1 .. nb_executive}
<1>1. /\ m_observations' = [s \in Sim |->
             IF s \in imminent THEN Observed(s, "output") ELSE m_observations[s]]
      /\ pc = "dispatch_dynamics" /\ pc' = "dispatch_executives"
      /\ UNCHANGED <<unique_simulators, m_have_internal>>
    BY DEF OutputExecutives, Output, schedulerVars, bagVars
<1>2. /\ imminent = {s \in Exec : m_have_internal[s]}
      /\ \A s \in Sim : m_observations[s] = IF s \in Exec THEN <<>> ELSE Before(s)
    BY <1>1 DEF Calls, Silent
<1> HIDE DEF imminent
<1>3. \A s \in Sim : m_observations'[s] = Before(s)
    BY <1>1, <1>2 DEF Observed, Before
<1>4. \A s \in Sim \ unique_simulators : Before(s) = <<>>
    <2>1. Pending = unique_simulators
        BY <1>1, PendingIsWaiting DEF Waiting
    <2> QED BY <2>1 DEF Pending, Before
<1>5. Waiting' = unique_simulators
    BY <1>1 DEF Waiting
<1>6. unique_simulators \subseteq Sim
    BY DEF TypeOK, SchedulerTypeOK
<1> QED BY <1>1, <1>3, <1>4, <1>5, <1>6 DEF Calls, Silent, Before

\* Dispatching the outputs of the executives tells nothing.
LEMMA DispatchExecutivesCalls ==
    ASSUME TableInv, BagDates, Calls, ~Parallel, DispatchExecutives PROVE Calls'
<1> USE DEF TableInv
<1>1. pc = "dispatch_executives" /\ UNCHANGED <<pc, m_observations>>
    BY DEF DispatchExecutives
<1>2. PICK k \in DOMAIN executives : \E t \in m_result[executives[k]] :
          AddExternal(t, executives[k])
    BY DEF DispatchExecutives, Dispatch
<1>3. PICK t \in m_result[executives[k]] : AddExternal(t, executives[k])
    BY <1>2
<1>4. /\ UNCHANGED m_have_internal
      /\ unique_simulators' = unique_simulators \cup {t}
    BY <1>3 DEF AddExternal, EnterBag, bagVars
<1>5. t \in Sim /\ unique_simulators \subseteq Sim
    BY DEF TypeOK, SchedulerTypeOK
<1>6. /\ Waiting = unique_simulators /\ Waiting' = unique_simulators'
      /\ Pending = unique_simulators
    BY <1>1, PendingIsWaiting DEF Waiting
<1>7. \A s \in Sim \ unique_simulators : Before(s) = <<>>
    BY <1>6 DEF Pending, Before
<1> QED BY <1>1, <1>4, <1>5, <1>6, <1>7 DEF Calls, Silent, Before

\* A transition completes the calls of its simulator.
LEMMA TransitionCalls ==
    ASSUME TableInv, BagDates, TableInv', BagDates', Calls, ~Parallel,
           NEW s \in Sim, Transition(s), s \in Waiting,
           pc \in {"transition_dynamics", "transition_executives"},
           UNCHANGED <<pc, bagVars>>
    PROVE  Calls'
<1> USE DEF TableInv
<1>1. /\ m_have_internal' = [m_have_internal EXCEPT ![s] = FALSE]
      /\ m_external_events' = [m_external_events EXCEPT ![s] = <<>>]
      /\ m_observations' = [m_observations EXCEPT ![s] = Observed(s, Called(s))]
    BY DEF Transition
<1>2. /\ \A r \in Sim \ {s} : /\ m_have_internal'[r] = m_have_internal[r]
                              /\ m_external_events'[r] = m_external_events[r]
                              /\ m_observations'[r] = m_observations[r]
      /\ m_have_internal'[s] = FALSE /\ m_external_events'[s] = <<>>
      /\ m_observations'[s] = Observed(s, Called(s))
    BY <1>1 DEF TypeOK, SchedulerTypeOK
<1>3. Waiting' = Waiting \ {s}
    <2>1. Pending = Waiting
        BY PendingIsWaiting
    <2>2. (Pending = Waiting)'
        BY DEF Processing, BagDates
    <2>3. Pending' = Pending \ {s}
        BY <1>2 DEF Pending, HaveExternalEvents
    <2> QED BY <2>1, <2>2, <2>3
<1>4. m_observations[s] = Before(s)
    BY DEF Calls, Silent
<1>5. m_observations'[s] \in After(s)
    BY <1>2, <1>4 DEF Observed, Called, Before, After
<1>6. \A r \in Sim \ {s} : Before(r)' = Before(r) /\ m_observations'[r] = m_observations[r]
    BY <1>2 DEF Before
<1>7. Waiting \subseteq Sim /\ unique_simulators \subseteq Sim /\ UNCHANGED unique_simulators
      /\ \A r \in Sim : After(r)' = After(r)
    BY DEF Processing, Pending, TypeOK, SchedulerTypeOK, bagVars, After
<1>8. s \in unique_simulators
    <2>1. dynamics \in Seq(Sim) /\ executives \in Seq(Sim) /\ i \in Nat \ {0}
        BY DEF TypeOK, SchedulerTypeOK
    <2>2. /\ Suffix(dynamics) \subseteq Range(dynamics)
          /\ Suffix(executives) \subseteq Range(executives)
        BY <2>1 DEF Suffix, Range
    <2> QED BY <2>2 DEF Waiting, Vectors
<1> QED BY <1>3, <1>5, <1>6, <1>7, <1>8 DEF Calls, Silent

\* Every step tells the event views the calls it makes.
LEMMA NextCalls ==
    ASSUME TableInv, BagDates, TableInv', BagDates', Calls, ~Parallel, [Next]_vars
    PROVE  Calls'
<1> USE DEF TableInv
<1>1. CASE \/ LoadModels \/ Start \/ NextBag \/ Finish \/ EatViews \/ EndEat \/ DeleteModel
    BY <1>1, CallsKept DEF LoadModels, Start, NextBag, Finish, EatViews, EndEat,
         DeleteModel, Silent
<1>2. CASE Structure
    <2>1. /\ pc \in {"start", "transition_executives"}
          /\ UNCHANGED <<pc, m_observations, unique_simulators, m_have_internal, Pending>>
        BY <1>2 DEF Structure, CreateModel, DelModel, Running, schedulerVars, bagVars,
             Pending, HaveExternalEvents
    <2> QED BY <2>1, CallsKept DEF Silent, Telling
<1>3. CASE \/ SortExecutives \/ RescheduleDynamics \/ RescheduleExecutives \/ EndLoop
    <2>1. /\ pc \in Telling /\ pc' \in Telling
          /\ UNCHANGED <<m_observations, unique_simulators, m_have_internal, Pending>>
        BY <1>3 DEF SortExecutives, RescheduleDynamics, RescheduleExecutives, Reschedule,
             EndLoop, schedulerVars, bagVars, Pending, HaveExternalEvents, Telling
    <2> QED BY <2>1, CallsKept
<1>4. CASE BeginBag \/ DispatchDynamics \/ OutputExecutives \/ DispatchExecutives
    BY <1>4, BeginBagCalls, DispatchDynamicsCalls, OutputExecutivesCalls,
       DispatchExecutivesCalls
<1>5. CASE TransitionDynamics
    <2>1. /\ pc = "transition_dynamics" /\ i \in Nat \ {0} /\ i <= Len(dynamics)
          /\ i' = i + 1 /\ dynamics \in Seq(Sim) /\ Transition(dynamics[i])
          /\ UNCHANGED <<pc, bagVars>>
        BY <1>5 DEF TransitionDynamics, Transition, TypeOK, SchedulerTypeOK
    <2>2. dynamics[i] \in Sim /\ dynamics[i] \in Waiting
        BY <2>1, SuffixStep DEF Waiting
    <2> QED BY <2>1, <2>2, TransitionCalls
<1>6. CASE TransitionExecutives
    <2>1. /\ pc = "transition_executives" /\ i \in Nat \ {0} /\ i <= Len(executives)
          /\ i' = i + 1 /\ executives \in Seq(Sim) /\ Transition(executives[i])
          /\ UNCHANGED <<pc, bagVars>>
        BY <1>6 DEF TransitionExecutives, Transition, TypeOK, SchedulerTypeOK
    <2>2. executives[i] \in Sim /\ executives[i] \in Waiting
        BY <2>1, SuffixStep DEF Waiting
    <2> QED BY <2>1, <2>2, TransitionCalls
<1>7. CASE TransitionThrows
    BY <1>7 DEF TransitionThrows, Calls, Silent
<1>8. CASE SwallowedThrow
    BY <1>8 DEF SwallowedThrow
<1>9. CASE Observe
    <2>1. /\ pc = "observe" /\ pc' \in Silent
          /\ m_observations' = [s \in Sim |->
                 IF s \in Range(dynamics) \cup Range(executives)
                 THEN <<>> ELSE m_observations[s]]
        BY <1>9 DEF Observe, Silent
    <2>2. Range(dynamics) \cup Range(executives) = unique_simulators
        BY <2>1 DEF Vectors
    <2>3. \A s \in Sim : m_observations'[s] = <<>>
        BY <2>1, <2>2 DEF Calls, Silent
    <2> QED BY <2>1, <2>3 DEF Calls, Silent
<1>10. CASE DeleteSimulator
    <2>1. PICK s \in lst : m_observations' = [m_observations EXCEPT ![s] = <<>>]
        BY <1>10 DEF DeleteSimulator
    <2>2. pc = "delete" /\ pc' = "delete" /\ \A r \in Sim : m_observations[r] = <<>>
        BY <1>10 DEF DeleteSimulator, Calls, Silent
    <2>3. \A r \in Sim : m_observations'[r] = <<>>
        BY <2>1, <2>2 DEF TypeOK
    <2> QED BY <2>2, <2>3 DEF Calls, Silent
<1>11. CASE Terminated \/ UNCHANGED vars
    <2>1. UNCHANGED <<pc, i, m_observations, unique_simulators, m_have_internal,
                      executives, dynamics, nb_executive>>
        BY <1>11 DEF Terminated, vars, coordinatorVars, schedulerVars, bagVars
    <2>2. Waiting' = Waiting
        BY <2>1 DEF Waiting, Suffix
    <2> QED BY <2>1, <2>2 DEF Calls, Before, After
<1> QED
    BY <1>1, <1>2, <1>3, <1>4, <1>5, <1>6, <1>7, <1>8, <1>9, <1>10, <1>11 DEF Next, Run

\* Without the pool, the event views are told of every call of a bag, once
\* and in order, and of nothing else.
THEOREM EveryCallIsObserved == ~Parallel => (Spec => []CallsObserved)
<1> SUFFICES ASSUME ~Parallel PROVE Spec => []CallsObserved
    OBVIOUS
<1>1. Init => BagDates /\ Calls
    BY DEF Init, SchedulerInit, BagDates, Dispatching, Calls, Silent
<1>2. TableInv /\ BagDates /\ [Next]_vars => BagDates'
    BY NextBagDates
<1>3. TableInv /\ TableInv' /\ BagDates /\ BagDates' /\ Calls /\ [Next]_vars => Calls'
    BY NextCalls
<1>4. Calls => CallsObserved
    <2>1. pc = "observe" => Waiting = {}
        BY DEF Waiting
    <2> QED BY <2>1 DEF Calls, CallsObserved, Silent, After
<1> QED BY <1>1, <1>2, <1>3, <1>4, TableInvariant, PTL DEF Spec

-----------------------------------------------------------------------------
(* Timed views *)

\* What the dates of a regular view are.
LEMMA RegularDates ==
    ASSUME TypeOK, NEW v \in TView, Regular(v)
    PROVE  /\ Len(observed[v]) \in Nat /\ Timestep[v] \in Nat \ {0}
           /\ observed[v] \in Seq(Time)
           /\ m_observation[v] \in Nat /\ m_observation[v] >= Begin
           /\ m_observation[v] # NoEvent
<1>1. Len(observed[v]) \in Nat /\ Timestep[v] \in Nat \ {0} /\ observed[v] \in Seq(Time)
    BY TimedObservationAssumption DEF TypeOK
<1>2. Len(observed[v]) * Timestep[v] \in Nat
    BY <1>1
<1> QED BY <1>1, <1>2, Dates1 DEF Regular, NoEvent

\* Steps that neither run a view nor touch the dates.
LEMMA ViewsKept ==
    ASSUME Views, UNCHANGED <<m_observation, observed, m_current_time, m_delete_model, lst>>,
           pc \notin {"ready", "ended", "delete"}, pc' \notin {"ready", "ended", "delete", "eat"}
    PROVE  Views'
BY DEF Views, Done, Regular

\* A view that is due observes once and gets its next date.
LEMMA EatViewsViews ==
    ASSUME Undisturbed, TableInv, Views, EatViews PROVE Views'
<1> USE DEF TableInv
<1> DEFINE P == ObservationAtTime(EatUntil)
<1>1. /\ pc = "eat" /\ pc' = "eat" /\ RunViews(EatUntil, Infinity)
      /\ UNCHANGED <<m_current_time, m_delete_model, lst, m_scheduler>>
    BY DEF EatViews, schedulerVars, heapVars, structureVars
<1>2. ~Done /\ ~Done' /\ GetNextTime' = GetNextTime
    BY <1>1 DEF Done, GetNextTime, Dates
<1>3. GetNextTime \in Int /\ EatUntil <= Duration
    BY NextTime, Dates1 DEF EatUntil, Time
<1>4. ASSUME NEW v \in TView PROVE Regular(v)' /\ m_observation'[v] >= m_current_time
    <2>1. Regular(v) /\ m_observation[v] >= m_current_time
        BY <1>2 DEF Views
    <2> DEFINE n == Len(observed[v])
    <2> DEFINE T == Timestep[v]
    <2>2. /\ n \in Nat /\ T \in Nat \ {0} /\ observed[v] \in Seq(Time)
          /\ m_observation[v] \in Nat /\ m_observation[v] # NoEvent
        BY <2>1, RegularDates
    <2>3. CASE v \notin P
        BY <1>1, <2>1, <2>3 DEF RunViews, Regular
    <2>4. CASE v \in P
        <3>1. m_observation[v] < Duration
            BY <1>3, <2>2, <2>4, Dates1 DEF ObservationAtTime, HaveObservation, EatUntil
        <3>2. m_observation[v] + T < Infinity
            BY <2>2, <3>1, Dates1 DEF Undisturbed
        <3>3. /\ observed'[v] = Append(observed[v], m_observation[v])
              /\ m_observation'[v] = m_observation[v] + T
            BY <1>1, <2>4, <3>2 DEF RunViews
        <3>4. /\ Len(observed'[v]) = n + 1 /\ observed'[v][n + 1] = m_observation[v]
              /\ \A k \in 1 .. n : observed'[v][k] = observed[v][k]
            <4>1. m_observation[v] \in Time
                BY <2>2 DEF TypeOK, NoEvent
            <4> QED BY <2>2, <3>3, <4>1
        <3>5. m_observation[v] = Begin + n * T
            BY <2>1 DEF Regular
        <3> HIDE DEF n, T
        <3>6. (n + 1) * T = n * T + T /\ n * T \in Nat
            BY <2>2
        <3>7. m_observation'[v] = Begin + (n + 1) * T
            BY <2>2, <3>3, <3>5, <3>6, Dates1
        <3>8. \A k \in 1 .. n + 1 : /\ observed'[v][k] = Begin + (k - 1) * T
                                    /\ observed'[v][k] < Duration
            <4>1. ASSUME NEW k \in 1 .. n
                  PROVE  observed'[v][k] = Begin + (k - 1) * T /\ observed'[v][k] < Duration
                BY <2>1, <3>4 DEF Regular, n, T
            <4>2. (n + 1) - 1 = n
                BY <2>2
            <4>3. \A k \in 1 .. n + 1 : k \in 1 .. n \/ k = n + 1
                BY <2>2
            <4> QED BY <3>1, <3>4, <3>5, <4>1, <4>2, <4>3
        <3>9. m_observation'[v] >= m_current_time
            BY <2>1, <2>2, <3>3 DEF TypeOK, SchedulerTypeOK, Time, NegativeInfinity
        <3> QED BY <3>4, <3>7, <3>8, <3>9 DEF Regular, T
    <2> QED BY <2>3, <2>4
<1> QED BY <1>1, <1>2, <1>4 DEF Views

\* The views of the date are done.
LEMMA EndEatViews ==
    ASSUME TableInv, BagDates, Views, EndEat PROVE Views'
<1> USE DEF TableInv
<1>1. /\ pc = "eat" /\ pc' = "delete" /\ ObservationAtTime(EatUntil) = {}
      /\ UNCHANGED <<m_current_time, m_delete_model, lst, m_scheduler>>
    BY DEF EndEat, schedulerVars, heapVars, structureVars
<1>2. ~Done /\ GetNextTime' = GetNextTime /\ GetNextTime \in Int
    BY <1>1, NextTime, Dates1 DEF Done, GetNextTime, Dates, Time
<1>3. ASSUME NEW v \in TView
      PROVE  /\ Regular(v) /\ m_observation[v] >= m_current_time
             /\ Len(observed[v]) \in Nat /\ Timestep[v] \in Nat \ {0}
             /\ observed[v] \in Seq(Time)
             /\ m_observation[v] \in Nat /\ m_observation[v] # NoEvent
             /\ m_observation[v] >= EatUntil
    <2>1. Regular(v) /\ m_observation[v] >= m_current_time
        BY <1>2 DEF Views
    <2>2. /\ Len(observed[v]) \in Nat /\ Timestep[v] \in Nat \ {0}
          /\ observed[v] \in Seq(Time)
          /\ m_observation[v] \in Nat /\ m_observation[v] # NoEvent
        BY <2>1, RegularDates
    <2>3. ~(m_observation[v] < EatUntil)
        BY <1>1, <2>2 DEF ObservationAtTime, HaveObservation
    <2> QED BY <1>2, <2>1, <2>2, <2>3, Dates1 DEF EatUntil
<1>4. CASE GetNextTime > Duration
    <2>1. EatUntil = Duration /\ Finalize(Duration) /\ Done'
        BY <1>1, <1>2, <1>4, Dates1 DEF EndEat, EatUntil, Done
    <2>2. ASSUME NEW v \in TView PROVE Finished(v)'
        <3> DEFINE n == Len(observed[v])
        <3>1. observed'[v] = Append(observed[v], Duration)
            BY <1>3, <2>1 DEF Finalize
        <3>2. /\ Len(observed'[v]) = n + 1 /\ observed'[v][n + 1] = Duration
              /\ \A k \in 1 .. n : observed'[v][k] = observed[v][k]
              /\ n \in Nat
            BY <1>3, <3>1, Dates1
        <3>3. (n + 1) - 1 = n /\ n + 1 > 0
            BY <3>2
        <3>4. Begin + n * Timestep[v] >= Duration
            BY <1>3, <2>1 DEF Regular
        <3>5. \A k \in 1 .. n : /\ observed'[v][k] = Begin + (k - 1) * Timestep[v]
                                /\ observed'[v][k] < Duration
            BY <1>3, <3>2 DEF Regular
        <3> HIDE DEF n
        <3> QED BY <3>2, <3>3, <3>4, <3>5 DEF Finished
    <2> QED BY <1>1, <2>1, <2>2 DEF Views
<1>5. CASE ~(GetNextTime > Duration)
    <2>1. EatUntil = GetNextTime /\ UNCHANGED <<m_observation, observed>> /\ ~Done'
        BY <1>1, <1>2, <1>5, Dates1 DEF EndEat, EatUntil, Done, observationVars
    <2>2. \A v \in TView : /\ Regular(v)' /\ m_observation'[v] >= m_current_time'
                           /\ m_observation'[v] >= GetNextTime'
        BY <1>1, <1>2, <1>3, <2>1 DEF Regular
    <2> QED BY <1>1, <2>1, <2>2 DEF Views
<1> QED BY <1>4, <1>5

\* The views stay regular in every step.
LEMMA NextViews ==
    ASSUME Undisturbed, TableInv, BagDates, Views, [Next]_vars PROVE Views'
<1> USE DEF TableInv
<1>1. CASE LoadModels \/ \E e \in Exec, m \in Model : CreateModel(e, m)
    <2>1. /\ UNCHANGED <<m_observation, observed, m_current_time, m_delete_model, lst>>
          /\ pc \in {"load", "start", "transition_executives"}
          /\ pc' \in {"start", "transition_executives"}
        BY <1>1 DEF LoadModels, CreateModel, AddSimulators, Running
    <2> QED BY <2>1, ViewsKept
<1>2. ASSUME NEW e \in Exec, NEW m \in Model, DelModel(e, m) PROVE Views'
    BY <1>2 DEF DelModel, Undisturbed
<1>3. CASE Start
    <2>1. /\ pc = "start" /\ pc' = "ready" /\ m_current_time' = Begin
          /\ UNCHANGED <<m_observation, observed, m_delete_model, lst>>
        BY <1>3 DEF Start, StartBag, FillBag, structureVars, observationVars
    <2>2. ~Done /\ ~Done'
        BY <2>1, CoordinatorAssumption DEF Done
    <2>3. \A v \in TView : Regular(v)' /\ m_observation'[v] >= Begin
        <3>1. \A v \in TView : Regular(v)
            BY <2>2 DEF Views
        <3> QED BY <2>1, <3>1, RegularDates DEF Regular
    <2> QED BY <2>1, <2>2, <2>3 DEF Views
<1>4. CASE BeginBag
    <2>1. /\ pc = "ready" /\ pc' = "dispatch_dynamics"
          /\ UNCHANGED <<m_observation, observed, m_current_time, m_delete_model, lst>>
        BY <1>4 DEF BeginBag, schedulerVars, structureVars, observationVars
    <2>2. ~Done /\ ~Done'
        BY <1>4, <2>1 DEF BeginBag, Over, Clock, Stopped, Done
    <2> QED BY <2>1, <2>2 DEF Views, Regular
<1>5. CASE \/ DispatchDynamics \/ OutputExecutives \/ DispatchExecutives \/ SortExecutives
           \/ TransitionDynamics \/ TransitionExecutives \/ TransitionThrows
           \/ SwallowedThrow \/ RescheduleDynamics \/ RescheduleExecutives \/ EndLoop
    <2>1. UNCHANGED <<m_observation, observed, m_delete_model, lst>>
        BY <1>5 DEF DispatchDynamics, OutputExecutives, DispatchExecutives, SortExecutives,
             TransitionDynamics, TransitionExecutives, TransitionThrows, SwallowedThrow,
             RescheduleDynamics, RescheduleExecutives, Reschedule, EndLoop,
             observationVars, structureVars
    <2>2. UNCHANGED m_current_time
        BY <1>5 DEF DispatchDynamics, OutputExecutives, DispatchExecutives, Dispatch,
             AddExternal, SortExecutives,
             TransitionDynamics, TransitionExecutives, TransitionThrows, SwallowedThrow,
             RescheduleDynamics, RescheduleExecutives, Reschedule, EndLoop, schedulerVars
    <2>3. /\ pc \notin {"ready", "ended", "delete"}
          /\ pc' \notin {"ready", "ended", "delete", "eat"}
        BY <1>5 DEF DispatchDynamics, OutputExecutives, DispatchExecutives, SortExecutives,
             TransitionDynamics, TransitionExecutives, TransitionThrows, SwallowedThrow,
             RescheduleDynamics, RescheduleExecutives, Reschedule, EndLoop
    <2> QED BY <2>1, <2>2, <2>3, ViewsKept
<1>6. CASE Observe
    <2>1. /\ pc = "observe" /\ pc' = IF GetNextTime > m_currentTime THEN "eat" ELSE "delete"
          /\ UNCHANGED <<m_observation, observed, m_current_time, m_delete_model, lst,
                         m_scheduler>>
        BY <1>6 DEF Observe, schedulerVars, heapVars, structureVars, observationVars
    <2>2. /\ GetNextTime' = GetNextTime /\ GetNextTime \in Int /\ m_currentTime = m_current_time
          /\ m_current_time \in Int /\ m_current_time <= Duration
        <3>1. GetNextTime' = GetNextTime
            BY <2>1 DEF GetNextTime, Dates
        <3>2. GetNextTime \in Int
            BY NextTime, Dates1 DEF Time
        <3> QED BY <2>1, <3>1, <3>2, Dates1 DEF Time, Clock, Stopped, BagDates, TypeOK,
                   SchedulerTypeOK, NegativeInfinity
    <2>3. ~Done /\ ~Done'
        BY <2>1, <2>2, Dates1 DEF Done
    <2>4. \A v \in TView : Regular(v)' /\ m_observation'[v] >= m_current_time'
                           /\ m_observation'[v] \in Int
        <3>1. \A v \in TView : Regular(v) /\ m_observation[v] >= m_current_time
            BY <2>3 DEF Views
        <3> QED BY <2>1, <3>1, RegularDates DEF Regular
    <2> QED BY <2>1, <2>2, <2>3, <2>4 DEF Views
<1>7. CASE EatViews \/ EndEat
    BY <1>7, EatViewsViews, EndEatViews
<1>8. CASE DeleteModel \/ DeleteSimulator
    BY <1>8 DEF DeleteModel, DeleteSimulator, Views
<1>9. CASE NextBag
    <2>1. /\ pc = "delete" /\ pc' = "ready" /\ m_current_time' = GetNextTime
          /\ UNCHANGED <<m_observation, observed, m_delete_model, lst>>
        BY <1>9 DEF NextBag, MakeNextBag, FillBag, structureVars, observationVars
    <2>2. Done' = Done
        BY <2>1 DEF Done
    <2> QED BY <2>1, <2>2 DEF Views, Regular, Finished
<1>10. CASE Finish
    <2>1. /\ pc = "ready" /\ pc' = "ended" /\ m_current_time > Duration
          /\ UNCHANGED <<m_observation, observed, m_current_time, m_delete_model, lst>>
        BY <1>10, CoordinatorAssumption DEF Finish, Over, Clock, Stopped, schedulerVars,
             structureVars, observationVars
    <2> QED BY <2>1 DEF Views, Done, Finished
<1>11. CASE Terminated \/ UNCHANGED vars
    BY <1>11 DEF Terminated, vars, coordinatorVars, schedulerVars, heapVars,
         observationVars, Views, Done, Regular, Finished, GetNextTime, Dates
<1> QED
    BY <1>1, <1>2, <1>3, <1>4, <1>5, <1>6, <1>7, <1>8, <1>9, <1>10, <1>11
       DEF Next, Run, Structure

\* The invariant of the timed views holds in every state.
LEMMA ViewsInvariant == Undisturbed => (Spec => [](TableInv /\ BagDates /\ Views))
<1> SUFFICES ASSUME Undisturbed PROVE Spec => [](TableInv /\ BagDates /\ Views)
    OBVIOUS
<1>1. Init => BagDates /\ Views
    <2> SUFFICES ASSUME Init PROVE BagDates /\ Views
        OBVIOUS
    <2>1. BagDates
        BY DEF Init, SchedulerInit, BagDates, Dispatching
    <2>2. ASSUME NEW v \in TView PROVE Regular(v) /\ m_observation[v] >= m_current_time
        <3>1. m_observation[v] = Begin /\ observed[v] = <<>> /\ Timestep[v] \in Nat
            BY TimedObservationAssumption DEF Init, BuildViews
        <3>2. Len(observed[v]) = 0 /\ 0 * Timestep[v] = 0
            BY <3>1
        <3> QED BY <3>1, <3>2, Dates1 DEF Regular, Init, SchedulerInit, NegativeInfinity
    <2> QED BY <2>1, <2>2 DEF Init, Views, Done
<1>2. TableInv /\ BagDates /\ [Next]_vars => BagDates'
    BY NextBagDates
<1>3. TableInv /\ BagDates /\ Views /\ [Next]_vars => Views'
    BY NextViews
<1> QED BY <1>1, <1>2, <1>3, TableInvariant, PTL DEF Spec

\* Each timed view was run at every multiple of its time step before the end
\* of the simulation, and once more at the end.
THEOREM ViewsAreComplete == Undisturbed => (Spec => []ViewsComplete)
<1> SUFFICES ASSUME Undisturbed PROVE Spec => []ViewsComplete
    OBVIOUS
<1>1. TableInv /\ Views => ViewsComplete
    <2> SUFFICES ASSUME TableInv, Views, pc = "ended", NEW v \in TView
                 PROVE  LET n == Len(observed[v]) IN
                        /\ n > 0 /\ observed[v][n] = Duration
                        /\ \A k \in 1 .. n - 1 :
                               observed[v][k] = Begin + (k - 1) * Timestep[v]
                        /\ Begin + (n - 1) * Timestep[v] >= Duration
                        /\ n > 1 => observed[v][n - 1] < Duration
        BY DEF ViewsComplete
    <2>1. Finished(v) /\ Len(observed[v]) \in Nat
        BY DEF Views, TableInv, TypeOK
    <2> QED BY <2>1 DEF Finished
<1> QED BY <1>1, ViewsInvariant, PTL

\* A timed view sees the models as they are at the date it is run.
THEOREM ViewsAreOnTime == Undisturbed => (Spec => ObservedOnTime)
<1> SUFFICES ASSUME Undisturbed PROVE Spec => ObservedOnTime
    OBVIOUS
<1> DEFINE OnTime ==
        \A v \in TView : observed'[v] # observed[v] =>
            LET t == observed'[v][Len(observed'[v])]
            IN  m_current_time <= t /\ t < GetNextTime
<1>1. TableInv /\ BagDates /\ Views /\ [Next]_vars => [OnTime]_vars
    <2> SUFFICES ASSUME TableInv, BagDates, Views, [Next]_vars,
                        NEW v \in TView, observed'[v] # observed[v]
                 PROVE  LET t == observed'[v][Len(observed'[v])]
                        IN  m_current_time <= t /\ t < GetNextTime
        OBVIOUS
    <2> USE DEF TableInv
    <2>1. EatViews \/ EndEat
        <3>1. CASE Structure \/ LoadModels
            BY <3>1 DEF Structure, CreateModel, DelModel, LoadModels, AddSimulators,
                 observationVars
        <3>2. CASE ~(Structure \/ LoadModels \/ EatViews \/ EndEat)
            BY <3>2 DEF Next, Run, Start, BeginBag, DispatchDynamics, OutputExecutives,
                 DispatchExecutives, SortExecutives, TransitionDynamics,
                 TransitionExecutives, TransitionThrows, SwallowedThrow,
                 RescheduleDynamics, RescheduleExecutives, Reschedule, EndLoop, Observe,
                 DeleteModel, DeleteSimulator, NextBag, Finish, Terminated, vars,
                 observationVars
        <3> QED BY <3>1, <3>2
    <2>2. pc = "eat" /\ ~Done
        BY <2>1 DEF EatViews, EndEat, Done
    <2>3. /\ Regular(v) /\ m_observation[v] >= m_current_time
          /\ observed[v] \in Seq(Time) /\ m_observation[v] \in Nat
          /\ m_observation[v] # NoEvent
        BY <2>2, RegularDates DEF Views
    <2>4. GetNextTime \in Int /\ m_current_time \in Int /\ m_current_time <= Duration
        BY <2>2, NextTime, Dates1
           DEF Time, TypeOK, SchedulerTypeOK, NegativeInfinity, BagDates
    <2>5. CASE EatViews
        <3>1. RunViews(EatUntil, Infinity)
            BY <2>5 DEF EatViews
        <3>2. /\ v \in ObservationAtTime(EatUntil)
              /\ observed'[v] = Append(observed[v], m_observation[v])
            BY <3>1 DEF RunViews
        <3>3. m_observation[v] < GetNextTime
            BY <2>3, <2>4, <3>2, Dates1 DEF ObservationAtTime, HaveObservation, EatUntil
        <3>4. m_observation[v] \in Time
            BY <2>3 DEF TypeOK, NoEvent
        <3>5. observed'[v][Len(observed'[v])] = m_observation[v]
            BY <2>3, <3>2, <3>4
        <3> QED BY <2>3, <2>4, <3>3, <3>5
    <2>6. CASE EndEat
        <3>1. GetNextTime > Duration /\ Finalize(Duration)
            BY <2>6 DEF EndEat, observationVars
        <3>2. observed'[v] = Append(observed[v], Duration)
            BY <3>1 DEF Finalize
        <3>3. observed'[v][Len(observed'[v])] = Duration
            BY <2>3, <3>2, Dates1
        <3> QED BY <2>4, <3>1, <3>3, Dates1
    <2> QED BY <2>1, <2>5, <2>6
<1> QED BY <1>1, ViewsInvariant, PTL DEF Spec, ObservedOnTime
=============================================================================
