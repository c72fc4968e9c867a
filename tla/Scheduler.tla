------------------------------ MODULE Scheduler ------------------------------
(***************************************************************************)
(* The event table of the simulation kernel (devs::Scheduler) together     *)
(* with the part of devs::Simulator that it reads and writes: the next     *)
(* activation date, the handle into the heap, the flag "an internal event  *)
(* is due" and the list of external events of the running bag.             *)
(*                                                                         *)
(* Dates are natural numbers, and Infinity is the absorbing date of        *)
(* devs::infinity.  The heap is a set of <<simulator, date>> nodes: the    *)
(* order in which boost's fibonacci_heap pops nodes of equal dates is not  *)
(* specified, so a bag is filled in any order.                             *)
(***************************************************************************)
EXTENDS Integers, Sequences, FiniteSets, Functions

CONSTANTS
    Sim,        \* every simulator that may exist during the simulation
    Exec,       \* the simulators whose dynamics is an executive
    Infinity    \* the date devs::infinity

ASSUME SchedulerAssumption ==
    /\ IsFiniteSet(Sim)
    /\ Exec \subseteq Sim
    /\ Infinity \in Nat \ {0}

VARIABLES
    m_scheduler,        \* the heap: a set of <<simulator, date>> nodes
    m_current_time,     \* date of the current bag
    dynamics,           \* the current bag: vector of atomic simulators
    executives,         \* the current bag: vector of executives
    unique_simulators,  \* the current bag: the set that keeps both unique
    m_tn,               \* Simulator: date of the next internal event
    m_handle,           \* Simulator: the node of the heap it owns
    m_have_internal,    \* Simulator: an internal event is due in this bag
    m_external_events   \* Simulator: senders of the events of this bag

heapVars == <<m_scheduler, m_handle>>
bagVars == <<dynamics, executives, unique_simulators>>
schedulerVars == <<heapVars, bagVars, m_current_time, m_tn,
                   m_have_internal, m_external_events>>

Time == 0 .. Infinity
NegativeInfinity == -1

\* A simulator owns at most one node, so the date of the node names it.
NoHandle == -1

\* Addition of dates: infinity is absorbing.
Plus(t, d) == IF t + d < Infinity THEN t + d ELSE Infinity

\* The vectors that hold the elements of S, each once, in any order.
Orderings(S) == Bijection(1 .. Cardinality(S), S)

SchedulerTypeOK ==
    /\ m_scheduler \subseteq Sim \X Time
    /\ m_current_time \in Time \cup {NegativeInfinity}
    /\ dynamics \in Seq(Sim)
    /\ executives \in Seq(Sim)
    /\ unique_simulators \subseteq Sim
    /\ m_tn \in [Sim -> Time \cup {NegativeInfinity}]
    /\ m_handle \in [Sim -> Time \cup {NoHandle}]
    /\ m_have_internal \in [Sim -> BOOLEAN]
    /\ m_external_events \in [Sim -> Seq(Sim)]

SchedulerInit ==
    /\ m_scheduler = {}
    /\ m_current_time = NegativeInfinity
    /\ dynamics = <<>>
    /\ executives = <<>>
    /\ unique_simulators = {}
    /\ m_tn = [s \in Sim |-> NegativeInfinity]
    /\ m_handle = [s \in Sim |-> NoHandle]
    /\ m_have_internal = [s \in Sim |-> FALSE]
    /\ m_external_events = [s \in Sim |-> <<>>]

-----------------------------------------------------------------------------

HaveHandle(s) == m_handle[s] # NoHandle
HaveExternalEvents(s) == m_external_events[s] # <<>>

\* The dates of the nodes; the top of the heap is the least of them.
Dates == {e[2] : e \in m_scheduler}

GetNextTime ==
    IF m_scheduler = {} THEN Infinity
                        ELSE CHOOSE t \in Dates : \A u \in Dates : t <= u

\* The simulators whose node is popped for a bag of date t.
Due(t) == {e[1] : e \in {n \in m_scheduler : n[2] <= t}}

\* The loop common to Scheduler::init and Scheduler::makeNextBag: every node
\* dated t or before leaves the heap, and its simulator enters the bag with
\* an internal event to process.
FillBag(t) ==
    LET S == Due(t) IN
    /\ m_current_time' = t
    /\ dynamics' \in Orderings(S \ Exec)
    /\ executives' \in Orderings(S \cap Exec)
    /\ unique_simulators' = S
    /\ m_have_internal' = [s \in Sim |-> s \in S \/ m_have_internal[s]]
    /\ m_handle' = [s \in Sim |-> IF s \in S THEN NoHandle ELSE m_handle[s]]
    /\ m_scheduler' = {e \in m_scheduler : e[2] > t}
    /\ UNCHANGED <<m_tn, m_external_events>>

\* Scheduler::init
StartBag(time) == FillBag(time)

\* An empty heap makes the next date Infinity and the bag empty.
MakeNextBag == FillBag(GetNextTime)

AddInternal(s, time) ==
    /\ m_scheduler' = (m_scheduler \ {<<s, m_handle[s]>>}) \cup {<<s, time>>}
    /\ m_handle' = [m_handle EXCEPT ![s] = time]

EraseNode(s) ==
    /\ m_scheduler' = m_scheduler \ {<<s, m_handle[s]>>}
    /\ m_handle' = [m_handle EXCEPT ![s] = NoHandle]

\* Enter a simulator into the bag unless it is already there.
EnterBag(s) ==
    IF s \in unique_simulators
    THEN UNCHANGED bagVars
    ELSE /\ unique_simulators' = unique_simulators \cup {s}
         /\ IF s \in Exec
            THEN executives' = Append(executives, s) /\ UNCHANGED dynamics
            ELSE dynamics' = Append(dynamics, s) /\ UNCHANGED executives

\* The event sent by src supersedes the activation planned for a later date.
AddExternal(s, src) ==
    /\ EnterBag(s)
    /\ m_external_events' = [m_external_events EXCEPT ![s] = Append(@, src)]
    /\ IF HaveHandle(s) /\ m_tn[s] > m_current_time
       THEN EraseNode(s)
       ELSE UNCHANGED heapVars
    /\ UNCHANGED <<m_current_time, m_tn, m_have_internal>>

\* The vector that std::remove and erase leave: the elements of q other than
\* s, in their order.
Erased(q, s) ==
    LET kept == {k \in DOMAIN q : q[k] # s} IN
    {[k \in DOMAIN f |-> q[f[k]]] : f \in
        {g \in Orderings(kept) : \A k, l \in DOMAIN g : k < l => g[k] < g[l]}}

\* Mutant: the node of a deleted simulator stays in the heap.
DelSimulatorKeepsNode(s) ==
    /\ dynamics' \in Erased(dynamics, s)
    /\ executives' \in Erased(executives, s)
    /\ unique_simulators' = unique_simulators \ {s}
    /\ UNCHANGED <<heapVars, m_current_time, m_tn, m_have_internal,
                   m_external_events>>

DelSimulator(s) ==
    /\ dynamics' \in Erased(dynamics, s)
    /\ executives' \in Erased(executives, s)
    /\ unique_simulators' = unique_simulators \ {s}
    /\ EraseNode(s)
    /\ UNCHANGED <<m_current_time, m_tn, m_have_internal, m_external_events>>

=============================================================================
