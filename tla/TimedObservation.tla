-------------------------- MODULE TimedObservation --------------------------
(***************************************************************************)
(* The timed views of a simulation: devs::TimedObservationScheduler, the   *)
(* ViewEvents it holds and the list of observables of each devs::View.     *)
(* The value an observation returns is abstracted to the date it is given. *)
(***************************************************************************)
EXTENDS Integers, Sequences, FiniteSets

CONSTANTS
    TView,      \* the enabled timed views
    Timestep    \* the time step of each of them

ASSUME TimedObservationAssumption ==
    /\ IsFiniteSet(TView)
    /\ Timestep \in [TView -> Nat \ {0}]

VARIABLES
    m_observation,      \* date of the pending ViewEvent of each view
    m_observableList,   \* View: the simulators it observes
    observed            \* history: the dates at which each view was run

observationVars == <<m_observation, m_observableList, observed>>

\* A view without a pending event.
NoEvent == -1

\* Mutant: an event dated time is popped too.
HaveObservationAtEnd(v, time) ==
    m_observation[v] # NoEvent /\ m_observation[v] <= time

HaveObservation(v, time) == m_observation[v] # NoEvent /\ m_observation[v] < time

\* The views getObservationAtTime pops: every event strictly before time.
ObservationAtTime(time) == {v \in TView : HaveObservation(v, time)}

\* Run the popped events, each at its own date, move each one step forward
\* and put it back unless the new date is infinite.
RunViews(time, infinity) ==
    LET popped == ObservationAtTime(time)
        next(v) == m_observation[v] + Timestep[v]
    IN  /\ observed' = [v \in TView |->
               IF v \in popped THEN Append(observed[v], m_observation[v])
                               ELSE observed[v]]
        /\ m_observation' = [v \in TView |->
               IF v \in popped
               THEN IF next(v) < infinity THEN next(v) ELSE NoEvent
               ELSE m_observation[v]]
        /\ UNCHANGED m_observableList

\* The date of the last popped event: the heap pops them in date order.
LastPopped(time) ==
    CHOOSE t \in {m_observation[v] : v \in ObservationAtTime(time)} :
        \A v \in ObservationAtTime(time) : m_observation[v] <= t

\* A final run of every pending event, and the scheduler is emptied.
Finalize(time) ==
    /\ observed' = [v \in TView |->
           IF m_observation[v] # NoEvent THEN Append(observed[v], time)
                                         ELSE observed[v]]
    /\ m_observation' = [v \in TView |-> NoEvent]
    /\ UNCHANGED m_observableList

AddObservable(S) ==
    m_observableList' = [v \in TView |-> m_observableList[v] \cup S[v]]

\* Mutant: a deleted model is left in the views.
RemoveObservableForgotten(S) == UNCHANGED m_observableList

RemoveObservable(S) ==
    m_observableList' = [v \in TView |-> m_observableList[v] \ S]

=============================================================================
