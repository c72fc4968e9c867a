-------------------------------- MODULE Devs --------------------------------
(***************************************************************************)
(* What a simulation promises, without heap, handles, bags or loops: the   *)
(* semantics of parallel DEVS with dynamic structure that the coordinator  *)
(* implements.  Every simulator has the date of its next internal event;   *)
(* the clock jumps to the least of them; the simulators due at that date,  *)
(* and those their outputs reach, make one transition each.                *)
(***************************************************************************)
EXTENDS Integers

CONSTANTS Sim, Exec, Infinity, Begin, Duration

VARIABLES
    clock,  \* date of the current bag
    live,   \* living simulators
    tn,     \* date of the next internal event of each simulator
    todo,   \* simulators that have a transition to make in this bag
    stage   \* "setup", then "emit" and "move" in turn for each bag

devsVars == <<clock, live, tn, todo, stage>>

\* The date of a simulator that does not exist yet.
Unborn == -1

DevsInit ==
    /\ clock = Unborn
    /\ live = {}
    /\ tn = [s \in Sim |-> Unborn]
    /\ todo = {}
    /\ stage = "setup"

\* New simulators plan their first event now or later.
Create ==
    /\ stage # "emit"
    /\ \E S \in SUBSET {s \in Sim : tn[s] = Unborn} :
           /\ live' = live \cup S
           /\ \A s \in Sim \ S : tn'[s] = tn[s]
           /\ \A s \in S : tn'[s] \in clock .. Infinity /\ tn'[s] >= Begin
    /\ tn' \in [Sim -> Unborn .. Infinity]
    /\ UNCHANGED <<clock, todo, stage>>

\* A simulator disappears when the bag has nothing left to process.
Delete ==
    /\ stage = "move"
    /\ todo = {}
    /\ \E s \in live : live' = live \ {s}
    /\ UNCHANGED <<clock, tn, todo, stage>>

Open ==
    /\ stage = "setup"
    /\ clock' = Begin
    /\ todo' = {s \in live : tn[s] <= Begin}
    /\ stage' = "emit"
    /\ UNCHANGED <<live, tn>>

\* An output of a simulator that is due reaches s.
Influence ==
    /\ stage = "emit"
    /\ \E r \in live : tn[r] <= clock
    /\ \E s \in live : todo' = todo \cup {s}
    /\ UNCHANGED <<clock, live, tn, stage>>

\* All the outputs of a bag precede all its transitions.
Seal ==
    /\ stage = "emit"
    /\ stage' = "move"
    /\ UNCHANGED <<clock, live, tn, todo>>

\* One transition; the executives wait for the other simulators.
Move ==
    /\ stage = "move"
    /\ \E s \in todo :
           /\ s \in Exec => todo \subseteq Exec
           /\ \E t \in clock .. Infinity : tn' = [tn EXCEPT ![s] = t]
           /\ todo' = todo \ {s}
    /\ UNCHANGED <<clock, live, stage>>

\* The clock jumps to the first date planned by a living simulator.
Advance ==
    /\ stage = "move"
    /\ todo = {}
    /\ clock <= Duration
    /\ clock' \in clock .. Infinity
    /\ \A s \in live : clock' <= tn[s]
    /\ clock' = Infinity \/ \E s \in live : tn[s] = clock'
    /\ todo' = {s \in live : tn[s] = clock' /\ clock' < Infinity}
    /\ stage' = "emit"
    /\ UNCHANGED <<live, tn>>

DevsNext ==
    \/ Create \/ Delete \/ Open \/ Influence \/ Seal \/ Move \/ Advance

DevsSpec == DevsInit /\ [][DevsNext]_devsVars

=============================================================================
