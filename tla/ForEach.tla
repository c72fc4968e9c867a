------------------------------- MODULE ForEach -------------------------------
(***************************************************************************)
(* What SimulatorProcessParallel::for_each promises the coordinator: as if *)
(* it made the transition of each simulator of the vector, in some order,  *)
(* once, before it returned, and nothing outside the call.                 *)
(***************************************************************************)
EXTENDS Integers

CONSTANT MaxJobs

VARIABLES
    calling,    \* a call of for_each is running
    todo        \* the simulators of the call that are not processed yet

forEachVars == <<calling, todo>>

ForEachInit == calling = FALSE /\ todo = {}

Call == /\ ~calling
        /\ calling' = TRUE
        /\ \E n \in 0 .. MaxJobs : todo' = 1 .. n

Process == /\ calling
           /\ \E k \in todo : todo' = todo \ {k}
           /\ UNCHANGED calling

Return == /\ calling /\ todo = {}
          /\ calling' = FALSE
          /\ UNCHANGED todo

ForEachNext == Call \/ Process \/ Return

ForEachSpec == ForEachInit /\ [][ForEachNext]_forEachVars

=============================================================================
