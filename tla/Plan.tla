-------------------------------- MODULE Plan --------------------------------
(***************************************************************************)
(* A plan of simulations (manager::Manager, details/thread_specific.hpp,   *)
(* manager_concepts.hpp): N inputs with M replicates each are simulated by *)
(* the threads, thread t doing t, t + nslots, and so on; each result is    *)
(* aggregated under a mutex.  A simulation (manager::Simulation) runs in   *)
(* the thread or in a child process, with or without a timeout.            *)
(***************************************************************************)
EXTENDS Integers, Sequences, FiniteSets, Spawn

CONSTANTS
    N, M,         \* inputs, replicates
    MaxSlots,     \* largest number of threads
    NbOutputs,    \* outputs of the plan
    Modes,        \* of "thread", "child" and "timeout", how to simulate
    Shapes,       \* of "regular" and "scalar": whether an input of several
                  \* values stands beside one that has a single value
    FailingSlots  \* numbers of threads with which fork may fail

ASSUME PlanAssumption ==
    /\ N \in Nat \ {0} /\ M \in Nat \ {0}
    /\ MaxSlots \in Nat \ {0}
    /\ Owners = 0..(MaxSlots - 1)
    /\ NbOutputs \in Nat \ {0}
    /\ Modes \subseteq {"thread", "child", "timeout"}
    /\ Shapes \subseteq {"regular", "scalar"}
    /\ FailingSlots \subseteq 1..MaxSlots

Threads == Owners
Total == N * M
Sims == 0..(Total - 1)
Outputs == 1..NbOutputs
NoError == -1
NoThread == -1
Torn == -2 \* a text that two threads wrote at once

VARIABLES
    nslots, mode, shape, \* configuration of the manager and of the plan
    pc,       \* where a thread is in its loop
    index,    \* loop counter i of a thread
    late,     \* whether the time of its simulation is over
    outcome,  \* of its simulation: "ok", "error", or "null" (no result and
              \* no error)
    mutex,    \* thread that holds results_mutex
    out,      \* output being aggregated
    mError,   \* code of the error kept: its simulation; Total for the error
              \* of the inputs
    message,  \* text of the error kept: the simulation it names, Total or Torn
    replicateAccu, \* per output and input, the simulations aggregated
    inputAccu,     \* per output, the inputs aggregated
    results,  \* per output, the value returned to the user
    begun,    \* history: simulations that a thread began
    failed,   \* history: simulations or aggregations that failed
    blank,    \* history: whether a child that exited with 0 left no output
              \* that can be read
    returned  \* "no", "results" or "error"

planVars == <<nslots, mode, shape>>
aggregateVars == <<replicateAccu, inputAccu, results>>
errorVars == <<mError, message>>
vars == <<planVars, pc, index, late, outcome, mutex, out, errorVars, aggregateVars,
          begun, failed, blank, returned, spawnVars>>

PCs == {"loop", "message", "sim", "started", "poll", "elapsed", "wait", "status", "destroy",
        "lock", "locked", "aggregate", "end", "undefined"}

TypeOK ==
    /\ SpawnTypeOK
    /\ nslots \in 1..MaxSlots /\ mode \in Modes /\ shape \in Shapes
    /\ pc \in [Threads -> PCs]
    /\ index \in [Threads -> 0..(Total + MaxSlots)]
    /\ late \in [Threads -> BOOLEAN]
    /\ outcome \in [Threads -> {"ok", "error", "null"}]
    /\ mutex \in Threads \cup {NoThread}
    /\ out \in Outputs
    /\ mError \in NoError..Total /\ message \in Torn..Total
    /\ replicateAccu \in [Outputs -> [0..(N - 1) -> Seq(Sims)]]
    /\ inputAccu \in [Outputs -> Seq(Seq(Sims))]
    /\ results \in [Outputs -> Seq(Seq(Sims))]
    /\ begun \subseteq Sims /\ failed \subseteq Sims /\ blank \in BOOLEAN
    /\ returned \in {"no", "results", "error"}

Init ==
    /\ SpawnInit
    /\ nslots \in 1..MaxSlots /\ mode \in Modes /\ shape \in Shapes
    /\ pc = [t \in Threads |-> IF t < nslots THEN "loop" ELSE "end"]
    /\ index = [t \in Threads |-> t]
    /\ late = [t \in Threads |-> FALSE]
    /\ outcome = [t \in Threads |-> "ok"]
    /\ mutex = NoThread
    /\ out = 1
    /\ mError = NoError /\ message = NoError
    /\ replicateAccu = [o \in Outputs |-> [k \in 0..(N - 1) |-> <<>>]]
    /\ inputAccu = [o \in Outputs |-> <<>>]
    /\ results = [o \in Outputs |-> <<>>]
    /\ begun = {} /\ failed = {} /\ blank = FALSE
    /\ returned = "no"

Goto(t, l) == pc' = [pc EXCEPT ![t] = l]

-----------------------------------------------------------------------------
(* The loop of thread_worker, up to the simulation.                        *)

\* The values of the inputs are put in a copy of the vpz. A single value
\* beside several is an error, which is written without the mutex: its code,
\* then its text.
Prepare(t) ==
    /\ pc[t] = "loop"
    /\ \/ /\ index[t] >= Total
          /\ Goto(t, "end")
          /\ UNCHANGED <<mError, begun>>
       \/ /\ index[t] < Total /\ shape = "scalar" /\ N > 1
          /\ mError' = Total
          /\ Goto(t, "message")
          /\ UNCHANGED begun
       \/ /\ index[t] < Total /\ ~(shape = "scalar" /\ N > 1)
          /\ begun' = begun \cup {index[t]}
          /\ Goto(t, "sim")
          /\ UNCHANGED mError
    /\ UNCHANGED <<planVars, index, late, outcome, mutex, out, message, aggregateVars, failed,
                   blank, returned, spawnVars>>

\* The text is a string: when two threads assign it at once, whatever is left
\* may be torn.
WriteMessage(t) ==
    /\ pc[t] = "message"
    /\ message' \in IF message = Torn \/ \E u \in Threads \ {t} : pc[u] = "message"
                    THEN {Total, Torn} ELSE {Total}
    /\ Goto(t, "end")
    /\ UNCHANGED <<planVars, index, late, outcome, mutex, out, mError, aggregateVars, begun,
                   failed, blank, returned, spawnVars>>

-----------------------------------------------------------------------------
(* Simulation::run.                                                        *)

Ends(t, r) ==
    /\ outcome' = [outcome EXCEPT ![t] = r]
    /\ failed' = IF r = "error" THEN failed \cup {index[t]} ELSE failed

\* runQuiet and runVerbose: an exception of the simulation is an error.
RunInThread(t) ==
    /\ pc[t] = "sim"
    /\ mode = "thread"
    /\ \E r \in {"ok", "error"} : Ends(t, r)
    /\ Goto(t, "lock")
    /\ UNCHANGED <<planVars, index, late, mutex, out, errorVars, aggregateVars, begun, blank, returned, spawnVars>>

\* runSubProcess starts the child.
StartChild(t) ==
    /\ pc[t] = "sim"
    /\ mode # "thread"
    /\ Fork(t)
    /\ late' = [late EXCEPT ![t] = FALSE]
    /\ Goto(t, "started")
    /\ UNCHANGED <<planVars, index, outcome, mutex, out, errorVars, aggregateVars, begun, failed, blank, returned>>

StartFails(t) ==
    /\ pc[t] = "sim"
    /\ mode # "thread"
    /\ nslots \in FailingSlots
    /\ ForkFails(t)
    /\ Ends(t, "error")
    /\ Goto(t, "destroy")
    /\ UNCHANGED <<planVars, index, late, mutex, out, errorVars, aggregateVars, begun, blank, returned>>

\* The end of start.
Started(t) ==
    /\ pc[t] = "started"
    /\ \E running \in BOOLEAN :
         /\ IsRunning(t, running)
         /\ Goto(t, IF running THEN "poll" ELSE "destroy")
         /\ IF running THEN UNCHANGED <<outcome, failed>> ELSE Ends(t, "error")
    /\ UNCHANGED <<planVars, index, late, mutex, out, errorVars, aggregateVars, begun, blank, returned>>

\* The loop: get looks whether the child runs, and takes its output.
Poll(t) ==
    /\ pc[t] = "poll"
    /\ IF finish[t]
       THEN Goto(t, "wait") /\ UNCHANGED spawnVars
       ELSE /\ \E r \in BOOLEAN : IsRunning(t, r)
            /\ Goto(t, IF mode = "timeout" THEN "elapsed" ELSE "poll")
    /\ UNCHANGED <<planVars, index, late, outcome, mutex, out, errorVars, aggregateVars, begun, failed, blank, returned>>

\* A change of Elapsed: the child is waited for but not killed.
ElapsedPatient(t) ==
    /\ pc[t] = "elapsed"
    /\ Goto(t, IF late[t] THEN "wait" ELSE "poll")
    /\ UNCHANGED <<planVars, index, late, outcome, mutex, out, errorVars, aggregateVars, begun,
                   failed, blank, returned, spawnVars>>


Elapsed(t) ==
    /\ pc[t] = "elapsed"
    /\ IF late[t]
       THEN Kill(t) /\ Goto(t, "wait")
       ELSE UNCHANGED spawnVars /\ Goto(t, "poll")
    /\ UNCHANGED <<planVars, index, late, outcome, mutex, out, errorVars, aggregateVars, begun, failed, blank, returned>>

\* A change of WaitChild: the end of the child is looked at once.
WaitChildOnce(t) ==
    /\ pc[t] = "wait"
    /\ \E running \in BOOLEAN : IsRunning(t, running)
    /\ Goto(t, "status")
    /\ UNCHANGED <<planVars, index, late, outcome, mutex, out, errorVars, aggregateVars, begun,
                   failed, blank, returned>>


WaitChild(t) ==
    /\ pc[t] = "wait"
    /\ Wait(t)
    /\ Goto(t, "status")
    /\ UNCHANGED <<planVars, index, late, outcome, mutex, out, errorVars, aggregateVars, begun, failed, blank, returned>>

\* A child that did not end well has written no result, and one that did may
\* have left none that read_value can read.
Status(t) ==
    /\ pc[t] = "status"
    /\ \/ ~Success(t) /\ Ends(t, "error") /\ UNCHANGED blank
       \/ Success(t) /\ code[t] = "ok" /\ Ends(t, "ok") /\ UNCHANGED blank
       \/ Success(t) /\ Ends(t, "null") /\ blank' = (blank \/ code[t] = "ok")
    /\ Goto(t, "destroy")
    /\ UNCHANGED <<planVars, index, late, mutex, out, errorVars, aggregateVars, begun, returned, spawnVars>>

\* The Spawn object goes out of scope: its destructor waits for a child it
\* thinks is running.
Destroy(t) ==
    /\ pc[t] = "destroy"
    /\ IF started[t] /\ ~finish[t] /\ Waited(t) # {}
       THEN Reap(t) /\ UNCHANGED pc
       ELSE Dispose(t) /\ Goto(t, "lock")
    /\ UNCHANGED <<planVars, index, late, outcome, mutex, out, errorVars, aggregateVars, begun, failed, blank, returned>>

-----------------------------------------------------------------------------
(* The loop of thread_worker, after the simulation.                        *)

Lock(t) ==
    /\ pc[t] = "lock"
    /\ mutex = NoThread
    /\ mutex' = t
    /\ Goto(t, "locked")
    /\ UNCHANGED <<planVars, index, late, outcome, out, errorVars, aggregateVars, begun, failed, blank, returned, spawnVars>>

\* A change of CheckError: a thread looks at its own error first.
CheckErrorLast(t) ==
    /\ pc[t] = "locked"
    /\ IF mError # NoError \/ outcome[t] = "error"
       THEN /\ mError' = IF outcome[t] = "error" THEN index[t] ELSE mError
            /\ message' = mError'
            /\ mutex' = NoThread
            /\ Goto(t, "end")
            /\ UNCHANGED out
       ELSE /\ out' = 1
            /\ Goto(t, "aggregate")
            /\ UNCHANGED <<errorVars, mutex>>
    /\ UNCHANGED <<planVars, index, late, outcome, aggregateVars, begun, failed, blank, returned, spawnVars>>

\* The first error is kept, and every thread that sees it stops.
CheckError(t) ==
    /\ pc[t] = "locked"
    /\ IF mError # NoError \/ outcome[t] = "error"
       THEN /\ mError' = IF mError = NoError THEN index[t] ELSE mError
            /\ message' = IF mError = NoError THEN index[t] ELSE message
            /\ mutex' = NoThread
            /\ Goto(t, "end")
            /\ UNCHANGED out
       ELSE /\ out' = 1
            /\ Goto(t, "aggregate")
            /\ UNCHANGED <<errorVars, mutex>>
    /\ UNCHANGED <<planVars, index, late, outcome, aggregateVars, begun, failed, blank, returned, spawnVars>>

\* A change of InsertReplicate: the replicates of an input are those with the
\* same remainder.
InsertReplicateModulo(i) ==
    LET k == i % N
        gathered == Append(replicateAccu[out][k], i)
        filled == Len(gathered) = M
        inputs == IF filled THEN Append(inputAccu[out], gathered) ELSE inputAccu[out]
    IN /\ replicateAccu' = [replicateAccu EXCEPT ![out][k] = IF filled THEN <<>> ELSE gathered]
       /\ inputAccu' = [inputAccu EXCEPT ![out] = inputs]
       /\ results' = IF Len(inputs) = N THEN [results EXCEPT ![out] = inputs] ELSE results

\* DelegateOut::insertReplicate: the replicates of an input are gathered;
\* when the last one is there the input is, and when the last input is there
\* the value of the output is returned.
InsertReplicate(i) ==
    LET k == i \div M
        gathered == Append(replicateAccu[out][k], i)
        filled == Len(gathered) = M
        inputs == IF filled THEN Append(inputAccu[out], gathered) ELSE inputAccu[out]
    IN /\ replicateAccu' = [replicateAccu EXCEPT ![out][k] = IF filled THEN <<>> ELSE gathered]
       /\ inputAccu' = [inputAccu EXCEPT ![out] = inputs]
       /\ results' = IF Len(inputs) = N THEN [results EXCEPT ![out] = inputs] ELSE results

\* One output of the loop.
Aggregate(t) ==
    /\ pc[t] = "aggregate" /\ outcome[t] # "null"
    /\ InsertReplicate(index[t])
    /\ IF out < NbOutputs
       THEN out' = out + 1 /\ UNCHANGED <<pc, index, mutex>>
       ELSE /\ mutex' = NoThread
            /\ index' = [index EXCEPT ![t] = @ + nslots]
            /\ Goto(t, "loop")
            /\ UNCHANGED out
    /\ UNCHANGED <<planVars, late, outcome, errorVars, begun, failed, blank, returned, spawnVars>>

\* A simulation without result and without error is read through a null
\* pointer.
ReadNull(t) ==
    /\ pc[t] = "aggregate" /\ outcome[t] = "null"
    /\ Goto(t, "undefined")
    /\ UNCHANGED <<planVars, index, late, outcome, mutex, out, errorVars, aggregateVars, begun,
                   failed, blank, returned, spawnVars>>

\* A view or a port is missing, or its values cannot be aggregated.
AggregateThrows(t) ==
    /\ pc[t] = "aggregate"
    /\ outcome[t] = "ok"
    /\ mError' = index[t] /\ message' = index[t]
    /\ failed' = failed \cup {index[t]}
    /\ mutex' = NoThread
    /\ Goto(t, "end")
    /\ UNCHANGED <<planVars, index, late, outcome, out, aggregateVars, begun, blank, returned, spawnVars>>

\* A change of Join: the manager goes on when one thread ended.
JoinOne ==
    /\ returned = "no"
    /\ \E t \in 0..(nslots - 1) : pc[t] = "end"
    /\ returned' = IF mError = NoError THEN "results" ELSE "error"
    /\ UNCHANGED <<planVars, pc, index, late, outcome, mutex, out, errorVars, aggregateVars,
                   begun, failed, blank, spawnVars>>

\* run_with_threads joins the threads and looks at the error.
Join ==
    /\ returned = "no"
    /\ \A t \in Threads : pc[t] = "end"
    /\ returned' = IF mError = NoError THEN "results" ELSE "error"
    /\ UNCHANGED <<planVars, pc, index, late, outcome, mutex, out, errorVars, aggregateVars,
                   begun, failed, blank, spawnVars>>

Thread(t) ==
    \/ Prepare(t) \/ WriteMessage(t) \/ RunInThread(t) \/ StartChild(t) \/ StartFails(t)
    \/ Started(t) \/ Poll(t) \/ Elapsed(t) \/ WaitChild(t) \/ Status(t) \/ Destroy(t)
    \/ Lock(t) \/ CheckError(t) \/ Aggregate(t) \/ ReadNull(t) \/ AggregateThrows(t)

-----------------------------------------------------------------------------
(* The children and the time.                                              *)

rest == <<planVars, pc, index, outcome, mutex, out, errorVars, aggregateVars, begun, failed, blank, returned>>

Exits(t) == ChildExits(t) /\ UNCHANGED <<rest, late>>

Killed(t) == ChildKilled(t) /\ UNCHANGED <<rest, late>>

Tick(t) ==
    /\ mode = "timeout" /\ pc[t] \in {"poll", "elapsed"} /\ ~late[t]
    /\ late' = [late EXCEPT ![t] = TRUE]
    /\ UNCHANGED <<rest, spawnVars>>

Crashed == \E t \in Threads : pc[t] = "undefined"

Terminated == (returned # "no" \/ Crashed) /\ UNCHANGED vars

Next ==
    \/ \E t \in Threads : ~Crashed /\ (Thread(t) \/ Exits(t) \/ Killed(t) \/ Tick(t))
    \/ Join
    \/ Terminated

\* Threads are scheduled, time passes and the system delivers signals. A
\* child is only supposed to end by itself when there is no timeout.
Spec ==
    /\ Init
    /\ [][Next]_vars
    /\ \A t \in Threads :
         /\ WF_vars(~Crashed /\ Thread(t))
         /\ WF_vars(~Crashed /\ Killed(t))
         /\ WF_vars(~Crashed /\ Tick(t))
         /\ WF_vars(~Crashed /\ mode # "timeout" /\ Exits(t))
    /\ WF_vars(Join)

-----------------------------------------------------------------------------
(* Properties.                                                             *)

\* The simulations of an input.
Replicates(k) == {i \in Sims : i \div M = k}

\* When the plan returns results, each output is made of every simulation,
\* each once, with the replicates of an input together, in whatever order
\* the threads ended.
ResultsComplete ==
    returned = "results" =>
        \A o \in Outputs :
            /\ Len(results[o]) = N
            /\ \A k \in 1..N : Len(results[o][k]) = M
            /\ {{results[o][k][j] : j \in 1..M} : k \in 1..N} =
                 {Replicates(k) : k \in 0..(N - 1)}

\* A plan returns an error exactly when a simulation or an aggregation
\* failed, or its inputs do not fit; a child that was killed because of the
\* timeout is a failure. The text of the error goes with its code; only the
\* one about inputs that do not fit may be torn.
ErrorReported ==
    /\ returned # "no" =>
         (returned = "error" <=> failed # {} \/ (shape = "scalar" /\ N > 1))
    /\ returned = "error" =>
         message = mError \/ (message = Torn /\ shape = "scalar" /\ N > 1)

\* What run_with_threads returns: an error exactly when something failed, and
\* otherwise results in which nothing is missing or counted twice.
AnswerRight == ResultsComplete /\ ErrorReported

\* The assertions of Spawn hold when the status of a child is asked for, and
\* nothing is read through a null pointer: neither the result of a simulation
\* nor the accumulator of an output that is already complete. Not claimed of
\* the result of a child that exited with 0 and left no output that can be
\* read: insertReplicate dereferences it.
NothingUndefined ==
    /\ TypeOK
    /\ \A t \in Threads :
         /\ pc[t] = "status" => finish[t]
         /\ pc[t] = "undefined" => blank
         /\ pc[t] = "aggregate" => results[out] = <<>>

\* A simulation is judged by the end of its own child: no object waits for,
\* or takes the status of, the child of another.
OwnChildren ==
    \A t \in Threads :
        /\ (pc[t] \in {"wait", "status"} /\ finish[t]) =>
             child[t] = "reaped" /\ status[t] = code[t]
        /\ returned # "no" => child[t] = "none"

\* The error that was met first is the one the user gets.
FirstErrorKept == [][mError # NoError => mError' = mError]_vars

\* The plan ends, even if children run for ever when they have a timeout.
PlanEnds == <>(returned # "no" \/ Crashed)

Abstract == INSTANCE Farm WITH
    rows <- Sims,
    gap <- FALSE,
    taken <- begun,
    written <- {i \in Sims : \E t \in Threads : t < nslots /\ i % nslots = t /\ i < index[t]},
    status <- IF returned = "results" THEN "ended"
              ELSE IF mError # NoError THEN "failed" ELSE "running"

\* A plan takes and aggregates each simulation once, and only returns results
\* when all are aggregated.
ImplementsFarm == Abstract!Spec
=============================================================================
