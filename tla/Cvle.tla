-------------------------------- MODULE Cvle --------------------------------
(***************************************************************************)
(* The MPI front end (apps/cvle/cvle.cpp): the master, rank 0, reads the   *)
(* rows of an input file, sends them in blocks to the workers, writes the  *)
(* results in the order they arrive and stops the workers.  MPI keeps the  *)
(* order of the messages between two processes; a send returns at once or  *)
(* when its message is received, as the implementation of MPI likes.       *)
(*                                                                         *)
(* A line of the input is the set of the conditions it gives a value to;   *)
(* an empty line gives none.  A value is the number of the line it comes   *)
(* from, 0 is the value of the vpz file.                                   *)
(***************************************************************************)
EXTENDS Integers, Sequences, FiniteSets

CONSTANTS
    World,      \* number of workers, world_size - 1
    BlockSize,  \* option --block-size
    Conditions, \* conditions of the vpz that the rows may change
    Inputs      \* inputs: the lines after the header, whether the last one
                \* ends with a newline, and whether rows are vpz fragments

Workers == 1..World

ASSUME CvleAssumption ==
    /\ World \in Nat \ {0}
    /\ BlockSize \in Nat
    /\ \A i \in Inputs :
         /\ i.lines \in Seq(SUBSET Conditions)
         /\ i.newline \in BOOLEAN /\ i.complex \in BOOLEAN
         /\ (~i.newline /\ i.lines # <<>>) => i.lines[Len(i.lines)] # {}

VARIABLES
    \* class Root
    input,    \* the input stream
    pos,      \* lines read
    stream,   \* state of the stream: "good", "eof" or "fail"
    lastId,   \* m_last_id
    out,      \* results written
    \* run_as_master
    mpc,      \* the loop the master is in
    rank,     \* its loop counter
    busy,     \* workers[]
    \* MPI
    eager,    \* whether sends return at once
    toWorker, \* messages of the master
    toMaster, \* messages of the workers
    aborted,  \* "none", or why MPI_Abort was called
    \* run_as_worker, class Worker
    wpc,      \* what a worker is doing
    job,      \* rows left of its block
    rowId,    \* row identifier of the next one
    values,   \* values of the conditions in its vpz
    answer    \* results of its block

rootVars == <<input, pos, stream, lastId, out>>
workerVars == <<wpc, job, rowId, values, answer>>
vars == <<rootVars, mpc, rank, busy, eager, toWorker, toMaster, aborted, workerVars>>

Lines == input.lines
Size == Len(Lines)
IsRow(i) == Lines[i] # {}
Rows == {i \in 1..Size : IsRow(i)}

\* What a simulation of the row should see: its own values and the others
\* of the vpz file.
Own(i) == [c \in Conditions |-> IF c \in Lines[i] THEN i ELSE 0]

TypeOK ==
    /\ input \in Inputs
    /\ pos \in 0..Size
    /\ stream \in {"good", "eof", "fail"}
    /\ lastId \in Nat
    /\ out \in Seq([line : 1..Size, id : Nat, used : [Conditions -> Nat]])
    /\ mpc \in {"header", "distribute", "collect", "drain", "stop", "done"}
    /\ rank \in 1..(World + 1)
    /\ busy \subseteq Workers
    /\ eager \in BOOLEAN
    /\ DOMAIN toWorker = Workers /\ DOMAIN toMaster = Workers
    /\ aborted \in {"none", "worker", "order"}
    /\ wpc \in [Workers -> {"start", "idle", "run", "stopped"}]
    /\ job \in [Workers -> Seq(1..Size)]
    /\ rowId \in [Workers -> Nat]
    /\ values \in [Workers -> [Conditions -> Nat]]
    /\ answer \in [Workers -> Seq([line : 1..Size, id : Nat, used : [Conditions -> Nat]])]

-----------------------------------------------------------------------------
(* Root::read.                                                             *)

\* State of the stream after line p was extracted: getline reaches the end
\* of the file when the last line has no newline.
After(p) == IF p = Size /\ ~input.newline THEN "eof" ELSE "good"

\* Number of rows the loop takes: it stops after BlockSize rows, at the end
\* of the file and at an empty line.
Taken ==
    CHOOSE k \in 0..BlockSize :
        /\ pos + k <= Size
        /\ \A i \in (pos + 1)..(pos + k) : IsRow(i)
        /\ k < BlockSize => (pos + k = Size \/ ~IsRow(pos + k + 1))

\* The value returned, the block and the new state of the stream. An empty
\* line is consumed; so is the end of the file, unless the last row has
\* already met it. It is no error to be at the end of the file.
Read ==
    LET k == Taken
        Result(ok, n, p, s) ==
            [ok |-> ok, block |-> [j \in 1..n |-> pos + j], pos |-> p, stream |-> s]
    IN CASE stream = "fail" -> Result(FALSE, 0, pos, "fail")
         [] stream = "eof" -> Result(TRUE, 0, pos, "eof")
         [] stream = "good" /\ (k = BlockSize \/ After(pos + k) = "eof") ->
                Result(TRUE, k, pos + k, After(pos + k))
         [] OTHER -> IF pos + k = Size
                     THEN Result(k > 0, k, Size, "fail")
                     ELSE Result(k > 0, k, pos + k + 1, "good")

\* The bookkeeping of a read.
Advance(r) ==
    /\ pos' = r.pos
    /\ stream' = r.stream
    /\ lastId' = lastId + Len(r.block)

-----------------------------------------------------------------------------
(* Messages.                                                               *)

\* The messages of mpi_send_block: the rows, then the first row identifier.
Block(r) ==
    <<[tag |-> "todo", block |-> r.block], [tag |-> "todo", first |-> lastId]>>

\* The master continues when its sends have returned.
SendsReturned == eager \/ \A w \in Workers : toWorker[w] = <<>>

MasterAt(l) == aborted = "none" /\ mpc = l /\ SendsReturned

WorkerAt(w, l) == aborted = "none" /\ wpc[w] = l /\ (eager \/ toMaster[w] = <<>>)

Send(w, ms) == toWorker' = [toWorker EXCEPT ![w] = @ \o ms]

-----------------------------------------------------------------------------
(* run_as_master.                                                          *)

SendHeader ==
    /\ MasterAt("header")
    /\ Send(rank, <<[tag |-> "header"]>>)
    /\ IF rank = World
       THEN mpc' = "distribute" /\ rank' = 1
       ELSE UNCHANGED mpc /\ rank' = rank + 1
    /\ UNCHANGED <<rootVars, busy, eager, toMaster, aborted, workerVars>>

\* A first block for every worker, until read fails.
Distribute ==
    /\ MasterAt("distribute")
    /\ LET r == Read IN
       /\ Advance(r)
       /\ IF r.ok
          THEN /\ Send(rank, Block(r))
               /\ busy' = busy \cup {rank}
          ELSE UNCHANGED <<toWorker, busy>>
       /\ IF r.ok /\ rank < World
          THEN UNCHANGED mpc /\ rank' = rank + 1
          ELSE mpc' = "collect" /\ rank' = 1
    /\ UNCHANGED <<input, out, eager, toMaster, aborted, workerVars>>

\* mpi_recv_string takes the next message of any worker, and its block is
\* written.
Receive(w) ==
    /\ toMaster[w] # <<>>
    /\ toMaster' = [toMaster EXCEPT ![w] = Tail(@)]
    /\ out' = out \o Head(toMaster[w]).rows

\* A change of Collect: the flag of the worker is never cleared.
CollectBusy(w) ==
    /\ MasterAt("collect")
    /\ Receive(w)
    /\ LET r == Read IN
       /\ Advance(r)
       /\ IF r.block # <<>> THEN Send(w, Block(r)) ELSE UNCHANGED toWorker
       /\ busy' = busy \cup {w}
       /\ mpc' = IF r.ok THEN "collect" ELSE "drain"
    /\ UNCHANGED <<input, rank, eager, aborted, workerVars>>

\* The worker gets another block. The loop ends when read fails, even if it
\* has no reason to fail.
Collect(w) ==
    /\ MasterAt("collect")
    /\ Receive(w)
    /\ LET r == Read IN
       /\ Advance(r)
       /\ IF r.block # <<>>
          THEN Send(w, Block(r)) /\ busy' = busy \cup {w}
          ELSE UNCHANGED toWorker /\ busy' = busy \ {w}
       /\ mpc' = IF r.ok THEN "collect" ELSE "drain"
    /\ UNCHANGED <<input, rank, eager, aborted, workerVars>>

Drain(w) ==
    /\ MasterAt("drain")
    /\ busy # {}
    /\ Receive(w)
    /\ busy' = busy \ {w}
    /\ UNCHANGED <<input, pos, stream, lastId, mpc, rank, eager, toWorker, aborted, workerVars>>

\* A change of SendEnd: the answers that are left are not waited for.
SendEndEarly ==
    /\ MasterAt("drain") \/ MasterAt("stop")
    /\ Send(rank, <<[tag |-> "end"]>>)
    /\ IF rank = World
       THEN mpc' = "done" /\ UNCHANGED rank
       ELSE mpc' = "stop" /\ rank' = rank + 1
    /\ UNCHANGED <<rootVars, busy, eager, toMaster, aborted, workerVars>>

\* A change of SendEnd: the loop stops one worker early.
SendEndShort ==
    /\ \/ MasterAt("drain") /\ busy = {}
       \/ MasterAt("stop")
    /\ Send(rank, <<[tag |-> "end"]>>)
    /\ IF rank + 1 >= World
       THEN mpc' = "done" /\ UNCHANGED rank
       ELSE mpc' = "stop" /\ rank' = rank + 1
    /\ UNCHANGED <<rootVars, busy, eager, toMaster, aborted, workerVars>>

SendEnd ==
    /\ \/ MasterAt("drain") /\ busy = {}
       \/ MasterAt("stop")
    /\ Send(rank, <<[tag |-> "end"]>>)
    /\ IF rank = World
       THEN mpc' = "done" /\ UNCHANGED rank
       ELSE mpc' = "stop" /\ rank' = rank + 1
    /\ UNCHANGED <<rootVars, busy, eager, toMaster, aborted, workerVars>>

Master == SendHeader \/ Distribute \/ SendEnd \/ \E w \in Workers : Collect(w) \/ Drain(w)

-----------------------------------------------------------------------------
(* run_as_worker.                                                          *)

Message(w) == Head(toWorker[w])

RecvHeader(w) ==
    /\ WorkerAt(w, "start")
    /\ toWorker[w] # <<>>
    /\ toWorker' = [toWorker EXCEPT ![w] = Tail(@)]
    /\ IF Message(w).tag = "header"
       THEN wpc' = [wpc EXCEPT ![w] = "idle"] /\ UNCHANGED aborted
       ELSE aborted' = "order" /\ UNCHANGED wpc
    /\ UNCHANGED <<rootVars, mpc, rank, busy, eager, toMaster, job, rowId, values, answer>>

\* mpi_worker, for a block: both of its messages.
RecvBlock(w) ==
    /\ WorkerAt(w, "idle")
    /\ Len(toWorker[w]) >= 2
    /\ Message(w).tag = "todo"
    /\ toWorker' = [toWorker EXCEPT ![w] = Tail(Tail(@))]
    /\ job' = [job EXCEPT ![w] = Message(w).block]
    /\ rowId' = [rowId EXCEPT ![w] = toWorker[w][2].first]
    /\ answer' = [answer EXCEPT ![w] = <<>>]
    /\ wpc' = [wpc EXCEPT ![w] = "run"]
    /\ UNCHANGED <<rootVars, mpc, rank, busy, eager, toMaster, aborted, values>>

\* The end, or a message that is not expected here.
RecvEnd(w) ==
    /\ WorkerAt(w, "idle")
    /\ toWorker[w] # <<>>
    /\ Message(w).tag # "todo"
    /\ toWorker' = [toWorker EXCEPT ![w] = Tail(@)]
    /\ IF Message(w).tag = "end"
       THEN wpc' = [wpc EXCEPT ![w] = "stopped"] /\ UNCHANGED aborted
       ELSE aborted' = "order" /\ UNCHANGED wpc
    /\ UNCHANGED <<rootVars, mpc, rank, busy, eager, toMaster, job, rowId, values, answer>>

\* ConditionsBackup::modify, or Columns::update for every column of the row.
Modify(w, i) == [c \in Conditions |-> IF c \in Lines[i] THEN i ELSE values[w][c]]

\* A change of Restore: nothing is restored.
RestoreNothing(f, i) == f

\* ConditionsBackup::restoreBackup: the conditions of the row get their
\* values of the vpz file again. Columns keep theirs.
Restore(f, i) ==
    IF input.complex THEN [c \in Conditions |-> IF c \in Lines[i] THEN 0 ELSE f[c]] ELSE f

\* One row of the loop of Worker::run. A simulation that fails gives its
\* message as result.
Simulate(w) ==
    /\ WorkerAt(w, "run")
    /\ job[w] # <<>>
    /\ LET i == Head(job[w]) IN
       /\ answer' = [answer EXCEPT ![w] =
                        Append(@, [line |-> i, id |-> rowId[w], used |-> Modify(w, i)])]
       /\ values' = [values EXCEPT ![w] = Restore(Modify(w, i), i)]
    /\ job' = [job EXCEPT ![w] = Tail(@)]
    /\ rowId' = [rowId EXCEPT ![w] = @ + 1]
    /\ UNCHANGED <<rootVars, mpc, rank, busy, eager, toWorker, toMaster, aborted, wpc>>

Reply(w) ==
    /\ WorkerAt(w, "run")
    /\ job[w] = <<>>
    /\ toMaster' = [toMaster EXCEPT ![w] = Append(@, [tag |-> "block_end", rows |-> answer[w]])]
    /\ wpc' = [wpc EXCEPT ![w] = "idle"]
    /\ UNCHANGED <<rootVars, mpc, rank, busy, eager, toWorker, aborted, job, rowId, values, answer>>

\* An exception in a worker (a bad header, value or condition, a workspace
\* that exists) ends all the processes.
WorkerFails(w) ==
    /\ aborted = "none"
    /\ \/ wpc[w] = "start" /\ toWorker[w] # <<>>
       \/ wpc[w] = "run" /\ job[w] # <<>>
    /\ aborted' = "worker"
    /\ UNCHANGED <<rootVars, mpc, rank, busy, eager, toWorker, toMaster, workerVars>>

WorkerStep(w) ==
    RecvHeader(w) \/ RecvBlock(w) \/ RecvEnd(w) \/ Simulate(w) \/ Reply(w)

-----------------------------------------------------------------------------
Init ==
    /\ input \in Inputs
    /\ pos = 0
    /\ stream = IF Size = 0 /\ ~input.newline THEN "eof" ELSE "good"
    /\ lastId = 0
    /\ out = <<>>
    /\ mpc = "header" /\ rank = 1 /\ busy = {}
    /\ eager \in BOOLEAN
    /\ toWorker = [w \in Workers |-> <<>>]
    /\ toMaster = [w \in Workers |-> <<>>]
    /\ aborted = "none"
    /\ wpc = [w \in Workers |-> "start"]
    /\ job = [w \in Workers |-> <<>>]
    /\ rowId = [w \in Workers |-> 0]
    /\ values = [w \in Workers |-> [c \in Conditions |-> 0]]
    /\ answer = [w \in Workers |-> <<>>]

Ended == mpc = "done" /\ \A w \in Workers : wpc[w] = "stopped"

\* The master ended, or all processes are killed.
Terminated == (mpc = "done" \/ aborted # "none") /\ UNCHANGED vars

Next == Master \/ (\E w \in Workers : WorkerStep(w) \/ WorkerFails(w)) \/ Terminated

\* Every process is scheduled; nothing makes a worker fail.
Spec ==
    /\ Init
    /\ [][Next]_vars
    /\ WF_vars(Master)
    /\ \A w \in Workers : WF_vars(WorkerStep(w))
-----------------------------------------------------------------------------
(* Properties.                                                             *)

\* Where the block of a worker is.
Pending(w) ==
    LET todo == {k \in 1..Len(toWorker[w]) : toWorker[w][k].tag = "todo"} IN
    Cardinality(todo) \div 2 + (IF wpc[w] = "run" THEN 1 ELSE 0) + Len(toMaster[w])

\* The flags workers[] of the master tell the truth: a worker has one block
\* on its way, in work or on the way back if its flag is set, and none
\* otherwise. The end of the program waits for these flags.
OneBlockEach ==
    aborted = "none" => \A w \in Workers : Pending(w) = IF w \in busy THEN 1 ELSE 0

\* No process meets a message it does not expect: no worker aborts because
\* of the order of messages, and the assertion of the master on the tag of
\* an answer holds.
MessageOrder ==
    /\ aborted # "order"
    /\ \A w \in Workers : \A k \in 1..Len(toMaster[w]) : toMaster[w][k].tag = "block_end"

\* The protocol of run_as_master and run_as_worker: the flags tell where the
\* blocks are, and every process gets the messages it waits for.
Protocol == TypeOK /\ OneBlockEach /\ MessageOrder

\* No row is written twice, whatever the order in which workers answer.
RowsOnce == \A j, k \in 1..Len(out) : out[j].line = out[k].line => j = k

\* The identifier of a row, which names its workspace and its instance, is
\* its rank among the rows of the input.
RowIdentified ==
    \A k \in 1..Len(out) :
        out[k].id = Cardinality({i \in Rows : i < out[k].line})

\* A row is simulated with its own values and those of the vpz file, never
\* with the values of a row the worker simulated before.
RowIsolated == \A k \in 1..Len(out) : out[k].used = Own(out[k].line)

\* What Root::write puts in the output: each row at most once, under its own
\* identifier, simulated with its own values.
RowResults == RowsOnce /\ RowIdentified /\ RowIsolated

\* The master and all the workers stop.
EveryoneStops == <>(Ended \/ aborted # "none")

Abstract == INSTANCE Farm WITH
    rows <- Rows,
    gap <- \E i \in 1..Size : ~IsRow(i),
    taken <- {i \in Rows : i <= pos},
    written <- {out[k].line : k \in 1..Len(out)},
    status <- IF mpc \in {"stop", "done"} THEN "ended"
              ELSE IF aborted # "none" THEN "failed" ELSE "running"

\* The program ends by itself only when the results of all rows are written
\* (the rows before an empty line that ends the input).
ImplementsFarm == Abstract!Spec
=============================================================================
