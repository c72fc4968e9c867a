------------------------------ MODULE ThreadPool ------------------------------
(***************************************************************************)
(* SimulatorProcessParallel: the pool of threads that computes the         *)
(* transitions of the dynamics of a bag.  The coordinator's thread calls   *)
(* for_each; it and the workers claim blocks of the vector from the atomic *)
(* counter m_block_id, and m_block_count counts the blocks down.           *)
(*                                                                         *)
(* One step per access to a shared variable.  Every access is relaxed in   *)
(* the code.  A behaviour is one of a build: with relaxed = FALSE the      *)
(* stores of for_each reach the workers in program order (what a build for *)
(* x86 does), with relaxed = TRUE the stores of m_jobs and m_block_count   *)
(* reach them at any later time (what the C++ memory model allows).        *)
(***************************************************************************)
EXTENDS Integers, FiniteSets

CONSTANTS
    Worker,     \* the threads of the pool
    Main,       \* the thread of the coordinator
    BlockSize,  \* m_block_size
    MaxJobs,    \* bound on the number of simulators of a bag
    MaxCalls    \* bound on the number of calls of for_each

ASSUME ThreadPoolAssumption ==
    /\ IsFiniteSet(Worker)
    /\ Main \notin Worker
    /\ BlockSize \in Nat \ {0}
    /\ MaxJobs \in Nat /\ MaxCalls \in Nat

Thread == Worker \cup {Main}

VARIABLES
    relaxed,        \* the build lets the stores of for_each be reordered
    pc,             \* control state of each thread
    block,          \* the block each thread has claimed
    begin,          \* index of the next simulator of the block
    m_block_id,     \* the next block to claim; negative: none
    m_block_count,  \* blocks not finished, less one
    m_running_flag,
    m_jobs,         \* size of the vector main points m_jobs to, or Null
    shared_jobs,    \* the value of m_jobs the workers read
    pending,        \* stores of main the workers do not see yet
    calls,          \* calls of for_each so far
    done            \* history: times each simulator of the call is processed

vars == <<relaxed, pc, block, begin, m_block_id, m_block_count,
          m_running_flag, m_jobs, shared_jobs, pending, calls, done>>

Null == -1

\* The blocks of a vector of n simulators are numbered from 0 and block sz,
\* which for_each also hands out, is empty.
Blocks(n) == n \div BlockSize + (IF n % BlockSize = 0 THEN 0 ELSE 1)
First(b) == b * BlockSize + 1

\* Mutant: the simulator at the end of a block is processed with it.
LastInclusive(n, b) ==
    IF n < (b + 1) * BlockSize + 1 THEN n ELSE (b + 1) * BlockSize + 1

Last(n, b) == IF n < (b + 1) * BlockSize THEN n ELSE (b + 1) * BlockSize

TypeOK ==
    /\ relaxed \in BOOLEAN
    /\ pc \in [Thread -> {"idle", "count", "id", "check", "claim", "work",
                          "dec", "wait", "join", "exit", "crash"}]
    /\ block \in [Thread -> Nat]
    /\ begin \in [Thread -> Nat]
    /\ m_block_id \in Nat \cup {-1}
    /\ m_block_count \in Int
    /\ m_running_flag \in BOOLEAN
    /\ m_jobs \in 0 .. MaxJobs \cup {Null}
    /\ shared_jobs \in 0 .. MaxJobs \cup {Null}
    /\ pending \subseteq {"jobs", "count"}
    /\ calls \in 0 .. MaxCalls
    /\ done \in [1 .. MaxJobs -> Nat]

\* The constructor: no block to claim, and the workers are started.
Init ==
    /\ relaxed \in BOOLEAN
    /\ pc = [t \in Thread |-> IF t = Main THEN "idle" ELSE "check"]
    /\ block = [t \in Thread |-> 0]
    /\ begin = [t \in Thread |-> 0]
    /\ m_block_id = -1
    /\ m_block_count = -1
    /\ m_running_flag = TRUE
    /\ m_jobs = Null
    /\ shared_jobs = Null
    /\ pending = {}
    /\ calls = 0
    /\ done = [k \in 1 .. MaxJobs |-> 0]

Goto(t, l) == pc' = [pc EXCEPT ![t] = l]

\* The coordinator calls for_each for a bag of n dynamics.
Call(n) ==
    /\ pc[Main] = "idle"
    /\ calls < MaxCalls
    /\ calls' = calls + 1
    /\ m_jobs' = n
    /\ \/ shared_jobs' = n /\ UNCHANGED pending
       \/ relaxed /\ pending' = pending \cup {"jobs"} /\ UNCHANGED shared_jobs
    /\ done' = [k \in 1 .. MaxJobs |-> 0]
    /\ Goto(Main, "count")
    /\ UNCHANGED <<relaxed, block, begin, m_block_id, m_block_count,
                   m_running_flag>>

\* Mutant: the empty block that is also handed out is not counted.
StoreCountLess ==
    /\ pc[Main] = "count"
    /\ m_block_count' = Blocks(m_jobs) - 1
    /\ Goto(Main, "id")
    /\ UNCHANGED <<relaxed, block, begin, m_block_id, m_running_flag, m_jobs,
                   shared_jobs, pending, calls, done>>

StoreCount ==
    /\ pc[Main] = "count"
    /\ \/ m_block_count' = Blocks(m_jobs) /\ UNCHANGED pending
       \/ relaxed /\ pending' = pending \cup {"count"}
          /\ UNCHANGED m_block_count
    /\ Goto(Main, "id")
    /\ UNCHANGED <<relaxed, block, begin, m_block_id, m_running_flag, m_jobs,
                   shared_jobs, calls, done>>

StoreId ==
    /\ pc[Main] = "id"
    /\ m_block_id' = Blocks(m_jobs)
    /\ Goto(Main, "claim")
    /\ UNCHANGED <<relaxed, block, begin, m_block_count, m_running_flag, m_jobs,
                   shared_jobs, pending, calls, done>>

\* A pending store becomes visible.
Propagate ==
    /\ \/ /\ "jobs" \in pending
          /\ shared_jobs' = m_jobs
          /\ pending' = pending \ {"jobs"}
          /\ UNCHANGED m_block_count
       \/ /\ "count" \in pending
          /\ m_block_count' = Blocks(m_jobs)
          /\ pending' = pending \ {"count"}
          /\ UNCHANGED shared_jobs
    /\ UNCHANGED <<relaxed, pc, block, begin, m_block_id, m_running_flag, m_jobs,
                   calls, done>>

\* Mutant: block 0 is taken for the end.
ClaimPositive(t) ==
    /\ pc[t] = "claim"
    /\ IF m_block_id > 0
       THEN /\ block' = [block EXCEPT ![t] = m_block_id]
            /\ begin' = [begin EXCEPT ![t] = First(m_block_id)]
            /\ Goto(t, "work")
       ELSE /\ Goto(t, IF t = Main THEN "wait" ELSE "check")
            /\ UNCHANGED <<block, begin>>
    /\ m_block_id' = IF m_block_id >= 0 THEN m_block_id - 1 ELSE m_block_id
    /\ UNCHANGED <<relaxed, m_block_count, m_running_flag, m_jobs, shared_jobs,
                   pending, calls, done>>

\* fetch_sub on m_block_id.  Below zero the counter is not decremented here:
\* the code tests only its sign before it is stored again, and 2^63 polls
\* would be needed to make it wrap.
Claim(t) ==
    /\ pc[t] = "claim"
    /\ IF m_block_id >= 0
       THEN /\ block' = [block EXCEPT ![t] = m_block_id]
            /\ begin' = [begin EXCEPT ![t] = First(m_block_id)]
            /\ m_block_id' = m_block_id - 1
            /\ Goto(t, "work")
       ELSE /\ Goto(t, IF t = Main THEN "wait" ELSE "check")
            /\ UNCHANGED <<block, begin, m_block_id>>
    /\ UNCHANGED <<relaxed, m_block_count, m_running_flag, m_jobs, shared_jobs,
                   pending, calls, done>>

\* What thread t reads in m_jobs.
Jobs(t) == IF t = Main THEN m_jobs ELSE shared_jobs

\* One iteration of the loop over the simulators of the block, or its end.
Work(t) ==
    /\ pc[t] = "work"
    /\ IF Jobs(t) = Null
       THEN Goto(t, "crash") /\ UNCHANGED <<begin, done>>
       ELSE IF begin[t] <= Last(Jobs(t), block[t])
       THEN /\ done' = [done EXCEPT ![begin[t]] = @ + 1]
            /\ begin' = [begin EXCEPT ![t] = @ + 1]
            /\ UNCHANGED pc
       ELSE Goto(t, "dec") /\ UNCHANGED <<begin, done>>
    /\ UNCHANGED <<relaxed, block, m_block_id, m_block_count, m_running_flag, m_jobs,
                   shared_jobs, pending, calls>>

\* fetch_sub on m_block_count.  Main's own store precedes its fetch_sub.
Dec(t) ==
    /\ pc[t] = "dec"
    /\ t = Main => "count" \notin pending
    /\ m_block_count' = m_block_count - 1
    /\ Goto(t, IF t = Main THEN "claim" ELSE "check")
    /\ UNCHANGED <<relaxed, block, begin, m_block_id, m_running_flag, m_jobs,
                   shared_jobs, pending, calls, done>>

\* Mutant: main returns when one block is left.
ReturnAtZero ==
    /\ pc[Main] = "wait"
    /\ "count" \notin pending
    /\ m_block_count <= 0
    /\ m_jobs' = Null
    /\ shared_jobs' = Null
    /\ pending' = {}
    /\ Goto(Main, "idle")
    /\ UNCHANGED <<relaxed, block, begin, m_block_id, m_block_count,
                   m_running_flag, calls, done>>

\* for_each returns when all the blocks are finished.
Return ==
    /\ pc[Main] = "wait"
    /\ "count" \notin pending
    /\ m_block_count < 0
    /\ m_jobs' = Null
    /\ shared_jobs' = Null
    /\ pending' = {}
    /\ Goto(Main, "idle")
    /\ UNCHANGED <<relaxed, block, begin, m_block_id, m_block_count,
                   m_running_flag, calls, done>>

\* The loop condition of a worker.
Check(w) ==
    /\ pc[w] = "check"
    /\ Goto(w, IF m_running_flag THEN "claim" ELSE "exit")
    /\ UNCHANGED <<relaxed, block, begin, m_block_id, m_block_count,
                   m_running_flag, m_jobs, shared_jobs, pending, calls, done>>

\* Mutant: the destructor only joins the workers.
DestroyKeepsFlag ==
    /\ pc[Main] = "idle"
    /\ Goto(Main, "join")
    /\ UNCHANGED <<relaxed, block, begin, m_block_id, m_block_count,
                   m_running_flag, m_jobs, shared_jobs, pending, calls, done>>

\* The destructor: stop the workers and join them.
Destroy ==
    /\ pc[Main] = "idle"
    /\ m_running_flag' = FALSE
    /\ Goto(Main, "join")
    /\ UNCHANGED <<relaxed, block, begin, m_block_id, m_block_count, m_jobs,
                   shared_jobs, pending, calls, done>>

Join ==
    /\ pc[Main] = "join"
    /\ \A w \in Worker : pc[w] = "exit"
    /\ Goto(Main, "exit")
    /\ UNCHANGED <<relaxed, block, begin, m_block_id, m_block_count,
                   m_running_flag, m_jobs, shared_jobs, pending, calls, done>>

\* The pool is gone; or, with reordered stores, main waits for a block count
\* that will not be reached, every worker having died on a null m_jobs.
Hung ==
    /\ relaxed /\ pc[Main] = "wait" /\ pending = {} /\ m_block_count >= 0
    /\ \A w \in Worker : pc[w] = "crash"

Terminated ==
    /\ Hung \/ \A t \in Thread : pc[t] = "exit"
    /\ UNCHANGED vars

MainStep ==
    \/ StoreCount \/ StoreId \/ Claim(Main) \/ Work(Main) \/ Dec(Main)
    \/ Return \/ Join

WorkerStep(w) == Check(w) \/ Claim(w) \/ Work(w) \/ Dec(w)

Next ==
    \/ \E n \in 0 .. MaxJobs : Call(n)
    \/ MainStep
    \/ \E w \in Worker : WorkerStep(w)
    \/ Propagate
    \/ Destroy
    \/ Terminated

Spec == Init /\ [][Next]_vars

\* The operating system schedules every thread; nothing makes the coordinator
\* call for_each or destroy the pool.
FairSpec ==
    /\ Spec
    /\ WF_vars(MainStep)
    /\ \A w \in Worker : WF_vars(WorkerStep(w))

-----------------------------------------------------------------------------
(* Properties *)

\* The threads that hold a block, the ones that died on it included; the calls
\* of for_each that hand out blocks.
Holders == {t \in Thread : pc[t] \in {"work", "dec", "crash"}}
InCall == pc[Main] \in {"claim", "work", "dec", "wait"}

\* No simulator makes two transitions in a bag, whatever thread claims it and
\* in whatever order the workers see the stores of for_each.
OncePerCall == \A k \in 1 .. MaxJobs : done[k] <= 1

\* Outside for_each no thread of the pool holds a part of the bag, which
\* belongs to the coordinator again; and no thread follows a null m_jobs when
\* the stores are seen in order (when they are not, a worker may).
BagOwned ==
    /\ relaxed \/ \A t \in Thread : pc[t] # "crash"
    /\ pc[Main] \in {"idle", "count", "id", "join", "exit"} => Holders = {}

Calling == pc[Main] \notin {"idle", "join", "exit"}
Todo == {k \in 1 .. m_jobs : done[k] = 0}
Abstract == INSTANCE ForEach WITH calling <- Calling, todo <- Todo

\* The coordinator is answered as by a sequential loop over the bag: for_each
\* returns when every simulator of the vector has made its transition, once.
ImplementsForEach == Abstract!ForEachSpec

\* Every call of for_each returns when the stores are seen in order: the wait
\* on m_block_count ends.  (When they are not, a late store of m_block_count
\* may undo what the workers have counted.)
CallReturns == (pc[Main] = "count" /\ ~relaxed) ~> pc[Main] = "idle"

\* The destructor ends: every worker sees the flag and is joined.
PoolStops == pc[Main] = "join" ~> pc[Main] = "exit"

\* The blocks that are held or to be claimed, less one.
Left == m_block_id + Cardinality(Holders)

\* The counters.  Each thread holds a block of its own, above the ones still
\* to be claimed; m_block_count is what is left of them, so that it is
\* negative only when every block is finished.  With reordered stores it may
\* be more, and anything before the store is seen.
Counters ==
    /\ ~InCall => m_block_id = -1 /\ Holders = {}
    /\ pc[Main] = "id" /\ "count" \notin pending => m_block_count = Blocks(m_jobs)
    /\ InCall => /\ Left <= Blocks(m_jobs)
                 /\ "count" \notin pending => m_block_count >= Left
                 /\ ~relaxed => m_block_count = Left
    /\ \A t \in Holders : m_block_id < block[t] /\ block[t] <= Blocks(m_jobs)
    /\ \A t, u \in Holders : t # u => block[t] # block[u]

\* The simulators.  Those of the blocks to be claimed are not processed, a
\* holder has processed its block up to begin, and the others are processed.
Progress ==
    /\ \A t \in Holders :
           /\ begin[t] >= First(block[t])
           /\ pc[t] = "dec" => begin[t] > Last(m_jobs, block[t])
    /\ pc[Main] \in {"count", "id"} => \A k \in 1 .. MaxJobs : done[k] = 0
    /\ InCall => \A k \in 1 .. m_jobs :
           /\ k < First(m_block_id + 1) => done[k] = 0
           /\ \A t \in Holders :
                  First(block[t]) <= k /\ k < First(block[t] + 1) =>
                      done[k] = IF k < begin[t] THEN 1 ELSE 0
           /\ \/ k < First(m_block_id + 1)
              \/ \E t \in Holders :
                     First(block[t]) <= k /\ k < First(block[t] + 1)
              \/ done[k] = 1

\* Where each thread may be and what main has published.
Control ==
    /\ pc[Main] \in {"idle", "count", "id", "claim", "work", "dec", "wait",
                     "join", "exit"}
    /\ \A w \in Worker : pc[w] \in {"check", "claim", "work", "dec", "exit", "crash"}
    /\ shared_jobs \in {m_jobs, Null}
    /\ "count" \in pending => pc[Main] = "id" \/ InCall
    /\ m_jobs = Null <=> pc[Main] \in {"idle", "join", "exit"}
    /\ ~relaxed => /\ pending = {} /\ shared_jobs = m_jobs
                   /\ \A w \in Worker : pc[w] # "crash"

\* The inductive invariant of the pool.
PoolInv == TypeOK /\ Control /\ Counters /\ Progress /\ OncePerCall

=============================================================================
