--------------------------- MODULE ThreadPoolProofs ---------------------------
(***************************************************************************)
(* Proof that the thread pool processes each simulator of a bag once and   *)
(* leaves the bag alone outside for_each, for every number of workers,     *)
(* block size, bag and number of calls, in whatever order the workers see  *)
(* the stores of for_each.                                                 *)
(***************************************************************************)
EXTENDS ThreadPool, FiniteSetTheorems, TLAPS

\* Multiplication by the block size is monotone: a lower block ends before a
\* higher one begins (begin and end of a block in SimulatorProcessParallel).
LEMMA FirstMonotone ==
    ASSUME NEW a \in Int, NEW b \in Int, a < b
    PROVE  First(a + 1) <= First(b)
<1>1. BlockSize \in Nat /\ BlockSize > 0
  BY ThreadPoolAssumption
<1>2. \A x, y, z \in Int : x <= y /\ z >= 0 => x * z <= y * z
  OBVIOUS
<1>3. (a + 1) * BlockSize <= b * BlockSize
  BY <1>1, <1>2
<1> QED
  BY <1>1, <1>3 DEF First

\* The number of blocks for_each stores is a natural number, and the blocks
\* it hands out cover the whole vector.
LEMMA BlocksCover ==
    ASSUME NEW n \in Nat
    PROVE  Blocks(n) \in Nat /\ n < First(Blocks(n) + 1)
<1>1. BlockSize \in Nat /\ BlockSize > 0
  BY ThreadPoolAssumption
<1>2. n \div BlockSize \in Nat /\ n % BlockSize \in 0 .. BlockSize - 1
      /\ n = BlockSize * (n \div BlockSize) + (n % BlockSize)
  BY <1>1, SMT
<1>3. Blocks(n) \in Nat /\ Blocks(n) >= n \div BlockSize
  BY <1>2 DEF Blocks
<1>4. (n \div BlockSize + 1) * BlockSize =
      BlockSize * (n \div BlockSize) + BlockSize
  BY <1>1, <1>2
<1>5. \A x, y, z \in Int : x <= y /\ z >= 0 => x * z <= y * z
  OBVIOUS
<1>6. (n \div BlockSize + 1) * BlockSize <= (Blocks(n) + 1) * BlockSize
  BY <1>1, <1>2, <1>3, <1>5
<1> QED
  BY <1>1, <1>2, <1>3, <1>4, <1>6 DEF First

\* The threads that hold a block are finitely many.
LEMMA HoldersFinite == IsFiniteSet(Holders)
<1>1. IsFiniteSet(Thread)
  BY ThreadPoolAssumption, FS_AddElement DEF Thread
<1> QED
  BY <1>1, FS_Subset DEF Holders

\* The constructor establishes the invariant.
LEMMA PoolInit == Init => PoolInv
<1> SUFFICES ASSUME Init PROVE PoolInv
  OBVIOUS
<1>1. TypeOK
  BY ThreadPoolAssumption DEF Init, TypeOK, Null
<1>2. Control
  BY ThreadPoolAssumption DEF Init, Control, Thread
<1>3. Holders = {} /\ ~InCall /\ pc[Main] = "idle"
  BY ThreadPoolAssumption DEF Init, Holders, InCall, Thread
<1>4. Counters
  BY <1>3 DEF Counters, Init
<1>5. Progress
  BY <1>3 DEF Progress, Init
<1>6. OncePerCall
  BY DEF OncePerCall, Init
<1> QED
  BY <1>1, <1>2, <1>4, <1>5, <1>6 DEF PoolInv

\* A thread claims a block (fetch_sub on m_block_id).
LEMMA ClaimStep ==
    ASSUME PoolInv, NEW t \in Thread, Claim(t)
    PROVE  PoolInv'
<1> USE DEF PoolInv
<1>0. BlockSize \in Nat /\ BlockSize > 0 /\ Main \in Thread
  BY ThreadPoolAssumption DEF Thread
<1>1. CASE m_block_id >= 0
  <2>1. InCall /\ m_jobs \in 0 .. MaxJobs /\ m_block_id \in Nat
    BY <1>0, <1>1 DEF Counters, TypeOK, Control, InCall
  <2>2. t \notin Holders /\ Holders' = Holders \cup {t} /\ InCall'
    BY <1>0, <1>1, <2>1 DEF Claim, Goto, Holders, InCall, TypeOK, Thread
  <2>3. /\ pc' = [pc EXCEPT ![t] = "work"]
        /\ block' = [block EXCEPT ![t] = m_block_id]
        /\ begin' = [begin EXCEPT ![t] = First(m_block_id)]
        /\ m_block_id' = m_block_id - 1
        /\ UNCHANGED <<relaxed, m_block_count, m_running_flag, m_jobs, shared_jobs,
                       pending, calls, done>>
    BY <1>1 DEF Claim, Goto
  <2>4. TypeOK'
    <3>1. First(m_block_id) \in Nat
      BY <1>0, <2>1 DEF First
    <3>2. m_block_id' \in Nat \cup {-1}
      BY <2>1, <2>3
    <3> QED
      BY <2>3, <3>1, <3>2, <2>1 DEF TypeOK
  <2>5. Control'
    <3>1. /\ pc'[Main] \in {"claim", "work", "dec", "wait"}
          /\ m_jobs' # Null
      BY <2>1, <2>2, <2>3 DEF InCall, Null
    <3>2. \A w \in Worker : pc'[w] = pc[w] \/ pc'[w] = "work"
      BY <2>3 DEF TypeOK, Thread
    <3> QED
      BY <2>2, <2>3, <3>1, <3>2 DEF Control
  <2>6. \A u \in Holders : block'[u] = block[u] /\ begin'[u] = begin[u]
                           /\ pc'[u] = pc[u]
    BY <2>2, <2>3 DEF TypeOK, Holders
  <2>7. block'[t] = m_block_id /\ begin'[t] = First(m_block_id)
        /\ pc'[t] = "work"
    BY <2>3 DEF TypeOK
  <2>8. Counters'
    <3>1. Cardinality(Holders') = Cardinality(Holders) + 1
          /\ Cardinality(Holders) \in Nat
      BY <2>2, HoldersFinite, FS_AddElement, FS_CardinalityType
    <3>2. Blocks(m_jobs) \in Nat /\ Blocks(m_jobs)' = Blocks(m_jobs)
      BY <2>1, <2>3, BlocksCover DEF Blocks
    <3>3. Left' = Left /\ Left \in Int /\ m_block_id <= Left
      BY <2>1, <2>3, <3>1 DEF Left
    <3>8. m_block_id <= Blocks(m_jobs)
      BY <2>1, <3>2, <3>3 DEF Counters
    <3>4. \A u \in Holders : block[u] \in Nat
      BY DEF Holders, TypeOK
    <3>5. \A u \in Holders' : m_block_id' < block'[u]
                              /\ block'[u] <= Blocks(m_jobs)
      BY <2>1, <2>2, <2>3, <2>6, <2>7, <3>2, <3>4, <3>8 DEF Counters
    <3>6. \A r, u \in Holders' : r # u => block'[r] # block'[u]
      BY <2>1, <2>2, <2>6, <2>7, <3>4 DEF Counters
    <3>7. pc'[Main] # "id"
      BY <2>2 DEF InCall
    <3>9. /\ Left' <= Blocks(m_jobs)'
          /\ "count" \notin pending' => m_block_count' >= Left'
          /\ ~relaxed' => m_block_count' = Left'
      BY <2>1, <2>3, <3>2, <3>3 DEF Counters
    <3> QED
      BY <2>2, <2>3, <3>2, <3>5, <3>6, <3>7, <3>9 DEF Counters
  <2>9. Progress'
    <3>1. First(m_block_id) \in Int /\ First(m_block_id + 1) \in Int
          /\ First(m_block_id) <= First(m_block_id + 1)
          /\ First(m_block_id' + 1) = First(m_block_id)
      BY <1>0, <2>1, <2>3 DEF First
    <3>2. pc'[Main] \notin {"count", "id"}
      BY <2>2 DEF InCall
    <3> QED
      BY <2>1, <2>2, <2>3, <2>6, <2>7, <3>1, <3>2 DEF Progress
  <2>10. OncePerCall'
    BY <2>3 DEF OncePerCall
  <2> QED
    BY <2>4, <2>5, <2>8, <2>9, <2>10
<1>2. CASE ~(m_block_id >= 0)
  <2>1. Holders' = Holders /\ (InCall' <=> InCall)
        /\ (pc'[Main] = "id" <=> pc[Main] = "id")
        /\ (pc'[Main] = "count" <=> pc[Main] = "count")
    BY <1>0, <1>2 DEF Claim, Goto, Holders, InCall, TypeOK, Thread
  <2>2. TypeOK'
    BY <1>0, <1>2 DEF Claim, Goto, TypeOK
  <2>8. /\ pc' = [pc EXCEPT ![t] = IF t = Main THEN "wait" ELSE "check"] /\ pc[t] = "claim"
        /\ UNCHANGED <<relaxed, block, begin, m_block_id, m_block_count, m_running_flag,
                       m_jobs, shared_jobs, pending, calls, done>>
    BY <1>2 DEF Claim, Goto
  <2>3. Control'
    <3>1. pc[Main] = pc'[Main] \/ (pc[Main] = "claim" /\ pc'[Main] = "wait")
      BY <1>0, <2>8 DEF TypeOK
    <3>2. \A w \in Worker : pc'[w] = pc[w] \/ pc'[w] = "check"
      BY <2>8, ThreadPoolAssumption DEF TypeOK, Thread
    <3> QED
      BY <2>1, <2>8, <3>1, <3>2 DEF Control
  <2>4. Counters'
    BY <2>1, <2>8 DEF Counters, Left, Blocks
  <2>5. \A u \in Holders : pc'[u] = pc[u]
    BY <1>2 DEF Claim, Goto, TypeOK, Holders
  <2>6. Progress'
    BY <1>2, <2>1, <2>5 DEF Claim, Progress
  <2>7. OncePerCall'
    BY <1>2 DEF Claim, OncePerCall
  <2> QED
    BY <2>2, <2>3, <2>4, <2>6, <2>7
<1> QED
  BY <1>1, <1>2

\* A thread makes the transition of one simulator of its block, or ends it.
LEMMA WorkStep ==
    ASSUME PoolInv, NEW t \in Thread, Work(t)
    PROVE  PoolInv'
<1> USE DEF PoolInv
<1>0. BlockSize \in Nat /\ BlockSize > 0 /\ Main \in Thread
  BY ThreadPoolAssumption DEF Thread
<1>1. t \in Holders /\ pc[t] = "work"
  BY DEF Work, Holders
<1>2. InCall /\ m_jobs \in 0 .. MaxJobs /\ Jobs(t) \in {m_jobs, Null} /\ m_jobs # Null
  BY <1>1 DEF Counters, Control, InCall, TypeOK, Jobs, Null
<1>3. begin[t] \in Nat /\ block[t] \in Nat /\ m_block_id \in Int
  BY DEF TypeOK
<1>4. First(block[t]) \in Int /\ First(block[t] + 1) \in Int
      /\ First(block[t]) >= 1 /\ First(m_block_id + 1) \in Int
      /\ Last(m_jobs, block[t]) < First(block[t] + 1)
      /\ Last(m_jobs, block[t]) <= m_jobs /\ Last(m_jobs, block[t]) \in Int
  <2>1. block[t] * BlockSize \in Nat /\ (block[t] + 1) * BlockSize \in Nat
        /\ (m_block_id + 1) * BlockSize \in Int
    BY <1>0, <1>3
  <2> QED
    BY <1>2, <2>1 DEF First, Last
<1>5. CASE Jobs(t) = m_jobs /\ begin[t] <= Last(Jobs(t), block[t])
  <2>1. /\ done' = [done EXCEPT ![begin[t]] = @ + 1]
        /\ begin' = [begin EXCEPT ![t] = @ + 1]
        /\ UNCHANGED <<relaxed, pc, block, m_block_id, m_block_count, m_running_flag,
                       m_jobs, shared_jobs, pending, calls>>
    BY <1>2, <1>5 DEF Work
  <2>2. Holders' = Holders /\ InCall' /\ Blocks(m_jobs)' = Blocks(m_jobs)
    BY <1>2, <2>1 DEF Holders, InCall, Blocks
  <2>3. First(block[t]) <= begin[t] /\ begin[t] < First(block[t] + 1)
        /\ begin[t] \in 1 .. m_jobs
    BY <1>1, <1>2, <1>3, <1>4, <1>5 DEF Progress
  <2>4. done[begin[t]] = 0
    BY <1>1, <1>2, <1>3, <2>3 DEF Progress
  <2>5. begin[t] \in 1 .. MaxJobs
    BY <1>2, <2>3, ThreadPoolAssumption
  <2>6. done'[begin[t]] = 1
        /\ \A k \in 1 .. MaxJobs : k # begin[t] => done'[k] = done[k]
    BY <2>1, <2>4, <2>5 DEF TypeOK
  <2>7. TypeOK'
    BY <2>1, <2>5, <1>3 DEF TypeOK
  <2>8. Control'
    BY <2>1 DEF Control, InCall
  <2>9. Counters'
    BY <2>1, <2>2 DEF Counters, InCall, Left
  <2>10. begin'[t] = begin[t] + 1
         /\ \A u \in Holders : u # t => begin'[u] = begin[u]
    BY <2>1, <1>1 DEF TypeOK, Holders
  <2>11. \A u \in Holders : u # t =>
           \/ First(block[u] + 1) <= First(block[t])
           \/ First(block[t] + 1) <= First(block[u])
    <3> SUFFICES ASSUME NEW u \in Holders, u # t
                 PROVE  \/ First(block[u] + 1) <= First(block[t])
                        \/ First(block[t] + 1) <= First(block[u])
      OBVIOUS
    <3>1. block[u] # block[t] /\ block[u] \in Int /\ block[t] \in Int
      BY <1>1 DEF Counters, TypeOK, Holders
    <3> QED
      BY <3>1, FirstMonotone
  <2>12. First(m_block_id + 1) <= First(block[t])
    BY <1>1, <1>3, FirstMonotone DEF Counters
  <2>13. \A u \in Holders : First(block[u]) \in Int /\ begin[u] \in Nat
                            /\ First(block[u] + 1) \in Int
    BY <1>0 DEF First, TypeOK, Holders
  <2>14. Progress'
    <3>1. \A u \in Holders' :
            /\ begin'[u] >= First(block'[u])
            /\ pc'[u] = "dec" => begin'[u] > Last(m_jobs', block'[u])
      BY <1>1, <1>3, <1>4, <2>1, <2>2, <2>3, <2>10 DEF Progress
    <3>2. pc'[Main] \notin {"count", "id"}
      BY <2>2 DEF InCall
    <3>3. ASSUME NEW k \in 1 .. m_jobs
          PROVE  /\ k < First(m_block_id + 1) => done'[k] = 0
                 /\ \A u \in Holders :
                      First(block[u]) <= k /\ k < First(block[u] + 1) =>
                          done'[k] = IF k < begin'[u] THEN 1 ELSE 0
                 /\ \/ k < First(m_block_id + 1)
                    \/ \E u \in Holders :
                         First(block[u]) <= k /\ k < First(block[u] + 1)
                    \/ done'[k] = 1
      <4>0. k \in 1 .. MaxJobs /\ k \in Int
        BY <1>2, ThreadPoolAssumption
      <4>1. CASE k = begin[t]
        <5>1. ~(k < First(m_block_id + 1))
          BY <4>1, <1>3, <1>4, <2>3, <2>12
        <5>2. \A u \in Holders : First(block[u]) <= k /\ k < First(block[u] + 1)
                                   => u = t
          BY <4>0, <4>1, <1>3, <1>4, <2>3, <2>11, <2>13
        <5> QED
          BY <4>0, <4>1, <5>1, <5>2, <1>3, <2>6, <2>10
      <4>2. CASE k # begin[t]
        <5>1. done'[k] = done[k]
          BY <4>0, <4>2, <2>6
        <5>2. \A u \in Holders : (k < begin'[u]) <=> (k < begin[u])
          BY <4>0, <4>2, <1>3, <2>10, <2>13
        <5> QED
          BY <5>1, <5>2, <1>2 DEF Progress
      <4> QED
        BY <4>1, <4>2
    <3> QED
      BY <2>1, <2>2, <3>1, <3>2, <3>3 DEF Progress
  <2>15. OncePerCall'
    BY <2>6, <2>5 DEF OncePerCall
  <2> QED
    BY <2>7, <2>8, <2>9, <2>14, <2>15
<1>6. CASE Jobs(t) = m_jobs /\ ~(begin[t] <= Last(Jobs(t), block[t]))
  <2>1. /\ pc' = [pc EXCEPT ![t] = "dec"]
        /\ UNCHANGED <<relaxed, block, begin, done, m_block_id, m_block_count,
                m_running_flag, m_jobs, shared_jobs, pending, calls>>
    BY <1>2, <1>6 DEF Work, Goto
  <2>2. Holders' = Holders /\ InCall' /\ Blocks(m_jobs)' = Blocks(m_jobs)
    BY <1>0, <1>1, <1>2, <2>1 DEF Holders, InCall, Blocks, TypeOK
  <2>3. TypeOK'
    BY <2>1 DEF TypeOK
  <2>4. pc'[Main] \in {"claim", "work", "dec", "wait"}
    BY <2>2 DEF InCall
  <2>5. Control'
    <3>1. \A w \in Worker : pc'[w] = pc[w] \/ pc'[w] = "dec"
      BY <2>1 DEF TypeOK, Thread
    <3> QED
      BY <1>2, <2>1, <2>2, <2>4, <3>1 DEF Control
  <2>6. Counters'
    BY <1>2, <2>1, <2>2, <2>4 DEF Counters, Left
  <2>7. \A u \in Holders : u # t => pc'[u] = pc[u]
    BY <2>1 DEF TypeOK, Holders
  <2>8. begin[t] > Last(m_jobs, block[t])
    BY <1>2, <1>3, <1>4, <1>6
  <2>9. Progress'
    BY <1>2, <2>1, <2>2, <2>4, <2>7, <2>8 DEF Progress
  <2>10. OncePerCall'
    BY <2>1 DEF OncePerCall
  <2> QED
    BY <2>3, <2>5, <2>6, <2>9, <2>10
<1>7. CASE Jobs(t) = Null
  <2>1. /\ pc' = [pc EXCEPT ![t] = "crash"]
        /\ UNCHANGED <<relaxed, block, begin, done, m_block_id, m_block_count,
                m_running_flag, m_jobs, shared_jobs, pending, calls>>
    BY <1>7 DEF Work, Goto
  <2>2. t # Main /\ relaxed
    BY <1>2, <1>7 DEF Jobs, Control
  <2>3. Holders' = Holders /\ InCall' /\ pc'[Main] = pc[Main]
    BY <1>0, <1>1, <1>2, <2>1, <2>2 DEF Holders, InCall, TypeOK
  <2>4. TypeOK'
    BY <2>1 DEF TypeOK
  <2>5. Control'
    <3>1. \A w \in Worker : pc'[w] = pc[w] \/ pc'[w] = "crash"
      BY <2>1 DEF TypeOK, Thread
    <3> QED
      BY <2>1, <2>2, <2>3, <3>1 DEF Control
  <2>6. Counters'
    BY <1>2, <2>1, <2>3 DEF Counters, Left, Blocks
  <2>7. \A u \in Holders : u # t => pc'[u] = pc[u]
    BY <2>1 DEF TypeOK, Holders
  <2>8. pc'[t] = "crash"
    BY <2>1 DEF TypeOK
  <2>9. Progress'
    BY <1>2, <2>1, <2>3, <2>7, <2>8 DEF Progress
  <2>10. OncePerCall'
    BY <2>1 DEF OncePerCall
  <2> QED
    BY <2>4, <2>5, <2>6, <2>9, <2>10
<1> QED
  BY <1>2, <1>5, <1>6, <1>7

\* A thread counts its block as finished (fetch_sub on m_block_count).
LEMMA DecStep ==
    ASSUME PoolInv, NEW t \in Thread, Dec(t)
    PROVE  PoolInv'
<1> USE DEF PoolInv
<1>0. BlockSize \in Nat /\ BlockSize > 0 /\ Main \in Thread
  BY ThreadPoolAssumption DEF Thread
<1>1. t \in Holders /\ pc[t] = "dec"
  BY DEF Dec, Holders
<1>2. InCall /\ m_jobs \in 0 .. MaxJobs /\ m_jobs # Null
  BY <1>1 DEF Counters, Control, InCall, TypeOK, Null
<1>3. /\ pc' = [pc EXCEPT ![t] = IF t = Main THEN "claim" ELSE "check"]
      /\ m_block_count' = m_block_count - 1
      /\ UNCHANGED <<relaxed, block, begin, m_block_id, m_running_flag, m_jobs,
                     shared_jobs, pending, calls, done>>
  BY DEF Dec, Goto
<1>4. Holders' = Holders \ {t} /\ InCall'
  BY <1>0, <1>2, <1>3 DEF Holders, InCall, TypeOK
<1>5. pc'[Main] \in {"claim", "work", "dec", "wait"}
      /\ Blocks(m_jobs)' = Blocks(m_jobs)
  BY <1>3, <1>4 DEF InCall, Blocks
<1>6. TypeOK'
  BY <1>3 DEF TypeOK
<1>7. Control'
  <2>1. \A w \in Worker : pc'[w] = pc[w] \/ pc'[w] = "check"
    BY <1>3, ThreadPoolAssumption DEF TypeOK, Thread
  <2> QED
    BY <1>2, <1>3, <1>4, <1>5, <2>1 DEF Control
<1>8. Counters'
  <2>1. Cardinality(Holders') = Cardinality(Holders) - 1
        /\ Cardinality(Holders) \in Nat
    BY <1>1, <1>4, HoldersFinite, FS_RemoveElement, FS_CardinalityType
  <2>2. Left' = Left - 1 /\ Left \in Int /\ m_block_count \in Int
    <3>1. m_block_id' = m_block_id /\ m_block_id \in Int /\ m_block_count \in Int
      BY <1>3 DEF TypeOK
    <3>2. Left = m_block_id + Cardinality(Holders) /\ Left' = m_block_id' + Cardinality(Holders')
      BY DEF Left
    <3> QED
      BY <2>1, <3>1, <3>2
  <2>3. Blocks(m_jobs) \in Nat
    BY <1>2, BlocksCover
  <2>4. /\ Left' <= Blocks(m_jobs)'
        /\ "count" \notin pending' => m_block_count' >= Left'
        /\ ~relaxed' => m_block_count' = Left'
    BY <1>2, <1>3, <1>5, <2>2, <2>3 DEF Counters
  <2> QED
    BY <1>2, <1>3, <1>4, <1>5, <2>4 DEF Counters
<1>9. \A u \in Holders' : pc'[u] = pc[u]
  BY <1>3, <1>4 DEF TypeOK, Holders
<1>10. Progress'
  <2>1. \A k \in 1 .. m_jobs :
          First(block[t]) <= k /\ k < First(block[t] + 1) => done[k] = 1
    <3> SUFFICES ASSUME NEW k \in 1 .. m_jobs,
                        First(block[t]) <= k, k < First(block[t] + 1)
                 PROVE  done[k] = 1
      OBVIOUS
    <3>1. begin[t] \in Nat /\ (block[t] + 1) * BlockSize \in Nat
      BY <1>0 DEF TypeOK
    <3>2. k <= Last(m_jobs, block[t])
      BY <1>2, <3>1 DEF Last, First
    <3>3. begin[t] > Last(m_jobs, block[t])
      BY <1>1 DEF Progress
    <3>4. k < begin[t]
      BY <1>2, <3>1, <3>2, <3>3 DEF Last
    <3> QED
      BY <1>1, <1>2, <3>4 DEF Progress
  <2> QED
    BY <1>2, <1>3, <1>4, <1>5, <1>9, <2>1 DEF Progress
<1>11. OncePerCall'
  BY <1>3 DEF OncePerCall
<1> QED
  BY <1>6, <1>7, <1>8, <1>10, <1>11

\* The coordinator calls for_each; no worker holds a block.
LEMMA CallStep ==
    ASSUME PoolInv, NEW n \in 0 .. MaxJobs, Call(n)
    PROVE  PoolInv'
<1> USE DEF PoolInv
<1>0. Main \in Thread /\ Main \notin Worker /\ MaxJobs \in Nat /\ MaxCalls \in Nat
  BY ThreadPoolAssumption DEF Thread
<1>1. /\ pc[Main] = "idle" /\ pc' = [pc EXCEPT ![Main] = "count"]
      /\ m_jobs' = n
      /\ \/ shared_jobs' = n /\ pending' = pending
         \/ relaxed /\ shared_jobs' = shared_jobs /\ pending' = pending \cup {"jobs"}
      /\ done' = [k \in 1 .. MaxJobs |-> 0]
      /\ calls < MaxCalls /\ calls' = calls + 1
      /\ UNCHANGED <<relaxed, block, begin, m_block_id, m_block_count, m_running_flag>>
  BY DEF Call, Goto
<1>2. ~InCall /\ ~InCall' /\ Holders = {} /\ Holders' = {}
      /\ m_block_id = -1 /\ pc'[Main] = "count"
  <2>1. ~InCall /\ pc'[Main] = "count" /\ ~InCall'
    BY <1>0, <1>1 DEF InCall, TypeOK
  <2>2. Holders' = Holders
    BY <1>0, <1>1 DEF Holders, TypeOK
  <2> QED
    BY <2>1, <2>2 DEF Counters
<1>3. TypeOK'
  <2>1. calls' \in 0 .. MaxCalls
    BY <1>0, <1>1 DEF TypeOK
  <2> QED
    BY <1>1, <2>1 DEF TypeOK
<1>4. Control'
  <2>1. \A w \in Worker : pc'[w] = pc[w]
    BY <1>0, <1>1 DEF TypeOK, Thread
  <2>2. n # Null
    BY DEF Null
  <2>3. m_jobs = Null /\ shared_jobs = Null /\ "count" \notin pending
    BY <1>1, <1>2 DEF Control
  <2>4. shared_jobs' \in {m_jobs', Null} /\ "count" \notin pending'
    BY <1>1, <2>3
  <2>5. ~relaxed' => pending' = {} /\ shared_jobs' = m_jobs'
    BY <1>1 DEF Control
  <2> QED
    BY <1>1, <1>2, <2>1, <2>2, <2>4, <2>5 DEF Control
<1>5. Counters'
  BY <1>1, <1>2 DEF Counters
<1>6. Progress'
  BY <1>1, <1>2 DEF Progress
<1>7. OncePerCall'
  BY <1>1 DEF OncePerCall
<1> QED
  BY <1>3, <1>4, <1>5, <1>6, <1>7

\* for_each stores the number of blocks in m_block_count.
LEMMA StoreCountStep ==
    ASSUME PoolInv, StoreCount
    PROVE  PoolInv'
<1> USE DEF PoolInv
<1>0. Main \in Thread /\ Main \notin Worker
  BY ThreadPoolAssumption DEF Thread
<1>1. /\ pc[Main] = "count" /\ pc' = [pc EXCEPT ![Main] = "id"]
      /\ \/ m_block_count' = Blocks(m_jobs) /\ pending' = pending
         \/ relaxed /\ m_block_count' = m_block_count /\ pending' = pending \cup {"count"}
      /\ UNCHANGED <<relaxed, block, begin, m_block_id, m_running_flag, m_jobs,
                     shared_jobs, calls, done>>
  BY DEF StoreCount, Goto
<1>2. m_jobs \in Nat /\ m_jobs # Null
  BY <1>1, ThreadPoolAssumption DEF Control, TypeOK
<1>3. Blocks(m_jobs) \in Nat /\ Blocks(m_jobs)' = Blocks(m_jobs)
  BY <1>1, <1>2, BlocksCover DEF Blocks
<1>4. ~InCall /\ ~InCall' /\ Holders = {} /\ Holders' = {}
      /\ m_block_id = -1 /\ pc'[Main] = "id"
  <2>1. ~InCall /\ pc'[Main] = "id" /\ ~InCall'
    BY <1>0, <1>1 DEF InCall, TypeOK
  <2>2. Holders' = Holders
    BY <1>0, <1>1 DEF Holders, TypeOK
  <2> QED
    BY <2>1, <2>2 DEF Counters
<1>5. TypeOK'
  <2>1. pc' \in [Thread -> {"idle", "count", "id", "check", "claim", "work",
                           "dec", "wait", "join", "exit", "crash"}]
    BY <1>1 DEF TypeOK
  <2>2. m_block_count' \in Int
    BY <1>1, <1>3 DEF TypeOK
  <2> QED
    BY <1>1, <2>1, <2>2 DEF TypeOK
<1>6. Control'
  <2>1. \A w \in Worker : pc'[w] = pc[w]
    BY <1>0, <1>1 DEF TypeOK, Thread
  <2> QED
    BY <1>1, <1>2, <1>4, <2>1 DEF Control
<1>7. Counters'
  BY <1>1, <1>3, <1>4 DEF Counters
<1>8. Progress'
  BY <1>1, <1>4 DEF Progress
<1>9. OncePerCall'
  BY <1>1 DEF OncePerCall
<1> QED
  BY <1>5, <1>6, <1>7, <1>8, <1>9

\* for_each stores the number of blocks in m_block_id: they may be claimed.
LEMMA StoreIdStep ==
    ASSUME PoolInv, StoreId
    PROVE  PoolInv'
<1> USE DEF PoolInv
<1>0. Main \in Thread /\ Main \notin Worker
  BY ThreadPoolAssumption DEF Thread
<1>1. /\ pc[Main] = "id" /\ pc' = [pc EXCEPT ![Main] = "claim"]
      /\ m_block_id' = Blocks(m_jobs)
      /\ UNCHANGED <<relaxed, block, begin, m_block_count, m_running_flag,
                     m_jobs, shared_jobs, pending, calls, done>>
  BY DEF StoreId, Goto
<1>2. m_jobs \in 0 .. MaxJobs /\ m_jobs \in Nat /\ m_jobs # Null
  BY <1>1, ThreadPoolAssumption DEF Control, TypeOK
<1>3. Blocks(m_jobs) \in Nat /\ Blocks(m_jobs)' = Blocks(m_jobs)
      /\ m_jobs < First(Blocks(m_jobs) + 1)
  BY <1>1, <1>2, BlocksCover DEF Blocks
<1>4. InCall' /\ Holders' = {} /\ pc'[Main] = "claim"
  <2>1. ~InCall /\ pc'[Main] = "claim" /\ InCall'
    BY <1>0, <1>1 DEF InCall, TypeOK
  <2>2. Holders' = Holders
    BY <1>0, <1>1 DEF Holders, TypeOK
  <2> QED
    BY <2>1, <2>2 DEF Counters
<1>5. TypeOK'
  BY <1>1, <1>3 DEF TypeOK
<1>6. Control'
  <2>1. \A w \in Worker : pc'[w] = pc[w]
    BY <1>0, <1>1 DEF TypeOK, Thread
  <2> QED
    BY <1>1, <1>2, <1>4, <2>1 DEF Control
<1>7. Counters'
  <2>1. Cardinality(Holders') = 0
    BY <1>4, FS_EmptySet
  <2>2. Left' = Blocks(m_jobs)
    BY <1>1, <1>3, <2>1 DEF Left
  <2>3. "count" \notin pending' => m_block_count' = Left'
    BY <1>1, <2>2 DEF Counters
  <2>4. ~relaxed' => "count" \notin pending'
    BY <1>1 DEF Control
  <2> QED
    BY <1>1, <1>3, <1>4, <2>2, <2>3, <2>4 DEF Counters
<1>8. Progress'
  <2>1. \A k \in 1 .. m_jobs : k < First(Blocks(m_jobs) + 1) /\ done[k] = 0
    <3>1. First(Blocks(m_jobs) + 1) \in Int
      BY <1>3, ThreadPoolAssumption DEF First
    <3> QED
      BY <1>1, <1>2, <1>3, <3>1, ThreadPoolAssumption DEF Progress
  <2> QED
    BY <1>1, <1>3, <1>4, <2>1 DEF Progress
<1>9. OncePerCall'
  BY <1>1 DEF OncePerCall
<1> QED
  BY <1>5, <1>6, <1>7, <1>8, <1>9

\* When m_block_count is negative no block is held or left to claim, and every
\* simulator of the call has made its transition.
LEMMA CallFinished ==
    ASSUME PoolInv, InCall, "count" \notin pending, m_block_count < 0
    PROVE  /\ m_block_id = -1
           /\ Holders = {}
           /\ \A k \in 1 .. m_jobs : done[k] = 1
<1> USE DEF PoolInv
<1>1. Cardinality(Holders) \in Nat /\ m_block_id \in Nat \cup {-1}
  BY HoldersFinite, FS_CardinalityType DEF TypeOK
<1>2. m_block_id = -1 /\ Cardinality(Holders) = 0
  <2>1. Left < 0
    BY <1>1 DEF Counters, TypeOK, Left
  <2> QED
    BY <1>1, <2>1 DEF Left
<1>3. Holders = {}
  BY <1>2, HoldersFinite, FS_EmptySet
<1>4. First(m_block_id + 1) = 1
  BY <1>2, ThreadPoolAssumption DEF First
<1>5. \A k \in 1 .. m_jobs : ~(k < First(m_block_id + 1))
  BY <1>4
<1>6. \A k \in 1 .. m_jobs : done[k] = 1
  BY <1>3, <1>5 DEF Progress
<1> QED
  BY <1>2, <1>3, <1>6

\* for_each returns: it has seen m_block_count negative.
LEMMA ReturnStep ==
    ASSUME PoolInv, Return
    PROVE  PoolInv'
<1> USE DEF PoolInv
<1>0. Main \in Thread /\ Main \notin Worker
  BY ThreadPoolAssumption DEF Thread
<1>1. /\ pc[Main] = "wait" /\ pc' = [pc EXCEPT ![Main] = "idle"]
      /\ "count" \notin pending /\ m_block_count < 0
      /\ m_jobs' = Null /\ shared_jobs' = Null
      /\ pending' = {}
      /\ UNCHANGED <<relaxed, block, begin, m_block_id, m_block_count, m_running_flag,
                     calls, done>>
  BY DEF Return, Goto
<1>2. m_block_id = -1 /\ Holders = {}
  BY <1>1, CallFinished DEF InCall
<1>3. pc'[Main] = "idle" /\ ~InCall' /\ Holders' = {}
  <2>1. pc'[Main] = "idle" /\ ~InCall'
    BY <1>0, <1>1 DEF InCall, TypeOK
  <2>2. Holders' = Holders
    BY <1>0, <1>1 DEF Holders, TypeOK
  <2> QED
    BY <1>2, <2>1, <2>2
<1>4. TypeOK'
  BY <1>1 DEF TypeOK
<1>5. Control'
  <2>1. \A w \in Worker : pc'[w] = pc[w]
    BY <1>0, <1>1 DEF TypeOK, Thread
  <2> QED
    BY <1>1, <1>3, <2>1 DEF Control
<1>6. Counters'
  BY <1>1, <1>2, <1>3 DEF Counters
<1>7. Progress'
  BY <1>1, <1>3 DEF Progress
<1>8. OncePerCall'
  BY <1>1 DEF OncePerCall
<1> QED
  BY <1>4, <1>5, <1>6, <1>7, <1>8

\* The loop test of a worker, and the two steps of the destructor, move a
\* thread that holds no block.
LEMMA OtherSteps ==
    ASSUME PoolInv, Destroy \/ Join \/ \E w \in Worker : Check(w)
    PROVE  PoolInv'
<1> USE DEF PoolInv
<1>0. Main \in Thread /\ Main \notin Worker
  BY ThreadPoolAssumption DEF Thread
<1>1. UNCHANGED <<relaxed, block, begin, m_block_id, m_block_count, m_jobs, shared_jobs,
                  pending, calls, done>>
  BY DEF Destroy, Join, Check
<1> DEFINE SameCall ==
             /\ Holders' = Holders /\ (InCall' <=> InCall)
             /\ (pc'[Main] = "id" <=> pc[Main] = "id")
             /\ (pc'[Main] = "count" <=> pc[Main] = "count")
<1>2. SameCall
  <2>1. CASE Destroy
    BY <1>0, <2>1 DEF Destroy, Goto, Holders, InCall, TypeOK
  <2>2. CASE Join
    BY <1>0, <2>2 DEF Join, Goto, Holders, InCall, TypeOK
  <2>3. ASSUME NEW w \in Worker, Check(w) PROVE SameCall
    BY <1>0, <2>3 DEF Check, Goto, Holders, InCall, TypeOK, Thread
  <2> QED
    BY <2>1, <2>2, <2>3
<1>3. TypeOK'
  <2>1. CASE Destroy
    BY <1>1, <2>1 DEF Destroy, Goto, TypeOK
  <2>2. CASE Join
    BY <1>1, <2>2 DEF Join, Goto, TypeOK
  <2>3. ASSUME NEW w \in Worker, Check(w) PROVE TypeOK'
    BY <1>1, <2>3 DEF Check, Goto, TypeOK
  <2> QED
    BY <2>1, <2>2, <2>3
<1>4. Control'
  <2>0. /\ \/ pc'[Main] = pc[Main]
           \/ pc[Main] \in {"idle", "join"} /\ pc'[Main] \in {"join", "exit"}
        /\ \A w \in Worker : pc'[w] = pc[w] \/ pc'[w] \in {"claim", "exit"}
    <3>1. CASE Destroy
      BY <1>0, <3>1 DEF Destroy, Goto, TypeOK, Thread
    <3>2. CASE Join
      BY <1>0, <3>2 DEF Join, Goto, TypeOK, Thread
    <3>3. ASSUME NEW v \in Worker, Check(v)
          PROVE  /\ pc'[Main] = pc[Main]
                 /\ \A w \in Worker : pc'[w] = pc[w] \/ pc'[w] \in {"claim", "exit"}
      BY <1>0, <3>3 DEF Check, Goto, TypeOK, Thread
    <3> QED
      BY <3>1, <3>2, <3>3
  <2> QED
    BY <1>1, <1>2, <2>0 DEF Control
<1>5. Counters'
  BY <1>1, <1>2 DEF Counters, Left
<1>6. \A u \in Holders : pc'[u] = pc[u]
  BY <1>0 DEF Destroy, Join, Check, Goto, Holders, TypeOK, Thread
<1>7. Progress'
  BY <1>1, <1>2, <1>6 DEF Progress
<1>8. OncePerCall'
  BY <1>1 DEF OncePerCall
<1> QED
  BY <1>3, <1>4, <1>5, <1>7, <1>8

\* The workers see a store of m_jobs or m_block_count late: what it writes is
\* at least what is left of the blocks.
LEMMA PropagateStep ==
    ASSUME PoolInv, Propagate
    PROVE  PoolInv'
<1> USE DEF PoolInv
<1>0. relaxed /\ pending # {}
  BY DEF Propagate, Control
<1>1. UNCHANGED <<relaxed, pc, block, begin, m_block_id, m_running_flag, m_jobs,
                  calls, done>>
  BY DEF Propagate
<1>2. Holders' = Holders /\ (InCall' <=> InCall) /\ Left' = Left
      /\ Blocks(m_jobs)' = Blocks(m_jobs)
  BY <1>1 DEF Holders, InCall, Left, Blocks
<1>3. Progress' /\ OncePerCall'
  BY <1>1, <1>2 DEF Progress, OncePerCall
<1>4. CASE "jobs" \in pending /\ shared_jobs' = m_jobs /\ pending' = pending \ {"jobs"}
           /\ m_block_count' = m_block_count
  <2>1. TypeOK'
    BY <1>1, <1>4 DEF TypeOK
  <2>2. Control'
    BY <1>0, <1>1, <1>2, <1>4 DEF Control
  <2>3. Counters'
    BY <1>1, <1>2, <1>4 DEF Counters
  <2> QED
    BY <1>3, <2>1, <2>2, <2>3
<1>5. CASE "count" \in pending /\ m_block_count' = Blocks(m_jobs)
           /\ pending' = pending \ {"count"} /\ shared_jobs' = shared_jobs
  <2>1. m_jobs \in Nat /\ Blocks(m_jobs) \in Nat
    <3>1. m_jobs \in Nat
      BY <1>5, ThreadPoolAssumption DEF Control, InCall, TypeOK
    <3> QED
      BY <3>1, BlocksCover
  <2>2. TypeOK'
    BY <1>1, <1>5, <2>1 DEF TypeOK
  <2>3. Control'
    BY <1>0, <1>1, <1>2, <1>5 DEF Control
  <2>4. Left \in Int
    BY HoldersFinite, FS_CardinalityType DEF Left, TypeOK
  <2>5. Counters'
    BY <1>0, <1>1, <1>2, <1>5, <2>1, <2>4 DEF Counters
  <2> QED
    BY <1>3, <2>2, <2>3, <2>5
<1> QED
  BY <1>4, <1>5 DEF Propagate

\* Every step of the pool preserves the invariant.
LEMMA PoolStep ==
    ASSUME PoolInv, [Next]_vars
    PROVE  PoolInv'
<1>0. Main \in Thread /\ Worker \subseteq Thread
  BY DEF Thread
<1>1. ASSUME NEW n \in 0 .. MaxJobs, Call(n) PROVE PoolInv'
  BY <1>1, CallStep
<1>2. CASE MainStep
  BY <1>0, <1>2, StoreCountStep, StoreIdStep, ClaimStep, WorkStep, DecStep,
     ReturnStep, OtherSteps DEF MainStep
<1>3. ASSUME NEW w \in Worker, WorkerStep(w) PROVE PoolInv'
  BY <1>0, <1>3, ClaimStep, WorkStep, DecStep, OtherSteps DEF WorkerStep
<1>4. CASE Propagate
  BY <1>4, PropagateStep
<1>5. CASE Destroy
  BY <1>5, OtherSteps
<1>6. CASE UNCHANGED vars
  BY <1>6 DEF vars, PoolInv, TypeOK, Control, Counters, Progress, OncePerCall,
     Holders, InCall, Left, Blocks, First, Last
<1> QED
  BY <1>1, <1>2, <1>3, <1>4, <1>5, <1>6 DEF Next, Terminated

\* The inductive invariant holds in every reachable state.
THEOREM PoolInvariant == Spec => []PoolInv
<1>1. PoolInv /\ [Next]_vars => PoolInv'
  BY PoolStep
<1> QED
  BY <1>1, PoolInit, PTL DEF Spec

\* No simulator makes two transitions in a bag: simulator_process is called
\* once for each, whatever the number of threads and the block size.
THEOREM ProcessedOnce == Spec => []OncePerCall
<1>1. PoolInv => OncePerCall
  BY DEF PoolInv
<1> QED
  BY <1>1, PoolInvariant, PTL

\* No thread of the pool holds a block of the bag outside for_each, and none
\* follows a null m_jobs when the stores of for_each are seen in order.
THEOREM BagIsOwned == Spec => []BagOwned
<1>1. PoolInv => BagOwned
  <2> SUFFICES ASSUME PoolInv PROVE BagOwned
    OBVIOUS
  <2>1. relaxed \/ \A t \in Thread : pc[t] # "crash"
    BY DEF PoolInv, Control, Thread
  <2>2. pc[Main] \in {"idle", "count", "id", "join", "exit"} => Holders = {}
    BY DEF PoolInv, Counters, InCall
  <2> QED
    BY <2>1, <2>2 DEF BagOwned
<1> QED
  BY <1>1, PoolInvariant, PTL

\* Every step of the pool is a step of the sequential loop or a stutter.
LEMMA ForEachStep ==
    ASSUME PoolInv, PoolInv', [Next]_vars
    PROVE  [Abstract!ForEachNext]_(Abstract!forEachVars)
<1> USE DEF Abstract!forEachVars
<1>0. Main \in Thread /\ Worker \subseteq Thread /\ Main \notin Worker
  BY ThreadPoolAssumption DEF Thread
<1>1. ASSUME NEW n \in 0 .. MaxJobs, Call(n)
      PROVE  Abstract!Call
  <2>1. ~Calling /\ Calling'
    BY <1>0, <1>1 DEF Call, Goto, Calling, PoolInv, TypeOK
  <2>2. Todo' = 1 .. n
    BY <1>1, ThreadPoolAssumption DEF Call, Todo
  <2> QED
    BY <2>1, <2>2 DEF Abstract!Call
<1>2. ASSUME NEW t \in Thread, Work(t)
      PROVE  Abstract!Process \/ UNCHANGED <<Calling, Todo>>
  <2>1. t \in Holders /\ InCall /\ Calling
    BY <1>2 DEF Work, Holders, InCall, Calling, PoolInv, Counters
  <2>2. Calling' /\ m_jobs' = m_jobs /\ m_jobs \in Nat /\ m_jobs <= MaxJobs
    <3>1. m_jobs' = m_jobs /\ m_jobs \in 0 .. MaxJobs
      BY <1>2, <2>1 DEF Work, PoolInv, Control, InCall, TypeOK, Null
    <3>2. m_jobs' # Null
      BY <3>1 DEF Null
    <3> QED
      BY <3>1, <3>2, ThreadPoolAssumption DEF PoolInv, Control, Calling
  <2>3. CASE done' = done
    BY <2>1, <2>2, <2>3 DEF Todo
  <2>4. CASE done' = [done EXCEPT ![begin[t]] = @ + 1]
    <3>1. \A k \in 1 .. m_jobs : done[k] \in Nat
                               /\ k \in DOMAIN done
      BY <2>2, ThreadPoolAssumption DEF PoolInv, TypeOK
    <3>2. \A k \in 1 .. m_jobs :
            done'[k] = IF k = begin[t] THEN done[k] + 1 ELSE done[k]
      BY <2>4, <3>1
    <3>3. Todo' = Todo \ {begin[t]}
      BY <2>2, <3>1, <3>2 DEF Todo
    <3> QED
      BY <2>1, <2>2, <3>3 DEF Abstract!Process
  <2> QED
    BY <1>2, <2>3, <2>4 DEF Work
<1>3. CASE Return
  <2>1. pc[Main] = "wait" /\ InCall /\ "count" \notin pending /\ m_block_count < 0
    BY <1>3 DEF Return, InCall
  <2>2. \A k \in 1 .. m_jobs : done[k] = 1
    BY <2>1, CallFinished
  <2>3. Todo = {} /\ Calling
    BY <2>1, <2>2 DEF Todo, Calling
  <2>4. Todo' = {} /\ Calling' = FALSE
    BY <1>0, <1>3 DEF Return, Goto, Todo, Calling, Null, PoolInv, TypeOK
  <2> QED
    BY <2>3, <2>4 DEF Abstract!Return, Abstract!ForEachNext
<1>4. ASSUME m_jobs' = m_jobs, done' = done PROVE UNCHANGED <<Calling, Todo>>
  <2>1. Calling' <=> Calling
    BY <1>4 DEF PoolInv, Control, Calling
  <2> QED
    BY <1>4, <2>1 DEF Todo, Calling
<1>5. CASE MainStep
  <2>1. CASE Work(Main)
    BY <1>0, <1>2, <2>1 DEF Abstract!ForEachNext
  <2>2. CASE Return
    BY <1>3, <2>2 DEF Abstract!ForEachNext
  <2>3. CASE StoreCount \/ StoreId \/ Claim(Main) \/ Dec(Main) \/ Join
    BY <1>4, <2>3 DEF StoreCount, StoreId, Claim, Dec, Join
  <2> QED
    BY <1>5, <2>1, <2>2, <2>3 DEF MainStep, Abstract!ForEachNext
<1>6. ASSUME NEW w \in Worker, WorkerStep(w)
      PROVE  Abstract!Process \/ UNCHANGED <<Calling, Todo>>
  <2>1. CASE Work(w)
    BY <1>0, <1>2, <2>1
  <2>2. CASE Check(w) \/ Claim(w) \/ Dec(w)
    BY <1>4, <2>2 DEF Check, Claim, Dec
  <2> QED
    BY <1>6, <2>1, <2>2 DEF WorkerStep
<1>7. CASE Propagate \/ Destroy \/ Terminated \/ UNCHANGED vars
  BY <1>4, <1>7 DEF Propagate, Destroy, Terminated, vars
<1> QED
  BY <1>1, <1>5, <1>6, <1>7 DEF Next, Abstract!ForEachNext

\* The pool implements the sequential loop: for_each returns only when every
\* simulator of the vector has made exactly one transition.
THEOREM PoolImplementsForEach == Spec => ImplementsForEach
<1>1. Init => Abstract!ForEachInit
  BY DEF Init, Abstract!ForEachInit, Calling, Todo, Null, Thread
<1>2. PoolInv /\ PoolInv' /\ [Next]_vars =>
        [Abstract!ForEachNext]_(Abstract!forEachVars)
  BY ForEachStep
<1> QED
  BY <1>1, <1>2, PoolInvariant, PTL
  DEF Spec, ImplementsForEach, Abstract!ForEachSpec

=============================================================================
