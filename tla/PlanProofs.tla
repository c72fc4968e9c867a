----------------------------- MODULE PlanProofs -----------------------------
(***************************************************************************)
(* Theorems on Plan: for any number of inputs, replicates, outputs and     *)
(* threads, a plan answers with complete results or with its first error,  *)
(* and judges every simulation by its own child.                           *)
(***************************************************************************)
EXTENDS Plan, Facts

\* The code and the text of the error.
USE DEF errorVars

-----------------------------------------------------------------------------
(* The inductive invariant.                                                *)

\* The inputs do not fit, so that no simulation is made.
Unfit == shape = "scalar" /\ N > 1

\* From the beginning of a simulation to the end of its aggregation, or to an
\* error.
Working == {"sim", "started", "poll", "elapsed", "wait", "status", "destroy",
            "lock", "locked", "aggregate"}

\* Outside Spawn objects.
Childless == {"loop", "message", "sim", "lock", "locked", "aggregate", "end", "undefined"}

\* The simulations aggregated for every output.
Written == {i \in Sims : i < index[i % nslots]}

\* Where the threads are: thread t does the simulations of remainder t, and
\* only ends when nothing is left for it or there is an error.
Loops ==
    \A t \in Threads :
        /\ t >= nslots => pc[t] = "end" /\ index[t] = t
        /\ t < nslots => index[t] % nslots = t
        /\ pc[t] \in Working => index[t] < Total /\ ~Unfit
        /\ pc[t] = "message" => Unfit /\ mError = Total
        /\ (pc[t] = "end" /\ t < nslots) => index[t] >= Total \/ mError # NoError
        /\ returned # "no" => pc[t] = "end"

\* What was begun: all that is aggregated and what a thread left for an error
\* or works on.
Begins ==
    /\ Written \subseteq begun
    /\ \A t \in Threads : pc[t] \in Working => index[t] \in begun
    /\ \A i \in begun : LET t == i % nslots IN
         i < index[t] \/ (i = index[t] /\ pc[t] # "loop")

\* results_mutex protects the aggregation.
Exclusion ==
    \A t \in Threads :
        /\ pc[t] \in {"locked", "aggregate", "undefined"} <=> mutex = t
        /\ pc[t] = "aggregate" => mError = NoError /\ outcome[t] # "error"

\* What a Spawn object knows of its child, by the place of its thread.
OwnChild(t) ==
    /\ pc[t] \in Childless => child[t] = "none" /\ ~started[t] /\ finish[t]
    /\ pc[t] \in {"started", "poll", "elapsed", "wait", "status"} =>
         pid[t] = "own" /\ started[t]
    /\ pc[t] = "started" => ~finish[t]
    /\ pc[t] = "status" => finish[t]
    /\ pc[t] \in {"started", "poll", "elapsed", "wait", "status"} =>
         IF finish[t] THEN child[t] = "reaped" /\ status[t] = code[t]
                      ELSE child[t] \in {"running", "zombie"}
    /\ pc[t] = "destroy" =>
         \/ finish[t] /\ child[t] = "reaped"
         \/ ~finish[t] /\ child[t] = "none" /\ nslots = 1

Children == \A t \in Threads : OwnChild(t)

\* The failure of a simulation is on its way to mError.
Carries(t) == pc[t] \in {"destroy", "lock", "locked"} /\ outcome[t] = "error"

\* An error is that of a simulation or of the inputs, and a failure is on its
\* way to mError or there.
Errors ==
    /\ mError # NoError => failed # {} \/ Unfit
    /\ \A t \in Threads : Carries(t) => failed # {}
    /\ failed # {} => mError # NoError \/ \E t \in Threads : Carries(t)
    /\ Unfit => /\ mError \in {NoError, Total}
                /\ index[0] = 0
                /\ pc[0] = "end" => mError # NoError
    /\ returned = "results" => mError = NoError
    /\ returned = "error" => mError # NoError

\* The text of an error is that of its code, or a thread is about to write it.
Texts ==
    /\ message = Torn => Unfit
    /\ mError # NoError => \/ message \in {mError, Torn}
                          \/ \E t \in Threads : pc[t] = "message"

\* Only a child that left no output gives a simulation without result and
\* without error.
Nulls == \A t \in Threads : outcome[t] = "null" \/ pc[t] = "undefined" => blank

ControlInv == TypeOK /\ Loops /\ Begins /\ Exclusion /\ Children /\ Errors /\ Texts /\ Nulls

\* The inputs whose replicates are all in A.
Complete(A) == {k \in 0..(N - 1) : Replicates(k) \subseteq A}

\* A sequence that holds each element of a set once.
Lists(q, A) == q \in Seq(Sims) /\ IsInjective(q) /\ Range(q) = A

\* The accumulators of an output for which the simulations of A are
\* aggregated: those of an input wait until all its replicates are there.
Gathered(acc, A) ==
    \A k \in 0..(N - 1) :
        Lists(acc[k], IF k \in Complete(A) THEN {} ELSE A \cap Replicates(k))

Filled(ins, A) ==
    \E ks \in Seq(0..(N - 1)) :
        /\ IsInjective(ks) /\ Range(ks) = Complete(A)
        /\ Len(ins) = Len(ks)
        /\ \A j \in 1..Len(ks) : Lists(ins[j], Replicates(ks[j]))

Accumulated(acc, ins, res, A) ==
    /\ Gathered(acc, A)
    /\ Filled(ins, A)
    /\ res = IF Len(ins) = N THEN ins ELSE <<>>

\* The simulations aggregated for output o.
Aggregated(o) ==
    Written \cup {index[t] : t \in {u \in Threads : pc[u] = "aggregate" /\ o < out}}

\* An exception of the aggregation leaves the outputs apart; after an error,
\* or a null pointer, nothing is aggregated any more.
AccumulatorInv ==
    mError = NoError /\ ~Crashed => \A o \in Outputs :
        Accumulated(replicateAccu[o], inputAccu[o], results[o], Aggregated(o))

-----------------------------------------------------------------------------
(* Numbers.                                                                *)

\* Division with remainder.
LEMMA Division ==
    ASSUME NEW a \in Nat, NEW n \in Nat \ {0}
    PROVE  /\ a \div n \in Nat /\ a % n \in 0..(n - 1)
           /\ a = n * (a \div n) + (a % n)
OBVIOUS

\* The simulations of a thread are nslots apart.
LEMMA Strides ==
    ASSUME NEW a \in Nat, NEW b \in Nat, NEW n \in Nat \ {0}
    PROVE  /\ (a + n) % n = a % n
           /\ (a % n = b % n /\ a <= b /\ b < a + n) => a = b
           /\ a < n => a % n = a
           /\ a % n <= a
<1>1. a \div n \in Nat /\ a % n \in 0..(n - 1) /\ a = n * (a \div n) + (a % n)
    BY Division
<1>2. b \div n \in Nat /\ b % n \in 0..(n - 1) /\ b = n * (b \div n) + (b % n)
    BY Division
<1>3. ASSUME NEW c \in Nat, NEW d \in Nat, n * c < n * d + n PROVE c <= d
    <2>1. CASE d + 1 <= c
        <3>1. n * (d + 1) <= n * c
            BY <2>1
        <3>2. n * (d + 1) = n * d + n
            OBVIOUS
        <3> QED BY <1>3, <3>1, <3>2
    <2> QED BY <2>1
<1>4. (a + n) % n = a % n
    <2> DEFINE c == a + n
    <2>1. c \in Nat
        OBVIOUS
    <2>2. c \div n \in Nat /\ c % n \in 0..(n - 1) /\ c = n * (c \div n) + (c % n)
        BY <2>1, Division
    <2>3. n * ((a \div n) + 1) = n * (a \div n) + n
        BY <1>1
    <2> HIDE DEF c
    <2>4. c = n * ((a \div n) + 1) + (a % n)
        BY <1>1, <2>3 DEF c
    <2>5. n * (c \div n) \in Nat /\ n * ((a \div n) + 1) \in Nat
        BY <1>1, <2>2
    <2>6. n * (c \div n) < n * ((a \div n) + 1) + n
        BY <1>1, <2>2, <2>4, <2>5
    <2>7. n * ((a \div n) + 1) < n * (c \div n) + n
        BY <1>1, <2>2, <2>4, <2>5
    <2>8. c \div n = (a \div n) + 1
        <3> DEFINE e == (a \div n) + 1
        <3>1. e \in Nat
            BY <1>1
        <3> HIDE DEF e
        <3>2. c \div n <= e
            BY <1>3, <2>2, <2>6, <3>1 DEF e
        <3>3. e <= c \div n
            BY <1>3, <2>2, <2>7, <3>1 DEF e
        <3>4. c \div n = e
            BY <2>2, <3>1, <3>2, <3>3
        <3> QED BY <3>4 DEF e
    <2> QED BY <1>1, <2>2, <2>4, <2>5, <2>8 DEF c
<1>5. ASSUME a % n = b % n, a <= b, b < a + n PROVE a = b
    <2>1. n * (a \div n) \in Nat /\ n * (b \div n) \in Nat
        BY <1>1, <1>2
    <2>2. n * (b \div n) < n * (a \div n) + n
        BY <1>1, <1>2, <1>5, <2>1
    <2>3. n * (a \div n) < n * (b \div n) + n
        BY <1>1, <1>2, <1>5, <2>1
    <2>4. a \div n = b \div n
        BY <1>1, <1>2, <1>3, <2>2, <2>3
    <2> QED BY <1>1, <1>2, <1>5, <2>4
<1>6. ASSUME a < n PROVE a % n = a
    <2>1. n * (a \div n) < n * 0 + n
        BY <1>1, <1>6
    <2>2. a \div n = 0
        BY <1>1, <1>3, <2>1
    <2> QED BY <1>1, <2>2
<1>7. a % n <= a
    <2>1. n * (a \div n) \in Nat
        BY <1>1
    <2> QED BY <1>1, <2>1
<1> QED BY <1>4, <1>5, <1>6, <1>7

\* The quotient is known from bounds.
LEMMA Quotient ==
    ASSUME NEW a \in Nat, NEW n \in Nat \ {0}, NEW k \in Nat
    PROVE  a \div n = k <=> (k * n <= a /\ a < k * n + n)
<1>1. a \div n \in Nat /\ a % n \in 0..(n - 1) /\ a = n * (a \div n) + (a % n)
    BY Division
<1>2. ASSUME NEW c \in Nat, NEW d \in Nat, c * n < d * n + n PROVE c <= d
    <2>1. CASE d + 1 <= c
        <3>1. (d + 1) * n <= c * n
            BY <2>1
        <3>2. (d + 1) * n = d * n + n
            OBVIOUS
        <3> QED BY <1>2, <3>1, <3>2
    <2> QED BY <2>1
<1> DEFINE c == a \div n
<1>3. c \in Nat /\ c * n \in Nat /\ k * n \in Nat /\ a = c * n + (a % n)
    BY <1>1
<1> HIDE DEF c
<1>4. ASSUME c = k PROVE k * n <= a /\ a < k * n + n
    BY <1>1, <1>3, <1>4
<1>5. ASSUME k * n <= a, a < k * n + n PROVE c = k
    <2>1. c * n < k * n + n /\ k * n < c * n + n
        BY <1>1, <1>3, <1>5
    <2>2. c <= k /\ k <= c
        BY <1>2, <1>3, <2>1
    <2> QED BY <1>3, <2>2
<1> QED BY <1>4, <1>5 DEF c

\* Simulation i is a replicate of input i \div M, and each input has M of
\* them.
LEMMA Inputs ==
    /\ Total \in Nat \ {0} /\ Sims \subseteq Nat
    /\ \A i \in Sims : i \div M \in 0..(N - 1) /\ i \in Replicates(i \div M)
    /\ \A k \in 0..(N - 1) : /\ IsFiniteSet(Replicates(k))
                             /\ Cardinality(Replicates(k)) = M
                             /\ Replicates(k) \subseteq Sims
<1>1. N \in Nat \ {0} /\ M \in Nat \ {0}
    BY PlanAssumption
<1>2. N * M \in Nat /\ N * M >= N
    BY <1>1
<1>3. Total \in Nat \ {0} /\ Sims \subseteq Nat
    BY <1>1, <1>2 DEF Total, Sims
<1>4. ASSUME NEW i \in Sims PROVE i \div M \in 0..(N - 1) /\ i \in Replicates(i \div M)
    <2>1. i \in Nat /\ i < N * M
        BY <1>2, <1>4 DEF Sims, Total
    <2>2. i \div M \in Nat /\ i % M \in 0..(M - 1)
        BY <1>1, <2>1, Division
    <2> DEFINE k == i \div M
    <2>3. k * M <= i
        BY <1>1, <2>1, <2>2, Quotient
    <2> HIDE DEF k
    <2>4. k \in Nat /\ k * M \in Nat
        BY <1>1, <2>2 DEF k
    <2>5. k < N
        <3>1. CASE N <= k
            <4>1. N * M <= k * M
                BY <1>1, <2>4, <3>1
            <4> QED BY <1>2, <2>1, <2>3, <2>4, <4>1
        <3> QED BY <1>1, <2>4, <3>1
    <2>6. k \in 0..(N - 1)
        BY <1>1, <2>4, <2>5
    <2> QED BY <2>6 DEF k, Replicates
<1>5. ASSUME NEW k \in 0..(N - 1)
      PROVE  /\ IsFiniteSet(Replicates(k)) /\ Cardinality(Replicates(k)) = M
             /\ Replicates(k) \subseteq Sims
    <2>1. k \in Nat /\ k + 1 <= N /\ k * M \in Nat
        BY <1>1
    <2>2. (k + 1) * M = k * M + M
        BY <1>1, <2>1
    <2>3. (k + 1) * M <= N * M
        BY <1>1, <2>1
    <2> DEFINE a == k * M
               b == k * M + M - 1
    <2>4. a \in Int /\ b \in Int /\ a <= b /\ b - a + 1 = M /\ b < N * M
        BY <1>1, <1>2, <2>1, <2>2, <2>3
    <2>5. \A i \in Nat : i \div M = k <=> i \in a..b
        BY <1>1, <2>1, Quotient
    <2> HIDE DEF a, b
    <2>6. a..b \subseteq Sims
        BY <1>2, <2>1, <2>4 DEF Sims, Total, a
    <2>7. Replicates(k) = a..b
        BY <1>3, <2>5, <2>6 DEF Replicates
    <2>8. IsFiniteSet(a..b) /\ Cardinality(a..b) = M
        BY <2>4, FS_Interval
    <2> QED BY <2>6, <2>7, <2>8
<1> QED BY <1>3, <1>4, <1>5
-----------------------------------------------------------------------------
(* DelegateOut::insertReplicate.                                           *)

\* A sequence without repetition is as long as its range is large.
LEMMA ListSize ==
    ASSUME NEW S, NEW q \in Seq(S), IsInjective(q)
    PROVE  IsFiniteSet(Range(q)) /\ Cardinality(Range(q)) = Len(q)
<1>1. Len(q) \in Nat /\ DOMAIN q = 1..Len(q)
    OBVIOUS
<1>2. q \in [1..Len(q) -> Range(q)]
    BY <1>1 DEF Range
<1>3. q \in Bijection(1..Len(q), Range(q))
    BY <1>1, <1>2 DEF Range, IsInjective, Bijection, Injection, Surjection
<1>4. ExistsBijection(1..Len(q), Range(q))
    BY <1>3 DEF ExistsBijection
<1>5. IsFiniteSet(1..Len(q)) /\ Cardinality(1..Len(q)) = Len(q)
    BY <1>1, FS_Interval
<1> QED BY <1>4, <1>5, FS_Bijection

\* An output that lacks a simulation has no value yet.
LEMMA Incomplete ==
    ASSUME NEW acc, NEW ins, NEW res, NEW A, NEW i \in Sims, i \notin A,
           Accumulated(acc, ins, res, A)
    PROVE  res = <<>>
<1> DEFINE k == i \div M
<1>1. k \in 0..(N - 1) /\ i \in Replicates(k) /\ N \in Nat \ {0}
    BY Inputs, PlanAssumption
<1> HIDE DEF k
<1>3. k \notin Complete(A)
    BY <1>1 DEF Complete
<1>9. PICK ks \in Seq(0..(N - 1)) :
         /\ IsInjective(ks) /\ Range(ks) = Complete(A)
         /\ Len(ins) = Len(ks)
         /\ \A j \in 1..Len(ks) : Lists(ins[j], Replicates(ks[j]))
    BY DEF Accumulated, Filled
<1>10. Len(ins) # N
    <2>1. IsFiniteSet(Complete(A)) /\ Cardinality(Complete(A)) = Len(ins)
        BY <1>9, ListSize
    <2>2. IsFiniteSet(0..(N - 1)) /\ Cardinality(0..(N - 1)) = N
        BY <1>1, FS_Interval
    <2>3. Complete(A) \in SUBSET (0..(N - 1))
        BY DEF Complete
    <2>4. Cardinality(Complete(A)) = N => Complete(A) = 0..(N - 1)
        BY <2>2, <2>3, FS_Subset
    <2> QED BY <1>1, <1>3, <2>1, <2>4
<1> QED BY <1>10 DEF Accumulated

\* The effect of InsertReplicate on the accumulators and the value of an
\* output.
Inserts(acc, ins, res, i, acc2, ins2, res2) ==
    LET k == i \div M
        gathered == Append(acc[k], i)
        filled == Len(gathered) = M
    IN  /\ acc2[k] = IF filled THEN <<>> ELSE gathered
        /\ \A j \in 0..(N - 1) : j # k => acc2[j] = acc[j]
        /\ ins2 = IF filled THEN Append(ins, gathered) ELSE ins
        /\ res2 = IF Len(ins2) = N THEN ins2 ELSE res

\* A simulation that was not aggregated is put where it belongs.
LEMMA Insertion ==
    ASSUME NEW acc \in [0..(N - 1) -> Seq(Sims)], NEW ins \in Seq(Seq(Sims)), NEW res,
           NEW A \in SUBSET Sims, NEW i \in Sims, i \notin A,
           Accumulated(acc, ins, res, A),
           NEW acc2, NEW inputs, NEW res2, Inserts(acc, ins, res, i, acc2, inputs, res2)
    PROVE  Accumulated(acc2, inputs, res2, A \cup {i})
<1> DEFINE k == i \div M
           gathered == Append(acc[k], i)
<1>0. /\ acc2[k] = IF Len(gathered) = M THEN <<>> ELSE gathered
      /\ \A j \in 0..(N - 1) : j # k => acc2[j] = acc[j]
      /\ inputs = IF Len(gathered) = M THEN Append(ins, gathered) ELSE ins
      /\ res2 = IF Len(inputs) = N THEN inputs ELSE res
      /\ k = i \div M /\ gathered = Append(acc[k], i)
    BY DEF Inserts
<1> HIDE DEF k, gathered
<1> DEFINE B == A \cup {i}
<1>1. k \in 0..(N - 1) /\ i \in Replicates(k) /\ N \in Nat \ {0} /\ M \in Nat \ {0}
    BY <1>0, Inputs, PlanAssumption
<1>2. \A j \in 0..(N - 1) : j # k => i \notin Replicates(j)
    BY <1>0, <1>1 DEF Replicates
<1>3. k \notin Complete(A)
    BY <1>1 DEF Complete
<1>4. \A j \in 0..(N - 1) : j # k => (j \in Complete(B) <=> j \in Complete(A))
    BY <1>2 DEF Complete
<1>5. \A j \in 0..(N - 1) : j # k => B \cap Replicates(j) = A \cap Replicates(j)
    BY <1>2
<1>6. Lists(acc[k], A \cap Replicates(k))
    BY <1>1, <1>3 DEF Accumulated, Gathered
<1>7. /\ gathered \in Seq(Sims) /\ IsInjective(gathered)
      /\ Range(gathered) = B \cap Replicates(k)
    <2>1. acc[k] \in Seq(Sims) /\ IsInjective(acc[k]) /\ Range(acc[k]) = A \cap Replicates(k)
        BY <1>6 DEF Lists
    <2>2. i \notin Range(acc[k])
        BY <2>1
    <2>3. /\ gathered \in Seq(Sims) /\ IsInjective(gathered)
          /\ Range(gathered) = Range(acc[k]) \cup {i}
        BY <1>0, <2>1, <2>2, AppendFresh
    <2> QED BY <1>1, <2>1, <2>3
<1>8. Len(gathered) = M <=> k \in Complete(B)
    <2> DEFINE T == B \cap Replicates(k)
    <2>1. IsFiniteSet(T) /\ Cardinality(T) = Len(gathered)
        BY <1>7, ListSize
    <2>2. IsFiniteSet(Replicates(k)) /\ Cardinality(Replicates(k)) = M
        BY <1>1, Inputs
    <2>3. T \in SUBSET Replicates(k)
        OBVIOUS
    <2> HIDE DEF T
    <2>4. Cardinality(T) = M => T = Replicates(k)
        BY <2>2, <2>3, FS_Subset
    <2>5. T = Replicates(k) => Cardinality(T) = M
        BY <2>2
    <2>6. T = Replicates(k) <=> k \in Complete(B)
        BY <1>1 DEF T, Complete
    <2> QED BY <2>1, <2>4, <2>5, <2>6
<1>9. PICK ks \in Seq(0..(N - 1)) :
         /\ IsInjective(ks) /\ Range(ks) = Complete(A)
         /\ Len(ins) = Len(ks)
         /\ \A j \in 1..Len(ks) : Lists(ins[j], Replicates(ks[j]))
    BY DEF Accumulated, Filled
<1>11. res = <<>>
    BY Incomplete
<1>13. Gathered(acc2, B)
    <2> SUFFICES ASSUME NEW j \in 0..(N - 1)
                 PROVE  Lists(acc2[j], IF j \in Complete(B) THEN {} ELSE B \cap Replicates(j))
        BY DEF Gathered
    <2>1. CASE j # k
        <3>1. acc2[j] = acc[j]
            BY <1>0, <2>1
        <3>2. Lists(acc[j], IF j \in Complete(A) THEN {} ELSE A \cap Replicates(j))
            BY DEF Accumulated, Gathered
        <3> HIDE DEF B
        <3> QED BY <1>4, <1>5, <2>1, <3>1, <3>2
    <2>2. CASE j = k /\ Len(gathered) = M
        <3>1. acc2[j] = <<>>
            BY <1>0, <2>2
        <3>2. Lists(<<>>, {})
            <4>1. <<>> \in Seq(Sims) /\ DOMAIN <<>> = {}
                OBVIOUS
            <4> QED BY <4>1 DEF Lists, IsInjective, Range
        <3> HIDE DEF B
        <3> QED BY <1>8, <2>2, <3>1, <3>2
    <2>3. CASE j = k /\ Len(gathered) # M
        <3>1. acc2[j] = gathered
            BY <1>0, <2>3
        <3> HIDE DEF B
        <3> QED BY <1>7, <1>8, <2>3, <3>1 DEF Lists
    <2> QED BY <2>1, <2>2, <2>3
<1>14. Filled(inputs, B)
    <2>1. CASE Len(gathered) = M
        <3> DEFINE ks2 == Append(ks, k)
        <3>1. /\ ks2 \in Seq(0..(N - 1)) /\ Range(ks2) = Complete(A) \cup {k}
              /\ IsInjective(ks2)
            BY <1>1, <1>3, <1>9, AppendFresh
        <3>2. Len(ks2) = Len(ks) + 1 /\ Len(ks) \in Nat /\ ks2[Len(ks) + 1] = k
              /\ \A j \in 1..Len(ks) : ks2[j] = ks[j]
            BY <1>1, <1>9
        <3>3. Len(inputs) = Len(ks) + 1 /\ inputs[Len(ks) + 1] = gathered
              /\ \A j \in 1..Len(ks) : inputs[j] = ins[j]
            BY <1>0, <1>7, <1>9, <2>1
        <3>4. Complete(B) = Complete(A) \cup {k}
            <4>1. k \in Complete(B) /\ Complete(A) \subseteq 0..(N - 1) /\ Complete(B) \subseteq 0..(N - 1)
                BY <1>8, <2>1 DEF Complete
            <4> HIDE DEF B
            <4> QED BY <1>4, <1>3, <4>1
        <3>5. Lists(gathered, Replicates(k))
            <4>1. B \cap Replicates(k) = Replicates(k)
                BY <1>8, <2>1 DEF Complete
            <4> QED BY <1>7, <4>1 DEF Lists
        <3> HIDE DEF ks2, B
        <3>6. ASSUME NEW j \in 1..Len(ks2) PROVE Lists(inputs[j], Replicates(ks2[j]))
            <4>1. CASE j = Len(ks) + 1
                BY <3>2, <3>3, <3>5, <4>1
            <4>2. CASE j # Len(ks) + 1
                <5>1. j \in 1..Len(ks)
                    BY <3>2, <4>2
                <5>2. ks2[j] = ks[j] /\ inputs[j] = ins[j]
                    BY <3>2, <3>3, <5>1
                <5>3. Lists(ins[j], Replicates(ks[j]))
                    BY <1>9, <5>1
                <5> QED BY <5>2, <5>3
            <4> QED BY <4>1, <4>2
        <3> QED BY <3>1, <3>2, <3>3, <3>4, <3>6 DEF Filled
    <2>2. CASE Len(gathered) # M
        <3>1. Complete(B) = Complete(A)
            <4>1. k \notin Complete(B) /\ Complete(A) \subseteq 0..(N - 1) /\ Complete(B) \subseteq 0..(N - 1)
                BY <1>8, <2>2 DEF Complete
            <4> HIDE DEF B
            <4>2. ASSUME NEW j \in 0..(N - 1) PROVE j \in Complete(B) <=> j \in Complete(A)
                BY <1>4, <1>3, <4>1
            <4> QED BY <4>1, <4>2
        <3> HIDE DEF B
        <3> QED BY <1>0, <1>9, <2>2, <3>1 DEF Filled
    <2> QED BY <2>1, <2>2
<1> HIDE DEF B
<1>15. Accumulated(acc2, inputs, res2, B)
    BY <1>0, <1>11, <1>13, <1>14 DEF Accumulated
<1> QED BY <1>15 DEF B
\* The value of an output is made of all inputs, each with its replicates.
Whole(res) ==
    /\ Len(res) = N
    /\ \A k \in 1..N : Len(res[k]) = M
    /\ {{res[k][j] : j \in 1..M} : k \in 1..N} = {Replicates(k) : k \in 0..(N - 1)}

\* When all simulations are aggregated for an output, its value is whole.
LEMMA Completion ==
    ASSUME NEW acc, NEW ins \in Seq(Seq(Sims)), NEW res, Accumulated(acc, ins, res, Sims)
    PROVE  Whole(res)
<1>1. N \in Nat \ {0} /\ M \in Nat \ {0}
    BY PlanAssumption
<1>2. Complete(Sims) = 0..(N - 1)
    BY Inputs DEF Complete
<1>3. PICK ks \in Seq(0..(N - 1)) :
         /\ IsInjective(ks) /\ Range(ks) = 0..(N - 1)
         /\ Len(ins) = Len(ks)
         /\ \A j \in 1..Len(ks) : Lists(ins[j], Replicates(ks[j]))
    BY <1>2 DEF Accumulated, Filled
<1>4. Len(ks) = N
    <2>1. Cardinality(0..(N - 1)) = Len(ks)
        BY <1>3, ListSize
    <2>2. Cardinality(0..(N - 1)) = N
        BY <1>1, FS_Interval
    <2> QED BY <2>1, <2>2
<1>5. res = ins /\ Len(res) = N
    BY <1>3, <1>4 DEF Accumulated
<1>6. ASSUME NEW k \in 1..N
      PROVE  /\ ks[k] \in 0..(N - 1)
             /\ Len(res[k]) = M /\ {res[k][j] : j \in 1..M} = Replicates(ks[k])
    <2>1. ks[k] \in 0..(N - 1)
        BY <1>3, <1>4
    <2>2. res[k] \in Seq(Sims) /\ IsInjective(res[k]) /\ Range(res[k]) = Replicates(ks[k])
        BY <1>3, <1>4, <1>5 DEF Lists
    <2>3. Cardinality(Replicates(ks[k])) = Len(res[k])
        BY <2>2, ListSize
    <2>4. Len(res[k]) = M
        BY <2>1, <2>3, Inputs
    <2>5. DOMAIN res[k] = 1..M
        BY <2>2, <2>4
    <2>6. {res[k][j] : j \in 1..M} = Range(res[k])
        BY <2>5 DEF Range
    <2> QED BY <2>1, <2>2, <2>4, <2>6
<1>7. ASSUME NEW i \in 0..(N - 1) PROVE \E k \in 1..N : ks[k] = i
    <2>1. DOMAIN ks = 1..N
        BY <1>3, <1>4
    <2>2. i \in Range(ks)
        BY <1>3
    <2> QED BY <2>1, <2>2 DEF Range
<1>8. {{res[k][j] : j \in 1..M} : k \in 1..N} = {Replicates(k) : k \in 0..(N - 1)}
    <2>1. ASSUME NEW k \in 1..N
          PROVE  {res[k][j] : j \in 1..M} \in {Replicates(i) : i \in 0..(N - 1)}
        BY <1>6
    <2>2. ASSUME NEW i \in 0..(N - 1)
          PROVE  Replicates(i) \in {{res[k][j] : j \in 1..M} : k \in 1..N}
        <3>1. PICK k \in 1..N : ks[k] = i
            BY <1>7
        <3>2. Replicates(i) = {res[k][j] : j \in 1..M}
            BY <1>6, <3>1
        <3> QED BY <3>2
    <2> QED BY <2>1, <2>2
<1> QED BY <1>5, <1>6, <1>8 DEF Whole
-----------------------------------------------------------------------------
(* Child processes.                                                        *)

\* A fork only fails when there is one thread (plan_fork is about two).
SafeForks == FailingSlots \subseteq {1}

\* The operations of a Spawn object keep the types of its members.
LEMMA SpawnTypes ==
    ASSUME SpawnTypeOK, NEW t \in Owners,
           \/ Fork(t) \/ ForkFails(t) \/ Reap(t) \/ Kill(t) \/ Dispose(t)
           \/ ChildExits(t) \/ ChildKilled(t) \/ UNCHANGED spawnVars
    PROVE  SpawnTypeOK'
<1>1. CASE Fork(t)
    BY <1>1 DEF SpawnTypeOK, Fork, Codes
<1>2. CASE ForkFails(t)
    BY <1>2 DEF SpawnTypeOK, ForkFails, Codes
<1>3. CASE Reap(t)
    BY <1>3 DEF SpawnTypeOK, Reap, Waited
<1>4. CASE Kill(t)
    <2>1. PICK b \in BOOLEAN : term' = [term EXCEPT ![t] = b]
        BY <1>4 DEF SpawnTypeOK, Kill
    <2>2. term' \in [Owners -> BOOLEAN]
        BY <2>1 DEF SpawnTypeOK
    <2> QED BY <1>4, <2>2 DEF SpawnTypeOK, Kill
<1>5. CASE Dispose(t)
    <2>1. child' \in [Owners -> {"none", "running", "zombie", "reaped"}]
        BY <1>5 DEF SpawnTypeOK, Dispose
    <2> QED BY <1>5, <2>1 DEF SpawnTypeOK, Dispose
<1>6. CASE ChildExits(t)
    BY <1>6 DEF SpawnTypeOK, ChildExits, Codes
<1>7. CASE ChildKilled(t)
    BY <1>7 DEF SpawnTypeOK, ChildKilled, Codes
<1>8. CASE UNCHANGED spawnVars
    BY <1>8 DEF SpawnTypeOK, spawnVars
<1> QED BY <1>1, <1>2, <1>3, <1>4, <1>5, <1>6, <1>7, <1>8

\* An object that knows the pid of its child only waits for this child.
LEMMA OwnReap ==
    ASSUME SpawnTypeOK, NEW t \in Owners, pid[t] = "own", Reap(t)
    PROVE  /\ child[t] = "zombie"
           /\ child' = [child EXCEPT ![t] = "reaped"]
           /\ status' = [status EXCEPT ![t] = code[t]]
           /\ finish' = [finish EXCEPT ![t] = TRUE]
           /\ UNCHANGED <<code, term, pid, started>>
BY DEF Reap, Waited, SpawnTypeOK

\* What another object knows of its child is not changed.
LEMMA OthersKeep ==
    ASSUME NEW u, OwnChild(u), pc'[u] = pc[u],
           child'[u] = child[u], code'[u] = code[u], pid'[u] = pid[u],
           started'[u] = started[u], finish'[u] = finish[u], status'[u] = status[u],
           nslots' = nslots
    PROVE  OwnChild(u)'
BY DEF OwnChild, Childless

\* A failed start leaves no child, and there is no other to wait for.
LEMMA NothingWaited ==
    ASSUME TypeOK, Loops, Children, NEW t \in Threads, pc[t] = "destroy", ~finish[t]
    PROVE  Waited(t) = {} /\ child[t] = "none"
<1>1. child[t] = "none" /\ nslots = 1
    BY DEF Children, OwnChild
<1>2. ASSUME NEW u \in Threads PROVE child[u] = "none"
    <2>1. t \in Int /\ u \in Int /\ t >= 0 /\ u >= 0
        BY PlanAssumption DEF Threads
    <2>2. t < 1
        BY <1>1, <2>1 DEF Loops
    <2>3. CASE u = t
        BY <1>1, <2>3
    <2>4. CASE u # t
        <3>1. u >= nslots
            BY <1>1, <2>1, <2>2, <2>4
        <3>2. pc[u] = "end"
            BY <3>1 DEF Loops
        <3> QED BY <3>2 DEF Children, OwnChild, Childless
    <2> QED BY <2>3, <2>4
<1> QED BY <1>1, <1>2 DEF Waited, Threads
\* IsRunning of an object that knows its child.
LEMMA OwnIsRunning ==
    ASSUME SpawnTypeOK, NEW t \in Owners, pid[t] = "own", started[t], ~finish[t],
           child[t] \in {"running", "zombie"}, NEW r \in BOOLEAN, IsRunning(t, r)
    PROVE  r /\ (Reap(t) \/ UNCHANGED spawnVars)
<1>1. t \in Waited(t)
    BY DEF Waited
<1> QED BY <1>1 DEF IsRunning

\* The steps of a simulation, as the rest of the loop sees them.
Inner(t) ==
    /\ pc[t] \in {"sim", "started", "poll", "elapsed", "wait", "status", "destroy"}
    /\ \E l \in {"started", "poll", "elapsed", "wait", "status", "destroy", "lock"} :
         /\ pc' = [pc EXCEPT ![t] = l]
         /\ \/ UNCHANGED <<outcome, failed>> /\ (l \in {"destroy", "lock"} => pc[t] = "destroy")
            \/ /\ \E r \in {"ok", "error", "null"} : Ends(t, r) /\ (r = "null" => blank')
               /\ l \in {"destroy", "lock"} /\ pc[t] # "destroy"
         /\ pc[t] = "destroy" => l \in {"destroy", "lock"}
    /\ blank' \in BOOLEAN /\ (blank => blank')
    /\ UNCHANGED <<planVars, index, mutex, out, mError, message, aggregateVars, begun, returned>>

SimulationStep(t) ==
    \/ RunInThread(t) \/ StartChild(t) \/ StartFails(t) \/ Started(t)
    \/ Poll(t) \/ Elapsed(t) \/ WaitChild(t) \/ Status(t) \/ Destroy(t)

\* A simulation ends with a result or an error, judged by its own child, and
\* no step of a Spawn object touches the child of another.
LEMMA SimulationSteps ==
    ASSUME TypeOK, Loops, Children, SafeForks, NEW t \in Threads, SimulationStep(t)
    PROVE  Inner(t) /\ Children' /\ SpawnTypeOK' /\ late' \in [Threads -> BOOLEAN]
<1> USE DEF Threads
<1>1. /\ SpawnTypeOK /\ pc \in [Threads -> PCs] /\ outcome \in [Threads -> {"ok", "error", "null"}]
      /\ late \in [Threads -> BOOLEAN] /\ blank \in BOOLEAN
    BY DEF TypeOK
<1>2. OwnChild(t) /\ \A u \in Threads : OwnChild(u)
    BY DEF Children
<1>o. ASSUME NEW u \in Threads, u # t,
             \E l : pc' = [pc EXCEPT ![t] = l],
             child' = child \/ \E x : child' = [child EXCEPT ![t] = x],
             code' = code,
             pid' = pid \/ \E x : pid' = [pid EXCEPT ![t] = x],
             started' = started \/ \E x : started' = [started EXCEPT ![t] = x],
             finish' = finish \/ \E x : finish' = [finish EXCEPT ![t] = x],
             status' = status \/ \E x : status' = [status EXCEPT ![t] = x],
             nslots' = nslots
      PROVE  OwnChild(u)'
    <2>1. /\ pc'[u] = pc[u] /\ child'[u] = child[u]
          /\ code'[u] = code[u] /\ pid'[u] = pid[u] /\ started'[u] = started[u]
          /\ finish'[u] = finish[u] /\ status'[u] = status[u]
        BY <1>1, <1>o DEF SpawnTypeOK
    <2> QED BY <1>2, <1>o, <2>1, OthersKeep
<1>a. ASSUME RunInThread(t) PROVE Inner(t) /\ Children' /\ SpawnTypeOK' /\ late' \in [Threads -> BOOLEAN]
    <2>1. Inner(t)
        BY <1>1, <1>a DEF RunInThread, Goto, Inner
    <2>2. SpawnTypeOK' /\ late' \in [Threads -> BOOLEAN]
        BY <1>1, <1>a, SpawnTypes DEF RunInThread
    <2>3. OwnChild(t)'
        BY <1>1, <1>2, <1>a DEF RunInThread, Goto, Ends, OwnChild, Childless, spawnVars, planVars
    <2>4. ASSUME NEW u \in Threads, u # t PROVE OwnChild(u)'
        BY <1>o, <1>a, <2>4 DEF RunInThread, Goto, Ends, spawnVars, planVars
    <2> QED BY <2>1, <2>2, <2>3, <2>4 DEF Children
<1>b. ASSUME StartChild(t) PROVE Inner(t) /\ Children' /\ SpawnTypeOK' /\ late' \in [Threads -> BOOLEAN]
    <2>1. Inner(t)
        BY <1>1, <1>b DEF StartChild, Goto, Inner
    <2>2. SpawnTypeOK' /\ late' \in [Threads -> BOOLEAN]
        BY <1>1, <1>b, SpawnTypes DEF StartChild
    <2>3. OwnChild(t)'
        BY <1>1, <1>2, <1>b DEF StartChild, Goto, Fork, OwnChild, Childless, planVars, SpawnTypeOK
    <2>4. ASSUME NEW u \in Threads, u # t PROVE OwnChild(u)'
        BY <1>o, <1>b, <2>4 DEF StartChild, Goto, Fork, planVars
    <2> QED BY <2>1, <2>2, <2>3, <2>4 DEF Children
<1>c. ASSUME StartFails(t) PROVE Inner(t) /\ Children' /\ SpawnTypeOK' /\ late' \in [Threads -> BOOLEAN]
    <2>1. Inner(t)
        BY <1>1, <1>c DEF StartFails, Goto, Inner
    <2>2. SpawnTypeOK' /\ late' \in [Threads -> BOOLEAN]
        BY <1>1, <1>c, SpawnTypes DEF StartFails
    <2>3. nslots = 1
        BY <1>c DEF StartFails, SafeForks
    <2>4. OwnChild(t)'
        BY <1>1, <1>2, <1>c, <2>3 DEF StartFails, Goto, Ends, ForkFails, OwnChild, Childless, planVars, SpawnTypeOK
    <2>5. ASSUME NEW u \in Threads, u # t PROVE OwnChild(u)'
        BY <1>o, <1>c, <2>5 DEF StartFails, Goto, Ends, ForkFails, planVars
    <2> QED BY <2>1, <2>2, <2>4, <2>5 DEF Children
<1>d. ASSUME Started(t) PROVE Inner(t) /\ Children' /\ SpawnTypeOK' /\ late' \in [Threads -> BOOLEAN]
    <2>1. PICK r \in BOOLEAN : /\ IsRunning(t, r)
                               /\ Goto(t, IF r THEN "poll" ELSE "destroy")
                               /\ IF r THEN UNCHANGED <<outcome, failed>> ELSE Ends(t, "error")
        BY <1>d DEF Started
    <2>2. pc[t] = "started" /\ pid[t] = "own" /\ started[t] /\ ~finish[t] /\ child[t] \in {"running", "zombie"}
        BY <1>2, <1>d DEF Started, OwnChild
    <2>3. r /\ (Reap(t) \/ UNCHANGED spawnVars)
        BY <1>1, <2>1, <2>2, OwnIsRunning
    <2>4. pc' = [pc EXCEPT ![t] = "poll"] /\ UNCHANGED <<outcome, failed>>
        BY <2>1, <2>3 DEF Goto
    <2>5. Inner(t)
        BY <1>1, <1>d, <2>2, <2>4 DEF Started, Inner
    <2>6. SpawnTypeOK' /\ late' \in [Threads -> BOOLEAN]
        BY <1>1, <1>d, <2>3, SpawnTypes DEF Started
    <2>7. CASE Reap(t)
        <3>1. /\ child' = [child EXCEPT ![t] = "reaped"] /\ status' = [status EXCEPT ![t] = code[t]]
              /\ finish' = [finish EXCEPT ![t] = TRUE] /\ UNCHANGED <<code, term, pid, started>>
            BY <1>1, <2>2, <2>7, OwnReap
        <3>2. OwnChild(t)'
            BY <1>1, <2>2, <2>4, <3>1 DEF OwnChild, Childless, SpawnTypeOK
        <3>3. ASSUME NEW u \in Threads, u # t PROVE OwnChild(u)'
            BY <1>o, <1>d, <2>4, <3>1, <3>3 DEF Started, planVars
        <3> QED BY <2>5, <2>6, <3>2, <3>3 DEF Children
    <2>8. CASE UNCHANGED spawnVars
        <3>1. OwnChild(t)'
            BY <1>1, <2>2, <2>4, <2>8 DEF OwnChild, Childless, spawnVars
        <3>2. ASSUME NEW u \in Threads, u # t PROVE OwnChild(u)'
            BY <1>o, <1>d, <2>4, <2>8, <3>2 DEF Started, planVars, spawnVars
        <3> QED BY <2>5, <2>6, <3>1, <3>2 DEF Children
    <2> QED BY <2>3, <2>7, <2>8
<1>e. ASSUME Poll(t) PROVE Inner(t) /\ Children' /\ SpawnTypeOK' /\ late' \in [Threads -> BOOLEAN]
    <2>1. pc[t] = "poll" /\ pid[t] = "own" /\ started[t]
        BY <1>2, <1>e DEF Poll, OwnChild
    <2>2. PICK l \in {"wait", "elapsed", "poll"} : pc' = [pc EXCEPT ![t] = l]
        BY <1>e DEF Poll, Goto
    <2>3. Inner(t)
        BY <1>1, <1>e, <2>1, <2>2 DEF Poll, Inner
    <2>4. UNCHANGED spawnVars \/ (~finish[t] /\ Reap(t))
        <3>1. CASE finish[t]
            BY <1>e, <3>1 DEF Poll
        <3>2. CASE ~finish[t]
            <4>1. PICK r \in BOOLEAN : IsRunning(t, r)
                BY <1>e, <3>2 DEF Poll
            <4>2. child[t] \in {"running", "zombie"}
                BY <1>2, <2>1, <3>2 DEF OwnChild
            <4> QED BY <1>1, <2>1, <3>2, <4>1, <4>2, OwnIsRunning
        <3> QED BY <3>1, <3>2
    <2>5. SpawnTypeOK' /\ late' \in [Threads -> BOOLEAN]
        BY <1>1, <1>e, <2>4, SpawnTypes DEF Poll
    <2>6. CASE Reap(t)
        <3>1. /\ child' = [child EXCEPT ![t] = "reaped"] /\ status' = [status EXCEPT ![t] = code[t]]
              /\ finish' = [finish EXCEPT ![t] = TRUE] /\ UNCHANGED <<code, term, pid, started>>
            BY <1>1, <2>1, <2>6, OwnReap
        <3>2. OwnChild(t)'
            BY <1>1, <2>1, <2>2, <3>1 DEF OwnChild, Childless, SpawnTypeOK
        <3>3. ASSUME NEW u \in Threads, u # t PROVE OwnChild(u)'
            BY <1>o, <1>e, <2>2, <3>1, <3>3 DEF Poll, planVars
        <3> QED BY <2>3, <2>5, <3>2, <3>3 DEF Children
    <2>7. CASE UNCHANGED spawnVars
        <3>1. OwnChild(t)'
            BY <1>1, <1>2, <2>1, <2>2, <2>7 DEF OwnChild, Childless, spawnVars
        <3>2. ASSUME NEW u \in Threads, u # t PROVE OwnChild(u)'
            BY <1>o, <1>e, <2>2, <2>7, <3>2 DEF Poll, planVars, spawnVars
        <3> QED BY <2>3, <2>5, <3>1, <3>2 DEF Children
    <2> QED BY <2>4, <2>6, <2>7
<1>f. ASSUME Elapsed(t) PROVE Inner(t) /\ Children' /\ SpawnTypeOK' /\ late' \in [Threads -> BOOLEAN]
    <2>1. pc[t] = "elapsed"
        BY <1>f DEF Elapsed
    <2>2. PICK l \in {"wait", "poll"} : pc' = [pc EXCEPT ![t] = l]
        BY <1>f DEF Elapsed, Goto
    <2>3. Inner(t)
        BY <1>1, <1>f, <2>1, <2>2 DEF Elapsed, Inner
    <2>4. SpawnTypeOK' /\ late' \in [Threads -> BOOLEAN]
        BY <1>1, <1>f, SpawnTypes DEF Elapsed
    <2>5. UNCHANGED <<child, code, pid, started, finish, status>>
        BY <1>f DEF Elapsed, Kill, spawnVars
    <2>6. UNCHANGED <<outcome, nslots>>
        BY <1>f DEF Elapsed, planVars
    <2>7. OwnChild(t)'
        BY <1>1, <1>2, <2>1, <2>2, <2>5, <2>6 DEF OwnChild, Childless
    <2>8. ASSUME NEW u \in Threads, u # t PROVE OwnChild(u)'
        BY <1>o, <2>2, <2>5, <2>6, <2>8
    <2> QED BY <2>3, <2>4, <2>7, <2>8 DEF Children
<1>g. ASSUME WaitChild(t) PROVE Inner(t) /\ Children' /\ SpawnTypeOK' /\ late' \in [Threads -> BOOLEAN]
    <2>1. pc[t] = "wait" /\ pid[t] = "own" /\ started[t] /\ pc' = [pc EXCEPT ![t] = "status"]
        BY <1>2, <1>g DEF WaitChild, OwnChild, Goto
    <2>2. Inner(t)
        BY <1>1, <1>g, <2>1 DEF WaitChild, Inner
    <2>3. (finish[t] /\ UNCHANGED spawnVars) \/ Reap(t)
        <3>1. CASE finish[t]
            BY <1>g, <3>1 DEF WaitChild, Wait
        <3>2. CASE ~finish[t]
            <4>1. child[t] \in {"running", "zombie"}
                BY <1>2, <2>1, <3>2 DEF OwnChild
            <4>2. t \in Waited(t)
                BY <4>1 DEF Waited
            <4> QED BY <1>g, <3>2, <4>2 DEF WaitChild, Wait
        <3> QED BY <3>1, <3>2
    <2>4. SpawnTypeOK' /\ late' \in [Threads -> BOOLEAN]
        BY <1>1, <1>g, <2>3, SpawnTypes DEF WaitChild
    <2>5. CASE Reap(t)
        <3>1. /\ child' = [child EXCEPT ![t] = "reaped"] /\ status' = [status EXCEPT ![t] = code[t]]
              /\ finish' = [finish EXCEPT ![t] = TRUE] /\ UNCHANGED <<code, term, pid, started>>
            BY <1>1, <2>1, <2>5, OwnReap
        <3>2. OwnChild(t)'
            BY <1>1, <2>1, <3>1 DEF OwnChild, Childless, SpawnTypeOK
        <3>3. ASSUME NEW u \in Threads, u # t PROVE OwnChild(u)'
            BY <1>o, <1>g, <2>1, <3>1, <3>3 DEF WaitChild, planVars
        <3> QED BY <2>2, <2>4, <3>2, <3>3 DEF Children
    <2>6. CASE finish[t] /\ UNCHANGED spawnVars
        <3>1. OwnChild(t)'
            BY <1>1, <1>2, <2>1, <2>6 DEF OwnChild, Childless, spawnVars
        <3>2. ASSUME NEW u \in Threads, u # t PROVE OwnChild(u)'
            BY <1>o, <1>g, <2>1, <2>6, <3>2 DEF WaitChild, planVars, spawnVars
        <3> QED BY <2>2, <2>4, <3>1, <3>2 DEF Children
    <2> QED BY <2>3, <2>5, <2>6
<1>h. ASSUME Status(t) PROVE Inner(t) /\ Children' /\ SpawnTypeOK' /\ late' \in [Threads -> BOOLEAN]
    <2>1. pc[t] = "status" /\ finish[t] /\ child[t] = "reaped" /\ status[t] = code[t]
        BY <1>2, <1>h DEF Status, OwnChild
    <2>2. /\ \E r \in {"ok", "error", "null"} : Ends(t, r) /\ (r = "null" => blank')
          /\ blank' \in BOOLEAN /\ (blank => blank')
        <3>1. Success(t) => code[t] = "ok"
            BY <2>1 DEF Success
        <3>2. CASE Ends(t, "error") /\ UNCHANGED blank
            BY <1>1, <3>2
        <3>3. CASE Ends(t, "ok") /\ UNCHANGED blank
            BY <1>1, <3>3
        <3>4. CASE Ends(t, "null") /\ blank' = (blank \/ code[t] = "ok") /\ code[t] = "ok"
            <4>1. blank'
                BY <3>4
            <4>2. blank' \in BOOLEAN
                BY <1>1, <3>4
            <4> QED BY <3>4, <4>1, <4>2
        <3> QED BY <1>h, <3>1, <3>2, <3>3, <3>4 DEF Status
    <2>3. pc' = [pc EXCEPT ![t] = "destroy"]
        BY <1>h DEF Status, Goto
    <2>4. Inner(t)
        BY <1>1, <1>h, <2>1, <2>2, <2>3 DEF Status, Inner
    <2>5. SpawnTypeOK' /\ late' \in [Threads -> BOOLEAN]
        BY <1>1, <1>h, SpawnTypes DEF Status
    <2>6. OwnChild(t)'
        BY <1>1, <1>h, <2>1, <2>3 DEF Status, OwnChild, Childless, spawnVars
    <2>7. ASSUME NEW u \in Threads, u # t PROVE OwnChild(u)'
        BY <1>o, <1>h, <2>3, <2>7 DEF Status, spawnVars, planVars
    <2> QED BY <2>4, <2>5, <2>6, <2>7 DEF Children
<1>i. ASSUME Destroy(t) PROVE Inner(t) /\ Children' /\ SpawnTypeOK' /\ late' \in [Threads -> BOOLEAN]
    <2>1. pc[t] = "destroy" /\ (finish[t] \/ Waited(t) = {}) /\ child[t] \in {"reaped", "none"}
        BY <1>2, <1>i, NothingWaited DEF Destroy, OwnChild
    <2>2. Dispose(t) /\ pc' = [pc EXCEPT ![t] = "lock"]
        BY <1>i, <2>1 DEF Destroy, Goto
    <2>3. Inner(t)
        BY <1>1, <1>i, <2>1, <2>2 DEF Destroy, Inner
    <2>4. SpawnTypeOK' /\ late' \in [Threads -> BOOLEAN]
        BY <1>1, <1>i, <2>2, SpawnTypes DEF Destroy
    <2>5. OwnChild(t)'
        BY <1>1, <1>2, <1>i, <2>1, <2>2 DEF Destroy, OwnChild, Childless, Dispose, SpawnTypeOK
    <2>6. ASSUME NEW u \in Threads, u # t PROVE OwnChild(u)'
        BY <1>o, <1>i, <2>2, <2>6 DEF Destroy, Dispose, planVars
    <2> QED BY <2>3, <2>4, <2>5, <2>6 DEF Children
<1> QED BY <1>a, <1>b, <1>c, <1>d, <1>e, <1>f, <1>g, <1>h, <1>i DEF SimulationStep
-----------------------------------------------------------------------------
(* The loop of the threads.                                                *)

LoopStep(t) ==
    \/ Prepare(t) \/ WriteMessage(t) \/ Inner(t) \/ Lock(t) \/ CheckError(t)
    \/ Aggregate(t) \/ ReadNull(t) \/ AggregateThrows(t)

\* The children and the time change nothing else.
Idle == UNCHANGED rest

\* The constants as the proofs use them.
LEMMA Sizes ==
    /\ Total \in Nat \ {0} /\ MaxSlots \in Nat \ {0} /\ NbOutputs \in Nat \ {0}
    /\ Threads = 0..(MaxSlots - 1) /\ 0 \in Threads /\ Sims = 0..(Total - 1)
    /\ N \in Nat \ {0} /\ M \in Nat \ {0}
BY Inputs, PlanAssumption DEF Threads, Sims

\* A step is one of the loop, the end, or one the loop does not see.
LEMMA StepKinds ==
    ASSUME TypeOK, Loops, Children, SafeForks, [Next]_vars
    PROVE  (\E t \in Threads : LoopStep(t)) \/ Join \/ Idle
<1>1. ASSUME NEW t \in Threads, Thread(t) PROVE \E u \in Threads : LoopStep(u)
    <2>1. SimulationStep(t) => Inner(t)
        BY SimulationSteps
    <2> QED BY <1>1, <2>1 DEF Thread, SimulationStep, LoopStep
<1>2. ASSUME NEW t \in Threads, Exits(t) \/ Killed(t) \/ Tick(t) PROVE Idle
    BY <1>2 DEF Exits, Killed, Tick, Idle, rest
<1>3. ASSUME UNCHANGED vars PROVE Idle
    BY <1>3 DEF vars, Idle, rest
<1> QED BY <1>1, <1>2, <1>3 DEF Next, Terminated

\* What the loop keeps, without the children.
CoreType ==
    /\ nslots \in 1..MaxSlots /\ mode \in Modes /\ shape \in Shapes
    /\ pc \in [Threads -> PCs]
    /\ index \in [Threads -> 0..(Total + MaxSlots)]
    /\ outcome \in [Threads -> {"ok", "error", "null"}]
    /\ mutex \in Threads \cup {NoThread}
    /\ out \in Outputs
    /\ mError \in NoError..Total /\ message \in Torn..Total
    /\ begun \subseteq Sims /\ failed \subseteq Sims /\ blank \in BOOLEAN
    /\ returned \in {"no", "results", "error"}

AccuType ==
    /\ replicateAccu \in [Outputs -> [0..(N - 1) -> Seq(Sims)]]
    /\ inputAccu \in [Outputs -> Seq(Seq(Sims))]
    /\ results \in [Outputs -> Seq(Seq(Sims))]

\* The index of a thread at work is a simulation.
LEMMA AtWork ==
    ASSUME CoreType, Loops, NEW t \in Threads, pc[t] \in Working
    PROVE  /\ index[t] \in Sims /\ index[t] \in Nat /\ t < nslots /\ returned = "no"
           /\ ~Unfit /\ index[t] % nslots = t /\ nslots \in Nat \ {0} /\ t \in Nat
<1>1. index[t] \in 0..(Total + MaxSlots) /\ index[t] < Total /\ ~Unfit
    BY DEF CoreType, Loops
<1>2. t \in Nat /\ nslots \in Nat \ {0}
    BY Sizes DEF CoreType
<1>3. pc[t] # "end"
    BY DEF Working
<1>4. t < nslots
    BY <1>2, <1>3 DEF Loops
<1>5. returned = "no"
    BY <1>3 DEF Loops
<1>6. index[t] \in Sims /\ index[t] \in Nat
    BY <1>1, Sizes
<1> QED BY <1>1, <1>2, <1>4, <1>5, <1>6 DEF Loops

\* The type invariant, but for the accumulators.
LEMMA CoreTypeStep ==
    ASSUME CoreType, Loops, (\E t \in Threads : LoopStep(t)) \/ Join \/ Idle
    PROVE  CoreType'
<1> USE DEF CoreType
<1>1. CASE Idle
    BY <1>1 DEF Idle, rest, planVars
<1>2. CASE Join
    BY <1>2 DEF Join, planVars
<1>3. ASSUME NEW t \in Threads, LoopStep(t) PROVE CoreType'
    <2>0. /\ Total \in Nat \ {0} /\ NoError = -1 /\ Torn = -2
          /\ Total \in NoError..Total /\ {Total, Torn} \subseteq Torn..Total
        BY Sizes DEF NoError, Torn
    <2>1. CASE Prepare(t)
        <3>1. index[t] < Total => index[t] \in Sims
            BY Sizes
        <3>2. pc' \in [Threads -> PCs] /\ begun' \subseteq Sims /\ mError' \in NoError..Total
            BY <2>0, <2>1, <3>1 DEF Prepare, Goto, PCs
        <3> QED BY <2>1, <3>2 DEF Prepare, planVars
    <2>2. CASE Inner(t)
        <3>1. index[t] \in Sims
            BY <2>2, AtWork DEF Inner, Working
        <3>2. pc' \in [Threads -> PCs]
            BY <2>2 DEF Inner, PCs
        <3>3. outcome' \in [Threads -> {"ok", "error", "null"}] /\ failed' \subseteq Sims
            BY <2>2, <3>1 DEF Inner, Ends
        <3> QED BY <2>2, <3>2, <3>3 DEF Inner, planVars
    <2>7. CASE WriteMessage(t)
        <3>1. message' \in {Total, Torn}
            BY <2>7 DEF WriteMessage
        <3> QED BY <2>0, <2>7, <3>1 DEF WriteMessage, Goto, PCs, planVars
    <2>8. CASE ReadNull(t)
        BY <2>8 DEF ReadNull, Goto, PCs, planVars
    <2>3. CASE Lock(t)
        BY <2>3 DEF Lock, Goto, PCs, planVars
    <2>4. CASE CheckError(t)
        <3>1. index[t] \in Sims
            BY <2>4, AtWork DEF CheckError, Working
        <3>2. index[t] \in NoError..Total /\ index[t] \in Torn..Total
            BY <2>0, <3>1, Sizes
        <3>3. pc' \in [Threads -> PCs] /\ mError' \in NoError..Total /\ message' \in Torn..Total
              /\ mutex' \in Threads \cup {NoThread}
            BY <2>4, <3>2 DEF CheckError, Goto, PCs
        <3>4. out' \in Outputs
            BY <2>4, Sizes DEF CheckError, Outputs
        <3> QED BY <2>4, <3>3, <3>4 DEF CheckError, planVars
    <2>5. CASE Aggregate(t)
        <3>1. index[t] \in Sims /\ index[t] \in Nat
            BY <2>5, AtWork DEF Aggregate, Working
        <3>2. index[t] + nslots \in 0..(Total + MaxSlots)
            BY <3>1, Sizes
        <3>3. index' \in [Threads -> 0..(Total + MaxSlots)]
            BY <2>5, <3>2 DEF Aggregate
        <3>4. pc' \in [Threads -> PCs] /\ mutex' \in Threads \cup {NoThread}
            BY <2>5 DEF Aggregate, Goto, PCs
        <3>5. out' \in Outputs
            BY <2>5, Sizes DEF Aggregate, Outputs
        <3> QED BY <2>5, <3>3, <3>4, <3>5 DEF Aggregate, planVars
    <2>6. CASE AggregateThrows(t)
        <3>1. index[t] \in Sims
            BY <2>6, AtWork DEF AggregateThrows, Working
        <3>2. index[t] \in NoError..Total /\ index[t] \in Torn..Total
            BY <2>0, <3>1, Sizes
        <3> QED BY <2>6, <3>1, <3>2 DEF AggregateThrows, Goto, PCs, planVars
    <2> QED BY <1>3, <2>1, <2>2, <2>3, <2>4, <2>5, <2>6, <2>7, <2>8 DEF LoopStep
<1> QED BY <1>1, <1>2, <1>3

\* The accumulators keep their types.
LEMMA AccuTypeStep ==
    ASSUME CoreType, AccuType, Loops, (\E t \in Threads : LoopStep(t)) \/ Join \/ Idle
    PROVE  AccuType'
<1>1. ASSUME UNCHANGED aggregateVars PROVE AccuType'
    BY <1>1 DEF AccuType, aggregateVars
<1>2. ASSUME NEW t \in Threads, Aggregate(t), InsertReplicate(index[t]) PROVE AccuType'
    <2> DEFINE i == index[t]
               k == i \div M
               gathered == Append(replicateAccu[out][k], i)
               filled == Len(gathered) = M
               inputs == IF filled THEN Append(inputAccu[out], gathered) ELSE inputAccu[out]
               new == IF filled THEN <<>> ELSE gathered
    <2>1. i \in Sims
        BY <1>2, AtWork DEF Aggregate, Working
    <2>2. k \in 0..(N - 1)
        BY <2>1, Inputs
    <2>3. out \in Outputs
        BY DEF CoreType
    <2>4. /\ replicateAccu' = [replicateAccu EXCEPT ![out][k] = new]
          /\ inputAccu' = [inputAccu EXCEPT ![out] = inputs]
          /\ results' = IF Len(inputs) = N THEN [results EXCEPT ![out] = inputs] ELSE results
        BY <1>2 DEF InsertReplicate
    <2> HIDE DEF i, k
    <2>5. gathered \in Seq(Sims)
        <3>1. replicateAccu[out] \in [0..(N - 1) -> Seq(Sims)]
            BY <2>3 DEF AccuType
        <3>2. replicateAccu[out][k] \in Seq(Sims)
            BY <2>2, <3>1
        <3> QED BY <2>1, <3>2
    <2> HIDE DEF gathered
    <2>6. new \in Seq(Sims)
        BY <2>5
    <2>7. inputs \in Seq(Seq(Sims))
        BY <2>3, <2>5 DEF AccuType
    <2> HIDE DEF new, inputs, filled
    <2>8. replicateAccu' \in [Outputs -> [0..(N - 1) -> Seq(Sims)]]
        BY <2>2, <2>3, <2>4, <2>6 DEF AccuType
    <2>9. inputAccu' \in [Outputs -> Seq(Seq(Sims))]
        BY <2>3, <2>4, <2>7 DEF AccuType
    <2>10. results' \in [Outputs -> Seq(Seq(Sims))]
        BY <2>3, <2>4, <2>7 DEF AccuType
    <2> QED BY <2>8, <2>9, <2>10 DEF AccuType
<1>3. ASSUME NEW t \in Threads, LoopStep(t) PROVE AccuType'
    <2>1. CASE Aggregate(t)
        <3>1. InsertReplicate(index[t]) \/ UNCHANGED aggregateVars
            BY <2>1 DEF Aggregate
        <3> QED BY <1>1, <1>2, <2>1, <3>1
    <2>2. CASE ~Aggregate(t)
        <3>1. UNCHANGED aggregateVars
            BY <1>3, <2>2 DEF LoopStep, Prepare, WriteMessage, ReadNull, Inner, Lock, CheckError, AggregateThrows
        <3> QED BY <1>1, <3>1
    <2> QED BY <2>1, <2>2
<1>4. CASE Join
    BY <1>1, <1>4 DEF Join
<1>5. CASE Idle
    BY <1>1, <1>5 DEF Idle, rest
<1> QED BY <1>3, <1>4, <1>5
\* Where the threads are.
LEMMA LoopsStep ==
    ASSUME CoreType, Loops, Exclusion, (\E t \in Threads : LoopStep(t)) \/ Join \/ Idle
    PROVE  Loops'
<1>0. /\ nslots \in Nat \ {0} /\ Total \in Nat \ {0} /\ NoError = -1
      /\ pc \in [Threads -> PCs] /\ index \in [Threads -> 0..(Total + MaxSlots)]
      /\ Threads \subseteq Nat /\ MaxSlots \in Nat
    BY Sizes DEF CoreType, NoError
<1>1. CASE Idle
    BY <1>1 DEF Idle, rest, planVars, Loops, Unfit
<1>2. CASE Join
    BY <1>2 DEF Join, planVars, Loops, Unfit
<1>3. ASSUME NEW t \in Threads, LoopStep(t) PROVE Loops'
    <2>1. CASE Prepare(t)
        <3>1. t < nslots /\ returned = "no"
            BY <1>0, <2>1 DEF Prepare, Loops
        <3>2. UNCHANGED <<nslots, shape, index, returned>> /\ (mError # NoError => mError' # NoError)
            BY <1>0, <2>1 DEF Prepare, planVars
        <3>3. PICK l \in {"end", "sim", "message"} :
                                          /\ pc' = [pc EXCEPT ![t] = l]
                                          /\ l = "end" => index[t] >= Total \/ mError' # NoError
                                          /\ l = "sim" => index[t] < Total /\ ~Unfit
                                          /\ l = "message" => Unfit /\ mError' = Total
            BY <1>0, <2>1 DEF Prepare, Goto, Unfit
        <3>4. mError' \in {mError, Total}
            BY <2>1 DEF Prepare
        <3> QED BY <1>0, <3>1, <3>2, <3>3, <3>4 DEF Loops, Unfit, Working
    <2>7. CASE WriteMessage(t)
        <3>1. /\ t < nslots /\ returned = "no" /\ mError # NoError
              /\ UNCHANGED <<nslots, shape, index, returned, mError>> /\ pc' = [pc EXCEPT ![t] = "end"]
            BY <1>0, <2>7 DEF WriteMessage, Goto, Loops, planVars
        <3> QED BY <1>0, <3>1 DEF Loops, Unfit, Working
    <2>8. CASE ReadNull(t)
        <3>1. /\ t < nslots /\ returned = "no"
              /\ UNCHANGED <<nslots, shape, index, returned, mError>>
              /\ pc' = [pc EXCEPT ![t] = "undefined"]
            BY <1>0, <2>8 DEF ReadNull, Goto, Loops, planVars
        <3> QED BY <1>0, <3>1 DEF Loops, Unfit, Working
    <2>2. CASE Inner(t)
        <3>1. pc[t] \in Working
            BY <2>2 DEF Inner, Working
        <3>2. t < nslots /\ returned = "no" /\ index[t] < Total /\ ~Unfit
            BY <3>1, AtWork DEF Loops
        <3>3. UNCHANGED <<nslots, shape, index, returned, mError>>
            BY <2>2 DEF Inner, planVars
        <3>4. PICK l \in Working : pc' = [pc EXCEPT ![t] = l]
            BY <2>2 DEF Inner, Working
        <3> QED BY <1>0, <3>1, <3>2, <3>3, <3>4 DEF Loops, Unfit, Working
    <2>3. CASE Lock(t)
        <3>1. pc[t] \in Working
            BY <2>3 DEF Lock, Working
        <3>2. t < nslots /\ returned = "no" /\ index[t] < Total /\ ~Unfit
            BY <3>1, AtWork DEF Loops
        <3>3. UNCHANGED <<nslots, shape, index, returned, mError>> /\ pc' = [pc EXCEPT ![t] = "locked"]
            BY <2>3 DEF Lock, planVars, Goto
        <3> QED BY <1>0, <3>1, <3>2, <3>3 DEF Loops, Unfit, Working
    <2>4. CASE CheckError(t)
        <3>1. pc[t] \in Working
            BY <2>4 DEF CheckError, Working
        <3>2. t < nslots /\ returned = "no" /\ index[t] < Total /\ ~Unfit /\ index[t] \in Nat
            BY <3>1, AtWork DEF Loops
        <3>3. UNCHANGED <<nslots, shape, index, returned>> /\ (mError # NoError => mError' # NoError)
            BY <2>4 DEF CheckError, planVars
        <3>4. PICK l \in {"end", "aggregate"} : /\ pc' = [pc EXCEPT ![t] = l]
                                                /\ l = "end" => mError' # NoError
            BY <1>0, <2>4, <3>2 DEF CheckError, Goto
        <3> QED BY <1>0, <3>1, <3>2, <3>3, <3>4 DEF Loops, Unfit, Working
    <2>5. CASE Aggregate(t)
        <3>1. pc[t] \in Working
            BY <2>5 DEF Aggregate, Working
        <3>2. t < nslots /\ returned = "no" /\ index[t] < Total /\ ~Unfit /\ index[t] \in Nat
              /\ index[t] % nslots = t
            BY <3>1, AtWork DEF Loops
        <3>3. UNCHANGED <<nslots, shape, returned, mError>>
            BY <2>5 DEF Aggregate, planVars
        <3>4. CASE UNCHANGED index
            <4>1. pc' = pc
                <5>1. index[t] + nslots # index[t]
                    BY <1>0, <3>2
                <5> QED BY <1>0, <2>5, <3>4, <5>1 DEF Aggregate, Goto
            <4> QED BY <1>0, <3>2, <3>3, <3>4, <4>1 DEF Loops, Unfit, Working
        <3>5. CASE index' # index
            <4>1. index' = [index EXCEPT ![t] = index[t] + nslots] /\ pc' = [pc EXCEPT ![t] = "loop"]
                BY <2>5, <3>5 DEF Aggregate, Goto
            <4>2. (index[t] + nslots) % nslots = t
                BY <1>0, <3>2, Strides
            <4> QED BY <1>0, <3>2, <3>3, <4>1, <4>2 DEF Loops, Unfit, Working
        <3> QED BY <3>4, <3>5
    <2>6. CASE AggregateThrows(t)
        <3>1. pc[t] \in Working
            BY <2>6 DEF AggregateThrows, Working
        <3>2. t < nslots /\ returned = "no" /\ index[t] < Total /\ ~Unfit /\ index[t] \in Nat
            BY <3>1, AtWork DEF Loops
        <3>3. UNCHANGED <<nslots, shape, index, returned>> /\ mError' # NoError
              /\ pc' = [pc EXCEPT ![t] = "end"]
            BY <1>0, <2>6, <3>2 DEF AggregateThrows, planVars, Goto
        <3> QED BY <1>0, <3>1, <3>2, <3>3 DEF Loops, Unfit, Working
    <2> QED BY <1>3, <2>1, <2>2, <2>3, <2>4, <2>5, <2>6, <2>7, <2>8 DEF LoopStep
<1> QED BY <1>1, <1>2, <1>3

\* The mutex.
LEMMA ExclusionStep ==
    ASSUME CoreType, Loops, Exclusion, Children,
           (\E t \in Threads : LoopStep(t)) \/ Join \/ Idle
    PROVE  Exclusion'
<1>0. /\ pc \in [Threads -> PCs] /\ outcome \in [Threads -> {"ok", "error", "null"}]
      /\ NoThread \notin Threads
    BY Sizes DEF CoreType, NoThread
<1>1. CASE Idle
    BY <1>1 DEF Idle, rest, planVars, Exclusion
<1>2. CASE Join
    BY <1>2 DEF Join, Exclusion
<1>3. ASSUME NEW t \in Threads, LoopStep(t) PROVE Exclusion'
    <2>1. CASE Prepare(t)
        <3>1. UNCHANGED <<mutex, outcome>>
              /\ \E l \in {"end", "sim", "message"} : pc' = [pc EXCEPT ![t] = l]
            BY <2>1 DEF Prepare, Goto
        <3>2. ASSUME mError' # mError PROVE \A u \in Threads : pc[u] # "aggregate"
            <4>1. Unfit
                BY <2>1, <3>2 DEF Prepare, Unfit
            <4> QED BY <4>1 DEF Loops, Working
        <3>3. pc[t] = "loop"
            BY <2>1 DEF Prepare
        <3> QED BY <1>0, <3>1, <3>2, <3>3 DEF Exclusion
    <2>2. CASE Inner(t)
        <3>1. UNCHANGED <<mutex, mError>> /\ pc[t] \notin {"locked", "aggregate", "undefined"}
            BY <2>2 DEF Inner
        <3>2. PICK l \in PCs \ {"locked", "aggregate", "undefined"} : pc' = [pc EXCEPT ![t] = l]
            BY <2>2 DEF Inner, PCs
        <3>3. \A u \in Threads : u # t => outcome'[u] = outcome[u]
            BY <1>0, <2>2 DEF Inner, Ends
        <3> QED BY <1>0, <3>1, <3>2, <3>3 DEF Exclusion
    <2>7. CASE WriteMessage(t)
        <3>1. pc[t] = "message" /\ UNCHANGED <<mutex, outcome, mError>> /\ pc' = [pc EXCEPT ![t] = "end"]
            BY <2>7 DEF WriteMessage, Goto
        <3> QED BY <1>0, <3>1 DEF Exclusion
    <2>8. CASE ReadNull(t)
        <3>1. pc[t] = "aggregate" /\ UNCHANGED <<mutex, outcome, mError>> /\ pc' = [pc EXCEPT ![t] = "undefined"]
            BY <2>8 DEF ReadNull, Goto
        <3> QED BY <1>0, <3>1 DEF Exclusion
    <2>3. CASE Lock(t)
        BY <1>0, <2>3 DEF Lock, Goto, Exclusion
    <2>4. CASE CheckError(t)
        <3>1. mutex = t
            BY <2>4 DEF CheckError, Exclusion
        <3> QED BY <1>0, <2>4, <3>1 DEF CheckError, Goto, Exclusion
    <2>5. CASE Aggregate(t)
        <3>1. mutex = t /\ mError = NoError /\ outcome[t] # "error"
            BY <2>5 DEF Aggregate, Exclusion
        <3> QED BY <1>0, <2>5, <3>1 DEF Aggregate, Goto, Exclusion
    <2>6. CASE AggregateThrows(t)
        <3>1. mutex = t
            BY <2>6 DEF AggregateThrows, Exclusion
        <3> QED BY <1>0, <2>6, <3>1 DEF AggregateThrows, Goto, Exclusion
    <2> QED BY <1>3, <2>1, <2>2, <2>3, <2>4, <2>5, <2>6, <2>7, <2>8 DEF LoopStep
<1> QED BY <1>1, <1>2, <1>3
\* The children, and the objects that wait for them.
LEMMA ChildrenStep ==
    ASSUME TypeOK, Loops, Children, SafeForks, [Next]_vars
    PROVE  Children' /\ SpawnTypeOK' /\ late' \in [Threads -> BOOLEAN]
<1> USE DEF Threads
<1>0. /\ SpawnTypeOK /\ pc \in [Threads -> PCs] /\ late \in [Threads -> BOOLEAN]
    BY DEF TypeOK
<1>1. ASSUME UNCHANGED spawnVars PROVE SpawnTypeOK'
    BY <1>0, <1>1 DEF SpawnTypeOK, spawnVars
<1>2. ASSUME UNCHANGED <<spawnVars, pc, nslots>> PROVE Children'
    <2>1. ASSUME NEW u \in Threads PROVE OwnChild(u)'
        BY <1>2, OthersKeep DEF spawnVars, Children
    <2> QED BY <2>1 DEF Children
<1>3. ASSUME NEW t \in Threads, pc[t] \in Childless, NEW l \in Childless,
             pc' = [pc EXCEPT ![t] = l], UNCHANGED <<spawnVars, nslots>>
      PROVE  Children'
    <2>1. OwnChild(t) /\ \A u \in Threads : OwnChild(u)
        BY DEF Children
    <2>2. OwnChild(t)'
        BY <1>0, <1>3, <2>1 DEF OwnChild, Childless, spawnVars
    <2>3. ASSUME NEW u \in Threads, u # t PROVE OwnChild(u)'
        <3>1. pc'[u] = pc[u]
            BY <1>0, <1>3, <2>3
        <3> QED BY <1>3, <2>1, <3>1, OthersKeep DEF spawnVars
    <2> QED BY <2>2, <2>3 DEF Children
<1>4. ASSUME NEW t \in Threads, Exits(t) \/ Killed(t)
      PROVE  Children' /\ SpawnTypeOK' /\ late' \in [Threads -> BOOLEAN]
    <2>1. SpawnTypeOK' /\ late' \in [Threads -> BOOLEAN]
        BY <1>0, <1>4, SpawnTypes DEF Exits, Killed
    <2>2. /\ child[t] = "running" /\ child' = [child EXCEPT ![t] = "zombie"]
          /\ \E c : code' = [code EXCEPT ![t] = c]
          /\ UNCHANGED <<pid, started, finish, status, pc, nslots>>
        BY <1>4 DEF Exits, Killed, ChildExits, ChildKilled, rest, planVars
    <2>3. OwnChild(t)'
        BY <1>0, <2>2 DEF Children, OwnChild, Childless, SpawnTypeOK
    <2>4. ASSUME NEW u \in Threads, u # t PROVE OwnChild(u)'
        <3>1. child'[u] = child[u] /\ code'[u] = code[u]
            BY <1>0, <2>2, <2>4 DEF SpawnTypeOK
        <3> QED BY <2>2, <3>1, OthersKeep DEF Children
    <2> QED BY <2>1, <2>3, <2>4 DEF Children
<1>5. ASSUME NEW t \in Threads, Thread(t)
      PROVE  Children' /\ SpawnTypeOK' /\ late' \in [Threads -> BOOLEAN]
    <2>1. CASE SimulationStep(t)
        BY <2>1, SimulationSteps
    <2>2. CASE Prepare(t)
        <3>1. pc[t] \in Childless /\ UNCHANGED <<spawnVars, nslots, late>>
            BY <2>2 DEF Prepare, Childless, planVars
        <3>2. PICK l \in {"end", "sim", "message"} : pc' = [pc EXCEPT ![t] = l]
            BY <2>2 DEF Prepare, Goto
        <3>3. Children'
            BY <1>3, <3>1, <3>2 DEF Childless
        <3> QED BY <1>0, <1>1, <3>1, <3>3
    <2>7. CASE WriteMessage(t) \/ ReadNull(t)
        <3>1. pc[t] \in Childless /\ UNCHANGED <<spawnVars, nslots, late>>
            BY <2>7 DEF WriteMessage, ReadNull, Childless, planVars
        <3>2. PICK l \in {"end", "undefined"} : pc' = [pc EXCEPT ![t] = l]
            BY <2>7 DEF WriteMessage, ReadNull, Goto
        <3>3. Children'
            BY <1>3, <3>1, <3>2 DEF Childless
        <3> QED BY <1>0, <1>1, <3>1, <3>3
    <2>3. CASE Lock(t)
        <3>1. pc[t] = "lock" /\ UNCHANGED <<spawnVars, nslots, late>>
              /\ pc' = [pc EXCEPT ![t] = "locked"]
            BY <2>3 DEF Lock, planVars, Goto
        <3>2. Children'
            BY <1>3, <3>1 DEF Childless
        <3> QED BY <1>0, <1>1, <3>1, <3>2
    <2>4. CASE CheckError(t)
        <3>1. pc[t] = "locked" /\ UNCHANGED <<spawnVars, nslots, late>>
            BY <2>4 DEF CheckError, planVars
        <3>2. PICK l \in {"end", "aggregate"} : pc' = [pc EXCEPT ![t] = l]
            BY <2>4 DEF CheckError, Goto
        <3>3. Children'
            BY <1>3, <3>1, <3>2 DEF Childless
        <3> QED BY <1>0, <1>1, <3>1, <3>3
    <2>5. CASE Aggregate(t)
        <3>1. pc[t] = "aggregate" /\ UNCHANGED <<spawnVars, nslots, late>>
            BY <2>5 DEF Aggregate, planVars
        <3>3. UNCHANGED pc \/ pc' = [pc EXCEPT ![t] = "loop"]
            BY <2>5 DEF Aggregate, Goto
        <3>4. Children'
            BY <1>2, <1>3, <3>1, <3>3 DEF Childless
        <3> QED BY <1>0, <1>1, <3>1, <3>4
    <2>6. CASE AggregateThrows(t)
        <3>1. pc[t] = "aggregate" /\ UNCHANGED <<spawnVars, nslots, late>>
              /\ pc' = [pc EXCEPT ![t] = "end"]
            BY <2>6 DEF AggregateThrows, planVars, Goto
        <3>2. Children'
            BY <1>3, <3>1 DEF Childless
        <3> QED BY <1>0, <1>1, <3>1, <3>2
    <2> QED BY <1>5, <2>1, <2>2, <2>3, <2>4, <2>5, <2>6, <2>7 DEF Thread, SimulationStep
<1>6. ASSUME NEW t \in Threads, Tick(t)
      PROVE  Children' /\ SpawnTypeOK' /\ late' \in [Threads -> BOOLEAN]
    <2>1. UNCHANGED <<spawnVars, pc, nslots>> /\ late' \in [Threads -> BOOLEAN]
        BY <1>0, <1>6 DEF Tick, rest, planVars
    <2> QED BY <1>1, <1>2, <2>1
<1>7. ASSUME Join \/ UNCHANGED vars
      PROVE  Children' /\ SpawnTypeOK' /\ late' \in [Threads -> BOOLEAN]
    <2>1. UNCHANGED <<spawnVars, pc, nslots, late>>
        BY <1>7 DEF Join, vars, planVars
    <2> QED BY <1>0, <1>1, <1>2, <2>1
<1> QED BY <1>4, <1>5, <1>6, <1>7 DEF Next, Terminated

\* Every simulation belongs to one thread.
LEMMA OwnThread ==
    ASSUME CoreType, NEW i \in Sims
    PROVE  i % nslots \in Threads /\ i % nslots < nslots /\ i \in Nat
<1>1. i \in Nat /\ nslots \in Nat \ {0} /\ nslots <= MaxSlots
    BY Sizes DEF CoreType
<1>2. i % nslots \in 0..(nslots - 1)
    BY <1>1, Division
<1> QED BY <1>1, <1>2, Sizes

\* A thread goes on to its next simulation when one is aggregated.
LEMMA WrittenStep ==
    ASSUME CoreType, Loops, NEW t \in Threads, pc[t] \in Working
    PROVE  /\ index[t] \notin Written
           /\ (index' = [index EXCEPT ![t] = index[t] + nslots] /\ nslots' = nslots)
                  => Written' = Written \cup {index[t]}
<1>1. /\ index[t] \in Sims /\ index[t] \in Nat /\ index[t] % nslots = t /\ nslots \in Nat \ {0}
    BY AtWork
<1>2. index[t] \notin Written
    BY <1>1 DEF Written
<1>3. ASSUME index' = [index EXCEPT ![t] = index[t] + nslots], nslots' = nslots
      PROVE  Written' = Written \cup {index[t]}
    <2>0. index \in [Threads -> 0..(Total + MaxSlots)]
        BY DEF CoreType
    <2>1. ASSUME NEW i \in Sims, i % nslots # t
          PROVE  i \in Written' <=> i \in Written \cup {index[t]}
        <3>1. index'[i % nslots] = index[i % nslots]
            BY <1>3, <2>0, <2>1, OwnThread
        <3>2. i # index[t]
            BY <1>1, <2>1
        <3> QED BY <1>3, <3>1, <3>2 DEF Written
    <2>2. ASSUME NEW i \in Sims, i % nslots = t
          PROVE  i \in Written' <=> i \in Written \cup {index[t]}
        <3>1. index'[t] = index[t] + nslots /\ i \in Nat
            BY <1>3, <2>0, OwnThread
        <3>2. (index[t] <= i /\ i < index[t] + nslots) => i = index[t]
            BY <1>1, <2>2, <3>1, Strides
        <3>3. i < index[t] + nslots <=> i < index[t] \/ i = index[t]
            BY <1>1, <3>1, <3>2
        <3> QED BY <1>3, <2>2, <3>1, <3>3 DEF Written
    <2>3. Written' \subseteq Sims /\ Written \cup {index[t]} \subseteq Sims
        BY <1>1 DEF Written
    <2> QED BY <2>1, <2>2, <2>3
<1> QED BY <1>2, <1>3
\* What is begun and what is aggregated.
LEMMA BeginsStep ==
    ASSUME CoreType, Loops, Begins, Children,
           (\E t \in Threads : LoopStep(t)) \/ Join \/ Idle
    PROVE  Begins'
<1>0. /\ nslots \in Nat \ {0} /\ begun \subseteq Sims
      /\ pc \in [Threads -> PCs] /\ index \in [Threads -> 0..(Total + MaxSlots)]
      /\ \A i \in Sims : i % nslots \in Threads
    <2>1. \A i \in Sims : i % nslots \in Threads
        BY OwnThread
    <2> QED BY <2>1, Sizes DEF CoreType
<1>1. ASSUME UNCHANGED <<index, nslots>> PROVE Written' = Written
    BY <1>1 DEF Written
<1>2. ASSUME UNCHANGED <<index, nslots, begun, pc>> PROVE Begins'
    BY <1>1, <1>2 DEF Begins
<1>3. ASSUME NEW t \in Threads, pc[t] \in Working, NEW l, l # "loop",
             pc' = [pc EXCEPT ![t] = l], UNCHANGED <<index, nslots, begun>>
      PROVE  Begins'
    <2>1. Written' \subseteq begun'
        BY <1>1, <1>3 DEF Begins
    <2>2. ASSUME NEW u \in Threads, pc'[u] \in Working PROVE index'[u] \in begun'
        <3>1. pc[u] \in Working
            BY <1>0, <1>3, <2>2
        <3> QED BY <1>3, <3>1 DEF Begins
    <2>3. ASSUME NEW i \in begun'
          PROVE  i < index'[i % nslots'] \/ (i = index'[i % nslots'] /\ pc'[i % nslots'] # "loop")
        <3>1. i < index[i % nslots] \/ (i = index[i % nslots] /\ pc[i % nslots] # "loop")
            BY <1>3, <2>3 DEF Begins
        <3>2. i % nslots \in Threads
            BY <1>0, <1>3, <2>3
        <3>3. pc[i % nslots] # "loop" => pc'[i % nslots] # "loop"
            BY <1>0, <1>3, <3>2
        <3> QED BY <1>3, <3>1, <3>3
    <2> QED BY <2>1, <2>2, <2>3 DEF Begins
<1>4. CASE Idle
    BY <1>2, <1>4 DEF Idle, rest, planVars
<1>5. CASE Join
    BY <1>2, <1>5 DEF Join, planVars
<1>6. ASSUME NEW t \in Threads, LoopStep(t) PROVE Begins'
    <2>1. CASE Prepare(t)
        <3>1. pc[t] = "loop" /\ UNCHANGED <<index, nslots>>
            BY <2>1 DEF Prepare, planVars
        <3>2. t < nslots /\ index[t] % nslots = t
            BY <1>0, <3>1, Sizes DEF Loops
        <3>3. \/ (\E l \in {"end", "message"} : pc' = [pc EXCEPT ![t] = l]) /\ begun' = begun
              \/ pc' = [pc EXCEPT ![t] = "sim"] /\ begun' = begun \cup {index[t]} /\ index[t] < Total
            BY <2>1 DEF Prepare, Goto
        <3>4. Written' \subseteq begun'
            BY <1>1, <3>1, <3>3 DEF Begins
        <3>5. ASSUME NEW u \in Threads, pc'[u] \in Working PROVE index'[u] \in begun'
            <4>1. CASE u = t
                BY <1>0, <3>1, <3>3, <3>5, <4>1 DEF Working
            <4>2. CASE u # t
                <5>1. pc[u] \in Working
                    BY <1>0, <3>3, <3>5, <4>2
                <5> QED BY <3>1, <3>3, <5>1 DEF Begins
            <4> QED BY <4>1, <4>2
        <3>6. ASSUME NEW i \in begun'
              PROVE  i < index'[i % nslots'] \/ (i = index'[i % nslots'] /\ pc'[i % nslots'] # "loop")
            <4>1. CASE i \in begun
                <5>1. i < index[i % nslots] \/ (i = index[i % nslots] /\ pc[i % nslots] # "loop")
                    BY <4>1 DEF Begins
                <5>2. i % nslots \in Threads
                    BY <1>0, <4>1
                <5>3. pc[i % nslots] # "loop" => pc'[i % nslots] # "loop"
                    BY <1>0, <3>3, <5>2
                <5> QED BY <3>1, <5>1, <5>3
            <4>2. CASE i \notin begun
                <5>1. i = index[t] /\ pc'[t] = "sim"
                    BY <1>0, <3>3, <3>6, <4>2
                <5> QED BY <3>1, <3>2, <5>1
            <4> QED BY <4>1, <4>2
        <3> QED BY <3>4, <3>5, <3>6 DEF Begins
    <2>2. CASE Inner(t)
        BY <1>3, <2>2 DEF Inner, Working, planVars
    <2>7. CASE WriteMessage(t)
        <3>1. pc[t] = "message" /\ UNCHANGED <<index, nslots, begun>> /\ pc' = [pc EXCEPT ![t] = "end"]
            BY <2>7 DEF WriteMessage, Goto, planVars
        <3>2. Written' \subseteq begun'
            BY <1>1, <3>1 DEF Begins
        <3>3. ASSUME NEW u \in Threads, pc'[u] \in Working PROVE index'[u] \in begun'
            <4>1. pc[u] \in Working
                BY <1>0, <3>1, <3>3 DEF Working
            <4> QED BY <3>1, <4>1 DEF Begins
        <3>4. ASSUME NEW i \in begun'
              PROVE  i < index'[i % nslots'] \/ (i = index'[i % nslots'] /\ pc'[i % nslots'] # "loop")
            <4>1. i < index[i % nslots] \/ (i = index[i % nslots] /\ pc[i % nslots] # "loop")
                BY <3>1, <3>4 DEF Begins
            <4>2. i % nslots \in Threads
                BY <1>0, <3>1, <3>4
            <4> QED BY <1>0, <3>1, <4>1, <4>2
        <3> QED BY <3>2, <3>3, <3>4 DEF Begins
    <2>8. CASE ReadNull(t)
        BY <1>3, <2>8 DEF ReadNull, Goto, Working, planVars
    <2>3. CASE Lock(t)
        BY <1>3, <2>3 DEF Lock, Goto, Working, planVars
    <2>4. CASE CheckError(t)
        <3>1. \E l \in {"end", "aggregate"} : pc' = [pc EXCEPT ![t] = l]
            BY <2>4 DEF CheckError, Goto
        <3> QED BY <1>3, <2>4, <3>1 DEF CheckError, Working, planVars
    <2>5. CASE Aggregate(t)
        <3>1. pc[t] = "aggregate" /\ UNCHANGED <<nslots, begun>>
            BY <2>5 DEF Aggregate, planVars
        <3>2. CASE UNCHANGED <<pc, index>>
            BY <1>2, <3>1, <3>2
        <3>3. CASE index' = [index EXCEPT ![t] = @ + nslots] /\ pc' = [pc EXCEPT ![t] = "loop"]
            <4>0. index[t] \in Nat /\ index[t] \in begun /\ index[t] % nslots = t
                BY <3>1, AtWork DEF Working, Begins
            <4>1. Written' = Written \cup {index[t]}
                BY <3>1, <3>3, WrittenStep DEF Working
            <4>2. Written' \subseteq begun'
                BY <3>1, <4>0, <4>1 DEF Begins
            <4>3. ASSUME NEW u \in Threads, pc'[u] \in Working PROVE index'[u] \in begun'
                <5>1. u # t /\ pc[u] \in Working
                    BY <1>0, <3>3, <4>3 DEF Working
                <5> QED BY <1>0, <3>1, <3>3, <5>1 DEF Begins
            <4>4. ASSUME NEW i \in begun'
                  PROVE  i < index'[i % nslots'] \/ (i = index'[i % nslots'] /\ pc'[i % nslots'] # "loop")
                <5>1. i < index[i % nslots] \/ (i = index[i % nslots] /\ pc[i % nslots] # "loop")
                    BY <3>1, <4>4 DEF Begins
                <5>2. i % nslots \in Threads /\ i \in Nat
                    BY <1>0, <3>1, <4>4, Sizes
                <5>3. CASE i % nslots = t
                    <6>1. index'[t] = index[t] + nslots
                        BY <1>0, <3>3
                    <6>2. i < index[t] + nslots
                        BY <1>0, <4>0, <5>1, <5>2, <5>3
                    <6> QED BY <3>1, <5>3, <6>1, <6>2
                <5>4. CASE i % nslots # t
                    <6>1. index'[i % nslots] = index[i % nslots] /\ pc'[i % nslots] = pc[i % nslots]
                        BY <1>0, <3>3, <5>2, <5>4
                    <6> QED BY <3>1, <5>1, <6>1
                <5> QED BY <5>3, <5>4
            <4> QED BY <4>2, <4>3, <4>4 DEF Begins
        <3> QED BY <2>5, <3>1, <3>2, <3>3 DEF Aggregate, Goto
    <2>6. CASE AggregateThrows(t)
        BY <1>3, <2>6 DEF AggregateThrows, Goto, Working, planVars
    <2> QED BY <1>6, <2>1, <2>2, <2>3, <2>4, <2>5, <2>6, <2>7, <2>8 DEF LoopStep
<1> QED BY <1>4, <1>5, <1>6

\* Errors.
LEMMA ErrorsStep ==
    ASSUME CoreType, Loops, Exclusion, Children, Errors,
           (\E t \in Threads : LoopStep(t)) \/ Join \/ Idle
    PROVE  Errors'
<1> USE DEF Carries
<1>0. /\ pc \in [Threads -> PCs] /\ outcome \in [Threads -> {"ok", "error", "null"}]
      /\ index \in [Threads -> 0..(Total + MaxSlots)] /\ 0 \in Threads
      /\ NoError = -1 /\ Total \in Nat \ {0} /\ Total # NoError
    BY Sizes DEF CoreType, NoError
<1>1. CASE Idle
    BY <1>1 DEF Idle, rest, planVars, Errors, Unfit
<1>2. CASE Join
    <2>1. ~ \E t \in Threads : Carries(t)
        BY <1>2 DEF Join
    <2> QED BY <1>2, <2>1 DEF Join, planVars, Errors, Unfit
<1>3. ASSUME NEW t \in Threads, LoopStep(t) PROVE Errors'
    <2>0. returned = "no" /\ UNCHANGED <<returned, nslots, shape>>
        BY <1>3 DEF LoopStep, Loops, Prepare, WriteMessage, ReadNull, Inner, Lock, CheckError, Aggregate, AggregateThrows, planVars
    <2>1. CASE Prepare(t)
        <3>1. pc[t] = "loop" /\ UNCHANGED <<index, failed, outcome>>
            BY <2>1 DEF Prepare
        <3>2. mError' = mError \/ (mError' = Total /\ Unfit)
            BY <2>1 DEF Prepare, Unfit
        <3>3. PICK l \in {"end", "sim", "message"} : pc' = [pc EXCEPT ![t] = l]
            BY <2>1 DEF Prepare, Goto
        <3>4. ASSUME NEW u \in Threads, Carries(u) PROVE Carries(u)'
            BY <1>0, <3>1, <3>3, <3>4
        <3>5. ASSUME Unfit, pc'[0] = "end" PROVE mError' # NoError
            <4>1. CASE t = 0
                <5>1. index[0] = 0 /\ ~(index[0] >= Total)
                    BY <1>0, <3>5 DEF Errors
                <5> QED BY <1>0, <2>1, <3>5, <4>1, <5>1 DEF Prepare, Goto, Unfit
            <4>2. CASE t # 0
                <5>1. pc[0] = "end"
                    BY <1>0, <3>3, <3>5, <4>2
                <5> QED BY <1>0, <3>2, <3>5, <5>1 DEF Errors
            <4> QED BY <4>1, <4>2
        <3>6. failed' # {} => mError' # NoError \/ \E u \in Threads : Carries(u)'
            BY <1>0, <3>1, <3>2, <3>4 DEF Errors
        <3>7. ASSUME NEW u \in Threads, Carries(u)' PROVE failed' # {}
            BY <1>0, <3>1, <3>3, <3>7 DEF Errors
        <3> QED BY <1>0, <2>0, <3>1, <3>2, <3>5, <3>6, <3>7 DEF Errors, Unfit
    <2>2. CASE Inner(t)
        <3>1. UNCHANGED <<mError, index>> /\ ~Unfit
            BY <2>2, AtWork DEF Inner, Working
        <3>2. PICK l \in {"started", "poll", "elapsed", "wait", "status", "destroy", "lock"} :
                 /\ pc' = [pc EXCEPT ![t] = l]
                 /\ \/ UNCHANGED <<outcome, failed>> /\ (l \in {"destroy", "lock"} => pc[t] = "destroy")
                    \/ /\ \E r \in {"ok", "error", "null"} : Ends(t, r)
                       /\ l \in {"destroy", "lock"} /\ pc[t] # "destroy"
                 /\ pc[t] = "destroy" => l \in {"destroy", "lock"}
            BY <2>2 DEF Inner
        <3>3. ASSUME NEW u \in Threads, Carries(u) PROVE Carries(u)'
            <4>1. CASE u = t
                <5>1. pc[t] = "destroy"
                    BY <2>2, <3>3, <4>1 DEF Inner
                <5> QED BY <1>0, <3>2, <3>3, <4>1, <5>1
            <4>2. CASE u # t
                BY <1>0, <3>2, <3>3, <4>2 DEF Ends
            <4> QED BY <4>1, <4>2
        <3>4. failed' = failed \/ Carries(t)'
            BY <1>0, <3>2 DEF Ends
        <3>5. failed \subseteq failed'
            BY <3>2 DEF Ends
        <3>6. failed' # {} => mError' # NoError \/ \E u \in Threads : Carries(u)'
            BY <3>1, <3>3, <3>4 DEF Errors
        <3>7. ASSUME NEW u \in Threads, Carries(u)' PROVE failed' # {}
            <4>1. CASE u = t
                <5>1. Carries(t) \/ Ends(t, "error")
                    BY <1>0, <3>2, <3>7, <4>1 DEF Ends
                <5> QED BY <3>5, <5>1 DEF Errors, Ends
            <4>2. CASE u # t
                <5>1. Carries(u)
                    BY <1>0, <3>2, <3>7, <4>2 DEF Ends
                <5> QED BY <3>5, <5>1 DEF Errors
            <4> QED BY <4>1, <4>2
        <3> QED BY <2>0, <3>1, <3>5, <3>6, <3>7 DEF Errors, Unfit
    <2>7. CASE WriteMessage(t) \/ ReadNull(t)
        <3>1. /\ pc[t] \in {"message", "aggregate"} /\ UNCHANGED <<mError, index, failed, outcome>>
              /\ \E l \in {"end", "undefined"} : pc' = [pc EXCEPT ![t] = l]
            BY <2>7 DEF WriteMessage, ReadNull, Goto
        <3>2. ASSUME NEW u \in Threads PROVE Carries(u)' <=> Carries(u)
            BY <1>0, <3>1
        <3>3. pc[t] = "aggregate" => ~Unfit
            BY DEF Loops, Working
        <3>4. ASSUME Unfit, pc'[0] = "end" PROVE mError # NoError
            <4>1. CASE t = 0
                BY <1>0, <3>1, <3>3, <3>4, <4>1 DEF Loops
            <4>2. CASE t # 0
                <5>1. pc[0] = "end"
                    BY <1>0, <3>1, <3>4, <4>2
                <5> QED BY <3>4, <5>1 DEF Errors
            <4> QED BY <4>1, <4>2
        <3> QED BY <2>0, <3>1, <3>2, <3>4 DEF Errors, Unfit
    <2>3. CASE Lock(t)
        <3>1. UNCHANGED <<mError, index, failed, outcome>> /\ ~Unfit /\ pc[t] = "lock"
              /\ pc' = [pc EXCEPT ![t] = "locked"]
            BY <2>3, AtWork DEF Lock, Working, Goto
        <3>2. ASSUME NEW u \in Threads, Carries(u) PROVE Carries(u)'
            BY <1>0, <3>1, <3>2
        <3>3. ASSUME NEW u \in Threads, Carries(u)' PROVE failed' # {}
            BY <1>0, <3>1, <3>3 DEF Errors
        <3> QED BY <2>0, <3>1, <3>2, <3>3 DEF Errors, Unfit
    <2>4. CASE CheckError(t)
        <3>1. UNCHANGED <<index, failed, outcome>> /\ ~Unfit /\ pc[t] = "locked" /\ index[t] \in Nat
            BY <2>4, AtWork DEF CheckError, Working
        <3>2. CASE mError # NoError \/ outcome[t] = "error"
            <4>1. mError' # NoError
                BY <1>0, <2>4, <3>1, <3>2 DEF CheckError
            <4>2. failed # {}
                BY <3>1, <3>2 DEF Errors, Carries
            <4> QED BY <2>0, <3>1, <4>1, <4>2 DEF Errors, Unfit
        <3>3. CASE mError = NoError /\ outcome[t] # "error"
            <4>1. mError' = mError /\ pc' = [pc EXCEPT ![t] = "aggregate"]
                BY <2>4, <3>3 DEF CheckError, Goto
            <4>2. ASSUME NEW u \in Threads, Carries(u) PROVE Carries(u)'
                BY <1>0, <3>1, <3>3, <4>1, <4>2
            <4>3. ASSUME NEW u \in Threads, Carries(u)' PROVE failed' # {}
                BY <1>0, <3>1, <4>1, <4>3 DEF Errors
            <4> QED BY <2>0, <3>1, <4>1, <4>2, <4>3 DEF Errors, Unfit
        <3> QED BY <3>2, <3>3
    <2>5. CASE Aggregate(t)
        <3>1. UNCHANGED <<mError, failed, outcome>> /\ ~Unfit /\ pc[t] = "aggregate"
            BY <2>5, AtWork DEF Aggregate, Working
        <3>2. pc' = pc \/ \E l : pc' = [pc EXCEPT ![t] = l]
            BY <2>5 DEF Aggregate, Goto
        <3>3. ASSUME NEW u \in Threads, Carries(u) PROVE Carries(u)'
            BY <1>0, <3>1, <3>2, <3>3
        <3>4. ASSUME NEW u \in Threads, Carries(u)' PROVE failed' # {}
            <4>1. CASE u = t
                <5>1. pc' = pc \/ pc' = [pc EXCEPT ![t] = "loop"]
                    BY <2>5 DEF Aggregate, Goto
                <5> QED BY <1>0, <3>1, <3>4, <4>1, <5>1
            <4>2. CASE u # t
                <5>1. Carries(u)
                    BY <1>0, <3>1, <3>2, <3>4, <4>2
                <5> QED BY <3>1, <5>1 DEF Errors
            <4> QED BY <4>1, <4>2
        <3> QED BY <2>0, <3>1, <3>3, <3>4 DEF Errors, Unfit
    <2>6. CASE AggregateThrows(t)
        <3>1. ~Unfit /\ index[t] \in Nat
            BY <2>6, AtWork DEF AggregateThrows, Working
        <3>2. mError' # NoError /\ failed' # {}
            BY <1>0, <2>6, <3>1 DEF AggregateThrows
        <3> QED BY <2>0, <3>1, <3>2 DEF Errors, Unfit
    <2> QED BY <1>3, <2>1, <2>2, <2>3, <2>4, <2>5, <2>6, <2>7 DEF LoopStep
<1> QED BY <1>1, <1>2, <1>3

\* The text of the error.
LEMMA TextsStep ==
    ASSUME CoreType, Loops, Texts, (\E t \in Threads : LoopStep(t)) \/ Join \/ Idle
    PROVE  Texts'
<1>0. pc \in [Threads -> PCs] /\ NoError = -1 /\ Torn = -2 /\ Total \in Nat
    BY Sizes DEF CoreType, NoError, Torn
<1>1. CASE Join \/ Idle
    BY <1>1 DEF Join, Idle, rest, planVars, Texts, Unfit
<1>2. ASSUME NEW t \in Threads, LoopStep(t) PROVE Texts'
    <2>0. UNCHANGED <<nslots, shape>>
        BY <1>2 DEF LoopStep, Prepare, WriteMessage, ReadNull, Inner, Lock, CheckError, Aggregate,
           AggregateThrows, planVars
    <2>1. CASE Prepare(t)
        <3>1. pc[t] = "loop" /\ message' = message
            BY <2>1 DEF Prepare
        <3>2. PICK l : pc' = [pc EXCEPT ![t] = l] /\ (l = "message" \/ mError' = mError)
            BY <2>1 DEF Prepare, Goto
        <3>3. CASE l = "message"
            <4>1. pc'[t] = "message"
                BY <1>0, <3>2, <3>3
            <4> QED BY <2>0, <3>1, <4>1 DEF Texts, Unfit
        <3>4. CASE mError' = mError
            <4>1. \A u \in Threads : pc[u] = "message" => pc'[u] = "message"
                BY <1>0, <3>1, <3>2
            <4> QED BY <2>0, <3>1, <3>4, <4>1 DEF Texts, Unfit
        <3> QED BY <3>2, <3>3, <3>4
    <2>2. CASE WriteMessage(t)
        <3>1. message' \in {Total, Torn} /\ mError' = mError /\ mError = Total /\ Unfit
            BY <2>2 DEF WriteMessage, Loops
        <3> QED BY <2>0, <3>1 DEF Texts, Unfit
    <2>3. CASE ~Prepare(t) /\ ~WriteMessage(t)
        <3>1. pc[t] \in Working
            BY <1>2, <2>3 DEF LoopStep, Inner, Lock, CheckError, Aggregate, ReadNull, AggregateThrows, Working
        <3>2. ~Unfit /\ index[t] \in Nat
            BY <3>1, AtWork
        <3>3. \A u \in Threads : pc[u] # "message"
            BY <3>2 DEF Loops
        <3>4. UNCHANGED <<mError, message>> \/ (message' = mError' /\ mError' = index[t])
            BY <1>2, <2>3 DEF LoopStep, Inner, Lock, CheckError, Aggregate, ReadNull, AggregateThrows
        <3> QED BY <1>0, <2>0, <3>2, <3>3, <3>4 DEF Texts, Unfit
    <2> QED BY <2>1, <2>2, <2>3
<1> QED BY <1>1, <1>2

\* Simulations without result and without error.
LEMMA NullsStep ==
    ASSUME CoreType, Nulls, (\E t \in Threads : LoopStep(t)) \/ Join \/ Idle
    PROVE  Nulls'
<1>0. pc \in [Threads -> PCs] /\ outcome \in [Threads -> {"ok", "error", "null"}]
    BY DEF CoreType
<1>1. CASE Join \/ Idle
    BY <1>1 DEF Join, Idle, rest, Nulls
<1>2. ASSUME NEW t \in Threads, LoopStep(t) PROVE Nulls'
    <2>1. CASE Inner(t)
        <3>1. blank => blank'
            BY <2>1 DEF Inner
        <3>2. \A u \in Threads : pc'[u] = "undefined" => pc[u] = "undefined"
            BY <1>0, <2>1 DEF Inner
        <3>3. ASSUME NEW u \in Threads, outcome'[u] = "null" PROVE outcome[u] = "null" \/ blank'
            <4>1. outcome' = outcome \/ \E r : outcome' = [outcome EXCEPT ![t] = r] /\ (r = "null" => blank')
                BY <2>1 DEF Inner, Ends
            <4> QED BY <1>0, <3>3, <4>1
        <3> QED BY <3>1, <3>2, <3>3 DEF Nulls
    <2>2. CASE ReadNull(t)
        <3>1. outcome[t] = "null" /\ UNCHANGED <<outcome, blank>> /\ pc' = [pc EXCEPT ![t] = "undefined"]
            BY <2>2 DEF ReadNull, Goto
        <3> QED BY <1>0, <3>1 DEF Nulls
    <2>3. CASE ~Inner(t) /\ ~ReadNull(t)
        <3>1. UNCHANGED <<outcome, blank>>
            BY <1>2, <2>3 DEF LoopStep, Prepare, WriteMessage, Lock, CheckError, Aggregate, AggregateThrows
        <3>2. \A u \in Threads : pc'[u] = "undefined" => pc[u] = "undefined"
            <4>1. pc' = pc \/ \E l : l # "undefined" /\ pc' = [pc EXCEPT ![t] = l]
                BY <1>2, <2>3 DEF LoopStep, Prepare, WriteMessage, Lock, CheckError, Aggregate,
                   AggregateThrows, Goto
            <4> QED BY <1>0, <4>1
        <3> QED BY <3>1, <3>2 DEF Nulls
    <2> QED BY <2>1, <2>2, <2>3
<1> QED BY <1>1, <1>2
-----------------------------------------------------------------------------
(* The invariants.                                                         *)

\* The parts of the type invariant.
LEMMA TypeParts ==
    TypeOK <=> CoreType /\ AccuType /\ SpawnTypeOK /\ late \in [Threads -> BOOLEAN]
BY DEF TypeOK, CoreType, AccuType

\* The invariant holds when the threads are created.
LEMMA ControlInit == Init => ControlInv
<1> SUFFICES ASSUME Init PROVE ControlInv
    OBVIOUS
<1>0. /\ Total \in Nat \ {0} /\ MaxSlots \in Nat \ {0} /\ NbOutputs \in Nat \ {0}
      /\ Threads = 0..(MaxSlots - 1) /\ 0 \in Threads /\ Sims = 0..(Total - 1)
      /\ N \in Nat \ {0} /\ M \in Nat \ {0} /\ NoError = -1 /\ NoThread = -1
    BY Sizes DEF NoError, NoThread
<1>1. nslots \in Nat \ {0} /\ nslots \in 1..MaxSlots
    BY <1>0 DEF Init
<1>2. CoreType
    <2>1. index \in [Threads -> 0..(Total + MaxSlots)]
        BY <1>0 DEF Init
    <2>2. pc \in [Threads -> PCs] /\ outcome \in [Threads -> {"ok", "error", "null"}]
        BY DEF Init, PCs
    <2>3. mError \in NoError..Total /\ message \in Torn..Total /\ out \in Outputs
        BY <1>0 DEF Init, Outputs, Torn
    <2> QED BY <2>1, <2>2, <2>3 DEF Init, CoreType
<1>3. AccuType
    <2>1. <<>> \in Seq(Sims) /\ <<>> \in Seq(Seq(Sims))
        OBVIOUS
    <2> QED BY <2>1 DEF Init, AccuType
<1>4. SpawnTypeOK /\ late \in [Threads -> BOOLEAN]
    BY DEF Init, SpawnInit, SpawnTypeOK, Codes
<1>5. ASSUME NEW t \in Threads
      PROVE  index[t] = t /\ t \in Nat /\ pc[t] = IF t < nslots THEN "loop" ELSE "end"
    BY <1>0 DEF Init
<1>6. Loops
    <2>1. ASSUME NEW t \in Threads, t < nslots PROVE index[t] % nslots = t
        BY <1>1, <1>5, <2>1, Strides
    <2> QED BY <1>1, <1>5, <2>1 DEF Loops, Init, Working
<1>7. Begins
    <2>1. ASSUME NEW i \in Sims PROVE ~(i < index[i % nslots])
        <3>1. i % nslots \in Threads /\ i \in Nat
            BY <1>2, OwnThread
        <3>2. i % nslots <= i
            BY <1>1, <3>1, Strides
        <3> QED BY <1>5, <3>1, <3>2
    <2> QED BY <1>5, <2>1 DEF Begins, Written, Init, Working
<1>8. Exclusion
    BY <1>0, <1>5 DEF Exclusion, Init
<1>9. Children
    BY <1>5 DEF Children, OwnChild, Childless, Init, SpawnInit, Threads
<1>10. Errors
    BY <1>0, <1>1, <1>5 DEF Errors, Carries, Init
<1>11. Texts /\ Nulls
    BY <1>0, <1>5 DEF Texts, Nulls, Init, Torn
<1> QED BY <1>2, <1>3, <1>4, <1>6, <1>7, <1>8, <1>9, <1>10, <1>11, TypeParts DEF ControlInv

\* Every step keeps it.
LEMMA ControlStep ==
    ASSUME ControlInv, SafeForks, [Next]_vars
    PROVE  ControlInv' /\ ((\E t \in Threads : LoopStep(t)) \/ Join \/ Idle)
<1>1. /\ TypeOK /\ CoreType /\ AccuType /\ Loops /\ Begins /\ Exclusion /\ Children /\ Errors
      /\ Texts /\ Nulls
    BY TypeParts DEF ControlInv
<1>2. (\E t \in Threads : LoopStep(t)) \/ Join \/ Idle
    BY <1>1, StepKinds
<1>3. CoreType' /\ AccuType'
    BY <1>1, <1>2, CoreTypeStep, AccuTypeStep
<1>4. Loops' /\ Begins' /\ Exclusion' /\ Errors'
    BY <1>1, <1>2, LoopsStep, BeginsStep, ExclusionStep, ErrorsStep
<1>7. Texts' /\ Nulls'
    BY <1>1, <1>2, TextsStep, NullsStep
<1>5. Children' /\ SpawnTypeOK' /\ late' \in [Threads -> BOOLEAN]
    BY <1>1, ChildrenStep
<1>6. TypeOK'
    BY <1>3, <1>5 DEF TypeOK, CoreType, AccuType
<1> QED BY <1>2, <1>4, <1>5, <1>6, <1>7 DEF ControlInv

\* Only one thread aggregates.
LEMMA Aggregator ==
    ASSUME Exclusion, NEW t \in Threads, pc[t] = "aggregate", NEW o
    PROVE  Aggregated(o) = Written \cup IF o < out THEN {index[t]} ELSE {}
<1>1. \A u \in Threads : pc[u] = "aggregate" => u = t
    BY DEF Exclusion
<1> QED BY <1>1 DEF Aggregated

LEMMA NoAggregator ==
    ASSUME NEW o, \A t \in Threads : pc[t] # "aggregate"
    PROVE  Aggregated(o) = Written
BY DEF Aggregated

\* The simulation a thread aggregates is not yet in the output at hand, which
\* is incomplete.
LEMMA Fresh ==
    ASSUME ControlInv, AccumulatorInv, NEW t \in Threads, pc[t] = "aggregate"
    PROVE  /\ out \in Outputs /\ index[t] \in Sims /\ mError = NoError
           /\ Aggregated(out) = Written /\ index[t] \notin Written
           /\ Accumulated(replicateAccu[out], inputAccu[out], results[out], Written)
           /\ results[out] = <<>>
<1>1. CoreType /\ AccuType /\ Loops /\ Exclusion
    BY TypeParts DEF ControlInv
<1>2. out \in Outputs /\ mError = NoError /\ out \in Int
    BY <1>1, Sizes DEF CoreType, Exclusion, Outputs
<1>3. index[t] \in Sims /\ index[t] \notin Written
    BY <1>1, AtWork, WrittenStep DEF Working
<1>4. Aggregated(out) = Written
    BY <1>1, <1>2, Aggregator
<1>5. Accumulated(replicateAccu[out], inputAccu[out], results[out], Written)
    <2>1. ~Crashed
        BY <1>1 DEF Exclusion, Crashed
    <2> QED BY <1>2, <1>4, <2>1 DEF AccumulatorInv
<1>6. results[out] = <<>>
    BY <1>3, <1>5, Incomplete
<1> QED BY <1>2, <1>3, <1>4, <1>5, <1>6

\* Nothing happens to a thread that read a null pointer.
LEMMA CrashedStays ==
    ASSUME CoreType, Crashed, (\E t \in Threads : LoopStep(t)) \/ Join \/ Idle
    PROVE  Crashed'
<1>1. PICK u \in Threads : pc[u] = "undefined" /\ pc \in [Threads -> PCs]
    BY DEF Crashed, CoreType
<1>2. ASSUME NEW t \in Threads, LoopStep(t) PROVE pc'[u] = "undefined"
    <2>1. pc[t] # "undefined" /\ (pc' = pc \/ \E l : pc' = [pc EXCEPT ![t] = l])
        BY <1>2 DEF LoopStep, Prepare, WriteMessage, ReadNull, Inner, Lock, CheckError, Aggregate,
           AggregateThrows, Goto
    <2> QED BY <1>1, <2>1
<1>3. ASSUME Join \/ Idle PROVE pc'[u] = "undefined"
    BY <1>1, <1>3 DEF Join, Idle, rest
<1> QED BY <1>2, <1>3 DEF Crashed

\* Every simulation is aggregated once for each output.
LEMMA AccumulatorStep ==
    ASSUME ControlInv, AccumulatorInv, SafeForks, [Next]_vars
    PROVE  AccumulatorInv'
<1>0. CoreType /\ AccuType /\ Loops /\ Exclusion /\ Children
    BY TypeParts DEF ControlInv
<1> SUFFICES ASSUME ~Crashed' PROVE AccumulatorInv'
    BY DEF AccumulatorInv
<1>c. ~Crashed
    BY <1>0, ControlStep, CrashedStays
<1>1. pc \in [Threads -> PCs] /\ NoError = -1 /\ Outputs \subseteq Nat \ {0}
    BY <1>0 DEF CoreType, NoError, Outputs
<1>2. ASSUME UNCHANGED <<index, nslots>> PROVE Written' = Written
    BY <1>2 DEF Written
<1>3. ASSUME mError' = NoError => mError = NoError, UNCHANGED aggregateVars,
             \A o \in Outputs : Aggregated(o)' = Aggregated(o)
      PROVE  AccumulatorInv'
    BY <1>3, <1>c DEF AccumulatorInv, aggregateVars
<1>4. ASSUME NEW t \in Threads, pc[t] # "aggregate", NEW l, l # "aggregate",
             pc' = [pc EXCEPT ![t] = l], UNCHANGED <<index, nslots, out>>
      PROVE  \A o \in Outputs : Aggregated(o)' = Aggregated(o)
    <2>1. \A u \in Threads : pc'[u] = "aggregate" <=> pc[u] = "aggregate"
        BY <1>1, <1>4
    <2> QED BY <1>2, <1>4, <2>1 DEF Aggregated
<1>5. ASSUME NEW t \in Threads, Aggregate(t) PROVE AccumulatorInv'
    <2>0. pc[t] = "aggregate"
        BY <1>5 DEF Aggregate
    <2> DEFINE i == index[t]
               k == i \div M
               gathered == Append(replicateAccu[out][k], i)
               inputs == IF Len(gathered) = M THEN Append(inputAccu[out], gathered) ELSE inputAccu[out]
               new == IF Len(gathered) = M THEN <<>> ELSE gathered
    <2>1. /\ out \in Outputs /\ i \in Sims
          /\ Aggregated(out) = Written /\ i \notin Written
          /\ Accumulated(replicateAccu[out], inputAccu[out], results[out], Written)
        BY <2>0, Fresh
    <2>2. replicateAccu[out] \in [0..(N - 1) -> Seq(Sims)] /\ inputAccu[out] \in Seq(Seq(Sims))
        BY <1>0, <2>1 DEF AccuType
    <2>3. Written \in SUBSET Sims
        BY DEF Written
    <2>4. /\ replicateAccu' = [replicateAccu EXCEPT ![out][k] = new]
          /\ inputAccu' = [inputAccu EXCEPT ![out] = inputs]
          /\ results' = IF Len(inputs) = N THEN [results EXCEPT ![out] = inputs] ELSE results
        BY <1>5, <2>0 DEF Aggregate, InsertReplicate
    <2> HIDE DEF i, k, gathered, inputs, new
    <2>5. k \in 0..(N - 1)
        BY <2>1, Inputs DEF k
    <2>6. Accumulated(replicateAccu'[out], inputAccu'[out], results'[out], Written \cup {i})
        <3>1. /\ k = i \div M /\ gathered = Append(replicateAccu[out][k], i)
              /\ inputs = IF Len(gathered) = M THEN Append(inputAccu[out], gathered) ELSE inputAccu[out]
              /\ new = IF Len(gathered) = M THEN <<>> ELSE gathered
            BY DEF k, gathered, inputs, new
        <3>2. /\ replicateAccu'[out][k] = new
              /\ \A j \in 0..(N - 1) : j # k => replicateAccu'[out][j] = replicateAccu[out][j]
            BY <1>0, <2>1, <2>2, <2>4, <2>5 DEF AccuType
        <3>3. /\ inputAccu'[out] = inputs
              /\ results'[out] = IF Len(inputs) = N THEN inputs ELSE results[out]
            BY <1>0, <2>1, <2>4 DEF AccuType
        <3>4. Inserts(replicateAccu[out], inputAccu[out], results[out], i,
                      replicateAccu'[out], inputAccu'[out], results'[out])
            BY <3>1, <3>2, <3>3 DEF Inserts
        <3> QED BY <2>1, <2>2, <2>3, <3>4, Insertion
    <2>7. ASSUME NEW o \in Outputs, o # out
          PROVE  /\ replicateAccu'[o] = replicateAccu[o] /\ inputAccu'[o] = inputAccu[o]
                 /\ results'[o] = results[o]
        BY <1>0, <2>1, <2>4, <2>7 DEF AccuType
    <2>8. mError = NoError /\ UNCHANGED <<mError, nslots>>
        BY <1>0, <1>5, <2>0 DEF Aggregate, Exclusion, planVars
    <2>9. ASSUME NEW o \in Outputs
          PROVE  Aggregated(o)' = IF o = out THEN Written \cup {i} ELSE Aggregated(o)
        <3>0. Aggregated(o) = Written \cup IF o < out THEN {i} ELSE {}
            BY <1>0, <2>0, Aggregator DEF i
        <3>1. out \in Nat /\ o \in Nat /\ NbOutputs \in Nat /\ o <= NbOutputs /\ out <= NbOutputs
            BY <2>1, Sizes DEF Outputs
        <3>2. CASE out < NbOutputs
            <4>1. out' = out + 1 /\ UNCHANGED <<pc, index>>
                BY <1>5, <2>0, <3>2 DEF Aggregate
            <4>2. \A u \in Threads : pc[u] = "aggregate" <=> u = t
                BY <1>0, <2>0 DEF Exclusion
            <4>3. Aggregated(o)' = Written \cup IF o < out + 1 THEN {i} ELSE {}
                BY <1>2, <2>8, <4>1, <4>2 DEF Aggregated, i
            <4>4. o < out + 1 <=> o < out \/ o = out
                BY <3>1
            <4> QED BY <3>0, <3>1, <4>3, <4>4
        <3>3. CASE ~(out < NbOutputs)
            <4>1. index' = [index EXCEPT ![t] = @ + nslots] /\ pc' = [pc EXCEPT ![t] = "loop"]
                BY <1>5, <2>0, <3>3 DEF Aggregate, Goto
            <4>2. \A u \in Threads : pc'[u] # "aggregate"
                <5>1. \A u \in Threads : pc[u] = "aggregate" => u = t
                    BY <1>0, <2>0 DEF Exclusion
                <5> QED BY <1>1, <4>1, <5>1
            <4>3. Written' = Written \cup {i}
                BY <1>0, <2>0, <2>8, <4>1, WrittenStep DEF Working, i
            <4>4. Aggregated(o)' = Written'
                BY <4>2 DEF Aggregated
            <4>5. o < out \/ o = out
                BY <3>1, <3>3
            <4> QED BY <3>0, <4>3, <4>4, <4>5
        <3> QED BY <3>2, <3>3
    <2>10. ASSUME NEW o \in Outputs
           PROVE  Accumulated(replicateAccu'[o], inputAccu'[o], results'[o], Aggregated(o)')
        <3>1. CASE o = out
            BY <2>6, <2>9, <3>1
        <3>2. CASE o # out
            <4>1. Accumulated(replicateAccu[o], inputAccu[o], results[o], Aggregated(o))
                BY <1>c, <2>8 DEF AccumulatorInv
            <4> QED BY <2>7, <2>9, <3>2, <4>1
        <3> QED BY <3>1, <3>2
    <2> QED BY <2>10 DEF AccumulatorInv
<1>6. ASSUME NEW t \in Threads, LoopStep(t) PROVE AccumulatorInv'
    <2>1. CASE Prepare(t)
        <3>1. mError' = NoError => mError = NoError
            BY <1>1, <2>1, Sizes DEF Prepare
        <3>2. \E l \in {"end", "sim", "message"} : pc' = [pc EXCEPT ![t] = l]
            BY <2>1 DEF Prepare, Goto
        <3>3. pc[t] # "aggregate" /\ UNCHANGED <<index, nslots, out, aggregateVars>>
            BY <2>1 DEF Prepare, planVars
        <3> QED BY <1>3, <1>4, <3>1, <3>2, <3>3
    <2>2. CASE Inner(t)
        <3>1. PICK l \in PCs \ {"aggregate"} : pc' = [pc EXCEPT ![t] = l]
            BY <2>2 DEF Inner, PCs
        <3>2. pc[t] # "aggregate" /\ UNCHANGED <<index, nslots, out, aggregateVars, mError>>
            BY <2>2 DEF Inner, planVars
        <3> QED BY <1>3, <1>4, <3>1, <3>2
    <2>7. CASE WriteMessage(t)
        <3>1. /\ pc[t] # "aggregate" /\ UNCHANGED <<index, nslots, out, aggregateVars, mError>>
              /\ pc' = [pc EXCEPT ![t] = "end"]
            BY <2>7 DEF WriteMessage, planVars, Goto
        <3> QED BY <1>3, <1>4, <3>1
    <2>8. CASE ReadNull(t)
        <3>1. pc'[t] = "undefined"
            BY <1>1, <2>8 DEF ReadNull, Goto
        <3> QED BY <3>1 DEF Crashed
    <2>3. CASE Lock(t)
        <3>1. /\ pc[t] # "aggregate" /\ UNCHANGED <<index, nslots, out, aggregateVars, mError>>
              /\ pc' = [pc EXCEPT ![t] = "locked"]
            BY <2>3 DEF Lock, planVars, Goto
        <3> QED BY <1>3, <1>4, <3>1
    <2>4. CASE CheckError(t)
        <3>0. index[t] \in Nat
            BY <1>0, <2>4, AtWork DEF CheckError, Working
        <3>1. CASE mError # NoError \/ outcome[t] = "error"
            <4>1. mError' # NoError
                BY <1>1, <2>4, <3>0, <3>1 DEF CheckError
            <4> QED BY <4>1 DEF AccumulatorInv
        <3>2. CASE ~(mError # NoError \/ outcome[t] = "error")
            <4>1. /\ out' = 1 /\ pc' = [pc EXCEPT ![t] = "aggregate"]
                  /\ UNCHANGED <<mError, index, nslots, aggregateVars>>
                BY <2>4, <3>2 DEF CheckError, Goto, planVars
            <4>2. \A u \in Threads : pc[u] # "aggregate"
                BY <1>0, <2>4 DEF CheckError, Exclusion
            <4>3. ASSUME NEW o \in Outputs PROVE Aggregated(o)' = Aggregated(o)
                <5>1. Aggregated(o) = Written
                    BY <4>2, NoAggregator
                <5>2. ~(o < out')
                    BY <1>1, <4>1
                <5>3. Aggregated(o)' = Written'
                    BY <5>2 DEF Aggregated
                <5> QED BY <1>2, <4>1, <5>1, <5>3
            <4> QED BY <1>3, <4>1, <4>3
        <3> QED BY <3>1, <3>2
    <2>5. CASE Aggregate(t)
        BY <1>5, <2>5
    <2>6. CASE AggregateThrows(t)
        <3>1. index[t] \in Nat
            BY <1>0, <2>6, AtWork DEF AggregateThrows, Working
        <3>2. mError' # NoError
            BY <1>1, <2>6, <3>1 DEF AggregateThrows
        <3> QED BY <3>2 DEF AccumulatorInv
    <2> QED BY <1>6, <2>1, <2>2, <2>3, <2>4, <2>5, <2>6, <2>7, <2>8 DEF LoopStep
<1>7. ASSUME Join \/ Idle PROVE AccumulatorInv'
    <2>1. UNCHANGED <<index, nslots, out, pc, aggregateVars, mError>>
        BY <1>7 DEF Join, Idle, rest, planVars
    <2>2. \A o \in Outputs : Aggregated(o)' = Aggregated(o)
        BY <1>2, <2>1 DEF Aggregated
    <2> QED BY <1>3, <2>1, <2>2
<1> QED BY <1>6, <1>7, ControlStep
-----------------------------------------------------------------------------
(* Theorems.                                                               *)

\* When all threads ended without an error, every simulation is aggregated.
LEMMA AllWritten ==
    ASSUME ControlInv, mError = NoError, \A t \in Threads : pc[t] = "end"
    PROVE  Written = Sims /\ begun = Sims /\ \A o : Aggregated(o) = Sims
<1>1. CoreType /\ Loops /\ Begins
    BY TypeParts DEF ControlInv
<1>2. ASSUME NEW i \in Sims PROVE i \in Written
    <2>1. i % nslots \in Threads /\ i % nslots < nslots /\ i \in Nat /\ i < Total
        BY <1>1, OwnThread, Sizes
    <2>2. index[i % nslots] >= Total
        BY <1>1, <2>1 DEF Loops
    <2>3. index[i % nslots] \in Nat /\ Total \in Nat
        BY <1>1, <2>1, Sizes DEF CoreType
    <2> QED BY <2>1, <2>2, <2>3 DEF Written
<1>3. Written = Sims
    BY <1>2 DEF Written
<1>4. begun = Sims
    BY <1>1, <1>3 DEF Begins, CoreType
<1> QED BY <1>3, <1>4, NoAggregator

\* The inductive invariant, for any plan in which forks do not fail beside
\* another thread.
THEOREM PlanInvariant == SafeForks => (Spec => [](ControlInv /\ AccumulatorInv))
<1> SUFFICES ASSUME SafeForks PROVE Spec => [](ControlInv /\ AccumulatorInv)
    OBVIOUS
<1>1. Init => ControlInv /\ AccumulatorInv
    <2> SUFFICES ASSUME Init PROVE AccumulatorInv
        BY ControlInit
    <2>1. CoreType /\ Begins /\ ControlInv
        BY ControlInit, TypeParts DEF ControlInv
    <2>2. Written = {}
        BY <2>1 DEF Begins, Init
    <2>3. \A t \in Threads : pc[t] # "aggregate"
        BY DEF Init
    <2>4. N \in Nat \ {0} /\ \A k \in 0..(N - 1) : Replicates(k) # {}
        <3>1. ASSUME NEW k \in 0..(N - 1) PROVE Replicates(k) # {}
            BY Inputs, Sizes, FS_EmptySet
        <3> QED BY <3>1, Sizes
    <2>5. Complete({}) = {}
        BY <2>4 DEF Complete
    <2>6. <<>> \in Seq(Sims) /\ IsInjective(<<>>) /\ Range(<<>>) = {} /\ <<>> \in Seq(0..(N - 1))
        <3>1. <<>> \in Seq(Sims) /\ DOMAIN <<>> = {} /\ <<>> \in Seq(0..(N - 1))
            OBVIOUS
        <3> QED BY <3>1 DEF IsInjective, Range
    <2>7. Lists(<<>>, {})
        BY <2>6 DEF Lists
    <2>8. ASSUME NEW o \in Outputs
          PROVE  Accumulated(replicateAccu[o], inputAccu[o], results[o], Aggregated(o))
        <3>1. Aggregated(o) = {}
            BY <2>2, <2>3, NoAggregator
        <3>2. inputAccu[o] = <<>> /\ results[o] = <<>> /\ \A k \in 0..(N - 1) : replicateAccu[o][k] = <<>>
            BY DEF Init
        <3>3. Gathered(replicateAccu[o], {})
            BY <2>5, <2>7, <3>2 DEF Gathered
        <3>4. Len(<<>>) = 0 /\ 1..0 = {}
            OBVIOUS
        <3>5. Filled(<<>>, {})
            BY <2>5, <2>6, <3>4 DEF Filled
        <3> QED BY <2>4, <3>1, <3>2, <3>3, <3>4, <3>5 DEF Accumulated
    <2> QED BY <2>8 DEF AccumulatorInv
<1>2. ControlInv /\ AccumulatorInv /\ [Next]_vars => (ControlInv /\ AccumulatorInv)'
    BY ControlStep, AccumulatorStep
<1> QED BY <1>1, <1>2, PTL DEF Spec

\* run_with_threads returns an error exactly when a simulation or an
\* aggregation failed or the inputs do not fit, and otherwise results in
\* which every simulation is counted once, with the replicates of an input
\* together.
THEOREM AnswersAreRight == SafeForks => (Spec => []AnswerRight)
<1>1. ASSUME ControlInv, AccumulatorInv PROVE AnswerRight
    <2>1. CoreType /\ AccuType /\ Loops /\ Errors
        BY <1>1, TypeParts DEF ControlInv
    <2>2. ASSUME returned # "no" PROVE \A t \in Threads : pc[t] = "end"
        BY <2>1, <2>2 DEF Loops
    <2>3. ResultsComplete
        <3> SUFFICES ASSUME returned = "results", NEW o \in Outputs PROVE Whole(results[o])
            BY DEF ResultsComplete, Whole
        <3>1. mError = NoError
            BY <2>1 DEF Errors
        <3>2. Aggregated(o) = Sims
            BY <1>1, <2>2, <3>1, AllWritten
        <3>5. ~Crashed
            BY <2>2 DEF Crashed
        <3>3. Accumulated(replicateAccu[o], inputAccu[o], results[o], Sims)
            BY <1>1, <3>1, <3>2, <3>5 DEF AccumulatorInv
        <3>4. inputAccu[o] \in Seq(Seq(Sims))
            BY <2>1 DEF AccuType
        <3> QED BY <3>3, <3>4, Completion
    <2>4. ErrorReported
        <3> SUFFICES ASSUME returned # "no"
                     PROVE  /\ returned = "error" <=> failed # {} \/ Unfit
                            /\ returned = "error" => message = mError \/ (message = Torn /\ Unfit)
            BY DEF ErrorReported, Unfit
        <3>1. \A t \in Threads : pc[t] = "end"
            BY <2>2
        <3>2. returned = "error" <=> mError # NoError
            BY <2>1 DEF Errors, CoreType
        <3>3. ~ \E t \in Threads : Carries(t)
            BY <3>1 DEF Carries
        <3>4. Unfit => mError # NoError
            BY <2>1, <3>1, Sizes DEF Errors
        <3>5. failed # {} => mError # NoError
            BY <2>1, <3>3 DEF Errors
        <3>6. mError # NoError => failed # {} \/ Unfit
            BY <2>1 DEF Errors
        <3>7. mError # NoError => message = mError \/ (message = Torn /\ Unfit)
            BY <1>1, <3>1 DEF ControlInv, Texts
        <3> QED BY <3>2, <3>4, <3>5, <3>6, <3>7
    <2> QED BY <2>3, <2>4 DEF AnswerRight
<1> QED BY <1>1, PlanInvariant, PTL

\* The status of a child is only asked for when there is one, no result and
\* no accumulator is read through a null pointer.
THEOREM NothingIsUndefined == SafeForks => (Spec => []NothingUndefined)
<1>1. ASSUME ControlInv, AccumulatorInv PROVE NothingUndefined
    <2>1. \A t \in Threads : OwnChild(t) /\ (pc[t] = "undefined" => blank)
        BY <1>1 DEF ControlInv, Children, Nulls
    <2>2. ASSUME NEW t \in Threads, pc[t] = "aggregate" PROVE results[out] = <<>>
        BY <1>1, <2>2, Fresh
    <2> QED BY <1>1, <2>1, <2>2 DEF NothingUndefined, ControlInv, OwnChild
<1> QED BY <1>1, PlanInvariant, PTL

\* A simulation is judged by the end of its own child, whatever the other
\* threads wait for, and no child is left when the plan returns.
THEOREM ChildrenAreOwn == SafeForks => (Spec => []OwnChildren)
<1>1. ASSUME ControlInv PROVE OwnChildren
    <2>1. \A t \in Threads : OwnChild(t) /\ (returned # "no" => pc[t] = "end")
        BY <1>1 DEF ControlInv, Children, Loops
    <2> QED BY <2>1 DEF OwnChildren, OwnChild, Childless
<1> QED BY <1>1, PlanInvariant, PTL

\* No thread replaces the error another one met before it, though one kind
\* of error is written without the mutex.
THEOREM FirstErrorIsKept == SafeForks => (Spec => FirstErrorKept)
<1> SUFFICES ASSUME SafeForks PROVE Spec => FirstErrorKept
    OBVIOUS
<1>1. ASSUME ControlInv, [Next]_vars, mError # NoError PROVE mError' = mError
    <2>0. Loops /\ Exclusion /\ Errors
        BY <1>1 DEF ControlInv
    <2>1. ASSUME NEW t \in Threads, LoopStep(t) PROVE mError' = mError
        <3>1. CASE Prepare(t)
            <4>1. mError' = mError \/ (mError' = Total /\ Unfit)
                BY <3>1 DEF Prepare, Unfit
            <4> QED BY <1>1, <2>0, <4>1 DEF Errors
        <3>2. CASE Aggregate(t) \/ AggregateThrows(t)
            <4>1. pc[t] = "aggregate"
                BY <3>2 DEF Aggregate, AggregateThrows
            <4> QED BY <1>1, <2>0, <4>1 DEF Exclusion
        <3>3. CASE WriteMessage(t) \/ Inner(t) \/ Lock(t) \/ CheckError(t) \/ ReadNull(t)
            BY <1>1, <3>3 DEF WriteMessage, Inner, Lock, CheckError, ReadNull
        <3> QED BY <2>1, <3>1, <3>2, <3>3 DEF LoopStep
    <2>2. ASSUME Join \/ Idle PROVE mError' = mError
        BY <2>2 DEF Join, Idle, rest
    <2> QED BY <1>1, <2>1, <2>2, ControlStep
<1>2. ControlInv /\ [Next]_vars => [mError # NoError => mError' = mError]_vars
    BY <1>1
<1>3. Spec => []ControlInv
    BY PlanInvariant, PTL
<1> QED BY <1>2, <1>3, PTL DEF Spec, FirstErrorKept
-----------------------------------------------------------------------------
(* The refinement of Farm.                                                 *)

\* The rows and the outcome of Farm.
WrittenRows == {i \in Sims : \E t \in Threads : t < nslots /\ i % nslots = t /\ i < index[t]}
Outcome == IF returned = "results" THEN "ended"
           ELSE IF mError # NoError THEN "failed" ELSE "running"

\* The rows written are the simulations the loop counters have passed.
LEMMA RowsOfFarm == CoreType => WrittenRows = Written
<1> SUFFICES ASSUME CoreType PROVE WrittenRows = Written
    OBVIOUS
<1>1. ASSUME NEW i \in Sims PROVE i \in WrittenRows <=> i \in Written
    BY OwnThread DEF WrittenRows, Written
<1> QED BY <1>1 DEF WrittenRows, Written

\* A step that changes neither the counters nor the outcome is not seen.
LEMMA StutterOfFarm ==
    ASSUME UNCHANGED <<begun, index, nslots, returned, mError>>
    PROVE  UNCHANGED Abstract!vars
<1>1. UNCHANGED Abstract!inputVars
    BY DEF Abstract!inputVars
<1> QED BY <1>1 DEF Abstract!vars

\* An error ends the plan.
LEMMA FailOfFarm ==
    ASSUME returned = "no", mError' # NoError, UNCHANGED <<begun, index, nslots, returned>>
    PROVE  Abstract!Next \/ UNCHANGED Abstract!vars
<1>0. UNCHANGED Abstract!inputVars
    BY DEF Abstract!inputVars
<1>1. UNCHANGED <<begun, WrittenRows>> /\ Outcome' = "failed"
    BY DEF WrittenRows, Outcome
<1>2. CASE mError = NoError
    <2>1. Outcome = "running"
        BY <1>2 DEF Outcome
    <2>2. Abstract!Fail
        BY <1>0, <1>1, <2>1 DEF Abstract!Fail, WrittenRows, Outcome
    <2> QED BY <2>2 DEF Abstract!Next
<1>3. CASE mError # NoError
    <2>1. Outcome = "failed"
        BY <1>3 DEF Outcome
    <2> QED BY <1>0, <1>1, <2>1 DEF Abstract!vars, WrittenRows, Outcome
<1> QED BY <1>2, <1>3

\* Every step of a plan is one of Farm, or Farm does not see it.
LEMMA NextOfFarm ==
    ASSUME ControlInv, SafeForks, [Next]_vars
    PROVE  Abstract!Next \/ UNCHANGED Abstract!vars
<1>0. CoreType /\ Loops /\ Begins /\ Exclusion /\ Errors /\ Children
    BY TypeParts DEF ControlInv
<1>1. ControlInv' /\ ((\E t \in Threads : LoopStep(t)) \/ Join \/ Idle)
    BY ControlStep
<1>2. CoreType'
    BY <1>1 DEF ControlInv, TypeOK, CoreType
<1>3. WrittenRows = Written /\ WrittenRows' = Written'
    <2>1. WrittenRows = Written
        BY <1>0, RowsOfFarm
    <2>2. (CoreType => WrittenRows = Written)'
        BY RowsOfFarm, PTL
    <2> QED BY <1>2, <2>1, <2>2
<1>4. UNCHANGED Abstract!inputVars
    BY DEF Abstract!inputVars
<1>5. ASSUME Idle PROVE UNCHANGED Abstract!vars
    BY <1>5, StutterOfFarm DEF Idle, rest, planVars
<1>6. ASSUME Join PROVE Abstract!Next \/ UNCHANGED Abstract!vars
    <2>1. UNCHANGED <<begun, index, nslots, mError>> /\ returned = "no"
        BY <1>6 DEF Join, planVars
    <2>2. UNCHANGED <<begun, WrittenRows>>
        BY <2>1 DEF WrittenRows
    <2>3. CASE mError = NoError
        <3>1. Written = Sims /\ begun = Sims
            BY <1>6, <2>3, AllWritten DEF Join
        <3>2. Outcome = "running" /\ Outcome' = "ended"
            BY <1>6, <2>1, <2>3 DEF Join, Outcome
        <3>3. Abstract!End
            BY <1>3, <1>4, <2>2, <3>1, <3>2 DEF Abstract!End, WrittenRows, Outcome
        <3> QED BY <3>3 DEF Abstract!Next
    <2>4. CASE mError # NoError
        <3>1. Outcome = "failed" /\ Outcome' = "failed"
            BY <1>6, <2>1, <2>4 DEF Join, Outcome
        <3> QED BY <1>4, <2>2, <3>1 DEF Abstract!vars, WrittenRows, Outcome
    <2> QED BY <2>3, <2>4
<1>7. ASSUME NEW t \in Threads, LoopStep(t) PROVE Abstract!Next \/ UNCHANGED Abstract!vars
    <2>0. returned = "no" /\ UNCHANGED <<returned, nslots>>
        BY <1>0, <1>7 DEF LoopStep, Loops, Prepare, WriteMessage, ReadNull, Inner, Lock, CheckError, Aggregate, AggregateThrows, planVars
    <2>1. CASE Prepare(t)
        <3>1. pc[t] = "loop" /\ UNCHANGED index
            BY <2>1 DEF Prepare
        <3>2. CASE UNCHANGED <<begun, mError>>
            BY <2>0, <3>1, <3>2, StutterOfFarm
        <3>3. CASE UNCHANGED begun /\ mError' = Total
            <4>1. mError' # NoError
                BY <3>3, Sizes DEF NoError
            <4> QED BY <2>0, <3>1, <3>3, <4>1, FailOfFarm
        <3>4. CASE begun' = begun \cup {index[t]} /\ UNCHANGED mError /\ index[t] < Total
            <4>1. index[t] \in Sims
                BY <1>0, <3>4, Sizes DEF CoreType
            <4>2. index[t] % nslots = t
                BY <1>0, <3>1, Sizes DEF Loops, CoreType
            <4>3. index[t] \notin begun
                <5>1. index[t] \in Nat
                    BY <4>1, Sizes
                <5> QED BY <1>0, <3>1, <4>2, <5>1 DEF Begins
            <4>4. PICK S : S = {index[t]}
                OBVIOUS
            <4>5. S \subseteq Sims \ begun /\ begun' = begun \cup S
                BY <3>4, <4>1, <4>3, <4>4
            <4>6. Outcome # "ended" /\ Outcome' = Outcome /\ WrittenRows' = WrittenRows
                BY <2>0, <3>1, <3>4 DEF Outcome, WrittenRows
            <4>7. Abstract!Take(S)
                BY <1>4, <4>5, <4>6 DEF Abstract!Take, WrittenRows, Outcome
            <4>8. S \in SUBSET Sims
                BY <4>5
            <4> QED BY <4>7, <4>8 DEF Abstract!Next
        <3> QED BY <2>1, <3>2, <3>3, <3>4 DEF Prepare
    <2>2. CASE WriteMessage(t) \/ Inner(t) \/ Lock(t) \/ ReadNull(t)
        <3>1. UNCHANGED <<begun, index, mError>>
            BY <2>2 DEF WriteMessage, Inner, Lock, ReadNull
        <3> QED BY <2>0, <3>1, StutterOfFarm
    <2>3. CASE CheckError(t)
        <3>0. UNCHANGED <<begun, index>> /\ index[t] \in Nat
            BY <1>0, <2>3, AtWork DEF CheckError, Working
        <3>1. CASE mError # NoError \/ outcome[t] = "error"
            <4>1. mError' # NoError
                BY <2>3, <3>0, <3>1 DEF CheckError, NoError
            <4> QED BY <2>0, <3>0, <4>1, FailOfFarm
        <3>2. CASE ~(mError # NoError \/ outcome[t] = "error")
            BY <2>0, <2>3, <3>0, <3>2, StutterOfFarm DEF CheckError
        <3> QED BY <3>1, <3>2
    <2>4. CASE Aggregate(t)
        <3>0. /\ pc[t] = "aggregate" /\ UNCHANGED <<begun, mError>> /\ mError = NoError
            BY <1>0, <2>4 DEF Aggregate, Exclusion
        <3>1. CASE UNCHANGED index
            BY <2>0, <3>0, <3>1, StutterOfFarm
        <3>2. CASE index' = [index EXCEPT ![t] = @ + nslots]
            <4>1. index[t] \notin Written /\ Written' = Written \cup {index[t]}
                BY <1>0, <2>0, <3>0, <3>2, WrittenStep DEF Working
            <4>2. index[t] \in begun
                BY <1>0, <3>0 DEF Begins, Working
            <4>3. PICK W : W = {index[t]}
                OBVIOUS
            <4>4. W \subseteq begun \ WrittenRows /\ WrittenRows' = WrittenRows \cup W
                BY <1>3, <4>1, <4>2, <4>3
            <4>5. Outcome = "running" /\ Outcome' = Outcome
                BY <2>0, <3>0 DEF Outcome
            <4>6. Abstract!Write(W, {})
                BY <1>4, <3>0, <4>4, <4>5 DEF Abstract!Write, WrittenRows, Outcome
            <4>7. W \in SUBSET begun /\ {} \in SUBSET Sims
                BY <4>4
            <4> QED BY <4>6, <4>7 DEF Abstract!Next
        <3> QED BY <2>4, <3>0, <3>1, <3>2 DEF Aggregate
    <2>5. CASE AggregateThrows(t)
        <3>1. UNCHANGED <<begun, index>> /\ index[t] \in Nat
            BY <1>0, <2>5, AtWork DEF AggregateThrows, Working
        <3>2. mError' # NoError
            BY <2>5, <3>1 DEF AggregateThrows, NoError
        <3> QED BY <2>0, <3>1, <3>2, FailOfFarm
    <2> QED BY <1>7, <2>1, <2>2, <2>3, <2>4, <2>5 DEF LoopStep
<1> QED BY <1>1, <1>5, <1>6, <1>7

\* A plan takes and aggregates each simulation once and returns results only
\* when all are aggregated: the threads implement Farm.
THEOREM PlanIsAFarm == SafeForks => (Spec => ImplementsFarm)
<1> SUFFICES ASSUME SafeForks PROVE Spec => ImplementsFarm
    OBVIOUS
<1>1. Init => Abstract!Init
    <2> SUFFICES ASSUME Init PROVE Abstract!Init
        OBVIOUS
    <2>1. CoreType /\ Begins
        BY ControlInit, TypeParts DEF ControlInv
    <2>2. begun = {} /\ WrittenRows = {}
        BY <2>1, RowsOfFarm DEF Init, Begins
    <2>3. Outcome = "running"
        BY DEF Init, Outcome
    <2>4. Sims \subseteq Nat
        BY Inputs
    <2> QED BY <2>2, <2>3, <2>4 DEF Abstract!Init, WrittenRows, Outcome
<1>2. ControlInv /\ [Next]_vars => [Abstract!Next]_(Abstract!vars)
    BY NextOfFarm
<1>3. Spec => []ControlInv
    BY PlanInvariant, PTL
<1> QED BY <1>1, <1>2, <1>3, PTL DEF Spec, ImplementsFarm, Abstract!Spec
=============================================================================
