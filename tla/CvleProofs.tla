----------------------------- MODULE CvleProofs -----------------------------
(***************************************************************************)
(* The protocol of the MPI front end and what it writes, proved for any    *)
(* number of workers, any size of block, any input and any answer order.   *)
(***************************************************************************)
EXTENDS Cvle, Facts, SequenceTheorems

Result == [line : 1..Size, id : Nat, used : [Conditions -> Nat]]
Messages == {[tag |-> "header"], [tag |-> "end"]}
            \cup [tag : {"todo"}, block : Seq(1..Size)]
            \cup [tag : {"todo"}, first : Nat]
Answers == [tag : {"block_end"}, rows : Seq(Result)]

-----------------------------------------------------------------------------
(* The protocol *)

HeaderSent(w) == mpc # "header" \/ w < rank
EndSent(w) == mpc = "done" \/ (mpc = "stop" /\ w < rank)

\* Where the messages after the header begin in the channel of a worker, and
\* whether there is a block.
At(w) == IF wpc[w] = "start" THEN 2 ELSE 1
Sent(w) == Len(toWorker[w]) = At(w) + 1

\* The channel holds the header until the worker has it, then at most one
\* block or the end.
Channel(w) ==
    LET c == toWorker[w]
        n == At(w)
    IN  /\ c \in Seq(Messages)
        /\ ~HeaderSent(w) => wpc[w] = "start" /\ Len(c) = 0
        /\ HeaderSent(w) => Len(c) \in n - 1 .. n + 1
        /\ HeaderSent(w) /\ wpc[w] = "start" => c[1] = [tag |-> "header"]
        /\ Len(c) = n => c[n] = [tag |-> "end"] /\ EndSent(w)
        /\ Len(c) = n + 1 => /\ c[n] \in [tag : {"todo"}, block : Seq(1..Size)]
                             /\ c[n + 1] \in [tag : {"todo"}, first : Nat]
        /\ EndSent(w) => Len(c) = n \/ (wpc[w] = "stopped" /\ Len(c) = 0)
        /\ wpc[w] = "run" => Len(c) = 0
        /\ wpc[w] = "stopped" => Len(c) = 0 /\ EndSent(w)

\* The flag of a worker is set while its block is on its way, in work or on
\* the way back.
Flag(w) ==
    /\ toMaster[w] \in Seq(Answers) /\ Len(toMaster[w]) <= 1
    /\ w \in busy <=> Sent(w) \/ wpc[w] = "run" \/ Len(toMaster[w]) = 1
    /\ Sent(w) => wpc[w] # "run" /\ Len(toMaster[w]) = 0
    /\ wpc[w] = "run" => Len(toMaster[w]) = 0

\* The loops of the master.
Loops ==
    /\ mpc \in {"header", "stop", "done"} => busy = {}
    /\ mpc = "distribute" => \A w \in busy : w < rank
    /\ mpc # "done" => rank <= World
    /\ mpc \in {"collect", "drain"} => rank = 1

ProtocolInv ==
    /\ TypeOK /\ Loops /\ aborted # "order"
    /\ \A w \in Workers : Channel(w) /\ Flag(w)

-----------------------------------------------------------------------------
(* The rows *)

\* The identifier a row should have and the values it should be simulated
\* with; the rows that were read and those that are written.
Rank(l) == Cardinality({i \in Rows : i < l})
RankOf == [l \in Nat |-> Rank(l)]
OwnOf == [i \in Rows |-> Own(i)]
TakenRows == {i \in Rows : i <= pos}
LinesOf(a) == {a[k].line : k \in 1..Len(a)}
Written == LinesOf(out)

\* Every row of a table gives a value to every column.
FullTables ==
    \A i \in Inputs : ~i.complex =>
        \A j, k \in 1..Len(i.lines) :
            i.lines[j] # {} /\ i.lines[k] # {} => i.lines[j] = i.lines[k]

\* The elements of a block are rows of T with the ranks R from f on.
Elements(b) == {b[k] : k \in 1..Len(b)}
Fits(b, f, T, R) == \A k \in 1..Len(b) : b[k] \in T /\ R[b[k]] = f + k - 1

\* Results of different rows of T, with the ranks R and the values O.
Right(a, T, R, O) ==
    /\ \A k \in 1..Len(a) :
           /\ a[k].line \in T /\ a[k].id = R[a[k].line]
           /\ FullTables => a[k].used = O[a[k].line]
    /\ \A j, k \in 1..Len(a) : a[j].line = a[k].line => j = k

\* The block on its way to a worker.
SentBlock(w) == toWorker[w][At(w)].block
SentFirst(w) == toWorker[w][At(w) + 1].first

\* The rows a worker is responsible for.
Held(w) ==
    CASE Sent(w) -> Elements(SentBlock(w))
      [] wpc[w] = "run" -> Elements(job[w]) \cup LinesOf(answer[w])
      [] Len(toMaster[w]) = 1 -> LinesOf(toMaster[w][1].rows)
      [] OTHER -> {}

HeldRight(w) ==
    /\ Sent(w) => Fits(SentBlock(w), SentFirst(w), TakenRows, RankOf)
    /\ wpc[w] = "run" => /\ Fits(job[w], rowId[w], TakenRows, RankOf)
                         /\ Right(answer[w], TakenRows, RankOf, OwnOf)
                         /\ Elements(job[w]) \cap LinesOf(answer[w]) = {}
    /\ Len(toMaster[w]) = 1 => Right(toMaster[w][1].rows, TakenRows, RankOf, OwnOf)

\* The vpz of a worker differs from the file only in columns of a table.
ValuesKept(w) ==
    \A c \in Conditions : values[w][c] # 0 =>
        ~input.complex /\ \E i \in Rows : c \in Lines[i]

\* A row that was read is written or held by one worker.
Shares ==
    /\ TakenRows = Written \cup UNION {Held(w) : w \in Workers}
    /\ \A w \in Workers : Held(w) \cap Written = {}
    /\ \A v, w \in Workers : v # w => Held(v) \cap Held(w) = {}

\* The position of the reader, and why it stopped.
Reader ==
    /\ lastId = RankOf[pos + 1]
    /\ stream = "fail" => pos = Size
    /\ mpc \in {"drain", "stop", "done"} =>
           pos = Size \/ \E i \in 1..Size : ~IsRow(i)

RowsInv ==
    /\ Right(out, TakenRows, RankOf, OwnOf) /\ Shares /\ Reader
    /\ \A w \in Workers : HeldRight(w) /\ ValuesKept(w)

-----------------------------------------------------------------------------
(* Root::read *)

\* The number of rows a read takes exists: the rows that follow each other,
\* up to the size of a block.
LEMMA TakenFacts ==
    ASSUME TypeOK
    PROVE  /\ Size \in Nat
           /\ Taken \in 0..BlockSize
           /\ pos + Taken <= Size
           /\ \A i \in (pos + 1)..(pos + Taken) : IsRow(i)
           /\ Taken < BlockSize => (pos + Taken = Size \/ ~IsRow(pos + Taken + 1))
<1>1. Size \in Nat /\ BlockSize \in Nat /\ pos \in 0..Size
    BY CvleAssumption DEF TypeOK, Size, Lines
<1> DEFINE Possible == {k \in 0..BlockSize :
                            /\ pos + k <= Size
                            /\ \A i \in (pos + 1)..(pos + k) : IsRow(i)}
<1>2. 0 \in Possible
    BY <1>1
<1>3. PICK m \in Possible : \A k \in Possible : k <= m
    <2>1. Possible \in SUBSET (0..BlockSize) /\ Possible # {}
        BY <1>2
    <2> HIDE DEF Possible
    <2> QED BY <1>1, <2>1, GreatestNatural
<1>4. m < BlockSize => (pos + m = Size \/ ~IsRow(pos + m + 1))
    <2> SUFFICES ASSUME m < BlockSize, pos + m # Size, IsRow(pos + m + 1)
                 PROVE  m + 1 \in Possible
        BY <1>1, <1>3
    <2>1. \A i \in (pos + 1)..(pos + (m + 1)) : i \in (pos + 1)..(pos + m) \/ i = pos + m + 1
        BY <1>1
    <2>2. \A i \in (pos + 1)..(pos + (m + 1)) : IsRow(i)
        BY <2>1
    <2> QED BY <1>1, <2>2
<1>5. \E k \in 0..BlockSize :
          /\ pos + k <= Size
          /\ \A i \in (pos + 1)..(pos + k) : IsRow(i)
          /\ k < BlockSize => (pos + k = Size \/ ~IsRow(pos + k + 1))
    BY <1>3, <1>4
<1> QED BY <1>1, <1>5 DEF Taken

\* A read takes the rows that follow the position, and at most one empty
\* line more; it only fails at the end of the file or behind an empty line.
LEMMA ReadFacts ==
    ASSUME TypeOK
    PROVE  /\ Read.ok \in BOOLEAN /\ Read.stream \in {"good", "eof", "fail"}
           /\ Read.pos \in pos..Size /\ Read.block \in Seq(1..Size)
           /\ \A j \in 1..Len(Read.block) : Read.block[j] = pos + j /\ IsRow(pos + j)
           /\ \/ Read.pos = pos + Len(Read.block)
              \/ Read.pos = pos + Len(Read.block) + 1 /\ ~IsRow(Read.pos)
           /\ Read.block # <<>> => Read.ok
           /\ ~Read.ok => \/ stream = "fail" \/ Read.pos = Size
                          \/ \E i \in 1..Size : ~IsRow(i)
           /\ Read.stream = "fail" => stream = "fail" \/ Read.pos = Size
<1> DEFINE k == Taken
           Seen(n) == [j \in 1..n |-> pos + j]
<1>1. /\ Size \in Nat /\ k \in Nat /\ pos \in 0..Size /\ pos + k <= Size
      /\ \A i \in (pos + 1)..(pos + k) : IsRow(i)
      /\ k < BlockSize => (pos + k = Size \/ ~IsRow(pos + k + 1))
      /\ BlockSize \in Nat /\ k <= BlockSize
    <2>1. BlockSize \in Nat /\ pos \in 0..Size
        BY CvleAssumption DEF TypeOK
    <2> QED BY <2>1, TakenFacts
<1>2. /\ Seen(k) \in Seq(1..Size) /\ Len(Seen(k)) = k
      /\ Seen(0) \in Seq(1..Size) /\ Len(Seen(0)) = 0
    <2>1. \A j \in 1..k : pos + j \in 1..Size
        BY <1>1
    <2> HIDE DEF k
    <2> QED BY <1>1, <2>1
<1>3. \A j \in 1..k : Seen(k)[j] = pos + j /\ IsRow(pos + j)
    BY <1>1
<1>4. k = 0 => Seen(k) = Seen(0)
    OBVIOUS
<1>5. Seen(0) = <<>>
    OBVIOUS
<1>6. Len(<<>>) = 0 /\ 1..0 = {}
    OBVIOUS
<1>7. stream \in {"good", "eof", "fail"} /\ \A p : After(p) \in {"eof", "good"}
    BY DEF TypeOK, After
<1>8. CASE stream = "fail"
    <2>1. Read = [ok |-> FALSE, block |-> Seen(0), pos |-> pos, stream |-> "fail"]
        BY <1>8 DEF Read
    <2>3. (Read.ok <=> FALSE) /\ Read.ok \in BOOLEAN
        BY <2>1
    <2>4. Read.block = Seen(0) /\ Read.pos = pos /\ Read.stream = "fail"
        BY <2>1
    <2> HIDE DEF k, Seen
    <2> QED BY <1>1, <1>2, <1>5, <1>6, <1>8, <2>3, <2>4
<1>9. CASE stream = "eof"
    <2>1. Read = [ok |-> TRUE, block |-> Seen(0), pos |-> pos, stream |-> "eof"]
        BY <1>9 DEF Read
    <2>3. (Read.ok <=> TRUE) /\ Read.ok \in BOOLEAN
        BY <2>1
    <2>4. Read.block = Seen(0) /\ Read.pos = pos /\ Read.stream = "eof"
        BY <2>1
    <2> HIDE DEF k, Seen
    <2> QED BY <1>1, <1>2, <1>5, <1>6, <1>9, <2>3, <2>4
<1>10. CASE stream = "good" /\ (k = BlockSize \/ After(pos + k) = "eof")
    <2>1. Read = [ok |-> TRUE, block |-> Seen(k), pos |-> pos + k, stream |-> After(pos + k)]
        BY <1>10 DEF Read
    <2>3. (Read.ok <=> TRUE) /\ Read.ok \in BOOLEAN
        BY <2>1
    <2>4. Read.block = Seen(k) /\ Read.pos = pos + k /\ Read.stream = After(pos + k)
        BY <2>1
    <2> HIDE DEF k, Seen
    <2>5. /\ Read.pos \in pos..Size /\ Read.pos = pos + Len(Read.block)
          /\ Read.stream # "fail" /\ Read.stream \in {"good", "eof", "fail"}
        BY <1>1, <1>2, <1>7, <2>4
    <2>6. \A j \in 1..Len(Read.block) : Read.block[j] = pos + j /\ IsRow(pos + j)
        BY <1>2, <1>3, <2>4
    <2>7. Read.block \in Seq(1..Size)
        BY <1>2, <2>4
    <2> QED BY <2>3, <2>5, <2>6, <2>7
<1>11. CASE stream = "good" /\ k # BlockSize /\ After(pos + k) # "eof"
    <2>1. CASE pos + k = Size
        <3>1. Read = [ok |-> k > 0, block |-> Seen(k), pos |-> Size, stream |-> "fail"]
            BY <1>11, <2>1 DEF Read
        <3>3. (Read.ok <=> k > 0) /\ Read.ok \in BOOLEAN
            <4> DEFINE b == k > 0
            <4>1. b \in BOOLEAN
                BY <1>1
            <4>2. Read.ok = b
                BY <3>1
            <4> HIDE DEF b
            <4>3. Read.ok \in BOOLEAN /\ (Read.ok <=> b)
                BY <4>1, <4>2
            <4> QED BY <4>3 DEF b
        <3>4. Read.block = Seen(k) /\ Read.pos = Size /\ Read.stream = "fail"
            BY <3>1
        <3> HIDE DEF k, Seen
        <3> QED BY <1>1, <1>2, <1>3, <1>4, <1>5, <1>6, <1>11, <2>1, <3>3, <3>4
    <2>2. CASE pos + k # Size
        <3>1. Read = [ok |-> k > 0, block |-> Seen(k), pos |-> pos + k + 1, stream |-> "good"]
            BY <1>11, <2>2 DEF Read
        <3>3. (Read.ok <=> k > 0) /\ Read.ok \in BOOLEAN
            <4> DEFINE b == k > 0
            <4>1. b \in BOOLEAN
                BY <1>1
            <4>2. Read.ok = b
                BY <3>1
            <4> HIDE DEF b
            <4>3. Read.ok \in BOOLEAN /\ (Read.ok <=> b)
                BY <4>1, <4>2
            <4> QED BY <4>3 DEF b
        <3>4. Read.block = Seen(k) /\ Read.pos = pos + k + 1 /\ Read.stream = "good"
            BY <3>1
        <3>2. ~IsRow(pos + k + 1) /\ pos + k + 1 \in 1..Size
            BY <1>1, <1>11, <2>2
        <3> HIDE DEF k, Seen
        <3>5. Read.pos \in pos..Size /\ Read.pos = pos + Len(Read.block) + 1 /\ ~IsRow(Read.pos)
            BY <1>1, <1>2, <3>2, <3>4
        <3>6. \A j \in 1..Len(Read.block) : Read.block[j] = pos + j /\ IsRow(pos + j)
            BY <1>2, <1>3, <3>4
        <3>7. Read.block \in Seq(1..Size) /\ (Read.block # <<>> => Read.ok)
            BY <1>1, <1>2, <1>4, <1>5, <3>3, <3>4
        <3> QED BY <1>1, <3>2, <3>3, <3>4, <3>5, <3>6, <3>7
    <2> QED BY <2>1, <2>2
<1> QED BY <1>7, <1>8, <1>9, <1>10, <1>11

\* Behind a row the rank is one more.
LEMMA RankStep ==
    ASSUME TypeOK, NEW l \in 1..Size
    PROVE  /\ Rank(l) \in Nat
           /\ Rank(l + 1) = IF IsRow(l) THEN Rank(l) + 1 ELSE Rank(l)
<1> DEFINE B == {i \in Rows : i < l}
           C == {i \in Rows : i < l + 1}
<1>1. Size \in Nat
    BY TakenFacts
<1>2. IsFiniteSet(B) /\ Cardinality(B) \in Nat
    <2>1. IsFiniteSet(1..Size)
        BY <1>1, FS_Interval
    <2>2. B \in SUBSET (1..Size)
        BY DEF Rows
    <2> HIDE DEF B
    <2> QED BY <2>1, <2>2, FS_Subset, FS_CardinalityType
<1>3. CASE IsRow(l)
    <2>1. C = B \cup {l} /\ l \notin B
        BY <1>1, <1>3 DEF Rows
    <2>2. Cardinality(C) = Cardinality(B) + 1
        <3> HIDE DEF B, C
        <3> QED BY <1>2, <2>1, FS_AddElement
    <2> QED BY <1>2, <1>3, <2>2 DEF Rank
<1>4. CASE ~IsRow(l)
    <2>1. C = B
        BY <1>1, <1>4 DEF Rows
    <2> QED BY <1>2, <1>4, <2>1 DEF Rank
<1> QED BY <1>3, <1>4

\* The ranks of the rows that a read takes follow each other.
LEMMA RankTaken ==
    ASSUME TypeOK, NEW n \in Nat, pos + n <= Size,
           \A j \in 1..n : IsRow(pos + j)
    PROVE  \A j \in 0..n : Rank(pos + 1 + j) = Rank(pos + 1) + j
<1> DEFINE S == {j \in Nat : j <= n => Rank(pos + 1 + j) = Rank(pos + 1) + j}
<1>1. Size \in Nat /\ pos \in 0..Size
    BY TakenFacts DEF TypeOK
<1>2. 0 \in S
    <2>1. Rank(pos + 1) \in Nat
        <3>1. IsFiniteSet(1..Size) /\ {i \in Rows : i < pos + 1} \in SUBSET (1..Size)
            BY <1>1, FS_Interval DEF Rows
        <3> QED BY <3>1, FS_Subset, FS_CardinalityType DEF Rank
    <2> QED BY <1>1, <2>1
<1>3. ASSUME NEW j \in S, j + 1 <= n
      PROVE  Rank(pos + 1 + (j + 1)) = Rank(pos + 1) + (j + 1)
    <2>1. pos + 1 + j \in 1..Size /\ IsRow(pos + (j + 1)) /\ pos + (j + 1) = pos + 1 + j
        BY <1>1, <1>3
    <2>2. Rank(pos + 1 + j + 1) = Rank(pos + 1 + j) + 1
        BY <2>1, RankStep
    <2>3. Rank(pos + 1 + j) = Rank(pos + 1) + j
        BY <1>3
    <2>4. Rank(pos + 1 + j) \in Nat /\ pos + 1 + j + 1 = pos + 1 + (j + 1)
        BY <1>1, <2>1, RankStep
    <2>5. Rank(pos + 1) \in Nat
        <3>1. pos + 1 \in 1..Size
            BY <1>1, <1>3
        <3> QED BY <3>1, RankStep
    <2> QED BY <2>2, <2>3, <2>4, <2>5
<1>4. S = Nat
    <2>1. \A j \in S : j + 1 \in S
        BY <1>3
    <2>2. S \in SUBSET Nat
        OBVIOUS
    <2> HIDE DEF S
    <2> QED BY <1>2, <2>1, <2>2, SetInduction
<1> QED BY <1>4

-----------------------------------------------------------------------------
(* The protocol is kept by every action *)

\* The channels and the flag of a worker that a step does not touch.
LEMMA ProtocolFrame ==
    ASSUME NEW v \in Workers, Channel(v), Flag(v), input' = input,
           toWorker'[v] = toWorker[v], toMaster'[v] = toMaster[v], wpc'[v] = wpc[v],
           v \in busy' <=> v \in busy,
           HeaderSent(v)' <=> HeaderSent(v), EndSent(v)' <=> EndSent(v)
    PROVE  Channel(v)' /\ Flag(v)'
<1>1. At(v)' = At(v) /\ (Sent(v)' <=> Sent(v)) /\ Size' = Size
    BY DEF At, Sent, Size, Lines
<1>2. Messages' = Messages /\ Answers' = Answers
    BY <1>1 DEF Messages, Answers, Result
<1>3. Channel(v)'
    BY <1>1, <1>2 DEF Channel
<1>4. Flag(v)'
    BY <1>1, <1>2 DEF Flag
<1> QED BY <1>3, <1>4

\* The types after a step of the master.
LEMMA MasterTypes ==
    ASSUME TypeOK, input' = input, eager' = eager, aborted' = aborted,
           wpc' = wpc, job' = job, rowId' = rowId, values' = values, answer' = answer,
           DOMAIN toWorker' = DOMAIN toWorker, DOMAIN toMaster' = DOMAIN toMaster,
           pos' \in 0..Size, stream' \in {"good", "eof", "fail"}, lastId' \in Nat,
           out' \in Seq(Result), busy' \subseteq Workers, rank' \in 1..(World + 1),
           mpc' \in {"header", "distribute", "collect", "drain", "stop", "done"}
    PROVE  TypeOK'
<1>1. Size' = Size
    BY DEF Size, Lines
<1> QED BY <1>1 DEF TypeOK, Result

\* The types after a step of a worker.
LEMMA WorkerTypes ==
    ASSUME TypeOK, input' = input, pos' = pos, stream' = stream, lastId' = lastId,
           out' = out, mpc' = mpc, rank' = rank, busy' = busy, eager' = eager,
           DOMAIN toWorker' = DOMAIN toWorker, DOMAIN toMaster' = DOMAIN toMaster,
           aborted' \in {"none", "worker", "order"},
           wpc' \in [Workers -> {"start", "idle", "run", "stopped"}],
           job' \in [Workers -> Seq(1..Size)], rowId' \in [Workers -> Nat],
           values' \in [Workers -> [Conditions -> Nat]],
           answer' \in [Workers -> Seq(Result)]
    PROVE  TypeOK'
<1>1. Size' = Size
    BY DEF Size, Lines
<1> QED BY <1>1 DEF TypeOK, Result

\* The messages of the master and of the workers.
LEMMA MessageKinds ==
    /\ [tag |-> "header"] \in Messages /\ [tag |-> "end"] \in Messages
    /\ \A b \in Seq(1..Size) : [tag |-> "todo", block |-> b] \in Messages
    /\ \A f \in Nat : [tag |-> "todo", first |-> f] \in Messages
    /\ \A m \in [tag : {"todo"}, block : Seq(1..Size)] :
           m.tag = "todo" /\ m.block \in Seq(1..Size)
    /\ \A m \in [tag : {"todo"}, first : Nat] : m.tag = "todo" /\ m.first \in Nat
    /\ [tag |-> "header"].tag = "header" /\ [tag |-> "end"].tag = "end"
BY DEF Messages

\* A sequence of at most one element.
LEMMA ShortSequence ==
    ASSUME NEW S, NEW c \in Seq(S), Len(c) <= 1
    PROVE  c = <<>> \/ Len(c) = 1
<1>1. c # <<>> => Len(c) \in Nat \ {0}
    BY EmptySeq
<1> DEFINE n == Len(c)
<1>2. n <= 1 /\ (c # <<>> => n \in Nat \ {0})
    BY <1>1
<1> HIDE DEF n
<1>3. c # <<>> => n = 1
    BY <1>2
<1> QED BY <1>3 DEF n

\* What is left of a channel when its first message is taken.
LEMMA FirstTaken ==
    ASSUME NEW S, NEW c \in Seq(S), c # <<>>
    PROVE  /\ Head(c) = c[1] /\ c[1] \in S
           /\ Len(c) \in Nat \ {0} /\ Tail(c) \in Seq(S) /\ Len(Tail(c)) = Len(c) - 1
           /\ \A i \in 1..(Len(c) - 1) : Tail(c)[i] = c[i + 1]
           /\ Len(c) = 1 => Tail(c) = <<>>
           /\ Len(c) = 2 => Tail(c)[1] = c[2] /\ Tail(Tail(c)) = <<>>
           /\ Len(c) = 3 => Tail(c)[1] = c[2] /\ Tail(c)[2] = c[3]
<1> DEFINE n == Len(c)
           d == Tail(c)
<1>1. Head(c) = c[1] /\ c[1] \in S
    OBVIOUS
<1>2. d \in Seq(S) /\ Len(d) = n - 1 /\ \A i \in 1..Len(d) : d[i] = c[i + 1]
    BY HeadTailProperties
<1>3. n \in Nat \ {0}
    BY EmptySeq
<1>4. n = 1 => d = <<>>
    <2> HIDE DEF d
    <2>1. n = 1 => Len(d) = 0
        BY <1>2
    <2> QED BY <1>2, <2>1, EmptySeq
<1>5. n = 2 => Tail(d) = <<>>
    <2> HIDE DEF d
    <2>1. n = 2 => Len(d) = 1
        BY <1>2
    <2>2. n = 2 => d # <<>> /\ Tail(d) \in Seq(S) /\ Len(Tail(d)) = 0
        BY <1>2, <2>1
    <2> QED BY <2>2, EmptySeq
<1>6. \A i \in 1..(n - 1) : d[i] = c[i + 1]
    BY <1>2
<1>7. (n = 2 => d[1] = c[2]) /\ (n = 3 => d[1] = c[2] /\ d[2] = c[3])
    <2> HIDE DEF d, n
    <2> QED BY <1>6
<1> QED BY <1>1, <1>2, <1>3, <1>4, <1>5, <1>6, <1>7

\* A message added to a channel.
LEMMA OneMessage ==
    ASSUME NEW S, NEW c \in Seq(S), NEW m \in S
    PROVE  /\ c \o <<m>> \in Seq(S) /\ Len(c \o <<m>>) = Len(c) + 1
           /\ \A k \in 1..Len(c) : (c \o <<m>>)[k] = c[k]
           /\ (c \o <<m>>)[Len(c) + 1] = m
<1>1. <<m>> \in Seq(S) /\ Len(<<m>>) = 1 /\ <<m>>[1] = m
    OBVIOUS
<1>2. Len(c) \in Nat
    OBVIOUS
<1> DEFINE d == <<m>>
<1>3. d \in Seq(S) /\ Len(d) = 1 /\ d[1] = m
    BY <1>1
<1> HIDE DEF d
<1>4. /\ c \o d \in Seq(S) /\ Len(c \o d) = Len(c) + 1
      /\ \A k \in 1..Len(c) : (c \o d)[k] = c[k]
      /\ (c \o d)[Len(c) + 1] = m
    BY <1>2, <1>3, ConcatProperties
<1> QED BY <1>4 DEF d

\* The two messages of a block added to a channel.
LEMMA TwoMessages ==
    ASSUME NEW S, NEW c \in Seq(S), NEW m \in S, NEW n \in S
    PROVE  /\ c \o <<m, n>> \in Seq(S) /\ Len(c \o <<m, n>>) = Len(c) + 2
           /\ \A k \in 1..Len(c) : (c \o <<m, n>>)[k] = c[k]
           /\ (c \o <<m, n>>)[Len(c) + 1] = m /\ (c \o <<m, n>>)[Len(c) + 2] = n
<1>1. <<m, n>> \in Seq(S) /\ Len(<<m, n>>) = 2 /\ <<m, n>>[1] = m /\ <<m, n>>[2] = n
    OBVIOUS
<1>2. Len(c) \in Nat
    OBVIOUS
<1> DEFINE d == <<m, n>>
<1>3. d \in Seq(S) /\ Len(d) = 2 /\ d[1] = m /\ d[2] = n
    BY <1>1
<1> HIDE DEF d
<1>4. /\ c \o d \in Seq(S) /\ Len(c \o d) = Len(c) + 2
      /\ \A k \in 1..Len(c) : (c \o d)[k] = c[k]
      /\ (c \o d)[Len(c) + 1] = m /\ (c \o d)[Len(c) + 2] = n
    <2>1. /\ c \o d \in Seq(S) /\ Len(c \o d) = Len(c) + 2
          /\ \A i \in 1..Len(c) + 2 :
                 (c \o d)[i] = IF i <= Len(c) THEN c[i] ELSE d[i - Len(c)]
        <3>1. /\ c \o d \in Seq(S) /\ Len(c \o d) = Len(c) + Len(d)
              /\ \A i \in 1..Len(c) + Len(d) :
                     (c \o d)[i] = IF i <= Len(c) THEN c[i] ELSE d[i - Len(c)]
            BY <1>3, ConcatProperties, Zenon
        <3> QED BY <1>3, <3>1, Zenon
    <2>2. /\ Len(c) + 1 \in 1..Len(c) + 2 /\ Len(c) + 1 - Len(c) = 1
          /\ Len(c) + 2 \in 1..Len(c) + 2 /\ Len(c) + 2 - Len(c) = 2
          /\ ~(Len(c) + 1 <= Len(c)) /\ ~(Len(c) + 2 <= Len(c))
        BY <1>2
    <2>3. (c \o d)[Len(c) + 1] = d[1] /\ (c \o d)[Len(c) + 2] = d[2]
        BY <2>1, <2>2
    <2> QED BY <1>2, <1>3, <2>1, <2>3
<1> QED BY <1>4 DEF d

\* Nothing has been sent and nothing is expected.
LEMMA InitProtocol == Init => ProtocolInv
<1> SUFFICES ASSUME Init PROVE ProtocolInv
    OBVIOUS
<1>1. World \in Nat \ {0} /\ input.lines \in Seq(SUBSET Conditions) /\ Size \in Nat
    BY CvleAssumption DEF Init, Size, Lines
<1>2. TypeOK
    BY <1>1 DEF Init, TypeOK, Workers
<1>3. Loops /\ aborted # "order"
    BY <1>1 DEF Init, Loops
<1>4. ASSUME NEW w \in Workers PROVE Channel(w) /\ Flag(w)
    <2>1. toWorker[w] = <<>> /\ toMaster[w] = <<>> /\ wpc[w] = "start" /\ w \notin busy
        BY DEF Init
    <2>2. ~HeaderSent(w) /\ ~EndSent(w)
        BY <1>1 DEF HeaderSent, EndSent, Init, Workers
    <2>3. At(w) = 2 /\ ~Sent(w)
        BY <2>1 DEF At, Sent
    <2> QED BY <2>1, <2>2, <2>3 DEF Channel, Flag
<1> QED BY <1>2, <1>3, <1>4 DEF ProtocolInv

\* A worker gets the header as its first message.
LEMMA SendHeaderProtocol == ProtocolInv /\ SendHeader => ProtocolInv'
<1> SUFFICES ASSUME ProtocolInv, SendHeader PROVE ProtocolInv'
    OBVIOUS
<1> USE DEF rootVars, workerVars
<1>1. World \in Nat \ {0} /\ rank \in 1..World /\ mpc = "header" /\ rank \in Workers
    BY CvleAssumption DEF SendHeader, MasterAt, ProtocolInv, TypeOK, Loops, Workers
<1>2. TypeOK'
    <2>1. rank' \in 1..(World + 1) /\ mpc' \in {"header", "distribute"}
        BY <1>1 DEF SendHeader
    <2>2. DOMAIN toWorker' = DOMAIN toWorker
        BY DEF SendHeader, Send
    <2>3. TypeOK /\ pos \in 0..Size /\ stream \in {"good", "eof", "fail"}
        BY DEF ProtocolInv, TypeOK
    <2> QED BY <2>1, <2>2, <2>3, MasterTypes DEF SendHeader, TypeOK, Result
<1>3. Loops' /\ aborted' # "order"
    BY <1>1 DEF SendHeader, Loops, ProtocolInv
<1>4. ASSUME NEW v \in Workers PROVE Channel(v)' /\ Flag(v)'
    <2>1. Channel(v) /\ Flag(v)
        BY DEF ProtocolInv
    <2>2. ~EndSent(v) /\ ~EndSent(v)'
        BY <1>1 DEF EndSent, SendHeader
    <2>3. HeaderSent(v)' <=> v <= rank
        <3>1. v \in 1..World
            BY DEF Workers
        <3>2. CASE rank = World
            BY <1>1, <3>1, <3>2 DEF SendHeader, HeaderSent
        <3>3. CASE rank # World
            BY <1>1, <3>1, <3>3 DEF SendHeader, HeaderSent
        <3> QED BY <3>2, <3>3
    <2>4. HeaderSent(v) <=> v < rank
        BY <1>1 DEF HeaderSent
    <2>5. /\ input' = input /\ toMaster'[v] = toMaster[v] /\ wpc'[v] = wpc[v] /\ busy' = busy
          /\ Size' = Size
        BY DEF SendHeader, Size, Lines
    <2>6. CASE v # rank
        <3>1. toWorker'[v] = toWorker[v]
            BY <1>1, <2>6 DEF SendHeader, Send, ProtocolInv, TypeOK
        <3>2. HeaderSent(v)' <=> HeaderSent(v)
            BY <1>1, <2>3, <2>4, <2>6 DEF Workers
        <3> QED BY <2>1, <2>2, <2>5, <3>1, <3>2, ProtocolFrame
    <2>7. CASE v = rank
        <3> DEFINE c == toWorker[v]
                   h == [tag |-> "header"]
        <3>1. ~HeaderSent(v) /\ HeaderSent(v)'
            BY <1>1, <2>3, <2>4, <2>7
        <3>2. wpc[v] = "start" /\ Len(c) = 0 /\ c \in Seq(Messages)
            BY <2>1, <3>1 DEF Channel
        <3>3. toWorker'[v] = c \o <<h>>
            BY <1>1, <2>7 DEF SendHeader, Send, ProtocolInv, TypeOK
        <3>4. h \in Messages
            BY MessageKinds
        <3>5. c \o <<h>> \in Seq(Messages) /\ Len(c \o <<h>>) = 1 /\ (c \o <<h>>)[1] = h
            BY <3>2, <3>4, OneMessage
        <3>6. Messages' = Messages /\ Answers' = Answers
            BY <2>5 DEF Messages, Answers, Result
        <3>7. At(v)' = 2 /\ At(v) = 2 /\ ~Sent(v) /\ ~Sent(v)'
            BY <2>5, <3>2, <3>3, <3>5 DEF At, Sent
        <3>8. Channel(v)'
            BY <2>2, <2>5, <3>1, <3>2, <3>3, <3>5, <3>6, <3>7 DEF Channel
        <3>9. Flag(v)'
            BY <2>1, <2>5, <3>6, <3>7 DEF Flag
        <3> QED BY <3>8, <3>9
    <2> QED BY <2>6, <2>7
<1> QED BY <1>2, <1>3, <1>4 DEF ProtocolInv

\* A worker without a block gets one.
LEMMA BlockSent ==
    ASSUME NEW w \in Workers, Channel(w), Flag(w), TypeOK,
           HeaderSent(w), ~EndSent(w), HeaderSent(w)', ~EndSent(w)',
           ~Sent(w), wpc[w] # "run", input' = input, wpc'[w] = wpc[w],
           NEW r, r.block \in Seq(1..Size),
           toWorker'[w] = toWorker[w] \o Block(r), toMaster'[w] = <<>>, w \in busy'
    PROVE  /\ Channel(w)' /\ Flag(w)' /\ At(w)' = At(w) /\ Sent(w)'
           /\ toWorker'[w][At(w)] = [tag |-> "todo", block |-> r.block]
           /\ toWorker'[w][At(w) + 1] = [tag |-> "todo", first |-> lastId]
<1> DEFINE c == toWorker[w]
           b == [tag |-> "todo", block |-> r.block]
           f == [tag |-> "todo", first |-> lastId]
           d == c \o <<b, f>>
<1>1. lastId \in Nat /\ Size' = Size
    BY DEF TypeOK, Size, Lines
<1>2. b \in Messages /\ f \in Messages
    BY <1>1, MessageKinds
<1>3. c \in Seq(Messages) /\ wpc[w] # "stopped" /\ At(w) \in {1, 2} /\ Len(c) = At(w) - 1
    BY DEF Channel, At, Sent
<1>4. toWorker'[w] = d
    BY DEF Block
<1>5. /\ d \in Seq(Messages) /\ Len(d) = Len(c) + 2
      /\ \A k \in 1..Len(c) : d[k] = c[k]
      /\ d[Len(c) + 1] = b /\ d[Len(c) + 2] = f
    <2> HIDE DEF b, f, c
    <2> QED BY <1>2, <1>3, TwoMessages
<1>6. Len(d) = At(w) + 1 /\ d[At(w)] = b /\ d[At(w) + 1] = f
    <2> HIDE DEF b, f, c, d
    <2>1. Len(c) + 1 = At(w) /\ Len(c) + 2 = At(w) + 1
        BY <1>3
    <2> QED BY <1>5, <2>1
<1>7. At(w)' = At(w) /\ Sent(w)'
    BY <1>4, <1>6 DEF At, Sent
<1>8. Messages' = Messages /\ Answers' = Answers
    BY <1>1 DEF Messages, Answers, Result
<1>9. wpc[w] = "start" => d[1] = [tag |-> "header"]
    <2> SUFFICES ASSUME wpc[w] = "start" PROVE c[1] = [tag |-> "header"] /\ 1 \in 1..Len(c)
        BY <1>5
    <2> QED BY <1>3 DEF Channel, At
<1>10. b \in [tag : {"todo"}, block : Seq(1..Size)] /\ f \in [tag : {"todo"}, first : Nat]
    BY <1>1
<1> HIDE DEF b, f, d
<1>11. Channel(w)'
    BY <1>1, <1>3, <1>4, <1>5, <1>6, <1>7, <1>8, <1>9, <1>10 DEF Channel
<1>12. Flag(w)'
    BY <1>7, <1>8 DEF Flag
<1> QED BY <1>4, <1>6, <1>7, <1>11, <1>12 DEF b, f

\* The first blocks: only workers that have none get one.
LEMMA DistributeProtocol == ProtocolInv /\ Distribute => ProtocolInv'
<1> SUFFICES ASSUME ProtocolInv, Distribute PROVE ProtocolInv'
    OBVIOUS
<1> USE DEF rootVars, workerVars
<1> DEFINE r == Read
<1>1. World \in Nat \ {0} /\ rank \in 1..World /\ mpc = "distribute" /\ rank \in Workers
    BY CvleAssumption DEF Distribute, MasterAt, ProtocolInv, TypeOK, Loops, Workers
<1>2. TypeOK /\ busy \subseteq Workers /\ pos \in 0..Size /\ lastId \in Nat
    BY DEF ProtocolInv, TypeOK
<1>3. /\ r.block \in Seq(1..Size) /\ r.pos \in pos..Size
      /\ r.stream \in {"good", "eof", "fail"} /\ Size \in Nat
    BY <1>2, ReadFacts, TakenFacts
<1>4. /\ pos' = r.pos /\ stream' = r.stream /\ lastId' = lastId + Len(r.block)
      /\ toWorker' = IF r.ok THEN [toWorker EXCEPT ![rank] = @ \o Block(r)] ELSE toWorker
      /\ busy' = IF r.ok THEN busy \cup {rank} ELSE busy
      /\ mpc' = IF r.ok /\ rank < World THEN mpc ELSE "collect"
      /\ rank' = IF r.ok /\ rank < World THEN rank + 1 ELSE 1
    BY DEF Distribute, Advance, Send
<1> HIDE DEF r
<1>5. TypeOK'
    <2>1. rank' \in 1..(World + 1) /\ mpc' \in {"distribute", "collect"}
        BY <1>1, <1>4
    <2>2. DOMAIN toWorker' = DOMAIN toWorker
        BY <1>4
    <2>3. pos' \in 0..Size /\ stream' \in {"good", "eof", "fail"} /\ lastId' \in Nat
        BY <1>2, <1>3, <1>4
    <2>4. busy' \subseteq Workers
        BY <1>1, <1>2, <1>4
    <2> QED BY <1>2, <2>1, <2>2, <2>3, <2>4, MasterTypes DEF Distribute, TypeOK, Result
<1>6. \A w \in busy : w < rank
    BY <1>1 DEF ProtocolInv, Loops
<1>7. Loops' /\ aborted' # "order"
    <2>1. aborted' # "order"
        BY DEF Distribute, ProtocolInv
    <2>2. \A w \in busy' : w \in 1..World
        BY <1>1, <1>2, <1>4 DEF Workers
    <2>3. CASE r.ok /\ rank < World
        BY <1>1, <1>4, <1>6, <2>1, <2>2, <2>3 DEF Loops, Workers
    <2>4. CASE ~(r.ok /\ rank < World)
        BY <1>1, <1>4, <2>1, <2>4 DEF Loops
    <2> QED BY <2>1, <2>3, <2>4
<1>8. ASSUME NEW v \in Workers PROVE Channel(v)' /\ Flag(v)'
    <2>1. Channel(v) /\ Flag(v)
        BY DEF ProtocolInv
    <2>2. ~EndSent(v) /\ ~EndSent(v)' /\ HeaderSent(v) /\ HeaderSent(v)'
        BY <1>1, <1>4 DEF EndSent, HeaderSent
    <2>3. input' = input /\ toMaster'[v] = toMaster[v] /\ wpc'[v] = wpc[v]
        BY DEF Distribute
    <2>4. CASE ~r.ok \/ v # rank
        <3>1. toWorker'[v] = toWorker[v] /\ (v \in busy' <=> v \in busy)
            BY <1>4, <2>4 DEF ProtocolInv, TypeOK
        <3> QED BY <2>1, <2>2, <2>3, <3>1, ProtocolFrame
    <2>5. CASE r.ok /\ v = rank
        <3>1. v \notin busy
            BY <1>1, <1>6, <2>5
        <3>2. ~Sent(v) /\ wpc[v] # "run" /\ Len(toMaster[v]) # 1
            BY <2>1, <3>1 DEF Flag
        <3>3. toMaster[v] = <<>>
            <4>1. toMaster[v] \in Seq(Answers) /\ Len(toMaster[v]) <= 1
                BY <2>1 DEF Flag
            <4> QED BY <3>2, <4>1, ShortSequence
        <3>4. toWorker'[v] = toWorker[v] \o Block(r) /\ v \in busy'
            BY <1>4, <2>5 DEF ProtocolInv, TypeOK
        <3> QED BY <1>2, <1>3, <2>1, <2>2, <2>3, <3>2, <3>3, <3>4, BlockSent
    <2> QED BY <2>4, <2>5
<1> QED BY <1>5, <1>7, <1>8 DEF ProtocolInv

\* The master takes the only answer of a worker.
LEMMA ReceiveFacts ==
    ASSUME NEW w \in Workers, ProtocolInv, Receive(w)
    PROVE  /\ Len(toMaster[w]) = 1 /\ w \in busy /\ ~Sent(w) /\ wpc[w] # "run"
           /\ Head(toMaster[w]) = toMaster[w][1] /\ toMaster[w][1] \in Answers
           /\ toMaster[w][1].rows \in Seq(Result)
           /\ toMaster'[w] = <<>> /\ DOMAIN toMaster' = DOMAIN toMaster
           /\ \A v \in Workers : v # w => toMaster'[v] = toMaster[v]
           /\ out' = out \o toMaster[w][1].rows
<1>1. Flag(w) /\ DOMAIN toMaster = Workers
    BY DEF ProtocolInv, TypeOK
<1> DEFINE c == toMaster[w]
<1>2. c \in Seq(Answers) /\ Len(c) <= 1 /\ c # <<>>
    BY <1>1 DEF Flag, Receive
<1>3. Len(c) = 1
    <2> HIDE DEF c
    <2> QED BY <1>2, ShortSequence
<1>4. Head(c) = c[1] /\ c[1] \in Answers /\ Tail(c) = <<>>
    <2>1. Tail(c) \in Seq(Answers) /\ Len(Tail(c)) = 0
        BY <1>2, <1>3
    <2>2. Tail(c) = <<>>
        BY <2>1, EmptySeq
    <2> HIDE DEF c
    <2> QED BY <1>2, <1>3, <2>2
<1>5. /\ toMaster'[w] = <<>> /\ DOMAIN toMaster' = DOMAIN toMaster
      /\ \A v \in Workers : v # w => toMaster'[v] = toMaster[v]
    BY <1>1, <1>4 DEF Receive
<1>6. out' = out \o c[1].rows
    BY <1>4 DEF Receive
<1>7. c[1].rows \in Seq(Result)
    BY <1>4 DEF Answers
<1> QED BY <1>1, <1>3, <1>4, <1>5, <1>6, <1>7 DEF Flag

\* The flag of a worker is cleared when its answer is taken and no block is
\* sent.
LEMMA FlagCleared ==
    ASSUME NEW w \in Workers, Channel(w), Flag(w), input' = input,
           ~Sent(w), wpc[w] # "run", toWorker'[w] = toWorker[w], wpc'[w] = wpc[w],
           HeaderSent(w)' <=> HeaderSent(w), EndSent(w)' <=> EndSent(w),
           toMaster'[w] = <<>>, w \notin busy'
    PROVE  Channel(w)' /\ Flag(w)'
<1>1. At(w)' = At(w) /\ ~Sent(w)' /\ Size' = Size
    BY DEF At, Sent, Size, Lines
<1>2. Messages' = Messages /\ Answers' = Answers
    BY <1>1 DEF Messages, Answers, Result
<1>3. Channel(w)'
    BY <1>1, <1>2 DEF Channel
<1>4. <<>> \in Seq(Answers) /\ Len(<<>>) = 0
    OBVIOUS
<1>5. Flag(w)'
    BY <1>1, <1>2, <1>4 DEF Flag
<1> QED BY <1>3, <1>5

\* A worker that answered gets another block, or its flag is cleared.
LEMMA CollectProtocol ==
    ASSUME NEW w \in Workers, ProtocolInv, Collect(w) PROVE ProtocolInv'
<1> USE DEF rootVars, workerVars
<1> DEFINE r == Read
<1>1. World \in Nat \ {0} /\ rank = 1 /\ mpc = "collect"
    BY CvleAssumption DEF Collect, MasterAt, ProtocolInv, TypeOK, Loops, Workers
<1>2. TypeOK /\ busy \subseteq Workers /\ pos \in 0..Size /\ lastId \in Nat /\ out \in Seq(Result)
    BY DEF ProtocolInv, TypeOK, Result
<1>3. /\ r.block \in Seq(1..Size) /\ r.pos \in pos..Size
      /\ r.stream \in {"good", "eof", "fail"} /\ Size \in Nat
    BY <1>2, ReadFacts, TakenFacts
<1>4. /\ pos' = r.pos /\ stream' = r.stream /\ lastId' = lastId + Len(r.block)
      /\ toWorker' = IF r.block # <<>> THEN [toWorker EXCEPT ![w] = @ \o Block(r)] ELSE toWorker
      /\ busy' = IF r.block # <<>> THEN busy \cup {w} ELSE busy \ {w}
      /\ mpc' \in {"collect", "drain"} /\ rank' = rank
    BY DEF Collect, Advance, Send
<1> HIDE DEF r
<1>5. /\ Len(toMaster[w]) = 1 /\ w \in busy /\ ~Sent(w) /\ wpc[w] # "run"
      /\ toMaster[w][1].rows \in Seq(Result)
      /\ toMaster'[w] = <<>> /\ DOMAIN toMaster' = DOMAIN toMaster
      /\ \A v \in Workers : v # w => toMaster'[v] = toMaster[v]
      /\ out' = out \o toMaster[w][1].rows
    BY ReceiveFacts DEF Collect
<1>6. TypeOK'
    <2>1. rank' \in 1..(World + 1)
        BY <1>1, <1>4
    <2>2. DOMAIN toWorker' = DOMAIN toWorker
        BY <1>4
    <2>3. pos' \in 0..Size /\ stream' \in {"good", "eof", "fail"} /\ lastId' \in Nat
        BY <1>2, <1>3, <1>4
    <2>4. busy' \subseteq Workers
        BY <1>2, <1>4
    <2>5. out' \in Seq(Result)
        BY <1>2, <1>5, ConcatProperties
    <2> QED BY <1>2, <1>4, <1>5, <2>1, <2>2, <2>3, <2>4, <2>5, MasterTypes DEF Collect
<1>7. Loops' /\ aborted' # "order"
    BY <1>1, <1>4 DEF Loops, Collect, ProtocolInv
<1>8. ASSUME NEW v \in Workers PROVE Channel(v)' /\ Flag(v)'
    <2>1. Channel(v) /\ Flag(v)
        BY DEF ProtocolInv
    <2>2. ~EndSent(v) /\ ~EndSent(v)' /\ HeaderSent(v) /\ HeaderSent(v)'
        BY <1>1, <1>4 DEF EndSent, HeaderSent
    <2>3. input' = input /\ wpc'[v] = wpc[v] /\ Size' = Size
        BY DEF Collect, Size, Lines
    <2>4. CASE v # w
        <3>1. toWorker'[v] = toWorker[v] /\ (v \in busy' <=> v \in busy)
            BY <1>4, <2>4 DEF ProtocolInv, TypeOK
        <3> QED BY <1>5, <2>1, <2>2, <2>3, <2>4, <3>1, ProtocolFrame
    <2>5. CASE v = w /\ r.block # <<>>
        <3>1. toWorker'[v] = toWorker[v] \o Block(r) /\ v \in busy'
            BY <1>4, <2>5 DEF ProtocolInv, TypeOK
        <3> QED BY <1>2, <1>3, <1>5, <2>1, <2>2, <2>3, <2>5, <3>1, BlockSent
    <2>6. CASE v = w /\ r.block = <<>>
        <3>1. toWorker'[v] = toWorker[v] /\ v \notin busy'
            BY <1>4, <2>6
        <3> QED BY <1>5, <2>1, <2>2, <2>3, <2>6, <3>1, FlagCleared
    <2> QED BY <2>4, <2>5, <2>6
<1> QED BY <1>6, <1>7, <1>8 DEF ProtocolInv

\* The last answers clear the flags.
LEMMA DrainProtocol ==
    ASSUME NEW w \in Workers, ProtocolInv, Drain(w) PROVE ProtocolInv'
<1> USE DEF rootVars, workerVars
<1>1. TypeOK /\ out \in Seq(Result)
    BY DEF ProtocolInv, TypeOK, Result
<1>2. /\ mpc = "drain" /\ mpc' = mpc /\ rank' = rank /\ busy' = busy \ {w}
      /\ toWorker' = toWorker /\ input' = input /\ wpc' = wpc
    BY DEF Drain, MasterAt
<1>3. /\ Len(toMaster[w]) = 1 /\ w \in busy /\ ~Sent(w) /\ wpc[w] # "run"
      /\ toMaster[w][1].rows \in Seq(Result)
      /\ toMaster'[w] = <<>> /\ DOMAIN toMaster' = DOMAIN toMaster
      /\ \A v \in Workers : v # w => toMaster'[v] = toMaster[v]
      /\ out' = out \o toMaster[w][1].rows
    BY ReceiveFacts DEF Drain
<1>4. TypeOK'
    <2>1. out' \in Seq(Result)
        BY <1>1, <1>3, ConcatProperties
    <2>2. /\ pos' \in 0..Size /\ stream' \in {"good", "eof", "fail"} /\ lastId' \in Nat
          /\ rank' \in 1..(World + 1) /\ busy' \subseteq Workers
        BY <1>1, <1>2 DEF Drain, TypeOK
    <2> QED BY <1>1, <1>2, <1>3, <2>1, <2>2, MasterTypes DEF Drain
<1>5. Loops' /\ aborted' # "order"
    BY <1>2 DEF Loops, Drain, ProtocolInv
<1>6. ASSUME NEW v \in Workers PROVE Channel(v)' /\ Flag(v)'
    <2>1. Channel(v) /\ Flag(v)
        BY DEF ProtocolInv
    <2>2. (EndSent(v)' <=> EndSent(v)) /\ (HeaderSent(v)' <=> HeaderSent(v))
        BY <1>2 DEF EndSent, HeaderSent
    <2>3. CASE v # w
        BY <1>2, <1>3, <2>1, <2>2, <2>3, ProtocolFrame
    <2>4. CASE v = w
        BY <1>2, <1>3, <2>1, <2>2, <2>4, FlagCleared
    <2> QED BY <2>3, <2>4
<1> QED BY <1>4, <1>5, <1>6 DEF ProtocolInv

\* The end is the last message of a worker that has no block.
LEMMA SendEndProtocol == ProtocolInv /\ SendEnd => ProtocolInv'
<1> SUFFICES ASSUME ProtocolInv, SendEnd PROVE ProtocolInv'
    OBVIOUS
<1> USE DEF rootVars, workerVars
<1>1. /\ World \in Nat \ {0} /\ rank \in 1..World /\ rank \in Workers
      /\ mpc \in {"drain", "stop"} /\ (mpc = "drain" => rank = 1)
    BY CvleAssumption DEF SendEnd, MasterAt, ProtocolInv, TypeOK, Loops, Workers
<1>2. busy = {}
    BY DEF SendEnd, MasterAt, ProtocolInv, Loops
<1>3. /\ IF rank = World THEN mpc' = "done" /\ rank' = rank ELSE mpc' = "stop" /\ rank' = rank + 1
      /\ busy' = busy /\ input' = input /\ toMaster' = toMaster /\ wpc' = wpc
      /\ aborted' = aborted
      /\ toWorker' = [toWorker EXCEPT ![rank] = @ \o <<[tag |-> "end"]>>]
    BY DEF SendEnd, Send
<1>4. TypeOK'
    <2>1. rank' \in 1..(World + 1) /\ mpc' \in {"stop", "done"}
        BY <1>1, <1>3
    <2>2. DOMAIN toWorker' = DOMAIN toWorker
        BY <1>3
    <2>3. TypeOK /\ pos \in 0..Size /\ stream \in {"good", "eof", "fail"}
        BY DEF ProtocolInv, TypeOK
    <2> QED BY <2>1, <2>2, <2>3, MasterTypes DEF SendEnd, TypeOK, Result
<1>5. Loops' /\ aborted' # "order"
    BY <1>1, <1>2, <1>3 DEF Loops, ProtocolInv
<1>6. ASSUME NEW v \in Workers PROVE Channel(v)' /\ Flag(v)'
    <2>1. Channel(v) /\ Flag(v)
        BY DEF ProtocolInv
    <2>2. v \in 1..World
        BY DEF Workers
    <2>3. HeaderSent(v) /\ HeaderSent(v)'
        BY <1>1, <1>3 DEF HeaderSent
    <2>4. EndSent(v) <=> v < rank
        BY <1>1, <2>2 DEF EndSent
    <2>5. EndSent(v)' <=> v <= rank
        <3>1. CASE rank = World
            BY <1>3, <2>2, <3>1 DEF EndSent
        <3>2. CASE rank # World
            BY <1>1, <1>3, <2>2, <3>2 DEF EndSent
        <3> QED BY <3>1, <3>2
    <2>6. CASE v # rank
        <3>1. toWorker'[v] = toWorker[v]
            BY <1>3, <2>6 DEF ProtocolInv, TypeOK
        <3>2. EndSent(v)' <=> EndSent(v)
            BY <1>1, <2>2, <2>4, <2>5, <2>6
        <3> QED BY <1>3, <2>1, <2>3, <3>1, <3>2, ProtocolFrame
    <2>7. CASE v = rank
        <3> DEFINE c == toWorker[v]
                   e == [tag |-> "end"]
        <3>1. ~EndSent(v) /\ EndSent(v)'
            BY <1>1, <2>4, <2>5, <2>7
        <3>2. v \notin busy /\ v \notin busy'
            BY <1>2, <1>3
        <3>3. ~Sent(v) /\ wpc[v] # "run" /\ Len(toMaster[v]) # 1
            BY <2>1, <3>2 DEF Flag
        <3>4. c \in Seq(Messages) /\ At(v) \in {1, 2} /\ Len(c) = At(v) - 1 /\ wpc[v] # "stopped"
            BY <2>1, <2>3, <3>1, <3>3 DEF Channel, Sent, At
        <3>5. e \in Messages
            BY MessageKinds
        <3>6. toWorker'[v] = c \o <<e>>
            BY <1>3, <2>7 DEF ProtocolInv, TypeOK
        <3>7. /\ c \o <<e>> \in Seq(Messages) /\ Len(c \o <<e>>) = Len(c) + 1
              /\ \A k \in 1..Len(c) : (c \o <<e>>)[k] = c[k]
              /\ (c \o <<e>>)[Len(c) + 1] = e
            BY <3>4, <3>5, OneMessage
        <3> DEFINE d == c \o <<e>>
        <3>8. /\ d \in Seq(Messages) /\ Len(d) = At(v) /\ d[At(v)] = e
              /\ \A k \in 1..Len(c) : d[k] = c[k]
            <4>1. Len(c) + 1 = At(v)
                BY <3>4
            <4> QED BY <3>7, <4>1
        <3>9. wpc[v] = "start" => d[1] = [tag |-> "header"]
            <4> SUFFICES ASSUME wpc[v] = "start"
                         PROVE  c[1] = [tag |-> "header"] /\ 1 \in 1..Len(c)
                BY <3>8
            <4> QED BY <2>1, <2>3, <3>4 DEF Channel, At
        <3>10. Size' = Size
            BY <1>3 DEF Size, Lines
        <3>11. Messages' = Messages /\ Answers' = Answers
            BY <3>10 DEF Messages, Answers, Result
        <3>12. At(v)' = At(v) /\ ~Sent(v)'
            <4>1. At(v)' = At(v)
                BY <1>3 DEF At
            <4>2. toWorker'[v] = d
                BY <3>6
            <4> HIDE DEF d
            <4> QED BY <3>4, <3>8, <4>1, <4>2 DEF Sent
        <3>13. toWorker'[v] = d
            BY <3>6
        <3> HIDE DEF d
        <3>14. Channel(v)'
            BY <1>3, <2>3, <3>1, <3>3, <3>4, <3>8, <3>9, <3>10, <3>11, <3>12, <3>13 DEF Channel
        <3>15. Flag(v)'
            BY <1>3, <2>1, <3>2, <3>3, <3>11, <3>12 DEF Flag
        <3> QED BY <3>14, <3>15
    <2> QED BY <2>6, <2>7
<1> QED BY <1>4, <1>5, <1>6 DEF ProtocolInv

\* A step of a worker leaves the loops and the other workers alone.
LEMMA WorkerFrame ==
    ASSUME NEW w \in Workers, ProtocolInv, TypeOK', Channel(w)', Flag(w)',
           input' = input, mpc' = mpc, rank' = rank, busy' = busy, aborted' # "order",
           \A v \in Workers : v # w => /\ toWorker'[v] = toWorker[v] /\ wpc'[v] = wpc[v]
                                       /\ toMaster'[v] = toMaster[v]
    PROVE  ProtocolInv'
<1>1. Loops'
    BY DEF Loops, ProtocolInv
<1>2. ASSUME NEW v \in Workers PROVE Channel(v)' /\ Flag(v)'
    <2>1. CASE v = w
        BY <2>1
    <2>2. CASE v # w
        <3>1. (EndSent(v)' <=> EndSent(v)) /\ (HeaderSent(v)' <=> HeaderSent(v))
            BY DEF EndSent, HeaderSent
        <3> QED BY <2>2, <3>1, ProtocolFrame DEF ProtocolInv
    <2> QED BY <2>1, <2>2
<1> QED BY <1>1, <1>2 DEF ProtocolInv

\* The first message of a worker is the header.
LEMMA RecvHeaderFacts ==
    ASSUME NEW w \in Workers, ProtocolInv, RecvHeader(w)
    PROVE  /\ HeaderSent(w) /\ Message(w).tag = "header" /\ aborted' = aborted
           /\ wpc[w] = "start" /\ wpc' = [wpc EXCEPT ![w] = "idle"]
           /\ toWorker' = [toWorker EXCEPT ![w] = Tail(@)]
           /\ toWorker[w] \in Seq(Messages) /\ toWorker[w] # <<>>
<1>1. Channel(w) /\ wpc[w] = "start" /\ toWorker[w] # <<>>
    BY DEF ProtocolInv, RecvHeader, WorkerAt
<1>2. toWorker[w] \in Seq(Messages)
    BY <1>1 DEF Channel
<1>3. HeaderSent(w)
    <2>1. Len(toWorker[w]) # 0
        BY <1>1, <1>2, EmptySeq
    <2> QED BY <1>1, <2>1 DEF Channel
<1>4. toWorker[w][1] = [tag |-> "header"] /\ Head(toWorker[w]) = toWorker[w][1]
    BY <1>1, <1>2, <1>3 DEF Channel
<1>5. Message(w).tag = "header"
    BY <1>4 DEF Message
<1> QED BY <1>1, <1>2, <1>3, <1>5 DEF RecvHeader

\* The header is taken from the channel.
LEMMA RecvHeaderProtocol ==
    ASSUME NEW w \in Workers, ProtocolInv, RecvHeader(w) PROVE ProtocolInv'
<1> USE DEF rootVars, workerVars
<1> DEFINE c == toWorker[w]
           d == Tail(c)
<1>1. /\ HeaderSent(w) /\ aborted' = aborted
      /\ wpc[w] = "start" /\ wpc' = [wpc EXCEPT ![w] = "idle"]
      /\ toWorker' = [toWorker EXCEPT ![w] = Tail(@)]
      /\ c \in Seq(Messages) /\ c # <<>>
    BY RecvHeaderFacts
<1>2. /\ TypeOK /\ Channel(w) /\ Flag(w) /\ DOMAIN toWorker = Workers
      /\ wpc \in [Workers -> {"start", "idle", "run", "stopped"}]
    BY DEF ProtocolInv, TypeOK
<1>3. toWorker'[w] = d /\ wpc'[w] = "idle" /\ DOMAIN toWorker' = DOMAIN toWorker
    BY <1>1, <1>2
<1>4. /\ input' = input /\ mpc' = mpc /\ rank' = rank /\ busy' = busy /\ toMaster' = toMaster
      /\ \A v \in Workers : v # w => toWorker'[v] = toWorker[v] /\ wpc'[v] = wpc[v]
    BY <1>1, <1>2 DEF RecvHeader
<1>5. TypeOK'
    <2>1. wpc' \in [Workers -> {"start", "idle", "run", "stopped"}]
        BY <1>1, <1>2
    <2> QED BY <1>1, <1>2, <1>3, <2>1, WorkerTypes DEF RecvHeader, TypeOK, Result
<1>6. /\ d \in Seq(Messages) /\ Len(d) = Len(c) - 1
      /\ Len(c) = 2 => d[1] = c[2]
      /\ Len(c) = 3 => d[1] = c[2] /\ d[2] = c[3]
    BY <1>1, FirstTaken
<1>7. Len(c) \in 1..3 /\ At(w) = 2 /\ At(w)' = 1
    BY <1>1, <1>2, <1>3 DEF Channel, At
<1>8. /\ (EndSent(w)' <=> EndSent(w)) /\ (HeaderSent(w)' <=> HeaderSent(w)) /\ Size' = Size
      /\ aborted' # "order"
    BY <1>1, <1>4 DEF EndSent, HeaderSent, Size, Lines, ProtocolInv
<1>9. Messages' = Messages /\ Answers' = Answers
    BY <1>8 DEF Messages, Answers, Result
<1> HIDE DEF d
<1>10. Sent(w)' <=> Sent(w)
    BY <1>3, <1>6, <1>7 DEF Sent
<1>11. Channel(w)'
    <2>1. \/ Len(c) = 1 /\ Len(d) = 0
          \/ Len(c) = 2 /\ Len(d) = 1
          \/ Len(c) = 3 /\ Len(d) = 2
        BY <1>6, <1>7
    <2>4. /\ Len(c) = 2 => c[2] = [tag |-> "end"] /\ EndSent(w)
          /\ Len(c) = 3 => /\ c[2] \in [tag : {"todo"}, block : Seq(1..Size)]
                           /\ c[3] \in [tag : {"todo"}, first : Nat]
          /\ EndSent(w) => Len(c) = 2
        BY <1>1, <1>2, <1>7 DEF Channel
    <2> HIDE DEF c
    <2>5. EndSent(w) => Len(d) = 1
        BY <2>1, <2>4
    <2>6. /\ Len(d) = 1 => d[1] = [tag |-> "end"] /\ EndSent(w)
          /\ Len(d) = 2 => /\ d[1] \in [tag : {"todo"}, block : Seq(1..Size)]
                           /\ d[2] \in [tag : {"todo"}, first : Nat]
        BY <1>6, <2>1, <2>4
    <2>7. Len(d) \in 0..2 /\ d \in Seq(Messages)
        BY <1>6, <2>1
    <2>8. Len(d) \in 1 - 1 .. 1 + 1 /\ wpc'[w] = "idle" /\ HeaderSent(w)'
        BY <1>1, <1>3, <1>8, <2>7
    <2> QED BY <1>3, <1>7, <1>8, <1>9, <2>5, <2>6, <2>7, <2>8 DEF Channel
<1>12. Flag(w)'
    BY <1>1, <1>2, <1>3, <1>4, <1>9, <1>10 DEF Flag
<1> QED BY <1>4, <1>5, <1>8, <1>11, <1>12, WorkerFrame

\* The messages of a block are the only ones in the channel.
LEMMA RecvBlockFacts ==
    ASSUME NEW w \in Workers, ProtocolInv, RecvBlock(w)
    PROVE  /\ wpc[w] = "idle" /\ Sent(w) /\ At(w) = 1 /\ Len(toWorker[w]) = 2
           /\ toWorker[w] \in Seq(Messages)
           /\ Message(w) = toWorker[w][1]
           /\ Message(w).block \in Seq(1..Size) /\ toWorker[w][2].first \in Nat
           /\ toWorker' = [toWorker EXCEPT ![w] = <<>>]
<1> DEFINE c == toWorker[w]
<1>1. Channel(w) /\ wpc[w] = "idle" /\ Len(c) >= 2 /\ At(w) = 1
    BY DEF ProtocolInv, RecvBlock, WorkerAt, At
<1>2. c \in Seq(Messages) /\ Len(c) \in Nat
    BY <1>1 DEF Channel
<1>3. Len(c) = 2
    <2>1. Len(c) \in 0..2
        BY <1>1 DEF Channel
    <2> QED BY <1>1, <2>1
<1>4. c[1] \in [tag : {"todo"}, block : Seq(1..Size)] /\ c[2] \in [tag : {"todo"}, first : Nat]
    BY <1>1, <1>3 DEF Channel
<1>5. Head(c) = c[1] /\ Tail(Tail(c)) = <<>>
    <2>1. c # <<>>
        BY <1>3
    <2> QED BY <1>2, <1>3, <2>1, FirstTaken
<1>6. c[1].block \in Seq(1..Size) /\ c[2].first \in Nat
    BY <1>4, MessageKinds
<1>7. toWorker' = [toWorker EXCEPT ![w] = <<>>]
    BY <1>5 DEF RecvBlock
<1> QED BY <1>1, <1>2, <1>3, <1>5, <1>6, <1>7 DEF Message, Sent

\* A worker starts the block it received.
LEMMA RecvBlockProtocol ==
    ASSUME NEW w \in Workers, ProtocolInv, RecvBlock(w) PROVE ProtocolInv'
<1> USE DEF rootVars, workerVars
<1>1. /\ wpc[w] = "idle" /\ Sent(w) /\ At(w) = 1
      /\ Message(w).block \in Seq(1..Size) /\ toWorker[w][2].first \in Nat
      /\ toWorker' = [toWorker EXCEPT ![w] = <<>>]
    BY RecvBlockFacts
<1>2. /\ TypeOK /\ Channel(w) /\ Flag(w) /\ DOMAIN toWorker = Workers
      /\ wpc \in [Workers -> {"start", "idle", "run", "stopped"}]
      /\ job \in [Workers -> Seq(1..Size)] /\ rowId \in [Workers -> Nat]
      /\ answer \in [Workers -> Seq(Result)]
    BY DEF ProtocolInv, TypeOK, Result
<1>3. /\ toWorker'[w] = <<>> /\ wpc'[w] = "run" /\ DOMAIN toWorker' = DOMAIN toWorker
      /\ input' = input /\ mpc' = mpc /\ rank' = rank /\ busy' = busy
      /\ toMaster' = toMaster /\ aborted' = aborted
      /\ \A v \in Workers : v # w => toWorker'[v] = toWorker[v] /\ wpc'[v] = wpc[v]
    BY <1>1, <1>2 DEF RecvBlock
<1>4. TypeOK'
    <2>1. wpc' \in [Workers -> {"start", "idle", "run", "stopped"}]
        BY <1>2 DEF RecvBlock
    <2>2. job' \in [Workers -> Seq(1..Size)]
        BY <1>1, <1>2 DEF RecvBlock
    <2>3. rowId' \in [Workers -> Nat]
        BY <1>1, <1>2 DEF RecvBlock
    <2>4. answer' \in [Workers -> Seq(Result)]
        BY <1>2 DEF RecvBlock
    <2>5. /\ aborted' \in {"none", "worker", "order"}
          /\ values' \in [Workers -> [Conditions -> Nat]]
        BY <1>3 DEF RecvBlock, ProtocolInv, TypeOK
    <2> QED BY <1>2, <1>3, <2>1, <2>2, <2>3, <2>4, <2>5, WorkerTypes DEF RecvBlock
<1>5. /\ (EndSent(w)' <=> EndSent(w)) /\ HeaderSent(w) /\ HeaderSent(w)' /\ Size' = Size
      /\ ~EndSent(w) /\ aborted' # "order"
    BY <1>1, <1>2, <1>3 DEF EndSent, HeaderSent, Size, Lines, ProtocolInv, Channel, Sent
<1>6. Messages' = Messages /\ Answers' = Answers
    BY <1>5 DEF Messages, Answers, Result
<1>7. At(w)' = 1 /\ ~Sent(w)' /\ <<>> \in Seq(Messages) /\ Len(<<>>) = 0
    BY <1>3 DEF At, Sent
<1>8. Channel(w)'
    BY <1>3, <1>5, <1>6, <1>7 DEF Channel
<1>9. Flag(w)'
    BY <1>1, <1>2, <1>3, <1>6, <1>7 DEF Flag
<1> QED BY <1>3, <1>4, <1>5, <1>8, <1>9, WorkerFrame

\* A message that is no block is the end.
LEMMA RecvEndProtocol ==
    ASSUME NEW w \in Workers, ProtocolInv, RecvEnd(w) PROVE ProtocolInv'
<1> USE DEF rootVars, workerVars
<1> DEFINE c == toWorker[w]
<1>1. Channel(w) /\ Flag(w) /\ wpc[w] = "idle" /\ c # <<>> /\ Message(w).tag # "todo" /\ At(w) = 1
    BY DEF ProtocolInv, RecvEnd, WorkerAt, At
<1>2. c \in Seq(Messages)
    BY <1>1 DEF Channel
<1>3. Head(c) = c[1] /\ Len(c) \in Nat \ {0} /\ (Len(c) = 1 => Tail(c) = <<>>)
    BY <1>1, <1>2, FirstTaken
<1>4. Len(c) = 1 /\ c[1] = [tag |-> "end"] /\ EndSent(w) /\ HeaderSent(w)
    <2>1. Len(c) = 2 => c[1] \in [tag : {"todo"}, block : Seq(1..Size)]
        BY <1>1 DEF Channel
    <2>2. Len(c) # 2
        BY <1>1, <1>3, <2>1, MessageKinds DEF Message
    <2>3. Len(c) \in 0..2 /\ HeaderSent(w)
        BY <1>1, <1>3 DEF Channel
    <2>4. Len(c) = 1
        BY <1>3, <2>2, <2>3
    <2> QED BY <1>1, <2>3, <2>4 DEF Channel
<1>5. Message(w).tag = "end"
    BY <1>3, <1>4, MessageKinds DEF Message
<1>6. /\ TypeOK /\ DOMAIN toWorker = Workers
      /\ wpc \in [Workers -> {"start", "idle", "run", "stopped"}]
    BY DEF ProtocolInv, TypeOK
<1>7. /\ toWorker' = [toWorker EXCEPT ![w] = <<>>] /\ wpc' = [wpc EXCEPT ![w] = "stopped"]
      /\ aborted' = aborted
    BY <1>3, <1>4, <1>5 DEF RecvEnd
<1>8. /\ toWorker'[w] = <<>> /\ wpc'[w] = "stopped" /\ DOMAIN toWorker' = DOMAIN toWorker
      /\ input' = input /\ mpc' = mpc /\ rank' = rank /\ busy' = busy /\ toMaster' = toMaster
      /\ \A v \in Workers : v # w => toWorker'[v] = toWorker[v] /\ wpc'[v] = wpc[v]
    BY <1>6, <1>7 DEF RecvEnd
<1>9. TypeOK'
    <2>1. wpc' \in [Workers -> {"start", "idle", "run", "stopped"}]
        BY <1>6, <1>7
    <2> QED BY <1>6, <1>7, <1>8, <2>1, WorkerTypes DEF RecvEnd, TypeOK, Result
<1>10. EndSent(w)' /\ HeaderSent(w)' /\ Size' = Size /\ aborted' # "order"
    BY <1>4, <1>7, <1>8 DEF EndSent, HeaderSent, Size, Lines, ProtocolInv
<1>11. Messages' = Messages /\ Answers' = Answers
    BY <1>10 DEF Messages, Answers, Result
<1>12. At(w)' = 1 /\ ~Sent(w)' /\ ~Sent(w) /\ <<>> \in Seq(Messages) /\ Len(<<>>) = 0
    BY <1>1, <1>4, <1>8 DEF At, Sent
<1>13. Channel(w)'
    BY <1>8, <1>10, <1>11, <1>12 DEF Channel
<1>14. Flag(w)'
    BY <1>1, <1>8, <1>11, <1>12 DEF Flag
<1> QED BY <1>8, <1>9, <1>10, <1>13, <1>14, WorkerFrame

\* The types of the values a row is simulated with.
LEMMA ModifyTypes ==
    ASSUME TypeOK, NEW w \in Workers, NEW i \in 1..Size
    PROVE  /\ Modify(w, i) \in [Conditions -> Nat]
           /\ Restore(Modify(w, i), i) \in [Conditions -> Nat]
<1>1. values[w] \in [Conditions -> Nat] /\ i \in Nat
    BY DEF TypeOK
<1>2. Modify(w, i) \in [Conditions -> Nat]
    BY <1>1 DEF Modify
<1>3. Restore(Modify(w, i), i) \in [Conditions -> Nat]
    BY <1>2 DEF Restore
<1> QED BY <1>2, <1>3

\* A worker that simulates a row sends and receives nothing.
LEMMA SimulateProtocol ==
    ASSUME NEW w \in Workers, ProtocolInv, Simulate(w) PROVE ProtocolInv'
<1> USE DEF rootVars, workerVars
<1>1. /\ TypeOK /\ job \in [Workers -> Seq(1..Size)] /\ rowId \in [Workers -> Nat]
      /\ values \in [Workers -> [Conditions -> Nat]] /\ answer \in [Workers -> Seq(Result)]
    BY DEF ProtocolInv, TypeOK, Result
<1>2. /\ input' = input /\ mpc' = mpc /\ rank' = rank /\ busy' = busy /\ toMaster' = toMaster
      /\ toWorker' = toWorker /\ wpc' = wpc /\ aborted' = aborted
    BY DEF Simulate
<1> DEFINE i == Head(job[w])
           u == Modify(w, i)
           res == [line |-> i, id |-> rowId[w], used |-> u]
<1>3. job[w] \in Seq(1..Size) /\ job[w] # <<>>
    BY <1>1 DEF Simulate
<1>4. i \in 1..Size /\ Tail(job[w]) \in Seq(1..Size)
    BY <1>3, HeadTailProperties
<1>5. u \in [Conditions -> Nat] /\ Restore(u, i) \in [Conditions -> Nat]
    <2> HIDE DEF i
    <2> QED BY <1>1, <1>4, ModifyTypes
<1>6. res \in Result
    <2> HIDE DEF i, u
    <2> QED BY <1>1, <1>4, <1>5 DEF Result
<1>7. Append(answer[w], res) \in Seq(Result)
    <2> HIDE DEF res
    <2> QED BY <1>1, <1>6
<1>8. job' \in [Workers -> Seq(1..Size)]
    BY <1>1, <1>4 DEF Simulate
<1>9. rowId' \in [Workers -> Nat]
    BY <1>1 DEF Simulate
<1>10. values' \in [Workers -> [Conditions -> Nat]]
    <2>1. values' = [values EXCEPT ![w] = Restore(u, i)]
        BY DEF Simulate
    <2> HIDE DEF u, i
    <2> QED BY <1>1, <1>5, <2>1
<1>11. answer' \in [Workers -> Seq(Result)]
    <2>1. answer' = [answer EXCEPT ![w] = Append(@, res)]
        BY DEF Simulate
    <2> HIDE DEF res
    <2> QED BY <1>1, <1>7, <2>1
<1>12. TypeOK'
    BY <1>1, <1>2, <1>8, <1>9, <1>10, <1>11, WorkerTypes DEF Simulate, TypeOK
<1>13. /\ (EndSent(w)' <=> EndSent(w)) /\ (HeaderSent(w)' <=> HeaderSent(w)) /\ aborted' # "order"
       /\ Channel(w) /\ Flag(w)
    BY <1>2 DEF EndSent, HeaderSent, ProtocolInv
<1>14. Channel(w)' /\ Flag(w)'
    BY <1>2, <1>13, ProtocolFrame
<1> QED BY <1>2, <1>12, <1>13, <1>14, WorkerFrame

\* The answer replaces the block.
LEMMA ReplyProtocol ==
    ASSUME NEW w \in Workers, ProtocolInv, Reply(w)
    PROVE  ProtocolInv' /\ toMaster'[w] = <<[tag |-> "block_end", rows |-> answer[w]]>>
<1> USE DEF rootVars, workerVars
<1>1. /\ TypeOK /\ answer[w] \in Seq(Result) /\ DOMAIN toMaster = Workers
      /\ wpc \in [Workers -> {"start", "idle", "run", "stopped"}]
    BY DEF ProtocolInv, TypeOK, Result
<1>2. /\ wpc[w] = "run" /\ Channel(w) /\ Flag(w) /\ aborted # "order"
    BY DEF Reply, WorkerAt, ProtocolInv
<1>3. toMaster[w] = <<>>
    <2>1. toMaster[w] \in Seq(Answers) /\ Len(toMaster[w]) = 0
        BY <1>2 DEF Flag
    <2> QED BY <2>1, EmptySeq
<1> DEFINE a == [tag |-> "block_end", rows |-> answer[w]]
           m == <<a>>
<1>4. a \in Answers
    BY <1>1 DEF Answers
<1>5. m \in Seq(Answers) /\ Len(m) = 1 /\ Append(toMaster[w], a) = m
    <2> HIDE DEF a
    <2> QED BY <1>3, <1>4
<1>6. /\ toMaster'[w] = m /\ wpc'[w] = "idle" /\ DOMAIN toMaster' = DOMAIN toMaster
      /\ input' = input /\ mpc' = mpc /\ rank' = rank /\ busy' = busy
      /\ toWorker' = toWorker /\ aborted' = aborted
      /\ \A v \in Workers : v # w => toMaster'[v] = toMaster[v] /\ wpc'[v] = wpc[v]
    BY <1>1, <1>5 DEF Reply
<1>7. TypeOK'
    <2>1. wpc' \in [Workers -> {"start", "idle", "run", "stopped"}]
        BY <1>1 DEF Reply
    <2> QED BY <1>1, <1>6, <2>1, WorkerTypes DEF Reply, TypeOK, Result
<1>8. (EndSent(w)' <=> EndSent(w)) /\ (HeaderSent(w)' <=> HeaderSent(w)) /\ Size' = Size
    BY <1>6 DEF EndSent, HeaderSent, Size, Lines
<1>9. Messages' = Messages /\ Answers' = Answers
    BY <1>8 DEF Messages, Answers, Result
<1>10. At(w)' = At(w) /\ ~Sent(w) /\ ~Sent(w)'
    BY <1>2, <1>6 DEF At, Sent, Flag
<1>11. Channel(w)'
    BY <1>2, <1>6, <1>8, <1>9, <1>10 DEF Channel
<1>12. Flag(w)'
    <2> HIDE DEF m
    <2> QED BY <1>2, <1>5, <1>6, <1>9, <1>10 DEF Flag
<1> QED BY <1>2, <1>6, <1>7, <1>11, <1>12, WorkerFrame

\* The protocol is kept by every step.
LEMMA NextProtocol == ProtocolInv /\ [Next]_vars => ProtocolInv'
<1> SUFFICES ASSUME ProtocolInv, [Next]_vars PROVE ProtocolInv'
    OBVIOUS
<1>1. CASE \E w \in Workers : WorkerFails(w)
    <2>1. PICK w \in Workers : WorkerFails(w)
        BY <1>1
    <2>2. TypeOK'
        BY <2>1 DEF ProtocolInv, TypeOK, WorkerFails, rootVars, workerVars, Size, Lines
    <2>3. Channel(w) /\ Flag(w)
        BY DEF ProtocolInv
    <2>4. (EndSent(w)' <=> EndSent(w)) /\ (HeaderSent(w)' <=> HeaderSent(w))
        BY <2>1 DEF EndSent, HeaderSent, WorkerFails
    <2>5. Channel(w)' /\ Flag(w)'
        BY <2>1, <2>3, <2>4, ProtocolFrame DEF WorkerFails, rootVars, workerVars
    <2> QED BY <2>1, <2>2, <2>5, WorkerFrame DEF WorkerFails, rootVars, workerVars
<1>2. CASE UNCHANGED vars
    <2>1. TypeOK'
        BY <1>2 DEF ProtocolInv, TypeOK, vars, rootVars, workerVars, Size, Lines
    <2>2. Loops'
        BY <1>2 DEF ProtocolInv, Loops, vars
    <2>3. ASSUME NEW w \in Workers PROVE Channel(w)' /\ Flag(w)'
        <3>1. (EndSent(w)' <=> EndSent(w)) /\ (HeaderSent(w)' <=> HeaderSent(w))
            BY <1>2 DEF EndSent, HeaderSent, vars
        <3> QED BY <1>2, <3>1, ProtocolFrame DEF ProtocolInv, vars, rootVars, workerVars
    <2> QED BY <1>2, <2>1, <2>2, <2>3 DEF ProtocolInv, vars
<1>3. CASE Master
    BY <1>3, SendHeaderProtocol, DistributeProtocol, CollectProtocol, DrainProtocol,
       SendEndProtocol DEF Master
<1>4. CASE \E w \in Workers : WorkerStep(w)
    BY <1>4, RecvHeaderProtocol, RecvBlockProtocol, RecvEndProtocol, SimulateProtocol,
       ReplyProtocol DEF WorkerStep
<1> QED BY <1>1, <1>2, <1>3, <1>4 DEF Next, Terminated

\* Two messages of a block are one block.
LEMMA PendingCount ==
    ASSUME NEW w \in Workers, ProtocolInv PROVE Pending(w) = IF w \in busy THEN 1 ELSE 0
<1> DEFINE c == toWorker[w]
           todo == {k \in 1..Len(c) : c[k].tag = "todo"}
<1>1. Channel(w) /\ Flag(w) /\ c \in Seq(Messages) /\ At(w) \in {1, 2}
    BY DEF ProtocolInv, Channel, At
<1>4. Pending(w) = Cardinality(todo) \div 2 + (IF wpc[w] = "run" THEN 1 ELSE 0) + Len(toMaster[w])
    BY DEF Pending
<1>5. 2 \div 2 = 1 /\ 0 \div 2 = 0
    OBVIOUS
<1>6. Len(toMaster[w]) = 0 \/ Len(toMaster[w]) = 1
    <2>1. toMaster[w] \in Seq(Answers) /\ Len(toMaster[w]) <= 1
        BY <1>1 DEF Flag
    <2>2. Len(<<>>) = 0
        OBVIOUS
    <2> QED BY <2>1, <2>2, ShortSequence
<1>2. CASE Sent(w)
    <2>1. Len(c) = At(w) + 1 /\ c[At(w)].tag = "todo" /\ c[At(w) + 1].tag = "todo"
        BY <1>1, <1>2, MessageKinds DEF Channel, Sent
    <2>2. At(w) = 2 => c[1].tag = "header"
        <3> SUFFICES ASSUME At(w) = 2 PROVE c[1] = [tag |-> "header"]
            BY MessageKinds
        <3>1. wpc[w] = "start" /\ HeaderSent(w)
            BY <1>1, <2>1 DEF At, Channel
        <3> QED BY <1>1, <3>1 DEF Channel
    <2>3. todo = {At(w), At(w) + 1}
        <3>1. CASE At(w) = 1
            BY <2>1, <3>1
        <3>2. CASE At(w) = 2
            <4>1. 1..Len(c) = {1, 2, 3}
                BY <2>1, <3>2
            <4> QED BY <2>1, <2>2, <3>2, <4>1
        <3> QED BY <1>1, <3>1, <3>2
    <2>4. Cardinality({At(w), At(w) + 1}) = 2
        <3>1. {At(w), At(w) + 1} = At(w)..At(w) + 1
            BY <1>1
        <3>2. At(w) \in Int /\ At(w) + 1 \in Int /\ ~(At(w) > At(w) + 1)
              /\ At(w) + 1 - At(w) + 1 = 2
            BY <1>1
        <3>3. Cardinality(At(w)..At(w) + 1) = 2
            BY <3>2, FS_Interval
        <3> QED BY <3>1, <3>3
    <2>5. wpc[w] # "run" /\ Len(toMaster[w]) = 0 /\ w \in busy
        BY <1>1, <1>2 DEF Flag
    <2> HIDE DEF todo
    <2> QED BY <1>4, <1>5, <2>3, <2>4, <2>5
<1>3. CASE ~Sent(w)
    <2>1. \A k \in 1..Len(c) : c[k].tag # "todo"
        <3>1. ~HeaderSent(w) => Len(c) = 0
            BY <1>1 DEF Channel
        <3>2. HeaderSent(w) => Len(c) \in {At(w) - 1, At(w)}
            BY <1>1, <1>3 DEF Channel, Sent
        <3>3. Len(c) = At(w) => c[At(w)] = [tag |-> "end"]
            BY <1>1 DEF Channel
        <3>4. At(w) = 2 /\ HeaderSent(w) => c[1] = [tag |-> "header"]
            BY <1>1 DEF Channel, At
        <3> QED BY <1>1, <3>1, <3>2, <3>3, <3>4, MessageKinds
    <2>2. todo = {}
        BY <2>1
    <2>3. Cardinality(todo) = 0
        BY <2>2, FS_EmptySet
    <2> HIDE DEF todo
    <2>4. Pending(w) = (IF wpc[w] = "run" THEN 1 ELSE 0) + Len(toMaster[w])
        BY <1>4, <1>5, <1>6, <2>3
    <2>5. wpc[w] = "run" => Len(toMaster[w]) = 0
        BY <1>1 DEF Flag
    <2>6. w \in busy <=> wpc[w] = "run" \/ Len(toMaster[w]) = 1
        BY <1>1, <1>3 DEF Flag
    <2>7. 0 + 0 = 0 /\ 0 + 1 = 1 /\ 1 + 0 = 1
        OBVIOUS
    <2> QED BY <1>6, <2>4, <2>5, <2>6, <2>7
<1> QED BY <1>2, <1>3

\* The protocol of run_as_master and run_as_worker, for any number of
\* workers: the flags of the master tell where the blocks are, no process
\* meets a message it does not expect, and every answer is a block's.
THEOREM FlagsTellTheTruth == Spec => []Protocol
<1>1. ProtocolInv => Protocol
    <2> SUFFICES ASSUME ProtocolInv PROVE Protocol
        OBVIOUS
    <2>1. TypeOK /\ OneBlockEach
        BY PendingCount DEF OneBlockEach, ProtocolInv
    <2>2. MessageOrder
        <3>1. \A w \in Workers : toMaster[w] \in Seq(Answers)
            BY DEF ProtocolInv, Flag
        <3>2. \A m \in Answers : m.tag = "block_end"
            BY DEF Answers
        <3>3. \A w \in Workers : \A k \in 1..Len(toMaster[w]) : toMaster[w][k] \in Answers
            BY <3>1
        <3> QED BY <3>2, <3>3 DEF MessageOrder, ProtocolInv
    <2> QED BY <2>1, <2>2 DEF Protocol
<1> QED BY <1>1, InitProtocol, NextProtocol, PTL DEF Spec

-----------------------------------------------------------------------------
(* Blocks and results *)

\* What was right stays right when more rows are read.
LEMMA RightMore ==
    ASSUME NEW a, NEW T, NEW U, T \subseteq U, NEW R, NEW O, Right(a, T, R, O)
    PROVE  Right(a, U, R, O)
BY DEF Right

\* A block fits when more rows are read.
LEMMA FitsMore ==
    ASSUME NEW b, NEW f, NEW T, NEW U, T \subseteq U, NEW R, Fits(b, f, T, R)
    PROVE  Fits(b, f, U, R)
BY DEF Fits

\* Nothing is right.
LEMMA RightEmpty ==
    ASSUME NEW T, NEW R, NEW O
    PROVE  Right(<<>>, T, R, O) /\ LinesOf(<<>>) = {} /\ Elements(<<>>) = {}
<1>1. 1..Len(<<>>) = {}
    OBVIOUS
<1> QED BY <1>1 DEF Right, LinesOf, Elements

\* The results of a block are written behind those of other rows.
LEMMA RightConcat ==
    ASSUME NEW S, NEW a \in Seq(S), NEW b \in Seq(S), NEW T, NEW R, NEW O,
           Right(a, T, R, O), Right(b, T, R, O), LinesOf(a) \cap LinesOf(b) = {}
    PROVE  Right(a \o b, T, R, O) /\ LinesOf(a \o b) = LinesOf(a) \cup LinesOf(b)
<1> DEFINE c == a \o b
           m == Len(a)
           n == Len(b)
<1>1. m \in Nat /\ n \in Nat
    OBVIOUS
<1>2. Len(c) = m + n /\ \A i \in 1..m + n : c[i] = IF i <= m THEN a[i] ELSE b[i - m]
    BY ConcatProperties, Zenon
<1>3. \A i \in 1..m : a[i].line \in LinesOf(a)
    BY DEF LinesOf
<1>4. \A i \in 1..n : b[i].line \in LinesOf(b)
    BY DEF LinesOf
<1>5. \A i \in 1..m + n : (i \in 1..m /\ c[i] = a[i]) \/ (i - m \in 1..n /\ ~(i <= m) /\ c[i] = b[i - m])
    <2> HIDE DEF c, m, n
    <2> QED BY <1>1, <1>2
<1> HIDE DEF c
<1>6. \A i \in 1..m + n : /\ c[i].line \in T /\ c[i].id = R[c[i].line]
                          /\ FullTables => c[i].used = O[c[i].line]
    <2> TAKE i \in 1..m + n
    <2>1. CASE i \in 1..m /\ c[i] = a[i]
        BY <2>1 DEF Right
    <2>2. CASE i - m \in 1..n /\ c[i] = b[i - m]
        BY <2>2 DEF Right
    <2> QED BY <1>5, <2>1, <2>2
<1>7. \A i, j \in 1..m + n : c[i].line = c[j].line => i = j
    <2> TAKE i, j \in 1..m + n
    <2> HAVE c[i].line = c[j].line
    <2>1. CASE i \in 1..m /\ c[i] = a[i] /\ j \in 1..m /\ c[j] = a[j]
        BY <2>1 DEF Right
    <2>2. CASE i - m \in 1..n /\ c[i] = b[i - m] /\ j - m \in 1..n /\ c[j] = b[j - m]
        <3>1. i - m = j - m
            <4> DEFINE p == i - m
                       q == j - m
            <4>1. p \in 1..n /\ q \in 1..n /\ b[p].line = b[q].line
                BY <2>2
            <4> HIDE DEF p, q
            <4>2. p = q
                BY <4>1 DEF Right
            <4> QED BY <4>2 DEF p, q
        <3>2. i \in Int /\ j \in Int /\ m \in Int
            BY <1>1
        <3> HIDE DEF m
        <3> QED BY <3>1, <3>2
    <2>3. CASE i \in 1..m /\ c[i] = a[i] /\ j - m \in 1..n /\ c[j] = b[j - m]
        BY <1>3, <1>4, <2>3
    <2>4. CASE i - m \in 1..n /\ c[i] = b[i - m] /\ j \in 1..m /\ c[j] = a[j]
        BY <1>3, <1>4, <2>4
    <2> QED BY <1>5, <2>1, <2>2, <2>3, <2>4
<1>8. Right(c, T, R, O)
    BY <1>2, <1>6, <1>7 DEF Right
<1>9. LinesOf(c) = LinesOf(a) \cup LinesOf(b)
    <2>1. ASSUME NEW x \in LinesOf(c) PROVE x \in LinesOf(a) \cup LinesOf(b)
        <3>1. PICK i \in 1..m + n : x = c[i].line
            BY <1>2 DEF LinesOf
        <3> QED BY <1>3, <1>4, <1>5, <3>1
    <2>2. ASSUME NEW x \in LinesOf(a) PROVE x \in LinesOf(c)
        <3>1. PICK i \in 1..m : x = a[i].line
            BY DEF LinesOf
        <3>2. i \in 1..m + n /\ i <= m
            <4> HIDE DEF m, n
            <4> QED BY <1>1, <3>1
        <3>3. c[i] = a[i]
            BY <1>2, <3>2
        <3> QED BY <1>2, <3>1, <3>2, <3>3 DEF LinesOf
    <2>3. ASSUME NEW x \in LinesOf(b) PROVE x \in LinesOf(c)
        <3>1. PICK i \in 1..n : x = b[i].line
            BY DEF LinesOf
        <3> DEFINE k == i + m
        <3>2. k \in 1..m + n /\ ~(k <= m) /\ k - m = i
            <4> HIDE DEF m, n
            <4> QED BY <1>1, <3>1
        <3> HIDE DEF k
        <3>3. c[k] = b[i]
            BY <1>2, <3>2
        <3> QED BY <1>2, <3>1, <3>2, <3>3 DEF LinesOf
    <2> QED BY <2>1, <2>2, <2>3
<1> QED BY <1>8, <1>9 DEF c

\* A result of another row is added.
LEMMA RightAppend ==
    ASSUME NEW S, NEW a \in Seq(S), NEW e \in S, NEW T, NEW R, NEW O,
           Right(a, T, R, O), e.line \in T, e.id = R[e.line],
           FullTables => e.used = O[e.line], e.line \notin LinesOf(a)
    PROVE  /\ Right(Append(a, e), T, R, O)
           /\ LinesOf(Append(a, e)) = LinesOf(a) \cup {e.line}
<1>1. <<e>> \in Seq(S) /\ Len(<<e>>) = 1 /\ <<e>>[1] = e
    OBVIOUS
<1>2. 1..1 = {1}
    OBVIOUS
<1> DEFINE d == <<e>>
<1>3. d \in Seq(S) /\ 1..Len(d) = {1} /\ d[1] = e
    BY <1>1, <1>2
<1>4. Append(a, e) = a \o d
    BY AppendIsConcat
<1> HIDE DEF d
<1>5. Right(d, T, R, O) /\ LinesOf(d) = {e.line}
    BY <1>3 DEF Right, LinesOf
<1> QED BY <1>3, <1>4, <1>5, RightConcat

\* The first row of a block is taken.
LEMMA FitsTail ==
    ASSUME NEW S, NEW b \in Seq(S), b # <<>>, NEW f \in Nat, NEW T, NEW R, Fits(b, f, T, R)
    PROVE  /\ Head(b) \in T /\ R[Head(b)] = f /\ Fits(Tail(b), f + 1, T, R)
           /\ Elements(b) = {Head(b)} \cup Elements(Tail(b))
           /\ Head(b) \notin Elements(Tail(b))
<1> DEFINE d == Tail(b)
           n == Len(b)
<1>1. /\ Head(b) = b[1] /\ n \in Nat \ {0} /\ d \in Seq(S) /\ Len(d) = n - 1
      /\ \A i \in 1..(n - 1) : d[i] = b[i + 1]
    BY FirstTaken
<1> HIDE DEF d, n
<1>2. \A k \in 1..n : b[k] \in T /\ R[b[k]] = f + k - 1
    BY DEF Fits, n
<1>3. 1 \in 1..n /\ f + 1 - 1 = f
    BY <1>1
<1>4. Head(b) \in T /\ R[Head(b)] = f
    BY <1>1, <1>2, <1>3
<1>5. \A i \in 1..(n - 1) : i + 1 \in 1..n /\ f + (i + 1) - 1 = f + 1 + i - 1 /\ f + 1 + i - 1 # f
    BY <1>1
<1>6. \A i \in 1..Len(d) : d[i] \in T /\ R[d[i]] = f + 1 + i - 1 /\ R[d[i]] # f
    <2> SUFFICES ASSUME NEW i \in 1..(n - 1)
                 PROVE  d[i] \in T /\ R[d[i]] = f + 1 + i - 1 /\ R[d[i]] # f
        BY <1>1
    <2> DEFINE j == i + 1
    <2>1. d[i] = b[j] /\ j \in 1..n /\ f + j - 1 = f + 1 + i - 1 /\ f + 1 + i - 1 # f
        BY <1>1, <1>5
    <2> HIDE DEF j
    <2> QED BY <1>2, <2>1
<1>7. Fits(d, f + 1, T, R)
    BY <1>6 DEF Fits
<1>8. Head(b) \notin Elements(d)
    BY <1>4, <1>6 DEF Elements
<1>9. Elements(b) = {Head(b)} \cup Elements(d)
    <2>1. ASSUME NEW x \in Elements(b) PROVE x \in {Head(b)} \cup Elements(d)
        <3>1. PICK k \in 1..n : x = b[k]
            BY DEF Elements, n
        <3>2. CASE k = 1
            BY <1>1, <3>1, <3>2
        <3>3. CASE k # 1
            <4>1. k - 1 \in 1..(n - 1) /\ k - 1 + 1 = k
                BY <1>1, <3>1, <3>3
            <4>2. d[k - 1] = b[k]
                BY <1>1, <4>1
            <4> QED BY <1>1, <3>1, <4>1, <4>2 DEF Elements
        <3> QED BY <3>2, <3>3
    <2>2. Head(b) \in Elements(b)
        BY <1>1, <1>3 DEF Elements, n
    <2>3. ASSUME NEW x \in Elements(d) PROVE x \in Elements(b)
        <3>1. PICK i \in 1..(n - 1) : x = d[i]
            BY <1>1 DEF Elements
        <3> QED BY <1>1, <1>5, <3>1 DEF Elements, n
    <2> QED BY <2>1, <2>2, <2>3
<1> QED BY <1>4, <1>7, <1>8, <1>9 DEF d

-----------------------------------------------------------------------------
(* The rows are kept by every action *)

\* What a read does to the rows: the block is the rows between the old and
\* the new position, with their ranks as identifiers.
LEMMA ReadRows ==
    ASSUME TypeOK, Reader
    PROVE  /\ {i \in Rows : i <= Read.pos} = TakenRows \cup Elements(Read.block)
           /\ Elements(Read.block) \cap TakenRows = {}
           /\ Fits(Read.block, lastId, Elements(Read.block), RankOf)
           /\ lastId + Len(Read.block) = RankOf[Read.pos + 1]
           /\ Read.stream = "fail" => Read.pos = Size
           /\ ~Read.ok => Read.pos = Size \/ \E i \in 1..Size : ~IsRow(i)
<1> DEFINE b == Read.block
           n == Len(b)
           p == Read.pos
<1>1. /\ p \in pos..Size /\ b \in Seq(1..Size)
      /\ \A j \in 1..n : b[j] = pos + j /\ IsRow(pos + j)
      /\ p = pos + n \/ (p = pos + n + 1 /\ ~IsRow(p))
      /\ ~Read.ok => \/ stream = "fail" \/ p = Size \/ \E i \in 1..Size : ~IsRow(i)
      /\ Read.stream = "fail" => stream = "fail" \/ p = Size
    BY ReadFacts
<1>2. Size \in Nat /\ pos \in 0..Size /\ n \in Nat
    <2>1. n \in Nat
        BY <1>1
    <2> QED BY <2>1, TakenFacts DEF TypeOK
<1> HIDE DEF b, n, p
<1>3. stream = "fail" => p = Size
    BY <1>1, <1>2 DEF Reader
<1>4. \A i \in Rows : i <= p <=> i <= pos + n
    <2> SUFFICES ASSUME NEW i \in Rows, p = pos + n + 1, i <= p, ~(i <= pos + n) PROVE FALSE
        BY <1>1, <1>2 DEF Rows
    <2>1. i = p /\ IsRow(i)
        BY <1>1, <1>2 DEF Rows
    <2> QED BY <1>1, <1>2, <2>1
<1>5. Elements(b) = {i \in Rows : pos < i /\ i <= pos + n}
    <2>1. ASSUME NEW x \in Elements(b) PROVE x \in Rows /\ pos < x /\ x <= pos + n
        <3>1. PICK j \in 1..n : x = b[j]
            BY DEF Elements, n
        <3>2. x = pos + j /\ IsRow(x)
            BY <1>1, <3>1
        <3>3. x \in 1..Size /\ pos < x /\ x <= pos + n
            BY <1>1, <1>2, <3>2
        <3> QED BY <3>2, <3>3 DEF Rows
    <2>2. ASSUME NEW x \in Rows, pos < x, x <= pos + n PROVE x \in Elements(b)
        <3>1. x - pos \in 1..n /\ pos + (x - pos) = x
            BY <1>2, <2>2 DEF Rows
        <3>2. b[x - pos] = x
            BY <1>1, <3>1
        <3> QED BY <3>1, <3>2 DEF Elements, n
    <2> QED BY <2>1, <2>2
<1>6. {i \in Rows : i <= p} = TakenRows \cup Elements(b)
    BY <1>2, <1>4, <1>5 DEF TakenRows, Rows
<1>7. Elements(b) \cap TakenRows = {}
    BY <1>2, <1>5 DEF TakenRows, Rows
<1>8. \A j \in 0..n : Rank(pos + 1 + j) = Rank(pos + 1) + j
    <2>1. pos + n <= Size
        BY <1>1, <1>2
    <2>2. \A j \in 1..n : IsRow(pos + j)
        BY <1>1
    <2> QED BY <1>2, <2>1, <2>2, RankTaken
<1>9. lastId = Rank(pos + 1) /\ lastId \in Nat
    BY <1>2 DEF Reader, RankOf, TypeOK
<1>10. Fits(b, lastId, Elements(b), RankOf)
    <2> SUFFICES ASSUME NEW k \in 1..n
                 PROVE  b[k] \in Elements(b) /\ RankOf[b[k]] = lastId + k - 1
        BY DEF Fits, n
    <2>1. b[k] \in Elements(b)
        BY DEF Elements, n
    <2>2. b[k] = pos + 1 + (k - 1) /\ k - 1 \in 0..n /\ b[k] \in Nat
        BY <1>1, <1>2
    <2>3. RankOf[b[k]] = Rank(pos + 1) + (k - 1)
        BY <1>8, <2>2 DEF RankOf
    <2>4. lastId + (k - 1) = lastId + k - 1
        BY <1>9
    <2> QED BY <1>9, <2>1, <2>3, <2>4
<1>11. lastId + n = RankOf[p + 1]
    <2>1. Rank(pos + 1 + n) = lastId + n
        BY <1>2, <1>8, <1>9
    <2>2. CASE p = pos + n
        <3>1. p + 1 = pos + 1 + n /\ p + 1 \in Nat
            BY <1>2, <2>2
        <3> QED BY <2>1, <3>1 DEF RankOf
    <2>3. CASE p = pos + n + 1 /\ ~IsRow(p)
        <3>1. p \in 1..Size /\ p = pos + 1 + n /\ p + 1 \in Nat
            BY <1>1, <1>2, <2>3
        <3>2. Rank(p + 1) = Rank(p)
            BY <2>3, <3>1, RankStep
        <3> QED BY <2>1, <3>1, <3>2 DEF RankOf
    <2> QED BY <1>1, <2>2, <2>3
<1> QED BY <1>1, <1>3, <1>6, <1>7, <1>10, <1>11 DEF b, n, p

\* The input does not change, so the ranks and the own values do not.
LEMMA InputKept ==
    ASSUME input' = input
    PROVE  /\ Rows' = Rows /\ RankOf' = RankOf /\ OwnOf' = OwnOf /\ Lines' = Lines /\ Size' = Size
           /\ \A i \in 1..Size : IsRow(i)' <=> IsRow(i)
<1>1. Lines' = Lines
    BY DEF Lines
<1>2. Size' = Size
    BY <1>1 DEF Size
<1>3. Rows' = Rows
    BY <1>1, <1>2 DEF Rows, IsRow
<1>4. RankOf' = RankOf
    BY <1>3 DEF RankOf, Rank
<1>5. OwnOf' = OwnOf
    BY <1>1, <1>3 DEF OwnOf, Own
<1>6. \A i \in 1..Size : IsRow(i)' <=> IsRow(i)
    BY <1>1 DEF IsRow
<1> QED BY <1>1, <1>2, <1>3, <1>4, <1>5, <1>6

\* The rows of a worker that a step does not touch.
LEMMA HeldFrame ==
    ASSUME NEW v \in Workers, HeldRight(v), ValuesKept(v), input' = input,
           TakenRows \subseteq TakenRows',
           toWorker'[v] = toWorker[v], toMaster'[v] = toMaster[v], wpc'[v] = wpc[v],
           job'[v] = job[v], rowId'[v] = rowId[v], answer'[v] = answer[v],
           values'[v] = values[v]
    PROVE  Held(v)' = Held(v) /\ HeldRight(v)' /\ ValuesKept(v)'
<1>1. Rows' = Rows /\ RankOf' = RankOf /\ OwnOf' = OwnOf /\ Lines' = Lines
    BY InputKept
<1>2. At(v)' = At(v) /\ (Sent(v)' <=> Sent(v))
    BY DEF At, Sent
<1>3. SentBlock(v)' = SentBlock(v) /\ SentFirst(v)' = SentFirst(v)
    BY <1>2 DEF SentBlock, SentFirst
<1>4. Held(v)' = Held(v)
    BY <1>2, <1>3 DEF Held
<1>5. HeldRight(v)'
    BY <1>1, <1>2, <1>3, RightMore, FitsMore DEF HeldRight
<1>6. ValuesKept(v)'
    BY <1>1 DEF ValuesKept
<1> QED BY <1>4, <1>5, <1>6

\* Rows that a worker gives up are written, new ones were not read before.
LEMMA SharesMoved ==
    ASSUME Shares, NEW w \in Workers, NEW W, NEW E,
           \A v \in Workers : v # w => Held(v)' = Held(v),
           W \subseteq Held(w), Held(w)' = (Held(w) \ W) \cup E,
           Written' = Written \cup W, TakenRows' = TakenRows \cup E,
           E \cap TakenRows = {}
    PROVE  Shares'
<1>1. \A v \in Workers : Held(v) \subseteq TakenRows
    BY DEF Shares
<1>2. Written \subseteq TakenRows
    BY DEF Shares
<1>3. TakenRows' = Written' \cup UNION {Held(v)' : v \in Workers}
    <2>1. ASSUME NEW x \in TakenRows' PROVE x \in Written' \/ \E v \in Workers : x \in Held(v)'
        BY DEF Shares
    <2>2. ASSUME NEW x, x \in Written' \/ \E v \in Workers : x \in Held(v)' PROVE x \in TakenRows'
        BY <1>1, <1>2, <2>2
    <2> QED BY <2>1, <2>2
<1>4. \A v \in Workers : Held(v)' \cap Written' = {}
    BY <1>1, <1>2 DEF Shares
<1>5. \A v, u \in Workers : v # u => Held(v)' \cap Held(u)' = {}
    BY <1>1 DEF Shares
<1> QED BY <1>3, <1>4, <1>5 DEF Shares

\* Nothing is read, held or written.
LEMMA InitRows == Init => RowsInv
<1> SUFFICES ASSUME Init PROVE RowsInv
    OBVIOUS
<1>1. TypeOK /\ Size \in Nat
    BY InitProtocol, TakenFacts DEF ProtocolInv
<1>2. TakenRows = {} /\ out = <<>>
    BY <1>1 DEF Init, TakenRows, Rows
<1>3. Right(out, TakenRows, RankOf, OwnOf) /\ Written = {}
    BY <1>2, RightEmpty DEF Written
<1>4. ASSUME NEW w \in Workers PROVE Held(w) = {} /\ HeldRight(w) /\ ValuesKept(w)
    <2>1. /\ wpc[w] = "start" /\ toWorker[w] = <<>> /\ toMaster[w] = <<>>
          /\ values[w] = [c \in Conditions |-> 0]
        BY DEF Init
    <2>2. ~Sent(w) /\ Len(toMaster[w]) # 1
        BY <2>1 DEF Sent, At
    <2> QED BY <2>1, <2>2 DEF Held, HeldRight, ValuesKept
<1>5. Shares
    BY <1>2, <1>3, <1>4 DEF Shares
<1>6. Reader
    <2>1. {i \in Rows : i < 0 + 1} = {}
        BY <1>1 DEF Rows
    <2>2. RankOf[0 + 1] = 0
        BY <2>1, FS_EmptySet DEF RankOf, Rank
    <2> QED BY <2>2 DEF Reader, Init
<1> QED BY <1>3, <1>4, <1>5, <1>6 DEF RowsInv

\* A step that reads nothing, writes nothing and leaves the rows with their
\* workers.
LEMMA RowsFrame ==
    ASSUME RowsInv, NEW w \in Workers,
           input' = input, pos' = pos, stream' = stream, lastId' = lastId, out' = out,
           mpc' \in {"drain", "stop", "done"} => mpc \in {"drain", "stop", "done"},
           Held(w)' = Held(w), HeldRight(w)', ValuesKept(w)',
           \A v \in Workers : v # w =>
               /\ toWorker'[v] = toWorker[v] /\ toMaster'[v] = toMaster[v]
               /\ wpc'[v] = wpc[v] /\ job'[v] = job[v] /\ rowId'[v] = rowId[v]
               /\ answer'[v] = answer[v] /\ values'[v] = values[v]
    PROVE  RowsInv'
<1>1. /\ Rows' = Rows /\ RankOf' = RankOf /\ OwnOf' = OwnOf /\ Lines' = Lines /\ Size' = Size
      /\ \A i \in 1..Size : IsRow(i)' <=> IsRow(i)
    BY InputKept
<1>2. TakenRows' = TakenRows /\ Written' = Written
    BY <1>1 DEF TakenRows, Written
<1>3. Right(out, TakenRows, RankOf, OwnOf)'
    BY <1>1, <1>2 DEF RowsInv
<1>4. \A v \in Workers : v # w => Held(v)' = Held(v) /\ HeldRight(v)' /\ ValuesKept(v)'
    BY <1>2, HeldFrame DEF RowsInv
<1>5. Shares'
    <2>1. Shares
        BY DEF RowsInv
    <2>2. /\ {} \subseteq Held(w) /\ Held(w)' = (Held(w) \ {}) \cup {}
          /\ Written' = Written \cup {} /\ TakenRows' = TakenRows \cup {}
          /\ {} \cap TakenRows = {}
        BY <1>2
    <2>3. \A v \in Workers : v # w => Held(v)' = Held(v)
        BY <1>4
    <2> QED BY <2>1, <2>2, <2>3, SharesMoved
<1>6. Reader'
    BY <1>1 DEF Reader, RowsInv
<1> QED BY <1>3, <1>4, <1>5, <1>6 DEF RowsInv

\* Sending the header moves no row.
LEMMA SendHeaderRows == ProtocolInv /\ RowsInv /\ SendHeader => RowsInv'
<1> SUFFICES ASSUME ProtocolInv, RowsInv, SendHeader PROVE RowsInv'
    OBVIOUS
<1> USE DEF rootVars, workerVars
<1>1. rank \in Workers /\ mpc = "header"
    BY CvleAssumption DEF SendHeader, MasterAt, ProtocolInv, TypeOK, Loops, Workers
<1>2. Channel(rank) /\ Flag(rank) /\ ~HeaderSent(rank)
    <2>1. rank \in Int
        BY CvleAssumption, <1>1 DEF Workers
    <2> QED BY <1>1, <2>1 DEF ProtocolInv, HeaderSent
<1>3. /\ toWorker'[rank] = toWorker[rank] \o <<[tag |-> "header"]>>
      /\ wpc[rank] = "start" /\ Len(toWorker[rank]) = 0 /\ toWorker[rank] \in Seq(Messages)
    BY <1>1, <1>2 DEF SendHeader, Send, ProtocolInv, TypeOK, Channel
<1>4. Len(toWorker'[rank]) = 1
    BY <1>3, OneMessage, MessageKinds
<1>5. /\ input' = input /\ pos' = pos /\ stream' = stream /\ lastId' = lastId /\ out' = out
      /\ toMaster' = toMaster /\ wpc' = wpc /\ job' = job /\ rowId' = rowId /\ answer' = answer
      /\ values' = values /\ mpc' \in {"header", "distribute"}
      /\ \A v \in Workers : v # rank => toWorker'[v] = toWorker[v]
    BY <1>1 DEF SendHeader, Send, ProtocolInv, TypeOK
<1>6. PICK u \in Workers : u = rank
    BY <1>1
<1>7. ~Sent(u) /\ ~Sent(u)'
    BY <1>3, <1>4, <1>5, <1>6 DEF Sent, At
<1>8. Held(u)' = Held(u)
    BY <1>5, <1>7 DEF Held
<1>9. /\ RankOf' = RankOf /\ OwnOf' = OwnOf /\ Rows' = Rows /\ Lines' = Lines
      /\ TakenRows' = TakenRows
    BY <1>5, InputKept DEF TakenRows
<1>10. HeldRight(u)' /\ ValuesKept(u)'
    BY <1>5, <1>6, <1>7, <1>9 DEF HeldRight, ValuesKept, RowsInv
<1> QED BY <1>5, <1>6, <1>8, <1>10, RowsFrame

\* A block that is read goes to the worker, and what the worker answered
\* into the output.
LEMMA BlockRows ==
    ASSUME RowsInv, TypeOK, NEW w \in Workers,
           input' = input, pos' = Read.pos, stream' = Read.stream,
           lastId' = lastId + Len(Read.block),
           mpc' \in {"drain", "stop", "done"} => ~Read.ok,
           Held(w)' = Elements(Read.block), Written' = Written \cup Held(w),
           Right(out', TakenRows, RankOf, OwnOf),
           TakenRows \cup Elements(Read.block) = TakenRows' => HeldRight(w)' /\ ValuesKept(w)',
           \A v \in Workers : v # w =>
               /\ toWorker'[v] = toWorker[v] /\ toMaster'[v] = toMaster[v]
               /\ wpc'[v] = wpc[v] /\ job'[v] = job[v] /\ rowId'[v] = rowId[v]
               /\ answer'[v] = answer[v] /\ values'[v] = values[v]
    PROVE  RowsInv'
<1> DEFINE E == Elements(Read.block)
<1>1. /\ Rows' = Rows /\ RankOf' = RankOf /\ OwnOf' = OwnOf /\ Lines' = Lines /\ Size' = Size
      /\ \A i \in 1..Size : IsRow(i)' <=> IsRow(i)
    BY InputKept
<1>2. Reader /\ Shares
    BY DEF RowsInv
<1>3. TakenRows' = TakenRows \cup E /\ E \cap TakenRows = {}
    BY <1>1, <1>2, ReadRows DEF TakenRows
<1>4. /\ lastId + Len(Read.block) = RankOf[Read.pos + 1]
      /\ Read.stream = "fail" => Read.pos = Size
      /\ ~Read.ok => Read.pos = Size \/ \E i \in 1..Size : ~IsRow(i)
    BY <1>2, ReadRows
<1> HIDE DEF E
<1>5. \A v \in Workers : v # w => Held(v)' = Held(v) /\ HeldRight(v)' /\ ValuesKept(v)'
    BY <1>3, HeldFrame DEF RowsInv
<1>6. HeldRight(w)' /\ ValuesKept(w)'
    BY <1>3 DEF E
<1>7. Right(out, TakenRows, RankOf, OwnOf)'
    BY <1>1, <1>3, RightMore
<1>8. Shares'
    <2>1. Held(w)' = (Held(w) \ Held(w)) \cup E /\ Held(w) \subseteq Held(w)
        BY DEF E
    <2>2. \A v \in Workers : v # w => Held(v)' = Held(v)
        BY <1>5
    <2> QED BY <1>2, <1>3, <2>1, <2>2, SharesMoved
<1>9. Reader'
    BY <1>1, <1>4 DEF Reader
<1> QED BY <1>5, <1>6, <1>7, <1>8, <1>9 DEF RowsInv

\* The rows of a block that was just sent.
LEMMA SentRows ==
    ASSUME TypeOK, Reader, NEW w \in Workers, input' = input, Sent(w)', At(w)' = At(w),
           Channel(w)', Flag(w)',
           toWorker'[w][At(w)] = [tag |-> "todo", block |-> Read.block],
           toWorker'[w][At(w) + 1] = [tag |-> "todo", first |-> lastId]
    PROVE  /\ Held(w)' = Elements(Read.block)
           /\ TakenRows \cup Elements(Read.block) = TakenRows' => HeldRight(w)'
<1>1. SentBlock(w)' = Read.block /\ SentFirst(w)' = lastId
    BY DEF SentBlock, SentFirst
<1>2. RankOf' = RankOf /\ OwnOf' = OwnOf
    BY InputKept
<1>3. Fits(Read.block, lastId, Elements(Read.block), RankOf)
    BY ReadRows
<1>4. wpc'[w] # "run" /\ Len(toMaster'[w]) # 1
    BY DEF Flag
<1>5. Held(w)' = Elements(Read.block)
    BY <1>1, <1>4 DEF Held
<1>6. ASSUME TakenRows \cup Elements(Read.block) = TakenRows' PROVE HeldRight(w)'
    <2>1. Fits(Read.block, lastId, TakenRows', RankOf')
        BY <1>2, <1>3, <1>6, FitsMore
    <2> QED BY <1>1, <1>4, <2>1 DEF HeldRight
<1> QED BY <1>5, <1>6

\* The first blocks go to workers that hold nothing.
LEMMA DistributeRows == ProtocolInv /\ RowsInv /\ Distribute => RowsInv'
<1> SUFFICES ASSUME ProtocolInv, RowsInv, Distribute PROVE RowsInv'
    OBVIOUS
<1> USE DEF rootVars, workerVars
<1>1. rank \in Workers /\ mpc = "distribute"
    BY CvleAssumption DEF Distribute, MasterAt, ProtocolInv, TypeOK, Loops, Workers
<1>2. PICK w \in Workers : w = rank
    BY <1>1
<1>3. TypeOK /\ Reader /\ Channel(w) /\ Flag(w)
    BY DEF ProtocolInv, RowsInv
<1>4. w \notin busy
    <2>1. w \in Int
        BY CvleAssumption DEF Workers
    <2> QED BY <1>1, <1>2, <2>1 DEF ProtocolInv, Loops
<1>5. ~Sent(w) /\ wpc[w] # "run" /\ Len(toMaster[w]) # 1
    BY <1>3, <1>4 DEF Flag
<1>6. /\ input' = input /\ pos' = Read.pos /\ stream' = Read.stream
      /\ lastId' = lastId + Len(Read.block) /\ out' = out
      /\ toMaster' = toMaster /\ wpc' = wpc /\ job' = job /\ rowId' = rowId /\ answer' = answer
      /\ values' = values
      /\ toWorker' = IF Read.ok THEN [toWorker EXCEPT ![w] = @ \o Block(Read)] ELSE toWorker
      /\ busy' = IF Read.ok THEN busy \cup {w} ELSE busy
      /\ mpc' \in {"distribute", "collect"}
    BY <1>1, <1>2 DEF Distribute, Advance, Send
<1>7. DOMAIN toWorker = Workers
    BY DEF ProtocolInv, TypeOK
<1>8. \A v \in Workers : v # w => toWorker'[v] = toWorker[v]
    BY <1>6, <1>7
<1>9. Held(w) = {}
    BY <1>5 DEF Held
<1>10. Lines' = Lines /\ Rows' = Rows
    BY <1>6, InputKept
<1>11. ValuesKept(w)'
    BY <1>6, <1>10 DEF ValuesKept, RowsInv
<1>12. /\ Held(w)' = Elements(Read.block)
       /\ TakenRows \cup Elements(Read.block) = TakenRows' => HeldRight(w)'
    <2>1. CASE Read.ok
        <3>1. toWorker'[w] = toWorker[w] \o Block(Read) /\ w \in busy'
            BY <1>6, <1>7, <2>1
        <3>2. HeaderSent(w) /\ ~EndSent(w) /\ HeaderSent(w)' /\ ~EndSent(w)'
            BY <1>1, <1>6 DEF HeaderSent, EndSent
        <3>3. toMaster'[w] = <<>>
            <4>1. toMaster[w] \in Seq(Answers) /\ Len(toMaster[w]) <= 1
                BY <1>3 DEF Flag
            <4> QED BY <1>5, <1>6, <4>1, ShortSequence
        <3>4. Read.block \in Seq(1..Size)
            BY <1>3, ReadFacts
        <3>5. /\ Channel(w)' /\ Flag(w)' /\ At(w)' = At(w) /\ Sent(w)'
              /\ toWorker'[w][At(w)] = [tag |-> "todo", block |-> Read.block]
              /\ toWorker'[w][At(w) + 1] = [tag |-> "todo", first |-> lastId]
            BY <1>3, <1>5, <1>6, <3>1, <3>2, <3>3, <3>4, BlockSent
        <3> QED BY <1>3, <1>6, <3>5, SentRows
    <2>2. CASE ~Read.ok
        <3>1. Read.block = <<>>
            BY <1>3, <2>2, ReadFacts
        <3>2. ~Sent(w)' /\ wpc'[w] # "run" /\ Len(toMaster'[w]) # 1
            BY <1>5, <1>6, <2>2 DEF Sent, At
        <3>3. Held(w)' = {}
            BY <3>2 DEF Held
        <3>4. HeldRight(w)'
            BY <3>2 DEF HeldRight
        <3> QED BY <3>1, <3>3, <3>4, RightEmpty
    <2> QED BY <2>1, <2>2
<1>13. Written' = Written \cup Held(w) /\ Right(out', TakenRows, RankOf, OwnOf)
    BY <1>6, <1>9 DEF Written, RowsInv
<1>14. Held(w)' = Elements(Read.block)
    BY <1>12
<1>15. ~(mpc' \in {"drain", "stop", "done"})
    BY <1>6
<1>16. \A v \in Workers : v # w =>
           /\ toWorker'[v] = toWorker[v] /\ toMaster'[v] = toMaster[v]
           /\ wpc'[v] = wpc[v] /\ job'[v] = job[v] /\ rowId'[v] = rowId[v]
           /\ answer'[v] = answer[v] /\ values'[v] = values[v]
    BY <1>6, <1>8
<1>17. /\ input' = input /\ pos' = Read.pos /\ stream' = Read.stream
       /\ lastId' = lastId + Len(Read.block)
    BY <1>6
<1>18. TakenRows \cup Elements(Read.block) = TakenRows' => HeldRight(w)' /\ ValuesKept(w)'
    BY <1>11, <1>12
<1>19. mpc' \in {"drain", "stop", "done"} => ~Read.ok
    BY <1>15
<1> QED BY <1>3, <1>13, <1>14, <1>16, <1>17, <1>18, <1>19, BlockRows

\* The answer of a worker is all that it holds.
LEMMA WrittenRows ==
    ASSUME NEW w \in Workers, ProtocolInv, RowsInv, Receive(w)
    PROVE  Right(out', TakenRows, RankOf, OwnOf) /\ Written' = Written \cup Held(w)
<1> DEFINE a == toMaster[w][1].rows
<1>1. /\ Len(toMaster[w]) = 1 /\ ~Sent(w) /\ wpc[w] # "run"
      /\ a \in Seq(Result) /\ out' = out \o a
    BY ReceiveFacts
<1>2. out \in Seq(Result) /\ Right(out, TakenRows, RankOf, OwnOf) /\ HeldRight(w) /\ Shares
    BY DEF ProtocolInv, TypeOK, Result, RowsInv
<1>3. Held(w) = LinesOf(a) /\ Right(a, TakenRows, RankOf, OwnOf)
    BY <1>1, <1>2 DEF Held, HeldRight
<1>4. LinesOf(out) \cap LinesOf(a) = {}
    BY <1>2, <1>3 DEF Shares, Written
<1> HIDE DEF a
<1>5. /\ Right(out \o a, TakenRows, RankOf, OwnOf)
      /\ LinesOf(out \o a) = LinesOf(out) \cup LinesOf(a)
    BY <1>1, <1>2, <1>3, <1>4, RightConcat
<1> QED BY <1>1, <1>3, <1>5 DEF Written

\* The rows of the answer are written, those of the next block are read.
LEMMA CollectRows ==
    ASSUME NEW w \in Workers, ProtocolInv, RowsInv, Collect(w) PROVE RowsInv'
<1> USE DEF rootVars, workerVars
<1>1. TypeOK /\ Reader /\ Channel(w) /\ Flag(w) /\ mpc = "collect" /\ DOMAIN toWorker = Workers
    BY DEF ProtocolInv, RowsInv, Collect, MasterAt, TypeOK
<1>2. /\ ~Sent(w) /\ wpc[w] # "run" /\ toMaster'[w] = <<>>
      /\ \A v \in Workers : v # w => toMaster'[v] = toMaster[v]
    BY ReceiveFacts DEF Collect
<1>3. /\ input' = input /\ pos' = Read.pos /\ stream' = Read.stream
      /\ lastId' = lastId + Len(Read.block)
      /\ wpc' = wpc /\ job' = job /\ rowId' = rowId /\ answer' = answer /\ values' = values
      /\ toWorker' = IF Read.block # <<>> THEN [toWorker EXCEPT ![w] = @ \o Block(Read)]
                                          ELSE toWorker
      /\ busy' = IF Read.block # <<>> THEN busy \cup {w} ELSE busy \ {w}
      /\ mpc' = IF Read.ok THEN "collect" ELSE "drain"
    BY DEF Collect, Advance, Send
<1>4. Right(out', TakenRows, RankOf, OwnOf) /\ Written' = Written \cup Held(w)
    BY WrittenRows DEF Collect
<1>5. \A v \in Workers : v # w =>
          /\ toWorker'[v] = toWorker[v] /\ toMaster'[v] = toMaster[v]
          /\ wpc'[v] = wpc[v] /\ job'[v] = job[v] /\ rowId'[v] = rowId[v]
          /\ answer'[v] = answer[v] /\ values'[v] = values[v]
    BY <1>1, <1>2, <1>3
<1>6. Lines' = Lines /\ Rows' = Rows
    BY <1>3, InputKept
<1>7. ValuesKept(w)'
    BY <1>3, <1>6 DEF ValuesKept, RowsInv
<1>8. /\ Held(w)' = Elements(Read.block)
      /\ TakenRows \cup Elements(Read.block) = TakenRows' => HeldRight(w)'
    <2>1. CASE Read.block # <<>>
        <3>1. toWorker'[w] = toWorker[w] \o Block(Read) /\ w \in busy'
            BY <1>1, <1>3, <2>1
        <3>2. HeaderSent(w) /\ ~EndSent(w) /\ HeaderSent(w)' /\ ~EndSent(w)'
            BY <1>1, <1>3 DEF HeaderSent, EndSent
        <3>3. Read.block \in Seq(1..Size)
            BY <1>1, ReadFacts
        <3>4. /\ Channel(w)' /\ Flag(w)' /\ At(w)' = At(w) /\ Sent(w)'
              /\ toWorker'[w][At(w)] = [tag |-> "todo", block |-> Read.block]
              /\ toWorker'[w][At(w) + 1] = [tag |-> "todo", first |-> lastId]
            BY <1>1, <1>2, <1>3, <3>1, <3>2, <3>3, BlockSent
        <3> QED BY <1>1, <1>3, <3>4, SentRows
    <2>2. CASE Read.block = <<>>
        <3>1. Len(<<>>) = 0
            OBVIOUS
        <3>2. ~Sent(w)' /\ wpc'[w] # "run" /\ Len(toMaster'[w]) # 1
            BY <1>2, <1>3, <2>2, <3>1 DEF Sent, At
        <3>3. Held(w)' = {}
            BY <3>2 DEF Held
        <3>4. HeldRight(w)'
            BY <3>2 DEF HeldRight
        <3> QED BY <2>2, <3>3, <3>4, RightEmpty
    <2> QED BY <2>1, <2>2
<1>9. TakenRows \cup Elements(Read.block) = TakenRows' => HeldRight(w)' /\ ValuesKept(w)'
    BY <1>7, <1>8
<1>10. mpc' \in {"drain", "stop", "done"} => ~Read.ok
    BY <1>3
<1>11. Held(w)' = Elements(Read.block)
    BY <1>8
<1>12. /\ input' = input /\ pos' = Read.pos /\ stream' = Read.stream
       /\ lastId' = lastId + Len(Read.block)
    BY <1>3
<1> QED BY <1>1, <1>4, <1>5, <1>9, <1>10, <1>11, <1>12, BlockRows

\* The rows of the last answers are written.
LEMMA DrainRows ==
    ASSUME NEW w \in Workers, ProtocolInv, RowsInv, Drain(w) PROVE RowsInv'
<1> USE DEF rootVars, workerVars
<1>1. /\ ~Sent(w) /\ wpc[w] # "run" /\ toMaster'[w] = <<>>
      /\ \A v \in Workers : v # w => toMaster'[v] = toMaster[v]
    BY ReceiveFacts DEF Drain
<1>2. /\ input' = input /\ pos' = pos /\ stream' = stream /\ lastId' = lastId /\ mpc' = mpc
      /\ wpc' = wpc /\ job' = job /\ rowId' = rowId /\ answer' = answer /\ values' = values
      /\ toWorker' = toWorker
    BY DEF Drain
<1>3. Right(out', TakenRows, RankOf, OwnOf) /\ Written' = Written \cup Held(w)
    BY WrittenRows DEF Drain
<1>4. /\ Rows' = Rows /\ RankOf' = RankOf /\ OwnOf' = OwnOf /\ Lines' = Lines /\ Size' = Size
      /\ \A i \in 1..Size : IsRow(i)' <=> IsRow(i)
    BY <1>2, InputKept
<1>5. TakenRows' = TakenRows
    BY <1>2, <1>4 DEF TakenRows
<1>6. \A v \in Workers : v # w => Held(v)' = Held(v) /\ HeldRight(v)' /\ ValuesKept(v)'
    BY <1>1, <1>2, <1>5, HeldFrame DEF RowsInv
<1>7. ~Sent(w)' /\ wpc'[w] # "run" /\ Len(toMaster'[w]) # 1
    <2>1. Len(<<>>) = 0
        OBVIOUS
    <2> QED BY <1>1, <1>2, <2>1 DEF Sent, At
<1>8. Held(w)' = {} /\ HeldRight(w)'
    BY <1>7 DEF Held, HeldRight
<1>9. ValuesKept(w)'
    BY <1>2, <1>4 DEF ValuesKept, RowsInv
<1>10. Shares'
    <2>1. /\ Held(w)' = (Held(w) \ Held(w)) \cup {} /\ Held(w) \subseteq Held(w)
          /\ TakenRows' = TakenRows \cup {} /\ {} \cap TakenRows = {}
        BY <1>5, <1>8
    <2>2. Shares /\ \A v \in Workers : v # w => Held(v)' = Held(v)
        BY <1>6 DEF RowsInv
    <2> QED BY <1>3, <2>1, <2>2, SharesMoved
<1>11. Reader'
    BY <1>2, <1>4 DEF Reader, RowsInv
<1>12. Right(out, TakenRows, RankOf, OwnOf)'
    BY <1>3, <1>4, <1>5
<1> QED BY <1>6, <1>8, <1>9, <1>10, <1>11, <1>12 DEF RowsInv

\* Sending the end moves no row.
LEMMA SendEndRows == ProtocolInv /\ RowsInv /\ SendEnd => RowsInv'
<1> SUFFICES ASSUME ProtocolInv, RowsInv, SendEnd PROVE RowsInv'
    OBVIOUS
<1> USE DEF rootVars, workerVars
<1>1. rank \in Workers /\ mpc \in {"drain", "stop"}
    BY CvleAssumption DEF SendEnd, MasterAt, ProtocolInv, TypeOK, Loops, Workers
<1>2. PICK u \in Workers : u = rank
    BY <1>1
<1>3. u \notin busy /\ u \notin busy'
    BY DEF SendEnd, MasterAt, ProtocolInv, Loops
<1>4. Flag(u) /\ Flag(u)'
    BY SendEndProtocol DEF ProtocolInv
<1>5. /\ ~Sent(u) /\ wpc[u] # "run" /\ Len(toMaster[u]) # 1
      /\ ~Sent(u)' /\ wpc'[u] # "run" /\ Len(toMaster'[u]) # 1
    BY <1>3, <1>4 DEF Flag
<1>6. Held(u)' = Held(u) /\ HeldRight(u)'
    BY <1>5 DEF Held, HeldRight
<1>7. /\ input' = input /\ pos' = pos /\ stream' = stream /\ lastId' = lastId /\ out' = out
      /\ toMaster' = toMaster /\ wpc' = wpc /\ job' = job /\ rowId' = rowId /\ answer' = answer
      /\ values' = values
      /\ \A v \in Workers : v # u => toWorker'[v] = toWorker[v]
    BY <1>2 DEF SendEnd, Send, ProtocolInv, TypeOK
<1>8. Lines' = Lines /\ Rows' = Rows
    BY <1>7, InputKept
<1>9. ValuesKept(u)'
    BY <1>7, <1>8 DEF ValuesKept, RowsInv
<1> QED BY <1>1, <1>6, <1>7, <1>9, RowsFrame

\* The block stays in the channel when the header is received.
LEMMA RecvHeaderRows ==
    ASSUME NEW w \in Workers, ProtocolInv, RowsInv, RecvHeader(w) PROVE RowsInv'
<1> USE DEF rootVars, workerVars
<1> DEFINE c == toWorker[w]
           d == Tail(c)
<1>1. /\ wpc[w] = "start" /\ wpc' = [wpc EXCEPT ![w] = "idle"]
      /\ toWorker' = [toWorker EXCEPT ![w] = Tail(@)]
      /\ c \in Seq(Messages) /\ c # <<>>
    BY RecvHeaderFacts
<1>2. /\ input' = input /\ pos' = pos /\ stream' = stream /\ lastId' = lastId /\ out' = out
      /\ mpc' = mpc /\ toMaster' = toMaster /\ job' = job /\ rowId' = rowId
      /\ answer' = answer /\ values' = values
    BY DEF RecvHeader
<1>3. /\ toWorker'[w] = d /\ wpc'[w] = "idle"
      /\ \A v \in Workers : v # w => toWorker'[v] = toWorker[v] /\ wpc'[v] = wpc[v]
    BY <1>1 DEF ProtocolInv, TypeOK
<1>4. Len(c) \in Nat \ {0} /\ Len(d) = Len(c) - 1 /\ (Len(c) = 3 => d[1] = c[2] /\ d[2] = c[3])
    BY <1>1, FirstTaken
<1>5. At(w) = 2 /\ At(w)' = 1
    BY <1>1, <1>3 DEF At
<1> HIDE DEF d
<1>6. (Sent(w) <=> Len(c) = 3) /\ (Sent(w)' <=> Len(c) = 3)
    BY <1>3, <1>4, <1>5 DEF Sent
<1>7. Sent(w) => SentBlock(w)' = SentBlock(w) /\ SentFirst(w)' = SentFirst(w)
    BY <1>3, <1>4, <1>5, <1>6 DEF SentBlock, SentFirst
<1>8. Held(w)' = Held(w)
    BY <1>1, <1>2, <1>3, <1>6, <1>7 DEF Held
<1>9. /\ Rows' = Rows /\ RankOf' = RankOf /\ OwnOf' = OwnOf /\ Lines' = Lines
      /\ TakenRows' = TakenRows
    BY <1>2, InputKept DEF TakenRows
<1>10. HeldRight(w)'
    BY <1>2, <1>3, <1>6, <1>7, <1>9 DEF HeldRight, RowsInv
<1>11. ValuesKept(w)'
    BY <1>2, <1>9 DEF ValuesKept, RowsInv
<1> QED BY <1>2, <1>3, <1>8, <1>10, <1>11, RowsFrame

\* The rows of the block are the job of the worker.
LEMMA RecvBlockRows ==
    ASSUME NEW w \in Workers, ProtocolInv, RowsInv, RecvBlock(w) PROVE RowsInv'
<1> USE DEF rootVars, workerVars
<1>1. /\ wpc[w] = "idle" /\ Sent(w) /\ At(w) = 1 /\ Message(w) = toWorker[w][1]
      /\ toWorker' = [toWorker EXCEPT ![w] = <<>>]
    BY RecvBlockFacts
<1>2. /\ input' = input /\ pos' = pos /\ stream' = stream /\ lastId' = lastId /\ out' = out
      /\ mpc' = mpc /\ toMaster' = toMaster /\ values' = values
    BY DEF RecvBlock
<1>3. /\ toWorker'[w] = <<>> /\ wpc'[w] = "run"
      /\ job'[w] = SentBlock(w) /\ rowId'[w] = SentFirst(w) /\ answer'[w] = <<>>
    BY <1>1 DEF RecvBlock, SentBlock, SentFirst, ProtocolInv, TypeOK
<1>4. \A v \in Workers : v # w =>
          /\ toWorker'[v] = toWorker[v] /\ wpc'[v] = wpc[v] /\ job'[v] = job[v]
          /\ rowId'[v] = rowId[v] /\ answer'[v] = answer[v]
    BY DEF RecvBlock, ProtocolInv, TypeOK
<1>5. /\ Rows' = Rows /\ RankOf' = RankOf /\ OwnOf' = OwnOf /\ Lines' = Lines
      /\ TakenRows' = TakenRows
    BY <1>2, InputKept DEF TakenRows
<1>6. ~Sent(w)' /\ Len(toMaster'[w]) # 1 /\ wpc[w] # "run" /\ Len(toMaster[w]) # 1
    <2>1. Flag(w) /\ Flag(w)'
        BY RecvBlockProtocol DEF ProtocolInv
    <2>2. Len(toMaster[w]) = 0 /\ wpc[w] # "run"
        BY <1>1, <2>1 DEF Flag
    <2>3. ~Sent(w)'
        BY <1>3, <2>1 DEF Flag
    <2> QED BY <1>2, <2>2, <2>3
<1>7. Held(w)' = Held(w)
    <2>1. Held(w) = Elements(SentBlock(w))
        BY <1>1, <1>6 DEF Held
    <2>2. Held(w)' = Elements(SentBlock(w)) \cup LinesOf(<<>>)
        BY <1>3, <1>6 DEF Held
    <2> QED BY <2>1, <2>2, RightEmpty
<1>8. HeldRight(w)'
    <2>1. Fits(SentBlock(w), SentFirst(w), TakenRows, RankOf)
        BY <1>1 DEF RowsInv, HeldRight
    <2>2. Right(<<>>, TakenRows, RankOf, OwnOf) /\ LinesOf(<<>>) = {}
        BY RightEmpty
    <2> QED BY <1>3, <1>5, <1>6, <2>1, <2>2 DEF HeldRight
<1>9. ValuesKept(w)'
    BY <1>2, <1>5 DEF ValuesKept, RowsInv
<1> QED BY <1>2, <1>4, <1>7, <1>8, <1>9, RowsFrame

\* A worker that stops holds nothing.
LEMMA RecvEndRows ==
    ASSUME NEW w \in Workers, ProtocolInv, RowsInv, RecvEnd(w) PROVE RowsInv'
<1> USE DEF rootVars, workerVars
<1>1. Channel(w) /\ wpc[w] = "idle" /\ toWorker[w] # <<>> /\ Message(w).tag # "todo" /\ At(w) = 1
    BY DEF ProtocolInv, RecvEnd, WorkerAt, At
<1>2. ~Sent(w)
    <2>1. toWorker[w] \in Seq(Messages)
        BY <1>1 DEF Channel
    <2>2. Message(w) = toWorker[w][1]
        BY <1>1, <2>1, FirstTaken DEF Message
    <2> QED BY <1>1, <2>2, MessageKinds DEF Channel, Sent
<1>3. /\ input' = input /\ pos' = pos /\ stream' = stream /\ lastId' = lastId /\ out' = out
      /\ mpc' = mpc /\ toMaster' = toMaster /\ values' = values /\ job' = job
      /\ rowId' = rowId /\ answer' = answer /\ busy' = busy
    BY DEF RecvEnd
<1>4. \A v \in Workers : v # w => toWorker'[v] = toWorker[v] /\ wpc'[v] = wpc[v]
    BY DEF RecvEnd, ProtocolInv, TypeOK
<1>5. Flag(w) /\ Flag(w)' /\ wpc'[w] \in {"idle", "stopped"}
    <2>1. wpc'[w] \in {"idle", "stopped"}
        BY <1>1 DEF RecvEnd, ProtocolInv, TypeOK
    <2> QED BY <2>1, RecvEndProtocol DEF ProtocolInv
<1>6. ~Sent(w)'
    <2>1. Sent(w)' => w \in busy /\ Len(toMaster[w]) = 0
        BY <1>3, <1>5 DEF Flag
    <2>2. w \in busy => Len(toMaster[w]) = 1
        BY <1>1, <1>2, <1>5 DEF Flag
    <2> QED BY <2>1, <2>2
<1>7. /\ Rows' = Rows /\ RankOf' = RankOf /\ OwnOf' = OwnOf /\ Lines' = Lines
      /\ TakenRows' = TakenRows
    BY <1>3, InputKept DEF TakenRows
<1>8. Held(w)' = Held(w)
    BY <1>1, <1>2, <1>3, <1>5, <1>6 DEF Held
<1>9. HeldRight(w)'
    BY <1>3, <1>5, <1>6, <1>7 DEF HeldRight, RowsInv
<1>10. ValuesKept(w)'
    BY <1>3, <1>7 DEF ValuesKept, RowsInv
<1> QED BY <1>3, <1>4, <1>8, <1>9, <1>10, RowsFrame

\* The values of the worker's vpz that are not the row's are the file's: a
\* row of a table gives a value to every column, and a fragment is undone.
LEMMA ModifyRows ==
    ASSUME TypeOK, NEW w \in Workers, ValuesKept(w), NEW i \in Rows
    PROVE  /\ FullTables => Modify(w, i) = OwnOf[i]
           /\ \A c \in Conditions : Restore(Modify(w, i), i)[c] # 0 =>
                  ~input.complex /\ \E j \in Rows : c \in Lines[j]
<1>1. ASSUME FullTables PROVE Modify(w, i) = OwnOf[i]
    <2>1. ASSUME NEW c \in Conditions, c \notin Lines[i] PROVE values[w][c] = 0
        <3> SUFFICES ASSUME values[w][c] # 0 PROVE FALSE
            OBVIOUS
        <3>1. PICK j \in Rows : ~input.complex /\ c \in Lines[j]
            BY DEF ValuesKept
        <3>2. Lines[j] # {} /\ Lines[i] # {} /\ j \in 1..Size /\ i \in 1..Size
            BY DEF Rows, IsRow
        <3>3. input \in Inputs
            BY DEF TypeOK
        <3>4. Lines[j] = Lines[i]
            BY <1>1, <3>1, <3>2, <3>3 DEF FullTables, Lines, Size
        <3> QED BY <2>1, <3>1, <3>4
    <2>2. Modify(w, i) = Own(i)
        BY <2>1 DEF Modify, Own
    <2> QED BY <2>2 DEF OwnOf
<1>2. ASSUME NEW c \in Conditions, Restore(Modify(w, i), i)[c] # 0
      PROVE  ~input.complex /\ \E j \in Rows : c \in Lines[j]
    <2>1. CASE input.complex
        <3>1. c \notin Lines[i] /\ values[w][c] # 0
            BY <1>2, <2>1 DEF Restore, Modify
        <3> QED BY <3>1 DEF ValuesKept
    <2>2. CASE ~input.complex
        <3>1. c \in Lines[i] \/ values[w][c] # 0
            BY <1>2, <2>2 DEF Restore, Modify
        <3> QED BY <2>2, <3>1 DEF ValuesKept
    <2> QED BY <2>1, <2>2
<1> QED BY <1>1, <1>2

\* A row moves from the job to the answer.
LEMMA SimulateRows ==
    ASSUME NEW w \in Workers, ProtocolInv, RowsInv, Simulate(w) PROVE RowsInv'
<1> USE DEF rootVars, workerVars
<1>1. /\ TypeOK /\ HeldRight(w) /\ ValuesKept(w) /\ Flag(w) /\ wpc[w] = "run" /\ job[w] # <<>>
      /\ job[w] \in Seq(1..Size) /\ rowId[w] \in Nat /\ answer[w] \in Seq(Result)
    BY DEF ProtocolInv, RowsInv, TypeOK, Simulate, WorkerAt, Result
<1>2. /\ Fits(job[w], rowId[w], TakenRows, RankOf) /\ Right(answer[w], TakenRows, RankOf, OwnOf)
      /\ Elements(job[w]) \cap LinesOf(answer[w]) = {}
    BY <1>1 DEF HeldRight
<1>3. /\ input' = input /\ pos' = pos /\ stream' = stream /\ lastId' = lastId /\ out' = out
      /\ mpc' = mpc /\ toMaster' = toMaster /\ toWorker' = toWorker /\ wpc' = wpc
    BY DEF Simulate
<1> DEFINE i == Head(job[w])
           u == Modify(w, i)
           e == [line |-> i, id |-> rowId[w], used |-> u]
           j == Tail(job[w])
           a == Append(answer[w], e)
<1>4. job'[w] = j /\ rowId'[w] = rowId[w] + 1 /\ answer'[w] = a /\ values'[w] = Restore(u, i)
    BY DEF Simulate, ProtocolInv, TypeOK
<1>5. \A v \in Workers : v # w =>
          job'[v] = job[v] /\ rowId'[v] = rowId[v] /\ answer'[v] = answer[v] /\ values'[v] = values[v]
    BY DEF Simulate, ProtocolInv, TypeOK
<1>6. /\ i \in TakenRows /\ RankOf[i] = rowId[w] /\ Fits(j, rowId[w] + 1, TakenRows, RankOf)
      /\ Elements(job[w]) = {i} \cup Elements(j) /\ i \notin Elements(j)
    BY <1>1, <1>2, FitsTail
<1>7. i \in Rows /\ i \in 1..Size
    BY <1>6 DEF TakenRows, Rows
<1>8. e.line = i /\ e.id = rowId[w] /\ e.used = u
    OBVIOUS
<1>9. u \in [Conditions -> Nat]
    <2> HIDE DEF i
    <2> QED BY <1>1, <1>7, ModifyTypes
<1>10. e \in Result
    <2> HIDE DEF i, u
    <2> QED BY <1>1, <1>7, <1>9 DEF Result
<1>11. FullTables => u = OwnOf[i]
    <2> HIDE DEF i
    <2> QED BY <1>1, <1>7, ModifyRows
<1>12. \A c \in Conditions : Restore(u, i)[c] # 0 =>
           ~input.complex /\ \E k \in Rows : c \in Lines[k]
    <2> HIDE DEF i
    <2> QED BY <1>1, <1>7, ModifyRows
<1>13. Right(a, TakenRows, RankOf, OwnOf) /\ LinesOf(a) = LinesOf(answer[w]) \cup {i}
    <2>1. i \notin LinesOf(answer[w])
        BY <1>2, <1>6
    <2> HIDE DEF e, i, u
    <2> QED BY <1>1, <1>2, <1>6, <1>8, <1>10, <1>11, <2>1, RightAppend
<1> HIDE DEF i, u, e, j, a
<1>14. /\ Rows' = Rows /\ RankOf' = RankOf /\ OwnOf' = OwnOf /\ Lines' = Lines
       /\ TakenRows' = TakenRows
    BY <1>3, InputKept DEF TakenRows
<1>15. ~Sent(w) /\ ~Sent(w)' /\ Len(toMaster[w]) # 1
    <2>1. Len(toMaster[w]) = 0 /\ ~Sent(w)
        BY <1>1 DEF Flag
    <2>2. Sent(w)' <=> Sent(w)
        BY <1>3 DEF Sent, At
    <2> QED BY <2>1, <2>2
<1>16. Held(w)' = Held(w)
    <2>1. Held(w) = Elements(job[w]) \cup LinesOf(answer[w])
        BY <1>1, <1>15 DEF Held
    <2>2. Held(w)' = Elements(j) \cup LinesOf(a)
        BY <1>1, <1>3, <1>4, <1>15 DEF Held
    <2> QED BY <1>6, <1>13, <2>1, <2>2
<1>17. HeldRight(w)'
    <2>1. Elements(j) \cap LinesOf(a) = {}
        BY <1>2, <1>6, <1>13
    <2> QED BY <1>3, <1>4, <1>6, <1>13, <1>14, <1>15, <2>1 DEF HeldRight
<1>18. ValuesKept(w)'
    BY <1>3, <1>4, <1>12, <1>14 DEF ValuesKept
<1> QED BY <1>3, <1>5, <1>16, <1>17, <1>18, RowsFrame

\* The answer holds all rows of the block.
LEMMA ReplyRows ==
    ASSUME NEW w \in Workers, ProtocolInv, RowsInv, Reply(w) PROVE RowsInv'
<1> USE DEF rootVars, workerVars
<1>1. HeldRight(w) /\ ValuesKept(w) /\ Flag(w) /\ wpc[w] = "run" /\ job[w] = <<>>
    BY DEF ProtocolInv, RowsInv, Reply, WorkerAt
<1>2. /\ input' = input /\ pos' = pos /\ stream' = stream /\ lastId' = lastId /\ out' = out
      /\ mpc' = mpc /\ toWorker' = toWorker /\ job' = job /\ rowId' = rowId
      /\ answer' = answer /\ values' = values
    BY DEF Reply
<1>3. \A v \in Workers : v # w => toMaster'[v] = toMaster[v] /\ wpc'[v] = wpc[v]
    BY DEF Reply, ProtocolInv, TypeOK
<1>4. wpc'[w] = "idle"
    BY DEF Reply, ProtocolInv, TypeOK
<1> DEFINE m == [tag |-> "block_end", rows |-> answer[w]]
<1>5. toMaster'[w] = <<m>>
    BY ReplyProtocol
<1>6. m.rows = answer[w]
    OBVIOUS
<1> HIDE DEF m
<1>7. Len(toMaster'[w]) = 1 /\ toMaster'[w][1].rows = answer[w]
    BY <1>5, <1>6
<1>8. ~Sent(w) /\ ~Sent(w)'
    BY <1>1, <1>2, <1>4 DEF Flag, Sent, At
<1>9. /\ Rows' = Rows /\ RankOf' = RankOf /\ OwnOf' = OwnOf /\ Lines' = Lines
      /\ TakenRows' = TakenRows
    BY <1>2, InputKept DEF TakenRows
<1>10. Held(w)' = Held(w)
    <2>1. Len(toMaster[w]) # 1
        <3>1. Len(toMaster[w]) = 0
            BY <1>1 DEF Flag
        <3> QED BY <3>1
    <2>2. Held(w) = Elements(<<>>) \cup LinesOf(answer[w])
        BY <1>1, <1>8, <2>1 DEF Held
    <2>3. Held(w)' = LinesOf(answer[w])
        BY <1>4, <1>7, <1>8 DEF Held
    <2> QED BY <2>2, <2>3, RightEmpty
<1>11. HeldRight(w)'
    <2>1. Right(answer[w], TakenRows, RankOf, OwnOf)
        BY <1>1 DEF HeldRight
    <2> QED BY <1>4, <1>7, <1>8, <1>9, <2>1 DEF HeldRight
<1>12. ValuesKept(w)'
    BY <1>1, <1>2, <1>9 DEF ValuesKept
<1> QED BY <1>2, <1>3, <1>10, <1>11, <1>12, RowsFrame

\* A failure, and a step that changes nothing, move no row.
LEMMA OtherRows ==
    ASSUME RowsInv, (\E w \in Workers : WorkerFails(w)) \/ UNCHANGED vars
    PROVE  RowsInv'
<1> USE DEF rootVars, workerVars, vars
<1>1. /\ input' = input /\ pos' = pos /\ stream' = stream /\ lastId' = lastId /\ out' = out
      /\ mpc' = mpc /\ toWorker' = toWorker /\ toMaster' = toMaster /\ wpc' = wpc /\ job' = job
      /\ rowId' = rowId /\ answer' = answer /\ values' = values
    BY DEF WorkerFails
<1>2. PICK w \in Workers : TRUE
    <2>1. 1 \in Workers
        BY CvleAssumption DEF Workers
    <2> QED BY <2>1
<1>3. TakenRows' = TakenRows
    BY <1>1, InputKept DEF TakenRows
<1>4. HeldRight(w) /\ ValuesKept(w)
    BY DEF RowsInv
<1>5. Held(w)' = Held(w) /\ HeldRight(w)' /\ ValuesKept(w)'
    BY <1>1, <1>3, <1>4, HeldFrame
<1> QED BY <1>1, <1>5, RowsFrame

\* The rows are kept by every step.
LEMMA NextRows == ProtocolInv /\ RowsInv /\ [Next]_vars => RowsInv'
<1> SUFFICES ASSUME ProtocolInv, RowsInv, [Next]_vars PROVE RowsInv'
    OBVIOUS
<1>1. CASE Master
    BY <1>1, SendHeaderRows, DistributeRows, CollectRows, DrainRows, SendEndRows DEF Master
<1>2. CASE \E w \in Workers : WorkerStep(w)
    BY <1>2, RecvHeaderRows, RecvBlockRows, RecvEndRows, SimulateRows, ReplyRows DEF WorkerStep
<1>3. CASE (\E w \in Workers : WorkerFails(w)) \/ UNCHANGED vars
    BY <1>3, OtherRows
<1> QED BY <1>1, <1>2, <1>3 DEF Next, Terminated

\* The invariants hold in every state.
LEMMA RowsInvariant == Spec => [](ProtocolInv /\ RowsInv)
<1>1. ProtocolInv /\ RowsInv /\ [Next]_vars => ProtocolInv' /\ RowsInv'
    BY NextProtocol, NextRows
<1>2. Init => ProtocolInv /\ RowsInv
    BY InitProtocol, InitRows
<1> QED BY <1>1, <1>2, PTL DEF Spec

\* What Root::write puts in the output, for any number of workers, size of
\* blocks and input in which the rows of a table have a value for every
\* column: each row at most once, under its own identifier, simulated with
\* its own values.
THEOREM ResultsAreRight == FullTables => (Spec => []RowResults)
<1> SUFFICES ASSUME FullTables PROVE Spec => []RowResults
    OBVIOUS
<1>1. ProtocolInv /\ RowsInv => RowResults
    <2> SUFFICES ASSUME ProtocolInv, RowsInv PROVE RowResults
        OBVIOUS
    <2>1. Right(out, TakenRows, RankOf, OwnOf)
        BY DEF RowsInv
    <2>2. RowsOnce
        BY <2>1 DEF Right, RowsOnce
    <2>3. \A k \in 1..Len(out) : out[k].line \in Rows /\ out[k].line \in Nat
        <3>1. Size \in Nat
            BY TakenFacts DEF ProtocolInv
        <3> QED BY <2>1, <3>1 DEF Right, TakenRows, Rows
    <2>4. RowIdentified
        BY <2>1, <2>3 DEF Right, RowIdentified, RankOf, Rank
    <2>5. RowIsolated
        BY <2>1, <2>3 DEF Right, RowIsolated, OwnOf
    <2> QED BY <2>2, <2>4, <2>5 DEF RowResults
<1> QED BY <1>1, RowsInvariant, PTL

-----------------------------------------------------------------------------
(* The promise of Farm *)

\* What Farm sees of the state.
Gap == \E i \in 1..Size : ~IsRow(i)
Status == IF mpc \in {"stop", "done"} THEN "ended"
          ELSE IF aborted # "none" THEN "failed" ELSE "running"

\* The input is what Farm has as its input.
LEMMA InputOfFarm == ASSUME input' = input PROVE UNCHANGED Abstract!inputVars
<1>1. Rows' = Rows /\ Size' = Size /\ Lines' = Lines
    BY InputKept
<1>2. Gap' = Gap
    BY <1>1 DEF Gap, IsRow
<1> QED BY <1>1, <1>2 DEF Abstract!inputVars, Gap

\* A step that Farm does not see.
LEMMA StutterOfFarm ==
    ASSUME input' = input, pos' = pos, out' = out, Status' = Status
    PROVE  UNCHANGED Abstract!vars
<1>1. TakenRows' = TakenRows /\ Written' = Written
    BY InputKept DEF TakenRows, Written
<1> QED BY <1>1, InputOfFarm DEF Abstract!vars, TakenRows, Written, LinesOf, Status

\* Reading a block takes its rows.
LEMMA TakeOfFarm ==
    ASSUME ProtocolInv, RowsInv, Distribute PROVE Abstract!Next
<1> USE DEF rootVars, workerVars
<1> DEFINE E == Elements(Read.block)
<1>1. /\ input' = input /\ pos' = Read.pos /\ out' = out /\ aborted = "none" /\ aborted' = aborted
      /\ mpc \notin {"stop", "done"} /\ mpc' \notin {"stop", "done"}
    BY DEF Distribute, Advance, MasterAt
<1>2. TypeOK /\ Reader
    BY DEF ProtocolInv, RowsInv
<1>3. {i \in Rows : i <= Read.pos} = TakenRows \cup E /\ E \cap TakenRows = {}
    BY <1>2, ReadRows
<1>4. Rows' = Rows
    BY <1>1, InputKept
<1>5. TakenRows' = TakenRows \cup E /\ Written' = Written /\ Status = "running" /\ Status' = "running"
    BY <1>1, <1>3, <1>4 DEF TakenRows, Written, Status
<1>6. E \in SUBSET Rows /\ E \subseteq Rows \ TakenRows
    BY <1>3
<1> HIDE DEF E
<1>7. UNCHANGED Abstract!inputVars
    BY <1>1, InputOfFarm
<1>8. PICK S \in SUBSET Rows : S = E
    BY <1>6
<1>9. Abstract!Take(S)
    BY <1>5, <1>6, <1>7, <1>8 DEF Abstract!Take, TakenRows, Written, LinesOf, Status
<1> QED BY <1>9 DEF Abstract!Next

\* An answer writes what its worker held, and the next block takes its rows.
LEMMA WriteOfFarm ==
    ASSUME ProtocolInv, RowsInv, NEW w \in Workers, Collect(w) \/ Drain(w)
    PROVE  Abstract!Next
<1> USE DEF rootVars, workerVars
<1> DEFINE E == IF Collect(w) THEN Elements(Read.block) ELSE {}
<1>1. /\ input' = input /\ aborted = "none" /\ aborted' = aborted
      /\ mpc \notin {"stop", "done"} /\ mpc' \notin {"stop", "done"}
    BY DEF Collect, Drain, MasterAt
<1>2. TypeOK /\ Reader /\ Shares
    BY DEF ProtocolInv, RowsInv
<1>3. Rows' = Rows
    BY <1>1, InputKept
<1>4. TakenRows' = TakenRows \cup E /\ E \in SUBSET Rows /\ E \subseteq Rows \ TakenRows
    <2>1. CASE Collect(w)
        <3>1. pos' = Read.pos
            BY <2>1 DEF Collect, Advance
        <3>2. /\ {i \in Rows : i <= Read.pos} = TakenRows \cup Elements(Read.block)
              /\ Elements(Read.block) \cap TakenRows = {}
            BY <1>2, ReadRows
        <3> QED BY <1>3, <2>1, <3>1, <3>2 DEF TakenRows
    <2>2. CASE ~Collect(w)
        <3>1. pos' = pos
            BY <2>2 DEF Drain
        <3> QED BY <1>3, <2>2, <3>1 DEF TakenRows
    <2> QED BY <2>1, <2>2
<1> HIDE DEF E
<1>5. Written' = Written \cup Held(w)
    BY WrittenRows DEF Collect, Drain
<1>6. Held(w) \in SUBSET TakenRows /\ Held(w) \subseteq TakenRows \ Written
    BY <1>2 DEF Shares
<1>7. Status = "running" /\ Status' = "running"
    BY <1>1 DEF Status
<1>8. UNCHANGED Abstract!inputVars
    BY <1>1, InputOfFarm
<1>9. PICK S \in SUBSET Rows : S = E
    BY <1>4
<1>10. PICK W \in SUBSET TakenRows : W = Held(w)
    BY <1>6
<1>11. Abstract!Write(W, S)
    BY <1>4, <1>5, <1>6, <1>7, <1>8, <1>9, <1>10
       DEF Abstract!Write, TakenRows, Written, LinesOf, Status
<1>12. W \in SUBSET {i \in Rows : i <= pos}
    BY DEF TakenRows
<1> QED BY <1>11, <1>12 DEF Abstract!Next

\* The end is announced when no worker holds a row and nothing is left to
\* read.
LEMMA EndOfFarm ==
    ASSUME ProtocolInv, RowsInv, SendEnd PROVE Abstract!Next \/ UNCHANGED Abstract!vars
<1> USE DEF rootVars, workerVars
<1>1. /\ input' = input /\ pos' = pos /\ out' = out /\ aborted = "none" /\ aborted' = aborted
      /\ mpc \in {"drain", "stop"} /\ mpc' \in {"stop", "done"} /\ busy = {}
    BY DEF SendEnd, MasterAt, ProtocolInv, Loops
<1>2. CASE mpc = "stop"
    <2>1. Status' = Status
        BY <1>1, <1>2 DEF Status
    <2> QED BY <1>1, <2>1, StutterOfFarm
<1>3. CASE mpc = "drain"
    <2>1. \A w \in Workers : Held(w) = {}
        <3> TAKE w \in Workers
        <3>1. ~Sent(w) /\ wpc[w] # "run" /\ Len(toMaster[w]) # 1
            BY <1>1 DEF ProtocolInv, Flag
        <3> QED BY <3>1 DEF Held
    <2>2. Written = TakenRows
        BY <2>1 DEF RowsInv, Shares
    <2>3. Gap \/ TakenRows = Rows
        <3>1. Size \in Nat
            BY TakenFacts DEF ProtocolInv
        <3>2. pos = Size \/ Gap
            BY <1>3 DEF RowsInv, Reader, Gap
        <3> QED BY <3>1, <3>2 DEF TakenRows, Rows
    <2>4. Rows' = Rows /\ TakenRows' = TakenRows /\ Written' = Written
        BY <1>1, InputKept DEF TakenRows, Written
    <2>5. Status = "running" /\ Status' = "ended"
        BY <1>1, <1>3 DEF Status
    <2>6. UNCHANGED Abstract!inputVars
        BY <1>1, InputOfFarm
    <2>7. Abstract!End
        BY <2>2, <2>3, <2>4, <2>5, <2>6
           DEF Abstract!End, TakenRows, Written, LinesOf, Status, Gap
    <2> QED BY <2>7 DEF Abstract!Next
<1> QED BY <1>1, <1>2, <1>3

\* A worker that fails ends the program with a failure.
LEMMA FailOfFarm ==
    ASSUME NEW w \in Workers, WorkerFails(w) PROVE Abstract!Next \/ UNCHANGED Abstract!vars
<1> USE DEF rootVars, workerVars
<1>1. /\ input' = input /\ pos' = pos /\ out' = out /\ mpc' = mpc
      /\ aborted = "none" /\ aborted' = "worker"
    BY DEF WorkerFails
<1>2. CASE mpc \in {"stop", "done"}
    <2>1. Status' = Status
        BY <1>1, <1>2 DEF Status
    <2> QED BY <1>1, <2>1, StutterOfFarm
<1>3. CASE mpc \notin {"stop", "done"}
    <2>1. Rows' = Rows /\ TakenRows' = TakenRows /\ Written' = Written
        BY <1>1, InputKept DEF TakenRows, Written
    <2>2. Status = "running" /\ Status' = "failed"
        BY <1>1, <1>3 DEF Status
    <2>3. UNCHANGED Abstract!inputVars
        BY <1>1, InputOfFarm
    <2>4. Abstract!Fail
        BY <2>1, <2>2, <2>3 DEF Abstract!Fail, TakenRows, Written, LinesOf, Status
    <2> QED BY <2>4 DEF Abstract!Next
<1> QED BY <1>2, <1>3

\* Every step of the program is one of Farm, or Farm does not see it.
LEMMA NextOfFarm ==
    ProtocolInv /\ RowsInv /\ [Next]_vars => [Abstract!Next]_(Abstract!vars)
<1> SUFFICES ASSUME ProtocolInv, RowsInv, [Next]_vars
             PROVE  Abstract!Next \/ UNCHANGED Abstract!vars
    OBVIOUS
<1> USE DEF rootVars, workerVars
<1>1. CASE SendHeader
    <2>1. /\ input' = input /\ pos' = pos /\ out' = out /\ aborted' = aborted
          /\ mpc \notin {"stop", "done"} /\ mpc' \notin {"stop", "done"}
        BY <1>1 DEF SendHeader, MasterAt
    <2>2. Status' = Status
        BY <2>1 DEF Status
    <2> QED BY <2>1, <2>2, StutterOfFarm
<1>2. CASE Distribute
    BY <1>2, TakeOfFarm
<1>3. CASE SendEnd
    BY <1>3, EndOfFarm
<1>4. CASE \E w \in Workers : Collect(w) \/ Drain(w)
    BY <1>4, WriteOfFarm
<1>5. CASE \E w \in Workers : WorkerStep(w)
    <2>1. input' = input /\ pos' = pos /\ out' = out /\ mpc' = mpc
        BY <1>5 DEF WorkerStep, RecvHeader, RecvBlock, RecvEnd, Simulate, Reply
    <2>2. aborted' = aborted
        <3>1. aborted' # "order"
            BY NextProtocol DEF ProtocolInv
        <3> QED BY <1>5, <3>1 DEF WorkerStep, RecvHeader, RecvBlock, RecvEnd, Simulate, Reply
    <2>3. Status' = Status
        BY <2>1, <2>2 DEF Status
    <2> QED BY <2>1, <2>3, StutterOfFarm
<1>6. CASE \E w \in Workers : WorkerFails(w)
    BY <1>6, FailOfFarm
<1>7. CASE UNCHANGED vars
    <2>1. input' = input /\ pos' = pos /\ out' = out /\ mpc' = mpc /\ aborted' = aborted
        BY <1>7 DEF vars
    <2>2. Status' = Status
        BY <2>1 DEF Status
    <2> QED BY <2>1, <2>2, StutterOfFarm
<1> QED BY <1>1, <1>2, <1>3, <1>4, <1>5, <1>6, <1>7 DEF Next, Master, Terminated

\* The program ends by itself only when the results of all rows are written
\* (the rows before an empty line that ends the input): its master, workers
\* and messages implement Farm, for any number of workers and any input.
THEOREM ProgramIsAFarm == Spec => ImplementsFarm
<1>1. Init => Abstract!Init
    <2> SUFFICES ASSUME Init PROVE Abstract!Init
        OBVIOUS
    <2>1. TypeOK /\ Size \in Nat
        BY InitProtocol, TakenFacts DEF ProtocolInv
    <2>2. TakenRows = {} /\ Written = {} /\ Rows \subseteq Nat
        BY <2>1, RightEmpty DEF Init, TakenRows, Rows, Written
    <2>3. Status = "running"
        BY DEF Init, Status
    <2>4. Gap \in BOOLEAN
        BY DEF Gap
    <2> QED BY <2>2, <2>3, <2>4 DEF Abstract!Init, TakenRows, Written, LinesOf, Status, Gap
<1> QED BY <1>1, RowsInvariant, NextOfFarm, PTL DEF Spec, ImplementsFarm, Abstract!Spec
=============================================================================
