-------------------------- MODULE ConnectionsProofs --------------------------
(***************************************************************************)
(* Theorems on Connections: whatever executives create, delete, connect    *)
(* and disconnect, both ends of a connection agree on it, the searches of  *)
(* targets and of sources are inverse, the targets that the simulators     *)
(* have cached are those of the graph, and no search reads a freed model.  *)
(***************************************************************************)
EXTENDS Connections, Facts, TLAPS

-----------------------------------------------------------------------------
(* The inductive invariant.                                                *)

\* Every record joins neighbours of the tree.
Shaped(L) == \A k \in Kind : \A e \in L[k] : Local(k, e)

GraphOK(M, P, L) == Symmetric(M, P, L) /\ Shaped(L)

GraphInv == TypeOK /\ (status = "run" /\ ~severed => GraphOK(models, ports, links))

-----------------------------------------------------------------------------
(* Records.                                                                *)

\* A record is determined by its parts.
LEMMA Records ==
    ASSUME NEW e \in Record
    PROVE  /\ Flip(e) \in Record /\ Flip(Flip(e)) = e
           /\ e[1] \in Model /\ e[2] \in Port /\ e[3] \in Model /\ e[4] \in Port
           /\ Flip(e)[1] = e[3] /\ Flip(e)[2] = e[4] /\ Flip(e)[3] = e[1] /\ Flip(e)[4] = e[2]
BY DEF Flip, Record

\* The other record of the other record is the record.
LEMMA Mirrors ==
    ASSUME NEW k \in Kind, NEW e \in Record, Local(k, e)
    PROVE  /\ Mirror(k, e) \in Kind /\ Mirror(k, e) # k
           /\ Local(Mirror(k, e), Flip(e))
           /\ Mirror(Mirror(k, e), Flip(e)) = k
<1>0. /\ e[1] \in Model /\ e[3] \in Model /\ Flip(e)[1] = e[3] /\ Flip(e)[3] = e[1]
    BY Records
<1>1. Parent[e[1]] # e[1] /\ Parent[e[3]] # e[3]
    BY <1>0, ConnectionsAssumption
<1>2. Outward(e) <=> e[3] = Parent[e[1]]
    BY DEF Outward
<1>3. Outward(Flip(e)) <=> e[1] = Parent[e[3]]
    BY <1>0 DEF Outward
<1>4. CASE k = "in"
    <2>1. CASE Outward(e)
        <3>1. Mirror(k, e) = "internalIn"
            BY <1>4, <2>1 DEF Mirror
        <3> QED BY <1>0, <1>2, <1>4, <2>1, <3>1 DEF Mirror, Local, Kind
    <2>2. CASE ~Outward(e)
        <3>1. Mirror(k, e) = "out"
            BY <1>4, <2>2 DEF Mirror
        <3>2. Parent[e[3]] = Parent[e[1]]
            BY <1>4, <2>2 DEF Local
        <3>3. ~Outward(Flip(e))
            BY <1>1, <1>3, <3>2
        <3> QED BY <1>0, <1>4, <3>1, <3>2, <3>3 DEF Mirror, Local, Kind
    <2> QED BY <2>1, <2>2
<1>5. CASE k = "out"
    <2>1. CASE Outward(e)
        <3>1. Mirror(k, e) = "internalOut"
            BY <1>5, <2>1 DEF Mirror
        <3> QED BY <1>0, <1>2, <1>5, <2>1, <3>1 DEF Mirror, Local, Kind
    <2>2. CASE ~Outward(e)
        <3>1. Mirror(k, e) = "in"
            BY <1>5, <2>2 DEF Mirror
        <3>2. Parent[e[3]] = Parent[e[1]]
            BY <1>5, <2>2 DEF Local
        <3>3. ~Outward(Flip(e))
            BY <1>1, <1>3, <3>2
        <3> QED BY <1>0, <1>5, <3>1, <3>2, <3>3 DEF Mirror, Local, Kind
    <2> QED BY <2>1, <2>2
<1>6. CASE k = "internalIn"
    <2>1. Mirror(k, e) = "in" /\ Outward(Flip(e))
        BY <1>3, <1>6 DEF Mirror, Local
    <2> QED BY <1>6, <2>1 DEF Mirror, Local, Kind
<1>7. CASE k = "internalOut"
    <2>1. Mirror(k, e) = "out" /\ Outward(Flip(e))
        BY <1>3, <1>7 DEF Mirror, Local
    <2> QED BY <1>7, <2>1 DEF Mirror, Local, Kind
<1> QED BY <1>4, <1>5, <1>6, <1>7 DEF Kind

\* The list of the other record depends on the models of a record.
LEMMA SameMirror ==
    ASSUME NEW k \in Kind, NEW e, NEW f, e[1] = f[1], e[3] = f[3]
    PROVE  Mirror(k, e) = Mirror(k, f)
<1>1. Outward(e) <=> Outward(f)
    BY DEF Outward
<1> QED BY <1>1 DEF Mirror, Kind

-----------------------------------------------------------------------------
(* Connections made and removed.                                           *)

\* A record added to a list.
LEMMA Added ==
    ASSUME NEW L \in [Kind -> SUBSET Record], NEW k \in Kind, NEW e \in Record
    PROVE  /\ Add(L, k, e) \in [Kind -> SUBSET Record]
           /\ \A j \in Kind : L[j] \subseteq Add(L, k, e)[j]
           /\ e \in Add(L, k, e)[k]
           /\ \A j \in Kind : \A f \in Add(L, k, e)[j] : f \notin L[j] => j = k /\ f = e
BY DEF Add

\* A connection recorded at both ends keeps the graph in order.
LEMMA Connected ==
    ASSUME NEW M, NEW P, NEW L \in [Kind -> SUBSET Record], GraphOK(M, P, L),
           NEW k \in Kind, NEW e \in Record, Local(k, e),
           e[1] \in M, e[3] \in M, e[2] \in P[k][e[1]], e[4] \in P[Mirror(k, e)][e[3]]
    PROVE  LET W == Add(Add(L, k, e), Mirror(k, e), Flip(e))
           IN  W \in [Kind -> SUBSET Record] /\ GraphOK(M, P, W)
<1> DEFINE mk == Mirror(k, e)
           W == Add(Add(L, k, e), mk, Flip(e))
<1>1. /\ mk \in Kind /\ mk # k /\ Local(mk, Flip(e)) /\ Mirror(mk, Flip(e)) = k
      /\ Flip(e) \in Record /\ Flip(Flip(e)) = e
      /\ Flip(e)[1] = e[3] /\ Flip(e)[2] = e[4] /\ Flip(e)[3] = e[1]
    BY Mirrors, Records
<1> HIDE DEF mk
<1>2. /\ W \in [Kind -> SUBSET Record]
      /\ \A j \in Kind : L[j] \subseteq W[j]
      /\ e \in W[k] /\ Flip(e) \in W[mk]
      /\ \A j \in Kind : \A f \in W[j] :
             f \in L[j] \/ (j = k /\ f = e) \/ (j = mk /\ f = Flip(e))
    <2> DEFINE half == Add(L, k, e)
    <2>1. /\ half \in [Kind -> SUBSET Record]
          /\ \A j \in Kind : L[j] \subseteq half[j]
          /\ e \in half[k]
          /\ \A j \in Kind : \A f \in half[j] : f \notin L[j] => j = k /\ f = e
        BY Added
    <2> HIDE DEF half
    <2>2. /\ Add(half, mk, Flip(e)) \in [Kind -> SUBSET Record]
          /\ \A j \in Kind : half[j] \subseteq Add(half, mk, Flip(e))[j]
          /\ Flip(e) \in Add(half, mk, Flip(e))[mk]
          /\ \A j \in Kind : \A f \in Add(half, mk, Flip(e))[j] :
                 f \notin half[j] => j = mk /\ f = Flip(e)
        BY <1>1, <2>1, Added
    <2>3. W = Add(half, mk, Flip(e))
        BY DEF half
    <2> HIDE DEF W
    <2>4. ASSUME NEW j \in Kind PROVE L[j] \subseteq W[j]
        BY <2>1, <2>2, <2>3
    <2>5. ASSUME NEW j \in Kind, NEW f \in W[j]
          PROVE  f \in L[j] \/ (j = k /\ f = e) \/ (j = mk /\ f = Flip(e))
        BY <2>1, <2>2, <2>3
    <2>6. W \in [Kind -> SUBSET Record] /\ e \in W[k] /\ Flip(e) \in W[mk]
        BY <2>1, <2>2, <2>3
    <2> QED BY <2>4, <2>5, <2>6
<1> HIDE DEF W
<1>3. \A j \in Kind : \A f \in L[j] : Mirror(j, f) \in Kind /\ f \in Record /\ Local(j, f)
    BY Mirrors DEF GraphOK, Shaped
<1>4. Symmetric(M, P, W)
    <2> SUFFICES ASSUME NEW j \in Kind, NEW f \in W[j]
                 PROVE  /\ f[1] \in M /\ f[3] \in M /\ f[2] \in P[j][f[1]]
                        /\ Flip(f) \in W[Mirror(j, f)]
        BY DEF Symmetric
    <2>1. CASE f \in L[j]
        <3>1. f[1] \in M /\ f[3] \in M /\ f[2] \in P[j][f[1]] /\ Flip(f) \in L[Mirror(j, f)]
            BY <2>1 DEF GraphOK, Symmetric
        <3>2. Flip(f) \in W[Mirror(j, f)]
            BY <1>2, <1>3, <2>1, <3>1
        <3> QED BY <3>1, <3>2
    <2>2. CASE j = k /\ f = e
        <3>1. Mirror(j, f) = mk
            BY <2>2 DEF mk
        <3> QED BY <1>1, <1>2, <2>2, <3>1
    <2>3. CASE j = mk /\ f = Flip(e)
        <3>1. f[1] \in M /\ f[3] \in M /\ f[2] \in P[j][f[1]]
            BY <1>1, <2>3 DEF mk
        <3>2. Flip(f) = e /\ Mirror(j, f) = k
            BY <1>1, <2>3
        <3>3. Flip(f) \in W[Mirror(j, f)]
            BY <1>2, <3>2
        <3> QED BY <3>1, <3>3
    <2> QED BY <1>2, <2>1, <2>2, <2>3
<1>5. ASSUME NEW j \in Kind, NEW f \in W[j] PROVE Local(j, f)
    BY <1>1, <1>2, <1>3
<1>6. Shaped(W)
    BY <1>5 DEF Shaped
<1> QED BY <1>2, <1>4, <1>6 DEF GraphOK, W, mk

\* Records that go in pairs keep the graph in order.
LEMMA PairsRemoved ==
    ASSUME NEW M, NEW P, NEW Q, NEW L \in [Kind -> SUBSET Record], GraphOK(M, P, L),
           NEW W \in [Kind -> SUBSET Record],
           \A j \in Kind : W[j] \subseteq L[j],
           \A j \in Kind : \A f \in W[j] : /\ Flip(f) \in W[Mirror(j, f)]
                                          /\ f[2] \in Q[j][f[1]]
    PROVE  GraphOK(M, Q, W)
BY DEF GraphOK, Symmetric, Shaped

\* A connection removed at both ends.
LEMMA Disconnected ==
    ASSUME NEW M, NEW P, NEW L \in [Kind -> SUBSET Record], GraphOK(M, P, L),
           NEW k \in Kind, NEW e \in Record, Local(k, e)
    PROVE  LET W == Remove(Remove(L, k, e), Mirror(k, e), Flip(e))
           IN  W \in [Kind -> SUBSET Record] /\ GraphOK(M, P, W)
<1> DEFINE mk == Mirror(k, e)
           W == Remove(Remove(L, k, e), mk, Flip(e))
<1>1. /\ mk \in Kind /\ mk # k /\ Mirror(mk, Flip(e)) = k
      /\ Flip(e) \in Record /\ Flip(Flip(e)) = e
    BY Mirrors, Records
<1> HIDE DEF mk
<1>2. /\ W \in [Kind -> SUBSET Record]
      /\ \A j \in Kind : \A f : f \in W[j] <=> /\ f \in L[j]
                                             /\ ~(j = k /\ f = e)
                                             /\ ~(j = mk /\ f = Flip(e))
    BY <1>1 DEF Remove
<1> HIDE DEF W
<1>3. ASSUME NEW j \in Kind, NEW f \in W[j]
      PROVE  Flip(f) \in W[Mirror(j, f)] /\ f[2] \in P[j][f[1]]
    <2>1. f \in L[j] /\ f \in Record /\ Local(j, f)
        BY <1>2 DEF GraphOK, Shaped
    <2>2. Mirror(j, f) \in Kind /\ Mirror(Mirror(j, f), Flip(f)) = j /\ Flip(Flip(f)) = f
        BY <2>1, Mirrors, Records
    <2>3. Flip(f) \in L[Mirror(j, f)] /\ f[2] \in P[j][f[1]]
        BY <2>1 DEF GraphOK, Symmetric
    <2>4. ~(Mirror(j, f) = k /\ Flip(f) = e)
        BY <1>2, <2>1, <2>2 DEF mk
    <2>5. ~(Mirror(j, f) = mk /\ Flip(f) = Flip(e))
        BY <1>1, <1>2, <2>1, <2>2
    <2> QED BY <1>2, <2>2, <2>3, <2>4, <2>5
<1>4. \A j \in Kind : W[j] \subseteq L[j]
    BY <1>2
<1>5. GraphOK(M, P, W)
    BY <1>2, <1>3, <1>4, PairsRemoved
<1> QED BY <1>2, <1>5 DEF W, mk

\* A port removed with its connections.
LEMMA PortRemoved ==
    ASSUME NEW M, NEW P, NEW Q, NEW L \in [Kind -> SUBSET Record], GraphOK(M, P, L),
           NEW k \in Kind, NEW inner \in Kind, NEW m \in Model, NEW p \in Port,
           ~Severs(L, k, inner, m, p),
           \A j \in Kind, n \in Model : \A r \in P[j][n] :
               ~(j = k /\ n = m /\ r = p) => r \in Q[j][n]
    PROVE  /\ DelPort(L, k, inner, m, p) \in [Kind -> SUBSET Record]
           /\ GraphOK(M, Q, DelPort(L, k, inner, m, p))
<1> DEFINE W == DelPort(L, k, inner, m, p)
           own(kf, f) == kf \in {k, inner} /\ f[1] = m /\ f[2] = p
           erased(kind, e) ==
               \E kf \in {k, inner} : \E f \in L[kf] :
                   /\ own(kf, f)
                   /\ kind = Mirror(kf, f)
                   /\ e[1] = f[3] /\ e[2] = f[4] /\ e[3] = m
<1>1. /\ W \in [Kind -> SUBSET Record]
      /\ \A j \in Kind : \A f : f \in W[j] <=> f \in L[j] /\ ~own(j, f) /\ ~erased(j, f)
    BY DEF DelPort
<1> HIDE DEF W
<1>2. ASSUME NEW j \in Kind, NEW f \in W[j]
      PROVE  Flip(f) \in W[Mirror(j, f)] /\ f[2] \in Q[j][f[1]]
    <2> DEFINE g == Flip(f)
               mj == Mirror(j, f)
    <2>1. f \in L[j] /\ f \in Record /\ Local(j, f) /\ ~own(j, f) /\ ~erased(j, f)
        BY <1>1 DEF GraphOK, Shaped
    <2>2. /\ mj \in Kind /\ Mirror(mj, g) = j /\ Flip(g) = f /\ g \in Record
          /\ g[1] = f[3] /\ g[2] = f[4] /\ g[3] = f[1] /\ g[4] = f[2] /\ f[1] \in Model
        BY <2>1, Mirrors, Records
    <2>3. g \in L[mj] /\ f[2] \in P[j][f[1]]
        BY <2>1 DEF GraphOK, Symmetric
    <2> HIDE DEF g, mj
    <2>4. ~own(mj, g)
        BY <2>1, <2>2, <2>3
    <2>5. ~erased(mj, g)
        <3> SUFFICES ASSUME NEW kf \in {k, inner}, NEW h \in L[kf], own(kf, h),
                            mj = Mirror(kf, h), g[1] = h[3], g[2] = h[4], g[3] = m
                     PROVE  FALSE
            OBVIOUS
        <3>1. h \in Record /\ Local(kf, h) /\ Flip(h) \in L[mj]
            BY DEF GraphOK, Shaped, Symmetric
        <3>2. /\ Flip(h)[1] = h[3] /\ Flip(h)[3] = m /\ Mirror(mj, Flip(h)) = kf
              /\ Flip(Flip(h)) = h
            BY <3>1, Mirrors, Records
        <3>3. Flip(h) = g
            <4>1. g[4] = p
                BY <2>3 DEF Severs
            <4>2. Flip(h)[2] = h[4] /\ Flip(h)[4] = p
                BY <3>1, Records
            <4> QED BY <2>2, <3>1, <3>2, <4>1, <4>2 DEF Record
        <3> QED BY <2>1, <2>2, <3>2, <3>3
    <2>6. f[2] \in Q[j][f[1]]
        BY <2>1, <2>2, <2>3
    <2> QED BY <1>1, <2>2, <2>3, <2>4, <2>5, <2>6 DEF g, mj
<1>3. \A j \in Kind : W[j] \subseteq L[j]
    BY <1>1
<1>4. GraphOK(M, Q, W)
    BY <1>1, <1>2, <1>3, PairsRemoved
<1> QED BY <1>1, <1>4 DEF W

-----------------------------------------------------------------------------
(* Models deleted.                                                         *)

\* A subtree holds its root and the children of its models, and every other
\* model of it has its parent in it.
LEMMA Subtrees ==
    ASSUME NEW m \in Model
    PROVE  /\ m \in Subtree[m] /\ Subtree[m] \subseteq Model
           /\ \A x \in Model : Parent[x] \in Subtree[m] => x \in Subtree[m]
           /\ \A x \in Subtree[m] : x # m => Parent[x] \in Subtree[m]
<1> DEFINE T == Subtree[m]
           Closed(S) == m \in S /\ \A x \in Model : Parent[x] \in S => x \in S
<1>1. \A n : n \in T <=> n \in Model /\ \A S \in SUBSET Model : Closed(S) => n \in S
    BY DEF Subtree
<1> HIDE DEF T
<1>2. m \in T /\ T \subseteq Model
    BY <1>1
<1>3. ASSUME NEW x \in Model, Parent[x] \in T PROVE x \in T
    BY <1>1, <1>3
<1>4. ASSUME NEW x \in T, x # m, Parent[x] \notin T PROVE FALSE
    <2>1. T \ {x} \in SUBSET Model /\ m \in T \ {x}
        BY <1>2, <1>4
    <2>2. ASSUME NEW y \in Model, Parent[y] \in T \ {x} PROVE y \in T \ {x}
        BY <1>3, <1>4, <2>2
    <2>3. x \in T \ {x}
        BY <1>1, <2>1, <2>2
    <2> QED BY <2>3
<1> QED BY <1>2, <1>3, <1>4 DEF T

\* A model deleted with its subtree and their connections.
LEMMA Deleted ==
    ASSUME NEW M, NEW P, NEW Q, NEW L \in [Kind -> SUBSET Record], GraphOK(M, P, L),
           NEW m \in Model,
           \A j \in Kind, n \in Model : n \notin Subtree[m] => Q[j][n] = P[j][n]
    PROVE  /\ DelAllConnection(L, m) \in [Kind -> SUBSET Record]
           /\ GraphOK(M \ Subtree[m], Q, DelAllConnection(L, m))
<1> DEFINE W == DelAllConnection(L, m)
           removed(kind, e) == \E k \in {"in", "out"} :
               e[3] = m /\ Flip(e) \in L[k] /\ Mirror(k, Flip(e)) = kind
<1>1. /\ W \in [Kind -> SUBSET Record]
      /\ \A j \in Kind : \A f : f \in W[j] <=> /\ f \in L[j] /\ f[1] \notin Subtree[m]
                                             /\ ~removed(j, f)
    BY DEF DelAllConnection
<1> HIDE DEF W
<1>2. ASSUME NEW j \in Kind, NEW f \in W[j]
      PROVE  /\ f[1] \in M \ Subtree[m] /\ f[3] \in M \ Subtree[m] /\ f[2] \in Q[j][f[1]]
             /\ Flip(f) \in W[Mirror(j, f)]
    <2> DEFINE g == Flip(f)
               mj == Mirror(j, f)
    <2>1. f \in L[j] /\ f \in Record /\ Local(j, f) /\ f[1] \notin Subtree[m] /\ ~removed(j, f)
        BY <1>1 DEF GraphOK, Shaped
    <2>2. /\ mj \in Kind /\ Mirror(mj, g) = j /\ Flip(g) = f /\ g \in Record
          /\ g[1] = f[3] /\ g[3] = f[1] /\ f[1] \in Model /\ f[3] \in Model
        BY <2>1, Mirrors, Records
    <2>3. g \in L[mj] /\ f[1] \in M /\ f[3] \in M /\ f[2] \in P[j][f[1]]
        BY <2>1 DEF GraphOK, Symmetric
    <2>4. CASE f[3] \in Subtree[m]
        <3>1. ~Outward(f)
            BY <2>1, <2>2, <2>4, Subtrees DEF Outward
        <3>2. CASE f[3] = m
            <4>1. mj \in {"in", "out"}
                BY <3>1 DEF Mirror, Kind
            <4> HIDE DEF g, mj
            <4> QED BY <2>1, <2>2, <2>3, <3>2, <4>1 DEF g
        <3>3. CASE f[3] # m
            <4>1. Parent[f[3]] \in Subtree[m]
                BY <2>4, <3>3, Subtrees
            <4>2. Parent[f[3]] = Parent[f[1]] \/ Parent[f[3]] = f[1]
                BY <2>1, <3>1 DEF Local
            <4> QED BY <2>1, <2>2, <4>1, <4>2, Subtrees
        <3> QED BY <3>2, <3>3
    <2>5. CASE f[3] \notin Subtree[m]
        <3>1. m \in Subtree[m]
            BY Subtrees
        <3> HIDE DEF g, mj
        <3>2. ~removed(mj, g)
            BY <2>1, <2>2, <3>1
        <3>3. g \in W[mj]
            BY <1>1, <2>2, <2>3, <2>5, <3>2
        <3> QED BY <2>1, <2>2, <2>3, <2>5, <3>3 DEF g, mj
    <2> QED BY <2>4, <2>5
<1>3. Symmetric(M \ Subtree[m], Q, W)
    BY <1>2 DEF Symmetric
<1>4. Shaped(W)
    BY <1>1 DEF GraphOK, Shaped
<1> QED BY <1>1, <1>3, <1>4 DEF GraphOK, W

-----------------------------------------------------------------------------
(* The operations.                                                         *)

\* How an operation may end.
Ends == {"run", "thrown", "undefined"}

\* How searches end.
LEMMA Searches ==
    /\ \A M, P, L, up, m, p : WalkStatus(M, P, L, up, m, p) \in Ends
    /\ \A M, P, L, A : SourcesStatus(M, P, L, A) \in Ends
BY DEF WalkStatus, SourcesStatus, Ends

\* The counters of an operation.
LEMMA Operated ==
    ASSUME TypeOK, NEW o, NEW cuts, Operate(o, cuts)
    PROVE  /\ status = "run" /\ bypass' \in BOOLEAN /\ ops' \in 0 .. MaxOps
           /\ severed' \in BOOLEAN /\ (~severed' => ~severed /\ ~cuts)
<1>1. /\ status = "run" /\ bypass' \in BOOLEAN
      /\ severed' \in BOOLEAN /\ (~severed' => ~severed /\ ~cuts)
    BY DEF Operate, TypeOK
<1>2. ops' \in 0 .. MaxOps
    BY ConnectionsAssumption DEF Operate, TypeOK
<1> QED BY <1>1, <1>2

\* The targets that are computed again.
Retargets == \E M, P, L, S : Retarget(M, P, L, S)

\* What the targets are computed from does not matter for their type.
LEMMA Retargeted ==
    ASSUME TypeOK, Retargets
    PROVE  /\ status' \in Ends
           /\ DOMAIN mTargets' = Atomic /\ \A s \in Atomic : DOMAIN mTargets'[s] \subseteq Port
<1>0. PICK M, P, L, S : Retarget(M, P, L, S)
    BY DEF Retargets
<1>1. status' \in Ends
    BY <1>0 DEF Retarget, Ends
<1>2. DOMAIN mTargets' = Atomic
    BY <1>0 DEF Retarget
<1>3. ASSUME NEW s \in Atomic PROVE DOMAIN mTargets'[s] \subseteq Port
    BY <1>0 DEF Retarget, NoTargets, TypeOK
<1> QED BY <1>1, <1>2, <1>3

\* The models a connection of c joins.
LEMMA Joins ==
    ASSUME TypeOK, NEW c \in Coupled \cap models, NEW m \in Joinable(c), NEW n \in Joinable(c),
           NEW p \in Port, NEW q \in Port
    PROVE  LET e == <<m, p, n, q>>
               k == SourceKind(c, e)
           IN  /\ e \in Record /\ k \in Kind /\ Mirror(k, e) \in Kind
               /\ e[1] \in models /\ e[3] \in models
               /\ ~(e[1] = c /\ e[3] = c) => Local(k, e)
<1> DEFINE e == <<m, p, n, q>>
           k == SourceKind(c, e)
<1>1. m \in models /\ n \in models /\ m \in Model /\ n \in Model /\ c \in Model
    BY DEF TypeOK, Joinable, Children, Model
<1>2. e \in Record /\ e[1] = m /\ e[3] = n
    BY <1>1 DEF Record
<1>3. k \in Kind /\ Mirror(k, e) \in Kind
    BY DEF SourceKind, Mirror, Kind
<1>4. ~(m = c /\ n = c) => Local(k, e)
    <2>1. (m = c \/ Parent[m] = c) /\ (n = c \/ Parent[n] = c)
        BY DEF Joinable, Children
    <2>2. CASE m = c
        BY <1>2, <2>1, <2>2 DEF SourceKind, Local
    <2>3. CASE m # c
        BY <1>2, <2>1, <2>3 DEF SourceKind, Local, Outward
    <2> QED BY <2>2, <2>3
<1> QED BY <1>1, <1>2, <1>3, <1>4

\* Executive::addConnection: both ends get their record, or it throws.
LEMMA AddStep ==
    ASSUME GraphInv, NEW c \in Coupled \cap models,
           NEW m \in Joinable(c), NEW n \in Joinable(c), NEW p \in Port, NEW q \in Port,
           AddConnection(c, <<m, p, n, q>>)
    PROVE  GraphInv'
<1> DEFINE e == <<m, p, n, q>>
           k == SourceKind(c, e)
           mk == Mirror(k, e)
           half == Add(links, k, e)
           whole == Add(half, mk, Flip(e))
<1>1. /\ e \in Record /\ k \in Kind /\ mk \in Kind /\ e[1] \in models /\ e[3] \in models
      /\ ~(e[1] = c /\ e[3] = c) => Local(k, e)
    BY Joins DEF GraphInv
<1>2. /\ status = "run" /\ bypass' \in BOOLEAN /\ ops' \in 0 .. MaxOps
      /\ severed' \in BOOLEAN /\ (~severed' => ~severed)
      /\ models' = models /\ freed' = freed /\ m_isStarted' = m_isStarted
    BY Operated DEF AddConnection, GraphInv
<1>3. \/ /\ status' \in Ends \ {"run"} /\ links' \in {links, half, whole}
         /\ ports' = ports /\ mTargets' = mTargets
      \/ /\ ~(e[1] = c /\ e[3] = c) /\ e[2] \in ports[k][e[1]] /\ e[4] \in ports[mk][e[3]]
         /\ links' = whole /\ ports' = ports
         /\ Retargets
    BY Searches DEF AddConnection, Stop, Ends, Retargets
<1> HIDE DEF e, k, mk
<1>4. half \in [Kind -> SUBSET Record] /\ whole \in [Kind -> SUBSET Record]
    <2>1. half \in [Kind -> SUBSET Record]
        BY <1>1, Added DEF GraphInv, TypeOK
    <2> HIDE DEF half
    <2>2. Flip(e) \in Record
        BY <1>1, Records
    <2> QED BY <1>1, <2>1, <2>2, Added
<1> HIDE DEF half, whole
<1>5. /\ status' \in Ends
      /\ DOMAIN mTargets' = Atomic /\ \A s \in Atomic : DOMAIN mTargets'[s] \subseteq Port
    BY <1>3, Retargeted DEF GraphInv, TypeOK
<1>6. ports' = ports /\ links' \in [Kind -> SUBSET Record]
    BY <1>3, <1>4 DEF GraphInv, TypeOK
<1>7. TypeOK'
    BY <1>2, <1>5, <1>6 DEF GraphInv, TypeOK, Ends
<1>8. CASE status' # "run" \/ severed'
    BY <1>7, <1>8 DEF GraphInv
<1>9. CASE status' = "run" /\ ~severed'
    <2>1. GraphOK(models, ports, whole)
        BY <1>1, <1>2, <1>3, <1>9, Connected DEF GraphInv, TypeOK, mk, half, whole
    <2>2. links' = whole
        BY <1>3, <1>9
    <2> QED BY <1>2, <1>6, <1>7, <2>1, <2>2 DEF GraphInv
<1> QED BY <1>8, <1>9

\* Executive::removeConnection: both ends lose their record, or it throws.
LEMMA RemoveStep ==
    ASSUME GraphInv, NEW c \in Coupled \cap models,
           NEW m \in Joinable(c), NEW n \in Joinable(c), NEW p \in Port, NEW q \in Port,
           RemoveConnection(c, <<m, p, n, q>>)
    PROVE  GraphInv'
<1> DEFINE e == <<m, p, n, q>>
           k == SourceKind(c, e)
           mk == Mirror(k, e)
           half == Remove(links, k, e)
           whole == Remove(half, mk, Flip(e))
<1>1. /\ e \in Record /\ k \in Kind /\ mk \in Kind
      /\ ~(e[1] = c /\ e[3] = c) => Local(k, e)
    BY Joins DEF GraphInv
<1>2. /\ status = "run" /\ bypass' \in BOOLEAN /\ ops' \in 0 .. MaxOps
      /\ severed' \in BOOLEAN /\ (~severed' => ~severed)
      /\ models' = models /\ freed' = freed /\ m_isStarted' = m_isStarted
    <2>1. PICK o : Operate(o, FALSE)
        BY DEF RemoveConnection
    <2> QED BY <2>1, Operated DEF RemoveConnection, GraphInv
<1>3. \/ /\ status' \in Ends \ {"run"} /\ links' \in {links, half}
         /\ ports' = ports /\ mTargets' = mTargets
      \/ /\ ~(e[1] = c /\ e[3] = c)
         /\ links' = whole /\ ports' = ports
         /\ Retargets
    BY Searches DEF RemoveConnection, Stop, Ends, Retargets
<1> HIDE DEF e, k, mk
<1>4. half \in [Kind -> SUBSET Record] /\ whole \in [Kind -> SUBSET Record]
    BY <1>1 DEF GraphInv, TypeOK, Remove
<1> HIDE DEF half, whole
<1>5. /\ status' \in Ends
      /\ DOMAIN mTargets' = Atomic /\ \A s \in Atomic : DOMAIN mTargets'[s] \subseteq Port
    BY <1>3, Retargeted DEF GraphInv, TypeOK
<1>6. ports' = ports /\ links' \in [Kind -> SUBSET Record]
    BY <1>3, <1>4 DEF GraphInv, TypeOK
<1>7. TypeOK'
    BY <1>2, <1>5, <1>6 DEF GraphInv, TypeOK, Ends
<1>8. CASE status' # "run" \/ severed'
    BY <1>7, <1>8 DEF GraphInv
<1>9. CASE status' = "run" /\ ~severed'
    <2>1. GraphOK(models, ports, whole)
        BY <1>1, <1>2, <1>3, <1>9, Disconnected DEF GraphInv, TypeOK, mk, half, whole
    <2>2. links' = whole
        BY <1>3, <1>9
    <2> QED BY <1>2, <1>6, <1>7, <2>1, <2>2 DEF GraphInv
<1> QED BY <1>8, <1>9

\* A model is created without connections: no record names it.
LEMMA CreateStep ==
    ASSUME GraphInv, NEW m \in Model, NEW I \in SUBSET Port, NEW O \in SUBSET Port,
           CreateModel(m, I, O)
    PROVE  GraphInv'
<1>1. /\ status = "run" /\ bypass' \in BOOLEAN /\ ops' \in 0 .. MaxOps
      /\ severed' \in BOOLEAN /\ (~severed' => ~severed)
      /\ m \notin models /\ models' = models \cup {m} /\ freed' = freed
      /\ links' = links /\ mTargets' = mTargets /\ m_isStarted' = m_isStarted
      /\ status' = status
    BY Operated DEF CreateModel, GraphInv
<1>2. /\ ports' \in [Kind -> [Model -> SUBSET Port]]
      /\ \A j \in Kind : \A n \in Model : n # m => ports'[j][n] = ports[j][n]
    BY DEF CreateModel, GraphInv, TypeOK, Kind
<1>3. TypeOK'
    BY <1>1, <1>2 DEF GraphInv, TypeOK
<1>4. ASSUME ~severed'
      PROVE  Symmetric(models', ports', links)
    <2> SUFFICES ASSUME NEW j \in Kind, NEW f \in links[j]
                 PROVE  /\ f[1] \in models' /\ f[3] \in models' /\ f[2] \in ports'[j][f[1]]
                        /\ Flip(f) \in links[Mirror(j, f)]
        BY DEF Symmetric
    <2>1. /\ f[1] \in models /\ f[3] \in models /\ f[2] \in ports[j][f[1]]
          /\ Flip(f) \in links[Mirror(j, f)] /\ f[1] \in Model
        BY <1>1, <1>4 DEF GraphInv, GraphOK, Symmetric, TypeOK
    <2> QED BY <1>1, <1>2, <2>1
<1>5. ~severed' => GraphOK(models', ports', links')
    BY <1>1, <1>4 DEF GraphInv, GraphOK
<1> QED BY <1>3, <1>5 DEF GraphInv

\* A new port has no connections.
LEMMA AddPortStep ==
    ASSUME GraphInv, NEW m \in Model, NEW p \in Port, NEW k \in Kind, NEW inner \in Kind,
           k # inner, AddPort(m, p, k, inner)
    PROVE  GraphInv'
<1>1. /\ status = "run" /\ bypass' \in BOOLEAN /\ ops' \in 0 .. MaxOps
      /\ severed' \in BOOLEAN /\ (~severed' => ~severed)
      /\ models' = models /\ freed' = freed
      /\ links' = links /\ mTargets' = mTargets /\ m_isStarted' = m_isStarted
      /\ status' = status
    BY Operated DEF AddPort, GraphInv
<1>2. /\ ports' \in [Kind -> [Model -> SUBSET Port]]
      /\ \A j \in Kind : \A n \in Model : ports[j][n] \subseteq ports'[j][n]
    <2>1. ports \in [Kind -> [Model -> SUBSET Port]]
        BY DEF GraphInv, TypeOK
    <2>2. CASE m \in Coupled
        <3>1. \A j \in Kind : j \notin {k, inner} => ports'[j] = ports[j]
            BY <2>1, <2>2 DEF AddPort
        <3>2. \A j \in {k, inner} : ports'[j] = [ports[j] EXCEPT ![m] = @ \cup {p}]
            BY <2>1, <2>2 DEF AddPort
        <3>3. ports' = [j \in Kind |-> ports'[j]]
            BY <2>1 DEF AddPort
        <3>4. \A j \in Kind : ports'[j] \in [Model -> SUBSET Port]
            BY <2>1, <3>1, <3>2
        <3>5. \A j \in Kind : \A n \in Model : ports[j][n] \subseteq ports'[j][n]
            BY <2>1, <3>1, <3>2
        <3>6. ports' \in [Kind -> [Model -> SUBSET Port]]
            BY <3>3, <3>4
        <3> QED BY <3>5, <3>6
    <2>3. CASE m \notin Coupled
        BY <2>1, <2>3 DEF AddPort
    <2> QED BY <2>2, <2>3
<1>3. TypeOK'
    BY <1>1, <1>2 DEF GraphInv, TypeOK
<1>4. ASSUME ~severed' PROVE Symmetric(models, ports', links)
    <2> SUFFICES ASSUME NEW j \in Kind, NEW f \in links[j]
                 PROVE  /\ f[1] \in models /\ f[3] \in models /\ f[2] \in ports'[j][f[1]]
                        /\ Flip(f) \in links[Mirror(j, f)]
        BY DEF Symmetric
    <2>1. /\ f[1] \in models /\ f[3] \in models /\ f[2] \in ports[j][f[1]]
          /\ Flip(f) \in links[Mirror(j, f)] /\ f[1] \in Model
        BY <1>1, <1>4 DEF GraphInv, GraphOK, Symmetric, TypeOK
    <2> QED BY <1>2, <2>1
<1>5. ~severed' => GraphOK(models', ports', links')
    BY <1>1, <1>4 DEF GraphInv, GraphOK
<1> QED BY <1>3, <1>5 DEF GraphInv

\* A port removed, in any of the three ways.
LEMMA PortStep ==
    ASSUME GraphInv, status = "run", NEW k \in Kind, NEW inner \in Kind,
           NEW m \in Model, NEW p \in Port,
           models' = models, freed' = freed, m_isStarted' = m_isStarted,
           bypass' \in BOOLEAN, ops' \in 0 .. MaxOps, status' \in Ends, severed' \in BOOLEAN,
           ~severed' => ~severed /\ ~Severs(links, k, inner, m, p),
           DOMAIN mTargets' = Atomic, \A s \in Atomic : DOMAIN mTargets'[s] \subseteq Port,
           \/ status' # "run" /\ links' = links /\ ports' = ports
           \/ /\ links' = DelPort(links, k, inner, m, p)
              /\ ports' = [ports EXCEPT ![k][m] = @ \ {p}]
    PROVE  GraphInv'
<1>1. CASE status' # "run" /\ links' = links /\ ports' = ports
    BY <1>1 DEF GraphInv, TypeOK, Ends
<1>2. CASE /\ links' = DelPort(links, k, inner, m, p)
           /\ ports' = [ports EXCEPT ![k][m] = @ \ {p}]
    <2>1. /\ ports' \in [Kind -> [Model -> SUBSET Port]]
          /\ \A j \in Kind, n \in Model : \A r \in ports[j][n] :
                 ~(j = k /\ n = m /\ r = p) => r \in ports'[j][n]
        BY <1>2 DEF GraphInv, TypeOK
    <2>2. links' \in [Kind -> SUBSET Record]
        BY <1>2 DEF DelPort, GraphInv, TypeOK
    <2>3. TypeOK'
        BY <2>1, <2>2 DEF GraphInv, TypeOK, Ends
    <2>4. ASSUME ~severed'
          PROVE  GraphOK(models, ports', links')
        <3>1. links \in [Kind -> SUBSET Record] /\ GraphOK(models, ports, links)
            BY <2>4 DEF GraphInv, TypeOK
        <3> QED BY <1>2, <2>1, <2>4, <3>1, PortRemoved
    <2> QED BY <2>3, <2>4 DEF GraphInv
<1> QED BY <1>1, <1>2

\* Executive::removeInputPort.
LEMMA RemoveInputPortStep ==
    ASSUME GraphInv, NEW m \in Model, NEW p \in Port, RemoveInputPort(m, p)
    PROVE  GraphInv'
<1>1. /\ status = "run" /\ bypass' \in BOOLEAN /\ ops' \in 0 .. MaxOps
      /\ severed' \in BOOLEAN /\ (~severed' => ~severed /\ ~Severs(links, "in", "internalIn", m, p))
      /\ models' = models /\ freed' = freed /\ m_isStarted' = m_isStarted
    BY Operated DEF RemoveInputPort, GraphInv
<1>2. \/ /\ status' \in Ends \ {"run"} /\ links' = links /\ ports' = ports
         /\ mTargets' = mTargets
      \/ /\ links' = DelPort(links, "in", "internalIn", m, p)
         /\ ports' = [ports EXCEPT !["in"][m] = @ \ {p}]
         /\ Retargets
    BY Searches DEF RemoveInputPort, Stop, Ends, Retargets
<1>3. /\ status' \in Ends
      /\ DOMAIN mTargets' = Atomic /\ \A s \in Atomic : DOMAIN mTargets'[s] \subseteq Port
    BY <1>2, Retargeted DEF GraphInv, TypeOK
<1>4. "in" \in Kind /\ "internalIn" \in Kind
    BY DEF Kind
<1> QED BY <1>1, <1>2, <1>3, <1>4, PortStep

\* Executive::removeOutputPort of a coupled model.
LEMMA RemoveCoupledOutputPortStep ==
    ASSUME GraphInv, NEW m \in Model, NEW p \in Port, RemoveCoupledOutputPort(m, p)
    PROVE  GraphInv'
<1>1. /\ status = "run" /\ bypass' \in BOOLEAN /\ ops' \in 0 .. MaxOps
      /\ severed' \in BOOLEAN /\ (~severed' => ~severed /\ ~Severs(links, "out", "internalOut", m, p))
      /\ models' = models /\ freed' = freed /\ m_isStarted' = m_isStarted
    BY Operated DEF RemoveCoupledOutputPort, GraphInv
<1>2. \/ /\ status' \in Ends \ {"run"} /\ links' = links /\ ports' = ports
         /\ mTargets' = mTargets
      \/ /\ links' = DelPort(links, "out", "internalOut", m, p)
         /\ ports' = [ports EXCEPT !["out"][m] = @ \ {p}]
         /\ Retargets
    BY Searches DEF RemoveCoupledOutputPort, Stop, Ends, Retargets
<1>3. /\ status' \in Ends
      /\ DOMAIN mTargets' = Atomic /\ \A s \in Atomic : DOMAIN mTargets'[s] \subseteq Port
    BY <1>2, Retargeted DEF GraphInv, TypeOK
<1>4. "out" \in Kind /\ "internalOut" \in Kind
    BY DEF Kind
<1> QED BY <1>1, <1>2, <1>3, <1>4, PortStep

\* Executive::removeOutputPort of an atomic model.
LEMMA RemoveOutputPortStep ==
    ASSUME GraphInv, NEW m \in Model, NEW p \in Port, RemoveOutputPort(m, p)
    PROVE  GraphInv'
<1>1. /\ status = "run" /\ bypass' \in BOOLEAN /\ ops' \in 0 .. MaxOps
      /\ severed' \in BOOLEAN /\ (~severed' => ~severed /\ ~Severs(links, "out", "internalOut", m, p))
      /\ models' = models /\ freed' = freed /\ m_isStarted' = m_isStarted /\ m \in Atomic
    BY Operated DEF RemoveOutputPort, GraphInv
<1>2. \/ /\ status' \in Ends \ {"run"} /\ links' = links /\ ports' = ports
         /\ mTargets' = mTargets
      \/ /\ links' = DelPort(links, "out", "internalOut", m, p)
         /\ ports' = [ports EXCEPT !["out"][m] = @ \ {p}]
         /\ RemoveTargetPort(m, p) /\ status' = status
    BY DEF RemoveOutputPort, Stop, Ends
<1>3. RemoveTargetPort(m, p) =>
          DOMAIN mTargets' = Atomic /\ \A s \in Atomic : DOMAIN mTargets'[s] \subseteq Port
    <2> SUFFICES ASSUME RemoveTargetPort(m, p)
                 PROVE  /\ DOMAIN mTargets' = Atomic
                        /\ \A s \in Atomic : DOMAIN mTargets'[s] \subseteq Port
        OBVIOUS
    <2>1. DOMAIN mTargets = Atomic /\ \A s \in Atomic : DOMAIN mTargets[s] \subseteq Port
        BY DEF GraphInv, TypeOK
    <2>2. CASE mTargets' = mTargets
        BY <2>1, <2>2
    <2>3. CASE mTargets' = [mTargets EXCEPT ![m] =
                                [r \in DOMAIN mTargets[m] \ {p} |-> mTargets[m][r]]]
        <3>1. DOMAIN mTargets' = Atomic
            BY <2>1, <2>3
        <3>2. ASSUME NEW s \in Atomic PROVE DOMAIN mTargets'[s] \subseteq DOMAIN mTargets[s]
            <4>1. CASE s = m
                BY <2>1, <2>3, <4>1
            <4>2. CASE s # m
                BY <2>1, <2>3, <4>2
            <4> QED BY <4>1, <4>2
        <3> QED BY <2>1, <3>1, <3>2
    <2>4. ASSUME NEW t, mTargets' = [mTargets EXCEPT ![m][p] = @ (-) SetToBag({t})]
          PROVE  /\ DOMAIN mTargets' = Atomic
                 /\ \A s \in Atomic : DOMAIN mTargets'[s] \subseteq Port
        <3>1. DOMAIN mTargets' = Atomic
            BY <2>1, <2>4
        <3>2. ASSUME NEW s \in Atomic PROVE DOMAIN mTargets'[s] = DOMAIN mTargets[s]
            <4>1. CASE s = m
                BY <2>1, <2>4, <4>1
            <4>2. CASE s # m
                BY <2>1, <2>4, <4>2
            <4> QED BY <4>1, <4>2
        <3> QED BY <2>1, <3>1, <3>2
    <2> QED BY <2>2, <2>3, <2>4 DEF RemoveTargetPort
<1>4. /\ status' \in Ends
      /\ DOMAIN mTargets' = Atomic /\ \A s \in Atomic : DOMAIN mTargets'[s] \subseteq Port
    BY <1>1, <1>2, <1>3 DEF GraphInv, TypeOK, Ends
<1>5. "out" \in Kind /\ "internalOut" \in Kind
    BY DEF Kind
<1> QED BY <1>1, <1>2, <1>4, <1>5, PortStep

\* Coordinator::dynamic_deletion: the connections of the subtree go with it.
LEMMA DeleteStep ==
    ASSUME GraphInv, NEW m \in Model, DeleteModel(m)
    PROVE  GraphInv'
<1> DEFINE P == [k \in Kind |-> [n \in Model |->
                    IF n \in Subtree[m] THEN {} ELSE ports[k][n]]]
<1>1. /\ status = "run" /\ bypass' \in BOOLEAN /\ ops' \in 0 .. MaxOps
      /\ severed' \in BOOLEAN /\ (~severed' => ~severed) /\ m_isStarted' = m_isStarted
    BY Operated DEF DeleteModel, GraphInv
<1>2. \/ /\ status' \in Ends \ {"run"} /\ links' = links /\ ports' = ports
         /\ mTargets' = mTargets /\ models' = models /\ freed' = freed
      \/ /\ links' = DelAllConnection(links, m) /\ ports' = P
         /\ models' = models \ Subtree[m] /\ freed' = freed \cup (models \cap Subtree[m])
         /\ Retargets
    BY Searches DEF DeleteModel, Stop, Ends, Retargets
<1>3. /\ P \in [Kind -> [Model -> SUBSET Port]]
      /\ \A j \in Kind, n \in Model : n \notin Subtree[m] => P[j][n] = ports[j][n]
    BY DEF GraphInv, TypeOK
<1> HIDE DEF P
<1>4. /\ status' \in Ends /\ models' \subseteq Model /\ freed' \subseteq Model
      /\ DOMAIN mTargets' = Atomic /\ \A s \in Atomic : DOMAIN mTargets'[s] \subseteq Port
    BY <1>2, Retargeted DEF GraphInv, TypeOK
<1>5. /\ links \in [Kind -> SUBSET Record]
      /\ DelAllConnection(links, m) \in [Kind -> SUBSET Record]
    BY DEF GraphInv, TypeOK, DelAllConnection
<1>6. ~severed' => GraphOK(models \ Subtree[m], P, DelAllConnection(links, m))
    <2> SUFFICES ASSUME ~severed'
                 PROVE  GraphOK(models \ Subtree[m], P, DelAllConnection(links, m))
        OBVIOUS
    <2>1. GraphOK(models, ports, links)
        BY <1>1 DEF GraphInv
    <2> QED BY <1>3, <1>5, <2>1, Deleted
<1>7. ports' \in [Kind -> [Model -> SUBSET Port]] /\ links' \in [Kind -> SUBSET Record]
    BY <1>2, <1>3, <1>5, <1>6 DEF GraphInv, TypeOK
<1>8. TypeOK'
    BY <1>1, <1>4, <1>7 DEF GraphInv, TypeOK, Ends
<1>9. status' = "run" /\ ~severed' => GraphOK(models', ports', links')
    BY <1>2, <1>6
<1> QED BY <1>8, <1>9 DEF GraphInv

-----------------------------------------------------------------------------
(* Theorems.                                                               *)

\* Every step keeps the graph in order.
LEMMA GraphStep ==
    ASSUME GraphInv, Next
    PROVE  GraphInv'
<1>1. ASSUME NEW c \in Coupled \cap models, Change(c) PROVE GraphInv'
    <2>1. \A m \in Children(c) : m \in Model
        BY DEF Children, GraphInv, TypeOK
    <2>2. CASE \E m \in Model, I, O \in SUBSET Port : CreateModel(m, I, O)
        BY <2>2, CreateStep
    <2>3. CASE \E m, n \in Joinable(c), p, q \in Port : AddConnection(c, <<m, p, n, q>>)
        BY <2>3, AddStep
    <2>4. CASE \E m, n \in Joinable(c), p, q \in Port : RemoveConnection(c, <<m, p, n, q>>)
        BY <2>4, RemoveStep
    <2>5. CASE \E m \in Children(c), p \in Port :
                  AddPort(m, p, "in", "internalIn") \/ AddPort(m, p, "out", "internalOut")
        BY <2>1, <2>5, AddPortStep DEF Kind
    <2>6. CASE \E m \in Children(c), p \in Port : RemoveInputPort(m, p)
        BY <2>1, <2>6, RemoveInputPortStep
    <2>7. CASE \E m \in Children(c), p \in Port : RemoveOutputPort(m, p)
        BY <2>1, <2>7, RemoveOutputPortStep
    <2>8. CASE \E m \in Children(c), p \in Port : RemoveCoupledOutputPort(m, p)
        BY <2>1, <2>8, RemoveCoupledOutputPortStep
    <2>9. CASE \E m \in Children(c) : DeleteModel(m)
        BY <2>1, <2>9, DeleteStep
    <2> QED BY <1>1, <2>2, <2>3, <2>4, <2>5, <2>6, <2>7, <2>8, <2>9 DEF Change
<1>2. CASE Start
    BY <1>2 DEF Start, history, GraphInv, TypeOK
<1>3. ASSUME NEW s \in Atomic \cap models, NEW p \in Port, Send(s, p) PROVE GraphInv'
    <2>1. /\ status = "run" /\ UNCHANGED <<models, freed, ports, links, m_isStarted, bypass, severed, ops>>
          /\ (status' \in {"run", "undefined"} /\ mTargets' = mTargets) \/ Retargets
        BY <1>3 DEF Send, Retargets, history
    <2>2. /\ status' \in Ends
          /\ DOMAIN mTargets' = Atomic /\ \A t \in Atomic : DOMAIN mTargets'[t] \subseteq Port
        BY <2>1, Retargeted DEF GraphInv, TypeOK, Ends
    <2> QED BY <2>1, <2>2 DEF GraphInv, TypeOK, Ends
<1>4. CASE Terminated
    BY <1>4 DEF Terminated, vars, history, GraphInv, TypeOK
<1> QED BY <1>1, <1>2, <1>3, <1>4 DEF Next

\* The invariant of the graph holds.
THEOREM GraphInvariant == Spec => []GraphInv
<1>1. Init => GraphInv
    <2>1. Init => TypeOK
        <3> SUFFICES ASSUME Init PROVE TypeOK
            OBVIOUS
        <3>1. /\ models \subseteq Model /\ freed \subseteq Model
              /\ ports \in [Kind -> [Model -> SUBSET Port]] /\ links \in [Kind -> SUBSET Record]
              /\ ops \in 0 .. MaxOps
            BY ConnectionsAssumption DEF Init
        <3>2. DOMAIN mTargets = Atomic /\ \A s \in Atomic : DOMAIN mTargets[s] \subseteq Port
            BY DEF Init, NoTargets
        <3>3. m_isStarted \in BOOLEAN /\ bypass \in BOOLEAN /\ severed \in BOOLEAN
              /\ status \in Ends
            BY DEF Init, Ends
        <3> QED BY <3>1, <3>2, <3>3 DEF TypeOK, Ends
    <2>2. Init => GraphOK(models, ports, links)
        BY InitialAssumption DEF Init, GraphOK, Shaped
    <2> QED BY <2>1, <2>2 DEF GraphInv
<1>2. GraphInv /\ [Next]_vars => GraphInv'
    <2>1. CASE UNCHANGED vars
        BY <2>1 DEF vars, history, GraphInv, TypeOK
    <2> QED BY <2>1, GraphStep
<1> QED BY <1>1, <1>2, PTL DEF Spec

\* The lists of connections stay in order whatever the executives do, until
\* the removal of a port erases half of a connection of another port of the
\* same model (severed; BaseModel::delInputPort, delOutputPort): every record
\* has its mirror at the other end, at ports of models of the tree.
THEOREM BothEndsAgree == Spec => []LinksInv
<1>1. GraphInv => LinksInv
    BY DEF GraphInv, GraphOK, LinksInv, LinksSymmetric
<1> QED BY <1>1, GraphInvariant, PTL

-----------------------------------------------------------------------------
(* Walks.                                                                  *)

Place == Kind \X Model \X Port

\* The walks of at most k steps.
WalksTo(L, up, m, p, k) ==
    {w \in Seq(Place) :
        /\ Len(w) \in 1 .. (k + 1) /\ w[1] = <<up, m, p>>
        /\ \A i \in 1 .. (Len(w) - 1) : ~AtEnd(w[i]) /\ w[i + 1] \in Follow(L, up, w[i])}

\* The bound on the steps of a walk.
LEMMA DepthType == MaxDepth \in Nat \ {0}
<1>1. IsFiniteSet(Coupled)
    BY ConnectionsAssumption, FS_Subset DEF Model
<1> QED BY <1>1, FS_CardinalityType DEF MaxDepth

\* A step of a walk leads to a place.
LEMMA Steps ==
    ASSUME NEW L \in [Kind -> SUBSET Record], NEW up \in {"in", "out"}, NEW n \in Place,
           NEW x \in Follow(L, up, n)
    PROVE  /\ x \in Place /\ x[1] \in {up, Down(up)}
           /\ \E e \in L[n[1]] : /\ e[1] = n[2] /\ e[2] = n[3]
                                 /\ x[1] = (IF Outward(e) THEN up ELSE Down(up))
                                 /\ x[2] = e[3] /\ x[3] = e[4]
<1>1. PICK e \in L[n[1]] : /\ e[1] = n[2] /\ e[2] = n[3]
                           /\ x = <<IF Outward(e) THEN up ELSE Down(up), e[3], e[4]>>
    BY DEF Follow
<1>2. n[1] \in Kind /\ e \in Record
    BY DEF Place
<1>3. e[3] \in Model /\ e[4] \in Port
    BY <1>2, Records
<1>4. (IF Outward(e) THEN up ELSE Down(up)) \in {up, Down(up)} /\ {up, Down(up)} \subseteq Kind
    BY DEF Down, Kind
<1> QED BY <1>1, <1>3, <1>4 DEF Place

\* Walks of no step, and of one step more.
LEMMA WalksGrow ==
    ASSUME NEW L \in [Kind -> SUBSET Record], NEW up \in {"in", "out"}, NEW m \in Model, NEW p \in Port
    PROVE  /\ WalksTo(L, up, m, p, 0) = {<< <<up, m, p>> >>}
           /\ \A k \in Nat : WalksTo(L, up, m, p, k + 1) =
                 WalksTo(L, up, m, p, k) \cup Longer(L, up, WalksTo(L, up, m, p, k))
<1> DEFINE V(k) == WalksTo(L, up, m, p, k)
           s == <<up, m, p>>
           ok(w, i) == ~AtEnd(w[i]) /\ w[i + 1] \in Follow(L, up, w[i])
<1>0. s \in Place
    BY DEF Place, Kind
<1>1. \A k \in Nat : \A w : w \in V(k) <=>
           /\ w \in Seq(Place) /\ Len(w) \in 1 .. (k + 1) /\ w[1] = s
           /\ \A i \in 1 .. (Len(w) - 1) : ok(w, i)
    BY DEF WalksTo
<1>2. \A k \in Nat : \A v : v \in Longer(L, up, V(k)) <=>
           \E w \in V(k) : ~AtEnd(Last(w)) /\ \E n \in Follow(L, up, Last(w)) : v = Append(w, n)
    BY DEF Longer
<1> HIDE DEF V, ok, s
<1>3. V(0) = {<<s>>}
    <2>0. \A w : w \in V(0) <=> /\ w \in Seq(Place) /\ Len(w) \in 1 .. (0 + 1) /\ w[1] = s
                               /\ \A i \in 1 .. (Len(w) - 1) : ok(w, i)
        BY <1>1
    <2>1. ASSUME NEW w \in V(0) PROVE w = <<s>>
        <3>1. w \in Seq(Place) /\ Len(w) = 1 /\ w[1] = s
            BY <2>0, <2>1
        <3> QED BY <3>1
    <2> DEFINE w0 == <<s>>
    <2>2. /\ w0 \in Seq(Place) /\ Len(w0) \in 1 .. (0 + 1) /\ w0[1] = s
          /\ 1 .. (Len(w0) - 1) = {}
        BY <1>0
    <2> HIDE DEF w0
    <2>3. w0 \in V(0)
        BY <2>0, <2>2
    <2> QED BY <2>1, <2>3 DEF w0
<1>4. ASSUME NEW k \in Nat, NEW v \in V(k + 1) PROVE v \in V(k) \/ v \in Longer(L, up, V(k))
    <2>1. /\ v \in Seq(Place) /\ Len(v) \in 1 .. (k + 2) /\ v[1] = s
          /\ \A i \in 1 .. (Len(v) - 1) : ok(v, i)
        BY <1>1, <1>4
    <2>2. CASE Len(v) <= k + 1
        <3>1. Len(v) \in 1 .. (k + 1)
            BY <2>1, <2>2
        <3> QED BY <1>1, <2>1, <3>1
    <2>3. CASE Len(v) = k + 2
        <3> DEFINE w == SubSeq(v, 1, k + 1)
        <3>1. /\ w \in Seq(Place) /\ Len(w) = k + 1 /\ \A i \in 1 .. (k + 1) : w[i] = v[i]
            BY <2>1, <2>3
        <3>2. v = Append(w, v[k + 2])
            BY <2>1, <2>3
        <3> HIDE DEF w
        <3>3. w \in V(k)
            <4>1. \A i \in 1 .. (Len(w) - 1) : ok(w, i)
                BY <2>1, <2>3, <3>1 DEF ok
            <4>2. w[1] = s /\ Len(w) \in 1 .. (k + 1)
                BY <2>1, <3>1
            <4> QED BY <1>1, <3>1, <4>1, <4>2
        <3>4. Last(w) = v[k + 1]
            BY <3>1 DEF Last
        <3>5. ok(v, k + 1)
            BY <2>1, <2>3
        <3> QED BY <1>2, <3>2, <3>3, <3>4, <3>5 DEF ok
    <2> QED BY <2>1, <2>2, <2>3
<1>5. ASSUME NEW k \in Nat, NEW v \in V(k) PROVE v \in V(k + 1)
    BY <1>1, <1>5
<1>6. ASSUME NEW k \in Nat, NEW v \in Longer(L, up, V(k)) PROVE v \in V(k + 1)
    <2>1. PICK w \in V(k) : ~AtEnd(Last(w)) /\ \E n \in Follow(L, up, Last(w)) : v = Append(w, n)
        BY <1>2, <1>6
    <2>2. PICK n \in Follow(L, up, Last(w)) : v = Append(w, n)
        BY <2>1
    <2>3. /\ w \in Seq(Place) /\ Len(w) \in 1 .. (k + 1) /\ w[1] = s
          /\ \A i \in 1 .. (Len(w) - 1) : ok(w, i)
        BY <1>1, <2>1
    <2>4. Last(w) \in Place
        BY <2>3 DEF Last
    <2>5. n \in Place
        BY <2>4, Steps
    <2>6. /\ v \in Seq(Place) /\ Len(v) = Len(w) + 1 /\ v[Len(w) + 1] = n
          /\ \A i \in 1 .. Len(w) : v[i] = w[i]
        BY <2>2, <2>3, <2>5
    <2>7. ASSUME NEW i \in 1 .. (Len(v) - 1) PROVE ok(v, i)
        <3>1. CASE i = Len(w)
            BY <2>1, <2>2, <2>3, <2>6, <3>1 DEF ok, Last
        <3>2. CASE i # Len(w)
            <4>1. i \in 1 .. (Len(w) - 1) /\ v[i] = w[i] /\ v[i + 1] = w[i + 1]
                BY <2>3, <2>6, <2>7, <3>2
            <4> QED BY <2>3, <4>1 DEF ok
        <3> QED BY <3>1, <3>2
    <2>8. v[1] = s /\ Len(v) \in 1 .. (k + 2)
        BY <2>3, <2>6
    <2> QED BY <1>1, <2>6, <2>7, <2>8
<1> QED BY <1>3, <1>4, <1>5, <1>6 DEF V, s

\* The definition of the walks, unfolded.
LEMMA WalksUnfold ==
    ASSUME NEW L \in [Kind -> SUBSET Record], NEW up \in {"in", "out"}, NEW m \in Model, NEW p \in Port
    PROVE  Walks(L, up, m, p) = WalksTo(L, up, m, p, MaxDepth)
<1> DEFINE walk[k \in 0 .. MaxDepth] ==
               IF k = 0 THEN {<< <<up, m, p>> >>}
                        ELSE LET W == walk[k - 1] IN W \cup Longer(L, up, W)
           step(f) == [k \in 0 .. MaxDepth |->
               IF k = 0 THEN {<< <<up, m, p>> >>} ELSE f[k - 1] \cup Longer(L, up, f[k - 1])]
           V(k) == WalksTo(L, up, m, p, k)
           f0 == [k \in 0 .. MaxDepth |-> V(k)]
<1>1. Walks(L, up, m, p) = walk[MaxDepth]
    BY DEF Walks
<1>2. walk = CHOOSE f : f = step(f)
    OBVIOUS
<1>3. f0 = step(f0)
    <2>1. ASSUME NEW k \in 0 .. MaxDepth
          PROVE  V(k) = IF k = 0 THEN {<< <<up, m, p>> >>} ELSE V(k - 1) \cup Longer(L, up, V(k - 1))
        <3>1. CASE k = 0
            BY <3>1, WalksGrow
        <3>2. CASE k # 0
            <4>1. k - 1 \in Nat /\ (k - 1) + 1 = k
                BY <2>1, <3>2, DepthType
            <4>2. V((k - 1) + 1) = V(k - 1) \cup Longer(L, up, V(k - 1))
                BY <4>1, WalksGrow
            <4> QED BY <3>2, <4>1, <4>2
        <3> QED BY <3>1, <3>2
    <2>2. \A k \in 0 .. MaxDepth : f0[k] = V(k)
        OBVIOUS
    <2> HIDE DEF V
    <2>3. ASSUME NEW k \in 0 .. MaxDepth PROVE f0[k] = step(f0)[k]
        <3>1. CASE k = 0
            BY <2>1, <2>2, <3>1
        <3>2. CASE k # 0
            <4>1. k - 1 \in 0 .. MaxDepth
                BY <2>3, <3>2, DepthType
            <4> QED BY <2>1, <2>2, <3>2, <4>1
        <3> QED BY <3>1, <3>2
    <2> QED BY <2>3
<1> HIDE DEF f0, walk
<1>4. walk = step(walk)
    BY <1>2, <1>3
<1>5. /\ walk[0] = V(0)
      /\ \A k \in 0 .. (MaxDepth - 1) : walk[k + 1] = walk[k] \cup Longer(L, up, walk[k])
    <2>1. \A k \in 0 .. MaxDepth : walk[k] = step(walk)[k]
        BY <1>4
    <2>2. walk[0] = {<< <<up, m, p>> >>}
        <3>1. 0 \in 0 .. MaxDepth
            BY DepthType
        <3>2. step(walk)[0] = {<< <<up, m, p>> >>}
            BY <3>1
        <3> QED BY <2>1, <3>1, <3>2
    <2>3. ASSUME NEW k \in 0 .. (MaxDepth - 1) PROVE walk[k + 1] = walk[k] \cup Longer(L, up, walk[k])
        <3>1. k + 1 \in 0 .. MaxDepth /\ k + 1 # 0 /\ (k + 1) - 1 = k
            BY DepthType
        <3> QED BY <2>1, <3>1
    <2> QED BY <2>2, <2>3, WalksGrow
<1>6. \A k \in 0 .. MaxDepth : walk[k] = V(k)
    <2> DEFINE S == {k \in Nat : k <= MaxDepth => walk[k] = V(k)}
    <2> HIDE DEF V
    <2>1. 0 \in S
        BY <1>5
    <2>2. ASSUME NEW k \in S PROVE k + 1 \in S
        <3>1. CASE k + 1 <= MaxDepth
            <4>1. k \in 0 .. (MaxDepth - 1) /\ walk[k] = V(k)
                BY <2>2, <3>1, DepthType
            <4>2. V(k + 1) = V(k) \cup Longer(L, up, V(k))
                BY <2>2, WalksGrow DEF V
            <4>3. walk[k + 1] = V(k + 1)
                BY <1>5, <4>1, <4>2
            <4> QED BY <2>2, <4>3
        <3>2. CASE ~(k + 1 <= MaxDepth)
            BY <2>2, <3>2
        <3> QED BY <3>1, <3>2
    <2>3. S = Nat
        BY <2>1, <2>2, SetInduction
    <2> QED BY <2>3, DepthType
<1> QED BY <1>1, <1>6, DepthType

-----------------------------------------------------------------------------
(* Walks backwards.                                                        *)

Other(up) == IF up = "out" THEN "in" ELSE "out"

\* The list at the other side of a port.
Opposite(k) ==
    CASE k = "out" -> "internalOut" [] k = "internalOut" -> "out"
      [] k = "in" -> "internalIn" [] k = "internalIn" -> "in"

Back(n) == <<Opposite(n[1]), n[2], n[3]>>

\* No model is the parent of its parent.
LEMMA NoCycle ==
    ASSUME NEW a \in Model, NEW b \in Model, Parent[a] = b
    PROVE  Parent[b] # a
<1>1. PICK depth \in [Model -> 0 .. Cardinality(Model)] :
          \A m \in Model \ {Top} : depth[Parent[m]] < depth[m]
    BY TreeAssumption
<1>2. Cardinality(Model) \in Nat
    BY ConnectionsAssumption, FS_CardinalityType
<1>3. a # Top /\ (Parent[b] = a => b # Top)
    BY ConnectionsAssumption
<1>4. depth[a] \in Nat /\ depth[b] \in Nat
    BY <1>2
<1>5. depth[b] < depth[a]
    BY <1>1, <1>3
<1>6. Parent[b] = a => depth[a] < depth[b]
    BY <1>1, <1>3
<1> QED BY <1>4, <1>5, <1>6

\* Which way a record leads is told by its kind.
LEMMA Ways ==
    ASSUME NEW k \in Kind, NEW e \in Record, Local(k, e)
    PROVE  /\ k \in {"internalIn", "internalOut"} => ~Outward(e) /\ Outward(Flip(e))
           /\ k \in {"in", "out"} => ~Outward(Flip(e))
           /\ Outward(e) => e[3] \in Coupled
<1>1. /\ e[1] \in Model /\ e[3] \in Model /\ Flip(e)[1] = e[3] /\ Flip(e)[3] = e[1]
    BY Records
<1>2. Parent[e[1]] # e[1] /\ Parent[e[3]] # e[3]
    BY <1>1, ConnectionsAssumption
<1>3. ~(Parent[e[1]] = e[3] /\ Parent[e[3]] = e[1])
    BY <1>1, NoCycle
<1>4. Parent[e[1]] \in Coupled \cup {NoModel} /\ NoModel \notin Model
    BY <1>1, ConnectionsAssumption
<1> QED BY <1>1, <1>2, <1>3, <1>4 DEF Outward, Local, Kind

\* A step of a walk, made backwards.
LEMMA BackSteps ==
    ASSUME NEW M, NEW P, NEW L \in [Kind -> SUBSET Record], GraphOK(M, P, L),
           NEW up \in {"in", "out"}, NEW n \in Place, n[1] \in {up, Down(up)},
           NEW x \in Follow(L, up, n)
    PROVE  /\ x \in Place /\ x[1] \in {up, Down(up)}
           /\ n[2] \in M /\ x[2] \in M
           /\ n[3] \in P[n[1]][n[2]] /\ x[3] \in P[Opposite(x[1])][x[2]]
           /\ x[1] = up => x[2] \in Coupled
           /\ Back(n) \in Follow(L, Other(up), Back(x))
<1>1. x \in Place /\ x[1] \in {up, Down(up)}
    BY Steps
<1>2. PICK e \in L[n[1]] : /\ e[1] = n[2] /\ e[2] = n[3]
                           /\ x[1] = (IF Outward(e) THEN up ELSE Down(up))
                           /\ x[2] = e[3] /\ x[3] = e[4]
    BY Steps
<1> DEFINE k == n[1]
           f == Flip(e)
<1>3. /\ k \in Kind /\ e \in Record /\ Local(k, e) /\ f \in L[Mirror(k, e)] /\ e[1] \in M /\ e[3] \in M
      /\ e[2] \in P[k][e[1]]
    BY <1>2 DEF Place, GraphOK, Shaped, Symmetric
<1>4. /\ f[1] = e[3] /\ f[2] = e[4] /\ f[3] = e[1] /\ f[4] = e[2]
    BY <1>3, Records
<1>5. Mirror(k, e) = Opposite(x[1])
    <2>1. k \in {"internalIn", "internalOut"} => ~Outward(e)
        BY <1>3, Ways
    <2> QED BY <1>2, <2>1 DEF Mirror, Opposite, Down
<1>6. f[2] \in P[Mirror(k, e)][f[1]]
    <2>1. Mirror(k, e) \in Kind
        BY <1>3, Mirrors
    <2> QED BY <1>3, <2>1 DEF GraphOK, Symmetric
<1>7. x[1] = up => x[2] \in Coupled
    <2>1. up # Down(up)
        BY DEF Down
    <2> QED BY <1>2, <1>3, <2>1, Ways
<1>8. Back(n) = <<IF Outward(f) THEN Other(up) ELSE Down(Other(up)), f[3], f[4]>>
    <2>1. Opposite(k) = IF Outward(f) THEN Other(up) ELSE Down(Other(up))
        BY <1>3, Ways DEF Opposite, Other, Down
    <2> QED BY <1>2, <1>4, <2>1 DEF Back
<1>9. f[1] = Back(x)[2] /\ f[2] = Back(x)[3] /\ f \in L[Back(x)[1]]
    BY <1>2, <1>3, <1>4, <1>5 DEF Back
<1>10. Back(n) \in Follow(L, Other(up), Back(x))
    BY <1>8, <1>9 DEF Follow
<1> QED BY <1>1, <1>2, <1>3, <1>4, <1>5, <1>6, <1>7, <1>10

\* The places of a walk.
LEMMA WalkPlaces ==
    ASSUME NEW L \in [Kind -> SUBSET Record], NEW up \in {"in", "out"}, NEW m \in Model, NEW p \in Port,
           NEW w \in Walks(L, up, m, p)
    PROVE  /\ w \in Seq(Place) /\ Len(w) \in 1 .. (MaxDepth + 1) /\ w[1] = <<up, m, p>>
           /\ \A i \in 1 .. (Len(w) - 1) : ~AtEnd(w[i]) /\ w[i + 1] \in Follow(L, up, w[i])
           /\ \A i \in 1 .. Len(w) : w[i] \in Place /\ w[i][1] \in {up, Down(up)}
<1>1. /\ w \in Seq(Place) /\ Len(w) \in 1 .. (MaxDepth + 1) /\ w[1] = <<up, m, p>>
      /\ \A i \in 1 .. (Len(w) - 1) : ~AtEnd(w[i]) /\ w[i + 1] \in Follow(L, up, w[i])
    <2>1. w \in WalksTo(L, up, m, p, MaxDepth)
        BY WalksUnfold
    <2> QED BY <2>1 DEF WalksTo
<1>2. ASSUME NEW i \in 1 .. Len(w) PROVE w[i] \in Place /\ w[i][1] \in {up, Down(up)}
    <2>1. w[i] \in Place
        BY <1>1
    <2>2. CASE i = 1
        BY <1>1, <2>1, <2>2
    <2>3. CASE i # 1
        <3>1. i - 1 \in 1 .. (Len(w) - 1) /\ (i - 1) + 1 = i /\ w[i - 1] \in Place
            BY <1>1, <2>3
        <3>2. w[i] \in Follow(L, up, w[i - 1])
            BY <1>1, <3>1
        <3> QED BY <2>1, <3>1, <3>2, Steps
    <2> QED BY <2>2, <2>3
<1> QED BY <1>1, <1>2

\* What is a walk.
LEMMA WalkMember ==
    ASSUME NEW L \in [Kind -> SUBSET Record], NEW up \in {"in", "out"}, NEW m \in Model, NEW p \in Port,
           NEW w \in Seq(Place), Len(w) \in 1 .. (MaxDepth + 1), w[1] = <<up, m, p>>,
           \A i \in 1 .. (Len(w) - 1) : ~AtEnd(w[i]) /\ w[i + 1] \in Follow(L, up, w[i])
    PROVE  w \in Walks(L, up, m, p)
BY WalksUnfold DEF WalksTo

\* In a graph whose ends agree, a walk from an atomic model that has begun to
\* go down is a walk backwards that ends at the atomic model.
LEMMA BackWalks ==
    ASSUME NEW M, NEW P, NEW L \in [Kind -> SUBSET Record], GraphOK(M, P, L),
           NEW up \in {"in", "out"}, NEW m \in Atomic, NEW p \in Port,
           NEW w \in Walks(L, up, m, p), NEW n \in 1 .. Len(w), w[n][1] = Down(up)
    PROVE  \E v \in Reached(L, Other(up), w[n][2], w[n][3]) : Last(v)[2] = m /\ Last(v)[3] = p
<1>0. m \in Model
    BY DEF Model
<1>1. /\ w \in Seq(Place) /\ Len(w) \in 1 .. (MaxDepth + 1) /\ w[1] = <<up, m, p>>
      /\ \A i \in 1 .. (Len(w) - 1) : ~AtEnd(w[i]) /\ w[i + 1] \in Follow(L, up, w[i])
      /\ \A i \in 1 .. Len(w) : w[i] \in Place /\ w[i][1] \in {up, Down(up)}
    BY <1>0, WalkPlaces
<1>2. n \in Nat /\ n \in 1 .. (MaxDepth + 1) /\ Len(w) \in Nat
    BY <1>1, DepthType
<1>3. \A i \in 1 .. n : (n + 1) - i \in 1 .. n /\ (n + 1) - i \in 1 .. Len(w)
    BY <1>2
<1> DEFINE v == [i \in 1 .. n |-> Back(w[(n + 1) - i])]
<1>4. \A x \in Place : Back(x) \in Place
    BY DEF Back, Place, Opposite, Kind
<1>5. v \in Seq(Place) /\ Len(v) = n /\ \A i \in 1 .. n : v[i] = Back(w[(n + 1) - i])
    <2>1. \A i \in 1 .. n : Back(w[(n + 1) - i]) \in Place
        BY <1>1, <1>3, <1>4
    <2>2. v \in [1 .. n -> Place]
        BY <2>1
    <2> QED BY <1>2, <2>2
<1> HIDE DEF v
<1>6. v[1] = <<Other(up), w[n][2], w[n][3]>>
    <2>1. v[1] = Back(w[n])
        BY <1>2, <1>5
    <2>2. Opposite(Down(up)) = Other(up)
        BY DEF Opposite, Down, Other
    <2> QED BY <2>1, <2>2 DEF Back
<1>7. v[n] = <<Down(Other(up)), m, p>>
    <2>1. v[n] = Back(w[1])
        BY <1>2, <1>5
    <2>2. Opposite(up) = Down(Other(up))
        BY DEF Opposite, Down, Other
    <2>3. w[1][1] = up /\ w[1][2] = m /\ w[1][3] = p
        BY <1>1
    <2> QED BY <2>1, <2>2, <2>3 DEF Back
<1>8. ASSUME NEW i \in 1 .. (n - 1) PROVE ~AtEnd(v[i]) /\ v[i + 1] \in Follow(L, Other(up), v[i])
    <2> DEFINE j == n - i
    <2>1. j \in 1 .. (Len(w) - 1) /\ j \in 1 .. Len(w) /\ j + 1 \in 1 .. Len(w)
          /\ (n + 1) - i = j + 1 /\ (n + 1) - (i + 1) = j /\ i \in 1 .. n /\ i + 1 \in 1 .. n
        BY <1>2
    <2> HIDE DEF j
    <2>2. v[i] = Back(w[j + 1]) /\ v[i + 1] = Back(w[j])
        BY <1>5, <2>1
    <2>3. /\ w[j] \in Place /\ w[j][1] \in {up, Down(up)} /\ w[j + 1] \in Follow(L, up, w[j])
          /\ w[j + 1][1] \in {up, Down(up)}
        BY <1>1, <2>1
    <2>4. /\ w[j + 1][1] = up => w[j + 1][2] \in Coupled
          /\ Back(w[j]) \in Follow(L, Other(up), Back(w[j + 1]))
        BY <2>3, BackSteps
    <2>5. ~AtEnd(Back(w[j + 1]))
        <3>1. Opposite(Down(up)) \notin {"internalIn", "internalOut"}
            BY DEF Opposite, Down
        <3>2. Atomic \cap Coupled = {}
            BY ConnectionsAssumption
        <3> QED BY <2>3, <2>4, <3>1, <3>2 DEF Back, AtEnd
    <2> QED BY <2>2, <2>4, <2>5
<1>9. w[n][2] \in Model /\ w[n][3] \in Port /\ Other(up) \in {"in", "out"}
    BY <1>1 DEF Place, Other
<1>10. v \in Walks(L, Other(up), w[n][2], w[n][3])
    BY <1>2, <1>5, <1>6, <1>8, <1>9, WalkMember
<1>11. Last(v) = <<Down(Other(up)), m, p>>
    BY <1>5, <1>7 DEF Last
<1>12. AtEnd(Last(v))
    BY <1>11 DEF AtEnd, Down, Other
<1> QED BY <1>10, <1>11, <1>12 DEF Reached

\* The last place of a complete walk.
LEMMA LastPlace ==
    ASSUME NEW L \in [Kind -> SUBSET Record], NEW up \in {"in", "out"}, NEW m \in Model, NEW p \in Port,
           NEW w \in Reached(L, up, m, p)
    PROVE  /\ w \in Walks(L, up, m, p) /\ Len(w) \in 1 .. Len(w) /\ Last(w) = w[Len(w)]
           /\ w[Len(w)][1] = Down(up) /\ w[Len(w)][2] \in Atomic /\ w[Len(w)][3] \in Port
<1>1. w \in Walks(L, up, m, p) /\ AtEnd(w[Len(w)]) /\ Last(w) = w[Len(w)]
    BY DEF Reached, Last
<1>2. Len(w) \in 1 .. Len(w) /\ w[Len(w)] \in Place /\ w[Len(w)][1] \in {up, Down(up)}
    BY <1>1, WalkPlaces
<1> QED BY <1>1, <1>2 DEF AtEnd, Place

\* The targets of a port, and the sources.
LEMMA TargetDomain ==
    ASSUME NEW L, NEW m, NEW p
    PROVE  /\ \A d \in DOMAIN AtomicModelsTarget(L, m, p) :
                \E w \in Reached(L, "out", m, p) : d = <<Last(w)[2], Last(w)[3]>>
           /\ \A w \in Reached(L, "out", m, p) :
                <<Last(w)[2], Last(w)[3]>> \in DOMAIN AtomicModelsTarget(L, m, p)
           /\ \A d \in AtomicModelsSource(L, m, p) :
                \E w \in Reached(L, "in", m, p) : d = <<Last(w)[2], Last(w)[3]>>
           /\ \A w \in Reached(L, "in", m, p) :
                <<Last(w)[2], Last(w)[3]>> \in AtomicModelsSource(L, m, p)
<1>1. DOMAIN AtomicModelsTarget(L, m, p) = {<<Last(w)[2], Last(w)[3]>> : w \in Reached(L, "out", m, p)}
    BY DEF AtomicModelsTarget
<1>2. AtomicModelsSource(L, m, p) = {<<Last(w)[2], Last(w)[3]>> : w \in Reached(L, "in", m, p)}
    BY DEF AtomicModelsSource
<1> QED BY <1>1, <1>2

\* The two searches are inverse.
LEMMA InverseSearches ==
    ASSUME NEW M, NEW P, NEW L \in [Kind -> SUBSET Record], GraphOK(M, P, L),
           NEW s \in Atomic, NEW t \in Atomic, NEW p \in Port, NEW q \in Port
    PROVE  <<t, q>> \in DOMAIN AtomicModelsTarget(L, s, p) <=> <<s, p>> \in AtomicModelsSource(L, t, q)
<1>0. s \in Model /\ t \in Model
    BY DEF Model
<1>1. ASSUME NEW w \in Reached(L, "out", s, p), Last(w)[2] = t, Last(w)[3] = q
      PROVE  \E v \in Reached(L, "in", t, q) : Last(v)[2] = s /\ Last(v)[3] = p
    <2>1. /\ w \in Walks(L, "out", s, p) /\ Len(w) \in 1 .. Len(w) /\ Last(w) = w[Len(w)]
          /\ w[Len(w)][1] = Down("out")
        BY <1>0, LastPlace
    <2> QED BY <1>1, <2>1, BackWalks DEF Other
<1>2. ASSUME NEW w \in Reached(L, "in", t, q), Last(w)[2] = s, Last(w)[3] = p
      PROVE  \E v \in Reached(L, "out", s, p) : Last(v)[2] = t /\ Last(v)[3] = q
    <2>1. /\ w \in Walks(L, "in", t, q) /\ Len(w) \in 1 .. Len(w) /\ Last(w) = w[Len(w)]
          /\ w[Len(w)][1] = Down("in")
        BY <1>0, LastPlace
    <2> QED BY <1>2, <2>1, BackWalks DEF Other
<1>3. <<t, q>> \in DOMAIN AtomicModelsTarget(L, s, p)
          <=> \E w \in Reached(L, "out", s, p) : Last(w)[2] = t /\ Last(w)[3] = q
    BY TargetDomain
<1>4. <<s, p>> \in AtomicModelsSource(L, t, q)
          <=> \E w \in Reached(L, "in", t, q) : Last(w)[2] = s /\ Last(w)[3] = p
    BY TargetDomain
<1> QED BY <1>1, <1>2, <1>3, <1>4

\* In the graph that the executives leave, as long as no connection has lost
\* one of its records (severed), an atomic model is a target of a port exactly
\* when the port is one of its sources (getAtomicModelsTarget,
\* getAtomicModelsSource).
THEOREM SearchesAreInverse == Spec => []SourcesAreTargets
<1>1. GraphInv => SourcesAreTargets
    <2> SUFFICES ASSUME GraphInv, status = "run", ~severed PROVE SourcesAreTargets
        BY DEF SourcesAreTargets
    <2>1. links \in [Kind -> SUBSET Record] /\ GraphOK(models, ports, links)
        BY DEF GraphInv, TypeOK
    <2> DEFINE places == (Atomic \cap models) \X Port
    <2>2. ASSUME NEW s \in places, NEW t \in places
          PROVE  t \in DOMAIN AtomicModelsTarget(links, s[1], s[2])
                     <=> s \in AtomicModelsSource(links, t[1], t[2])
        <3>1. /\ s = <<s[1], s[2]>> /\ t = <<t[1], t[2]>>
              /\ s[1] \in Atomic /\ t[1] \in Atomic /\ s[2] \in Port /\ t[2] \in Port
            OBVIOUS
        <3> QED BY <2>1, <3>1, InverseSearches
    <2> QED BY <2>2 DEF SourcesAreTargets
<1> QED BY <1>1, GraphInvariant, PTL

-----------------------------------------------------------------------------
(* Targets that change.                                                    *)

\* The targets that are cached are those of the graph.
CacheOK(M, P, L, T) ==
    \A s \in Atomic : \A p \in DOMAIN T[s] :
        s \in M /\ p \in P["out"][s] /\ T[s][p] = AtomicModelsTarget(L, s, p)

\* What Retarget does to the cached targets.
Refreshed(T, U, M, L, S) ==
    /\ \A s \in Atomic \ M : DOMAIN U[s] = {}
    /\ \A s \in Atomic \cap M : \A p \in DOMAIN U[s] :
         \/ <<s, p>> \in S /\ U[s][p] = AtomicModelsTarget(L, s, p)
         \/ <<s, p>> \notin S /\ p \in DOMAIN T[s] /\ U[s][p] = T[s][p]

\* The sources of places.
SourcesOf(L, A) == UNION {AtomicModelsSource(L, a[1], a[2]) : a \in A}

\* The first place of a walk.
LEMMA FirstPlace ==
    ASSUME NEW L \in [Kind -> SUBSET Record], NEW up \in {"in", "out"}, NEW m \in Model, NEW p \in Port
    PROVE  \E w \in Walks(L, up, m, p) : Last(w) = <<up, m, p>>
<1> DEFINE x == <<up, m, p>>
           w == <<x>>
<1>1. x \in Place
    BY DEF Place, Kind
<1>2. w \in Seq(Place) /\ Len(w) = 1 /\ w[1] = x
    BY <1>1
<1> HIDE DEF w
<1>3. Len(w) \in 1 .. (MaxDepth + 1) /\ 1 .. (Len(w) - 1) = {}
    BY <1>2, DepthType
<1>4. w \in Walks(L, up, m, p)
    BY <1>2, <1>3, WalkMember
<1> QED BY <1>2, <1>4 DEF Last

\* A search that ends well began at a port of the model.
LEMMA SearchedPort ==
    ASSUME NEW M, NEW P, NEW L \in [Kind -> SUBSET Record], NEW s \in Model, NEW p \in Port,
           WalkStatus(M, P, L, "out", s, p) = "run"
    PROVE  p \in P["out"][s]
<1>1. PICK w \in Walks(L, "out", s, p) : Last(w) = <<"out", s, p>>
    BY FirstPlace
<1> DEFINE places == {Last(v) : v \in Walks(L, "out", s, p)}
<1>2. ~\E n \in places : ~AtEnd(n) /\ n[3] \notin P[n[1]][n[2]]
    BY DEF WalkStatus
<1>3. <<"out", s, p>> \in places /\ ~AtEnd(<<"out", s, p>>)
    BY <1>1 DEF AtEnd
<1> QED BY <1>2, <1>3

\* The refresh of some targets, when the others did not change.
LEMMA CacheRefreshed ==
    ASSUME NEW M \in SUBSET Model, NEW P, NEW L \in [Kind -> SUBSET Record], NEW S, NEW T, NEW U,
           NEW M0, NEW P0, NEW L0, CacheOK(M0, P0, L0, T), Refreshed(T, U, M, L, S),
           \A s \in Atomic : DOMAIN U[s] \subseteq Port,
           \A x \in S : WalkStatus(M, P, L, "out", x[1], x[2]) = "run",
           \A s \in Atomic \cap M : \A p \in DOMAIN T[s] : <<s, p>> \notin S =>
               p \in P["out"][s] /\ AtomicModelsTarget(L, s, p) = AtomicModelsTarget(L0, s, p)
    PROVE  CacheOK(M, P, L, U)
<1> SUFFICES ASSUME NEW s \in Atomic, NEW p \in DOMAIN U[s]
             PROVE  s \in M /\ p \in P["out"][s] /\ U[s][p] = AtomicModelsTarget(L, s, p)
    BY DEF CacheOK
<1>1. s \in M /\ s \in Model /\ p \in Port
    BY DEF Refreshed
<1>2. CASE <<s, p>> \in S
    <2>1. U[s][p] = AtomicModelsTarget(L, s, p)
        BY <1>1, <1>2 DEF Refreshed
    <2>2. WalkStatus(M, P, L, "out", s, p) = "run"
        BY <1>2
    <2> QED BY <1>1, <2>1, <2>2, SearchedPort
<1>3. CASE <<s, p>> \notin S
    <2>1. p \in DOMAIN T[s] /\ U[s][p] = T[s][p]
        BY <1>1, <1>3 DEF Refreshed
    <2> QED BY <1>1, <1>3, <2>1 DEF CacheOK
<1> QED BY <1>2, <1>3

\* The targets depend on the complete walks only.
TargetsOf(W) ==
    LET target(w) == <<Last(w)[2], Last(w)[3]>>
    IN  [t \in {target(w) : w \in W} |-> Cardinality({w \in W : target(w) = t})]

\* Graphs with the same complete walks have the same targets.
LEMMA SameTargets ==
    ASSUME NEW L, NEW W, NEW s, NEW p, Reached(L, "out", s, p) = Reached(W, "out", s, p)
    PROVE  AtomicModelsTarget(L, s, p) = AtomicModelsTarget(W, s, p)
<1>1. AtomicModelsTarget(L, s, p) = TargetsOf(Reached(L, "out", s, p))
    BY DEF AtomicModelsTarget, TargetsOf
<1>2. AtomicModelsTarget(W, s, p) = TargetsOf(Reached(W, "out", s, p))
    BY DEF AtomicModelsTarget, TargetsOf
<1> QED BY <1>1, <1>2

\* Step i of walk w takes a record of W that L does not have.
LostStep(L, W, w, i) ==
    /\ i \in 1 .. Len(w) /\ i + 1 \in 1 .. Len(w)
    /\ w[i] \in Place /\ w[i][1] \in {"out", "internalIn"}
    /\ \E e \in W[w[i][1]] :
         /\ e \notin L[w[i][1]] /\ e[1] = w[i][2] /\ e[2] = w[i][3]
         /\ w[i + 1] = <<IF Outward(e) THEN "out" ELSE "internalIn", e[3], e[4]>>

\* Walks of a graph with fewer records; a walk that is lost uses a record that
\* is missing.
LEMMA LostWalks ==
    ASSUME NEW L \in [Kind -> SUBSET Record], NEW W \in [Kind -> SUBSET Record],
           \A k \in Kind : L[k] \subseteq W[k],
           NEW s \in Model, NEW p \in Port,
           AtomicModelsTarget(L, s, p) # AtomicModelsTarget(W, s, p)
    PROVE  \E w \in Reached(W, "out", s, p) : \E i \in Nat : LostStep(L, W, w, i)
<1>1. Reached(L, "out", s, p) # Reached(W, "out", s, p)
    BY SameTargets
<1>2. ASSUME NEW w \in Reached(L, "out", s, p) PROVE w \in Reached(W, "out", s, p)
    <2>1. w \in Walks(L, "out", s, p) /\ AtEnd(Last(w))
        BY <1>2 DEF Reached
    <2>2. /\ w \in Seq(Place) /\ Len(w) \in 1 .. (MaxDepth + 1) /\ w[1] = <<"out", s, p>>
          /\ \A i \in 1 .. (Len(w) - 1) : ~AtEnd(w[i]) /\ w[i + 1] \in Follow(L, "out", w[i])
          /\ \A i \in 1 .. Len(w) : w[i] \in Place
        BY <2>1, WalkPlaces
    <2>3. ASSUME NEW i \in 1 .. (Len(w) - 1) PROVE w[i + 1] \in Follow(W, "out", w[i])
        <3>1. w[i][1] \in Kind
            BY <2>2 DEF Place
        <3> QED BY <2>2, <3>1 DEF Follow
    <2>4. w \in Walks(W, "out", s, p)
        BY <2>2, <2>3, WalkMember
    <2> QED BY <2>1, <2>4 DEF Reached
<1>3. PICK w \in Reached(W, "out", s, p) : w \notin Reached(L, "out", s, p)
    BY <1>1, <1>2
<1>4. w \in Walks(W, "out", s, p) /\ AtEnd(Last(w)) /\ w \notin Walks(L, "out", s, p)
    BY <1>3 DEF Reached
<1>5. /\ w \in Seq(Place) /\ Len(w) \in 1 .. (MaxDepth + 1) /\ w[1] = <<"out", s, p>>
      /\ \A i \in 1 .. (Len(w) - 1) : ~AtEnd(w[i]) /\ w[i + 1] \in Follow(W, "out", w[i])
      /\ \A i \in 1 .. Len(w) : w[i] \in Place /\ w[i][1] \in {"out", Down("out")}
    BY <1>4, WalkPlaces
<1>6. PICK i \in 1 .. (Len(w) - 1) : w[i + 1] \notin Follow(L, "out", w[i])
    BY <1>4, <1>5, WalkMember
<1>7. i \in Nat /\ i \in 1 .. Len(w) /\ i + 1 \in 1 .. Len(w) /\ w[i + 1] \in Follow(W, "out", w[i])
    <2>1. Len(w) \in Nat
        BY <1>5
    <2> QED BY <1>5, <1>6, <2>1
<1>8. PICK e \in W[w[i][1]] : /\ e[1] = w[i][2] /\ e[2] = w[i][3]
                              /\ w[i + 1] = <<IF Outward(e) THEN "out" ELSE Down("out"), e[3], e[4]>>
    BY <1>7 DEF Follow
<1>9. e \notin L[w[i][1]]
    BY <1>6, <1>8 DEF Follow
<1>10. Down("out") = "internalIn"
    BY DEF Down
<1>11. LostStep(L, W, w, i)
    BY <1>5, <1>7, <1>8, <1>9, <1>10 DEF LostStep
<1> QED BY <1>3, <1>7, <1>11

\* A walk that enters a model through an input port starts at a source of it.
LEMMA Entered ==
    ASSUME NEW M, NEW P, NEW L \in [Kind -> SUBSET Record], GraphOK(M, P, L),
           NEW s \in Atomic, NEW p \in Port, NEW w \in Reached(L, "out", s, p),
           NEW n \in 1 .. Len(w), w[n][1] = "internalIn"
    PROVE  <<s, p>> \in AtomicModelsSource(L, w[n][2], w[n][3])
<1>1. w \in Walks(L, "out", s, p) /\ Down("out") = "internalIn" /\ Other("out") = "in"
    BY DEF Reached, Down, Other
<1>2. PICK v \in Reached(L, "in", w[n][2], w[n][3]) : Last(v)[2] = s /\ Last(v)[3] = p
    BY <1>1, BackWalks
<1> QED BY <1>2, TargetDomain

\* The end of a complete walk is one.
LEMMA RestOfWalk ==
    ASSUME NEW L \in [Kind -> SUBSET Record], NEW s \in Model, NEW p \in Port,
           NEW w \in Reached(L, "out", s, p), NEW n \in 1 .. Len(w), w[n][1] = "out"
    PROVE  \E v \in Reached(L, "out", w[n][2], w[n][3]) : Last(v) = Last(w)
<1>1. w \in Walks(L, "out", s, p) /\ AtEnd(Last(w))
    BY DEF Reached
<1>2. /\ w \in Seq(Place) /\ Len(w) \in 1 .. (MaxDepth + 1)
      /\ \A i \in 1 .. (Len(w) - 1) : ~AtEnd(w[i]) /\ w[i + 1] \in Follow(L, "out", w[i])
      /\ w[n] \in Place
    BY <1>1, WalkPlaces
<1> DEFINE v == SubSeq(w, n, Len(w))
           l == (Len(w) - n) + 1
<1>3. /\ v \in Seq(Place) /\ Len(v) = l /\ l \in 1 .. Len(w)
      /\ \A i \in 1 .. l : v[i] = w[(n - 1) + i] /\ (n - 1) + i \in 1 .. Len(w)
    BY <1>2
<1> HIDE DEF v
<1>4. v[1] = w[n] /\ Last(v) = Last(w) /\ Len(v) \in 1 .. (MaxDepth + 1)
    BY <1>2, <1>3, DepthType DEF Last
<1>5. ASSUME NEW i \in 1 .. (Len(v) - 1) PROVE ~AtEnd(v[i]) /\ v[i + 1] \in Follow(L, "out", v[i])
    <2>1. v[i] = w[(n - 1) + i] /\ v[i + 1] = w[((n - 1) + i) + 1] /\ (n - 1) + i \in 1 .. (Len(w) - 1)
        BY <1>2, <1>3
    <2> QED BY <1>2, <2>1
<1>6. w[n][2] \in Model /\ w[n][3] \in Port /\ w[n] = <<"out", w[n][2], w[n][3]>>
    BY <1>2 DEF Place
<1>7. v \in Walks(L, "out", w[n][2], w[n][3])
    BY <1>3, <1>4, <1>5, <1>6, WalkMember
<1> QED BY <1>1, <1>4, <1>7 DEF Reached

\* One place is enough.
LEMMA InSources ==
    ASSUME NEW L, NEW A, NEW a \in A, NEW x \in AtomicModelsSource(L, a[1], a[2])
    PROVE  x \in SourcesOf(L, A)
BY DEF SourcesOf

\* The places whose sources are searched when connection e is added.
Searched(W, k, e, A) ==
    /\ k = "internalIn" => <<e[1], e[2]>> \in A
    /\ k = "out" /\ ~Outward(e) => <<e[3], e[4]>> \in A
    /\ k = "out" /\ Outward(e) => DOMAIN AtomicModelsTarget(W, e[3], e[4]) \subseteq A

\* A connection that is added changes the targets of the sources found with it.
LEMMA AddTargets ==
    ASSUME NEW M, NEW P, NEW L \in [Kind -> SUBSET Record], NEW k \in {"internalIn", "out"},
           NEW e \in Record, Local(k, e),
           NEW W \in [Kind -> SUBSET Record], GraphOK(M, P, W),
           W = Add(Add(L, k, e), Mirror(k, e), Flip(e)), NEW A, Searched(W, k, e, A),
           NEW s \in Atomic, NEW p \in Port, <<s, p>> \notin SourcesOf(W, A)
    PROVE  AtomicModelsTarget(W, s, p) = AtomicModelsTarget(L, s, p)
<1> SUFFICES ASSUME AtomicModelsTarget(L, s, p) # AtomicModelsTarget(W, s, p) PROVE FALSE
    OBVIOUS
<1> DEFINE mk == Mirror(k, e)
<1>0. s \in Model /\ k \in Kind /\ mk \in Kind /\ mk \in {"in", "internalOut"} /\ Flip(e) \in Record
    BY Records, Mirrors DEF Model, Kind, Mirror
<1>1. /\ \A j \in Kind : L[j] \subseteq W[j]
      /\ \A j \in Kind : \A f \in W[j] : f \notin L[j] => (j = k /\ f = e) \/ j = mk
    <2>1. Add(L, k, e) \in [Kind -> SUBSET Record]
        BY <1>0, Added
    <2> QED BY <1>0, <2>1, Added
<1>2a. PICK w \in Reached(W, "out", s, p) : \E i \in Nat : LostStep(L, W, w, i)
    BY <1>0, <1>1, LostWalks
<1>2b. PICK i \in Nat : LostStep(L, W, w, i)
    BY <1>2a
<1>2. /\ i \in 1 .. Len(w) /\ i + 1 \in 1 .. Len(w)
      /\ w[i] \in Place /\ w[i][1] \in {"out", "internalIn"}
      /\ \E f \in W[w[i][1]] :
           /\ f \notin L[w[i][1]] /\ f[1] = w[i][2] /\ f[2] = w[i][3]
           /\ w[i + 1] = <<IF Outward(f) THEN "out" ELSE "internalIn", f[3], f[4]>>
    BY <1>2b DEF LostStep
<1>3. /\ w[i][1] = k /\ w[i][2] = e[1] /\ w[i][3] = e[2]
      /\ w[i + 1] = <<IF Outward(e) THEN "out" ELSE "internalIn", e[3], e[4]>>
    BY <1>0, <1>1, <1>2 DEF Kind
<1>4. CASE k = "internalIn"
    <2>1. <<s, p>> \in AtomicModelsSource(W, e[1], e[2])
        BY <1>2, <1>3, <1>4, Entered
    <2> QED BY <1>4, <2>1, InSources DEF Searched
<1>5. CASE k = "out" /\ ~Outward(e)
    <2>1. <<s, p>> \in AtomicModelsSource(W, e[3], e[4])
        BY <1>2, <1>3, <1>5, Entered
    <2> QED BY <1>5, <2>1, InSources DEF Searched
<1>6. CASE k = "out" /\ Outward(e)
    <2> DEFINE t == <<Last(w)[2], Last(w)[3]>>
    <2>1. PICK v \in Reached(W, "out", e[3], e[4]) : Last(v) = Last(w)
        BY <1>0, <1>2, <1>3, <1>6, RestOfWalk
    <2>2. t \in A
        BY <1>6, <2>1, TargetDomain DEF Searched
    <2>3. <<s, p>> \in AtomicModelsSource(W, t[1], t[2])
        <3>1. Len(w) \in 1 .. Len(w) /\ Last(w) = w[Len(w)] /\ w[Len(w)][1] = "internalIn"
            BY <1>0, LastPlace DEF Down
        <3> QED BY <3>1, Entered
    <2> QED BY <2>2, <2>3, InSources
<1> QED BY <1>4, <1>5, <1>6

\* A connection that is removed changes those of the sources found before.
LEMMA RemoveTargets ==
    ASSUME NEW M, NEW P, NEW L \in [Kind -> SUBSET Record], GraphOK(M, P, L),
           NEW k \in {"internalIn", "out"}, NEW e \in Record, Local(k, e), ~Outward(e),
           NEW W \in [Kind -> SUBSET Record],
           W = Remove(Remove(L, k, e), Mirror(k, e), Flip(e)),
           NEW s \in Atomic, NEW p \in Port, <<s, p>> \notin SourcesOf(L, {<<e[3], e[4]>>})
    PROVE  AtomicModelsTarget(W, s, p) = AtomicModelsTarget(L, s, p)
<1> SUFFICES ASSUME AtomicModelsTarget(W, s, p) # AtomicModelsTarget(L, s, p) PROVE FALSE
    OBVIOUS
<1> DEFINE mk == Mirror(k, e)
<1>0. s \in Model /\ k \in Kind /\ mk \in Kind /\ mk \in {"in", "internalOut"}
    BY Mirrors DEF Model, Kind, Mirror
<1>1. /\ \A j \in Kind : W[j] \subseteq L[j]
      /\ \A j \in Kind : \A f \in L[j] : f \notin W[j] => (j = k /\ f = e) \/ j = mk
    BY <1>0 DEF Remove
<1>2a. PICK w \in Reached(L, "out", s, p) : \E i \in Nat : LostStep(W, L, w, i)
    BY <1>0, <1>1, LostWalks
<1>2b. PICK i \in Nat : LostStep(W, L, w, i)
    BY <1>2a
<1>2. /\ i \in 1 .. Len(w) /\ i + 1 \in 1 .. Len(w)
      /\ w[i] \in Place /\ w[i][1] \in {"out", "internalIn"}
      /\ \E f \in L[w[i][1]] :
           /\ f \notin W[w[i][1]] /\ f[1] = w[i][2] /\ f[2] = w[i][3]
           /\ w[i + 1] = <<IF Outward(f) THEN "out" ELSE "internalIn", f[3], f[4]>>
    BY <1>2b DEF LostStep
<1>3. w[i + 1] = <<"internalIn", e[3], e[4]>>
    BY <1>0, <1>1, <1>2 DEF Kind
<1>4. <<s, p>> \in AtomicModelsSource(L, e[3], e[4])
    BY <1>2, <1>3, Entered
<1> QED BY <1>4, InSources

\* So does an input port that is removed.
LEMMA PortTargets ==
    ASSUME NEW M, NEW P, NEW L \in [Kind -> SUBSET Record], GraphOK(M, P, L),
           NEW m \in Model, NEW q \in Port, ~Severs(L, "in", "internalIn", m, q),
           NEW W \in [Kind -> SUBSET Record], W = DelPort(L, "in", "internalIn", m, q),
           NEW s \in Atomic, NEW p \in Port, <<s, p>> \notin SourcesOf(L, {<<m, q>>})
    PROVE  AtomicModelsTarget(W, s, p) = AtomicModelsTarget(L, s, p)
<1> SUFFICES ASSUME AtomicModelsTarget(W, s, p) # AtomicModelsTarget(L, s, p) PROVE FALSE
    OBVIOUS
<1>0. s \in Model
    BY DEF Model
<1>1. \A j \in Kind : W[j] \subseteq L[j]
    BY DEF DelPort
<1>2. ASSUME NEW j \in {"out", "internalIn"}, NEW e \in L[j], e \notin W[j]
      PROVE  \/ j = "internalIn" /\ e[1] = m /\ e[2] = q
             \/ e[3] = m /\ e[4] = q /\ ~Outward(e)
    <2>1. CASE j = "internalIn" /\ e[1] = m /\ e[2] = q
        BY <2>1
    <2>2. CASE ~(j = "internalIn" /\ e[1] = m /\ e[2] = q)
        <3>1. PICK kf \in {"in", "internalIn"} : \E f \in L[kf] :
                  /\ f[1] = m /\ f[2] = q /\ j = Mirror(kf, f)
                  /\ e[1] = f[3] /\ e[2] = f[4] /\ e[3] = m
            BY <1>2, <2>2 DEF DelPort, Kind
        <3>2. PICK f \in L[kf] : /\ f[1] = m /\ f[2] = q /\ j = Mirror(kf, f)
                                 /\ e[1] = f[3] /\ e[2] = f[4] /\ e[3] = m
            BY <3>1
        <3>3. kf = "in"
            BY <1>2, <3>2 DEF Mirror
        <3>4. /\ f \in Record /\ Local(kf, f) /\ Flip(f) \in L[j] /\ j \in Kind /\ kf \in Kind
            BY <3>2, <3>3 DEF GraphOK, Shaped, Symmetric, Kind
        <3>5. /\ Flip(f)[1] = f[3] /\ Flip(f)[3] = m /\ Flip(f)[4] = q
            BY <3>2, <3>4, Records
        <3>6. e = Flip(f)
            <4>1. e[4] = q
                BY <3>2 DEF Severs
            <4>2. e \in Record /\ Flip(f) \in Record /\ Flip(f)[2] = f[4]
                BY <3>4, Records DEF Kind
            <4> QED BY <3>2, <3>5, <4>1, <4>2 DEF Record
        <3>7. ~Outward(Flip(f))
            BY <3>3, <3>4, Ways
        <3> QED BY <3>5, <3>6, <3>7
    <2> QED BY <2>1, <2>2
<1>3a. PICK w \in Reached(L, "out", s, p) : \E i \in Nat : LostStep(W, L, w, i)
    BY <1>0, <1>1, LostWalks
<1>3b. PICK i \in Nat : LostStep(W, L, w, i)
    BY <1>3a
<1>3. /\ i \in 1 .. Len(w) /\ i + 1 \in 1 .. Len(w)
      /\ w[i] \in Place /\ w[i][1] \in {"out", "internalIn"}
      /\ \E f \in L[w[i][1]] :
           /\ f \notin W[w[i][1]] /\ f[1] = w[i][2] /\ f[2] = w[i][3]
           /\ w[i + 1] = <<IF Outward(f) THEN "out" ELSE "internalIn", f[3], f[4]>>
    BY <1>3b DEF LostStep
<1>4. \E n \in {i, i + 1} : w[n][1] = "internalIn" /\ w[n][2] = m /\ w[n][3] = q
    BY <1>2, <1>3
<1>5. <<s, p>> \in AtomicModelsSource(L, m, q)
    BY <1>3, <1>4, Entered
<1> QED BY <1>5, InSources


\* A walk that comes into a subtree enters it through an input port of its root.
LEMMA EntersRoot ==
    ASSUME NEW M, NEW P, NEW L \in [Kind -> SUBSET Record], GraphOK(M, P, L),
           NEW m \in Model, NEW s \in Model, s \notin Subtree[m], NEW p \in Port,
           NEW w \in Walks(L, "out", s, p), NEW i \in 1 .. Len(w), w[i][2] \in Subtree[m]
    PROVE  \E n \in 1 .. Len(w) :
               w[n][1] = "internalIn" /\ w[n][2] = m /\ w[n][3] \in P["in"][m]
<1>1. /\ w \in Seq(Place) /\ Len(w) \in 1 .. (MaxDepth + 1) /\ w[1] = <<"out", s, p>>
      /\ \A j \in 1 .. (Len(w) - 1) : ~AtEnd(w[j]) /\ w[j + 1] \in Follow(L, "out", w[j])
      /\ \A j \in 1 .. Len(w) : w[j] \in Place /\ w[j][1] \in {"out", Down("out")}
    BY WalkPlaces
<1>2. Len(w) \in Nat
    BY <1>1
<1> DEFINE T == {j \in 1 .. Len(w) : w[j][2] \in Subtree[m]}
<1>3. PICK n \in T : \A j \in T : n <= j
    <2>1. T \in SUBSET Nat /\ T # {}
        BY <1>2
    <2> HIDE DEF T
    <2> QED BY <2>1, LeastNatural
<1>4. n \in 1 .. Len(w) /\ w[n][2] \in Subtree[m] /\ n # 1
    BY <1>1, <1>3
<1> DEFINE l == n - 1
<1>5. l \in 1 .. (Len(w) - 1) /\ l \in 1 .. Len(w) /\ l + 1 = n /\ ~(n <= l)
    BY <1>2, <1>4
<1> HIDE DEF l
<1>6. w[l][2] \notin Subtree[m]
    BY <1>3, <1>5
<1>7. w[l] \in Place /\ w[l][1] \in {"out", Down("out")} /\ w[n] \in Follow(L, "out", w[l])
    BY <1>1, <1>5
<1>8. PICK e \in L[w[l][1]] : /\ e[1] = w[l][2] /\ e[2] = w[l][3]
                              /\ w[n][1] = (IF Outward(e) THEN "out" ELSE Down("out"))
                              /\ w[n][2] = e[3] /\ w[n][3] = e[4]
    BY <1>7, Steps
<1>9. w[l][1] \in Kind /\ e \in Record /\ Local(w[l][1], e)
    BY <1>7, <1>8 DEF Place, GraphOK, Shaped
<1>10. e[1] \in Model /\ e[3] \in Model
    BY <1>9, Records
<1>11. ~(Parent[e[1]] \in Subtree[m])
    BY <1>6, <1>8, <1>10, Subtrees
<1>12. ~Outward(e)
    BY <1>4, <1>8, <1>11 DEF Outward
<1>13. e[3] = m
    <2>1. Parent[e[3]] \in {Parent[e[1]], e[1]}
        BY <1>9, <1>12 DEF Local
    <2>2. Parent[e[3]] \notin Subtree[m]
        BY <1>6, <1>8, <1>11, <2>1
    <2> QED BY <1>4, <1>8, <2>2, Subtrees
<1>14. w[n][1] = "internalIn"
    BY <1>8, <1>12 DEF Down
<1>15. w[n][3] \in P[Opposite(w[n][1])][w[n][2]]
    BY <1>7, BackSteps
<1>16. Opposite("internalIn") = "in"
    BY DEF Opposite
<1> QED BY <1>4, <1>8, <1>13, <1>14, <1>15, <1>16

\* A model that is deleted changes the targets of the sources of its inputs.
LEMMA DeleteTargets ==
    ASSUME NEW M, NEW P, NEW L \in [Kind -> SUBSET Record], GraphOK(M, P, L),
           NEW m \in Model, NEW W \in [Kind -> SUBSET Record], W = DelAllConnection(L, m),
           NEW A, \A q \in P["in"][m] : <<m, q>> \in A,
           NEW s \in Atomic, s \notin Subtree[m], NEW p \in Port, <<s, p>> \notin SourcesOf(L, A)
    PROVE  AtomicModelsTarget(W, s, p) = AtomicModelsTarget(L, s, p)
<1> SUFFICES ASSUME AtomicModelsTarget(W, s, p) # AtomicModelsTarget(L, s, p) PROVE FALSE
    OBVIOUS
<1>0. s \in Model
    BY DEF Model
<1>1. /\ \A j \in Kind : W[j] \subseteq L[j]
      /\ \A j \in Kind : \A f \in L[j] : f \notin W[j] => f[1] \in Subtree[m] \/ f[3] = m
    BY DEF DelAllConnection
<1>2a. PICK w \in Reached(L, "out", s, p) : \E i \in Nat : LostStep(W, L, w, i)
    BY <1>0, <1>1, LostWalks
<1>2b. PICK i \in Nat : LostStep(W, L, w, i)
    BY <1>2a
<1>2. /\ i \in 1 .. Len(w) /\ i + 1 \in 1 .. Len(w)
      /\ w[i] \in Place
      /\ \E f \in L[w[i][1]] :
           /\ f \notin W[w[i][1]] /\ f[1] = w[i][2]
           /\ w[i + 1][2] = f[3]
    BY <1>2b DEF LostStep
<1>3. PICK n \in 1 .. Len(w) : w[n][2] \in Subtree[m]
    <2>1. w[i][1] \in Kind
        BY <1>2 DEF Place
    <2>2. w[i][2] \in Subtree[m] \/ w[i + 1][2] = m
        BY <1>1, <1>2, <2>1
    <2> QED BY <1>2, <2>2, Subtrees
<1>4. w \in Walks(L, "out", s, p)
    BY DEF Reached
<1>5. PICK x \in 1 .. Len(w) : w[x][1] = "internalIn" /\ w[x][2] = m /\ w[x][3] \in P["in"][m]
    BY <1>0, <1>3, <1>4, EntersRoot
<1> DEFINE q == w[x][3]
<1>6. <<s, p>> \in AtomicModelsSource(L, m, q) /\ <<m, q>> \in A
    BY <1>5, Entered
<1> QED BY <1>6, InSources


-----------------------------------------------------------------------------
(* The cached targets.                                                     *)

\* No target is cached before the simulation starts.
NotYet(T) == \A s \in Atomic : DOMAIN T[s] = {}

FreshInv ==
    /\ GraphInv
    /\ status = "run" /\ ~bypass /\ ~severed =>
           /\ CacheOK(models, ports, links, mTargets)
           /\ ~m_isStarted => NotYet(mTargets)

\* What the refresh of targets does.
LEMMA RetargetDoes ==
    ASSUME TypeOK, NEW M, NEW P, NEW L, NEW S, Retarget(M, P, L, S)
    PROVE  /\ Refreshed(mTargets, mTargets', M, L, S)
           /\ status' = "run" => \A x \in S : WalkStatus(M, P, L, "out", x[1], x[2]) = "run"
<1>1. ASSUME NEW s \in Atomic \ M PROVE DOMAIN mTargets'[s] = {}
    BY <1>1 DEF Retarget, NoTargets
<1>2. ASSUME NEW s \in Atomic \cap M, NEW p \in DOMAIN mTargets'[s]
      PROVE  \/ <<s, p>> \in S /\ mTargets'[s][p] = AtomicModelsTarget(L, s, p)
             \/ <<s, p>> \notin S /\ p \in DOMAIN mTargets[s] /\ mTargets'[s][p] = mTargets[s][p]
    <2> DEFINE refresh == {r \in Port : <<s, r>> \in S}
    <2>1. mTargets'[s] = [r \in DOMAIN mTargets[s] \cup refresh |->
                             IF r \in refresh THEN AtomicModelsTarget(L, s, r) ELSE mTargets[s][r]]
        BY <1>2 DEF Retarget
    <2>2. DOMAIN mTargets[s] \subseteq Port
        BY <1>2 DEF TypeOK
    <2> QED BY <1>2, <2>1, <2>2
<1>3. ASSUME status' = "run", NEW x \in S PROVE WalkStatus(M, P, L, "out", x[1], x[2]) = "run"
    <2>1. WalkStatus(M, P, L, "out", x[1], x[2]) \in {"run", "thrown", "undefined"}
        BY Searches DEF Ends
    <2> QED BY <1>3, <2>1 DEF Retarget
<1> QED BY <1>1, <1>2, <1>3 DEF Refreshed

\* The targets of the pairs of S are computed again, over the graph that is left.
RefreshOf(S) == \E M, P, L : M = models' /\ P = ports' /\ L = links' /\ Retarget(M, P, L, S)

\* The refresh after an operation: it looks for the sources when the simulation
\* has started, and there is nothing cached before.
LEMMA RefreshStep ==
    ASSUME FreshInv, status = "run", ~bypass /\ ~severed, GraphInv', m_isStarted' = m_isStarted,
           NEW S, RefreshOf(S), ~m_isStarted => S = {},
           m_isStarted => \A s \in Atomic \cap models' : \A p \in DOMAIN mTargets[s] :
               <<s, p>> \notin S => /\ p \in ports'["out"][s]
                                    /\ AtomicModelsTarget(links', s, p) = AtomicModelsTarget(links, s, p)
    PROVE  FreshInv'
<1> SUFFICES ASSUME status' = "run"
             PROVE  /\ CacheOK(models', ports', links', mTargets')
                    /\ ~m_isStarted' => NotYet(mTargets')
    BY DEF FreshInv
<1>1. PICK M, P, L : M = models' /\ P = ports' /\ L = links' /\ Retarget(M, P, L, S)
    BY DEF RefreshOf
<1>2. /\ Refreshed(mTargets, mTargets', M, L, S)
      /\ \A x \in S : WalkStatus(M, P, L, "out", x[1], x[2]) = "run"
    BY <1>1, RetargetDoes DEF FreshInv, GraphInv
<1>3. /\ M \in SUBSET Model /\ L \in [Kind -> SUBSET Record]
      /\ \A s \in Atomic : DOMAIN mTargets'[s] \subseteq Port
    BY <1>1 DEF GraphInv, TypeOK
<1>4. CacheOK(models, ports, links, mTargets) /\ (~m_isStarted => NotYet(mTargets))
    BY DEF FreshInv
<1>5. \A s \in Atomic \cap M : \A p \in DOMAIN mTargets[s] : <<s, p>> \notin S =>
          p \in P["out"][s] /\ AtomicModelsTarget(L, s, p) = AtomicModelsTarget(links, s, p)
    <2>1. CASE m_isStarted
        BY <1>1, <2>1
    <2>2. CASE ~m_isStarted
        BY <1>4, <2>2 DEF NotYet
    <2> QED BY <2>1, <2>2
<1>6. CacheOK(M, P, L, mTargets')
    BY <1>2, <1>3, <1>4, <1>5, CacheRefreshed
<1>7. ASSUME ~m_isStarted' PROVE NotYet(mTargets')
    <2>1. NotYet(mTargets) /\ S = {}
        BY <1>4, <1>7
    <2> QED BY <1>2, <2>1 DEF NotYet, Refreshed
<1> QED BY <1>1, <1>6, <1>7

\* Executive::addConnection.
LEMMA AddFresh ==
    ASSUME FreshInv, NEW c \in Coupled \cap models,
           NEW m \in Joinable(c), NEW n \in Joinable(c), NEW p \in Port, NEW q \in Port,
           AddConnection(c, <<m, p, n, q>>)
    PROVE  FreshInv'
<1> DEFINE e == <<m, p, n, q>>
           k == SourceKind(c, e)
           mk == Mirror(k, e)
           whole == Add(Add(links, k, e), mk, Flip(e))
           output == e[1] # c /\ e[3] = c
           changed == CASE e[1] = c -> {<<c, e[2]>>}
                        [] output -> DOMAIN AtomicModelsTarget(whole, c, e[4])
                        [] OTHER -> {<<e[3], e[4]>>}
<1>1. GraphInv'
    BY AddStep DEF FreshInv
<1> SUFFICES ASSUME status' = "run", ~bypass' /\ ~severed' PROVE FreshInv'
    BY <1>1 DEF FreshInv
<1>2. /\ e \in Record /\ k \in Kind /\ e[1] \in models /\ e[3] \in models
      /\ ~(e[1] = c /\ e[3] = c) => Local(k, e)
    BY Joins DEF FreshInv, GraphInv
<1>3. status = "run" /\ ~bypass /\ ~severed /\ models' = models /\ m_isStarted' = m_isStarted
    BY DEF AddConnection, Operate
<1>4. /\ ~(e[1] = c /\ e[3] = c) /\ links' = whole /\ ports' = ports
      /\ Retarget(models, ports, whole, Sources(whole, changed))
    BY DEF AddConnection, Stop
<1>6. PICK S : S = Sources(whole, changed) /\ RefreshOf(S)
    <2>1. \E M, P, L, S : /\ M = models' /\ P = ports' /\ L = links' /\ S = Sources(whole, changed)
                          /\ Retarget(M, P, L, S)
        BY <1>3, <1>4
    <2> QED BY <2>1 DEF RefreshOf
<1>7. ~m_isStarted => S = {}
    BY <1>6 DEF Sources
<1>8. ASSUME m_isStarted, NEW s \in Atomic \cap models', NEW r \in DOMAIN mTargets[s], <<s, r>> \notin S
      PROVE  /\ r \in ports'["out"][s]
             /\ AtomicModelsTarget(links', s, r) = AtomicModelsTarget(links, s, r)
    <2>1. r \in ports["out"][s] /\ r \in Port
        BY <1>3, <1>8 DEF FreshInv, CacheOK, GraphInv, TypeOK
    <2>2. <<s, r>> \notin SourcesOf(whole, changed)
        BY <1>6, <1>8 DEF Sources, SourcesOf
    <2>3. GraphOK(models, ports, whole) /\ whole \in [Kind -> SUBSET Record]
        BY <1>1, <1>3, <1>4 DEF GraphInv, TypeOK
    <2>4. /\ k \in {"internalIn", "out"} /\ Local(k, e) /\ links \in [Kind -> SUBSET Record]
          /\ (k = "internalIn" <=> e[1] = c)
        BY <1>2, <1>4 DEF SourceKind, FreshInv, GraphInv, TypeOK
    <2>5. e[1] # c => (Outward(e) <=> e[3] = c)
        <3>1. e[1] = m /\ (m = c \/ Parent[m] = c)
            BY DEF Joinable, Children
        <3> QED BY <3>1 DEF Outward
    <2>6. Searched(whole, k, e, changed)
        BY <2>4, <2>5 DEF Searched
    <2> HIDE DEF k, e, changed
    <2>7. whole = Add(Add(links, k, e), Mirror(k, e), Flip(e))
        OBVIOUS
    <2> HIDE DEF whole
    <2>8. /\ s \in Atomic /\ r \in Port /\ e \in Record /\ Local(k, e)
          /\ k \in {"internalIn", "out"} /\ links \in [Kind -> SUBSET Record]
        BY <1>2, <1>8, <2>1, <2>4
    <2>9. AtomicModelsTarget(whole, s, r) = AtomicModelsTarget(links, s, r)
        BY <2>2, <2>3, <2>6, <2>7, <2>8, AddTargets
    <2> QED BY <1>4, <2>1, <2>9
<1> QED BY <1>1, <1>3, <1>6, <1>7, <1>8, RefreshStep

\* Executive::removeConnection, but for an output connection.
LEMMA RemoveFresh ==
    ASSUME FreshInv, NEW c \in Coupled \cap models,
           NEW m \in Joinable(c), NEW n \in Joinable(c), NEW p \in Port, NEW q \in Port,
           RemoveConnection(c, <<m, p, n, q>>)
    PROVE  FreshInv'
<1> DEFINE e == <<m, p, n, q>>
           k == SourceKind(c, e)
           mk == Mirror(k, e)
           whole == Remove(Remove(links, k, e), mk, Flip(e))
           output == e[1] # c /\ e[3] = c
           changed == IF output THEN {} ELSE {<<e[3], e[4]>>}
<1>1. GraphInv'
    BY RemoveStep DEF FreshInv
<1> SUFFICES ASSUME status' = "run", ~bypass' /\ ~severed' PROVE FreshInv'
    BY <1>1 DEF FreshInv
<1>2. /\ e \in Record /\ k \in Kind /\ e[1] \in models /\ e[3] \in models
      /\ ~(e[1] = c /\ e[3] = c) => Local(k, e)
    BY Joins DEF FreshInv, GraphInv
<1>3. status = "run" /\ ~bypass /\ ~severed /\ models' = models /\ m_isStarted' = m_isStarted /\ ~output
    BY DEF RemoveConnection, Operate, Unrefreshed
<1>4. /\ ~(e[1] = c /\ e[3] = c) /\ links' = whole /\ ports' = ports
      /\ Retarget(models, ports, whole, Sources(links, changed))
    BY DEF RemoveConnection, Stop
<1>5. PICK S : S = Sources(links, changed) /\ RefreshOf(S)
    <2>1. \E M, P, L, S : /\ M = models' /\ P = ports' /\ L = links' /\ S = Sources(links, changed)
                          /\ Retarget(M, P, L, S)
        BY <1>3, <1>4
    <2> QED BY <2>1 DEF RefreshOf
<1>6. ~m_isStarted => S = {}
    BY <1>5 DEF Sources
<1>7. ASSUME m_isStarted, NEW s \in Atomic \cap models', NEW r \in DOMAIN mTargets[s], <<s, r>> \notin S
      PROVE  /\ r \in ports'["out"][s]
             /\ AtomicModelsTarget(links', s, r) = AtomicModelsTarget(links, s, r)
    <2>1. r \in ports["out"][s] /\ r \in Port /\ s \in Atomic
        BY <1>3, <1>7 DEF FreshInv, CacheOK, GraphInv, TypeOK
    <2>2. <<s, r>> \notin SourcesOf(links, {<<e[3], e[4]>>})
        BY <1>3, <1>5, <1>7 DEF Sources, SourcesOf
    <2>3. GraphOK(models, ports, links) /\ links \in [Kind -> SUBSET Record]
        BY <1>3 DEF FreshInv, GraphInv, TypeOK
    <2>4. k \in {"internalIn", "out"} /\ Local(k, e) /\ e \in Record
        BY <1>2, <1>4 DEF SourceKind
    <2>5. ~Outward(e)
        <3>1. e[1] = m /\ (m = c \/ Parent[m] = c)
            BY DEF Joinable, Children
        <3>2. CASE m # c
            BY <1>3, <3>1, <3>2 DEF Outward
        <3>3. CASE m = c
            <4>1. k = "internalIn"
                BY <3>1, <3>3 DEF SourceKind
            <4> QED BY <1>2, <2>4, <4>1, Ways
        <3> QED BY <3>2, <3>3
    <2>6. whole \in [Kind -> SUBSET Record]
        BY <1>1, <1>4 DEF GraphInv, TypeOK
    <2> HIDE DEF k, e, changed
    <2>7. whole = Remove(Remove(links, k, e), Mirror(k, e), Flip(e))
        OBVIOUS
    <2> HIDE DEF whole
    <2>8. AtomicModelsTarget(whole, s, r) = AtomicModelsTarget(links, s, r)
        BY <2>1, <2>2, <2>3, <2>4, <2>5, <2>6, <2>7, RemoveTargets
    <2> QED BY <1>4, <2>1, <2>8
<1> QED BY <1>1, <1>3, <1>5, <1>6, <1>7, RefreshStep

\* Executive::removeInputPort.
LEMMA RemoveInputPortFresh ==
    ASSUME FreshInv, NEW m \in Model, NEW p \in Port, RemoveInputPort(m, p)
    PROVE  FreshInv'
<1> DEFINE L == DelPort(links, "in", "internalIn", m, p)
           P == [ports EXCEPT !["in"][m] = @ \ {p}]
<1>1. GraphInv'
    BY RemoveInputPortStep DEF FreshInv
<1> SUFFICES ASSUME status' = "run", ~bypass' /\ ~severed' PROVE FreshInv'
    BY <1>1 DEF FreshInv
<1>2. /\ status = "run" /\ ~bypass /\ ~severed /\ models' = models /\ m_isStarted' = m_isStarted
      /\ ~Severs(links, "in", "internalIn", m, p)
    BY DEF RemoveInputPort, Operate
<1>3. links' = L /\ ports' = P /\ Retarget(models, P, L, Sources(links, {<<m, p>>}))
    BY DEF RemoveInputPort, Stop
<1>4. PICK S : S = Sources(links, {<<m, p>>}) /\ RefreshOf(S)
    <2> HIDE DEF L, P
    <2>1. \E M, Q, W, S : /\ M = models' /\ Q = ports' /\ W = links' /\ S = Sources(links, {<<m, p>>})
                          /\ Retarget(M, Q, W, S)
        BY <1>2, <1>3
    <2> QED BY <2>1 DEF RefreshOf
<1>5. ~m_isStarted => S = {}
    BY <1>4 DEF Sources
<1>6. ASSUME m_isStarted, NEW s \in Atomic \cap models', NEW r \in DOMAIN mTargets[s], <<s, r>> \notin S
      PROVE  /\ r \in ports'["out"][s]
             /\ AtomicModelsTarget(links', s, r) = AtomicModelsTarget(links, s, r)
    <2>1. r \in ports["out"][s] /\ r \in Port /\ s \in Atomic
        BY <1>2, <1>6 DEF FreshInv, CacheOK, GraphInv, TypeOK
    <2>2. <<s, r>> \notin SourcesOf(links, {<<m, p>>})
        BY <1>4, <1>6 DEF Sources, SourcesOf
    <2>3. GraphOK(models, ports, links) /\ links \in [Kind -> SUBSET Record]
        BY <1>2 DEF FreshInv, GraphInv, TypeOK
    <2>4. L \in [Kind -> SUBSET Record]
        BY <1>1, <1>3 DEF GraphInv, TypeOK
    <2>5. L = DelPort(links, "in", "internalIn", m, p)
        OBVIOUS
    <2>6. P["out"] = ports["out"]
        BY DEF FreshInv, GraphInv, TypeOK, Kind
    <2> HIDE DEF L, P
    <2>7. AtomicModelsTarget(L, s, r) = AtomicModelsTarget(links, s, r)
        BY <1>2, <2>1, <2>2, <2>3, <2>4, <2>5, PortTargets
    <2> QED BY <1>3, <2>1, <2>6, <2>7
<1> QED BY <1>1, <1>2, <1>4, <1>5, <1>6, RefreshStep

\* Coordinator::dynamic_deletion.
LEMMA DeleteFresh ==
    ASSUME FreshInv, NEW m \in Model, DeleteModel(m)
    PROVE  FreshInv'
<1> DEFINE changed == {<<m, q>> : q \in ports["in"][m]}
           L == DelAllConnection(links, m)
           M == models \ Subtree[m]
           P == [k \in Kind |-> [n \in Model |->
                    IF n \in Subtree[m] THEN {} ELSE ports[k][n]]]
<1>1. GraphInv'
    BY DeleteStep DEF FreshInv
<1> SUFFICES ASSUME status' = "run", ~bypass' /\ ~severed' PROVE FreshInv'
    BY <1>1 DEF FreshInv
<1>2. status = "run" /\ ~bypass /\ ~severed /\ m_isStarted /\ m_isStarted' = m_isStarted
    BY DEF DeleteModel, Operate
<1>3. /\ links' = L /\ ports' = P /\ models' = M
      /\ Retarget(M, P, L, Sources(links, changed))
    BY DEF DeleteModel, Stop
<1>4. PICK S : S = Sources(links, changed) /\ RefreshOf(S)
    <2> HIDE DEF L, P, M, changed
    <2>1. \E N, Q, W, S : /\ N = models' /\ Q = ports' /\ W = links' /\ S = Sources(links, changed)
                          /\ Retarget(N, Q, W, S)
        BY <1>2, <1>3
    <2> QED BY <2>1 DEF RefreshOf
<1>5. ASSUME NEW s \in Atomic \cap models', NEW r \in DOMAIN mTargets[s], <<s, r>> \notin S
      PROVE  /\ r \in ports'["out"][s]
             /\ AtomicModelsTarget(links', s, r) = AtomicModelsTarget(links, s, r)
    <2>1. r \in ports["out"][s] /\ r \in Port /\ s \in Atomic /\ s \notin Subtree[m] /\ s \in Model
        BY <1>2, <1>3, <1>5 DEF FreshInv, CacheOK, GraphInv, TypeOK
    <2>2. <<s, r>> \notin SourcesOf(links, changed)
        BY <1>2, <1>4, <1>5 DEF Sources, SourcesOf
    <2>3. GraphOK(models, ports, links) /\ links \in [Kind -> SUBSET Record]
        BY <1>2 DEF FreshInv, GraphInv, TypeOK
    <2>4. L \in [Kind -> SUBSET Record]
        BY <1>1, <1>3 DEF GraphInv, TypeOK
    <2>5. L = DelAllConnection(links, m) /\ \A q \in ports["in"][m] : <<m, q>> \in changed
        OBVIOUS
    <2>6. P["out"][s] = ports["out"][s]
        BY <2>1 DEF Kind
    <2> HIDE DEF L, P, changed
    <2>7. AtomicModelsTarget(L, s, r) = AtomicModelsTarget(links, s, r)
        BY <2>1, <2>2, <2>3, <2>4, <2>5, DeleteTargets
    <2> QED BY <1>3, <2>1, <2>6, <2>7
<1> QED BY <1>1, <1>2, <1>4, <1>5, RefreshStep

\* Operations that leave the records and the cached targets alone: nothing is
\* cached for a model that is not in the tree, and no output port goes.
LEMMA QuietFresh ==
    ASSUME FreshInv, GraphInv', links' = links, mTargets' = mTargets,
           m_isStarted' = m_isStarted \/ m_isStarted',
           (status' = "run" /\ ~bypass' /\ ~severed') => (status = "run" /\ ~bypass /\ ~severed),
           models \subseteq models',
           \A s \in Atomic \cap models : ports["out"][s] \subseteq ports'["out"][s]
    PROVE  FreshInv'
<1>1. ASSUME status' = "run", ~bypass' /\ ~severed' PROVE CacheOK(models', ports', links', mTargets')
    <2>1. CacheOK(models, ports, links, mTargets)
        BY <1>1 DEF FreshInv
    <2> QED BY <2>1 DEF CacheOK
<1>2. ASSUME status' = "run", ~bypass' /\ ~severed', ~m_isStarted' PROVE NotYet(mTargets')
    BY <1>2 DEF FreshInv, NotYet
<1> QED BY <1>1, <1>2 DEF FreshInv

\* Simulator::targets computes the targets of a port the first time.
LEMMA SendFresh ==
    ASSUME FreshInv, NEW s \in Atomic \cap models, NEW p \in Port, Send(s, p), GraphInv'
    PROVE  FreshInv'
<1>1. /\ status = "run" /\ m_isStarted
      /\ UNCHANGED <<models, freed, ports, links, m_isStarted, bypass, severed, ops>>
    BY DEF Send, history
<1>2. CASE mTargets' = mTargets
    BY <1>1, <1>2, QuietFresh
<1>3. CASE Retarget(models, ports, links, {<<s, p>>})
    <2> SUFFICES ASSUME ~bypass /\ ~severed PROVE FreshInv'
        BY <1>1 DEF FreshInv
    <2>1. PICK S : S = {<<s, p>>} /\ RefreshOf(S)
        <3>1. \E M, P, L, S : /\ M = models' /\ P = ports' /\ L = links' /\ S = {<<s, p>>}
                              /\ Retarget(M, P, L, S)
            BY <1>1, <1>3
        <3> QED BY <3>1 DEF RefreshOf
    <2>2. ASSUME NEW t \in Atomic \cap models', NEW r \in DOMAIN mTargets[t]
          PROVE  /\ r \in ports'["out"][t]
                 /\ AtomicModelsTarget(links', t, r) = AtomicModelsTarget(links, t, r)
        BY <1>1, <2>2 DEF FreshInv, CacheOK
    <2> QED BY <1>1, <2>1, <2>2, RefreshStep
<1> QED BY <1>2, <1>3 DEF Send

\* Every step keeps the cached targets in order.
LEMMA FreshStep ==
    ASSUME FreshInv, Next
    PROVE  FreshInv'
<1>0. GraphInv'
    BY GraphStep DEF FreshInv
<1>1. ASSUME NEW c \in Coupled \cap models, Change(c) PROVE FreshInv'
    <2>1. \A m \in Children(c) : m \in Model
        BY DEF Children, FreshInv, GraphInv, TypeOK
    <2>2. ASSUME NEW m \in Model, NEW I \in SUBSET Port, NEW O \in SUBSET Port, CreateModel(m, I, O)
          PROVE  FreshInv'
        <3>1. /\ status' = status /\ (~bypass' /\ ~severed' => ~bypass /\ ~severed) /\ m \notin models
              /\ models' = models \cup {m}
              /\ links' = links /\ mTargets' = mTargets /\ m_isStarted' = m_isStarted
            BY <2>2 DEF CreateModel, Operate
        <3>2. \A s \in Atomic \cap models : ports'["out"][s] = ports["out"][s]
            BY <2>2, <3>1 DEF CreateModel, FreshInv, GraphInv, TypeOK, Kind
        <3> QED BY <1>0, <3>1, <3>2, QuietFresh
    <2>3. CASE \E m, n \in Joinable(c), p, q \in Port : AddConnection(c, <<m, p, n, q>>)
        BY <2>3, AddFresh
    <2>4. CASE \E m, n \in Joinable(c), p, q \in Port : RemoveConnection(c, <<m, p, n, q>>)
        BY <2>4, RemoveFresh
    <2>5. ASSUME NEW m \in Children(c), NEW p \in Port,
                 AddPort(m, p, "in", "internalIn") \/ AddPort(m, p, "out", "internalOut")
          PROVE  FreshInv'
        <3>1. /\ status' = status /\ (~bypass' /\ ~severed' => ~bypass /\ ~severed) /\ models' = models
              /\ links' = links /\ mTargets' = mTargets /\ m_isStarted' = m_isStarted
            BY <2>5 DEF AddPort, Operate
        <3>2. \A s \in Atomic \cap models : ports["out"][s] \subseteq ports'["out"][s]
            <4>1. ports \in [Kind -> [Model -> SUBSET Port]] /\ m \in Model
                  /\ Atomic \subseteq Model
                BY <2>1 DEF FreshInv, GraphInv, TypeOK, Model
            <4>2. CASE AddPort(m, p, "in", "internalIn")
                BY <4>1, <4>2 DEF AddPort, Kind
            <4>3. CASE AddPort(m, p, "out", "internalOut")
                BY <4>1, <4>3 DEF AddPort, Kind
            <4> QED BY <2>5, <4>2, <4>3
        <3> QED BY <1>0, <3>1, <3>2, QuietFresh
    <2>6. CASE \E m \in Children(c), p \in Port : RemoveInputPort(m, p)
        BY <2>1, <2>6, RemoveInputPortFresh
    <2>7. CASE \E m \in Children(c), p \in Port :
                  RemoveOutputPort(m, p) \/ RemoveCoupledOutputPort(m, p)
        <3>1. bypass'
            BY <2>7 DEF RemoveOutputPort, RemoveCoupledOutputPort, Operate, Unrefreshed
        <3> QED BY <1>0, <3>1 DEF FreshInv
    <2>8. CASE \E m \in Children(c) : DeleteModel(m)
        BY <2>1, <2>8, DeleteFresh
    <2> QED BY <1>1, <2>2, <2>3, <2>4, <2>5, <2>6, <2>7, <2>8 DEF Change
<1>2. CASE Start
    <2>1. /\ m_isStarted' /\ UNCHANGED <<models, freed, ports, links, mTargets, status, bypass, severed, ops>>
        BY <1>2 DEF Start, history
    <2> QED BY <1>0, <2>1, QuietFresh
<1>3. ASSUME NEW s \in Atomic \cap models, NEW p \in Port, Send(s, p) PROVE FreshInv'
    BY <1>0, <1>3, SendFresh
<1>4. CASE Terminated
    BY <1>0, <1>4, QuietFresh DEF Terminated, vars, history
<1> QED BY <1>1, <1>2, <1>3, <1>4 DEF Next

\* The invariant of the cached targets holds.
THEOREM FreshInvariant == Spec => []FreshInv
<1>1. Init => NotYet(mTargets)
    BY DEF Init, NotYet, NoTargets
<1>2. GraphInv /\ Init => FreshInv
    BY <1>1 DEF FreshInv, CacheOK, NotYet
<1>3. FreshInv /\ [Next]_vars => FreshInv'
    <2>1. CASE UNCHANGED vars
        <3>1. FreshInv => GraphInv'
            BY <2>1 DEF vars, history, FreshInv, GraphInv, TypeOK
        <3> QED BY <2>1, <3>1, QuietFresh DEF vars, history
    <2> QED BY <2>1, FreshStep
<1> QED BY <1>2, <1>3, GraphInvariant, PTL DEF Spec

\* As long as the executives remove no output connection and no output port
\* (bypass) and no connection has lost one of its records (severed), the
\* targets a simulator has cached are those of the graph
\* (Coordinator::updateSimulatorsTarget, Simulator::updateSimulatorTargets).
THEOREM TargetsAreFresh == Spec => []TargetsFresh
<1>1. FreshInv => TargetsFresh
    BY DEF FreshInv, TargetsFresh, CacheOK
<1> QED BY <1>1, FreshInvariant, PTL


-----------------------------------------------------------------------------
(* Searches that reach no freed model.                                     *)

\* A search from a model of the tree stays in the tree.
LEMMA WalksInTree ==
    ASSUME NEW M, NEW P, NEW L \in [Kind -> SUBSET Record], GraphOK(M, P, L),
           NEW up \in {"in", "out"}, NEW m \in Model, m \in M, NEW p \in Port,
           NEW w \in Walks(L, up, m, p), NEW i \in 1 .. Len(w)
    PROVE  w[i][2] \in M
<1>1. /\ w \in Seq(Place) /\ w[1] = <<up, m, p>>
      /\ \A j \in 1 .. (Len(w) - 1) : w[j + 1] \in Follow(L, up, w[j])
      /\ \A j \in 1 .. Len(w) : w[j] \in Place /\ w[j][1] \in {up, Down(up)}
    BY WalkPlaces
<1>2. CASE i = 1
    BY <1>1, <1>2
<1>3. CASE i # 1
    <2>1. i - 1 \in 1 .. (Len(w) - 1) /\ (i - 1) + 1 = i /\ i - 1 \in 1 .. Len(w)
        BY <1>1, <1>3
    <2>2. w[i] \in Follow(L, up, w[i - 1]) /\ w[i - 1] \in Place /\ w[i - 1][1] \in {up, Down(up)}
        BY <1>1, <2>1
    <2> QED BY <2>2, BackSteps
<1> QED BY <1>2, <1>3

\* So it is defined, and what it finds is in the tree.
LEMMA SearchDefined ==
    ASSUME NEW M, NEW P, NEW L \in [Kind -> SUBSET Record], GraphOK(M, P, L),
           NEW m \in Model, m \in M, NEW p \in Port
    PROVE  /\ WalkStatus(M, P, L, "in", m, p) # "undefined"
           /\ WalkStatus(M, P, L, "out", m, p) # "undefined"
           /\ \A t \in DOMAIN AtomicModelsTarget(L, m, p) :
                t[1] \in Atomic /\ t[1] \in M /\ t[2] \in Port
           /\ \A t \in AtomicModelsSource(L, m, p) :
                t[1] \in Atomic /\ t[1] \in M /\ t[2] \in Port
<1>1. ASSUME NEW up \in {"in", "out"}, NEW w \in Walks(L, up, m, p) PROVE Last(w)[2] \in M
    <2>1. Len(w) \in 1 .. Len(w)
        BY WalkPlaces
    <2> QED BY <2>1, WalksInTree DEF Last
<1>2. ASSUME NEW up \in {"in", "out"} PROVE WalkStatus(M, P, L, up, m, p) # "undefined"
    BY <1>1 DEF WalkStatus
<1>3. ASSUME NEW up \in {"in", "out"}, NEW w \in Reached(L, up, m, p)
      PROVE  Last(w)[2] \in Atomic /\ Last(w)[2] \in M /\ Last(w)[3] \in Port
    BY <1>1, LastPlace DEF Reached
<1>4. \A t \in DOMAIN AtomicModelsTarget(L, m, p) :
          t[1] \in Atomic /\ t[1] \in M /\ t[2] \in Port
    BY <1>3, TargetDomain
<1>5. \A t \in AtomicModelsSource(L, m, p) :
          t[1] \in Atomic /\ t[1] \in M /\ t[2] \in Port
    BY <1>3, TargetDomain
<1> QED BY <1>2, <1>4, <1>5

\* A subtree holds the subtrees of its models.
LEMMA SubtreeOfSubtree ==
    ASSUME NEW a \in Model, NEW b \in Subtree[a]
    PROVE  b \in Model /\ Subtree[b] \subseteq Subtree[a]
<1>1. b \in Model /\ Subtree[a] \subseteq Model /\ \A x \in Model : Parent[x] \in Subtree[a] => x \in Subtree[a]
    BY Subtrees
<1>2. \A n : n \in Subtree[b] => \A S \in SUBSET Model :
          (b \in S /\ \A x \in Model : Parent[x] \in S => x \in S) => n \in S
    BY <1>1 DEF Subtree
<1> QED BY <1>1, <1>2

\* The models of a subtree are not above its root.
LEMMA SubtreeDeep ==
    ASSUME NEW a \in Model, a # Top PROVE Parent[a] \notin Subtree[a]
<1>1. PICK depth \in [Model -> 0 .. Cardinality(Model)] :
          \A m \in Model \ {Top} : depth[Parent[m]] < depth[m]
    BY TreeAssumption
<1>2. Cardinality(Model) \in Nat
    BY ConnectionsAssumption, FS_CardinalityType
<1>3. \A x \in Model : depth[x] \in Nat
    BY <1>2
<1> DEFINE S == {x \in Model : depth[a] <= depth[x]}
<1>4. S \in SUBSET Model /\ a \in S
    BY <1>3
<1>5. ASSUME NEW x \in Model, Parent[x] \in S PROVE x \in S
    <2>1. x # Top
        BY <1>5, ConnectionsAssumption
    <2>2. depth[Parent[x]] < depth[x] /\ depth[a] <= depth[Parent[x]] /\ Parent[x] \in Model
        BY <1>1, <1>5, <2>1
    <2>3. depth[a] \in Nat /\ depth[x] \in Nat /\ depth[Parent[x]] \in Nat
        BY <1>3, <2>2
    <2> QED BY <2>2, <2>3
<1>6. Parent[a] \in Subtree[a] => Parent[a] \in S
    <2> HIDE DEF S
    <2> QED BY <1>4, <1>5 DEF Subtree
<1>7. Parent[a] \in Model
    BY ConnectionsAssumption DEF Model
<1>8. depth[Parent[a]] < depth[a] /\ depth[Parent[a]] \in Nat /\ depth[a] \in Nat
    BY <1>1, <1>3, <1>7
<1> QED BY <1>6, <1>8

\* Two children of a model have no model in common.
LEMMA SiblingsApart ==
    ASSUME NEW a \in Model, NEW b \in Model, a # b, Parent[a] = Parent[b],
           NEW n \in Model, n \in Subtree[a], n \in Subtree[b]
    PROVE  FALSE
<1>1. PICK depth \in [Model -> 0 .. Cardinality(Model)] :
          \A m \in Model \ {Top} : depth[Parent[m]] < depth[m]
    BY TreeAssumption
<1>2. Cardinality(Model) \in Nat
    BY ConnectionsAssumption, FS_CardinalityType
<1>3. \A x \in Model : depth[x] \in Nat
    BY <1>2
<1>4. a # Top /\ b # Top
    BY ConnectionsAssumption
<1> DEFINE Both == Subtree[a] \cap Subtree[b]
           T == {depth[x] : x \in Both}
<1>5. Both \subseteq Model /\ n \in Both
    BY Subtrees
<1>6. PICK x \in Both : \A y \in Both : depth[x] <= depth[y]
    <2>1. T \in SUBSET Nat /\ T # {}
        BY <1>3, <1>5
    <2>2. PICK d \in T : \A f \in T : d <= f
        <3> HIDE DEF T
        <3> QED BY <2>1, LeastNatural
    <2> QED BY <2>2
<1>7. x \in Model
    BY <1>5
<1>8. CASE x # a /\ x # b
    <2>1. Parent[x] \in Both
        BY <1>6, <1>8, Subtrees
    <2>2. x # Top /\ Parent[x] \in Model
        BY <1>5, <1>7, <2>1, ConnectionsAssumption
    <2>3. depth[Parent[x]] < depth[x] /\ depth[x] <= depth[Parent[x]]
        BY <1>1, <1>6, <1>7, <2>1, <2>2
    <2>4. depth[Parent[x]] \in Nat /\ depth[x] \in Nat
        BY <1>3, <1>7, <2>2
    <2> QED BY <2>3, <2>4
<1>9. CASE x = a
    <2>1. Parent[b] \in Subtree[b]
        BY <1>6, <1>9, Subtrees
    <2> QED BY <1>4, <2>1, SubtreeDeep
<1>10. CASE x = b
    <2>1. Parent[a] \in Subtree[a]
        BY <1>6, <1>10, Subtrees
    <2> QED BY <1>4, <2>1, SubtreeDeep
<1> QED BY <1>8, <1>9, <1>10

\* No model is connected to itself.
NoLoop(L) == \A k \in Kind : \A e \in L[k] : e[1] # e[3]

\* Where a search of sources of m may be: above m, or beside it.
Beside(m, n) ==
    /\ n[1] = "in" => m \in Subtree[n[2]]
    /\ n[1] = "internalOut" => n[2] \notin Subtree[m] /\ m \notin Subtree[n[2]]

\* A step of such a search.
LEMMA BesideStep ==
    ASSUME NEW M, NEW P, NEW L \in [Kind -> SUBSET Record], GraphOK(M, P, L), NoLoop(L),
           NEW m \in Model, NEW n \in Place, n[1] \in {"in", "internalOut"}, Beside(m, n),
           NEW x \in Follow(L, "in", n)
    PROVE  Beside(m, x)
<1>1. PICK e \in L[n[1]] : /\ e[1] = n[2] /\ e[2] = n[3]
                           /\ x[1] = (IF Outward(e) THEN "in" ELSE Down("in"))
                           /\ x[2] = e[3] /\ x[3] = e[4]
    BY Steps
<1>2. /\ n[1] \in Kind /\ e \in Record /\ Local(n[1], e) /\ e[1] # e[3] /\ Down("in") = "internalOut"
    BY <1>1 DEF Place, GraphOK, Shaped, NoLoop, Down
<1>3. e[1] \in Model /\ e[3] \in Model
    BY <1>2, Records
<1>4. CASE n[1] = "in" /\ Outward(e)
    <2>1. e[1] \in Subtree[e[3]]
        BY <1>3, <1>4, Subtrees DEF Outward
    <2>2. Subtree[e[1]] \subseteq Subtree[e[3]]
        BY <1>3, <2>1, SubtreeOfSubtree
    <2>3. x[1] = "in" /\ m \in Subtree[x[2]]
        BY <1>1, <1>4, <2>2 DEF Beside
    <2> QED BY <2>3 DEF Beside
<1>5. CASE n[1] = "in" /\ ~Outward(e)
    <2>1. Parent[e[3]] = Parent[e[1]] /\ m \in Subtree[e[1]]
        BY <1>1, <1>2, <1>5 DEF Local, Beside
    <2>2. m \notin Subtree[e[3]]
        BY <1>2, <1>3, <2>1, SiblingsApart
    <2>3. e[3] \notin Subtree[m]
        <3> SUFFICES ASSUME e[3] \in Subtree[m] PROVE FALSE
            OBVIOUS
        <3>1. e[3] \in Subtree[e[1]] /\ e[3] \in Subtree[e[3]]
            BY <1>3, <2>1, SubtreeOfSubtree, Subtrees
        <3> QED BY <1>2, <1>3, <2>1, <3>1, SiblingsApart
    <2> QED BY <1>1, <1>2, <1>5, <2>2, <2>3 DEF Beside
<1>6. CASE n[1] = "internalOut"
    <2>1. Parent[e[3]] = e[1] /\ e[1] \notin Subtree[m] /\ m \notin Subtree[e[1]]
        BY <1>1, <1>2, <1>6 DEF Local, Beside
    <2>2. e[3] \in Subtree[e[1]]
        BY <1>3, <2>1, Subtrees
    <2>3. m \notin Subtree[e[3]]
        BY <1>3, <2>1, <2>2, SubtreeOfSubtree
    <2>4. e[3] # m
        BY <2>1, <2>2
    <2>5. e[3] \notin Subtree[m]
        BY <2>1, <2>4, Subtrees
    <2>6. ~Outward(e)
        BY <1>2, <1>6, Ways
    <2> QED BY <1>1, <1>2, <2>3, <2>5, <2>6 DEF Beside
<1> QED BY <1>4, <1>5, <1>6

\* The sources of a model are outside its subtree.
LEMMA SourcesOutside ==
    ASSUME NEW M, NEW P, NEW L \in [Kind -> SUBSET Record], GraphOK(M, P, L), NoLoop(L),
           NEW m \in Model, NEW p \in Port, NEW t \in AtomicModelsSource(L, m, p)
    PROVE  t[1] \notin Subtree[m]
<1>1. PICK w \in Reached(L, "in", m, p) : t = <<Last(w)[2], Last(w)[3]>>
    BY TargetDomain
<1>2. /\ w \in Walks(L, "in", m, p) /\ Len(w) \in 1 .. Len(w) /\ Last(w) = w[Len(w)]
      /\ w[Len(w)][1] = Down("in")
    BY LastPlace
<1>3. /\ w \in Seq(Place) /\ w[1] = <<"in", m, p>>
      /\ \A j \in 1 .. (Len(w) - 1) : w[j + 1] \in Follow(L, "in", w[j])
      /\ \A j \in 1 .. Len(w) : w[j] \in Place /\ w[j][1] \in {"in", Down("in")}
    BY <1>2, WalkPlaces
<1>4. Down("in") = "internalOut" /\ Len(w) \in Nat
    BY <1>3 DEF Down
<1> DEFINE S == {i \in Nat : i + 1 <= Len(w) => Beside(m, w[i + 1])}
<1>5. 0 \in S
    <2>1. Beside(m, w[1])
        BY <1>3, Subtrees DEF Beside
    <2> QED BY <2>1
<1>6. ASSUME NEW i \in S PROVE i + 1 \in S
    <2>1. CASE (i + 1) + 1 <= Len(w)
        <3>1. i + 1 \in 1 .. (Len(w) - 1) /\ i + 1 \in 1 .. Len(w) /\ i + 1 <= Len(w)
            BY <1>4, <1>6, <2>1
        <3>2. /\ Beside(m, w[i + 1]) /\ w[i + 1] \in Place /\ w[i + 1][1] \in {"in", "internalOut"}
              /\ w[(i + 1) + 1] \in Follow(L, "in", w[i + 1])
            BY <1>3, <1>4, <1>6, <3>1
        <3>3. Beside(m, w[(i + 1) + 1])
            BY <3>2, BesideStep
        <3> QED BY <1>6, <3>3
    <2>2. CASE ~((i + 1) + 1 <= Len(w))
        BY <1>6, <2>2
    <2> QED BY <2>1, <2>2
<1>7. S = Nat
    <2>1. S \in SUBSET Nat
        OBVIOUS
    <2> HIDE DEF S
    <2> QED BY <1>5, <1>6, <2>1, SetInduction
<1>8. Len(w) - 1 \in Nat /\ (Len(w) - 1) + 1 = Len(w)
    BY <1>2, <1>4
<1>9. Beside(m, w[Len(w)])
    <2> DEFINE l == Len(w) - 1
    <2>1. l \in Nat /\ l + 1 = Len(w) /\ l + 1 <= Len(w)
        BY <1>4, <1>8
    <2>2. l \in S
        <3> HIDE DEF S, l
        <3> QED BY <1>7, <2>1
    <2> HIDE DEF l
    <2>3. l + 1 <= Len(w) => Beside(m, w[l + 1])
        BY <2>2
    <2> QED BY <2>1, <2>3
<1> QED BY <1>1, <1>2, <1>4, <1>9 DEF Beside


-----------------------------------------------------------------------------
(* No step reads a freed model.                                            *)

SafeInv ==
    /\ FreshInv
    /\ status = "run" /\ ~bypass /\ ~severed => NoLoop(links)
    /\ GraphSafe

\* The searches of sources from places of the tree.
LEMMA SourcesDefined ==
    ASSUME NEW M, NEW P, NEW L \in [Kind -> SUBSET Record], GraphOK(M, P, L), NEW A,
           \A a \in A : a[1] \in Model /\ a[1] \in M /\ a[2] \in Port
    PROVE  /\ SourcesStatus(M, P, L, A) # "undefined"
           /\ \A x \in Sources(L, A) : x[1] \in Model /\ x[1] \in M /\ x[2] \in Port
<1>1. \A a \in A : WalkStatus(M, P, L, "in", a[1], a[2]) # "undefined"
    BY SearchDefined
<1>2. SourcesStatus(M, P, L, A) # "undefined"
    BY <1>1 DEF SourcesStatus
<1>3. ASSUME NEW x \in Sources(L, A) PROVE x[1] \in Model /\ x[1] \in M /\ x[2] \in Port
    <2>1. PICK a \in A : x \in AtomicModelsSource(L, a[1], a[2])
        BY <1>3 DEF Sources
    <2> QED BY <2>1, SearchDefined DEF Model
<1> QED BY <1>2, <1>3

\* The refresh of the targets of models of the tree.
LEMMA RefreshDefined ==
    ASSUME NEW S, RefreshOf(S), links' \in [Kind -> SUBSET Record],
           GraphOK(models', ports', links'),
           \A x \in S : x[1] \in Model /\ x[1] \in models' /\ x[2] \in Port
    PROVE  status' # "undefined"
<1>1. PICK M, P, L : M = models' /\ P = ports' /\ L = links' /\ Retarget(M, P, L, S)
    BY DEF RefreshOf
<1>2. ASSUME NEW x \in S PROVE WalkStatus(M, P, L, "out", x[1], x[2]) # "undefined"
    <2>1. x[1] \in Model /\ x[1] \in M /\ x[2] \in Port
        BY <1>1
    <2>2. L \in [Kind -> SUBSET Record] /\ GraphOK(M, P, L)
        BY <1>1
    <2> QED BY <2>1, <2>2, SearchDefined
<1> QED BY <1>1, <1>2 DEF Retarget

\* Executive::addConnection.
LEMMA AddSafe ==
    ASSUME SafeInv, ~Feedback, NEW c \in Coupled \cap models,
           NEW m \in Joinable(c), NEW n \in Joinable(c), NEW p \in Port, NEW q \in Port,
           AddConnection(c, <<m, p, n, q>>)
    PROVE  SafeInv'
<1> DEFINE e == <<m, p, n, q>>
           k == SourceKind(c, e)
           mk == Mirror(k, e)
           whole == Add(Add(links, k, e), mk, Flip(e))
           output == e[1] # c /\ e[3] = c
           changed == CASE e[1] = c -> {<<c, e[2]>>}
                        [] output -> DOMAIN AtomicModelsTarget(whole, c, e[4])
                        [] OTHER -> {<<e[3], e[4]>>}
           found == {SourcesStatus(models, ports, whole, changed)}
                    \cup (IF output
                          THEN {WalkStatus(models, ports, whole, "out", c, e[4])}
                          ELSE {})
<1>1. FreshInv'
    BY AddFresh DEF SafeInv
<1> SUFFICES ASSUME ~bypass' /\ ~severed' PROVE (status' = "run" => NoLoop(links')) /\ status' # "undefined"
    BY <1>1 DEF SafeInv, GraphSafe
<1>2. /\ e \in Record /\ k \in Kind /\ mk \in Kind /\ e[1] \in models /\ e[3] \in models
      /\ ~(e[1] = c /\ e[3] = c) => Local(k, e)
    BY Joins DEF SafeInv, FreshInv, GraphInv
<1>3. /\ status = "run" /\ ~bypass /\ ~severed /\ models' = models /\ e[1] # e[3]
    BY DEF AddConnection, Operate
<1>4. CASE status' = "thrown"
    BY <1>4
<1>5. CASE status' # "thrown"
    <2>1. /\ ~(e[1] = c /\ e[3] = c) /\ e[2] \in ports[k][e[1]] /\ e[4] \in ports[mk][e[3]]
        BY <1>5 DEF AddConnection, Stop
    <2>2. \/ status' \in found \ {"run"}
          \/ links' = whole /\ ports' = ports /\ Retarget(models, ports, whole, Sources(whole, changed))
        BY <1>5 DEF AddConnection, Stop
    <2>3. links \in [Kind -> SUBSET Record] /\ GraphOK(models, ports, links) /\ NoLoop(links)
        BY <1>3 DEF SafeInv, FreshInv, GraphInv, TypeOK
    <2>4. whole \in [Kind -> SUBSET Record] /\ GraphOK(models, ports, whole)
        <3> HIDE DEF e, k
        <3> QED BY <1>2, <1>3, <2>1, <2>3, Connected
    <2>5. NoLoop(whole)
        <3>1. Flip(e) \in Record /\ Flip(e)[1] = e[3] /\ Flip(e)[3] = e[1]
            BY <1>2, Records
        <3>2. \A j \in Kind : \A f \in whole[j] : f \in links[j] \/ f = e \/ f = Flip(e)
            <4> HIDE DEF e, k, mk
            <4>1. Add(links, k, e) \in [Kind -> SUBSET Record]
                BY <1>2, <2>3, Added
            <4> QED BY <1>2, <2>3, <3>1, <4>1, Added
        <3> HIDE DEF e, whole
        <3> QED BY <1>3, <2>3, <3>1, <3>2 DEF NoLoop
    <2>6. models \subseteq Model /\ c \in models /\ c \in Model /\ e[2] \in Port /\ e[4] \in Port
        BY <1>2, Records DEF SafeInv, FreshInv, GraphInv, TypeOK
    <2> HIDE DEF whole, e
    <2>7. /\ WalkStatus(models, ports, whole, "out", c, e[4]) # "undefined"
          /\ \A t \in DOMAIN AtomicModelsTarget(whole, c, e[4]) :
                t[1] \in Model /\ t[1] \in models /\ t[2] \in Port
        BY <2>4, <2>6, SearchDefined DEF Model
    <2>8. \A a \in changed : a[1] \in Model /\ a[1] \in models /\ a[2] \in Port
        BY <1>2, <2>6, <2>7
    <2> HIDE DEF changed
    <2>9. /\ SourcesStatus(models, ports, whole, changed) # "undefined"
          /\ \A x \in Sources(whole, changed) : x[1] \in Model /\ x[1] \in models /\ x[2] \in Port
        BY <2>4, <2>8, SourcesDefined
    <2>10. CASE status' \in found \ {"run"}
        BY <2>7, <2>9, <2>10
    <2>11. CASE links' = whole /\ ports' = ports /\ Retarget(models, ports, whole, Sources(whole, changed))
        <3>1. \E M, P, L, S : /\ M = models' /\ P = ports' /\ L = links' /\ S = Sources(whole, changed)
                              /\ Retarget(M, P, L, S)
            BY <1>3, <2>11
        <3>2. PICK S : S = Sources(whole, changed) /\ RefreshOf(S)
            BY <3>1 DEF RefreshOf
        <3>3. status' # "undefined"
            BY <1>3, <2>4, <2>9, <2>11, <3>2, RefreshDefined
        <3> QED BY <2>5, <2>11, <3>3
    <2> QED BY <2>2, <2>10, <2>11
<1> QED BY <1>4, <1>5

\* Executive::removeConnection.
LEMMA RemoveSafe ==
    ASSUME SafeInv, NEW c \in Coupled \cap models,
           NEW m \in Joinable(c), NEW n \in Joinable(c), NEW p \in Port, NEW q \in Port,
           RemoveConnection(c, <<m, p, n, q>>)
    PROVE  SafeInv'
<1> DEFINE e == <<m, p, n, q>>
           k == SourceKind(c, e)
           mk == Mirror(k, e)
           whole == Remove(Remove(links, k, e), mk, Flip(e))
           output == e[1] # c /\ e[3] = c
           changed == IF output THEN {} ELSE {<<e[3], e[4]>>}
<1>1. FreshInv'
    BY RemoveFresh DEF SafeInv
<1> SUFFICES ASSUME ~bypass' /\ ~severed' PROVE (status' = "run" => NoLoop(links')) /\ status' # "undefined"
    BY <1>1 DEF SafeInv, GraphSafe
<1>2. /\ e \in Record /\ k \in Kind /\ mk \in Kind /\ e[1] \in models /\ e[3] \in models
      /\ ~(e[1] = c /\ e[3] = c) => Local(k, e)
    BY Joins DEF SafeInv, FreshInv, GraphInv
<1>3. status = "run" /\ ~bypass /\ ~severed /\ models' = models
    BY DEF RemoveConnection, Operate
<1>4. \/ status' = "thrown"
      \/ status' = SourcesStatus(models, ports, links, changed) /\ status' # "run"
      \/ /\ ~(e[1] = c /\ e[3] = c) /\ links' = whole /\ ports' = ports
         /\ Retarget(models, ports, whole, Sources(links, changed))
    BY DEF RemoveConnection, Stop
<1>5. links \in [Kind -> SUBSET Record] /\ GraphOK(models, ports, links) /\ NoLoop(links)
    BY <1>3 DEF SafeInv, FreshInv, GraphInv, TypeOK
<1>6. \A a \in changed : a[1] \in Model /\ a[1] \in models /\ a[2] \in Port
    BY <1>2, Records
<1> HIDE DEF changed, e, k
<1>7. /\ SourcesStatus(models, ports, links, changed) # "undefined"
      /\ \A x \in Sources(links, changed) : x[1] \in Model /\ x[1] \in models /\ x[2] \in Port
    BY <1>5, <1>6, SourcesDefined
<1>8. CASE /\ ~(e[1] = c /\ e[3] = c) /\ links' = whole /\ ports' = ports
           /\ Retarget(models, ports, whole, Sources(links, changed))
    <2>1. whole \in [Kind -> SUBSET Record] /\ GraphOK(models, ports, whole)
        BY <1>2, <1>5, <1>8, Disconnected
    <2>2. \A j \in Kind : whole[j] \subseteq links[j]
        BY <1>2, <1>5 DEF Remove
    <2> HIDE DEF whole
    <2>3. \E M, P, L, S : /\ M = models' /\ P = ports' /\ L = links' /\ S = Sources(links, changed)
                          /\ Retarget(M, P, L, S)
        BY <1>3, <1>8
    <2>4. PICK S : S = Sources(links, changed) /\ RefreshOf(S)
        BY <2>3 DEF RefreshOf
    <2>5. status' # "undefined"
        BY <1>3, <1>7, <1>8, <2>1, <2>4, RefreshDefined
    <2>6. NoLoop(whole)
        BY <1>5, <2>2 DEF NoLoop
    <2> QED BY <1>8, <2>5, <2>6
<1> QED BY <1>4, <1>7, <1>8

\* Executive::removeInputPort.
LEMMA RemoveInputPortSafe ==
    ASSUME SafeInv, NEW m \in Model, m \in models, NEW p \in Port, RemoveInputPort(m, p)
    PROVE  SafeInv'
<1> DEFINE L == DelPort(links, "in", "internalIn", m, p)
           P == [ports EXCEPT !["in"][m] = @ \ {p}]
           changed == {<<m, p>>}
<1>1. FreshInv'
    BY RemoveInputPortFresh DEF SafeInv
<1> SUFFICES ASSUME ~bypass' /\ ~severed' PROVE (status' = "run" => NoLoop(links')) /\ status' # "undefined"
    BY <1>1 DEF SafeInv, GraphSafe
<1>2. /\ status = "run" /\ ~bypass /\ ~severed /\ models' = models
      /\ ~Severs(links, "in", "internalIn", m, p)
    BY DEF RemoveInputPort, Operate
<1>3. \/ status' = "thrown"
      \/ status' = SourcesStatus(models, ports, links, changed) /\ status' # "run"
      \/ links' = L /\ ports' = P /\ Retarget(models, P, L, Sources(links, changed))
    BY DEF RemoveInputPort, Stop
<1>4. /\ links \in [Kind -> SUBSET Record] /\ GraphOK(models, ports, links) /\ NoLoop(links)
      /\ ports \in [Kind -> [Model -> SUBSET Port]]
    BY <1>2 DEF SafeInv, FreshInv, GraphInv, TypeOK
<1>5. /\ SourcesStatus(models, ports, links, changed) # "undefined"
      /\ \A x \in Sources(links, changed) : x[1] \in Model /\ x[1] \in models /\ x[2] \in Port
    <2>1. \A a \in changed : a[1] \in Model /\ a[1] \in models /\ a[2] \in Port
        OBVIOUS
    <2> HIDE DEF changed
    <2> QED BY <1>4, <2>1, SourcesDefined
<1> HIDE DEF changed
<1>6. CASE links' = L /\ ports' = P /\ Retarget(models, P, L, Sources(links, changed))
    <2>1. "in" \in Kind /\ "internalIn" \in Kind
        BY DEF Kind
    <2>2. \A j \in Kind, n \in Model : \A r \in ports[j][n] :
              ~(j = "in" /\ n = m /\ r = p) => r \in P[j][n]
        BY <1>4
    <2>3. \A j \in Kind : L[j] \subseteq links[j]
        BY DEF DelPort
    <2> HIDE DEF P
    <2>4. L \in [Kind -> SUBSET Record] /\ GraphOK(models, P, L)
        BY <1>2, <1>4, <2>1, <2>2, PortRemoved
    <2> HIDE DEF L
    <2>5. \E M, Q, W, S : /\ M = models' /\ Q = ports' /\ W = links' /\ S = Sources(links, changed)
                          /\ Retarget(M, Q, W, S)
        BY <1>2, <1>6
    <2>6. PICK S : S = Sources(links, changed) /\ RefreshOf(S)
        BY <2>5 DEF RefreshOf
    <2>7. status' # "undefined"
        BY <1>2, <1>5, <1>6, <2>4, <2>6, RefreshDefined
    <2>8. NoLoop(L)
        BY <1>4, <2>3 DEF NoLoop
    <2> QED BY <1>6, <2>7, <2>8
<1> QED BY <1>3, <1>5, <1>6

\* Coordinator::dynamic_deletion: the sources it refreshes are not freed.
LEMMA DeleteSafe ==
    ASSUME SafeInv, NEW m \in Model, DeleteModel(m)
    PROVE  SafeInv'
<1> DEFINE changed == {<<m, r>> : r \in ports["in"][m]}
           L == DelAllConnection(links, m)
           M == models \ Subtree[m]
           P == [k \in Kind |-> [n \in Model |->
                    IF n \in Subtree[m] THEN {} ELSE ports[k][n]]]
<1>1. FreshInv'
    BY DeleteFresh DEF SafeInv
<1> SUFFICES ASSUME ~bypass' /\ ~severed' PROVE (status' = "run" => NoLoop(links')) /\ status' # "undefined"
    BY <1>1 DEF SafeInv, GraphSafe
<1>2. status = "run" /\ ~bypass /\ ~severed /\ m \in models
    BY DEF DeleteModel, Operate
<1>3. \/ status' = SourcesStatus(models, ports, links, changed) /\ status' # "run"
      \/ models' = M /\ links' = L /\ ports' = P /\ Retarget(M, P, L, Sources(links, changed))
    BY DEF DeleteModel, Stop
<1>4. /\ links \in [Kind -> SUBSET Record] /\ GraphOK(models, ports, links) /\ NoLoop(links)
      /\ ports \in [Kind -> [Model -> SUBSET Port]]
    BY <1>2 DEF SafeInv, FreshInv, GraphInv, TypeOK
<1>5. \A a \in changed : a[1] = m /\ a[1] \in Model /\ a[1] \in models /\ a[2] \in Port
    BY <1>2, <1>4 DEF Kind
<1> HIDE DEF changed
<1>6. /\ SourcesStatus(models, ports, links, changed) # "undefined"
      /\ \A x \in Sources(links, changed) : x[1] \in Model /\ x[1] \in models /\ x[2] \in Port
    BY <1>4, <1>5, SourcesDefined
<1>7. ASSUME NEW x \in Sources(links, changed) PROVE x[1] \in M
    <2>1. PICK a \in changed : x \in AtomicModelsSource(links, a[1], a[2])
        BY <1>7 DEF Sources
    <2>2. x[1] \notin Subtree[m]
        BY <1>4, <1>5, <2>1, SourcesOutside
    <2> QED BY <1>6, <2>2
<1>8. CASE models' = M /\ links' = L /\ ports' = P /\ Retarget(M, P, L, Sources(links, changed))
    <2>1. \A j \in Kind, n \in Model : n \notin Subtree[m] => P[j][n] = ports[j][n]
        OBVIOUS
    <2>2. \A j \in Kind : L[j] \subseteq links[j]
        BY DEF DelAllConnection
    <2> HIDE DEF P
    <2>3. L \in [Kind -> SUBSET Record] /\ GraphOK(M, P, L)
        BY <1>4, <2>1, Deleted
    <2> HIDE DEF L, M
    <2>4. \E N, Q, W, S : /\ N = models' /\ Q = ports' /\ W = links' /\ S = Sources(links, changed)
                          /\ Retarget(N, Q, W, S)
        BY <1>8
    <2>5. PICK S : S = Sources(links, changed) /\ RefreshOf(S)
        BY <2>4 DEF RefreshOf
    <2>6. status' # "undefined"
        BY <1>6, <1>7, <1>8, <2>3, <2>5, RefreshDefined
    <2>7. NoLoop(L)
        BY <1>4, <2>2 DEF NoLoop
    <2> QED BY <1>8, <2>6, <2>7
<1> QED BY <1>3, <1>6, <1>8

\* Coordinator::dispatchExternalEvent: the cached targets are in the tree.
LEMMA SendSafe ==
    ASSUME SafeInv, NEW s \in Atomic \cap models, NEW p \in Port, Send(s, p), FreshInv'
    PROVE  SafeInv'
<1> SUFFICES ASSUME ~bypass' /\ ~severed' PROVE (status' = "run" => NoLoop(links')) /\ status' # "undefined"
    BY DEF SafeInv, GraphSafe
<1>1. /\ status = "run" /\ ~bypass /\ ~severed
      /\ UNCHANGED <<models, freed, ports, links, m_isStarted, bypass, severed, ops>>
    BY DEF Send, history
<1>2. /\ links \in [Kind -> SUBSET Record] /\ GraphOK(models, ports, links) /\ NoLoop(links)
      /\ CacheOK(models, ports, links, mTargets)
    BY <1>1 DEF SafeInv, FreshInv, GraphInv, TypeOK
<1>3. s \in Model /\ s \in models
    BY DEF Model
<1>4. CASE p \in DOMAIN mTargets[s]
    <2>1. mTargets[s][p] = AtomicModelsTarget(links, s, p)
        BY <1>2, <1>4 DEF CacheOK
    <2>2. \A t \in DOMAIN mTargets[s][p] : t[1] \in models
        BY <1>2, <1>3, <2>1, SearchDefined
    <2> QED BY <1>1, <1>2, <1>4, <2>2 DEF Send
<1>5. CASE p \notin DOMAIN mTargets[s]
    <2>1. Retarget(models, ports, links, {<<s, p>>})
        BY <1>5 DEF Send
    <2>2. \E M, P, L, S : /\ M = models' /\ P = ports' /\ L = links' /\ S = {<<s, p>>}
                          /\ Retarget(M, P, L, S)
        BY <1>1, <2>1
    <2>3. PICK S : S = {<<s, p>>} /\ RefreshOf(S)
        BY <2>2 DEF RefreshOf
    <2>4. status' # "undefined"
        BY <1>1, <1>2, <1>3, <2>3, RefreshDefined
    <2> QED BY <1>1, <1>2, <2>4
<1> QED BY <1>4, <1>5

\* Every step.
LEMMA SafeStep ==
    ASSUME SafeInv, ~Feedback, Next
    PROVE  SafeInv'
<1>0. FreshInv'
    BY FreshStep DEF SafeInv
<1>1. ASSUME NEW c \in Coupled \cap models, Change(c) PROVE SafeInv'
    <2>1. \A m \in Children(c) : m \in Model /\ m \in models
        BY DEF Children, SafeInv, FreshInv, GraphInv, TypeOK
    <2>2. CASE \/ \E m \in Model, I, O \in SUBSET Port : CreateModel(m, I, O)
               \/ \E m \in Children(c), p \in Port :
                     AddPort(m, p, "in", "internalIn") \/ AddPort(m, p, "out", "internalOut")
        <3>1. status = "run" /\ status' = status /\ (~bypass' /\ ~severed' => ~bypass /\ ~severed) /\ links' = links
            BY <2>2 DEF CreateModel, AddPort, Operate
        <3> QED BY <1>0, <3>1 DEF SafeInv, GraphSafe
    <2>3. CASE \E m, n \in Joinable(c), p, q \in Port : AddConnection(c, <<m, p, n, q>>)
        BY <2>3, AddSafe
    <2>4. CASE \E m, n \in Joinable(c), p, q \in Port : RemoveConnection(c, <<m, p, n, q>>)
        BY <2>4, RemoveSafe
    <2>5. CASE \E m \in Children(c), p \in Port : RemoveInputPort(m, p)
        BY <2>1, <2>5, RemoveInputPortSafe
    <2>6. CASE \E m \in Children(c), p \in Port :
                  RemoveOutputPort(m, p) \/ RemoveCoupledOutputPort(m, p)
        <3>1. bypass'
            BY <2>6 DEF RemoveOutputPort, RemoveCoupledOutputPort, Operate, Unrefreshed
        <3> QED BY <1>0, <3>1 DEF SafeInv, GraphSafe
    <2>7. CASE \E m \in Children(c) : DeleteModel(m)
        BY <2>1, <2>7, DeleteSafe
    <2> QED BY <1>1, <2>2, <2>3, <2>4, <2>5, <2>6, <2>7 DEF Change
<1>2. CASE Start
    BY <1>0, <1>2 DEF Start, history, SafeInv, GraphSafe
<1>3. ASSUME NEW s \in Atomic \cap models, NEW p \in Port, Send(s, p) PROVE SafeInv'
    BY <1>0, <1>3, SendSafe
<1>4. CASE Terminated
    BY <1>0, <1>4 DEF Terminated, vars, history, SafeInv, GraphSafe
<1> QED BY <1>1, <1>2, <1>3, <1>4 DEF Next

\* No search of the coordinator and no event reaches a freed model, as long as
\* no model is connected to itself (Feedback), no output connection or output
\* port is removed (bypass) and no connection has lost one of its records
\* (severed): a model that is deleted is then none of the sources that
\* dynamic_deletion refreshes after it.
THEOREM GraphIsSafe == ~Feedback /\ Spec => []GraphSafe
<1>1. FreshInv /\ ~Feedback /\ Init => SafeInv
    BY InitialAssumption DEF Init, SafeInv, NoLoop, GraphSafe
<1>2. SafeInv /\ ~Feedback /\ [Next]_vars => SafeInv'
    <2>1. CASE UNCHANGED vars
        <3>1. FreshInv => GraphInv'
            BY <2>1 DEF vars, history, FreshInv, GraphInv, TypeOK
        <3>2. FreshInv => FreshInv'
            BY <2>1, <3>1, QuietFresh DEF vars, history
        <3> QED BY <2>1, <3>2 DEF vars, history, SafeInv, GraphSafe
    <2> QED BY <2>1, SafeStep
<1>3. SUFFICES ASSUME ~Feedback PROVE Spec => []GraphSafe
    OBVIOUS
<1>4. SafeInv => GraphSafe
    BY DEF SafeInv
<1> QED BY <1>1, <1>2, <1>3, <1>4, FreshInvariant, PTL DEF Spec

=============================================================================
