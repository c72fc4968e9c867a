----------------------------- MODULE Connections -----------------------------
(***************************************************************************)
(* The graph of models (vpz::BaseModel, vpz::CoupledModel), the targets    *)
(* that every devs::Simulator caches for its output ports, and the         *)
(* operations of devs::Executive that change the first and must refresh    *)
(* the second.                                                             *)
(*                                                                         *)
(* A connection is recorded twice, once in a list of each of its ends.  A  *)
(* record <<m, p, n, q>> of the list of kind k says that the list k of     *)
(* port p of model m holds the pair (n, q).  A list is a set: an executive *)
(* does not make the same connection twice, but it may connect two models  *)
(* by several ports.                                                       *)
(***************************************************************************)
EXTENDS Integers, Sequences, FiniteSets, Bags

CONSTANTS
    Atomic,         \* the atomic models, each with its simulator
    Coupled,        \* the coupled models
    Top,            \* the coupled model at the root
    NoModel,        \* the parent of the root
    Parent,         \* the coupled model that holds a model
    Port,           \* names of ports
    InitialModels,  \* the models of the graph when it is loaded
    InitialPorts,   \* the ports of each model, by kind of list
    InitialLinks,   \* the records of the connections, by kind of list
    Allowed,        \* the operations the executives use
    Feedback,       \* executives connect a model to itself
    MaxOps          \* bound on the operations of the executives

Model == Atomic \cup Coupled
Kind == {"in", "out", "internalIn", "internalOut"}
Record == Model \X Port \X Model \X Port

Operation == {"create", "delete", "add", "removeInput", "removeInternal",
              "removeOutput", "addPort", "removeInputPort",
              "removeOutputPort", "removeCoupledOutputPort"}

ASSUME ConnectionsAssumption ==
    /\ Atomic \cap Coupled = {} /\ IsFiniteSet(Model) /\ Top \in Coupled
    /\ NoModel \notin Model
    /\ Parent \in [Model -> Coupled \cup {NoModel}]
    /\ \A m \in Model : (Parent[m] = NoModel <=> m = Top) /\ Parent[m] # m
    /\ InitialModels \subseteq Model /\ Top \in InitialModels
    /\ InitialPorts \in [Kind -> [Model -> SUBSET Port]]
    /\ InitialLinks \in [Kind -> SUBSET Record]
    /\ Allowed \subseteq Operation
    /\ Feedback \in BOOLEAN /\ MaxOps \in Nat

\* The models are a tree: each is deeper than its parent.
ASSUME TreeAssumption ==
    \E depth \in [Model -> 0 .. Cardinality(Model)] :
        \A m \in Model \ {Top} : depth[Parent[m]] < depth[m]

VARIABLES
    models,         \* the models of the tree
    freed,          \* the models deleted
    ports,          \* the ports of each model, by kind of list
    links,          \* the records of the connections, by kind of list
    mTargets,       \* Simulator: cached targets of its output ports
    m_isStarted,    \* Coordinator: the simulation has begun
    status,         \* an operation threw, or read a freed model
    bypass,         \* history: an operation that refreshes no target was done
    severed,        \* history: the removal of a port has cut, at one end only,
                    \* a connection of another port
    ops             \* operations so far

history == <<bypass, severed, ops>>
vars == <<models, freed, ports, links, mTargets, m_isStarted, status, history>>

-----------------------------------------------------------------------------
(* Lists of ports *)

Add(L, k, e) == [L EXCEPT ![k] = @ \cup {e}]
Remove(L, k, e) == [L EXCEPT ![k] = @ \ {e}]

\* The other record of a connection, and the list that holds it.
Flip(e) == <<e[3], e[4], e[1], e[2]>>
Outward(e) == e[3] = Parent[e[1]]
Mirror(k, e) == CASE k = "out" -> IF Outward(e) THEN "internalOut" ELSE "in"
                  [] k = "in" -> IF Outward(e) THEN "internalIn" ELSE "out"
                  [] k = "internalIn" -> "in"
                  [] k = "internalOut" -> "out"

\* Both ends know a connection, at ports of models of the tree.
Symmetric(M, P, L) ==
    \A k \in Kind : \A e \in L[k] :
        /\ e[1] \in M /\ e[3] \in M
        /\ e[2] \in P[k][e[1]]
        /\ Flip(e) \in L[Mirror(k, e)]

\* A connection joins children of a coupled model, or one of them and it.
Local(k, e) ==
    IF k \in {"in", "out"} THEN Outward(e) \/ Parent[e[3]] = Parent[e[1]]
                           ELSE Parent[e[3]] = e[1]

\* The graph that is loaded.
ASSUME InitialAssumption ==
    /\ Symmetric(InitialModels, InitialPorts, InitialLinks)
    /\ \A k \in Kind : \A e \in InitialLinks[k] : Local(k, e)
    /\ Feedback \/ \A k \in Kind : \A e \in InitialLinks[k] : e[1] # e[3]

-----------------------------------------------------------------------------
(* BaseModel::getAtomicModelsTarget and getAtomicModelsSource *)

\* Mutant: the sources are searched in the input lists of a coupled model.
DownInput(up) == "internalIn"

\* A place of a walk is <<kind, model, port>>.  A walk goes up through the
\* list of the given kind of the parents and down through the other kind.
Down(up) == IF up = "out" THEN "internalIn" ELSE "internalOut"

Follow(L, up, n) ==
    {<<IF Outward(e) THEN up ELSE Down(up), e[3], e[4]>> :
         e \in {f \in L[n[1]] : f[1] = n[2] /\ f[2] = n[3]}}

AtEnd(n) == n[2] \in Atomic /\ n[1] \in {"internalIn", "internalOut"}

MaxDepth == 2 * Cardinality(Coupled) + 1
Last(w) == w[Len(w)]

\* One place more, after the walks of W that are not at their end.
Longer(L, up, W) ==
    UNION {{Append(w, n) : n \in Follow(L, up, Last(w))} : w \in {x \in W : ~AtEnd(Last(x))}}

\* The walks that begin at port p of model m, complete or not.
Walks(L, up, m, p) ==
    LET walk[k \in 0 .. MaxDepth] ==
            IF k = 0 THEN {<< <<up, m, p>> >>}
                     ELSE LET W == walk[k - 1] IN W \cup Longer(L, up, W)
    IN  walk[MaxDepth]

Reached(L, up, m, p) == {w \in Walks(L, up, m, p) : AtEnd(Last(w))}

\* How a walk ends: it may read a model that is freed, or look for a port
\* that does not exist (DevsGraphError).
WalkStatus(M, P, L, up, m, p) ==
    LET places == {Last(w) : w \in Walks(L, up, m, p)}
    IN  IF \E n \in places : n[2] \notin M THEN "undefined"
        ELSE IF \E n \in places : ~AtEnd(n) /\ n[3] \notin P[n[1]][n[2]]
        THEN "thrown" ELSE "run"

\* The multimap of targets; the empty bag stands for the null target.
AtomicModelsTarget(L, m, p) ==
    LET W == Reached(L, "out", m, p)
        target(w) == <<Last(w)[2], Last(w)[3]>>
    IN  [t \in {target(w) : w \in W} |->
            Cardinality({w \in W : target(w) = t})]

AtomicModelsSource(L, m, p) ==
    {<<Last(w)[2], Last(w)[3]>> : w \in Reached(L, "in", m, p)}

-----------------------------------------------------------------------------

TypeOK ==
    /\ models \subseteq Model
    /\ freed \subseteq Model
    /\ ports \in [Kind -> [Model -> SUBSET Port]]
    /\ links \in [Kind -> SUBSET Record]
    /\ DOMAIN mTargets = Atomic
    /\ \A s \in Atomic : DOMAIN mTargets[s] \subseteq Port
    /\ m_isStarted \in BOOLEAN
    /\ status \in {"run", "thrown", "undefined"}
    /\ bypass \in BOOLEAN /\ severed \in BOOLEAN
    /\ ops \in 0 .. MaxOps

NoTargets == [p \in {} |-> EmptyBag]

Init ==
    /\ models = InitialModels
    /\ freed = {}
    /\ ports = InitialPorts
    /\ links = InitialLinks
    /\ mTargets = [s \in Atomic |-> NoTargets]
    /\ m_isStarted = FALSE
    /\ status = "run"
    /\ bypass = FALSE
    /\ severed = FALSE
    /\ ops = 0

Children(c) == {m \in models : Parent[m] = c}

\* The operations that change targets and refresh none, or those of an input
\* port that has the same name.
Unrefreshed == {"removeOutput", "removeOutputPort", "removeCoupledOutputPort"}

\* An executive of c makes an operation; cuts is true of one that erases half
\* of a connection.
Operate(operation, cuts) ==
    /\ status = "run"
    /\ operation \in Allowed
    /\ ops < MaxOps
    /\ ops' = ops + 1
    /\ bypass' = (bypass \/ operation \in Unrefreshed)
    /\ severed' = (severed \/ cuts)

\* Mutant: sources are searched before the start and not after it.
SourcesUnlessStarted(L, A) ==
    IF m_isStarted THEN {}
    ELSE UNION {AtomicModelsSource(L, a[1], a[2]) : a \in A}

\* Coordinator::getSimulatorsSource for the input ports of place set A: what
\* is to refresh, and how the search ends.
Sources(L, A) ==
    IF m_isStarted THEN UNION {AtomicModelsSource(L, a[1], a[2]) : a \in A}
                   ELSE {}

SourcesStatus(M, P, L, A) ==
    LET found == {WalkStatus(M, P, L, "in", a[1], a[2]) : a \in A}
    IN  IF ~m_isStarted THEN "run"
        ELSE IF "undefined" \in found THEN "undefined"
        ELSE IF "thrown" \in found THEN "thrown" ELSE "run"

\* Mutant: targets already cached are kept.
RetargetOnce(M, P, L, S) ==
    LET found == {WalkStatus(M, P, L, "out", x[1], x[2]) : x \in S}
        refresh(s) == {p \in Port : <<s, p>> \in S} \ DOMAIN mTargets[s]
    IN  /\ status' = IF "undefined" \in found THEN "undefined"
                     ELSE IF "thrown" \in found THEN "thrown" ELSE "run"
        /\ mTargets' = [s \in Atomic |->
               IF s \notin M THEN NoTargets ELSE
               [p \in DOMAIN mTargets[s] \cup refresh(s) |->
                   IF p \in refresh(s) THEN AtomicModelsTarget(L, s, p)
                                       ELSE mTargets[s][p]]]

\* Simulator::updateSimulatorTargets for every pair of S, over the new graph.
Retarget(M, P, L, S) ==
    LET found == {WalkStatus(M, P, L, "out", x[1], x[2]) : x \in S}
        refresh(s) == {p \in Port : <<s, p>> \in S}
    IN  /\ status' = IF "undefined" \in found THEN "undefined"
                     ELSE IF "thrown" \in found THEN "thrown" ELSE "run"
        /\ mTargets' = [s \in Atomic |->
               IF s \notin M THEN NoTargets ELSE
               [p \in DOMAIN mTargets[s] \cup refresh(s) |->
                   IF p \in refresh(s) THEN AtomicModelsTarget(L, s, p)
                                       ELSE mTargets[s][p]]]

\* The operation stops with an exception, or in undefined behaviour.
Stop(how, L) ==
    /\ status' = how
    /\ links' = L
    /\ UNCHANGED <<ports, mTargets>>

-----------------------------------------------------------------------------
(* The operations of an executive of coupled model c *)

\* Executive::createModel: an atomic model with its ports, not connected.
CreateModel(m, I, O) ==
    /\ Operate("create", FALSE)
    /\ m \in Atomic \ (models \cup freed)
    /\ Parent[m] \in models
    /\ models' = models \cup {m}
    /\ ports' = [ports EXCEPT !["in"][m] = I, !["out"][m] = O]
    /\ UNCHANGED <<freed, links, mTargets, m_isStarted, status>>

\* The list in which the source of a connection of c records it.
SourceKind(c, e) == IF e[1] = c THEN "internalIn" ELSE "out"

\* The models that the connections of c may join.
Joinable(c) == Children(c) \cup {c}

\* Executive::addConnection: an input, output or internal connection of c is
\* recorded at its source, then at its destination, and the simulators whose
\* targets it changes are refreshed.
AddConnection(c, e) ==
    LET k == SourceKind(c, e)
        half == Add(links, k, e)
        whole == Add(half, Mirror(k, e), Flip(e))
        output == e[1] # c /\ e[3] = c
        changed == CASE e[1] = c -> {<<c, e[2]>>}
                     [] output -> DOMAIN AtomicModelsTarget(whole, c, e[4])
                     [] OTHER -> {<<e[3], e[4]>>}
        found == {SourcesStatus(models, ports, whole, changed)}
                 \cup (IF output
                       THEN {WalkStatus(models, ports, whole, "out", c, e[4])}
                       ELSE {})
    IN  /\ Operate("add", FALSE)
        /\ e \notin links[k]
        /\ Feedback \/ e[1] # e[3]
        /\ IF (e[1] = c /\ e[3] = c) \/ e[2] \notin ports[k][e[1]]
           THEN Stop("thrown", links)
           ELSE IF e[4] \notin ports[Mirror(k, e)][e[3]]
           THEN Stop("thrown", half)
           ELSE IF found # {"run"}
           THEN \E how \in found \ {"run"} : Stop(how, whole)
           ELSE /\ links' = whole
                /\ UNCHANGED ports
                /\ Retarget(models, ports, whole, Sources(whole, changed))
        /\ UNCHANGED <<models, freed, m_isStarted>>

\* Executive::removeConnection: the sources are searched before the records
\* are removed, but not for an output connection.
RemoveConnection(c, e) ==
    LET k == SourceKind(c, e)
        half == Remove(links, k, e)
        whole == Remove(half, Mirror(k, e), Flip(e))
        output == e[1] # c /\ e[3] = c
        changed == IF output THEN {} ELSE {<<e[3], e[4]>>}
        how == SourcesStatus(models, ports, links, changed)
    IN  /\ Operate(IF e[1] = c THEN "removeInput"
                   ELSE IF output THEN "removeOutput" ELSE "removeInternal",
                   FALSE)
        /\ IF how # "run" THEN Stop(how, links)
           ELSE IF (e[1] = c /\ e[3] = c) \/ e[2] \notin ports[k][e[1]]
           THEN Stop("thrown", links)
           ELSE IF e[4] \notin ports[Mirror(k, e)][e[3]]
           THEN Stop("thrown", half)
           ELSE /\ links' = whole
                /\ UNCHANGED ports
                /\ Retarget(models, ports, whole, Sources(links, changed))
        /\ UNCHANGED <<models, freed, m_isStarted>>

\* Executive::addInputPort and addOutputPort: a coupled model has the port
\* inside and outside.
AddPort(m, p, k, inner) ==
    /\ Operate("addPort", FALSE)
    /\ ports' = [ports EXCEPT ![k][m] = @ \cup {p},
                    ![inner][m] = IF m \in Coupled THEN @ \cup {p} ELSE @]
    /\ UNCHANGED <<models, freed, links, mTargets, m_isStarted, status>>

\* BaseModel::delInputPort and delOutputPort: at the other end of each
\* connection of the port, every pair of model m is erased from the list
\* (ModelPortList::erase), whatever its port; the lists of the port are
\* cleared.
DelPort(L, k, inner, m, p) ==
    LET own(kf, f) == kf \in {k, inner} /\ f[1] = m /\ f[2] = p
        erased(kind, e) ==
            \E kf \in {k, inner} : \E f \in L[kf] :
                /\ own(kf, f)
                /\ kind = Mirror(kf, f)
                /\ e[1] = f[3] /\ e[2] = f[4] /\ e[3] = m
    IN  [kind \in Kind |->
            {e \in L[kind] : ~own(kind, e) /\ ~erased(kind, e)}]

\* The pairs of model m that are so erased with those of port p name another
\* port of m: the connections of that port lose the record of their other end
\* and keep their own.
Severs(L, k, inner, m, p) ==
    \E kf \in {k, inner} : \E f \in L[kf] :
        /\ f[1] = m /\ f[2] = p
        /\ \E e \in L[Mirror(kf, f)] :
               e[1] = f[3] /\ e[2] = f[4] /\ e[3] = m /\ e[4] # p

\* Executive::removeInputPort
RemoveInputPort(m, p) ==
    LET changed == {<<m, p>>}
        how == SourcesStatus(models, ports, links, changed)
        L == DelPort(links, "in", "internalIn", m, p)
        P == [ports EXCEPT !["in"][m] = @ \ {p}]
    IN  /\ Operate("removeInputPort", Severs(links, "in", "internalIn", m, p))
        /\ IF how # "run" THEN Stop(how, links)
           ELSE IF p \notin ports["in"][m] THEN Stop("thrown", links)
           ELSE /\ links' = L
                /\ ports' = P
                /\ Retarget(models, P, L, Sources(links, changed))
        /\ UNCHANGED <<models, freed, m_isStarted>>

\* Simulator::removeTargetPort: one entry of the multimap is erased.
RemoveTargetPort(m, p) ==
    IF p \notin DOMAIN mTargets[m] THEN UNCHANGED mTargets
    ELSE IF BagCardinality(mTargets[m][p]) <= 1
    THEN mTargets' = [mTargets EXCEPT ![m] =
             [r \in DOMAIN mTargets[m] \ {p} |-> mTargets[m][r]]]
    ELSE \E t \in BagToSet(mTargets[m][p]) :
             mTargets' = [mTargets EXCEPT ![m][p] = @ (-) SetToBag({t})]

\* Executive::removeOutputPort of an atomic model.
RemoveOutputPort(m, p) ==
    /\ Operate("removeOutputPort", Severs(links, "out", "internalOut", m, p))
    /\ m \in Atomic
    /\ IF p \notin ports["out"][m] THEN Stop("thrown", links)
       ELSE /\ links' = DelPort(links, "out", "internalOut", m, p)
            /\ ports' = [ports EXCEPT !["out"][m] = @ \ {p}]
            /\ RemoveTargetPort(m, p)
            /\ UNCHANGED status
    /\ UNCHANGED <<models, freed, m_isStarted>>

\* Executive::removeOutputPort of a coupled model searches the sources of an
\* input port that has the name of the output port.
RemoveCoupledOutputPort(m, p) ==
    LET changed == {<<m, p>>}
        how == SourcesStatus(models, ports, links, changed)
        L == DelPort(links, "out", "internalOut", m, p)
        P == [ports EXCEPT !["out"][m] = @ \ {p}]
    IN  /\ Operate("removeCoupledOutputPort",
                   Severs(links, "out", "internalOut", m, p))
        /\ m \in Coupled
        /\ IF how # "run" THEN Stop(how, links)
           ELSE IF p \notin ports["out"][m] THEN Stop("thrown", links)
           ELSE /\ links' = L
                /\ ports' = P
                /\ Retarget(models, P, L, Sources(links, changed))
        /\ UNCHANGED <<models, freed, m_isStarted>>

-----------------------------------------------------------------------------
(* The coordinator *)

\* The models in the subtree of each model: the least set that holds the model
\* and the children of what it holds.
Subtree == [m \in Model |->
    {n \in Model : \A S \in SUBSET Model :
        (m \in S /\ \A x \in Model : Parent[x] \in S => x \in S) => n \in S}]

\* Mutant: only the input ports are cleaned.
DelAllInputConnection(L, m) ==
    LET removed(kind, e) ==
            /\ e[3] = m /\ Flip(e) \in L["in"]
            /\ Mirror("in", Flip(e)) = kind
    IN  [kind \in Kind |->
            {e \in L[kind] : e[1] \notin Subtree[m] /\ ~removed(kind, e)}]

\* CoupledModel::delAllConnection, then the subtree is freed with its lists.
DelAllConnection(L, m) ==
    LET removed(kind, e) ==
            \E k \in {"in", "out"} :
                /\ e[3] = m /\ Flip(e) \in L[k]
                /\ Mirror(k, Flip(e)) = kind
    IN  [kind \in Kind |->
            {e \in L[kind] : e[1] \notin Subtree[m] /\ ~removed(kind, e)}]

\* Coordinator::dynamic_deletion of one model: the sources of its inputs are
\* searched, the model and what it holds are freed, and the targets of the
\* sources are computed again.
DeleteModel(m) ==
    LET changed == {<<m, p>> : p \in ports["in"][m]}
        how == SourcesStatus(models, ports, links, changed)
        L == DelAllConnection(links, m)
        M == models \ Subtree[m]
        P == [k \in Kind |-> [n \in Model |->
                 IF n \in Subtree[m] THEN {} ELSE ports[k][n]]]
    IN  /\ Operate("delete", FALSE)
        /\ m_isStarted
        /\ m \in models \ {Top}
        /\ IF how # "run" THEN Stop(how, links) /\ UNCHANGED <<models, freed>>
           ELSE /\ models' = M
                /\ freed' = freed \cup (models \cap Subtree[m])
                /\ links' = L
                /\ ports' = P
                /\ Retarget(M, P, L, Sources(links, changed))
        /\ UNCHANGED m_isStarted

\* The end of Coordinator::init.
Start ==
    /\ status = "run"
    /\ ~m_isStarted
    /\ m_isStarted' = TRUE
    /\ UNCHANGED <<models, freed, ports, links, mTargets, status, history>>

\* Coordinator::dispatchExternalEvent for an event that s outputs on port p:
\* Simulator::targets computes the targets of a port the first time, and the
\* events go to the cached simulators.
Send(s, p) ==
    /\ status = "run"
    /\ m_isStarted
    /\ IF p \in DOMAIN mTargets[s]
       THEN /\ status' = IF \A t \in DOMAIN mTargets[s][p] : t[1] \in models
                         THEN "run" ELSE "undefined"
            /\ UNCHANGED mTargets
       ELSE Retarget(models, ports, links, {<<s, p>>})
    /\ UNCHANGED <<models, freed, ports, links, m_isStarted, history>>

\* After a failure nothing more happens; an executive may stop its changes.
Terminated == (status # "run" \/ ops = MaxOps) /\ UNCHANGED vars

Change(c) ==
    \/ \E m \in Model, I, O \in SUBSET Port : CreateModel(m, I, O)
    \/ \E m, n \in Joinable(c), p, q \in Port :
           \/ AddConnection(c, <<m, p, n, q>>)
           \/ RemoveConnection(c, <<m, p, n, q>>)
    \/ \E m \in Children(c), p \in Port :
           \/ AddPort(m, p, "in", "internalIn")
           \/ AddPort(m, p, "out", "internalOut")
           \/ RemoveInputPort(m, p)
           \/ RemoveOutputPort(m, p)
           \/ RemoveCoupledOutputPort(m, p)
    \/ \E m \in Children(c) : DeleteModel(m)

Next ==
    \/ \E c \in Coupled \cap models : Change(c)
    \/ Start
    \/ \E s \in Atomic \cap models, p \in Port : Send(s, p)
    \/ Terminated

Spec == Init /\ [][Next]_vars

-----------------------------------------------------------------------------
(* Properties *)

\* Both ends of a connection know it: every record has its mirror, and
\* belongs to a port of a model of the tree.
LinksSymmetric == status = "run" /\ ~severed => Symmetric(models, ports, links)

\* The invariant of the lists of connections, after operations of the
\* executives on models, ports and connections (CoupledModel, BaseModel), in
\* any graph, until one removes a port of a model that is connected to the
\* same port of another model by a second port: BaseModel::delInputPort and
\* delOutputPort then erase the record of that second connection at the other
\* model only, and nothing is claimed any more.
LinksInv == TypeOK /\ LinksSymmetric

\* The two searches are inverse: an atomic model is a target of a port exactly
\* when the port is one of its sources.  The refresh of the cached targets
\* rests on it: it looks for sources to find whose targets change.  It needs
\* that no connection has lost one of its records (severed).
SourcesAreTargets ==
    status = "run" /\ ~severed =>
        LET places == (Atomic \cap models) \X Port
            targets == [a \in places |-> DOMAIN AtomicModelsTarget(links, a[1], a[2])]
            sources == [a \in places |-> AtomicModelsSource(links, a[1], a[2])]
        IN  \A s, t \in places : t \in targets[s] <=> s \in sources[t]

\* The targets a simulator has cached are those of the graph as it is now,
\* after operations that are to refresh them, as long as no connection has
\* lost one of its records.
TargetsFresh ==
    (status = "run" /\ ~bypass /\ ~severed) => \A s \in Atomic \cap models :
        \A p \in DOMAIN mTargets[s] :
            /\ p \in ports["out"][s]
            /\ mTargets[s][p] = AtomicModelsTarget(links, s, p)

\* No search and no event reaches a freed model, as long as the targets are
\* fresh and every connection is recorded at both ends.
GraphSafe == status # "undefined" \/ bypass \/ severed

=============================================================================
