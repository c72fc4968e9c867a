------------------------------ MODULE Document -------------------------------
(***************************************************************************)
(* The document of the graphical editor (src/src/gvle/vlevpz.cpp): an      *)
(* experiment (the vpz: models, dynamics, conditions, views, observables)  *)
(* and its metadata (the vpm: the editor plug-in of each condition and     *)
(* view), edited from the tabs of a panel, each edit undoable.  The two    *)
(* files have an undo stack each, which must stay at the same height.      *)
(*                                                                         *)
(* Everything refers to everything by name: a model names its dynamics,    *)
(* conditions and observable, a port of an observable names views, a       *)
(* connection names models and ports.  Each operation must carry a change  *)
(* of name to all of them and copy beforehand the node that holds all.     *)
(***************************************************************************)
EXTENDS DomDiff, SequencesExt

CONSTANTS Dyns, Conds, CondPorts, Views, Obs, ObsPorts, Models, Ports,
          Outputs,                   \* output plug-ins a view may have
          MaxEdits,                  \* bound on the operations of a session
          InitialDoc                 \* the document that is opened

None == ""
Top == "top"                         \* the coupled model of the diagram
Plugin == "plugin"                   \* an editor plug-in of conditions
Tabs == {"Diagram", "Dynamics", "Conditions", "Views", "Observables"}

\* A function whose keys are in A.
Keyed(f, A) == DOMAIN f \subseteq A /\ f = [x \in DOMAIN f |-> f[x]]

ModelType == [dyn : Dyns \cup {None}, conds : SUBSET Conds, obs : Obs \cup {None},
              in : SUBSET Ports, out : SUBSET Ports, at : 0 .. 1]

ConnectionType == [orig : Models \cup {Top}, oport : Ports, dest : Models \cup {Top}, dport : Ports]

Fields == {"dynamics", "conditions", "views", "outputs", "observables", "top", "models",
           "connections"}

\* The documents: each part of an experiment by its names.
IsDocument(d) ==
  /\ Keyed(d, Fields) /\ DOMAIN d = Fields
  /\ d.dynamics \subseteq Dyns /\ d.views \subseteq Views
  /\ Keyed(d.conditions, Conds)
  /\ \A n \in DOMAIN d.conditions : d.conditions[n] \subseteq CondPorts
  /\ Keyed(d.outputs, Views) /\ \A v \in DOMAIN d.outputs : d.outputs[v] \in Outputs
  /\ Keyed(d.observables, Obs)
  /\ \A n \in DOMAIN d.observables :
       /\ Keyed(d.observables[n], ObsPorts)
       /\ \A p \in DOMAIN d.observables[n] : d.observables[n][p] \subseteq Views
  /\ d.top \in [in : SUBSET Ports, out : SUBSET Ports]
  /\ Keyed(d.models, Models) /\ \A x \in DOMAIN d.models : d.models[x] \in ModelType
  /\ d.connections \subseteq ConnectionType

\* The ports connections may start and end at in document d.
OriginsIn(d) == {Top} \X d.top.in \cup UNION {{x} \X d.models[x].out : x \in DOMAIN d.models}
DestinationsIn(d) == {Top} \X d.top.out \cup UNION {{x} \X d.models[x].in : x \in DOMAIN d.models}

\* The names that models, outputs and observables of document d refer to are in it.
ReferencesIn(d) ==
  /\ \A x \in DOMAIN d.models :
       /\ d.models[x].dyn \in d.dynamics \cup {None}
       /\ d.models[x].conds \subseteq DOMAIN d.conditions
       /\ d.models[x].obs \in DOMAIN d.observables \cup {None}
  /\ DOMAIN d.outputs = d.views
  /\ \A n \in DOMAIN d.observables : \A p \in DOMAIN d.observables[n] :
       d.observables[n][p] \subseteq d.views

\* The connections of document d go from ports of it to ports of it.
ConnectionsIn(d) ==
  \A c \in d.connections :
    <<c.orig, c.oport>> \in OriginsIn(d) /\ <<c.dest, c.dport>> \in DestinationsIn(d)

\* A query with an empty key is one of whole fields, and the coupled model is
\* none of its models.
ASSUME NamesAssumption ==
  /\ None \notin Conds \cup Models /\ Top \notin Models
  /\ "vle.output" \in Outputs

ASSUME InitialDocAssumption ==
  IsDocument(InitialDoc) /\ ReferencesIn(InitialDoc) /\ ConnectionsIn(InitialDoc)

VARIABLES doc, meta,                 \* mDoc, mDocVpm
          z, m,                      \* undoStack, undoStackVpm
          star,                      \* the tab text of the window starts with *
          file,                      \* the two files, as last saved
          \* history: the documents as each entry of the stacks found them,
          \* then the last one; whether an operation slipped (see Commit);
          \* whether the saved state is stale: its entry was overwritten, or
          \* the last save did not write both files; how many operations were
          \* made, merged ones apart
          trail, slipped, stale, edits

vars == <<doc, meta, z, m, star, file, trail, slipped, stale, edits>>

Pair(d, mt) == [vpz |-> d, vpm |-> mt]

Init ==
  /\ doc = InitialDoc
  /\ meta = [condPlugins |-> <<>>,
             outputGUIplugins |-> SetToSeq({<<v, "gvle.output">> : v \in InitialDoc.views})]
  /\ z = EmptyStack /\ m = EmptyStack
  /\ star = FALSE
  /\ file = Pair(doc, meta)
  /\ trail = <<Pair(doc, meta)>>
  /\ slipped = FALSE /\ stale = FALSE
  /\ edits = 0

----------------------------------------------------------------------------
(* Queries of the nodes that operations copy.                              *)
Project == Whole(DOMAIN doc)
ViewsNode == Whole({"views", "outputs", "observables"})
Coupled == Whole({"top", "models", "connections"})

\* The end of an operation: the stacks and documents it leaves, those it left
\* in between when it made two entries, and whether it slipped, that is left
\* the stacks at different heights, changed more than it copied, merged an
\* edit below an entry that can still be redone or gave two ports one name.
Commit(zs, ms, d, mt, between, slips) ==
  /\ z' = zs /\ m' = ms /\ doc' = d /\ meta' = mt
  /\ star' = Starred(star, z.curr, zs.curr, z.saved)
  /\ stale' = (stale \/ (zs.curr > z.curr /\ z.curr < z.saved))
  /\ slipped' = slips
  /\ trail' = IF slips THEN <<>>
              ELSE IF zs.curr = z.curr THEN [trail EXCEPT ![z.curr + 1] = Pair(d, mt)]
              ELSE SubSeq(trail, 1, z.curr + 1) \o between \o <<Pair(d, mt)>>
  /\ edits' = IF zs.curr = z.curr THEN edits ELSE edits + 1
  /\ UNCHANGED file

\* synchronizeUndoStack: null nodes on the lower stack.
LevelZ(zs, ms, tab) == RaiseTo(zs, ms.curr, tab)
LevelM(zs, ms, tab) == RaiseTo(ms, zs.curr, tab)

\* The stacks have room for n more entries, and what follows a slip is not
\* looked at.
Room(n) ==
  /\ ~slipped
  /\ n > 0 => edits < MaxEdits
  /\ z.curr + n <= Size /\ m.curr + n <= Size

\* The common operation: copy a node of the vpz, level the stacks, edit.  The
\* entries keep the tab the operation is made in (current_source).
EditWith(tab, q, type, d) ==
  /\ Room(IF Mergeable(z, q, type) THEN 0 ELSE 1)
  /\ LET zs == Snapshot(z, doc, q, type, tab)
     IN  Commit(LevelZ(zs, m, tab), LevelM(zs, m, tab), d, meta, <<>>,
                zs = z /\ HasTail(z))

Edit(tab, q, d) == EditWith(tab, q, "null", d)

\* An edit that gives a port the name of another: the document then has two
\* ports of one name, which sets of names do not tell apart.
EditClash(tab, q, d) ==
  /\ Room(1)
  /\ LET zs == Snapshot(z, doc, q, "null", tab)
     IN  Commit(LevelZ(zs, m, tab), LevelM(zs, m, tab), d, meta, <<>>, TRUE)

----------------------------------------------------------------------------
(* Tab Dynamics.                                                           *)
UsesDyn(n) == {x \in DOMAIN doc.models : doc.models[x].dyn = n}

\* A name changed in the models that hold it.
ModelsWith(xs, attr, val) ==
  [x \in DOMAIN doc.models |->
     IF x \in xs THEN [doc.models[x] EXCEPT ![attr] = val] ELSE doc.models[x]]

AddDynamic(n) ==
  /\ n \notin doc.dynamics
  /\ Edit("Dynamics", Whole({"dynamics"}), [doc EXCEPT !.dynamics = @ \cup {n}])

\* Copies the dynamics only.
DynNodesSmall(n) == Whole({"dynamics"})

\* The whole project is copied when a model is edited too.
DynNodes(n) == IF UsesDyn(n) = {} THEN Whole({"dynamics"}) ELSE Project

RemoveDyn(n) ==
  /\ n \in doc.dynamics
  /\ Edit("Dynamics", DynNodes(n),
          [doc EXCEPT !.dynamics = @ \ {n}, !.models = ModelsWith(UsesDyn(n), "dyn", None)])

RenameDynamic(old, new) ==
  /\ old \in doc.dynamics /\ new \notin doc.dynamics
  /\ Edit("Dynamics", DynNodes(old),
          [doc EXCEPT !.dynamics = (@ \ {old}) \cup {new},
                      !.models = ModelsWith(UsesDyn(old), "dyn", new)])

----------------------------------------------------------------------------
(* Tab Conditions.                                                         *)
UsesCond(n) == {x \in DOMAIN doc.models : n \in doc.models[x].conds}
CondNodes(n) == IF UsesCond(n) = {} THEN Whole({"conditions"}) ELSE Project

\* A key of a function removed or renamed.
Without(f, k) == [x \in DOMAIN f \ {k} |-> f[x]]
With(f, k, val) == [x \in DOMAIN f \cup {k} |-> IF x = k THEN val ELSE f[x]]
Renamed(f, old, new) == With(Without(f, old), new, f[old])
RenamedIn(S, old, new) == IF old \in S THEN (S \ {old}) \cup {new} ELSE S

\* getCondGUIplugin: the first entry of the condition counts.
EntryOf(entries, n) == SelectInSeq(entries, LAMBDA e : e[1] = n)
PluginOf(entries, n) ==
  IF EntryOf(entries, n) = 0 THEN None ELSE entries[EntryOf(entries, n)][2]

SetCondGUIplugin(entries, n, p) ==
  IF EntryOf(entries, n) = 0 THEN Append(entries, <<n, p>>)
  ELSE [entries EXCEPT ![EntryOf(entries, n)][2] = p]

SnapshotCondPlugins(ms) == Snapshot(ms, meta, Whole({"condPlugins"}), "null", "Conditions")

AddCondition(n) ==
  /\ n \notin DOMAIN doc.conditions
  /\ Edit("Conditions", Whole({"conditions"}),
          [doc EXCEPT !.conditions = With(@, n, {})])

\* The plug-in fills the ports of its condition while snapshots are disabled.
AddConditionFromPlugin(n) ==
  /\ n \notin DOMAIN doc.conditions
  /\ Room(1)
  /\ LET zs == Snapshot(z, doc, Whole({"conditions"}), "null", "Conditions")
         ms == SnapshotCondPlugins(m)
     IN  Commit(LevelZ(zs, ms, "Conditions"), LevelM(zs, ms, "Conditions"),
                [doc EXCEPT !.conditions = With(@, n, CondPorts)],
                [meta EXCEPT !.condPlugins = SetCondGUIplugin(@, n, Plugin)],
                <<>>, FALSE)

\* With a plug-in the metadata gets an entry of its own, after the levelling.
RmCondition(n) ==
  /\ n \in DOMAIN doc.conditions
  /\ Room(2)
  /\ LET plugged == PluginOf(meta.condPlugins, n) # None
         zs == Snapshot(z, doc, CondNodes(n), "null", "Conditions")
         ms == LevelM(zs, m, "Conditions")
     IN  Commit(LevelZ(zs, m, "Conditions"), IF plugged THEN SnapshotCondPlugins(ms) ELSE ms,
                [doc EXCEPT !.conditions = Without(@, n),
                            !.models = [x \in DOMAIN doc.models |->
                                          [doc.models[x] EXCEPT !.conds = @ \ {n}]]],
                IF plugged
                THEN [meta EXCEPT !.condPlugins = SetCondGUIplugin(@, n, None)] ELSE meta,
                <<>>, plugged)

\* Two entries: one for the vpz, one for the vpm.
RenameCondition(old, new) ==
  /\ old \in DOMAIN doc.conditions /\ new \notin DOMAIN doc.conditions
  /\ Room(2)
  /\ LET zs == Snapshot(z, doc, CondNodes(old), "null", "Conditions")
         ms == SnapshotCondPlugins(LevelM(zs, m, "Conditions"))
         d == [doc EXCEPT !.conditions = Renamed(@, old, new),
                          !.models = [x \in DOMAIN doc.models |->
                             [doc.models[x] EXCEPT !.conds = RenamedIn(@, old, new)]]]
         entry == EntryOf(meta.condPlugins, old)
     IN  Commit(LevelZ(zs, ms, "Conditions"), ms, d,
                IF entry = 0 THEN meta ELSE [meta EXCEPT !.condPlugins[entry][1] = new],
                <<Pair(d, meta)>>, FALSE)

RemoveCondGUIplugin(n) ==
  /\ n \in DOMAIN doc.conditions
  /\ PluginOf(meta.condPlugins, n) # None
  /\ Room(1)
  /\ LET ms == SnapshotCondPlugins(m)
     IN  Commit(LevelZ(z, ms, "Conditions"), ms, doc,
                [meta EXCEPT !.condPlugins = SetCondGUIplugin(@, n, None)], <<>>, FALSE)

AddCondPort(n, p) ==
  /\ n \in DOMAIN doc.conditions /\ p \notin doc.conditions[n]
  /\ Edit("Conditions", Child("conditions", n), [doc EXCEPT !.conditions[n] = @ \cup {p}])

\* Nothing happens when the name is taken.
RenameCondPort(n, old, new) ==
  /\ n \in DOMAIN doc.conditions
  /\ old \in doc.conditions[n] /\ new \notin doc.conditions[n]
  /\ Edit("Conditions", Child("conditions", n),
          [doc EXCEPT !.conditions[n] = RenamedIn(@, old, new)])

\* The stacks are not levelled.
RmCondPort(n, p) ==
  /\ n \in DOMAIN doc.conditions /\ p \in doc.conditions[n]
  /\ Room(1)
  /\ Commit(Snapshot(z, doc, Child("conditions", n), "null", "Conditions"), m,
            [doc EXCEPT !.conditions[n] = @ \ {p}], meta, <<>>, TRUE)

----------------------------------------------------------------------------
(* Tab Views.  A view and its output have the same name.                   *)
GuiOf(output) == IF output = "vle.output" THEN "gvle.output" ELSE None

\* setOutputGUIplugin: an empty name removes the first entry of the view; any
\* other is written in all its entries, and in a new one.
SetOutputGUIplugin(entries, v, p) ==
  IF p = None
  THEN IF EntryOf(entries, v) = 0 THEN entries ELSE RemoveAt(entries, EntryOf(entries, v))
  ELSE Append([i \in DOMAIN entries |->
                 IF entries[i][1] = v THEN <<v, p>> ELSE entries[i]], <<v, p>>)

\* An operation that copies the views of the vpz and of the vpm.
EditViews(d, plugins) ==
  /\ Room(1)
  /\ LET zs == Snapshot(z, doc, ViewsNode, "null", "Views")
         ms == Snapshot(m, meta, Whole({"outputGUIplugins"}), "null", "Views")
     IN  Commit(LevelZ(zs, ms, "Views"), LevelM(zs, ms, "Views"), d,
                [meta EXCEPT !.outputGUIplugins = plugins], <<>>, FALSE)

AddView(v) ==
  /\ v \notin doc.views
  /\ EditViews([doc EXCEPT !.views = @ \cup {v}, !.outputs = With(@, v, "vle.output")],
               SetOutputGUIplugin(meta.outputGUIplugins, v, GuiOf("vle.output")))

\* The ports of observables with a view replaced by others, or by none.
AttachedViews(old, new) ==
  [o \in DOMAIN doc.observables |->
     [p \in DOMAIN doc.observables[o] |->
        LET vs == doc.observables[o][p]
        IN  IF old \in vs THEN (vs \ {old}) \cup new ELSE vs]]

RmView(v) ==
  /\ v \in doc.views
  /\ Edit("Views", ViewsNode,
          [doc EXCEPT !.views = @ \ {v}, !.outputs = Without(@, v),
                      !.observables = AttachedViews(v, {})])

RenameView(old, new) ==
  /\ old \in doc.views /\ new \notin doc.views
  /\ LET removed == SetOutputGUIplugin(meta.outputGUIplugins, old, None)
     IN  EditViews([doc EXCEPT !.views = (@ \ {old}) \cup {new},
                               !.outputs = Renamed(@, old, new),
                               !.observables = AttachedViews(old, {new})],
                   SetOutputGUIplugin(removed, new, PluginOf(meta.outputGUIplugins, old)))

SetOutputPlugin(v, output) ==
  /\ v \in doc.views
  /\ Len(meta.outputGUIplugins) < 2 * Size
  /\ EditViews([doc EXCEPT !.outputs[v] = output],
               SetOutputGUIplugin(meta.outputGUIplugins, v, GuiOf(output)))

----------------------------------------------------------------------------
(* Tab Observables.                                                        *)
ObsNode == Whole({"observables"})
UsesObs(n) == {x \in DOMAIN doc.models : doc.models[x].obs = n}

AddObservable(n) ==
  /\ n \notin DOMAIN doc.observables
  /\ Edit("Observables", ObsNode, [doc EXCEPT !.observables = With(@, n, <<>>)])

\* Only the first model of the document is looked at, whose place among the
\* models is left open, and the models are not copied.
RmObservable(n) ==
  /\ n \in DOMAIN doc.observables
  /\ Room(1)
  /\ \E first \in DOMAIN doc.models \cup {None} :
       /\ first = None <=> DOMAIN doc.models = {}
       /\ LET zs == Snapshot(z, doc, ObsNode, "null", "Observables")
          IN  Commit(LevelZ(zs, m, "Observables"), LevelM(zs, m, "Observables"),
                     [doc EXCEPT !.observables = Without(@, n),
                                 !.models = ModelsWith(UsesObs(n) \cap {first}, "obs", None)],
                     meta, <<>>, UsesObs(n) # {})

RenameObservable(old, new) ==
  /\ old \in DOMAIN doc.observables /\ new \notin DOMAIN doc.observables
  /\ Edit("Observables", IF UsesObs(old) = {} THEN ObsNode ELSE Project,
          [doc EXCEPT !.observables = Renamed(@, old, new),
                      !.models = ModelsWith(UsesObs(old), "obs", new)])

AddObsPort(n, p) ==
  /\ n \in DOMAIN doc.observables /\ p \notin DOMAIN doc.observables[n]
  /\ Edit("Observables", ObsNode, [doc EXCEPT !.observables[n] = With(@, p, {})])

\* The new name may be the one of another port.
RenameObsPort(n, old, new) ==
  /\ n \in DOMAIN doc.observables
  /\ old \in DOMAIN doc.observables[n] /\ new # old
  /\ LET d == [doc EXCEPT !.observables[n] = Renamed(@, old, new)]
     IN  \/ new \notin DOMAIN doc.observables[n] /\ Edit("Observables", ObsNode, d)
         \/ new \in DOMAIN doc.observables[n] /\ EditClash("Observables", ObsNode, d)

RmObsPort(n, p) ==
  /\ n \in DOMAIN doc.observables /\ p \in DOMAIN doc.observables[n]
  /\ Edit("Observables", ObsNode, [doc EXCEPT !.observables[n] = Without(@, p)])

\* attachViewToObsPortDoc, rmViewToObsPortDoc
AttachView(n, p, v) ==
  /\ n \in DOMAIN doc.observables /\ p \in DOMAIN doc.observables[n]
  /\ v \in doc.views \ doc.observables[n][p]
  /\ Edit("Observables", ObsNode, [doc EXCEPT !.observables[n][p] = @ \cup {v}])

RmViewToObsPort(n, p, v) ==
  /\ n \in DOMAIN doc.observables /\ p \in DOMAIN doc.observables[n]
  /\ v \in doc.observables[n][p]
  /\ Edit("Observables", ObsNode, [doc EXCEPT !.observables[n][p] = @ \ {v}])

----------------------------------------------------------------------------
(* Tab Diagram: a coupled model of atomic models.  A connection goes from  *)
(* a port of a model to a port of another; it is an input connection when  *)
(* it starts at the coupled model, an output one when it ends there.       *)
NewModel == [dyn |-> None, conds |-> {}, obs |-> None, in |-> {}, out |-> {}, at |-> 0]

AddModel(x) ==
  /\ x \notin DOMAIN doc.models
  /\ Edit("Diagram", Whole({"models"}), [doc EXCEPT !.models = With(@, x, NewModel)])

\* Forgets the connections that end at the models.
RmModelsOrigins(xs) ==
  /\ xs # {} /\ xs \subseteq DOMAIN doc.models
  /\ Edit("Diagram", Coupled,
          [doc EXCEPT !.models = [x \in DOMAIN @ \ xs |-> @[x]],
                      !.connections = {c \in @ : c.orig \notin xs}])

RmModelsFromCoupled(xs) ==
  /\ xs # {} /\ xs \subseteq DOMAIN doc.models
  /\ Edit("Diagram", Coupled,
          [doc EXCEPT !.models = [x \in DOMAIN @ \ xs |-> @[x]],
                      !.connections = {c \in @ : c.orig \notin xs /\ c.dest \notin xs}])

RenameModel(old, new) ==
  /\ old \in DOMAIN doc.models /\ new \notin DOMAIN doc.models
  /\ LET name(x) == IF x = old THEN new ELSE x
     IN  Edit("Diagram", Coupled,
              [doc EXCEPT !.models = Renamed(@, old, new),
                          !.connections = {[c EXCEPT !.orig = name(@), !.dest = name(@)] :
                                             c \in doc.connections}])

PortsOf(x, side) == IF x = Top THEN doc.top[side] ELSE doc.models[x][side]
WithPorts(x, side, ps) ==
  IF x = Top THEN [doc EXCEPT !.top[side] = ps] ELSE [doc EXCEPT !.models[x][side] = ps]

\* The connections that end, or start, at a port: inside the coupled model its
\* input ports are origins.
AtPort(c, x, side, p) ==
  IF (side = "in") = (x # Top) THEN c.dest = x /\ c.dport = p
                               ELSE c.orig = x /\ c.oport = p

AddModelPort(x, side, p) ==
  /\ p \notin PortsOf(x, side)
  /\ Edit("Diagram", IF x = Top THEN Child("top", side) ELSE Grandchild("models", x, side),
          WithPorts(x, side, PortsOf(x, side) \cup {p}))

RmModelPort(x, side, p) ==
  /\ p \in PortsOf(x, side)
  /\ Edit("Diagram", Coupled,
          [WithPorts(x, side, PortsOf(x, side) \ {p})
             EXCEPT !.connections = {c \in @ : ~AtPort(c, x, side, p)}])

\* The new name may be the one of another port of the same side.
RenameModelPort(x, side, old, new) ==
  /\ old \in PortsOf(x, side) /\ new # old
  /\ LET moved(c) == IF ~AtPort(c, x, side, old) THEN c
                     ELSE IF (side = "in") = (x # Top) THEN [c EXCEPT !.dport = new]
                     ELSE [c EXCEPT !.oport = new]
         d == [WithPorts(x, side, RenamedIn(PortsOf(x, side), old, new))
                 EXCEPT !.connections = {moved(c) : c \in @}]
     IN  \/ new \notin PortsOf(x, side) /\ Edit("Diagram", Coupled, d)
         \/ new \in PortsOf(x, side) /\ EditClash("Diagram", Coupled, d)

Origins == OriginsIn(doc)
Destinations == DestinationsIn(doc)

AddModelConnection(o, d) ==
  /\ o[1] # Top \/ d[1] # Top
  /\ LET c == [orig |-> o[1], oport |-> o[2], dest |-> d[1], dport |-> d[2]]
     IN  /\ c \notin doc.connections
         /\ Edit("Diagram", Whole({"connections"}),
                 [doc EXCEPT !.connections = @ \cup {c}])

RmModelConnection(c) ==
  Edit("Diagram", Whole({"connections"}), [doc EXCEPT !.connections = @ \ {c}])

\* Successive moves of a model are one entry.
SetPosition(x, pos) ==
  /\ x \in DOMAIN doc.models /\ pos # doc.models[x].at
  /\ EditWith("Diagram", Child("models", x), "setPositionToModel",
              [doc EXCEPT !.models[x].at = pos])

\* The properties of a model, beside the diagram.
SetDynToAtomicModel(x, n) ==
  /\ x \in DOMAIN doc.models /\ n # doc.models[x].dyn
  /\ Edit("Diagram", Child("models", x), [doc EXCEPT !.models[x].dyn = n])

AttachCond(x, n) ==
  /\ x \in DOMAIN doc.models /\ n \notin doc.models[x].conds
  /\ Edit("Diagram", Child("models", x), [doc EXCEPT !.models[x].conds = @ \cup {n}])

DetachCond(x, n) ==
  /\ x \in DOMAIN doc.models /\ n \in doc.models[x].conds
  /\ Edit("Diagram", Child("models", x), [doc EXCEPT !.models[x].conds = @ \ {n}])

SetObsToAtomicModel(x, n) ==
  /\ x \in DOMAIN doc.models /\ n # doc.models[x].obs
  /\ Edit("Diagram", Child("models", x), [doc EXCEPT !.models[x].obs = n])

----------------------------------------------------------------------------
\* undo and redo of both stacks, from a tab: nothing happens in another tab than
\* the one of the entry.
Undo(tab) ==
  /\ ~slipped
  /\ z' = UndoStack(z, doc, tab) /\ doc' = UndoDocument(z, doc, tab)
  /\ m' = UndoStack(m, meta, tab) /\ meta' = UndoDocument(m, meta, tab)
  /\ star' = Starred(star, z.curr, z'.curr, z.saved)
  /\ UNCHANGED <<file, trail, slipped, stale, edits>>

Redo(tab) ==
  /\ ~slipped
  /\ z' = RedoStack(z, tab) /\ doc' = RedoDocument(z, doc, tab)
  /\ m' = RedoStack(m, tab) /\ meta' = RedoDocument(m, meta, tab)
  /\ star' = Starred(star, z.curr, z'.curr, z.saved)
  /\ UNCHANGED <<file, trail, slipped, stale, edits>>

\* Each file is written, or it cannot be opened, which nobody is told: the
\* saved state is registered all the same.
Save ==
  /\ \E v \in {file.vpz, doc}, w \in {file.vpm, meta} : file' = Pair(v, w)
  /\ z' = RegisterSaveState(z) /\ m' = RegisterSaveState(m)
  /\ star' = FALSE
  /\ stale' = (file' # Pair(doc, meta))
  /\ UNCHANGED <<doc, meta, trail, slipped, edits>>

Next ==
  \/ \E n \in Dyns : AddDynamic(n) \/ RemoveDyn(n) \/ \E new \in Dyns : RenameDynamic(n, new)
  \/ \E n \in Conds :
       \/ AddCondition(n) \/ AddConditionFromPlugin(n) \/ RmCondition(n)
       \/ RemoveCondGUIplugin(n) \/ \E new \in Conds : RenameCondition(n, new)
       \/ \E p \in CondPorts :
            \/ AddCondPort(n, p) \/ RmCondPort(n, p)
            \/ \E new \in CondPorts : RenameCondPort(n, p, new)
  \/ \E v \in Views :
       \/ AddView(v) \/ RmView(v) \/ \E new \in Views : RenameView(v, new)
       \/ \E output \in Outputs : SetOutputPlugin(v, output)
  \/ \E n \in Obs :
       \/ AddObservable(n) \/ RmObservable(n) \/ \E new \in Obs : RenameObservable(n, new)
       \/ \E p \in ObsPorts :
            \/ AddObsPort(n, p) \/ RmObsPort(n, p)
            \/ \E new \in ObsPorts : RenameObsPort(n, p, new)
            \/ \E v \in Views : AttachView(n, p, v) \/ RmViewToObsPort(n, p, v)
  \/ \E x \in Models : AddModel(x) \/ \E new \in Models : RenameModel(x, new)
  \/ \E xs \in SUBSET Models : RmModelsFromCoupled(xs)
  \/ \E x \in DOMAIN doc.models \cup {Top}, side \in {"in", "out"}, p \in Ports :
       \/ AddModelPort(x, side, p) \/ RmModelPort(x, side, p)
       \/ \E new \in Ports : RenameModelPort(x, side, p, new)
  \/ \E o \in Origins, d \in Destinations : AddModelConnection(o, d)
  \/ \E c \in doc.connections : RmModelConnection(c)
  \/ \E x \in Models :
       \/ \E pos \in 0 .. 1 : SetPosition(x, pos)
       \/ \E n \in doc.dynamics \cup {None} : SetDynToAtomicModel(x, n)
       \/ \E n \in DOMAIN doc.conditions : AttachCond(x, n) \/ DetachCond(x, n)
       \/ \E n \in DOMAIN doc.observables \cup {None} : SetObsToAtomicModel(x, n)
  \/ Save
  \/ \E tab \in Tabs : Undo(tab) \/ Redo(tab)

Spec == Init /\ [][Next]_vars

----------------------------------------------------------------------------
\* Every field keeps its kind, whatever subtree undo and redo put back, and the
\* heights of both stacks stay within their arrays.
TypeOK ==
  /\ IsDocument(doc)
  /\ \A s \in {z, m} : s.curr \in 0 .. Size /\ s.saved \in 0 .. Size
  /\ star \in BOOLEAN

\* While no operation slipped, the two stacks have the same height, and undo and
\* redo, as far as they go in either direction, show exactly the documents that
\* the user saw between two entries (vleVpz::undo, vleVpz::redo and the nodes
\* each operation chose to copy).
UndoExact ==
  ~slipped =>
    /\ z.curr = m.curr
    /\ Pair(doc, meta) = trail[z.curr + 1]
    /\ \A j \in 1 .. z.curr :
         Pair(Backward(z, doc, j), Backward(m, meta, j)) = trail[j]
    /\ \A j \in z.curr + 1 .. Len(trail) - 1 :
         /\ z.diffs[j].isDefined /\ m.diffs[j].isDefined
         /\ Pair(Forward(z, doc, j), Forward(m, meta, j)) = trail[j + 1]

\* Every name a model, an observable or a view refers to is in the document:
\* removals and renamings reach all who hold the name, and undo brings back both
\* ends (removeDyn, rmConditionToDoc, renameViewToDoc and the others).
ReferencesResolve == ~slipped => ReferencesIn(doc)

\* Every connection goes from a port that exists to a port that exists, whatever
\* models and ports were renamed or removed (rmModel, renameModelPort,
\* rmModelPort, renameModelIntoCoupled).
ConnectionsResolve == ~slipped => ConnectionsIn(doc)

\* Whatever is added, removed and renamed, undone and redone, every field keeps
\* its kind and every name in the vpz is the name of something in it.
NamesResolve == TypeOK /\ ReferencesResolve /\ ConnectionsResolve

\* A document shown without a star is the one in the file, and the window may
\* close it without asking (gvle_win::tabClose), when the last save wrote both
\* files and as long as the entry of the saved state is still in the stack
\* (computeUndoAvailability, and the rule that nothing is merged into the saved
\* entry).  Not claimed: after a save that could not open a file, which takes
\* the star away all the same.
UnstarredIsSaved ==
  ~slipped /\ ~stale /\ ~star => file = Pair(doc, meta)
==============================================================================
