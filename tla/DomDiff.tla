------------------------------- MODULE DomDiff -------------------------------
(***************************************************************************)
(* The undo stack of the graphical editor (src/src/gvle/dom_tools.cpp).    *)
(* An entry holds a copy of one node of a document, taken before the node  *)
(* is edited, and the query that finds the node again; undo replaces the   *)
(* node by the copy, redo puts back what undo replaced.                    *)
(*                                                                         *)
(* A document is a record of fields.  A query names the node that was      *)
(* copied: a set of whole fields, one key of a field, or one attribute of  *)
(* one key.  The query without fields is the one of a null node, which     *)
(* the editor registers to keep two stacks at the same height.             *)
(***************************************************************************)
EXTENDS Integers, Sequences

CONSTANT Size                             \* diffs.resize(300) in the code

ASSUME SizeAssumption == Size \in Nat \ {0}

Whole(fields) == [fields |-> fields, key |-> "", attr |-> ""]
Child(field, key) == [fields |-> {field}, key |-> key, attr |-> ""]
Grandchild(field, key, attr) == [fields |-> {field}, key |-> key, attr |-> attr]
NullNode == Whole({})

FieldOf(q) == CHOOSE f \in q.fields : TRUE

\* getNodeFromXQuery: does the query still find its node?
Found(d, q) == q.key = "" \/ q.key \in DOMAIN d[FieldOf(q)]

\* cloneNode of the node of the query.
Copy(d, q) ==
  IF q.key = "" THEN [f \in q.fields |-> d[f]]
  ELSE IF q.attr = "" THEN d[FieldOf(q)][q.key]
  ELSE d[FieldOf(q)][q.key][q.attr]

\* replaceChild: the document with its node replaced.
Replace(d, q, node) ==
  IF ~Found(d, q) THEN d
  ELSE IF q.key = "" THEN [f \in DOMAIN d |-> IF f \in q.fields THEN node[f] ELSE d[f]]
  ELSE IF q.attr = "" THEN [d EXCEPT ![FieldOf(q)][q.key] = node]
  ELSE [d EXCEPT ![FieldOf(q)][q.key][q.attr] = node]

----------------------------------------------------------------------------
Undefined == [query |-> NullNode, before |-> <<>>, after |-> <<>>,
              merge |-> "null", source |-> "", isDefined |-> FALSE]

EmptyStack == [diffs |-> [i \in 1 .. Size |-> Undefined], curr |-> 0, saved |-> 0]

\* Is there an entry to redo?
HasTail(s) == s.curr < Size /\ s.diffs[s.curr + 1].isDefined

\* Merges even when the last entry is the saved state.
MergeableAlways(s, q, type) ==
  /\ s.curr > 0
  /\ type # "null"
  /\ s.diffs[s.curr].merge = type
  /\ s.diffs[s.curr].query = q

\* The edit continues the one of the last entry (the merge arguments name the
\* nodes moved: in this model they are the node of the query).
Mergeable(s, q, type) == MergeableAlways(s, q, type) /\ s.curr # s.saved

\* The new entry, above which everything is reset.
Push(s, entry) ==
  [s EXCEPT !.curr = s.curr + 1,
            !.diffs = [i \in 1 .. Size |-> IF i <= s.curr THEN s.diffs[i]
                                           ELSE IF i = s.curr + 1 THEN entry
                                           ELSE Undefined]]

Entry(q, node, type, source) ==
  [query |-> q, before |-> node, after |-> <<>>, merge |-> type,
   source |-> source, isDefined |-> TRUE]

\* DomDiffStack::snapshot of the node of query q in document d.
Snapshot(s, d, q, type, source) ==
  IF Mergeable(s, q, type) THEN s ELSE Push(s, Entry(q, Copy(d, q), type, source))

\* Snapshots of a null node until the stack has height n.
RaiseTo(s, n, source) ==
  IF s.curr >= n THEN s
  ELSE [s EXCEPT !.curr = n,
                 !.diffs = [i \in 1 .. Size |->
                              IF i <= s.curr THEN s.diffs[i]
                              ELSE IF i <= n THEN Entry(NullNode, <<>>, "null", source)
                              ELSE Undefined]]

----------------------------------------------------------------------------
\* An entry is undone, and redone, from the tab it was made in.
CanUndo(s, source) == s.curr > 0 /\ s.diffs[s.curr].source = source
CanRedo(s, source) == HasTail(s) /\ s.diffs[s.curr + 1].source \in {source, ""}

UndoStack(s, d, source) ==
  IF ~CanUndo(s, source) THEN s
  ELSE [s EXCEPT !.curr = s.curr - 1,
                 !.diffs[s.curr].after =
                    IF Found(d, s.diffs[s.curr].query)
                    THEN Copy(d, s.diffs[s.curr].query) ELSE @]

UndoDocument(s, d, source) ==
  IF ~CanUndo(s, source) THEN d
  ELSE Replace(d, s.diffs[s.curr].query, s.diffs[s.curr].before)

RedoStack(s, source) == IF CanRedo(s, source) THEN [s EXCEPT !.curr = s.curr + 1] ELSE s

RedoDocument(s, d, source) ==
  IF ~CanRedo(s, source) THEN d
  ELSE Replace(d, s.diffs[s.curr + 1].query, s.diffs[s.curr + 1].after)

\* The height of the stack is the one of the saved document.
RegisterSaveState(s) == [s EXCEPT !.saved = s.curr]

\* tryEmitUndoAvailability while curr goes from one height to another: is the
\* document shown as edited since it was saved?
Starred(star, from, to, saved) ==
  IF from = to THEN star
  ELSE IF to = saved THEN FALSE
  ELSE IF saved \in from .. to \/ saved \in to .. from THEN TRUE
  ELSE star

----------------------------------------------------------------------------
\* Walks the stack from its height down to entry j, and up to entry j: the
\* documents that undo and redo would show.
Backward(s, d, j) ==
  LET walk[i \in j .. s.curr + 1] ==
        IF i = s.curr + 1 THEN d
        ELSE Replace(walk[i + 1], s.diffs[i].query, s.diffs[i].before)
  IN  walk[j]

Forward(s, d, j) ==
  LET walk[i \in s.curr .. j] ==
        IF i = s.curr THEN d
        ELSE Replace(walk[i - 1], s.diffs[i].query, s.diffs[i].after)
  IN  walk[j]
==============================================================================
