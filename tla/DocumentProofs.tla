--------------------------- MODULE DocumentProofs ---------------------------
(***************************************************************************)
(* Theorems on Document: undo and redo are exact, every name resolves and  *)
(* a document without a star is the one in the file, for every set of      *)
(* names, every height of the stacks and every length of a session.        *)
(***************************************************************************)
EXTENDS Document, Facts

-----------------------------------------------------------------------------
(* Nodes of documents.                                                     *)

\* A function is known by its values.
IsFcn(f) == f = [x \in DOMAIN f |-> f[x]]

\* Two documents that are the same but for the node of a query: the query finds
\* the node in both, and the node of one put into the other gives the first.
Differ(d, e, q) ==
    /\ Found(d, q) /\ Found(e, q)
    /\ Replace(d, q, Copy(e, q)) = e
    /\ Replace(e, q, Copy(d, q)) = d

\* Functions with one domain and the same values are equal.
LEMMA SameFunction ==
    ASSUME NEW f, NEW g, IsFcn(f), IsFcn(g), DOMAIN f = DOMAIN g,
           \A x \in DOMAIN f : f[x] = g[x]
    PROVE  f = g
<1>1. [x \in DOMAIN f |-> f[x]] = [x \in DOMAIN g |-> g[x]]
    OBVIOUS
<1> QED BY <1>1 DEF IsFcn

\* Keyed functions are functions.
LEMMA KeyedIs ==
    ASSUME NEW f, NEW A
    PROVE  Keyed(f, A) <=> IsFcn(f) /\ DOMAIN f \subseteq A
BY DEF Keyed, IsFcn

\* Documents that agree on the other fields differ by the fields copied.
LEMMA DifferWhole ==
    ASSUME NEW d, NEW e, IsFcn(d), IsFcn(e), DOMAIN d = DOMAIN e, NEW fs,
           \A f \in DOMAIN d \ fs : d[f] = e[f]
    PROVE  Differ(d, e, Whole(fs))
<1> DEFINE q == Whole(fs)
<1>1. q.key = "" /\ q.fields = fs
    BY DEF Whole
<1> HIDE DEF q
<1>2. Found(d, q) /\ Found(e, q)
    BY <1>1 DEF Found
<1>3. ASSUME NEW a, NEW b, IsFcn(a), IsFcn(b), DOMAIN a = DOMAIN b,
             \A f \in DOMAIN a \ fs : a[f] = b[f]
      PROVE  Replace(a, q, Copy(b, q)) = b
    <2>1. Found(a, q)
        BY <1>1 DEF Found
    <2>2. Copy(b, q) = [f \in fs |-> b[f]]
        BY <1>1 DEF Copy
    <2>3. Replace(a, q, Copy(b, q)) =
            [f \in DOMAIN a |-> IF f \in fs THEN Copy(b, q)[f] ELSE a[f]]
        BY <1>1, <2>1 DEF Replace
    <2> DEFINE r == [f \in DOMAIN a |-> IF f \in fs THEN Copy(b, q)[f] ELSE a[f]]
    <2>4. IsFcn(r) /\ DOMAIN r = DOMAIN b
        BY <1>3 DEF IsFcn
    <2>5. \A f \in DOMAIN r : r[f] = b[f]
        BY <1>3, <2>2
    <2>6. r = b
        <3> HIDE DEF r
        <3> QED BY <1>3, <2>4, <2>5, SameFunction
    <2> QED BY <2>3, <2>6
<1> QED BY <1>2, <1>3 DEF Differ, q

\* The field of a query of one node.
LEMMA OneField == \A f : (CHOOSE g \in {f} : TRUE) = f
OBVIOUS

\* A function changed at one key.
Put(f, k, v) == [f EXCEPT ![k] = v]

\* What Put changes.
LEMMA PutIs ==
    ASSUME NEW f, NEW k, NEW v
    PROVE  /\ IsFcn(Put(f, k, v)) /\ DOMAIN Put(f, k, v) = DOMAIN f
           /\ k \in DOMAIN f => Put(f, k, v)[k] = v
           /\ \A x \in DOMAIN f \ {k} : Put(f, k, v)[x] = f[x]
BY DEF Put, IsFcn

\* A key or an attribute of a query.
Named(k) == k # ""

\* The keys of one field.
LEMMA ChildQuery ==
    ASSUME NEW field, NEW key, Named(key), NEW d
    PROVE  /\ Found(d, Child(field, key)) <=> key \in DOMAIN d[field]
           /\ Copy(d, Child(field, key)) = d[field][key]
<1> DEFINE q == Child(field, key)
<1>1. q.key = key /\ q.attr = "" /\ q.fields = {field}
    BY DEF Child
<1> HIDE DEF q
<1>2. FieldOf(q) = field
    BY <1>1, OneField DEF FieldOf
<1>3. Found(d, q) <=> key \in DOMAIN d[field]
    BY <1>1, <1>2 DEF Found, Named
<1>4. Copy(d, q) = d[field][key]
    BY <1>1, <1>2 DEF Copy, Named
<1> QED BY <1>3, <1>4 DEF q

LEMMA ChildReplace ==
    ASSUME NEW field, NEW key, Named(key), NEW d, NEW node, key \in DOMAIN d[field]
    PROVE  Replace(d, Child(field, key), node)
             = Put(d, field, Put(d[field], key, node))
<1> DEFINE q == Child(field, key)
<1>1. q.key = key /\ q.attr = "" /\ q.fields = {field}
    BY DEF Child
<1> HIDE DEF q
<1>2. FieldOf(q) = field
    BY <1>1, OneField DEF FieldOf
<1>3. Found(d, q)
    BY <1>1, <1>2 DEF Found, Named
<1>4. Replace(d, q, node) = Put(d, field, Put(d[field], key, node))
    BY <1>1, <1>2, <1>3 DEF Replace, Put, Named
<1> QED BY <1>4 DEF q

\* One attribute of one key of a field.
LEMMA GrandchildQuery ==
    ASSUME NEW field, NEW key, NEW attr, Named(key), Named(attr), NEW d
    PROVE  /\ Found(d, Grandchild(field, key, attr)) <=> key \in DOMAIN d[field]
           /\ Copy(d, Grandchild(field, key, attr)) = d[field][key][attr]
<1> DEFINE q == Grandchild(field, key, attr)
<1>1. q.key = key /\ q.attr = attr /\ q.fields = {field}
    BY DEF Grandchild
<1> HIDE DEF q
<1>2. FieldOf(q) = field
    BY <1>1, OneField DEF FieldOf
<1>3. Found(d, q) <=> key \in DOMAIN d[field]
    BY <1>1, <1>2 DEF Found, Named
<1>4. Copy(d, q) = d[field][key][attr]
    BY <1>1, <1>2 DEF Copy, Named
<1> QED BY <1>3, <1>4 DEF q

LEMMA GrandchildReplace ==
    ASSUME NEW field, NEW key, NEW attr, Named(key), Named(attr), NEW d, NEW node, key \in DOMAIN d[field]
    PROVE  Replace(d, Grandchild(field, key, attr), node)
             = Put(d, field, Put(d[field], key, Put(d[field][key], attr, node)))
<1> DEFINE q == Grandchild(field, key, attr)
<1>1. q.key = key /\ q.attr = attr /\ q.fields = {field}
    BY DEF Grandchild
<1> HIDE DEF q
<1>2. FieldOf(q) = field
    BY <1>1, OneField DEF FieldOf
<1>3. Found(d, q)
    BY <1>1, <1>2 DEF Found, Named
<1>4. Replace(d, q, node) = Put(d, field, Put(d[field], key, Put(d[field][key], attr, node)))
    BY <1>1, <1>2, <1>3 DEF Replace, Put, Named
<1> QED BY <1>4 DEF q

\* Two functions that agree but for one key.
OneKeyApart(f, g, k) ==
    /\ IsFcn(f) /\ IsFcn(g) /\ DOMAIN f = DOMAIN g /\ k \in DOMAIN f
    /\ \A x \in DOMAIN f \ {k} : f[x] = g[x]

LEMMA OneKey ==
    ASSUME NEW f, NEW g, NEW k, OneKeyApart(f, g, k)
    PROVE  Put(f, k, g[k]) = g /\ OneKeyApart(g, f, k)
<1> DEFINE r == Put(f, k, g[k])
<1>1. IsFcn(r) /\ DOMAIN r = DOMAIN g /\ IsFcn(g)
    BY PutIs DEF OneKeyApart
<1>2. \A x \in DOMAIN r : r[x] = g[x]
    BY PutIs DEF OneKeyApart
<1>3. r = g
    <2> HIDE DEF r
    <2> QED BY <1>1, <1>2, SameFunction
<1> QED BY <1>3 DEF OneKeyApart

\* Documents that agree on the other keys differ by one key of a field.
LEMMA DifferChild ==
    ASSUME NEW d, NEW e, NEW field, NEW key, Named(key),
           OneKeyApart(d, e, field), OneKeyApart(d[field], e[field], key)
    PROVE  Differ(d, e, Child(field, key))
<1>1. ASSUME NEW a, NEW b, OneKeyApart(a, b, field), OneKeyApart(a[field], b[field], key)
      PROVE  Replace(a, Child(field, key), Copy(b, Child(field, key))) = b
    <2>1. Put(a[field], key, b[field][key]) = b[field]
        BY <1>1, OneKey
    <2>2. Put(a, field, b[field]) = b
        BY <1>1, OneKey
    <2>3. Copy(b, Child(field, key)) = b[field][key]
        BY ChildQuery
    <2>4. key \in DOMAIN a[field]
        BY <1>1 DEF OneKeyApart
    <2>5. Replace(a, Child(field, key), b[field][key])
            = Put(a, field, Put(a[field], key, b[field][key]))
        BY <2>4, ChildReplace
    <2> QED BY <2>1, <2>2, <2>3, <2>5
<1>2. Found(d, Child(field, key)) /\ Found(e, Child(field, key))
    BY ChildQuery DEF OneKeyApart
<1>3. Replace(d, Child(field, key), Copy(e, Child(field, key))) = e
    BY <1>1
<1>4. Replace(e, Child(field, key), Copy(d, Child(field, key))) = d
    BY <1>1, OneKey
<1> QED BY <1>2, <1>3, <1>4 DEF Differ

\* The same for one attribute of one key.
LEMMA DifferGrandchild ==
    ASSUME NEW d, NEW e, NEW field, NEW key, NEW attr, Named(key), Named(attr),
           OneKeyApart(d, e, field), OneKeyApart(d[field], e[field], key),
           OneKeyApart(d[field][key], e[field][key], attr)
    PROVE  Differ(d, e, Grandchild(field, key, attr))
<1>1. ASSUME NEW a, NEW b, OneKeyApart(a, b, field), OneKeyApart(a[field], b[field], key),
             OneKeyApart(a[field][key], b[field][key], attr)
      PROVE  Replace(a, Grandchild(field, key, attr), Copy(b, Grandchild(field, key, attr))) = b
    <2>1. Put(a[field][key], attr, b[field][key][attr]) = b[field][key]
        BY <1>1, OneKey
    <2>2. Put(a[field], key, b[field][key]) = b[field]
        BY <1>1, OneKey
    <2>3. Put(a, field, b[field]) = b
        BY <1>1, OneKey
    <2>4. Copy(b, Grandchild(field, key, attr)) = b[field][key][attr]
        BY GrandchildQuery
    <2>5. key \in DOMAIN a[field]
        BY <1>1 DEF OneKeyApart
    <2>6. Replace(a, Grandchild(field, key, attr), b[field][key][attr])
            = Put(a, field, Put(a[field], key, Put(a[field][key], attr, b[field][key][attr])))
        BY <2>5, GrandchildReplace
    <2> QED BY <2>1, <2>2, <2>3, <2>4, <2>6
<1>2. Found(d, Grandchild(field, key, attr)) /\ Found(e, Grandchild(field, key, attr))
    BY GrandchildQuery DEF OneKeyApart
<1>3. Replace(d, Grandchild(field, key, attr), Copy(e, Grandchild(field, key, attr))) = e
    BY <1>1
<1>4. Replace(e, Grandchild(field, key, attr), Copy(d, Grandchild(field, key, attr))) = d
    BY <1>1, OneKey
<1> QED BY <1>2, <1>3, <1>4 DEF Differ

\* A document whose node is replaced twice has the second one.
LEMMA ReplacedTwice ==
    ASSUME NEW d, NEW field, NEW key, Named(key), NEW a, NEW b,
           IsFcn(d), IsFcn(d[field]), field \in DOMAIN d, key \in DOMAIN d[field]
    PROVE  LET q == Child(field, key) IN Replace(Replace(d, q, a), q, b) = Replace(d, q, b)
<1> DEFINE q == Child(field, key)
           e == Replace(d, q, a)
           g == Put(d[field], key, a)
<1>1. e = Put(d, field, g)
    BY ChildReplace
<1> HIDE DEF e
<1>2. e[field] = g /\ key \in DOMAIN e[field]
    BY <1>1, PutIs
<1>3. Replace(e, q, b) = Put(e, field, Put(e[field], key, b))
    BY <1>2, ChildReplace
<1>4. Put(g, key, b) = Put(d[field], key, b)
    BY DEF Put
<1>5. \A v : Put(Put(d, field, g), field, v) = Put(d, field, v)
    BY DEF Put
<1>6. Replace(e, q, b) = Put(d, field, Put(d[field], key, b))
    BY <1>1, <1>2, <1>3, <1>4, <1>5
<1>7. Replace(d, q, b) = Put(d, field, Put(d[field], key, b))
    BY ChildReplace
<1> QED BY <1>6, <1>7 DEF e
-----------------------------------------------------------------------------
(* The stacks.                                                             *)

IsEntry(x) ==
    IsFcn(x) /\ DOMAIN x = {"query", "before", "after", "merge", "source", "isDefined"}

IsStack(s) ==
    /\ IsFcn(s) /\ DOMAIN s = {"diffs", "curr", "saved"}
    /\ s.curr \in 0 .. Size /\ s.saved \in 0 .. Size
    /\ IsFcn(s.diffs) /\ DOMAIN s.diffs = 1 .. Size
    /\ \A i \in 1 .. Size : IsEntry(s.diffs[i])

\* Entry x undone at document e shows d, which differs by its node.
Undoes(x, d, e) == Differ(d, e, x.query) /\ Replace(e, x.query, x.before) = d

\* Entry x redone at document d shows e.
Redoes(x, d, e) == Replace(d, x.query, x.after) = e

\* A finite sequence.
IsSeq(t) == \E S : t \in Seq(S)

\* The entries of stack s go from each document of trail t to the next one;
\* those above its height were undone, and there are no others.
History(s, t, part) ==
    /\ IsStack(s)
    /\ s.curr < Len(t) /\ Len(t) <= Size + 1
    /\ \A j \in 1 .. Len(t) - 1 :
         s.diffs[j].isDefined = TRUE /\ Undoes(s.diffs[j], t[j][part], t[j + 1][part])
    /\ \A j \in s.curr + 1 .. Len(t) - 1 : Redoes(s.diffs[j], t[j][part], t[j + 1][part])
    /\ \A j \in Len(t) .. Size : s.diffs[j].isDefined = FALSE

\* Trail u is trail t up to height c, then p.
Grows(t, u, c, p) ==
    /\ IsSeq(u) /\ Len(u) = c + 2 /\ u[c + 2] = p
    /\ \A j \in 1 .. c + 1 : u[j] = t[j]

\* Stack r is stack s with entry x above its height, and no more.
Pushed(r, s, x) ==
    /\ IsStack(r) /\ r.curr = s.curr + 1 /\ r.saved = s.saved
    /\ r.diffs[s.curr + 1] = x
    /\ \A j \in 1 .. s.curr : r.diffs[j] = s.diffs[j]
    /\ \A j \in s.curr + 2 .. Size : r.diffs[j].isDefined = FALSE

LEMMA PushIs ==
    ASSUME NEW s, IsStack(s), s.curr < Size, NEW x, IsEntry(x)
    PROVE  Pushed(Push(s, x), s, x)
<1> DEFINE r == Push(s, x)
           f == [i \in 1 .. Size |-> IF i <= s.curr THEN s.diffs[i]
                                     ELSE IF i = s.curr + 1 THEN x ELSE Undefined]
<1>0. s.curr \in 0 .. Size /\ s.curr \in Int /\ Size \in Nat /\ s.curr + 1 \in 1 .. Size
    BY SizeAssumption DEF IsStack
<1>1. r = [s EXCEPT !.curr = s.curr + 1, !.diffs = f]
    BY DEF Push
<1>2. IsEntry(Undefined) /\ Undefined.isDefined = FALSE
    BY DEF IsEntry, IsFcn, Undefined
<1>3. IsFcn(f) /\ DOMAIN f = 1 .. Size
    BY DEF IsFcn
<1>4. \A i \in 1 .. Size : IsEntry(f[i])
    BY <1>2 DEF IsStack
<1>5. f[s.curr + 1] = x
    BY <1>0
<1>6. \A j \in 1 .. s.curr : f[j] = s.diffs[j]
    BY <1>0
<1>7. \A j \in s.curr + 2 .. Size : f[j] = Undefined
    BY <1>0
<1> HIDE DEF f
<1>8. r.curr = s.curr + 1 /\ r.diffs = f /\ r.saved = s.saved /\ DOMAIN r = DOMAIN s
    BY <1>1 DEF IsStack
<1>9. IsFcn(r)
    BY <1>1 DEF IsFcn
<1> HIDE DEF r
<1>10. IsStack(r)
    BY <1>0, <1>3, <1>4, <1>8, <1>9 DEF IsStack
<1> QED BY <1>2, <1>5, <1>6, <1>7, <1>8, <1>10 DEF r, Pushed

\* A new entry that leads to the new end of the trail.
LEMMA PushHistory ==
    ASSUME NEW s, NEW t, NEW u, NEW part, NEW p, NEW x,
           History(s, t, part), IsSeq(t), s.curr < Size, Grows(t, u, s.curr, p),
           IsEntry(x), x.isDefined = TRUE, Undoes(x, t[s.curr + 1][part], p[part])
    PROVE  History(Push(s, x), u, part)
<1> DEFINE r == Push(s, x)
<1>1. IsStack(s) /\ s.curr \in Nat /\ Size \in Nat /\ Len(t) \in Nat /\ s.curr < Len(t)
    BY SizeAssumption DEF History, IsStack, IsSeq
<1>2. /\ IsStack(r) /\ r.curr = s.curr + 1 /\ r.diffs[s.curr + 1] = x
      /\ \A j \in 1 .. s.curr : r.diffs[j] = s.diffs[j]
      /\ \A j \in s.curr + 2 .. Size : r.diffs[j].isDefined = FALSE
    <2>1. Pushed(r, s, x)
        BY <1>1, PushIs
    <2> QED BY <2>1 DEF Pushed
<1> HIDE DEF r
<1>3. Len(u) = s.curr + 2 /\ u[s.curr + 2] = p /\ \A j \in 1 .. s.curr + 1 : u[j] = t[j]
    BY DEF Grows
<1>4. ASSUME NEW j \in 1 .. s.curr + 1
      PROVE  r.diffs[j].isDefined = TRUE /\ Undoes(r.diffs[j], u[j][part], u[j + 1][part])
    <2>1. CASE j = s.curr + 1
        BY <1>1, <1>2, <1>3, <2>1
    <2>2. CASE j # s.curr + 1
        <3>1. j \in 1 .. s.curr /\ j \in 1 .. Len(t) - 1 /\ j + 1 \in 1 .. s.curr + 1
            BY <1>1, <2>2
        <3>2. s.diffs[j].isDefined = TRUE /\ Undoes(s.diffs[j], t[j][part], t[j + 1][part])
            BY <3>1 DEF History
        <3>3. r.diffs[j] = s.diffs[j] /\ u[j] = t[j] /\ u[j + 1] = t[j + 1]
            BY <1>2, <1>3, <3>1
        <3> QED BY <3>2, <3>3
    <2> QED BY <2>1, <2>2
<1>5. Len(u) - 1 = s.curr + 1 /\ r.curr < Len(u) /\ Len(u) <= Size + 1 /\ r.curr + 1 .. Len(u) - 1 = {}
    BY <1>1, <1>2, <1>3
<1> QED BY <1>2, <1>3, <1>4, <1>5 DEF History, r
\* The last entry of a stack merges another edit of its node.
LEMMA MergedUndoes ==
    ASSUME NEW x, NEW d0, NEW d, NEW e, NEW field, NEW key, NEW node, Named(key),
           Undoes(x, d0, d), x.query = Child(field, key),
           IsFcn(d), IsFcn(d[field]), field \in DOMAIN d, key \in DOMAIN d[field],
           e = Replace(d, Child(field, key), node)
    PROVE  Undoes(x, d0, e)
<1> DEFINE q == Child(field, key)
<1>1. Differ(d0, d, q) /\ Replace(d, q, x.before) = d0
    BY DEF Undoes
<1>2. Found(d0, q) /\ Replace(d, q, Copy(d0, q)) = d0
    BY <1>1 DEF Differ
<1>3. \A b : Replace(e, q, b) = Replace(d, q, b)
    BY ReplacedTwice
<1>4. e = Put(d, field, Put(d[field], key, node))
    BY ChildReplace
<1>5. e[field] = Put(d[field], key, node)
    BY <1>4, PutIs
<1>6. key \in DOMAIN e[field] /\ e[field][key] = node
    BY <1>5, PutIs
<1>7. Found(e, q) /\ Copy(e, q) = node
    BY <1>6, ChildQuery
<1>8. Replace(Replace(d, q, Copy(d0, q)), q, node) = Replace(d, q, node)
    BY ReplacedTwice
<1> HIDE DEF q
<1>9. Replace(d0, q, Copy(e, q)) = e
    BY <1>2, <1>7, <1>8 DEF q
<1>10. Replace(e, q, Copy(d0, q)) = d0 /\ Replace(e, q, x.before) = d0
    BY <1>1, <1>2, <1>3
<1>11. x.query = q
    BY DEF q
<1> QED BY <1>2, <1>7, <1>9, <1>10, <1>11 DEF Undoes, Differ

\* The entry undone, with the node it found.
Reverted(x, d) == [x EXCEPT !.after = IF Found(d, x.query) THEN Copy(d, x.query) ELSE @]

LEMMA RevertedIs ==
    ASSUME NEW x, IsEntry(x), NEW d
    PROVE  /\ IsEntry(Reverted(x, d))
           /\ Reverted(x, d).query = x.query /\ Reverted(x, d).before = x.before
           /\ Reverted(x, d).source = x.source /\ Reverted(x, d).isDefined = x.isDefined
           /\ Found(d, x.query) => Reverted(x, d).after = Copy(d, x.query)
BY DEF Reverted, IsEntry, IsFcn

\* Stack r is stack s one lower, its last entry undone at document d.
Lowered(r, s, d) ==
    /\ IsStack(r) /\ r.curr = s.curr - 1 /\ r.saved = s.saved
    /\ r.diffs[s.curr] = Reverted(s.diffs[s.curr], d)
    /\ \A j \in (1 .. Size) \ {s.curr} : r.diffs[j] = s.diffs[j]

LEMMA UndoIs ==
    ASSUME NEW s, IsStack(s), NEW d, NEW tab, CanUndo(s, tab)
    PROVE  /\ Lowered(UndoStack(s, d, tab), s, d) /\ s.curr \in 1 .. Size
           /\ UndoDocument(s, d, tab) = Replace(d, s.diffs[s.curr].query, s.diffs[s.curr].before)
<1> DEFINE r == UndoStack(s, d, tab)
           x == s.diffs[s.curr]
           f == [s.diffs EXCEPT ![s.curr] = Reverted(x, d)]
<1>1. s.curr \in 0 .. Size /\ s.curr > 0 /\ Size \in Nat
    BY SizeAssumption DEF CanUndo, IsStack
<1>2. s.curr \in 1 .. Size /\ s.curr - 1 \in 0 .. Size
    BY <1>1
<1>3. IsEntry(x) /\ IsEntry(Reverted(x, d))
    BY <1>2, RevertedIs DEF IsStack
<1>4. IsFcn(f) /\ DOMAIN f = 1 .. Size /\ f[s.curr] = Reverted(x, d)
    BY <1>2 DEF IsStack, IsFcn
<1>5. \A j \in (1 .. Size) \ {s.curr} : f[j] = s.diffs[j]
    BY DEF IsStack
<1>6. \A j \in 1 .. Size : IsEntry(f[j])
    BY <1>3, <1>4, <1>5 DEF IsStack
<1>7. r = [s EXCEPT !.curr = s.curr - 1, !.diffs = f]
    BY <1>1 DEF UndoStack, Reverted, CanUndo
<1> HIDE DEF f
<1>8. r.curr = s.curr - 1 /\ r.diffs = f /\ r.saved = s.saved /\ DOMAIN r = DOMAIN s
    BY <1>7 DEF IsStack
<1>9. IsFcn(r)
    BY <1>7 DEF IsFcn
<1>10. UndoDocument(s, d, tab) = Replace(d, x.query, x.before)
    BY DEF UndoDocument
<1> HIDE DEF r
<1>11. IsStack(r)
    BY <1>2, <1>4, <1>6, <1>8, <1>9 DEF IsStack
<1>12. Lowered(r, s, d)
    BY <1>4, <1>5, <1>8, <1>11 DEF Lowered
<1> QED BY <1>2, <1>10, <1>12 DEF r

\* What undo leaves can be redone.
LEMMA UndoHistory ==
    ASSUME NEW s, NEW t, NEW part, NEW tab, History(s, t, part), IsSeq(t), CanUndo(s, tab)
    PROVE  LET d == t[s.curr + 1][part]
           IN  /\ History(UndoStack(s, d, tab), t, part)
               /\ UndoDocument(s, d, tab) = t[s.curr][part]
<1> DEFINE d == t[s.curr + 1][part]
           r == UndoStack(s, d, tab)
           x == s.diffs[s.curr]
<1>1. IsStack(s) /\ Len(t) \in Nat /\ s.curr < Len(t) /\ Len(t) <= Size + 1 /\ Size \in Nat
    BY SizeAssumption DEF History, IsSeq
<1>2. Lowered(r, s, d) /\ s.curr \in 1 .. Size /\ UndoDocument(s, d, tab) = Replace(d, x.query, x.before)
    BY <1>1, UndoIs
<1> HIDE DEF r
<1>3. s.curr \in 1 .. Len(t) - 1 /\ s.curr \in Int
    BY <1>1, <1>2
<1>4. Undoes(x, t[s.curr][part], d)
    BY <1>3 DEF History
<1>5. UndoDocument(s, d, tab) = t[s.curr][part]
    BY <1>2, <1>4 DEF Undoes
<1>6. IsEntry(x)
    BY <1>1, <1>2 DEF IsStack
<1>7. Found(d, x.query) /\ Replace(t[s.curr][part], x.query, Copy(d, x.query)) = d
    BY <1>4 DEF Undoes, Differ
<1>8. /\ r.diffs[s.curr].query = x.query /\ r.diffs[s.curr].before = x.before
      /\ r.diffs[s.curr].isDefined = x.isDefined /\ r.diffs[s.curr].after = Copy(d, x.query)
    BY <1>2, <1>6, <1>7, RevertedIs DEF Lowered
<1>9. Redoes(r.diffs[s.curr], t[s.curr][part], t[s.curr + 1][part])
    BY <1>7, <1>8 DEF Redoes
<1>10. ASSUME NEW j \in 1 .. Len(t) - 1
       PROVE  r.diffs[j].isDefined = TRUE /\ Undoes(r.diffs[j], t[j][part], t[j + 1][part])
    <2>1. s.diffs[j].isDefined = TRUE /\ Undoes(s.diffs[j], t[j][part], t[j + 1][part])
        BY DEF History
    <2>2. CASE j = s.curr
        BY <1>8, <2>1, <2>2 DEF Undoes
    <2>3. CASE j # s.curr
        <3>1. j \in (1 .. Size) \ {s.curr}
            BY <1>1, <2>3
        <3> QED BY <1>2, <2>1, <3>1 DEF Lowered
    <2> QED BY <2>2, <2>3
<1>11. ASSUME NEW j \in s.curr .. Len(t) - 1
       PROVE  Redoes(r.diffs[j], t[j][part], t[j + 1][part])
    <2>1. CASE j = s.curr
        BY <1>9, <2>1
    <2>2. CASE j # s.curr
        <3>1. j \in s.curr + 1 .. Len(t) - 1 /\ j \in (1 .. Size) \ {s.curr}
            BY <1>1, <1>3, <2>2
        <3>2. Redoes(s.diffs[j], t[j][part], t[j + 1][part])
            BY <3>1 DEF History
        <3> QED BY <1>2, <3>1, <3>2 DEF Lowered
    <2> QED BY <2>1, <2>2
<1>12. ASSUME NEW j \in Len(t) .. Size
       PROVE  r.diffs[j].isDefined = FALSE
    <2>1. j \in (1 .. Size) \ {s.curr}
        BY <1>1, <1>3
    <2> QED BY <1>2, <2>1 DEF Lowered, History
<1>13. r.curr + 1 = s.curr /\ r.curr < Len(t) /\ IsStack(r)
    BY <1>1, <1>2, <1>3 DEF Lowered
<1>14. History(r, t, part)
    BY <1>1, <1>10, <1>11, <1>12, <1>13 DEF History
<1> QED BY <1>5, <1>14 DEF r

\* What redo shows.
RedoShows(s, t, part, tab) ==
    /\ s.curr + 2 <= Len(t)
    /\ RedoDocument(s, t[s.curr + 1][part], tab) = t[s.curr + 2][part]

LEMMA RedoHistory ==
    ASSUME NEW s, NEW t, NEW part, NEW tab, History(s, t, part), IsSeq(t), CanRedo(s, tab)
    PROVE  History(RedoStack(s, tab), t, part) /\ RedoShows(s, t, part, tab)
<1> DEFINE r == RedoStack(s, tab)
<1>1. /\ IsStack(s) /\ Len(t) \in Nat /\ s.curr < Len(t) /\ Len(t) <= Size + 1
      /\ Size \in Nat /\ s.curr \in Nat
    BY SizeAssumption DEF History, IsSeq, IsStack
<1>2. s.curr < Size /\ s.diffs[s.curr + 1].isDefined
    BY DEF CanRedo, HasTail
<1>3. s.curr + 1 \notin Len(t) .. Size
    BY <1>2 DEF History
<1>4. s.curr + 1 \in 1 .. Len(t) - 1 /\ s.curr + 1 \in s.curr + 1 .. Len(t) - 1
    BY <1>1, <1>2, <1>3
<1>5. Redoes(s.diffs[s.curr + 1], t[s.curr + 1][part], t[(s.curr + 1) + 1][part])
    BY <1>4 DEF History
<1>6. (s.curr + 1) + 1 = s.curr + 2 /\ s.curr + 2 <= Len(t)
    BY <1>1, <1>4
<1>7. RedoDocument(s, t[s.curr + 1][part], tab) = t[s.curr + 2][part]
    BY <1>5, <1>6 DEF RedoDocument, Redoes
<1>8. r = [s EXCEPT !.curr = s.curr + 1]
    BY DEF RedoStack
<1>9. IsFcn(r) /\ DOMAIN r = DOMAIN s /\ r.curr = s.curr + 1 /\ r.diffs = s.diffs /\ r.saved = s.saved
    BY <1>1, <1>8 DEF IsFcn, IsStack
<1> HIDE DEF r
<1>10. r.curr \in 0 .. Size /\ r.curr < Len(t)
    BY <1>1, <1>2, <1>6, <1>9
<1>11. IsStack(r)
    BY <1>1, <1>9, <1>10 DEF IsStack
<1>12. \A j \in r.curr + 1 .. Len(t) - 1 : j \in s.curr + 1 .. Len(t) - 1
    BY <1>1, <1>9
<1>13. History(r, t, part)
    BY <1>9, <1>10, <1>11, <1>12 DEF History
<1> QED BY <1>6, <1>7, <1>13 DEF r, RedoShows
-----------------------------------------------------------------------------
(* Both stacks and the documents they show.                                *)

IsMeta(e) == IsFcn(e) /\ DOMAIN e = {"condPlugins", "outputGUIplugins"}

\* A document in which every name resolves.
Good(d) == IsDocument(d) /\ ReferencesIn(d) /\ ConnectionsIn(d)

IsPair(p) == p = Pair(p.vpz, p.vpm) /\ Good(p.vpz) /\ IsMeta(p.vpm)

\* The stacks s and r are at one height of trail t, where the documents are d
\* and e, and their entries come from the same tabs.
Held(d, e, s, r, t) ==
    /\ IsSeq(t) /\ \A j \in 1 .. Len(t) : IsPair(t[j])
    /\ History(s, t, "vpz") /\ History(r, t, "vpm")
    /\ s.curr = r.curr /\ t[s.curr + 1] = Pair(d, e)
    /\ \A j \in 1 .. Len(t) - 1 : s.diffs[j].source = r.diffs[j].source

\* The star tells whether the height is the one of the saved documents.
SavedAt(s, starred, saved, t) ==
    s.saved < Len(t) /\ saved = t[s.saved + 1] /\ (starred <=> s.curr # s.saved)

LEMMA PairIs ==
    ASSUME NEW d, NEW e
    PROVE  Pair(d, e).vpz = d /\ Pair(d, e).vpm = e
BY DEF Pair

LEMMA GoodPair ==
    ASSUME NEW d, NEW e, Good(d), IsMeta(e)
    PROVE  IsPair(Pair(d, e))
BY PairIs DEF IsPair

LEMMA HeldTypes ==
    ASSUME NEW d, NEW e, NEW s, NEW r, NEW t, Held(d, e, s, r, t)
    PROVE  /\ IsStack(s) /\ IsStack(r) /\ s.curr \in Nat /\ Len(t) \in Nat /\ Size \in Nat
           /\ s.curr < Len(t) /\ Len(t) <= Size + 1 /\ s.saved \in Nat
           /\ Good(d) /\ IsMeta(e)
<1>1. IsStack(s) /\ IsStack(r) /\ s.curr \in Nat /\ Len(t) \in Nat /\ Size \in Nat /\ s.saved \in Nat
    BY SizeAssumption DEF Held, History, IsStack, IsSeq
<1>2. s.curr < Len(t) /\ Len(t) <= Size + 1
    BY DEF Held, History
<1>3. s.curr + 1 \in 1 .. Len(t)
    BY <1>1, <1>2
<1>4. IsPair(Pair(d, e))
    BY <1>3 DEF Held
<1>5. Good(d) /\ IsMeta(e)
    BY <1>4, PairIs DEF IsPair
<1> QED BY <1>1, <1>2, <1>5

\* A trail cut at height c, and one more document.
LEMMA TrailGrows ==
    ASSUME NEW t, IsSeq(t), NEW c \in Nat, c < Len(t), NEW p
    PROVE  Grows(t, SubSeq(t, 1, c + 1) \o <<>> \o <<p>>, c, p)
<1>1. PICK S : t \in Seq(S)
    BY DEF IsSeq
<1> DEFINE w == SubSeq(t, 1, c + 1)
           T == S \cup {p}
           u == w \o <<>> \o <<p>>
<1>2. w \in Seq(T) /\ Len(w) = c + 1 /\ \A j \in 1 .. c + 1 : w[j] = t[j]
    <2>1. Len(t) \in Nat /\ c + 1 <= Len(t)
        BY <1>1
    <2>2. w = [j \in 1 .. c + 1 |-> t[j]]
        BY <1>1, <2>1
    <2>3. w \in Seq(T)
        BY <1>1, <2>1
    <2> QED BY <2>2, <2>3
<1>3. w \o <<>> = w
    <2> HIDE DEF w, T
    <2> QED BY <1>2
<1>4. u = Append(w, p)
    <2> HIDE DEF w, T
    <2> QED BY <1>2, <1>3
<1>5. p \in T
    OBVIOUS
<1> HIDE DEF w, T, u
<1>6. u \in Seq(T) /\ Len(u) = Len(w) + 1 /\ u[Len(w) + 1] = p /\ \A j \in 1 .. Len(w) : u[j] = w[j]
    BY <1>2, <1>4, <1>5
<1>7. IsSeq(u)
    BY <1>6 DEF IsSeq
<1>8. Len(w) + 1 = c + 2
    BY <1>2
<1>9. Grows(t, u, c, p)
    BY <1>2, <1>6, <1>7, <1>8 DEF Grows
<1> QED BY <1>9 DEF u, w

\* New entries on both stacks.
LEMMA PushHeld ==
    ASSUME NEW d, NEW e, NEW s, NEW r, NEW t, NEW u, NEW d1, NEW e1, NEW x, NEW y,
           Held(d, e, s, r, t), s.curr < Size, Grows(t, u, s.curr, Pair(d1, e1)),
           Good(d1), IsMeta(e1),
           IsEntry(x), x.isDefined = TRUE, Undoes(x, d, d1),
           IsEntry(y), y.isDefined = TRUE, Undoes(y, e, e1), x.source = y.source
    PROVE  Held(d1, e1, Push(s, x), Push(r, y), u)
<1> DEFINE p == Pair(d1, e1)
<1>1. /\ IsStack(s) /\ IsStack(r) /\ s.curr \in Nat /\ Len(t) \in Nat /\ Size \in Nat
      /\ s.curr < Len(t)
    BY HeldTypes
<1>2. IsSeq(t) /\ History(s, t, "vpz") /\ History(r, t, "vpm") /\ r.curr = s.curr
    BY DEF Held
<1>3. t[s.curr + 1]["vpz"] = d /\ t[s.curr + 1]["vpm"] = e /\ p["vpz"] = d1 /\ p["vpm"] = e1
    BY PairIs DEF Held
<1>4. History(Push(s, x), u, "vpz")
    BY <1>2, <1>3, PushHistory
<1>5. History(Push(r, y), u, "vpm")
    <2>1. r.curr < Size /\ Grows(t, u, r.curr, p) /\ Undoes(y, t[r.curr + 1]["vpm"], p["vpm"])
        BY <1>2, <1>3
    <2> HIDE DEF p
    <2> QED BY <1>2, <2>1, PushHistory
<1>6. IsPair(p)
    BY GoodPair
<1> HIDE DEF p
<1>7. IsSeq(u) /\ Len(u) = s.curr + 2 /\ u[s.curr + 2] = p /\ \A j \in 1 .. s.curr + 1 : u[j] = t[j]
    BY DEF Grows, p
<1>8. ASSUME NEW j \in 1 .. Len(u) PROVE IsPair(u[j])
    <2>1. CASE j = s.curr + 2
        BY <1>6, <1>7, <2>1
    <2>2. CASE j # s.curr + 2
        <3>1. j \in 1 .. s.curr + 1 /\ j \in 1 .. Len(t)
            BY <1>1, <1>7, <2>2
        <3> QED BY <1>7, <3>1 DEF Held
    <2> QED BY <2>1, <2>2
<1>9. Pushed(Push(s, x), s, x) /\ Pushed(Push(r, y), r, y)
    BY <1>1, <1>2, PushIs
<1>10. Push(s, x).curr = s.curr + 1 /\ Push(r, y).curr = s.curr + 1
    BY <1>2, <1>9 DEF Pushed
<1>11. ASSUME NEW j \in 1 .. s.curr + 1
       PROVE  Push(s, x).diffs[j].source = Push(r, y).diffs[j].source
    <2>1. CASE j = s.curr + 1
        BY <1>2, <1>9, <2>1 DEF Pushed
    <2>2. CASE j # s.curr + 1
        <3>1. j \in 1 .. s.curr /\ j \in 1 .. Len(t) - 1
            BY <1>1, <2>2
        <3>2. Push(s, x).diffs[j] = s.diffs[j] /\ Push(r, y).diffs[j] = r.diffs[j]
            BY <1>2, <1>9, <3>1 DEF Pushed
        <3> QED BY <3>1, <3>2 DEF Held
    <2> QED BY <2>1, <2>2
<1>12. Len(u) - 1 = s.curr + 1 /\ (s.curr + 1) + 1 = s.curr + 2
    BY <1>1, <1>7
<1> QED BY <1>4, <1>5, <1>7, <1>8, <1>10, <1>11, <1>12 DEF Held, p
\* One more edit merged into the last entry of the stack of the vpz.
LEMMA MergeHeld ==
    ASSUME NEW d, NEW e, NEW s, NEW r, NEW t, NEW d1, NEW field, NEW key, NEW node,
           Held(d, e, s, r, t), s.curr > 0, Len(t) = s.curr + 1,
           s.diffs[s.curr].query = Child(field, key), Named(key),
           IsFcn(d), IsFcn(d[field]), field \in DOMAIN d, key \in DOMAIN d[field],
           d1 = Replace(d, Child(field, key), node), Good(d1)
    PROVE  Held(d1, e, s, r, [t EXCEPT ![s.curr + 1] = Pair(d1, e)])
<1> DEFINE p == Pair(d1, e)
           u == [t EXCEPT ![s.curr + 1] = p]
           n == s.curr
<1>1. IsStack(s) /\ IsStack(r) /\ n \in Nat /\ Size \in Nat /\ n <= Size /\ IsMeta(e)
    BY HeldTypes
<1>2. /\ IsSeq(t) /\ History(s, t, "vpz") /\ History(r, t, "vpm") /\ r.curr = n
      /\ t[n + 1] = Pair(d, e)
    BY DEF Held
<1>3. PICK S : t \in Seq(S)
    BY <1>2 DEF IsSeq
<1>4. IsPair(p) /\ p["vpz"] = d1 /\ p["vpm"] = e /\ t[n + 1]["vpz"] = d /\ t[n + 1]["vpm"] = e
    BY <1>1, <1>2, GoodPair, PairIs
<1> HIDE DEF p
<1>5. u \in Seq(S \cup {p}) /\ Len(u) = n + 1 /\ u[n + 1] = p /\ \A j \in 1 .. n : u[j] = t[j]
    <2>1. DOMAIN t = 1 .. n + 1 /\ n + 1 \in 1 .. n + 1
        BY <1>1, <1>3
    <2>2. DOMAIN u = 1 .. n + 1 /\ u[n + 1] = p /\ \A j \in 1 .. n : u[j] = t[j]
        BY <1>1, <2>1
    <2>3. \A j \in 1 .. n + 1 : u[j] \in S \cup {p}
        BY <1>1, <1>3, <2>1
    <2>4. u \in [1 .. n + 1 -> S \cup {p}]
        BY <2>1, <2>3
    <2>5. n + 1 \in Nat
        BY <1>1
    <2> HIDE DEF u, n
    <2>6. u \in Seq(S \cup {p})
        BY <2>4, <2>5
    <2>7. Len(u) = n + 1
        BY <2>2, <2>5, <2>6
    <2> QED BY <2>2, <2>6, <2>7
<1> HIDE DEF u
<1>6. IsSeq(u)
    BY <1>5 DEF IsSeq
<1>7. \A j \in 1 .. n : /\ s.diffs[j].isDefined = TRUE /\ Undoes(s.diffs[j], t[j]["vpz"], t[j + 1]["vpz"])
                        /\ r.diffs[j].isDefined = TRUE /\ Undoes(r.diffs[j], t[j]["vpm"], t[j + 1]["vpm"])
                        /\ s.diffs[j].source = r.diffs[j].source
    <2>1. Len(t) - 1 = n
        BY <1>1
    <2> QED BY <1>2, <2>1 DEF Held, History
<1>8. n \in 1 .. n
    BY <1>1
<1>9. Undoes(s.diffs[n], t[n]["vpz"], d1)
    <2>1. Undoes(s.diffs[n], t[n]["vpz"], d)
        BY <1>4, <1>7, <1>8
    <2> QED BY <2>1, MergedUndoes
<1>10. ASSUME NEW j \in 1 .. n
       PROVE  Undoes(s.diffs[j], u[j]["vpz"], u[j + 1]["vpz"]) /\ Undoes(r.diffs[j], u[j]["vpm"], u[j + 1]["vpm"])
    <2>1. u[j] = t[j]
        BY <1>5
    <2>2. CASE j = n
        BY <1>4, <1>5, <1>7, <1>9, <2>1, <2>2
    <2>3. CASE j # n
        <3>1. j + 1 \in 1 .. n
            BY <1>1, <2>3
        <3> QED BY <1>5, <1>7, <2>1, <3>1
    <2> QED BY <2>2, <2>3
<1>11. Len(u) - 1 = n /\ n < Len(u) /\ Len(u) <= Size + 1 /\ n + 1 .. n = {} /\ Len(u) = Len(t)
    BY <1>1, <1>5
<1>12. \A j \in Len(t) .. Size : s.diffs[j].isDefined = FALSE /\ r.diffs[j].isDefined = FALSE
    BY <1>2 DEF History
<1>13. History(s, u, "vpz") /\ History(r, u, "vpm")
    BY <1>1, <1>2, <1>7, <1>10, <1>11, <1>12 DEF History
<1>14. ASSUME NEW j \in 1 .. Len(u) PROVE IsPair(u[j])
    <2>1. CASE j = n + 1
        BY <1>4, <1>5, <2>1
    <2>2. CASE j # n + 1
        <3>1. j \in 1 .. n /\ j \in 1 .. Len(t)
            BY <1>1, <1>5, <2>2
        <3> QED BY <1>5, <3>1 DEF Held
    <2> QED BY <2>1, <2>2
<1>15. Held(d1, e, s, r, u)
    BY <1>2, <1>5, <1>6, <1>7, <1>11, <1>13, <1>14 DEF Held, p
<1> QED BY <1>15 DEF u, p

\* Both stacks undo, or neither.
LEMMA UndoHeld ==
    ASSUME NEW d, NEW e, NEW s, NEW r, NEW t, NEW tab, Held(d, e, s, r, t)
    PROVE  /\ Held(UndoDocument(s, d, tab), UndoDocument(r, e, tab),
                   UndoStack(s, d, tab), UndoStack(r, e, tab), t)
           /\ UndoStack(s, d, tab).saved = s.saved
           /\ UndoStack(s, d, tab).curr \in {s.curr, s.curr - 1}
<1>1. /\ IsStack(s) /\ IsStack(r) /\ s.curr \in Nat /\ Len(t) \in Nat /\ Size \in Nat
      /\ s.curr < Len(t) /\ Len(t) <= Size + 1
    BY HeldTypes
<1>2. /\ IsSeq(t) /\ History(s, t, "vpz") /\ History(r, t, "vpm") /\ r.curr = s.curr
      /\ t[s.curr + 1] = Pair(d, e)
      /\ \A j \in 1 .. Len(t) - 1 : s.diffs[j].source = r.diffs[j].source
      /\ \A j \in 1 .. Len(t) : IsPair(t[j])
    BY DEF Held
<1>3. s.curr > 0 => s.curr \in 1 .. Len(t) - 1
    BY <1>1
<1>4. CanUndo(s, tab) <=> CanUndo(r, tab)
    BY <1>2, <1>3 DEF CanUndo
<1>5. CASE ~CanUndo(s, tab)
    BY <1>4, <1>5 DEF UndoStack, UndoDocument
<1>6. CASE CanUndo(s, tab)
    <2> DEFINE s1 == UndoStack(s, d, tab)
               r1 == UndoStack(r, e, tab)
               d1 == UndoDocument(s, d, tab)
               e1 == UndoDocument(r, e, tab)
    <2>1. t[s.curr + 1]["vpz"] = d /\ t[s.curr + 1]["vpm"] = e
        BY <1>2, PairIs
    <2>2. History(s1, t, "vpz") /\ d1 = t[s.curr]["vpz"]
        BY <1>2, <1>6, <2>1, UndoHistory
    <2>3. History(r1, t, "vpm") /\ e1 = t[s.curr]["vpm"]
        BY <1>2, <1>4, <1>6, <2>1, UndoHistory
    <2>4. Lowered(s1, s, d) /\ Lowered(r1, r, e)
        BY <1>1, <1>4, <1>6, UndoIs
    <2> HIDE DEF s1, r1, d1, e1
    <2>5. s.curr > 0
        BY <1>6 DEF CanUndo
    <2>6. IsPair(t[s.curr])
        BY <1>1, <1>2, <2>5
    <2>7. t[s.curr] = Pair(d1, e1)
        BY <2>2, <2>3, <2>6 DEF IsPair
    <2>8. s1.curr = s.curr - 1 /\ r1.curr = s.curr - 1 /\ s1.saved = s.saved /\ s1.curr + 1 = s.curr
        BY <1>1, <1>2, <2>4 DEF Lowered
    <2>9. ASSUME NEW j \in 1 .. Len(t) - 1 PROVE s1.diffs[j].source = r1.diffs[j].source
        <3>1. s.diffs[j].source = r.diffs[j].source /\ j \in 1 .. Size
            BY <1>1, <1>2
        <3>2. IsEntry(s.diffs[j]) /\ IsEntry(r.diffs[j])
            BY <1>1, <3>1 DEF IsStack
        <3>3. CASE j = s.curr
            <4>1. s1.diffs[j] = Reverted(s.diffs[j], d) /\ r1.diffs[j] = Reverted(r.diffs[j], e)
                BY <1>2, <2>4, <3>3 DEF Lowered
            <4>2. Reverted(s.diffs[j], d).source = s.diffs[j].source
                BY <3>2, RevertedIs
            <4>3. Reverted(r.diffs[j], e).source = r.diffs[j].source
                BY <3>2, RevertedIs
            <4> QED BY <3>1, <4>1, <4>2, <4>3
        <3>4. CASE j # s.curr
            BY <1>2, <2>4, <3>1, <3>4 DEF Lowered
        <3> QED BY <3>3, <3>4
    <2>10. Held(d1, e1, s1, r1, t)
        BY <1>2, <2>2, <2>3, <2>7, <2>8, <2>9 DEF Held
    <2> QED BY <2>8, <2>10 DEF s1, r1, d1, e1
<1> QED BY <1>5, <1>6

\* Both stacks redo, or neither.
LEMMA RedoHeld ==
    ASSUME NEW d, NEW e, NEW s, NEW r, NEW t, NEW tab, Held(d, e, s, r, t)
    PROVE  /\ Held(RedoDocument(s, d, tab), RedoDocument(r, e, tab),
                   RedoStack(s, tab), RedoStack(r, tab), t)
           /\ RedoStack(s, tab).saved = s.saved
           /\ RedoStack(s, tab).curr \in {s.curr, s.curr + 1}
<1>1. /\ IsStack(s) /\ IsStack(r) /\ s.curr \in Nat /\ Len(t) \in Nat /\ Size \in Nat
      /\ s.curr < Len(t) /\ Len(t) <= Size + 1
    BY HeldTypes
<1>2. /\ IsSeq(t) /\ History(s, t, "vpz") /\ History(r, t, "vpm") /\ r.curr = s.curr
      /\ t[s.curr + 1] = Pair(d, e)
      /\ \A j \in 1 .. Len(t) - 1 : s.diffs[j].source = r.diffs[j].source
      /\ \A j \in 1 .. Len(t) : IsPair(t[j])
    BY DEF Held
<1>3. CanRedo(s, tab) <=> CanRedo(r, tab)
    <2>1. CASE s.curr + 1 \in 1 .. Len(t) - 1
        BY <1>2, <2>1 DEF CanRedo, HasTail, History
    <2>2. CASE s.curr + 1 \notin 1 .. Len(t) - 1
        <3>1. s.curr < Size => s.curr + 1 \in Len(t) .. Size
            BY <1>1, <2>2
        <3> QED BY <1>2, <3>1 DEF CanRedo, HasTail, History
    <2> QED BY <2>1, <2>2
<1>4. CASE ~CanRedo(s, tab)
    BY <1>3, <1>4 DEF RedoStack, RedoDocument
<1>5. CASE CanRedo(s, tab)
    <2> DEFINE s1 == RedoStack(s, tab)
               r1 == RedoStack(r, tab)
               d1 == RedoDocument(s, d, tab)
               e1 == RedoDocument(r, e, tab)
    <2>1. t[s.curr + 1]["vpz"] = d /\ t[s.curr + 1]["vpm"] = e
        BY <1>2, PairIs
    <2>2. History(s1, t, "vpz") /\ d1 = t[s.curr + 2]["vpz"] /\ s.curr + 2 <= Len(t)
        <3>1. History(s1, t, "vpz") /\ RedoShows(s, t, "vpz", tab)
            BY <1>2, <1>5, RedoHistory
        <3> QED BY <2>1, <3>1 DEF RedoShows
    <2>3. History(r1, t, "vpm") /\ e1 = t[s.curr + 2]["vpm"]
        <3>1. History(r1, t, "vpm") /\ RedoShows(r, t, "vpm", tab)
            BY <1>2, <1>3, <1>5, RedoHistory
        <3> QED BY <1>2, <2>1, <3>1 DEF RedoShows
    <2>4. /\ s1.curr = s.curr + 1 /\ s1.diffs = s.diffs /\ s1.saved = s.saved
          /\ r1.curr = s.curr + 1 /\ r1.diffs = r.diffs
        BY <1>1, <1>2, <1>3, <1>5 DEF RedoStack, IsStack
    <2> HIDE DEF s1, r1, d1, e1
    <2>5. IsPair(t[s.curr + 2])
        BY <1>1, <1>2, <2>2
    <2>6. t[s.curr + 2] = Pair(d1, e1) /\ s1.curr + 1 = s.curr + 2
        BY <1>1, <2>2, <2>3, <2>4, <2>5 DEF IsPair
    <2>7. Held(d1, e1, s1, r1, t)
        BY <1>2, <2>2, <2>3, <2>4, <2>6 DEF Held
    <2> QED BY <2>4, <2>7 DEF s1, r1, d1, e1
<1> QED BY <1>4, <1>5
-----------------------------------------------------------------------------
(* The inductive invariant, and what a step must show of its edit.         *)

\* The documents and the stacks keep their kinds; while no operation slipped the
\* stacks lead along the trail, and the star is up to date while the saved entry
\* is in them.
DocInv ==
    /\ IsDocument(doc) /\ IsStack(z) /\ IsStack(m)
    /\ star \in BOOLEAN /\ slipped \in BOOLEAN /\ stale \in BOOLEAN
    /\ ~slipped => Held(doc, meta, z, m, trail)
    /\ ~slipped /\ ~stale => SavedAt(z, star, file, trail)

LEMMA StarredIs ==
    ASSUME NEW b \in BOOLEAN, NEW i, NEW j, NEW k
    PROVE  Starred(b, i, j, k) \in BOOLEAN
BY DEF Starred

\* A step above the saved height.
LEMMA SavedBelow ==
    ASSUME NEW s, NEW r, NEW b, NEW f, NEW t, NEW u, SavedAt(s, b, f, t),
           s.curr \in Nat, s.saved \in Nat, s.saved <= s.curr, r.saved = s.saved,
           r.curr \in Nat, r.curr > s.curr, Len(u) \in Nat, r.curr < Len(u),
           \A j \in 1 .. s.curr + 1 : u[j] = t[j]
    PROVE  SavedAt(r, Starred(b, s.curr, r.curr, s.saved), f, u)
<1>1. s.saved + 1 \in 1 .. s.curr + 1 /\ s.saved < Len(u) /\ r.curr # r.saved
    OBVIOUS
<1>2. f = u[s.saved + 1]
    BY <1>1 DEF SavedAt
<1>3. s.curr # r.curr
    OBVIOUS
<1>4. r.curr # s.saved
    BY <1>1
<1>5. CASE s.saved = s.curr
    <2>1. s.saved \in s.curr .. r.curr
        BY <1>5
    <2>2. Starred(b, s.curr, r.curr, s.saved) = TRUE
        BY <1>3, <1>4, <2>1 DEF Starred
    <2> QED BY <1>1, <1>2, <2>2 DEF SavedAt
<1>6. CASE s.saved # s.curr
    <2>1. s.saved \notin s.curr .. r.curr /\ s.saved \notin r.curr .. s.curr
        BY <1>6
    <2>2. Starred(b, s.curr, r.curr, s.saved) = b
        BY <1>3, <1>4, <2>1 DEF Starred
    <2>3. b
        BY <1>6 DEF SavedAt
    <2> QED BY <1>1, <1>2, <2>2, <2>3 DEF SavedAt
<1> QED BY <1>5, <1>6

\* A step along the trail.
LEMMA SavedAlong ==
    ASSUME NEW s, NEW r, NEW b \in BOOLEAN, NEW f, NEW t, SavedAt(s, b, f, t),
           s.curr \in Nat, s.saved \in Nat, r.saved = s.saved,
           r.curr \in {s.curr, s.curr + 1, s.curr - 1}
    PROVE  SavedAt(r, Starred(b, s.curr, r.curr, s.saved), f, t)
<1>1. CASE r.curr = s.curr
    BY <1>1 DEF SavedAt, Starred
<1>2. CASE r.curr # s.curr /\ r.curr = s.saved
    BY <1>2 DEF SavedAt, Starred
<1>3. CASE r.curr # s.curr /\ r.curr # s.saved
    <2>1. CASE s.saved = s.curr
        <3>1. s.saved \in s.curr .. r.curr \/ s.saved \in r.curr .. s.curr
            BY <1>3, <2>1
        <3>2. Starred(b, s.curr, r.curr, s.saved) = TRUE
            BY <1>3, <3>1 DEF Starred
        <3> QED BY <1>3, <3>2 DEF SavedAt
    <2>2. CASE s.saved # s.curr
        <3>1. b = TRUE
            BY <2>2 DEF SavedAt
        <3>2. Starred(b, s.curr, r.curr, s.saved) = TRUE
            BY <1>3, <3>1 DEF Starred
        <3> QED BY <1>3, <3>2 DEF SavedAt
    <2> QED BY <2>1, <2>2
<1> QED BY <1>1, <1>2, <1>3

\* The entries that operations make.
LEMMA SnapshotUndoes ==
    ASSUME NEW q, NEW type, NEW tab, NEW d, NEW e, Differ(d, e, q)
    PROVE  Undoes(Entry(q, Copy(d, q), type, tab), d, e)
<1> DEFINE x == Entry(q, Copy(d, q), type, tab)
<1>1. x.query = q /\ x.before = Copy(d, q)
    BY DEF Entry
<1> HIDE DEF x
<1>2. Undoes(x, d, e)
    BY <1>1 DEF Undoes, Differ
<1> QED BY <1>2 DEF x

\* A null node levels the stacks.
Blank(tab) == Entry(NullNode, <<>>, "null", tab)

LEMMA BlankUndoes ==
    ASSUME NEW tab, NEW d, IsFcn(d)
    PROVE  Undoes(Blank(tab), d, d)
<1>1. Differ(d, d, NullNode)
    BY DifferWhole DEF NullNode
<1>2. NullNode.key = "" /\ NullNode.fields = {}
    BY DEF NullNode, Whole
<1>3. Found(d, NullNode)
    BY <1>2 DEF Found
<1>4. Replace(d, NullNode, <<>>) = [f \in DOMAIN d |-> IF f \in {} THEN <<>>[f] ELSE d[f]]
    BY <1>2, <1>3 DEF Replace
<1>5. Replace(d, NullNode, <<>>) = d
    BY <1>4 DEF IsFcn
<1>6. Blank(tab).query = NullNode /\ Blank(tab).before = <<>>
    BY DEF Blank, Entry
<1> QED BY <1>1, <1>5, <1>6 DEF Undoes

\* Levelling adds nothing, or one null node.
LEMMA RaiseNone ==
    ASSUME NEW s, NEW n, NEW tab, s.curr >= n
    PROVE  RaiseTo(s, n, tab) = s
BY DEF RaiseTo

LEMMA RaiseOne ==
    ASSUME NEW s, s.curr \in Nat, NEW tab
    PROVE  RaiseTo(s, s.curr + 1, tab) = Push(s, Blank(tab))
<1> DEFINE n == s.curr + 1
           f == [i \in 1 .. Size |-> IF i <= s.curr THEN s.diffs[i]
                                     ELSE IF i <= n THEN Blank(tab) ELSE Undefined]
           g == [i \in 1 .. Size |-> IF i <= s.curr THEN s.diffs[i]
                                     ELSE IF i = s.curr + 1 THEN Blank(tab) ELSE Undefined]
<1>1. ~(s.curr >= n)
    OBVIOUS
<1>2. RaiseTo(s, n, tab) = [s EXCEPT !.curr = n, !.diffs = f]
    BY <1>1 DEF RaiseTo, Blank
<1>3. Push(s, Blank(tab)) = [s EXCEPT !.curr = n, !.diffs = g]
    BY DEF Push
<1>4. \A i \in 1 .. Size : f[i] = g[i]
    <2>1. \A i \in 1 .. Size : ~(i <= s.curr) => (i <= n <=> i = s.curr + 1)
        BY SizeAssumption
    <2> QED BY <2>1
<1>5. IsFcn(f) /\ IsFcn(g) /\ DOMAIN f = 1 .. Size /\ DOMAIN g = 1 .. Size
    BY DEF IsFcn
<1> HIDE DEF f, g
<1>6. f = g
    BY <1>4, <1>5, SameFunction
<1> QED BY <1>2, <1>3, <1>6

\* The step that makes one entry on each stack.
LEMMA OneEntry ==
    ASSUME DocInv, ~slipped, z.curr < Size, NEW x, NEW y, NEW d, NEW e,
           z' = Push(z, x), m' = Push(m, y), doc' = d, meta' = e,
           star' = Starred(star, z.curr, z'.curr, z.saved),
           stale' = (stale \/ (z'.curr > z.curr /\ z.curr < z.saved)),
           slipped' = FALSE,
           trail' = SubSeq(trail, 1, z.curr + 1) \o <<>> \o <<Pair(d, e)>>,
           file' = file,
           Good(d), IsMeta(e),
           IsEntry(x), x.isDefined = TRUE, Undoes(x, doc, d),
           IsEntry(y), y.isDefined = TRUE, Undoes(y, meta, e), x.source = y.source
    PROVE  DocInv'
<1>1. Held(doc, meta, z, m, trail) /\ IsStack(z) /\ IsStack(m) /\ star \in BOOLEAN /\ stale \in BOOLEAN
    BY DEF DocInv
<1>2. /\ z.curr \in Nat /\ Len(trail) \in Nat /\ Size \in Nat /\ z.curr < Len(trail) /\ z.saved \in Nat
    BY <1>1, HeldTypes
<1>3. IsSeq(trail) /\ m.curr = z.curr
    BY <1>1 DEF Held
<1>4. Grows(trail, trail', z.curr, Pair(d, e))
    BY <1>2, <1>3, TrailGrows
<1>5. Held(d, e, z', m', trail')
    BY <1>1, <1>4, PushHeld
<1>6. Pushed(z', z, x) /\ Pushed(m', m, y)
    BY <1>1, <1>3, PushIs
<1>7. IsStack(z') /\ IsStack(m') /\ z'.curr = z.curr + 1 /\ z'.saved = z.saved
    BY <1>6 DEF Pushed
<1>8. star' \in BOOLEAN
    BY <1>1, StarredIs
<1>9. stale' \in BOOLEAN
    BY <1>1
<1>10. ASSUME ~stale' PROVE SavedAt(z', star', file', trail')
    <2>1. ~stale /\ ~(z'.curr > z.curr /\ z.curr < z.saved)
        BY <1>10
    <2>2. SavedAt(z, star, file, trail)
        BY <2>1 DEF DocInv
    <2>3. z.saved <= z.curr /\ z'.curr > z.curr /\ z'.curr \in Nat
        BY <1>2, <1>7, <2>1
    <2>4. Len(trail') = z.curr + 2 /\ \A j \in 1 .. z.curr + 1 : trail'[j] = trail[j]
        BY <1>4 DEF Grows
    <2>5. Len(trail') \in Nat /\ z'.curr < Len(trail')
        BY <1>2, <1>7, <2>4
    <2> QED BY <1>2, <1>7, <2>2, <2>3, <2>4, <2>5, SavedBelow
<1>11. IsDocument(d)
    BY DEF Good
<1> QED BY <1>5, <1>7, <1>8, <1>9, <1>10, <1>11 DEF DocInv
\* A null snapshot never merges.
LEMMA SnapshotPushes ==
    ASSUME NEW s, NEW d, NEW q, NEW tab
    PROVE  Snapshot(s, d, q, "null", tab) = Push(s, Entry(q, Copy(d, q), "null", tab))
BY DEF Snapshot, Mergeable, MergeableAlways

\* The end of an operation that made an entry on each stack.
LEMMA CommitStep ==
    ASSUME DocInv, ~slipped, z.curr < Size, NEW x, NEW y, NEW d, NEW e,
           Commit(Push(z, x), Push(m, y), d, e, <<>>, FALSE),
           Good(d), IsMeta(e),
           IsEntry(x), x.isDefined = TRUE, Undoes(x, doc, d),
           IsEntry(y), y.isDefined = TRUE, Undoes(y, meta, e), x.source = y.source
    PROVE  DocInv'
<1>1. IsStack(z) /\ z.curr \in Nat
    BY SizeAssumption DEF DocInv, IsStack
<1>2. Push(z, x).curr = z.curr + 1
    BY <1>1, PushIs DEF Pushed
<1>3. /\ z' = Push(z, x) /\ m' = Push(m, y) /\ doc' = d /\ meta' = e
      /\ star' = Starred(star, z.curr, z'.curr, z.saved)
      /\ stale' = (stale \/ (z'.curr > z.curr /\ z.curr < z.saved))
      /\ slipped' = FALSE /\ file' = file
    BY DEF Commit
<1>4. trail' = SubSeq(trail, 1, z.curr + 1) \o <<>> \o <<Pair(d, e)>>
    <2>1. Push(z, x).curr # z.curr
        BY <1>1, <1>2
    <2> QED BY <2>1 DEF Commit
<1> QED BY <1>3, <1>4, OneEntry

\* The heights while no operation slipped.
LEMMA Heights ==
    ASSUME DocInv, ~slipped
    PROVE  /\ Held(doc, meta, z, m, trail) /\ IsStack(z) /\ IsStack(m)
           /\ z.curr \in Nat /\ Size \in Nat /\ m.curr = z.curr
           /\ Good(doc) /\ IsMeta(meta) /\ IsFcn(meta)
<1>1. Held(doc, meta, z, m, trail) /\ IsStack(z) /\ IsStack(m)
    BY DEF DocInv
<1>2. z.curr \in Nat /\ Size \in Nat /\ Good(doc) /\ IsMeta(meta)
    BY <1>1, HeldTypes
<1>3. m.curr = z.curr
    BY <1>1 DEF Held
<1> QED BY <1>1, <1>2, <1>3 DEF IsMeta

\* The stack of the vpm is levelled with the one of the vpz.
LEMMA LevelUp ==
    ASSUME DocInv, ~slipped, z.curr < Size, NEW x, IsEntry(x), NEW tab
    PROVE  /\ Push(z, x).curr = z.curr + 1
           /\ LevelZ(Push(z, x), m, tab) = Push(z, x)
           /\ LevelM(Push(z, x), m, tab) = Push(m, Blank(tab))
<1>1. IsStack(z) /\ z.curr \in Nat /\ m.curr = z.curr
    BY Heights
<1>2. Push(z, x).curr = z.curr + 1
    BY <1>1, PushIs DEF Pushed
<1>3. LevelZ(Push(z, x), m, tab) = Push(z, x)
    BY <1>1, <1>2, RaiseNone DEF LevelZ
<1>4. LevelM(Push(z, x), m, tab) = Push(m, Blank(tab))
    BY <1>1, <1>2, RaiseOne DEF LevelM
<1> QED BY <1>2, <1>3, <1>4

\* An operation that copies the node it edits and makes an entry.
LEMMA EditWithStep ==
    ASSUME DocInv, NEW tab, NEW q, NEW type, NEW d, EditWith(tab, q, type, d),
           ~Mergeable(z, q, type), Differ(doc, d, q), Good(d)
    PROVE  DocInv'
<1> DEFINE x == Entry(q, Copy(doc, q), type, tab)
           y == Blank(tab)
<1>1. ~slipped /\ z.curr + 1 <= Size
    BY DEF EditWith, Room
<1>2. z.curr \in Nat /\ Size \in Nat /\ IsMeta(meta) /\ IsFcn(meta)
    BY <1>1, Heights
<1>3. z.curr < Size
    BY <1>1, <1>2
<1>4. IsEntry(x) /\ x.isDefined = TRUE /\ x.source = tab
    BY DEF Entry, IsEntry, IsFcn
<1>5. IsEntry(y) /\ y.isDefined = TRUE /\ y.source = tab
    BY DEF Blank, Entry, IsEntry, IsFcn
<1>6. Undoes(x, doc, d) /\ Undoes(y, meta, meta)
    BY <1>2, SnapshotUndoes, BlankUndoes
<1>7. Snapshot(z, doc, q, type, tab) = Push(z, x)
    BY DEF Snapshot
<1> HIDE DEF x, y
<1>8. /\ LevelZ(Push(z, x), m, tab) = Push(z, x) /\ LevelM(Push(z, x), m, tab) = Push(m, y)
      /\ Push(z, x).curr = z.curr + 1
    BY <1>1, <1>3, <1>4, LevelUp DEF y
<1>9. Push(z, x) # z
    BY <1>2, <1>8
<1>10. Commit(Push(z, x), Push(m, y), d, meta, <<>>, FALSE)
    BY <1>7, <1>8, <1>9 DEF EditWith, Commit
<1> QED BY <1>1, <1>2, <1>3, <1>4, <1>5, <1>6, <1>10, CommitStep

LEMMA EditStep ==
    ASSUME DocInv, NEW tab, NEW q, NEW d, Edit(tab, q, d), Differ(doc, d, q), Good(d)
    PROVE  DocInv'
<1>1. ~Mergeable(z, q, "null")
    BY DEF Mergeable, MergeableAlways
<1>2. EditWith(tab, q, "null", d)
    BY DEF Edit
<1> QED BY <1>1, <1>2, EditWithStep
-----------------------------------------------------------------------------
(* Functions and documents edited.                                         *)

\* Function g is f with value v at key k, without key k, with a key renamed.
IsWith(g, f, k, v) ==
    /\ IsFcn(g) /\ DOMAIN g = DOMAIN f \cup {k} /\ g[k] = v
    /\ \A x \in DOMAIN f \ {k} : g[x] = f[x]

IsWithout(g, f, k) ==
    /\ IsFcn(g) /\ DOMAIN g = DOMAIN f \ {k}
    /\ \A x \in DOMAIN f \ {k} : g[x] = f[x]

IsRenamed(g, f, old, new) ==
    /\ IsFcn(g) /\ DOMAIN g = (DOMAIN f \ {old}) \cup {new} /\ g[new] = f[old]
    /\ \A x \in DOMAIN f \ {old, new} : g[x] = f[x]

LEMMA WithIs ==
    ASSUME NEW f, NEW k, NEW v
    PROVE  IsWith(With(f, k, v), f, k, v)
BY DEF IsWith, With, IsFcn

LEMMA WithoutIs ==
    ASSUME NEW f, NEW k
    PROVE  IsWithout(Without(f, k), f, k)
BY DEF IsWithout, Without, IsFcn

LEMMA RenamedIs ==
    ASSUME NEW f, NEW old, NEW new
    PROVE  IsRenamed(Renamed(f, old, new), f, old, new)
<1> DEFINE g == Without(f, old)
           h == With(g, new, f[old])
<1>1. IsWithout(g, f, old)
    BY WithoutIs
<1> HIDE DEF g
<1>2. IsWith(h, g, new, f[old])
    BY WithIs
<1>3. h = Renamed(f, old, new)
    BY DEF Renamed, g
<1> HIDE DEF h
<1>4. IsRenamed(h, f, old, new)
    BY <1>1, <1>2 DEF IsWithout, IsWith, IsRenamed
<1> QED BY <1>3, <1>4

\* A connection may start, or end, at port p of x.
StartsAt(d, x, p) == (x = Top /\ p \in d.top.in) \/ (x \in DOMAIN d.models /\ p \in d.models[x].out)
EndsAt(d, x, p) == (x = Top /\ p \in d.top.out) \/ (x \in DOMAIN d.models /\ p \in d.models[x].in)

LEMMA PortsIn ==
    ASSUME NEW d, NEW x, NEW p
    PROVE  /\ <<x, p>> \in OriginsIn(d) <=> StartsAt(d, x, p)
           /\ <<x, p>> \in DestinationsIn(d) <=> EndsAt(d, x, p)
BY DEF OriginsIn, DestinationsIn, StartsAt, EndsAt

LEMMA ConnectionsAre ==
    ASSUME NEW d
    PROVE  ConnectionsIn(d) <=>
             \A c \in d.connections : StartsAt(d, c.orig, c.oport) /\ EndsAt(d, c.dest, c.dport)
BY PortsIn DEF ConnectionsIn

\* Two documents have the same ports.
SamePorts(d, e) ==
    /\ e.top = d.top /\ DOMAIN e.models = DOMAIN d.models
    /\ \A x \in DOMAIN d.models : e.models[x].in = d.models[x].in /\ e.models[x].out = d.models[x].out

LEMMA SameConnections ==
    ASSUME NEW d, NEW e, ConnectionsIn(d), SamePorts(d, e), e.connections \subseteq d.connections
    PROVE  ConnectionsIn(e)
<1>1. \A x, p : StartsAt(d, x, p) => StartsAt(e, x, p)
    BY DEF StartsAt, SamePorts
<1>2. \A x, p : EndsAt(d, x, p) => EndsAt(e, x, p)
    BY DEF EndsAt, SamePorts
<1> QED BY <1>1, <1>2, ConnectionsAre

\* Documents are functions of their fields.
LEMMA DocumentIs ==
    ASSUME NEW d, IsDocument(d)
    PROVE  IsFcn(d) /\ DOMAIN d = Fields
BY KeyedIs DEF IsDocument

\* Document e has the fields of d but those of fs.
Outside(d, e, fs) ==
    IsFcn(e) /\ DOMAIN e = Fields /\ \A f \in Fields \ fs : e[f] = d[f]

LEMMA DifferFields ==
    ASSUME NEW d, NEW e, NEW fs, IsDocument(d), Outside(d, e, fs)
    PROVE  Differ(d, e, Whole(fs))
BY DocumentIs, DifferWhole DEF Outside

LEMMA DifferProject ==
    ASSUME NEW e, NEW fs, IsDocument(doc), Outside(doc, e, fs)
    PROVE  Differ(doc, e, Project)
<1>1. IsFcn(doc) /\ DOMAIN doc = Fields
    BY DocumentIs
<1> QED BY <1>1, DifferWhole DEF Outside, Project

\* Function g is f with value v at attribute attr of the keys of xs.
Rewritten(g, f, xs, attr, v) ==
    /\ IsFcn(g) /\ DOMAIN g = DOMAIN f
    /\ \A x \in DOMAIN f \cap xs : g[x] = Put(f[x], attr, v)
    /\ \A x \in DOMAIN f \ xs : g[x] = f[x]

LEMMA ModelsWithIs ==
    ASSUME NEW xs, NEW attr, NEW v
    PROVE  Rewritten(ModelsWith(xs, attr, v), doc.models, xs, attr, v)
BY DEF Rewritten, ModelsWith, Put, IsFcn

LEMMA DynRewritten ==
    ASSUME NEW g, NEW f, NEW xs, NEW v \in Dyns \cup {None}, Rewritten(g, f, xs, "dyn", v),
           \A x \in DOMAIN f : f[x] \in ModelType
    PROVE  \A x \in DOMAIN f :
             /\ g[x] \in ModelType /\ g[x].conds = f[x].conds /\ g[x].obs = f[x].obs
             /\ g[x].in = f[x].in /\ g[x].out = f[x].out
             /\ g[x].dyn = IF x \in xs THEN v ELSE f[x].dyn
<1>1. ASSUME NEW r \in ModelType
      PROVE  LET w == Put(r, "dyn", v)
             IN  /\ w \in ModelType /\ w.conds = r.conds /\ w.obs = r.obs
                 /\ w.in = r.in /\ w.out = r.out /\ w.dyn = v
    BY DEF Put, ModelType
<1> QED BY <1>1 DEF Rewritten

LEMMA ObsRewritten ==
    ASSUME NEW g, NEW f, NEW xs, NEW v \in Obs \cup {None}, Rewritten(g, f, xs, "obs", v),
           \A x \in DOMAIN f : f[x] \in ModelType
    PROVE  \A x \in DOMAIN f :
             /\ g[x] \in ModelType /\ g[x].conds = f[x].conds /\ g[x].dyn = f[x].dyn
             /\ g[x].in = f[x].in /\ g[x].out = f[x].out
             /\ g[x].obs = IF x \in xs THEN v ELSE f[x].obs
<1>1. ASSUME NEW r \in ModelType
      PROVE  LET w == Put(r, "obs", v)
             IN  /\ w \in ModelType /\ w.conds = r.conds /\ w.dyn = r.dyn
                 /\ w.in = r.in /\ w.out = r.out /\ w.obs = v
    BY DEF Put, ModelType
<1> QED BY <1>1 DEF Rewritten

-----------------------------------------------------------------------------
(* Tab Dynamics.                                                           *)

\* Dynamics and models that agree.
LEMMA DynamicsGood ==
    ASSUME Good(doc), NEW e, Outside(doc, e, {"dynamics", "models"}), e.dynamics \subseteq Dyns,
           NEW xs, NEW v \in Dyns \cup {None}, Rewritten(e.models, doc.models, xs, "dyn", v),
           v \in e.dynamics \cup {None},
           \A x \in DOMAIN doc.models \ xs : doc.models[x].dyn \in e.dynamics \cup {None}
    PROVE  Good(e)
<1>1. IsDocument(doc) /\ ReferencesIn(doc) /\ ConnectionsIn(doc)
    BY DEF Good
<1>2. /\ e.conditions = doc.conditions /\ e.views = doc.views /\ e.outputs = doc.outputs
      /\ e.observables = doc.observables /\ e.top = doc.top /\ e.connections = doc.connections
      /\ IsFcn(e) /\ DOMAIN e = Fields
    BY DEF Outside, Fields
<1>3. \A x \in DOMAIN doc.models : doc.models[x] \in ModelType
    BY <1>1 DEF IsDocument
<1>4. IsFcn(e.models) /\ DOMAIN e.models = DOMAIN doc.models
    BY DEF Rewritten
<1>5. \A x \in DOMAIN doc.models :
        /\ e.models[x] \in ModelType /\ e.models[x].conds = doc.models[x].conds
        /\ e.models[x].obs = doc.models[x].obs
        /\ e.models[x].in = doc.models[x].in /\ e.models[x].out = doc.models[x].out
        /\ e.models[x].dyn = IF x \in xs THEN v ELSE doc.models[x].dyn
    BY <1>3, DynRewritten
<1>6. Keyed(e, Fields) /\ Keyed(e.models, Models)
    BY <1>1, <1>2, <1>4, KeyedIs DEF IsDocument
<1>7. IsDocument(e)
    BY <1>1, <1>2, <1>4, <1>5, <1>6 DEF IsDocument
<1>8. ReferencesIn(e)
    BY <1>1, <1>2, <1>4, <1>5 DEF ReferencesIn
<1>9. SamePorts(doc, e)
    BY <1>2, <1>4, <1>5 DEF SamePorts
<1>10. ConnectionsIn(e)
    BY <1>1, <1>2, <1>9, SameConnections
<1> QED BY <1>7, <1>8, <1>10 DEF Good

LEMMA AddDynamicStep ==
    ASSUME DocInv, Good(doc), NEW n \in Dyns, AddDynamic(n)
    PROVE  DocInv'
<1> DEFINE d == [doc EXCEPT !.dynamics = @ \cup {n}]
<1>1. IsDocument(doc) /\ ReferencesIn(doc) /\ IsFcn(doc) /\ DOMAIN doc = Fields
    BY DocumentIs DEF Good
<1>2. Outside(doc, d, {"dynamics"}) /\ d.dynamics = doc.dynamics \cup {n} /\ d.models = doc.models
    BY <1>1 DEF Outside, IsFcn, Fields
<1>3. Edit("Dynamics", Whole({"dynamics"}), d)
    BY DEF AddDynamic
<1> HIDE DEF d
<1>4. Differ(doc, d, Whole({"dynamics"}))
    BY <1>1, <1>2, DifferFields
<1>5. Outside(doc, d, {"dynamics", "models"}) /\ d.dynamics \subseteq Dyns
    BY <1>1, <1>2 DEF Outside, IsDocument
<1>6. Rewritten(d.models, doc.models, {}, "dyn", None)
    BY <1>1, <1>2, KeyedIs DEF Rewritten, IsDocument
<1>7. \A x \in DOMAIN doc.models \ {} : doc.models[x].dyn \in d.dynamics \cup {None}
    BY <1>1, <1>2 DEF ReferencesIn
<1>8. Good(d)
    BY <1>5, <1>6, <1>7, DynamicsGood
<1> QED BY <1>3, <1>4, <1>8, EditStep

\* A name of the dynamics leaves the document, and another may come.
LEMMA DynNodesStep ==
    ASSUME DocInv, Good(doc), NEW n \in doc.dynamics, NEW S \in SUBSET Dyns,
           NEW v \in Dyns \cup {None}, v \in S \cup {None}, doc.dynamics \ {n} \subseteq S,
           NEW d, d = [doc EXCEPT !.dynamics = S, !.models = ModelsWith(UsesDyn(n), "dyn", v)],
           Edit("Dynamics", DynNodes(n), d)
    PROVE  DocInv'
<1> DEFINE xs == UsesDyn(n)
<1>1. IsDocument(doc) /\ ReferencesIn(doc) /\ IsFcn(doc) /\ DOMAIN doc = Fields
    BY DocumentIs DEF Good
<1>2. /\ Outside(doc, d, {"dynamics", "models"}) /\ d.dynamics = S
      /\ d.models = ModelsWith(xs, "dyn", v)
    BY <1>1 DEF Outside, IsFcn, Fields
<1>3. Rewritten(d.models, doc.models, xs, "dyn", v)
    BY <1>2, ModelsWithIs
<1>4. \A x \in DOMAIN doc.models \ xs : doc.models[x].dyn \in d.dynamics \cup {None}
    BY <1>1, <1>2 DEF ReferencesIn, UsesDyn
<1>5. Good(d)
    BY <1>2, <1>3, <1>4, DynamicsGood
<1>6. Differ(doc, d, DynNodes(n))
    <2>1. CASE xs = {}
        <3>1. IsFcn(doc.models)
            BY <1>1, KeyedIs DEF IsDocument
        <3>2. d.models = doc.models
            BY <1>3, <2>1, <3>1, SameFunction DEF Rewritten
        <3>3. Outside(doc, d, {"dynamics"})
            BY <1>2, <3>2 DEF Outside
        <3> QED BY <1>1, <2>1, <3>3, DifferFields DEF DynNodes
    <2>2. CASE xs # {}
        BY <1>1, <1>2, <2>2, DifferProject DEF DynNodes
    <2> QED BY <2>1, <2>2
<1> QED BY <1>5, <1>6, EditStep

LEMMA RemoveDynStep ==
    ASSUME DocInv, Good(doc), NEW n \in Dyns, RemoveDyn(n)
    PROVE  DocInv'
<1> DEFINE S == doc.dynamics \ {n}
           d == [doc EXCEPT !.dynamics = S, !.models = ModelsWith(UsesDyn(n), "dyn", None)]
<1>1. doc.dynamics \subseteq Dyns
    BY DEF Good, IsDocument
<1>2. n \in doc.dynamics /\ Edit("Dynamics", DynNodes(n), d)
    BY DEF RemoveDyn
<1>3. S \in SUBSET Dyns /\ None \in Dyns \cup {None} /\ None \in S \cup {None} /\ doc.dynamics \ {n} \subseteq S
    BY <1>1
<1>4. d = [doc EXCEPT !.dynamics = S, !.models = ModelsWith(UsesDyn(n), "dyn", None)]
    OBVIOUS
<1> HIDE DEF d, S
<1> QED BY <1>2, <1>3, <1>4, DynNodesStep

LEMMA RenameDynamicStep ==
    ASSUME DocInv, Good(doc), NEW old \in Dyns, NEW new \in Dyns, RenameDynamic(old, new)
    PROVE  DocInv'
<1> DEFINE S == (doc.dynamics \ {old}) \cup {new}
           d == [doc EXCEPT !.dynamics = S, !.models = ModelsWith(UsesDyn(old), "dyn", new)]
<1>1. doc.dynamics \subseteq Dyns
    BY DEF Good, IsDocument
<1>2. old \in doc.dynamics /\ Edit("Dynamics", DynNodes(old), d)
    BY DEF RenameDynamic
<1>3. S \in SUBSET Dyns /\ new \in Dyns \cup {None} /\ new \in S \cup {None} /\ doc.dynamics \ {old} \subseteq S
    BY <1>1
<1>4. d = [doc EXCEPT !.dynamics = S, !.models = ModelsWith(UsesDyn(old), "dyn", new)]
    OBVIOUS
<1> HIDE DEF d, S
<1> QED BY <1>2, <1>3, <1>4, DynNodesStep

-----------------------------------------------------------------------------
(* Steps on both stacks.                                                   *)

\* An operation that slips keeps the types.
LEMMA SlipStep ==
    ASSUME DocInv, NEW zs, NEW ms, NEW d, NEW e, NEW between,
           Commit(zs, ms, d, e, between, TRUE), IsStack(zs), IsStack(ms), IsDocument(d)
    PROVE  DocInv'
<1>1. z' = zs /\ m' = ms /\ doc' = d /\ slipped' = TRUE
    BY DEF Commit
<1>2. star' = Starred(star, z.curr, zs.curr, z.saved) /\ star \in BOOLEAN
    BY DEF Commit, DocInv
<1>3. star' \in BOOLEAN
    BY <1>2, StarredIs
<1>4. stale' \in BOOLEAN
    BY DEF Commit, DocInv
<1> QED BY <1>1, <1>3, <1>4 DEF DocInv

\* An edit that gives a port the name of another.
LEMMA EditClashStep ==
    ASSUME DocInv, NEW tab, NEW q, NEW d, EditClash(tab, q, d), IsDocument(d)
    PROVE  DocInv'
<1> DEFINE x == Entry(q, Copy(doc, q), "null", tab)
           y == Blank(tab)
<1>1. ~slipped /\ z.curr + 1 <= Size
    BY DEF EditClash, Room
<1>2. IsStack(z) /\ IsStack(m) /\ z.curr \in Nat /\ m.curr = z.curr /\ Size \in Nat
    BY <1>1, Heights
<1>3. z.curr < Size /\ m.curr < Size
    BY <1>1, <1>2
<1>4. IsEntry(x) /\ x.isDefined = TRUE
    BY DEF Entry, IsEntry, IsFcn
<1>5. IsEntry(y) /\ y.isDefined = TRUE
    BY DEF Blank, Entry, IsEntry, IsFcn
<1>6. Snapshot(z, doc, q, "null", tab) = Push(z, x)
    BY SnapshotPushes
<1> HIDE DEF x
<1>7. LevelZ(Push(z, x), m, tab) = Push(z, x) /\ LevelM(Push(z, x), m, tab) = Push(m, y)
    BY <1>1, <1>3, <1>4, LevelUp
<1> HIDE DEF y
<1>8. Commit(Push(z, x), Push(m, y), d, meta, <<>>, TRUE)
    BY <1>6, <1>7 DEF EditClash
<1>9. Pushed(Push(z, x), z, x) /\ Pushed(Push(m, y), m, y)
    BY <1>2, <1>3, <1>4, <1>5, PushIs
<1>10. IsStack(Push(z, x)) /\ IsStack(Push(m, y))
    BY <1>9 DEF Pushed
<1> QED BY <1>8, <1>10, SlipStep

\* An operation that copies a node of each document.
LEMMA BothStep ==
    ASSUME DocInv, ~slipped, z.curr + 1 <= Size, NEW tab, NEW q, NEW p, NEW d, NEW e,
           NEW zs, NEW ms, zs = Snapshot(z, doc, q, "null", tab), ms = Snapshot(m, meta, p, "null", tab),
           Commit(LevelZ(zs, ms, tab), LevelM(zs, ms, tab), d, e, <<>>, FALSE),
           Differ(doc, d, q), Good(d), Differ(meta, e, p), IsMeta(e)
    PROVE  DocInv'
<1> DEFINE x == Entry(q, Copy(doc, q), "null", tab)
           y == Entry(p, Copy(meta, p), "null", tab)
<1>1. z.curr \in Nat /\ Size \in Nat /\ m.curr = z.curr /\ IsStack(z) /\ IsStack(m)
    BY Heights
<1>2. z.curr < Size /\ m.curr < Size
    BY <1>1
<1>3. IsEntry(x) /\ x.isDefined = TRUE /\ x.source = tab
    BY DEF Entry, IsEntry, IsFcn
<1>4. IsEntry(y) /\ y.isDefined = TRUE /\ y.source = tab
    BY DEF Entry, IsEntry, IsFcn
<1>5. Undoes(x, doc, d) /\ Undoes(y, meta, e)
    BY SnapshotUndoes
<1>6. zs = Push(z, x) /\ ms = Push(m, y)
    BY SnapshotPushes
<1> HIDE DEF x, y
<1>7. zs.curr = z.curr + 1 /\ ms.curr = z.curr + 1
    <2>1. Pushed(zs, z, x) /\ Pushed(ms, m, y)
        BY <1>1, <1>2, <1>3, <1>4, <1>6, PushIs
    <2> QED BY <1>1, <2>1 DEF Pushed
<1>8. LevelZ(zs, ms, tab) = zs /\ LevelM(zs, ms, tab) = ms
    <2>1. zs.curr >= ms.curr /\ ms.curr >= zs.curr
        BY <1>1, <1>7
    <2> QED BY <2>1, RaiseNone DEF LevelZ, LevelM
<1>9. Commit(Push(z, x), Push(m, y), d, e, <<>>, FALSE)
    BY <1>6, <1>8 DEF Commit
<1> QED BY <1>2, <1>3, <1>4, <1>5, <1>9, CommitStep

\* A field of the metadata changed.
LEMMA MetaField ==
    ASSUME IsMeta(meta), NEW f \in {"condPlugins", "outputGUIplugins"}, NEW v, NEW e,
           e = [meta EXCEPT ![f] = v]
    PROVE  IsMeta(e) /\ Differ(meta, e, Whole({f}))
<1>1. IsFcn(meta) /\ DOMAIN meta = {"condPlugins", "outputGUIplugins"}
    BY DEF IsMeta
<1>2. IsFcn(e) /\ DOMAIN e = DOMAIN meta /\ \A g \in DOMAIN meta \ {f} : meta[g] = e[g]
    BY <1>1 DEF IsFcn
<1> QED BY <1>1, <1>2, DifferWhole DEF IsMeta

\* One key of a field of the document changed.
LEMMA DifferKey ==
    ASSUME IsDocument(doc), NEW f \in Fields, IsFcn(doc[f]), NEW k \in DOMAIN doc[f], Named(k),
           NEW v, NEW d, Outside(doc, d, {f}), d[f] = Put(doc[f], k, v)
    PROVE  Differ(doc, d, Child(f, k))
<1>1. OneKeyApart(doc, d, f)
    BY DocumentIs DEF OneKeyApart, Outside
<1>2. OneKeyApart(doc[f], d[f], k)
    BY PutIs DEF OneKeyApart
<1> QED BY <1>1, <1>2, DifferChild

-----------------------------------------------------------------------------
(* Tab Conditions.                                                         *)

\* The conditions of the models changed, and nothing else of them.
CondsOnly(g, f) ==
    /\ IsFcn(g) /\ DOMAIN g = DOMAIN f
    /\ \A x \in DOMAIN f :
         /\ g[x] \in ModelType /\ g[x].dyn = f[x].dyn /\ g[x].obs = f[x].obs
         /\ g[x].in = f[x].in /\ g[x].out = f[x].out

LEMMA CondsSame ==
    ASSUME IsDocument(doc)
    PROVE  CondsOnly(doc.models, doc.models)
BY KeyedIs DEF CondsOnly, IsDocument

\* Conditions and models that agree.
LEMMA ConditionsGood ==
    ASSUME Good(doc), NEW e, Outside(doc, e, {"conditions", "models"}),
           Keyed(e.conditions, Conds), \A n \in DOMAIN e.conditions : e.conditions[n] \subseteq CondPorts,
           CondsOnly(e.models, doc.models),
           \A x \in DOMAIN doc.models : e.models[x].conds \subseteq DOMAIN e.conditions
    PROVE  Good(e)
<1>1. IsDocument(doc) /\ ReferencesIn(doc) /\ ConnectionsIn(doc)
    BY DEF Good
<1>2. /\ e.dynamics = doc.dynamics /\ e.views = doc.views /\ e.outputs = doc.outputs
      /\ e.observables = doc.observables /\ e.top = doc.top /\ e.connections = doc.connections
      /\ IsFcn(e) /\ DOMAIN e = Fields
    BY DEF Outside, Fields
<1>3. /\ IsFcn(e.models) /\ DOMAIN e.models = DOMAIN doc.models
      /\ \A x \in DOMAIN doc.models :
           /\ e.models[x] \in ModelType /\ e.models[x].dyn = doc.models[x].dyn
           /\ e.models[x].obs = doc.models[x].obs
           /\ e.models[x].in = doc.models[x].in /\ e.models[x].out = doc.models[x].out
    BY DEF CondsOnly
<1>4. Keyed(e, Fields) /\ Keyed(e.models, Models)
    BY <1>1, <1>2, <1>3, KeyedIs DEF IsDocument
<1>5. IsDocument(e)
    BY <1>1, <1>2, <1>3, <1>4 DEF IsDocument
<1>6. ReferencesIn(e)
    BY <1>1, <1>2, <1>3 DEF ReferencesIn
<1>7. SamePorts(doc, e)
    BY <1>2, <1>3 DEF SamePorts
<1>8. ConnectionsIn(e)
    BY <1>1, <1>2, <1>7, SameConnections
<1> QED BY <1>5, <1>6, <1>8 DEF Good

\* The same when only conditions change, and none is removed.
LEMMA ConditionsOnlyGood ==
    ASSUME Good(doc), NEW e, Outside(doc, e, {"conditions"}),
           Keyed(e.conditions, Conds), \A n \in DOMAIN e.conditions : e.conditions[n] \subseteq CondPorts,
           DOMAIN doc.conditions \subseteq DOMAIN e.conditions
    PROVE  Good(e)
<1>1. IsDocument(doc) /\ ReferencesIn(doc)
    BY DEF Good
<1>2. Outside(doc, e, {"conditions", "models"}) /\ e.models = doc.models
    BY DEF Outside, Fields
<1>3. CondsOnly(e.models, doc.models)
    BY <1>1, <1>2, CondsSame
<1>4. \A x \in DOMAIN doc.models : e.models[x].conds \subseteq DOMAIN e.conditions
    BY <1>1, <1>2 DEF ReferencesIn
<1> QED BY <1>2, <1>3, <1>4, ConditionsGood

\* A condition added with its ports.
LEMMA ConditionAdded ==
    ASSUME Good(doc), NEW n \in Conds, NEW ps \in SUBSET CondPorts, NEW d,
           n \notin DOMAIN doc.conditions,
           d = [doc EXCEPT !.conditions = With(doc.conditions, n, ps)]
    PROVE  Good(d) /\ Differ(doc, d, Whole({"conditions"}))
<1>1. IsDocument(doc) /\ IsFcn(doc) /\ DOMAIN doc = Fields
    BY DocumentIs DEF Good
<1>2. Outside(doc, d, {"conditions"}) /\ d.conditions = With(doc.conditions, n, ps)
    BY <1>1 DEF Outside, IsFcn, Fields
<1>3. /\ IsFcn(d.conditions) /\ DOMAIN d.conditions = DOMAIN doc.conditions \cup {n}
      /\ d.conditions[n] = ps
      /\ \A x \in DOMAIN doc.conditions \ {n} : d.conditions[x] = doc.conditions[x]
    <2>1. IsWith(d.conditions, doc.conditions, n, ps)
        BY <1>2, WithIs
    <2> QED BY <2>1 DEF IsWith
<1>4. DOMAIN doc.conditions \subseteq Conds /\ \A x \in DOMAIN doc.conditions : doc.conditions[x] \subseteq CondPorts
    BY <1>1, KeyedIs DEF IsDocument
<1>5. Keyed(d.conditions, Conds)
    BY <1>3, <1>4, KeyedIs
<1>6. \A x \in DOMAIN d.conditions : d.conditions[x] \subseteq CondPorts
    BY <1>3, <1>4
<1>7. Good(d)
    BY <1>2, <1>3, <1>5, <1>6, ConditionsOnlyGood
<1> QED BY <1>1, <1>2, <1>7, DifferFields

LEMMA AddConditionStep ==
    ASSUME DocInv, Good(doc), NEW n \in Conds, AddCondition(n)
    PROVE  DocInv'
<1> DEFINE d == [doc EXCEPT !.conditions = With(doc.conditions, n, {})]
<1>1. n \notin DOMAIN doc.conditions /\ Edit("Conditions", Whole({"conditions"}), d)
    BY DEF AddCondition
<1>2. Good(d) /\ Differ(doc, d, Whole({"conditions"}))
    BY <1>1, ConditionAdded
<1> HIDE DEF d
<1> QED BY <1>1, <1>2, EditStep

LEMMA AddConditionFromPluginStep ==
    ASSUME DocInv, Good(doc), NEW n \in Conds, AddConditionFromPlugin(n)
    PROVE  DocInv'
<1> DEFINE d == [doc EXCEPT !.conditions = With(doc.conditions, n, CondPorts)]
           plugins == SetCondGUIplugin(meta.condPlugins, n, Plugin)
           e == [meta EXCEPT !.condPlugins = plugins]
           zs == Snapshot(z, doc, Whole({"conditions"}), "null", "Conditions")
           ms == Snapshot(m, meta, Whole({"condPlugins"}), "null", "Conditions")
<1>1. ~slipped /\ z.curr + 1 <= Size /\ n \notin DOMAIN doc.conditions
    BY DEF AddConditionFromPlugin, Room
<1>2. Commit(LevelZ(zs, ms, "Conditions"), LevelM(zs, ms, "Conditions"), d, e, <<>>, FALSE)
    BY DEF AddConditionFromPlugin, SnapshotCondPlugins
<1>3. Good(d) /\ Differ(doc, d, Whole({"conditions"}))
    BY <1>1, ConditionAdded
<1>4. IsMeta(e) /\ Differ(meta, e, Whole({"condPlugins"}))
    <2>1. IsMeta(meta)
        BY <1>1, Heights
    <2> HIDE DEF plugins
    <2> QED BY <2>1, MetaField
<1>5. zs = Snapshot(z, doc, Whole({"conditions"}), "null", "Conditions") /\ ms = Snapshot(m, meta, Whole({"condPlugins"}), "null", "Conditions")
    OBVIOUS
<1> HIDE DEF d, e, zs, ms
<1> QED BY <1>1, <1>2, <1>3, <1>4, <1>5, BothStep

\* The ports of one condition changed.
LEMMA CondPortsChanged ==
    ASSUME Good(doc), NEW n \in DOMAIN doc.conditions, NEW ps \in SUBSET CondPorts, NEW d,
           d = [doc EXCEPT !.conditions[n] = ps]
    PROVE  Good(d) /\ Differ(doc, d, Child("conditions", n))
<1>1. IsDocument(doc) /\ IsFcn(doc) /\ DOMAIN doc = Fields
    BY DocumentIs DEF Good
<1>2. Outside(doc, d, {"conditions"}) /\ d.conditions = Put(doc.conditions, n, ps)
    BY <1>1 DEF Outside, IsFcn, Fields, Put
<1>3. /\ IsFcn(d.conditions) /\ DOMAIN d.conditions = DOMAIN doc.conditions
      /\ d.conditions[n] = ps
      /\ \A x \in DOMAIN doc.conditions \ {n} : d.conditions[x] = doc.conditions[x]
    BY <1>2, PutIs
<1>4. /\ DOMAIN doc.conditions \subseteq Conds /\ IsFcn(doc.conditions)
      /\ \A x \in DOMAIN doc.conditions : doc.conditions[x] \subseteq CondPorts
    BY <1>1, KeyedIs DEF IsDocument
<1>5. Keyed(d.conditions, Conds)
    BY <1>3, <1>4, KeyedIs
<1>6. \A x \in DOMAIN d.conditions : d.conditions[x] \subseteq CondPorts
    BY <1>3, <1>4
<1>7. Good(d)
    BY <1>2, <1>3, <1>5, <1>6, ConditionsOnlyGood
<1>8. Named(n)
    BY <1>4, NamesAssumption DEF Named, None
<1>9. Differ(doc, d, Child("conditions", n))
    BY <1>1, <1>2, <1>4, <1>8, DifferKey DEF Fields
<1> QED BY <1>7, <1>9

LEMMA CondPortStep ==
    ASSUME DocInv, Good(doc), NEW n \in DOMAIN doc.conditions, NEW ps \in SUBSET CondPorts, NEW d,
           d = [doc EXCEPT !.conditions[n] = ps], Edit("Conditions", Child("conditions", n), d)
    PROVE  DocInv'
BY CondPortsChanged, EditStep

LEMMA AddCondPortStep ==
    ASSUME DocInv, Good(doc), NEW n \in Conds, NEW p \in CondPorts, AddCondPort(n, p)
    PROVE  DocInv'
<1> DEFINE ps == doc.conditions[n] \cup {p}
           d == [doc EXCEPT !.conditions[n] = ps]
<1>1. n \in DOMAIN doc.conditions /\ Edit("Conditions", Child("conditions", n), d)
    BY DEF AddCondPort
<1>2. ps \in SUBSET CondPorts
    BY <1>1 DEF Good, IsDocument
<1>3. d = [doc EXCEPT !.conditions[n] = ps]
    OBVIOUS
<1> HIDE DEF d, ps
<1> QED BY <1>1, <1>2, <1>3, CondPortStep

LEMMA RenameCondPortStep ==
    ASSUME DocInv, Good(doc), NEW n \in Conds, NEW old \in CondPorts, NEW new \in CondPorts,
           RenameCondPort(n, old, new)
    PROVE  DocInv'
<1> DEFINE ps == RenamedIn(doc.conditions[n], old, new)
           d == [doc EXCEPT !.conditions[n] = ps]
<1>1. n \in DOMAIN doc.conditions /\ Edit("Conditions", Child("conditions", n), d)
    BY DEF RenameCondPort
<1>2. ps \in SUBSET CondPorts
    BY <1>1 DEF Good, IsDocument, RenamedIn
<1>3. d = [doc EXCEPT !.conditions[n] = ps]
    OBVIOUS
<1> HIDE DEF d, ps
<1> QED BY <1>1, <1>2, <1>3, CondPortStep

LEMMA RmCondPortStep ==
    ASSUME DocInv, Good(doc), NEW n \in Conds, NEW p \in CondPorts, RmCondPort(n, p)
    PROVE  DocInv'
<1> DEFINE ps == doc.conditions[n] \ {p}
           d == [doc EXCEPT !.conditions[n] = ps]
           q == Child("conditions", n)
           x == Entry(q, Copy(doc, q), "null", "Conditions")
<1>1. n \in DOMAIN doc.conditions /\ ~slipped /\ z.curr + 1 <= Size
    BY DEF RmCondPort, Room
<1>2. ps \in SUBSET CondPorts
    BY <1>1 DEF Good, IsDocument
<1>3. IsDocument(d)
    <2>1. d = [doc EXCEPT !.conditions[n] = ps]
        OBVIOUS
    <2> HIDE DEF d, ps
    <2>2. Good(d)
        BY <1>1, <1>2, <2>1, CondPortsChanged
    <2> QED BY <2>2 DEF Good
<1>4. IsStack(z) /\ IsStack(m) /\ z.curr \in Nat /\ Size \in Nat
    BY <1>1, Heights
<1>5. IsEntry(x)
    BY DEF Entry, IsEntry, IsFcn
<1>6. Snapshot(z, doc, q, "null", "Conditions") = Push(z, x)
    BY SnapshotPushes
<1>7. Commit(Push(z, x), m, d, meta, <<>>, TRUE)
    BY <1>6 DEF RmCondPort, Commit
<1> HIDE DEF x, d
<1>8. IsStack(Push(z, x))
    <2>1. z.curr < Size
        BY <1>1, <1>4
    <2> QED BY <1>4, <1>5, <2>1, PushIs DEF Pushed
<1> QED BY <1>3, <1>4, <1>7, <1>8, SlipStep

LEMMA RemoveCondGUIpluginStep ==
    ASSUME DocInv, Good(doc), NEW n \in Conds, RemoveCondGUIplugin(n)
    PROVE  DocInv'
<1> DEFINE plugins == SetCondGUIplugin(meta.condPlugins, n, None)
           e == [meta EXCEPT !.condPlugins = plugins]
           q == Whole({"condPlugins"})
           y == Entry(q, Copy(meta, q), "null", "Conditions")
           x == Blank("Conditions")
           ms == SnapshotCondPlugins(m)
<1>1. ~slipped /\ z.curr + 1 <= Size
    BY DEF RemoveCondGUIplugin, Room
<1>2. Commit(LevelZ(z, ms, "Conditions"), ms, doc, e, <<>>, FALSE)
    BY DEF RemoveCondGUIplugin
<1>3. IsStack(z) /\ IsStack(m) /\ z.curr \in Nat /\ m.curr = z.curr /\ Size \in Nat /\ IsMeta(meta)
    BY <1>1, Heights
<1>4. IsMeta(e) /\ Differ(meta, e, q)
    <2> HIDE DEF plugins
    <2> QED BY <1>3, MetaField
<1>5. IsEntry(x) /\ x.isDefined = TRUE /\ x.source = "Conditions"
    BY DEF Blank, Entry, IsEntry, IsFcn
<1>6. IsEntry(y) /\ y.isDefined = TRUE /\ y.source = "Conditions"
    BY DEF Entry, IsEntry, IsFcn
<1>7. IsFcn(doc)
    BY DocumentIs DEF Good
<1>8. Undoes(x, doc, doc) /\ Undoes(y, meta, e)
    BY <1>4, <1>7, BlankUndoes, SnapshotUndoes
<1>9. ms = Push(m, y)
    BY SnapshotPushes DEF SnapshotCondPlugins
<1> HIDE DEF ms, y, e
<1>10. z.curr < Size /\ m.curr < Size
    BY <1>1, <1>3
<1>11. ms.curr = z.curr + 1
    <2>1. Pushed(ms, m, y)
        BY <1>3, <1>6, <1>9, <1>10, PushIs
    <2> QED BY <1>3, <2>1 DEF Pushed
<1>12. LevelZ(z, ms, "Conditions") = Push(z, x)
    BY <1>3, <1>11, RaiseOne DEF LevelZ
<1>13. Commit(Push(z, x), Push(m, y), doc, e, <<>>, FALSE)
    BY <1>2, <1>9, <1>12 DEF Commit
<1> HIDE DEF x
<1> QED BY <1>1, <1>4, <1>5, <1>6, <1>8, <1>10, <1>13, CommitStep

\* A model whose conditions changed.
LEMMA CondsPut ==
    ASSUME NEW r \in ModelType, NEW cs \in SUBSET Conds
    PROVE  LET w == Put(r, "conds", cs)
           IN  /\ w \in ModelType /\ w.dyn = r.dyn /\ w.obs = r.obs
               /\ w.in = r.in /\ w.out = r.out /\ w.conds = cs
BY DEF Put, ModelType

\* Function g is f with the conditions of the models given by C.
CondsGiven(g, f, C) ==
    /\ IsFcn(g) /\ DOMAIN g = DOMAIN f
    /\ \A x \in DOMAIN f : C[x] \in SUBSET Conds /\ g[x] = Put(f[x], "conds", C[x])

HasConds(g, f, C) == \A x \in DOMAIN f : g[x].conds = C[x]

LEMMA CondsRewritten ==
    ASSUME IsDocument(doc), NEW g, NEW C, CondsGiven(g, doc.models, C)
    PROVE  CondsOnly(g, doc.models) /\ HasConds(g, doc.models, C)
<1>1. \A x \in DOMAIN doc.models : doc.models[x] \in ModelType
    BY DEF IsDocument
<1> QED BY <1>1, CondsPut DEF CondsOnly, CondsGiven, HasConds

\* Models that do not use the condition are not edited.
LEMMA DifferCondNodes ==
    ASSUME Good(doc), NEW n, NEW d, Outside(doc, d, {"conditions", "models"}),
           CondsOnly(d.models, doc.models),
           UsesCond(n) = {} => d.models = doc.models
    PROVE  Differ(doc, d, CondNodes(n))
<1>1. IsDocument(doc)
    BY DEF Good
<1>2. CASE UsesCond(n) = {}
    <2>1. Outside(doc, d, {"conditions"})
        BY <1>2 DEF Outside
    <2> QED BY <1>1, <1>2, <2>1, DifferFields DEF CondNodes
<1>3. CASE UsesCond(n) # {}
    BY <1>1, <1>3, DifferProject DEF CondNodes
<1> QED BY <1>2, <1>3

LEMMA ConditionRemoved ==
    ASSUME Good(doc), NEW n \in DOMAIN doc.conditions, NEW d, NEW g,
           d = [doc EXCEPT !.conditions = Without(doc.conditions, n), !.models = g],
           g = [x \in DOMAIN doc.models |-> [doc.models[x] EXCEPT !.conds = @ \ {n}]]
    PROVE  Good(d) /\ Differ(doc, d, CondNodes(n))
<1>1. IsDocument(doc) /\ ReferencesIn(doc) /\ IsFcn(doc) /\ DOMAIN doc = Fields
    BY DocumentIs DEF Good
<1>2. /\ Outside(doc, d, {"conditions", "models"}) /\ d.models = g
      /\ d.conditions = Without(doc.conditions, n)
    BY <1>1 DEF Outside, IsFcn, Fields
<1> DEFINE C == [x \in DOMAIN doc.models |-> doc.models[x].conds \ {n}]
<1>3. \A x \in DOMAIN doc.models : doc.models[x] \in ModelType
    BY <1>1 DEF IsDocument
<1>4. \A x \in DOMAIN doc.models : C[x] \in SUBSET Conds
    BY <1>3 DEF ModelType
<1>5. IsFcn(g) /\ DOMAIN g = DOMAIN doc.models
    BY DEF IsFcn
<1>6. \A x \in DOMAIN doc.models : g[x] = Put(doc.models[x], "conds", C[x])
    BY DEF Put
<1>7. \A x \in DOMAIN doc.models : C[x] = doc.models[x].conds \ {n}
    OBVIOUS
<1> HIDE DEF C
<1>8. CondsOnly(d.models, doc.models) /\ \A x \in DOMAIN doc.models : d.models[x].conds = C[x]
    <2>1. CondsGiven(g, doc.models, C)
        BY <1>4, <1>5, <1>6 DEF CondsGiven
    <2>2. CondsOnly(g, doc.models) /\ HasConds(g, doc.models, C)
        BY <1>1, <2>1, CondsRewritten
    <2> QED BY <1>2, <2>2 DEF HasConds
<1>9. IsWithout(d.conditions, doc.conditions, n)
    BY <1>2, WithoutIs
<1>10. DOMAIN doc.conditions \subseteq Conds /\ \A k \in DOMAIN doc.conditions : doc.conditions[k] \subseteq CondPorts
    BY <1>1, KeyedIs DEF IsDocument
<1>11. Keyed(d.conditions, Conds)
    BY <1>9, <1>10, KeyedIs DEF IsWithout
<1>12. \A k \in DOMAIN d.conditions : d.conditions[k] \subseteq CondPorts
    BY <1>9, <1>10 DEF IsWithout
<1>13. \A x \in DOMAIN doc.models : d.models[x].conds \subseteq DOMAIN d.conditions
    BY <1>1, <1>7, <1>8, <1>9 DEF IsWithout, ReferencesIn
<1>14. Good(d)
    BY <1>2, <1>8, <1>11, <1>12, <1>13, ConditionsGood
<1>15. ASSUME UsesCond(n) = {} PROVE d.models = doc.models
    <2>1. \A x \in DOMAIN doc.models : n \notin doc.models[x].conds
        BY <1>15 DEF UsesCond
    <2>2. \A x \in DOMAIN doc.models : g[x] = doc.models[x]
        <3>1. ASSUME NEW r \in ModelType PROVE Put(r, "conds", r.conds) = r
            BY DEF Put, ModelType
        <3>2. \A x \in DOMAIN doc.models : C[x] = doc.models[x].conds
            BY <1>7, <2>1
        <3> QED BY <1>3, <1>6, <3>1, <3>2
    <2>3. IsFcn(doc.models)
        BY <1>1, KeyedIs DEF IsDocument
    <2> QED BY <1>2, <1>5, <2>2, <2>3, SameFunction
<1>16. Differ(doc, d, CondNodes(n))
    BY <1>2, <1>8, <1>15, DifferCondNodes
<1> QED BY <1>14, <1>16

LEMMA ConditionRenamed ==
    ASSUME Good(doc), NEW old \in DOMAIN doc.conditions, NEW new \in Conds, NEW d, NEW g,
           new \notin DOMAIN doc.conditions,
           d = [doc EXCEPT !.conditions = Renamed(doc.conditions, old, new), !.models = g],
           g = [x \in DOMAIN doc.models |-> [doc.models[x] EXCEPT !.conds = RenamedIn(@, old, new)]]
    PROVE  Good(d) /\ Differ(doc, d, CondNodes(old))
<1>1. IsDocument(doc) /\ ReferencesIn(doc) /\ IsFcn(doc) /\ DOMAIN doc = Fields
    BY DocumentIs DEF Good
<1>2. /\ Outside(doc, d, {"conditions", "models"}) /\ d.models = g
      /\ d.conditions = Renamed(doc.conditions, old, new)
    BY <1>1 DEF Outside, IsFcn, Fields
<1> DEFINE C == [x \in DOMAIN doc.models |-> RenamedIn(doc.models[x].conds, old, new)]
<1>3. \A x \in DOMAIN doc.models : doc.models[x] \in ModelType
    BY <1>1 DEF IsDocument
<1>4. \A x \in DOMAIN doc.models : C[x] \in SUBSET Conds
    BY <1>3 DEF ModelType, RenamedIn
<1>5. IsFcn(g) /\ DOMAIN g = DOMAIN doc.models
    BY DEF IsFcn
<1>6. \A x \in DOMAIN doc.models : g[x] = Put(doc.models[x], "conds", C[x])
    BY DEF Put
<1>7. \A x \in DOMAIN doc.models : C[x] = RenamedIn(doc.models[x].conds, old, new)
    OBVIOUS
<1> HIDE DEF C
<1>8. CondsOnly(d.models, doc.models) /\ \A x \in DOMAIN doc.models : d.models[x].conds = C[x]
    <2>1. CondsGiven(g, doc.models, C)
        BY <1>4, <1>5, <1>6 DEF CondsGiven
    <2>2. CondsOnly(g, doc.models) /\ HasConds(g, doc.models, C)
        BY <1>1, <2>1, CondsRewritten
    <2> QED BY <1>2, <2>2 DEF HasConds
<1>9. IsRenamed(d.conditions, doc.conditions, old, new)
    BY <1>2, RenamedIs
<1>10. DOMAIN doc.conditions \subseteq Conds /\ \A k \in DOMAIN doc.conditions : doc.conditions[k] \subseteq CondPorts
    BY <1>1, KeyedIs DEF IsDocument
<1>11. Keyed(d.conditions, Conds)
    BY <1>9, <1>10, KeyedIs DEF IsRenamed
<1>12. \A k \in DOMAIN d.conditions : d.conditions[k] \subseteq CondPorts
    BY <1>9, <1>10 DEF IsRenamed
<1>13. \A x \in DOMAIN doc.models : d.models[x].conds \subseteq DOMAIN d.conditions
    <2>1. \A x \in DOMAIN doc.models : doc.models[x].conds \subseteq DOMAIN doc.conditions
        BY <1>1 DEF ReferencesIn
    <2>2. DOMAIN d.conditions = (DOMAIN doc.conditions \ {old}) \cup {new}
        BY <1>9 DEF IsRenamed
    <2> QED BY <1>7, <1>8, <2>1, <2>2 DEF RenamedIn
<1>14. Good(d)
    BY <1>2, <1>8, <1>11, <1>12, <1>13, ConditionsGood
<1>15. ASSUME UsesCond(old) = {} PROVE d.models = doc.models
    <2>1. \A x \in DOMAIN doc.models : old \notin doc.models[x].conds
        BY <1>15 DEF UsesCond
    <2>2. \A x \in DOMAIN doc.models : g[x] = doc.models[x]
        <3>1. ASSUME NEW r \in ModelType PROVE Put(r, "conds", r.conds) = r
            BY DEF Put, ModelType
        <3>2. \A x \in DOMAIN doc.models : C[x] = doc.models[x].conds
            BY <1>7, <2>1 DEF RenamedIn
        <3> QED BY <1>3, <1>6, <3>1, <3>2
    <2>3. IsFcn(doc.models)
        BY <1>1, KeyedIs DEF IsDocument
    <2> QED BY <1>2, <1>5, <2>2, <2>3, SameFunction
<1>16. Differ(doc, d, CondNodes(old))
    BY <1>2, <1>8, <1>15, DifferCondNodes
<1> QED BY <1>14, <1>16

LEMMA RmConditionStep ==
    ASSUME DocInv, Good(doc), NEW n \in Conds, RmCondition(n)
    PROVE  DocInv'
<1> DEFINE g == [x \in DOMAIN doc.models |-> [doc.models[x] EXCEPT !.conds = @ \ {n}]]
           d == [doc EXCEPT !.conditions = Without(doc.conditions, n), !.models = g]
           plugged == PluginOf(meta.condPlugins, n) # None
           e == IF plugged
                THEN [meta EXCEPT !.condPlugins = SetCondGUIplugin(meta.condPlugins, n, None)] ELSE meta
           q == CondNodes(n)
           x == Entry(q, Copy(doc, q), "null", "Conditions")
           y == Blank("Conditions")
           zs == Snapshot(z, doc, q, "null", "Conditions")
           ms == LevelM(zs, m, "Conditions")
<1>1. n \in DOMAIN doc.conditions /\ ~slipped /\ z.curr + 2 <= Size
    BY DEF RmCondition, Room
<1>2. Commit(LevelZ(zs, m, "Conditions"), IF plugged THEN SnapshotCondPlugins(ms) ELSE ms,
             d, e, <<>>, plugged)
    BY DEF RmCondition
<1>3. Good(d) /\ Differ(doc, d, q)
    <2>1. d = [doc EXCEPT !.conditions = Without(doc.conditions, n), !.models = g]
        OBVIOUS
    <2>2. g = [v \in DOMAIN doc.models |-> [doc.models[v] EXCEPT !.conds = @ \ {n}]]
        OBVIOUS
    <2> HIDE DEF d, g
    <2> QED BY <1>1, <2>1, <2>2, ConditionRemoved
<1> HIDE DEF d
<1>4. /\ IsStack(z) /\ IsStack(m) /\ z.curr \in Nat /\ m.curr = z.curr /\ Size \in Nat
      /\ IsMeta(meta) /\ IsFcn(meta)
    BY <1>1, Heights
<1>5. z.curr < Size /\ m.curr < Size /\ z.curr + 1 < Size
    BY <1>1, <1>4
<1>6. IsEntry(x) /\ x.isDefined = TRUE /\ x.source = "Conditions"
    BY DEF Entry, IsEntry, IsFcn
<1>7. IsEntry(y) /\ y.isDefined = TRUE /\ y.source = "Conditions"
    BY DEF Blank, Entry, IsEntry, IsFcn
<1>8. zs = Push(z, x)
    BY SnapshotPushes
<1>9. Undoes(x, doc, d) /\ Undoes(y, meta, meta)
    BY <1>3, <1>4, SnapshotUndoes, BlankUndoes
<1> HIDE DEF x, zs
<1>10. LevelZ(zs, m, "Conditions") = Push(z, x) /\ ms = Push(m, y)
    BY <1>1, <1>5, <1>6, <1>8, LevelUp
<1> HIDE DEF y, ms
<1>11. CASE plugged
    <2> DEFINE w == Entry(Whole({"condPlugins"}), Copy(meta, Whole({"condPlugins"})), "null", "Conditions")
    <2>1. IsEntry(w)
        BY DEF Entry, IsEntry, IsFcn
    <2>2. SnapshotCondPlugins(ms) = Push(ms, w)
        BY SnapshotPushes DEF SnapshotCondPlugins
    <2> HIDE DEF w
    <2>3. Pushed(ms, m, y)
        BY <1>4, <1>5, <1>7, <1>10, PushIs
    <2>4. IsStack(ms) /\ ms.curr = z.curr + 1
        BY <1>4, <2>3 DEF Pushed
    <2>5. Pushed(Push(ms, w), ms, w)
        BY <1>5, <2>1, <2>4, PushIs
    <2>6. Pushed(Push(z, x), z, x)
        BY <1>4, <1>5, <1>6, PushIs
    <2>7. IsStack(Push(z, x)) /\ IsStack(Push(ms, w)) /\ IsDocument(d)
        BY <1>3, <2>5, <2>6 DEF Pushed, Good
    <2> HIDE DEF e
    <2>8. Commit(Push(z, x), Push(ms, w), d, e, <<>>, TRUE)
        BY <1>2, <1>10, <1>11, <2>2 DEF Commit
    <2> QED BY <2>7, <2>8, SlipStep
<1>12. CASE ~plugged
    <2>1. e = meta
        BY <1>12
    <2> HIDE DEF e
    <2>2. Commit(Push(z, x), Push(m, y), d, meta, <<>>, FALSE)
        BY <1>2, <1>10, <1>12, <2>1 DEF Commit
    <2> QED BY <1>1, <1>3, <1>4, <1>5, <1>6, <1>7, <1>9, <2>2, CommitStep
<1> QED BY <1>11, <1>12

LEMMA AppendGrows ==
    ASSUME NEW T, NEW v \in Seq(T), NEW o \in T, NEW c \in Nat, Len(v) = c + 2
    PROVE  Grows(v, Append(v, o), c + 1, o)
<1> DEFINE u == Append(v, o)
<1>1. u \in Seq(T) /\ Len(u) = Len(v) + 1 /\ u[Len(v) + 1] = o /\ \A j \in 1 .. Len(v) : u[j] = v[j]
    OBVIOUS
<1>2. Len(v) + 1 = (c + 1) + 2 /\ Len(v) = (c + 1) + 1
    OBVIOUS
<1> HIDE DEF u
<1>3. Grows(v, u, c + 1, o)
    BY <1>1, <1>2 DEF Grows, IsSeq
<1> QED BY <1>3 DEF u

\* The trail of an operation that makes two entries.
LEMMA TrailGrowsTwice ==
    ASSUME NEW t, IsSeq(t), NEW c \in Nat, c < Len(t), NEW p, NEW o, NEW u,
           u = SubSeq(t, 1, c + 1) \o <<p>> \o <<o>>
    PROVE  \E v : Grows(t, v, c, p) /\ Grows(v, u, c + 1, o)
<1>1. PICK S : t \in Seq(S)
    BY DEF IsSeq
<1> DEFINE w == SubSeq(t, 1, c + 1)
           T == S \cup {p, o}
           v == w \o <<>> \o <<p>>
<1>2. w \in Seq(T) /\ Len(w) = c + 1
    <2>1. Len(t) \in Nat /\ c + 1 <= Len(t)
        BY <1>1
    <2>2. w \in Seq(T)
        BY <1>1, <2>1
    <2>3. Len(w) = c + 1
        BY <1>1, <2>1
    <2> QED BY <2>2, <2>3
<1>3. p \in T /\ o \in T
    OBVIOUS
<1>4. Grows(t, v, c, p)
    BY TrailGrows
<1>5. v = Append(w, p) /\ u = Append(v, o)
    <2> HIDE DEF w, T
    <2>1. w \o <<>> = w
        BY <1>2
    <2>2. v = Append(w, p)
        BY <1>2, <1>3, <2>1
    <2>3. u = v \o <<o>>
        BY <2>1 DEF w
    <2>4. v \in Seq(T)
        BY <1>2, <1>3, <2>2
    <2> HIDE DEF v
    <2> QED BY <1>3, <2>2, <2>3, <2>4
<1> HIDE DEF w, T, v
<1>6. v \in Seq(T) /\ Len(v) = c + 2
    BY <1>2, <1>3, <1>5
<1>7. Grows(v, Append(v, o), c + 1, o)
    BY <1>3, <1>6, AppendGrows
<1>8. Grows(v, u, c + 1, o)
    BY <1>5, <1>7
<1> QED BY <1>4, <1>8

LEMMA RenameConditionStep ==
    ASSUME DocInv, Good(doc), NEW old \in Conds, NEW new \in Conds, RenameCondition(old, new)
    PROVE  DocInv'
<1> DEFINE g == [x \in DOMAIN doc.models |-> [doc.models[x] EXCEPT !.conds = RenamedIn(@, old, new)]]
           d == [doc EXCEPT !.conditions = Renamed(doc.conditions, old, new), !.models = g]
           entry == EntryOf(meta.condPlugins, old)
           e == IF entry = 0 THEN meta ELSE [meta EXCEPT !.condPlugins[entry][1] = new]
           q == CondNodes(old)
           p == Whole({"condPlugins"})
           x == Entry(q, Copy(doc, q), "null", "Conditions")
           y == Blank("Conditions")
           w == Entry(p, Copy(meta, p), "null", "Conditions")
           zs == Snapshot(z, doc, q, "null", "Conditions")
           ms == SnapshotCondPlugins(LevelM(zs, m, "Conditions"))
<1>1. /\ old \in DOMAIN doc.conditions /\ new \notin DOMAIN doc.conditions
      /\ ~slipped /\ z.curr + 2 <= Size
    BY DEF RenameCondition, Room
<1>2. Commit(LevelZ(zs, ms, "Conditions"), ms, d, e, <<Pair(d, meta)>>, FALSE)
    BY DEF RenameCondition
<1>3. Good(d) /\ Differ(doc, d, q)
    <2>1. d = [doc EXCEPT !.conditions = Renamed(doc.conditions, old, new), !.models = g]
        OBVIOUS
    <2>2. g = [v \in DOMAIN doc.models |-> [doc.models[v] EXCEPT !.conds = RenamedIn(@, old, new)]]
        OBVIOUS
    <2> HIDE DEF d, g
    <2> QED BY <1>1, <2>1, <2>2, ConditionRenamed
<1> HIDE DEF d
<1>4. /\ IsStack(z) /\ IsStack(m) /\ z.curr \in Nat /\ m.curr = z.curr /\ Size \in Nat
      /\ IsMeta(meta) /\ IsFcn(meta) /\ Held(doc, meta, z, m, trail)
    BY <1>1, Heights
<1>5. z.curr < Size /\ m.curr < Size /\ z.curr + 1 < Size
    BY <1>1, <1>4
<1>6. IsMeta(e) /\ Differ(meta, e, p)
    <2>1. CASE entry = 0
        BY <1>4, <2>1, DifferWhole
    <2>2. CASE entry # 0
        <3> DEFINE plugins == [meta.condPlugins EXCEPT ![entry][1] = new]
        <3>1. e = [meta EXCEPT !.condPlugins = plugins]
            BY <2>2
        <3> HIDE DEF plugins, e
        <3> QED BY <1>4, <3>1, MetaField
    <2> QED BY <2>1, <2>2
<1> HIDE DEF e
<1>7. IsEntry(x) /\ x.isDefined = TRUE /\ x.source = "Conditions"
    BY DEF Entry, IsEntry, IsFcn
<1>8. IsEntry(y) /\ y.isDefined = TRUE /\ y.source = "Conditions"
    BY DEF Blank, Entry, IsEntry, IsFcn
<1>9. IsEntry(w) /\ w.isDefined = TRUE /\ w.source = "Conditions"
    BY DEF Entry, IsEntry, IsFcn
<1>10. zs = Push(z, x)
    BY SnapshotPushes
<1>11. Undoes(x, doc, d) /\ Undoes(y, meta, meta)
    BY <1>3, <1>4, SnapshotUndoes, BlankUndoes
<1>12. Undoes(y, d, d) /\ Undoes(w, meta, e)
    <2>1. IsFcn(d)
        BY <1>3, DocumentIs DEF Good
    <2> QED BY <1>6, <2>1, SnapshotUndoes, BlankUndoes
<1>13. SnapshotCondPlugins(Push(m, y)) = Push(Push(m, y), w)
    BY SnapshotPushes DEF SnapshotCondPlugins
<1> HIDE DEF x, w, zs
<1>14. LevelM(zs, m, "Conditions") = Push(m, y)
    BY <1>1, <1>5, <1>7, <1>10, LevelUp
<1>15. ms = Push(Push(m, y), w)
    BY <1>13, <1>14
<1>16. Pushed(Push(z, x), z, x) /\ Pushed(Push(m, y), m, y)
    BY <1>4, <1>5, <1>7, <1>8, PushIs
<1> DEFINE s1 == Push(z, x)
           r1 == Push(m, y)
<1>17. IsStack(s1) /\ IsStack(r1) /\ s1.curr = z.curr + 1 /\ r1.curr = z.curr + 1 /\ s1.saved = z.saved
    BY <1>4, <1>16 DEF Pushed
<1> HIDE DEF s1, r1, ms
<1>18. Pushed(Push(s1, y), s1, y) /\ Pushed(Push(r1, w), r1, w)
    BY <1>5, <1>8, <1>9, <1>17, PushIs
<1>19. ms = Push(r1, w) /\ ms.curr = s1.curr + 1 /\ zs = s1
    BY <1>4, <1>10, <1>15, <1>17, <1>18 DEF r1, s1, Pushed
<1>20. LevelZ(zs, ms, "Conditions") = Push(s1, y)
    BY <1>4, <1>17, <1>19, RaiseOne DEF LevelZ, y
<1>21. Commit(Push(s1, y), Push(r1, w), d, e, <<Pair(d, meta)>>, FALSE)
    BY <1>2, <1>19, <1>20 DEF Commit
<1>22. Push(s1, y).curr = z.curr + 2 /\ Push(s1, y).saved = z.saved /\ IsStack(Push(s1, y)) /\ IsStack(Push(r1, w))
    BY <1>4, <1>17, <1>18 DEF Pushed
<1>23. /\ z' = Push(s1, y) /\ m' = Push(r1, w) /\ doc' = d /\ meta' = e
       /\ star' = Starred(star, z.curr, z'.curr, z.saved)
       /\ stale' = (stale \/ (z'.curr > z.curr /\ z.curr < z.saved))
       /\ slipped' = FALSE /\ file' = file
    BY <1>21 DEF Commit
<1>24. trail' = SubSeq(trail, 1, z.curr + 1) \o <<Pair(d, meta)>> \o <<Pair(d, e)>>
    <2>1. Push(s1, y).curr # z.curr
        BY <1>4, <1>22
    <2> QED BY <1>21, <2>1 DEF Commit
<1>25. IsSeq(trail) /\ z.curr < Len(trail)
    BY <1>4, HeldTypes DEF Held
<1>26. PICK v : Grows(trail, v, z.curr, Pair(d, meta)) /\ Grows(v, trail', z.curr + 1, Pair(d, e))
    BY <1>4, <1>24, <1>25, TrailGrowsTwice
<1>27. Held(d, meta, s1, r1, v)
    BY <1>3, <1>4, <1>5, <1>7, <1>8, <1>11, <1>26, PushHeld DEF s1, r1
<1>28. Held(d, e, z', m', trail')
    BY <1>3, <1>5, <1>6, <1>8, <1>9, <1>12, <1>17, <1>23, <1>26, <1>27, PushHeld
<1>29. star' \in BOOLEAN /\ stale' \in BOOLEAN
    BY <1>23, StarredIs DEF DocInv
<1>30. ASSUME ~stale' PROVE SavedAt(z', star', file', trail')
    <2>1. ~stale /\ ~(z'.curr > z.curr /\ z.curr < z.saved)
        BY <1>23, <1>30
    <2>2. SavedAt(z, star, file, trail)
        BY <1>1, <2>1 DEF DocInv
    <2>3. z.saved \in Nat
        BY <1>4, HeldTypes
    <2>4. z.saved <= z.curr /\ z'.curr > z.curr /\ z'.curr \in Nat /\ z'.saved = z.saved
        BY <1>4, <1>22, <1>23, <2>1, <2>3
    <2>5. Len(v) = z.curr + 2 /\ \A j \in 1 .. z.curr + 1 : v[j] = trail[j]
        BY <1>26 DEF Grows
    <2>6. Len(trail') = (z.curr + 1) + 2 /\ \A j \in 1 .. (z.curr + 1) + 1 : trail'[j] = v[j]
        BY <1>26 DEF Grows
    <2>7. \A j \in 1 .. z.curr + 1 : j \in 1 .. (z.curr + 1) + 1
        BY <1>4
    <2>8. \A j \in 1 .. z.curr + 1 : trail'[j] = trail[j]
        BY <2>5, <2>6, <2>7
    <2>9. Len(trail') \in Nat /\ z'.curr < Len(trail')
        BY <1>4, <1>22, <1>23, <2>6
    <2> QED BY <1>4, <1>23, <2>2, <2>3, <2>4, <2>8, <2>9, SavedBelow
<1> QED BY <1>3, <1>22, <1>23, <1>28, <1>29, <1>30 DEF DocInv, Good

-----------------------------------------------------------------------------
(* Tab Views.                                                              *)

\* Observables whose ports are attached to views of set V.
ObservablesOf(g, V) ==
    /\ Keyed(g, Obs)
    /\ \A n \in DOMAIN g : Keyed(g[n], ObsPorts) /\ \A p \in DOMAIN g[n] : g[n][p] \subseteq V

\* Outputs of the views of set V.
OutputsOf(g, V) ==
    IsFcn(g) /\ DOMAIN g = V /\ \A v \in V : g[v] \in Outputs

LEMMA DocumentViews ==
    ASSUME Good(doc)
    PROVE  ObservablesOf(doc.observables, doc.views) /\ OutputsOf(doc.outputs, doc.views)
BY KeyedIs DEF Good, IsDocument, ReferencesIn, ObservablesOf, OutputsOf

\* Views, outputs and observables that agree.
LEMMA ViewsGood ==
    ASSUME Good(doc), NEW e, Outside(doc, e, {"views", "outputs", "observables"}),
           e.views \subseteq Views, OutputsOf(e.outputs, e.views),
           ObservablesOf(e.observables, e.views), DOMAIN e.observables = DOMAIN doc.observables
    PROVE  Good(e)
<1>1. IsDocument(doc) /\ ReferencesIn(doc) /\ ConnectionsIn(doc)
    BY DEF Good
<1>2. /\ e.dynamics = doc.dynamics /\ e.conditions = doc.conditions /\ e.models = doc.models
      /\ e.top = doc.top /\ e.connections = doc.connections /\ IsFcn(e) /\ DOMAIN e = Fields
    BY DEF Outside, Fields
<1>3. Keyed(e, Fields) /\ Keyed(e.outputs, Views)
    BY <1>2, KeyedIs DEF OutputsOf
<1>4. IsDocument(e)
    BY <1>1, <1>2, <1>3 DEF IsDocument, OutputsOf, ObservablesOf
<1>5. ReferencesIn(e)
    BY <1>1, <1>2 DEF ReferencesIn, OutputsOf, ObservablesOf
<1>6. SamePorts(doc, e)
    BY <1>2 DEF SamePorts
<1>7. ConnectionsIn(e)
    BY <1>1, <1>2, <1>6, SameConnections
<1> QED BY <1>4, <1>5, <1>7 DEF Good

LEMMA EditViewsStep ==
    ASSUME DocInv, Good(doc), NEW d, NEW plugins, EditViews(d, plugins), Good(d),
           Outside(doc, d, {"views", "outputs", "observables"})
    PROVE  DocInv'
<1> DEFINE e == [meta EXCEPT !.outputGUIplugins = plugins]
           zs == Snapshot(z, doc, ViewsNode, "null", "Views")
           ms == Snapshot(m, meta, Whole({"outputGUIplugins"}), "null", "Views")
<1>1. ~slipped /\ z.curr + 1 <= Size
    BY DEF EditViews, Room
<1>2. Commit(LevelZ(zs, ms, "Views"), LevelM(zs, ms, "Views"), d, e, <<>>, FALSE)
    BY DEF EditViews
<1>3. Differ(doc, d, ViewsNode)
    BY DifferFields DEF Good, ViewsNode
<1>4. IsMeta(e) /\ Differ(meta, e, Whole({"outputGUIplugins"}))
    <2>1. IsMeta(meta)
        BY <1>1, Heights
    <2> QED BY <2>1, MetaField
<1>5. zs = Snapshot(z, doc, ViewsNode, "null", "Views") /\ ms = Snapshot(m, meta, Whole({"outputGUIplugins"}), "null", "Views")
    OBVIOUS
<1> HIDE DEF e, zs, ms
<1> QED BY <1>1, <1>2, <1>3, <1>4, <1>5, BothStep

\* A view replaced in the observables by those of a set.
LEMMA AttachedViewsIs ==
    ASSUME Good(doc), NEW old, NEW new, NEW V, (doc.views \ {old}) \cup new \subseteq V
    PROVE  /\ ObservablesOf(AttachedViews(old, new), V)
           /\ DOMAIN AttachedViews(old, new) = DOMAIN doc.observables
<1> DEFINE g == AttachedViews(old, new)
<1>1. ObservablesOf(doc.observables, doc.views)
    BY DocumentViews
<1>2. IsFcn(g) /\ DOMAIN g = DOMAIN doc.observables
    BY DEF AttachedViews, IsFcn
<1>3. \A o \in DOMAIN doc.observables :
        IsFcn(g[o]) /\ DOMAIN g[o] = DOMAIN doc.observables[o]
    BY DEF AttachedViews, IsFcn
<1>4. ASSUME NEW o \in DOMAIN doc.observables, NEW p \in DOMAIN doc.observables[o]
      PROVE  g[o][p] \subseteq V
    <2>1. doc.observables[o][p] \subseteq doc.views
        BY <1>1 DEF ObservablesOf
    <2>2. g[o][p] = IF old \in doc.observables[o][p]
                    THEN (doc.observables[o][p] \ {old}) \cup new ELSE doc.observables[o][p]
        BY DEF AttachedViews
    <2> QED BY <2>1, <2>2
<1> HIDE DEF g
<1>5. Keyed(g, Obs) /\ \A o \in DOMAIN g : Keyed(g[o], ObsPorts)
    BY <1>1, <1>2, <1>3, KeyedIs DEF ObservablesOf
<1>6. ObservablesOf(g, V)
    BY <1>2, <1>3, <1>4, <1>5 DEF ObservablesOf
<1> QED BY <1>2, <1>6 DEF g

LEMMA AddViewStep ==
    ASSUME DocInv, Good(doc), NEW v \in Views, AddView(v)
    PROVE  DocInv'
<1> DEFINE d == [doc EXCEPT !.views = doc.views \cup {v}, !.outputs = With(doc.outputs, v, "vle.output")]
           plugins == SetOutputGUIplugin(meta.outputGUIplugins, v, GuiOf("vle.output"))
<1>1. v \notin doc.views /\ EditViews(d, plugins)
    BY DEF AddView
<1>2. IsDocument(doc) /\ IsFcn(doc) /\ DOMAIN doc = Fields
    BY DocumentIs DEF Good
<1>3. /\ Outside(doc, d, {"views", "outputs", "observables"}) /\ d.views = doc.views \cup {v}
      /\ d.outputs = With(doc.outputs, v, "vle.output") /\ d.observables = doc.observables
    BY <1>2 DEF Outside, IsFcn, Fields
<1> HIDE DEF d, plugins
<1>4. ObservablesOf(doc.observables, doc.views) /\ OutputsOf(doc.outputs, doc.views)
    BY DocumentViews
<1>5. IsWith(d.outputs, doc.outputs, v, "vle.output")
    BY <1>3, WithIs
<1>6. OutputsOf(d.outputs, d.views)
    BY <1>1, <1>3, <1>4, <1>5, NamesAssumption DEF OutputsOf, IsWith
<1>7. ObservablesOf(d.observables, d.views)
    BY <1>3, <1>4 DEF ObservablesOf
<1>8. d.views \subseteq Views
    BY <1>2, <1>3 DEF IsDocument
<1>9. Good(d)
    BY <1>3, <1>6, <1>7, <1>8, ViewsGood
<1> QED BY <1>1, <1>3, <1>9, EditViewsStep

LEMMA RmViewStep ==
    ASSUME DocInv, Good(doc), NEW v \in Views, RmView(v)
    PROVE  DocInv'
<1> DEFINE d == [doc EXCEPT !.views = doc.views \ {v}, !.outputs = Without(doc.outputs, v),
                            !.observables = AttachedViews(v, {})]
<1>1. Edit("Views", ViewsNode, d)
    BY DEF RmView
<1>2. IsDocument(doc) /\ IsFcn(doc) /\ DOMAIN doc = Fields
    BY DocumentIs DEF Good
<1>3. /\ Outside(doc, d, {"views", "outputs", "observables"}) /\ d.views = doc.views \ {v}
      /\ d.outputs = Without(doc.outputs, v) /\ d.observables = AttachedViews(v, {})
    BY <1>2 DEF Outside, IsFcn, Fields
<1> HIDE DEF d
<1>4. OutputsOf(doc.outputs, doc.views)
    BY DocumentViews
<1>5. IsWithout(d.outputs, doc.outputs, v)
    BY <1>3, WithoutIs
<1>6. OutputsOf(d.outputs, d.views)
    BY <1>3, <1>4, <1>5 DEF OutputsOf, IsWithout
<1>7. ObservablesOf(d.observables, d.views) /\ DOMAIN d.observables = DOMAIN doc.observables
    <2>1. (doc.views \ {v}) \cup {} \subseteq d.views
        BY <1>3
    <2> QED BY <1>3, <2>1, AttachedViewsIs
<1>8. d.views \subseteq Views
    BY <1>2, <1>3 DEF IsDocument
<1>9. Good(d)
    BY <1>3, <1>6, <1>7, <1>8, ViewsGood
<1>10. Differ(doc, d, ViewsNode)
    BY <1>2, <1>3, DifferFields DEF ViewsNode
<1> QED BY <1>1, <1>9, <1>10, EditStep

LEMMA RenameViewStep ==
    ASSUME DocInv, Good(doc), NEW old \in Views, NEW new \in Views, RenameView(old, new)
    PROVE  DocInv'
<1> DEFINE d == [doc EXCEPT !.views = (doc.views \ {old}) \cup {new},
                            !.outputs = Renamed(doc.outputs, old, new),
                            !.observables = AttachedViews(old, {new})]
           removed == SetOutputGUIplugin(meta.outputGUIplugins, old, None)
           plugins == SetOutputGUIplugin(removed, new, PluginOf(meta.outputGUIplugins, old))
<1>1. old \in doc.views /\ new \notin doc.views /\ EditViews(d, plugins)
    BY DEF RenameView
<1>2. IsDocument(doc) /\ IsFcn(doc) /\ DOMAIN doc = Fields
    BY DocumentIs DEF Good
<1>3. /\ Outside(doc, d, {"views", "outputs", "observables"}) /\ d.views = (doc.views \ {old}) \cup {new}
      /\ d.outputs = Renamed(doc.outputs, old, new) /\ d.observables = AttachedViews(old, {new})
    BY <1>2 DEF Outside, IsFcn, Fields
<1> HIDE DEF d, plugins
<1>4. OutputsOf(doc.outputs, doc.views)
    BY DocumentViews
<1>5. IsRenamed(d.outputs, doc.outputs, old, new)
    BY <1>3, RenamedIs
<1>6. OutputsOf(d.outputs, d.views)
    BY <1>1, <1>3, <1>4, <1>5 DEF OutputsOf, IsRenamed
<1>7. ObservablesOf(d.observables, d.views) /\ DOMAIN d.observables = DOMAIN doc.observables
    <2>1. (doc.views \ {old}) \cup {new} \subseteq d.views
        BY <1>3
    <2> QED BY <1>3, <2>1, AttachedViewsIs
<1>8. d.views \subseteq Views
    BY <1>2, <1>3 DEF IsDocument
<1>9. Good(d)
    BY <1>3, <1>6, <1>7, <1>8, ViewsGood
<1> QED BY <1>1, <1>3, <1>9, EditViewsStep

LEMMA SetOutputPluginStep ==
    ASSUME DocInv, Good(doc), NEW v \in Views, NEW output \in Outputs, SetOutputPlugin(v, output)
    PROVE  DocInv'
<1> DEFINE d == [doc EXCEPT !.outputs[v] = output]
           plugins == SetOutputGUIplugin(meta.outputGUIplugins, v, GuiOf(output))
<1>1. v \in doc.views /\ EditViews(d, plugins)
    BY DEF SetOutputPlugin
<1>2. IsDocument(doc) /\ IsFcn(doc) /\ DOMAIN doc = Fields
    BY DocumentIs DEF Good
<1>3. /\ Outside(doc, d, {"views", "outputs", "observables"}) /\ d.views = doc.views
      /\ d.outputs = Put(doc.outputs, v, output) /\ d.observables = doc.observables
    BY <1>2 DEF Outside, IsFcn, Fields, Put
<1> HIDE DEF d, plugins
<1>4. ObservablesOf(doc.observables, doc.views) /\ OutputsOf(doc.outputs, doc.views)
    BY DocumentViews
<1>5. OutputsOf(d.outputs, d.views)
    BY <1>1, <1>3, <1>4, PutIs DEF OutputsOf
<1>6. d.views \subseteq Views
    BY <1>2, <1>3 DEF IsDocument
<1>7. Good(d)
    BY <1>3, <1>4, <1>5, <1>6, ViewsGood
<1> QED BY <1>1, <1>3, <1>7, EditViewsStep

-----------------------------------------------------------------------------
(* Tab Observables.                                                        *)

\* Observables changed, and the models that name one of them.
LEMMA ObservablesTyped ==
    ASSUME Good(doc), NEW e, Outside(doc, e, {"observables", "models"}),
           ObservablesOf(e.observables, doc.views),
           NEW xs, NEW v \in Obs \cup {None}, Rewritten(e.models, doc.models, xs, "obs", v)
    PROVE  /\ IsDocument(e) /\ ConnectionsIn(e)
           /\ (/\ v \in DOMAIN e.observables \cup {None}
               /\ \A x \in DOMAIN doc.models \ xs :
                    doc.models[x].obs \in DOMAIN e.observables \cup {None}) => Good(e)
<1>1. IsDocument(doc) /\ ReferencesIn(doc) /\ ConnectionsIn(doc)
    BY DEF Good
<1>2. /\ e.dynamics = doc.dynamics /\ e.conditions = doc.conditions /\ e.views = doc.views
      /\ e.outputs = doc.outputs /\ e.top = doc.top /\ e.connections = doc.connections
      /\ IsFcn(e) /\ DOMAIN e = Fields
    BY DEF Outside, Fields
<1>3. \A x \in DOMAIN doc.models : doc.models[x] \in ModelType
    BY <1>1 DEF IsDocument
<1>4. IsFcn(e.models) /\ DOMAIN e.models = DOMAIN doc.models
    BY DEF Rewritten
<1>5. \A x \in DOMAIN doc.models :
        /\ e.models[x] \in ModelType /\ e.models[x].conds = doc.models[x].conds
        /\ e.models[x].dyn = doc.models[x].dyn
        /\ e.models[x].in = doc.models[x].in /\ e.models[x].out = doc.models[x].out
        /\ e.models[x].obs = IF x \in xs THEN v ELSE doc.models[x].obs
    BY <1>3, ObsRewritten
<1>6. Keyed(e, Fields) /\ Keyed(e.models, Models)
    BY <1>1, <1>2, <1>4, KeyedIs DEF IsDocument
<1>7. \A n \in DOMAIN e.observables : \A p \in DOMAIN e.observables[n] : e.observables[n][p] \subseteq Views
    BY <1>1 DEF ObservablesOf, IsDocument
<1>8. IsDocument(e)
    BY <1>1, <1>2, <1>4, <1>5, <1>6, <1>7 DEF IsDocument, ObservablesOf
<1>9. SamePorts(doc, e)
    BY <1>2, <1>4, <1>5 DEF SamePorts
<1>10. ConnectionsIn(e)
    BY <1>1, <1>2, <1>9, SameConnections
<1>11. ASSUME v \in DOMAIN e.observables \cup {None},
              \A x \in DOMAIN doc.models \ xs : doc.models[x].obs \in DOMAIN e.observables \cup {None}
       PROVE  ReferencesIn(e)
    BY <1>1, <1>2, <1>4, <1>5, <1>11 DEF ReferencesIn, ObservablesOf
<1> QED BY <1>8, <1>10, <1>11 DEF Good

\* Only observables changed, and none is removed.
LEMMA ObservablesGood ==
    ASSUME Good(doc), NEW e, Outside(doc, e, {"observables"}), ObservablesOf(e.observables, doc.views),
           DOMAIN doc.observables \subseteq DOMAIN e.observables
    PROVE  Good(e) /\ Differ(doc, e, ObsNode)
<1>1. IsDocument(doc) /\ ReferencesIn(doc)
    BY DEF Good
<1>2. Outside(doc, e, {"observables", "models"}) /\ e.models = doc.models
    BY DEF Outside, Fields
<1>3. Rewritten(e.models, doc.models, {}, "obs", None)
    BY <1>1, <1>2, KeyedIs DEF Rewritten, IsDocument
<1>4. \A x \in DOMAIN doc.models \ {} : doc.models[x].obs \in DOMAIN e.observables \cup {None}
    BY <1>1 DEF ReferencesIn
<1>5. Good(e)
    BY <1>2, <1>3, <1>4, ObservablesTyped
<1> QED BY <1>1, <1>5, DifferFields DEF ObsNode

LEMMA AddObservableStep ==
    ASSUME DocInv, Good(doc), NEW n \in Obs, AddObservable(n)
    PROVE  DocInv'
<1> DEFINE d == [doc EXCEPT !.observables = With(doc.observables, n, <<>>)]
<1>1. n \notin DOMAIN doc.observables /\ Edit("Observables", ObsNode, d)
    BY DEF AddObservable
<1>2. IsFcn(doc) /\ DOMAIN doc = Fields
    BY DocumentIs DEF Good
<1>3. Outside(doc, d, {"observables"}) /\ d.observables = With(doc.observables, n, <<>>)
    BY <1>2 DEF Outside, IsFcn, Fields
<1> HIDE DEF d
<1>4. ObservablesOf(doc.observables, doc.views)
    BY DocumentViews
<1>5. IsWith(d.observables, doc.observables, n, <<>>)
    BY <1>3, WithIs
<1>6. IsFcn(<<>>) /\ DOMAIN <<>> = {}
    BY DEF IsFcn
<1>7. Keyed(<<>>, ObsPorts)
    BY <1>6, KeyedIs
<1>8. /\ IsFcn(d.observables) /\ DOMAIN d.observables = DOMAIN doc.observables \cup {n}
      /\ d.observables[n] = <<>>
      /\ \A o \in DOMAIN doc.observables \ {n} : d.observables[o] = doc.observables[o]
    BY <1>5 DEF IsWith
<1>9. Keyed(d.observables, Obs)
    BY <1>4, <1>8, KeyedIs DEF ObservablesOf
<1>10. ObservablesOf(d.observables, doc.views)
    BY <1>4, <1>6, <1>7, <1>8, <1>9 DEF ObservablesOf
<1>11. Good(d) /\ Differ(doc, d, ObsNode)
    BY <1>3, <1>8, <1>10, ObservablesGood
<1> QED BY <1>1, <1>11, EditStep

\* Models that do not name the observable are not edited.
LEMMA ObsUnused ==
    ASSUME Good(doc), NEW d, NEW v, Rewritten(d.models, doc.models, {}, "obs", v)
    PROVE  d.models = doc.models
<1>1. IsFcn(doc.models)
    BY KeyedIs DEF Good, IsDocument
<1> QED BY <1>1, SameFunction DEF Rewritten

LEMMA RmObservableStep ==
    ASSUME DocInv, Good(doc), NEW n \in Obs, RmObservable(n)
    PROVE  DocInv'
<1>1. n \in DOMAIN doc.observables /\ ~slipped /\ z.curr + 1 <= Size
    BY DEF RmObservable, Room
<1> DEFINE zs == Snapshot(z, doc, ObsNode, "null", "Observables")
           D(first) == [doc EXCEPT !.observables = Without(doc.observables, n),
                                   !.models = ModelsWith(UsesObs(n) \cap {first}, "obs", None)]
           used == UsesObs(n) # {}
<1>2. PICK first : Commit(LevelZ(zs, m, "Observables"), LevelM(zs, m, "Observables"), D(first), meta, <<>>, used)
    BY DEF RmObservable
<1> DEFINE xs == UsesObs(n) \cap {first}
           d == D(first)
           x == Entry(ObsNode, Copy(doc, ObsNode), "null", "Observables")
           y == Blank("Observables")
<1>3. IsDocument(doc) /\ ReferencesIn(doc) /\ IsFcn(doc) /\ DOMAIN doc = Fields
    BY DocumentIs DEF Good
<1>4. /\ Outside(doc, d, {"observables", "models"}) /\ d.observables = Without(doc.observables, n)
      /\ d.models = ModelsWith(xs, "obs", None)
    BY <1>3 DEF Outside, IsFcn, Fields
<1> HIDE DEF d, D
<1>5. Rewritten(d.models, doc.models, xs, "obs", None)
    BY <1>4, ModelsWithIs
<1> HIDE DEF xs
<1>6. IsWithout(d.observables, doc.observables, n) /\ ObservablesOf(doc.observables, doc.views)
    BY <1>4, WithoutIs, DocumentViews
<1>7. Keyed(d.observables, Obs)
    BY <1>6, KeyedIs DEF ObservablesOf, IsWithout
<1>8. ObservablesOf(d.observables, doc.views)
    BY <1>6, <1>7 DEF ObservablesOf, IsWithout
<1>9. IsDocument(d)
    BY <1>4, <1>5, <1>8, ObservablesTyped
<1>10. IsStack(z) /\ IsStack(m) /\ z.curr \in Nat /\ m.curr = z.curr /\ Size \in Nat /\ IsMeta(meta) /\ IsFcn(meta)
    BY <1>1, Heights
<1>11. z.curr < Size /\ m.curr < Size
    BY <1>1, <1>10
<1>12. IsEntry(x) /\ x.isDefined = TRUE /\ x.source = "Observables"
    BY DEF Entry, IsEntry, IsFcn
<1>13. IsEntry(y) /\ y.isDefined = TRUE /\ y.source = "Observables"
    BY DEF Blank, Entry, IsEntry, IsFcn
<1>14. zs = Push(z, x)
    BY SnapshotPushes
<1> HIDE DEF zs
<1>15. Differ(doc, d, ObsNode) => Undoes(x, doc, d)
    BY SnapshotUndoes
<1>16. Undoes(y, meta, meta)
    BY <1>10, BlankUndoes
<1> HIDE DEF x
<1>17. LevelZ(zs, m, "Observables") = Push(z, x) /\ LevelM(zs, m, "Observables") = Push(m, y)
    BY <1>1, <1>11, <1>12, <1>14, LevelUp
<1> HIDE DEF y
<1>18. CASE used
    <2>1. Pushed(Push(z, x), z, x) /\ Pushed(Push(m, y), m, y)
        BY <1>10, <1>11, <1>12, <1>13, PushIs
    <2>2. IsStack(Push(z, x)) /\ IsStack(Push(m, y))
        BY <2>1 DEF Pushed
    <2>3. Commit(Push(z, x), Push(m, y), d, meta, <<>>, TRUE)
        BY <1>2, <1>17, <1>18 DEF Commit, d
    <2> QED BY <1>9, <2>2, <2>3, SlipStep
<1>19. CASE ~used
    <2>1. xs = {}
        BY <1>19 DEF xs
    <2>2. \A w \in DOMAIN doc.models \ xs : doc.models[w].obs \in DOMAIN d.observables \cup {None}
        BY <1>3, <1>6, <1>19 DEF ReferencesIn, UsesObs, IsWithout
    <2>3. Good(d)
        BY <1>4, <1>5, <1>8, <2>2, ObservablesTyped
    <2>4. d.models = doc.models
        BY <1>5, <2>1, ObsUnused
    <2>5. Outside(doc, d, {"observables"})
        BY <1>4, <2>4 DEF Outside
    <2>6. Differ(doc, d, ObsNode)
        BY <1>3, <2>5, DifferFields DEF ObsNode
    <2>7. Commit(Push(z, x), Push(m, y), d, meta, <<>>, FALSE)
        BY <1>2, <1>17, <1>19 DEF Commit, d
    <2> QED BY <1>1, <1>10, <1>11, <1>12, <1>13, <1>15, <1>16, <2>3, <2>6, <2>7, CommitStep
<1> QED BY <1>18, <1>19

LEMMA RenameObservableStep ==
    ASSUME DocInv, Good(doc), NEW old \in Obs, NEW new \in Obs, RenameObservable(old, new)
    PROVE  DocInv'
<1> DEFINE xs == UsesObs(old)
           d == [doc EXCEPT !.observables = Renamed(doc.observables, old, new),
                            !.models = ModelsWith(xs, "obs", new)]
           q == IF xs = {} THEN ObsNode ELSE Project
<1>1. /\ old \in DOMAIN doc.observables /\ new \notin DOMAIN doc.observables
      /\ Edit("Observables", q, d)
    BY DEF RenameObservable
<1>2. IsDocument(doc) /\ ReferencesIn(doc) /\ IsFcn(doc) /\ DOMAIN doc = Fields
    BY DocumentIs DEF Good
<1>3. /\ Outside(doc, d, {"observables", "models"}) /\ d.observables = Renamed(doc.observables, old, new)
      /\ d.models = ModelsWith(xs, "obs", new)
    BY <1>2 DEF Outside, IsFcn, Fields
<1> HIDE DEF d
<1>4. Rewritten(d.models, doc.models, xs, "obs", new)
    BY <1>3, ModelsWithIs
<1>5. IsRenamed(d.observables, doc.observables, old, new) /\ ObservablesOf(doc.observables, doc.views)
    BY <1>3, RenamedIs, DocumentViews
<1>6. Keyed(d.observables, Obs)
    BY <1>5, KeyedIs DEF ObservablesOf, IsRenamed
<1>7. ObservablesOf(d.observables, doc.views)
    BY <1>1, <1>5, <1>6 DEF ObservablesOf, IsRenamed
<1>8. \A w \in DOMAIN doc.models \ xs : doc.models[w].obs \in DOMAIN d.observables \cup {None}
    BY <1>2, <1>5 DEF ReferencesIn, UsesObs, IsRenamed
<1>9. new \in DOMAIN d.observables \cup {None} /\ new \in Obs \cup {None}
    BY <1>5 DEF IsRenamed
<1>10. Good(d)
    BY <1>3, <1>4, <1>7, <1>8, <1>9, ObservablesTyped
<1>11. Differ(doc, d, q)
    <2>1. CASE xs = {}
        <3>1. d.models = doc.models
            BY <1>4, <2>1, ObsUnused
        <3>2. Outside(doc, d, {"observables"})
            BY <1>3, <3>1 DEF Outside
        <3> QED BY <1>2, <2>1, <3>2, DifferFields DEF ObsNode
    <2>2. CASE xs # {}
        BY <1>2, <1>3, <2>2, DifferProject
    <2> QED BY <2>1, <2>2
<1> HIDE DEF q
<1> QED BY <1>1, <1>10, <1>11, EditStep

\* The ports of one observable changed.
LEMMA ObservablePut ==
    ASSUME DocInv, Good(doc), NEW n \in DOMAIN doc.observables, NEW h, NEW d,
           Keyed(h, ObsPorts), \A p \in DOMAIN h : h[p] \subseteq doc.views,
           d = [doc EXCEPT !.observables[n] = h]
    PROVE  Good(d) /\ Differ(doc, d, ObsNode)
<1>1. IsFcn(doc) /\ DOMAIN doc = Fields
    BY DocumentIs DEF Good
<1>2. Outside(doc, d, {"observables"}) /\ d.observables = Put(doc.observables, n, h)
    BY <1>1 DEF Outside, IsFcn, Fields, Put
<1>3. ObservablesOf(doc.observables, doc.views)
    BY DocumentViews
<1>4. /\ IsFcn(d.observables) /\ DOMAIN d.observables = DOMAIN doc.observables /\ d.observables[n] = h
      /\ \A o \in DOMAIN doc.observables \ {n} : d.observables[o] = doc.observables[o]
    BY <1>2, PutIs
<1>5. Keyed(d.observables, Obs)
    BY <1>3, <1>4, KeyedIs DEF ObservablesOf
<1>6. ObservablesOf(d.observables, doc.views)
    BY <1>3, <1>4, <1>5 DEF ObservablesOf
<1> QED BY <1>2, <1>4, <1>6, ObservablesGood

LEMMA ObservableStep ==
    ASSUME DocInv, Good(doc), NEW n \in DOMAIN doc.observables, NEW h, NEW d,
           Keyed(h, ObsPorts), \A p \in DOMAIN h : h[p] \subseteq doc.views,
           d = [doc EXCEPT !.observables[n] = h], Edit("Observables", ObsNode, d)
    PROVE  DocInv'
BY ObservablePut, EditStep

LEMMA AddObsPortStep ==
    ASSUME DocInv, Good(doc), NEW n \in Obs, NEW p \in ObsPorts, AddObsPort(n, p)
    PROVE  DocInv'
<1> DEFINE f == doc.observables[n]
           h == With(f, p, {})
           d == [doc EXCEPT !.observables[n] = h]
<1>1. n \in DOMAIN doc.observables /\ p \notin DOMAIN f /\ Edit("Observables", ObsNode, d)
    BY DEF AddObsPort
<1>2. d = [doc EXCEPT !.observables[n] = h]
    OBVIOUS
<1>3. IsFcn(f) /\ DOMAIN f \subseteq ObsPorts /\ \A k \in DOMAIN f : f[k] \subseteq doc.views
    BY <1>1, DocumentViews, KeyedIs DEF ObservablesOf
<1> HIDE DEF d, f
<1>4. IsWith(h, f, p, {})
    BY WithIs
<1> HIDE DEF h
<1>5. Keyed(h, ObsPorts)
    BY <1>3, <1>4, KeyedIs DEF IsWith
<1>6. \A k \in DOMAIN h : h[k] \subseteq doc.views
    BY <1>3, <1>4 DEF IsWith
<1> QED BY <1>1, <1>2, <1>5, <1>6, ObservableStep

LEMMA RenameObsPortStep ==
    ASSUME DocInv, Good(doc), NEW n \in Obs, NEW old \in ObsPorts, NEW new \in ObsPorts, RenameObsPort(n, old, new)
    PROVE  DocInv'
<1> DEFINE f == doc.observables[n]
           h == Renamed(f, old, new)
           d == [doc EXCEPT !.observables[n] = h]
<1>1. n \in DOMAIN doc.observables /\ old \in DOMAIN f
    BY DEF RenameObsPort
<1>0. Edit("Observables", ObsNode, d) \/ EditClash("Observables", ObsNode, d)
    BY DEF RenameObsPort
<1>2. d = [doc EXCEPT !.observables[n] = h]
    OBVIOUS
<1>3. IsFcn(f) /\ DOMAIN f \subseteq ObsPorts /\ \A k \in DOMAIN f : f[k] \subseteq doc.views
    BY <1>1, DocumentViews, KeyedIs DEF ObservablesOf
<1> HIDE DEF d, f
<1>4. IsRenamed(h, f, old, new)
    BY RenamedIs
<1> HIDE DEF h
<1>5. Keyed(h, ObsPorts)
    BY <1>1, <1>3, <1>4, KeyedIs DEF IsRenamed
<1>6. \A k \in DOMAIN h : h[k] \subseteq doc.views
    BY <1>1, <1>3, <1>4 DEF IsRenamed
<1>7. Good(d) /\ Differ(doc, d, ObsNode)
    BY <1>1, <1>2, <1>5, <1>6, ObservablePut
<1>8. IsDocument(d)
    BY <1>7 DEF Good
<1> QED BY <1>0, <1>7, <1>8, EditStep, EditClashStep

LEMMA RmObsPortStep ==
    ASSUME DocInv, Good(doc), NEW n \in Obs, NEW p \in ObsPorts, RmObsPort(n, p)
    PROVE  DocInv'
<1> DEFINE f == doc.observables[n]
           h == Without(f, p)
           d == [doc EXCEPT !.observables[n] = h]
<1>1. n \in DOMAIN doc.observables /\ p \in DOMAIN f /\ Edit("Observables", ObsNode, d)
    BY DEF RmObsPort
<1>2. d = [doc EXCEPT !.observables[n] = h]
    OBVIOUS
<1>3. IsFcn(f) /\ DOMAIN f \subseteq ObsPorts /\ \A k \in DOMAIN f : f[k] \subseteq doc.views
    BY <1>1, DocumentViews, KeyedIs DEF ObservablesOf
<1> HIDE DEF d, f
<1>4. IsWithout(h, f, p)
    BY WithoutIs
<1> HIDE DEF h
<1>5. Keyed(h, ObsPorts)
    BY <1>3, <1>4, KeyedIs DEF IsWithout
<1>6. \A k \in DOMAIN h : h[k] \subseteq doc.views
    BY <1>3, <1>4 DEF IsWithout
<1> QED BY <1>1, <1>2, <1>5, <1>6, ObservableStep

LEMMA AttachViewStep ==
    ASSUME DocInv, Good(doc), NEW n \in Obs, NEW p \in ObsPorts, NEW v \in Views, AttachView(n, p, v)
    PROVE  DocInv'
<1> DEFINE f == doc.observables[n]
           h == Put(f, p, f[p] \cup {v})
           d == [doc EXCEPT !.observables[n] = h]
<1>1. n \in DOMAIN doc.observables /\ p \in DOMAIN f /\ v \in doc.views /\ Edit("Observables", ObsNode, d)
    BY DEF AttachView, Put
<1>2. d = [doc EXCEPT !.observables[n] = h]
    OBVIOUS
<1>3. IsFcn(f) /\ DOMAIN f \subseteq ObsPorts /\ \A k \in DOMAIN f : f[k] \subseteq doc.views
    BY <1>1, DocumentViews, KeyedIs DEF ObservablesOf
<1> HIDE DEF d, f
<1>4. /\ IsFcn(h) /\ DOMAIN h = DOMAIN f /\ h[p] = f[p] \cup {v}
      /\ \A k \in DOMAIN f \ {p} : h[k] = f[k]
    BY <1>1, PutIs
<1> HIDE DEF h
<1>5. Keyed(h, ObsPorts)
    BY <1>3, <1>4, KeyedIs
<1>6. \A k \in DOMAIN h : h[k] \subseteq doc.views
    BY <1>1, <1>3, <1>4
<1> QED BY <1>1, <1>2, <1>5, <1>6, ObservableStep

LEMMA RmViewToObsPortStep ==
    ASSUME DocInv, Good(doc), NEW n \in Obs, NEW p \in ObsPorts, NEW v \in Views, RmViewToObsPort(n, p, v)
    PROVE  DocInv'
<1> DEFINE f == doc.observables[n]
           h == Put(f, p, f[p] \ {v})
           d == [doc EXCEPT !.observables[n] = h]
<1>1. n \in DOMAIN doc.observables /\ p \in DOMAIN f /\ Edit("Observables", ObsNode, d)
    BY DEF RmViewToObsPort, Put
<1>2. d = [doc EXCEPT !.observables[n] = h]
    OBVIOUS
<1>3. IsFcn(f) /\ DOMAIN f \subseteq ObsPorts /\ \A k \in DOMAIN f : f[k] \subseteq doc.views
    BY <1>1, DocumentViews, KeyedIs DEF ObservablesOf
<1> HIDE DEF d, f
<1>4. /\ IsFcn(h) /\ DOMAIN h = DOMAIN f /\ h[p] = f[p] \ {v}
      /\ \A k \in DOMAIN f \ {p} : h[k] = f[k]
    BY <1>1, PutIs
<1> HIDE DEF h
<1>5. Keyed(h, ObsPorts)
    BY <1>3, <1>4, KeyedIs
<1>6. \A k \in DOMAIN h : h[k] \subseteq doc.views
    BY <1>1, <1>3, <1>4
<1> QED BY <1>1, <1>2, <1>5, <1>6, ObservableStep

-----------------------------------------------------------------------------
(* Tab Diagram.                                                            *)

\* A model whose names are in the document.
ModelIn(r) ==
    /\ r \in ModelType /\ r.dyn \in doc.dynamics \cup {None}
    /\ r.conds \subseteq DOMAIN doc.conditions /\ r.obs \in DOMAIN doc.observables \cup {None}

LEMMA DocumentModels ==
    ASSUME Good(doc)
    PROVE  /\ IsFcn(doc.models) /\ DOMAIN doc.models \subseteq Models
           /\ \A x \in DOMAIN doc.models : ModelIn(doc.models[x])
           /\ \A x \in DOMAIN doc.models : Named(x) /\ x # Top
<1>1. IsFcn(doc.models) /\ DOMAIN doc.models \subseteq Models
    BY KeyedIs DEF Good, IsDocument
<1>2. \A x \in DOMAIN doc.models : ModelIn(doc.models[x])
    BY DEF Good, IsDocument, ReferencesIn, ModelIn
<1>3. \A x \in DOMAIN doc.models : Named(x) /\ x # Top
    BY <1>1, NamesAssumption DEF Named, None
<1> QED BY <1>1, <1>2, <1>3

\* The parts of the diagram that agree.
LEMMA DiagramGood ==
    ASSUME Good(doc), NEW e, Outside(doc, e, {"top", "models", "connections"}),
           e.top \in [in : SUBSET Ports, out : SUBSET Ports],
           IsFcn(e.models), DOMAIN e.models \subseteq Models,
           \A x \in DOMAIN e.models : ModelIn(e.models[x]),
           e.connections \subseteq ConnectionType, ConnectionsIn(e)
    PROVE  Good(e) /\ Differ(doc, e, Coupled)
<1>1. IsDocument(doc) /\ ReferencesIn(doc)
    BY DEF Good
<1>2. /\ e.dynamics = doc.dynamics /\ e.conditions = doc.conditions /\ e.views = doc.views
      /\ e.outputs = doc.outputs /\ e.observables = doc.observables
      /\ IsFcn(e) /\ DOMAIN e = Fields
    BY DEF Outside, Fields
<1>3. Keyed(e, Fields) /\ Keyed(e.models, Models)
    BY <1>2, KeyedIs
<1>4. IsDocument(e)
    BY <1>1, <1>2, <1>3 DEF IsDocument, ModelIn
<1>5. ReferencesIn(e)
    BY <1>1, <1>2 DEF ReferencesIn, ModelIn
<1>6. Good(e)
    BY <1>4, <1>5 DEF Good
<1> QED BY <1>1, <1>6, DifferFields DEF Coupled

LEMMA DocumentDiagram ==
    ASSUME Good(doc)
    PROVE  /\ IsFcn(doc) /\ DOMAIN doc = Fields /\ IsDocument(doc) /\ ConnectionsIn(doc)
           /\ doc.top \in [in : SUBSET Ports, out : SUBSET Ports]
           /\ doc.connections \subseteq ConnectionType
BY DocumentIs DEF Good, IsDocument

\* One model changed, but for its ports.
LEMMA ModelChanged ==
    ASSUME Good(doc), NEW x \in DOMAIN doc.models, NEW r, ModelIn(r),
           r.in = doc.models[x].in, r.out = doc.models[x].out,
           NEW d, Outside(doc, d, {"models"}), d.models = Put(doc.models, x, r)
    PROVE  Good(d) /\ Differ(doc, d, Child("models", x))
<1>1. /\ IsFcn(doc.models) /\ DOMAIN doc.models \subseteq Models /\ Named(x)
      /\ \A y \in DOMAIN doc.models : ModelIn(doc.models[y])
    BY DocumentModels
<1>2. /\ IsDocument(doc) /\ ConnectionsIn(doc) /\ doc.top \in [in : SUBSET Ports, out : SUBSET Ports]
      /\ doc.connections \subseteq ConnectionType
    BY DocumentDiagram
<1>3. d.top = doc.top /\ d.connections = doc.connections /\ Outside(doc, d, {"top", "models", "connections"})
    BY DEF Outside, Fields
<1>4. /\ IsFcn(d.models) /\ DOMAIN d.models = DOMAIN doc.models /\ d.models[x] = r
      /\ \A y \in DOMAIN doc.models \ {x} : d.models[y] = doc.models[y]
    BY PutIs
<1>5. \A y \in DOMAIN d.models : ModelIn(d.models[y])
    BY <1>1, <1>4
<1>6. SamePorts(doc, d)
    BY <1>3, <1>4 DEF SamePorts
<1>7. ConnectionsIn(d)
    BY <1>2, <1>3, <1>6, SameConnections
<1>8. Good(d)
    BY <1>1, <1>2, <1>3, <1>4, <1>5, <1>7, DiagramGood
<1>9. Differ(doc, d, Child("models", x))
    BY <1>1, <1>2, DifferKey DEF Fields
<1> QED BY <1>8, <1>9

\* One attribute of one model changed, but for its ports.
LEMMA AttributeChanged ==
    ASSUME Good(doc), NEW x \in DOMAIN doc.models, NEW attr \in {"dyn", "conds", "obs", "at"}, NEW v,
           ModelIn(Put(doc.models[x], attr, v)), NEW d, d = [doc EXCEPT !.models[x][attr] = v]
    PROVE  /\ Good(d) /\ Differ(doc, d, Child("models", x))
           /\ d = Put(doc, "models", Put(doc.models, x, Put(doc.models[x], attr, v)))
<1> DEFINE r == Put(doc.models[x], attr, v)
<1>1. IsFcn(doc) /\ DOMAIN doc = Fields
    BY DocumentDiagram
<1>2. ModelIn(doc.models[x])
    BY DocumentModels
<1>3. r.in = doc.models[x].in /\ r.out = doc.models[x].out
    BY <1>2 DEF Put, ModelIn, ModelType
<1>4. d = Put(doc, "models", Put(doc.models, x, r))
    BY DEF Put
<1> HIDE DEF r
<1>5. IsFcn(d) /\ DOMAIN d = Fields /\ d["models"] = Put(doc.models, x, r) /\ \A f \in Fields \ {"models"} : d[f] = doc[f]
    BY <1>1, <1>4, PutIs DEF Fields
<1>6. Outside(doc, d, {"models"}) /\ d.models = Put(doc.models, x, r)
    BY <1>5 DEF Outside
<1>7. ModelIn(r)
    BY DEF r
<1>8. Good(d) /\ Differ(doc, d, Child("models", x))
    BY <1>3, <1>6, <1>7, ModelChanged
<1> QED BY <1>4, <1>8 DEF r

LEMMA SetDynStep ==
    ASSUME DocInv, Good(doc), NEW x, NEW n \in doc.dynamics \cup {None}, SetDynToAtomicModel(x, n)
    PROVE  DocInv'
<1> DEFINE d == [doc EXCEPT !.models[x]["dyn"] = n]
<1>1. x \in DOMAIN doc.models /\ Edit("Diagram", Child("models", x), d)
    BY DEF SetDynToAtomicModel
<1>2. ModelIn(doc.models[x]) /\ doc.dynamics \subseteq Dyns
    BY <1>1, DocumentModels DEF Good, IsDocument
<1>3. ModelIn(Put(doc.models[x], "dyn", n))
    BY <1>2 DEF Put, ModelIn, ModelType
<1>4. Good(d) /\ Differ(doc, d, Child("models", x))
    BY <1>1, <1>3, AttributeChanged
<1> HIDE DEF d
<1> QED BY <1>1, <1>4, EditStep

LEMMA SetObsStep ==
    ASSUME DocInv, Good(doc), NEW x, NEW n \in DOMAIN doc.observables \cup {None}, SetObsToAtomicModel(x, n)
    PROVE  DocInv'
<1> DEFINE d == [doc EXCEPT !.models[x]["obs"] = n]
<1>1. x \in DOMAIN doc.models /\ Edit("Diagram", Child("models", x), d)
    BY DEF SetObsToAtomicModel
<1>2. ModelIn(doc.models[x]) /\ DOMAIN doc.observables \subseteq Obs
    BY <1>1, DocumentModels, KeyedIs DEF Good, IsDocument
<1>3. ModelIn(Put(doc.models[x], "obs", n))
    BY <1>2 DEF Put, ModelIn, ModelType
<1>4. Good(d) /\ Differ(doc, d, Child("models", x))
    BY <1>1, <1>3, AttributeChanged
<1> HIDE DEF d
<1> QED BY <1>1, <1>4, EditStep

LEMMA CondsOfModelStep ==
    ASSUME DocInv, Good(doc), NEW x \in DOMAIN doc.models, NEW cs, cs \subseteq DOMAIN doc.conditions,
           NEW d, d = [doc EXCEPT !.models[x]["conds"] = cs], Edit("Diagram", Child("models", x), d)
    PROVE  DocInv'
<1>1. ModelIn(doc.models[x]) /\ DOMAIN doc.conditions \subseteq Conds
    BY DocumentModels, KeyedIs DEF Good, IsDocument
<1>2. ModelIn(Put(doc.models[x], "conds", cs))
    BY <1>1 DEF Put, ModelIn, ModelType
<1>3. Good(d) /\ Differ(doc, d, Child("models", x))
    BY <1>2, AttributeChanged
<1> QED BY <1>3, EditStep

LEMMA AttachCondStep ==
    ASSUME DocInv, Good(doc), NEW x, NEW n \in DOMAIN doc.conditions, AttachCond(x, n)
    PROVE  DocInv'
<1> DEFINE cs == doc.models[x].conds \cup {n}
           d == [doc EXCEPT !.models[x]["conds"] = cs]
<1>1. x \in DOMAIN doc.models /\ Edit("Diagram", Child("models", x), d)
    BY DEF AttachCond
<1>2. cs \subseteq DOMAIN doc.conditions
    BY <1>1, DocumentModels DEF ModelIn
<1>3. d = [doc EXCEPT !.models[x]["conds"] = cs]
    OBVIOUS
<1> HIDE DEF d, cs
<1> QED BY <1>1, <1>2, <1>3, CondsOfModelStep

LEMMA DetachCondStep ==
    ASSUME DocInv, Good(doc), NEW x, NEW n, DetachCond(x, n)
    PROVE  DocInv'
<1> DEFINE cs == doc.models[x].conds \ {n}
           d == [doc EXCEPT !.models[x]["conds"] = cs]
<1>1. x \in DOMAIN doc.models /\ Edit("Diagram", Child("models", x), d)
    BY DEF DetachCond
<1>2. cs \subseteq DOMAIN doc.conditions
    BY <1>1, DocumentModels DEF ModelIn
<1>3. d = [doc EXCEPT !.models[x]["conds"] = cs]
    OBVIOUS
<1> HIDE DEF d, cs
<1> QED BY <1>1, <1>2, <1>3, CondsOfModelStep

LEMMA AddModelStep ==
    ASSUME DocInv, Good(doc), NEW x \in Models, AddModel(x)
    PROVE  DocInv'
<1> DEFINE g == With(doc.models, x, NewModel)
           d == [doc EXCEPT !.models = g]
<1>1. x \notin DOMAIN doc.models /\ Edit("Diagram", Whole({"models"}), d)
    BY DEF AddModel
<1>2. /\ IsFcn(doc) /\ DOMAIN doc = Fields /\ IsDocument(doc) /\ ConnectionsIn(doc)
      /\ doc.top \in [in : SUBSET Ports, out : SUBSET Ports]
      /\ doc.connections \subseteq ConnectionType
    BY DocumentDiagram
<1>3. DOMAIN doc.models \subseteq Models /\ \A y \in DOMAIN doc.models : ModelIn(doc.models[y])
    BY DocumentModels
<1>4. IsWith(g, doc.models, x, NewModel)
    BY WithIs
<1> HIDE DEF g
<1>5. /\ IsFcn(d) /\ DOMAIN d = Fields /\ d["models"] = g
      /\ \A f \in Fields \ {"models"} : d[f] = doc[f]
    BY <1>2 DEF IsFcn, Fields
<1> HIDE DEF d
<1>6. Outside(doc, d, {"models"}) /\ Outside(doc, d, {"top", "models", "connections"})
    BY <1>5 DEF Outside
<1>7. d.top = doc.top /\ d.connections = doc.connections /\ d.models = g
    BY <1>5 DEF Fields
<1>8. ModelIn(NewModel)
    BY DEF ModelIn, ModelType, NewModel, None
<1>9. IsFcn(g) /\ DOMAIN g \subseteq Models /\ \A y \in DOMAIN g : ModelIn(g[y])
    BY <1>3, <1>4, <1>8 DEF IsWith
<1>10. /\ \A y, p : StartsAt(doc, y, p) => StartsAt(d, y, p)
       /\ \A y, p : EndsAt(doc, y, p) => EndsAt(d, y, p)
    BY <1>1, <1>4, <1>7 DEF StartsAt, EndsAt, IsWith
<1>11. ConnectionsIn(d)
    BY <1>2, <1>7, <1>10, ConnectionsAre
<1>12. Good(d)
    BY <1>2, <1>6, <1>7, <1>9, <1>11, DiagramGood
<1>13. Differ(doc, d, Whole({"models"}))
    BY <1>2, <1>6, DifferFields
<1> QED BY <1>1, <1>12, <1>13, EditStep

LEMMA RmModelsStep ==
    ASSUME DocInv, Good(doc), NEW xs, RmModelsFromCoupled(xs)
    PROVE  DocInv'
<1> DEFINE g == [x \in DOMAIN doc.models \ xs |-> doc.models[x]]
           cs == {c \in doc.connections : c.orig \notin xs /\ c.dest \notin xs}
           d == [doc EXCEPT !.models = g, !.connections = cs]
<1>1. xs \subseteq DOMAIN doc.models /\ Edit("Diagram", Coupled, d)
    BY DEF RmModelsFromCoupled
<1>2. /\ IsFcn(doc) /\ DOMAIN doc = Fields /\ ConnectionsIn(doc)
      /\ doc.top \in [in : SUBSET Ports, out : SUBSET Ports]
      /\ doc.connections \subseteq ConnectionType
    BY DocumentDiagram
<1>3. /\ DOMAIN doc.models \subseteq Models /\ \A y \in DOMAIN doc.models : ModelIn(doc.models[y])
      /\ Top \notin xs
    BY <1>1, DocumentModels
<1>4. /\ IsFcn(g) /\ DOMAIN g = DOMAIN doc.models \ xs
      /\ \A y \in DOMAIN g : g[y] = doc.models[y]
    BY DEF IsFcn
<1> HIDE DEF g
<1>5. /\ IsFcn(d) /\ DOMAIN d = Fields /\ d["models"] = g /\ d["connections"] = cs
      /\ \A f \in Fields \ {"models", "connections"} : d[f] = doc[f]
    BY <1>2 DEF IsFcn, Fields
<1> HIDE DEF d
<1>6. Outside(doc, d, {"top", "models", "connections"})
    BY <1>5 DEF Outside
<1>7. d.top = doc.top /\ d.connections = cs /\ d.models = g
    BY <1>5 DEF Fields
<1>8. /\ \A y, p : StartsAt(doc, y, p) /\ y \notin xs => StartsAt(d, y, p)
      /\ \A y, p : EndsAt(doc, y, p) /\ y \notin xs => EndsAt(d, y, p)
    BY <1>4, <1>7 DEF StartsAt, EndsAt
<1>9. ConnectionsIn(d)
    BY <1>2, <1>7, <1>8, ConnectionsAre
<1>10. cs \subseteq ConnectionType
    BY <1>2
<1> HIDE DEF cs
<1>11. Good(d) /\ Differ(doc, d, Coupled)
    BY <1>2, <1>3, <1>4, <1>6, <1>7, <1>9, <1>10, DiagramGood
<1> QED BY <1>1, <1>11, EditStep

\* A connection with other ends.
Reached(c, o, e) == [c EXCEPT !.orig = o, !.dest = e]

IsReached(k, c, o, e) ==
    /\ k \in ConnectionType /\ k.orig = o /\ k.dest = e
    /\ k.oport = c.oport /\ k.dport = c.dport

LEMMA ReachedIs ==
    ASSUME NEW c, c \in ConnectionType, NEW o, NEW e, o \in Models \cup {Top}, e \in Models \cup {Top}
    PROVE  IsReached(Reached(c, o, e), c, o, e)
BY DEF Reached, ConnectionType, IsReached

LEMMA RenameModelStep ==
    ASSUME DocInv, Good(doc), NEW old \in Models, NEW new \in Models, RenameModel(old, new)
    PROVE  DocInv'
<1> DEFINE name(x) == IF x = old THEN new ELSE x
           g == Renamed(doc.models, old, new)
           cs == {Reached(c, name(c.orig), name(c.dest)) : c \in doc.connections}
           d == [doc EXCEPT !.models = g, !.connections = cs]
<1>1. old \in DOMAIN doc.models /\ new \notin DOMAIN doc.models /\ Edit("Diagram", Coupled, d)
    BY DEF RenameModel, Reached
<1>2. /\ IsFcn(doc) /\ DOMAIN doc = Fields /\ ConnectionsIn(doc)
      /\ doc.top \in [in : SUBSET Ports, out : SUBSET Ports]
      /\ doc.connections \subseteq ConnectionType
    BY DocumentDiagram
<1>3. /\ DOMAIN doc.models \subseteq Models /\ \A y \in DOMAIN doc.models : ModelIn(doc.models[y])
      /\ old # Top
    BY <1>1, DocumentModels
<1>4. IsRenamed(g, doc.models, old, new)
    BY RenamedIs
<1> HIDE DEF g
<1>5. /\ IsFcn(d) /\ DOMAIN d = Fields /\ d["models"] = g /\ d["connections"] = cs
      /\ \A f \in Fields \ {"models", "connections"} : d[f] = doc[f]
    BY <1>2 DEF IsFcn, Fields
<1> HIDE DEF d
<1>6. Outside(doc, d, {"top", "models", "connections"})
    BY <1>5 DEF Outside
<1>7. d.top = doc.top /\ d.connections = cs /\ d.models = g
    BY <1>5 DEF Fields
<1>8. IsFcn(g) /\ DOMAIN g \subseteq Models /\ \A y \in DOMAIN g : ModelIn(g[y])
    BY <1>1, <1>3, <1>4 DEF IsRenamed
<1>9. /\ \A y, p : StartsAt(doc, y, p) => StartsAt(d, name(y), p)
      /\ \A y, p : EndsAt(doc, y, p) => EndsAt(d, name(y), p)
    BY <1>1, <1>3, <1>4, <1>7 DEF StartsAt, EndsAt, IsRenamed
<1>10. ASSUME NEW k \in cs
       PROVE  k \in ConnectionType /\ StartsAt(d, k.orig, k.oport) /\ EndsAt(d, k.dest, k.dport)
    <2>1. PICK c \in doc.connections : k = Reached(c, name(c.orig), name(c.dest))
        OBVIOUS
    <2>2. c \in ConnectionType /\ c.orig \in Models \cup {Top} /\ c.dest \in Models \cup {Top}
        BY <1>2 DEF ConnectionType
    <2>3. name(c.orig) \in Models \cup {Top} /\ name(c.dest) \in Models \cup {Top}
        BY <2>2
    <2>4. StartsAt(doc, c.orig, c.oport) /\ EndsAt(doc, c.dest, c.dport)
        BY <1>2, ConnectionsAre
    <2>5. StartsAt(d, name(c.orig), c.oport) /\ EndsAt(d, name(c.dest), c.dport)
        BY <1>9, <2>4
    <2> DEFINE o == name(c.orig)
               e == name(c.dest)
    <2>6. o \in Models \cup {Top} /\ e \in Models \cup {Top} /\ k = Reached(c, o, e)
        BY <2>1, <2>3
    <2>7. StartsAt(d, o, c.oport) /\ EndsAt(d, e, c.dport)
        BY <2>5
    <2> HIDE DEF name, o, e
    <2>8. IsReached(k, c, o, e)
        BY <2>2, <2>6, ReachedIs
    <2> QED BY <2>7, <2>8 DEF IsReached
<1> HIDE DEF cs
<1>11. ConnectionsIn(d) /\ cs \subseteq ConnectionType
    BY <1>7, <1>10, ConnectionsAre
<1>12. Good(d) /\ Differ(doc, d, Coupled)
    BY <1>2, <1>6, <1>7, <1>8, <1>11, DiagramGood
<1> QED BY <1>1, <1>12, EditStep

LEMMA ConnectionsStep ==
    ASSUME DocInv, Good(doc), NEW cs, cs \subseteq ConnectionType,
           \A c \in cs : StartsAt(doc, c.orig, c.oport) /\ EndsAt(doc, c.dest, c.dport),
           NEW d, d = [doc EXCEPT !.connections = cs], Edit("Diagram", Whole({"connections"}), d)
    PROVE  DocInv'
<1>1. /\ IsFcn(doc) /\ DOMAIN doc = Fields /\ IsDocument(doc)
      /\ doc.top \in [in : SUBSET Ports, out : SUBSET Ports]
    BY DocumentDiagram
<1>2. /\ IsFcn(doc.models) /\ DOMAIN doc.models \subseteq Models
      /\ \A y \in DOMAIN doc.models : ModelIn(doc.models[y])
    BY DocumentModels
<1>3. /\ IsFcn(d) /\ DOMAIN d = Fields /\ d["connections"] = cs
      /\ \A f \in Fields \ {"connections"} : d[f] = doc[f]
    BY <1>1 DEF IsFcn, Fields
<1>4. Outside(doc, d, {"connections"}) /\ Outside(doc, d, {"top", "models", "connections"})
    BY <1>3 DEF Outside
<1>5. d.top = doc.top /\ d.connections = cs /\ d.models = doc.models
    BY <1>3 DEF Fields
<1>6. \A y, p : (StartsAt(doc, y, p) => StartsAt(d, y, p)) /\ (EndsAt(doc, y, p) => EndsAt(d, y, p))
    BY <1>5 DEF StartsAt, EndsAt
<1>7. ConnectionsIn(d)
    BY <1>5, <1>6, ConnectionsAre
<1>8. Good(d)
    BY <1>1, <1>2, <1>4, <1>5, <1>7, DiagramGood
<1>9. Differ(doc, d, Whole({"connections"}))
    BY <1>1, <1>4, DifferFields
<1> QED BY <1>8, <1>9, EditStep

LEMMA AddModelConnectionStep ==
    ASSUME DocInv, Good(doc), NEW o \in Origins, NEW e \in Destinations, AddModelConnection(o, e)
    PROVE  DocInv'
<1> DEFINE k == [orig |-> o[1], oport |-> o[2], dest |-> e[1], dport |-> e[2]]
           cs == doc.connections \cup {k}
           d == [doc EXCEPT !.connections = cs]
<1>1. Edit("Diagram", Whole({"connections"}), d)
    BY DEF AddModelConnection
<1>2. /\ ConnectionsIn(doc) /\ doc.top \in [in : SUBSET Ports, out : SUBSET Ports]
      /\ doc.connections \subseteq ConnectionType
    BY DocumentDiagram
<1>3. DOMAIN doc.models \subseteq Models /\ \A y \in DOMAIN doc.models : doc.models[y] \in ModelType
    BY DocumentModels DEF ModelIn
<1>4. o = <<o[1], o[2]>> /\ e = <<e[1], e[2]>>
    BY DEF Origins, Destinations, OriginsIn, DestinationsIn
<1>5. StartsAt(doc, o[1], o[2]) /\ EndsAt(doc, e[1], e[2])
    BY <1>4, PortsIn DEF Origins, Destinations
<1>6. o[1] \in Models \cup {Top} /\ o[2] \in Ports
    BY <1>2, <1>3, <1>5 DEF StartsAt, ModelType
<1>7. e[1] \in Models \cup {Top} /\ e[2] \in Ports
    BY <1>2, <1>3, <1>5 DEF EndsAt, ModelType
<1>8. k \in ConnectionType /\ StartsAt(doc, k.orig, k.oport) /\ EndsAt(doc, k.dest, k.dport)
    BY <1>5, <1>6, <1>7 DEF ConnectionType
<1> HIDE DEF k
<1>9. /\ cs \subseteq ConnectionType
      /\ \A c \in cs : StartsAt(doc, c.orig, c.oport) /\ EndsAt(doc, c.dest, c.dport)
    BY <1>2, <1>8, ConnectionsAre
<1>10. d = [doc EXCEPT !.connections = cs]
    OBVIOUS
<1> HIDE DEF cs, d
<1> QED BY <1>1, <1>9, <1>10, ConnectionsStep

LEMMA RmModelConnectionStep ==
    ASSUME DocInv, Good(doc), NEW k, RmModelConnection(k)
    PROVE  DocInv'
<1> DEFINE cs == doc.connections \ {k}
           d == [doc EXCEPT !.connections = cs]
<1>1. Edit("Diagram", Whole({"connections"}), d)
    BY DEF RmModelConnection
<1>2. ConnectionsIn(doc) /\ doc.connections \subseteq ConnectionType
    BY DocumentDiagram
<1>3. /\ cs \subseteq ConnectionType
      /\ \A c \in cs : StartsAt(doc, c.orig, c.oport) /\ EndsAt(doc, c.dest, c.dport)
    BY <1>2, ConnectionsAre
<1>4. d = [doc EXCEPT !.connections = cs]
    OBVIOUS
<1> HIDE DEF cs, d
<1> QED BY <1>1, <1>3, <1>4, ConnectionsStep

\* The ports of one side of a model are ends of connections; inside the coupled
\* model its output ports are.
EndSide(x, side) == (side = "in") = (x # Top)

\* Document e has the ports ps on a side of x, and the rest of the diagram.
PortsAre(e, x, side, ps) ==
    /\ Outside(doc, e, {"top", "models"}) /\ e.connections = doc.connections
    /\ e.top \in [in : SUBSET Ports, out : SUBSET Ports]
    /\ IsFcn(e.models) /\ DOMAIN e.models \subseteq Models
    /\ \A y \in DOMAIN e.models : ModelIn(e.models[y])
    /\ EndSide(x, side) =>
         /\ \A y, p : StartsAt(doc, y, p) => StartsAt(e, y, p)
         /\ \A y, p : EndsAt(doc, y, p) /\ y # x => EndsAt(e, y, p)
         /\ \A p \in ps : EndsAt(e, x, p)
    /\ ~EndSide(x, side) =>
         /\ \A y, p : EndsAt(doc, y, p) => EndsAt(e, y, p)
         /\ \A y, p : StartsAt(doc, y, p) /\ y # x => StartsAt(e, y, p)
         /\ \A p \in ps : StartsAt(e, x, p)

\* Record r is q with the ports ps on one side.
Sided(r, q, side, ps) ==
    IF side = "in" THEN r.in = ps /\ r.out = q.out ELSE r.out = ps /\ r.in = q.in

LEMMA TopPorts ==
    ASSUME Good(doc), NEW side \in {"in", "out"}, NEW ps, ps \subseteq Ports,
           NEW e, e = [doc EXCEPT !.top[side] = ps]
    PROVE  PortsAre(e, Top, side, ps) /\ Differ(doc, e, Child("top", side))
<1> DEFINE r == Put(doc.top, side, ps)
<1>1. /\ IsFcn(doc) /\ DOMAIN doc = Fields /\ IsDocument(doc)
      /\ doc.top \in [in : SUBSET Ports, out : SUBSET Ports]
    BY DocumentDiagram
<1>2. /\ IsFcn(doc.models) /\ DOMAIN doc.models \subseteq Models
      /\ \A y \in DOMAIN doc.models : ModelIn(doc.models[y]) /\ y # Top
    BY DocumentModels
<1>3. r \in [in : SUBSET Ports, out : SUBSET Ports] /\ Sided(r, doc.top, side, ps)
    <2>1. CASE side = "in"
        BY <1>1, <2>1 DEF Put, Sided
    <2>2. CASE side = "out"
        BY <1>1, <2>2 DEF Put, Sided
    <2> QED BY <2>1, <2>2
<1>4. e = Put(doc, "top", r)
    BY DEF Put
<1>5. IsFcn(doc.top) /\ side \in DOMAIN doc.top /\ Named(side)
    BY <1>1 DEF IsFcn, Named
<1>6. r = Put(doc.top, side, ps)
    OBVIOUS
<1> HIDE DEF r
<1>7. /\ IsFcn(e) /\ DOMAIN e = Fields /\ e["top"] = r
      /\ \A f \in Fields \ {"top"} : e[f] = doc[f]
    BY <1>1, <1>4, PutIs DEF Fields
<1>8. Outside(doc, e, {"top"}) /\ Outside(doc, e, {"top", "models"})
    BY <1>7 DEF Outside
<1>9. e.top = r /\ e.models = doc.models /\ e.connections = doc.connections
    BY <1>7 DEF Fields
<1>10. Differ(doc, e, Child("top", side))
    <2>1. doc["top"] = doc.top /\ e["top"] = r /\ "top" \in Fields
        BY <1>7 DEF Fields
    <2> QED BY <1>1, <1>5, <1>6, <1>8, <2>1, DifferKey
<1>11. CASE side = "in"
    <2>1. ~EndSide(Top, side)
        BY <1>11 DEF EndSide
    <2>2. r.in = ps /\ r.out = doc.top.out
        BY <1>3, <1>11 DEF Sided
    <2>3. \A y, p : EndsAt(doc, y, p) => EndsAt(e, y, p)
        BY <1>9, <2>2 DEF EndsAt
    <2>4. \A y, p : StartsAt(doc, y, p) /\ y # Top => StartsAt(e, y, p)
        BY <1>9 DEF StartsAt
    <2>5. \A p \in ps : StartsAt(e, Top, p)
        BY <1>9, <2>2 DEF StartsAt
    <2> QED BY <1>2, <1>3, <1>8, <1>9, <1>10, <2>1, <2>3, <2>4, <2>5 DEF PortsAre
<1>12. CASE side = "out"
    <2>1. EndSide(Top, side)
        BY <1>12 DEF EndSide
    <2>2. r.out = ps /\ r.in = doc.top.in
        BY <1>3, <1>12 DEF Sided
    <2>3. \A y, p : StartsAt(doc, y, p) => StartsAt(e, y, p)
        BY <1>9, <2>2 DEF StartsAt
    <2>4. \A y, p : EndsAt(doc, y, p) /\ y # Top => EndsAt(e, y, p)
        BY <1>9 DEF EndsAt
    <2>5. \A p \in ps : EndsAt(e, Top, p)
        BY <1>9, <2>2 DEF EndsAt
    <2> QED BY <1>2, <1>3, <1>8, <1>9, <1>10, <2>1, <2>3, <2>4, <2>5 DEF PortsAre
<1> QED BY <1>11, <1>12

LEMMA ModelPorts ==
    ASSUME Good(doc), NEW x \in DOMAIN doc.models, NEW side \in {"in", "out"}, NEW ps, ps \subseteq Ports,
           NEW e, e = [doc EXCEPT !.models[x][side] = ps]
    PROVE  PortsAre(e, x, side, ps) /\ Differ(doc, e, Grandchild("models", x, side))
<1> DEFINE r == Put(doc.models[x], side, ps)
           g == Put(doc.models, x, r)
<1>1. /\ IsFcn(doc) /\ DOMAIN doc = Fields /\ IsDocument(doc)
      /\ doc.top \in [in : SUBSET Ports, out : SUBSET Ports]
    BY DocumentDiagram
<1>2. /\ IsFcn(doc.models) /\ DOMAIN doc.models \subseteq Models
      /\ \A y \in DOMAIN doc.models : ModelIn(doc.models[y])
      /\ Named(x) /\ x # Top
    BY DocumentModels
<1>3. ModelIn(r) /\ Sided(r, doc.models[x], side, ps)
    <2>1. ModelIn(doc.models[x])
        BY <1>2
    <2>2. CASE side = "in"
        BY <2>1, <2>2 DEF Put, Sided, ModelIn, ModelType
    <2>3. CASE side = "out"
        BY <2>1, <2>3 DEF Put, Sided, ModelIn, ModelType
    <2> QED BY <2>2, <2>3
<1>4. e = Put(doc, "models", g)
    BY DEF Put
<1>5. OneKeyApart(doc.models[x], r, side) /\ Named(side)
    <2>1. doc.models[x] \in ModelType
        BY <1>2 DEF ModelIn
    <2>2. IsFcn(doc.models[x]) /\ side \in DOMAIN doc.models[x]
        BY <2>1 DEF ModelType, IsFcn
    <2>3. /\ IsFcn(r) /\ DOMAIN r = DOMAIN doc.models[x]
          /\ \A a \in DOMAIN doc.models[x] \ {side} : r[a] = doc.models[x][a]
        BY PutIs
    <2> HIDE DEF r
    <2>4. OneKeyApart(doc.models[x], r, side)
        BY <2>2, <2>3 DEF OneKeyApart
    <2> QED BY <2>4 DEF Named
<1> HIDE DEF r
<1>6. /\ IsFcn(g) /\ DOMAIN g = DOMAIN doc.models /\ g[x] = r
      /\ \A y \in DOMAIN doc.models \ {x} : g[y] = doc.models[y]
    BY PutIs
<1> HIDE DEF g
<1>7. /\ IsFcn(e) /\ DOMAIN e = Fields /\ e["models"] = g
      /\ \A f \in Fields \ {"models"} : e[f] = doc[f]
    BY <1>1, <1>4, PutIs DEF Fields
<1>8. Outside(doc, e, {"top", "models"})
    BY <1>7 DEF Outside
<1>9. e.top = doc.top /\ e.models = g /\ e.connections = doc.connections
    BY <1>7 DEF Fields
<1>10. Differ(doc, e, Grandchild("models", x, side))
    <2>1. OneKeyApart(doc, e, "models")
        BY <1>1, <1>7 DEF OneKeyApart, Fields
    <2>2. OneKeyApart(doc["models"], e["models"], x)
        BY <1>2, <1>6, <1>7 DEF OneKeyApart
    <2>3. OneKeyApart(doc["models"][x], e["models"][x], side)
        BY <1>5, <1>6, <1>7
    <2> QED BY <1>2, <1>5, <2>1, <2>2, <2>3, DifferGrandchild
<1>11. \A y \in DOMAIN g : ModelIn(g[y])
    BY <1>2, <1>3, <1>6
<1>12. CASE side = "in"
    <2>1. EndSide(x, side)
        BY <1>2, <1>12 DEF EndSide
    <2>2. r.in = ps /\ r.out = doc.models[x].out
        BY <1>3, <1>12 DEF Sided
    <2>3. \A y, p : StartsAt(doc, y, p) => StartsAt(e, y, p)
        BY <1>6, <1>9, <2>2 DEF StartsAt
    <2>4. \A y, p : EndsAt(doc, y, p) /\ y # x => EndsAt(e, y, p)
        BY <1>6, <1>9 DEF EndsAt
    <2>5. \A p \in ps : EndsAt(e, x, p)
        BY <1>6, <1>9, <2>2 DEF EndsAt
    <2> QED BY <1>1, <1>2, <1>6, <1>8, <1>9, <1>10, <1>11, <2>1, <2>3, <2>4, <2>5 DEF PortsAre
<1>13. CASE side = "out"
    <2>1. ~EndSide(x, side)
        BY <1>2, <1>13 DEF EndSide
    <2>2. r.out = ps /\ r.in = doc.models[x].in
        BY <1>3, <1>13 DEF Sided
    <2>3. \A y, p : EndsAt(doc, y, p) => EndsAt(e, y, p)
        BY <1>6, <1>9, <2>2 DEF EndsAt
    <2>4. \A y, p : StartsAt(doc, y, p) /\ y # x => StartsAt(e, y, p)
        BY <1>6, <1>9 DEF StartsAt
    <2>5. \A p \in ps : StartsAt(e, x, p)
        BY <1>6, <1>9, <2>2 DEF StartsAt
    <2> QED BY <1>1, <1>2, <1>6, <1>8, <1>9, <1>10, <1>11, <2>1, <2>3, <2>4, <2>5 DEF PortsAre
<1> QED BY <1>12, <1>13

\* The query of the ports of one side.
SideNode(x, side) == IF x = Top THEN Child("top", side) ELSE Grandchild("models", x, side)

LEMMA WithPortsIs ==
    ASSUME Good(doc), NEW x \in DOMAIN doc.models \cup {Top}, NEW side \in {"in", "out"},
           NEW ps, ps \subseteq Ports
    PROVE  /\ PortsAre(WithPorts(x, side, ps), x, side, ps)
           /\ Differ(doc, WithPorts(x, side, ps), SideNode(x, side))
<1>1. CASE x = Top
    <2>1. WithPorts(x, side, ps) = [doc EXCEPT !.top[side] = ps]
        BY <1>1 DEF WithPorts
    <2> QED BY <1>1, <2>1, TopPorts DEF SideNode
<1>2. CASE x # Top
    <2>1. WithPorts(x, side, ps) = [doc EXCEPT !.models[x][side] = ps] /\ x \in DOMAIN doc.models
        BY <1>2 DEF WithPorts
    <2> QED BY <1>2, <2>1, ModelPorts DEF SideNode
<1> QED BY <1>1, <1>2

LEMMA PortsOfIs ==
    ASSUME Good(doc), NEW x \in DOMAIN doc.models \cup {Top}, NEW side \in {"in", "out"}
    PROVE  /\ PortsOf(x, side) \subseteq Ports
           /\ EndSide(x, side) => \A p : EndsAt(doc, x, p) => p \in PortsOf(x, side)
           /\ ~EndSide(x, side) => \A p : StartsAt(doc, x, p) => p \in PortsOf(x, side)
<1>1. doc.top \in [in : SUBSET Ports, out : SUBSET Ports]
    BY DocumentDiagram
<1>2. \A y \in DOMAIN doc.models : doc.models[y] \in ModelType /\ y # Top
    BY DocumentModels DEF ModelIn
<1>3. CASE x = Top
    <2>1. CASE side = "in"
        BY <1>1, <1>2, <1>3, <2>1 DEF PortsOf, EndSide, StartsAt
    <2>2. CASE side = "out"
        BY <1>1, <1>2, <1>3, <2>2 DEF PortsOf, EndSide, EndsAt
    <2> QED BY <2>1, <2>2
<1>4. CASE x # Top
    <2>1. x \in DOMAIN doc.models /\ doc.models[x] \in ModelType
        BY <1>2, <1>4
    <2>2. CASE side = "in"
        <3>1. PortsOf(x, side) = doc.models[x].in /\ EndSide(x, side)
            BY <1>4, <2>2 DEF PortsOf, EndSide
        <3>2. doc.models[x].in \subseteq Ports
            BY <2>1 DEF ModelType
        <3> QED BY <1>4, <3>1, <3>2 DEF EndsAt
    <2>3. CASE side = "out"
        <3>1. PortsOf(x, side) = doc.models[x].out /\ ~EndSide(x, side)
            BY <1>4, <2>3 DEF PortsOf, EndSide
        <3>2. doc.models[x].out \subseteq Ports
            BY <2>1 DEF ModelType
        <3> QED BY <1>4, <3>1, <3>2 DEF StartsAt
    <2> QED BY <2>2, <2>3
<1> QED BY <1>3, <1>4

\* Other ports and other connections that go with them.
LEMMA PortsGood ==
    ASSUME Good(doc), NEW x, NEW side, NEW ps, NEW e, PortsAre(e, x, side, ps),
           NEW d, NEW cs, d = [e EXCEPT !.connections = cs], cs \subseteq ConnectionType,
           \A k \in cs : StartsAt(e, k.orig, k.oport) /\ EndsAt(e, k.dest, k.dport)
    PROVE  Good(d) /\ Differ(doc, d, Coupled)
<1>1. Outside(doc, e, {"top", "models"})
    BY DEF PortsAre
<1>2. /\ IsFcn(d) /\ DOMAIN d = Fields /\ d["connections"] = cs
      /\ \A f \in Fields \ {"connections"} : d[f] = e[f]
    BY <1>1 DEF IsFcn, Fields, Outside
<1>3. Outside(doc, d, {"top", "models", "connections"})
    BY <1>1, <1>2 DEF Outside
<1>4. d.top = e.top /\ d.models = e.models /\ d.connections = cs
    BY <1>2 DEF Fields
<1>5. \A y, p : (StartsAt(e, y, p) => StartsAt(d, y, p)) /\ (EndsAt(e, y, p) => EndsAt(d, y, p))
    BY <1>4 DEF StartsAt, EndsAt
<1>6. ConnectionsIn(d)
    BY <1>4, <1>5, ConnectionsAre
<1>7. /\ d.top \in [in : SUBSET Ports, out : SUBSET Ports] /\ IsFcn(d.models)
      /\ DOMAIN d.models \subseteq Models /\ \A y \in DOMAIN d.models : ModelIn(d.models[y])
      /\ d.connections \subseteq ConnectionType
    BY <1>4 DEF PortsAre
<1> QED BY <1>3, <1>6, <1>7, DiagramGood

LEMMA AddModelPortStep ==
    ASSUME DocInv, Good(doc), NEW x \in DOMAIN doc.models \cup {Top}, NEW side \in {"in", "out"},
           NEW p \in Ports, AddModelPort(x, side, p)
    PROVE  DocInv'
<1> DEFINE ps == PortsOf(x, side) \cup {p}
           e == WithPorts(x, side, ps)
<1>1. Edit("Diagram", SideNode(x, side), e)
    BY DEF AddModelPort, SideNode
<1>2. /\ IsFcn(doc) /\ DOMAIN doc = Fields /\ ConnectionsIn(doc) /\ doc.connections \subseteq ConnectionType
    BY DocumentDiagram
<1>3. /\ ps \subseteq Ports
      /\ EndSide(x, side) => \A q : EndsAt(doc, x, q) => q \in ps
      /\ ~EndSide(x, side) => \A q : StartsAt(doc, x, q) => q \in ps
    BY PortsOfIs
<1> HIDE DEF ps
<1>4. PortsAre(e, x, side, ps) /\ Differ(doc, e, SideNode(x, side))
    BY <1>3, WithPortsIs
<1> HIDE DEF e
<1>5. \A k \in doc.connections : StartsAt(doc, k.orig, k.oport) /\ EndsAt(doc, k.dest, k.dport)
    BY <1>2, ConnectionsAre
<1>6. ASSUME NEW k \in doc.connections
      PROVE  StartsAt(e, k.orig, k.oport) /\ EndsAt(e, k.dest, k.dport)
    <2>1. CASE EndSide(x, side)
        BY <1>3, <1>4, <1>5, <2>1 DEF PortsAre
    <2>2. CASE ~EndSide(x, side)
        BY <1>3, <1>4, <1>5, <2>2 DEF PortsAre
    <2> QED BY <2>1, <2>2
<1>7. e.connections = doc.connections /\ IsFcn(e) /\ DOMAIN e = Fields
    BY <1>4 DEF PortsAre, Outside
<1>8. e = [e EXCEPT !.connections = doc.connections]
    BY <1>7 DEF IsFcn
<1>9. Good(e)
    BY <1>2, <1>4, <1>6, <1>8, PortsGood
<1> QED BY <1>1, <1>4, <1>9, EditStep

LEMMA RmModelPortStep ==
    ASSUME DocInv, Good(doc), NEW x \in DOMAIN doc.models \cup {Top}, NEW side \in {"in", "out"},
           NEW p \in Ports, RmModelPort(x, side, p)
    PROVE  DocInv'
<1> DEFINE ps == PortsOf(x, side) \ {p}
           e == WithPorts(x, side, ps)
           cs == {c \in e.connections : ~AtPort(c, x, side, p)}
           d == [e EXCEPT !.connections = cs]
<1>1. Edit("Diagram", Coupled, d)
    BY DEF RmModelPort
<1>2. ConnectionsIn(doc) /\ doc.connections \subseteq ConnectionType
    BY DocumentDiagram
<1>3. /\ ps \subseteq Ports
      /\ EndSide(x, side) => \A q : EndsAt(doc, x, q) /\ q # p => q \in ps
      /\ ~EndSide(x, side) => \A q : StartsAt(doc, x, q) /\ q # p => q \in ps
    BY PortsOfIs
<1> HIDE DEF ps
<1>4. PortsAre(e, x, side, ps)
    BY <1>3, WithPortsIs
<1> HIDE DEF e
<1>5. \A k \in doc.connections : StartsAt(doc, k.orig, k.oport) /\ EndsAt(doc, k.dest, k.dport)
    BY <1>2, ConnectionsAre
<1>6. e.connections = doc.connections
    BY <1>4 DEF PortsAre
<1>7. ASSUME NEW k \in cs
      PROVE  k \in ConnectionType /\ StartsAt(e, k.orig, k.oport) /\ EndsAt(e, k.dest, k.dport)
    <2>1. k \in doc.connections /\ ~AtPort(k, x, side, p) /\ k \in ConnectionType
        BY <1>2, <1>6
    <2>2. StartsAt(doc, k.orig, k.oport) /\ EndsAt(doc, k.dest, k.dport)
        BY <1>5, <2>1
    <2>3. CASE EndSide(x, side)
        <3>1. k.dest # x \/ k.dport # p
            BY <2>1, <2>3 DEF AtPort, EndSide
        <3> QED BY <1>3, <1>4, <2>1, <2>2, <2>3, <3>1 DEF PortsAre
    <2>4. CASE ~EndSide(x, side)
        <3>1. k.orig # x \/ k.oport # p
            BY <2>1, <2>4 DEF AtPort, EndSide
        <3> QED BY <1>3, <1>4, <2>1, <2>2, <2>4, <3>1 DEF PortsAre
    <2> QED BY <2>3, <2>4
<1>8. d = [e EXCEPT !.connections = cs]
    OBVIOUS
<1> HIDE DEF cs, d
<1>9. cs \subseteq ConnectionType
    BY <1>7
<1>10. Good(d) /\ Differ(doc, d, Coupled)
    BY <1>4, <1>7, <1>8, <1>9, PortsGood
<1> QED BY <1>1, <1>10, EditStep

\* A connection moved from port p of x to port q.
PortMoved(c, x, side, p, q) ==
    IF ~AtPort(c, x, side, p) THEN c
    ELSE IF EndSide(x, side) THEN [c EXCEPT !.dport = q] ELSE [c EXCEPT !.oport = q]

LEMMA RenameModelPortStep ==
    ASSUME DocInv, Good(doc), NEW x \in DOMAIN doc.models \cup {Top}, NEW side \in {"in", "out"},
           NEW old \in Ports, NEW new \in Ports, RenameModelPort(x, side, old, new)
    PROVE  DocInv'
<1> DEFINE ps == RenamedIn(PortsOf(x, side), old, new)
           e == WithPorts(x, side, ps)
           cs == {PortMoved(c, x, side, old, new) : c \in e.connections}
           d == [e EXCEPT !.connections = cs]
<1>1. old \in PortsOf(x, side) /\ (Edit("Diagram", Coupled, d) \/ EditClash("Diagram", Coupled, d))
    BY DEF RenameModelPort, PortMoved, EndSide
<1>2. ConnectionsIn(doc) /\ doc.connections \subseteq ConnectionType
    BY DocumentDiagram
<1>3. /\ ps \subseteq Ports /\ new \in ps
      /\ EndSide(x, side) => \A q : EndsAt(doc, x, q) /\ q # old => q \in ps
      /\ ~EndSide(x, side) => \A q : StartsAt(doc, x, q) /\ q # old => q \in ps
    BY <1>1, PortsOfIs DEF RenamedIn
<1> HIDE DEF ps
<1>4. PortsAre(e, x, side, ps)
    BY <1>3, WithPortsIs
<1> HIDE DEF e
<1>5. \A k \in doc.connections : StartsAt(doc, k.orig, k.oport) /\ EndsAt(doc, k.dest, k.dport)
    BY <1>2, ConnectionsAre
<1>6. e.connections = doc.connections
    BY <1>4 DEF PortsAre
<1>7. ASSUME NEW k \in cs
      PROVE  k \in ConnectionType /\ StartsAt(e, k.orig, k.oport) /\ EndsAt(e, k.dest, k.dport)
    <2>1. PICK c \in doc.connections : k = PortMoved(c, x, side, old, new)
        BY <1>6
    <2>2. StartsAt(doc, c.orig, c.oport) /\ EndsAt(doc, c.dest, c.dport) /\ c \in ConnectionType
        BY <1>2, <1>5, <2>1
    <2>3. CASE EndSide(x, side)
        <3>1. CASE c.dest = x /\ c.dport = old
            <4>1. k = [c EXCEPT !.dport = new]
                BY <2>1, <2>3, <3>1 DEF PortMoved, AtPort, EndSide
            <4>2. /\ k \in ConnectionType /\ k.orig = c.orig /\ k.oport = c.oport
                  /\ k.dest = c.dest /\ k.dport = new
                BY <2>2, <4>1 DEF ConnectionType
            <4> QED BY <1>3, <1>4, <2>2, <2>3, <3>1, <4>2 DEF PortsAre
        <3>2. CASE c.dest # x \/ c.dport # old
            <4>1. k = c
                BY <2>1, <2>3, <3>2 DEF PortMoved, AtPort, EndSide
            <4> QED BY <1>3, <1>4, <2>2, <2>3, <3>2, <4>1 DEF PortsAre
        <3> QED BY <3>1, <3>2
    <2>4. CASE ~EndSide(x, side)
        <3>1. CASE c.orig = x /\ c.oport = old
            <4>1. k = [c EXCEPT !.oport = new]
                BY <2>1, <2>4, <3>1 DEF PortMoved, AtPort, EndSide
            <4>2. /\ k \in ConnectionType /\ k.orig = c.orig /\ k.oport = new
                  /\ k.dest = c.dest /\ k.dport = c.dport
                BY <2>2, <4>1 DEF ConnectionType
            <4> QED BY <1>3, <1>4, <2>2, <2>4, <3>1, <4>2 DEF PortsAre
        <3>2. CASE c.orig # x \/ c.oport # old
            <4>1. k = c
                BY <2>1, <2>4, <3>2 DEF PortMoved, AtPort, EndSide
            <4> QED BY <1>3, <1>4, <2>2, <2>4, <3>2, <4>1 DEF PortsAre
        <3> QED BY <3>1, <3>2
    <2> QED BY <2>3, <2>4
<1>8. d = [e EXCEPT !.connections = cs]
    OBVIOUS
<1> HIDE DEF cs, d
<1>9. cs \subseteq ConnectionType
    BY <1>7
<1>10. Good(d) /\ Differ(doc, d, Coupled)
    BY <1>4, <1>7, <1>8, <1>9, PortsGood
<1>11. IsDocument(d)
    BY <1>10 DEF Good
<1> QED BY <1>1, <1>10, <1>11, EditStep, EditClashStep

\* A move merged into the last entry.
LEMMA MergedStep ==
    ASSUME DocInv, Good(doc), ~slipped, NEW x \in DOMAIN doc.models, NEW r, NEW d,
           Mergeable(z, Child("models", x), "setPositionToModel"), ~HasTail(z),
           d = Replace(doc, Child("models", x), r), Good(d),
           Commit(z, m, d, meta, <<>>, FALSE)
    PROVE  DocInv'
<1> DEFINE u == [trail EXCEPT ![z.curr + 1] = Pair(d, meta)]
<1>1. /\ z' = z /\ m' = m /\ doc' = d /\ meta' = meta /\ slipped' = FALSE /\ file' = file
      /\ star' = Starred(star, z.curr, z.curr, z.saved)
      /\ stale' = (stale \/ (z.curr > z.curr /\ z.curr < z.saved))
      /\ trail' = u
    BY DEF Commit
<1>2. /\ Held(doc, meta, z, m, trail) /\ IsStack(z) /\ IsStack(m) /\ z.curr \in Nat /\ Size \in Nat
    BY Heights
<1>3. z.curr > 0 /\ z.diffs[z.curr].query = Child("models", x) /\ z.curr # z.saved
    BY DEF Mergeable, MergeableAlways
<1>4. Len(trail) \in Nat /\ z.curr < Len(trail) /\ Len(trail) <= Size + 1 /\ z.saved \in Nat
    BY <1>2, HeldTypes
<1>5. Len(trail) = z.curr + 1
    <2>1. CASE z.curr + 1 \in 1 .. Len(trail) - 1
        <3>1. z.diffs[z.curr + 1].isDefined = TRUE
            BY <1>2, <2>1 DEF Held, History
        <3>2. z.curr < Size
            BY <1>2, <1>4, <2>1
        <3> QED BY <3>1, <3>2 DEF HasTail
    <2>2. CASE z.curr + 1 \notin 1 .. Len(trail) - 1
        BY <1>2, <1>4, <2>2
    <2> QED BY <2>1, <2>2
<1>6. IsFcn(doc) /\ "models" \in DOMAIN doc
    BY DocumentDiagram DEF Fields
<1>7. IsFcn(doc["models"]) /\ x \in DOMAIN doc["models"] /\ Named(x)
    BY DocumentModels
<1>8. Held(d, meta, z, m, u)
    BY <1>2, <1>3, <1>5, <1>6, <1>7, MergeHeld
<1>9. star' = star /\ stale' = stale
    BY <1>1, <1>2 DEF Starred, DocInv
<1>10. ASSUME ~stale PROVE SavedAt(z, star, file, u)
    <2>1. SavedAt(z, star, file, trail)
        BY <1>10 DEF DocInv
    <2>2. IsSeq(trail)
        BY <1>2 DEF Held
    <2>3. z.saved + 1 # z.curr + 1 /\ z.saved + 1 \in 1 .. Len(trail) /\ DOMAIN trail = 1 .. Len(trail)
        BY <1>2, <1>3, <1>4, <2>1, <2>2 DEF SavedAt, IsSeq
    <2>4. u[z.saved + 1] = trail[z.saved + 1]
        BY <2>3
    <2>5. Len(u) = Len(trail)
        <3>1. DOMAIN u = 1 .. Len(trail)
            BY <2>3
        <3>2. IsSeq(u)
            BY <1>8 DEF Held
        <3> HIDE DEF u
        <3>3. Len(u) \in Nat /\ DOMAIN u = 1 .. Len(u)
            BY <3>2 DEF IsSeq
        <3> QED BY <1>4, <3>1, <3>3
    <2> QED BY <2>1, <2>4, <2>5 DEF SavedAt
<1>11. IsDocument(d)
    BY DEF Good
<1> HIDE DEF u
<1>12. Held(doc', meta', z', m', trail') /\ (~stale => SavedAt(z', star', file', trail'))
    BY <1>1, <1>8, <1>9, <1>10
<1>13. IsDocument(doc') /\ IsStack(z') /\ IsStack(m') /\ slipped' = FALSE
    BY <1>1, <1>2, <1>11
<1>14. star' \in BOOLEAN /\ stale' \in BOOLEAN
    BY <1>9 DEF DocInv
<1> QED BY <1>9, <1>12, <1>13, <1>14 DEF DocInv

LEMMA SetPositionStep ==
    ASSUME DocInv, Good(doc), NEW x, NEW pos \in 0 .. 1, SetPosition(x, pos)
    PROVE  DocInv'
<1> DEFINE q == Child("models", x)
           type == "setPositionToModel"
           d == [doc EXCEPT !.models[x]["at"] = pos]
           r == Put(doc.models[x], "at", pos)
<1>1. x \in DOMAIN doc.models /\ EditWith("Diagram", q, type, d)
    BY DEF SetPosition
<1>2. ModelIn(doc.models[x]) /\ Named(x)
    BY <1>1, DocumentModels
<1>3. ModelIn(Put(doc.models[x], "at", pos))
    BY <1>2 DEF Put, ModelIn, ModelType
<1>4. Good(d) /\ Differ(doc, d, q) /\ d = Put(doc, "models", Put(doc.models, x, r))
    <2>1. d = [doc EXCEPT !.models[x]["at"] = pos]
        OBVIOUS
    <2> HIDE DEF d
    <2> QED BY <1>1, <1>3, <2>1, AttributeChanged
<1>5. d = Replace(doc, q, r)
    <2>1. x \in DOMAIN doc["models"]
        BY <1>1
    <2> HIDE DEF r, d
    <2> QED BY <1>2, <1>4, <2>1, ChildReplace
<1> HIDE DEF d, r
<1>6. ~slipped
    BY <1>1 DEF EditWith, Room
<1>7. CASE ~Mergeable(z, q, type)
    <2> HIDE DEF q
    <2> QED BY <1>1, <1>4, <1>7, EditWithStep
<1>8. CASE Mergeable(z, q, type)
    <2>1. z.curr \in Nat /\ m.curr = z.curr /\ IsStack(z) /\ IsStack(m)
        BY <1>6, Heights
    <2>2. Snapshot(z, doc, q, type, "Diagram") = z
        BY <1>8 DEF Snapshot
    <2>3. LevelZ(z, m, "Diagram") = z /\ LevelM(z, m, "Diagram") = m
        BY <2>1, RaiseNone DEF LevelZ, LevelM
    <2> HIDE DEF q
    <2>4. Commit(z, m, d, meta, <<>>, z = z /\ HasTail(z))
        BY <1>1, <2>2, <2>3 DEF EditWith
    <2>5. CASE HasTail(z)
        <3>1. Commit(z, m, d, meta, <<>>, TRUE)
            BY <2>4, <2>5 DEF Commit
        <3>2. IsDocument(d)
            BY <1>4 DEF Good
        <3> QED BY <2>1, <3>1, <3>2, SlipStep
    <2>6. CASE ~HasTail(z)
        <3>1. Commit(z, m, d, meta, <<>>, FALSE)
            BY <2>4, <2>6 DEF Commit
        <3> QED BY <1>1, <1>4, <1>5, <1>6, <1>8, <2>6, <3>1, MergedStep DEF q
    <2> QED BY <2>5, <2>6
<1> QED BY <1>7, <1>8

-----------------------------------------------------------------------------
(* Undo, redo, save.                                                       *)

\* A step along the trail.
LEMMA AlongStep ==
    ASSUME DocInv, ~slipped, Held(doc', meta', z', m', trail), z'.saved = z.saved,
           z'.curr \in {z.curr, z.curr + 1, z.curr - 1},
           star' = Starred(star, z.curr, z'.curr, z.saved),
           UNCHANGED <<file, trail, slipped, stale>>
    PROVE  DocInv'
<1>1. z.curr \in Nat /\ z.saved \in Nat /\ star \in BOOLEAN /\ stale \in BOOLEAN
    BY HeldTypes DEF DocInv
<1>2. IsStack(z') /\ IsStack(m') /\ Good(doc')
    BY HeldTypes
<1>3. IsDocument(doc')
    BY <1>2 DEF Good
<1>4. star' \in BOOLEAN
    BY <1>1, StarredIs
<1>5. ASSUME ~stale PROVE SavedAt(z', star', file, trail)
    <2>1. SavedAt(z, star, file, trail)
        BY <1>5 DEF DocInv
    <2> QED BY <1>1, <2>1, SavedAlong
<1> QED BY <1>1, <1>2, <1>3, <1>4, <1>5 DEF DocInv

LEMMA UndoStep ==
    ASSUME DocInv, NEW tab, Undo(tab)
    PROVE  DocInv'
<1>1. /\ ~slipped /\ z' = UndoStack(z, doc, tab) /\ doc' = UndoDocument(z, doc, tab)
      /\ m' = UndoStack(m, meta, tab) /\ meta' = UndoDocument(m, meta, tab)
      /\ star' = Starred(star, z.curr, z'.curr, z.saved)
      /\ UNCHANGED <<file, trail, slipped, stale>>
    BY DEF Undo
<1>2. Held(doc, meta, z, m, trail)
    BY <1>1 DEF DocInv
<1>3. Held(doc', meta', z', m', trail) /\ z'.saved = z.saved /\ z'.curr \in {z.curr, z.curr - 1}
    BY <1>1, <1>2, UndoHeld
<1> QED BY <1>1, <1>3, AlongStep

LEMMA RedoStep ==
    ASSUME DocInv, NEW tab, Redo(tab)
    PROVE  DocInv'
<1>1. /\ ~slipped /\ z' = RedoStack(z, tab) /\ doc' = RedoDocument(z, doc, tab)
      /\ m' = RedoStack(m, tab) /\ meta' = RedoDocument(m, meta, tab)
      /\ star' = Starred(star, z.curr, z'.curr, z.saved)
      /\ UNCHANGED <<file, trail, slipped, stale>>
    BY DEF Redo
<1>2. Held(doc, meta, z, m, trail)
    BY <1>1 DEF DocInv
<1>3. Held(doc', meta', z', m', trail) /\ z'.saved = z.saved /\ z'.curr \in {z.curr, z.curr + 1}
    BY <1>1, <1>2, RedoHeld
<1> QED BY <1>1, <1>3, AlongStep

\* The saved height is the height.
LEMMA SavedStack ==
    ASSUME NEW s, IsStack(s)
    PROVE  LET r == RegisterSaveState(s)
           IN  IsStack(r) /\ r.curr = s.curr /\ r.diffs = s.diffs /\ r.saved = s.curr
BY DEF RegisterSaveState, IsStack, IsFcn

LEMMA SavedHistory ==
    ASSUME NEW s, NEW r, NEW t, NEW part, History(s, t, part), IsStack(r), r.curr = s.curr, r.diffs = s.diffs
    PROVE  History(r, t, part)
BY DEF History

LEMMA SaveStep ==
    ASSUME DocInv, Save
    PROVE  DocInv'
<1>1. /\ z' = RegisterSaveState(z) /\ m' = RegisterSaveState(m)
      /\ star' = FALSE /\ stale' = (file' # Pair(doc, meta)) /\ UNCHANGED <<doc, meta, trail, slipped>>
    BY DEF Save
<1>2. IsStack(z) /\ IsStack(m) /\ IsDocument(doc) /\ slipped \in BOOLEAN
    BY DEF DocInv
<1>3. /\ IsStack(z') /\ z'.curr = z.curr /\ z'.diffs = z.diffs /\ z'.saved = z.curr
      /\ IsStack(m') /\ m'.curr = m.curr /\ m'.diffs = m.diffs
    BY <1>1, <1>2, SavedStack
<1>4. ASSUME ~slipped
      PROVE  Held(doc, meta, z', m', trail) /\ (~stale' => SavedAt(z', FALSE, file', trail))
    <2>1. Held(doc, meta, z, m, trail)
        BY <1>4 DEF DocInv
    <2>2. History(z, trail, "vpz") /\ History(m, trail, "vpm")
        BY <2>1 DEF Held
    <2>3. History(z', trail, "vpz") /\ History(m', trail, "vpm")
        BY <1>3, <2>2, SavedHistory
    <2>4. Held(doc, meta, z', m', trail)
        BY <1>3, <2>1, <2>3 DEF Held
    <2>5. z.curr < Len(trail) /\ trail[z.curr + 1] = Pair(doc, meta)
        BY <2>1 DEF Held, History
    <2>6. ASSUME ~stale' PROVE SavedAt(z', FALSE, file', trail)
        <3>1. file' = Pair(doc, meta)
            BY <1>1, <2>6
        <3> QED BY <1>1, <1>3, <2>5, <3>1 DEF SavedAt
    <2> QED BY <2>4, <2>6
<1>5. stale' \in BOOLEAN
    BY <1>1
<1> QED BY <1>1, <1>2, <1>3, <1>4, <1>5 DEF DocInv

-----------------------------------------------------------------------------
(* The invariant.                                                          *)

LEMMA EmptyStackIs ==
    /\ IsStack(EmptyStack) /\ EmptyStack.curr = 0 /\ EmptyStack.saved = 0
    /\ \A j \in 1 .. Size : EmptyStack.diffs[j].isDefined = FALSE
<1>1. IsEntry(Undefined) /\ Undefined.isDefined = FALSE
    BY DEF IsEntry, IsFcn, Undefined
<1>2. 0 \in 0 .. Size
    BY SizeAssumption
<1>3. IsStack(EmptyStack)
    BY <1>1, <1>2 DEF IsStack, EmptyStack, IsFcn
<1> QED BY <1>1, <1>3 DEF EmptyStack

LEMMA InitHolds ==
    ASSUME Init
    PROVE  DocInv
<1> DEFINE p == Pair(doc, meta)
<1>1. /\ doc = InitialDoc /\ z = EmptyStack /\ m = EmptyStack /\ star = FALSE /\ file = p
      /\ trail = <<p>> /\ slipped = FALSE /\ stale = FALSE
    BY DEF Init
<1>2. IsMeta(meta)
    BY DEF Init, IsMeta, IsFcn
<1>3. Good(doc)
    BY <1>1, InitialDocAssumption DEF Good
<1>4. IsPair(p)
    BY <1>2, <1>3, GoodPair
<1> HIDE DEF p
<1>5. IsSeq(trail) /\ Len(trail) = 1 /\ trail[1] = p
    <2>1. trail \in Seq({p}) /\ Len(trail) = 1 /\ trail[1] = p
        BY <1>1
    <2> QED BY <2>1 DEF IsSeq
<1>6. /\ IsStack(z) /\ z.curr = 0 /\ z.saved = 0 /\ IsStack(m) /\ m.curr = 0
      /\ \A j \in 1 .. Size : z.diffs[j].isDefined = FALSE /\ m.diffs[j].isDefined = FALSE
    BY <1>1, EmptyStackIs
<1>7. 1 .. Len(trail) - 1 = {} /\ z.curr + 1 .. Len(trail) - 1 = {} /\ Len(trail) .. Size = 1 .. Size
      /\ m.curr + 1 .. Len(trail) - 1 = {} /\ z.curr < Len(trail) /\ Len(trail) <= Size + 1
    BY <1>5, <1>6, SizeAssumption
<1>8. History(z, trail, "vpz")
    BY <1>6, <1>7 DEF History
<1>9. History(m, trail, "vpm")
    BY <1>6, <1>7 DEF History
<1>10. \A j \in 1 .. Len(trail) : IsPair(trail[j])
    BY <1>4, <1>5
<1>11. Held(doc, meta, z, m, trail)
    BY <1>5, <1>6, <1>7, <1>8, <1>9, <1>10 DEF Held, p
<1>12. SavedAt(z, star, file, trail)
    BY <1>1, <1>5, <1>6 DEF SavedAt
<1>13. IsDocument(doc)
    BY <1>3 DEF Good
<1> QED BY <1>1, <1>6, <1>11, <1>12, <1>13 DEF DocInv

\* One step per group of operations; nothing but saving follows a slip.
LEMMA NextStep ==
    ASSUME DocInv, Next
    PROVE  DocInv'
<1>1. ASSUME NEW n \in Dyns,
             AddDynamic(n) \/ RemoveDyn(n) \/ \E new \in Dyns : RenameDynamic(n, new)
      PROVE  DocInv'
    <2>1. ~slipped
        BY <1>1 DEF AddDynamic, RemoveDyn, RenameDynamic, Edit, EditWith, Room
    <2>2. Good(doc)
        BY <2>1, Heights
    <2> QED BY <1>1, <2>2, AddDynamicStep, RemoveDynStep, RenameDynamicStep
<1>2. ASSUME NEW n \in Conds,
             \/ AddCondition(n) \/ AddConditionFromPlugin(n) \/ RmCondition(n)
             \/ RemoveCondGUIplugin(n) \/ \E new \in Conds : RenameCondition(n, new)
      PROVE  DocInv'
    <2>1. ~slipped
        BY <1>2 DEF AddCondition, AddConditionFromPlugin, RmCondition, RemoveCondGUIplugin,
           RenameCondition, Edit, EditWith, Room
    <2>2. Good(doc)
        BY <2>1, Heights
    <2> QED BY <1>2, <2>2, AddConditionStep, AddConditionFromPluginStep, RmConditionStep,
               RemoveCondGUIpluginStep, RenameConditionStep
<1>3. ASSUME NEW n \in Conds, NEW p \in CondPorts,
             AddCondPort(n, p) \/ RmCondPort(n, p) \/ \E new \in CondPorts : RenameCondPort(n, p, new)
      PROVE  DocInv'
    <2>1. ~slipped
        BY <1>3 DEF AddCondPort, RmCondPort, RenameCondPort, Edit, EditWith, Room
    <2>2. Good(doc)
        BY <2>1, Heights
    <2> QED BY <1>3, <2>2, AddCondPortStep, RmCondPortStep, RenameCondPortStep
<1>4. ASSUME NEW v \in Views,
             \/ AddView(v) \/ RmView(v) \/ \E new \in Views : RenameView(v, new)
             \/ \E output \in Outputs : SetOutputPlugin(v, output)
      PROVE  DocInv'
    <2>1. ~slipped
        BY <1>4 DEF AddView, RmView, RenameView, SetOutputPlugin, EditViews, Edit, EditWith, Room
    <2>2. Good(doc)
        BY <2>1, Heights
    <2> QED BY <1>4, <2>2, AddViewStep, RmViewStep, RenameViewStep, SetOutputPluginStep
<1>5. ASSUME NEW n \in Obs,
             AddObservable(n) \/ RmObservable(n) \/ \E new \in Obs : RenameObservable(n, new)
      PROVE  DocInv'
    <2>1. ~slipped
        BY <1>5 DEF AddObservable, RmObservable, RenameObservable, Edit, EditWith, Room
    <2>2. Good(doc)
        BY <2>1, Heights
    <2> QED BY <1>5, <2>2, AddObservableStep, RmObservableStep, RenameObservableStep
<1>6. ASSUME NEW n \in Obs, NEW p \in ObsPorts,
             \/ AddObsPort(n, p) \/ RmObsPort(n, p)
             \/ \E new \in ObsPorts : RenameObsPort(n, p, new)
             \/ \E v \in Views : AttachView(n, p, v) \/ RmViewToObsPort(n, p, v)
      PROVE  DocInv'
    <2>1. ~slipped
        BY <1>6 DEF AddObsPort, RmObsPort, RenameObsPort, AttachView, RmViewToObsPort,
           Edit, EditWith, EditClash, Room
    <2>2. Good(doc)
        BY <2>1, Heights
    <2> QED BY <1>6, <2>2, AddObsPortStep, RmObsPortStep, RenameObsPortStep, AttachViewStep,
               RmViewToObsPortStep
<1>7. ASSUME NEW x \in Models, AddModel(x) \/ \E new \in Models : RenameModel(x, new)
      PROVE  DocInv'
    <2>1. ~slipped
        BY <1>7 DEF AddModel, RenameModel, Edit, EditWith, Room
    <2>2. Good(doc)
        BY <2>1, Heights
    <2> QED BY <1>7, <2>2, AddModelStep, RenameModelStep
<1>8. ASSUME NEW xs \in SUBSET Models, RmModelsFromCoupled(xs)
      PROVE  DocInv'
    <2>1. ~slipped
        BY <1>8 DEF RmModelsFromCoupled, Edit, EditWith, Room
    <2>2. Good(doc)
        BY <2>1, Heights
    <2> QED BY <1>8, <2>2, RmModelsStep
<1>9. ASSUME NEW x \in DOMAIN doc.models \cup {Top}, NEW side \in {"in", "out"}, NEW p \in Ports,
             \/ AddModelPort(x, side, p) \/ RmModelPort(x, side, p)
             \/ \E new \in Ports : RenameModelPort(x, side, p, new)
      PROVE  DocInv'
    <2>1. ~slipped
        BY <1>9 DEF AddModelPort, RmModelPort, RenameModelPort, Edit, EditWith, EditClash, Room
    <2>2. Good(doc)
        BY <2>1, Heights
    <2> QED BY <1>9, <2>2, AddModelPortStep, RmModelPortStep, RenameModelPortStep
<1>10. ASSUME NEW o \in Origins, NEW e \in Destinations, AddModelConnection(o, e)
       PROVE  DocInv'
    <2>1. ~slipped
        BY <1>10 DEF AddModelConnection, Edit, EditWith, Room
    <2>2. Good(doc)
        BY <2>1, Heights
    <2> QED BY <1>10, <2>2, AddModelConnectionStep
<1>11. ASSUME NEW c \in doc.connections, RmModelConnection(c)
       PROVE  DocInv'
    <2>1. ~slipped
        BY <1>11 DEF RmModelConnection, Edit, EditWith, Room
    <2>2. Good(doc)
        BY <2>1, Heights
    <2> QED BY <1>11, <2>2, RmModelConnectionStep
<1>12. ASSUME NEW x \in Models,
              \/ \E pos \in 0 .. 1 : SetPosition(x, pos)
              \/ \E n \in doc.dynamics \cup {None} : SetDynToAtomicModel(x, n)
              \/ \E n \in DOMAIN doc.conditions : AttachCond(x, n) \/ DetachCond(x, n)
              \/ \E n \in DOMAIN doc.observables \cup {None} : SetObsToAtomicModel(x, n)
       PROVE  DocInv'
    <2>1. ~slipped
        BY <1>12 DEF SetPosition, SetDynToAtomicModel, AttachCond, DetachCond, SetObsToAtomicModel,
           Edit, EditWith, Room
    <2>2. Good(doc)
        BY <2>1, Heights
    <2> QED BY <1>12, <2>2, SetPositionStep, SetDynStep, AttachCondStep, DetachCondStep, SetObsStep
<1>13. CASE Save
    BY <1>13, SaveStep
<1>14. ASSUME NEW tab \in Tabs, Undo(tab) \/ Redo(tab)
       PROVE  DocInv'
    BY <1>14, UndoStep, RedoStep
<1> QED BY <1>1, <1>2, <1>3, <1>4, <1>5, <1>6, <1>7, <1>8, <1>9, <1>10, <1>11, <1>12, <1>13, <1>14
        DEF Next

LEMMA StutterStep ==
    ASSUME DocInv, UNCHANGED vars
    PROVE  DocInv'
BY DEF DocInv, vars

\* Every operation of the editor leaves an entry on each stack that leads back
\* to the document it found, or is one of those that slip; undo, redo and save
\* go along the trail (vlevpz.cpp, dom_tools.cpp).
THEOREM DocumentInvariant == Spec => []DocInv
<1>1. Init => DocInv
    BY InitHolds
<1>2. DocInv /\ [Next]_vars => DocInv'
    BY NextStep, StutterStep
<1> QED BY <1>1, <1>2, PTL DEF Spec

-----------------------------------------------------------------------------
(* The walks of the stacks show the documents of the trail.                *)

LEMMA BackwardShows ==
    ASSUME NEW s, NEW t, NEW part, History(s, t, part), IsSeq(t), NEW j \in 1 .. s.curr + 1
    PROVE  Backward(s, t[s.curr + 1][part], j) = t[j][part]
<1> DEFINE n == s.curr + 1
           d == t[n][part]
           Walk(w) == w = [i \in j .. n |-> IF i = n THEN d
                             ELSE Replace(w[i + 1], s.diffs[i].query, s.diffs[i].before)]
           walk == CHOOSE w : Walk(w)
           shown == [i \in j .. n |-> t[i][part]]
           S == {k \in Nat : k <= n - j => walk[n - k] = t[n - k][part]}
<1>1. Backward(s, d, j) = walk[j]
    BY DEF Backward
<1>2. s.curr \in Nat /\ Len(t) \in Nat /\ s.curr < Len(t) /\ n \in Nat /\ j \in 1 .. n
    BY SizeAssumption DEF History, IsStack, IsSeq
<1>3. ASSUME NEW i \in j .. n, i # n
      PROVE  i + 1 \in j .. n /\ Replace(t[i + 1][part], s.diffs[i].query, s.diffs[i].before) = t[i][part]
    <2>1. i \in 1 .. Len(t) - 1 /\ i + 1 \in j .. n
        BY <1>2, <1>3
    <2> QED BY <2>1 DEF History, Undoes
<1>4. Walk(shown)
    <2> HIDE DEF d
    <2>1. \A i \in j .. n : shown[i] = IF i = n THEN d
                              ELSE Replace(shown[i + 1], s.diffs[i].query, s.diffs[i].before)
        BY <1>3 DEF d
    <2> QED BY <2>1
<1> HIDE DEF Walk, S
<1>5. Walk(walk)
    BY <1>4
<1> HIDE DEF walk, shown, d
<1>6. 0 \in S
    <2>1. n - 0 = n /\ n \in j .. n
        BY <1>2
    <2>2. walk[n] = d
        BY <1>5, <2>1 DEF Walk
    <2> QED BY <2>1, <2>2 DEF S, d
<1>7. ASSUME NEW k \in S PROVE k + 1 \in S
    <2>1. k \in Nat /\ k + 1 \in Nat
        BY DEF S
    <2>2. SUFFICES ASSUME k + 1 <= n - j PROVE walk[n - (k + 1)] = t[n - (k + 1)][part]
        BY <2>1 DEF S
    <2> DEFINE i == n - (k + 1)
    <2>3. i \in j .. n /\ i # n /\ i + 1 = n - k /\ k <= n - j
        <3>1. n \in Nat /\ j \in Nat /\ j >= 1 /\ k + 1 <= n - j
            BY <1>2, <2>2
        <3> HIDE DEF n
        <3> QED BY <2>1, <3>1
    <2>4. walk[i + 1] = t[i + 1][part]
        BY <2>3 DEF S
    <2> HIDE DEF i
    <2>5. walk[i] = Replace(walk[i + 1], s.diffs[i].query, s.diffs[i].before)
        BY <1>5, <2>3 DEF Walk
    <2>6. walk[i] = t[i][part]
        BY <1>3, <2>3, <2>4, <2>5
    <2> QED BY <2>6 DEF i
<1>8. S = Nat
    <2>1. S \in SUBSET Nat
        BY DEF S
    <2> QED BY <1>6, <1>7, <2>1, SetInduction
<1>9. n - j \in Nat /\ n - (n - j) = j
    BY <1>2
<1>10. walk[j] = t[j][part]
    BY <1>8, <1>9 DEF S
<1> QED BY <1>1, <1>10 DEF d

LEMMA ForwardShows ==
    ASSUME NEW s, NEW t, NEW part, History(s, t, part), IsSeq(t), NEW j \in s.curr .. Len(t) - 1
    PROVE  Forward(s, t[s.curr + 1][part], j) = t[j + 1][part]
<1> DEFINE n == s.curr
           d == t[n + 1][part]
           Walk(w) == w = [i \in n .. j |-> IF i = n THEN d
                             ELSE Replace(w[i - 1], s.diffs[i].query, s.diffs[i].after)]
           walk == CHOOSE w : Walk(w)
           shown == [i \in n .. j |-> t[i + 1][part]]
           S == {k \in Nat : k <= j - n => walk[n + k] = t[n + k + 1][part]}
<1>1. Forward(s, d, j) = walk[j]
    BY DEF Forward
<1>2. n \in Nat /\ Len(t) \in Nat /\ n < Len(t) /\ j \in n .. Len(t) - 1 /\ j \in Nat
    BY SizeAssumption DEF History, IsStack, IsSeq
<1>3. ASSUME NEW i \in n .. j, i # n
      PROVE  i - 1 \in n .. j /\ Replace(t[i][part], s.diffs[i].query, s.diffs[i].after) = t[i + 1][part]
    <2>1. i \in s.curr + 1 .. Len(t) - 1 /\ i - 1 \in n .. j
        BY <1>2, <1>3
    <2> QED BY <2>1 DEF History, Redoes
<1>4. Walk(shown)
    <2> HIDE DEF d
    <2>1. \A i \in n .. j : i # n => shown[i - 1] = t[i][part]
        <3>1. \A i \in n .. j : (i - 1) + 1 = i
            BY <1>2
        <3> QED BY <1>3, <3>1
    <2>2. \A i \in n .. j : shown[i] = IF i = n THEN d
                              ELSE Replace(shown[i - 1], s.diffs[i].query, s.diffs[i].after)
        BY <1>3, <2>1 DEF d
    <2> QED BY <2>2
<1> HIDE DEF Walk, S
<1>5. Walk(walk)
    BY <1>4
<1> HIDE DEF walk, shown, d
<1>6. 0 \in S
    <2>1. n + 0 = n /\ n + 0 + 1 = n + 1 /\ n \in n .. j
        BY <1>2
    <2>2. walk[n] = d
        BY <1>5, <2>1 DEF Walk
    <2> QED BY <2>1, <2>2 DEF S, d
<1>7. ASSUME NEW k \in S PROVE k + 1 \in S
    <2>1. k \in Nat /\ k + 1 \in Nat
        BY DEF S
    <2>2. SUFFICES ASSUME k + 1 <= j - n PROVE walk[n + (k + 1)] = t[n + (k + 1) + 1][part]
        BY <2>1 DEF S
    <2> DEFINE i == n + (k + 1)
    <2>3. i \in n .. j /\ i # n /\ i - 1 = n + k /\ n + k + 1 = i /\ k <= j - n
        BY <1>2, <2>1, <2>2
    <2>4. walk[i - 1] = t[i][part]
        BY <2>3 DEF S
    <2> HIDE DEF i
    <2>5. walk[i] = Replace(walk[i - 1], s.diffs[i].query, s.diffs[i].after)
        BY <1>5, <2>3 DEF Walk
    <2>6. walk[i] = t[i + 1][part]
        BY <1>3, <2>3, <2>4, <2>5
    <2> QED BY <2>6 DEF i
<1>8. S = Nat
    <2>1. S \in SUBSET Nat
        BY DEF S
    <2> QED BY <1>6, <1>7, <2>1, SetInduction
<1>9. j - n \in Nat /\ n + (j - n) = j
    BY <1>2
<1>10. walk[j] = t[j + 1][part]
    BY <1>8, <1>9 DEF S
<1> QED BY <1>1, <1>10 DEF d

-----------------------------------------------------------------------------
(* The properties.                                                         *)

LEMMA TrailIsExact ==
    ASSUME DocInv
    PROVE  UndoExact
<1> SUFFICES ASSUME ~slipped
             PROVE  /\ z.curr = m.curr
                    /\ Pair(doc, meta) = trail[z.curr + 1]
                    /\ \A j \in 1 .. z.curr :
                         Pair(Backward(z, doc, j), Backward(m, meta, j)) = trail[j]
                    /\ \A j \in z.curr + 1 .. Len(trail) - 1 :
                         /\ z.diffs[j].isDefined /\ m.diffs[j].isDefined
                         /\ Pair(Forward(z, doc, j), Forward(m, meta, j)) = trail[j + 1]
    BY DEF UndoExact
<1>1. Held(doc, meta, z, m, trail) /\ z.curr \in Nat /\ m.curr = z.curr
    BY Heights
<1>2. Len(trail) \in Nat /\ z.curr < Len(trail)
    BY <1>1, HeldTypes
<1>3. /\ IsSeq(trail) /\ History(z, trail, "vpz") /\ History(m, trail, "vpm")
      /\ trail[z.curr + 1] = Pair(doc, meta) /\ \A j \in 1 .. Len(trail) : IsPair(trail[j])
    BY <1>1 DEF Held
<1>4. /\ trail[z.curr + 1]["vpz"] = doc /\ trail[z.curr + 1]["vpm"] = meta
      /\ trail[m.curr + 1]["vpm"] = meta
    BY <1>1, <1>3, PairIs
<1>5. ASSUME NEW j \in 1 .. z.curr
      PROVE  Pair(Backward(z, doc, j), Backward(m, meta, j)) = trail[j]
    <2>1. j \in 1 .. z.curr + 1 /\ j \in 1 .. m.curr + 1 /\ j \in 1 .. Len(trail)
        BY <1>1, <1>2
    <2>2. Backward(z, trail[z.curr + 1]["vpz"], j) = trail[j]["vpz"]
        BY <1>3, <2>1, BackwardShows
    <2>3. Backward(m, trail[m.curr + 1]["vpm"], j) = trail[j]["vpm"]
        BY <1>3, <2>1, BackwardShows
    <2>4. trail[j] = Pair(trail[j]["vpz"], trail[j]["vpm"])
        BY <1>3, <2>1 DEF IsPair
    <2> QED BY <1>4, <2>2, <2>3, <2>4
<1>6. ASSUME NEW j \in z.curr + 1 .. Len(trail) - 1
      PROVE  /\ z.diffs[j].isDefined /\ m.diffs[j].isDefined
             /\ Pair(Forward(z, doc, j), Forward(m, meta, j)) = trail[j + 1]
    <2>1. /\ j \in z.curr .. Len(trail) - 1 /\ j \in m.curr .. Len(trail) - 1
          /\ j \in 1 .. Len(trail) - 1 /\ j + 1 \in 1 .. Len(trail)
        BY <1>1, <1>2
    <2>2. Forward(z, trail[z.curr + 1]["vpz"], j) = trail[j + 1]["vpz"]
        BY <1>3, <2>1, ForwardShows
    <2>3. Forward(m, trail[m.curr + 1]["vpm"], j) = trail[j + 1]["vpm"]
        BY <1>3, <2>1, ForwardShows
    <2>4. trail[j + 1] = Pair(trail[j + 1]["vpz"], trail[j + 1]["vpm"])
        BY <1>3, <2>1 DEF IsPair
    <2>5. z.diffs[j].isDefined = TRUE /\ m.diffs[j].isDefined = TRUE
        BY <1>3, <2>1 DEF History
    <2>6. Pair(Forward(z, doc, j), Forward(m, meta, j)) = trail[j + 1]
        BY <1>4, <2>2, <2>3, <2>4
    <2> QED BY <2>5, <2>6
<1> QED BY <1>1, <1>3, <1>5, <1>6

\* Undo and redo, as far as they go from any reachable state, show exactly the
\* documents the user saw between two entries, and keep both stacks at one
\* height, as long as no operation slipped: for every set of names and every
\* size of the stacks (vleVpz::undo, vleVpz::redo, DomDiffStack).
THEOREM UndoIsExact == Spec => []UndoExact
<1>1. DocInv => UndoExact
    BY TrailIsExact
<1> QED BY <1>1, DocumentInvariant, PTL

\* Every name a model, an observable, a view or a connection refers to is in the
\* document, whatever is added, removed, renamed, undone and redone, until an
\* operation slips; every field keeps its kind even then.
THEOREM NamesAlwaysResolve == Spec => []NamesResolve
<1>1. DocInv => NamesResolve
    <2> SUFFICES ASSUME DocInv PROVE NamesResolve
        OBVIOUS
    <2>1. TypeOK
        BY DEF TypeOK, DocInv, IsStack
    <2>2. ASSUME ~slipped PROVE ReferencesIn(doc) /\ ConnectionsIn(doc)
        BY <2>2, Heights DEF Good
    <2> QED BY <2>1, <2>2 DEF NamesResolve, ReferencesResolve, ConnectionsResolve
<1> QED BY <1>1, DocumentInvariant, PTL

\* A document shown without a star is the one in the files, as long as the last
\* save wrote both and the entry of the saved state was not overwritten
\* (tryEmitUndoAvailability, registerSaveState, and merging that stops at the
\* saved entry).
THEOREM UnstarredIsInFile == Spec => []UnstarredIsSaved
<1>1. DocInv => UnstarredIsSaved
    <2> SUFFICES ASSUME DocInv, ~slipped, ~stale, ~star PROVE file = Pair(doc, meta)
        BY DEF UnstarredIsSaved
    <2>1. SavedAt(z, star, file, trail) /\ Held(doc, meta, z, m, trail)
        BY DEF DocInv
    <2>2. z.curr = z.saved /\ file = trail[z.saved + 1]
        BY <2>1 DEF SavedAt
    <2> QED BY <2>1, <2>2 DEF Held
<1> QED BY <1>1, DocumentInvariant, PTL
=============================================================================
