---------------------------- MODULE MCConnections ----------------------------
(***************************************************************************)
(* Instances of Connections for TLC: the root holds an atomic model a, an  *)
(* atomic model b created on demand, and a coupled model c with an atomic  *)
(* model x.  Every model of the initial graph has one input and one output *)
(* port p, and c a second input port q; a is connected to x through both   *)
(* input ports of c, and x to a.                                           *)
(***************************************************************************)
EXTENDS Connections

CONSTANTS root, a, b, c, x, p, q, none

TreeAtomic == {a, b, x}
TreeCoupled == {root, c}
TreeParent == [m \in {root, a, b, c, x} |->
                  CASE m = root -> none [] m = x -> c [] OTHER -> root]
TreeModels == {root, a, c, x}

TreePorts == [k \in {"in", "out", "internalIn", "internalOut"} |->
    [m \in {root, a, b, c, x} |->
        CASE m \in {a, x} /\ k \in {"in", "out"} -> {p}
          [] m = c -> IF k \in {"in", "internalIn"} THEN {p, q} ELSE {p}
          [] OTHER -> {}]]

TreeLinks == [k \in {"in", "out", "internalIn", "internalOut"} |->
    CASE k = "out" -> {<<a, p, c, p>>, <<a, p, c, q>>, <<x, p, c, p>>,
                       <<c, p, a, p>>}
      [] k = "in" -> {<<c, p, a, p>>, <<c, q, a, p>>, <<x, p, c, p>>,
                      <<x, p, c, q>>, <<a, p, c, p>>}
      [] k = "internalIn" -> {<<c, p, x, p>>, <<c, q, x, p>>}
      [] k = "internalOut" -> {<<c, p, x, p>>}]

\* All the operations.
AllOperations == Operation
=============================================================================
