---------------------------- MODULE MCCoordinator ----------------------------
(***************************************************************************)
(* Instances of Coordinator for TLC.                                       *)
(*                                                                         *)
(* Structure: a dynamics d and an executive e in the top model, a coupled  *)
(* model c that holds an executive f and a dynamics x created on demand.   *)
(* The two executives are at different depths, each may delete what it     *)
(* finds in its own coupled model, itself and the other's included.        *)
(*                                                                         *)
(* Flat: two dynamics, one of them created on demand, and one executive.   *)
(***************************************************************************)
EXTENDS Coordinator

CONSTANTS d, x, e, f, c, v, w

StructureSim == {d, x, e, f}
StructureExec == {e, f}
StructureModel == StructureSim \cup {c}
StructureAbove ==
    [m \in StructureModel |-> IF m \in {x, f} THEN {c} ELSE {}]
StructureInitial == {d, e, f, c}
StructureConn == {<<d, e>>, <<e, d>>, <<d, x>>, <<x, d>>, <<f, e>>}
StructureObserves == [view \in {v} |-> {d, x}]
StructureAttached ==
    [s \in StructureSim |-> CASE s = d -> {"output", "internal", "confluent"}
                             [] s = e -> {"output", "external"}
                             [] OTHER -> {}]
StructureTimestep == [view \in {v} |-> 1]

FlatSim == {d, x, e}
FlatExec == {e}
FlatAbove == [m \in FlatSim |-> {}]
FlatInitial == {d, e}
FlatConn == {<<d, e>>, <<d, x>>, <<e, d>>, <<x, e>>}
FlatObserves == [view \in {v, w} |-> IF view = v THEN {d, x} ELSE {x}]
FlatAttached == [s \in FlatSim |-> {}]
FlatTimestep == [view \in {v, w} |-> IF view = v THEN 1 ELSE 2]
=============================================================================
