----------------------------- MODULE MCDocument ------------------------------
(* Two models of a diagram that share dynamics and a condition, one of them  *)
(* observed, with a connection between them and one to the outside.          *)
EXTENDS Document

MCDoc ==
  [dynamics |-> {"d1"},
   conditions |-> [n \in {"c1"} |-> {"k"}],
   views |-> {"v1"},
   outputs |-> [v \in {"v1"} |-> "vle.output"],
   observables |-> [n \in {"o1"} |-> [p \in {"q"} |-> {"v1"}]],
   top |-> [in |-> {}, out |-> {"p1"}],
   models |-> [x \in {"a", "b"} |->
                 [dyn |-> "d1", conds |-> {"c1"}, obs |-> IF x = "b" THEN "o1" ELSE None,
                  in |-> IF x = "b" THEN {"p1"} ELSE {}, out |-> {"p1"}, at |-> 0]],
   connections |-> {[orig |-> "a", oport |-> "p1", dest |-> "b", dport |-> "p1"],
                    [orig |-> "b", oport |-> "p1", dest |-> Top, dport |-> "p1"]}]
==============================================================================
