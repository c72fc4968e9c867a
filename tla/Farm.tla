-------------------------------- MODULE Farm --------------------------------
(***************************************************************************)
(* What a set of simulations promises to its user, without processes,      *)
(* threads or messages: each row is taken once and its results are written *)
(* once, and the end is only announced when the results of all the rows    *)
(* are there; otherwise a failure is.  Cvle and Plan implement it.         *)
(***************************************************************************)
EXTENDS Naturals

VARIABLES
    rows,     \* the rows of the input
    gap,      \* whether the input has an empty line, which may end it
    taken,    \* rows given to a simulation process
    written,  \* rows whose results are in the output
    status    \* "running", "ended" or "failed"

inputVars == <<rows, gap>>
vars == <<inputVars, taken, written, status>>

Init == rows \subseteq Nat /\ gap \in BOOLEAN /\ taken = {} /\ written = {} /\ status = "running"

\* A process that does not know of a failure yet may go on.
Take(S) ==
    /\ status # "ended"
    /\ S \subseteq rows \ taken
    /\ taken' = taken \cup S
    /\ UNCHANGED <<inputVars, written, status>>

\* The results of one block are written, and the next block is taken.
Write(W, S) ==
    /\ status = "running"
    /\ W \subseteq taken \ written
    /\ S \subseteq rows \ taken
    /\ written' = written \cup W
    /\ taken' = taken \cup S
    /\ UNCHANGED <<inputVars, status>>

End ==
    /\ status = "running"
    /\ written = taken
    /\ gap \/ taken = rows
    /\ status' = "ended"
    /\ UNCHANGED <<inputVars, taken, written>>

Fail ==
    /\ status = "running"
    /\ status' = "failed"
    /\ UNCHANGED <<inputVars, taken, written>>

Next ==
    \/ \E S \in SUBSET rows : Take(S)
    \/ \E W \in SUBSET taken, S \in SUBSET rows : Write(W, S)
    \/ End
    \/ Fail

Spec == Init /\ [][Next]_vars
=============================================================================
