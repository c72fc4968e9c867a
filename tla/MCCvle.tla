------------------------------- MODULE MCCvle -------------------------------
EXTENDS Cvle

CONSTANTS MaxLines, Cut \* longest input; whether the last newline is missing

\* Rows that give one or both conditions, or always both when they are
\* columns of a table.
Files(complex, rows, n) ==
    {[lines |-> l, newline |-> ~Cut, complex |-> complex] : l \in [1..n -> rows]}

SomeInputs ==
    LET fragments == UNION {Files(TRUE, {{1}, {1, 2}}, n) : n \in 1..MaxLines}
        tables == UNION {Files(FALSE, {{1, 2}, {}}, n) : n \in 1..MaxLines}
    IN fragments \cup {i \in tables : i.lines[1] # {} /\ (Cut => i.lines[Len(i.lines)] # {})}
=============================================================================
