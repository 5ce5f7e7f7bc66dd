--------------------------- MODULE MCWindowCounter ---------------------------
(* Small instances of WindowCounter: one limiter, calls and timers alike.    *)
EXTENDS WindowCounter, TLC

CONSTANT l1

OneLimiter == [p \in Calls \cup Owners \cup Timers |-> l1]

(* Sleep or Close twice, Wake once.                                         *)
StopsTwice == [o \in Owners |-> IF o \in Stoppers THEN 2 ELSE 1]

Symmetry == Permutations(Calls) \cup Permutations(Timers)

=============================================================================
