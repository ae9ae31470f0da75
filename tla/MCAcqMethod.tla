---------------------------- MODULE MCAcqMethod -----------------------------
(* Instances of AcqMethod for TLC.                                         *)
EXTENDS AcqMethod

\* http with four requests in the pipe (ten in the code); one that shares its
\* worker's fate, and one that does not want the configuration.
Piped == {[depth |-> 4, config |-> c, eager |-> FALSE, closes |-> FALSE] : c \in BOOLEAN}
Eager == {[depth |-> 1, config |-> TRUE, eager |-> TRUE, closes |-> c] : c \in BOOLEAN}

SomeMethods == Piped \cup Eager

Pipelining == {[depth |-> 2, config |-> TRUE, eager |-> FALSE, closes |-> FALSE]}
=============================================================================
