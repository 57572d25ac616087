----------------------------- MODULE MCSimFlow ------------------------------
(* Instances of SimFlow for TLC. *)
EXTENDS SimFlow

\* a file of four records over four steps: one due at once, two that are
\* read ahead of their time, and the last, with which the file starts again
ShortTrace == << [t |-> 0, bytes |-> 1], [t |-> 2, bytes |-> 2],
                 [t |-> 3, bytes |-> 1], [t |-> 4, bytes |-> 1] >>
=============================================================================
