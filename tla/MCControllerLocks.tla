-------------------------- MODULE MCControllerLocks --------------------------
(* Instance of ControllerLocks for TLC. *)
EXTENDS ControllerLocks, TLC

CONSTANTS t1, t2

MCThreads == {t1, t2}

\* An application that calls anything from anywhere.
Anything == [c \in Callbacks |-> Methods]

ThreadSymmetry == Permutations(Threads)
=============================================================================
