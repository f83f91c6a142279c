------------------------------ MODULE MCSession ------------------------------
(* Instance of Session for TLC. *)
EXTENDS Session, TLC

CONSTANTS t1, t2, t3

MCThreads == {t1, t2, t3}
ThreadSymmetry == Permutations(Threads)

\* No step reads or writes logger: the three values it may start with have the
\* same behaviours, which are explored once.
SessionView == <<controllerVars, clientVars, localVars, historyVars>>
=============================================================================
