------------------------ MODULE SubscriptionLifecycle ------------------------
(***************************************************************************)
(* What the subscriptions of a qmedia::QController promise, whoever calls  *)
(* it and however its calls interleave: the life of each namespace, and    *)
(* which of its SubscriptionDelegates the quicr::Client may hold.          *)
(*                                                                         *)
(*   absent --Register--> registered --Withdraw--> leaving --Remove--> absent *)
(*                                                                         *)
(* Every registration has a delegate of its own, numbered per namespace.   *)
(* A delegate reaches the client only through a start that got hold of it  *)
(* while it was registered, and in between the namespace may be withdrawn, *)
(* removed and registered again.  Nothing is said of threads, mutexes,     *)
(* manifests or the application's delegates.                               *)
(***************************************************************************)
EXTENDS Naturals

CONSTANT Namespaces

VARIABLES
    phase,          \* per namespace
    current,        \* the number of its last registration
    starts,         \* registrations a start has got hold of
    requested,      \* the registration the client holds, 0 for none
    connected       \* there is a client
vars == <<phase, current, starts, requested, connected>>

Init ==
    /\ phase = [n \in Namespaces |-> "absent"]
    /\ current = [n \in Namespaces |-> 0]
    /\ starts = [n \in Namespaces |-> {}]
    /\ requested = [n \in Namespaces |-> 0]
    /\ connected = FALSE

\* What the client holds after it was handed k for namespace n.
Handed(n, k) == IF connected THEN [requested EXCEPT ![n] = k] ELSE requested

Register(n) ==
    /\ phase[n] = "absent"
    /\ phase' = [phase EXCEPT ![n] = "registered"]
    /\ current' = [current EXCEPT ![n] = @ + 1]
    /\ starts' = [starts EXCEPT ![n] = @ \cup {current[n] + 1}]
    /\ UNCHANGED <<requested, connected>>

\* A start finds the namespace registered.
Find(n) ==
    /\ phase[n] = "registered"
    /\ starts' = [starts EXCEPT ![n] = @ \cup {current[n]}]
    /\ UNCHANGED <<phase, current, requested, connected>>

\* A start reaches the client; another one may have the same delegate.
Request(n) ==
    /\ \E k \in starts[n] :
          /\ requested' = Handed(n, k)
          /\ starts' \in {starts, [starts EXCEPT ![n] = @ \ {k}]}
    /\ UNCHANGED <<phase, current, connected>>

\* What is registered is asked for again, in another mode.
RequestAgain(n) ==
    /\ phase[n] = "registered"
    /\ requested' = Handed(n, current[n])
    /\ UNCHANGED <<phase, current, starts, connected>>

Withdraw(n) ==
    /\ phase[n] = "registered"
    /\ phase' = [phase EXCEPT ![n] = "leaving"]
    /\ requested' = Handed(n, 0)
    /\ UNCHANGED <<current, starts, connected>>

Remove(n) ==
    /\ phase[n] = "leaving"
    /\ phase' = [phase EXCEPT ![n] = "absent"]
    /\ UNCHANGED <<current, starts, requested, connected>>

Connect ==
    /\ connected' = TRUE
    /\ requested' = [n \in Namespaces |-> 0]
    /\ UNCHANGED <<phase, current, starts>>

Next ==
    \/ \E n \in Namespaces :
          \/ Register(n) \/ Find(n) \/ Request(n) \/ RequestAgain(n)
          \/ Withdraw(n) \/ Remove(n)
    \/ Connect

\* What is withdrawn is removed, and a start that has begun comes to its end.
Fairness ==
    \A n \in Namespaces :
        /\ WF_vars(Remove(n))
        /\ WF_vars(Request(n) /\ starts' # starts)

Spec == Init /\ [][Next]_vars /\ Fairness
=============================================================================
