----------------------- MODULE SubscriptionRefinement -----------------------
(***************************************************************************)
(* SubscriptionControl implements SubscriptionLifecycle.                   *)
(***************************************************************************)
EXTENDS SubscriptionControl

(***************************************************************************)
(* The refinement mapping.  A namespace is leaving while stopSubscription  *)
(* holds it; a start is a thread between its lookup and its subscribe.     *)
(***************************************************************************)
Phase(ns) ==
    CASE ~HasSubscription(ns) -> "absent"
      [] \E t \in Threads : it[t] = ns -> "leaving"
      [] OTHER -> "registered"

Starts(ns) == {sub_delegate[t].instance : t \in {u \in Threads : InFlight(u, ns)}}

Held(ns) == IF requested[ns] = Null THEN 0 ELSE requested[ns].instance

Lifecycle ==
    INSTANCE SubscriptionLifecycle WITH
        phase <- [ns \in Namespaces |-> Phase(ns)],
        current <- created,
        starts <- [ns \in Namespaces |-> Starts(ns)],
        requested <- [ns \in Namespaces |-> Held(ns)],
        connected <- client_session # 0

(***************************************************************************)
(* ImplementsLifecycle: the threads, their two critical sections and the   *)
(* unlocked subscribe of startSubscription, and the application's answers  *)
(* add nothing to the life of a namespace that SubscriptionLifecycle does  *)
(* not allow, and withdrawn namespaces and begun starts come to an end.    *)
(***************************************************************************)
ImplementsLifecycle == Lifecycle!Spec
=============================================================================
