---------------------- MODULE SubscriptionControlProofs ----------------------
(***************************************************************************)
(* Theorems about SubscriptionControl, for every set of threads, sources,  *)
(* namespaces and manifests: first what concerns its maps and locals, then *)
(* the life of a subscription from its creation to its erase, and that     *)
(* each of its steps is a step of SubscriptionLifecycle.                   *)
(***************************************************************************)
EXTENDS SubscriptionRefinement, SequenceTheorems, TLAPS

(***************************************************************************)
(* The locals of a call: which of them are meaningful where.  Outside the  *)
(* listed labels they hold their reset values.                             *)
(***************************************************************************)
LocalsOK ==
    \A t \in Threads :
        /\ pc[t] \in {"idle", "stream", "erase"} => delegate[t] = Null
        /\ pc[t] \notin {"idle", "stream", "erase"} =>
              /\ streams[t] # <<>>
              /\ delegate[t] # Null
              /\ delegate[t] = qSubscriptionsMap[Source(t)]
        /\ pc[t] \in {"find", "create", "subscribe"} => profiles[t] # <<>>
        /\ pc[t] = "create" => sub_delegate[t] = Null
        /\ pc[t] = "erase" => it[t] \in Namespaces

\* subsMutex is held across a step exactly by a call of stopSubscription.
MutexOK == \A t \in Threads : pc[t] = "erase" <=> subsMutex = t

\* allocateSubBySourceId is called once for a source that has an entry.
AllocationsOK ==
    \A s \in SourceIds : allocations[s] = IF Known(s) THEN 1 ELSE 0

\* No request without a client to hand it to.
NoRequestWithoutClient ==
    client_session = 0 => \A ns \in Namespaces : requested[ns] = Null

\* A delegate about to be subscribed is registered, unless it was stopped.
InFlightRegistered ==
    \A t \in Threads : \A ns \in Namespaces :
        InFlight(t, ns) => quicrSubscriptionsMap[ns] = sub_delegate[t] \/ ns \in raced

\* Between unsubscribe and erase nothing is requested, and whoever may still
\* subscribe was seen by the stop.
ErasingOK ==
    \A t \in Threads : pc[t] = "erase" =>
        /\ requested[it[t]] = Null \/ it[t] \in raced
        /\ \A u \in Threads : InFlight(u, it[t]) => it[t] \in raced

(***************************************************************************)
(* The registry and the requests of the client.                            *)
(***************************************************************************)
RegistryInv ==
    /\ MutexOK
    /\ NoRequestWithoutClient
    /\ InFlightRegistered
    /\ ErasingOK
    /\ NoOrphans

\* The SubscriptionDelegates the program holds: in a call, in the map or in
\* the client.
InUse(d) ==
    \/ \E t \in Threads : sub_delegate[t] = d
    \/ \E ns \in Namespaces : d \in {quicrSubscriptionsMap[ns], requested[ns]}

Forwards(d) == qSubscriptionsMap[d.sourceId] = d.qDelegate

InUseForwards == \A d \in SubscriptionDelegate : InUse(d) => Forwards(d)

\* The inductive invariant.
IInv == TypeOK /\ LocalsOK /\ RegistryInv /\ AllocationsOK /\ InUseForwards

-----------------------------------------------------------------------------
\* The locals that NextStream and NextProfile write keep their types.
LEMMA NextStreamType ==
    ASSUME TypeOK, NEW t \in Threads, streams[t] # <<>>, NextStream(t)
    PROVE  /\ pc' \in [Threads -> Labels]
           /\ streams' \in [Threads -> Seq(MediaStream)]
           /\ profiles' \in [Threads -> Seq(Namespaces)]
           /\ delegate' \in [Threads -> QSubscriptionDelegate \cup {Null}]
           /\ sub_delegate' \in [Threads -> SubscriptionDelegate \cup {Null}]
<1>1. streams[t] \in Seq(MediaStream) /\ Tail(streams[t]) \in Seq(MediaStream)
  BY HeadTailProperties DEF TypeOK
<1>2. <<>> \in Seq(Namespaces)
  OBVIOUS
<1> QED
  BY <1>1, <1>2 DEF TypeOK, NextStream, Labels

LEMMA NextProfileType ==
    ASSUME TypeOK, NEW t \in Threads, streams[t] # <<>>, profiles[t] # <<>>,
           NextProfile(t)
    PROVE  /\ pc' \in [Threads -> Labels]
           /\ streams' \in [Threads -> Seq(MediaStream)]
           /\ profiles' \in [Threads -> Seq(Namespaces)]
           /\ delegate' \in [Threads -> QSubscriptionDelegate \cup {Null}]
           /\ sub_delegate' \in [Threads -> SubscriptionDelegate \cup {Null}]
<1>1. CASE NextStream(t)
  BY <1>1, NextStreamType
<1>2. CASE ~NextStream(t)
  <2>1. profiles[t] \in Seq(Namespaces) /\ Tail(profiles[t]) \in Seq(Namespaces)
    BY HeadTailProperties DEF TypeOK
  <2>2. /\ pc' = [pc EXCEPT ![t] = "find"]
        /\ profiles' = [profiles EXCEPT ![t] = Tail(@)]
        /\ sub_delegate' = [sub_delegate EXCEPT ![t] = Null]
        /\ UNCHANGED <<streams, delegate>>
    BY <1>2 DEF NextProfile
  <2> QED
    BY <2>1, <2>2 DEF TypeOK, Labels
<1> QED
  BY <1>1, <1>2

\* What a call is working on, in the labels where it is defined.
LEMMA CurrentType ==
    ASSUME TypeOK, NEW t \in Threads, streams[t] # <<>>
    PROVE  /\ Source(t) \in SourceIds
           /\ Head(streams[t]).profiles \in Seq(Namespaces)
           /\ profiles[t] # <<>> => Namespace(t) \in Namespaces
<1>1. Head(streams[t]) \in MediaStream
  BY HeadTailProperties DEF TypeOK
<1>2. profiles[t] # <<>> => Head(profiles[t]) \in Namespaces
  BY HeadTailProperties DEF TypeOK
<1> QED
  BY <1>1, <1>2 DEF MediaStream, Source, Namespace

LEMMA InitType == Init => TypeOK
  BY ConstantsAssumption, NullAssumption DEF Init, TypeOK, Labels

LEMMA NextType ==
    ASSUME TypeOK, LocalsOK, [Next]_vars
    PROVE  TypeOK'
<1> USE ConstantsAssumption, NullAssumption
<1>1. CASE UNCHANGED vars
  BY <1>1 DEF TypeOK, vars, controllerVars, localVars, envVars, historyVars
<1>2. ASSUME NEW t \in Threads, NoSubscriberDelegate(t) PROVE TypeOK'
  BY <1>2, NextStreamType
  DEF TypeOK, NoSubscriberDelegate, controllerVars, envVars, historyVars
<1>3. ASSUME NEW t \in Threads, GetSubscriptionDelegate(t) PROVE TypeOK'
  <2>1. streams[t] # <<>> /\ Source(t) \in SourceIds
    BY <1>3, CurrentType DEF GetSubscriptionDelegate
  <2>2. PICK d \in DelegatesFor(Source(t)) :
          /\ qSubscriptionsMap' = [qSubscriptionsMap EXCEPT ![Source(t)] = d]
          /\ \/ d = Null /\ NextStream(t)
             \/ /\ d # Null
                /\ delegate' = [delegate EXCEPT ![t] = d]
                /\ pc' = [pc EXCEPT ![t] = "update"]
                /\ UNCHANGED <<streams, profiles, sub_delegate>>
    BY <1>3 DEF GetSubscriptionDelegate
  <2>3. d \in QSubscriptionDelegate \cup {Null}
    BY <2>1 DEF DelegatesFor, Known, QSubscriptionDelegate, TypeOK
  <2>4. /\ qSubscriptionsMap' \in [SourceIds -> QSubscriptionDelegate \cup {Null, Absent}]
        /\ allocations' \in [SourceIds -> Nat]
    BY <1>3, <2>1, <2>2, <2>3 DEF GetSubscriptionDelegate, TypeOK
  <2>5. CASE NextStream(t)
    BY <1>3, <2>1, <2>4, <2>5, NextStreamType
    DEF GetSubscriptionDelegate, TypeOK, historyVars
  <2>6. CASE d # Null /\ ~NextStream(t)
    <3>1. /\ delegate' = [delegate EXCEPT ![t] = d]
          /\ pc' = [pc EXCEPT ![t] = "update"]
          /\ UNCHANGED <<streams, profiles, sub_delegate>>
      BY <2>2, <2>6
    <3>2. UNCHANGED <<qSubscriberDelegate, quicrSubscriptionsMap, subsMutex,
                      client_session, is_singleordered_subscription, it, requested,
                      updates, created, raced>>
      BY <1>3 DEF GetSubscriptionDelegate, historyVars
    <3> QED
      BY <2>3, <2>4, <3>1, <3>2 DEF TypeOK, Labels
  <2> QED
    BY <2>2, <2>5, <2>6
<1>4. ASSUME NEW t \in Threads, UpdateAccepted(t) PROVE TypeOK'
  <2>1. streams[t] # <<>>
    BY <1>4 DEF UpdateAccepted, LocalsOK
  <2> QED
    BY <1>4, <2>1, NextStreamType
    DEF TypeOK, UpdateAccepted, controllerVars, envVars, historyVars
<1>5. ASSUME NEW t \in Threads, UpdateRefused(t) PROVE TypeOK'
  BY <1>5 DEF TypeOK, UpdateRefused, Labels, controllerVars, envVars, historyVars
<1>6. ASSUME NEW t \in Threads, PrepareFailed(t) PROVE TypeOK'
  <2>1. streams[t] # <<>>
    BY <1>6 DEF PrepareFailed, LocalsOK
  <2> QED
    BY <1>6, <2>1, NextStreamType
    DEF TypeOK, PrepareFailed, controllerVars, envVars, historyVars
<1>7. ASSUME NEW t \in Threads, Prepared(t) PROVE TypeOK'
  <2>1. streams[t] # <<>>
    BY <1>7 DEF Prepared, LocalsOK
  <2>2. Head(streams[t]).profiles \in Seq(Namespaces)
    BY <2>1, CurrentType
  <2> QED
    BY <1>7, <2>2 DEF TypeOK, Prepared, Labels, controllerVars, envVars, historyVars
<1>8. ASSUME NEW t \in Threads, FindDelegate(t) PROVE TypeOK'
  <2>1. Namespace(t) \in Namespaces
    BY <1>8, CurrentType DEF FindDelegate, LocalsOK
  <2>2. Found(Namespace(t)) \in SubscriptionDelegate \cup {Null}
    BY <2>1 DEF Found, HasSubscription, TypeOK
  <2> QED
    BY <1>8, <2>2 DEF TypeOK, FindDelegate, Labels, controllerVars, envVars, historyVars
<1>9. ASSUME NEW t \in Threads, CreateDelegate(t) PROVE TypeOK'
  <2> DEFINE new == [instance |-> created[Namespace(t)] + 1,
                     sourceId |-> Source(t), qDelegate |-> delegate[t],
                     session |-> client_session]
  <2>1. /\ Namespace(t) \in Namespaces
        /\ Source(t) \in SourceIds
        /\ delegate[t] \in QSubscriptionDelegate
    BY <1>9, CurrentType DEF CreateDelegate, LocalsOK, TypeOK
  <2>2. created[Namespace(t)] + 1 \in Nat \ {0}
    BY <2>1 DEF TypeOK
  <2>3. new \in SubscriptionDelegate
    BY <2>1, <2>2 DEF SubscriptionDelegate, TypeOK
  <2>4. /\ quicrSubscriptionsMap' = [quicrSubscriptionsMap EXCEPT ![Namespace(t)] = new]
        /\ sub_delegate' = [sub_delegate EXCEPT ![t] = new]
        /\ created' = [created EXCEPT ![Namespace(t)] = @ + 1]
    BY <1>9 DEF CreateDelegate
  <2> HIDE DEF new
  <2> QED
    BY <1>9, <2>1, <2>3, <2>4 DEF TypeOK, CreateDelegate, Labels, envVars
<1>10. ASSUME NEW t \in Threads, CreateRefused(t) PROVE TypeOK'
  BY <1>10 DEF TypeOK, CreateRefused, Labels, controllerVars, envVars, historyVars
<1>11. ASSUME NEW t \in Threads, Subscribe(t) PROVE TypeOK'
  <2>1. streams[t] # <<>> /\ profiles[t] # <<>> /\ Namespace(t) \in Namespaces
    BY <1>11, CurrentType DEF Subscribe, LocalsOK
  <2>2. requested' \in [Namespaces -> SubscriptionDelegate \cup {Null}]
    BY <1>11, <2>1 DEF Subscribe, AfterSubscribe, TypeOK
  <2>3. NextProfile(t)
    BY <1>11 DEF Subscribe
  <2> QED
    BY <1>11, <2>1, <2>2, <2>3, NextProfileType
    DEF TypeOK, Subscribe, controllerVars, historyVars
<1>12. ASSUME NEW t \in Threads, StartFails(t) PROVE TypeOK'
  <2>1. streams[t] # <<>> /\ profiles[t] # <<>> /\ NextProfile(t)
    BY <1>12 DEF StartFails, LocalsOK
  <2> QED
    BY <1>12, <2>1, NextProfileType
    DEF TypeOK, StartFails, controllerVars, envVars, historyVars
<1>13. ASSUME NEW t \in Threads, EraseSubscription(t) PROVE TypeOK'
  BY <1>13 DEF TypeOK, EraseSubscription, Erased, Unlocked, Labels, envVars, historyVars
<1>14. ASSUME NEW t \in Threads, FinishManifest(t) PROVE TypeOK'
  BY <1>14 DEF TypeOK, FinishManifest, Labels, controllerVars, envVars, historyVars
<1>15. ASSUME NEW t \in Threads, NEW m \in Manifests, UpdateManifest(t, m) PROVE TypeOK'
  BY <1>15 DEF TypeOK, UpdateManifest, Labels, controllerVars, historyVars
<1>16. ASSUME NEW t \in Threads, NEW ns \in Namespaces, StopSubscription(t, ns)
       PROVE  TypeOK'
  BY <1>16 DEF TypeOK, StopSubscription, AfterUnsubscribe, Labels
<1>17. ASSUME NEW t \in Threads, NEW ns \in Namespaces, SetSubscriptionState(t, ns)
       PROVE  TypeOK'
  BY <1>17
  DEF TypeOK, SetSubscriptionState, AfterSubscribe, HasSubscription,
      controllerVars, localVars, historyVars
<1>18. ASSUME NEW t \in Threads, NEW b \in BOOLEAN, SetSubscriptionSingleOrdered(t, b)
       PROVE  TypeOK'
  BY <1>18
  DEF TypeOK, SetSubscriptionSingleOrdered, localVars, envVars, historyVars
<1>19. ASSUME NEW t \in Threads, Connect(t) PROVE TypeOK'
  BY <1>19 DEF TypeOK, Connect, localVars, historyVars
<1> QED
  BY <1>1, <1>2, <1>3, <1>4, <1>5, <1>6, <1>7, <1>8, <1>9, <1>10, <1>11, <1>12,
     <1>13, <1>14, <1>15, <1>16, <1>17, <1>18, <1>19
  DEF Next, Step, Call

-----------------------------------------------------------------------------
LEMMA InitLocals == Init => LocalsOK
  BY DEF Init, LocalsOK

LEMMA NextStreamLocals ==
    ASSUME TypeOK, LocalsOK, NEW t \in Threads, NextStream(t),
           UNCHANGED <<qSubscriptionsMap, it>>
    PROVE  LocalsOK'
  BY DEF TypeOK, LocalsOK, NextStream, Source

LEMMA NextProfileLocals ==
    ASSUME TypeOK, LocalsOK, NEW t \in Threads, pc[t] = "subscribe",
           NextProfile(t), UNCHANGED <<qSubscriptionsMap, it>>
    PROVE  LocalsOK'
<1>1. CASE NextStream(t)
  BY <1>1, NextStreamLocals
<1>2. CASE ~NextStream(t)
  <2>1. /\ Len(profiles[t]) # 1
        /\ pc' = [pc EXCEPT ![t] = "find"]
        /\ profiles' = [profiles EXCEPT ![t] = Tail(@)]
        /\ sub_delegate' = [sub_delegate EXCEPT ![t] = Null]
        /\ UNCHANGED <<streams, delegate>>
    BY <1>2 DEF NextProfile
  <2>2. profiles[t] \in Seq(Namespaces) /\ profiles[t] # <<>>
    BY DEF TypeOK, LocalsOK
  <2>3. Tail(profiles[t]) # <<>>
    <3>1. Len(profiles[t]) \in Nat \ {0}
      BY <2>2, EmptySeq
    <3>2. Len(Tail(profiles[t])) = Len(profiles[t]) - 1
      BY <2>2, HeadTailProperties
    <3>3. Len(Tail(profiles[t])) # 0
      BY <2>1, <3>1, <3>2
    <3>4. \A s : s = <<>> => Len(s) = 0
      BY EmptySeq
    <3> QED
      BY <3>3, <3>4
  <2> QED
    BY <2>1, <2>3 DEF TypeOK, LocalsOK, Source
<1> QED
  BY <1>1, <1>2

LEMMA NextLocals ==
    ASSUME TypeOK, LocalsOK, [Next]_vars
    PROVE  LocalsOK'
<1> USE NullAssumption DEF controllerVars, localVars, envVars, historyVars
<1>1. CASE UNCHANGED vars
  BY <1>1 DEF LocalsOK, Source, vars
<1>2. ASSUME NEW t \in Threads,
             NoSubscriberDelegate(t) \/ UpdateAccepted(t) \/ PrepareFailed(t)
      PROVE  LocalsOK'
  BY <1>2, NextStreamLocals DEF NoSubscriberDelegate, UpdateAccepted, PrepareFailed
<1>3. ASSUME NEW t \in Threads, GetSubscriptionDelegate(t) PROVE LocalsOK'
  <2>1. streams[t] # <<>> /\ Source(t) \in SourceIds /\ pc[t] = "stream"
    BY <1>3, CurrentType DEF GetSubscriptionDelegate
  <2>2. PICK d \in DelegatesFor(Source(t)) :
          /\ qSubscriptionsMap' = [qSubscriptionsMap EXCEPT ![Source(t)] = d]
          /\ \/ d = Null /\ NextStream(t)
             \/ /\ d # Null
                /\ delegate' = [delegate EXCEPT ![t] = d]
                /\ pc' = [pc EXCEPT ![t] = "update"]
                /\ UNCHANGED <<streams, profiles, sub_delegate>>
    BY <1>3 DEF GetSubscriptionDelegate
  <2>3. it' = it
    BY <1>3 DEF GetSubscriptionDelegate
  <2>4. \A s \in SourceIds : Known(s) => qSubscriptionsMap'[s] = qSubscriptionsMap[s]
    BY <2>1, <2>2 DEF DelegatesFor, Known, TypeOK
  <2>5. \A u \in Threads : pc[u] \notin {"idle", "stream", "erase"} =>
          qSubscriptionsMap'[Source(u)] = qSubscriptionsMap[Source(u)]
    BY <2>4, CurrentType DEF LocalsOK, Known, TypeOK
  <2>6. CASE d = Null /\ NextStream(t)
    BY <2>1, <2>2, <2>3, <2>5, <2>6 DEF TypeOK, LocalsOK, NextStream, Source
  <2>7. CASE d # Null /\ ~(d = Null /\ NextStream(t))
    <3>1. /\ delegate' = [delegate EXCEPT ![t] = d]
          /\ pc' = [pc EXCEPT ![t] = "update"]
          /\ UNCHANGED <<streams, profiles, sub_delegate>>
      BY <2>2, <2>7
    <3> QED
      BY <2>1, <2>2, <2>3, <2>5, <2>7, <3>1 DEF TypeOK, LocalsOK, Source
  <2> QED
    BY <2>2, <2>6, <2>7
<1>4. ASSUME NEW t \in Threads, UpdateRefused(t) PROVE LocalsOK'
  BY <1>4 DEF UpdateRefused, TypeOK, LocalsOK, Source
<1>5. ASSUME NEW t \in Threads, Prepared(t) PROVE LocalsOK'
  BY <1>5 DEF Prepared, TypeOK, LocalsOK, Source
<1>6. ASSUME NEW t \in Threads, FindDelegate(t) PROVE LocalsOK'
  BY <1>6 DEF FindDelegate, TypeOK, LocalsOK, Source
<1>7. ASSUME NEW t \in Threads, CreateDelegate(t) PROVE LocalsOK'
  BY <1>7 DEF CreateDelegate, TypeOK, LocalsOK, Source
<1>8. ASSUME NEW t \in Threads, CreateRefused(t) PROVE LocalsOK'
  BY <1>8 DEF CreateRefused, TypeOK, LocalsOK, Source
<1>9. ASSUME NEW t \in Threads, Subscribe(t) \/ StartFails(t) PROVE LocalsOK'
  BY <1>9, NextProfileLocals DEF Subscribe, StartFails
<1>10. ASSUME NEW t \in Threads, EraseSubscription(t) PROVE LocalsOK'
  BY <1>10 DEF EraseSubscription, TypeOK, LocalsOK, Source
<1>11. ASSUME NEW t \in Threads, FinishManifest(t) PROVE LocalsOK'
  BY <1>11 DEF FinishManifest, TypeOK, LocalsOK, Source
<1>12. ASSUME NEW t \in Threads, NEW m \in Manifests, UpdateManifest(t, m)
       PROVE  LocalsOK'
  BY <1>12 DEF UpdateManifest, TypeOK, LocalsOK, Source
<1>13. ASSUME NEW t \in Threads, NEW ns \in Namespaces, StopSubscription(t, ns)
       PROVE  LocalsOK'
  BY <1>13 DEF StopSubscription, TypeOK, LocalsOK, Source
<1>14. ASSUME NEW t \in Threads,
              \/ \E ns \in Namespaces : SetSubscriptionState(t, ns)
              \/ \E b \in BOOLEAN : SetSubscriptionSingleOrdered(t, b)
              \/ Connect(t)
       PROVE  LocalsOK'
  BY <1>14
  DEF SetSubscriptionState, SetSubscriptionSingleOrdered, Connect, LocalsOK, Source
<1> QED
  BY <1>1, <1>2, <1>3, <1>4, <1>5, <1>6, <1>7, <1>8, <1>9, <1>10, <1>11, <1>12,
     <1>13, <1>14
  DEF Next, Step, Call

-----------------------------------------------------------------------------
(***************************************************************************)
(* A quiet step leaves the registry, the requests, the mutex and the stops *)
(* alone and starts no subscription: what the remaining invariants are     *)
(* about can only leave a thread's hands.                                  *)
(***************************************************************************)
Quiet ==
    /\ UNCHANGED <<quicrSubscriptionsMap, requested, raced, it, subsMutex,
                   client_session>>
    /\ \A u \in Threads :
          /\ pc'[u] = "erase" <=> pc[u] = "erase"
          /\ sub_delegate'[u] \in {sub_delegate[u], Null}
          /\ \A ns \in Namespaces : InFlight(u, ns)' =>
                InFlight(u, ns) /\ sub_delegate'[u] = sub_delegate[u]

LEMMA NextStreamQuiet ==
    ASSUME TypeOK, NEW t \in Threads, pc[t] # "erase", NextStream(t) \/ NextProfile(t)
    PROVE  \A u \in Threads :
              /\ pc'[u] = "erase" <=> pc[u] = "erase"
              /\ sub_delegate'[u] \in {sub_delegate[u], Null}
              /\ \A ns \in Namespaces : InFlight(u, ns)' =>
                    /\ u # t
                    /\ InFlight(u, ns)
                    /\ sub_delegate'[u] = sub_delegate[u]
<1>1. CASE NextStream(t)
  BY <1>1 DEF TypeOK, NextStream, InFlight, Namespace
<1>2. CASE ~NextStream(t)
  <2>1. /\ pc' = [pc EXCEPT ![t] = "find"]
        /\ profiles' = [profiles EXCEPT ![t] = Tail(@)]
        /\ sub_delegate' = [sub_delegate EXCEPT ![t] = Null]
    BY <1>2 DEF NextProfile
  <2> QED
    BY <2>1 DEF TypeOK, InFlight, Namespace
<1> QED
  BY <1>1, <1>2

QuietStep(t) ==
    \/ NoSubscriberDelegate(t) \/ GetSubscriptionDelegate(t)
    \/ UpdateAccepted(t) \/ UpdateRefused(t) \/ PrepareFailed(t) \/ Prepared(t)
    \/ CreateRefused(t) \/ StartFails(t) \/ FinishManifest(t)
    \/ \E m \in Manifests : UpdateManifest(t, m)
    \/ \E b \in BOOLEAN : SetSubscriptionSingleOrdered(t, b)

LEMMA QuietSteps ==
    ASSUME TypeOK, LocalsOK, NEW t \in Threads, QuietStep(t)
    PROVE  Quiet
<1> USE DEF controllerVars, localVars, envVars, historyVars
<1>1. CASE NoSubscriberDelegate(t) \/ UpdateAccepted(t) \/ PrepareFailed(t) \/ StartFails(t)
  BY <1>1, NextStreamQuiet
  DEF NoSubscriberDelegate, UpdateAccepted, PrepareFailed, StartFails, Quiet
<1>2. CASE GetSubscriptionDelegate(t)
  <2>1. /\ pc[t] = "stream"
        /\ UNCHANGED <<quicrSubscriptionsMap, requested, raced, it, subsMutex,
                       client_session>>
    BY <1>2 DEF GetSubscriptionDelegate
  <2>2. CASE NextStream(t)
    BY <2>1, <2>2, NextStreamQuiet DEF Quiet
  <2>3. CASE pc' = [pc EXCEPT ![t] = "update"] /\ UNCHANGED <<streams, profiles, sub_delegate>>
    BY <2>1, <2>3 DEF Quiet, TypeOK, InFlight, Namespace
  <2> QED
    BY <1>2, <2>2, <2>3 DEF GetSubscriptionDelegate
<1>3. CASE UpdateRefused(t) \/ CreateRefused(t) \/ FinishManifest(t)
  BY <1>3
  DEF UpdateRefused, CreateRefused, FinishManifest, Quiet, TypeOK, LocalsOK,
      InFlight, Namespace
<1>4. CASE Prepared(t)
  BY <1>4 DEF Prepared, Quiet, TypeOK, InFlight, Namespace
<1>5. CASE \E m \in Manifests : UpdateManifest(t, m)
  BY <1>5 DEF UpdateManifest, Quiet, TypeOK, InFlight, Namespace
<1>6. CASE \E b \in BOOLEAN : SetSubscriptionSingleOrdered(t, b)
  BY <1>6 DEF SetSubscriptionSingleOrdered, Quiet, InFlight, Namespace
<1> QED
  BY <1>1, <1>2, <1>3, <1>4, <1>5, <1>6 DEF QuietStep

LEMMA InitRegistry == Init => RegistryInv
  BY ConstantsAssumption, NullAssumption
  DEF Init, RegistryInv, MutexOK, NoRequestWithoutClient, InFlightRegistered,
      ErasingOK, NoOrphans, InFlight

LEMMA QuietRegistry ==
    ASSUME TypeOK, LocalsOK, RegistryInv, Quiet
    PROVE  RegistryInv'
<1>1. MutexOK' /\ NoRequestWithoutClient' /\ NoOrphans'
  BY DEF RegistryInv, MutexOK, NoRequestWithoutClient, NoOrphans, Quiet
<1>2. InFlightRegistered'
  BY DEF RegistryInv, InFlightRegistered, Quiet
<1>3. ErasingOK'
  <2> SUFFICES ASSUME NEW t \in Threads, pc'[t] = "erase", NEW ns \in Namespaces,
                      it[t] = ns
               PROVE  /\ requested'[ns] = Null \/ ns \in raced'
                      /\ \A u \in Threads : InFlight(u, ns)' => ns \in raced'
    BY DEF ErasingOK, Quiet, LocalsOK, InFlight, Namespace
  <2> QED
    BY DEF RegistryInv, ErasingOK, Quiet
<1> QED
  BY <1>1, <1>2, <1>3 DEF RegistryInv

\* Nobody is between unsubscribe and erase while subsMutex is free.
LEMMA FreeMutex ==
    ASSUME TypeOK, MutexOK, subsMutex = NoThread, NEW u \in Threads
    PROVE  pc[u] # "erase"
  BY ConstantsAssumption DEF MutexOK

LEMMA FindRegistry ==
    ASSUME TypeOK, LocalsOK, RegistryInv, NEW t \in Threads, FindDelegate(t)
    PROVE  RegistryInv'
<1> DEFINE n == Namespace(t)
<1>1. n \in Namespaces
  BY CurrentType DEF FindDelegate, LocalsOK
<1>2. /\ UNCHANGED <<quicrSubscriptionsMap, requested, raced, it, subsMutex,
                     client_session, profiles>>
      /\ sub_delegate' = [sub_delegate EXCEPT ![t] = Found(n)]
      /\ pc' = [pc EXCEPT ![t] = IF Found(n) = Null THEN "create" ELSE "subscribe"]
  BY DEF FindDelegate, controllerVars, envVars, historyVars
<1>3. \A u \in Threads : pc'[u] # "erase" /\ subsMutex' # u
  BY <1>2, FreeMutex, ConstantsAssumption DEF FindDelegate, RegistryInv, TypeOK
<1>4. ASSUME NEW u \in Threads, NEW ns \in Namespaces, InFlight(u, ns)'
      PROVE  quicrSubscriptionsMap'[ns] = sub_delegate'[u] \/ ns \in raced'
  <2>1. CASE u = t
    <3>1. ns = n /\ Found(n) # Null /\ sub_delegate'[u] = Found(n)
      BY <1>2, <1>4, <2>1 DEF InFlight, Namespace, TypeOK
    <3> QED
      BY <1>2, <3>1 DEF Found
  <2>2. CASE u # t
    <3>1. InFlight(u, ns) /\ sub_delegate'[u] = sub_delegate[u]
      BY <1>2, <1>4, <2>2 DEF InFlight, Namespace, TypeOK
    <3> QED
      BY <1>2, <3>1 DEF RegistryInv, InFlightRegistered
  <2> QED
    BY <2>1, <2>2
<1>5. NoRequestWithoutClient' /\ NoOrphans'
  BY <1>2 DEF RegistryInv, NoRequestWithoutClient, NoOrphans
<1> QED
  BY <1>3, <1>4, <1>5 DEF RegistryInv, MutexOK, InFlightRegistered, ErasingOK

LEMMA CreateRegistry ==
    ASSUME TypeOK, LocalsOK, RegistryInv, NEW t \in Threads, CreateDelegate(t)
    PROVE  RegistryInv'
<1> DEFINE n == Namespace(t)
<1>1. n \in Namespaces /\ quicrSubscriptionsMap[n] = Absent
  BY CurrentType DEF CreateDelegate, LocalsOK, MayCreate, HasSubscription
<1>2. PICK new : /\ quicrSubscriptionsMap' = [quicrSubscriptionsMap EXCEPT ![n] = new]
                 /\ sub_delegate' = [sub_delegate EXCEPT ![t] = new]
  BY DEF CreateDelegate
<1>3. /\ UNCHANGED <<requested, raced, it, subsMutex, client_session, profiles>>
      /\ pc' = [pc EXCEPT ![t] = "subscribe"]
  BY DEF CreateDelegate, envVars
<1>4. \A u \in Threads : pc'[u] # "erase" /\ subsMutex' # u
  BY <1>3, FreeMutex, ConstantsAssumption DEF CreateDelegate, RegistryInv, TypeOK
<1>5. ASSUME NEW u \in Threads, NEW ns \in Namespaces, InFlight(u, ns)'
      PROVE  quicrSubscriptionsMap'[ns] = sub_delegate'[u] \/ ns \in raced'
  <2>1. CASE u = t
    BY <1>1, <1>2, <1>3, <1>5, <2>1 DEF InFlight, Namespace, TypeOK
  <2>2. CASE u # t
    <3>1. InFlight(u, ns) /\ sub_delegate'[u] = sub_delegate[u]
      BY <1>2, <1>3, <1>5, <2>2 DEF InFlight, Namespace, TypeOK
    <3>2. sub_delegate[u] # Absent
      BY NullAssumption, ConstantsAssumption DEF TypeOK
    <3> QED
      BY <1>1, <1>2, <1>3, <3>1, <3>2 DEF RegistryInv, InFlightRegistered, TypeOK
  <2> QED
    BY <2>1, <2>2
<1>6. NoRequestWithoutClient'
  BY <1>3 DEF RegistryInv, NoRequestWithoutClient
<1>7. NoOrphans'
  <2>1. requested[n] # Absent
    BY <1>1, NullAssumption, ConstantsAssumption DEF TypeOK
  <2> QED
    BY <1>1, <1>2, <1>3, <2>1 DEF RegistryInv, NoOrphans, TypeOK
<1> QED
  BY <1>4, <1>5, <1>6, <1>7 DEF RegistryInv, MutexOK, InFlightRegistered, ErasingOK

LEMMA SubscribeRegistry ==
    ASSUME TypeOK, LocalsOK, RegistryInv, NEW t \in Threads, Subscribe(t)
    PROVE  RegistryInv'
<1> DEFINE n == Namespace(t)
<1>1. n \in Namespaces /\ InFlight(t, n)
  BY CurrentType DEF Subscribe, LocalsOK, InFlight
<1>2. /\ UNCHANGED <<quicrSubscriptionsMap, raced, it, subsMutex, client_session>>
      /\ requested' = AfterSubscribe(n, sub_delegate[t])
      /\ pc[t] # "erase"
      /\ NextProfile(t)
  BY DEF Subscribe, controllerVars, historyVars
<1>3. \A u \in Threads :
        /\ pc'[u] = "erase" <=> pc[u] = "erase"
        /\ \A ns \in Namespaces : InFlight(u, ns)' =>
              InFlight(u, ns) /\ sub_delegate'[u] = sub_delegate[u]
  BY <1>2, NextStreamQuiet
<1>4. MutexOK'
  BY <1>2, <1>3 DEF RegistryInv, MutexOK
<1>5. NoRequestWithoutClient'
  BY <1>2 DEF RegistryInv, NoRequestWithoutClient, AfterSubscribe
<1>6. InFlightRegistered'
  BY <1>2, <1>3 DEF RegistryInv, InFlightRegistered
<1>7. NoOrphans'
  BY <1>1, <1>2
  DEF RegistryInv, NoOrphans, InFlightRegistered, AfterSubscribe, TypeOK
<1>8. ErasingOK'
  <2> SUFFICES ASSUME NEW u \in Threads, pc'[u] = "erase", NEW ns \in Namespaces,
                      it[u] = ns
               PROVE  /\ requested'[ns] = Null \/ ns \in raced'
                      /\ \A w \in Threads : InFlight(w, ns)' => ns \in raced'
    BY <1>2, <1>3 DEF ErasingOK, LocalsOK, InFlight, Namespace
  <2>1. /\ requested[ns] = Null \/ ns \in raced
        /\ \A w \in Threads : InFlight(w, ns) => ns \in raced
    BY <1>3 DEF RegistryInv, ErasingOK
  <2>2. ns = n => ns \in raced
    BY <1>1, <2>1
  <2> QED
    BY <1>1, <1>2, <1>3, <2>1, <2>2 DEF AfterSubscribe, TypeOK
<1> QED
  BY <1>4, <1>5, <1>6, <1>7, <1>8 DEF RegistryInv

LEMMA StopRegistry ==
    ASSUME TypeOK, LocalsOK, RegistryInv, NEW t \in Threads, NEW n \in Namespaces,
           StopSubscription(t, n)
    PROVE  RegistryInv'
<1>1. /\ UNCHANGED <<quicrSubscriptionsMap, client_session, profiles, sub_delegate>>
      /\ requested' = AfterUnsubscribe(n)
      /\ pc' = [pc EXCEPT ![t] = "erase"]
      /\ it' = [it EXCEPT ![t] = n]
      /\ subsMutex = NoThread
      /\ subsMutex' = t
      /\ raced' = IF \E u \in Threads : InFlight(u, n)
                  THEN raced \cup {n} ELSE raced \ {n}
  BY DEF StopSubscription
<1>2. \A u \in Threads : pc[u] # "erase"
  BY <1>1, FreeMutex DEF RegistryInv
<1>3. \A u \in Threads : \A ns \in Namespaces : InFlight(u, ns)' => InFlight(u, ns)
  BY <1>1 DEF InFlight, Namespace, TypeOK
<1>4. MutexOK'
  BY <1>1, <1>2 DEF MutexOK, TypeOK
<1>5. requested'[n] = Null
  BY <1>1 DEF AfterUnsubscribe, RegistryInv, NoRequestWithoutClient, TypeOK
<1>6. \A ns \in Namespaces \ {n} : requested'[ns] = requested[ns]
                                  /\ (ns \in raced' <=> ns \in raced)
  BY <1>1 DEF AfterUnsubscribe, TypeOK
<1>7. NoRequestWithoutClient'
  BY <1>1 DEF AfterUnsubscribe, RegistryInv, NoRequestWithoutClient, TypeOK
<1>8. InFlightRegistered'
  <2> SUFFICES ASSUME NEW u \in Threads, NEW ns \in Namespaces, InFlight(u, ns)'
               PROVE  quicrSubscriptionsMap'[ns] = sub_delegate'[u] \/ ns \in raced'
    BY DEF InFlightRegistered
  <2>1. InFlight(u, ns)
    BY <1>3
  <2>2. CASE ns = n
    BY <1>1, <2>1, <2>2
  <2>3. CASE ns # n
    BY <1>1, <1>6, <2>1, <2>3 DEF RegistryInv, InFlightRegistered
  <2> QED
    BY <2>2, <2>3
<1>9. NoOrphans'
  BY <1>1, <1>5, <1>6 DEF RegistryInv, NoOrphans
<1>10. ErasingOK'
  <2> SUFFICES ASSUME NEW u \in Threads, pc'[u] = "erase"
               PROVE  /\ requested'[it'[u]] = Null \/ it'[u] \in raced'
                      /\ \A w \in Threads : InFlight(w, it[u])' => it'[u] \in raced'
    BY DEF ErasingOK
  <2>1. it'[u] = n
    BY <1>1, <1>2 DEF TypeOK
  <2>2. ASSUME NEW w \in Threads, InFlight(w, it[u])' PROVE n \in raced'
    <3>1. InFlight(w, n)'
      BY <2>1, <2>2 DEF InFlight
    <3> QED
      BY <1>1, <1>3, <3>1
  <2> QED
    BY <1>5, <2>1, <2>2
<1> QED
  BY <1>4, <1>7, <1>8, <1>9, <1>10 DEF RegistryInv

LEMMA EraseRegistry ==
    ASSUME TypeOK, LocalsOK, RegistryInv, NEW t \in Threads, EraseSubscription(t)
    PROVE  RegistryInv'
<1> DEFINE n == it[t]
<1>1. n \in Namespaces
  BY DEF EraseSubscription, LocalsOK
<1>2. /\ UNCHANGED <<requested, client_session, profiles, sub_delegate, raced>>
      /\ quicrSubscriptionsMap' = [quicrSubscriptionsMap EXCEPT ![n] = Absent]
      /\ pc[t] = "erase"
      /\ pc' = [pc EXCEPT ![t] = "idle"]
      /\ subsMutex' = NoThread
  BY DEF EraseSubscription, Erased, Unlocked, envVars, historyVars
<1>3. \A u \in Threads : pc[u] = "erase" => u = t
  BY <1>2 DEF RegistryInv, MutexOK
<1>4. \A u \in Threads : pc'[u] # "erase" /\ subsMutex' # u
  BY <1>2, <1>3, ConstantsAssumption DEF TypeOK
<1>5. /\ requested[n] = Null \/ n \in raced
      /\ \A u \in Threads : InFlight(u, n) => n \in raced
  BY <1>2 DEF RegistryInv, ErasingOK
<1>6. \A u \in Threads : \A ns \in Namespaces : InFlight(u, ns)' => InFlight(u, ns)
  BY <1>2 DEF InFlight, Namespace, TypeOK
<1>7. InFlightRegistered'
  BY <1>1, <1>2, <1>5, <1>6 DEF RegistryInv, InFlightRegistered, TypeOK
<1>8. NoOrphans'
  BY <1>1, <1>2, <1>5 DEF RegistryInv, NoOrphans, TypeOK
<1>9. NoRequestWithoutClient'
  BY <1>2 DEF RegistryInv, NoRequestWithoutClient
<1> QED
  BY <1>4, <1>7, <1>8, <1>9 DEF RegistryInv, MutexOK, ErasingOK

LEMMA StateRegistry ==
    ASSUME TypeOK, LocalsOK, RegistryInv, NEW t \in Threads, NEW n \in Namespaces,
           SetSubscriptionState(t, n)
    PROVE  RegistryInv'
<1>1. /\ UNCHANGED <<quicrSubscriptionsMap, subsMutex, client_session, pc, profiles,
                     sub_delegate, it, raced>>
      /\ requested' = AfterSubscribe(n, quicrSubscriptionsMap[n])
      /\ subsMutex = NoThread
  BY DEF SetSubscriptionState, controllerVars, localVars, historyVars
<1>2. \A u \in Threads : pc[u] # "erase"
  BY <1>1, FreeMutex DEF RegistryInv
<1>3. NoOrphans' /\ NoRequestWithoutClient'
  BY <1>1 DEF RegistryInv, NoOrphans, NoRequestWithoutClient, AfterSubscribe, TypeOK
<1>4. InFlightRegistered'
  BY <1>1 DEF RegistryInv, InFlightRegistered, InFlight, Namespace
<1> QED
  BY <1>1, <1>2, <1>3, <1>4 DEF RegistryInv, MutexOK, ErasingOK

LEMMA ConnectRegistry ==
    ASSUME TypeOK, LocalsOK, RegistryInv, NEW t \in Threads, Connect(t)
    PROVE  RegistryInv'
<1>1. /\ UNCHANGED <<quicrSubscriptionsMap, subsMutex, pc, profiles, sub_delegate,
                     it, raced>>
      /\ requested' = [ns \in Namespaces |-> Null]
  BY DEF Connect, localVars, historyVars
<1>2. MutexOK' /\ NoOrphans' /\ NoRequestWithoutClient'
  BY <1>1 DEF RegistryInv, MutexOK, NoOrphans, NoRequestWithoutClient
<1>3. InFlightRegistered'
  BY <1>1 DEF RegistryInv, InFlightRegistered, InFlight, Namespace
<1>4. ErasingOK'
  BY <1>1 DEF RegistryInv, ErasingOK, LocalsOK, InFlight, Namespace
<1> QED
  BY <1>2, <1>3, <1>4 DEF RegistryInv

LEMMA NextRegistry ==
    ASSUME TypeOK, LocalsOK, RegistryInv, [Next]_vars
    PROVE  RegistryInv'
<1>1. CASE UNCHANGED vars
  BY <1>1, QuietRegistry
  DEF vars, controllerVars, localVars, envVars, historyVars, Quiet, InFlight, Namespace
<1>2. ASSUME NEW t \in Threads, QuietStep(t) PROVE RegistryInv'
  BY <1>2, QuietSteps, QuietRegistry
<1>3. ASSUME NEW t \in Threads, Step(t), ~QuietStep(t) PROVE RegistryInv'
  BY <1>3, FindRegistry, CreateRegistry, SubscribeRegistry, EraseRegistry
  DEF Step, QuietStep
<1>4. ASSUME NEW t \in Threads, Call(t), ~QuietStep(t) PROVE RegistryInv'
  BY <1>4, StopRegistry, StateRegistry, ConnectRegistry DEF Call, QuietStep
<1> QED
  BY <1>1, <1>2, <1>3, <1>4 DEF Next

-----------------------------------------------------------------------------
(***************************************************************************)
(* The two maps: sources and the delegates that subscriptions forward to.  *)
(***************************************************************************)

\* getSubscriptionDelegate is the only member that writes qSubscriptionsMap
\* or asks the application.
LEMMA OthersKeepSources ==
    ASSUME [Next]_vars, ~\E t \in Threads : GetSubscriptionDelegate(t)
    PROVE  UNCHANGED <<qSubscriptionsMap, allocations>>
<1> USE DEF controllerVars, localVars, envVars, historyVars
<1>1. CASE UNCHANGED vars
  BY <1>1 DEF vars
<1>2. ASSUME NEW t \in Threads, Step(t), ~GetSubscriptionDelegate(t)
      PROVE  UNCHANGED <<qSubscriptionsMap, allocations>>
  BY <1>2
  DEF Step, NoSubscriberDelegate, UpdateAccepted, UpdateRefused, PrepareFailed,
      Prepared, FindDelegate, CreateDelegate, CreateRefused, Subscribe, StartFails,
      EraseSubscription, FinishManifest
<1>3. ASSUME NEW t \in Threads, Call(t)
      PROVE  UNCHANGED <<qSubscriptionsMap, allocations>>
  BY <1>3
  DEF Call, UpdateManifest, StopSubscription, SetSubscriptionState,
      SetSubscriptionSingleOrdered, Connect
<1> QED
  BY <1>1, <1>2, <1>3 DEF Next

LEMMA SourcesKept ==
    ASSUME TypeOK, [Next]_vars, NEW s \in SourceIds, Known(s)
    PROVE  qSubscriptionsMap'[s] = qSubscriptionsMap[s]
<1>1. CASE UNCHANGED qSubscriptionsMap
  BY <1>1
<1>2. ASSUME NEW t \in Threads, GetSubscriptionDelegate(t)
      PROVE  qSubscriptionsMap'[s] = qSubscriptionsMap[s]
  <2>1. Source(t) \in SourceIds
    BY <1>2, CurrentType DEF GetSubscriptionDelegate
  <2>2. PICK d \in DelegatesFor(Source(t)) :
          qSubscriptionsMap' = [qSubscriptionsMap EXCEPT ![Source(t)] = d]
    BY <1>2 DEF GetSubscriptionDelegate
  <2> QED
    BY <2>1, <2>2 DEF DelegatesFor, Known, TypeOK
<1> QED
  BY <1>1, <1>2, OthersKeepSources

LEMMA NextAllocations ==
    ASSUME TypeOK, AllocationsOK, [Next]_vars
    PROVE  AllocationsOK'
<1>1. CASE UNCHANGED <<qSubscriptionsMap, allocations>>
  BY <1>1 DEF AllocationsOK, Known
<1>2. ASSUME NEW t \in Threads, GetSubscriptionDelegate(t) PROVE AllocationsOK'
  <2> DEFINE s == Source(t)
  <2>1. s \in SourceIds
    BY <1>2, CurrentType DEF GetSubscriptionDelegate
  <2>2. PICK d \in DelegatesFor(s) :
          qSubscriptionsMap' = [qSubscriptionsMap EXCEPT ![s] = d]
    BY <1>2 DEF GetSubscriptionDelegate
  <2>3. allocations' = IF Known(s) THEN allocations
                       ELSE [allocations EXCEPT ![s] = @ + 1]
    BY <1>2 DEF GetSubscriptionDelegate
  <2>4. d # Absent
    BY <2>1, ConstantsAssumption, NullAssumption
    DEF DelegatesFor, Known, TypeOK, QSubscriptionDelegate
  <2>5. CASE Known(s)
    BY <2>1, <2>2, <2>3, <2>4, <2>5 DEF AllocationsOK, Known, TypeOK
  <2>6. CASE ~Known(s)
    BY <2>1, <2>2, <2>3, <2>4, <2>6 DEF AllocationsOK, Known, TypeOK
  <2> QED
    BY <2>5, <2>6
<1> QED
  BY <1>1, <1>2, OthersKeepSources

\* Entries of qSubscriptionsMap never change again, so neither does Forwards.
LEMMA ForwardsKept ==
    ASSUME TypeOK, [Next]_vars, NEW d \in SubscriptionDelegate, Forwards(d)
    PROVE  Forwards(d)'
<1>1. d.sourceId \in SourceIds /\ d.qDelegate \in QSubscriptionDelegate
  BY DEF SubscriptionDelegate
<1>2. Known(d.sourceId)
  BY <1>1, NullAssumption DEF Forwards, Known
<1> QED
  BY <1>1, <1>2, SourcesKept DEF Forwards

\* Where the delegates of the next state come from, CreateDelegate aside.
DelegateOrigins ==
    /\ \A t \in Threads :
          \/ sub_delegate'[t] \in {Null, sub_delegate[t]}
          \/ \E ns \in Namespaces : sub_delegate'[t] = quicrSubscriptionsMap[ns]
    /\ \A ns \in Namespaces :
          quicrSubscriptionsMap'[ns] \in {Absent, quicrSubscriptionsMap[ns]}
    /\ \A ns \in Namespaces :
          \/ requested'[ns] \in {Null, requested[ns], quicrSubscriptionsMap[ns]}
          \/ \E t \in Threads : requested'[ns] = sub_delegate[t]

LEMMA NextOrigins ==
    ASSUME TypeOK, LocalsOK, [Next]_vars, ~\E t \in Threads : CreateDelegate(t)
    PROVE  DelegateOrigins
<1> USE DEF controllerVars, localVars, envVars, historyVars
<1>1. CASE UNCHANGED vars
  BY <1>1 DEF vars, DelegateOrigins
<1>2. ASSUME NEW t \in Threads, QuietStep(t) PROVE DelegateOrigins
  BY <1>2, QuietSteps DEF Quiet, DelegateOrigins
<1>3. ASSUME NEW t \in Threads, FindDelegate(t) PROVE DelegateOrigins
  <2>1. Namespace(t) \in Namespaces
    BY <1>3, CurrentType DEF FindDelegate, LocalsOK
  <2>2. /\ sub_delegate' = [sub_delegate EXCEPT ![t] = Found(Namespace(t))]
        /\ UNCHANGED <<quicrSubscriptionsMap, requested>>
    BY <1>3 DEF FindDelegate
  <2> QED
    BY <2>1, <2>2 DEF Found, TypeOK, DelegateOrigins
<1>4. ASSUME NEW t \in Threads, Subscribe(t) PROVE DelegateOrigins
  <2>1. /\ pc[t] # "erase"
        /\ NextProfile(t)
        /\ UNCHANGED quicrSubscriptionsMap
        /\ requested' = AfterSubscribe(Namespace(t), sub_delegate[t])
    BY <1>4 DEF Subscribe
  <2>2. \A u \in Threads : sub_delegate'[u] \in {Null, sub_delegate[u]}
    BY <2>1, NextStreamQuiet
  <2> QED
    BY <2>1, <2>2 DEF AfterSubscribe, TypeOK, DelegateOrigins
<1>5. ASSUME NEW t \in Threads, EraseSubscription(t) PROVE DelegateOrigins
  BY <1>5 DEF EraseSubscription, Erased, TypeOK, DelegateOrigins
<1>6. ASSUME NEW t \in Threads, NEW n \in Namespaces, StopSubscription(t, n)
      PROVE  DelegateOrigins
  BY <1>6 DEF StopSubscription, AfterUnsubscribe, TypeOK, DelegateOrigins
<1>7. ASSUME NEW t \in Threads, NEW n \in Namespaces, SetSubscriptionState(t, n)
      PROVE  DelegateOrigins
  BY <1>7 DEF SetSubscriptionState, AfterSubscribe, TypeOK, DelegateOrigins
<1>8. ASSUME NEW t \in Threads, Connect(t) PROVE DelegateOrigins
  BY <1>8 DEF Connect, DelegateOrigins
<1> QED
  BY <1>1, <1>2, <1>3, <1>4, <1>5, <1>6, <1>7, <1>8 DEF Next, Step, Call, QuietStep

\* A delegate that is held in the next state is new or was held already.
LEMMA InUseBefore ==
    ASSUME TypeOK, LocalsOK, [Next]_vars, NEW d \in SubscriptionDelegate, InUse(d)',
           ~\E t \in Threads : CreateDelegate(t)
    PROVE  InUse(d)
<1>1. d # Null /\ d # Absent
  BY NullAssumption
<1>2. DelegateOrigins
  BY NextOrigins
<1> QED
  BY <1>1, <1>2 DEF DelegateOrigins, InUse

LEMMA NextForwards ==
    ASSUME TypeOK, LocalsOK, InUseForwards, [Next]_vars
    PROVE  InUseForwards'
<1> SUFFICES ASSUME NEW d \in SubscriptionDelegate, InUse(d)'
             PROVE  Forwards(d)'
  BY DEF InUseForwards
<1>1. CASE InUse(d)
  BY <1>1, ForwardsKept DEF InUseForwards
<1>2. ASSUME NEW t \in Threads, CreateDelegate(t), ~InUse(d)
      PROVE  Forwards(d)'
  <2> DEFINE n == Namespace(t)
             new == [instance |-> created[n] + 1, sourceId |-> Source(t),
                     qDelegate |-> delegate[t], session |-> client_session]
  <2>1. /\ quicrSubscriptionsMap' = [quicrSubscriptionsMap EXCEPT ![n] = new]
        /\ sub_delegate' = [sub_delegate EXCEPT ![t] = new]
        /\ UNCHANGED <<requested, qSubscriptionsMap>>
        /\ pc[t] = "create"
    BY <1>2 DEF CreateDelegate, envVars
  <2>2. new.sourceId = Source(t) /\ new.qDelegate = delegate[t]
    OBVIOUS
  <2> HIDE DEF new
  <2>3. d = new
    BY <1>2, <2>1 DEF InUse, TypeOK
  <2>4. delegate[t] = qSubscriptionsMap[Source(t)]
    BY <2>1 DEF LocalsOK
  <2> QED
    BY <2>1, <2>2, <2>3, <2>4 DEF Forwards
<1> QED
  BY <1>1, <1>2, InUseBefore

-----------------------------------------------------------------------------
LEMMA InitInvariant == Init => IInv
<1> SUFFICES ASSUME Init PROVE AllocationsOK /\ InUseForwards
  BY InitType, InitLocals, InitRegistry DEF IInv
<1>1. AllocationsOK
  BY DEF Init, AllocationsOK, Known
<1>2. InUseForwards
  BY NullAssumption DEF Init, InUseForwards, InUse
<1> QED
  BY <1>1, <1>2

LEMMA NextInvariant == IInv /\ [Next]_vars => IInv'
  BY NextType, NextLocals, NextRegistry, NextAllocations, NextForwards DEF IInv

\* The invariant holds in every reachable state.
THEOREM Invariance == Spec => []IInv
  BY InitInvariant, NextInvariant, PTL DEF Spec

(***************************************************************************)
(* Whatever the threads, sources, namespaces and manifests, the members    *)
(* keep their types and no call dereferences the end of a map: the model   *)
(* of processSubscriptions, startSubscription and stopSubscription never   *)
(* takes the head of an empty list or the delegate of an erased entry.     *)
(***************************************************************************)
THEOREM TypeCorrect == Spec => []TypeOK
<1>1. IInv => TypeOK
  BY DEF IInv
<1> QED
  BY <1>1, Invariance, PTL

(***************************************************************************)
(* Whatever the client was asked to deliver and not asked to stop is       *)
(* registered with the controller, for any number of threads, except where *)
(* stopSubscription overlapped a startSubscription past its lookup.        *)
(***************************************************************************)
THEOREM NoOrphanedSubscription == Spec => []NoOrphans
<1>1. IInv => NoOrphans
  BY DEF IInv, RegistryInv
<1> QED
  BY <1>1, Invariance, PTL

(***************************************************************************)
(* allocateSubBySourceId is called at most once for a source, for any      *)
(* number of threads and manifests.                                        *)
(***************************************************************************)
THEOREM AllocationIsUnique == Spec => []AllocatedOnce
<1>1. IInv => AllocatedOnce
  BY DEF IInv, AllocationsOK, AllocatedOnce
<1> QED
  BY <1>1, Invariance, PTL

(***************************************************************************)
(* Objects always reach the delegate that the application returned for the *)
(* source of the subscription, however stops, restarts and reconnections   *)
(* interleave.                                                             *)
(***************************************************************************)
THEOREM SubscriptionsForward == Spec => []ForwardsToItsSource
<1>1. IInv => ForwardsToItsSource
  <2> SUFFICES ASSUME IInv, NEW ns \in Namespaces,
                      NEW d \in {quicrSubscriptionsMap[ns], requested[ns]} \ {Absent, Null}
               PROVE  qSubscriptionsMap[d.sourceId] = d.qDelegate
    BY DEF ForwardsToItsSource
  <2>1. d \in SubscriptionDelegate
    BY DEF IInv, TypeOK
  <2>2. InUse(d)
    BY DEF InUse
  <2> QED
    BY <2>1, <2>2 DEF IInv, InUseForwards, Forwards
<1> QED
  BY <1>1, Invariance, PTL

(***************************************************************************)
(* A registered SubscriptionDelegate is never silently replaced.           *)
(***************************************************************************)
THEOREM DelegatesKept == Spec => LiveDelegateKept
<1> DEFINE Kept == \A ns \in Namespaces :
             HasSubscription(ns)
             => quicrSubscriptionsMap'[ns] \in {quicrSubscriptionsMap[ns], Absent}
<1>1. IInv /\ [Next]_vars => Kept
  <2> SUFFICES ASSUME IInv, [Next]_vars PROVE Kept
    OBVIOUS
  <2>1. CASE ~\E t \in Threads : CreateDelegate(t)
    BY <2>1, NextOrigins DEF IInv, DelegateOrigins
  <2>2. ASSUME NEW t \in Threads, CreateDelegate(t) PROVE Kept
    <3>1. PICK new : quicrSubscriptionsMap' =
                       [quicrSubscriptionsMap EXCEPT ![Namespace(t)] = new]
      BY <2>2 DEF CreateDelegate
    <3>2. ~HasSubscription(Namespace(t))
      BY <2>2 DEF CreateDelegate, MayCreate
    <3> QED
      BY <3>1, <3>2 DEF IInv, TypeOK
  <2> QED
    BY <2>1, <2>2
<1>2. IInv /\ [Next]_vars => [Kept]_vars
  BY <1>1
<1> QED
  BY <1>2, Invariance, PTL DEF Spec, LiveDelegateKept

\* Every request the client holds is for the delegate registered now.
EveryRequestRegistered ==
    \A ns \in Namespaces : requested[ns] \in {Null, quicrSubscriptionsMap[ns]}

(***************************************************************************)
(* An application that calls the controller from one thread never leaves   *)
(* an orphan: the exception of NoOrphans needs two.                        *)
(***************************************************************************)
THEOREM OneThreadLeavesNoOrphan ==
    ASSUME NEW t \in Threads, Threads = {t}
    PROVE  Spec => []EveryRequestRegistered
<1>1. Init => raced = {}
  BY DEF Init
<1>2. raced = {} /\ [Next]_vars => (raced = {})'
  <2> SUFFICES ASSUME raced = {}, [Next]_vars PROVE raced' = {}
    OBVIOUS
  <2>1. CASE \E ns \in Namespaces : StopSubscription(t, ns)
    BY <2>1 DEF StopSubscription, InFlight
  <2>2. CASE ~\E ns \in Namespaces : StopSubscription(t, ns)
    BY <2>2
    DEF Next, Step, Call, vars, historyVars, NoSubscriberDelegate,
        GetSubscriptionDelegate, UpdateAccepted, UpdateRefused, PrepareFailed,
        Prepared, FindDelegate, CreateDelegate, CreateRefused, Subscribe, StartFails,
        EraseSubscription, FinishManifest, UpdateManifest, SetSubscriptionState,
        SetSubscriptionSingleOrdered, Connect
  <2> QED
    BY <2>1, <2>2
<1>3. NoOrphans /\ raced = {} => EveryRequestRegistered
  BY DEF NoOrphans, EveryRequestRegistered
<1> QED
  BY <1>1, <1>2, <1>3, NoOrphanedSubscription, PTL DEF Spec

-----------------------------------------------------------------------------
(***************************************************************************)
(* The life of a subscription, on top of the invariant above.              *)
(***************************************************************************)
\* A thread remembers an entry from its lookup in stopSubscription to the
\* erase, and the entry stays until then.
StopsOK ==
    \A t \in Threads :
        /\ pc[t] # "erase" => it[t] = Absent
        /\ pc[t] = "erase" => HasSubscription(it[t])

\* The registered delegate is the last one created for its namespace.
NumbersOK ==
    \A ns \in Namespaces :
        HasSubscription(ns) => quicrSubscriptionsMap[ns].instance = created[ns]

\* It was created for the current client or for an earlier one.
SessionsOK ==
    \A ns \in Namespaces :
        HasSubscription(ns) => quicrSubscriptionsMap[ns].session <= client_session

EntriesInv == StopsOK /\ NumbersOK /\ SessionsOK /\ RequestedUnlessReconnected

\* The inductive invariant.
LInv == IInv /\ EntriesInv

-----------------------------------------------------------------------------
(***************************************************************************)
(* The starts under way.                                                   *)
(***************************************************************************)
\* Thread u goes on with the delegate it has got hold of.
StaysInFlight(u) ==
    \A ns \in Namespaces :
        InFlight(u, ns) => InFlight(u, ns)' /\ sub_delegate'[u] = sub_delegate[u]

LEMMA NextProfileStarts ==
    ASSUME TypeOK, NEW t \in Threads, NextStream(t) \/ NextProfile(t)
    PROVE  \A u \in Threads \ {t} : StaysInFlight(u)
<1>1. CASE NextStream(t)
  BY <1>1 DEF TypeOK, NextStream, StaysInFlight, InFlight, Namespace
<1>2. CASE ~NextStream(t)
  <2>1. /\ pc' = [pc EXCEPT ![t] = "find"]
        /\ profiles' = [profiles EXCEPT ![t] = Tail(@)]
        /\ sub_delegate' = [sub_delegate EXCEPT ![t] = Null]
    BY <1>2 DEF NextProfile
  <2> QED
    BY <2>1 DEF TypeOK, StaysInFlight, InFlight, Namespace
<1> QED
  BY <1>1, <1>2

\* A quiet step begins no start and ends none.
LEMMA QuietStarts ==
    ASSUME TypeOK, LocalsOK, NEW t \in Threads, QuietStep(t)
    PROVE  /\ UNCHANGED created
           /\ \A u \in Threads : StaysInFlight(u)
<1> USE DEF controllerVars, localVars, envVars, historyVars
<1>1. CASE NoSubscriberDelegate(t) \/ UpdateAccepted(t) \/ PrepareFailed(t) \/ StartFails(t)
  <2>1. StaysInFlight(t) /\ UNCHANGED created
    BY <1>1
    DEF NoSubscriberDelegate, UpdateAccepted, PrepareFailed, StartFails,
        StaysInFlight, InFlight
  <2>2. \A u \in Threads \ {t} : StaysInFlight(u)
    BY <1>1, NextProfileStarts
    DEF NoSubscriberDelegate, UpdateAccepted, PrepareFailed, StartFails
  <2> QED
    BY <2>1, <2>2
<1>2. CASE GetSubscriptionDelegate(t)
  <2>1. StaysInFlight(t) /\ UNCHANGED created
    BY <1>2 DEF GetSubscriptionDelegate, StaysInFlight, InFlight
  <2>2. CASE NextStream(t)
    BY <2>1, <2>2, NextProfileStarts
  <2>3. CASE pc' = [pc EXCEPT ![t] = "update"] /\ UNCHANGED <<profiles, sub_delegate>>
    BY <2>1, <2>3 DEF TypeOK, StaysInFlight, InFlight, Namespace
  <2> QED
    BY <1>2, <2>2, <2>3 DEF GetSubscriptionDelegate
<1>3. CASE UpdateRefused(t) \/ CreateRefused(t) \/ FinishManifest(t)
  BY <1>3
  DEF UpdateRefused, CreateRefused, FinishManifest, TypeOK, LocalsOK, StaysInFlight,
      InFlight, Namespace
<1>4. CASE Prepared(t)
  BY <1>4 DEF Prepared, TypeOK, StaysInFlight, InFlight, Namespace
<1>5. CASE \E m \in Manifests : UpdateManifest(t, m)
  BY <1>5 DEF UpdateManifest, TypeOK, StaysInFlight, InFlight, Namespace
<1>6. CASE \E b \in BOOLEAN : SetSubscriptionSingleOrdered(t, b)
  BY <1>6 DEF SetSubscriptionSingleOrdered, StaysInFlight, InFlight, Namespace
<1> QED
  BY <1>1, <1>2, <1>3, <1>4, <1>5, <1>6 DEF QuietStep

-----------------------------------------------------------------------------
(***************************************************************************)
(* The invariant.                                                          *)
(***************************************************************************)
LEMMA InitEntries == Init => EntriesInv
  BY DEF Init, EntriesInv, StopsOK, NumbersOK, SessionsOK,
         RequestedUnlessReconnected, HasSubscription

\* No entry is being erased while subsMutex is free.
LEMMA FreeStops ==
    ASSUME IInv, EntriesInv, subsMutex = NoThread
    PROVE  \A t \in Threads : pc[t] # "erase" /\ it[t] = Absent
  BY FreeMutex DEF IInv, RegistryInv, EntriesInv, StopsOK

LEMMA QuietEntries ==
    ASSUME LInv, NEW t \in Threads, QuietStep(t)
    PROVE  EntriesInv'
<1>1. Quiet /\ UNCHANGED created /\ \A u \in Threads : StaysInFlight(u)
  BY QuietSteps, QuietStarts DEF LInv, IInv
<1>2. StopsOK' /\ NumbersOK' /\ SessionsOK'
  BY <1>1 DEF LInv, EntriesInv, StopsOK, NumbersOK, SessionsOK, HasSubscription, Quiet
<1>3. RequestedUnlessReconnected'
  BY <1>1
  DEF LInv, EntriesInv, RequestedUnlessReconnected, HasSubscription, Quiet,
      StaysInFlight
<1> QED
  BY <1>2, <1>3 DEF EntriesInv

LEMMA FindEntries ==
    ASSUME LInv, NEW t \in Threads, FindDelegate(t)
    PROVE  EntriesInv'
<1>1. /\ pc[t] = "find"
      /\ pc' = [pc EXCEPT ![t] =
                  IF Found(Namespace(t)) = Null THEN "create" ELSE "subscribe"]
      /\ \A u \in Threads \ {t} : sub_delegate'[u] = sub_delegate[u]
      /\ UNCHANGED <<quicrSubscriptionsMap, requested, it, client_session, profiles,
                     created>>
  BY DEF LInv, IInv, TypeOK, FindDelegate, controllerVars, envVars, historyVars
<1>2. \A u \in Threads, ns \in Namespaces : InFlight(u, ns) => InFlight(u, ns)'
  BY <1>1 DEF LInv, IInv, TypeOK, InFlight, Namespace
<1>3. \A u \in Threads : pc'[u] = "erase" <=> pc[u] = "erase"
  BY <1>1 DEF LInv, IInv, TypeOK
<1>4. StopsOK' /\ NumbersOK' /\ SessionsOK'
  BY <1>1, <1>3
  DEF LInv, EntriesInv, StopsOK, NumbersOK, SessionsOK, HasSubscription
<1>5. RequestedUnlessReconnected'
  BY <1>1, <1>2 DEF LInv, EntriesInv, RequestedUnlessReconnected, HasSubscription
<1> QED
  BY <1>4, <1>5 DEF EntriesInv

\* The entry that createQuicrSubscriptionDelegate makes.
LEMMA CreateEntry ==
    ASSUME IInv, NEW t \in Threads, CreateDelegate(t)
    PROVE  /\ Namespace(t) \in Namespaces
           /\ ~HasSubscription(Namespace(t))
           /\ subsMutex = NoThread
           /\ \E new \in SubscriptionDelegate :
                 /\ new.instance = created[Namespace(t)] + 1
                 /\ new.session = client_session
                 /\ new # Null /\ new # Absent
                 /\ quicrSubscriptionsMap' =
                       [quicrSubscriptionsMap EXCEPT ![Namespace(t)] = new]
                 /\ sub_delegate' = [sub_delegate EXCEPT ![t] = new]
           /\ created' = [created EXCEPT ![Namespace(t)] = @ + 1]
           /\ pc[t] = "create"
           /\ pc' = [pc EXCEPT ![t] = "subscribe"]
           /\ UNCHANGED <<requested, it, client_session, profiles>>
<1> DEFINE ns == Namespace(t)
           new == [instance |-> created[ns] + 1, sourceId |-> Source(t),
                   qDelegate |-> delegate[t], session |-> client_session]
<1>1. /\ ns \in Namespaces
      /\ Source(t) \in SourceIds
      /\ delegate[t] \in QSubscriptionDelegate
  BY CurrentType DEF CreateDelegate, IInv, LocalsOK, TypeOK
<1>2. new \in SubscriptionDelegate
  BY <1>1 DEF SubscriptionDelegate, IInv, TypeOK
<1>3. /\ new.instance = created[ns] + 1
      /\ new.session = client_session
      /\ new # Null /\ new # Absent
  BY <1>2, NullAssumption
<1>4. /\ quicrSubscriptionsMap' = [quicrSubscriptionsMap EXCEPT ![ns] = new]
      /\ sub_delegate' = [sub_delegate EXCEPT ![t] = new]
      /\ created' = [created EXCEPT ![ns] = @ + 1]
  BY DEF CreateDelegate
<1> HIDE DEF new
<1> QED
  BY <1>1, <1>2, <1>3, <1>4 DEF CreateDelegate, MayCreate, envVars

LEMMA CreateEntries ==
    ASSUME LInv, NEW t \in Threads, CreateDelegate(t)
    PROVE  EntriesInv'
<1> DEFINE n == Namespace(t)
<1>1. /\ n \in Namespaces
      /\ ~HasSubscription(n)
      /\ subsMutex = NoThread
      /\ created' = [created EXCEPT ![n] = @ + 1]
      /\ pc[t] = "create"
      /\ pc' = [pc EXCEPT ![t] = "subscribe"]
      /\ UNCHANGED <<requested, it, client_session, profiles>>
  BY CreateEntry DEF LInv
<1>2. PICK new \in SubscriptionDelegate :
        /\ new.instance = created[n] + 1
        /\ new.session = client_session
        /\ new # Null /\ new # Absent
        /\ quicrSubscriptionsMap' = [quicrSubscriptionsMap EXCEPT ![n] = new]
        /\ sub_delegate' = [sub_delegate EXCEPT ![t] = new]
  BY CreateEntry DEF LInv
<1> HIDE DEF n
<1>3. \A u \in Threads : pc'[u] # "erase" /\ it'[u] = Absent
  BY <1>1, FreeStops DEF LInv, IInv, TypeOK
<1>4. StopsOK'
  BY <1>3 DEF StopsOK
<1>5. NumbersOK' /\ SessionsOK'
  BY <1>1, <1>2
  DEF LInv, IInv, TypeOK, EntriesInv, NumbersOK, SessionsOK, HasSubscription
<1>6. \A ns \in Namespaces : ns = n => InFlight(t, ns)'
  BY <1>1, <1>2 DEF LInv, IInv, TypeOK, InFlight, Namespace, n
<1>7. \A u \in Threads, ns \in Namespaces : InFlight(u, ns) => InFlight(u, ns)'
  BY <1>1, <1>2 DEF LInv, IInv, TypeOK, InFlight, Namespace
<1>8. \A ns \in Namespaces \ {n} :
        quicrSubscriptionsMap'[ns] = quicrSubscriptionsMap[ns]
  BY <1>1, <1>2 DEF LInv, IInv, TypeOK
<1>9. RequestedUnlessReconnected'
  <2> SUFFICES ASSUME NEW ns \in Namespaces,
                      (/\ HasSubscription(ns) /\ client_session # 0
                       /\ quicrSubscriptionsMap[ns].session = client_session)'
               PROVE  \/ requested'[ns] # Null
                      \/ \E u \in Threads : InFlight(u, ns)' \/ it'[u] = ns
    BY DEF RequestedUnlessReconnected
  <2>1. CASE ns = n
    BY <1>6, <2>1
  <2>2. CASE ns # n
    <3>1. requested[ns] # Null \/ \E u \in Threads : InFlight(u, ns) \/ it[u] = ns
      BY <1>1, <1>8, <2>2 DEF LInv, EntriesInv, RequestedUnlessReconnected, HasSubscription
    <3> QED
      BY <1>1, <1>7, <3>1
  <2> QED
    BY <2>1, <2>2
<1> QED
  BY <1>4, <1>5, <1>9 DEF EntriesInv

LEMMA SubscribeEntries ==
    ASSUME LInv, NEW t \in Threads, Subscribe(t)
    PROVE  EntriesInv'
<1> DEFINE n == Namespace(t)
<1>1. /\ n \in Namespaces
      /\ pc[t] = "subscribe" /\ sub_delegate[t] # Null
      /\ requested' = AfterSubscribe(n, sub_delegate[t])
      /\ NextProfile(t)
      /\ UNCHANGED <<quicrSubscriptionsMap, it, client_session, created>>
  BY CurrentType DEF Subscribe, LInv, IInv, LocalsOK, controllerVars, historyVars
<1>2. \A u \in Threads : pc'[u] = "erase" <=> pc[u] = "erase"
  BY <1>1, NextStreamQuiet DEF LInv, IInv
<1>3. StopsOK' /\ NumbersOK' /\ SessionsOK'
  BY <1>1, <1>2
  DEF LInv, EntriesInv, StopsOK, NumbersOK, SessionsOK, HasSubscription
<1>4. \A u \in Threads \ {t} : StaysInFlight(u)
  BY <1>1, NextProfileStarts DEF LInv, IInv
<1>5. \A ns \in Namespaces : InFlight(t, ns) => ns = n
  BY DEF InFlight
<1>6. client_session # 0 =>
        /\ requested'[n] # Null
        /\ \A ns \in Namespaces : requested[ns] # Null => requested'[ns] # Null
  BY <1>1 DEF AfterSubscribe, LInv, IInv, TypeOK
<1> HIDE DEF n
<1>7. RequestedUnlessReconnected'
  BY <1>1, <1>4, <1>5, <1>6
  DEF LInv, EntriesInv, RequestedUnlessReconnected, HasSubscription, StaysInFlight
<1> QED
  BY <1>3, <1>7 DEF EntriesInv

LEMMA StopEntries ==
    ASSUME LInv, NEW t \in Threads, NEW n \in Namespaces, StopSubscription(t, n)
    PROVE  EntriesInv'
<1>1. /\ pc[t] = "idle" /\ subsMutex = NoThread /\ HasSubscription(n)
      /\ it' = [it EXCEPT ![t] = n]
      /\ pc' = [pc EXCEPT ![t] = "erase"]
      /\ requested' = AfterUnsubscribe(n)
      /\ UNCHANGED <<quicrSubscriptionsMap, client_session, profiles, sub_delegate,
                     created>>
  BY DEF StopSubscription
<1>2. StopsOK'
  BY <1>1 DEF LInv, IInv, TypeOK, EntriesInv, StopsOK, HasSubscription
<1>3. NumbersOK' /\ SessionsOK'
  BY <1>1 DEF LInv, EntriesInv, NumbersOK, SessionsOK, HasSubscription
<1>4. \A u \in Threads, ns \in Namespaces : InFlight(u, ns) => InFlight(u, ns)'
  BY <1>1 DEF LInv, IInv, TypeOK, InFlight, Namespace
<1>5. /\ it'[t] = n
      /\ \A u \in Threads, ns \in Namespaces : it[u] = ns => it'[u] = ns
  <2>1. it[t] = Absent
    BY <1>1, FreeStops DEF LInv
  <2> QED
    BY <1>1, <2>1, NullAssumption DEF LInv, IInv, TypeOK
<1>6. \A ns \in Namespaces \ {n} : requested'[ns] = requested[ns]
  BY <1>1 DEF AfterUnsubscribe, LInv, IInv, TypeOK
<1>7. RequestedUnlessReconnected'
  BY <1>1, <1>4, <1>5, <1>6
  DEF LInv, EntriesInv, RequestedUnlessReconnected, HasSubscription
<1> QED
  BY <1>2, <1>3, <1>7 DEF EntriesInv

LEMMA EraseEntries ==
    ASSUME LInv, NEW t \in Threads, EraseSubscription(t)
    PROVE  EntriesInv'
<1> DEFINE n == it[t]
<1>1. /\ pc[t] = "erase" /\ n \in Namespaces
      /\ it' = [it EXCEPT ![t] = Absent]
      /\ pc' = [pc EXCEPT ![t] = "idle"]
      /\ quicrSubscriptionsMap' = [quicrSubscriptionsMap EXCEPT ![n] = Absent]
      /\ UNCHANGED <<requested, client_session, profiles, sub_delegate, created>>
  BY DEF EraseSubscription, Erased, LInv, IInv, LocalsOK, envVars, historyVars
<1>2. \A u \in Threads \ {t} : pc[u] # "erase"
  BY <1>1 DEF LInv, IInv, RegistryInv, MutexOK
<1>3. StopsOK'
  BY <1>1, <1>2 DEF LInv, IInv, TypeOK, EntriesInv, StopsOK
<1>4. NumbersOK' /\ SessionsOK'
  BY <1>1 DEF LInv, IInv, TypeOK, EntriesInv, NumbersOK, SessionsOK, HasSubscription
<1>5. \A u \in Threads, ns \in Namespaces :
        /\ InFlight(u, ns) => InFlight(u, ns)'
        /\ it[u] = ns => it'[u] = ns \/ ns = n
  BY <1>1 DEF LInv, IInv, TypeOK, InFlight, Namespace
<1>6. RequestedUnlessReconnected'
  BY <1>1, <1>5
  DEF LInv, IInv, TypeOK, EntriesInv, RequestedUnlessReconnected, HasSubscription
<1> QED
  BY <1>3, <1>4, <1>6 DEF EntriesInv

LEMMA StateEntries ==
    ASSUME LInv, NEW t \in Threads, NEW n \in Namespaces, SetSubscriptionState(t, n)
    PROVE  EntriesInv'
<1>1. /\ HasSubscription(n)
      /\ requested' = AfterSubscribe(n, quicrSubscriptionsMap[n])
      /\ UNCHANGED <<quicrSubscriptionsMap, client_session, pc, profiles,
                     sub_delegate, it, created>>
  BY DEF SetSubscriptionState, controllerVars, localVars, historyVars
<1>2. \A ns \in Namespaces : requested[ns] # Null => requested'[ns] # Null
  BY <1>1, NullAssumption DEF AfterSubscribe, HasSubscription, LInv, IInv, TypeOK
<1>3. StopsOK' /\ NumbersOK' /\ SessionsOK'
  BY <1>1 DEF LInv, EntriesInv, StopsOK, NumbersOK, SessionsOK, HasSubscription
<1>4. RequestedUnlessReconnected'
  BY <1>1, <1>2
  DEF LInv, EntriesInv, RequestedUnlessReconnected, HasSubscription, InFlight,
      Namespace
<1> QED
  BY <1>3, <1>4 DEF EntriesInv

LEMMA ConnectEntries ==
    ASSUME LInv, NEW t \in Threads, Connect(t)
    PROVE  EntriesInv'
<1>1. /\ client_session' = client_session + 1
      /\ UNCHANGED <<quicrSubscriptionsMap, pc, profiles, sub_delegate, it, created>>
  BY DEF Connect, localVars, historyVars
<1>2. \A ns \in Namespaces : HasSubscription(ns) =>
        /\ quicrSubscriptionsMap[ns].session \in Nat
        /\ quicrSubscriptionsMap[ns].session <= client_session
  BY DEF LInv, IInv, TypeOK, SubscriptionDelegate, EntriesInv, SessionsOK,
         HasSubscription
<1>3. StopsOK' /\ NumbersOK'
  BY <1>1 DEF LInv, EntriesInv, StopsOK, NumbersOK, HasSubscription
<1>4. SessionsOK' /\ RequestedUnlessReconnected'
  BY <1>1, <1>2
  DEF LInv, IInv, TypeOK, SessionsOK, RequestedUnlessReconnected, HasSubscription
<1> QED
  BY <1>3, <1>4 DEF EntriesInv

LEMMA NextEntries == LInv /\ [Next]_vars => EntriesInv'
<1> SUFFICES ASSUME LInv, [Next]_vars PROVE EntriesInv'
  OBVIOUS
<1>1. CASE UNCHANGED vars
  BY <1>1
  DEF vars, controllerVars, localVars, envVars, historyVars, LInv, EntriesInv,
      StopsOK, NumbersOK, SessionsOK, RequestedUnlessReconnected, HasSubscription,
      InFlight, Namespace
<1>2. ASSUME NEW t \in Threads, QuietStep(t) PROVE EntriesInv'
  BY <1>2, QuietEntries
<1>3. ASSUME NEW t \in Threads, Step(t), ~QuietStep(t) PROVE EntriesInv'
  BY <1>3, FindEntries, CreateEntries, SubscribeEntries, EraseEntries
  DEF Step, QuietStep
<1>4. ASSUME NEW t \in Threads, Call(t), ~QuietStep(t) PROVE EntriesInv'
  BY <1>4, StopEntries, StateEntries, ConnectEntries DEF Call, QuietStep
<1> QED
  BY <1>1, <1>2, <1>3, <1>4 DEF Next

\* The invariant holds in every reachable state.
THEOREM LifecycleInvariance == Spec => []LInv
<1>1. Init => LInv
  BY InitInvariant, InitEntries DEF LInv
<1>2. LInv /\ [Next]_vars => LInv'
  BY NextInvariant, NextEntries DEF LInv
<1> QED
  BY <1>1, <1>2, PTL DEF Spec

(***************************************************************************)
(* A subscription that was created for the current client is requested     *)
(* from it, or about to be, or about to be erased, for any number of       *)
(* threads: no interleaving of starts and stops leaves it silent.          *)
(***************************************************************************)
THEOREM SubscriptionsRequested == Spec => []RequestedUnlessReconnected
<1>1. LInv => RequestedUnlessReconnected
  BY DEF LInv, EntriesInv
<1> QED
  BY <1>1, LifecycleInvariance, PTL

(***************************************************************************)
(* Nothing but stopSubscription ends a subscription, and nothing but it    *)
(* and connect ends a request, whatever manifests are processed meanwhile. *)
(***************************************************************************)
THEOREM StopsAlone == Spec => OnlyStopsEnd
<1> DEFINE Ends(ns) ==
             /\ HasSubscription(ns) /\ ~HasSubscription(ns)'
                  => \E t \in Threads : pc[t] = "erase" /\ it[t] = ns
             /\ requested[ns] # Null /\ requested'[ns] = Null
                  => \/ \E t \in Threads : pc'[t] = "erase" /\ it'[t] = ns
                     \/ client_session' # client_session
           Kept(ns) ==
             /\ HasSubscription(ns) => HasSubscription(ns)'
             /\ requested[ns] # Null => requested'[ns] # Null
<1>1. ASSUME LInv, [Next]_vars, NEW ns \in Namespaces PROVE Ends(ns)
  <2> USE <1>1
  <2>1. CASE UNCHANGED vars
    BY <2>1 DEF vars, controllerVars, envVars, HasSubscription
  <2>2. ASSUME NEW t \in Threads, QuietStep(t) PROVE Kept(ns)
    BY <2>2, QuietSteps DEF LInv, IInv, Quiet, HasSubscription
  <2>3. ASSUME NEW t \in Threads, FindDelegate(t) PROVE Kept(ns)
    BY <2>3 DEF FindDelegate, controllerVars, envVars, HasSubscription
  <2>4. ASSUME NEW t \in Threads, CreateDelegate(t) PROVE Kept(ns)
    BY <2>4, CreateEntry DEF LInv, IInv, TypeOK, HasSubscription
  <2>5. ASSUME NEW t \in Threads, Subscribe(t) PROVE Kept(ns)
    BY <2>5
    DEF LInv, IInv, TypeOK, Subscribe, AfterSubscribe, controllerVars, HasSubscription
  <2>6. ASSUME NEW t \in Threads, EraseSubscription(t) PROVE Ends(ns)
    BY <2>6 DEF LInv, IInv, TypeOK, EraseSubscription, Erased, envVars, HasSubscription
  <2>7. ASSUME NEW t \in Threads, NEW n \in Namespaces, StopSubscription(t, n)
        PROVE  Ends(ns)
    BY <2>7 DEF LInv, IInv, TypeOK, StopSubscription, AfterUnsubscribe, HasSubscription
  <2>8. ASSUME NEW t \in Threads, NEW n \in Namespaces, SetSubscriptionState(t, n)
        PROVE  Kept(ns)
    BY <2>8, NullAssumption
    DEF LInv, IInv, TypeOK, SetSubscriptionState, AfterSubscribe, controllerVars,
        HasSubscription
  <2>9. ASSUME NEW t \in Threads, Connect(t) PROVE Ends(ns)
    BY <2>9 DEF LInv, IInv, TypeOK, Connect, HasSubscription
  <2> QED
    BY <2>1, <2>2, <2>3, <2>4, <2>5, <2>6, <2>7, <2>8, <2>9
    DEF Next, Step, Call, QuietStep
<1>2. LInv /\ [Next]_vars => [\A ns \in Namespaces : Ends(ns)]_vars
  BY <1>1
<1> QED
  BY <1>2, LifecycleInvariance, PTL DEF Spec, OnlyStopsEnd

-----------------------------------------------------------------------------
(***************************************************************************)
(* The refinement.  The steps are proved one by one; what each does to the *)
(* values that the refinement mapping gives SubscriptionLifecycle comes    *)
(* first.                                                                  *)
(***************************************************************************)
LEMMA InitMapped == Init => Lifecycle!Init
<1> SUFFICES ASSUME Init PROVE Lifecycle!Init
  OBVIOUS
<1>1. \A ns \in Namespaces : Phase(ns) = "absent" /\ Held(ns) = 0
  BY NullAssumption DEF Init, Phase, HasSubscription, Held
<1>2. \A ns \in Namespaces : Starts(ns) = {}
  BY DEF Init, Starts, InFlight
<1> QED
  BY <1>1, <1>2 DEF Init, Lifecycle!Init

\* An entry is leaving exactly while a thread is about to erase it.
LEMMA Phases ==
    ASSUME LInv, NEW ns \in Namespaces
    PROVE  /\ Phase(ns) = "absent" <=> ~HasSubscription(ns)
           /\ Phase(ns) = "leaving" <=> \E t \in Threads : it[t] = ns
           /\ subsMutex = NoThread /\ HasSubscription(ns) => Phase(ns) = "registered"
<1>1. ASSUME NEW t \in Threads, it[t] = ns PROVE HasSubscription(ns)
  BY <1>1, NullAssumption DEF LInv, EntriesInv, StopsOK
<1>2. subsMutex = NoThread => ~\E t \in Threads : it[t] = ns
  BY FreeStops, NullAssumption DEF LInv
<1> QED
  BY <1>1, <1>2 DEF Phase

\* A step that changes neither the registry nor the stops changes no phase.
LEMMA PhaseKept ==
    ASSUME UNCHANGED <<quicrSubscriptionsMap, it>>
    PROVE  \A ns \in Namespaces : Phase(ns)' = Phase(ns)
  BY DEF Phase, HasSubscription

LEMMA HeldKept ==
    ASSUME UNCHANGED requested
    PROVE  \A ns \in Namespaces : Held(ns)' = Held(ns)
  BY DEF Held

\* The starts of a namespace stay if the threads that make them do.
LEMMA StartsKept ==
    ASSUME NEW ns \in Namespaces,
           \A u \in Threads :
              /\ InFlight(u, ns)' <=> InFlight(u, ns)
              /\ InFlight(u, ns) => sub_delegate'[u] = sub_delegate[u]
    PROVE  Starts(ns)' = Starts(ns)
  BY DEF Starts

\* No client is told anything before there is one.
LEMMA HandedOver ==
    ASSUME LInv, NEW ns \in Namespaces, NEW d \in SubscriptionDelegate \cup {Null},
           NEW k, k = IF d = Null THEN 0 ELSE d.instance,
           requested' = IF client_session = 0 THEN requested
                        ELSE [requested EXCEPT ![ns] = d]
    PROVE  [m \in Namespaces |-> Held(m)]' = Lifecycle!Handed(ns, k)
<1>1. \A m \in Namespaces : Held(m)' =
        IF client_session # 0 /\ m = ns THEN k ELSE Held(m)
  BY DEF Held, LInv, IInv, TypeOK
<1> QED
  BY <1>1 DEF Lifecycle!Handed

LEMMA QuietMapped ==
    ASSUME LInv, NEW t \in Threads, QuietStep(t)
    PROVE  UNCHANGED Lifecycle!vars
<1>1. /\ UNCHANGED <<quicrSubscriptionsMap, requested, it, client_session, created>>
      /\ \A u \in Threads, ns \in Namespaces :
            /\ InFlight(u, ns)' <=> InFlight(u, ns)
            /\ InFlight(u, ns) => sub_delegate'[u] = sub_delegate[u]
  BY QuietSteps, QuietStarts DEF LInv, IInv, Quiet, StaysInFlight
<1>2. \A ns \in Namespaces :
        /\ Phase(ns)' = Phase(ns)
        /\ Held(ns)' = Held(ns)
        /\ Starts(ns)' = Starts(ns)
  BY <1>1, PhaseKept, HeldKept, StartsKept
<1> QED
  BY <1>1, <1>2 DEF Lifecycle!vars

LEMMA FindMapped ==
    ASSUME LInv, NEW t \in Threads, FindDelegate(t)
    PROVE  [Lifecycle!Next]_Lifecycle!vars
<1> DEFINE n == Namespace(t)
<1>1. /\ n \in Namespaces
      /\ pc[t] = "find" /\ subsMutex = NoThread
      /\ sub_delegate' = [sub_delegate EXCEPT ![t] = Found(n)]
      /\ pc' = [pc EXCEPT ![t] = IF Found(n) = Null THEN "create" ELSE "subscribe"]
      /\ UNCHANGED <<quicrSubscriptionsMap, requested, it, client_session, profiles,
                     created>>
  BY CurrentType
  DEF LInv, IInv, LocalsOK, FindDelegate, controllerVars, envVars, historyVars
<1>2. \A ns \in Namespaces : Phase(ns)' = Phase(ns) /\ Held(ns)' = Held(ns)
  BY <1>1, PhaseKept, HeldKept
<1>3. \A u \in Threads \ {t}, ns \in Namespaces :
        /\ InFlight(u, ns)' <=> InFlight(u, ns)
        /\ sub_delegate'[u] = sub_delegate[u]
  BY <1>1 DEF LInv, IInv, TypeOK, InFlight, Namespace
<1>4. \A ns \in Namespaces : ~InFlight(t, ns)
  BY <1>1 DEF InFlight
<1>5. sub_delegate'[t] = Found(n)
  BY <1>1 DEF LInv, IInv, TypeOK
<1>6. \A ns \in Namespaces : InFlight(t, ns)' <=> Found(n) # Null /\ ns = n
  BY <1>1, <1>5 DEF LInv, IInv, TypeOK, InFlight, Namespace
<1> HIDE DEF n
<1>7. CASE Found(n) = Null
  <2>1. \A ns \in Namespaces : Starts(ns)' = Starts(ns)
    BY <1>3, <1>4, <1>6, <1>7, StartsKept
  <2> QED
    BY <1>1, <1>2, <2>1 DEF Lifecycle!vars
<1>8. CASE Found(n) # Null
  <2>1. HasSubscription(n) /\ Found(n).instance = created[n]
    BY <1>1, <1>8 DEF Found, LInv, EntriesInv, NumbersOK
  <2>2. Phase(n) = "registered"
    BY <1>1, <2>1, Phases
  <2>3. \A ns \in Namespaces \ {n} : Starts(ns)' = Starts(ns)
    BY <1>3, <1>4, <1>6, StartsKept
  <2>4. \A ns \in Namespaces : ns = n => Starts(ns)' = Starts(n) \cup {created[n]}
    BY <1>3, <1>4, <1>5, <1>6, <1>8, <2>1 DEF Starts
  <2>5. [ns \in Namespaces |-> Starts(ns)]' =
          [[ns \in Namespaces |-> Starts(ns)] EXCEPT ![n] = @ \cup {created[n]}]
    BY <1>1, <2>3, <2>4
  <2>6. Lifecycle!Find(n)
    BY <1>1, <1>2, <2>2, <2>5 DEF Lifecycle!Find
  <2> QED
    BY <1>1, <2>6 DEF Lifecycle!Next
<1> QED
  BY <1>7, <1>8

LEMMA CreateMapped ==
    ASSUME LInv, NEW t \in Threads, CreateDelegate(t)
    PROVE  [Lifecycle!Next]_Lifecycle!vars
<1> DEFINE n == Namespace(t)
<1>1. /\ n \in Namespaces /\ ~HasSubscription(n)
      /\ subsMutex = NoThread
      /\ created' = [created EXCEPT ![n] = @ + 1]
      /\ pc[t] = "create"
      /\ pc' = [pc EXCEPT ![t] = "subscribe"]
      /\ UNCHANGED <<requested, it, client_session, profiles>>
  BY CreateEntry DEF LInv
<1>2. PICK new \in SubscriptionDelegate :
        /\ new.instance = created[n] + 1
        /\ new # Null /\ new # Absent
        /\ quicrSubscriptionsMap' = [quicrSubscriptionsMap EXCEPT ![n] = new]
        /\ sub_delegate' = [sub_delegate EXCEPT ![t] = new]
  BY CreateEntry DEF LInv
<1>3. \A u \in Threads \ {t}, ns \in Namespaces :
        /\ InFlight(u, ns)' <=> InFlight(u, ns)
        /\ sub_delegate'[u] = sub_delegate[u]
  BY <1>1, <1>2 DEF LInv, IInv, TypeOK, InFlight, Namespace
<1>4. \A ns \in Namespaces : ~InFlight(t, ns)
  BY <1>1 DEF InFlight
<1>5. sub_delegate'[t] = new
  BY <1>2 DEF LInv, IInv, TypeOK
<1>6. \A ns \in Namespaces : InFlight(t, ns)' <=> ns = n
  BY <1>1, <1>2, <1>5 DEF LInv, IInv, TypeOK, InFlight, Namespace
<1> HIDE DEF n
<1>7. [ns \in Namespaces |-> Phase(ns)]' =
        [[ns \in Namespaces |-> Phase(ns)] EXCEPT ![n] = "registered"]
  <2>1. ~\E u \in Threads : it'[u] = n
    BY <1>1, FreeStops, NullAssumption DEF LInv
  <2>2. \A ns \in Namespaces : ns = n => Phase(ns)' = "registered"
    BY <1>1, <1>2, <2>1 DEF Phase, HasSubscription, LInv, IInv, TypeOK
  <2>3. \A ns \in Namespaces \ {n} : Phase(ns)' = Phase(ns)
    BY <1>1, <1>2 DEF Phase, HasSubscription, LInv, IInv, TypeOK
  <2> QED
    BY <1>1, <2>2, <2>3
<1>8. [ns \in Namespaces |-> Starts(ns)]' =
        [[ns \in Namespaces |-> Starts(ns)] EXCEPT ![n] = @ \cup {created[n] + 1}]
  <2>1. \A ns \in Namespaces \ {n} : Starts(ns)' = Starts(ns)
    BY <1>3, <1>4, <1>6, StartsKept
  <2>2. \A ns \in Namespaces : ns = n => Starts(ns)' = Starts(n) \cup {created[n] + 1}
    BY <1>2, <1>3, <1>4, <1>5, <1>6 DEF Starts
  <2> QED
    BY <1>1, <2>1, <2>2
<1>9. Phase(n) = "absent" /\ \A ns \in Namespaces : Held(ns)' = Held(ns)
  BY <1>1, Phases, HeldKept
<1>10. Lifecycle!Register(n)
  BY <1>1, <1>7, <1>8, <1>9 DEF Lifecycle!Register
<1> QED
  BY <1>1, <1>10 DEF Lifecycle!Next

LEMMA SubscribeMapped ==
    ASSUME LInv, NEW t \in Threads, Subscribe(t)
    PROVE  [Lifecycle!Next]_Lifecycle!vars
<1> DEFINE n == Namespace(t)
           k == sub_delegate[t].instance
<1>1. /\ n \in Namespaces
      /\ pc[t] = "subscribe" /\ sub_delegate[t] # Null
      /\ sub_delegate[t] \in SubscriptionDelegate
      /\ requested' = AfterSubscribe(n, sub_delegate[t])
      /\ NextProfile(t)
      /\ UNCHANGED <<quicrSubscriptionsMap, it, client_session, created>>
  BY CurrentType
  DEF Subscribe, LInv, IInv, TypeOK, LocalsOK, controllerVars, historyVars
<1>2. \A u \in Threads, ns \in Namespaces :
        /\ InFlight(u, ns)' <=> InFlight(u, ns) /\ u # t
        /\ InFlight(u, ns)' => sub_delegate'[u] = sub_delegate[u]
  BY <1>1, NextStreamQuiet, NextProfileStarts DEF LInv, IInv, StaysInFlight
<1>3. \A ns \in Namespaces : InFlight(t, ns) <=> ns = n
  BY <1>1 DEF InFlight
<1>4. [ns \in Namespaces |-> Held(ns)]' = Lifecycle!Handed(n, k)
  BY <1>1, HandedOver DEF AfterSubscribe
<1> HIDE DEF n, k
<1>5. \A ns \in Namespaces : Phase(ns)' = Phase(ns)
  BY <1>1, PhaseKept
<1>6. k \in Starts(n)
  BY <1>1, <1>3 DEF Starts, k
<1>7. \A ns \in Namespaces \ {n} : Starts(ns)' = Starts(ns)
  BY <1>2, <1>3, StartsKept
<1>8. ASSUME NEW ns \in Namespaces, ns = n
      PROVE  Starts(ns)' \in {Starts(ns), Starts(ns) \ {k}}
  <2>1. Starts(ns)' = {sub_delegate[u].instance :
                         u \in {w \in Threads : InFlight(w, ns) /\ w # t}}
    BY <1>2 DEF Starts
  <2>2. Starts(ns) = Starts(ns)' \cup {k}
    BY <1>3, <1>8, <2>1 DEF Starts, k
  <2> QED
    BY <2>2
<1>9. [ns \in Namespaces |-> Starts(ns)]' \in
        {[ns \in Namespaces |-> Starts(ns)],
         [[ns \in Namespaces |-> Starts(ns)] EXCEPT ![n] = @ \ {k}]}
  <2>1. CASE \A ns \in Namespaces : ns = n => Starts(ns)' = Starts(ns)
    BY <1>7, <2>1
  <2>2. CASE \A ns \in Namespaces : ns = n => Starts(ns)' = Starts(ns) \ {k}
    BY <1>1, <1>7, <2>2
  <2> QED
    BY <1>8, <2>1, <2>2
<1>10. Lifecycle!Request(n)
  BY <1>1, <1>4, <1>5, <1>6, <1>9 DEF Lifecycle!Request
<1> QED
  BY <1>1, <1>10 DEF Lifecycle!Next

LEMMA StopMapped ==
    ASSUME LInv, NEW t \in Threads, NEW n \in Namespaces, StopSubscription(t, n)
    PROVE  [Lifecycle!Next]_Lifecycle!vars
<1>1. /\ pc[t] = "idle" /\ subsMutex = NoThread /\ HasSubscription(n)
      /\ it' = [it EXCEPT ![t] = n]
      /\ pc' = [pc EXCEPT ![t] = "erase"]
      /\ requested' = AfterUnsubscribe(n)
      /\ UNCHANGED <<quicrSubscriptionsMap, client_session, profiles, sub_delegate,
                     created>>
  BY DEF StopSubscription
<1>2. \A u \in Threads, ns \in Namespaces : InFlight(u, ns)' <=> InFlight(u, ns)
  BY <1>1 DEF LInv, IInv, TypeOK, InFlight, Namespace
<1>3. \A ns \in Namespaces : Starts(ns)' = Starts(ns)
  BY <1>1, <1>2, StartsKept
<1>4. [ns \in Namespaces |-> Held(ns)]' = Lifecycle!Handed(n, 0)
  BY <1>1, HandedOver DEF AfterUnsubscribe
<1>5. Phase(n) = "registered"
  BY <1>1, Phases
<1>6. [ns \in Namespaces |-> Phase(ns)]' =
        [[ns \in Namespaces |-> Phase(ns)] EXCEPT ![n] = "leaving"]
  <2>1. it[t] = Absent /\ it'[t] = n
    BY <1>1, FreeStops DEF LInv, IInv, TypeOK
  <2>2. Phase(n)' = "leaving"
    BY <1>1, <2>1 DEF Phase, HasSubscription
  <2>3. ASSUME NEW ns \in Namespaces \ {n} PROVE Phase(ns)' = Phase(ns)
    <3>1. (\E u \in Threads : it'[u] = ns) <=> (\E u \in Threads : it[u] = ns)
      BY <1>1, <2>1, NullAssumption DEF LInv, IInv, TypeOK
    <3> QED
      BY <1>1, <3>1 DEF Phase, HasSubscription
  <2> QED
    BY <2>2, <2>3
<1>7. Lifecycle!Withdraw(n)
  BY <1>1, <1>3, <1>4, <1>5, <1>6 DEF Lifecycle!Withdraw
<1> QED
  BY <1>7 DEF Lifecycle!Next

LEMMA EraseMapped ==
    ASSUME LInv, NEW t \in Threads, EraseSubscription(t)
    PROVE  [Lifecycle!Next]_Lifecycle!vars
<1> DEFINE n == it[t]
<1>1. /\ pc[t] = "erase" /\ n \in Namespaces
      /\ it' = [it EXCEPT ![t] = Absent]
      /\ pc' = [pc EXCEPT ![t] = "idle"]
      /\ quicrSubscriptionsMap' = [quicrSubscriptionsMap EXCEPT ![n] = Absent]
      /\ UNCHANGED <<requested, client_session, profiles, sub_delegate, created>>
  BY DEF EraseSubscription, Erased, LInv, IInv, LocalsOK, envVars, historyVars
<1>2. \A u \in Threads, ns \in Namespaces : InFlight(u, ns)' <=> InFlight(u, ns)
  BY <1>1 DEF LInv, IInv, TypeOK, InFlight, Namespace
<1>3. \A ns \in Namespaces : Starts(ns)' = Starts(ns) /\ Held(ns)' = Held(ns)
  BY <1>1, <1>2, StartsKept, HeldKept
<1>4. Phase(n) = "leaving"
  BY <1>1, Phases
<1>5. \A u \in Threads \ {t} : it[u] = Absent
  BY <1>1 DEF LInv, IInv, RegistryInv, MutexOK, EntriesInv, StopsOK
<1>6. \A u \in Threads : it'[u] = Absent
  BY <1>1, <1>5 DEF LInv, IInv, TypeOK
<1> HIDE DEF n
<1>7. \A ns \in Namespaces : ns = n => Phase(ns)' = "absent"
  BY <1>1, <1>6, NullAssumption DEF Phase, HasSubscription, LInv, IInv, TypeOK
<1>8. ASSUME NEW ns \in Namespaces \ {n} PROVE Phase(ns)' = Phase(ns)
  <2>1. /\ ~\E u \in Threads : it[u] = ns
        /\ ~\E u \in Threads : it'[u] = ns
    BY <1>5, <1>6, NullAssumption DEF n
  <2>2. HasSubscription(ns)' <=> HasSubscription(ns)
    BY <1>1 DEF HasSubscription, LInv, IInv, TypeOK
  <2> QED
    BY <2>1, <2>2 DEF Phase
<1>9. [ns \in Namespaces |-> Phase(ns)]' =
        [[ns \in Namespaces |-> Phase(ns)] EXCEPT ![n] = "absent"]
  BY <1>1, <1>7, <1>8
<1>10. Lifecycle!Remove(n)
  BY <1>1, <1>3, <1>4, <1>9 DEF Lifecycle!Remove
<1> QED
  BY <1>1, <1>10 DEF Lifecycle!Next

LEMMA StateMapped ==
    ASSUME LInv, NEW t \in Threads, NEW n \in Namespaces, SetSubscriptionState(t, n)
    PROVE  [Lifecycle!Next]_Lifecycle!vars
<1>1. /\ subsMutex = NoThread /\ HasSubscription(n)
      /\ requested' = AfterSubscribe(n, quicrSubscriptionsMap[n])
      /\ UNCHANGED <<quicrSubscriptionsMap, client_session, pc, profiles,
                     sub_delegate, it, created>>
  BY DEF SetSubscriptionState, controllerVars, localVars, historyVars
<1>2. /\ quicrSubscriptionsMap[n] \in SubscriptionDelegate
      /\ quicrSubscriptionsMap[n] # Null
      /\ quicrSubscriptionsMap[n].instance = created[n]
  BY <1>1, NullAssumption
  DEF HasSubscription, LInv, IInv, TypeOK, EntriesInv, NumbersOK
<1>3. [ns \in Namespaces |-> Held(ns)]' = Lifecycle!Handed(n, created[n])
  BY <1>1, <1>2, HandedOver DEF AfterSubscribe
<1>4. \A ns \in Namespaces : Phase(ns)' = Phase(ns) /\ Starts(ns)' = Starts(ns)
  BY <1>1, PhaseKept, StartsKept DEF InFlight, Namespace
<1>5. Phase(n) = "registered"
  BY <1>1, Phases
<1>6. Lifecycle!RequestAgain(n)
  BY <1>1, <1>3, <1>4, <1>5 DEF Lifecycle!RequestAgain
<1> QED
  BY <1>6 DEF Lifecycle!Next

LEMMA ConnectMapped ==
    ASSUME LInv, NEW t \in Threads, Connect(t)
    PROVE  [Lifecycle!Next]_Lifecycle!vars
<1>1. /\ client_session' = client_session + 1
      /\ requested' = [ns \in Namespaces |-> Null]
      /\ UNCHANGED <<quicrSubscriptionsMap, pc, profiles, sub_delegate, it, created>>
  BY DEF Connect, localVars, historyVars
<1>2. \A ns \in Namespaces : Phase(ns)' = Phase(ns) /\ Starts(ns)' = Starts(ns)
  BY <1>1, PhaseKept, StartsKept DEF InFlight, Namespace
<1>3. (client_session # 0)' = TRUE
  BY <1>1 DEF LInv, IInv, TypeOK
<1>4. \A ns \in Namespaces : Held(ns)' = 0
  BY <1>1 DEF Held
<1>5. Lifecycle!Connect
  BY <1>1, <1>2, <1>3, <1>4 DEF Lifecycle!Connect
<1> QED
  BY <1>5 DEF Lifecycle!Next

LEMMA NextMapped == LInv /\ [Next]_vars => [Lifecycle!Next]_Lifecycle!vars
<1> SUFFICES ASSUME LInv, [Next]_vars PROVE [Lifecycle!Next]_Lifecycle!vars
  OBVIOUS
<1>1. CASE UNCHANGED vars
  BY <1>1
  DEF vars, controllerVars, localVars, envVars, historyVars, Lifecycle!vars, Phase,
      Starts, Held, HasSubscription, InFlight, Namespace
<1>2. ASSUME NEW t \in Threads, QuietStep(t) PROVE [Lifecycle!Next]_Lifecycle!vars
  BY <1>2, QuietMapped
<1>3. ASSUME NEW t \in Threads, Step(t), ~QuietStep(t)
      PROVE  [Lifecycle!Next]_Lifecycle!vars
  BY <1>3, FindMapped, CreateMapped, SubscribeMapped, EraseMapped DEF Step, QuietStep
<1>4. ASSUME NEW t \in Threads, Call(t), ~QuietStep(t)
      PROVE  [Lifecycle!Next]_Lifecycle!vars
  BY <1>4, StopMapped, StateMapped, ConnectMapped DEF Call, QuietStep
<1> QED
  BY <1>1, <1>2, <1>3, <1>4 DEF Next

(***************************************************************************)
(* Whatever the threads, sources and manifests, the life of every          *)
(* namespace is the one SubscriptionLifecycle describes: each step of      *)
(* processSubscriptions, startSubscription, stopSubscription,              *)
(* setSubscriptionState and connect is one of its steps or changes nothing *)
(* it speaks of.  Its fairness is left to the model checker.               *)
(***************************************************************************)
THEOREM LifecycleRefined ==
    Spec => Lifecycle!Init /\ [][Lifecycle!Next]_Lifecycle!vars
  BY InitMapped, NextMapped, LifecycleInvariance, PTL DEF Spec
=============================================================================
