------------------------- MODULE SubscriptionControl -------------------------
(***************************************************************************)
(* The subscription half of qmedia::QController (src/src/QController.cpp): *)
(* what updateManifest, stopSubscription and setSubscriptionState do to    *)
(* the two subscription maps, and which subscribe and unsubscribe requests *)
(* they issue to the quicr::Client, when several application threads call  *)
(* the controller at once.                                                 *)
(*                                                                         *)
(* A step of a thread is one critical section, one callback to the         *)
(* application or one call to the client.  Between two steps any other     *)
(* thread may run.                                                         *)
(***************************************************************************)
EXTENDS Naturals, Sequences

CONSTANTS
    Threads,        \* application threads that call the controller
    SourceIds,      \* sources (switching sets) named by manifests
    Namespaces,     \* quicr namespaces named by manifests
    Manifests,      \* the `subscriptions' lists the application may pass
    MaxUpdates,     \* bound: calls to updateManifest
    MaxSessions,    \* bound: calls to connect
    NoThread,       \* a free mutex
    Null,           \* nullptr
    Absent          \* "the map has no entry for this key"

(* A manifest::MediaStream, reduced to the fields the controller acts on. *)
MediaStream == [sourceId : SourceIds, profiles : Seq(Namespaces)]

ASSUME ConstantsAssumption ==
    /\ Manifests \subseteq Seq(MediaStream)
    /\ MaxUpdates \in Nat
    /\ MaxSessions \in Nat
    /\ NoThread \notin Threads
    /\ Null # Absent

VARIABLES
    \* Members of QController.
    qSubscriberDelegate,    \* FALSE: the controller was built without one
    qSubscriptionsMap,      \* per source: the application's delegate (or Null)
    quicrSubscriptionsMap,  \* per namespace: its SubscriptionDelegate
    subsMutex,              \* the thread that holds subsMutex across steps
    client_session,         \* 0 is nullptr, k is the k-th quicr::Client built
    is_singleordered_subscription,
    \* Locals of the call each thread is in.
    pc,
    streams,                \* manifest.subscriptions still to process
    profiles,               \* profiles of the current stream still to process
    delegate,               \* the application's delegate for the stream
    sub_delegate,           \* the SubscriptionDelegate found or created
    it,                     \* stopSubscription: the namespace looked up
    \* The environment.
    allocations,            \* calls of allocateSubBySourceId, per source
    requested,              \* the delegate of the last client->subscribe, unless
                            \* client->unsubscribe followed, on this client
    updates,                \* calls of updateManifest so far
    \* History.
    created,                \* SubscriptionDelegates created, per namespace
    raced                   \* namespaces stopped while another thread was about
                            \* to subscribe them

controllerVars == <<qSubscriberDelegate, qSubscriptionsMap, quicrSubscriptionsMap,
                    subsMutex, client_session, is_singleordered_subscription>>
localVars == <<pc, streams, profiles, delegate, sub_delegate, it>>
envVars == <<allocations, requested, updates>>
historyVars == <<created, raced>>
vars == <<controllerVars, localVars, envVars, historyVars>>

(***************************************************************************)
(* The application's delegates of a source are numbered in the order       *)
(* allocateSubBySourceId returned them.                                    *)
(***************************************************************************)
QSubscriptionDelegate == Nat \ {0}

(***************************************************************************)
(* A SubscriptionDelegate.  `instance' tells two delegates of a namespace  *)
(* apart; `session' records the client in force when it was created and    *)
(* is read by properties only.                                             *)
(***************************************************************************)
SubscriptionDelegate ==
    [instance : Nat \ {0}, sourceId : SourceIds,
     qDelegate : QSubscriptionDelegate, session : Nat]

ASSUME NullAssumption ==
    /\ Null \notin SubscriptionDelegate \cup QSubscriptionDelegate
    /\ Absent \notin SubscriptionDelegate \cup QSubscriptionDelegate \cup Namespaces

Labels == {"idle", "stream", "update", "prepare", "find", "create",
           "subscribe", "erase"}

(***************************************************************************)
(* TypeOK: the members hold what their declarations in QController.hpp     *)
(* allow, and no call ever keeps the past-the-end value of a map (Absent)  *)
(* as a delegate, which createQuicrSubscriptionDelegate or subscribe would *)
(* dereference.                                                            *)
(***************************************************************************)
TypeOK ==
    /\ qSubscriberDelegate \in BOOLEAN
    /\ qSubscriptionsMap \in [SourceIds -> QSubscriptionDelegate \cup {Null, Absent}]
    /\ quicrSubscriptionsMap \in [Namespaces -> SubscriptionDelegate \cup {Absent}]
    /\ subsMutex \in Threads \cup {NoThread}
    /\ client_session \in Nat
    /\ is_singleordered_subscription \in BOOLEAN
    /\ pc \in [Threads -> Labels]
    /\ streams \in [Threads -> Seq(MediaStream)]
    /\ profiles \in [Threads -> Seq(Namespaces)]
    /\ delegate \in [Threads -> QSubscriptionDelegate \cup {Null}]
    /\ sub_delegate \in [Threads -> SubscriptionDelegate \cup {Null}]
    /\ it \in [Threads -> Namespaces \cup {Absent}]
    /\ allocations \in [SourceIds -> Nat]
    /\ requested \in [Namespaces -> SubscriptionDelegate \cup {Null}]
    /\ updates \in Nat
    /\ created \in [Namespaces -> Nat]
    /\ raced \subseteq Namespaces

Init ==
    /\ qSubscriberDelegate \in BOOLEAN
    /\ qSubscriptionsMap = [s \in SourceIds |-> Absent]
    /\ quicrSubscriptionsMap = [n \in Namespaces |-> Absent]
    /\ subsMutex = NoThread
    /\ client_session = 0
    /\ is_singleordered_subscription = TRUE
    /\ pc = [t \in Threads |-> "idle"]
    /\ streams = [t \in Threads |-> <<>>]
    /\ profiles = [t \in Threads |-> <<>>]
    /\ delegate = [t \in Threads |-> Null]
    /\ sub_delegate = [t \in Threads |-> Null]
    /\ it = [t \in Threads |-> Absent]
    /\ allocations = [s \in SourceIds |-> 0]
    /\ requested = [n \in Namespaces |-> Null]
    /\ updates = 0
    /\ created = [n \in Namespaces |-> 0]
    /\ raced = {}

(***************************************************************************)
(* Plausible mistakes: each, substituted for the definition named beside   *)
(* it, must make a property fail.  The specification does not use them.    *)
(***************************************************************************)
FoundUnchecked(ns) == quicrSubscriptionsMap[ns]           \* Found: no end() check
KnownByPointer(s) == qSubscriptionsMap[s] \notin {Absent, Null}  \* Known
CreateOverwrites(ns) == TRUE                              \* MayCreate: no check
EraseForgotten(ns) == quicrSubscriptionsMap               \* Erased
UnlockForgotten(t) == t                                   \* Unlocked
UnsubscribeForgotten(ns) == requested                     \* AfterUnsubscribe

(***************************************************************************)
(* The lookups and updates of the maps, as the members below write them.   *)
(***************************************************************************)
Source(t) == Head(streams[t]).sourceId
Namespace(t) == Head(profiles[t])

\* qSubscriptionsMap.contains(sourceId): a stored nullptr counts.
Known(s) == qSubscriptionsMap[s] # Absent

\* quicrSubscriptionsMap.contains(quicrNamespace).
HasSubscription(ns) == quicrSubscriptionsMap[ns] # Absent

\* What findQuicrSubscriptionDelegate returns.
Found(ns) == IF HasSubscription(ns) THEN quicrSubscriptionsMap[ns] ELSE Null

\* createQuicrSubscriptionDelegate refuses a namespace that is taken.
MayCreate(ns) == ~HasSubscription(ns)

Erased(ns) == [quicrSubscriptionsMap EXCEPT ![ns] = Absent]

\* The end of the lock_guard of thread t.
Unlocked(t) == NoThread

(***************************************************************************)
(* SubscriptionDelegate::subscribe and ::unsubscribe: nothing without a    *)
(* client, else the request is handed to it.                               *)
(***************************************************************************)
AfterSubscribe(ns, d) ==
    IF client_session = 0 THEN requested ELSE [requested EXCEPT ![ns] = d]

AfterUnsubscribe(ns) ==
    IF client_session = 0 THEN requested ELSE [requested EXCEPT ![ns] = Null]

\* Thread t has looked up or created a delegate of ns, has released
\* subsMutex and is about to call its subscribe.
InFlight(t, ns) ==
    /\ pc[t] = "subscribe"
    /\ sub_delegate[t] # Null
    /\ Namespace(t) = ns

-----------------------------------------------------------------------------
(***************************************************************************)
(* updateManifest, as far as processSubscriptions.                         *)
(***************************************************************************)
UpdateManifest(t, m) ==
    /\ pc[t] = "idle"
    /\ updates < MaxUpdates
    /\ updates' = updates + 1
    /\ streams' = [streams EXCEPT ![t] = m]
    /\ pc' = [pc EXCEPT ![t] = "stream"]
    /\ UNCHANGED <<controllerVars, profiles, delegate, sub_delegate, it,
                   allocations, requested, historyVars>>

\* `continue' and the end of the body of the loop over the streams.
NextStream(t) ==
    /\ pc' = [pc EXCEPT ![t] = "stream"]
    /\ streams' = [streams EXCEPT ![t] = Tail(@)]
    /\ profiles' = [profiles EXCEPT ![t] = <<>>]
    /\ delegate' = [delegate EXCEPT ![t] = Null]
    /\ sub_delegate' = [sub_delegate EXCEPT ![t] = Null]

\* A mistake: a manifest ends by unsubscribing what it does not name.
FinishStopsUnnamed(t) ==                                   \* FinishManifest
    /\ pc[t] = "stream"
    /\ streams[t] = <<>>
    /\ pc' = [pc EXCEPT ![t] = "idle"]
    /\ \E ns \in Namespaces : requested' = AfterUnsubscribe(ns)
    /\ UNCHANGED <<controllerVars, streams, profiles, delegate, sub_delegate, it,
                   allocations, updates, historyVars>>

FinishManifest(t) ==
    /\ pc[t] = "stream"
    /\ streams[t] = <<>>
    /\ pc' = [pc EXCEPT ![t] = "idle"]
    /\ UNCHANGED <<controllerVars, streams, profiles, delegate, sub_delegate, it,
                   envVars, historyVars>>

(***************************************************************************)
(* getSubscriptionDelegate.  The application's allocateSubBySourceId runs  *)
(* with qSubsMutex held and may return nullptr, which is stored.           *)
(***************************************************************************)
NoSubscriberDelegate(t) ==
    /\ pc[t] = "stream"
    /\ streams[t] # <<>>
    /\ ~qSubscriberDelegate
    /\ NextStream(t)
    /\ UNCHANGED <<controllerVars, it, envVars, historyVars>>

\* The delegates getSubscriptionDelegate may return for a source.
DelegatesFor(s) ==
    IF Known(s) THEN {qSubscriptionsMap[s]} ELSE {Null, allocations[s] + 1}

GetSubscriptionDelegate(t) ==
    /\ pc[t] = "stream"
    /\ streams[t] # <<>>
    /\ qSubscriberDelegate
    /\ \E d \in DelegatesFor(Source(t)) :
          /\ qSubscriptionsMap' = [qSubscriptionsMap EXCEPT ![Source(t)] = d]
          /\ \/ /\ d = Null
                /\ NextStream(t)
             \/ /\ d # Null
                /\ delegate' = [delegate EXCEPT ![t] = d]
                /\ pc' = [pc EXCEPT ![t] = "update"]
                /\ UNCHANGED <<streams, profiles, sub_delegate>>
    /\ allocations' = IF Known(Source(t)) THEN allocations
                      ELSE [allocations EXCEPT ![Source(t)] = @ + 1]
    /\ UNCHANGED <<qSubscriberDelegate, quicrSubscriptionsMap, subsMutex,
                   client_session, is_singleordered_subscription, it, requested,
                   updates, historyVars>>

\* delegate->update returned 0: the application needs nothing more.
UpdateAccepted(t) ==
    /\ pc[t] = "update"
    /\ NextStream(t)
    /\ UNCHANGED <<controllerVars, it, envVars, historyVars>>

UpdateRefused(t) ==
    /\ pc[t] = "update"
    /\ pc' = [pc EXCEPT ![t] = "prepare"]
    /\ UNCHANGED <<controllerVars, streams, profiles, delegate, sub_delegate, it,
                   envVars, historyVars>>

\* delegate->prepare failed, or there is no profile to start.
PrepareFailed(t) ==
    /\ pc[t] = "prepare"
    /\ NextStream(t)
    /\ UNCHANGED <<controllerVars, it, envVars, historyVars>>

Prepared(t) ==
    /\ pc[t] = "prepare"
    /\ Head(streams[t]).profiles # <<>>
    /\ profiles' = [profiles EXCEPT ![t] = Head(streams[t]).profiles]
    /\ pc' = [pc EXCEPT ![t] = "find"]
    /\ UNCHANGED <<controllerVars, streams, delegate, sub_delegate, it, envVars,
                   historyVars>>

(***************************************************************************)
(* startSubscription.  findQuicrSubscriptionDelegate and                   *)
(* createQuicrSubscriptionDelegate take subsMutex separately, and          *)
(* subscribe runs without it.                                              *)
(***************************************************************************)
FindDelegate(t) ==
    /\ pc[t] = "find"
    /\ subsMutex = NoThread
    /\ sub_delegate' = [sub_delegate EXCEPT ![t] = Found(Namespace(t))]
    /\ pc' = [pc EXCEPT ![t] =
                IF Found(Namespace(t)) = Null THEN "create" ELSE "subscribe"]
    /\ UNCHANGED <<controllerVars, streams, profiles, delegate, it, envVars,
                   historyVars>>

CreateDelegate(t) ==
    /\ pc[t] = "create"
    /\ subsMutex = NoThread
    /\ MayCreate(Namespace(t))
    /\ LET ns == Namespace(t)
           new == [instance |-> created[ns] + 1, sourceId |-> Source(t),
                   qDelegate |-> delegate[t], session |-> client_session]
       IN  /\ quicrSubscriptionsMap' = [quicrSubscriptionsMap EXCEPT ![ns] = new]
           /\ sub_delegate' = [sub_delegate EXCEPT ![t] = new]
           /\ created' = [created EXCEPT ![ns] = @ + 1]
    /\ pc' = [pc EXCEPT ![t] = "subscribe"]
    /\ UNCHANGED <<qSubscriberDelegate, qSubscriptionsMap, subsMutex,
                   client_session, is_singleordered_subscription, streams,
                   profiles, delegate, it, envVars, raced>>

\* Another thread created it since FindDelegate: nullptr.
CreateRefused(t) ==
    /\ pc[t] = "create"
    /\ subsMutex = NoThread
    /\ HasSubscription(Namespace(t))
    /\ pc' = [pc EXCEPT ![t] = "subscribe"]
    /\ UNCHANGED <<controllerVars, streams, profiles, delegate, sub_delegate, it,
                   envVars, historyVars>>

\* The rest of the body of the loop over the profiles: the result of
\* startSubscription is dropped.
NextProfile(t) ==
    IF is_singleordered_subscription \/ Len(profiles[t]) = 1
    THEN NextStream(t)
    ELSE /\ pc' = [pc EXCEPT ![t] = "find"]
         /\ profiles' = [profiles EXCEPT ![t] = Tail(@)]
         /\ sub_delegate' = [sub_delegate EXCEPT ![t] = Null]
         /\ UNCHANGED <<streams, delegate>>

Subscribe(t) ==
    /\ pc[t] = "subscribe"
    /\ sub_delegate[t] # Null
    /\ requested' = AfterSubscribe(Namespace(t), sub_delegate[t])
    /\ NextProfile(t)
    /\ UNCHANGED <<controllerVars, it, allocations, updates, historyVars>>

StartFails(t) ==
    /\ pc[t] = "subscribe"
    /\ sub_delegate[t] = Null
    /\ NextProfile(t)
    /\ UNCHANGED <<controllerVars, it, envVars, historyVars>>

(***************************************************************************)
(* stopSubscription holds subsMutex from its lookup to the erase; a        *)
(* namespace that is not found changes nothing.                            *)
(***************************************************************************)
StopSubscription(t, ns) ==
    /\ pc[t] = "idle"
    /\ subsMutex = NoThread
    /\ HasSubscription(ns)
    /\ subsMutex' = t
    /\ it' = [it EXCEPT ![t] = ns]
    /\ pc' = [pc EXCEPT ![t] = "erase"]
    /\ requested' = AfterUnsubscribe(ns)
    /\ raced' = IF \E u \in Threads : InFlight(u, ns)
                THEN raced \cup {ns} ELSE raced \ {ns}
    /\ UNCHANGED <<qSubscriberDelegate, qSubscriptionsMap,
                   quicrSubscriptionsMap, client_session,
                   is_singleordered_subscription, streams, profiles, delegate,
                   sub_delegate, allocations, updates, created>>

\* Another mistake: the TODO in stopSubscription done without its condition.
EraseWithItsSource(t) ==
    /\ pc[t] = "erase"
    /\ quicrSubscriptionsMap' = Erased(it[t])
    /\ qSubscriptionsMap' = [qSubscriptionsMap EXCEPT
                                ![quicrSubscriptionsMap[it[t]].sourceId] = Absent]
    /\ subsMutex' = Unlocked(t)
    /\ it' = [it EXCEPT ![t] = Absent]
    /\ pc' = [pc EXCEPT ![t] = "idle"]
    /\ UNCHANGED <<qSubscriberDelegate, client_session,
                   is_singleordered_subscription, streams, profiles, delegate,
                   sub_delegate, envVars, historyVars>>

EraseSubscription(t) ==
    /\ pc[t] = "erase"
    /\ quicrSubscriptionsMap' = Erased(it[t])
    /\ subsMutex' = Unlocked(t)
    /\ it' = [it EXCEPT ![t] = Absent]
    /\ pc' = [pc EXCEPT ![t] = "idle"]
    /\ UNCHANGED <<qSubscriberDelegate, qSubscriptionsMap, client_session,
                   is_singleordered_subscription, streams, profiles, delegate,
                   sub_delegate, envVars, historyVars>>

\* setSubscriptionState: subscribes again, in another transport mode.
SetSubscriptionState(t, ns) ==
    /\ pc[t] = "idle"
    /\ subsMutex = NoThread
    /\ HasSubscription(ns)
    /\ requested' = AfterSubscribe(ns, quicrSubscriptionsMap[ns])
    /\ UNCHANGED <<controllerVars, localVars, allocations, updates, historyVars>>

SetSubscriptionSingleOrdered(t, b) ==
    /\ pc[t] = "idle"
    /\ is_singleordered_subscription' = b
    /\ UNCHANGED <<qSubscriberDelegate, qSubscriptionsMap,
                   quicrSubscriptionsMap, subsMutex, client_session, localVars,
                   envVars, historyVars>>

(***************************************************************************)
(* connect replaces the client; the new one has no subscription.  It takes *)
(* no mutex.  A call that still holds the old client talks to nobody, as   *)
(* if it had run just before this step.                                    *)
(***************************************************************************)
Connect(t) ==
    /\ pc[t] = "idle"
    /\ client_session < MaxSessions
    /\ client_session' = client_session + 1
    /\ requested' = [n \in Namespaces |-> Null]
    /\ UNCHANGED <<qSubscriberDelegate, qSubscriptionsMap,
                   quicrSubscriptionsMap, subsMutex,
                   is_singleordered_subscription, localVars, allocations,
                   updates, historyVars>>

-----------------------------------------------------------------------------
\* The steps of a call that is under way.
Step(t) ==
    \/ NoSubscriberDelegate(t) \/ GetSubscriptionDelegate(t)
    \/ UpdateAccepted(t) \/ UpdateRefused(t)
    \/ PrepareFailed(t) \/ Prepared(t)
    \/ FindDelegate(t) \/ CreateDelegate(t) \/ CreateRefused(t)
    \/ Subscribe(t) \/ StartFails(t)
    \/ EraseSubscription(t) \/ FinishManifest(t)

\* The calls the application may make.
Call(t) ==
    \/ \E m \in Manifests : UpdateManifest(t, m)
    \/ \E ns \in Namespaces : StopSubscription(t, ns)
    \/ \E ns \in Namespaces : SetSubscriptionState(t, ns)
    \/ \E b \in BOOLEAN : SetSubscriptionSingleOrdered(t, b)
    \/ Connect(t)

Next == \E t \in Threads : Step(t) \/ Call(t)

Spec == Init /\ [][Next]_vars

\* A thread that can run does, and the application's callbacks return.
Fairness == \A t \in Threads : WF_vars(Step(t))
FairSpec == Spec /\ Fairness

-----------------------------------------------------------------------------
(***************************************************************************)
(* getSwitchingSets and getSubscriptions.                                  *)
(***************************************************************************)
SwitchingSets == {s \in SourceIds : Known(s)}
Subscriptions(s) ==
    {ns \in Namespaces : HasSubscription(ns) /\ quicrSubscriptionsMap[ns].sourceId = s}

(***************************************************************************)
(* AllocatedOnce: the application is asked at most once for the delegate   *)
(* of a source, whatever threads process manifests that name it and even   *)
(* when its first answer was nullptr (getSubscriptionDelegate checks the   *)
(* key, not the pointer).                                                  *)
(***************************************************************************)
AllocatedOnce == \A s \in SourceIds : allocations[s] <= 1

(***************************************************************************)
(* ForwardsToItsSource: a subscription that is registered or requested     *)
(* forwards objects to the delegate qSubscriptionsMap still holds for its  *)
(* source: the two maps, under two mutexes, never drift apart.             *)
(***************************************************************************)
ForwardsToItsSource ==
    \A ns \in Namespaces :
        \A d \in {quicrSubscriptionsMap[ns], requested[ns]} \ {Absent, Null} :
            qSubscriptionsMap[d.sourceId] = d.qDelegate

(***************************************************************************)
(* NoOrphans: what the client is asked to deliver, the controller knows,   *)
(* so that stopSubscription can end it.  The exception is a namespace      *)
(* that was stopped while startSubscription was between its lookup and     *)
(* its subscribe, which runs without subsMutex.                            *)
(***************************************************************************)
NoOrphans ==
    \A ns \in Namespaces :
        requested[ns] \in {Null, quicrSubscriptionsMap[ns]} \/ ns \in raced

(***************************************************************************)
(* RequestedUnlessReconnected: a registered subscription is requested from *)
(* the client that was in force when it was created, or a thread is about  *)
(* to request it, or one is about to erase it.  After connect installs     *)
(* another client nothing is promised: nobody subscribes again.            *)
(***************************************************************************)
RequestedUnlessReconnected ==
    \A ns \in Namespaces :
        (HasSubscription(ns) /\ client_session # 0
            /\ quicrSubscriptionsMap[ns].session = client_session)
        => \/ requested[ns] # Null
           \/ \E t \in Threads : InFlight(t, ns) \/ it[t] = ns

(***************************************************************************)
(* LiveDelegateKept: a registered SubscriptionDelegate is never replaced   *)
(* by another one; its entry first goes away.  Two threads that start the  *)
(* same namespace therefore share one delegate or one of them fails.       *)
(***************************************************************************)
LiveDelegateKept ==
    [][\A ns \in Namespaces :
        HasSubscription(ns)
        => quicrSubscriptionsMap'[ns] \in {quicrSubscriptionsMap[ns], Absent}]_vars

(***************************************************************************)
(* OnlyStopsEnd: a subscription leaves quicrSubscriptionsMap only for a    *)
(* stopSubscription that named it, and its request ends only there or with *)
(* the client: no manifest, also none that no longer names the source, and *)
(* no failing start ends one (QController.cpp:391-436).                    *)
(***************************************************************************)
OnlyStopsEnd ==
    [][\A ns \in Namespaces :
        /\ HasSubscription(ns) /\ ~HasSubscription(ns)'
             => \E t \in Threads : pc[t] = "erase" /\ it[t] = ns
        /\ requested[ns] # Null /\ requested'[ns] = Null
             => \/ \E t \in Threads : pc'[t] = "erase" /\ it'[t] = ns
                \/ client_session' # client_session]_vars

(***************************************************************************)
(* CallsReturn: every call of updateManifest and stopSubscription returns: *)
(* no thread waits for ever on subsMutex.                                  *)
(***************************************************************************)
CallsReturn == \A t \in Threads : pc[t] # "idle" ~> pc[t] = "idle"
=============================================================================
