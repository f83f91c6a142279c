-------------------------- MODULE PublicationControl --------------------------
(***************************************************************************)
(* The publication half of qmedia::QController (src/src/QController.cpp):  *)
(* the publications a manifest starts, their active and paused states, and *)
(* which intents and objects reach the quicr::Client.  Several application *)
(* threads call the controller; a step of a thread is one critical         *)
(* section, one callback or one call to the client, except that            *)
(* publishNamedObject, which holds pubsMutex, takes two: its lookup and    *)
(* its send.                                                               *)
(*                                                                         *)
(* What an object is named and how it is encrypted is left to              *)
(* PublicationDelegate::publishNamedObject; here it is handed to the       *)
(* client, or refused by an exception or for being empty.                  *)
(***************************************************************************)
EXTENDS Naturals, Sequences

CONSTANTS
    Threads,        \* application threads that call the controller
    Namespaces,     \* quicr namespaces named by manifests
    Manifests,      \* the `publications' lists the application may pass
    MaxUpdates,     \* bound: calls to updateManifest
    MaxSessions,    \* bound: calls to connect
    MaxPublishes,   \* bound: calls to publishNamedObject that find a publication
    NoThread,       \* a free mutex
    Null,           \* nullptr
    Absent          \* "the map has no entry for this key"

(***************************************************************************)
(* A manifest::MediaStream is the sequence of the namespaces of its        *)
(* profiles: the rest of it is only passed on.                             *)
(***************************************************************************)
ASSUME PubConstantsAssumption ==
    /\ Manifests \subseteq Seq(Seq(Namespaces))
    /\ MaxUpdates \in Nat
    /\ MaxSessions \in Nat
    /\ MaxPublishes \in Nat
    /\ NoThread \notin Threads
    /\ Null # Absent

VARIABLES
    \* Members of QController.
    qPublisherDelegate,     \* FALSE: the controller was built without one
    qPublicationsMap,       \* per namespace: "delegate", Null or Absent
    quicrPublicationsMap,   \* per namespace: its PublicationDetails
    pubsMutex,              \* the thread that holds pubsMutex across steps
    client_session,         \* 0 is nullptr, k is the k-th quicr::Client built
    is_singleordered_publication,
    \* Locals of the call each thread is in.
    pc,
    publications,           \* manifest.publications still to process
    profiles,               \* profiles of the current stream still to process
    it,                     \* publishNamedObject: the publication found
    \* The environment: what the current client was asked to do.
    allocations,            \* calls of allocatePubByNamespace, per namespace
    announced,              \* namespaces whose publishIntent it accepted
    refused,                \* namespaces whose publishIntent it refused
    sent,                   \* objects handed to any client, per namespace
    updates,                \* calls of updateManifest so far
    publishes,              \* calls of publishNamedObject so far
    \* History.
    intents                 \* publishIntent calls, per namespace

controllerVars == <<qPublisherDelegate, qPublicationsMap, quicrPublicationsMap,
                    pubsMutex, client_session, is_singleordered_publication>>
localVars == <<pc, publications, profiles, it>>
clientVars == <<announced, refused, intents>>
vars == <<controllerVars, localVars, allocations, clientVars, sent, updates,
          publishes>>

PublicationState == {"active", "paused"}

\* `session' records the client in force at creation, for properties only.
PublicationDetails == [state : PublicationState, session : Nat]

ASSUME PubNullAssumption ==
    /\ Absent \notin PublicationDetails \cup Namespaces
    /\ Null # "delegate" /\ Absent # "delegate"

Labels == {"idle", "stream", "profile", "prepare", "start", "create", "intent",
           "publish"}

(***************************************************************************)
(* TypeOK: the members hold what QController.hpp declares, and a thread    *)
(* inside publishNamedObject holds pubsMutex and the entry it found, so    *)
(* that its iterator and the reference to the details stay valid.          *)
(***************************************************************************)
TypeOK ==
    /\ qPublisherDelegate \in BOOLEAN
    /\ qPublicationsMap \in [Namespaces -> {"delegate", Null, Absent}]
    /\ quicrPublicationsMap \in [Namespaces -> PublicationDetails \cup {Absent}]
    /\ pubsMutex \in Threads \cup {NoThread}
    /\ client_session \in Nat
    /\ is_singleordered_publication \in BOOLEAN
    /\ pc \in [Threads -> Labels]
    /\ publications \in [Threads -> Seq(Seq(Namespaces))]
    /\ profiles \in [Threads -> Seq(Namespaces)]
    /\ it \in [Threads -> Namespaces \cup {Absent}]
    /\ allocations \in [Namespaces -> Nat]
    /\ announced \subseteq Namespaces
    /\ refused \subseteq Namespaces
    /\ sent \in [Namespaces -> Nat]
    /\ updates \in Nat
    /\ publishes \in Nat
    /\ intents \in [Namespaces -> Nat]
    /\ \A t \in Threads : pc[t] = "publish" =>
          pubsMutex = t /\ it[t] \in Namespaces /\ quicrPublicationsMap[it[t]] # Absent

Init ==
    /\ qPublisherDelegate \in BOOLEAN
    /\ qPublicationsMap = [n \in Namespaces |-> Absent]
    /\ quicrPublicationsMap = [n \in Namespaces |-> Absent]
    /\ pubsMutex = NoThread
    /\ client_session = 0
    /\ is_singleordered_publication = FALSE
    /\ pc = [t \in Threads |-> "idle"]
    /\ publications = [t \in Threads |-> <<>>]
    /\ profiles = [t \in Threads |-> <<>>]
    /\ it = [t \in Threads |-> Absent]
    /\ allocations = [n \in Namespaces |-> 0]
    /\ announced = {}
    /\ refused = {}
    /\ sent = [n \in Namespaces |-> 0]
    /\ updates = 0
    /\ publishes = 0
    /\ intents = [n \in Namespaces |-> 0]

(***************************************************************************)
(* Plausible mistakes: each, substituted for the definition named beside   *)
(* it, must make a property fail.  The specification does not use them.    *)
(***************************************************************************)
CreateOverwrites(ns) == TRUE                       \* MayCreate: no check
LockForgotten(t) == NoThread                       \* Locked
UnlockForgotten(t) == t                            \* Unlocked
IntentForgotten(ns) == announced                   \* AfterIntent
KnownByPointer(ns) == qPublicationsMap[ns] \notin {Absent, Null}    \* Known

(***************************************************************************)
(* The lookups and updates of the members, as the code below writes them.  *)
(***************************************************************************)
\* qPublicationsMap.contains: a stored nullptr counts.
Known(ns) == qPublicationsMap[ns] # Absent

HasPublication(ns) == quicrPublicationsMap[ns] # Absent

\* createQuicrPublicationDelegate refuses a namespace that is taken.
MayCreate(ns) == ~HasPublication(ns)

\* publishNamedObject's lookup and its test of the state.
MayPublish(ns) ==
    HasPublication(ns) /\ quicrPublicationsMap[ns].state # "paused"

\* The lock_guard of publishNamedObject, and its end.
Locked(t) == t
Unlocked(t) == NoThread

AfterIntent(ns) == announced \cup {ns}

-----------------------------------------------------------------------------
(***************************************************************************)
(* updateManifest, from processPublications on.                            *)
(***************************************************************************)
Profile(t) == Head(profiles[t])

UpdateManifest(t, m) ==
    /\ pc[t] = "idle"
    /\ updates < MaxUpdates
    /\ updates' = updates + 1
    /\ publications' = [publications EXCEPT ![t] = m]
    /\ pc' = [pc EXCEPT ![t] = "stream"]
    /\ UNCHANGED <<controllerVars, profiles, it, allocations, clientVars, sent,
                   publishes>>

NextPublication(t) ==
    /\ pc[t] = "stream"
    /\ publications[t] # <<>>
    /\ profiles' = [profiles EXCEPT ![t] = Head(publications[t])]
    /\ publications' = [publications EXCEPT ![t] = Tail(@)]
    /\ pc' = [pc EXCEPT ![t] = "profile"]
    /\ UNCHANGED <<controllerVars, it, allocations, clientVars, sent, updates,
                   publishes>>

FinishManifest(t) ==
    /\ pc[t] = "stream"
    /\ publications[t] = <<>>
    /\ pc' = [pc EXCEPT ![t] = "idle"]
    /\ UNCHANGED <<controllerVars, publications, profiles, it, allocations,
                   clientVars, sent, updates, publishes>>

\* The loop over the profiles ends.
FinishProfiles(t) ==
    /\ pc[t] = "profile"
    /\ profiles[t] = <<>>
    /\ pc' = [pc EXCEPT ![t] = "stream"]
    /\ UNCHANGED <<controllerVars, publications, profiles, it, allocations,
                   clientVars, sent, updates, publishes>>

\* `continue' in the loop over the profiles.
NextProfile(t) ==
    /\ pc' = [pc EXCEPT ![t] = "profile"]
    /\ profiles' = [profiles EXCEPT ![t] = Tail(@)]
    /\ UNCHANGED <<publications, it>>

\* The end of the body of the loop: the result of startPublication is dropped.
AfterStart(t) ==
    \/ /\ is_singleordered_publication
       /\ pc' = [pc EXCEPT ![t] = "stream"]
       /\ profiles' = [profiles EXCEPT ![t] = <<>>]
       /\ UNCHANGED <<publications, it>>
    \/ /\ ~is_singleordered_publication
       /\ NextProfile(t)

(***************************************************************************)
(* getPublicationDelegate.  The application's allocatePubByNamespace runs  *)
(* with qPubsMutex held and may return nullptr, which is stored.           *)
(***************************************************************************)
NoPublisherDelegate(t) ==
    /\ pc[t] = "profile"
    /\ profiles[t] # <<>>
    /\ ~qPublisherDelegate
    /\ NextProfile(t)
    /\ UNCHANGED <<controllerVars, allocations, clientVars, sent, updates,
                   publishes>>

DelegatesFor(ns) ==
    IF Known(ns) THEN {qPublicationsMap[ns]} ELSE {Null, "delegate"}

GetPublicationDelegate(t) ==
    /\ pc[t] = "profile"
    /\ profiles[t] # <<>>
    /\ qPublisherDelegate
    /\ \E d \in DelegatesFor(Profile(t)) :
          /\ qPublicationsMap' = [qPublicationsMap EXCEPT ![Profile(t)] = d]
          /\ \/ /\ d = Null
                /\ NextProfile(t)
             \/ /\ d # Null
                /\ pc' = [pc EXCEPT ![t] = "prepare"]
                /\ UNCHANGED <<publications, profiles, it>>
    /\ allocations' = IF Known(Profile(t)) THEN allocations
                      ELSE [allocations EXCEPT ![Profile(t)] = @ + 1]
    /\ UNCHANGED <<qPublisherDelegate, quicrPublicationsMap, pubsMutex,
                   client_session, is_singleordered_publication, clientVars,
                   sent, updates, publishes>>

PrepareFailed(t) ==
    /\ pc[t] = "prepare"
    /\ NextProfile(t)
    /\ UNCHANGED <<controllerVars, allocations, clientVars, sent, updates,
                   publishes>>

Prepared(t) ==
    /\ pc[t] = "prepare"
    /\ pc' = [pc EXCEPT ![t] = "start"]
    /\ UNCHANGED <<controllerVars, publications, profiles, it, allocations,
                   clientVars, sent, updates, publishes>>

(***************************************************************************)
(* startPublication: the test of the session, then                         *)
(* createQuicrPublicationDelegate under pubsMutex, then publishIntent      *)
(* without it.                                                             *)
(***************************************************************************)
NoSession(t) ==
    /\ pc[t] = "start"
    /\ client_session = 0
    /\ AfterStart(t)
    /\ UNCHANGED <<controllerVars, allocations, clientVars, sent, updates,
                   publishes>>

StartPublication(t) ==
    /\ pc[t] = "start"
    /\ client_session # 0
    /\ pc' = [pc EXCEPT ![t] = "create"]
    /\ UNCHANGED <<controllerVars, publications, profiles, it, allocations,
                   clientVars, sent, updates, publishes>>

CreatePublication(t) ==
    /\ pc[t] = "create"
    /\ pubsMutex = NoThread
    /\ MayCreate(Profile(t))
    /\ quicrPublicationsMap' = [quicrPublicationsMap EXCEPT ![Profile(t)] =
                                  [state |-> "active", session |-> client_session]]
    /\ pc' = [pc EXCEPT ![t] = "intent"]
    /\ UNCHANGED <<qPublisherDelegate, qPublicationsMap, pubsMutex,
                   client_session, is_singleordered_publication, publications,
                   profiles, it, allocations, clientVars, sent, updates,
                   publishes>>

\* Another mistake: the publication found is announced again, the way
\* startSubscription subscribes a delegate it found.
AnnounceAgain(t) ==
    /\ pc[t] = "create"
    /\ pubsMutex = NoThread
    /\ HasPublication(Profile(t))
    /\ pc' = [pc EXCEPT ![t] = "intent"]
    /\ UNCHANGED <<controllerVars, publications, profiles, it, allocations,
                   clientVars, sent, updates, publishes>>

CreateRefused(t) ==
    /\ pc[t] = "create"
    /\ pubsMutex = NoThread
    /\ HasPublication(Profile(t))
    /\ AfterStart(t)
    /\ UNCHANGED <<controllerVars, allocations, clientVars, sent, updates,
                   publishes>>

\* The client may refuse the intent: it is logged and the publication stays.
PublishIntent(t) ==
    /\ pc[t] = "intent"
    /\ intents' = [intents EXCEPT ![Profile(t)] = @ + 1]
    /\ \/ /\ announced' = AfterIntent(Profile(t))
          /\ UNCHANGED refused
       \/ /\ refused' = refused \cup {Profile(t)}
          /\ UNCHANGED announced
    /\ AfterStart(t)
    /\ UNCHANGED <<controllerVars, allocations, sent, updates, publishes>>

(***************************************************************************)
(* publishNamedObject (and publishNamedObjectTest, which takes the first   *)
(* publication): nothing happens for a namespace that is not found or is   *)
(* paused.  pubsMutex is held until the object is with the client.         *)
(***************************************************************************)
BeginPublish(t, ns) ==
    /\ pc[t] = "idle"
    /\ pubsMutex = NoThread
    /\ publishes < MaxPublishes
    /\ MayPublish(ns)
    /\ publishes' = publishes + 1
    /\ pubsMutex' = Locked(t)
    /\ it' = [it EXCEPT ![t] = ns]
    /\ pc' = [pc EXCEPT ![t] = "publish"]
    /\ UNCHANGED <<qPublisherDelegate, qPublicationsMap, quicrPublicationsMap,
                   client_session, is_singleordered_publication, publications,
                   profiles, allocations, clientVars, sent, updates>>

EndPublish(t) ==
    /\ pc[t] = "publish"
    /\ pubsMutex' = Unlocked(t)
    /\ it' = [it EXCEPT ![t] = Absent]
    /\ pc' = [pc EXCEPT ![t] = "idle"]
    /\ UNCHANGED <<qPublisherDelegate, qPublicationsMap, quicrPublicationsMap,
                   client_session, is_singleordered_publication, publications,
                   profiles, allocations, clientVars, updates, publishes>>

SendObject(t) ==
    /\ EndPublish(t)
    /\ sent' = [sent EXCEPT ![it[t]] = @ + 1]

\* The object is empty, or encrypting or publishing it throws.
DropObject(t) ==
    /\ EndPublish(t)
    /\ UNCHANGED sent

\* Another mistake: the mutex forgotten.
SetStateUnlocked(t, ns, state) ==
    /\ pc[t] = "idle"
    /\ HasPublication(ns)
    /\ quicrPublicationsMap' = [quicrPublicationsMap EXCEPT ![ns].state = state]
    /\ UNCHANGED <<qPublisherDelegate, qPublicationsMap, pubsMutex,
                   client_session, is_singleordered_publication, localVars,
                   allocations, clientVars, sent, updates, publishes>>

SetPublicationState(t, ns, state) ==
    /\ pc[t] = "idle"
    /\ pubsMutex = NoThread
    /\ HasPublication(ns)
    /\ quicrPublicationsMap' = [quicrPublicationsMap EXCEPT ![ns].state = state]
    /\ UNCHANGED <<qPublisherDelegate, qPublicationsMap, pubsMutex,
                   client_session, is_singleordered_publication, localVars,
                   allocations, clientVars, sent, updates, publishes>>

SetPublicationSingleOrdered(t, b) ==
    /\ pc[t] = "idle"
    /\ is_singleordered_publication' = b
    /\ UNCHANGED <<qPublisherDelegate, qPublicationsMap, quicrPublicationsMap,
                   pubsMutex, client_session, localVars, allocations,
                   clientVars, sent, updates, publishes>>

\* connect: the new client was told nothing yet.
Connect(t) ==
    /\ pc[t] = "idle"
    /\ client_session < MaxSessions
    /\ client_session' = client_session + 1
    /\ announced' = {}
    /\ refused' = {}
    /\ UNCHANGED <<qPublisherDelegate, qPublicationsMap, quicrPublicationsMap,
                   pubsMutex, is_singleordered_publication, localVars,
                   allocations, sent, updates, publishes, intents>>

-----------------------------------------------------------------------------
\* The steps of a call that is under way.
Step(t) ==
    \/ NextPublication(t) \/ FinishManifest(t) \/ FinishProfiles(t)
    \/ NoPublisherDelegate(t) \/ GetPublicationDelegate(t)
    \/ PrepareFailed(t) \/ Prepared(t)
    \/ NoSession(t) \/ StartPublication(t)
    \/ CreatePublication(t) \/ CreateRefused(t) \/ PublishIntent(t)
    \/ SendObject(t) \/ DropObject(t)

\* The calls the application may make.
Call(t) ==
    \/ \E m \in Manifests : UpdateManifest(t, m)
    \/ \E ns \in Namespaces : BeginPublish(t, ns)
    \/ \E ns \in Namespaces, state \in PublicationState :
          SetPublicationState(t, ns, state)
    \/ \E b \in BOOLEAN : SetPublicationSingleOrdered(t, b)
    \/ Connect(t)

Next == \E t \in Threads : Step(t) \/ Call(t)

Spec == Init /\ [][Next]_vars

\* A thread that can run does, and the application's callbacks return.
Fairness == \A t \in Threads : WF_vars(Step(t))
FairSpec == Spec /\ Fairness

-----------------------------------------------------------------------------
(***************************************************************************)
(* AllocatedOnce: the application is asked at most once for the delegate   *)
(* of a namespace, by whatever threads and manifests.                      *)
(***************************************************************************)
AllocatedOnce == \A ns \in Namespaces : allocations[ns] <= 1

(***************************************************************************)
(* IntentOnce: a namespace is announced by at most one publishIntent in    *)
(* the life of the controller, although manifests that name it are         *)
(* processed again and by several threads.                                 *)
(***************************************************************************)
IntentOnce == \A ns \in Namespaces : intents[ns] <= 1

(***************************************************************************)
(* AnnouncedUnlessReconnected: a publication created for the current       *)
(* client has been announced to it, or the client refused it, or a thread  *)
(* is between creating it and announcing it.  In the last two cases its    *)
(* objects may reach the client unannounced; after connect installs        *)
(* another client nothing is announced again.                              *)
(***************************************************************************)
AnnouncedUnlessReconnected ==
    \A ns \in Namespaces :
        (HasPublication(ns) /\ quicrPublicationsMap[ns].session = client_session)
        => \/ ns \in announced \cup refused
           \/ \E t \in Threads : pc[t] = "intent" /\ Profile(t) = ns

(***************************************************************************)
(* PausedIsSilent: once setPublicationState(paused) has returned no object *)
(* of the publication reaches the client, not even one whose               *)
(* publishNamedObject was called before: the test of the state and the     *)
(* send are under one lock.                                                *)
(***************************************************************************)
PausedIsSilent ==
    [][\A ns \in Namespaces :
        sent'[ns] # sent[ns] => quicrPublicationsMap[ns].state # "paused"]_vars

(***************************************************************************)
(* PauseSurvivesManifests: a paused publication stays paused while         *)
(* manifests that name it are processed; it is resumed or replaced by no   *)
(* thread that is inside updateManifest.                                   *)
(***************************************************************************)
PauseSurvivesManifests ==
    [][\A ns \in Namespaces :
        (HasPublication(ns) /\ quicrPublicationsMap[ns].state = "paused"
            /\ \E t \in Threads : pc'[t] # pc[t])
        => quicrPublicationsMap'[ns] = quicrPublicationsMap[ns]]_vars

(***************************************************************************)
(* CallsReturn: every call of updateManifest and publishNamedObject        *)
(* returns: no thread waits for ever on pubsMutex.                         *)
(***************************************************************************)
CallsReturn == \A t \in Threads : pc[t] # "idle" ~> pc[t] = "idle"

(***************************************************************************)
(* BreaksOnSuccess: processPublications says of its break "If              *)
(* singleordered, and we've successfully processed 1 delegate": it leaves  *)
(* the remaining profiles of a stream only after startPublication started  *)
(* one.                                                                    *)
(***************************************************************************)
BreaksOnSuccess ==
    [][\A t \in Threads :
        (pc[t] \in {"start", "create", "intent"} /\ pc'[t] = "stream")
        => pc[t] = "intent"]_vars

=============================================================================
