----------------------- MODULE PublicationControlProofs -----------------------
(***************************************************************************)
(* Theorems about PublicationControl, for every set of threads, namespaces *)
(* and manifests.                                                          *)
(***************************************************************************)
EXTENDS PublicationControl, SequenceTheorems, TLAPS

\* A call past the test of the loop works on a profile.
LocalsOK ==
    \A t \in Threads :
        pc[t] \in {"prepare", "start", "create", "intent"} => profiles[t] # <<>>

\* allocatePubByNamespace is called once for a namespace that has an entry.
AllocationsOK ==
    \A ns \in Namespaces : allocations[ns] = IF Known(ns) THEN 1 ELSE 0

\* The thread that created the publication of ns has yet to announce it.
Announcing(t, ns) == pc[t] = "intent" /\ Profile(t) = ns

(***************************************************************************)
(* A publication is announced by the one thread that created it, and an    *)
(* entry of quicrPublicationsMap remembers that it was.                    *)
(***************************************************************************)
IntentsOK ==
    \A ns \in Namespaces :
        /\ intents[ns] \in {0, 1}
        /\ intents[ns] = 1 => HasPublication(ns)
        /\ \A t \in Threads :
              Announcing(t, ns) =>
                /\ HasPublication(ns)
                /\ intents[ns] = 0
                /\ \A u \in Threads : Announcing(u, ns) => u = t

\* A publication is created for the current client or was for an earlier one.
SessionsOK ==
    \A ns \in Namespaces :
        HasPublication(ns) => quicrPublicationsMap[ns].session <= client_session

\* What publishNamedObject found active stays active while it holds pubsMutex.
PublishingActive ==
    \A t \in Threads :
        pc[t] = "publish" => quicrPublicationsMap[it[t]].state # "paused"

\* What the publications and the intents have to do with each other.
PublicationsInv == IntentsOK /\ SessionsOK /\ AnnouncedUnlessReconnected

(***************************************************************************)
(* The inductive invariant.                                                *)
(***************************************************************************)
IInv ==
    /\ TypeOK
    /\ LocalsOK
    /\ AllocationsOK
    /\ PublicationsInv
    /\ PublishingActive

-----------------------------------------------------------------------------
(***************************************************************************)
(* What the shared ends of the loop body do to the locals of the threads.  *)
(***************************************************************************)
Moved(t, label) ==
    /\ pc' = [pc EXCEPT ![t] = label]
    /\ profiles' \in [Threads -> Seq(Namespaces)]
    /\ \A u \in Threads \ {t} : profiles'[u] = profiles[u]
    /\ UNCHANGED <<publications, it>>

LEMMA NextProfileMoves ==
    ASSUME TypeOK, NEW t \in Threads, profiles[t] # <<>>, NextProfile(t)
    PROVE  Moved(t, "profile")
<1>1. Tail(profiles[t]) \in Seq(Namespaces)
  BY HeadTailProperties DEF TypeOK
<1> QED
  BY <1>1 DEF TypeOK, NextProfile, Moved

LEMMA AfterStartMoves ==
    ASSUME TypeOK, NEW t \in Threads, profiles[t] # <<>>, AfterStart(t)
    PROVE  \E label \in {"stream", "profile"} : Moved(t, label)
<1>1. CASE is_singleordered_publication
  <2>1. <<>> \in Seq(Namespaces)
    OBVIOUS
  <2>2. /\ pc' = [pc EXCEPT ![t] = "stream"]
        /\ profiles' = [profiles EXCEPT ![t] = <<>>]
        /\ UNCHANGED <<publications, it>>
    BY <1>1 DEF AfterStart
  <2>3. Moved(t, "stream")
    BY <2>1, <2>2 DEF TypeOK, Moved
  <2> QED
    BY <2>3
<1>2. CASE ~is_singleordered_publication
  BY <1>2, NextProfileMoves DEF AfterStart
<1> QED
  BY <1>1, <1>2

LEMMA MovedType ==
    ASSUME TypeOK, NEW t \in Threads, NEW label \in Labels, Moved(t, label)
    PROVE  /\ pc' \in [Threads -> Labels]
           /\ publications' \in [Threads -> Seq(Seq(Namespaces))]
           /\ profiles' \in [Threads -> Seq(Namespaces)]
           /\ it' \in [Threads -> Namespaces \cup {Absent}]
  BY DEF TypeOK, Moved

LEMMA ProfileType ==
    ASSUME TypeOK, NEW t \in Threads, profiles[t] # <<>>
    PROVE  Profile(t) \in Namespaces
  BY HeadTailProperties DEF TypeOK, Profile

-----------------------------------------------------------------------------
LEMMA InitType == Init => TypeOK
<1> SUFFICES ASSUME Init PROVE TypeOK
  OBVIOUS
<1>1. \A S : <<>> \in Seq(S)
  OBVIOUS
<1>2. /\ publications \in [Threads -> Seq(Seq(Namespaces))]
      /\ profiles \in [Threads -> Seq(Namespaces)]
  BY <1>1, Zenon DEF Init
<1>3. \A t \in Threads : pc[t] # "publish"
  BY DEF Init
<1> QED
  BY <1>2, <1>3, PubConstantsAssumption DEF Init, TypeOK, Labels

LEMMA NextType ==
    ASSUME TypeOK, LocalsOK, [Next]_vars
    PROVE  TypeOK'
<1> USE PubConstantsAssumption, PubNullAssumption
    DEF controllerVars, localVars, clientVars, Labels
<1>1. CASE UNCHANGED vars
  BY <1>1 DEF TypeOK, vars
<1>2. ASSUME NEW t \in Threads, NextPublication(t) PROVE TypeOK'
  <2>1. publications[t] \in Seq(Seq(Namespaces)) /\ publications[t] # <<>>
    BY <1>2 DEF TypeOK, NextPublication
  <2>2. /\ Head(publications[t]) \in Seq(Namespaces)
        /\ Tail(publications[t]) \in Seq(Seq(Namespaces))
    BY <2>1, HeadTailProperties
  <2> QED
    BY <1>2, <2>2 DEF TypeOK, NextPublication
<1>3. ASSUME NEW t \in Threads, FinishManifest(t) \/ FinishProfiles(t) PROVE TypeOK'
  BY <1>3 DEF TypeOK, FinishManifest, FinishProfiles
<1>4. ASSUME NEW t \in Threads, NoPublisherDelegate(t) \/ PrepareFailed(t) PROVE TypeOK'
  <2>1. profiles[t] # <<>> /\ NextProfile(t)
    BY <1>4 DEF NoPublisherDelegate, PrepareFailed, LocalsOK
  <2>2. Moved(t, "profile")
    BY <2>1, NextProfileMoves
  <2>3. pc[t] # "publish"
    BY <1>4 DEF NoPublisherDelegate, PrepareFailed
  <2> QED
    BY <1>4, <2>2, <2>3, MovedType
    DEF TypeOK, Moved, NoPublisherDelegate, PrepareFailed
<1>5. ASSUME NEW t \in Threads, GetPublicationDelegate(t) PROVE TypeOK'
  <2>1. profiles[t] # <<>> /\ Profile(t) \in Namespaces
    BY <1>5, ProfileType DEF GetPublicationDelegate
  <2>2. PICK d \in DelegatesFor(Profile(t)) :
          /\ qPublicationsMap' = [qPublicationsMap EXCEPT ![Profile(t)] = d]
          /\ \/ d = Null /\ NextProfile(t)
             \/ /\ d # Null
                /\ pc' = [pc EXCEPT ![t] = "prepare"]
                /\ UNCHANGED <<publications, profiles, it>>
    BY <1>5 DEF GetPublicationDelegate
  <2>3. qPublicationsMap' \in [Namespaces -> {"delegate", Null, Absent}]
    BY <2>1, <2>2 DEF DelegatesFor, Known, TypeOK
  <2>4. allocations' \in [Namespaces -> Nat]
    BY <1>5, <2>1 DEF GetPublicationDelegate, TypeOK
  <2>5. Moved(t, "profile") \/ Moved(t, "prepare")
    BY <2>1, <2>2, NextProfileMoves DEF Moved, TypeOK
  <2>6. UNCHANGED <<qPublisherDelegate, quicrPublicationsMap, pubsMutex,
                    client_session, is_singleordered_publication, announced,
                    refused, intents, sent, updates, publishes>>
    BY <1>5 DEF GetPublicationDelegate
  <2> QED
    BY <1>5, <2>3, <2>4, <2>5, <2>6, MovedType DEF TypeOK, Moved
<1>6. ASSUME NEW t \in Threads, Prepared(t) \/ StartPublication(t) PROVE TypeOK'
  BY <1>6 DEF TypeOK, Prepared, StartPublication
<1>7. ASSUME NEW t \in Threads, NoSession(t) \/ CreateRefused(t) PROVE TypeOK'
  <2>1. profiles[t] # <<>> /\ AfterStart(t)
    BY <1>7 DEF NoSession, CreateRefused, LocalsOK
  <2>2. PICK label \in {"stream", "profile"} : Moved(t, label)
    BY <2>1, AfterStartMoves
  <2> QED
    BY <1>7, <2>2, MovedType DEF TypeOK, Moved, NoSession, CreateRefused
<1>8. ASSUME NEW t \in Threads, CreatePublication(t) PROVE TypeOK'
  <2> DEFINE new == [state |-> "active", session |-> client_session]
  <2>1. Profile(t) \in Namespaces
    BY <1>8, ProfileType DEF CreatePublication, LocalsOK
  <2>2. new \in PublicationDetails
    BY DEF TypeOK, PublicationDetails, PublicationState
  <2>3. /\ quicrPublicationsMap' = [quicrPublicationsMap EXCEPT ![Profile(t)] = new]
        /\ pc' = [pc EXCEPT ![t] = "intent"]
    BY <1>8 DEF CreatePublication
  <2> HIDE DEF new
  <2> QED
    BY <1>8, <2>1, <2>2, <2>3 DEF TypeOK, CreatePublication
<1>9. ASSUME NEW t \in Threads, PublishIntent(t) PROVE TypeOK'
  <2>1. profiles[t] # <<>> /\ AfterStart(t) /\ Profile(t) \in Namespaces
    BY <1>9, ProfileType DEF PublishIntent, LocalsOK
  <2>2. PICK label \in {"stream", "profile"} : Moved(t, label)
    BY <2>1, AfterStartMoves
  <2>3. announced' \subseteq Namespaces /\ refused' \subseteq Namespaces
    BY <1>9, <2>1 DEF TypeOK, PublishIntent, AfterIntent
  <2>4. intents' \in [Namespaces -> Nat]
    BY <1>9, <2>1 DEF TypeOK, PublishIntent
  <2>5. pc[t] = "intent" /\ UNCHANGED <<controllerVars, allocations, sent, updates, publishes>>
    BY <1>9 DEF PublishIntent
  <2> QED
    BY <2>2, <2>3, <2>4, <2>5, MovedType DEF TypeOK, Moved
<1>10. ASSUME NEW t \in Threads, EndPublish(t), sent' \in [Namespaces -> Nat]
       PROVE  TypeOK'
  BY <1>10 DEF TypeOK, EndPublish, Unlocked
<1>11. ASSUME NEW t \in Threads, SendObject(t) \/ DropObject(t) PROVE TypeOK'
  <2>1. sent' \in [Namespaces -> Nat]
    BY <1>11 DEF TypeOK, SendObject, DropObject, EndPublish
  <2> QED
    BY <1>10, <1>11, <2>1 DEF SendObject, DropObject
<1>12. ASSUME NEW t \in Threads, NEW m \in Manifests, UpdateManifest(t, m) PROVE TypeOK'
  BY <1>12 DEF TypeOK, UpdateManifest
<1>13. ASSUME NEW t \in Threads, NEW ns \in Namespaces, BeginPublish(t, ns) PROVE TypeOK'
  BY <1>13 DEF TypeOK, BeginPublish, Locked, MayPublish, HasPublication
<1>14. ASSUME NEW t \in Threads, NEW ns \in Namespaces, NEW state \in PublicationState,
              SetPublicationState(t, ns, state)
       PROVE  TypeOK'
  <2>1. quicrPublicationsMap[ns] \in PublicationDetails
    BY <1>14 DEF SetPublicationState, HasPublication, TypeOK
  <2>2. [quicrPublicationsMap[ns] EXCEPT !.state = state] \in PublicationDetails
    BY <2>1 DEF PublicationDetails
  <2> QED
    BY <1>14, <2>2 DEF TypeOK, SetPublicationState, HasPublication
<1>15. ASSUME NEW t \in Threads, NEW b \in BOOLEAN, SetPublicationSingleOrdered(t, b)
       PROVE  TypeOK'
  BY <1>15 DEF TypeOK, SetPublicationSingleOrdered
<1>16. ASSUME NEW t \in Threads, Connect(t) PROVE TypeOK'
  BY <1>16 DEF TypeOK, Connect
<1> QED
  BY <1>1, <1>2, <1>3, <1>4, <1>5, <1>6, <1>7, <1>8, <1>9, <1>11, <1>12, <1>13,
     <1>14, <1>15, <1>16
  DEF Next, Step, Call
-----------------------------------------------------------------------------
(***************************************************************************)
(* The locals of the calls and the two maps.                               *)
(***************************************************************************)
LEMMA InitLocals == Init => LocalsOK
  BY DEF Init, LocalsOK

LEMMA MovedLocals ==
    ASSUME TypeOK, LocalsOK, NEW t \in Threads,
           NEW label \in {"stream", "profile"}, Moved(t, label)
    PROVE  LocalsOK'
  BY DEF TypeOK, LocalsOK, Moved

LEMMA NextLocals ==
    ASSUME TypeOK, LocalsOK, [Next]_vars
    PROVE  LocalsOK'
<1> USE DEF controllerVars, localVars, clientVars
<1>1. CASE UNCHANGED <<pc, profiles>>
  BY <1>1 DEF LocalsOK
<1>2. ASSUME NEW t \in Threads,
             \/ NextPublication(t) \/ FinishManifest(t) \/ FinishProfiles(t)
             \/ SendObject(t) \/ DropObject(t)
      PROVE  LocalsOK'
  BY <1>2
  DEF TypeOK, LocalsOK, NextPublication, FinishManifest, FinishProfiles, SendObject,
      DropObject, EndPublish
<1>3. ASSUME NEW t \in Threads,
             NoPublisherDelegate(t) \/ PrepareFailed(t) \/ GetPublicationDelegate(t),
             NextProfile(t)
      PROVE  LocalsOK'
  <2>1. profiles[t] # <<>>
    BY <1>3
    DEF LocalsOK, NoPublisherDelegate, PrepareFailed, GetPublicationDelegate
  <2> QED
    BY <1>3, <2>1, NextProfileMoves, MovedLocals
<1>4. ASSUME NEW t \in Threads,
             NoSession(t) \/ CreateRefused(t) \/ PublishIntent(t)
      PROVE  LocalsOK'
  <2>1. profiles[t] # <<>> /\ AfterStart(t)
    BY <1>4 DEF LocalsOK, NoSession, CreateRefused, PublishIntent
  <2> QED
    BY <2>1, AfterStartMoves, MovedLocals
<1>5. ASSUME NEW t \in Threads,
             \/ GetPublicationDelegate(t) /\ ~NextProfile(t)
             \/ Prepared(t) \/ StartPublication(t) \/ CreatePublication(t)
      PROVE  LocalsOK'
  <2>1. profiles[t] # <<>> /\ profiles' = profiles
    BY <1>5
    DEF LocalsOK, GetPublicationDelegate, Prepared, StartPublication,
        CreatePublication
  <2>2. \A u \in Threads \ {t} : pc'[u] = pc[u]
    BY <1>5
    DEF TypeOK, GetPublicationDelegate, Prepared, StartPublication,
        CreatePublication
  <2> QED
    BY <2>1, <2>2 DEF LocalsOK
<1>6. ASSUME NEW t \in Threads, NEW m \in Manifests, UpdateManifest(t, m) PROVE LocalsOK'
  BY <1>6 DEF TypeOK, LocalsOK, UpdateManifest
<1>7. ASSUME NEW t \in Threads, NEW ns \in Namespaces, BeginPublish(t, ns) PROVE LocalsOK'
  BY <1>7 DEF TypeOK, LocalsOK, BeginPublish
<1>8. ASSUME NEW t \in Threads,
             \/ \E ns \in Namespaces, state \in PublicationState :
                   SetPublicationState(t, ns, state)
             \/ \E b \in BOOLEAN : SetPublicationSingleOrdered(t, b)
             \/ Connect(t)
      PROVE  LocalsOK'
  BY <1>1, <1>8 DEF SetPublicationState, SetPublicationSingleOrdered, Connect
<1>9. CASE UNCHANGED vars
  BY <1>1, <1>9 DEF vars
<1>10. ASSUME NEW t \in Threads, NoPublisherDelegate(t) \/ PrepareFailed(t)
       PROVE  LocalsOK'
  BY <1>3, <1>10 DEF NoPublisherDelegate, PrepareFailed
<1> QED
  BY <1>2, <1>3, <1>4, <1>5, <1>6, <1>7, <1>8, <1>9, <1>10 DEF Next, Step, Call

\* getPublicationDelegate is the only member that writes qPublicationsMap or
\* asks the application.
LEMMA OthersKeepDelegates ==
    ASSUME [Next]_vars, ~\E t \in Threads : GetPublicationDelegate(t)
    PROVE  UNCHANGED <<qPublicationsMap, allocations>>
<1> USE DEF controllerVars, localVars, clientVars
<1>1. CASE UNCHANGED vars
  BY <1>1 DEF vars
<1>2. ASSUME NEW t \in Threads, Step(t), ~GetPublicationDelegate(t)
      PROVE  UNCHANGED <<qPublicationsMap, allocations>>
  BY <1>2
  DEF Step, NextPublication, FinishManifest, FinishProfiles, NoPublisherDelegate,
      PrepareFailed, Prepared, NoSession, StartPublication, CreatePublication,
      CreateRefused, PublishIntent, SendObject, DropObject, EndPublish
<1>3. ASSUME NEW t \in Threads, Call(t)
      PROVE  UNCHANGED <<qPublicationsMap, allocations>>
  BY <1>3
  DEF Call, UpdateManifest, BeginPublish, SetPublicationState,
      SetPublicationSingleOrdered, Connect
<1> QED
  BY <1>1, <1>2, <1>3 DEF Next

LEMMA NextAllocations ==
    ASSUME TypeOK, AllocationsOK, [Next]_vars
    PROVE  AllocationsOK'
<1>1. CASE UNCHANGED <<qPublicationsMap, allocations>>
  BY <1>1 DEF AllocationsOK, Known
<1>2. ASSUME NEW t \in Threads, GetPublicationDelegate(t) PROVE AllocationsOK'
  <2> DEFINE ns == Profile(t)
  <2>1. ns \in Namespaces
    BY <1>2, ProfileType DEF GetPublicationDelegate
  <2>2. PICK d \in DelegatesFor(ns) :
          qPublicationsMap' = [qPublicationsMap EXCEPT ![ns] = d]
    BY <1>2 DEF GetPublicationDelegate
  <2>3. allocations' = IF Known(ns) THEN allocations
                       ELSE [allocations EXCEPT ![ns] = @ + 1]
    BY <1>2 DEF GetPublicationDelegate
  <2>4. d # Absent
    BY <2>1, PubConstantsAssumption, PubNullAssumption DEF DelegatesFor, Known
  <2>5. CASE Known(ns)
    BY <2>1, <2>2, <2>3, <2>4, <2>5 DEF AllocationsOK, Known, TypeOK
  <2>6. CASE ~Known(ns)
    BY <2>1, <2>2, <2>3, <2>4, <2>6 DEF AllocationsOK, Known, TypeOK
  <2> QED
    BY <2>5, <2>6
<1> QED
  BY <1>1, <1>2, OthersKeepDelegates

-----------------------------------------------------------------------------
(***************************************************************************)
(* The publications and their intents.  Most steps are quiet: they leave   *)
(* the publications and the client alone, and no thread enters or leaves   *)
(* the call of publishIntent.                                              *)
(***************************************************************************)
Quiet ==
    /\ UNCHANGED <<quicrPublicationsMap, client_session, announced, refused, intents>>
    /\ \A t \in Threads :
          /\ pc'[t] = "intent" <=> pc[t] = "intent"
          /\ pc[t] = "intent" => profiles'[t] = profiles[t]

LEMMA MovedQuiet ==
    ASSUME TypeOK, NEW t \in Threads, pc[t] # "intent",
           NEW label \in Labels \ {"intent"}, Moved(t, label),
           UNCHANGED <<quicrPublicationsMap, client_session, announced, refused,
                       intents>>
    PROVE  Quiet
  BY DEF TypeOK, Moved, Quiet

QuietStep(t) ==
    \/ NextPublication(t) \/ FinishManifest(t) \/ FinishProfiles(t)
    \/ NoPublisherDelegate(t) \/ GetPublicationDelegate(t)
    \/ PrepareFailed(t) \/ Prepared(t)
    \/ NoSession(t) \/ StartPublication(t) \/ CreateRefused(t)
    \/ SendObject(t) \/ DropObject(t)
    \/ \E m \in Manifests : UpdateManifest(t, m)
    \/ \E ns \in Namespaces : BeginPublish(t, ns)
    \/ \E b \in BOOLEAN : SetPublicationSingleOrdered(t, b)

LEMMA QuietSteps ==
    ASSUME TypeOK, LocalsOK, NEW t \in Threads, QuietStep(t)
    PROVE  Quiet
<1> USE DEF controllerVars, localVars, clientVars, Labels
<1>1. CASE NextPublication(t) \/ FinishManifest(t) \/ FinishProfiles(t)
  BY <1>1 DEF TypeOK, NextPublication, FinishManifest, FinishProfiles, Quiet
<1>2. CASE NoPublisherDelegate(t) \/ PrepareFailed(t)
  <2>1. profiles[t] # <<>> /\ NextProfile(t) /\ pc[t] # "intent"
    BY <1>2 DEF LocalsOK, NoPublisherDelegate, PrepareFailed
  <2>2. UNCHANGED <<quicrPublicationsMap, client_session, announced, refused, intents>>
    BY <1>2 DEF NoPublisherDelegate, PrepareFailed
  <2> QED
    BY <2>1, <2>2, NextProfileMoves, MovedQuiet
<1>3. CASE GetPublicationDelegate(t)
  <2>1. profiles[t] # <<>> /\ pc[t] = "profile"
    BY <1>3 DEF GetPublicationDelegate
  <2>2. UNCHANGED <<quicrPublicationsMap, client_session, announced, refused, intents>>
    BY <1>3 DEF GetPublicationDelegate
  <2>3. CASE NextProfile(t)
    BY <2>1, <2>2, <2>3, NextProfileMoves, MovedQuiet
  <2>4. CASE pc' = [pc EXCEPT ![t] = "prepare"] /\ UNCHANGED profiles
    BY <2>1, <2>2, <2>4 DEF TypeOK, Quiet
  <2> QED
    BY <1>3, <2>3, <2>4 DEF GetPublicationDelegate
<1>4. CASE Prepared(t) \/ StartPublication(t)
  BY <1>4 DEF TypeOK, Prepared, StartPublication, Quiet
<1>5. CASE NoSession(t) \/ CreateRefused(t)
  <2>1. profiles[t] # <<>> /\ AfterStart(t) /\ pc[t] # "intent"
    BY <1>5 DEF LocalsOK, NoSession, CreateRefused
  <2>2. UNCHANGED <<quicrPublicationsMap, client_session, announced, refused, intents>>
    BY <1>5 DEF NoSession, CreateRefused
  <2> QED
    BY <2>1, <2>2, AfterStartMoves, MovedQuiet
<1>6. CASE SendObject(t) \/ DropObject(t)
  BY <1>6 DEF TypeOK, SendObject, DropObject, EndPublish, Quiet
<1>7. CASE \E m \in Manifests : UpdateManifest(t, m)
  BY <1>7 DEF TypeOK, UpdateManifest, Quiet
<1>8. CASE \E ns \in Namespaces : BeginPublish(t, ns)
  BY <1>8 DEF TypeOK, BeginPublish, Quiet
<1>9. CASE \E b \in BOOLEAN : SetPublicationSingleOrdered(t, b)
  BY <1>9 DEF SetPublicationSingleOrdered, Quiet
<1> QED
  BY <1>1, <1>2, <1>3, <1>4, <1>5, <1>6, <1>7, <1>8, <1>9 DEF QuietStep

LEMMA InitPublications == Init => PublicationsInv
  BY DEF Init, PublicationsInv, IntentsOK, SessionsOK, AnnouncedUnlessReconnected,
         Announcing, HasPublication

LEMMA QuietPublications ==
    ASSUME PublicationsInv, Quiet
    PROVE  PublicationsInv'
<1>1. \A t \in Threads, ns \in Namespaces : Announcing(t, ns)' <=> Announcing(t, ns)
  BY DEF Quiet, Announcing, Profile
<1>2. IntentsOK'
  BY <1>1 DEF Quiet, PublicationsInv, IntentsOK, HasPublication
<1>3. SessionsOK'
  BY DEF Quiet, PublicationsInv, SessionsOK, HasPublication
<1>4. AnnouncedUnlessReconnected'
  BY <1>1
  DEF Quiet, PublicationsInv, AnnouncedUnlessReconnected, HasPublication, Announcing
<1> QED
  BY <1>2, <1>3, <1>4 DEF PublicationsInv

LEMMA CreateKeepsPublications ==
    ASSUME TypeOK, LocalsOK, PublicationsInv, NEW t \in Threads, CreatePublication(t)
    PROVE  PublicationsInv'
<1> DEFINE n == Profile(t)
           new == [state |-> "active", session |-> client_session]
<1>1. n \in Namespaces
  BY ProfileType DEF CreatePublication, LocalsOK
<1>2. /\ pc[t] = "create"
      /\ ~HasPublication(n)
      /\ quicrPublicationsMap' = [quicrPublicationsMap EXCEPT ![n] = new]
      /\ pc' = [pc EXCEPT ![t] = "intent"]
      /\ UNCHANGED <<profiles, client_session, announced, refused, intents>>
  BY DEF CreatePublication, MayCreate, clientVars
<1>3. new # Absent /\ new.session = client_session
  BY PubNullAssumption DEF TypeOK, PublicationDetails, PublicationState
<1> HIDE DEF new
<1>4. \A ns \in Namespaces : HasPublication(ns)' <=> HasPublication(ns) \/ ns = n
  BY <1>1, <1>2, <1>3 DEF TypeOK, HasPublication
<1>5. \A u \in Threads, ns \in Namespaces :
        Announcing(u, ns)' <=> Announcing(u, ns) \/ (u = t /\ ns = n)
  BY <1>2 DEF TypeOK, Announcing, Profile
<1>6. ~\E u \in Threads : Announcing(u, n)
  BY <1>1, <1>2 DEF PublicationsInv, IntentsOK
<1>7. IntentsOK'
  BY <1>1, <1>2, <1>4, <1>5, <1>6 DEF PublicationsInv, IntentsOK
<1>8. SessionsOK'
  BY <1>1, <1>2, <1>3, <1>4 DEF TypeOK, PublicationsInv, SessionsOK
<1>9. AnnouncedUnlessReconnected'
  BY <1>1, <1>2, <1>4, <1>5
  DEF TypeOK, PublicationsInv, AnnouncedUnlessReconnected, Announcing
<1> QED
  BY <1>7, <1>8, <1>9 DEF PublicationsInv

LEMMA IntentKeepsPublications ==
    ASSUME TypeOK, LocalsOK, PublicationsInv, NEW t \in Threads, PublishIntent(t)
    PROVE  PublicationsInv'
<1> DEFINE n == Profile(t)
<1>1. n \in Namespaces /\ profiles[t] # <<>> /\ Announcing(t, n)
  BY ProfileType DEF PublishIntent, LocalsOK, Announcing
<1>2. /\ intents' = [intents EXCEPT ![n] = @ + 1]
      /\ AfterStart(t)
      /\ UNCHANGED <<quicrPublicationsMap, client_session>>
  BY DEF PublishIntent, controllerVars
<1>3. /\ announced \subseteq announced' /\ refused \subseteq refused'
      /\ n \in announced' \cup refused'
  BY DEF PublishIntent, AfterIntent
<1>4. PICK label \in {"stream", "profile"} : Moved(t, label)
  BY <1>1, <1>2, AfterStartMoves
<1>5. \A u \in Threads, ns \in Namespaces :
        Announcing(u, ns)' <=> Announcing(u, ns) /\ u # t
  BY <1>4 DEF TypeOK, Moved, Announcing, Profile
<1>6. IntentsOK'
  BY <1>1, <1>2, <1>5 DEF TypeOK, PublicationsInv, IntentsOK, HasPublication
<1>7. SessionsOK'
  BY <1>2 DEF PublicationsInv, SessionsOK, HasPublication
<1>8. ASSUME NEW ns \in Namespaces, HasPublication(ns),
             quicrPublicationsMap[ns].session = client_session,
             ns \notin announced' \cup refused'
      PROVE  \E u \in Threads : Announcing(u, ns)'
  <2>1. PICK u \in Threads : Announcing(u, ns)
    BY <1>3, <1>8 DEF PublicationsInv, AnnouncedUnlessReconnected, Announcing
  <2>2. u # t
    BY <1>3, <1>8, <2>1 DEF Announcing
  <2> QED
    BY <1>5, <2>1, <2>2
<1>9. AnnouncedUnlessReconnected'
  BY <1>2, <1>8 DEF AnnouncedUnlessReconnected, Announcing, HasPublication
<1> QED
  BY <1>6, <1>7, <1>9 DEF PublicationsInv

LEMMA StateKeepsPublications ==
    ASSUME TypeOK, PublicationsInv, NEW t \in Threads, NEW n \in Namespaces,
           NEW state \in PublicationState, SetPublicationState(t, n, state)
    PROVE  PublicationsInv'
<1>1. /\ HasPublication(n)
      /\ quicrPublicationsMap' = [quicrPublicationsMap EXCEPT ![n].state = state]
      /\ UNCHANGED <<client_session, pc, profiles, announced, refused, intents>>
  BY DEF SetPublicationState, localVars, clientVars
<1>2. quicrPublicationsMap[n] \in PublicationDetails
  BY <1>1 DEF TypeOK, HasPublication
<1>3. /\ quicrPublicationsMap'[n] \in PublicationDetails
      /\ quicrPublicationsMap'[n].session = quicrPublicationsMap[n].session
  BY <1>1, <1>2 DEF TypeOK, PublicationDetails
<1>4. \A ns \in Namespaces :
        /\ HasPublication(ns)' <=> HasPublication(ns)
        /\ HasPublication(ns)
           => quicrPublicationsMap'[ns].session = quicrPublicationsMap[ns].session
  BY <1>1, <1>3, PubNullAssumption DEF TypeOK, HasPublication
<1>5. IntentsOK'
  BY <1>1, <1>4 DEF PublicationsInv, IntentsOK, Announcing, Profile
<1>6. SessionsOK'
  BY <1>1, <1>4 DEF PublicationsInv, SessionsOK
<1>7. AnnouncedUnlessReconnected'
  BY <1>1, <1>4 DEF PublicationsInv, AnnouncedUnlessReconnected, Profile
<1> QED
  BY <1>5, <1>6, <1>7 DEF PublicationsInv

LEMMA ConnectKeepsPublications ==
    ASSUME TypeOK, PublicationsInv, NEW t \in Threads, Connect(t)
    PROVE  PublicationsInv'
<1>1. /\ client_session' = client_session + 1
      /\ UNCHANGED <<quicrPublicationsMap, pc, profiles, intents>>
  BY DEF Connect, localVars
<1>2. \A ns \in Namespaces : HasPublication(ns) =>
        /\ quicrPublicationsMap[ns].session \in Nat
        /\ quicrPublicationsMap[ns].session <= client_session
  BY DEF TypeOK, PublicationDetails, HasPublication, PublicationsInv, SessionsOK
<1>3. IntentsOK'
  BY <1>1 DEF PublicationsInv, IntentsOK, Announcing, Profile, HasPublication
<1>4. SessionsOK'
  BY <1>1, <1>2 DEF TypeOK, SessionsOK, HasPublication
<1>5. AnnouncedUnlessReconnected'
  BY <1>1, <1>2 DEF TypeOK, AnnouncedUnlessReconnected, HasPublication
<1> QED
  BY <1>3, <1>4, <1>5 DEF PublicationsInv

LEMMA NextPublications ==
    ASSUME TypeOK, LocalsOK, PublicationsInv, [Next]_vars
    PROVE  PublicationsInv'
<1>1. CASE UNCHANGED vars
  BY <1>1, QuietPublications DEF vars, controllerVars, localVars, clientVars, Quiet
<1>2. ASSUME NEW t \in Threads, QuietStep(t) PROVE PublicationsInv'
  BY <1>2, QuietSteps, QuietPublications
<1>3. ASSUME NEW t \in Threads, Step(t), ~QuietStep(t) PROVE PublicationsInv'
  BY <1>3, CreateKeepsPublications, IntentKeepsPublications DEF Step, QuietStep
<1>4. ASSUME NEW t \in Threads, Call(t), ~QuietStep(t) PROVE PublicationsInv'
  BY <1>4, StateKeepsPublications, ConnectKeepsPublications DEF Call, QuietStep
<1> QED
  BY <1>1, <1>2, <1>3, <1>4 DEF Next

-----------------------------------------------------------------------------
(***************************************************************************)
(* pubsMutex: no publication changes while an object is on its way.        *)
(***************************************************************************)
LEMMA OthersKeepPublications ==
    ASSUME TypeOK, LocalsOK, [Next]_vars,
           ~\E t \in Threads : CreatePublication(t),
           ~\E t \in Threads, ns \in Namespaces, state \in PublicationState :
               SetPublicationState(t, ns, state)
    PROVE  UNCHANGED quicrPublicationsMap
<1>1. CASE UNCHANGED vars
  BY <1>1 DEF vars, controllerVars
<1>2. ASSUME NEW t \in Threads, QuietStep(t) PROVE UNCHANGED quicrPublicationsMap
  BY <1>2, QuietSteps DEF Quiet
<1>3. ASSUME NEW t \in Threads, PublishIntent(t) \/ Connect(t)
      PROVE  UNCHANGED quicrPublicationsMap
  BY <1>3 DEF PublishIntent, Connect, controllerVars
<1> QED
  BY <1>1, <1>2, <1>3 DEF Next, Step, Call, QuietStep

LEMMA PublishingKeepsPublications ==
    ASSUME TypeOK, LocalsOK, [Next]_vars, NEW t \in Threads, pc[t] = "publish"
    PROVE  UNCHANGED quicrPublicationsMap
<1>1. pubsMutex # NoThread
  BY PubConstantsAssumption DEF TypeOK
<1> QED
  BY <1>1, OthersKeepPublications DEF CreatePublication, SetPublicationState

\* A thread at "publish" was there or has just found its publication.
LEMMA PublishingOrigins ==
    ASSUME TypeOK, LocalsOK, [Next]_vars, NEW u \in Threads, pc'[u] = "publish",
           ~\E ns \in Namespaces : BeginPublish(u, ns)
    PROVE  pc[u] = "publish" /\ it'[u] = it[u]
<1> USE DEF controllerVars, localVars, clientVars
<1>1. CASE UNCHANGED <<pc, it>>
  BY <1>1
<1>2. ASSUME NEW t \in Threads, NEW label \in Labels \ {"publish"}, Moved(t, label)
      PROVE  pc[u] = "publish" /\ it'[u] = it[u]
  BY <1>2 DEF TypeOK, Moved
<1>3. ASSUME NEW t \in Threads,
             \/ NextPublication(t) \/ FinishManifest(t) \/ FinishProfiles(t)
             \/ Prepared(t) \/ StartPublication(t) \/ CreatePublication(t)
      PROVE  pc[u] = "publish" /\ it'[u] = it[u]
  BY <1>3
  DEF TypeOK, NextPublication, FinishManifest, FinishProfiles, Prepared,
      StartPublication, CreatePublication
<1>4. ASSUME NEW t \in Threads,
             NoPublisherDelegate(t) \/ PrepareFailed(t) \/ GetPublicationDelegate(t)
      PROVE  pc[u] = "publish" /\ it'[u] = it[u]
  <2>1. profiles[t] # <<>>
    BY <1>4
    DEF LocalsOK, NoPublisherDelegate, PrepareFailed, GetPublicationDelegate
  <2>2. CASE NextProfile(t)
    BY <1>2, <2>1, <2>2, NextProfileMoves DEF Labels
  <2>3. CASE pc' = [pc EXCEPT ![t] = "prepare"] /\ UNCHANGED it
    BY <2>3 DEF TypeOK
  <2> QED
    BY <1>4, <2>2, <2>3 DEF NoPublisherDelegate, PrepareFailed, GetPublicationDelegate
<1>5. ASSUME NEW t \in Threads, NoSession(t) \/ CreateRefused(t) \/ PublishIntent(t)
      PROVE  pc[u] = "publish" /\ it'[u] = it[u]
  <2>1. profiles[t] # <<>> /\ AfterStart(t)
    BY <1>5 DEF LocalsOK, NoSession, CreateRefused, PublishIntent
  <2> QED
    BY <1>2, <2>1, AfterStartMoves DEF Labels
<1>6. ASSUME NEW t \in Threads, SendObject(t) \/ DropObject(t)
      PROVE  pc[u] = "publish" /\ it'[u] = it[u]
  BY <1>6 DEF TypeOK, SendObject, DropObject, EndPublish
<1>7. ASSUME NEW t \in Threads, NEW m \in Manifests, UpdateManifest(t, m)
      PROVE  pc[u] = "publish" /\ it'[u] = it[u]
  BY <1>7 DEF TypeOK, UpdateManifest
<1>8. ASSUME NEW t \in Threads, NEW ns \in Namespaces, BeginPublish(t, ns)
      PROVE  pc[u] = "publish" /\ it'[u] = it[u]
  BY <1>8 DEF TypeOK, BeginPublish
<1>9. ASSUME NEW t \in Threads,
             \/ \E ns \in Namespaces, state \in PublicationState :
                   SetPublicationState(t, ns, state)
             \/ \E b \in BOOLEAN : SetPublicationSingleOrdered(t, b)
             \/ Connect(t)
      PROVE  pc[u] = "publish" /\ it'[u] = it[u]
  BY <1>1, <1>9 DEF SetPublicationState, SetPublicationSingleOrdered, Connect
<1>10. CASE UNCHANGED vars
  BY <1>1, <1>10 DEF vars
<1> QED
  BY <1>3, <1>4, <1>5, <1>6, <1>7, <1>8, <1>9, <1>10 DEF Next, Step, Call

LEMMA NextPublishingActive ==
    ASSUME TypeOK, LocalsOK, PublishingActive, [Next]_vars
    PROVE  PublishingActive'
<1> SUFFICES ASSUME NEW u \in Threads, pc'[u] = "publish"
             PROVE  quicrPublicationsMap'[it'[u]].state # "paused"
  BY DEF PublishingActive
<1>1. CASE \E ns \in Namespaces : BeginPublish(u, ns)
  BY <1>1 DEF BeginPublish, MayPublish, TypeOK
<1>2. CASE ~\E ns \in Namespaces : BeginPublish(u, ns)
  <2>1. pc[u] = "publish" /\ it'[u] = it[u]
    BY <1>2, PublishingOrigins
  <2> QED
    BY <2>1, PublishingKeepsPublications DEF PublishingActive
<1> QED
  BY <1>1, <1>2

-----------------------------------------------------------------------------
LEMMA InitInvariant == Init => IInv
<1> SUFFICES ASSUME Init PROVE AllocationsOK /\ PublishingActive
  BY InitType, InitLocals, InitPublications DEF IInv
<1> QED
  BY DEF Init, AllocationsOK, Known, PublishingActive

LEMMA NextInvariant == IInv /\ [Next]_vars => IInv'
  BY NextType, NextLocals, NextAllocations, NextPublications, NextPublishingActive
  DEF IInv

\* The invariant holds in every reachable state.
THEOREM Invariance == Spec => []IInv
  BY InitInvariant, NextInvariant, PTL DEF Spec

(***************************************************************************)
(* Whatever the threads, namespaces and manifests, the members keep their  *)
(* types, processPublications never takes the head of an empty list, and   *)
(* the iterator of publishNamedObject stays valid until the object is      *)
(* sent.                                                                   *)
(***************************************************************************)
THEOREM TypeCorrect == Spec => []TypeOK
<1>1. IInv => TypeOK
  BY DEF IInv
<1> QED
  BY <1>1, Invariance, PTL

(***************************************************************************)
(* allocatePubByNamespace is called at most once for a namespace, for any  *)
(* number of threads and manifests: qPubsMutex is held from the lookup to  *)
(* the insertion of what it returned, nullptr included.                    *)
(***************************************************************************)
THEOREM AllocationIsUnique == Spec => []AllocatedOnce
<1>1. IInv => AllocatedOnce
  BY DEF IInv, AllocationsOK, AllocatedOnce
<1> QED
  BY <1>1, Invariance, PTL

(***************************************************************************)
(* publishIntent is called at most once for a namespace, for any number of *)
(* threads and manifests: whoever creates the entry announces it, and the  *)
(* entry is never erased, neither by a pause nor by connect.               *)
(***************************************************************************)
THEOREM IntentIsUnique == Spec => []IntentOnce
<1>1. IInv => IntentOnce
  BY DEF IInv, PublicationsInv, IntentsOK, IntentOnce
<1> QED
  BY <1>1, Invariance, PTL

(***************************************************************************)
(* A publication that was created for the current client is known to it,   *)
(* was refused by it, or is about to be announced.                         *)
(***************************************************************************)
THEOREM PublicationsAnnounced == Spec => []AnnouncedUnlessReconnected
<1>1. IInv => AnnouncedUnlessReconnected
  BY DEF IInv, PublicationsInv
<1> QED
  BY <1>1, Invariance, PTL

(***************************************************************************)
(* No object of a paused publication reaches the client, whatever threads  *)
(* publish while setPublicationState runs.                                 *)
(***************************************************************************)
THEOREM PauseSilences == Spec => PausedIsSilent
<1> DEFINE Silent == \A ns \in Namespaces :
             sent'[ns] # sent[ns] => quicrPublicationsMap[ns].state # "paused"
<1>1. IInv /\ [Next]_vars => Silent
  <2> SUFFICES ASSUME IInv, [Next]_vars PROVE Silent
    OBVIOUS
  <2>1. ASSUME NEW t \in Threads, SendObject(t) PROVE Silent
    <3>1. pc[t] = "publish" /\ sent' = [sent EXCEPT ![it[t]] = @ + 1]
      BY <2>1 DEF SendObject, EndPublish
    <3>2. \A ns \in Namespaces : sent'[ns] # sent[ns] => ns = it[t]
      BY <3>1 DEF IInv, TypeOK
    <3> QED
      BY <3>1, <3>2 DEF IInv, PublishingActive
  <2>2. ASSUME NEW t \in Threads, Step(t), ~SendObject(t) PROVE UNCHANGED sent
    BY <2>2
    DEF Step, NextPublication, FinishManifest, FinishProfiles, NoPublisherDelegate,
        GetPublicationDelegate, PrepareFailed, Prepared, NoSession, StartPublication,
        CreatePublication, CreateRefused, PublishIntent, DropObject
  <2>3. ASSUME NEW t \in Threads, Call(t) PROVE UNCHANGED sent
    BY <2>3
    DEF Call, UpdateManifest, BeginPublish, SetPublicationState,
        SetPublicationSingleOrdered, Connect
  <2>4. CASE UNCHANGED vars
    BY <2>4 DEF vars
  <2> QED
    BY <2>1, <2>2, <2>3, <2>4 DEF Next
<1>2. IInv /\ [Next]_vars => [Silent]_vars
  BY <1>1
<1> QED
  BY <1>2, Invariance, PTL DEF Spec, PausedIsSilent

(***************************************************************************)
(* Processing manifests never resumes or replaces a paused publication:    *)
(* createQuicrPublicationDelegate leaves an entry it finds alone.          *)
(***************************************************************************)
THEOREM PausePersists == Spec => PauseSurvivesManifests
<1> DEFINE Kept == \A ns \in Namespaces :
             (HasPublication(ns) /\ quicrPublicationsMap[ns].state = "paused"
                 /\ \E t \in Threads : pc'[t] # pc[t])
             => quicrPublicationsMap'[ns] = quicrPublicationsMap[ns]
<1>1. IInv /\ [Next]_vars => Kept
  <2> SUFFICES ASSUME IInv, [Next]_vars PROVE Kept
    OBVIOUS
  <2>1. ASSUME NEW t \in Threads, CreatePublication(t) PROVE Kept
    <3>1. PICK new : quicrPublicationsMap' =
                       [quicrPublicationsMap EXCEPT ![Profile(t)] = new]
      BY <2>1 DEF CreatePublication
    <3>2. ~HasPublication(Profile(t))
      BY <2>1 DEF CreatePublication, MayCreate
    <3> QED
      BY <3>1, <3>2 DEF IInv, TypeOK
  <2>2. ASSUME NEW t \in Threads, NEW ns \in Namespaces,
               NEW state \in PublicationState, SetPublicationState(t, ns, state)
        PROVE  UNCHANGED pc
    BY <2>2 DEF SetPublicationState, localVars
  <2> QED
    BY <2>1, <2>2, OthersKeepPublications DEF IInv
<1>2. IInv /\ [Next]_vars => [Kept]_vars
  BY <1>1
<1> QED
  BY <1>2, Invariance, PTL DEF Spec, PauseSurvivesManifests
=============================================================================
