---------------------------- MODULE ManifestProofs ----------------------------
(***************************************************************************)
(* Theorems about Manifest, for any JSON texts, any namespaces and any     *)
(* number of updates.                                                      *)
(***************************************************************************)
EXTENDS Manifest, SequenceTheorems, FiniteSetTheorems, TLAPS

\* What the parser makes of a JSON text.
ProfileType ==
    [qualityProfile : STRING, quicrNamespace : Namespaces, priorities : Seq(Nat),
     expiry : Seq(Nat), appTag : STRING]
ProfileSetType == [type : STRING, profiles : Seq(ProfileType)]
StreamType == [label : STRING, profileSet : ProfileSetType]
ManifestType == [subscriptions : Seq(StreamType), publications : Seq(StreamType)]

(***************************************************************************)
(* The inductive invariant.  A publication that was created is that of the *)
(* profile its tag comes from because it was allocated by the same update, *)
(* unless a profile was left unfinished: so one that was allocated was     *)
(* created too (Finished).  What a manifest names was allocated when it    *)
(* was processed, but for what the loops skipped, and stays so             *)
(* (Remembered).  The constructor's priorities are never empty, from which *)
(* OnlyExpiryUndefined follows.                                            *)
(***************************************************************************)
MapsOK ==
    /\ manifest \in ManifestType /\ before \in ManifestType
    /\ updates \in 0 .. MaxUpdates
    /\ is_singleordered_publication \in BOOLEAN
    /\ unfinished \subseteq Namespaces /\ skipped \subseteq Named(manifest)
    /\ allocated \in [Namespaces -> Allocations \cup {Absent}]
    /\ created \in [Namespaces -> Publications \cup {Absent}]
    /\ \A n \in Namespaces :
          /\ allocated[n] # Absent => allocated[n].from[1] < updates
          /\ created[n] # Absent =>
                allocated[n] # Absent /\ created[n].priority # <<>>

Finished ==
    \A n \in Namespaces \ unfinished :
        allocated[n] # Absent =>
            created[n] # Absent /\ created[n].from = allocated[n].from

Remembered == \A n \in Named(manifest) \ skipped : allocated[n] # Absent

IInv == MapsOK /\ Finished /\ Remembered /\ OnlyExpiryUndefined

-----------------------------------------------------------------------------
\* A set of numbers that is not empty has a least one: no strict subset of the
\* numbers below it is the set of the numbers below another.
LEMMA LeastExists ==
    ASSUME NEW T, T \subseteq Nat, T # {}
    PROVE  \E x \in T : \A y \in T : x <= y
<1>1. PICK top \in T : TRUE
  OBVIOUS
<1> DEFINE S == 0 .. top
           Below(x) == {y \in T : y < x}
           U == {Below(x) : x \in T \cap S}
<1>2. IsFiniteSet(S)
  BY <1>1, FS_Interval
<1>3. U \subseteq SUBSET S /\ U # {}
  <2>1. \A x \in T \cap S : Below(x) \subseteq S
    <3>1. \A x \in 0 .. top : \A y \in Nat : y < x => y \in 0 .. top
      BY <1>1
    <3> QED
      BY <3>1
  <2>2. top \in T \cap S
    BY <1>1
  <2> QED
    BY <2>1, <2>2
<1>4. PICK D \in U : \A E \in U : <<E, D>> \notin StrictSubsetOrdering(S)
  <2> HIDE DEF U, S
  <2>1. IsWellFoundedOn(StrictSubsetOrdering(S), SUBSET S)
    BY <1>2, FS_StrictSubsetOrderingWellFounded, FS_FiniteSubsetsOfFinite
  <2> QED
    BY <1>3, <2>1, WFMin
<1>5. \A E \in U : ~(E \subseteq D /\ E # D)
  BY <1>3, <1>4 DEF StrictSubsetOrdering
<1>6. PICK x \in T \cap S : D = Below(x)
  BY <1>4
<1>7. ASSUME NEW y \in T, y < x PROVE FALSE
  <2>1. y \in T \cap S
    BY <1>1, <1>6, <1>7
  <2>2. Below(y) \in U
    BY <2>1
  <2>3. Below(y) \subseteq Below(x)
    <3>1. \A z \in T : z < y => z < x
      BY <1>6, <1>7
    <3> QED
      BY <3>1
  <2>4. y \in Below(x) /\ y \notin Below(y)
    BY <1>7
  <2> QED
    BY <1>5, <1>6, <2>2, <2>3, <2>4
<1> QED
  BY <1>6, <1>7

\* A sequence mapped element by element.
LEMMA MappedSeq ==
    ASSUME NEW S, NEW T, NEW s \in Seq(S), NEW t,
           t = [i \in DOMAIN s |-> t[i]], \A i \in DOMAIN s : t[i] \in T
    PROVE  t \in Seq(T) /\ Len(t) = Len(s) /\ DOMAIN t = DOMAIN s
<1>1. Len(s) \in Nat /\ DOMAIN s = 1 .. Len(s)
  OBVIOUS
<1>2. t \in [1 .. Len(s) -> T]
  BY <1>1
<1> QED
  BY <1>1, <1>2, SeqDef

-----------------------------------------------------------------------------
\* Positions are pairs of numbers, and each holds a profile.
LEMMA PositionType ==
    ASSUME NEW m \in ManifestType
    PROVE  /\ Positions(m) \subseteq Nat \X Nat
           /\ \A p \in Positions(m) : ProfileAt(m, p) \in ProfileType
<1>1. m.publications \in Seq(StreamType)
  BY DEF ManifestType
<1>2. ASSUME NEW p \in Positions(m)
      PROVE  p \in Nat \X Nat /\ ProfileAt(m, p) \in ProfileType
  <2>1. PICK s \in DOMAIN m.publications :
           p \in {s} \X DOMAIN m.publications[s].profileSet.profiles
    BY <1>2 DEF Positions
  <2>2. s \in Nat /\ m.publications[s] \in StreamType
    BY <1>1, <2>1
  <2>3. m.publications[s].profileSet.profiles \in Seq(ProfileType)
    BY <2>2 DEF StreamType, ProfileSetType
  <2>4. p[1] = s /\ p[2] \in DOMAIN m.publications[s].profileSet.profiles
        /\ p = <<p[1], p[2]>>
    BY <2>1
  <2>5. p[2] \in Nat /\ m.publications[s].profileSet.profiles[p[2]] \in ProfileType
    BY <2>3, <2>4
  <2> QED
    BY <2>2, <2>4, <2>5 DEF ProfileAt
<1> QED
  BY <1>2

\* The loops reach a first one of any positions.
LEMMA FirstType ==
    ASSUME NEW positions, positions \subseteq Nat \X Nat, positions # {}
    PROVE  First(positions) \in positions
<1>1. \E p \in positions : \A q \in positions : p[1] < q[1] \/ (p[1] = q[1] /\ p[2] <= q[2])
  <2> DEFINE streams == {p[1] : p \in positions}
  <2>1. PICK s \in streams : \A u \in streams : s <= u
    <3>1. streams \subseteq Nat /\ streams # {}
      OBVIOUS
    <3> HIDE DEF streams
    <3> QED
      BY <3>1, LeastExists
  <2> DEFINE here == {p \in positions : p[1] = s}
             profiles == {p[2] : p \in here}
  <2>2. PICK i \in profiles : \A k \in profiles : i <= k
    <3>1. profiles \subseteq Nat /\ profiles # {}
      OBVIOUS
    <3> HIDE DEF profiles
    <3> QED
      BY <3>1, LeastExists
  <2>3. PICK p \in here : p[2] = i
    BY <2>2
  <2>4. ASSUME NEW q \in positions PROVE p[1] < q[1] \/ (p[1] = q[1] /\ p[2] <= q[2])
    <3>1. p[1] \in Nat /\ q[1] \in Nat /\ p[1] = s /\ s <= q[1]
      BY <2>1, <2>3
    <3>2. q[1] = s => p[2] <= q[2]
      BY <2>2, <2>3
    <3> QED
      BY <3>1, <3>2
  <2> QED
    BY <2>3, <2>4
<1> QED
  BY <1>1 DEF First

-----------------------------------------------------------------------------
\* A text that parses becomes a manifest.
LEMMA ProfileParses ==
    ASSUME NEW j \in JsonProfiles, ParsesProfile(j)
    PROVE  Profile(j) \in ProfileType
<1>1. <<>> \in Seq(Nat)
  OBVIOUS
<1>2. j.qualityProfile \in STRING /\ j.quicrNamespace \in Namespaces
  BY DEF ParsesProfile, At, JsonProfiles, Field
<1>3. Get(j.priorities, <<>>) \in Seq(Nat) /\ Get(j.expiry, <<>>) \in Seq(Nat)
  BY <1>1 DEF ParsesProfile, Optional, Given, Get, At, JsonProfiles, Field
<1>4. Get(j.appTag, EmptyTag) \in STRING
  BY JsonAssumption DEF ParsesProfile, Optional, Given, Get, At, JsonProfiles, Field
<1> QED
  BY <1>2, <1>3, <1>4 DEF Profile, ProfileType

LEMMA StreamParses ==
    ASSUME NEW j \in JsonStreams, ParsesStream(j)
    PROVE  MediaStream(j) \in StreamType
<1> DEFINE set == j.profileSet
           profiles == [i \in DOMAIN set.profiles |-> Profile(set.profiles[i])]
<1>1. j.label \in STRING /\ set \in JsonProfileSets /\ ParsesProfileSet(set)
  BY DEF ParsesStream, At, JsonStreams, Field
<1>2. set.type \in STRING /\ set.profiles \in Seq(JsonProfiles)
      /\ \A i \in DOMAIN set.profiles : ParsesProfile(set.profiles[i])
  BY <1>1 DEF ParsesProfileSet, At, JsonProfileSets, Field
<1>3. \A i \in DOMAIN set.profiles : profiles[i] \in ProfileType
  BY <1>2, ProfileParses
<1>4. profiles \in Seq(ProfileType)
  <2>1. profiles = [i \in DOMAIN set.profiles |-> profiles[i]]
    OBVIOUS
  <2> HIDE DEF profiles, set
  <2> QED
    BY <1>2, <1>3, <2>1, MappedSeq
<1> QED
  BY <1>1, <1>2, <1>4 DEF MediaStream, ProfileSet, StreamType, ProfileSetType

LEMMA StreamsParse ==
    ASSUME NEW js \in Field(Seq(JsonStreams)), ParsesStreams(js)
    PROVE  MediaStreams(js) \in Seq(StreamType)
<1>1. js \in Seq(JsonStreams) /\ \A i \in DOMAIN js : ParsesStream(js[i])
  BY DEF ParsesStreams, At, Field
<1>2. MediaStreams(js) = [i \in DOMAIN js |-> MediaStreams(js)[i]]
      /\ \A i \in DOMAIN js : MediaStreams(js)[i] \in StreamType
  BY <1>1, StreamParses DEF MediaStreams
<1> QED
  BY <1>1, <1>2, MappedSeq

LEMMA ParsedType ==
    ASSUME NEW j \in JsonManifests, Parses(j)
    PROVE  Parsed(j) \in ManifestType
<1>1. j.subscriptions \in Field(Seq(JsonStreams)) /\ j.publications \in Field(Seq(JsonStreams))
  BY JsonAssumption
<1> QED
  BY <1>1, StreamsParse DEF Parses, Parsed, ManifestType

-----------------------------------------------------------------------------
\* The priorities the constructor completes are never empty.
LEMMA PriorityType ==
    ASSUME NEW priorities \in Seq(Nat)
    PROVE  Priority(priorities) \in Seq(Nat) /\ Priority(priorities) # <<>>
<1>1. CASE Len(priorities) = 0
  BY <1>1 DEF Priority
<1>2. CASE Len(priorities) = 1
  <2>1. priorities \o priorities \in Seq(Nat) /\ Len(priorities \o priorities) = 2
    BY <1>2
  <2> QED
    BY <1>2, <2>1 DEF Priority
<1>3. CASE Len(priorities) \notin {0, 1}
  BY <1>3 DEF Priority
<1> QED
  BY <1>1, <1>2, <1>3

LEMMA InitIInv == Init => IInv
<1> SUFFICES ASSUME Init PROVE IInv
  OBVIOUS
<1>1. manifest \in ManifestType /\ Positions(manifest) = {}
  BY DEF Init, ManifestType, Positions
<1>2. MapsOK
  <2>1. is_singleordered_publication \in BOOLEAN /\ skipped \subseteq Named(manifest)
    BY Zenon DEF Init
  <2> QED
    BY <1>1, <2>1, ManifestAssumption DEF Init, MapsOK
<1> QED
  BY <1>1, <1>2 DEF Init, IInv, Finished, Remembered, OnlyExpiryUndefined, Named, Naming

LEMMA UpdateStep ==
    ASSUME IInv, updates < MaxUpdates, NEW j \in JsonManifests, Parses(j),
           NEW prepared \in SUBSET Positions(Parsed(j)), NEW session \in BOOLEAN,
           UpdateManifest(j, prepared, session)
    PROVE  IInv'
<1> DEFINE m == Parsed(j)
           reached == Reached(m, prepared)
           started == IF session THEN reached \cap Processed(m, prepared) ELSE {}
           Allocated(n) ==
             LET p == First(Naming(m, n) \cap reached)
             IN  [appTag |-> ProfileAt(m, p).appTag, from |-> <<updates, p>>]
           Created(n) ==
             LET p == First(Naming(m, n) \cap started)
             IN  [priority |-> Priority(ProfileAt(m, p).priorities),
                  expiry |-> ProfileAt(m, p).expiry, from |-> <<updates, p>>]
<1>1. /\ manifest' = m /\ before' = manifest
      /\ allocated' = [n \in Namespaces |->
            IF Naming(m, n) \cap reached # {} /\ Unallocated(n)
            THEN Allocated(n) ELSE allocated[n]]
      /\ created' = [n \in Namespaces |->
            IF Naming(m, n) \cap started # {} /\ Uncreated(n) THEN Created(n) ELSE created[n]]
      /\ unfinished' = unfinished \cup
            {ProfileAt(m, p).quicrNamespace : p \in reached \ started}
      /\ skipped' = {n \in Named(m) : Naming(m, n) \cap reached = {}}
      /\ updates' = updates + 1
      /\ UNCHANGED <<is_singleordered_publication, undefined>>
  BY DEF UpdateManifest
<1>2. m \in ManifestType /\ updates \in Nat /\ updates' \in 0 .. MaxUpdates
  BY <1>1, ParsedType, ManifestAssumption DEF IInv, MapsOK
<1>3. ASSUME NEW n \in Namespaces, NEW positions \in SUBSET Naming(m, n), positions # {}
      PROVE  /\ First(positions) \in positions /\ <<updates, First(positions)>> \in Places
             /\ ProfileAt(m, First(positions)) \in ProfileType
  <2>1. positions \subseteq Positions(m) /\ positions \subseteq Nat \X Nat
    BY <1>2, <1>3, PositionType DEF Naming
  <2>2. First(positions) \in positions
    BY <1>3, <2>1, FirstType
  <2> QED
    BY <1>2, <2>1, <2>2, PositionType DEF Places
<1> reached \subseteq Positions(m) /\ started \subseteq reached
  BY DEF Reached
<1> HIDE DEF m
<1>4. ASSUME NEW n \in Namespaces, Naming(m, n) \cap reached # {}
      PROVE  Allocated(n) \in Allocations
  <2> DEFINE p == First(Naming(m, n) \cap reached)
  <2>1. ProfileAt(m, p) \in ProfileType /\ <<updates, p>> \in Places
    BY <1>3, <1>4
  <2> HIDE DEF p
  <2> QED
    BY <2>1 DEF Allocations, ProfileType, p
<1>5. ASSUME NEW n \in Namespaces, Naming(m, n) \cap started # {}
      PROVE  Created(n) \in Publications /\ Created(n).priority # <<>>
  <2> DEFINE p == First(Naming(m, n) \cap started)
  <2>1. ProfileAt(m, p) \in ProfileType /\ <<updates, p>> \in Places
    BY <1>3, <1>5
  <2>2. ProfileAt(m, p).priorities \in Seq(Nat) /\ ProfileAt(m, p).expiry \in Seq(Nat)
    BY <2>1 DEF ProfileType
  <2> HIDE DEF p
  <2> QED
    BY <2>1, <2>2, PriorityType DEF Publications, p
<1> HIDE DEF reached, started, Allocated, Created
<1>6. allocated' \in [Namespaces -> Allocations \cup {Absent}]
  BY <1>1, <1>4 DEF IInv, MapsOK
<1>7. created' \in [Namespaces -> Publications \cup {Absent}]
  BY <1>1, <1>5 DEF IInv, MapsOK
<1>8. unfinished' \subseteq Namespaces
  BY <1>1, <1>2, PositionType DEF IInv, MapsOK, ProfileType
<1>9. \A n \in Namespaces : Naming(m, n) \cap reached # {} => allocated'[n] # Absent
  BY <1>1, <1>4, JsonAssumption DEF Unallocated
<1>10. ASSUME NEW n \in Namespaces
       PROVE  /\ allocated'[n] # Absent => allocated'[n].from[1] < updates'
              /\ created'[n] # Absent =>
                    allocated'[n] # Absent /\ created'[n].priority # <<>>
  <2>1. allocated'[n] # Absent => allocated'[n].from[1] < updates'
    <3>1. CASE Naming(m, n) \cap reached # {} /\ Unallocated(n)
      BY <1>1, <1>2, <3>1 DEF Allocated
    <3>2. CASE ~(Naming(m, n) \cap reached # {} /\ Unallocated(n))
      <4>1. allocated'[n] = allocated[n]
        BY <1>1, <3>2
      <4>2. allocated[n] # Absent => allocated[n].from[1] \in Nat /\ allocated[n].from[1] < updates
        BY DEF IInv, MapsOK, Allocations, Places
      <4> QED
        BY <1>1, <1>2, <4>1, <4>2
    <3> QED
      BY <3>1, <3>2
  <2>2. created'[n] # Absent => created'[n].priority # <<>>
    BY <1>1, <1>5 DEF IInv, MapsOK
  <2>3. created'[n] # Absent => allocated'[n] # Absent
    <3>1. CASE created'[n] = created[n]
      BY <1>1, <1>4, <3>1, JsonAssumption DEF IInv, MapsOK
    <3>2. CASE Naming(m, n) \cap started # {}
      BY <1>9, <3>2
    <3> QED
      BY <1>1, <3>1, <3>2
  <2> QED
    BY <2>1, <2>2, <2>3
<1>11. Named(manifest)' = Named(m)
  <2>1. manifest' = m
    BY <1>1
  <2> HIDE <1>1
  <2> QED
    BY <2>1 DEF Named, Naming, Positions, ProfileAt
<1>12. MapsOK'
  <2>1. skipped' \subseteq Named(manifest)'
    BY <1>1, <1>11
  <2> QED
    BY <1>1, <1>2, <1>6, <1>7, <1>8, <1>10, <2>1 DEF IInv, MapsOK
<1>13. Finished'
  <2> SUFFICES ASSUME NEW n \in Namespaces, n \notin unfinished', allocated'[n] # Absent
               PROVE  created'[n] # Absent /\ created'[n].from = allocated'[n].from
    BY DEF Finished
  <2>1. n \notin unfinished /\ Naming(m, n) \cap started = Naming(m, n) \cap reached
    BY <1>1 DEF Naming
  <2>2. CASE Naming(m, n) \cap reached # {} /\ Unallocated(n)
    <3>1. Uncreated(n) /\ Naming(m, n) \cap started # {}
      BY <2>1, <2>2 DEF IInv, MapsOK, Uncreated, Unallocated
    <3>2. allocated'[n] = Allocated(n) /\ created'[n] = Created(n)
      BY <1>1, <2>2, <3>1
    <3>3. Created(n) # Absent
      BY <1>5, <3>1, JsonAssumption
    <3>4. Created(n).from = Allocated(n).from
      BY <2>1 DEF Allocated, Created
    <3> QED
      BY <3>2, <3>3, <3>4
  <2>3. CASE ~(Naming(m, n) \cap reached # {} /\ Unallocated(n))
    <3>1. allocated'[n] = allocated[n]
      BY <1>1, <2>3
    <3>2. created[n] # Absent /\ created[n].from = allocated[n].from
      BY <2>1, <3>1 DEF IInv, Finished
    <3>3. created'[n] = created[n]
      BY <1>1, <3>2 DEF Uncreated
    <3> QED
      BY <3>1, <3>2, <3>3
  <2> QED
    BY <2>2, <2>3
<1>14. Remembered'
  <2>1. \A n \in Named(m) \ skipped' : allocated'[n] # Absent
    BY <1>1, <1>9 DEF Named
  <2> QED
    BY <1>11, <2>1 DEF Remembered
<1>15. OnlyExpiryUndefined'
  BY <1>1 DEF IInv, OnlyExpiryUndefined
<1> QED
  BY <1>12, <1>13, <1>14, <1>15 DEF IInv

LEMMA RejectedStep ==
    ASSUME IInv, updates < MaxUpdates, ManifestRejected
    PROVE  IInv'
<1>1. /\ updates' = updates + 1 /\ updates' \in 0 .. MaxUpdates /\ updates \in Nat
      /\ UNCHANGED <<manifest, allocated, created, is_singleordered_publication, before,
                     undefined, unfinished, skipped>>
  BY ManifestAssumption
  DEF ManifestRejected, controllerVars, historyVars, IInv, MapsOK
<1>2. \A n \in Namespaces : allocated[n] # Absent => allocated[n].from[1] < updates'
  <2>1. \A n \in Namespaces : allocated[n] # Absent =>
           allocated[n].from[1] \in Nat /\ allocated[n].from[1] < updates
    BY DEF IInv, MapsOK, Allocations, Places
  <2> QED
    BY <1>1, <2>1
<1>3. MapsOK'
  BY <1>1, <1>2 DEF IInv, MapsOK, Named, Naming, Positions, ProfileAt
<1> QED
  BY <1>1, <1>3
     DEF IInv, Finished, Remembered, OnlyExpiryUndefined, Named, Naming, Positions, ProfileAt

LEMMA PublishStep ==
    ASSUME IInv, NEW n \in Namespaces, Publish(n)
    PROVE  IInv'
<1>1. /\ undefined' = undefined \cup
            {<<n, field>> : field \in {f \in {"priority", "expiry"} : created[n][f] = <<>>}}
      /\ created[n] # Absent
      /\ UNCHANGED <<manifest, updates, allocated, created, is_singleordered_publication,
                     before, unfinished, skipped>>
  BY DEF Publish, controllerVars, Uncreated
<1>2. created[n]["priority"] # <<>>
  BY <1>1 DEF IInv, MapsOK
<1>3. OnlyExpiryUndefined'
  BY <1>1, <1>2 DEF IInv, OnlyExpiryUndefined
<1> QED
  BY <1>1, <1>3
     DEF IInv, MapsOK, Finished, Remembered, Named, Naming, Positions, ProfileAt

LEMMA SetFlagStep ==
    ASSUME IInv, NEW b \in BOOLEAN, SetPublicationSingleOrdered(b)
    PROVE  IInv'
  BY DEF SetPublicationSingleOrdered, historyVars, IInv, MapsOK, Finished, Remembered,
         OnlyExpiryUndefined, Named, Naming, Positions, ProfileAt

LEMMA StutterStep ==
    ASSUME IInv, UNCHANGED vars
    PROVE  IInv'
  BY DEF vars, controllerVars, historyVars, IInv, MapsOK, Finished, Remembered,
         OnlyExpiryUndefined, Named, Naming, Positions, ProfileAt

\* The invariant holds in every reachable state.
THEOREM ManifestInvariance == Spec => []IInv
<1>1. IInv /\ [Next]_vars => IInv'
  BY UpdateStep, RejectedStep, PublishStep, SetFlagStep, StutterStep DEF Next
<1> QED
  BY InitIInv, <1>1, PTL DEF Spec

\* The maps hold well-typed data, and what is created was allocated first.
THEOREM ManifestTypeCorrect == Spec => []TypeOK
<1>1. IInv => TypeOK
  BY JsonAssumption DEF IInv, MapsOK, TypeOK, Allocations, Publications
<1> QED
  BY ManifestInvariance, <1>1, PTL

\* Publishing never reads a priority that is not there: of the vectors indexed
\* at 0, only expiry can be empty.
THEOREM PrioritiesAreThere == Spec => []OnlyExpiryUndefined
<1>1. IInv => OnlyExpiryUndefined
  BY DEF IInv
<1> QED
  BY ManifestInvariance, <1>1, PTL

\* The tag of the application's delegate and the priorities and expiry of its
\* publication come from one profile, unless one of the namespace was not started.
THEOREM OneProfileEach == Spec => []TagAndPublicationAgree
<1>1. IInv => TagAndPublicationAgree
  BY DEF IInv, MapsOK, Finished, TagAndPublicationAgree
<1> QED
  BY ManifestInvariance, <1>1, PTL

-----------------------------------------------------------------------------
\* Manifests that operator== calls equal name the same namespaces in the same
\* places, with the same priorities and expiry.
LEMMA EqualPositions ==
    ASSUME NEW m \in ManifestType, NEW o \in ManifestType, Equal(m, o)
    PROVE  /\ Positions(m) = Positions(o)
           /\ \A p \in Positions(m) : EqualProfile(ProfileAt(m, p), ProfileAt(o, p))
<1> DEFINE profiles(k, s) == k.publications[s].profileSet.profiles
<1>1. m.publications \in Seq(StreamType) /\ o.publications \in Seq(StreamType)
  BY DEF ManifestType
<1>2. DOMAIN m.publications = DOMAIN o.publications
      /\ \A s \in DOMAIN m.publications :
            EqualProfileSet(m.publications[s].profileSet, o.publications[s].profileSet)
  BY <1>1 DEF Equal, EqualStreams
<1>3. \A s \in DOMAIN m.publications :
         profiles(m, s) \in Seq(ProfileType) /\ profiles(o, s) \in Seq(ProfileType)
  <2>1. ASSUME NEW stream \in StreamType
        PROVE  stream.profileSet.profiles \in Seq(ProfileType)
    BY DEF StreamType, ProfileSetType
  <2>2. \A s \in DOMAIN m.publications :
           m.publications[s] \in StreamType /\ o.publications[s] \in StreamType
    BY <1>1, <1>2
  <2> QED
    BY <2>1, <2>2
<1>4. \A s \in DOMAIN m.publications :
         /\ DOMAIN profiles(m, s) = DOMAIN profiles(o, s)
         /\ \A i \in DOMAIN profiles(m, s) : EqualProfile(profiles(m, s)[i], profiles(o, s)[i])
  BY <1>2, <1>3 DEF EqualProfileSet
<1>5. Positions(m) = Positions(o)
  BY <1>2, <1>4 DEF Positions
<1>6. ASSUME NEW p \in Positions(m)
      PROVE  EqualProfile(ProfileAt(m, p), ProfileAt(o, p))
  <2>1. p[1] \in DOMAIN m.publications /\ p[2] \in DOMAIN profiles(m, p[1])
    BY DEF Positions
  <2> QED
    BY <1>4, <2>1 DEF ProfileAt
<1> QED
  BY <1>5, <1>6

LEMMA EqualNaming ==
    ASSUME NEW m \in ManifestType, NEW o \in ManifestType, Equal(m, o)
    PROVE  /\ \A n : Naming(m, n) = Naming(o, n)
           /\ Named(m) = Named(o)
<1>1. \A n : Naming(m, n) = Naming(o, n)
  BY EqualPositions DEF Naming, EqualProfile
<1> QED
  BY <1>1 DEF Named

\* Manifests that operator== calls equal publish the same namespaces with the
\* same priorities and expiry.
THEOREM EqualPublishAlike == Spec => []EqualManifestsPublishAlike
<1>1. ASSUME IInv, Equal(manifest, before)
      PROVE  /\ Named(manifest) = Named(before)
             /\ \A n \in Named(manifest) :
                  LET p == ProfileAt(manifest, First(Naming(manifest, n)))
                      q == ProfileAt(before, First(Naming(before, n)))
                  IN  Priority(p.priorities) = Priority(q.priorities) /\ p.expiry = q.expiry
  <2>1. manifest \in ManifestType /\ before \in ManifestType
    BY <1>1 DEF IInv, MapsOK
  <2>2. ASSUME NEW n \in Named(manifest)
        PROVE  EqualProfile(ProfileAt(manifest, First(Naming(manifest, n))),
                            ProfileAt(before, First(Naming(before, n))))
    <3>1. Naming(manifest, n) # {} /\ Naming(manifest, n) \subseteq Positions(manifest)
      BY DEF Named, Naming
    <3>2. First(Naming(manifest, n)) \in Positions(manifest)
      BY <2>1, <3>1, FirstType, PositionType
    <3> QED
      BY <1>1, <2>1, <3>2, EqualNaming, EqualPositions
  <2> QED
    BY <1>1, <2>1, <2>2, EqualNaming DEF EqualProfile
<1>2. IInv => EqualManifestsPublishAlike
  BY <1>1 DEF EqualManifestsPublishAlike
<1> QED
  BY ManifestInvariance, <1>2, PTL

\* Processing a manifest that equals the last one allocates nothing, whatever
\* the application answered the first time, but for the namespaces that the break
\* of a single-ordered publication left out then.
THEOREM EqualIsIdle == Spec => EqualAllocatesSkipped
<1>1. ASSUME IInv, [Next]_vars, Equal(manifest', manifest), IInv',
             NEW n \in Namespaces, allocated'[n] # allocated[n]
      PROVE  n \in skipped
  <2>1. PICK j \in JsonManifests :
           \E prepared \in SUBSET Positions(Parsed(j)), session \in BOOLEAN :
              UpdateManifest(j, prepared, session)
    <3>1. ~(UNCHANGED allocated)
      BY <1>1
    <3> QED
      BY <1>1, <3>1
      DEF Next, ManifestRejected, Publish, SetPublicationSingleOrdered, vars, controllerVars
  <2>2. manifest' = Parsed(j) /\ Naming(Parsed(j), n) # {} /\ allocated[n] = Absent
    BY <1>1, <2>1 DEF UpdateManifest, Unallocated
  <2>3. n \in Named(manifest)
    BY <1>1, <2>2, EqualNaming DEF IInv, MapsOK, Named
  <2> QED
    BY <1>1, <2>2, <2>3 DEF IInv, Remembered
<1>2. IInv /\ IInv' /\ [Next]_vars =>
        [Equal(manifest', manifest) =>
            \A n \in Namespaces : allocated'[n] # allocated[n] => n \in skipped]_vars
  BY <1>1
<1> QED
  BY ManifestInvariance, <1>2, PTL DEF Spec, EqualAllocatesSkipped
=============================================================================
