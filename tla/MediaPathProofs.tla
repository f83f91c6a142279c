--------------------------- MODULE MediaPathProofs ---------------------------
(***************************************************************************)
(* Theorems about PublicationDelegate and, built on them, about MediaPath, *)
(* for every width of the counters (2^32 and 2^16 among them), any number  *)
(* of objects and publishers, and a transport that loses, delays, reorders *)
(* and duplicates.                                                         *)
(***************************************************************************)
EXTENDS MediaPath, TLAPS

-----------------------------------------------------------------------------
(***************************************************************************)
(* The publisher.  NamesIdentifyObjects is not inductive: that no name     *)
(* repeats follows from all names sent being lexicographically at or below *)
(* the counters, and a rebuilt delegate starts above them because, unless  *)
(* outpaced, the clock has passed constructed + groups, the last group.    *)
(***************************************************************************)
Counted == ~wrapped => groupId = constructed + groups

Covered ==
    ~wrapped /\ ~outpaced =>
        \A n \in sent : \/ n.group < groupId
                        \/ n.group = groupId /\ n.object <= objectId

IInv ==
    /\ TypeOK
    /\ Counted
    /\ Covered
    /\ NamesIdentifyObjects

-----------------------------------------------------------------------------
\* Incrementing an unsigned counter of modulus m.
LEMMA Increment ==
    ASSUME NEW m \in Nat \ {0}, NEW a \in 0 .. m - 1
    PROVE  /\ (a + 1) % m \in 0 .. m - 1
           /\ a + 1 # m => (a + 1) % m = a + 1
  OBVIOUS

\* Taking a number below the modulus into the counter leaves it as it is.
LEMMA SmallMod ==
    ASSUME NEW m \in Nat \ {0}, NEW a \in 0 .. m - 1
    PROVE  a % m = a
  OBVIOUS

\* The next name is above the counters, unless one of them wraps.
LEMMA NextNameAbove ==
    ASSUME TypeOK, NEW groupFlag \in BOOLEAN
    PROVE  /\ NextGroup(groupFlag) \in GroupIds
           /\ NextObject(groupFlag) \in ObjectIds
           /\ ~Wraps(groupFlag) =>
                 IF groupFlag THEN NextGroup(groupFlag) = groupId + 1
                 ELSE /\ NextGroup(groupFlag) = groupId
                      /\ NextObject(groupFlag) = objectId + 1
<1>1. groupId \in 0 .. GroupModulus - 1 /\ objectId \in 0 .. ObjectModulus - 1
  BY DEF TypeOK, GroupIds, ObjectIds
<1>2. /\ (groupId + 1) % GroupModulus \in GroupIds
      /\ groupId + 1 # GroupModulus => (groupId + 1) % GroupModulus = groupId + 1
  BY <1>1, NamingAssumption, Increment DEF GroupIds
<1>3. /\ (objectId + 1) % ObjectModulus \in ObjectIds
      /\ objectId + 1 # ObjectModulus => (objectId + 1) % ObjectModulus = objectId + 1
  BY <1>1, NamingAssumption, Increment DEF ObjectIds
<1>4. 0 \in ObjectIds
  BY NamingAssumption DEF ObjectIds
<1> QED
  BY <1>2, <1>3, <1>4 DEF NextGroup, NextObject, Wraps, TypeOK

LEMMA InitIInv == Init => IInv
<1> SUFFICES ASSUME Init PROVE IInv
  OBVIOUS
<1>1. 0 \in GroupIds /\ 0 \in ObjectIds /\ 0 \in 0 .. MaxClock /\ 0 \in 0 .. 0
  BY NamingAssumption DEF GroupIds, ObjectIds
<1>2. TypeOK
  BY <1>1 DEF Init, TypeOK
<1>3. Counted /\ Covered /\ NamesIdentifyObjects
  BY DEF Init, Counted, Covered, NamesIdentifyObjects
<1> QED
  BY <1>2, <1>3 DEF IInv

\* What TakeName does to the parts of the invariant that do not see the sent.
LEMMA TakeNameStep ==
    ASSUME IInv, NEW groupFlag \in BOOLEAN, TakeName(groupFlag)
    PROVE  /\ groupId' \in GroupIds /\ objectId' \in ObjectIds
           /\ groups' \in Nat /\ publishes' \in Nat /\ wrapped' \in BOOLEAN
           /\ hasExpiry' \in BOOLEAN /\ sframe' \in BOOLEAN /\ alive' \in BOOLEAN
           /\ clock' \in 0 .. MaxClock /\ constructed' \in 0 .. clock'
           /\ outpaced' \in BOOLEAN
           /\ Counted'
           /\ ~wrapped' /\ ~outpaced' =>
                 /\ ~wrapped /\ ~outpaced
                 /\ \/ groupId' = groupId + 1
                    \/ groupId' = groupId /\ objectId' = objectId + 1
<1>1. TypeOK /\ groupId \in Nat /\ objectId \in Nat /\ constructed \in Nat
  BY DEF IInv, TypeOK, GroupIds, ObjectIds
<1>2. groupId' \in GroupIds /\ objectId' \in ObjectIds
  BY <1>1, NextNameAbove DEF TakeName
<1>3. ~wrapped' => /\ ~wrapped /\ ~Wraps(groupFlag)
                   /\ IF groupFlag THEN groupId' = groupId + 1
                      ELSE groupId' = groupId /\ objectId' = objectId + 1
  BY <1>1, NextNameAbove DEF TakeName
<1>4. Counted'
  BY <1>1, <1>3 DEF IInv, Counted, TakeName, TypeOK
<1> QED
  BY <1>1, <1>2, <1>3, <1>4 DEF TakeName, TypeOK

LEMMA PublishStep ==
    ASSUME IInv, NEW groupFlag \in BOOLEAN, Publish(groupFlag)
    PROVE  IInv'
<1> DEFINE name == NextName(groupFlag)
<1>1. TakeName(groupFlag) /\ sent' = sent \cup {name}
      /\ reused' = (reused \/ name \in sent)
  BY DEF Publish
<1>2. name.group = groupId' /\ name.object = objectId'
  BY <1>1 DEF NextName, TakeName
<1>3. name \in Name
  BY <1>1, TakeNameStep DEF NextName, TakeName, Name
<1>4. TypeOK'
  BY <1>1, <1>3, TakeNameStep DEF IInv, TypeOK
<1>5. /\ \A n \in sent : n.group \in Nat /\ n.object \in Nat
      /\ groupId \in Nat /\ objectId \in Nat
  BY DEF IInv, TypeOK, Name, GroupIds, ObjectIds
<1>6. ASSUME ~wrapped', ~outpaced', NEW n \in sent
      PROVE  n.group < groupId' \/ (n.group = groupId' /\ n.object < objectId')
  <2>1. /\ ~wrapped /\ ~outpaced
        /\ \/ groupId' = groupId + 1
           \/ groupId' = groupId /\ objectId' = objectId + 1
    BY <1>1, <1>6, TakeNameStep
  <2>2. n.group < groupId \/ (n.group = groupId /\ n.object <= objectId)
    BY <2>1 DEF IInv, Covered
  <2> QED
    BY <1>5, <2>1, <2>2
<1>7. groupId' \in Nat /\ objectId' \in Nat
  BY <1>4 DEF TypeOK, GroupIds, ObjectIds
<1>8. Covered'
  BY <1>1, <1>2, <1>5, <1>6, <1>7 DEF Covered
<1>9. NamesIdentifyObjects'
  <2>1. CASE name \in sent
    BY <1>2, <1>5, <1>6, <1>7, <2>1 DEF NamesIdentifyObjects
  <2>2. CASE name \notin sent
    <3>1. reused' = reused
      BY <1>1, <2>2 DEF IInv, TypeOK
    <3>2. (wrapped => wrapped') /\ outpaced' = outpaced
      BY <1>1 DEF TakeName
    <3> QED
      BY <3>1, <3>2 DEF IInv, NamesIdentifyObjects
  <2> QED
    BY <2>1, <2>2
<1> QED
  BY <1>1, <1>4, <1>8, <1>9, TakeNameStep DEF IInv

LEMMA EncryptFailsStep ==
    ASSUME IInv, NEW groupFlag \in BOOLEAN, EncryptFails(groupFlag)
    PROVE  IInv'
<1>1. TakeName(groupFlag) /\ sent' = sent /\ reused' = reused
  BY DEF EncryptFails
<1>2. TypeOK'
  BY <1>1, TakeNameStep DEF IInv, TypeOK
<1>3. /\ \A n \in sent : n.group \in Nat /\ n.object \in Nat
      /\ groupId \in Nat /\ objectId \in Nat
  BY DEF IInv, TypeOK, Name, GroupIds, ObjectIds
<1>4. Covered'
  BY <1>1, <1>3, TakeNameStep DEF IInv, Covered
<1>5. NamesIdentifyObjects'
  BY <1>1 DEF IInv, NamesIdentifyObjects, TakeName
<1> QED
  BY <1>1, <1>2, <1>4, <1>5, TakeNameStep DEF IInv

LEMMA ConstructStep ==
    ASSUME IInv, Construct
    PROVE  IInv'
<1>1. clock \in Nat /\ clock <= MaxClock /\ clock \in 0 .. GroupModulus - 1
      /\ constructed \in Nat /\ groups \in Nat
  BY NamingAssumption DEF IInv, TypeOK
<1>2. groupId' = clock
  BY <1>1, NamingAssumption, SmallMod DEF Construct
<1>3. 0 \in ObjectIds
  BY NamingAssumption DEF ObjectIds
<1>4. TypeOK'
  BY <1>1, <1>2, <1>3 DEF Construct, IInv, TypeOK, GroupIds
<1>5. Counted'
  BY <1>1, <1>2 DEF Construct, Counted
<1>6. Covered'
  <2> SUFFICES ASSUME ~wrapped', ~outpaced', NEW n \in sent'
               PROVE  n.group < groupId'
    BY DEF Covered
  <2>1. ~wrapped /\ ~outpaced /\ n \in sent /\ ~(clock <= constructed + groups)
    BY DEF Construct
  <2>2. n.group <= groupId /\ groupId = constructed + groups /\ n.group \in Nat
    BY <2>1 DEF IInv, Covered, Counted, TypeOK, Name, GroupIds
  <2> QED
    BY <1>1, <1>2, <2>1, <2>2
<1>7. NamesIdentifyObjects'
  BY DEF Construct, IInv, NamesIdentifyObjects
<1> QED
  BY <1>4, <1>5, <1>6, <1>7 DEF IInv

LEMMA OtherSteps ==
    ASSUME IInv, ReadsNoExpiry \/ Tick \/ UNCHANGED vars
    PROVE  IInv'
<1>1. /\ UNCHANGED <<groupId, objectId, hasExpiry, sframe, sent, publishes,
                     constructed, groups, reused, wrapped, outpaced>>
      /\ alive' \in BOOLEAN
      /\ clock' \in clock .. MaxClock
  <2>1. clock \in clock .. MaxClock /\ alive \in BOOLEAN
    BY NamingAssumption DEF IInv, TypeOK
  <2>2. CASE ReadsNoExpiry
    BY <2>1, <2>2 DEF ReadsNoExpiry, members, history
  <2>3. CASE Tick
    <3>1. clock + 1 \in clock .. MaxClock
      BY <2>3, NamingAssumption DEF Tick, IInv, TypeOK
    <3> QED
      BY <2>1, <2>3, <3>1 DEF Tick, members, history
  <2>4. CASE UNCHANGED vars
    BY <2>1, <2>4 DEF vars, members, history
  <2> QED
    BY <2>2, <2>3, <2>4
<1>2. TypeOK'
  BY <1>1 DEF IInv, TypeOK
<1> QED
  BY <1>1, <1>2 DEF IInv, Counted, Covered, NamesIdentifyObjects

\* The invariant holds in every reachable state.
THEOREM NamingInvariance == Spec => []IInv
<1>1. IInv /\ [Next]_vars => IInv'
  BY PublishStep, EncryptFailsStep, ConstructStep, OtherSteps DEF Next
<1> QED
  BY InitIInv, <1>1, PTL DEF Spec

\* The counters stay within 32 and 16 bits, whatever the modulus.
THEOREM NamingTypeCorrect == Spec => []TypeOK
<1>1. IInv => TypeOK
  BY DEF IInv
<1> QED
  BY NamingInvariance, <1>1, PTL

\* Unless a counter wrapped or a delegate was rebuilt before the clock had
\* passed its predecessor's groups, publishNamedObject never names two
\* objects of a namespace alike, nor uses an sframe counter twice.
THEOREM NamesAreUnique == Spec => []NamesIdentifyObjects
<1>1. IInv => NamesIdentifyObjects
  BY DEF IInv
<1> QED
  BY NamingInvariance, <1>1, PTL

-----------------------------------------------------------------------------
(***************************************************************************)
(* The path: the gap counters of the subscriber never grow by more than    *)
(* the objects missed and the publishers built in between.                 *)
(***************************************************************************)
\* A publisher may give name b right after name a, and with one in between.
Follows(a, b) ==
    \/ b.group = a.group /\ b.object = (a.object + 1) % ObjectModulus
    \/ b.group = (a.group + 1) % GroupModulus /\ b.object = 0

SkipsOne(a, b) == b.object = 0 \/ b.group \in {a.group, (a.group + 1) % GroupModulus}

\* Objects are published at the position and by the publisher that is reached.
PublishedOK ==
    \A m \in network : m.position <= publishes /\ m.incarnation <= constructions

\* The subscriber holds the name of the object that arrived last.
LastOK ==
    last # NothingYet =>
        /\ last \in network
        /\ currentGroupId = last.name.group /\ currentObjectId = last.name.object

\* What lies between an object published and the publisher's counters...
CountersOK ==
    \A m \in network :
        /\ m.incarnation = constructions /\ m.position = publishes =>
              m.name = [group |-> groupId, object |-> objectId]
        /\ m.incarnation = constructions /\ m.position + 1 = publishes =>
              Follows(m.name, [group |-> groupId, object |-> objectId])
        /\ m.incarnation + 1 = constructions /\ m.position = publishes => objectId = 0

\* ... and between two objects, when nothing or one thing does.
PairsOK ==
    \A a, b \in network : a.position < b.position =>
        /\ a.incarnation <= b.incarnation
        /\ b.incarnation = a.incarnation /\ b.position = a.position + 1 =>
              Follows(a.name, b.name)
        /\ b.incarnation = a.incarnation /\ b.position = a.position + 2 =>
              SkipsOne(a.name, b.name)
        /\ b.incarnation = a.incarnation + 1 /\ b.position = a.position + 1 =>
              b.name.object <= 1

(***************************************************************************)
(* The inductive invariant, which rests on that of PublicationDelegate.    *)
(***************************************************************************)
PathIInv ==
    /\ IInv
    /\ PathTypeOK
    /\ PublishedOK
    /\ LastOK
    /\ CountersOK
    /\ PairsOK

-----------------------------------------------------------------------------
\* The types of what an object records, and of the publisher's counters.
LEMMA ObjectTypes ==
    ASSUME PathIInv, NEW m \in network
    PROVE  /\ m.position \in Nat /\ m.position >= 1 /\ m.incarnation \in Nat
           /\ m.name.group \in GroupIds /\ m.name.object \in ObjectIds
           /\ m.position <= publishes /\ m.incarnation <= constructions
           /\ publishes \in Nat /\ constructions \in Nat
<1>1. m \in Object
  BY DEF PathIInv, PathTypeOK
<1>2. m.position \in 1 .. MaxPublishes /\ m.incarnation \in Nat /\ m.name \in Name
  BY <1>1 DEF Object
<1> QED
  BY <1>2, NamingAssumption DEF PathIInv, PathTypeOK, PublishedOK, IInv, TypeOK, Name

\* An object published before TakeName: the next name follows the last one.
LEMMA NextFollows ==
    ASSUME PathIInv, NEW groupFlag \in BOOLEAN, TakeName(groupFlag),
           NEW m \in network
    PROVE  /\ m.position < publishes'
           /\ m.incarnation = constructions /\ m.position + 1 = publishes' =>
                 Follows(m.name, [group |-> groupId', object |-> objectId'])
<1>1. publishes' = publishes + 1 /\ publishes \in Nat
      /\ groupId' = NextGroup(groupFlag) /\ objectId' = NextObject(groupFlag)
  BY DEF TakeName, PathIInv, IInv, TypeOK
<1>2. m.position < publishes'
  BY <1>1, ObjectTypes
<1>3. ASSUME m.incarnation = constructions, m.position + 1 = publishes'
      PROVE  Follows(m.name, [group |-> groupId', object |-> objectId'])
  <2>1. m.position = publishes
    BY <1>1, <1>3, ObjectTypes
  <2>2. m.name = [group |-> groupId, object |-> objectId]
    BY <1>3, <2>1 DEF PathIInv, CountersOK
  <2> QED
    BY <1>1, <2>2 DEF Follows, NextGroup, NextObject
<1> QED
  BY <1>2, <1>3

LEMMA PathInitIInv == PathInit => PathIInv
<1> SUFFICES ASSUME PathInit PROVE PathIInv
  OBVIOUS
<1>1. IInv
  BY InitIInv DEF PathInit
<1>2. 0 \in 0 .. GroupModulus - 1 /\ ObjectModulus - 1 \in 0 .. ObjectModulus - 1
  BY NamingAssumption
<1>3. Sub!TypeOK
  BY <1>2 DEF PathInit, Sub!Init, Sub!TypeOK, Sub!Counter, Sub!CounterModulus
<1>4. PathTypeOK
  BY <1>3 DEF PathInit, PathTypeOK, Sub!Init
<1> QED
  BY <1>1, <1>4
     DEF PathInit, PathIInv, PublishedOK, LastOK, CountersOK, PairsOK

\* An object sent carries the counters' new values, at the position reached.
LEMMA SendStep ==
    ASSUME PathIInv, NEW groupFlag \in BOOLEAN, Send(groupFlag)
    PROVE  PathIInv'
<1> DEFINE b == [name |-> NextName(groupFlag), position |-> publishes',
                 incarnation |-> constructions]
<1>1. /\ Publish(groupFlag) /\ TakeName(groupFlag)
      /\ network' = network \cup {b}
      /\ sent' = sent \cup {NextName(groupFlag)}
      /\ UNCHANGED <<subscriberVars, constructions, last>>
  BY DEF Send, Publish
<1>2. /\ publishes' = publishes + 1 /\ publishes \in Nat /\ publishes < MaxPublishes
      /\ groupId' = NextGroup(groupFlag) /\ objectId' = NextObject(groupFlag)
  BY <1>1 DEF TakeName, PathIInv, IInv, TypeOK
<1>3. IInv'
  BY <1>1, PublishStep DEF PathIInv
<1>4. b.name = [group |-> groupId', object |-> objectId']
      /\ b.position = publishes' /\ b.incarnation = constructions
  BY <1>2 DEF NextName
<1>5. b \in Object
  <2>1. b.name \in Name
    BY <1>3, <1>4 DEF IInv, TypeOK, Name
  <2>2. publishes' \in 1 .. MaxPublishes
    BY <1>2, NamingAssumption
  <2> QED
    BY <2>1, <2>2, <1>4 DEF PathIInv, PathTypeOK, Object
<1>6. PathTypeOK'
  <2>1. Sub!TypeOK'
    BY <1>1 DEF PathIInv, PathTypeOK, subscriberVars, Sub!TypeOK
  <2>2. forwarded' = forwarded
    BY <1>1 DEF subscriberVars
  <2> QED
    BY <1>1, <1>5, <2>1, <2>2 DEF PathIInv, PathTypeOK
<1>7. PublishedOK'
  <2>1. \A m \in network : m.position <= publishes' /\ m.incarnation <= constructions
    BY <1>2, ObjectTypes
  <2> QED
    BY <1>1, <1>2, <1>4, <2>1, ObjectTypes DEF PublishedOK, PathIInv, PathTypeOK
<1>8. LastOK'
  BY <1>1 DEF PathIInv, LastOK, subscriberVars
<1>9. CountersOK'
  <2> SUFFICES ASSUME NEW m \in network'
               PROVE  /\ m.incarnation = constructions /\ m.position = publishes' =>
                            m.name = [group |-> groupId', object |-> objectId']
                      /\ m.incarnation = constructions /\ m.position + 1 = publishes' =>
                            Follows(m.name, [group |-> groupId', object |-> objectId'])
                      /\ ~(m.incarnation + 1 = constructions /\ m.position = publishes')
    BY <1>1 DEF CountersOK
  <2>1. CASE m \in network
    BY <1>1, <1>2, <2>1, NextFollows, ObjectTypes
  <2>2. CASE m = b
    BY <1>2, <1>4, <2>2 DEF PathIInv, PathTypeOK
  <2> QED
    BY <1>1, <2>1, <2>2
<1>10. PairsOK'
  <2>1. ASSUME NEW a \in network
        PROVE  /\ a.position < b.position /\ a.incarnation <= b.incarnation
               /\ b.incarnation = a.incarnation /\ b.position = a.position + 1 =>
                     Follows(a.name, b.name)
               /\ b.incarnation = a.incarnation /\ b.position = a.position + 2 =>
                     SkipsOne(a.name, b.name)
               /\ b.incarnation = a.incarnation + 1 /\ b.position = a.position + 1 =>
                     b.name.object <= 1
    <3>1. /\ a.position < b.position /\ a.incarnation <= b.incarnation
          /\ b.incarnation = a.incarnation /\ b.position = a.position + 1 =>
                Follows(a.name, b.name)
      BY <1>1, <1>4, <2>1, NextFollows, ObjectTypes
    <3>2. ASSUME b.incarnation = a.incarnation, b.position = a.position + 2
          PROVE  SkipsOne(a.name, b.name)
      <4>1. a.position + 1 = publishes
        BY <1>2, <1>4, <3>2, <2>1, ObjectTypes
      <4>2. Follows(a.name, [group |-> groupId, object |-> objectId])
        BY <1>4, <2>1, <3>2, <4>1 DEF PathIInv, CountersOK
      <4> QED
        BY <1>2, <1>4, <4>2 DEF Follows, SkipsOne, NextGroup, NextObject
    <3>3. ASSUME b.incarnation = a.incarnation + 1, b.position = a.position + 1
          PROVE  b.name.object <= 1
      <4>1. a.position = publishes
        BY <1>2, <1>4, <3>3, <2>1, ObjectTypes
      <4>2. objectId = 0
        BY <1>4, <2>1, <3>3, <4>1 DEF PathIInv, CountersOK
      <4>3. b.name.object \in {0, (0 + 1) % ObjectModulus}
        BY <1>2, <1>4, <4>2 DEF NextObject
      <4>4. (0 + 1) % ObjectModulus <= 1
        BY NamingAssumption
      <4> QED
        BY <4>3, <4>4
    <3> QED
      BY <3>1, <3>2, <3>3
  <2>2. \A m \in network : m.position \in Nat /\ b.position \in Nat
    BY <1>2, <1>4, ObjectTypes
  <2>3. \A m \in network : ~(b.position < m.position)
    BY <2>1, <2>2
  <2>4. ~(b.position < b.position)
    BY <1>2, <1>4
  <2> HIDE DEF b
  <2> QED
    BY <1>1, <2>1, <2>3, <2>4 DEF PathIInv, PairsOK
<1> QED
  BY <1>3, <1>6, <1>7, <1>8, <1>9, <1>10 DEF PathIInv

\* A step that sends nothing and receives nothing keeps the objects' part.
LEMMA QuietStep ==
    ASSUME PathIInv, IInv',
           UNCHANGED <<subscriberVars, network, last, sent>>,
           publishes' \in Nat, publishes' >= publishes,
           constructions' \in Nat, constructions' >= constructions,
           CountersOK'
    PROVE  PathIInv'
<1>1. Sub!TypeOK' /\ forwarded' = forwarded
  BY DEF PathIInv, PathTypeOK, subscriberVars, Sub!TypeOK
<1>2. PathTypeOK'
  BY <1>1 DEF PathIInv, PathTypeOK
<1>3. PublishedOK'
  BY ObjectTypes DEF PublishedOK
<1>4. LastOK'
  BY DEF PathIInv, LastOK, subscriberVars
<1>5. PairsOK'
  BY DEF PathIInv, PairsOK
<1> QED
  BY <1>2, <1>3, <1>4, <1>5 DEF PathIInv

\* A name is lost: it lies between the objects before and after it.
LEMMA SendFailsStep ==
    ASSUME PathIInv, NEW groupFlag \in BOOLEAN, SendFails(groupFlag)
    PROVE  PathIInv'
<1>1. /\ EncryptFails(groupFlag) /\ TakeName(groupFlag)
      /\ UNCHANGED <<subscriberVars, network, constructions, last, sent>>
  BY DEF SendFails, EncryptFails
<1>2. publishes' = publishes + 1 /\ publishes \in Nat /\ constructions \in Nat
  BY <1>1 DEF TakeName, PathIInv, PathTypeOK, IInv, TypeOK
<1>3. IInv'
  BY <1>1, EncryptFailsStep DEF PathIInv
<1>4. CountersOK'
  <2>1. ASSUME NEW m \in network
        PROVE  /\ m.position < publishes' /\ m.position \in Nat
               /\ m.incarnation = constructions /\ m.position + 1 = publishes' =>
                     Follows(m.name, [group |-> groupId', object |-> objectId'])
    BY <1>1, NextFollows, ObjectTypes
  <2>2. \A m \in network : m.position # publishes'
    BY <1>2, <2>1
  <2> QED
    BY <1>1, <2>1, <2>2 DEF CountersOK
<1> QED
  BY <1>1, <1>2, <1>3, <1>4, QuietStep

\* A publisher built anew starts its group at object 0.
LEMMA RestartStep ==
    ASSUME PathIInv, Restart
    PROVE  PathIInv'
<1>1. /\ Construct /\ constructions' = constructions + 1 /\ objectId' = 0
      /\ UNCHANGED <<subscriberVars, network, last, sent, publishes>>
  BY DEF Restart, Construct
<1>2. publishes \in Nat /\ constructions \in Nat
  BY DEF PathIInv, PathTypeOK, IInv, TypeOK
<1>3. IInv'
  BY <1>1, ConstructStep DEF PathIInv
<1>4. CountersOK'
  <2>1. \A m \in network : m.incarnation # constructions'
    BY <1>1, <1>2, ObjectTypes
  <2> QED
    BY <1>1, <2>1 DEF CountersOK
<1> QED
  BY <1>1, <1>2, <1>3, <1>4, QuietStep

LEMMA PublisherElseStep ==
    ASSUME PathIInv, PublisherElse \/ UNCHANGED pathVars
    PROVE  PathIInv'
<1>1. ReadsNoExpiry \/ Tick \/ UNCHANGED vars
  BY DEF PublisherElse, pathVars, publisherVars
<1>2. IInv'
  BY <1>1, OtherSteps DEF PathIInv
<1>3. UNCHANGED <<groupId, objectId, sent, publishes>>
  BY <1>1 DEF ReadsNoExpiry, Tick, vars, members, history
<1>4. UNCHANGED <<subscriberVars, network, constructions, last>>
  BY DEF PublisherElse, pathVars
<1>5. CountersOK'
  BY <1>3, <1>4 DEF PathIInv, CountersOK
<1>6. publishes \in Nat /\ constructions \in Nat
  BY DEF PathIInv, PathTypeOK, IInv, TypeOK
<1> QED
  BY <1>2, <1>3, <1>4, <1>5, <1>6, QuietStep

\* A counter of the subscriber stays one.
LEMMA BumpType ==
    ASSUME NEW counter \in Sub!Counter, NEW condition
    PROVE  Sub!Bump(counter, condition) \in Sub!Counter
<1>1. counter \in 0 .. 1
  BY DEF Sub!Counter, Sub!CounterModulus
<1>2. (counter + 1) % 2 \in 0 .. 1
  BY <1>1
<1> QED
  BY <1>1, <1>2 DEF Sub!Bump, Sub!Counter, Sub!CounterModulus

LEMMA DeliverStep ==
    ASSUME PathIInv, NEW m \in network, Deliver(m)
    PROVE  PathIInv'
<1>1. /\ Sub!Count(m.name) /\ decrypts' = decrypts
      /\ forwarded' \in {m.name, forwarded}
      /\ last' = m
      /\ UNCHANGED <<publisherVars, network, constructions>>
  BY DEF Deliver, Sub!OnSubscribedObject, Sub!Forward, Sub!DecryptFails
<1>2. IInv'
  BY <1>1, OtherSteps DEF PathIInv, publisherVars
<1>3. /\ currentGroupId' = m.name.group /\ currentObjectId' = m.name.object
  BY <1>1 DEF Sub!Count
<1>4. UNCHANGED <<sent, publishes, groupId, objectId>>
  BY <1>1 DEF publisherVars, vars, members, history
<1>5. m.name \in sent /\ m \in Object
  BY DEF PathIInv, PathTypeOK
<1>6. m.name \in Name
  BY <1>5 DEF Object
<1>7. Sub!TypeOK'
  <2>1. /\ groupCount' \in Sub!Counter /\ objectCount' \in Sub!Counter
        /\ groupGapCount' \in Sub!Counter /\ objectGapCount' \in Sub!Counter
    BY <1>1, BumpType DEF Sub!Count, PathIInv, PathTypeOK, Sub!TypeOK
  <2>2. currentGroupId' \in 0 .. GroupModulus - 1 /\ currentObjectId' \in 0 .. ObjectModulus - 1
    BY <1>3, <1>6 DEF Name, GroupIds, ObjectIds
  <2>3. forwarded' \in Sub!Name \cup {Sub!NoName}
    BY <1>1, <1>6 DEF Sub!Name, Name, GroupIds, ObjectIds, PathIInv, PathTypeOK, Sub!TypeOK
  <2> QED
    BY <1>1, <2>1, <2>2, <2>3 DEF PathIInv, PathTypeOK, Sub!TypeOK
<1>8. PathTypeOK'
  BY <1>1, <1>4, <1>5, <1>7 DEF PathIInv, PathTypeOK
<1>9. PublishedOK' /\ CountersOK' /\ PairsOK'
  BY <1>1, <1>4 DEF PathIInv, PublishedOK, CountersOK, PairsOK
<1>10. LastOK'
  BY <1>1, <1>3 DEF LastOK
<1> QED
  BY <1>2, <1>8, <1>9, <1>10 DEF PathIInv

\* The invariant holds in every reachable state.
THEOREM PathInvariance == PathSpec => []PathIInv
<1>1. PathIInv /\ [PathNext]_pathVars => PathIInv'
  BY SendStep, SendFailsStep, RestartStep, PublisherElseStep, DeliverStep DEF PathNext
<1> QED
  BY PathInitIInv, <1>1, PTL DEF PathSpec

\* The subscriber is well-typed, its name is that of the object that arrived
\* last, and nothing reaches it or the application that was not published.
THEOREM PathTypeCorrect == PathSpec => []PathTypeOK
<1>1. PathIInv => PathTypeOK
  BY DEF PathIInv
<1> QED
  BY PathInvariance, <1>1, PTL

-----------------------------------------------------------------------------
\* The object after the one the subscriber holds opens no gap.
LEMMA FollowingOpensNoGap ==
    ASSUME PathIInv, last # NothingYet, NEW name \in Name, Follows(last.name, name)
    PROVE  ~Sub!GroupGap(name) /\ ~Sub!ObjectGap(name)
<1>1. /\ currentGroupId = last.name.group /\ currentObjectId = last.name.object
      /\ last \in network
  BY DEF PathIInv, LastOK
<1>2. currentGroupId \in 0 .. GroupModulus - 1 /\ currentObjectId \in 0 .. ObjectModulus - 1
  BY <1>1, ObjectTypes DEF GroupIds, ObjectIds
<1>3. CASE name.group = currentGroupId /\ name.object = (currentObjectId + 1) % ObjectModulus
  <2>1. ~Sub!NewGroup(name)
    BY <1>2, <1>3 DEF Sub!NewGroup
  <2>2. ~Sub!GroupGap(name)
    BY <2>1 DEF Sub!GroupGap
  <2>3. (currentObjectId + 1) % ObjectModulus \in 0 .. currentObjectId + 1
    BY <1>2, NamingAssumption
  <2>4. ~(name.object > currentObjectId + 1)
    BY <1>2, <1>3, <2>3
  <2> QED
    BY <2>2, <2>4 DEF Sub!ObjectGap, Sub!Before
<1>4. CASE name.group = (currentGroupId + 1) % GroupModulus /\ name.object = 0
  <2>1. (currentGroupId + 1) % GroupModulus \in Nat
    BY <1>2, NamingAssumption
  <2> QED
    BY <1>2, <1>4, <2>1 DEF Sub!GroupGap, Sub!ObjectGap, Sub!Before
<1> QED
  BY <1>1, <1>3, <1>4 DEF Follows

\* After one object missed, or one publisher built, one counter grows at most.
LEMMA OneMissedOpensOneGap ==
    ASSUME PathIInv, last # NothingYet, NEW name \in Name,
           SkipsOne(last.name, name) \/ name.object <= 1
    PROVE  ~Sub!GroupGap(name) \/ ~Sub!ObjectGap(name)
<1>1. /\ currentGroupId = last.name.group /\ currentObjectId = last.name.object
      /\ last \in network
  BY DEF PathIInv, LastOK
<1>2. currentGroupId \in 0 .. GroupModulus - 1 /\ currentObjectId \in 0 .. ObjectModulus - 1
  BY <1>1, ObjectTypes DEF GroupIds, ObjectIds
<1>3. name.object \in Nat
  BY DEF Name, ObjectIds
<1>4. CASE name.object <= 1
  BY <1>2, <1>3, <1>4 DEF Sub!ObjectGap, Sub!Before
<1>5. CASE name.group \in {currentGroupId, (currentGroupId + 1) % GroupModulus}
  <2>1. (currentGroupId + 1) % GroupModulus \in Nat
    BY <1>2, NamingAssumption
  <2> QED
    BY <1>2, <1>5, <2>1 DEF Sub!GroupGap, Sub!NewGroup
<1> QED
  BY <1>1, <1>3, <1>4, <1>5 DEF SkipsOne

\* A gap counter only grows when its gap is seen.
LEMMA GrownByGap ==
    ASSUME NEW m \in network, Deliver(m)
    PROVE  /\ Grown(groupGapCount) \in {0, 1} /\ Grown(objectGapCount) \in {0, 1}
           /\ ~Sub!GroupGap(m.name) => Grown(groupGapCount) = 0
           /\ ~Sub!ObjectGap(m.name) => Grown(objectGapCount) = 0
  BY DEF Deliver, Sub!OnSubscribedObject, Sub!Forward, Sub!DecryptFails,
         Sub!Count, Sub!Bump, Grown

LEMMA InOrderStep ==
    ASSUME PathIInv, [PathNext]_pathVars, InOrder
    PROVE  Grown(groupGapCount) + Grown(objectGapCount) <=
              (last'.position - last.position - 1)
                + (last'.incarnation - last.incarnation)
<1>1. last' # last
  <2>1. last \in Object \cup {NothingYet} /\ last # NothingYet
    BY DEF PathIInv, PathTypeOK, InOrder, NothingYet
  <2>2. last.position \in Nat
    BY <2>1, NamingAssumption DEF Object
  <2> QED
    BY <2>2 DEF InOrder
<1>2. PICK m \in network : Deliver(m)
  BY <1>1 DEF PathNext, pathVars, Send, SendFails, Restart, PublisherElse
<1>3. last' = m /\ last # NothingYet /\ last \in network
  BY <1>2 DEF Deliver, InOrder, NothingYet, PathIInv, LastOK
<1> DEFINE objects == m.position - last.position - 1
           builds == m.incarnation - last.incarnation
           growth == Grown(groupGapCount) + Grown(objectGapCount)
<1>4. m.name \in Name
  BY DEF PathIInv, PathTypeOK, Object
<1>5. objects \in Nat /\ builds \in Nat
  BY <1>3, ObjectTypes DEF InOrder, PathIInv, PairsOK
<1>6. /\ objects = 0 => m.position = last.position + 1
      /\ objects = 1 => m.position = last.position + 2
      /\ builds = 0 => m.incarnation = last.incarnation
      /\ builds = 1 => m.incarnation = last.incarnation + 1
  BY <1>3, ObjectTypes
<1>7. last.position < m.position
  BY <1>3, ObjectTypes DEF InOrder
<1>8. /\ objects = 0 /\ builds = 0 => Follows(last.name, m.name)
      /\ objects = 1 /\ builds = 0 => SkipsOne(last.name, m.name)
      /\ objects = 0 /\ builds = 1 => m.name.object <= 1
  BY <1>3, <1>6, <1>7 DEF PathIInv, PairsOK
<1>9. CASE objects = 0 /\ builds = 0
  <2>1. ~Sub!GroupGap(m.name) /\ ~Sub!ObjectGap(m.name)
    BY <1>3, <1>4, <1>8, <1>9, FollowingOpensNoGap
  <2> QED
    BY <1>2, <1>3, <1>9, <2>1, GrownByGap
<1>10. CASE \/ objects = 1 /\ builds = 0
            \/ objects = 0 /\ builds = 1
  <2>1. ~Sub!GroupGap(m.name) \/ ~Sub!ObjectGap(m.name)
    BY <1>3, <1>4, <1>8, <1>10, OneMissedOpensOneGap
  <2>2. growth <= 1
    BY <1>2, <2>1, GrownByGap
  <2> QED
    BY <1>3, <1>10, <2>2
<1>11. CASE objects + builds >= 2
  <2>1. growth <= 2
    BY <1>2, GrownByGap
  <2> QED
    BY <1>3, <1>5, <1>11, <2>1, GrownByGap, <1>2
<1>12. \/ objects = 0 /\ builds = 0
       \/ objects = 1 /\ builds = 0
       \/ objects = 0 /\ builds = 1
       \/ objects + builds >= 2
  <2> HIDE DEF objects, builds
  <2> QED
    BY <1>5
<1> QED
  BY <1>9, <1>10, <1>11, <1>12

\* The gap counts of onSubscribedObject never cry wolf, whatever the transport
\* does and whatever the widths of the counters, wrapped or not.
THEOREM GapsCountLosses == PathSpec => GapsAreLosses
<1>1. PathIInv /\ [PathNext]_pathVars =>
        [InOrder =>
           Grown(groupGapCount) + Grown(objectGapCount) <=
              (last'.position - last.position - 1)
                + (last'.incarnation - last.incarnation)]_pathVars
  BY InOrderStep
<1> QED
  BY PathInvariance, <1>1, PTL DEF PathSpec, GapsAreLosses

-----------------------------------------------------------------------------
\* The publisher of the path is a PublicationDelegate: every step of the path
\* is a step of the delegate, or leaves it alone.
THEOREM PathRunsPublisher == PathSpec => Spec
<1>1. PathInit => Init
  BY DEF PathInit
<1>2. [PathNext]_pathVars => [Next]_vars
  BY DEF PathNext, pathVars, publisherVars, Send, SendFails, Restart, PublisherElse,
         Deliver, Next
<1> QED
  BY <1>1, <1>2, PTL DEF PathSpec, Spec

\* So on the path, too, no two objects get one name unless a counter wraps or
\* a publisher is rebuilt too early.
THEOREM PathNamesAreUnique == PathSpec => []NamesIdentifyObjects
  BY PathRunsPublisher, NamesAreUnique, PTL
=============================================================================
