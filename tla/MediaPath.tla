------------------------------ MODULE MediaPath ------------------------------
(***************************************************************************)
(* The objects of one namespace from a PublicationDelegate to a            *)
(* SubscriptionDelegate: publishNamedObject names an object, the client,   *)
(* the relay and the transport carry it, or lose, delay, reorder or        *)
(* duplicate it, and onSubscribedObject counts it and forwards it.         *)
(*                                                                         *)
(* The publisher is PublicationDelegate, which this module extends with    *)
(* the rest of the path; the two delegates only share the names.  The      *)
(* transport is external; the transport modes of the manifest go from a    *)
(* reliable stream per track to unreliable datagrams, so nothing is        *)
(* assumed of it.                                                          *)
(***************************************************************************)
EXTENDS PublicationDelegate

CONSTANT MaxConstructions   \* bound: publishers built after the first

VARIABLES
    \* The subscriber, see SubscriptionDelegate.
    currentGroupId, currentObjectId, groupCount, objectCount, groupGapCount,
    objectGapCount, decrypts, forwarded,
    \* The transport: objects it was given, and how often a publisher was built.
    network,
    constructions,
    \* History: the last object that onSubscribedObject got.
    last

Sub == INSTANCE SubscriptionDelegate

publisherVars == vars
subscriberVars == <<currentGroupId, currentObjectId, groupCount, objectCount,
                    groupGapCount, objectGapCount, decrypts, forwarded>>
pathVars == <<publisherVars, subscriberVars, network, constructions, last>>

(***************************************************************************)
(* An object is known by when it took its name: position counts the names  *)
(* the publishers took, incarnation the delegates built.                   *)
(***************************************************************************)
Object == [name : Name, position : 1 .. MaxPublishes, incarnation : Nat]

NothingYet == [position |-> 0]

\* PathTypeOK: the subscriber is well-typed, and what arrives was published.
PathTypeOK ==
    /\ Sub!TypeOK
    /\ network \subseteq Object
    /\ constructions \in Nat
    /\ last \in Object \cup {NothingYet}
    /\ \A m \in network : m.name \in sent
    /\ forwarded \in sent \cup {Sub!NoName}

PathInit ==
    /\ Init
    /\ Sub!Init
    /\ network = {}
    /\ constructions = 0
    /\ last = NothingYet

-----------------------------------------------------------------------------
Send(groupFlag) ==
    /\ Publish(groupFlag)
    /\ network' = network \cup
          {[name |-> NextName(groupFlag), position |-> publishes',
            incarnation |-> constructions]}
    /\ UNCHANGED <<subscriberVars, constructions, last>>

SendFails(groupFlag) ==
    /\ EncryptFails(groupFlag)
    /\ UNCHANGED <<subscriberVars, network, constructions, last>>

Restart ==
    /\ constructions < MaxConstructions
    /\ Construct
    /\ constructions' = constructions + 1
    /\ UNCHANGED <<subscriberVars, network, last>>

PublisherElse ==
    /\ ReadsNoExpiry \/ Tick
    /\ UNCHANGED <<subscriberVars, network, constructions, last>>

\* Any object published may arrive next, again, or never.
Deliver(m) ==
    /\ Sub!OnSubscribedObject(m.name)
    /\ last' = m
    /\ UNCHANGED <<publisherVars, network, constructions>>

PathNext ==
    \/ \E groupFlag \in BOOLEAN : Send(groupFlag) \/ SendFails(groupFlag)
    \/ Restart
    \/ PublisherElse
    \/ \E m \in network : Deliver(m)

PathSpec == PathInit /\ [][PathNext]_pathVars

-----------------------------------------------------------------------------
Grown(counter) == IF counter' # counter THEN 1 ELSE 0

InOrder == last.position > 0 /\ last'.position > last.position

(***************************************************************************)
(* The gap counters never cry wolf: when an object arrives that was named  *)
(* after the last one that arrived, the two of them grow by no more than   *)
(* the objects named in between, which are lost, late or were never sent,  *)
(* and the publishers built in between, each of which jumps to the clock.  *)
(* The first arrival is not spoken of: it is compared with the initial 0   *)
(* and, a group being a time, counts a group gap though nothing was lost.  *)
(***************************************************************************)
GapsAreLosses ==
    [][InOrder =>
         Grown(groupGapCount) + Grown(objectGapCount) <=
            (last'.position - last.position - 1)
              + (last'.incarnation - last.incarnation)]_pathVars

(***************************************************************************)
(* The comment of onSubscribedObject marks "group=8, object=1" after       *)
(* "group=7, object=4" as an object gap: the first object seen of the next *)
(* group is not its object 0, and does not continue the last one either.   *)
(***************************************************************************)
MissedStartCounts ==
    [][/\ last.position > 0 /\ last' # last
       /\ currentGroupId' = currentGroupId + 1
       /\ currentObjectId' \in 1 .. currentObjectId
       => objectGapCount' # objectGapCount]_pathVars
=============================================================================
