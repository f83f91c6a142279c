------------------------- MODULE PublicationDelegate -------------------------
(***************************************************************************)
(* qmedia::PublicationDelegate (src/src/QuicrDelegates.cpp): the names it  *)
(* gives the objects of one namespace.  A name is the namespace, the group *)
(* and the object; its last two parts are also the sframe counter, under a *)
(* key that only depends on the namespace (Fixed_Epoch).  A delegate is    *)
(* built anew when the program or its QController is, and starts at the    *)
(* wall clock; QController::publishNamedObject holds pubsMutex around      *)
(* publishNamedObject, so a call is one step.                              *)
(***************************************************************************)
EXTENDS Naturals

CONSTANTS
    GroupModulus,   \* 2^32: groupId is a uint32_t
    ObjectModulus,  \* 2^16: objectId is a uint16_t
    MaxClock,       \* bound: seconds
    MaxPublishes    \* bound: calls of publishNamedObject that get a name

ASSUME NamingAssumption ==
    /\ GroupModulus \in Nat \ {0}
    /\ ObjectModulus \in Nat \ {0}
    /\ MaxClock \in Nat
    /\ MaxClock < GroupModulus          \* until 2106
    /\ MaxPublishes \in Nat

VARIABLES
    \* Members of PublicationDelegate.
    groupId,
    objectId,
    hasExpiry,          \* FALSE: its profile gave no expiry
    sframe,             \* whether sframe_context was built
    \* The environment.
    alive,              \* FALSE: the process died, no delegate exists
    clock,              \* time(nullptr)
    sent,               \* names handed to the client
    publishes,          \* names consumed so far
    \* History.
    constructed,        \* the clock when the delegate was built
    groups,             \* groups it started since
    reused,             \* a name was handed to the client again
    wrapped,            \* a counter of some delegate went back to 0
    outpaced            \* one was rebuilt before the clock passed its groups

members == <<groupId, objectId, hasExpiry, sframe>>
history == <<constructed, groups, reused, wrapped, outpaced>>
vars == <<members, alive, clock, sent, publishes, history>>

GroupIds == 0 .. GroupModulus - 1
ObjectIds == 0 .. ObjectModulus - 1
Name == [group : GroupIds, object : ObjectIds]

(***************************************************************************)
(* TypeOK: the counters keep their width, and no delegate was built in the *)
(* future.                                                                 *)
(***************************************************************************)
TypeOK ==
    /\ groupId \in GroupIds
    /\ objectId \in ObjectIds
    /\ hasExpiry \in BOOLEAN
    /\ sframe \in BOOLEAN
    /\ alive \in BOOLEAN
    /\ clock \in 0 .. MaxClock
    /\ sent \subseteq Name
    /\ publishes \in Nat
    /\ constructed \in 0 .. clock
    /\ groups \in Nat
    /\ reused \in BOOLEAN
    /\ wrapped \in BOOLEAN
    /\ outpaced \in BOOLEAN

\* groupId(time(nullptr)), objectId(0), in the constructor.
Init ==
    /\ clock = 0
    /\ groupId = clock
    /\ objectId = 0
    /\ hasExpiry \in BOOLEAN
    /\ sframe \in BOOLEAN
    /\ alive = TRUE
    /\ sent = {}
    /\ publishes = 0
    /\ constructed = clock
    /\ groups = 0
    /\ reused = FALSE
    /\ wrapped = FALSE
    /\ outpaced = FALSE

-----------------------------------------------------------------------------
(***************************************************************************)
(* Plausible mistakes, for the mutation runs: a group flag that only       *)
(* resets the object, and unsigned counters that do not wrap.              *)
(***************************************************************************)
GroupKept(groupFlag) == groupId                                \* NextGroup
ObjectUnbounded(groupFlag) ==                                  \* NextObject
    IF groupFlag THEN 0 ELSE objectId + 1

\* The name of the next object: ++groupId and 0, or groupId and ++objectId.
NextGroup(groupFlag) ==
    IF groupFlag THEN (groupId + 1) % GroupModulus ELSE groupId

NextObject(groupFlag) ==
    IF groupFlag THEN 0 ELSE (objectId + 1) % ObjectModulus

NextName(groupFlag) ==
    [group |-> NextGroup(groupFlag), object |-> NextObject(groupFlag)]

Wraps(groupFlag) ==
    IF groupFlag THEN groupId + 1 = GroupModulus ELSE objectId + 1 = ObjectModulus

(***************************************************************************)
(* publishNamedObject up to the name; without data or client it returns    *)
(* before, and nothing changes.  The counters advance whatever follows.    *)
(***************************************************************************)
TakeName(groupFlag) ==
    /\ alive
    /\ publishes < MaxPublishes
    /\ publishes' = publishes + 1
    /\ groupId' = NextGroup(groupFlag)
    /\ objectId' = NextObject(groupFlag)
    /\ groups' = IF groupFlag THEN groups + 1 ELSE groups
    /\ wrapped' = (wrapped \/ Wraps(groupFlag))
    /\ UNCHANGED <<hasExpiry, sframe, alive, clock, constructed, outpaced>>

\* The client takes the object; it may throw afterwards, which is logged.
Publish(groupFlag) ==
    /\ TakeName(groupFlag)
    /\ sent' = sent \cup {NextName(groupFlag)}
    /\ reused' = (reused \/ NextName(groupFlag) \in sent)

\* protect throws: the name is lost.
EncryptFails(groupFlag) ==
    /\ sframe
    /\ TakeName(groupFlag)
    /\ UNCHANGED <<sent, reused>>

\* expiry[0] of an empty vector: undefined, so the process may die here,
\* before the counters move.  It may as well read a value nobody looks at.
ReadsNoExpiry ==
    /\ alive
    /\ ~hasExpiry
    /\ alive' = FALSE
    /\ UNCHANGED <<members, clock, sent, publishes, history>>

\* A new delegate for the namespace, in a new program or controller.
Construct ==
    /\ groupId' = clock % GroupModulus
    /\ objectId' = 0
    /\ hasExpiry' \in BOOLEAN
    /\ sframe' \in BOOLEAN
    /\ alive' = TRUE
    /\ constructed' = clock
    /\ groups' = 0
    /\ outpaced' = (outpaced \/ clock <= constructed + groups)
    /\ UNCHANGED <<clock, sent, publishes, reused, wrapped>>

Tick ==
    /\ clock < MaxClock
    /\ clock' = clock + 1
    /\ UNCHANGED <<members, alive, sent, publishes, history>>

Next ==
    \/ \E groupFlag \in BOOLEAN : Publish(groupFlag) \/ EncryptFails(groupFlag)
    \/ ReadsNoExpiry
    \/ Construct
    \/ Tick

Spec == Init /\ [][Next]_vars

-----------------------------------------------------------------------------
(***************************************************************************)
(* A name, and with it an sframe counter, is given to one object only:     *)
(* over all delegates of the namespace, across restarts and failures, as   *)
(* long as no group has 2^16 objects, no group number passes 2^32 and no   *)
(* delegate is rebuilt before the clock passed the groups of the last one  *)
(* (one group per second at most).                                         *)
(***************************************************************************)
NamesIdentifyObjects == reused => wrapped \/ outpaced
=============================================================================
