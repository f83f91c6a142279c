------------------------ MODULE SubscriptionDelegate ------------------------
(***************************************************************************)
(* qmedia::SubscriptionDelegate (src/src/QuicrDelegates.cpp): what a       *)
(* subscriber counts from the names of the objects it receives.  The       *)
(* client calls onSubscribedObject from one thread, an object at a time.   *)
(*                                                                         *)
(* The four counters have no initialiser and start with any value, which   *)
(* nothing reads: they are counted from there, modulo 2, since a step adds *)
(* at most one and a property looks at one step.                           *)
(***************************************************************************)
EXTENDS Naturals

CONSTANTS
    GroupModulus,   \* 2^32
    ObjectModulus   \* 2^16

VARIABLES
    currentGroupId,
    currentObjectId,
    groupCount,
    objectCount,
    groupGapCount,
    objectGapCount,
    decrypts,           \* whether sframe_context was built
    forwarded           \* ids of the last subscribedObject of the application

counters == <<groupCount, objectCount, groupGapCount, objectGapCount>>
vars == <<currentGroupId, currentObjectId, counters, decrypts, forwarded>>

CounterModulus == 2
Counter == 0 .. CounterModulus - 1
Name == [group : 0 .. GroupModulus - 1, object : 0 .. ObjectModulus - 1]
NoName == [group |-> GroupModulus, object |-> ObjectModulus]

\* TypeOK: the ids keep their width and the application sees ids of names.
TypeOK ==
    /\ currentGroupId \in 0 .. GroupModulus - 1
    /\ currentObjectId \in 0 .. ObjectModulus - 1
    /\ groupCount \in Counter
    /\ objectCount \in Counter
    /\ groupGapCount \in Counter
    /\ objectGapCount \in Counter
    /\ decrypts \in BOOLEAN
    /\ forwarded \in Name \cup {NoName}

\* currentObjectId = -1 of a uint16_t is its largest value.
Init ==
    /\ currentGroupId = 0
    /\ currentObjectId = ObjectModulus - 1
    /\ groupCount = 0
    /\ objectCount = 0
    /\ groupGapCount = 0
    /\ objectGapCount = 0
    /\ decrypts \in BOOLEAN
    /\ forwarded = NoName

\* `++counter', when the condition holds.
Bump(counter, condition) ==
    IF condition THEN (counter + 1) % CounterModulus ELSE counter

(***************************************************************************)
(* The tests of onSubscribedObject.  currentGroupId + 1 is a uint32_t,     *)
(* currentObjectId + 1 an int, which does not wrap; a group gap sets       *)
(* currentObjectId to 0 before the object is looked at.                    *)
(***************************************************************************)
NewGroup(name) == name.group > currentGroupId

\* A plausible mistake for the mutation runs: the next group is a gap too.
AnyNewGroup(name) == NewGroup(name)                            \* GroupGap

GroupGap(name) ==
    NewGroup(name) /\ name.group > (currentGroupId + 1) % GroupModulus

Before(name) == IF GroupGap(name) THEN 0 ELSE currentObjectId

NewObject(name) == name.object > Before(name)

ObjectGap(name) == name.object > Before(name) + 1

Count(name) ==
    /\ groupGapCount' = Bump(groupGapCount, GroupGap(name))
    /\ groupCount' = Bump(groupCount, NewGroup(name))
    /\ objectGapCount' = Bump(objectGapCount, ObjectGap(name))
    /\ objectCount' = Bump(objectCount, NewObject(name))
    /\ currentGroupId' = name.group
    /\ currentObjectId' = name.object

(***************************************************************************)
(* onSubscribedObject, for an object that is not empty (an empty one is    *)
(* dropped before it is counted).  An exception of the application's       *)
(* subscribedObject is logged and changes nothing.                         *)
(***************************************************************************)
Forward(name) ==
    /\ Count(name)
    /\ forwarded' = name
    /\ UNCHANGED decrypts

\* The epoch cannot be parsed, or unprotect throws: counted, not forwarded.
DecryptFails(name) ==
    /\ decrypts
    /\ Count(name)
    /\ UNCHANGED <<decrypts, forwarded>>

OnSubscribedObject(name) == Forward(name) \/ DecryptFails(name)

Next == \E name \in Name : OnSubscribedObject(name)

Spec == Init /\ [][Next]_vars
=============================================================================
