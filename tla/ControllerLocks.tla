--------------------------- MODULE ControllerLocks ---------------------------
(***************************************************************************)
(* The four mutexes of qmedia::QController (src/src/QController.cpp):      *)
(* which methods take them, in which order, and which of the application's *)
(* callbacks run while they are held.  The mutexes are plain std::mutex,   *)
(* held through lock_guards; a callback may call the controller again, or  *)
(* throw.                                                                  *)
(*                                                                         *)
(* The data the methods work on is left out: a method is the set of the    *)
(* sequences of lock, unlock and callback events it may go through.        *)
(***************************************************************************)
EXTENDS Naturals, Sequences

CONSTANTS
    Threads,        \* application threads that call the controller
    CalledBy,       \* per callback: the methods the application calls from it
    MaxDepth,       \* bound: methods of one thread under way at once
    MaxCalls        \* bound: calls, from callbacks or not

Mutexes == {"qSubsMutex", "qPubsMutex", "subsMutex", "pubsMutex"}
Callbacks == {"allocateSubBySourceId", "allocatePubByNamespace", "prepare"}
Methods == {"updateManifest", "getSwitchingSets", "getSubscriptions",
            "stopSubscription", "setSubscriptionState", "getPublications",
            "setPublicationState", "publishNamedObject"}

ASSUME LocksAssumption ==
    /\ CalledBy \in [Callbacks -> SUBSET Methods]
    /\ MaxDepth \in Nat
    /\ MaxCalls \in Nat

VARIABLES
    stack,          \* per thread: the calls it is in, the innermost last
    calls           \* calls made so far
vars == <<stack, calls>>

Lock(m) == [act |-> "lock", on |-> m]
Unlock(m) == [act |-> "unlock", on |-> m]
Callback(c) == [act |-> "callback", on |-> c]
Event == [act : {"lock", "unlock"}, on : Mutexes] \cup [act : {"callback"}, on : Callbacks]

\* A call under way: what it has still to do and the lock_guards it is in.
Frame == [todo : Seq(Event), held : SUBSET Mutexes]

(***************************************************************************)
(* TypeOK: calls nest to MaxDepth, and a call leaves its lock_guards in    *)
(* the order that keeps every mutex it holds to be unlocked by it.         *)
(***************************************************************************)
TypeOK ==
    /\ stack \in [Threads -> Seq(Frame)]
    /\ calls \in 0 .. MaxCalls
    /\ \A t \in Threads : \A i \in DOMAIN stack[t] :
          \A m \in stack[t][i].held :
              \E k \in DOMAIN stack[t][i].todo : stack[t][i].todo[k] = Unlock(m)

Init ==
    /\ stack = [t \in Threads |-> <<>>]
    /\ calls = 0

-----------------------------------------------------------------------------
(***************************************************************************)
(* The methods.                                                            *)
(***************************************************************************)
\* { lock_guard _(m); ... } with nothing called back.
Section(m) == <<Lock(m), Unlock(m)>>

\* getSubscriptionDelegate and getPublicationDelegate call back with the
\* mutex held; when the map has the key, it is as if the callback returned at
\* once.
Allocate(m, c) == <<Lock(m), Callback(c), Unlock(m)>>

\* startSubscription: find, then create unless it was found.
StartSubscription == {Section("subsMutex"), Section("subsMutex") \o Section("subsMutex")}

\* startPublication: create, unless there is no session.
StartPublication == {<<>>, Section("pubsMutex")}

\* A loop body of process...: allocate; unless that yields nullptr, update
\* and prepare without a mutex; unless they end it, start.
Body(allocate, start) ==
    {allocate} \cup {allocate \o <<Callback("prepare")>> \o s : s \in start \cup {<<>>}}

ProcessSubscriptions ==
    {<<>>} \cup Body(Allocate("qSubsMutex", "allocateSubBySourceId"), StartSubscription)
ProcessPublications ==
    {<<>>} \cup Body(Allocate("qPubsMutex", "allocatePubByNamespace"), StartPublication)

UpdateManifest == {s \o p : s \in ProcessSubscriptions, p \in ProcessPublications}

(***************************************************************************)
(* Plausible mistakes: each, substituted for the definition named beside   *)
(* it, must make a property fail.  The specification does not use them.    *)
(***************************************************************************)
\* StopSubscription: the TODO in it, to remove the source from
\* qSubscriptionsMap, done under both mutexes.
StopRemovesSource ==
    {<<Lock("subsMutex"), Lock("qSubsMutex"), Unlock("qSubsMutex"), Unlock("subsMutex")>>}
\* Unwound: lock() and unlock() instead of a lock_guard.
StaysLocked(s) ==
    IF Len(s) = 1 THEN <<[s[1] EXCEPT !.todo = <<>>]>>
    ELSE SubSeq(s, 1, Len(s) - 1)

StopSubscription == {Section("subsMutex")}
PublishNamedObject == {Section("pubsMutex")}
GetSwitchingSets == {Section("qSubsMutex")}
GetSubscriptions == {Section("subsMutex")}
SetSubscriptionState == {Section("subsMutex")}
GetPublications == {Section("pubsMutex")}
SetPublicationState == {Section("pubsMutex")}

Paths(method) ==
    CASE method = "updateManifest" -> UpdateManifest
      [] method = "getSwitchingSets" -> GetSwitchingSets
      [] method = "getSubscriptions" -> GetSubscriptions
      [] method = "stopSubscription" -> StopSubscription
      [] method = "setSubscriptionState" -> SetSubscriptionState
      [] method = "getPublications" -> GetPublications
      [] method = "setPublicationState" -> SetPublicationState
      [] method = "publishNamedObject" -> PublishNamedObject

-----------------------------------------------------------------------------
Top(t) == Len(stack[t])
Owns(t, m) == \E i \in DOMAIN stack[t] : m \in stack[t][i].held
Free(m) == \A t \in Threads : ~Owns(t, m)

\* The next event of thread t is e.
AtEvent(t, e) ==
    /\ stack[t] # <<>>
    /\ stack[t][Top(t)].todo # <<>>
    /\ Head(stack[t][Top(t)].todo) = e
AtCallback(t) == \E c \in Callbacks : AtEvent(t, Callback(c))

\* The frame on top goes on, with the mutexes in held.
Advance(t, held) ==
    /\ stack' = [stack EXCEPT ![t][Top(t)] = [todo |-> Tail(@.todo), held |-> held]]
    /\ UNCHANGED calls

\* What is left of a stack when its innermost call ends by an exception: the
\* lock_guards of the call go with it.
Unwound(s) == SubSeq(s, 1, Len(s) - 1)

CallMethod(t, method) ==
    /\ calls < MaxCalls
    /\ calls' = calls + 1
    /\ \E path \in Paths(method) :
          stack' = [stack EXCEPT ![t] = Append(@, [todo |-> path, held |-> {}])]

Call(t) == stack[t] = <<>> /\ \E method \in Methods : CallMethod(t, method)

CallBack(t) ==
    /\ Top(t) < MaxDepth
    /\ \E c \in Callbacks :
          /\ AtEvent(t, Callback(c))
          /\ \E method \in CalledBy[c] : CallMethod(t, method)

LockMutex(t) ==
    \E m \in Mutexes :
        /\ AtEvent(t, Lock(m))
        /\ Free(m)
        /\ Advance(t, stack[t][Top(t)].held \cup {m})

UnlockMutex(t) ==
    \E m \in Mutexes :
        /\ AtEvent(t, Unlock(m))
        /\ Advance(t, stack[t][Top(t)].held \ {m})

CallbackReturns(t) ==
    /\ AtCallback(t)
    /\ Advance(t, stack[t][Top(t)].held)

\* The exception leaves the method; what called that, an outer callback or
\* the application, catches it.
CallbackThrows(t) ==
    /\ AtCallback(t)
    /\ stack' = [stack EXCEPT ![t] = Unwound(@)]
    /\ UNCHANGED calls

Return(t) ==
    /\ stack[t] # <<>>
    /\ stack[t][Top(t)].todo = <<>>
    /\ stack' = [stack EXCEPT ![t] = SubSeq(@, 1, Len(@) - 1)]
    /\ UNCHANGED calls

Step(t) ==
    LockMutex(t) \/ UnlockMutex(t) \/ CallbackReturns(t) \/ CallbackThrows(t) \/ Return(t)

Next == \E t \in Threads : Step(t) \/ Call(t) \/ CallBack(t)

Spec == Init /\ [][Next]_vars

-----------------------------------------------------------------------------
\* Thread t waits for mutex m.
WaitsFor(t, m) == AtEvent(t, Lock(m)) /\ ~Free(m)

\* The threads of S wait for each other, or for themselves.
Deadlock(S) ==
    \A t \in S : \E m \in Mutexes : WaitsFor(t, m) /\ \E u \in S : Owns(u, m)

\* Thread t is in an allocate callback, which runs with a mutex held.
Allocating(t) ==
    \E i \in DOMAIN stack[t] :
        /\ stack[t][i].todo # <<>>
        /\ Head(stack[t][i].todo) \in
              {Callback("allocateSubBySourceId"), Callback("allocatePubByNamespace")}

(***************************************************************************)
(* DeadlockExplained: threads wait for each other for ever only when one   *)
(* of them, from a callback that allocates a delegate, called a method     *)
(* that takes qSubsMutex or qPubsMutex (updateManifest, getSwitchingSets). *)
(* Every other call is safe from every callback: subsMutex and pubsMutex   *)
(* are always the last mutex a thread takes.                               *)
(***************************************************************************)
DeadlockExplained ==
    \A S \in (SUBSET Threads) \ {{}} :
        Deadlock(S) =>
            \E t \in S : /\ Allocating(t)
                         /\ WaitsFor(t, "qSubsMutex") \/ WaitsFor(t, "qPubsMutex")
=============================================================================
