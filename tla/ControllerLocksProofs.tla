------------------------ MODULE ControllerLocksProofs ------------------------
(***************************************************************************)
(* Theorems about ControllerLocks, for any threads, any application and    *)
(* any depth of calls from callbacks.  A call holds at most one mutex at a *)
(* time, and calls back under a mutex only to allocate a delegate: what    *)
(* threads can wait for in a circle follows from the shape of the calls.   *)
(***************************************************************************)
EXTENDS ControllerLocks, SequenceTheorems, TLAPS

QMutexes == {"qSubsMutex", "qPubsMutex"}
Allocations == {Callback("allocateSubBySourceId"), Callback("allocatePubByNamespace")}

\* From its k-th event on, a call unlocks m at once or after an allocation.
Guarded(s, k, m) ==
    \/ k \in 1 .. Len(s) /\ s[k] = Unlock(m)
    \/ /\ m \in QMutexes
       /\ k \in 1 .. Len(s) /\ s[k] \in Allocations
       /\ k + 1 \in 1 .. Len(s) /\ s[k + 1] = Unlock(m)

PathOK(s) ==
    /\ s \in Seq(Event)
    /\ \A k \in 1 .. Len(s), m \in Mutexes : s[k] = Lock(m) => Guarded(s, k + 1, m)

FrameOK(f) ==
    /\ f \in Frame
    /\ PathOK(f.todo)
    /\ f.held = {} \/ \E m \in Mutexes : f.held = {m} /\ Guarded(f.todo, 1, m)

\* A call that is not the innermost one is in a callback.
InCallback(f) == f.todo # <<>> /\ \E c \in Callbacks : f.todo[1] = Callback(c)

StackOK(s) ==
    /\ s \in Seq(Frame)
    /\ \A i \in 1 .. Len(s) : FrameOK(s[i]) /\ (i < Len(s) => InCallback(s[i]))

(***************************************************************************)
(* The inductive invariant.                                                *)
(***************************************************************************)
IInv ==
    /\ stack \in [Threads -> Seq(Frame)]
    /\ calls \in 0 .. MaxCalls
    /\ \A t \in Threads : StackOK(stack[t])

-----------------------------------------------------------------------------
(***************************************************************************)
(* The sequences a method may go through.                                  *)
(***************************************************************************)
LEMMA EventsDiffer ==
    /\ \A m, n \in Mutexes : /\ Lock(m) # Unlock(n)
                             /\ Lock(m) = Lock(n) => m = n
                             /\ Unlock(m) = Unlock(n) => m = n
    /\ \A m \in Mutexes, c \in Callbacks :
          Lock(m) # Callback(c) /\ Unlock(m) # Callback(c)
    /\ \A m \in Mutexes : Lock(m) \in Event /\ Unlock(m) \in Event
    /\ \A c \in Callbacks : Callback(c) \in Event
    /\ \A a \in Allocations : \E c \in Callbacks : a = Callback(c)
    /\ QMutexes \subseteq Mutexes
  BY DEF Lock, Unlock, Callback, Event, Mutexes, Callbacks, Allocations, QMutexes

LEMMA EmptyPath == PathOK(<<>>)
  BY DEF PathOK

LEMMA SectionPath ==
    ASSUME NEW m \in Mutexes
    PROVE  PathOK(Section(m))
<1>1. /\ Section(m) \in Seq(Event) /\ Len(Section(m)) = 2
      /\ Section(m)[1] = Lock(m) /\ Section(m)[2] = Unlock(m)
  BY EventsDiffer DEF Section
<1> QED
  BY <1>1, EventsDiffer DEF PathOK, Guarded

LEMMA AllocatePath ==
    ASSUME NEW m \in QMutexes, NEW c \in Callbacks, Callback(c) \in Allocations
    PROVE  PathOK(Allocate(m, c))
<1>1. /\ Allocate(m, c) \in Seq(Event) /\ Len(Allocate(m, c)) = 3
      /\ Allocate(m, c)[1] = Lock(m) /\ Allocate(m, c)[2] = Callback(c)
      /\ Allocate(m, c)[3] = Unlock(m)
  BY EventsDiffer DEF Allocate
<1> QED
  BY <1>1, EventsDiffer DEF PathOK, Guarded

LEMMA CallbackPath ==
    ASSUME NEW c \in Callbacks
    PROVE  PathOK(<<Callback(c)>>)
<1>1. /\ <<Callback(c)>> \in Seq(Event) /\ Len(<<Callback(c)>>) = 1
      /\ <<Callback(c)>>[1] = Callback(c)
  BY EventsDiffer
<1> QED
  BY <1>1, EventsDiffer DEF PathOK

LEMMA ConcatPath ==
    ASSUME NEW s, NEW p, PathOK(s), PathOK(p)
    PROVE  PathOK(s \o p)
<1>1. /\ s \in Seq(Event) /\ p \in Seq(Event)
      /\ s \o p \in Seq(Event)
      /\ Len(s) \in Nat /\ Len(p) \in Nat
      /\ Len(s \o p) = Len(s) + Len(p)
      /\ \A i \in 1 .. Len(s) + Len(p) :
            (s \o p)[i] = IF i <= Len(s) THEN s[i] ELSE p[i - Len(s)]
  BY ConcatProperties, LenProperties DEF PathOK
<1> SUFFICES ASSUME NEW k \in 1 .. Len(s \o p), NEW m \in Mutexes,
                    (s \o p)[k] = Lock(m)
             PROVE  Guarded(s \o p, k + 1, m)
  BY <1>1 DEF PathOK
<1>2. CASE k <= Len(s)
  <2>1. k \in 1 .. Len(s) /\ s[k] = Lock(m)
    BY <1>1, <1>2
  <2>2. Guarded(s, k + 1, m)
    BY <2>1 DEF PathOK
  <2> QED
    BY <1>1, <2>1, <2>2 DEF Guarded
<1>3. CASE k > Len(s)
  <2> DEFINE j == k - Len(s)
  <2>1. j \in 1 .. Len(p) /\ p[j] = Lock(m)
    BY <1>1, <1>3
  <2>2. Guarded(p, j + 1, m)
    BY <2>1 DEF PathOK
  <2>3. /\ \A i \in 1 .. Len(p) : /\ (s \o p)[i + Len(s)] = p[i]
                                  /\ i + Len(s) \in 1 .. Len(s \o p)
    BY <1>1
  <2>4. CASE j + 1 \in 1 .. Len(p) /\ p[j + 1] = Unlock(m)
    BY <1>1, <2>1, <2>3, <2>4 DEF Guarded
  <2>5. CASE /\ m \in QMutexes
             /\ j + 1 \in 1 .. Len(p) /\ p[j + 1] \in Allocations
             /\ j + 2 \in 1 .. Len(p) /\ p[j + 2] = Unlock(m)
    <3>1. /\ (s \o p)[k + 1] = p[j + 1] /\ k + 1 \in 1 .. Len(s \o p)
          /\ (s \o p)[k + 2] = p[j + 2] /\ k + 2 \in 1 .. Len(s \o p)
      <4>1. k + 1 = (j + 1) + Len(s) /\ k + 2 = (j + 2) + Len(s)
        BY <1>1
      <4> HIDE DEF j
      <4>2. /\ (s \o p)[(j + 1) + Len(s)] = p[j + 1]
            /\ (j + 1) + Len(s) \in 1 .. Len(s \o p)
        BY <2>3, <2>5
      <4>3. /\ (s \o p)[(j + 2) + Len(s)] = p[j + 2]
            /\ (j + 2) + Len(s) \in 1 .. Len(s \o p)
        BY <2>3, <2>5
      <4> QED
        BY <4>1, <4>2, <4>3
    <3> QED
      BY <1>1, <2>5, <3>1 DEF Guarded
  <2> QED
    BY <2>1, <2>2, <2>4, <2>5 DEF Guarded
<1> QED
  BY <1>1, <1>2, <1>3

LEMMA BodyPath ==
    ASSUME NEW a, PathOK(a), NEW starts, \A s \in starts : PathOK(s),
           NEW path \in Body(a, starts)
    PROVE  PathOK(path)
<1>1. CASE path = a
  BY <1>1
<1>2. CASE \E s \in starts \cup {<<>>} : path = a \o <<Callback("prepare")>> \o s
  <2>1. PICK s \in starts \cup {<<>>} : path = a \o <<Callback("prepare")>> \o s
    BY <1>2
  <2>2. PathOK(s)
    BY EmptyPath
  <2>3. PathOK(a \o <<Callback("prepare")>>)
    BY CallbackPath, ConcatPath DEF Callbacks
  <2> QED
    BY <2>1, <2>2, <2>3, ConcatPath
<1> QED
  BY <1>1, <1>2 DEF Body

LEMMA UpdateManifestPath ==
    ASSUME NEW path \in UpdateManifest
    PROVE  PathOK(path)
<1>1. {"qSubsMutex", "qPubsMutex", "subsMutex", "pubsMutex"} = Mutexes
  BY DEF Mutexes
<1>2. \A s \in StartSubscription : PathOK(s)
  BY <1>1, SectionPath, ConcatPath DEF StartSubscription
<1>3. \A s \in StartPublication : PathOK(s)
  BY <1>1, SectionPath, EmptyPath DEF StartPublication
<1>4. /\ PathOK(Allocate("qSubsMutex", "allocateSubBySourceId"))
      /\ PathOK(Allocate("qPubsMutex", "allocatePubByNamespace"))
  BY AllocatePath DEF QMutexes, Callbacks, Allocations
<1>5. \A s \in ProcessSubscriptions : PathOK(s)
  BY <1>2, <1>4, BodyPath, EmptyPath DEF ProcessSubscriptions
<1>6. \A p \in ProcessPublications : PathOK(p)
  BY <1>3, <1>4, BodyPath, EmptyPath DEF ProcessPublications
<1>7. PICK s \in ProcessSubscriptions, p \in ProcessPublications : path = s \o p
  BY DEF UpdateManifest
<1> QED
  BY <1>5, <1>6, <1>7, ConcatPath

\* Every method's events are sections and allocations, one after the other.
LEMMA MethodPath ==
    ASSUME NEW method \in Methods, NEW path \in Paths(method)
    PROVE  PathOK(path)
<1>1. CASE method = "updateManifest"
  BY <1>1, UpdateManifestPath DEF Paths
<1>2. CASE method # "updateManifest"
  <2>1. \E m \in Mutexes : path = Section(m)
    BY <1>2
    DEF Methods, Paths, GetSwitchingSets, GetSubscriptions, StopSubscription,
        SetSubscriptionState, GetPublications, SetPublicationState, PublishNamedObject,
        Mutexes
  <2> QED
    BY <2>1, SectionPath
<1> QED
  BY <1>1, <1>2

-----------------------------------------------------------------------------
(***************************************************************************)
(* A call goes on: it locks only while it holds nothing.                   *)
(***************************************************************************)
LEMMA TailPath ==
    ASSUME NEW s, PathOK(s), s # <<>>
    PROVE  /\ PathOK(Tail(s))
           /\ \A m \in Mutexes : Guarded(s, 2, m) => Guarded(Tail(s), 1, m)
<1>1. /\ s \in Seq(Event) /\ Tail(s) \in Seq(Event)
      /\ Len(s) \in Nat /\ Len(Tail(s)) = Len(s) - 1
      /\ \A i \in 1 .. Len(Tail(s)) : Tail(s)[i] = s[i + 1]
  BY HeadTailProperties, LenProperties DEF PathOK
<1>2. ASSUME NEW k \in Nat, k >= 1, NEW m \in Mutexes, Guarded(s, k + 1, m)
      PROVE  Guarded(Tail(s), k, m)
  <2>1. CASE k + 1 \in 1 .. Len(s) /\ s[k + 1] = Unlock(m)
    BY <1>1, <1>2, <2>1 DEF Guarded
  <2>2. CASE /\ m \in QMutexes
             /\ k + 1 \in 1 .. Len(s) /\ s[k + 1] \in Allocations
             /\ k + 2 \in 1 .. Len(s) /\ s[k + 2] = Unlock(m)
    <3>1. /\ k \in 1 .. Len(Tail(s)) /\ Tail(s)[k] = s[k + 1]
          /\ k + 1 \in 1 .. Len(Tail(s)) /\ Tail(s)[k + 1] = s[(k + 1) + 1]
      BY <1>1, <1>2, <2>2
    <3>2. (k + 1) + 1 = k + 2
      OBVIOUS
    <3> QED
      BY <2>2, <3>1, <3>2 DEF Guarded
  <2> QED
    BY <1>2, <2>1, <2>2 DEF Guarded
<1>3. ASSUME NEW k \in 1 .. Len(Tail(s)), NEW m \in Mutexes, Tail(s)[k] = Lock(m)
      PROVE  Guarded(Tail(s), k + 1, m)
  <2>1. k + 1 \in 1 .. Len(s) /\ s[k + 1] = Lock(m)
    BY <1>1, <1>3
  <2>2. Guarded(s, (k + 1) + 1, m)
    BY <2>1 DEF PathOK
  <2> QED
    BY <1>2, <2>2
<1>4. \A m \in Mutexes : Guarded(s, 2, m) => Guarded(Tail(s), 1, m)
  BY <1>2
<1> QED
  BY <1>1, <1>3, <1>4 DEF PathOK

\* What a frame whose next event is known holds.
LEMMA HeldAtEvent ==
    ASSUME NEW f, FrameOK(f), f.todo # <<>>
    PROVE  /\ Head(f.todo) = f.todo[1]
           /\ \A m \in Mutexes : f.todo[1] = Lock(m) => f.held = {} /\ Guarded(f.todo, 2, m)
           /\ \A m \in Mutexes : f.todo[1] = Unlock(m) => f.held \subseteq {m}
           /\ \A c \in Callbacks : f.todo[1] = Callback(c) =>
                 \/ f.held = {}
                 \/ /\ f.todo[1] \in Allocations
                    /\ \E m \in QMutexes : f.held = {m} /\ Guarded(f.todo, 2, m)
<1>1. /\ f.todo \in Seq(Event) /\ Head(f.todo) = f.todo[1] /\ Len(f.todo) \in Nat
      /\ 1 \in 1 .. Len(f.todo)
  <2>1. f.todo \in Seq(Event)
    BY DEF FrameOK, PathOK
  <2> QED
    BY <2>1, LenProperties, EmptySeq
<1>2. ASSUME NEW m \in Mutexes, f.todo[1] = Lock(m)
      PROVE  f.held = {} /\ Guarded(f.todo, 2, m)
  BY <1>1, <1>2, EventsDiffer DEF FrameOK, PathOK, Guarded
<1>3. ASSUME NEW m \in Mutexes, f.todo[1] = Unlock(m)
      PROVE  f.held \subseteq {m}
  BY <1>1, <1>3, EventsDiffer DEF FrameOK, Guarded
<1>4. ASSUME NEW c \in Callbacks, f.todo[1] = Callback(c), f.held # {}
      PROVE  /\ f.todo[1] \in Allocations
             /\ \E m \in QMutexes : f.held = {m} /\ Guarded(f.todo, 2, m)
  <2>1. PICK m \in Mutexes : f.held = {m} /\ Guarded(f.todo, 1, m)
    BY <1>4 DEF FrameOK
  <2>2. f.todo[1] # Unlock(m)
    BY <1>4, EventsDiffer
  <2> QED
    BY <2>1, <2>2 DEF Guarded
<1> QED
  BY <1>1, <1>2, <1>3, <1>4

LEMMA FrameGoesOn ==
    ASSUME NEW f, FrameOK(f), f.todo # <<>>, NEW held,
           \/ \E m \in Mutexes : f.todo[1] = Lock(m) /\ held = f.held \cup {m}
           \/ \E m \in Mutexes : f.todo[1] = Unlock(m) /\ held = f.held \ {m}
           \/ \E c \in Callbacks : f.todo[1] = Callback(c) /\ held = f.held
    PROVE  FrameOK([todo |-> Tail(f.todo), held |-> held])
<1>1. /\ PathOK(Tail(f.todo))
      /\ \A m \in Mutexes : Guarded(f.todo, 2, m) => Guarded(Tail(f.todo), 1, m)
  BY TailPath DEF FrameOK
<1>2. held = {} \/ \E m \in Mutexes : held = {m} /\ Guarded(Tail(f.todo), 1, m)
  BY <1>1, HeldAtEvent, EventsDiffer
<1>3. [todo |-> Tail(f.todo), held |-> held] \in Frame
  BY <1>1, <1>2 DEF Frame, PathOK
<1> QED
  BY <1>1, <1>2, <1>3 DEF FrameOK

-----------------------------------------------------------------------------
(***************************************************************************)
(* The stack of calls of a thread.                                         *)
(***************************************************************************)
LEMMA TopReplaced ==
    ASSUME NEW s, StackOK(s), s # <<>>, NEW f, FrameOK(f)
    PROVE  StackOK([s EXCEPT ![Len(s)] = f])
<1>1. /\ s \in Seq(Frame) /\ f \in Frame /\ Len(s) \in Nat /\ Len(s) \in 1 .. Len(s)
  BY LenProperties, EmptySeq DEF StackOK, FrameOK
<1> DEFINE r == [s EXCEPT ![Len(s)] = f]
<1>2. /\ r \in Seq(Frame) /\ Len(r) = Len(s)
      /\ \A i \in 1 .. Len(s) : r[i] = IF i = Len(s) THEN f ELSE s[i]
  BY <1>1, ExceptSeq
<1>3. \A i \in 1 .. Len(s) : FrameOK(s[i]) /\ (i < Len(s) => InCallback(s[i]))
  BY DEF StackOK
<1> HIDE DEF r
<1>4. StackOK(r)
  BY <1>1, <1>2, <1>3 DEF StackOK
<1> QED
  BY <1>4 DEF r

LEMMA Popped ==
    ASSUME NEW s, StackOK(s), s # <<>>
    PROVE  StackOK(SubSeq(s, 1, Len(s) - 1))
<1>1. s \in Seq(Frame) /\ Len(s) \in Nat /\ Len(s) >= 1
  BY LenProperties, EmptySeq DEF StackOK
<1>2. /\ SubSeq(s, 1, Len(s) - 1) \in Seq(Frame)
      /\ Len(SubSeq(s, 1, Len(s) - 1)) = Len(s) - 1
      /\ \A i \in 1 .. Len(s) - 1 : SubSeq(s, 1, Len(s) - 1)[i] = s[i]
  <2>1. \A i \in 1 .. Len(s) - 1 : s[i] \in Frame
    BY <1>1, ElementOfSeq
  <2> QED
    <3>1. PICK n \in Int : n = Len(s) - 1 /\ n >= 0
      BY <1>1
    <3>2. /\ SubSeq(s, 1, n) \in Seq(Frame)
          /\ Len(SubSeq(s, 1, n)) = IF 1 <= n THEN n - 1 + 1 ELSE 0
          /\ \A i \in 1 .. n - 1 + 1 : SubSeq(s, 1, n)[i] = s[1 + i - 1]
      BY <2>1, <3>1, SubSeqProperties
    <3>3. Len(SubSeq(s, 1, n)) = n /\ \A i \in 1 .. n : SubSeq(s, 1, n)[i] = s[i]
      BY <3>1, <3>2
    <3> QED
      BY <3>1, <3>2, <3>3
<1> QED
  BY <1>1, <1>2 DEF StackOK

LEMMA Pushed ==
    ASSUME NEW s, StackOK(s), s = <<>> \/ InCallback(s[Len(s)]), NEW f, FrameOK(f)
    PROVE  StackOK(Append(s, f))
<1>1. s \in Seq(Frame) /\ f \in Frame /\ Len(s) \in Nat /\ (s = <<>> => Len(s) = 0)
  BY LenProperties DEF StackOK, FrameOK
<1>2. /\ Append(s, f) \in Seq(Frame) /\ Len(Append(s, f)) = Len(s) + 1
      /\ \A i \in 1 .. Len(s) : Append(s, f)[i] = s[i]
      /\ Append(s, f)[Len(s) + 1] = f
  BY <1>1, AppendProperties
<1> QED
  BY <1>1, <1>2 DEF StackOK

-----------------------------------------------------------------------------
(***************************************************************************)
(* The actions.                                                            *)
(***************************************************************************)
\* Whatever a step leaves of one thread's stack, the others keep theirs.
LEMMA StackStep ==
    ASSUME IInv, NEW t \in Threads, NEW s, StackOK(s), stack' = [stack EXCEPT ![t] = s],
           calls' \in 0 .. MaxCalls
    PROVE  IInv'
<1>1. stack' \in [Threads -> Seq(Frame)]
  BY DEF IInv, StackOK
<1>2. \A u \in Threads : stack'[u] = IF u = t THEN s ELSE stack[u]
  BY DEF IInv
<1>3. \A u \in Threads : StackOK(stack[u])
  BY DEF IInv
<1>4. \A u \in Threads : StackOK(stack'[u])
  BY <1>2, <1>3
<1> QED
  BY <1>1, <1>4 DEF IInv

\* The innermost call of a thread.
LEMMA TopFrame ==
    ASSUME IInv, NEW t \in Threads, stack[t] # <<>>
    PROVE  /\ StackOK(stack[t]) /\ Top(t) \in 1 .. Len(stack[t])
           /\ FrameOK(stack[t][Top(t)])
<1>1. StackOK(stack[t])
  BY DEF IInv
<1>2. Len(stack[t]) \in Nat \ {0}
  BY <1>1, EmptySeq DEF StackOK
<1>3. Top(t) \in 1 .. Len(stack[t])
  BY <1>2 DEF Top
<1> QED
  BY <1>1, <1>3 DEF StackOK

LEMMA AdvanceStep ==
    ASSUME IInv, NEW t \in Threads, stack[t] # <<>>, NEW held, Advance(t, held),
           LET f == stack[t][Top(t)] IN
           /\ f.todo # <<>>
           /\ \/ \E m \in Mutexes : f.todo[1] = Lock(m) /\ held = f.held \cup {m}
              \/ \E m \in Mutexes : f.todo[1] = Unlock(m) /\ held = f.held \ {m}
              \/ \E c \in Callbacks : f.todo[1] = Callback(c) /\ held = f.held
    PROVE  IInv'
<1> DEFINE f == stack[t][Top(t)]
           g == [todo |-> Tail(f.todo), held |-> held]
           s == [stack[t] EXCEPT ![Len(stack[t])] = g]
<1>1. FrameOK(g)
  BY TopFrame, FrameGoesOn
<1>2. StackOK(s)
  BY <1>1, TopFrame, TopReplaced
<1>3. stack' = [stack EXCEPT ![t] = s]
  BY DEF Advance, Top, IInv
<1>4. calls' \in 0 .. MaxCalls
  BY DEF Advance, IInv
<1> QED
  BY <1>2, <1>3, <1>4, StackStep

\* The next event of a thread is the first one its innermost call has to do.
LEMMA NextEvent ==
    ASSUME IInv, NEW t \in Threads, NEW e, AtEvent(t, e)
    PROVE  /\ stack[t] # <<>>
           /\ stack[t][Top(t)].todo # <<>>
           /\ stack[t][Top(t)].todo[1] = e
  BY TopFrame, HeldAtEvent DEF AtEvent

LEMMA LockMutexStep ==
    ASSUME IInv, NEW t \in Threads, LockMutex(t)
    PROVE  IInv'
  BY NextEvent, AdvanceStep DEF LockMutex

LEMMA UnlockMutexStep ==
    ASSUME IInv, NEW t \in Threads, UnlockMutex(t)
    PROVE  IInv'
  BY NextEvent, AdvanceStep DEF UnlockMutex

LEMMA CallbackReturnsStep ==
    ASSUME IInv, NEW t \in Threads, CallbackReturns(t)
    PROVE  IInv'
  BY NextEvent, AdvanceStep DEF CallbackReturns, AtCallback

LEMMA CallMethodStep ==
    ASSUME IInv, NEW t \in Threads, NEW method \in Methods, CallMethod(t, method),
           stack[t] = <<>> \/ InCallback(stack[t][Top(t)])
    PROVE  IInv'
<1>1. PICK path \in Paths(method) :
          stack' = [stack EXCEPT ![t] = Append(@, [todo |-> path, held |-> {}])]
  BY DEF CallMethod
<1>2. FrameOK([todo |-> path, held |-> {}])
  BY MethodPath DEF FrameOK, Frame, PathOK
<1>3. StackOK(Append(stack[t], [todo |-> path, held |-> {}]))
  BY <1>2, Pushed DEF IInv, Top
<1>4. calls' \in 0 .. MaxCalls
  BY LocksAssumption DEF CallMethod, IInv
<1>5. stack' = [stack EXCEPT ![t] = Append(stack[t], [todo |-> path, held |-> {}])]
  BY <1>1 DEF IInv
<1> QED
  BY <1>3, <1>4, <1>5, StackStep

LEMMA CallStep ==
    ASSUME IInv, NEW t \in Threads, Call(t)
    PROVE  IInv'
  BY CallMethodStep DEF Call

LEMMA CallBackStep ==
    ASSUME IInv, NEW t \in Threads, CallBack(t)
    PROVE  IInv'
<1>1. PICK c \in Callbacks :
          AtEvent(t, Callback(c)) /\ \E method \in CalledBy[c] : CallMethod(t, method)
  BY DEF CallBack
<1>2. PICK method \in CalledBy[c] : CallMethod(t, method)
  BY <1>1
<1>3. method \in Methods
  BY <1>2, LocksAssumption
<1>4. InCallback(stack[t][Top(t)])
  BY <1>1, NextEvent DEF InCallback
<1> QED
  BY <1>2, <1>3, <1>4, CallMethodStep

\* The innermost call ends, by its last event or by an exception.
LEMMA CallEndsStep ==
    ASSUME IInv, NEW t \in Threads, CallbackThrows(t) \/ Return(t)
    PROVE  IInv'
<1>1. /\ stack[t] # <<>>
      /\ stack' = [stack EXCEPT ![t] = SubSeq(stack[t], 1, Len(stack[t]) - 1)]
      /\ calls' = calls
  BY DEF CallbackThrows, AtCallback, AtEvent, Return, Unwound, IInv
<1>2. StackOK(SubSeq(stack[t], 1, Len(stack[t]) - 1))
  BY <1>1, TopFrame, Popped
<1>3. calls' \in 0 .. MaxCalls
  BY <1>1 DEF IInv
<1> QED
  BY <1>1, <1>2, <1>3, StackStep

LEMMA InitIInv == Init => IInv
<1> SUFFICES ASSUME Init PROVE IInv
  OBVIOUS
<1>1. StackOK(<<>>)
  BY EmptySeq DEF StackOK
<1> QED
  BY <1>1, EmptySeq, LocksAssumption DEF Init, IInv

LEMMA NextIInv == IInv /\ [Next]_vars => IInv'
<1> SUFFICES ASSUME IInv, [Next]_vars PROVE IInv'
  OBVIOUS
<1>1. CASE \E t \in Threads : Step(t)
  BY <1>1, LockMutexStep, UnlockMutexStep, CallbackReturnsStep, CallEndsStep DEF Step
<1>2. CASE \E t \in Threads : Call(t)
  BY <1>2, CallStep
<1>3. CASE \E t \in Threads : CallBack(t)
  BY <1>3, CallBackStep
<1>4. CASE UNCHANGED vars
  BY <1>4 DEF IInv, vars
<1> QED
  BY <1>1, <1>2, <1>3, <1>4 DEF Next

\* The invariant holds in every reachable state.
THEOREM LocksInvariance == Spec => []IInv
<1> QED
  BY InitIInv, NextIInv, PTL DEF Spec

-----------------------------------------------------------------------------
\* Every mutex a call holds is still to be unlocked by it.
THEOREM LocksTypeCorrect == Spec => []TypeOK
<1>1. IInv => TypeOK
  <2> SUFFICES ASSUME IInv PROVE TypeOK
    OBVIOUS
  <2>1. ASSUME NEW t \in Threads, NEW i \in DOMAIN stack[t],
               NEW m \in stack[t][i].held
        PROVE  \E k \in DOMAIN stack[t][i].todo : stack[t][i].todo[k] = Unlock(m)
    <3>1. stack[t] \in Seq(Frame) /\ StackOK(stack[t])
      BY DEF IInv
    <3>2. FrameOK(stack[t][i])
      BY <3>1, LenProperties DEF StackOK
    <3>3. Guarded(stack[t][i].todo, 1, m)
      BY <3>2 DEF FrameOK
    <3>4. DOMAIN stack[t][i].todo = 1 .. Len(stack[t][i].todo)
      BY <3>2, LenProperties DEF FrameOK, PathOK
    <3> QED
      BY <3>3, <3>4 DEF Guarded
  <2> QED
    BY <2>1 DEF IInv, TypeOK
<1> QED
  BY <1>1, LocksInvariance, PTL

\* A thread that waits for a mutex and owns another one allocates a delegate,
\* and owns the mutex of the delegates' map.
LEMMA WaitingOwner ==
    ASSUME IInv, NEW t \in Threads, NEW m \in Mutexes, NEW n \in Mutexes,
           Owns(t, m), AtEvent(t, Lock(n))
    PROVE  Allocating(t) /\ m \in QMutexes
<1>1. PICK i \in DOMAIN stack[t] : m \in stack[t][i].held
  BY DEF Owns
<1>2. /\ StackOK(stack[t]) /\ i \in 1 .. Len(stack[t]) /\ Len(stack[t]) \in Nat
      /\ FrameOK(stack[t][i])
  BY <1>1, LenProperties DEF IInv, StackOK
<1>3. i # Top(t)
  BY <1>1, <1>2, NextEvent, HeldAtEvent
<1>4. i < Len(stack[t])
  BY <1>2, <1>3 DEF Top
<1>5. InCallback(stack[t][i])
  BY <1>2, <1>4 DEF StackOK
<1>6. /\ stack[t][i].todo[1] \in Allocations /\ m \in QMutexes
      /\ Head(stack[t][i].todo) = stack[t][i].todo[1]
  BY <1>1, <1>2, <1>5, HeldAtEvent DEF InCallback
<1> QED
  BY <1>1, <1>5, <1>6 DEF Allocating, Allocations, InCallback

\* Threads wait for each other for ever only when one of them, from a callback
\* that allocates a delegate, waits for qSubsMutex or qPubsMutex.
THEOREM DeadlocksAreExplained == Spec => []DeadlockExplained
<1>1. IInv => DeadlockExplained
  <2> SUFFICES ASSUME IInv, NEW S \in SUBSET Threads, S # {}, Deadlock(S)
               PROVE  \E t \in S : /\ Allocating(t)
                                   /\ WaitsFor(t, "qSubsMutex") \/ WaitsFor(t, "qPubsMutex")
    BY DEF DeadlockExplained
  <2>1. PICK t \in S, m \in Mutexes, u \in S : Owns(u, m)
    BY DEF Deadlock
  <2>2. PICK n \in Mutexes, v \in S : WaitsFor(u, n) /\ Owns(v, n)
    BY DEF Deadlock
  <2>3. PICK o \in Mutexes : WaitsFor(v, o)
    BY DEF Deadlock
  <2>4. Allocating(u)
    BY <2>1, <2>2, WaitingOwner DEF WaitsFor
  <2>5. n \in QMutexes
    BY <2>2, <2>3, WaitingOwner DEF WaitsFor
  <2> QED
    BY <2>2, <2>4, <2>5 DEF QMutexes
<1> QED
  BY <1>1, LocksInvariance, PTL
=============================================================================
