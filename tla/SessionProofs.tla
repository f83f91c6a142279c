---------------------------- MODULE SessionProofs ----------------------------
(***************************************************************************)
(* Theorems about Session, for any threads and any number of connects: a   *)
(* client is used after its end only where two words of client_session     *)
(* were read or written apart, and only a client that two connects lost    *)
(* has a count that nobody will release.                                   *)
(***************************************************************************)
EXTENDS Session, FiniteSetTheorems, TLAPS

-----------------------------------------------------------------------------
\* The threads whose call has a counted copy of client c.
Calls(t, c) == pc[t] = "call" /\ copy[t].ctrl = c
Callers(c) == {t \in Threads : Calls(t, c)}

\* A connect has built its client and not yet written its control block.
New(t) == pc[t] \in {"swap", "read", "write"}

\* Who else may have a count of client c: one count, however many connects read
\* the control block in order to release it.
Based(c) ==
    \/ client_session.ctrl = c \/ c \in lost \/ Replaced(c)
    \/ \E t \in Threads : New(t) /\ copy[t].ctrl = c

One(c) == IF Based(c) THEN 1 ELSE 0

\* No count is kept for nobody, and without overlapping calls each owner has one.
CountsOK ==
    \A c \in Clients :
        /\ IsFiniteSet(Callers(c))
        /\ refs[c] <= Cardinality(Callers(c)) + One(c)
        /\ ~overlapped => refs[c] = Cardinality(Callers(c)) + One(c)

\* A client is destroyed when its count falls to zero, and not before.
StatusOK == \A c \in Clients : refs[c] = 0 <=> status[c] \in {"none", "freed"}

\* Only clients that were built are pointed to.
Built(c) == c # NoClient => status[c] # "none"

PointersOK ==
    /\ Built(client_session.ptr) /\ Built(client_session.ctrl)
    /\ \A c \in lost : Built(c)
    /\ \A t \in Threads :
          Built(copy[t].ptr) /\ Built(copy[t].ctrl) /\ Built(old[t]) /\ Built(raw[t])

\* Until connect writes its control block, nobody else has read it.
NewOK ==
    \A t \in Threads : New(t) =>
        LET c == copy[t].ctrl IN
        /\ c \in Clients /\ copy[t].ptr = c
        /\ client_session.ctrl # c /\ c \notin lost
        /\ \A u \in Threads : old[u] # c /\ (u # t => copy[u].ctrl # c)

\* Until connect writes its pointer, nobody else points to its client.
SwapsOK ==
    \A t \in Threads : pc[t] = "swap" =>
        LET c == copy[t].ctrl IN
        /\ status[c] = "built" /\ client_session.ptr # c
        /\ \A u \in Threads : raw[u] # c /\ (u # t => copy[u].ptr # c)

\* While nothing overlapped, the two words of every shared_ptr agree, what a
\* thread uses without owning it is what client_session owns, and no two
\* connects release the same client.
UnownedOK ==
    ~overlapped =>
        /\ lost = {}
        /\ (\A t \in Threads : pc[t] \notin {"read", "write"}) =>
              client_session.ptr = client_session.ctrl
        /\ \A t \in Threads :
              /\ pc[t] \in {"read", "write"} =>
                    /\ client_session.ptr = copy[t].ctrl
                    /\ ~Assigning(t) /\ ~UsesUnowned(t)
              /\ pc[t] = "write" => old[t] = client_session.ctrl
              /\ (pc[t] = "release" /\ old[t] # NoClient) =>
                    /\ old[t] # client_session.ctrl
                    /\ \A u \in Threads \ {t} :
                          pc[u] \in {"write", "release"} => old[u] # old[t]
              /\ pc[t] \in {"connect", "query", "disconnect"} =>
                    raw[t] = client_session.ptr
              /\ pc[t] \in {"copy", "count"} => copy[t].ptr = client_session.ptr
              /\ pc[t] = "count" => copy[t].ctrl = client_session.ctrl
              /\ pc[t] = "call" => copy[t].ptr = copy[t].ctrl

\* client_session points to a client connected before disconnect began: until
\* then, every disconnect under way is about that client.
Lingering ==
    /\ stop /\ client_session.ptr # NoClient
    /\ status[client_session.ptr] = "connected"
    /\ client_session.ptr \notin late

CloseOK ==
    /\ closed => stop
    /\ \A t \in Threads : pc[t] \in {"disconnect", "close"} => stop
    /\ Lingering =>
          /\ ~closed
          /\ \A t \in Threads :
                /\ pc[t] # "close"
                /\ pc[t] = "disconnect" => raw[t] = client_session.ptr

EndOK ==
    destroyed => client_session = Nullptr /\ \A t \in Threads : pc[t] = "idle"

(***************************************************************************)
(* The inductive invariant.  Undefined behaviour ends the model, so that   *)
(* all but the types and the explanation are about the states before it.   *)
(***************************************************************************)
MembersOK ==
    /\ CountsOK
    /\ StatusOK
    /\ PointersOK
    /\ NewOK
    /\ SwapsOK
    /\ UnownedOK
    /\ CloseOK
    /\ EndOK

IInv ==
    /\ TypeOK
    /\ undefined = "no" => MembersOK
    /\ UndefinedExplained

-----------------------------------------------------------------------------
LEMMA NoClientIsNone == NoClient \notin Clients
  BY MaxClientsAssumption DEF NoClient, Clients

(***************************************************************************)
(* Counting the calls.                                                     *)
(***************************************************************************)
LEMMA CallerJoins ==
    ASSUME NEW c, IsFiniteSet(Callers(c)), NEW t \in Threads,
           ~Calls(t, c), Calls(t, c)',
           \A u \in Threads : u # t => (Calls(u, c)' <=> Calls(u, c))
    PROVE  /\ IsFiniteSet(Callers(c)')
           /\ Cardinality(Callers(c)') = Cardinality(Callers(c)) + 1
<1>1. Callers(c)' = Callers(c) \cup {t} /\ t \notin Callers(c)
  BY DEF Callers
<1> QED
  BY <1>1, FS_AddElement

LEMMA CallerLeaves ==
    ASSUME NEW c, IsFiniteSet(Callers(c)), NEW t \in Threads,
           Calls(t, c), ~Calls(t, c)',
           \A u \in Threads : u # t => (Calls(u, c)' <=> Calls(u, c))
    PROVE  /\ IsFiniteSet(Callers(c)')
           /\ Cardinality(Callers(c)') = Cardinality(Callers(c)) - 1
           /\ Cardinality(Callers(c)) > 0
<1>1. Callers(c)' = Callers(c) \ {t} /\ t \in Callers(c)
  BY DEF Callers
<1>2. Cardinality(Callers(c)) \in Nat /\ Callers(c) # {}
  BY <1>1, FS_CardinalityType
<1>3. Cardinality(Callers(c)) # 0
  BY <1>2, FS_EmptySet
<1> QED
  BY <1>1, <1>2, <1>3, FS_RemoveElement

LEMMA CallersStay ==
    ASSUME NEW c, \A u \in Threads : Calls(u, c)' <=> Calls(u, c)
    PROVE  Callers(c)' = Callers(c)
  BY DEF Callers

LEMMA CountsStay ==
    ASSUME CountsOK, refs' = refs, ~overlapped' => ~overlapped,
           \A c \in Clients : Based(c)' <=> Based(c),
           \A c \in Clients, u \in Threads : Calls(u, c)' <=> Calls(u, c)
    PROVE  CountsOK'
<1>1. \A c \in Clients : Callers(c)' = Callers(c) /\ One(c)' = One(c)
  BY CallersStay DEF One
<1> QED
  BY <1>1 DEF CountsOK

\* Without overlapping calls an owner's client is neither unbuilt nor freed.
LEMMA OwnedIsAlive ==
    ASSUME TypeOK, CountsOK, StatusOK, ~overlapped, NEW c \in Clients,
           Based(c) \/ \E t \in Threads : Calls(t, c)
    PROVE  refs[c] \in Nat \ {0} /\ status[c] \notin {"none", "freed"}
<1>1. /\ Cardinality(Callers(c)) \in Nat /\ IsFiniteSet(Callers(c))
      /\ refs[c] = Cardinality(Callers(c)) + One(c)
  BY FS_CardinalityType DEF CountsOK
<1>2. One(c) \in {0, 1} /\ (Based(c) => One(c) = 1)
  BY DEF One
<1>3. (\E t \in Threads : Calls(t, c)) => Cardinality(Callers(c)) # 0
  <2>1. (\E t \in Threads : Calls(t, c)) => Callers(c) # {}
    BY DEF Callers
  <2> QED
    BY <1>1, <2>1, FS_EmptySet
<1>4. refs[c] \in Nat \ {0}
  BY <1>1, <1>2, <1>3
<1> QED
  BY <1>4 DEF StatusOK

\* A client that nobody owns has no count.
LEMMA UnownedIsUncounted ==
    ASSUME TypeOK, CountsOK, NEW c \in Clients, ~Based(c),
           \A t \in Threads : ~Calls(t, c)
    PROVE  refs[c] = 0
<1>1. Callers(c) = {} /\ One(c) = 0
  BY DEF Callers, One
<1>2. refs[c] <= 0 /\ refs[c] \in Nat
  BY <1>1, FS_EmptySet DEF CountsOK, TypeOK
<1> QED
  BY <1>2

-----------------------------------------------------------------------------
LEMMA InitIInv == Init => IInv
<1> SUFFICES ASSUME Init PROVE IInv
  OBVIOUS
<1>1. TypeOK /\ UndefinedExplained
  BY DEF Init, Construct, TypeOK, UndefinedExplained, SharedPtr, Nullptr, Labels
<1>2. CountsOK
  <2>1. \A c \in Clients : Callers(c) = {} /\ One(c) = 0
    BY NoClientIsNone DEF Init, Callers, Calls, One, Based, New, Replaced, Nullptr
  <2> QED
    BY <2>1, FS_EmptySet DEF Init, CountsOK
<1>3. StatusOK /\ PointersOK /\ NewOK /\ SwapsOK /\ UnownedOK /\ CloseOK /\ EndOK
  BY DEF Init, StatusOK, PointersOK, Built, NewOK, New, SwapsOK, UnownedOK, CloseOK,
         EndOK, Lingering, Nullptr
<1> QED
  BY <1>1, <1>2, <1>3 DEF IInv, MembersOK

-----------------------------------------------------------------------------
(***************************************************************************)
(* A step of a call that uses client_session without owning it: counts,    *)
(* copies and client_session stay, and at most the client behind the raw   *)
(* pointer changes its status.                                             *)
(***************************************************************************)
Unowning == {"idle", "dial", "connect", "query", "disconnect", "close"}

UnownedStep(t, to) ==
    /\ undefined = "no" /\ ~destroyed
    /\ pc[t] \in Unowning /\ to \in Unowning
    /\ pc' = [pc EXCEPT ![t] = to]
    /\ raw' \in [Threads -> Clients \cup {NoClient}]
    /\ raw'[t] \in {raw[t], client_session.ptr, NoClient}
    /\ \A u \in Threads : u # t => raw'[u] = raw[u]
    /\ status' \in [Clients -> {"none", "built", "connected", "disconnected", "freed"}]
    /\ \A c \in Clients :
          \/ status'[c] = status[c]
          \/ /\ c = raw[t] /\ status[c] \notin {"none", "freed"}
             /\ status'[c] \in {"connected", "disconnected"}
    /\ ~overlapped' => ~overlapped
    /\ UNCHANGED <<client_session, refs, copy, old, destroyed, lost>>

LEMMA UnownedStepKeeps ==
    ASSUME TypeOK, MembersOK, NEW t \in Threads, NEW to, UnownedStep(t, to)
    PROVE  CountsOK' /\ StatusOK' /\ PointersOK' /\ NewOK' /\ SwapsOK' /\ EndOK'
<1>1. \A u \in Threads, l \in {"swap", "read", "write", "release", "call"} :
         pc'[u] = l <=> pc[u] = l
  BY DEF UnownedStep, Unowning, TypeOK
<1>2. CountsOK'
  <2>1. \A c \in Clients : Based(c)' <=> Based(c)
    BY <1>1 DEF UnownedStep, Based, Replaced, New
  <2>2. \A c \in Clients, u \in Threads : Calls(u, c)' <=> Calls(u, c)
    BY <1>1 DEF UnownedStep, Calls
  <2> QED
    BY <2>1, <2>2, CountsStay DEF MembersOK, UnownedStep
<1>3. StatusOK'
  BY DEF MembersOK, UnownedStep, StatusOK
<1>4. PointersOK'
  <2>1. \A c \in Clients \cup {NoClient} : Built(c) => Built(c)'
    BY NoClientIsNone DEF UnownedStep, Built
  <2>2. /\ client_session.ptr \in Clients \cup {NoClient}
        /\ client_session.ctrl \in Clients \cup {NoClient}
        /\ lost \subseteq Clients
        /\ \A u \in Threads : /\ copy[u].ptr \in Clients \cup {NoClient}
                             /\ copy[u].ctrl \in Clients \cup {NoClient}
                             /\ old[u] \in Clients \cup {NoClient}
                             /\ raw'[u] \in Clients \cup {NoClient}
    BY DEF TypeOK, SharedPtr, UnownedStep
  <2>3. \A u \in Threads : Built(raw'[u])
    BY DEF MembersOK, PointersOK, UnownedStep, Built
  <2> QED
    BY <2>1, <2>2, <2>3 DEF MembersOK, PointersOK, UnownedStep, Built
<1>5. NewOK'
  BY <1>1 DEF MembersOK, UnownedStep, NewOK, New
<1>6. SwapsOK'
  <2> SUFFICES ASSUME NEW u \in Threads, pc[u] = "swap"
               PROVE  LET c == copy[u].ctrl IN
                      /\ status'[c] = "built" /\ client_session.ptr # c
                      /\ \A v \in Threads : raw'[v] # c /\ (v # u => copy[v].ptr # c)
    BY <1>1 DEF SwapsOK, UnownedStep
  <2>1. LET c == copy[u].ctrl IN
        /\ c \in Clients /\ status[c] = "built" /\ client_session.ptr # c
        /\ \A v \in Threads : raw[v] # c /\ (v # u => copy[v].ptr # c)
    BY DEF MembersOK, SwapsOK, NewOK, New
  <2> QED
    BY <2>1, NoClientIsNone DEF UnownedStep
<1>7. EndOK'
  BY DEF EndOK, UnownedStep
<1> QED
  BY <1>2, <1>3, <1>4, <1>5, <1>6, <1>7

(***************************************************************************)
(* client_session->method() begins: the thread that reads the pointer      *)
(* reads the client that client_session owns, unless it is assigned now.   *)
(***************************************************************************)
LEMMA DereferenceStep ==
    ASSUME IInv, NEW t \in Threads,
           NEW from \in {"idle", "dial"}, Running(t, from),
           NEW to \in {"connect", "query", "disconnect"}, Dereference(t, to),
           \/ stop' = stop /\ to # "disconnect"
           \/ stop' = TRUE /\ to = "disconnect" /\ closed = FALSE
                /\ client_session.ptr # NoClient,
           UNCHANGED <<client_session, closed, destroyed, logger, clientVars, copy, old,
                       undefined, late, lost>>
    PROVE  IInv'
<1>1. MembersOK /\ TypeOK /\ pc[t] = from
  BY DEF IInv, Running
<1>2. /\ raw' = [raw EXCEPT ![t] = client_session.ptr]
      /\ pc' = [pc EXCEPT ![t] = to]
      /\ UNCHANGED <<client_session, closed, destroyed, logger, status, refs, copy, old,
                  undefined, late, lost>>
  BY DEF Dereference, Goto, clientVars
<1>3. /\ overlapped' \in BOOLEAN
      /\ ~overlapped' => ~overlapped /\ ~Assigning(t)
  BY DEF Dereference
<1>4. UnownedStep(t, to)
  BY <1>1, <1>2, <1>3 DEF UnownedStep, Running, Unowning, TypeOK, SharedPtr
<1>5. TypeOK'
  BY <1>1, <1>2, <1>3 DEF TypeOK, Labels, SharedPtr
<1>6. UnownedOK'
  BY <1>1, <1>2, <1>3 DEF MembersOK, UnownedOK, Assigning, UsesUnowned, TypeOK
<1>7. CloseOK'
  BY <1>1, <1>2 DEF MembersOK, CloseOK, Lingering, TypeOK
<1>8. UndefinedExplained'
  BY <1>2 DEF UndefinedExplained, Running
<1> QED
  BY <1>1, <1>4, <1>5, <1>6, <1>7, <1>8, UnownedStepKeeps DEF IInv, MembersOK

LEMMA BeginDialStep ==
    ASSUME IInv, NEW t \in Threads, BeginDial(t), UNCHANGED logger
    PROVE  IInv'
  BY DereferenceStep DEF BeginDial, controllerVars

LEMMA QueryStep ==
    ASSUME IInv, NEW t \in Threads, Connected(t) \/ GetSubscriptionState(t),
           UNCHANGED logger
    PROVE  IInv'
  BY DereferenceStep DEF Connected, GetSubscriptionState, controllerVars

\* Without a client, disconnect goes on to set closed.
LEMMA BeginDisconnectStep ==
    ASSUME IInv, NEW t \in Threads, BeginDisconnect(t), UNCHANGED logger
    PROVE  IInv'
<1>1. CASE client_session.ptr # NoClient
  <2>1. closed = FALSE
    BY DEF IInv, TypeOK, BeginDisconnect
  <2> QED
    BY <1>1, <2>1, DereferenceStep DEF BeginDisconnect
<1>2. CASE client_session.ptr = NoClient
  <2>1. /\ stop' = TRUE /\ pc' = [pc EXCEPT ![t] = "close"]
        /\ UNCHANGED <<client_session, closed, destroyed, logger, status, refs, copy, old,
                       raw, overlapped, undefined, late, lost>>
        /\ Running(t, "idle")
    BY <1>2 DEF BeginDisconnect, Goto, clientVars
  <2>2. TypeOK /\ MembersOK
    BY <2>1 DEF IInv, Running
  <2>3. TypeOK'
    BY <2>1, <2>2 DEF TypeOK, Labels
  <2>4. UnownedStep(t, "close")
    BY <2>1, <2>2 DEF UnownedStep, Running, Unowning, TypeOK
  <2>5. UnownedOK'
    BY <2>1, <2>2 DEF MembersOK, UnownedOK, Assigning, UsesUnowned, TypeOK, Running
  <2>6. CloseOK'
    BY <1>2, <2>1, <2>2 DEF MembersOK, CloseOK, Lingering, TypeOK
  <2>7. UndefinedExplained'
    BY <2>1 DEF UndefinedExplained, Running
  <2> QED
    BY <2>2, <2>3, <2>4, <2>5, <2>6, <2>7, UnownedStepKeeps DEF IInv, MembersOK
<1> QED
  BY <1>1, <1>2

-----------------------------------------------------------------------------
(***************************************************************************)
(* client_session->method() ends.                                          *)
(***************************************************************************)
LEMMA UsedIsAlive ==
    ASSUME TypeOK, MembersOK, ~overlapped,
           NEW t \in Threads, pc[t] \in {"connect", "query", "disconnect"}
    PROVE  /\ Using(raw[t]) # "freed"
           /\ raw[t] = NoClient => client_session = Nullptr
<1>1. raw[t] = client_session.ptr
  BY DEF MembersOK, UnownedOK
<1>2. \A u \in Threads : pc[u] \notin {"read", "write"}
  BY DEF MembersOK, UnownedOK, UsesUnowned
<1>3. client_session.ptr = client_session.ctrl
  BY <1>2 DEF MembersOK, UnownedOK
<1>4. CASE client_session.ctrl = NoClient
  BY <1>1, <1>3, <1>4 DEF Using, TypeOK, SharedPtr, Nullptr
<1>5. CASE client_session.ctrl \in Clients
  BY <1>1, <1>3, <1>5, OwnedIsAlive, NoClientIsNone DEF Using, MembersOK, Based
<1> QED
  BY <1>4, <1>5 DEF TypeOK, SharedPtr

LEMMA MethodEnds ==
    ASSUME IInv, NEW t \in Threads,
           NEW from \in {"connect", "query", "disconnect"}, Running(t, from),
           NEW to \in {"idle", "close"}, Goto(t, to), EndOfMethod(t),
           \/ status' = status
           \/ \E s \in {"connected", "disconnected"} :
                 /\ Using(raw[t]) = "no"
                 /\ status' = [status EXCEPT ![raw[t]] = s],
           late' \subseteq Clients,
           UNCHANGED <<client_session, stop, closed, destroyed, logger, refs, copy, old,
                       overlapped, lost>>
    PROVE  /\ TypeOK' /\ UndefinedExplained'
           /\ CountsOK' /\ StatusOK' /\ PointersOK' /\ NewOK' /\ SwapsOK'
           /\ UnownedOK' /\ EndOK'
<1>1. /\ MembersOK /\ TypeOK /\ pc[t] = from
      /\ raw' = [raw EXCEPT ![t] = NoClient]
      /\ pc' = [pc EXCEPT ![t] = to]
      /\ undefined' = Using(raw[t])
  BY DEF IInv, Running, Goto, EndOfMethod
<1>2. undefined' \in {"no", "null", "freed"}
  BY <1>1 DEF Using
<1>3. /\ status' \in [Clients -> {"none", "built", "connected", "disconnected", "freed"}]
      /\ \A c \in Clients :
            \/ status'[c] = status[c]
            \/ /\ c = raw[t] /\ status[c] \notin {"none", "freed"}
               /\ status'[c] \in {"connected", "disconnected"}
  BY <1>1 DEF TypeOK, Using, MembersOK, PointersOK, Built
<1>4. UnownedStep(t, to)
  BY <1>1, <1>3 DEF UnownedStep, Running, Unowning, TypeOK
<1>5. TypeOK'
  BY <1>1, <1>2, <1>3 DEF TypeOK, Labels
<1>6. UnownedOK'
  BY <1>1 DEF MembersOK, UnownedOK, Assigning, UsesUnowned, TypeOK
<1>7. UndefinedExplained'
  BY <1>1, UsedIsAlive DEF UndefinedExplained, Using
<1> QED
  BY <1>1, <1>4, <1>5, <1>6, <1>7, UnownedStepKeeps

LEMMA QueriedStep ==
    ASSUME IInv, NEW t \in Threads, Queried(t), UNCHANGED logger
    PROVE  IInv'
<1>1. /\ Running(t, "query") /\ EndOfMethod(t) /\ Goto(t, "idle")
      /\ UNCHANGED <<client_session, stop, closed, destroyed, status, refs, copy, old,
                     overlapped, late, lost>>
      /\ TypeOK /\ MembersOK
  BY DEF Queried, controllerVars, clientVars, IInv, Running
<1>2. /\ TypeOK' /\ UndefinedExplained'
      /\ CountsOK' /\ StatusOK' /\ PointersOK' /\ NewOK' /\ SwapsOK'
      /\ UnownedOK' /\ EndOK'
  BY <1>1, MethodEnds DEF TypeOK
<1>3. CloseOK'
  BY <1>1 DEF MembersOK, CloseOK, Lingering, TypeOK, Goto, EndOfMethod
<1> QED
  BY <1>2, <1>3 DEF IInv, MembersOK

LEMMA MethodOfFreedStep ==
    ASSUME IInv, NEW t \in Threads, MethodOfFreed(t), UNCHANGED logger
    PROVE  IInv'
<1>1. /\ pc[t] \in {"connect", "disconnect"} /\ Running(t, pc[t])
      /\ EndOfMethod(t) /\ Goto(t, "idle") /\ Using(raw[t]) # "no"
      /\ UNCHANGED <<client_session, stop, closed, destroyed, status, refs, copy, old,
                     overlapped, late, lost>>
      /\ TypeOK
  BY DEF MethodOfFreed, controllerVars, clientVars, IInv
<1>2. TypeOK' /\ UndefinedExplained'
  BY <1>1, MethodEnds DEF TypeOK
<1>3. undefined' # "no"
  BY <1>1 DEF EndOfMethod
<1> QED
  BY <1>2, <1>3 DEF IInv

\* A client connected after stop was set is late.
LEMMA DialledStep ==
    ASSUME IInv, NEW t \in Threads, Dialled(t), UNCHANGED logger
    PROVE  IInv'
<1>1. /\ Running(t, "connect") /\ EndOfMethod(t) /\ Goto(t, "idle")
      /\ Using(raw[t]) = "no"
      /\ UNCHANGED <<client_session, stop, closed, destroyed, refs, copy, old, overlapped,
                     lost>>
      /\ \/ /\ status' = [status EXCEPT ![raw[t]] = "connected"]
            /\ late' = IF stop THEN late \cup {raw[t]} ELSE late
         \/ UNCHANGED <<status, late>>
      /\ TypeOK /\ MembersOK
  BY DEF Dialled, controllerVars, IInv, Running
<1>2. raw[t] \in Clients
  BY <1>1 DEF TypeOK, Using
<1>3. late' \subseteq Clients
  BY <1>1, <1>2 DEF TypeOK
<1>4. /\ TypeOK' /\ UndefinedExplained'
      /\ CountsOK' /\ StatusOK' /\ PointersOK' /\ NewOK' /\ SwapsOK'
      /\ UnownedOK' /\ EndOK'
  BY <1>1, <1>3, MethodEnds
<1>5. Lingering' => Lingering
  BY <1>1, <1>2 DEF Lingering, TypeOK, SharedPtr
<1>6. CloseOK'
  BY <1>1, <1>5 DEF MembersOK, CloseOK, TypeOK, Goto, EndOfMethod
<1> QED
  BY <1>4, <1>6 DEF IInv, MembersOK

\* The client that disconnect was about is disconnected before closed is set.
LEMMA DisconnectedStep ==
    ASSUME IInv, NEW t \in Threads, Disconnected(t), UNCHANGED logger
    PROVE  IInv'
<1>1. /\ Running(t, "disconnect") /\ EndOfMethod(t) /\ Goto(t, "close")
      /\ Using(raw[t]) = "no" /\ pc[t] = "disconnect"
      /\ UNCHANGED <<client_session, stop, closed, destroyed, refs, copy, old, overlapped,
                     late, lost>>
      /\ status' = [status EXCEPT ![raw[t]] = "disconnected"]
      /\ TypeOK /\ MembersOK
  BY DEF Disconnected, controllerVars, IInv, Running
<1>2. raw[t] \in Clients
  BY <1>1 DEF TypeOK, Using
<1>3. /\ TypeOK' /\ UndefinedExplained'
      /\ CountsOK' /\ StatusOK' /\ PointersOK' /\ NewOK' /\ SwapsOK'
      /\ UnownedOK' /\ EndOK'
  BY <1>1, MethodEnds DEF TypeOK
<1>4. ~Lingering'
  <2>1. Lingering' => Lingering
    BY <1>1, <1>2 DEF Lingering, TypeOK
  <2>2. Lingering => raw[t] = client_session.ptr
    BY <1>1 DEF MembersOK, CloseOK
  <2> QED
    BY <1>1, <1>2, <2>1, <2>2 DEF Lingering, TypeOK
<1>5. CloseOK'
  BY <1>1, <1>4 DEF MembersOK, CloseOK, TypeOK, Goto
<1> QED
  BY <1>3, <1>5 DEF IInv, MembersOK

LEMMA EndDisconnectStep ==
    ASSUME IInv, NEW t \in Threads, EndDisconnect(t), UNCHANGED logger
    PROVE  IInv'
<1>1. /\ Running(t, "close") /\ closed' = TRUE /\ pc' = [pc EXCEPT ![t] = "idle"]
      /\ UNCHANGED <<client_session, stop, destroyed, logger, status, refs, copy, old, raw,
                     undefined, overlapped, late, lost>>
      /\ pc[t] = "close" /\ TypeOK /\ MembersOK
  BY DEF EndDisconnect, clientVars, historyVars, Goto, IInv, Running
<1>2. TypeOK'
  BY <1>1 DEF TypeOK, Labels
<1>3. UnownedStep(t, "idle")
  BY <1>1 DEF UnownedStep, Running, Unowning, TypeOK
<1>4. UnownedOK'
  BY <1>1 DEF MembersOK, UnownedOK, Assigning, UsesUnowned, TypeOK
<1>5. CloseOK'
  BY <1>1 DEF MembersOK, CloseOK, Lingering, TypeOK
<1>6. UndefinedExplained'
  BY <1>1 DEF UndefinedExplained, Running
<1> QED
  BY <1>1, <1>2, <1>3, <1>4, <1>5, <1>6, UnownedStepKeeps DEF IInv, MembersOK

-----------------------------------------------------------------------------
(***************************************************************************)
(* connect assigns its client to client_session.                           *)
(***************************************************************************)
LEMMA BuildClientStep ==
    ASSUME IInv, NEW t \in Threads, BuildClient(t), UNCHANGED logger
    PROVE  IInv'
<1>1. TypeOK /\ MembersOK /\ Running(t, "idle") /\ pc[t] = "idle" /\ undefined = "no"
  BY DEF BuildClient, IInv, Running
<1>2. PICK c \in Clients :
          /\ status[c] = "none"
          /\ status' = [status EXCEPT ![c] = "built"]
          /\ refs' = Counted(c)
          /\ copy' = [copy EXCEPT ![t] = [ptr |-> c, ctrl |-> c]]
  BY DEF BuildClient
<1>3. /\ pc' = [pc EXCEPT ![t] = "swap"]
      /\ UNCHANGED <<client_session, stop, closed, destroyed, logger, old, raw, undefined,
                     overlapped, late, lost>>
  BY DEF BuildClient, Goto, controllerVars, historyVars
<1>4. refs' = [refs EXCEPT ![c] = @ + 1]
  BY <1>2, NoClientIsNone DEF Counted
<1>5. TypeOK'
  BY <1>1, <1>2, <1>3, <1>4 DEF TypeOK, SharedPtr, Labels
<1>6. /\ copy'[t].ptr = c /\ copy'[t].ctrl = c /\ pc'[t] = "swap"
      /\ \A u \in Threads : u # t => copy'[u] = copy[u] /\ pc'[u] = pc[u]
  BY <1>1, <1>2, <1>3 DEF TypeOK
\* Nothing points to a client that was not built.
<1>7. /\ client_session.ptr # c /\ client_session.ctrl # c /\ c \notin lost
      /\ \A u \in Threads : raw[u] # c /\ old[u] # c /\ copy[u].ptr # c /\ copy[u].ctrl # c
  BY <1>1, <1>2, NoClientIsNone DEF MembersOK, PointersOK, Built
<1>8. CountsOK'
  <2> SUFFICES ASSUME NEW d \in Clients
               PROVE  /\ IsFiniteSet(Callers(d)')
                      /\ refs'[d] <= Cardinality(Callers(d)') + One(d)'
                      /\ ~overlapped => refs'[d] = Cardinality(Callers(d)') + One(d)'
    BY <1>3 DEF CountsOK
  <2>1. /\ IsFiniteSet(Callers(d))
        /\ refs[d] <= Cardinality(Callers(d)) + One(d)
        /\ ~overlapped => refs[d] = Cardinality(Callers(d)) + One(d)
        /\ Cardinality(Callers(d)) \in Nat /\ refs[d] \in Nat
    BY <1>1, FS_CardinalityType DEF MembersOK, CountsOK, TypeOK
  <2>2. Callers(d)' = Callers(d)
    <3>1. \A u \in Threads : Calls(u, d)' <=> Calls(u, d)
      BY <1>1, <1>6 DEF Calls
    <3> QED
      BY <3>1, CallersStay
  <2>3. CASE d = c
    <3>1. ~Based(d)
      BY <1>7, <2>3 DEF Based, Replaced
    <3>2. Based(d)'
      BY <1>6, <2>3 DEF Based, New
    <3>3. refs'[d] = refs[d] + 1
      BY <1>1, <1>4, <2>3 DEF TypeOK
    <3> QED
      BY <2>1, <2>2, <3>1, <3>2, <3>3 DEF One
  <2>4. CASE d # c
    <3>1. Replaced(d)' <=> Replaced(d)
      BY <1>1, <1>3, <1>6 DEF Replaced
    <3>2. Based(d)' <=> Based(d)
      BY <1>1, <1>3, <1>6, <2>4, <3>1 DEF Based, New
    <3>3. refs'[d] = refs[d]
      BY <1>1, <1>4, <2>4 DEF TypeOK
    <3> QED
      BY <2>1, <2>2, <3>2, <3>3 DEF One
  <2> QED
    BY <2>3, <2>4
<1>9. StatusOK'
  BY <1>1, <1>2, <1>4 DEF MembersOK, StatusOK, TypeOK
<1>10. PointersOK'
  <2>1. \A d \in Clients \cup {NoClient} : Built(d) => Built(d)'
    BY <1>1, <1>2, NoClientIsNone DEF Built, TypeOK
  <2>2. Built(c)'
    BY <1>1, <1>2 DEF Built, TypeOK
  <2> QED
    BY <1>1, <1>3, <1>6, <2>1, <2>2 DEF MembersOK, PointersOK, Built, TypeOK, SharedPtr
<1>11. NewOK'
  <2> SUFFICES ASSUME NEW u \in Threads, New(u)'
               PROVE  LET d == copy'[u].ctrl IN
                      /\ d \in Clients /\ copy'[u].ptr = d
                      /\ client_session.ctrl # d /\ d \notin lost
                      /\ \A v \in Threads : old[v] # d /\ (v # u => copy'[v].ctrl # d)
    BY <1>3 DEF NewOK
  <2>1. CASE u = t
    BY <1>6, <1>7, <2>1
  <2>2. CASE u # t
    <3>1. New(u)
      BY <1>6, <2>2 DEF New
    <3> QED
      BY <1>1, <1>6, <1>7, <2>2, <3>1 DEF MembersOK, NewOK
  <2> QED
    BY <2>1, <2>2
<1>12. SwapsOK'
  <2> SUFFICES ASSUME NEW u \in Threads, pc'[u] = "swap"
               PROVE  LET d == copy'[u].ctrl IN
                      /\ status'[d] = "built" /\ client_session.ptr # d
                      /\ \A v \in Threads : raw[v] # d /\ (v # u => copy'[v].ptr # d)
    BY <1>3 DEF SwapsOK
  <2>1. CASE u = t
    BY <1>1, <1>2, <1>6, <1>7, <2>1 DEF TypeOK
  <2>2. CASE u # t
    <3>1. LET d == copy[u].ctrl IN
          /\ d # c /\ d \in Clients /\ status[d] = "built" /\ client_session.ptr # d
          /\ \A v \in Threads : raw[v] # d /\ (v # u => copy[v].ptr # d)
      BY <1>1, <1>6, <1>7, <2>2 DEF MembersOK, SwapsOK, NewOK, New
    <3> QED
      BY <1>1, <1>2, <1>6, <2>2, <3>1 DEF TypeOK
  <2> QED
    BY <2>1, <2>2
<1>13. UnownedOK'
  BY <1>1, <1>3, <1>6 DEF MembersOK, UnownedOK, Assigning, UsesUnowned
<1>14. CloseOK'
  BY <1>1, <1>2, <1>3, <1>7 DEF MembersOK, CloseOK, Lingering, TypeOK, SharedPtr
<1>15. EndOK' /\ UndefinedExplained'
  BY <1>1, <1>3 DEF EndOK, UndefinedExplained, Running
<1> QED
  BY <1>5, <1>8, <1>9, <1>10, <1>11, <1>12, <1>13, <1>14, <1>15 DEF IInv, MembersOK

\* The client that takes over is not connected yet.
LEMMA WritePointerStep ==
    ASSUME IInv, NEW t \in Threads, WritePointer(t), UNCHANGED logger
    PROVE  IInv'
<1>1. /\ TypeOK /\ MembersOK /\ Running(t, "swap") /\ pc[t] = "swap"
      /\ client_session' = [client_session EXCEPT !.ptr = copy[t].ptr]
      /\ pc' = [pc EXCEPT ![t] = "read"]
      /\ UNCHANGED <<stop, closed, destroyed, logger, status, refs, copy, old, raw,
                     undefined, late, lost>>
  BY DEF WritePointer, clientVars, Goto, IInv, Running
<1>2. /\ overlapped' \in BOOLEAN
      /\ ~overlapped' => ~overlapped /\ ~Assigning(t) /\ ~UsesUnowned(t)
  BY DEF WritePointer
<1>3. /\ copy[t].ctrl \in Clients /\ copy[t].ptr = copy[t].ctrl
      /\ status[copy[t].ctrl] = "built" /\ client_session.ptr # copy[t].ctrl
      /\ \A u \in Threads : raw[u] # copy[t].ctrl /\ (u # t => copy[u].ptr # copy[t].ctrl)
  BY <1>1 DEF MembersOK, NewOK, New, SwapsOK
<1>4. /\ client_session'.ptr = copy[t].ctrl /\ client_session'.ctrl = client_session.ctrl
      /\ client_session' \in SharedPtr
      /\ pc'[t] = "read" /\ \A u \in Threads : u # t => pc'[u] = pc[u]
  BY <1>1, <1>3 DEF TypeOK, SharedPtr
<1>5. TypeOK'
  BY <1>1, <1>2, <1>4 DEF TypeOK, Labels
<1>6. CountsOK'
  <2>1. \A c \in Clients : Based(c)' <=> Based(c)
    BY <1>1, <1>4 DEF Based, Replaced, New
  <2>2. \A c \in Clients, u \in Threads : Calls(u, c)' <=> Calls(u, c)
    BY <1>1, <1>4 DEF Calls
  <2> QED
    BY <1>1, <1>2, <2>1, <2>2, CountsStay DEF MembersOK
<1>7. StatusOK'
  BY <1>1 DEF MembersOK, StatusOK
<1>8. PointersOK'
  BY <1>1, <1>3, <1>4 DEF MembersOK, PointersOK, Built
<1>9. NewOK'
  BY <1>1, <1>4 DEF MembersOK, NewOK, New
<1>10. SwapsOK'
  <2> SUFFICES ASSUME NEW u \in Threads, pc'[u] = "swap"
               PROVE  LET d == copy[u].ctrl IN
                      /\ status[d] = "built" /\ client_session'.ptr # d
                      /\ \A v \in Threads : raw[v] # d /\ (v # u => copy[v].ptr # d)
    BY <1>1 DEF SwapsOK
  <2>1. u # t /\ pc[u] = "swap"
    BY <1>4
  <2> QED
    BY <1>1, <1>4, <2>1 DEF MembersOK, SwapsOK, NewOK, New
<1>11. UnownedOK'
  BY <1>1, <1>2, <1>4 DEF MembersOK, UnownedOK, Assigning, UsesUnowned
<1>12. CloseOK'
  BY <1>1, <1>3, <1>4 DEF MembersOK, CloseOK, Lingering
<1>13. EndOK' /\ UndefinedExplained'
  BY <1>1 DEF EndOK, UndefinedExplained, Running
<1> QED
  BY <1>5, <1>6, <1>7, <1>8, <1>9, <1>10, <1>11, <1>12, <1>13 DEF IInv, MembersOK

\* What connect reads client_session still owns.
LEMMA ReadControlStep ==
    ASSUME IInv, NEW t \in Threads, ReadControl(t), UNCHANGED logger
    PROVE  IInv'
<1>1. /\ TypeOK /\ MembersOK /\ Running(t, "read") /\ pc[t] = "read"
      /\ old' = [old EXCEPT ![t] = client_session.ctrl]
      /\ pc' = [pc EXCEPT ![t] = "write"]
      /\ UNCHANGED <<client_session, stop, closed, destroyed, logger, status, refs, copy,
                     raw, undefined, overlapped, late, lost>>
  BY DEF ReadControl, controllerVars, clientVars, historyVars, Goto, IInv, Running
<1>2. /\ old'[t] = client_session.ctrl /\ old' \in [Threads -> Clients \cup {NoClient}]
      /\ pc'[t] = "write"
      /\ \A u \in Threads : u # t => pc'[u] = pc[u] /\ old'[u] = old[u]
  BY <1>1 DEF TypeOK, SharedPtr
<1>3. TypeOK'
  BY <1>1, <1>2 DEF TypeOK, Labels
<1>4. CountsOK'
  <2>1. \A c \in Clients : Replaced(c)' <=> (Replaced(c) \/ client_session.ctrl = c)
    BY <1>1, <1>2 DEF Replaced
  <2>2. \A c \in Clients : Based(c)' <=> Based(c)
    BY <1>1, <1>2, <2>1 DEF Based, New
  <2>3. \A c \in Clients, u \in Threads : Calls(u, c)' <=> Calls(u, c)
    BY <1>1, <1>2 DEF Calls
  <2> QED
    BY <1>1, <2>2, <2>3, CountsStay DEF MembersOK
<1>5. StatusOK'
  BY <1>1 DEF MembersOK, StatusOK
<1>6. PointersOK'
  BY <1>1, <1>2 DEF MembersOK, PointersOK, Built
<1>7. NewOK'
  BY <1>1, <1>2 DEF MembersOK, NewOK, New
<1>8. SwapsOK'
  BY <1>1, <1>2 DEF MembersOK, SwapsOK
<1>9. UnownedOK'
  BY <1>1, <1>2 DEF MembersOK, UnownedOK, Assigning, UsesUnowned
<1>10. CloseOK'
  BY <1>1, <1>2 DEF MembersOK, CloseOK, Lingering
<1>11. EndOK' /\ UndefinedExplained'
  BY <1>1 DEF EndOK, UndefinedExplained, Running
<1> QED
  BY <1>3, <1>4, <1>5, <1>6, <1>7, <1>8, <1>9, <1>10, <1>11 DEF IInv, MembersOK

\* The control block that is overwritten is one that a connect will release, or
\* it is lost.
LEMMA WriteControlStep ==
    ASSUME IInv, NEW t \in Threads, WriteControl(t), UNCHANGED logger
    PROVE  IInv'
<1> DEFINE new == copy[t].ctrl
<1>1. /\ TypeOK /\ MembersOK /\ Running(t, "write") /\ pc[t] = "write"
      /\ client_session' = [client_session EXCEPT !.ctrl = new]
      /\ copy' = [copy EXCEPT ![t] = Nullptr]
      /\ lost' = lost \cup {c \in Clients : c = client_session.ctrl /\ ~Replaced(c)}
      /\ pc' = [pc EXCEPT ![t] = "release"]
      /\ UNCHANGED <<stop, closed, destroyed, logger, status, refs, old, raw, undefined,
                     overlapped, late>>
  BY DEF WriteControl, clientVars, Goto, IInv, Running
<1>2. /\ new \in Clients /\ copy[t].ptr = new
      /\ client_session.ctrl # new /\ new \notin lost
      /\ \A u \in Threads : old[u] # new /\ (u # t => copy[u].ctrl # new)
  BY <1>1 DEF MembersOK, NewOK, New
<1>3. /\ client_session'.ptr = client_session.ptr /\ client_session'.ctrl = new
      /\ client_session' \in SharedPtr
      /\ copy'[t] = Nullptr /\ copy' \in [Threads -> SharedPtr] /\ pc'[t] = "release"
      /\ \A u \in Threads : u # t => copy'[u] = copy[u] /\ pc'[u] = pc[u]
  BY <1>1, <1>2 DEF TypeOK, SharedPtr, Nullptr
<1>4. TypeOK'
  BY <1>1, <1>3 DEF TypeOK, Labels
<1>5. CountsOK'
  <2>1. \A c \in Clients : Replaced(c)' <=> Replaced(c)
    BY <1>1, <1>3 DEF Replaced
  <2>2. ASSUME NEW c \in Clients PROVE Based(c)' <=> Based(c)
    <3>1. (\E u \in Threads : New(u) /\ copy[u].ctrl = c) <=>
             c = new \/ \E u \in Threads : (New(u) /\ copy[u].ctrl = c)'
      BY <1>1, <1>3 DEF New
    <3>2. c \in lost' <=> c \in lost \/ (c = client_session.ctrl /\ ~Replaced(c))
      BY <1>1
    <3> QED
      BY <1>3, <2>1, <3>1, <3>2 DEF Based
  <2>3. \A c \in Clients, u \in Threads : Calls(u, c)' <=> Calls(u, c)
    BY <1>1, <1>3 DEF Calls
  <2> QED
    BY <1>1, <2>2, <2>3, CountsStay DEF MembersOK
<1>6. StatusOK'
  BY <1>1 DEF MembersOK, StatusOK
<1>7. PointersOK'
  BY <1>1, <1>3 DEF MembersOK, PointersOK, Built, Nullptr
<1>8. NewOK'
  <2> SUFFICES ASSUME NEW u \in Threads, New(u)'
               PROVE  LET d == copy'[u].ctrl IN
                      /\ d \in Clients /\ copy'[u].ptr = d
                      /\ client_session'.ctrl # d /\ d \notin lost'
                      /\ \A v \in Threads : old[v] # d /\ (v # u => copy'[v].ctrl # d)
    BY <1>1 DEF NewOK
  <2>1. u # t /\ New(u) /\ copy'[u] = copy[u]
    BY <1>3 DEF New
  <2>2. LET d == copy[u].ctrl IN
        /\ d \in Clients /\ copy[u].ptr = d
        /\ client_session.ctrl # d /\ d \notin lost
        /\ \A v \in Threads : old[v] # d /\ (v # u => copy[v].ctrl # d)
    BY <1>1, <2>1 DEF MembersOK, NewOK
  <2> QED
    BY <1>1, <1>2, <1>3, <2>1, <2>2, NoClientIsNone DEF Nullptr
<1>9. SwapsOK'
  <2> SUFFICES ASSUME NEW u \in Threads, pc'[u] = "swap"
               PROVE  LET d == copy'[u].ctrl IN
                      /\ status[d] = "built" /\ client_session'.ptr # d
                      /\ \A v \in Threads : raw[v] # d /\ (v # u => copy'[v].ptr # d)
    BY <1>1 DEF SwapsOK
  <2>1. u # t /\ pc[u] = "swap" /\ copy'[u] = copy[u]
    BY <1>3
  <2>2. LET d == copy[u].ctrl IN
        /\ d \in Clients /\ status[d] = "built" /\ client_session.ptr # d
        /\ \A v \in Threads : raw[v] # d /\ (v # u => copy[v].ptr # d)
    BY <1>1, <2>1 DEF MembersOK, SwapsOK, NewOK, New
  <2> QED
    BY <1>3, <2>1, <2>2, NoClientIsNone DEF Nullptr
<1>10. UnownedOK'
  <2> SUFFICES ASSUME ~overlapped PROVE UnownedOK'
    BY <1>1 DEF UnownedOK
  <2>1. /\ lost = {} /\ old[t] = client_session.ctrl /\ client_session.ptr = new
        /\ \A u \in Threads \ {t} : /\ pc[u] \notin {"read", "write"}
                                    /\ pc[u] \notin {"connect", "query", "disconnect",
                                                     "copy", "count"}
    BY <1>1 DEF MembersOK, UnownedOK, Assigning, UsesUnowned
  <2>2. lost' = {}
    BY <1>1, <2>1 DEF Replaced
  <2>3. ASSUME NEW u \in Threads, pc'[u] = "release", old[u] # NoClient
        PROVE  /\ old[u] # client_session'.ctrl
               /\ \A v \in Threads \ {u} :
                     pc'[v] \in {"write", "release"} => old[v] # old[u]
    <3>1. old[u] # client_session'.ctrl
      BY <1>2, <1>3
    <3>2. \A v \in Threads \ {t} : (pc[v] = "release" /\ old[v] # NoClient) =>
             /\ old[v] # old[t]
             /\ \A w \in Threads \ {v} : pc[w] \in {"write", "release"} => old[w] # old[v]
      BY <1>1, <2>1 DEF MembersOK, UnownedOK
    <3> QED
      BY <1>3, <2>1, <2>3, <3>1, <3>2
  <2>4. \A u \in Threads :
           /\ pc'[u] \notin {"read", "write", "connect", "query", "disconnect", "copy",
                             "count"}
           /\ pc'[u] = "call" => pc[u] = "call" /\ copy'[u] = copy[u]
    BY <1>3, <2>1
  <2>5. \A u \in Threads : pc[u] = "call" => copy[u].ptr = copy[u].ctrl
    BY <1>1 DEF MembersOK, UnownedOK
  <2> QED
    BY <1>1, <1>3, <2>1, <2>2, <2>3, <2>4, <2>5 DEF UnownedOK
<1>11. CloseOK'
  BY <1>1, <1>3 DEF MembersOK, CloseOK, Lingering
<1>12. EndOK' /\ UndefinedExplained'
  BY <1>1 DEF EndOK, UndefinedExplained, Running
<1> QED
  BY <1>4, <1>5, <1>6, <1>7, <1>8, <1>9, <1>10, <1>11, <1>12 DEF IInv, MembersOK

\* The release of a count, if the client has one left.
LEMMA ReleaseOne ==
    ASSUME TypeOK, NEW c \in Clients \cup {NoClient}
    PROVE  /\ Released(c) \in [Clients -> Nat]
           /\ \A d \in Clients :
                 Released(c)[d] = IF d = c /\ refs[d] # 0 THEN refs[d] - 1 ELSE refs[d]
           /\ AfterRelease(c) \in
                 [Clients -> {"none", "built", "connected", "disconnected", "freed"}]
           /\ \A d \in Clients :
                 AfterRelease(c)[d] = IF d = c /\ refs[d] = 1 THEN "freed" ELSE status[d]
<1>1. /\ refs \in [Clients -> Nat] /\ NoClient \notin Clients
      /\ status \in [Clients -> {"none", "built", "connected", "disconnected", "freed"}]
  BY NoClientIsNone DEF TypeOK
<1>2. \A d \in Clients :
         Released(c)[d] = IF d = c /\ refs[d] # 0 THEN refs[d] - 1 ELSE refs[d]
  BY <1>1 DEF Released
<1>3. \A d \in Clients :
         AfterRelease(c)[d] = IF d = c /\ refs[d] = 1 THEN "freed" ELSE status[d]
  BY <1>1 DEF AfterRelease, Freed
<1>4. Released(c) \in [Clients -> Nat]
  BY <1>1 DEF Released
<1>5. AfterRelease(c) \in
         [Clients -> {"none", "built", "connected", "disconnected", "freed"}]
  BY <1>1 DEF AfterRelease
<1> QED
  BY <1>2, <1>3, <1>4, <1>5

\* The release keeps status and count together, and makes no client unbuilt.
LEMMA ReleaseKeeps ==
    ASSUME TypeOK, StatusOK, NEW c \in Clients \cup {NoClient},
           refs' = Released(c), status' = AfterRelease(c)
    PROVE  /\ StatusOK'
           /\ \A d \in Clients \cup {NoClient} : Built(d) => Built(d)'
           /\ \A d \in Clients : status'[d] # "freed" => status'[d] = status[d]
           /\ \A d \in Clients : d # c => status'[d] = status[d]
<1>1. \A d \in Clients :
         /\ refs[d] \in Nat
         /\ refs'[d] = IF d = c /\ refs[d] # 0 THEN refs[d] - 1 ELSE refs[d]
         /\ status'[d] = IF d = c /\ refs[d] = 1 THEN "freed" ELSE status[d]
  BY ReleaseOne DEF TypeOK
<1>2. StatusOK'
  <2> SUFFICES ASSUME NEW d \in Clients
               PROVE  refs'[d] = 0 <=> status'[d] \in {"none", "freed"}
    BY DEF StatusOK
  <2>1. refs[d] = 0 <=> status[d] \in {"none", "freed"}
    BY DEF StatusOK
  <2> QED
    BY <1>1, <2>1
<1> QED
  BY <1>1, <1>2 DEF Built

\* A client that may be freed is not one that a thread has yet to assign.
LEMMA ReleaseOldStep ==
    ASSUME IInv, NEW t \in Threads, ReleaseOld(t), UNCHANGED logger
    PROVE  IInv'
<1> DEFINE c == old[t]
<1>1. /\ TypeOK /\ MembersOK /\ Running(t, "release") /\ pc[t] = "release"
      /\ undefined' = Counting(c) /\ refs' = Released(c) /\ status' = AfterRelease(c)
      /\ old' = [old EXCEPT ![t] = NoClient]
      /\ pc' = [pc EXCEPT ![t] = "dial"]
      /\ UNCHANGED <<client_session, stop, closed, destroyed, logger, copy, raw,
                     overlapped, late, lost>>
  BY DEF ReleaseOld, controllerVars, Goto, IInv, Running
<1>2. /\ c \in Clients \cup {NoClient}
      /\ old'[t] = NoClient /\ old' \in [Threads -> Clients \cup {NoClient}]
      /\ pc'[t] = "dial"
      /\ \A u \in Threads : u # t => pc'[u] = pc[u] /\ old'[u] = old[u]
  BY <1>1 DEF TypeOK
<1>3. undefined' \in {"no", "freed"}
  BY <1>1 DEF Counting, Using
<1>4. TypeOK'
  BY <1>1, <1>2, <1>3, ReleaseOne DEF TypeOK, Labels
<1>5. /\ StatusOK'
      /\ \A d \in Clients \cup {NoClient} : Built(d) => Built(d)'
      /\ \A d \in Clients : status'[d] # "freed" => status'[d] = status[d]
      /\ \A d \in Clients : d # c => status'[d] = status[d]
  BY <1>1, <1>2, ReleaseKeeps DEF MembersOK
<1>6. (~overlapped /\ c \in Clients) => refs[c] # 0 /\ status[c] # "freed"
  <2>1. Based(c)
    BY <1>1 DEF Based, Replaced
  <2> QED
    BY <1>1, <2>1, OwnedIsAlive DEF MembersOK
<1>7. UndefinedExplained'
  BY <1>1, <1>2, <1>3, <1>6 DEF UndefinedExplained, Counting, Using
<1>8. CountsOK'
  <2> SUFFICES ASSUME NEW d \in Clients
               PROVE  /\ IsFiniteSet(Callers(d)')
                      /\ refs'[d] <= Cardinality(Callers(d)') + One(d)'
                      /\ ~overlapped => refs'[d] = Cardinality(Callers(d)') + One(d)'
    BY <1>1 DEF CountsOK
  <2>1. /\ IsFiniteSet(Callers(d))
        /\ refs[d] <= Cardinality(Callers(d)) + One(d)
        /\ ~overlapped => refs[d] = Cardinality(Callers(d)) + One(d)
        /\ Cardinality(Callers(d)) \in Nat /\ refs[d] \in Nat
    BY <1>1, FS_CardinalityType DEF MembersOK, CountsOK, TypeOK
  <2>2. Callers(d)' = Callers(d)
    <3>1. \A u \in Threads : Calls(u, d)' <=> Calls(u, d)
      BY <1>1, <1>2 DEF Calls
    <3> QED
      BY <3>1, CallersStay
  <2>3. refs'[d] = IF d = c /\ refs[d] # 0 THEN refs[d] - 1 ELSE refs[d]
    BY <1>1, <1>2, ReleaseOne
  <2>4. CASE d = c
    <3>1. Based(d)
      BY <1>1, <2>4 DEF Based, Replaced
    <3>2. ~overlapped => ~Based(d)'
      <4> SUFFICES ASSUME ~overlapped PROVE ~Based(d)'
        OBVIOUS
      <4>1. client_session.ctrl # d /\ d \notin lost
        BY <1>1, <2>4, NoClientIsNone DEF MembersOK, UnownedOK
      <4>2. ~Replaced(d)'
        <5>1. \A u \in Threads \ {t} : pc[u] \in {"write", "release"} => old[u] # d
          BY <1>1, <2>4, NoClientIsNone DEF MembersOK, UnownedOK
        <5> QED
          BY <1>2, <5>1 DEF Replaced
      <4>3. \A u \in Threads : New(u) => copy[u].ctrl # d
        BY <1>1, <2>4 DEF MembersOK, NewOK
      <4> QED
        BY <1>1, <1>2, <4>1, <4>2, <4>3 DEF Based, New
    <3>3. One(d) = 1 /\ One(d)' \in {0, 1} /\ (~overlapped => One(d)' = 0)
      BY <3>1, <3>2 DEF One
    <3>4. ~overlapped => refs[d] # 0
      BY <1>6, <2>4
    <3> QED
      BY <2>1, <2>2, <2>3, <2>4, <3>3, <3>4
  <2>5. CASE d # c
    <3>1. Replaced(d)' <=> Replaced(d)
      BY <1>1, <1>2, <2>5 DEF Replaced
    <3>2. Based(d)' <=> Based(d)
      BY <1>1, <1>2, <3>1 DEF Based, New
    <3> QED
      BY <2>1, <2>2, <2>3, <2>5, <3>2 DEF One
  <2> QED
    BY <2>4, <2>5
<1>9. PointersOK'
  <2>1. Built(NoClient)'
    BY DEF Built
  <2> QED
    BY <1>1, <1>2, <1>5, <2>1 DEF MembersOK, PointersOK, Built, TypeOK, SharedPtr
<1>10. NewOK'
  <2> SUFFICES ASSUME NEW u \in Threads, New(u)'
               PROVE  LET d == copy[u].ctrl IN
                      /\ d \in Clients /\ copy[u].ptr = d
                      /\ client_session.ctrl # d /\ d \notin lost
                      /\ \A v \in Threads : old'[v] # d /\ (v # u => copy[v].ctrl # d)
    BY <1>1 DEF NewOK
  <2>1. New(u)
    BY <1>2 DEF New
  <2> QED
    BY <1>1, <1>2, <2>1, NoClientIsNone DEF MembersOK, NewOK
<1>11. SwapsOK'
  <2> SUFFICES ASSUME NEW u \in Threads, pc'[u] = "swap"
               PROVE  LET d == copy[u].ctrl IN
                      /\ status'[d] = "built" /\ client_session.ptr # d
                      /\ \A v \in Threads : raw[v] # d /\ (v # u => copy[v].ptr # d)
    BY <1>1 DEF SwapsOK
  <2>1. pc[u] = "swap"
    BY <1>2
  <2>2. copy[u].ctrl \in Clients /\ copy[u].ctrl # c
    BY <1>1, <2>1 DEF MembersOK, NewOK, New
  <2> QED
    BY <1>1, <1>5, <2>1, <2>2 DEF MembersOK, SwapsOK
<1>12. UnownedOK'
  BY <1>1, <1>2 DEF MembersOK, UnownedOK, Assigning, UsesUnowned
<1>13. CloseOK'
  <2>1. Lingering' => Lingering
    BY <1>1, <1>5 DEF Lingering, TypeOK, SharedPtr
  <2> QED
    BY <1>1, <1>2, <2>1 DEF MembersOK, CloseOK
<1>14. EndOK'
  BY <1>1 DEF EndOK, Running
<1> QED
  BY <1>4, <1>5, <1>7, <1>8, <1>9, <1>10, <1>11, <1>12, <1>13, <1>14 DEF IInv, MembersOK

-----------------------------------------------------------------------------
(***************************************************************************)
(* A call copies client_session: the pointer, the control block, the count.*)
(***************************************************************************)
LEMMA CopyPointerStep ==
    ASSUME IInv, NEW t \in Threads, CopyPointer(t), UNCHANGED logger
    PROVE  IInv'
<1>1. /\ TypeOK /\ MembersOK /\ Running(t, "idle") /\ pc[t] = "idle"
      /\ copy' = [copy EXCEPT ![t] = [@ EXCEPT !.ptr = client_session.ptr]]
      /\ pc' = [pc EXCEPT ![t] = "copy"]
      /\ UNCHANGED <<client_session, stop, closed, destroyed, logger, status, refs, old,
                     raw, undefined, late, lost>>
  BY DEF CopyPointer, controllerVars, clientVars, Goto, IInv, Running
<1>2. /\ overlapped' \in BOOLEAN
      /\ ~overlapped' => ~overlapped /\ ~Assigning(t)
  BY DEF CopyPointer
<1>3. /\ copy'[t].ptr = client_session.ptr /\ copy'[t].ctrl = copy[t].ctrl
      /\ copy' \in [Threads -> SharedPtr] /\ pc'[t] = "copy"
      /\ \A u \in Threads : copy'[u].ctrl = copy[u].ctrl
      /\ \A u \in Threads : u # t => pc'[u] = pc[u] /\ copy'[u] = copy[u]
  BY <1>1 DEF TypeOK, SharedPtr
<1>4. TypeOK'
  BY <1>1, <1>2, <1>3 DEF TypeOK, Labels
<1>5. CountsOK'
  <2>1. \A c \in Clients : Based(c)' <=> Based(c)
    BY <1>1, <1>3 DEF Based, Replaced, New
  <2>2. \A c \in Clients, u \in Threads : Calls(u, c)' <=> Calls(u, c)
    BY <1>1, <1>3 DEF Calls
  <2> QED
    BY <1>1, <1>2, <2>1, <2>2, CountsStay DEF MembersOK
<1>6. StatusOK'
  BY <1>1 DEF MembersOK, StatusOK
<1>7. PointersOK'
  BY <1>1, <1>3 DEF MembersOK, PointersOK, Built
<1>8. NewOK'
  BY <1>1, <1>3 DEF MembersOK, NewOK, New
<1>9. SwapsOK'
  BY <1>1, <1>3 DEF MembersOK, SwapsOK
<1>10. UnownedOK'
  BY <1>1, <1>2, <1>3 DEF MembersOK, UnownedOK, Assigning, UsesUnowned
<1>11. CloseOK'
  BY <1>1, <1>3 DEF MembersOK, CloseOK, Lingering
<1>12. EndOK' /\ UndefinedExplained'
  BY <1>1 DEF EndOK, UndefinedExplained, Running
<1> QED
  BY <1>4, <1>5, <1>6, <1>7, <1>8, <1>9, <1>10, <1>11, <1>12 DEF IInv, MembersOK

LEMMA CopyControlStep ==
    ASSUME IInv, NEW t \in Threads, CopyControl(t), UNCHANGED logger
    PROVE  IInv'
<1>1. /\ TypeOK /\ MembersOK /\ Running(t, "copy") /\ pc[t] = "copy"
      /\ copy' = [copy EXCEPT ![t] = [@ EXCEPT !.ctrl = client_session.ctrl]]
      /\ pc' = [pc EXCEPT ![t] = "count"]
      /\ UNCHANGED <<client_session, stop, closed, destroyed, logger, status, refs, old,
                     raw, undefined, overlapped, late, lost>>
  BY DEF CopyControl, controllerVars, clientVars, historyVars, Goto, IInv, Running
<1>2. /\ copy'[t].ctrl = client_session.ctrl /\ copy'[t].ptr = copy[t].ptr
      /\ copy' \in [Threads -> SharedPtr] /\ pc'[t] = "count"
      /\ \A u \in Threads : copy'[u].ptr = copy[u].ptr
      /\ \A u \in Threads : u # t => pc'[u] = pc[u] /\ copy'[u] = copy[u]
  BY <1>1 DEF TypeOK, SharedPtr
<1>3. TypeOK'
  BY <1>1, <1>2 DEF TypeOK, Labels
<1>4. CountsOK'
  <2>1. \A c \in Clients : Replaced(c)' <=> Replaced(c)
    BY <1>1, <1>2 DEF Replaced
  <2>2. \A c \in Clients : Based(c)' <=> Based(c)
    BY <1>1, <1>2, <2>1 DEF Based, New
  <2>3. \A c \in Clients, u \in Threads : Calls(u, c)' <=> Calls(u, c)
    BY <1>1, <1>2 DEF Calls
  <2> QED
    BY <1>1, <2>2, <2>3, CountsStay DEF MembersOK
<1>5. StatusOK'
  BY <1>1 DEF MembersOK, StatusOK
<1>6. PointersOK'
  BY <1>1, <1>2 DEF MembersOK, PointersOK, Built
<1>7. NewOK'
  BY <1>1, <1>2 DEF MembersOK, NewOK, New
<1>8. SwapsOK'
  BY <1>1, <1>2 DEF MembersOK, SwapsOK, NewOK, New
<1>9. UnownedOK'
  BY <1>1, <1>2 DEF MembersOK, UnownedOK, Assigning, UsesUnowned
<1>10. CloseOK'
  BY <1>1, <1>2 DEF MembersOK, CloseOK, Lingering
<1>11. EndOK' /\ UndefinedExplained'
  BY <1>1 DEF EndOK, UndefinedExplained, Running
<1> QED
  BY <1>3, <1>4, <1>5, <1>6, <1>7, <1>8, <1>9, <1>10, <1>11 DEF IInv, MembersOK

LEMMA CountCopyStep ==
    ASSUME IInv, NEW t \in Threads, CountCopy(t), UNCHANGED logger
    PROVE  IInv'
<1> DEFINE c == copy[t].ctrl
<1>1. /\ TypeOK /\ MembersOK /\ Running(t, "count") /\ pc[t] = "count" /\ undefined = "no"
      /\ refs' = Counted(c)
      /\ undefined' = Counting(c)
      /\ pc' = [pc EXCEPT ![t] = "call"]
      /\ UNCHANGED <<client_session, stop, closed, destroyed, logger, status, copy, old,
                     raw, overlapped, late, lost>>
  BY DEF CountCopy, controllerVars, Goto, IInv, Running
<1>2. /\ c \in Clients \cup {NoClient} /\ pc'[t] = "call"
      /\ \A u \in Threads : u # t => pc'[u] = pc[u]
  BY <1>1 DEF TypeOK, SharedPtr
<1>3. undefined' \in {"no", "freed"}
  BY <1>1 DEF Counting, Using
<1>4. /\ refs' \in [Clients -> Nat]
      /\ \A d \in Clients : refs'[d] = IF d = c THEN refs[d] + 1 ELSE refs[d]
  BY <1>1, <1>2, NoClientIsNone DEF Counted, TypeOK
<1>5. TypeOK'
  BY <1>1, <1>3, <1>4 DEF TypeOK, Labels
<1>6. ~overlapped => c = copy[t].ptr /\ c = client_session.ctrl
  <2>1. ~overlapped => \A u \in Threads : pc[u] \notin {"read", "write"}
    BY <1>1 DEF MembersOK, UnownedOK, UsesUnowned
  <2> QED
    BY <1>1, <2>1 DEF MembersOK, UnownedOK
<1>7. UndefinedExplained'
  <2> SUFFICES ASSUME ~overlapped, c \in Clients PROVE Counting(c) = "no"
    BY <1>1, <1>2, <1>3 DEF UndefinedExplained, Counting
  <2>1. status[c] # "freed"
    BY <1>1, <1>6, OwnedIsAlive DEF MembersOK, Based
  <2> QED
    BY <2>1, NoClientIsNone DEF Counting, Using
<1>8. ASSUME undefined' = "no"
      PROVE  MembersOK'
  <2>1. c \in Clients => status[c] \notin {"none", "freed"}
    BY <1>1, <1>8, NoClientIsNone DEF Counting, Using, MembersOK, PointersOK, Built
  <2>2. CountsOK'
    <3> SUFFICES ASSUME NEW d \in Clients
                 PROVE  /\ IsFiniteSet(Callers(d)')
                        /\ refs'[d] <= Cardinality(Callers(d)') + One(d)'
                        /\ ~overlapped => refs'[d] = Cardinality(Callers(d)') + One(d)'
      BY <1>1 DEF CountsOK
    <3>1. /\ IsFiniteSet(Callers(d))
          /\ refs[d] <= Cardinality(Callers(d)) + One(d)
          /\ ~overlapped => refs[d] = Cardinality(Callers(d)) + One(d)
          /\ Cardinality(Callers(d)) \in Nat /\ refs[d] \in Nat
      BY <1>1, FS_CardinalityType DEF MembersOK, CountsOK, TypeOK
    <3>2. One(d)' = One(d) /\ One(d) \in {0, 1}
      <4>1. Based(d)' <=> Based(d)
        BY <1>1, <1>2 DEF Based, Replaced, New
      <4> QED
        BY <4>1 DEF One
    <3>3. \A u \in Threads : u # t => (Calls(u, d)' <=> Calls(u, d))
      BY <1>1, <1>2 DEF Calls
    <3>4. CASE d = c
      <4>1. ~Calls(t, d) /\ Calls(t, d)'
        BY <1>1, <1>2, <3>4 DEF Calls
      <4>2. /\ IsFiniteSet(Callers(d)')
            /\ Cardinality(Callers(d)') = Cardinality(Callers(d)) + 1
        BY <3>1, <3>3, <4>1, CallerJoins
      <4> QED
        BY <1>4, <3>1, <3>2, <3>4, <4>2
    <3>5. CASE d # c
      <4>1. Calls(t, d)' <=> Calls(t, d)
        BY <1>1, <3>5 DEF Calls
      <4>2. Callers(d)' = Callers(d)
        BY <3>3, <4>1, CallersStay
      <4> QED
        BY <1>4, <3>1, <3>2, <3>5, <4>2
    <3> QED
      BY <3>4, <3>5
  <2>3. StatusOK'
    BY <1>1, <1>4, <2>1 DEF MembersOK, StatusOK, TypeOK
  <2>4. PointersOK'
    BY <1>1 DEF MembersOK, PointersOK, Built
  <2>5. NewOK'
    BY <1>1, <1>2 DEF MembersOK, NewOK, New
  <2>6. SwapsOK'
    BY <1>1, <1>2 DEF MembersOK, SwapsOK
  <2>7. UnownedOK'
    BY <1>1, <1>2, <1>6 DEF MembersOK, UnownedOK, Assigning, UsesUnowned
  <2>8. CloseOK'
    BY <1>1, <1>2 DEF MembersOK, CloseOK, Lingering
  <2>9. EndOK'
    BY <1>1 DEF EndOK, Running
  <2> QED
    BY <2>2, <2>3, <2>4, <2>5, <2>6, <2>7, <2>8, <2>9 DEF MembersOK
<1> QED
  BY <1>5, <1>7, <1>8 DEF IInv

\* The copy owns what it uses until the call ends.
LEMMA CallClientStep ==
    ASSUME IInv, NEW t \in Threads, CallClient(t), UNCHANGED logger
    PROVE  IInv'
<1> DEFINE c == copy[t].ctrl
           p == copy[t].ptr
<1>1. /\ TypeOK /\ MembersOK /\ Running(t, "call") /\ pc[t] = "call" /\ undefined = "no"
      /\ refs' = Released(c) /\ status' = AfterRelease(c)
      /\ undefined' = IF "freed" \in {Using(p), Counting(c)} THEN "freed" ELSE "no"
      /\ copy' = [copy EXCEPT ![t] = Nullptr]
      /\ pc' = [pc EXCEPT ![t] = "idle"]
      /\ UNCHANGED <<client_session, stop, closed, destroyed, logger, old, raw, overlapped,
                     late, lost>>
  BY DEF CallClient, controllerVars, Goto, IInv, Running
<1>2. /\ c \in Clients \cup {NoClient} /\ p \in Clients \cup {NoClient}
      /\ Calls(t, c)
  BY <1>1 DEF TypeOK, SharedPtr, Calls
<1>3. undefined' \in {"no", "freed"}
  BY <1>1
<1>4. /\ copy'[t] = Nullptr /\ copy' \in [Threads -> SharedPtr] /\ pc'[t] = "idle"
      /\ \A u \in Threads : u # t => copy'[u] = copy[u] /\ pc'[u] = pc[u]
  BY <1>1 DEF TypeOK, SharedPtr, Nullptr
<1>5. TypeOK'
  BY <1>1, <1>2, <1>3, <1>4, ReleaseOne DEF TypeOK, Labels
<1>6. /\ StatusOK'
      /\ \A d \in Clients \cup {NoClient} : Built(d) => Built(d)'
      /\ \A d \in Clients : status'[d] # "freed" => status'[d] = status[d]
      /\ \A d \in Clients : d # c => status'[d] = status[d]
  BY <1>1, <1>2, ReleaseKeeps DEF MembersOK
<1>7. ~overlapped => /\ p = c
                     /\ c \in Clients => refs[c] # 0 /\ status[c] # "freed"
  <2>1. ~overlapped => p = c
    BY <1>1 DEF MembersOK, UnownedOK
  <2>2. (~overlapped /\ c \in Clients) => refs[c] # 0 /\ status[c] # "freed"
    BY <1>1, <1>2, OwnedIsAlive DEF MembersOK
  <2> QED
    BY <2>1, <2>2
<1>8. UndefinedExplained'
  BY <1>1, <1>2, <1>3, <1>7 DEF UndefinedExplained, Using, Counting
<1>9. CountsOK'
  <2> SUFFICES ASSUME NEW d \in Clients
               PROVE  /\ IsFiniteSet(Callers(d)')
                      /\ refs'[d] <= Cardinality(Callers(d)') + One(d)'
                      /\ ~overlapped => refs'[d] = Cardinality(Callers(d)') + One(d)'
    BY <1>1 DEF CountsOK
  <2>1. /\ IsFiniteSet(Callers(d))
        /\ refs[d] <= Cardinality(Callers(d)) + One(d)
        /\ ~overlapped => refs[d] = Cardinality(Callers(d)) + One(d)
        /\ Cardinality(Callers(d)) \in Nat /\ refs[d] \in Nat
    BY <1>1, FS_CardinalityType DEF MembersOK, CountsOK, TypeOK
  <2>2. One(d)' = One(d) /\ One(d) \in {0, 1}
    <3>1. Replaced(d)' <=> Replaced(d)
      BY <1>1, <1>4 DEF Replaced
    <3>2. Based(d)' <=> Based(d)
      BY <1>1, <1>4, <3>1 DEF Based, New
    <3> QED
      BY <3>2 DEF One
  <2>3. \A u \in Threads : u # t => (Calls(u, d)' <=> Calls(u, d))
    BY <1>1, <1>4 DEF Calls
  <2>4. refs'[d] = IF d = c /\ refs[d] # 0 THEN refs[d] - 1 ELSE refs[d]
    BY <1>1, <1>2, ReleaseOne
  <2>5. CASE d = c
    <3>1. Calls(t, d) /\ ~Calls(t, d)'
      BY <1>2, <1>4, <2>5 DEF Calls
    <3>2. /\ IsFiniteSet(Callers(d)')
          /\ Cardinality(Callers(d)') = Cardinality(Callers(d)) - 1
          /\ Cardinality(Callers(d)) > 0
      BY <2>1, <2>3, <3>1, CallerLeaves
    <3> QED
      BY <1>7, <2>1, <2>2, <2>4, <2>5, <3>2
  <2>6. CASE d # c
    <3>1. Calls(t, d)' <=> Calls(t, d)
      BY <1>1, <1>4, <2>6 DEF Calls
    <3>2. Callers(d)' = Callers(d)
      BY <2>3, <3>1, CallersStay
    <3> QED
      BY <2>1, <2>2, <2>4, <2>6, <3>2
  <2> QED
    BY <2>5, <2>6
<1>10. PointersOK'
  <2>1. Built(NoClient)'
    BY DEF Built
  <2> QED
    BY <1>1, <1>4, <1>6, <2>1
    DEF MembersOK, PointersOK, Built, TypeOK, SharedPtr, Nullptr
<1>11. NewOK'
  <2> SUFFICES ASSUME NEW u \in Threads, New(u)'
               PROVE  LET d == copy'[u].ctrl IN
                      /\ d \in Clients /\ copy'[u].ptr = d
                      /\ client_session.ctrl # d /\ d \notin lost
                      /\ \A v \in Threads : old[v] # d /\ (v # u => copy'[v].ctrl # d)
    BY <1>1 DEF NewOK
  <2>1. u # t /\ New(u) /\ copy'[u] = copy[u]
    BY <1>4 DEF New
  <2> QED
    BY <1>1, <1>4, <2>1, NoClientIsNone DEF MembersOK, NewOK, Nullptr
<1>12. SwapsOK'
  <2> SUFFICES ASSUME NEW u \in Threads, pc'[u] = "swap"
               PROVE  LET d == copy'[u].ctrl IN
                      /\ status'[d] = "built" /\ client_session.ptr # d
                      /\ \A v \in Threads : raw[v] # d /\ (v # u => copy'[v].ptr # d)
    BY <1>1 DEF SwapsOK
  <2>1. u # t /\ pc[u] = "swap" /\ copy'[u] = copy[u]
    BY <1>4
  <2>2. /\ copy[u].ctrl \in Clients /\ copy[u].ctrl # c
        /\ status[copy[u].ctrl] = "built" /\ client_session.ptr # copy[u].ctrl
        /\ \A v \in Threads :
              raw[v] # copy[u].ctrl /\ (v # u => copy[v].ptr # copy[u].ctrl)
    BY <1>1, <2>1 DEF MembersOK, NewOK, New, SwapsOK
  <2> QED
    BY <1>4, <1>6, <2>1, <2>2, NoClientIsNone DEF Nullptr
<1>13. UnownedOK'
  BY <1>1, <1>4 DEF MembersOK, UnownedOK, Assigning, UsesUnowned
<1>14. CloseOK'
  <2>1. Lingering' => Lingering
    BY <1>1, <1>6 DEF Lingering, TypeOK, SharedPtr
  <2> QED
    BY <1>1, <1>4, <2>1 DEF MembersOK, CloseOK
<1>15. EndOK'
  BY <1>1 DEF EndOK, Running
<1> QED
  BY <1>5, <1>6, <1>8, <1>9, <1>10, <1>11, <1>12, <1>13, <1>14, <1>15 DEF IInv, MembersOK

-----------------------------------------------------------------------------
\* No call runs, so that client_session owns the only client left but the lost.
LEMMA DestroyStep ==
    ASSUME IInv, NEW t \in Threads, Destroy(t), UNCHANGED logger
    PROVE  IInv'
<1> DEFINE p == client_session.ptr
           c == client_session.ctrl
           disconnects == ~closed /\ p # NoClient
           after == IF disconnects THEN [status EXCEPT ![p] = "disconnected"] ELSE status
<1>1. /\ TypeOK /\ MembersOK /\ undefined = "no"
      /\ \A u \in Threads : pc[u] = "idle"
      /\ undefined' = IF disconnects /\ Using(p) = "freed" THEN "freed" ELSE Counting(c)
      /\ status' = IF Freed(c) THEN [after EXCEPT ![c] = "freed"] ELSE after
      /\ refs' = Released(c)
      /\ client_session' = Nullptr
      /\ stop' = TRUE /\ closed' = TRUE /\ destroyed' = TRUE
      /\ UNCHANGED <<logger, pc, copy, old, raw, overlapped, late, lost>>
  BY DEF Destroy, localVars, IInv, Running
<1>2. p \in Clients \cup {NoClient} /\ c \in Clients \cup {NoClient}
  BY <1>1 DEF TypeOK, SharedPtr
<1>3. \A d \in Clients :
         /\ refs[d] \in Nat /\ Callers(d) = {} /\ refs[d] <= One(d)
         /\ ~overlapped => refs[d] = One(d)
         /\ Based(d) <=> d = c \/ d \in lost
  <2>1. ASSUME NEW d \in Clients
        PROVE  Callers(d) = {} /\ (Based(d) <=> d = c \/ d \in lost)
    BY <1>1 DEF Callers, Calls, Based, Replaced, New
  <2>2. ASSUME NEW d \in Clients
        PROVE  /\ refs[d] \in Nat /\ One(d) \in {0, 1}
               /\ refs[d] <= Cardinality(Callers(d)) + One(d)
               /\ ~overlapped => refs[d] = Cardinality(Callers(d)) + One(d)
    BY <1>1 DEF MembersOK, CountsOK, TypeOK, One
  <2> QED
    BY <2>1, <2>2, FS_EmptySet
<1>4. /\ refs' \in [Clients -> Nat]
      /\ \A d \in Clients : refs'[d] = IF d = c THEN 0 ELSE refs[d]
  <2>1. /\ refs' \in [Clients -> Nat]
        /\ \A d \in Clients :
              refs'[d] = IF d = c /\ refs[d] # 0 THEN refs[d] - 1 ELSE refs[d]
    BY <1>1, <1>2, ReleaseOne
  <2>2. \A d \in Clients : refs[d] \in {0, 1}
    BY <1>3 DEF One
  <2> QED
    BY <2>1, <2>2
<1>5. /\ status' \in [Clients -> {"none", "built", "connected", "disconnected", "freed"}]
      /\ \A d \in Clients :
            status'[d] = IF d = c /\ refs[d] = 1 THEN "freed"
                         ELSE IF disconnects /\ d = p THEN "disconnected" ELSE status[d]
  BY <1>1, <1>2, NoClientIsNone DEF TypeOK, Freed
<1>6. undefined' \in {"no", "freed"}
  BY <1>1 DEF Counting, Using
<1>7. TypeOK'
  BY <1>1, <1>4, <1>5, <1>6 DEF TypeOK, SharedPtr, Nullptr
<1>8. UndefinedExplained'
  <2> SUFFICES ASSUME ~overlapped, c \in Clients \/ p \in Clients
               PROVE  p = c /\ Using(c) # "freed"
    BY <1>1, <1>2, <1>6 DEF UndefinedExplained, Counting, Using
  <2>1. p = c
    BY <1>1 DEF MembersOK, UnownedOK
  <2>2. status[c] # "freed"
    BY <1>1, <2>1, OwnedIsAlive DEF MembersOK, Based
  <2> QED
    BY <2>1, <2>2 DEF Using
<1>9. ASSUME undefined' = "no"
      PROVE  MembersOK'
  \* What is used now was not freed before.
  <2>1. /\ disconnects => p \in Clients /\ status[p] \notin {"none", "freed"}
        /\ c \in Clients => status[c] \notin {"none", "freed"}
    BY <1>1, <1>2, <1>9, NoClientIsNone
    DEF Counting, Using, MembersOK, PointersOK, Built
  <2>2. StatusOK'
    <3> SUFFICES ASSUME NEW d \in Clients
                 PROVE  refs'[d] = 0 <=> status'[d] \in {"none", "freed"}
      BY DEF StatusOK
    <3>1. refs[d] = 0 <=> status[d] \in {"none", "freed"}
      BY <1>1 DEF MembersOK, StatusOK
    <3>2. refs[d] \in {0, 1}
      BY <1>3 DEF One
    <3> QED
      BY <1>4, <1>5, <2>1, <3>1, <3>2
  <2>3. CountsOK'
    <3> SUFFICES ASSUME NEW d \in Clients
                 PROVE  /\ IsFiniteSet(Callers(d)')
                        /\ refs'[d] <= Cardinality(Callers(d)') + One(d)'
                        /\ ~overlapped => refs'[d] = Cardinality(Callers(d)') + One(d)'
      BY <1>1 DEF CountsOK
    <3>1. Callers(d)' = {}
      BY <1>1 DEF Callers, Calls
    <3>2. Based(d)' <=> d \in lost
      BY <1>1, NoClientIsNone DEF Based, Replaced, New, Nullptr
    <3>3. ~overlapped => lost = {}
      BY <1>1 DEF MembersOK, UnownedOK
    <3>4. refs'[d] <= One(d)' /\ (~overlapped => refs'[d] = One(d)')
      BY <1>3, <1>4, <3>2, <3>3 DEF One
    <3>5. One(d)' \in {0, 1} /\ refs'[d] \in Nat
      BY <1>4 DEF One
    <3> QED
      BY <3>1, <3>4, <3>5, FS_EmptySet
  <2>4. PointersOK'
    <3>1. \A d \in Clients \cup {NoClient} : Built(d) => Built(d)'
      BY <1>5, NoClientIsNone DEF Built
    <3> QED
      BY <1>1, <3>1 DEF MembersOK, PointersOK, Built, TypeOK, SharedPtr, Nullptr
  <2>5. NewOK' /\ SwapsOK' /\ UnownedOK' /\ CloseOK' /\ EndOK'
    BY <1>1 DEF MembersOK, NewOK, New, SwapsOK, UnownedOK, CloseOK, EndOK, Lingering, Nullptr
  <2> QED
    BY <2>2, <2>3, <2>4, <2>5 DEF MembersOK
<1> QED
  BY <1>7, <1>8, <1>9 DEF IInv

LEMMA StutterStep ==
    ASSUME IInv, UNCHANGED vars
    PROVE  IInv'
<1>1. UNCHANGED <<client_session, stop, closed, destroyed, logger, status, refs, pc, copy,
                  old, raw, undefined, overlapped, late, lost>>
  BY DEF vars, controllerVars, clientVars, localVars, historyVars
<1>2. TypeOK' /\ UndefinedExplained'
  BY <1>1 DEF IInv, TypeOK, UndefinedExplained
<1>3. ASSUME MembersOK
      PROVE  MembersOK'
  <2>1. CountsOK'
    BY <1>1, <1>3, CountsStay DEF MembersOK, Based, Replaced, New, Calls
  <2> QED
    BY <1>1, <1>3, <2>1
    DEF MembersOK, StatusOK, PointersOK, Built, NewOK, New, SwapsOK, UnownedOK, Assigning,
        UsesUnowned, CloseOK, Lingering, EndOK
<1> QED
  BY <1>1, <1>2, <1>3 DEF IInv

LEMMA NextIInv == IInv /\ [Next]_vars => IInv'
<1> SUFFICES ASSUME IInv, [Next]_vars PROVE IInv'
  OBVIOUS
<1>1. CASE UNCHANGED logger /\ \E t \in Threads : Step(t)
  BY <1>1, WritePointerStep, ReadControlStep, WriteControlStep, ReleaseOldStep,
     BeginDialStep, DialledStep, QueriedStep, MethodOfFreedStep, DisconnectedStep,
     EndDisconnectStep, CopyControlStep, CountCopyStep, CallClientStep
  DEF Step
<1>2. CASE UNCHANGED logger /\ \E t \in Threads : Call(t)
  BY <1>2, BuildClientStep, QueryStep, BeginDisconnectStep, CopyPointerStep, DestroyStep
  DEF Call
<1>3. CASE UNCHANGED vars
  BY <1>3, StutterStep
<1> QED
  BY <1>1, <1>2, <1>3 DEF Next, Over

\* The invariant holds in every reachable state.
THEOREM SessionInvariance == Spec => []IInv
<1> QED
  BY InitIInv, NextIInv, PTL DEF Spec

-----------------------------------------------------------------------------
\* The members and the locals of every call keep their types, whatever connect,
\* disconnect and copies overlap.
THEOREM SessionTypeCorrect == Spec => []TypeOK
<1>1. IInv => TypeOK
  BY DEF IInv
<1> QED
  BY <1>1, SessionInvariance, PTL

\* A client is used after its end only if a connect overlapped another connect,
\* a method called through client_session, or the copying of client_session.
THEOREM UndefinedIsExplained == Spec => []UndefinedExplained
<1>1. IInv => UndefinedExplained
  BY DEF IInv
<1> QED
  BY <1>1, SessionInvariance, PTL

\* After disconnect no client is connected but one that connect reached later,
\* one that a call still holds, one that client_session counts only, and one that
\* two connects lost.
THEOREM DisconnectDisconnects == Spec => []ClosedIsDisconnected
<1>1. IInv => ClosedIsDisconnected
  <2> SUFFICES ASSUME IInv, closed, undefined = "no",
                      NEW c \in Clients, status[c] = "connected", c \notin late \cup lost,
                      ~ \E t \in Threads : /\ pc[t] \in {"read", "write", "release", "call"}
                                           /\ c \in {copy[t].ctrl, old[t]}
               PROVE  client_session.ctrl = c /\ client_session.ptr # c
    BY DEF ClosedIsDisconnected
  <2>1. MembersOK /\ TypeOK
    BY DEF IInv
  <2>2. \A t \in Threads : ~Calls(t, c)
    BY DEF Calls
  <2>3. ~Replaced(c)
    BY DEF Replaced
  <2>4. ~ \E t \in Threads : New(t) /\ copy[t].ctrl = c
    BY <2>1 DEF New, MembersOK, SwapsOK
  <2>5. client_session.ctrl = c
    BY <2>1, <2>2, <2>3, <2>4, UnownedIsUncounted DEF MembersOK, StatusOK, Based
  <2>6. client_session.ptr # c
    BY <2>1, NoClientIsNone DEF MembersOK, CloseOK, Lingering
  <2> QED
    BY <2>5, <2>6
<1> QED
  BY <1>1, SessionInvariance, PTL

\* The controller's end frees every client it ever built, but those whose control
\* block a connect overwrote before any other had read it.
THEOREM DestructorFreesAll == Spec => []DestroyedFreesAll
<1>1. IInv => DestroyedFreesAll
  <2> SUFFICES ASSUME IInv, destroyed, undefined = "no", NEW c \in Clients \ lost
               PROVE  status[c] \in {"none", "freed"}
    BY DEF DestroyedFreesAll
  <2>1. MembersOK /\ TypeOK
    BY DEF IInv
  <2>2. ~Based(c) /\ \A t \in Threads : ~Calls(t, c)
    BY <2>1, NoClientIsNone DEF MembersOK, EndOK, Based, Replaced, New, Calls, Nullptr
  <2> QED
    BY <2>1, <2>2, UnownedIsUncounted DEF MembersOK, StatusOK
<1> QED
  BY <1>1, SessionInvariance, PTL
=============================================================================
