------------------------------- MODULE Session -------------------------------
(***************************************************************************)
(* The session of qmedia::QController (src/src/QController.cpp): connect,  *)
(* disconnect, the destructor, and every other use of client_session, a    *)
(* std::shared_ptr that no mutex protects, by several application threads. *)
(*                                                                         *)
(* A shared_ptr is two words, the pointer and the control block with the   *)
(* count.  Assigning it writes the pointer, reads the old control block,   *)
(* writes the new one and releases the old one; copying it reads the two   *)
(* words and then increments the count.  Each of these is a step: any      *)
(* other thread may run between two of them.                               *)
(***************************************************************************)
EXTENDS Naturals

CONSTANTS
    Threads,        \* application threads that call the controller
    MaxClients      \* bound: calls to connect

ASSUME MaxClientsAssumption == MaxClients \in Nat

Clients == 1 .. MaxClients      \* quicr::Clients, in the order they are built
NoClient == 0                   \* nullptr
SharedPtr == [ptr : Clients \cup {NoClient}, ctrl : Clients \cup {NoClient}]
Nullptr == [ptr |-> NoClient, ctrl |-> NoClient]

VARIABLES
    \* Members of QController.
    client_session,
    stop,
    closed,
    destroyed,      \* the destructor has run
    logger,         \* "none", or whose level it has: "parent" or "debug"
    \* The clients and their reference counts.
    status,
    refs,
    \* Locals of the call each thread is in.
    pc,
    copy,           \* the shared_ptr a call copies, or connect assigns
    old,            \* the control block connect replaces, which it will release
    raw,            \* the pointer behind client_session-> while its method runs
    \* History.
    undefined,      \* why the program has undefined behaviour, if it has
    overlapped,     \* connect overlapped a use that does not own what it uses
    late,           \* clients connected after stop was set
    lost            \* clients whose control block was overwritten, read by nobody

controllerVars == <<client_session, stop, closed, destroyed>>
clientVars == <<status, refs>>
localVars == <<pc, copy, old, raw>>
historyVars == <<undefined, overlapped, late, lost>>
vars == <<controllerVars, logger, clientVars, localVars, historyVars>>

Labels == {"idle", "swap", "read", "write", "release", "dial", "connect", "query",
           "disconnect", "close", "copy", "count", "call"}

\* TypeOK: what the members of the controller and the locals of a call may hold.
TypeOK ==
    /\ client_session \in SharedPtr
    /\ {stop, closed, destroyed, overlapped} \subseteq BOOLEAN
    /\ status \in [Clients -> {"none", "built", "connected", "disconnected", "freed"}]
    /\ refs \in [Clients -> Nat]
    /\ pc \in [Threads -> Labels]
    /\ copy \in [Threads -> SharedPtr]
    /\ old \in [Threads -> Clients \cup {NoClient}]
    /\ raw \in [Threads -> Clients \cup {NoClient}]
    /\ logger \in {"none", "parent", "debug"}
    /\ undefined \in {"no", "logger", "null", "freed"}
    /\ late \subseteq Clients
    /\ lost \subseteq Clients

(***************************************************************************)
(* The constructor, with or without a parent logger.  The `logger' of its  *)
(* body is the parameter, which the initialisers have moved from: it is    *)
(* null whatever was passed, and the flag alone decides whether the level  *)
(* of the member is set, which may be null too.                            *)
(***************************************************************************)
Construct(parent, debugging) ==
    /\ logger = IF ~parent THEN "none" ELSE IF debugging THEN "debug" ELSE "parent"
    /\ undefined = IF debugging /\ ~parent THEN "logger" ELSE "no"

Init ==
    /\ \E parent, debugging \in BOOLEAN : Construct(parent, debugging)
    /\ client_session = Nullptr
    /\ stop = FALSE
    /\ closed = FALSE
    /\ destroyed = FALSE
    /\ status = [c \in Clients |-> "none"]
    /\ refs = [c \in Clients |-> 0]
    /\ pc = [t \in Threads |-> "idle"]
    /\ copy = [t \in Threads |-> Nullptr]
    /\ old = [t \in Threads |-> NoClient]
    /\ raw = [t \in Threads |-> NoClient]
    /\ overlapped = FALSE
    /\ late = {}
    /\ lost = {}

(***************************************************************************)
(* Plausible mistakes: each, substituted for the definition named beside   *)
(* it, must make a property fail.  The specification does not use them.    *)
(***************************************************************************)
ReleaseForgotten(c) == refs                           \* Released: a leak
ReleaseTwice(c) ==                                    \* Released: at two places
    IF c = NoClient \/ refs[c] = 0 THEN refs ELSE [refs EXCEPT ![c] = @ - 2]

(***************************************************************************)
(* The reference count of a control block; none is kept for nullptr.  The  *)
(* block is freed with the client: counting in it, or releasing it, after  *)
(* that is undefined and leaves no count to speak of.                      *)
(***************************************************************************)
Counted(c) == IF c = NoClient THEN refs ELSE [refs EXCEPT ![c] = @ + 1]
Released(c) ==
    IF c = NoClient \/ refs[c] = 0 THEN refs ELSE [refs EXCEPT ![c] = @ - 1]

\* The destructor of quicr::Client, which ends its connection.
Freed(c) == c # NoClient /\ refs[c] = 1
AfterRelease(c) == IF Freed(c) THEN [status EXCEPT ![c] = "freed"] ELSE status

\* What a use of client c amounts to, and one of the control block of c.
Using(c) ==
    IF c = NoClient THEN "null" ELSE IF status[c] = "freed" THEN "freed" ELSE "no"
Counting(c) == IF c = NoClient THEN "no" ELSE Using(c)

\* Another thread has assigned the one word of client_session and not the other.
Assigning(t) == \E u \in Threads \ {t} : pc[u] \in {"read", "write"}

\* Another thread uses a client it does not own a count of, or is about to
\* count one.
UsesUnowned(t) ==
    \E u \in Threads \ {t} :
        pc[u] \in {"connect", "query", "disconnect", "copy", "count"}

\* A connect will release control block c.
Replaced(c) == \E t \in Threads : pc[t] \in {"write", "release"} /\ old[t] = c

Goto(t, l) == pc' = [pc EXCEPT ![t] = l]

\* No other call runs after undefined behaviour or the end of the object.
Running(t, l) == pc[t] = l /\ undefined = "no" /\ ~destroyed

-----------------------------------------------------------------------------
(***************************************************************************)
(* connect builds a client, assigns it to client_session, which releases   *)
(* the old one, and then connects whatever client_session points to.  The  *)
(* new client stays in place when it cannot connect.                       *)
(***************************************************************************)
BuildClient(t) ==
    /\ Running(t, "idle")
    /\ \E c \in Clients :
          /\ status[c] = "none"
          /\ \A b \in Clients : b < c => status[b] # "none"
          /\ status' = [status EXCEPT ![c] = "built"]
          /\ refs' = Counted(c)
          /\ copy' = [copy EXCEPT ![t] = [ptr |-> c, ctrl |-> c]]
    /\ Goto(t, "swap")
    /\ UNCHANGED <<controllerVars, old, raw, historyVars>>

\* The old pointer ends with the temporary of the assignment: only the control
\* blocks count.
WritePointer(t) ==
    /\ Running(t, "swap")
    /\ client_session' = [client_session EXCEPT !.ptr = copy[t].ptr]
    /\ overlapped' = (overlapped \/ Assigning(t) \/ UsesUnowned(t))
    /\ Goto(t, "read")
    /\ UNCHANGED <<stop, closed, destroyed, clientVars, copy, old, raw, undefined,
                   late, lost>>

ReadControl(t) ==
    /\ Running(t, "read")
    /\ old' = [old EXCEPT ![t] = client_session.ctrl]
    /\ Goto(t, "write")
    /\ UNCHANGED <<controllerVars, clientVars, copy, raw, historyVars>>

\* Another connect may have written the word since it was read: the block it put
\* there is released by nobody, unless a third one has read it.
WriteControl(t) ==
    /\ Running(t, "write")
    /\ client_session' = [client_session EXCEPT !.ctrl = copy[t].ctrl]
    /\ copy' = [copy EXCEPT ![t] = Nullptr]
    /\ lost' = lost \cup {c \in Clients : c = client_session.ctrl /\ ~Replaced(c)}
    /\ Goto(t, "release")
    /\ UNCHANGED <<stop, closed, destroyed, clientVars, old, raw, undefined,
                   overlapped, late>>

ReleaseOld(t) ==
    /\ Running(t, "release")
    /\ undefined' = Counting(old[t])
    /\ refs' = Released(old[t])
    /\ status' = AfterRelease(old[t])
    /\ old' = [old EXCEPT ![t] = NoClient]
    /\ Goto(t, "dial")
    /\ UNCHANGED <<controllerVars, copy, raw, overlapped, late, lost>>

(***************************************************************************)
(* client_session->method(): the pointer is read, not counted, and the     *)
(* method runs until a later step.                                         *)
(***************************************************************************)
Dereference(t, l) ==
    /\ raw' = [raw EXCEPT ![t] = client_session.ptr]
    /\ overlapped' = (overlapped \/ Assigning(t))
    /\ Goto(t, l)

EndOfMethod(t) ==
    /\ undefined' = Using(raw[t])
    /\ raw' = [raw EXCEPT ![t] = NoClient]

BeginDial(t) ==
    /\ Running(t, "dial")
    /\ Dereference(t, "connect")
    /\ UNCHANGED <<controllerVars, clientVars, copy, old, undefined, late, lost>>

Dialled(t) ==
    /\ Running(t, "connect")
    /\ Using(raw[t]) = "no"
    /\ EndOfMethod(t)
    /\ \/ /\ status' = [status EXCEPT ![raw[t]] = "connected"]
          /\ late' = IF stop THEN late \cup {raw[t]} ELSE late
       \/ UNCHANGED <<status, late>>                \* connect returns -1
    /\ Goto(t, "idle")
    /\ UNCHANGED <<controllerVars, refs, copy, old, overlapped, lost>>

\* connected, which tests for nullptr, and getSubscriptionState, which does not.
Connected(t) ==
    /\ Running(t, "idle")
    /\ client_session.ptr # NoClient
    /\ Dereference(t, "query")
    /\ UNCHANGED <<controllerVars, clientVars, copy, old, undefined, late, lost>>

GetSubscriptionState(t) ==
    /\ Running(t, "idle")
    /\ Dereference(t, "query")
    /\ UNCHANGED <<controllerVars, clientVars, copy, old, undefined, late, lost>>

Queried(t) ==
    /\ Running(t, "query")
    /\ EndOfMethod(t)
    /\ Goto(t, "idle")
    /\ UNCHANGED <<controllerVars, clientVars, copy, old, overlapped, late, lost>>

\* A method other than a query entered a client that was freed meanwhile.
MethodOfFreed(t) ==
    /\ pc[t] \in {"connect", "disconnect"} /\ Running(t, pc[t])
    /\ Using(raw[t]) # "no"
    /\ EndOfMethod(t)
    /\ Goto(t, "idle")
    /\ UNCHANGED <<controllerVars, clientVars, copy, old, overlapped, late, lost>>

(***************************************************************************)
(* disconnect (and close).  closed is never reset: a second call returns   *)
(* -1 at once, whatever client_session holds by then.                      *)
(***************************************************************************)
CloseFirst(t) ==            \* a mistake: closed = true moved up beside stop
    /\ Running(t, "idle")
    /\ ~closed
    /\ stop' = TRUE
    /\ closed' = TRUE
    /\ IF client_session.ptr # NoClient THEN Dereference(t, "disconnect")
       ELSE Goto(t, "close") /\ UNCHANGED <<raw, overlapped>>
    /\ UNCHANGED <<client_session, destroyed, clientVars, copy, old, undefined, late,
                   lost>>

BeginDisconnect(t) ==
    /\ Running(t, "idle")
    /\ ~closed
    /\ stop' = TRUE
    /\ IF client_session.ptr # NoClient THEN Dereference(t, "disconnect")
       ELSE Goto(t, "close") /\ UNCHANGED <<raw, overlapped>>
    /\ UNCHANGED <<client_session, closed, destroyed, clientVars, copy, old, undefined,
                   late, lost>>

Disconnected(t) ==
    /\ Running(t, "disconnect")
    /\ Using(raw[t]) = "no"
    /\ EndOfMethod(t)
    /\ status' = [status EXCEPT ![raw[t]] = "disconnected"]
    /\ Goto(t, "close")
    /\ UNCHANGED <<controllerVars, refs, copy, old, overlapped, late, lost>>

EndDisconnect(t) ==
    /\ Running(t, "close")
    /\ closed' = TRUE
    /\ Goto(t, "idle")
    /\ UNCHANGED <<client_session, stop, destroyed, clientVars, copy, old, raw,
                   historyVars>>

(***************************************************************************)
(* The calls that pass client_session by value: subscribe, unsubscribe,    *)
(* publishIntent and publishNamedObject.  The copy reads the pointer, then *)
(* the control block, and then counts in it.                               *)
(***************************************************************************)
CopyPointer(t) ==
    /\ Running(t, "idle")
    /\ copy' = [copy EXCEPT ![t].ptr = client_session.ptr]
    /\ overlapped' = (overlapped \/ Assigning(t))
    /\ Goto(t, "copy")
    /\ UNCHANGED <<controllerVars, clientVars, old, raw, undefined, late, lost>>

CopyControl(t) ==
    /\ Running(t, "copy")
    /\ copy' = [copy EXCEPT ![t].ctrl = client_session.ctrl]
    /\ Goto(t, "count")
    /\ UNCHANGED <<controllerVars, clientVars, old, raw, historyVars>>

CopyUncounted(t) ==         \* a mistake in CountCopy: a pointer for a copy
    /\ Running(t, "count")
    /\ undefined' = Counting(copy[t].ctrl)
    /\ Goto(t, "call")
    /\ UNCHANGED <<controllerVars, clientVars, copy, old, raw, overlapped, late, lost>>

CountCopy(t) ==
    /\ Running(t, "count")
    /\ undefined' = Counting(copy[t].ctrl)
    /\ refs' = Counted(copy[t].ctrl)
    /\ Goto(t, "call")
    /\ UNCHANGED <<controllerVars, status, copy, old, raw, overlapped, late, lost>>

\* The delegates return at once without a client.  The copy dies with the call.
CallClient(t) ==
    /\ Running(t, "call")
    /\ undefined' = IF "freed" \in {Using(copy[t].ptr), Counting(copy[t].ctrl)}
                    THEN "freed" ELSE "no"
    /\ refs' = Released(copy[t].ctrl)
    /\ status' = AfterRelease(copy[t].ctrl)
    /\ copy' = [copy EXCEPT ![t] = Nullptr]
    /\ Goto(t, "idle")
    /\ UNCHANGED <<controllerVars, old, raw, overlapped, late, lost>>

(***************************************************************************)
(* ~QController: disconnect, then the members are destroyed.  C++ forbids  *)
(* it while a call runs.                                                   *)
(***************************************************************************)
Destroy(t) ==
    /\ \A u \in Threads : Running(u, "idle")
    /\ LET c == client_session.ptr
           disconnects == ~closed /\ c # NoClient
           after == IF disconnects THEN [status EXCEPT ![c] = "disconnected"]
                    ELSE status
       IN  /\ undefined' = IF disconnects /\ Using(c) = "freed" THEN "freed"
                           ELSE Counting(client_session.ctrl)
           /\ status' = IF Freed(client_session.ctrl)
                        THEN [after EXCEPT ![client_session.ctrl] = "freed"]
                        ELSE after
    /\ stop' = TRUE
    /\ closed' = TRUE
    /\ refs' = Released(client_session.ctrl)
    /\ client_session' = Nullptr
    /\ destroyed' = TRUE
    /\ UNCHANGED <<localVars, overlapped, late, lost>>

\* Nothing is said of the program after undefined behaviour or its end.
Over == (undefined # "no" \/ destroyed) /\ UNCHANGED vars

Step(t) ==
    \/ WritePointer(t) \/ ReadControl(t) \/ WriteControl(t) \/ ReleaseOld(t)
    \/ BeginDial(t) \/ Dialled(t) \/ Queried(t) \/ MethodOfFreed(t)
    \/ Disconnected(t) \/ EndDisconnect(t)
    \/ CopyControl(t) \/ CountCopy(t) \/ CallClient(t)

Call(t) ==
    \/ BuildClient(t) \/ Connected(t) \/ GetSubscriptionState(t)
    \/ BeginDisconnect(t) \/ CopyPointer(t) \/ Destroy(t)

Next == ((\E t \in Threads : Step(t) \/ Call(t)) \/ Over) /\ UNCHANGED logger

Spec == Init /\ [][Next]_vars

-----------------------------------------------------------------------------
(***************************************************************************)
(* UndefinedExplained: a client is used after it was destroyed only if     *)
(* some connect overlapped another connect, a call through client_session  *)
(* itself, or the copying of it; a call that has its counted copy is safe  *)
(* from any number of connects.  A null client is used, by                 *)
(* getSubscriptionState, which does not test for it, only before the first *)
(* connect or when that one overlaps it.                                   *)
(***************************************************************************)
UndefinedExplained ==
    /\ undefined = "freed" => overlapped
    /\ undefined = "null" => client_session = Nullptr \/ overlapped

(***************************************************************************)
(* ClosedIsDisconnected: after disconnect no client is connected, except   *)
(* one that connect reached later, which no disconnect will ever end       *)
(* (closed stays set), one that a call or a connect under way still holds, *)
(* one that client_session counts without pointing to it (after two        *)
(* connects mixed their words), and one that two connects lost.            *)
(***************************************************************************)
ClosedIsDisconnected ==
    (closed /\ undefined = "no") =>
        \A c \in Clients : status[c] = "connected" =>
            \/ c \in late \cup lost
            \/ \E t \in Threads : /\ pc[t] \in {"read", "write", "release", "call"}
                                 /\ c \in {copy[t].ctrl, old[t]}
            \/ client_session.ctrl = c /\ client_session.ptr # c

(***************************************************************************)
(* DestroyedFreesAll: the controller's end frees every client it built, of *)
(* failed and repeated connects too, and ends every connection, even one   *)
(* made after disconnect.  Only a client whose control block a connect     *)
(* overwrote before any other had read it outlives the controller.         *)
(***************************************************************************)
DestroyedFreesAll ==
    (destroyed /\ undefined = "no") =>
        \A c \in Clients \ lost : status[c] \in {"none", "freed"}

(***************************************************************************)
(* ParentLevelUsed: "If there's a parent logger, its log level will be     *)
(* used.  Otherwise, query the debugging flag." (QController.cpp:32-33)    *)
(***************************************************************************)
ParentLevelUsed == logger # "debug"

=============================================================================
