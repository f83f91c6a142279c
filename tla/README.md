# Verification of qmedia

TLA+ models of `libqmedia`, the media control library of this repository: a
`QController` turns a manifest into subscriptions and publications of a
`quicr::Client`, and its delegates name, encrypt, decrypt and forward the
objects of a media stream. Everything here is written from the code in
`src/src` and `src/include/qmedia`; `libquicr`, the transport and `sframe` are
git submodules and are modelled from how the code uses them.

## 1. Inventory

| Component | State | Operations | Model |
|---|---|---|---|
| `QController`, subscriptions (`QController.cpp`) | `qSubscriptionsMap` (source → application delegate), `quicrSubscriptionsMap` (namespace → `SubscriptionDelegate`), `subsMutex`, `qSubsMutex`, `is_singleordered_subscription` | `updateManifest`/`processSubscriptions`, `startSubscription`, `stopSubscription`, `setSubscriptionState`, `setSubscriptionSingleOrdered`, `getSwitchingSets`, `getSubscriptions` | `SubscriptionControl`, `SubscriptionLifecycle` |
| `QController`, publications | `qPublicationsMap`, `quicrPublicationsMap` (namespace → delegate and active/paused), `pubsMutex`, `qPubsMutex`, `is_singleordered_publication` | `processPublications`, `startPublication`, `publishNamedObject`, `setPublicationState`, `getPublications` | `PublicationControl` |
| `QController`, session | `client_session`, `closed`, `stop`, `logger` | constructor and destructor, `connect`, `disconnect`, `close`, `connected`, `getSubscriptionState` | `Session`; `connect` as one step in both control modules |
| `PublicationDelegate` (`QuicrDelegates.cpp`) | `groupId`, `objectId`, `priority`, `expiry`, an optional sframe context | constructor, `publishIntent`, `publishNamedObject` | `PublicationDelegate`, `MediaPath`; `publishIntent` in `PublicationControl` |
| `SubscriptionDelegate` | `currentGroupId`, `currentObjectId`, four counters, an optional sframe context | constructor, `onSubscribedObject`, `subscribe`, `unsubscribe` | `SubscriptionDelegate`, `MediaPath`; the last two in `SubscriptionControl` |
| `QSFrameContext` | `current_epoch`, `epoch_secrets`, `ns_contexts` | `addEpoch`, `enableEpoch`, `protect`, `unprotect`, copy | `SFrameContext`; end to end in `SecurePath` |
| Manifest types (`ManifestTypes.cpp`) | none | JSON parsing, equality | `Manifest` |
| Application callbacks (`QDelegates.hpp`) | the application's | `allocate…`, `update`, `prepare`, `subscribedObject` | external: any answer of `allocate…`, `update` and `prepare` in the control modules; calls back and exceptions of `allocate…` and `prepare` in `ControllerLocks`, where `prepare` stands for `update` too; `subscribedObject` is the forwarding of `SubscriptionDelegate` |
| Test relay (`test/relay.cpp`) | subscribers per namespace | `onSubscribe`, `onUnsubscribe`, `onPublisherObject` | a test fixture, not modelled |

**How they interact.** Application threads call the controller, which takes one
of four mutexes per critical section, calls the application back (under
`qSubsMutex`/`qPubsMutex` to allocate, without a lock to update and prepare) and
calls the client (under `subsMutex` to unsubscribe, under `pubsMutex` to
publish, without a lock to subscribe and to announce). The client's thread calls
`onSubscribedObject`. A publisher and a subscriber share nothing but the
objects' names: namespace, 32-bit group, 16-bit object; the last two are also the
sframe counter.

**What is hard.** Locks are released between lookups and the actions that rest
on them (`startSubscription`, `startPublication`); failures are logged and
dropped half-way through loops; `connect` replaces the client under registered
subscriptions; counters wrap and restart from the clock; objects are lost,
reordered and repeated; keys exist per epoch and namespace.

**What makes each part correct.**

* Subscriptions: what the client is asked for is what the controller knows, and
  the reverse; one allocation per source; a live delegate is not replaced;
  objects go to the delegate of their source; calls return.
* Publications: one announcement per namespace; nothing is sent for a paused
  publication, and no manifest resumes it; calls return.
* Naming: a name identifies one object across failures and restarts.
* Counting: a gap that is counted was a loss.
* Encryption: a key is missing or wrong only for a reason that can be named; a
  subscriber forwards only what it could open.
* Session: no client is used after its end or left connected behind `disconnect`,
  but for the overlaps that no mutex prevents.
* Locks: no thread waits for ever, whatever a callback calls.
* Manifests: equal manifests publish alike; what is read is there.

## 2. The modules

**`SubscriptionControl`.** Threads with a program counter. A step is one critical
section, one callback, or one call of the client, which is exactly where the code
releases its locks. `find` and `create` are the two critical sections of
`startSubscription` (`QController.cpp:313` and `:316`), `subscribe` is the
unlocked `:333`. `stopSubscription` holds `subsMutex` over the unsubscribe and the
erase, so it is two steps under `subsMutex`. Locals (`streams`, `profiles`,
`delegate`, `sub_delegate`, `it`) are variables named as in the code. `requested`
is the client's side: the delegate it holds per namespace. `raced` is history:
the namespaces stopped while another thread was between lookup and subscribe.

**`SubscriptionLifecycle`** is the abstract specification of the subscriptions: per
namespace a phase (`absent`, `registered`, `leaving`), numbered registrations, the
ones that a start has got hold of, and the one the client holds. It knows no
threads, locks, manifests or sources. **`SubscriptionRefinement`** maps
`SubscriptionControl` to it: a namespace is `leaving` while the iterator of a
`stopSubscription` points to it, and a start is a thread between its lookup and
its `subscribe`.

**`Session`.** `client_session` is the two words of a `shared_ptr`. `connect` is
`BuildClient`, then the assignment, one access to `client_session` per step
(`WritePointer`, `ReadControl`, `WriteControl`, and `ReleaseOld`, which releases the
control block that was read), then `BeginDial` and `Dialled`. So two connects may
read the same old control block and both release it, and one may overwrite the
block the other has just written: `lost` is the history of the clients this happened
to while no connect had read their block. A call through `client_session->` reads the
pointer in one step and is inside the method until another (`Connected`,
`GetSubscriptionState`, `BeginDisconnect`); a call that passes the pointer by value
reads the pointer (`CopyPointer`), reads the control block (`CopyControl`), counts
(`CountCopy`), and calls and releases (`CallClient`). `Destroy` is the destructor. Undefined behaviour
is recorded in `undefined` and ends the behaviour. `Construct` is the part of the
constructor that sets the log level.

**`ControllerLocks`.** The four mutexes alone. A thread is a stack of calls, each
with the lock, unlock and callback events it has still to go through; `CallBack`
pushes a call from within a callback, `CallbackThrows` unwinds one. The data is left
out, and with it the lengths of the loops: `updateManifest` goes through at most one
stream with one profile of each kind, since every body locks and unlocks alike and
holds nothing when it ends, and `update` and `prepare`, both called without a mutex,
are the one callback `prepare`.

**`Manifest`.** The parser on records whose fields may be missing or malformed, the
operators `==` (which skip `appTag`), and what `updateManifest` makes of the
publications' profiles: the tag the application's delegate is allocated with, the
priorities and expiry of the `PublicationDelegate`, and the two indexings at 0 that
publishing does. The two loops of `processPublications` are the `Positions` of a
manifest, pairs of a stream and a profile of it, in their lexicographic order
(`First`); `Reached` are the positions they come to, which end in each stream at the
first delegate that is there and prepared when `is_singleordered_publication` is set
(the break of `QController.cpp:477`). `skipped` is the history of the namespaces the
last manifest named and the loops did not reach.

**`PublicationControl`.** The same for publications. `publishNamedObject` holds
`pubsMutex` from its lookup to its send, in two steps, so that a pause can be
tried in between. `announced`, `refused` and `sent` are the client's side;
`intents` and `allocations` count calls.

**`PublicationDelegate`.** One namespace over all its delegates: `Construct`
starts a new one at the clock, `TakeName` is the part of `publishNamedObject`
that advances the counters, followed by the send (`Publish`) or a failed
encryption (`EncryptFails`). `ReadsNoExpiry` is the undefined read of `expiry[0]`.

**`SubscriptionDelegate`.** `onSubscribedObject`: the gap tests in their order
(`NewGroup`, `GroupGap`, the reset in `Before`, `ObjectGap`), then forward or
fail. The counters are counted from their indeterminate start, modulo 2.

**`MediaPath`.** Extends `PublicationDelegate` with a `SubscriptionDelegate`
(an INSTANCE) and a transport that may deliver anything published in any order,
several times or never.

**`SFrameContext`.** Several `QSFrameContext` objects. A method holds
`context_mutex` from start to end and is one step. Cryptography is symbolic: a key
is [namespace, epoch, secret]. Whether `add_key` overwrites is the library's
choice, made once (`add_key_replaces`).

**`SecurePath`.** Composes several publishers' contexts and a subscriber's, all
instances of `SFrameContext`, with the delegates' use of them: the fixed epoch, the
epoch in front of the object, the test for a cipher suite, and what
`onSubscribedObject` drops and forwards. Delegates may be rebuilt at any time; an
object that was not encrypted may read as one of any epoch.

**The theorems** are in a module beside each of these:
`SubscriptionControlProofs` (with the refinement), `PublicationControlProofs`,
`SessionProofs`, `ControllerLocksProofs`, `ManifestProofs`, `MediaPathProofs`
(with the publisher it is built on), `SFrameContextProofs` and `SecurePathProofs`.

Each module has a short section of mistakes a programmer could make
(`...Forgotten`, `...Overwrites`). The specification does not use them; put in
place of the definition named beside it, each makes a property fail, which
shows that the property depends on that line of the code.

## 3. The runs

| Run | Question | Bounds |
|---|---|---|
| `MCSubscriptionControl.cfg` | registry and client agree, and calls return, over all interleavings of manifests, stops and connects; it implements `SubscriptionLifecycle` | 2 threads, 2 sources, 2 namespaces, 2 manifests processed, 2 connects |
| `MCPublicationControl.cfg` | announce once, silent while paused, pauses survive, calls return | 2 threads, 2 namespaces, 2 manifests, 2 connects, 2 publishes |
| `MCPublicationSingleOrdered.cfg` | the break follows a success: **violated** | small manifests |
| `MCMediaPath.cfg` | names are unique, counted gaps are losses | 5 groups, 3 objects per group, 4 objects, 1 restart, 2 seconds |
| `MCMediaPathComment.cfg` | the comment's object gap is counted: **violated** | the same |
| `MCSFrameContext.cfg` | failures of protect/unprotect are explained | 2 contexts, 2 epochs, 2 secrets; finite, no bound |
| `MCSFrameEnsureKey.cfg` | `ensure_key` leaves the key: **violated** | 1 context, 2 epochs |
| `MCSecurePath.cfg` | what a subscriber drops and forwards is explained | 2 namespaces, 2 epochs; finite, no bound |
| `MCSession.cfg` | uses of the client, `disconnect` and the destructor against `connect` | 3 threads, 3 clients |
| `MCSessionLogger.cfg` | the parent's log level is used: **violated** | the same, any arguments of the constructor |
| `MCControllerLocks.cfg` | deadlocks are explained | 2 threads, 4 calls, calls nested in a callback's call: 2 |
| `MCManifest.cfg` | comparison, allocations, tags, priorities and expiry of publications, single-ordered or not | 2 updates, manifests of up to 2 profiles, 5 ill-formed ones |

*Why the bounds are enough.* Every race here is between two threads over one
namespace: a lookup and a create, a subscribe and a stop, a test and a send. Two
threads, two sources that share a namespace (within a manifest and across two) and
two updates let each window open with every other operation inside it. Two
connects show a registration older than its client. Three objects to a group and
five groups are passed by the counters, and let a group gap, an object gap and both
together happen with anything lost between them. Three clients and three threads
let two connects overlap while a third thread uses one of them. Four calls are two
per thread, one from outside and one from a callback, which is what two threads need
to wait for each other. Two updates are a manifest and the one before it.
`MaxUpdates`, `MaxSessions`, `MaxPublishes`, `MaxClock`, `MaxConstructions`,
`MaxClients`, `MaxDepth` and `MaxCalls` are the only bounds that are not in the code.

*Symmetry* is used in the threads, in safety runs only (and in namespaces,
contexts, epochs and secrets where a module treats them alike). `MCSession.cfg` has a
`VIEW` without `logger`, which the constructor sets and no step reads or writes: the
three values it may start with have the same behaviours otherwise.
*Deadlock* is checked except in `MediaPath` and `Manifest`, where the bounded
application may come to its end, and in `ControllerLocks`, where the code can
really stop: `DeadlockExplained` says when.

*Fairness* (`FairSpec`) is weak fairness of each thread's steps inside a call:
a thread that can continue does. `std::mutex` is not fair, but a thread holds it
for a bounded number of steps, and the number of calls is bounded, so it cannot be
taken for ever by others. Calls themselves are not fair: an application need not
make any. A callback that never returns is excluded. `SubscriptionLifecycle` asks
for no more than that a withdrawn namespace is removed and a start ends.

## 4. What the runs show

* With two threads, the client may keep a subscription the controller has
  forgotten, but only on a namespace that was stopped while another thread was
  between its lookup and `subscribe` (`NoOrphans`); with one thread it cannot
  (theorem `OneThreadLeavesNoOrphan`).
* Registered subscriptions are requested, and publications announced, from the
  client they were created for; after another `connect` neither is repeated
  (`RequestedUnlessReconnected`, `AnnouncedUnlessReconnected`).
* A pause is exact (`PausedIsSilent`), and no manifest undoes it
  (`PauseSurvivesManifests`).
* Names are unique unless a counter wraps or a delegate is rebuilt before the
  clock passed its predecessor's groups (`NamesIdentifyObjects`): at more than one
  group per second this happens on a restart.
* Counted gaps between in-order arrivals are losses (`GapsAreLosses`); not every
  loss is counted (below), and out of order nothing is promised. The first arrival is
  exempt: it is compared with the initial group 0, and the groups being times, it
  always counts a group gap that is no loss.
* With one epoch whose secret was added first, as the delegates use it,
  encryption never fails (`FailuresExplained`). End to end, one object that was not
  encrypted and reads as another epoch is enough to make a subscriber drop all
  encrypted objects of its namespace (`DropsExplained`); nothing else does.
* Only a stop ends a subscription: a manifest that no longer names a source leaves
  it running (`OnlyStopsEnd`).
* Seen from outside, a subscription has the life of `SubscriptionLifecycle`: the
  client may hold an older registration than the controller, but never one that
  was not found or created by a start (`ImplementsLifecycle`).
* A client is used after its end only when a `connect` overlaps another one, a call
  through the pointer itself or the moment of a copy (`UndefinedExplained`). After
  `disconnect` a client is connected only if `connect` reached it later, if a call or a
  connect under way still holds it, or if overlapping connects mixed or lost its
  words (`ClosedIsDisconnected`); the destructor ends all of these but the lost ones,
  whose control block one connect overwrote before any other had read it: nobody owns
  them, and they stay allocated, and connected, for good (`DestroyedFreesAll`).
* The one way to a deadlock on the controller's own four mutexes is a callback that
  allocates a delegate and calls `updateManifest` or `getSwitchingSets`
  (`DeadlockExplained`). Mutexes of the client or the application are not modelled.
* Manifests that compare equal publish alike but for the tag
  (`EqualManifestsPublishAlike`); a profile without `expiry` makes publishing read
  `expiry[0]` of an empty vector, one without `priorities` is completed
  (`OnlyExpiryUndefined`); tag and priorities may come from different profiles
  after a failed start (`TagAndPublicationAgree`). A manifest equal to the last one
  allocates nothing, except what the break of a single-ordered publication had left
  out the first time (`EqualAllocatesSkipped`): if the first profile is not prepared
  the second time, or the flag was reset, the loop goes on to the next.

**Disagreements between code and documentation**, each shown by a run:

1. `QController.cpp:476` says the loop breaks when one delegate was "successfully
   processed". It breaks after a failure as well.
2. `QuicrDelegates.cpp:128-133` lists (8,1) after (7,4) as an object gap. Nothing
   is counted, since the object is compared with the last one of the old group.
3. `QSFrameContext.hpp:41` says a namespace's context has keys by epoch. The test
   in `ensure_key` is inverted, so a context gets the key of its first epoch only.
4. `QController.cpp:32-33` says a parent logger's level is used. The test looks at
   the parameter the member was moved from, so the debugging flag decides alone (and
   a null logger is dereferenced when there is no parent).

Two more, without a run of their own: `QController.hpp:91` says the lookup of the
subscription delegate finds it "or creates it if it does not exist", but it only
finds, and `startSubscription`, which creates in a second critical section, fails
when another thread was faster (`CreateRefused`); `ManifestTypes.hpp:54-56` speaks of
templates that convert `quicrNamespaceUrl`, which the parser does not look at, so
that a profile without `quicrNamespace` is an error (`ManifestRejected`).

## 5. What is proved

Every invariant and action property of a passing run is a theorem, for every value
of the constants, with no assumption but those on the constants that TLC evaluates in
the runs. The bounds (`MaxUpdates` and the like) are constants as well, so a theorem
holds for runs of any length. Each inductive invariant was checked by TLC on the
run's instance before it was proved.

**`SubscriptionControlProofs`** (`ConstantsAssumption`, `NullAssumption`). `IInv` is
`TypeOK`, `LocalsOK` (which locals are meaningful at which label), `RegistryInv`,
`AllocationsOK` and `InUseForwards`. `NoOrphans` alone is not inductive: a `subscribe`
step needs that the delegate in its hand is still registered or its namespace raced
(`InFlightRegistered`), and an erase that the client was already told (`ErasingOK`).
`ForwardsToItsSource` needs that every delegate anyone holds, not only a registered
one, forwards to the entry of its source. From it: `TypeCorrect`,
`NoOrphanedSubscription`, `AllocationIsUnique`, `SubscriptionsForward`,
`DelegatesKept`, and `OneThreadLeavesNoOrphan`, which adds that a lone thread never
races itself.

`LInv` adds to it what the life of a namespace needs: that the iterator of a stop
points to a registered namespace until the erase (`StopsOK`), that the registered
delegate is the last one created (`NumbersOK`), and for a client that is not newer than
the one in force (`SessionsOK`). From it `SubscriptionsRequested`,
`StopsAlone`, and `LifecycleRefined`: every step of `SubscriptionControl` is a step of
`SubscriptionLifecycle` or changes nothing it speaks of. There is one lemma per action;
most show a stutter, and the four that do not are the create, the subscribe, the erase
and the connect.

**`PublicationControlProofs`** (`PubConstantsAssumption`, `PubNullAssumption`). The
invariant says that a namespace is announced by the one thread that created its
publication (`IntentsOK`), and that a thread between its test of the state and its
send works on a publication that stays active (`PublishingActive`): the first gives `IntentIsUnique` and `PublicationsAnnounced`, the second `PauseSilences`.
`PausePersists` needs no more than that a create never replaces an entry. `AllocationIsUnique`
counts the calls.

**`SessionProofs`** (`MaxClientsAssumption`). As long as nothing undefined has
happened, the count of each client is at most the number of threads with a counted
copy of it, plus one if anybody else has its control block: the connect that built it,
`client_session`, the connects about to release it, or nobody any more (`lost`). Once
connects overlap it may be less, because two of them may be about to release one block;
while none has overlapped, the two numbers are equal
(`CountsOK`). A client is destroyed exactly when its count is 0 (`StatusOK`); nothing
points to a client that was never built (`PointersOK`); a client being built has no
owner but its connect (`NewOK`), and until `connect` assigns it nobody else points to it
(`SwapsOK`). While nothing overlapped, one connect at a time releases a block, none is
lost, the two words agree outside an assignment, and what a thread uses without owning
it is what `client_session` owns (`UnownedOK`): this is where the theorems have their
force, and where the overlap that they except is needed. From it `UndefinedIsExplained`,
`DisconnectDisconnects` (with `CloseOK`: which clients `close` could not reach) and
`DestructorFreesAll` (with `EndOK`: after the end no thread is in a call and
`client_session` is null). Of two connects that release one block the second finds it
freed and is `undefined`, as is a copy whose owner they released; of a freed block no
count is kept, so that `TypeOK` says nothing about it.

**`ControllerLocksProofs`** (`LocksAssumption`). The property is about the reachable
stacks, so the invariant is about the shape of the calls: every call that holds a
mutex unlocks it next, or has one allocation in between (`Guarded`), and holds no other.
A thread of a circle that waits for another's mutex has its owner in a callback under
that mutex, which is an allocation; and since an allocation is under `qSubsMutex` or
`qPubsMutex`, so is the wait (`DeadlocksAreExplained`). This holds for any threads, any
application and any depth of calls from callbacks.

**`ManifestProofs`** (`ManifestAssumption`, `JsonAssumption`: a field that is there
and not malformed has its C++ type, and `Absent` is not data). The invariant is that
what was allocated was created by the same update from the same profile, unless a profile
was reached and not started (`Finished`), that what the last manifest names is
allocated or was skipped (`Remembered`), and that created priorities are not empty. The comparison theorems
(`EqualPublishAlike`, `EqualIsIdle`) rest on lemmas about `==`: equal manifests have the
same positions with equal profiles (`EqualPositions`), and the first of any positions
exists (`FirstType`), which is shown from the well-foundedness of set inclusion.

**`MediaPathProofs`** (`NamingAssumption`). Of the publisher: all names sent are
lexicographically at or below (`groupId`, `objectId`), and the group is the
construction time plus the groups started; from it `NamesAreUnique`, for the real
widths 2^32 and 2^16 among others. Of the path: two objects whose positions are next to
each other have names that follow each other, with wrap-around (`Follows`); with one
name in between one of group and object still fits (`SkipsOne`); the first object of a
rebuilt publisher has number 0 or 1 (`PairsOK`). That speaks of pairs of objects and
is only inductive with the same about an object and the publisher's counters
(`CountersOK`). Then `GapsCountLosses` is a case split: nothing in between opens no gap,
one thing opens one at most, and a step never opens more than two. `PathRunsPublisher`
shows that the path is a behaviour of `PublicationDelegate`, and carries the theorems
about it over.

**`SFrameContextProofs`** (`SFrameConstantsAssumption`). Every key has a recorded use
and a recorded secret, and a namespace's context is never without any key; so a missing
key points to another epoch's, and a wrong one to another secret. From it
`FailuresAreExplained`, whatever `add_key` does with a key that exists.

**`SecurePathProofs`** (`SecurePathAssumption`: the fixed epoch is an epoch, and the
model values that stand for no epoch, no secret and no encryption are none). A context in
use has the fixed epoch's secret (`ContextsOK`), what is encrypted is under that key
(`NetworkOK`), and the first epoch seen of a namespace is the one whose key it has
(`FirstEpochOK`). From it `DropsAreExplained` and `ForwardsWhatItOpened`.

**Only model-checked:** `CallsReturn` of both control modules and the fairness of
`ImplementsLifecycle`: liveness and `ENABLED` are out of the prover's reach.

## 6. Assumptions and what is left out

* `namespace_map` lookups are by exact namespace; the manifests' namespaces do not
  contain one another.
* In the control modules application callbacks return, do not throw and do not call
  the controller back; `ControllerLocks` has all but the first.
* In the control modules `connect` is one step with respect to the other calls;
  `Session` breaks it up.
* `Session` takes the accesses of a `shared_ptr` in the order the library's source
  has them: assignment swaps the pointers, swaps the control blocks and releases the
  old one; a copy reads the pointer, the control block, and counts. A compiler may
  reorder or join the accesses to the two words, the race being undefined in C++. That
  differs only where an assignment overlaps another access, and what then becomes of
  pointer and owner is excepted by name. The old pointer an assignment reads is not
  kept, since only control blocks are released.
* The tests of `closed` and `client_session`, `stop = true` and the read of the pointer
  in `disconnect` are one step, as are the test and the read in `connected`: a pointer
  that was null at the test is not dereferenced, one that was not is never null later,
  and between test and read a `connect` only makes the client that is ended a later one.
* In `Manifest` an update runs to its end, and reads `is_singleordered_publication`
  once; that the flag changes between two profiles is in `PublicationControl`.
* Object lifetimes (the reference members of `PublicationDelegate`), payload
  bytes, priorities, method traces and logging are not modelled.
* The mode of a subscribe (`setSubscriptionState`) is passed to the client and not
  modelled.
* The command-line client (`ctest/qtest.cpp`) ends before it connects, since its
  delegates register two loggers of one name; the tests and their relay have no
  state of their own worth a model.
* Functions that nothing calls (`removeSubscriptions`,
  `findQuicrPublicationDelegate`, `publishIntentEnd`) are not modelled.

## 7. Plan

Done, in this order: `SubscriptionControl` with its proofs, `PublicationControl`,
`SFrameContext` with its proofs, `PublicationDelegate` with its proofs,
`SubscriptionDelegate`, `MediaPath`, `Session`, `ControllerLocks`,
`SubscriptionLifecycle` and the refinement, `Manifest`, `SecurePath`.

The proofs followed in the order of section 5.

What is left: a theorem that joins `PublicationControl` and `PublicationDelegate` (the
send of the one is the `Publish` of the other), so that the uniqueness of names is
stated for the publications a controller starts; consequences of the theorems
under what a careful application does (one thread that connects; no call back from an
allocation), as `OneThreadLeavesNoOrphan` is for subscriptions.
