----------------------------- MODULE SecurePath -----------------------------
(***************************************************************************)
(* Encryption from end to end: a PublicationDelegate per sframe namespace  *)
(* and one SubscriptionDelegate whose namespace covers them all, each with *)
(* a QSFrameContext of its own when its QController has a cipher suite.    *)
(* Publishers and the subscriber may be built again, and a publisher then  *)
(* with or without a cipher suite.                                         *)
(*                                                                         *)
(* The subscriber takes the epoch from the head of the object and the      *)
(* sframe namespace from its name.  An object that was not encrypted may   *)
(* begin with bytes that read as any epoch, or with none.  The transport   *)
(* may lose, delay, reorder and duplicate.                                 *)
(***************************************************************************)
CONSTANTS
    Namespaces,         \* sframe namespaces: 80 bits of the name
    Epochs, FixedEpoch,
    Secret,             \* the key material both constructors add
    NoEpoch, EmptySecret,
    Subscriber,         \* the subscriber's context; a publisher's is its namespace
    NotSealed           \* in the place of a key: the object is not a ciphertext

ASSUME SecurePathAssumption ==
    /\ FixedEpoch \in Epochs
    /\ NoEpoch \notin Epochs
    /\ Subscriber \notin Namespaces
    /\ Secret # EmptySecret
    /\ NotSealed \notin {Secret, EmptySecret}

VARIABLES
    \* The contexts, see SFrameContext.
    current_epoch, epoch_secrets, ns_contexts, keys, add_key_replaces, sealed,
    uses, derived, failures,
    encrypts,           \* per publisher: sframe_context was built
    decrypts,           \* the same for the subscriber
    network,            \* objects published
    forwarded,          \* objects passed to the application, as they arrived
    \* History.
    dropped,            \* objects that onSubscribedObject did not forward
    firstEpoch          \* per namespace: the first one the subscriber's context saw

contextVars == <<current_epoch, epoch_secrets, ns_contexts, keys,
                 add_key_replaces, sealed, uses, derived, failures>>
subscriberVars == <<decrypts, forwarded, dropped, firstEpoch>>
vars == <<contextVars, encrypts, network, subscriberVars>>

Contexts == Namespaces \cup {Subscriber}

SFrame == INSTANCE SFrameContext WITH Secrets <- {Secret}

\* An object on the wire: a ciphertext under a key, or bytes that read as one.
Object == SFrame!Key \cup
    [namespace : Namespaces, epoch : Epochs \cup {NoEpoch}, secret : {NotSealed}]

IsSealed(m) == m.secret # NotSealed

(***************************************************************************)
(* TypeOK: the contexts are well-typed, and only what was published is     *)
(* forwarded or dropped.                                                   *)
(***************************************************************************)
TypeOK ==
    /\ SFrame!TypeOK
    /\ encrypts \in [Namespaces -> BOOLEAN]
    /\ decrypts \in BOOLEAN
    /\ network \subseteq Object
    /\ forwarded \cup dropped \subseteq network
    /\ firstEpoch \in [Namespaces -> Epochs \cup {NoEpoch}]

-----------------------------------------------------------------------------
(***************************************************************************)
(* The constructors, with a cipher suite: a new context, to which the      *)
(* secret of the fixed epoch is added before the epoch is enabled.         *)
(***************************************************************************)
\* A mistake for the mutation runs: the epoch is enabled without a secret.
NoSecrets == {}                                              \* FixedSecrets

FixedSecrets == {[epoch |-> FixedEpoch, secret |-> Secret]}

Constructed(c, secrets) ==
    /\ current_epoch' = [current_epoch EXCEPT ![c] = FixedEpoch]
    /\ epoch_secrets' = [epoch_secrets EXCEPT ![c] = secrets]
    /\ ns_contexts' = [ns_contexts EXCEPT ![c] = {}]
    /\ keys' = [keys EXCEPT ![c] = {}]
    /\ uses' = [uses EXCEPT ![c] = {}]
    /\ UNCHANGED <<add_key_replaces, sealed, derived, failures>>

Init ==
    /\ SFrame!Init
    /\ encrypts = [n \in Namespaces |-> FALSE]
    /\ decrypts = FALSE
    /\ network = {} /\ forwarded = {} /\ dropped = {}
    /\ firstEpoch = [n \in Namespaces |-> NoEpoch]

BuildPublisher(n, cipher) ==
    /\ encrypts' = [encrypts EXCEPT ![n] = cipher]
    /\ \/ cipher /\ Constructed(n, {[epoch |-> FixedEpoch, secret |-> Secret]})
       \/ ~cipher /\ UNCHANGED contextVars
    /\ UNCHANGED <<network, subscriberVars>>

\* What the delegate before it forwarded and dropped is of no interest.
BuildSubscriber ==
    /\ decrypts' = TRUE
    /\ Constructed(Subscriber, FixedSecrets)
    /\ forwarded' = {} /\ dropped' = {}
    /\ firstEpoch' = [n \in Namespaces |-> NoEpoch]
    /\ UNCHANGED <<encrypts, network>>

(***************************************************************************)
(* publishNamedObject.  Fixed_Epoch is written in front of the ciphertext. *)
(***************************************************************************)
PublishSealed(n) ==
    /\ encrypts[n]
    /\ SFrame!Protect(n, n)
    /\ network' = network \cup
          {k \in keys'[n] : k.namespace = n /\ k.epoch = FixedEpoch}
    /\ UNCHANGED <<encrypts, subscriberVars>>

PublishPlain(n, e) ==
    /\ ~encrypts[n]
    /\ network' = network \cup {[namespace |-> n, epoch |-> e, secret |-> NotSealed]}
    /\ UNCHANGED <<contextVars, encrypts, subscriberVars>>

(***************************************************************************)
(* onSubscribedObject.  An object whose epoch cannot be read is dropped    *)
(* before the context is asked; unprotect throws for any it cannot open.   *)
(***************************************************************************)
Drop(m) == dropped' = dropped \cup {m} /\ UNCHANGED forwarded
Forward(m) == forwarded' = forwarded \cup {m} /\ UNCHANGED dropped

\* A mistake: the handlers log and do not return.
ForwardAnyway(m) == Forward(m)                               \* Unopened

Unopened(m) == Drop(m)

ReceiveDecrypting(m) ==
    /\ decrypts
    /\ m.epoch # NoEpoch
    /\ SFrame!Unprotect(Subscriber, m)
    /\ IF SFrame!Opens(Subscriber, m) THEN Forward(m) ELSE Unopened(m)
    /\ firstEpoch' = IF firstEpoch[m.namespace] = NoEpoch
                     THEN [firstEpoch EXCEPT ![m.namespace] = m.epoch]
                     ELSE firstEpoch
    /\ UNCHANGED <<encrypts, decrypts, network>>

ReceiveUnreadable(m) ==
    /\ decrypts
    /\ m.epoch = NoEpoch
    /\ Unopened(m)
    /\ UNCHANGED <<contextVars, encrypts, decrypts, network, firstEpoch>>

ReceiveAsIs(m) ==
    /\ ~decrypts
    /\ Forward(m)
    /\ UNCHANGED <<contextVars, encrypts, decrypts, network, firstEpoch>>

Next ==
    \/ \E n \in Namespaces :
          \/ \E cipher \in BOOLEAN : BuildPublisher(n, cipher)
          \/ PublishSealed(n)
          \/ \E e \in Epochs \cup {NoEpoch} : PublishPlain(n, e)
    \/ BuildSubscriber
    \/ \E m \in network : ReceiveDecrypting(m) \/ ReceiveUnreadable(m) \/ ReceiveAsIs(m)

Spec == Init /\ [][Next]_vars

-----------------------------------------------------------------------------
(***************************************************************************)
(* DropsExplained: a subscriber drops an encrypted object only if the      *)
(* first object it looked into in that namespace was not encrypted and     *)
(* read as another epoch.  That one object is enough, because ensure_key   *)
(* then gives the namespace the key of no other epoch                      *)
(* (QSFrameContext.cpp:59); no restart of the publisher helps, no object   *)
(* of another namespace matters, and a new SubscriptionDelegate starts     *)
(* afresh.                                                                 *)
(***************************************************************************)
DropsExplained ==
    \A m \in dropped :
        IsSealed(m) => firstEpoch[m.namespace] \notin {FixedEpoch, NoEpoch}

(***************************************************************************)
(* OnlyOpenedForwarded: a subscriber with a cipher suite forwards nothing  *)
(* but what its context opened, under the key of the fixed epoch and the   *)
(* namespace of the name, and once it opened one object of a namespace it  *)
(* drops no encrypted object of it (QuicrDelegates.cpp:157-190).           *)
(***************************************************************************)
OnlyOpenedForwarded ==
    decrypts =>
        /\ \A m \in forwarded :
              /\ m \in keys[Subscriber] /\ m.epoch = FixedEpoch /\ m.secret = Secret
              /\ \A d \in dropped : d.namespace = m.namespace => ~IsSealed(d)
=============================================================================
