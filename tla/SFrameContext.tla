---------------------------- MODULE SFrameContext ----------------------------
(***************************************************************************)
(* qmedia::QSFrameContext (src/src/QSFrameContext.cpp): epoch secrets, the *)
(* epoch in force, and one sframe::ContextBase per namespace, shared by    *)
(* several senders and receivers.  Every method holds context_mutex from   *)
(* its first line to its last, so a method is one step.                    *)
(*                                                                         *)
(* Cryptography is symbolic: hkdf_extract(salt of the namespace, secret)   *)
(* is injective, and a ciphertext opens under the key that sealed it and   *)
(* under no other.  The counter plays no part here (see PublicationDelegate*)
(* for its uniqueness).                                                    *)
(***************************************************************************)
CONSTANTS
    Contexts,       \* the QSFrameContext objects
    Epochs,
    Namespaces,
    Secrets,        \* epoch secrets the application may add
    NoEpoch,        \* std::nullopt
    EmptySecret     \* the empty byte string

ASSUME SFrameConstantsAssumption ==
    /\ NoEpoch \notin Epochs
    /\ EmptySecret \notin Secrets

VARIABLES
    \* Members of QSFrameContext, per object.
    current_epoch,
    epoch_secrets,      \* set of [epoch, secret], at most one per epoch
    ns_contexts,        \* the namespaces that have an sframe::ContextBase
    \* The sframe library.
    keys,               \* per object: [namespace, epoch, secret] added
    add_key_replaces,   \* whether add_key overwrites the key of an epoch
    \* The environment.
    sealed,             \* objects protected so far, by any object
    \* History.
    uses,               \* per object: [namespace, epoch] asked of ensure_key
    derived,            \* [epoch, secret] a base key was derived from
    failures            \* [context, namespace, epoch] of calls that threw

members == <<current_epoch, epoch_secrets, ns_contexts, keys>>
vars == <<members, add_key_replaces, sealed, uses, derived, failures>>

Key == [namespace : Namespaces, epoch : Epochs, secret : Secrets \cup {EmptySecret}]
EpochSecret == [epoch : Epochs, secret : Secrets \cup {EmptySecret}]
Use == [namespace : Namespaces, epoch : Epochs]

(***************************************************************************)
(* TypeOK: an epoch has one secret, and a namespace that is given a key    *)
(* has a context, so that ns_contexts.at does not throw in ensure_key.     *)
(***************************************************************************)
TypeOK ==
    /\ current_epoch \in [Contexts -> Epochs \cup {NoEpoch}]
    /\ epoch_secrets \in [Contexts -> SUBSET EpochSecret]
    /\ \A c \in Contexts : \A r, s \in epoch_secrets[c] :
          r.epoch = s.epoch => r = s
    /\ ns_contexts \in [Contexts -> SUBSET Namespaces]
    /\ keys \in [Contexts -> SUBSET Key]
    /\ \A c \in Contexts : \A k \in keys[c] : k.namespace \in ns_contexts[c]
    /\ add_key_replaces \in BOOLEAN
    /\ sealed \subseteq Key
    /\ uses \in [Contexts -> SUBSET Use]
    /\ derived \subseteq EpochSecret
    /\ failures \subseteq
          [context : Contexts, namespace : Namespaces, epoch : Epochs]

Init ==
    /\ current_epoch = [c \in Contexts |-> NoEpoch]
    /\ epoch_secrets = [c \in Contexts |-> {}]
    /\ ns_contexts = [c \in Contexts |-> {}]
    /\ keys = [c \in Contexts |-> {}]
    /\ add_key_replaces \in BOOLEAN
    /\ sealed = {}
    /\ uses = [c \in Contexts |-> {}]
    /\ derived = {}
    /\ failures = {}

-----------------------------------------------------------------------------
(***************************************************************************)
(* The secrets.  operator[] of std::map inserts an empty secret for an     *)
(* epoch that has none, and the insertion stays.                           *)
(***************************************************************************)
HasSecret(c, e) == \E s \in epoch_secrets[c] : s.epoch = e

SecretOf(c, e) ==
    IF HasSecret(c, e) THEN (CHOOSE s \in epoch_secrets[c] : s.epoch = e).secret
    ELSE EmptySecret

WithSecret(c, e, s) ==
    {r \in epoch_secrets[c] : r.epoch # e} \cup {[epoch |-> e, secret |-> s]}

(***************************************************************************)
(* The sframe library, as the code uses it.  Whether add_key overwrites a  *)
(* key that is there already is the library's choice.                      *)
(***************************************************************************)
HasKey(c, n, e) == \E k \in keys[c] : k.namespace = n /\ k.epoch = e

KeysWith(c, key) ==
    IF ~HasKey(c, key.namespace, key.epoch) THEN keys[c] \cup {key}
    ELSE IF add_key_replaces
         THEN {k \in keys[c] : k.namespace # key.namespace \/ k.epoch # key.epoch}
                \cup {key}
    ELSE keys[c]

(***************************************************************************)
(* Plausible mistakes, for the mutation runs: a context that is never      *)
(* emplaced, and a key derived from the secret of the epoch in force       *)
(* instead of the epoch asked for.                                         *)
(***************************************************************************)
EmplaceForgotten(c, n) == ns_contexts[c]                       \* Emplaced
KeyOfCurrentEpoch(c, n, e) ==                                  \* BaseKey
    [namespace |-> n, epoch |-> e, secret |-> SecretOf(c, current_epoch[c])]

(***************************************************************************)
(* ensure_key and derive_base_key.  A namespace with a context returns     *)
(* early when the epoch's key is NOT there, as the code's test reads; a    *)
(* namespace without a context, and one whose key is there, get the key.   *)
(***************************************************************************)
ReturnsEarly(c, n, e) == n \in ns_contexts[c] /\ ~HasKey(c, n, e)

Emplaced(c, n) == ns_contexts[c] \cup {n}

BaseKey(c, n, e) == [namespace |-> n, epoch |-> e, secret |-> SecretOf(c, e)]

EnsuredKeys(c, n, e) ==
    IF ReturnsEarly(c, n, e) THEN keys[c] ELSE KeysWith(c, BaseKey(c, n, e))

EnsureKey(c, n, e) ==
    /\ keys' = [keys EXCEPT ![c] = EnsuredKeys(c, n, e)]
    /\ ns_contexts' = [ns_contexts EXCEPT ![c] = Emplaced(c, n)]
    /\ \/ /\ ReturnsEarly(c, n, e)
          /\ UNCHANGED <<epoch_secrets, derived>>
       \/ /\ ~ReturnsEarly(c, n, e)
          /\ epoch_secrets' =
                [epoch_secrets EXCEPT ![c] = WithSecret(c, e, SecretOf(c, e))]
          /\ derived' = derived \cup {[epoch |-> e, secret |-> SecretOf(c, e)]}
    /\ uses' = [uses EXCEPT ![c] = @ \cup {[namespace |-> n, epoch |-> e]}]
    /\ UNCHANGED <<current_epoch, add_key_replaces>>

Failed(c, n, e) ==
    failures' = failures \cup {[context |-> c, namespace |-> n, epoch |-> e]}

-----------------------------------------------------------------------------
AddEpoch(c, e, s) ==
    /\ epoch_secrets' = [epoch_secrets EXCEPT ![c] = WithSecret(c, e, s)]
    /\ UNCHANGED <<current_epoch, ns_contexts, keys, add_key_replaces, sealed,
                   uses, derived, failures>>

EnableEpoch(c, e) ==
    /\ current_epoch' = [current_epoch EXCEPT ![c] = e]
    /\ UNCHANGED <<epoch_secrets, ns_contexts, keys, add_key_replaces, sealed,
                   uses, derived, failures>>

(***************************************************************************)
(* protect: without an epoch in force it returns nothing; otherwise it     *)
(* seals with the namespace's key of that epoch, or the library throws for *)
(* an unknown key.                                                         *)
(***************************************************************************)
Protect(c, n) ==
    /\ current_epoch[c] # NoEpoch
    /\ LET e == current_epoch[c] IN
          /\ EnsureKey(c, n, e)
          /\ \/ \E k \in keys'[c] :
                   /\ k.namespace = n /\ k.epoch = e
                   /\ sealed' = sealed \cup {k}
                   /\ UNCHANGED failures
             \/ /\ \A k \in keys'[c] : k.namespace # n \/ k.epoch # e
                /\ Failed(c, n, e)
                /\ UNCHANGED sealed

\* unprotect: the epoch comes with the object, not from current_epoch.
Opens(c, m) == m \in keys'[c]

Unprotect(c, m) ==
    /\ EnsureKey(c, m.namespace, m.epoch)
    /\ \/ /\ Opens(c, m)
          /\ UNCHANGED failures
       \/ /\ ~Opens(c, m)
          /\ Failed(c, m.namespace, m.epoch)
    /\ UNCHANGED sealed

\* The copy constructor: a new object takes over the members of another.
Fresh(c) ==
    /\ current_epoch[c] = NoEpoch
    /\ epoch_secrets[c] = {}
    /\ ns_contexts[c] = {}

CopyConstruct(c, other) ==
    /\ Fresh(c)
    /\ current_epoch' = [current_epoch EXCEPT ![c] = current_epoch[other]]
    /\ epoch_secrets' = [epoch_secrets EXCEPT ![c] = epoch_secrets[other]]
    /\ ns_contexts' = [ns_contexts EXCEPT ![c] = ns_contexts[other]]
    /\ keys' = [keys EXCEPT ![c] = keys[other]]
    /\ uses' = [uses EXCEPT ![c] = @ \cup uses[other]]
    /\ UNCHANGED <<add_key_replaces, sealed, derived, failures>>

Next ==
    \/ \E c \in Contexts, e \in Epochs, s \in Secrets : AddEpoch(c, e, s)
    \/ \E c \in Contexts, e \in Epochs : EnableEpoch(c, e)
    \/ \E c \in Contexts, n \in Namespaces : Protect(c, n)
    \/ \E c \in Contexts, m \in sealed : Unprotect(c, m)
    \/ \E c, other \in Contexts : CopyConstruct(c, other)

Spec == Init /\ [][Next]_vars

-----------------------------------------------------------------------------
(***************************************************************************)
(* A call of protect or unprotect on an object fails only for one of two   *)
(* reasons: that object was used with another epoch in the same namespace  *)
(* before (only the first epoch of a namespace ever gets its key), or the  *)
(* secret of the epoch was not the same for everybody who derived a key    *)
(* from it (never added, added late, or different).  So contexts that use  *)
(* one epoch whose secret they added first, as the delegates do with       *)
(* Fixed_Epoch, never fail, whatever the namespaces and the order.         *)
(***************************************************************************)
SecretsDisagree(e) ==
    \E r, s \in derived : r.epoch = e /\ s.epoch = e /\ r # s

UsedAnotherEpoch(f) ==
    \E u \in uses[f.context] : u.namespace = f.namespace /\ u.epoch # f.epoch

FailuresExplained ==
    \A f \in failures : UsedAnotherEpoch(f) \/ SecretsDisagree(f.epoch)

(***************************************************************************)
(* What ensure_key is named for and QSFrameContext.hpp says of ns_contexts *)
(* ("key_id=epoch"): after it ran for an epoch, the namespace's context    *)
(* holds that epoch's key.                                                 *)
(***************************************************************************)
EnsuresKey ==
    \A c \in Contexts : \A u \in uses[c] : HasKey(c, u.namespace, u.epoch)
=============================================================================
