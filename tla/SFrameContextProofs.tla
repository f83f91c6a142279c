------------------------- MODULE SFrameContextProofs -------------------------
(***************************************************************************)
(* Proofs about SFrameContext, for every set of objects, epochs,           *)
(* namespaces and secrets, and for both behaviours of add_key.             *)
(*                                                                         *)
(* The inductive invariant adds to FailuresExplained what makes a failure  *)
(* traceable: every key was asked for by a use of its epoch and derived    *)
(* from a recorded secret, and a namespace's context is never left without *)
(* any key.                                                                *)
(***************************************************************************)
EXTENDS SFrameContext, TLAPS

\* TypeOK without the objects and the failures.
MembersOK ==
    /\ current_epoch \in [Contexts -> Epochs \cup {NoEpoch}]
    /\ epoch_secrets \in [Contexts -> SUBSET EpochSecret]
    /\ \A c \in Contexts : \A r, s \in epoch_secrets[c] :
          r.epoch = s.epoch => r = s
    /\ ns_contexts \in [Contexts -> SUBSET Namespaces]
    /\ keys \in [Contexts -> SUBSET Key]
    /\ \A c \in Contexts : \A k \in keys[c] : k.namespace \in ns_contexts[c]
    /\ add_key_replaces \in BOOLEAN
    /\ uses \in [Contexts -> SUBSET Use]
    /\ derived \subseteq EpochSecret

KeysRecorded ==
    \A c \in Contexts : \A k \in keys[c] :
       /\ k.namespace \in ns_contexts[c]
       /\ [namespace |-> k.namespace, epoch |-> k.epoch] \in uses[c]
       /\ [epoch |-> k.epoch, secret |-> k.secret] \in derived

ContextsHaveAKey ==
    \A c \in Contexts : \A n \in ns_contexts[c] : \E k \in keys[c] : k.namespace = n

\* What ensure_key leaves: the key of the epoch, or the trace of another.
KeyOrTrace(c, n, e) ==
    \/ HasKey(c, n, e)
    \/ \E u \in uses[c] : u.namespace = n /\ u.epoch # e

SealedRecorded ==
    \A m \in sealed : [epoch |-> m.epoch, secret |-> m.secret] \in derived

IInv ==
    /\ TypeOK
    /\ KeysRecorded
    /\ ContextsHaveAKey
    /\ SealedRecorded
    /\ FailuresExplained

-----------------------------------------------------------------------------
\* What the lookups return.

LEMMA SecretOfType ==
    ASSUME TypeOK, NEW c \in Contexts, NEW e \in Epochs
    PROVE  SecretOf(c, e) \in Secrets \cup {EmptySecret}
<1>1. CASE HasSecret(c, e)
  <2>1. PICK s \in epoch_secrets[c] : s.epoch = e
    BY <1>1 DEF HasSecret
  <2>2. (CHOOSE r \in epoch_secrets[c] : r.epoch = e) \in epoch_secrets[c]
    BY <2>1
  <2> QED
    BY <1>1, <2>2 DEF SecretOf, TypeOK, EpochSecret
<1>2. CASE ~HasSecret(c, e)
  BY <1>2 DEF SecretOf
<1> QED
  BY <1>1, <1>2

LEMMA WithSecretType ==
    ASSUME TypeOK, NEW c \in Contexts, NEW e \in Epochs,
           NEW s \in Secrets \cup {EmptySecret}
    PROVE  /\ WithSecret(c, e, s) \in SUBSET EpochSecret
           /\ \A r, q \in WithSecret(c, e, s) : r.epoch = q.epoch => r = q
  BY DEF TypeOK, WithSecret, EpochSecret

LEMMA KeysWithBaseKey ==
    ASSUME TypeOK, NEW c \in Contexts, NEW key \in Key
    PROVE  /\ KeysWith(c, key) \subseteq keys[c] \cup {key}
           /\ \E k \in KeysWith(c, key) :
                 k.namespace = key.namespace /\ k.epoch = key.epoch
           /\ \A k \in keys[c] : \E j \in KeysWith(c, key) : j.namespace = k.namespace
  BY DEF KeysWith, HasKey

-----------------------------------------------------------------------------
\* What ensure_key does to the invariant.

LEMMA EnsureKeyStep ==
    ASSUME IInv, NEW c \in Contexts, NEW n \in Namespaces, NEW e \in Epochs,
           EnsureKey(c, n, e)
    PROVE  /\ MembersOK'
           /\ derived \subseteq derived'
           /\ \A d \in Contexts : uses[d] \subseteq uses'[d]
           /\ [namespace |-> n, epoch |-> e] \in uses'[c]
           /\ KeysRecorded'
           /\ ContextsHaveAKey'
           /\ KeyOrTrace(c, n, e)'
<1> DEFINE K == BaseKey(c, n, e)
<1>1. K \in Key /\ K.namespace = n /\ K.epoch = e /\ K.secret = SecretOf(c, e)
  BY SecretOfType DEF IInv, BaseKey, Key
<1>2. CASE ReturnsEarly(c, n, e)
  <2>1. keys' = keys /\ ns_contexts' = ns_contexts /\ derived' = derived
        /\ epoch_secrets' = epoch_secrets
    BY <1>2 DEF EnsureKey, EnsuredKeys, ReturnsEarly, Emplaced, IInv, TypeOK
  <2>2. PICK k \in keys[c] : k.namespace = n
    BY <1>2 DEF IInv, ContextsHaveAKey, ReturnsEarly
  <2>3. k.epoch # e
    BY <1>2, <2>2 DEF ReturnsEarly, HasKey
  <2>4. [namespace |-> n, epoch |-> k.epoch] \in uses[c]
    BY <2>2 DEF IInv, KeysRecorded
  <2>5. uses' \in [Contexts -> SUBSET Use]
        /\ (\A d \in Contexts : uses[d] \subseteq uses'[d])
        /\ [namespace |-> n, epoch |-> e] \in uses'[c]
    BY DEF EnsureKey, IInv, TypeOK, Use
  <2>6. KeysRecorded' /\ ContextsHaveAKey'
    BY <2>1, <2>5 DEF IInv, KeysRecorded, ContextsHaveAKey
  <2>8. \E u \in uses'[c] : u.namespace = n /\ u.epoch # e
    BY <2>3, <2>4, <2>5
  <2>9. MembersOK'
    BY <2>1, <2>5 DEF EnsureKey, IInv, TypeOK, MembersOK
  <2> QED
    BY <2>1, <2>5, <2>6, <2>8, <2>9 DEF KeyOrTrace
<1>3. CASE ~ReturnsEarly(c, n, e)
  <2>1. keys' = [keys EXCEPT ![c] = KeysWith(c, K)]
    BY <1>3 DEF EnsureKey, EnsuredKeys
  <2>2. /\ KeysWith(c, K) \subseteq keys[c] \cup {K}
        /\ \E k \in KeysWith(c, K) : k.namespace = n /\ k.epoch = e
        /\ \A k \in keys[c] : \E j \in KeysWith(c, K) : j.namespace = k.namespace
    BY <1>1, KeysWithBaseKey DEF IInv
  <2>3. /\ ns_contexts' = [ns_contexts EXCEPT ![c] = @ \cup {n}]
        /\ derived' = derived \cup {[epoch |-> e, secret |-> SecretOf(c, e)]}
        /\ epoch_secrets' = [epoch_secrets EXCEPT ![c] = WithSecret(c, e, SecretOf(c, e))]
        /\ uses' = [uses EXCEPT ![c] = @ \cup {[namespace |-> n, epoch |-> e]}]
        /\ current_epoch' = current_epoch /\ add_key_replaces' = add_key_replaces
    BY <1>3 DEF EnsureKey, Emplaced, IInv, TypeOK
  <2>4. /\ epoch_secrets' \in [Contexts -> SUBSET EpochSecret]
        /\ \A d \in Contexts : \A r, s \in epoch_secrets'[d] :
              r.epoch = s.epoch => r = s
    BY <2>3, SecretOfType, WithSecretType DEF IInv, TypeOK
  <2>5. keys' \in [Contexts -> SUBSET Key] /\ keys'[c] = KeysWith(c, K)
    BY <1>1, <2>1, <2>2 DEF IInv, TypeOK
  <2>6. /\ ns_contexts' \in [Contexts -> SUBSET Namespaces]
        /\ uses' \in [Contexts -> SUBSET Use]
        /\ derived' \subseteq EpochSecret
        /\ \A d \in Contexts : uses[d] \subseteq uses'[d]
        /\ [namespace |-> n, epoch |-> e] \in uses'[c]
    BY <2>3, SecretOfType DEF IInv, TypeOK, Use, EpochSecret
  <2>7. KeysRecorded'
    <3> SUFFICES ASSUME NEW d \in Contexts, NEW k \in keys'[d]
                 PROVE  /\ k.namespace \in ns_contexts'[d]
                        /\ [namespace |-> k.namespace, epoch |-> k.epoch] \in uses'[d]
                        /\ [epoch |-> k.epoch, secret |-> k.secret] \in derived'
      BY DEF KeysRecorded
    <3>1. k \in keys[d] \/ (d = c /\ k = K)
      BY <2>1, <2>2, <2>5 DEF IInv, TypeOK
    <3>2. CASE k \in keys[d]
      BY <3>2, <2>3, <2>6 DEF IInv, TypeOK, KeysRecorded
    <3>3. CASE d = c /\ k = K
      BY <3>3, <1>1, <2>3 DEF IInv, TypeOK
    <3> QED
      BY <3>1, <3>2, <3>3
  <2>8. ContextsHaveAKey'
    <3> SUFFICES ASSUME NEW d \in Contexts, NEW m \in ns_contexts'[d]
                 PROVE  \E k \in keys'[d] : k.namespace = m
      BY DEF ContextsHaveAKey
    <3>1. CASE d = c /\ m = n
      BY <3>1, <2>2, <2>5
    <3>2. CASE d # c \/ m # n
      <4>1. m \in ns_contexts[d]
        BY <3>2, <2>3 DEF IInv, TypeOK
      <4>2. PICK k \in keys[d] : k.namespace = m
        BY <4>1 DEF IInv, ContextsHaveAKey
      <4> QED
        BY <4>2, <2>1, <2>2, <2>5 DEF IInv, TypeOK
    <3> QED
      BY <3>1, <3>2
  <2>9. MembersOK'
    BY <2>3, <2>4, <2>5, <2>6, <2>7 DEF IInv, TypeOK, MembersOK, KeysRecorded
  <2> QED
    BY <2>2, <2>3, <2>5, <2>6, <2>7, <2>8, <2>9 DEF KeyOrTrace, HasKey
<1> QED
  BY <1>2, <1>3

\* A failure that is explained stays explained.
LEMMA ExplainedForGood ==
    ASSUME IInv, NEW f \in failures,
           derived \subseteq derived',
           \A d \in Contexts : uses[d] \subseteq uses'[d]
    PROVE  UsedAnotherEpoch(f)' \/ SecretsDisagree(f.epoch)'
<1>1. f.context \in Contexts
  BY DEF IInv, TypeOK
<1>2. CASE UsedAnotherEpoch(f)
  BY <1>1, <1>2 DEF UsedAnotherEpoch
<1>3. CASE SecretsDisagree(f.epoch)
  BY <1>3 DEF SecretsDisagree
<1> QED
  BY <1>2, <1>3 DEF IInv, FailuresExplained

-----------------------------------------------------------------------------
LEMMA InitIInv == Init => IInv
  BY DEF Init, IInv, TypeOK, KeysRecorded, ContextsHaveAKey, SealedRecorded,
         FailuresExplained

LEMMA AddEpochStep ==
    ASSUME IInv, NEW c \in Contexts, NEW e \in Epochs, NEW s \in Secrets,
           AddEpoch(c, e, s)
    PROVE  IInv'
<1>1. /\ epoch_secrets' \in [Contexts -> SUBSET EpochSecret]
      /\ \A d \in Contexts : \A r, q \in epoch_secrets'[d] :
            r.epoch = q.epoch => r = q
  BY WithSecretType DEF IInv, TypeOK, AddEpoch
<1>2. UNCHANGED <<current_epoch, ns_contexts, keys, add_key_replaces, sealed,
                  uses, derived, failures>>
  BY DEF AddEpoch
<1>3. TypeOK'
  BY <1>1, <1>2 DEF IInv, TypeOK
<1> QED
  BY <1>2, <1>3 DEF IInv, KeysRecorded, ContextsHaveAKey, SealedRecorded,
                    FailuresExplained, UsedAnotherEpoch, SecretsDisagree

LEMMA EnableEpochStep ==
    ASSUME IInv, NEW c \in Contexts, NEW e \in Epochs, EnableEpoch(c, e)
    PROVE  IInv'
<1>1. TypeOK'
  BY DEF IInv, TypeOK, EnableEpoch
<1> QED
  BY <1>1 DEF EnableEpoch, IInv, KeysRecorded, ContextsHaveAKey, SealedRecorded,
              FailuresExplained, UsedAnotherEpoch, SecretsDisagree

LEMMA ProtectStep ==
    ASSUME IInv, NEW c \in Contexts, NEW n \in Namespaces, Protect(c, n)
    PROVE  IInv'
<1>1. PICK e \in Epochs : e = current_epoch[c]
  BY DEF Protect, IInv, TypeOK
<1> DEFINE f == [context |-> c, namespace |-> n, epoch |-> e]
<1>2. EnsureKey(c, n, e)
  BY <1>1 DEF Protect
<1>3. /\ KeysRecorded' /\ ContextsHaveAKey'
      /\ derived \subseteq derived'
      /\ \A d \in Contexts : uses[d] \subseteq uses'[d]
      /\ MembersOK'
      /\ KeyOrTrace(c, n, e)'
  BY <1>1, <1>2, EnsureKeyStep
<1>4. CASE \E k \in keys'[c] : /\ k.namespace = n /\ k.epoch = e
                               /\ sealed' = sealed \cup {k}
                               /\ UNCHANGED failures
  <2>1. PICK k \in keys'[c] : sealed' = sealed \cup {k}
    BY <1>4
  <2>2. SealedRecorded'
    BY <1>3, <2>1 DEF SealedRecorded, KeysRecorded, IInv
  <2>3. TypeOK'
    BY <1>3, <1>4, <2>1 DEF TypeOK, MembersOK, IInv
  <2>4. FailuresExplained'
    BY <1>3, <1>4, ExplainedForGood DEF FailuresExplained
  <2> QED
    BY <1>3, <2>2, <2>3, <2>4 DEF IInv
<1>5. CASE /\ \A k \in keys'[c] : k.namespace # n \/ k.epoch # e
           /\ Failed(c, n, e)
           /\ UNCHANGED sealed
  <2>1. failures' = failures \cup {f}
    BY <1>5 DEF Failed
  <2>2. UsedAnotherEpoch(f)'
    BY <1>3, <1>5 DEF UsedAnotherEpoch, KeyOrTrace, HasKey
  <2>3. FailuresExplained'
    BY <1>3, <2>1, <2>2, ExplainedForGood DEF FailuresExplained
  <2>4. SealedRecorded'
    BY <1>3, <1>5 DEF SealedRecorded, IInv
  <2>5. TypeOK'
    BY <1>3, <1>5, <2>1 DEF TypeOK, MembersOK, IInv
  <2> QED
    BY <1>3, <2>3, <2>4, <2>5 DEF IInv
<1> QED
  BY <1>1, <1>4, <1>5 DEF Protect

LEMMA UnprotectStep ==
    ASSUME IInv, NEW c \in Contexts, NEW m \in sealed, Unprotect(c, m)
    PROVE  IInv'
<1> DEFINE n == m.namespace
           e == m.epoch
           f == [context |-> c, namespace |-> n, epoch |-> e]
<1>1. m \in Key /\ n \in Namespaces /\ e \in Epochs
  BY DEF IInv, TypeOK, Key
<1>2. EnsureKey(c, n, e) /\ UNCHANGED sealed
  BY DEF Unprotect
<1>3. /\ KeysRecorded' /\ ContextsHaveAKey'
      /\ derived \subseteq derived'
      /\ \A d \in Contexts : uses[d] \subseteq uses'[d]
      /\ MembersOK'
      /\ KeyOrTrace(c, n, e)'
  BY <1>1, <1>2, EnsureKeyStep
<1>4. SealedRecorded'
  BY <1>2, <1>3 DEF SealedRecorded, IInv
<1>5. CASE UNCHANGED failures
  <2>1. TypeOK'
    BY <1>2, <1>3, <1>5 DEF TypeOK, MembersOK, IInv
  <2>2. FailuresExplained'
    BY <1>3, <1>5, ExplainedForGood DEF FailuresExplained
  <2> QED
    BY <1>3, <1>4, <2>1, <2>2 DEF IInv
<1>6. CASE m \notin keys'[c] /\ Failed(c, n, e)
  <2>1. failures' = failures \cup {f}
    BY <1>6 DEF Failed
  <2>2. TypeOK'
    BY <1>1, <1>2, <1>3, <2>1 DEF TypeOK, MembersOK, IInv
  <2>3. UsedAnotherEpoch(f)' \/ SecretsDisagree(f.epoch)'
    <3>1. CASE \E u \in uses'[c] : u.namespace = n /\ u.epoch # e
      BY <3>1 DEF UsedAnotherEpoch
    <3>2. CASE \E k \in keys'[c] : k.namespace = n /\ k.epoch = e
      <4>1. PICK k \in keys'[c] : k.namespace = n /\ k.epoch = e
        BY <3>2
      <4>2. k \in Key /\ k # m
        BY <1>3, <1>6, <4>1 DEF MembersOK
      <4>3. k.secret # m.secret
        BY <1>1, <4>1, <4>2 DEF Key
      <4>4. [epoch |-> e, secret |-> k.secret] \in derived'
        BY <1>3, <4>1 DEF KeysRecorded
      <4>5. [epoch |-> e, secret |-> m.secret] \in derived'
        BY <1>3 DEF IInv, SealedRecorded
      <4> QED
        BY <4>3, <4>4, <4>5 DEF SecretsDisagree
    <3> QED
      BY <1>3, <3>1, <3>2 DEF KeyOrTrace, HasKey
  <2>4. FailuresExplained'
    BY <1>3, <2>1, <2>3, ExplainedForGood DEF FailuresExplained
  <2> QED
    BY <1>3, <1>4, <2>2, <2>4 DEF IInv
<1> QED
  BY <1>5, <1>6 DEF Unprotect, Opens

LEMMA CopyConstructStep ==
    ASSUME IInv, NEW c \in Contexts, NEW other \in Contexts, CopyConstruct(c, other)
    PROVE  IInv'
<1>1. TypeOK'
  BY DEF IInv, TypeOK, CopyConstruct
<1>2. KeysRecorded'
  BY DEF IInv, TypeOK, KeysRecorded, CopyConstruct
<1>3. ContextsHaveAKey'
  BY DEF IInv, TypeOK, ContextsHaveAKey, CopyConstruct
<1>4. SealedRecorded'
  BY DEF IInv, SealedRecorded, CopyConstruct
<1>5. FailuresExplained'
  <2>1. \A d \in Contexts : uses[d] \subseteq uses'[d]
    BY DEF CopyConstruct, IInv, TypeOK
  <2>2. derived' = derived /\ failures' = failures
    BY DEF CopyConstruct
  <2> QED
    BY <2>1, <2>2, ExplainedForGood DEF FailuresExplained
<1> QED
  BY <1>1, <1>2, <1>3, <1>4, <1>5 DEF IInv

LEMMA NextIInv == IInv /\ [Next]_vars => IInv'
<1> SUFFICES ASSUME IInv, [Next]_vars PROVE IInv'
  OBVIOUS
<1>1. CASE \E c \in Contexts, e \in Epochs, s \in Secrets : AddEpoch(c, e, s)
  BY <1>1, AddEpochStep
<1>2. CASE \E c \in Contexts, e \in Epochs : EnableEpoch(c, e)
  BY <1>2, EnableEpochStep
<1>3. CASE \E c \in Contexts, n \in Namespaces : Protect(c, n)
  BY <1>3, ProtectStep
<1>4. CASE \E c \in Contexts, m \in sealed : Unprotect(c, m)
  BY <1>4, UnprotectStep
<1>5. CASE \E c, other \in Contexts : CopyConstruct(c, other)
  BY <1>5, CopyConstructStep
<1>6. CASE UNCHANGED vars
  <2>1. TypeOK'
    BY <1>6 DEF IInv, TypeOK, vars, members
  <2> QED
    BY <1>6, <2>1 DEF IInv, vars, members, KeysRecorded, ContextsHaveAKey,
         SealedRecorded, FailuresExplained, UsedAnotherEpoch, SecretsDisagree
<1> QED
  BY <1>1, <1>2, <1>3, <1>4, <1>5, <1>6 DEF Next

\* The invariant holds in every reachable state.
THEOREM SFrameInvariance == Spec => []IInv
<1> QED
  BY InitIInv, NextIInv, PTL DEF Spec

\* The members keep their types, an epoch has one secret, and a namespace
\* that is given a key has its context, so that ns_contexts.at never throws.
THEOREM SFrameTypeCorrect == Spec => []TypeOK
<1>1. IInv => TypeOK
  BY DEF IInv
<1> QED
  BY SFrameInvariance, <1>1, PTL

\* protect and unprotect fail only after another epoch was used in the same
\* namespace on the same object, or when the epoch's secret was not agreed.
THEOREM FailuresAreExplained == Spec => []FailuresExplained
<1>1. IInv => FailuresExplained
  BY DEF IInv
<1> QED
  BY SFrameInvariance, <1>1, PTL
=============================================================================
