--------------------------- MODULE SecurePathProofs ---------------------------
(***************************************************************************)
(* Theorems about SecurePath, for every set of namespaces and epochs and   *)
(* for both behaviours of the sframe library's add_key: a subscriber with  *)
(* a cipher suite forwards what it opened and nothing else, and drops an   *)
(* encrypted object only after an unencrypted one misled it.               *)
(***************************************************************************)
EXTENDS SecurePath, TLAPS

FixedSecret == [epoch |-> FixedEpoch, secret |-> Secret]

(***************************************************************************)
(* What is known of a context: the delegate added the secret of the fixed  *)
(* epoch before anything else, so that no empty secret is ever derived for *)
(* that epoch.                                                             *)
(***************************************************************************)
InUse(c) == IF c = Subscriber THEN decrypts ELSE encrypts[c]

ContextsOK ==
    /\ \A c \in Contexts :
          InUse(c) => current_epoch[c] = FixedEpoch /\ FixedSecret \in epoch_secrets[c]
    /\ \A c \in Contexts : \A k \in keys[c] : k.epoch = FixedEpoch => k.secret = Secret

\* Whatever is encrypted is encrypted under the key of the fixed epoch.
NetworkOK ==
    \A m \in network : IsSealed(m) => m.epoch = FixedEpoch /\ m.secret = Secret

\* The first epoch seen of a namespace is the only one it has a key of.
FirstEpochOK ==
    decrypts =>
        \A n \in Namespaces :
            /\ firstEpoch[n] = NoEpoch => n \notin ns_contexts[Subscriber]
            /\ firstEpoch[n] # NoEpoch =>
                  /\ n \in ns_contexts[Subscriber]
                  /\ SFrame!HasKey(Subscriber, n, firstEpoch[n])
                  /\ \A k \in keys[Subscriber] :
                        k.namespace = n => k.epoch = firstEpoch[n]

ForwardedOK == decrypts => forwarded \subseteq keys[Subscriber]

(***************************************************************************)
(* The inductive invariant.                                                *)
(***************************************************************************)
IInv ==
    /\ TypeOK
    /\ ContextsOK
    /\ NetworkOK
    /\ FirstEpochOK
    /\ ForwardedOK
    /\ DropsExplained

-----------------------------------------------------------------------------
(***************************************************************************)
(* ensure_key of a context that was given the fixed secret.                *)
(***************************************************************************)
LEMMA SecretOfType ==
    ASSUME SFrame!TypeOK, NEW c \in Contexts, NEW e \in Epochs
    PROVE  SFrame!SecretOf(c, e) \in {Secret, EmptySecret}
<1>1. CASE SFrame!HasSecret(c, e)
  <2>1. PICK s \in epoch_secrets[c] : s.epoch = e
    BY <1>1 DEF SFrame!HasSecret
  <2>2. (CHOOSE r \in epoch_secrets[c] : r.epoch = e) \in epoch_secrets[c]
    BY <2>1
  <2> QED
    BY <1>1, <2>2 DEF SFrame!SecretOf, SFrame!TypeOK, SFrame!EpochSecret
<1>2. CASE ~SFrame!HasSecret(c, e)
  BY <1>2 DEF SFrame!SecretOf
<1> QED
  BY <1>1, <1>2

LEMMA SecretOfFixedEpoch ==
    ASSUME SFrame!TypeOK, NEW c \in Contexts, FixedSecret \in epoch_secrets[c]
    PROVE  SFrame!SecretOf(c, FixedEpoch) = Secret
<1>1. FixedSecret.epoch = FixedEpoch /\ FixedSecret.secret = Secret
  BY DEF FixedSecret
<1>2. SFrame!HasSecret(c, FixedEpoch)
  BY <1>1 DEF SFrame!HasSecret
<1>3. (CHOOSE r \in epoch_secrets[c] : r.epoch = FixedEpoch) = FixedSecret
  BY <1>1 DEF SFrame!TypeOK
<1> QED
  BY <1>1, <1>2, <1>3 DEF SFrame!SecretOf

\* The members of the contexts after ensure_key.
MembersOK ==
    /\ current_epoch \in [Contexts -> Epochs \cup {NoEpoch}]
    /\ epoch_secrets \in [Contexts -> SUBSET SFrame!EpochSecret]
    /\ \A c \in Contexts : \A r, s \in epoch_secrets[c] :
          r.epoch = s.epoch => r = s
    /\ ns_contexts \in [Contexts -> SUBSET Namespaces]
    /\ keys \in [Contexts -> SUBSET SFrame!Key]
    /\ \A c \in Contexts : \A k \in keys[c] : k.namespace \in ns_contexts[c]
    /\ add_key_replaces \in BOOLEAN
    /\ uses \in [Contexts -> SUBSET SFrame!Use]
    /\ derived \subseteq SFrame!EpochSecret

LEMMA EnsureKeyEffect ==
    ASSUME SFrame!TypeOK, ContextsOK, NEW c \in Contexts, InUse(c),
           NEW n \in Namespaces, NEW e \in Epochs, SFrame!EnsureKey(c, n, e)
    PROVE  LET key == [namespace |-> n, epoch |-> e, secret |-> SFrame!SecretOf(c, e)]
           IN  /\ key \in SFrame!Key
               /\ e = FixedEpoch => key.secret = Secret
               /\ \/ /\ n \in ns_contexts[c] /\ ~SFrame!HasKey(c, n, e)
                     /\ UNCHANGED <<keys, epoch_secrets, ns_contexts, derived>>
                  \/ /\ n \notin ns_contexts[c] \/ SFrame!HasKey(c, n, e)
                     /\ keys' = [keys EXCEPT ![c] = SFrame!KeysWith(c, key)]
                     /\ SFrame!KeysWith(c, key) \subseteq keys[c] \cup {key}
                     /\ epoch_secrets' =
                          [epoch_secrets EXCEPT ![c] = SFrame!WithSecret(c, e, key.secret)]
                     /\ SFrame!WithSecret(c, e, key.secret) \subseteq SFrame!EpochSecret
                     /\ derived' = derived \cup {[epoch |-> e, secret |-> key.secret]}
                     /\ ns_contexts' = [ns_contexts EXCEPT ![c] = @ \cup {n}]
               /\ uses' = [uses EXCEPT ![c] = @ \cup {[namespace |-> n, epoch |-> e]}]
               /\ UNCHANGED <<current_epoch, add_key_replaces>>
<1> DEFINE s == SFrame!SecretOf(c, e)
           key == [namespace |-> n, epoch |-> e, secret |-> s]
<1>1. s \in {Secret, EmptySecret} /\ key \in SFrame!Key /\ key.secret = s
  BY SecretOfType DEF SFrame!Key
<1>2. e = FixedEpoch => s = Secret
  BY SecretOfFixedEpoch DEF ContextsOK
<1>3. SFrame!KeysWith(c, key) \subseteq keys[c] \cup {key}
  BY DEF SFrame!KeysWith
<1>4. SFrame!WithSecret(c, e, s) \subseteq SFrame!EpochSecret
  BY <1>1 DEF SFrame!WithSecret, SFrame!EpochSecret, SFrame!TypeOK
<1>5. CASE SFrame!ReturnsEarly(c, n, e)
  BY <1>1, <1>2, <1>5
  DEF SFrame!EnsureKey, SFrame!EnsuredKeys, SFrame!ReturnsEarly, SFrame!Emplaced,
      SFrame!TypeOK
<1>6. CASE ~SFrame!ReturnsEarly(c, n, e)
  BY <1>1, <1>2, <1>3, <1>4, <1>6
  DEF SFrame!EnsureKey, SFrame!EnsuredKeys, SFrame!ReturnsEarly, SFrame!Emplaced,
      SFrame!BaseKey, SFrame!TypeOK
<1> QED
  BY <1>5, <1>6

\* After ensure_key of a namespace without a context, or whose key of the
\* epoch is there, that key is there; a key of the fixed epoch stays as it is.
LEMMA KeysWithKey ==
    ASSUME SFrame!TypeOK, ContextsOK, NEW c \in Contexts, NEW key \in SFrame!Key,
           key.epoch = FixedEpoch => key.secret = Secret
    PROVE  /\ SFrame!KeysWith(c, key) \subseteq keys[c] \cup {key}
           /\ \E k \in SFrame!KeysWith(c, key) :
                 k.namespace = key.namespace /\ k.epoch = key.epoch
           /\ \A k \in keys[c] : k.epoch = FixedEpoch => k \in SFrame!KeysWith(c, key)
<1>1. \A k \in keys[c] : k \in SFrame!Key
  BY DEF SFrame!TypeOK
<1>2. ASSUME NEW k \in keys[c], k.epoch = FixedEpoch,
             k.namespace = key.namespace, k.epoch = key.epoch
      PROVE  k = key
  BY <1>1, <1>2 DEF SFrame!Key, ContextsOK
<1> QED
  BY <1>2 DEF SFrame!KeysWith, SFrame!HasKey

\* What the step keeps of every context, and of ContextsOK.
LEMMA EnsureKeyKeeps ==
    ASSUME SFrame!TypeOK, ContextsOK, NEW c \in Contexts, InUse(c),
           NEW n \in Namespaces, NEW e \in Epochs, SFrame!EnsureKey(c, n, e)
    PROVE  /\ MembersOK'
           /\ current_epoch' = current_epoch
           /\ \A d \in Contexts : d # c => /\ keys'[d] = keys[d]
                                           /\ ns_contexts'[d] = ns_contexts[d]
           /\ \A d \in Contexts :
                 FixedSecret \in epoch_secrets[d] => FixedSecret \in epoch_secrets'[d]
           /\ \A d \in Contexts : \A k \in keys'[d] :
                 k.epoch = FixedEpoch => k.secret = Secret
           /\ \A k \in keys[c] : k.epoch = FixedEpoch => k \in keys'[c]
<1> DEFINE s == SFrame!SecretOf(c, e)
           key == [namespace |-> n, epoch |-> e, secret |-> s]
<1>1. /\ key \in SFrame!Key
      /\ s \in {Secret, EmptySecret}
      /\ e = FixedEpoch => s = Secret
      /\ uses' = [uses EXCEPT ![c] = @ \cup {[namespace |-> n, epoch |-> e]}]
      /\ UNCHANGED <<current_epoch, add_key_replaces>>
  BY EnsureKeyEffect, SecretOfType
<1>2. uses' \in [Contexts -> SUBSET SFrame!Use]
  BY <1>1 DEF SFrame!TypeOK, SFrame!Use
<1>3. CASE UNCHANGED <<keys, epoch_secrets, ns_contexts, derived>>
  BY <1>1, <1>2, <1>3 DEF MembersOK, SFrame!TypeOK, ContextsOK
<1>4. CASE /\ keys' = [keys EXCEPT ![c] = SFrame!KeysWith(c, key)]
           /\ SFrame!KeysWith(c, key) \subseteq keys[c] \cup {key}
           /\ epoch_secrets' = [epoch_secrets EXCEPT ![c] = SFrame!WithSecret(c, e, s)]
           /\ SFrame!WithSecret(c, e, s) \subseteq SFrame!EpochSecret
           /\ derived' = derived \cup {[epoch |-> e, secret |-> s]}
           /\ ns_contexts' = [ns_contexts EXCEPT ![c] = @ \cup {n}]
  <2>1. /\ keys'[c] = SFrame!KeysWith(c, key)
        /\ \A d \in Contexts : d # c => keys'[d] = keys[d]
        /\ keys' \in [Contexts -> SUBSET SFrame!Key]
    BY <1>1, <1>4 DEF SFrame!TypeOK
  <2>2. /\ ns_contexts' \in [Contexts -> SUBSET Namespaces]
        /\ \A d \in Contexts : d # c => ns_contexts'[d] = ns_contexts[d]
        /\ ns_contexts'[c] = ns_contexts[c] \cup {n}
    BY <1>4 DEF SFrame!TypeOK
  <2>3. \A d \in Contexts : \A k \in keys'[d] : k.namespace \in ns_contexts'[d]
    BY <1>4, <2>1, <2>2 DEF SFrame!TypeOK
  <2>4. /\ epoch_secrets' \in [Contexts -> SUBSET SFrame!EpochSecret]
        /\ \A d \in Contexts : d # c => epoch_secrets'[d] = epoch_secrets[d]
        /\ epoch_secrets'[c] = SFrame!WithSecret(c, e, s)
    BY <1>4 DEF SFrame!TypeOK
  <2>5. \A d \in Contexts : \A r, q \in epoch_secrets'[d] : r.epoch = q.epoch => r = q
    BY <2>4 DEF SFrame!WithSecret, SFrame!TypeOK
  <2>6. derived' \subseteq SFrame!EpochSecret
    BY <1>1, <1>4 DEF SFrame!EpochSecret, SFrame!TypeOK
  <2>7. \A d \in Contexts :
           FixedSecret \in epoch_secrets[d] => FixedSecret \in epoch_secrets'[d]
    BY <1>1, <2>4 DEF SFrame!WithSecret, FixedSecret
  <2>8. /\ \A d \in Contexts : \A k \in keys'[d] : k.epoch = FixedEpoch => k.secret = Secret
        /\ \A k \in keys[c] : k.epoch = FixedEpoch => k \in keys'[c]
    BY <1>1, <1>4, <2>1, KeysWithKey DEF ContextsOK
  <2> QED
    BY <1>1, <1>2, <2>1, <2>2, <2>3, <2>4, <2>5, <2>6, <2>7, <2>8 DEF MembersOK, SFrame!TypeOK
<1> QED
  BY <1>3, <1>4, EnsureKeyEffect

\* What ensure_key of namespace n and epoch e gives the context.
LEMMA EnsureKeyGives ==
    ASSUME SFrame!TypeOK, ContextsOK, NEW c \in Contexts, InUse(c),
           NEW n \in Namespaces, NEW e \in Epochs, SFrame!EnsureKey(c, n, e)
    PROVE  /\ ns_contexts'[c] = ns_contexts[c] \cup {n}
           /\ \A k \in keys'[c] : k \in keys[c] \/ (k.namespace = n /\ k.epoch = e)
           /\ \A i \in Namespaces, f \in Epochs :
                 (\E k \in keys[c] : k.namespace = i /\ k.epoch = f)
                    => \E k \in keys'[c] : k.namespace = i /\ k.epoch = f
           /\ n \in ns_contexts[c] /\ ~SFrame!HasKey(c, n, e) => keys' = keys
           /\ n \notin ns_contexts[c] \/ SFrame!HasKey(c, n, e)
                 => \E k \in keys'[c] : k.namespace = n /\ k.epoch = e
<1> DEFINE s == SFrame!SecretOf(c, e)
           key == [namespace |-> n, epoch |-> e, secret |-> s]
<1>1. /\ key \in SFrame!Key /\ key.namespace = n /\ key.epoch = e
      /\ e = FixedEpoch => key.secret = Secret
  BY EnsureKeyEffect
<1>2. CASE /\ n \in ns_contexts[c] /\ ~SFrame!HasKey(c, n, e)
           /\ UNCHANGED <<keys, epoch_secrets, ns_contexts, derived>>
  BY <1>2 DEF SFrame!TypeOK
<1>3. CASE /\ n \notin ns_contexts[c] \/ SFrame!HasKey(c, n, e)
           /\ keys' = [keys EXCEPT ![c] = SFrame!KeysWith(c, key)]
           /\ ns_contexts' = [ns_contexts EXCEPT ![c] = @ \cup {n}]
  <2>1. keys'[c] = SFrame!KeysWith(c, key) /\ ns_contexts'[c] = ns_contexts[c] \cup {n}
    BY <1>3 DEF SFrame!TypeOK
  <2>2. /\ SFrame!KeysWith(c, key) \subseteq keys[c] \cup {key}
        /\ \E k \in SFrame!KeysWith(c, key) : k.namespace = n /\ k.epoch = e
    BY <1>1, KeysWithKey
  <2>3. ASSUME NEW i \in Namespaces, NEW f \in Epochs,
               NEW k \in keys[c], k.namespace = i, k.epoch = f
        PROVE  \E j \in SFrame!KeysWith(c, key) : j.namespace = i /\ j.epoch = f
    <3>1. CASE i = n /\ f = e
      BY <2>2, <3>1
    <3>2. CASE i # n \/ f # e
      BY <1>1, <2>3, <3>2 DEF SFrame!KeysWith
    <3> QED
      BY <3>1, <3>2
  <2> QED
    BY <1>1, <1>3, <2>1, <2>2, <2>3
<1> QED
  BY <1>2, <1>3, EnsureKeyEffect

-----------------------------------------------------------------------------
(***************************************************************************)
(* The actions.                                                            *)
(***************************************************************************)
\* An object that was encrypted is a key, in the symbolic reading.
LEMMA SealedIsKey ==
    ASSUME IInv, NEW m \in network, IsSealed(m)
    PROVE  m \in SFrame!Key /\ m.epoch = FixedEpoch /\ m.secret = Secret
  BY DEF IInv, NetworkOK, TypeOK, Object, IsSealed

LEMMA ForwardedIsSealed ==
    ASSUME IInv, decrypts, NEW m \in forwarded
    PROVE  IsSealed(m) /\ m.epoch = FixedEpoch /\ m.secret = Secret
<1>1. m \in SFrame!Key /\ m \in network /\ Subscriber \in Contexts
  BY DEF IInv, TypeOK, SFrame!TypeOK, ForwardedOK, Contexts
<1>2. m.secret # NotSealed
  BY <1>1, SecurePathAssumption DEF SFrame!Key
<1> QED
  BY <1>1, <1>2, SealedIsKey DEF IsSealed

LEMMA InitIInv == Init => IInv
  BY SecurePathAssumption
  DEF Init, SFrame!Init, IInv, TypeOK, SFrame!TypeOK, ContextsOK, InUse, NetworkOK,
      FirstEpochOK, ForwardedOK, DropsExplained, Contexts

LEMMA ConstructedType ==
    ASSUME TypeOK, NEW c \in Contexts, Constructed(c, {FixedSecret})
    PROVE  SFrame!TypeOK'
  BY SecurePathAssumption
  DEF TypeOK, SFrame!TypeOK, Constructed, FixedSecret, SFrame!EpochSecret

LEMMA BuildPublisherStep ==
    ASSUME IInv, NEW n \in Namespaces, NEW cipher \in BOOLEAN, BuildPublisher(n, cipher)
    PROVE  IInv'
<1>1. n \in Contexts /\ n # Subscriber /\ Subscriber \in Contexts
  BY SecurePathAssumption DEF Contexts
<1>2. UNCHANGED <<network, decrypts, forwarded, dropped, firstEpoch>>
      /\ encrypts' = [encrypts EXCEPT ![n] = cipher]
  BY DEF BuildPublisher, subscriberVars
<1>3. CASE cipher /\ Constructed(n, {FixedSecret})
  <2>1. SFrame!TypeOK'
    BY <1>1, <1>3, ConstructedType DEF IInv
  <2>2. TypeOK'
    BY <1>2, <2>1 DEF IInv, TypeOK
  <2>3. ContextsOK'
    BY <1>1, <1>2, <1>3
    DEF IInv, ContextsOK, TypeOK, SFrame!TypeOK, Constructed, InUse, Contexts
  <2>4. keys'[Subscriber] = keys[Subscriber]
        /\ ns_contexts'[Subscriber] = ns_contexts[Subscriber]
    BY <1>1, <1>3 DEF Constructed, IInv, TypeOK, SFrame!TypeOK
  <2> QED
    BY <1>2, <2>2, <2>3, <2>4
    DEF IInv, NetworkOK, FirstEpochOK, ForwardedOK, DropsExplained, SFrame!HasKey
<1>4. CASE ~cipher /\ UNCHANGED contextVars
  <2>1. TypeOK'
    BY <1>2, <1>4 DEF IInv, TypeOK, SFrame!TypeOK, contextVars
  <2>2. ContextsOK'
    BY <1>2, <1>4 DEF IInv, TypeOK, ContextsOK, InUse, contextVars, Contexts
  <2> QED
    BY <1>2, <1>4, <2>1, <2>2
    DEF IInv, NetworkOK, FirstEpochOK, ForwardedOK, DropsExplained, SFrame!HasKey, contextVars
<1> QED
  BY <1>3, <1>4 DEF BuildPublisher, FixedSecret

LEMMA BuildSubscriberStep ==
    ASSUME IInv, BuildSubscriber
    PROVE  IInv'
<1>1. Subscriber \in Contexts /\ Constructed(Subscriber, {FixedSecret})
  BY DEF Contexts, BuildSubscriber, FixedSecrets, FixedSecret
<1>2. TypeOK'
  BY <1>1, ConstructedType DEF IInv, TypeOK, BuildSubscriber
<1>3. ContextsOK'
  BY <1>1, SecurePathAssumption
  DEF IInv, TypeOK, SFrame!TypeOK, ContextsOK, Constructed, BuildSubscriber, InUse
<1>4. ns_contexts'[Subscriber] = {}
  BY <1>1 DEF Constructed, IInv, TypeOK, SFrame!TypeOK
<1>5. FirstEpochOK' /\ NetworkOK' /\ ForwardedOK' /\ DropsExplained'
  BY <1>4
  DEF BuildSubscriber, IInv, NetworkOK, FirstEpochOK, ForwardedOK, DropsExplained
<1> QED
  BY <1>2, <1>3, <1>5 DEF IInv

LEMMA PublishSealedStep ==
    ASSUME IInv, NEW n \in Namespaces, PublishSealed(n)
    PROVE  IInv'
<1>1. /\ n \in Contexts /\ n # Subscriber /\ Subscriber \in Contexts
      /\ FixedEpoch \in Epochs /\ InUse(n)
  BY SecurePathAssumption DEF Contexts, PublishSealed, InUse
<1>2. SFrame!EnsureKey(n, n, FixedEpoch)
  BY <1>1 DEF PublishSealed, SFrame!Protect, IInv, ContextsOK
<1>3. /\ MembersOK'
      /\ current_epoch' = current_epoch
      /\ keys'[Subscriber] = keys[Subscriber]
      /\ ns_contexts'[Subscriber] = ns_contexts[Subscriber]
      /\ \A d \in Contexts :
            FixedSecret \in epoch_secrets[d] => FixedSecret \in epoch_secrets'[d]
      /\ \A d \in Contexts : \A k \in keys'[d] :
            k.epoch = FixedEpoch => k.secret = Secret
  BY <1>1, <1>2, EnsureKeyKeeps DEF IInv, TypeOK
<1>4. /\ UNCHANGED <<encrypts, decrypts, forwarded, dropped, firstEpoch>>
      /\ network' = network \cup
            {k \in keys'[n] : k.namespace = n /\ k.epoch = FixedEpoch}
  BY DEF PublishSealed, subscriberVars
<1>5. keys'[n] \subseteq SFrame!Key
  BY <1>1, <1>3 DEF MembersOK
<1>6. sealed' \subseteq SFrame!Key
  BY <1>5 DEF PublishSealed, SFrame!Protect, IInv, TypeOK, SFrame!TypeOK
<1>7. failures' \subseteq [context : Contexts, namespace : Namespaces, epoch : Epochs]
  BY <1>1
  DEF PublishSealed, SFrame!Protect, SFrame!Failed, IInv, TypeOK, SFrame!TypeOK, ContextsOK
<1>8. TypeOK'
  BY <1>3, <1>4, <1>5, <1>6, <1>7 DEF IInv, TypeOK, SFrame!TypeOK, MembersOK, Object
<1>9. ContextsOK'
  BY <1>3, <1>4 DEF IInv, ContextsOK, InUse
<1>10. NetworkOK'
  BY <1>1, <1>3, <1>4 DEF IInv, NetworkOK
<1> QED
  BY <1>3, <1>4, <1>8, <1>9, <1>10
  DEF IInv, FirstEpochOK, ForwardedOK, DropsExplained, SFrame!HasKey

LEMMA PublishPlainStep ==
    ASSUME IInv, NEW n \in Namespaces, NEW e \in Epochs \cup {NoEpoch},
           PublishPlain(n, e)
    PROVE  IInv'
<1>1. /\ UNCHANGED <<contextVars, encrypts, decrypts, forwarded, dropped, firstEpoch>>
      /\ network' = network \cup
            {[namespace |-> n, epoch |-> e, secret |-> NotSealed]}
  BY DEF PublishPlain, subscriberVars
<1>2. TypeOK'
  BY <1>1 DEF IInv, TypeOK, SFrame!TypeOK, contextVars, Object
<1>3. NetworkOK'
  BY <1>1 DEF IInv, NetworkOK, IsSealed
<1> QED
  BY <1>1, <1>2, <1>3
  DEF IInv, ContextsOK, InUse, FirstEpochOK, ForwardedOK, DropsExplained, SFrame!HasKey,
      contextVars

\* The subscriber forwards or drops without asking the context.
LEMMA ReceivePlainStep ==
    ASSUME IInv, NEW m \in network, ReceiveUnreadable(m) \/ ReceiveAsIs(m)
    PROVE  IInv'
<1>1. UNCHANGED <<contextVars, encrypts, decrypts, network, firstEpoch>>
  BY DEF ReceiveUnreadable, ReceiveAsIs
<1>2. forwarded' \cup dropped' \subseteq network
  BY DEF ReceiveUnreadable, ReceiveAsIs, Unopened, Drop, Forward, IInv, TypeOK
<1>3. TypeOK'
  BY <1>1, <1>2 DEF IInv, TypeOK, SFrame!TypeOK, contextVars
<1>4. DropsExplained'
  BY <1>1, SealedIsKey, SecurePathAssumption
  DEF ReceiveUnreadable, ReceiveAsIs, Unopened, Drop, Forward, IInv, DropsExplained, IsSealed
<1>5. ForwardedOK'
  BY <1>1
  DEF ReceiveUnreadable, ReceiveAsIs, Unopened, Drop, Forward, IInv, ForwardedOK, contextVars
<1> QED
  BY <1>1, <1>3, <1>4, <1>5
  DEF IInv, ContextsOK, InUse, NetworkOK, FirstEpochOK, SFrame!HasKey, contextVars

LEMMA ReceiveDecryptingStep ==
    ASSUME IInv, NEW m \in network, ReceiveDecrypting(m)
    PROVE  IInv'
<1> DEFINE n == m.namespace
           e == m.epoch
<1>1. /\ Subscriber \in Contexts /\ InUse(Subscriber) /\ decrypts
      /\ n \in Namespaces /\ e \in Epochs
      /\ SFrame!EnsureKey(Subscriber, n, e)
  BY DEF Contexts, ReceiveDecrypting, SFrame!Unprotect, InUse, IInv, TypeOK, Object,
         SFrame!Key
<1>2. /\ MembersOK'
      /\ current_epoch' = current_epoch
      /\ \A d \in Contexts :
            FixedSecret \in epoch_secrets[d] => FixedSecret \in epoch_secrets'[d]
      /\ \A d \in Contexts : \A k \in keys'[d] :
            k.epoch = FixedEpoch => k.secret = Secret
      /\ \A k \in keys[Subscriber] : k.epoch = FixedEpoch => k \in keys'[Subscriber]
  BY <1>1, EnsureKeyKeeps DEF IInv, TypeOK
<1>3. /\ ns_contexts'[Subscriber] = ns_contexts[Subscriber] \cup {n}
      /\ \A k \in keys'[Subscriber] :
            k \in keys[Subscriber] \/ (k.namespace = n /\ k.epoch = e)
      /\ \A i \in Namespaces, f \in Epochs :
            (\E k \in keys[Subscriber] : k.namespace = i /\ k.epoch = f)
               => \E k \in keys'[Subscriber] : k.namespace = i /\ k.epoch = f
      /\ n \in ns_contexts[Subscriber] /\ ~SFrame!HasKey(Subscriber, n, e) => keys' = keys
      /\ n \notin ns_contexts[Subscriber] \/ SFrame!HasKey(Subscriber, n, e)
            => \E k \in keys'[Subscriber] : k.namespace = n /\ k.epoch = e
  BY <1>1, EnsureKeyGives DEF IInv, TypeOK
<1>4. /\ UNCHANGED <<encrypts, decrypts, network, sealed>>
      /\ firstEpoch' = IF firstEpoch[n] = NoEpoch THEN [firstEpoch EXCEPT ![n] = e]
                       ELSE firstEpoch
  BY DEF ReceiveDecrypting, SFrame!Unprotect
<1>5. \/ m \in keys'[Subscriber] /\ forwarded' = forwarded \cup {m} /\ dropped' = dropped
      \/ m \notin keys'[Subscriber] /\ dropped' = dropped \cup {m} /\ forwarded' = forwarded
  BY DEF ReceiveDecrypting, SFrame!Opens, Forward, Unopened, Drop
<1>6. failures' \subseteq [context : Contexts, namespace : Namespaces, epoch : Epochs]
  BY <1>1
  DEF ReceiveDecrypting, SFrame!Unprotect, SFrame!Failed, IInv, TypeOK, SFrame!TypeOK
<1>7. TypeOK'
  BY <1>1, <1>2, <1>4, <1>5, <1>6 DEF IInv, TypeOK, SFrame!TypeOK, MembersOK
<1>8. ContextsOK'
  BY <1>2, <1>4 DEF IInv, ContextsOK, InUse
<1>9. NetworkOK'
  BY <1>4 DEF IInv, NetworkOK
<1>10. FirstEpochOK'
  <2> SUFFICES ASSUME NEW i \in Namespaces
               PROVE  /\ firstEpoch'[i] = NoEpoch => i \notin ns_contexts'[Subscriber]
                      /\ firstEpoch'[i] # NoEpoch =>
                            /\ i \in ns_contexts'[Subscriber]
                            /\ \E k \in keys'[Subscriber] :
                                  k.namespace = i /\ k.epoch = firstEpoch'[i]
                            /\ \A k \in keys'[Subscriber] :
                                  k.namespace = i => k.epoch = firstEpoch'[i]
    BY DEF FirstEpochOK, SFrame!HasKey
  <2>1. CASE i # n
    <3>1. firstEpoch'[i] = firstEpoch[i] /\ firstEpoch[i] \in Epochs \cup {NoEpoch}
      BY <1>4, <2>1 DEF IInv, TypeOK
    <3> QED
      BY <1>1, <1>3, <2>1, <3>1 DEF IInv, FirstEpochOK, SFrame!HasKey
  <2>2. CASE i = n /\ firstEpoch[n] = NoEpoch
    <3>1. firstEpoch'[n] = e /\ e # NoEpoch
      BY <1>1, <1>4, <2>2, SecurePathAssumption DEF IInv, TypeOK
    <3>2. n \notin ns_contexts[Subscriber]
      BY <1>1, <2>2 DEF IInv, FirstEpochOK
    <3>3. \A k \in keys[Subscriber] : k.namespace # n
      BY <1>1, <3>2 DEF IInv, TypeOK, SFrame!TypeOK
    <3> QED
      BY <1>3, <2>2, <3>1, <3>2, <3>3
  <2>3. CASE i = n /\ firstEpoch[n] # NoEpoch
    <3>1. firstEpoch'[n] = firstEpoch[n] /\ firstEpoch[n] \in Epochs
      BY <1>1, <1>4, <2>3 DEF IInv, TypeOK
    <3>2. /\ n \in ns_contexts[Subscriber]
          /\ \E k \in keys[Subscriber] : k.namespace = n /\ k.epoch = firstEpoch[n]
          /\ \A k \in keys[Subscriber] : k.namespace = n => k.epoch = firstEpoch[n]
      BY <1>1, <2>3 DEF IInv, FirstEpochOK, SFrame!HasKey
    <3>3. CASE SFrame!HasKey(Subscriber, n, e)
      BY <1>1, <1>3, <2>3, <3>1, <3>2, <3>3 DEF SFrame!HasKey
    <3>4. CASE ~SFrame!HasKey(Subscriber, n, e)
      BY <1>3, <2>3, <3>1, <3>2, <3>4
    <3> QED
      BY <3>3, <3>4
  <2> QED
    BY <2>1, <2>2, <2>3
<1>11. ForwardedOK'
  <2>1. \A o \in forwarded : o \in keys'[Subscriber]
    BY <1>1, <1>2, ForwardedIsSealed DEF IInv, ForwardedOK
  <2> QED
    BY <1>5, <2>1 DEF ForwardedOK
<1>12. DropsExplained'
  <2> SUFFICES ASSUME NEW d \in dropped', IsSealed(d)
               PROVE  firstEpoch'[d.namespace] \notin {FixedEpoch, NoEpoch}
    BY DEF DropsExplained, IsSealed
  <2>1. CASE d \in dropped
    <3>1. firstEpoch[d.namespace] \notin {FixedEpoch, NoEpoch}
      BY <2>1 DEF IInv, DropsExplained
    <3> QED
      BY <1>4, <3>1 DEF IInv, TypeOK
  <2>2. CASE d = m /\ m \notin keys'[Subscriber]
    <3>1. m \in SFrame!Key /\ e = FixedEpoch /\ m.secret = Secret
      BY <2>2, SealedIsKey
    <3>2. ~ \E k \in keys'[Subscriber] : k.namespace = n /\ k.epoch = e
      <4> SUFFICES ASSUME NEW k \in keys'[Subscriber], k.namespace = n, k.epoch = e
                   PROVE  FALSE
        OBVIOUS
      <4>1. k \in SFrame!Key /\ k.secret = Secret
        BY <1>1, <1>2, <3>1 DEF MembersOK
      <4>2. k = m
        BY <3>1, <4>1 DEF SFrame!Key
      <4> QED
        BY <2>2, <4>2
    <3>3. n \in ns_contexts[Subscriber] /\ ~SFrame!HasKey(Subscriber, n, e)
      BY <1>3, <3>2
    <3>4. firstEpoch[n] \notin {FixedEpoch, NoEpoch}
      BY <1>1, <3>1, <3>3 DEF IInv, FirstEpochOK
    <3> QED
      BY <1>4, <2>2, <3>4
  <2> QED
    BY <1>5, <2>1, <2>2
<1> QED
  BY <1>7, <1>8, <1>9, <1>10, <1>11, <1>12 DEF IInv

LEMMA NextIInv == IInv /\ [Next]_vars => IInv'
<1> SUFFICES ASSUME IInv, [Next]_vars PROVE IInv'
  OBVIOUS
<1>1. CASE \E n \in Namespaces, cipher \in BOOLEAN : BuildPublisher(n, cipher)
  BY <1>1, BuildPublisherStep
<1>2. CASE \E n \in Namespaces : PublishSealed(n)
  BY <1>2, PublishSealedStep
<1>3. CASE \E n \in Namespaces, e \in Epochs \cup {NoEpoch} : PublishPlain(n, e)
  BY <1>3, PublishPlainStep
<1>4. CASE BuildSubscriber
  BY <1>4, BuildSubscriberStep
<1>5. CASE \E m \in network : ReceiveDecrypting(m)
  BY <1>5, ReceiveDecryptingStep
<1>6. CASE \E m \in network : ReceiveUnreadable(m) \/ ReceiveAsIs(m)
  BY <1>6, ReceivePlainStep
<1>7. CASE UNCHANGED vars
  <2>1. TypeOK'
    BY <1>7 DEF IInv, TypeOK, SFrame!TypeOK, vars, contextVars, subscriberVars
  <2> QED
    BY <1>7, <2>1
    DEF IInv, vars, contextVars, subscriberVars, ContextsOK, InUse, NetworkOK,
        FirstEpochOK, ForwardedOK, DropsExplained, SFrame!HasKey
<1> QED
  BY <1>1, <1>2, <1>3, <1>4, <1>5, <1>6, <1>7 DEF Next

\* The invariant holds in every reachable state.
THEOREM SecureInvariance == Spec => []IInv
<1> QED
  BY InitIInv, NextIInv, PTL DEF Spec

-----------------------------------------------------------------------------
\* The contexts keep their types, with a secret per epoch; only what was
\* published is forwarded or dropped.
THEOREM SecureTypeCorrect == Spec => []TypeOK
<1>1. IInv => TypeOK
  BY DEF IInv
<1> QED
  BY <1>1, SecureInvariance, PTL

\* A subscriber drops an encrypted object only after an unencrypted one, the
\* first it looked into in that namespace, read as another epoch: ensure_key
\* then never gives the namespace the key of the fixed epoch.
THEOREM DropsAreExplained == Spec => []DropsExplained
<1>1. IInv => DropsExplained
  BY DEF IInv
<1> QED
  BY <1>1, SecureInvariance, PTL

\* A subscriber with a cipher suite forwards what its context opened under the
\* key of the fixed epoch, and then drops no encrypted object of that namespace.
THEOREM ForwardsWhatItOpened == Spec => []OnlyOpenedForwarded
<1>1. IInv => OnlyOpenedForwarded
  <2> SUFFICES ASSUME IInv, decrypts, NEW m \in forwarded
               PROVE  /\ m \in keys[Subscriber] /\ m.epoch = FixedEpoch
                      /\ m.secret = Secret
                      /\ \A d \in dropped : d.namespace = m.namespace => ~IsSealed(d)
    BY DEF OnlyOpenedForwarded
  <2>1. m \in keys[Subscriber] /\ m.epoch = FixedEpoch /\ m.secret = Secret
    BY ForwardedIsSealed DEF IInv, ForwardedOK
  <2>2. m.namespace \in Namespaces
    BY <2>1 DEF IInv, TypeOK, SFrame!TypeOK, Contexts, SFrame!Key
  <2>3. firstEpoch[m.namespace] \in {FixedEpoch, NoEpoch}
    BY <2>1, <2>2 DEF IInv, FirstEpochOK
  <2> QED
    BY <2>1, <2>3 DEF IInv, DropsExplained
<1> QED
  BY <1>1, SecureInvariance, PTL
=============================================================================
