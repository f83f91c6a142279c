------------------------------- MODULE Manifest -------------------------------
(***************************************************************************)
(* The manifest of qmedia (src/src/ManifestTypes.cpp): what the parser     *)
(* makes of a JSON manifest, how manifests are compared, and what becomes  *)
(* of the profiles of its publications: the tag the application's delegate *)
(* is allocated with, and the priorities and expiry of the                 *)
(* PublicationDelegate.  updateManifest runs to its end here; what         *)
(* interleaves with it is the subject of PublicationControl.               *)
(*                                                                         *)
(* JSON is abstract: an object is a record of the fields the parser looks  *)
(* at, any of which may be Missing or Malformed (of the wrong type).       *)
(***************************************************************************)
EXTENDS Naturals, Sequences

CONSTANTS
    Namespaces,
    JsonManifests,  \* the JSON texts the application may pass
    Granted,        \* namespaces the application allocates a delegate for
    MaxUpdates,     \* bound: calls of updateManifest
    Missing,        \* the object has no such field
    Malformed,      \* the field does not convert to its type
    EmptyTag,       \* the empty string, an appTag that is not given
    Absent          \* "the map has no entry for this key"

ASSUME ManifestAssumption == Granted \subseteq Namespaces /\ MaxUpdates \in Nat

(***************************************************************************)
(* A field that is there and converts has its C++ type, and no data of the *)
(* controller is Absent.                                                   *)
(***************************************************************************)
Field(type) == type \cup {Missing, Malformed}

JsonProfiles ==
    [qualityProfile : Field(STRING), quicrNamespace : Field(Namespaces),
     priorities : Field(Seq(Nat)), expiry : Field(Seq(Nat)), appTag : Field(STRING)]
JsonProfileSets == [type : Field(STRING), profiles : Field(Seq(JsonProfiles))]
JsonStreams == [label : Field(STRING), profileSet : Field(JsonProfileSets)]

Places == Nat \X (Nat \X Nat)
Allocations == [appTag : STRING, from : Places]
Publications == [priority : Seq(Nat), expiry : Seq(Nat), from : Places]

ASSUME JsonAssumption ==
    /\ JsonManifests \subseteq [subscriptions : Field(Seq(JsonStreams)),
                                publications : Field(Seq(JsonStreams))]
    /\ EmptyTag \in STRING
    /\ Absent \notin Allocations \cup Publications

VARIABLES
    manifest,       \* the last one that was processed
    allocated,      \* qPublicationsMap: the tag, and the profile it comes from
    created,        \* quicrPublicationsMap: the data of the PublicationDelegate
    is_singleordered_publication,
    updates,        \* calls of updateManifest so far
    \* History.
    before,         \* the manifest processed before that
    undefined,      \* what was read although it is not there
    unfinished,     \* namespaces with a profile that was reached and not started
    skipped         \* namespaces of manifest that the loops did not reach
controllerVars == <<allocated, created, is_singleordered_publication>>
historyVars == <<before, undefined, unfinished, skipped>>
vars == <<manifest, updates, controllerVars, historyVars>>

-----------------------------------------------------------------------------
(***************************************************************************)
(* The parser.  j.at(field) throws when the field is missing, get_to when  *)
(* it is malformed; an exception in any part leaves the whole manifest.    *)
(***************************************************************************)
At(field) == field \notin {Missing, Malformed}
Given(field) == field # Missing
Optional(field) == Given(field) => At(field)

\* A mistake for the mutation runs: what is not given has no value.
Undefaulted(field, default) == field                         \* Get

Get(field, default) == IF Given(field) THEN field ELSE default

ParsesProfile(j) ==
    /\ At(j.qualityProfile) /\ At(j.quicrNamespace)
    /\ Optional(j.priorities) /\ Optional(j.expiry) /\ Optional(j.appTag)

Profile(j) ==
    [qualityProfile |-> j.qualityProfile, quicrNamespace |-> j.quicrNamespace,
     priorities |-> Get(j.priorities, <<>>), expiry |-> Get(j.expiry, <<>>),
     appTag |-> Get(j.appTag, EmptyTag)]

ParsesProfileSet(j) ==
    /\ At(j.type) /\ At(j.profiles)
    /\ \A i \in DOMAIN j.profiles : ParsesProfile(j.profiles[i])

ProfileSet(j) ==
    [type |-> j.type, profiles |-> [i \in DOMAIN j.profiles |-> Profile(j.profiles[i])]]

\* label stands for mediaType, sourceName, sourceId and label, all required.
ParsesStream(j) == At(j.label) /\ At(j.profileSet) /\ ParsesProfileSet(j.profileSet)
MediaStream(j) == [label |-> j.label, profileSet |-> ProfileSet(j.profileSet)]

ParsesStreams(js) == At(js) /\ \A i \in DOMAIN js : ParsesStream(js[i])
MediaStreams(js) == [i \in DOMAIN js |-> MediaStream(js[i])]

Parses(j) == ParsesStreams(j.subscriptions) /\ ParsesStreams(j.publications)
Parsed(j) ==
    [subscriptions |-> MediaStreams(j.subscriptions),
     publications |-> MediaStreams(j.publications)]

(***************************************************************************)
(* The operators ==, from Profile up.                                      *)
(***************************************************************************)
\* A mistake for the mutation runs: expiry is forgotten as appTag is.
EqualExpiryForgotten(p, q) ==
    /\ p.qualityProfile = q.qualityProfile /\ p.quicrNamespace = q.quicrNamespace
    /\ p.priorities = q.priorities

EqualProfile(p, q) ==
    /\ p.qualityProfile = q.qualityProfile /\ p.quicrNamespace = q.quicrNamespace
    /\ p.priorities = q.priorities /\ p.expiry = q.expiry

EqualProfileSet(a, b) ==
    /\ a.type = b.type
    /\ Len(a.profiles) = Len(b.profiles)
    /\ \A i \in DOMAIN a.profiles : EqualProfile(a.profiles[i], b.profiles[i])

EqualStreams(s, u) ==
    /\ Len(s) = Len(u)
    /\ \A i \in DOMAIN s : s[i].label = u[i].label /\ EqualProfileSet(s[i].profileSet, u[i].profileSet)

Equal(m, o) ==
    EqualStreams(m.subscriptions, o.subscriptions) /\ EqualStreams(m.publications, o.publications)

-----------------------------------------------------------------------------
(***************************************************************************)
(* The publications: profile p[2] of media stream p[1], in the order of    *)
(* the two loops.                                                          *)
(***************************************************************************)
Positions(m) ==
    UNION {{s} \X DOMAIN m.publications[s].profileSet.profiles : s \in DOMAIN m.publications}

ProfileAt(m, p) == m.publications[p[1]].profileSet.profiles[p[2]]

Naming(m, n) == {p \in Positions(m) : ProfileAt(m, p).quicrNamespace = n}
First(positions) ==
    CHOOSE p \in positions : \A q \in positions : p[1] < q[1] \/ (p[1] = q[1] /\ p[2] <= q[2])
Named(m) == {n \in Namespaces : Naming(m, n) # {}}

\* More mistakes: no default, a delegate that could not be allocated is
\* asked for again, and a publication that is overwritten.
NoDefaults(priorities) == priorities                         \* Priority
AskedAgain(n) == n \notin Granted \/ allocated[n] = Absent   \* Unallocated
Overwritten(n) == TRUE                                       \* Uncreated

\* The constructor of PublicationDelegate completes priorities, not expiry.
Priority(priorities) ==
    CASE Len(priorities) = 0 -> <<10, 11>>
      [] Len(priorities) = 1 -> priorities \o priorities
      [] OTHER -> priorities

\* getPublicationDelegate allocates once, createQuicrPublicationDelegate
\* keeps what is there.
Unallocated(n) == allocated[n] = Absent
Uncreated(n) == created[n] = Absent

Init ==
    /\ manifest = [subscriptions |-> <<>>, publications |-> <<>>]
    /\ allocated = [n \in Namespaces |-> Absent]
    /\ created = [n \in Namespaces |-> Absent]
    /\ is_singleordered_publication = FALSE
    /\ updates = 0
    /\ before = manifest
    /\ undefined = {} /\ unfinished = {} /\ skipped = {}

(***************************************************************************)
(* The profiles the loops reach.  A delegate that is there and prepared    *)
(* ends the loop over its media stream when publications are single-       *)
(* ordered, whatever its start returns; the next stream is begun anyway.   *)
(***************************************************************************)
Processed(m, prepared) == {p \in prepared : ProfileAt(m, p).quicrNamespace \in Granted}

Reached(m, prepared) ==
    {p \in Positions(m) : is_singleordered_publication =>
        ~ \E q \in Processed(m, prepared) : q[1] = p[1] /\ q[2] < p[2]}

(***************************************************************************)
(* updateManifest of a JSON text.  prepared are the profiles for which the *)
(* application's prepare returns 0, session tells whether there is a       *)
(* client: without either the publication is allocated but not created,    *)
(* and another profile or manifest may create it.                          *)
(***************************************************************************)
UpdateManifest(j, prepared, session) ==
    LET m == Parsed(j)
        reached == Reached(m, prepared)
        started == IF session THEN reached \cap Processed(m, prepared) ELSE {}
    IN  /\ manifest' = m
        /\ allocated' = [n \in Namespaces |->
              IF Naming(m, n) \cap reached # {} /\ Unallocated(n)
              THEN LET p == First(Naming(m, n) \cap reached)
                   IN  [appTag |-> ProfileAt(m, p).appTag, from |-> <<updates, p>>]
              ELSE allocated[n]]
        /\ created' = [n \in Namespaces |->
              IF Naming(m, n) \cap started # {} /\ Uncreated(n)
              THEN LET p == First(Naming(m, n) \cap started)
                   IN  [priority |-> Priority(ProfileAt(m, p).priorities),
                        expiry |-> ProfileAt(m, p).expiry, from |-> <<updates, p>>]
              ELSE created[n]]
        /\ unfinished' = unfinished \cup
              {ProfileAt(m, p).quicrNamespace : p \in reached \ started}
        /\ skipped' = {n \in Named(m) : Naming(m, n) \cap reached = {}}
        /\ before' = manifest
        /\ updates' = updates + 1
        /\ UNCHANGED <<is_singleordered_publication, undefined>>

\* The parser throws: nothing was processed yet.
ManifestRejected ==
    /\ updates' = updates + 1
    /\ UNCHANGED <<manifest, controllerVars, historyVars>>

\* publishIntent and publishNamedObject read the first priority,
\* publishNamedObject the first expiry.
Publish(n) ==
    /\ ~Uncreated(n)
    /\ undefined' = undefined \cup
          {<<n, field>> : field \in {f \in {"priority", "expiry"} : created[n][f] = <<>>}}
    /\ UNCHANGED <<manifest, updates, controllerVars, before, unfinished, skipped>>

SetPublicationSingleOrdered(b) ==
    /\ is_singleordered_publication' = b
    /\ UNCHANGED <<manifest, updates, allocated, created, historyVars>>

Next ==
    \/ /\ updates < MaxUpdates
       /\ \E j \in JsonManifests :
             \/ /\ Parses(j)
                /\ \E prepared \in SUBSET Positions(Parsed(j)), session \in BOOLEAN :
                      UpdateManifest(j, prepared, session)
             \/ ~Parses(j) /\ ManifestRejected
    \/ \E n \in Namespaces : Publish(n)
    \/ \E b \in BOOLEAN : SetPublicationSingleOrdered(b)

Spec == Init /\ [][Next]_vars

-----------------------------------------------------------------------------
(***************************************************************************)
(* TypeOK: what the maps hold; a created publication was allocated first,  *)
(* and what is allocated comes from an update that has been called.        *)
(***************************************************************************)
TypeOK ==
    /\ updates \in 0 .. MaxUpdates
    /\ is_singleordered_publication \in BOOLEAN
    /\ unfinished \subseteq Namespaces /\ skipped \subseteq Named(manifest)
    /\ \A n \in Namespaces :
          /\ allocated[n] # Absent =>
                allocated[n].from[1] < updates /\ allocated[n].appTag \in STRING
          /\ created[n] # Absent => allocated[n] # Absent /\ created[n].expiry \in Seq(Nat)

(***************************************************************************)
(* EqualManifestsPublishAlike: a manifest that operator== calls equal to   *)
(* the one before publishes the same namespaces with the same priorities   *)
(* and expiry, although the comparison skips a field of the profile        *)
(* (ManifestTypes.cpp:71-75): an application that uses == to skip an       *)
(* update can lose a change of appTag only.                                *)
(***************************************************************************)
EqualManifestsPublishAlike ==
    Equal(manifest, before) =>
        /\ Named(manifest) = Named(before)
        /\ \A n \in Named(manifest) :
              LET p == ProfileAt(manifest, First(Naming(manifest, n)))
                  q == ProfileAt(before, First(Naming(before, n)))
              IN  Priority(p.priorities) = Priority(q.priorities) /\ p.expiry = q.expiry

(***************************************************************************)
(* EqualAllocatesSkipped: processing a manifest equal to the last one asks *)
(* the application for no publication, whatever failed the first time      *)
(* (QController.cpp:294: a null or unprepared delegate is kept), but for   *)
(* those of the namespaces the break of a single-ordered publication had   *)
(* left out (QController.cpp:477): a prepare that fails now, or the flag   *)
(* reset, lets the loop go on to them.                                     *)
(***************************************************************************)
EqualAllocatesSkipped ==
    [][Equal(manifest', manifest) =>
          \A n \in Namespaces : allocated'[n] # allocated[n] => n \in skipped]_vars

(***************************************************************************)
(* OnlyExpiryUndefined: of the two vectors that publishing indexes at 0,   *)
(* only expiry is ever read out of its bounds (QuicrDelegates.cpp:383); a  *)
(* priority is always there, because the constructor completes it.         *)
(***************************************************************************)
OnlyExpiryUndefined == undefined \subseteq Namespaces \X {"expiry"}

(***************************************************************************)
(* TagAndPublicationAgree: the tag the application's delegate has and the  *)
(* priorities and expiry of the publication come from one profile of one   *)
(* manifest, unless a profile of that namespace was not started: then they *)
(* may come from two (QController.cpp:294 and :236 keep different first    *)
(* entries).                                                               *)
(***************************************************************************)
TagAndPublicationAgree ==
    \A n \in Namespaces \ unfinished :
        created[n] # Absent => created[n].from = allocated[n].from
=============================================================================
