------------------------------ MODULE MCManifest ------------------------------
(* Instances of Manifest for TLC: JSON manifests with up to two profiles. *)
EXTENDS Manifest, SequencesExt
CONSTANTS n1, n2

MCNamespaces == {n1, n2}

JsonProfile(n, priorities, expiry, tag) ==
    [qualityProfile |-> "opus", quicrNamespace |-> n,
     priorities |-> priorities, expiry |-> expiry, appTag |-> tag]
Full(tag) == JsonProfile(n1, <<1>>, <<500>>, tag)

\* Profiles that differ in the tag, the expiry and the namespace, with fields
\* left out.
WellFormed ==
    {Full("a"), Full("b"), JsonProfile(n1, Missing, Missing, Missing),
     JsonProfile(n1, <<1>>, <<500, 300>>, "a"), JsonProfile(n2, <<1, 2>>, <<500>>, "a")}
IllFormed ==
    {JsonProfile(n1, Malformed, <<500>>, "a"), JsonProfile(Missing, <<1>>, <<500>>, "a"),
     [Full("a") EXCEPT !.qualityProfile = Missing]}

Stream(profiles) == [label |-> "camera", profileSet |-> [type |-> "simulcast", profiles |-> profiles]]
Published(profiles) == [subscriptions |-> <<>>, publications |-> <<Stream(profiles)>>]

MCManifests ==
    {Published(ps) : ps \in BoundedSeq(WellFormed, 2)}
        \cup {Published(<<p>>) : p \in IllFormed}
        \cup {[subscriptions |-> <<Stream(<<Full("a")>>)>>,
               publications |-> <<Stream(<<Full("a")>>), Stream(<<Full("b")>>)>>],
              [subscriptions |-> Missing, publications |-> <<Stream(<<Full("a")>>)>>],
              [subscriptions |-> <<>>, publications |-> <<[Stream(<<>>) EXCEPT !.label = Malformed]>>]}
=============================================================================
