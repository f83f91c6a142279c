----------------------- MODULE MCSubscriptionControl -----------------------
(***************************************************************************)
(* SubscriptionControl for TLC.  The manifests name a namespace under      *)
(* different sources, once and twice, so that threads meet on a namespace, *)
(* on a source and on both.                                                *)
(***************************************************************************)
EXTENDS SubscriptionRefinement

CONSTANTS t1, t2, s1, s2, n1, n2

MCThreads == {t1, t2}
MCSourceIds == {s1, s2}
MCNamespaces == {n1, n2}

Stream(s, ps) == [sourceId |-> s, profiles |-> ps]

\* Two sources that share n2, and one of them with both namespaces.
MCManifests ==
    {<<Stream(s1, <<n2>>), Stream(s2, <<n2>>)>>,
     <<Stream(s1, <<n1, n2>>)>>}
=============================================================================
