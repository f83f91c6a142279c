------------------------ MODULE MCPublicationControl ------------------------
(***************************************************************************)
(* Instances of PublicationControl for TLC.                                *)
(***************************************************************************)
EXTENDS PublicationControl

CONSTANTS t1, t2, n1, n2

MCThreads == {t1, t2}
MCNamespaces == {n1, n2}

\* One stream with both namespaces; two streams that meet it on n2 and n1.
MCManifests == {<<<<n1, n2>>>>, <<<<n2>>, <<n1>>>>}

SmallManifests == {<<<<n1, n2>>>>, <<<<n2>>>>}
=============================================================================
