---------------------------- MODULE MCSecurePath ----------------------------
EXTENDS SecurePath, TLC

CONSTANTS n1, n2

NamespaceSymmetry == Permutations({n1, n2})
=============================================================================
