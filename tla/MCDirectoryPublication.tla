----------------------- MODULE MCDirectoryPublication -----------------------
(* Small instances of DirectoryPublication for TLC.                        *)
EXTENDS DirectoryPublication, TLC

CONSTANTS w1, w2, w3

Symmetric == Permutations({w1, w2})
=============================================================================
