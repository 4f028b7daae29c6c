---------------------------- MODULE MCQueryCache ----------------------------
(* Small instances of QueryCache.                                          *)
EXTENDS QueryCache, TLC

\* Clients that never put are interchangeable.
Getters == Permutations(Client \ Putter)
=============================================================================
