---------------------------- MODULE MCCacheStore ---------------------------
(***************************************************************************)
(* An instance of CacheStore: one path that several processes scan.        *)
(***************************************************************************)
EXTENDS CacheStore

CONSTANTS w1, w2, path

SamePath == [w \in Workers |-> path]
OneSize == [p \in Paths |-> 2]

=============================================================================
