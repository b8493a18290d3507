------------------------------ MODULE MCIntMap --------------------------------
(***************************************************************************)
(* Two clients of the integer map: the handle map, which sets fresh keys   *)
(* only, in a table that grows; and one that sets and deletes as it likes, *)
(* on a table that may not grow (as test/lib.map.c uses it).  A behaviour  *)
(* belongs to one of them.                                                 *)
(***************************************************************************)
EXTENDS IntMap

CONSTANTS AnyKeys, AnyHash       \* keys of the second client, their hashes

ASSUME MCIntMapAssumption == AnyKeys \subseteq Keys

VARIABLE client

MCInits == {[cap_total |-> 3, auto_grow |-> TRUE], [cap_total |-> 4, auto_grow |-> FALSE]}

MCInit ==
  /\ Init
  /\ \/ client = "fresh" /\ map.auto_grow
     \/ /\ client = "any" /\ ~map.auto_grow
        /\ \A k \in Keys : hash[k] \in AnyHash /\ (k \notin AnyKeys => hash[k] = 0)

MCNext ==
  /\ UNCHANGED client
  /\ \/ client = "fresh" /\ FreshNext
     \/ client = "any" /\ AnyNext(AnyKeys)

MCSpec == MCInit /\ [][MCNext]_<<vars, client>>

(* A client that sets fresh keys never loses an insertion, in any chain    *)
(* shape and across every growth: the table is grown before it is full, so *)
(* vd_intmap_set never returns 0. vd_handlemap__register relies on it: it  *)
(* ignores the result.                                                     *)
FreshSetsSucceed == client = "fresh" => SetNeverFails

Store == INSTANCE KVStore WITH
  store <- IF client = "fresh" THEN Contents ELSE [k \in {} |-> 0]

(* A fresh-keys client cannot tell the hash table from a plain store that  *)
(* keeps every binding forever (vd_intmap_set, check_grow and tryget       *)
(* together).                                                              *)
RefinesStore == Store!Spec
=============================================================================
