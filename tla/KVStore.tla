------------------------------- MODULE KVStore -------------------------------
(***************************************************************************)
(* What a client that only ever inserts fresh keys may rely on: a store    *)
(* that remembers every binding forever.  This is the promise the handle   *)
(* map (lib/handlemap.c) needs from its idmap: it registers each id once,  *)
(* ignores the result of the insertion, and resolves ids for as long as    *)
(* the map lives.                                                          *)
(***************************************************************************)
CONSTANTS Keys, Values

VARIABLE store            \* a function whose domain is the set of bound keys

Init == store = [k \in {} |-> k]

(* Bind a key that has no binding yet; every other binding is kept. *)
Insert(k) ==
  /\ k \in Keys \ DOMAIN store
  /\ store' \in [DOMAIN store \cup {k} -> Values]
  /\ \A x \in DOMAIN store : store'[x] = store[x]

Next == \E k \in Keys : Insert(k)

Spec == Init /\ [][Next]_store
=============================================================================
