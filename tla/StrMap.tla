------------------------------- MODULE StrMap --------------------------------
(***************************************************************************)
(* lib/strmap.c: a hash table of strings.  A key lives in its home bin;    *)
(* when that bin belongs to another key the new key goes into the highest  *)
(* unused bin, which no bin's "next" ever points to.  The search for that  *)
(* bin begins at index cap_total, one bin past the allocation: what is     *)
(* read there is not initialised, so the model starts that bin in either   *)
(* state.                                                                  *)
(*                                                                         *)
(* Keys are model values, compared as a whole; the hash is any function    *)
(* fixed at the start.  What a key's length decides is kept: the           *)
(* characters of a key behind the 43rd (key_prefix) lie in a block of      *)
(* their own, key_rest.  copy_key takes the allocator for that block from  *)
(* the memory before the bin, which is the map's header for bin 0 only;    *)
(* for any other bin it calls through what the bin before holds.  And a    *)
(* deletion frees key_rest but does not clear it: a short key that comes   *)
(* into the bin later leaves it as it is, and its deletion frees it again. *)
(* Both are undefined: the model ends there, as nothing can be said of     *)
(* what the program does next.                                             *)
(***************************************************************************)
EXTENDS Integers, FiniteSets, FiniteSetsExt

CONSTANTS
  Keys, Values,
  LongKeys,          \* the keys of more than 43 characters
  CapTotal,          \* cap_total
  NoKey              \* the key of a bin that never held one

ASSUME StrMapAssumption ==
  /\ CapTotal \in Nat \ {0, 1} /\ NoKey \notin Keys /\ LongKeys \subseteq Keys

VARIABLES
  bins,              \* index -> bin; CapTotal is the index past the end
  hash,              \* VD_HASH_STR reduced to home bins: fixed by Init
  undef,             \* an operation was undefined
  last,              \* history: key -> outcome of the last operation on it
  long_set           \* history: a key of more than 43 characters was set

mapVars == <<bins, hash, undef, last, long_set>>

-----------------------------------------------------------------------------
Cap == (CapTotal * 86) \div 100        \* vd__strmap_init

(* rest is what key_rest points to: nothing, a block, or one freed before. *)
Unused ==
  [used |-> FALSE, key |-> NoKey, v |-> CHOOSE v \in Values : TRUE, rest |-> "none"]

(* Variant: the key in the bin is not compared. *)
FoundAnyKey(b, k) == b[hash[k]].used

(* vd__strmap_get_bin finds the key in its home bin or not at all. *)
Found(b, k) == b[hash[k]].used /\ b[hash[k]].key = k

(* The search for a bin to create: the highest unused index above 0. *)
Spare(b) == {i \in 1 .. CapTotal : ~b[i].used}

Creatable(b, k) == Found(b, k) \/ ~b[hash[k]].used \/ Spare(b) # {}

(* The bin vd__strmap_get_bin returns when asked to create. *)
BinFor(b, k) ==
  IF Found(b, k) \/ ~b[hash[k]].used THEN hash[k] ELSE Max(Spare(b))

(* copy_key allocates for a new key, with the allocator of another bin. *)
Strays(b, k) ==
  k \in LongKeys /\ ~Found(b, k) /\ Creatable(b, k) /\ BinFor(b, k) # 0

(* vd__strmap_set, where that is defined. *)
SetOp(b, k, v) ==
  IF Creatable(b, k)
    THEN [b EXCEPT ![BinFor(b, k)] =
           [used |-> TRUE, key |-> k, v |-> v,
            rest |-> IF k \in LongKeys THEN "kept" ELSE @.rest]]
    ELSE b

(* The deletion frees a block that a deletion before it freed. *)
FreesAgain(b, k) == Found(b, k) /\ b[hash[k]].rest = "freed"

(* VD_STRMAP_DEL: the bin is unused from now on and keeps its contents,    *)
(* the pointer to the block it freed too.                                  *)
DelOp(b, k) ==
  IF Found(b, k)
    THEN [b EXCEPT ![hash[k]] =
           [used |-> FALSE, key |-> @.key, v |-> @.v,
            rest |-> IF @.rest = "kept" THEN "freed" ELSE @.rest]]
    ELSE b

-----------------------------------------------------------------------------
MapInit ==
  /\ \E beyond \in BOOLEAN :
       bins = [i \in 0 .. CapTotal |->
                 IF i = CapTotal THEN [Unused EXCEPT !.used = beyond] ELSE Unused]
  /\ hash \in [Keys -> 0 .. Cap - 1]
  /\ undef = FALSE /\ long_set = FALSE
  /\ last = [k \in Keys |-> [set |-> FALSE, v |-> Unused.v]]

StrMapSet(k, v) ==
  /\ ~undef /\ undef' = Strays(bins, k)
  /\ bins' = IF Strays(bins, k) THEN bins ELSE SetOp(bins, k, v)
  /\ last' = [last EXCEPT ![k] = [set |-> Creatable(bins, k), v |-> v]]
  /\ long_set' = (long_set \/ k \in LongKeys)
  /\ UNCHANGED hash

StrMapDel(k) ==
  /\ ~undef /\ undef' = FreesAgain(bins, k)
  /\ bins' = DelOp(bins, k)
  /\ last' = [last EXCEPT ![k].set = FALSE]
  /\ UNCHANGED <<hash, long_set>>

MapNext == \E k \in Keys : StrMapDel(k) \/ \E v \in Values : StrMapSet(k, v)

-----------------------------------------------------------------------------
(* Properties. *)

(* As long as every key that was set has at most 43 characters, no         *)
(* operation of the map is undefined.  And unless one was, what strmap_get *)
(* finds is never stale: copies of a key that collisions left in other     *)
(* bins never resurface, neither after deletions and reuse of its home bin *)
(* nor after the key itself was deleted.                                   *)
FoundIsNewest ==
  /\ undef => long_set
  /\ ~undef => \A k \in Keys :
                 Found(bins, k) => last[k].set /\ bins[hash[k]].v = last[k].v

=============================================================================
