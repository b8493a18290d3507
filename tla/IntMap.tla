------------------------------- MODULE IntMap --------------------------------
(***************************************************************************)
(* lib/intmap.c: a hash table from u64 to u64.  Keys hash into the first   *)
(* "cap" cells; a key whose home cell is taken goes into the highest free  *)
(* cell of the whole table ("cap_total" cells) and is linked to the end of *)
(* the home cell's chain.                                                  *)
(*                                                                         *)
(* vd_hash is a fixed function the map knows nothing about: the model      *)
(* picks any function at the start and keeps it.  Keys and values are u64  *)
(* in the code; here they are small natural numbers, 0 included, since 0   *)
(* is what a cleared cell holds.  The allocation of the table never fails  *)
(* (the code does not test it).                                            *)
(***************************************************************************)
EXTENDS Integers, FiniteSets, FiniteSetsExt

CONSTANTS
  Keys,          \* the keys clients use
  Values,        \* the values clients store
  HashRange,     \* the values vd_hash may take
  Inits,         \* the arguments given to vd_intmap_init
  MaxCap         \* bound: no insertion that would grow the table past this

ASSUME IntMapAssumption ==
  /\ Keys \subseteq Nat
  /\ Values \subseteq Nat
  /\ HashRange \subseteq Nat
  /\ Inits \subseteq [cap_total : Nat \ {0}, auto_grow : BOOLEAN]
  /\ MaxCap \in Nat

VARIABLES
  map,           \* the VD_IntMap
  hash,          \* vd_hash: fixed by Init
  result,        \* what the last vd_intmap_set returned
  written        \* history: the bindings clients asked for, newest value set

vars == <<map, hash, result, written>>

-----------------------------------------------------------------------------
(* The table and its pure operations. *)

NoEntry == -1    \* a null VD_IntMapEntry pointer

Cleared == [used |-> FALSE, k |-> 0, v |-> 0, next |-> NoEntry]

(* vd_intmap_init: 20% of the cells (rounded down) are outside the reach   *)
(* of the hash.                                                            *)
NewMap(cap_total, auto_grow) ==
  [auto_grow |-> auto_grow,     \* no VD_INTMAP_FLAG_NO_AUTOGROW
   cap       |-> cap_total - (cap_total \div 5),
   cap_total |-> cap_total,
   usecount  |-> 0,
   table     |-> [i \in 0 .. cap_total - 1 |-> Cleared]]

Home(m, k) == hash[k] % m.cap

(* The cell a walk along the chains reaches: as many steps as there are    *)
(* cells, a step that stays where it is standing for the end of a loop.    *)
Walk(m, step, start) ==
  LET at[n \in 0 .. m.cap_total] == IF n = 0 THEN start ELSE step[at[n - 1]]
  IN  at[m.cap_total]

(* A pass of the loop of tryget and del: on to the next cell while this    *)
(* one is used by another key ("while (entry->used && entry->k != k)").    *)
SearchStep(m, k) ==
  [i \in DOMAIN m.table |->
     LET e == m.table[i]
     IN  IF e.used /\ e.k # k /\ e.next # NoEntry THEN e.next ELSE i]

(* Where that loop stops. *)
StopCell(m, k) == Walk(m, SearchStep(m, k), Home(m, k))

(* The loop ends on a used cell of another key: "return 0". *)
Misses(m, k) == LET e == m.table[StopCell(m, k)] IN e.used /\ e.k # k

(* vd_intmap_tryget. A walk that stops on an unused cell counts as found,  *)
(* with the 0 that cell holds.                                             *)
TryGet(m, k) ==
  [found |-> ~Misses(m, k),
   v     |-> IF Misses(m, k) THEN 0 ELSE m.table[StopCell(m, k)].v]

(* The last cell of a chain: "while (chain->next)".                        *)
ChainStep(m) ==
  [i \in DOMAIN m.table |->
     IF m.table[i].next # NoEntry THEN m.table[i].next ELSE i]

ChainEnd(m, start) == Walk(m, ChainStep(m), start)

FreeCells(m) == {i \in DOMAIN m.table : ~m.table[i].used}

(* The cell an insertion of k writes: its home, or the highest free cell.  *)
TargetCell(m, k) ==
  IF m.table[Home(m, k)].used THEN Max(FreeCells(m)) ELSE Home(m, k)

InsertFails(m, k) == m.table[Home(m, k)].used /\ FreeCells(m) = {}

(* Variant: the reused cell keeps its "next". *)
FillKeepsNext(m, i, k, v) ==
  [m EXCEPT !.table[i].used = TRUE, !.table[i].k = k, !.table[i].v = v,
            !.usecount = @ + 1]

Fill(m, i, k, v) ==
  [m EXCEPT !.table[i] = [used |-> TRUE, k |-> k, v |-> v, next |-> NoEntry],
            !.usecount = @ + 1]

(* Variant: the overflow cell is not linked to its chain. *)
LinkToNothing(m, k, i) == m

(* "chain->next = curr", only when the home cell was taken. *)
LinkTo(m, k, i) ==
  IF m.table[Home(m, k)].used
    THEN [m EXCEPT !.table[ChainEnd(m, Home(m, k))].next = i] ELSE m

(* vd_intmap_set after its vd_intmap_check_grow. Filling comes after       *)
(* linking: when the chain ends in the very cell that is reused, filling   *)
(* is what undoes the link to itself.                                      *)
SetNoGrow(m, k, v) ==
  LET i == TargetCell(m, k) IN Fill(LinkTo(m, k, i), i, k, v)

(* Variant: the rehash forgets the last cell. *)
RehashedButLast(m) ==
  LET moved[i \in 0 .. m.cap_total] ==
        IF i = 0 THEN NewMap(2 * m.cap_total, m.auto_grow)
        ELSE LET e == m.table[i - 1]
                 done == moved[i - 1]
             IN  IF e.used THEN SetNoGrow(done, e.k, e.v) ELSE done
  IN  moved[m.cap_total - 1]

(* The body of vd_intmap_check_grow: the used cells, in index order, are   *)
(* set again in a table twice the size.                                    *)
Rehashed(m) ==
  LET moved[i \in 0 .. m.cap_total] ==
        IF i = 0 THEN NewMap(2 * m.cap_total, m.auto_grow)
        ELSE LET e == m.table[i - 1]
                 done == moved[i - 1]
             IN  IF e.used THEN SetNoGrow(done, e.k, e.v) ELSE done
  IN  moved[m.cap_total]

(* Variant: the table grows one insertion too late. *)
MustGrowLate(m) == m.usecount > m.cap_total

MustGrow(m) == m.usecount = m.cap_total

CheckGrow(m) == IF m.auto_grow /\ MustGrow(m) THEN Rehashed(m) ELSE m

(* Variant: the value stays in the cell. *)
DelOpKeepsValue(m, k) ==
  LET i == StopCell(m, k)
  IN  IF Misses(m, k) THEN m
      ELSE [m EXCEPT !.table[i].used = FALSE, !.table[i].k = 0,
                     !.usecount = IF @ > 0 THEN @ - 1 ELSE @]

(* vd_intmap_del: the cell is cleared but its "next" is kept; an unused    *)
(* stop cell is "cleared" too, and usecount drops either way.              *)
DelOp(m, k) ==
  LET i == StopCell(m, k)
  IN  IF Misses(m, k) THEN m
      ELSE [m EXCEPT !.table[i].used = FALSE, !.table[i].k = 0, !.table[i].v = 0,
                     !.usecount = IF @ > 0 THEN @ - 1 ELSE @]

-----------------------------------------------------------------------------
(* The state machine of a client. *)

Init ==
  /\ \E i \in Inits : map = NewMap(i.cap_total, i.auto_grow)
  /\ hash \in [Keys -> HashRange]
  /\ result = TRUE
  /\ written = [k \in {} |-> 0]

(* vd_intmap_set(map, k, v) *)
Set(k, v) ==
  LET m == CheckGrow(map)
  IN  /\ map.auto_grow /\ MustGrow(map) => 2 * map.cap_total <= MaxCap
      /\ result' = ~InsertFails(m, k)
      /\ map' = IF InsertFails(m, k) THEN m ELSE SetNoGrow(m, k, v)
      /\ written' = IF InsertFails(m, k) THEN written
                    ELSE [x \in DOMAIN written \cup {k} |->
                            IF x = k
                              THEN (IF k \in DOMAIN written THEN written[k] ELSE {}) \cup {v}
                              ELSE written[x]]
      /\ UNCHANGED hash

(* vd_intmap_del(map, k) *)
Del(k) ==
  /\ map' = DelOp(map, k)
  /\ UNCHANGED <<hash, result, written>>

(* The handle map's use of its idmap: every key is set once, none deleted. *)
SetFresh(k, v) == k \notin DOMAIN written /\ Set(k, v)

FreshNext == \E k \in Keys, v \in Values : SetFresh(k, v)

(* Any sequence of calls for some of the keys. *)
AnyNext(keys) ==
  \/ \E k \in keys, v \in Values : Set(k, v)
  \/ \E k \in keys : Del(k)

AnySpec == Init /\ [][AnyNext(Keys)]_vars

-----------------------------------------------------------------------------
(* Properties. *)

(* A client that sets fresh keys never loses an insertion, in any chain    *)
(* shape and across every growth: the table is grown before it is full, so *)
(* vd_intmap_set never returns 0. vd_handlemap__register relies on it: it  *)
(* ignores the result.                                                     *)
SetNeverFails == result

(* The walks of tryget, set and del end after at most cap_total steps      *)
(* whatever was inserted, overwritten and deleted before: reusing a        *)
(* deleted cell that is still linked into a chain never closes a cycle.    *)
ChainsEnd ==
  \A i \in DOMAIN map.table : map.table[ChainEnd(map, i)].next = NoEntry

(* Under any sequence of sets and deletes a lookup answers with 0 or with  *)
(* a value some client set for that very key: chains that run through      *)
(* cells of other keys, reused or cleared, never leak a foreign value.     *)
NoForeignValue ==
  \A k \in Keys :
    LET r == TryGet(map, k)
    IN  r.found /\ r.v # 0 => k \in DOMAIN written /\ r.v \in written[k]

(* The bindings a fresh-keys client sees. *)
Contents == [k \in DOMAIN written |-> TryGet(map, k).v]
=============================================================================
