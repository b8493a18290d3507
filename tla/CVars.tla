-------------------------------- MODULE CVars --------------------------------
(***************************************************************************)
(* ng/src/cvar.c on top of lib/strmap.c and the hooks of lib/delegate.h:   *)
(* console variables and the callbacks told of their changes.  Clients     *)
(* keep to the assertion of vd_cvs_set (a variable keeps its type) and     *)
(* unregister only what they registered: VD_HOOK_UNSUBSCRIBE of an unknown *)
(* function would write before the list.  What a callback does is left     *)
(* out, and so is the usrdata registered with it: VD_HOOK_UNSUBSCRIBE      *)
(* compares the function only, and takes the first entry that has it.      *)
(***************************************************************************)
EXTENDS StrMap, Sequences, SequencesExt

CONSTANTS
  Callbacks,         \* function pointers
  MaxHooks           \* bound on the length of the hook list

ASSUME CVarsAssumption == MaxHooks \in Nat

VARIABLES
  list,              \* on_cvar_update.list: the registered functions
  wanted             \* history: function -> registrations not unregistered

vars == <<mapVars, list, wanted>>

-----------------------------------------------------------------------------
(* Variant: the last element is dropped, not moved. *)
DelLast(l, i) == Front(l)

(* VD_ARRAY_DELSWAP: the last element takes the place of element i. *)
DelSwap(l, i) == Front([l EXCEPT ![i] = Last(l)])

(* The first index of f in the list: the search of VD_HOOK_UNSUBSCRIBE. *)
IndexOf(l, f) == Min({i \in DOMAIN l : l[i] = f})

(* VD_HOOK_UNSUBSCRIBE. "if (_f)" skips the zero index, the first element. *)
Unsubscribed(l, f) == IF IndexOf(l, f) # 1 THEN DelSwap(l, IndexOf(l, f)) ELSE l

Init ==
  /\ MapInit
  /\ list = <<>>
  /\ wanted = [f \in Callbacks |-> 0]

(* vd_cvs_register_hook *)
RegisterHook(f) ==
  /\ Len(list) < MaxHooks
  /\ list' = Append(list, f)
  /\ wanted' = [wanted EXCEPT ![f] = @ + 1]
  /\ UNCHANGED mapVars

(* vd_cvs_unregister_hook *)
UnregisterHook(f) ==
  /\ wanted[f] > 0
  /\ list' = Unsubscribed(list, f)
  /\ wanted' = [wanted EXCEPT ![f] = @ - 1]
  /\ UNCHANGED mapVars

(* vd_cvs_set: a variable that does not exist is stored; one that does is  *)
(* announced to the hooks, with the new value in a local copy.             *)
SetCVar(k, v) ==
  /\ \/ ~undef /\ Found(bins, k) /\ UNCHANGED mapVars
     \/ ~Found(bins, k) /\ StrMapSet(k, v)
  /\ UNCHANGED <<list, wanted>>

VarsNext  == \E k \in Keys, v \in Values : SetCVar(k, v)
HooksNext == \E f \in Callbacks : RegisterHook(f) \/ UnregisterHook(f)

-----------------------------------------------------------------------------
(* Properties. *)

Count(f) == Cardinality({i \in DOMAIN list : list[i] = f})

(* Unregistering one callback never silences another, whatever elements    *)
(* DELSWAP moved before, and what it leaves behind is the function at      *)
(* index 0 and nothing else: the one function VD_HOOK_UNSUBSCRIBE cannot   *)
(* remove stays first for ever, every other one is in the list exactly as  *)
(* often as it is registered.                                              *)
OnlyFirstStays ==
  \A f \in Callbacks :
    Count(f) = wanted[f] \/ (Count(f) > wanted[f] /\ Head(list) = f)
=============================================================================
