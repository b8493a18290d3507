--------------------------- MODULE SharedOwnership ---------------------------
(***************************************************************************)
(* What shared handles promise, without counters, slots or ids: an object  *)
(* has a set of owners, it dies when its last owner lets go of it (a       *)
(* pinned one does not), and whatever is still alive when the map is shut  *)
(* down dies then.  Nothing dies twice, because "dead" only grows.         *)
(***************************************************************************)
CONSTANTS
  Holders,                \* the variables that can hold a handle
  Objects                 \* the objects that can be created

VARIABLES
  owners,                 \* object -> the holders of a handle to it
  pinned,                 \* objects registered to outlive their handles
  dead,                   \* objects whose destructor ran
  open                    \* the map was not shut down yet

vars == <<owners, pinned, dead, open>>

Init ==
  /\ owners = [o \in {} |-> {}]
  /\ pinned = {} /\ dead = {}
  /\ open = TRUE

Idle(h) == \A o \in DOMAIN owners : h \notin owners[o]

(* A new object, owned by h. *)
Create(h, o) ==
  /\ open /\ Idle(h)
  /\ o \notin DOMAIN owners
  /\ owners' = [x \in DOMAIN owners \cup {o} |-> IF x = o THEN {h} ELSE owners[x]]
  /\ pinned' \in {pinned, pinned \cup {o}}
  /\ UNCHANGED <<dead, open>>

(* An owner shares its object with g. *)
Share(g, o) ==
  /\ open /\ Idle(g)
  /\ owners[o] # {}
  /\ owners' = [owners EXCEPT ![o] = @ \cup {g}]
  /\ UNCHANGED <<pinned, dead, open>>

(* h lets go of o; the last one to do so ends an object that is not pinned. *)
Release(h, o) ==
  /\ open
  /\ h \in owners[o]
  /\ owners' = [owners EXCEPT ![o] = @ \ {h}]
  /\ dead' = IF owners[o] = {h} /\ o \notin pinned THEN dead \cup {o} ELSE dead
  /\ UNCHANGED <<pinned, open>>

(* The end of the map: every object is dead, owned or not. *)
Shutdown ==
  /\ open
  /\ open' = FALSE
  /\ dead' = DOMAIN owners
  /\ UNCHANGED <<owners, pinned>>

Next ==
  \/ \E h \in Holders, o \in Objects : Create(h, o)
  \/ \E h \in Holders : \E o \in DOMAIN owners : Share(h, o) \/ Release(h, o)
  \/ Shutdown

Spec == Init /\ [][Next]_vars
=============================================================================
