------------------------------ MODULE MCStrings ------------------------------
(***************************************************************************)
(* Strings and the string map in one model, for the clients of each: one   *)
(* that calls strmap_set and strmap_del itself, one that sets console      *)
(* variables (and never deletes one), one that registers and unregisters   *)
(* callbacks, one that formats texts and one that takes paths apart.  They *)
(* do not touch each other's state, so a behaviour belongs to one client   *)
(* from the start, and the state of the others stays as it begins.         *)
(***************************************************************************)
EXTENDS CVars, Text

VARIABLE client

mcVars == <<vars, textVars, client>>

(* The formats: every one of at most two items, and three in a row where   *)
(* one conversion shifts the place or the argument of the next.            *)
IntValues ==
  [i8 |-> {-128, -127, -100, -99, -64, -63, -10, -9, 0, 9, 10, 63, 64, 99, 100, 127},
   u8 |-> {0, 9, 10, 99, 100, 255},
   i16 |-> {-32768, -32767, -10000, -100, -1, 7, 99, 12345, 32767},
   u16 |-> {0, 10, 100, 9999, 65535}]
StrValues == {<<>>, <<"a">>, <<"\\", "a", "/">>}
ArgsOf(item) ==
  IF item \in IntSpecs THEN [type : {"int"}, v : IntValues[item]]
                       ELSE [type : {"str"}, v : StrValues]

Items == IntSpecs \cup StrSpecs \cup {"x", "null", "?"}
Formats ==
  UNION {[1 .. n -> Items] : n \in 0 .. 2}
    \cup {<<"x", "str", "i8">>, <<"i8", "x", "u8">>, <<"str", "path", "i8">>,
          <<"i8", "u8", "str">>, <<"path", "null", "str">>, <<"i8", "i8", "x">>}

ArgLists(fmt) ==
  LET taken == SelectSeq(fmt, Takes)
  IN  {a \in [DOMAIN taken -> UNION {ArgsOf(i) : i \in ToSet(taken)}] :
         \A i \in DOMAIN taken : a[i] \in ArgsOf(taken[i])}
MCJobs == UNION {{[fmt |-> fmt, args |-> a] : a \in ArgLists(fmt)} : fmt \in Formats}

NameChars == {"/", "\\", "a", "b"}
MCNames == UNION {[1 .. n -> NameChars] : n \in 0 .. 4}
MCNeedles == UNION {[1 .. n -> NameChars] : n \in 1 .. 2}

NoJob == [pc |-> "none"]

MCInit ==
  \/ /\ client \in {"map", "cvars", "hooks"} /\ Init
     /\ job = NoJob /\ name = <<>> /\ needle = <<"a">>
  \/ /\ client \in {"text", "names"} /\ Init /\ hash = [k \in Keys |-> 0]
     /\ IF client = "text"
          THEN /\ \E way \in Ways, asked \in Jobs : job = Start(way, asked)
               /\ name = <<>> /\ needle = <<"a">>
          ELSE /\ job = NoJob
               /\ name \in Names /\ needle \in Needles

MCNext ==
  /\ UNCHANGED client
  /\ \/ client = "map" /\ MapNext /\ UNCHANGED <<list, wanted, textVars>>
     \/ client = "cvars" /\ VarsNext /\ UNCHANGED textVars
     \/ client = "hooks" /\ HooksNext /\ UNCHANGED textVars
     \/ client = "text" /\ (Measure \/ Fill) /\ UNCHANGED vars
     \/ client = "names" /\ (ToDirectory \/ ToLastPart) /\ UNCHANGED vars

MCSpec == MCInit /\ [][MCNext]_mcVars

(* As long as every key a client of the map sets has at most 43            *)
(* characters, no operation is undefined (copy_key, the deletion in        *)
(* vd__strmap_get_bin).  And until one is, what strmap_get finds is never  *)
(* stale: copies of a key that collisions left in other bins never         *)
(* resurface, neither after deletions and reuse of its home bin nor after  *)
(* the key itself was deleted.                                             *)
DirectFindsNewest == client = "map" => FoundIsNewest
=============================================================================
