--------------------------- MODULE StringsProofs ----------------------------
(***************************************************************************)
(* The string map and the hooks of the console variables for any keys,     *)
(* values, hash, callbacks and table size; the string slices for any       *)
(* characters and lengths; texts for any format and arguments that match   *)
(* it, and any buffer.                                                     *)
(***************************************************************************)
EXTENDS MCStrings, SequenceTheorems, FiniteSetTheorems, InductionLemmas

-----------------------------------------------------------------------------
(* The string map. A key that is found sits in its home bin; the bin that  *)
(* an insertion takes beyond the home bin is the home of another key, or   *)
(* of none, so what is put there is never found.  A bin has had a key_rest *)
(* only if a long key was set.                                             *)

BinOK(b) ==
  b \in [0 .. CapTotal -> [used : BOOLEAN, key : Keys \cup {NoKey}, v : Values \cup {Unused.v},
                           rest : {"none", "kept", "freed"}]]

RestInv(b, long) == \A i \in 0 .. CapTotal : b[i].rest # "none" => long

Newest(b, h, l) == \A k \in Keys : Found(b, k) => l[k].set /\ b[h[k]].v = l[k].v

MapInv ==
  /\ BinOK(bins) /\ hash \in [Keys -> 0 .. CapTotal] /\ DOMAIN last = Keys
  /\ RestInv(bins, long_set)
  /\ undef => long_set

NewestInv == client = "map" /\ ~undef => Newest(bins, hash, last)

LEMMA CapInTable == 0 .. Cap - 1 \subseteq 0 .. CapTotal
<1>1. CapTotal \in Nat /\ (CapTotal * 86) \div 100 <= CapTotal
  BY StrMapAssumption
<1> QED
  BY <1>1 DEF Cap

LEMMA GreatestSpare ==
  ASSUME NEW b, Spare(b) # {}
  PROVE  Max(Spare(b)) \in Spare(b)
<1>1. CapTotal \in Nat /\ Spare(b) \subseteq 0 .. CapTotal
  BY StrMapAssumption DEF Spare
<1> QED
  BY <1>1, GreatestOf

(* After an insertion a key is found only where it was before, or where it *)
(* was just put: in its home bin.                                          *)
LEMMA SetOpFacts ==
  ASSUME NEW b, BinOK(b), hash \in [Keys -> 0 .. CapTotal], NEW k \in Keys, NEW v \in Values,
         NEW long \in BOOLEAN, RestInv(b, long)
  PROVE  /\ BinOK(SetOp(b, k, v)) /\ RestInv(SetOp(b, k, v), long \/ k \in LongKeys)
         /\ \A x \in Keys : Found(SetOp(b, k, v), x) =>
              IF x = k THEN Creatable(b, k) /\ SetOp(b, k, v)[hash[k]].v = v
                       ELSE Found(b, x) /\ SetOp(b, k, v)[hash[x]].v = b[hash[x]].v
<1> DEFINE i == BinFor(b, k)
           out == SetOp(b, k, v)
           new == [used |-> TRUE, key |-> k, v |-> v,
                   rest |-> IF k \in LongKeys THEN "kept" ELSE b[i].rest]
<1>1. \A x \in Keys : hash[x] \in 0 .. CapTotal
  OBVIOUS
<1>2. CASE ~Creatable(b, k)
  BY <1>2 DEF SetOp, Creatable, RestInv
<1>3. CASE Creatable(b, k)
  <2>1. i \in 0 .. CapTotal /\ (i = hash[k] \/ (b[hash[k]].used /\ b[hash[k]].key # k /\ i # hash[k]))
    <3>1. CASE Found(b, k) \/ ~b[hash[k]].used
      BY <1>1, <3>1 DEF BinFor
    <3>2. CASE ~Found(b, k) /\ b[hash[k]].used
      <4>1. Max(Spare(b)) \in Spare(b)
        BY <1>3, <3>2, GreatestSpare DEF Creatable
      <4>2. i \in 1 .. CapTotal /\ ~b[i].used
        BY <3>2, <4>1 DEF BinFor, Spare
      <4>3. i \in 0 .. CapTotal
        BY <4>2, StrMapAssumption
      <4> QED
        BY <3>2, <4>2, <4>3 DEF Found
    <3> QED
      BY <3>1, <3>2
  <2>2. out = [b EXCEPT ![i] = new]
    BY <1>3 DEF SetOp
  <2>3. new \in [used : BOOLEAN, key : Keys \cup {NoKey}, v : Values \cup {Unused.v},
                 rest : {"none", "kept", "freed"}]
    <3>1. b[i].rest \in {"none", "kept", "freed"}
      BY <2>1 DEF BinOK
    <3> QED
      BY <3>1
  <2>4. new.key = k /\ new.v = v /\ (new.rest # "none" => long \/ k \in LongKeys)
    BY <2>1 DEF RestInv
  <2> HIDE DEF i, out, new
  <2>5. out[i] = new /\ \A j \in 0 .. CapTotal \ {i} : out[j] = b[j]
    BY <2>1, <2>2 DEF BinOK
  <2>6. BinOK(out)
    BY <2>1, <2>2, <2>3 DEF BinOK
  <2>7. RestInv(out, long \/ k \in LongKeys)
    BY <2>4, <2>5 DEF RestInv
  <2>8. ASSUME NEW x \in Keys, Found(out, x)
        PROVE  IF x = k THEN out[hash[k]].v = v ELSE Found(b, x) /\ out[hash[x]].v = b[hash[x]].v
    <3>1. CASE hash[x] = i
      <4>1. x = k
        BY <2>4, <2>5, <2>8, <3>1 DEF Found
      <4> QED
        BY <2>4, <2>5, <3>1, <4>1
    <3>2. CASE hash[x] # i
      <4>1. out[hash[x]] = b[hash[x]]
        BY <1>1, <2>5, <3>2
      <4>2. Found(b, x)
        BY <2>8, <4>1 DEF Found
      <4>3. x # k
        BY <2>1, <3>2, <4>2 DEF Found
      <4> QED
        BY <4>1, <4>2, <4>3
    <3> QED
      BY <3>1, <3>2
  <2> QED
    BY <1>3, <2>6, <2>7, <2>8 DEF out
<1> QED
  BY <1>2, <1>3

(* After a deletion a key is found only where it was before. *)
LEMMA DelOpFacts ==
  ASSUME NEW b, BinOK(b), hash \in [Keys -> 0 .. CapTotal], NEW k \in Keys,
         NEW long, RestInv(b, long)
  PROVE  /\ BinOK(DelOp(b, k)) /\ RestInv(DelOp(b, k), long)
         /\ \A x \in Keys : Found(DelOp(b, k), x) =>
              x # k /\ Found(b, x) /\ DelOp(b, k)[hash[x]].v = b[hash[x]].v
<1> DEFINE i == hash[k]
           out == DelOp(b, k)
           old == b[i]
           new == [used |-> FALSE, key |-> old.key, v |-> old.v,
                   rest |-> IF old.rest = "kept" THEN "freed" ELSE old.rest]
<1>1. CASE ~Found(b, k)
  BY <1>1 DEF DelOp
<1>2. CASE Found(b, k)
  <2>1. i \in 0 .. CapTotal
    OBVIOUS
  <2>2. old \in [used : BOOLEAN, key : Keys \cup {NoKey}, v : Values \cup {Unused.v},
                 rest : {"none", "kept", "freed"}]
    BY <2>1 DEF BinOK
  <2>3. out = [b EXCEPT ![i] = new]
    BY <1>2 DEF DelOp
  <2>4. new.used = FALSE /\ (new.rest # "none" => long)
    BY <2>1 DEF RestInv
  <2>5. new \in [used : BOOLEAN, key : Keys \cup {NoKey}, v : Values \cup {Unused.v},
                 rest : {"none", "kept", "freed"}]
    BY <2>2
  <2> HIDE DEF out, new
  <2>6. out[i] = new /\ \A j \in 0 .. CapTotal \ {i} : out[j] = b[j]
    BY <2>1, <2>3 DEF BinOK
  <2>7. BinOK(out)
    BY <2>1, <2>3, <2>5 DEF BinOK
  <2>8. RestInv(out, long)
    BY <2>4, <2>6 DEF RestInv
  <2>9. ASSUME NEW x \in Keys, Found(out, x)
        PROVE  x # k /\ Found(b, x) /\ out[hash[x]].v = b[hash[x]].v
    <3>1. hash[x] # i /\ hash[x] \in 0 .. CapTotal
      BY <2>4, <2>6, <2>9 DEF Found
    <3> QED
      BY <2>6, <2>9, <3>1 DEF Found
  <2> QED
    BY <2>7, <2>8, <2>9 DEF out
<1> QED
  BY <1>1, <1>2

LEMMA MapInvInit == Init => MapInv /\ Newest(bins, hash, last)
<1> SUFFICES ASSUME Init PROVE MapInv /\ Newest(bins, hash, last)
  OBVIOUS
<1>1. PICK beyond \in BOOLEAN :
        bins = [i \in 0 .. CapTotal |->
                  IF i = CapTotal THEN [Unused EXCEPT !.used = beyond] ELSE Unused]
  BY DEF Init, MapInit
<1>2. /\ BinOK(bins) /\ \A i \in 0 .. CapTotal : bins[i].key = NoKey /\ bins[i].rest = "none"
  BY <1>1 DEF BinOK, Unused
<1>3. hash \in [Keys -> 0 .. CapTotal] /\ DOMAIN last = Keys /\ ~undef
  BY CapInTable DEF Init, MapInit
<1> QED
  BY <1>2, <1>3, StrMapAssumption DEF MapInv, RestInv, Newest, Found

(* vd__strmap_set, by a client of the map or by vd_cvs_set. *)
LEMMA MapInvSet ==
  ASSUME MapInv, NewestInv, long_set \in BOOLEAN, NEW k \in Keys, NEW v \in Values,
         StrMapSet(k, v), client' = client
  PROVE  MapInv' /\ NewestInv'
<1>1. /\ ~undef /\ undef' = Strays(bins, k) /\ hash' = hash
      /\ bins' = IF Strays(bins, k) THEN bins ELSE SetOp(bins, k, v)
      /\ last' = [last EXCEPT ![k] = [set |-> Creatable(bins, k), v |-> v]]
      /\ long_set' = (long_set \/ k \in LongKeys)
  BY DEF StrMapSet
<1>2. last'[k] = [set |-> Creatable(bins, k), v |-> v] /\ DOMAIN last' = Keys
      /\ \A x \in Keys : x # k => last'[x] = last[x]
  BY <1>1 DEF MapInv
<1>3. CASE Strays(bins, k)
  BY <1>1, <1>2, <1>3 DEF MapInv, NewestInv, Strays, RestInv
<1>4. CASE ~Strays(bins, k)
  <2>0. bins' = SetOp(bins, k, v) /\ BinOK(bins) /\ RestInv(bins, long_set)
    BY <1>1, <1>4 DEF MapInv
  <2>1. /\ BinOK(bins') /\ RestInv(bins', long_set \/ k \in LongKeys)
        /\ \A x \in Keys : Found(bins', x) =>
             IF x = k THEN Creatable(bins, k) /\ bins'[hash[k]].v = v
                      ELSE Found(bins, x) /\ bins'[hash[x]].v = bins[hash[x]].v
    BY <2>0, SetOpFacts DEF MapInv
  <2>2. MapInv'
    BY <1>1, <1>2, <1>4, <2>1 DEF MapInv
  <2>3. NewestInv'
    BY <1>1, <1>2, <2>1 DEF NewestInv, Newest, Found
  <2> QED
    BY <2>2, <2>3
<1> QED
  BY <1>3, <1>4

LEMMA MapInvDel ==
  ASSUME MapInv, NewestInv, NEW k \in Keys, StrMapDel(k), client' = client
  PROVE  MapInv' /\ NewestInv'
<1>1. /\ ~undef /\ undef' = FreesAgain(bins, k) /\ hash' = hash /\ long_set' = long_set
      /\ bins' = DelOp(bins, k)
  BY DEF StrMapDel
<1>2. DOMAIN last' = Keys /\ \A x \in Keys : x # k => last'[x] = last[x]
  BY DEF MapInv, StrMapDel
<1>3. /\ BinOK(bins') /\ RestInv(bins', long_set)
      /\ \A x \in Keys : Found(bins', x) =>
           x # k /\ Found(bins, x) /\ bins'[hash[x]].v = bins[hash[x]].v
  <2>1. BinOK(bins) /\ RestInv(bins, long_set) /\ hash \in [Keys -> 0 .. CapTotal]
    BY DEF MapInv
  <2> QED
    BY <1>1, <2>1, DelOpFacts
<1>4. FreesAgain(bins, k) => long_set
  <2>1. hash[k] \in 0 .. CapTotal /\ RestInv(bins, long_set)
    BY DEF MapInv
  <2> QED
    BY <2>1 DEF FreesAgain, RestInv
<1>5. MapInv'
  BY <1>1, <1>2, <1>3, <1>4 DEF MapInv
<1>6. NewestInv'
  BY <1>1, <1>2, <1>3 DEF NewestInv, Newest, Found
<1> QED
  BY <1>5, <1>6

MapTypes == long_set \in BOOLEAN

LEMMA MapInvStep ==
  MapTypes /\ MapInv /\ NewestInv /\ [MCNext]_mcVars => MapTypes' /\ MapInv' /\ NewestInv'
<1> SUFFICES ASSUME MapTypes, MapInv, NewestInv, [MCNext]_mcVars
             PROVE  MapTypes' /\ MapInv' /\ NewestInv'
  OBVIOUS
<1>1. ASSUME NEW k \in Keys, StrMapDel(k), client' = client
      PROVE  MapTypes' /\ MapInv' /\ NewestInv'
  BY <1>1, MapInvDel DEF StrMapDel, MapTypes
<1>2. ASSUME NEW k \in Keys, NEW v \in Values, StrMapSet(k, v), client' = client
      PROVE  MapTypes' /\ MapInv' /\ NewestInv'
  <2>1. MapInv' /\ NewestInv'
    BY <1>2, MapInvSet DEF MapTypes
  <2> QED
    BY <1>2, <2>1 DEF StrMapSet, MapTypes
<1>3. CASE UNCHANGED <<mapVars, client>>
  BY <1>3 DEF mapVars, MapTypes, MapInv, NewestInv, Newest, Found
<1>4. (client = "hooks" /\ HooksNext /\ client' = client) \/ UNCHANGED mcVars => UNCHANGED <<mapVars, client>>
  BY DEF HooksNext, RegisterHook, UnregisterHook, mcVars, vars
<1>5. UNCHANGED vars => UNCHANGED mapVars
  BY DEF vars
<1>6. ASSUME NEW k \in Keys, NEW v \in Values, SetCVar(k, v)
      PROVE  StrMapSet(k, v) \/ UNCHANGED mapVars
  BY <1>6 DEF SetCVar
<1> QED
  BY <1>1, <1>2, <1>3, <1>4, <1>5, <1>6 DEF MCNext, MapNext, VarsNext

(* For any keys, values, hash and table size and under any sequence of     *)
(* strmap_set and strmap_del: while every key set has at most 43           *)
(* characters no operation is undefined, and until one is, strmap_get      *)
(* never finds a stale value.                                              *)
THEOREM MapFindsNewest == MCSpec => []DirectFindsNewest
<1>1. MCInit => Init
  BY DEF MCInit
<1>2. MCInit => MapTypes /\ MapInv /\ NewestInv
  BY <1>1, MapInvInit DEF NewestInv, MapTypes, Init, MapInit
<1>3. MapInv /\ NewestInv => DirectFindsNewest
  BY DEF MapInv, NewestInv, Newest, DirectFindsNewest, FoundIsNewest
<1> QED
  BY <1>2, <1>3, MapInvStep, PTL DEF MCSpec

-----------------------------------------------------------------------------
(* The hooks. *)

At(l, f) == {i \in DOMAIN l : l[i] = f}

Hooks(l) == l \in Seq(Callbacks)

HooksInv ==
  /\ Hooks(list) /\ wanted \in [Callbacks -> Nat]
  /\ OnlyFirstStays

LEMMA AtFinite ==
  ASSUME NEW l, Hooks(l), NEW f
  PROVE  IsFiniteSet(At(l, f)) /\ Cardinality(At(l, f)) \in Nat /\ At(l, f) \subseteq 1 .. Len(l)
<1>1. DOMAIN l = 1 .. Len(l) /\ Len(l) \in Nat
  BY LenProperties DEF Hooks
<1>2. IsFiniteSet(1 .. Len(l)) /\ At(l, f) \subseteq 1 .. Len(l)
  BY <1>1, FS_Interval DEF At
<1>3. IsFiniteSet(At(l, f))
  BY <1>2, FS_Subset
<1> QED
  BY <1>2, <1>3, FS_CardinalityType

LEMMA Appended ==
  ASSUME NEW l, Hooks(l), NEW f \in Callbacks
  PROVE  /\ Hooks(Append(l, f))
         /\ Cardinality(At(Append(l, f), f)) = Cardinality(At(l, f)) + 1
         /\ \A g \in Callbacks \ {f} : At(Append(l, f), g) = At(l, g)
         /\ l # <<>> => Head(Append(l, f)) = Head(l)
<1> DEFINE n == Len(l)
           a == Append(l, f)
<1>1. /\ n \in Nat /\ DOMAIN l = 1 .. n /\ a \in Seq(Callbacks)
      /\ DOMAIN a = 1 .. n + 1 /\ a[n + 1] = f /\ \A i \in 1 .. n : a[i] = l[i]
  BY AppendProperties, LenProperties DEF Hooks
<1> HIDE DEF a
<1>2. /\ At(a, f) = At(l, f) \cup {n + 1} /\ n + 1 \notin At(l, f)
      /\ \A g \in Callbacks \ {f} : At(a, g) = At(l, g)
  BY <1>1 DEF At
<1>3. Cardinality(At(a, f)) = Cardinality(At(l, f)) + 1
  BY <1>2, AtFinite, FS_AddElement
<1>4. l # <<>> => Head(a) = Head(l)
  <2> SUFFICES ASSUME l # <<>> PROVE Head(a) = Head(l)
    OBVIOUS
  <2>1. n # 0
    BY EmptySeq DEF Hooks
  <2>2. Head(l) = l[1] /\ Head(a) = a[1]
    BY <1>1 DEF Hooks
  <2> QED
    BY <1>1, <2>1, <2>2
<1> QED
  BY <1>1, <1>2, <1>3, <1>4 DEF Hooks, a

LEMMA LeastIndex ==
  ASSUME NEW l, Hooks(l), NEW f, At(l, f) # {}
  PROVE  IndexOf(l, f) \in At(l, f)
<1>1. At(l, f) \subseteq Nat
  BY AtFinite, LenProperties DEF Hooks
<1> QED
  BY <1>1, LeastOf DEF IndexOf, At

LEMMA Swapped ==
  ASSUME NEW l, Hooks(l), NEW f \in Callbacks, NEW i \in At(l, f), i # 1
  PROVE  LET s == DelSwap(l, i)
         IN  /\ Hooks(s) /\ Head(s) = Head(l) /\ s # <<>> /\ l # <<>>
             /\ Cardinality(At(s, f)) = Cardinality(At(l, f)) - 1
             /\ \A g \in Callbacks \ {f} : Cardinality(At(s, g)) = Cardinality(At(l, g))
<1> DEFINE n == Len(l)
           e == [l EXCEPT ![i] = Last(l)]
           s == DelSwap(l, i)
<1>1. /\ n \in Nat /\ DOMAIN l = 1 .. n /\ i \in 2 .. n /\ l[i] = f
      /\ \A j \in 1 .. n : l[j] \in Callbacks
  <2>1. n \in Nat /\ DOMAIN l = 1 .. n /\ \A j \in 1 .. n : l[j] \in Callbacks
    BY LenProperties, ElementOfSeq DEF Hooks
  <2> QED
    BY <2>1 DEF At
<1>2. Last(l) = l[n]
  BY DEF Last
<1>3. /\ e \in [1 .. n -> Callbacks] /\ e[i] = l[n] /\ \A j \in 1 .. n : j # i => e[j] = l[j]
  BY <1>1, <1>2 DEF Hooks
<1> HIDE DEF e
<1>4. e \in Seq(Callbacks) /\ Len(e) = n
  BY <1>1, <1>3, SeqDef, LenProperties
<1>5. /\ s \in Seq(Callbacks) /\ Len(s) = n - 1
      /\ \A j \in 1 .. n - 1 : s[j] = e[j]
  <2>1. s = SubSeq(e, 1, n - 1) /\ n - 1 \in Int /\ 1 \in Int
    BY <1>1, <1>4 DEF DelSwap, Front, e
  <2>2. \A j \in 1 .. n - 1 : e[j] \in Callbacks
    BY <1>1, <1>3
  <2>3. /\ SubSeq(e, 1, n - 1) \in Seq(Callbacks)
        /\ Len(SubSeq(e, 1, n - 1)) = IF 1 <= n - 1 THEN n - 1 - 1 + 1 ELSE 0
        /\ \A j \in 1 .. n - 1 - 1 + 1 : SubSeq(e, 1, n - 1)[j] = e[1 + j - 1]
    BY ONLY <2>1, <2>2, SubSeqProperties
  <2> QED
    BY <1>1, <2>1, <2>3
<1> HIDE DEF s
<1>6. DOMAIN s = 1 .. n - 1 /\ \A j \in 1 .. n - 1 : s[j] = IF j = i THEN l[n] ELSE l[j]
  <2>1. DOMAIN s = 1 .. n - 1
    BY <1>5, LenProperties
  <2>2. \A j \in 1 .. n - 1 : j \in 1 .. n
    BY <1>1
  <2> QED
    BY <1>3, <1>5, <2>1, <2>2
<1>7. Head(s) = Head(l) /\ s # <<>> /\ l # <<>>
  <2>1. 1 \in 1 .. n - 1 /\ s[1] = l[1] /\ n # 0 /\ n - 1 # 0
    BY <1>1, <1>6
  <2>2. s # <<>> /\ l # <<>>
    BY <1>5, <2>1, EmptySeq DEF Hooks
  <2>3. Head(s) = s[1] /\ Head(l) = l[1]
    BY <1>5, <2>2 DEF Hooks
  <2> QED
    BY <2>1, <2>2, <2>3
<1>8. Cardinality(At(s, f)) = Cardinality(At(l, f)) - 1
  <2>1. CASE l[n] = f
    <3>1. At(s, f) = At(l, f) \ {n} /\ n \in At(l, f)
      BY <1>1, <1>6, <2>1 DEF At
    <3> QED
      BY <3>1, AtFinite, FS_RemoveElement
  <2>2. CASE l[n] # f
    <3>1. At(s, f) = At(l, f) \ {i} /\ i \in At(l, f)
      BY <1>1, <1>6, <2>2 DEF At
    <3> QED
      BY <3>1, AtFinite, FS_RemoveElement
  <2> QED
    BY <2>1, <2>2
<1>9. ASSUME NEW g \in Callbacks \ {f} PROVE Cardinality(At(s, g)) = Cardinality(At(l, g))
  <2>1. CASE l[n] = g
    <3> DEFINE rest == At(l, g) \ {n}
    <3>1. At(s, g) = rest \cup {i} /\ n \in At(l, g) /\ i \notin rest
      BY <1>1, <1>6, <2>1 DEF At
    <3>2. IsFiniteSet(rest) /\ Cardinality(rest) = Cardinality(At(l, g)) - 1
      BY <3>1, AtFinite, FS_RemoveElement
    <3> HIDE DEF rest
    <3>3. Cardinality(At(s, g)) = Cardinality(rest) + 1
      BY <3>1, <3>2, FS_AddElement
    <3> QED
      BY <3>2, <3>3, AtFinite
  <2>2. CASE l[n] # g
    <3>1. At(s, g) = At(l, g)
      BY <1>1, <1>6, <2>2 DEF At
    <3> QED
      BY <3>1
  <2> QED
    BY <2>1, <2>2
<1> QED
  BY <1>5, <1>7, <1>8, <1>9 DEF Hooks, s

LEMMA HooksInit == Init => HooksInv
<1> SUFFICES ASSUME Init PROVE HooksInv
  OBVIOUS
<1>1. list = <<>> /\ wanted = [f \in Callbacks |-> 0]
  BY DEF Init
<1>2. \A f \in Callbacks : Count(f) = 0
  BY <1>1, FS_EmptySet DEF Count
<1> QED
  BY <1>1, <1>2 DEF HooksInv, Hooks, OnlyFirstStays

LEMMA HooksStep == HooksInv /\ [MCNext]_mcVars => HooksInv'
<1> SUFFICES ASSUME HooksInv, [MCNext]_mcVars PROVE HooksInv'
  OBVIOUS
<1>1. \A f : Count(f) = Cardinality(At(list, f)) /\ Count(f)' = Cardinality(At(list', f))
  BY DEF Count, At
<1>2. /\ Hooks(list) /\ \A f \in Callbacks : wanted[f] \in Nat /\ Cardinality(At(list, f)) \in Nat
      /\ \A f \in Callbacks :
           \/ Cardinality(At(list, f)) = wanted[f]
           \/ Cardinality(At(list, f)) > wanted[f] /\ Head(list) = f
  BY <1>1, AtFinite DEF HooksInv, OnlyFirstStays
<1>3. ASSUME NEW f \in Callbacks, RegisterHook(f) PROVE HooksInv'
  <2>1. list' = Append(list, f) /\ wanted' = [wanted EXCEPT ![f] = @ + 1]
    BY <1>3 DEF RegisterHook
  <2>2. /\ wanted' \in [Callbacks -> Nat] /\ wanted'[f] = wanted[f] + 1
        /\ \A g \in Callbacks \ {f} : wanted'[g] = wanted[g]
    BY <2>1 DEF HooksInv
  <2>3. /\ Hooks(list') /\ Cardinality(At(list', f)) = Cardinality(At(list, f)) + 1
        /\ \A g \in Callbacks \ {f} : At(list', g) = At(list, g)
        /\ list # <<>> => Head(list') = Head(list)
    BY <1>2, <2>1, Appended
  <2>4. list = <<>> => \A g \in Callbacks : Cardinality(At(list, g)) = 0
    BY FS_EmptySet DEF At
  <2>5. \A g \in Callbacks :
          \/ Cardinality(At(list', g)) = wanted'[g]
          \/ Cardinality(At(list', g)) > wanted'[g] /\ Head(list') = g
    BY <1>2, <2>2, <2>3, <2>4
  <2> QED
    BY <1>1, <2>2, <2>3, <2>5 DEF HooksInv, OnlyFirstStays
<1>4. ASSUME NEW f \in Callbacks, UnregisterHook(f) PROVE HooksInv'
  <2>1. /\ wanted[f] > 0 /\ list' = Unsubscribed(list, f)
        /\ wanted' = [wanted EXCEPT ![f] = @ - 1]
    BY <1>4 DEF UnregisterHook
  <2>2. /\ wanted' \in [Callbacks -> Nat] /\ wanted'[f] = wanted[f] - 1
        /\ \A g \in Callbacks \ {f} : wanted'[g] = wanted[g]
    BY <1>2, <2>1 DEF HooksInv
  <2>3. At(list, f) # {}
    <3>1. Cardinality(At(list, f)) # 0
      BY <1>2, <2>1
    <3> QED
      BY <3>1, FS_EmptySet
  <2>4. IndexOf(list, f) \in At(list, f)
    BY <1>2, <2>3, LeastIndex
  <2>5. CASE IndexOf(list, f) = 1
    <3>1. list' = list /\ list # <<>> /\ Head(list) = f
      BY <2>1, <2>4, <2>5 DEF Unsubscribed, At
    <3>2. \A g \in Callbacks :
            \/ Cardinality(At(list', g)) = wanted'[g]
            \/ Cardinality(At(list', g)) > wanted'[g] /\ Head(list') = g
      BY <1>2, <2>2, <3>1
    <3> QED
      BY <1>1, <1>2, <2>2, <3>1, <3>2 DEF HooksInv, OnlyFirstStays
  <2>6. CASE IndexOf(list, f) # 1
    <3>1. list' = DelSwap(list, IndexOf(list, f))
      BY <2>1, <2>6 DEF Unsubscribed
    <3>2. /\ Hooks(list') /\ Head(list') = Head(list)
          /\ Cardinality(At(list', f)) = Cardinality(At(list, f)) - 1
          /\ \A g \in Callbacks \ {f} : Cardinality(At(list', g)) = Cardinality(At(list, g))
      BY <1>2, <2>4, <2>6, <3>1, Swapped
    <3>3. \A g \in Callbacks :
            \/ Cardinality(At(list', g)) = wanted'[g]
            \/ Cardinality(At(list', g)) > wanted'[g] /\ Head(list') = g
      BY <1>2, <2>2, <3>2
    <3> QED
      BY <1>1, <2>2, <3>2, <3>3 DEF HooksInv, OnlyFirstStays
  <2> QED
    BY <2>5, <2>6
<1>5. CASE UNCHANGED <<list, wanted>>
  BY <1>5 DEF HooksInv, OnlyFirstStays, Count
<1>6. VarsNext \/ UNCHANGED vars \/ UNCHANGED mcVars => UNCHANGED <<list, wanted>>
  BY DEF VarsNext, SetCVar, vars, mcVars
<1> QED
  BY <1>3, <1>4, <1>5, <1>6 DEF MCNext, HooksNext

(* VD_HOOK_UNSUBSCRIBE takes away what was registered and nothing else,    *)
(* but for the function at index 0, which it never takes away: for any     *)
(* callbacks and any number of registrations.                              *)
THEOREM OnlyFirstHookStays == MCSpec => []OnlyFirstStays
<1>1. MCInit => HooksInv
  BY HooksInit DEF MCInit
<1>2. HooksInv => OnlyFirstStays
  BY DEF HooksInv
<1> QED
  BY <1>1, <1>2, HooksStep, PTL DEF MCSpec

-----------------------------------------------------------------------------
(* Slices.                                                                 *)

Chars == {"a"} \cup UNION {ToSet(s) : s \in Names \cup Needles}

Slice(s) == s \in Seq(Chars) /\ Len(s) <= MaxU32

NamesInv == Slice(name) /\ Slice(needle) /\ needle # <<>>

LEMMA SliceFacts ==
  ASSUME NEW s, Slice(s)
  PROVE  /\ Len(s) \in Nat /\ DOMAIN s = 1 .. Len(s) /\ Len(s) <= MaxU32 /\ MaxU32 \in Nat
         /\ \A i \in 1 .. Len(s) : s[i] \in Chars
         /\ s \in [1 .. Len(s) -> Chars]
         /\ s # <<>> <=> Len(s) # 0
  BY LenProperties, ElementOfSeq, EmptySeq, TextAssumption DEF Slice

(* A part of a sequence, with its bounds as the slices have them. *)
LEMMA PartOf ==
  ASSUME NEW s, Slice(s), NEW a \in 1 .. Len(s) + 1, NEW b \in 0 .. Len(s), a <= b + 1
  PROVE  /\ SubSeq(s, a, b) \in Seq(Chars) /\ Len(SubSeq(s, a, b)) = b - a + 1
         /\ DOMAIN SubSeq(s, a, b) = 1 .. b - a + 1
         /\ \A i \in 1 .. b - a + 1 : SubSeq(s, a, b)[i] = s[a + i - 1]
<1>1. /\ Len(s) \in Nat /\ a \in Int /\ b \in Int
      /\ \A i \in a .. b : s[i] \in Chars
  <2>1. Len(s) \in Nat /\ \A i \in 1 .. Len(s) : s[i] \in Chars
    BY SliceFacts
  <2> QED
    BY <2>1
<1>2. /\ SubSeq(s, a, b) \in Seq(Chars)
      /\ Len(SubSeq(s, a, b)) = IF a <= b THEN b - a + 1 ELSE 0
      /\ \A i \in 1 .. b - a + 1 : SubSeq(s, a, b)[i] = s[a + i - 1]
  BY ONLY <1>1, SubSeqProperties
<1>3. Len(SubSeq(s, a, b)) = b - a + 1
  BY <1>1, <1>2
<1> QED
  BY <1>2, <1>3, LenProperties

LEMMA SuffixIs ==
  ASSUME NEW s, Slice(s), NEW t, Slice(t)
  PROVE  IsSuffix(s, t) <=>
           Len(s) <= Len(t) /\ \A i \in 1 .. Len(s) : s[i] = t[Len(t) - Len(s) + i]
<1> DEFINE m == Len(s)
           n == Len(t)
           r == Reverse(s)
           q == Reverse(t)
<1>1. /\ m \in Nat /\ n \in Nat
      /\ \A i \in 1 .. m : s[i] \in Chars
      /\ \A i \in 1 .. n : t[i] \in Chars
  BY SliceFacts
<1>2. /\ r = [i \in 1 .. m |-> s[m - i + 1]] /\ q = [i \in 1 .. n |-> t[n - i + 1]]
  BY DEF Reverse
<1> HIDE DEF r, q
<1>3. /\ r \in Seq(Chars) /\ Len(r) = m /\ \A i \in 1 .. m : r[i] = s[m - i + 1]
  <2>1. r \in [1 .. m -> Chars]
    <3>1. \A i \in 1 .. m : m - i + 1 \in 1 .. m
      BY <1>1
    <3> QED
      BY <1>1, <1>2, <3>1
  <2> QED
    BY <1>1, <1>2, <2>1, SeqDef, LenProperties
<1>4. /\ q \in Seq(Chars) /\ Len(q) = n /\ \A i \in 1 .. n : q[i] = t[n - i + 1]
  <2>1. q \in [1 .. n -> Chars]
    <3>1. \A i \in 1 .. n : n - i + 1 \in 1 .. n
      BY <1>1
    <3> QED
      BY <1>1, <1>2, <3>1
  <2> QED
    BY <1>1, <1>2, <2>1, SeqDef, LenProperties
<1>5. IsSuffix(s, t) <=> m <= n /\ SubSeq(r, 1, m) = SubSeq(q, 1, m)
  BY <1>3, <1>4 DEF IsSuffix, IsPrefix, r, q
<1>6. ASSUME m <= n
      PROVE  SubSeq(r, 1, m) = SubSeq(q, 1, m) <=> \A i \in 1 .. m : s[i] = t[n - m + i]
  <2>1. \A i \in 1 .. m : r[i] \in Chars /\ q[i] \in Chars
    <3>1. \A i \in 1 .. m : i \in 1 .. n
      BY <1>1, <1>6
    <3> QED
      BY <1>3, <1>4, <3>1, ElementOfSeq
  <2>2. /\ SubSeq(r, 1, m) \in Seq(Chars) /\ SubSeq(q, 1, m) \in Seq(Chars)
        /\ Len(SubSeq(r, 1, m)) = m /\ Len(SubSeq(q, 1, m)) = m
        /\ \A i \in 1 .. m : SubSeq(r, 1, m)[i] = r[i] /\ SubSeq(q, 1, m)[i] = q[i]
    <3>1. 1 \in Int /\ m \in Int
      BY <1>1
    <3>2. /\ SubSeq(r, 1, m) \in Seq(Chars)
          /\ Len(SubSeq(r, 1, m)) = IF 1 <= m THEN m - 1 + 1 ELSE 0
          /\ \A i \in 1 .. m - 1 + 1 : SubSeq(r, 1, m)[i] = r[1 + i - 1]
      BY ONLY <2>1, <3>1, SubSeqProperties
    <3>3. /\ SubSeq(q, 1, m) \in Seq(Chars)
          /\ Len(SubSeq(q, 1, m)) = IF 1 <= m THEN m - 1 + 1 ELSE 0
          /\ \A i \in 1 .. m - 1 + 1 : SubSeq(q, 1, m)[i] = q[1 + i - 1]
      BY ONLY <2>1, <3>1, SubSeqProperties
    <3> QED
      BY <1>1, <3>2, <3>3
  <2>3. SubSeq(r, 1, m) = SubSeq(q, 1, m) <=> \A i \in 1 .. m : r[i] = q[i]
    BY <2>2, SeqEqual
  <2>4. \A i \in 1 .. m : /\ m - i + 1 \in 1 .. m /\ i \in 1 .. n
                          /\ r[i] = s[m - i + 1] /\ q[i] = t[n - i + 1]
    BY <1>1, <1>3, <1>4, <1>6
  <2>5. ASSUME \A i \in 1 .. m : r[i] = q[i], NEW i \in 1 .. m PROVE s[i] = t[n - m + i]
    <3>1. m - i + 1 \in 1 .. m /\ m - (m - i + 1) + 1 = i /\ n - (m - i + 1) + 1 = n - m + i
      BY <1>1
    <3> QED
      BY <2>4, <2>5, <3>1
  <2>6. ASSUME \A i \in 1 .. m : s[i] = t[n - m + i], NEW i \in 1 .. m PROVE r[i] = q[i]
    <3>1. n - m + (m - i + 1) = n - i + 1
      BY <1>1
    <3> QED
      BY <2>4, <2>6, <3>1
  <2> QED
    BY <2>3, <2>5, <2>6
<1> QED
  BY <1>5, <1>6

(* vd_str_last_of *)
LEMMA LastOfFacts ==
  ASSUME NEW s, Slice(s), NEW c
  PROVE  /\ LastOf(s, c) \in 0 .. Len(s)
         /\ LastOf(s, c) # Len(s) => s[LastOf(s, c) + 1] = c
         /\ \A i \in 1 .. Len(s) : s[i] = c => LastOf(s, c) # Len(s) /\ i <= LastOf(s, c) + 1
<1> DEFINE N == Len(s)
           at == {i \in 0 .. N - 1 : Char(s, i) = c}
           found == LastOf(s, c)
<1>1. N \in Nat /\ at \subseteq 0 .. N /\ \A i \in at : i \in 0 .. N - 1 /\ s[i + 1] = c
  BY SliceFacts DEF Char
<1>2. found = IF at = {} THEN N ELSE Max(at)
  BY DEF LastOf
<1>3. \A i \in 1 .. N : s[i] = c => i - 1 \in at
  <2> TAKE i \in 1 .. N
  <2>1. i - 1 \in 0 .. N - 1 /\ i - 1 + 1 = i
    BY <1>1
  <2> QED
    BY <2>1 DEF Char
<1> HIDE DEF at, found
<1>4. CASE at = {}
  <2>1. found = N /\ \A i \in 1 .. N : s[i] # c
    BY <1>2, <1>3, <1>4
  <2> QED
    BY <1>1, <2>1 DEF found
<1>5. CASE at # {}
  <2>1. Max(at) \in at /\ \A i \in at : i <= Max(at)
    BY <1>1, <1>5, GreatestOf
  <2>2. found \in 0 .. N - 1 /\ s[found + 1] = c
    BY <1>1, <1>2, <1>5, <2>1
  <2>3. \A i \in 1 .. N : s[i] = c => i - 1 <= found
    BY <1>2, <1>3, <1>5, <2>1
  <2>4. found \in 0 .. N /\ found # N
    BY <1>1, <2>2
  <2>5. \A i \in 1 .. N : s[i] = c => i <= found + 1
    BY <1>1, <2>2, <2>3
  <2> QED
    BY <2>2, <2>4, <2>5 DEF found
<1> QED
  BY <1>4, <1>5

Separators == {"/", "\\"}

(* Where the last part of a path begins: behind the last separator. *)
Cut(s) ==
  LET any == LastOfAny(s, <<"/", "\\">>) IN IF any = Len(s) THEN 0 ELSE any + 1

(* vd_str_last_of_any *)
LEMMA CutFacts ==
  ASSUME NEW s, Slice(s)
  PROVE  LET slash == LastOf(s, "/")
             backslash == LastOf(s, "\\")
         IN  /\ Cut(s) \in 0 .. Len(s) /\ LastOfAny(s, <<"/", "\\">>) \in 0 .. Len(s)
             /\ \A i \in Cut(s) + 1 .. Len(s) : s[i] \notin Separators
             /\ slash < Len(s) /\ (backslash < slash \/ backslash = Len(s))
                  => Cut(s) = slash + 1
<1> DEFINE N == Len(s)
           slash == LastOf(s, "/")
           backslash == LastOf(s, "\\")
           cs == <<"/", "\\">>
           hits == {LastOf(s, cs[k]) : k \in DOMAIN cs} \ {N}
           any == LastOfAny(s, cs)
<1>1. /\ N \in Nat /\ slash \in 0 .. N /\ backslash \in 0 .. N
      /\ \A i \in 1 .. N : s[i] = "/" => slash # N /\ i <= slash + 1
      /\ \A i \in 1 .. N : s[i] = "\\" => backslash # N /\ i <= backslash + 1
  BY SliceFacts, LastOfFacts
<1>2. hits = {slash, backslash} \ {N}
  OBVIOUS
<1>3. any = IF hits = {} THEN N ELSE Max(hits)
  BY DEF LastOfAny
<1> HIDE DEF slash, backslash, hits, any
<1>4. /\ hits = {} => slash = N /\ backslash = N
      /\ hits # {} => /\ any \in hits /\ \A i \in hits : i <= any
                      /\ any \in 0 .. N - 1
  <2>1. hits \subseteq 0 .. N /\ \A i \in hits : i \in 0 .. N - 1
    BY <1>1, <1>2
  <2>2. hits # {} => Max(hits) \in hits /\ \A i \in hits : i <= Max(hits)
    BY <1>1, <2>1, GreatestOf
  <2> QED
    BY <1>2, <1>3, <2>1, <2>2
<1>5. Cut(s) = IF hits = {} THEN 0 ELSE any + 1
  <2>1. any = N <=> hits = {}
    BY <1>1, <1>3, <1>4
  <2> QED
    BY <2>1 DEF Cut, any
<1>6. ASSUME NEW i \in Cut(s) + 1 .. N PROVE s[i] \notin Separators
  <2> SUFFICES ASSUME s[i] \in Separators PROVE FALSE
    OBVIOUS
  <2>1. i \in 1 .. N
    BY <1>1, <1>4, <1>5
  <2>2. \E x \in hits : i <= x + 1
    BY <1>1, <1>2, <2>1 DEF Separators
  <2>3. hits # {} /\ i <= any + 1 /\ any \in 0 .. N - 1
    BY <1>1, <1>2, <1>4, <2>1, <2>2
  <2> QED
    BY <1>1, <1>5, <2>3
<1>7. ASSUME slash < N, backslash < slash \/ backslash = N PROVE Cut(s) = slash + 1
  <2>1. slash \in hits /\ \A x \in hits : x \in Int /\ x <= slash
    BY <1>1, <1>2, <1>7
  <2>2. any = slash
    BY <1>1, <1>4, <2>1
  <2> QED
    BY <1>5, <2>1, <2>2
<1>8. Cut(s) \in 0 .. N /\ any \in 0 .. N
  BY <1>1, <1>3, <1>4, <1>5
<1> QED
  BY <1>6, <1>7, <1>8 DEF slash, backslash, any

(* vd_str_path_last_part *)
LEMMA LastPartFacts ==
  ASSUME NEW s, Slice(s)
  PROVE  LET part == PathLastPart(s)
         IN  /\ Slice(part) /\ Len(part) = Len(s) - Cut(s) /\ Cut(s) \in 0 .. Len(s)
             /\ \A i \in 1 .. Len(s) - Cut(s) : part[i] = s[Cut(s) + i]
<1> DEFINE any == LastOfAny(s, <<"/", "\\">>)
           part == PathLastPart(s)
           N == Len(s)
<1>1. N \in Nat /\ N <= MaxU32 /\ MaxU32 \in Nat /\ Cut(s) \in 0 .. N
  BY SliceFacts, CutFacts
<1>2. /\ Cut(s) = IF any = N THEN 0 ELSE any + 1
      /\ part = IF any >= N THEN s ELSE SubSeq(s, any + 2, N)
  BY DEF Cut, PathLastPart, ChopLeft
<1>3. any \in Int
  BY <1>1, CutFacts
<1> HIDE DEF any, part
<1>4. CASE any = N
  <2>1. Cut(s) = 0 /\ part = s
    BY <1>1, <1>2, <1>4
  <2> QED
    BY <1>1, <2>1 DEF part
<1>5. CASE any # N
  <2>1. Cut(s) = any + 1 /\ any + 2 \in 1 .. N + 1 /\ part = SubSeq(s, any + 2, N)
    BY <1>1, <1>2, <1>3, <1>5
  <2>2. any + 2 <= N + 1 /\ N \in 0 .. N
    BY <1>1, <2>1
  <2>3. /\ part \in Seq(Chars) /\ Len(part) = N - (any + 2) + 1
        /\ \A i \in 1 .. N - (any + 2) + 1 : part[i] = s[(any + 2) + i - 1]
    BY <2>1, <2>2, PartOf
  <2>4. N - (any + 2) + 1 = N - Cut(s) /\ N - Cut(s) <= N
    BY <1>1, <1>3, <2>1
  <2>5. \A i \in 1 .. N - Cut(s) : (any + 2) + i - 1 = Cut(s) + i
    BY <1>1, <1>3, <2>1
  <2>6. Slice(part)
    BY <1>1, <2>3, <2>4 DEF Slice
  <2> QED
    BY <1>1, <2>3, <2>4, <2>5, <2>6 DEF part
<1> QED
  BY <1>4, <1>5

(* vd_str_chop_right_last_of *)
LEMMA DirectoryFacts ==
  ASSUME NEW s, Slice(s)
  PROVE  LET slash == LastOf(s, "/")
             part == ChopRightLastOf(s, "/")
         IN  /\ Slice(part) /\ Len(part) = (IF slash = 0 THEN Len(s) ELSE slash)
             /\ \A i \in 1 .. Len(part) : part[i] = s[i]
<1> DEFINE slash == LastOf(s, "/")
           part == ChopRightLastOf(s, "/")
           N == Len(s)
<1>1. N \in Nat /\ N <= MaxU32 /\ MaxU32 \in Nat /\ slash \in 0 .. N
  BY SliceFacts, LastOfFacts
<1>2. part = IF MinusU32(slash, 1) >= N THEN s ELSE SubSeq(s, 1, MinusU32(slash, 1) + 1)
  BY DEF ChopRightLastOf, ChopRight
<1>3. MinusU32(slash, 1) = IF slash >= 1 THEN slash - 1 ELSE MaxU32 + 1 + slash - 1
  BY DEF MinusU32
<1> HIDE DEF slash, part
<1>4. CASE slash = 0
  <2>1. part = s
    BY <1>1, <1>2, <1>3, <1>4
  <2> QED
    BY <1>4, <2>1 DEF slash, part
<1>5. CASE slash # 0
  <2>1. part = SubSeq(s, 1, slash)
    <3>1. MinusU32(slash, 1) = slash - 1 /\ ~(slash - 1 >= N) /\ slash - 1 + 1 = slash
      BY <1>1, <1>3, <1>5
    <3> QED
      BY <1>2, <3>1
  <2>2. /\ part \in Seq(Chars) /\ Len(part) = slash - 1 + 1
        /\ \A i \in 1 .. slash - 1 + 1 : part[i] = s[1 + i - 1]
    <3>1. 1 \in 1 .. N + 1 /\ 1 <= slash + 1
      BY <1>1
    <3> QED
      BY <1>1, <2>1, <3>1, PartOf
  <2>3. Len(part) = slash /\ slash <= MaxU32 /\ \A i \in 1 .. slash : part[i] = s[i]
    BY <1>1, <2>2
  <2>4. Slice(part)
    BY <2>2, <2>3 DEF Slice
  <2> QED
    BY <1>5, <2>3, <2>4 DEF slash, part
<1> QED
  BY <1>4, <1>5

(* A path is its directory, the slash and its last part. *)
LEMMA PutTogether ==
  ASSUME NEW s, Slice(s), LastOf(s, "/") \in 1 .. Len(s) - 1,
         LastOf(s, "\\") < LastOf(s, "/") \/ LastOf(s, "\\") = Len(s)
  PROVE  ChopRightLastOf(s, "/") \o <<"/">> \o PathLastPart(s) = s
<1> DEFINE N == Len(s)
           slash == LastOf(s, "/")
           d == ChopRightLastOf(s, "/")
           p == PathLastPart(s)
           m == <<"/">>
<1>1. N \in Nat /\ slash \in 1 .. N - 1 /\ s[slash + 1] = "/" /\ s[slash + 1] \in Chars
  BY SliceFacts, LastOfFacts
<1>2. d \in Seq(Chars) /\ Len(d) = slash /\ \A i \in 1 .. slash : d[i] = s[i]
  BY <1>1, DirectoryFacts DEF Slice
<1>3. /\ p \in Seq(Chars) /\ Len(p) = N - (slash + 1)
      /\ \A i \in 1 .. N - (slash + 1) : p[i] = s[slash + 1 + i]
  <2>1. Cut(s) = slash + 1
    BY <1>1, CutFacts
  <2> QED
    BY <2>1, LastPartFacts DEF Slice
<1>4. m \in Seq(Chars) /\ Len(m) = 1 /\ m[1] = "/"
  BY <1>1
<1>5. s \in Seq(Chars)
  BY DEF Slice
<1> HIDE DEF d, p, m, slash, N
<1> DEFINE dm == d \o m
<1>6. /\ dm \in Seq(Chars) /\ Len(dm) = slash + 1
      /\ \A i \in 1 .. slash + 1 : dm[i] = s[i]
  <2>0. d \in Seq(Chars) /\ m \in Seq(Chars)
    BY <1>2, <1>4
  <2>1. /\ dm \in Seq(Chars) /\ Len(dm) = Len(d) + Len(m)
        /\ \A i \in 1 .. Len(d) + Len(m) : dm[i] = IF i <= Len(d) THEN d[i] ELSE m[i - Len(d)]
    BY ONLY <2>0, ConcatProperties
  <2> QED
    BY <1>1, <1>2, <1>4, <2>1
<1> HIDE DEF dm
<1> DEFINE all == dm \o p
<1>7. /\ all \in Seq(Chars) /\ Len(all) = N /\ \A i \in 1 .. N : all[i] = s[i]
  <2>1. /\ all \in Seq(Chars) /\ Len(all) = Len(dm) + Len(p)
        /\ \A i \in 1 .. Len(dm) + Len(p) : all[i] = IF i <= Len(dm) THEN dm[i] ELSE p[i - Len(dm)]
    BY <1>3, <1>6, ConcatProperties
  <2> QED
    BY <1>1, <1>3, <1>6, <2>1
<1> HIDE DEF all
<1>8. all = s
  BY <1>5, <1>7, SeqEqual DEF N
<1> QED
  BY <1>8 DEF all, dm, d, m, p

-----------------------------------------------------------------------------
(* vd_str_last_of_s: its passes, and what they keep.                       *)

(* One pass, at the n-th character from the end. *)
Pass(s, c, n, acc) ==
  LET i == Len(s) - n
      left == IF Char(s, i) = Char(c, acc.left - 1) THEN acc.left - 1 ELSE Len(c)
  IN  IF acc.at # Len(s) THEN acc
      ELSE [left |-> left, at |-> IF left = 0 THEN i ELSE acc.at]

Passes(s, c) == [left : 0 .. Len(c), at : 0 .. Len(s)]

(* The characters of c from left on are those of s behind the last n. *)
Seen(s, c, n, acc) ==
  IF acc.at # Len(s)
    THEN /\ acc.at + Len(c) <= Len(s)
         /\ \A j \in 1 .. Len(c) : s[acc.at + j] = c[j]
    ELSE /\ acc.left # 0 /\ Len(c) - acc.left <= n
         /\ \A j \in acc.left + 1 .. Len(c) : s[Len(s) - n + (j - acc.left)] = c[j]

LEMMA PassSees ==
  ASSUME NEW s, Slice(s), NEW c, Slice(c), c # <<>>, NEW n \in 1 .. Len(s),
         NEW acc \in Passes(s, c), Seen(s, c, n - 1, acc)
  PROVE  Pass(s, c, n, acc) \in Passes(s, c) /\ Seen(s, c, n, Pass(s, c, n, acc))
<1> DEFINE N == Len(s)
           m == Len(c)
           out == Pass(s, c, n, acc)
<1>1. N \in Nat /\ m \in Nat \ {0} /\ acc.left \in 0 .. m /\ acc.at \in 0 .. N
  BY SliceFacts DEF Passes
<1>2. CASE acc.at # N
  <2>1. out = acc
    BY <1>2 DEF Pass
  <2> QED
    BY <1>2, <2>1 DEF Seen
<1>3. CASE acc.at = N
  <2>1. /\ acc.left \in 1 .. m /\ m - acc.left <= n - 1
        /\ \A j \in acc.left + 1 .. m : s[N - (n - 1) + (j - acc.left)] = c[j]
    BY <1>1, <1>3 DEF Seen
  <2>2. Char(s, N - n) = s[N - n + 1] /\ Char(c, acc.left - 1) = c[acc.left]
    BY <1>1, <2>1 DEF Char
  <2>3. CASE s[N - n + 1] # c[acc.left]
    <3>1. out = [left |-> m, at |-> N]
      BY <1>1, <1>3, <2>2, <2>3 DEF Pass
    <3>2. m + 1 .. m = {} /\ m - m <= n /\ m \in 0 .. m /\ N \in 0 .. N
      BY <1>1
    <3> QED
      BY <1>1, <3>1, <3>2 DEF Passes, Seen
  <2>4. CASE s[N - n + 1] = c[acc.left]
    <3>1. out = [left |-> acc.left - 1, at |-> IF acc.left - 1 = 0 THEN N - n ELSE N]
      BY <1>3, <2>2, <2>4 DEF Pass
    <3>2. \A j \in acc.left .. m : s[N - n + (j - (acc.left - 1))] = c[j]
      <4> TAKE j \in acc.left .. m
      <4>1. CASE j = acc.left
        <5>1. N - n + (j - (acc.left - 1)) = N - n + 1
          BY <1>1, <2>1, <4>1
        <5> QED
          BY <2>4, <4>1, <5>1
      <4>2. CASE j # acc.left
        <5>1. j \in acc.left + 1 .. m /\ N - n + (j - (acc.left - 1)) = N - (n - 1) + (j - acc.left)
          BY <1>1, <2>1, <4>2
        <5> QED
          BY <2>1, <5>1
      <4> QED
        BY <4>1, <4>2
    <3>3. N - n \in 0 .. N /\ N - n # N
      BY <1>1
    <3>4. CASE acc.left = 1
      <4>1. out.left = 0 /\ out.at = N - n /\ out \in Passes(s, c)
        BY <1>1, <3>1, <3>3, <3>4 DEF Passes
      <4>2. N - n + m <= N
        BY <1>1, <2>1, <3>4
      <4>3. \A j \in 1 .. m : s[N - n + j] = c[j]
        <5>1. \A j \in 1 .. m : N - n + (j - (1 - 1)) = N - n + j
          BY <1>1
        <5> QED
          BY <3>2, <3>4, <5>1
      <4> QED
        BY <3>3, <4>1, <4>2, <4>3 DEF Seen
    <3>5. CASE acc.left # 1
      <4>1. out.left = acc.left - 1 /\ out.at = N /\ out \in Passes(s, c)
        BY <1>1, <2>1, <3>1, <3>5 DEF Passes
      <4>2. acc.left - 1 # 0 /\ m - (acc.left - 1) <= n /\ acc.left - 1 + 1 = acc.left
        BY <1>1, <2>1, <3>5
      <4> QED
        BY <3>2, <4>1, <4>2 DEF Seen
    <3> QED
      BY <3>4, <3>5
  <2> QED
    BY <2>3, <2>4
<1> QED
  BY <1>2, <1>3

(* What every pass keeps is so of the last one. *)
LEMMA LastOfSKeeps ==
  ASSUME NEW s, Slice(s), NEW c, NEW D,
         \A n \in 0 .. Len(s) : D[n] \subseteq Passes(s, c),
         [left |-> Len(c), at |-> Len(s)] \in D[0],
         \A n \in 1 .. Len(s) : \A acc \in D[n - 1] : Pass(s, c, n, acc) \in D[n]
  PROVE  \E acc \in D[Len(s)] : LastOfS(s, c) = acc.at
<1> DEFINE N == Len(s)
           U == Passes(s, c)
           start == [left |-> Len(c), at |-> Len(s)]
           step == [p \in Nat \X U |-> Pass(s, c, p[1], p[2])]
           Defines(f) == f = [n \in 0 .. N |-> IF n = 0 THEN start ELSE Pass(s, c, n, f[n - 1])]
           look == CHOOSE f : Defines(f)
<1>1. N \in Nat
  BY SliceFacts
<1>2. LastOfS(s, c) = look[N].at
  BY DEF LastOfS, Pass
<1>3. \A n \in 1 .. N : n \in Nat /\ n # 0 /\ n \in 0 .. N /\ n - 1 \in 0 .. N
  BY <1>1
<1>4. \A n \in Nat : \A acc \in U : step[<<n, acc>>] = Pass(s, c, n, acc)
  OBVIOUS
<1>5. 0 \in 0 .. N /\ N \in 0 .. N
  BY <1>1
<1>6. /\ \A n \in 0 .. N : D[n] \subseteq U
      /\ start \in D[0]
      /\ \A n \in 1 .. N : \A acc \in D[n - 1] : Pass(s, c, n, acc) \in D[n]
  OBVIOUS
<1> HIDE DEF N, U, start, step
<1>7. \E f : Defines(f)
  <2>1. StepsIn(N, U, D, start, step)
    <3>1. \A n \in 1 .. N : \A acc \in D[n - 1] : step[<<n, acc>>] \in D[n]
      BY <1>3, <1>4, <1>6
    <3> QED
      BY <1>6, <3>1 DEF StepsIn
  <2>2. PICK f : Recurs(f, N, U, start, step)
    BY <1>1, <2>1, Recursion
  <2>3. /\ f \in [0 .. N -> U] /\ f[0] = start
        /\ \A n \in 1 .. N : f[n] = step[<<n, f[n - 1]>>]
    BY <2>2 DEF Recurs
  <2>4. \A n \in 1 .. N : f[n] = Pass(s, c, n, f[n - 1])
    BY <1>3, <1>4, <2>3
  <2> DEFINE g == [n \in 0 .. N |-> IF n = 0 THEN start ELSE Pass(s, c, n, f[n - 1])]
  <2>5. \A n \in 0 .. N : n # 0 => n \in 1 .. N
    BY <1>1
  <2>6. \A n \in 0 .. N : f[n] = g[n]
    BY <2>3, <2>4, <2>5
  <2>7. f = g
    <3>1. f = [n \in 0 .. N |-> f[n]] /\ g = [n \in 0 .. N |-> g[n]]
      BY <2>3
    <3> HIDE DEF g
    <3> QED
      BY <2>6, <3>1
  <2> QED
    BY <2>7
<1>8. Defines(look)
  BY <1>7
<1> HIDE DEF look
<1>9. look[0] = start /\ \A n \in 1 .. N : look[n] = Pass(s, c, n, look[n - 1])
  BY <1>3, <1>5, <1>8
<1>10. \A n \in 0 .. N : look[n] \in D[n]
  <2>1. look[0] \in D[0] /\ \A n \in 1 .. N : look[n - 1] \in D[n - 1] => look[n] \in D[n]
    BY <1>6, <1>9
  <2> QED
    BY <1>1, <2>1, KeptInRange
<1>11. look[N] \in D[N] /\ LastOfS(s, c) = look[N].at
  BY <1>2, <1>5, <1>10
<1> QED
  BY <1>11 DEF N

(* What is found is an occurrence. *)
LEMMA FoundIsThere ==
  ASSUME NEW s, Slice(s), NEW c, Slice(c), c # <<>>
  PROVE  LET found == LastOfS(s, c)
         IN  /\ found \in 0 .. Len(s)
             /\ found # Len(s) => /\ found + Len(c) <= Len(s)
                                  /\ \A j \in 1 .. Len(c) : s[found + j] = c[j]
<1> DEFINE N == Len(s)
           m == Len(c)
           D == [n \in 0 .. N |-> {acc \in Passes(s, c) : Seen(s, c, n, acc)}]
<1>1. N \in Nat /\ m \in Nat \ {0}
  BY SliceFacts
<1>2. \A n \in 0 .. N : D[n] = {acc \in Passes(s, c) : Seen(s, c, n, acc)}
  OBVIOUS
<1> HIDE DEF D
<1>3. [left |-> m, at |-> N] \in D[0]
  <2>1. m + 1 .. m = {} /\ m - m <= 0 /\ m \in 0 .. m /\ N \in 0 .. N /\ 0 \in 0 .. N
    BY <1>1
  <2>2. [left |-> m, at |-> N] \in Passes(s, c)
    BY <2>1 DEF Passes
  <2>3. Seen(s, c, 0, [left |-> m, at |-> N])
    BY <1>1, <2>1 DEF Seen
  <2> QED
    BY <1>2, <2>1, <2>2, <2>3
<1>4. ASSUME NEW n \in 1 .. N, NEW acc \in D[n - 1] PROVE Pass(s, c, n, acc) \in D[n]
  <2>1. n \in 0 .. N /\ n - 1 \in 0 .. N
    BY <1>1
  <2>2. acc \in Passes(s, c) /\ Seen(s, c, n - 1, acc)
    BY <1>2, <2>1
  <2>3. Pass(s, c, n, acc) \in Passes(s, c) /\ Seen(s, c, n, Pass(s, c, n, acc))
    BY <2>2, PassSees
  <2> QED
    BY <1>2, <2>1, <2>3
<1>5. \A n \in 0 .. N : D[n] \subseteq Passes(s, c)
  BY <1>2
<1>6. PICK acc \in D[N] : LastOfS(s, c) = acc.at
  BY <1>3, <1>4, <1>5, LastOfSKeeps
<1>7. acc \in Passes(s, c) /\ Seen(s, c, N, acc)
  BY <1>1, <1>2
<1> QED
  BY <1>6, <1>7 DEF Passes, Seen

(* A slice that ends with c: the first passes see c, backwards. *)
LEMMA FoundAtEnd ==
  ASSUME NEW s, Slice(s), NEW c, Slice(c), c # <<>>, Len(c) <= Len(s),
         \A j \in 1 .. Len(c) : c[j] = s[Len(s) - Len(c) + j]
  PROVE  LastOfS(s, c) = Len(s) - Len(c)
<1> DEFINE N == Len(s)
           m == Len(c)
           Sees(n) == IF n < m THEN [left |-> m - n, at |-> N] ELSE [left |-> 0, at |-> N - m]
           D == [n \in 0 .. N |-> {Sees(n)}]
<1>1. N \in Nat /\ m \in Nat \ {0} /\ m <= N
  BY SliceFacts
<1>2. \A n \in 0 .. N : D[n] = {Sees(n)}
  OBVIOUS
<1> HIDE DEF D
<1>3. \A n \in 0 .. N : Sees(n) \in Passes(s, c)
  <2> TAKE n \in 0 .. N
  <2>1. N \in 0 .. N /\ N - m \in 0 .. N /\ 0 \in 0 .. m /\ (n < m => m - n \in 0 .. m)
    BY <1>1
  <2> QED
    BY <2>1 DEF Passes
<1>4. [left |-> m, at |-> N] \in D[0]
  BY <1>1, <1>2
<1>5. ASSUME NEW n \in 1 .. N PROVE Pass(s, c, n, Sees(n - 1)) = Sees(n)
  <2>1. CASE n - 1 < m
    <3>1. Sees(n - 1) = [left |-> m - (n - 1), at |-> N] /\ m - (n - 1) \in 1 .. m
      BY <1>1, <2>1
    <3>2. N - m + (m - (n - 1)) = N - n + 1 /\ m - (n - 1) - 1 + 1 = m - (n - 1)
      BY <1>1
    <3>3. s[N - n + 1] = c[m - (n - 1)]
      BY <3>1, <3>2
    <3>4. Char(s, N - n) = Char(c, m - (n - 1) - 1)
      BY <3>2, <3>3 DEF Char
    <3>5. Pass(s, c, n, Sees(n - 1))
            = [left |-> m - (n - 1) - 1, at |-> IF m - (n - 1) - 1 = 0 THEN N - n ELSE N]
      BY <3>1, <3>4 DEF Pass
    <3>6. CASE n < m
      <4>1. m - (n - 1) - 1 = m - n /\ m - n # 0
        BY <1>1, <3>6
      <4> QED
        BY <3>5, <3>6, <4>1
    <3>7. CASE ~(n < m)
      <4>1. n = m
        BY <1>1, <2>1, <3>7
      <4>2. m - (n - 1) - 1 = 0 /\ N - n = N - m
        BY <1>1, <4>1
      <4> QED
        BY <3>5, <3>7, <4>2
    <3> QED
      BY <3>6, <3>7
  <2>2. CASE ~(n - 1 < m)
    <3>1. Sees(n - 1) = [left |-> 0, at |-> N - m] /\ Sees(n) = [left |-> 0, at |-> N - m] /\ N - m # N
      BY <1>1, <2>2
    <3> QED
      BY <3>1 DEF Pass
  <2> QED
    BY <2>1, <2>2
<1> HIDE DEF Sees
<1>6. \A n \in 1 .. N : \A acc \in D[n - 1] : Pass(s, c, n, acc) \in D[n]
  <2>1. \A n \in 1 .. N : n \in 0 .. N /\ n - 1 \in 0 .. N
    BY <1>1
  <2> QED
    BY <1>2, <1>5, <2>1
<1>7. \A n \in 0 .. N : D[n] \subseteq Passes(s, c)
  BY <1>2, <1>3
<1>8. PICK acc \in D[N] : LastOfS(s, c) = acc.at
  BY <1>4, <1>6, <1>7, LastOfSKeeps
<1>9. acc = [left |-> 0, at |-> N - m]
  BY <1>1, <1>2, <1>8 DEF Sees
<1> QED
  BY <1>8, <1>9

(* vd_str_ends_with *)
LEMMA EndsWithIs ==
  ASSUME NEW s, Slice(s), NEW c, Slice(c), c # <<>>
  PROVE  EndsWith(s, c) <=> IsSuffix(c, s)
<1> DEFINE N == Len(s)
           m == Len(c)
           found == LastOfS(s, c)
<1>1. /\ N \in Nat /\ m \in Nat \ {0} /\ MaxU32 \in Nat /\ N <= MaxU32 /\ m <= MaxU32
  BY SliceFacts
<1>2. /\ found \in 0 .. N
      /\ found # N => found + m <= N /\ \A j \in 1 .. m : s[found + j] = c[j]
  BY FoundIsThere
<1>3. IsSuffix(c, s) <=> m <= N /\ \A j \in 1 .. m : c[j] = s[N - m + j]
  BY SuffixIs
<1>4. EndsWith(s, c) <=> found = IF N >= m THEN N - m ELSE MaxU32 + 1 + N - m
  BY DEF EndsWith, MinusU32
<1> HIDE DEF N, m, found
<1>5. CASE ~(m <= N)
  <2>1. ~(N >= m) /\ MaxU32 + 1 + N - m > N
    BY <1>1, <1>5
  <2>2. found # MaxU32 + 1 + N - m
    BY <1>1, <1>2, <2>1
  <2> QED
    BY <1>3, <1>4, <1>5, <2>1, <2>2
<1>6. CASE m <= N
  <2>1. EndsWith(s, c) <=> found = N - m
    BY <1>1, <1>4, <1>6
  <2>2. ASSUME found = N - m PROVE \A j \in 1 .. m : c[j] = s[N - m + j]
    <3>1. found # N
      BY <1>1, <2>2
    <3> QED
      BY <1>2, <2>2, <3>1
  <2>3. ASSUME \A j \in 1 .. m : c[j] = s[N - m + j] PROVE found = N - m
    BY <1>6, <2>3, FoundAtEnd DEF N, m, found
  <2> QED
    BY <1>3, <1>6, <2>1, <2>2, <2>3
<1> QED
  BY <1>5, <1>6

LEMMA NamesCome == NamesInv => NamesComeApart
<1> SUFFICES ASSUME NamesInv PROVE NamesComeApart
  OBVIOUS
<1> DEFINE N == Len(name)
           found == LastOfS(name, needle)
           part == PathLastPart(name)
<1>1. Slice(name) /\ Slice(needle) /\ needle # <<>>
  BY DEF NamesInv
<1>2. N \in Nat /\ Len(needle) \in Nat \ {0}
  BY <1>1, SliceFacts
<1>3. /\ LastOf(name, "/") \in 1 .. N - 1
      /\ (LastOf(name, "\\") < LastOf(name, "/") \/ LastOf(name, "\\") = N)
      => ChopRightLastOf(name, "/") \o <<"/">> \o part = name
  BY <1>1, PutTogether
<1>4. /\ Slice(part) /\ Len(part) = N - Cut(name) /\ Cut(name) \in 0 .. N
      /\ \A i \in 1 .. N - Cut(name) : part[i] = name[Cut(name) + i]
  BY <1>1, LastPartFacts
<1>5. ToSet(part) \cap {"/", "\\"} = {}
  <2>1. DOMAIN part = 1 .. N - Cut(name)
    BY <1>4, SliceFacts
  <2>2. \A i \in Cut(name) + 1 .. N : name[i] \notin Separators
    BY <1>1, CutFacts
  <2>3. \A i \in 1 .. N - Cut(name) : Cut(name) + i \in Cut(name) + 1 .. N
    BY <1>2, <1>4
  <2>4. \A i \in DOMAIN part : part[i] \notin {"/", "\\"}
    BY <1>4, <2>1, <2>2, <2>3 DEF Separators
  <2> QED
    BY <2>4 DEF ToSet
<1>6. IsSuffix(part, name)
  <2>1. Len(part) <= N /\ N - Len(part) = Cut(name)
    BY <1>2, <1>4
  <2> HIDE DEF part
  <2>2. IsSuffix(part, name) <=>
          Len(part) <= N /\ \A i \in 1 .. Len(part) : part[i] = name[N - Len(part) + i]
    BY <1>1, <1>4, SuffixIs
  <2> QED
    BY <1>4, <2>1, <2>2
<1>7. EndsWith(name, needle) <=> IsSuffix(needle, name)
  BY <1>1, EndsWithIs
<1>8. ASSUME found # N PROVE SubSeq(name, found + 1, found + Len(needle)) = needle
  <2> DEFINE m == Len(needle)
             a == found + 1
             b == found + m
  <2>1. /\ found \in 0 .. N /\ found + m <= N
        /\ \A j \in 1 .. m : name[found + j] = needle[j]
    BY <1>1, <1>8, FoundIsThere
  <2>2. m \in Nat
    BY <1>2
  <2> HIDE DEF found, m, N
  <2>3. /\ a \in 1 .. N + 1 /\ b \in 0 .. N /\ a <= b + 1 /\ b - a + 1 = m
        /\ \A j \in 1 .. m : a + j - 1 = found + j
    BY <1>2, <2>1, <2>2
  <2> HIDE DEF a, b
  <2> DEFINE there == SubSeq(name, a, b)
  <2>4. /\ there \in Seq(Chars) /\ Len(there) = m
        /\ \A j \in 1 .. m : there[j] = name[a + j - 1]
    BY <1>1, <2>3, PartOf DEF N
  <2>5. needle \in Seq(Chars) /\ \A j \in 1 .. m : there[j] = needle[j]
    BY <1>1, <2>1, <2>3, <2>4 DEF Slice
  <2> HIDE DEF there
  <2>6. there = needle
    BY <2>4, <2>5, SeqEqual DEF m
  <2> QED
    BY <2>6 DEF there, a, b, m, found
<1> QED
  BY <1>3, <1>5, <1>6, <1>7, <1>8 DEF NamesComeApart

LEMMA NamesInit == MCInit => NamesInv
<1> SUFFICES ASSUME MCInit PROVE NamesInv
  OBVIOUS
<1>1. MaxU32 \in Nat \ {0} /\ "a" \in Chars
  BY TextAssumption DEF Chars
<1>2. Slice(<<>>) /\ Slice(<<"a">>) /\ <<"a">> # <<>>
  BY <1>1 DEF Slice
<1>3. \A t \in Names \cup Needles : Slice(t)
  <2> TAKE t \in Names \cup Needles
  <2>1. t \in Seq(ToSet(t)) /\ Len(t) <= MaxU32
    BY TextAssumption
  <2>2. ToSet(t) \subseteq Chars
    BY DEF Chars
  <2>3. t \in Seq(Chars)
    <3>1. /\ Len(t) \in Nat /\ DOMAIN t = 1 .. Len(t) /\ t \in [1 .. Len(t) -> ToSet(t)]
      BY <2>1, LenProperties
    <3>2. t \in [1 .. Len(t) -> Chars]
      BY <2>2, <3>1
    <3> QED
      BY <3>1, <3>2, SeqDef
  <2> QED
    BY <2>1, <2>3 DEF Slice
<1>4. \A t \in Needles : t # <<>>
  BY TextAssumption
<1>5. \/ name = <<>> /\ needle = <<"a">>
      \/ name \in Names /\ needle \in Needles
  BY DEF MCInit
<1> QED
  BY <1>2, <1>3, <1>4, <1>5 DEF NamesInv

LEMMA NamesStep == NamesInv /\ [MCNext]_mcVars => NamesInv'
<1> SUFFICES ASSUME NamesInv, [MCNext]_mcVars PROVE NamesInv'
  OBVIOUS
<1>1. CASE ToDirectory
  <2>1. Slice(ChopRightLastOf(name, "/")) /\ Slice(needle) /\ needle # <<>>
    BY DirectoryFacts DEF NamesInv
  <2> QED
    BY <1>1, <2>1 DEF ToDirectory, NamesInv, Slice, Chars
<1>2. CASE ToLastPart
  <2>1. Slice(PathLastPart(name)) /\ Slice(needle) /\ needle # <<>>
    BY LastPartFacts DEF NamesInv
  <2> QED
    BY <1>2, <2>1 DEF ToLastPart, NamesInv, Slice, Chars
<1>3. CASE UNCHANGED <<name, needle>>
  BY <1>3 DEF NamesInv, Slice, Chars
<1>4. \/ ToDirectory \/ ToLastPart \/ UNCHANGED <<name, needle>>
  BY DEF MCNext, mcVars, textVars, Measure, Fill
<1> QED
  BY <1>1, <1>2, <1>3, <1>4

(* Paths come apart and are found as they should, whatever their           *)
(* characters and their length: vd_str_chop_right_last_of,                 *)
(* vd_str_path_last_part, vd_str_last_of_s, vd_str_ends_with.              *)
THEOREM NamesAlwaysComeApart == MCSpec => []NamesComeApart
<1> QED
  BY NamesInit, NamesStep, NamesCome, PTL DEF MCSpec

-----------------------------------------------------------------------------
(* Integers as texts.                                                      *)

LEMMA MaxIs ==
  ASSUME NEW S, S \subseteq Int, NEW k \in S, \A y \in S : y <= k
  PROVE  Max(S) = k
<1>1. \A y \in S : k >= y
  OBVIOUS
<1>2. Max(S) \in S /\ \A y \in S : Max(S) >= y
  BY <1>1, Zenon DEF Max
<1>3. Max(S) \in Int /\ k \in Int /\ k >= Max(S) /\ Max(S) >= k
  BY <1>1, <1>2
<1> QED
  BY ONLY <1>3, SMT

LEMMA PowersAre ==
  /\ DOMAIN PowersOfTen = 1 .. 5
  /\ PowersOfTen[1] = 1 /\ PowersOfTen[2] = 10 /\ PowersOfTen[3] = 100
  /\ PowersOfTen[4] = 1000 /\ PowersOfTen[5] = 10000
  BY SMT DEF PowersOfTen

(* What 16 bits hold, without a sign. *)
Narrow(a) == a \in Nat /\ a < 65536

Places(a) ==
  IF a < 10 THEN 1 ELSE IF a < 100 THEN 2 ELSE IF a < 1000 THEN 3 ELSE IF a < 10000 THEN 4 ELSE 5

(* The digits of a, the first one first. *)
InDecimals(a) ==
  [i \in 1 .. Places(a) |-> Digit((a \div PowersOfTen[Places(a) - i + 1]) % 10)]

DigitChars == {"0", "1", "2", "3", "4", "5", "6", "7", "8", "9"}

LEMMA DigitIs == \A n \in 0 .. 9 : Digit(n) \in DigitChars
  BY DEF Digit, DigitNames, DigitChars

LEMMA DecimalIs ==
  ASSUME NEW v \in Int, NEW a, Narrow(a), a = IF v < 0 THEN -v ELSE v
  PROVE  Decimal(v) = IF v < 0 THEN <<"-">> \o InDecimals(a) ELSE InDecimals(a)
<1> DEFINE S == {1} \cup {i \in DOMAIN PowersOfTen : a >= PowersOfTen[i]}
           digits == [i \in 1 .. Max(S) |-> Digit((a \div PowersOfTen[Max(S) - i + 1]) % 10)]
<1>1. S = {1} \cup {i \in 1 .. 5 : a >= PowersOfTen[i]}
  BY PowersAre
<1>2. Decimal(v) = IF v < 0 THEN <<"-">> \o digits ELSE digits
  BY Zenon DEF Decimal
<1> HIDE DEF S, digits
<1>3. Places(a) \in S /\ \A i \in S : i <= Places(a)
  BY SMT, <1>1, PowersAre DEF Places, Narrow
<1>4. S \subseteq Int
  BY <1>1
<1>5. Max(S) = Places(a)
  BY <1>3, <1>4, MaxIs
<1>6. digits = InDecimals(a)
  BY <1>5, Zenon DEF InDecimals, digits
<1> QED
  BY <1>2, <1>6, Zenon

LEMMA InDecimalsFacts ==
  ASSUME NEW a, Narrow(a)
  PROVE  /\ InDecimals(a) \in Seq(DigitChars) /\ Len(InDecimals(a)) = Places(a)
         /\ DOMAIN InDecimals(a) = 1 .. Places(a) /\ Places(a) \in 1 .. 5
         /\ \A i \in 1 .. Places(a) :
              InDecimals(a)[i] = Digit((a \div PowersOfTen[Places(a) - i + 1]) % 10)
<1> DEFINE P == Places(a)
           D == InDecimals(a)
<1>1. P \in 1 .. 5
  BY SMT DEF Places, Narrow
<1>2. D = [i \in 1 .. P |-> Digit((a \div PowersOfTen[P - i + 1]) % 10)]
  BY Zenon DEF InDecimals
<1> HIDE DEF P, D
<1>3. \A i \in 1 .. P : (a \div PowersOfTen[P - i + 1]) % 10 \in 0 .. 9
  <2> TAKE i \in 1 .. P
  <2>1. P - i + 1 \in 1 .. 5
    BY <1>1
  <2>2. PowersOfTen[P - i + 1] \in Nat \ {0}
    BY SMT, <2>1, PowersAre
  <2>3. a \div PowersOfTen[P - i + 1] \in Int
    BY SMT, <2>2 DEF Narrow
  <2> QED
    BY SMT, <2>3
<1>4. D \in [1 .. P -> DigitChars]
  BY <1>2, <1>3, DigitIs
<1>5. D \in Seq(DigitChars)
  BY <1>1, <1>4, SeqDef
<1>6. Len(D) = P
  BY <1>1, <1>4, <1>5, LenProperties
<1> QED
  BY <1>1, <1>2, <1>4, <1>5, <1>6 DEF P, D

(* The index into the table of digits fits an intname. *)
IndexFits(spec, n) == spec \in IntSpecs /\ n \in 0 .. 99 /\ (spec = "i8" => n < 64)

LEMMA PairIs ==
  ASSUME NEW spec, NEW n, IndexFits(spec, n)
  PROVE  TwoDigits(Wrap(spec, 2 * n)) = <<Digit(n \div 10), Digit(n % 10)>>
<1>1. Wrap(spec, 2 * n) = 2 * n
  BY SMT DEF IndexFits, IntSpecs, Wrap, Modulus, Signed
<1>2. 2 * n \in 0 .. 198 /\ (2 * n) \div 2 = n
  BY SMT DEF IndexFits
<1> QED
  BY SMT, <1>1, <1>2 DEF TwoDigits

LEMMA TuplesAre ==
  ASSUME NEW D, NEW P \in 1 .. 5, DOMAIN D = 1 .. P, D = [i \in 1 .. P |-> D[i]]
  PROVE  /\ P = 1 => D = <<D[1]>>
         /\ P = 2 => D = <<D[1], D[2]>>
         /\ P = 3 => D = <<D[1]>> \o <<D[2], D[3]>>
         /\ P = 4 => D = <<D[1], D[2]>> \o <<D[3], D[4]>>
         /\ P = 5 => D = <<D[1]>> \o <<D[2], D[3]>> \o <<D[4], D[5]>>
<1>1. P = 1 => D = <<D[1]>>
  BY SMT
<1>2. P = 2 => D = <<D[1], D[2]>>
  BY SMT
<1>3. P = 3 => D = <<D[1]>> \o <<D[2], D[3]>>
  BY SMT
<1>4. P = 4 => D = <<D[1], D[2]>> \o <<D[3], D[4]>>
  BY SMT
<1>5. P = 5 => D = <<D[1]>> \o <<D[2], D[3]>> \o <<D[4], D[5]>>
  BY SMT
<1> QED
  BY <1>1, <1>2, <1>3, <1>4, <1>5

LEMMA PlaceIs ==
  ASSUME NEW a, Narrow(a)
  PROVE  LET D == InDecimals(a)
         IN  /\ a < 10 => Places(a) = 1 /\ D[1] = Digit(a)
             /\ a >= 10 /\ a < 100 => /\ Places(a) = 2
                                      /\ D[1] = Digit(a \div 10) /\ D[2] = Digit(a % 10)
             /\ a >= 100 /\ a < 1000 =>
                  /\ Places(a) = 3
                  /\ D[1] = Digit(a \div 100)
                  /\ D[2] = Digit((a % 100) \div 10) /\ D[3] = Digit((a % 100) % 10)
             /\ a >= 1000 /\ a < 10000 =>
                  /\ Places(a) = 4
                  /\ D[1] = Digit((a \div 100) \div 10) /\ D[2] = Digit((a \div 100) % 10)
                  /\ D[3] = Digit((a % 100) \div 10) /\ D[4] = Digit((a % 100) % 10)
             /\ a >= 10000 =>
                  /\ Places(a) = 5
                  /\ D[1] = Digit(a \div 10000)
                  /\ D[2] = Digit(((a \div 100) % 100) \div 10)
                  /\ D[3] = Digit(((a \div 100) % 100) % 10)
                  /\ D[4] = Digit((a % 100) \div 10) /\ D[5] = Digit((a % 100) % 10)
<1> DEFINE D == InDecimals(a)
           P == Places(a)
           Place(i) == (a \div PowersOfTen[P - i + 1]) % 10
<1>1. P \in 1 .. 5 /\ \A i \in 1 .. P : D[i] = Digit(Place(i))
  BY InDecimalsFacts
<1> HIDE DEF D
<1>2. CASE a < 10
  <2>1. P = 1 /\ Place(1) = a
    BY SMT, <1>2, PowersAre DEF Places, Narrow
  <2> HIDE DEF P, Place
  <2>2. D[1] = Digit(Place(1))
    BY <1>1, <2>1
  <2> QED
    BY SMT, <1>2, <2>1, <2>2 DEF D, P, Narrow
<1>3. CASE a >= 10 /\ a < 100
  <2>1. P = 2 /\ Place(1) = a \div 10 /\ Place(2) = a % 10
    BY SMT, <1>3, PowersAre DEF Places, Narrow
  <2> HIDE DEF P, Place
  <2>2. D[1] = Digit(Place(1)) /\ D[2] = Digit(Place(2))
    BY <1>1, <2>1
  <2> QED
    BY SMT, <1>3, <2>1, <2>2 DEF D, P, Narrow
<1>4. CASE a >= 100 /\ a < 1000
  <2>1. P = 3
    BY SMT, <1>4 DEF Places, Narrow
  <2>2. Place(1) = a \div 100 /\ Place(2) = (a % 100) \div 10 /\ Place(3) = (a % 100) % 10
    BY SMT, <1>4, <2>1, PowersAre DEF Narrow
  <2> HIDE DEF P, Place
  <2>3. D[1] = Digit(Place(1)) /\ D[2] = Digit(Place(2)) /\ D[3] = Digit(Place(3))
    BY <1>1, <2>1
  <2> QED
    BY SMT, <1>4, <2>1, <2>2, <2>3 DEF D, P, Narrow
<1>5. CASE a >= 1000 /\ a < 10000
  <2>1. P = 4
    BY SMT, <1>5 DEF Places, Narrow
  <2>2. /\ Place(1) = (a \div 100) \div 10 /\ Place(2) = (a \div 100) % 10
        /\ Place(3) = (a % 100) \div 10 /\ Place(4) = (a % 100) % 10
    BY SMT, <1>5, <2>1, PowersAre DEF Narrow
  <2> HIDE DEF P, Place
  <2>3. D[1] = Digit(Place(1)) /\ D[2] = Digit(Place(2)) /\ D[3] = Digit(Place(3)) /\ D[4] = Digit(Place(4))
    BY <1>1, <2>1
  <2> QED
    BY SMT, <1>5, <2>1, <2>2, <2>3 DEF D, P, Narrow
<1>6. CASE a >= 10000
  <2>1. P = 5
    BY SMT, <1>6 DEF Places, Narrow
  <2>2. /\ Place(1) = a \div 10000
        /\ Place(2) = ((a \div 100) % 100) \div 10 /\ Place(3) = ((a \div 100) % 100) % 10
        /\ Place(4) = (a % 100) \div 10 /\ Place(5) = (a % 100) % 10
    BY SMT, <1>6, <2>1, PowersAre DEF Narrow
  <2> HIDE DEF P, Place
  <2>3. /\ D[1] = Digit(Place(1)) /\ D[2] = Digit(Place(2)) /\ D[3] = Digit(Place(3))
        /\ D[4] = Digit(Place(4)) /\ D[5] = Digit(Place(5))
    BY <1>1, <2>1
  <2> QED
    BY SMT, <1>6, <2>1, <2>2, <2>3 DEF D, P, Narrow
<1> QED
  BY SMT, <1>2, <1>3, <1>4, <1>5, <1>6 DEF Narrow, D

(* A number without a sign whose pairs of digits are in the table's reach: *)
(* the table has the digits of its decimals.                               *)
LEMMA DigitsAre ==
  ASSUME NEW spec \in IntSpecs, NEW a, Narrow(a),
         spec = "i8" => a < 64 \/ (a >= 100 /\ a < 128)
  PROVE  Digits(spec, a) = InDecimals(a)
<1> DEFINE pair(n) == TwoDigits(Wrap(spec, 2 * n))
           first(n) == IF n < 10 THEN <<Digit(n)>> ELSE pair(n)
           D == InDecimals(a)
           P == Places(a)
<1>1. Digits(spec, a) = IF a < 0 THEN <<"junk">>
                        ELSE IF a < 100 THEN first(a)
                        ELSE IF a < 10000 THEN first(a \div 100) \o pair(a % 100)
                        ELSE first(a \div 10000) \o pair((a \div 100) % 100) \o pair(a % 100)
  BY SMT DEF Digits
<1> HIDE DEF first, pair
<1>0. /\ a < 100 => Digits(spec, a) = first(a)
      /\ a >= 100 /\ a < 10000 => Digits(spec, a) = first(a \div 100) \o pair(a % 100)
      /\ a >= 10000 => Digits(spec, a)
                         = first(a \div 10000) \o pair((a \div 100) % 100) \o pair(a % 100)
  BY SMT, <1>1 DEF Narrow
<1>2. \A n : IndexFits(spec, n) => pair(n) = <<Digit(n \div 10), Digit(n % 10)>>
  BY PairIs, Zenon DEF pair
<1>3. /\ P \in 1 .. 5 /\ DOMAIN D = 1 .. P /\ D = [i \in 1 .. P |-> D[i]]
  BY InDecimalsFacts DEF InDecimals
<1>4. /\ P = 1 => D = <<D[1]>>
      /\ P = 2 => D = <<D[1], D[2]>>
      /\ P = 3 => D = <<D[1]>> \o <<D[2], D[3]>>
      /\ P = 4 => D = <<D[1], D[2]>> \o <<D[3], D[4]>>
      /\ P = 5 => D = <<D[1]>> \o <<D[2], D[3]>> \o <<D[4], D[5]>>
  <2> HIDE DEF D, P
  <2> QED
    BY <1>3, TuplesAre
<1>5. CASE a < 10
  <2>1. P = 1 /\ D[1] = Digit(a)
    BY <1>5, PlaceIs
  <2>2. first(a) = <<Digit(a)>>
    BY <1>5 DEF first
  <2>3. Digits(spec, a) = first(a)
    BY SMT, <1>0, <1>5 DEF Narrow
  <2> HIDE DEF D, P
  <2> QED
    BY <1>4, <2>1, <2>2, <2>3 DEF D
<1> HIDE DEF D, P
<1>6. CASE a >= 10 /\ a < 100
  <2>1. IndexFits(spec, a)
    BY SMT, <1>6 DEF IndexFits, Narrow
  <2>2. P = 2 /\ D[1] = Digit(a \div 10) /\ D[2] = Digit(a % 10)
    BY <1>6, PlaceIs DEF D, P
  <2>3. first(a) = D
    <3>1. ~(a < 10)
      BY SMT, <1>6 DEF Narrow
    <3> QED
      BY <1>2, <1>4, <2>1, <2>2, <3>1 DEF first
  <2>4. Digits(spec, a) = first(a)
    BY SMT, <1>0, <1>6 DEF Narrow
  <2> QED
    BY <2>3, <2>4 DEF D
<1>7. CASE a >= 100 /\ a < 1000
  <2> DEFINE r == a % 100
             q == a \div 100
  <2>1. IndexFits(spec, r) /\ q < 10 /\ ~(a < 0) /\ ~(a < 100) /\ a < 10000
    BY SMT, <1>7 DEF IndexFits, Narrow
  <2>2. P = 3 /\ D[1] = Digit(q) /\ D[2] = Digit(r \div 10) /\ D[3] = Digit(r % 10)
    BY <1>7, PlaceIs DEF D, P
  <2>3. Digits(spec, a) = first(q) \o pair(r)
    BY SMT, <1>0, <1>7 DEF Narrow
  <2> HIDE DEF q, r
  <2>4. first(q) = <<D[1]>> /\ pair(r) = <<D[2], D[3]>>
    BY <1>2, <2>1, <2>2 DEF first
  <2> QED
    BY <1>4, <2>2, <2>3, <2>4 DEF D
<1>8. CASE a >= 1000 /\ a < 10000
  <2> DEFINE r == a % 100
             q == a \div 100
  <2>1. IndexFits(spec, r) /\ IndexFits(spec, q) /\ ~(q < 10) /\ ~(a < 0) /\ ~(a < 100) /\ a < 10000
    BY SMT, <1>8 DEF IndexFits, Narrow
  <2>2. /\ P = 4 /\ D[1] = Digit(q \div 10) /\ D[2] = Digit(q % 10)
        /\ D[3] = Digit(r \div 10) /\ D[4] = Digit(r % 10)
    BY <1>8, PlaceIs DEF D, P
  <2>3. Digits(spec, a) = first(q) \o pair(r)
    BY SMT, <1>0, <1>8 DEF Narrow
  <2> HIDE DEF q, r
  <2>4. first(q) = <<D[1], D[2]>> /\ pair(r) = <<D[3], D[4]>>
    BY <1>2, <2>1, <2>2 DEF first
  <2> QED
    BY <1>4, <2>2, <2>3, <2>4 DEF D
<1>9. CASE a >= 10000
  <2> DEFINE r == a % 100
             q == (a \div 100) % 100
             h == a \div 10000
  <2>1. /\ IndexFits(spec, r) /\ IndexFits(spec, q) /\ h < 10
        /\ ~(a < 0) /\ ~(a < 100) /\ ~(a < 10000)
    BY SMT, <1>9 DEF IndexFits, Narrow
  <2>2. /\ P = 5 /\ D[1] = Digit(h) /\ D[2] = Digit(q \div 10) /\ D[3] = Digit(q % 10)
        /\ D[4] = Digit(r \div 10) /\ D[5] = Digit(r % 10)
    BY <1>9, PlaceIs DEF D, P
  <2>3. Digits(spec, a) = first(h) \o pair(q) \o pair(r)
    BY SMT, <1>0, <1>9 DEF Narrow
  <2> HIDE DEF q, r, h
  <2>4. first(h) = <<D[1]>> /\ pair(q) = <<D[2], D[3]>> /\ pair(r) = <<D[4], D[5]>>
    BY <1>2, <2>1, <2>2 DEF first
  <2> QED
    BY <1>4, <2>2, <2>3, <2>4 DEF D
<1>10. \/ a < 10 \/ (a >= 10 /\ a < 100) \/ (a >= 100 /\ a < 1000)
       \/ (a >= 1000 /\ a < 10000) \/ a >= 10000
  BY SMT DEF Narrow
<1> QED
  BY <1>5, <1>6, <1>7, <1>8, <1>9, <1>10 DEF D

IntChars == DigitChars \cup {"-", "junk"}

LEMMA TwoDigitsAre == \A i \in Int : TwoDigits(i) \in Seq(IntChars)
<1> SUFFICES ASSUME NEW i \in Int PROVE TwoDigits(i) \in Seq(IntChars)
  OBVIOUS
<1>1. \A n \in 0 .. 9 : Digit(n) \in IntChars
  BY DigitIs DEF IntChars
<1>2. CASE i \in 0 .. 198
  <2>1. (i \div 2) \div 10 \in 0 .. 9 /\ (i \div 2) % 10 \in 0 .. 9
    BY SMT, <1>2
  <2> DEFINE a == Digit((i \div 2) \div 10)
             b == Digit((i \div 2) % 10)
  <2>2. a \in IntChars /\ b \in IntChars
    BY <1>1, <2>1
  <2>3. TwoDigits(i) = <<a, b>>
    BY SMT, <1>2 DEF TwoDigits
  <2> HIDE DEF a, b
  <2> QED
    BY <2>2, <2>3
<1>3. CASE i \notin 0 .. 198
  <2>1. TwoDigits(i) = <<"junk", "junk">>
    BY SMT, <1>3 DEF TwoDigits
  <2> QED
    BY <2>1 DEF IntChars
<1> QED
  BY <1>2, <1>3

LEMMA WrapIs ==
  ASSUME NEW spec \in IntSpecs, NEW v \in Int
  PROVE  /\ Wrap(spec, v) \in Int
         /\ spec = "u8" => 0 <= Wrap(spec, v) /\ Wrap(spec, v) < 256
         /\ spec = "i8" => -128 <= Wrap(spec, v) /\ Wrap(spec, v) < 128
         /\ spec = "u16" => 0 <= Wrap(spec, v) /\ Wrap(spec, v) < 65536
         /\ spec = "i16" => -32768 <= Wrap(spec, v) /\ Wrap(spec, v) < 32768
  BY SMT DEF Wrap, Modulus, Signed, IntSpecs

(* Whatever a conversion of an integer writes are characters. *)
LEMMA IntTextIsText ==
  ASSUME NEW spec \in IntSpecs, NEW v \in Int
  PROVE  IntText(spec, v) \in Seq(IntChars)
<1> DEFINE T == Seq(IntChars)
           pair(n) == TwoDigits(Wrap(spec, 2 * n))
           first(n) == IF n < 10 THEN <<Digit(n)>> ELSE pair(n)
<1>1. \A n \in Int : pair(n) \in T
  <2> TAKE n \in Int
  <2>1. 2 * n \in Int
    OBVIOUS
  <2> QED
    BY <2>1, WrapIs, TwoDigitsAre
<1>2. \A n \in Nat : first(n) \in T
  <2> TAKE n \in Nat
  <2> HIDE DEF pair
  <2>1. CASE n < 10
    <3>1. Digit(n) \in IntChars
      BY <2>1, DigitIs DEF IntChars
    <3> QED
      BY <2>1, <3>1
  <2>2. CASE ~(n < 10)
    BY <1>1, <2>2
  <2> QED
    BY <2>1, <2>2
<1>3. \A a, b \in T : a \o b \in T
  OBVIOUS
<1>4. \A w \in Int : Digits(spec, w) \in T
  <2> TAKE w \in Int
  <2>1. Digits(spec, w) = IF w < 0 THEN <<"junk">>
                          ELSE IF w < 100 THEN first(w)
                          ELSE IF w < 10000 THEN first(w \div 100) \o pair(w % 100)
                          ELSE first(w \div 10000) \o pair((w \div 100) % 100) \o pair(w % 100)
    BY SMT DEF Digits
  <2>2. w >= 0 => w \div 100 \in Nat /\ w \div 10000 \in Nat
    BY SMT
  <2>3. w % 100 \in Int /\ (w \div 100) % 100 \in Int
    BY SMT
  <2> HIDE DEF first, pair
  <2>4. <<"junk">> \in T
    BY DEF IntChars
  <2> HIDE DEF T
  <2>5. w >= 0 => first(w) \in T /\ first(w \div 100) \in T /\ first(w \div 10000) \in T
    BY <1>2, <2>2
  <2>6. pair(w % 100) \in T /\ pair((w \div 100) % 100) \in T
    BY <1>1, <2>3
  <2>7. w >= 0 => first(w \div 100) \o pair(w % 100) \in T
    BY <1>3, <2>5, <2>6
  <2>8. w >= 0 => first(w \div 10000) \o pair((w \div 100) % 100) \in T
    BY <1>3, <2>5, <2>6
  <2>9. w >= 0 => first(w \div 10000) \o pair((w \div 100) % 100) \o pair(w % 100) \in T
    BY <1>3, <2>6, <2>8
  <2> QED
    BY SMT, <2>1, <2>4, <2>5, <2>7, <2>9
<1>5. <<"-">> \in T
  BY DEF IntChars
<1>6. -v \in Int /\ Wrap(spec, -v) \in Int
  BY WrapIs
<1>7. IntText(spec, v) = IF v < 0 THEN <<"-">> \o Digits(spec, Wrap(spec, -v)) ELSE Digits(spec, v)
  BY Zenon DEF IntText
<1>8. Digits(spec, v) \in T /\ <<"-">> \o Digits(spec, Wrap(spec, -v)) \in T
  BY <1>3, <1>4, <1>5, <1>6
<1> QED
  BY <1>7, <1>8, Zenon

(* A printable number comes out in decimals, in the room maxdigits gives.  *)
LEMMA PrintableIsExact ==
  ASSUME NEW spec \in IntSpecs, NEW v \in Int, Wrap(spec, v) = v, Printable(spec, v)
  PROVE  /\ IntText(spec, v) = Decimal(v)
         /\ Decimal(v) \in Seq(IntChars) /\ Len(Decimal(v)) <= MaxDigits(spec)
<1> DEFINE a == IF v < 0 THEN -v ELSE v
<1>1. /\ spec = "u8" => 0 <= v /\ v < 256
      /\ spec = "i8" => -128 < v /\ v < 128
      /\ spec = "u16" => 0 <= v /\ v < 65536
      /\ spec = "i16" => -32768 < v /\ v < 32768
  BY SMT, WrapIs DEF Printable, Modulus, Signed
<1>2. Narrow(a) /\ (spec = "i8" => a < 64 \/ (a >= 100 /\ a < 128))
  BY SMT, <1>1 DEF Narrow, Printable, IntSpecs
<1>3. v < 0 => Wrap(spec, -v) = -v
  BY SMT, <1>1 DEF Wrap, Modulus, Signed, IntSpecs
<1>4. /\ Places(a) <= MaxDigits(spec)
      /\ v < 0 => Places(a) + 1 <= MaxDigits(spec)
  BY SMT, <1>1 DEF Places, MaxDigits, Modulus, Signed, IntSpecs
<1>5. Decimal(v) = IF v < 0 THEN <<"-">> \o InDecimals(a) ELSE InDecimals(a)
  BY <1>2, DecimalIs, Zenon
<1>6. Digits(spec, a) = InDecimals(a)
  BY <1>2, DigitsAre, Zenon
<1>7. /\ InDecimals(a) \in Seq(IntChars) /\ Len(InDecimals(a)) = Places(a)
      /\ Places(a) \in 1 .. 5
  <2>1. InDecimals(a) \in Seq(DigitChars)
    BY <1>2, InDecimalsFacts
  <2> HIDE DEF a
  <2>2. InDecimals(a) \in Seq(IntChars)
    BY <2>1 DEF IntChars
  <2> QED
    BY <1>2, <2>2, InDecimalsFacts
<1>8. IntText(spec, v) = IF v < 0 THEN <<"-">> \o Digits(spec, Wrap(spec, -v)) ELSE Digits(spec, v)
  BY Zenon DEF IntText
<1>9. (v < 0 => a = -v) /\ (~(v < 0) => a = v) /\ MaxDigits(spec) \in Nat
  BY SMT DEF MaxDigits, Modulus, IntSpecs
<1> HIDE DEF a
<1>10. CASE v < 0
  <2> DEFINE m == <<"-">>
             d == InDecimals(a)
  <2>1. m \in Seq(IntChars) /\ Len(m) = 1 /\ d \in Seq(IntChars)
    BY <1>7 DEF IntChars
  <2>2. Decimal(v) = m \o d /\ IntText(spec, v) = m \o d
    BY <1>3, <1>5, <1>6, <1>8, <1>9, <1>10
  <2> HIDE DEF m, d
  <2>3. m \o d \in Seq(IntChars) /\ Len(m \o d) = Len(m) + Len(d)
    BY ONLY <2>1, ConcatProperties
  <2> QED
    BY <1>4, <1>7, <1>9, <1>10, <2>1, <2>2, <2>3 DEF d
<1>11. CASE ~(v < 0)
  BY <1>4, <1>5, <1>6, <1>7, <1>8, <1>9, <1>11
<1> QED
  BY <1>10, <1>11

-----------------------------------------------------------------------------
(* Formats. What the proofs say of the loop of vd_fmt_vsnfmt they say of   *)
(* what is so after each item.                                             *)

Begun(args) == [out |-> <<>>, ret |-> 0, args |-> args, failed |-> FALSE]

Runs(after, fmt, n, args, junk) ==
  /\ after[0] = Begun(args)
  /\ \A i \in 1 .. Len(fmt) : after[i] = FormatItem(after[i - 1], fmt[i], n, junk)

LEMMA VsnfmtRuns ==
  ASSUME NEW fmt, Len(fmt) \in Nat, NEW n, NEW args, NEW junk
  PROVE  \E after : /\ Runs(after, fmt, n, args, junk)
                    /\ Vsnfmt(fmt, n, args, junk) = after[Len(fmt)]
<1> DEFINE N == Len(fmt)
           Then(i, acc) == FormatItem(acc, fmt[i], n, junk)
           Defines(f) == f = [i \in 0 .. N |-> IF i = 0 THEN Begun(args) ELSE Then(i, f[i - 1])]
           Up(f, k) == /\ f = [i \in 0 .. N |-> f[i]] /\ f[0] = Begun(args)
                       /\ \A i \in 1 .. k : f[i] = Then(i, f[i - 1])
           S == {k \in 0 .. N : \E f : Up(f, k)}
<1>1. Vsnfmt(fmt, n, args, junk) = (CHOOSE f : Defines(f))[N]
  BY Zenon DEF Vsnfmt, Begun
<1> HIDE DEF Then
<1>2. 0 \in S
  <2> DEFINE f == [i \in 0 .. N |-> Begun(args)]
  <2>1. Up(f, 0)
    OBVIOUS
  <2> HIDE DEF f
  <2> QED
    BY <2>1
<1>3. ASSUME NEW k \in 1 .. N, k - 1 \in S PROVE k \in S
  <2>1. PICK f : Up(f, k - 1)
    BY <1>3
  <2> DEFINE g == [i \in 0 .. N |-> IF i = k THEN Then(k, f[k - 1]) ELSE f[i]]
  <2>2. g = [i \in 0 .. N |-> g[i]] /\ g[k] = Then(k, f[k - 1])
        /\ \A i \in 0 .. N : i # k => g[i] = f[i]
    OBVIOUS
  <2> HIDE DEF g
  <2>3. \A i \in 1 .. k : i \in 0 .. N /\ i - 1 \in 0 .. N /\ i - 1 # k
                          /\ (i # k => i \in 1 .. k - 1)
    OBVIOUS
  <2>4. \A i \in 1 .. k : g[i] = Then(i, g[i - 1])
    BY <2>1, <2>2, <2>3
  <2>5. g[0] = Begun(args)
    BY <2>1, <2>2
  <2>6. Up(g, k)
    BY <2>2, <2>4, <2>5
  <2>7. k \in 0 .. N /\ \E h : Up(h, k)
    <3> HIDE DEF Up
    <3> QED
      BY <2>6
  <2> HIDE DEF Up
  <2> QED
    BY ONLY <2>7
<1>4. PICK f : Up(f, N)
  <2> HIDE DEF S
  <2>1. 0 .. N \subseteq S
    BY <1>2, <1>3, RangeInduction
  <2> QED
    BY <2>1 DEF S
<1>5. \E g : Defines(g)
  <2> DEFINE g == [i \in 0 .. N |-> IF i = 0 THEN Begun(args) ELSE Then(i, f[i - 1])]
  <2>1. \A i \in 0 .. N : f[i] = g[i]
    <3>1. \A i \in 0 .. N : i # 0 => i \in 1 .. N
      OBVIOUS
    <3> QED
      BY <1>4, <3>1
  <2>2. f = g
    <3>1. f = [i \in 0 .. N |-> f[i]] /\ g = [i \in 0 .. N |-> g[i]]
      BY <1>4
    <3> HIDE DEF g
    <3> QED
      BY <2>1, <3>1
  <2> QED
    BY <2>2
<1> DEFINE after == CHOOSE g : Defines(g)
<1>6. Defines(after)
  BY <1>5
<1> HIDE DEF after
<1>7. after[0] = Begun(args) /\ \A i \in 1 .. N : after[i] = Then(i, after[i - 1])
  <2>1. \A i \in 1 .. N : i \in 0 .. N /\ i # 0
    OBVIOUS
  <2> QED
    BY <1>6, <2>1
<1>8. Runs(after, fmt, n, args, junk)
  BY <1>7 DEF Runs, Then
<1> QED
  BY <1>1, <1>8 DEF after

LEMMA TakenFacts ==
  ASSUME NEW fmt, NEW i \in Nat
  PROVE  /\ Taken(fmt, i) \in Nat /\ Taken(fmt, 0) = 0
         /\ Taken(fmt, i + 1) = Taken(fmt, i) + (IF Takes(fmt[i + 1]) THEN 1 ELSE 0)
         /\ \A n \in Nat : i <= n => Taken(fmt, i) <= Taken(fmt, n)
<1> DEFINE T(n) == {j \in 1 .. n : Takes(fmt[j])}
<1>1. \A n \in Nat : IsFiniteSet(T(n)) /\ Cardinality(T(n)) \in Nat
  <2> TAKE n \in Nat
  <2>1. IsFiniteSet(1 .. n) /\ T(n) \subseteq 1 .. n
    BY FS_Interval
  <2> HIDE DEF T
  <2> QED
    BY <2>1, FS_Subset, FS_CardinalityType
<1>2. Taken(fmt, 0) = 0
  <2>1. T(0) = {}
    OBVIOUS
  <2> QED
    BY <2>1, FS_EmptySet DEF Taken
<1>3. Taken(fmt, i + 1) = Taken(fmt, i) + (IF Takes(fmt[i + 1]) THEN 1 ELSE 0)
  <2>1. 1 .. i + 1 = (1 .. i) \cup {i + 1} /\ i + 1 \notin 1 .. i
    OBVIOUS
  <2>2. CASE Takes(fmt[i + 1])
    <3>1. T(i + 1) = T(i) \cup {i + 1} /\ i + 1 \notin T(i)
      BY <2>1, <2>2
    <3> HIDE DEF T
    <3>2. Cardinality(T(i + 1)) = Cardinality(T(i)) + 1
      BY <1>1, <3>1, FS_AddElement
    <3> QED
      BY <2>2, <3>2 DEF Taken, T
  <2>3. CASE ~Takes(fmt[i + 1])
    <3>1. T(i + 1) = T(i)
      BY <2>1, <2>3
    <3> HIDE DEF T
    <3>2. Cardinality(T(i + 1)) = Cardinality(T(i)) + 0
      BY <1>1, <3>1
    <3> QED
      BY <2>3, <3>2 DEF Taken, T
  <2> QED
    BY <2>2, <2>3
<1>4. ASSUME NEW n \in Nat, i <= n PROVE Taken(fmt, i) <= Taken(fmt, n)
  <2>1. T(i) \subseteq T(n)
    BY <1>4
  <2> HIDE DEF T
  <2>2. Cardinality(T(i)) <= Cardinality(T(n))
    BY <1>1, <2>1, FS_Subset
  <2> QED
    BY <2>2 DEF Taken, T
<1>5. Taken(fmt, i) \in Nat
  BY <1>1 DEF Taken
<1> QED
  BY <1>2, <1>3, <1>4, <1>5

LEMMA MatchedFacts ==
  ASSUME NEW asked, Matched(asked)
  PROVE  /\ asked.fmt \in Seq(ToSet(asked.fmt)) /\ asked.args \in Seq(ToSet(asked.args))
         /\ Len(asked.fmt) \in Nat /\ DOMAIN asked.fmt = 1 .. Len(asked.fmt)
         /\ Len(asked.args) \in Nat /\ DOMAIN asked.args = 1 .. Len(asked.args)
         /\ \A i \in 1 .. Len(asked.fmt) :
              /\ asked.fmt[i] \in ToSet(asked.fmt)
              /\ asked.fmt[i] \in IntSpecs => /\ ArgOf(asked, i).type = "int"
                                              /\ ArgOf(asked, i).v \in Int
                                              /\ Wrap(asked.fmt[i], ArgOf(asked, i).v) = ArgOf(asked, i).v
              /\ asked.fmt[i] \in StrSpecs => /\ ArgOf(asked, i).type = "str"
                                              /\ ArgOf(asked, i).v \in Seq(ToSet(ArgOf(asked, i).v))
              /\ Takes(asked.fmt[i]) => /\ Taken(asked.fmt, i) \in 1 .. Len(asked.args)
                                        /\ ArgOf(asked, i) \in ToSet(asked.args)
              /\ Taken(asked.fmt, i - 1) \in Nat /\ Taken(asked.fmt, i) \in Nat
              /\ Taken(asked.fmt, i)
                   = Taken(asked.fmt, i - 1) + (IF Takes(asked.fmt[i]) THEN 1 ELSE 0)
              /\ Taken(asked.fmt, i) <= Len(asked.args)
<1> DEFINE fmt == asked.fmt
           args == asked.args
<1>1. /\ fmt \in Seq(ToSet(fmt)) /\ args \in Seq(ToSet(args))
      /\ Len(args) = Taken(fmt, Len(fmt))
      /\ \A arg \in ToSet(args) : IsArg(arg)
      /\ \A i \in DOMAIN fmt :
           /\ fmt[i] \in IntSpecs => /\ ArgOf(asked, i).type = "int"
                                     /\ Wrap(fmt[i], ArgOf(asked, i).v) = ArgOf(asked, i).v
           /\ fmt[i] \in StrSpecs => ArgOf(asked, i).type = "str"
  BY DEF Matched
<1>2. /\ Len(fmt) \in Nat /\ DOMAIN fmt = 1 .. Len(fmt)
      /\ Len(args) \in Nat /\ DOMAIN args = 1 .. Len(args)
  BY <1>1, LenProperties
<1>3. ASSUME NEW i \in 1 .. Len(fmt)
      PROVE  /\ fmt[i] \in ToSet(fmt)
             /\ Taken(fmt, i - 1) \in Nat /\ Taken(fmt, i) \in Nat
             /\ Taken(fmt, i) = Taken(fmt, i - 1) + (IF Takes(fmt[i]) THEN 1 ELSE 0)
             /\ Taken(fmt, i) <= Len(args)
             /\ Takes(fmt[i]) => /\ Taken(fmt, i) \in 1 .. Len(args)
                                 /\ ArgOf(asked, i) \in ToSet(args)
  <2>1. i \in Nat /\ i - 1 \in Nat /\ i - 1 + 1 = i /\ i <= Len(fmt)
    BY <1>2
  <2> HIDE DEF fmt, args
  <2>2. Taken(fmt, i - 1 + 1) = Taken(fmt, i - 1) + (IF Takes(fmt[i - 1 + 1]) THEN 1 ELSE 0)
    BY <2>1, TakenFacts
  <2>3. Taken(fmt, i - 1) \in Nat /\ Taken(fmt, i) \in Nat /\ Taken(fmt, i) <= Taken(fmt, Len(fmt))
    BY <1>2, <2>1, TakenFacts
  <2>4. fmt[i] \in ToSet(fmt)
    BY <1>2 DEF ToSet
  <2>5. Taken(fmt, i) = Taken(fmt, i - 1) + (IF Takes(fmt[i]) THEN 1 ELSE 0)
    BY <2>1, <2>2
  <2>6. ASSUME Takes(fmt[i])
        PROVE  Taken(fmt, i) \in 1 .. Len(args) /\ ArgOf(asked, i) \in ToSet(args)
    <3>1. Taken(fmt, i) \in 1 .. Len(args)
      BY <1>1, <1>2, <2>3, <2>5, <2>6
    <3> QED
      BY <1>2, <3>1 DEF ToSet, ArgOf, fmt, args
  <2> QED
    BY <1>1, <2>3, <2>4, <2>5, <2>6
<1>4. ASSUME NEW i \in 1 .. Len(fmt)
      PROVE  /\ fmt[i] \in IntSpecs => ArgOf(asked, i).v \in Int
             /\ fmt[i] \in StrSpecs => ArgOf(asked, i).v \in Seq(ToSet(ArgOf(asked, i).v))
  <2>1. fmt[i] \in IntSpecs \cup StrSpecs => IsArg(ArgOf(asked, i))
    BY <1>1, <1>3 DEF Takes
  <2> QED
    BY <1>1, <1>2, <2>1 DEF IsArg
<1> QED
  BY <1>1, <1>2, <1>3, <1>4

(* One conversion, whatever it is handed. *)
LEMMA ConvertFits ==
  ASSUME NEW asked, Matched(asked), NEW c,
         NEW args \in Seq(ToSet(asked.args)), Takes(c) => args # <<>>,
         NEW room \in Nat, NEW junk \in Nat
  PROVE  LET done == Convert(c, room, args, junk)
         IN  /\ Len(done.text) \in Nat /\ Len(done.text) <= room /\ done.len \in Nat
             /\ done.args \in Seq(ToSet(asked.args)) /\ Len(done.args) \in Nat
             /\ Len(done.args) + (IF Takes(c) THEN 1 ELSE 0) >= Len(args)
<1> DEFINE A == ToSet(asked.args)
           Good(done) == /\ Len(done.text) \in Nat /\ Len(done.text) <= room /\ done.len \in Nat
                         /\ done.args \in Seq(A) /\ Len(done.args) \in Nat
                         /\ Len(done.args) + (IF Takes(c) THEN 1 ELSE 0) >= Len(args)
           rest == IF Takes(c) THEN Tail(args) ELSE args
<1>1. Len(args) \in Nat
  BY LenProperties
<1>2. rest \in Seq(A) /\ Len(rest) \in Nat /\ Len(rest) + (IF Takes(c) THEN 1 ELSE 0) >= Len(args)
  <2>1. args \in Seq(A)
    OBVIOUS
  <2> HIDE DEF A
  <2>2. args # <<>> => Tail(args) \in Seq(A) /\ Len(Tail(args)) = Len(args) - 1
    BY <2>1
  <2> QED
    BY <1>1, <2>1, <2>2, LenProperties
<1>3. Takes(c) => Head(args) \in A /\ IsArg(Head(args))
  <2>1. Takes(c) => Head(args) \in A
    OBVIOUS
  <2> QED
    BY <2>1 DEF Matched
<1>4. ASSUME NEW text, Len(text) \in Nat PROVE Good(Written(room, text, rest))
  <2> HIDE DEF rest
  <2>1. Len(<<>>) = 0
    OBVIOUS
  <2> QED
    BY <1>2, <1>4, <2>1 DEF Written
<1> HIDE DEF rest
<1>5. Takes(c) => Good(Misread(room, args, junk))
  <2> DEFINE text == [i \in 1 .. junk |-> "junk"]
  <2>1. text \in Seq({"junk"})
    BY SeqDef
  <2>2. Len(text) \in Nat
    BY <2>1, LenProperties
  <2> HIDE DEF text, Good
  <2> QED
    BY <1>4, <2>2 DEF Misread, rest, text
<1>6. CASE c \in IntSpecs
  <2>1. Takes(c)
    BY <1>6 DEF Takes
  <2>2. Head(args).type = "int" => Head(args).v \in Int
    BY <1>3, <2>1 DEF IsArg
  <2>3. Head(args).type = "int" => Len(IntText(c, Wrap(c, Head(args).v))) \in Nat
    <3> SUFFICES ASSUME Head(args).type = "int" PROVE Len(IntText(c, Wrap(c, Head(args).v))) \in Nat
      OBVIOUS
    <3>1. Wrap(c, Head(args).v) \in Int
      BY <1>6, <2>2, WrapIs
    <3>2. IntText(c, Wrap(c, Head(args).v)) \in Seq(IntChars)
      BY <1>6, <3>1, IntTextIsText
    <3> QED
      BY <3>2, LenProperties
  <2>4. Head(args).type = "int" => Good(Written(room, IntText(c, Wrap(c, Head(args).v)), Tail(args)))
    <3> HIDE DEF Good
    <3> QED
      BY <1>4, <2>1, <2>3 DEF rest
  <2>5. Good([text |-> <<>>, len |-> MaxDigits(c), args |-> args])
    <3>1. MaxDigits(c) \in Nat
      BY <1>6, SMT DEF MaxDigits, IntSpecs, Modulus
    <3> QED
      BY <1>1, <3>1
  <2>6. Convert(c, room, args, junk) = ConvertInt(c, room, args, junk)
    BY <1>6 DEF Convert
  <2> HIDE DEF Good
  <2>7. Good(ConvertInt(c, room, args, junk))
    BY <1>5, <2>1, <2>4, <2>5 DEF ConvertInt
  <2> QED
    BY <2>6, <2>7 DEF Good
<1>7. CASE c \in StrSpecs
  <2>1. Takes(c) /\ c \notin IntSpecs
    BY <1>7 DEF Takes, StrSpecs, IntSpecs
  <2> DEFINE s == Head(args).v
             slash(x) == IF c = "path" /\ x = "\\" THEN "/" ELSE x
             text == [i \in DOMAIN s |-> slash(s[i])]
  <2>2. ASSUME Head(args).type = "str" PROVE Len(text) \in Nat
    <3>1. s \in Seq(ToSet(s))
      BY <1>3, <2>1, <2>2 DEF IsArg
    <3> HIDE DEF s
    <3>2. DOMAIN s = 1 .. Len(s) /\ Len(s) \in Nat
      BY <3>1, LenProperties
    <3>3. text \in Seq({slash(s[i]) : i \in DOMAIN s})
      BY <3>2, SeqDef
    <3> QED
      BY <3>3, LenProperties
  <2>3. Head(args).type = "str" => Good(Written(room, text, Tail(args)))
    <3> SUFFICES ASSUME Head(args).type = "str" PROVE Good(Written(room, text, Tail(args)))
      OBVIOUS
    <3>1. Len(text) \in Nat
      BY <2>2
    <3> HIDE DEF Good, text
    <3> QED
      BY <1>4, <2>1, <3>1 DEF rest
  <2>4. ConvertStr(c, room, args, junk)
          = IF Head(args).type # "str" THEN Misread(room, args, junk) ELSE Written(room, text, Tail(args))
    BY Zenon DEF ConvertStr
  <2>5. Convert(c, room, args, junk) = ConvertStr(c, room, args, junk)
    BY <1>7, <2>1 DEF Convert
  <2> HIDE DEF Good, text
  <2>6. Good(ConvertStr(c, room, args, junk))
    BY <1>5, <2>1, <2>3, <2>4
  <2> QED
    BY <2>5, <2>6 DEF Good
<1>8. CASE c \notin IntSpecs \cup StrSpecs
  <2>1. Convert(c, room, args, junk) = Written(room, <<IF c = "null" THEN "nul" ELSE c>>, rest)
    BY <1>8 DEF Convert, Takes, rest
  <2>2. Len(<<IF c = "null" THEN "nul" ELSE c>>) \in Nat
    OBVIOUS
  <2> QED
    BY <1>4, <2>1, <2>2
<1> QED
  BY <1>6, <1>7, <1>8

LEMMA PutFacts ==
  ASSUME NEW out, NEW at \in Nat, NEW text, Len(text) \in Nat
  PROVE  LET all == Put(out, at, text)
         IN  /\ DOMAIN all = (at + 1 .. at + Len(text)) \cup DOMAIN out
             /\ \A i \in at + 1 .. at + Len(text) : all[i] = text[i - at]
             /\ \A i \in DOMAIN out : i \notin at + 1 .. at + Len(text) => all[i] = out[i]
  BY DEF Put

(* After i items: nothing lies behind the n-th character, and there are    *)
(* arguments for the items to come.                                        *)
InBounds(acc, asked, n, i) ==
  /\ acc = [out |-> acc.out, ret |-> acc.ret, args |-> acc.args, failed |-> acc.failed]
  /\ acc.ret \in Nat /\ DOMAIN acc.out \subseteq 1 .. n
  /\ acc.args \in Seq(ToSet(asked.args))
  /\ Len(acc.args) + Taken(asked.fmt, i) >= Len(asked.args)
  /\ acc.failed <=> \E j \in 1 .. i : asked.fmt[j] = "?"
  /\ acc.failed => acc.ret = 0

LEMMA ItemInBounds ==
  ASSUME NEW asked, Matched(asked), NEW n \in Nat, NEW junk \in Nat,
         NEW i \in 1 .. Len(asked.fmt), NEW acc, InBounds(acc, asked, n, i - 1)
  PROVE  InBounds(FormatItem(acc, asked.fmt[i], n, junk), asked, n, i)
<1> DEFINE c == asked.fmt[i]
           A == ToSet(asked.args)
           next == FormatItem(acc, c, n, junk)
           room == IF n < acc.ret THEN 0 ELSE n - acc.ret
           done == Convert(c, room, acc.args, junk)
           T(k) == Taken(asked.fmt, k)
           step == IF Takes(c) THEN 1 ELSE 0
           Q(k) == \E j \in 1 .. k : asked.fmt[j] = "?"
<1>1. /\ Len(asked.fmt) \in Nat /\ Len(asked.args) \in Nat
      /\ T(i - 1) \in Nat /\ T(i) \in Nat /\ T(i) = T(i - 1) + step /\ T(i) <= Len(asked.args)
  BY MatchedFacts
<1>2. /\ acc = [out |-> acc.out, ret |-> acc.ret, args |-> acc.args, failed |-> acc.failed]
      /\ acc.ret \in Nat /\ DOMAIN acc.out \subseteq 1 .. n
      /\ acc.args \in Seq(A) /\ Len(acc.args) + T(i - 1) >= Len(asked.args)
      /\ acc.failed <=> Q(i - 1)
      /\ acc.failed => acc.ret = 0
  BY DEF InBounds
<1>3. Len(acc.args) \in Nat
  BY <1>2, LenProperties
<1>4. Q(i) <=> Q(i - 1) \/ c = "?"
  BY <1>1
<1>5. next = IF acc.failed THEN acc
             ELSE IF c = "?" THEN [acc EXCEPT !.failed = TRUE, !.ret = 0]
             ELSE [acc EXCEPT !.out = Put(acc.out, acc.ret, done.text),
                              !.ret = acc.ret + done.len, !.args = done.args]
  BY DEF FormatItem
<1>6. room \in Nat
  BY <1>2
<1>7. InBounds(next, asked, n, i) <=>
        /\ next = [out |-> next.out, ret |-> next.ret, args |-> next.args, failed |-> next.failed]
        /\ next.ret \in Nat /\ DOMAIN next.out \subseteq 1 .. n
        /\ next.args \in Seq(A) /\ Len(next.args) + T(i) >= Len(asked.args)
        /\ next.failed <=> Q(i)
        /\ next.failed => next.ret = 0
  BY Zenon DEF InBounds
<1> HIDE DEF T, Q, A, next, c, step, done
<1>8. CASE acc.failed
  <2>1. next = acc /\ Q(i)
    BY <1>2, <1>4, <1>5, <1>8
  <2>2. Len(acc.args) + T(i) >= Len(asked.args)
    BY <1>1, <1>2, <1>3 DEF step
  <2>3. InBounds(next, asked, n, i)
    BY <1>2, <1>7, <1>8, <2>1, <2>2
  <2> QED
    BY <2>3 DEF next, c
<1>9. CASE ~acc.failed /\ c = "?"
  <2>1. next = [acc EXCEPT !.failed = TRUE, !.ret = 0]
    BY <1>5, <1>9
  <2>2. next = [out |-> acc.out, ret |-> 0, args |-> acc.args, failed |-> TRUE]
    BY <1>2, <2>1
  <2>3. Len(acc.args) + T(i) >= Len(asked.args)
    BY <1>1, <1>2, <1>3 DEF step
  <2>4. InBounds(next, asked, n, i)
    BY <1>2, <1>4, <1>7, <1>9, <2>2, <2>3
  <2> QED
    BY <2>4 DEF next, c
<1>10. CASE ~acc.failed /\ c # "?"
  <2>1. next = [acc EXCEPT !.out = Put(acc.out, acc.ret, done.text),
                           !.ret = acc.ret + done.len, !.args = done.args]
    BY <1>5, <1>10
  <2>2. next = [out |-> Put(acc.out, acc.ret, done.text), ret |-> acc.ret + done.len,
                args |-> done.args, failed |-> FALSE]
    <3> DEFINE o == Put(acc.out, acc.ret, done.text)
    <3> HIDE DEF o
    <3>1. next = [acc EXCEPT !.out = o, !.ret = acc.ret + done.len, !.args = done.args]
      BY <2>1 DEF o
    <3>2. acc.failed = FALSE
      BY <1>2, <1>10
    <3>3. next = [out |-> o, ret |-> acc.ret + done.len, args |-> done.args, failed |-> FALSE]
      BY <1>2, <3>1, <3>2
    <3> QED
      BY <3>3 DEF o
  <2>3. Takes(c) => acc.args # <<>>
    <3>1. Takes(c) => Len(acc.args) # 0
      BY <1>1, <1>2, <1>3 DEF step
    <3>2. Len(<<>>) = 0
      OBVIOUS
    <3> QED
      BY <3>1, <3>2
  <2>4. /\ Len(done.text) \in Nat /\ Len(done.text) <= room /\ done.len \in Nat
        /\ done.args \in Seq(A) /\ Len(done.args) \in Nat
        /\ Len(done.args) + step >= Len(acc.args)
    BY <1>2, <1>6, <2>3, ConvertFits DEF done, A, step
  <2>5. DOMAIN Put(acc.out, acc.ret, done.text)
          = (acc.ret + 1 .. acc.ret + Len(done.text)) \cup DOMAIN acc.out
    <3> DEFINE text == done.text
               at == acc.ret
               out == acc.out
    <3>1. at \in Nat /\ Len(text) \in Nat
      BY <1>2, <2>4
    <3> HIDE DEF text, at, out
    <3>2. DOMAIN Put(out, at, text) = (at + 1 .. at + Len(text)) \cup DOMAIN out
      BY ONLY <3>1, PutFacts
    <3> QED
      BY <3>2 DEF text, at, out
  <2> HIDE DEF room
  <2>6. acc.ret + 1 .. acc.ret + Len(done.text) \subseteq 1 .. n
    BY <1>2, <2>4 DEF room
  <2>7. Len(done.args) + T(i) >= Len(asked.args)
    <3>1. step \in Nat
      BY DEF step
    <3>2. /\ Len(acc.args) + T(i - 1) >= Len(asked.args) /\ T(i) = T(i - 1) + step
          /\ Len(done.args) + step >= Len(acc.args)
          /\ Len(done.args) \in Nat /\ Len(acc.args) \in Nat /\ Len(asked.args) \in Nat
          /\ T(i - 1) \in Nat
      BY <1>1, <1>2, <1>3, <2>4
    <3> QED
      BY ONLY <3>1, <3>2, SMT
  <2>8. next.ret \in Nat /\ DOMAIN next.out \subseteq 1 .. n
    BY <1>2, <2>2, <2>4, <2>5, <2>6
  <2>9. InBounds(next, asked, n, i)
    BY <1>2, <1>4, <1>7, <1>10, <2>2, <2>4, <2>7, <2>8
  <2> QED
    BY <2>9 DEF next, c
<1> QED
  BY <1>8, <1>9, <1>10

LEMMA VsnfmtInBounds ==
  ASSUME NEW asked, Matched(asked), NEW n \in Nat, NEW junk \in Nat
  PROVE  LET done == Vsnfmt(asked.fmt, n, asked.args, junk)
         IN  /\ done.ret \in Nat /\ DOMAIN done.out \subseteq 1 .. n
             /\ "?" \in ToSet(asked.fmt) => done.ret = 0
<1> DEFINE N == Len(asked.fmt)
<1>1. N \in Nat /\ asked.args \in Seq(ToSet(asked.args)) /\ DOMAIN asked.fmt = 1 .. N
  BY MatchedFacts
<1>2. PICK after : /\ Runs(after, asked.fmt, n, asked.args, junk)
                   /\ Vsnfmt(asked.fmt, n, asked.args, junk) = after[N]
  BY <1>1, VsnfmtRuns
<1> DEFINE S == {i \in 0 .. N : InBounds(after[i], asked, n, i)}
<1>3. 0 \in S
  <2>1. after[0] = [out |-> <<>>, ret |-> 0, args |-> asked.args, failed |-> FALSE]
    BY <1>2 DEF Runs, Begun
  <2>2. Taken(asked.fmt, 0) = 0 /\ Len(asked.args) \in Nat /\ DOMAIN <<>> = {}
    BY TakenFacts, MatchedFacts
  <2>3. InBounds(after[0], asked, n, 0)
    BY <1>1, <2>1, <2>2 DEF InBounds
  <2> QED
    BY <1>1, <2>3
<1>4. ASSUME NEW i \in 1 .. N, i - 1 \in S PROVE i \in S
  <2>1. after[i] = FormatItem(after[i - 1], asked.fmt[i], n, junk)
    BY <1>2 DEF Runs
  <2>2. InBounds(after[i - 1], asked, n, i - 1)
    BY <1>4
  <2>3. InBounds(after[i], asked, n, i)
    BY <2>1, <2>2, ItemInBounds
  <2> QED
    BY <2>3
<1> HIDE DEF S
<1>5. 0 .. N \subseteq S
  BY <1>1, <1>3, <1>4, RangeInduction
<1>6. InBounds(after[N], asked, n, N)
  BY <1>1, <1>5 DEF S
<1>7. "?" \in ToSet(asked.fmt) => \E j \in 1 .. N : asked.fmt[j] = "?"
  BY <1>1 DEF ToSet
<1> QED
  BY <1>2, <1>6, <1>7 DEF InBounds

(* What the first items of a format mean, and the room they may take. *)
Texts(text, asked) ==
  text[0] = <<>> /\ \A i \in 1 .. Len(asked.fmt) : text[i] = text[i - 1] \o Piece(asked, i)

Widths(width, asked) ==
  width[0] = 0 /\ \A i \in 1 .. Len(asked.fmt) : width[i] = width[i - 1] + Width(asked, i)

LEMMA MeaningRuns ==
  ASSUME NEW asked, Len(asked.fmt) \in Nat, "?" \notin ToSet(asked.fmt)
  PROVE  \E text : Texts(text, asked) /\ Meaning(asked) = text[Len(asked.fmt)]
<1> DEFINE N == Len(asked.fmt)
           none == <<>>
           Then(i, acc) == acc \o Piece(asked, i)
           Defines(f) == f = [i \in 0 .. N |-> IF i = 0 THEN none ELSE Then(i, f[i - 1])]
           Up(f, k) == /\ f = [i \in 0 .. N |-> f[i]] /\ f[0] = none
                       /\ \A i \in 1 .. k : f[i] = Then(i, f[i - 1])
           S == {k \in 0 .. N : \E f : Up(f, k)}
<1>1. Meaning(asked) = (CHOOSE f : Defines(f))[N]
  BY Zenon DEF Meaning
<1> HIDE DEF Then, none
<1>2. 0 \in S
  <2> DEFINE f == [i \in 0 .. N |-> none]
  <2>1. Up(f, 0)
    OBVIOUS
  <2> HIDE DEF f
  <2> QED
    BY <2>1
<1>3. ASSUME NEW k \in 1 .. N, k - 1 \in S PROVE k \in S
  <2>1. PICK f : Up(f, k - 1)
    BY <1>3
  <2> DEFINE g == [i \in 0 .. N |-> IF i = k THEN Then(k, f[k - 1]) ELSE f[i]]
  <2>2. g = [i \in 0 .. N |-> g[i]] /\ g[k] = Then(k, f[k - 1])
        /\ \A i \in 0 .. N : i # k => g[i] = f[i]
    OBVIOUS
  <2> HIDE DEF g
  <2>3. \A i \in 1 .. k : i \in 0 .. N /\ i - 1 \in 0 .. N /\ i - 1 # k
                          /\ (i # k => i \in 1 .. k - 1)
    OBVIOUS
  <2>4. \A i \in 1 .. k : g[i] = Then(i, g[i - 1])
    BY <2>1, <2>2, <2>3
  <2>5. g[0] = none
    <3>1. 0 \in 0 .. N /\ 0 # k
      OBVIOUS
    <3> QED
      BY <2>1, <2>2, <3>1
  <2>6. Up(g, k)
    BY <2>2, <2>4, <2>5
  <2>7. k \in 0 .. N
    OBVIOUS
  <2> HIDE DEF Up
  <2> QED
    BY <2>6, <2>7
<1>4. PICK f : Up(f, N)
  <2> HIDE DEF S
  <2>1. 0 .. N \subseteq S
    BY <1>2, <1>3, RangeInduction
  <2> QED
    BY <2>1 DEF S
<1>5. \E g : Defines(g)
  <2> DEFINE g == [i \in 0 .. N |-> IF i = 0 THEN none ELSE Then(i, f[i - 1])]
  <2>1. \A i \in 0 .. N : f[i] = g[i]
    <3>1. \A i \in 0 .. N : i # 0 => i \in 1 .. N
      OBVIOUS
    <3> QED
      BY <1>4, <3>1
  <2>2. f = g
    <3>1. f = [i \in 0 .. N |-> f[i]] /\ g = [i \in 0 .. N |-> g[i]]
      BY <1>4
    <3> HIDE DEF g
    <3> QED
      BY <2>1, <3>1
  <2> QED
    BY <2>2
<1> DEFINE text == CHOOSE g : Defines(g)
<1>6. Defines(text)
  BY <1>5
<1> HIDE DEF text
<1>7. text[0] = none /\ \A i \in 1 .. N : text[i] = Then(i, text[i - 1])
  <2>1. \A i \in 1 .. N : i \in 0 .. N /\ i # 0
    OBVIOUS
  <2> QED
    BY <1>6, <2>1
<1>8. Texts(text, asked)
  BY <1>7 DEF Texts, Then, none
<1> QED
  BY <1>1, <1>8 DEF text

LEMMA WidestRuns ==
  ASSUME NEW asked, Len(asked.fmt) \in Nat
  PROVE  \E width : Widths(width, asked) /\ Widest(asked) = width[Len(asked.fmt)]
<1> DEFINE N == Len(asked.fmt)
           none == 0
           Then(i, acc) == acc + Width(asked, i)
           Defines(f) == f = [i \in 0 .. N |-> IF i = 0 THEN none ELSE Then(i, f[i - 1])]
           Up(f, k) == /\ f = [i \in 0 .. N |-> f[i]] /\ f[0] = none
                       /\ \A i \in 1 .. k : f[i] = Then(i, f[i - 1])
           S == {k \in 0 .. N : \E f : Up(f, k)}
<1>1. Widest(asked) = (CHOOSE f : Defines(f))[N]
  BY Zenon DEF Widest
<1> HIDE DEF Then, none
<1>2. 0 \in S
  <2> DEFINE f == [i \in 0 .. N |-> none]
  <2>1. Up(f, 0)
    OBVIOUS
  <2> HIDE DEF f
  <2> QED
    BY <2>1
<1>3. ASSUME NEW k \in 1 .. N, k - 1 \in S PROVE k \in S
  <2>1. PICK f : Up(f, k - 1)
    BY <1>3
  <2> DEFINE g == [i \in 0 .. N |-> IF i = k THEN Then(k, f[k - 1]) ELSE f[i]]
  <2>2. g = [i \in 0 .. N |-> g[i]] /\ g[k] = Then(k, f[k - 1])
        /\ \A i \in 0 .. N : i # k => g[i] = f[i]
    OBVIOUS
  <2> HIDE DEF g
  <2>3. \A i \in 1 .. k : i \in 0 .. N /\ i - 1 \in 0 .. N /\ i - 1 # k
                          /\ (i # k => i \in 1 .. k - 1)
    OBVIOUS
  <2>4. \A i \in 1 .. k : g[i] = Then(i, g[i - 1])
    BY <2>1, <2>2, <2>3
  <2>5. g[0] = none
    <3>1. 0 \in 0 .. N /\ 0 # k
      OBVIOUS
    <3> QED
      BY <2>1, <2>2, <3>1
  <2>6. Up(g, k)
    BY <2>2, <2>4, <2>5
  <2>7. k \in 0 .. N
    OBVIOUS
  <2> HIDE DEF Up
  <2> QED
    BY <2>6, <2>7
<1>4. PICK f : Up(f, N)
  <2> HIDE DEF S
  <2>1. 0 .. N \subseteq S
    BY <1>2, <1>3, RangeInduction
  <2> QED
    BY <2>1 DEF S
<1>5. \E g : Defines(g)
  <2> DEFINE g == [i \in 0 .. N |-> IF i = 0 THEN none ELSE Then(i, f[i - 1])]
  <2>1. \A i \in 0 .. N : f[i] = g[i]
    <3>1. \A i \in 0 .. N : i # 0 => i \in 1 .. N
      OBVIOUS
    <3> QED
      BY <1>4, <3>1
  <2>2. f = g
    <3>1. f = [i \in 0 .. N |-> f[i]] /\ g = [i \in 0 .. N |-> g[i]]
      BY <1>4
    <3> HIDE DEF g
    <3> QED
      BY <2>1, <3>1
  <2> QED
    BY <2>2
<1> DEFINE width == CHOOSE g : Defines(g)
<1>6. Defines(width)
  BY <1>5
<1> HIDE DEF width
<1>7. width[0] = none /\ \A i \in 1 .. N : width[i] = Then(i, width[i - 1])
  <2>1. \A i \in 1 .. N : i \in 0 .. N /\ i # 0
    OBVIOUS
  <2> QED
    BY <1>6, <2>1
<1>8. Widths(width, asked)
  BY <1>7 DEF Widths, Then, none
<1> QED
  BY <1>1, <1>8 DEF width

TextChars(asked) ==
  IntChars \cup {"/", "nul"} \cup ToSet(asked.fmt) \cup UNION {ToSet(arg.v) : arg \in ToSet(asked.args)}

CanPrint(asked, i) ==
  asked.fmt[i] \in IntSpecs => Printable(asked.fmt[i], ArgOf(asked, i).v)

LEMMA PieceFacts ==
  ASSUME NEW asked, Matched(asked), NEW i \in 1 .. Len(asked.fmt)
  PROVE  /\ Width(asked, i) \in Nat
         /\ CanPrint(asked, i) => /\ Piece(asked, i) \in Seq(TextChars(asked))
                                  /\ Len(Piece(asked, i)) \in Nat
                                  /\ Len(Piece(asked, i)) <= Width(asked, i)
<1> DEFINE c == asked.fmt[i]
           v == ArgOf(asked, i).v
           C == TextChars(asked)
           piece == Piece(asked, i)
<1>1. /\ c \in ToSet(asked.fmt)
      /\ c \in IntSpecs => v \in Int /\ Wrap(c, v) = v
      /\ c \in StrSpecs => v \in Seq(ToSet(v))
      /\ Takes(c) => ArgOf(asked, i) \in ToSet(asked.args)
  BY MatchedFacts
<1>2. Width(asked, i) = IF c \in IntSpecs THEN MaxDigits(c) ELSE Len(piece)
  BY DEF Width
<1>3. piece = IF c \in IntSpecs THEN Decimal(v)
              ELSE IF c = "str" THEN v
              ELSE IF c = "path" THEN [j \in DOMAIN v |-> IF v[j] = "\\" THEN "/" ELSE v[j]]
              ELSE IF c = "null" THEN <<"nul">> ELSE <<c>>
  BY Zenon DEF Piece
<1>4. CanPrint(asked, i) <=> (c \in IntSpecs => Printable(c, v))
  BY DEF CanPrint
<1>5. \A s \in Seq(C) : Len(s) \in Nat
  BY LenProperties
<1>6. c \in ToSet(asked.fmt) => c \in C
  BY DEF TextChars
<1>7. "nul" \in C /\ "/" \in C
  BY DEF TextChars
<1>8. ToSet(v) \subseteq C \/ ~Takes(c)
  BY <1>1 DEF TextChars
<1>9. \A s \in Seq(IntChars) : s \in Seq(C)
  <2>1. IntChars \subseteq C
    BY DEF TextChars
  <2> HIDE DEF C
  <2> QED
    BY <2>1
<1> HIDE DEF C, piece, c, v
<1>10. CASE c \in IntSpecs
  <2>1. MaxDigits(c) \in Nat
    BY <1>10, SMT DEF MaxDigits, IntSpecs, Modulus
  <2>2. Printable(c, v) => Decimal(v) \in Seq(IntChars) /\ Len(Decimal(v)) <= MaxDigits(c)
    BY <1>1, <1>10, PrintableIsExact
  <2> QED
    BY <1>2, <1>3, <1>4, <1>5, <1>9, <1>10, <2>1, <2>2 DEF piece, C, c
<1>11. CASE c \notin IntSpecs
  <2>1. piece \in Seq(C)
    <3>1. CASE c \in StrSpecs
      <4>1. v \in Seq(ToSet(v)) /\ ToSet(v) \subseteq C
        BY <1>1, <1>8, <3>1 DEF Takes
      <4>2. v \in Seq(C) /\ DOMAIN v = 1 .. Len(v) /\ Len(v) \in Nat /\ \A j \in DOMAIN v : v[j] \in C
        <5>1. v \in Seq(C)
          BY <4>1
        <5> QED
          BY <5>1, LenProperties, ElementOfSeq
      <4> DEFINE w == [j \in DOMAIN v |-> IF v[j] = "\\" THEN "/" ELSE v[j]]
      <4>3. w \in Seq(C)
        <5>1. w \in [1 .. Len(v) -> C]
          BY <1>7, <4>2
        <5> HIDE DEF w
        <5> QED
          BY <4>2, <5>1, SeqDef
      <4> HIDE DEF w
      <4>4. piece = v \/ piece = w
        BY <1>3, <1>11, <3>1 DEF StrSpecs, w
      <4> QED
        BY <4>2, <4>3, <4>4
    <3>2. CASE c \notin StrSpecs
      <4>1. piece = <<"nul">> \/ piece = <<c>>
        BY <1>3, <1>11, <3>2 DEF StrSpecs
      <4>2. \A x \in C : <<x>> \in Seq(C)
        OBVIOUS
      <4>3. c \in C /\ "nul" \in C
        BY <1>1, <1>6, <1>7
      <4> QED
        BY <4>1, <4>2, <4>3
    <3> QED
      BY <3>1, <3>2
  <2>2. Len(piece) \in Nat /\ Width(asked, i) = Len(piece)
    BY <1>2, <1>5, <1>11, <2>1
  <2> QED
    BY <2>1, <2>2 DEF piece, C
<1> QED
  BY <1>10, <1>11

(* What a conversion is handed, and what it makes of it. *)
HasItsArgument(args, asked, i) == Takes(asked.fmt[i]) => Head(args) = ArgOf(asked, i)

PrintedPiece(args, asked, i) ==
  [text |-> Piece(asked, i), len |-> Len(Piece(asked, i)),
   args |-> IF Takes(asked.fmt[i]) THEN Tail(args) ELSE args]

(* A conversion of a string, or of itself, whatever room there is. *)
LEMMA ConvertWrites ==
  ASSUME NEW asked, Matched(asked), NEW i \in 1 .. Len(asked.fmt),
         asked.fmt[i] \notin IntSpecs, NEW args, HasItsArgument(args, asked, i),
         NEW room, NEW junk
  PROVE  Convert(asked.fmt[i], room, args, junk)
           = Written(room, Piece(asked, i), PrintedPiece(args, asked, i).args)
<1> DEFINE c == asked.fmt[i]
           v == ArgOf(asked, i).v
           piece == Piece(asked, i)
           rest == IF Takes(c) THEN Tail(args) ELSE args
<1>1. PrintedPiece(args, asked, i).args = rest
  BY DEF PrintedPiece
<1>2. piece = IF c \in IntSpecs THEN Decimal(v)
              ELSE IF c = "str" THEN v
              ELSE IF c = "path" THEN [j \in DOMAIN v |-> IF v[j] = "\\" THEN "/" ELSE v[j]]
              ELSE IF c = "null" THEN <<"nul">> ELSE <<c>>
  BY Zenon DEF Piece
<1>3. c \in StrSpecs => ArgOf(asked, i).type = "str" /\ v \in Seq(ToSet(v))
  BY MatchedFacts
<1>4. Takes(c) => Head(args).v = v /\ Head(args).type = ArgOf(asked, i).type
  BY DEF HasItsArgument
<1>5. c \notin IntSpecs
  OBVIOUS
<1> HIDE DEF piece, c, v, rest
<1>6. CASE c \in StrSpecs
  <2>1. Takes(c) /\ rest = Tail(args)
    BY <1>6 DEF Takes, rest
  <2> DEFINE s == Head(args).v
             slash(x) == IF c = "path" /\ x = "\\" THEN "/" ELSE x
             text == [k \in DOMAIN s |-> slash(s[k])]
  <2>2. ConvertStr(c, room, args, junk) = Written(room, text, Tail(args))
    <3>1. Head(args).type = "str"
      BY <1>3, <1>4, <1>6, <2>1
    <3> QED
      BY <3>1, Zenon DEF ConvertStr
  <2>3. text = piece
    <3>1. s = v
      BY <1>4, <2>1
    <3>2. CASE c = "str"
      <4>1. v = [k \in DOMAIN v |-> v[k]]
        BY <1>3, <1>6, LenProperties
      <4>2. text = [k \in DOMAIN v |-> v[k]]
        BY <3>1, <3>2
      <4>3. piece = v
        BY <1>2, <1>5, <3>2
      <4> QED
        BY <4>1, <4>2, <4>3
    <3>3. CASE c = "path"
      <4>1. piece = [k \in DOMAIN v |-> IF v[k] = "\\" THEN "/" ELSE v[k]]
        BY <1>2, <1>5, <3>3
      <4>2. text = [k \in DOMAIN v |-> IF v[k] = "\\" THEN "/" ELSE v[k]]
        BY <3>1, <3>3
      <4> QED
        BY <4>1, <4>2
    <3> QED
      BY <1>6, <3>2, <3>3 DEF StrSpecs
  <2>4. Convert(c, room, args, junk) = ConvertStr(c, room, args, junk)
    BY <1>5, <1>6, Zenon DEF Convert
  <2> HIDE DEF text
  <2>5. Convert(c, room, args, junk) = Written(room, piece, rest)
    BY <2>1, <2>2, <2>3, <2>4
  <2> QED
    BY <1>1, <2>5 DEF c, piece
<1>7. CASE c \notin StrSpecs
  <2>1. Convert(c, room, args, junk) = Written(room, <<IF c = "null" THEN "nul" ELSE c>>, args)
    BY <1>5, <1>7, Zenon DEF Convert
  <2>2. piece = <<IF c = "null" THEN "nul" ELSE c>> /\ rest = args
    BY <1>2, <1>5, <1>7 DEF Takes, StrSpecs, rest
  <2> QED
    BY <1>1, <2>1, <2>2 DEF c, piece
<1> QED
  BY <1>6, <1>7

(* A conversion that has the room and its own argument. *)
LEMMA ConvertIsExact ==
  ASSUME NEW asked, Matched(asked), NEW i \in 1 .. Len(asked.fmt), CanPrint(asked, i),
         NEW args, HasItsArgument(args, asked, i),
         NEW room \in Nat, Width(asked, i) <= room, NEW junk
  PROVE  Convert(asked.fmt[i], room, args, junk) = PrintedPiece(args, asked, i)
<1> DEFINE c == asked.fmt[i]
           v == ArgOf(asked, i).v
           piece == Piece(asked, i)
           rest == IF Takes(c) THEN Tail(args) ELSE args
<1>1. PrintedPiece(args, asked, i) = [text |-> piece, len |-> Len(piece), args |-> rest]
  BY DEF PrintedPiece
<1>2. Len(piece) \in Nat /\ Len(piece) <= Width(asked, i) /\ Width(asked, i) \in Nat
  BY PieceFacts
<1>3. Written(room, piece, rest) = [text |-> piece, len |-> Len(piece), args |-> rest]
  <2>1. ~(room < Len(piece))
    BY <1>2
  <2> QED
    BY <2>1 DEF Written
<1>4. CASE c \in IntSpecs
  <2>1. /\ ArgOf(asked, i).type = "int" /\ v \in Int /\ Wrap(c, v) = v /\ Printable(c, v)
        /\ Takes(c) /\ Head(args) = ArgOf(asked, i)
    BY <1>4, MatchedFacts DEF CanPrint, Takes, HasItsArgument
  <2>2. piece = Decimal(v) /\ Width(asked, i) = MaxDigits(c)
    BY <1>4, Zenon DEF Piece, Width
  <2>3. ~(room < MaxDigits(c) - 1)
    BY <1>2, <2>2
  <2>4. IntText(c, Wrap(c, Head(args).v)) = piece
    BY <1>4, <2>1, <2>2, PrintableIsExact
  <2>5. ConvertInt(c, room, args, junk) = Written(room, IntText(c, Wrap(c, Head(args).v)), Tail(args))
    BY <2>1, <2>3, Zenon DEF ConvertInt
  <2>6. Convert(c, room, args, junk) = ConvertInt(c, room, args, junk)
    BY <1>4, Zenon DEF Convert
  <2>7. rest = Tail(args)
    BY <2>1
  <2> HIDE DEF rest, piece, v, c
  <2> QED
    BY <1>1, <1>3, <2>4, <2>5, <2>6, <2>7 DEF c
<1>5. CASE c \notin IntSpecs
  <2>1. Convert(c, room, args, junk) = Written(room, piece, PrintedPiece(args, asked, i).args)
    BY <1>5, ConvertWrites
  <2>2. PrintedPiece(args, asked, i).args = rest
    BY <1>1
  <2> HIDE DEF piece, rest
  <2> QED
    BY <1>1, <1>3, <2>1, <2>2
<1> QED
  BY <1>4, <1>5

(* Without room, an integer does not even take its argument. *)
CountedPiece(done, args, asked, i) ==
  /\ done.len = Width(asked, i)
  /\ asked.fmt[i] \notin IntSpecs => done.args = PrintedPiece(args, asked, i).args

CanCount(args, asked, i) == asked.fmt[i] \notin IntSpecs => HasItsArgument(args, asked, i)

LEMMA ConvertMeasures ==
  ASSUME NEW asked, Matched(asked), NEW i \in 1 .. Len(asked.fmt), NEW args,
         CanCount(args, asked, i), NEW junk
  PROVE  CountedPiece(Convert(asked.fmt[i], 0, args, junk), args, asked, i)
<1> DEFINE c == asked.fmt[i]
<1>1. CASE c \in IntSpecs
  <2>1. MaxDigits(c) \in Nat /\ 0 < MaxDigits(c) - 1
    BY <1>1, SMT DEF MaxDigits, IntSpecs, Modulus
  <2>2. Convert(c, 0, args, junk) = ConvertInt(c, 0, args, junk)
    BY <1>1, Zenon DEF Convert
  <2>3. ConvertInt(c, 0, args, junk) = [text |-> <<>>, len |-> MaxDigits(c), args |-> args]
    BY <2>1, Zenon DEF ConvertInt
  <2>4. Width(asked, i) = MaxDigits(c)
    BY <1>1 DEF Width
  <2> QED
    BY <1>1, <2>2, <2>3, <2>4 DEF CountedPiece
<1>2. CASE c \notin IntSpecs
  <2>1. Convert(c, 0, args, junk) = Written(0, Piece(asked, i), PrintedPiece(args, asked, i).args)
    BY <1>2, ConvertWrites DEF CanCount
  <2>2. Width(asked, i) = Len(Piece(asked, i))
    BY <1>2 DEF Width
  <2>3. \A text, left : Written(0, text, left).len = Len(text) /\ Written(0, text, left).args = left
    BY DEF Written
  <2> QED
    BY <1>2, <2>1, <2>2, <2>3 DEF CountedPiece
<1> QED
  BY <1>1, <1>2

(* What is left of the arguments after i items that all took theirs. *)
Aligned(args, asked, i) ==
  /\ args \in Seq(ToSet(asked.args))
  /\ Len(args) = Len(asked.args) - Taken(asked.fmt, i)
  /\ \A j \in 1 .. Len(args) : args[j] = asked.args[Taken(asked.fmt, i) + j]

LEMMA AlignedAtFirst ==
  ASSUME NEW asked, Matched(asked)
  PROVE  Aligned(asked.args, asked, 0)
<1>1. Taken(asked.fmt, 0) = 0
  BY TakenFacts
<1>2. asked.args \in Seq(ToSet(asked.args)) /\ Len(asked.args) \in Nat
  BY MatchedFacts
<1> QED
  BY <1>1, <1>2 DEF Aligned

LEMMA AlignedStep ==
  ASSUME NEW asked, Matched(asked), NEW i \in 1 .. Len(asked.fmt),
         NEW args, Aligned(args, asked, i - 1)
  PROVE  /\ HasItsArgument(args, asked, i)
         /\ Aligned(IF Takes(asked.fmt[i]) THEN Tail(args) ELSE args, asked, i)
<1> DEFINE A == ToSet(asked.args)
           all == asked.args
           T(k) == Taken(asked.fmt, k)
           takes == Takes(asked.fmt[i])
<1>1. /\ T(i - 1) \in Nat /\ T(i) = T(i - 1) + (IF takes THEN 1 ELSE 0)
      /\ T(i) <= Len(all) /\ Len(all) \in Nat
  BY MatchedFacts
<1>2. /\ args \in Seq(A) /\ Len(args) = Len(all) - T(i - 1)
      /\ \A j \in 1 .. Len(args) : args[j] = all[T(i - 1) + j]
  BY DEF Aligned
<1>3. ArgOf(asked, i) = all[T(i)]
  BY DEF ArgOf
<1>4. \A rest : Aligned(rest, asked, i) <=>
        /\ rest \in Seq(A) /\ Len(rest) = Len(all) - T(i)
        /\ \A j \in 1 .. Len(rest) : rest[j] = all[T(i) + j]
  BY Zenon DEF Aligned
<1> HIDE DEF T, A, all, takes
<1>5. CASE takes
  <2>1. T(i) = T(i - 1) + 1
    BY <1>1, <1>5
  <2>2. Len(args) > 0
    BY <1>1, <1>2, <2>1
  <2>3. args # <<>>
    BY <2>2
  <2>4. /\ Tail(args) \in Seq(A) /\ Len(Tail(args)) = Len(args) - 1
        /\ \A j \in 1 .. Len(Tail(args)) : Tail(args)[j] = args[j + 1]
    BY <1>2, <2>3, HeadTailProperties
  <2>5. Head(args) = args[1]
    BY <1>2, <2>3
  <2>6. Head(args) = ArgOf(asked, i)
    <3>1. 1 \in 1 .. Len(args)
      BY <1>1, <1>2, <2>2
    <3> QED
      BY <1>2, <1>3, <2>1, <2>5, <3>1
  <2>7. Len(Tail(args)) = Len(all) - T(i)
    BY <1>1, <1>2, <2>1, <2>4
  <2>8. ASSUME NEW j \in 1 .. Len(Tail(args)) PROVE Tail(args)[j] = all[T(i) + j]
    <3>0. Len(args) \in Nat
      BY <1>2, LenProperties
    <3>1. j \in Nat /\ j + 1 \in 1 .. Len(args)
      BY <2>4, <3>0
    <3>2. T(i - 1) + (j + 1) = T(i) + j
      BY <1>1, <2>1, <3>1
    <3>3. args[j + 1] = all[T(i - 1) + (j + 1)]
      BY <1>2, <3>1
    <3> QED
      BY <2>4, <3>1, <3>2, <3>3
  <2> QED
    BY <1>4, <1>5, <2>4, <2>6, <2>7, <2>8 DEF takes, HasItsArgument
<1>6. CASE ~takes
  <2>1. T(i) = T(i - 1)
    BY <1>1, <1>6
  <2> QED
    BY <1>2, <1>4, <1>6, <2>1 DEF takes, HasItsArgument
<1> QED
  BY <1>5, <1>6

LEMMA WidthsGrow ==
  ASSUME NEW asked, Matched(asked), NEW width, Widths(width, asked)
  PROVE  \A i \in 0 .. Len(asked.fmt) :
           width[i] \in Nat /\ width[i] <= width[Len(asked.fmt)]
<1> DEFINE N == Len(asked.fmt)
           S == {i \in 0 .. N : width[i] \in Nat}
           Below == {k \in 0 .. N : width[N - k] <= width[N]}
<1>1. N \in Nat
  BY MatchedFacts
<1>2. \A i \in 1 .. N : width[i] = width[i - 1] + Width(asked, i) /\ Width(asked, i) \in Nat
  BY PieceFacts DEF Widths
<1>3. width[0] = 0
  BY DEF Widths
<1> HIDE DEF N
<1>4. 0 .. N \subseteq S
  <2>1. 0 \in S
    BY <1>1, <1>3
  <2>2. \A i \in 1 .. N : i - 1 \in S => i \in S
    BY <1>1, <1>2
  <2> HIDE DEF S
  <2> QED
    BY <1>1, <2>1, <2>2, RangeInduction
<1>5. \A i \in 0 .. N : width[i] \in Nat
  BY <1>4
<1>6. 0 .. N \subseteq Below
  <2>1. 0 \in Below
    <3>1. N - 0 = N /\ N \in 0 .. N /\ 0 \in 0 .. N
      BY <1>1
    <3> QED
      BY <1>5, <3>1
  <2>2. ASSUME NEW k \in 1 .. N, k - 1 \in Below PROVE k \in Below
    <3> DEFINE i == N - (k - 1)
    <3>1. i \in 1 .. N /\ i - 1 = N - k /\ i - 1 \in 0 .. N /\ k \in 0 .. N /\ N \in 0 .. N /\ i \in 0 .. N
      BY <1>1
    <3>2. width[i] <= width[N]
      BY <2>2
    <3> HIDE DEF i
    <3>3. width[i - 1] <= width[i] /\ width[i - 1] \in Nat /\ width[i] \in Nat /\ width[N] \in Nat
      BY <1>2, <1>5, <3>1
    <3>4. width[i - 1] <= width[N]
      BY ONLY <3>2, <3>3
    <3> QED
      BY <3>1, <3>4
  <2> HIDE DEF Below
  <2> QED
    BY <1>1, <2>1, <2>2, RangeInduction
<1>7. ASSUME NEW i \in 0 .. N PROVE width[i] <= width[N]
  <2>1. N - i \in 0 .. N /\ N - (N - i) = i
    BY <1>1
  <2>2. N - i \in Below
    BY <1>6, <2>1
  <2> QED
    BY <2>1, <2>2
<1> QED
  BY <1>5, <1>7 DEF N

(* After i items: text is what was printed, and every argument was taken. *)
Printed(acc, text, asked, i) ==
  /\ acc = [out |-> acc.out, ret |-> acc.ret, args |-> acc.args, failed |-> FALSE]
  /\ text \in Seq(TextChars(asked)) /\ acc.ret = Len(text)
  /\ DOMAIN acc.out = 1 .. acc.ret /\ \A j \in 1 .. acc.ret : acc.out[j] = text[j]
  /\ Aligned(acc.args, asked, i)

LEMMA ItemIsPrinted ==
  ASSUME NEW asked, Matched(asked), NEW i \in 1 .. Len(asked.fmt), CanPrint(asked, i),
         asked.fmt[i] # "?", NEW n \in Nat, NEW junk,
         NEW acc, NEW text, Printed(acc, text, asked, i - 1), acc.ret + Width(asked, i) <= n
  PROVE  /\ Printed(FormatItem(acc, asked.fmt[i], n, junk), text \o Piece(asked, i), asked, i)
         /\ Len(text \o Piece(asked, i)) <= acc.ret + Width(asked, i)
<1> DEFINE c == asked.fmt[i]
           C == TextChars(asked)
           piece == Piece(asked, i)
           room == IF n < acc.ret THEN 0 ELSE n - acc.ret
           rest == IF Takes(c) THEN Tail(acc.args) ELSE acc.args
           next == FormatItem(acc, c, n, junk)
           done == Convert(c, room, acc.args, junk)
           all == text \o piece
           out == Put(acc.out, acc.ret, piece)
<1>1. /\ acc = [out |-> acc.out, ret |-> acc.ret, args |-> acc.args, failed |-> FALSE]
      /\ text \in Seq(C) /\ acc.ret = Len(text)
      /\ DOMAIN acc.out = 1 .. acc.ret /\ \A j \in 1 .. acc.ret : acc.out[j] = text[j]
      /\ Aligned(acc.args, asked, i - 1)
  BY DEF Printed
<1>2. acc.ret \in Nat
  BY <1>1, LenProperties
<1>3. /\ piece \in Seq(C) /\ Len(piece) \in Nat /\ Len(piece) <= Width(asked, i)
      /\ Width(asked, i) \in Nat
  BY PieceFacts
<1>4. HasItsArgument(acc.args, asked, i) /\ Aligned(rest, asked, i)
  BY <1>1, AlignedStep
<1>5. room \in Nat /\ Width(asked, i) <= room
  BY <1>2, <1>3
<1>6. done = [text |-> piece, len |-> Len(piece), args |-> rest]
  <2> HIDE DEF room
  <2>1. room \in Nat /\ Width(asked, i) <= room
    BY <1>5
  <2>2. Convert(asked.fmt[i], room, acc.args, junk) = PrintedPiece(acc.args, asked, i)
    BY <1>4, <2>1, ConvertIsExact
  <2> QED
    BY <2>2 DEF PrintedPiece
<1>7. next = IF acc.failed THEN acc
             ELSE IF c = "?" THEN [acc EXCEPT !.failed = TRUE, !.ret = 0]
             ELSE [acc EXCEPT !.out = Put(acc.out, acc.ret, done.text),
                              !.ret = acc.ret + done.len, !.args = done.args]
  BY DEF FormatItem
<1>8. /\ all \in Seq(C) /\ Len(all) = acc.ret + Len(piece)
      /\ \A j \in 1 .. Len(all) : all[j] = IF j <= acc.ret THEN text[j] ELSE piece[j - acc.ret]
  <2> HIDE DEF C, piece
  <2>1. all \in Seq(C) /\ Len(all) = Len(text) + Len(piece)
        /\ \A j \in 1 .. Len(text) + Len(piece) :
             all[j] = IF j <= Len(text) THEN text[j] ELSE piece[j - Len(text)]
    BY <1>1, <1>3, ConcatProperties
  <2> QED
    BY <1>1, <2>1
<1>9. /\ DOMAIN out = (acc.ret + 1 .. acc.ret + Len(piece)) \cup DOMAIN acc.out
      /\ \A j \in acc.ret + 1 .. acc.ret + Len(piece) : out[j] = piece[j - acc.ret]
      /\ \A j \in DOMAIN acc.out :
           j \notin acc.ret + 1 .. acc.ret + Len(piece) => out[j] = acc.out[j]
  <2>1. acc.ret \in Nat /\ Len(piece) \in Nat
    BY <1>2, <1>3
  <2> DEFINE at == acc.ret
             o == acc.out
             p == piece
  <2>2. at \in Nat /\ Len(p) \in Nat
    BY <2>1
  <2> HIDE DEF at, o, p
  <2>3. /\ DOMAIN Put(o, at, p) = (at + 1 .. at + Len(p)) \cup DOMAIN o
        /\ \A j \in at + 1 .. at + Len(p) : Put(o, at, p)[j] = p[j - at]
        /\ \A j \in DOMAIN o : j \notin at + 1 .. at + Len(p) => Put(o, at, p)[j] = o[j]
    BY ONLY <2>2, PutFacts
  <2> QED
    BY <2>3 DEF at, o, p
<1>10. Printed(next, all, asked, i) <=>
         /\ next = [out |-> next.out, ret |-> next.ret, args |-> next.args, failed |-> FALSE]
         /\ all \in Seq(C) /\ next.ret = Len(all)
         /\ DOMAIN next.out = 1 .. next.ret /\ \A j \in 1 .. next.ret : next.out[j] = all[j]
         /\ Aligned(next.args, asked, i)
  BY Zenon DEF Printed
<1> HIDE DEF c, C, piece, room, rest, next, done, all, out
<1>11. next = [out |-> out, ret |-> acc.ret + Len(piece), args |-> rest, failed |-> FALSE]
  <2>1. acc.failed = FALSE /\ c # "?"
    BY <1>1 DEF c
  <2>2. next = [acc EXCEPT !.out = out, !.ret = acc.ret + Len(piece), !.args = rest]
    BY <1>6, <1>7, <2>1 DEF out
  <2>3. acc = [out |-> acc.out, ret |-> acc.ret, args |-> acc.args, failed |-> acc.failed]
    BY <1>1, <2>1
  <2> DEFINE ret == acc.ret + Len(piece)
  <2> HIDE DEF ret
  <2>4. next = [acc EXCEPT !.out = out, !.ret = ret, !.args = rest]
    BY <2>2 DEF ret
  <2>5. next = [out |-> out, ret |-> ret, args |-> rest, failed |-> FALSE]
    BY ONLY <2>1, <2>3, <2>4
  <2> QED
    BY <2>5 DEF ret
<1>12. DOMAIN out = 1 .. acc.ret + Len(piece)
  BY <1>1, <1>2, <1>3, <1>9
<1>13. ASSUME NEW j \in 1 .. acc.ret + Len(piece) PROVE out[j] = all[j]
  <2>1. all[j] = IF j <= acc.ret THEN text[j] ELSE piece[j - acc.ret]
    BY <1>8
  <2>2. CASE j <= acc.ret
    <3>1. j \in 1 .. acc.ret /\ j \notin acc.ret + 1 .. acc.ret + Len(piece)
      BY <1>2, <1>3, <2>2
    <3> QED
      BY <1>1, <1>9, <2>1, <2>2, <3>1
  <2>3. CASE ~(j <= acc.ret)
    <3>1. j \in acc.ret + 1 .. acc.ret + Len(piece)
      BY <1>2, <1>3, <2>3
    <3> QED
      BY <1>9, <2>1, <2>3, <3>1
  <2> QED
    BY <2>2, <2>3
<1>14. /\ next.out = out /\ next.ret = acc.ret + Len(piece) /\ next.args = rest
       /\ next = [out |-> next.out, ret |-> next.ret, args |-> next.args, failed |-> FALSE]
  BY <1>11
<1>15. Printed(next, all, asked, i)
  BY <1>4, <1>8, <1>10, <1>12, <1>13, <1>14
<1>16. Len(all) <= acc.ret + Width(asked, i)
  BY <1>2, <1>3, <1>8
<1> QED
  BY <1>15, <1>16 DEF next, all, piece, c

(* A format that is fit to be printed comes out as it is meant. *)
LEMMA VsnfmtIsExact ==
  ASSUME NEW asked, Matched(asked), "?" \notin ToSet(asked.fmt), AllPrintable(asked),
         NEW n \in Nat, Widest(asked) <= n, NEW junk
  PROVE  TakenFrom(Vsnfmt(asked.fmt, n, asked.args, junk)) = Meaning(asked)
<1> DEFINE N == Len(asked.fmt)
           done == Vsnfmt(asked.fmt, n, asked.args, junk)
<1>1. N \in Nat /\ DOMAIN asked.fmt = 1 .. N
  BY MatchedFacts
<1>2. PICK after : Runs(after, asked.fmt, n, asked.args, junk) /\ done = after[N]
  BY <1>1, VsnfmtRuns
<1>3. PICK text : Texts(text, asked) /\ Meaning(asked) = text[N]
  BY <1>1, MeaningRuns
<1>4. PICK width : Widths(width, asked) /\ Widest(asked) = width[N]
  BY <1>1, WidestRuns
<1>5. \A i \in 0 .. N : width[i] \in Nat /\ width[i] <= width[N]
  BY <1>4, WidthsGrow
<1>6. \A i \in 1 .. N : CanPrint(asked, i) /\ asked.fmt[i] # "?"
  BY <1>1 DEF AllPrintable, CanPrint, ToSet
<1> DEFINE S == {i \in 0 .. N : Printed(after[i], text[i], asked, i) /\ Len(text[i]) <= width[i]}
<1>7. 0 \in S
  <2>1. after[0] = [out |-> <<>>, ret |-> 0, args |-> asked.args, failed |-> FALSE]
    BY <1>2 DEF Runs, Begun
  <2>2. text[0] = <<>> /\ width[0] = 0
    BY <1>3, <1>4 DEF Texts, Widths
  <2>3. <<>> \in Seq(TextChars(asked)) /\ Len(<<>>) = 0 /\ DOMAIN <<>> = {} /\ 1 .. 0 = {}
    OBVIOUS
  <2>4. Aligned(asked.args, asked, 0)
    BY AlignedAtFirst
  <2>5. Printed(after[0], <<>>, asked, 0)
    BY <2>1, <2>3, <2>4 DEF Printed
  <2> QED
    BY <1>1, <2>2, <2>3, <2>5
<1>8. ASSUME NEW i \in 1 .. N, i - 1 \in S PROVE i \in S
  <2>1. Printed(after[i - 1], text[i - 1], asked, i - 1) /\ Len(text[i - 1]) <= width[i - 1]
    BY <1>8
  <2>2. /\ after[i] = FormatItem(after[i - 1], asked.fmt[i], n, junk)
        /\ text[i] = text[i - 1] \o Piece(asked, i)
        /\ width[i] = width[i - 1] + Width(asked, i)
    BY <1>2, <1>3, <1>4 DEF Runs, Texts, Widths
  <2>3. after[i - 1].ret = Len(text[i - 1]) /\ Len(text[i - 1]) \in Nat
    BY <2>1, LenProperties DEF Printed
  <2>4. Width(asked, i) \in Nat
    BY PieceFacts
  <2>5. i - 1 \in 0 .. N /\ i \in 0 .. N /\ N \in 0 .. N
    BY <1>1
  <2>6. width[i - 1] \in Nat /\ width[i] \in Nat /\ width[N] \in Nat /\ width[i] <= width[N] /\ width[N] <= n
    BY <1>4, <1>5, <2>5
  <2>7. after[i - 1].ret + Width(asked, i) <= width[i] /\ after[i - 1].ret + Width(asked, i) <= n
    <3> DEFINE r == after[i - 1].ret
               w == Width(asked, i)
    <3>1. r \in Nat /\ w \in Nat /\ r <= width[i - 1] /\ width[i] = width[i - 1] + w
      BY <2>1, <2>2, <2>3, <2>4
    <3> HIDE DEF r, w
    <3>2. r + w <= width[i] /\ r + w <= n
      BY ONLY <2>6, <3>1, SMT, n \in Nat
    <3> QED
      BY <3>2 DEF r, w
  <2>8. /\ Printed(after[i], text[i], asked, i)
        /\ Len(text[i]) <= after[i - 1].ret + Width(asked, i)
    BY <1>6, <2>1, <2>2, <2>7, ItemIsPrinted
  <2>9. Len(text[i]) \in Nat
    BY <2>8, LenProperties DEF Printed
  <2>10. Len(text[i]) <= width[i]
    BY <2>3, <2>4, <2>6, <2>7, <2>8, <2>9
  <2> QED
    BY <2>5, <2>8, <2>10
<1> HIDE DEF S
<1>9. 0 .. N \subseteq S
  BY <1>1, <1>7, <1>8, RangeInduction
<1>10. Printed(done, text[N], asked, N)
  BY <1>1, <1>2, <1>9 DEF S
<1>11. TakenFrom(done) = [j \in 1 .. done.ret |-> IF j \in DOMAIN done.out THEN done.out[j] ELSE "junk"]
  BY Zenon DEF TakenFrom
<1> HIDE DEF done
<1>12. /\ text[N] \in Seq(TextChars(asked)) /\ done.ret = Len(text[N])
       /\ DOMAIN done.out = 1 .. done.ret /\ \A j \in 1 .. done.ret : done.out[j] = text[N][j]
  BY <1>10 DEF Printed
<1>13. text[N] = [j \in 1 .. Len(text[N]) |-> text[N][j]]
  BY <1>12, LenProperties
<1> DEFINE whole == text[N]
<1>14. [j \in 1 .. done.ret |-> IF j \in DOMAIN done.out THEN done.out[j] ELSE "junk"]
         = [j \in 1 .. Len(whole) |-> whole[j]]
  BY <1>12
<1> QED
  BY <1>3, <1>11, <1>13, <1>14 DEF done

(* The measuring pass, after i items: it counted width, and has every      *)
(* argument that was to be taken, until the first integer.                 *)
Measured(acc, width, asked, i) ==
  /\ acc = [out |-> acc.out, ret |-> width, args |-> acc.args, failed |-> FALSE]
  /\ (\A j \in 1 .. i : asked.fmt[j] \notin IntSpecs) => Aligned(acc.args, asked, i)

LEMMA ItemIsMeasured ==
  ASSUME NEW asked, Matched(asked), Measurable(asked),
         NEW i \in 1 .. Len(asked.fmt), asked.fmt[i] # "?", NEW junk,
         NEW acc, NEW width \in Nat, Measured(acc, width, asked, i - 1)
  PROVE  Measured(FormatItem(acc, asked.fmt[i], 0, junk), width + Width(asked, i), asked, i)
<1> DEFINE c == asked.fmt[i]
           room == IF 0 < acc.ret THEN 0 ELSE 0 - acc.ret
           rest == IF Takes(c) THEN Tail(acc.args) ELSE acc.args
           next == FormatItem(acc, c, 0, junk)
           done == Convert(c, room, acc.args, junk)
           out == Put(acc.out, acc.ret, done.text)
           more == width + Width(asked, i)
           NoInts(k) == \A j \in 1 .. k : asked.fmt[j] \notin IntSpecs
<1>1. /\ acc = [out |-> acc.out, ret |-> width, args |-> acc.args, failed |-> FALSE]
      /\ NoInts(i - 1) => Aligned(acc.args, asked, i - 1)
  BY DEF Measured
<1>2. Len(asked.fmt) \in Nat /\ DOMAIN asked.fmt = 1 .. Len(asked.fmt)
  BY MatchedFacts
<1>3. acc.ret = width /\ acc.failed = FALSE
  BY <1>1
<1>4. room = 0
  BY <1>3
<1>5. NoInts(i) <=> NoInts(i - 1) /\ c \notin IntSpecs
  BY <1>2
<1>6. c \in StrSpecs => NoInts(i - 1)
  <2>1. \A j \in 1 .. i - 1 : j \in DOMAIN asked.fmt /\ i \in DOMAIN asked.fmt /\ j < i
    BY <1>2
  <2> QED
    BY <2>1 DEF Measurable
<1>7. NoInts(i - 1) => HasItsArgument(acc.args, asked, i) /\ Aligned(rest, asked, i)
  BY <1>1, AlignedStep
<1>8. c \in IntSpecs \/ HasItsArgument(acc.args, asked, i)
  BY <1>6, <1>7 DEF HasItsArgument, Takes
<1>9. done.len = Width(asked, i) /\ (c \notin IntSpecs => done.args = rest)
  <2> DEFINE zero == Convert(c, 0, acc.args, junk)
  <2>1. CanCount(acc.args, asked, i)
    BY <1>8 DEF CanCount
  <2> HIDE DEF room, rest
  <2>2. CountedPiece(zero, acc.args, asked, i)
    BY <2>1, ConvertMeasures
  <2>3. PrintedPiece(acc.args, asked, i).args = rest
    BY DEF PrintedPiece, rest
  <2>4. done = zero
    BY <1>4
  <2> QED
    BY <2>2, <2>3, <2>4 DEF CountedPiece
<1>10. next = IF acc.failed THEN acc
              ELSE IF c = "?" THEN [acc EXCEPT !.failed = TRUE, !.ret = 0]
              ELSE [acc EXCEPT !.out = Put(acc.out, acc.ret, done.text),
                               !.ret = acc.ret + done.len, !.args = done.args]
  BY DEF FormatItem
<1>11. Measured(next, more, asked, i) <=>
         /\ next = [out |-> next.out, ret |-> more, args |-> next.args, failed |-> FALSE]
         /\ NoInts(i) => Aligned(next.args, asked, i)
  BY Zenon DEF Measured
<1>12. c # "?"
  OBVIOUS
<1> HIDE DEF c, room, rest, next, done, out, more, NoInts
<1>13. next = [out |-> out, ret |-> more, args |-> done.args, failed |-> FALSE]
  <2>1. next = [acc EXCEPT !.out = out, !.ret = more, !.args = done.args]
    BY <1>3, <1>9, <1>10, <1>12 DEF out, more
  <2>2. acc = [out |-> acc.out, ret |-> acc.ret, args |-> acc.args, failed |-> acc.failed]
    BY <1>1, <1>3
  <2> QED
    BY ONLY <1>3, <2>1, <2>2
<1>14. /\ next = [out |-> next.out, ret |-> more, args |-> next.args, failed |-> FALSE]
       /\ next.args = done.args
  BY <1>13
<1>15. Measured(next, more, asked, i)
  BY <1>5, <1>7, <1>9, <1>11, <1>14
<1> QED
  BY <1>15 DEF next, more, c

LEMMA VsnfmtMeasures ==
  ASSUME NEW asked, Matched(asked), "?" \notin ToSet(asked.fmt), Measurable(asked), NEW junk
  PROVE  Vsnfmt(asked.fmt, 0, asked.args, junk).ret = Widest(asked)
<1> DEFINE N == Len(asked.fmt)
           done == Vsnfmt(asked.fmt, 0, asked.args, junk)
<1>1. N \in Nat /\ DOMAIN asked.fmt = 1 .. N
  BY MatchedFacts
<1>2. PICK after : Runs(after, asked.fmt, 0, asked.args, junk) /\ done = after[N]
  BY <1>1, VsnfmtRuns
<1>3. PICK width : Widths(width, asked) /\ Widest(asked) = width[N]
  BY <1>1, WidestRuns
<1>4. \A i \in 0 .. N : width[i] \in Nat
  BY <1>3, WidthsGrow
<1>5. \A i \in 1 .. N : asked.fmt[i] # "?"
  BY <1>1 DEF ToSet
<1> DEFINE S == {i \in 0 .. N : Measured(after[i], width[i], asked, i)}
<1>6. 0 \in S
  <2>1. after[0] = [out |-> <<>>, ret |-> 0, args |-> asked.args, failed |-> FALSE]
    BY <1>2 DEF Runs, Begun
  <2>2. width[0] = 0
    BY <1>3 DEF Widths
  <2>3. Aligned(asked.args, asked, 0)
    BY AlignedAtFirst
  <2>4. Measured(after[0], 0, asked, 0)
    BY <2>1, <2>3 DEF Measured
  <2> QED
    BY <1>1, <2>2, <2>4
<1>7. ASSUME NEW i \in 1 .. N, i - 1 \in S PROVE i \in S
  <2>1. Measured(after[i - 1], width[i - 1], asked, i - 1)
    BY <1>7
  <2>2. /\ after[i] = FormatItem(after[i - 1], asked.fmt[i], 0, junk)
        /\ width[i] = width[i - 1] + Width(asked, i)
    BY <1>2, <1>3 DEF Runs, Widths
  <2>3. i \in 0 .. N /\ i - 1 \in 0 .. N
    BY <1>1
  <2>4. width[i - 1] \in Nat
    BY <1>4, <2>3
  <2>5. Measured(after[i], width[i], asked, i)
    BY <1>5, <2>1, <2>2, <2>4, ItemIsMeasured
  <2> QED
    BY <2>3, <2>5
<1> HIDE DEF S
<1>8. 0 .. N \subseteq S
  BY <1>1, <1>6, <1>7, RangeInduction
<1>9. Measured(after[N], width[N], asked, N)
  BY <1>1, <1>8 DEF S
<1> QED
  BY <1>2, <1>3, <1>9 DEF Measured

Asked(j) ==
  /\ j = [way |-> j.way, fmt |-> j.fmt, args |-> j.args, n |-> j.n, text |-> j.text,
          touched |-> j.touched, pc |-> j.pc]
  /\ Matched(j)

(* What vd_snfmt allocates for is what its first pass returned. *)
TextInv ==
  \/ job = NoJob
  \/ /\ Asked(job)
     /\ job.pc \in {"measure", "fill", "done"}
     /\ job.way = "snfmt" /\ job.pc = "fill" =>
          \E junk \in JunkLens : job.n = Vsnfmt(job.fmt, 0, job.args, junk).ret
     /\ TextIsExact

LEMMA SameIsMatched ==
  ASSUME NEW asked, Matched(asked), NEW other, other.fmt = asked.fmt, other.args = asked.args
  PROVE  Matched(other)
<1>1. \A i : ArgOf(other, i) = ArgOf(asked, i)
  BY DEF ArgOf
<1> QED
  BY <1>1, Zenon DEF Matched

LEMMA TextInit == MCInit => TextInv
<1> SUFFICES ASSUME MCInit PROVE TextInv
  OBVIOUS
<1>1. job = NoJob \/ \E way \in Ways, asked \in Jobs : job = Start(way, asked)
  BY DEF MCInit
<1>2. CASE job = NoJob
  BY <1>2 DEF TextInv
<1>3. ASSUME NEW way \in Ways, NEW asked \in Jobs, job = Start(way, asked) PROVE TextInv
  <2>1. Matched(asked)
    BY TextAssumption
  <2>2. /\ job = [way |-> job.way, fmt |-> job.fmt, args |-> job.args, n |-> job.n,
                  text |-> job.text, touched |-> job.touched, pc |-> job.pc]
        /\ job.fmt = asked.fmt /\ job.args = asked.args /\ job.way = way
        /\ job.pc = IF way = "snfmt" THEN "measure" ELSE "fill"
    BY <1>3 DEF Start
  <2>3. Matched(job)
    BY <2>1, <2>2, SameIsMatched
  <2>4. job.pc \in {"measure", "fill"} /\ (job.way = "snfmt" => job.pc = "measure")
    BY <2>2
  <2>5. TextIsExact
    BY <2>4 DEF TextIsExact
  <2> QED
    BY <2>2, <2>3, <2>4, <2>5 DEF TextInv, Asked
<1> QED
  BY <1>1, <1>2, <1>3

(* What a caller gets who hands over n characters. *)
LEMMA FilledIsExact ==
  ASSUME NEW asked, Matched(asked), NEW n \in Nat, NEW junk \in Nat
  PROVE  LET done == Vsnfmt(asked.fmt, n, asked.args, junk)
         IN  /\ DOMAIN done.out \subseteq 1 .. n
             /\ AllPrintable(asked) /\ ("?" \notin ToSet(asked.fmt) => Widest(asked) <= n)
                  => TakenFrom(done) = Meaning(asked)
<1> DEFINE done == Vsnfmt(asked.fmt, n, asked.args, junk)
<1>1. DOMAIN done.out \subseteq 1 .. n /\ ("?" \in ToSet(asked.fmt) => done.ret = 0)
  BY VsnfmtInBounds
<1>2. CASE "?" \in ToSet(asked.fmt)
  <2>1. Meaning(asked) = <<>>
    BY <1>2, Zenon DEF Meaning
  <2>2. TakenFrom(done) = <<>>
    <3> HIDE DEF done
    <3>1. done.ret = 0
      BY <1>1, <1>2
    <3>2. [i \in 1 .. 0 |-> IF i \in DOMAIN done.out THEN done.out[i] ELSE "junk"] = <<>>
      OBVIOUS
    <3> QED
      BY <3>1, <3>2 DEF TakenFrom
  <2> QED
    BY <1>1, <2>1, <2>2
<1>3. CASE "?" \notin ToSet(asked.fmt)
  <2>1. ASSUME AllPrintable(asked), Widest(asked) <= n PROVE TakenFrom(done) = Meaning(asked)
    BY <1>3, <2>1, VsnfmtIsExact
  <2> QED
    BY <1>1, <1>3, <2>1
<1> QED
  BY <1>2, <1>3

LEMMA WidestIsNat ==
  ASSUME NEW asked, Matched(asked)
  PROVE  Widest(asked) \in Nat
<1>1. Len(asked.fmt) \in Nat /\ Len(asked.fmt) \in 0 .. Len(asked.fmt)
  BY MatchedFacts
<1>2. PICK width : Widths(width, asked) /\ Widest(asked) = width[Len(asked.fmt)]
  BY <1>1, WidestRuns
<1> QED
  BY <1>1, <1>2, WidthsGrow

LEMMA TextStep == TextInv /\ [MCNext]_mcVars => TextInv'
<1> SUFFICES ASSUME TextInv, [MCNext]_mcVars PROVE TextInv'
  OBVIOUS
<1>1. Measure \/ Fill \/ job' = job
  BY DEF MCNext, mcVars, textVars, vars, MapNext, VarsNext, HooksNext, ToDirectory, ToLastPart
<1>2. CASE job' = job
  BY <1>2 DEF TextInv, TextIsExact
<1>3. CASE Measure
  <2>1. Asked(job) /\ job.pc = "measure"
    BY <1>3 DEF Measure, TextInv, NoJob
  <2>2. PICK junk \in JunkLens :
          job' = [job EXCEPT !.n = Vsnfmt(job.fmt, 0, job.args, junk).ret, !.pc = "fill"]
    BY <1>3 DEF Measure
  <2>3. job = [way |-> job.way, fmt |-> job.fmt, args |-> job.args, n |-> job.n,
               text |-> job.text, touched |-> job.touched, pc |-> job.pc]
    BY <2>1 DEF Asked
  <2>4. job' = [way |-> job.way, fmt |-> job.fmt, args |-> job.args,
                n |-> Vsnfmt(job.fmt, 0, job.args, junk).ret,
                text |-> job.text, touched |-> job.touched, pc |-> "fill"]
    <3> DEFINE ret == Vsnfmt(job.fmt, 0, job.args, junk).ret
    <3> HIDE DEF ret
    <3>1. job' = [job EXCEPT !.n = ret, !.pc = "fill"]
      BY <2>2 DEF ret
    <3>2. job' = [way |-> job.way, fmt |-> job.fmt, args |-> job.args, n |-> ret,
                  text |-> job.text, touched |-> job.touched, pc |-> "fill"]
      BY ONLY <2>3, <3>1
    <3> QED
      BY <3>2 DEF ret
  <2>5. /\ job' = [way |-> job'.way, fmt |-> job'.fmt, args |-> job'.args, n |-> job'.n,
                   text |-> job'.text, touched |-> job'.touched, pc |-> job'.pc]
        /\ job'.fmt = job.fmt /\ job'.args = job.args /\ job'.pc = "fill"
        /\ job'.n = Vsnfmt(job.fmt, 0, job.args, junk).ret
    BY <2>4
  <2>6. Matched(job')
    BY <2>1, <2>5, SameIsMatched DEF Asked
  <2>7. TextIsExact'
    BY <2>5 DEF TextIsExact
  <2> QED
    BY <2>5, <2>6, <2>7 DEF TextInv, Asked
<1>4. CASE Fill
  <2>1. /\ Asked(job) /\ job.pc = "fill"
        /\ job.way = "snfmt" =>
             \E junk \in JunkLens : job.n = Vsnfmt(job.fmt, 0, job.args, junk).ret
    BY <1>4 DEF Fill, TextInv, NoJob
  <2> DEFINE n == IF job.way = "snfmt" THEN job.n ELSE BufSize
  <2>2. PICK junk \in JunkLens :
          job' = [job EXCEPT !.n = n, !.pc = "done",
                             !.text = TakenFrom(Vsnfmt(job.fmt, n, job.args, junk)),
                             !.touched = DOMAIN Vsnfmt(job.fmt, n, job.args, junk).out]
    BY <1>4, Zenon DEF Fill
  <2> DEFINE done == Vsnfmt(job.fmt, n, job.args, junk)
  <2>3. job = [way |-> job.way, fmt |-> job.fmt, args |-> job.args, n |-> job.n,
               text |-> job.text, touched |-> job.touched, pc |-> job.pc]
    BY <2>1 DEF Asked
  <2>4. job' = [way |-> job.way, fmt |-> job.fmt, args |-> job.args, n |-> n,
                text |-> TakenFrom(done), touched |-> DOMAIN done.out, pc |-> "done"]
    <3> DEFINE text == TakenFrom(done)
               touched == DOMAIN done.out
    <3>1. job' = [job EXCEPT !.n = n, !.pc = "done", !.text = text, !.touched = touched]
      BY <2>2
    <3> HIDE DEF n, text, touched
    <3>2. job' = [way |-> job.way, fmt |-> job.fmt, args |-> job.args, n |-> n,
                  text |-> text, touched |-> touched, pc |-> "done"]
      BY ONLY <2>3, <3>1
    <3> QED
      BY <3>2 DEF text, touched
  <2> HIDE DEF n
  <2>5. /\ job' = [way |-> job'.way, fmt |-> job'.fmt, args |-> job'.args, n |-> job'.n,
                   text |-> job'.text, touched |-> job'.touched, pc |-> job'.pc]
        /\ job'.fmt = job.fmt /\ job'.args = job.args /\ job'.pc = "done"
        /\ job'.way = job.way /\ job'.n = n
        /\ job'.text = TakenFrom(done) /\ job'.touched = DOMAIN done.out
    <3> HIDE DEF done
    <3> QED
      BY <2>4
  <2>6. Matched(job')
    BY <2>1, <2>5, SameIsMatched DEF Asked
  <2>7. junk \in Nat /\ JunkLens \subseteq Nat /\ BufSize \in Nat
    BY TextAssumption
  <2>8. ASSUME NEW seen \in JunkLens
        PROVE  /\ Vsnfmt(job.fmt, 0, job.args, seen).ret \in Nat
               /\ Measurable(job') /\ "?" \notin ToSet(job'.fmt)
                    => Vsnfmt(job.fmt, 0, job.args, seen).ret = Widest(job')
    <3>1. Vsnfmt(job'.fmt, 0, job'.args, seen).ret \in Nat
      BY <2>6, <2>7, VsnfmtInBounds
    <3>2. Measurable(job') /\ "?" \notin ToSet(job'.fmt)
            => Vsnfmt(job'.fmt, 0, job'.args, seen).ret = Widest(job')
      BY <2>6, VsnfmtMeasures
    <3> QED
      BY <2>5, <3>1, <3>2
  <2>9. n \in Nat
    BY <2>1, <2>7, <2>8 DEF n
  <2>10. ASSUME AllPrintable(job'),
                IF job'.way = "snfmt" THEN Measurable(job') ELSE Widest(job') <= BufSize,
                "?" \notin ToSet(job'.fmt)
         PROVE  Widest(job') <= n
    <3>1. Widest(job') \in Nat
      BY <2>6, WidestIsNat
    <3>2. CASE job.way = "snfmt"
      <4>1. n = Widest(job')
        BY <2>1, <2>5, <2>8, <2>10, <3>2 DEF n
      <4> QED
        BY <3>1, <4>1
    <3>3. CASE job.way # "snfmt"
      BY <2>5, <2>10, <3>3 DEF n
    <3> QED
      BY <3>2, <3>3
  <2>11. LET filled == Vsnfmt(job'.fmt, n, job'.args, junk)
         IN  /\ DOMAIN filled.out \subseteq 1 .. n
             /\ AllPrintable(job') /\ ("?" \notin ToSet(job'.fmt) => Widest(job') <= n)
                  => TakenFrom(filled) = Meaning(job')
    BY <2>6, <2>7, <2>9, FilledIsExact
  <2>12. Vsnfmt(job'.fmt, n, job'.args, junk) = done
    BY <2>5
  <2> HIDE DEF done
  <2>13. TextIsExact'
    BY <2>5, <2>10, <2>11, <2>12 DEF TextIsExact
  <2> QED
    BY <2>5, <2>6, <2>13 DEF TextInv, Asked
<1> QED
  BY <1>1, <1>2, <1>3, <1>4

(* TextIsExact for formats and arguments of any length, any buffer and any *)
(* length a misread argument may seem to have: vd_snfmt measures what it   *)
(* prints, nothing is written behind the buffer, and every text that fits  *)
(* is what its format says (vd_snfmt, vd_fmt_vfprintf, vd_fmt_vsnfmt).     *)
THEOREM TextsAreExact == MCSpec => []TextIsExact
<1>1. TextInv => TextIsExact
  BY DEF TextInv, TextIsExact, NoJob
<1> QED
  BY <1>1, TextInit, TextStep, PTL DEF MCSpec
=============================================================================
