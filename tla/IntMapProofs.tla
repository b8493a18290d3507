---------------------------- MODULE IntMapProofs ----------------------------
(***************************************************************************)
(* The integer map for any keys, hashes, table sizes and growth.           *)
(*                                                                         *)
(* For a client that sets and deletes as it likes: the cells can be        *)
(* numbered so that every link leads to a smaller number, so that walks    *)
(* end; an insertion gives the cell it fills the smallest number.          *)
(*                                                                         *)
(* For a client that sets fresh keys: every cell in use is on the chain of *)
(* its key's home, links join cells in use only, and no key is in two      *)
(* cells; so the walk to a key's home leads to its cell. vd_intmap_check_  *)
(* grow keeps all that, by what each pass of its loop has moved (Moved).   *)
(***************************************************************************)
EXTENDS MCIntMap, FiniteSetTheorems, InductionLemmas

-----------------------------------------------------------------------------
(* Walks. *)

(* The cells a walk passes, one after the other. *)
IsWalk(f, m, step, start) ==
  /\ f \in [0 .. m.cap_total -> DOMAIN m.table]
  /\ f[0] = start
  /\ \A n \in 1 .. m.cap_total : f[n] = step[f[n - 1]]

LEMMA WalkExists ==
  ASSUME NEW m, m.cap_total \in Nat, NEW step \in [DOMAIN m.table -> DOMAIN m.table],
         NEW start \in DOMAIN m.table
  PROVE  \E f : IsWalk(f, m, step, start) /\ f[m.cap_total] = Walk(m, step, start)
<1> DEFINE N == m.cap_total
           U == DOMAIN m.table
           D == [n \in 0 .. N |-> U]
           next == [p \in Nat \X U |-> step[p[2]]]
           Defines(f) == f = [n \in 0 .. N |-> IF n = 0 THEN start ELSE step[f[n - 1]]]
<1>1. \E f \in [0 .. N -> U] : Defines(f)
  <2>1. \A n \in 0 .. N : D[n] = U
    OBVIOUS
  <2>2. \A n \in 1 .. N : \A x \in U : n \in Nat /\ n - 1 \in 0 .. N /\ n \in 0 .. N
                                       /\ next[<<n, x>>] = step[x] /\ step[x] \in U
    OBVIOUS
  <2>3. 0 \in 0 .. N
    OBVIOUS
  <2> HIDE DEF D, next, U
  <2>4. start \in U
    BY DEF U
  <2>5. PICK f : Recurs(f, N, U, start, next)
    <3>1. StepsIn(N, U, D, start, next)
      BY <2>1, <2>2, <2>3, <2>4 DEF StepsIn
    <3> QED
      BY <3>1, Recursion
  <2>6. \A n \in 0 .. N : n # 0 => n \in 1 .. N /\ f[n - 1] \in U
    BY <2>5 DEF Recurs
  <2> DEFINE g == [n \in 0 .. N |-> IF n = 0 THEN start ELSE step[f[n - 1]]]
  <2>7. \A n \in 0 .. N : f[n] = g[n]
    BY <2>2, <2>5, <2>6 DEF Recurs
  <2>8. f = g
    <3>1. f = [n \in 0 .. N |-> f[n]] /\ g = [n \in 0 .. N |-> g[n]]
      BY <2>5 DEF Recurs
    <3> HIDE DEF g
    <3> QED
      BY <2>7, <3>1
  <2> QED
    BY <2>5, <2>8 DEF Recurs
<1> DEFINE at == CHOOSE at : Defines(at)
<1>2. Defines(at)
  BY <1>1
<1>3. Walk(m, step, start) = at[N]
  BY DEF Walk
<1> HIDE DEF at
<1>4. at[0] = start /\ \A n \in 1 .. N : at[n] = step[at[n - 1]]
  BY <1>2
<1>5. \A n \in 0 .. N : at[n] \in U
  <2>1. \A n \in 0 .. N : D[n] = U
    OBVIOUS
  <2>2. \A n \in 1 .. N : n \in 0 .. N /\ n - 1 \in 0 .. N
    OBVIOUS
  <2> HIDE DEF D, N
  <2>3. at[0] \in D[0] /\ \A n \in 1 .. N : at[n - 1] \in D[n - 1] => at[n] \in D[n]
    BY <1>4, <2>1, <2>2 DEF N
  <2>4. \A n \in 0 .. N : at[n] \in D[n]
    BY <2>3, KeptInRange DEF N
  <2> QED
    BY <2>1, <2>4
<1>6. at \in [0 .. N -> U]
  BY <1>2, <1>5
<1> QED
  BY <1>3, <1>4, <1>6 DEF IsWalk

-----------------------------------------------------------------------------
(* Tables. *)

Cell == [used : BOOLEAN, k : Nat, v : Nat, next : Nat \cup {NoEntry}]

Maps(total) ==
  [auto_grow : BOOLEAN, cap : Nat, cap_total : {total}, usecount : Nat,
   table : [0 .. total - 1 -> Cell]]

MapOK(m) ==
  /\ m.cap_total \in Nat \ {0} /\ m \in Maps(m.cap_total)
  /\ m.cap \in 1 .. m.cap_total
  /\ \A i \in DOMAIN m.table :
       /\ m.table[i].next \in DOMAIN m.table \cup {NoEntry}
       /\ m.table[i].used => m.table[i].k \in Keys
       /\ ~m.table[i].used => m.table[i].v = 0

(* The cells can be numbered so that every link leads to a smaller number: *)
(* no chain has a cycle.                                                   *)
Numbers(pos, m) ==
  /\ pos \in [DOMAIN m.table -> 0 .. m.cap_total - 1]
  /\ \A i, j \in DOMAIN m.table : pos[i] = pos[j] => i = j
  /\ \A i \in DOMAIN m.table :
       m.table[i].next # NoEntry => pos[m.table[i].next] < pos[i]

Ordered(m) == \E pos : Numbers(pos, m)

HashOK == hash \in [Keys -> Nat]

Closed(S, m) ==
  \A j \in S : m.table[j].next # NoEntry => m.table[j].next \in S

(* Cell i is on the chain that begins at cell h: it is in every set with h *)
(* that the links do not leave.                                            *)
Reaches(m, h, i) ==
  \A S \in SUBSET DOMAIN m.table : h \in S /\ Closed(S, m) => i \in S

LEMMA MapFacts ==
  ASSUME NEW m, MapOK(m)
  PROVE  /\ m.cap_total \in Nat \ {0} /\ m.cap \in Nat \ {0} /\ m.usecount \in Nat
         /\ m.auto_grow \in BOOLEAN
         /\ DOMAIN m.table = 0 .. m.cap_total - 1
         /\ m.table \in [0 .. m.cap_total - 1 -> Cell]
         /\ \A i \in DOMAIN m.table :
              /\ m.table[i] \in Cell /\ m.table[i].used \in BOOLEAN
              /\ m.table[i].k \in Nat /\ m.table[i].v \in Nat
              /\ m.table[i].next \in DOMAIN m.table \cup {NoEntry}
  BY DEF MapOK, Maps, Cell

LEMMA HomeCell ==
  ASSUME NEW m, MapOK(m), HashOK, NEW k \in Keys
  PROVE  Home(m, k) \in DOMAIN m.table
<1>1. m.cap \in Nat \ {0} /\ m.cap <= m.cap_total /\ m.cap_total \in Nat
  BY DEF MapOK
<1>2. hash[k] \in Nat
  BY DEF HashOK
<1>3. hash[k] % m.cap \in 0 .. m.cap - 1
  <2> DEFINE n == m.cap
             h == hash[k]
  <2>1. n \in Nat \ {0} /\ h \in Nat
    BY <1>1, <1>2
  <2> HIDE DEF n, h
  <2>2. h % n \in 0 .. n - 1
    BY <2>1
  <2> QED
    BY <2>2 DEF n, h
<1> QED
  BY <1>1, <1>3, MapFacts DEF Home

LEMMA NewMapOK ==
  ASSUME NEW total \in Nat \ {0}, NEW auto_grow \in BOOLEAN
  PROVE  LET m == NewMap(total, auto_grow)
         IN  /\ MapOK(m) /\ Ordered(m)
             /\ m.cap_total = total /\ m.auto_grow = auto_grow /\ m.usecount = 0
             /\ DOMAIN m.table = 0 .. total - 1
             /\ \A i \in DOMAIN m.table : m.table[i] = Cleared
<1> DEFINE m == NewMap(total, auto_grow)
<1>1. /\ m.cap_total = total /\ m.auto_grow = auto_grow /\ m.usecount = 0
      /\ m.cap = total - (total \div 5)
      /\ m.table = [i \in 0 .. total - 1 |-> Cleared]
      /\ m = [auto_grow |-> m.auto_grow, cap |-> m.cap, cap_total |-> m.cap_total,
              usecount |-> m.usecount, table |-> m.table]
  BY DEF NewMap
<1>2. total - (total \div 5) \in 1 .. total
  OBVIOUS
<1>3. Cleared \in Cell /\ Cleared.next = NoEntry /\ ~Cleared.used /\ Cleared.v = 0
  BY DEF Cleared, Cell
<1>4. /\ m.table \in [0 .. total - 1 -> Cell] /\ DOMAIN m.table = 0 .. total - 1
      /\ \A i \in DOMAIN m.table : m.table[i] = Cleared
  BY <1>1, <1>3
<1>5. m \in Maps(total)
  BY <1>1, <1>2, <1>4 DEF Maps
<1> HIDE DEF m
<1>6. MapOK(m)
  BY <1>1, <1>2, <1>3, <1>4, <1>5 DEF MapOK
<1>7. Numbers([i \in 0 .. total - 1 |-> i], m)
  BY <1>1, <1>3, <1>4 DEF Numbers
<1> QED
  BY <1>1, <1>4, <1>6, <1>7 DEF Ordered, m

(* A walk along the chain, one step per cell of the table, is at its end.  *)
LEMMA ChainWalkEnds ==
  ASSUME NEW m, MapOK(m), Ordered(m), NEW start \in DOMAIN m.table,
         NEW f, IsWalk(f, m, ChainStep(m), start)
  PROVE  f[m.cap_total] \in DOMAIN m.table /\ m.table[f[m.cap_total]].next = NoEntry
<1> DEFINE N == m.cap_total
           C == DOMAIN m.table
           next(i) == m.table[i].next
<1>1. N \in Nat \ {0} /\ \A i \in C : next(i) \in C \cup {NoEntry}
  BY MapFacts
<1>2. PICK pos : Numbers(pos, m)
  BY DEF Ordered
<1>3. \A i \in C : ChainStep(m)[i] = IF next(i) # NoEntry THEN next(i) ELSE i
  BY <1>1 DEF ChainStep
<1>4. /\ f \in [0 .. N -> C] /\ f[0] = start
      /\ \A n \in 1 .. N : f[n] = ChainStep(m)[f[n - 1]]
  BY DEF IsWalk
<1>5. \A n \in 1 .. N : n - 1 \in 0 .. N /\ n \in 0 .. N /\ f[n - 1] \in C
  BY <1>1, <1>4
<1> DEFINE D == [n \in 0 .. N |-> {i \in C : next(i) = NoEntry \/ pos[i] + n <= N - 1}]
<1>6. f[0] \in D[0]
  BY <1>1, <1>2, <1>4 DEF Numbers
<1>7. ASSUME NEW n \in 1 .. N, f[n - 1] \in D[n - 1] PROVE f[n] \in D[n]
  <2> DEFINE i == f[n - 1]
  <2>1. i \in C /\ f[n] = IF next(i) # NoEntry THEN next(i) ELSE i
    BY <1>3, <1>4, <1>5
  <2>2. next(i) = NoEntry \/ pos[i] + (n - 1) <= N - 1
    BY <1>5, <1>7
  <2>3. CASE next(i) = NoEntry
    BY <1>5, <2>1, <2>3
  <2>4. CASE next(i) # NoEntry
    <3>1. next(i) \in C /\ pos[next(i)] < pos[i] /\ pos[next(i)] \in Nat /\ pos[i] \in Nat
      BY <1>1, <1>2, <2>1, <2>4 DEF Numbers
    <3>2. pos[next(i)] + n <= N - 1
      BY <1>1, <2>2, <2>4, <3>1
    <3> QED
      BY <1>5, <2>1, <2>4, <3>1, <3>2
  <2> QED
    BY <2>3, <2>4
<1>8. f[N] \in D[N]
  <2> HIDE DEF D
  <2> QED
    BY <1>1, <1>6, <1>7, KeptInRange
<1>9. f[N] \in C /\ (next(f[N]) = NoEntry \/ pos[f[N]] + N <= N - 1)
  BY <1>1, <1>8
<1> QED
  BY <1>1, <1>2, <1>9 DEF Numbers

LEMMA ChainEndFacts ==
  ASSUME NEW m, MapOK(m), Ordered(m), NEW start \in DOMAIN m.table
  PROVE  /\ ChainEnd(m, start) \in DOMAIN m.table
         /\ m.table[ChainEnd(m, start)].next = NoEntry
         /\ Reaches(m, start, ChainEnd(m, start))
<1> DEFINE N == m.cap_total
           C == DOMAIN m.table
           next(i) == m.table[i].next
<1>1. N \in Nat \ {0} /\ \A i \in C : next(i) \in C \cup {NoEntry}
  BY MapFacts
<1>2. /\ ChainStep(m) \in [C -> C]
      /\ \A i \in C : ChainStep(m)[i] = IF next(i) # NoEntry THEN next(i) ELSE i
  BY <1>1 DEF ChainStep
<1>3. PICK f : IsWalk(f, m, ChainStep(m), start) /\ f[N] = ChainEnd(m, start)
  BY <1>1, <1>2, WalkExists DEF ChainEnd
<1>4. f[N] \in C /\ next(f[N]) = NoEntry
  BY <1>3, ChainWalkEnds
<1>5. ASSUME NEW S \in SUBSET C, start \in S, Closed(S, m) PROVE f[N] \in S
  <2> DEFINE E == [n \in 0 .. N |-> S]
  <2>1. /\ f \in [0 .. N -> C] /\ f[0] = start
        /\ \A n \in 1 .. N : f[n] = ChainStep(m)[f[n - 1]]
    BY <1>3 DEF IsWalk
  <2>2. f[0] \in E[0] /\ E[N] = S
    BY <1>1, <1>5, <2>1
  <2>3. \A n \in 1 .. N : n - 1 \in 0 .. N /\ n \in 0 .. N /\ f[n - 1] \in C
    BY <1>1, <2>1
  <2>4. \A n \in 1 .. N : f[n - 1] \in E[n - 1] => f[n] \in E[n]
    BY <1>2, <1>5, <2>1, <2>3 DEF Closed
  <2> HIDE DEF E
  <2> QED
    BY <1>1, <2>2, <2>4, KeptInRange
<1> QED
  BY <1>3, <1>4, <1>5 DEF Reaches

(* What vd_intmap_set changes: one unused cell is filled, and the end of   *)
(* the home cell's chain is linked to it, if that was taken.               *)
Inserted(m, k, v, i, m2) ==
  LET h == Home(m, k)
      e == ChainEnd(m, h)
  IN  /\ i \in DOMAIN m.table /\ ~m.table[i].used
      /\ ~m.table[h].used => i = h
      /\ DOMAIN m2.table = DOMAIN m.table
      /\ m2.table[i] = [used |-> TRUE, k |-> k, v |-> v, next |-> NoEntry]
      /\ \A j \in DOMAIN m.table \ {i} :
           m2.table[j] = IF m.table[h].used /\ j = e THEN [m.table[j] EXCEPT !.next = i]
                                                    ELSE m.table[j]
      /\ m2.auto_grow = m.auto_grow /\ m2.cap = m.cap /\ m2.cap_total = m.cap_total
      /\ m2.usecount = m.usecount + 1
      /\ m2 \in Maps(m.cap_total)

LEMMA SetInserts ==
  ASSUME NEW m, MapOK(m), Ordered(m), HashOK, NEW k \in Keys, NEW v \in Nat,
         ~InsertFails(m, k)
  PROVE  Inserted(m, k, v, TargetCell(m, k), SetNoGrow(m, k, v))
<1> DEFINE h == Home(m, k)
           e == ChainEnd(m, h)
           i == TargetCell(m, k)
           C == DOMAIN m.table
           m1 == LinkTo(m, k, i)
           m2 == SetNoGrow(m, k, v)
           new == [used |-> TRUE, k |-> k, v |-> v, next |-> NoEntry]
<1>1. h \in C /\ C = 0 .. m.cap_total - 1 /\ m.cap_total \in Nat \ {0} /\ k \in Nat
  BY HomeCell, MapFacts, IntMapAssumption
<1>2. e \in C
  BY <1>1, ChainEndFacts
<1>3. i \in C /\ ~m.table[i].used /\ (~m.table[h].used => i = h)
  <2>1. CASE m.table[h].used
    <3>1. FreeCells(m) # {} /\ FreeCells(m) \subseteq 0 .. m.cap_total
      BY <1>1, <2>1 DEF InsertFails, FreeCells
    <3>2. Max(FreeCells(m)) \in FreeCells(m)
      BY <1>1, <3>1, GreatestOf
    <3> QED
      BY <2>1, <3>2 DEF TargetCell, FreeCells
  <2>2. CASE ~m.table[h].used
    BY <1>1, <2>2 DEF TargetCell
  <2> QED
    BY <2>1, <2>2
<1>4. m \in Maps(m.cap_total) /\ \A j \in C : m.table[j] \in Cell
  BY MapFacts DEF MapOK
<1>5. /\ m1 \in Maps(m.cap_total) /\ DOMAIN m1.table = C
      /\ \A j \in C : m1.table[j] = IF m.table[h].used /\ j = e THEN [m.table[j] EXCEPT !.next = i]
                                                               ELSE m.table[j]
      /\ m1.auto_grow = m.auto_grow /\ m1.cap = m.cap /\ m1.cap_total = m.cap_total
      /\ m1.usecount = m.usecount
  <2>1. CASE ~m.table[h].used
    BY <1>4, <2>1 DEF LinkTo
  <2>2. CASE m.table[h].used
    <3>1. m1 = [m EXCEPT !.table[e].next = i]
      BY <2>2 DEF LinkTo
    <3> HIDE DEF e, i, m1, h
    <3>2. [m.table[e] EXCEPT !.next = i] \in Cell
      <4>1. m.table[e] \in Cell /\ i \in Nat
        BY <1>1, <1>2, <1>3, <1>4
      <4> QED
        BY <4>1 DEF Cell
    <3> QED
      BY <1>1, <1>2, <1>4, <2>2, <3>1, <3>2 DEF Maps
  <2> QED
    BY <2>1, <2>2
<1>6. m2 = Fill(m1, i, k, v)
  BY DEF SetNoGrow
<1>7. new \in Cell
  BY <1>1 DEF Cell
<1> HIDE DEF e, i, m1, h, m2
<1>8. m2 = [m1 EXCEPT !.table[i] = new, !.usecount = m1.usecount + 1]
  BY <1>6, <1>4, <1>5 DEF Fill, Maps
<1>9. /\ m2 \in Maps(m.cap_total) /\ DOMAIN m2.table = C
      /\ m2.table[i] = new /\ \A j \in C \ {i} : m2.table[j] = m1.table[j]
      /\ m2.auto_grow = m1.auto_grow /\ m2.cap = m1.cap /\ m2.cap_total = m1.cap_total
      /\ m2.usecount = m1.usecount + 1
  <2>1. m1.table \in [0 .. m.cap_total - 1 -> Cell] /\ m1.usecount \in Nat
    BY <1>5 DEF Maps
  <2>2. /\ m2.table = [m1.table EXCEPT ![i] = new] /\ m2.usecount = m1.usecount + 1
        /\ m2.auto_grow = m1.auto_grow /\ m2.cap = m1.cap /\ m2.cap_total = m1.cap_total
        /\ m2 = [m1 EXCEPT !.table = m2.table, !.usecount = m2.usecount]
    BY <1>5, <1>8 DEF Maps
  <2>3. m2.table \in [0 .. m.cap_total - 1 -> Cell] /\ m2.usecount \in Nat
    <3> HIDE DEF new
    <3>1. m2.usecount \in Nat
      BY <2>1, <2>2
    <3>2. \A c \in Cell, t \in [0 .. m.cap_total - 1 -> Cell] :
            [t EXCEPT ![i] = c] \in [0 .. m.cap_total - 1 -> Cell]
      OBVIOUS
    <3> QED
      BY <1>7, <2>1, <2>2, <3>1, <3>2
  <2>4. m2 \in Maps(m.cap_total)
    BY <1>5, <2>2, <2>3 DEF Maps
  <2>5. m2.table[i] = new /\ \A j \in C \ {i} : m2.table[j] = m1.table[j]
    BY <1>1, <1>3, <2>1, <2>2
  <2> QED
    BY <1>1, <2>2, <2>3, <2>4, <2>5
<1> QED
  BY <1>3, <1>5, <1>9 DEF Inserted, e, i, h, m2

(* An insertion leaves a table without cycles: the filled cell gets the    *)
(* smallest number.                                                        *)
LEMMA InsertedOK ==
  ASSUME NEW m, MapOK(m), Ordered(m), HashOK, NEW k \in Keys, NEW v \in Nat,
         NEW i, NEW m2, Inserted(m, k, v, i, m2)
  PROVE  MapOK(m2) /\ Ordered(m2)
<1> DEFINE h == Home(m, k)
           e == ChainEnd(m, h)
           C == DOMAIN m.table
           N == m.cap_total
<1>1. h \in C /\ e \in C /\ m.table[e].next = NoEntry
  BY HomeCell, ChainEndFacts
<1>2. /\ N \in Nat \ {0} /\ C = 0 .. N - 1
      /\ \A j \in C : m.table[j] \in Cell /\ m.table[j].next \in C \cup {NoEntry}
  BY MapFacts
<1>3. /\ i \in C /\ ~m.table[i].used /\ DOMAIN m2.table = C
      /\ m2.table[i] = [used |-> TRUE, k |-> k, v |-> v, next |-> NoEntry]
      /\ \A j \in C \ {i} :
           m2.table[j] = IF m.table[h].used /\ j = e THEN [m.table[j] EXCEPT !.next = i]
                                                    ELSE m.table[j]
      /\ m2.cap = m.cap /\ m2.cap_total = N /\ m2 \in Maps(N)
  BY DEF Inserted
<1> HIDE DEF h, e
<1>4. \A j \in C \ {i} :
        /\ m2.table[j].used = m.table[j].used /\ m2.table[j].k = m.table[j].k
        /\ m2.table[j].v = m.table[j].v
        /\ m2.table[j].next \in {m.table[j].next, i}
  BY <1>2, <1>3 DEF Cell
<1>5. m2.table[i].next = NoEntry /\ m2.table[i].used /\ m2.table[i].k = k
  BY <1>3
<1>6. MapOK(m2)
  BY <1>2, <1>3, <1>4, <1>5 DEF MapOK
<1>7. PICK pos : Numbers(pos, m)
  BY DEF Ordered
<1> DEFINE new == [j \in C |-> IF j = i THEN 0 ELSE IF pos[j] < pos[i] THEN pos[j] + 1 ELSE pos[j]]
<1>8. /\ \A j \in C : pos[j] \in 0 .. N - 1
      /\ \A j, l \in C : pos[j] = pos[l] => j = l
      /\ \A j \in C : m.table[j].next # NoEntry => pos[m.table[j].next] < pos[j]
  BY <1>7 DEF Numbers
<1>9. /\ new \in [C -> 0 .. N - 1] /\ new[i] = 0
      /\ \A j \in C \ {i} : new[j] = IF pos[j] < pos[i] THEN pos[j] + 1 ELSE pos[j]
      /\ \A j \in C \ {i} : new[j] > 0
  BY <1>2, <1>3, <1>8
<1> HIDE DEF new
<1>13. \A j \in C : pos[j] \in Nat
  BY <1>2, <1>8
<1>10. ASSUME NEW j \in C, NEW l \in C, new[j] = new[l] PROVE j = l
  <2>1. CASE j = i \/ l = i
    BY <1>3, <1>9, <1>10, <2>1
  <2>2. CASE j # i /\ l # i
    <3>1. pos[j] # pos[i] /\ pos[l] # pos[i] /\ pos[i] \in Nat
      BY <1>3, <1>8, <1>13, <2>2
    <3>2. /\ new[j] = IF pos[j] < pos[i] THEN pos[j] + 1 ELSE pos[j]
          /\ new[l] = IF pos[l] < pos[i] THEN pos[l] + 1 ELSE pos[l]
      BY <1>9, <2>2
    <3>3. pos[j] = pos[l]
      <4>1. pos[j] \in Nat /\ pos[l] \in Nat /\ new[j] = new[l]
        BY <1>13, <1>10
      <4> QED
        BY <3>1, <3>2, <4>1
    <3> QED
      BY <1>8, <3>3
  <2> QED
    BY <2>1, <2>2
<1>11. \A j, l \in C \ {i} : pos[l] < pos[j] => new[l] < new[j]
  <2> TAKE j, l \in C \ {i}
  <2>1. pos[j] # pos[i] /\ pos[l] # pos[i] /\ pos[i] \in Nat
    BY <1>3, <1>8, <1>13
  <2>2. /\ new[j] = IF pos[j] < pos[i] THEN pos[j] + 1 ELSE pos[j]
        /\ new[l] = IF pos[l] < pos[i] THEN pos[l] + 1 ELSE pos[l]
    BY <1>9
  <2> QED
    BY <1>13, <2>1, <2>2
<1>12. ASSUME NEW j \in C, m2.table[j].next # NoEntry PROVE new[m2.table[j].next] < new[j]
  <2>1. j \in C \ {i}
    BY <1>5, <1>12
  <2>2. CASE m2.table[j].next = i
    BY <1>9, <2>1, <2>2
  <2>3. CASE m2.table[j].next # i /\ m2.table[j].next = m.table[j].next
    BY <1>2, <1>8, <1>11, <1>12, <2>1, <2>3
  <2> QED
    BY <1>4, <2>1, <2>2, <2>3
<1> QED
  BY <1>3, <1>6, <1>9, <1>10, <1>12 DEF Numbers, Ordered

-----------------------------------------------------------------------------
(* Tables into which was only inserted. *)

UsedCells(m) == {i \in DOMAIN m.table : m.table[i].used}

OnlyInserted(m) ==
  /\ m.usecount = Cardinality(UsedCells(m))
  /\ \A i \in DOMAIN m.table :
       m.table[i].next # NoEntry => i \in UsedCells(m) /\ m.table[i].next \in UsedCells(m)
  /\ \A i \in UsedCells(m) : Reaches(m, Home(m, m.table[i].k), i)

Distinct(m) ==
  \A i, j \in UsedCells(m) : m.table[i].k = m.table[j].k => i = j

LEMMA UsedFinite ==
  ASSUME NEW m, MapOK(m)
  PROVE  /\ IsFiniteSet(UsedCells(m)) /\ Cardinality(UsedCells(m)) \in Nat
         /\ Cardinality(UsedCells(m)) <= m.cap_total
         /\ Cardinality(UsedCells(m)) < m.cap_total => FreeCells(m) # {}
<1>1. m.cap_total \in Nat /\ DOMAIN m.table = 0 .. m.cap_total - 1
  BY MapFacts
<1>2. IsFiniteSet(DOMAIN m.table) /\ Cardinality(DOMAIN m.table) = m.cap_total
  <2>1. 0 \in Int /\ m.cap_total - 1 \in Int /\ m.cap_total >= 0
    BY <1>1
  <2>2. m.cap_total - 1 - 0 + 1 = m.cap_total /\ (0 > m.cap_total - 1 => m.cap_total = 0)
    BY <1>1
  <2>3. /\ IsFiniteSet(0 .. m.cap_total - 1)
        /\ Cardinality(0 .. m.cap_total - 1) =
             IF 0 > m.cap_total - 1 THEN 0 ELSE m.cap_total - 1 - 0 + 1
    BY <2>1, FS_Interval
  <2> QED
    BY <1>1, <2>2, <2>3
<1>3. UsedCells(m) \subseteq DOMAIN m.table
  BY DEF UsedCells
<1>4. IsFiniteSet(UsedCells(m)) /\ Cardinality(UsedCells(m)) <= m.cap_total
  BY <1>2, <1>3, FS_Subset
<1>5. FreeCells(m) = {} => UsedCells(m) = DOMAIN m.table
  BY DEF FreeCells, UsedCells
<1>6. Cardinality(UsedCells(m)) \in Nat
  BY <1>4, FS_CardinalityType
<1> QED
  BY <1>1, <1>2, <1>4, <1>5, <1>6

(* An insertion adds one cell in use and leaves the keys, the values and   *)
(* the chains of the others as they were.                                  *)
LEMMA InsertedKeeps ==
  ASSUME NEW m, MapOK(m), Ordered(m), HashOK, NEW k \in Keys, NEW v \in Nat,
         NEW i, NEW m2, Inserted(m, k, v, i, m2)
  PROVE  /\ i \in DOMAIN m.table \ UsedCells(m) /\ UsedCells(m2) = UsedCells(m) \cup {i}
         /\ m2.table[i].k = k /\ m2.table[i].v = v
         /\ \A j \in DOMAIN m.table \ {i} :
              m2.table[j].k = m.table[j].k /\ m2.table[j].v = m.table[j].v
         /\ OnlyInserted(m) => OnlyInserted(m2)
<1> DEFINE h == Home(m, k)
           e == ChainEnd(m, h)
           C == DOMAIN m.table
<1>1. h \in C /\ e \in C /\ m.table[e].next = NoEntry /\ Reaches(m, h, e)
  BY HomeCell, ChainEndFacts
<1>2. \A j \in C : m.table[j] \in Cell /\ m.table[j].next \in C \cup {NoEntry}
  BY MapFacts
<1>3. /\ i \in C /\ ~m.table[i].used /\ DOMAIN m2.table = C
      /\ ~m.table[h].used => i = h
      /\ m2.table[i] = [used |-> TRUE, k |-> k, v |-> v, next |-> NoEntry]
      /\ \A j \in C \ {i} :
           m2.table[j] = IF m.table[h].used /\ j = e THEN [m.table[j] EXCEPT !.next = i]
                                                    ELSE m.table[j]
      /\ m2.cap = m.cap /\ m2.usecount = m.usecount + 1
  BY DEF Inserted
<1> HIDE DEF h, e
<1>4. \A j \in C \ {i} :
        /\ m2.table[j].used = m.table[j].used /\ m2.table[j].k = m.table[j].k
        /\ m2.table[j].v = m.table[j].v
        /\ m2.table[j].next = IF m.table[h].used /\ j = e THEN i ELSE m.table[j].next
  BY <1>2, <1>3 DEF Cell
<1>5. /\ m2.table[i].next = NoEntry /\ m2.table[i].used
      /\ m2.table[i].k = k /\ m2.table[i].v = v
  BY <1>3
<1>6. UsedCells(m2) = UsedCells(m) \cup {i} /\ i \in C \ UsedCells(m)
  BY <1>3, <1>4, <1>5 DEF UsedCells
<1>7. ASSUME OnlyInserted(m) PROVE OnlyInserted(m2)
  <2>1. m2.usecount = Cardinality(UsedCells(m2))
    BY <1>3, <1>6, <1>7, UsedFinite, FS_AddElement DEF OnlyInserted
  <2>2. \A j \in C : m.table[j].next # NoEntry =>
                       j \in UsedCells(m) /\ m.table[j].next \in UsedCells(m)
    BY <1>7 DEF OnlyInserted
  <2>3. m.table[h].used => e \in UsedCells(m) /\ e # i
    <3>1. UsedCells(m) \in SUBSET C /\ Closed(UsedCells(m), m)
      BY <2>2 DEF UsedCells, Closed
    <3>2. m.table[h].used => h \in UsedCells(m)
      BY <1>1 DEF UsedCells
    <3> QED
      BY <1>1, <1>6, <3>1, <3>2 DEF Reaches
  <2>4. ASSUME NEW j \in C, m2.table[j].next # NoEntry
        PROVE  j \in UsedCells(m2) /\ m2.table[j].next \in UsedCells(m2)
    BY <1>4, <1>5, <1>6, <2>2, <2>3, <2>4
  <2>5. ASSUME NEW S \in SUBSET C, Closed(S, m2) PROVE Closed(S, m)
    <3> SUFFICES ASSUME NEW j \in S, m.table[j].next # NoEntry PROVE m.table[j].next \in S
      BY DEF Closed
    <3>1. j \in C /\ j # i /\ j # e
      BY <1>1, <1>6, <2>2
    <3> QED
      BY <1>4, <2>5, <3>1 DEF Closed
  <2>6. ASSUME NEW j \in UsedCells(m2) PROVE Reaches(m2, Home(m2, m2.table[j].k), j)
    <3>1. \A x : Home(m2, x) = Home(m, x)
      BY <1>3 DEF Home
    <3>2. CASE j # i
      <4>1. j \in UsedCells(m) /\ m2.table[j].k = m.table[j].k
        BY <1>4, <1>6, <2>6, <3>2 DEF UsedCells
      <4>2. Reaches(m, Home(m, m.table[j].k), j)
        BY <1>7, <4>1 DEF OnlyInserted
      <4> QED
        BY <1>3, <2>5, <3>1, <4>1, <4>2 DEF Reaches
    <3>3. CASE j = i
      <4>1. Home(m2, m2.table[j].k) = h
        BY <1>5, <3>1, <3>3 DEF h
      <4>2. ASSUME NEW S \in SUBSET C, h \in S, Closed(S, m2) PROVE i \in S
        <5>1. CASE ~m.table[h].used
          BY <1>3, <4>2, <5>1
        <5>2. CASE m.table[h].used
          <6>1. e \in S
            BY <1>1, <2>5, <4>2 DEF Reaches
          <6>2. m2.table[e].next = i /\ i # NoEntry
            <7>1. i \in 0 .. m.cap_total - 1
              BY <1>3, MapFacts
            <7> QED
              BY <1>1, <1>4, <2>3, <5>2, <7>1, MapFacts DEF NoEntry
          <6> QED
            BY <4>2, <6>1, <6>2 DEF Closed
        <5> QED
          BY <5>1, <5>2
      <4> QED
        BY <1>3, <3>3, <4>1, <4>2 DEF Reaches
    <3> QED
      BY <3>2, <3>3
  <2> QED
    BY <1>3, <2>1, <2>4, <2>6 DEF OnlyInserted
<1> QED
  BY <1>4, <1>5, <1>6, <1>7

(* A search finds the cell of its key. *)
LEMMA SearchFinds ==
  ASSUME NEW m, MapOK(m), Ordered(m), OnlyInserted(m), Distinct(m), HashOK,
         NEW c \in UsedCells(m)
  PROVE  StopCell(m, m.table[c].k) = c
<1> DEFINE k == m.table[c].k
           h == Home(m, k)
           N == m.cap_total
           C == DOMAIN m.table
           next(i) == m.table[i].next
           Match == {i \in UsedCells(m) : m.table[i].k = k}
<1>1. /\ N \in Nat \ {0} /\ \A i \in C : next(i) \in C \cup {NoEntry}
      /\ UsedCells(m) \subseteq C /\ c \in C
  BY MapFacts DEF UsedCells
<1>2. k \in Keys /\ h \in C
  BY <1>1, HomeCell DEF MapOK, UsedCells
<1>3. \A i \in C : next(i) # NoEntry => i \in UsedCells(m) /\ next(i) \in UsedCells(m)
  BY DEF OnlyInserted
<1>4. Reaches(m, h, c)
  BY DEF OnlyInserted
<1>5. h \in UsedCells(m)
  <2> SUFFICES ASSUME h \notin UsedCells(m) PROVE FALSE
    OBVIOUS
  <2>1. {h} \in SUBSET C /\ Closed({h}, m)
    BY <1>2, <1>3 DEF Closed
  <2> QED
    BY <1>4, <2>1 DEF Reaches
<1>6. /\ SearchStep(m, k) \in [C -> C]
      /\ \A i \in C : SearchStep(m, k)[i] =
           IF i \in UsedCells(m) /\ i \notin Match /\ next(i) # NoEntry THEN next(i) ELSE i
  BY <1>1 DEF SearchStep, UsedCells
<1>7. PICK f : IsWalk(f, m, SearchStep(m, k), h) /\ f[N] = StopCell(m, k)
  BY <1>1, <1>2, <1>6, WalkExists DEF StopCell
<1> HIDE DEF k, h, Match
<1>8. /\ f \in [0 .. N -> C] /\ f[0] = h
      /\ \A n \in 1 .. N : f[n] = SearchStep(m, k)[f[n - 1]]
  BY <1>7 DEF IsWalk
<1>9. \A n \in 1 .. N : n - 1 \in 0 .. N /\ n \in 0 .. N /\ f[n - 1] \in C
  BY <1>1, <1>8
<1>10. f[N] \in Match
  <2> SUFFICES ASSUME f[N] \notin Match PROVE FALSE
    OBVIOUS
  <2>1. ASSUME NEW n \in 0 .. N PROVE f[n] \notin Match
    <3> SUFFICES ASSUME f[n] \in Match PROVE FALSE
      OBVIOUS
    <3> DEFINE D == [j \in 0 .. N |-> IF j < n THEN C ELSE Match]
    <3>1. f[0] \in D[0] /\ D[N] = Match
      BY <1>1, <1>8
    <3>2. ASSUME NEW j \in 1 .. N, f[j - 1] \in D[j - 1] PROVE f[j] \in D[j]
      <4>1. CASE j < n
        BY <1>8, <1>9, <4>1
      <4>2. CASE j = n
        BY <1>9, <4>2
      <4>3. CASE n < j
        <5>1. ~(j - 1 < n)
          BY <4>3
        <5>2. f[j - 1] \in Match /\ f[j] = f[j - 1]
          BY <1>6, <1>8, <1>9, <3>2, <5>1
        <5> QED
          BY <1>9, <4>3, <5>2
      <4> QED
        BY <4>1, <4>2, <4>3
    <3> HIDE DEF D
    <3>3. f[N] \in D[N]
      BY <1>1, <3>1, <3>2, KeptInRange
    <3> QED
      BY <3>1, <3>3
  <2>2. \A n \in 0 .. N : f[n] \in UsedCells(m)
    <3> DEFINE D == [n \in 0 .. N |-> UsedCells(m)]
    <3>1. f[0] \in D[0] /\ \A n \in 0 .. N : D[n] = UsedCells(m)
      BY <1>1, <1>5, <1>8
    <3>2. \A n \in 1 .. N : f[n - 1] \in D[n - 1] => f[n] \in D[n]
      BY <1>3, <1>6, <1>8, <1>9
    <3> HIDE DEF D
    <3>3. \A n \in 0 .. N : f[n] \in D[n]
      BY <1>1, <3>1, <3>2, KeptInRange
    <3> QED
      BY <3>1, <3>3
  <2>3. \A n \in 1 .. N : f[n] = ChainStep(m)[f[n - 1]]
    BY <1>6, <1>8, <1>9, <2>1, <2>2 DEF ChainStep
  <2>4. IsWalk(f, m, ChainStep(m), h)
    BY <1>8, <2>3 DEF IsWalk
  <2>5. next(f[N]) = NoEntry
    BY <1>2, <2>4, ChainWalkEnds
  <2> DEFINE S == {f[n] : n \in 0 .. N}
  <2>6. S \in SUBSET C /\ h \in S
    BY <1>1, <1>8
  <2>7. ASSUME NEW i \in S, next(i) # NoEntry PROVE next(i) \in S
    <3>1. PICK n \in 0 .. N : i = f[n]
      OBVIOUS
    <3>2. n + 1 \in 1 .. N /\ n + 1 \in 0 .. N /\ n + 1 - 1 = n
      BY <1>1, <2>5, <2>7, <3>1
    <3>3. f[n + 1] = next(i)
      <4>1. f[n + 1] = ChainStep(m)[f[n + 1 - 1]]
        BY <2>3, <3>2
      <4>2. f[n + 1] = ChainStep(m)[i] /\ i \in C
        BY <1>8, <3>1, <3>2, <4>1
      <4> QED
        BY <2>7, <4>2 DEF ChainStep
    <3> QED
      BY <3>2, <3>3
  <2>8. Closed(S, m)
    BY <2>7 DEF Closed
  <2>9. c \in S
    BY <1>4, <2>6, <2>8 DEF Reaches
  <2>10. c \in Match
    BY DEF Match, k
  <2> QED
    BY <2>1, <2>9, <2>10
<1> QED
  BY <1>7, <1>10 DEF Distinct, Match, k

-----------------------------------------------------------------------------
(* vd_intmap_check_grow. *)

(* What is in the first n cells of m, and no more, is in the table r of    *)
(* twice the size.                                                         *)
Moved(m, n, r) ==
  /\ MapOK(r) /\ Ordered(r) /\ OnlyInserted(r)
  /\ r.cap_total = 2 * m.cap_total /\ r.auto_grow = m.auto_grow /\ r.usecount <= n
  /\ \A c \in UsedCells(r) : \E j \in UsedCells(m) :
       j < n /\ m.table[j].k = r.table[c].k /\ m.table[j].v = r.table[c].v
  /\ \A j \in UsedCells(m) : j < n =>
       \E c \in UsedCells(r) : m.table[j].k = r.table[c].k /\ m.table[j].v = r.table[c].v
  /\ Distinct(m) => Distinct(r)

LEMMA NothingMoved ==
  ASSUME NEW m, MapOK(m)
  PROVE  Moved(m, 0, NewMap(2 * m.cap_total, m.auto_grow))
<1> DEFINE r == NewMap(2 * m.cap_total, m.auto_grow)
<1>1. 2 * m.cap_total \in Nat \ {0} /\ m.auto_grow \in BOOLEAN /\ DOMAIN m.table \subseteq Nat
  BY MapFacts
<1>2. /\ MapOK(r) /\ Ordered(r)
      /\ r.cap_total = 2 * m.cap_total /\ r.auto_grow = m.auto_grow /\ r.usecount = 0
      /\ \A i \in DOMAIN r.table : r.table[i] = Cleared
  BY <1>1, NewMapOK
<1> HIDE DEF r
<1>3. UsedCells(r) = {} /\ \A i \in DOMAIN r.table : r.table[i].next = NoEntry
  BY <1>2 DEF UsedCells, Cleared
<1>4. OnlyInserted(r)
  BY <1>2, <1>3, FS_EmptySet DEF OnlyInserted
<1>5. \A j \in UsedCells(m) : ~(j < 0)
  BY <1>1 DEF UsedCells
<1> QED
  BY <1>2, <1>3, <1>4, <1>5 DEF Moved, Distinct, r

LEMMA OneMoved ==
  ASSUME NEW m, MapOK(m), HashOK, NEW n \in DOMAIN m.table, NEW r, Moved(m, n, r)
  PROVE  LET e == m.table[n]
         IN  Moved(m, n + 1, IF e.used THEN SetNoGrow(r, e.k, e.v) ELSE r)
<1> DEFINE e == m.table[n]
           i == TargetCell(r, e.k)
           r2 == SetNoGrow(r, e.k, e.v)
<1>1. /\ m.cap_total \in Nat \ {0} /\ n \in 0 .. m.cap_total - 1
      /\ \A j \in UsedCells(m) : j \in Nat
  BY MapFacts DEF UsedCells
<1>2. /\ MapOK(r) /\ Ordered(r) /\ OnlyInserted(r) /\ r.usecount \in Nat
      /\ r.cap_total = 2 * m.cap_total /\ r.auto_grow = m.auto_grow /\ r.usecount <= n
  BY MapFacts DEF Moved
<1>3. CASE ~e.used
  <2>1. n \notin UsedCells(m)
    BY <1>3 DEF UsedCells
  <2>2. \A j \in UsedCells(m) : j < n + 1 <=> j < n
    BY <1>1, <2>1
  <2>3. r.usecount <= n + 1
    BY <1>1, <1>2
  <2>4. Moved(m, n + 1, r)
    BY <2>2, <2>3 DEF Moved
  <2> QED
    BY <1>3, <2>4
<1>4. CASE e.used
  <2>1. n \in UsedCells(m) /\ e.k \in Keys /\ e.v \in Nat
    BY <1>4, MapFacts DEF MapOK, UsedCells
  <2>2. ~InsertFails(r, e.k)
    <3>1. Cardinality(UsedCells(r)) < r.cap_total
      BY <1>1, <1>2 DEF OnlyInserted
    <3> QED
      BY <1>2, <3>1, UsedFinite DEF InsertFails
  <2>3. Inserted(r, e.k, e.v, i, r2)
    BY <1>2, <2>1, <2>2, SetInserts
  <2> HIDE DEF i, r2
  <2>4. MapOK(r2) /\ Ordered(r2)
    BY <1>2, <2>1, <2>3, InsertedOK
  <2>5. /\ i \in DOMAIN r.table \ UsedCells(r) /\ UsedCells(r2) = UsedCells(r) \cup {i}
        /\ r2.table[i].k = e.k /\ r2.table[i].v = e.v
        /\ \A j \in DOMAIN r.table \ {i} :
             r2.table[j].k = r.table[j].k /\ r2.table[j].v = r.table[j].v
        /\ OnlyInserted(r2)
    BY <1>2, <2>1, <2>3, InsertedKeeps
  <2>6. \A c \in UsedCells(r) : /\ c # i /\ c \in UsedCells(r2)
                                /\ r2.table[c].k = r.table[c].k /\ r2.table[c].v = r.table[c].v
    BY <2>5 DEF UsedCells
  <2>7. \A j \in UsedCells(m) : j < n + 1 <=> j < n \/ j = n
    BY <1>1
  <2>8. ASSUME NEW c \in UsedCells(r2)
        PROVE  \E j \in UsedCells(m) :
                 j < n + 1 /\ m.table[j].k = r2.table[c].k /\ m.table[j].v = r2.table[c].v
    <3>1. CASE c = i
      BY <2>1, <2>5, <2>7, <3>1
    <3>2. CASE c \in UsedCells(r)
      BY <2>6, <2>7, <3>2 DEF Moved
    <3> QED
      BY <2>5, <3>1, <3>2
  <2>9. ASSUME NEW j \in UsedCells(m), j < n + 1
        PROVE  \E c \in UsedCells(r2) :
                 m.table[j].k = r2.table[c].k /\ m.table[j].v = r2.table[c].v
    <3>1. CASE j = n
      BY <2>5, <3>1
    <3>2. CASE j < n
      BY <2>6, <3>2 DEF Moved
    <3> QED
      BY <2>7, <2>9, <3>1, <3>2
  <2>10. ASSUME Distinct(m) PROVE Distinct(r2)
    <3>1. \A c \in UsedCells(r) : r.table[c].k # e.k
      <4> SUFFICES ASSUME NEW c \in UsedCells(r), r.table[c].k = e.k PROVE FALSE
        OBVIOUS
      <4>1. PICK j \in UsedCells(m) : j < n /\ m.table[j].k = r.table[c].k
        BY DEF Moved
      <4>2. j # n
        BY <1>1, <4>1
      <4> QED
        BY <2>1, <2>10, <4>1, <4>2 DEF Distinct
    <3> QED
      BY <2>5, <2>6, <2>10, <3>1 DEF Distinct, Moved
  <2>11. /\ r2.cap_total = 2 * m.cap_total /\ r2.auto_grow = m.auto_grow
         /\ r2.usecount <= n + 1
    BY <1>1, <1>2, <2>3 DEF Inserted
  <2>12. Moved(m, n + 1, r2)
    BY <2>4, <2>5, <2>8, <2>9, <2>10, <2>11 DEF Moved
  <2> QED
    BY <1>4, <2>12 DEF r2
<1> QED
  BY <1>3, <1>4

LEMMA RehashedMoved ==
  ASSUME NEW m, MapOK(m), HashOK
  PROVE  Moved(m, m.cap_total, Rehashed(m))
<1> DEFINE N == m.cap_total
           U == Maps(2 * N)
           D == [n \in 0 .. N |-> {r \in U : Moved(m, n, r)}]
           a == NewMap(2 * m.cap_total, m.auto_grow)
           One(n, r) == LET e == m.table[n - 1]
                        IN  IF e.used THEN SetNoGrow(r, e.k, e.v) ELSE r
           step == [p \in Nat \X U |-> One(p[1], p[2])]
           Defines(f) == f = [n \in 0 .. N |-> IF n = 0 THEN a ELSE One(n, f[n - 1])]
<1>1. N \in Nat \ {0} /\ DOMAIN m.table = 0 .. N - 1
  BY MapFacts
<1>2. \A n, r : Moved(m, n, r) => r \in U
  BY DEF Moved, MapOK
<1>3. \A n \in 0 .. N : D[n] = {r \in U : Moved(m, n, r)}
  OBVIOUS
<1>4. a \in D[0]
  BY <1>1, <1>2, <1>3, NothingMoved
<1>5. \A n \in 1 .. N : \A r : Moved(m, n - 1, r) => Moved(m, n, One(n, r))
  <2> TAKE n \in 1 .. N
  <2> TAKE r
  <2>1. n - 1 \in DOMAIN m.table /\ n - 1 + 1 = n
    BY <1>1
  <2> QED
    BY <2>1, OneMoved
<1>6. \A n \in Nat : \A r \in U : step[<<n, r>>] = One(n, r)
  OBVIOUS
<1>7. Rehashed(m) = (CHOOSE f : Defines(f))[N]
  BY DEF Rehashed
<1> HIDE DEF D, U, a, One, step
<1>8. \E f : Defines(f)
  <2>1. StepsIn(N, U, D, a, step)
    BY <1>1, <1>2, <1>3, <1>4, <1>5, <1>6 DEF StepsIn
  <2>2. PICK f : Recurs(f, N, U, a, step)
    BY <1>1, <2>1, Recursion
  <2>3. /\ f \in [0 .. N -> U] /\ f[0] = a
        /\ \A n \in 1 .. N : f[n] = step[<<n, f[n - 1]>>]
    BY <2>2 DEF Recurs
  <2>4. \A n \in 1 .. N : n \in Nat /\ f[n - 1] \in U
    BY <1>1, <2>3
  <2>5. \A n \in 1 .. N : f[n] = One(n, f[n - 1])
    BY <1>6, <2>3, <2>4
  <2> DEFINE g == [n \in 0 .. N |-> IF n = 0 THEN a ELSE One(n, f[n - 1])]
  <2>6. \A n \in 0 .. N : f[n] = g[n]
    BY <1>1, <2>3, <2>5
  <2>7. f = g
    <3>1. f = [n \in 0 .. N |-> f[n]] /\ g = [n \in 0 .. N |-> g[n]]
      BY <2>3
    <3> HIDE DEF g
    <3> QED
      BY <2>6, <3>1
  <2> QED
    BY <2>7
<1> DEFINE f == CHOOSE f : Defines(f)
<1>9. Defines(f)
  BY <1>8
<1> HIDE DEF f
<1>10. f[0] = a /\ \A n \in 1 .. N : f[n] = One(n, f[n - 1])
  BY <1>1, <1>9
<1>11. f[0] \in D[0] /\ \A n \in 1 .. N : f[n - 1] \in D[n - 1] => f[n] \in D[n]
  <2>1. \A n \in 1 .. N : n - 1 \in 0 .. N /\ n \in 0 .. N
    BY <1>1
  <2> QED
    BY <1>2, <1>3, <1>4, <1>5, <1>10, <2>1
<1>12. f[N] \in D[N]
  <2>1. N \in Nat /\ N \in 0 .. N
    BY <1>1
  <2> HIDE DEF N
  <2>2. \A n \in 0 .. N : f[n] \in D[n]
    BY <1>11, <2>1, KeptInRange
  <2> QED
    BY <2>1, <2>2
<1>13. Moved(m, N, f[N])
  BY <1>1, <1>3, <1>12
<1> QED
  BY <1>7, <1>13 DEF f

(* vd_intmap_check_grow makes the keys and the values of no cell up.       *)
LEMMA GrowKeeps ==
  ASSUME NEW m, MapOK(m), Ordered(m), HashOK
  PROVE  LET r == CheckGrow(m)
         IN  /\ MapOK(r) /\ Ordered(r)
             /\ \A c \in UsedCells(r) : \E j \in UsedCells(m) :
                  m.table[j].k = r.table[c].k /\ m.table[j].v = r.table[c].v
<1>1. Moved(m, m.cap_total, Rehashed(m))
  BY RehashedMoved
<1> QED
  BY <1>1 DEF CheckGrow, Moved

(* The table a fresh-keys client inserts into: what was in it before, and  *)
(* a free cell.                                                            *)
LEMMA GrowMakesRoom ==
  ASSUME NEW m, MapOK(m), Ordered(m), HashOK, OnlyInserted(m), Distinct(m), m.auto_grow
  PROVE  LET r == CheckGrow(m)
         IN  /\ OnlyInserted(r) /\ Distinct(r) /\ r.auto_grow /\ FreeCells(r) # {}
             /\ \A j \in UsedCells(m) : \E c \in UsedCells(r) :
                  m.table[j].k = r.table[c].k /\ m.table[j].v = r.table[c].v
<1> DEFINE r == CheckGrow(m)
<1>1. m.cap_total \in Nat \ {0} /\ \A j \in UsedCells(m) : j \in 0 .. m.cap_total - 1
  BY MapFacts DEF UsedCells
<1>2. CASE MustGrow(m)
  <2>1. r = Rehashed(m) /\ Moved(m, m.cap_total, r)
    BY <1>2, RehashedMoved DEF CheckGrow
  <2> HIDE DEF r
  <2>2. \A j \in UsedCells(m) : j < m.cap_total
    BY <1>1
  <2>3. Cardinality(UsedCells(r)) <= m.cap_total /\ r.cap_total = 2 * m.cap_total /\ MapOK(r)
    BY <2>1 DEF Moved, OnlyInserted
  <2>4. FreeCells(r) # {}
    BY <1>1, <2>3, UsedFinite
  <2> QED
    BY <2>1, <2>2, <2>4 DEF Moved, r
<1>3. CASE ~MustGrow(m)
  <2>1. r = m
    BY <1>3 DEF CheckGrow
  <2>2. Cardinality(UsedCells(m)) < m.cap_total
    BY <1>1, <1>3, UsedFinite DEF MustGrow, OnlyInserted
  <2>3. FreeCells(m) # {}
    BY <2>2, UsedFinite
  <2> QED
    BY <2>1, <2>3
<1> QED
  BY <1>2, <1>3

-----------------------------------------------------------------------------
(* Any client. *)

LEMMA StopCellInTable ==
  ASSUME NEW m, MapOK(m), HashOK, NEW k \in Keys
  PROVE  StopCell(m, k) \in DOMAIN m.table
<1> DEFINE N == m.cap_total
           C == DOMAIN m.table
<1>1. /\ N \in Nat \ {0} /\ Home(m, k) \in C
      /\ \A i \in C : m.table[i].next \in C \cup {NoEntry}
  BY MapFacts, HomeCell
<1>2. SearchStep(m, k) \in [C -> C]
  BY <1>1 DEF SearchStep
<1>3. PICK f : IsWalk(f, m, SearchStep(m, k), Home(m, k)) /\ f[N] = StopCell(m, k)
  BY <1>1, <1>2, WalkExists DEF StopCell
<1> QED
  BY <1>1, <1>3 DEF IsWalk

(* A deletion empties a cell and touches neither the other cells nor any   *)
(* link.                                                                   *)
LEMMA DelKeeps ==
  ASSUME NEW m, MapOK(m), Ordered(m), HashOK, NEW k \in Keys
  PROVE  LET d == DelOp(m, k)
         IN  /\ MapOK(d) /\ Ordered(d)
             /\ \A c \in UsedCells(d) :
                  /\ c \in UsedCells(m)
                  /\ m.table[c].k = d.table[c].k /\ m.table[c].v = d.table[c].v
<1> DEFINE d == DelOp(m, k)
           i == StopCell(m, k)
           C == DOMAIN m.table
           N == m.cap_total
           cleared == [m.table[i] EXCEPT !.used = FALSE, !.k = 0, !.v = 0]
           count == IF m.usecount > 0 THEN m.usecount - 1 ELSE m.usecount
<1>1. CASE Misses(m, k)
  BY <1>1 DEF DelOp
<1>2. CASE ~Misses(m, k)
  <2>1. /\ N \in Nat \ {0} /\ C = 0 .. N - 1 /\ m.usecount \in Nat /\ i \in C
        /\ m.table \in [0 .. N - 1 -> Cell] /\ m \in Maps(N)
        /\ \A j \in C : m.table[j] \in Cell /\ m.table[j].next \in C \cup {NoEntry}
    BY MapFacts, StopCellInTable DEF MapOK
  <2>2. count \in Nat
    BY <2>1
  <2>3. /\ cleared \in Cell /\ ~cleared.used /\ cleared.v = 0
        /\ cleared.next = m.table[i].next
    BY <2>1 DEF Cell
  <2>4. d = [m EXCEPT !.table[i].used = FALSE, !.table[i].k = 0, !.table[i].v = 0,
                      !.usecount = count]
    BY <1>2 DEF DelOp
  <2> HIDE DEF i, d, count
  <2>5. /\ d.table = [m.table EXCEPT ![i] = cleared] /\ d.usecount = count
        /\ d.auto_grow = m.auto_grow /\ d.cap = m.cap /\ d.cap_total = N
        /\ d = [m EXCEPT !.table = d.table, !.usecount = d.usecount]
    BY <2>1, <2>4 DEF Maps, Cell
  <2> HIDE DEF cleared
  <2>6. /\ d.table \in [0 .. N - 1 -> Cell] /\ d.table[i] = cleared
        /\ \A j \in C \ {i} : d.table[j] = m.table[j]
    BY <2>1, <2>3, <2>5
  <2>7. d \in Maps(N) /\ DOMAIN d.table = C
    BY <2>1, <2>2, <2>5, <2>6 DEF Maps
  <2>8. \A j \in C : d.table[j].next = m.table[j].next
    BY <2>3, <2>6
  <2>9. MapOK(d)
    BY <2>1, <2>3, <2>5, <2>6, <2>7, <2>8 DEF MapOK
  <2>10. PICK pos : Numbers(pos, m)
    BY DEF Ordered
  <2>11. Numbers(pos, d)
    BY <2>5, <2>7, <2>8, <2>10 DEF Numbers
  <2> QED
    BY <2>3, <2>6, <2>7, <2>9, <2>11 DEF Ordered, UsedCells, d
<1> QED
  BY <1>1, <1>2

(* Every cell in use holds a binding some client asked for. *)
AllWritten ==
  \A i \in UsedCells(map) :
    map.table[i].k \in DOMAIN written /\ map.table[i].v \in written[map.table[i].k]

AnyInv == MapOK(map) /\ Ordered(map) /\ HashOK /\ AllWritten

LEMMA AnyInit == Init => AnyInv
<1> SUFFICES ASSUME Init PROVE AnyInv
  OBVIOUS
<1>1. PICK i \in Inits : map = NewMap(i.cap_total, i.auto_grow)
  BY DEF Init
<1>2. i.cap_total \in Nat \ {0} /\ i.auto_grow \in BOOLEAN
  BY IntMapAssumption
<1>3. /\ MapOK(map) /\ Ordered(map)
      /\ \A c \in DOMAIN map.table : map.table[c] = Cleared
  BY <1>1, <1>2, NewMapOK
<1>4. UsedCells(map) = {}
  BY <1>3 DEF UsedCells, Cleared
<1>5. HashOK
  BY IntMapAssumption DEF Init, HashOK
<1> QED
  BY <1>3, <1>4, <1>5 DEF AnyInv, AllWritten

(* What vd_intmap_set leaves behind, failed or not. *)
LEMMA AnySet ==
  ASSUME AnyInv, NEW k \in Keys, NEW v \in Values, Set(k, v)
  PROVE  AnyInv'
<1> DEFINE m == CheckGrow(map)
           i == TargetCell(m, k)
<1>1. MapOK(map) /\ Ordered(map) /\ HashOK /\ AllWritten /\ v \in Nat
  BY IntMapAssumption DEF AnyInv
<1>2. /\ MapOK(m) /\ Ordered(m)
      /\ \A c \in UsedCells(m) :
           m.table[c].k \in DOMAIN written /\ m.table[c].v \in written[m.table[c].k]
  BY <1>1, GrowKeeps DEF AllWritten
<1>3. hash' = hash /\ HashOK'
  BY <1>1 DEF Set, HashOK
<1>4. CASE InsertFails(m, k)
  <2>1. map' = m /\ written' = written
    BY <1>4 DEF Set
  <2> HIDE DEF m
  <2> QED
    BY <1>2, <1>3, <2>1 DEF AnyInv, AllWritten
<1>5. CASE ~InsertFails(m, k)
  <2>1. /\ map' = SetNoGrow(m, k, v)
        /\ written' = [x \in DOMAIN written \cup {k} |->
                         IF x = k
                           THEN (IF k \in DOMAIN written THEN written[k] ELSE {}) \cup {v}
                           ELSE written[x]]
    BY <1>5 DEF Set
  <2> HIDE DEF m, i
  <2>2. Inserted(m, k, v, i, map')
    BY <1>1, <1>2, <1>5, <2>1, SetInserts DEF i
  <2>3. MapOK(map') /\ Ordered(map')
    BY <1>1, <1>2, <2>2, InsertedOK
  <2>4. /\ i \in DOMAIN m.table \ UsedCells(m) /\ UsedCells(map') = UsedCells(m) \cup {i}
        /\ map'.table[i].k = k /\ map'.table[i].v = v
        /\ \A j \in DOMAIN m.table \ {i} :
             map'.table[j].k = m.table[j].k /\ map'.table[j].v = m.table[j].v
    BY <1>1, <1>2, <2>2, InsertedKeeps
  <2>5. /\ DOMAIN written' = DOMAIN written \cup {k} /\ v \in written'[k]
        /\ \A x \in DOMAIN written : written[x] \subseteq written'[x]
    BY <2>1
  <2>6. ASSUME NEW c \in UsedCells(map')
        PROVE  map'.table[c].k \in DOMAIN written' /\ map'.table[c].v \in written'[map'.table[c].k]
    <3>1. CASE c = i
      BY <2>4, <2>5, <3>1
    <3>2. CASE c # i
      <4>1. c \in UsedCells(m) /\ c \in DOMAIN m.table \ {i}
        BY <2>4, <2>6, <3>2 DEF UsedCells
      <4> QED
        BY <1>2, <2>4, <2>5, <4>1
    <3> QED
      BY <3>1, <3>2
  <2> QED
    BY <1>3, <2>3, <2>6 DEF AnyInv, AllWritten
<1> QED
  BY <1>4, <1>5

LEMMA AnyDel ==
  ASSUME AnyInv, NEW k \in Keys, Del(k)
  PROVE  AnyInv'
<1>1. map' = DelOp(map, k) /\ hash' = hash /\ written' = written
  BY DEF Del
<1>2. /\ MapOK(map') /\ Ordered(map')
      /\ \A c \in UsedCells(map') :
           /\ c \in UsedCells(map)
           /\ map.table[c].k = map'.table[c].k /\ map.table[c].v = map'.table[c].v
  BY <1>1, DelKeeps DEF AnyInv
<1> QED
  BY <1>1, <1>2 DEF AnyInv, AllWritten, HashOK

LEMMA AnyUnchanged == AnyInv /\ UNCHANGED vars => AnyInv'
  BY DEF AnyInv, vars, AllWritten, HashOK

LEMMA AnyStep == AnyInv /\ [AnyNext(Keys)]_vars => AnyInv'
  BY AnySet, AnyDel, AnyUnchanged DEF AnyNext

LEMMA AnyInvariant == AnySpec => []AnyInv
  BY AnyInit, AnyStep, PTL DEF AnySpec

(* The walks of vd_intmap_tryget, set and del end, for any keys, hashes    *)
(* and table sizes and whatever was set, deleted and rehashed before.      *)
THEOREM ChainsAlwaysEnd == AnySpec => []ChainsEnd
<1>1. AnyInv => ChainsEnd
  BY ChainEndFacts DEF AnyInv, ChainsEnd
<1> QED
  BY <1>1, AnyInvariant, PTL

(* vd_intmap_tryget never answers with a value that was set for another    *)
(* key only, under any sequence of vd_intmap_set and vd_intmap_del.        *)
THEOREM NoValueOfAnotherKey == AnySpec => []NoForeignValue
<1>1. ASSUME AnyInv PROVE NoForeignValue
  <2> SUFFICES ASSUME NEW k \in Keys, TryGet(map, k).found, TryGet(map, k).v # 0
               PROVE  k \in DOMAIN written /\ TryGet(map, k).v \in written[k]
    BY DEF NoForeignValue
  <2> DEFINE c == StopCell(map, k)
  <2>1. c \in DOMAIN map.table
    BY <1>1, StopCellInTable DEF AnyInv
  <2>2. ~Misses(map, k) /\ TryGet(map, k).v = map.table[c].v
    BY DEF TryGet
  <2>3. map.table[c].used
    BY <1>1, <2>1, <2>2 DEF AnyInv, MapOK
  <2>4. map.table[c].k = k /\ c \in UsedCells(map)
    BY <2>1, <2>2, <2>3 DEF Misses, UsedCells
  <2> QED
    BY <1>1, <2>2, <2>4 DEF AnyInv, AllWritten
<1> QED
  BY <1>1, AnyInvariant, PTL

-----------------------------------------------------------------------------
(* The client that sets fresh keys, beside the one that does as it likes.  *)

(* Both clients of MCSpec are clients as AnySpec has them. *)
LEMMA ClientsAreClients == MCSpec => AnySpec
<1>1. MCInit => Init
  BY DEF MCInit
<1>2. [MCNext]_<<vars, client>> => [AnyNext(Keys)]_vars
  BY MCIntMapAssumption DEF MCNext, FreshNext, SetFresh, AnyNext, vars
<1> QED
  BY <1>1, <1>2, PTL DEF MCSpec, AnySpec

(* Every binding asked for is in a cell. *)
AllStored ==
  \A k \in DOMAIN written : \E c \in UsedCells(map) :
    map.table[c].k = k /\ written[k] = {map.table[c].v}

FreshInv ==
  client = "fresh" =>
    /\ OnlyInserted(map) /\ Distinct(map) /\ map.auto_grow /\ result = TRUE
    /\ AllStored
    /\ \A c \in UsedCells(map) : map.table[c].v \in Values

LEMMA FreshInit == MCInit => FreshInv
<1> SUFFICES ASSUME MCInit, client = "fresh" PROVE FreshInv
  BY DEF FreshInv
<1>1. Init /\ map.auto_grow
  BY DEF MCInit
<1>2. PICK i \in Inits : map = NewMap(i.cap_total, i.auto_grow)
  BY <1>1 DEF Init
<1>3. i.cap_total \in Nat \ {0} /\ i.auto_grow \in BOOLEAN
  BY IntMapAssumption
<1>4. map.usecount = 0 /\ \A c \in DOMAIN map.table : map.table[c] = Cleared
  BY <1>2, <1>3, NewMapOK
<1>5. UsedCells(map) = {} /\ \A c \in DOMAIN map.table : map.table[c].next = NoEntry
  BY <1>4 DEF UsedCells, Cleared
<1>6. OnlyInserted(map) /\ Distinct(map)
  BY <1>4, <1>5, FS_EmptySet DEF OnlyInserted, Distinct
<1>7. AllStored /\ result = TRUE
  BY <1>1 DEF Init, AllStored
<1> QED
  BY <1>1, <1>5, <1>6, <1>7 DEF FreshInv

LEMMA FreshSet ==
  ASSUME AnyInv, FreshInv, client = "fresh", client' = client,
         NEW k \in Keys, NEW v \in Values, SetFresh(k, v)
  PROVE  /\ FreshInv'
         /\ DOMAIN written' = DOMAIN written \cup {k}
         /\ \A x \in DOMAIN written : written'[x] = written[x]
<1> DEFINE m == CheckGrow(map)
           i == TargetCell(m, k)
<1>1. /\ MapOK(map) /\ Ordered(map) /\ HashOK /\ AllWritten /\ v \in Nat
      /\ OnlyInserted(map) /\ Distinct(map) /\ map.auto_grow /\ AllStored
      /\ \A c \in UsedCells(map) : map.table[c].v \in Values
  BY IntMapAssumption DEF AnyInv, FreshInv
<1>2. MapOK(m) /\ Ordered(m)
      /\ \A c \in UsedCells(m) : \E j \in UsedCells(map) :
           map.table[j].k = m.table[c].k /\ map.table[j].v = m.table[c].v
  BY <1>1, GrowKeeps
<1>3. /\ OnlyInserted(m) /\ Distinct(m) /\ m.auto_grow /\ FreeCells(m) # {}
      /\ \A j \in UsedCells(map) : \E c \in UsedCells(m) :
           map.table[j].k = m.table[c].k /\ map.table[j].v = m.table[c].v
  BY <1>1, GrowMakesRoom
<1>4. ~InsertFails(m, k)
  BY <1>3 DEF InsertFails
<1>5. /\ map' = SetNoGrow(m, k, v) /\ result' = TRUE /\ hash' = hash
      /\ k \notin DOMAIN written
      /\ written' = [x \in DOMAIN written \cup {k} |->
                       IF x = k
                         THEN (IF k \in DOMAIN written THEN written[k] ELSE {}) \cup {v}
                         ELSE written[x]]
  BY <1>4 DEF SetFresh, Set
<1> HIDE DEF m, i
<1>6. Inserted(m, k, v, i, map')
  BY <1>1, <1>2, <1>4, <1>5, SetInserts DEF i
<1>7. /\ i \in DOMAIN m.table \ UsedCells(m) /\ UsedCells(map') = UsedCells(m) \cup {i}
      /\ map'.table[i].k = k /\ map'.table[i].v = v
      /\ \A j \in DOMAIN m.table \ {i} :
           map'.table[j].k = m.table[j].k /\ map'.table[j].v = m.table[j].v
      /\ OnlyInserted(map')
  BY <1>1, <1>2, <1>3, <1>6, InsertedKeeps
<1>8. \A c \in UsedCells(m) : /\ c # i /\ c \in UsedCells(map')
                              /\ map'.table[c].k = m.table[c].k /\ map'.table[c].v = m.table[c].v
  BY <1>7 DEF UsedCells
<1>9. \A c \in UsedCells(m) : m.table[c].k \in DOMAIN written /\ m.table[c].v \in Values
  BY <1>1, <1>2 DEF AllWritten
<1>10. Distinct(map')
  BY <1>3, <1>5, <1>7, <1>8, <1>9 DEF Distinct
<1>11. /\ DOMAIN written' = DOMAIN written \cup {k} /\ written'[k] = {v}
       /\ \A x \in DOMAIN written : written'[x] = written[x]
  BY <1>5
<1>12. ASSUME NEW x \in DOMAIN written'
       PROVE  \E c \in UsedCells(map') : map'.table[c].k = x /\ written'[x] = {map'.table[c].v}
  <2>1. CASE x = k
    BY <1>7, <1>11, <2>1
  <2>2. CASE x \in DOMAIN written
    <3>1. PICK j \in UsedCells(map) : map.table[j].k = x /\ written[x] = {map.table[j].v}
      BY <1>1, <2>2 DEF AllStored
    <3>2. PICK c \in UsedCells(m) : map.table[j].k = m.table[c].k /\ map.table[j].v = m.table[c].v
      BY <1>3
    <3> QED
      BY <1>8, <1>11, <2>2, <3>1, <3>2
  <2> QED
    BY <1>11, <2>1, <2>2
<1>13. \A c \in UsedCells(map') : map'.table[c].v \in Values
  BY <1>7, <1>8, <1>9
<1>14. map'.auto_grow
  BY <1>3, <1>6 DEF Inserted
<1>15. OnlyInserted(map)'
  BY <1>5, <1>7 DEF OnlyInserted, Home
<1>16. FreshInv'
  BY <1>5, <1>10, <1>12, <1>13, <1>14, <1>15 DEF FreshInv, AllStored
<1> QED
  BY <1>11, <1>16

LEMMA FreshStep == AnyInv /\ FreshInv /\ [MCNext]_<<vars, client>> => FreshInv'
<1> SUFFICES ASSUME AnyInv, FreshInv, [MCNext]_<<vars, client>>, client' = "fresh" PROVE FreshInv'
  BY DEF FreshInv
<1>1. CASE MCNext
  <2>1. client = "fresh" /\ client' = client /\ FreshNext
    BY <1>1 DEF MCNext
  <2>2. PICK k \in Keys, v \in Values : SetFresh(k, v)
    BY <2>1 DEF FreshNext
  <2> QED
    BY <2>1, <2>2, FreshSet
<1>2. CASE UNCHANGED <<vars, client>>
  BY <1>2 DEF FreshInv, vars, AllStored, OnlyInserted, Home
<1> QED
  BY <1>1, <1>2

LEMMA FreshInvariant == MCSpec => [](AnyInv /\ FreshInv)
<1>1. MCSpec => []AnyInv
  BY ClientsAreClients, AnyInvariant, PTL
<1> QED
  BY <1>1, FreshInit, FreshStep, PTL DEF MCSpec

(* vd_intmap_set never fails a client that sets fresh keys in a table that *)
(* grows: vd_intmap_check_grow has left a free cell.                       *)
THEOREM FreshSetsAlwaysSucceed == MCSpec => []FreshSetsSucceed
<1>1. FreshInv => FreshSetsSucceed
  BY DEF FreshInv, FreshSetsSucceed, SetNeverFails
<1> QED
  BY <1>1, FreshInvariant, PTL

(* A lookup gives a fresh-keys client the one value it stored. *)
Answers ==
  client = "fresh" =>
    \A x \in DOMAIN written : Contents[x] \in Values /\ written[x] = {Contents[x]}

LEMMA LookupsAnswer == AnyInv /\ FreshInv => Answers
<1> SUFFICES ASSUME AnyInv, FreshInv, client = "fresh", NEW x \in DOMAIN written
             PROVE  Contents[x] \in Values /\ written[x] = {Contents[x]}
  BY DEF Answers
<1>1. PICK c \in UsedCells(map) : map.table[c].k = x /\ written[x] = {map.table[c].v}
  BY DEF FreshInv, AllStored
<1>2. StopCell(map, x) = c
  BY <1>1, SearchFinds DEF AnyInv, FreshInv
<1>3. TryGet(map, x).v = map.table[c].v
  BY <1>1, <1>2 DEF TryGet, Misses
<1>4. map.table[c].v \in Values
  BY DEF FreshInv
<1> QED
  BY <1>1, <1>3, <1>4 DEF Contents

Stored == IF client = "fresh" THEN Contents ELSE [k \in {} |-> 0]

LEMMA StoreInit == MCInit => Store!Init
<1> SUFFICES ASSUME MCInit PROVE Stored = [k \in {} |-> k]
  BY DEF Store!Init, Stored
<1>1. DOMAIN written = {}
  BY DEF MCInit, Init
<1> QED
  BY <1>1 DEF Stored, Contents

LEMMA StoreStep ==
  AnyInv /\ FreshInv /\ Answers /\ Answers' /\ [MCNext]_<<vars, client>>
    => [Store!Next]_Stored
<1> SUFFICES ASSUME AnyInv, FreshInv, Answers, Answers', [MCNext]_<<vars, client>>
             PROVE  Store!Next \/ Stored' = Stored
  OBVIOUS
<1>1. CASE client # "fresh"
  <2>1. client' # "fresh"
    BY <1>1 DEF MCNext
  <2> QED
    BY <1>1, <2>1 DEF Stored
<1>2. CASE client = "fresh" /\ UNCHANGED <<vars, client>>
  BY <1>2 DEF vars, Stored, Contents, TryGet, Misses, StopCell, SearchStep, Home
<1>3. CASE client = "fresh" /\ MCNext
  <2>1. client' = client /\ FreshNext
    BY <1>3 DEF MCNext
  <2>2. PICK k \in Keys, v \in Values : SetFresh(k, v)
    BY <2>1 DEF FreshNext
  <2>3. /\ DOMAIN written' = DOMAIN written \cup {k}
        /\ \A x \in DOMAIN written : written'[x] = written[x]
    BY <1>3, <2>1, <2>2, FreshSet
  <2>4. Stored = Contents /\ Stored' = Contents'
    BY <1>3, <2>1 DEF Stored
  <2>5. /\ DOMAIN Contents = DOMAIN written /\ DOMAIN Contents' = DOMAIN written'
        /\ Contents' = [x \in DOMAIN Contents' |-> Contents'[x]]
    BY DEF Contents
  <2>6. /\ \A x \in DOMAIN written : written[x] = {Contents[x]}
        /\ \A x \in DOMAIN written' : Contents'[x] \in Values /\ written'[x] = {Contents'[x]}
    BY <1>3, <2>1 DEF Answers
  <2>7. k \in Keys \ DOMAIN Contents
    BY <2>2, <2>5 DEF SetFresh
  <2>8. \A x \in DOMAIN written : {Contents'[x]} = {Contents[x]}
    BY <2>3, <2>6
  <2>9. \A x \in DOMAIN Contents : Contents'[x] = Contents[x]
    BY <2>5, <2>8
  <2>10. Contents' \in [DOMAIN Contents \cup {k} -> Values]
    BY <2>3, <2>5, <2>6
  <2>11. Store!Insert(k)
    BY <2>4, <2>7, <2>9, <2>10 DEF Store!Insert, Stored
  <2> QED
    BY <2>11 DEF Store!Next
<1> QED
  BY <1>1, <1>2, <1>3

(* To a client that sets fresh keys the hash table is a plain store that   *)
(* keeps every binding: what the handle map needs of its idmap.            *)
THEOREM IntMapRefinesStore == MCSpec => RefinesStore
<1>1. MCSpec => [](AnyInv /\ FreshInv /\ Answers)
  BY FreshInvariant, LookupsAnswer, PTL
<1>2. MCSpec => Store!Init
  BY StoreInit, PTL DEF MCSpec
<1>3. MCSpec => [][Store!Next]_Stored
  BY <1>1, StoreStep, PTL DEF MCSpec
<1> QED
  BY <1>2, <1>3, PTL DEF RefinesStore, Store!Spec, Stored
=============================================================================
