------------------------- MODULE ShellAndJsonProofs --------------------------
(***************************************************************************)
(* Two components that have nothing to do with each other.                 *)
(*                                                                         *)
(* The properties of the application's frames for any windows and any      *)
(* number of events in a poll. Only the last of them has to know what      *)
(* applying the commands makes of the table: no command takes a row away   *)
(* but the deletion of that row, so a table that ends up empty had a       *)
(* deletion queued for each of its rows.                                   *)
(*                                                                         *)
(* And the reader and the writer of JSON, for any registries, objects and  *)
(* layouts: no text that was cut short is taken for a whole one, and a     *)
(* whole one is read as an object of the type that was written.            *)
(***************************************************************************)
EXTENDS AppShell, MetaJson, SequenceTheorems, FiniteSetTheorems, InductionLemmas

(* The size of a window that changed is made good in the same frame: its   *)
(* flag is still set when the sizes are checked, and the flags that        *)
(* ClearFrameChanges leaves standing do no harm.                           *)
Sizes ==
  /\ stale \subseteq ToSet(rows)
  /\ phase \in {"poll", "resize"} => stale \subseteq just_resized
  /\ phase \in {"store", "apply"} => stale = {}

Inv ==
  /\ phase \in {"poll", "resize", "store", "apply", "quit", "fini"}
  /\ cmds \in Seq(ToSet(cmds))
  /\ Sizes /\ QuitMeansAllClosed

-----------------------------------------------------------------------------
LEMMA AppendedSet ==
  ASSUME NEW S, NEW s \in Seq(S), NEW x
  PROVE  /\ ToSet(Append(s, x)) = ToSet(s) \cup {x}
         /\ Append(s, x) \in Seq(ToSet(Append(s, x)))
<1>1. s \in Seq(S \cup {x})
  <2>1. Len(s) \in Nat /\ DOMAIN s = 1 .. Len(s) /\ \A i \in 1 .. Len(s) : s[i] \in S
    BY LenProperties, ElementOfSeq
  <2> QED
    BY <2>1, SeqDef, LenProperties
<1>2. /\ Append(s, x) \in Seq(S \cup {x})
      /\ Len(s) \in Nat /\ Len(Append(s, x)) = Len(s) + 1
      /\ \A i \in 1 .. Len(s) : Append(s, x)[i] = s[i]
      /\ Append(s, x)[Len(s) + 1] = x
  BY <1>1, AppendProperties, LenProperties
<1>3. /\ DOMAIN s = 1 .. Len(s) /\ DOMAIN Append(s, x) = 1 .. Len(s) + 1
  BY <1>1, <1>2, LenProperties
<1>4. ToSet(Append(s, x)) = ToSet(s) \cup {x}
  <2>1. \A i \in 1 .. Len(s) + 1 : i \in 1 .. Len(s) \/ i = Len(s) + 1
    BY <1>2
  <2>2. \A i \in 1 .. Len(s) : i \in 1 .. Len(s) + 1
    BY <1>2
  <2>3. Len(s) + 1 \in 1 .. Len(s) + 1
    BY <1>2
  <2> QED
    BY <1>2, <1>3, <2>1, <2>2, <2>3 DEF ToSet
<1>5. Append(s, x) \in Seq(ToSet(Append(s, x)))
  <2> DEFINE t == Append(s, x)
  <2>1. \A i \in 1 .. Len(t) : t[i] \in ToSet(t)
    BY <1>2, <1>3 DEF ToSet
  <2>2. t \in Seq(S \cup {x})
    BY <1>2
  <2> HIDE DEF t
  <2>3. t \in Seq(ToSet(t))
    <3>1. Len(t) \in Nat /\ t = [i \in 1 .. Len(t) |-> t[i]]
      BY <2>2, LenProperties
    <3> QED
      BY <2>1, <3>1, SeqDef
  <2> QED
    BY <2>3 DEF t
<1> QED
  BY <1>4, <1>5

LEMMA InitInv == Init => Inv
<1> SUFFICES ASSUME Init PROVE Inv
  OBVIOUS
<1>1. cmds \in Seq(ToSet(cmds))
  BY DEF Init
<1> QED
  BY <1>1 DEF Init, Inv, Sizes, QuitMeansAllClosed

(* A step that adds a command in the poll, and decides to quit at most     *)
(* when its command makes the deletions complete.                          *)
LEMMA Commanded ==
  ASSUME Inv, NEW c, cmds' = Append(cmds, c), phase = "poll",
         UNCHANGED <<rows, just_resized, stale, phase>>,
         should_close' =>
           should_close \/ \A w \in ToSet(rows) : c = [op |-> "delete", w |-> w]
  PROVE  Inv'
<1>1. ToSet(cmds)' = ToSet(cmds) \cup {c} /\ cmds' \in Seq(ToSet(cmds)')
  BY AppendedSet DEF Inv
<1>2. QuitMeansAllClosed'
  BY <1>1 DEF Inv, QuitMeansAllClosed
<1>3. Sizes'
  BY DEF Inv, Sizes
<1> QED
  BY <1>1, <1>2, <1>3 DEF Inv

LEMMA NextInv == Inv /\ [Next]_vars => Inv'
<1> SUFFICES ASSUME Inv, [Next]_vars PROVE Inv'
  OBVIOUS
<1>1. CASE KeyN
  <2>1. PICK w \in unused : cmds' = Append(cmds, [op |-> "add", w |-> w])
    BY <1>1 DEF KeyN
  <2> QED
    BY <1>1, <2>1, Commanded DEF KeyN, TakesEvent
<1>2. ASSUME NEW w \in ToSet(rows), CloseRequested(w) PROVE Inv'
  <2>1. Remaining(w) = {} => \A x \in ToSet(rows) : x = w
    BY DEF Remaining
  <2> QED
    BY <1>2, <2>1, Commanded DEF CloseRequested, TakesEvent
<1>3. ASSUME NEW w \in ToSet(rows), Resized(w) PROVE Inv'
  BY <1>3 DEF Resized, TakesEvent, Inv, Sizes, QuitMeansAllClosed
<1>4. CASE EndPoll
  BY <1>4 DEF EndPoll, Inv, Sizes, QuitMeansAllClosed
<1>5. CASE CheckSizeChange
  BY <1>5 DEF CheckSizeChange, Inv, Sizes, QuitMeansAllClosed
<1>6. CASE ClearFrameChanges
  BY <1>6 DEF ClearFrameChanges, Inv, Sizes, QuitMeansAllClosed
<1>7. CASE ApplyCommands
  <2>1. /\ phase = "apply" /\ phase' \in {"poll", "quit"}
        /\ phase' = "poll" => ~should_close'
        /\ stale' = stale \cap ToSet(rows') /\ cmds' = <<>>
    BY <1>7 DEF ApplyCommands
  <2>2. Sizes'
    BY <2>1 DEF Inv, Sizes
  <2>3. cmds' \in Seq(ToSet(cmds)')
    BY <2>1
  <2> QED
    BY <2>1, <2>2, <2>3 DEF Inv, QuitMeansAllClosed
<1>8. CASE RendererDeinit
  BY <1>8 DEF RendererDeinit, Inv, Sizes, QuitMeansAllClosed
<1>9. CASE UNCHANGED vars
  BY <1>9 DEF vars, Inv, Sizes, QuitMeansAllClosed
<1> QED
  BY <1>1, <1>2, <1>3, <1>4, <1>5, <1>6, <1>7, <1>8, <1>9 DEF Next, Frame

LEMMA SpecInv == Spec => []Inv
  BY InitInv, NextInv, PTL DEF Spec

-----------------------------------------------------------------------------
(* No frame is rendered into a swapchain of another size than its window.  *)
THEOREM FramesHaveWindowSize == Spec => []RenderedAtSize
<1>1. Inv => RenderedAtSize
  BY DEF Inv, Sizes, RenderedAtSize
<1> QED
  BY <1>1, SpecInv, PTL

(* When OnApplicationQuit has set should_close, every window in the table  *)
(* has its deletion queued.                                                *)
THEOREM QuitsWithLastWindow == Spec => []QuitMeansAllClosed
<1>1. Inv => QuitMeansAllClosed
  BY DEF Inv
<1> QED
  BY <1>1, SpecInv, PTL

-----------------------------------------------------------------------------
(* What the commands make of the table.                                    *)

Commands == [op : {"add", "delete"}, w : Windows]

Deletes(c, w) == c.op = "delete" /\ c.w = w

LEMMA AddedRow ==
  ASSUME NEW r \in Seq(Windows), NEW w \in Windows
  PROVE  Append(r, w) \in Seq(Windows) /\ ToSet(r) \subseteq ToSet(Append(r, w))
  BY AppendedSet, AppendProperties

LEMMA RemovedRow ==
  ASSUME NEW r \in Seq(Windows), NEW w \in Windows
  PROVE  /\ WithoutRow(r, w) \in Seq(Windows)
         /\ ToSet(r) \ {w} \subseteq ToSet(WithoutRow(r, w))
<1>1. Len(r) \in Nat /\ DOMAIN r = 1 .. Len(r) /\ \A i \in 1 .. Len(r) : r[i] \in Windows
  BY LenProperties, ElementOfSeq
<1>2. CASE w \notin ToSet(r)
  BY <1>2 DEF WithoutRow
<1>3. CASE w \in ToSet(r)
  <2> DEFINE i == CHOOSE j \in DOMAIN r : r[j] = w
             n == Len(r)
             out == IF i = n THEN Front(r) ELSE [Front(r) EXCEPT ![i] = Last(r)]
  <2>1. i \in 1 .. n /\ r[i] = w
    BY <1>1, <1>3 DEF ToSet
  <2>2. WithoutRow(r, w) = out
    BY <1>3 DEF WithoutRow
  <2> HIDE DEF i
  <2>3. /\ Front(r) \in [1 .. n - 1 -> Windows]
        /\ \A j \in 1 .. n - 1 : Front(r)[j] = r[j]
    <3>1. Front(r) = SubSeq(r, 1, n - 1) /\ n - 1 \in Int /\ 1 \in Int
      BY <1>1 DEF Front
    <3>2. \A j \in 1 .. n - 1 : r[j] \in Windows
      BY <1>1
    <3>3. /\ SubSeq(r, 1, n - 1) \in Seq(Windows)
          /\ Len(SubSeq(r, 1, n - 1)) = IF 1 <= n - 1 THEN n - 1 - 1 + 1 ELSE 0
          /\ \A j \in 1 .. n - 1 - 1 + 1 : SubSeq(r, 1, n - 1)[j] = r[1 + j - 1]
      BY ONLY <3>1, <3>2, SubSeqProperties
    <3>4. Front(r) \in Seq(Windows) /\ Len(Front(r)) = n - 1
          /\ \A j \in 1 .. n - 1 : Front(r)[j] = r[j]
      BY <1>1, <2>1, <3>1, <3>3
    <3>5. Front(r) \in [1 .. Len(Front(r)) -> Windows]
      BY <3>4, LenProperties
    <3> QED
      BY <3>4, <3>5
  <2>4. Last(r) = r[n] /\ Last(r) \in Windows
    BY <1>1, <2>1 DEF Last
  <2>5. /\ out \in [1 .. n - 1 -> Windows]
        /\ \A j \in 1 .. n - 1 : out[j] = IF j = i THEN r[n] ELSE r[j]
    BY <1>1, <2>1, <2>3, <2>4
  <2> HIDE DEF out
  <2>6. out \in Seq(Windows)
    <3>1. n - 1 \in Nat
      BY <1>1, <2>1
    <3> QED
      BY <2>5, <3>1, SeqDef
  <2>7. ASSUME NEW x \in ToSet(r) \ {w} PROVE x \in ToSet(out)
    <3>1. PICK j \in 1 .. n : r[j] = x
      BY <1>1 DEF ToSet
    <3>2. j # i /\ DOMAIN out = 1 .. n - 1
      BY <2>1, <2>5, <3>1
    <3>3. CASE j = n
      BY <1>1, <2>1, <2>5, <3>1, <3>2, <3>3 DEF ToSet
    <3>4. CASE j # n
      BY <1>1, <2>5, <3>1, <3>2, <3>4 DEF ToSet
    <3> QED
      BY <3>3, <3>4
  <2> QED
    BY <2>2, <2>6, <2>7
<1> QED
  BY <1>2, <1>3

LEMMA AppliedKeeps ==
  ASSUME NEW r \in Seq(Windows), NEW c \in Commands
  PROVE  /\ Applied(r, c) \in Seq(Windows)
         /\ \A w \in ToSet(r) : ~Deletes(c, w) => w \in ToSet(Applied(r, c))
  BY AddedRow, RemovedRow DEF Applied, Commands, Deletes

(* Only the deletion of a row takes it away. *)
LEMMA RowsAfterFacts ==
  ASSUME rows \in Seq(Windows), cmds \in Seq(Commands)
  PROVE  /\ RowsAfter \in Seq(Windows)
         /\ \A w \in ToSet(rows) \ Asked("delete") : w \in ToSet(RowsAfter)
<1> DEFINE N == Len(cmds)
           U == Seq(Windows)
           Kept == {r \in U : \A w \in ToSet(rows) \ Asked("delete") : w \in ToSet(r)}
           D == [n \in 0 .. N |-> Kept]
           step == [p \in Nat \X U |-> Applied(p[2], cmds[p[1]])]
           Defines(f) == f = [n \in 0 .. N |-> IF n = 0 THEN rows ELSE Applied(f[n - 1], cmds[n])]
<1>1. /\ N \in Nat /\ DOMAIN cmds = 1 .. N
      /\ \A n \in 1 .. N : cmds[n] \in Commands /\ cmds[n] \in ToSet(cmds)
  BY LenProperties, ElementOfSeq DEF ToSet
<1>2. \A n \in 0 .. N : D[n] = Kept
  OBVIOUS
<1>3. rows \in Kept /\ Kept \subseteq U
  OBVIOUS
<1>4. \A n \in 1 .. N : \A r \in Kept : Applied(r, cmds[n]) \in Kept
  <2> TAKE n \in 1 .. N
  <2> TAKE r \in Kept
  <2>1. Applied(r, cmds[n]) \in U
    BY <1>1, AppliedKeeps
  <2>2. ASSUME NEW w \in ToSet(rows) \ Asked("delete") PROVE w \in ToSet(Applied(r, cmds[n]))
    <3>1. ~Deletes(cmds[n], w)
      BY <1>1 DEF Deletes, Asked
    <3> QED
      BY <1>1, <3>1, AppliedKeeps
  <2> QED
    BY <2>1, <2>2
<1>5. \A n \in 1 .. N : n \in Nat /\ n \in 0 .. N /\ n - 1 \in 0 .. N
  BY <1>1
<1>6. \A n \in Nat : \A r \in U : step[<<n, r>>] = Applied(r, cmds[n])
  OBVIOUS
<1>7. RowsAfter = (CHOOSE f : Defines(f))[N]
  BY DEF RowsAfter
<1>8. 0 \in 0 .. N /\ N \in 0 .. N
  BY <1>1
<1> HIDE DEF D, U, Kept, step, N
<1>9. \E f : Defines(f)
  <2>1. StepsIn(N, U, D, rows, step)
    BY <1>2, <1>3, <1>4, <1>5, <1>6, <1>8 DEF StepsIn
  <2>2. PICK f : Recurs(f, N, U, rows, step)
    BY <1>1, <2>1, Recursion
  <2>3. /\ f \in [0 .. N -> U] /\ f[0] = rows
        /\ \A n \in 1 .. N : f[n] = step[<<n, f[n - 1]>>]
    BY <2>2 DEF Recurs
  <2>4. \A n \in 1 .. N : f[n] = Applied(f[n - 1], cmds[n])
    BY <1>5, <1>6, <2>3
  <2> DEFINE g == [n \in 0 .. N |-> IF n = 0 THEN rows ELSE Applied(f[n - 1], cmds[n])]
  <2>5. \A n \in 0 .. N : n # 0 => n \in 1 .. N
    BY <1>1
  <2>6. \A n \in 0 .. N : f[n] = g[n]
    BY <2>3, <2>4, <2>5
  <2>7. f = g
    <3>1. f = [n \in 0 .. N |-> f[n]] /\ g = [n \in 0 .. N |-> g[n]]
      BY <2>3
    <3> HIDE DEF g
    <3> QED
      BY <2>6, <3>1
  <2> QED
    BY <2>7
<1> DEFINE f == CHOOSE f : Defines(f)
<1>10. Defines(f)
  BY <1>9
<1> HIDE DEF f
<1>11. f[0] = rows /\ \A n \in 1 .. N : f[n] = Applied(f[n - 1], cmds[n])
  <2>1. \A n \in 1 .. N : n # 0
    BY <1>1
  <2> QED
    BY <1>5, <1>8, <1>10, <2>1
<1>12. f[0] \in D[0] /\ \A n \in 1 .. N : f[n - 1] \in D[n - 1] => f[n] \in D[n]
  BY <1>2, <1>3, <1>4, <1>5, <1>8, <1>11
<1>13. \A n \in 0 .. N : f[n] \in D[n]
  BY <1>1, <1>12, KeptInRange
<1>14. RowsAfter \in Kept
  BY <1>2, <1>7, <1>8, <1>13 DEF f
<1> QED
  BY <1>14 DEF Kept, U

-----------------------------------------------------------------------------
(* A queued deletion of the only row comes with the decision to quit. *)
CloseDecides ==
  \A c \in ToSet(cmds) : c.op = "delete" /\ ToSet(rows) \subseteq {c.w} => should_close

TableInv ==
  /\ rows \in Seq(Windows) /\ unused \subseteq Windows
  /\ cmds \in Seq(Commands)
  /\ CloseDecides

LEMMA TableInit == Init => TableInv
<1> SUFFICES ASSUME Init PROVE TableInv
  OBVIOUS
<1>1. MainWindow \in Windows
  BY AppShellAssumption
<1>2. <<MainWindow>> \in Seq(Windows) /\ cmds = <<>> /\ cmds \in Seq(Commands)
  BY <1>1 DEF Init
<1> QED
  BY <1>2 DEF Init, TableInv, CloseDecides, ToSet

LEMMA TableCommanded ==
  ASSUME TableInv, NEW c \in Commands, cmds' = Append(cmds, c), rows' = rows,
         unused' \subseteq unused, should_close => should_close',
         c.op = "delete" /\ Remaining(c.w) = {} => should_close'
  PROVE  TableInv'
<1>1. ToSet(cmds)' = ToSet(cmds) \cup {c}
  BY AppendedSet DEF TableInv
<1>2. cmds' \in Seq(Commands)
  BY AppendProperties DEF TableInv
<1> QED
  BY <1>1, <1>2 DEF TableInv, CloseDecides, Remaining

LEMMA TableStep == TableInv /\ [Next]_vars => TableInv'
<1> SUFFICES ASSUME TableInv, [Next]_vars PROVE TableInv'
  OBVIOUS
<1> DEFINE Same == UNCHANGED <<rows, cmds, unused, should_close>>
<1>1. CASE KeyN
  <2>1. PICK w \in unused : /\ cmds' = Append(cmds, [op |-> "add", w |-> w])
                            /\ unused' = unused \ {w}
    BY <1>1 DEF KeyN
  <2>2. [op |-> "add", w |-> w] \in Commands
    BY DEF Commands, TableInv
  <2> QED
    BY <1>1, <2>1, <2>2, TableCommanded DEF KeyN
<1>2. ASSUME NEW w \in ToSet(rows), CloseRequested(w) PROVE TableInv'
  <2>1. w \in Windows
    BY ElementOfSeq, LenProperties DEF TableInv, ToSet
  <2>2. [op |-> "delete", w |-> w] \in Commands
    BY <2>1 DEF Commands
  <2> QED
    BY <1>2, <2>2, TableCommanded DEF CloseRequested
<1>3. CASE Same
  BY <1>3 DEF TableInv, CloseDecides
<1>4. CASE ApplyCommands
  <2>1. rows' = RowsAfter /\ cmds' = <<>> /\ unused' = unused
    BY <1>4 DEF ApplyCommands
  <2>2. rows' \in Seq(Windows)
    BY <2>1, RowsAfterFacts DEF TableInv
  <2> QED
    BY <2>1, <2>2 DEF TableInv, CloseDecides, ToSet
<1>5. (\E w \in ToSet(rows) : Resized(w)) \/ EndPoll \/ CheckSizeChange \/ ClearFrameChanges
        \/ RendererDeinit \/ UNCHANGED vars => Same
  BY DEF Resized, EndPoll, CheckSizeChange, ClearFrameChanges, RendererDeinit, vars
<1> QED
  BY <1>1, <1>2, <1>3, <1>4, <1>5 DEF Next, Frame

LEMMA AskedFinite ==
  ASSUME cmds \in Seq(Commands)
  PROVE  IsFiniteSet(Asked("delete"))
<1> DEFINE I == {i \in 1 .. Len(cmds) : cmds[i].op = "delete"}
           M == [i \in I |-> cmds[i].w]
<1>1. IsFiniteSet(I)
  <2>1. IsFiniteSet(1 .. Len(cmds))
    BY FS_Interval, LenProperties
  <2> QED
    BY <2>1, FS_Subset
<1>2. DOMAIN cmds = 1 .. Len(cmds)
  BY LenProperties
<1>3. M \in [I -> Asked("delete")] /\ \A x \in Asked("delete") : \E i \in I : M[i] = x
  BY <1>2 DEF Asked, ToSet
<1> HIDE DEF I, M
<1>4. M \in Surjection(I, Asked("delete"))
  BY <1>3 DEF Surjection
<1> QED
  BY <1>1, <1>4, FS_Surjection

(* When the last window is closed the application quits, and not only in   *)
(* the next poll: the main loop is never left without a window by a frame  *)
(* that closes one (PollSDLEvents, OnApplicationQuit, ecs_progress).       *)
THEOREM LastCloseAlwaysQuits == Spec => []LastCloseQuits
<1>1. ASSUME TableInv PROVE LastCloseQuits
  <2> SUFFICES ASSUME rows # <<>>, Cardinality(Asked("delete")) <= 1, RowsAfter = <<>>
               PROVE  should_close
    BY DEF LastCloseQuits
  <2>1. ToSet(rows) \subseteq Asked("delete")
    BY <1>1, RowsAfterFacts DEF TableInv, ToSet
  <2>2. PICK w \in ToSet(rows) : TRUE
    <3>1. Len(rows) \in Nat \ {0} /\ DOMAIN rows = 1 .. Len(rows)
      BY <1>1, EmptySeq, LenProperties DEF TableInv
    <3> QED
      BY <3>1 DEF ToSet
  <2>3. IsFiniteSet(Asked("delete"))
    BY <1>1, AskedFinite DEF TableInv
  <2>4. \A x \in Asked("delete") : x = w
    <3> SUFFICES ASSUME NEW x \in Asked("delete"), x # w PROVE FALSE
      OBVIOUS
    <3>1. IsFiniteSet({w}) /\ Cardinality({w}) = 1
      BY FS_Singleton
    <3>2. x \notin {w}
      OBVIOUS
    <3>3. Cardinality({w} \cup {x}) = Cardinality({w}) + 1
      BY <3>1, <3>2, FS_AddElement
    <3>4. {w} \cup {x} \subseteq Asked("delete")
      BY <2>1
    <3>5. Cardinality({w} \cup {x}) <= Cardinality(Asked("delete"))
      BY <2>3, <3>4, FS_Subset
    <3>6. Cardinality(Asked("delete")) \in Nat
      BY <2>3, FS_CardinalityType
    <3>7. 1 + 1 <= Cardinality(Asked("delete"))
      BY <3>1, <3>3, <3>5
    <3> HIDE DEF Asked
    <3> QED
      BY <3>6, <3>7
  <2>5. PICK c \in ToSet(cmds) : c.op = "delete" /\ c.w = w
    BY <2>1, <2>2 DEF Asked
  <2> QED
    BY <1>1, <2>1, <2>4, <2>5 DEF TableInv, CloseDecides
<1>2. Spec => []TableInv
  BY TableInit, TableStep, PTL DEF Spec
<1> QED
  BY <1>1, <1>2, PTL

-----------------------------------------------------------------------------
(* The reader and the writer of JSON. Every loop and every nesting of      *)
(* theirs is a function by recursion; the provers take no lemma about      *)
(* every operator, so the one that says that these functions exist names   *)
(* what each of them does in a step.                                       *)

Goes(which, a, i, s) ==
  CASE which = "nesting" ->
         <<s[1] + Depth(a.txt[i][1])[1], s[2] + Depth(a.txt[i][1])[2]>>
    [] which = "element" ->
         IF s.ret = More THEN NextElement(a.reg, a.txt, a.inner, a.f, a.arr, i - 1, s) ELSE s
    [] which = "field" ->
         IF s.ret = More THEN NextField(a.reg, a.txt, a.inner, a.t, a.base, s) ELSE s
    [] which = "name" ->
         IF s.ret = More THEN NextName(a.reg, a.txt, a.exp, s) ELSE s
    [] which = "reader" ->
         [o \in (DOMAIN a.reg) \X Nat \X Nat |-> ParseJsonObject(a.reg, a.txt, s, o[1], o[2], o[3])]
    [] which = "writer" ->
         [o \in Memories \X Nat \X (DOMAIN a.reg) |->
            WriteJsonObject(a.reg, s, o[1], o[2], o[3], a.pr)]
    [] which = "flatten" -> s \o a.seqs[i + 1]
    [] OTHER -> s

IsRun(g, which, a, start, n) ==
  g = [i \in 0 .. n |-> IF i = 0 THEN start ELSE Goes(which, a, i, g[i - 1])]

(* A loop of n steps leaves a value behind each of them.                   *)
LEMMA Runs ==
  ASSUME NEW which, NEW a, NEW start, NEW n \in Nat
  PROVE  \E g : IsRun(g, which, a, start, n)
<1> DEFINE Up(g, k) == g = [i \in 0 .. k |-> IF i = 0 THEN start ELSE Goes(which, a, i, g[i - 1])]
           S == {k \in 0 .. n : \E g : Up(g, k)}
<1>1. 0 \in S
  <2> DEFINE g == [i \in 0 .. 0 |-> start]
  <2>1. Up(g, 0)
    OBVIOUS
  <2> HIDE DEF g, Up
  <2> QED
    BY <2>1
<1>2. ASSUME NEW k \in 1 .. n, k - 1 \in S PROVE k \in S
  <2>1. PICK g : Up(g, k - 1)
    BY <1>2
  <2> DEFINE h == [i \in 0 .. k |-> IF i = k THEN Goes(which, a, k, g[k - 1]) ELSE g[i]]
  <2>2. \A i \in 0 .. k : h[i] = IF i = 0 THEN start ELSE Goes(which, a, i, h[i - 1])
    <3> TAKE i \in 0 .. k
    <3>1. CASE i = 0
      <4>1. g[0] = start /\ k # 0
        BY <2>1
      <4> QED
        BY <3>1, <4>1
    <3>2. CASE i = k
      <4>1. k # 0 /\ k - 1 \in 0 .. k /\ k - 1 # k
        OBVIOUS
      <4> QED
        BY <3>2, <4>1
    <3>3. CASE i # 0 /\ i # k
      <4>1. i \in 0 .. k - 1 /\ i - 1 \in 0 .. k /\ i - 1 # k
        BY <3>3
      <4>2. g[i] = Goes(which, a, i, g[i - 1])
        BY <2>1, <3>3, <4>1
      <4> QED
        BY <3>3, <4>1, <4>2
    <3> QED
      BY <3>1, <3>2, <3>3
  <2>3. h = [i \in 0 .. k |-> h[i]]
    OBVIOUS
  <2> HIDE DEF h
  <2>4. Up(h, k)
    BY <2>2, <2>3
  <2> HIDE DEF Up
  <2> QED
    BY <2>4
<1>3. 0 .. n \subseteq S
  <2> HIDE DEF S
  <2> QED
    BY <1>1, <1>2, RangeInduction
<1> QED
  BY <1>3 DEF IsRun

-----------------------------------------------------------------------------
(* How deep in braces a text is. *)

IsText(txt) == \E A : txt \in Seq(A)

Brace(c) == IF c = "brace" THEN 1 ELSE IF c = "endbrace" THEN -1 ELSE 0

Braces(txt, n) == Nesting(txt)[n][2]

LEMMA Texts ==
  ASSUME NEW txt, IsText(txt)
  PROVE  Len(txt) \in Nat /\ DOMAIN txt = 1 .. Len(txt)
BY DEF IsText

LEMMA NestingSteps ==
  ASSUME NEW txt, IsText(txt)
  PROVE  /\ Nesting(txt)[0] = <<0, 0>>
         /\ \A n \in 1 .. Len(txt) :
              Nesting(txt)[n] = <<Nesting(txt)[n - 1][1] + Depth(txt[n][1])[1],
                                  Nesting(txt)[n - 1][2] + Depth(txt[n][1])[2]>>
<1> DEFINE N == Len(txt)
           a == [txt |-> txt]
           Is(g) == g = [n \in 0 .. N |->
                          IF n = 0 THEN <<0, 0>>
                          ELSE <<g[n - 1][1] + Depth(txt[n][1])[1], g[n - 1][2] + Depth(txt[n][1])[2]>>]
<1>1. N \in Nat
  BY Texts
<1>2. \E g : IsRun(g, "nesting", a, <<0, 0>>, N)
  <2> HIDE DEF a, N
  <2> QED
    BY <1>1, Runs
<1>3. \A i, s : Goes("nesting", a, i, s) = <<s[1] + Depth(txt[i][1])[1], s[2] + Depth(txt[i][1])[2]>>
  BY DEF Goes
<1>4. \E g : Is(g)
  BY <1>2, <1>3 DEF IsRun
<1>5. Nesting(txt) = CHOOSE h : Is(h)
  BY DEF Nesting
<1>6. Is(Nesting(txt))
  <2> HIDE DEF Is
  <2> QED
    BY <1>4, <1>5
<1> QED
  BY <1>1, <1>6

LEMMA BraceSteps ==
  ASSUME NEW txt, IsText(txt)
  PROVE  /\ Braces(txt, 0) = 0
         /\ \A n \in 0 .. Len(txt) : Braces(txt, n) \in Int
         /\ \A n \in 1 .. Len(txt) : Braces(txt, n) = Braces(txt, n - 1) + Brace(txt[n][1])
<1>1. ASSUME NEW c PROVE Depth(c)[2] = Brace(c) /\ Brace(c) \in Int
  <2>1. CASE c = "brace"
    <3>1. Depth(c) = <<0, 1>>
      BY <2>1 DEF Depth
    <3>2. Depth(c)[2] = 1
      BY ONLY <3>1
    <3>3. Brace(c) = 1
      BY <2>1 DEF Brace
    <3> QED
      BY <3>2, <3>3
  <2>2. CASE c = "endbrace"
    <3>1. Depth(c) = <<0, -1>>
      BY <2>2 DEF Depth
    <3>2. Depth(c)[2] = -1
      BY ONLY <3>1
    <3>3. Brace(c) = -1
      BY <2>2 DEF Brace
    <3> QED
      BY <3>2, <3>3
  <2>3. CASE c \in {"bracket", "endbracket"}
    <3>1. Depth(c) = <<1, 0>> \/ Depth(c) = <<-1, 0>>
      BY <2>3 DEF Depth
    <3>2. Depth(c)[2] = 0
      BY ONLY <3>1
    <3>3. Brace(c) = 0
      BY <2>3 DEF Brace
    <3> QED
      BY <3>2, <3>3
  <2>4. CASE c \notin {"bracket", "endbracket", "brace", "endbrace"}
    <3>1. Depth(c) = <<0, 0>>
      BY <2>4 DEF Depth
    <3>2. Depth(c)[2] = 0
      BY ONLY <3>1
    <3>3. Brace(c) = 0
      BY <2>4 DEF Brace
    <3> QED
      BY <3>2, <3>3
  <2> QED
    BY <2>1, <2>2, <2>3, <2>4
<1>2. Braces(txt, 0) = 0
  BY NestingSteps DEF Braces
<1>3. \A n \in 1 .. Len(txt) : Braces(txt, n) = Braces(txt, n - 1) + Brace(txt[n][1])
  BY <1>1, NestingSteps DEF Braces
<1>4. \A n \in 0 .. Len(txt) : Braces(txt, n) \in Int
  <2> DEFINE S == {n \in 0 .. Len(txt) : Braces(txt, n) \in Int}
  <2>1. Len(txt) \in Nat
    BY Texts
  <2>2. 0 \in S
    BY <1>2, <2>1
  <2>3. ASSUME NEW n \in 1 .. Len(txt), n - 1 \in S PROVE n \in S
    BY <1>1, <1>3, <2>1, <2>3
  <2> HIDE DEF S
  <2>4. 0 .. Len(txt) \subseteq S
    BY <2>1, <2>2, <2>3, RangeInduction
  <2> QED
    BY <2>4 DEF S
<1> QED
  BY <1>2, <1>3, <1>4

-----------------------------------------------------------------------------
(* What lies between two places of a text opens as many braces as it       *)
(* closes.                                                                 *)

Places(txt) == 1 .. Len(txt) + 1

Even(txt, p, q) ==
  /\ p \in Places(txt) /\ q \in Places(txt) /\ p <= q
  /\ Braces(txt, q - 1) = Braces(txt, p - 1)

LEMMA EvenSteps ==
  ASSUME NEW txt, IsText(txt), NEW p, NEW q, NEW r, Even(txt, p, q), Even(txt, q, r)
  PROVE  Even(txt, p, r)
BY Texts DEF Even, Places

LEMMA EvenAtOnce ==
  ASSUME NEW txt, IsText(txt), NEW p \in Places(txt)
  PROVE  Even(txt, p, p) /\ p \in Nat /\ p + 1 \in Nat
BY Texts DEF Even, Places

(* Tokens that are no braces.                                              *)
LEMMA EvenFlat ==
  ASSUME NEW txt, IsText(txt), NEW p \in Places(txt), NEW q \in Places(txt), p <= q,
         \A i \in p .. q - 1 : Brace(txt[i][1]) = 0
  PROVE  Even(txt, p, q)
<1> DEFINE S == {k \in 0 .. q - p : Braces(txt, p - 1 + k) = Braces(txt, p - 1)}
<1>1. Len(txt) \in Nat /\ p \in Int /\ q \in Int /\ q - p \in Nat
  BY Texts DEF Places
<1>2. 0 \in S
  BY <1>1
<1>3. ASSUME NEW k \in 1 .. q - p, k - 1 \in S PROVE k \in S
  <2> DEFINE i == p - 1 + k
  <2>1. i \in 1 .. Len(txt) /\ i \in p .. q - 1 /\ i - 1 = p - 1 + (k - 1)
    BY <1>1 DEF Places
  <2>2. Braces(txt, p - 1 + (k - 1)) = Braces(txt, p - 1)
    BY <1>3
  <2> HIDE DEF i
  <2>3. Braces(txt, i) = Braces(txt, i - 1) + Brace(txt[i][1])
    BY <2>1, BraceSteps
  <2>4. Brace(txt[i][1]) = 0
    BY <2>1
  <2>5. p - 1 \in 0 .. Len(txt) /\ Braces(txt, p - 1) \in Int
    BY <1>1, BraceSteps DEF Places
  <2>6. Braces(txt, i) = Braces(txt, p - 1)
    BY <2>1, <2>2, <2>3, <2>4, <2>5
  <2> QED
    BY <2>6 DEF i
<1> HIDE DEF S
<1>4. 0 .. q - p \subseteq S
  BY <1>1, <1>2, <1>3, RangeInduction
<1>5. q - p \in S
  BY <1>1, <1>4
<1>6. p - 1 + (q - p) = q - 1
  BY <1>1
<1> QED
  BY <1>5, <1>6 DEF S, Even

LEMMA TokenAt ==
  ASSUME NEW txt, IsText(txt), NEW p \in Places(txt), At(txt, p) # "end"
  PROVE  p \in 1 .. Len(txt) /\ p + 1 \in Places(txt) /\ At(txt, p) = txt[p][1]
BY Texts DEF At, Places

LEMMA EvenToken ==
  ASSUME NEW txt, IsText(txt), NEW p \in Places(txt), At(txt, p) \notin {"brace", "endbrace", "end"}
  PROVE  Even(txt, p, p + 1)
<1>1. p \in 1 .. Len(txt) /\ p + 1 \in Places(txt) /\ At(txt, p) = txt[p][1] /\ p \in Nat
  BY TokenAt, Texts
<1>2. \A i \in p .. p + 1 - 1 : i = p
  BY <1>1
<1>3. Brace(txt[p][1]) = 0
  BY <1>1 DEF Brace
<1>4. \A i \in p .. p + 1 - 1 : Brace(txt[i][1]) = 0
  BY <1>2, <1>3
<1>5. p <= p + 1
  BY <1>1
<1> QED
  BY <1>1, <1>4, <1>5, EvenFlat

LEMMA EvenSpace ==
  ASSUME NEW txt, IsText(txt), NEW p \in Places(txt)
  PROVE  /\ SkipSpace(txt, p) \in Places(txt) /\ Even(txt, p, SkipSpace(txt, p))
<1> DEFINE S == {q \in p .. Len(txt) + 1 : At(txt, q) # "space"}
           q == SkipSpace(txt, p)
<1>1. Len(txt) \in Nat /\ p \in Nat
  BY Texts DEF Places
<1>2. CASE p > Len(txt)
  BY <1>2, EvenAtOnce DEF SkipSpace
<1>3. CASE ~(p > Len(txt))
  <2>1. q = Min(S)
    BY <1>3 DEF SkipSpace
  <2>a. At(txt, Len(txt) + 1) # "space"
    BY <1>1 DEF At
  <2>b. Len(txt) + 1 \in S
    BY <1>1, <2>a DEF Places
  <2>c. S \subseteq p .. Len(txt) + 1
    OBVIOUS
  <2>2. Len(txt) + 1 \in S /\ S \subseteq Nat
    <3> HIDE DEF S
    <3> QED
      BY <1>1, <2>b, <2>c
  <2>3. Min(S) \in S /\ \A y \in S : Min(S) <= y
    <3> HIDE DEF S
    <3> QED
      BY <2>2, LeastOf
  <2>4. q \in p .. Len(txt) + 1
    BY <2>1, <2>3
  <2>5. ASSUME NEW i \in p .. q - 1 PROVE Brace(txt[i][1]) = 0
    <3>1. i \in p .. Len(txt) + 1 /\ ~(q <= i) /\ i <= Len(txt)
      BY <1>1, <2>4
    <3>2. At(txt, i) = "space"
      BY <2>1, <2>3, <3>1
    <3>3. txt[i][1] = "space"
      BY <3>1, <3>2 DEF At
    <3> QED
      BY <3>3 DEF Brace
  <2>6. q \in Places(txt) /\ p <= q
    BY <1>1, <2>4 DEF Places
  <2> HIDE DEF q
  <2> QED
    BY <2>5, <2>6, EvenFlat DEF q
<1> QED
  BY <1>2, <1>3

(* A value that is skipped ends at a comma, as deep as it began.           *)
LEMMA EvenSkip ==
  ASSUME NEW txt, IsText(txt), NEW p \in Places(txt), SkipValue(txt, p) # 0
  PROVE  \E q \in Places(txt) :
           SkipValue(txt, p) = q + 1 /\ p <= q /\ At(txt, q) = "comma"
           /\ Even(txt, p, q) /\ Even(txt, p, q + 1)
<1> DEFINE S == {q \in p .. Len(txt) : At(txt, q) = "comma" /\ Nesting(txt)[q - 1] = Nesting(txt)[p - 1]}
           q == Min(S)
<1>1. Len(txt) \in Nat /\ p \in Nat
  BY Texts DEF Places
<1>2. S # {} /\ SkipValue(txt, p) = Min(S) + 1
  BY DEF SkipValue
<1>3. Min(S) \in S
  <2>1. S \subseteq p .. Len(txt)
    OBVIOUS
  <2> HIDE DEF S
  <2>2. S \subseteq Nat
    BY <1>1, <2>1
  <2> QED
    BY <1>2, <2>2, LeastOf
<1>4. q \in p .. Len(txt) /\ At(txt, q) = "comma" /\ Nesting(txt)[q - 1] = Nesting(txt)[p - 1]
  BY <1>3
<1> HIDE DEF q
<1>a. q \in Places(txt) /\ p <= q
  BY ONLY <1>1, <1>4 DEF Places
<1>5. Even(txt, p, q)
  BY <1>4, <1>a DEF Even, Braces
<1>6. Even(txt, q, q + 1)
  BY <1>4, <1>a, EvenToken
<1>7. Even(txt, p, q + 1)
  BY <1>5, <1>6, EvenSteps
<1> QED
  BY <1>2, <1>4, <1>a, <1>5, <1>7 DEF q

-----------------------------------------------------------------------------
(* Commas behind which a loop of the reader can start a pass.              *)

AllCommas(txt) == {q \in DOMAIN txt : At(txt, q) = "comma"}
CommasTo(txt, p) == {q \in AllCommas(txt) : q < p}

Commas(txt, p) == Cardinality(CommasTo(txt, p))

LEMMA CommaSets ==
  ASSUME NEW txt, IsText(txt)
  PROVE  /\ IsFiniteSet(AllCommas(txt)) /\ Cardinality(AllCommas(txt)) \in Nat
         /\ \A p : /\ IsFiniteSet(CommasTo(txt, p)) /\ Commas(txt, p) \in Nat
                   /\ Commas(txt, p) <= Cardinality(AllCommas(txt))
<1>1. IsFiniteSet(1 .. Len(txt))
  BY Texts, FS_Interval
<1>2. AllCommas(txt) \subseteq 1 .. Len(txt)
  BY Texts DEF AllCommas
<1>3. IsFiniteSet(AllCommas(txt)) /\ Cardinality(AllCommas(txt)) \in Nat
  BY <1>1, <1>2, FS_Subset, FS_CardinalityType
<1>4. ASSUME NEW p
      PROVE  /\ IsFiniteSet(CommasTo(txt, p)) /\ Commas(txt, p) \in Nat
             /\ Commas(txt, p) <= Cardinality(AllCommas(txt))
  <2>1. CommasTo(txt, p) \subseteq AllCommas(txt)
    BY DEF CommasTo
  <2> QED
    BY <1>3, <2>1, FS_Subset, FS_CardinalityType DEF Commas
<1> QED
  BY <1>3, <1>4

(* A comma between two places tells them apart.                            *)
LEMMA CommaPassed ==
  ASSUME NEW txt, IsText(txt), NEW p \in Places(txt), NEW q \in Places(txt), p <= q,
         At(txt, q) = "comma"
  PROVE  Commas(txt, p) + 1 <= Commas(txt, q + 1)
<1>1. q \in 1 .. Len(txt) /\ p \in Int /\ q \in Int
  BY TokenAt, Texts DEF Places
<1>2. CommasTo(txt, p) \cup {q} \subseteq CommasTo(txt, q + 1)
  <2>1. q \in AllCommas(txt)
    BY <1>1, Texts DEF AllCommas
  <2>2. \A x \in AllCommas(txt) : x \in Int
    BY Texts DEF AllCommas
  <2>3. ASSUME NEW x \in CommasTo(txt, p) PROVE x \in CommasTo(txt, q + 1)
    <3>1. x \in AllCommas(txt) /\ x < p
      BY DEF CommasTo
    <3>2. x < q + 1
      BY <1>1, <2>2, <3>1
    <3> QED
      BY <3>1, <3>2 DEF CommasTo
  <2>4. q \in CommasTo(txt, q + 1)
    BY <1>1, <2>1 DEF CommasTo
  <2> QED
    BY <2>3, <2>4
<1>3. q \notin CommasTo(txt, p)
  BY <1>1 DEF CommasTo
<1>4. IsFiniteSet(CommasTo(txt, p)) /\ IsFiniteSet(CommasTo(txt, q + 1))
  BY CommaSets
<1>5. Cardinality(CommasTo(txt, p) \cup {q}) = Commas(txt, p) + 1
  BY <1>3, <1>4, FS_AddElement DEF Commas
<1>6. Cardinality(CommasTo(txt, p) \cup {q}) <= Commas(txt, q + 1)
  BY <1>2, <1>4, FS_Subset DEF Commas
<1> QED
  BY <1>5, <1>6

LEMMA CommasBefore ==
  ASSUME NEW txt, IsText(txt), NEW p \in Places(txt), NEW q \in Places(txt), p <= q
  PROVE  Commas(txt, p) <= Commas(txt, q)
<1>1. CommasTo(txt, p) \subseteq CommasTo(txt, q)
  <2>1. \A x \in AllCommas(txt) : x \in Int
    BY Texts DEF AllCommas
  <2> QED
    BY <2>1, Texts DEF CommasTo, Places
<1> QED
  BY <1>1, CommaSets, FS_Subset DEF Commas

-----------------------------------------------------------------------------
(* What reading a value answers.                                           *)

IsState(r) == r = [ret |-> r.ret, pos |-> r.pos, stores |-> r.stores]

(* A value that was read ends behind where it starts, with no brace of its *)
(* own open.                                                               *)
ValueOK(txt, p, r) ==
  /\ IsState(r) /\ r.ret \in {Ok, INVALID_JSON}
  /\ r.ret = Ok => Even(txt, p, r.pos)

(* All objects read by inner are such values. *)
ReaderOK(reg, txt, inner) ==
  \A t \in DOMAIN reg, p \in Places(txt), addr \in Nat : ValueOK(txt, p, inner[<<t, p, addr>>])

RegistryOK(reg) ==
  \A t \in DOMAIN reg : reg[t].fields \in Seq(FieldsIn(reg)) /\ reg[t].size \in Nat

LEMMA States ==
  ASSUME NEW r, IsState(r), NEW p, NEW s
  PROVE  /\ IsState(Failed(r)) /\ Failed(r).ret = INVALID_JSON
         /\ IsState(Moved(r, p)) /\ Moved(r, p).ret = r.ret /\ Moved(r, p).pos = p
         /\ IsState(GoesOn(r, p)) /\ GoesOn(r, p).ret = More /\ GoesOn(r, p).pos = p
         /\ IsState(After(s, r)) /\ After(s, r).ret = r.ret /\ After(s, r).pos = r.pos
<1> DEFINE a == r.ret
           b == r.pos
           c == r.stores
<1>1. r = [ret |-> a, pos |-> b, stores |-> c]
  BY DEF IsState
<1> HIDE DEF a, b, c
<1>2. Failed(r) = [ret |-> INVALID_JSON, pos |-> b, stores |-> c]
  BY <1>1 DEF Failed
<1>3. Moved(r, p) = [ret |-> a, pos |-> p, stores |-> c]
  BY <1>1 DEF Moved
<1>4. GoesOn(r, p) = [ret |-> More, pos |-> p, stores |-> c]
  BY <1>3 DEF GoesOn
<1>5. After(s, r) = [ret |-> a, pos |-> b, stores |-> s.stores \o c]
  BY DEF After, a, b, c
<1> QED
  BY <1>2, <1>3, <1>4, <1>5 DEF a, b, c, IsState

LEMMA ParsedState ==
  ASSUME NEW p, NEW s
  PROVE  IsState(Parsed(p, s)) /\ Parsed(p, s).ret = Ok /\ Parsed(p, s).pos = p
BY DEF Parsed, IsState

LEMMA ParsedOK ==
  ASSUME NEW txt, NEW p, NEW q, Even(txt, p, q), NEW s
  PROVE  ValueOK(txt, p, Parsed(q, s))
BY ParsedState DEF ValueOK

LEMMA FailedOK ==
  ASSUME NEW txt, NEW p, NEW r, IsState(r)
  PROVE  ValueOK(txt, p, Failed(r))
BY States DEF ValueOK, Ok, INVALID_JSON

(* A value of a type is read: as many braces are closed as opened.         *)
LEMMA DescriptorOK ==
  ASSUME NEW txt, IsText(txt), NEW reg, NEW inner, ReaderOK(reg, txt, inner),
         NEW t \in DOMAIN reg, NEW p \in Places(txt), NEW addr \in Nat
  PROVE  ValueOK(txt, p, ParseJsonDescriptor(reg, txt, inner, t, p, addr))
<1> DEFINE r == ParseJsonDescriptor(reg, txt, inner, t, p, addr)
           n == SkipSpace(txt, p)
           class == GetDescriptor(reg, t).class
<1>1. n \in Places(txt) /\ Even(txt, p, n)
  BY EvenSpace
<1>2. Even(txt, p, p)
  BY EvenAtOnce
<1>3. CASE At(txt, p) = "brace"
  <2>1. r = inner[<<t, p, addr>>]
    BY <1>3 DEF ParseJsonDescriptor
  <2> QED
    BY <2>1 DEF ReaderOK
<1>4. CASE At(txt, p) # "brace" /\ class \in {"num", "float"}
  <2>1. CASE At(txt, n) = class
    <3>1. r = Parsed(n + 1, <<Put(addr, <<"num", txt[n][2]>>)>>)
      BY <1>4, <2>1 DEF ParseJsonDescriptor
    <3>2. Even(txt, n, n + 1)
      BY <1>1, <1>4, <2>1, EvenToken
    <3>3. Even(txt, p, n + 1)
      BY <1>1, <3>2, EvenSteps
    <3> QED
      BY <3>1, <3>3, ParsedOK
  <2>2. CASE At(txt, n) # class
    <3>1. r = Parsed(p, <<Put(addr, Zero)>>)
      BY <1>4, <2>2 DEF ParseJsonDescriptor
    <3> QED
      BY <1>2, <3>1, ParsedOK
  <2> QED
    BY <2>1, <2>2
<1>5. CASE At(txt, p) # "brace" /\ class \in {"char", "string"} /\ IsString(txt, p)
  <2>1. r = Parsed(p + 1, <<Put(addr, txt[p])>>)
    BY <1>5 DEF ParseJsonDescriptor
  <2>2. Even(txt, p, p + 1)
    BY <1>5, EvenToken DEF IsString
  <2> QED
    BY <2>1, <2>2, ParsedOK
<1>6. CASE /\ At(txt, p) # "brace" /\ class \notin {"num", "float"}
           /\ ~(class \in {"char", "string"} /\ IsString(txt, p))
  <2>1. r = Parsed(p, <<>>)
    BY <1>6 DEF ParseJsonDescriptor
  <2> QED
    BY <1>2, <2>1, ParsedOK
<1> QED
  BY <1>3, <1>4, <1>5, <1>6

-----------------------------------------------------------------------------
(* The loops of the reader over the elements of an array and the fields of *)
(* an object. They stop before their passes run out: each one that goes on *)
(* has left a comma behind. d braces are closed at the end.                *)

Closed(txt, p, d, q) ==
  q \in Places(txt) /\ p <= q /\ Braces(txt, q - 1) = Braces(txt, p - 1) - d

LoopOK(txt, p, d, i, s) ==
  /\ IsState(s) /\ s.ret \in {Ok, INVALID_JSON, More}
  /\ s.ret = More => Even(txt, p, s.pos) /\ i <= Commas(txt, s.pos)
  /\ s.ret = Ok => Closed(txt, p, d, s.pos)

Passes(txt) == Cardinality(AllCommas(txt)) + 2

LEMMA PassesNat ==
  ASSUME NEW txt, IsText(txt)
  PROVE  Passes(txt) \in Nat /\ Passes(txt) = Cardinality({q \in DOMAIN txt : At(txt, q) = "comma"}) + 2
<1>1. Passes(txt) \in Nat
  BY CommaSets DEF Passes
<1> QED
  BY <1>1 DEF Passes, AllCommas

LEMMA FailedGoes ==
  ASSUME NEW txt, NEW p, NEW d, NEW i, NEW s, IsState(s)
  PROVE  LoopOK(txt, p, d, i, Failed(s))
BY States DEF LoopOK, Ok, INVALID_JSON, More

(* A loop whose passes keep LoopOK ends before its passes run out.         *)
LEMMA LoopEnds ==
  ASSUME NEW txt, IsText(txt), NEW p \in Places(txt), NEW d, NEW which, NEW a, NEW g,
         IsRun(g, which, a, GoesOn(Parsed(p, <<>>), p), Passes(txt)),
         \A i \in 1 .. Passes(txt) : \A s :
           LoopOK(txt, p, d, i - 1, s) =>
             LoopOK(txt, p, d, i, Goes(which, a, i, s))
  PROVE  LET r == g[Passes(txt)]
         IN  /\ IsState(r) /\ r.ret \in {Ok, INVALID_JSON}
             /\ r.ret = Ok => Closed(txt, p, d, r.pos)
<1> DEFINE n == Passes(txt)
           S == {i \in 0 .. n : LoopOK(txt, p, d, i, g[i])}
           start == GoesOn(Parsed(p, <<>>), p)
<1>1. n \in Nat
  BY PassesNat
<1>2. 0 \in S
  <2>1. IsState(start) /\ start.ret = More /\ start.pos = p
    BY ParsedState, States
  <2>2. Even(txt, p, p)
    BY EvenAtOnce
  <2>3. Commas(txt, p) \in Nat
    BY CommaSets
  <2> HIDE DEF start
  <2>4. LoopOK(txt, p, d, 0, start)
    BY <2>1, <2>2, <2>3 DEF LoopOK, More, Ok
  <2>5. g[0] = start
    BY <1>1 DEF IsRun, start
  <2> QED
    BY <1>1, <2>4, <2>5
<1>3. ASSUME NEW i \in 1 .. n, i - 1 \in S PROVE i \in S
  <2>1. g[i] = Goes(which, a, i, g[i - 1])
    BY <1>1 DEF IsRun
  <2>2. LoopOK(txt, p, d, i - 1, g[i - 1])
    BY <1>3
  <2>3. LoopOK(txt, p, d, i, Goes(which, a, i, g[i - 1]))
    BY <2>2
  <2> QED
    BY <1>1, <2>1, <2>3
<1> HIDE DEF S, n
<1>4. n \in S
  BY <1>1, <1>2, <1>3, RangeInduction
<1>5. LoopOK(txt, p, d, n, g[n])
  BY <1>4 DEF S
<1>6. g[n].ret # More
  <2>1. Commas(txt, g[n].pos) <= Cardinality(AllCommas(txt))
    BY CommaSets
  <2>2. Cardinality(AllCommas(txt)) \in Nat /\ Commas(txt, g[n].pos) \in Nat
    BY CommaSets
  <2>3. ~(n <= Commas(txt, g[n].pos))
    BY <2>1, <2>2 DEF n, Passes
  <2> QED
    BY <1>5, <2>3 DEF LoopOK
<1> QED
  BY <1>5, <1>6 DEF LoopOK, n

LEMMA LoopStays ==
  ASSUME NEW txt, NEW p, NEW d, NEW i, NEW j, NEW s, s.ret # More, LoopOK(txt, p, d, i, s)
  PROVE  LoopOK(txt, p, d, j, s)
BY DEF LoopOK

(* A comma at q behind what was read up to r.pos. *)
LEMMA LoopGoes ==
  ASSUME NEW txt, IsText(txt), NEW p \in Places(txt), NEW d, NEW i \in Nat, NEW s, NEW r,
         IsState(r), NEW q, LoopOK(txt, p, d, i, s), s.ret = More,
         Even(txt, s.pos, q), At(txt, q) = "comma"
  PROVE  LoopOK(txt, p, d, i + 1, GoesOn(r, q + 1))
<1>1. Even(txt, p, s.pos) /\ i <= Commas(txt, s.pos)
  BY DEF LoopOK
<1>2. s.pos \in Places(txt) /\ q \in Places(txt) /\ s.pos <= q
  BY DEF Even
<1>3. Even(txt, q, q + 1)
  BY <1>2, EvenToken
<1>4. Even(txt, p, q + 1)
  BY <1>1, <1>2, <1>3, EvenSteps
<1>5. Commas(txt, s.pos) + 1 <= Commas(txt, q + 1) /\ Commas(txt, s.pos) \in Nat /\ Commas(txt, q + 1) \in Nat
  BY <1>2, CommaPassed, CommaSets
<1>6. i + 1 <= Commas(txt, q + 1)
  BY <1>1, <1>5
<1>7. IsState(GoesOn(r, q + 1)) /\ GoesOn(r, q + 1).ret = More /\ GoesOn(r, q + 1).pos = q + 1
  BY States
<1> HIDE DEF Even
<1> QED
  BY <1>4, <1>6, <1>7 DEF LoopOK, Ok, More

LEMMA ElementOK ==
  ASSUME NEW txt, IsText(txt), NEW reg, RegistryOK(reg), NEW inner, ReaderOK(reg, txt, inner),
         NEW f \in FieldsIn(reg), NEW i \in Nat, NEW p \in Places(txt), NEW arr \in Nat
  PROVE  ValueOK(txt, p, ParseElement(reg, txt, inner, f, i, p, arr))
<1> DEFINE size == GetDescriptor(reg, f.type).size
           item == ParseJsonDescriptor(reg, txt, inner, f.type, p, 0)
           at == arr + i * size
           x == <<Add(arr, Filled(size, Garbage, item.stores))>>
<1>1. f.type \in DOMAIN reg
  BY DEF FieldsIn
<1>2. at \in Nat
  <2>1. size \in Nat
    BY <1>1 DEF RegistryOK, GetDescriptor
  <2> HIDE DEF size
  <2>2. i * size \in Nat
    BY <2>1
  <2> QED
    BY <2>2
<1>3. CASE f.flag = "fixed"
  <2>1. ParseElement(reg, txt, inner, f, i, p, arr) = ParseJsonDescriptor(reg, txt, inner, f.type, p, at)
    BY <1>3 DEF ParseElement
  <2> HIDE DEF at
  <2> QED
    BY <1>1, <1>2, <2>1, DescriptorOK
<1>4. CASE f.flag # "fixed"
  <2>1. ParseElement(reg, txt, inner, f, i, p, arr) = [item EXCEPT !.stores = x]
    BY <1>4 DEF ParseElement
  <2>2. ValueOK(txt, p, item)
    BY <1>1, DescriptorOK
  <2> HIDE DEF item, x
  <2>3. item = [ret |-> item.ret, pos |-> item.pos, stores |-> item.stores]
    BY <2>2 DEF ValueOK, IsState
  <2> DEFINE y == ParseElement(reg, txt, inner, f, i, p, arr)
             b == item.pos
             c == item.ret
             e == item.stores
  <2>4. item = [ret |-> c, pos |-> b, stores |-> e] /\ y = [item EXCEPT !.stores = x]
    BY <2>1, <2>3
  <2> HIDE DEF y, b, c, e
  <2>5. y = [ret |-> c, pos |-> b, stores |-> x]
    BY ONLY <2>4
  <2>6. IsState(y) /\ y.ret = c /\ y.pos = b
    BY ONLY <2>5 DEF IsState
  <2> QED
    BY <2>2, <2>6 DEF ValueOK, y, b, c
<1> QED
  BY <1>3, <1>4

LEMMA NextElementOK ==
  ASSUME NEW txt, IsText(txt), NEW reg, RegistryOK(reg), NEW inner, ReaderOK(reg, txt, inner),
         NEW f \in FieldsIn(reg), NEW i \in Nat, NEW p \in Places(txt), NEW arr \in Nat,
         NEW s, LoopOK(txt, p, 0, i, s), s.ret = More
  PROVE  LoopOK(txt, p, 0, i + 1, NextElement(reg, txt, inner, f, arr, i, s))
<1> DEFINE m == SkipSpace(txt, s.pos)
           v == ParseElement(reg, txt, inner, f, i, m, arr)
           e == After(s, v)
           r == NextElement(reg, txt, inner, f, arr, i, s)
<1>1. IsState(s) /\ Even(txt, p, s.pos) /\ s.pos \in Places(txt)
  BY DEF LoopOK, Even
<1>2. m \in Places(txt) /\ Even(txt, s.pos, m)
  BY <1>1, EvenSpace
<1>3. ValueOK(txt, m, v)
  <2> HIDE DEF m
  <2> QED
    BY <1>2, ElementOK
<1>4. IsState(e) /\ e.ret = v.ret /\ e.pos = v.pos
  <2> HIDE DEF v
  <2> QED
    BY <1>3, States DEF ValueOK
<1>5. e.ret \in {Ok, INVALID_JSON} /\ (e.ret = Ok => Even(txt, s.pos, e.pos))
  <2> HIDE DEF v, m
  <2> QED
    BY <1>2, <1>3, <1>4, EvenSteps DEF ValueOK
<1>6. CASE ArrayFull(f, i)
  <2>1. r = Failed(s)
    BY <1>6 DEF NextElement
  <2> QED
    BY <1>1, <2>1, FailedGoes
<1>7. CASE ~ArrayFull(f, i) /\ e.ret # Ok
  <2>1. r = e
    BY <1>7 DEF NextElement
  <2> HIDE DEF e
  <2> QED
    BY <1>4, <1>5, <1>7, <2>1 DEF LoopOK, More, INVALID_JSON, Ok
<1>8. CASE ~ArrayFull(f, i) /\ e.ret = Ok /\ At(txt, e.pos) = "endbracket"
  <2>1. r = Moved(e, e.pos + 1)
    BY <1>8 DEF NextElement
  <2> HIDE DEF e
  <2>2. e.pos \in Places(txt) /\ Even(txt, s.pos, e.pos)
    BY <1>5, <1>8 DEF Even
  <2>3. Even(txt, e.pos, e.pos + 1)
    BY <1>8, <2>2, EvenToken
  <2>4. Even(txt, p, e.pos + 1)
    BY <1>1, <2>2, <2>3, EvenSteps
  <2>5. Closed(txt, p, 0, e.pos + 1)
    <3>1. Braces(txt, p - 1) \in Int
      BY <1>1, Texts, BraceSteps DEF Places
    <3> QED
      BY <2>4, <3>1 DEF Closed, Even
  <2>6. IsState(r) /\ r.ret = Ok /\ r.pos = e.pos + 1
    BY <1>4, <1>8, <2>1, States
  <2> HIDE DEF r
  <2>7. LoopOK(txt, p, 0, i + 1, r)
    BY <2>5, <2>6 DEF LoopOK, Ok, More
  <2> QED
    BY <2>7 DEF r
<1>9. CASE ~ArrayFull(f, i) /\ e.ret = Ok /\ At(txt, e.pos) = "comma"
  <2>1. r = GoesOn(e, e.pos + 1)
    BY <1>9 DEF NextElement
  <2> HIDE DEF e
  <2> QED
    BY <1>4, <1>5, <1>9, <2>1, LoopGoes
<1>10. CASE ~ArrayFull(f, i) /\ e.ret = Ok /\ At(txt, e.pos) \notin {"endbracket", "comma"}
  <2>1. r = Failed(e)
    BY <1>10 DEF NextElement
  <2> HIDE DEF e
  <2> QED
    BY <1>4, <2>1, FailedGoes
<1> QED
  BY <1>6, <1>7, <1>8, <1>9, <1>10

(* The elements of an array, up to its bracket.                            *)
LEMMA ArrayOK ==
  ASSUME NEW txt, IsText(txt), NEW reg, RegistryOK(reg), NEW inner, ReaderOK(reg, txt, inner),
         NEW f \in FieldsIn(reg), NEW p \in Places(txt), NEW arr \in Nat
  PROVE  ValueOK(txt, p, ParseArray(reg, txt, inner, f, p, arr))
<1> DEFINE n == Passes(txt)
           a == [reg |-> reg, txt |-> txt, inner |-> inner, f |-> f, arr |-> arr]
           start == GoesOn(Parsed(p, <<>>), p)
           Is(g) == g = [i \in 0 .. n |->
                          IF i = 0 THEN start
                          ELSE IF g[i - 1].ret = More
                                 THEN NextElement(reg, txt, inner, f, arr, i - 1, g[i - 1])
                                 ELSE g[i - 1]]
<1>1. n \in Nat /\ n = Cardinality({q \in DOMAIN txt : At(txt, q) = "comma"}) + 2
  BY PassesNat
<1>2. \E g : IsRun(g, "element", a, start, n)
  <2> HIDE DEF a, n, start
  <2> QED
    BY <1>1, Runs
<1>3. \A i, s : Goes("element", a, i, s) =
                  IF s.ret = More THEN NextElement(reg, txt, inner, f, arr, i - 1, s) ELSE s
  BY DEF Goes
<1>4. \A g : IsRun(g, "element", a, start, n) <=> Is(g)
  <2> HIDE DEF a, n, start
  <2> QED
    BY <1>3 DEF IsRun
<1>5. ParseArray(reg, txt, inner, f, p, arr) = (CHOOSE g : Is(g))[n]
  BY <1>1 DEF ParseArray, Loop
<1>6. PICK g : IsRun(g, "element", a, start, n) /\ ParseArray(reg, txt, inner, f, p, arr) = g[n]
  <2> HIDE DEF Is, a, n, start
  <2> QED
    BY <1>2, <1>4, <1>5
<1>7. ASSUME NEW i \in 1 .. n, NEW s, LoopOK(txt, p, 0, i - 1, s)
      PROVE  LoopOK(txt, p, 0, i, Goes("element", a, i, s))
  <2>1. i - 1 \in Nat /\ i - 1 + 1 = i
    BY <1>1
  <2>2. CASE s.ret = More
    <3>1. Goes("element", a, i, s) = NextElement(reg, txt, inner, f, arr, i - 1, s)
      BY <1>3, <2>2
    <3>2. LoopOK(txt, p, 0, i - 1 + 1, NextElement(reg, txt, inner, f, arr, i - 1, s))
      BY <1>7, <2>1, <2>2, NextElementOK
    <3> QED
      BY <2>1, <3>1, <3>2
  <2>3. CASE s.ret # More
    <3>1. Goes("element", a, i, s) = s
      BY <1>3, <2>3
    <3> QED
      BY <1>7, <2>3, <3>1, LoopStays
  <2> QED
    BY <2>2, <2>3
<1> HIDE DEF a
<1>8. IsState(g[n]) /\ g[n].ret \in {Ok, INVALID_JSON} /\ (g[n].ret = Ok => Closed(txt, p, 0, g[n].pos))
  BY <1>6, <1>7, LoopEnds
<1>9. ASSUME NEW q, Closed(txt, p, 0, q) PROVE Even(txt, p, q)
  <2>1. Braces(txt, p - 1) \in Int
    BY Texts, BraceSteps DEF Places
  <2> QED
    BY <1>9, <2>1 DEF Closed, Even
<1> QED
  BY <1>6, <1>8, <1>9 DEF ValueOK

LEMMA FieldOK ==
  ASSUME NEW txt, IsText(txt), NEW reg, RegistryOK(reg), NEW inner, ReaderOK(reg, txt, inner),
         NEW f \in FieldsIn(reg), NEW p \in Places(txt), NEW addr \in Nat
  PROVE  ValueOK(txt, p, ParseJsonField(reg, txt, inner, f, p, addr))
<1> DEFINE b == SkipSpace(txt, p)
           r == ParseJsonField(reg, txt, inner, f, p, addr)
<1>1. b \in Places(txt) /\ Even(txt, p, b)
  BY EvenSpace
<1>2. f.type \in DOMAIN reg /\ addr + f.offset \in Nat
  BY DEF FieldsIn
<1>3. ASSUME NEW q, NEW v, Even(txt, p, q), ValueOK(txt, q, v) PROVE ValueOK(txt, p, v)
  BY <1>3, EvenSteps DEF ValueOK
<1>4. CASE At(txt, b) # "bracket"
  <2>1. r = ParseJsonDescriptor(reg, txt, inner, f.type, b, addr)
    BY <1>4 DEF ParseJsonField
  <2> HIDE DEF b
  <2>2. ValueOK(txt, b, ParseJsonDescriptor(reg, txt, inner, f.type, b, addr))
    BY <1>1, <1>2, DescriptorOK
  <2> QED
    BY <1>1, <1>3, <2>1, <2>2
<1>5. CASE At(txt, b) = "bracket" /\ f.flag = "none"
  <2>1. r = Failed(Parsed(p, <<>>))
    BY <1>5 DEF ParseJsonField
  <2> QED
    BY <2>1, ParsedState, FailedOK
<1>6. CASE At(txt, b) = "bracket" /\ f.flag # "none"
  <2>1. r = ParseArray(reg, txt, inner, f, b + 1, addr + f.offset)
    BY <1>6 DEF ParseJsonField
  <2>2. b + 1 \in Places(txt) /\ Even(txt, b, b + 1)
    <3> HIDE DEF b
    <3> QED
      BY <1>1, <1>6, EvenToken DEF Even
  <2>3. Even(txt, p, b + 1)
    <3> HIDE DEF b
    <3> QED
      BY <1>1, <2>2, EvenSteps
  <2> DEFINE c == b + 1
             x == addr + f.offset
  <2>4. r = ParseArray(reg, txt, inner, f, c, x) /\ c \in Places(txt) /\ Even(txt, p, c) /\ x \in Nat
    BY <1>2, <2>1, <2>2, <2>3
  <2> HIDE DEF b, c, x
  <2>5. ValueOK(txt, c, ParseArray(reg, txt, inner, f, c, x))
    BY <2>4, ArrayOK
  <2> QED
    BY <1>3, <2>4, <2>5
<1> QED
  BY <1>4, <1>5, <1>6

LEMMA FieldFoundOK ==
  ASSUME NEW txt, IsText(txt), NEW reg, RegistryOK(reg), NEW inner, ReaderOK(reg, txt, inner),
         NEW f \in FieldsIn(reg), NEW i \in Nat, NEW p \in Places(txt), NEW v, NEW base \in Nat,
         NEW s, LoopOK(txt, p, 1, i, s), s.ret = More, Even(txt, s.pos, v)
  PROVE  LoopOK(txt, p, 1, i + 1, FieldFound(reg, txt, inner, f, v, base, s))
<1> DEFINE w == ParseJsonField(reg, txt, inner, f, v, base + f.offset)
           e == After(s, w)
           q == SkipSpace(txt, e.pos)
           r == FieldFound(reg, txt, inner, f, v, base, s)
<1>1. IsState(s) /\ Even(txt, p, s.pos) /\ s.pos \in Places(txt) /\ v \in Places(txt)
  BY DEF LoopOK, Even
<1>2. base + f.offset \in Nat
  BY DEF FieldsIn
<1>3. ValueOK(txt, v, w)
  BY <1>1, <1>2, FieldOK
<1>4. IsState(e) /\ e.ret = w.ret /\ e.pos = w.pos
  <2> HIDE DEF w
  <2> QED
    BY <1>3, States DEF ValueOK
<1>5. e.ret \in {Ok, INVALID_JSON} /\ (e.ret = Ok => Even(txt, s.pos, e.pos))
  <2> HIDE DEF w
  <2> QED
    BY <1>3, <1>4, EvenSteps DEF ValueOK
<1>6. CASE e.ret # Ok
  <2>1. r = e
    BY <1>6 DEF FieldFound
  <2> HIDE DEF e
  <2> QED
    BY <1>4, <1>5, <1>6, <2>1 DEF LoopOK, More, INVALID_JSON, Ok
<1>7. ASSUME e.ret = Ok PROVE q \in Places(txt) /\ Even(txt, p, q) /\ Even(txt, s.pos, q)
  <2> HIDE DEF e
  <2>1. e.pos \in Places(txt) /\ Even(txt, s.pos, e.pos)
    BY <1>5, <1>7 DEF Even
  <2>2. q \in Places(txt) /\ Even(txt, e.pos, q)
    BY <2>1, EvenSpace
  <2> HIDE DEF q
  <2>3. Even(txt, s.pos, q)
    BY <2>1, <2>2, EvenSteps
  <2> QED
    BY <1>1, <2>2, <2>3, EvenSteps
<1>8. CASE e.ret = Ok /\ At(txt, q) = "endbrace"
  <2>1. r = Moved(e, q + 1)
    BY <1>8 DEF FieldFound, Closes
  <2>2. q \in Places(txt) /\ Even(txt, p, q)
    BY <1>7, <1>8
  <2>3. IsState(r) /\ r.ret = Ok /\ r.pos = q + 1
    <3> HIDE DEF e, q
    <3> QED
      BY <1>4, <1>8, <2>1, States
  <2> HIDE DEF e, q
  <2>4. q \in 1 .. Len(txt) /\ q + 1 \in Places(txt) /\ txt[q][1] = "endbrace"
    BY <1>8, <2>2, TokenAt
  <2>5. Braces(txt, q) = Braces(txt, q - 1) - 1
    <3>1. Brace(txt[q][1]) = -1
      BY <2>4 DEF Brace
    <3>2. Braces(txt, q) = Braces(txt, q - 1) + Brace(txt[q][1])
      BY <2>4, BraceSteps
    <3>3. Braces(txt, q - 1) \in Int
      BY <2>4, Texts, BraceSteps
    <3> QED
      BY <3>1, <3>2, <3>3
  <2>6. Closed(txt, p, 1, q + 1)
    <3>1. q + 1 - 1 = q /\ p <= q + 1
      BY <2>2, <2>4, Texts DEF Even, Places
    <3> QED
      BY <2>2, <2>4, <2>5, <3>1 DEF Closed, Even
  <2> HIDE DEF r
  <2>7. LoopOK(txt, p, 1, i + 1, r)
    BY <2>3, <2>6 DEF LoopOK, Ok, More
  <2> QED
    BY <2>7 DEF r
<1>9. CASE e.ret = Ok /\ At(txt, q) = "comma"
  <2>1. r = GoesOn(e, q + 1)
    BY <1>9 DEF FieldFound, Closes
  <2>2. Even(txt, s.pos, q)
    BY <1>7, <1>9
  <2> HIDE DEF e, q
  <2>3. LoopOK(txt, p, 1, i + 1, GoesOn(e, q + 1))
    BY <1>4, <1>9, <2>2, LoopGoes
  <2> QED
    BY <2>1, <2>3
<1>10. CASE e.ret = Ok /\ At(txt, q) \notin {"endbrace", "comma"}
  <2>1. r = Failed(e)
    BY <1>10 DEF FieldFound, Closes
  <2> HIDE DEF e
  <2> QED
    BY <1>4, <2>1, FailedGoes
<1> QED
  BY <1>6, <1>8, <1>9, <1>10

(* The name of a field, a colon, the place of the value.                   *)
LEMMA NameOK ==
  ASSUME NEW txt, IsText(txt), NEW p \in Places(txt)
  PROVE  LET k == SkipSpace(txt, p)
             colon == SkipSpace(txt, k + 1)
             v == SkipSpace(txt, colon + 1)
         IN  /\ k \in Places(txt) /\ Even(txt, p, k)
             /\ IsString(txt, k) /\ At(txt, colon) = "colon" =>
                  v \in Places(txt) /\ Even(txt, p, v)
<1> DEFINE k == SkipSpace(txt, p)
           colon == SkipSpace(txt, k + 1)
           v == SkipSpace(txt, colon + 1)
<1>1. k \in Places(txt) /\ Even(txt, p, k)
  BY EvenSpace
<1>2. ASSUME IsString(txt, k), At(txt, colon) = "colon"
      PROVE  v \in Places(txt) /\ Even(txt, p, v)
  <2> HIDE DEF k
  <2>1. k + 1 \in Places(txt) /\ Even(txt, k, k + 1)
    BY <1>1, <1>2, EvenToken DEF IsString, Even
  <2>2. colon \in Places(txt) /\ Even(txt, k + 1, colon)
    BY <2>1, EvenSpace
  <2>3. Even(txt, p, colon)
    BY <1>1, <2>1, <2>2, EvenSteps
  <2> HIDE DEF colon
  <2>4. colon + 1 \in Places(txt) /\ Even(txt, colon, colon + 1)
    BY <1>2, <2>2, EvenToken DEF Even
  <2>5. v \in Places(txt) /\ Even(txt, colon + 1, v)
    BY <2>4, EvenSpace
  <2> HIDE DEF v
  <2> QED
    BY <2>3, <2>4, <2>5, EvenSteps
<1> QED
  BY <1>1, <1>2

LEMMA NextFieldOK ==
  ASSUME NEW txt, IsText(txt), NEW reg, RegistryOK(reg), NEW inner, ReaderOK(reg, txt, inner),
         NEW t \in DOMAIN reg, NEW i \in Nat, NEW p \in Places(txt), NEW base \in Nat,
         NEW s, LoopOK(txt, p, 1, i, s), s.ret = More
  PROVE  LoopOK(txt, p, 1, i + 1, NextField(reg, txt, inner, t, base, s))
<1> DEFINE k == SkipSpace(txt, s.pos)
           colon == SkipSpace(txt, k + 1)
           v == SkipSpace(txt, colon + 1)
           found == FindField(GetDescriptor(reg, t), txt[k][2])
           next == SkipValue(txt, v)
           r == NextField(reg, txt, inner, t, base, s)
<1>1. IsState(s) /\ Even(txt, p, s.pos) /\ s.pos \in Places(txt)
  BY DEF LoopOK, Even
<1>2. IsString(txt, k) /\ At(txt, colon) = "colon" => v \in Places(txt) /\ Even(txt, s.pos, v)
  BY <1>1, NameOK
<1>3. CASE ~IsString(txt, k) \/ At(txt, colon) # "colon"
  <2>1. r = Failed(s)
    BY <1>3 DEF NextField
  <2> QED
    BY <1>1, <2>1, FailedGoes
<1>4. CASE IsString(txt, k) /\ At(txt, colon) = "colon" /\ found = {} /\ next = 0
  <2>1. r = Failed(s)
    BY <1>4 DEF NextField
  <2> QED
    BY <1>1, <2>1, FailedGoes
<1>5. CASE IsString(txt, k) /\ At(txt, colon) = "colon" /\ found = {} /\ next # 0
  <2>1. r = GoesOn(s, next)
    BY <1>5 DEF NextField
  <2>2. v \in Places(txt) /\ Even(txt, s.pos, v)
    BY <1>2, <1>5
  <2>3. next # 0
    BY <1>5
  <2> HIDE DEF v
  <2>4. PICK q \in Places(txt) : next = q + 1 /\ At(txt, q) = "comma" /\ Even(txt, v, q)
    BY <2>2, <2>3, EvenSkip
  <2>5. Even(txt, s.pos, q)
    BY <2>2, <2>4, EvenSteps
  <2>6. LoopOK(txt, p, 1, i + 1, GoesOn(s, q + 1))
    BY <1>1, <2>4, <2>5, LoopGoes
  <2> HIDE DEF next
  <2> QED
    BY <2>1, <2>4, <2>6
<1>6. CASE IsString(txt, k) /\ At(txt, colon) = "colon" /\ found # {}
  <2> DEFINE f == CHOOSE f \in found : TRUE
  <2>1. r = FieldFound(reg, txt, inner, f, v, base, s)
    BY <1>6 DEF NextField
  <2>2. Even(txt, s.pos, v)
    BY <1>2, <1>6
  <2>3. f \in found
    <3> HIDE DEF found
    <3> QED
      BY <1>6
  <2>4. found \subseteq FieldsIn(reg)
    <3>1. reg[t].fields \in Seq(FieldsIn(reg))
      BY DEF RegistryOK
    <3>2. Range(reg[t].fields) \subseteq FieldsIn(reg)
      BY <3>1 DEF Range
    <3> QED
      BY <3>2 DEF FindField, GetDescriptor
  <2>5. f \in FieldsIn(reg)
    BY <2>3, <2>4
  <2> HIDE DEF f, v
  <2>6. LoopOK(txt, p, 1, i + 1, FieldFound(reg, txt, inner, f, v, base, s))
    BY <2>2, <2>5, FieldFoundOK
  <2> QED
    BY <2>1, <2>6
<1> QED
  BY <1>3, <1>4, <1>5, <1>6

(* The fields of an object, up to the brace that closes it.                *)
LEMMA FieldsOK ==
  ASSUME NEW txt, IsText(txt), NEW reg, RegistryOK(reg), NEW inner, ReaderOK(reg, txt, inner),
         NEW t \in DOMAIN reg, NEW p \in Places(txt), NEW base \in Nat
  PROVE  LET r == ParseFields(reg, txt, inner, t, p, base)
         IN  IsState(r) /\ r.ret \in {Ok, INVALID_JSON} /\ (r.ret = Ok => Closed(txt, p, 1, r.pos))
<1> DEFINE n == Passes(txt)
           a == [reg |-> reg, txt |-> txt, inner |-> inner, t |-> t, base |-> base]
           start == GoesOn(Parsed(p, <<>>), p)
           Is(g) == g = [i \in 0 .. n |->
                          IF i = 0 THEN start
                          ELSE IF g[i - 1].ret = More
                                 THEN NextField(reg, txt, inner, t, base, g[i - 1])
                                 ELSE g[i - 1]]
<1>1. n \in Nat /\ n = Cardinality({q \in DOMAIN txt : At(txt, q) = "comma"}) + 2
  BY PassesNat
<1>2. \E g : IsRun(g, "field", a, start, n)
  <2> HIDE DEF a, n, start
  <2> QED
    BY <1>1, Runs
<1>3. \A i, s : Goes("field", a, i, s) =
                  IF s.ret = More THEN NextField(reg, txt, inner, t, base, s) ELSE s
  BY DEF Goes
<1>4. \A g : IsRun(g, "field", a, start, n) <=> Is(g)
  <2> HIDE DEF a, n, start
  <2> QED
    BY <1>3 DEF IsRun
<1>5. ParseFields(reg, txt, inner, t, p, base) = (CHOOSE g : Is(g))[n]
  BY <1>1 DEF ParseFields, Loop
<1>6. PICK g : IsRun(g, "field", a, start, n) /\ ParseFields(reg, txt, inner, t, p, base) = g[n]
  <2> HIDE DEF Is, a, n, start
  <2> QED
    BY <1>2, <1>4, <1>5
<1>7. ASSUME NEW i \in 1 .. n, NEW s, LoopOK(txt, p, 1, i - 1, s)
      PROVE  LoopOK(txt, p, 1, i, Goes("field", a, i, s))
  <2>1. i - 1 \in Nat /\ i - 1 + 1 = i
    BY <1>1
  <2>2. CASE s.ret = More
    <3>1. Goes("field", a, i, s) = NextField(reg, txt, inner, t, base, s)
      BY <1>3, <2>2
    <3>2. LoopOK(txt, p, 1, i - 1 + 1, NextField(reg, txt, inner, t, base, s))
      BY <1>7, <2>1, <2>2, NextFieldOK
    <3> QED
      BY <2>1, <3>1, <3>2
  <2>3. CASE s.ret # More
    <3>1. Goes("field", a, i, s) = s
      BY <1>3, <2>3
    <3> QED
      BY <1>7, <2>3, <3>1, LoopStays
  <2> QED
    BY <2>2, <2>3
<1> HIDE DEF a
<1>8. IsState(g[n]) /\ g[n].ret \in {Ok, INVALID_JSON} /\ (g[n].ret = Ok => Closed(txt, p, 1, g[n].pos))
  BY <1>6, <1>7, LoopEnds
<1> QED
  BY <1>6, <1>8

(* An object that was read closes the brace it opens: it is a value.       *)
LEMMA ObjectOK ==
  ASSUME NEW txt, IsText(txt), NEW reg, RegistryOK(reg), NEW inner, ReaderOK(reg, txt, inner),
         NEW t \in DOMAIN reg, NEW p \in Places(txt), NEW base \in Nat
  PROVE  LET r == ParseJsonObject(reg, txt, inner, t, p, base)
         IN  ValueOK(txt, p, r) /\ (r.ret = Ok => p + 1 <= r.pos)
<1> DEFINE b == SkipSpace(txt, p)
           r == ParseJsonObject(reg, txt, inner, t, p, base)
           w == ParseFields(reg, txt, inner, t, b + 1, base)
<1>1. b \in Places(txt) /\ Even(txt, p, b)
  BY EvenSpace
<1>2. CASE At(txt, b) # "brace"
  <2>1. r = Failed(Parsed(p, <<>>))
    BY <1>2 DEF ParseJsonObject
  <2>2. ValueOK(txt, p, r)
    BY <2>1, ParsedState, FailedOK
  <2>3. r.ret # Ok
    BY <2>1, ParsedState, States DEF Ok, INVALID_JSON
  <2> QED
    BY <2>2, <2>3
<1>3. CASE At(txt, b) = "brace"
  <2>1. r = w
    BY <1>3 DEF ParseJsonObject
  <2> HIDE DEF b
  <2>2. b \in 1 .. Len(txt) /\ b + 1 \in Places(txt) /\ txt[b][1] = "brace" /\ p <= b
    BY <1>1, <1>3, TokenAt DEF Even
  <2>3. IsState(w) /\ w.ret \in {Ok, INVALID_JSON} /\ (w.ret = Ok => Closed(txt, b + 1, 1, w.pos))
    <3> DEFINE c == b + 1
    <3>1. c \in Places(txt)
      BY <2>2
    <3> HIDE DEF c
    <3>2. LET x == ParseFields(reg, txt, inner, t, c, base)
          IN  IsState(x) /\ x.ret \in {Ok, INVALID_JSON} /\ (x.ret = Ok => Closed(txt, c, 1, x.pos))
      BY <3>1, FieldsOK
    <3> QED
      BY <3>2 DEF c
  <2>4. Braces(txt, b) = Braces(txt, b - 1) + 1 /\ Braces(txt, b - 1) \in Int
    <3>1. Brace(txt[b][1]) = 1
      BY <2>2 DEF Brace
    <3>2. Braces(txt, b) = Braces(txt, b - 1) + Brace(txt[b][1])
      BY <2>2, BraceSteps
    <3>3. Braces(txt, b - 1) \in Int
      BY <2>2, Texts, BraceSteps
    <3> QED
      BY <3>1, <3>2, <3>3
  <2> HIDE DEF w
  <2>5. ASSUME w.ret = Ok PROVE Even(txt, p, w.pos) /\ p + 1 <= w.pos
    <3> DEFINE c == b + 1
    <3>1. Closed(txt, c, 1, w.pos) /\ c - 1 = b /\ p + 1 <= c /\ c \in Int /\ p \in Int
      BY <2>2, <2>3, <2>5, Texts DEF Places
    <3> HIDE DEF c
    <3>2. w.pos \in Places(txt) /\ c <= w.pos /\ Braces(txt, w.pos - 1) = Braces(txt, b) - 1
      BY <3>1 DEF Closed
    <3>3. Braces(txt, w.pos - 1) = Braces(txt, b - 1)
      BY <2>4, <3>2
    <3>4. w.pos \in Int
      BY <3>2, Texts DEF Places
    <3>5. p <= w.pos /\ p + 1 <= w.pos
      BY <3>1, <3>2, <3>4
    <3> QED
      BY <1>1, <3>2, <3>3, <3>5 DEF Even
  <2> QED
    BY <2>1, <2>3, <2>5 DEF ValueOK
<1> QED
  BY <1>2, <1>3

(* ... and so do the objects inside of it, by induction over their depth.  *)
LEMMA ObjectReaderOK ==
  ASSUME NEW txt, IsText(txt), NEW reg, RegistryOK(reg)
  PROVE  ReaderOK(reg, txt, ObjectReader(reg, txt))
<1> DEFINE N == Len(txt)
           a == [reg |-> reg, txt |-> txt]
           O == (DOMAIN reg) \X Nat \X Nat
           start == [o \in O |-> Failed(Parsed(o[2], <<>>))]
           L(n, h) == [o \in O |->
                        IF n = 0 THEN Failed(Parsed(o[2], <<>>))
                        ELSE ParseJsonObject(reg, txt, h, o[1], o[2], o[3])]
           Is(g) == g = [n \in 0 .. N |-> L(n, g[n - 1])]
<1>1. N \in Nat
  BY Texts
<1>2. \E g : IsRun(g, "reader", a, start, N)
  <2> HIDE DEF a, N, start
  <2> QED
    BY <1>1, Runs
<1>3. \A i, s : Goes("reader", a, i, s) = [o \in O |-> ParseJsonObject(reg, txt, s, o[1], o[2], o[3])]
  BY DEF Goes
<1>a. \A h : L(0, h) = start
  OBVIOUS
<1>b. \A n, h : n # 0 => L(n, h) = [o \in O |-> ParseJsonObject(reg, txt, h, o[1], o[2], o[3])]
  OBVIOUS
<1>4. ASSUME NEW g, IsRun(g, "reader", a, start, N) PROVE Is(g)
  <2> HIDE DEF a, N, start, L, O
  <2>1. \A n \in 0 .. N : (IF n = 0 THEN start ELSE Goes("reader", a, n, g[n - 1])) = L(n, g[n - 1])
    BY <1>3, <1>a, <1>b
  <2> QED
    BY <1>4, <2>1 DEF IsRun
<1>5. ObjectReader(reg, txt) = (CHOOSE g : Is(g))[N]
  BY DEF ObjectReader
<1>6. PICK g : Is(g) /\ ObjectReader(reg, txt) = g[N]
  <2> HIDE DEF Is, a, N, start
  <2> QED
    BY <1>2, <1>4, <1>5
<1> DEFINE S == {n \in 0 .. N : ReaderOK(reg, txt, g[n])}
<1>7. \A t \in DOMAIN reg, p \in Places(txt), addr \in Nat :
        <<t, p, addr>> \in O
  BY Texts DEF Places
<1>8. 0 \in S
  <2>1. g[0] = start
    <3> HIDE DEF L, start
    <3> QED
      BY <1>1, <1>6, <1>a
  <2>2. ASSUME NEW t \in DOMAIN reg, NEW p \in Places(txt), NEW addr \in Nat
        PROVE  ValueOK(txt, p, start[<<t, p, addr>>])
    <3>1. start[<<t, p, addr>>] = Failed(Parsed(p, <<>>))
      BY <1>7
    <3> HIDE DEF start
    <3> QED
      BY <3>1, ParsedState, FailedOK
  <2> HIDE DEF start
  <2> QED
    BY <1>1, <2>1, <2>2 DEF ReaderOK
<1>9. ASSUME NEW n \in 1 .. N, n - 1 \in S PROVE n \in S
  <2>1. g[n] = [o \in O |-> ParseJsonObject(reg, txt, g[n - 1], o[1], o[2], o[3])]
    <3>1. n # 0 /\ n \in 0 .. N
      BY <1>1
    <3> HIDE DEF L, O
    <3>2. g[n] = L(n, g[n - 1])
      BY <1>6, <3>1
    <3> QED
      BY <1>b, <3>1, <3>2
  <2>2. ReaderOK(reg, txt, g[n - 1])
    BY <1>9
  <2>3. ASSUME NEW t \in DOMAIN reg, NEW p \in Places(txt), NEW addr \in Nat
        PROVE  ValueOK(txt, p, g[n][<<t, p, addr>>])
    <3>1. g[n][<<t, p, addr>>] = ParseJsonObject(reg, txt, g[n - 1], t, p, addr)
      BY <1>7, <2>1
    <3> QED
      BY <2>2, <3>1, ObjectOK
  <2> QED
    BY <1>1, <2>3 DEF ReaderOK
<1> HIDE DEF S, N
<1>10. N \in S
  BY <1>1, <1>8, <1>9, RangeInduction
<1> QED
  BY <1>6, <1>10 DEF S

-----------------------------------------------------------------------------
(* The type of an object. *)

NameLoopOK(reg, txt, i, s) ==
  /\ s.ret \in Errors \cup {Undefined, Ok, More}
  /\ s.ret = More =>
       /\ s.pos \in Places(txt)
       /\ \/ i <= Commas(txt, s.pos)
          \/ s.pos = Len(txt) + 1 /\ i <= Commas(txt, s.pos) + 1
  /\ s.ret = Ok => s.type \in DOMAIN reg

LEMMA AnswerOK ==
  ASSUME NEW reg, NEW txt, NEW i, NEW code \in Errors \cup {Undefined, Ok}, NEW t,
         code = Ok => t \in DOMAIN reg
  PROVE  NameLoopOK(reg, txt, i, Answer(code, t))
BY DEF NameLoopOK, Answer, Errors, More, Ok, Undefined, INVALID_JSON, INVALID_TYPE, TYPE_NOT_FOUND,
       TYPE_MISMATCH

LEMMA HintedOK ==
  ASSUME NEW reg, NEW txt, NEW i, NEW t, NEW exp
  PROVE  NameLoopOK(reg, txt, i, Hinted(reg, t, exp))
<1>1. CASE t \notin DOMAIN reg
  <2>1. Hinted(reg, t, exp) = Answer(INVALID_TYPE, t)
    BY <1>1 DEF Hinted
  <2>2. INVALID_TYPE \in Errors /\ INVALID_TYPE # Ok
    BY DEF Errors, INVALID_TYPE, Ok
  <2> QED
    BY <2>1, <2>2, AnswerOK
<1>2. CASE t \in DOMAIN reg /\ exp # NoType /\ exp # t
  <2>1. Hinted(reg, t, exp) = Answer(TYPE_MISMATCH, t)
    BY <1>2 DEF Hinted
  <2>2. TYPE_MISMATCH \in Errors
    BY DEF Errors
  <2> QED
    BY <1>2, <2>1, <2>2, AnswerOK
<1>3. CASE t \in DOMAIN reg /\ ~(exp # NoType /\ exp # t)
  <2>1. Hinted(reg, t, exp) = Answer(Ok, t)
    BY <1>3 DEF Hinted
  <2> QED
    BY <1>3, <2>1, AnswerOK
<1> QED
  BY <1>1, <1>2, <1>3

(* A pass at the name of a field leaves a comma behind, or the whole text. *)
LEMMA NextNameOK ==
  ASSUME NEW txt, IsText(txt), NEW reg, NEW exp, exp # NoType => exp \in DOMAIN reg, NEW i \in Nat,
         NEW s, NameLoopOK(reg, txt, i, s), s.ret = More
  PROVE  NameLoopOK(reg, txt, i + 1, NextName(reg, txt, exp, s))
<1> DEFINE k == SkipSpace(txt, s.pos)
           colon == SkipSpace(txt, k + 1)
           v == SkipSpace(txt, colon + 1)
           skipped == SkipValue(txt, v)
           next == SkipSpace(txt, IF skipped = 0 THEN Len(txt) + 1 ELSE skipped)
           r == NextName(reg, txt, exp, s)
<1>1. s.pos \in Places(txt)
  BY DEF NameLoopOK
<1>2. /\ k \in Places(txt) /\ Even(txt, s.pos, k)
      /\ IsString(txt, k) /\ At(txt, colon) = "colon" => v \in Places(txt) /\ Even(txt, s.pos, v)
  BY <1>1, NameOK
<1>3. INVALID_JSON \in Errors /\ TYPE_NOT_FOUND \in Errors
      /\ INVALID_JSON # Ok /\ TYPE_NOT_FOUND # Ok /\ Undefined # Ok
  BY DEF Errors, INVALID_JSON, TYPE_NOT_FOUND, Ok, Undefined
<1>4. CASE At(txt, k) = "endbrace"
  <2>1. ~IsString(txt, k)
    BY <1>4 DEF IsString
  <2>2. r = Untold(exp)
    BY <1>4, <2>1 DEF NextName
  <2>3. CASE exp # NoType
    <3>1. r = Answer(Ok, exp)
      BY <2>2, <2>3 DEF Untold
    <3> QED
      BY <2>3, <3>1, AnswerOK
  <2>4. CASE exp = NoType
    <3>1. r = Answer(TYPE_NOT_FOUND, NoType)
      BY <2>2, <2>4 DEF Untold
    <3> QED
      BY <1>3, <3>1, AnswerOK
  <2> QED
    BY <2>3, <2>4
<1>5. CASE At(txt, k) # "endbrace" /\ (~IsString(txt, k) \/ At(txt, colon) # "colon")
  <2>1. r = Answer(INVALID_JSON, NoType)
    BY <1>5 DEF NextName
  <2> QED
    BY <1>3, <2>1, AnswerOK
<1>6. CASE At(txt, k) # "endbrace" /\ IsString(txt, k) /\ At(txt, colon) = "colon" /\ txt[k][2] = TypeName
  <2>1. r = IF IsString(txt, v) THEN Hinted(reg, txt[v][2], exp) ELSE Answer(Undefined, NoType)
    BY <1>6 DEF NextName
  <2> QED
    BY <1>3, <2>1, AnswerOK, HintedOK
<1>7. CASE At(txt, k) # "endbrace" /\ IsString(txt, k) /\ At(txt, colon) = "colon" /\ txt[k][2] # TypeName
  <2> DEFINE e == IF At(txt, next) = "comma" THEN next + 1 ELSE next
  <2>1. r = [ret |-> More, pos |-> e]
    BY <1>7 DEF NextName
  <2>2. Len(txt) \in Nat
    BY Texts
  <2>3. s.pos # Len(txt) + 1 /\ s.pos \in Nat
    <3> HIDE DEF k
    <3>1. k \in 1 .. Len(txt)
      BY <1>2, <1>7, TokenAt DEF IsString
    <3> QED
      BY <1>1, <1>2, <2>2, <3>1 DEF Even, Places
  <2>4. i <= Commas(txt, s.pos) /\ Commas(txt, s.pos) \in Nat
    BY <2>3, CommaSets DEF NameLoopOK
  <2>5. v \in Places(txt) /\ Even(txt, s.pos, v)
    BY <1>2, <1>7
  <2>6. CASE skipped = 0
    <3>1. next = Len(txt) + 1
      BY <2>2, <2>6 DEF SkipSpace
    <3>2. At(txt, Len(txt) + 1) # "comma"
      BY <2>2 DEF At
    <3>3. e = Len(txt) + 1
      <4> HIDE DEF next
      <4> QED
        BY <3>1, <3>2
    <3>4. Len(txt) + 1 \in Places(txt) /\ s.pos <= Len(txt) + 1
      BY <1>1, <2>2 DEF Places
    <3> DEFINE x == Len(txt) + 1
    <3>5. x \in Places(txt) /\ s.pos <= x /\ e = x
      BY <3>3, <3>4
    <3> HIDE DEF x, e
    <3>6. Commas(txt, s.pos) <= Commas(txt, x) /\ Commas(txt, x) \in Nat
      BY <1>1, <3>5, CommasBefore, CommaSets
    <3>7. i + 1 <= Commas(txt, x) + 1
      BY <2>4, <3>6
    <3>8. r.ret = More /\ r.pos = x
      BY <2>1, <3>5
    <3> HIDE DEF r
    <3>9. NameLoopOK(reg, txt, i + 1, r)
      BY <3>5, <3>7, <3>8 DEF NameLoopOK, More, Ok, x
    <3> QED
      BY <3>9 DEF r
  <2>7. CASE skipped # 0
    <3>1. PICK q \in Places(txt) : skipped = q + 1 /\ v <= q /\ At(txt, q) = "comma" /\ Even(txt, v, q + 1)
      <4> HIDE DEF v
      <4> QED
        BY <2>5, <2>7, EvenSkip
    <3>2. next = SkipSpace(txt, q + 1) /\ q + 1 \in Places(txt)
      BY <2>7, <3>1 DEF Even
    <3>3. next \in Places(txt) /\ q + 1 <= next
      <4> DEFINE x == q + 1
      <4> HIDE DEF x, next
      <4>1. x \in Places(txt) /\ next = SkipSpace(txt, x)
        BY <3>2 DEF x
      <4>2. next \in Places(txt) /\ x <= next
        BY <4>1, EvenSpace DEF Even
      <4> QED
        BY <4>2 DEF x
    <3> HIDE DEF next
    <3>4. e \in Places(txt) /\ q + 1 <= e
      <4>1. CASE At(txt, next) = "comma"
        <5>1. next + 1 \in Places(txt) /\ next \in 1 .. Len(txt)
          BY <3>3, <4>1, TokenAt
        <5>2. next <= next + 1 /\ q + 1 \in Int
          BY <2>2, <3>2, <5>1 DEF Places
        <5> QED
          BY <2>2, <3>3, <4>1, <5>1, <5>2
      <4>2. CASE At(txt, next) # "comma"
        BY <3>3, <4>2
      <4> QED
        BY <4>1, <4>2
    <3>5. Commas(txt, s.pos) + 1 <= Commas(txt, q + 1)
      <4>1. s.pos <= q
        BY <2>2, <2>5, <3>1 DEF Even, Places
      <4> QED
        BY <1>1, <3>1, <4>1, CommaPassed
    <3> HIDE DEF e
    <3>6. Commas(txt, q + 1) <= Commas(txt, e)
      <4> DEFINE x == q + 1
      <4>1. x \in Places(txt) /\ x <= e
        BY <3>2, <3>4
      <4> HIDE DEF x
      <4>2. Commas(txt, x) <= Commas(txt, e)
        BY <3>4, <4>1, CommasBefore
      <4> QED
        BY <4>2 DEF x
    <3>7. Commas(txt, q + 1) \in Nat /\ Commas(txt, e) \in Nat
      BY CommaSets
    <3>8. i + 1 <= Commas(txt, e)
      BY <2>4, <3>5, <3>6, <3>7
    <3>9. r.ret = More /\ r.pos = e
      BY <2>1
    <3> HIDE DEF r
    <3>10. NameLoopOK(reg, txt, i + 1, r)
      BY <3>4, <3>8, <3>9 DEF NameLoopOK, More, Ok
    <3> QED
      BY <3>10 DEF r
  <2> QED
    BY <2>6, <2>7
<1> QED
  BY <1>4, <1>5, <1>6, <1>7

(* The type of an object is found, or known to be missing.                 *)
LEMMA ObjectTypeOK ==
  ASSUME NEW txt, IsText(txt), NEW reg, NEW exp, exp # NoType => exp \in DOMAIN reg,
         NEW p \in Places(txt)
  PROVE  LET t == GetObjectType(reg, txt, p, exp)
         IN  t.ret \in Errors \cup {Undefined, Ok} /\ (t.ret = Ok => t.type \in DOMAIN reg)
<1> DEFINE n == Passes(txt)
           a == [reg |-> reg, txt |-> txt, exp |-> exp]
           start == [ret |-> More, pos |-> p]
           Is(g) == g = [i \in 0 .. n |->
                          IF i = 0 THEN start
                          ELSE IF g[i - 1].ret = More THEN NextName(reg, txt, exp, g[i - 1])
                                 ELSE g[i - 1]]
<1>1. n \in Nat /\ n = Cardinality({q \in DOMAIN txt : At(txt, q) = "comma"}) + 2
  BY PassesNat
<1>2. \E g : IsRun(g, "name", a, start, n)
  <2> HIDE DEF a, n, start
  <2> QED
    BY <1>1, Runs
<1>3. \A i, s : Goes("name", a, i, s) = IF s.ret = More THEN NextName(reg, txt, exp, s) ELSE s
  BY DEF Goes
<1>4. ASSUME NEW g, IsRun(g, "name", a, start, n) PROVE Is(g)
  <2>1. \A i \in 0 .. n : (IF i = 0 THEN start ELSE Goes("name", a, i, g[i - 1])) =
                           (IF i = 0 THEN start
                            ELSE IF g[i - 1].ret = More THEN NextName(reg, txt, exp, g[i - 1])
                                   ELSE g[i - 1])
    <3> HIDE DEF a, n, start
    <3> QED
      BY <1>3
  <2> HIDE DEF a, n, start
  <2> QED
    BY <1>4, <2>1 DEF IsRun
<1>5. GetObjectType(reg, txt, p, exp) = (CHOOSE g : Is(g))[n]
  BY <1>1 DEF GetObjectType, Loop
<1>6. PICK g : Is(g) /\ GetObjectType(reg, txt, p, exp) = g[n]
  <2> HIDE DEF Is, a, n, start
  <2> QED
    BY <1>2, <1>4, <1>5
<1> DEFINE S == {i \in 0 .. n : NameLoopOK(reg, txt, i, g[i])}
<1>7. 0 \in S
  <2>1. g[0] = start
    BY <1>1, <1>6
  <2>2. start.ret = More /\ start.pos = p
    OBVIOUS
  <2>3. Commas(txt, p) \in Nat
    BY CommaSets
  <2> HIDE DEF start
  <2>4. NameLoopOK(reg, txt, 0, start)
    BY <2>2, <2>3 DEF NameLoopOK, More, Ok
  <2> QED
    BY <1>1, <2>1, <2>4
<1>8. ASSUME NEW i \in 1 .. n, i - 1 \in S PROVE i \in S
  <2>1. i - 1 \in Nat /\ i - 1 + 1 = i /\ i # 0 /\ i \in 0 .. n
    BY <1>1
  <2>2. NameLoopOK(reg, txt, i - 1, g[i - 1])
    BY <1>8
  <2>3. g[i] = IF g[i - 1].ret = More THEN NextName(reg, txt, exp, g[i - 1]) ELSE g[i - 1]
    BY <1>6, <2>1
  <2>4. CASE g[i - 1].ret = More
    <3> DEFINE s == g[i - 1]
               j == i - 1
    <3>1. NameLoopOK(reg, txt, j, s) /\ j \in Nat /\ s.ret = More /\ g[i] = NextName(reg, txt, exp, s)
          /\ j + 1 = i
      BY <2>1, <2>2, <2>3, <2>4
    <3> HIDE DEF s, j
    <3>2. NameLoopOK(reg, txt, j + 1, NextName(reg, txt, exp, s))
      BY <3>1, NextNameOK
    <3> QED
      BY <2>1, <3>1, <3>2
  <2>5. CASE g[i - 1].ret # More
    <3>1. NameLoopOK(reg, txt, i, g[i - 1])
      BY <2>2, <2>5 DEF NameLoopOK
    <3> QED
      BY <2>1, <2>3, <2>5, <3>1
  <2> QED
    BY <2>4, <2>5
<1> HIDE DEF S
<1>9. n \in S
  <2> HIDE DEF n
  <2> QED
    BY <1>1, <1>7, <1>8, RangeInduction
<1>10. NameLoopOK(reg, txt, n, g[n])
  BY <1>9 DEF S
<1>11. g[n].ret # More
  <2> DEFINE c == Commas(txt, g[n].pos)
             m == Cardinality(AllCommas(txt))
  <2>1. c <= m /\ m \in Nat /\ c \in Nat
    BY CommaSets
  <2>2. n = m + 2
    BY DEF Passes
  <2>3. g[n].ret = More => n <= c \/ n <= c + 1
    BY <1>10 DEF NameLoopOK
  <2> HIDE DEF c, m, n
  <2> QED
    BY <2>1, <2>2, <2>3
<1> QED
  BY <1>6, <1>10, <1>11 DEF NameLoopOK

-----------------------------------------------------------------------------
(* A text whose outer brace is never closed. *)

Open(txt) == IsText(txt) /\ \A n \in 1 .. Len(txt) : Braces(txt, n) >= 1

(* A reader that gives 0 has read a whole object, whose braces are closed. *)
LEMMA OpenIsRefused ==
  ASSUME NEW txt, Open(txt), NEW reg, RegistryOK(reg), NEW exp, exp # NoType => exp \in DOMAIN reg
  PROVE  ParseJson(reg, txt, exp).ret \in Errors \cup {Undefined}
<1> DEFINE p == SkipSpace(txt, 1)
           a == IF At(txt, p) = "brace" THEN GetObjectType(reg, txt, p + 1, exp)
                ELSE Answer(INVALID_JSON, NoType)
           r == ParseJsonObject(reg, txt, ObjectReader(reg, txt), a.type, 1, 0)
<1>1. IsText(txt) /\ Len(txt) \in Nat /\ 1 \in Places(txt)
  BY Texts DEF Open, Places
<1>2. a.ret \in Errors \cup {Undefined, Ok} /\ (a.ret = Ok => a.type \in DOMAIN reg)
  <2>1. CASE At(txt, p) = "brace"
    <3>1. p \in Places(txt)
      BY <1>1, EvenSpace
    <3> HIDE DEF p
    <3> DEFINE c == p + 1
    <3>2. c \in Places(txt)
      BY <1>1, <2>1, <3>1, TokenAt
    <3>3. a = GetObjectType(reg, txt, c, exp)
      BY <2>1
    <3> HIDE DEF a, c
    <3> QED
      BY <1>1, <3>2, <3>3, ObjectTypeOK
  <2>2. CASE At(txt, p) # "brace"
    <3>1. a = Answer(INVALID_JSON, NoType)
      BY <2>2
    <3> HIDE DEF a
    <3> QED
      BY <3>1 DEF Answer, Errors, INVALID_JSON, Ok
  <2> QED
    BY <2>1, <2>2
<1>3. CASE a.ret # Ok
  <2>1. ParseJson(reg, txt, exp).ret = a.ret
    BY <1>3 DEF ParseJson
  <2> HIDE DEF a
  <2> QED
    BY <1>2, <1>3, <2>1
<1>4. CASE a.ret = Ok
  <2>1. ParseJson(reg, txt, exp).ret = r.ret
    BY <1>4 DEF ParseJson
  <2> DEFINE t == a.type
  <2>2. t \in DOMAIN reg
    BY <1>2, <1>4
  <2> HIDE DEF a, t
  <2>3. ReaderOK(reg, txt, ObjectReader(reg, txt))
    BY <1>1, ObjectReaderOK
  <2>4. r = ParseJsonObject(reg, txt, ObjectReader(reg, txt), t, 1, 0)
    BY DEF t
  <2> HIDE DEF r
  <2>5. ValueOK(txt, 1, r) /\ (r.ret = Ok => 1 + 1 <= r.pos)
    BY <1>1, <2>2, <2>3, <2>4, ObjectOK
  <2>6. r.ret # Ok
    <3> SUFFICES ASSUME r.ret = Ok PROVE FALSE
      OBVIOUS
    <3> DEFINE q == r.pos
    <3>1. Even(txt, 1, q) /\ 2 <= q
      BY <2>5 DEF ValueOK
    <3> HIDE DEF q
    <3>2. q - 1 \in 1 .. Len(txt) /\ Braces(txt, q - 1) = Braces(txt, 1 - 1)
      BY <1>1, <3>1 DEF Even, Places
    <3>3. Braces(txt, 1 - 1) = 0
      <4>1. 1 - 1 = 0
        OBVIOUS
      <4>2. Braces(txt, 0) = 0
        BY <1>1, BraceSteps
      <4> QED
        BY <4>1, <4>2
    <3>4. Braces(txt, q - 1) >= 1
      BY <3>2 DEF Open
    <3> QED
      BY <3>2, <3>3, <3>4
  <2>7. r.ret \in {Ok, INVALID_JSON}
    BY <2>5 DEF ValueOK
  <2> QED
    BY <2>1, <2>6, <2>7 DEF Errors
<1> QED
  BY <1>3, <1>4

-----------------------------------------------------------------------------
(* What the writer writes closes each brace that it opens.                 *)

(* Behind a in s are the same m tokens as behind b in t; they change the   *)
(* depth alike.                                                            *)
SameTokens(s, a, t, b, m) ==
  /\ a + m <= Len(s) /\ b + m <= Len(t)
  /\ \A i \in 1 .. m : s[a + i] = t[b + i]

SameBraces(s, a, t, b, m) ==
  \A n \in 0 .. m : Braces(s, a + n) - Braces(s, a) = Braces(t, b + n) - Braces(t, b)

LEMMA SameTokensSameBraces ==
  ASSUME NEW s, NEW t, IsText(s), IsText(t), NEW a \in Nat, NEW b \in Nat, NEW m \in Nat,
         SameTokens(s, a, t, b, m)
  PROVE  SameBraces(s, a, t, b, m)
<1> USE DEF SameTokens
<1> DEFINE S == {n \in 0 .. m : Braces(s, a + n) - Braces(s, a) = Braces(t, b + n) - Braces(t, b)}
<1>1. Len(s) \in Nat /\ Len(t) \in Nat
  BY Texts
<1>2. \A n \in 0 .. m : a + n \in 0 .. Len(s) /\ b + n \in 0 .. Len(t)
  BY <1>1
<1>3. \A n \in 0 .. m : Braces(s, a + n) \in Int /\ Braces(t, b + n) \in Int
  BY <1>2, BraceSteps
<1>4. 0 \in S
  <2>1. a + 0 = a /\ b + 0 = b /\ 0 \in 0 .. m
    OBVIOUS
  <2>2. Braces(s, a) \in Int /\ Braces(t, b) \in Int
    BY <1>3, <2>1
  <2> QED
    BY <2>1, <2>2
<1>5. ASSUME NEW n \in 1 .. m, n - 1 \in S PROVE n \in S
  <2> DEFINE x == a + n
             y == b + n
             u == a + (n - 1)
             w == b + (n - 1)
  <2>1. x \in 1 .. Len(s) /\ y \in 1 .. Len(t) /\ x - 1 = u /\ y - 1 = w
    BY <1>1
  <2>2. s[x] = t[y]
    OBVIOUS
  <2>3. Braces(s, u) - Braces(s, a) = Braces(t, w) - Braces(t, b)
    BY <1>5
  <2>4. 0 \in 0 .. m /\ n - 1 \in 0 .. m /\ n \in 0 .. m /\ a + 0 = a /\ b + 0 = b
    OBVIOUS
  <2>5. Braces(s, a) \in Int /\ Braces(t, b) \in Int /\ Braces(s, u) \in Int /\ Braces(t, w) \in Int
        /\ Braces(s, x) \in Int /\ Braces(t, y) \in Int
    BY <1>3, <2>4
  <2> HIDE DEF x, y, u, w
  <2>6. Braces(s, x) = Braces(s, u) + Brace(s[x][1])
    BY <2>1, BraceSteps
  <2>7. Braces(t, y) = Braces(t, w) + Brace(s[x][1])
    BY <2>1, <2>2, BraceSteps
  <2>8. Brace(s[x][1]) \in Int
    BY DEF Brace
  <2>9. Braces(s, x) - Braces(s, a) = Braces(t, y) - Braces(t, b)
    BY ONLY <2>3, <2>5, <2>6, <2>7, <2>8
  <2> QED
    BY <2>4, <2>9 DEF x, y
<1> HIDE DEF S
<1>6. 0 .. m \subseteq S
  BY <1>4, <1>5, RangeInduction
<1> QED
  BY <1>6 DEF S, SameBraces

(* The depth of j, which is t behind s.                                    *)
Joins(s, t, j) ==
  /\ IsText(j) /\ Len(j) = Len(s) + Len(t)
  /\ \A n \in 0 .. Len(s) : Braces(j, n) = Braces(s, n)
  /\ \A n \in 0 .. Len(t) : Braces(j, Len(s) + n) = Braces(s, Len(s)) + Braces(t, n)

LEMMA BracesJoined ==
  ASSUME NEW s, NEW t, IsText(s), IsText(t)
  PROVE  Joins(s, t, s \o t)
<1>1. PICK A : s \in Seq(A)
  BY DEF IsText
<1>2. PICK B : t \in Seq(B)
  BY DEF IsText
<1> DEFINE C == A \cup B
           j == s \o t
           l == Len(s)
           m == Len(t)
           z == 0
<1>3. s \in Seq(C) /\ t \in Seq(C)
  BY <1>1, <1>2, SeqMonotonic
<1>4. j \in Seq(C) /\ Len(j) = l + m /\ l \in Nat /\ m \in Nat
      /\ (\A i \in 1 .. l : j[i] = s[i]) /\ (\A i \in 1 .. m : j[l + i] = t[i])
  <2> HIDE DEF C
  <2> QED
    BY <1>3
<1>5. IsText(j)
  <2> HIDE DEF j, C
  <2> QED
    BY <1>4 DEF IsText
<1>z. z \in Nat /\ z = 0
  OBVIOUS
<1> HIDE DEF j, l, m, z
<1>6. \A n \in 0 .. l : Braces(j, z + n) - Braces(j, z) = Braces(s, z + n) - Braces(s, z)
  <2>1. SameTokens(j, z, s, z, l)
    BY <1>4, <1>z DEF l, SameTokens
  <2>2. SameBraces(j, z, s, z, l)
    BY <1>4, <1>5, <1>z, <2>1, SameTokensSameBraces
  <2> QED
    BY <2>2 DEF SameBraces
<1>7. \A n \in 0 .. m : Braces(j, l + n) - Braces(j, l) = Braces(t, z + n) - Braces(t, z)
  <2>1. SameTokens(j, l, t, z, m)
    BY <1>4, <1>z DEF m, SameTokens
  <2>2. SameBraces(j, l, t, z, m)
    BY <1>4, <1>5, <1>z, <2>1, SameTokensSameBraces
  <2> QED
    BY <2>2 DEF SameBraces
<1>8. /\ Braces(j, 0) = 0 /\ Braces(s, 0) = 0 /\ Braces(t, 0) = 0
      /\ \A n \in 0 .. l : Braces(j, n) \in Int /\ Braces(s, n) \in Int
      /\ \A n \in 0 .. m : Braces(j, l + n) \in Int /\ Braces(t, n) \in Int
  <2>1. \A n \in 0 .. m : l + n \in 0 .. Len(j)
    BY <1>4
  <2>2. \A n \in 0 .. l : n \in 0 .. Len(j) /\ n \in 0 .. Len(s)
    BY <1>4 DEF l
  <2> QED
    BY <1>5, <2>1, <2>2, BraceSteps DEF m
<1>9. \A n \in 0 .. l : Braces(j, n) = Braces(s, n)
  <2>1. \A n \in 0 .. l : z + n = n
    BY <1>4, <1>z
  <2> QED
    BY <1>4, <1>6, <1>8, <1>z, <2>1
<1>10. \A n \in 0 .. m : Braces(j, l + n) = Braces(s, l) + Braces(t, n)
  <2>1. Braces(j, l) = Braces(s, l) /\ l \in 0 .. l
    BY <1>4, <1>9
  <2> TAKE n \in 0 .. m
  <2>2. Braces(j, l + n) - Braces(j, l) = Braces(t, z + n) - Braces(t, z) /\ z + n = n
    BY <1>4, <1>7, <1>z
  <2>3. Braces(j, l + n) \in Int /\ Braces(j, l) \in Int /\ Braces(t, n) \in Int
    BY <1>8, <2>1
  <2>4. Braces(j, l + n) - Braces(j, l) = Braces(t, n) - 0
    BY <1>8, <1>z, <2>2
  <2> QED
    BY <2>1, <2>3, <2>4
<1> QED
  BY <1>4, <1>5, <1>9, <1>10 DEF j, l, m, Joins

Balanced(s) ==
  /\ IsText(s) /\ \A n \in 0 .. Len(s) : Braces(s, n) >= 0
  /\ Braces(s, Len(s)) = 0

LEMMA BalancedEmpty == Balanced(<<>>)
<1>1. <<>> \in Seq({})
  OBVIOUS
<1>2. IsText(<<>>) /\ Len(<<>>) = 0
  BY <1>1 DEF IsText
<1>3. Braces(<<>>, 0) = 0 /\ \A n \in 0 .. 0 : n = 0
  BY <1>2, BraceSteps
<1> QED
  BY <1>2, <1>3 DEF Balanced

LEMMA BalancedOne ==
  ASSUME NEW c, c[1] \notin {"brace", "endbrace"}
  PROVE  Balanced(<<c>>)
<1> DEFINE s == <<c>>
<1>1. s \in Seq({c}) /\ Len(s) = 1 /\ s[1] = c
  OBVIOUS
<1> HIDE DEF s
<1>2. IsText(s)
  BY <1>1 DEF IsText
<1>3. Brace(s[1][1]) = 0
  BY <1>1 DEF Brace
<1>4. 1 \in 1 .. Len(s) /\ 1 - 1 = 0
  BY <1>1
<1>5. Braces(s, 0) = 0 /\ Braces(s, 1) = 0
  <2>1. Braces(s, 1) = Braces(s, 0) + 0 /\ Braces(s, 0) = 0
    BY <1>2, <1>3, <1>4, BraceSteps
  <2> QED
    BY <2>1
<1>6. \A n \in 0 .. 1 : n = 0 \/ n = 1
  OBVIOUS
<1>7. Balanced(s)
  BY <1>1, <1>2, <1>5, <1>6 DEF Balanced
<1> QED
  BY <1>7 DEF s

LEMMA BalancedJoin ==
  ASSUME NEW s, NEW t, Balanced(s), Balanced(t)
  PROVE  Balanced(s \o t)
<1> DEFINE j == s \o t
           l == Len(s)
           m == Len(t)
<1>1. IsText(s) /\ IsText(t)
  BY DEF Balanced
<1>a. Joins(s, t, j)
  BY <1>1, BracesJoined
<1> HIDE DEF j
<1>2. /\ IsText(j) /\ Len(j) = l + m
      /\ \A n \in 0 .. l : Braces(j, n) = Braces(s, n)
      /\ \A n \in 0 .. m : Braces(j, l + n) = Braces(s, l) + Braces(t, n)
  BY <1>a DEF Joins
<1>3. l \in Nat /\ m \in Nat
  BY <1>1, Texts
<1>4. /\ \A n \in 0 .. l : Braces(s, n) \in Int /\ Braces(s, n) >= 0
      /\ \A n \in 0 .. m : Braces(t, n) \in Int /\ Braces(t, n) >= 0
      /\ Braces(s, l) = 0 /\ Braces(t, m) = 0
  BY <1>1, BraceSteps DEF Balanced
<1> HIDE DEF j, l, m
<1>5. \A n \in 0 .. m : Braces(j, l + n) >= 0
  BY <1>2, <1>4
<1>6. ASSUME NEW n \in 0 .. l + m PROVE Braces(j, n) >= 0
  <2>1. CASE n <= l
    BY <1>2, <1>3, <1>4, <2>1
  <2>2. CASE ~(n <= l)
    <3>1. n - l \in 0 .. m /\ l + (n - l) = n
      BY <1>3, <2>2
    <3> QED
      BY <1>5, <3>1
  <2> QED
    BY <2>1, <2>2
<1>7. Braces(j, l + m) = 0
  <2>1. m \in 0 .. m
    BY <1>3
  <2> QED
    BY <1>2, <1>4, <2>1
<1>8. Balanced(j)
  BY <1>2, <1>6, <1>7 DEF Balanced
<1> QED
  BY <1>8 DEF j

(* Many balanced texts in a row are one.                                   *)
LEMMA BalancedFlat ==
  ASSUME NEW S, NEW seqs \in Seq(S), \A s \in S : Balanced(s)
  PROVE  Balanced(FlattenSeq(seqs))
<1> DEFINE N == Len(seqs)
           Is(f) == f = [i \in 1 .. N |-> IF i = 1 THEN seqs[i] ELSE f[i - 1] \o seqs[i]]
           a == [seqs |-> seqs]
<1>1. N \in Nat /\ \A i \in 1 .. N : Balanced(seqs[i])
  OBVIOUS
<1>2. CASE N = 0
  <2>1. seqs = <<>>
    BY <1>2
  <2>2. FlattenSeq(seqs) = seqs
    BY <1>2 DEF FlattenSeq
  <2> QED
    BY <2>1, <2>2, BalancedEmpty
<1>3. CASE N # 0
  <2> DEFINE M == N - 1
             start == seqs[1]
  <2>1. M \in Nat /\ M + 1 = N
    BY <1>1, <1>3
  <2>2. PICK g : IsRun(g, "flatten", a, start, M)
    <3> HIDE DEF M, a, start, N
    <3> QED
      BY <2>1, Runs
  <2>3. \A i, s : Goes("flatten", a, i, s) = s \o seqs[i + 1]
    BY DEF Goes
  <2> HIDE DEF M, a, start
  <2>4. g[0] = start /\ \A i \in 1 .. M : g[i] = g[i - 1] \o seqs[i + 1]
    <3>1. \A i \in 0 .. M : g[i] = IF i = 0 THEN start ELSE Goes("flatten", a, i, g[i - 1])
      BY <2>2 DEF IsRun
    <3>2. 0 \in 0 .. M /\ \A i \in 1 .. M : i \in 0 .. M /\ i # 0
      BY <2>1
    <3> QED
      BY <2>3, <3>1, <3>2
  <2> DEFINE f == [i \in 1 .. N |-> g[i - 1]]
  <2>5. \A i \in 1 .. N : f[i] = IF i = 1 THEN seqs[i] ELSE f[i - 1] \o seqs[i]
    <3> TAKE i \in 1 .. N
    <3>1. f[i] = g[i - 1]
      OBVIOUS
    <3>2. CASE i = 1
      <4>1. i - 1 = 0
        BY <3>2
      <4> QED
        BY <2>4, <3>1, <3>2, <4>1 DEF start
    <3>3. CASE i # 1
      <4>1. i - 1 \in 1 .. M /\ i - 1 + 1 = i /\ i - 1 \in 1 .. N
        BY <1>1, <2>1, <3>3
      <4>2. f[i - 1] = g[i - 1 - 1]
        BY <4>1
      <4> HIDE DEF f
      <4>3. g[i - 1] = g[i - 1 - 1] \o seqs[i - 1 + 1]
        BY <2>4, <4>1
      <4> QED
        BY <3>1, <3>3, <4>1, <4>2, <4>3
    <3> QED
      BY <3>2, <3>3
  <2>6. f = [i \in 1 .. N |-> f[i]]
    OBVIOUS
  <2> HIDE DEF f
  <2>7. Is(f)
    BY <2>5, <2>6
  <2>8. FlattenSeq(seqs) = (CHOOSE h : Is(h))[N]
    BY <1>3 DEF FlattenSeq
  <2>9. PICK h : Is(h) /\ FlattenSeq(seqs) = h[N]
    <3> HIDE DEF Is, N
    <3> QED
      BY <2>7, <2>8
  <2> DEFINE K == {k \in 0 .. M : Balanced(h[k + 1])}
  <2>10. 0 \in K
    <3>1. 0 + 1 = 1 /\ 1 \in 1 .. N /\ 0 \in 0 .. M
      BY <1>1, <2>1
    <3>2. h[1] = seqs[1]
      BY <2>9, <3>1
    <3>3. Balanced(h[1])
      BY <1>1, <3>1, <3>2
    <3> QED
      BY <3>1, <3>3
  <2>11. ASSUME NEW k \in 1 .. M, k - 1 \in K PROVE k \in K
    <3> DEFINE i == k + 1
    <3>1. i \in 1 .. N /\ i # 1 /\ i - 1 = k - 1 + 1 /\ k \in 0 .. M
      BY <2>1
    <3>2. Balanced(h[k - 1 + 1])
      BY <2>11
    <3> HIDE DEF i
    <3>3. h[i] = h[i - 1] \o seqs[i]
      BY <2>9, <3>1
    <3>4. Balanced(h[i - 1]) /\ Balanced(seqs[i])
      BY <1>1, <3>1, <3>2
    <3> HIDE DEF N, Is
    <3>5. Balanced(h[i])
      BY <3>3, <3>4, BalancedJoin
    <3> QED
      BY <3>1, <3>5 DEF i
  <2> HIDE DEF K
  <2>12. 0 .. M \subseteq K
    BY <2>1, <2>10, <2>11, RangeInduction
  <2>13. M \in K
    BY <2>1, <2>12
  <2> QED
    BY <2>1, <2>9, <2>13 DEF K
<1> QED
  BY <1>2, <1>3

(* A brace is open all the way.                                            *)
Opened(s) ==
  /\ IsText(s) /\ Len(s) >= 1 /\ Braces(s, Len(s)) = 1
  /\ \A n \in 1 .. Len(s) : Braces(s, n) >= 1

(* ... but for the last token.                                             *)
Whole(s) ==
  /\ IsText(s) /\ Braces(s, Len(s)) = 0
  /\ \A n \in 1 .. Len(s) - 1 : Braces(s, n) >= 1

LEMMA WholeIsBalanced ==
  ASSUME NEW s, Whole(s)
  PROVE  Balanced(s)
<1>1. IsText(s) /\ Len(s) \in Nat
  BY Texts DEF Whole
<1>2. Braces(s, 0) = 0 /\ Braces(s, Len(s)) = 0
  BY <1>1, BraceSteps DEF Whole
<1>3. \A n \in 0 .. Len(s) : n = 0 \/ n = Len(s) \/ n \in 1 .. Len(s) - 1
  BY <1>1
<1>4. \A n \in 0 .. Len(s) : Braces(s, n) >= 0
  BY <1>1, <1>2, <1>3, BraceSteps DEF Whole
<1> QED
  BY <1>1, <1>2, <1>4 DEF Balanced

LEMMA OneToken ==
  ASSUME NEW c
  PROVE  /\ IsText(P(c)) /\ Len(P(c)) = 1
         /\ Braces(P(c), 0) = 0 /\ Braces(P(c), 1) = Brace(c)
<1> DEFINE s == <<<<c, 0>>>>
<1>1. s \in Seq({<<c, 0>>}) /\ Len(s) = 1 /\ s[1] = <<c, 0>>
  OBVIOUS
<1>2. s[1][1] = c
  BY <1>1
<1> HIDE DEF s
<1>3. IsText(s)
  BY <1>1 DEF IsText
<1>4. 1 \in 1 .. Len(s) /\ 1 - 1 = 0
  BY <1>1
<1>5. Braces(s, 0) = 0 /\ Braces(s, 1) = Braces(s, 0) + Brace(c)
  <2>1. Braces(s, 1) = Braces(s, 1 - 1) + Brace(s[1][1])
    BY <1>3, <1>4, BraceSteps
  <2> QED
    BY <1>2, <1>3, <1>4, <2>1, BraceSteps
<1>6. Brace(c) \in Int
  BY DEF Brace
<1>7. Braces(s, 1) = Brace(c)
  BY <1>5, <1>6
<1> QED
  BY <1>1, <1>3, <1>5, <1>7 DEF P, s

LEMMA OpenedBrace == Opened(P("brace"))
<1> DEFINE s == P("brace")
<1>1. IsText(s) /\ Len(s) = 1 /\ Braces(s, 1) = Brace("brace")
  BY OneToken
<1>2. Brace("brace") = 1
  BY DEF Brace
<1> HIDE DEF s
<1>3. Braces(s, 1) = 1 /\ \A n \in 1 .. 1 : n = 1
  BY <1>1, <1>2
<1>4. Opened(s)
  BY <1>1, <1>3 DEF Opened
<1> QED
  BY <1>4 DEF s

LEMMA OpenedJoin ==
  ASSUME NEW s, NEW t, Opened(s), Balanced(t)
  PROVE  Opened(s \o t)
<1> DEFINE j == s \o t
           l == Len(s)
           m == Len(t)
<1>1. IsText(s) /\ IsText(t)
  BY DEF Balanced, Opened
<1>a. Joins(s, t, j)
  BY <1>1, BracesJoined
<1> HIDE DEF j
<1>2. /\ IsText(j) /\ Len(j) = l + m
      /\ \A n \in 0 .. l : Braces(j, n) = Braces(s, n)
      /\ \A n \in 0 .. m : Braces(j, l + n) = Braces(s, l) + Braces(t, n)
  BY <1>a DEF Joins
<1>3. l \in Nat /\ m \in Nat /\ l >= 1
  BY <1>1, Texts DEF Opened
<1>4. /\ \A n \in 1 .. l : Braces(s, n) >= 1
      /\ \A n \in 0 .. m : Braces(t, n) \in Int /\ Braces(t, n) >= 0
      /\ Braces(s, l) = 1 /\ Braces(t, m) = 0
  BY <1>1, BraceSteps DEF Balanced, Opened
<1> HIDE DEF j, l, m
<1>5. \A n \in 0 .. m : Braces(j, l + n) >= 1
  BY <1>2, <1>4
<1>6. ASSUME NEW n \in 1 .. l + m PROVE Braces(j, n) >= 1
  <2>1. CASE n <= l
    BY <1>2, <1>3, <1>4, <2>1
  <2>2. CASE ~(n <= l)
    <3>1. n - l \in 0 .. m /\ l + (n - l) = n
      BY <1>3, <2>2
    <3> QED
      BY <1>5, <3>1
  <2> QED
    BY <2>1, <2>2
<1>7. Braces(j, l + m) = 1 /\ l + m >= 1
  <2>1. m \in 0 .. m
    BY <1>3
  <2>2. Braces(j, l + m) = Braces(s, l) + Braces(t, m)
    BY <1>2, <2>1
  <2> QED
    BY <1>3, <1>4, <2>2
<1>8. Opened(j)
  BY <1>2, <1>6, <1>7 DEF Opened
<1> QED
  BY <1>8 DEF j

LEMMA OpenedEnds ==
  ASSUME NEW s, Opened(s)
  PROVE  Whole(s \o P("endbrace"))
<1> DEFINE t == P("endbrace")
           j == s \o t
           l == Len(s)
<1>1. IsText(s) /\ IsText(t) /\ Len(t) = 1 /\ Braces(t, 1) = Brace("endbrace")
  BY OneToken DEF Opened
<1>2. Brace("endbrace") = -1
  BY DEF Brace
<1>3. l \in Nat /\ Braces(s, l) = 1 /\ \A n \in 1 .. l : Braces(s, n) >= 1
  BY <1>1, Texts DEF Opened
<1>a. Joins(s, t, j)
  BY <1>1, BracesJoined
<1> HIDE DEF j
<1>4. /\ IsText(j) /\ Len(j) = l + Len(t)
      /\ \A n \in 0 .. l : Braces(j, n) = Braces(s, n)
      /\ \A n \in 0 .. Len(t) : Braces(j, l + n) = Braces(s, l) + Braces(t, n)
  BY <1>a DEF Joins
<1> HIDE DEF l
<1>5. Braces(j, l + 1) = 0
  <2>1. 1 \in 0 .. Len(t)
    BY <1>1
  <2>2. Braces(j, l + 1) = Braces(s, l) + Braces(t, 1)
    BY <1>4, <2>1
  <2> QED
    BY <1>1, <1>2, <1>3, <2>2
<1>6. Len(j) = l + 1 /\ \A n \in 1 .. Len(j) - 1 : n \in 1 .. l /\ n \in 0 .. l
  <2> HIDE DEF t
  <2>1. Len(j) = l + 1
    BY ONLY <1>1, <1>4
  <2>2. Len(j) - 1 = l
    BY ONLY <1>3, <2>1
  <2>3. \A n \in 1 .. l : n \in 0 .. l
    BY ONLY <1>3
  <2> QED
    BY <2>1, <2>2, <2>3
<1>7. Whole(j)
  BY <1>3, <1>4, <1>5, <1>6 DEF Whole
<1> QED
  BY <1>7 DEF j, t

(* Wherever a whole text is cut, the first brace stays open.               *)
LEMMA CutWholeIsOpen ==
  ASSUME NEW s, Whole(s), NEW n \in 0 .. Len(s) - 1
  PROVE  Open(SubSeq(s, 1, n))
<1> DEFINE c == SubSeq(s, 1, n)
           z == 0
<1>1. IsText(s) /\ Len(s) \in Nat
  BY Texts DEF Whole
<1>2. PICK A : s \in Seq(A)
  BY <1>1 DEF IsText
<1>3. c \in Seq(A) /\ Len(c) = n /\ \A i \in 1 .. n : c[i] = s[i]
  BY <1>1, <1>2
<1>4. IsText(c)
  <2> HIDE DEF c
  <2> QED
    BY <1>3 DEF IsText
<1>5. z \in Nat /\ z = 0 /\ n \in Nat /\ n <= Len(s)
  BY <1>1
<1> HIDE DEF c, z
<1>6. SameTokens(c, z, s, z, n)
  BY <1>1, <1>3, <1>5 DEF SameTokens
<1>7. SameBraces(c, z, s, z, n)
  BY <1>1, <1>4, <1>5, <1>6, SameTokensSameBraces
<1>8. \A i \in 0 .. n : Braces(c, i) \in Int /\ Braces(s, i) \in Int /\ z + i = i
  BY <1>1, <1>3, <1>4, <1>5, BraceSteps
<1>9. Braces(c, z) = 0 /\ Braces(s, z) = 0
  BY <1>1, <1>4, <1>5, BraceSteps
<1>10. ASSUME NEW i \in 1 .. n PROVE Braces(c, i) >= 1
  <2>1. i \in 0 .. n /\ i \in 1 .. Len(s) - 1
    BY <1>1
  <2>2. Braces(c, z + i) - Braces(c, z) = Braces(s, z + i) - Braces(s, z)
    BY <1>7, <2>1 DEF SameBraces
  <2>3. Braces(c, i) - 0 = Braces(s, i) - 0
    BY <1>8, <1>9, <2>1, <2>2
  <2>4. Braces(s, i) >= 1
    BY <2>1 DEF Whole
  <2> QED
    BY <1>8, <2>1, <2>3, <2>4
<1>11. Open(c)
  BY <1>3, <1>4, <1>10 DEF Open
<1> QED
  BY <1>11 DEF c

-----------------------------------------------------------------------------
(* Every text that is written is whole.                                    *)

WriterOK(reg, inner) ==
  \A m \in Memories, base \in Nat, t \in DOMAIN reg : Whole(inner[<<m, base, t>>])

LEMMA TokenBalanced ==
  ASSUME NEW c, c \notin {"brace", "endbrace"}
  PROVE  Balanced(P(c))
<1>1. <<c, 0>>[1] = c
  OBVIOUS
<1>2. Balanced(<<<<c, 0>>>>)
  BY <1>1, BalancedOne
<1> QED
  BY <1>2 DEF P

LEMMA SmallTextsBalanced ==
  ASSUME NEW pr, NEW i, NEW n, NEW x
  PROVE  Balanced(Space(pr)) /\ Balanced(Comma(i, n)) /\ Balanced(Str(x)) /\ Balanced(P("colon"))
         /\ Balanced(P("comma")) /\ Balanced(P("bracket")) /\ Balanced(P("endbracket"))
<1>1. Balanced(P("space")) /\ Balanced(P("comma")) /\ Balanced(P("colon")) /\ Balanced(P("bracket"))
      /\ Balanced(P("endbracket"))
  BY TokenBalanced
<1>2. Balanced(Str(x))
  <2>1. <<"str", x>>[1] = "str"
    OBVIOUS
  <2>2. Balanced(<<<<"str", x>>>>)
    BY <2>1, BalancedOne
  <2> QED
    BY <2>2 DEF Str
<1>3. Balanced(Space(pr))
  BY <1>1, BalancedEmpty DEF Space
<1>4. Balanced(Comma(i, n))
  BY <1>1, BalancedEmpty DEF Comma
<1> QED
  BY <1>1, <1>2, <1>3, <1>4

LEMMA Loaded ==
  ASSUME NEW mem \in Memories, NEW addr \in Nat
  PROVE  /\ Load(mem, addr)[1] \notin {"brace", "endbrace"}
         /\ Elements(Load(mem, addr)) \in Seq(Memories)
<1> DEFINE c == Load(mem, addr)
<1>1. c[1] \in {"num", "str", "arr", "garbage"} /\ (c[1] = "arr" => c[2] \in Seq(Memories))
  <2>1. CASE addr < Len(mem)
    <3>1. mem \in Seq(Range(mem)) /\ \A d \in Range(mem) :
            d[1] \in {"num", "str", "arr"} /\ (d[1] = "arr" => d[2] \in Seq(Memories))
      BY JsonAssumption DEF MemoryAssumption
    <3>2. addr + 1 \in 1 .. Len(mem) /\ c = mem[addr + 1]
      BY <2>1, <3>1 DEF Load
    <3> HIDE DEF c
    <3>3. c \in Range(mem)
      BY <3>1, <3>2
    <3> QED
      BY <3>1, <3>3
  <2>2. CASE ~(addr < Len(mem))
    <3>1. c = <<"garbage", 0>>
      BY <2>2 DEF Load, Garbage
    <3> HIDE DEF c
    <3> QED
      BY <3>1
  <2> QED
    BY <2>1, <2>2
<1> HIDE DEF c
<1>2. c[1] \notin {"brace", "endbrace"}
  BY <1>1
<1>3. Elements(c) \in Seq(Memories)
  BY <1>1 DEF Elements
<1> QED
  BY <1>2, <1>3 DEF c

LEMMA WriteDescriptorBalanced ==
  ASSUME NEW reg, NEW inner, WriterOK(reg, inner), NEW mem \in Memories, NEW base \in Nat,
         NEW t \in DOMAIN reg
  PROVE  Balanced(WriteJsonDescriptor(reg, inner, mem, base, t))
<1>1. CASE GetDescriptor(reg, t).class = "object"
  <2>1. WriteJsonDescriptor(reg, inner, mem, base, t) = inner[<<mem, base, t>>]
    BY <1>1 DEF WriteJsonDescriptor
  <2>2. Whole(inner[<<mem, base, t>>])
    BY DEF WriterOK
  <2> QED
    BY <2>1, <2>2, WholeIsBalanced
<1>2. CASE GetDescriptor(reg, t).class = "float"
  <2> DEFINE v == Printed(Load(mem, base)[2])
  <2>1. WriteJsonDescriptor(reg, inner, mem, base, t) = <<<<"float", v>>>>
    BY <1>2 DEF WriteJsonDescriptor
  <2> HIDE DEF v
  <2>2. <<"float", v>>[1] = "float"
    OBVIOUS
  <2>3. Balanced(<<<<"float", v>>>>)
    BY <2>2, BalancedOne
  <2> QED
    BY <2>1, <2>3
<1>3. CASE GetDescriptor(reg, t).class \notin {"object", "float"}
  <2>1. WriteJsonDescriptor(reg, inner, mem, base, t) = <<Load(mem, base)>>
    BY <1>3 DEF WriteJsonDescriptor
  <2> QED
    BY <2>1, Loaded, BalancedOne
<1> QED
  BY <1>1, <1>2, <1>3

LEMMA WriteFieldBalanced ==
  ASSUME NEW reg, RegistryOK(reg), NEW inner, WriterOK(reg, inner), NEW mem \in Memories,
         NEW base \in Nat, NEW f \in FieldsIn(reg), NEW pr
  PROVE  Balanced(WriteJsonField(reg, inner, mem, base, f, pr))
<1> DEFINE at == base + f.offset
           items == Elements(Load(mem, at))
           n == IF f.flag = "fixed" THEN f.len ELSE Len(items)
           Item(i) ==
             IF f.flag = "fixed"
               THEN WriteJsonDescriptor(reg, inner, mem, at + (i - 1) * GetDescriptor(reg, f.type).size, f.type)
               ELSE WriteJsonDescriptor(reg, inner, items[i], 0, f.type)
           seqs == [i \in 1 .. n |-> Space(pr) \o Item(i) \o Comma(i, n) \o Space(pr)]
           w == WriteJsonField(reg, inner, mem, base, f, pr)
<1>1. f.offset \in Nat /\ f.type \in DOMAIN reg /\ f.len \in Nat
  BY DEF FieldsIn
<1>2. at \in Nat
  BY <1>1
<1>3. GetDescriptor(reg, f.type).size \in Nat
  BY <1>1 DEF RegistryOK, GetDescriptor
<1>4. CASE f.flag = "none"
  <2>1. w = WriteJsonDescriptor(reg, inner, mem, at, f.type)
    BY <1>4 DEF WriteJsonField
  <2> HIDE DEF w, at
  <2>2. Balanced(w)
    BY <1>1, <1>2, <2>1, WriteDescriptorBalanced
  <2> QED
    BY <2>2 DEF w
<1>5. CASE f.flag # "none"
  <2>1. w = Space(pr) \o P("bracket") \o Space(pr) \o FlattenSeq(seqs) \o P("endbracket")
    BY <1>5 DEF WriteJsonField
  <2>2. items \in Seq(Memories)
    <3> HIDE DEF at
    <3> QED
      BY <1>2, Loaded
  <2>3. n \in Nat
    <3> HIDE DEF items
    <3> QED
      BY <1>1, <2>2
  <2>4. ASSUME NEW i \in 1 .. n PROVE Balanced(Item(i))
    <3>1. CASE f.flag = "fixed"
      <4> DEFINE size == GetDescriptor(reg, f.type).size
                 k == i - 1
                 a == at + k * size
      <4>1. Item(i) = WriteJsonDescriptor(reg, inner, mem, a, f.type)
        BY <3>1
      <4>2. k \in Nat /\ size \in Nat
        BY <1>3, <2>3
      <4> HIDE DEF at, size, k
      <4>3. k * size \in Nat
        BY <4>2
      <4>4. a \in Nat
        BY <1>2, <4>3
      <4> HIDE DEF a, Item
      <4> QED
        BY <1>1, <4>1, <4>4, WriteDescriptorBalanced
    <3>2. CASE f.flag # "fixed"
      <4>1. Item(i) = WriteJsonDescriptor(reg, inner, items[i], 0, f.type)
        BY <3>2
      <4>2. n = Len(items)
        BY <3>2
      <4> HIDE DEF items, n, Item
      <4>3. items[i] \in Memories
        BY <2>2, <4>2
      <4> DEFINE m == items[i]
      <4>4. m \in Memories /\ Item(i) = WriteJsonDescriptor(reg, inner, m, 0, f.type)
        BY <4>1, <4>3
      <4> HIDE DEF m
      <4> QED
        BY <1>1, <4>4, WriteDescriptorBalanced
    <3> QED
      BY <3>1, <3>2
  <2> HIDE DEF Item, n, at, items
  <2>5. ASSUME NEW i \in 1 .. n PROVE Balanced(seqs[i])
    <3>1. seqs[i] = Space(pr) \o Item(i) \o Comma(i, n) \o Space(pr)
      OBVIOUS
    <3>2. Balanced(Space(pr)) /\ Balanced(Comma(i, n)) /\ Balanced(Item(i))
      BY <2>4, SmallTextsBalanced
    <3> HIDE DEF seqs
    <3>3. Balanced(Space(pr) \o Item(i))
      BY <3>2, BalancedJoin
    <3>4. Balanced(Space(pr) \o Item(i) \o Comma(i, n))
      BY <3>2, <3>3, BalancedJoin
    <3>5. Balanced(Space(pr) \o Item(i) \o Comma(i, n) \o Space(pr))
      BY <3>2, <3>4, BalancedJoin
    <3> QED
      BY <3>1, <3>5
  <2>6. Balanced(FlattenSeq(seqs))
    <3> DEFINE S == {seqs[i] : i \in 1 .. n}
    <3>1. seqs = [i \in 1 .. n |-> seqs[i]]
      OBVIOUS
    <3> HIDE DEF seqs
    <3>2. \A s \in S : Balanced(s)
      BY <2>5
    <3>3. seqs \in Seq(S)
      BY <2>3, <3>1
    <3> HIDE DEF S
    <3> QED
      BY <3>2, <3>3, BalancedFlat
  <2> HIDE DEF seqs, w
  <2> DEFINE flat == FlattenSeq(seqs)
  <2>7. Balanced(flat) /\ w = Space(pr) \o P("bracket") \o Space(pr) \o flat \o P("endbracket")
    BY <2>1, <2>6
  <2> HIDE DEF flat
  <2>8. Balanced(Space(pr)) /\ Balanced(P("bracket")) /\ Balanced(P("endbracket"))
    BY SmallTextsBalanced
  <2>9. Balanced(Space(pr) \o P("bracket"))
    BY <2>8, BalancedJoin
  <2>10. Balanced(Space(pr) \o P("bracket") \o Space(pr))
    BY <2>8, <2>9, BalancedJoin
  <2>11. Balanced(Space(pr) \o P("bracket") \o Space(pr) \o flat)
    BY <2>7, <2>10, BalancedJoin
  <2>12. Balanced(Space(pr) \o P("bracket") \o Space(pr) \o flat \o P("endbracket"))
    BY <2>8, <2>11, BalancedJoin
  <2>13. Balanced(w)
    BY <2>7, <2>12
  <2> QED
    BY <2>13 DEF w
<1> QED
  BY <1>4, <1>5

(* The text of an object of type t: its header, its fields, a brace.       *)
ObjectText(w, t, pr) ==
  \E flat : Balanced(flat) /\ w = Header(t, pr) \o flat \o P("endbrace")

LEMMA WriteObjectText ==
  ASSUME NEW reg, RegistryOK(reg), NEW inner, WriterOK(reg, inner), NEW mem \in Memories,
         NEW base \in Nat, NEW t \in DOMAIN reg, NEW pr
  PROVE  ObjectText(WriteJsonObject(reg, inner, mem, base, t, pr), t, pr)
<1> DEFINE fs == GetDescriptor(reg, t).fields
           n == Len(fs)
           seqs == [i \in DOMAIN fs |->
                      Str(fs[i].name) \o P("colon") \o Space(pr)
                      \o WriteJsonField(reg, inner, mem, base, fs[i], pr) \o Comma(i, Len(fs)) \o Space(pr)]
           w == WriteJsonObject(reg, inner, mem, base, t, pr)
<1>1. w = Header(t, pr) \o FlattenSeq(seqs) \o P("endbrace")
  BY DEF WriteJsonObject
<1>2. fs \in Seq(FieldsIn(reg))
  BY DEF RegistryOK, GetDescriptor
<1> HIDE DEF fs
<1>3. n \in Nat /\ DOMAIN fs = 1 .. n /\ \A i \in 1 .. n : fs[i] \in FieldsIn(reg)
  BY <1>2
<1>4. ASSUME NEW i \in 1 .. n PROVE Balanced(seqs[i])
  <2> DEFINE f == fs[i]
             name == Str(f.name)
             v == WriteJsonField(reg, inner, mem, base, f, pr)
             c == Comma(i, Len(fs))
  <2>1. seqs[i] = name \o P("colon") \o Space(pr) \o v \o c \o Space(pr)
    BY <1>3
  <2>2. f \in FieldsIn(reg)
    BY <1>3
  <2> HIDE DEF f, seqs
  <2>3. Balanced(name) /\ Balanced(P("colon")) /\ Balanced(Space(pr)) /\ Balanced(c)
    BY SmallTextsBalanced
  <2>4. Balanced(v)
    BY <2>2, WriteFieldBalanced
  <2> HIDE DEF name, v, c
  <2>5. Balanced(name \o P("colon"))
    BY <2>3, BalancedJoin
  <2>6. Balanced(name \o P("colon") \o Space(pr))
    BY <2>3, <2>5, BalancedJoin
  <2>7. Balanced(name \o P("colon") \o Space(pr) \o v)
    BY <2>4, <2>6, BalancedJoin
  <2>8. Balanced(name \o P("colon") \o Space(pr) \o v \o c)
    BY <2>3, <2>7, BalancedJoin
  <2>9. Balanced(name \o P("colon") \o Space(pr) \o v \o c \o Space(pr))
    BY <2>3, <2>8, BalancedJoin
  <2> QED
    BY <2>1, <2>9
<1>5. Balanced(FlattenSeq(seqs))
  <2> DEFINE S == {seqs[i] : i \in 1 .. n}
  <2>1. seqs = [i \in 1 .. n |-> seqs[i]]
    BY <1>3
  <2> HIDE DEF seqs, n
  <2>2. \A s \in S : Balanced(s)
    BY <1>4
  <2>3. seqs \in Seq(S)
    BY <1>3, <2>1
  <2> HIDE DEF S
  <2> QED
    BY <2>2, <2>3, BalancedFlat
<1> HIDE DEF seqs, w
<1>6. ObjectText(w, t, pr)
  BY <1>1, <1>5 DEF ObjectText
<1> QED
  BY <1>6 DEF w

LEMMA HeaderOpens ==
  ASSUME NEW t, NEW pr
  PROVE  Opened(Header(t, pr))
<1> DEFINE x == Str(TypeName)
           y == Str(t)
<1>1. /\ Balanced(x) /\ Balanced(y) /\ Balanced(Space(pr))
      /\ Balanced(P("colon")) /\ Balanced(P("comma"))
  BY SmallTextsBalanced
<1>2. Header(t, pr) = P("brace") \o Space(pr) \o x \o P("colon") \o Space(pr) \o y \o P("comma") \o Space(pr)
  BY DEF Header
<1> HIDE DEF x, y
<1>3. Opened(P("brace") \o Space(pr))
  BY <1>1, OpenedBrace, OpenedJoin
<1>4. Opened(P("brace") \o Space(pr) \o x)
  BY <1>1, <1>3, OpenedJoin
<1>5. Opened(P("brace") \o Space(pr) \o x \o P("colon"))
  BY <1>1, <1>4, OpenedJoin
<1>6. Opened(P("brace") \o Space(pr) \o x \o P("colon") \o Space(pr))
  BY <1>1, <1>5, OpenedJoin
<1>7. Opened(P("brace") \o Space(pr) \o x \o P("colon") \o Space(pr) \o y)
  BY <1>1, <1>6, OpenedJoin
<1>8. Opened(P("brace") \o Space(pr) \o x \o P("colon") \o Space(pr) \o y \o P("comma"))
  BY <1>1, <1>7, OpenedJoin
<1>9. Opened(P("brace") \o Space(pr) \o x \o P("colon") \o Space(pr) \o y \o P("comma") \o Space(pr))
  BY <1>1, <1>8, OpenedJoin
<1> QED
  BY <1>2, <1>9

LEMMA ObjectTextWhole ==
  ASSUME NEW w, NEW t, NEW pr, ObjectText(w, t, pr)
  PROVE  Whole(w)
<1>1. PICK flat : Balanced(flat) /\ w = Header(t, pr) \o flat \o P("endbrace")
  BY DEF ObjectText
<1>2. Opened(Header(t, pr) \o flat)
  BY <1>1, HeaderOpens, OpenedJoin
<1>3. Whole(Header(t, pr) \o flat \o P("endbrace"))
  BY <1>2, OpenedEnds
<1> QED
  BY <1>1, <1>3

LEMMA WholeEmpty == Whole(<<>>)
<1>1. Balanced(<<>>)
  BY BalancedEmpty
<1>2. Len(<<>>) = 0
  OBVIOUS
<1> QED
  BY <1>1, <1>2 DEF Balanced, Whole

(* The objects inside are whole by induction over their depth.             *)
LEMMA ObjectWriterOK ==
  ASSUME NEW reg, RegistryOK(reg), NEW pr
  PROVE  \A m \in Memories, base \in Nat, t \in DOMAIN reg :
           ObjectText(ObjectWriter(reg, pr)[<<m, base, t>>], t, pr)
<1> DEFINE N == Levels
           a == [reg |-> reg, pr |-> pr]
           O == Memories \X Nat \X (DOMAIN reg)
           start == [o \in O |-> <<>>]
           L(n, h) == [o \in O |-> IF n = 0 THEN <<>> ELSE WriteJsonObject(reg, h, o[1], o[2], o[3], pr)]
           Is(g) == g = [n \in 0 .. N |-> L(n, g[n - 1])]
<1>1. N \in Nat /\ N # 0 /\ N - 1 \in 0 .. N /\ N \in 0 .. N
  BY JsonAssumption DEF MemoryAssumption
<1>2. \E g : IsRun(g, "writer", a, start, N)
  <2> HIDE DEF a, N, start
  <2> QED
    BY <1>1, Runs
<1>3. \A i, s : Goes("writer", a, i, s) = [o \in O |-> WriteJsonObject(reg, s, o[1], o[2], o[3], pr)]
  BY DEF Goes
<1>a. \A h : L(0, h) = start
  OBVIOUS
<1>b. \A n, h : n # 0 => L(n, h) = [o \in O |-> WriteJsonObject(reg, h, o[1], o[2], o[3], pr)]
  OBVIOUS
<1>4. ASSUME NEW g, IsRun(g, "writer", a, start, N) PROVE Is(g)
  <2> HIDE DEF a, N, start, L, O
  <2>1. \A n \in 0 .. N : (IF n = 0 THEN start ELSE Goes("writer", a, n, g[n - 1])) = L(n, g[n - 1])
    BY <1>3, <1>a, <1>b
  <2> QED
    BY <1>4, <2>1 DEF IsRun
<1>5. ObjectWriter(reg, pr) = (CHOOSE g : Is(g))[N]
  BY DEF ObjectWriter
<1>6. PICK g : Is(g) /\ ObjectWriter(reg, pr) = g[N]
  <2> HIDE DEF Is, a, N, start
  <2> QED
    BY <1>2, <1>4, <1>5
<1> DEFINE S == {n \in 0 .. N : WriterOK(reg, g[n])}
<1>7. \A m \in Memories, base \in Nat, t \in DOMAIN reg : <<m, base, t>> \in O
  OBVIOUS
<1>8. 0 \in S
  <2>1. g[0] = start
    <3> HIDE DEF L, start
    <3> QED
      BY <1>1, <1>6, <1>a
  <2>2. \A m \in Memories, base \in Nat, t \in DOMAIN reg : start[<<m, base, t>>] = <<>>
    BY <1>7
  <2> HIDE DEF start
  <2> QED
    BY <1>1, <2>1, <2>2, WholeEmpty DEF WriterOK
<1>9. ASSUME NEW n \in 1 .. N, n - 1 \in S PROVE n \in S
  <2> DEFINE h == g[n - 1]
  <2>1. g[n] = [o \in O |-> WriteJsonObject(reg, h, o[1], o[2], o[3], pr)]
    <3>1. n # 0 /\ n \in 0 .. N
      BY <1>1
    <3> HIDE DEF L, O
    <3>2. g[n] = L(n, h)
      BY <1>6, <3>1
    <3> QED
      BY <1>b, <3>1, <3>2
  <2>2. WriterOK(reg, h)
    BY <1>9
  <2> HIDE DEF h
  <2>3. ASSUME NEW m \in Memories, NEW base \in Nat, NEW t \in DOMAIN reg
        PROVE  Whole(g[n][<<m, base, t>>])
    <3>1. g[n][<<m, base, t>>] = WriteJsonObject(reg, h, m, base, t, pr)
      BY <1>7, <2>1
    <3>2. ObjectText(g[n][<<m, base, t>>], t, pr)
      BY <2>2, <3>1, WriteObjectText
    <3> QED
      BY <3>2, ObjectTextWhole
  <2> QED
    BY <1>1, <2>3 DEF WriterOK
<1>10. N - 1 \in S
  <2> HIDE DEF S, N
  <2>1. 0 .. N \subseteq S
    BY <1>1, <1>8, <1>9, RangeInduction
  <2> QED
    BY <1>1, <2>1
<1> DEFINE h == g[N - 1]
<1>11. WriterOK(reg, h)
  BY <1>10
<1>12. g[N] = [o \in O |-> WriteJsonObject(reg, h, o[1], o[2], o[3], pr)]
  <2> HIDE DEF L, O, N
  <2>1. g[N] = L(N, h)
    BY <1>1, <1>6
  <2> QED
    BY <1>1, <1>b, <2>1
<1> HIDE DEF h
<1>13. ASSUME NEW m \in Memories, NEW base \in Nat, NEW t \in DOMAIN reg
       PROVE  ObjectText(g[N][<<m, base, t>>], t, pr)
  <2>1. g[N][<<m, base, t>>] = WriteJsonObject(reg, h, m, base, t, pr)
    BY <1>7, <1>12
  <2> QED
    BY <1>11, <2>1, WriteObjectText
<1> QED
  BY <1>6, <1>13

-----------------------------------------------------------------------------
(* The program. What was written is whole, what was cut of it is open.     *)

InputsOK ==
  /\ type \in DOMAIN Samples /\ object \in Samples[type]
  /\ reader \in DOMAIN Registries
  /\ expected \in {NoType} \cup DOMAIN Samples

TextOK == pc = "written" => IF cut THEN Open(text) ELSE Whole(text)

NotCutYet == pc = "write" => ~cut

CutInv == InputsOK /\ NotCutYet /\ TextOK /\ CutIsRejected

LEMMA RegistriesOK ==
  ASSUME NEW r \in DOMAIN Registries
  PROVE  RegistryOK(Registries[r]) /\ DOMAIN Samples \subseteq DOMAIN Registries[r]
BY JsonAssumption DEF RegistryAssumption, RegistryOK

LEMMA WriterRegistered == Writer \in DOMAIN Registries
BY JsonAssumption DEF RegistryAssumption

LEMMA CutInvInit == JsonInit => CutInv
BY DEF JsonInit, CutInv, InputsOK, NotCutYet, TextOK, CutIsRejected

LEMMA WriteJsonKeeps ==
  ASSUME CutInv, WriteJson
  PROVE  CutInv'
<1>1. InputsOK'
  BY DEF WriteJson, CutInv, InputsOK
<1>2. NotCutYet' /\ CutIsRejected'
  BY DEF WriteJson, NotCutYet, CutIsRejected
<1>3. ~cut'
  BY DEF WriteJson, CutInv, NotCutYet
<1>4. Whole(text')
  <2> DEFINE reg == Registries[Writer]
  <2>1. RegistryOK(reg) /\ DOMAIN Samples \subseteq DOMAIN reg
    BY RegistriesOK, WriterRegistered
  <2>2. object \in Memories /\ type \in DOMAIN Samples
    BY JsonAssumption DEF MemoryAssumption, CutInv, InputsOK
  <2>3. text' = ObjectWriter(reg, pretty)[<<object, 0, type>>]
    BY DEF WriteJson
  <2> HIDE DEF reg
  <2>4. ObjectText(text', type, pretty)
    BY <2>1, <2>2, <2>3, ObjectWriterOK
  <2> QED
    BY <2>4, ObjectTextWhole
<1>5. TextOK'
  BY <1>3, <1>4 DEF TextOK
<1> QED
  BY <1>1, <1>2, <1>5 DEF CutInv

LEMMA CutTextKeeps ==
  ASSUME CutInv, CutText
  PROVE  CutInv'
<1>1. InputsOK'
  BY DEF CutText, CutInv, InputsOK
<1>2. NotCutYet' /\ CutIsRejected'
  BY DEF CutText, NotCutYet, CutIsRejected
<1>3. Whole(text)
  BY DEF CutText, CutInv, TextOK
<1>4. PICK n \in 0 .. Len(text) - 1 : text' = SubSeq(text, 1, n)
  BY DEF CutText
<1>5. Open(text')
  BY <1>3, <1>4, CutWholeIsOpen
<1>6. cut'
  BY DEF CutText
<1>7. TextOK'
  BY <1>5, <1>6 DEF TextOK
<1> QED
  BY <1>1, <1>2, <1>7 DEF CutInv

LEMMA ReadKeeps ==
  ASSUME CutInv, Read
  PROVE  CutInv'
<1>1. InputsOK'
  BY DEF Read, CutInv, InputsOK
<1>2. NotCutYet' /\ TextOK'
  BY DEF Read, NotCutYet, TextOK
<1>3. ASSUME cut' PROVE result'.ret \in Errors \cup {Undefined}
  <2> DEFINE reg == Registries[reader]
  <2>1. RegistryOK(reg) /\ DOMAIN Samples \subseteq DOMAIN reg
    BY RegistriesOK DEF CutInv, InputsOK
  <2>2. expected # NoType => expected \in DOMAIN reg
    BY <2>1 DEF CutInv, InputsOK
  <2>3. Open(text)
    BY <1>3 DEF Read, CutInv, TextOK
  <2>4. result' = ParseJson(reg, text, expected)
    BY DEF Read
  <2> HIDE DEF reg
  <2> QED
    BY <2>1, <2>2, <2>3, <2>4, OpenIsRefused
<1>4. CutIsRejected'
  BY <1>3 DEF CutIsRejected
<1> QED
  BY <1>1, <1>2, <1>4 DEF CutInv

LEMMA CutInvKept == CutInv /\ [JsonNext]_jsonVars => CutInv'
<1> SUFFICES ASSUME CutInv, [JsonNext]_jsonVars PROVE CutInv'
  OBVIOUS
<1>1. CASE WriteJson
  BY <1>1, WriteJsonKeeps
<1>2. CASE CutText
  BY <1>2, CutTextKeeps
<1>3. CASE Read
  BY <1>3, ReadKeeps
<1>4. CASE UNCHANGED jsonVars
  BY <1>4 DEF jsonVars, CutInv, InputsOK, NotCutYet, TextOK, CutIsRejected
<1> QED
  BY <1>1, <1>2, <1>3, <1>4 DEF JsonNext

(* A text that was cut short is never taken for a whole one by             *)
(* vd_meta_parse_json, for all registries, objects and layouts, wherever   *)
(* it ends: the first brace that was written is closed by the last one     *)
(* only, and the reader answers 0 only where it has read as many closing   *)
(* braces as opening ones.                                                 *)
THEOREM CutTextsAreRejected == JsonSpec => []CutIsRejected
<1>1. JsonInit => CutInv
  BY CutInvInit
<1>2. CutInv /\ [JsonNext]_jsonVars => CutInv'
  BY CutInvKept
<1>3. CutInv => CutIsRejected
  BY DEF CutInv
<1> QED
  BY <1>1, <1>2, <1>3, PTL DEF JsonSpec

-----------------------------------------------------------------------------
(* The name of the type is the first thing in a text.                      *)

(* j goes on where s ends.                                                 *)
Extends(s, j) ==
  /\ IsText(s) /\ IsText(j) /\ Len(s) <= Len(j)
  /\ \A i \in 1 .. Len(s) : j[i] = s[i]

LEMMA ExtendsOn ==
  ASSUME NEW s, NEW t, NEW u, Extends(s, t), Extends(t, u)
  PROVE  Extends(s, u)
<1>1. Len(s) \in Nat /\ Len(t) \in Nat /\ Len(u) \in Nat
  BY Texts DEF Extends
<1>2. \A i \in 1 .. Len(s) : i \in 1 .. Len(t)
  BY <1>1 DEF Extends
<1> QED
  BY <1>1, <1>2 DEF Extends

LEMMA JoinExtends ==
  ASSUME NEW s, NEW t, IsText(s), IsText(t)
  PROVE  Extends(s, s \o t)
<1>1. PICK A : s \in Seq(A)
  BY DEF IsText
<1>2. PICK B : t \in Seq(B)
  BY DEF IsText
<1> DEFINE C == A \cup B
           j == s \o t
<1>3. s \in Seq(C) /\ t \in Seq(C)
  BY <1>1, <1>2, SeqMonotonic
<1>4. j \in Seq(C) /\ Len(j) = Len(s) + Len(t) /\ Len(s) \in Nat /\ Len(t) \in Nat
      /\ \A i \in 1 .. Len(s) : j[i] = s[i]
  <2> HIDE DEF C
  <2> QED
    BY <1>3
<1> HIDE DEF j, C
<1>5. IsText(j)
  BY <1>4 DEF IsText
<1>6. Extends(s, j)
  BY <1>4, <1>5 DEF Extends
<1> QED
  BY <1>6 DEF j

LEMMA JoinTokens ==
  ASSUME NEW C, NEW s \in Seq(C), NEW t \in Seq(C), NEW i \in 1 .. Len(t)
  PROVE  Len(s \o t) = Len(s) + Len(t) /\ (s \o t)[Len(s) + i] = t[i]
OBVIOUS

(* j is s and one more token. *)
Adds(s, c, j) == Extends(s, j) /\ Len(j) = Len(s) + 1 /\ j[Len(s) + 1] = c

LEMMA TokenAdded ==
  ASSUME NEW s, IsText(s), NEW c
  PROVE  Adds(s, c, s \o <<c>>)
<1>1. PICK A : s \in Seq(A)
  BY DEF IsText
<1> DEFINE C == A \cup {c}
           t == <<c>>
           j == s \o t
<1>2. s \in Seq(C) /\ t \in Seq(C) /\ Len(t) = 1 /\ t[1] = c
  <2>1. A \subseteq C /\ c \in C
    OBVIOUS
  <2> HIDE DEF C
  <2> QED
    BY <1>1, <2>1, SeqMonotonic
<1>3. IsText(t)
  <2> HIDE DEF t, C
  <2> QED
    BY <1>2 DEF IsText
<1>4. Extends(s, j)
  <2> HIDE DEF t
  <2> QED
    BY <1>3, JoinExtends
<1>5. Len(j) = Len(s) + 1 /\ j[Len(s) + 1] = c
  <2> HIDE DEF t, C
  <2>1. 1 \in 1 .. Len(t)
    BY <1>2
  <2>2. Len(s \o t) = Len(s) + Len(t) /\ (s \o t)[Len(s) + 1] = t[1]
    BY <1>2, <2>1, JoinTokens
  <2> QED
    BY <1>2, <2>2
<1> HIDE DEF j
<1>6. Adds(s, c, j)
  BY <1>4, <1>5 DEF Adds
<1> QED
  BY <1>6 DEF j, t

LEMMA NothingAdded ==
  ASSUME NEW s, IsText(s)
  PROVE  s \o <<>> = s
<1>1. PICK A : s \in Seq(A)
  BY DEF IsText
<1> QED
  BY <1>1, ConcatEmptySeq

(* At k is the key of the type's name, at v the name.                      *)
TypeNamed(w, k, v, t) ==
  /\ IsText(w) /\ k \in 2 .. Len(w) /\ v \in 2 .. Len(w)
  /\ At(w, 1) = "brace"
  /\ SkipSpace(w, 2) = k /\ IsString(w, k) /\ w[k][2] = TypeName
  /\ At(w, SkipSpace(w, k + 1)) = "colon"
  /\ SkipSpace(w, SkipSpace(w, k + 1) + 1) = v /\ IsString(w, v) /\ w[v][2] = t

LEMMA NoSpace ==
  ASSUME NEW w, IsText(w), NEW p \in 1 .. Len(w), At(w, p) # "space"
  PROVE  SkipSpace(w, p) = p
<1> DEFINE S == {q \in p .. Len(w) + 1 : At(w, q) # "space"}
<1>1. Len(w) \in Nat
  BY Texts
<1>2. SkipSpace(w, p) = Min(S)
  BY <1>1 DEF SkipSpace
<1>3. p \in S
  BY <1>1
<1>4. S \subseteq Nat /\ \A q \in S : p <= q
  BY <1>1
<1> HIDE DEF S
<1>5. Min(S) \in S /\ \A y \in S : Min(S) <= y
  BY <1>3, <1>4, LeastOf
<1>6. Min(S) <= p /\ p <= Min(S) /\ Min(S) \in Nat
  BY <1>3, <1>4, <1>5
<1>7. Min(S) = p
  BY <1>6
<1> QED
  BY <1>2, <1>7

LEMMA OneSpace ==
  ASSUME NEW w, IsText(w), NEW p \in 1 .. Len(w), At(w, p) = "space", At(w, p + 1) # "space"
  PROVE  SkipSpace(w, p) = p + 1
<1> DEFINE S == {q \in p .. Len(w) + 1 : At(w, q) # "space"}
<1>1. Len(w) \in Nat
  BY Texts
<1>2. SkipSpace(w, p) = Min(S)
  BY <1>1 DEF SkipSpace
<1>3. p + 1 \in S
  BY <1>1
<1>4. S \subseteq Nat /\ \A q \in S : p + 1 <= q
  BY <1>1
<1> HIDE DEF S
<1>5. Min(S) \in S /\ \A y \in S : Min(S) <= y
  BY <1>3, <1>4, LeastOf
<1>6. Min(S) <= p + 1 /\ p + 1 <= Min(S) /\ Min(S) \in Nat
  BY <1>3, <1>4, <1>5
<1>7. Min(S) = p + 1
  BY <1>6
<1> QED
  BY <1>2, <1>7

(* The header with white space and without.                                *)
LEMMA PrettyHeader ==
  ASSUME NEW t, NEW pr, pr, NEW w, Extends(Header(t, pr), w)
  PROVE  TypeNamed(w, 3, 6, t)
<1> DEFINE s1 == P("brace")
           s2 == s1 \o P("space")
           s3 == s2 \o Str(TypeName)
           s4 == s3 \o P("colon")
           s5 == s4 \o P("space")
           s6 == s5 \o Str(t)
           s7 == s6 \o P("comma")
           s8 == s7 \o P("space")
<1>1. Header(t, pr) = s8
  BY DEF Header, Space
<1>2. IsText(s1) /\ Len(s1) = 1 /\ s1[1] = <<"brace", 0>>
  <2>1. IsText(s1) /\ Len(s1) = 1
    BY OneToken
  <2>2. s1[1] = <<"brace", 0>>
    BY DEF P
  <2> QED
    BY <2>1, <2>2
<1>3. /\ \A s, c : IsText(s) => Adds(s, <<c, 0>>, s \o P(c))
      /\ \A s, c : IsText(s) => Adds(s, <<"str", c>>, s \o Str(c))
  BY TokenAdded DEF P, Str
<1>4. \A s, c, j : Adds(s, c, j) => IsText(j)
  BY DEF Adds, Extends
<1> HIDE DEF s1
<1>5. Adds(s1, <<"space", 0>>, s2)
  BY <1>2, <1>3
<1> HIDE DEF s2
<1>6. Adds(s2, <<"str", TypeName>>, s3)
  BY <1>3, <1>4, <1>5
<1> HIDE DEF s3
<1>7. Adds(s3, <<"colon", 0>>, s4)
  BY <1>3, <1>4, <1>6
<1> HIDE DEF s4
<1>8. Adds(s4, <<"space", 0>>, s5)
  BY <1>3, <1>4, <1>7
<1> HIDE DEF s5
<1>9. Adds(s5, <<"str", t>>, s6)
  BY <1>3, <1>4, <1>8
<1> HIDE DEF s6
<1>10. Adds(s6, <<"comma", 0>>, s7)
  BY <1>3, <1>4, <1>9
<1> HIDE DEF s7
<1>11. Adds(s7, <<"space", 0>>, s8)
  BY <1>3, <1>4, <1>10
<1> HIDE DEF s8
<1>12. Extends(s8, w)
  BY <1>1
<1>13. /\ Extends(s7, w) /\ Extends(s6, w) /\ Extends(s5, w) /\ Extends(s4, w)
       /\ Extends(s3, w) /\ Extends(s2, w) /\ Extends(s1, w)
  <2>1. Extends(s7, w)
    BY <1>11, <1>12, ExtendsOn DEF Adds
  <2>2. Extends(s6, w)
    BY <1>10, <2>1, ExtendsOn DEF Adds
  <2>3. Extends(s5, w)
    BY <1>9, <2>2, ExtendsOn DEF Adds
  <2>4. Extends(s4, w)
    BY <1>8, <2>3, ExtendsOn DEF Adds
  <2>5. Extends(s3, w)
    BY <1>7, <2>4, ExtendsOn DEF Adds
  <2>6. Extends(s2, w)
    BY <1>6, <2>5, ExtendsOn DEF Adds
  <2>7. Extends(s1, w)
    BY <1>5, <2>6, ExtendsOn DEF Adds
  <2> QED
    BY <2>1, <2>2, <2>3, <2>4, <2>5, <2>6, <2>7
<1>14. Len(s1) = 1 /\ Len(s2) = 2 /\ Len(s3) = 3 /\ Len(s4) = 4 /\ Len(s5) = 5 /\ Len(s6) = 6
  BY <1>2, <1>5, <1>6, <1>7, <1>8, <1>9 DEF Adds
<1>15. /\ w[1] = <<"brace", 0>> /\ w[2] = <<"space", 0>> /\ w[3] = <<"str", TypeName>>
       /\ w[4] = <<"colon", 0>> /\ w[5] = <<"space", 0>> /\ w[6] = <<"str", t>>
  <2>1. s2[2] = <<"space", 0>> /\ s3[3] = <<"str", TypeName>> /\ s4[4] = <<"colon", 0>>
        /\ s5[5] = <<"space", 0>> /\ s6[6] = <<"str", t>>
    BY <1>5, <1>6, <1>7, <1>8, <1>9, <1>14 DEF Adds
  <2>2. w[1] = s1[1] /\ w[2] = s2[2] /\ w[3] = s3[3] /\ w[4] = s4[4] /\ w[5] = s5[5] /\ w[6] = s6[6]
    BY <1>13, <1>14 DEF Extends
  <2> QED
    BY <1>2, <2>1, <2>2
<1>16. IsText(w) /\ Len(w) \in Nat /\ 6 <= Len(w)
  BY <1>13, <1>14, Texts DEF Extends
<1>17. At(w, 1) = "brace" /\ At(w, 2) = "space" /\ At(w, 3) = "str" /\ At(w, 4) = "colon"
       /\ At(w, 5) = "space" /\ At(w, 6) = "str" /\ w[3][2] = TypeName /\ w[6][2] = t
  <2>1. w[1][1] = "brace" /\ w[2][1] = "space" /\ w[3][1] = "str" /\ w[4][1] = "colon"
        /\ w[5][1] = "space" /\ w[6][1] = "str" /\ w[3][2] = TypeName /\ w[6][2] = t
    BY ONLY <1>15
  <2> QED
    BY <1>16, <2>1 DEF At
<1>18. SkipSpace(w, 2) = 3 /\ SkipSpace(w, 4) = 4 /\ SkipSpace(w, 5) = 6
  <2>1. 2 \in 1 .. Len(w) /\ 4 \in 1 .. Len(w) /\ 5 \in 1 .. Len(w) /\ 2 + 1 = 3 /\ 5 + 1 = 6
    BY <1>16
  <2> QED
    BY <1>16, <1>17, <2>1, NoSpace, OneSpace
<1>19. 3 + 1 = 4 /\ 4 + 1 = 5 /\ 3 \in 2 .. Len(w) /\ 6 \in 2 .. Len(w)
  BY <1>16
<1> QED
  BY <1>16, <1>17, <1>18, <1>19 DEF TypeNamed, IsString

LEMMA PlainHeader ==
  ASSUME NEW t, NEW pr, ~pr, NEW w, Extends(Header(t, pr), w)
  PROVE  TypeNamed(w, 2, 4, t)
<1> DEFINE s1 == P("brace")
           s2 == s1 \o Str(TypeName)
           s3 == s2 \o P("colon")
           s4 == s3 \o Str(t)
           s5 == s4 \o P("comma")
<1>2. IsText(s1) /\ Len(s1) = 1 /\ s1[1] = <<"brace", 0>>
  <2>1. IsText(s1) /\ Len(s1) = 1
    BY OneToken
  <2>2. s1[1] = <<"brace", 0>>
    BY DEF P
  <2> QED
    BY <2>1, <2>2
<1>3. /\ \A s, c : IsText(s) => Adds(s, <<c, 0>>, s \o P(c))
      /\ \A s, c : IsText(s) => Adds(s, <<"str", c>>, s \o Str(c))
  BY TokenAdded DEF P, Str
<1>4. \A s, c, j : Adds(s, c, j) => IsText(j)
  BY DEF Adds, Extends
<1>1. Header(t, pr) = s1 \o <<>> \o Str(TypeName) \o P("colon") \o <<>> \o Str(t) \o P("comma") \o <<>>
  BY DEF Header, Space
<1> HIDE DEF s1
<1>6. Adds(s1, <<"str", TypeName>>, s2)
  BY <1>2, <1>3
<1> HIDE DEF s2
<1>7. Adds(s2, <<"colon", 0>>, s3)
  BY <1>3, <1>4, <1>6
<1> HIDE DEF s3
<1>9. Adds(s3, <<"str", t>>, s4)
  BY <1>3, <1>4, <1>7
<1> HIDE DEF s4
<1>10. Adds(s4, <<"comma", 0>>, s5)
  BY <1>3, <1>4, <1>9
<1> HIDE DEF s5
<1>11. Header(t, pr) = s5
  <2>1. s1 \o <<>> = s1 /\ s3 \o <<>> = s3 /\ s5 \o <<>> = s5
    BY <1>2, <1>4, <1>7, <1>10, NothingAdded
  <2>2. s1 \o <<>> \o Str(TypeName) = s2
    BY <2>1 DEF s2
  <2>3. s1 \o <<>> \o Str(TypeName) \o P("colon") \o <<>> = s3
    BY <2>1, <2>2 DEF s3
  <2>4. s1 \o <<>> \o Str(TypeName) \o P("colon") \o <<>> \o Str(t) = s4
    BY <2>3 DEF s4
  <2> QED
    BY <1>1, <2>1, <2>4 DEF s5
<1>13. Extends(s4, w) /\ Extends(s3, w) /\ Extends(s2, w) /\ Extends(s1, w)
  <2>2. Extends(s4, w)
    BY <1>10, <1>11, ExtendsOn DEF Adds
  <2>3. Extends(s3, w)
    BY <1>9, <2>2, ExtendsOn DEF Adds
  <2>4. Extends(s2, w)
    BY <1>7, <2>3, ExtendsOn DEF Adds
  <2>5. Extends(s1, w)
    BY <1>6, <2>4, ExtendsOn DEF Adds
  <2> QED
    BY <2>2, <2>3, <2>4, <2>5
<1>14. Len(s1) = 1 /\ Len(s2) = 2 /\ Len(s3) = 3 /\ Len(s4) = 4
  BY <1>2, <1>6, <1>7, <1>9 DEF Adds
<1>15. /\ w[1] = <<"brace", 0>> /\ w[2] = <<"str", TypeName>>
       /\ w[3] = <<"colon", 0>> /\ w[4] = <<"str", t>>
  <2>1. s2[2] = <<"str", TypeName>> /\ s3[3] = <<"colon", 0>> /\ s4[4] = <<"str", t>>
    BY <1>6, <1>7, <1>9, <1>14 DEF Adds
  <2>2. w[1] = s1[1] /\ w[2] = s2[2] /\ w[3] = s3[3] /\ w[4] = s4[4]
    BY <1>13, <1>14 DEF Extends
  <2> QED
    BY <1>2, <2>1, <2>2
<1>16. IsText(w) /\ Len(w) \in Nat /\ 4 <= Len(w)
  BY <1>13, <1>14, Texts DEF Extends
<1>17. At(w, 1) = "brace" /\ At(w, 2) = "str" /\ At(w, 3) = "colon" /\ At(w, 4) = "str"
       /\ w[2][2] = TypeName /\ w[4][2] = t
  <2>1. w[1][1] = "brace" /\ w[2][1] = "str" /\ w[3][1] = "colon" /\ w[4][1] = "str"
        /\ w[2][2] = TypeName /\ w[4][2] = t
    BY ONLY <1>15
  <2> QED
    BY <1>16, <2>1 DEF At
<1>18. SkipSpace(w, 2) = 2 /\ SkipSpace(w, 3) = 3 /\ SkipSpace(w, 4) = 4
  <2>1. 2 \in 1 .. Len(w) /\ 3 \in 1 .. Len(w) /\ 4 \in 1 .. Len(w)
    BY <1>16
  <2> QED
    BY <1>16, <1>17, <2>1, NoSpace
<1>19. 2 + 1 = 3 /\ 3 + 1 = 4 /\ 2 \in 2 .. Len(w) /\ 4 \in 2 .. Len(w)
  BY <1>16
<1> QED
  BY <1>16, <1>17, <1>18, <1>19 DEF TypeNamed, IsString

SaysType(w, t) == \E k, v : TypeNamed(w, k, v, t)

LEMMA WrittenSaysType ==
  ASSUME NEW w, NEW t, NEW pr, ObjectText(w, t, pr)
  PROVE  SaysType(w, t)
<1>1. PICK flat : Balanced(flat) /\ w = Header(t, pr) \o flat \o P("endbrace")
  BY DEF ObjectText
<1>2. IsText(Header(t, pr)) /\ IsText(flat) /\ IsText(P("endbrace"))
  BY <1>1, HeaderOpens, OneToken DEF Opened, Balanced
<1>3. Extends(Header(t, pr), Header(t, pr) \o flat)
  BY <1>2, JoinExtends
<1>4. IsText(Header(t, pr) \o flat)
  BY <1>3 DEF Extends
<1>5. Extends(Header(t, pr) \o flat, w)
  BY <1>1, <1>2, <1>4, JoinExtends
<1>6. Extends(Header(t, pr), w)
  BY <1>3, <1>5, ExtendsOn
<1>7. CASE pr
  BY <1>6, <1>7, PrettyHeader DEF SaysType
<1>8. CASE ~pr
  BY <1>6, <1>8, PlainHeader DEF SaysType
<1> QED
  BY <1>7, <1>8

(* The first pass of vd_meta__json_get_object_type answers, and the others *)
(* do not happen.                                                          *)
LEMMA TypeFound ==
  ASSUME NEW txt, NEW t, SaysType(txt, t), NEW reg, NEW exp
  PROVE  GetObjectType(reg, txt, 1 + 1, exp) = Hinted(reg, t, exp)
<1>1. PICK k, v : TypeNamed(txt, k, v, t)
  BY DEF SaysType
<1> DEFINE n == Passes(txt)
           a == [reg |-> reg, txt |-> txt, exp |-> exp]
           start == [ret |-> More, pos |-> 1 + 1]
           h == Hinted(reg, t, exp)
           Is(g) == g = [i \in 0 .. n |->
                          IF i = 0 THEN start
                          ELSE IF g[i - 1].ret = More THEN NextName(reg, txt, exp, g[i - 1])
                                 ELSE g[i - 1]]
<1>2. IsText(txt) /\ n \in Nat /\ n = Cardinality({q \in DOMAIN txt : At(txt, q) = "comma"}) + 2
  BY <1>1, PassesNat DEF TypeNamed
<1>3. NextName(reg, txt, exp, start) = h
  <2>1. start.pos = 2
    OBVIOUS
  <2> HIDE DEF start
  <2>2. SkipSpace(txt, start.pos) = k
    BY <1>1, <2>1 DEF TypeNamed
  <2>3. At(txt, k) # "endbrace"
    BY <1>1 DEF TypeNamed, IsString
  <2> DEFINE s == start
             kk == SkipSpace(txt, s.pos)
             colon == SkipSpace(txt, kk + 1)
             vv == SkipSpace(txt, colon + 1)
  <2>4. kk = k /\ vv = v /\ IsString(txt, kk) /\ At(txt, colon) = "colon" /\ txt[kk][2] = TypeName
        /\ At(txt, kk) # "endbrace" /\ IsString(txt, vv) /\ txt[vv][2] = t
    <3>1. kk = k
      BY <2>2
    <3> HIDE DEF kk
    <3> QED
      BY <1>1, <2>3, <3>1 DEF TypeNamed
  <2>5. NextName(reg, txt, exp, s) =
          IF IsString(txt, vv) THEN Hinted(reg, txt[vv][2], exp) ELSE Answer(Undefined, NoType)
    BY <2>4 DEF NextName
  <2> HIDE DEF vv, kk, colon, s
  <2>6. NextName(reg, txt, exp, s) = Hinted(reg, t, exp)
    BY <2>4, <2>5
  <2> QED
    BY <2>6 DEF s
<1>4. h.ret # More
  <2>1. NameLoopOK(reg, txt, 0, h) /\ (h.ret = More => h.ret = 2)
    BY HintedOK DEF More
  <2>2. h = Answer(INVALID_TYPE, t) \/ h = Answer(TYPE_MISMATCH, t) \/ h = Answer(Ok, t)
    BY DEF Hinted
  <2> HIDE DEF h
  <2> QED
    BY <2>2 DEF Answer, INVALID_TYPE, TYPE_MISMATCH, Ok, More
<1>5. \E g : IsRun(g, "name", a, start, n)
  <2> HIDE DEF a, n, start
  <2> QED
    BY <1>2, Runs
<1>6. \A i, s : Goes("name", a, i, s) = IF s.ret = More THEN NextName(reg, txt, exp, s) ELSE s
  BY DEF Goes
<1>7. ASSUME NEW g, IsRun(g, "name", a, start, n) PROVE Is(g)
  <2>1. \A i \in 0 .. n : (IF i = 0 THEN start ELSE Goes("name", a, i, g[i - 1])) =
                           (IF i = 0 THEN start
                            ELSE IF g[i - 1].ret = More THEN NextName(reg, txt, exp, g[i - 1])
                                   ELSE g[i - 1])
    <3> HIDE DEF a, n, start
    <3> QED
      BY <1>6
  <2> HIDE DEF a, n, start
  <2> QED
    BY <1>7, <2>1 DEF IsRun
<1>8. GetObjectType(reg, txt, 1 + 1, exp) = (CHOOSE g : Is(g))[n]
  BY <1>2 DEF GetObjectType, Loop
<1>9. PICK g : Is(g) /\ GetObjectType(reg, txt, 1 + 1, exp) = g[n]
  <2> HIDE DEF Is, a, n, start
  <2> QED
    BY <1>5, <1>7, <1>8
<1>10. start.ret = More
  OBVIOUS
<1> HIDE DEF start, h
<1> DEFINE m == n - 1
           S == {i \in 0 .. m : g[i + 1] = h}
<1>11. m \in Nat
  <2>1. Cardinality(AllCommas(txt)) \in Nat
    BY <1>2, CommaSets
  <2> QED
    BY <2>1 DEF Passes
<1> HIDE DEF n
<1>12. 0 \in S
  <2>1. 0 + 1 = 1 /\ 1 \in 0 .. n /\ 0 \in 0 .. n /\ 1 # 0 /\ 1 - 1 = 0
    BY <1>2, <1>11
  <2>2. g[0] = start
    BY <1>9, <2>1
  <2>3. g[1] = IF g[0].ret = More THEN NextName(reg, txt, exp, g[0]) ELSE g[0]
    BY <1>9, <2>1
  <2>4. g[1] = h
    BY <1>3, <1>10, <2>2, <2>3
  <2> QED
    BY <1>11, <2>1, <2>4
<1>13. ASSUME NEW i \in 1 .. m, i - 1 \in S PROVE i \in S
  <2> DEFINE j == i + 1
  <2>1. j \in 0 .. n /\ j # 0 /\ j - 1 = i - 1 + 1 /\ i \in 0 .. m
    BY <1>2, <1>11
  <2>2. g[i - 1 + 1] = h
    BY <1>13
  <2> HIDE DEF j
  <2>3. g[j] = IF g[j - 1].ret = More THEN NextName(reg, txt, exp, g[j - 1]) ELSE g[j - 1]
    BY <1>9, <2>1
  <2>4. g[j - 1] = h
    BY <2>1, <2>2
  <2>5. g[j] = h
    BY <1>4, <2>3, <2>4
  <2> QED
    BY <2>1, <2>5 DEF j
<1> HIDE DEF S
<1>14. m \in S
  <2> HIDE DEF m
  <2>1. 0 .. m \subseteq S
    BY <1>11, <1>12, <1>13, RangeInduction
  <2> QED
    BY <1>11, <2>1
<1>15. g[m + 1] = h /\ m + 1 = n
  BY <1>2, <1>14 DEF S
<1> QED
  BY <1>9, <1>15 DEF h

LEMMA TypeTold ==
  ASSUME NEW txt, NEW t, SaysType(txt, t), NEW reg, t \in DOMAIN reg, NEW exp
  PROVE  LET r == ParseJson(reg, txt, exp)
         IN  IF exp \in {NoType, t} THEN r.type = t ELSE r.ret = TYPE_MISMATCH /\ r.mem = <<>>
<1>1. PICK k, v : TypeNamed(txt, k, v, t)
  BY DEF SaysType
<1> DEFINE p == SkipSpace(txt, 1)
           a == IF At(txt, p) = "brace" THEN GetObjectType(reg, txt, p + 1, exp)
                ELSE Answer(INVALID_JSON, NoType)
           r == ParseJsonObject(reg, txt, ObjectReader(reg, txt), a.type, 1, 0)
           built == Filled(GetDescriptor(reg, a.type).size, Zero, r.stores)
<1>2. p = 1 /\ At(txt, p) = "brace"
  <2>1. IsText(txt) /\ 1 \in 1 .. Len(txt) /\ At(txt, 1) = "brace"
    BY <1>1, Texts DEF TypeNamed
  <2>2. p = 1
    BY <2>1, NoSpace
  <2> HIDE DEF p
  <2> QED
    BY <2>1, <2>2
<1>3. a = Hinted(reg, t, exp)
  <2> HIDE DEF p
  <2>1. a = GetObjectType(reg, txt, 1 + 1, exp)
    BY <1>2
  <2> QED
    BY <2>1, TypeFound
<1>4. CASE exp \in {NoType, t}
  <2>1. a = Answer(Ok, t)
    BY <1>3, <1>4 DEF Hinted
  <2>2. a.ret = Ok /\ a.type = t
    <3> HIDE DEF a
    <3> QED
      BY <2>1 DEF Answer
  <2>3. ParseJson(reg, txt, exp) = [ret |-> r.ret, type |-> a.type, mem |-> built.mem, wild |-> built.wild]
    BY <2>2 DEF ParseJson
  <2> HIDE DEF a, r, built
  <2>4. ParseJson(reg, txt, exp).type = t
    BY <2>2, <2>3
  <2> QED
    BY <1>4, <2>4
<1>5. CASE exp \notin {NoType, t}
  <2>1. a = Answer(TYPE_MISMATCH, t)
    BY <1>3, <1>5 DEF Hinted
  <2>2. a.ret = TYPE_MISMATCH /\ a.ret # Ok
    <3> HIDE DEF a
    <3> QED
      BY <2>1 DEF Answer, TYPE_MISMATCH, Ok
  <2>3. ParseJson(reg, txt, exp) = [ret |-> a.ret, type |-> a.type, mem |-> <<>>, wild |-> FALSE]
    BY <2>2 DEF ParseJson
  <2> HIDE DEF a
  <2>4. ParseJson(reg, txt, exp).ret = TYPE_MISMATCH /\ ParseJson(reg, txt, exp).mem = <<>>
    BY <2>2, <2>3
  <2> QED
    BY <1>5, <2>4
<1> QED
  BY <1>4, <1>5

WrittenInv == pc = "written" /\ ~cut => SaysType(text, type)

TypeInv == InputsOK /\ NotCutYet /\ WrittenInv /\ TypeIsRead

LEMMA TypeWriteJsonKeeps ==
  ASSUME TypeInv, WriteJson
  PROVE  TypeInv'
<1>1. InputsOK'
  BY DEF WriteJson, TypeInv, InputsOK
<1>2. NotCutYet' /\ TypeIsRead'
  BY DEF WriteJson, NotCutYet, TypeIsRead
<1> DEFINE reg == Registries[Writer]
<1>3. RegistryOK(reg) /\ DOMAIN Samples \subseteq DOMAIN reg
  BY RegistriesOK, WriterRegistered
<1>4. object \in Memories /\ type \in DOMAIN Samples
  BY JsonAssumption DEF MemoryAssumption, TypeInv, InputsOK
<1>5. text' = ObjectWriter(reg, pretty)[<<object, 0, type>>] /\ type' = type
  BY DEF WriteJson
<1> HIDE DEF reg
<1>6. ObjectText(text', type, pretty)
  BY <1>3, <1>4, <1>5, ObjectWriterOK
<1>7. SaysType(text', type')
  BY <1>5, <1>6, WrittenSaysType
<1>8. WrittenInv'
  BY <1>7 DEF WrittenInv
<1> QED
  BY <1>1, <1>2, <1>8 DEF TypeInv

LEMMA TypeReadKeeps ==
  ASSUME TypeInv, Read
  PROVE  TypeInv'
<1>1. InputsOK'
  BY DEF Read, TypeInv, InputsOK
<1>2. NotCutYet' /\ WrittenInv'
  BY DEF Read, NotCutYet, WrittenInv
<1>3. CASE cut
  BY <1>1, <1>2, <1>3 DEF Read, TypeIsRead, TypeInv
<1>4. CASE ~cut
  <2> DEFINE reg == Registries[reader]
  <2>1. type \in DOMAIN reg
    BY RegistriesOK DEF TypeInv, InputsOK
  <2>2. SaysType(text, type)
    BY <1>4 DEF Read, TypeInv, WrittenInv
  <2>3. result' = ParseJson(reg, text, expected) /\ UNCHANGED <<type, expected>>
    BY DEF Read
  <2> HIDE DEF reg
  <2>4. IF expected \in {NoType, type} THEN result'.type = type
        ELSE result'.ret = TYPE_MISMATCH /\ result'.mem = <<>>
    BY <2>1, <2>2, <2>3, TypeTold
  <2> QED
    BY <1>1, <1>2, <2>3, <2>4 DEF TypeInv, TypeIsRead
<1> QED
  BY <1>3, <1>4

LEMMA TypeInvKept == TypeInv /\ [JsonNext]_jsonVars => TypeInv'
<1> SUFFICES ASSUME TypeInv, [JsonNext]_jsonVars PROVE TypeInv'
  OBVIOUS
<1>1. CASE WriteJson
  BY <1>1, TypeWriteJsonKeeps
<1>2. CASE CutText
  BY <1>2 DEF CutText, TypeInv, InputsOK, NotCutYet, WrittenInv, TypeIsRead
<1>3. CASE Read
  BY <1>3, TypeReadKeeps
<1>4. CASE UNCHANGED jsonVars
  BY <1>4 DEF jsonVars, TypeInv, InputsOK, NotCutYet, WrittenInv, TypeIsRead
<1> QED
  BY <1>1, <1>2, <1>3, <1>4 DEF JsonNext

(* A whole text tells its type: an object of another type than the one     *)
(* vd_meta_parse_json was asked for is refused and nothing is built, and   *)
(* what it builds is of the type that was written, whatever the fields are *)
(* and whichever program reads it.                                         *)
THEOREM TypesAreRead == JsonSpec => []TypeIsRead
<1>1. JsonInit => TypeInv
  BY DEF JsonInit, TypeInv, InputsOK, NotCutYet, WrittenInv, TypeIsRead
<1>2. TypeInv /\ [JsonNext]_jsonVars => TypeInv'
  BY TypeInvKept
<1>3. TypeInv => TypeIsRead
  BY DEF TypeInv
<1> QED
  BY <1>1, <1>2, <1>3, PTL DEF JsonSpec
=============================================================================
