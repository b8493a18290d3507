------------------------------ MODULE MetaJson -------------------------------
(***************************************************************************)
(* lib/vd_meta.h: objects described by a registry of types are written as  *)
(* JSON text and read back, here by a program whose registry may be an     *)
(* older or a newer one, and perhaps from a file that was cut short.       *)
(*                                                                         *)
(* Text is a sequence of tokens; one white space token stands for any      *)
(* number of characters, and strings hold no quote, backslash, comma,      *)
(* bracket or brace (the writer escapes nothing, and skipping a value does *)
(* not know strings).  Memory is a sequence of cells, offsets count cells. *)
(* A type is known by its name: buckets of the registry's tables are       *)
(* searched by whole names and whole ids, so hashing finds what was        *)
(* registered.  Whole numbers fit the type they were written from, and are *)
(* read back as they are.  A floating point number is a decimal one with   *)
(* one digit more than "%f" prints, and loses what Printed says; that      *)
(* strtof and strtod round what is printed to a binary number is left out. *)
(*                                                                         *)
(* Objects hold objects: the functions of the code that write or read one  *)
(* take what does that for the objects inside, one level deeper, as a      *)
(* parameter.  What reading stores is a list of stores in their order,     *)
(* made good in the object at the end: no branch of the reader depends on  *)
(* what it stored.                                                         *)
(***************************************************************************)
EXTENDS Integers, Sequences, SequencesExt, FiniteSetsExt, TLC

CONSTANTS
  Registries,        \* the programs' registries: name -> type -> descriptor
  Writer,            \* the registry of the writing program
  Samples,           \* type -> objects of it, as memory
  Memories,          \* the memory of all objects and of all elements of arrays
  Levels,            \* objects are written up to this deep in each other
  Pretty,            \* the layouts written: TRUE for options.pretty >= 0
  Decimals,          \* digits "%f" prints behind the point: 6
  FloatRoom          \* characters of a number that fit: 31 of char str[32]

VARIABLES
  pc, type, object, pretty,      \* what is written
  reader, expected,              \* the reading program, options.type
  text, cut,                     \* the text; was it cut short?
  result                         \* of vd_meta_parse_json

jsonVars == <<pc, type, object, pretty, reader, expected, text, cut, result>>

-----------------------------------------------------------------------------
(* Tokens, cells, memory. *)

TypeName == "--vd-meta-type-name--"
NoType == ""       \* the id of no type, 0

Ok == 0
INVALID_JSON == -2
INVALID_TYPE == -3
TYPE_NOT_FOUND == -4
TYPE_MISMATCH == -5
Errors == {INVALID_JSON, INVALID_TYPE, TYPE_NOT_FOUND, TYPE_MISMATCH}
Undefined == 1     \* stands for the end of the process
More == 2          \* a loop goes on

P(c) == <<<<c, 0>>>>
Str(s) == <<<<"str", s>>>>

(* Zeroed memory: the number 0, an empty array. *)
Zero == <<"num", 0>>
(* What new memory holds that nobody cleared. *)
Garbage == <<"garbage", 0>>

Elements(cell) == IF cell[1] = "arr" THEN cell[2] ELSE <<>>

(* What lies beyond the end of an object is not known.                     *)
Load(mem, addr) == IF addr < Len(mem) THEN mem[addr + 1] ELSE Garbage

(* vd_meta_get_descriptor; field types were registered before. *)
GetDescriptor(reg, t) == reg[t]

(* vd_meta_register of more types: a name keeps the type it was first      *)
(* registered with, vd_meta_get_id finds no other.                         *)
Register(reg, more) == reg @@ more

Plain(c) == [class |-> c, size |-> 1, fields |-> <<>>]

(* The types vd_meta_init registers. *)
Defaults ==
  [t \in {"int8_t", "uint8_t", "int16_t", "uint16_t", "int32_t", "uint32_t",
          "int64_t", "uint64_t", "float", "double", "char", "CString"} |->
     CASE t = "char" -> Plain("char") [] t = "CString" -> Plain("string")
       [] t \in {"float", "double"} -> Plain("float") [] OTHER -> Plain("num")]

-----------------------------------------------------------------------------
(* Writing. inner writes the objects inside of the one that is written.    *)

Space(pr) == IF pr THEN P("space") ELSE <<>>

(* Between two of n elements. *)
Comma(i, n) == IF i < n THEN P("comma") ELSE <<>>

(* A floating point number is v / 10^(Decimals + 1). In "%f" the last      *)
(* digit is rounded, half to even.                                         *)
Rounded(v) ==
  LET q == v \div 10
      half == (v % 10) - 5
  IN  IF half > 0 \/ (half = 0 /\ q % 2 = 1) THEN q + 1 ELSE q

Digits[n \in Nat] == IF n < 10 THEN 1 ELSE 1 + Digits[n \div 10]

Size(v) == IF v < 0 THEN -v ELSE v

(* The characters of "%f": sign, digits, point, digits. *)
Chars(v) ==
  (IF v < 0 THEN 1 ELSE 0) + Digits[Size(Rounded(v)) \div 10^Decimals] + 1 + Decimals

(* What snprintf leaves of v for strtof to read: it drops the last         *)
(* characters of a number that does not fit, the point too if it must.     *)
Printed(v) ==
  LET lost == Chars(v) - FloatRoom
      zeroed == CASE lost <= 0 -> 0 [] lost \in 1 .. Decimals -> lost [] OTHER -> Decimals
      dropped == IF lost > Decimals + 1 THEN lost - Decimals - 1 ELSE 0
      n == Size(Rounded(v)) \div 10^zeroed
      m == (n \div 10^dropped) * 10^zeroed * 10
  IN  IF v < 0 THEN -m ELSE m

(* vd_meta__write_json_descriptor *)
WriteJsonDescriptor(reg, inner, mem, base, t) ==
  LET class == GetDescriptor(reg, t).class
  IN  CASE class = "object" -> inner[<<mem, base, t>>]
        [] class = "float" -> <<<<"float", Printed(Load(mem, base)[2])>>>>
        [] OTHER -> <<Load(mem, base)>>

(* vd_meta__write_json_field *)
WriteJsonField(reg, inner, mem, base, f, pr) ==
  LET at == base + f.offset
      items == Elements(Load(mem, at))
      n == IF f.flag = "fixed" THEN f.len ELSE Len(items)
      Item(i) ==
        IF f.flag = "fixed"
          THEN WriteJsonDescriptor(reg, inner, mem, at + (i - 1) * GetDescriptor(reg, f.type).size, f.type)
          ELSE WriteJsonDescriptor(reg, inner, items[i], 0, f.type)
  IN  IF f.flag = "none" THEN WriteJsonDescriptor(reg, inner, mem, at, f.type)
      ELSE Space(pr) \o P("bracket") \o Space(pr)
           \o FlattenSeq([i \in 1 .. n |-> Space(pr) \o Item(i) \o Comma(i, n) \o Space(pr)])
           \o P("endbracket")

(* The name of the type comes first. *)
Header(t, pr) ==
  P("brace") \o Space(pr) \o Str(TypeName) \o P("colon") \o Space(pr) \o Str(t) \o P("comma") \o Space(pr)

(* vd_meta__write_json_object *)
WriteJsonObject(reg, inner, mem, base, t, pr) ==
  LET fs == GetDescriptor(reg, t).fields
  IN  Header(t, pr)
      \o FlattenSeq([i \in DOMAIN fs |->
           Str(fs[i].name) \o P("colon") \o Space(pr)
           \o WriteJsonField(reg, inner, mem, base, fs[i], pr) \o Comma(i, Len(fs)) \o Space(pr)])
      \o P("endbrace")

(* The writer of objects that hold others up to Levels deep. *)
ObjectWriter(reg, pr) ==
  LET upTo[n \in 0 .. Levels] ==
        [o \in Memories \X Nat \X (DOMAIN reg) |->
           IF n = 0 THEN <<>> ELSE WriteJsonObject(reg, upTo[n - 1], o[1], o[2], o[3], pr)]
  IN  upTo[Levels]

-----------------------------------------------------------------------------
(* Reading. What reads a value answers the return code, the position of    *)
(* the slice and the stores it made. inner reads the objects inside of the *)
(* one that is read.                                                       *)

(* The token at p; the character is 0 at the end. *)
At(txt, p) == IF p <= Len(txt) THEN txt[p][1] ELSE "end"

(* vd_meta__parse_json_string finds a whole string at p. *)
IsString(txt, p) == At(txt, p) = "str"

(* vd_meta__slice_skip_whitespace *)
SkipSpace(txt, p) ==
  IF p > Len(txt) THEN p ELSE Min({q \in p .. Len(txt) + 1 : At(txt, q) # "space"})

Parsed(p, stores) == [ret |-> Ok, pos |-> p, stores |-> stores]
Failed(s) == [s EXCEPT !.ret = INVALID_JSON]
Moved(s, p) == [s EXCEPT !.pos = p]
(* Behind a comma. *)
GoesOn(s, p) == [Moved(s, p) EXCEPT !.ret = More]
(* r was read behind s. *)
After(s, r) == [ret |-> r.ret, pos |-> r.pos, stores |-> s.stores \o r.stores]

(* A loop of the code: Pass(i, s) is its pass of number i, which starts in *)
(* s. Each pass but the last ends behind a comma or at the end of the text,*)
(* so there are no more of them than that.                                 *)
Loop(Pass(_, _), start, txt) ==
  LET n == Cardinality({q \in DOMAIN txt : At(txt, q) = "comma"}) + 2
      after[i \in 0 .. n] ==
        IF i = 0 THEN start
        ELSE LET s == after[i - 1] IN IF s.ret = More THEN Pass(i - 1, s) ELSE s
  IN  after[n]

(* A cell is written, an element is added to an array. *)
Put(addr, cell) == [addr |-> addr, cell |-> cell, wild |-> FALSE]
Add(addr, e) == [addr |-> addr, cell |-> <<"new", e.mem>>, wild |-> e.wild]

(* The memory s.mem after a store, and whether one went outside of it. *)
Store(s, st) ==
  LET w == st.wild \/ s.wild
  IN  IF st.addr >= Len(s.mem) THEN [s EXCEPT !.wild = TRUE]
      ELSE IF st.cell[1] # "new" THEN [mem |-> [s.mem EXCEPT ![st.addr + 1] = st.cell], wild |-> w]
      ELSE [mem |-> [s.mem EXCEPT ![st.addr + 1] = <<"arr", Append(Elements(@), st.cell[2])>>],
            wild |-> w]

(* New memory, filled. *)
Filled(size, with, stores) ==
  FoldLeft(Store, [mem |-> [c \in 1 .. size |-> with], wild |-> FALSE], stores)

(* Variant: brackets do not count. *)
DepthBracesOnly(c) ==
  CASE c = "brace" -> <<0, 1>> [] c = "endbrace" -> <<0, -1>> [] OTHER -> <<0, 0>>

(* What a character adds to num_brackets and num_braces. *)
Depth(c) ==
  CASE c = "bracket" -> <<1, 0>> [] c = "endbracket" -> <<-1, 0>>
    [] c = "brace" -> <<0, 1>> [] c = "endbrace" -> <<0, -1>> [] OTHER -> <<0, 0>>

(* num_brackets and num_braces after n tokens. *)
Nesting(txt) ==
  LET level[n \in 0 .. Len(txt)] ==
        IF n = 0 THEN <<0, 0>>
        ELSE LET l == level[n - 1]
                 d == Depth(txt[n][1])
             IN  <<l[1] + d[1], l[2] + d[2]>>
  IN  level

(* vd_meta__json_skip_value: up to and with the next comma outside of all  *)
(* brackets and braces; 0 when there is none.                              *)
SkipValue(txt, p) ==
  LET level == Nesting(txt)
      ends == {q \in p .. Len(txt) : At(txt, q) = "comma" /\ level[q - 1] = level[p - 1]}
  IN  IF ends = {} THEN 0 ELSE Min(ends) + 1

(* vd_meta__parse_json_descriptor: a value that is not of the type leaves  *)
(* the position where it is; numbers are then 0 (strtol, strtof).          *)
ParseJsonDescriptor(reg, txt, inner, t, p, addr) ==
  LET class == GetDescriptor(reg, t).class
      n == SkipSpace(txt, p)
  IN  CASE At(txt, p) = "brace" -> inner[<<t, p, addr>>]
        [] At(txt, p) # "brace" /\ class \in {"num", "float"} ->
             IF At(txt, n) = class THEN Parsed(n + 1, <<Put(addr, <<"num", txt[n][2]>>)>>)
             ELSE Parsed(p, <<Put(addr, Zero)>>)
        [] At(txt, p) # "brace" /\ class \in {"char", "string"} /\ IsString(txt, p) ->
             Parsed(p + 1, <<Put(addr, txt[p])>>)
        [] OTHER -> Parsed(p, <<>>)

(* "i >= field->fixed_array.len" *)
ArrayFull(f, i) == f.flag = "fixed" /\ i >= f.len

(* vd_meta_field_array_get, vd_meta_field_array_add: the element is parsed *)
(* in its own memory, which is nobody's before when it was added.          *)
ParseElement(reg, txt, inner, f, i, p, arr) ==
  LET size == GetDescriptor(reg, f.type).size
      item == ParseJsonDescriptor(reg, txt, inner, f.type, p, 0)
  IN  IF f.flag = "fixed"
        THEN ParseJsonDescriptor(reg, txt, inner, f.type, p, arr + i * size)
        ELSE [item EXCEPT !.stores = <<Add(arr, Filled(size, Garbage, item.stores))>>]

(* A pass of the loop of vd_meta__parse_json_field: no white space is      *)
(* skipped behind an element.                                              *)
NextElement(reg, txt, inner, f, arr, i, s) ==
  IF ArrayFull(f, i) THEN Failed(s)
  ELSE LET e == After(s, ParseElement(reg, txt, inner, f, i, SkipSpace(txt, s.pos), arr))
       IN  CASE e.ret # Ok -> e
             [] e.ret = Ok /\ At(txt, e.pos) = "endbracket" -> Moved(e, e.pos + 1)
             [] e.ret = Ok /\ At(txt, e.pos) = "comma" -> GoesOn(e, e.pos + 1)
             [] OTHER -> Failed(e)

ParseArray(reg, txt, inner, f, p, arr) ==
  Loop(LAMBDA i, s : NextElement(reg, txt, inner, f, arr, i, s), GoesOn(Parsed(p, <<>>), p), txt)

(* vd_meta__parse_json_field, for the field at addr. The array functions   *)
(* add the offset of the field to the address once more.                   *)
ParseJsonField(reg, txt, inner, f, p, addr) ==
  LET b == SkipSpace(txt, p)
  IN  IF At(txt, b) # "bracket" THEN ParseJsonDescriptor(reg, txt, inner, f.type, b, addr)
      ELSE IF f.flag = "none" THEN Failed(Parsed(p, <<>>))
      ELSE ParseArray(reg, txt, inner, f, b + 1, addr + f.offset)

(* find_field *)
FindField(d, key) == {f \in Range(d.fields) : f.name = key}

(* Variant: the end of the text ends an object too. *)
ClosesAtEnd(txt, p) == At(txt, p) \in {"endbrace", "end"}

Closes(txt, p) == At(txt, p) = "endbrace"

(* A field that find_field found, its value at v. *)
FieldFound(reg, txt, inner, f, v, base, s) ==
  LET r == After(s, ParseJsonField(reg, txt, inner, f, v, base + f.offset))
      p == SkipSpace(txt, r.pos)
  IN  CASE r.ret # Ok -> r
        [] r.ret = Ok /\ Closes(txt, p) -> Moved(r, p + 1)
        [] r.ret = Ok /\ At(txt, p) = "comma" -> GoesOn(r, p + 1)
        [] OTHER -> Failed(r)

(* A pass of the loop of vd_meta__parse_json_object: "name": value, ... }. *)
(* A key that is not a string is not noticed, but no colon follows it.     *)
NextField(reg, txt, inner, t, base, s) ==
  LET k == SkipSpace(txt, s.pos)
      colon == SkipSpace(txt, k + 1)
      v == SkipSpace(txt, colon + 1)
      found == FindField(GetDescriptor(reg, t), txt[k][2])
      next == SkipValue(txt, v)
  IN  CASE ~IsString(txt, k) \/ At(txt, colon) # "colon" -> Failed(s)
        [] IsString(txt, k) /\ At(txt, colon) = "colon" /\ found = {} ->
             IF next = 0 THEN Failed(s) ELSE GoesOn(s, next)
        [] OTHER -> FieldFound(reg, txt, inner, CHOOSE f \in found : TRUE, v, base, s)

ParseFields(reg, txt, inner, t, p, base) ==
  Loop(LAMBDA i, s : NextField(reg, txt, inner, t, base, s), GoesOn(Parsed(p, <<>>), p), txt)

(* vd_meta__parse_json_object *)
ParseJsonObject(reg, txt, inner, t, p, base) ==
  LET b == SkipSpace(txt, p)
  IN  IF At(txt, b) # "brace" THEN Failed(Parsed(p, <<>>))
      ELSE ParseFields(reg, txt, inner, t, b + 1, base)

(* The reader of objects. Each object inside of another starts at a brace  *)
(* of its own, so none is deeper than the text is long.                    *)
ObjectReader(reg, txt) ==
  LET upTo[n \in 0 .. Len(txt)] ==
        [o \in (DOMAIN reg) \X Nat \X Nat |->
           IF n = 0 THEN Failed(Parsed(o[2], <<>>))
           ELSE ParseJsonObject(reg, txt, upTo[n - 1], o[1], o[2], o[3])]
  IN  upTo[Len(txt)]

(* What vd_meta__json_get_object_type answers: a code and a type. *)
Answer(code, t) == [ret |-> code, type |-> t]

(* The text says that it is of type t. *)
Hinted(reg, t, exp) ==
  CASE t \notin DOMAIN reg -> Answer(INVALID_TYPE, t)
    [] t \in DOMAIN reg /\ exp # NoType /\ exp # t -> Answer(TYPE_MISMATCH, t)
    [] OTHER -> Answer(Ok, t)

(* It ends and does not say. *)
Untold(exp) == IF exp # NoType THEN Answer(Ok, exp) ELSE Answer(TYPE_NOT_FOUND, NoType)

(* A pass of the loop of vd_meta__json_get_object_type, at the name of a   *)
(* field. The result of parsing the type's name is not looked at: when it  *)
(* is missing an uninitialised pointer is taken for it.                    *)
NextName(reg, txt, exp, s) ==
  LET k == SkipSpace(txt, s.pos)
      colon == SkipSpace(txt, k + 1)
      v == SkipSpace(txt, colon + 1)
      skipped == SkipValue(txt, v)
      next == SkipSpace(txt, IF skipped = 0 THEN Len(txt) + 1 ELSE skipped)
  IN  CASE At(txt, k) = "endbrace" -> Untold(exp)
        [] At(txt, k) # "endbrace" /\ (~IsString(txt, k) \/ At(txt, colon) # "colon") ->
             Answer(INVALID_JSON, NoType)
        [] IsString(txt, k) /\ At(txt, colon) = "colon" /\ txt[k][2] = TypeName ->
             IF IsString(txt, v) THEN Hinted(reg, txt[v][2], exp)
             ELSE Answer(Undefined, NoType)
        [] OTHER -> [ret |-> More, pos |-> IF At(txt, next) = "comma" THEN next + 1 ELSE next]

GetObjectType(reg, txt, p, exp) ==
  Loop(LAMBDA i, s : NextName(reg, txt, exp, s), [ret |-> More, pos |-> p], txt)

(* vd_meta_parse_json; the object starts as zeroes. *)
ParseJson(reg, txt, exp) ==
  LET p == SkipSpace(txt, 1)
      a == IF At(txt, p) = "brace" THEN GetObjectType(reg, txt, p + 1, exp)
           ELSE Answer(INVALID_JSON, NoType)
      r == ParseJsonObject(reg, txt, ObjectReader(reg, txt), a.type, 1, 0)
      built == Filled(GetDescriptor(reg, a.type).size, Zero, r.stores)
  IN  IF a.ret # Ok THEN [ret |-> a.ret, type |-> a.type, mem |-> <<>>, wild |-> FALSE]
      ELSE [ret |-> r.ret, type |-> a.type, mem |-> built.mem, wild |-> built.wild]

-----------------------------------------------------------------------------
(* Assumptions. *)

(* A type is registered after the types of its fields: VD_META_TYPE_ID     *)
(* finds their ids by name.                                                *)
FieldsIn(reg) ==
  [name : STRING, offset : Nat, type : DOMAIN reg, flag : {"none", "fixed", "intrusive"}, len : Nat]

(* A field is a floating point number for all programs or for none. *)
SameKind(reg, other) ==
  \A t \in DOMAIN reg \cap DOMAIN other :
    \A f \in Range(reg[t].fields), g \in Range(other[t].fields) :
      f.name = g.name => (reg[f.type].class = "float") = (other[g.type].class = "float")

RegistryAssumption ==
  /\ Writer \in DOMAIN Registries
  /\ \A r \in DOMAIN Registries :
       /\ DOMAIN Samples \subseteq DOMAIN Registries[r]
       /\ \A t \in DOMAIN Registries[r] :
            Registries[r][t].fields \in Seq(FieldsIn(Registries[r]))
            /\ Registries[r][t].size \in Nat
       /\ SameKind(Registries[r], Registries[Writer])

(* Memory holds numbers, strings and arrays, whose elements are memory.    *)
MemoryAssumption ==
  /\ Levels \in Nat \ {0} /\ Decimals \in Nat \ {0} /\ FloatRoom \in Nat \ {0, 1}
  /\ \A t \in DOMAIN Samples : Samples[t] \subseteq Memories
  /\ \A m \in Memories : m \in Seq(Range(m)) /\ \A c \in Range(m) :
       /\ c[1] \in {"num", "str", "arr"}
       /\ c[1] = "arr" => c[2] \in Seq(Memories)

ASSUME JsonAssumption == RegistryAssumption /\ MemoryAssumption

-----------------------------------------------------------------------------
(* One object is written, perhaps cut, and read. *)

JsonInit ==
  /\ pc = "write"
  /\ type \in DOMAIN Samples /\ object \in Samples[type]
  /\ pretty \in Pretty
  /\ reader \in DOMAIN Registries
  /\ expected \in {NoType} \cup DOMAIN Samples
  /\ text = <<>> /\ cut = FALSE /\ result = [ret |-> Ok]

(* vd_meta_write_json *)
WriteJson ==
  /\ pc = "write" /\ pc' = "written"
  /\ text' = ObjectWriter(Registries[Writer], pretty)[<<object, 0, type>>]
  /\ UNCHANGED <<type, object, pretty, reader, expected, cut, result>>

(* The file ends early. *)
CutText ==
  /\ pc = "written" /\ ~cut
  /\ \E n \in 0 .. Len(text) - 1 : text' = SubSeq(text, 1, n)
  /\ cut' = TRUE
  /\ UNCHANGED <<pc, type, object, pretty, reader, expected, result>>

Read ==
  /\ pc = "written" /\ pc' = "read"
  /\ result' = ParseJson(Registries[reader], text, expected)
  /\ UNCHANGED <<type, object, pretty, reader, expected, text, cut>>

JsonNext == WriteJson \/ CutText \/ Read

JsonSpec == JsonInit /\ [][JsonNext]_jsonVars

-----------------------------------------------------------------------------
(* Properties. *)

(* A text that was cut short is never taken for a whole one, wherever it   *)
(* ends and whatever the reader skips - but for the one place behind the   *)
(* colon of the type's name (ErrorOrObject).                               *)
CutIsRejected ==
  pc = "read" /\ cut => result.ret \in Errors \cup {Undefined}

(* A whole text is of the type that was written: vd_meta_parse_json builds *)
(* nothing of another one, whatever the program expects and knows.         *)
TypeIsRead ==
  pc = "read" /\ ~cut =>
    IF expected \in {NoType, type} THEN result.type = type
    ELSE result.ret = TYPE_MISMATCH /\ result.mem = <<>>

(* vd_meta_parse_json returns "0 on success, < 0 on error". *)
ErrorOrObject == pc = "read" => result.ret \in Errors \cup {Ok}
=============================================================================
