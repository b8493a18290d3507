------------------------------ MODULE MCMetaJson -----------------------------
(* Registries and objects for MetaJson, after the types of test/lib.meta.c. *)
EXTENDS MetaJson

F(name, offset, t) == [name |-> name, offset |-> offset, type |-> t, flag |-> "none", len |-> 0]
Fixed(name, offset, t, n) == [F(name, offset, t) EXCEPT !.flag = "fixed", !.len = n]
Intrusive(name, offset, t) == [F(name, offset, t) EXCEPT !.flag = "intrusive"]
Object(n, fs) == [class |-> "object", size |-> n, fields |-> fs]

(* The writing program. *)
Current == Register(Defaults,
  [Vector   |-> Object(2, <<F("x", 0, "int32_t"), F("y", 1, "int32_t")>>),
   Vector3  |-> Object(2, <<F("x", 0, "float"), F("y", 1, "float")>>),
   Line     |-> Object(4, <<F("from", 0, "Vector"), F("to", 2, "Vector")>>),
   Address  |-> Object(2, <<Fixed("number", 0, "int32_t", 2)>>),
   Path     |-> Object(4, <<Fixed("points", 0, "Vector", 2)>>),
   Book     |-> Object(2, <<Intrusive("addresses", 0, "Address"), F("title", 1, "CString")>>)])

(* An older program: no x, no addresses; a newer one: fields in another    *)
(* order and at other offsets, a new one in vectors and in addresses.      *)
Older == Register(
  [Vector |-> Object(1, <<F("y", 0, "int32_t")>>),
   Vector3 |-> Object(1, <<F("y", 0, "float")>>),
   Line   |-> Object(2, <<F("to", 1, "Vector"), F("from", 0, "Vector")>>),
   Path   |-> Object(2, <<Fixed("points", 0, "Vector", 2)>>),
   Book   |-> Object(1, <<F("title", 0, "CString")>>)], Current)

Newer == Register(
  [Vector  |-> Object(3, <<F("y", 0, "int32_t"), F("z", 1, "int32_t"), F("x", 2, "int32_t")>>),
   Vector3 |-> Object(2, <<F("y", 0, "double"), F("x", 1, "double")>>),
   Line    |-> Object(6, <<F("to", 0, "Vector"), F("from", 3, "Vector")>>),
   Path    |-> Object(6, <<Fixed("points", 0, "Vector", 2)>>),
   Address |-> Object(3, <<Fixed("number", 0, "int32_t", 2), F("zip", 2, "int32_t")>>)], Current)

MCRegistries == [current |-> Current, older |-> Older, newer |-> Newer]
SameRegistry == [current |-> Current]

Nums == {<<"num", 0>>, <<"num", 1>>}
S(s) == <<"str", s>>
(* With one decimal printed and three characters kept: numbers that are    *)
(* printed as they are, rounded down to 0 and up, and cut to -20 and 12.   *)
Vector3s == {<<<<"num", p[1]>>, <<"num", p[2]>>>> :
               p \in {<<50, 3>>, <<3, 86>>, <<86, -20000>>, <<-20000, 1240>>, <<1240, 50>>}}
Vectors == {<<a, b>> : a, b \in Nums}
(* In objects with several vectors or addresses 0 and 1 take turns. *)
Mixed == {v \in Vectors : v[1] # v[2]}
Lines == {v \o w : v, w \in Mixed}
Addresses == Vectors
Books == {<<<<"arr", a>>, S("t")>> :
            a \in {<<v>> : v \in Mixed} \cup {<<v, w>> : v, w \in Mixed}}
           \cup {<<Zero, S("t")>>}

(* Types whose arrays all lie at offset 0. *)
MCSamples ==
  [Vector |-> Vectors, Vector3 |-> Vector3s, Line |-> Lines, Path |-> Lines,
   Address |-> Addresses, Book |-> Books]

(* An object with an array. *)
ArraySamples == [Address |-> Addresses]

(* Everything an object or an element of an array can be. *)
MCMemories == UNION {MCSamples[t] : t \in DOMAIN MCSamples}
ArrayMemories == Addresses

-----------------------------------------------------------------------------
(* What reading should give, field by field. *)

Field(d, name) == CHOOSE f \in Range(d.fields) : f.name = name
Names(d) == {f.name : f \in Range(d.fields)}

(* The decimal that is printed: the nearest one. *)
Nearest(v) == CHOOSE m \in v - 5 .. v + 5 : m % 10 = 0

RECURSIVE Converted(_, _, _, _, _)
(* The field of a reader's object: that of the same name in the writer's   *)
(* object, or zeroes.                                                      *)
ConvertedField(reg, mem, base, t, f) ==
  LET w == GetDescriptor(Registries[Writer], t)
      g == Field(w, f.name)
      size == GetDescriptor(Registries[Writer], g.type).size
  IN  IF f.name \notin Names(w)
        THEN [i \in 1 .. GetDescriptor(reg, f.type).size |-> Zero]
      ELSE CASE f.flag = "none" -> Converted(reg, mem, base + g.offset, f.type, 0)
             [] f.flag = "fixed" -> FlattenSeq([i \in 1 .. f.len |->
                  Converted(reg, mem, base + g.offset + (i - 1) * size, f.type, 0)])
             [] f.flag = "intrusive" ->
                  LET items == Elements(mem[base + g.offset + 1])
                  IN  IF items = <<>> THEN <<Zero>>
                      ELSE <<<<"arr", [i \in DOMAIN items |->
                                         Converted(reg, items[i], 0, f.type, 0)]>>>>

(* The reader's form of a value; d counts the cells already converted. *)
Converted(reg, mem, base, t, d) ==
  LET r == GetDescriptor(reg, t)
      here == {f \in Range(r.fields) : f.offset = d}
  IN  IF r.class = "float" THEN <<<<"num", Nearest(mem[base + 1][2])>>>>
      ELSE IF r.class # "object" THEN <<mem[base + 1]>>
      ELSE IF d >= r.size THEN <<>>
      ELSE LET c == ConvertedField(reg, mem, base, t, CHOOSE f \in here : TRUE)
           IN  c \o Converted(reg, mem, base, t, d + Len(c))

(* The differences between the programs and the shapes of objects that the *)
(* reader copes with: it knows the last field of each object; new fields   *)
(* are in no element of a growing array; arrays are at offset 0, have an   *)
(* element, and were written without white space; floating point numbers   *)
(* fit in the 31 characters that are kept.                                 *)
RECURSIVE Readable(_, _, _, _, _)
Readable(reg, mem, base, t, new) ==
  LET r == GetDescriptor(reg, t)
      w == GetDescriptor(Registries[Writer], t)
  IN  IF r.class # "object" THEN r.class = "float" => Chars(mem[base + 1][2]) <= FloatRoom
      ELSE
        /\ Last(w.fields).name \in Names(r)
        /\ new \/ Names(r) \subseteq Names(w)
        /\ \A f \in {f \in Range(r.fields) : f.name \in Names(w)} :
             LET g == Field(w, f.name)
                 items == Elements(mem[base + g.offset + 1])
             IN  CASE f.flag = "none" -> Readable(reg, mem, base + g.offset, f.type, new)
                   [] f.flag = "fixed" ->
                        /\ f.offset = 0 /\ ~pretty
                        /\ \A i \in 1 .. f.len : Readable(reg, mem, base + g.offset
                             + (i - 1) * GetDescriptor(Registries[Writer], f.type).size, f.type, new)
                   [] f.flag = "intrusive" ->
                        /\ f.offset = 0 /\ ~pretty /\ items # <<>>
                        /\ \A i \in DOMAIN items : Readable(reg, items[i], 0, f.type, FALSE)

(* What vd_meta_write_json wrote vd_meta_parse_json reads: each field the  *)
(* two programs share by name has its value, whatever order and offset it  *)
(* has on either side, unknown fields are skipped with all that is in them *)
(* and new ones are 0; a floating point number comes back as the nearest   *)
(* one with six decimals; and another type than the one asked for is not   *)
(* built.                                                                  *)
ReadsWhatWasWritten ==
  /\ TypeIsRead
  /\ pc = "read" /\ ~cut /\ expected \in {NoType, type}
     /\ Readable(Registries[reader], object, 0, type, TRUE) =>
       /\ result.ret = Ok /\ ~result.wild
       /\ result.mem = Converted(Registries[reader], object, 0, type, 0)
=============================================================================
