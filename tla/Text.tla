--------------------------------- MODULE Text ---------------------------------
(***************************************************************************)
(* lib/vd_fmt.h with its two callers, vd_snfmt (lib/fmt.c: measure, then   *)
(* allocate, then print) and vd_fmt_vfprintf (print into a buffer of fixed *)
(* size: the log), and the string slices of lib/str.c that paths are taken *)
(* apart with.                                                             *)
(*                                                                         *)
(* A text is a sequence of characters, each a short name.  A format is a   *)
(* sequence of items: a conversion, or a character that stands for itself. *)
(* "?" is a conversion nobody knows, or one without its closing brace.     *)
(* The 8 and 16 bit integers stand for all widths, as one macro defines    *)
(* them; floats are left to snprintf and not modelled.  A conversion that  *)
(* is handed an argument of another type reads something (junk).           *)
(***************************************************************************)
EXTENDS Integers, Sequences, FiniteSets, SequencesExt

CONSTANTS
  Jobs,              \* [fmt, args]: formats with their arguments
  BufSize,           \* the buffer of vd_fmt_vfprintf: 4096
  JunkLens,          \* lengths a misread argument can seem to have (bound)
  Names, Needles,    \* the slices that are taken apart, and looked for
  MaxU32             \* 2^32 - 1, or any number no length comes near

IntSpecs == {"i8", "u8", "i16", "u16"}
StrSpecs == {"str", "path"}
Takes(item) == item \in IntSpecs \cup StrSpecs

Modulus == [i8 |-> 256, u8 |-> 256, i16 |-> 65536, u16 |-> 65536]
Signed(spec) == spec \in {"i8", "i16"}

(* v as an intname *)
Wrap(spec, v) ==
  LET m == Modulus[spec]
  IN  IF Signed(spec) THEN ((v + m \div 2) % m) - m \div 2 ELSE v % m

(* The arguments of the first i items of a format. *)
Taken(fmt, i) == Cardinality({j \in 1 .. i : Takes(fmt[j])})

(* The argument that belongs to item i. *)
ArgOf(asked, i) == asked.args[Taken(asked.fmt, i)]

IsArg(arg) ==
  (arg.type = "int" /\ arg.v \in Int) \/ (arg.type = "str" /\ arg.v \in Seq(ToSet(arg.v)))

Matched(asked) ==
  /\ asked.fmt \in Seq(ToSet(asked.fmt)) /\ asked.args \in Seq(ToSet(asked.args))
  /\ Len(asked.args) = Taken(asked.fmt, Len(asked.fmt))
  /\ \A arg \in ToSet(asked.args) : IsArg(arg)
  /\ \A i \in DOMAIN asked.fmt :
       LET item == asked.fmt[i]
           arg == ArgOf(asked, i)
       IN  /\ item \in IntSpecs => arg.type = "int" /\ Wrap(item, arg.v) = arg.v
           /\ item \in StrSpecs => arg.type = "str"

(* Lengths are u32; nobody looks for an empty slice; every conversion is   *)
(* handed an argument of its type, and no more arguments are than that.    *)
ASSUME TextAssumption ==
  /\ \A asked \in Jobs : Matched(asked)
  /\ JunkLens \subseteq Nat
  /\ BufSize \in Nat /\ MaxU32 \in Nat \ {0}
  /\ \A s \in Names \cup Needles : s \in Seq(ToSet(s)) /\ Len(s) <= MaxU32
  /\ <<>> \notin Needles

VARIABLES
  job,               \* what is being printed, and where it is
  name, needle       \* a slice that is being taken apart, and one looked for

textVars == <<job, name, needle>>

-----------------------------------------------------------------------------
(* Integers *)

(* Variant: no room for the sign. *)
MaxDigitsUnsigned(spec) == IF Modulus[spec] = 256 THEN 3 ELSE 5

(* maxdigits in VD_FMT__INT_CONVERSION_PROCS, the sign included *)
MaxDigits(spec) == (IF Modulus[spec] = 256 THEN 3 ELSE 5) + (IF Signed(spec) THEN 1 ELSE 0)

DigitNames == <<"0", "1", "2", "3", "4", "5", "6", "7", "8", "9">>
Digit(d) == DigitNames[d + 1]

(* Two characters of VD_FMT__Digits_Lut from index i on, or what lies next *)
(* to the table.                                                           *)
TwoDigits(i) ==
  IF i \in 0 .. 198 THEN <<Digit((i \div 2) \div 10), Digit((i \div 2) % 10)>>
                    ELSE <<"junk", "junk">>

(* The loop over pairs of digits, of which 16 bits have at most two before *)
(* the first; the index into the table is an intname. A negative number,   *)
(* which -v can still be, gives no digit.                                  *)
Digits(spec, v) ==
  LET pair(n) == TwoDigits(Wrap(spec, 2 * n))
      first(n) == IF n < 10 THEN <<Digit(n)>> ELSE pair(n)
  IN  IF v < 0 THEN <<"junk">>
      ELSE IF v < 100 THEN first(v)
      ELSE IF v < 10000 THEN first(v \div 100) \o pair(v % 100)
      ELSE first(v \div 10000) \o pair((v \div 100) % 100) \o pair(v % 100)

IntText(spec, v) ==
  IF v < 0 THEN <<"-">> \o Digits(spec, Wrap(spec, -v)) ELSE Digits(spec, v)

-----------------------------------------------------------------------------
(* Conversions: what is written, what is returned, the arguments left.     *)

Written(room, text, args) ==
  [text |-> IF room < Len(text) THEN <<>> ELSE text, len |-> Len(text), args |-> args]

(* An argument of the wrong type. *)
Misread(room, args, junk) == Written(room, [i \in 1 .. junk |-> "junk"], Tail(args))

(* vd_fmt__int8_t_to_str and its like: too little room, and the argument   *)
(* is not even taken.                                                      *)
ConvertInt(spec, room, args, junk) ==
  IF room < MaxDigits(spec) - 1
    THEN [text |-> <<>>, len |-> MaxDigits(spec), args |-> args]
  ELSE IF Head(args).type # "int" THEN Misread(room, args, junk)
  ELSE Written(room, IntText(spec, Wrap(spec, Head(args).v)), Tail(args))

(* vd_fmt__string_slice_to_stru32, vd_fmt__cstr; vd_fmt__pathu32_to_str    *)
(* turns backslashes into slashes.                                         *)
ConvertStr(spec, room, args, junk) ==
  IF Head(args).type # "str" THEN Misread(room, args, junk)
  ELSE LET s == Head(args).v
           slash(c) == IF spec = "path" /\ c = "\\" THEN "/" ELSE c
       IN  Written(room, [i \in DOMAIN s |-> slash(s[i])], Tail(args))

Convert(item, room, args, junk) ==
  IF item \in IntSpecs THEN ConvertInt(item, room, args, junk)
  ELSE IF item \in StrSpecs THEN ConvertStr(item, room, args, junk)
  ELSE Written(room, <<IF item = "null" THEN "nul" ELSE item>>, args)

(* What is in memory after text was written behind position at. *)
Put(out, at, text) ==
  LET there == at + 1 .. at + Len(text)
  IN  [i \in DOMAIN out \cup there |-> IF i \in there THEN text[i - at] ELSE out[i]]

(* The next item in vd_fmt_vsnfmt into n characters. A literal is a        *)
(* conversion of itself: it is written if there is room, and counted.      *)
FormatItem(acc, c, n, junk) ==
  LET room == IF n < acc.ret THEN 0 ELSE n - acc.ret
      done == Convert(c, room, acc.args, junk)
  IN  IF acc.failed THEN acc
      ELSE IF c = "?" THEN [acc EXCEPT !.failed = TRUE, !.ret = 0]
      ELSE [acc EXCEPT !.out = Put(@, acc.ret, done.text),
                       !.ret = @ + done.len,
                       !.args = done.args]

(* vd_fmt_vsnfmt, item by item. *)
Vsnfmt(fmt, n, args, junk) ==
  LET after[i \in 0 .. Len(fmt)] ==
        IF i = 0 THEN [out |-> <<>>, ret |-> 0, args |-> args, failed |-> FALSE]
                 ELSE FormatItem(after[i - 1], fmt[i], n, junk)
  IN  after[Len(fmt)]

(* The ret characters a caller takes from its n. *)
TakenFrom(done) ==
  [i \in 1 .. done.ret |-> IF i \in DOMAIN done.out THEN done.out[i] ELSE "junk"]
-----------------------------------------------------------------------------
(* The two callers.                                                        *)

Start(way, asked) ==
  [way |-> way, fmt |-> asked.fmt, args |-> asked.args, n |-> 0, text |-> <<>>,
   touched |-> {}, pc |-> IF way = "snfmt" THEN "measure" ELSE "fill"]

Ways == {"snfmt", "print"}

(* vd_snfmt, vd_snfmt_a: the first pass, and the allocation of its result. *)
Measure ==
  /\ job.pc = "measure"
  /\ \E junk \in JunkLens :
       job' = [job EXCEPT !.n = Vsnfmt(job.fmt, 0, job.args, junk).ret, !.pc = "fill"]
  /\ UNCHANGED <<name, needle>>

(* The second pass of vd_snfmt, which takes as many characters as that     *)
(* returned; vd_fmt_vfprintf, which hands as many to fwrite.               *)
Fill ==
  /\ job.pc = "fill"
  /\ \E junk \in JunkLens :
       LET n == IF job.way = "snfmt" THEN job.n ELSE BufSize
           done == Vsnfmt(job.fmt, n, job.args, junk)
       IN  job' = [job EXCEPT !.n = n, !.pc = "done", !.text = TakenFrom(done),
                              !.touched = DOMAIN done.out]
  /\ UNCHANGED <<name, needle>>

-----------------------------------------------------------------------------
(* Slices (lib/str.c). Indices count from 0, as there; a length stands for *)
(* "not found", as there.                                                  *)

Char(s, i) == s[i + 1]
MinusU32(a, b) == IF a >= b THEN a - b ELSE MaxU32 + 1 + a - b

(* vd_str_last_of *)
LastOf(s, c) ==
  LET at == {i \in 0 .. Len(s) - 1 : Char(s, i) = c}
  IN  IF at = {} THEN Len(s) ELSE Max(at)

(* Variant: the first separator of the list that occurs. *)
FirstOfAny(s, cs) ==
  LET hits == SelectSeq([k \in DOMAIN cs |-> LastOf(s, cs[k])], LAMBDA i : i # Len(s))
  IN  IF hits = <<>> THEN Len(s) ELSE Head(hits)

(* vd_str_last_of_any *)
LastOfAny(s, cs) ==
  LET hits == {LastOf(s, cs[k]) : k \in DOMAIN cs} \ {Len(s)}
  IN  IF hits = {} THEN Len(s) ELSE Max(hits)

(* vd_str_last_of_s from the end of s, with n characters looked at. left   *)
(* is how much of c is still to be seen; a character that breaks off a     *)
(* match is not looked at again.                                           *)
LastOfS(s, c) ==
  LET look[n \in 0 .. Len(s)] ==
        IF n = 0 THEN [left |-> Len(c), at |-> Len(s)]
        ELSE LET acc == look[n - 1]
                 i == Len(s) - n
                 left == IF Char(s, i) = Char(c, acc.left - 1) THEN acc.left - 1 ELSE Len(c)
             IN  IF acc.at # Len(s) THEN acc
                 ELSE [left |-> left, at |-> IF left = 0 THEN i ELSE acc.at]
  IN  look[Len(s)].at

EndsWith(s, c) == LastOfS(s, c) = MinusU32(Len(s), Len(c))

(* vd_str_split, of which each caller takes one side: character at stays   *)
(* with the left one.                                                      *)
ChopRight(s, at) == IF at >= Len(s) THEN s ELSE SubSeq(s, 1, at + 1)
ChopLeft(s, at) == IF at >= Len(s) THEN s ELSE SubSeq(s, at + 2, Len(s))

ChopRightLastOf(s, c) == ChopRight(s, MinusU32(LastOf(s, c), 1))
PathLastPart(s) == ChopLeft(s, LastOfAny(s, <<"/", "\\">>))

(* A path is shortened to its directory, or to its last part. *)
ToDirectory == name' = ChopRightLastOf(name, "/") /\ UNCHANGED <<job, needle>>
ToLastPart == name' = PathLastPart(name) /\ UNCHANGED <<job, needle>>

-----------------------------------------------------------------------------
(* What the conversions mean.                                              *)

PowersOfTen == <<1, 10, 100, 1000, 10000>>

(* v in decimals, without a table or a loop. *)
Decimal(v) ==
  LET a == IF v < 0 THEN -v ELSE v
      k == Max({1} \cup {i \in DOMAIN PowersOfTen : a >= PowersOfTen[i]})
      digits == [i \in 1 .. k |-> Digit((a \div PowersOfTen[k - i + 1]) % 10)]
  IN  IF v < 0 THEN <<"-">> \o digits ELSE digits

Piece(asked, i) ==
  LET item == asked.fmt[i]
      v == ArgOf(asked, i).v
  IN  IF item \in IntSpecs THEN Decimal(v)
      ELSE IF item = "str" THEN v
      ELSE IF item = "path" THEN [j \in DOMAIN v |-> IF v[j] = "\\" THEN "/" ELSE v[j]]
      ELSE IF item = "null" THEN <<"nul">> ELSE <<item>>

(* The pieces one after the other. *)
Meaning(asked) ==
  LET text[i \in 0 .. Len(asked.fmt)] ==
        IF i = 0 THEN <<>> ELSE text[i - 1] \o Piece(asked, i)
  IN  IF "?" \in ToSet(asked.fmt) THEN <<>> ELSE text[Len(asked.fmt)]

(* An integer the conversion gets right: it has no place for the smallest  *)
(* one, and indexes its table with an int8_t, which 128 does not fit.      *)
Printable(spec, v) ==
  /\ ~(Signed(spec) /\ v = -(Modulus[spec] \div 2))
  /\ ~(spec = "i8" /\ (v \in 64 .. 99 \/ -v \in 64 .. 99))

AllPrintable(asked) ==
  \A i \in DOMAIN asked.fmt :
    asked.fmt[i] \in IntSpecs => Printable(asked.fmt[i], ArgOf(asked, i).v)

(* The measuring pass has no room, so it does not take the argument of an  *)
(* integer: a conversion behind it gets that argument. Which only matters  *)
(* where the length depends on it.                                         *)
Measurable(asked) ==
  \A i, j \in DOMAIN asked.fmt :
    i < j /\ asked.fmt[i] \in IntSpecs => asked.fmt[j] \notin StrSpecs

(* The room a format may take: maxdigits of each integer. *)
Width(asked, i) ==
  IF asked.fmt[i] \in IntSpecs THEN MaxDigits(asked.fmt[i]) ELSE Len(Piece(asked, i))

Widest(asked) ==
  LET width[i \in 0 .. Len(asked.fmt)] ==
        IF i = 0 THEN 0 ELSE width[i - 1] + Width(asked, i)
  IN  width[Len(asked.fmt)]

(* The text a caller gets is what the format says, character by character, *)
(* and nothing is written behind the buffer, whatever the format.  It      *)
(* holds for vd_snfmt, which prints twice and has to measure what it will  *)
(* print, of formats without a string behind an integer, and for the log,  *)
(* which prints once, of texts that surely fit (vd_snfmt, vd_fmt_vfprintf).*)
TextIsExact ==
  job.pc = "done" =>
    /\ job.touched \subseteq 1 .. job.n
    /\ AllPrintable(job)
         /\ (IF job.way = "snfmt" THEN Measurable(job) ELSE Widest(job) <= BufSize)
         => job.text = Meaning(job)

(* A path is put together again from its directory and its last part, when *)
(* both are cut at the same slash and that is not the first character; the *)
(* last part has no separator and ends the path; a search from the end     *)
(* finds nothing but occurrences, and the needle at the end surely         *)
(* (vd_str_chop_right_last_of, vd_str_path_last_part, vd_str_ends_with).   *)
NamesComeApart ==
  LET slash == LastOf(name, "/")
      backslash == LastOf(name, "\\")
      found == LastOfS(name, needle)
  IN  /\ slash \in 1 .. Len(name) - 1 /\ (backslash < slash \/ backslash = Len(name))
           => ChopRightLastOf(name, "/") \o <<"/">> \o PathLastPart(name) = name
      /\ ToSet(PathLastPart(name)) \cap {"/", "\\"} = {}
      /\ IsSuffix(PathLastPart(name), name)
      /\ EndsWith(name, needle) <=> IsSuffix(needle, name)
      /\ found # Len(name) => SubSeq(name, found + 1, found + Len(needle)) = needle
=============================================================================
