------------------------------- MODULE Writer -------------------------------
(***************************************************************************)
(* The writer of src/src/cnif_io.c: the text enif_io_write prints of a     *)
(* term, with the base of the stream.  Nothing is escaped: the characters  *)
(* of an atom or a string stand in the text as they are.                   *)
(*                                                                         *)
(* Abstracted: the digits of a bignum that is no int64 are not padded;     *)
(* codes below 32, but for the newline, have no character.                 *)
(***************************************************************************)
EXTENDS Scanner

Digits == "0123456789abcdef"

RECURSIVE Numeral(_, _)
Numeral(n, base) ==
    (IF n < base THEN "" ELSE Numeral(n \div base, base)) \o Nth(Digits, (n % base) + 1)

Minus(n) == IF n < 0 THEN "-" ELSE ""
Absolute(n) == IF n < 0 THEN -n ELSE n

\* enif_io_write_integer, and cnif_big_write for what is no int64
WriteInteger(t, base) ==
    IF ~GetInt64(t).ok
    THEN (IF t.tag = "neg" THEN "-" ELSE "") \o "16#[" \o Numeral(t.digit, 16) \o "]"
    ELSE LET n == GetInt64(t).val
             prefix == CASE base = 8 -> "8#" [] base = 16 -> "16#" [] OTHER -> ""
         IN Minus(n) \o prefix \o Numeral(Absolute(n), IF prefix = "" THEN 10 ELSE base)

\* enif_io_write_float: no point is written for a whole number
WriteFloat(t) ==
    Minus(t.val) \o Numeral(Absolute(t.val) \div 2, 10) \o (IF t.val % 2 = 1 THEN ".5" ELSE "")

Text(codes) == S!FoldLeft(LAMBDA text, code : text \o Char(code), "", codes)

\* atom_need_quotes
AtomNeedQuotes(name) ==
    ~ /\ name # <<>>
      /\ Char(name[1]) \in Lower
      /\ \A i \in DOMAIN name : Char(name[i]) \in Alnum \cup {"_", "@"}

\* enif_io_write_atom: a name that does not fit its buffer is not printed
WriteAtom(t) ==
    IF Len(t.name) > 255 THEN ""
    ELSE IF AtomNeedQuotes(t.name) THEN "'" \o Text(t.name) \o "'" ELSE Text(t.name)

RECURSIVE GetString(_, _)
\* enif_get_string: the codes of the list, or <<>> for the answer 0.  Elements that
\* are no smalls are passed over, and the buffer may be full before the 0 is written.
GetString(t, codes) ==
    IF t.tag # "list" THEN IF t = Nil THEN codes ELSE <<>>
    ELSE IF t.head.tag # "small" THEN GetString(t.tail, codes)
    ELSE IF t.head.cell > 255 \/ Len(codes) >= MAX_STRING_LEN THEN <<>>
    ELSE GetString(t.tail, Append(codes, t.head.cell))

\* The texts with a comma between two
Joined(texts) ==
    S!FoldLeft(LAMBDA text, i : text \o (IF i = 1 THEN "" ELSE ",") \o texts[i], "",
               [i \in DOMAIN texts |-> i])

WriteBinary(t) == "<<" \o Joined([i \in DOMAIN t.bytes |-> Numeral(t.bytes[i], 10)]) \o ">>"

RECURSIVE Write(_, _)

WriteAll(terms, base) == Joined([i \in DOMAIN terms |-> Write(terms[i], base)])

\* The 0 behind a string of MAX_STRING_LEN overwrites what is behind the buffer
Overruns(t) == Len(GetString(t, <<>>)) = MAX_STRING_LEN

\* Stands for what happens then, which C does not define: no term is printed so
UNDEFINED == "?"

\* enif_io_write_list
WriteList(t, base) ==
    IF Overruns(t) THEN UNDEFINED
    ELSE IF GetString(t, <<>>) # <<>> THEN "\"" \o Text(GetString(t, <<>>)) \o "\""
    ELSE "[" \o WriteAll(Elements(t), base)
         \o (IF LastTail(t) = Nil THEN "" ELSE "|" \o Write(LastTail(t), base)) \o "]"

WriteMap(t, base) ==
    "#{" \o Joined([i \in DOMAIN t.keys |->
                     Write(t.keys[i], base) \o " => " \o Write(t.values[i], base)]) \o "}"

\* enif_io_write
Write(t, base) ==
    CASE IsInteger(t) -> WriteInteger(t, base)
      [] t.tag = "float" -> WriteFloat(t)
      [] t.tag = "atom" -> WriteAtom(t)
      [] t.tag = "tuple" -> "{" \o WriteAll(t.elem, base) \o "}"
      [] t.tag = "map" -> WriteMap(t, base)
      [] t.tag \in {"nil", "list"} -> WriteList(t, base)
      [] t.tag = "binary" -> WriteBinary(t)
=============================================================================
