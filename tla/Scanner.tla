------------------------------ MODULE Scanner -------------------------------
(***************************************************************************)
(* The scanner of src/src/cnif_io.c: what parse_element makes of the text  *)
(* of a stream, how far it reads, and where it fails.                      *)
(*                                                                         *)
(* A stream is the text not yet read, the line and whether an error was    *)
(* set.  A character is a string of one; Peek is enif_io_getc followed by  *)
(* enif_io_ungetc.  Each function of C is an operator from a stream to a   *)
(* value and the stream after the call.  The value ERROR alone sets no     *)
(* error: Silent is a return without one.  aborted: the process is gone.   *)
(*                                                                         *)
(* Abstracted: the wording of errors; the growth of the buffer of a        *)
(* binary; floats are cut to halves; of equal keys of a map the first is   *)
(* kept, where quick sort may keep another; a back quote is no character.  *)
(*                                                                         *)
(* Operators above the one they vary, such as SkipBlankUncounted, are      *)
(* slips the properties would catch; the others do not use them.           *)
(***************************************************************************)
EXTENDS TermOrder, FiniteSetsExt

CONSTANTS MAX_NUM_LEN, MAX_ATOM_LEN, MAX_VAR_LEN, MAX_STRING_LEN, MAX_TUPLE_LEN,
          MAX_MAP_LEN

ASSUME ScannerAssumption ==
    {MAX_NUM_LEN, MAX_ATOM_LEN, MAX_VAR_LEN, MAX_STRING_LEN, MAX_TUPLE_LEN,
     MAX_MAP_LEN} \subseteq Nat \ {0}

EOF == ""
ERROR == [tag |-> "error"]

Nth(text, i) == IF i \in 1 .. Len(text) THEN SubSeq(text, i, i) ELSE EOF

Chars(text) == {Nth(text, i) : i \in 1 .. Len(text)}

Decimal == Chars("0123456789")
Octal == Chars("01234567")
Lower == Chars("abcdefghijklmnopqrstuvwxyz")
Upper == Chars("ABCDEFGHIJKLMNOPQRSTUVWXYZ")
Alnum == Chars("0123456789abcdefghijklmnopqrstuvwxyzABCDEFGHIJKLMNOPQRSTUVWXYZ")

\* Where a character first is in a text that has it
Position(text, c) == CHOOSE i \in 1 .. Len(text) : Nth(text, i) = c

\* The values of the digits of any base up to 36
Digit == [c \in Alnum |-> Position(IF c \in Upper THEN "0123456789ABCDEFGHIJKLMNOPQRSTUVWXYZ"
                                   ELSE "0123456789abcdefghijklmnopqrstuvwxyz", c) - 1]

\* The characters by their codes, from the space on; a newline is 10
Ascii ==
    " !\"#$%&'()*+,-./0123456789:;<=>?@ABCDEFGHIJKLMNOPQRSTUVWXYZ[\\]^_\nabcdefghijklmnopqrstuvwxyz{|}~"

Char(code) == IF code = 10 THEN "\n" ELSE Nth(Ascii, code - 31)
Code == [c \in Chars(Ascii) |-> IF c = "\n" THEN 10 ELSE Position(Ascii, c) + 31]

Stream(text, line) == [text |-> text, line |-> line, error |-> FALSE, aborted |-> FALSE]

Peek(p) == Nth(p.text, 1)
Skip(p, n) == [p EXCEPT !.text = SubSeq(@, n + 1, Len(@))]
Rest(p) == Skip(p, 1)

Got(t, p) == [val |-> t, p |-> p]
Silent(p) == [val |-> ERROR, p |-> p]
Fail(p) == Silent([p EXCEPT !.error = TRUE])
Failed(r) == r.val = ERROR

\* The characters at the front of a text that are in set
Span(text, set) ==
    Min({i \in 1 .. Len(text) : Nth(text, i) \notin set} \cup {Len(text) + 1}) - 1

-----------------------------------------------------------------------------
RECURSIVE SkipBlankUncounted(_)
SkipBlankUncounted(p) ==
    LET c == Peek(p)
        blank == Span(p.text, DOMAIN Code \ {"\n"})
    IN IF c \in {" ", "\t", "\r"} THEN SkipBlankUncounted(Rest(p))
       ELSE IF c = "\n" THEN SkipBlankUncounted([Rest(p) EXCEPT !.line = @ + 1])
       ELSE IF c = "%" THEN SkipBlankUncounted(Skip(p, blank + 1))
       ELSE p

RECURSIVE SkipBlank(_)

\* skip_blank and skip_line, up to the character they return
SkipBlank(p) ==
    LET c == Peek(p)
    IN IF c \in {" ", "\t", "\r"} THEN SkipBlank(Rest(p))
       ELSE IF c = "\n" THEN SkipBlank([Rest(p) EXCEPT !.line = @ + 1])
       ELSE IF c = "%" THEN SkipBlank(Skip(p, Span(p.text, DOMAIN Code \ {"\n"})))
       ELSE p

Signed(sign, n) == IF sign < 0 THEN -n ELSE n

Halves(n, minus, times) == IF minus > 0 THEN n \div times ELSE n * times

\* The end of a float behind its digits, where p is, and an exponent that has any
\* number of signs, for strtod to refuse, and then power digits.  len characters of
\* the number are in the buffer.
EndFloat(p, sign, n, len, e, minus, power) ==
    LET q == Skip(p, e + minus + power)
        used == len + e + minus + power
    IN IF used > MAX_NUM_LEN - 1 \/ (used = MAX_NUM_LEN - 1 /\ Peek(q) # EOF) THEN Fail(q)
       ELSE IF e = 1 /\ (power = 0 \/ minus > 1) THEN Fail(q)
       ELSE Got(Float(Signed(sign, Halves(n, minus, 10 ^ (IF power = 0 THEN 0 ELSE
                                                    Digit[Nth(p.text, 2 + minus)])))), q)

Exponent(p, sign, n, len, minus) ==
    EndFloat(p, sign, n, len, 1, minus, Span(Skip(p, 1 + minus).text, Decimal))

\* From the '.', which is followed by so many digits
ScanFloat(p, sign, num, len, digits) ==
    LET q == Skip(p, digits + 1)
        n == 2 * num + (IF Digit[Nth(p.text, 2)] >= 5 THEN 1 ELSE 0)
    IN IF Peek(q) \in {"e", "E"}
       THEN Exponent(q, sign, n, len + digits, Span(Rest(q).text, {"-"}))
       ELSE EndFloat(q, sign, n, len + digits, 0, 0, 0)

RECURSIVE ScanInteger(_, _, _)
\* The loop of parse_number; num is an int64 and wraps
ScanInteger(p, sign, n) ==
    LET c == Peek(p)
        end == Got(MakeInt64(Wrap(Signed(sign, n.num), Base)), p)
    IN IF c = EOF THEN IF n.ds > 0 THEN end ELSE Fail(p)
       ELSE IF n.len >= MAX_NUM_LEN - 1 THEN Fail(Rest(p))
       ELSE IF c = "#"
       THEN IF n.set \/ n.num \notin 2 .. 36 THEN Fail(Rest(p))
            ELSE ScanInteger(Rest(p), sign,
                             [num |-> 0, base |-> n.num, set |-> TRUE, len |-> n.len + 1, ds |-> 0])
       ELSE IF c = "."
       THEN IF n.set THEN Fail(Rest(p))
            ELSE IF Peek(Rest(p)) \in Decimal THEN ScanFloat(p, sign, n.num, n.len + 1,
                                                                Span(Rest(p).text, Decimal))
            ELSE end
       ELSE IF c \in Alnum /\ Digit[c] < n.base
       THEN ScanInteger(Rest(p), sign,
                        [n EXCEPT !.num = Wrap(@ * n.base + Digit[c], Base),
                                  !.len = @ + 1, !.ds = @ + 1])
       ELSE end

\* parse_number, behind the sign that was read, if it was, and before any digit
ParseNumber(p, sign) ==
    ScanInteger(p, sign, [num |-> 0, base |-> 10, set |-> FALSE,
                          len |-> IF sign = 0 THEN 0 ELSE 1, ds |-> 0])

-----------------------------------------------------------------------------
\* Backspace, form feed and the others are the codes they have
Escapes == [n |-> 10, r |-> 13, t |-> 9, s |-> 32, b |-> 8, f |-> 12]

\* An octal escape of up to three digits
ScanOctal(p) ==
    LET n == Min({3, Span(p.text, Octal)})
    IN [code |-> S!FoldLeft(LAMBDA code, i : 8 * code + Digit[Nth(p.text, i)], 0,
                            [i \in 1 .. n |-> i]),
        p |-> Skip(p, n)]

\* parse_qchar
ParseQChar(p) ==
    IF Peek(p) = "\\" /\ Peek(Rest(p)) \in DOMAIN Escapes
    THEN [code |-> Escapes[Peek(Rest(p))], p |-> Skip(p, 2)]
    ELSE IF Peek(p) = "\\" /\ Peek(Rest(p)) \in {"0", "1", "2", "3"} THEN ScanOctal(Rest(p))
    ELSE LET q == IF Peek(p) = "\\" THEN Rest(p) ELSE p
         IN [code |-> IF Peek(q) = EOF THEN -1 ELSE Code[Peek(q)], p |-> Rest(q)]

RECURSIVE ParseQuoted(_, _, _, _)
\* The loop up to the quote, which an escaped quote ends just as well
ParseQuoted(p, quote, codes, max) ==
    LET After(c) ==
            IF c.code = -1 THEN Fail(c.p)
            ELSE IF c.code = Code[quote] THEN Got([tag |-> "quoted", codes |-> codes], c.p)
            ELSE IF Len(codes) >= max THEN Fail(c.p)
            ELSE ParseQuoted(c.p, quote, Append(codes, c.code), max)
    IN After(ParseQChar(p))

\* enif_make_string_len: a char is signed
MakeString(codes) ==
    List([i \in DOMAIN codes |-> Small(Wrap(codes[i], 256) % CellBase)], Nil)

ParseQuotedString(p) ==
    LET Made(r) == IF Failed(r) THEN r ELSE Got(MakeString(r.val.codes), r.p)
    IN Made(ParseQuoted(p, "\"", <<>>, MAX_STRING_LEN))

ParseQuotedAtom(p) ==
    LET Made(r) == IF Failed(r) THEN r ELSE Got(Atom(r.val.codes), r.p)
    IN Made(ParseQuoted(p, "'", <<>>, MAX_ATOM_LEN))

\* The name at the front of the stream: one character more is read than it has,
\* and must find place as well
Name(p, set, max) ==
    LET n == Span(p.text, set)
    IN IF n > max \/ (n = max /\ Len(p.text) > n) THEN Fail(Skip(p, max + 1))
       ELSE Got(Atom([i \in 1 .. n |-> Code[Nth(p.text, i)]]), Skip(p, n))

ParseAtom(p) == Name(p, Alnum \cup {"_", "@"}, MAX_ATOM_LEN)

\* parse_var: no term, and no error either
ParseVar(p) ==
    LET r == Name(p, Alnum \cup {"_"}, MAX_VAR_LEN)
    IN IF Failed(r) THEN r ELSE Silent(r.p)

-----------------------------------------------------------------------------
RECURSIVE ParseElement(_)

\* What comes of a value and of the stream behind it and any blanks
Behind(e, After(_, _)) == After(e, SkipBlank(e.p))

\* The loop of parse_tuple
RECURSIVE TupleFrom(_, _)
TupleFrom(p, elems) ==
    IF Len(elems) >= MAX_TUPLE_LEN THEN Fail(p)
    ELSE LET After(e, q) ==
                 IF Failed(e) THEN e
                 ELSE IF Peek(q) = "}" THEN Got(Tuple(Append(elems, e.val)), Rest(q))
                 ELSE IF Peek(q) = "," THEN TupleFrom(Rest(q), Append(elems, e.val))
                 ELSE Fail(Rest(q))
         IN Behind(ParseElement(p), After)

ParseTuple(p) ==
    LET q == SkipBlank(p)
    IN IF Peek(q) = "}" THEN Got(Tuple(<<>>), Rest(q))
       ELSE IF Peek(q) = EOF THEN Fail(q)
       ELSE TupleFrom(q, <<>>)

\* The tail behind a '|'
TailFrom(p, elems) ==
    LET After(t, q) ==
            IF Failed(t) THEN t
            ELSE IF Peek(q) = "]" THEN Got(List(elems, t.val), Rest(q))
            ELSE Fail(Rest(q))
    IN Behind(ParseElement(p), After)

\* The loop of parse_list, which conses the elements and reverses them onto the tail
RECURSIVE ListFrom(_, _)
ListFrom(p, elems) ==
    LET After(e, q) ==
            IF Failed(e) THEN e
            ELSE IF Peek(q) = "]" THEN Got(List(Append(elems, e.val), Nil), Rest(q))
            ELSE IF Peek(q) = "," THEN ListFrom(Rest(q), Append(elems, e.val))
            ELSE IF Peek(q) = "|" THEN TailFrom(Rest(q), Append(elems, e.val))
            ELSE Fail(Rest(q))
    IN Behind(ParseElement(p), After)

ParseList(p) ==
    LET q == SkipBlank(p)
    IN IF Peek(q) = "]" THEN Got(Nil, Rest(q))
       ELSE IF Peek(q) = EOF THEN Fail(q)
       ELSE ListFrom(q, <<>>)

\* One element of a binary: a string, or a number that enif_get_int finds a byte
ParseBytes(p) ==
    IF Peek(p) = "\"" THEN ParseQuoted(Rest(p), "\"", <<>>, MAX_STRING_LEN)
    ELSE IF Peek(p) # "-" /\ Peek(p) \notin Decimal THEN Fail(Rest(p))
    ELSE LET Byte(e) ==
                 IF ~Failed(e) /\ IsInteger(e.val) /\ GetInt(e.val).ok /\ GetInt(e.val).val \in 0 .. 255
                 THEN Got([tag |-> "quoted", codes |-> <<GetInt(e.val).val>>], e.p)
                 ELSE Fail(e.p)
         IN Byte(IF Peek(p) = "-" THEN ParseNumber(Rest(p), -1) ELSE ParseNumber(p, 1))

\* enif_realloc_binary to the size of the binary and enif_make_binary.  For no bytes
\* realloc, as glibc has it, frees the block and answers NULL, which enif_realloc_binary
\* takes for a failure; the block is freed again, which glibc finds.
BuildBinary(bytes, p) ==
    IF bytes = <<>>
    THEN Fail([p EXCEPT !.aborted = TRUE])
    ELSE Got(Binary(bytes), p)

\* The loop of parse_binary
RECURSIVE BinaryFrom(_, _)
BinaryFrom(p, bytes) ==
    LET After(e, q) ==
            IF Failed(e) THEN e
            ELSE IF Peek(q) = ","
            THEN BinaryFrom(SkipBlank(Rest(q)), bytes \o e.val.codes)
            ELSE IF Peek(q) # ">" THEN Fail(Rest(q))
            ELSE IF Peek(Rest(q)) # ">" THEN Fail(Skip(q, 2))
            ELSE BuildBinary(bytes \o e.val.codes, Skip(q, 2))
    IN Behind(ParseBytes(p), After)

\* parse_binary, behind the first '<'
ParseBinary(p) ==
    LET q == SkipBlank(Rest(p))
    IN IF Peek(p) # "<" THEN Fail(Rest(p))
       ELSE IF Peek(q) # ">" THEN BinaryFrom(q, <<>>)
       ELSE IF Peek(Rest(q)) = ">" THEN BuildBinary(<<>>, Skip(q, 2))
       ELSE Fail(Skip(q, 2))

\* enif_make_map_from_arrays: the keys ascending, each once
MakeMap(keys, values, at) ==
    LET Order(i, j) == CompareTerms(keys[i], keys[j], FALSE, <<0, 0>>)
        kept == {i \in DOMAIN keys : \A j \in 1 .. i - 1 : Order(i, j) # 0}
        sorted == S!SetToSortSeq(kept, LAMBDA i, j : Order(i, j) < 0)
    IN Map(at, [i \in DOMAIN sorted |-> keys[sorted[i]]],
               [i \in DOMAIN sorted |-> values[sorted[i]]])

RECURSIVE MapFrom(_, _, _)

\* The value of the last key
ValueFrom(p, keys, values) ==
    LET After(v, q) ==
            IF Failed(v) THEN v
            ELSE IF Peek(q) = "}"
            THEN Got(MakeMap(keys, Append(values, v.val), Len(p.text)), Rest(q))
            ELSE IF Peek(q) = "," THEN MapFrom(Rest(q), keys, Append(values, v.val))
            ELSE Fail(Rest(q))
    IN Behind(ParseElement(p), After)

\* The loop of parse_map.  A map is at the place of its text: no two are one word.
MapFrom(p, keys, values) ==
    LET Arrow(k, eq, gt) ==
            IF Peek(eq) # "=" THEN Fail(Rest(eq))
            ELSE IF Peek(gt) # ">" THEN Fail(Rest(gt))
            ELSE ValueFrom(Rest(gt), Append(keys, k.val), values)
        After(k, q) == IF Failed(k) THEN k ELSE Arrow(k, q, SkipBlank(Rest(q)))
    IN IF Len(keys) >= MAX_MAP_LEN THEN Fail(p) ELSE Behind(ParseElement(p), After)

\* parse_map, behind the '#'
ParseMap(p) ==
    LET q == SkipBlank(p)
        r == SkipBlank(Rest(q))
    IN IF Peek(q) # "{" THEN Fail(Rest(q))
       ELSE IF Peek(r) = "}" THEN Got(Map(Len(r.text), <<>>, <<>>), Rest(r))
       ELSE MapFrom(r, <<>>, <<>>)

\* What c, the character at the front, begins
Element(p, c) ==
    CASE c = EOF -> Silent(p)
      [] c = "{" -> ParseTuple(Rest(p))
      [] c = "[" -> ParseList(Rest(p))
      [] c = "<" -> ParseBinary(Rest(p))
      [] c = "#" -> ParseMap(Rest(p))
      [] c = "\"" -> ParseQuotedString(Rest(p))
      [] c = "'" -> ParseQuotedAtom(Rest(p))
      [] c = "-" -> ParseNumber(Rest(p), -1)
      [] c = "+" -> ParseNumber(Rest(p), 1)
      [] c \in Decimal -> ParseNumber(p, 0)
      [] c \in Upper \cup {"_"} -> ParseVar(p)
      [] c \in Lower -> ParseAtom(p)
      [] OTHER -> Silent(Rest(p))

\* parse_element
ParseElement(s) ==
    LET At(p) == Element(p, Peek(p)) IN At(SkipBlank(s))
=============================================================================
