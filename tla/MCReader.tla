------------------------------ MODULE MCReader ------------------------------
(***************************************************************************)
(* FormReader on files the library wrote and files by hand.  An int64 is   *)
(* -2048 .. 2047 here, and the buffers are a few characters long, so that  *)
(* items on both sides of each limit are among them.                       *)
(***************************************************************************)
EXTENDS Writer, FormReader

Item(kind, term, text) == [kind |-> kind, term |-> term, text |-> text]

\* A form as enif_io_write prints it
Written(term, base) == Item("form", term, Write(term, base) \o ".\n")
Wrong(text) == Item("error", Nil, text)
Quiet(text) == Item("quiet", Nil, text)

Name1 == Atom(<<97>>)
Name8 == Atom([i \in 1 .. 8 |-> 98])
Quoted == Atom(<<97, 32, 66>>)
Abc == MakeString(<<97, 98, 99>>)
I(n) == MakeInt64(n)

\* Each written by enif_io_write and read again.  A string may be longer by one, but
\* then the writer overruns its buffer.
Terms == <<
    I(0), I(-5), I(2047), I(-2048), MakeUint64(7), Float(3), Float(-3),
    Name1, Quoted, Atom(<<>>), Atom(<<97, 64, 49>>),
    Nil, Abc, MakeString([i \in 1 .. MAX_STRING_LEN - 1 |-> 120]), MakeString(<<200>>),
    List(<<I(1), I(-2)>>, Nil), List(<<Name1>>, Quoted), List(<<Nil, Tuple(<<>>)>>, Nil),
    List(<<Abc, Name1>>, I(3)), Cons(List(<<I(4)>>, Float(1)), Nil),
    Tuple(<<>>), Tuple(<<I(1), Abc, Nil>>), Tuple(<<Tuple(<<Quoted>>)>>),
    Binary(<<1, 0, 255>>),
    Map(1, <<>>, <<>>), Map(2, <<I(1), Name1>>, <<Nil, Binary(<<2>>)>>),
    Map(3, <<Abc>>, <<Map(4, <<Nil>>, <<I(6)>>)>>) >>

\* Nine to a file
WrittenFiles == [f \in 1 .. 3 |-> [i \in 1 .. 9 |-> Written(Terms[9 * (f - 1) + i], 10)]]

\* Numbers with a base, which only another character than '.' may follow
Based == <<Written(Tuple(<<I(31), I(-2048)>>), 16), Written(Tuple(<<I(-8), I(0)>>), 8)>>

\* What does not come back as it was, but as another term: a whole float, a list of
\* smalls and other terms, a name with a back slash
Loses(term, readAs) == Item("form", readAs, Write(term, 10) \o ".\n")
Lost == <<
    Loses(Float(2), I(1)), Loses(List(<<Small(97), Name1>>, Nil), MakeString(<<97>>)),
    Loses(Atom(<<97, 92, 110>>), Atom(<<97, 10>>)) >>

\* By hand: blanks, comments, escapes and several forms of a number
Literals == <<
    Item("form", List(<<Name1, I(2)>>, Nil), " % [\n[ a,%b\n\n 2 ] ."),
    Item("form", MakeString(<<65, 10, 104, 3, 99>>), "\t\"\\101\\n\\150\\3c\"."),
    Item("form", Binary(<<97, 98, 3>>), "<< \"ab\" , 3>>.\n"),
    Item("form", Map(0, <<I(1), Name1>>, <<I(2), I(3)>>), "# { a = > +3, 1=>2}\r\n.%"),
    Item("form", Tuple(<<I(0), Float(20)>>), "\n{-,1.0e1\n}."),
    Item("form", MakeString([i \in 1 .. 6 |-> 120]), "\"xxxxxx\".") >>

\* Short files, for the callback to open
Short == <<Item("form", Name1, " a\n.")>>
Nine == Item("form", I(9), "9.\n")
Ends == <<Nine, Quiet("B.")>>
Broken == <<Wrong("a b.")>>

\* The form after which there is no process
Fatal == <<Nine, Written(Binary(<<>>), 10)>>

\* What the writer prints and the scanner refuses: a quote in a string or a name, a
\* name of MAX_ATOM_LEN without quotes, an integer that is no int64
Unreadable == <<
    Wrong(Write(MakeString(<<97, 34, 98>>), 10) \o "."), Wrong(Write(Atom(<<97, 39>>), 10) \o "."),
    Wrong(Write(Name8, 10) \o "."), Wrong(Write(MakeUint64(2048), 10) \o ".") >>

\* A form by the grammar and the comment on numbers, which the scanner refuses: it
\* takes the '.' behind a number with a base for that of a float
Ungrammatical == <<Wrong("16#1f.")>>

\* What the scanner refuses otherwise
Refused == <<
    Wrong("1"), Wrong("a b."), Wrong("12345678."), Wrong("bbbbbbbb."),
    Wrong("{a,a,a,a}."), Wrong("[a|b,c]."), Wrong("<<256>>."), Wrong("<<a>>."),
    Wrong("<1>."), Wrong("#{a}."), Wrong("#{a=>1,b=>2,c=>3,d=>4}."), Wrong("1.5e--1."),
    Quiet("B."), Quiet("{a, B}."), Quiet("?") >>

\* Each behind a form and before one that no one reads
Failures == Unreadable \o Ungrammatical \o Refused

MCFiles ==
    <<Short, Ends, Broken, Fatal, Based, Literals, Lost, <<>>, <<Nine, Wrong("\"ab")>>>>
    \o WrittenFiles
    \o [i \in DOMAIN Failures |-> <<Nine, Failures[i], Written(Name1, 10)>>]
MCLater == 1 .. 3

\* What the theorem about ImplementsForms takes of the scanner
ASSUME ScannerScansAsWritten == ScansAsWritten
=============================================================================
