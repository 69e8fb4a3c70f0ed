----------------------------- MODULE MCTestFile -----------------------------
(***************************************************************************)
(* FormReader on src/src/test/test.txt, the file the test program is       *)
(* given, a line after the other.  It is all forms; the terms are not      *)
(* looked at.                                                              *)
(***************************************************************************)
EXTENDS FormReader

Line(text) == [kind |-> "form", term |-> Nil, text |-> text \o "\n"]

TestLines == <<
    "%% Erlang terms\n\n1234.", "3.14.", "-1234.", "-3.14.", "hello.",
    "'a b c'.", "[].", "[1].", "[a,b,c].", "\"abc\".", "{}.", "{1}.",
    "{a,b,c}.", "<<>>.", "<<1>>.", "<<1,2,3>>.", "<<\"hello\",\"world\">>.",
    "[ 1, {1,2,3}, <<1,2,3>>, [1,2,3], 1.23 ].", "#{}.", "#{ a => a }.",
    "#{ a => 1, b => 2, c => 3 }.", "eof." >>

TestFile == [i \in DOMAIN TestLines |-> Line(TestLines[i])]

MCFiles == <<TestFile>>
MCLater == {}
=============================================================================
