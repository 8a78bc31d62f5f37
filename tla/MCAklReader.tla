---------------------------- MODULE MCAklReader ----------------------------
(***************************************************************************)
(* Texts for AklReader, made from what they mean, and the properties.      *)
(*                                                                         *)
(* A value is written the way the examples write it; only these choices    *)
(* are left out, because the reader does something else there: a sign that *)
(* stands alone is followed by a space or a closing brace, and a name that *)
(* begins with a sign stands in no file.                                   *)
(***************************************************************************)
EXTENDS AklReader, TLC

Atom(cs)    == <<"ATOM", FALSE, cs>>
Number(cs)  == <<"NUMBER", FALSE, cs>>
String(cs)  == <<"STRING", FALSE, cs>>
List(items) == <<"LIST", FALSE, items>>
Quoted(v)   == <<v[1], TRUE, v[3]>>
K           == Atom(<<"k">>)

Leaves ==
  {K, Atom(<<"m", "k", "m", "k", "m">>), Atom(<<"k", "-", "1">>), Atom(<<"-">>),
   Atom(<<"+", "+">>), Atom(<<"-", "k">>), Number(<<"1">>), Number(<<"-", "1">>),
   Number(<<"1", "e", "+", "1">>), String(<<"k">>), String(<<"dq", "k", "dq">>),
   String(<<"(", ";", "nl", "bs", "k">>), <<"NIL", FALSE, <<>>>>,
   <<"TRUE", FALSE, <<>>>>, Quoted(K)}

Nested ==
  LET one == {List(<<K>>), Quoted(List(<<K>>)), List(<<List(<<K>>)>>)}
      few == {K, Atom(<<"+">>), Number(<<"+", "1">>), String(<<")">>)}
  IN  {List(<<l>>) : l \in one}
      \cup {List(<<l, x>>) : l \in one, x \in few}
      \cup {List(<<x, l>>) : l \in one, x \in few}
      \cup {List(<<l, n>>) : l \in one, n \in one}

Lists == {List(<<a, b>>) : a \in Leaves, b \in Leaves} \cup Nested

-----------------------------------------------------------------------------
(***************************************************************************)
(* Writing.  A style is what stands between two items.                     *)
(***************************************************************************)
Styles == {"tight", "wide", "lines", "comments"}

IsSign(v) == v[1] = "ATOM" /\ v[3] \in {<<"+">>, <<"-">>}

Between(style, v) ==
  CASE style = "tight" -> IF v[1] \in {"ATOM", "NUMBER", "TRUE"} THEN <<" ">> ELSE <<>>
    [] style = "wide" -> <<" ", " ">>
    [] style = "lines" -> IF IsSign(v) THEN <<" ", "nl">> ELSE <<"nl">>
    [] style = "comments" -> <<" ", ";", "k", "(", "nl">>

Escaped(cs) ==
  FlattenSeq([i \in 1 .. Len(cs) |-> IF cs[i] = "dq" THEN <<"bs", "dq">> ELSE <<cs[i]>>])

RECURSIVE Text(_, _)
Text(style, v) ==
  (IF v[2] THEN <<"quote">> ELSE <<>>) \o
  CASE v[1] \in {"ATOM", "NUMBER"} -> v[3]
    [] v[1] = "STRING" -> <<"dq">> \o Escaped(v[3]) \o <<"dq">>
    [] v[1] = "NIL" -> <<"(", ")">>
    [] v[1] = "TRUE" -> <<"t">>
    [] v[1] = "LIST" ->
         LET n == Len(v[3])
         IN  <<"(">> \o FlattenSeq([i \in 1 .. n |-> Text(style, v[3][i]) \o
                          IF i < n \/ style = "wide" THEN Between(style, v[3][i]) ELSE <<>>])
             \o <<")">>
    [] v[1] = "CALL" -> <<"(">>

Forms(style, vs) ==
  FlattenSeq([i \in 1 .. Len(vs) |->
    Text(style, vs[i]) \o
      IF i < Len(vs) \/ IsSign(vs[i]) THEN Between(style, vs[i]) ELSE <<>>])

RECURSIVE SignedName(_)
SignedName(v) == \/ v[1] = "ATOM" /\ v[3] = <<"-", "k">>
                 \/ v[1] = "LIST" /\ \E i \in 1 .. Len(v[3]) : SignedName(v[3][i])

-----------------------------------------------------------------------------
Source(text, file, job, ps, vs) ==
  [text |-> IF file THEN Append(text, "nl") ELSE text, file |-> file, job |-> job,
   sure |-> TRUE, params |-> ps, out |-> vs]

Programs ==
  {<<Quoted(v)>> : v \in Lists \cup Leaves} \cup {<<v>> : v \in Leaves}
  \cup {<<Quoted(v), Quoted(w)>> : v \in Nested, w \in {K, List(<<K>>)}}

FormSources ==
  {Source(Forms(style, vs), file, "forms", <<>>, vs) :
     style \in Styles, file \in BOOLEAN, vs \in Programs}

Names == {<<"k">>, <<"m", "m">>}
Params == {<<>>} \cup UNION {[1 .. n -> Names] : n \in 1 .. 4}
Bodies == {K, Number(<<"-", "1">>), Quoted(List(<<K>>)), <<"CALL", FALSE, <<>>>>}

\* what follows the name of a function: its parameters and its body
Written(style, ps, body) ==
  (IF ps = <<>> THEN <<"(", ")">>
   ELSE Text(style, List([i \in 1 .. Len(ps) |-> Atom(ps[i])])))
  \o Between(style, List(<<>>)) \o Text(style, body)

LambdaSources ==
  {Source(Written(style, ps, body), file, "lambda", ps, <<body>>) :
     style \in Styles, file \in BOOLEAN, ps \in Params, body \in Bodies}

\* texts that say nothing certain: cut off, or not well written
Unsure(s) == [s EXCEPT !.sure = FALSE]

Cut ==
  {Unsure([s EXCEPT !.text = SubSeq(s.text, 1, Len(s.text) - n)]) : n \in 1 .. 8,
     s \in {t \in FormSources : t.out \in {<<Quoted(v)>> : v \in Nested}}
           \cup {t \in LambdaSources : Len(t.params) < 3}}

Odd ==
  {Unsure(Source(text, file, job, <<>>, <<>>)) : file \in BOOLEAN, job \in {"forms", "lambda"},
     text \in {<<"quote", "quote", "k">>, <<"k", ")">>, <<"-", "(", "k">>, <<"-", "nl", "k">>,
               <<"(", "1", "k", ")", "dq", "k", "dq", "(", "k", ")">>, <<"quote">>,
               <<"k", " ", ";">>}}

\* a first line for the shell is skipped
Scripts == {[s EXCEPT !.text = <<"#", "-", "k", "nl">> \o @] :
              s \in {t \in FormSources : t.out \in {<<Quoted(v)>> : v \in Nested}}}

MCSources ==
  {s \in FormSources : s.file => \A i \in 1 .. Len(s.out) : ~SignedName(s.out[i])}
  \cup LambdaSources \cup Cut \cup Odd \cup Scripts

-----------------------------------------------------------------------------
(***************************************************************************)
(* Properties.                                                             *)
(***************************************************************************)
\* Quoted lists, names, numbers and strings are read as they were written,
\* whatever stands between them, from a string and from a file.
QuotedIsRead ==
  source.sure /\ source.job = "forms" /\ status = "end" => out = source.out

\* A function definition gets its parameters in order, and its body from its
\* first token on: the token that was read to look for a docstring comes again.
LambdaIsRead ==
  source.sure /\ source.job = "lambda" /\ status = "end" =>
    out = source.out /\ params.items = source.params

\* The reader never looks behind the text nor uses a value that is none, if
\* the text is complete.
NoReadBehind == source.sure => status \notin {"behind", "crash"}

\* Every text is read to its end, complete or not, but for a parameter list that
\* is cut off in a file: the loop of akl_parse_params has no test for the end.
CutInParams == source.job = "lambda" /\ source.file /\ ~source.sure
ReadingEnds == CutInParams \/ <>(status # "run")
=============================================================================
