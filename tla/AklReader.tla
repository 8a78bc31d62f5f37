----------------------------- MODULE AklReader -----------------------------
(***************************************************************************)
(* Who asks the lexer for tokens (src/src/parser.c, akl_compile_next of    *)
(* compile.c, akl_parse_params and lambda of lib_spec.c).                  *)
(*                                                                         *)
(* The vector of the parameters (src/src/vector.c) is its elements and its *)
(* size.  A list that is called goes on in akl_compile_list, which is in   *)
(* AklCompile: reading ends at its brace here.                             *)
(***************************************************************************)
EXTENDS AklLexer

CONSTANT Sources         \* what may be read, see Source

ASSUME SourcesAssumption ==
  \A s \in Sources : s.text \in Seq(STRING) /\ s.file \in BOOLEAN

VARIABLES
  source,        \* the member of Sources that is read: its text, whether it is
                 \* a file, the job ("forms" or "lambda") and what it means
  at,            \* where the code is that waits for a token
  lists,         \* akl_parse_list, for every list that is open, innermost last
  out,           \* the values the compiler was given
  params         \* uf_args: elements, size, and whether a write was outside

vars == <<in, lex, buf, size, backlog, tok, status, source, at, lists, out, params>>

DefArgc == 3             \* DEF_ARGC
NoValue == <<"NULL", FALSE, <<>>>>

Waits(where) == status = "run" /\ lex.at = "given" /\ at = where

\* akl_lex is called again
Again == lex' = [lex EXCEPT !.at = "call"]
Stays == UNCHANGED <<buf, size, backlog>>

-----------------------------------------------------------------------------
(***************************************************************************)
(* akl_parse_token.                                                        *)
(***************************************************************************)
HasText == tok \in {"ATOM", "NUMBER", "STRING"}

Leaf(q) == IF tok \in {"EOF", "RBRACE"} THEN NoValue
           ELSE <<tok, q, IF HasText THEN buf ELSE <<>>>>

\* (faulty variant: after akl_lex_free no new buffer is made)
BufferGone ==
  /\ buf' = IF HasText \/ tok = "EOF" THEN <<>> ELSE buf
  /\ size' = IF tok = "EOF" THEN 0 ELSE size
  /\ UNCHANGED backlog

\* akl_lex_get_* leave an empty buffer, akl_lex_free none: the next call makes one
Buffer ==
  /\ buf' = IF HasText \/ tok = "EOF" THEN <<>> ELSE buf
  /\ size' = IF tok = "EOF" THEN StartSize ELSE size
  /\ UNCHANGED backlog

\* v goes to the list that is open, or to the compiler: akl_compile reads on
\* until the token of a form was the end, lambda has its body now
Deliver(open, v) ==
  /\ lists' = IF open = <<>> THEN open
              ELSE [open EXCEPT ![Len(open)].items = Append(@, v)]
  /\ out' = IF open = <<>> THEN Append(out, v) ELSE out
  /\ at' = IF open = <<>> THEN "next" ELSE "item"
  /\ IF open = <<>> /\ (source.job = "lambda" \/ (at = "quoted" /\ tok = "EOF"))
     THEN status' = "end" /\ UNCHANGED lex
     ELSE UNCHANGED status /\ Again

\* after a quote another one makes no value, and NULL is used
Parse(q) ==
  /\ IF tok = "LBRACE"
     THEN /\ lists' = Append(lists, [quoted |-> q, items |-> <<>>])
          /\ at' = "item" /\ Again /\ Stays
          /\ UNCHANGED <<out, status>>
     ELSE IF tok = "QUOTE"
     THEN status' = "crash" /\ Stays /\ UNCHANGED <<lex, lists, out, at>>
     ELSE Deliver(lists, Leaf(q)) /\ Buffer
  /\ UNCHANGED <<in, tok, source, params>>

Awaits(where) ==
  /\ at' = where /\ Again /\ Stays
  /\ UNCHANGED <<in, tok, status, source, lists, out, params>>

-----------------------------------------------------------------------------
(***************************************************************************)
(* akl_parse_list and akl_parse_value.                                     *)
(***************************************************************************)
ItemQuote == Waits("item") /\ tok = "QUOTE" /\ Awaits("quotedItem")

\* parse_value gave NULL: the list is a value of the one around it
Ends == tok \in {"RBRACE", "EOF"}

Item ==
  /\ \/ Waits("item") /\ tok # "QUOTE" /\ ~Ends
     \/ Waits("quotedItem") /\ ~Ends
  /\ Parse(at = "quotedItem")

EndOfList ==
  /\ Waits("item") \/ Waits("quotedItem")
  /\ Ends
  /\ LET l == Last(lists)
     IN  Deliver(Front(lists), <<"LIST", l.quoted, l.items>>)
  /\ Buffer
  /\ UNCHANGED <<in, tok, source, params>>

-----------------------------------------------------------------------------
(***************************************************************************)
(* akl_compile_next.                                                       *)
(***************************************************************************)
FormQuote == Waits("next") /\ tok = "QUOTE" /\ Awaits("quoted")

\* the end of the text, or a list that is called
NoForm ==
  /\ Waits("next") /\ tok \in {"EOF", "LBRACE"}
  /\ status' = "end"
  /\ out' = IF tok = "EOF" THEN out ELSE Append(out, <<"CALL", FALSE, <<>>>>)
  /\ UNCHANGED <<in, lex, buf, size, backlog, tok, source, at, lists, params>>

Form ==
  /\ \/ Waits("next") /\ tok \notin {"QUOTE", "EOF", "LBRACE"}
     \/ Waits("quoted")
  /\ Parse(at = "quoted")

-----------------------------------------------------------------------------
(***************************************************************************)
(* akl_parse_params and the docstring of lambda.                           *)
(***************************************************************************)
\* (faulty variant: grows when the place behind the last is written)
NeedAfter(v) == Len(v.items) > v.size

\* akl_vector_is_grow_need
GrowNeed(v) == Len(v.items) + 1 >= v.size

\* akl_vector_push
Pushed(v, x) ==
  LET n == IF GrowNeed(v) THEN v.size + (v.size \div 2) ELSE v.size
  IN  [items |-> Append(v.items, x), size |-> n,
       outside |-> v.outside \/ Len(v.items) >= n]

ParamsBegin ==
  /\ Waits("params")
  /\ IF tok = "LBRACE"
     THEN params' = [params EXCEPT !.size = DefArgc] /\ at' = "args"
     ELSE UNCHANGED params /\ at' = "doc"
  /\ Again /\ Stays
  /\ UNCHANGED <<in, tok, status, source, lists, out>>

Param ==
  /\ Waits("args") /\ tok = "ATOM"
  /\ params' = Pushed(params, buf)
  /\ Again /\ Buffer
  /\ UNCHANGED <<in, tok, status, source, at, lists, out>>

\* whatever else stands there is skipped, the end of the text too
NoParam == Waits("args") /\ tok \notin {"ATOM", "RBRACE"} /\ Awaits("args")
ParamsEnd == Waits("args") /\ tok = "RBRACE" /\ Awaits("doc")

\* (faulty variant: the token is not put back)
TokenLost == UNCHANGED backlog

\* akl_lex_putback
PutBack == backlog' = tok

NoDocstring ==
  /\ Waits("doc") /\ tok # "STRING"
  /\ PutBack
  /\ at' = "next" /\ Again
  /\ UNCHANGED <<in, buf, size, tok, status, source, lists, out, params>>

Docstring ==
  /\ Waits("doc") /\ tok = "STRING"
  /\ Buffer
  /\ at' = "eaten" /\ Again
  /\ UNCHANGED <<in, tok, status, source, lists, out, params>>

\* the token after the docstring is read and dropped
Eaten == Waits("eaten") /\ Awaits("next")

-----------------------------------------------------------------------------
Reading ==
  \/ ItemQuote \/ Item \/ EndOfList
  \/ FormQuote \/ NoForm \/ Form
  \/ ParamsBegin \/ Param \/ NoParam \/ ParamsEnd
  \/ NoDocstring \/ Docstring \/ Eaten

Init ==
  /\ source \in Sources
  /\ in = [text |-> source.text, file |-> source.file, pos |-> 1, eof |-> FALSE,
           line |-> 1]
  /\ lex = [at |-> "call", op |-> "none", i |-> 0]
  /\ buf = <<>> /\ size = StartSize /\ backlog = "EOF"
  /\ tok = "EOF" /\ status = "run"
  /\ at = IF source.job = "lambda" THEN "params" ELSE "next"
  /\ lists = <<>> /\ out = <<>>
  /\ params = [items |-> <<>>, size |-> 0, outside |-> FALSE]

Next == Reading \/ (Lexing /\ UNCHANGED <<source, at, lists, out, params>>)

Spec == Init /\ [][Next]_vars /\ WF_vars(Next)

-----------------------------------------------------------------------------
(***************************************************************************)
(* Properties that need not know what the text means.                      *)
(***************************************************************************)
\* Type invariant of the device, the lexer and the parser: the reader is at most
\* one character behind the NUL of a text, and the buffer has grown no further
\* than a token as long as the whole text makes it.
TypeOK ==
  /\ in.pos \in 1 .. Len(in.text) + 2 /\ in.line \in 1 .. Len(in.text) + 1
  /\ lex.i \in 0 .. Len(in.text) + 1
  /\ size >= StartSize /\ (size = StartSize \/ 2 * size <= 3 * (Len(in.text) + 1))
  /\ status \in {"run", "end", "behind", "crash"}

\* The buffer of the lexer always has room for its text and a NUL, also when
\* a token grows it more than once.
BufferHolds == Len(buf) < size

\* The vector of the parameters is grown before it is written behind its end.
ParamsInside == ~params.outside
=============================================================================
