------------------------------ MODULE AklLexer ------------------------------
(***************************************************************************)
(* The lexical analyzer (src/src/lexer.c): one step per character.         *)
(*                                                                         *)
(* Characters are strings: "nl" the newline, "dq" and "bs" double quote    *)
(* and backslash, "nul" what is behind the text of a string device, "eof"  *)
(* what fgetc gives at the end of a file.  Of the letters that may stand   *)
(* in a number only "e" is here; upper case is left out, since copy_atom   *)
(* makes it lower.  What an atom or a number means is data: tokens carry   *)
(* their characters.                                                       *)
(***************************************************************************)
EXTENDS Integers, Sequences, SequencesExt

CONSTANT StartSize       \* DEF_BUFFER_SIZE (50 in the code)

ASSUME BufferAssumption == StartSize \in Nat /\ StartSize >= 3

VARIABLES
  in,            \* the io device: its text, file or string, the position of
                 \* the next character and where its line began (what
                 \* iod_char_count counts from), and what feof gives
  lex,           \* akl_lex: where it is, the pending sign, the index of put_buffer
  buf,           \* iod_buffer, up to its NUL
  size,          \* iod_buffer_size
  backlog,       \* iod_backlog
  tok,           \* the token given last
  status         \* "run", "end", or why the process went wrong: "behind" (a
                 \* read behind the text), "crash" (a NULL pointer)

lexVars == <<in, lex, buf, size, backlog, tok>>

Signs  == {"+", "-"}
Breaks == {" ", "(", ")", "nl"}          \* where copy_atom stops
Blank  == {" ", "nl"}

-----------------------------------------------------------------------------
(***************************************************************************)
(* The io device.                                                          *)
(***************************************************************************)
CharAt(d, p) == IF p <= Len(d.text) THEN d.text[p]
                ELSE IF d.file THEN "eof" ELSE "nul"

\* akl_io_getc: the character read, and the device after it
Ch == CharAt(in, in.pos)
Got(d) ==
  LET end == d.file /\ d.pos > Len(d.text)
  IN  [d EXCEPT !.eof = @ \/ end, !.pos = IF end THEN @ ELSE @ + 1]

\* akl_io_ungetc: on a file the character given is what is read next, on a
\* string the one that was there
Ungot(d, ch) ==
  IF ch = "eof" THEN d
  ELSE [d EXCEPT !.pos = @ - 1, !.eof = FALSE,
                 !.text = IF d.file THEN [@ EXCEPT ![d.pos - 1] = ch] ELSE @]

\* (faulty variant: the end of a string is not seen ahead)
AtFileEof(d) == d.file /\ d.eof

\* akl_io_eof
AtEof(d) == IF d.file THEN d.eof ELSE d.pos = Len(d.text) + 1

\* the next character of a string device is behind its NUL
Behind(d) == ~d.file /\ d.pos > Len(d.text) + 1

-----------------------------------------------------------------------------
(***************************************************************************)
(* The buffer.                                                             *)
(***************************************************************************)
\* (faulty variant: no room is kept for the NUL)
GrownLate(n, pos) == IF pos >= n THEN n + (n \div 2) ELSE n

\* what put_buffer at pos makes of the size n
Grown(n, pos) == IF pos + 1 >= n THEN n + (n \div 2) ELSE n

Goto(at) == lex' = [lex EXCEPT !.at = at, !.i = 0]

\* akl_lex returns t
Give(t) ==
  /\ tok' = t
  /\ lex' = [at |-> "given", op |-> "none", i |-> 0]

Keep == UNCHANGED <<buf, size>>

\* akl_lex after copy_atom: the name T is a token of its own
Token(kind, b) == IF kind = "ATOM" /\ b = <<"t">> THEN "TRUE" ELSE kind

\* put_buffer of each of cs and the test of akl_io_eof, which ends the copy
Put(cs, kind, d) ==
  LET b == SubSeq(buf, 1, lex.i) \o cs
  IN  /\ in' = d
      /\ buf' = b
      /\ size' = Grown(Grown(size, lex.i), Len(b) - 1)
      /\ IF AtEof(d) THEN Give(Token(kind, b))
         ELSE lex' = [lex EXCEPT !.i = Len(b)] /\ UNCHANGED tok

-----------------------------------------------------------------------------
(***************************************************************************)
(* akl_lex.                                                                *)
(***************************************************************************)
At(where) == status = "run" /\ lex.at = where

\* the token that was put back
PutBackGiven ==
  /\ At("call") /\ backlog # "EOF"
  /\ Give(backlog)
  /\ backlog' = "EOF"
  /\ Keep /\ UNCHANGED <<in, status>>

Start ==
  /\ At("call") /\ backlog = "EOF"
  /\ Goto("loop")
  /\ Keep /\ UNCHANGED <<in, backlog, tok, status>>

\* a step that reads one character of the device
Reads(where) ==
  /\ At(where) /\ ~Behind(in)
  /\ UNCHANGED <<backlog, status>>

ReadBehind ==
  /\ status = "run" /\ lex.at \notin {"call", "given"} /\ Behind(in)
  /\ status' = "behind"
  /\ UNCHANGED lexVars

NewLine == [Got(in) EXCEPT !.line = in.pos + 1]

Shebang ==
  /\ Reads("loop") /\ Ch = "#" /\ in.pos = in.line
  /\ in' = Got(in) /\ Goto("shebang")
  /\ Keep /\ UNCHANGED tok

InShebang ==
  /\ Reads("shebang")
  /\ in' = IF Ch = "nl" THEN NewLine ELSE Got(in)
  /\ IF Ch = "nl" \/ Ch = "nul" THEN Goto("loop") ELSE Goto("shebang")
  /\ Keep /\ UNCHANGED tok

EndOfText ==
  /\ Reads("loop") /\ Ch \in {"eof", "nul"}
  /\ in' = Got(in) /\ Give("EOF")
  /\ Keep

\* a newline does not end a sign: its test comes before that of the spaces
Newline ==
  /\ Reads("loop") /\ Ch = "nl"
  /\ in' = NewLine
  /\ Keep /\ UNCHANGED <<lex, tok>>

Sign ==
  /\ Reads("loop") /\ Ch \in Signs
  /\ in' = Got(in)
  /\ IF lex.op = "none"
     THEN lex' = [lex EXCEPT !.op = Ch] /\ Keep /\ UNCHANGED tok
     ELSE Give("ATOM") /\ buf' = <<lex.op, lex.op>> /\ UNCHANGED size

Digit ==
  /\ Reads("loop") /\ Ch = "1"
  /\ in' = Ungot(Got(in), Ch)
  /\ IF lex.op = "none" THEN Goto("number") /\ Keep
     ELSE /\ buf' = <<lex.op>>
          /\ size' = Grown(size, 0)
          /\ lex' = [lex EXCEPT !.at = "number", !.i = 1]
  /\ UNCHANGED tok

SpaceOrBrace ==
  /\ Reads("loop") /\ Ch \in {" ", ")"}
  /\ IF lex.op # "none"
     THEN /\ Give("ATOM") /\ buf' = <<lex.op>> /\ UNCHANGED size
          /\ in' = IF Ch = ")" THEN Ungot(Got(in), Ch) ELSE Got(in)
     ELSE /\ in' = Got(in) /\ Keep
          /\ IF Ch = ")" THEN Give("RBRACE") ELSE UNCHANGED <<lex, tok>>

\* two characters are read, the second is put back unless it makes a NIL
Opening(c, close) ==
  LET one == Got(in)
      ch2 == CharAt(one, one.pos)
  IN  /\ Reads("loop") /\ Ch = c
      /\ in' = IF ch2 = close THEN Got(one) ELSE Ungot(Got(one), ch2)
      /\ Keep

Quotes ==
  /\ Opening("dq", "dq")
  /\ IF CharAt(in, in.pos + 1) = "dq" THEN Give("NIL")
     ELSE Goto("string") /\ UNCHANGED tok

Brace ==
  /\ Opening("(", ")")
  /\ Give(IF CharAt(in, in.pos + 1) = ")" THEN "NIL" ELSE "LBRACE")

Quote ==
  /\ Reads("loop") /\ Ch = "quote"
  /\ in' = Got(in) /\ Give("QUOTE")
  /\ Keep

\* (faulty variant: nobody looks for the end of the text in a comment)
CommentNeverEnds(d) == FALSE

CommentEnds(d) == AtEof(d)

Comment ==
  /\ Reads("loop") /\ Ch = ";"
  /\ in' = Got(in) /\ lex' = [lex EXCEPT !.at = "comment"]
  /\ Keep /\ UNCHANGED tok

\* the newline of a comment is not counted
InComment ==
  /\ Reads("comment")
  /\ in' = Got(in)
  /\ Keep
  /\ IF Ch = "nl" THEN lex' = [lex EXCEPT !.at = "loop"] /\ UNCHANGED tok
     ELSE IF CommentEnds(Got(in)) THEN Give("EOF") ELSE UNCHANGED <<lex, tok>>

\* an atom; a pending sign goes back to the device, and after it the character
Letter ==
  LET back == IF lex.op = "none" THEN Got(in) ELSE Ungot(Got(in), lex.op)
  IN  /\ Reads("loop") /\ Ch \in {"k", "m", "t", "e"}
      /\ in' = Ungot(back, Ch)
      /\ Goto("atom")
      /\ Keep /\ UNCHANGED tok

-----------------------------------------------------------------------------
(***************************************************************************)
(* copy_number, copy_string, copy_atom.                                    *)
(***************************************************************************)
Stop(t) ==
  /\ in' = IF Ch = "nul" THEN Got(in) ELSE Ungot(Got(in), Ch)
  /\ Give(t)
  /\ Keep

CopyNumber ==
  /\ Reads("number")
  /\ IF Ch \in Signs \cup {"1", "e"} THEN Put(<<Ch>>, "NUMBER", Got(in))
     ELSE Stop("NUMBER")

\* the end of a file is a character of the atom
CopyAtom ==
  /\ Reads("atom")
  /\ IF Ch \in Breaks \cup {"nul"} THEN Stop(Token("ATOM", buf))
     ELSE Put(<<Ch>>, "ATOM", Got(in))

\* (faulty variant: the backslash is left in)
EscapeKept(ch2) == <<"bs", ch2>>

Escape(ch2) == IF ch2 = "dq" THEN <<"dq">> ELSE <<"bs", ch2>>

CopyString ==
  LET one == Got(in)
  IN  /\ Reads("string")
      /\ IF Ch \in {"dq", "nul"} THEN in' = one /\ Give("STRING") /\ Keep
         ELSE IF Ch = "bs" THEN Put(Escape(CharAt(one, one.pos)), "STRING", Got(one))
         ELSE Put(<<Ch>>, "STRING", one)

Lexing ==
  \/ PutBackGiven \/ Start \/ ReadBehind
  \/ Shebang \/ InShebang \/ EndOfText \/ Newline \/ Sign \/ Digit
  \/ SpaceOrBrace \/ Quotes \/ Brace \/ Quote \/ Comment \/ InComment \/ Letter
  \/ CopyNumber \/ CopyAtom \/ CopyString
=============================================================================
