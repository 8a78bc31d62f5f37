-------------------------- MODULE AklReaderProofs --------------------------
(***************************************************************************)
(* Theorems about the reader (AklLexer, AklReader), for any texts: the     *)
(* buffer of the lexer and the vector of the parameters are grown in time. *)
(***************************************************************************)
EXTENDS AklReader, SequenceTheorems, TLAPS

\* Characters; the ones that the lexer itself writes or compares with are named,
\* because the provers do not know of any string that it is in STRING.
Chars  == STRING \cup {"eof", "nul", "dq", "bs", "+", "-", "none"}
Places == {"call", "given", "loop", "shebang", "comment", "number", "string", "atom"}

Device == [text : Seq(Chars), file : BOOLEAN, pos : Nat \ {0}, eof : BOOLEAN,
           line : Nat]

\* The lexer: a pending sign was read, so it can be put back.
LexInv ==
  /\ in \in Device
  /\ lex \in [at : Places, op : Chars, i : Nat]
  /\ lex.at \in {"call", "given"} => lex.op = "none" /\ lex.i = 0
  /\ lex.at \in {"loop", "comment", "shebang"} /\ lex.op # "none" =>
       in.pos >= 2 /\ lex.op # "eof"

\* The buffer: what is kept of it was put there, and there is room for a NUL.
BufInv ==
  /\ buf \in Seq(Chars)
  /\ size \in Nat /\ size >= 3
  /\ lex.i <= Len(buf)
  /\ BufferHolds

\* The parameters: there is room for one more when one is read.  A vector of size
\* 1 would grow by nothing (akl_vector_grow adds half of the size).
ParInv ==
  /\ params \in [items : Seq(Seq(Chars)), size : Nat, outside : BOOLEAN]
  /\ at = "params" => params.items = <<>>
  /\ at = "args" => params.size >= 2 /\ Len(params.items) < params.size
  /\ ParamsInside

ReadInv == LexInv /\ BufInv /\ ParInv

-----------------------------------------------------------------------------
\* akl_io_getc and akl_io_ungetc keep the device in order.
LEMMA GotKeeps ==
  ASSUME NEW d \in Device
  PROVE  /\ CharAt(d, d.pos) \in Chars
         /\ Got(d) \in Device /\ Got(d).pos >= d.pos
         /\ CharAt(d, d.pos) # "eof" => Got(d).pos = d.pos + 1
<1>1. /\ d.text \in Seq(Chars) /\ d.pos \in Nat /\ d.pos >= 1 /\ d.file \in BOOLEAN
      /\ Len(d.text) \in Nat
  BY DEF Device
<1>2. CharAt(d, d.pos) \in Chars
  <2>1. CASE d.pos <= Len(d.text)
    <3>1. d.text[d.pos] \in Chars
      BY <1>1, <2>1, ElementOfSeq
    <3>2. QED BY <2>1, <3>1 DEF CharAt
  <2>2. CASE ~(d.pos <= Len(d.text))
    <3>1. "eof" \in Chars /\ "nul" \in Chars
      BY DEF Chars
    <3>2. CharAt(d, d.pos) = IF d.file THEN "eof" ELSE "nul"
      BY <2>2 DEF CharAt
    <3>3. QED BY <3>1, <3>2
  <2>3. QED BY <2>1, <2>2
<1>3. Got(d) \in Device /\ Got(d).pos >= d.pos
  <2> DEFINE end == d.file /\ d.pos > Len(d.text)
             e == d.eof \/ end
             p == IF end THEN d.pos ELSE d.pos + 1
  <2>1. Got(d) = [d EXCEPT !.eof = e, !.pos = p]
    BY DEF Got, Device
  <2>2. e \in BOOLEAN
    BY DEF Device
  <2>3. p \in Nat \ {0} /\ p >= d.pos
    BY <1>1
  <2> HIDE DEF e, p
  <2>4. QED BY <2>1, <2>2, <2>3 DEF Device
<1>4. ASSUME CharAt(d, d.pos) # "eof"
      PROVE  Got(d).pos = d.pos + 1
  <2>1. ~(d.file /\ d.pos > Len(d.text))
    BY <1>1, <1>4 DEF CharAt
  <2>2. QED BY <1>1, <2>1 DEF Got, Device
<1>5. QED BY <1>2, <1>3, <1>4

LEMMA UngotKeeps ==
  ASSUME NEW d \in Device, NEW ch \in Chars, ch = "eof" \/ d.pos >= 2
  PROVE  /\ Ungot(d, ch) \in Device
         /\ ch # "eof" => Ungot(d, ch).pos = d.pos - 1
<1>1. CASE ch = "eof"
  BY <1>1 DEF Ungot
<1>2. CASE ch # "eof"
  <2> DEFINE t == IF d.file THEN [d.text EXCEPT ![d.pos - 1] = ch] ELSE d.text
  <2>1. /\ d.text \in Seq(Chars) /\ d.pos \in Nat /\ d.pos - 1 \in Nat \ {0}
        /\ Len(d.text) \in Nat /\ DOMAIN d.text = 1 .. Len(d.text)
    BY <1>2, LenProperties DEF Device
  <2>2. t \in Seq(Chars)
    <3>1. CASE d.pos - 1 \in 1 .. Len(d.text)
      BY <2>1, <3>1, ExceptSeq
    <3>2. CASE d.pos - 1 \notin 1 .. Len(d.text)
      <4>1. [d.text EXCEPT ![d.pos - 1] = ch] = d.text
        BY <2>1, <3>2
      <4>2. QED BY <2>1, <4>1
    <3>3. QED BY <3>1, <3>2
  <2>3. Ungot(d, ch) = [d EXCEPT !.pos = @ - 1, !.eof = FALSE, !.text = t]
    BY <1>2 DEF Ungot, Device
  <2> HIDE DEF t
  <2>4. QED BY <2>1, <2>2, <2>3 DEF Device
<1>3. QED BY <1>1, <1>2

\* A character that is read and put back leaves the device where it was.
LEMMA GotUngot ==
  ASSUME NEW d \in Device
  PROVE  Ungot(Got(d), CharAt(d, d.pos)) \in Device
<1> DEFINE c == CharAt(d, d.pos)
<1>1. c \in Chars /\ Got(d) \in Device /\ (c # "eof" => Got(d).pos = d.pos + 1)
  BY GotKeeps
<1>2. d.pos \in Nat /\ d.pos >= 1
  BY DEF Device
<1> HIDE DEF c
<1>3. c = "eof" \/ Got(d).pos >= 2
  BY <1>1, <1>2
<1>4. Ungot(Got(d), c) \in Device
  BY <1>1, <1>3, UngotKeeps
<1>5. QED BY <1>4 DEF c

-----------------------------------------------------------------------------
\* put_buffer grows the buffer before it is full.
LEMMA GrownHolds ==
  ASSUME NEW n \in Nat, n >= 3, NEW p \in Nat, p < n
  PROVE  /\ Grown(n, p) \in Nat /\ Grown(n, p) >= n /\ p + 1 < Grown(n, p)
BY DEF Grown

\* copy_number, copy_string and copy_atom put one or two characters.
LEMMA PutKeeps ==
  ASSUME BufInv, lex.i \in Nat, NEW cs \in Seq(Chars), Len(cs) \in {1, 2},
         NEW kind, NEW d, Put(cs, kind, d)
  PROVE  /\ buf' \in Seq(Chars) /\ size' \in Nat /\ size' >= 3
         /\ Len(buf') < size' /\ lex.i + Len(cs) = Len(buf')
<1> DEFINE b == SubSeq(buf, 1, lex.i) \o cs
           s == Grown(size, lex.i)
<1>1. buf' = b /\ size' = Grown(s, Len(b) - 1)
  BY DEF Put
<1>2. /\ buf \in Seq(Chars) /\ lex.i <= Len(buf) /\ Len(buf) < size
      /\ size \in Nat /\ size >= 3 /\ Len(buf) \in Nat
  BY DEF BufInv, BufferHolds
<1>3. SubSeq(buf, 1, lex.i) \in Seq(Chars) /\ Len(SubSeq(buf, 1, lex.i)) = lex.i
  BY <1>2
<1>4. b \in Seq(Chars) /\ Len(b) = lex.i + Len(cs)
  BY <1>3, ConcatProperties
<1>5. s \in Nat /\ s >= size /\ lex.i + 1 < s
  <2>1. lex.i \in Nat /\ lex.i < size
    BY <1>2
  <2>2. QED BY <1>2, <2>1, GrownHolds
<1> HIDE DEF b, s
<1>6. Len(b) - 1 \in Nat /\ Len(b) - 1 < s /\ s >= 3
  <2>1. Len(cs) = 1 \/ Len(cs) = 2
    OBVIOUS
  <2>2. Len(b) = lex.i + 1 \/ Len(b) = lex.i + 2
    BY <1>4, <2>1
  <2>3. lex.i \in Nat
    OBVIOUS
  <2>4. QED BY <1>2, <1>5, <2>2, <2>3
<1>7. /\ Grown(s, Len(b) - 1) \in Nat /\ Grown(s, Len(b) - 1) >= s
      /\ Len(b) < Grown(s, Len(b) - 1)
  <2> DEFINE p == Len(b) - 1
  <2>1. p \in Nat /\ p < s /\ s \in Nat /\ s >= 3 /\ Len(b) = p + 1
    BY <1>4, <1>5, <1>6
  <2> HIDE DEF p
  <2>2. Grown(s, p) \in Nat /\ Grown(s, p) >= s /\ p + 1 < Grown(s, p)
    BY <2>1, GrownHolds
  <2>3. QED BY <2>1, <2>2 DEF p
<1>8. QED BY <1>1, <1>2, <1>4, <1>5, <1>7

-----------------------------------------------------------------------------
Walking == {"loop", "comment", "shebang"}
Lex     == [at : Places, op : Chars, i : Nat]

\* What the steps of akl_lex do with where it is.
LEMMA Given ==
  ASSUME in' \in Device, NEW t, Give(t)
  PROVE  LexInv' /\ lex'.i = 0
<1>1. lex' = [at |-> "given", op |-> "none", i |-> 0]
  BY DEF Give
<1>2. lex' \in [at : Places, op : Chars, i : Nat] /\ lex'.at = "given" /\ lex'.op = "none"
      /\ lex'.i = 0
  BY <1>1 DEF Places, Chars
<1>3. QED BY <1>2 DEF LexInv

LEMMA WalkedOn ==
  ASSUME LexInv, lex.at \in Walking, in' \in Device, in'.pos >= in.pos,
         lex' \in Lex, lex'.at \in Walking, lex'.op = lex.op
  PROVE  LexInv'
<1>1. in.pos \in Nat /\ in'.pos \in Nat
  BY DEF LexInv, Device
<1>2. lex.op # "none" => in.pos >= 2 /\ lex.op # "eof"
  BY DEF LexInv, Walking
<1>3. lex.op # "none" => in'.pos >= 2 /\ lex.op # "eof"
  BY <1>1, <1>2
<1>4. ~(lex'.at \in {"call", "given"})
  BY DEF Walking
<1>5. QED BY <1>3, <1>4 DEF LexInv, Lex

LEMMA Copies ==
  ASSUME in' \in Device, lex' \in Lex, lex'.at \in {"number", "string", "atom"}
  PROVE  LexInv'
BY DEF LexInv, Lex

LEMMA GotoTypes ==
  ASSUME LexInv, NEW p \in Places, Goto(p)
  PROVE  lex' \in Lex /\ lex'.at = p /\ lex'.op = lex.op /\ lex'.i = 0
BY DEF LexInv, Goto, Lex

LEMMA BufKept ==
  ASSUME BufInv, Keep, lex'.i = 0 \/ lex'.i = lex.i
  PROVE  BufInv'
<1>1. Len(buf) \in Nat /\ buf' = buf /\ size' = size
  BY DEF BufInv, Keep
<1>2. QED BY <1>1 DEF BufInv, BufferHolds

\* One put, and the token if the text is at its end.
LEMMA PutBoth ==
  ASSUME LexInv, BufInv, lex.at \in {"number", "string", "atom"}, NEW d \in Device,
         NEW cs \in Seq(Chars), Len(cs) \in {1, 2}, NEW kind, Put(cs, kind, d)
  PROVE  LexInv' /\ BufInv'
<1>1. lex \in Lex /\ lex.i \in Nat /\ in' = d
  BY DEF LexInv, Put, Lex
<1>2. /\ buf' \in Seq(Chars) /\ size' \in Nat /\ size' >= 3
      /\ Len(buf') < size' /\ Len(buf') \in Nat
  BY <1>1, PutKeeps
<1>3. LexInv' /\ (lex'.i = 0 \/ lex'.i = Len(buf'))
  <2>1. CASE AtEof(d)
    <3>1. PICK t : Give(t)
      BY <2>1 DEF Put
    <3>2. QED BY <1>1, <3>1, Given
  <2>2. CASE ~AtEof(d)
    <3>1. lex' = [lex EXCEPT !.i = Len(buf')]
      BY <2>2 DEF Put
    <3>2. lex' \in Lex /\ lex'.at = lex.at /\ lex'.i = Len(buf')
      BY <1>1, <1>2, <3>1 DEF Lex
    <3>3. QED BY <1>1, <3>2, Copies
  <2>3. QED BY <2>1, <2>2
<1>4. QED BY <1>2, <1>3 DEF BufInv, BufferHolds

-----------------------------------------------------------------------------
\* A character of the main loop of akl_lex.
LEMMA LoopKeeps ==
  ASSUME LexInv, BufInv,
         \/ Shebang \/ InShebang \/ EndOfText \/ Newline \/ Sign \/ Digit
         \/ SpaceOrBrace \/ Quotes \/ Brace \/ Quote \/ Comment \/ InComment \/ Letter
  PROVE  LexInv' /\ BufInv'
<1> DEFINE one == Got(in)
<1>1. /\ in \in Device /\ lex \in Lex /\ in.pos \in Nat /\ in.pos >= 1
      /\ Len(buf) \in Nat /\ size \in Nat /\ size >= 3
  BY DEF LexInv, Lex, BufInv, Device
<1>2. /\ Ch \in Chars /\ one \in Device /\ one.pos >= in.pos
      /\ Ch # "eof" => one.pos = in.pos + 1
  BY <1>1, GotKeeps DEF Ch
<1>3. Ungot(one, Ch) \in Device
  BY <1>1, GotUngot DEF Ch
<1>4. NewLine \in Device /\ NewLine.pos >= in.pos
  <2>1. NewLine = [one EXCEPT !.line = in.pos + 1]
    BY DEF NewLine
  <2>2. in.pos + 1 \in Nat
    BY <1>1
  <2> HIDE DEF one
  <2>3. QED BY <1>2, <2>1, <2>2 DEF Device
<1>5. CharAt(one, one.pos) \in Chars /\ Got(one) \in Device
      /\ Ungot(Got(one), CharAt(one, one.pos)) \in Device
  BY <1>2, GotKeeps, GotUngot
<1> HIDE DEF one
<1>6. /\ "loop" \in Walking /\ "comment" \in Walking /\ "shebang" \in Walking
      /\ "loop" \in Places /\ "comment" \in Places /\ "shebang" \in Places
      /\ "number" \in Places /\ "string" \in Places /\ "atom" \in Places
  BY DEF Walking, Places
<1>7. CASE Shebang \/ InShebang
  <2>1. /\ in' = one \/ in' = NewLine
        /\ Goto("loop") \/ Goto("shebang")
        /\ Keep /\ lex.at \in Walking
    BY <1>6, <1>7 DEF Shebang, InShebang, Reads, At, one
  <2>2. lex' \in Lex /\ lex'.at \in Walking /\ lex'.op = lex.op /\ lex'.i = 0
    BY <1>6, <2>1, GotoTypes
  <2>3. QED BY <1>2, <1>4, <2>1, <2>2, WalkedOn, BufKept
<1>8. CASE EndOfText \/ Quote
  <2>1. (Give("EOF") \/ Give("QUOTE")) /\ in' = one /\ Keep
    BY <1>8 DEF EndOfText, Quote, one
  <2>2. QED BY <1>2, <2>1, Given, BufKept
<1>9. CASE Newline
  <2>1. in' = NewLine /\ Keep /\ lex' = lex /\ lex.at \in Walking
    BY <1>6, <1>9 DEF Newline, Reads, At
  <2>2. QED BY <1>1, <1>4, <2>1, WalkedOn, BufKept
<1>10. CASE Sign
  <2>1. in' = one /\ lex.at = "loop" /\ Ch \in Signs /\ Ch # "eof"
    BY <1>10 DEF Sign, Reads, At, one, Signs
  <2>2. CASE lex.op = "none"
    <3>1. lex' = [lex EXCEPT !.op = Ch] /\ Keep
      BY <1>10, <2>2 DEF Sign
    <3>2. lex' \in Lex /\ lex'.at = "loop" /\ lex'.op = Ch /\ lex'.i = lex.i
      BY <1>1, <1>2, <2>1, <3>1 DEF Lex
    <3>3. in'.pos >= 2
      BY <1>1, <1>2, <2>1
    <3>4. LexInv'
      BY <1>2, <2>1, <3>2, <3>3 DEF LexInv, Lex
    <3>5. QED BY <3>1, <3>2, <3>4, BufKept
  <2>3. CASE lex.op # "none"
    <3>1. Give("ATOM") /\ buf' = <<lex.op, lex.op>> /\ size' = size
      BY <1>10, <2>3 DEF Sign
    <3>2. LexInv' /\ lex'.i = 0
      BY <1>2, <2>1, <3>1, Given
    <3>3. buf' \in Seq(Chars) /\ Len(buf') = 2
      BY <1>1, <3>1 DEF Lex
    <3>4. QED BY <1>1, <3>1, <3>2, <3>3 DEF BufInv, BufferHolds
  <2>4. QED BY <2>2, <2>3
<1>11. CASE Digit
  <2>1. in' = Ungot(one, Ch)
    BY <1>11 DEF Digit, one
  <2>2. CASE lex.op = "none"
    <3>1. Goto("number") /\ Keep
      BY <1>11, <2>2 DEF Digit
    <3>2. QED BY <1>3, <1>6, <2>1, <3>1, GotoTypes, Copies, BufKept
  <2>3. CASE lex.op # "none"
    <3>1. /\ buf' = <<lex.op>> /\ size' = Grown(size, 0)
          /\ lex' = [lex EXCEPT !.at = "number", !.i = 1]
      BY <1>11, <2>3 DEF Digit
    <3>2. lex' \in Lex /\ lex'.at = "number" /\ lex'.i = 1
      BY <1>1, <1>6, <3>1 DEF Lex
    <3>3. LexInv'
      BY <1>3, <2>1, <3>2, Copies
    <3>4. buf' \in Seq(Chars) /\ Len(buf') = 1
      BY <1>1, <3>1 DEF Lex
    <3>5. size' \in Nat /\ size' >= size
      BY <1>1, <3>1, GrownHolds
    <3>6. QED BY <1>1, <3>2, <3>3, <3>4, <3>5 DEF BufInv, BufferHolds
  <2>4. QED BY <2>2, <2>3
<1>12. CASE SpaceOrBrace
  <2>1. in' \in Device /\ in'.pos \in Nat /\ lex.at = "loop"
    <3>1. in' = Ungot(one, Ch) \/ in' = one
      BY <1>12 DEF SpaceOrBrace, one
    <3>2. QED BY <1>2, <1>3, <1>12, <3>1 DEF SpaceOrBrace, Reads, At, Device
  <2>2. CASE lex.op # "none"
    <3>1. Give("ATOM") /\ buf' = <<lex.op>> /\ size' = size
      BY <1>12, <2>2 DEF SpaceOrBrace
    <3>2. LexInv' /\ lex'.i = 0
      BY <2>1, <3>1, Given
    <3>3. buf' \in Seq(Chars) /\ Len(buf') = 1
      BY <1>1, <3>1 DEF Lex
    <3>4. QED BY <1>1, <3>1, <3>2, <3>3 DEF BufInv, BufferHolds
  <2>3. CASE lex.op = "none"
    <3>1. in' = one /\ Keep /\ (Give("RBRACE") \/ lex' = lex)
      BY <1>12, <2>3 DEF SpaceOrBrace, one
    <3>2. CASE Give("RBRACE")
      BY <2>1, <3>1, <3>2, Given, BufKept
    <3>3. CASE lex' = lex
      BY <1>1, <1>2, <1>6, <2>1, <3>1, <3>3, WalkedOn, BufKept
    <3>4. QED BY <3>1, <3>2, <3>3
  <2>4. QED BY <2>2, <2>3
<1>13. CASE Quotes \/ Brace
  <2>1. in' \in Device /\ Keep
    <3>1. /\ Keep
          /\ in' = Got(one) \/ in' = Ungot(Got(one), CharAt(one, one.pos))
      BY <1>13 DEF Quotes, Brace, Opening, one
    <3>2. QED BY <1>5, <3>1
  <2>2. (\E t : Give(t)) \/ Goto("string")
    BY <1>13 DEF Quotes, Brace
  <2>3. CASE \E t : Give(t)
    BY <2>1, <2>3, Given, BufKept
  <2>4. CASE Goto("string")
    BY <1>6, <2>1, <2>4, GotoTypes, Copies, BufKept
  <2>5. QED BY <2>2, <2>3, <2>4
<1>14. CASE Comment \/ InComment
  <2>1. in' = one /\ Keep /\ lex.at \in Walking
    BY <1>6, <1>14 DEF Comment, InComment, Reads, At, one
  <2>2. \/ lex' = [lex EXCEPT !.at = "comment"]
        \/ lex' = [lex EXCEPT !.at = "loop"]
        \/ lex' = lex \/ Give("EOF")
    BY <1>14 DEF Comment, InComment
  <2>3. CASE Give("EOF")
    BY <1>2, <2>1, <2>3, Given, BufKept
  <2>4. CASE ~Give("EOF")
    <3>1. lex' \in Lex /\ lex'.at \in Walking /\ lex'.op = lex.op /\ lex'.i = lex.i
      BY <1>1, <1>6, <2>1, <2>2, <2>4 DEF Lex
    <3>2. QED BY <1>2, <2>1, <3>1, WalkedOn, BufKept
  <2>5. QED BY <2>3, <2>4
<1>15. CASE Letter
  <2>1. /\ lex.at = "loop" /\ Ch # "eof" /\ Goto("atom") /\ Keep
        /\ in' = Ungot(IF lex.op = "none" THEN one ELSE Ungot(one, lex.op), Ch)
    BY <1>15 DEF Letter, Reads, At, one
  <2>2. CASE lex.op = "none"
    BY <1>3, <1>6, <2>1, <2>2, GotoTypes, Copies, BufKept
  <2>3. CASE lex.op # "none"
    <3>1. in.pos >= 2 /\ lex.op # "eof" /\ lex.op \in Chars
      BY <1>1, <2>1, <2>3 DEF LexInv, Lex
    <3>2. one.pos = in.pos + 1 /\ one.pos >= 2
      BY <1>1, <1>2, <2>1
    <3>3. Ungot(one, lex.op) \in Device /\ Ungot(one, lex.op).pos = one.pos - 1
      BY <1>2, <3>1, <3>2, UngotKeeps
    <3>4. Ungot(one, lex.op).pos >= 2
      BY <1>1, <3>1, <3>2, <3>3
    <3>5. in' \in Device
      BY <1>2, <2>1, <2>3, <3>3, <3>4, UngotKeeps
    <3>6. QED BY <1>6, <2>1, <3>5, GotoTypes, Copies, BufKept
  <2>4. QED BY <2>2, <2>3
<1>16. QED BY <1>7, <1>8, <1>9, <1>10, <1>11, <1>12, <1>13, <1>14, <1>15

\* copy_number, copy_string and copy_atom.
LEMMA CopyKeeps ==
  ASSUME LexInv, BufInv, CopyNumber \/ CopyAtom \/ CopyString
  PROVE  LexInv' /\ BufInv'
<1> DEFINE one == Got(in)
           ch2 == CharAt(one, one.pos)
<1>1. /\ in \in Device /\ Ch \in Chars /\ one \in Device
      /\ Ungot(one, Ch) \in Device /\ ch2 \in Chars /\ Got(one) \in Device
  BY GotKeeps, GotUngot DEF LexInv, Ch
<1>2. /\ <<Ch>> \in Seq(Chars) /\ Len(<<Ch>>) \in {1, 2}
      /\ Escape(ch2) \in Seq(Chars) /\ Len(Escape(ch2)) \in {1, 2}
  <2> HIDE DEF ch2
  <2>1. "dq" \in Chars /\ "bs" \in Chars
    BY DEF Chars
  <2>2. <<Ch>> \in Seq(Chars) /\ Len(<<Ch>>) = 1
    BY <1>1
  <2>3. Escape(ch2) = <<"dq">> \/ Escape(ch2) = <<"bs", ch2>>
    BY DEF Escape
  <2>4. <<"dq">> \in Seq(Chars) /\ Len(<<"dq">>) = 1
    BY <2>1
  <2>5. <<"bs", ch2>> \in Seq(Chars) /\ Len(<<"bs", ch2>>) = 2
    BY <1>1, <2>1
  <2>6. QED BY <2>2, <2>3, <2>4, <2>5
<1>3. lex.at \in {"number", "string", "atom"}
  BY DEF CopyNumber, CopyAtom, CopyString, Reads, At
<1>4. \/ \E kind : \/ Put(<<Ch>>, kind, one)
                   \/ Put(Escape(ch2), kind, Got(one))
      \/ /\ \E t : Give(t)
         /\ Keep
         /\ in' = one \/ in' = Ungot(one, Ch)
  BY DEF CopyNumber, CopyAtom, CopyString, Stop
<1> HIDE DEF one, ch2
<1>5. CASE \E kind : Put(<<Ch>>, kind, one) \/ Put(Escape(ch2), kind, Got(one))
  BY <1>1, <1>2, <1>3, <1>5, PutBoth
<1>6. CASE (\E t : Give(t)) /\ Keep /\ (in' = one \/ in' = Ungot(one, Ch))
  BY <1>1, <1>6, Given, BufKept
<1>7. QED BY <1>4, <1>5, <1>6

LEMMA LexingKeeps ==
  ASSUME LexInv, BufInv, Lexing
  PROVE  LexInv' /\ BufInv'
<1>1. CASE PutBackGiven
  <2>1. Give(backlog) /\ Keep /\ in' = in /\ in \in Device
    BY <1>1 DEF PutBackGiven, LexInv
  <2>2. QED BY <2>1, Given, BufKept
<1>2. CASE Start
  <2>1. Goto("loop") /\ Keep /\ in' = in /\ in \in Device /\ "loop" \in Places
    BY <1>2 DEF Start, LexInv, Places
  <2>2. lex' \in Lex /\ lex'.at = "loop" /\ lex'.op = lex.op /\ lex'.i = 0
    BY <2>1, GotoTypes
  <2>3. lex.op = "none"
    BY <1>2 DEF Start, At, LexInv
  <2>4. LexInv'
    BY <2>1, <2>2, <2>3 DEF LexInv, Lex
  <2>5. QED BY <2>1, <2>2, <2>4, BufKept
<1>3. CASE ReadBehind
  BY <1>3 DEF ReadBehind, lexVars, LexInv, BufInv, BufferHolds
<1>4. CASE CopyNumber \/ CopyAtom \/ CopyString
  BY <1>4, CopyKeeps
<1>5. CASE \/ Shebang \/ InShebang \/ EndOfText \/ Newline \/ Sign \/ Digit
           \/ SpaceOrBrace \/ Quotes \/ Brace \/ Quote \/ Comment \/ InComment \/ Letter
  BY <1>5, LoopKeeps
<1>6. QED BY <1>1, <1>2, <1>3, <1>4, <1>5 DEF Lexing

-----------------------------------------------------------------------------
\* Who was given a token leaves the buffer as it is or empties it, and asks again
\* or not.
LEMMA AskedAgain ==
  ASSUME LexInv, BufInv, lex.at = "given", in' = in,
         Again \/ lex' = lex, Keep \/ Buffer
  PROVE  LexInv' /\ BufInv'
<1>1. /\ in \in Device /\ lex \in Lex /\ lex.op = "none" /\ lex.i = 0
  BY DEF LexInv, Lex
<1>2. lex' \in Lex /\ lex'.at \in {"call", "given"} /\ lex'.op = "none" /\ lex'.i = 0
  BY <1>1 DEF Again, Lex, Places
<1>3. LexInv'
  BY <1>1, <1>2 DEF LexInv, Lex
<1>4. CASE Keep
  BY <1>1, <1>2, <1>3, <1>4, BufKept
<1>5. CASE Buffer
  <2>1. /\ buf \in Seq(Chars) /\ Len(buf) < size /\ size \in Nat /\ size >= 3
        /\ Len(buf) \in Nat
    BY DEF BufInv, BufferHolds
  <2>2. \/ buf' = <<>> /\ (size' = StartSize \/ size' = size)
        \/ buf' = buf /\ size' = size
    BY <1>5 DEF Buffer
  <2>3. <<>> \in Seq(Chars) /\ Len(<<>>) = 0
    OBVIOUS
  <2>4. StartSize \in Nat /\ StartSize >= 3
    BY BufferAssumption DEF BufferAssumption
  <2>5. /\ buf' \in Seq(Chars) /\ size' \in Nat /\ size' >= 3 /\ Len(buf') < size'
        /\ Len(buf') \in Nat
    <3>1. CASE buf' = buf /\ size' = size
      BY <2>1, <3>1
    <3>2. CASE buf' = <<>> /\ size' = size
      BY <2>1, <2>3, <3>2
    <3>3. CASE buf' = <<>> /\ size' = StartSize
      BY <2>3, <2>4, <3>3
    <3>4. QED BY <2>2, <3>1, <3>2, <3>3
  <2>6. QED BY <1>2, <1>3, <2>5 DEF BufInv, BufferHolds
<1>6. QED BY <1>4, <1>5

LEMMA ReadingAsks ==
  ASSUME Reading
  PROVE  /\ lex.at = "given" /\ in' = in
         /\ Again \/ lex' = lex
         /\ Keep \/ Buffer
<1>1. ASSUME NEW q, Parse(q)
      PROVE  in' = in /\ (Again \/ lex' = lex) /\ (Keep \/ Buffer)
  BY <1>1 DEF Parse, Deliver, Stays, Keep
<1>2. CASE ItemQuote \/ FormQuote \/ NoParam \/ ParamsEnd \/ Eaten
  BY <1>2 DEF ItemQuote, FormQuote, NoParam, ParamsEnd, Eaten, Awaits, Waits, Stays, Keep
<1>3. CASE Item \/ Form
  <2>1. lex.at = "given" /\ \E q : Parse(q)
    BY <1>3 DEF Item, Form, Waits
  <2>2. QED BY <1>1, <2>1
<1>4. CASE EndOfList
  BY <1>4 DEF EndOfList, Waits, Deliver
<1>5. CASE NoForm \/ ParamsBegin \/ Param \/ Docstring
  BY <1>5 DEF NoForm, ParamsBegin, Param, Docstring, Waits, Stays, Keep
<1>6. CASE NoDocstring
  BY <1>6 DEF NoDocstring, Waits, Keep
<1>7. QED BY <1>2, <1>3, <1>4, <1>5, <1>6 DEF Reading

-----------------------------------------------------------------------------
\* akl_vector_push of a parameter, with the growth before it.
LEMMA ParamFits ==
  ASSUME ParInv, BufInv, at = "args", params' = Pushed(params, buf), at' = at
  PROVE  ParInv'
<1> DEFINE v == params.items
           n == IF GrowNeed(params) THEN params.size + (params.size \div 2)
                ELSE params.size
<1>1. /\ v \in Seq(Seq(Chars)) /\ params.size \in Nat /\ buf \in Seq(Chars)
      /\ params.size >= 2 /\ Len(v) < params.size /\ Len(v) \in Nat /\ ~params.outside
  BY DEF ParInv, BufInv, ParamsInside
<1>2. params' = [items |-> Append(v, buf), size |-> n,
                 outside |-> params.outside \/ Len(v) >= n]
  BY DEF Pushed
<1>3. n \in Nat /\ n >= params.size /\ ~(Len(v) >= n)
  BY <1>1
<1> HIDE DEF n, v
<1>4. /\ Append(v, buf) \in Seq(Seq(Chars)) /\ Len(Append(v, buf)) = Len(v) + 1
  BY <1>1, AppendProperties
<1>5. n > Len(v) + 1
  <2>1. CASE GrowNeed(params)
    <3>1. n = params.size + (params.size \div 2) /\ Len(v) + 1 >= params.size
      BY <2>1 DEF GrowNeed, n, v
    <3>2. params.size \div 2 >= 1
      BY <1>1
    <3>3. QED BY <1>1, <3>1, <3>2
  <2>2. CASE ~GrowNeed(params)
    BY <1>1, <2>2 DEF GrowNeed, n, v
  <2>3. QED BY <2>1, <2>2
<1>6. /\ params' \in [items : Seq(Seq(Chars)), size : Nat, outside : BOOLEAN]
      /\ params'.size >= 2 /\ Len(params'.items) < params'.size /\ ~params'.outside
  <2>1. (params.outside \/ Len(v) >= n) = FALSE
    BY <1>1, <1>3
  <2>2. params' = [items |-> Append(v, buf), size |-> n, outside |-> FALSE]
    BY <1>2, <2>1
  <2>3. QED BY <1>1, <1>3, <1>4, <1>5, <2>2
<1>7. QED BY <1>6 DEF ParInv, ParamsInside

LEMMA ReadingFits ==
  ASSUME ParInv, BufInv, Reading
  PROVE  ParInv'
<1>1. CASE Param
  <2>1. at = "args" /\ params' = Pushed(params, buf) /\ at' = at
    BY <1>1 DEF Param, Waits
  <2>2. QED BY <2>1, ParamFits
<1>2. CASE ParamsBegin
  <2>1. /\ at = "params"
        /\ \/ params' = [params EXCEPT !.size = DefArgc] /\ at' = "args"
           \/ params' = params /\ at' = "doc"
    BY <1>2 DEF ParamsBegin, Waits
  <2>2. /\ params \in [items : Seq(Seq(Chars)), size : Nat, outside : BOOLEAN]
        /\ params.items = <<>> /\ ~params.outside
    BY <2>1 DEF ParInv, ParamsInside
  <2>3. CASE params' = params /\ at' = "doc"
    BY <2>2, <2>3 DEF ParInv, ParamsInside
  <2>4. CASE params' = [params EXCEPT !.size = DefArgc] /\ at' = "args"
    <3>1. /\ params' \in [items : Seq(Seq(Chars)), size : Nat, outside : BOOLEAN]
          /\ params'.items = <<>> /\ params'.size = 3 /\ ~params'.outside
      BY <2>2, <2>4 DEF DefArgc
    <3>2. Len(params'.items) = 0
      BY <3>1
    <3>3. QED BY <2>4, <3>1, <3>2 DEF ParInv, ParamsInside
  <2>5. QED BY <2>1, <2>3, <2>4
<1>3. CASE NoParam
  <2>1. at' = at /\ params' = params
    BY <1>3 DEF NoParam, Waits, Awaits
  <2>2. QED BY <2>1 DEF ParInv, ParamsInside
<1>4. CASE NoForm
  <2>1. at' = at /\ params' = params
    BY <1>4 DEF NoForm
  <2>2. QED BY <2>1 DEF ParInv, ParamsInside
<1>5. ASSUME NEW q, Parse(q), at \notin {"params", "args"}
      PROVE  at' \notin {"params", "args"} /\ params' = params
  BY <1>5 DEF Parse, Deliver
<1>6. CASE Item \/ Form
  <2>1. at \notin {"params", "args"} /\ \E q : Parse(q)
    BY <1>6 DEF Item, Form, Waits
  <2>2. at' \notin {"params", "args"} /\ params' = params
    BY <1>5, <2>1
  <2>3. QED BY <2>2 DEF ParInv, ParamsInside
<1>7. CASE \/ ItemQuote \/ EndOfList \/ FormQuote \/ ParamsEnd
           \/ NoDocstring \/ Docstring \/ Eaten
  <2>1. at' \notin {"params", "args"} /\ params' = params
    BY <1>7 DEF ItemQuote, EndOfList, Deliver, FormQuote, ParamsEnd, NoDocstring,
                Docstring, Eaten, Awaits
  <2>2. QED BY <2>1 DEF ParInv, ParamsInside
<1>8. QED BY <1>1, <1>2, <1>3, <1>4, <1>6, <1>7 DEF Reading

-----------------------------------------------------------------------------
LEMMA InitReads == Init => ReadInv
<1>1. SUFFICES ASSUME Init PROVE ReadInv
  OBVIOUS
<1>2. PICK s \in Sources :
        in = [text |-> s.text, file |-> s.file, pos |-> 1, eof |-> FALSE, line |-> 1]
  BY <1>1 DEF Init
<1>3. s.text \in Seq(STRING) /\ s.file \in BOOLEAN
  BY SourcesAssumption DEF SourcesAssumption
<1>4. s.text \in Seq(Chars)
  <2>1. STRING \subseteq Chars
    BY DEF Chars
  <2>2. /\ Len(s.text) \in Nat /\ s.text = [k \in 1 .. Len(s.text) |-> s.text[k]]
        /\ \A k \in 1 .. Len(s.text) : s.text[k] \in Chars
    BY <1>3, <2>1, LenProperties, ElementOfSeq
  <2>3. [k \in 1 .. Len(s.text) |-> s.text[k]] \in Seq(Chars)
    BY <2>2
  <2>4. QED BY <2>2, <2>3
<1>5. in \in Device
  BY <1>2, <1>3, <1>4 DEF Device
<1>6. lex = [at |-> "call", op |-> "none", i |-> 0]
  BY <1>1 DEF Init
<1>7. LexInv
  BY <1>5, <1>6 DEF LexInv, Places, Chars
<1>8. buf = <<>> /\ size = StartSize /\ StartSize \in Nat /\ StartSize >= 3
  BY <1>1, BufferAssumption DEF Init, BufferAssumption
<1>9. BufInv
  BY <1>6, <1>8 DEF BufInv, BufferHolds
<1>10. params = [items |-> <<>>, size |-> 0, outside |-> FALSE] /\ at # "args"
  BY <1>1 DEF Init
<1>11. ParInv
  BY <1>10 DEF ParInv, ParamsInside
<1>12. QED BY <1>7, <1>9, <1>11 DEF ReadInv

\* The inductive invariant of the reader, for any texts.
THEOREM ReaderInvariant == Spec => []ReadInv
<1>1. Init => ReadInv
  BY InitReads
<1>2. ReadInv /\ [Next]_vars => ReadInv'
  <2>1. SUFFICES ASSUME ReadInv, [Next]_vars PROVE ReadInv'
    OBVIOUS
  <2>2. LexInv /\ BufInv /\ ParInv
    BY <2>1 DEF ReadInv
  <2>3. CASE Reading
    BY <2>2, <2>3, ReadingAsks, AskedAgain, ReadingFits DEF ReadInv
  <2>4. CASE Lexing /\ UNCHANGED <<source, at, lists, out, params>>
    <3>1. LexInv' /\ BufInv'
      BY <2>2, <2>4, LexingKeeps
    <3>2. ParInv'
      BY <2>2, <2>4 DEF ParInv, ParamsInside
    <3>3. QED BY <3>1, <3>2 DEF ReadInv
  <2>5. CASE UNCHANGED vars
    BY <2>2, <2>5 DEF vars, ReadInv, LexInv, BufInv, ParInv, BufferHolds, ParamsInside
  <2>6. QED BY <2>1, <2>3, <2>4, <2>5 DEF Next
<1>3. QED BY <1>1, <1>2, PTL DEF Spec

\* put_buffer grows iod_buffer before the text and its NUL fill it, whatever the
\* text and whatever size it starts with, from 3 on.
THEOREM BufferAlwaysHolds == Spec => []BufferHolds
<1>1. ReadInv => BufferHolds
  BY DEF ReadInv, BufInv
<1>2. QED BY <1>1, ReaderInvariant, PTL

\* akl_parse_params never writes behind its vector, however many parameters.
THEOREM ParamsStayInside == Spec => []ParamsInside
<1>1. ReadInv => ParamsInside
  BY DEF ReadInv, ParInv
<1>2. QED BY <1>1, ReaderInvariant, PTL

-----------------------------------------------------------------------------
(***************************************************************************)
(* How far the reader gets: behind the text, and with the buffer.          *)
(***************************************************************************)
\* A device for a text of n characters: a string may be read one behind its NUL,
\* a file at its end gives no more.
Fits(d, n) ==
  /\ d \in Device /\ Len(d.text) = n
  /\ d.pos <= n + 2 /\ (d.file => d.pos <= n + 1)
  /\ d.line >= 1 /\ d.line <= n + 1

\* The size of the buffer for a text of n characters.
Sized(s, n) == s >= StartSize /\ (s = StartSize \/ 2 * s <= 3 * (n + 1))

\* What is in the buffer was read.
PosInv ==
  /\ Fits(in, Len(in.text))
  /\ lex.i + 1 <= in.pos
  /\ Sized(size, Len(in.text))
  /\ status \in {"run", "end", "behind", "crash"}

LEMMA DeviceParts ==
  ASSUME NEW d \in Device
  PROVE  /\ d.text \in Seq(Chars) /\ Len(d.text) \in Nat /\ d.file \in BOOLEAN
         /\ d.pos \in Nat /\ d.pos >= 1 /\ d.line \in Nat
BY DEF Device

LEMMA GotFits ==
  ASSUME NEW n \in Nat, NEW d, Fits(d, n), ~Behind(d)
  PROVE  /\ Fits(Got(d), n) /\ Got(d).file = d.file /\ Got(d).text = d.text
         /\ Got(d).line = d.line
<1>1. d \in Device /\ Got(d) \in Device
  BY GotKeeps DEF Fits
<1>2. /\ Len(d.text) = n /\ d.file \in BOOLEAN /\ d.pos \in Nat
  BY <1>1, DeviceParts DEF Fits
<1>3. /\ Got(d).text = d.text /\ Got(d).file = d.file /\ Got(d).line = d.line
      /\ Got(d).pos = IF d.file /\ d.pos > n THEN d.pos ELSE d.pos + 1
  BY <1>1, <1>2 DEF Got, Device
<1>4. d.file => Got(d).pos <= n + 1
  BY <1>2, <1>3 DEF Fits
<1>5. ~d.file => Got(d).pos <= n + 2
  BY <1>2, <1>3 DEF Behind
<1>6. Got(d).pos <= n + 2
  BY <1>2, <1>4, <1>5, <1>1, DeviceParts
<1>7. QED BY <1>1, <1>2, <1>3, <1>4, <1>6 DEF Fits

LEMMA UngotFits ==
  ASSUME NEW n \in Nat, NEW d, Fits(d, n), NEW ch \in Chars, ch = "eof" \/ d.pos >= 2
  PROVE  Fits(Ungot(d, ch), n)
<1>1. d \in Device /\ Ungot(d, ch) \in Device
  BY UngotKeeps DEF Fits
<1>2. /\ d.text \in Seq(Chars) /\ Len(d.text) = n /\ d.file \in BOOLEAN /\ d.pos \in Nat
  BY <1>1, DeviceParts DEF Fits
<1>3. CASE ch = "eof"
  BY <1>3 DEF Ungot
<1>4. CASE ch # "eof"
  <2>1. /\ Ungot(d, ch).file = d.file /\ Ungot(d, ch).line = d.line
        /\ Ungot(d, ch).pos = d.pos - 1
        /\ Ungot(d, ch).text = IF d.file THEN [d.text EXCEPT ![d.pos - 1] = ch] ELSE d.text
    BY <1>1, <1>4 DEF Ungot, Device
  <2>2. Len(Ungot(d, ch).text) = n
    <3>1. DOMAIN [d.text EXCEPT ![d.pos - 1] = ch] = DOMAIN d.text
      OBVIOUS
    <3>2. Ungot(d, ch).text \in Seq(Chars)
      BY <1>1, DeviceParts
    <3>3. DOMAIN Ungot(d, ch).text = DOMAIN d.text
      BY <2>1, <3>1
    <3>4. 1 .. Len(Ungot(d, ch).text) = 1 .. n /\ Len(Ungot(d, ch).text) \in Nat
      BY <1>2, <3>2, <3>3, LenProperties
    <3>5. QED BY <3>4
  <2>3. QED BY <1>1, <1>2, <2>1, <2>2 DEF Fits
<1>5. QED BY <1>3, <1>4

\* A character that is none of the ends is one of the text.
LEMMA InText ==
  ASSUME NEW d \in Device, CharAt(d, d.pos) \notin {"eof", "nul"}
  PROVE  d.pos <= Len(d.text) /\ ~Behind(d) /\ Got(d).pos = d.pos + 1 /\ ~Behind(Got(d))
<1>1. Len(d.text) \in Nat /\ d.pos \in Nat /\ d.file \in BOOLEAN
  BY DeviceParts
<1>2. d.pos <= Len(d.text)
  BY <1>1 DEF CharAt
<1>3. Got(d).pos = d.pos + 1 /\ Got(d).text = d.text
  BY <1>1, <1>2 DEF Got, Device
<1>4. QED BY <1>1, <1>2, <1>3 DEF Behind

\* fgetc gives a character or sets what feof gives.
LEMMA GotOrEnd ==
  ASSUME NEW d \in Device
  PROVE  Got(d).pos = d.pos + 1 \/ (Got(d).pos = d.pos /\ AtEof(Got(d)))
<1>1. CASE d.file /\ d.pos > Len(d.text)
  BY <1>1 DEF Got, AtEof, Device
<1>2. CASE ~(d.file /\ d.pos > Len(d.text))
  BY <1>2 DEF Got, Device
<1>3. QED BY <1>1, <1>2

\* What the steps of akl_lex do to the device, and how far that gets.
LEMMA WaysOn ==
  ASSUME NEW n \in Nat, Fits(in, n), ~Behind(in)
  PROVE  /\ Fits(Got(in), n) /\ Got(in).pos >= in.pos
         /\ Fits(Ungot(Got(in), Ch), n)
         /\ Ch # "eof" => Got(in).pos = in.pos + 1
         /\ Got(in).pos = in.pos + 1 \/ AtEof(Got(in))
         /\ Ch = "nl" => Fits(NewLine, n) /\ NewLine.pos >= in.pos
         /\ Ch \notin {"eof", "nul"} =>
              /\ Fits(Got(Got(in)), n)
              /\ Fits(Ungot(Got(Got(in)), CharAt(Got(in), Got(in).pos)), n)
              /\ \/ Got(Got(in)).pos = in.pos + 2
                 \/ Got(Got(in)).pos = in.pos + 1 /\ AtEof(Got(Got(in)))
<1> DEFINE one == Got(in)
           two == Got(one)
           ch2 == CharAt(one, one.pos)
<1>1. /\ in \in Device /\ in.pos \in Nat /\ in.pos >= 1 /\ Len(in.text) = n
      /\ in.file \in BOOLEAN /\ in.line \in Nat
  BY DeviceParts DEF Fits
<1>2. Fits(one, n) /\ one.file = in.file /\ one.text = in.text /\ one.line = in.line
  BY GotFits
<1>3. /\ Ch \in Chars /\ one.pos >= in.pos /\ (Ch # "eof" => one.pos = in.pos + 1)
      /\ one \in Device /\ one.pos \in Nat
  BY <1>1, GotKeeps, DeviceParts DEF Ch
<1>4. Fits(Ungot(one, Ch), n)
  <2>1. Ch = "eof" \/ one.pos >= 2
    BY <1>1, <1>3
  <2> HIDE DEF one
  <2>2. QED BY <1>2, <1>3, <2>1, UngotFits
<1>5. Ch = "nl" => Fits(NewLine, n) /\ NewLine.pos >= in.pos
  <2>1. SUFFICES ASSUME Ch = "nl" PROVE Fits(NewLine, n) /\ NewLine.pos >= in.pos
    OBVIOUS
  <2>2. in.pos <= n
    BY <1>1, <2>1, InText DEF Ch
  <2>3. NewLine = [one EXCEPT !.line = in.pos + 1]
    BY DEF NewLine
  <2> HIDE DEF one
  <2>4. /\ NewLine \in Device /\ NewLine.text = one.text /\ NewLine.file = one.file
        /\ NewLine.pos = one.pos /\ NewLine.line = in.pos + 1
    BY <1>1, <1>3, <2>3 DEF Device
  <2>5. QED BY <1>1, <1>2, <1>3, <2>2, <2>4 DEF Fits
<1>6. one.pos = in.pos + 1 \/ AtEof(one)
  BY <1>1, GotOrEnd
<1>7. ASSUME Ch \notin {"eof", "nul"}
      PROVE  /\ Fits(two, n) /\ Fits(Ungot(two, ch2), n)
             /\ two.pos = in.pos + 2 \/ (two.pos = in.pos + 1 /\ AtEof(two))
  <2>1. ~Behind(one) /\ one.pos = in.pos + 1
    BY <1>1, <1>7, InText DEF Ch
  <2> HIDE DEF one
  <2>2. Fits(two, n) /\ two.pos >= one.pos /\ ch2 \in Chars
        /\ (ch2 # "eof" => two.pos = one.pos + 1) /\ two.pos \in Nat
        /\ (two.pos = one.pos + 1 \/ (two.pos = one.pos /\ AtEof(two)))
    BY <1>2, <1>3, <2>1, GotFits, GotKeeps, GotOrEnd, DeviceParts
  <2>3. ch2 = "eof" \/ two.pos >= 2
    BY <1>3, <2>1, <2>2, <1>1
  <2> HIDE DEF two, ch2
  <2>4. Fits(Ungot(two, ch2), n)
    BY <2>2, <2>3, UngotFits
  <2>5. QED BY <1>1, <2>1, <2>2, <2>4
<1>8. QED BY <1>2, <1>3, <1>4, <1>5, <1>6, <1>7

\* put_buffer of a character that was read grows the buffer no further than that.
LEMMA GrownSized ==
  ASSUME NEW n \in Nat, NEW s \in Nat, Sized(s, n), NEW p \in Nat, p <= n, p < s
  PROVE  Sized(Grown(s, p), n)
<1>1. StartSize \in Nat
  BY BufferAssumption DEF BufferAssumption
<1>2. CASE p + 1 >= s
  <2>1. Grown(s, p) = s + (s \div 2) /\ s = p + 1
    BY <1>2 DEF Grown
  <2>2. Grown(s, p) \in Nat /\ Grown(s, p) >= s /\ 2 * Grown(s, p) <= 3 * (p + 1)
    BY <2>1
  <2>3. QED BY <1>1, <2>2 DEF Sized
<1>3. CASE ~(p + 1 >= s)
  BY <1>3 DEF Grown
<1>4. QED BY <1>2, <1>3

\* The characters that are copied were read from the text: as many as put, or the
\* last is the end of a file, and the token is given.
LEMMA PutGets ==
  ASSUME LexInv, BufInv, PosInv, NEW d, Fits(d, Len(in.text)),
         NEW cs \in Seq(Chars), Len(cs) \in {1, 2}, NEW kind, Put(cs, kind, d),
         \/ d.pos >= in.pos + Len(cs)
         \/ d.pos + 1 = in.pos + Len(cs) /\ AtEof(d),
         status' = status
  PROVE  PosInv'
<1> DEFINE n == Len(in.text)
           b == SubSeq(buf, 1, lex.i) \o cs
           s == Grown(size, lex.i)
<1>1. /\ n \in Nat /\ in.pos \in Nat /\ d.pos \in Nat /\ lex.i \in Nat /\ Len(cs) \in Nat
      /\ d.file \in BOOLEAN /\ lex \in Lex
      /\ Len(d.text) = n /\ d.pos <= n + 2 /\ (d.file => d.pos <= n + 1) /\ d.pos >= 1
      /\ lex.i + 1 <= in.pos
  BY DeviceParts DEF LexInv, PosInv, Lex, Fits
<1>2. /\ buf \in Seq(Chars) /\ lex.i <= Len(buf) /\ Len(buf) < size
      /\ size \in Nat /\ size >= 3 /\ Len(buf) \in Nat
  BY DEF BufInv, BufferHolds
<1>3. SubSeq(buf, 1, lex.i) \in Seq(Chars) /\ Len(SubSeq(buf, 1, lex.i)) = lex.i
  BY <1>1, <1>2
<1>4. b \in Seq(Chars) /\ Len(b) = lex.i + Len(cs)
  BY <1>3, ConcatProperties
<1>5. in' = d /\ buf' = b /\ size' = Grown(s, Len(b) - 1)
  BY DEF Put
<1> HIDE DEF n, b
<1>6. /\ Len(b) <= n + 1
      /\ AtEof(d) \/ Len(b) + 1 <= d.pos
  <2>1. CASE d.pos >= in.pos + Len(cs)
    <3>1. lex.i + Len(cs) + 1 <= in.pos + Len(cs)
      BY <1>1
    <3>2. Len(b) + 1 <= d.pos /\ Len(b) \in Nat
      BY <1>1, <1>4, <2>1, <3>1
    <3>3. QED BY <1>1, <3>2
  <2>2. CASE d.pos + 1 = in.pos + Len(cs) /\ AtEof(d)
    <3>1. Len(b) <= d.pos
      BY <1>1, <1>4, <2>2
    <3>2. d.pos <= n + 1
      BY <1>1, <2>2 DEF AtEof
    <3>3. QED BY <1>1, <1>4, <2>2, <3>1, <3>2
  <2>3. QED BY <2>1, <2>2
<1>7. Len(cs) = 1 \/ Len(cs) = 2
  OBVIOUS
<1>8. lex.i < size /\ lex.i <= n
  <2>1. Len(b) = lex.i + 1 \/ Len(b) = lex.i + 2
    BY <1>4, <1>7
  <2>2. QED BY <1>1, <1>2, <1>6, <2>1
<1>9. s \in Nat /\ s >= size /\ lex.i + 1 < s
  BY <1>1, <1>2, <1>8, GrownHolds
<1>10. Sized(s, n)
  BY <1>1, <1>2, <1>8, GrownSized DEF PosInv, n
<1> HIDE DEF s
<1>11. Sized(size', n)
  <2>1. Len(b) = lex.i + 1 \/ Len(b) = lex.i + 2
    BY <1>4, <1>7
  <2>2. Len(b) - 1 \in Nat /\ Len(b) - 1 <= n /\ Len(b) - 1 < s
    BY <1>1, <1>6, <1>9, <2>1
  <2>3. QED BY <1>1, <1>5, <1>9, <1>10, <2>2, GrownSized
<1>12. lex'.i + 1 <= d.pos
  <2>1. CASE AtEof(d)
    <3>1. PICK t : Give(t)
      BY <2>1 DEF Put
    <3>2. lex'.i = 0
      BY <3>1 DEF Give
    <3>3. QED BY <1>1, <3>2
  <2>2. CASE ~AtEof(d)
    <3>1. lex' = [lex EXCEPT !.i = Len(b)]
      BY <2>2 DEF Put, b
    <3>2. lex'.i = Len(b)
      BY <1>1, <3>1 DEF Lex
    <3>3. QED BY <1>6, <2>2, <3>2
  <2>3. QED BY <2>1, <2>2
<1>13. Fits(in', Len(in'.text)) /\ Len(in'.text) = n
  BY <1>1, <1>5 DEF n
<1>14. QED BY <1>5, <1>11, <1>12, <1>13 DEF PosInv

\* A step that puts nothing.
LEMMA StepFits ==
  ASSUME PosInv, LexInv, Fits(in', Len(in.text)), lex'.i \in Nat,
         lex'.i = 0 \/ lex'.i + 1 <= in'.pos, size' = size, status' = status
  PROVE  PosInv'
<1>1. /\ in'.pos \in Nat /\ in'.pos >= 1 /\ Len(in'.text) = Len(in.text)
  BY DeviceParts DEF Fits
<1>2. lex'.i + 1 <= in'.pos
  BY <1>1
<1>3. QED BY <1>1, <1>2 DEF PosInv

LEMMA LoopFits ==
  ASSUME LexInv, BufInv, PosInv,
         \/ Shebang \/ InShebang \/ EndOfText \/ Newline \/ Sign \/ Digit
         \/ SpaceOrBrace \/ Quotes \/ Brace \/ Quote \/ Comment \/ InComment \/ Letter
  PROVE  PosInv'
<1> DEFINE n == Len(in.text)
<1>1. /\ n \in Nat /\ in \in Device /\ Fits(in, n) /\ in.pos \in Nat /\ in.pos >= 1
      /\ lex \in Lex /\ lex.i \in Nat /\ lex.i + 1 <= in.pos
      /\ size \in Nat /\ size >= 3
  BY DeviceParts DEF LexInv, BufInv, PosInv, Lex
<1>2. lex.at \in Walking /\ ~Behind(in) /\ status' = status
  BY DEF Shebang, InShebang, EndOfText, Newline, Sign, Digit, SpaceOrBrace, Quotes, Brace,
         Opening, Quote, Comment, InComment, Letter, Reads, At, Walking
<1>3. /\ Ch \in Chars
      /\ \A t : Give(t) => lex'.i = 0
      /\ \A p : Goto(p) => lex'.i = 0
  <2>1. Ch \in Chars
    BY <1>1, GotKeeps DEF Ch
  <2>2. ASSUME NEW t, Give(t) PROVE lex'.i = 0
    BY <2>2 DEF Give
  <2>3. ASSUME NEW p, Goto(p) PROVE lex'.i = 0
    BY <1>1, <2>3 DEF Goto, Lex
  <2>4. QED BY <2>1, <2>2, <2>3
<1>4. CASE Shebang \/ InShebang \/ EndOfText \/ Newline \/ Quote \/ Comment \/ InComment
  <2>1. (in' = Got(in) \/ (in' = NewLine /\ Ch = "nl")) /\ size' = size
    BY <1>4 DEF Shebang, InShebang, EndOfText, Newline, Quote, Comment, InComment, Keep
  <2>2. Fits(in', n) /\ in'.pos >= in.pos /\ in'.pos \in Nat
    BY <1>1, <1>2, <2>1, WaysOn, DeviceParts DEF Fits
  <2>3. lex'.i = 0 \/ lex'.i = lex.i
    <3>1. CASE Shebang \/ InShebang \/ EndOfText \/ Newline \/ Quote
      BY <1>3, <3>1 DEF Shebang, InShebang, EndOfText, Newline, Quote
    <3>2. CASE Comment
      BY <1>1, <3>2 DEF Comment, Lex
    <3>3. CASE InComment
      <4>1. lex' = [lex EXCEPT !.at = "loop"] \/ Give("EOF") \/ lex' = lex
        BY <3>3 DEF InComment
      <4>2. QED BY <1>1, <1>3, <4>1 DEF Lex
    <3>4. QED BY <1>4, <3>1, <3>2, <3>3
  <2>4. QED BY <1>1, <1>2, <2>1, <2>2, <2>3, StepFits
<1>5. CASE Sign
  <2>1. in' = Got(in) /\ size' = size /\ (lex'.i = 0 \/ lex'.i = lex.i)
    BY <1>1, <1>5 DEF Sign, Keep, Give, Lex
  <2>2. Fits(in', n) /\ in'.pos >= in.pos /\ in'.pos \in Nat
    BY <1>1, <1>2, <2>1, WaysOn, DeviceParts DEF Fits
  <2>3. QED BY <1>1, <1>2, <2>1, <2>2, StepFits
<1>6. CASE Digit
  <2>1. in' = Ungot(Got(in), Ch) /\ Ch = "1" /\ lex.at = "loop"
    BY <1>6 DEF Digit, Reads, At
  <2>2. Got(in) \in Device /\ Got(in).pos = in.pos + 1 /\ Fits(in', n) /\ Got(in).pos >= 2
    BY <1>1, <1>2, <2>1, WaysOn, GotKeeps
  <2>3. in'.pos = in.pos
    <3>1. Ungot(Got(in), Ch).pos = Got(in).pos - 1
      BY <1>3, <2>1, <2>2, UngotKeeps
    <3>2. QED BY <1>1, <2>1, <2>2, <3>1
  <2>4. size' = size
    <3>1. size' = size \/ size' = Grown(size, 0)
      BY <1>6 DEF Digit, Keep
    <3>2. QED BY <1>1, <3>1 DEF Grown
  <2>5. lex'.i = 0 \/ (lex'.i = 1 /\ lex.op # "none")
    BY <1>1, <1>6 DEF Digit, Goto, Lex
  <2>6. lex.op # "none" => in.pos >= 2
    BY <2>1 DEF LexInv
  <2>7. QED BY <1>1, <1>2, <2>2, <2>3, <2>4, <2>5, <2>6, StepFits
<1>7. CASE SpaceOrBrace
  <2>1. /\ size' = size
        /\ \/ in' = Got(in) /\ (lex'.i = 0 \/ lex'.i = lex.i)
           \/ in' = Ungot(Got(in), Ch) /\ lex'.i = 0
    BY <1>3, <1>7 DEF SpaceOrBrace, Keep
  <2>2. Fits(in', n) /\ (in' = Got(in) => in'.pos >= in.pos) /\ in'.pos \in Nat
    BY <1>1, <1>2, <2>1, WaysOn, DeviceParts DEF Fits
  <2>3. QED BY <1>1, <1>2, <2>1, <2>2, StepFits
<1>8. CASE Quotes \/ Brace
  <2>1. /\ size' = size /\ lex'.i = 0 /\ Ch \notin {"eof", "nul"}
        /\ \/ in' = Got(Got(in))
           \/ in' = Ungot(Got(Got(in)), CharAt(Got(in), Got(in).pos))
    <3>1. PICK c \in {"dq", "("} : \E close : Opening(c, close)
      BY <1>8 DEF Quotes, Brace
    <3>2. lex'.i = 0
      BY <1>3, <1>8 DEF Quotes, Brace
    <3>3. QED BY <3>1, <3>2 DEF Opening, Keep
  <2>2. Fits(in', n)
    BY <1>1, <1>2, <2>1, WaysOn
  <2>3. QED BY <1>2, <2>1, <2>2, StepFits
<1>9. CASE Letter
  <2>1. /\ lex.at = "loop" /\ Ch # "eof" /\ lex'.i = 0 /\ size' = size
        /\ in' = Ungot(IF lex.op = "none" THEN Got(in) ELSE Ungot(Got(in), lex.op), Ch)
    BY <1>1, <1>9 DEF Letter, Reads, At, Goto, Keep, Lex
  <2>2. Fits(Got(in), n) /\ Fits(Ungot(Got(in), Ch), n) /\ Got(in).pos = in.pos + 1
    BY <1>1, <1>2, <2>1, WaysOn
  <2>3. CASE lex.op = "none"
    BY <1>2, <2>1, <2>2, <2>3, StepFits
  <2>4. CASE lex.op # "none"
    <3>1. in.pos >= 2 /\ lex.op # "eof" /\ lex.op \in Chars
      BY <1>1, <2>1, <2>4 DEF LexInv, Lex
    <3>2. Got(in) \in Device /\ Got(in).pos >= 2
      BY <1>1, <2>2 DEF Fits
    <3>3. Fits(Ungot(Got(in), lex.op), n) /\ Ungot(Got(in), lex.op).pos >= 2
      BY <1>1, <2>2, <3>1, <3>2, UngotKeeps, UngotFits
    <3>4. Fits(in', n)
      BY <1>1, <1>3, <2>1, <2>4, <3>3, UngotFits
    <3>5. QED BY <1>2, <2>1, <3>4, StepFits
  <2>5. QED BY <2>3, <2>4
<1>10. QED BY <1>4, <1>5, <1>6, <1>7, <1>8, <1>9

LEMMA CopyFits ==
  ASSUME LexInv, BufInv, PosInv, CopyNumber \/ CopyAtom \/ CopyString
  PROVE  PosInv'
<1> DEFINE n == Len(in.text)
           one == Got(in)
           two == Got(one)
           ch2 == CharAt(one, one.pos)
<1>1. /\ n \in Nat /\ in \in Device /\ Fits(in, n) /\ in.pos \in Nat
      /\ lex \in Lex /\ ~Behind(in) /\ status' = status
  BY DeviceParts DEF LexInv, PosInv, Lex, CopyNumber, CopyAtom, CopyString, Reads
<1>2. /\ Ch \in Chars /\ one \in Device /\ ch2 \in Chars
      /\ one.pos \in Nat /\ two.pos \in Nat
  BY <1>1, GotKeeps, DeviceParts DEF Ch
<1>3. /\ Fits(one, n) /\ Fits(Ungot(one, Ch), n)
      /\ \/ one.pos = in.pos + 1
         \/ one.pos = in.pos /\ AtEof(one)
  BY <1>1, WaysOn, GotOrEnd
<1>4. /\ <<Ch>> \in Seq(Chars) /\ Len(<<Ch>>) = 1
      /\ Escape(ch2) \in Seq(Chars) /\ (Len(Escape(ch2)) = 1 \/ Len(Escape(ch2)) = 2)
  <2> HIDE DEF ch2
  <2>1. "dq" \in Chars /\ "bs" \in Chars
    BY DEF Chars
  <2>2. <<Ch>> \in Seq(Chars) /\ Len(<<Ch>>) = 1
    BY <1>2
  <2>3. <<"dq">> \in Seq(Chars) /\ Len(<<"dq">>) = 1
    BY <2>1
  <2>4. <<"bs", ch2>> \in Seq(Chars) /\ Len(<<"bs", ch2>>) = 2
    BY <1>2, <2>1
  <2>5. QED BY <2>2, <2>3, <2>4 DEF Escape
<1>5. \/ \E kind : Put(<<Ch>>, kind, one)
      \/ Ch = "bs" /\ \E kind : Put(Escape(ch2), kind, two)
      \/ /\ \E t : Give(t)
         /\ Keep
         /\ in' = one \/ in' = Ungot(one, Ch)
  BY DEF CopyNumber, CopyAtom, CopyString, Stop
<1>6. CASE \E kind : Put(<<Ch>>, kind, one)
  <2> HIDE DEF one
  <2>1. \/ one.pos >= in.pos + Len(<<Ch>>)
        \/ one.pos + 1 = in.pos + Len(<<Ch>>) /\ AtEof(one)
    BY <1>1, <1>2, <1>3, <1>4
  <2>2. Len(<<Ch>>) \in {1, 2}
    BY <1>4
  <2>3. QED BY <1>1, <1>3, <1>4, <1>6, <2>1, <2>2, PutGets
<1>7. CASE Ch = "bs" /\ \E kind : Put(Escape(ch2), kind, two)
  <2>1. Fits(two, n) /\ (two.pos = in.pos + 2 \/ (two.pos = in.pos + 1 /\ AtEof(two)))
    BY <1>1, <1>7, WaysOn
  <2> HIDE DEF one, two, ch2
  <2>2. \/ two.pos >= in.pos + Len(Escape(ch2))
        \/ two.pos + 1 = in.pos + Len(Escape(ch2)) /\ AtEof(two)
    <3>1. CASE Len(Escape(ch2)) = 1
      BY <1>1, <1>2, <2>1, <3>1
    <3>2. CASE Len(Escape(ch2)) = 2
      BY <1>1, <1>2, <2>1, <3>2
    <3>3. QED BY <1>4, <3>1, <3>2
  <2>3. Len(Escape(ch2)) \in {1, 2}
    BY <1>4
  <2>4. QED BY <1>1, <1>4, <1>7, <2>1, <2>2, <2>3, PutGets
<1>8. CASE /\ \E t : Give(t)
           /\ Keep
           /\ in' = one \/ in' = Ungot(one, Ch)
  <2>1. lex'.i = 0 /\ size' = size
    BY <1>8 DEF Give, Keep
  <2>2. QED BY <1>1, <1>3, <1>8, <2>1, StepFits
<1>9. QED BY <1>5, <1>6, <1>7, <1>8

LEMMA LexingFits ==
  ASSUME LexInv, BufInv, PosInv, Lexing
  PROVE  PosInv'
<1>1. CASE PutBackGiven \/ Start
  <2>1. in' = in /\ size' = size /\ status' = status /\ lex'.i = 0
    <3>1. CASE PutBackGiven
      BY <3>1 DEF PutBackGiven, Keep, Give
    <3>2. CASE Start
      BY <3>2 DEF Start, Keep, Goto, LexInv
    <3>3. QED BY <1>1, <3>1, <3>2
  <2>2. QED BY <2>1, StepFits DEF PosInv
<1>2. CASE ReadBehind
  BY <1>2 DEF ReadBehind, lexVars, PosInv
<1>3. CASE CopyNumber \/ CopyAtom \/ CopyString
  BY <1>3, CopyFits
<1>4. CASE \/ Shebang \/ InShebang \/ EndOfText \/ Newline \/ Sign \/ Digit
           \/ SpaceOrBrace \/ Quotes \/ Brace \/ Quote \/ Comment \/ InComment \/ Letter
  BY <1>4, LoopFits
<1>5. QED BY <1>1, <1>2, <1>3, <1>4 DEF Lexing

\* Who was given a token reads nothing; the buffer that is made anew is small.
LEMMA ReadingStays ==
  ASSUME LexInv, PosInv, Reading
  PROVE  PosInv'
<1>1. /\ in' = in /\ (Again \/ lex' = lex) /\ (Keep \/ Buffer)
  BY ReadingAsks
<1>2. lex'.i = lex.i
  BY <1>1 DEF Again, LexInv
<1>3. size' = size \/ size' = StartSize
  BY <1>1 DEF Keep, Buffer
<1>4. StartSize \in Nat
  BY BufferAssumption DEF BufferAssumption
<1>5. Sized(size', Len(in.text))
  BY <1>3, <1>4 DEF PosInv, Sized
<1>6. ASSUME NEW q, Parse(q)
      PROVE  status' \in {status, "end", "crash"}
  BY <1>6 DEF Parse, Deliver
<1>7. status' \in {status, "end", "crash"}
  <2>1. CASE ItemQuote \/ FormQuote \/ NoParam \/ ParamsEnd \/ Eaten
    BY <2>1 DEF ItemQuote, FormQuote, NoParam, ParamsEnd, Eaten, Awaits
  <2>2. CASE Item \/ Form
    BY <1>6, <2>2 DEF Item, Form
  <2>3. CASE EndOfList
    BY <2>3 DEF EndOfList, Deliver
  <2>4. CASE NoForm \/ ParamsBegin \/ Param \/ NoDocstring \/ Docstring
    BY <2>4 DEF NoForm, ParamsBegin, Param, NoDocstring, Docstring
  <2>5. QED BY <2>1, <2>2, <2>3, <2>4 DEF Reading
<1>8. QED BY <1>1, <1>2, <1>5, <1>7 DEF PosInv

\* The reader is at most one character behind the NUL of a text, put_buffer gets
\* no index that was not read, and iod_buffer grows no further than a token as long
\* as the whole text needs, whatever the text.
THEOREM TypeCorrect == Spec => []TypeOK
<1>1. Init => PosInv
  <2>1. SUFFICES ASSUME Init PROVE PosInv
    OBVIOUS
  <2>2. Init => ReadInv
    BY InitReads
  <2>3. in \in Device
    BY <2>1, <2>2 DEF ReadInv, LexInv
  <2>4. /\ in.pos = 1 /\ in.line = 1 /\ Len(in.text) \in Nat /\ lex.i = 0
        /\ size = StartSize /\ StartSize \in Nat /\ status = "run"
    BY <2>1, <2>3, DeviceParts, BufferAssumption DEF Init, BufferAssumption
  <2>5. QED BY <2>3, <2>4 DEF PosInv, Fits, Sized
<1>2. ReadInv /\ PosInv /\ [Next]_vars => PosInv'
  <2>1. SUFFICES ASSUME ReadInv, PosInv, [Next]_vars PROVE PosInv'
    OBVIOUS
  <2>2. LexInv /\ BufInv
    BY <2>1 DEF ReadInv
  <2>3. CASE Reading
    BY <2>1, <2>2, <2>3, ReadingStays
  <2>4. CASE Lexing
    BY <2>1, <2>2, <2>4, LexingFits
  <2>5. CASE UNCHANGED vars
    BY <2>1, <2>5 DEF vars, PosInv
  <2>6. QED BY <2>1, <2>3, <2>4, <2>5 DEF Next
<1>3. ReadInv /\ PosInv => TypeOK
  <2>1. SUFFICES ASSUME ReadInv, PosInv PROVE TypeOK
    OBVIOUS
  <2>2. /\ in \in Device /\ lex.i \in Nat /\ Len(in.text) \in Nat
        /\ in.pos \in Nat /\ in.pos >= 1 /\ in.line \in Nat
    BY <2>1, DeviceParts DEF ReadInv, LexInv
  <2>3. /\ in.pos <= Len(in.text) + 2 /\ in.line >= 1 /\ in.line <= Len(in.text) + 1
        /\ lex.i + 1 <= in.pos
    BY <2>1 DEF PosInv, Fits
  <2>4. lex.i <= Len(in.text) + 1
    BY <2>2, <2>3
  <2>5. QED BY <2>1, <2>2, <2>3, <2>4 DEF TypeOK, PosInv, Sized
<1>4. QED BY <1>1, <1>2, <1>3, ReaderInvariant, PTL DEF Spec
=============================================================================
