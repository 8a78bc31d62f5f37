----------------------------- MODULE AklMeaning -----------------------------
(***************************************************************************)
(* What an AkLisp program means, as README.md tells it: the value of a     *)
(* form and the globals it leaves, by recursion on the form.  There is no  *)
(* stack, no instruction and no label here: AklVm is compared with it.     *)
(*                                                                         *)
(* Forms and values are those of AklCompile and AklLib, except a function  *)
(* written in Lisp, which is <<"lam", params, body>>.  A result is         *)
(* [v |-> value, g |-> globals].                                           *)
(***************************************************************************)
EXTENDS AklUses

Bind(g, s, v) == [x \in DOMAIN g \cup {s} |-> IF x = s THEN v ELSE g[x]]
Result(v, g)  == [v |-> v, g |-> g]

RECURSIVE Value(_, _, _), Values(_, _, _), Calling(_, _, _), Mapped(_, _, _), Folded(_, _, _, _)

\* the forms es from left to right
Values(es, env, g) ==
  FoldLeft(LAMBDA r, e : LET x == Value(e, env, r.g) IN Result(Append(r.v, x.v), x.g),
           Result(<<>>, g), es)

\* f called once for each of the argument lists as
Mapped(f, as, g) ==
  FoldLeft(LAMBDA r, a : LET x == Calling(f, a, r.g)
                         IN  Result(<<"list", Append(r.v[2], x.v)>>, x.g),
           Result(<<"list", <<>>>>, g), as)

Folded(f, v, l, g) ==
  FoldLeft(LAMBDA r, x : Calling(f, <<r.v, x>>, r.g), Result(v, g), l)

Calling(f, a, g) ==
  CASE f[1] = "lam"  -> Value(f[3], [s \in {f[2][i] : i \in DOMAIN f[2]} |->
                                       a[CHOOSE i \in DOMAIN f[2] : f[2][i] = s]], g)
    [] f[2] = "map"  -> Mapped(a[2], [i \in DOMAIN a[1][2] |-> <<a[1][2][i]>>], g)
    [] f[2] = "map-index" ->
         Mapped(a[2], [i \in DOMAIN a[1][2] |-> <<Num(Unit * (i - 1)), a[1][2][i]>>], g)
    [] f[2] = "foldl" -> Folded(a[3], a[1], a[2][2], g)
    [] f[2] = "times" -> Mapped(a[2], [i \in 1 .. a[1][2] \div Unit |-> <<>>], g)
    [] f[2] = "times-index" ->
         Mapped(a[2], [i \in 1 .. a[1][2] \div Unit |-> <<Num(Unit * (i - 1))>>], g)
    [] OTHER -> Result(Pure(f[2], a), g)

Value(e, env, g) ==
  CASE e[1] \in {"lit", "quote"} -> Result(e[2], g)
    [] e[1] = "var" -> Result(IF e[2] \in DOMAIN env THEN env[e[2]] ELSE g[e[2]], g)
    [] e[1] = "call" -> LET a == Values(e[3], env, g) IN Calling(a.g[e[2]], a.v, a.g)
    [] e[1] = "if" -> LET c == Value(e[2], env, g)
                      IN  Value(IF c.v = <<"nil">> THEN e[4] ELSE e[3], env, c.g)
    [] e[1] = "when" -> LET c == Value(e[2], env, g)
                        IN  IF c.v = <<"nil">> THEN c ELSE Value(e[3], env, c.g)
    [] e[1] = "while" -> LET c == Value(e[2], env, g)
                         IN  IF c.v = <<"nil">> THEN c
                             ELSE Value(e, env, Value(e[3], env, c.g).g)
    [] e[1] = "set!" -> LET x == Value(e[3], env, g) IN Result(x.v, Bind(x.g, e[2], x.v))
    [] e[1] = "defun!" -> Result(<<"sym", e[2]>>, Bind(g, e[2], <<"lam", e[3], e[4]>>))
    [] e[1] = "lambda" -> Result(<<"lam", e[2], e[3]>>, g)

\* the last form's value, and the globals at the end
Meaning(forms, g) ==
  LET r == Values(forms, <<>>, g) IN Result(Last(r.v), r.g)
============================================================================
