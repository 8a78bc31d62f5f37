----------------------------- MODULE AklValues -----------------------------
(***************************************************************************)
(* The values of AkLisp (src/src/aklisp.h, types.c), what a library        *)
(* function gives, and how its arguments are looked at.                    *)
(*                                                                         *)
(* A value is <<"num", n>> (n counts parts of 1/Unit), <<"nil">>, <<"t">>, *)
(* <<"sym", s>>, <<"str", letters>>, <<"list", vs>>, <<"list", <<>>,       *)
(* "nil">> (the header marked as NIL that is the tail of one element),     *)
(* <<"fun", n>> (compiled) or <<"cfun", s>> (written in C); <<"null">> is  *)
(* the C NULL.  A call gives [v, told]: the value, and the kinds of what   *)
(* it told, the end of the process ("crash", "exit") included.             *)
(***************************************************************************)
EXTENDS Integers, Sequences, SequencesExt

Unit == 12

Null == <<"null">>
NoFun == Null                           \* a function that is NULL
Nil  == <<"nil">>
IsNil(v)  == v \in {Nil, Null}          \* AKL_IS_NIL
Nuller(v) == IF v = Null THEN Nil ELSE v  \* AKL_NULLER
IsFun(v)  == v[1] \in {"fun", "cfun"}
Truth(b)  == IF b THEN <<"t">> ELSE Nil
Whole(i)  == <<"num", i * Unit>>
List(vs)  == <<"list", vs>>
Str(s)    == <<"str", s>>

Gives(v)    == [v |-> v, told |-> {}]
Tells(v, k) == [v |-> v, told |-> {k}]
Ends(how)   == Tells(Null, how)

\* the last or the first argument, NULL if there is none (akl_frame_pop, _shift)
LastOf(a)  == IF a = <<>> THEN Null ELSE Last(a)
FirstOf(a) == IF a = <<>> THEN Null ELSE Head(a)

\* akl_get_args_strict: as many arguments as types, each of its type
TypeName(v) == IF IsFun(v) THEN "function" ELSE v[1]
Strict(a, ts) ==
  Len(a) = Len(ts) /\ \A i \in DOMAIN ts : ts[i] \in {"any", TypeName(a[i])}
AsStrict(a, ts, v) == IF Strict(a, ts) THEN Gives(v) ELSE Tells(Nil, "args")

\* C division of integers, and the cast to one: towards zero
Quot(x, y) == LET q == IF y > 0 THEN x \div y ELSE (-x) \div (-y)
              IN  IF q < 0 /\ q * y # x THEN q + 1 ELSE q
Trunc(n)   == Quot(n, Unit)
=============================================================================
