----------------------------- MODULE MCAklRepl -----------------------------
(***************************************************************************)
(* The texts of the model of the interactive interpreter.  Lines: a        *)
(* literal, a call, calls inside calls at both ends, two forms on a line,  *)
(* a list that is not closed, a brace that nothing opened, a list without  *)
(* a function, a program that never ends, and one that loads files.        *)
(* Files: one that does not end, one that loads another in a call.         *)
(***************************************************************************)
EXTENDS AklRepl

MCLines ==
  { [toks |-> <<"a">>, code |-> <<"push">>],
    [toks |-> <<"(", "f", "f", ")">>, code |-> <<"push", "f">>],
    [toks |-> <<"(", "f", "(", "f", "a", ")", "a", ")">>,
     code |-> <<"push", "f", "push", "f">>],
    [toks |-> <<"(", "f", "a", "(", "f", "(", "f", ")", ")", ")", "a">>,
     code |-> <<"push", "f", "f", "f", "push">>],
    [toks |-> <<"(", "f", "(", "f", "a">>, code |-> <<"push">>],
    [toks |-> <<"a", ")", "(", "a", ")">>, code |-> <<"push", "null", "push", "push">>],
    [toks |-> <<"(", "(", ")", "f", ")">>, code |-> <<"push", "push", "push">>],
    [toks |-> <<"(", "loop", ")">>, code |-> <<"loop">>],
    [toks |-> <<"(", "f", "(", "load", "a", ")", ")", "(", "load", "a", ")">>,
     code |-> <<"push", "load", "f", "push", "load">>] }

MCFiles ==
  { [toks |-> <<"(", "f", "(", "loop", ")", ")">>, code |-> <<"loop", "f">>],
    [toks |-> <<"(", "f", "(", "load", "a", ")", "a", ")">>,
     code |-> <<"push", "load", "push", "f">>] }

\* the compilation of the text l, token by token
StepsOf(l) ==
  LET c[i \in 0 .. Len(l.toks)] ==
        IF i = 0 THEN Nothing ELSE After(c[i - 1], l.toks[i])
  IN  [i \in 1 .. Len(l.toks) + 1 |-> c[i - 1]]

MCSteps == [l \in Texts |-> StepsOf(l)]
============================================================================
