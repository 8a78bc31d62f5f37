----------------------------- MODULE AklCompile -----------------------------
(***************************************************************************)
(* The compiler of AkLisp (src/src/compile.c, lib_spec.c): one pass over   *)
(* the forms, appending instructions to the body of the function being     *)
(* compiled.  The last instruction of a body is always a NOP that the next *)
(* one replaces, so that a label may point at it.                          *)
(*                                                                         *)
(* A form is a tuple: <<"lit", v>> (a number, NIL or T), <<"quote", v>>,   *)
(* <<"var", s>>, <<"call", s, args>>, <<"if", c, a, b>>, <<"when", c, a>>, *)
(* <<"while", c, a>>, <<"set!", s, e>>, <<"defun!", s, params, body>> or   *)
(* <<"lambda", params, body>>.  The special forms have exactly the         *)
(* operands they need.                                                     *)
(*                                                                         *)
(* A compilation c holds, for each function made (1 is the main one), its  *)
(* body, its labels and its parameters; the function being compiled; the   *)
(* globals known by name; what akl_compile_list returned; and what was     *)
(* told.                                                                   *)
(***************************************************************************)
EXTENDS AklValues

Nop == <<"nop">>

\* the functions written in C that the library declares
Builtins == {"++", "--", "+", "-", "*", "/", "div", "mod", "%", "!=", "=", ">", "<", ">=", "<=",
             "not", "and", "or", "zero?", "nil?", "number?", "string?", "list?", "symbol?",
             "number", "int", "string", "list", "length", "index", "head", "first", "car",
             "tail", "cdr", "last", "split", "range", "$", "akl-cfg!",
             "map", "map-index", "foldl", "fold", "times", "times-index", "exit!",
             "dump-stack", "disassemble", "hello", "write-times", "about", "dump-vars",
             "print-symbol-ptr", "print", "display", "write"}

RECURSIVE Do(_, _)

-----------------------------------------------------------------------------
(* akl_build_*                                                             *)

\* create_instr: the NOP at the end becomes the instruction
Emit(c, i) ==
  [c EXCEPT !.irs[c.fun] = IF @ = <<>> THEN <<i, Nop>>
                           ELSE Append([@ EXCEPT ![Len(@)] = i], Nop)]

\* akl_new_labels: n more labels of the function
NewLabels(c, n) == [c EXCEPT !.labels[c.fun] = @ \o [i \in 1 .. n |-> 0]]

\* akl_build_label: the label points at the NOP at the end
Label(c, l) ==
  LET d == [c EXCEPT !.irs[c.fun] = IF @ = <<>> THEN <<Nop>> ELSE @]
  IN  [d EXCEPT !.labels[c.fun][l] = Len(d.irs[c.fun])]

\* (faulty variant: the first parameter is number 1)
LoadOffByOne(c, s) ==
  LET ps == c.params[c.fun]
  IN  IF s \in ToSet(ps)
      THEN Emit(c, <<"load", CHOOSE i \in 1 .. Len(ps) : ps[i] = s>>)
      ELSE Emit(c, <<"get", s>>)

\* akl_build_load: a parameter of the function, or else a global variable
Load(c, s) ==
  LET ps == c.params[c.fun]
  IN  IF s \in ToSet(ps)
      THEN Emit(c, <<"load", (CHOOSE i \in 1 .. Len(ps) : ps[i] = s) - 1>>)
      ELSE Emit(c, <<"get", s>>)

Push(c, v)    == Emit(c, <<"push", v>>)
PushFun(c, f) == IF f = NoFun THEN c ELSE Push(c, f)

-----------------------------------------------------------------------------
(* Special forms (lib_spec.c).                                             *)

IsList(e) == e[1] \notin {"lit", "quote", "var"}

WhenForm(c, e) ==
  LET L == Len(c.labels[c.fun]) + 1
  IN  Do(NewLabels(c, 1),
         <<<<"next", e[2]>>, <<"emit", <<"jn", L>>>>, <<"next", e[3]>>, <<"label", L>>>>)

\* (faulty variant: no jump over the false branch)
IfFallsThrough(c, e) ==
  LET L1 == Len(c.labels[c.fun]) + 2
  IN  Do(NewLabels(c, 2),
         <<<<"next", e[2]>>, <<"emit", <<"jn", L1>>>>, <<"next", e[3]>>,
           <<"label", L1>>, <<"next", e[4]>>>>)

IfForm(c, e) ==
  LET L0 == Len(c.labels[c.fun]) + 1
      L1 == L0 + 1
  IN  Do(NewLabels(c, 2),
         <<<<"next", e[2]>>, <<"emit", <<"jn", L1>>>>, <<"next", e[3]>>,
           <<"emit", <<"jmp", L0>>>>, <<"label", L1>>, <<"next", e[4]>>,
           <<"label", L0>>>>)

\* (faulty variant: the jump out of the loop goes to its first label)
WhileStays(c, e) ==
  LET L0 == Len(c.labels[c.fun]) + 1
      L1 == L0 + 1
  IN  Do(NewLabels(c, 2),
         <<<<"label", L0>>, <<"next", e[2]>>, <<"emit", <<"jn", L0>>>>,
           <<"next", e[3]>>, <<"emit", <<"jmp", L0>>>>, <<"label", L1>>>>)

WhileForm(c, e) ==
  LET L0 == Len(c.labels[c.fun]) + 1
      L1 == L0 + 1
  IN  Do(NewLabels(c, 2),
         <<<<"label", L0>>, <<"next", e[2]>>, <<"emit", <<"jn", L1>>>>,
           <<"next", e[3]>>, <<"emit", <<"jmp", L0>>>>, <<"label", L1>>>>)

\* set! pushes the function that compiling its operand gave, if any
SetForm(c, e) ==
  Do(c, <<<<"next", e[3]>>, <<"fun">>, <<"emit", <<"set", e[2]>>>>>>)

\* akl_new_function and the move of cx_comp_func and cx_ir to it
Open(c, ps) ==
  [c EXCEPT !.irs = Append(@, <<>>), !.labels = Append(@, <<>>),
            !.params = Append(@, ps), !.fun = Len(c.irs) + 1]

\* the name is known before the body is compiled; the caller's context keeps
\* its own cx_comp_func and cx_ir
DefunForm(c, e) ==
  LET n == Len(c.irs) + 1
      d == Do([Open(c, e[3]) EXCEPT !.syms = [s \in DOMAIN @ \cup {e[2]} |->
                                                IF s = e[2] THEN <<"fun", n>> ELSE @[s]]],
              <<<<"next", e[4]>>>>)
  IN  [Push([d EXCEPT !.fun = c.fun], <<"sym", e[2]>>) EXCEPT !.ret = <<"fun", n>>]

LambdaForm(c, e) ==
  LET d == Do(Open(c, e[2]), <<<<"next", e[3]>>>>)
  IN  [d EXCEPT !.fun = c.fun, !.ret = <<"fun", Len(c.irs) + 1>>]

\* prefetch_function: the function of that name if it is known by now; the name
\* of a global that is none, which is never called
Prefetch(c, s) ==
  IF s \in DOMAIN c.syms /\ IsFun(c.syms[s]) THEN c.syms[s] ELSE NoFun
IsNoFunction(c, s) == s \in DOMAIN c.syms /\ ~IsFun(c.syms[s])

\* a call: the arguments, then CALL of the function fetched before them; when
\* the name is no function, NIL on top of the arguments and a warning
CallForm(c, e) ==
  LET args == [i \in 1 .. Len(e[3]) |-> <<"arg", e[3][i]>>]
  IN  IF IsNoFunction(c, e[2])
      THEN [Push(Do(c, args), Nil) EXCEPT !.told = @ \cup {"warning"}]
      ELSE Do(c, args \o <<<<"emit", <<"call", e[2], Prefetch(c, e[2]), Len(e[3])>>>>>>)

\* akl_compile_list after the opening brace
CompileList(c, e) ==
  LET b == [c EXCEPT !.ret = NoFun]
  IN  CASE e[1] = "call"   -> [CallForm(b, e) EXCEPT !.ret = NoFun]
        [] e[1] = "if"     -> [IfForm(b, e) EXCEPT !.ret = NoFun]
        [] e[1] = "when"   -> [WhenForm(b, e) EXCEPT !.ret = NoFun]
        [] e[1] = "while"  -> [WhileForm(b, e) EXCEPT !.ret = NoFun]
        [] e[1] = "set!"   -> [SetForm(b, e) EXCEPT !.ret = NoFun]
        [] e[1] = "defun!" -> DefunForm(b, e)
        [] e[1] = "lambda" -> LambdaForm(b, e)

\* akl_compile_next: a name that is not in a list is pushed as a symbol
CompileNext(c, e) ==
  IF IsList(e) THEN CompileList(c, e)
  ELSE [Push(c, IF e[1] = "var" THEN <<"sym", e[2]>> ELSE e[2]) EXCEPT !.ret = NoFun]

\* an argument in a list: the function a nested list gave is pushed on top
CompileArg(c, e) ==
  IF IsList(e) THEN LET d == CompileList(c, e) IN PushFun(d, d.ret)
  ELSE IF e[1] = "var" THEN Load(c, e[2]) ELSE Push(c, e[2])

Do(c, steps) ==
  IF steps = <<>> THEN c
  ELSE LET s == Head(steps)
       IN  Do(CASE s[1] = "next"  -> CompileNext(c, s[2])
                [] s[1] = "arg"   -> CompileArg(c, s[2])
                [] s[1] = "emit"  -> Emit(c, s[2])
                [] s[1] = "label" -> Label(c, s[2])
                [] s[1] = "fun"   -> PushFun(c, c.ret),
              Tail(steps))

\* the globals before the first form: the library, and what the interpreter was
\* started with (no arguments and no file)
Globals == [s \in Builtins |-> <<"cfun", s>>]
           @@ ("*args*" :> Nil) @@ ("*argc*" :> Whole(0)) @@ ("*file*" :> Nil)

Fresh == [irs |-> <<<<>>>>, labels |-> <<<<>>>>, params |-> <<<<>>>>, fun |-> 1,
          syms |-> Globals, ret |-> NoFun, told |-> {}]

\* akl_compile: every form of the device, then the last NOP of the main
\* function goes (a label may still point at it)
Compile(forms) ==
  LET c == Do(Fresh, [i \in 1 .. Len(forms) |-> <<"next", forms[i]>>])
  IN  [c EXCEPT !.irs[1] = IF @ = <<>> THEN @ ELSE Front(@)]
=============================================================================
