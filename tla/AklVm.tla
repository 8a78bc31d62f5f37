------------------------------- MODULE AklVm -------------------------------
(***************************************************************************)
(* The virtual machine of AkLisp: akl_ir_exec_branch and the calls it      *)
(* makes (src/src/aklisp.c), and the library functions that call back      *)
(* (src/src/lib.c), running compiled code.                                 *)
(*                                                                         *)
(* The stack is a sequence of values and a frame the place of its first    *)
(* argument: AklStack shows that the linked stack is that, as long as code *)
(* takes only values it pushed (OwnValues says when it does).  Compiler    *)
(* and library are constants, so that what is said of the machine does not *)
(* hang on them; the runs take AklCompile and AklLib.                      *)
(*                                                                         *)
(* What was told (ai_errors) is kept as the set of its kinds, with the end *)
(* of the process ("crash", "exit") if a call was its end.                 *)
(***************************************************************************)
EXTENDS AklValues

CONSTANTS
  Programs,       \* a set of programs, each a sequence of forms
  CodeOf(_),      \* akl_compile: the functions a program is compiled to (irs,
                  \* labels, params; 1 is the main one), the globals (syms) and
                  \* what the compiler told
  Library(_, _)   \* what a function of the library gives for its arguments

VARIABLES
  prog,       \* the program being run
  code,       \* what it is compiled to
  stack,      \* cx_stack
  ctl,        \* calls in progress (the C stack), innermost last
  globals,    \* the variables of the global scope
  intr,       \* ai_interrupted, set by SIGINT
  told        \* kinds of the errors and warnings told

vars == <<prog, code, stack, ctl, globals, intr, told>>

-----------------------------------------------------------------------------
(* Library functions that call back.                                       *)

CallsBack == {"map", "map-index", "foldl", "fold", "times", "times-index"}

Folds(f) == f \in {"foldl", "fold"}

\* akl_get_args_strict accepts the arguments
Accepts(f, a) ==
  Strict(a, CASE f \in {"map", "map-index"} -> <<"list", "function">>
              [] Folds(f) -> <<"any", "list", "function">>
              [] OTHER    -> <<"num", "function">>)

\* what is pushed for each call it makes (foldl: after the value so far)
Todo(f, a) ==
  CASE f = "map"       -> [i \in DOMAIN a[1][2] |-> <<a[1][2][i]>>]
    [] f = "map-index" -> [i \in DOMAIN a[1][2] |-> <<Whole(i - 1), a[1][2][i]>>]
    [] Folds(f)        -> [i \in DOMAIN a[2][2] |-> <<a[2][2][i]>>]
    [] f = "times"     -> [i \in 1 .. Trunc(a[1][2]) |-> <<>>]
    [] f = "times-index" -> [i \in 1 .. Trunc(a[1][2]) |-> <<Whole(i - 1)>>]

\* how many of them are its arguments: map_index says 1
ArgcOf(f) == CASE Folds(f) -> 2 [] f = "times" -> 0 [] OTHER -> 1

Each(f, a) ==
  [kind |-> "each", f |-> f, fn |-> Last(a), todo |-> Todo(f, a), waits |-> FALSE,
   acc  |-> IF Folds(f) THEN a[1] ELSE <<"list", <<>>>>]

-----------------------------------------------------------------------------
(* Calls.                                                                  *)

Lisp(f, st, n) ==
  [kind |-> "lisp", fun |-> f, ip |-> 1, argc |-> n,
   base |-> IF n \in 1 .. Len(st) THEN Len(st) - n + 1 ELSE 1, own |-> Len(st)]

\* (faulty variant: NULL is pushed like a value)
PushAny(st, v) == Append(st, v)

\* a library function that gives NULL leaves nothing
PushTo(st, v) == IF v = Null THEN st ELSE Append(st, v)

\* (faulty variant: what a call tells is lost)
Silence(r) == told \cap r.told

\* akl_raise_error by the call, or because it gave back NULL
Telling(r) ==
  told \cup r.told \cup (IF r.v = Null /\ r.told \cap {"crash", "exit"} = {} THEN {"null"} ELSE {})

\* akl_call_function_bound(f, n): a library function runs at once; c is the
\* stack of calls without the callee
Invoke(f, n, st, c) ==
  LET k    == IF n < Len(st) THEN n ELSE Len(st)
      rest == SubSeq(st, 1, Len(st) - k)
      a    == SubSeq(st, Len(st) - k + 1, Len(st))
  IN  \/ /\ f[1] = "fun"
         /\ stack' = st /\ ctl' = Append(c, Lisp(f[2], st, n))
         /\ UNCHANGED told
      \/ /\ f[1] = "cfun" /\ f[2] \notin CallsBack
         /\ LET r    == Library(f[2], a)
                over == r.told \cap {"crash", "exit"} # {}
            IN  /\ told'  = Telling(r)
                /\ stack' = IF over THEN <<>> ELSE PushTo(rest, r.v)
                /\ ctl'   = IF over THEN <<>> ELSE c
      \/ /\ f[1] = "cfun" /\ f[2] \in CallsBack /\ Accepts(f[2], a)
         /\ stack' = rest /\ ctl' = Append(c, Each(f[2], a))
         /\ UNCHANGED told
      \/ /\ f[1] = "cfun" /\ f[2] \in CallsBack /\ ~Accepts(f[2], a)
         /\ stack' = Append(rest, Nil) /\ ctl' = c
         /\ told' = told \cup {"args"}

Body(f)  == code.irs[f]
Depth    == Len(ctl)
Rec      == ctl[Depth]
InLisp   == ctl # <<>> /\ Rec.kind = "lisp"
InEach   == ctl # <<>> /\ Rec.kind = "each"
In       == Body(Rec.fun)[Rec.ip]
Moved    == [ctl EXCEPT ![Depth].ip = @ + 1]
Target(l) == code.labels[Rec.fun][l]
Returned == SubSeq(ctl, 1, Depth - 1)

\* (faulty variant: the flag is not looked at before an instruction)
NeverChecked == TRUE

\* the test at the head of the loop of akl_ir_exec_branch
Unchecked == ~intr

At(op) == InLisp /\ Rec.ip <= Len(Body(Rec.fun)) /\ Unchecked /\ In[1] = op

-----------------------------------------------------------------------------
(* Instructions.                                                           *)

Nothing ==
  /\ At("nop")
  /\ ctl' = Moved
  /\ UNCHANGED <<prog, code, stack, globals, intr, told>>

PushValue ==
  /\ At("push")
  /\ stack' = Append(stack, In[2])
  /\ ctl' = Moved
  /\ UNCHANGED <<prog, code, globals, intr, told>>

\* akl_frame_at does not look at the count of the frame
LoadArg ==
  /\ At("load")
  /\ LET i == Rec.base + In[2]
     IN  stack' = IF i <= Len(stack) THEN Append(stack, stack[i]) ELSE stack
  /\ ctl' = Moved
  /\ UNCHANGED <<prog, code, globals, intr, told>>

Get ==
  /\ At("get")
  /\ stack' = Append(stack, IF In[2] \in DOMAIN globals THEN globals[In[2]] ELSE Nil)
  /\ ctl' = Moved
  /\ told' = IF In[2] \in DOMAIN globals THEN told ELSE told \cup {"undefined"}
  /\ UNCHANGED <<prog, code, globals, intr>>

\* SET leaves the value on the stack
Set ==
  /\ At("set")
  /\ globals' = IF stack = <<>> THEN globals
                ELSE [s \in DOMAIN globals \cup {In[2]} |->
                        IF s = In[2] THEN Last(stack) ELSE globals[s]]
  /\ ctl' = Moved
  /\ UNCHANGED <<prog, code, stack, intr, told>>

Jump ==
  /\ At("jmp")
  /\ ctl' = [ctl EXCEPT ![Depth].ip = Target(In[2])]
  /\ UNCHANGED <<prog, code, stack, globals, intr, told>>

\* (faulty variant: the value stays on the stack)
Kept == stack

\* akl_stack_pop
Popped == IF stack = <<>> THEN stack ELSE Front(stack)

JumpIfNil ==
  /\ At("jn")
  /\ stack' = Popped
  /\ ctl' = IF IsNil(LastOf(stack)) THEN [ctl EXCEPT ![Depth].ip = Target(In[2])]
                                    ELSE Moved
  /\ UNCHANGED <<prog, code, globals, intr, told>>

\* in_fun, or the function the global variable holds now (akl_bound_function)
Callee ==
  IF In[3] # NoFun THEN In[3]
  ELSE IF In[2] \in DOMAIN globals THEN globals[In[2]] ELSE Null

Call ==
  /\ At("call") /\ IsFun(Callee)
  /\ Invoke(Callee, In[4], stack, Moved)
  /\ UNCHANGED <<prog, code, globals, intr>>

\* the error leaves the arguments on the stack
CallFails ==
  /\ At("call") /\ ~IsFun(Callee)
  /\ ctl' = Moved
  /\ told' = told \cup {"function"}
  /\ UNCHANGED <<prog, code, stack, globals, intr>>

\* akl_frame_destroy: the arguments go, what is above them stays
Dropped(r) ==
  LET low == IF r.base <= Len(stack) THEN r.base - 1 ELSE Len(stack)
  IN  SubSeq(stack, 1, low) \o SubSeq(stack, r.base + r.argc, Len(stack))

\* the end of the body, or of the main program
Return ==
  /\ InLisp
  /\ Rec.ip > Len(Body(Rec.fun)) \/ intr
  /\ stack' = Dropped(Rec)
  /\ ctl' = Returned
  /\ told' = IF intr /\ Rec.ip <= Len(Body(Rec.fun)) THEN told \cup {"interrupted"} ELSE told
  /\ UNCHANGED <<prog, code, globals, intr>>

-----------------------------------------------------------------------------
(* The loops of map, foldl and times.  They do not look at the flag: after *)
(* an interruption they go on, with calls that do nothing.                 *)

\* the list is over, or what akl_list_it_next gives is NULL
NoMore == Rec.todo # <<>> => Null \in ToSet(Head(Rec.todo))

\* foldl pushes the NULL it popped from an empty stack
PushesNull == Folds(Rec.f) /\ Rec.acc = Null

EachCall ==
  /\ InEach /\ ~Rec.waits /\ ~NoMore /\ ~PushesNull
  /\ LET pushed == IF Folds(Rec.f) THEN <<Rec.acc>> \o Head(Rec.todo)
                                      ELSE Head(Rec.todo)
     IN  Invoke(Rec.fn, ArgcOf(Rec.f), stack \o pushed,
                [ctl EXCEPT ![Depth].todo = Tail(@), ![Depth].waits = TRUE])
  /\ UNCHANGED <<prog, code, globals, intr>>

\* the assertion of akl_stack_push
EachAborts ==
  /\ InEach /\ ~Rec.waits /\ ~NoMore /\ PushesNull
  /\ stack' = <<>> /\ ctl' = <<>>
  /\ told' = told \cup {"crash"}
  /\ UNCHANGED <<prog, code, globals, intr>>

EachTake ==
  /\ InEach /\ Rec.waits
  /\ stack' = Popped
  /\ ctl' = [ctl EXCEPT ![Depth].waits = FALSE,
                        ![Depth].acc = IF Folds(Rec.f) THEN LastOf(stack)
                                       ELSE <<"list", Append(@[2], LastOf(stack))>>]
  /\ UNCHANGED <<prog, code, globals, intr, told>>

EachDone ==
  /\ InEach /\ ~Rec.waits /\ NoMore
  /\ stack' = PushTo(stack, Rec.acc)
  /\ ctl' = Returned
  /\ told' = Telling(Gives(Rec.acc))
  /\ UNCHANGED <<prog, code, globals, intr>>

\* interrupt_program, once (a second signal ends the process: see AklRepl)
Interrupt ==
  /\ ctl # <<>> /\ ~intr
  /\ intr' = TRUE
  /\ UNCHANGED <<prog, code, stack, ctl, globals, told>>

-----------------------------------------------------------------------------
\* akl_execute: a new stack, and the flag is cleared
Init ==
  /\ prog \in Programs
  /\ code = CodeOf(prog)
  /\ stack = <<>>
  /\ ctl = <<Lisp(1, <<>>, 0)>>
  /\ globals = code.syms
  /\ intr = FALSE
  /\ told = code.told

Step == \/ Nothing \/ PushValue \/ LoadArg \/ Get \/ Set \/ Jump \/ JumpIfNil
        \/ Call \/ CallFails \/ Return
        \/ EachCall \/ EachAborts \/ EachTake \/ EachDone

Next == Step \/ Interrupt

\* the interpreter runs: only the user may do nothing
Fairness == WF_vars(Step)

Spec == Init /\ [][Next]_vars /\ Fairness

-----------------------------------------------------------------------------
(***************************************************************************)
(* What code does to the stack.                                            *)
(***************************************************************************)
\* how many values an instruction takes or looks at
Needs(i) == CASE i[1] \in {"jn", "set"} -> 1 [] i[1] = "call" -> i[4] [] OTHER -> 0

\* how many there are after it, if there were h; a call has left its value
After(i, h) == CASE i[1] \in {"push", "load", "get"} -> h + 1
                 [] i[1] = "jn"   -> h - 1
                 [] i[1] = "call" -> h - i[4] + 1
                 [] OTHER         -> h

\* where the code of f goes on after ip
Nexts(c, f, ip) ==
  LET i == c.irs[f][ip]
  IN  (IF i[1] \in {"jmp", "jn"} THEN {c.labels[f][i[2]]} ELSE {})
        \cup (IF i[1] = "jmp" THEN {} ELSE {ip + 1})

Operations == {"nop", "push", "load", "get", "set", "jmp", "jn", "call"}

\* The code has only such instructions, loads only parameters of its function
\* and never jumps out of its body.
WellMade(c) ==
  \A f \in DOMAIN c.irs : \A ip \in DOMAIN c.irs[f] :
    LET i == c.irs[f][ip]
    IN  /\ i[1] \in Operations
        /\ i[1] = "load" => i[2] \in Nat /\ i[2] < Len(c.params[f])
        /\ i[1] = "call" => i[4] \in Nat
        /\ Nexts(c, f, ip) \subseteq 1 .. Len(c.irs[f]) + 1

\* There are H[f][ip] values of its own on the stack when the function f is at
\* ip, whatever way it took; the main program (1) may have more of them.  Each
\* instruction finds what it needs, and a function ends with one value.
BalancedBy(c, H) ==
  \A f \in DOMAIN c.irs :
    /\ H[f] \in [1 .. Len(c.irs[f]) + 1 -> Nat]
    /\ H[f][1] = 0
    /\ f # 1 => H[f][Len(c.irs[f]) + 1] = 1
    /\ \A ip \in DOMAIN c.irs[f] :
         LET i == c.irs[f][ip]
         IN  /\ Needs(i) <= H[f][ip]
             /\ \A n \in Nexts(c, f, ip) : \/ H[f][n] = After(i, H[f][ip])
                                           \/ f = 1 /\ H[f][n] <= After(i, H[f][ip])

-----------------------------------------------------------------------------
(***************************************************************************)
(* Properties.                                                             *)
(***************************************************************************)
Kinds == {"num", "nil", "t", "sym", "str", "list", "fun", "cfun"}

\* Type invariant: the stack and the globals hold values, never the NULL of a
\* library function, and the instruction pointer stays in the body or just
\* behind it (the last NOP of the main program is removed).
TypeOK ==
  /\ \A i \in DOMAIN stack : stack[i][1] \in Kinds
  /\ \A s \in DOMAIN globals : globals[s][1] \in Kinds
  /\ \A k \in DOMAIN ctl :
       \/ ctl[k].kind = "each"
       \/ ctl[k].ip \in 1 .. Len(Body(ctl[k].fun)) + 1
  /\ intr \in BOOLEAN

\* A function that gave NULL and a call of what is no function have told so, and
\* leave nothing, or their arguments, for the caller.
Quiet == told \cap {"null", "function"} = {}

\* Code takes from the stack only what it pushed itself: a conditional jump has
\* a value to test, SET one to keep, and a call has its arguments above the values
\* of the callers and above the arguments of the running function.
OwnValues ==
  (InLisp /\ ~intr /\ Quiet /\ Rec.ip <= Len(Body(Rec.fun))) =>
    Len(stack) - Rec.own >= Needs(In)

\* A call of a function written in Lisp leaves the values of its callers as they
\* were and exactly one value in place of its arguments.
CallLeavesOne ==
  [][(Return /\ Depth > 1 /\ ~intr /\ Quiet) =>
       stack' = Append(SubSeq(stack, 1, Rec.own - Rec.argc), Last(stack))]_vars
=============================================================================
