# AkLisp in TLA+

AkLisp is a small Lisp interpreter in C: a lexer, a compiler that turns forms into
instructions in one pass, a stack machine that runs them, a library of C functions, and a pool
allocator with the remains of a mark-and-sweep collector. One thread runs all of it; the only
concurrency is SIGINT. Paths below are relative to the repository; modules are in this directory.

## Inventory

| Part (source) | State | Operations | What makes it correct |
|---|---|---|---|
| Pools (`src/gc.c`) | chains of pools per type, bitmap and count per pool, collector switch | malloc, sweep, tryfree, enable, disable, no-memory handler | no slot given twice, no pool made while one has room, chains survive freeing |
| Lists (`src/list.c`) | doubly linked entries, headers with head, last, count | append, insert, remove, pop, shift, index, cdr, iterators | links, header and count agree, also when headers share entries |
| Stack and frames (`src/aklisp.c`, `src/types.c`) | the stack list; a frame per call, a header into the same entries | push, pop, frame shift and pop, LOAD, call, return | a call takes its own arguments and nothing of its callers |
| Compiler, special forms (`src/compile.c`, `src/lib_spec.c`) | the body and labels of the function being compiled | one builder per instruction; `if`, `when`, `while`, `set!`, `defun!`, lambda | the code does what the form means |
| Machine (`src/aklisp.c`) | instruction pointer per call, context, globals | one case per instruction, calls, interruption | results, termination, stops on a signal |
| Library (`src/lib.c`) | none of its own | 64 C functions; `map`, `foldl`, `times` call back | values as documented, misuse is told, callbacks keep the stack balanced |
| Interactive loop, signals (`src/main.c`, `src/os_unix.c`) | the flag `ai_interrupted` | read, compile, execute, answer, `load`; the handler | a line runs as entered, a signal stops a program once |
| Symbols, variables (`src/types.c`, `src/util.c`) | two red-black trees | get or make, set | one variable per name |
| Vectors (`src/vector.c`) | buffer, count, size | push, grow, truncate, find | no write behind the buffer |
| Lexer, parser (`src/lexer.c`, `src/parser.c`) | position, pending sign, one token put back | next token, put back, read a quoted value | tokens in order, none lost |
| Modules (`src/module.c`, `src/os_unix.c`) | list of loaded modules | load with dependencies, unload | loaded once, undone on failure |
| Errors (`src/aklisp.c`) | list of messages | raise, print, clear | no duplicate |

How they meet: the interactive loop gives a line to the compiler, which pulls tokens from the lexer
and calls special forms (which pull more); the machine runs the code of the main function on a new
stack; a CALL makes a frame over the last values of the stack and calls C or runs Lisp; `map` and
its like push onto the same stack and call again; everything asks the pools for memory. The handler
of SIGINT writes one flag that the compiler, `akl_execute` and the machine each treat in their own
way. The hard behaviours are list headers that share entries while both are changed, loops that
count or walk past a boundary, callbacks inside calls inside callbacks, an interruption at every
instruction or token, and an allocator whose cases depend on the order of requests of several types.

## Modules

| Module | Models | Role |
|---|---|---|
| `GcPool`, `GcPoolProofs` | `gc.c` | pools; theorems |
| `AklList`, `AklListProofs` | `list.c` | append, insert, remove, shift, cdr, index, walks on links; theorems |
| `AklStack`, `AbstractStack` | `aklisp.c`, `types.c` | linked stack and frames; the stack with argument sets they implement |
| `AklStackProofs`, `AklStackRefines` | | the invariant of the stack for any bounds; the refinement |
| `AklLists`, `MCAklLists`, `AklListsProofs` | `list.c`, list functions of `lib.c` | lists that share entries, changed in place and iterated; theorems |
| `AklLexer`, `AklReader`, `MCAklReader` | `lexer.c`, `parser.c`, `vector.c`, parts of `compile.c`, `lib_spec.c` | reading, one character per step; texts and properties |
| `AklReaderProofs` | | theorems about the device, the buffer and the parameters, for any text |
| `AklValues` | `aklisp.h`, `types.c` | values, what a library function gives, the test of arguments |
| `AklCompile` | `compile.c`, `lib_spec.c` | the compiler, as operators |
| `AklLib`, `AklCompare` | `lib.c`, values of `aklisp.c` | library functions from arguments to value and errors; the comparison of two lists |
| `AklVm` | `aklisp.c`, callbacks of `lib.c` | the machine running code |
| `AklVmLib` | | the machine with the library: what it tells of calls |
| `AklVmProofs` | | theorems about the machine for any code and library, and with the library |
| `AklUses`, `AklMeaning`, `MCAklVm` | README.md | which uses of a function are right and wrong; what a program means; programs and properties |
| `AklRepl`, `MCAklRepl`, `AklReplProofs` | `main.c`, `os_unix.c`, `load`, token loop of `compile.c` | the loop, the flag, the signal; theorems |

`GcPool`: one action per path through `akl_gc_malloc` (`MallocFirst`, `MallocLast`, `MallocOther`,
`MallocCollect`, `MallocGrow`, `MallocAbort`), the switch, and the out-of-memory handler. A new pool is always
linked behind the last one, so a chain is a set of numbers. The word width and the number of words
are constants. Undefined behaviour is a choice: the bits `memset` misses (`Garbage`), the index
`akl_gc_type_have_free` never sets (any slot), the use of a freed pool (the process may abort).

`AklList` is stateless: headers and links in, headers and links out. `AklStack` and `AklLists` run it.
In `AklStack`, `stack` is `cx_stack`, `frames` the headers `akl_init_frame` makes, and its loop,
`akl_list_index_entry`'s and `akl_frame_destroy`'s take one turn per step. `items` and `calls` record,
beside the code, which entries are on the stack and which belong to whom; `AbstractStack` is that
record alone with the operations a user of the stack expects. `AklStack` assumes that code pops and
calls only with values it pushed; `OwnValues` of `AklVm` is that assumption, proved of
balanced code and checked of the code the compiler makes.

In `AklLists` a program holds lists in variables, and `tail`, `append!`, `insert!` and `index` go through
whichever header the variable has; `foldl` runs between them with its iterator. A header has the mark
`is_nil` (`nil`): `akl_cdr` sets it for the tail of one element, an append or an insertion clears it, and
`akl_list_index_entry` asserts that it is not set, so that `index` of a marked list ends the process. Beside the code, `abs`
is what each list was made of and `spoiled` the lists that somebody else's operation has changed.

`AklLexer` has an action for each place where `akl_lex` takes a character (`CopyString`, `CopyAtom`,
the sign that waits, the token put back), over a device that is a string or a file: they differ in
what is behind the end and in what can be put back. `AklReader` is who asks for tokens: the parser of
quoted values with its open lists, the parameters with the vector they are kept in, the docstring.

`AklCompile` translates the compiler function by function; a compilation is a record of bodies,
labels and parameters, and the last instruction of a body is the NOP that labels point at. `AklVm`
has one action per instruction; `ctl` is the C stack, a record per `akl_call_function_bound` of a
Lisp function and per loop of `map`, `foldl` or `times`, whose turns are steps. A library function
that does not call back runs within CALL and is an operator of `AklLib` that gives a value and the
kinds of errors told. `AklVm` knows neither compiler nor library: `CodeOf` and `Library` are constants,
which the runs set to `Compile` and `Apply`, so that theorems about the machine need no recursive
operator. In the same way `AklLib` has the constant `CompareLists`, set to `ListsCompared` of `AklCompare`: the loop
over two lists calls the comparison again. A comparison is `Order(n)`, or `Null` where the assertion of the code fails. A number is a multiple of 1/12, enough for halves, thirds and quarters of small numbers. After an
interruption the loops of `map` go on and pop values of their callers, as in the code; the whole
stack is dropped then, so the links between those values are not followed further. `AklMeaning`
is written from README.md and the documentation strings, without instructions or a stack; the part of it that
says which arguments a function takes (`Misused`, `HasMeaning`) is `AklUses`. `AklVmLib` states over the
steps of the machine what must be told of a library call, with `Invoked` and `InvokedWith` for the function and the
arguments of a CALL or of a turn of a loop.

`AklRepl` works on tokens: the levels of `akl_compile_list` are explicit because an interruption
ends one level and gives the rest of its tokens to the one above. A program that calls `load` waits
in `outer` while its file is compiled and executed by the same steps, with the same flag. What a text compiles to
when nothing interrupts it is the constant `Steps`, fixed by the assumption `TextsAssumption` to be
`After`, token by token.

## Runs

| Run | Bounds | Shows |
|---|---|---|
| `gc_bump` | 2 types, 2 words of 2 bits, 6 pools, 20 requests | as the interpreter starts (collector off): no aliasing, no pool too many |
| `gc_collect` | 5 pools, 14 requests | collector switched at will, host out of memory: chains sound, counts cover bitmaps, nothing is taken from a pool given back to the host |
| `gc_nomem` | 4 pools | finding: the head of a chain is freed with live objects in it |
| `gc_dirty` | 4 pools | finding: stale bits in the bitmap give a slot twice |
| `stack` | 5 entries, 2 calls deep, 2 arguments | links, headers and counts agree, frames of all callers too; refinement |
| `stack_ungiven` | 4 entries, 1 call | finding: an ungiven parameter reads another value |
| `lists` | 2 variables, 6 entries, 5 of them until a loop is over | a list is what was made of it while no one else changes a shared entry; no circle ever; an iteration meets everything; `tail` crashes only on a list others changed |
| `reader` | some 7000 texts, buffer of 3 characters | values and definitions are read as written; no read behind a complete text; buffer and vector grow in time; reading ends |
| `vm` | 3600 programs | result and globals are the meaning; a wrong use of a function is told and a right one is not, in every call of the program; the compiler makes balanced code; code takes only its own values; calls leave one value; a signal stops everything; what should end ends |
| `vm_barevar` | one program | finding: a bare variable as a condition is always true |
| `repl` | 9 lines, 2 files, loads 2 deep, any number of lines and signals | quiet lines and what they load run as entered, one signal never kills, a signal stops the program and all that wait |
| `repl_stale` | the same | finding: a signal mangles a later line |

Why the bounds are enough. Two types are the fewest that can interleave; two words with two bits
reach every branch on words and on bits, and five or six pools give chains of three, where the
middle can be freed. The stack needs two calls for a frame below a frame and two arguments for the
first, the last and a count of zero; a fifth entry leaves a value below and a temporary above.
(The theorems below hold for any of these numbers.) Two lists are the fewest that share entries, and a tail of the other's tail, an append through the older
header, one more append and a crash of `tail` take six entries.

The texts of `reader` are written from values in four styles (tight, with spaces, with newlines, with
comments), as strings and as files: every pair of fifteen kinds of leaves, lists in lists at either
end, parameter lists up to four with four kinds of bodies, the same cut off by one to eight
characters, scripts with a first line for the shell, and ill-formed ones. The buffer starts at 3
instead of 50 so that it grows several times within a name, and a fourth parameter grows the vector. Texts are "sure" when they
are complete and avoid what the findings below name: a sign before a newline or a brace, and names
that begin with a sign in files.

The programs of `vm` put each kind of expression in each place of a conditional, in a conditional in a
conditional and between other arguments, call the function twice with different arguments, and add recursion,
mutual recursion, loops, every function that calls back, calls that fail (of a name that is nothing, and of `*argc*`, which
is a number: the compiler pushes NIL over the argument and warns), and 44 functions of the library between
two other arguments, with one and with two arguments of every type (zero, a negative number, a
fraction, lists of equal and of different elements, strings of digits). No argument is an empty string: the reader makes
NIL of `""`, and about those that a program computes the code and README.md disagree (`lib.c:71` below). The lines of `repl` have lists nested at
either end, two forms, a missing brace, a loop and loads; one file never ends, one loads another in the
middle of a call. Special forms and the quote are left out of them: a form's own code takes its tokens with calls
of the compiler for each operand, so what an interruption in the middle of one leaves is not covered. Counts of signals are capped at two because the handler only tells none, one and more.

Each property has a mutant: a plausible bug in a translated operator (the definitions marked
"faulty variant") that makes the run fail on that property.

Fairness is weak fairness of the interpreter's own steps (`Step`, `Work`, the reader's `Next`) taken as one action:
there is one thread and it goes on unless it ends. The user and the signal get none. `vm` checks
that a program whose meaning is finite ends and that a signal ends even `(while 1 (when NIL 1))`;
`repl` that the prompt comes back to a program that a signal met; `reader` that every text is read to its
end. The runs do not check deadlock: a finished program, an ended process, a text that was read and a
model at its bound stop.

## Proofs

All are checked by tlapm, for all values of the constants that satisfy the named assumptions.

**Pools** (`GcPoolProofs`; widths, types and bounds from `WidthAssumption`, `BoundAssumption`,
`GarbageAssumption`, `SwitchAssumption`):

- `ChainInvariant`: the inductive invariant `ChainInv`, which adds to `TypeOK` that chains hold
  made pools and are disjoint, that `gt_pool_last` is the end of the chain, and that freed pools
  still reached form the front of a chain. `ChainSound` alone is not inductive: when the head
  was freed it says nothing, and unlinking then needs to know where the freed pools are.
- `TypeCorrect`, `ChainsStaySound` and `NothingComesFromFreed` follow from it. For the last, a pool is taken from
  only when it is behind a living head or is the last one, and `ChainInv` says that neither is freed.
- `CountsCover`: when memory is zeroed, counters cover the bitmaps, so no sweep goes below zero.
- `BumpInvariant`, `NoAliasing`: with collector off and memory enough, pools fill upwards and no slot is given
  twice. The invariant `BumpInv` also says that the bits set are those of the objects held, without which a
  clear bit would not be a free slot.
- `PoolsAreNeeded`: `AllCounted`, that with the collector off the objects held of a type are as many as fill all
  its pools but the last, and what the last one counts, at least one; a step changes this for one type only.

**Lists** (`AklListProofs`): for any links, headers and sets of entries, `AppendKeepsList` and
`RemoveKeepsList` (a list in order stays one), and the two facts that sharing a list needs:
`ShiftThenRemove` (shifting through one header and removing through another leaves the links of one
removal: the link `akl_list_shift_entry` clears is set again) and `RemoveTwice`.

**Stack** (`AklStackProofs`, any numbers of entries, calls and arguments, `BoundsAssumption`).
`StackInvariant` proves the inductive `IInv`, of three parts:

- `StackInv`: `Linked`, and entries not yet pushed have no links, so that an append finds them as
  `akl_list_append` makes them;
- `CallsInv`: `FramesLead`, `CallerUntouched`, and `Nested`: the arguments of a call lie above what its
  caller keeps and above all earlier calls. Without `Nested` a pop could not be told to leave the frames of the
  callers alone, and the arguments of a call could have a stranger between them;
- `WalkInv`: the walk of `akl_init_frame` has found one argument per turn, so the frame it makes leads to as many
  as it counts.

`TypeCorrect`, `StackStaysLinked`, `FramesAlwaysLead` and `CallersStayUntouched` are the four invariants of
the run. `AklStackRefines` adds `LoadInv` (`WalksStayOnStack`: the walks never leave the stack, and
`akl_frame_at` has passed one argument per turn while the parameter was given; this needs that a frame's
head is an entry of the call or below it even when the call has no arguments), maps each action to
an action of `AbstractStack` or a stutter, and concludes `StackRefines`: `Spec => ImplementsStack`.

**Shared lists** (`AklListsProofs`, any numbers of variables and entries, `ListsAssumption`).
`ListsInvariant` proves the inductive `ListsInv`. A header may be stale, and an append through it relinks an
entry in the middle of other lists, so no statement about one list at a time is inductive. What is:

- `Ordered`: there is one order of all entries in which every link, whoever made it, leads forward. It
  gives `WalksAlwaysEnd`: no sequence of appends, inserts and tails makes a circle, although headers disagree;
- `Headers` and `Fresh`: a header with a head has a last entry, and entries not yet made are not linked;
- `Histories`: the list of a variable that nobody else changed is what its header leads to, in order, with its
  count, and marked NIL only when it is the empty tail (`IntactListsAreRight`), and a `tail` that crashes belongs to a list that was changed
  (`OnlySpoiledListsCrash`);
- `Loop`: what an iteration has still to visit is the rest of what the list had when it began
  (`IterationsMeetAll`).

Inductions over places are made with sets of numbers (`AllNaturals`), which the provers can instantiate.

**Machine** (`AklVmProofs`, any programs, code and library that satisfy `Machine`: there are values of the known
kinds, closed under lists; functions of the library give such a value or NULL; code has only the instructions the
compiler makes, loads only parameters of its function and does not jump out of its body).

- `TypeCorrect`: stack and globals hold values, never NULL, and the instruction pointer stays in the body.
  `TypeOK` is not inductive: one must know of a loop in progress how many values each of its turns pushes, that what it
  collects is a list, and that the function of every record was compiled (`TypeInv`).
- `BalancedCodeOwnsItsValues` (`OwnValues`) and `BalancedCallsLeaveOne` (`CallLeavesOne`) assume
  `CodeBalanced`: for every place of the code there is a number of values its function has there, whatever way led to
  it (`BalancedBy`, a condition on the code alone, like the verification of byte code). The run checks it of all the code it
  compiles (`CodeIsBalanced`). The invariant `HeightInv` says that the calls in progress account for the stack: one
  number of values per call (`Built`), where a call that waits counts the value it waits for, and a loop counts its list until it
  is pushed. `CallLeavesOne` alone is useless as a hypothesis of the next call: that the result is the only value
  left needs the heights along the whole body.
- They hold for runs in which `Given` does: a call gives at least as many arguments as its function has
  parameters (nothing in the code tests that: see the finding on LOAD), and `map-index`, which leaves its indexes behind, is
  not used. And they speak of states in which nothing was told of a function that is none or gave NULL (`Quiet`), for then
  the stack is off by what is missing. A body that ends in `when`, or has a `while` as an argument, is not balanced.

- `MisuseAlwaysTold` (`MisuseIsTold`) and `ProperUseAlwaysSilent` (`ProperUseIsSilent`) put the library of `AklLib` into the
  machine (`LibraryIsApply`). They hold for any programs and any code, also code that is not balanced: a call with
  the wrong number or types of arguments is told, from an instruction or from a turn of a loop, with whatever is
  on the stack, nothing told is lost, and a call that README.md gives a value tells nothing. The argument: what a
  step hands to the library is `InvokedWith` (`StepInvokes`), values with a shape (`ValuesAreValues`); for each family of
  functions, by how it takes its arguments, a lemma says when it tells (`CountingTell`, `LenientTell`, `OthersTell`;
  `ArithmeticSilent`, `ComparisonSilent`, `SequenceSilent`), and what it tells reaches `told` (`InvokeTells`).
  `LibraryIsApply` leaves `int` and `string` free for arguments without meaning, for which they read what nobody wrote.
  `head`, `last`, `tail` and `index` take the last of too many arguments without a word, so `Misused` does not
  call that a wrong use.

**Interactive loop** (`AklReplProofs`, any lines and files, any depth of loads):

- `FlagInvariant`, `TwoSignalsKill`: how old a set flag can be; `KilledByTwo` alone says nothing of
  the flag the next signal finds.
- `TypeInvariant`, `TypeCorrect`: `TypeInv` adds to `TypeOK` that a text is being worked on and that no
  instruction was executed while it is compiled.
- `QuietInvariant`, `QuietLinesAreRun`: `AsWritten` says that while no signal is about, what has been compiled is
  what `Steps` gives for the tokens read, and a program that waits has the code of its text.
  `QuietLinesRun` alone speaks only of programs that have been executed.

**Reader** (`AklReaderProofs`, any texts, `SourcesAssumption` and `BufferAssumption`): `ReaderInvariant` proves
the inductive `ReadInv`, from which `BufferAlwaysHolds` (`BufferHolds`) and `ParamsStayInside`
(`ParamsInside`) follow. `TypeCorrect` adds `PosInv`: how far the device is read, that what is in the buffer was
read (`lex.i < in.pos`, so `put_buffer` never gets an index the text did not pay for), and with it
the bound of the buffer; the end of a file is the one character that is put and not read, and it ends
the token. The three parts of `ReadInv` are needed for each other: `LexInv` (the device is read at a place
of the text, and a sign that waits was read, so that it can be put back), `BufInv` (`put_buffer`
never writes farther than one behind what it has put) and `ParInv` (the vector has room for one
more, and is never of size 1, which would grow by nothing).

Model-checked only: what programs mean (`ResultIsMeaning`), that the compiler makes balanced code
(`CodeIsBalanced`), what the reader reads (`QuotedIsRead`, `LambdaIsRead`, `NoReadBehind`), and the liveness properties. Liveness under fairness is out of the prover's reach, and so is what
recursive operators compute (`AklCompile`, `AklCompare`, `AklMeaning`, `Text` of `MCAklReader`), for it has no induction over
data. For the same reason that `Apply` meets the part of `Machine` on the library (it gives values of the known
kinds or NULL) is not proved: sums and products are folds. `TypeOK` of the run `vm` checks it.

## Found while modelling

PROJECT.json quotes the lines. With a run that shows them: the head pool can be freed although the
comment excludes it (`gc.c:390`); `memset` clears 2 bytes of 8 (`gc.c:484`); LOAD ignores the count of
the frame (`aklisp.c:546`); a bare variable is compiled as a symbol (`compile.c:369`); the flag of a
signal outlives the program it stopped (`compile.c:255`).

Modelled as the code does it, and kept out of what the properties promise:

- stack and calls: `map-index` calls with one argument of two (`lib.c:758`); `when` gives no value when its condition is NIL
  (`lib_spec.c:34`); `disassemble` of no symbol and `number` of a list leave nothing (`lib.c:850`), after which `map` puts NULL
  into its list, and `foldl` may end the process (`lib.c:778`);
- values: `mod` by zero ends the process (`lib.c:302`); fractions are compared as whole numbers
  (`aklisp.c:869`); an empty string that was computed is not NIL (`lib.c:71`); comparing lists takes both values from the first (`aklisp.c:909`); `akl-cfg!` refuses every call (`lib.c:138`);
- lists: `tail` of a list that lost elements crashes (`list.c:330`); the tail of one element is a list marked NIL in
  a value that is not, of which `index` fails an assertion (`lib.c:593`); a negative index walks past the head (`list.c:216`); `insert!` into
  a string gives a list (`lib.c:635`);
- reading: two characters are put back in the wrong order on a file (`lexer.c:321`); a newline does
  not end a sign (`lexer.c:262`); after a docstring a token is lost (`lib_spec.c:207`); a parameter list
  that is cut off is never read to its end (`lib_spec.c:128`); `''a` crashes (`parser.c:81`); an
  unclosed list reads behind the string (`parser.c:47`); comments are not counted as lines
  (`lexer.c:315`); a name at the end of a file gets a byte more (`lexer.c:195`);
- signals: one that comes while `load` compiles does not stop the program outside (`lib.c:1098`); after one `foldl` may
  push NULL, which ends the process (`lib.c:781`).

## Not modelled, and why

- The module loader: the repository's README calls modules broken and turned off, and nothing in the build
  calls it; what uses only it (searching and removing by value in lists) goes with it.
- Vectors beyond growing and pushing: truncating, popping, setting and copying have no caller in the
  interpreter.
- Printing, dumps, the text of errors, `describe`, the help functions, `get-time`: formatting and output.
  `lib_file.c` is not in the build, the assembler is a stub, the files for other systems are empty,
  the examples and example modules are uses.
- `read-number`, `read-string`, `clear-stack`: input from the terminal, and a debugging aid that empties
  the stack under the running calls.
- The red-black trees are a vendored header; variables and symbols are a function from names. User
  types and features are not reached from the language.
- JT, BRANCH, HEAD, TAIL and RET are never produced by the compiler.
- In the compiler: syntax errors inside special forms, and a list at the head of a list.
- In the interrupted compiler (`AklRepl`): special forms and the quote, as said above.
- `while` as an argument: it leaves one value per turn or none, and the README gives it no value.

## State and what is left

The order of building was: pools with proofs; lists, stack and frames with the refinement; compiler,
machine and meaning; the interactive loop; the library; shared lists; the reader; `load`; the proofs
of the stack and its refinement, of the loop and of the reader; those of shared lists, of the machine, and of
the machine with the library.
What would come next:

1. Syntax errors inside special forms in `AklCompile`, with the errors a machine then finds.
2. The bridge between `AklReader` and `AklRepl`: both read tokens, one for values and one for the flag.
