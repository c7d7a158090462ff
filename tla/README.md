# Verification of the simple-scc toolchain

TLA+ models of the parts of this repository whose correctness depends on long
sequences of operations, on concurrency or on failures, the TLC configurations
that check them on small instances, and TLAPS proofs. Source paths below are
relative to `src/src/` of the repository.

## 1. Inventory

The repository is a C toolchain: a compiler in two passes behind a driver, an
assembler, a linker, archive and object tools, a `make`, a libc and libraries.

| Part | State it keeps | Operations | What is hard |
|---|---|---|---|
| libc allocator (`libc/stdlib`) | circular free list, `_freep`, the break | `malloc free realloc calloc`, `morecore`, `sbrk` | corruption shows many calls later; size arithmetic; refused memory in the middle of `realloc` |
| cc driver (`cmd/cc/posix/cc.c`) | tool table with pids, pipe descriptors, lists of objects, exit status | operand loop, pipelines, waiting, clean-up, link | concurrent children, inherited descriptors, partial failure, signals |
| make (`cmd/make`) | graph of targets, time stamps, frames of `rebuild`, exit status, `stop` | parse rules, rebuild, inference, recipes, touch, clean-up | targets reached twice, stale stamps, failures with `-k`, signals |
| cc1 symbol table (`cmd/cc/cc1/symbol.c`) | lists `head` and `labels`, collision lists, `curctx`, the lookahead token | `lookup install pushctx popctx`, from `decl.c stmt.c expr.c lex.c` | freeing in the right order, a token that outlives its context |
| cc1 preprocessor (`cpp.c`, input stack of `lex.c`) | `cppctx`, `cppoff`, `ifstatus`, macro table, hide sets, inputs | directives, expansion | three stacks that change while others wait; recursion; files ending inside a group |
| cc1 types, expressions, folding, statements, code | type table, trees | parse, convert, fold, emit | integer width and sign; each rewriting of a tree must keep its value |
| cc2 (`cmd/cc/cc2`) | operand stack, list of statements, current switch | read the intermediate text, optimise, order, select, emit | stack discipline, one jump per block, narrow types |
| as (`cmd/as`) | sections and location counters, symbol table, pass number, inputs | passes, directives, expressions, encoding | values that change between passes, rows of the table that nearly fit |
| ld (`cmd/ld`) | symbol table, list of objects, segments | five passes | unfinished upstream |
| ar, ranlib (`cmd/ar.c`, `cmd/ranlib.c`) | archive, three temporary files, operands not found yet | insert, delete, move, extract, index | failure between truncating and rewriting |
| nm, size, strip, objdump, addr2line | none that lasts | read and print objects | byte layout |
| libc stdio | `rp wp lp buf flags` per stream, descriptors | open, read, write, push back, seek, flush, close | one buffer for both directions, short writes |
| libc conversions and time | a table with the days of February | `strtol` and its copies, `gmtime mktime` | limits of types, fields out of range |
| libc string, sort | none | pure functions | boundaries |
| libmach, libscc | object records, small tables | read and write objects | byte layout |

How they interact: the driver starts cc1, cc2 (or qbe), as and ld as processes
connected by pipes, judges them by exit status only, and passes files on by
name. Inside cc1 the lexer and the parser share `yytoken`/`yylval` and the
symbol table. `make` runs the tools through the shell and knows files only by
their time stamps. All programs use the allocator. Except for processes and
signal handlers nothing runs concurrently.

`PROJECT.json` lists every component with its status, and under `hazards` what
is hard to test, at its line.

## 2. Modules

| Module | Role |
|---|---|
| `Malloc` | the allocator; `Heap` is what it promises; `MCMalloc` composes the two; `MallocProofs` has the proofs about the list, `MallocContract` those about the contents of blocks and the refinement |
| `CcDriver` | the driver with its children and pipes; `MCCcDriver` gives command lines; `CcDriverProofs` |
| `Make` | make; `MCMake` gives makefiles; `MakeProofs` |
| `SymbolTable` | the symbol table under the parser; `Scopes` is the block structure of C; `MCSymbolTable` composes the two; `SymbolTableProofs` |
| `Cpp` | the preprocessor of cc1; `MCCpp` has the meaning C99 gives to a text, and the texts; `CppProofs` |
| `CTypes`, `Cc1Expr`, `Cc1Fold`, `Cc1Stmt` | cc1: types on four architectures, expressions with their conversions, folding, statements and the intermediate text |
| `Cc2Parser`, `Cc2Qbe` | cc2: the reader of that text with the optimiser of the list, and the back end for QBE |
| `Qbe`, `CSem` | references: what a QBE function does when it is called, what C says that a function does |
| `Passes`, `Compile` | the passes as functions; a function on its way through them; `MCCompile` has the family of programs |
| `Stdio` | the streams of the libc over files and descriptors; `CStream` is what C99 promises; `MCStdio` gives calls; `StdioProofs` |
| `AsZ80`, `AsParser`, `AsIns`, `As` | the assembler: instruction table and encoders, operands, tables and directives, passes; `Z80` decodes bytes; `MCAs` has programs and what they mean |
| `Ar` | the archiver; `Archive` edits lists of members, which `Ar` is compared with; `MCAr` gives archives and command lines; `ArProofs` |
| `Convert`, `Calendar` | `strtol` and its copies; `gmtime` and `mktime`; `MCLibc` composes the two and gives arguments |

Definitions marked `(fault)` are the mutated forms of the definition that
follows them; no specification uses them. They show that the properties notice
a plausible mistake in the code.

### Malloc
Memory is a function from units of `sizeof(Header)` to header words (`size`,
`next`) and payload (`data`). `pc` and `call` are the control and the locals of
the running call. The two loops take one step per iteration (`ScanNext`,
`WalkNext`); everything the code does between iterations is one step
(`ScanExact`, `ScanSplit`, `MoreCore`, `FreeChunk`, `FreeCore`, `GrowExact`,
`GrowSplit`, `GrowMove`). `size_t` arithmetic is modulo `SIZE_MAX + 1`. The
program stores a known pattern in each block, so that a header written over a
payload, or a wrong `memcpy`, is seen (`Intact`). A header swallowed by a join
is cleared, so that using it later is seen. The kernel may refuse `_brk`
whenever it likes (`NoCore`). The zeros `calloc` stores are not modelled.

### CcDriver
The driver's steps are one `fork`, one `waitpid` or one entry of `build()`;
tools are processes that read blocks from a bounded pipe, write blocks and end
with success or failure at any point. `held` is the set of pipe ends each child
inherited: it decides when a reader sees the end of its input and a writer
`SIGPIPE`. Files are names; a tool that fails may leave a partial file. `broke`
(the operands one of whose tools failed) is history. Argument vectors, paths
and messages are left out.

### Make
`stack` holds the frames of the recursive `rebuild()`, with its index, `err`
and `need`; a frame is entered and left in one step each, so that what the
C stack keeps while a prerequisite is rebuilt is kept here too. `ParseRule`
adds one rule to the graph as `rule()` and `adddep()` do, in order and without
duplicates. A recipe is a sequence of commands (`cmds`); `child` is the running
one, which writes its target now or a second later, or fails and may leave a
partial file. Time is in whole seconds, as `stamp()` has it.
`partial` (half-written files), `hit` (the file of the line that a signal
interrupted) and `log` (the recipes that `update()` was called for, and whether
it returned 0) are history. `-k -i -n -q -t`, `.IGNORE .SILENT .PRECIOUS
.DEFAULT` and inference rules are modelled; macros, include files and output
are not.

What the properties say of time holds for targets that real files decide
(`Steady`): no target below them is phony or has its errors ignored; and
`AtMostOnce` and `NoRunAfterFailure` for runs that execute recipes (`Earnest`).
Without these conditions they are false of the code: `-t` touches a target at
every visit, with `-n` and `-q` what is not executed is to be done again, and a
target of `.DEFAULT` is made for every parent.

### SymbolTable
A symbol is an address of `Ptr` with its record; `head` and `labels` are the
two lists and `htab` the collision lists. The Lex actions bind a token to a
symbol; each parser action stands for a function of `decl.c`, `stmt.c` or
`expr.c` that installs it. `open` is what the C stack holds: the declarator or
enumerator being parsed. `pushctx`/`popctx` come from function prototypes,
blocks, `for` and preprocessor directives. `Features` names four kinds of
programs that break the table; the run leaves them out. Name spaces for keywords, macros and struct members, and
`newid()`, are left out. Three addresses are enough for an outer and an inner
declaration of one name and a third symbol in the same bucket, which is the
smallest case in which the order of a list, shadowing and the lookahead matter
together.

### Cpp
A text is a sequence of lines that the model chooses while it reads
(`Lines(_)` bounds the choice); a line is a directive or a sequence of tokens,
a token a sequence of atoms, so that `##` is concatenation. `input` is the
input stack of `lex.c`: files, macro expansions and arguments. `calls` is the C
stack of `next()`, `expand()`, `parsepars()`, `copymacro()` and `expandarg()`,
which call each other: the actions take one line, one token or one element of a
macro body at a time, so that an input which ends while an outer function waits
is seen as it is in the code. `ifstate`, `cppctx` and `cppoff` are the
conditional stack. An error ends the model, as it ends the output of cc1.

A directive is read wherever a line begins, so also while `ahead()` looks for
`(`, among the arguments of a macro and behind `#pragma`, which calls `next()`
before it returns. `Processed` is the end of `cpp()`: it clears `disexpand`
whoever waits, and leaves its own line end in `yytext` (`Interrupted`). Among
arguments this breaks the expansion:

    #define f(a) a )
    f(
    #
    f(1)
    ;

The empty directive clears the flag, the inner `f` is expanded while the
arguments of the outer one are collected, its `)` ends them, and `f` is on the
input stack twice. A `#define` or `#undef` there frees the definition that
`expand()` is about to copy (`Freed`, and a crash when it is read). C99 gives such
texts no meaning (6.10.3, 11); the model reads them, `argdir` remembers that one
was read, and `NoReentry` and `Preprocessed` speak of the time before it.

### Compile
A state holds one function at one stage; a step is a pass of `main()` in cc1 or
cc2. The operators of the passes follow the code function by function: a parser
by recursive descent over tokens (`Cc1Expr`, `Cc1Stmt`) that builds, converts,
folds and prints trees; a stack machine that reads them back (`Cc2Parser`);
`sethi`, `cgen`, `rhs`, `lhs`, `bool`, `assign` and the block finder
(`Cc2Qbe`). A byte has `BITS = 2` bits, so that an int has eight and all the
limits of the types are near. `Qbe` executes what is written out on a memory
of that width, with calls of an outer function recorded; `CSem` evaluates the
syntax tree by the rules of C99, undefined behaviour included. The passes are
CONSTANT operators of `Compile` that the configuration binds to the definitions
of `Passes`, so that the machine and the passes can be read apart.

### Stdio
A `FILE` is a record whose pointers are offsets; a call is a function from a
machine (stream, descriptor, file, and what the system will do) to a machine.
The calls that move many bytes are folds of `getc` and `putc`. Each action is
one library call as a whole, which is right as the library is sequential;
`exit()` and `_flushall` are part of it. `MCView` leaves out of the fingerprint
what the next calls do not depend on: the last result, and the fields of a
closed stream that opening it sets. `Unbuffered` is the refinement of `CStream`
and is checked on every step.

### As
A line is its fields as `extract()` splits them, operands are lexemes.
`Statement` is the body of the loop of `dopass()`, with `lookup`, `deflabel`,
the directives, `match` and the encoders on the tables of symbols and sections;
`As` has the passes, the stack of inputs, the error limit and the output file.
`AsZ80` has the rows of `ops.dat` for the Z80 in the order in which the table
generator writes them, as `match()` takes the first one that fits. The bytes of a
section go to a temporary file, and neither `emit()` nor `dumpsec()` sees a write
to it fail; nobody reads it before `writeout()`, so `Unstored` takes the lost
bytes away there, and `lost` names the sections they are missing from. `Z80` is written from the decoding
scheme of the processor and knows nothing of the table.

### Ar
A file of the archive format is a sequence of the magic number and members; a
write that is stopped leaves a member cut or a stub. The archive, the three
temporaries and the operands that were not found yet are the state; an action
is one member read, one operand inserted, one file opened, flushed or closed,
and between any two of them a signal may come or the call may fail. No `putc()` is
looked at while a member or the archive is written (`ar.c:148`, `ar.c:469`): what
the buffer has sent out before is a prefix of what is written, and a failure is
found at the `fflush()` or `fclose()` behind it. So the write and its failure are
one step, `Flush`, that leaves any prefix in the file (`Partial`). Two runs
follow each other on what the first one left. `Edited` is what `Archive` makes
of the list that the run read; the three properties compare the archive with it.

### Convert and Calendar
`Convert` takes one step per digit of the loops of `strtol()`, `strtoul()`,
`strtoll()`, `strtoull()`, `strtoimax()`, `strtoumax()` and the `ato`
functions, with their tests in the order of the code. `Calendar` is a program
that calls `gmtime()`, changes fields and calls `mktime()`, again and again.
The two share `_daysmon`. Each sets its February before it counts the months of
a year, `mktime()` again at every year it enters on its way; `feb` is the
February that is in the table, and every operator that reads a month takes it
from there, so that one forgotten assignment is a stale table (`BadBack`). A call
that refuses its fields leaves those normalised that it came to.

### Known deviations
Some inputs are known to be treated otherwise than C99 or the manual say. A
passing run names them in a constant (`Features`, `Deviations`) and leaves them
out; giving the constant the name lets them in, and TLC shows the case.

* `SymbolTable`, `Features`: a literal behind a `for` statement dangles
  (`"constant"`); a rejected parameter stays in its collision list
  (`"badparam"`); names used inside their own declarator or enumerator
  (`"selfref"`, `"enumexpr"`).
* `Cpp`, `Features`: an `#elif` or `#else` behind a group that was taken and an
  `#elif` (`"elif"`); `##` with an empty left operand behind another token
  (`"empty"`); an argument that uses a macro the body uses as well
  (`"nested"`); a directive behind the name of a function-like macro that is not
  called, whose token is then the end of that line (`"name"`); text behind a
  `#pragma` with no empty line between, which is an error (`"pragma"`); a macro
  with `NR_MACROARG` parameters and no body, which is deleted without a message
  (`"long"`). A text that ends with the name of a function-like macro, or
  behind the `(` of one without parameters, makes `ahead()` read an input that is gone: `Preprocessed` allows
  the crash for these texts and no others.
* `Compile`, `Deviations`: a comparison with the constant on its left
  (`"constleft"`); `%` by a constant (`"modpower"`); unary `+` (`"plus"`);
  `x++` of a narrow object (`"smallpost"`) and the value of a compound
  assignment to one (`"smallvalue"`); `/=`, `%=` and `>>=` between types of
  different width or sign (`"compound"`); a compound assignment whose left side
  has an effect (`"twice"`); `?:` with two equal narrow operands
  (`"smallternary"`); the effects of the condition of an empty `if`
  (`"emptyif"`). `sizeof (a + b)` is an error, as the parentheses hold a type or
  a cast expression only (`expr.c:861`); no program of the run has it.
* `Stdio`, `Deviations`: `fseek()` keeps the buffer (`"seekread"`,
  `"seekfull"`); writing at the end of a file just read (`"eofwrite"`);
  `ftell()` on line buffered and appending streams (`"tell"`); `clearerr()`
  and going on after a failed write (`"retry"`); `ungetc()` always fails
  (`"ungetc"`).
* `As`, `Deviations`: several input files (`"files"`, run `as_files`);
  undefined names, names of a sum that are defined further down, local names
  without a label before them (`"undefined"`, `"forward"`, `"scope"`);
  displacements of relative jumps (`"relative"`); `IM` and `OUT` with other
  constants than the processor has (`"im"`, `"zero"`). A disk that is full while
  the bytes of a section are stored gives a short `a.out` and status 0
  (`symbol.c:424`): `OutputHonest` and `Assembled` promise nothing about a
  section in `lost`, or a program with one.
* `Malloc`: a request within `sizeof(Header)` of a multiple that wraps, such as
  58 with `SIZE_MAX = 63` (assumption `NoWrap`). `Make`: a header newer than an
  inferred object (`HeaderMakefiles`, `InferredFresh`) and `-k` with a partial
  file (`KeepGoingMakefiles`, `NotRemadeOnError`). `Convert`: `strtoll()` when
  `LLONG_MAX` is larger than `LONG_MAX`.

## 3. Runs

| Run | Result | What it shows |
|---|---|---|
| `malloc` | pass | all calls on a heap of 12 units, requests below, at and above unit boundaries and at the limits of `size_t`: `TypeOK`, `Tiled`, `Linked`, `Coalesced`, `Intact`, `NoFitWhenNull`, `CallsReturn`, and `ImplementsHeap` |
| `cc` | pass | eleven command lines, pipes of one block, up to two blocks per tool, signals, failing calls: `StatusHonest`, `TempsGone`, `LinkComplete`, `Tidy`, `EndsUnlessOrphaned` |
| `make` | pass | nearly two hundred combinations of makefile (diamonds, a ladder, `-` and `+` lines, a prerequisite that inference or `.DEFAULT` makes and that is visited twice), file ages and options, `-k -i -n -q -t` among them: `Fresh`, `AtMostOnce`, `NoRunAfterFailure`, `ExitHonest`, `InterruptedGone`, `Terminates` |
| `symbols` | pass | two names in one bucket, three symbols, two nested contexts and the overflow of a third: `ListsOrdered`, `Innermost`, `TokenCurrent`, `ImplementsScopes` |
| `cpp` | pass | every text of four lines of directives, and every short text over four sets of macros: the counter `cppoff` is right (`OffCounts`), no macro is read inside itself (`NoReentry`), and tokens, macros, groups and line numbers are those of C99 (`Preprocessed`), the last two until a directive is read among arguments |
| `compile` | pass | about 4,100 functions, for each operator, conversion, statement and combination of types and constants: cc1 and cc2 take them (`Accepted`), QBE can read the result (`Readable`) and it does what C says (`Agrees`) |
| `stdio` | pass | one of three streams, every mode and buffering, one failure of the system: `NothingLost`, `InBounds`, `Unbuffered` |
| `as` | pass | every row of the table with every kind of operand, expressions, and programs of up to five lines: `Assembled`, `OutputHonest`, `PassesAgree` |
| `ar` | pass | every key on every archive of up to three members, two runs, one signal or failure: `EditsList`, `FailsSafe`, `Repeatable` |
| `libc` | pass | strings of up to three digits at the limits of six-bit types (`Converts`), dates around leap days and ends of years, with fields far out of range (`Dates`) |
| `cc_hang` | violation | a reader that dies leaves its writer, and the driver, waiting |
| `as_files` | violation | of two input files only the last one is in the output |

Bounds. `HeapEnd = 13` lets the heap grow more than once (`NALLOC = 4`) and
holds three blocks with free chunks between and around them, so that every kind
of join, split and move occurs; `SIZE_MAX = 63` makes the products wrap. One
block of pipe capacity and two of output make a writer block and find its
reader dead both before and after it wrote. Five targets make a diamond with a
source, and `MaxTime = 3` gives two new seconds after the old files, which are at
least two seconds older (`FilesAssumption`): a file made in the second make
starts in cannot be told from one make writes, by make or by anybody. In
`symbols`, addresses are symmetric: no definition compares them. In `cpp` four
lines nest two groups with both their parts or spread a group over an included
file; the sets of macros have direct and mutual recursion, calls completed by
the text behind them, `#`, `##` and empty arguments, with an empty directive
before, among and behind the arguments; `NR_COND`, `NR_MACROARG` and `FOPEN_MAX`
are reached. In `compile` the inputs are three: small values, the extremes of
each type, and zeros; the limits `STACKSIZ` and `NR_BLOCK` are not reached by
valid programs, `STEPS` and `LOOPS` end loops. In `stdio` a buffer of two bytes
is empty, half full and full, and a file of two bytes is longer than what is
left of it. In `as`, `maxaddr = 9` overflows a section, `MAXERR = 2` and
`NR_INPUTS = 3` are reached. In `ar` three members make one before, one at and
one behind any place, with equal names among them. In `libc`, three digits
overflow the six bits in every base.

Fairness. `Malloc`: a call that has begun runs on, as it is sequential code.
`CcDriver`: weak fairness for the driver and for each tool, as they are
processes of a fair scheduler; nothing is assumed about whether a tool fails,
except that writing to a pipe without reader and linking missing files do.
`Make`: weak fairness for make with its one child at a time; that a command
ends, either way, is assumed of the makefile. Signals are never fair.
The other modules state no liveness: they are sequential programs whose loops
are bounded by their input, and a step that is missing is found as a deadlock.

`CHECK_DEADLOCK` is on everywhere: a driver or a make that has ended stutters
explicitly, and any other state without a step is an error; so do a function
that was executed, a program that called `exit()`, an assembler, an archiver
and a conversion that have ended.

## 4. Proofs

Everything under `theorems` in `PROJECT.json` is proved for every value of the
constants that satisfies the assumptions below, so for every heap, command
line, makefile, text, program or sequence of calls, of any length. All but
`BlocksInHeap` state a property that a run checks on its small instance; two of
those are refinements.

| Module | Theorems | Under |
|---|---|---|
| `MallocProofs` | `TypeCorrect`, `HeapTiled`, `FreeListOrdered`, `FreeListCoalesced` | `NoWrap` |
| `MallocContract` | `BlocksIntact`, `BlocksInHeap`, `GivesUpHonestly`, `MallocImplementsHeap` | `RequestsFit` (that is `NoWrap`) |
| `CcDriverProofs` | `DriverTidy`, `LinkIsComplete`, `TempsRemoved`, `StatusIsHonest` | `JobType`; `NoStray` for the third, `SeparateFiles` for the last |
| `MakeProofs` | `SignalCleansUp`, `StatusTellsTruth`, `SuccessIsFresh`, `RemadeOnce`, `FailureStopsParents` | `MakefileType`, `FilesAssumption`, `TimeAssumption` |
| `SymbolTableProofs` | `TableOrdered`, `LookupInnermost`, `TokenIsCurrent`, `TableImplementsScopes` | `Plain` |
| `CppProofs` | `OffCounted`, `NotReentered` | `BoundAssumption` |
| `ArProofs` | `MembersEdited`, `FailureIsSafe`, `GivenAgain` | `StoreAssumption`, `DirectoryAssumption`, `CommandAssumption` |
| `StdioProofs` | `StoresInBounds`, `ExitWritesAll` | `SizeAssumption`, `TextAssumption`, `CallAssumption`; `Careful` |

The assumptions that are more than types:

* `NoWrap`: no request makes `nunits * sizeof(Header)` wrap in `morecore`. It
  cannot be dropped: with the requests 3 and 58 and `SIZE_MAX = 63`, `morecore`
  gives a block that reaches behind the heap. TLC evaluates it.
* `NoStray`: no operand goes to the assembler under `-S` or `-M` without `-c`
  (`cc -S x.s`). Without it the temporary object of that operand stays.
* `SeparateFiles`: the operands have different stems, and `-E -o` has one
  operand. Without it a later operand overwrites, or its failure removes, the
  product of an earlier one.
* `Plain`: the program has none of the four constructs that `Features` names,
  each of which breaks the table (section 2, known deviations).
* `Careful`: the program clears no error after a failed write, and seeks only
  where `fseek()` has nothing in the buffer to discard (`"retry"`, `"seekread"`,
  `"seekfull"` of section 2). C99 allows both, and none of the three can be
  dropped: with `"retry"` or `"seekread"` in the `Deviations` of `MCStdio.cfg`
  TLC finds a byte stored behind a buffer, with `"seekread"` or `"seekfull"`
  one that `exit()` loses.
* `StoreAssumption`: an archive has its magic number at the start or nowhere; it
  need not be whole, as runs leave cut members that the next run reads. The
  other two of `Ar` are types.
* `FilesAssumption`: the files are at least two seconds older than the run.

### The arguments

No property is inductive alone. For each module one inductive invariant
carries all its theorems; it is written in named parts at the head of the
module.

**Malloc.** A join is right only because the list is ordered, the order is kept
only because the chunk that is joined overlaps nothing, and a walk ends at the
right place only if the locals of the running call are what they should be.
`Inv` is `TypeOK`, `Tiled`, `Linked`, `Coalesced` and `LocalsOK`: where the
cursors of a loop in progress point, and (`SizeOK`) that the units the call
looks for are those of the bytes it was asked for. A layer of lemmas about sets
of chunks and lists without state (`MergeTiles`, `SplitTiles`, `ExtendTiles`,
`FoundIsPredecessor`, `InsertCircular`, `UnlinkCircular`) carries the geometry.
`MallocContract` adds `Contents`: a block is no larger than the program filled
it, which `realloc` needs when it copies; and every step of the list maps to one
step of `Heap` or to none.

**CcDriver.** `LinkInv`: where the driver is in a pipeline and which pipe ends
it has open there (`Shape`), the outfile of each tool (`Named`), that a failed
tool is known or will be once it is waited for (`Counted`), what exists if
nothing failed (`Delivered`) and the arguments of the linker (`Listed`). For
the clean-up, `Listing` says which temporaries exist and that each is listed,
and `Cleaned` that the product of a failed pipeline is gone.

**Make.** The frames of `rebuild()` are a path in the graph, cyclic or not, and
a frame entered again inside itself has not got further than the outer one
(`FramesOK`, lemma `Alone`); that is why a target is not remade by an inner
visit behind the back of an outer one. `HitOK`: after a signal the running line
still has its file in hand. `ExitOK`: `exitstatus`, the log and the `err` of
the frames agree. For the three properties of time there is a set `U` of
targets done with (`DoneWith`): they are at least as new as their
prerequisites, which are in `U` too, were remade after them, and what failed
among them left its file behind; every frame has put the prerequisites it has
passed into `U`, or saw one fail; and a steady target outside of `U` was not
made in this run. The set grows when `rebuild()` returns.

**SymbolTable.** `Inv` is `TableOK` (both lists ordered by context, every
collision list in that order, one symbol per name and scope), what the parser
holds (`ParserTypes`, `Unfinished`: symbols of declarators being parsed), that
what is linked is declared or being declared (`Pending`), and that the symbol
in the look-ahead token is what its name means (`Token`). `popctx()` unlinks
what is at the front of `head`: it frees a set closed under precedence, which
is what keeps the collision lists valid although it takes off their heads only
(`DoomedFacts`, `Sweep`).

**Cpp.** `CondOK` says that `cppoff` is the number of groups that are off, and
which contexts may be. For the hide sets, `StackInv` relates the two stacks:
each pending call of `expandarg()` has its own argument on the input stack, on
top of the expansion that the `copymacro()` below it writes (`Matched`), and
the name of every expansion that is read is hidden and not made visible by one
above it (`HiddenOK`). All of it rests on `FlagOK`: `disexpand` is set exactly
while arguments are collected and while `#pragma` waits for the end of a line, so
no expansion begins below a function that collects. A directive among the arguments ends `FlagOK`
for good; so the invariant is `CondOK /\ (~argdir => StacksOK)`, `argdir` is never
reset (`Remembered`), and `NotReentered` is a theorem about the time before such a
directive. `OffCounted` has no such condition.

**Stdio.** `StateOK`: every open stream is `Sound`. Its pointers are within its
buffer (`lp` at the end for line buffering only); a stream without buffering
keeps no byte but one that could not be written; and bytes to write, or room
below `rp` in which the macro `putc()` stores without calling the library,
imply `_IOWRITE` and `_flushall`, or that the system failed on the stream. The
last part is what `exit()` relies on. One lemma per function shows that it
turns a sound machine into a sound one, whatever the system does.

**Ar.** The properties speak of the end of a run, the invariant of every turn
before it. After k members, BEFORE and AFTER hold what becomes of those that are
not moved or deleted (`Stay`), cut at the first one called `posname` (`Mark`),
and INDOT the members that are moved (`Sorted`); the operands crossed out are
those that stand for one of the first k members (`UsedBy`). That needs, of the
lists, that reading in order and crossing out the first operand of a name finds
the pairs that `Archive` defines by rank (`NextOperand`), and that the cut does
not move when a member is added behind it (`SplitTurn`). `Merging` says that the
pieces together are the edited list unless a write to one of them failed, and
`Rewriting` that every temporary already copied had no such error: so the
archive that `merge()` closes is the edited one, and before `merge()` opens it
no step has touched it.
For `Repeatable` a second invariant, `RInv`, follows the operands of `r` through
a run, whole or not: one that is not crossed out yet has no member in any
temporary (`Sought`), one that is has the member `r` puts there in front of all
others of its name (`Has`), and AFTER is used only once `posname` was seen
(`Collected`). So the archive of a run that succeeded has every operand as its
first member of that name (`AllKnown`), and the edited list of such an archive
is itself (`SameAgain`). That needs one thing of the place: the member called
`posname` is itself in AFTER only with `-b`, so a later one of its name never
gets in front of it.

Induction over numbers is needed for the loops (`fputs`, `fgets`, `adddeps`,
the folds of `popctx()`). The library's induction theorems are out of the
provers' reach; the proofs use sets instead: a set of numbers that is not empty
has a least element (`Least`, from well-foundedness), so that a set that holds
0 and with m also m + 1 holds every number (`Induction`), and a recursive
function is the one function that satisfies its equation (`Recursion`,
`UnlinkedSteps`).

### What the proofs showed about the models

* `AtMostOnce`, `NoRunAfterFailure` and `Fresh` were first stated for every
  target and option. The proof attempts led to the makefiles in which a
  prerequisite is touched, made by `.DEFAULT`, or has a header besides its
  source, and is visited twice: there the code does work twice. The properties
  now have the conditions above, and the run `make` has those makefiles.
* The temporaries of `cc -S x.s` and the operands with equal stems are the
  cases that `NoStray` and `SeparateFiles` exclude.

### Only model-checked

* Liveness (`CallsReturn`, `EndsUnlessOrphaned`, `Terminates`): out of the
  prover's reach.
* `Accepted`, `Readable`, `Agrees`, `Assembled`, `Preprocessed`: they compare
  recursive definitions over syntax or text, that is, what a recursive operator
  computes for every input.
* `Unbuffered`, the refinement of `CStream`: the contents of buffer and file
  must be related byte by byte through `Overlay`.
* `As.OutputHonest`; `Convert` and `Calendar`, whose results are what a loop
  over digits or years computes.

## 5. Not modelled, and the plan

Parts without a module, and why:

* `ld`: passes 3 to 5 are commented out and call functions that no longer
  exist, so nothing is linked and there is no result to state a property of.
* `ranlib`, `nm`, `size`, `strip`, `objdump`, `addr2line`, libmach: readers and
  printers of object formats; what could be wrong is the layout of bytes, for
  which a test with a known file says more. `objcopy` is an empty `main()`.
* libscc: wrappers and small tables. The libc's string functions: one loop each.
* The back ends for z80 and amd64 of cc2, which are unfinished, and the tables
  of the other processors of as, which share the formats of the Z80.
* `printf` and `scanf`, messages, locales and time zones; floating point
  anywhere.
* In cc1: initializers, declarators, bit-fields and the scanning of numbers and
  strings. In make: macros, include files and the lexer.

Places a reader of the code should know of, about which no property is stated:

* driver: `unlink(objfile)` after a failed link also removes the object of the
  last operand with `-k` (`cc.c:467`); operands with the same stem in two
  directories share an output (`cc.c:171`); `-S` with an assembler file leaves
  a temporary (`cc.c:507`).
* make: `depends()` compares with the wrong name, so a cycle of two rules is not
  dropped (`rules.c:67`); `-t` touches at every visit (`rules.c:288`); a signal
  during the last prerequisite removes the next target (`rules.c:459`).
* cc1: an enumerator is allocated before its value is parsed (`decl.c:867`); a
  name used inside its own declarator is installed twice (`expr.c:746`); the
  kind of a token looked up again (`expr.c:735`); identifiers of symbols have
  16 bits (`symbol.c:202`).
* ar: with `-a` and two members of the name given, both are taken for the place;
  the archive is created for `t`, `x`, `p` and `d` too; an operand without a
  member is reported after the archive was rewritten; a read error under `q`
  leaves a cut member; a failure inside `merge()` loses the archive.
* libc: `qsort()` reads a variable before it is set and `bsearch()` a member of
  an empty array; `strto*` set the end pointer before the digit that overflows
  and behind a bare `0x`; `mktime()` before 1970; the two tests for overflow in
  `norm()` are exchanged (`mktime.c:16`, `mktime.c:23`), which the run does not
  reach; `_MAXYEAR` is behind what a
  32-bit `time_t` holds; the sign of `difftime()`; `strtoimax.c` defines
  `strtol`.

Plan for the proofs, in this order: `OutputHonest` of `As`; the steps of
`Unbuffered` for reading, where buffer and file agree.
