# A TLA+ model of the LFSC proof checker

The LFSC checker (`lfscc`) reads signature and proof files and checks them
while it parses. This directory models the checker from the tokens to the
compiled side conditions: what it reads, what it binds, which terms it builds
and compares, how it counts and reuses memory, and how it types, interprets and
compiles the code of side conditions.

## The system

All paths are under the repository's `src/`.

| Component | State | Operations | Correct when |
|---|---|---|---|
| lexer (`lexer.flex`, `token.*`) | two pushed-back tokens, the text of the last one | `next_token`, `reinsert_token`, `token_str` | tokens come back in order, the text asked for is the token's own |
| `check()`, `check_file()` (`check.cpp`): scopes | `symbols`, `local_sym_names`, `open_parens`, `allow_run`, the C++ stack | one case per term form, one per command | every local binding is gone when its scope ends; parentheses are eaten by who opened them; `^` occurs in domains only |
| `check()`, `check_file()`: types | the terms, `symbols` | the same | it accepts what LF accepts, with some terms for the holes |
| `Expr` (`expr.cpp`, `expr.h`) | a graph of objects with values, bits and counts | `defeq`, `whr`, `clone`, `free_in`, `inc`, `dec` | equality up to definitions; what is referred to is not freed |
| chunk allocator (`chunking_memory_management.h`) | a chunk, a free list | `new`, `delete` | no block has two owners, none is lost |
| `read_code()`, `check_code()`, `progs` (`code.cpp`) | `symbols`, `progs` | one case per code form, each read and then typed | the bindings of lets and patterns are undone, twice; code that is typed gives results of its type |
| `run_code()` (`code.cpp`) | `var->val`, marks, the `ExprTrie` cache | one case per op | the result is what the code means; every variable is put back, also on failure; caching changes nothing |
| side-condition compiler (`sccwriter.cpp`, `scccode.cpp`) | the text, `vars`, `globalSyms` | one case per op | the generated C++ does what `run_code()` does and balances its references |
| `Trie` (`trie.h`) | nodes with `str`, `d`, `next` | `insert`, `get` | it is a map, and `insert` returns what it replaces |
| command line (`main.cpp`, `lfscc.cpp`) | options | | |

The checker is one thread and keeps nothing on disk, so nothing interleaves and
nothing is recovered after a crash. What is hard is sharing. There is one
global symbol table, one counter of open parentheses, one flag that allows
side conditions, one buffer of tokens and one value per variable; every
activation overwrites them and must put them back, except where a `goto
start_check` replaces the activation and leaves that to a caller or to the end
of the command. Terms are shared too: `defeq()` fills holes, sets values and
replaces equal parts by one another in the terms of the signature itself, so
that a command changes what later commands are compared with.

`check()` calls `read_code()` and `check_code()` for side conditions, and
`run_code()` or a compiled function when it applies a rule that has one; all of
them use `symbols`.

## Modules

### Tokens and scopes

`TokenStream` models the lexer's buffer and everybody who uses it. `stack` is
the places of the code that wait for a token, the innermost first, and a step
is one `next_token()` with the `reinsert_token()` calls that answer it: `Item2`
pushes two tokens back, the other places one. The lexer may return any kind of
token, so the runs are over all inputs. `used` is the token whose text
`token_str()` was last asked for and the token that the lexer had the text of.
`TokenStreamProofs` holds the proofs.

`CheckScopes` models the scopes of `check()`, the command loop and the readers
of code. A frame of `stack` is an activation of `check()`, `read_code()`,
`check_code()` or a command that has something left to do after its sub-check:
its kind says which form and how far (`pi_dom` reads the domain of a pi,
`pi_rng` its range), `old` is what it must put back (`prev`, `prevpr`,
`old_bindings`, `prevs`), `prevo` is its `prevo`/`prev`, `par` its parameters.
`par.exp` says whether `expected` is non-null. Every term form is an action that
opens it and actions for the points where a sub-check returns; `LeaveForm` ends
the forms that eat their own parenthesis and restore one entry. A tail call pops
the frame, or pushes none. Terms and types are left out: the input is any
sequence of forms that the parser accepts, and a type error is `ReportError`,
possible at any time, which exits. Two history variables describe the intent:
`globals`, what the commands have bound, and `leaked`, the identifiers whose
scope the code has lost track of. `CheckScopesProofs` holds the proofs,
`MCCheckScopes` the instances.

### Terms and types

`Exprs` is the graph of expressions: a heap of objects with `kids`, `val`, the
bit that `calc_free_in()` and `setcloned()` share, and a count. Each function of
`expr.cpp` is an operator from a heap to the heap it leaves. A freed object
keeps its place with count 0, and a use of it makes the heap undefined.
`Typing` is `check()` on trees of the input: one operator per term form, one
command per step, with the parameters `create`, `expected`, `is_hole` and
`return_pos`, the tail calls, and every `inc` and `dec`. `LF` is the type theory
that `check()` is to decide, written without looking at the code: de Bruijn
terms, normal forms, and one clause per form; a hole stands for one of
`Fillers`. `MCTyping` has the inputs and the properties that compare the two.

`Chunks` is the allocator, one action per way that `operator new` can go, and
`Write` for what an owner does to the field that the free list is chained
through. It implements `Allocator`, which hands out blocks without an owner.
`ChunksProofs` holds the proofs.

### Side conditions

`Code` is the code of side conditions, its objects and what the ops do with
values; `CodeMeaning` is an independent call-by-value semantics with an
environment per call. Three machines use them:

* `SideCond` is `run_code_internal()`. A frame of `stack` is an activation that
  waits for a sub-run, with the results so far (`rs`), and, once it runs a body,
  the variables it bound (`xs`) and what they held (`old`). `ifequal` compares
  what objects denote, the cache is keyed by addresses. The history variable
  `stale` collects the parameters that a cache hit, or a program refused inside
  a function, leaves bound. `Pieces` is all code of an instance, and `WellFormed`
  what `read_code()` and `check_code()` guarantee of it. `SideCondMeaning` states
  what the machine promises: the meaning of code is a relation `Sem` that is closed
  under one rule for each way in which code ends, and `ReturnsMeaning` says that the
  result of `run_code()` is in it. For TLC, `MCSideCond` takes for `Sem` what the
  recursive definition of `CodeMeaning` computes. `SideCondProofs` and
  `SideCondMeaningProofs` hold the proofs.
* `CodeTypes` is `read_code()`, `read_case()` and `check_code()` under the
  commands `program` and `run`. Names are resolved when code is read and types
  are looked up by name when it is checked, as in the code, so that a local
  name that hides a symbol is seen. `progs` distinguishes a program, no entry
  and the null entry that a look-up with `[]` leaves. The interpreter is
  `CodeMeaning`, which `SideCond` is compared with.
* `SccWriter` is `write_file()`: the functions it writes are sequences of
  statements, with the names it makes up, and `Exec` runs them on a heap that
  counts references. `WriteProgram` writes one function per step, in the order
  of the declarations; the last step runs the function.

### The symbol table

`SymMap` is what the checker needs from its symbol table, `SymTrie` is the trie,
one step per activation of `insert()`, and `SymTrie` implements `SymMap` under
the mapping that looks every string up (`SymTrieProofs`). `CheckScopes`, `Typing` and `CodeTypes`
use the table as a function from identifiers, which is `SymMap`'s `map`.

Operators that a comment calls faulty are variants of the definition that
follows them, with a bug such as a dropped guard or a missing restore. Nothing
uses them; each shows that a property notices that bug.

## Runs

| Run | Checks | Shows |
|---|---|---|
| `tokens` | `TypeOK`, `NeverFull`, `InOrder`, `TextOfToken`, `Ends` | all inputs of up to eight tokens in each of two files |
| `forms` | `TypeOK`, `ScopesRestored`, `ParensNested`, `CreateEatsItsParens`, `RunOnlyInDomain`, `ActivationRestores` | every nesting of terms and code up to five activations, under `check`, `run` and `program`, tail calls on |
| `commands` | `ScopesRestored`, `CreateEatsItsParens`, `ActivationRestores` | the commands that bind names or take declaration lists, with names repeated in a list |
| `types` | `TypeOK`, `Sound`, `Complete`, `GlobalsKept`, `Counted`, `Defined` | two commands of a first-order signature, with holes, definitions, lambdas and assumptions, with and without tail calls; two commands over predicates, compared under binders and after reduction |
| `chunks` | `TypeOK`, `NoneLost`, `Implements` | two chunks of two blocks, owners write anything |
| `code_types` | `TypeSound`, `StaysTyped` | three commands of programs and runs, well typed or not |
| `side_conditions` | `TypeOK`, `ReturnsMeaning`, `ArgsIntact`, `ValsRestored`, `CachedOnce`, `CachedMeaning`, `Terminates` | 780 pairs of recursive programs under four calls; the same with `f` and `g` cached and `h` a program they must not call; all ops on integers, rationals and a symbol, with division by zero |
| `compiled` | `Equivalent`, `Balanced`, `Compiles` | 2393 signatures: the written functions compute what the code means, leave every count as it was, and declare what they use |
| `trie` | `TrieShape`, `Implements` | five strings that share beginnings, two entries |

`Sound` and `Complete` compare `check()` with `LF` after every command;
`GlobalsKept` reads the signature back from the heap, which is the property that
destructive comparison endangers; `Counted` says that whatever the table leads
to is counted at least as often as it is pointed to. `CachedMeaning` says that an
entry of the cache of functions is what the call means whatever the marks, which
are not part of the key: that is why `ifmarked`, and programs that might use it, are
refused in functions.

Three runs end in a violation, each of something that the comments or the manual
say:

* `shared_body` violates `Sound`. `defeq()` replaces a kid by the equal kid of the
  other term (`expr.cpp:605`), also in the body of a lambda that has just been
  applied, so the body keeps the argument. With `pz` a proof of `(q z)`,
  `(check (both (\ v (q v)) z c pz pz))` is accepted, although its last argument
  should prove `(q c)`.
* `cache` violates `CacheTransparent`. A recursive function that uses its parameter
  after a call that hits the cache sees the argument of that call
  (`code.cpp:1339`).
* `compiled_failure` violates `Equivalent`. The generated code does not notice that
  an argument of a constructor has failed (`sccwriter.cpp:397`), so a side
  condition that fails when it is interpreted succeeds when it is compiled.

### Known differences

The models show more places where the code does not do what its comments,
messages or manual say. The inputs of the passing runs avoid them, or the
property names the exception (`leaked` in `ScopesRestored`, `stale` in
`ReturnsMeaning`). Each can be seen in the models by adding the input, and all of
them have been reproduced with the built checker.

Scopes (between two commands the table does not hold what the commands bound):

* After `(check (@ x c (: sort x)))`, `x` stays bound for the rest of the file: the
  tail-calling branch of `@` (`check.cpp:537`) forgets the entry it hides.
* After `(opaque o (% x sort (: sort x)))`, `x` is bound until the next `check`,
  because only `check` and `check-assuming` clean up.
* After `(check (! x sort (% x sort sort)))`, `x` is the pi's variable. The pi
  restores its entry first, and the clean-up at the end of the command then
  re-inserts what the `%` had hidden.

Types:

* `(define x (! y B b))` is accepted with a term for a range: the test is skipped
  when a pi is created without an expected type (`check.cpp:204`).
* An arrow type is accepted as a proof of any type: its classifier is not
  compared (`check.cpp:234`).
* A declaration list takes a parenthesised term for a type (`check.cpp:996`).
* The type of a head is used in place the first time and keeps the values of its
  variables, with which it is then compared (`check.cpp:623`). For
  `f : (! x B (! y B (C y)))`, `(f b c)` and then `(k f)` is accepted where `k`
  wants `(! x B (! y B (C c)))`.
* Sharing of kids makes `(check (f (\ x (g x))))` fail when it is repeated, and
  refuses `(: (pf (q z)) (allE (\ v (q v)) z (allI (\ v (q v)) (\ v (g v)))))`
  under `--no-tail-calls`.
* A hole is filled with a variable that is not in its scope (`expr.cpp:473`).
* The case for a hole applied to a variable (`expr.cpp:433`) asks for class
  `SYM_EXPR`, and binders make `SYMS_EXPR`, so it is never taken.
* `make_app()` of a lambda takes it apart like an application (`check.cpp:735`).

References:

* A tail-called lambda that hides a symbol releases it, and the clean-up puts it
  back into the table (`check.cpp:421`).
* The type of an ascription inside an ascription is used after it was given away
  (`check.cpp:506`).

Code:

* Looking a name up with `progs[pref]` (`code.cpp:290`) makes a later `program` of
  that name a redeclaration: `(run (s z))` and then `(program s ...)`.
* A pattern without variables is accepted for a constructor that has arguments
  (`code.cpp:752`), and the interpreter then reads past the end of an empty vector.

Compiled code, where the manual promises equivalent C++:

* `mp_div` of integers becomes a multiplication (`sccwriter.cpp:693`).
* `ifequal` with a symbol of the signature exits (`sccwriter.cpp:911`).
* Names are never removed from `vars`, so a symbol is taken for a variable whose
  scope has ended (`sccwriter.cpp:544`).
* A symbol whose name is not a C++ name is looked up by the wrong name
  (`sccwriter.cpp:348`).
* A numeral keeps a reference (`sccwriter.cpp:314`); a match that has only a
  default releases one too many (`sccwriter.cpp:860`).

### Comparison with the program

The models have been compared with the built program: `Typing`'s verdicts on
the sequences of commands of `types`, the text that `--compile-scc` generates
for all signatures of `compiled`, and the answers to about 8000 files of programs
and runs of `code_types`. Model and program agree on all of them.

### Bounds

`TokenStream`: eight tokens are enough for a command with a declaration list
whose item pushes two tokens back, followed by more; two files, because the
buffer outlives a file. The proofs have no bound.

`CheckScopes`: two identifiers are needed for one to be shadowed while the other
is not; `MaxLog = 2` lets one log hold the same identifier twice, `MaxFrames` of
4 and 5 covers a command, two forms and, for code, a run form with a let or a
case inside a domain, `MaxOpen` is 2. `Sym` is a bound too: at most five symbols
are in use at once, in the table, the logs and the history, and a binder is not
entered when none is left. Symbols are symmetric, and so are identifiers.
`forms` has every form under the commands that bind nothing for good, `commands`
every other command. The proofs have none of these bounds.

`Typing`: `MaxInputs = 2`, so that a command meets what another has left in the
signature, its own repetition included. `MaxRefCount = 5` is reached by the
symbols that many types mention, such as `N`, so that objects at the limit and
objects below it are both shared and released. `Fillers` has the terms that the
inputs' types can ask for.

`Chunks`: two chunks, so that one is asked for when another is full and blocks
of both are in the free list; two blocks, so that a chunk has a block that is
neither its first nor handed out with it. The proofs have no bound.

`CodeTypes`: three commands give a program, a program that calls or shadows it,
and a run. `SccWriter`: numbers up to two in unary, as in `SideCond`; numerals
occur in arguments only, since code with one does not balance its references, so
`LongRange` limits nothing. `SideCond`: numbers up to two give a call inside a
call inside a call; `MaxFrames = 20` is never reached, or `Terminates` would
fail; `StartMarks` marks one symbol, so that there are marks to take away as well as
to set. `SymTrie`: a string of length three makes a stored string move down twice.

### Deadlock and fairness

The checker ends: at the end of the last file, in `exit`, or, for `SideCond` and
`SccWriter`, when the code has returned. Those runs do not check for deadlock.
The trie and the allocator go on for ever, so there it is checked.

`FairSpec` of `TokenStream` and of `SideCond` is weak fairness of `Next`: one
thread that keeps running and waits for nothing. `Ends` says that no loop takes
the end of the file for one more token; `Terminates` says of structurally
recursive programs that the interpreter finishes. Both need nothing else.

## Proofs

TLAPS checks six modules of proofs. Each gives the component's specification an
inductive invariant and derives from it the properties that the runs check on
small instances.

### Scopes

`CheckScopesProofs` proves, for any identifiers, symbols, forms, commands and
bounds, from the assumptions that `CheckScopes` names (`NoId` is no identifier,
`NoSym` no symbol, `TailCalls` a Boolean, the bounds naturals):

* `TypeCorrect`: `Spec => []TypeOK`;
* `ScopesAreRestored`: `Spec => []ScopesRestored`;
* `ParensAreNested`: `Spec => []ParensNested`;
* `CreateEats`: `Spec => []CreateEatsItsParens`;
* `RunInDomain`: `Spec => []RunOnlyInDomain`;
* `ActivationsRestore`: `Spec => ActivationRestores`, the action property;

all from `Invariance`: `Spec => []IInv`. None of the properties is inductive,
because each speaks of one moment, and a step that returns to that moment
depends on what the frames below remember. `IInv` says it of every frame:

* `ShapeI`, `PcShape`: which kinds of frames lie where, and which have bound
  nothing yet;
* `ParenI`, `BuildI`: the parentheses counted by two neighbouring frames differ
  by at least the upper one's own, and by exactly that when the lower one
  builds its term, for then nothing above it makes a tail call;
* `RunI`: when `allow_run` is on, some frame reads a domain;
* `ParamI`: a program's parameters were unbound;
* `ScopeI`, for each identifier that has not leaked: either it is not in
  `local_sym_names`, and each frame's log leads from the table the frame above
  started with to the one it started with itself, down to what the commands
  bound (`ScopedAt`); or it is, and the oldest record is what the commands bound
  (`LocalAt`).

The lemmas go from logs (what `FirstPrev` is after one more record) over stacks
(push, replace the top, pop) to one lemma per kind of action. For
`ActivationRestores`, `TopUndo` says that undoing the top frame's log gives the
frame's entry; every step either leaves the stack as long as it was (`NoneEnds`)
or is one of three ways to end: with the log undone, with an empty log, or with
nothing bound but a name that the property exempts.

### Tokens

`TokenStreamProofs` proves, for files of any length and any number of them:

* `TypeCorrect`: `Spec => []TypeOK`;
* `BufferIsEnough`: `Spec => []NeverFull`, the assertion of `reinsert_token()`;
* `ReadInOrder`: `Spec => []InOrder`;
* `TextIsOwn`: `Spec => []TextOfToken`;

all from `Buffered`: `Spec => []Inv`. That the buffer does not overflow is not
inductive: it depends on which place pushes back. `Inv` adds that the buffer
holds a token only where the innermost place is one that a token is pushed back
for, that it holds two only in front of a term that starts with a parenthesis,
that `item2` is never left waiting under another place, and that the token which
`check_decl_list_item()` holds is the last one lexed.

### The allocator

`ChunksProofs` proves, for any chunk size and any number of chunks:

* `TypeCorrect`: `Spec => []TypeOK`;
* `ChunksImplement`: `Spec => Implements`;
* `NoBlockLost`: `Spec => []NoneLost`.

The inductive invariant adds to the types `Position`, where `next` and `end` are
and that nothing behind `next` is owned, and `Chain`: the free list starts at and
leads to blocks that were cut and have no owner, and no such block is pointed at
twice, the pointer to the first one included. That is enough for the refinement.
`NoneLost` follows the list, so it needs more: `Linked` says that some sequence
without repetitions holds exactly the blocks without an owner, each linked to the
next one and the last one to `NULL`. A step takes the first element off the
sequence or puts one in front (`ListStep`), and walking the list as `Listed` does
visits the sequence (`ListedIsFreed`), so no induction over the list is needed.

### The symbol table

`SymTrieProofs` proves, for any characters and any set of strings:

* `TrieIsShaped`: `Spec => []TrieShape`;
* `TrieImplementsMap`: `Spec => Implements`, the refinement of `SymMap`;

both from `Invariance`: `Spec => []Inv`. `TrieShape` speaks of a node's parent;
`Inv` says of every beginning of a node's path that it is a node with children
(`Shape`), and that the `insert()` that runs is at a node on the way to its string
(`CallInv`). A string can then be held by one node only (`HoldsOnce`), which is
where `get()` stops (`LookupFound`, `LookupSame`). The refinement goes action by
action: pushing a stored string down, or making a node for the next character,
moves strings and changes no look-up (`DescendKeeps`), and a step that stores
changes the look-up of its own string only (`StoreStores`).

### Side conditions

`SideCondProofs` proves, for any programs, any code and a C++ stack of any depth:

* `TypeCorrect`: `Spec => []TypeOK`;
* `ArgsAreIntact`: `Spec => []ArgsIntact`;
* `ValuesRestored`: `Spec => []ValsRestored`;

all from `Invariance`: `Spec => []Inv`. The assumptions are about the code only:
`ProgAssumption` (a program has parameters, `check.cpp:1442`, each an object of its
own) and `CodeAssumption` (every op has as many kids as `read_code()` gives it, a
program is called with all its arguments, `code.cpp:421-472`, and the variables of
one binder are different objects, `code.cpp:73`). Two binders may bind the same
object, and do whenever a program calls itself.

`ArgsIntact` and `ValsRestored` look at the value that a variable has now. When an
activation returns, that becomes a value which the activation saved long ago, so
the invariant must say what saved values are. `Chain` does, for every variable
that is not stale: its value is what the topmost activation that binds it has
bound it to, or none; and what each such activation has saved is what the next
one below has bound it to, or none (`IsBelow`). Three lemmas say how the chain
changes when an activation starts (`ChainPush`), binds its variables (`ChainSwap`)
and returns (`ChainPop`), and each action is one of these.

`SideCondMeaningProofs` builds on this and proves that the interpreter is right:

* `MeaningReturned`: `SemRules => (Spec => []ReturnsMeaning)`.

The meaning of code is call-by-value with an environment per call, in which only
the parameters of the program are bound; the machine has one `val` per variable
for all activations, an explicit stack, addresses and a cache. `SemRules` says that
`Sem` is closed under the rules. It is a hypothesis about `Sem` and not about the
code, and it can always be met, since the rules are monotone: the theorem holds for
every closed relation, so for the least one, and there it says that the result and
the marks that `run_code()` leaves can be derived. (It is not an `ASSUME` because
its quantifiers range over all environments, which TLC cannot enumerate.) That
says nothing of a run that does not return: with `Terminates`, it is the whole
promise, without, it is partial correctness.

`StartMarks`, the marks that earlier runs have left, is arbitrary: `mark_map` is
cleared by `check` only (`check.cpp:1340`), not between runs.

The assumptions about the code are those above and three more:

* `ScopeAssumption`: code has its own variables and those of its binders free, and
  the body of a program only its parameters, since `read_code()` looks every
  identifier up while the scope is open (`code.cpp:337-347`). `Free` is any
  over-approximation of the variables that occur;
* `ArityAssumption`: constructors, and the patterns of cases, have all their
  arguments (`code.cpp:421-472`, `755-785`). A pattern that is a bare constructor with
  parameters is excluded: `check_code()` accepts it and `run_code()` then reads
  beyond its variables (see the known differences);
* `ObjectsAssumption`: the objects that occur in code are made of objects, and a
  constructor that code matches has all its arguments in them: scrutinees have a
  type and not a function type (`code.cpp:725-735`).

`ReturnsMeaning` speaks of the end of a run. The invariant `Meant` speaks of every
activation: there are goals `K`, one environment and set of marks per frame, such
that

* whatever meets the goal of a frame is something that the frame below is waiting
  for (`Goals`, `Awaited`), down to `run_code()` itself;
* the environment of a frame agrees with what the frames below have bound, on the
  variables that occur in the frame's code. This is where `Chain` is needed: a
  recursive call overwrites `val`, and afterwards the activation must find in it
  what its environment says;
* the kids that a frame has run have given, in order, the results it holds
  (`KidsGive`), with the marks that the next kid starts with;
* the code or the result at hand leads to what the top frame is waiting for
  (`OnCourse`), and everything that is held is an object (`Values`), so that `match`
  binds what the value's arguments denote.

`K` is not a variable of the model; each step extends, shortens or keeps it. As for
`ValsRestored`, runs with a stale variable are excepted: that is the difference
which the run `cache` exhibits. The rules use the same `Arith`, `Negated`, `Branch`
and `CaseOf` as the machine, so what numbers, comparisons and the choice of a case
compute is not part of the theorem; TLC compares the arithmetic with the independent
`ArithMeaning` of `CodeMeaning`.

### What is only model-checked

* `Typing`, `CodeTypes` and `SccWriter`: the terms, the type checker, the writer
  and their reference definitions are recursive operators, and what these compute
  for every input is out of the prover's reach. For `SideCond` it is not, because
  the recursion is on the machine's stack and the semantics is given by rules.
* `CachedMeaning`, which compares with the recursive `Meaning`.
* `CachedOnce`. A call inside a function's body with the same arguments would do
  the same again and never return, so the argument is about termination and not
  about one step.
* That the recursive `Meaning` of `CodeMeaning` satisfies the rules of
  `SideCondMeaning`. `side_conditions` compares the interpreter with `Meaning`, the
  theorem with the rules.
* The liveness properties `Ends` and `Terminates`.

## Not modelled

* Numerals and side conditions in `Typing`: `mpz`, `mpq`, and the call of
  `run_code()` when a rule is applied. What the code does is in `SideCond` and
  `CodeTypes`; what the scopes do around it is in `CheckScopes`.
* Dependent types in code: `CodeTypes` has base types and functions of them, and
  no variable stands for a constructor with arguments.
  With them `check_code()`'s second way to accept an argument, by the head of its
  type (`code.cpp:436`), is left out.
* Reference counts in the interpreter. `SccWriter` has those of compiled code.
* Printing, error messages and their spans, `--show-runs`, debugging output.
* The flex tables: the lexer hands out any tokens.
* The width of a character in `Trie`: `unsigned c = s[0]` assumes ASCII.
* Memory that runs out, and numerals beyond the range of a `long` in
  interpreted code, which uses GMP.
* The command line, which calls `check_file()` for each file in turn.
* `init_compiled_scc()`, which looks the symbols of compiled code up. Only `check`
  and `check-assuming` call it (`check.cpp:1296`), and `RunCompiled` is a run inside
  one; a `run` command before the first of them would find null pointers.
* `whr()` of a scrutinee (`code.cpp:1196`): the values of `SideCond` are no redexes.
* The test that the types of a program's parameters and result are proper or
  datatypes (`check.cpp:1424-1458`): the types of `CodeTypes` all pass it.
* The destructors that run when the program ends.

## Plan

1. (done) `CheckScopes` and its safety proofs; `SideCond` with its reference
   semantics; `SymTrie` refining `SymMap`.
2. (done) `TokenStream` and `Chunks` with their proofs; `Exprs` and `Typing`
   against `LF`; `CodeTypes`; `SccWriter`.
3. (done) Proofs of `ActivationRestores`, `NoneLost`, the invariants of `SideCond`,
   `TrieShape` and the refinement of `SymMap`.
4. (done) The proof of `ReturnsMeaning`.
5. `Balanced` and `Compiles` of `SccWriter` and `StaysTyped` of `CodeTypes` would
   need the writer and the type checker as machines with an explicit stack, as
   `SideCond` is one, before anything about them can be proved.
