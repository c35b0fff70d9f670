----------------------------- MODULE SccWriter -----------------------------
(***************************************************************************)
(* The compiler of side conditions: write_file() of src/sccwriter.cpp      *)
(* writes a C++ function for every program, and run_compiled_scc() calls   *)
(* one of them.  The text is a sequence of statements, and the functions   *)
(* are run on a heap of objects that count their references.               *)
(*                                                                         *)
(* The code is what check_code() accepts, the default of a match its last  *)
(* case.  No symbol has a definition, so followDefs() returns its object.  *)
(* A static pointer always points to the same symbol and is taken as a     *)
(* local one.  The memory of mpz_t and mpq_t is left out.                  *)
(***************************************************************************)
EXTENDS Code, FiniteSets, TLC

CONSTANTS
    Progs,       \* progNames, in the order of their declaration
    Params,      \* the parameters of each program
    Name,        \* the names of variables and symbols, as character codes
    LongRange,   \* 2^63: numerals are written as a signed long int
    Signatures   \* bodies that the programs may have, and arguments to run them on

ASSUME LongAssumption == LongRange \in Nat \ {0}

VARIABLES
    body,      \* the body of each program
    args,      \* the arguments that programs are run on
    text,      \* the functions written so far
    globals,   \* globalSyms
    result     \* what the function that was run left behind

vars == <<body, args, text, globals, result>>

-----------------------------------------------------------------------------
(* The C++ that is written *)

\* an expression or a condition, what it is about and the pointers it reads
Ex(k, a, xs) == [k |-> k, a |-> a, xs |-> xs]
NullEx == Ex("null", 0, <<>>)
Copy(x) == Ex("copy", 0, <<x>>)
Else == Ex("else", 0, <<>>)

\* a statement: the pointer it is about, an expression, the branches of an if
Statement(k, x, e, bs) == [k |-> k, x |-> x, e |-> e, bs |-> bs]
Decl(x, e) == Statement("decl", x, e, <<>>)     \* Expr* x = e;
Set(x, e) == Statement("set", x, e, <<>>)       \* x = e;
Inc(x) == Statement("inc", x, NullEx, <<>>)
Dec(x) == Statement("dec", x, NullEx, <<>>)
Toggle(m, x) == Statement("toggle", x, Ex("mark", m, <<x>>), <<>>)
Exit == Statement("exit", <<>>, NullEx, <<>>)
If(bs) == Statement("if", <<>>, NullEx, bs)
Case(c, b) == [c |-> c, b |-> b]

\* write_dec() for every pointer
Decs(xs) == [i \in DOMAIN xs |-> Dec(xs[i])]

\* a letter, digit or _ for every character
GetVarName(n) ==
    [i \in DOMAIN n |->
        LET c == CASE n[i] <= 47 -> n[i] + 65
                   [] n[i] \in 58..64 -> n[i] + 39
                   [] OTHER -> n[i]
        IN  CASE c \in (91..94) \cup {96} -> c + 13
              [] c >= 123 -> c - 4
              [] OTHER -> c]

\* "e" and a number below 100; "e_" and a name
Temp(n) == <<101>> \o IF n < 10 THEN <<48 + n>> ELSE <<48 + (n \div 10), 48 + (n % 10)>>
Global(n) == <<101, 95>> \o n

-----------------------------------------------------------------------------
(* write_code(), write_expr() and write_args().  The writer w has the       *)
(* statements of the block it is in, the names in vars and the counter of   *)
(* temporaries.  Names never leave vars.                                    *)

Emit(w, sts) == [w EXCEPT !.os = @ \o sts]
InBlock(w) == [w EXCEPT !.os = <<>>]
\* back in the block of w, with what else w2 knows
After(w, w2, sts) == Emit([w2 EXCEPT !.os = w.os], sts)

IsSymS(c) == c.op = "var" \/ (c.op = "lit" /\ IsSym(ObjectOf(c).v))
SymName(c) == Name[IF c.op = "var" THEN c.a ELSE ObjectOf(c).v.s]
Ctor(s) == Literal(SymObj(s))
CName(x) == GetVarName(Name[x])

RECURSIVE WriteCode(_, _, _), WriteExpr(_, _, _), WriteExprs(_, _, _),
          WriteArgs(_, _, _), WriteCases(_, _, _, _, _, _)

\* A faulty version: the counter stays.
NewTempAgain(c, w, check) ==
    LET x == Temp(w.n)
        w2 == WriteCode(c, Emit(w, <<Decl(x, NullEx)>>), x)
    IN  [x |-> x, w |-> [w2 EXCEPT !.vars = @ \cup {x}]]

\* the result of c in a new temporary
NewTemp(c, w, check) ==
    LET x == Temp(w.n)
        w2 == WriteCode(c, Emit([w EXCEPT !.n = @ + 1], <<Decl(x, NullEx)>>), x)
        test == If(<<Case(Ex("not_sym", 0, <<x>>), <<Exit>>)>>)
    IN  [x |-> x,
         w |-> Emit([w2 EXCEPT !.vars = @ \cup {x}], IF check THEN <<test>> ELSE <<>>)]

WriteExpr(c, w, check) ==
    IF IsSymS(c) /\ SymName(c) \in w.vars
    THEN LET x == GetVarName(SymName(c)) IN [x |-> x, w |-> Emit(w, <<Inc(x)>>)]
    ELSE NewTemp(c, w, check)

WriteExprs(cs, w, check) ==
    IF cs = <<>> THEN [xs |-> <<>>, w |-> w]
    ELSE LET o == WriteExpr(Head(cs), w, check)
             os == WriteExprs(Tail(cs), o.w, check)
         IN  [xs |-> <<o.x>> \o os.xs, w |-> os.w]

WriteSym(c, w, r) ==
    LET x == GetVarName(SymName(c))
    IN  IF SymName(c) \in w.vars THEN Emit(w, <<Set(r, Copy(x)), Inc(r)>>)
        ELSE Emit([w EXCEPT !.globals = @ \cup {x}],
                  <<Set(r, Copy(Global(x))), Inc(r)>>)

\* mpz_get_si()
SignedLong(n) == IF n < 0 THEN -1 - ((-n - 1) % LongRange) ELSE n % LongRange

WriteNumber(c, w, r) ==
    LET v == ObjectOf(c).v
        n == IF v.t = "int" THEN IntVal(SignedLong(v.n))
             ELSE RatVal(SignedLong(v.n), SignedLong(v.d))
    IN  Emit(w, <<Set(r, Ex("number", n, <<>>)), Inc(r)>>)

\* A faulty version: the arguments are not released.
WriteCallKeeps(c, w, r) ==
    LET o == WriteExprs(c.kids, w, FALSE)
    IN  Emit(o.w, <<Set(r, Ex("call", c.a, o.xs))>>)

WriteCall(c, w, r) ==
    LET o == WriteExprs(c.kids, w, FALSE)
    IN  Emit(o.w, <<Set(r, Ex("call", c.a, o.xs))>> \o Decs(o.xs))

\* the new object takes the references to its kids
WriteNew(c, w, r) ==
    LET o == WriteExprs(c.kids, w, FALSE)
        h == WriteExpr(Ctor(c.a), o.w, FALSE)
    IN  Emit(h.w, <<Set(r, Ex("new", 0, <<h.x>> \o o.xs))>>)

-----------------------------------------------------------------------------
(* match *)

\* A pointer to the constructor of each case, up to the default.  A default that
\* comes first is taken for a case: its code is written here, too.
WriteArgs(c, i, w) ==
    IF i > Len(c.a) \/ (i > 1 /\ c.a[i].c = "default") THEN [xs |-> <<>>, w |-> w]
    ELSE LET kid == c.kids[i + 1]
             o == CASE c.a[i].c # "default" -> NewTemp(Ctor(c.a[i].c), w, FALSE)
                    [] IsSymS(kid) -> [x |-> SymName(kid), w |-> w]
                    [] OTHER -> WriteExpr(kid, w, FALSE)
             os == WriteArgs(c, i + 1, o.w)
         IN  [xs |-> <<o.x>> \o os.xs, w |-> os.w]

\* A faulty version: the constructor counts as the first argument.
PatternVarsFromHead(xs, scrut) ==
    [b \in DOMAIN xs |-> Decl(CName(xs[b]), Ex("kid", b - 1, <<scrut>>))]

\* the variables of a pattern point into the scrutinee
PatternVars(xs, scrut) ==
    [b \in DOMAIN xs |-> Decl(CName(xs[b]), Ex("kid", b, <<scrut>>))]

\* the branches from the ith case on; without a default the last one exits
WriteCases(c, i, w, r, scrut, tests) ==
    IF i > Len(c.a) THEN [bs |-> <<Case(Else, <<Exit>>)>>, w |-> w]
    ELSE IF c.a[i].c = "default"
    THEN LET b == WriteCode(c.kids[i + 1], InBlock(w), r)
         IN  [bs |-> <<Case(Else, b.os)>>, w |-> After(w, b, <<>>)]
    ELSE LET xs == c.a[i].xs
             in == Emit([InBlock(w) EXCEPT !.vars = @ \cup {Name[xs[b]] : b \in DOMAIN xs}],
                        PatternVars(xs, scrut))
             b == WriteCode(c.kids[i + 1], in, r)
             rest == WriteCases(c, i + 1, After(w, b, <<>>), r, scrut, tests)
         IN  [bs |-> <<Case(tests[i], b.os)>> \o rest.bs, w |-> rest.w]

WriteMatch(c, w, r) ==
    LET s == WriteExpr(c.kids[1], w, FALSE)
        hd == Temp(s.w.n)
        as == WriteArgs(c, 1, Emit([s.w EXCEPT !.n = @ + 1],
                                   <<Decl(hd, Ex("head", 0, <<s.x>>))>>))
        o == WriteCases(c, 1, as.w, r, s.x,
                        [i \in DOMAIN as.xs |-> Ex("same", 0, <<hd, as.xs[i]>>)])
    IN  Emit(o.w, <<If(o.bs), Dec(s.x)>> \o Decs(as.xs))

-----------------------------------------------------------------------------
(* The other ops *)

WriteDo(c, w, r) ==
    LET o == WriteExpr(c.kids[1], w, FALSE)
    IN  WriteCode(c.kids[2], Emit(o.w, <<Dec(o.x)>>), r)

WriteLet(c, w, r) ==
    LET x == CName(c.a)
        w2 == WriteCode(c.kids[1], Emit(w, <<Decl(x, NullEx)>>), x)
        w3 == WriteCode(c.kids[2], [w2 EXCEPT !.vars = @ \cup {Name[c.a]}], r)
    IN  Emit(w3, <<Dec(x)>>)

WriteFail(w, r) == Emit(w, <<Set(r, NullEx)>>)

WriteMarkVar(c, w, r) ==
    LET o == WriteExpr(c.kids[1], w, TRUE)
    IN  Emit(o.w, <<Toggle(c.a, o.x), Set(r, Copy(o.x)), Inc(r), Dec(o.x)>>)

TwoWay(test, yes, no, w, r) ==
    LET b == WriteCode(yes, InBlock(w), r)
        d == WriteCode(no, InBlock(b), r)
    IN  After(w, d, <<If(<<Case(test, b.os), Case(Else, d.os)>>)>>)

\* IFMARKED, COMPARE and IFEQUAL
WriteSymTest(c, w, r) ==
    LET n == Strict(c)
        o == WriteExprs(SubSeq(c.kids, 1, n), w, TRUE)
        w2 == TwoWay(Ex(c.op, c.a, o.xs), c.kids[n + 1], c.kids[n + 2], o.w, r)
    IN  Emit(w2, Decs(o.xs))

IntOrRat(x, ints, rats) ==
    If(<<Case(Ex("class", "int", <<x>>), ints), Case(Ex("class", "rat", <<x>>), rats)>>)

\* ADD, MUL, DIV and NEG
WriteArith(c, w, r) ==
    LET o == WriteExprs(c.kids, w, FALSE)
        intop == IF c.op \in {"add", "neg"} THEN c.op ELSE "mul"
    IN  Emit(o.w, <<IntOrRat(o.xs[1], <<Set(r, Ex("arith", <<"int", intop>>, o.xs))>>,
                                      <<Set(r, Ex("arith", <<"rat", c.op>>, o.xs))>>)>>
                  \o Decs(o.xs))

WriteMpzToMpq(c, w, r) ==
    LET o == WriteExpr(c.kids[1], w, FALSE)
    IN  Emit(o.w, <<Set(r, Ex("arith", <<"int", "to_q">>, <<o.x>>)), Dec(o.x)>>)

\* IFNEG and IFZERO: the branches are written for either class
WriteSignTest(c, w, r) ==
    LET o == WriteExpr(c.kids[1], w, FALSE)
        test == Ex(c.op, 0, <<o.x>>)
        i == TwoWay(test, c.kids[2], c.kids[3], InBlock(o.w), r)
        q == TwoWay(test, c.kids[2], c.kids[3], InBlock(i), r)
    IN  After(o.w, q, <<IntOrRat(o.x, i.os, q.os), Dec(o.x)>>)

WriteCode(c, w, r) ==
    CASE IsSymS(c) -> WriteSym(c, w, r)
      [] c.op = "lit" /\ ~IsSymS(c) -> WriteNumber(c, w, r)
      [] c.op = "call" -> WriteCall(c, w, r)
      [] c.op = "con" -> WriteNew(c, w, r)
      [] c.op = "match" -> WriteMatch(c, w, r)
      [] c.op = "do" -> WriteDo(c, w, r)
      [] c.op = "let" -> WriteLet(c, w, r)
      [] c.op = "fail" -> WriteFail(w, r)
      [] c.op = "markvar" -> WriteMarkVar(c, w, r)
      [] c.op \in {"ifmarked", "compare", "ifequal"} -> WriteSymTest(c, w, r)
      [] c.op \in {"add", "mul", "div", "neg"} -> WriteArith(c, w, r)
      [] c.op = "to_q" -> WriteMpzToMpq(c, w, r)
      [] c.op \in {"ifneg", "ifzero"} -> WriteSignTest(c, w, r)

-----------------------------------------------------------------------------
(* write_file() *)

WriteFunction(p) ==
    LET xs == Params[p]
        o == WriteExpr(body[p],
                       [os |-> <<>>, vars |-> {Name[xs[i]] : i \in DOMAIN xs}, n |-> 0,
                        globals |-> globals],
                       FALSE)
    IN  [params |-> [i \in DOMAIN xs |-> CName(xs[i])], os |-> o.w.os, ret |-> o.x,
         globals |-> o.w.globals]

Init ==
    /\ \E sig \in Signatures : body = sig.body /\ args = sig.args
    /\ text = <<>>
    /\ globals = {}
    /\ result = <<>>

\* the next function of the file
WriteProgram ==
    /\ Len(text) < Len(Progs)
    /\ LET f == WriteFunction(Progs[Len(text) + 1])
       IN  text' = Append(text, f) /\ globals' = f.globals
    /\ UNCHANGED <<body, args, result>>

-----------------------------------------------------------------------------
(* Running a function.  The state m of the machine has the pointers in      *)
(* scope, the objects and the marks.  m.status is "run" until exit() is     *)
(* called, a null pointer is followed or GMP divides by zero ("crash"), or  *)
(* the behaviour is undefined.                                              *)

Uninitialized == -1

\* what an object is, the addresses of its kids and its reference count
Object(v, kids) == [v |-> v, kids |-> kids, rc |-> 1]
AppObject == [t |-> "app"]

RECURSIVE Denote(_, _), Release(_, _), Exec(_, _), Build(_, _), BuildAll(_, _)

Denote(heap, a) ==
    LET o == heap[a]
    IN  IF o.v # AppObject THEN o.v
        ELSE AppVal(heap[o.kids[1]].v.s, [i \in 1..(Len(o.kids) - 1) |-> Denote(heap, o.kids[i + 1])])

\* Expr::dec(), and of the kids of an object that nothing points to any more
Release(heap, as) ==
    IF as = <<>> THEN heap
    ELSE LET a == Head(as)
             h == [heap EXCEPT ![a].rc = @ - 1]
         IN  Release(h, IF h[a].rc = 0 THEN h[a].kids \o Tail(as) ELSE Tail(as))

\* following the pointers xs
Deref(m, xs) ==
    LET as == {m.env[xs[i]] : i \in DOMAIN xs}
    IN  CASE Uninitialized \in as \/ (\E a \in as : a > 0 /\ m.heap[a].rc <= 0) -> "undefined"
          [] OTHER -> IF 0 \in as THEN "crash" ELSE m.status

\* reading the pointers xs
Read(m, xs) == IF \E i \in DOMAIN xs : m.env[xs[i]] = Uninitialized THEN "undefined" ELSE m.status

Yield(m, x, a) == [m EXCEPT !.env[x] = a]
YieldNew(m, x, o) ==
    [m EXCEPT !.heap = Append(@, o), !.env[x] = Len(m.heap) + 1]

\* the kids of a new CExpr: they end at the first null pointer
UpToNull(as) ==
    LET nulls == {i \in DOMAIN as : as[i] = 0}
    IN  IF nulls = {} THEN as
        ELSE SubSeq(as, 1, (CHOOSE i \in nulls : \A j \in nulls : i <= j) - 1)

ValueAt(m, x) == m.heap[m.env[x]].v

ArithResult(e, m) ==
    LET v == ValueAt(m, e.xs[1])
        w == ValueAt(m, e.xs[Len(e.xs)])
    IN  CASE e.a[2] = "neg" -> Negated(v)
          [] e.a[2] = "to_q" -> ToRational(v)
          [] OTHER -> Arith(e.a[2], v, w)

Enter(f, as, m) ==
    [m EXCEPT !.env = [x \in {f.params[i] : i \in DOMAIN f.params} |->
                          as[CHOOSE i \in DOMAIN f.params : f.params[i] = x]] @@ m.statics]

\* x = e;
Assign(x, e, m) ==
    LET as == [i \in DOMAIN e.xs |-> m.env[e.xs[i]]]
        status == IF e.k \in {"copy", "call", "new"} THEN Read(m, e.xs) ELSE Deref(m, e.xs)
        o == m.heap[as[1]]
    IN  CASE status # "run" -> [m EXCEPT !.status = status]
          [] e.k = "null" -> Yield(m, x, 0)
          [] e.k = "copy" -> Yield(m, x, as[1])
          [] e.k = "number" -> YieldNew(m, x, Object(e.a, <<>>))
          [] e.k = "new" -> YieldNew(m, x, Object(AppObject, UpToNull(as)))
          [] e.k = "head" -> Yield(m, x, IF o.v = AppObject THEN o.kids[1] ELSE as[1])
          [] e.k = "kid" ->
               IF e.a + 1 \in DOMAIN o.kids THEN Yield(m, x, o.kids[e.a + 1])
               ELSE [m EXCEPT !.status = "undefined"]
          [] e.k = "arith" ->
               LET v == ValueAt(m, e.xs[1])
                   w == ValueAt(m, e.xs[Len(e.xs)])
               IN  IF v.t # e.a[1] \/ w.t # e.a[1] THEN [m EXCEPT !.status = "undefined"]
                   ELSE IF e.a[2] = "div" /\ w.n = 0 THEN [m EXCEPT !.status = "crash"]
                   ELSE YieldNew(m, x, Object(ArithResult(e, m), <<>>))
          [] e.k = "call" ->
               LET f == text[CHOOSE i \in DOMAIN Progs : Progs[i] = e.a]
                   m2 == Exec(f.os, Enter(f, as, m))
                   back == [m2 EXCEPT !.env = m.env]
               IN  IF m2.status # "run" THEN back ELSE Yield(back, x, m2.env[f.ret])

\* a condition; symbols have names, so that none has the class SYM_EXPR
Holds(e, m) ==
    LET v(i) == ValueAt(m, e.xs[i])
    IN  CASE e.k \in {"else", "not_sym"} -> TRUE
          [] e.k = "same" -> m.env[e.xs[1]] = m.env[e.xs[2]]
          [] e.k = "class" -> v(1).t = e.a
          [] e.k = "ifneg" -> v(1).n < 0
          [] e.k = "ifzero" -> v(1).n = 0
          [] e.k = "ifmarked" -> <<e.a, v(1).s>> \in m.marks
          [] e.k = "compare" -> m.env[e.xs[1]] < m.env[e.xs[2]]
          [] e.k = "ifequal" -> Denote(m.heap, m.env[e.xs[1]]) = Denote(m.heap, m.env[e.xs[2]])

\* the marks of an object that is not a symbol are not there
Tested(e, m) ==
    IF e.k = "same" THEN Read(m, e.xs)
    ELSE LET status == Deref(m, e.xs)
         IN  IF status = "run" /\ e.k \in {"ifmarked", "mark"} /\ ~IsSym(ValueAt(m, e.xs[1]))
             THEN "undefined" ELSE status

Declared(os) == {os[i].x : i \in {j \in DOMAIN os : os[j].k = "decl"}}

\* a block hides the names that it declares
RunBlock(os, m) ==
    LET m2 == Exec(os, m)
    IN  [m2 EXCEPT !.env = [x \in DOMAIN m.env |->
                               IF x \in Declared(os) THEN m.env[x] ELSE m2.env[x]]]

RECURSIVE Choose(_, _)
Choose(bs, m) ==
    IF bs = <<>> THEN m
    ELSE LET b == Head(bs)
             status == Tested(b.c, m)
         IN  CASE status # "run" -> [m EXCEPT !.status = status]
               [] status = "run" /\ Holds(b.c, m) -> RunBlock(b.b, m)
               [] OTHER -> Choose(Tail(bs), m)

Step(s, m) ==
    CASE s.k = "decl" -> Assign(s.x, s.e, [m EXCEPT !.env = (s.x :> Uninitialized) @@ @])
      [] s.k = "set" -> Assign(s.x, s.e, m)
      [] s.k = "inc" -> LET status == Deref(m, <<s.x>>)
                        IN  IF status # "run" THEN [m EXCEPT !.status = status]
                            ELSE [m EXCEPT !.heap[m.env[s.x]].rc = @ + 1]
      [] s.k = "dec" -> LET status == Deref(m, <<s.x>>)
                        IN  IF status # "run" THEN [m EXCEPT !.status = status]
                            ELSE [m EXCEPT !.heap = Release(@, <<m.env[s.x]>>)]
      [] s.k = "toggle" -> LET status == Tested(s.e, m)
                               mark == <<s.e.a, ValueAt(m, s.x).s>>
                           IN  IF status # "run" THEN [m EXCEPT !.status = status]
                               ELSE [m EXCEPT !.marks = (@ \ {mark}) \cup ({mark} \ @)]
      [] s.k = "if" -> Choose(s.bs, m)
      [] s.k = "exit" -> [m EXCEPT !.status = "exit"]

Exec(os, m) == IF os = <<>> \/ m.status # "run" THEN m ELSE Exec(Tail(os), Step(Head(os), m))

-----------------------------------------------------------------------------
(* run_compiled_scc() *)

\* the symbols, which the table of symbols keeps
Symbols == [a \in 1..Cardinality(DOMAIN Addr) |->
               Object(SymVal(CHOOSE s \in DOMAIN Addr : Addr[s] = a), <<>>)]

\* init_compiled_scc() looks a global up by the name that it has in C++
Statics ==
    [x \in {Global(g) : g \in globals} |->
        IF \E s \in DOMAIN Addr : Global(Name[s]) = x
        THEN Addr[CHOOSE s \in DOMAIN Addr : Global(Name[s]) = x] ELSE 0]

\* objects for a value and for several
Build(v, heap) ==
    IF v.t = "sym" THEN [a |-> Addr[v.s], heap |-> [heap EXCEPT ![Addr[v.s]].rc = @ + 1]]
    ELSE LET o == IF v.t = "app" THEN BuildAll(<<SymVal(v.s)>> \o v.args, heap)
                  ELSE [as |-> <<>>, heap |-> heap]
         IN  [a |-> Len(o.heap) + 1,
              heap |-> Append(o.heap, Object(IF v.t = "app" THEN AppObject ELSE v, o.as))]

BuildAll(vs, heap) ==
    IF vs = <<>> THEN [as |-> <<>>, heap |-> heap]
    ELSE LET o == Build(Head(vs), heap)
             os == BuildAll(Tail(vs), o.heap)
         IN  [as |-> <<o.a>> \o os.as, heap |-> os.heap]

\* the call of run_compiled_scc() in run_code_internal(), which releases the arguments,
\* in a check command, which has called init_compiled_scc(): the symbols are known
RunCompiled(i, vs) ==
    /\ Len(text) = Len(Progs)
    /\ result = <<>>
    /\ LET o == BuildAll(vs, Symbols)
           f == text[i]
           m == Exec(f.os, Enter(f, o.as, [env |-> <<>>, heap |-> o.heap, marks |-> {},
                                           status |-> "run", statics |-> Statics]))
       IN  result' = [prog |-> Progs[i], vs |-> vs, status |-> m.status, marks |-> m.marks,
                      ret |-> IF m.status = "run" THEN m.env[f.ret] ELSE 0,
                      heap |-> IF m.status = "run" THEN Release(m.heap, o.as) ELSE m.heap]
    /\ UNCHANGED <<body, args, text, globals>>

Next ==
    \/ WriteProgram
    \/ \E i \in DOMAIN Progs : \E vs \in args[Progs[i]] : RunCompiled(i, vs)

Spec == Init /\ [][Next]_vars

-----------------------------------------------------------------------------
(* What the C++ compiler asks for *)

\* the pointers that a statement reads
Reads(s) ==
    {s.e.xs[i] : i \in DOMAIN s.e.xs}
        \cup (IF s.k \in {"set", "inc", "dec", "toggle"} THEN {s.x} ELSE {})

RECURSIVE Scoped(_, _, _)
\* seen: the names in scope; here: those that this block has declared
Scoped(os, seen, here) ==
    \/ os = <<>>
    \/ LET s == Head(os)
           new == IF s.k = "decl" THEN {s.x} ELSE {}
       IN  /\ Reads(s) \subseteq seen \cup new
           /\ new \cap here = {}
           /\ \A i \in DOMAIN s.bs :
                 /\ \A j \in DOMAIN s.bs[i].c.xs : s.bs[i].c.xs[j] \in seen
                 /\ Scoped(s.bs[i].b, seen, {})
           /\ Scoped(Tail(os), seen \cup new, here \cup new)

\* Every function that is written reads pointers that are in scope, and declares
\* none twice in a block: it is C++.
Compiles ==
    \A i \in DOMAIN text :
        LET f == text[i]
            params == {f.params[j] : j \in DOMAIN f.params}
        IN  /\ Cardinality(params) = Len(f.params)
            /\ Scoped(f.os, params \cup {Global(g) : g \in globals}, params)

Ran == result # <<>> /\ result.status = "run"

\* how often the live objects point to a
Pointers(heap, a) ==
    Cardinality(UNION {{<<b, i>> : i \in {j \in DOMAIN heap[b].kids : heap[b].kids[j] = a}} :
                          b \in {c \in DOMAIN heap : heap[c].rc > 0}})

\* When a function has returned, every object is pointed to as often as its
\* reference count says, by other objects, the table of symbols and the caller,
\* that has the result: nothing is leaked, and nothing was freed too early.
Balanced ==
    /\ result # <<>> => result.status # "undefined"
    /\ Ran => \A a \in DOMAIN result.heap :
          result.heap[a].rc = Pointers(result.heap, a)
                              + (IF a \in DOMAIN Symbols THEN 1 ELSE 0)
                              + (IF a = result.ret THEN 1 ELSE 0)
=============================================================================
