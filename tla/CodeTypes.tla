------------------------------ MODULE CodeTypes ------------------------------
(***************************************************************************)
(* The commands program and run: read_code() and read_case() resolve the   *)
(* names of code in the symbol table and in the map of programs,           *)
(* check_code() computes its type, and the code is run.                    *)
(*                                                                         *)
(* Names of code are resolved when it is read, types are looked up by name *)
(* when it is checked.  A look-up in the map inserts a null entry for a    *)
(* name that it does not have.  The types are base types and functions of  *)
(* them, all different, so that defeq() compares them.  A pattern does not *)
(* start with a parameter; applications have arguments, and no variable    *)
(* stands for a constructor that takes arguments.                          *)
(***************************************************************************)
EXTENDS CodeMeaning

CONSTANTS
    mpz, mpq,   \* the names of the types of numbers
    Numerals,   \* the numbers that numerals stand for
    Signature,  \* the symbols that have been declared, with their types
    Programs,   \* programs that may be declared
    Runs,       \* code that may be run, as it is written
    MaxCommands \* bound on the commands of a file

VARIABLES
    progs,     \* the map of programs: NoEntry, NullEntry or a program
    declared,  \* history: the names that programs have been declared with
    commands,  \* how many commands have been done
    status,    \* Ok, or why report_error() exited
    ran        \* the code that was run last, its type, and what it gave

vars == <<progs, declared, commands, status, ran>>

-----------------------------------------------------------------------------
(* Types and the symbol table *)

None0 == [t |-> "none"]
Err == [t |-> "error"]                       \* report_error()
Base(n) == [t |-> "base", n |-> n]
TypeType == Base("type")
Mpz == Base(mpz)
Mpq == Base(mpq)
Pi(args, res) == [t |-> "pi", args |-> args, res |-> res]

\* an entry has an object, a variable or a symbol, and a type
Entry(obj, tp) == [obj |-> obj, tp |-> tp]
Symbols == [n \in Var |->
               CASE n \in DOMAIN Signature -> Entry("sym", Signature[n])
                 [] n \in {mpz, mpq} -> Entry("sym", TypeType)
                 [] OTHER -> Entry("none", None0)]

NoRun == [tp |-> None0]

\* what a name means in progs
NoEntry == [k |-> "no entry"]
NullEntry == [k |-> "null"]
Program(xs, tps, ret, body) ==
    [k |-> "program", xs |-> xs, tps |-> tps, ret |-> ret, body |-> body]
IsProgram(ps, n) == ps[n].k = "program"

\* progs[n]
Inserted(ps, n) == IF ps[n] = NoEntry THEN [ps EXCEPT ![n] = NullEntry] ELSE ps

-----------------------------------------------------------------------------
(* read_code(): the code, or an error, and the map of programs after it *)

Read(ok, e, ps) == [ok |-> ok, e |-> e, ps |-> ps]
Undeclared(ps) == Read(FALSE, <<>>, ps)

Bound(tab, xs, tps) ==
    [n \in Var |-> IF \E i \in DOMAIN xs : xs[i] = n
                   THEN Entry("var", tps[LastOf(xs, n)]) ELSE tab[n]]
Untyped(xs) == [i \in DOMAIN xs |-> None0]

\* an identifier: the symbol table first
ReadName(c, tab, ps) ==
    LET ps2 == Inserted(ps, c.a)
    IN  CASE tab[c.a].obj = "var" -> Read(TRUE, Node("var", c.a, <<>>), ps)
          [] tab[c.a].obj = "sym" -> Read(TRUE, Literal(SymObj(c.a)), ps)
          [] OTHER -> Read(IsProgram(ps, c.a), Node("prog", c.a, <<>>), ps2)

\* the head of an application: the map of programs first
Applied(c, tab, r) ==
    LET ps == Inserted(r.ps, c.a)
    IN  CASE IsProgram(r.ps, c.a) -> Read(r.ok, Node("call", c.a, r.es), ps)
          [] ~IsProgram(r.ps, c.a) /\ tab[c.a].obj # "none" ->
               Read(r.ok, Node("con", c.a, r.es), ps)
          [] OTHER -> Undeclared(ps)

RECURSIVE ReadCode(_, _, _), ReadKids(_, _, _)

\* kids with their own symbol tables
ReadKids(cs, tabs, ps) ==
    IF cs = <<>> THEN [ok |-> TRUE, es |-> <<>>, ps |-> ps]
    ELSE LET r == ReadCode(Head(cs), Head(tabs), ps)
             rs == ReadKids(Tail(cs), Tail(tabs), r.ps)
         IN  IF r.ok THEN [rs EXCEPT !.es = <<r.e>> \o @]
             ELSE [ok |-> FALSE, es |-> <<>>, ps |-> r.ps]

ReadCode(c, tab, ps) ==
    LET local == CASE c.op = "let" -> <<tab, Bound(tab, <<c.a>>, <<None0>>)>>
                   [] c.op = "match" ->
                        <<tab>> \o [i \in DOMAIN c.a |-> Bound(tab, c.a[i].xs, Untyped(c.a[i].xs))]
                   [] OTHER -> [i \in DOMAIN c.kids |-> tab]
        r == ReadKids(c.kids, local, IF c.op = "app" THEN Inserted(ps, c.a) ELSE ps)
        heads == c.op = "match" =>
                     \A i \in DOMAIN c.a : c.a[i].c = "default" \/ tab[c.a[i].c].obj = "sym"
    IN  CASE c.op = "number" -> Read(TRUE, Literal(Obj(Numerals[c.a], 0, <<>>)), ps)
          [] c.op = "name" -> ReadName(c, tab, ps)
          [] c.op = "app" -> Applied(c, tab, r)
          [] OTHER -> Read(r.ok /\ heads, Node(c.op, c.a, r.es), r.ps)

-----------------------------------------------------------------------------
(* check_code(): the type of code, or an error.  tab has the types by name. *)

RECURSIVE CheckCode(_, _, _)

CheckKids(e, tab, ps) == [i \in DOMAIN e.kids |-> CheckCode(e.kids[i], tab, ps)]

\* the type of the head of an application against the types of its arguments
CheckApplied(tp, tps) ==
    IF tp.t = "pi" /\ tp.args = tps THEN tp.res ELSE Err

\* ADD, MUL, DIV, NEG and MPZ_TO_MPQ
CheckArith(op, tps) ==
    CASE tps[1] \notin {Mpz, Mpq} \/ (\E i \in DOMAIN tps : tps[i] # tps[1]) -> Err
      [] op = "to_q" -> IF tps[1] = Mpz THEN Mpq ELSE Err
      [] OTHER -> tps[1]

\* a type by name, whose own type is looked up by that name
IsMarkable(tp, tab) ==
    tp.t = "base" /\ tp \notin {Mpz, Mpq, TypeType} /\ tab[tp.n].tp = TypeType

\* the conditionals: what they ask of their operands; the branches have one type
CheckBranches(op, tps, tab) ==
    LET n == Len(tps)
        fits == CASE op \in {"ifneg", "ifzero"} -> tps[1] \in {Mpz, Mpq}
                  [] op = "ifmarked" -> IsMarkable(tps[1], tab)
                  [] op = "compare" -> \A i \in 1..2 : tps[i].t = "base" /\ tps[i] \notin {Mpz, Mpq, TypeType}
                  [] op = "ifequal" -> tps[1] = tps[2]
    IN  IF fits /\ tps[n - 1] = tps[n] THEN tps[n] ELSE Err

\* A faulty version: the types of the cases may differ.
SameTypeAny(tps) == tps[1]

SameType(tps) == IF \A i \in DOMAIN tps : tps[i] = tps[1] THEN tps[1] ELSE Err

\* the symbol table for a case, and whether the pattern fits its constructor
CaseTable(case, tab) ==
    IF case.c = "default" \/ case.xs = <<>> THEN tab
    ELSE Bound(tab, case.xs, tab[case.c].tp.args)
PatternFits(case, tab) ==
    \/ case.c = "default" \/ case.xs = <<>>
    \/ LET tp == tab[case.c].tp
       IN  tp.t = "pi" /\ Len(tp.args) = Len(case.xs)

CheckMatch(e, tab, ps) ==
    LET tp == CheckCode(e.kids[1], tab, ps)
        proper == tp.t = "base" /\ tp # TypeType
    IN  IF ~proper \/ \E i \in DOMAIN e.a : ~PatternFits(e.a[i], tab) THEN Err
        ELSE SameType([i \in DOMAIN e.a |-> CheckCode(e.kids[i + 1], CaseTable(e.a[i], tab), ps)])

CheckLet(e, tab, ps) ==
    LET tp == CheckCode(e.kids[1], tab, ps)
    IN  IF tp = Err THEN Err ELSE CheckCode(e.kids[2], Bound(tab, <<e.a>>, <<tp>>), ps)

NameOf(e) == IF e.op = "lit" THEN ObjectOf(e).v.s ELSE e.a

\* a leaf: its type by name; a program has none
CheckLeaf(e, tab) ==
    CASE e.op = "lit" /\ ObjectOf(e).v.t = "int" -> Mpz
      [] e.op = "lit" /\ ObjectOf(e).v.t = "rat" -> Mpq
      [] OTHER -> IF tab[NameOf(e)].tp = None0 THEN Err ELSE tab[NameOf(e)].tp

CheckOp(e, tps, tab, ps) ==
    CASE Err \in {tps[i] : i \in DOMAIN tps} -> Err
      [] e.op = "call" -> CheckApplied(Pi(ps[e.a].tps, ps[e.a].ret), tps)
      [] e.op = "con" -> CheckApplied(tab[e.a].tp, tps)
      [] e.op = "do" -> tps[2]
      [] e.op = "fail" -> IF tps[1] = TypeType THEN Base(NameOf(e.kids[1])) ELSE Err
      [] e.op \in {"add", "mul", "div", "neg", "to_q"} -> CheckArith(e.op, tps)
      [] e.op = "markvar" -> IF IsMarkable(tps[1], tab) THEN tps[1] ELSE Err
      [] e.op \in Conditionals -> CheckBranches(e.op, tps, tab)

CheckCode(e, tab, ps) ==
    CASE e.op \in {"lit", "var", "prog"} -> CheckLeaf(e, tab)
      [] e.op = "let" -> CheckLet(e, tab, ps)
      [] e.op = "match" -> CheckMatch(e, tab, ps)
      [] OTHER -> CheckOp(e, CheckKids(e, tab, ps), tab, ps)

-----------------------------------------------------------------------------
(* The commands *)

\* report_error() exits: why, and in which program
Ok == [why |-> "ok", name |-> "none"]
Exit(why, n) == status' = [why |-> why, name |-> n] /\ UNCHANGED <<declared, ran>>

Init ==
    /\ progs = [n \in Var |-> NoEntry]
    /\ declared = {} /\ commands = 0 /\ status = Ok /\ ran = NoRun

\* A faulty version: a program may be declared again.
AlwaysFresh(ps, n) == TRUE

\* progs.find(n) == progs.end()
IsFresh(ps, n) == ps[n] = NoEntry

\* (program name ((x tp) ...) ret body): a parameter may not have a meaning
\* already, and the body is checked with the type of the program in place.
ProgramCommand(p) ==
    LET proper == \A i \in DOMAIN p.xs :
                      /\ Symbols[p.xs[i]].obj = "none"
                      /\ \A j \in 1..(i - 1) : p.xs[j] # p.xs[i]
        tab == Bound(Symbols, p.xs, p.tps)
        r == ReadCode(p.body, tab, [progs EXCEPT ![p.name] = Program(p.xs, p.tps, p.ret, <<>>)])
        entry == Program(p.xs, p.tps, p.ret, r.e)
    IN  /\ status = Ok /\ commands < MaxCommands
        /\ commands' = commands + 1
        /\ \/ ~IsFresh(progs, p.name) /\ Exit("redeclared", p.name) /\ UNCHANGED progs
           \/ IsFresh(progs, p.name) /\ ~proper /\ Exit("parameter", p.name) /\ UNCHANGED progs
           \/ IsFresh(progs, p.name) /\ proper /\ ~r.ok /\ Exit("undeclared", p.name) /\ progs' = r.ps
           \/ /\ IsFresh(progs, p.name) /\ proper /\ r.ok
              /\ CheckCode(r.e, tab, r.ps) # p.ret
              /\ Exit("ill typed", p.name) /\ progs' = r.ps
           \/ /\ IsFresh(progs, p.name) /\ proper /\ r.ok
              /\ CheckCode(r.e, tab, r.ps) = p.ret
              /\ progs' = [r.ps EXCEPT ![p.name] = entry]
              /\ declared' = declared \cup {p.name}
              /\ UNCHANGED <<status, ran>>

\* what code gives: call_run_code()
Result(e, ps) ==
    LET ds == {n \in Var : IsProgram(ps, n)}
    IN  Meaning([body |-> [n \in ds |-> ps[n].body], params |-> [n \in ds |-> ps[n].xs],
                 functions |-> {}], e, NoVals, {}, FALSE).r

\* (run code)
RunCommand(c) ==
    LET r == ReadCode(c, Symbols, progs)
        tp == CheckCode(r.e, Symbols, r.ps)
    IN  /\ status = Ok /\ commands < MaxCommands
        /\ commands' = commands + 1
        /\ progs' = r.ps
        /\ \/ ~r.ok /\ Exit("undeclared", "none")
           \/ r.ok /\ tp = Err /\ Exit("ill typed", "none")
           \/ /\ r.ok /\ tp # Err
              /\ ran' = [e |-> r.e, tp |-> tp, r |-> Result(r.e, r.ps)]
              /\ UNCHANGED <<declared, status>>

Next ==
    \/ \E p \in Programs : ProgramCommand(p)
    \/ \E c \in Runs : RunCommand(c)

Spec == Init /\ [][Next]_vars

-----------------------------------------------------------------------------
(* Properties *)

RECURSIVE HasType(_, _)
HasType(v, tp) ==
    CASE v.t = "int" -> tp = Mpz
      [] v.t = "rat" -> tp = Mpq
      [] v.t = "sym" -> Signature[v.s] = tp
      [] v.t = "app" -> /\ Signature[v.s].t = "pi" /\ Signature[v.s].res = tp
                        /\ Len(v.args) = Len(Signature[v.s].args)
                        /\ \A i \in DOMAIN v.args : HasType(v.args[i], Signature[v.s].args[i])

\* Code that check_code() accepts computes a value of the type that
\* check_code() gives it, or fails: a value of a wrong type cannot reach a
\* proof through the result of a side condition.
TypeSound == ran = NoRun \/ ran.r = NullVal \/ HasType(ran.r, ran.tp)

\* A program that check_code() accepted stays well typed: no later command
\* changes what its code calls, or the types of that.
StaysTyped ==
    status = Ok => \A n \in declared :
        LET p == progs[n]
        IN  CheckCode(p.body, Bound(Symbols, p.xs, p.tps), progs) = p.ret
=============================================================================
