----------------------------- MODULE CheckScopes -----------------------------
(***************************************************************************)
(* The symbol table during type checking: check() and check_file() of      *)
(* src/check.cpp, with the bindings that read_code() and check_code() of   *)
(* src/code.cpp make while a side condition is read.                       *)
(*                                                                         *)
(* check() is a recursive, destructive parser-and-checker: every binder    *)
(* overwrites one global table and must put the old binding back, except   *)
(* where it makes a tail call (goto start_check) and leaves that to the    *)
(* command loop, and leaves the parentheses it opened to its callers.      *)
(* The C++ call stack is the variable stack, one frame per activation that *)
(* still has something to do; terms and types are abstracted away: any     *)
(* input that the grammar allows is read, and a type error is ReportError. *)
(***************************************************************************)
EXTENDS Integers, Sequences

CONSTANTS
    Id,         \* identifiers a program may bind or declare
    NoId,       \* the id of a form that binds nothing
    Sym,        \* symbol-table entries (a SymExpr and its classifier)
    NoSym,      \* the entry (NULL, NULL): the identifier is not bound
    TailCalls,  \* tail_calls, FALSE under --no-tail-calls
    Forms,      \* the term and code forms the input uses
    Commands,   \* the top-level commands the input uses
    MaxFrames,  \* bound on the C++ stack
    MaxOpen,    \* bound on open_parens
    MaxLog      \* bound on the length of an undo log

AllForms == {"leaf", "!", "#", "%", "lambda", "^", ":", "@", "~", "app", "->"}

AllCommands == {"define", "declare", "opaque", "check", "check-assuming",
                "declare-rule", "declare-type", "define-const", "run",
                "program"}

ASSUME IdAssumption == NoId \notin Id
ASSUME SymAssumption == NoSym \notin Sym
ASSUME TailCallsAssumption == TailCalls \in BOOLEAN
ASSUME InputAssumption == Forms \subseteq AllForms /\ Commands \subseteq AllCommands
ASSUME BoundAssumption == /\ MaxFrames \in Nat
                          /\ MaxOpen \in Nat
                          /\ MaxLog \in Nat

VARIABLES
    symbols,         \* the trie: identifier -> entry
    local_sym_names, \* bindings of tail-called binders, with what they hid
    stack,           \* activations that have not returned
    pc,              \* where the running activation is
    par,             \* create, expected # NULL and return_pos of check()
    open_parens,     \* parentheses opened by check() and not yet eaten
    allow_run,       \* a run form (^) may appear
    globals,         \* history: what the commands have bound
    leaked           \* history: identifiers that no restore covers any more

vars == <<symbols, local_sym_names, stack, pc, par, open_parens, allow_run,
          globals, leaked>>

-----------------------------------------------------------------------------
(* Frames, undo logs and parentheses *)

Entry == Sym \cup {NoSym}
Table == [Id -> Entry]
LogEntry == [id : Id, prev : Entry]
Par == [create : BOOLEAN, exp : BOOLEAN, ret : BOOLEAN]

TermKinds == {"pi_dom", "ann_dom", "pi_rng", "ann_rng", "big_dom", "lam",
              "run_tm", "asc_ty", "asc_tm", "let_tm", "let_body", "neg",
              "app", "arrow", "arrow_ret", "item", "anon", "param"}
CodeKinds == {"run_read", "run_chk", "code_seq", "code_let", "code_body",
              "code_case"}
CommandKinds == AllCommands \cup {"rule_ret", "const_ret", "assume_ty",
                "assume_tm", "run_check", "prog_ret", "prog_read", "prog_check"}

Frame == [k : TermKinds \cup CodeKinds \cup CommandKinds,
          id : Id \cup {NoId}, old : Seq(LogEntry), prevo : Nat, par : Par,
          entry : Table]

P(create, exp, ret) == [create |-> create, exp |-> exp, ret |-> ret]

\* the frame of an activation that starts now, called with p
NewFrame(k, id, o, p) ==
    [k |-> k, id |-> id, old |-> <<>>, prevo |-> o, par |-> p,
     entry |-> symbols]

Top == stack[Len(stack)]
Below(s) == SubSeq(s, 1, Len(s) - 1)
SetTop(s, f) == [s EXCEPT ![Len(s)] = f]

\* the frame's activation goes on to stage k
Stage(f, k) == [f EXCEPT !.k = k]

Logged(log, x) == \E i \in DOMAIN log : log[i].id = x

\* the entry that log says x had before its first binding
FirstPrev(log, x) ==
    log[CHOOSE i \in DOMAIN log :
            log[i].id = x /\ \A j \in DOMAIN log : j < i => log[j].id # x].prev

\* A faulty Restore, for the checks: the entries are re-inserted in the order
\* in which they were logged.
RestoreForwards(t, log) ==
    [x \in Id |-> IF Logged(log, x)
                  THEN log[CHOOSE i \in DOMAIN log :
                              log[i].id = x /\ \A j \in DOMAIN log : j > i => log[j].id # x].prev
                  ELSE t[x]]

\* the table after the logged entries are re-inserted, the last one first
Restore(t, log) ==
    [x \in Id |-> IF Logged(log, x) THEN FirstPrev(log, x) ELSE t[x]]

\* insert a new symbol for id, after remembering the entry it hides
Bound(t, id, s) == [t EXCEPT ![id] = s]
Remember(log, t, id) == Append(log, [id |-> id, prev |-> t[id]])

\* the frame's activation binds id, hiding the entry that t has for it
Hides(f, t, id) == [f EXCEPT !.old = Remember(@, t, id)]

\* eat_excess(prev): eat the parentheses that tail calls left open
EatExcess(prev) == IF open_parens > prev THEN prev ELSE open_parens

\* symbols that something still refers to; new SymExpr yields another one
Prevs(log) == {log[i].prev : i \in DOMAIN log}
InUse == UNION ({{symbols[x], globals[x]} : x \in Id}
                \cup {Prevs(local_sym_names)}
                \cup {Prevs(stack[i].old) : i \in DOMAIN stack})
Fresh == Sym \ InUse

\* the sub-check reads a term next
Call(sub) == par' = sub /\ pc' = "check"

CanOpen(form) ==
    /\ pc = "check"
    /\ form \in Forms
    /\ open_parens < MaxOpen
    /\ Len(stack) < MaxFrames

\* '(' and a keyword are read; the activation will outlive the sub-check
OpenForm(k, id, sub) ==
    /\ open_parens' = open_parens + 1
    /\ stack' = Append(stack, NewFrame(k, id, open_parens + 1, par))
    /\ Call(sub)

\* a binder that makes a tail call: the entry it hides goes to
\* local_sym_names.  If a frame of stk will still put back an older entry for
\* id, the command's clean-up comes after that frame's and undoes it.
TailBind(stk, id, s) ==
    /\ Len(local_sym_names) < MaxLog
    /\ symbols' = Bound(symbols, id, s)
    /\ local_sym_names' = Remember(local_sym_names, symbols, id)
    /\ leaked' = IF /\ ~Logged(local_sym_names, id)
                    /\ \E i \in DOMAIN stk : Logged(stk[i].old, id)
                 THEN leaked \cup {id} ELSE leaked

-----------------------------------------------------------------------------
(* check(): the forms of a term *)

\* identifiers, numerals and holes: nothing is bound
Leaf ==
    /\ pc = "check" /\ "leaf" \in Forms
    /\ pc' = "return"
    /\ UNCHANGED <<symbols, local_sym_names, stack, par, open_parens,
                   allow_run, globals, leaked>>

\* (! x A B) and (# x A t): the domain is checked first
Pi(form, id) ==
    /\ CanOpen(form)
    /\ OpenForm(IF form = "!" THEN "pi_dom" ELSE "ann_dom", id,
                P(TRUE, TRUE, FALSE))
    /\ allow_run' = TRUE
    /\ UNCHANGED <<symbols, local_sym_names, globals, leaked>>

\* the domain is read: bind the variable and check the range or body
PiDomain ==
    /\ pc = "return" /\ stack # <<>> /\ Top.k \in {"pi_dom", "ann_dom"}
    /\ open_parens' = EatExcess(Top.prevo)
    /\ allow_run' = FALSE
    /\ \E s \in Fresh :
         /\ symbols' = Bound(symbols, Top.id, s)
         /\ stack' = SetTop(stack, Stage(Hides(Top, symbols, Top.id),
                        IF Top.k = "pi_dom" THEN "pi_rng" ELSE "ann_rng"))
    /\ Call(Top.par)
    /\ UNCHANGED <<local_sym_names, globals, leaked>>

\* (% x A t): only in the return position of a command that computes a type
BigLambda(id) ==
    /\ CanOpen("%")
    /\ ~par.exp /\ ~par.create /\ par.ret
    /\ OpenForm("big_dom", id, P(TRUE, TRUE, FALSE))
    /\ UNCHANGED <<symbols, local_sym_names, allow_run, globals, leaked>>

BigDomain ==
    /\ pc = "return" /\ stack # <<>> /\ Top.k = "big_dom"
    /\ open_parens' = EatExcess(Top.prevo)
    /\ \E s \in Fresh : TailBind(Below(stack), Top.id, s)
    /\ stack' = Below(stack)
    /\ Call(P(FALSE, FALSE, Top.par.ret))
    /\ UNCHANGED <<allow_run, globals>>

\* (\ x t) against an expected pi type
Lambda(id) ==
    /\ CanOpen("lambda")
    /\ par.exp
    /\ IF TailCalls /\ par.ret /\ ~par.create
       THEN /\ \E s \in Fresh : TailBind(stack, id, s)
            /\ open_parens' = open_parens + 1
            /\ UNCHANGED stack
            /\ Call(P(FALSE, TRUE, par.ret))
       ELSE /\ \E s \in Fresh : symbols' = Bound(symbols, id, s)
            /\ open_parens' = open_parens + 1
            /\ stack' = Append(stack,
                    Hides(NewFrame("lam", id, open_parens + 1, par), symbols, id))
            /\ Call(P(par.create, TRUE, par.ret))
            /\ UNCHANGED <<local_sym_names, leaked>>
    /\ UNCHANGED <<allow_run, globals>>

\* A faulty Run: allow_run is not looked at.
RunAnywhere ==
    /\ CanOpen("^")
    /\ par.create /\ par.exp
    /\ open_parens' = open_parens + 1
    /\ stack' = Append(stack, NewFrame("run_read", NoId, open_parens + 1, par))
    /\ pc' = "code"
    /\ UNCHANGED <<symbols, local_sym_names, par, allow_run, globals, leaked>>

\* (^ code t), only where a pi binds its domain
Run ==
    /\ CanOpen("^")
    /\ allow_run /\ par.create /\ par.exp
    /\ open_parens' = open_parens + 1
    /\ stack' = Append(stack, NewFrame("run_read", NoId, open_parens + 1, par))
    /\ pc' = "code"
    /\ UNCHANGED <<symbols, local_sym_names, par, allow_run, globals, leaked>>

\* (: A t)
Ascribe ==
    /\ CanOpen(":")
    /\ OpenForm("asc_ty", NoId, P(TRUE, TRUE, FALSE))
    /\ UNCHANGED <<symbols, local_sym_names, allow_run, globals, leaked>>

AscribedType ==
    /\ pc = "return" /\ stack # <<>> /\ Top.k = "asc_ty"
    /\ open_parens' = EatExcess(Top.prevo)
    /\ stack' = SetTop(stack, Stage(Top, "asc_tm"))
    /\ Call(P(Top.par.create, TRUE, Top.par.ret))
    /\ UNCHANGED <<symbols, local_sym_names, allow_run, globals, leaked>>

\* (@ x t u)
LocalDef(id) ==
    /\ CanOpen("@")
    /\ OpenForm("let_tm", id, P(TRUE, FALSE, FALSE))
    /\ UNCHANGED <<symbols, local_sym_names, allow_run, globals, leaked>>

\* the body of a local definition in tail position is checked after a goto,
\* and nothing remembers the entry that the definition hides
LocalBody ==
    /\ pc = "return" /\ stack # <<>> /\ Top.k = "let_tm"
    /\ open_parens' = EatExcess(Top.prevo)
    /\ \E s \in Fresh : symbols' = Bound(symbols, Top.id, s)
    /\ IF TailCalls /\ Top.par.ret /\ ~Top.par.create
       THEN /\ stack' = Below(stack)
            /\ leaked' = IF Logged(local_sym_names, Top.id)
                         THEN leaked ELSE leaked \cup {Top.id}
       ELSE /\ stack' = SetTop(stack, Stage(Hides(Top, symbols, Top.id),
                                             "let_body"))
            /\ UNCHANGED leaked
    /\ Call(Top.par)
    /\ UNCHANGED <<local_sym_names, allow_run, globals>>

\* (~ t)
Negate ==
    /\ CanOpen("~")
    /\ OpenForm("neg", NoId, par)
    /\ UNCHANGED <<symbols, local_sym_names, allow_run, globals, leaked>>

\* the last sub-check of a form has returned: eat the parentheses it left, and
\* the form's own, and put back the entry the form's binder hid.  An annotated
\* lambda and a non-creating ascription, checked against an expected type,
\* dereference a null pointer here.
LeaveKinds == {"pi_rng", "ann_rng", "lam", "asc_tm", "let_body", "neg", "run_tm"}

Crashes(f) == \/ f.k = "ann_rng" /\ f.par.exp
              \/ f.k = "asc_tm" /\ f.par.exp /\ ~f.par.create

\* A faulty LeaveForm: it eats the parenthesis of its caller too.
LeaveFormEatsTwo ==
    /\ pc = "return" /\ stack # <<>> /\ Top.k \in LeaveKinds
    /\ open_parens' = IF open_parens > 1 THEN EatExcess(Top.prevo) - 2 ELSE 0
    /\ symbols' = Restore(symbols, Top.old)
    /\ stack' = Below(stack)
    /\ pc' = IF Crashes(Top) THEN "exit" ELSE "return"
    /\ UNCHANGED <<local_sym_names, par, allow_run, globals, leaked>>

LeaveForm ==
    /\ pc = "return" /\ stack # <<>> /\ Top.k \in LeaveKinds
    /\ open_parens' = EatExcess(Top.prevo) - 1
    /\ symbols' = Restore(symbols, Top.old)
    /\ stack' = Below(stack)
    /\ pc' = IF Crashes(Top) THEN "exit" ELSE "return"
    /\ UNCHANGED <<local_sym_names, par, allow_run, globals, leaked>>

\* (f t1 ... tn): the head, then the arguments
Apply ==
    /\ CanOpen("app")
    /\ OpenForm("app", NoId, P(par.create, FALSE, FALSE))
    /\ UNCHANGED <<symbols, local_sym_names, allow_run, globals, leaked>>

AppReturn ==
    /\ pc = "return" /\ stack # <<>> /\ Top.k = "app"
    /\ open_parens' = EatExcess(Top.prevo)
    /\ pc' = "args"
    /\ UNCHANGED <<symbols, local_sym_names, stack, par, allow_run, globals, leaked>>

\* an argument is built if the application is, or if the range depends on it
Arg(create_arg) ==
    /\ pc = "args"
    /\ Top.par.create => create_arg
    /\ Call(P(create_arg, TRUE, FALSE))
    /\ UNCHANGED <<symbols, local_sym_names, stack, open_parens, allow_run,
                   globals, leaked>>

\* A faulty TailArg: it makes the tail call although the argument is built.
TailArgCreating ==
    /\ pc = "args" /\ TailCalls
    /\ stack' = Below(stack)
    /\ Call(P(Top.par.create, TRUE, Top.par.ret))
    /\ UNCHANGED <<symbols, local_sym_names, open_parens, allow_run, globals, leaked>>

\* the last argument, when nothing is built: its parenthesis stays open
TailArg ==
    /\ pc = "args" /\ TailCalls /\ ~Top.par.create
    /\ stack' = Below(stack)
    /\ Call(P(FALSE, TRUE, Top.par.ret))
    /\ UNCHANGED <<symbols, local_sym_names, open_parens, allow_run, globals, leaked>>

CloseApp ==
    /\ pc = "args"
    /\ open_parens' = open_parens - 1
    /\ stack' = Below(stack)
    /\ pc' = "return"
    /\ UNCHANGED <<symbols, local_sym_names, par, allow_run, globals, leaked>>

-----------------------------------------------------------------------------
(* check_decl_list(): (-> (items) B) and the commands that take such a list *)

DeclKinds == {"arrow", "declare-rule", "declare-type", "define-const",
              "check-assuming"}

Arrow ==
    /\ CanOpen("->")
    /\ open_parens' = open_parens + 1
    /\ stack' = Append(stack, NewFrame("arrow", NoId, open_parens + 1, par))
    /\ pc' = "decls"
    /\ UNCHANGED <<symbols, local_sym_names, par, allow_run, globals, leaked>>

\* (: x A): its parentheses are eaten as tokens, not counted in open_parens
DeclNamed(id) ==
    /\ pc = "decls" /\ Len(stack) < MaxFrames /\ Len(Top.old) < MaxLog
    /\ stack' = Append(stack, NewFrame("item", id, open_parens,
                                       P(TRUE, TRUE, FALSE)))
    /\ Call(P(TRUE, TRUE, FALSE))
    /\ UNCHANGED <<symbols, local_sym_names, open_parens, allow_run, globals, leaked>>

\* a type alone: an expected type is passed unless it starts with '('
DeclAnon(exp) ==
    /\ pc = "decls" /\ Len(stack) < MaxFrames
    /\ stack' = Append(stack, NewFrame("anon", NoId, open_parens,
                                       P(TRUE, exp, FALSE)))
    /\ Call(P(TRUE, exp, FALSE))
    /\ UNCHANGED <<symbols, local_sym_names, open_parens, allow_run, globals, leaked>>

\* the item's type is read: bind its name, logged in the list's old_bindings
ItemDone ==
    /\ pc = "return" /\ Len(stack) > 1 /\ Top.k \in {"item", "param"}
    /\ open_parens' = IF Top.k = "param" THEN EatExcess(Top.prevo) ELSE open_parens
    /\ \E s \in Fresh : symbols' = Bound(symbols, Top.id, s)
    /\ stack' = SetTop(Below(stack),
                     Hides(stack[Len(stack) - 1], symbols, Top.id))
    /\ pc' = IF Top.k = "param" THEN "params" ELSE "decls"
    /\ UNCHANGED <<local_sym_names, par, allow_run, globals, leaked>>

AnonDone ==
    /\ pc = "return" /\ stack # <<>> /\ Top.k = "anon"
    /\ stack' = Below(stack)
    /\ pc' = "decls"
    /\ UNCHANGED <<symbols, local_sym_names, par, open_parens, allow_run,
                   globals, leaked>>

\* the list is closed: check what the bindings scope over
EndDecls ==
    /\ pc = "decls"
    /\ \/ /\ Top.k = "declare-type"
          /\ pc' = "return"
          /\ UNCHANGED <<stack, par>>
       \/ /\ Top.k = "arrow"
          /\ stack' = SetTop(stack, Stage(Top, "arrow_ret"))
          /\ Call(P(Top.par.create, FALSE, FALSE))
       \/ /\ Top.k \in {"declare-rule", "define-const"}
          /\ stack' = SetTop(stack, Stage(Top, IF Top.k = "declare-rule"
                                          THEN "rule_ret" ELSE "const_ret"))
          /\ Call(P(TRUE, FALSE, FALSE))
       \/ /\ Top.k = "check-assuming"
          /\ stack' = SetTop(stack, Stage(Top, "assume_ty"))
          /\ Call(P(TRUE, TRUE, FALSE))
    /\ UNCHANGED <<symbols, local_sym_names, open_parens, allow_run, globals, leaked>>

\* A faulty LeaveArrow: the items stay bound.
LeaveArrowBound ==
    /\ pc = "return" /\ stack # <<>> /\ Top.k = "arrow_ret"
    /\ UNCHANGED symbols
    /\ open_parens' = open_parens - 1
    /\ stack' = Below(stack)
    /\ UNCHANGED <<local_sym_names, pc, par, allow_run, globals, leaked>>

\* put the old bindings back and eat one parenthesis
LeaveArrow ==
    /\ pc = "return" /\ stack # <<>> /\ Top.k = "arrow_ret"
    /\ symbols' = Restore(symbols, Top.old)
    /\ open_parens' = open_parens - 1
    /\ stack' = Below(stack)
    /\ UNCHANGED <<local_sym_names, pc, par, allow_run, globals, leaked>>

-----------------------------------------------------------------------------
(* read_code() and then check_code(): the same bindings, made twice *)

CodeFrame(k, id) ==
    NewFrame(k, id, open_parens, P(TRUE, TRUE, FALSE))

\* a numeral, an identifier
CodeLeaf ==
    /\ pc = "code"
    /\ pc' = "coderet"
    /\ UNCHANGED <<symbols, local_sym_names, stack, par, open_parens,
                   allow_run, globals, leaked>>

\* a form with sub-expressions and no binder: do, match, if..., applications
CodeSeq ==
    /\ pc = "code" /\ "app" \in Forms /\ Len(stack) < MaxFrames
    /\ stack' = Append(stack, CodeFrame("code_seq", NoId))
    /\ UNCHANGED <<symbols, local_sym_names, pc, par, open_parens, allow_run,
                   globals, leaked>>

CodeNext ==
    /\ pc = "coderet" /\ stack # <<>> /\ Top.k = "code_seq"
    /\ pc' = "code"
    /\ UNCHANGED <<symbols, local_sym_names, stack, par, open_parens,
                   allow_run, globals, leaked>>

\* (@ x t u) in code
CodeLet(id) ==
    /\ pc = "code" /\ "@" \in Forms /\ Len(stack) < MaxFrames
    /\ stack' = Append(stack, CodeFrame("code_let", id))
    /\ UNCHANGED <<symbols, local_sym_names, pc, par, open_parens, allow_run,
                   globals, leaked>>

CodeLetBody ==
    /\ pc = "coderet" /\ stack # <<>> /\ Top.k = "code_let"
    /\ \E s \in Fresh :
         /\ symbols' = Bound(symbols, Top.id, s)
         /\ stack' = SetTop(stack, Stage(Hides(Top, symbols, Top.id), "code_body"))
    /\ pc' = "code"
    /\ UNCHANGED <<local_sym_names, par, open_parens, allow_run, globals, leaked>>

\* ((c x y ...) t): a case of a match
CodeCase ==
    /\ pc = "coderet" /\ stack # <<>> /\ Top.k = "code_seq"
    /\ Len(stack) < MaxFrames
    /\ stack' = Append(stack, CodeFrame("code_case", NoId))
    /\ pc' = "casevars"
    /\ UNCHANGED <<symbols, local_sym_names, par, open_parens, allow_run,
                   globals, leaked>>

CaseVar(id) ==
    /\ pc = "casevars" /\ Len(Top.old) < MaxLog
    /\ \E s \in Fresh :
         /\ symbols' = Bound(symbols, id, s)
         /\ stack' = SetTop(stack, Hides(Top, symbols, id))
    /\ UNCHANGED <<local_sym_names, pc, par, open_parens, allow_run, globals, leaked>>

CaseBody ==
    /\ pc = "casevars"
    /\ pc' = "code"
    /\ UNCHANGED <<symbols, local_sym_names, stack, par, open_parens,
                   allow_run, globals, leaked>>

\* A faulty LeaveCode: the variables of a case stay bound.
LeaveCodeBound ==
    /\ pc = "coderet" /\ stack # <<>>
    /\ Top.k \in {"code_seq", "code_body", "code_case"}
    /\ symbols' = IF Top.k = "code_case" THEN symbols ELSE Restore(symbols, Top.old)
    /\ stack' = Below(stack)
    /\ UNCHANGED <<local_sym_names, pc, par, open_parens, allow_run, globals, leaked>>

LeaveCode ==
    /\ pc = "coderet" /\ stack # <<>>
    /\ Top.k \in {"code_seq", "code_body", "code_case"}
    /\ symbols' = Restore(symbols, Top.old)
    /\ stack' = Below(stack)
    /\ UNCHANGED <<local_sym_names, pc, par, open_parens, allow_run, globals, leaked>>

\* the code has been read: check it
CheckCode ==
    /\ pc = "coderet" /\ stack # <<>>
    /\ Top.k \in {"run_read", "run", "prog_read"}
    /\ stack' = SetTop(stack, Stage(Top, CASE Top.k = "run_read" -> "run_chk"
                                         [] Top.k = "run" -> "run_check"
                                         [] Top.k = "prog_read" -> "prog_check"))
    /\ pc' = "code"
    /\ UNCHANGED <<symbols, local_sym_names, par, open_parens, allow_run,
                   globals, leaked>>

\* the code of (^ code t) is checked: t must have its type
RunTerm ==
    /\ pc = "coderet" /\ stack # <<>> /\ Top.k = "run_chk"
    /\ stack' = SetTop(stack, Stage(Top, "run_tm"))
    /\ Call(P(TRUE, TRUE, FALSE))
    /\ UNCHANGED <<symbols, local_sym_names, open_parens, allow_run, globals, leaked>>

-----------------------------------------------------------------------------
(* check_file(): the command loop *)

\* the command keyword and its name are read.  par is not used between commands
Command(cmd, id, sub, next) ==
    /\ pc = "toplevel" /\ cmd \in Commands
    /\ stack' = <<NewFrame(cmd, id, open_parens, sub)>>
    /\ par' = sub
    /\ pc' = next
    /\ UNCHANGED <<symbols, local_sym_names, open_parens, allow_run, globals, leaked>>

Define(id) == Command("define", id, P(TRUE, FALSE, TRUE), "check")
Declare(id) == Command("declare", id, P(TRUE, FALSE, TRUE), "check")
Opaque(id) == Command("opaque", id, P(FALSE, FALSE, TRUE), "check")
Check == Command("check", NoId, P(FALSE, FALSE, TRUE), "check")
CheckAssuming == Command("check-assuming", NoId, P(FALSE, TRUE, FALSE), "decls")
DeclareRule(id) == Command("declare-rule", id, P(TRUE, FALSE, FALSE), "decls")
DeclareType(id) == Command("declare-type", id, P(TRUE, FALSE, FALSE), "decls")
DefineConst(id) == Command("define-const", id, P(TRUE, FALSE, FALSE), "decls")
RunCommand == Command("run", NoId, P(TRUE, FALSE, FALSE), "code")
Program == Command("program", NoId, P(TRUE, FALSE, TRUE), "params")

\* the type the assumptions are used for is read: check the term against it
AssumedTerm ==
    /\ pc = "return" /\ stack # <<>> /\ Top.k = "assume_ty"
    /\ stack' = SetTop(stack, Stage(Top, "assume_tm"))
    /\ Call(P(FALSE, TRUE, FALSE))
    /\ UNCHANGED <<symbols, local_sym_names, open_parens, allow_run, globals, leaked>>

\* (x A): a program's parameter must not be bound
Param(id) ==
    /\ pc = "params" /\ Len(stack) < MaxFrames /\ Len(Top.old) < MaxLog
    /\ symbols[id] = NoSym
    /\ stack' = Append(stack, NewFrame("param", id, open_parens,
                                       P(TRUE, FALSE, TRUE)))
    /\ Call(P(TRUE, FALSE, TRUE))
    /\ UNCHANGED <<symbols, local_sym_names, open_parens, allow_run, globals, leaked>>

\* a program needs a parameter; its return type is next
EndParams ==
    /\ pc = "params" /\ Top.old # <<>>
    /\ stack' = SetTop(stack, Stage(Top, "prog_ret"))
    /\ Call(P(TRUE, TRUE, TRUE))
    /\ UNCHANGED <<symbols, local_sym_names, open_parens, allow_run, globals, leaked>>

ProgramBody ==
    /\ pc = "return" /\ stack # <<>> /\ Top.k = "prog_ret"
    /\ open_parens' = EatExcess(Top.prevo)
    /\ stack' = SetTop(stack, Stage(Top, "prog_read"))
    /\ pc' = "code"
    /\ UNCHANGED <<symbols, local_sym_names, par, allow_run, globals, leaked>>

\* a command that binds its name: the list's bindings are undone first, and
\* a name that is then still bound is an error
BindKinds == {"define", "declare", "opaque", "rule_ret", "const_ret",
              "declare-type"}

Rebinds == Restore(symbols, Top.old)[Top.id] # NoSym

EndBinding ==
    /\ pc = "return" /\ stack # <<>> /\ Top.k \in BindKinds
    /\ ~Rebinds
    /\ open_parens' = IF Top.k \in {"define", "declare", "opaque"}
                      THEN EatExcess(Top.prevo) ELSE open_parens
    /\ \E s \in Fresh :
         /\ symbols' = Bound(Restore(symbols, Top.old), Top.id, s)
         /\ globals' = Bound(globals, Top.id, s)
    /\ stack' = <<>>
    /\ pc' = "toplevel"
    /\ UNCHANGED <<local_sym_names, par, allow_run, leaked>>

\* A faulty EndCheck: it eats a parenthesis that check() did not open.
EndCheckEatsOne ==
    /\ pc = "return" /\ stack # <<>> /\ Top.k \in {"check", "assume_tm"}
    /\ symbols' = Restore(Restore(symbols, Top.old), local_sym_names)
    /\ local_sym_names' = <<>>
    /\ open_parens' = EatExcess(Top.prevo) - 1
    /\ stack' = <<>>
    /\ pc' = "toplevel"
    /\ UNCHANGED <<par, allow_run, globals, leaked>>

\* check and check-assuming: undo the list's bindings, then clean up the local
\* symbols that tail calls left behind
EndCheck ==
    /\ pc = "return" /\ stack # <<>> /\ Top.k \in {"check", "assume_tm"}
    /\ symbols' = Restore(Restore(symbols, Top.old), local_sym_names)
    /\ local_sym_names' = <<>>
    /\ open_parens' = EatExcess(Top.prevo)
    /\ stack' = <<>>
    /\ pc' = "toplevel"
    /\ UNCHANGED <<par, allow_run, globals, leaked>>

EndRun ==
    /\ pc = "coderet" /\ stack # <<>> /\ Top.k = "run_check"
    /\ stack' = <<>>
    /\ pc' = "toplevel"
    /\ UNCHANGED <<symbols, local_sym_names, par, open_parens, allow_run,
                   globals, leaked>>

\* A faulty EndProgram: it puts only the last parameter's entry back.
EndProgramBound ==
    /\ pc = "coderet" /\ stack # <<>> /\ Top.k = "prog_check"
    /\ symbols' = [symbols EXCEPT ![Top.old[Len(Top.old)].id] = NoSym]
    /\ stack' = <<>>
    /\ pc' = "toplevel"
    /\ UNCHANGED <<local_sym_names, par, open_parens, allow_run, globals, leaked>>

\* the parameters' entries become (NULL, NULL), whatever they were before
EndProgram ==
    /\ pc = "coderet" /\ stack # <<>> /\ Top.k = "prog_check"
    /\ symbols' = [x \in Id |-> IF Logged(Top.old, x) THEN NoSym ELSE symbols[x]]
    /\ stack' = <<>>
    /\ pc' = "toplevel"
    /\ UNCHANGED <<local_sym_names, par, open_parens, allow_run, globals, leaked>>

\* report_error(): a type error, an unexpected token, the end of the file
ReportError ==
    /\ pc # "exit"
    /\ pc' = "exit"
    /\ UNCHANGED <<symbols, local_sym_names, stack, par, open_parens,
                   allow_run, globals, leaked>>

-----------------------------------------------------------------------------
Init ==
    /\ symbols = [x \in Id |-> NoSym]
    /\ local_sym_names = <<>>
    /\ stack = <<>>
    /\ pc = "toplevel"
    /\ par = P(FALSE, FALSE, FALSE)
    /\ open_parens = 0
    /\ allow_run = FALSE
    /\ globals = [x \in Id |-> NoSym]
    /\ leaked = {}

Terms ==
    \/ Leaf \/ Run \/ Ascribe \/ Negate \/ Apply \/ Arrow
    \/ \E id \in Id : \/ Pi("!", id) \/ Pi("#", id) \/ BigLambda(id)
                      \/ Lambda(id) \/ LocalDef(id)

Returns ==
    \/ PiDomain \/ BigDomain \/ AscribedType \/ LocalBody \/ LeaveForm
    \/ AppReturn \/ (\E c \in BOOLEAN : Arg(c)) \/ TailArg \/ CloseApp

DeclLists ==
    \/ (\E id \in Id : DeclNamed(id)) \/ (\E exp \in BOOLEAN : DeclAnon(exp))
    \/ ItemDone \/ AnonDone \/ EndDecls \/ LeaveArrow

Code ==
    \/ CodeLeaf \/ CodeSeq \/ CodeNext \/ (\E id \in Id : CodeLet(id))
    \/ CodeLetBody \/ CodeCase \/ (\E id \in Id : CaseVar(id)) \/ CaseBody
    \/ LeaveCode \/ CheckCode \/ RunTerm

CommandLoop ==
    \/ \E id \in Id : \/ Define(id) \/ Declare(id) \/ Opaque(id)
                      \/ DeclareRule(id) \/ DeclareType(id) \/ DefineConst(id)
                      \/ Param(id)
    \/ Check \/ CheckAssuming \/ RunCommand \/ Program
    \/ AssumedTerm \/ EndParams \/ ProgramBody
    \/ EndBinding \/ EndCheck \/ EndRun \/ EndProgram

Next == Terms \/ Returns \/ DeclLists \/ Code \/ CommandLoop \/ ReportError

Spec == Init /\ [][Next]_vars

-----------------------------------------------------------------------------
(* Correctness *)

PCs == {"toplevel", "check", "return", "args", "decls", "params", "code",
        "coderet", "casevars", "exit"}

\* Every variable has its type; in particular eat_rparen never takes
\* open_parens below zero.
TypeOK ==
    /\ symbols \in Table
    /\ local_sym_names \in Seq(LogEntry)
    /\ stack \in Seq(Frame)
    /\ pc \in PCs
    /\ par \in Par
    /\ open_parens \in Nat
    /\ allow_run \in BOOLEAN
    /\ globals \in Table
    /\ leaked \subseteq Id

\* Between two commands, cleaning up local_sym_names brings back exactly the
\* bindings that the commands made, for every identifier that no tail-called
\* local definition and no binder inside another binder of the same name has
\* leaked (the loops at the end of check, check-assuming and the declaration
\* lists of check_file).
ScopesRestored ==
    pc = "toplevel" =>
        \A x \in Id \ leaked : Restore(symbols, local_sym_names)[x] = globals[x]

\* Whenever an activation of check(), read_code(), check_code() or a command
\* ends, the table has the entry for x that it had when the activation began,
\* however its sub-checks nested, shadowed or tail-called, unless x is in
\* local_sym_names or is the name that the activation is there to bind.
BindsItsName(f) == f.k \in {"item", "param"} \cup BindKinds

Ended(f) ==
    \A x \in Id \ leaked' :
        ( /\ ~(BindsItsName(f) /\ x = f.id)
          /\ ~Logged(local_sym_names, x) /\ ~Logged(local_sym_names', x) )
        => symbols'[x] = f.entry[x]

ActivationRestores ==
    [][Len(stack') < Len(stack) => Ended(Top)]_vars

\* The parentheses that an activation eats are its own or were left open by
\* its tail calls, never its caller's; between two commands none is left.
ParensNested ==
    /\ \A i \in DOMAIN stack : stack[i].prevo <= open_parens
    /\ \A i, j \in DOMAIN stack : i < j => stack[i].prevo <= stack[j].prevo
    /\ pc = "toplevel" => open_parens = 0

\* A sub-check that builds its term makes no tail call, so it returns with its
\* own parentheses eaten; check_decl_list_item() and the parameter loop of
\* check_file eat one token with eat_token(Close) and rely on it.
PassOnCreate == {"pi_rng", "ann_rng", "lam", "asc_tm", "let_body", "neg", "app",
                 "arrow_ret", "opaque", "check", "assume_tm"}

Builds(f) == f.k \in PassOnCreate => f.par.create

CreateEatsItsParens ==
    stack # <<>> /\ Builds(Top) => open_parens = Top.prevo

\* A side condition is only ever read while some pi or annotated lambda is
\* reading its domain, although allow_run is one global flag that inner pis
\* switch off.
RunOnlyInDomain ==
    \A i \in DOMAIN stack : stack[i].k \in {"run_read", "run_chk"} =>
        \E j \in 1..(i - 1) : stack[j].k \in {"pi_dom", "ann_dom"}
=============================================================================
