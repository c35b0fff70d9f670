-------------------------------- MODULE Code --------------------------------
(***************************************************************************)
(* The code of side conditions, as read_code() builds it, the values it    *)
(* computes with, and what run_code_internal() does with values.           *)
(***************************************************************************)
EXTENDS Integers, Sequences

CONSTANTS
    Var,   \* variables of code: parameters, let and pattern variables
    Addr   \* the address of each symbol, what COMPARE looks at

\* a piece of code: its op, what the op is about, and its kids
Node(op, a, kids) == [op |-> op, a |-> a, kids |-> kids]

\* what an object denotes
SymVal(s) == [t |-> "sym", s |-> s]             \* SYM_EXPR, SYMS_EXPR
AppVal(c, args) == [t |-> "app", s |-> c, args |-> args]
IntVal(n) == [t |-> "int", n |-> n]             \* INT_EXPR
NullVal == [t |-> "null"]                       \* the NULL pointer: failure

\* an object of class Expr: what it denotes, its address, its arguments
Obj(v, o, args) == [v |-> v, o |-> o, args |-> args]
Null == Obj(NullVal, 0, <<>>)
None == Obj([t |-> "none"], 0, <<>>)            \* no value
SymObj(s) == Obj(SymVal(s), 0, <<>>)            \* a symbol is one object

\* code that is an object: a numeral or a symbol that no code binds
Literal(o) == Node("lit", <<o>>, <<>>)
ObjectOf(e) == e.a[1]

\* RAT_EXPR, in lowest terms with a positive denominator
RatVal(n, d) ==
    LET Divides(k, m) == \E q \in -m..m : k * q = m
        Abs(m) == IF m < 0 THEN -m ELSE m
        g == IF n = 0 THEN Abs(d)
             ELSE CHOOSE k \in 1..Abs(d) :
                    /\ Divides(k, Abs(n)) /\ Divides(k, Abs(d))
                    /\ \A j \in (k + 1)..Abs(d) :
                          ~(Divides(j, Abs(n)) /\ Divides(j, Abs(d)))
        sign == IF d < 0 THEN -1 ELSE 1
    IN  [t |-> "rat", n |-> (sign * n) \div g, d |-> (sign * d) \div g]

IsSym(v) == v.t = "sym"

\* an environment, what variables denote, that binds nothing
NoVal == None.v
NoVals == [q \in Var |-> NoVal]

Denoted(bs) == [i \in DOMAIN bs |-> bs[i].v]

\* mpz_fdiv_q rounds down
FloorDiv(a, b) == IF b > 0 THEN a \div b ELSE (-a) \div (-b)

\* ADD, MUL and DIV: both operands integers or both rationals, no zero divisor
Arith(op, v, w) ==
    IF v.t # w.t \/ v.t \notin {"int", "rat"} \/ (op = "div" /\ w.n = 0) THEN NullVal
    ELSE IF v.t = "int"
         THEN IntVal(CASE op = "add" -> v.n + w.n
                       [] op = "mul" -> v.n * w.n
                       [] op = "div" -> FloorDiv(v.n, w.n))
         ELSE CASE op = "add" -> RatVal(v.n * w.d + w.n * v.d, v.d * w.d)
                [] op = "mul" -> RatVal(v.n * w.n, v.d * w.d)
                [] op = "div" -> RatVal(v.n * w.d, v.d * w.n)

Negated(v) == CASE v.t = "int" -> IntVal(-v.n)
                [] v.t = "rat" -> RatVal(-v.n, v.d)
                [] OTHER -> NullVal

ToRational(v) == RatVal(v.n, 1)

\* the branch (an index into kids) that a conditional takes for the results rs
\* of its strict kids; 0 if it fails.  compare looks at addresses
Branch(e, rs, mk) ==
    CASE e.op \in {"ifneg", "ifzero"} ->
           IF rs[1].t \notin {"int", "rat"} THEN 0
           ELSE IF (e.op = "ifneg" /\ rs[1].n < 0) \/ (e.op = "ifzero" /\ rs[1].n = 0)
                THEN 2 ELSE 3
      [] e.op = "ifmarked" ->
           IF ~IsSym(rs[1]) THEN 0 ELSE IF <<e.a, rs[1].s>> \in mk THEN 2 ELSE 3
      [] e.op = "compare" ->
           IF ~IsSym(rs[2]) THEN 0
           ELSE IF Addr[rs[1].s] < Addr[rs[2].s] THEN 3 ELSE 4
      [] e.op = "ifequal" -> IF rs[1] = rs[2] THEN 3 ELSE 4

\* the first case of a match whose pattern has the scrutinee's head, or the
\* default; 0 if there is none
CaseOf(e, v) ==
    LET fits(i) == e.a[i].c = "default" \/ (v.t \in {"sym", "app"} /\ e.a[i].c = v.s)
        hits == {i \in DOMAIN e.a : fits(i)}
    IN  IF hits = {} THEN 0 ELSE CHOOSE i \in hits : \A j \in hits : i <= j

\* kids that are run before the op does anything else
Strict(e) ==
    CASE e.op \in {"add", "mul", "div", "compare", "ifequal"} -> 2
      [] e.op \in {"con", "call"} -> Len(e.kids)
      [] OTHER -> 1

Leaves == {"lit", "var", "fail"}
Conditionals == {"ifneg", "ifzero", "ifmarked", "compare", "ifequal"}

\* where x is last in xs
LastOf(xs, x) ==
    CHOOSE i \in DOMAIN xs : xs[i] = x /\ \A j \in DOMAIN xs : xs[j] = x => j <= i

\* store vs into the variables xs, and what they held before
Store(f, xs, vs) ==
    [x \in Var |-> IF \E i \in DOMAIN xs : xs[i] = x THEN vs[LastOf(xs, x)] ELSE f[x]]
Held(f, xs) == [i \in DOMAIN xs |-> f[xs[i]]]
=============================================================================
