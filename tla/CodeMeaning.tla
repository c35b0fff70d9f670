----------------------------- MODULE CodeMeaning -----------------------------
(***************************************************************************)
(* The meaning of code: what it evaluates to in an environment, and the    *)
(* marks it leaves.  A call has an environment of its own.  ps holds the   *)
(* bodies and the parameters of the programs, and which are functions.     *)
(***************************************************************************)
EXTENDS Code

\* quotients and fractions by what characterises them
Quotient(a, b) ==
    CHOOSE q \in -20..20 : \/ b > 0 /\ q * b <= a /\ a < (q + 1) * b
                           \/ b < 0 /\ q * b >= a /\ a > (q + 1) * b

Fraction(n, d) ==
    LET f == CHOOSE c \in (-20..20) \X (1..20) :
               /\ c[1] * d = n * c[2]
               /\ \A k \in 2..c[2] : c[1] % k # 0 \/ c[2] % k # 0
    IN  [t |-> "rat", n |-> f[1], d |-> f[2]]

ArithMeaning(op, a, b) ==
    CASE a.t = "int" /\ b.t = "int" /\ (op = "div" => b.n # 0) ->
           [t |-> "int", n |-> CASE op = "add" -> a.n + b.n [] op = "mul" -> a.n * b.n
                                 [] op = "div" -> Quotient(a.n, b.n)]
      [] a.t = "rat" /\ b.t = "rat" /\ (op = "div" => b.n # 0) ->
           (CASE op = "add" -> Fraction(a.n * b.d + b.n * a.d, a.d * b.d)
              [] op = "mul" -> Fraction(a.n * b.n, a.d * b.d)
              [] op = "div" -> Fraction(a.n * b.d, a.d * b.n))
      [] OTHER -> NullVal

RECURSIVE Meaning(_, _, _, _, _), Kids(_, _, _, _, _, _)

Outcome(r, mk) == [r |-> r, mk |-> mk]

\* the results of the strict kids, or a failure
Kids(ps, e, rs, env, mk, fn) ==
    IF Len(rs) = Strict(e) THEN [ok |-> TRUE, rs |-> rs, mk |-> mk]
    ELSE LET o == Meaning(ps, e.kids[Len(rs) + 1], env, mk, fn)
         IN  IF o.r = NullVal \/ (e.op = "compare" /\ ~IsSym(o.r))
             THEN [ok |-> FALSE, rs |-> rs, mk |-> o.mk]
             ELSE Kids(ps, e, Append(rs, o.r), env, o.mk, fn)

Meaning(ps, e, env, mk, fn) ==
    CASE e.op = "lit" -> Outcome(ObjectOf(e).v, mk)
      [] e.op = "var" -> Outcome(IF env[e.a] = NoVal THEN SymVal(e.a) ELSE env[e.a], mk)
      [] e.op = "fail" \/ (e.op = "ifmarked" /\ fn) -> Outcome(NullVal, mk)
      [] OTHER ->
           LET o == Kids(ps, e, <<>>, env, mk, fn)
               r == o.rs[1]
           IN  CASE ~o.ok -> Outcome(NullVal, o.mk)
                 [] e.op = "do" -> Meaning(ps, e.kids[2], env, o.mk, fn)
                 [] e.op = "let" ->
                      Meaning(ps, e.kids[2], [env EXCEPT ![e.a] = r], o.mk, fn)
                 [] e.op \in {"add", "mul", "div"} ->
                      Outcome(ArithMeaning(e.op, r, o.rs[2]), o.mk)
                 [] e.op = "neg" -> Outcome(Negated(r), o.mk)
                 [] e.op = "to_q" -> Outcome(ToRational(r), o.mk)
                 [] e.op \in Conditionals ->
                      LET b == Branch(e, o.rs, o.mk)
                      IN  IF b = 0 THEN Outcome(NullVal, o.mk)
                          ELSE Meaning(ps, e.kids[b], env, o.mk, fn)
                 [] e.op = "markvar" ->
                      IF ~IsSym(r) THEN Outcome(NullVal, o.mk)
                      ELSE LET m == <<e.a, r.s>>
                           IN  Outcome(r, (o.mk \ {m}) \cup ({m} \ o.mk))
                 [] e.op = "match" ->
                      LET i == CaseOf(e, r)
                          env2 == Store(env, e.a[i].xs, IF r.t = "app" THEN r.args ELSE <<>>)
                      IN  CASE i = 0 -> Outcome(NullVal, o.mk)
                            [] i # 0 /\ e.a[i].c = "default" ->
                                 Meaning(ps, e.kids[i + 1], env, o.mk, fn)
                            [] OTHER -> Meaning(ps, e.kids[i + 1], env2, o.mk, fn)
                 [] e.op = "con" -> Outcome(AppVal(e.a, o.rs), o.mk)
                 [] e.op = "call" ->
                      IF fn /\ e.a \notin ps.functions THEN Outcome(NullVal, o.mk)
                      ELSE Meaning(ps, ps.body[e.a],
                                   Store(NoVals, ps.params[e.a], o.rs),
                                   o.mk, e.a \in ps.functions)
=============================================================================
