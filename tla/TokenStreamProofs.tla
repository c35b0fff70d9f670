-------------------------- MODULE TokenStreamProofs --------------------------
(***************************************************************************)
(* Proofs about TokenStream, for files of any length.  The places that     *)
(* tokens are pushed back for read them at once: only there may the buffer *)
(* hold a token, and it holds two only in front of a term that starts with *)
(* a parenthesis.                                                          *)
(***************************************************************************)
EXTENDS TokenStream, TLAPS, SequenceTheorems

\* the places that a token is pushed back for, and "form", which gets to see the
\* second of two
BackPlaces == {"term", "form", "item", "code", "open", "name", "patvar"}

Plain == Places \ {"item2"}

\* the loop over the commands is the outermost place; "item2" is never left waiting
StackInv(st) ==
    /\ st \in Seq(Places)
    /\ st # <<>>
    /\ st[Len(st)] = "file"
    /\ \A i \in 2..Len(st) : st[i] # "item2"

\* what the buffer may hold when the innermost place is top
BufferInv(top) ==
    /\ peeked[0] # TokenErr => top \in BackPlaces
    /\ peeked[1] # TokenErr => top = "term" /\ peeked[0].k = "Open"
    /\ top = "item2" => held \in Token /\ held.k = "Open" /\ held.n = lexed /\ lexed <= size

\* a token that is not the end of the file is not behind it
KindInv == \A i \in {0, 1} : peeked[i] # TokenErr /\ peeked[i].k # "Eof" => peeked[i].n <= size

Inv ==
    /\ TypeOK
    /\ NeverFull
    /\ InOrder
    /\ TextOfToken
    /\ KindInv
    /\ status = "reading" => StackInv(stack) /\ BufferInv(stack[1])

-----------------------------------------------------------------------------
LEMMA TokenFacts == TokenErr \notin Token
BY DEF Token, TokenErr, Kinds

\* what next_token() returns, and what it leaves in the buffer
LEMMA NextFacts ==
    ASSUME Inv, NEW t \in NextTokens, status = "reading"
    PROVE  /\ t \in Token /\ t # TokenErr
           /\ t.k # "Eof" => t.n <= size
           /\ t.n = IF peeked[1] = TokenErr THEN Lexed ELSE Lexed - 1
           /\ Lexed \in 0..(size + 1)
           /\ Popped = [i \in {0, 1} |-> IF i = 0 THEN peeked[1] ELSE TokenErr]
           /\ Popped \in [{0, 1} -> Token \cup {TokenErr}]
           /\ peeked[1] # TokenErr => Lexed = lexed /\ t = peeked[0] /\ peeked[1].n = Lexed
<1>1. /\ peeked \in [{0, 1} -> Token \cup {TokenErr}]
      /\ size \in Nat /\ lexed \in 0..(size + 1)
  BY MaxTokensAssumption DEF Inv, TypeOK
<1>2. Lexed \in 0..(size + 1)
  BY <1>1 DEF Lexed
<1>3. Popped = [i \in {0, 1} |-> IF i = 0 THEN peeked[1] ELSE TokenErr]
  <2>1. CASE peeked[0] # TokenErr
    BY <2>1 DEF Popped
  <2>2. CASE peeked[0] = TokenErr
    <3>1. peeked[1] = TokenErr
      BY <2>2 DEF Inv, InOrder
    <3>2. peeked = [i \in {0, 1} |-> IF i = 0 THEN peeked[1] ELSE TokenErr]
      BY <1>1, <2>2, <3>1
    <3> QED
      BY <2>2, <3>2 DEF Popped
  <2> QED
    BY <2>1, <2>2
<1>4. Popped \in [{0, 1} -> Token \cup {TokenErr}]
  BY <1>1, <1>3
<1>5. CASE peeked[0] = TokenErr
  <2>1. peeked[1] = TokenErr
    BY <1>5 DEF Inv, InOrder
  <2>2. t \in Lex
    BY <1>5 DEF NextTokens
  <2>3. CASE lexed < size
    <3>1. PICK k \in Kinds : t = [k |-> k, n |-> lexed + 1]
      BY <2>2, <2>3 DEF Lex
    <3>2. Lexed = lexed + 1
      BY <1>1, <1>5, <2>3 DEF Lexed
    <3>3. t \in Token /\ t.n = lexed + 1 /\ t.k = k
      BY <1>1, <3>1 DEF Token
    <3> QED
      BY <1>1, <1>2, <1>3, <1>4, <2>1, <2>3, <3>2, <3>3, TokenFacts
  <2>4. CASE ~(lexed < size)
    <3>1. t = [k |-> "Eof", n |-> size + 1]
      BY <2>2, <2>4 DEF Lex
    <3>2. Lexed = size + 1
      BY <1>1, <1>5, <2>4 DEF Lexed
    <3>3. t \in Token /\ t.n = size + 1 /\ t.k = "Eof"
      BY <1>1, <3>1 DEF Token
    <3> QED
      BY <1>1, <1>2, <1>3, <1>4, <2>1, <3>2, <3>3, TokenFacts
  <2> QED
    BY <2>3, <2>4
<1>6. CASE peeked[0] # TokenErr
  <2>1. t = peeked[0] /\ t \in Token
    BY <1>1, <1>6 DEF NextTokens
  <2>2. Lexed = lexed
    BY <1>6 DEF Lexed
  <2>3. /\ t.n = IF peeked[1] = TokenErr THEN lexed ELSE lexed - 1
        /\ peeked[1] # TokenErr => peeked[1].n = lexed
        /\ t.k # "Eof" => t.n <= size
    BY <1>6, <2>1 DEF Inv, InOrder, KindInv
  <2> QED
    BY <1>2, <1>3, <1>4, <1>6, <2>1, <2>2, <2>3, TokenFacts
<1> QED
  BY <1>5, <1>6

\* what going on to the places ps does to the stack
LEMMA GoesFacts ==
    ASSUME NEW st, StackInv(st), NEW ps \in Seq(Plain),
           st[1] # "file" \/ (ps # <<>> /\ ps[Len(ps)] = "file")
    PROVE  /\ StackInv(ps \o Tail(st))
           /\ (ps \o Tail(st))[1] # "item2"
           /\ ps # <<>> => (ps \o Tail(st))[1] = ps[1]
<1> DEFINE new == ps \o Tail(st)
<1>1. /\ Tail(st) \in Seq(Places) /\ Len(Tail(st)) = Len(st) - 1
      /\ \A i \in 1..(Len(st) - 1) : Tail(st)[i] = st[i + 1]
      /\ Len(st) \in Nat /\ Len(st) > 0
  BY DEF StackInv
<1>2. /\ ps \in Seq(Places) /\ Len(ps) \in Nat
      /\ \A i \in 1..Len(ps) : ps[i] # "item2"
  BY DEF Plain
<1>3. /\ new \in Seq(Places) /\ Len(new) = Len(ps) + Len(st) - 1
      /\ \A i \in 1..Len(new) : new[i] = IF i <= Len(ps) THEN ps[i] ELSE Tail(st)[i - Len(ps)]
  BY <1>1, <1>2
<1>4. \A i \in 1..Len(new) : new[i] # "item2"
  <2> SUFFICES ASSUME NEW i \in 1..Len(new) PROVE new[i] # "item2"
    OBVIOUS
  <2>1. CASE i <= Len(ps)
    BY <1>2, <1>3, <2>1
  <2>2. CASE ~(i <= Len(ps))
    <3>1. i - Len(ps) \in 1..(Len(st) - 1)
      BY <1>1, <1>2, <1>3, <2>2
    <3>2. new[i] = st[i - Len(ps) + 1] /\ i - Len(ps) + 1 \in 2..Len(st)
      BY <1>1, <1>2, <1>3, <2>2, <3>1
    <3> QED
      BY <3>2 DEF StackInv
  <2> QED
    BY <2>1, <2>2
<1>5. Len(new) > 0 /\ new[Len(new)] = "file"
  <2>1. CASE Len(st) > 1
    <3>1. new[Len(new)] = Tail(st)[Len(st) - 1]
      BY <1>1, <1>2, <1>3, <2>1
    <3>2. Tail(st)[Len(st) - 1] = st[Len(st)]
      BY <1>1, <2>1
    <3> QED
      BY <1>1, <1>2, <1>3, <2>1, <3>1, <3>2 DEF StackInv
  <2>2. CASE Len(st) = 1
    <3>1. ps # <<>> /\ ps[Len(ps)] = "file"
      BY <2>2 DEF StackInv
    <3>2. Len(ps) > 0
      BY <1>2, <3>1
    <3> QED
      BY <1>2, <1>3, <2>2, <3>1, <3>2
  <2> QED
    BY <1>1, <2>1, <2>2
<1>6. StackInv(new)
  BY <1>3, <1>4, <1>5 DEF StackInv
<1>7. new[1] # "item2"
  BY <1>3, <1>4, <1>5
<1>8. ps # <<>> => new[1] = ps[1]
  BY <1>1, <1>2, <1>3
<1> QED
  BY <1>6, <1>7, <1>8

-----------------------------------------------------------------------------
(* The two ways to go on, and what each needs of the places it goes to.    *)

\* what On() and OnText() have in common
Pulls(t, ps) == Pull /\ Goes(ps) /\ used' \in {used, [tok |-> t.n, text |-> Lexed]}

\* A token is pulled and used up, where the buffer holds at most this one.
LEMMA PullStep ==
    ASSUME Inv, NEW t \in NextTokens, status = "reading", peeked[1] = TokenErr,
           NEW ps \in Seq(Plain), stack[1] # "file" \/ (ps # <<>> /\ ps[Len(ps)] = "file"),
           Pulls(t, ps)
    PROVE  Inv'
<1>1. StackInv(stack') /\ stack'[1] # "item2"
  BY GoesFacts DEF Inv, Pulls, Goes
<1>2. /\ peeked' = [i \in {0, 1} |-> TokenErr]
      /\ lexed' = Lexed /\ Lexed \in 0..(size + 1)
      /\ t \in Token /\ t.n = Lexed
  BY NextFacts DEF Pulls, Pull
<1>3. peeked'[0] = TokenErr /\ peeked'[1] = TokenErr
  BY <1>2
<1>4. /\ used' \in [tok : Nat, text : Nat]
      /\ used'.tok = used'.text
  BY <1>2, MaxTokensAssumption DEF Pulls, Inv, TypeOK, TextOfToken, Token
<1>5. UNCHANGED <<file, size, held, status>>
  BY DEF Pulls, Pull
<1>6. TypeOK'
  BY <1>1, <1>2, <1>4, <1>5 DEF Inv, TypeOK, StackInv
<1>7. NeverFull' /\ InOrder' /\ TextOfToken' /\ KindInv'
  BY <1>3, <1>4, <1>5 DEF Inv, NeverFull, InOrder, TextOfToken, KindInv
<1> QED
  BY <1>1, <1>3, <1>6, <1>7 DEF Inv, BufferInv

\* A token is pushed back, where the buffer held at most this one.
LEMMA BackStep ==
    ASSUME Inv, NEW t \in NextTokens, status = "reading", peeked[1] = TokenErr,
           NEW ps \in Seq(Plain), stack[1] # "file", ps # <<>>, ps[1] \in BackPlaces,
           Back(t, ps)
    PROVE  Inv'
<1>1. StackInv(stack') /\ stack'[1] # "item2" /\ stack'[1] \in BackPlaces
  BY GoesFacts DEF Inv, Back, Goes
<1>2. /\ Popped[0] = TokenErr /\ Popped[1] = TokenErr
      /\ lexed' = Lexed /\ Lexed \in 0..(size + 1)
      /\ t \in Token /\ t # TokenErr /\ t.n = Lexed /\ (t.k # "Eof" => t.n <= size)
  BY NextFacts DEF Back
<1>3. /\ peeked' = [i \in {0, 1} |-> IF i = 0 THEN t ELSE TokenErr]
      /\ UNCHANGED <<file, size, held, used, status>>
  BY <1>2 DEF Back, Reinserted, Full
<1>4. peeked'[0] = t /\ peeked'[1] = TokenErr
  BY <1>3
<1>5. TypeOK'
  BY <1>1, <1>2, <1>3 DEF Inv, TypeOK, StackInv
<1>6. NeverFull' /\ InOrder' /\ TextOfToken' /\ KindInv'
  BY <1>2, <1>3, <1>4 DEF Inv, NeverFull, InOrder, TextOfToken, KindInv
<1> QED
  BY <1>1, <1>4, <1>5, <1>6 DEF Inv, BufferInv

\* The same at a place, which decides whether the buffer may hold two tokens.
LEMMA PullAt ==
    ASSUME Inv, NEW t \in NextTokens, NEW place, At(place), place \notin {"term", "file"},
           NEW ps \in Seq(Plain), On(t, ps) \/ OnText(t, ps)
    PROVE  Inv'
<1>1. status = "reading" /\ stack[1] = place /\ peeked[1] = TokenErr
  BY DEF Inv, At, BufferInv, StackInv
<1>2. Pulls(t, ps)
  BY DEF On, OnText, Pulls
<1> QED
  BY <1>1, <1>2, PullStep

LEMMA BackAt ==
    ASSUME Inv, NEW t \in NextTokens, NEW place, At(place), place \notin {"term", "file"},
           NEW ps \in Seq(Plain), ps # <<>>, ps[1] \in BackPlaces, Back(t, ps)
    PROVE  Inv'
<1>1. status = "reading" /\ stack[1] = place /\ peeked[1] = TokenErr
  BY DEF Inv, At, BufferInv, StackInv
<1> QED
  BY <1>1, BackStep

-----------------------------------------------------------------------------
(* The places of the code, one lemma for each part of it.                  *)

LEMMA NoPlaces == <<>> \in Seq(Plain)
OBVIOUS

LEMMA CommandStep ==
    ASSUME Inv, NEW t \in NextTokens, Command(t) \/ Params(t) \/ Name(t) \/ Eat(t)
    PROVE  Inv'
<1>1. CASE Command(t)
  <2>1. /\ <<"name", "term">> \in Seq(Plain) /\ <<"name", "list", "term">> \in Seq(Plain)
        /\ <<"name", "list">> \in Seq(Plain) /\ <<"list", "term", "term">> \in Seq(Plain)
        /\ <<"term">> \in Seq(Plain) /\ <<"code">> \in Seq(Plain)
        /\ <<"name", "open", "params", "term", "code">> \in Seq(Plain)
    BY DEF Plain, Places
  <2>2. At("command") /\ \E ps \in Seq(Plain) : On(t, ps)
    BY <1>1, <2>1, Zenon DEF Command
  <2> QED
    BY <2>2, PullAt
<1>2. CASE Params(t)
  <2> DEFINE ps == <<"open", "name", "term", "close", "params">>
  <2>1. At("params") /\ (On(t, <<>>) \/ Back(t, ps))
    BY <1>2 DEF Params
  <2>2. ps \in Seq(Plain) /\ ps # <<>> /\ ps[1] \in BackPlaces
    BY DEF Plain, Places, BackPlaces
  <2> HIDE DEF ps
  <2> QED
    BY <2>1, <2>2, NoPlaces, PullAt, BackAt
<1>3. CASE Name(t)
  BY <1>3, NoPlaces, PullAt DEF Name
<1>4. CASE Eat(t)
  <2>1. PICK place \in {"open", "close"} : At(place) /\ On(t, <<>>)
    BY <1>4 DEF Eat
  <2> QED
    BY <2>1, NoPlaces, PullAt
<1> QED
  BY <1>1, <1>2, <1>3, <1>4

\* Only in front of a term may there be two tokens, and the first is "(".
LEMMA TermStep ==
    ASSUME Inv, NEW t \in NextTokens, Term(t)
    PROVE  Inv'
<1>1. status = "reading" /\ stack[1] = "term" /\ StackInv(stack)
  BY DEF Term, At, Inv, StackInv
<1>2. <<"form">> \in Seq(Plain) /\ <<"form">> # <<>> /\ <<"form">>[1] = "form"
  BY DEF Plain, Places
<1>3. CASE peeked[1] = TokenErr
  <2>1. \E ps \in Seq(Plain) : Pulls(t, ps)
    BY <1>2, NoPlaces DEF Term, On, OnText, Pulls
  <2> QED
    BY <1>1, <1>3, <2>1, PullStep
<1>4. CASE peeked[1] # TokenErr
  <2>1. /\ t = peeked[0] /\ t.k = "Open" /\ Lexed = lexed
        /\ peeked[1].n = Lexed
        /\ Lexed \in 0..(size + 1)
        /\ Popped = [i \in {0, 1} |-> IF i = 0 THEN peeked[1] ELSE TokenErr]
        /\ Popped \in [{0, 1} -> Token \cup {TokenErr}]
    BY <1>1, <1>4, NextFacts DEF Inv, BufferInv
  <2>2. On(t, <<"form">>)
    BY <2>1 DEF Term
  <2>3. /\ lexed' = lexed /\ peeked' = Popped /\ stack' = <<"form">> \o Tail(stack)
        /\ UNCHANGED <<file, size, held, used, status>>
    BY <2>1, <2>2 DEF On, Pull, Goes
  <2>4. StackInv(stack') /\ stack'[1] = "form"
    BY <1>1, <1>2, <2>3, GoesFacts
  <2>5. peeked'[0] = peeked[1] /\ peeked'[1] = TokenErr
    BY <2>1, <2>3
  <2>6. TypeOK'
    BY <2>1, <2>3, <2>4 DEF Inv, TypeOK, StackInv
  <2>7. NeverFull' /\ InOrder' /\ TextOfToken' /\ KindInv'
    BY <1>4, <2>1, <2>3, <2>5 DEF Inv, NeverFull, InOrder, TextOfToken, KindInv
  <2>8. BufferInv(stack[1])'
    BY <2>4, <2>5 DEF BufferInv, BackPlaces
  <2> QED
    BY <2>4, <2>6, <2>7, <2>8 DEF Inv
<1> QED
  BY <1>3, <1>4

LEMMA FormStep ==
    ASSUME Inv, NEW t \in NextTokens, Form(t) \/ Args(t) \/ List(t) \/ Items(t)
    PROVE  Inv'
<1>1. /\ <<"name", "term", "term", "close">> \in Seq(Plain)
      /\ <<"name", "term", "close">> \in Seq(Plain)
      /\ <<"list", "term", "close">> \in Seq(Plain)
      /\ <<"code", "term", "close">> \in Seq(Plain)
      /\ <<"term", "term", "close">> \in Seq(Plain)
      /\ <<"term", "close">> \in Seq(Plain) /\ <<"items">> \in Seq(Plain)
      /\ <<"term", "args">> \in Seq(Plain) /\ <<"item", "items">> \in Seq(Plain)
  BY DEF Plain, Places
<1> DEFINE Pushed(ps) == ps \in Seq(Plain) /\ ps # <<>> /\ ps[1] \in BackPlaces
<1>2. Pushed(<<"term", "args">>) /\ Pushed(<<"term", "close">>) /\ Pushed(<<"item", "items">>)
  BY <1>1 DEF BackPlaces
<1> HIDE DEF Pushed
<1>3. \E place \in {"form", "args", "list", "items"} :
        At(place) /\ \/ \E ps \in Seq(Plain) : On(t, ps)
                     \/ \E ps : Pushed(ps) /\ Back(t, ps)
  <2>1. CASE Form(t)
    BY <2>1, <1>1, <1>2, Zenon DEF Form
  <2>2. CASE Args(t)
    BY <2>2, <1>2, NoPlaces, Zenon DEF Args
  <2>3. CASE List(t)
    BY <2>3, <1>1, Zenon DEF List
  <2>4. CASE Items(t)
    BY <2>4, <1>2, NoPlaces, Zenon DEF Items
  <2> QED
    BY <2>1, <2>2, <2>3, <2>4
<1> QED
  BY <1>3, PullAt, BackAt DEF Pushed

LEMMA CodeStep ==
    ASSUME Inv, NEW t \in NextTokens,
           Code(t) \/ CodeForm(t) \/ CodeArgs(t) \/ Cases(t) \/ Pattern(t) \/ PatVars(t) \/ PatVar(t)
    PROVE  Inv'
<1>1. /\ <<"codeform">> \in Seq(Plain) /\ <<"code", "codeargs">> \in Seq(Plain)
      /\ <<"name", "code", "code", "close">> \in Seq(Plain)
      /\ <<"code", "close">> \in Seq(Plain) /\ <<"code", "cases">> \in Seq(Plain)
      /\ <<"codeargs">> \in Seq(Plain) /\ <<"name", "patvars">> \in Seq(Plain)
      /\ <<"name">> \in Seq(Plain) /\ <<"patvar", "patvars">> \in Seq(Plain)
      /\ <<"open", "pattern", "code", "close", "cases">> \in Seq(Plain)
  BY DEF Plain, Places
<1>2. \A n \in 0..4 : Append([i \in 1..n |-> "code"], "close") \in Seq(Plain)
  <2> SUFFICES ASSUME NEW n \in 0..4
               PROVE  Append([i \in 1..n |-> "code"], "close") \in Seq(Plain)
    OBVIOUS
  <2>1. "code" \in Plain /\ "close" \in Plain
    BY DEF Plain, Places
  <2>2. [i \in 1..n |-> "code"] \in Seq(Plain)
    BY <2>1, IsASeq
  <2> QED
    BY <2>1, <2>2
<1> DEFINE Pushed(ps) == ps \in Seq(Plain) /\ ps # <<>> /\ ps[1] \in BackPlaces
<1>3. /\ Pushed(<<"code", "codeargs">>) /\ Pushed(<<"name">>) /\ Pushed(<<"patvar", "patvars">>)
      /\ Pushed(<<"open", "pattern", "code", "close", "cases">>)
  BY <1>1 DEF BackPlaces
<1> HIDE DEF Pushed
<1>4. \E place \in {"code", "codeform", "codeargs", "cases", "pattern", "patvars", "patvar"} :
        At(place) /\ \/ \E ps \in Seq(Plain) : On(t, ps) \/ OnText(t, ps)
                     \/ \E ps : Pushed(ps) /\ Back(t, ps)
  <2>1. CASE Code(t)
    BY <2>1, <1>1, NoPlaces, Zenon DEF Code
  <2>2. CASE CodeForm(t)
    BY <2>2, <1>1, <1>2, Zenon DEF CodeForm
  <2>3. CASE CodeArgs(t)
    BY <2>3, <1>3, NoPlaces, Zenon DEF CodeArgs
  <2>4. CASE Cases(t)
    BY <2>4, <1>3, NoPlaces, Zenon DEF Cases
  <2>5. CASE Pattern(t)
    BY <2>5, <1>1, <1>3, Zenon DEF Pattern
  <2>6. CASE PatVars(t)
    BY <2>6, <1>3, NoPlaces, Zenon DEF PatVars
  <2>7. CASE PatVar(t)
    BY <2>7, NoPlaces, Zenon DEF PatVar
  <2> QED
    BY <2>1, <2>2, <2>3, <2>4, <2>5, <2>6, <2>7
<1> QED
  BY <1>4, PullAt, BackAt DEF Pushed

\* The token held at "item2" is the one before the token that is read there.
LEMMA ItemStep ==
    ASSUME Inv, NEW t \in NextTokens, Item(t)
    PROVE  Inv'
<1>1. status = "reading" /\ stack[1] = "item" /\ StackInv(stack) /\ peeked[1] = TokenErr
  BY DEF Item, At, Inv, StackInv, BufferInv
<1>2. CASE Back(t, <<"term">>)
  <2>1. /\ <<"term">> \in Seq(Plain) /\ <<"term">> # <<>> /\ <<"term">>[1] \in BackPlaces
        /\ At("item")
    BY DEF Plain, Places, BackPlaces, Item
  <2> QED
    BY <1>2, <2>1, BackAt
<1>3. CASE t.k = "Open" /\ held' = t
  <2>1. /\ lexed' = Lexed /\ peeked' = Popped /\ stack' = <<"item2">> \o Tail(stack)
        /\ UNCHANGED <<file, size, used, status>>
    BY <1>3 DEF Item, Goes
  <2>2. /\ peeked' = [i \in {0, 1} |-> TokenErr]
        /\ Lexed \in 0..(size + 1)
        /\ t \in Token /\ t.n = Lexed /\ t.n <= size
    BY <1>1, <1>3, <2>1, NextFacts
  <2>3. peeked'[0] = TokenErr /\ peeked'[1] = TokenErr
    BY <2>2
  <2>4. StackInv(stack') /\ stack'[1] = "item2"
    BY <1>1, <2>1 DEF StackInv, Places
  <2>5. TypeOK'
    BY <1>3, <2>1, <2>2, <2>4 DEF Inv, TypeOK, StackInv
  <2>6. NeverFull' /\ InOrder' /\ TextOfToken' /\ KindInv'
    BY <2>1, <2>3 DEF Inv, NeverFull, InOrder, TextOfToken, KindInv
  <2>7. BufferInv(stack[1])'
    BY <1>3, <2>1, <2>2, <2>3, <2>4 DEF BufferInv
  <2> QED
    BY <2>4, <2>5, <2>6, <2>7 DEF Inv
<1> QED
  BY <1>2, <1>3 DEF Item

\* Two tokens are pushed back into an empty buffer.
LEMMA Item2Step ==
    ASSUME Inv, NEW t \in NextTokens, Item2(t)
    PROVE  Inv'
<1>1. status = "reading" /\ stack[1] = "item2" /\ StackInv(stack) /\ At("item2")
  BY DEF Item2, At, Inv, StackInv
<1>2. CASE On(t, <<"name", "term", "close">>)
  <2>1. <<"name", "term", "close">> \in Seq(Plain)
    BY DEF Plain, Places
  <2> QED
    BY <1>1, <1>2, <2>1, PullAt
<1>3. CASE t.k # "Colon"
  <2>1. /\ held \in Token /\ held.k = "Open" /\ held.n = lexed /\ lexed <= size
        /\ peeked[0] = TokenErr /\ peeked[1] = TokenErr
    BY <1>1 DEF Inv, BufferInv, BackPlaces
  <2>2. lexed \in Nat /\ Lexed = lexed + 1
    BY <2>1, MaxTokensAssumption DEF Inv, TypeOK, Lexed
  <2>3. /\ Popped = [i \in {0, 1} |-> IF i = 0 THEN TokenErr ELSE TokenErr]
        /\ t \in Token /\ t # TokenErr /\ t.n = Lexed /\ (t.k # "Eof" => t.n <= size)
        /\ Lexed \in 0..(size + 1)
    BY <1>1, <2>1, NextFacts
  <2>4. Reinserted(Popped, t) = [i \in {0, 1} |-> IF i = 0 THEN t ELSE TokenErr]
    BY <2>3 DEF Reinserted
  <2>5. /\ Reinserted(Reinserted(Popped, t), held) = [i \in {0, 1} |-> IF i = 0 THEN held ELSE t]
        /\ ~Full(Reinserted(Popped, t))
    BY <2>3, <2>4 DEF Reinserted, Full
  <2>6. /\ lexed' = Lexed /\ stack' = <<"term">> \o Tail(stack)
        /\ peeked' = [i \in {0, 1} |-> IF i = 0 THEN held ELSE t]
        /\ UNCHANGED <<file, size, held, used, status>>
    BY <1>3, <2>5 DEF Item2, Goes
  <2>7. peeked'[0] = held /\ peeked'[1] = t /\ held # TokenErr
    BY <2>1, <2>6, TokenFacts
  <2>8. StackInv(stack') /\ stack'[1] = "term"
    <3>1. <<"term">> \in Seq(Plain) /\ <<"term">> # <<>> /\ <<"term">>[1] = "term"
      BY DEF Plain, Places
    <3> QED
      BY <1>1, <2>6, <3>1, GoesFacts
  <2>9. TypeOK'
    BY <2>1, <2>3, <2>6, <2>8 DEF Inv, TypeOK, StackInv
  <2>10. NeverFull' /\ InOrder' /\ TextOfToken' /\ KindInv'
    BY <2>1, <2>2, <2>3, <2>6, <2>7 DEF Inv, NeverFull, InOrder, TextOfToken, KindInv
  <2>11. BufferInv(stack[1])'
    BY <2>1, <2>7, <2>8 DEF BufferInv, BackPlaces
  <2> QED
    BY <2>8, <2>9, <2>10, <2>11 DEF Inv
<1> QED
  BY <1>2, <1>3 DEF Item2

LEMMA FileStep ==
    ASSUME Inv, NEW t \in NextTokens, File(t)
    PROVE  Inv'
<1>1. status = "reading" /\ stack[1] = "file" /\ StackInv(stack) /\ peeked[1] = TokenErr
  BY DEF File, At, Inv, StackInv, BufferInv
<1>2. CASE On(t, <<"command", "file">>)
  <2> DEFINE ps == <<"command", "file">>
  <2>1. ps \in Seq(Plain) /\ ps # <<>> /\ ps[Len(ps)] = "file"
    BY DEF Plain, Places
  <2>2. Pulls(t, ps)
    BY <1>2 DEF On, Pulls
  <2> HIDE DEF ps
  <2> QED
    BY <1>1, <2>1, <2>2, PullStep
<1>3. CASE On(t, <<"file">>)
  <2> DEFINE ps == <<"file">>
  <2>1. ps \in Seq(Plain) /\ ps # <<>> /\ ps[Len(ps)] = "file"
    BY DEF Plain, Places
  <2>2. Pulls(t, ps)
    BY <1>3 DEF On, Pulls
  <2> HIDE DEF ps
  <2> QED
    BY <1>1, <2>1, <2>2, PullStep
<1>4. CASE EndOfFile
  <2>1. Popped = [i \in {0, 1} |-> TokenErr] /\ Lexed \in 0..(size + 1)
    BY <1>1, NextFacts
  <2>2. peeked' = [i \in {0, 1} |-> TokenErr] /\ peeked'[0] = TokenErr /\ peeked'[1] = TokenErr
    BY <1>4, <2>1 DEF EndOfFile
  <2>3. InOrder' /\ KindInv'
    BY <2>2 DEF InOrder, KindInv
  <2>4. CASE file < MaxFiles /\ file' = file + 1
    <3>1. /\ size' \in 0..MaxTokens /\ lexed' = 0
          /\ UNCHANGED <<held, stack, used, status>>
      BY <1>4, <2>4, MaxFilesAssumption DEF EndOfFile, Inv, TypeOK
    <3>2. file' \in 1..MaxFiles
      BY <2>4, MaxFilesAssumption DEF Inv, TypeOK
    <3>3. lexed' \in 0..(size' + 1)
      <4>1. \A n \in 0..MaxTokens : 0 \in 0..(n + 1)
        BY MaxTokensAssumption
      <4>2. size' \in 0..MaxTokens /\ lexed' = 0
        BY <3>1
      <4> QED
        BY <4>1, <4>2, Zenon
    <3>4. peeked' \in [{0, 1} -> Token \cup {TokenErr}]
      BY <2>2
    <3>5. TypeOK'
      BY <3>1, <3>2, <3>3, <3>4 DEF Inv, TypeOK
    <3> QED
      BY <1>1, <2>2, <2>3, <3>1, <3>5 DEF Inv, NeverFull, TextOfToken, BufferInv
  <2>5. CASE file = MaxFiles /\ status' = "done"
    <3>1. /\ lexed' = Lexed /\ stack' = Tail(stack)
          /\ UNCHANGED <<file, size, held, used>>
      BY <1>4, <2>5, MaxFilesAssumption DEF EndOfFile
    <3>2. TypeOK'
      BY <1>1, <2>1, <2>2, <2>5, <3>1 DEF Inv, TypeOK, StackInv
    <3> QED
      BY <2>3, <2>5, <3>1, <3>2 DEF Inv, NeverFull, TextOfToken
  <2> QED
    BY <1>4, <2>4, <2>5 DEF EndOfFile
<1> QED
  BY <1>2, <1>3, <1>4 DEF File

LEMMA ErrorStep ==
    ASSUME Inv, NEW t \in NextTokens, ReportError(t)
    PROVE  Inv'
<1>1. /\ Popped = [i \in {0, 1} |-> IF i = 0 THEN peeked[1] ELSE TokenErr]
      /\ Popped \in [{0, 1} -> Token \cup {TokenErr}]
      /\ Lexed \in 0..(size + 1)
      /\ peeked[1] # TokenErr => Lexed = lexed /\ peeked[1].n = Lexed
  BY NextFacts DEF ReportError
<1>2. /\ lexed' = Lexed /\ peeked' = Popped /\ status' = "error"
      /\ UNCHANGED <<file, size, held, stack, used>>
  BY DEF ReportError
<1>3. peeked'[0] = peeked[1] /\ peeked'[1] = TokenErr
  BY <1>1, <1>2
<1>4. TypeOK'
  BY <1>1, <1>2 DEF Inv, TypeOK
<1>5. InOrder' /\ KindInv'
  BY <1>1, <1>2, <1>3 DEF Inv, InOrder, KindInv
<1> QED
  BY <1>2, <1>4, <1>5 DEF Inv, NeverFull, TextOfToken

-----------------------------------------------------------------------------
\* The buffer never overflows, what is pushed back comes again in order, and the
\* text that the code asks for is that of the token it has in hand.
THEOREM Buffered == Spec => []Inv
<1>1. Init => Inv
  <2> SUFFICES ASSUME Init PROVE Inv
    OBVIOUS
  <2>1. peeked[0] = TokenErr /\ peeked[1] = TokenErr
    BY DEF Init
  <2>2. TypeOK
    BY MaxTokensAssumption, MaxFilesAssumption DEF Init, TypeOK, Places
  <2>3. StackInv(stack)
    BY DEF Init, StackInv, Places
  <2> QED
    BY <2>1, <2>2, <2>3 DEF Init, Inv, NeverFull, InOrder, TextOfToken, KindInv, BufferInv
<1>2. Inv /\ [Next]_vars => Inv'
  <2> SUFFICES ASSUME Inv, [Next]_vars PROVE Inv'
    OBVIOUS
  <2>1. CASE Next
    <3>1. PICK t \in NextTokens : Step(t) \/ ReportError(t)
      BY <2>1 DEF Next
    <3> QED
      BY <3>1, FileStep, CommandStep, TermStep, FormStep, ItemStep, Item2Step, CodeStep,
         ErrorStep DEF Step
  <2>2. CASE UNCHANGED vars
    BY <2>2 DEF vars, Inv, TypeOK, NeverFull, InOrder, TextOfToken, KindInv, BufferInv
  <2> QED
    BY <2>1, <2>2
<1> QED
  BY <1>1, <1>2, PTL DEF Spec

\* Every variable of the lexer and its readers has its type: no more is lexed than
\* the end of the file, and the buffer holds tokens or nothing.
THEOREM TypeCorrect == Spec => []TypeOK
<1>1. Inv => TypeOK
  BY DEF Inv
<1> QED
  BY <1>1, Buffered, PTL

\* The assertion in reinsert_token() holds, whatever the files say.
THEOREM BufferIsEnough == Spec => []NeverFull
<1>1. Inv => NeverFull
  BY DEF Inv
<1> QED
  BY <1>1, Buffered, PTL

\* Tokens that are pushed back are read again in the order of the file, and none
\* gets into the next file.
THEOREM ReadInOrder == Spec => []InOrder
<1>1. Inv => InOrder
  BY DEF Inv
<1> QED
  BY <1>1, Buffered, PTL

\* An identifier, a numeral or an index of markvar is made of the text of its own
\* token.
THEOREM TextIsOwn == Spec => []TextOfToken
<1>1. Inv => TextOfToken
  BY DEF Inv
<1> QED
  BY <1>1, Buffered, PTL
=============================================================================
