----------------------------- MODULE TokenStream -----------------------------
(***************************************************************************)
(* The tokens of lexer.flex and the functions that pull them and push them *)
(* back: check(), read_code() and the loops around them.  What the program *)
(* still has to read is a stack of the places in the code that wait for a  *)
(* token; a step is one next_token() and the calls of reinsert_token()     *)
(* that follow it.  The lexer hands out any kinds of tokens.               *)
(*                                                                         *)
(* What a token means is left open, so that any step may also end in       *)
(* report_error().  A token that a tail call of check() leaves to its      *)
(* caller's eat_excess() is the token that it would have eaten itself.     *)
(***************************************************************************)
EXTENDS Integers, Sequences

CONSTANTS MaxTokens,  \* how many tokens a file may have
          MaxFiles    \* how many files check_file() is called for

ASSUME MaxTokensAssumption == MaxTokens \in Nat
ASSUME MaxFilesAssumption == MaxFiles \in Nat \ {0}

\* Kinds that a place tells apart, after next_token() has replaced synonyms:
\* Binder is "!", "#", "%" or "@", Ident any token that no place looks for, and
\* Op a keyword of code that is followed by a number of pieces of code.
Kinds == {"Open", "Close", "Colon", "Arrow", "Binder", "Lambda", "Caret", "Tilde",
          "Do", "Op", "Match", "Declare", "DeclareRule", "DeclareType", "Check",
          "CheckAssuming", "Run", "Program", "Ident"}

\* where the code calls next_token()
Places == {"file", "command", "name", "term", "form", "args", "close", "open", "list",
           "items", "item", "item2", "code", "codeform", "codeargs", "cases", "pattern",
           "patvars", "patvar", "params"}

\* A token has a kind and the position in the file that it was lexed at.
Token == [k : Kinds \cup {"Eof"}, n : Nat \ {0}]
TokenErr == [k |-> "TokenErr", n |-> 0]

VARIABLES file,     \* the number of the file that is read
          size,     \* how many tokens there are before the end of the file
          lexed,    \* how many tokens s_lexer has returned: YYText() is the last one's
          peeked,   \* s_peeked
          held,     \* t in check_decl_list_item()
          stack,    \* the places that wait for a token, the innermost first
          used,     \* the token whose text was asked for last, and what the text was
          status    \* "reading", "done", "error" or, after assert(false), "aborted"

vars == <<file, size, lexed, peeked, held, stack, used, status>>

Init ==
    /\ file = 1
    /\ size \in 0..MaxTokens
    /\ lexed = 0
    /\ peeked = [i \in {0, 1} |-> TokenErr]
    /\ held = TokenErr
    /\ stack = <<"file">>
    /\ used = [tok |-> 0, text |-> 0]
    /\ status = "reading"

-----------------------------------------------------------------------------
\* What the lexer may return: after the last token it returns Eof for good.
Lex ==
    IF lexed < size THEN {[k |-> k, n |-> lexed + 1] : k \in Kinds}
    ELSE {[k |-> "Eof", n |-> size + 1]}

\* what next_token() may return, and what it leaves
NextTokens == IF peeked[0] = TokenErr THEN Lex ELSE {peeked[0]}
Lexed == IF peeked[0] = TokenErr /\ lexed <= size THEN lexed + 1 ELSE lexed

\* A faulty version: the second token is moved and not removed.
PoppedKeeps ==
    IF peeked[0] = TokenErr THEN peeked ELSE [peeked EXCEPT ![0] = peeked[1]]

Popped ==
    IF peeked[0] = TokenErr THEN peeked
    ELSE [i \in {0, 1} |-> IF i = 0 THEN peeked[1] ELSE TokenErr]

\* reinsert_token(t), and whether its assertion fails
Reinserted(p, t) ==
    IF p[0] = TokenErr THEN [i \in {0, 1} |-> IF i = 0 THEN t ELSE p[1]]
    ELSE [i \in {0, 1} |-> IF i = 0 THEN t ELSE p[0]]
Full(p) == p[0] # TokenErr /\ p[1] # TokenErr

-----------------------------------------------------------------------------
(* A step at the innermost place, which t takes the program from: on to    *)
(* the places that come first now.  Back is like it, for a token that is   *)
(* pushed back.                                                            *)

At(place) == status = "reading" /\ stack # <<>> /\ Head(stack) = place

Goes(places) == stack' = places \o Tail(stack)

Pull ==
    /\ lexed' = Lexed
    /\ peeked' = Popped
    /\ UNCHANGED <<file, size, held, status>>

On(t, places) == Pull /\ Goes(places) /\ UNCHANGED used

\* token_str() after next_token() has returned t
OnText(t, places) == Pull /\ Goes(places) /\ used' = [tok |-> t.n, text |-> Lexed]

Back(t, places) ==
    /\ lexed' = Lexed
    /\ peeked' = Reinserted(Popped, t)
    /\ status' = IF Full(Popped) THEN "aborted" ELSE status
    /\ Goes(places)
    /\ UNCHANGED <<file, size, held, used>>

-----------------------------------------------------------------------------
(* The command loop.                                                       *)

\* s_peeked is not touched between two files.
EndOfFile ==
    /\ peeked' = Popped
    /\ \/ /\ file < MaxFiles
          /\ file' = file + 1
          /\ size' \in 0..MaxTokens
          /\ lexed' = 0
          /\ UNCHANGED <<held, stack, used, status>>
       \/ /\ file = MaxFiles
          /\ lexed' = Lexed
          /\ stack' = Tail(stack)
          /\ status' = "done"
          /\ UNCHANGED <<file, size, held, used>>

\* A faulty version: a parenthesis too many ends the loop.
FileUntilClose(t) ==
    /\ At("file")
    /\ \/ t.k = "Open"  /\ On(t, <<"command", "file">>)
       \/ t.k = "Close" /\ On(t, <<>>)
       \/ t.k = "Eof"   /\ EndOfFile

File(t) ==
    /\ At("file")
    /\ \/ t.k = "Open"  /\ On(t, <<"command", "file">>)
       \/ t.k = "Close" /\ On(t, <<"file">>)
       \/ t.k = "Eof"   /\ EndOfFile

\* define, declare, opaque and declare-rule with their name, define-const like it
Command(t) ==
    /\ At("command")
    /\ \/ t.k = "Declare"       /\ On(t, <<"name", "term">>)
       \/ t.k = "DeclareRule"   /\ On(t, <<"name", "list", "term">>)
       \/ t.k = "DeclareType"   /\ On(t, <<"name", "list">>)
       \/ t.k = "Check"         /\ On(t, <<"term">>)
       \/ t.k = "CheckAssuming" /\ On(t, <<"list", "term", "term">>)
       \/ t.k = "Run"           /\ On(t, <<"code">>)
       \/ t.k = "Program"       /\ On(t, <<"name", "open", "params", "term", "code">>)

\* the loop over the parameters of a program; reinsert_token(d) is for eat_token()
Params(t) ==
    /\ At("params")
    /\ \/ t.k = "Close" /\ On(t, <<>>)
       \/ t.k # "Close" /\ Back(t, <<"open", "name", "term", "close", "params">>)

\* prefix_id() takes any token
Name(t) == At("name") /\ OnText(t, <<>>)

\* eat_token()
Eat(t) ==
    \/ At("open")  /\ t.k = "Open"  /\ On(t, <<>>)
    \/ At("close") /\ t.k = "Close" /\ On(t, <<>>)

-----------------------------------------------------------------------------
(* check() and the declaration lists.                                      *)

Term(t) ==
    /\ At("term")
    /\ \/ t.k = "Open" /\ On(t, <<"form">>)
       \/ t.k \notin {"Open", "Eof"} /\ OnText(t, <<>>)

Form(t) ==
    /\ At("form")
    /\ \/ t.k = "Binder" /\ On(t, <<"name", "term", "term", "close">>)
       \/ t.k = "Lambda" /\ On(t, <<"name", "term", "close">>)
       \/ t.k = "Arrow"  /\ On(t, <<"list", "term", "close">>)
       \/ t.k = "Caret"  /\ On(t, <<"code", "term", "close">>)
       \/ t.k = "Colon"  /\ On(t, <<"term", "term", "close">>)
       \/ t.k = "Tilde"  /\ On(t, <<"term", "close">>)
       \/ /\ t.k \notin {"Binder", "Lambda", "Arrow", "Caret", "Colon", "Tilde", "Eof"}
          /\ Back(t, <<"term", "args">>)

\* After a tail call the parenthesis is eaten without a look at the next token.
Args(t) ==
    /\ At("args")
    /\ \/ t.k = "Close" /\ On(t, <<>>)
       \/ t.k # "Close" /\ (Back(t, <<"term", "args">>) \/ Back(t, <<"term", "close">>))

List(t) == At("list") /\ t.k = "Open" /\ On(t, <<"items">>)

Items(t) ==
    /\ At("items")
    /\ \/ t.k = "Close" /\ On(t, <<>>)
       \/ t.k # "Close" /\ Back(t, <<"item", "items">>)

\* A faulty version: the second token is read whatever the first one is.
ItemLooksAhead(t) ==
    /\ At("item")
    /\ lexed' = Lexed /\ peeked' = Popped /\ held' = t
    /\ Goes(<<"item2">>)
    /\ UNCHANGED <<file, size, used, status>>

Item(t) ==
    /\ At("item")
    /\ \/ /\ t.k = "Open"
          /\ lexed' = Lexed /\ peeked' = Popped /\ held' = t
          /\ Goes(<<"item2">>)
          /\ UNCHANGED <<file, size, used, status>>
       \/ t.k # "Open" /\ Back(t, <<"term">>)

\* A faulty version: the two tokens are pushed back in the order they came in.
Item2Swapped(t) ==
    /\ At("item2")
    /\ \/ t.k = "Colon" /\ On(t, <<"name", "term", "close">>)
       \/ /\ t.k # "Colon"
          /\ lexed' = Lexed
          /\ peeked' = Reinserted(Reinserted(Popped, held), t)
          /\ status' = IF Full(Reinserted(Popped, held)) THEN "aborted" ELSE status
          /\ Goes(<<"term">>)
          /\ UNCHANGED <<file, size, held, used>>

\* After "(" another token has to tell a name with a type from a type: both are
\* pushed back.
Item2(t) ==
    /\ At("item2")
    /\ \/ t.k = "Colon" /\ On(t, <<"name", "term", "close">>)
       \/ /\ t.k # "Colon"
          /\ lexed' = Lexed
          /\ peeked' = Reinserted(Reinserted(Popped, t), held)
          /\ status' = IF Full(Reinserted(Popped, t)) THEN "aborted" ELSE status
          /\ Goes(<<"term">>)
          /\ UNCHANGED <<file, size, held, used>>

-----------------------------------------------------------------------------
(* read_code() and read_case().                                            *)

Code(t) ==
    /\ At("code")
    /\ \/ t.k = "Open" /\ On(t, <<"codeform">>)
       \/ t.k \notin {"Open", "Eof"} /\ OnText(t, <<>>)

\* The head of an application is looked up by its text at once; a markvar whose
\* number is out of range reads no code.
CodeForm(t) ==
    /\ At("codeform")
    /\ \/ t.k = "Do"     /\ On(t, <<"code", "codeargs">>)
       \/ t.k = "Binder" /\ On(t, <<"name", "code", "code", "close">>)
       \/ t.k = "Op"     /\ \E n \in 0..4 : OnText(t, Append([i \in 1..n |-> "code"], "close"))
       \/ t.k = "Tilde"  /\ On(t, <<"code", "close">>)
       \/ t.k = "Match"  /\ On(t, <<"code", "cases">>)
       \/ t.k \notin {"Do", "Binder", "Op", "Tilde", "Match", "Eof"} /\ OnText(t, <<"codeargs">>)

CodeArgs(t) ==
    /\ At("codeargs")
    /\ \/ t.k = "Close" /\ On(t, <<>>)
       \/ t.k # "Close" /\ Back(t, <<"code", "codeargs">>)

Cases(t) ==
    /\ At("cases")
    /\ \/ t.k = "Close" /\ On(t, <<>>)
       \/ t.k # "Close" /\ Back(t, <<"open", "pattern", "code", "close", "cases">>)

Pattern(t) ==
    /\ At("pattern")
    /\ \/ t.k = "Open" /\ On(t, <<"name", "patvars">>)
       \/ t.k \notin {"Open", "Eof"} /\ Back(t, <<"name">>)

PatVars(t) ==
    /\ At("patvars")
    /\ \/ t.k = "Close" /\ On(t, <<>>)
       \/ t.k # "Close" /\ Back(t, <<"patvar", "patvars">>)

\* A faulty version: the empty text is not tested for.
PatVarAny(t) == At("patvar") /\ OnText(t, <<>>)

\* the text is empty at the end of the file only
PatVar(t) == At("patvar") /\ t.k # "Eof" /\ OnText(t, <<>>)

-----------------------------------------------------------------------------
\* report_error(), which ends the program: at a token that is refused above, or
\* because of what the tokens mean
ReportError(t) ==
    /\ status = "reading"
    /\ lexed' = Lexed
    /\ peeked' = Popped
    /\ status' = "error"
    /\ UNCHANGED <<file, size, held, stack, used>>

Step(t) ==
    \/ File(t) \/ Command(t) \/ Params(t) \/ Name(t) \/ Eat(t)
    \/ Term(t) \/ Form(t) \/ Args(t) \/ List(t) \/ Items(t) \/ Item(t) \/ Item2(t)
    \/ Code(t) \/ CodeForm(t) \/ CodeArgs(t) \/ Cases(t) \/ Pattern(t) \/ PatVars(t) \/ PatVar(t)

Next ==
    /\ status = "reading"
    /\ \E t \in NextTokens : Step(t) \/ ReportError(t)

Spec == Init /\ [][Next]_vars

\* One thread reads the file, and nothing makes it wait.
FairSpec == Spec /\ WF_vars(Next)

-----------------------------------------------------------------------------
TypeOK ==
    /\ file \in 1..MaxFiles
    /\ size \in 0..MaxTokens
    /\ lexed \in 0..(size + 1)
    /\ peeked \in [{0, 1} -> Token \cup {TokenErr}]
    /\ held \in Token \cup {TokenErr}
    /\ stack \in Seq(Places)
    /\ status = "reading" => stack # <<>>
    /\ used \in [tok : Nat, text : Nat]
    /\ status \in {"reading", "done", "error", "aborted"}

\* The buffer for two tokens is enough: the assertion in reinsert_token() holds.
NeverFull == status # "aborted"

\* The tokens that are pushed back are the last ones lexed of this file, in its
\* order, so that they are read again as they were read before; none is left from
\* the file before.
InOrder ==
    /\ peeked[1] # TokenErr => peeked[0] # TokenErr /\ peeked[1].n = lexed
    /\ peeked[0] # TokenErr =>
          peeked[0].n = (IF peeked[1] = TokenErr THEN lexed ELSE lexed - 1)

\* Text is taken from the lexer, which knows that of the last token it returned;
\* that is the token which the code means, pushed back or not.
TextOfToken == used.tok = used.text

\* The files are read to their end, or to an error; no loop takes the end of the file for
\* one more token for ever.
Ends == <>(status # "reading")
=============================================================================
