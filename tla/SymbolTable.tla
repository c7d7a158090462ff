---------------------------- MODULE SymbolTable ----------------------------
(***************************************************************************)
(* The symbol table of cc1, symbol.c, under the parser that uses it: the   *)
(* lexer binds a name to a symbol when it reads it, one token ahead of the *)
(* parser, and the declarations of decl.c, stmt.c and expr.c install the   *)
(* symbol and open and close contexts.                                     *)
(*                                                                         *)
(* A symbol is allocated by lookup(), is on the list head (or labels), and *)
(* once installed also on the collision list of its bucket.  Leaving a     *)
(* context frees symbols from the front of head, on the assumption that    *)
(* each is then at the front of its collision list.                        *)
(***************************************************************************)
EXTENDS Integers, Sequences, SequencesExt

CONSTANTS
    Name,       \* identifiers
    Bucket,     \* genhash & size: a function from Name
    Ptr, NULL,  \* addresses of symbols; those bound the symbols alive at once
    NR_BLOCK,   \* contexts that can be nested
    Features    \* what the program may contain besides plain declarations:
                \*   "constant"   a constant as the token behind a closed context
                \*   "enumexpr"   a declaration inside the value of an enumerator
                \*   "badparam"   a parameter that parameter() rejects
                \*   "selfref"    a name used inside its own declarator

ASSUME NameAssumption == DOMAIN Bucket = Name
ASSUME BoundAssumption == NULL \notin Ptr /\ NR_BLOCK \in Nat
ASSUME FeatureAssumption == Features \subseteq {"constant", "enumexpr", "badparam", "selfref"}

GLOBALCTX == 0
PARAMCTX == 1
Namespace == {"IDEN", "TAG", "LABEL"}

VARIABLES
    sym,        \* the symbols alive
    head, labels,       \* the two lists, the newest first
    htab,       \* the collision lists: of a table ("sym" or "lbl") and a bucket
    curctx,
    tok,        \* yytoken and yylval.sym: [kind, sym]
    open,       \* what is being declared: [kind, sym, ctx], the innermost last
    stopped     \* running; or error: exit; or assert, cycle

vars == <<sym, head, labels, htab, curctx, tok, open, stopped>>

NoName == "no name"
Punct == [kind |-> "punct", sym |-> NULL]
Live == DOMAIN sym

Table(ns) == IF ns = "LABEL" THEN "lbl" ELSE "sym"
hash(name, ns) == <<Table(ns), Bucket[name]>>

Init ==
    /\ sym = << >> /\ head = << >> /\ labels = << >>
    /\ htab = [h \in {"sym", "lbl"} \X Range(Bucket) |-> << >>]
    /\ curctx = GLOBALCTX
    /\ tok = Punct /\ open = << >> /\ stopped = "running"

-----------------------------------------------------------------------------
(* newsym(), lookup(), install()                                           *)

\* What xmalloc() may return: not alive, and not remembered by anyone, so that
\* a pointer to a freed symbol can be told from a pointer to a new one.
Free == Ptr \ (Live \cup {tok.sym} \cup {open[j].sym : j \in DOMAIN open})

Symbol(ns, name, ctx) == [name |-> name, ns |-> ns, ctx |-> ctx,
                          declared |-> FALSE, const |-> FALSE]
Put(f, s, r) == [x \in DOMAIN f \cup {s} |-> IF x = s THEN r ELSE f[x]]

\* the list a new symbol goes to the front of
Enlist(s, ns) ==
    IF ns = "LABEL" THEN labels' = <<s>> \o labels /\ UNCHANGED head
    ELSE head' = <<s>> \o head /\ UNCHANGED labels

\* lookup() with NOALLOC
Find(tab, ns, name) ==
    LET list == tab[hash(name, ns)]
        at == SelectInSeq(list, LAMBDA s : sym[s].name = name /\ sym[s].ns = ns)
    IN  IF at = 0 THEN NULL ELSE list[at]

\* (fault) a symbol goes to the end of its list
LinkLast(list, s) == Append(list, s)
LinkFirst(list, s) == <<s>> \o list

Linked(s) == \E h \in DOMAIN htab : s \in Range(htab[h])

\* install() returns NULL, takes the symbol as it is, or makes a new one
AlreadyHere(ns, s) == sym[s].declared /\ sym[s].ctx = curctx /\ ns = sym[s].ns
Unused(s) == ~sym[s].declared /\ sym[s].ctx = curctx

\* linkhash(t), whose fields are r; declared and const are what the caller makes
\* of its flags.  A symbol that is linked twice makes its list circular.
linkhash(t, r, declared, const) ==
    LET h == hash(r.name, r.ns)
    IN  /\ stopped' = IF t \in Range(htab[h]) THEN "cycle" ELSE stopped
        /\ htab' = [htab EXCEPT ![h] = LinkFirst(@, t)]
        /\ sym' = Put(sym, t, [r EXCEPT !.declared = declared, !.const = const])

\* install(ns, s), which links t
Install(ns, s, t, declared, const) ==
    /\ ~AlreadyHere(ns, s)
    /\ Unused(s) /\ Linked(s) => "selfref" \in Features
    /\ IF Unused(s)
       THEN t = s /\ linkhash(t, sym[s], declared, const) /\ UNCHANGED <<head, labels>>
       ELSE /\ t \in Free
            /\ linkhash(t, Symbol(ns, sym[s].name, curctx), declared, const)
            /\ Enlist(t, ns)

-----------------------------------------------------------------------------
(* The lexer: iden() and the literals.                                     *)

Running == stopped = "running"
Iden(ns) == tok.kind = "iden" /\ sym[tok.sym].ns = ns

\* An enumerator's symbol is looked up, and installed only behind its value.
InEnum == \E j \in DOMAIN open : open[j].kind = "enum"
Allowed == InEnum => "enumexpr" \in Features

LexName(ns, name) ==
    /\ Running /\ tok = Punct /\ (ns = "LABEL" => curctx > PARAMCTX)
    /\ LET s == Find(htab, ns, name)
       IN  IF s # NULL
           THEN /\ tok' = [kind |-> IF sym[s].const THEN "const" ELSE "iden", sym |-> s]
                /\ UNCHANGED <<sym, head, labels>>
           ELSE \E t \in Free :
                   /\ tok' = [kind |-> "iden", sym |-> t]
                   /\ sym' = Put(sym, t, Symbol(ns, name, curctx))
                   /\ Enlist(t, ns)
    /\ UNCHANGED <<htab, curctx, open, stopped>>

LexLiteral ==
    /\ Running /\ tok = Punct
    /\ \E t \in Free :
          /\ tok' = [kind |-> "const", sym |-> t]
          /\ sym' = Put(sym, t, Symbol("IDEN", NoName, curctx))
          /\ Enlist(t, "IDEN")
    /\ UNCHANGED <<htab, curctx, open, stopped>>

\* The token is used without a change of the table, or skipped.
LexPunct ==
    /\ Running /\ tok # Punct
    /\ tok' = Punct
    /\ UNCHANGED <<sym, head, labels, htab, curctx, open, stopped>>

-----------------------------------------------------------------------------
(* The parser.  Every action that uses a token calls next(); the token     *)
(* behind it is punctuation, or is read by a Lex action.                   *)

\* directdcl(): the symbol is linked, but not declared before its declarator ends;
\* the declarators inside one, its parameters, have a context of their own
directdcl ==
    /\ Running /\ Iden("IDEN") /\ Allowed
    /\ \A j \in DOMAIN open : open[j].kind = "dcl" => open[j].ctx < curctx
    /\ \E t \in Ptr :
          /\ Install("IDEN", tok.sym, t, FALSE, FALSE)
          /\ open' = Append(open, [kind |-> "dcl", sym |-> t, ctx |-> curctx])
    /\ tok' = Punct
    /\ UNCHANGED curctx

\* directdcl(), krpars(), enumdcl() of a name of this scope: redcl() or an error
Redeclare ==
    /\ Running /\ Iden("IDEN") /\ AlreadyHere("IDEN", tok.sym)
    /\ tok' = Punct
    /\ UNCHANGED <<sym, head, labels, htab, curctx, open, stopped>>

\* identifier() or parameter(), which reports an error for some parameters and
\* then leaves the symbol as directdcl() left it
Outcomes == IF "badparam" \in Features /\ curctx >= PARAMCTX THEN BOOLEAN ELSE {TRUE}

Declared ==
    /\ Running /\ open # << >> /\ Last(open).kind = "dcl"
    /\ \E ok \in Outcomes : sym' = [sym EXCEPT ![Last(open).sym].declared = @ \/ ok]
    /\ open' = Front(open)
    /\ UNCHANGED <<head, labels, htab, curctx, tok, stopped>>

\* krpars(), funcsym(), and primary() for an undeclared name
InstallNow ==
    /\ Running /\ Iden("IDEN") /\ Allowed
    /\ \E t \in Ptr : Install("IDEN", tok.sym, t, TRUE, FALSE)
    /\ tok' = Punct
    /\ UNCHANGED <<curctx, open>>

newtag ==
    /\ Running /\ Iden("TAG") /\ Allowed
    /\ IF sym[tok.sym].declared
       THEN UNCHANGED <<sym, head, labels, htab, stopped>>
       ELSE \E t \in Ptr : Install("TAG", tok.sym, t, TRUE, FALSE)
    /\ tok' = Punct
    /\ UNCHANGED <<curctx, open>>

\* enumdcl(): the name of an enumerator, and behind its value the install()
EnumName ==
    /\ Running /\ Iden("IDEN") /\ Allowed
    /\ open' = Append(open, [kind |-> "enum", sym |-> tok.sym, ctx |-> curctx])
    /\ tok' = Punct
    /\ UNCHANGED <<sym, head, labels, htab, curctx, stopped>>

Enumerator ==
    /\ Running /\ tok = Punct      \* "," or "}"
    /\ open # << >> /\ Last(open).kind = "enum" /\ Last(open).ctx = curctx
    /\ LET s == Last(open).sym
       IN  IF AlreadyHere("IDEN", s)
           THEN UNCHANGED <<sym, head, labels, htab, stopped>>
           ELSE \E t \in Ptr : Install("IDEN", s, t, TRUE, TRUE)
    /\ open' = Front(open)
    /\ UNCHANGED <<curctx, tok>>

\* Goto(): the lexer has read the name as a label
Goto ==
    /\ Running /\ Iden("LABEL")
    /\ IF sym[tok.sym].declared
       THEN UNCHANGED <<sym, head, labels, htab, stopped>>
       ELSE \E t \in Ptr : Install("LABEL", tok.sym, t, TRUE, FALSE)
    /\ tok' = Punct
    /\ UNCHANGED <<curctx, open>>

\* label(): the lexer has read the name as an identifier, and may have allocated
\* a symbol for it that nobody will use
label ==
    /\ Running /\ Iden("IDEN") /\ Allowed /\ curctx > PARAMCTX
    /\ IF Find(htab, "LABEL", sym[tok.sym].name) # NULL
       THEN UNCHANGED <<sym, head, labels, htab, stopped>>
       ELSE \E t \in Free :
               /\ linkhash(t, Symbol("LABEL", sym[tok.sym].name, curctx), TRUE, FALSE)
               /\ Enlist(t, "LABEL")
    /\ tok' = Punct
    /\ UNCHANGED <<curctx, open>>

-----------------------------------------------------------------------------
(* Contexts: opened in front of "(", "{" or "for", and by directive() for  *)
(* the line of a preprocessor directive, between any two tokens.           *)

TooMany == curctx + 1 = NR_BLOCK + 1

pushctx ==
    /\ Running /\ tok = Punct
    /\ curctx' = curctx + 1
    /\ stopped' = IF TooMany THEN "error" ELSE stopped
    /\ UNCHANGED <<sym, head, labels, htab, tok, open>>

\* killsym() for one symbol after the other: unlinkhash() asserts that each is
\* the first of its list.
\* (fault) the symbol is freed and not unlinked
unlinkhashNot(st, s) == st
unlinkhash(st, s) ==
    IF ~sym[s].declared THEN st
    ELSE LET h == hash(sym[s].name, sym[s].ns)
         IN  IF st.tab[h] # << >> /\ Head(st.tab[h]) = s
             THEN [st EXCEPT !.tab[h] = Tail(@)] ELSE [st EXCEPT !.ok = FALSE]

\* the table behind the loops that kill the symbols of dead
Unlinked(dead) ==
    LET st[n \in 0 .. Len(dead)] ==
            IF n = 0 THEN [tab |-> htab, ok |-> TRUE] ELSE unlinkhash(st[n - 1], dead[n])
    IN  st[Len(dead)]

\* the symbols at the front of head that belong to the context
\* (fault) the loop stops at a symbol that is not declared
DoomedDeclared ==
    LET keep == SelectInSeq(head, LAMBDA s : sym[s].ctx # curctx \/ ~sym[s].declared)
    IN  IF keep = 0 THEN head ELSE SubSeq(head, 1, keep - 1)
Doomed ==
    LET keep == SelectInSeq(head, LAMBDA s : sym[s].ctx # curctx)
    IN  IF keep = 0 THEN head ELSE SubSeq(head, 1, keep - 1)
DoomedLabels == IF curctx - 1 = GLOBALCTX THEN labels ELSE << >>

Dangling == tok.kind = "iden" /\ sym[tok.sym].ctx = curctx

\* (fault) the lookup comes before the context is popped
RelookedBefore(old) == Symbol(old.ns, old.name, curctx)
Relooked(old) == Symbol(old.ns, old.name, curctx - 1)

\* The symbol tok is looked up again and may be allocated again; a new one takes
\* the place of the one that was freed.
popctx ==
    /\ Running /\ curctx > GLOBALCTX
    /\ \A j \in DOMAIN open : open[j].ctx < curctx
    /\ tok.kind = "const" /\ sym[tok.sym].ctx = curctx =>
          "constant" \in Features /\ curctx > PARAMCTX
    /\ ~Iden("LABEL")
    /\ LET dead == Doomed \o DoomedLabels
           st == Unlinked(dead)
           kept == [s \in Live \ Range(dead) |-> sym[s]]
           old == sym[tok.sym]
           found == Find(st.tab, old.ns, old.name)
           left == SubSeq(head, Len(Doomed) + 1, Len(head))
       IN  /\ stopped' = IF st.ok THEN stopped ELSE "assert"
           /\ htab' = st.tab
           /\ curctx' = curctx - 1
           /\ labels' = IF DoomedLabels = << >> THEN labels ELSE << >>
           /\ IF Dangling /\ found = NULL
              THEN /\ sym' = Put(kept, tok.sym, Relooked(old))
                   /\ head' = <<tok.sym>> \o left /\ UNCHANGED tok
              ELSE /\ sym' = kept /\ head' = left
                   /\ tok' = IF Dangling
                             THEN [kind |-> "iden", sym |-> found] ELSE tok
    /\ UNCHANGED open

Next ==
    \/ \E ns \in Namespace, name \in Name : LexName(ns, name)
    \/ LexLiteral \/ LexPunct
    \/ directdcl \/ Redeclare \/ Declared \/ InstallNow
    \/ newtag \/ EnumName \/ Enumerator \/ Goto \/ label
    \/ pushctx \/ popctx
    \/ ~Running /\ UNCHANGED vars      \* the compiler has stopped

Spec == Init /\ [][Next]_vars

-----------------------------------------------------------------------------
(* Properties.                                                             *)

\* The symbols, the context and the token have their types; in particular error()
\* stops the compiler at the context behind the last one it can nest.
TypeOK ==
    /\ Live \subseteq Ptr
    /\ \A s \in Live : /\ sym[s].name \in Name \cup {NoName} /\ sym[s].ns \in Namespace
                       /\ sym[s].ctx \in 0 .. NR_BLOCK + 1
                       /\ {sym[s].declared, sym[s].const} \subseteq BOOLEAN
    /\ curctx \in 0 .. NR_BLOCK + 1
    /\ tok.kind \in {"iden", "const", "punct"} /\ tok.sym \in Ptr \cup {NULL}
    /\ \A j \in DOMAIN open : open[j].kind \in {"dcl", "enum"} /\ open[j].sym \in Ptr
    /\ stopped \in {"running", "error", "assert", "cycle"}

\* s comes before t in the list
Before(list, s, t) == \E j, k \in DOMAIN list : j < k /\ list[j] = s /\ list[k] = t

(***************************************************************************)
(* What popctx() relies on ("sym is always the head of the collision       *)
(* list", symbol.c:171): every list holds live symbols only, head has the  *)
(* symbols of the inner contexts in front, and the collision lists are     *)
(* ordered as the symbols were allocated, whatever mixture of declarators, *)
(* tags and enumerators was parsed.  The assertion of unlinkhash() then    *)
(* never fails and no list becomes circular.                               *)
(***************************************************************************)
ListsOrdered ==
    /\ stopped \notin {"assert", "cycle"}
    /\ Range(head) \cup Range(labels) = Live /\ IsInjective(head) /\ IsInjective(labels)
    /\ \A j \in DOMAIN head :
          sym[head[j]].ctx <= IF j = 1 THEN curctx ELSE sym[head[j - 1]].ctx
    /\ \A h \in DOMAIN htab :
          /\ Range(htab[h]) \subseteq Range(IF h[1] = "lbl" THEN labels ELSE head)
          /\ \A j, k \in DOMAIN htab[h] :
                j < k => Before(IF h[1] = "lbl" THEN labels ELSE head, htab[h][j], htab[h][k])

Visible(ns, name) == {s \in Live : Linked(s) /\ sym[s].ns = ns /\ sym[s].name = name}

(***************************************************************************)
(* lookup() stops at the first match of a list that mixes names, contexts  *)
(* and namespaces: that is the declaration of the innermost scope.         *)
(***************************************************************************)
Innermost ==
    \A ns \in {"IDEN", "TAG"}, name \in Name :
        LET s == Find(htab, ns, name)
        IN  IF Visible(ns, name) = {} THEN s = NULL
            ELSE s \in Visible(ns, name) /\ \A t \in Visible(ns, name) \ {s} : sym[t].ctx < sym[s].ctx

(***************************************************************************)
(* The token the parser has not used yet refers to a symbol that exists,   *)
(* "since the parser is one token ahead" (symbol.c:155) also when the      *)
(* context it was read in is left.  A name means what it means now: the    *)
(* visible symbol, or a new one of the current context when it has no      *)
(* declaration.                                                            *)
(***************************************************************************)
TokenCurrent ==
    /\ tok.kind # "punct" => tok.sym \in Live
    /\ tok.kind = "iden" =>
          LET s == sym[tok.sym]
          IN  IF Find(htab, s.ns, s.name) = NULL THEN s.ctx = curctx
              ELSE tok.sym = Find(htab, s.ns, s.name)

\* The declarations of each context, for the abstract specification.
ScopeOf(l) ==
    {<<sym[s].ns, sym[s].name>> :
        s \in {u \in Live : Linked(u) /\ sym[u].ctx = l /\ sym[u].ns # "LABEL"}}
=============================================================================
