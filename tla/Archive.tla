------------------------------ MODULE Archive ------------------------------
(***************************************************************************)
(* What the archiver promises: an archive is a list of members, a command   *)
(* edits the list.  No temporaries, no position kept while reading: each    *)
(* operand stands for the member of its name, the second of two equal names *)
(* for the second such member.                                              *)
(***************************************************************************)
EXTENDS Integers, Sequences, FiniteSets, SequencesExt

\* The elements of s at the positions of I, in order.
Position(I, k) == CHOOSE i \in I : Cardinality({j \in I : j <= i}) = k
At(s, I) == [k \in 1..Cardinality(I) |-> s[Position(I, k)]]

\* Which of the equal names s[i] is: the first, the second...
Rank(s, i) == Cardinality({j \in 1..i : s[j] = s[i]})

NamesOf(members) == [i \in DOMAIN members |-> members[i].name]

\* The members and operands that stand for each other.
Pairs(members, args) ==
    LET name == NamesOf(members)
    IN {p \in (DOMAIN members) \X (DOMAIN args) :
           /\ name[p[1]] = args[p[2]]
           /\ Rank(name, p[1]) = Rank(args, p[2])}

Hits(members, args) == {p[1] : p \in Pairs(members, args)}
Used(members, args) == {p[2] : p \in Pairs(members, args)}
Partner(members, args, i) == CHOOSE j \in DOMAIN args : <<i, j>> \in Pairs(members, args)

\* Every operand stands for a member.
AllFound(members, args) == Used(members, args) = DOMAIN args

\* The members to be replaced; with u only by files that are newer.  files
\* gives the member each operand would be.
Stale(members, args, files, u) ==
    {i \in Hits(members, args) :
        ~u \/ files[Partner(members, args, i)].date > members[i].date}
Renewed(members, args, files, u) ==
    [i \in DOMAIN members |-> IF i \in Stale(members, args, files, u)
                              THEN files[Partner(members, args, i)] ELSE members[i]]

\* The first position of s whose member has the name pos and is in free.
Anchor(s, free, pos) ==
    LET at == {i \in free : s[i].name = pos}
    IN IF at = {} THEN 0 ELSE CHOOSE i \in at : \A j \in at : i <= j

\* ins placed next to position p of s: before it, behind it, or at the end.
Cut(s, p, b) == IF p = 0 THEN Len(s) ELSE IF b THEN p - 1 ELSE p
Beside(s, ins, p, b) ==
    SubSeq(s, 1, Cut(s, p, b)) \o ins \o SubSeq(s, Cut(s, p, b) + 1, Len(s))

\* The list after a command.
Edit(key, u, pos, b, members, args, files) ==
    LET hits == Hits(members, args)
        left == At(members, DOMAIN members \ hits)
    IN CASE key = "r" ->
               Beside(Renewed(members, args, files, u),
                      At(files, DOMAIN args \ Used(members, args)),
                      Anchor(members, DOMAIN members \ Stale(members, args, files, u), pos), b)
         [] key = "m" ->
               Beside(left, At(members, hits), Anchor(left, DOMAIN left, pos), b)
         [] key = "d" -> left
         [] key = "q" -> members \o files
         [] OTHER -> members

\* The members a command lists, prints or extracts.
Shown(members, args) ==
    IF args = <<>> THEN members ELSE At(members, Hits(members, args))

\* The directory after the members of shown are extracted over files: of two
\* equal names the last one stays.
Unpacked(shown, files) ==
    [p \in DOMAIN files |->
        LET at == {i \in DOMAIN shown : shown[i].name = p}
        IN IF at = {} THEN files[p]
           ELSE [date |-> shown[Max(at)].date, data |-> shown[Max(at)].data]]
=============================================================================
