-------------------------------- MODULE MCAr --------------------------------
(***************************************************************************)
(* Ar on small archives, compared with Archive.                             *)
(***************************************************************************)
EXTENDS Ar

CONSTANT MaxMembers   \* bound on the members of the first archive

MCPaths == {"a", "b", "c", "x/a", "n", "a b"}
MCcanonical(p) == IF p = "x/a" THEN "a" ELSE p
MCNames == MCPaths
MCContents == MCPaths \cup {"o1", "o2", "o3", "part"}
MCValid == MCPaths \ {"a b"}

\* Archives with equal names too, as q makes them; no archive, and a file
\* that is not one.
MCArchives ==
    {<<Magic>> \o [i \in DOMAIN s |-> [kind |-> "member", name |-> s[i],
                                       date |-> 2, data |-> <<"o1", "o2", "o3">>[i]]] :
        s \in UNION {[1..k -> {"a", "b", "c"}] : k \in 0..MaxMembers}}
    \cup {NoFile, <<Stub>>}

\* a and n are newer than the members, b is older, x/a as old; c is missing.
MCDirectories ==
    {[p \in MCPaths |->
        CASE p \in {"a", "n"} -> [date |-> 3, data |-> p]
          [] p = "b" -> [date |-> 1, data |-> p]
          [] p = "x/a" -> [date |-> 2, data |-> p]
          [] OTHER -> NoFile]}

Operands == {<<>>, <<"a">>, <<"n", "b">>, <<"b", "a">>, <<"a", "x/a">>,
             <<"n", "c">>, <<"x/a", "n">>, <<"a b">>}

MCCommands ==
    {c \in [key : {"r", "m", "d", "t", "p", "x", "q"}, u : BOOLEAN,
            pos : {NULL, "a", "c"}, b : BOOLEAN, l : BOOLEAN, argv : Operands] :
        /\ c.pos # NULL => c.key \in {"m", "r"}
        /\ c.pos = NULL => ~c.b
        /\ c.u => c.key = "r"
        /\ c.l <=> (c.key = "d" \/ c.pos # NULL)}

=============================================================================
