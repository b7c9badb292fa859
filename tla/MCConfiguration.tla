------------------------- MODULE MCConfiguration -------------------------
(* Configuration files for TLC, each the shape of a JSON text.             *)
EXTENDS Configuration

Prop(k, v) == [key |-> k, data |-> <<v>>, kids |-> <<>>]
Empty(k) == [key |-> k, data |-> <<>>, kids |-> <<>>]
Section(k, kids) == [key |-> k, data |-> <<>>, kids |-> kids]
Elem(v) == Prop(<<>>, v)
Root(kids) == Section(<<>>, kids)
Mixed(kids) == Root(<<Section(<<"a">>, kids)>>)

A == <<"a">>  B == <<"b">>  C == <<"c">>  D == <<"d">>  AB == <<"a", "b">>

JsonFiles == {
    \* "x"  {"a": {"": "x", "b": "y"}}  {"a": {"b": "x", "": "y", "c": {"d": "z"}}}
    Elem("x"), Mixed(<<Elem("x"), Prop(B, "y")>>),
    Mixed(<<Prop(B, "x"), Elem("y"), Section(C, <<Prop(D, "z")>>)>>),
    \* {}  {"a": ""}  {"a": "x"}  ["x", "y"]  ["", ""]
    Root(<<>>), Root(<<Empty(A)>>), Root(<<Prop(A, "x")>>),
    Root(<<Elem("x"), Elem("y")>>), Root(<<Empty(<<>>), Empty(<<>>)>>),
    \* {"a": {"b": "x", "c": "", "d": "y"}}
    Root(<<Section(A, <<Prop(B, "x"), Empty(C), Prop(D, "y")>>)>>),
    \* {"a": {"b": "x", "c": {"b": "y", "d": ["x", "y", "z"]}}}
    Root(<<Section(A, <<Prop(B, "x"),
        Section(C, <<Prop(B, "y"), Section(D, <<Elem("x"), Elem("y"), Elem("z")>>)>>)>>)>>),
    \* {"a.b": {"a.b": ["x"]}}  {"a": {"b": {"c": {"d": "z"}}}}
    Root(<<Section(AB, <<Section(AB, <<Elem("x")>>)>>)>>),
    Root(<<Section(A, <<Section(B, <<Section(C, <<Prop(D, "z")>>)>>)>>)>>),
    \* {"a": ["", "x", ""], ...}  a list after a list
    Root(<<Section(A, <<Section(B, <<Empty(<<>>), Elem("x"), Empty(<<>>)>>),
                        Section(C, <<Empty(<<>>), Empty(<<>>)>>)>>)>>),
    \* {"a": {"b": "x"}, "d": {"b": "y"}}  {"a": {"b": "x"}, "d": "y"}
    Root(<<Section(A, <<Prop(B, "x")>>), Section(D, <<Prop(B, "y")>>)>>),
    Root(<<Section(A, <<Prop(B, "x")>>), Prop(D, "y")>>),
    \* {"a": {"b": {"c": "x", "d": "y"}, "c": "z", "d": ["x", "y"], "b": "z"}}
    Root(<<Section(A, <<Section(B, <<Prop(C, "x"), Prop(D, "y")>>), Prop(C, "z"),
                        Section(D, <<Elem("x"), Elem("y")>>), Prop(B, "z")>>)>>),
    \* {"a": [{"b": "x"}, {"c": "y"}]}  {"a": ["x", {"b": "y"}]}  {"a": [["x", "y"], ["z"]]}
    Root(<<Section(A, <<Section(<<>>, <<Prop(B, "x")>>), Section(<<>>, <<Prop(C, "y")>>)>>)>>),
    Root(<<Section(A, <<Elem("x"), Section(<<>>, <<Prop(B, "y")>>)>>)>>),
    Root(<<Section(A, <<Section(<<>>, <<Elem("x"), Elem("y")>>), Section(<<>>, <<Elem("z")>>)>>)>>)}

\* Every file of at most two children to a node, where a child of the root's child is
\* "x" or an object or array of one or two "x".
Named(n, k) == [n EXCEPT !.key = k]
UpToTwo(S) == {<<n>> : n \in S} \cup {<<n, m>> : n, m \in S}
Objects(S) == {Root(<<Named(k[1], A)>> \o [i \in 1..(Len(k) - 1) |-> Named(k[2], B)]) : k \in UpToTwo(S)}
Arrays(S) == {Root(k) : k \in UpToTwo(S)}
Small == {Elem("x")} \cup Objects({Elem("x")}) \cup Arrays({Elem("x")})
SmallFiles == Objects(Small) \cup {Root(<<Named(n, C)>>) : n \in Objects(Small)}

AllFiles == JsonFiles \cup SmallFiles

Below(S) == UNION {ToSet(n.kids) : n \in S}
AllNodes ==
    LET d1 == Below(AllFiles)  d2 == Below(d1)  d3 == Below(d2)  d4 == Below(d3)
    IN  AllFiles \cup d1 \cup d2 \cup d3 \cup d4

TreeHeight[n \in AllNodes] ==
    IF n.kids = <<>> THEN 0 ELSE 1 + Max({TreeHeight[n.kids[i]] : i \in DOMAIN n.kids})

JsonKeys == {<<"a", "b">>, <<"a">>}
=============================================================================
