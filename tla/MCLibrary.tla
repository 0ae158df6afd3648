---- MODULE MCLibrary ----
EXTENDS Library, TLC

CONSTANTS s1, s2, e, m1, m2, S, E, M, a, b, c, j, jf

\* A show known by two keys, its episode, and a film whose file is replaced.
TitleOf == (s1 :> S) @@ (s2 :> S) @@ (e :> E) @@ (m1 :> M) @@ (m2 :> M)
StemOf == (s1 :> 1) @@ (s2 :> 2) @@ (e :> 3) @@ (m1 :> 4) @@ (m2 :> 4)
ParentOf == (S :> None) @@ (E :> S) @@ (M :> None)
ServerIs == (a :> Plex) @@ (b :> Plex) @@ (c :> Plex) @@ (j :> jf)
Holdable == (a :> {S, M}) @@ (b :> {S, M}) @@ (c :> {E}) @@ (j :> {E, M})

Fresh(rows, refs) ==
    [items |-> [i \in 1 .. MaxRows |-> IF i <= Len(rows) THEN rows[i] ELSE NoItem],
     refs |-> [n \in Natives |-> IF n \in DOMAIN refs THEN refs[n] ELSE 0],
     hung |-> [i \in 1 .. MaxRows |-> {}], later |-> {p \in (1 .. Len(rows)) \X (1 .. Len(rows)) : p[1] < p[2]},
     next |-> Len(rows) + 1, moved |-> {}, movedRefs |-> {}, audit |-> {}]
Row(k, p) == [key |-> k, parent |-> p]

\* A show with its episode; the same with the twin a migration left; a film.
Tables == {Fresh(<<Row(s1, 0), Row(e, 1)>>, (a :> 1) @@ (c :> 2)),
           Fresh(<<Row(s1, 0), Row(e, 1), Row(s2, 0)>>, (b :> 3) @@ (c :> 2)),
           Fresh(<<Row(m1, 0)>>, (a :> 1) @@ (j :> 1))}
====
