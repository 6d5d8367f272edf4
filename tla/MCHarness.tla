------------------------------ MODULE MCHarness -----------------------------
(* Instance of Harness for TLC: a repository with files at two depths, and *)
(* scopes from the global one down to a single file.                       *)
EXTENDS Harness, TLC

S(path) == [Global EXCEPT !.repo = "r", !.path = path]

MCKey == {Global, S(<< >>), S(<<"**">>), S(<<"*">>), S(<<"a", "**">>), S(<<"a", "x", "b">>)}
MCCapped == {Global, S(<<"a", "**">>)}
MCFile == {<<"b">>, <<"a", "x", "b">>}
MCPath == MCFile \union {<<"a">>, <<"x">>, <<"a", "b">>, <<"b", "x">>, <<"a", "x">>}

\* The canonical strings, in their order: an unset axis sorts last.
Rank(k) == CASE k.path = <<"**">> -> 1 [] k.path = <<"*">> -> 2 [] k.path = <<"a", "**">> -> 3
             [] k.path = <<"a", "x", "b">> -> 4 [] OTHER -> 5
MCBefore(j, k) == Rank(j) < Rank(k)

\* A file and a symbol in it.
Symbol == [path |-> <<"a", "x", "b">>, symbol |-> "x"]
MCAnchor == {FileAnchor(<<"a", "x", "b">>), Symbol}

D(of, path, level, deny, anchors, authored) ==
    [cmd |-> "Draft", kind |-> of, scope |-> S(path), level |-> level, deny |-> deny,
     anchors |-> anchors, authored |-> authored, origin |-> FALSE, wellFormed |-> TRUE]
MCDraft == {D("autonomy", <<"a", "**">>, 1, TRUE, {}, TRUE),
            D("autonomy", <<"*">>, 0, TRUE, {Symbol}, TRUE),
            D("rule", <<"a", "**">>, 0, TRUE, {}, TRUE), D("rule", << >>, 0, FALSE, {}, FALSE)}
Symmetry == Permutations(Proc)
=============================================================================
