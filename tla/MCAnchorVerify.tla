--------------------------- MODULE MCAnchorVerify ---------------------------
(* Instance of AnchorVerify for TLC: two TypeScript files that may hold the *)
(* same symbol, and a file without a parser.                                *)
EXTENDS AnchorVerify, TLC

Code(sig, body) == [sig |-> [sig |-> sig], body |-> [body |-> body]]
F(code, text) == [syms |-> [s \in Symbol |-> code], text |-> text]
S1 == F(Code("s1", "b1"), "t1")
MCFile == [p \in Path |-> CASE p = "p.ts" -> {S1, F(Code("s1", "b1"), "t2"), F(Code("s1", "b2"), "t1"),
                                              F(Code("s2", "b1"), "t1")}
                            [] p = "q.ts" -> {S1}
                            [] p = "x.py" -> {S1}]
MCStart == {[p \in Path |-> IF p = "q.ts" THEN Missing ELSE S1]}
MCBound == {A("p.ts", Whole), A("p.ts", "f"), A("x.py", "f")}
Symmetry == Permutations(Proc)
MCOrder == <<A("p.ts", Whole), A("p.ts", "f")>>
=============================================================================
