---------------------------- MODULE ScopeLattice ----------------------------
(***************************************************************************)
(* Scope keys and their order (internal/core/scope.go): five axes that are *)
(* compared for equality, an unset axis matching anything, and a path      *)
(* glob.  A path is the sequence of its segments; a segment is a name or   *)
(* one of the wildcards of path.Match, of which "*" stands for one segment *)
(* and so does "**", except as the last segment of a glob.                 *)
(***************************************************************************)
EXTENDS Naturals, Sequences, FiniteSets

CONSTANTS
    Name,      \* values of the axes, and names of files and directories
    Before(_, _)  \* ScopeKey.String() <: a strict total order of the keys in use

Unset == ""
Wildcard == {"*", "**"}
LiteralAxis == {"org", "product", "team", "repo", "person"}
Axis == LiteralAxis \union {"path"}

ASSUME NamesAreLiteral == Name \intersect Wildcard = {}

ScopeKey ==
    [org : Name \union {Unset}, product : Name \union {Unset}, team : Name \union {Unset},
     repo : Name \union {Unset}, person : Name \union {Unset}, path : Seq(Name \union Wildcard)]

Global == [org |-> Unset, product |-> Unset, team |-> Unset, repo |-> Unset,
           person |-> Unset, path |-> << >>]

IsSet(k, a) == IF a = "path" THEN k.path # << >> ELSE k[a] # Unset

\* Validate: a path glob needs a repository.
Validate(k) == IsSet(k, "path") => IsSet(k, "repo")

Width(k) == Cardinality({a \in Axis : ~IsSet(k, a)})

HasPrefix(p, dir) == Len(dir) <= Len(p) /\ \A i \in 1..Len(dir) : p[i] = dir[i]

\* path.Match, segment by segment.
PathMatch(g, p) ==
    /\ Len(g) = Len(p)
    /\ \A i \in 1..Len(g) : g[i] \in Wildcard \/ g[i] = p[i]

\* A glob "dir/**": everything under dir, and dir itself.
IsTree(g) == Len(g) > 1 /\ g[Len(g)] = "**"
Dir(g) == SubSeq(g, 1, Len(g) - 1)

GlobMatch(g, p) ==
    IF IsTree(g) THEN HasPrefix(p, Dir(g)) ELSE g = <<"**">> \/ PathMatch(g, p)

\* Contains: every axis set on k is matched by t, whose glob is taken for a path.
Contains(k, t) ==
    /\ \A a \in LiteralAxis : k[a] = Unset \/ k[a] = t[a]
    /\ \/ k.path = << >>
       \/ t.path # << >> /\ (k.path = t.path \/ GlobMatch(k.path, t.path))

\* Resolve for constraints: wide before narrow, the canonical string on a tie.
Precedes(j, k) == Width(j) > Width(k) \/ (Width(j) = Width(k) /\ Before(j, k))
Applicable(keys, t) == {k \in keys : Contains(k, t)}
Narrowest(keys, t) ==
    CHOOSE k \in Applicable(keys, t) : \A j \in Applicable(keys, t) \ {k} : Precedes(j, k)

\* Mutant of EffectiveCap: the narrowest cap counts, as for levels.
NarrowestCap(declared, t, top) ==
    IF Applicable(DOMAIN declared, t) = {} THEN top
    ELSE declared[Narrowest(DOMAIN declared, t)].cap

\* ScopeIndex.Effective: the smallest cap of the scopes that apply, and the
\* level of the narrowest of them, cut to that cap.
EffectiveCap(declared, t, top) ==
    LET caps == {declared[k].cap : k \in Applicable(DOMAIN declared, t)} \union {top} IN
    CHOOSE c \in caps : \A d \in caps : c <= d
EffectiveLevel(declared, t, top) ==
    LET cap == EffectiveCap(declared, t, top)
        level == IF Applicable(DOMAIN declared, t) = {} THEN 0
                 ELSE declared[Narrowest(DOMAIN declared, t)].level
    IN IF level > cap THEN cap ELSE level

-----------------------------------------------------------------------------
\* The reference: the files a glob is written for ("**" at its end stands for
\* any number of segments), and the scopes that speak of all files of another.
Denotes(g, f) ==
    IF g[Len(g)] = "**"
    THEN Len(f) >= Len(g) - 1 /\ PathMatch(Dir(g), SubSeq(f, 1, Len(g) - 1))
    ELSE PathMatch(g, f)
Covers(k, t, files) ==
    /\ \A a \in LiteralAxis : k[a] = Unset \/ k[a] = t[a]
    /\ \/ k.path = << >>
       \/ t.path # << >> /\ \A f \in files : Denotes(t.path, f) => Denotes(k.path, f)
=============================================================================
