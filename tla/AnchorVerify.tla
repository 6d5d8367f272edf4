---------------------------- MODULE AnchorVerify ----------------------------
(***************************************************************************)
(* Anchors and their verification: the Anchor aggregate                    *)
(* (internal/core/realization/anchor.go), the resolver and the verifier    *)
(* (internal/app/anchors.go), the anchors a commit touches                 *)
(* (internal/app/derive.go) and the detection of moves                     *)
(* (internal/core/realization/syntax.go), run by short-lived processes     *)
(* (anchor add, verify, and change derive, which the post-commit hook runs: *)
(* it opens the Change of a commit, then verifies) against a working tree  *)
(* that the user edits and commits meanwhile.                              *)
(*                                                                         *)
(* A file is what its symbols are, each a signature and a body, and the    *)
(* rest of its text; a hash is what it is taken of.  A process rebuilds    *)
(* the index from the ledger when it starts, so the index is one variable; *)
(* one command through the pipeline is one step.  The resolver's cache is  *)
(* left out: it is checked against the time and the size of the file.      *)
(***************************************************************************)
EXTENDS Naturals, Sequences, FiniteSets

CONSTANTS
    Path, Symbol,
    Parsed,     \* the paths whose language has a parser
    File,       \* [path -> contents it may have: [syms : [Symbol -> code or Gone], text : ...]]
    Start,      \* trees to start from
    Missing,    \* no file
    Gone,       \* no symbol
    NoHash,     \* the zero Hash3
    Bound,      \* anchors that a constraint in force is bound to
    Covered,    \* paths in the scope of a constraint in force without anchors
    Order,      \* the anchors that are recorded, in the order of their strings
    Proc,
    MaxEdits,   \* bound: edits of the working tree
    MaxCommits, \* bound: commits
    MaxRuns     \* bound: processes started

Whole == "file"
AnchorName == [path : Path, sym : Symbol \union {Whole}]
Trees == {t \in [Path -> (UNION {File[p] : p \in Path}) \union {Missing}] :
             \A p \in Path : t[p] \in File[p] \union {Missing}}

ASSUME AnchorConstants ==
    /\ Parsed \subseteq Path /\ Whole \notin Symbol
    /\ {MaxEdits, MaxCommits, MaxRuns} \subseteq Nat
    /\ Order \in Seq(AnchorName) /\ Bound \subseteq AnchorName
    /\ Start \subseteq Trees

VARIABLES
    tree,       \* the working tree: [path -> file]
    base, prev, \* the trees of HEAD and of its parent
    head,       \* HEAD, a number
    agg,        \* [anchor -> the Anchor aggregate]
    index,      \* AnchorIndex: [anchor -> AnchorSummary]
    keys,       \* idempotency keys in the ledger
    changes,    \* the change records, in order
    run,        \* [process -> its locals]
    accepted,   \* history: [anchor -> hash of its last AnchorRecorded]
    settled,    \* history: runs that completed with nothing written or edited since
    observed,   \* history: what verifications observed, <<anchor, ref, hash>>
    edits, runs \* edits, and processes started, so far

vars == <<tree, base, prev, head, agg, index, keys, changes, run, accepted, settled, observed, edits, runs>>

Anchor == {Order[i] : i \in 1..Len(Order)}
A(p, s) == [path |-> p, sym |-> s]
NoAnchor == A("none", "none")
NewAnchor == [state |-> "none", hash |-> NoHash, movedTo |-> NoAnchor]

-----------------------------------------------------------------------------
(* Hashes *)

NoHashes == [a \in {} |-> NoHash]
Hash3(sig, body, file) == [sig |-> sig, body |-> body, file |-> file]

\* Hash3.Cmp: the most significant layer that differs.
Cmp(a, b) == IF a.sig # b.sig THEN "signature"
             ELSE IF a.body # b.body THEN "body"
             ELSE IF a.file # b.file THEN "file" ELSE "none"

Layer(file, layer) == [s \in Symbol |-> IF file.syms[s] = Gone THEN Gone ELSE file.syms[s][layer]]

\* Resolver.Resolve: NoHash where the anchor does not exist.  Without a parser
\* every layer is the file; a file anchor is hashed by the surface of its symbols.
Resolve(t, a) ==
    LET file == t[a.path] IN
    IF file = Missing THEN NoHash
    ELSE IF a.path \notin Parsed THEN Hash3(file, file, file)
    ELSE IF a.sym = Whole THEN Hash3(Layer(file, "sig"), Layer(file, "body"), file)
    ELSE IF file.syms[a.sym] = Gone THEN NoHash
    ELSE Hash3(file.syms[a.sym].sig, file.syms[a.sym].body, file)

\* What is hashed is told apart from the zero Hash3, and the signature of a symbol
\* from the whole of a file without a parser.
ASSUME HashesAreTold ==
    /\ \A p \in Path : \A f \in File[p] :
         /\ p \notin Parsed => Hash3(f, f, f) # NoHash
         /\ p \in Parsed =>
              /\ Hash3(Layer(f, "sig"), Layer(f, "body"), f) # NoHash
              /\ \A s \in Symbol : f.syms[s] # Gone => Hash3(f.syms[s].sig, f.syms[s].body, f) # NoHash
    /\ \A p \in Path \ Parsed, q \in Parsed : \A f \in File[p], g \in File[q], s \in Symbol :
         g.syms[s] # Gone => g.syms[s].sig # f

\* Resolver.Snapshot: every symbol of the parsed files.
Snapshot(t, files) ==
    LET present == {a \in [path : files \intersect Parsed, sym : Symbol] : Resolve(t, a) # NoHash}
    IN [a \in present |-> Resolve(t, a)]

\* Mutant of DetectMoves: an anchor that is still there may move as well.
DetectMovesAnyway(before, after) ==
    LET From(sig) == {a \in DOMAIN before : before[a].sig = sig}
        To(sig)   == {a \in DOMAIN after \ DOMAIN before : after[a].sig = sig}
    IN {m \in [from : DOMAIN before, to : DOMAIN after] :
          From(before[m.from].sig) = {m.from} /\ To(before[m.from].sig) = {m.to}}

\* DetectMoves: one anchor lost a signature that one other anchor has gained.
DetectMoves(before, after) ==
    LET From(sig) == {a \in DOMAIN before \ DOMAIN after : before[a].sig = sig}
        To(sig)   == {a \in DOMAIN after \ DOMAIN before : after[a].sig = sig}
    IN {m \in [from : DOMAIN before, to : DOMAIN after] :
          From(before[m.from].sig) = {m.from} /\ To(before[m.from].sig) = {m.to}}

-----------------------------------------------------------------------------
(* The Anchor aggregate: a decision is the sequence of its events, or Refused. *)

Refused == <<[kind |-> "Refused"]>>

Recorded(h) == [kind |-> "Recorded", hash |-> h]
Verified(h) == [kind |-> "Verified", hash |-> h]
Staled(s)   == [kind |-> "Staled", state |-> s]
Moved(to)   == [kind |-> "Moved", to |-> to]

RecordDecide(a, h) ==
    IF a.state \notin {"none", "unrealized"} /\ a.hash = h THEN << >> ELSE <<Recorded(h)>>

\* Mutant of VerifyDecide: a changed body becomes the baseline.
VerifyRebaselines(a, h) ==
    CASE a.state = "none" -> Refused
      [] a.state # "none" /\ h = NoHash -> <<Staled("unrealized")>>
      [] a.state # "none" /\ h # NoHash ->
           IF Cmp(a.hash, h) = "signature" THEN <<Staled("stale")>> ELSE <<Verified(h)>>

\* Mutant of VerifyDecide: an anchor that is stale is not looked at again.
VerifySkipsStale(a, h) ==
    CASE a.state = "none" -> Refused
      [] a.state # "none" /\ h = NoHash -> IF a.state = "unrealized" THEN << >> ELSE <<Staled("unrealized")>>
      [] a.state # "none" /\ h # NoHash ->
           CASE Cmp(a.hash, h) \in {"none", "file"} -> IF a.state = "stale" THEN << >> ELSE <<Verified(h)>>
             [] Cmp(a.hash, h) = "body"             -> IF a.state = "stale" THEN << >> ELSE <<Staled("review")>>
             [] Cmp(a.hash, h) = "signature"        -> <<Staled("stale")>>

VerifyDecide(a, h) ==
    CASE a.state = "none" -> Refused
      [] a.state # "none" /\ h = NoHash -> IF a.state = "unrealized" THEN << >> ELSE <<Staled("unrealized")>>
      [] a.state # "none" /\ h # NoHash ->
           CASE Cmp(a.hash, h) \in {"none", "file"} -> <<Verified(h)>>
             [] Cmp(a.hash, h) = "body"             -> IF a.state = "stale" THEN << >> ELSE <<Staled("review")>>
             [] Cmp(a.hash, h) = "signature"        -> <<Staled("stale")>>

MoveDecide(a, from, to, h) ==
    IF a.state = "none" \/ to = from \/ h.sig # a.hash.sig THEN Refused ELSE <<Moved(to)>>

Apply(a, e) ==
    CASE e.kind = "Recorded" -> [NewAnchor EXCEPT !.hash = e.hash, !.state = "recorded"]
      [] e.kind = "Verified" -> [a EXCEPT !.hash = e.hash, !.state = "verified"]
      [] e.kind = "Staled"   -> [a EXCEPT !.state = e.state]
      [] e.kind = "Moved"    -> [a EXCEPT !.movedTo = e.to]

\* AnchorIndex.Handle: written apart from Apply.
IndexHandle(s, e) ==
    CASE e.kind = "Recorded" -> [NewAnchor EXCEPT !.hash = e.hash, !.state = "recorded"]
      [] e.kind = "Verified" -> [s EXCEPT !.hash = e.hash, !.state = "verified"]
      [] e.kind = "Staled"   -> [s EXCEPT !.state = e.state]
      [] e.kind = "Moved"    -> [s EXCEPT !.movedTo = e.to]

-----------------------------------------------------------------------------
(* git *)

\* The anchor appeared, disappeared, or changed in more than the rest of its file.
ChangedBy(a, t, u) == LET b == Resolve(t, a) c == Resolve(u, a) IN
    \/ (b = NoHash) # (c = NoHash)
    \/ b # NoHash /\ c # NoHash /\ Cmp(b, c) \in {"signature", "body"}

Differ(t, u) == {p \in Path : t[p] # u[p]}
\* The old paths of the files that were renamed from t to u.
RenamedFrom(t, u) ==
    {p \in Path : t[p] # Missing /\ u[p] = Missing /\ \E q \in Path : t[q] = Missing /\ u[q] = t[p]}

\* Repo.ChangedIn: with -M a renamed file is listed by its new path only.
ChangedIn == Differ(prev, base) \ RenamedFrom(prev, base)
\* Repo.ChangedFiles: a rename is one to git once it is staged.
ChangedFiles == {Differ(base, tree), Differ(base, tree) \ RenamedFrom(base, tree)}

\* Deriver.changedAnchors for one path of ChangedIn; the content before is that
\* of the old path of a rename, under the anchors of the new one.
OldPath(p) ==
    IF \E q \in RenamedFrom(prev, base) : prev[p] = Missing /\ base[p] = prev[q]
    THEN CHOOSE q \in RenamedFrom(prev, base) : base[p] = prev[q] ELSE p

\* Mutant of ChangedAnchors: only what is there after the commit.
ChangedAnchorsThere(p) ==
    LET Was(s) == Resolve(prev, A(p, s))
        Now(s) == Resolve(base, A(p, s))
    IN IF p \notin Parsed THEN {A(p, Whole)}
       ELSE {A(p, s) : s \in {x \in Symbol : Now(x) # NoHash /\ Was(x) # Now(x)}}

ChangedAnchors(p) ==
    LET before  == [prev EXCEPT ![p] = prev[OldPath(p)]]
        changed == {s \in Symbol : ChangedBy(A(p, s), before, base)}
        whole   == p \notin Parsed \/ (changed = {} /\ Missing \in {before[p], base[p]})
    IN IF whole THEN {A(p, Whole)} ELSE {A(p, s) : s \in changed}

\* Derive: the anchors of the commit, and what is bound to them (BoundTo: to the
\* anchor or to its file).
Touched == UNION {ChangedAnchors(p) : p \in ChangedIn}
Reached(a) == \E t \in Touched : a = t \/ a = A(t.path, Whole)
Impact == (\E a \in Bound : Reached(a)) \/ ChangedIn \intersect Covered # {}

-----------------------------------------------------------------------------
(* Processes *)

Idle == [pc |-> "idle", mode |-> "none", ref |-> 0, files |-> {}, todo |-> {}, at |-> NoAnchor,
         seen |-> NoHash, known |-> 0, impact |-> FALSE, change |-> 0, before |-> NoHashes, moves |-> {},
         checked |-> {}, revisited |-> {}, calm |-> FALSE, again |-> FALSE]

Init ==
    /\ tree \in Start /\ base = tree /\ prev = tree /\ head = 0
    /\ agg = [a \in Anchor |-> NewAnchor] /\ index = agg /\ keys = {} /\ changes = << >>
    /\ run = [p \in Proc |-> Idle]
    /\ accepted = [a \in Anchor |-> NoHash] /\ settled = {} /\ observed = {} /\ edits = 0 /\ runs = 0

\* The other processes after a step that they might notice.
Disturbed(mine) == [q \in Proc |-> IF q \in mine THEN run[q]
                                   ELSE IF run[q].pc = "done" THEN Idle ELSE [run[q] EXCEPT !.calm = FALSE]]
Mode(r) == <<r.mode, r.ref, r.files>>

\* The user writes, deletes or renames a file.
Edit(p, file) ==
    /\ edits < MaxEdits
    /\ tree[p] # file /\ file \in File[p] \union {Missing}
    /\ tree' = [tree EXCEPT ![p] = file]
    /\ edits' = edits + 1
    /\ run' = Disturbed({}) /\ settled' = {}
    /\ UNCHANGED <<base, prev, head, agg, index, keys, changes, accepted, observed, runs>>

Rename(p, q) ==
    /\ edits < MaxEdits
    /\ tree[p] # Missing /\ tree[q] = Missing /\ tree[p] \in File[q]
    /\ tree' = [tree EXCEPT ![p] = Missing, ![q] = tree[p]]
    /\ edits' = edits + 1
    /\ run' = Disturbed({}) /\ settled' = {}
    /\ UNCHANGED <<base, prev, head, agg, index, keys, changes, accepted, observed, runs>>

\* The user commits some of the paths.
Commit(paths) ==
    /\ head < MaxCommits
    /\ paths # {} /\ paths \subseteq Differ(base, tree)
    /\ prev' = base
    /\ base' = [p \in Path |-> IF p \in paths THEN tree[p] ELSE base[p]]
    /\ head' = head + 1
    /\ run' = Disturbed({}) /\ settled' = {}
    /\ UNCHANGED <<tree, agg, index, keys, changes, accepted, observed, edits, runs>>

\* anchor add: the hash is taken, then recorded.
StartRecord(p, a) ==
    /\ run[p].pc \in {"idle", "done"} /\ runs < MaxRuns /\ runs' = runs + 1
    /\ Resolve(tree, a) # NoHash
    /\ run' = [Disturbed({p}) EXCEPT ![p] = [Idle EXCEPT !.pc = "record", !.ref = head, !.at = a,
                                                         !.seen = Resolve(tree, a)]]
    /\ UNCHANGED <<tree, base, prev, head, agg, index, keys, changes, accepted, settled, observed, edits>>

\* verify, verify --changed and change derive.  A run over all anchors detects no moves.
StartVerify(p, mode, files) ==
    LET listed == {a \in Anchor : a.path \in files /\ index[a].state # "none"}
    IN /\ run[p].pc \in {"idle", "done"} /\ runs < MaxRuns /\ runs' = runs + 1
       /\ \/ mode = "all" /\ files = Path
          \/ mode = "changed" /\ files \in ChangedFiles
          \/ mode = "commit" /\ files = ChangedIn /\ head > 0
       /\ run' = [Disturbed({p}) EXCEPT ![p] =
            [Idle EXCEPT !.pc = IF mode = "commit" THEN "lookup" ELSE "observe",
                         !.mode = mode, !.ref = head, !.files = files, !.calm = TRUE,
                         !.todo = listed,
                         !.before = [a \in {b \in listed : b.sym # Whole} |-> index[a].hash],
                         !.known = Len(changes), !.impact = mode = "commit" /\ Impact,
                         !.again = <<mode, head, files>> \in settled]]
       /\ UNCHANGED <<tree, base, prev, head, agg, index, keys, changes, accepted, settled, observed, edits>>

Opened(ref) == {n \in 1..Len(changes) : changes[n].kind = "ChangeOpened" /\ changes[n].ref = ref}

\* Mutant of Lookup: the commit is not looked up.
LookupIgnored(p) ==
    /\ run[p].pc = "lookup"
    /\ run' = [run EXCEPT ![p].pc = "open"]
    /\ UNCHANGED <<tree, base, prev, head, agg, index, keys, changes, accepted, settled, observed, edits, runs>>

\* Deriver.Derive: a commit whose Change the process knew when it started is
\* not derived again.
Lookup(p) ==
    /\ run[p].pc = "lookup"
    /\ run' = [run EXCEPT ![p].pc = IF Opened(run[p].ref) \intersect 1..run[p].known = {} THEN "open" ELSE "observe"]
    /\ UNCHANGED <<tree, base, prev, head, agg, index, keys, changes, accepted, settled, observed, edits, runs>>

ChangeRecord(kind, p, id) ==
    [kind |-> kind, change |-> id, ref |-> run[p].ref, impact |-> run[p].impact, known |-> run[p].known]

\* The Change goes to the stream of a new id, so the key "derive:<sha>" meets no
\* earlier use; without impact it settles at once.
OpenChange(p) ==
    /\ run[p].pc = "open"
    /\ changes' = Append(changes, ChangeRecord("ChangeOpened", p, Len(changes) + 1))
    /\ run' = [run EXCEPT ![p].pc = IF run[p].impact THEN "observe" ELSE "settle",
                          ![p].change = IF run[p].impact THEN 0 ELSE Len(changes) + 1]
    /\ UNCHANGED <<tree, base, prev, head, agg, index, keys, accepted, settled, observed, edits, runs>>

Settle(p) ==
    /\ run[p].pc = "settle"
    /\ changes' = Append(changes, ChangeRecord("Settled", p, run[p].change))
    /\ run' = [run EXCEPT ![p].pc = "observe", ![p].change = 0]
    /\ UNCHANGED <<tree, base, prev, head, agg, index, keys, accepted, settled, observed, edits, runs>>

\* The next anchor of the run, in the order of their strings.
Observe(p) ==
    /\ run[p].pc = "observe"
    /\ \E i \in 1..Len(Order) :
         /\ Order[i] \in run[p].todo /\ \A j \in 1..(i - 1) : Order[j] \notin run[p].todo
         /\ run' = [run EXCEPT ![p].pc = "verify", ![p].at = Order[i], ![p].seen = Resolve(tree, Order[i])]
    /\ UNCHANGED <<tree, base, prev, head, agg, index, keys, changes, accepted, settled, observed, edits, runs>>

\* What moved, as a run sees it: the old anchor, the new one and its hash.
Proposed(r) ==
    LET after == Snapshot(tree, r.files)
    IN IF r.mode = "all" \/ DOMAIN r.before = {} THEN {}
       ELSE {<<m.from, m.to, after[m.to]>> : m \in DetectMoves(r.before, after)}

\* The detection of moves, once every anchor is verified.
Detect(p) ==
    LET moves == Proposed(run[p])
    IN /\ run[p].pc = "observe" /\ run[p].todo = {}
       /\ run' = [run EXCEPT ![p].pc = IF moves = {} THEN "done" ELSE "move", ![p].moves = moves,
                             ![p].before = NoHashes]
       /\ settled' = IF run[p].calm /\ moves = {} THEN settled \union {Mode(run[p])} ELSE settled
       /\ UNCHANGED <<tree, base, prev, head, agg, index, keys, changes, accepted, observed, edits, runs>>

\* Mutant of Key: every call has a key of its own.
KeyOfCall(op, a, ref, obs) == <<op, a, ref, obs, Cardinality(keys)>>

\* idemFor, with the ref and what was observed.
Key(op, a, ref, obs) == <<op, a, ref, obs>>

\* Pipeline.Handle of one anchor command: a key that is in the ledger replays; a
\* decision without events writes nothing, its key included.
Handle(p, a, key, evs, next) ==
    LET replay == key \in keys
        writes == ~replay /\ evs # << >> /\ evs # Refused
    IN /\ agg'   = IF writes THEN [agg EXCEPT ![a] = Apply(@, evs[1])] ELSE agg
       /\ index' = IF writes THEN [index EXCEPT ![a] = IndexHandle(@, evs[1])] ELSE index
       /\ keys'  = IF writes THEN keys \union {key} ELSE keys
       /\ accepted' = IF writes /\ evs[1].kind = "Recorded" THEN [accepted EXCEPT ![a] = evs[1].hash] ELSE accepted
       /\ run' = [(IF writes THEN Disturbed({p}) ELSE run) EXCEPT ![p] =
                    IF evs = Refused /\ ~replay THEN Idle
                    ELSE next]
       /\ settled' = CASE writes -> IF next.pc = "done" /\ next.calm THEN {Mode(next)} ELSE {}
                       [] ~writes -> IF next.pc = "done" /\ next.calm /\ (replay \/ evs # Refused)
                                     THEN settled \union {Mode(next)} ELSE settled

Record(p) ==
    /\ run[p].pc = "record"
    /\ LET a == run[p].at IN
       Handle(p, a, Key("record", a, run[p].ref, run[p].seen), RecordDecide(agg[a], run[p].seen), Idle)
    /\ UNCHANGED <<tree, base, prev, head, changes, observed, edits, runs>>

Verify(p) ==
    /\ run[p].pc = "verify"
    /\ LET a == run[p].at
           o == <<a, run[p].ref, run[p].seen>>
       IN /\ Handle(p, a, Key("verify", a, run[p].ref, run[p].seen), VerifyDecide(agg[a], run[p].seen),
                    [run[p] EXCEPT !.pc = "observe", !.todo = @ \ {a}, !.at = NoAnchor,
                                   !.seen = NoHash, !.checked = @ \union {a},
                                   !.revisited = IF o \in observed THEN @ \union {a} ELSE @])
          /\ observed' = observed \union {o}
    /\ UNCHANGED <<tree, base, prev, head, changes, edits, runs>>

\* The moves, in the order of their anchors; the hash is that of the snapshot.
Move(p) ==
    /\ run[p].pc = "move"
    /\ \E m \in run[p].moves :
         LET rest == run[p].moves \ {m} IN
         Handle(p, m[1], Key("move", m[1], run[p].ref, m[2]),
                MoveDecide(agg[m[1]], m[1], m[2], m[3]),
                [run[p] EXCEPT !.pc = IF rest = {} THEN "done" ELSE "move", !.moves = rest])
    /\ UNCHANGED <<tree, base, prev, head, changes, observed, edits, runs>>

\* The process fails (a file that does not parse, a conflict) or is killed.
Stop(p) ==
    /\ run[p].pc \notin {"idle", "done"}
    /\ run' = [run EXCEPT ![p] = Idle]
    /\ UNCHANGED <<tree, base, prev, head, agg, index, keys, changes, accepted, settled, observed, edits, runs>>

Next ==
    \/ \E p \in Path, f \in (UNION {File[q] : q \in Path}) \union {Missing} : Edit(p, f)
    \/ \E p, q \in Path : Rename(p, q)
    \/ \E paths \in SUBSET Path : Commit(paths)
    \/ \E p \in Proc : \/ \E a \in Anchor : StartRecord(p, a)
                       \/ \E mode \in {"all", "changed", "commit"}, files \in SUBSET Path :
                             StartVerify(p, mode, files)
                       \/ Lookup(p) \/ OpenChange(p) \/ Settle(p)
                       \/ Observe(p) \/ Detect(p) \/ Record(p) \/ Verify(p) \/ Move(p) \/ Stop(p)

Spec == Init /\ [][Next]_vars

-----------------------------------------------------------------------------
(* Properties *)

States == {"none", "recorded", "verified", "review", "stale", "unrealized"}

Steps == {"idle", "lookup", "open", "settle", "observe", "record", "verify", "move", "done"}
Modes == {"none", "all", "changed", "commit"}
HashOf(a) == {Resolve(t, a) : t \in Trees}
Hash == (UNION {HashOf(a) : a \in AnchorName}) \union {NoHash}
Aggregate == [state : States, hash : Hash, movedTo : AnchorName \union {NoAnchor}]
Hashes == UNION {[S -> Hash] : S \in SUBSET Anchor}
Run == [pc : Steps, mode : Modes, ref : Nat, files : SUBSET Path, todo : SUBSET Anchor,
        at : Anchor \union {NoAnchor}, seen : Hash, known : Nat, impact : BOOLEAN, change : Nat,
        before : Hashes, moves : SUBSET (Anchor \X AnchorName \X Hash),
        checked : SUBSET Anchor, revisited : SUBSET Anchor, calm : BOOLEAN, again : BOOLEAN]
ChangeEvent == [kind : {"ChangeOpened", "Settled"}, change : Nat, ref : Nat, impact : BOOLEAN, known : Nat]

\* Every variable holds a value of its kind; an anchor has a baseline once it was
\* recorded; and the index of a process that starts is the aggregate, though the two
\* fold the events apart (AnchorIndex.Handle, Anchor.Apply).
TypeOK ==
    /\ {tree, base, prev} \subseteq Trees
    /\ head \in 0..MaxCommits /\ edits \in 0..MaxEdits /\ runs \in 0..MaxRuns
    /\ agg \in [Anchor -> Aggregate] /\ accepted \in [Anchor -> Hash]
    /\ \A a \in Anchor : /\ agg[a].hash \in HashOf(a) \union {NoHash}
                         /\ (agg[a].hash = NoHash) <=> (agg[a].state = "none")
    /\ index = agg
    /\ changes \in Seq(ChangeEvent)
    /\ run \in [Proc -> Run]

\* What a person accepted stays the baseline: whatever verifications observe, and
\* in which order, only a recording moves the signature and the body an anchor is
\* compared with (the file layer may drift without consequence, Anchor.Apply).
BaselineIsAccepted ==
    \A a \in Anchor : agg[a].state # "none" => Cmp(accepted[a], agg[a].hash) \in {"none", "file"}

\* What an anchor is in the working tree, compared with what was accepted.
Exact(a) ==
    LET now == Resolve(tree, a) IN
    CASE now = NoHash -> {"unrealized"}
      [] now # NoHash -> CASE Cmp(accepted[a], now) = "signature" -> {"stale"}
                           [] Cmp(accepted[a], now) = "body"      -> {"review", "stale"}
                           [] OTHER                               -> {"verified"}

\* A verification that nobody disturbed leaves every anchor that it saw in a form
\* new to the commit in the state its code is in: gone is unrealized, a changed
\* signature is stale, a changed body is under review unless it was stale already,
\* and what matches is verified again (Anchor.verify; verify's own description).
CalmVerifyIsExact ==
    \A p \in Proc : run[p].pc = "done" /\ run[p].calm =>
        \A a \in run[p].checked \ run[p].revisited : index[a].state \in Exact(a)

\* "Idempotent per (ref, anchor), so a re-run at the same
\* commit writes nothing" (Verifier): a run that repeats one with nothing
\* edited, committed or recorded since leaves the ledger alone, the Change of
\* its commit included.
RerunWritesNothing ==
    [][\A p \in Proc : run[p].again /\ run[p].calm /\ run'[p] # run[p] /\ run'[p].calm
          => keys' = keys /\ changes' = changes]_vars

\* A move leads from an anchor that is gone to the one symbol of the checked files
\* that has its signature and no record of its own (DetectMoves, Anchor.move).
MovesLeadToTheCode ==
    \A p \in Proc : run[p].pc = "move" /\ run[p].calm =>
        \A m \in run[p].moves :
            /\ Resolve(tree, m[1]) = NoHash
            /\ Resolve(tree, m[2]) # NoHash /\ Resolve(tree, m[2]).sig = accepted[m[1]].sig
            /\ \A s \in Symbol, f \in run[p].files :
                  A(f, s) # m[2] /\ f \in Parsed /\ Resolve(tree, A(f, s)) # NoHash
                  => \/ Resolve(tree, A(f, s)).sig # accepted[m[1]].sig
                     \/ A(f, s) \in Anchor /\ index[A(f, s)].state # "none"

\* A symbol of a file without a parser.
Degraded(a) == a.path \notin Parsed /\ a.sym # Whole
\* A Change settles at most once, after it was opened; a second Change of a
\* commit comes only from a derivation that was running when the first was
\* opened: derivations that follow one another find it, crashed ones included.
ChangesOfCommits ==
    /\ \A m, n \in 1..Len(changes) : m < n /\ changes[n].change = changes[m].change =>
          changes[m].kind = "ChangeOpened" /\ changes[n].kind = "Settled" /\ changes[m].ref = changes[n].ref
    /\ \A n \in 1..Len(changes) : changes[n].kind = "Settled" => changes[n].change \in Opened(changes[n].ref)
    /\ \A m, n \in 1..Len(changes) : m < n /\ {m, n} \subseteq Opened(changes[m].ref) => changes[n].known < m

\* A commit that changes what a constraint is bound to does not settle outside the
\* harness, and its anchors are among those verified (Derive, changedAnchors,
\* BoundTo); but for an anchor whose file was renamed, away or to its path, and for
\* a symbol of a file without a parser.
BoundChangeIsJudged ==
    \A a \in Bound :
        /\ ChangedBy(a, prev, base) /\ ~Degraded(a)
        /\ a.path \notin RenamedFrom(prev, base) /\ OldPath(a.path) = a.path
        => /\ a.path \in ChangedIn
           /\ \A n \in 1..Len(changes) : changes[n].kind = "Settled" => changes[n].ref # head

-----------------------------------------------------------------------------
(* Refuted: what comments say and the code does not do. *)

\* "a signature change is always stale" (anchor.go, AnchorState), of the anchors
\* a verification looked at: code that goes back to a signature seen at the same
\* commit replays that verification and keeps the state of the last one.
SignatureChangeIsStale ==
    \A p \in Proc : run[p].pc = "done" /\ run[p].calm =>
        \A a \in run[p].checked : Resolve(tree, a) # NoHash /\ Cmp(accepted[a], Resolve(tree, a)) = "signature"
                                  => index[a].state = "stale"

\* "symbols whose signature hash vanished from one anchor and surfaced at exactly
\* one new anchor" (DetectMoves): an anchor without a record counts as new.
MovedToNew ==
    \A p \in Proc : run[p].pc = "move" /\ run[p].calm /\ run[p].mode = "commit" =>
        \A m \in run[p].moves : Resolve(prev, m[2]) = NoHash

\* "A change that touches no constraint settles at once; one that does waits in
\* the inbox for a judgment" (change derive): not one that renames the file.
BoundChangeIsAlwaysJudged ==
    \A a \in Bound : ChangedBy(a, prev, base) =>
        \A n \in 1..Len(changes) : changes[n].kind = "Settled" => changes[n].ref # head

\* The same sentence: a derivation that was stopped before Settle leaves a Change
\* that the next one finds and does not settle.
UnimpactedIsSettled ==
    \A p \in Proc : run[p].pc = "done" /\ run[p].calm /\ run[p].mode = "commit" /\ ~run[p].impact =>
        \E n \in 1..Len(changes) : changes[n].kind = "Settled" /\ changes[n].ref = run[p].ref
=============================================================================
