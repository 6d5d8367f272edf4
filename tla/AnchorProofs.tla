---------------------------- MODULE AnchorProofs ----------------------------
(***************************************************************************)
(* Proofs about anchors and their verification, for any files, anchors,    *)
(* constraints and processes.                                              *)
(*                                                                         *)
(* The baseline: an event moves the hash of an anchor only to what was     *)
(* recorded, or to one that differs in the file layer alone.               *)
(*                                                                         *)
(* The Changes of a commit: a record knows its own number (Numbered), and  *)
(* a derivation between its lookup and its opening has seen no Change of   *)
(* its commit (Derivations); what it was told of the impact is that of     *)
(* HEAD while HEAD stays (ImpactOfHead).                                   *)
(*                                                                         *)
(* A calm run: whoever writes, edits or commits takes calm from the other  *)
(* processes, so the working tree and the ledger a calm run has looked at  *)
(* are still there (Calm); what it leaves behind is what a run of the same *)
(* mode finds (SettledRuns, Again).                                        *)
(***************************************************************************)
EXTENDS AnchorVerify, TLAPS

\* Facts about the locals of a process.
LocalsOf(r, h, g) ==
    /\ r.ref <= h
    /\ r.pc \in {"lookup", "open", "settle"} => r.mode = "commit" /\ r.ref > 0
    /\ r.pc \in {"record", "verify"} => r.at \in Anchor /\ r.seen \in HashOf(r.at)
    /\ r.pc = "record" => r.seen # NoHash /\ ~r.calm
    /\ r.pc = "verify" => r.at \in r.todo
    /\ r.pc = "idle" => ~r.calm
    /\ \A a \in r.todo : a.path \in r.files /\ g[a].state # "none"
    /\ \A a \in DOMAIN r.before : a.path \in r.files /\ a.sym # Whole /\ g[a].state # "none"
    /\ r.pc = "done" => r.todo = {} /\ r.moves = {}
    /\ r.pc = "move" => r.todo = {}

Locals == \A p \in Proc : LocalsOf(run[p], head, agg)

\* What is accepted of an anchor is a hash of it.
AcceptedHashes == \A a \in Anchor : accepted[a] \in HashOf(a) \union {NoHash}

\* The records of Changes that were opened for a commit.
OpenedIn(cs, ref) == {n \in 1..Len(cs) : cs[n].kind = "ChangeOpened" /\ cs[n].ref = ref}

\* Records are numbered; what settles was opened, and once.
Numbered ==
    \A n \in 1..Len(changes) :
        /\ changes[n].ref \in 1..head /\ changes[n].known < n
        /\ changes[n].kind = "ChangeOpened" => changes[n].change = n
        /\ changes[n].kind = "Settled" =>
             /\ ~changes[n].impact
             /\ changes[n].change \in OpenedIn(changes, changes[n].ref) /\ changes[n].change < n
             /\ \A m \in 1..Len(changes) :
                  m # n /\ changes[m].kind = "Settled" => changes[m].change # changes[n].change

\* A second Change of a commit comes from a derivation that ran beside the first.
SecondChange ==
    \A m, n \in 1..Len(changes) : m < n /\ {m, n} \subseteq OpenedIn(changes, changes[m].ref) => changes[n].known < m

\* What a derivation knows of its commit.
Derivations ==
    /\ \A p \in Proc :
         /\ run[p].known <= Len(changes)
         /\ run[p].pc = "open" => \A n \in OpenedIn(changes, run[p].ref) : run[p].known < n
         /\ run[p].pc = "settle" =>
              /\ ~run[p].impact
              /\ run[p].change \in OpenedIn(changes, run[p].ref) /\ run[p].known < run[p].change
              /\ \A n \in 1..Len(changes) : changes[n].kind = "Settled" => changes[n].change # run[p].change
    /\ \A p, q \in Proc : p # q /\ run[p].pc = "settle" /\ run[q].pc = "settle" => run[p].change # run[q].change

\* The impact that is recorded of HEAD is that of HEAD.
ImpactOfHead ==
    /\ \A p \in Proc : run[p].pc \in {"lookup", "open", "settle"} /\ run[p].ref = head => (run[p].impact <=> Impact)
    /\ \A n \in 1..Len(changes) : changes[n].ref = head => (changes[n].impact <=> Impact)

-----------------------------------------------------------------------------
(* Calm runs: predicates on a tree t, aggregates g, accepted hashes c, keys ks and records cs. *)

\* A verification of a at ref would write nothing.
Quiet(a, ref, t, g, ks) ==
    \/ Key("verify", a, ref, Resolve(t, a)) \in ks
    \/ VerifyDecide(g[a], Resolve(t, a)) = << >>

Listed(files, g) == {a \in Anchor : a.path \in files /\ g[a].state # "none"}
Symbols(files, g) == {a \in Listed(files, g) : a.sym # Whole}
MovesIn(files, t, g) == DetectMoves([a \in Symbols(files, g) |-> g[a].hash], Snapshot(t, files))
MoveKey(m, ref) == Key("move", m.from, ref, m.to)

\* The state that fits code hashed to h where c was accepted.
Fits(state, h, c) ==
    /\ h = NoHash => state = "unrealized"
    /\ h # NoHash /\ c.sig # h.sig => state = "stale"
    /\ h # NoHash /\ c.sig = h.sig /\ c.body # h.body => state \in {"review", "stale"}
    /\ h # NoHash /\ c.sig = h.sig /\ c.body = h.body => state = "verified"

\* A move that leads to the code.
LeadsToTheCode(m, files, t, g, c) ==
    /\ Resolve(t, m[1]) = NoHash
    /\ Resolve(t, m[2]) # NoHash /\ Resolve(t, m[2]).sig = c[m[1]].sig
    /\ \A s \in Symbol, f \in files :
          A(f, s) # m[2] /\ f \in Parsed /\ Resolve(t, A(f, s)) # NoHash
          => \/ Resolve(t, A(f, s)).sig # c[m[1]].sig
             \/ A(f, s) \in Anchor /\ g[A(f, s)].state # "none"

\* What a calm run has seen is still so.
CalmRun(r, t, g, c, ks, cs) ==
    /\ r.mode # "none"
    /\ r.pc = "verify" => r.seen = Resolve(t, r.at)
    /\ \A a \in r.checked \ r.revisited : Fits(g[a].state, Resolve(t, a), c[a])
    /\ \A a \in r.checked : Quiet(a, r.ref, t, g, ks)
    /\ Listed(r.files, g) \subseteq r.checked \union r.todo
    /\ r.mode = "commit" /\ r.pc \notin {"lookup", "open"} => OpenedIn(cs, r.ref) # {}
    /\ r.pc \notin {"move", "done"} =>
         /\ DOMAIN r.before = Symbols(r.files, g)
         /\ \A a \in DOMAIN r.before : r.before[a].sig = g[a].hash.sig
    /\ r.pc = "move" => \A m \in r.moves : LeadsToTheCode(m, r.files, t, g, c)
    /\ r.pc \in {"move", "done"} /\ r.mode # "all" =>
         \A m \in MovesIn(r.files, t, g) :
             \/ MoveKey(m, r.ref) \in ks
             \/ \E n \in r.moves : n[1] = m.from /\ n[2] = m.to

Calm == \A p \in Proc : run[p].calm => CalmRun(run[p], tree, agg, accepted, keys, changes)

\* A verification that took effect was observed.
KeysObserved ==
    \A a \in Anchor, ref \in Nat, h \in Hash : Key("verify", a, ref, h) \in keys => <<a, ref, h>> \in observed

\* A run of this mode would find nothing to write.
WritesNothing(mode, ref, files, t, g, ks, cs) ==
    /\ \A a \in Listed(files, g) : Quiet(a, ref, t, g, ks)
    /\ mode # "all" => \A m \in MovesIn(files, t, g) : MoveKey(m, ref) \in ks
    /\ mode = "commit" => OpenedIn(cs, ref) # {}

SettledRuns == \A x \in settled : WritesNothing(x[1], x[2], x[3], tree, agg, keys, changes)

\* What a run that repeats another finds.
AgainRun(r, t, g, ks, cs) ==
    /\ r.pc \notin {"open", "settle"}
    /\ r.pc = "lookup" => \E n \in OpenedIn(cs, r.ref) : n <= r.known
    /\ r.calm =>
         /\ \A a \in r.todo : Quiet(a, r.ref, t, g, ks)
         /\ r.pc \notin {"move", "done"} /\ r.mode # "all" =>
              \A m \in MovesIn(r.files, t, g) : MoveKey(m, r.ref) \in ks
         /\ \A m \in r.moves : Key("move", m[1], r.ref, m[2]) \in ks

Again == \A p \in Proc : run[p].again => AgainRun(run[p], tree, agg, keys, changes)

-----------------------------------------------------------------------------
(* Operators *)

\* What Cmp tells, layer by layer.
LEMMA CmpFacts ==
    ASSUME NEW a, NEW b
    PROVE  /\ (Cmp(a, b) = "signature") <=> (a.sig # b.sig)
           /\ (Cmp(a, b) = "body") <=> (a.sig = b.sig /\ a.body # b.body)
           /\ (Cmp(a, b) \in {"none", "file"}) <=> (a.sig = b.sig /\ a.body = b.body)
           /\ Cmp(a, b) \in {"none", "file", "body", "signature"}
BY DEF Cmp

\* An anchor is a path and a symbol or the whole file.
LEMMA AnchorsAreNamed ==
    /\ Anchor \subseteq AnchorName
    /\ \A a \in AnchorName : a = A(a.path, a.sym) /\ a.path \in Path /\ a.sym \in Symbol \union {Whole}
    /\ \A f \in Path, s \in Symbol \union {Whole} :
         A(f, s) \in AnchorName /\ A(f, s).path = f /\ A(f, s).sym = s
<1>1. Anchor \subseteq AnchorName
  BY AnchorConstants DEF Anchor
<1>2. \A a \in AnchorName : a = A(a.path, a.sym) /\ a.path \in Path /\ a.sym \in Symbol \union {Whole}
  BY DEF AnchorName, A
<1>3. \A f \in Path, s \in Symbol \union {Whole} :
        A(f, s) \in AnchorName /\ A(f, s).path = f /\ A(f, s).sym = s
  BY DEF AnchorName, A
<1> QED BY <1>1, <1>2, <1>3

\* What an anchor is hashed to in some tree is one of its hashes.
LEMMA ResolveHash ==
    ASSUME NEW t \in Trees, NEW a \in AnchorName
    PROVE  Resolve(t, a) \in HashOf(a) /\ HashOf(a) \subseteq Hash
BY DEF HashOf, Hash

\* The events of an anchor, and what they do to it; the index folds them alike.
LEMMA ApplyFacts ==
    ASSUME NEW r \in Aggregate
    PROVE  /\ \A e : IndexHandle(r, e) = Apply(r, e)
           /\ \A h \in Hash :
                /\ Apply(r, Recorded(h)) \in Aggregate
                /\ Apply(r, Recorded(h)).hash = h /\ Apply(r, Recorded(h)).state = "recorded"
           /\ \A h \in Hash :
                /\ Apply(r, Verified(h)) \in Aggregate
                /\ Apply(r, Verified(h)).hash = h /\ Apply(r, Verified(h)).state = "verified"
           /\ \A s \in States :
                /\ Apply(r, Staled(s)) \in Aggregate
                /\ Apply(r, Staled(s)).hash = r.hash /\ Apply(r, Staled(s)).state = s
           /\ \A b \in AnchorName :
                /\ Apply(r, Moved(b)) \in Aggregate
                /\ Apply(r, Moved(b)).hash = r.hash /\ Apply(r, Moved(b)).state = r.state
<1>1. \A e : IndexHandle(r, e) = Apply(r, e)
  BY DEF IndexHandle, Apply
<1>2. ASSUME NEW h \in Hash
      PROVE  /\ Apply(r, Recorded(h)) \in Aggregate
             /\ Apply(r, Recorded(h)).hash = h /\ Apply(r, Recorded(h)).state = "recorded"
  BY DEF Apply, Recorded, NewAnchor, Aggregate, States
<1>3. ASSUME NEW h \in Hash
      PROVE  /\ Apply(r, Verified(h)) \in Aggregate
             /\ Apply(r, Verified(h)).hash = h /\ Apply(r, Verified(h)).state = "verified"
  BY DEF Apply, Verified, Aggregate, States
<1>4. ASSUME NEW s \in States
      PROVE  /\ Apply(r, Staled(s)) \in Aggregate
             /\ Apply(r, Staled(s)).hash = r.hash /\ Apply(r, Staled(s)).state = s
  BY DEF Apply, Staled, Aggregate
<1>5. ASSUME NEW b \in AnchorName
      PROVE  /\ Apply(r, Moved(b)) \in Aggregate
             /\ Apply(r, Moved(b)).hash = r.hash /\ Apply(r, Moved(b)).state = r.state
  BY DEF Apply, Moved, Aggregate
<1> QED BY <1>1, <1>2, <1>3, <1>4, <1>5

\* The decisions of a verification.
LEMMA VerifyFacts ==
    ASSUME NEW r \in Aggregate, NEW h
    PROVE  /\ r.state = "none" => VerifyDecide(r, h) = Refused
           /\ r.state = "unrealized" /\ h = NoHash => VerifyDecide(r, h) = << >>
           /\ r.state \notin {"none", "unrealized"} /\ h = NoHash =>
                VerifyDecide(r, h) = <<Staled("unrealized")>>
           /\ r.state # "none" /\ h # NoHash /\ r.hash.sig = h.sig /\ r.hash.body = h.body =>
                VerifyDecide(r, h) = <<Verified(h)>>
           /\ r.state \notin {"none", "stale"} /\ h # NoHash /\ r.hash.sig = h.sig /\ r.hash.body # h.body =>
                VerifyDecide(r, h) = <<Staled("review")>>
           /\ r.state = "stale" /\ h # NoHash /\ r.hash.sig = h.sig /\ r.hash.body # h.body =>
                VerifyDecide(r, h) = << >>
           /\ r.state # "none" /\ h # NoHash /\ r.hash.sig # h.sig =>
                VerifyDecide(r, h) = <<Staled("stale")>>
<1>1. /\ (Cmp(r.hash, h) = "signature") <=> (r.hash.sig # h.sig)
      /\ (Cmp(r.hash, h) = "body") <=> (r.hash.sig = h.sig /\ r.hash.body # h.body)
      /\ (Cmp(r.hash, h) \in {"none", "file"}) <=> (r.hash.sig = h.sig /\ r.hash.body = h.body)
  BY CmpFacts
<1> QED BY <1>1 DEF VerifyDecide

\* One event is neither none nor a refusal.
LEMMA EventsAreEvents ==
    /\ \A h : <<Recorded(h)>> # Refused /\ <<Recorded(h)>> # << >>
    /\ \A h : <<Verified(h)>> # Refused /\ <<Verified(h)>> # << >>
    /\ \A s : <<Staled(s)>> # Refused /\ <<Staled(s)>> # << >>
    /\ \A b : <<Moved(b)>> # Refused /\ <<Moved(b)>> # << >>
    /\ Refused # << >>
BY DEF Refused, Recorded, Verified, Staled, Moved

-----------------------------------------------------------------------------
(* Locals *)

\* The zero Hash3 is a hash.
LEMMA NoHashIsHash == NoHash \in Hash
BY Zenon DEF Hash

\* An idle process.
LEMMA IdleFacts ==
    /\ Idle \in Run
    /\ Idle.pc = "idle" /\ Idle.mode = "none" /\ Idle.ref = 0 /\ Idle.files = {} /\ Idle.todo = {}
    /\ Idle.at = NoAnchor /\ Idle.seen = NoHash /\ Idle.known = 0 /\ ~Idle.impact /\ Idle.change = 0
    /\ DOMAIN Idle.before = {} /\ Idle.moves = {} /\ Idle.checked = {} /\ Idle.revisited = {}
    /\ ~Idle.calm /\ ~Idle.again
<1>1. NoHashes \in [{} -> Hash] /\ DOMAIN NoHashes = {}
  BY DEF NoHashes
<1>2. NoHashes \in Hashes
  BY <1>1 DEF Hashes
<1> QED BY <1>1, <1>2, NoHashIsHash DEF Idle, Run, Steps, Modes

\* What a process is after a step of somebody else that it might notice.
Uncalmed(r) == IF r.pc = "done" THEN Idle ELSE [r EXCEPT !.calm = FALSE]

\* Two runs that differ in calm at most.
SameButCalm(s, r) ==
    /\ s.pc = r.pc /\ s.mode = r.mode /\ s.ref = r.ref /\ s.files = r.files /\ s.todo = r.todo /\ s.at = r.at
    /\ s.seen = r.seen /\ s.known = r.known /\ s.impact = r.impact /\ s.change = r.change
    /\ s.before = r.before /\ s.moves = r.moves /\ s.checked = r.checked /\ s.revisited = r.revisited
    /\ s.again = r.again

\* It lost its calm and nothing else, unless it was over.
LEMMA UncalmedFacts ==
    ASSUME NEW r \in Run
    PROVE  /\ Uncalmed(r) \in Run /\ ~Uncalmed(r).calm
           /\ Uncalmed(r) = Idle \/ SameButCalm(Uncalmed(r), r)
<1>1. CASE r.pc = "done"
  BY <1>1, IdleFacts DEF Uncalmed
<1>2. CASE r.pc # "done"
  <2>1. PICK s : s = [r EXCEPT !.calm = FALSE]
    OBVIOUS
  <2>2. s \in Run /\ s.calm = FALSE /\ SameButCalm(s, r)
    BY <2>1 DEF Run, SameButCalm
  <2> QED BY <1>2, <2>1, <2>2 DEF Uncalmed
<1> QED BY <1>1, <1>2

\* A run after a verification.
AfterVerify(s, r, a, v) ==
    /\ s.pc = "observe" /\ s.mode = r.mode /\ s.ref = r.ref /\ s.files = r.files /\ s.todo = r.todo \ {a}
    /\ s.at = NoAnchor /\ s.seen = NoHash /\ s.known = r.known /\ s.impact = r.impact /\ s.change = r.change
    /\ s.before = r.before /\ s.moves = r.moves /\ s.checked = r.checked \union {a} /\ s.revisited = v
    /\ s.calm = r.calm /\ s.again = r.again

\* The locals of a run after a verify are locals of a run.
LEMMA AfterVerifyFacts ==
    ASSUME NEW r \in Run, NEW a \in Anchor, NEW v \in SUBSET Anchor, NEW s,
           s = [r EXCEPT !.pc = "observe", !.todo = @ \ {a}, !.at = NoAnchor, !.seen = NoHash,
                         !.checked = @ \union {a}, !.revisited = v]
    PROVE  s \in Run /\ AfterVerify(s, r, a, v)
BY NoHashIsHash DEF Run, Steps, AfterVerify

-----------------------------------------------------------------------------
(* The steps *)

\* One command of a process: an event is written, nothing is, or it is refused.
Written(p, a, key, e, next) ==
    /\ key \notin keys /\ keys' = keys \union {key}
    /\ agg' = [agg EXCEPT ![a] = Apply(agg[a], e)]
    /\ index' = [index EXCEPT ![a] = IndexHandle(index[a], e)]
    /\ accepted' = IF e.kind = "Recorded" THEN [accepted EXCEPT ![a] = e.hash] ELSE accepted
    /\ run' = [Disturbed({p}) EXCEPT ![p] = next]
    /\ settled' = IF next.pc = "done" /\ next.calm THEN {Mode(next)} ELSE {}

Passed(p, key, evs, next) ==
    /\ key \in keys \/ evs = << >>
    /\ UNCHANGED <<agg, index, keys, accepted>>
    /\ run' = [run EXCEPT ![p] = next]
    /\ settled' = IF next.pc = "done" /\ next.calm THEN settled \union {Mode(next)} ELSE settled

Stopped(p) ==
    /\ UNCHANGED <<agg, index, keys, accepted, settled>>
    /\ run' = [run EXCEPT ![p] = Idle]

\* There is no other outcome.
LEMMA HandleCases ==
    ASSUME NEW p, NEW a, NEW key, NEW evs, NEW next, Handle(p, a, key, evs, next)
    PROVE  \/ Passed(p, key, evs, next)
           \/ Stopped(p) /\ evs = Refused
           \/ evs # << >> /\ evs # Refused /\ Written(p, a, key, evs[1], next)
<1>1. CASE key \in keys
  BY <1>1 DEF Handle, Passed
<1>2. CASE key \notin keys /\ evs = << >>
  <2>1. evs # Refused
    BY <1>2, EventsAreEvents
  <2> QED BY <1>2, <2>1 DEF Handle, Passed
<1>3. CASE key \notin keys /\ evs = Refused
  BY <1>3 DEF Handle, Stopped
<1>4. CASE key \notin keys /\ evs # << >> /\ evs # Refused
  BY <1>4 DEF Handle, Written
<1> QED BY <1>1, <1>2, <1>3, <1>4

\* How a step leaves the locals of the processes.
Alone(p) == \A q \in Proc : q # p => run'[q] = run[q]
Noticed(p) == \A q \in Proc : q # p => run'[q] = Uncalmed(run[q])

\* A step of one process leaves the locals of the others, but for their calm.
LEMMA RunFacts ==
    ASSUME TypeOK, NEW p \in Proc, NEW r \in Run
    PROVE  /\ run' = [run EXCEPT ![p] = r] => run'[p] = r /\ Alone(p) /\ run' \in [Proc -> Run]
           /\ run' = [Disturbed({p}) EXCEPT ![p] = r] => run'[p] = r /\ Noticed(p) /\ run' \in [Proc -> Run]
<1>1. run \in [Proc -> Run]
  BY DEF TypeOK
<1>2. ASSUME run' = [run EXCEPT ![p] = r]
      PROVE  run'[p] = r /\ Alone(p) /\ run' \in [Proc -> Run]
  BY <1>1, <1>2 DEF Alone
<1>3. ASSUME run' = [Disturbed({p}) EXCEPT ![p] = r]
      PROVE  run'[p] = r /\ Noticed(p) /\ run' \in [Proc -> Run]
  <2>1. \A q \in Proc : run[q] \in Run /\ Uncalmed(run[q]) \in Run
    BY <1>1, UncalmedFacts
  <2>2. /\ Disturbed({p}) \in [Proc -> Run]
        /\ \A q \in Proc : q # p => Disturbed({p})[q] = Uncalmed(run[q])
    BY <2>1 DEF Disturbed, Uncalmed
  <2> QED BY <1>3, <2>2 DEF Noticed
<1> QED BY <1>2, <1>3

\* The processes after a step of the user.
LEMMA AllNoticed ==
    ASSUME run' = Disturbed({})
    PROVE  run' = [q \in Proc |-> Uncalmed(run[q])]
BY DEF Disturbed, Uncalmed

\* A step of the user: an edit, a renaming or a commit.
UserStep ==
    /\ run' = [q \in Proc |-> Uncalmed(run[q])] /\ settled' = {}
    /\ UNCHANGED <<agg, index, keys, changes, accepted, observed, runs>>
    /\ tree' \in Trees /\ base' \in Trees /\ prev' \in Trees /\ edits' \in 0..MaxEdits
    /\ \/ head' = head /\ UNCHANGED <<base, prev>>
       \/ head' = head + 1 /\ head' \in 0..MaxCommits

\* A tree with another file at a path.
LEMMA TreeFacts ==
    ASSUME NEW t \in Trees, NEW p \in Path, NEW f \in File[p] \union {Missing}
    PROVE  [t EXCEPT ![p] = f] \in Trees
<1>1. PICK u : u = [t EXCEPT ![p] = f]
  OBVIOUS
<1>2. f \in (UNION {File[q] : q \in Path}) \union {Missing}
  OBVIOUS
<1>3. u \in [Path -> (UNION {File[q] : q \in Path}) \union {Missing}]
  BY <1>1, <1>2 DEF Trees
<1>4. \A q \in Path : u[q] \in File[q] \union {Missing}
  BY <1>1 DEF Trees
<1> QED BY <1>1, <1>3, <1>4 DEF Trees

\* An edit, a rename or a commit is a step of the user.
LEMMA UserSteps ==
    ASSUME TypeOK,
           \/ \E p \in Path, f \in (UNION {File[q] : q \in Path}) \union {Missing} : Edit(p, f)
           \/ \E p, q \in Path : Rename(p, q)
           \/ \E paths \in SUBSET Path : Commit(paths)
    PROVE  UserStep
<1>1. /\ tree \in Trees /\ base \in Trees /\ prev \in Trees /\ edits \in 0..MaxEdits /\ head \in 0..MaxCommits
      /\ MaxEdits \in Nat /\ MaxCommits \in Nat
  BY AnchorConstants DEF TypeOK
<1>2. ASSUME NEW p \in Path, NEW f, Edit(p, f) PROVE UserStep
  <2>1. tree' \in Trees
    BY <1>1, <1>2, TreeFacts DEF Edit
  <2>2. edits' \in 0..MaxEdits
    BY <1>1, <1>2 DEF Edit
  <2> QED BY <1>1, <1>2, <2>1, <2>2, AllNoticed DEF Edit, UserStep
<1>3. ASSUME NEW p \in Path, NEW q \in Path, Rename(p, q) PROVE UserStep
  <2>1. PICK t : t = [tree EXCEPT ![p] = Missing]
    OBVIOUS
  <2>2. t \in Trees
    BY <1>1, <2>1, TreeFacts
  <2>3. tree' = [t EXCEPT ![q] = tree[p]] /\ tree[p] \in File[q] \union {Missing}
    BY <1>3, <2>1 DEF Rename
  <2>4. tree' \in Trees
    BY <2>2, <2>3, TreeFacts
  <2>5. edits' \in 0..MaxEdits
    BY <1>1, <1>3 DEF Rename
  <2> QED BY <1>1, <1>3, <2>4, <2>5, AllNoticed DEF Rename, UserStep
<1>4. ASSUME NEW paths \in SUBSET Path, Commit(paths) PROVE UserStep
  <2>1. base' \in Trees
    BY <1>1, <1>4 DEF Commit, Trees
  <2>2. head' = head + 1 /\ head' \in 0..MaxCommits
    BY <1>1, <1>4 DEF Commit
  <2> QED BY <1>1, <1>4, <2>1, <2>2, AllNoticed DEF Commit, UserStep
<1> QED BY <1>2, <1>3, <1>4

\* What most steps of a process leave alone.
SameRun(s, r) ==
    /\ s.mode = r.mode /\ s.ref = r.ref /\ s.files = r.files /\ s.todo = r.todo /\ s.known = r.known
    /\ s.impact = r.impact /\ s.checked = r.checked /\ s.revisited = r.revisited
    /\ s.calm = r.calm /\ s.again = r.again

\* A step of a process by itself.
Stepped(p) ==
    /\ run' \in [Proc -> Run] /\ Alone(p) /\ SameRun(run'[p], run[p])
    /\ run'[p].before = run[p].before /\ run'[p].moves = run[p].moves

\* The lookup of the commit.
LEMMA LookupStep ==
    ASSUME TypeOK, NEW p \in Proc, Lookup(p)
    PROVE  /\ Stepped(p)
           /\ run'[p].pc = IF Opened(run[p].ref) \intersect 1..run[p].known = {} THEN "open" ELSE "observe"
<1>1. PICK x \in Steps : x = IF Opened(run[p].ref) \intersect 1..run[p].known = {} THEN "open" ELSE "observe"
  BY DEF Steps
<1>2. PICK r : r = [run[p] EXCEPT !.pc = x]
  OBVIOUS
<1>3. run \in [Proc -> Run] /\ run[p] \in Run
  BY DEF TypeOK
<1>4. r \in Run /\ SameRun(r, run[p]) /\ r.pc = x /\ r.before = run[p].before /\ r.moves = run[p].moves
  BY <1>1, <1>2, <1>3 DEF Run, SameRun
<1>5. run' = [run EXCEPT ![p] = r]
  BY <1>1, <1>2, <1>3 DEF Lookup
<1>6. run'[p] = r /\ Alone(p) /\ run' \in [Proc -> Run]
  BY <1>4, <1>5, RunFacts
<1> QED BY <1>1, <1>4, <1>6 DEF Stepped

\* The opening of a Change.
LEMMA OpenStep ==
    ASSUME TypeOK, NEW p \in Proc, OpenChange(p)
    PROVE  /\ Stepped(p)
           /\ run'[p].pc = IF run[p].impact THEN "observe" ELSE "settle"
           /\ run'[p].change = IF run[p].impact THEN 0 ELSE Len(changes) + 1
<1>1. PICK x \in Steps : x = IF run[p].impact THEN "observe" ELSE "settle"
  BY DEF Steps
<1>2. PICK n \in Nat : n = IF run[p].impact THEN 0 ELSE Len(changes) + 1
  BY DEF TypeOK
<1>3. PICK r : r = [run[p] EXCEPT !.pc = x, !.change = n]
  OBVIOUS
<1>4. run \in [Proc -> Run] /\ run[p] \in Run
  BY DEF TypeOK
<1>5. /\ r \in Run /\ SameRun(r, run[p]) /\ r.pc = x /\ r.change = n /\ r.before = run[p].before
      /\ r.moves = run[p].moves
  BY <1>1, <1>2, <1>3, <1>4 DEF Run, SameRun
<1>6. run' = [run EXCEPT ![p] = r]
  BY <1>1, <1>2, <1>3, <1>4 DEF OpenChange
<1>7. run'[p] = r /\ Alone(p) /\ run' \in [Proc -> Run]
  BY <1>5, <1>6, RunFacts
<1> QED BY <1>1, <1>2, <1>5, <1>7 DEF Stepped

\* The settling of a Change.
LEMMA SettleStep ==
    ASSUME TypeOK, NEW p \in Proc, Settle(p)
    PROVE  Stepped(p) /\ run'[p].pc = "observe" /\ run'[p].change = 0
<1>1. PICK r : r = [run[p] EXCEPT !.pc = "observe", !.change = 0]
  OBVIOUS
<1>2. run \in [Proc -> Run] /\ run[p] \in Run
  BY DEF TypeOK
<1>3. /\ r \in Run /\ SameRun(r, run[p]) /\ r.pc = "observe" /\ r.change = 0 /\ r.before = run[p].before
      /\ r.moves = run[p].moves
  BY <1>1, <1>2 DEF Run, SameRun, Steps
<1>4. run' = [run EXCEPT ![p] = r]
  BY <1>1, <1>2 DEF Settle
<1>5. run'[p] = r /\ Alone(p) /\ run' \in [Proc -> Run]
  BY <1>3, <1>4, RunFacts
<1> QED BY <1>3, <1>5 DEF Stepped

\* The next anchor is taken up.
LEMMA ObserveStep ==
    ASSUME TypeOK, NEW p \in Proc, Observe(p)
    PROVE  /\ Stepped(p)
           /\ run'[p].pc = "verify" /\ run'[p].at \in Anchor /\ run'[p].at \in run[p].todo
           /\ run'[p].seen = Resolve(tree, run'[p].at) /\ run'[p].seen \in HashOf(run'[p].at)
<1>1. PICK i \in 1..Len(Order) :
        /\ Order[i] \in run[p].todo
        /\ run' = [run EXCEPT ![p].pc = "verify", ![p].at = Order[i], ![p].seen = Resolve(tree, Order[i])]
  BY DEF Observe
<1>2. PICK a : a = Order[i]
  OBVIOUS
<1>3. PICK h : h = Resolve(tree, a)
  OBVIOUS
<1>4. a \in Anchor /\ a \in run[p].todo
  BY <1>1, <1>2 DEF Anchor
<1>5. h \in HashOf(a) /\ h \in Hash
  BY <1>3, <1>4, ResolveHash, AnchorsAreNamed DEF TypeOK
<1>6. PICK r : r = [run[p] EXCEPT !.pc = "verify", !.at = a, !.seen = h]
  OBVIOUS
<1>7. run \in [Proc -> Run] /\ run[p] \in Run
  BY DEF TypeOK
<1>8. /\ r \in Run /\ SameRun(r, run[p]) /\ r.pc = "verify" /\ r.at = a /\ r.seen = h
      /\ r.before = run[p].before /\ r.moves = run[p].moves
  BY <1>4, <1>5, <1>6, <1>7 DEF Run, Steps, SameRun
<1>9. run' = [run EXCEPT ![p] = r]
  BY <1>1, <1>2, <1>3, <1>6, <1>7
<1>10. run'[p] = r /\ Alone(p) /\ run' \in [Proc -> Run]
  BY <1>8, <1>9, RunFacts
<1> QED BY <1>3, <1>4, <1>5, <1>8, <1>10 DEF Stepped

\* A process that starts to record.
RecordRun(r, a, h) ==
    /\ r.pc = "record" /\ r.mode = "none" /\ r.ref = head /\ r.files = {} /\ r.todo = {} /\ r.at = a /\ r.seen = h
    /\ r.known = 0 /\ r.change = 0 /\ DOMAIN r.before = {} /\ r.moves = {} /\ r.checked = {}
    /\ r.revisited = {} /\ ~r.calm /\ ~r.again

\* The locals with which anchor add begins.
LEMMA StartRecordRun ==
    ASSUME TypeOK, NEW p \in Proc, NEW a \in Anchor, StartRecord(p, a)
    PROVE  /\ run' \in [Proc -> Run] /\ Noticed(p) /\ RecordRun(run'[p], a, Resolve(tree, a))
           /\ Resolve(tree, a) \in HashOf(a) /\ Resolve(tree, a) # NoHash
<1>1. PICK h : h = Resolve(tree, a)
  OBVIOUS
<1>2. h \in HashOf(a) /\ h \in Hash /\ h # NoHash /\ head \in Nat
  BY <1>1, ResolveHash, AnchorsAreNamed, AnchorConstants DEF TypeOK, StartRecord
<1>3. PICK r : r = [Idle EXCEPT !.pc = "record", !.ref = head, !.at = a, !.seen = h]
  OBVIOUS
<1>4. r \in Run /\ RecordRun(r, a, h)
  BY <1>2, <1>3, IdleFacts DEF Run, Steps, RecordRun
<1>5. run' = [Disturbed({p}) EXCEPT ![p] = r]
  BY <1>1, <1>3 DEF StartRecord
<1> QED BY <1>1, <1>2, <1>4, <1>5, RunFacts

\* A process that starts to verify.
VerifyRun(r, mode, files) ==
    /\ r.pc = (IF mode = "commit" THEN "lookup" ELSE "observe") /\ r.mode = mode /\ r.ref = head
    /\ r.files = files /\ r.todo = Listed(files, agg) /\ r.calm
    /\ DOMAIN r.before = {b \in Listed(files, agg) : b.sym # Whole}
    /\ \A a \in DOMAIN r.before : r.before[a] = agg[a].hash
    /\ r.known = Len(changes) /\ (r.impact <=> mode = "commit" /\ Impact)
    /\ (r.again <=> <<mode, head, files>> \in settled)
    /\ r.at = NoAnchor /\ r.change = 0 /\ r.moves = {} /\ r.checked = {} /\ r.revisited = {}

\* The locals with which a verification begins.
LEMMA StartVerifyRun ==
    ASSUME TypeOK, NEW p \in Proc, NEW mode \in {"all", "changed", "commit"}, NEW files \in SUBSET Path,
           StartVerify(p, mode, files)
    PROVE  run' \in [Proc -> Run] /\ Noticed(p) /\ VerifyRun(run'[p], mode, files)
<1>1. PICK todo : todo = Listed(files, agg)
  OBVIOUS
<1>2. PICK before : before = [a \in {b \in todo : b.sym # Whole} |-> agg[a].hash]
  OBVIOUS
<1>3. PICK pc \in Steps : pc = IF mode = "commit" THEN "lookup" ELSE "observe"
  BY DEF Steps
<1>4. PICK impact \in BOOLEAN : impact <=> (mode = "commit" /\ Impact)
  OBVIOUS
<1>5. PICK again \in BOOLEAN : again <=> (<<mode, head, files>> \in settled)
  OBVIOUS
<1>6. /\ head \in Nat /\ Len(changes) \in Nat /\ index = agg
      /\ \A a \in Anchor : agg[a] \in Aggregate /\ agg[a].hash \in Hash
  BY AnchorConstants DEF TypeOK, Aggregate
<1>7. todo \in SUBSET Anchor
  BY <1>1 DEF Listed
<1>8. before \in Hashes
  <2>1. before \in [{b \in todo : b.sym # Whole} -> Hash]
    BY <1>2, <1>6, <1>7
  <2> QED BY <1>7, <2>1 DEF Hashes
<1>9. PICK r : r = [Idle EXCEPT !.pc = pc, !.mode = mode, !.ref = head, !.files = files, !.calm = TRUE,
                                !.todo = todo, !.before = before, !.known = Len(changes),
                                !.impact = impact, !.again = again]
  OBVIOUS
<1>10. /\ r \in Run /\ r.pc = pc /\ r.mode = mode /\ r.ref = head /\ r.files = files /\ r.calm = TRUE
       /\ r.todo = todo /\ r.before = before /\ r.known = Len(changes) /\ r.impact = impact /\ r.again = again
       /\ r.at = NoAnchor /\ r.change = 0 /\ r.moves = {} /\ r.checked = {} /\ r.revisited = {}
  <2>1. mode \in Modes /\ TRUE \in BOOLEAN
    BY DEF Modes
  <2>2. r \in Run
    <3>1. PICK x : x = [Idle EXCEPT !.pc = pc, !.mode = mode, !.ref = head, !.files = files]
      OBVIOUS
    <3>2. x \in Run
      BY <1>6, <2>1, <3>1, IdleFacts DEF Run
    <3>3. r = [x EXCEPT !.calm = TRUE, !.todo = todo, !.before = before,
                        !.known = Len(changes), !.impact = impact, !.again = again]
      BY <1>9, <3>1
    <3> QED BY <1>6, <1>7, <1>8, <2>1, <3>2, <3>3 DEF Run
  <2>3. /\ r.pc = pc /\ r.mode = mode /\ r.ref = head /\ r.files = files /\ r.calm = TRUE
        /\ r.todo = todo /\ r.before = before /\ r.known = Len(changes)
    BY <1>9, IdleFacts DEF Run
  <2>4. /\ r.impact = impact /\ r.again = again
        /\ r.at = NoAnchor /\ r.change = 0 /\ r.moves = {} /\ r.checked = {} /\ r.revisited = {}
    BY <1>9, IdleFacts DEF Run
  <2> QED BY <2>2, <2>3, <2>4
<1>11. VerifyRun(r, mode, files)
  BY <1>1, <1>2, <1>3, <1>4, <1>5, <1>10 DEF VerifyRun
<1>12. impact = (mode = "commit" /\ Impact) /\ again = (<<mode, head, files>> \in settled)
  BY <1>4, <1>5, Zenon
<1>13. run' = [Disturbed({p}) EXCEPT ![p] = r]
  <2>1. todo = {a \in Anchor : a.path \in files /\ index[a].state # "none"}
    BY <1>1, <1>6 DEF Listed
  <2>2. before = [a \in {b \in todo : b.sym # Whole} |-> index[a].hash]
    BY <1>2, <1>6
  <2> QED BY <1>3, <1>9, <1>12, <2>1, <2>2, Zenon DEF StartVerify
<1> QED BY <1>10, <1>11, <1>13, RunFacts

\* An event of anchor a was written under a key.
Wrote(p, a, x, key) ==
    /\ Noticed(p) /\ x \in Aggregate /\ agg' = [agg EXCEPT ![a] = x] /\ index' = agg'
    /\ key \notin keys /\ keys' = keys \union {key}

WroteNothing(p) == Alone(p) /\ UNCHANGED <<agg, index, keys, accepted>>

\* An event that is written reaches the aggregate and the index alike.
LEMMA WrittenFacts ==
    ASSUME TypeOK, NEW p \in Proc, NEW a \in Anchor, NEW key, NEW e, NEW next \in Run,
           Written(p, a, key, e, next), Apply(agg[a], e) \in Aggregate
    PROVE  /\ Wrote(p, a, Apply(agg[a], e), key) /\ run' \in [Proc -> Run] /\ run'[p] = next
<1>1. index = agg /\ agg[a] \in Aggregate
  BY DEF TypeOK
<1>2. IndexHandle(index[a], e) = Apply(agg[a], e)
  BY <1>1, ApplyFacts
<1>3. run'[p] = next /\ Noticed(p) /\ run' \in [Proc -> Run]
  BY RunFacts DEF Written
<1> QED BY <1>1, <1>2, <1>3 DEF Written, Wrote

\* anchor add is over, whatever became of it.
RecordEffect(p, a, h) ==
    /\ run' \in [Proc -> Run] /\ run'[p] = Idle
    /\ \/ WroteNothing(p) /\ UNCHANGED settled
       \/ /\ \E x, key : Wrote(p, a, x, key) /\ key[1] = "record" /\ x.hash = h /\ x.state = "recorded"
          /\ accepted' = [accepted EXCEPT ![a] = h] /\ settled' = {}

\* A record of an anchor writes the hash that was seen, or nothing.
LEMMA RecordStep ==
    ASSUME TypeOK, Locals, NEW p \in Proc, Record(p)
    PROVE  RecordEffect(p, run[p].at, run[p].seen)
<1>1. PICK a \in Anchor : a = run[p].at
  BY DEF Locals, LocalsOf, Record
<1>2. PICK h \in Hash : h = run[p].seen
  BY DEF TypeOK, Run
<1>3. PICK key : key = Key("record", a, run[p].ref, h)
  OBVIOUS
<1>4. PICK evs : evs = RecordDecide(agg[a], h)
  OBVIOUS
<1>5. Handle(p, a, key, evs, Idle)
  BY <1>1, <1>2, <1>3, <1>4 DEF Record
<1>6. Idle \in Run /\ Idle.pc = "idle" /\ agg[a] \in Aggregate
  BY IdleFacts DEF TypeOK
<1>7. CASE Passed(p, key, evs, Idle) \/ Stopped(p)
  <2>1. run' = [run EXCEPT ![p] = Idle] /\ UNCHANGED <<agg, index, keys, accepted, settled>>
    BY <1>6, <1>7 DEF Passed, Stopped
  <2> QED BY <1>6, <2>1, RunFacts DEF RecordEffect, WroteNothing
<1>8. CASE evs # << >> /\ evs # Refused /\ Written(p, a, key, evs[1], Idle)
  <2>1. evs[1] = Recorded(h)
    BY <1>4, <1>8 DEF RecordDecide
  <2>2. PICK x : x = Apply(agg[a], Recorded(h))
    OBVIOUS
  <2>3. x \in Aggregate /\ x.hash = h /\ x.state = "recorded"
    BY <1>6, <2>2, ApplyFacts
  <2>4. Wrote(p, a, x, key) /\ run' \in [Proc -> Run] /\ run'[p] = Idle
    BY <1>6, <1>8, <2>1, <2>2, <2>3, WrittenFacts
  <2>5. accepted' = [accepted EXCEPT ![a] = h] /\ settled' = {}
    BY <1>6, <1>8, <2>1 DEF Written, Recorded
  <2>6. key[1] = "record"
    BY <1>3 DEF Key
  <2> QED BY <1>1, <1>2, <2>3, <2>4, <2>5, <2>6 DEF RecordEffect
<1> QED BY <1>5, <1>7, <1>8, HandleCases

\* What a verification that sees h makes of an anchor.
Judged(x, r, h) ==
    \/ h = NoHash /\ r.state # "unrealized" /\ x.state = "unrealized" /\ x.hash = r.hash
    \/ h # NoHash /\ r.hash.sig = h.sig /\ r.hash.body = h.body /\ x.state = "verified" /\ x.hash = h
    \/ /\ h # NoHash /\ r.hash.sig = h.sig /\ r.hash.body # h.body /\ r.state # "stale"
       /\ x.state = "review" /\ x.hash = r.hash
    \/ h # NoHash /\ r.hash.sig # h.sig /\ x.state = "stale" /\ x.hash = r.hash

\* The event of a verify leaves the anchor in a state that fits the hash.
LEMMA JudgedFacts ==
    ASSUME NEW r \in Aggregate, NEW h \in Hash, VerifyDecide(r, h) # << >>, VerifyDecide(r, h) # Refused
    PROVE  /\ r.state # "none" /\ Apply(r, VerifyDecide(r, h)[1]) \in Aggregate
           /\ Judged(Apply(r, VerifyDecide(r, h)[1]), r, h) /\ VerifyDecide(r, h)[1].kind # "Recorded"
<1>1. r.state # "none" /\ r.state \in States
  BY VerifyFacts DEF Aggregate
<1>2. \A s \in States : /\ Apply(r, Staled(s)) \in Aggregate /\ Apply(r, Staled(s)).hash = r.hash
                        /\ Apply(r, Staled(s)).state = s
  BY ApplyFacts
<1>3. CASE h = NoHash
  <2>1. r.state # "unrealized" /\ VerifyDecide(r, h) = <<Staled("unrealized")>>
    BY <1>1, <1>3, VerifyFacts
  <2>2. "unrealized" \in States /\ Staled("unrealized").kind # "Recorded"
    BY DEF States, Staled
  <2> QED BY <1>1, <1>2, <1>3, <2>1, <2>2 DEF Judged
<1>4. CASE h # NoHash /\ r.hash.sig = h.sig /\ r.hash.body = h.body
  <2>1. VerifyDecide(r, h) = <<Verified(h)>>
    BY <1>1, <1>4, VerifyFacts
  <2>2. Verified(h).kind # "Recorded"
    BY DEF Verified
  <2>3. Apply(r, Verified(h)) \in Aggregate /\ Apply(r, Verified(h)).hash = h /\ Apply(r, Verified(h)).state = "verified"
    BY ApplyFacts
  <2> QED BY <1>1, <1>4, <2>1, <2>2, <2>3 DEF Judged
<1>5. CASE h # NoHash /\ r.hash.sig = h.sig /\ r.hash.body # h.body
  <2>1. r.state # "stale" /\ VerifyDecide(r, h) = <<Staled("review")>>
    BY <1>1, <1>5, VerifyFacts
  <2>2. "review" \in States /\ Staled("review").kind # "Recorded"
    BY DEF States, Staled
  <2> QED BY <1>1, <1>2, <1>5, <2>1, <2>2 DEF Judged
<1>6. CASE h # NoHash /\ r.hash.sig # h.sig
  <2>1. VerifyDecide(r, h) = <<Staled("stale")>>
    BY <1>1, <1>6, VerifyFacts
  <2>2. "stale" \in States /\ Staled("stale").kind # "Recorded"
    BY DEF States, Staled
  <2> QED BY <1>1, <1>2, <1>6, <2>1, <2>2 DEF Judged
<1> QED BY <1>3, <1>4, <1>5, <1>6

\* A verification of a, of which h was seen: it writes its judgement, or nothing.
VerifyEffect(p, a, h) ==
    /\ run' \in [Proc -> Run]
    /\ \E v \in SUBSET Anchor :
         /\ AfterVerify(run'[p], run[p], a, v)
         /\ v = run[p].revisited \/ (v = run[p].revisited \union {a})
         /\ a \in v \/ a \in run[p].revisited \/ <<a, run[p].ref, h>> \notin observed
    /\ observed' = observed \union {<<a, run[p].ref, h>>}
    /\ accepted' = accepted
    /\ \/ /\ WroteNothing(p) /\ settled' = settled
          /\ Key("verify", a, run[p].ref, h) \in keys \/ VerifyDecide(agg[a], h) = << >>
       \/ /\ \E x : Wrote(p, a, x, Key("verify", a, run[p].ref, h)) /\ Judged(x, agg[a], h)
          /\ settled' = {} /\ VerifyDecide(agg[a], h) # << >>

\* A verify judges the anchor the run is at by the hash it saw there.
LEMMA VerifyStep ==
    ASSUME TypeOK, Locals, NEW p \in Proc, Verify(p)
    PROVE  /\ run[p].at \in Anchor /\ run[p].seen \in HashOf(run[p].at)
           /\ run[p].at \in run[p].todo /\ agg[run[p].at].state # "none"
           /\ VerifyEffect(p, run[p].at, run[p].seen)
<1>1. PICK a \in Anchor : a = run[p].at
  BY DEF Locals, LocalsOf, Verify
<1>2. PICK h \in Hash : h = run[p].seen
  BY DEF TypeOK, Run
<1>3. run[p].seen \in HashOf(run[p].at) /\ run[p].at \in run[p].todo /\ agg[run[p].at].state # "none"
  BY DEF Locals, LocalsOf, Verify
<1>4. PICK o : o = <<a, run[p].ref, h>>
  OBVIOUS
<1>5. PICK v : v = IF o \in observed THEN run[p].revisited \union {a} ELSE run[p].revisited
  OBVIOUS
<1>6. run[p] \in Run /\ run[p].revisited \in SUBSET Anchor /\ agg[a] \in Aggregate
  BY DEF TypeOK, Run
<1>7. v \in SUBSET Anchor
  BY <1>5, <1>6
<1>8. PICK next : next = [run[p] EXCEPT !.pc = "observe", !.todo = @ \ {a}, !.at = NoAnchor, !.seen = NoHash,
                                        !.checked = @ \union {a}, !.revisited = v]
  OBVIOUS
<1>9. next \in Run /\ AfterVerify(next, run[p], a, v)
  BY <1>6, <1>7, <1>8, AfterVerifyFacts
<1>10. PICK key : key = Key("verify", a, run[p].ref, h)
  OBVIOUS
<1>11. PICK evs : evs = VerifyDecide(agg[a], h)
  OBVIOUS
<1>12. Handle(p, a, key, evs, next) /\ observed' = observed \union {o}
  <2>1. next = [run[p] EXCEPT !.pc = "observe", !.todo = @ \ {a}, !.at = NoAnchor, !.seen = NoHash,
                              !.checked = @ \union {a},
                              !.revisited = IF o \in observed THEN @ \union {a} ELSE @]
    BY <1>5, <1>6, <1>8 DEF Run
  <2> QED BY <1>1, <1>2, <1>4, <1>10, <1>11, <2>1, Zenon DEF Verify
<1>13. next.pc = "observe"
  BY <1>9 DEF AfterVerify
<1>14. /\ v = run[p].revisited \/ (v = run[p].revisited \union {a})
       /\ a \in v \/ a \in run[p].revisited \/ <<a, run[p].ref, h>> \notin observed
  BY <1>4, <1>5
<1>15. evs # Refused
  <2>1. h = NoHash \/ (h # NoHash /\ agg[a].hash.sig = h.sig) \/ (h # NoHash /\ agg[a].hash.sig # h.sig)
    OBVIOUS
  <2>2. agg[a].state # "none"
    BY <1>1, <1>3
  <2> QED BY <1>6, <1>11, <2>1, <2>2, VerifyFacts, EventsAreEvents
<1>16. CASE Passed(p, key, evs, next)
  <2>1. run'[p] = next /\ Alone(p) /\ run' \in [Proc -> Run]
    BY <1>9, <1>16, RunFacts DEF Passed
  <2>2. WroteNothing(p) /\ settled' = settled /\ accepted' = accepted /\ (key \in keys \/ evs = << >>)
    BY <1>13, <1>16, <2>1 DEF Passed, WroteNothing
  <2>3. VerifyEffect(p, a, h)
    BY <1>4, <1>7, <1>9, <1>10, <1>11, <1>12, <1>14, <2>1, <2>2 DEF VerifyEffect
  <2> QED BY <1>1, <1>2, <1>3, <2>3
<1>17. CASE evs # << >> /\ evs # Refused /\ Written(p, a, key, evs[1], next)
  <2>1. PICK x : x = Apply(agg[a], evs[1])
    OBVIOUS
  <2>2. x \in Aggregate /\ Judged(x, agg[a], h) /\ evs[1].kind # "Recorded"
    BY <1>6, <1>11, <1>17, <2>1, JudgedFacts
  <2>3. Wrote(p, a, x, key) /\ run' \in [Proc -> Run] /\ run'[p] = next
    BY <1>9, <1>17, <2>1, <2>2, WrittenFacts
  <2>4. accepted' = accepted /\ settled' = {}
    BY <1>13, <1>17, <2>2 DEF Written
  <2>5. VerifyEffect(p, a, h)
    BY <1>4, <1>7, <1>9, <1>10, <1>11, <1>12, <1>14, <1>17, <2>2, <2>3, <2>4 DEF VerifyEffect
  <2> QED BY <1>1, <1>2, <1>3, <2>5
<1> QED BY <1>12, <1>15, <1>16, <1>17, HandleCases

\* A move that is proposed: the last ones end the run.
MoveEffect(p, m) ==
    LET rest == run[p].moves \ {m} IN
    /\ run' \in [Proc -> Run] /\ accepted' = accepted
    /\ \/ WroteNothing(p) /\ settled' = settled /\ run'[p] = Idle
       \/ /\ SameRun(run'[p], run[p]) /\ run'[p].moves = rest /\ run'[p].before = run[p].before
          /\ run'[p].pc = (IF rest = {} THEN "done" ELSE "move")
          /\ \/ /\ WroteNothing(p) /\ Key("move", m[1], run[p].ref, m[2]) \in keys
                /\ settled' = IF rest = {} /\ run[p].calm THEN settled \union {Mode(run[p])} ELSE settled
             \/ /\ \E x : /\ Wrote(p, m[1], x, Key("move", m[1], run[p].ref, m[2]))
                          /\ x.state = agg[m[1]].state /\ x.hash = agg[m[1]].hash /\ x.state # "none"
                /\ settled' = IF rest = {} /\ run[p].calm THEN {Mode(run[p])} ELSE {}

\* A move keeps the state and the hash of the anchor that moved.
LEMMA MoveStep ==
    ASSUME TypeOK, NEW p \in Proc, Move(p)
    PROVE  \E m \in run[p].moves : m[1] \in Anchor /\ MoveEffect(p, m)
<1>1. PICK m \in run[p].moves :
        Handle(p, m[1], Key("move", m[1], run[p].ref, m[2]), MoveDecide(agg[m[1]], m[1], m[2], m[3]),
               [run[p] EXCEPT !.pc = IF run[p].moves \ {m} = {} THEN "done" ELSE "move",
                              !.moves = run[p].moves \ {m}])
  BY DEF Move
<1>2. PICK a \in Anchor, b \in AnchorName, h \in Hash : m = <<a, b, h>>
  BY DEF TypeOK, Run
<1>3. m[1] = a /\ m[2] = b /\ m[3] = h
  BY <1>2
<1>4. PICK rest : rest = run[p].moves \ {m}
  OBVIOUS
<1>5. PICK x \in Steps : x = IF rest = {} THEN "done" ELSE "move"
  BY DEF Steps
<1>6. PICK next : next = [run[p] EXCEPT !.pc = x, !.moves = rest]
  OBVIOUS
<1>7. /\ run[p] \in Run /\ agg[a] \in Aggregate
      /\ rest \in SUBSET run[p].moves
  BY <1>4 DEF TypeOK
<1>8. next \in Run /\ SameRun(next, run[p]) /\ next.pc = x /\ next.moves = rest /\ next.before = run[p].before
  <2>1. PICK r \in Run : r = run[p]
    BY <1>7
  <2>2. rest \in SUBSET r.moves /\ next = [r EXCEPT !.pc = x, !.moves = rest]
    BY <1>6, <1>7, <2>1
  <2>3. next \in Run /\ SameRun(next, r) /\ next.pc = x /\ next.moves = rest /\ next.before = r.before
    BY <1>5, <2>1, <2>2 DEF Run, SameRun
  <2> QED BY <2>1, <2>3
<1>9. PICK key : key = Key("move", a, run[p].ref, b)
  OBVIOUS
<1>10. PICK evs : evs = MoveDecide(agg[a], a, b, h)
  OBVIOUS
<1>11. Handle(p, a, key, evs, next)
  BY <1>1, <1>3, <1>4, <1>5, <1>6, <1>9, <1>10
<1>12. evs # << >> /\ (evs = Refused \/ (evs = <<Moved(b)>> /\ agg[a].state # "none"))
  BY <1>10, EventsAreEvents DEF MoveDecide
<1>13. Mode(next) = Mode(run[p]) /\ (next.calm <=> run[p].calm) /\ (next.pc = "done" <=> rest = {})
  BY <1>5, <1>8 DEF Mode, SameRun
<1>14. CASE Stopped(p)
  BY <1>3, <1>14, RunFacts, IdleFacts DEF Stopped, MoveEffect, WroteNothing
<1>15. CASE Passed(p, key, evs, next)
  <2>1. run'[p] = next /\ Alone(p) /\ run' \in [Proc -> Run]
    BY <1>8, <1>15, RunFacts DEF Passed
  <2>2. WroteNothing(p) /\ accepted' = accepted /\ key \in keys
    BY <1>12, <1>15, <2>1 DEF Passed, WroteNothing
  <2>3. settled' = IF rest = {} /\ run[p].calm THEN settled \union {Mode(run[p])} ELSE settled
    BY <1>13, <1>15 DEF Passed
  <2> QED BY <1>3, <1>4, <1>5, <1>8, <1>9, <2>1, <2>2, <2>3 DEF MoveEffect
<1>16. CASE evs # << >> /\ evs # Refused /\ Written(p, a, key, evs[1], next)
  <2>1. evs[1] = Moved(b) /\ agg[a].state # "none"
    BY <1>12, <1>16
  <2>2. PICK y : y = Apply(agg[a], Moved(b))
    OBVIOUS
  <2>3. y \in Aggregate /\ y.hash = agg[a].hash /\ y.state = agg[a].state
    BY <1>7, <2>2, ApplyFacts
  <2>4. Wrote(p, a, y, key) /\ run' \in [Proc -> Run] /\ run'[p] = next
    BY <1>8, <1>16, <2>1, <2>2, <2>3, WrittenFacts
  <2>5. accepted' = accepted
    BY <1>16, <2>1 DEF Written, Moved
  <2>6. settled' = IF rest = {} /\ run[p].calm THEN {Mode(run[p])} ELSE {}
    BY <1>13, <1>16 DEF Written
  <2> QED BY <1>3, <1>4, <1>5, <1>8, <1>9, <2>1, <2>3, <2>4, <2>5, <2>6 DEF MoveEffect
<1> QED BY <1>11, <1>14, <1>15, <1>16, HandleCases

\* The symbols of the files that are there, hashed.
LEMMA SnapshotFacts ==
    ASSUME NEW t \in Trees, NEW files \in SUBSET Path
    PROVE  /\ \A a \in DOMAIN Snapshot(t, files) :
                /\ a \in AnchorName /\ a.path \in files \intersect Parsed /\ a.sym \in Symbol
                /\ Snapshot(t, files)[a] = Resolve(t, a) /\ Resolve(t, a) \in Hash /\ Resolve(t, a) # NoHash
           /\ \A f \in files \intersect Parsed, s \in Symbol :
                Resolve(t, A(f, s)) # NoHash => A(f, s) \in DOMAIN Snapshot(t, files)
<1>1. PICK present : present = {a \in [path : files \intersect Parsed, sym : Symbol] : Resolve(t, a) # NoHash}
  OBVIOUS
<1>2. Snapshot(t, files) = [a \in present |-> Resolve(t, a)]
  BY <1>1 DEF Snapshot
<1>3. DOMAIN Snapshot(t, files) = present
  BY <1>2
<1>4. ASSUME NEW a \in present
      PROVE  /\ a \in AnchorName /\ a.path \in files \intersect Parsed /\ a.sym \in Symbol
             /\ Snapshot(t, files)[a] = Resolve(t, a) /\ Resolve(t, a) \in Hash /\ Resolve(t, a) # NoHash
  <2>1. a \in AnchorName /\ a.path \in files \intersect Parsed /\ a.sym \in Symbol /\ Resolve(t, a) # NoHash
    BY <1>1 DEF AnchorName
  <2> QED BY <1>2, <2>1, ResolveHash
<1>5. ASSUME NEW f \in files \intersect Parsed, NEW s \in Symbol, Resolve(t, A(f, s)) # NoHash
      PROVE  A(f, s) \in present
  <2>1. A(f, s) \in [path : files \intersect Parsed, sym : Symbol]
    BY DEF A
  <2> QED BY <1>1, <1>5, <2>1
<1> QED BY <1>3, <1>4, <1>5

\* A move: its old anchor is gone, and one new anchor has the signature.
LEMMA DetectFacts ==
    ASSUME NEW b, NEW c, NEW m \in DetectMoves(b, c)
    PROVE  /\ m.from \in DOMAIN b \ DOMAIN c /\ m.to \in DOMAIN c \ DOMAIN b
           /\ c[m.to].sig = b[m.from].sig
           /\ \A x \in DOMAIN c \ DOMAIN b : c[x].sig = b[m.from].sig => x = m.to
<1>1. /\ {a \in DOMAIN b \ DOMAIN c : b[a].sig = b[m.from].sig} = {m.from}
      /\ {a \in DOMAIN c \ DOMAIN b : c[a].sig = b[m.from].sig} = {m.to}
  BY DEF DetectMoves
<1>2. m.from \in {a \in DOMAIN b \ DOMAIN c : b[a].sig = b[m.from].sig}
  BY <1>1
<1>3. m.to \in {a \in DOMAIN c \ DOMAIN b : c[a].sig = b[m.from].sig}
  BY <1>1
<1>4. \A x \in {a \in DOMAIN c \ DOMAIN b : c[a].sig = b[m.from].sig} : x = m.to
  BY <1>1
<1> QED BY <1>2, <1>3, <1>4

\* Only the signatures of what was there before count.
LEMMA DetectBySignature ==
    ASSUME NEW b, NEW d, NEW c, DOMAIN b = DOMAIN d, \A a \in DOMAIN b : b[a].sig = d[a].sig
    PROVE  DetectMoves(b, c) = DetectMoves(d, c)
<1>1. ASSUME NEW sig
      PROVE  {a \in DOMAIN b \ DOMAIN c : b[a].sig = sig} = {a \in DOMAIN d \ DOMAIN c : d[a].sig = sig}
  OBVIOUS
<1>2. ASSUME NEW sig
      PROVE  {a \in DOMAIN c \ DOMAIN b : c[a].sig = sig} = {a \in DOMAIN c \ DOMAIN d : c[a].sig = sig}
  OBVIOUS
<1>3. ASSUME NEW m \in [from : DOMAIN b, to : DOMAIN c]
      PROVE  b[m.from].sig = d[m.from].sig
  OBVIOUS
<1> QED BY <1>1, <1>2, <1>3 DEF DetectMoves

\* The detection of moves.
DetectEffect(p, ms) ==
    LET found == DetectMoves(run[p].before, Snapshot(tree, run[p].files)) IN
    /\ run' \in [Proc -> Run] /\ Alone(p) /\ SameRun(run'[p], run[p])
    /\ run'[p].pc = (IF ms = {} THEN "done" ELSE "move") /\ run'[p].moves = ms /\ DOMAIN run'[p].before = {}
    /\ settled' = IF run[p].calm /\ ms = {} THEN settled \union {Mode(run[p])} ELSE settled
    /\ \A n \in ms : run[p].mode # "all" /\ \E m \in found : n[1] = m.from /\ n[2] = m.to
    /\ run[p].mode # "all" => \A m \in found : \E n \in ms : n[1] = m.from /\ n[2] = m.to

\* A detection proposes the moves that DetectMoves found, except for a run over all anchors.
LEMMA DetectStep ==
    ASSUME TypeOK, NEW p \in Proc, Detect(p)
    PROVE  \E ms : DetectEffect(p, ms)
<1>1. /\ run[p] \in Run /\ tree \in Trees /\ run[p].files \in SUBSET Path
      /\ run[p].before \in Hashes
  BY DEF TypeOK, Run
<1>2. PICK after : after = Snapshot(tree, run[p].files)
  OBVIOUS
<1>3. PICK found : found = DetectMoves(run[p].before, after)
  OBVIOUS
<1>4. PICK ms : ms = Proposed(run[p])
  OBVIOUS
<1>5. ASSUME NEW m \in found
      PROVE  /\ DOMAIN run[p].before # {}
             /\ m.from \in Anchor /\ m.to \in AnchorName /\ after[m.to] \in Hash
  <2>1. m.from \in DOMAIN run[p].before /\ m.to \in DOMAIN after
    BY <1>3, DetectFacts
  <2>2. DOMAIN run[p].before \subseteq Anchor
    BY <1>1 DEF Hashes
  <2>3. m.to \in AnchorName /\ after[m.to] \in Hash
    BY <1>1, <1>2, <2>1, SnapshotFacts
  <2> QED BY <2>1, <2>2, <2>3
<1>6. ms \in SUBSET (Anchor \X AnchorName \X Hash)
  BY <1>2, <1>3, <1>4, <1>5 DEF Proposed
<1>7. \A n \in ms : run[p].mode # "all" /\ \E m \in found : n[1] = m.from /\ n[2] = m.to
  BY <1>2, <1>3, <1>4 DEF Proposed
<1>8. ASSUME run[p].mode # "all", NEW m \in found
      PROVE  \E n \in ms : n[1] = m.from /\ n[2] = m.to
  <2>1. <<m.from, m.to, after[m.to]>> \in ms
    BY <1>2, <1>3, <1>4, <1>5, <1>8 DEF Proposed
  <2> QED BY <2>1
<1>9. PICK x \in Steps : x = IF ms = {} THEN "done" ELSE "move"
  BY DEF Steps
<1>10. /\ run' = [run EXCEPT ![p].pc = x, ![p].moves = ms, ![p].before = NoHashes]
       /\ settled' = IF run[p].calm /\ ms = {} THEN settled \union {Mode(run[p])} ELSE settled
  <2>1. /\ run' = [run EXCEPT ![p].pc = IF ms = {} THEN "done" ELSE "move", ![p].moves = ms,
                               ![p].before = NoHashes]
        /\ settled' = IF run[p].calm /\ ms = {} THEN settled \union {Mode(run[p])} ELSE settled
    BY <1>4 DEF Detect
  <2> QED BY <1>9, <2>1
<1>11. /\ run' \in [Proc -> Run] /\ Alone(p) /\ SameRun(run'[p], run[p])
       /\ run'[p].pc = x /\ run'[p].moves = ms /\ DOMAIN run'[p].before = {}
  <2>1. NoHashes \in Hashes /\ DOMAIN NoHashes = {}
    BY DEF NoHashes, Hashes
  <2>2. PICK r : r = [run[p] EXCEPT !.pc = x, !.moves = ms, !.before = NoHashes]
    OBVIOUS
  <2>3. r \in Run /\ SameRun(r, run[p]) /\ r.pc = x /\ r.moves = ms /\ r.before = NoHashes
    BY <1>1, <1>6, <1>9, <2>1, <2>2 DEF Run, SameRun
  <2>4. run' = [run EXCEPT ![p] = r]
    BY <1>10, <2>2 DEF TypeOK
  <2>5. run'[p] = r /\ Alone(p) /\ run' \in [Proc -> Run]
    BY <2>3, <2>4, RunFacts
  <2> QED BY <2>1, <2>3, <2>5
<1>12. DetectEffect(p, ms)
  BY <1>2, <1>3, <1>7, <1>8, <1>9, <1>10, <1>11 DEF DetectEffect
<1> QED BY <1>12

-----------------------------------------------------------------------------
(* Types, locals and baselines *)

\* The signature and the body an anchor is compared with are those accepted.
Baseline ==
    \A a \in Anchor : agg[a].state # "none" =>
        accepted[a].sig = agg[a].hash.sig /\ accepted[a].body = agg[a].hash.body

\* The facts every other argument rests on.
Basic == TypeOK /\ Locals /\ AcceptedHashes /\ Baseline

\* The aggregates after an event.
LEMMA WroteFacts ==
    ASSUME TypeOK, NEW p \in Proc, NEW a \in Anchor, NEW x, NEW key, Wrote(p, a, x, key)
    PROVE  /\ agg' \in [Anchor -> Aggregate] /\ index' = agg' /\ agg'[a] = x
           /\ \A b \in Anchor : b # a => agg'[b] = agg[b]
BY DEF TypeOK, Wrote

\* The locals of a process that made no step.
LEMMA LocalsKept ==
    ASSUME NEW r \in Run, NEW h \in Nat, NEW i \in Nat, h <= i, NEW g, NEW k, LocalsOf(r, h, g),
           \A a \in Anchor : g[a].state # "none" => k[a].state # "none",
           NEW s, s = r \/ s = Uncalmed(r)
    PROVE  LocalsOf(s, i, k)
<1>1. r.todo \subseteq Anchor /\ DOMAIN r.before \subseteq Anchor /\ r.ref \in Nat
  BY DEF Run, Hashes
<1>2. CASE s = Idle
  BY <1>2, IdleFacts DEF LocalsOf
<1>3. CASE s = r
  BY <1>1, <1>3 DEF LocalsOf
<1>4. CASE SameButCalm(s, r) /\ ~s.calm
  BY <1>1, <1>4 DEF LocalsOf, SameButCalm
<1> QED BY <1>2, <1>3, <1>4, UncalmedFacts

\* A step of one process keeps the facts about the locals of the others.
LEMMA LocalsOfOthers ==
    ASSUME TypeOK, Locals, NEW p \in Proc, Alone(p) \/ Noticed(p), head' = head,
           \A a \in Anchor : agg[a].state # "none" => agg'[a].state # "none"
    PROVE  \A q \in Proc : q # p => LocalsOf(run'[q], head', agg')
<1>1. \A q \in Proc : run[q] \in Run /\ LocalsOf(run[q], head, agg)
  BY DEF TypeOK, Locals
<1>2. head \in Nat /\ head <= head
  BY AnchorConstants DEF TypeOK
<1>3. \A q \in Proc : q # p => run'[q] = run[q] \/ run'[q] = Uncalmed(run[q])
  BY DEF Alone, Noticed
<1> SUFFICES ASSUME NEW q \in Proc, q # p PROVE LocalsOf(run'[q], head', agg')
  OBVIOUS
<1>4. PICK s, k : s = run'[q] /\ k = agg'
  OBVIOUS
<1>5. LocalsOf(s, head, k)
  BY <1>1, <1>2, <1>3, <1>4, LocalsKept
<1> QED BY <1>4, <1>5

\* The parts of the state that a step of a process leaves alone.
Elsewhere == UNCHANGED <<tree, base, prev, head, edits>>

\* What one process does keeps the basic facts when its own locals do, and what it wrote is a baseline.
LEMMA BasicOfProcess ==
    ASSUME Basic, NEW p \in Proc, Elsewhere, runs' \in 0..MaxRuns, changes' \in Seq(ChangeEvent),
           run' \in [Proc -> Run], Alone(p) \/ Noticed(p), LocalsOf(run'[p], head', agg'),
           agg' \in [Anchor -> Aggregate], index' = agg', accepted' \in [Anchor -> Hash],
           \A a \in Anchor : \/ agg'[a] = agg[a] /\ accepted'[a] = accepted[a]
                             \/ /\ agg'[a].state # "none" /\ agg'[a].hash # NoHash /\ agg'[a].hash \in HashOf(a)
                                /\ accepted'[a] \in HashOf(a) \union {NoHash}
                                /\ accepted'[a].sig = agg'[a].hash.sig /\ accepted'[a].body = agg'[a].hash.body
    PROVE  Basic'
<1>1. TypeOK'
  BY DEF Basic, TypeOK, Elsewhere
<1>2. Locals'
  <2>1. \A a \in Anchor : agg[a].state # "none" => agg'[a].state # "none"
    OBVIOUS
  <2> QED BY <2>1, LocalsOfOthers DEF Basic, Locals, Elsewhere
<1>3. AcceptedHashes' /\ Baseline'
  BY DEF Basic, AcceptedHashes, Baseline
<1> QED BY <1>1, <1>2, <1>3 DEF Basic

\* At the start nothing is recorded.
LEMMA BasicInit ==
    ASSUME Init
    PROVE  Basic
<1>1. NewAnchor \in Aggregate /\ NewAnchor.state = "none" /\ NewAnchor.hash = NoHash
  BY NoHashIsHash DEF NewAnchor, Aggregate, States
<1>2. TypeOK
  <2>1. /\ tree \in Trees /\ base = tree /\ prev = tree /\ changes \in Seq(ChangeEvent)
        /\ head \in 0..MaxCommits /\ edits \in 0..MaxEdits /\ runs \in 0..MaxRuns
    BY AnchorConstants DEF Init
  <2>2. run \in [Proc -> Run]
    BY IdleFacts DEF Init
  <2>3. agg \in [Anchor -> Aggregate] /\ accepted \in [Anchor -> Hash] /\ index = agg
    BY <1>1, NoHashIsHash DEF Init
  <2>4. \A a \in Anchor : agg[a].hash = NoHash /\ agg[a].state = "none"
    BY <1>1 DEF Init
  <2> QED BY <2>1, <2>2, <2>3, <2>4 DEF TypeOK
<1>3. Locals
  BY IdleFacts DEF Init, Locals, LocalsOf
<1>4. AcceptedHashes /\ Baseline
  BY <1>1 DEF Init, AcceptedHashes, Baseline
<1> QED BY <1>2, <1>3, <1>4 DEF Basic

\* A step of the user.
LEMMA BasicOfUser ==
    ASSUME Basic, UserStep
    PROVE  Basic'
<1>1. \A q \in Proc : run[q] \in Run /\ LocalsOf(run[q], head, agg) /\ run'[q] = Uncalmed(run[q])
  BY DEF Basic, TypeOK, Locals, UserStep
<1>2. \A q \in Proc : Uncalmed(run[q]) \in Run
  BY <1>1, UncalmedFacts
<1>3. run' \in [Proc -> Run]
  BY <1>2 DEF UserStep
<1>4. TypeOK'
  BY <1>3 DEF Basic, TypeOK, UserStep
<1>5. head \in Nat /\ head' \in Nat /\ head <= head' /\ agg' = agg
  BY AnchorConstants DEF Basic, TypeOK, UserStep
<1>6. Locals'
  <2>1. \A q \in Proc : LocalsOf(run'[q], head', agg')
    BY <1>1, <1>5, LocalsKept
  <2> QED BY <2>1 DEF Locals
<1>7. AcceptedHashes' /\ Baseline'
  BY DEF Basic, AcceptedHashes, Baseline, UserStep
<1> QED BY <1>4, <1>6, <1>7 DEF Basic

\* The steps that write no event of an anchor.
LEMMA BasicOfQuiet ==
    ASSUME Basic, NEW p \in Proc, Elsewhere, runs' \in 0..MaxRuns, changes' \in Seq(ChangeEvent),
           run' \in [Proc -> Run], Alone(p) \/ Noticed(p), LocalsOf(run'[p], head, agg),
           UNCHANGED <<agg, index, accepted>>
    PROVE  Basic'
<1>1. agg' \in [Anchor -> Aggregate] /\ index' = agg' /\ accepted' \in [Anchor -> Hash]
  BY DEF Basic, TypeOK
<1>2. LocalsOf(run'[p], head', agg')
  BY DEF Elsewhere
<1> QED BY <1>1, <1>2, BasicOfProcess

\* Starting to record or to verify.
LEMMA BasicOfStart ==
    ASSUME Basic, NEW p \in Proc,
           \/ \E a \in Anchor : StartRecord(p, a)
           \/ \E mode \in {"all", "changed", "commit"}, files \in SUBSET Path : StartVerify(p, mode, files)
    PROVE  Basic'
<1>1. TypeOK /\ head \in Nat /\ runs \in 0..MaxRuns /\ MaxRuns \in Nat /\ changes \in Seq(ChangeEvent)
  BY AnchorConstants DEF Basic, TypeOK
<1>2. ASSUME NEW a \in Anchor, StartRecord(p, a) PROVE Basic'
  <2>1. /\ run' \in [Proc -> Run] /\ Noticed(p) /\ RecordRun(run'[p], a, Resolve(tree, a))
        /\ Resolve(tree, a) \in HashOf(a) /\ Resolve(tree, a) # NoHash
    BY <1>1, <1>2, StartRecordRun
  <2>2. LocalsOf(run'[p], head, agg)
    BY <1>1, <2>1 DEF RecordRun, LocalsOf
  <2>3. Elsewhere /\ runs' \in 0..MaxRuns /\ changes' \in Seq(ChangeEvent) /\ UNCHANGED <<agg, index, accepted>>
    <3>1. /\ runs < MaxRuns /\ runs' = runs + 1
          /\ UNCHANGED <<tree, base, prev, head, agg, index, changes, accepted, edits>>
      BY <1>2 DEF StartRecord
    <3>2. runs' \in 0..MaxRuns
      BY <1>1, <3>1
    <3> QED BY <1>1, <3>1, <3>2 DEF Elsewhere
  <2> QED BY <2>1, <2>2, <2>3, BasicOfQuiet
<1>3. ASSUME NEW mode \in {"all", "changed", "commit"}, NEW files \in SUBSET Path, StartVerify(p, mode, files)
      PROVE  Basic'
  <2>1. run' \in [Proc -> Run] /\ Noticed(p) /\ VerifyRun(run'[p], mode, files)
    BY <1>1, <1>3, StartVerifyRun
  <2>2. mode = "commit" => head > 0
    BY <1>3 DEF StartVerify
  <2>3. LocalsOf(run'[p], head, agg)
    BY <1>1, <2>1, <2>2 DEF VerifyRun, LocalsOf, Listed
  <2>4. Elsewhere /\ runs' \in 0..MaxRuns /\ changes' \in Seq(ChangeEvent) /\ UNCHANGED <<agg, index, accepted>>
    <3>1. /\ runs < MaxRuns /\ runs' = runs + 1
          /\ UNCHANGED <<tree, base, prev, head, agg, index, changes, accepted, edits>>
      BY <1>3 DEF StartVerify
    <3>2. runs' \in 0..MaxRuns
      BY <1>1, <3>1
    <3> QED BY <1>1, <3>1, <3>2 DEF Elsewhere
  <2> QED BY <2>1, <2>3, <2>4, BasicOfQuiet
<1> QED BY <1>2, <1>3

\* A record of a Change.
LEMMA ChangeRecordFacts ==
    ASSUME TypeOK, NEW p \in Proc, NEW kind \in {"ChangeOpened", "Settled"}, NEW n \in Nat
    PROVE  ChangeRecord(kind, p, n) \in ChangeEvent
<1>1. run[p] \in Run
  BY DEF TypeOK
<1> QED BY <1>1 DEF Run, ChangeRecord, ChangeEvent

\* The derivation and the observations.
LEMMA BasicOfRun ==
    ASSUME Basic, NEW p \in Proc,
           Lookup(p) \/ OpenChange(p) \/ Settle(p) \/ Observe(p) \/ Detect(p) \/ Stop(p)
    PROVE  Basic'
<1>1. /\ TypeOK /\ head \in Nat /\ runs \in 0..MaxRuns /\ changes \in Seq(ChangeEvent) /\ Len(changes) \in Nat
      /\ LocalsOf(run[p], head, agg) /\ run[p] \in Run /\ run[p].change \in Nat
  BY AnchorConstants DEF Basic, TypeOK, Locals, Run
<1>2. CASE Lookup(p)
  <2>1. Stepped(p) /\ run'[p].pc \in {"open", "observe"}
    BY <1>1, <1>2, LookupStep
  <2>2. LocalsOf(run'[p], head, agg)
    BY <1>1, <1>2, <2>1 DEF Lookup, Stepped, SameRun, LocalsOf
  <2> QED BY <1>1, <1>2, <2>1, <2>2, BasicOfQuiet DEF Lookup, Stepped, Elsewhere
<1>3. CASE OpenChange(p)
  <2>1. Stepped(p) /\ run'[p].pc \in {"settle", "observe"}
    BY <1>1, <1>3, OpenStep
  <2>2. LocalsOf(run'[p], head, agg)
    BY <1>1, <1>3, <2>1 DEF OpenChange, Stepped, SameRun, LocalsOf
  <2>3. PICK e \in ChangeEvent : changes' = Append(changes, e)
    BY <1>1, <1>3, ChangeRecordFacts DEF OpenChange
  <2>4. changes' \in Seq(ChangeEvent)
    BY <1>1, <2>3
  <2> QED BY <1>1, <1>3, <2>1, <2>2, <2>4, BasicOfQuiet DEF OpenChange, Stepped, Elsewhere
<1>4. CASE Settle(p)
  <2>1. Stepped(p) /\ run'[p].pc = "observe"
    BY <1>1, <1>4, SettleStep
  <2>2. LocalsOf(run'[p], head, agg)
    BY <1>1, <1>4, <2>1 DEF Settle, Stepped, SameRun, LocalsOf
  <2>3. PICK e \in ChangeEvent : changes' = Append(changes, e)
    BY <1>1, <1>4, ChangeRecordFacts DEF Settle
  <2>4. changes' \in Seq(ChangeEvent)
    BY <1>1, <2>3
  <2> QED BY <1>1, <1>4, <2>1, <2>2, <2>4, BasicOfQuiet DEF Settle, Stepped, Elsewhere
<1>5. CASE Observe(p)
  <2>1. /\ Stepped(p) /\ run'[p].pc = "verify" /\ run'[p].at \in Anchor /\ run'[p].at \in run[p].todo
        /\ run'[p].seen \in HashOf(run'[p].at)
    BY <1>1, <1>5, ObserveStep
  <2>2. LocalsOf(run'[p], head, agg)
    BY <1>1, <2>1 DEF Stepped, SameRun, LocalsOf
  <2> QED BY <1>1, <1>5, <2>1, <2>2, BasicOfQuiet DEF Observe, Stepped, Elsewhere
<1>6. CASE Detect(p)
  <2>1. PICK ms : DetectEffect(p, ms)
    BY <1>1, <1>6, DetectStep
  <2>2. /\ run' \in [Proc -> Run] /\ Alone(p) /\ SameRun(run'[p], run[p])
        /\ run'[p].pc = (IF ms = {} THEN "done" ELSE "move") /\ run'[p].moves = ms /\ DOMAIN run'[p].before = {}
    BY <2>1 DEF DetectEffect
  <2>3. LocalsOf(run'[p], head, agg)
    <3>1. run[p].todo = {}
      BY <1>6 DEF Detect
    <3> QED BY <1>1, <2>2, <3>1 DEF SameRun, LocalsOf
  <2> QED BY <1>1, <1>6, <2>2, <2>3, BasicOfQuiet DEF Detect, Elsewhere
<1>7. CASE Stop(p)
  <2>1. run' \in [Proc -> Run] /\ Alone(p) /\ run'[p] = Idle
    BY <1>1, <1>7, RunFacts, IdleFacts DEF Stop
  <2>2. LocalsOf(run'[p], head, agg)
    BY <1>1, <2>1, IdleFacts DEF LocalsOf
  <2> QED BY <1>1, <1>7, <2>1, <2>2, BasicOfQuiet DEF Stop, Elsewhere
<1> QED BY <1>2, <1>3, <1>4, <1>5, <1>6, <1>7

\* The commands of an anchor.
LEMMA BasicOfCommand ==
    ASSUME Basic, NEW p \in Proc, Record(p) \/ Verify(p) \/ Move(p)
    PROVE  Basic'
<1>1. /\ TypeOK /\ Locals /\ head \in Nat /\ runs \in 0..MaxRuns /\ changes \in Seq(ChangeEvent)
      /\ LocalsOf(run[p], head, agg) /\ run[p] \in Run /\ run[p].todo \subseteq Anchor
      /\ DOMAIN run[p].before \subseteq Anchor
  BY AnchorConstants DEF Basic, TypeOK, Locals, Run, Hashes
<1>2. \A a \in Anchor :
        /\ agg[a] \in Aggregate /\ agg[a].hash \in HashOf(a) \union {NoHash}
        /\ (agg[a].hash = NoHash) <=> (agg[a].state = "none")
        /\ accepted[a] \in HashOf(a) \union {NoHash}
        /\ agg[a].state # "none" => accepted[a].sig = agg[a].hash.sig /\ accepted[a].body = agg[a].hash.body
  BY DEF Basic, TypeOK, AcceptedHashes, Baseline
<1>3. /\ agg \in [Anchor -> Aggregate] /\ accepted \in [Anchor -> Hash] /\ index = agg
      /\ Elsewhere /\ UNCHANGED <<runs, changes>>
  BY DEF Basic, TypeOK, Record, Verify, Move, Elsewhere
<1>4. CASE Record(p)
  <2>1. PICK a \in Anchor : a = run[p].at
    BY <1>1, <1>4 DEF LocalsOf, Record
  <2>2. PICK h \in HashOf(a) : h = run[p].seen /\ h # NoHash /\ h \in Hash
    BY <1>1, <1>4, <2>1 DEF LocalsOf, Record, Run
  <2>3. RecordEffect(p, a, h)
    BY <1>1, <1>4, <2>1, <2>2, RecordStep
  <2>4. run' \in [Proc -> Run] /\ LocalsOf(run'[p], head, agg) /\ LocalsOf(run'[p], head', agg')
    BY <1>1, <1>3, <2>3, IdleFacts DEF RecordEffect, LocalsOf, Elsewhere
  <2>5. CASE WroteNothing(p)
    BY <1>1, <1>3, <2>4, <2>5, BasicOfQuiet DEF WroteNothing
  <2>6. CASE /\ \E x, key : Wrote(p, a, x, key) /\ key[1] = "record" /\ x.hash = h /\ x.state = "recorded"
             /\ accepted' = [accepted EXCEPT ![a] = h]
    <3>1. PICK x, key : Wrote(p, a, x, key) /\ x.hash = h /\ x.state = "recorded"
      BY <2>6
    <3>2. /\ agg' \in [Anchor -> Aggregate] /\ index' = agg' /\ agg'[a] = x /\ Noticed(p)
          /\ \A b \in Anchor : b # a => agg'[b] = agg[b]
      BY <1>1, <3>1, WroteFacts DEF Wrote
    <3>3. accepted' \in [Anchor -> Hash] /\ accepted'[a] = h /\ \A b \in Anchor : b # a => accepted'[b] = accepted[b]
      BY <1>3, <2>2, <2>6
    <3>4. \A b \in Anchor : \/ agg'[b] = agg[b] /\ accepted'[b] = accepted[b]
                            \/ /\ agg'[b].state # "none" /\ agg'[b].hash # NoHash /\ agg'[b].hash \in HashOf(b)
                               /\ accepted'[b] \in HashOf(b) \union {NoHash}
                               /\ accepted'[b].sig = agg'[b].hash.sig /\ accepted'[b].body = agg'[b].hash.body
      BY <2>2, <3>1, <3>2, <3>3
    <3> QED BY <1>1, <1>3, <2>4, <3>2, <3>3, <3>4, BasicOfProcess
  <2> QED BY <2>3, <2>5, <2>6 DEF RecordEffect
<1>5. CASE Verify(p)
  <2>1. PICK a \in Anchor : a = run[p].at
    BY <1>1, <1>5, VerifyStep
  <2>2. PICK h \in HashOf(a) : h = run[p].seen
    BY <1>1, <1>5, <2>1, VerifyStep
  <2>3. VerifyEffect(p, a, h) /\ agg[a].state # "none"
    BY <1>1, <1>5, <2>1, <2>2, VerifyStep
  <2>4. run' \in [Proc -> Run] /\ accepted' = accepted /\ \E v \in SUBSET Anchor : AfterVerify(run'[p], run[p], a, v)
    BY <2>3 DEF VerifyEffect
  <2>5. ASSUME NEW g, \A b \in Anchor : agg[b].state # "none" => g[b].state # "none"
        PROVE  LocalsOf(run'[p], head, g)
    BY <1>1, <2>4, <2>5 DEF AfterVerify, LocalsOf
  <2>6. CASE WroteNothing(p)
    <3>1. LocalsOf(run'[p], head, agg)
      BY <2>5
    <3> QED BY <1>1, <1>3, <2>4, <2>6, <3>1, BasicOfQuiet DEF WroteNothing
  <2>7. CASE \E x : Wrote(p, a, x, Key("verify", a, run[p].ref, h)) /\ Judged(x, agg[a], h)
    <3>1. PICK x : Wrote(p, a, x, Key("verify", a, run[p].ref, h)) /\ Judged(x, agg[a], h)
      BY <2>7
    <3>2. /\ agg' \in [Anchor -> Aggregate] /\ index' = agg' /\ agg'[a] = x /\ Noticed(p)
          /\ \A b \in Anchor : b # a => agg'[b] = agg[b]
      BY <1>1, <3>1, WroteFacts DEF Wrote
    <3>3. /\ x.state # "none" /\ x.hash # NoHash /\ x.hash \in HashOf(a)
          /\ x.hash.sig = agg[a].hash.sig /\ x.hash.body = agg[a].hash.body
      BY <1>2, <2>2, <2>3, <3>1 DEF Judged
    <3>4. LocalsOf(run'[p], head', agg')
      <4>1. \A b \in Anchor : agg[b].state # "none" => agg'[b].state # "none"
        BY <3>2, <3>3
      <4>2. LocalsOf(run'[p], head, agg')
        BY <2>5, <4>1
      <4> QED BY <1>3, <4>2 DEF Elsewhere
    <3>5. \A b \in Anchor : \/ agg'[b] = agg[b] /\ accepted'[b] = accepted[b]
                            \/ /\ agg'[b].state # "none" /\ agg'[b].hash # NoHash /\ agg'[b].hash \in HashOf(b)
                               /\ accepted'[b] \in HashOf(b) \union {NoHash}
                               /\ accepted'[b].sig = agg'[b].hash.sig /\ accepted'[b].body = agg'[b].hash.body
      BY <1>2, <2>3, <2>4, <3>2, <3>3
    <3> QED BY <1>1, <1>3, <2>4, <3>2, <3>4, <3>5, BasicOfProcess
  <2> QED BY <2>3, <2>6, <2>7 DEF VerifyEffect
<1>6. CASE Move(p)
  <2>1. PICK m \in run[p].moves : m[1] \in Anchor /\ MoveEffect(p, m)
    BY <1>1, <1>6, MoveStep
  <2>2. PICK a \in Anchor : a = m[1]
    BY <2>1
  <2>3. run' \in [Proc -> Run] /\ accepted' = accepted
    BY <2>1 DEF MoveEffect
  <2>4. ASSUME NEW g, \A b \in Anchor : agg[b].state # "none" => g[b].state # "none"
        PROVE  LocalsOf(run'[p], head, g)
    <3>1. CASE run'[p] = Idle
      BY <1>1, <3>1, IdleFacts DEF LocalsOf
    <3>2. CASE /\ SameRun(run'[p], run[p]) /\ run'[p].moves = run[p].moves \ {m} /\ run'[p].before = run[p].before
               /\ run'[p].pc = (IF run[p].moves \ {m} = {} THEN "done" ELSE "move")
      <4>1. run[p].todo = {}
        BY <1>1, <1>6 DEF LocalsOf, Move
      <4> QED BY <1>1, <2>4, <3>2, <4>1 DEF LocalsOf, SameRun
    <3> QED BY <2>1, <3>1, <3>2 DEF MoveEffect
  <2>5. CASE WroteNothing(p)
    <3>1. LocalsOf(run'[p], head, agg)
      BY <2>4
    <3> QED BY <1>1, <1>3, <2>3, <2>5, <3>1, BasicOfQuiet DEF WroteNothing
  <2>6. CASE \E x, key : Wrote(p, a, x, key) /\ x.state = agg[a].state /\ x.hash = agg[a].hash /\ x.state # "none"
    <3>1. PICK x, key : Wrote(p, a, x, key) /\ x.state = agg[a].state /\ x.hash = agg[a].hash /\ x.state # "none"
      BY <2>6
    <3>2. /\ agg' \in [Anchor -> Aggregate] /\ index' = agg' /\ agg'[a] = x /\ Noticed(p)
          /\ \A b \in Anchor : b # a => agg'[b] = agg[b]
      BY <1>1, <3>1, WroteFacts DEF Wrote
    <3>3. LocalsOf(run'[p], head', agg')
      <4>1. \A b \in Anchor : agg[b].state # "none" => agg'[b].state # "none"
        BY <3>1, <3>2
      <4>2. LocalsOf(run'[p], head, agg')
        BY <2>4, <4>1
      <4> QED BY <1>3, <4>2 DEF Elsewhere
    <3>4. \A b \in Anchor : \/ agg'[b] = agg[b] /\ accepted'[b] = accepted[b]
                            \/ /\ agg'[b].state # "none" /\ agg'[b].hash # NoHash /\ agg'[b].hash \in HashOf(b)
                               /\ accepted'[b] \in HashOf(b) \union {NoHash}
                               /\ accepted'[b].sig = agg'[b].hash.sig /\ accepted'[b].body = agg'[b].hash.body
      BY <1>2, <2>3, <3>1, <3>2
    <3> QED BY <1>1, <1>3, <2>3, <3>2, <3>3, <3>4, BasicOfProcess
  <2> QED BY <2>1, <2>2, <2>5, <2>6 DEF MoveEffect
<1> QED BY <1>4, <1>5, <1>6

\* Every step keeps the basic facts.
LEMMA BasicStep ==
    ASSUME Basic, [Next]_vars
    PROVE  Basic'
<1>1. CASE UNCHANGED vars
  BY <1>1 DEF vars, Basic, TypeOK, Locals, AcceptedHashes, Baseline
<1>2. CASE \/ \E p \in Path, f \in (UNION {File[q] : q \in Path}) \union {Missing} : Edit(p, f)
           \/ \E p, q \in Path : Rename(p, q)
           \/ \E paths \in SUBSET Path : Commit(paths)
  BY <1>2, UserSteps, BasicOfUser DEF Basic
<1>3. ASSUME NEW p \in Proc,
             \/ \E a \in Anchor : StartRecord(p, a)
             \/ \E mode \in {"all", "changed", "commit"}, files \in SUBSET Path : StartVerify(p, mode, files)
             \/ Lookup(p) \/ OpenChange(p) \/ Settle(p)
             \/ Observe(p) \/ Detect(p) \/ Record(p) \/ Verify(p) \/ Move(p) \/ Stop(p)
      PROVE  Basic'
  BY <1>3, BasicOfStart, BasicOfRun, BasicOfCommand, Zenon
<1> QED BY <1>1, <1>2, <1>3, Zenon DEF Next

\* Every variable keeps a value of its kind, an anchor has a baseline exactly when it was
\* recorded, and the index folds to the aggregates (AnchorIndex.Handle, Anchor.Apply).
THEOREM AnchorTypeOK == Spec => []TypeOK
<1>1. Basic => TypeOK
  BY DEF Basic
<1> QED BY <1>1, BasicInit, BasicStep, PTL DEF Spec

\* Only a recording moves the signature and the body an anchor is compared with, whatever
\* verifications observe and in which order (Anchor.verify, Anchor.Apply).
THEOREM AnchorBaseline == Spec => []BaselineIsAccepted
<1>1. Basic => BaselineIsAccepted
  BY CmpFacts DEF Basic, Baseline, BaselineIsAccepted
<1> QED BY <1>1, BasicInit, BasicStep, PTL DEF Spec

-----------------------------------------------------------------------------
(* The Changes of a commit *)

ChangeFacts == Numbered /\ SecondChange /\ Derivations

\* The same derivation, at the same step.
SameDerivation(s, r) ==
    s.pc = r.pc /\ s.ref = r.ref /\ s.known = r.known /\ s.impact = r.impact /\ s.change = r.change

\* No derivation between its lookup and the settling.
NotDeriving(s) == s.pc \notin {"open", "settle"} /\ s.known <= Len(changes)

\* The steps that record no Change.
LEMMA ChangesKept ==
    ASSUME Basic, ChangeFacts, changes' = changes, head' \in Nat, head <= head',
           \A q \in Proc : \/ NotDeriving(run'[q]) \/ SameDerivation(run'[q], run[q])
                           \/ /\ run'[q].pc = "open" /\ run'[q].known <= Len(changes)
                              /\ \A n \in OpenedIn(changes, run'[q].ref) : run'[q].known < n
    PROVE  ChangeFacts'
<1>1. head \in Nat
  BY AnchorConstants DEF Basic, TypeOK
<1>2. Numbered'
  BY <1>1 DEF ChangeFacts, Numbered, OpenedIn
<1>3. SecondChange'
  BY DEF ChangeFacts, SecondChange, OpenedIn
<1>4. Derivations'
  <2>1. ASSUME NEW q \in Proc
        PROVE  /\ run'[q].known <= Len(changes)
               /\ run'[q].pc = "open" => \A n \in OpenedIn(changes, run'[q].ref) : run'[q].known < n
    BY DEF ChangeFacts, Derivations, NotDeriving, SameDerivation
  <2>2. ASSUME NEW q \in Proc, run'[q].pc = "settle"
        PROVE  SameDerivation(run'[q], run[q])
    BY <2>2 DEF NotDeriving
  <2>3. ASSUME NEW q \in Proc, run'[q].pc = "settle"
        PROVE  /\ ~run'[q].impact
               /\ run'[q].change \in OpenedIn(changes, run'[q].ref) /\ run'[q].known < run'[q].change
               /\ \A n \in 1..Len(changes) : changes[n].kind = "Settled" => changes[n].change # run'[q].change
    BY <2>2, <2>3 DEF ChangeFacts, Derivations, SameDerivation
  <2>4. ASSUME NEW p \in Proc, NEW q \in Proc, p # q, run'[p].pc = "settle", run'[q].pc = "settle"
        PROVE  run'[p].change # run'[q].change
    BY <2>2, <2>4 DEF ChangeFacts, Derivations, SameDerivation
  <2> QED BY <2>1, <2>3, <2>4 DEF Derivations, OpenedIn
<1> QED BY <1>2, <1>3, <1>4 DEF ChangeFacts

\* A record is added.
LEMMA AppendFacts ==
    ASSUME NEW cs \in Seq(ChangeEvent), NEW e \in ChangeEvent
    PROVE  /\ Len(Append(cs, e)) = Len(cs) + 1 /\ Append(cs, e)[Len(cs) + 1] = e
           /\ \A n \in 1..Len(cs) : Append(cs, e)[n] = cs[n]
OBVIOUS

\* The records after a new one.
LEMMA RecordedFacts ==
    ASSUME TypeOK, NEW e \in ChangeEvent, changes' = Append(changes, e)
    PROVE  /\ Len(changes) \in Nat /\ Len(changes') = Len(changes) + 1 /\ changes'[Len(changes) + 1] = e
           /\ \A n \in 1..Len(changes) : changes'[n] = changes[n]
           /\ \A ref, n : n \in OpenedIn(changes', ref) <=>
                n \in OpenedIn(changes, ref) \/ (n = Len(changes) + 1 /\ e.kind = "ChangeOpened" /\ e.ref = ref)
<1>1. /\ changes \in Seq(ChangeEvent) /\ Len(changes) \in Nat
      /\ Len(changes') = Len(changes) + 1 /\ changes'[Len(changes) + 1] = e
      /\ \A n \in 1..Len(changes) : changes'[n] = changes[n]
  BY AppendFacts DEF TypeOK
<1>2. \A n : n \in 1..Len(changes') <=> n \in 1..Len(changes) \/ n = Len(changes) + 1
  BY <1>1
<1>3. ASSUME NEW ref, NEW n
      PROVE  n \in OpenedIn(changes', ref) <=>
               n \in OpenedIn(changes, ref) \/ (n = Len(changes) + 1 /\ e.kind = "ChangeOpened" /\ e.ref = ref)
  BY <1>1, <1>2 DEF OpenedIn
<1> QED BY <1>1, <1>3

\* The opening of a Change.
LEMMA ChangesOpened ==
    ASSUME Basic, ChangeFacts, NEW p \in Proc, OpenChange(p)
    PROVE  ChangeFacts'
<1>1. TypeOK /\ run[p] \in Run /\ LocalsOf(run[p], head, agg) /\ run[p].pc = "open" /\ head' = head
  BY DEF Basic, TypeOK, Locals, OpenChange
<1>2. /\ run[p].ref \in Nat /\ run[p].known \in Nat /\ head \in Nat /\ run[p].ref > 0 /\ run[p].ref <= head
      /\ run[p].impact \in BOOLEAN
  BY <1>1, AnchorConstants DEF Run, LocalsOf, TypeOK
<1>3. PICK N \in Nat : N = Len(changes) + 1
  BY <1>1 DEF TypeOK
<1>4. PICK e : e = ChangeRecord("ChangeOpened", p, N)
  OBVIOUS
<1>5. /\ e \in ChangeEvent /\ e.kind = "ChangeOpened" /\ e.change = N /\ e.ref = run[p].ref /\ e.known = run[p].known
      /\ e.impact = run[p].impact
  BY <1>1, <1>3, <1>4, ChangeRecordFacts DEF ChangeRecord
<1>6. changes' = Append(changes, e)
  BY <1>3, <1>4 DEF OpenChange
<1>7. /\ Len(changes) \in Nat /\ Len(changes') = N /\ changes'[N] = e
      /\ \A n \in 1..Len(changes) : changes'[n] = changes[n]
      /\ \A ref, n : n \in OpenedIn(changes', ref) <=> n \in OpenedIn(changes, ref) \/ (n = N /\ run[p].ref = ref)
  BY <1>1, <1>3, <1>5, <1>6, RecordedFacts
<1>8. \A n : n \in 1..Len(changes') => n \in 1..Len(changes) \/ n = N
  BY <1>3, <1>7
<1>9. /\ \A q \in Proc : q # p => run'[q] = run[q]
      /\ run'[p].ref = run[p].ref /\ run'[p].known = run[p].known /\ run'[p].impact = run[p].impact
      /\ run'[p].pc = IF run[p].impact THEN "observe" ELSE "settle"
      /\ run'[p].change = IF run[p].impact THEN 0 ELSE N
  BY <1>1, <1>3, OpenStep DEF Stepped, SameRun, Alone
<1>10. /\ run[p].known <= Len(changes)
       /\ \A n \in OpenedIn(changes, run[p].ref) : run[p].known < n
  BY <1>1 DEF ChangeFacts, Derivations
<1>11. Numbered'
  <2>1. ASSUME NEW n \in 1..Len(changes)
        PROVE  /\ changes'[n].ref \in 1..head' /\ changes'[n].known < n
               /\ changes'[n].kind = "ChangeOpened" => changes'[n].change = n
               /\ changes'[n].kind = "Settled" =>
                    /\ ~changes'[n].impact
                    /\ changes'[n].change \in OpenedIn(changes', changes'[n].ref) /\ changes'[n].change < n
                    /\ \A m \in 1..Len(changes') :
                         m # n /\ changes'[m].kind = "Settled" => changes'[m].change # changes'[n].change
    <3>1. /\ changes[n].ref \in 1..head /\ changes[n].known < n
          /\ changes[n].kind = "ChangeOpened" => changes[n].change = n
          /\ changes[n].kind = "Settled" =>
               /\ ~changes[n].impact
               /\ changes[n].change \in OpenedIn(changes, changes[n].ref) /\ changes[n].change < n
               /\ \A m \in 1..Len(changes) :
                    m # n /\ changes[m].kind = "Settled" => changes[m].change # changes[n].change
      BY <1>1 DEF ChangeFacts, Numbered
    <3>2. changes'[n] = changes[n] /\ head' = head
      BY <1>1, <1>5, <1>7
    <3>3. OpenedIn(changes, changes[n].ref) \subseteq OpenedIn(changes', changes'[n].ref)
      BY <1>7, <3>2
    <3>4. \A m \in 1..Len(changes') : changes'[m].kind = "Settled" => m \in 1..Len(changes) /\ changes'[m] = changes[m]
      BY <1>5, <1>7, <1>8
    <3> QED BY <3>1, <3>2, <3>3, <3>4
  <2>2. e.ref \in 1..head' /\ e.known < N
    BY <1>1, <1>2, <1>3, <1>5, <1>7, <1>10
  <2> QED BY <1>5, <1>7, <1>8, <2>1, <2>2 DEF Numbered
<1>12. SecondChange'
  <2>1. ASSUME NEW m \in 1..Len(changes'), NEW n \in 1..Len(changes'), m < n,
               m \in OpenedIn(changes', changes'[m].ref), n \in OpenedIn(changes', changes'[m].ref)
        PROVE  changes'[n].known < m
    <3>1. m \in 1..Len(changes)
      BY <1>3, <1>7, <1>8, <2>1
    <3>2. CASE n \in 1..Len(changes)
      BY <1>3, <1>7, <2>1, <3>1, <3>2 DEF ChangeFacts, SecondChange
    <3>3. CASE n = N
      BY <1>3, <1>5, <1>7, <1>10, <2>1, <3>1, <3>3 DEF OpenedIn
    <3> QED BY <1>8, <3>2, <3>3
  <2> QED BY <2>1 DEF SecondChange
<1>13. Derivations'
  <2>1. ASSUME NEW q \in Proc
        PROVE  /\ run'[q].known <= Len(changes')
               /\ run'[q].pc = "open" => \A n \in OpenedIn(changes', run'[q].ref) : run'[q].known < n
    <3>1. run[q].known \in Nat /\ run[q].known <= Len(changes) /\ run'[q].known = run[q].known
      BY <1>1, <1>9 DEF ChangeFacts, Derivations, TypeOK, Run
    <3>2. run[q].known < N
      BY <1>3, <1>7, <3>1
    <3>3. run'[q].pc = "open" => q # p
      BY <1>9
    <3> QED BY <1>3, <1>7, <1>9, <3>1, <3>2, <3>3 DEF ChangeFacts, Derivations
  <2>2. ASSUME NEW q \in Proc, q # p, run[q].pc = "settle"
        PROVE  /\ ~run[q].impact /\ run[q].change \in OpenedIn(changes', run[q].ref) /\ run[q].known < run[q].change
               /\ run[q].change # N
               /\ \A n \in 1..Len(changes') : changes'[n].kind = "Settled" => changes'[n].change # run[q].change
    <3>1. /\ ~run[q].impact /\ run[q].change \in OpenedIn(changes, run[q].ref) /\ run[q].known < run[q].change
          /\ \A n \in 1..Len(changes) : changes[n].kind = "Settled" => changes[n].change # run[q].change
      BY <2>2 DEF ChangeFacts, Derivations
    <3>2. run[q].change # N
      BY <1>3, <1>7, <3>1 DEF OpenedIn
    <3> QED BY <1>5, <1>7, <1>8, <3>1, <3>2
  <2>3. ASSUME run'[p].pc = "settle"
        PROVE  /\ ~run'[p].impact /\ run'[p].change = N /\ N \in OpenedIn(changes', run'[p].ref) /\ run'[p].known < N
               /\ \A n \in 1..Len(changes') : changes'[n].kind = "Settled" => changes'[n].change # N
    <3>1. ~run'[p].impact /\ run'[p].change = N
      BY <1>2, <1>9, <2>3
    <3>2. N \in OpenedIn(changes', run'[p].ref) /\ run'[p].known < N
      BY <1>2, <1>3, <1>7, <1>9, <1>10
    <3>3. \A n \in 1..Len(changes) : changes[n].kind = "Settled" => changes[n].change # N
      BY <1>3, <1>7 DEF ChangeFacts, Numbered, OpenedIn
    <3> QED BY <1>5, <1>7, <1>8, <3>1, <3>2, <3>3
  <2>4. ASSUME NEW q \in Proc, run'[q].pc = "settle"
        PROVE  /\ ~run'[q].impact /\ run'[q].change \in OpenedIn(changes', run'[q].ref) /\ run'[q].known < run'[q].change
               /\ \A n \in 1..Len(changes') : changes'[n].kind = "Settled" => changes'[n].change # run'[q].change
    BY <1>9, <2>2, <2>3, <2>4
  <2>5. ASSUME NEW q \in Proc, NEW u \in Proc, q # u, run'[q].pc = "settle", run'[u].pc = "settle"
        PROVE  run'[q].change # run'[u].change
    <3>1. CASE q # p /\ u # p
      BY <1>9, <2>5, <3>1 DEF ChangeFacts, Derivations
    <3>2. CASE q = p \/ u = p
      BY <1>9, <2>2, <2>3, <2>5, <3>2
    <3> QED BY <3>1, <3>2
  <2> QED BY <2>1, <2>4, <2>5 DEF Derivations
<1> QED BY <1>11, <1>12, <1>13 DEF ChangeFacts

\* The settling of a Change.
LEMMA ChangesSettled ==
    ASSUME Basic, ChangeFacts, NEW p \in Proc, Settle(p)
    PROVE  ChangeFacts'
<1>1. TypeOK /\ run[p] \in Run /\ LocalsOf(run[p], head, agg) /\ run[p].pc = "settle" /\ head' = head
  BY DEF Basic, TypeOK, Locals, Settle
<1>2. /\ run[p].ref \in Nat /\ run[p].known \in Nat /\ head \in Nat /\ run[p].ref > 0 /\ run[p].ref <= head
      /\ run[p].change \in Nat
  BY <1>1, AnchorConstants DEF Run, LocalsOf, TypeOK
<1>3. PICK N \in Nat : N = Len(changes) + 1
  BY <1>1 DEF TypeOK
<1>4. PICK e : e = ChangeRecord("Settled", p, run[p].change)
  OBVIOUS
<1>5. /\ e \in ChangeEvent /\ e.kind = "Settled" /\ e.change = run[p].change /\ e.ref = run[p].ref
      /\ e.known = run[p].known /\ e.impact = run[p].impact
  BY <1>1, <1>2, <1>4, ChangeRecordFacts DEF ChangeRecord
<1>6. changes' = Append(changes, e)
  BY <1>4 DEF Settle
<1>7. /\ Len(changes) \in Nat /\ Len(changes') = N /\ changes'[N] = e
      /\ \A n \in 1..Len(changes) : changes'[n] = changes[n]
      /\ \A ref, n : n \in OpenedIn(changes', ref) <=> n \in OpenedIn(changes, ref)
  BY <1>1, <1>3, <1>5, <1>6, RecordedFacts
<1>8. \A n : n \in 1..Len(changes') => n \in 1..Len(changes) \/ n = N
  BY <1>3, <1>7
<1>9. /\ \A q \in Proc : q # p => run'[q] = run[q]
      /\ run'[p].known = run[p].known /\ run'[p].pc = "observe"
  BY <1>1, SettleStep DEF Stepped, SameRun, Alone
<1>10. /\ run[p].known <= Len(changes) /\ ~run[p].impact
       /\ run[p].change \in OpenedIn(changes, run[p].ref) /\ run[p].known < run[p].change
       /\ \A n \in 1..Len(changes) : changes[n].kind = "Settled" => changes[n].change # run[p].change
  BY <1>1 DEF ChangeFacts, Derivations
<1>11. Numbered'
  <2>1. ASSUME NEW n \in 1..Len(changes)
        PROVE  /\ changes'[n].ref \in 1..head' /\ changes'[n].known < n
               /\ changes'[n].kind = "ChangeOpened" => changes'[n].change = n
               /\ changes'[n].kind = "Settled" =>
                    /\ ~changes'[n].impact
                    /\ changes'[n].change \in OpenedIn(changes', changes'[n].ref) /\ changes'[n].change < n
                    /\ \A m \in 1..Len(changes') :
                         m # n /\ changes'[m].kind = "Settled" => changes'[m].change # changes'[n].change
    <3>1. changes'[n] = changes[n]
      BY <1>7
    <3>2. /\ changes[n].ref \in 1..head /\ changes[n].known < n
          /\ changes[n].kind = "ChangeOpened" => changes[n].change = n
          /\ changes[n].kind = "Settled" =>
               /\ ~changes[n].impact
               /\ changes[n].change \in OpenedIn(changes, changes[n].ref) /\ changes[n].change < n
               /\ \A m \in 1..Len(changes) :
                    m # n /\ changes[m].kind = "Settled" => changes[m].change # changes[n].change
      BY DEF ChangeFacts, Numbered
    <3>3. ASSUME changes[n].kind = "Settled", NEW m \in 1..Len(changes'), m # n, changes'[m].kind = "Settled"
          PROVE  changes'[m].change # changes[n].change
      <4>1. CASE m \in 1..Len(changes)
        BY <1>7, <3>2, <3>3, <4>1
      <4>2. CASE m = N
        BY <1>5, <1>7, <1>10, <3>3, <4>2
      <4> QED BY <1>8, <4>1, <4>2
    <3> QED BY <1>1, <1>7, <3>1, <3>2, <3>3
  <2>2. e.ref \in 1..head' /\ e.known < N /\ e.change < N
    BY <1>1, <1>2, <1>3, <1>5, <1>7, <1>10 DEF OpenedIn
  <2>3. /\ ~e.impact /\ e.change \in OpenedIn(changes', e.ref)
        /\ \A m \in 1..Len(changes') : m # N /\ changes'[m].kind = "Settled" => changes'[m].change # e.change
    BY <1>5, <1>7, <1>8, <1>10
  <2> QED BY <1>5, <1>7, <1>8, <2>1, <2>2, <2>3 DEF Numbered
<1>12. SecondChange'
  <2>1. ASSUME NEW m \in 1..Len(changes'), NEW n \in 1..Len(changes'), m < n,
               m \in OpenedIn(changes', changes'[m].ref), n \in OpenedIn(changes', changes'[m].ref)
        PROVE  changes'[n].known < m
    <3>1. m \in 1..Len(changes) /\ n \in 1..Len(changes)
      BY <1>7, <2>1 DEF OpenedIn
    <3> QED BY <1>3, <1>7, <2>1, <3>1 DEF ChangeFacts, SecondChange
  <2> QED BY <2>1 DEF SecondChange
<1>13. Derivations'
  <2>1. ASSUME NEW q \in Proc
        PROVE  /\ run'[q].known <= Len(changes')
               /\ run'[q].pc = "open" => \A n \in OpenedIn(changes', run'[q].ref) : run'[q].known < n
    <3>1. run[q].known \in Nat /\ run[q].known <= Len(changes) /\ run'[q].known = run[q].known
      BY <1>1, <1>9 DEF ChangeFacts, Derivations, TypeOK, Run
    <3>2. run'[q].pc = "open" => q # p
      BY <1>9
    <3> QED BY <1>3, <1>7, <1>9, <3>1, <3>2 DEF ChangeFacts, Derivations
  <2>2. ASSUME NEW q \in Proc, run'[q].pc = "settle"
        PROVE  q # p /\ run'[q] = run[q]
    BY <1>9, <2>2
  <2>3. ASSUME NEW q \in Proc, run'[q].pc = "settle"
        PROVE  /\ ~run'[q].impact /\ run'[q].change \in OpenedIn(changes', run'[q].ref) /\ run'[q].known < run'[q].change
               /\ \A n \in 1..Len(changes') : changes'[n].kind = "Settled" => changes'[n].change # run'[q].change
    <3>1. /\ ~run[q].impact /\ run[q].change \in OpenedIn(changes, run[q].ref) /\ run[q].known < run[q].change
          /\ \A n \in 1..Len(changes) : changes[n].kind = "Settled" => changes[n].change # run[q].change
          /\ run[p].change # run[q].change
      BY <1>1, <2>2, <2>3 DEF ChangeFacts, Derivations
    <3> QED BY <1>5, <1>7, <1>8, <2>2, <2>3, <3>1
  <2>4. ASSUME NEW q \in Proc, NEW u \in Proc, q # u, run'[q].pc = "settle", run'[u].pc = "settle"
        PROVE  run'[q].change # run'[u].change
    BY <2>2, <2>4 DEF ChangeFacts, Derivations
  <2> QED BY <2>1, <2>3, <2>4 DEF Derivations
<1> QED BY <1>11, <1>12, <1>13 DEF ChangeFacts

\* A process that made no step derives as before.
LEMMA DerivesOn ==
    ASSUME TypeOK, NEW q \in Proc, run'[q] = run[q] \/ run'[q] = Uncalmed(run[q])
    PROVE  NotDeriving(run'[q]) \/ SameDerivation(run'[q], run[q])
<1>1. run[q] \in Run /\ Len(changes) \in Nat
  BY DEF TypeOK
<1>2. CASE run'[q] = Idle
  BY <1>1, <1>2, IdleFacts DEF NotDeriving
<1>3. CASE SameButCalm(run'[q], run[q]) \/ run'[q] = run[q]
  BY <1>3 DEF SameButCalm, SameDerivation
<1> QED BY <1>1, <1>2, <1>3, UncalmedFacts

\* A step of a process that opens no Change keeps the facts about the Changes.
LEMMA ChangesOfProcess ==
    ASSUME Basic, ChangeFacts, NEW p \in Proc, Alone(p) \/ Noticed(p), UNCHANGED <<changes, head>>,
           \/ NotDeriving(run'[p])
           \/ /\ run'[p].pc = "open" /\ run'[p].known <= Len(changes)
              /\ \A n \in OpenedIn(changes, run'[p].ref) : run'[p].known < n
    PROVE  ChangeFacts'
<1>1. head \in Nat /\ head' = head /\ TypeOK
  BY AnchorConstants DEF Basic, TypeOK
<1>2. \A q \in Proc : q # p => NotDeriving(run'[q]) \/ SameDerivation(run'[q], run[q])
  BY <1>1, DerivesOn DEF Alone, Noticed
<1> QED BY <1>1, <1>2, ChangesKept

\* Every step keeps the facts about the Changes.
LEMMA ChangeStep ==
    ASSUME Basic, ChangeFacts, [Next]_vars
    PROVE  ChangeFacts'
<1>1. TypeOK /\ Locals /\ head \in Nat /\ Len(changes) \in Nat
  BY AnchorConstants DEF Basic, TypeOK
<1>2. CASE UNCHANGED vars
  BY <1>2 DEF vars, ChangeFacts, Numbered, SecondChange, Derivations
<1>3. CASE \/ \E p \in Path, f \in (UNION {File[q] : q \in Path}) \union {Missing} : Edit(p, f)
           \/ \E p, q \in Path : Rename(p, q)
           \/ \E paths \in SUBSET Path : Commit(paths)
  <2>1. UserStep
    BY <1>1, <1>3, UserSteps
  <2>2. changes' = changes /\ head' \in Nat /\ head <= head' /\ \A q \in Proc : run'[q] = Uncalmed(run[q])
    BY <1>1, <2>1 DEF UserStep
  <2> QED BY <1>1, <2>2, DerivesOn, ChangesKept
<1>4. ASSUME NEW p \in Proc, NEW a \in Anchor, StartRecord(p, a) PROVE ChangeFacts'
  <2>1. Noticed(p) /\ run'[p].pc = "record" /\ run'[p].known = 0
    BY <1>1, <1>4, StartRecordRun DEF RecordRun
  <2>2. UNCHANGED <<changes, head>>
    BY <1>4 DEF StartRecord
  <2> QED BY <1>1, <2>1, <2>2, ChangesOfProcess DEF NotDeriving
<1>5. ASSUME NEW p \in Proc, NEW mode \in {"all", "changed", "commit"}, NEW files \in SUBSET Path,
             StartVerify(p, mode, files)
      PROVE  ChangeFacts'
  <2>1. Noticed(p) /\ run'[p].pc \in {"lookup", "observe"} /\ run'[p].known = Len(changes)
    <3>1. Noticed(p) /\ VerifyRun(run'[p], mode, files)
      BY <1>1, <1>5, StartVerifyRun
    <3> QED BY <3>1 DEF VerifyRun
  <2>2. UNCHANGED <<changes, head>>
    BY <1>5 DEF StartVerify
  <2> QED BY <1>1, <2>1, <2>2, ChangesOfProcess DEF NotDeriving
<1>6. \A p \in Proc : run[p].known \in Nat /\ run[p].known <= Len(changes)
  BY <1>1 DEF ChangeFacts, Derivations, TypeOK, Run
<1>7. ASSUME NEW p \in Proc, Lookup(p) PROVE ChangeFacts'
  <2>1. /\ Alone(p) /\ run'[p].known = run[p].known /\ run'[p].ref = run[p].ref
        /\ run'[p].pc = IF Opened(run[p].ref) \intersect 1..run[p].known = {} THEN "open" ELSE "observe"
    BY <1>1, <1>7, LookupStep DEF Stepped, SameRun
  <2>2. UNCHANGED <<changes, head>>
    BY <1>7 DEF Lookup
  <2>3. Opened(run[p].ref) = OpenedIn(changes, run[p].ref)
    BY DEF Opened, OpenedIn
  <2>4. CASE OpenedIn(changes, run[p].ref) \intersect 1..run[p].known = {}
    <3>1. \A n \in OpenedIn(changes, run[p].ref) : n \in Nat /\ n >= 1 /\ n \notin 1..run[p].known
      BY <1>1, <2>4 DEF OpenedIn
    <3>2. \A n \in OpenedIn(changes, run[p].ref) : run[p].known < n
      BY <1>6, <3>1
    <3> QED BY <1>6, <2>1, <2>2, <2>3, <2>4, <3>2, ChangesOfProcess
  <2>5. CASE OpenedIn(changes, run[p].ref) \intersect 1..run[p].known # {}
    BY <1>6, <2>1, <2>2, <2>3, <2>5, ChangesOfProcess DEF NotDeriving
  <2> QED BY <2>4, <2>5
<1>8. ASSUME NEW p \in Proc, Observe(p) PROVE ChangeFacts'
  <2>1. Alone(p) /\ run'[p].pc = "verify" /\ run'[p].known = run[p].known /\ UNCHANGED <<changes, head>>
    BY <1>1, <1>8, ObserveStep DEF Stepped, SameRun, Observe
  <2> QED BY <1>6, <2>1, ChangesOfProcess DEF NotDeriving
<1>9. ASSUME NEW p \in Proc, Detect(p) PROVE ChangeFacts'
  <2>1. Alone(p) /\ run'[p].pc \in {"move", "done"} /\ run'[p].known = run[p].known
    BY <1>1, <1>9, DetectStep DEF DetectEffect, SameRun
  <2>2. UNCHANGED <<changes, head>>
    BY <1>9 DEF Detect
  <2> QED BY <1>6, <2>1, <2>2, ChangesOfProcess DEF NotDeriving
<1>10. ASSUME NEW p \in Proc, Record(p) PROVE ChangeFacts'
  <2>1. (Alone(p) \/ Noticed(p)) /\ run'[p] = Idle
    BY <1>1, <1>10, RecordStep DEF RecordEffect, WroteNothing, Wrote
  <2>2. UNCHANGED <<changes, head>>
    BY <1>10 DEF Record
  <2> QED BY <1>1, <2>1, <2>2, ChangesOfProcess, IdleFacts DEF NotDeriving
<1>11. ASSUME NEW p \in Proc, Verify(p) PROVE ChangeFacts'
  <2>1. (Alone(p) \/ Noticed(p)) /\ run'[p].pc = "observe" /\ run'[p].known = run[p].known
    BY <1>1, <1>11, VerifyStep DEF VerifyEffect, AfterVerify, WroteNothing, Wrote
  <2>2. UNCHANGED <<changes, head>>
    BY <1>11 DEF Verify
  <2> QED BY <1>6, <2>1, <2>2, ChangesOfProcess DEF NotDeriving
<1>12. ASSUME NEW p \in Proc, Move(p) PROVE ChangeFacts'
  <2>1. /\ Alone(p) \/ Noticed(p)
        /\ run'[p] = Idle \/ (run'[p].pc \in {"move", "done"} /\ run'[p].known = run[p].known)
    BY <1>1, <1>12, MoveStep DEF MoveEffect, SameRun, WroteNothing, Wrote
  <2>2. UNCHANGED <<changes, head>>
    BY <1>12 DEF Move
  <2> QED BY <1>1, <1>6, <2>1, <2>2, ChangesOfProcess, IdleFacts DEF NotDeriving
<1>13. ASSUME NEW p \in Proc, Stop(p) PROVE ChangeFacts'
  <2>1. Alone(p) /\ run'[p] = Idle /\ UNCHANGED <<changes, head>>
    BY <1>1, <1>13, RunFacts, IdleFacts DEF Stop
  <2> QED BY <1>1, <2>1, ChangesOfProcess, IdleFacts DEF NotDeriving
<1> QED BY <1>2, <1>3, <1>4, <1>5, <1>7, <1>8, <1>9, <1>10, <1>11, <1>12, <1>13, ChangesOpened, ChangesSettled,
           Zenon DEF Next

\* At the start there are no Changes.
LEMMA ChangeInit ==
    ASSUME Init
    PROVE  ChangeFacts
<1>1. changes = << >> /\ Len(changes) = 0 /\ \A p \in Proc : run[p] = Idle
  BY DEF Init
<1> QED BY <1>1, IdleFacts DEF ChangeFacts, Numbered, SecondChange, Derivations

\* A Change settles at most once, after it was opened, and a second Change of a commit comes
\* only from a derivation that was running when the first was opened (Deriver.Derive).
THEOREM AnchorChanges == Spec => []ChangesOfCommits
<1>1. Basic /\ ChangeFacts => ChangesOfCommits
  <2> SUFFICES ASSUME Basic, ChangeFacts PROVE ChangesOfCommits
    OBVIOUS
  <2>1. /\ \A ref : Opened(ref) = OpenedIn(changes, ref)
        /\ \A n \in 1..Len(changes) : changes[n].kind \in {"ChangeOpened", "Settled"} /\ changes[n].change \in Nat
        /\ Len(changes) \in Nat
    <3>1. \A ref : Opened(ref) = OpenedIn(changes, ref)
      BY DEF Opened, OpenedIn
    <3>2. changes \in Seq(ChangeEvent)
      BY DEF Basic, TypeOK
    <3>3. Len(changes) \in Nat /\ \A n \in 1..Len(changes) : changes[n] \in ChangeEvent
      BY <3>2
    <3>4. \A e \in ChangeEvent : e.kind \in {"ChangeOpened", "Settled"} /\ e.change \in Nat
      BY DEF ChangeEvent
    <3> QED BY <3>1, <3>3, <3>4
  <2>2. ASSUME NEW m \in 1..Len(changes), NEW n \in 1..Len(changes), m < n, changes[n].change = changes[m].change
        PROVE  /\ changes[m].kind = "ChangeOpened" /\ changes[n].kind = "Settled"
               /\ changes[m].ref = changes[n].ref
    <3>1. changes[m].kind = "ChangeOpened" /\ changes[n].kind = "Settled"
      BY <2>1, <2>2 DEF ChangeFacts, Numbered
    <3>2. m \in OpenedIn(changes, changes[n].ref)
      BY <2>2, <3>1 DEF ChangeFacts, Numbered
    <3> QED BY <3>1, <3>2 DEF OpenedIn
  <2>3. \A n \in 1..Len(changes) : changes[n].kind = "Settled" => changes[n].change \in OpenedIn(changes, changes[n].ref)
    BY DEF ChangeFacts, Numbered
  <2>4. \A m, n \in 1..Len(changes) :
          m < n /\ {m, n} \subseteq OpenedIn(changes, changes[m].ref) => changes[n].known < m
    BY DEF ChangeFacts, SecondChange
  <2> QED BY <2>1, <2>2, <2>3, <2>4 DEF ChangesOfCommits
<1> QED BY <1>1, BasicInit, BasicStep, ChangeInit, ChangeStep, PTL DEF Spec

-----------------------------------------------------------------------------
(* What a commit touches *)

\* Two trees with the same file at a path hash its anchors alike.
LEMMA SameFile ==
    ASSUME NEW t, NEW u, NEW a, t[a.path] = u[a.path]
    PROVE  Resolve(t, a) = Resolve(u, a)
BY DEF Resolve

\* An anchor that changed is in a file that did.
LEMMA ChangedFile ==
    ASSUME NEW t, NEW u, NEW a, ChangedBy(a, t, u)
    PROVE  t[a.path] # u[a.path]
<1> SUFFICES ASSUME t[a.path] = u[a.path] PROVE FALSE
  OBVIOUS
<1>1. PICK b : b = Resolve(t, a)
  OBVIOUS
<1>2. b = Resolve(u, a)
  BY <1>1, SameFile
<1>3. Cmp(b, b) \notin {"signature", "body"}
  BY CmpFacts
<1> QED BY <1>1, <1>2, <1>3 DEF ChangedBy

\* The symbols of a file with a parser: hashed when they are there.
LEMMA ResolveSymbol ==
    ASSUME NEW t \in Trees, NEW p \in Parsed, NEW s \in Symbol
    PROVE  /\ t[p] = Missing => Resolve(t, A(p, s)) = NoHash
           /\ t[p] # Missing /\ t[p].syms[s] = Gone => Resolve(t, A(p, s)) = NoHash
           /\ t[p] # Missing /\ t[p].syms[s] # Gone =>
                /\ Resolve(t, A(p, s)) # NoHash
                /\ Resolve(t, A(p, s)).sig = t[p].syms[s].sig /\ Resolve(t, A(p, s)).body = t[p].syms[s].body
<1>1. A(p, s).path = p /\ A(p, s).sym = s /\ s # Whole /\ p \in Path
  BY AnchorConstants DEF A
<1>2. t[p] # Missing => t[p] \in File[p]
  BY <1>1 DEF Trees
<1>3. ASSUME t[p] # Missing, t[p].syms[s] # Gone
      PROVE  Hash3(t[p].syms[s].sig, t[p].syms[s].body, t[p]) # NoHash
  BY <1>1, <1>2, <1>3, HashesAreTold
<1>4. ASSUME t[p] # Missing, t[p].syms[s] # Gone
      PROVE  Resolve(t, A(p, s)) = Hash3(t[p].syms[s].sig, t[p].syms[s].body, t[p])
  BY <1>1, <1>4 DEF Resolve
<1>5. (t[p] = Missing \/ t[p].syms[s] = Gone) => Resolve(t, A(p, s)) = NoHash
  BY <1>1 DEF Resolve
<1> QED BY <1>3, <1>4, <1>5 DEF Hash3

\* A file anchor that changed while the file stayed: one of its symbols changed.
LEMMA ChangedSymbol ==
    ASSUME NEW t \in Trees, NEW u \in Trees, NEW p \in Parsed, t[p] # Missing, u[p] # Missing,
           ChangedBy(A(p, Whole), t, u)
    PROVE  \E s \in Symbol : ChangedBy(A(p, s), t, u)
<1>1. A(p, Whole).path = p /\ A(p, Whole).sym = Whole /\ p \in Path
  BY AnchorConstants DEF A
<1>2. t[p] \in File[p] /\ u[p] \in File[p]
  BY <1>1 DEF Trees
<1>3. PICK b : b = Hash3(Layer(t[p], "sig"), Layer(t[p], "body"), t[p])
  OBVIOUS
<1>4. PICK c : c = Hash3(Layer(u[p], "sig"), Layer(u[p], "body"), u[p])
  OBVIOUS
<1>5. b # NoHash /\ c # NoHash
  BY <1>1, <1>2, <1>3, <1>4, HashesAreTold
<1>6. Resolve(t, A(p, Whole)) = b /\ Resolve(u, A(p, Whole)) = c
  BY <1>1, <1>3, <1>4 DEF Resolve
<1>7. b.sig # c.sig \/ b.body # c.body
  <2>1. Cmp(b, c) \in {"signature", "body"}
    BY <1>5, <1>6 DEF ChangedBy
  <2> QED BY <2>1, CmpFacts
<1>8. Layer(t[p], "sig") # Layer(u[p], "sig") \/ Layer(t[p], "body") # Layer(u[p], "body")
  BY <1>3, <1>4, <1>7 DEF Hash3
<1>9. PICK s \in Symbol :
        \/ Layer(t[p], "sig")[s] # Layer(u[p], "sig")[s]
        \/ Layer(t[p], "body")[s] # Layer(u[p], "body")[s]
  BY <1>8 DEF Layer
<1>10. \/ t[p].syms[s] = Gone /\ u[p].syms[s] # Gone
       \/ t[p].syms[s] # Gone /\ u[p].syms[s] = Gone
       \/ /\ t[p].syms[s] # Gone /\ u[p].syms[s] # Gone
          /\ t[p].syms[s].sig # u[p].syms[s].sig \/ t[p].syms[s].body # u[p].syms[s].body
  BY <1>9 DEF Layer
<1>11. PICK x : x = Resolve(t, A(p, s))
  OBVIOUS
<1>12. PICK y : y = Resolve(u, A(p, s))
  OBVIOUS
<1>13. \/ x = NoHash /\ y # NoHash
       \/ x # NoHash /\ y = NoHash
       \/ x # NoHash /\ y # NoHash /\ (x.sig # y.sig \/ x.body # y.body)
  BY <1>10, <1>11, <1>12, ResolveSymbol
<1>14. x.sig # y.sig \/ x.body # y.body => Cmp(x, y) \in {"signature", "body"}
  BY CmpFacts
<1>15. ChangedBy(A(p, s), t, u)
  BY <1>11, <1>12, <1>13, <1>14 DEF ChangedBy
<1> QED BY <1>15

\* A commit that changes a bound anchor has impact, unless its file was renamed or the
\* anchor is a symbol of a file without a parser.
LEMMA BoundHasImpact ==
    ASSUME TypeOK, NEW a \in Bound, ChangedBy(a, prev, base), ~Degraded(a),
           a.path \notin RenamedFrom(prev, base), OldPath(a.path) = a.path
    PROVE  a.path \in ChangedIn /\ Impact
<1>1. PICK p \in Path : p = a.path
  BY AnchorConstants, AnchorsAreNamed
<1>2. a = A(p, a.sym) /\ a.sym \in Symbol \union {Whole} /\ prev \in Trees /\ base \in Trees
  BY <1>1, AnchorConstants, AnchorsAreNamed DEF TypeOK
<1>3. p \in ChangedIn
  <2>1. prev[p] # base[p]
    BY <1>1, ChangedFile
  <2> QED BY <1>1, <2>1 DEF ChangedIn, Differ
<1>4. PICK before : before = [prev EXCEPT ![p] = prev[OldPath(p)]]
  OBVIOUS
<1>5. before = prev
  BY <1>1, <1>2, <1>4 DEF Trees
<1>6. PICK changed : changed = {s \in Symbol : ChangedBy(A(p, s), prev, base)}
  OBVIOUS
<1>7. ChangedAnchors(p) =
        IF p \notin Parsed \/ (changed = {} /\ Missing \in {prev[p], base[p]}) THEN {A(p, Whole)}
        ELSE {A(p, s) : s \in changed}
  BY <1>4, <1>5, <1>6 DEF ChangedAnchors
<1>8. \E t \in ChangedAnchors(p) : a = t \/ a = A(t.path, Whole)
  <2>1. CASE p \notin Parsed
    <3>1. a = A(p, Whole)
      BY <1>1, <1>2, <2>1 DEF Degraded
    <3> QED BY <1>7, <2>1, <3>1
  <2>2. CASE p \in Parsed /\ a.sym \in Symbol
    <3>1. a.sym \in changed
      BY <1>2, <1>6, <2>2
    <3>2. a \in ChangedAnchors(p)
      BY <1>2, <1>7, <2>2, <3>1
    <3> QED BY <3>2
  <2>3. CASE p \in Parsed /\ a.sym = Whole /\ Missing \in {prev[p], base[p]}
    <3>1. CASE changed = {}
      BY <1>2, <1>7, <2>3, <3>1
    <3>2. CASE changed # {}
      <4>1. PICK s \in changed : s \in Symbol
        BY <1>6, <3>2
      <4>2. A(p, s) \in ChangedAnchors(p) /\ A(p, s).path = p
        BY <1>7, <2>3, <3>2, <4>1 DEF A
      <4> QED BY <1>2, <2>3, <4>2
    <3> QED BY <3>1, <3>2
  <2>4. CASE p \in Parsed /\ a.sym = Whole /\ Missing \notin {prev[p], base[p]}
    <3>1. PICK s \in Symbol : ChangedBy(A(p, s), prev, base)
      BY <1>2, <2>4, ChangedSymbol
    <3>2. s \in changed
      BY <1>6, <3>1
    <3>3. A(p, s) \in ChangedAnchors(p) /\ A(p, s).path = p
      BY <1>7, <2>4, <3>2 DEF A
    <3> QED BY <1>2, <2>4, <3>3
  <2> QED BY <1>2, <2>1, <2>2, <2>3, <2>4
<1>9. Reached(a)
  <2>1. PICK t \in ChangedAnchors(p) : a = t \/ a = A(t.path, Whole)
    BY <1>8
  <2>2. t \in Touched
    BY <1>3, <2>1 DEF Touched
  <2> QED BY <2>1, <2>2 DEF Reached
<1> QED BY <1>1, <1>3, <1>9 DEF Impact

\* A process that derives, and was told the impact of HEAD.
Told(r) == r.pc \in {"lookup", "open", "settle"} /\ r.ref = head => (r.impact <=> Impact)

\* While HEAD stays, what was told and recorded of it stays right.
LEMMA ImpactKept ==
    ASSUME ImpactOfHead, UNCHANGED <<base, prev, head>>,
           \A q \in Proc : \/ run'[q].pc \notin {"lookup", "open", "settle"} \/ Told(run'[q])
                           \/ /\ run[q].pc \in {"lookup", "open", "settle"}
                              /\ run'[q].ref = run[q].ref /\ run'[q].impact = run[q].impact,
           \A n \in 1..Len(changes') : \/ n \in 1..Len(changes) /\ changes'[n] = changes[n]
                                       \/ changes'[n].ref = head => (changes'[n].impact <=> Impact)
    PROVE  ImpactOfHead'
<1>1. Impact' <=> Impact
  BY DEF Impact, Reached, Touched, ChangedAnchors, OldPath, ChangedIn
<1>2. ASSUME NEW q \in Proc, run'[q].pc \in {"lookup", "open", "settle"}, run'[q].ref = head'
      PROVE  run'[q].impact <=> Impact'
  BY <1>1, <1>2 DEF ImpactOfHead, Told
<1>3. ASSUME NEW n \in 1..Len(changes'), changes'[n].ref = head'
      PROVE  changes'[n].impact <=> Impact'
  BY <1>1, <1>3 DEF ImpactOfHead
<1> QED BY <1>2, <1>3 DEF ImpactOfHead

\* A step of a process keeps the impact of the head that its commit and its Changes carry.
LEMMA ImpactOfProcess ==
    ASSUME TypeOK, ImpactOfHead, NEW p \in Proc, UNCHANGED <<base, prev, head>>, Alone(p) \/ Noticed(p),
           \/ run'[p].pc \notin {"lookup", "open", "settle"} \/ Told(run'[p])
           \/ /\ run[p].pc \in {"lookup", "open", "settle"}
              /\ run'[p].ref = run[p].ref /\ run'[p].impact = run[p].impact,
           \/ changes' = changes
           \/ \E e \in ChangeEvent : /\ changes' = Append(changes, e) /\ e.ref = run[p].ref
                                     /\ e.impact = run[p].impact /\ run[p].pc \in {"open", "settle"}
    PROVE  ImpactOfHead'
<1>1. ASSUME NEW q \in Proc, q # p
      PROVE  \/ run'[q].pc \notin {"lookup", "open", "settle"}
             \/ /\ run[q].pc \in {"lookup", "open", "settle"}
                /\ run'[q].ref = run[q].ref /\ run'[q].impact = run[q].impact
  <2>1. run[q] \in Run /\ (run'[q] = run[q] \/ run'[q] = Uncalmed(run[q]))
    BY <1>1 DEF TypeOK, Alone, Noticed
  <2>2. run'[q] = run[q] \/ run'[q] = Idle \/ SameButCalm(run'[q], run[q])
    BY <2>1, UncalmedFacts
  <2> QED BY <2>2, IdleFacts DEF SameButCalm
<1>2. ASSUME NEW n \in 1..Len(changes')
      PROVE  \/ n \in 1..Len(changes) /\ changes'[n] = changes[n]
             \/ changes'[n].ref = head => (changes'[n].impact <=> Impact)
  <2>1. CASE changes' = changes
    BY <2>1
  <2>2. ASSUME NEW e \in ChangeEvent, changes' = Append(changes, e), e.ref = run[p].ref,
               e.impact = run[p].impact, run[p].pc \in {"open", "settle"}
        PROVE  \/ n \in 1..Len(changes) /\ changes'[n] = changes[n]
               \/ changes'[n].ref = head => (changes'[n].impact <=> Impact)
    <3>1. /\ Len(changes) \in Nat /\ Len(changes') = Len(changes) + 1 /\ changes'[Len(changes) + 1] = e
          /\ \A i \in 1..Len(changes) : changes'[i] = changes[i]
      BY <2>2, RecordedFacts
    <3>2. n \in 1..Len(changes) \/ n = Len(changes) + 1
      BY <3>1
    <3>3. e.ref = head => (e.impact <=> Impact)
      BY <2>2 DEF ImpactOfHead
    <3> QED BY <3>1, <3>2, <3>3
  <2> QED BY <2>1, <2>2
<1> QED BY <1>1, <1>2, ImpactKept

\* Every step keeps what is told of the impact of HEAD.
LEMMA ImpactStep ==
    ASSUME Basic, ChangeFacts, ImpactOfHead, [Next]_vars
    PROVE  ImpactOfHead'
<1>1. TypeOK /\ Locals /\ head \in Nat /\ Len(changes) \in Nat
  BY AnchorConstants DEF Basic, TypeOK
<1>2. CASE UNCHANGED vars
  <2>1. UNCHANGED <<base, prev, head, run, changes>>
    BY <1>2 DEF vars
  <2> QED BY <2>1, ImpactKept DEF ImpactOfHead, Told
<1>3. CASE \/ \E p \in Path, f \in (UNION {File[q] : q \in Path}) \union {Missing} : Edit(p, f)
           \/ \E p, q \in Path : Rename(p, q)
           \/ \E paths \in SUBSET Path : Commit(paths)
  <2>1. UserStep
    BY <1>1, <1>3, UserSteps
  <2>2. /\ changes' = changes /\ \A q \in Proc : run'[q] = Uncalmed(run[q])
        /\ (head' = head /\ UNCHANGED <<base, prev>>) \/ head' = head + 1
    BY <2>1 DEF UserStep
  <2>3. ASSUME NEW q \in Proc
        PROVE  \/ run'[q].pc = "idle"
               \/ run'[q].pc = run[q].pc /\ run'[q].ref = run[q].ref /\ run'[q].impact = run[q].impact
    <3>1. run[q] \in Run
      BY <1>1 DEF TypeOK
    <3>2. run'[q] = Idle \/ SameButCalm(run'[q], run[q])
      BY <2>2, <3>1, UncalmedFacts
    <3> QED BY <3>2, IdleFacts DEF SameButCalm
  <2>4. CASE head' = head /\ UNCHANGED <<base, prev>>
    BY <2>2, <2>3, <2>4, ImpactKept
  <2>5. CASE head' = head + 1
    <3>1. ASSUME NEW q \in Proc, run'[q].pc \in {"lookup", "open", "settle"}, run'[q].ref = head' PROVE FALSE
      <4>1. run[q].ref \in Nat /\ run[q].ref <= head
        BY <1>1 DEF TypeOK, Run, Locals, LocalsOf
      <4> QED BY <1>1, <2>3, <2>5, <3>1, <4>1
    <3>2. ASSUME NEW n \in 1..Len(changes'), changes'[n].ref = head' PROVE FALSE
      <4>1. changes[n].ref \in 1..head
        BY <2>2 DEF ChangeFacts, Numbered
      <4> QED BY <1>1, <2>2, <2>5, <3>2, <4>1
    <3> QED BY <3>1, <3>2 DEF ImpactOfHead
  <2> QED BY <2>2, <2>4, <2>5
<1>4. ASSUME NEW p \in Proc, NEW a \in Anchor, StartRecord(p, a) PROVE ImpactOfHead'
  <2>1. Noticed(p) /\ run'[p].pc = "record"
    BY <1>1, <1>4, StartRecordRun DEF RecordRun
  <2>2. UNCHANGED <<changes, base, prev, head>>
    BY <1>4 DEF StartRecord
  <2> QED BY <1>1, <2>1, <2>2, ImpactOfProcess
<1>5. ASSUME NEW p \in Proc, NEW mode \in {"all", "changed", "commit"}, NEW files \in SUBSET Path,
             StartVerify(p, mode, files)
      PROVE  ImpactOfHead'
  <2>1. Noticed(p) /\ VerifyRun(run'[p], mode, files)
    BY <1>1, <1>5, StartVerifyRun
  <2>2. run'[p].pc \notin {"lookup", "open", "settle"} \/ Told(run'[p])
    BY <2>1 DEF VerifyRun, Told
  <2>3. UNCHANGED <<changes, base, prev, head>>
    BY <1>5 DEF StartVerify
  <2> QED BY <1>1, <2>1, <2>2, <2>3, ImpactOfProcess
<1>6. ASSUME NEW p \in Proc, Lookup(p) PROVE ImpactOfHead'
  <2>1. Alone(p) /\ run'[p].ref = run[p].ref /\ run'[p].impact = run[p].impact
    BY <1>1, <1>6, LookupStep DEF Stepped, SameRun
  <2>2. UNCHANGED <<changes, base, prev, head>> /\ run[p].pc = "lookup"
    BY <1>6 DEF Lookup
  <2> QED BY <1>1, <2>1, <2>2, ImpactOfProcess
<1>7. ASSUME NEW p \in Proc, OpenChange(p) PROVE ImpactOfHead'
  <2>1. Alone(p) /\ run'[p].ref = run[p].ref /\ run'[p].impact = run[p].impact
    BY <1>1, <1>7, OpenStep DEF Stepped, SameRun
  <2>2. UNCHANGED <<base, prev, head>> /\ run[p].pc = "open"
    BY <1>7 DEF OpenChange
  <2>3. PICK e : e = ChangeRecord("ChangeOpened", p, Len(changes) + 1)
    OBVIOUS
  <2>4. e \in ChangeEvent /\ e.ref = run[p].ref /\ e.impact = run[p].impact
    BY <1>1, <2>3, ChangeRecordFacts DEF ChangeRecord
  <2>5. changes' = Append(changes, e)
    BY <1>7, <2>3 DEF OpenChange
  <2> QED BY <1>1, <2>1, <2>2, <2>4, <2>5, ImpactOfProcess
<1>8. ASSUME NEW p \in Proc, Settle(p) PROVE ImpactOfHead'
  <2>1. Alone(p) /\ run'[p].pc = "observe"
    BY <1>1, <1>8, SettleStep DEF Stepped
  <2>2. UNCHANGED <<base, prev, head>> /\ run[p].pc = "settle" /\ run[p].change \in Nat
    BY <1>1, <1>8 DEF Settle, TypeOK, Run
  <2>3. PICK e : e = ChangeRecord("Settled", p, run[p].change)
    OBVIOUS
  <2>4. e \in ChangeEvent /\ e.ref = run[p].ref /\ e.impact = run[p].impact
    BY <1>1, <2>2, <2>3, ChangeRecordFacts DEF ChangeRecord
  <2>5. changes' = Append(changes, e)
    BY <1>8, <2>3 DEF Settle
  <2> QED BY <1>1, <2>1, <2>2, <2>4, <2>5, ImpactOfProcess
<1>9. ASSUME NEW p \in Proc, Observe(p) PROVE ImpactOfHead'
  <2>1. Alone(p) /\ run'[p].pc = "verify" /\ UNCHANGED <<changes, base, prev, head>>
    BY <1>1, <1>9, ObserveStep DEF Stepped, Observe
  <2> QED BY <1>1, <2>1, ImpactOfProcess
<1>10. ASSUME NEW p \in Proc, Detect(p) PROVE ImpactOfHead'
  <2>1. Alone(p) /\ run'[p].pc \in {"move", "done"}
    BY <1>1, <1>10, DetectStep DEF DetectEffect
  <2>2. UNCHANGED <<changes, base, prev, head>>
    BY <1>10 DEF Detect
  <2> QED BY <1>1, <2>1, <2>2, ImpactOfProcess
<1>11. ASSUME NEW p \in Proc, Record(p) PROVE ImpactOfHead'
  <2>1. (Alone(p) \/ Noticed(p)) /\ run'[p].pc = "idle"
    BY <1>1, <1>11, RecordStep, IdleFacts DEF RecordEffect, WroteNothing, Wrote
  <2>2. UNCHANGED <<changes, base, prev, head>>
    BY <1>11 DEF Record
  <2> QED BY <1>1, <2>1, <2>2, ImpactOfProcess
<1>12. ASSUME NEW p \in Proc, Verify(p) PROVE ImpactOfHead'
  <2>1. (Alone(p) \/ Noticed(p)) /\ run'[p].pc = "observe"
    BY <1>1, <1>12, VerifyStep DEF VerifyEffect, AfterVerify, WroteNothing, Wrote
  <2>2. UNCHANGED <<changes, base, prev, head>>
    BY <1>12 DEF Verify
  <2> QED BY <1>1, <2>1, <2>2, ImpactOfProcess
<1>13. ASSUME NEW p \in Proc, Move(p) PROVE ImpactOfHead'
  <2>1. (Alone(p) \/ Noticed(p)) /\ run'[p].pc \in {"idle", "move", "done"}
    BY <1>1, <1>13, MoveStep, IdleFacts DEF MoveEffect, WroteNothing, Wrote
  <2>2. UNCHANGED <<changes, base, prev, head>>
    BY <1>13 DEF Move
  <2> QED BY <1>1, <2>1, <2>2, ImpactOfProcess
<1>14. ASSUME NEW p \in Proc, Stop(p) PROVE ImpactOfHead'
  <2>1. Alone(p) /\ run'[p].pc = "idle" /\ UNCHANGED <<changes, base, prev, head>>
    BY <1>1, <1>14, RunFacts, IdleFacts DEF Stop
  <2> QED BY <1>1, <2>1, ImpactOfProcess
<1> QED BY <1>2, <1>3, <1>4, <1>5, <1>6, <1>7, <1>8, <1>9, <1>10, <1>11, <1>12, <1>13, <1>14, Zenon DEF Next

\* Before the first commit there is nothing to judge.
LEMMA ImpactInit ==
    ASSUME Init
    PROVE  ImpactOfHead
<1>1. changes = << >> /\ Len(changes) = 0 /\ \A p \in Proc : run[p] = Idle
  BY DEF Init
<1> QED BY <1>1, IdleFacts DEF ImpactOfHead

\* A commit that changes what a constraint is bound to is looked at and never settles outside
\* the harness, but for renamed files and files without a parser (Derive, changedAnchors, BoundTo).
THEOREM AnchorBoundJudged == Spec => []BoundChangeIsJudged
<1>1. Basic /\ ChangeFacts /\ ImpactOfHead => BoundChangeIsJudged
  <2> SUFFICES ASSUME Basic, ChangeFacts, ImpactOfHead,
                      NEW a \in Bound, ChangedBy(a, prev, base), ~Degraded(a),
                      a.path \notin RenamedFrom(prev, base), OldPath(a.path) = a.path
               PROVE  /\ a.path \in ChangedIn
                      /\ \A n \in 1..Len(changes) : changes[n].kind = "Settled" => changes[n].ref # head
    BY DEF BoundChangeIsJudged
  <2>1. a.path \in ChangedIn /\ Impact
    BY BoundHasImpact DEF Basic
  <2>2. ASSUME NEW n \in 1..Len(changes), changes[n].kind = "Settled" PROVE changes[n].ref # head
    <3>1. ~changes[n].impact
      BY <2>2 DEF ChangeFacts, Numbered
    <3> QED BY <2>1, <3>1 DEF ImpactOfHead
  <2> QED BY <2>1, <2>2
<1> QED BY <1>1, BasicInit, BasicStep, ChangeInit, ChangeStep, ImpactInit, ImpactStep, PTL DEF Spec

-----------------------------------------------------------------------------
(* Calm runs *)

\* The index is the aggregates, so Fits is Exact.
LEMMA FitsExact ==
    ASSUME NEW a
    PROVE  Fits(agg[a].state, Resolve(tree, a), accepted[a]) => agg[a].state \in Exact(a)
<1>1. PICK h : h = Resolve(tree, a)
  OBVIOUS
<1>2. PICK c : c = accepted[a]
  OBVIOUS
<1>3. /\ (Cmp(c, h) = "signature") <=> (c.sig # h.sig)
      /\ (Cmp(c, h) = "body") <=> (c.sig = h.sig /\ c.body # h.body)
  BY CmpFacts
<1>4. Exact(a) = IF h = NoHash THEN {"unrealized"}
                 ELSE IF c.sig # h.sig THEN {"stale"}
                 ELSE IF c.body # h.body THEN {"review", "stale"} ELSE {"verified"}
  BY <1>1, <1>2, <1>3 DEF Exact
<1> QED BY <1>1, <1>2, <1>4 DEF Fits

\* Records are only added.
Grown == \A ref : /\ OpenedIn(changes, ref) \subseteq OpenedIn(changes', ref)

\* The working tree and the ledger of anchors stay.
Still == UNCHANGED <<tree, agg, accepted, keys>> /\ Grown

\* A calm run that makes no step, while nothing it looks at changes.
LEMMA CalmKept ==
    ASSUME Still, NEW r, CalmRun(r, tree, agg, accepted, keys, changes)
    PROVE  CalmRun(r, tree', agg', accepted', keys', changes')
<1>1. OpenedIn(changes, r.ref) # {} => OpenedIn(changes', r.ref) # {}
  BY DEF Still, Grown
<1> QED BY <1>1 DEF Still, CalmRun

\* The other processes.
LEMMA CalmOfOthers ==
    ASSUME TypeOK, Calm, NEW p \in Proc, (Alone(p) /\ Still) \/ Noticed(p)
    PROVE  \A q \in Proc : q # p /\ run'[q].calm => CalmRun(run'[q], tree', agg', accepted', keys', changes')
<1>1. CASE Alone(p) /\ Still
  BY <1>1, CalmKept DEF Alone, Calm
<1>2. CASE Noticed(p)
  <2>1. \A q \in Proc : q # p => ~run'[q].calm
    BY <1>2, UncalmedFacts DEF TypeOK, Noticed
  <2> QED BY <2>1
<1> QED BY <1>1, <1>2

\* Calm after a step of a process, when its own run is.
LEMMA CalmOfProcess ==
    ASSUME TypeOK, Calm, NEW p \in Proc, (Alone(p) /\ Still) \/ Noticed(p),
           run'[p].calm => CalmRun(run'[p], tree', agg', accepted', keys', changes')
    PROVE  Calm'
BY CalmOfOthers DEF Calm

\* A step that leaves what a calm run has seen: the fields that matter.
LEMMA CalmOfStepped ==
    ASSUME NEW s, NEW r, NEW t, NEW g, NEW c, NEW ks, NEW cs, CalmRun(r, t, g, c, ks, cs),
           SameRun(s, r), s.before = r.before, r.pc \notin {"move", "done"}, s.pc \notin {"move", "done"},
           s.pc = "verify" => s.seen = Resolve(t, s.at),
           s.mode = "commit" /\ s.pc \notin {"lookup", "open"} => OpenedIn(cs, s.ref) # {}
    PROVE  CalmRun(s, t, g, c, ks, cs)
BY DEF CalmRun, SameRun

\* A verification that starts has nothing behind it.
LEMMA CalmOfStart ==
    ASSUME NEW s, NEW mode \in {"all", "changed", "commit"}, NEW files, VerifyRun(s, mode, files)
    PROVE  CalmRun(s, tree, agg, accepted, keys, changes)
BY DEF VerifyRun, CalmRun, Symbols

\* A verification that wrote nothing.
LEMMA CalmOfPassed ==
    ASSUME Basic, KeysObserved, NEW p \in Proc, NEW a \in Anchor, NEW h \in Hash, h = Resolve(tree, a),
           run[p].pc = "verify", agg[a].state # "none",
           CalmRun(run[p], tree, agg, accepted, keys, changes),
           NEW s, NEW v, AfterVerify(s, run[p], a, v), run[p].revisited \subseteq v,
           a \in v \/ <<a, run[p].ref, h>> \notin observed,
           Key("verify", a, run[p].ref, h) \in keys \/ VerifyDecide(agg[a], h) = << >>
    PROVE  CalmRun(s, tree, agg, accepted, keys, changes)
<1>1. Quiet(a, run[p].ref, tree, agg, keys)
  BY DEF Quiet
<1>2. ASSUME a \notin v PROVE Fits(agg[a].state, Resolve(tree, a), accepted[a])
  <2>1. run[p].ref \in Nat /\ agg[a] \in Aggregate
    BY DEF Basic, TypeOK, Run
  <2>2. Key("verify", a, run[p].ref, h) \notin keys
    BY <1>2, <2>1 DEF KeysObserved
  <2>3. VerifyDecide(agg[a], h) = << >>
    BY <2>2
  <2>4. accepted[a].sig = agg[a].hash.sig /\ accepted[a].body = agg[a].hash.body
    BY DEF Basic, Baseline
  <2>5. CASE h = NoHash
    <3>1. agg[a].state = "unrealized"
      BY <2>1, <2>3, <2>5, VerifyFacts, EventsAreEvents
    <3> QED BY <2>5, <3>1 DEF Fits
  <2>6. CASE h # NoHash
    <3>1. agg[a].hash.sig = h.sig /\ agg[a].hash.body # h.body /\ agg[a].state = "stale"
      <4>0. agg[a].state # "none"
        BY <2>1, <2>3, VerifyFacts, EventsAreEvents
      <4>1. agg[a].hash.sig = h.sig
        <5>1. agg[a].hash.sig # h.sig => VerifyDecide(agg[a], h) = <<Staled("stale")>>
          BY <2>1, <2>6, <4>0, VerifyFacts
        <5> QED BY <2>3, <5>1, EventsAreEvents
      <4>2. agg[a].hash.body # h.body
        BY <2>1, <2>3, <2>6, <4>1, VerifyFacts, EventsAreEvents
      <4>3. agg[a].state = "stale"
        BY <2>1, <2>3, <2>6, <4>1, <4>2, VerifyFacts, EventsAreEvents
      <4> QED BY <4>1, <4>2, <4>3
    <3> QED BY <2>4, <2>6, <3>1 DEF Fits
  <2> QED BY <2>5, <2>6
<1>3. \A b \in s.checked \ s.revisited : Fits(agg[b].state, Resolve(tree, b), accepted[b])
  BY <1>2 DEF AfterVerify, CalmRun
<1>4. \A b \in s.checked : Quiet(b, s.ref, tree, agg, keys)
  BY <1>1 DEF AfterVerify, CalmRun
<1>5. Listed(s.files, agg) \subseteq s.checked \union s.todo
  BY DEF AfterVerify, CalmRun
<1> QED BY <1>3, <1>4, <1>5 DEF AfterVerify, CalmRun

\* A state that was judged fits.
LEMMA JudgedFits ==
    ASSUME NEW x, NEW r, NEW h, Judged(x, r, h), NEW c, c.sig = r.hash.sig, c.body = r.hash.body
    PROVE  Fits(x.state, h, c)
BY DEF Judged, Fits

\* What an event of one anchor leaves of the listed anchors and of the moves.
LEMMA SameLists ==
    ASSUME NEW g, NEW k, NEW files, NEW t,
           \A a \in Anchor : /\ (k[a].state # "none") <=> (g[a].state # "none")
                             /\ g[a].state # "none" => k[a].hash.sig = g[a].hash.sig
    PROVE  /\ Listed(files, k) = Listed(files, g) /\ Symbols(files, k) = Symbols(files, g)
           /\ MovesIn(files, t, k) = MovesIn(files, t, g)
<1>1. Listed(files, k) = Listed(files, g)
  BY DEF Listed
<1>2. Symbols(files, k) = Symbols(files, g)
  BY <1>1 DEF Symbols
<1>3. PICK b : b = [a \in Symbols(files, g) |-> g[a].hash]
  OBVIOUS
<1>4. PICK d : d = [a \in Symbols(files, k) |-> k[a].hash]
  OBVIOUS
<1>5. DOMAIN b = DOMAIN d /\ \A a \in DOMAIN b : b[a].sig = d[a].sig
  <2>1. \A a \in Symbols(files, g) : k[a].hash.sig = g[a].hash.sig
    BY DEF Symbols, Listed
  <2> QED BY <1>2, <1>3, <1>4, <2>1
<1>6. DetectMoves(b, Snapshot(t, files)) = DetectMoves(d, Snapshot(t, files))
  BY <1>5, DetectBySignature
<1> QED BY <1>1, <1>2, <1>3, <1>4, <1>6 DEF MovesIn

\* A verification that wrote its judgement.
LEMMA CalmOfJudged ==
    ASSUME Basic, NEW p \in Proc, NEW a \in Anchor, NEW h \in Hash, h = Resolve(tree, a),
           run[p].pc = "verify", agg[a].state # "none", tree' = tree, accepted' = accepted, changes' = changes,
           CalmRun(run[p], tree, agg, accepted, keys, changes),
           NEW s, NEW v, AfterVerify(s, run[p], a, v), run[p].revisited \subseteq v,
           NEW x, Wrote(p, a, x, Key("verify", a, run[p].ref, h)), Judged(x, agg[a], h)
    PROVE  CalmRun(s, tree', agg', accepted', keys', changes')
<1>1. /\ TypeOK /\ run[p] \in Run /\ run[p].checked \subseteq Anchor
      /\ accepted[a].sig = agg[a].hash.sig /\ accepted[a].body = agg[a].hash.body
  BY DEF Basic, TypeOK, Run, Baseline
<1>2. agg'[a] = x /\ \A b \in Anchor : b # a => agg'[b] = agg[b]
  BY <1>1, WroteFacts
<1>3. keys \subseteq keys' /\ Key("verify", a, run[p].ref, h) \in keys'
  BY DEF Wrote
<1>4. x.state # "none" /\ x.hash.sig = agg[a].hash.sig
  BY DEF Judged
<1>5. /\ Listed(s.files, agg') = Listed(s.files, agg) /\ Symbols(s.files, agg') = Symbols(s.files, agg)
  <2>1. \A b \in Anchor : /\ (agg'[b].state # "none") <=> (agg[b].state # "none")
                          /\ agg[b].state # "none" => agg'[b].hash.sig = agg[b].hash.sig
    BY <1>2, <1>4
  <2> QED BY <2>1, SameLists
<1>6. ASSUME NEW b \in s.checked \ s.revisited PROVE Fits(agg'[b].state, Resolve(tree', b), accepted'[b])
  <2>1. CASE b = a
    BY <1>1, <1>2, <2>1, JudgedFits
  <2>2. CASE b # a
    <3>1. b \in run[p].checked \ run[p].revisited /\ b \in Anchor
      BY <1>1, <1>6, <2>2 DEF AfterVerify
    <3> QED BY <1>2, <2>2, <3>1 DEF CalmRun
  <2> QED BY <2>1, <2>2
<1>7. ASSUME NEW b \in s.checked PROVE Quiet(b, s.ref, tree', agg', keys')
  <2>1. CASE b = a
    BY <1>3, <2>1 DEF Quiet, AfterVerify
  <2>2. CASE b # a
    <3>1. b \in run[p].checked /\ b \in Anchor /\ s.ref = run[p].ref
      BY <1>1, <1>7, <2>2 DEF AfterVerify
    <3>2. Quiet(b, s.ref, tree, agg, keys)
      BY <3>1 DEF CalmRun
    <3> QED BY <1>2, <1>3, <2>2, <3>1, <3>2 DEF Quiet
  <2> QED BY <2>1, <2>2
<1>8. Listed(s.files, agg') \subseteq s.checked \union s.todo
  BY <1>5 DEF AfterVerify, CalmRun
<1>9. /\ DOMAIN s.before = Symbols(s.files, agg')
      /\ \A b \in DOMAIN s.before : s.before[b].sig = agg'[b].hash.sig
  <2>1. /\ s.before = run[p].before /\ s.files = run[p].files /\ DOMAIN s.before = Symbols(s.files, agg)
        /\ \A b \in DOMAIN s.before : s.before[b].sig = agg[b].hash.sig
    BY DEF AfterVerify, CalmRun
  <2>2. Symbols(s.files, agg) \subseteq Anchor
    BY DEF Symbols, Listed
  <2> QED BY <1>2, <1>4, <1>5, <2>1, <2>2
<1> QED BY <1>6, <1>7, <1>8, <1>9 DEF AfterVerify, CalmRun

\* A move that was proposed.
LEMMA CalmOfMove ==
    ASSUME Basic, NEW p \in Proc, NEW m \in run[p].moves, m[1] \in Anchor, MoveEffect(p, m), run[p].pc = "move",
           tree' = tree, changes' = changes, run'[p].calm,
           CalmRun(run[p], tree, agg, accepted, keys, changes)
    PROVE  CalmRun(run'[p], tree', agg', accepted', keys', changes')
<1>1. PICK s : s = run'[p]
  OBVIOUS
<1>2. PICK r : r = run[p]
  OBVIOUS
<1>3. s # Idle
  BY <1>1, IdleFacts
<1>4. /\ SameRun(s, r) /\ s.moves = r.moves \ {m} /\ s.pc \in {"move", "done"} /\ accepted' = accepted
      /\ \/ UNCHANGED <<agg, keys>> /\ Key("move", m[1], r.ref, m[2]) \in keys
         \/ \E x : /\ Wrote(p, m[1], x, Key("move", m[1], r.ref, m[2]))
                   /\ x.state = agg[m[1]].state /\ x.hash = agg[m[1]].hash
  BY <1>1, <1>2, <1>3 DEF MoveEffect, WroteNothing
<1>5. /\ keys \subseteq keys' /\ Key("move", m[1], r.ref, m[2]) \in keys'
      /\ \A b \in Anchor : agg'[b].state = agg[b].state /\ agg'[b].hash = agg[b].hash
  <2>1. CASE UNCHANGED <<agg, keys>> /\ Key("move", m[1], r.ref, m[2]) \in keys
    BY <2>1
  <2>2. ASSUME NEW x, Wrote(p, m[1], x, Key("move", m[1], r.ref, m[2])),
               x.state = agg[m[1]].state, x.hash = agg[m[1]].hash
        PROVE  /\ keys \subseteq keys' /\ Key("move", m[1], r.ref, m[2]) \in keys'
               /\ \A b \in Anchor : agg'[b].state = agg[b].state /\ agg'[b].hash = agg[b].hash
    <3>1. agg'[m[1]] = x /\ \A b \in Anchor : b # m[1] => agg'[b] = agg[b]
      BY <2>2, WroteFacts DEF Basic
    <3> QED BY <2>2, <3>1 DEF Wrote
  <2> QED BY <1>4, <2>1, <2>2
<1>6. /\ Listed(r.files, agg') = Listed(r.files, agg)
      /\ MovesIn(r.files, tree, agg') = MovesIn(r.files, tree, agg)
  BY <1>5, SameLists
<1>7. r \in Run /\ r.checked \subseteq Anchor
  BY <1>2 DEF Basic, TypeOK, Run
<1>8. CalmRun(r, tree, agg, accepted, keys, changes) /\ r.pc = "move"
  BY <1>2
<1>9. \A b \in s.checked \ s.revisited : Fits(agg'[b].state, Resolve(tree', b), accepted'[b])
  BY <1>4, <1>5, <1>7, <1>8 DEF SameRun, CalmRun
<1>10. ASSUME NEW b \in s.checked PROVE Quiet(b, s.ref, tree', agg', keys')
  <2>1. b \in Anchor /\ s.ref = r.ref /\ Quiet(b, r.ref, tree, agg, keys)
    BY <1>4, <1>7, <1>8, <1>10 DEF SameRun, CalmRun
  <2>2. VerifyDecide(agg'[b], Resolve(tree, b)) = VerifyDecide(agg[b], Resolve(tree, b))
    BY <1>5, <2>1 DEF VerifyDecide
  <2> QED BY <1>5, <2>1, <2>2 DEF Quiet
<1>11. ASSUME NEW n \in s.moves PROVE LeadsToTheCode(n, s.files, tree', agg', accepted')
  <2>1. LeadsToTheCode(n, r.files, tree, agg, accepted) /\ s.files = r.files
    BY <1>4, <1>8, <1>11 DEF SameRun, CalmRun
  <2> QED BY <1>4, <1>5, <2>1 DEF LeadsToTheCode
<1>12. ASSUME s.mode # "all", NEW d \in MovesIn(s.files, tree', agg')
       PROVE  MoveKey(d, s.ref) \in keys' \/ \E n \in s.moves : n[1] = d.from /\ n[2] = d.to
  <2>1. s.files = r.files /\ s.ref = r.ref /\ s.mode = r.mode /\ d \in MovesIn(r.files, tree, agg)
    BY <1>4, <1>6, <1>12 DEF SameRun
  <2>2. MoveKey(d, r.ref) \in keys \/ \E n \in r.moves : n[1] = d.from /\ n[2] = d.to
    BY <1>8, <1>12, <2>1 DEF CalmRun
  <2>3. ASSUME NEW n \in r.moves, n[1] = d.from, n[2] = d.to
        PROVE  MoveKey(d, s.ref) \in keys' \/ \E k \in s.moves : k[1] = d.from /\ k[2] = d.to
    <3>1. CASE n = m
      BY <1>5, <2>1, <2>3, <3>1 DEF MoveKey
    <3>2. CASE n # m
      BY <1>4, <2>3, <3>2
    <3> QED BY <3>1, <3>2
  <2> QED BY <1>5, <2>1, <2>2, <2>3
<1>13. Listed(s.files, agg') \subseteq s.checked \union s.todo
  BY <1>4, <1>6, <1>8 DEF SameRun, CalmRun
<1>14. CalmRun(s, tree', agg', accepted', keys', changes')
  BY <1>4, <1>8, <1>9, <1>10, <1>11, <1>12, <1>13 DEF SameRun, CalmRun
<1> QED BY <1>1, <1>14

\* A hash of a symbol of a file without a parser is the file.
LEMMA DegradedHash ==
    ASSUME NEW a \in AnchorName, a.path \notin Parsed, NEW h \in HashOf(a), h # NoHash
    PROVE  \E f \in File[a.path] : h.sig = f
<1>1. PICK t \in Trees : h = Resolve(t, a)
  BY DEF HashOf
<1>2. a.path \in Path
  BY AnchorsAreNamed
<1>3. t[a.path] # Missing /\ h = Hash3(t[a.path], t[a.path], t[a.path])
  BY <1>1 DEF Resolve
<1>4. t[a.path] \in File[a.path]
  BY <1>2, <1>3 DEF Trees
<1> QED BY <1>3, <1>4 DEF Hash3

\* What is detected leads to the code: the old anchor is gone, for its signature is that of a
\* symbol, and the new one has no record, nor has another symbol with the signature.
LEMMA DetectedLeads ==
    ASSUME Basic, NEW r \in Run, LocalsOf(r, head, agg), CalmRun(r, tree, agg, accepted, keys, changes),
           r.pc = "observe", NEW m \in DetectMoves(r.before, Snapshot(tree, r.files)),
           NEW n, n[1] = m.from, n[2] = m.to
    PROVE  LeadsToTheCode(n, r.files, tree, agg, accepted)
<1>1. PICK after : after = Snapshot(tree, r.files)
  OBVIOUS
<1>2. /\ m.from \in DOMAIN r.before /\ m.from \notin DOMAIN after /\ m.to \in DOMAIN after /\ m.to \notin DOMAIN r.before
      /\ after[m.to].sig = r.before[m.from].sig
      /\ \A x \in DOMAIN after \ DOMAIN r.before : after[x].sig = r.before[m.from].sig => x = m.to
  BY <1>1, DetectFacts
<1>3. /\ DOMAIN r.before = Symbols(r.files, agg)
      /\ \A a \in DOMAIN r.before : r.before[a].sig = agg[a].hash.sig
  BY DEF CalmRun
<1>4. PICK a \in Anchor : a = m.from /\ a.path \in r.files /\ a.sym # Whole /\ agg[a].state # "none"
  BY <1>2, <1>3 DEF Symbols, Listed
<1>5. PICK b : b = m.to
  OBVIOUS
<1>6. tree \in Trees /\ r.files \in SUBSET Path
  BY DEF Basic, TypeOK, Run
<1>7. /\ b \in AnchorName /\ b.path \in r.files \intersect Parsed /\ b.sym \in Symbol
      /\ after[b] = Resolve(tree, b) /\ Resolve(tree, b) # NoHash
  BY <1>1, <1>2, <1>5, <1>6, SnapshotFacts
<1>8. /\ accepted[a].sig = agg[a].hash.sig /\ agg[a].hash \in HashOf(a) /\ agg[a].hash # NoHash
      /\ a \in AnchorName /\ a = A(a.path, a.sym) /\ a.path \in Path /\ a.sym \in Symbol
  BY <1>4, AnchorsAreNamed DEF Basic, Baseline, TypeOK
<1>9. Resolve(tree, b).sig = accepted[a].sig /\ r.before[a].sig = accepted[a].sig
  BY <1>2, <1>3, <1>4, <1>5, <1>7, <1>8
<1>10. a.path \in Parsed
  <2> SUFFICES ASSUME a.path \notin Parsed PROVE FALSE
    OBVIOUS
  <2>1. PICK f \in File[a.path] : agg[a].hash.sig = f
    BY <1>8, DegradedHash
  <2>2. b = A(b.path, b.sym) /\ b.path \in Parsed
    BY <1>7, AnchorsAreNamed
  <2>3. PICK q \in Parsed, s \in Symbol : b = A(q, s)
    BY <1>7, <2>2
  <2>4. tree[q] # Missing /\ tree[q].syms[s] # Gone /\ Resolve(tree, b).sig = tree[q].syms[s].sig
    BY <1>6, <1>7, <2>3, ResolveSymbol
  <2>5. tree[q] \in File[q]
    BY <1>6, <2>3, <2>4, AnchorConstants DEF Trees
  <2>6. tree[q].syms[s].sig # f
    BY <1>8, <2>1, <2>3, <2>4, <2>5, HashesAreTold
  <2> QED BY <1>8, <1>9, <2>1, <2>4, <2>6
<1>11. Resolve(tree, a) = NoHash
  BY <1>1, <1>2, <1>4, <1>6, <1>8, <1>10, SnapshotFacts
<1>12. ASSUME NEW s \in Symbol, NEW f \in r.files, A(f, s) # b, f \in Parsed, Resolve(tree, A(f, s)) # NoHash,
              Resolve(tree, A(f, s)).sig = accepted[a].sig
       PROVE  A(f, s) \in Anchor /\ agg[A(f, s)].state # "none"
  <2>1. PICK x : x = A(f, s)
    OBVIOUS
  <2>2. x \in DOMAIN after /\ after[x] = Resolve(tree, x)
    BY <1>1, <1>6, <1>12, <2>1, SnapshotFacts
  <2>3. x \in DOMAIN r.before
    BY <1>2, <1>4, <1>5, <1>9, <1>12, <2>1, <2>2
  <2> QED BY <1>3, <2>1, <2>3 DEF Symbols, Listed
<1>13. n[1] = a /\ n[2] = b
  BY <1>4, <1>5
<1> QED BY <1>7, <1>9, <1>11, <1>12, <1>13 DEF LeadsToTheCode

\* The detection of moves leaves a calm run calm.
LEMMA CalmOfDetect ==
    ASSUME Basic, NEW p \in Proc, NEW ms, DetectEffect(p, ms), run[p].pc = "observe",
           CalmRun(run[p], tree, agg, accepted, keys, changes)
    PROVE  CalmRun(run'[p], tree, agg, accepted, keys, changes)
<1>1. PICK r \in Run : r = run[p]
  BY DEF Basic, TypeOK
<1>2. PICK s : s = run'[p]
  OBVIOUS
<1>3. PICK found : found = DetectMoves(r.before, Snapshot(tree, r.files))
  OBVIOUS
<1>4. /\ SameRun(s, r) /\ s.pc \in {"move", "done"} /\ s.moves = ms
      /\ \A n \in ms : \E m \in found : n[1] = m.from /\ n[2] = m.to
      /\ r.mode # "all" => \A m \in found : \E n \in ms : n[1] = m.from /\ n[2] = m.to
  BY <1>1, <1>2, <1>3 DEF DetectEffect
<1>5. LocalsOf(r, head, agg) /\ CalmRun(r, tree, agg, accepted, keys, changes) /\ r.pc = "observe"
  BY <1>1 DEF Basic, Locals
<1>6. ASSUME NEW n \in s.moves PROVE LeadsToTheCode(n, s.files, tree, agg, accepted)
  <2>1. PICK m \in found : n[1] = m.from /\ n[2] = m.to
    BY <1>4, <1>6
  <2>2. LeadsToTheCode(n, r.files, tree, agg, accepted)
    BY <1>3, <1>5, <2>1, DetectedLeads
  <2> QED BY <1>4, <2>2 DEF SameRun
<1>7. MovesIn(r.files, tree, agg) = found
  <2>1. PICK b : b = [a \in Symbols(r.files, agg) |-> agg[a].hash]
    OBVIOUS
  <2>2. DOMAIN b = DOMAIN r.before /\ \A a \in DOMAIN b : b[a].sig = r.before[a].sig
    BY <1>5, <2>1 DEF CalmRun
  <2> QED BY <1>3, <2>1, <2>2, DetectBySignature DEF MovesIn
<1>8. s.mode # "all" => \A m \in MovesIn(s.files, tree, agg) : \E n \in s.moves : n[1] = m.from /\ n[2] = m.to
  BY <1>4, <1>7 DEF SameRun
<1>9. CalmRun(s, tree, agg, accepted, keys, changes)
  BY <1>4, <1>5, <1>6, <1>8 DEF SameRun, CalmRun
<1> QED BY <1>2, <1>9

\* Every step keeps the observations of the verifications that took effect.
LEMMA ObservedStep ==
    ASSUME Basic, KeysObserved, [Next]_vars
    PROVE  KeysObserved'
<1>1. TypeOK /\ Locals
  BY DEF Basic
<1>2. CASE keys' = keys /\ observed' = observed
  BY <1>2 DEF KeysObserved
<1>3. ASSUME NEW p \in Proc, Record(p) PROVE KeysObserved'
  <2>1. observed' = observed
    BY <1>3 DEF Record
  <2>2. keys' = keys \/ \E key : key[1] = "record" /\ keys' = keys \union {key}
    BY <1>1, <1>3, RecordStep DEF RecordEffect, WroteNothing, Wrote
  <2>3. \A a, ref, h : Key("verify", a, ref, h)[1] # "record"
    BY DEF Key
  <2>4. \A a, ref, h : Key("verify", a, ref, h) \in keys' => Key("verify", a, ref, h) \in keys
    BY <2>2, <2>3
  <2> QED BY <2>1, <2>4 DEF KeysObserved
<1>4. ASSUME NEW p \in Proc, Move(p) PROVE KeysObserved'
  <2>1. observed' = observed
    BY <1>4 DEF Move
  <2>2. PICK m : MoveEffect(p, m)
    BY <1>1, <1>4, MoveStep
  <2>3. keys' = keys \/ keys' = keys \union {Key("move", m[1], run[p].ref, m[2])}
    BY <2>2 DEF MoveEffect, WroteNothing, Wrote
  <2>4. \A a, ref, h : Key("verify", a, ref, h) # Key("move", m[1], run[p].ref, m[2])
    BY DEF Key
  <2>5. \A a, ref, h : Key("verify", a, ref, h) \in keys' => Key("verify", a, ref, h) \in keys
    BY <2>3, <2>4
  <2> QED BY <2>1, <2>5 DEF KeysObserved
<1>5. ASSUME NEW p \in Proc, Verify(p) PROVE KeysObserved'
  <2>1. PICK a, h : VerifyEffect(p, a, h)
    BY <1>1, <1>5, VerifyStep
  <2>2. PICK ref : ref = run[p].ref
    OBVIOUS
  <2>3. observed' = observed \union {<<a, ref, h>>}
    BY <2>1, <2>2 DEF VerifyEffect
  <2>4. keys' = keys \/ keys' = keys \union {Key("verify", a, ref, h)}
    BY <2>1, <2>2 DEF VerifyEffect, WroteNothing, Wrote
  <2>5. ASSUME NEW b, NEW k, NEW i, Key("verify", b, k, i) = Key("verify", a, ref, h)
        PROVE  <<b, k, i>> \in observed'
    <3>1. b = a /\ k = ref /\ i = h
      BY <2>5 DEF Key
    <3> QED BY <2>3, <3>1
  <2> QED BY <2>3, <2>4, <2>5 DEF KeysObserved
<1>6. CASE UNCHANGED vars
  BY <1>2, <1>6 DEF vars
<1>7. CASE \/ \E p \in Path, f \in (UNION {File[q] : q \in Path}) \union {Missing} : Edit(p, f)
           \/ \E p, q \in Path : Rename(p, q)
           \/ \E paths \in SUBSET Path : Commit(paths)
  <2>1. UserStep
    BY <1>1, <1>7, UserSteps
  <2> QED BY <1>2, <2>1 DEF UserStep
<1>8. ASSUME NEW p \in Proc,
             \/ \E a \in Anchor : StartRecord(p, a)
             \/ \E mode \in {"all", "changed", "commit"}, files \in SUBSET Path : StartVerify(p, mode, files)
             \/ Lookup(p) \/ OpenChange(p) \/ Settle(p) \/ Observe(p) \/ Detect(p) \/ Stop(p)
      PROVE  KeysObserved'
  <2>1. keys' = keys /\ observed' = observed
    BY <1>8 DEF StartRecord, StartVerify, Lookup, OpenChange, Settle, Observe, Detect, Stop
  <2> QED BY <1>2, <2>1
<1> QED BY <1>3, <1>4, <1>5, <1>6, <1>7, <1>8, Zenon DEF Next

\* What a step of a process does to the Changes.
LEMMA GrownFacts ==
    ASSUME TypeOK
    PROVE  /\ changes' = changes => Grown
           /\ \A e \in ChangeEvent : changes' = Append(changes, e) => Grown
<1>1. changes' = changes => Grown
  BY DEF Grown, OpenedIn
<1>2. ASSUME NEW e \in ChangeEvent, changes' = Append(changes, e) PROVE Grown
  <2>1. \A ref, n : n \in OpenedIn(changes, ref) => n \in OpenedIn(changes', ref)
    BY <1>2, RecordedFacts
  <2> QED BY <2>1 DEF Grown
<1> QED BY <1>1, <1>2

\* The user takes calm from everybody.
LEMMA NobodyCalm ==
    ASSUME TypeOK, UserStep
    PROVE  \A q \in Proc : ~run'[q].calm /\ (run'[q] = Idle \/ SameButCalm(run'[q], run[q]))
<1>1. \A q \in Proc : run[q] \in Run /\ run'[q] = Uncalmed(run[q])
  BY DEF TypeOK, UserStep
<1> QED BY <1>1, UncalmedFacts

\* The steps of a derivation and the observations keep a run calm.
LEMMA CalmOfRun ==
    ASSUME Basic, Calm, NEW p \in Proc,
           Lookup(p) \/ OpenChange(p) \/ Settle(p) \/ Observe(p) \/ Detect(p)
    PROVE  Calm' /\ Alone(p) /\ Still
<1>1. /\ TypeOK /\ Locals /\ Len(changes) \in Nat
      /\ run[p].calm => CalmRun(run[p], tree, agg, accepted, keys, changes)
  BY DEF Basic, TypeOK, Calm
<1>2. UNCHANGED <<tree, agg, accepted, keys>>
  BY DEF Lookup, OpenChange, Settle, Observe, Detect
<1>3. CASE Lookup(p)
  <2>1. /\ Stepped(p) /\ run[p].pc = "lookup" /\ changes' = changes
        /\ run'[p].pc = IF Opened(run[p].ref) \intersect 1..run[p].known = {} THEN "open" ELSE "observe"
    BY <1>1, <1>3, LookupStep DEF Lookup
  <2>2. Still
    BY <1>1, <1>2, <2>1, GrownFacts DEF Still
  <2>3. run'[p].pc = "observe" => OpenedIn(changes, run'[p].ref) # {}
    <3>1. Opened(run[p].ref) = OpenedIn(changes, run[p].ref)
      BY DEF Opened, OpenedIn
    <3>2. run'[p].ref = run[p].ref
      BY <2>1 DEF Stepped, SameRun
    <3> QED BY <2>1, <3>1, <3>2
  <2>4. run'[p].calm => CalmRun(run'[p], tree, agg, accepted, keys, changes)
    BY <1>1, <2>1, <2>3, CalmOfStepped DEF Stepped, SameRun
  <2>5. run'[p].calm => CalmRun(run'[p], tree', agg', accepted', keys', changes')
    BY <2>2, <2>4, CalmKept
  <2> QED BY <1>1, <2>1, <2>2, <2>5, CalmOfProcess DEF Stepped
<1>4. CASE OpenChange(p)
  <2>1. Stepped(p) /\ run[p].pc = "open" /\ run'[p].pc \in {"observe", "settle"}
    BY <1>1, <1>4, OpenStep DEF OpenChange
  <2>2. PICK e \in ChangeEvent : changes' = Append(changes, e) /\ e.kind = "ChangeOpened" /\ e.ref = run[p].ref
    <3>1. PICK e : e = ChangeRecord("ChangeOpened", p, Len(changes) + 1)
      OBVIOUS
    <3>2. e \in ChangeEvent /\ e.kind = "ChangeOpened" /\ e.ref = run[p].ref
      BY <1>1, <3>1, ChangeRecordFacts DEF ChangeRecord
    <3> QED BY <1>4, <3>1, <3>2 DEF OpenChange
  <2>3. Still
    BY <1>1, <1>2, <2>2, GrownFacts DEF Still
  <2>4. OpenedIn(changes', run'[p].ref) # {}
    <3>1. run'[p].ref = run[p].ref
      BY <2>1 DEF Stepped, SameRun
    <3>2. Len(changes) + 1 \in OpenedIn(changes', run[p].ref)
      BY <1>1, <2>2, RecordedFacts
    <3> QED BY <3>1, <3>2
  <2>5. run[p].calm => CalmRun(run[p], tree', agg', accepted', keys', changes')
    BY <1>1, <2>3, CalmKept
  <2>6. run'[p].calm => CalmRun(run'[p], tree', agg', accepted', keys', changes')
    BY <2>1, <2>4, <2>5, CalmOfStepped DEF Stepped, SameRun
  <2> QED BY <1>1, <2>1, <2>3, <2>6, CalmOfProcess DEF Stepped
<1>5. CASE Settle(p)
  <2>1. Stepped(p) /\ run[p].pc = "settle" /\ run'[p].pc = "observe"
    BY <1>1, <1>5, SettleStep DEF Settle
  <2>2. PICK e \in ChangeEvent : changes' = Append(changes, e)
    <3>1. run[p].change \in Nat
      BY <1>1 DEF TypeOK, Run
    <3> QED BY <1>1, <1>5, <3>1, ChangeRecordFacts DEF Settle
  <2>3. Still
    BY <1>1, <1>2, <2>2, GrownFacts DEF Still
  <2>4. run[p].calm => CalmRun(run[p], tree', agg', accepted', keys', changes')
    BY <1>1, <2>3, CalmKept
  <2>5. run'[p].calm => CalmRun(run'[p], tree', agg', accepted', keys', changes')
    <3>1. run[p].calm /\ run[p].mode = "commit" => OpenedIn(changes', run[p].ref) # {}
      BY <2>1, <2>4 DEF CalmRun
    <3> QED BY <2>1, <2>4, <3>1, CalmOfStepped DEF Stepped, SameRun
  <2> QED BY <1>1, <2>1, <2>3, <2>5, CalmOfProcess DEF Stepped
<1>6. CASE Observe(p)
  <2>1. /\ Stepped(p) /\ run[p].pc = "observe" /\ run'[p].pc = "verify" /\ changes' = changes
        /\ run'[p].seen = Resolve(tree, run'[p].at)
    BY <1>1, <1>6, ObserveStep DEF Observe
  <2>2. Still
    BY <1>1, <1>2, <2>1, GrownFacts DEF Still
  <2>3. run'[p].calm => CalmRun(run'[p], tree, agg, accepted, keys, changes)
    <3>1. run[p].calm /\ run[p].mode = "commit" => OpenedIn(changes, run[p].ref) # {}
      BY <1>1, <2>1 DEF CalmRun
    <3> QED BY <1>1, <2>1, <3>1, CalmOfStepped DEF Stepped, SameRun
  <2>4. run'[p].calm => CalmRun(run'[p], tree', agg', accepted', keys', changes')
    BY <2>2, <2>3, CalmKept
  <2> QED BY <1>1, <2>1, <2>2, <2>4, CalmOfProcess DEF Stepped
<1>7. CASE Detect(p)
  <2>1. PICK ms : DetectEffect(p, ms)
    BY <1>1, <1>7, DetectStep
  <2>2. Alone(p) /\ run'[p].calm = run[p].calm
    BY <2>1 DEF DetectEffect, SameRun
  <2>3. run[p].pc = "observe" /\ changes' = changes
    BY <1>7 DEF Detect
  <2>4. Still
    BY <1>1, <1>2, <2>3, GrownFacts DEF Still
  <2>5. run'[p].calm => CalmRun(run'[p], tree, agg, accepted, keys, changes)
    BY <1>1, <2>1, <2>2, <2>3, CalmOfDetect
  <2>6. run'[p].calm => CalmRun(run'[p], tree', agg', accepted', keys', changes')
    BY <2>4, <2>5, CalmKept
  <2> QED BY <1>1, <2>2, <2>4, <2>6, CalmOfProcess
<1> QED BY <1>3, <1>4, <1>5, <1>6, <1>7

\* Every step keeps what calm runs have seen.
LEMMA CalmStep ==
    ASSUME Basic, KeysObserved, Calm, [Next]_vars
    PROVE  Calm'
<1>1. TypeOK /\ Locals /\ \A p \in Proc : run[p].calm => CalmRun(run[p], tree, agg, accepted, keys, changes)
  BY DEF Basic, Calm
<1>2. CASE UNCHANGED vars
  BY <1>2 DEF vars, Calm
<1>3. CASE \/ \E p \in Path, f \in (UNION {File[q] : q \in Path}) \union {Missing} : Edit(p, f)
           \/ \E p, q \in Path : Rename(p, q)
           \/ \E paths \in SUBSET Path : Commit(paths)
  <2>1. UserStep
    BY <1>1, <1>3, UserSteps
  <2> QED BY <1>1, <2>1, NobodyCalm DEF Calm
<1>4. ASSUME NEW p \in Proc, NEW a \in Anchor, StartRecord(p, a) PROVE Calm'
  <2>1. Noticed(p) /\ ~run'[p].calm
    BY <1>1, <1>4, StartRecordRun DEF RecordRun
  <2> QED BY <1>1, <2>1, CalmOfProcess
<1>5. ASSUME NEW p \in Proc, NEW mode \in {"all", "changed", "commit"}, NEW files \in SUBSET Path,
             StartVerify(p, mode, files)
      PROVE  Calm'
  <2>1. Noticed(p) /\ VerifyRun(run'[p], mode, files)
    BY <1>1, <1>5, StartVerifyRun
  <2>2. CalmRun(run'[p], tree, agg, accepted, keys, changes)
    BY <2>1, CalmOfStart
  <2>3. UNCHANGED <<tree, agg, accepted, keys, changes>>
    BY <1>5 DEF StartVerify
  <2> QED BY <1>1, <2>1, <2>2, <2>3, CalmOfProcess
<1>6. ASSUME NEW p \in Proc, Lookup(p) \/ OpenChange(p) \/ Settle(p) \/ Observe(p) \/ Detect(p) PROVE Calm'
  BY <1>6, CalmOfRun
<1>7. ASSUME NEW p \in Proc, Record(p) PROVE Calm'
  <2>1. /\ run'[p] = Idle /\ changes' = changes /\ tree' = tree
        /\ (Alone(p) /\ UNCHANGED <<agg, keys, accepted>>) \/ Noticed(p)
    BY <1>1, <1>7, RecordStep DEF RecordEffect, WroteNothing, Wrote, Record
  <2> QED BY <1>1, <2>1, CalmOfProcess, IdleFacts, GrownFacts DEF Still
<1>8. ASSUME NEW p \in Proc, Verify(p) PROVE Calm'
  <2>1. PICK a \in Anchor : a = run[p].at
    BY <1>1, <1>8, VerifyStep
  <2>2. PICK h \in Hash : h = run[p].seen
    BY <1>1 DEF TypeOK, Run
  <2>3. VerifyEffect(p, a, h) /\ agg[a].state # "none"
    BY <1>1, <1>8, <2>1, <2>2, VerifyStep
  <2>4. PICK v \in SUBSET Anchor :
          /\ AfterVerify(run'[p], run[p], a, v) /\ run[p].revisited \subseteq v
          /\ a \in v \/ <<a, run[p].ref, h>> \notin observed
    BY <2>3 DEF VerifyEffect
  <2>5. /\ run[p].pc = "verify" /\ changes' = changes /\ tree' = tree /\ accepted' = accepted
        /\ run'[p].calm = run[p].calm
    BY <1>8, <2>3, <2>4 DEF Verify, VerifyEffect, AfterVerify
  <2>6. run[p].calm => h = Resolve(tree, a)
    BY <1>1, <2>1, <2>2, <2>5 DEF CalmRun
  <2>7. CASE /\ WroteNothing(p)
             /\ Key("verify", a, run[p].ref, h) \in keys \/ VerifyDecide(agg[a], h) = << >>
    <3>1. run'[p].calm => CalmRun(run'[p], tree, agg, accepted, keys, changes)
      BY <1>1, <2>3, <2>4, <2>5, <2>6, <2>7, CalmOfPassed
    <3>2. Alone(p) /\ Still
      BY <1>1, <2>5, <2>7, GrownFacts DEF WroteNothing, Still
    <3> QED BY <1>1, <3>1, <3>2, CalmKept, CalmOfProcess
  <2>8. ASSUME NEW x, Wrote(p, a, x, Key("verify", a, run[p].ref, h)), Judged(x, agg[a], h) PROVE Calm'
    <3>1. run'[p].calm => CalmRun(run'[p], tree', agg', accepted', keys', changes')
      BY <1>1, <2>3, <2>4, <2>5, <2>6, <2>8, CalmOfJudged
    <3> QED BY <1>1, <2>8, <3>1, CalmOfProcess DEF Wrote
  <2> QED BY <2>3, <2>7, <2>8 DEF VerifyEffect
<1>9. ASSUME NEW p \in Proc, Move(p) PROVE Calm'
  <2>1. PICK m \in run[p].moves : m[1] \in Anchor /\ MoveEffect(p, m)
    BY <1>1, <1>9, MoveStep
  <2>2. run[p].pc = "move" /\ tree' = tree /\ changes' = changes
    BY <1>9 DEF Move
  <2>3. /\ accepted' = accepted /\ (run'[p].calm => run[p].calm)
        /\ (Alone(p) /\ UNCHANGED <<agg, keys>>) \/ Noticed(p)
    BY <2>1, IdleFacts DEF MoveEffect, WroteNothing, Wrote, SameRun
  <2>4. run'[p].calm => CalmRun(run'[p], tree', agg', accepted', keys', changes')
    BY <1>1, <2>1, <2>2, <2>3, CalmOfMove
  <2> QED BY <1>1, <2>2, <2>3, <2>4, CalmOfProcess, GrownFacts DEF Still
<1>10. ASSUME NEW p \in Proc, Stop(p) PROVE Calm'
  <2>1. Alone(p) /\ run'[p] = Idle /\ UNCHANGED <<tree, agg, accepted, keys, changes>>
    BY <1>1, <1>10, RunFacts, IdleFacts DEF Stop
  <2> QED BY <1>1, <2>1, CalmOfProcess, IdleFacts, GrownFacts DEF Still
<1> QED BY <1>2, <1>3, <1>4, <1>5, <1>6, <1>7, <1>8, <1>9, <1>10, Zenon DEF Next

\* Before the first run there is no key and nobody is at work.
LEMMA CalmInit ==
    ASSUME Init
    PROVE  Calm /\ KeysObserved
<1>1. keys = {} /\ \A p \in Proc : run[p] = Idle
  BY DEF Init
<1> QED BY <1>1, IdleFacts DEF Calm, KeysObserved

\* A verification that nobody disturbed leaves every anchor that it saw in a form new to the
\* commit in the state its code is in (Verifier.Verify, Anchor.verify).
THEOREM AnchorCalmIsExact == Spec => []CalmVerifyIsExact
<1>1. Basic /\ Calm => CalmVerifyIsExact
  <2> SUFFICES ASSUME Basic, Calm, NEW p \in Proc, run[p].pc = "done", run[p].calm,
                      NEW a \in run[p].checked \ run[p].revisited
               PROVE  index[a].state \in Exact(a)
    BY DEF CalmVerifyIsExact
  <2>1. Fits(agg[a].state, Resolve(tree, a), accepted[a])
    BY DEF Calm, CalmRun
  <2>2. index = agg
    BY DEF Basic, TypeOK
  <2> QED BY <2>1, <2>2, FitsExact
<1> QED BY <1>1, BasicInit, BasicStep, CalmInit, CalmStep, ObservedStep, PTL DEF Spec

\* The moves that a calm run proposes lead from an anchor that is gone to the one unrecorded
\* symbol of the checked files with its signature (DetectMoves, Anchor.move).
THEOREM AnchorMoves == Spec => []MovesLeadToTheCode
<1>1. Basic /\ Calm => MovesLeadToTheCode
  <2> SUFFICES ASSUME Basic, Calm, NEW p \in Proc, run[p].pc = "move", run[p].calm, NEW m \in run[p].moves
               PROVE  LeadsToTheCode(m, run[p].files, tree, index, accepted)
    BY DEF MovesLeadToTheCode, LeadsToTheCode
  <2>1. index = agg
    BY DEF Basic, TypeOK
  <2> QED BY <2>1 DEF Calm, CalmRun
<1> QED BY <1>1, BasicInit, BasicStep, CalmInit, CalmStep, ObservedStep, PTL DEF Spec

-----------------------------------------------------------------------------
(* Runs that repeat another *)

\* While the tree and the anchors stay, a run that would write nothing still would.
LEMMA NothingKept ==
    ASSUME Still, NEW mode, NEW ref, NEW files, WritesNothing(mode, ref, files, tree, agg, keys, changes)
    PROVE  WritesNothing(mode, ref, files, tree', agg', keys', changes')
<1>1. OpenedIn(changes, ref) # {} => OpenedIn(changes', ref) # {}
  BY DEF Still, Grown
<1> QED BY <1>1 DEF Still, WritesNothing

\* A calm run that is over leaves nothing to write.
LEMMA DoneWritesNothing ==
    ASSUME NEW r, NEW t, NEW g, NEW c, NEW ks, NEW cs, CalmRun(r, t, g, c, ks, cs), r.pc = "done",
           r.todo = {}, r.moves = {}
    PROVE  WritesNothing(r.mode, r.ref, r.files, t, g, ks, cs)
BY DEF CalmRun, WritesNothing

\* What a step settles: nothing, what was settled while nothing changes, and a run that is over.
LEMMA SettledOfStep ==
    ASSUME SettledRuns, (Basic /\ Calm)',
           \/ settled' = {}
           \/ settled' \subseteq settled /\ Still
           \/ \E p \in Proc : /\ run'[p].pc = "done" /\ run'[p].calm
                              /\ settled' = {Mode(run'[p])} \/ (settled' = settled \union {Mode(run'[p])} /\ Still)
    PROVE  SettledRuns'
<1>1. CASE settled' = {}
  BY <1>1 DEF SettledRuns
<1>2. Still => \A x \in settled : WritesNothing(x[1], x[2], x[3], tree', agg', keys', changes')
  BY NothingKept DEF SettledRuns
<1>3. CASE settled' \subseteq settled /\ Still
  BY <1>2, <1>3 DEF SettledRuns
<1>4. ASSUME NEW p \in Proc, run'[p].pc = "done", run'[p].calm,
             settled' = {Mode(run'[p])} \/ (settled' = settled \union {Mode(run'[p])} /\ Still)
      PROVE  SettledRuns'
  <2>1. PICK r : r = run'[p]
    OBVIOUS
  <2>2. CalmRun(r, tree', agg', accepted', keys', changes') /\ r.todo = {} /\ r.moves = {} /\ r.pc = "done"
    BY <1>4, <2>1 DEF Calm, Basic, Locals, LocalsOf
  <2>3. WritesNothing(r.mode, r.ref, r.files, tree', agg', keys', changes')
    BY <2>2, DoneWritesNothing
  <2>4. Mode(r)[1] = r.mode /\ Mode(r)[2] = r.ref /\ Mode(r)[3] = r.files
    BY DEF Mode
  <2>5. \A x \in settled' : x = Mode(r) \/ (x \in settled /\ Still)
    BY <1>4, <2>1
  <2> QED BY <1>2, <2>3, <2>4, <2>5 DEF SettledRuns
<1> QED BY <1>1, <1>3, <1>4

\* Every step keeps what settled runs found.
LEMMA SettledStep ==
    ASSUME Basic, KeysObserved, Calm, SettledRuns, [Next]_vars
    PROVE  SettledRuns'
<1>1. (Basic /\ Calm)' /\ TypeOK /\ Locals
  BY BasicStep, CalmStep DEF Basic
<1>2. CASE UNCHANGED vars
  BY <1>2 DEF vars, SettledRuns
<1>3. CASE \/ \E p \in Path, f \in (UNION {File[q] : q \in Path}) \union {Missing} : Edit(p, f)
           \/ \E p, q \in Path : Rename(p, q)
           \/ \E paths \in SUBSET Path : Commit(paths)
  <2>1. settled' = {}
    BY <1>1, <1>3, UserSteps DEF UserStep
  <2> QED BY <1>1, <2>1, SettledOfStep
<1>4. ASSUME NEW p \in Proc,
             \/ \E a \in Anchor : StartRecord(p, a)
             \/ \E mode \in {"all", "changed", "commit"}, files \in SUBSET Path : StartVerify(p, mode, files)
             \/ Stop(p)
      PROVE  SettledRuns'
  <2>1. UNCHANGED <<tree, agg, accepted, keys, changes, settled>>
    BY <1>4 DEF StartRecord, StartVerify, Stop
  <2> QED BY <1>1, <2>1, SettledOfStep, GrownFacts DEF Still
<1>5. ASSUME NEW p \in Proc, Lookup(p) \/ OpenChange(p) \/ Settle(p) \/ Observe(p) PROVE SettledRuns'
  <2>1. settled' = settled
    BY <1>5 DEF Lookup, OpenChange, Settle, Observe
  <2> QED BY <1>1, <1>5, <2>1, CalmOfRun, SettledOfStep
<1>6. ASSUME NEW p \in Proc, Detect(p) PROVE SettledRuns'
  <2>1. PICK ms : DetectEffect(p, ms)
    BY <1>1, <1>6, DetectStep
  <2>2. Still
    BY <1>6, CalmOfRun
  <2>3. Mode(run'[p]) = Mode(run[p]) /\ run'[p].calm = run[p].calm
    BY <2>1 DEF DetectEffect, SameRun, Mode
  <2>4. \/ settled' = settled
        \/ run'[p].pc = "done" /\ run'[p].calm /\ settled' = settled \union {Mode(run'[p])}
    BY <2>1, <2>3 DEF DetectEffect
  <2> QED BY <1>1, <2>2, <2>4, SettledOfStep
<1>7. ASSUME NEW p \in Proc, Record(p) PROVE SettledRuns'
  <2>1. tree' = tree /\ changes' = changes
    BY <1>7 DEF Record
  <2>2. settled' = {} \/ (settled' = settled /\ UNCHANGED <<agg, keys, accepted>>)
    BY <1>1, <1>7, RecordStep DEF RecordEffect, WroteNothing
  <2> QED BY <1>1, <2>1, <2>2, SettledOfStep, GrownFacts DEF Still
<1>8. ASSUME NEW p \in Proc, Verify(p) PROVE SettledRuns'
  <2>1. tree' = tree /\ changes' = changes
    BY <1>8 DEF Verify
  <2>2. settled' = {} \/ (settled' = settled /\ UNCHANGED <<agg, keys, accepted>>)
    BY <1>1, <1>8, VerifyStep DEF VerifyEffect, WroteNothing
  <2> QED BY <1>1, <2>1, <2>2, SettledOfStep, GrownFacts DEF Still
<1>9. ASSUME NEW p \in Proc, Move(p) PROVE SettledRuns'
  <2>1. PICK m \in run[p].moves : MoveEffect(p, m)
    BY <1>1, <1>9, MoveStep
  <2>2. tree' = tree /\ changes' = changes
    BY <1>9 DEF Move
  <2>3. CASE WroteNothing(p) /\ settled' = settled
    BY <1>1, <2>2, <2>3, SettledOfStep, GrownFacts DEF Still, WroteNothing
  <2>4. CASE /\ SameRun(run'[p], run[p])
             /\ run'[p].pc = (IF run[p].moves \ {m} = {} THEN "done" ELSE "move")
             /\ \/ /\ WroteNothing(p)
                   /\ settled' = IF run[p].moves \ {m} = {} /\ run[p].calm THEN settled \union {Mode(run[p])}
                                 ELSE settled
                \/ settled' = IF run[p].moves \ {m} = {} /\ run[p].calm THEN {Mode(run[p])} ELSE {}
    <3>1. Mode(run'[p]) = Mode(run[p]) /\ run'[p].calm = run[p].calm
      BY <2>4 DEF SameRun, Mode
    <3>2. WroteNothing(p) => Still
      BY <1>1, <2>2, GrownFacts DEF Still, WroteNothing
    <3>3. CASE run[p].moves \ {m} = {} /\ run[p].calm
      BY <1>1, <2>4, <3>1, <3>2, <3>3, SettledOfStep
    <3>4. CASE ~(run[p].moves \ {m} = {} /\ run[p].calm)
      BY <1>1, <2>4, <3>2, <3>4, SettledOfStep
    <3> QED BY <3>3, <3>4
  <2> QED BY <2>1, <2>3, <2>4 DEF MoveEffect
<1> QED BY <1>2, <1>3, <1>4, <1>5, <1>6, <1>7, <1>8, <1>9, Zenon DEF Next

\* A process that makes no step.
LEMMA AgainKept ==
    ASSUME Grown, NEW r \in Run, r.again => AgainRun(r, tree, agg, keys, changes),
           NEW s, (s = r /\ Still) \/ s = Uncalmed(r), s.again
    PROVE  AgainRun(s, tree', agg', keys', changes')
<1>1. \A n, ref : n \in OpenedIn(changes, ref) => n \in OpenedIn(changes', ref)
  BY DEF Grown
<1>2. CASE s = r /\ Still
  BY <1>1, <1>2 DEF AgainRun, Still
<1>3. CASE SameButCalm(s, r) /\ ~s.calm
  BY <1>1, <1>3 DEF AgainRun, SameButCalm
<1>4. s # Idle
  BY IdleFacts
<1> QED BY <1>2, <1>3, <1>4, UncalmedFacts

\* After a step of a process, when its own run finds what it should.
LEMMA AgainOfProcess ==
    ASSUME TypeOK, Again, NEW p \in Proc, Grown, (Alone(p) /\ Still) \/ Noticed(p),
           run'[p].again => AgainRun(run'[p], tree', agg', keys', changes')
    PROVE  Again'
<1>1. ASSUME NEW q \in Proc, run'[q].again PROVE AgainRun(run'[q], tree', agg', keys', changes')
  <2>1. CASE q = p
    BY <1>1, <2>1
  <2>2. CASE q # p
    <3>1. run[q] \in Run /\ (run[q].again => AgainRun(run[q], tree, agg, keys, changes))
      BY DEF TypeOK, Again
    <3>2. (run'[q] = run[q] /\ Still) \/ run'[q] = Uncalmed(run[q])
      BY <2>2 DEF Alone, Noticed
    <3> QED BY <1>1, <3>1, <3>2, AgainKept
  <2> QED BY <2>1, <2>2
<1> QED BY <1>1 DEF Again

\* A calm run that repeats another finds every verification and every move done.
LEMMA AgainWritesNothing ==
    ASSUME Basic, Calm, Again, NEW p \in Proc, run[p].again, run[p].calm, Verify(p) \/ Move(p)
    PROVE  WroteNothing(p)
<1>1. /\ TypeOK /\ Locals /\ AgainRun(run[p], tree, agg, keys, changes)
      /\ CalmRun(run[p], tree, agg, accepted, keys, changes)
  BY DEF Basic, Calm, Again
<1>2. CASE Verify(p)
  <2>1. PICK a \in Anchor : a = run[p].at /\ a \in run[p].todo
    BY <1>1, <1>2, VerifyStep
  <2>2. PICK h : h = run[p].seen
    OBVIOUS
  <2>3. VerifyEffect(p, a, h)
    BY <1>1, <1>2, <2>1, <2>2, VerifyStep
  <2>4. h = Resolve(tree, a)
    BY <1>1, <1>2, <2>1, <2>2 DEF Verify, CalmRun
  <2>5. Key("verify", a, run[p].ref, h) \in keys \/ VerifyDecide(agg[a], h) = << >>
    BY <1>1, <2>1, <2>4 DEF AgainRun, Quiet
  <2> QED BY <2>3, <2>5 DEF VerifyEffect, Wrote
<1>3. CASE Move(p)
  <2>1. PICK m \in run[p].moves : MoveEffect(p, m)
    BY <1>1, <1>3, MoveStep
  <2>2. Key("move", m[1], run[p].ref, m[2]) \in keys
    BY <1>1 DEF AgainRun
  <2> QED BY <2>1, <2>2 DEF MoveEffect, Wrote
<1> QED BY <1>2, <1>3

\* A run that starts where one has settled finds what that one left.
LEMMA AgainOfStart ==
    ASSUME TypeOK, SettledRuns, NEW s, NEW mode \in {"all", "changed", "commit"}, NEW files,
           VerifyRun(s, mode, files), s.again
    PROVE  AgainRun(s, tree, agg, keys, changes)
<1>1. PICK x \in settled : x = <<mode, head, files>>
  BY DEF VerifyRun
<1>2. WritesNothing(mode, head, files, tree, agg, keys, changes)
  BY <1>1 DEF SettledRuns
<1>3. ASSUME mode = "commit" PROVE \E n \in OpenedIn(changes, head) : n <= Len(changes)
  <2>1. PICK n : n \in OpenedIn(changes, head)
    BY <1>2, <1>3 DEF WritesNothing
  <2>2. n <= Len(changes)
    BY <2>1 DEF OpenedIn, TypeOK
  <2> QED BY <2>1, <2>2
<1>4. s.pc = "lookup" => mode = "commit"
  BY DEF VerifyRun
<1>5. s.pc \in {"lookup", "observe"}
  BY DEF VerifyRun
<1> QED BY <1>2, <1>3, <1>4, <1>5 DEF VerifyRun, WritesNothing, AgainRun

\* Every step keeps what a run that repeats another finds.
LEMMA AgainStep ==
    ASSUME Basic, Calm, SettledRuns, Again, [Next]_vars
    PROVE  Again'
<1>1. /\ TypeOK /\ Locals /\ (changes' = changes => Grown)
      /\ \A p \in Proc : run[p].again => AgainRun(run[p], tree, agg, keys, changes)
      /\ \A p \in Proc : run[p].calm => CalmRun(run[p], tree, agg, accepted, keys, changes)
  BY GrownFacts DEF Basic, Again, Calm
<1>2. CASE UNCHANGED vars
  BY <1>2 DEF vars, Again
<1>3. CASE \/ \E p \in Path, f \in (UNION {File[q] : q \in Path}) \union {Missing} : Edit(p, f)
           \/ \E p, q \in Path : Rename(p, q)
           \/ \E paths \in SUBSET Path : Commit(paths)
  <2>1. UserStep
    BY <1>1, <1>3, UserSteps
  <2>2. Grown /\ \A q \in Proc : run[q] \in Run /\ run'[q] = Uncalmed(run[q])
    BY <1>1, <2>1 DEF UserStep, TypeOK
  <2> QED BY <1>1, <2>2, AgainKept DEF Again
<1>4. ASSUME NEW p \in Proc, NEW a \in Anchor, StartRecord(p, a) PROVE Again'
  <2>1. Noticed(p) /\ ~run'[p].again
    BY <1>1, <1>4, StartRecordRun DEF RecordRun
  <2>2. changes' = changes
    BY <1>4 DEF StartRecord
  <2> QED BY <1>1, <2>1, <2>2, AgainOfProcess
<1>5. ASSUME NEW p \in Proc, NEW mode \in {"all", "changed", "commit"}, NEW files \in SUBSET Path,
             StartVerify(p, mode, files)
      PROVE  Again'
  <2>1. Noticed(p) /\ VerifyRun(run'[p], mode, files)
    BY <1>1, <1>5, StartVerifyRun
  <2>2. UNCHANGED <<tree, agg, keys, changes>>
    BY <1>5 DEF StartVerify
  <2>3. run'[p].again => AgainRun(run'[p], tree, agg, keys, changes)
    BY <1>1, <2>1, AgainOfStart
  <2> QED BY <1>1, <2>1, <2>2, <2>3, AgainOfProcess
<1>6. ASSUME NEW p \in Proc, Lookup(p) PROVE Again'
  <2>1. /\ Stepped(p) /\ run[p].pc = "lookup" /\ UNCHANGED <<tree, agg, keys, changes>>
        /\ run'[p].pc = IF Opened(run[p].ref) \intersect 1..run[p].known = {} THEN "open" ELSE "observe"
    BY <1>1, <1>6, LookupStep DEF Lookup
  <2>2. Alone(p) /\ Still
    BY <1>6, CalmOfRun
  <2>3. ASSUME run'[p].again PROVE AgainRun(run'[p], tree, agg, keys, changes)
    <3>1. AgainRun(run[p], tree, agg, keys, changes)
      BY <1>1, <2>1, <2>3 DEF Stepped, SameRun
    <3>2. PICK n \in OpenedIn(changes, run[p].ref) : n <= run[p].known
      BY <2>1, <3>1 DEF AgainRun
    <3>3. n \in Opened(run[p].ref) /\ n \in 1..run[p].known
      <4>1. n \in Opened(run[p].ref) /\ n \in 1..Len(changes)
        BY DEF OpenedIn, Opened
      <4>2. run[p].known \in Nat /\ Len(changes) \in Nat
        BY <1>1 DEF TypeOK, Run
      <4> QED BY <3>2, <4>1, <4>2
    <3>4. run'[p].pc = "observe"
      BY <2>1, <3>3
    <3> QED BY <2>1, <3>1, <3>4 DEF AgainRun, Stepped, SameRun
  <2> QED BY <1>1, <2>1, <2>2, <2>3, AgainOfProcess
<1>7. ASSUME NEW p \in Proc, OpenChange(p) PROVE Again'
  <2>1. run[p].pc = "open" /\ run'[p].again = run[p].again
    BY <1>1, <1>7, OpenStep DEF OpenChange, Stepped, SameRun
  <2>2. ~run'[p].again
    BY <1>1, <2>1 DEF AgainRun
  <2> QED BY <1>1, <1>7, <2>2, CalmOfRun, AgainOfProcess DEF Still
<1>8. ASSUME NEW p \in Proc, Settle(p) PROVE Again'
  <2>1. run[p].pc = "settle" /\ run'[p].again = run[p].again
    BY <1>1, <1>8, SettleStep DEF Settle, Stepped, SameRun
  <2>2. ~run'[p].again
    BY <1>1, <2>1 DEF AgainRun
  <2> QED BY <1>1, <1>8, <2>2, CalmOfRun, AgainOfProcess DEF Still
<1>9. ASSUME NEW p \in Proc, Observe(p) PROVE Again'
  <2>1. /\ Stepped(p) /\ run[p].pc = "observe" /\ run'[p].pc = "verify" /\ UNCHANGED <<tree, agg, keys, changes>>
    BY <1>1, <1>9, ObserveStep DEF Observe
  <2>2. Alone(p) /\ Still
    BY <1>9, CalmOfRun
  <2>3. run'[p].again => AgainRun(run'[p], tree, agg, keys, changes)
    BY <1>1, <2>1 DEF AgainRun, Stepped, SameRun
  <2> QED BY <1>1, <2>1, <2>2, <2>3, AgainOfProcess
<1>10. ASSUME NEW p \in Proc, Detect(p) PROVE Again'
  <2>1. PICK ms : DetectEffect(p, ms)
    BY <1>1, <1>10, DetectStep
  <2>2. run[p].pc = "observe" /\ UNCHANGED <<tree, agg, keys, changes>>
    BY <1>10 DEF Detect
  <2>3. Alone(p) /\ Still
    BY <1>10, CalmOfRun
  <2>4. PICK found : found = DetectMoves(run[p].before, Snapshot(tree, run[p].files))
    OBVIOUS
  <2>5. /\ SameRun(run'[p], run[p]) /\ run'[p].pc \in {"move", "done"} /\ run'[p].moves = ms
        /\ \A n \in ms : run[p].mode # "all" /\ \E m \in found : n[1] = m.from /\ n[2] = m.to
    BY <2>1, <2>4 DEF DetectEffect
  <2>6. ASSUME run[p].again, run[p].calm, NEW n \in ms PROVE Key("move", n[1], run[p].ref, n[2]) \in keys
    <3>1. PICK m \in found : n[1] = m.from /\ n[2] = m.to
      BY <2>5, <2>6
    <3>2. found = MovesIn(run[p].files, tree, agg)
      <4>1. PICK b : b = [a \in Symbols(run[p].files, agg) |-> agg[a].hash]
        OBVIOUS
      <4>2. DOMAIN b = DOMAIN run[p].before /\ \A a \in DOMAIN b : b[a].sig = run[p].before[a].sig
        BY <1>1, <2>2, <2>6, <4>1 DEF CalmRun
      <4> QED BY <2>4, <4>1, <4>2, DetectBySignature DEF MovesIn
    <3>3. MoveKey(m, run[p].ref) \in keys
      BY <1>1, <2>2, <2>5, <2>6, <3>1, <3>2 DEF AgainRun
    <3> QED BY <3>1, <3>3 DEF MoveKey
  <2>7. run'[p].again => AgainRun(run'[p], tree, agg, keys, changes)
    BY <1>1, <2>5, <2>6 DEF AgainRun, SameRun
  <2> QED BY <1>1, <2>2, <2>3, <2>7, AgainOfProcess
<1>11. ASSUME NEW p \in Proc, Record(p) PROVE Again'
  <2>1. /\ run'[p] = Idle /\ changes' = changes /\ tree' = tree
        /\ (Alone(p) /\ UNCHANGED <<agg, keys, accepted>>) \/ Noticed(p)
    BY <1>1, <1>11, RecordStep DEF RecordEffect, WroteNothing, Wrote, Record
  <2> QED BY <1>1, <2>1, AgainOfProcess, IdleFacts DEF Still
<1>12. ASSUME NEW p \in Proc, Verify(p) PROVE Again'
  <2>1. PICK a, h : VerifyEffect(p, a, h)
    BY <1>1, <1>12, VerifyStep
  <2>2. PICK v : AfterVerify(run'[p], run[p], a, v)
    BY <2>1 DEF VerifyEffect
  <2>3. /\ run[p].pc = "verify" /\ changes' = changes /\ tree' = tree /\ accepted' = accepted
        /\ (Alone(p) /\ UNCHANGED <<agg, keys, accepted>>) \/ Noticed(p)
    BY <1>12, <2>1 DEF Verify, VerifyEffect, WroteNothing, Wrote
  <2>4. ASSUME run'[p].again PROVE AgainRun(run'[p], tree', agg', keys', changes')
    <3>1. run[p].again /\ run'[p].calm = run[p].calm /\ AgainRun(run[p], tree, agg, keys, changes)
      BY <1>1, <2>2, <2>4 DEF AfterVerify
    <3>2. CASE ~run[p].calm
      BY <2>2, <3>1, <3>2 DEF AgainRun, AfterVerify
    <3>3. CASE run[p].calm
      <4>1. UNCHANGED <<agg, keys>>
        BY <1>12, <3>1, <3>3, AgainWritesNothing DEF WroteNothing
      <4> QED BY <2>2, <2>3, <3>1, <4>1 DEF AgainRun, AfterVerify
    <3> QED BY <3>2, <3>3
  <2> QED BY <1>1, <2>3, <2>4, AgainOfProcess DEF Still
<1>13. ASSUME NEW p \in Proc, Move(p) PROVE Again'
  <2>1. PICK m \in run[p].moves : MoveEffect(p, m)
    BY <1>1, <1>13, MoveStep
  <2>2. /\ run[p].pc = "move" /\ changes' = changes /\ tree' = tree /\ accepted' = accepted
        /\ (Alone(p) /\ UNCHANGED <<agg, keys, accepted>>) \/ Noticed(p)
    BY <1>13, <2>1 DEF Move, MoveEffect, WroteNothing, Wrote
  <2>3. ASSUME run'[p].again PROVE AgainRun(run'[p], tree', agg', keys', changes')
    <3>1. SameRun(run'[p], run[p]) /\ run'[p].moves = run[p].moves \ {m} /\ run'[p].pc \in {"move", "done"}
      BY <2>1, <2>3, IdleFacts DEF MoveEffect
    <3>2. run[p].again /\ run'[p].calm = run[p].calm /\ AgainRun(run[p], tree, agg, keys, changes)
      BY <1>1, <2>3, <3>1 DEF SameRun
    <3>3. CASE ~run[p].calm
      BY <3>1, <3>2, <3>3 DEF AgainRun
    <3>4. CASE run[p].calm
      <4>1. UNCHANGED <<agg, keys>>
        BY <1>13, <3>2, <3>4, AgainWritesNothing DEF WroteNothing
      <4> QED BY <2>2, <3>1, <3>2, <4>1 DEF AgainRun, SameRun
    <3> QED BY <3>3, <3>4
  <2> QED BY <1>1, <2>2, <2>3, AgainOfProcess DEF Still
<1>14. ASSUME NEW p \in Proc, Stop(p) PROVE Again'
  <2>1. Alone(p) /\ run'[p] = Idle /\ UNCHANGED <<tree, agg, accepted, keys, changes>>
    BY <1>1, <1>14, RunFacts, IdleFacts DEF Stop
  <2> QED BY <1>1, <2>1, AgainOfProcess, IdleFacts DEF Still
<1> QED BY <1>2, <1>3, <1>4, <1>5, <1>6, <1>7, <1>8, <1>9, <1>10, <1>11, <1>12, <1>13, <1>14, Zenon DEF Next

\* Before the first run nothing is settled.
LEMMA AgainInit ==
    ASSUME Init
    PROVE  SettledRuns /\ Again
<1>1. settled = {} /\ \A p \in Proc : run[p] = Idle
  BY DEF Init
<1> QED BY <1>1, IdleFacts DEF SettledRuns, Again

\* A step of a calm run that repeats another writes neither to an anchor nor to a Change.
LEMMA RerunStep ==
    ASSUME Basic, Calm, Again, Next, NEW p \in Proc, run[p].again, run[p].calm, run'[p] # run[p], run'[p].calm
    PROVE  keys' = keys /\ changes' = changes
<1>1. TypeOK /\ Locals /\ AgainRun(run[p], tree, agg, keys, changes)
  BY DEF Basic, Again
<1>2. ASSUME NEW q \in Proc, Alone(q) \/ Noticed(q) PROVE q = p
  <2> SUFFICES ASSUME q # p PROVE FALSE
    OBVIOUS
  <2>1. run[p] \in Run /\ (run'[p] = run[p] \/ run'[p] = Uncalmed(run[p]))
    BY <1>1, <1>2 DEF TypeOK, Alone, Noticed
  <2> QED BY <2>1, UncalmedFacts
<1>3. CASE \/ \E f \in Path, g \in (UNION {File[q] : q \in Path}) \union {Missing} : Edit(f, g)
           \/ \E f, g \in Path : Rename(f, g)
           \/ \E paths \in SUBSET Path : Commit(paths)
  BY <1>1, <1>3, UserSteps, NobodyCalm
<1>4. ASSUME NEW q \in Proc,
             \/ \E a \in Anchor : StartRecord(q, a)
             \/ \E mode \in {"all", "changed", "commit"}, files \in SUBSET Path : StartVerify(q, mode, files)
             \/ Lookup(q) \/ Observe(q) \/ Detect(q) \/ Stop(q)
      PROVE  keys' = keys /\ changes' = changes
  BY <1>4 DEF StartRecord, StartVerify, Lookup, Observe, Detect, Stop
<1>5. ASSUME NEW q \in Proc, OpenChange(q) \/ Settle(q) PROVE FALSE
  <2>1. q = p
    BY <1>2, <1>5, CalmOfRun
  <2> QED BY <1>1, <1>5, <2>1 DEF OpenChange, Settle, AgainRun
<1>6. ASSUME NEW q \in Proc, Record(q) PROVE FALSE
  <2>1. (Alone(q) \/ Noticed(q)) /\ run'[q] = Idle
    BY <1>1, <1>6, RecordStep DEF RecordEffect, WroteNothing, Wrote
  <2>2. q = p
    BY <1>2, <2>1
  <2> QED BY <2>1, <2>2, IdleFacts
<1>7. ASSUME NEW q \in Proc, Verify(q) \/ Move(q) PROVE keys' = keys /\ changes' = changes
  <2>1. Verify(q) => Alone(q) \/ Noticed(q)
    BY <1>1, VerifyStep DEF VerifyEffect, WroteNothing, Wrote
  <2>2. Move(q) => Alone(q) \/ Noticed(q)
    BY <1>1, MoveStep DEF MoveEffect, WroteNothing, Wrote
  <2>3. q = p
    BY <1>2, <1>7, <2>1, <2>2
  <2>4. keys' = keys
    BY <1>7, <2>3, AgainWritesNothing DEF WroteNothing
  <2>5. changes' = changes
    BY <1>7 DEF Verify, Move
  <2> QED BY <2>4, <2>5
<1> QED BY <1>3, <1>4, <1>5, <1>6, <1>7, Zenon DEF Next

\* "Idempotent per (ref, anchor), so a re-run at the same commit writes nothing": a run that
\* repeats one with nothing edited, committed or recorded since leaves the ledger alone
\* (Verifier.Verify, Deriver.Derive).
THEOREM AnchorRerun == Spec => RerunWritesNothing
<1>1. Basic /\ Calm /\ Again /\ [Next]_vars =>
        [\A p \in Proc : run[p].again /\ run[p].calm /\ run'[p] # run[p] /\ run'[p].calm
            => keys' = keys /\ changes' = changes]_vars
  BY RerunStep
<1> QED BY <1>1, BasicInit, BasicStep, CalmInit, CalmStep, ObservedStep, AgainInit, SettledStep, AgainStep, PTL
        DEF Spec, RerunWritesNothing
=============================================================================
