------------------------------- MODULE Harness ------------------------------
(***************************************************************************)
(* Constraints and declared scopes, from the command that writes them to   *)
(* the edit they stop: processes of the command line that decide on their  *)
(* own projections (internal/app/projection.go), and the daemon, which     *)
(* catches up on the shared ledger and answers pre_edit hooks from its     *)
(* index (internal/app/hooks.go, internal/core/supply/hook.go).            *)
(*                                                                         *)
(* Loading, deciding and appending are one step: an append that is not on  *)
(* top of the loaded version is refused (Pipeline).  The projections a     *)
(* process built when it started learn what it writes itself, and nothing  *)
(* of what others write.  One pre_edit is served at a time.  The names of  *)
(* the specification say Harness, so that one proof module can extend this *)
(* and the aggregates.                                                     *)
(***************************************************************************)
EXTENDS ConstraintRules

CONSTANTS
    Id,            \* constraints
    Successor,     \* the constraint that takes the place of one of them
    Key,           \* scope keys in use
    Capped,        \* those that get a level or a cap
    Path,          \* paths that tell the scopes apart
    File,          \* paths of the files that are edited
    Anchor,        \* anchors in use: symbols of those files, or the files
    Repo, Owner,   \* the repository, and the person the daemon runs for
    Proc,          \* processes of the command line
    Draft,         \* the drafts that are tried
    Cap,           \* the caps that are tried
    MaxRecords,    \* bound: records of the ledger
    MaxScopeRecords  \* bound: records of scopes among them

ASSUME HarnessConstants ==
    /\ NoId \notin Id /\ Successor \notin Id \union {NoId}
    /\ Key \subseteq ScopeKey /\ Global \in Key /\ Capped \subseteq Key
    /\ File \subseteq Path /\ File \subseteq Seq(Name) \ {<< >>}
    /\ Anchor \subseteq [path : File, symbol : {"none"} \union Name]
    /\ Cap \subseteq Level
    /\ Draft \subseteq [cmd : {"Draft"}, kind : {"autonomy", "rule"}, scope : Key, level : Int,
                      deny : BOOLEAN, anchors : SUBSET Anchor, authored : BOOLEAN,
                      origin : BOOLEAN, wellFormed : BOOLEAN]
    /\ MaxRecords \in Nat /\ MaxScopeRecords \in Nat

\* Scopes sort wide before narrow, and by the canonical string of a key.
ASSUME KeysAreOrdered ==
    /\ \A j, k \in Key : j # k => Precedes(j, k) \/ Precedes(k, j)
    /\ \A i, j, k \in Key : Precedes(i, j) /\ Precedes(j, k) => Precedes(i, k)

VARIABLES
    ledger,     \* records: constraint events with their id; scope, anchor and session events with NoId
    agg,        \* the constraints: each the fold of its stream
    declared,   \* the declared scopes: key -> level and cap
    known,      \* [process -> its projection of the declared scopes, since it runs]
    index,      \* the daemon's ConstraintIndex
    anchorIndex, \* the daemon's AnchorIndex: the anchors that are in it
    cursor,     \* the daemon's Cursor
    pending,    \* the daemon's own record that is appended and not yet published
    edit,       \* the pre_edit request being served
    jumped      \* history: a publish moved the cursor past records nobody applied

harnessVars == <<ledger, agg, declared, known, index, anchorIndex, cursor, pending, edit, jumped>>

\* What the daemon reads of a record: constraints and anchors.
OfAnchor(r) == r.ev.kind = "AnchorRecorded"
Concerns(r) == r.id # NoId \/ OfAnchor(r)
RecordedFrom(n) == {ledger[i].ev.anchor : i \in {j \in n+1..Len(ledger) : OfAnchor(ledger[j])}}

FileKey(f) == [Global EXCEPT !.repo = Repo, !.path = f, !.person = Owner]
Denied(f) == \E c \in Id :
    /\ agg[c].state = "verified" /\ agg[c].kind = "autonomy" /\ agg[c].deny
    /\ \/ Covers(agg[c].scope, FileKey(f), {f})
       \/ FileAnchor(f) \in agg[c].anchors
       \/ \E a \in agg[c].anchors : a.path = f /\ a \in RecordedFrom(0)

NoEdit == [file |-> << >>, due |-> FALSE]

HarnessInit ==
    /\ ledger = << >>
    /\ agg = [c \in Id |-> NoConstraint] /\ index = [c \in Id |-> NoConstraint]
    /\ declared = << >>
    /\ known = [p \in Proc |-> << >>] /\ anchorIndex = {}
    /\ cursor = 0 /\ pending = 0 /\ edit = NoEdit /\ jumped = FALSE

\* openCore rebuilds the projections from the ledger; a process that ended is
\* one that runs nothing until it is opened again.
Open(p) ==
    /\ known' = [known EXCEPT ![p] = declared]
    /\ UNCHANGED <<ledger, agg, declared, index, anchorIndex, cursor, pending, edit, jumped>>

\* Mutant of Context: the cap of the global scope for every command.
GlobalContext(p, m, human) ==
    [human |-> human, now |-> 1, cap |-> EffectiveCap(known[p], Global, MaxLevel)]

\* ProjectionContext.Build: only a draft names its target scope.
Context(p, m, human) ==
    LET target == IF m.cmd = "Draft" THEN m.scope ELSE Global IN
    [human |-> human, now |-> 1, cap |-> EffectiveCap(known[p], target, MaxLevel)]

\* A constraint command.
Run(p, c, m, human) ==
    LET d == ConstraintDecide(agg[c], m, Context(p, m, human)) IN
    /\ Len(ledger) < MaxRecords
    /\ ~d.refused
    /\ ledger' = Append(ledger, [id |-> c, ev |-> d.evs[1]])
    /\ agg' = [agg EXCEPT ![c] = ConstraintApply(@, d.evs[1])]
    /\ UNCHANGED <<declared, known, index, anchorIndex, cursor, pending, edit, jumped>>

Commands(c) ==
    Draft
    \union [cmd : {"Verify", "Retire"}]
    \union [cmd : {"Promote", "Demote"}, scope : Key, origin : {TRUE}, wellFormed : {TRUE}]
    \union [cmd : {"Supersede"}, id : {c}, by : {c, NoId, Successor}]
    \union [cmd : {"Rebind"}, anchors : SUBSET Anchor, wellFormed : {TRUE}]

\* ScopeIndex.Handle, on an entry that starts at L0 without a cap.
Entry(d, k) == IF k \in DOMAIN d THEN d[k] ELSE [level |-> 0, cap |-> MaxLevel]
Declare(d, k, e) == [j \in DOMAIN d \union {k} |-> IF j = k THEN e ELSE d[j]]

\* The scope aggregate's events (ScopeRules): a new level, or a new cap with
\* the level it forces.  The process that runs the command projects them onto
\* what it knows; no other running process sees them.
SetScope(p, k, level, cap) ==
    LET old == Entry(declared, k) IN
    /\ Len(ledger) < MaxRecords
    /\ Cardinality({i \in 1..Len(ledger) : ledger[i].ev.kind = "Scope"}) < MaxScopeRecords
    /\ \/ level # old.level /\ cap = old.cap /\ level <= cap /\ level <= old.level + 1
       \/ cap # old.cap /\ level = IF old.level > cap THEN cap ELSE old.level
    /\ ledger' = Append(ledger, [id |-> NoId, ev |-> [kind |-> "Scope"]])
    /\ declared' = Declare(declared, k, [level |-> level, cap |-> cap])
    /\ LET mine == Entry(known[p], k)
           seen == [level |-> IF level # old.level THEN level ELSE mine.level,
                    cap |-> IF cap # old.cap THEN cap ELSE mine.cap]
       IN known' = [known EXCEPT ![p] = Declare(@, k, seen)]
    /\ UNCHANGED <<agg, index, anchorIndex, cursor, pending, edit, jumped>>

\* RecordAnchor of a process of the command line.
RecordAnchor(a) ==
    /\ Len(ledger) < MaxRecords
    /\ ledger' = Append(ledger, [id |-> NoId, ev |-> [kind |-> "AnchorRecorded", anchor |-> a]])
    /\ UNCHANGED <<agg, declared, known, index, anchorIndex, cursor, pending, edit, jumped>>

\* ConstraintIndex.Handle of one record, which names a constraint or none.
Projected(x, r) == IF r.id = NoId THEN x ELSE [x EXCEPT ![r.id] = IndexHandle(@, r.ev)]

\* The records behind from applied in order to an index x.
Replayed(x, from) ==
    LET F[i \in from..Len(ledger)] == IF i = from THEN x ELSE Projected(F[i-1], ledger[i])
    IN F[Len(ledger)]

\* synced.Hook: catch up, then ask the hooks.
PreEdit(f) ==
    /\ edit = NoEdit
    /\ index' = Replayed(index, cursor) /\ anchorIndex' = anchorIndex \union RecordedFrom(cursor)
    /\ cursor' = Len(ledger)
    /\ edit' = [file |-> f, due |-> Denied(f)]
    /\ UNCHANGED <<ledger, agg, declared, known, pending, jumped>>

\* Hooks.preEdit and Compose, for the agent that edits.
Blocked(f) == \E c \in Id : Blocks(index[c], FileKey(f), anchorIndex)
Answer ==
    /\ edit # NoEdit
    /\ edit' = NoEdit
    /\ UNCHANGED <<ledger, agg, declared, known, index, anchorIndex, cursor, pending, jumped>>

\* A session command of the daemon: its record is appended, and published
\* later; the cursor then moves to it.
SessionAppend ==
    /\ pending = 0
    /\ Len(ledger) < MaxRecords
    /\ ledger' = Append(ledger, [id |-> NoId, ev |-> [kind |-> "Session"]])
    /\ pending' = Len(ledger) + 1
    /\ UNCHANGED <<agg, declared, known, index, anchorIndex, cursor, edit, jumped>>

SessionPublish ==
    /\ pending # 0
    /\ jumped' = (jumped \/ \E i \in cursor+1..pending-1 : Concerns(ledger[i]))
    /\ cursor' = IF pending > cursor THEN pending ELSE cursor
    /\ pending' = 0
    /\ UNCHANGED <<ledger, agg, declared, known, index, anchorIndex, edit>>

\* A restarted daemon rebuilds its index.
Restart ==
    /\ index' = Replayed([c \in Id |-> NoConstraint], 0) /\ anchorIndex' = RecordedFrom(0)
    /\ cursor' = Len(ledger)
    /\ pending' = 0 /\ edit' = NoEdit /\ jumped' = FALSE
    /\ UNCHANGED <<ledger, agg, declared, known>>

HarnessNext ==
    \/ \E p \in Proc :
         \/ Open(p)
         \/ \E c \in Id, human \in BOOLEAN : \E m \in Commands(c) : Run(p, c, m, human)
         \/ \E k \in Capped, level \in Level, cap \in Cap \union {MaxLevel} : SetScope(p, k, level, cap)
    \/ \E a \in Anchor : RecordAnchor(a)
    \/ \E f \in File : PreEdit(f)
    \/ Answer \/ SessionAppend \/ SessionPublish \/ Restart

HarnessSpec == HarnessInit /\ [][HarnessNext]_harnessVars

-----------------------------------------------------------------------------
\* The variables hold values of their kind, and the cursor stays on the ledger.
HarnessTypeOK ==
    /\ Len(ledger) \in 0..MaxRecords /\ cursor \in 0..Len(ledger) /\ pending \in 0..Len(ledger)
    /\ \A c \in Id : agg[c].state \in {"none", "generated", "verified", "retired"} /\ agg[c].scope \in Key
    /\ DOMAIN declared \subseteq Key
    /\ \A k \in DOMAIN declared : declared[k].level \in Level /\ declared[k].cap \in Level

\* An agent's edit is blocked exactly when, at the moment the daemon caught
\* up, a deny constraint verified by then spoke of the file: of its scope, of the
\* file itself, or of a symbol in it whose anchor is recorded.  Neither a retired
\* or demoted one blocks, nor is a verified one overlooked - unless the cursor
\* was moved past records that nobody applied.
AnswerIsCurrent == edit # NoEdit /\ ~jumped => Blocked(edit.file) = edit.due

\* Without the proviso this is what synced promises ("after catching up on
\* ledger writes made by other processes").
AnswerIsAlwaysCurrent == edit # NoEdit => Blocked(edit.file) = edit.due

\* A wider scope binds narrower ones: no target gets a cap, or a level, above
\* the cap of a scope that speaks of all its files.
CapsBindNarrower ==
    \A k \in DOMAIN declared, t \in Key \union {FileKey(f) : f \in File} :
        Covers(k, t, Path) =>
            /\ EffectiveCap(declared, t, MaxLevel) <= declared[k].cap
            /\ EffectiveLevel(declared, t, MaxLevel) <= declared[k].cap

\* No process drafts autonomy above the cap of a scope around it, unless the cap
\* of that very scope changed after the process built its projections: what else
\* it has missed, and what others have missed, does not matter.
Drafts(p, c) ==
    /\ agg[c].state = "none"
    /\ \E m \in Draft, human \in BOOLEAN : m.kind = "autonomy" /\ Run(p, c, m, human)
Knows(p, k) == k \in DOMAIN known[p] /\ known[p][k].cap = declared[k].cap
DraftsWithinCap ==
    [][\A p \in Proc, c \in Id : Drafts(p, c) =>
         \A k \in DOMAIN declared : Covers(k, agg'[c].scope, Path) /\ Knows(p, k) =>
             agg'[c].level <= declared[k].cap]_harnessVars

\* constraint.go: DemoteConstraint "narrows a constraint's scope".
DemotionNarrows ==
    [][Len(ledger') > Len(ledger) /\ ledger'[Len(ledger')].ev.kind = "Demoted" =>
         LET c == ledger'[Len(ledger')].id IN Covers(agg[c].scope, agg'[c].scope, Path)]_harnessVars

\* constraint.go: a promotion is refused when the level "exceeds cap at the
\* target scope".
PromotionsWithinCap ==
    [][\A c \in Id : agg[c].state = "verified" /\ agg'[c].scope # agg[c].scope /\ agg[c].kind = "autonomy" =>
         \A k \in DOMAIN declared : Contains(agg'[c].scope, agg[c].scope) /\ k = agg'[c].scope =>
             agg[c].level <= declared[k].cap]_harnessVars
=============================================================================
