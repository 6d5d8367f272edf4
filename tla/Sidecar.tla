------------------------------- MODULE Sidecar ------------------------------
(***************************************************************************)
(* What keelage puts outside its ledger, and takes away again:             *)
(*   init       internal/app/sidecar.go: a rule file and an ADR become a   *)
(*              Constraint and a Decision, the context is rendered, and    *)
(*              the manifest of the repository says what was done;         *)
(*   uninit     removes it from the repository;                            *)
(*   setup      cmd/keelage/setup.go: hook handlers in settings.json;      *)
(*   uninstall  undoes setup and every init.                               *)
(*                                                                         *)
(* The commands of one user follow one another, and any of them may die    *)
(* between two writes; the user edits the files at any time.  A process    *)
(* rebuilds its projections when it starts, so they are what the ledger    *)
(* holds.  One rule file (CLAUDE.md) and one ADR stand for all; a hash is  *)
(* the text it is taken of, and the pointer block has one body.  Setup and *)
(* uninstall read settings.json and write it later, and setup asks in      *)
(* between; the user edits that file at any time, and never removes it.    *)
(* Setup's import of the global rules is init's of a rule, verified; the   *)
(* MCP registration is left to the user's tool.                            *)
(***************************************************************************)
EXTENDS ConstraintRules, DecisionRules

CONSTANTS
    Rule, Adr,   \* texts of the rule file and of the ADR
    Blank,       \* a file without a text: no rule, or an ADR that is empty or gone
    Event,       \* hook events that keelage has handlers for
    Other,       \* what else settings.json may hold
    MaxOps,      \* bound: commands and edits
    MaxObjects   \* bound: constraints, and decisions

\* A hash of no file is no file's hash.
ASSUME SidecarConstants == MaxOps \in Nat /\ MaxObjects \in Nat /\ NoId = 0 /\ NoText \notin Rule \union Adr

VARIABLES
    rule, block, \* CLAUDE.md: the user's text, and the managed block
    adr,
    context,     \* the rendered context: the ids it lists, or none
    ignored,     \* who put the line into .gitignore
    manifest,    \* the sidecar
    registered,  \* the repository is in repos.json
    settings, setup,          \* settings.json, and setup.json with its backup
    constraints, decisions,   \* the objects of the ledger, in the order of their ids
    keys,        \* idempotency keys of the decisions
    proc,        \* the running command
    held,        \* settings.json as that command read it, and if it was edited since
    typed,       \* history: the entries of the user in settings.json
    past,        \* history: texts of the ADR that a revision replaced
    died,        \* history: an init ended before it saved or registered
    forgot,      \* history: the same, or the imports went with an uninit
    repaired,    \* history: setup ran on a file with some of the handlers
    overran,     \* history: a command wrote settings.json over an edit since its read
    ops

files == <<rule, block, adr, context, ignored, settings>>
records == <<manifest, registered, setup, held>>
ledger == <<constraints, decisions, keys>>
history == <<typed, past, died, forgot, repaired, overran>>
vars == <<files, records, ledger, proc, history, ops>>

NoImport == [id |-> 0, hash |-> NoText]
NoManifest == [exists |-> FALSE, rule |-> NoImport, adr |-> NoImport, rendered |-> {}, ignored |-> FALSE]
NoSettings == [exists |-> FALSE, ours |-> {}, other |-> NoText]
NoSetup == [installed |-> FALSE, existed |-> FALSE, backup |-> NoSettings, written |-> NoSettings]
NotHeld == [late |-> FALSE, s |-> NoSettings]
NotRendered == [exists |-> FALSE, ids |-> {}]
Idle == [pc |-> "idle", cmd |-> "none", verify |-> FALSE, force |-> FALSE, id |-> 0, m |-> NoManifest,
         s |-> NoSetup, wrote |-> FALSE, calm |-> TRUE]

RepoScope == [Global EXCEPT !.repo = "r"]
Human == [human |-> TRUE, cap |-> MaxLevel]
DraftRule == [cmd |-> "Draft", kind |-> "rule", scope |-> RepoScope, level |-> 0, deny |-> FALSE,
              anchors |-> {}, authored |-> TRUE, origin |-> FALSE, wellFormed |-> TRUE]

Live(i) == constraints[i].c.state # "retired"
InForceIds == {i \in 1..Len(constraints) : InForce(constraints[i].c, RepoScope)}

Init ==
    /\ rule \in Rule /\ block = "none" /\ adr \in Adr
    /\ context = NotRendered /\ ignored \in {"no", "user"} /\ manifest = NoManifest /\ registered = FALSE
    /\ settings \in {NoSettings} \union [exists : {TRUE}, ours : {{}}, other : Other]
    /\ setup = NoSetup /\ held = NotHeld
    /\ constraints = << >> /\ decisions = << >> /\ keys = {}
    /\ proc = Idle /\ typed = settings.other /\ past = {}
    /\ died = FALSE /\ forgot = FALSE /\ repaired = FALSE /\ overran = FALSE /\ ops = 0

-----------------------------------------------------------------------------
(* The user *)

Resting == proc.pc \in {"idle", "done", "failed"}
Spend == ops < MaxOps /\ ops' = ops + 1
Edit == Spend /\ proc' = IF Resting THEN Idle ELSE [proc EXCEPT !.calm = FALSE]

EditRule(t) ==
    /\ Edit /\ t # rule
    /\ rule' = t
    /\ UNCHANGED <<block, adr, context, ignored, settings, records, ledger, history>>

\* Inside the block, or the whole block away.
EditBlock(b) ==
    /\ Edit /\ block # "none" /\ b # block
    /\ block' = b
    /\ UNCHANGED <<rule, adr, context, ignored, settings, records, ledger, history>>

EditAdr(t) ==
    /\ Edit /\ t # adr
    /\ adr' = t
    /\ UNCHANGED <<rule, block, context, ignored, settings, records, ledger, history>>

\* Entries of the user, or handlers of keelage removed by hand.  What a command
\* has read is then late; and what was overrun is made good if no copy is left.
EditSettings(o, gone) ==
    /\ Edit
    /\ settings' = [exists |-> TRUE, other |-> o, ours |-> settings.ours \ gone]
    /\ settings' # settings
    /\ typed' = o
    /\ held' = IF proc.pc \in {"approve", "write", "restore"} THEN [held EXCEPT !.late = TRUE] ELSE held
    /\ overran' = (overran /\ ~(Resting /\ setup = NoSetup))
    /\ UNCHANGED <<rule, block, adr, context, ignored, manifest, registered, setup, ledger, past, died, forgot,
                   repaired>>

-----------------------------------------------------------------------------
(* init *)

At(pc) == proc' = [proc EXCEPT !.pc = pc]
Done == proc' = [Idle EXCEPT !.pc = "done", !.cmd = proc.cmd, !.calm = proc.calm]

StartInit(verify) ==
    /\ Spend /\ Resting
    /\ proc' = [Idle EXCEPT !.pc = "rule", !.cmd = "init", !.verify = verify, !.m = manifest]
    /\ UNCHANGED <<files, records, ledger, history>>

RuleImport == [id |-> proc.id, hash |-> constraints[proc.id].text]

\* Mutant of RuleKnown: a file that was imported once is known for good.
RuleImported == proc.m.rule.id # 0
RuleKnown == proc.m.rule.hash = rule

\* absorbRule: the file without the managed block; a new id, so the key
\* "import:<file>:<hash>" meets no earlier use.
AbsorbRule ==
    /\ proc.pc = "rule" /\ Len(constraints) < MaxObjects
    /\ IF rule = Blank \/ RuleKnown
       THEN At("adr") /\ UNCHANGED constraints
       ELSE LET d == DraftDecide(NoConstraint, DraftRule, Human) IN
            /\ constraints' = Append(constraints, [c |-> ConstraintApply(NoConstraint, d.evs[1]), text |-> rule])
            /\ proc' = [proc EXCEPT !.id = Len(constraints) + 1, !.wrote = TRUE,
                                    !.pc = IF proc.verify THEN "verify" ELSE "supersede"]
    /\ UNCHANGED <<files, records, decisions, keys, history, ops>>

VerifyRule ==
    /\ proc.pc = "verify"
    /\ LET d == VerifyDecide(constraints[proc.id].c, Human)
       IN constraints' = [constraints EXCEPT ![proc.id].c = ConstraintApply(@, d.evs[1])]
    /\ At("supersede")
    /\ UNCHANGED <<files, records, decisions, keys, history, ops>>

\* Mutant of SupersedeRule: the constraint of the old text stays.
SupersedeNothing ==
    /\ proc.pc = "supersede"
    /\ proc' = [proc EXCEPT !.pc = "adr", !.m.rule = RuleImport]
    /\ UNCHANGED <<files, records, ledger, history, ops>>

\* The constraint of the old text retires, if there was one; that it cannot is no
\* error.  The manifest has the import in memory.
SupersedeRule ==
    /\ proc.pc = "supersede"
    /\ LET old == proc.m.rule.id
           d == SupersedeDecide(constraints[old].c, [id |-> old, by |-> proc.id])
       IN constraints' = IF old = 0 \/ d.refused THEN constraints
                         ELSE [constraints EXCEPT ![old].c = ConstraintApply(@, d.evs[1])]
    /\ proc' = [proc EXCEPT !.pc = "adr", !.m.rule = RuleImport]
    /\ UNCHANGED <<files, records, decisions, keys, history, ops>>

\* absorbADR: a known ADR is revised on its own stream, where a key that was
\* used replays; else it is drafted.  Nothing retires a decision, so neither is
\* refused.  An ADR that is empty is skipped, as one that is gone: the decision
\* stays as it was.
AbsorbAdr ==
    /\ proc.pc = "adr" /\ Len(decisions) < MaxObjects
    /\ LET had == proc.m.adr.id # 0
           id == IF had THEN proc.m.adr.id ELSE Len(decisions) + 1
           d == IF had THEN DecisionDecide(decisions[id], [cmd |-> "Revise", text |-> adr, wellFormed |-> TRUE], Human)
                ELSE DecisionDecide(NoDecision, [cmd |-> "Draft", text |-> adr, wellFormed |-> TRUE], Human)
           writes == <<id, adr>> \notin keys /\ ~d.refused /\ d.evs # << >>
       IN IF adr = Blank \/ proc.m.adr.hash = adr
          THEN At("context") /\ UNCHANGED <<decisions, keys, past>>
          ELSE /\ decisions' = CASE ~writes -> decisions
                                 [] writes /\ had -> [decisions EXCEPT ![id] = DecisionApply(@, d.evs[1])]
                                 [] writes /\ ~had -> Append(decisions, DecisionApply(NoDecision, d.evs[1]))
               /\ past' = IF writes /\ had THEN past \union {decisions[id].text} ELSE past
               /\ keys' = IF writes THEN keys \union {<<id, adr>>} ELSE keys
               /\ proc' = [proc EXCEPT !.id = id, !.wrote = TRUE, !.m.adr = [id |-> id, hash |-> adr],
                                       !.pc = IF proc.verify THEN "verifyAdr" ELSE "context"]
    /\ UNCHANGED <<files, records, constraints, typed, died, forgot, repaired, overran, ops>>

\* A refused verification ends init, and nothing is saved.
VerifyAdr ==
    /\ proc.pc = "verifyAdr"
    /\ LET d == DecisionDecide(decisions[proc.id], [cmd |-> "Verify"], Human) IN
       IF d.refused
       THEN /\ proc' = [Idle EXCEPT !.pc = "failed"] /\ died' = TRUE /\ forgot' = TRUE
            /\ UNCHANGED decisions
       ELSE /\ At("context")
            /\ decisions' = [decisions EXCEPT ![proc.id] = DecisionApply(@, d.evs[1])]
            /\ UNCHANGED <<died, forgot>>
    /\ UNCHANGED <<files, records, constraints, keys, typed, past, repaired, overran, ops>>

\* Renderer.Plan and Apply of the context: what is in force and does not come
\* from a file of the repository.  The flag --force is chosen where it is first
\* handed on.
RenderContext(force) ==
    /\ proc.pc = "context"
    /\ context' = [exists |-> TRUE, ids |-> InForceIds \ {proc.m.rule.id}]
    /\ proc' = [proc EXCEPT !.pc = "block", !.force = force, !.wrote = TRUE, !.m.rendered = @ \union {"context"}]
    /\ UNCHANGED <<rule, block, adr, ignored, settings, records, ledger, history, ops>>

\* FindBlock and BlockHash: the body of the block, or its hash, is not what the
\* manifest has.
Diverged == "block" \in proc.m.rendered /\ block = "edited"

\* Apply of the managed block: one that the user edited since is left alone.
RenderBlock ==
    /\ proc.pc = "block"
    /\ IF Diverged /\ ~proc.force
       THEN At("ignore") /\ UNCHANGED block
       ELSE /\ block' = "ours"
            /\ proc' = [proc EXCEPT !.pc = "ignore", !.m.rendered = @ \union {"block"}]
    /\ UNCHANGED <<rule, adr, context, ignored, settings, records, ledger, history, ops>>

\* EnsureGitignore
Ignore ==
    /\ proc.pc = "ignore"
    /\ ignored' = IF ignored = "no" THEN "ours" ELSE ignored
    /\ proc' = [proc EXCEPT !.pc = "save", !.force = FALSE, !.m.ignored = @ \/ ignored = "no"]
    /\ UNCHANGED <<rule, block, adr, context, settings, records, ledger, history, ops>>

\* SaveManifest, then registerRepo.
Save ==
    /\ proc.pc = "save"
    /\ manifest' = [proc.m EXCEPT !.exists = TRUE]
    /\ At("register")
    /\ UNCHANGED <<files, registered, setup, held, ledger, history, ops>>

Register ==
    /\ proc.pc = "register"
    /\ registered' = TRUE
    /\ Done
    /\ UNCHANGED <<files, manifest, setup, held, ledger, history, ops>>

-----------------------------------------------------------------------------
(* uninit *)

StartUninit ==
    /\ Spend /\ Resting
    /\ proc' = [Idle EXCEPT !.cmd = "uninit", !.m = manifest,
                            !.pc = IF manifest.exists THEN "uncontext" ELSE "unregister"]
    /\ UNCHANGED <<files, records, ledger, history>>

\* Uninit: the rendered files, in the order of the manifest.
RemoveContext ==
    /\ proc.pc = "uncontext"
    /\ context' = IF "context" \in proc.m.rendered THEN NotRendered ELSE context
    /\ At("unblock")
    /\ UNCHANGED <<rule, block, adr, ignored, settings, records, ledger, history, ops>>

RemoveBlock ==
    /\ proc.pc = "unblock"
    /\ block' = IF "block" \in proc.m.rendered THEN "none" ELSE block
    /\ At("unignore")
    /\ UNCHANGED <<rule, adr, context, ignored, settings, records, ledger, history, ops>>

Unignore ==
    /\ proc.pc = "unignore"
    /\ ignored' = IF proc.m.ignored THEN "no" ELSE ignored
    /\ At("unsave")
    /\ UNCHANGED <<rule, block, adr, context, settings, records, ledger, history, ops>>

\* The whole directory, the manifest and what it knew of imports with it.
RemoveManifest ==
    /\ proc.pc = "unsave"
    /\ manifest' = NoManifest /\ context' = NotRendered
    /\ forgot' = TRUE
    /\ At("unregister")
    /\ UNCHANGED <<rule, block, adr, ignored, settings, registered, setup, held, ledger, typed, past, died,
                   repaired, overran, ops>>

Unregister ==
    /\ proc.pc = "unregister"
    /\ registered' = FALSE
    /\ IF proc.cmd = "uninstall" THEN At("settings") ELSE Done
    /\ UNCHANGED <<files, manifest, setup, held, ledger, history, ops>>

-----------------------------------------------------------------------------
(* setup and uninstall *)

StartSetup ==
    /\ Spend /\ Resting
    /\ proc' = [Idle EXCEPT !.cmd = "setup", !.pc = "merge", !.s = setup]
    /\ UNCHANGED <<files, records, ledger, history>>

Merged(s) == [s EXCEPT !.exists = TRUE, !.ours = Event]

\* MergeHooks: the file is read, and in memory each event without a handler of
\* keelage gets one.
MergeHooks ==
    /\ proc.pc = "merge"
    /\ IF settings.ours = Event
       THEN At("saveSetup") /\ UNCHANGED held
       ELSE At("approve") /\ held' = [late |-> FALSE, s |-> settings]
    /\ UNCHANGED <<files, manifest, registered, setup, ledger, history, ops>>

\* approve: the person declines,
Decline ==
    /\ proc.pc = "approve"
    /\ At("saveSetup") /\ held' = NotHeld
    /\ UNCHANGED <<files, manifest, registered, setup, ledger, history, ops>>

\* or agrees, and the file is copied as it is now; what is remembered of setup
\* comes from the file that was read.
BackupSettings ==
    /\ proc.pc = "approve"
    /\ proc' = [proc EXCEPT !.pc = "write",
                  !.s = [installed |-> TRUE, existed |-> held.s.exists, backup |-> settings,
                         written |-> Merged(held.s)]]
    /\ UNCHANGED <<files, records, ledger, history, ops>>

\* What was read, with the handlers, is written over whatever is there now.
WriteHooks ==
    /\ proc.pc = "write"
    /\ settings' = Merged(held.s)
    /\ repaired' = (repaired \/ held.s.ours # {}) /\ overran' = (overran \/ held.late)
    /\ At("saveSetup") /\ held' = NotHeld
    /\ UNCHANGED <<rule, block, adr, context, ignored, manifest, registered, setup, ledger, typed, past, died,
                   forgot, ops>>

SaveSetup ==
    /\ proc.pc = "saveSetup"
    /\ setup' = proc.s
    /\ Done
    /\ UNCHANGED <<files, manifest, registered, held, ledger, history, ops>>

\* Mutant of StartUninstall: the repositories are left as they are.
StartUninstallSettings ==
    /\ Spend /\ Resting
    /\ proc' = [Idle EXCEPT !.cmd = "uninstall", !.m = manifest, !.pc = "settings"]
    /\ UNCHANGED <<files, records, ledger, history>>

\* uninstall: uninitRepo of every registered repository, then the settings.
StartUninstall ==
    /\ Spend /\ Resting
    /\ proc' = [Idle EXCEPT !.cmd = "uninstall", !.m = manifest,
                            !.pc = CASE ~registered -> "settings"
                                     [] registered /\ manifest.exists -> "uncontext"
                                     [] registered /\ ~manifest.exists -> "unregister"]
    /\ UNCHANGED <<files, records, ledger, history>>

\* Only the handlers of keelage are taken out.
RemoveHooks(s) == [s EXCEPT !.ours = {}]

\* Mutant of Restored: the copy is restored whatever the file holds now.
RestoreAnyway(s) == IF setup.installed THEN setup.backup ELSE RemoveHooks(s)

\* A file that is as setup left it becomes what it was before, or goes; else only
\* its handlers go.
Restored(s) ==
    LET untouched == setup.installed /\ s = setup.written IN
    CASE ~untouched -> RemoveHooks(s)
      [] untouched /\ setup.existed -> setup.backup
      [] untouched /\ ~setup.existed -> NoSettings

\* uninstall reads the file,
ReadSettings ==
    /\ proc.pc = "settings"
    /\ IF settings.exists /\ Restored(settings) # settings
       THEN At("restore") /\ held' = [late |-> FALSE, s |-> settings]
       ELSE At("unsetup") /\ UNCHANGED held
    /\ UNCHANGED <<files, manifest, registered, setup, ledger, history, ops>>

\* and writes, restores or removes it by what it read.
RestoreSettings ==
    /\ proc.pc = "restore"
    /\ settings' = Restored(held.s)
    /\ overran' = (overran \/ held.late)
    /\ At("unsetup") /\ held' = NotHeld
    /\ UNCHANGED <<rule, block, adr, context, ignored, manifest, registered, setup, ledger, typed, past, died,
                   forgot, repaired, ops>>

RemoveSetup ==
    /\ proc.pc = "unsetup"
    /\ setup' = NoSetup
    /\ Done
    /\ UNCHANGED <<files, manifest, registered, held, ledger, history, ops>>

\* The process ends between two writes.
Die ==
    /\ ~Resting
    /\ proc' = Idle
    /\ died' = (died \/ (proc.cmd = "init" /\ proc.wrote))
    /\ forgot' = (forgot \/ (proc.cmd = "init" /\ proc.wrote))
    /\ held' = NotHeld
    /\ UNCHANGED <<files, manifest, registered, setup, ledger, typed, past, repaired, overran, ops>>

Next ==
    \/ \E t \in Rule \union {Blank} : EditRule(t)
    \/ EditBlock("edited") \/ EditBlock("none")
    \/ \E t \in Adr \union {Blank} : EditAdr(t)
    \/ \E o \in Other \union {NoText}, gone \in SUBSET Event : EditSettings(o, gone)
    \/ \E verify \in BOOLEAN : StartInit(verify)
    \/ AbsorbRule \/ VerifyRule \/ SupersedeRule \/ AbsorbAdr \/ VerifyAdr
    \/ \E force \in BOOLEAN : RenderContext(force)
    \/ RenderBlock \/ Ignore \/ Save \/ Register
    \/ StartUninit \/ RemoveContext \/ RemoveBlock \/ Unignore \/ RemoveManifest \/ Unregister
    \/ StartSetup \/ MergeHooks \/ Decline \/ BackupSettings \/ WriteHooks \/ SaveSetup
    \/ StartUninstall \/ ReadSettings \/ RestoreSettings \/ RemoveSetup
    \/ Die

Spec == Init /\ [][Next]_vars

-----------------------------------------------------------------------------
(* Properties *)

Text == Rule \union Adr \union {Blank, NoText}
Import == [id : Nat, hash : Text]
Manifest == [exists : BOOLEAN, rule : Import, adr : Import, rendered : SUBSET {"context", "block"},
             ignored : BOOLEAN]
Settings == [exists : BOOLEAN, ours : SUBSET Event, other : Other \union {NoText}]
Setup == [installed : BOOLEAN, existed : BOOLEAN, backup : Settings, written : Settings]
Object == [c : [state : {"generated", "verified", "retired"}, kind : {"rule"}, scope : {RepoScope},
                level : {0}, deny : {FALSE}, origin : {FALSE}, anchors : {{}}, successor : Nat],
           text : Text]
Decision == [state : {"generated", "verified"}, text : Text, successor : {0}]
Process == [pc : {"idle", "done", "failed", "rule", "verify", "supersede", "adr", "verifyAdr", "context",
                  "block", "ignore", "save", "register", "uncontext", "unblock", "unignore", "unsave",
                  "unregister", "merge", "approve", "write", "saveSetup", "settings", "restore", "unsetup"},
            cmd : {"none", "init", "uninit", "setup", "uninstall"}, verify : BOOLEAN, force : BOOLEAN,
            id : Nat, m : Manifest, s : Setup, wrote : BOOLEAN, calm : BOOLEAN]

Linked(m, cs, ds) == m.rule.id <= cs /\ m.adr.id <= ds

\* Types; the manifest, on disk and in memory, names objects of the ledger.
TypeOK ==
    /\ rule \in Rule \union {Blank} /\ adr \in Adr \union {Blank}
    /\ block \in {"none", "ours", "edited"} /\ ignored \in {"no", "ours", "user"}
    /\ context \in [exists : BOOLEAN, ids : SUBSET Nat]
    /\ manifest \in Manifest /\ registered \in BOOLEAN
    /\ settings \in Settings /\ setup \in Setup /\ held \in [late : BOOLEAN, s : Settings]
    /\ constraints \in Seq(Object) /\ decisions \in Seq(Decision)
    /\ proc \in Process
    /\ Linked(manifest, Len(constraints), Len(decisions)) /\ Linked(proc.m, Len(constraints), Len(decisions))
    /\ proc.pc \in {"verify", "supersede"} => proc.id \in 1..Len(constraints)
    /\ proc.pc = "verifyAdr" => proc.id \in 1..Len(decisions)
    /\ typed \in Other \union {NoText}
    /\ died \in BOOLEAN /\ forgot \in BOOLEAN /\ repaired \in BOOLEAN /\ overran \in BOOLEAN

\* A rule file speaks with one voice: as long as no manifest was lost, at rest at
\* most one of the constraints imported from it is live, the one of its last text
\* (absorbRule supersedes; "Re-running is idempotent; changed files
\* supersede/revise their objects", keelage init).
OneLiveRule ==
    Resting /\ ~forgot =>
        \A i \in 1..Len(constraints) : Live(i) => i = manifest.rule.id

\* After an init without edits meanwhile the manifest is right about the
\* repository: the objects it names have the text of their files, unless a file
\* has no text, the ADR is back at a text that a revision replaced, or the rule at
\* one whose constraint an init that died superseded (absorbRule, absorbADR).
ImportsAreCurrent ==
    proc.pc = "done" /\ proc.cmd = "init" /\ proc.calm =>
        /\ rule # Blank /\ ~died => Live(manifest.rule.id) /\ constraints[manifest.rule.id].text = rule
        /\ adr # Blank /\ adr \notin past => decisions[manifest.adr.id].text = adr

\* What the user has in settings.json is not lost, whatever setups, refused
\* prompts, uninstalls and deaths do around his edits, except by an edit between
\* the moment a command reads the file and the moment it writes it (setup.go: the
\* copy is restored only over a file that is as setup wrote it).  The exception
\* lasts until the user saves the file again after setup was undone: until then
\* an uninstall may bring back a copy that was made meanwhile.
UserSettingsKept == ~overran => settings.other = typed

\* Uninstall leaves nothing behind, in the repository unless an init died in it,
\* and in the settings unless setup repaired them.
UninstallUndoes ==
    proc.pc = "done" /\ proc.cmd = "uninstall" /\ proc.calm =>
        /\ ~died => block = "none" /\ ~context.exists /\ ~manifest.exists /\ ignored # "ours"
        /\ ~repaired => settings.ours = {}

-----------------------------------------------------------------------------
(* Refuted: what comments and help texts say and the code does not do. *)

\* "a changed ADR revises its decision" (Importer): one that goes back to an
\* earlier text meets the key of that text and keeps the later one.
DecisionFollowsFile ==
    proc.pc = "done" /\ proc.cmd = "init" /\ proc.calm /\ adr # Blank => decisions[manifest.adr.id].text = adr

\* "existing entries kept, original backed up" (keelage setup): not what the user
\* saves while the prompt waits; and the copy is then not of the file that was
\* written, so that an uninstall may restore what the user has since taken out.
SettingsSurvive == settings.other = typed

\* "Undo setup and every init: remove hook entries" (keelage uninstall): after a
\* setup that repaired the settings the copy holds handlers too.
UninstallRemovesHandlers ==
    proc.pc = "done" /\ proc.cmd = "uninstall" => settings.ours = {}

\* "Re-running is idempotent" (keelage init): not after an init that died or an
\* uninit; and where the ADR was verified meanwhile it ends with an error.
OneLiveRuleEver == Resting => Cardinality({i \in 1..Len(constraints) : Live(i)}) <= 1
InitGoesThrough == proc.pc # "failed"

\* "Uninit removes everything keelage put in the repository" (Uninit): not what an
\* init put there that died before it saved the manifest.
UninitRemovesAll ==
    proc.pc = "done" /\ proc.cmd \in {"uninit", "uninstall"} =>
        block = "none" /\ ~context.exists /\ ignored # "ours"
=============================================================================
