---------------------------- MODULE SidecarProofs ---------------------------
(***************************************************************************)
(* Proofs about Sidecar, for any texts, any sets of hook events and any    *)
(* number of commands, edits and deaths.                                   *)
(*                                                                         *)
(* A property of the end of a command is a property of every step it was   *)
(* at: the invariant says what the command has done so far.  Steps: which  *)
(* command is at which step, and how its manifest in memory relates to the *)
(* one on disk.  Kept: a copy in setup.json has what the user typed when   *)
(* the file was written.  Known: what is in the repository is in the       *)
(* manifest that comes next.  Named: a live constraint is the one that     *)
(* manifest names.  Keyed: a fresh decision meets no used key, so a draft  *)
(* is written and the manifest names a decision that exists.  Imports:     *)
(* what the hashes of a manifest say of the objects it names, and that an  *)
(* undisturbed init has the hashes of the files.                           *)
(***************************************************************************)
EXTENDS Sidecar, SequenceTheorems, TLAPS

\* The empty records have their types.
LEMMA EmptyInstances ==
    /\ NoImport \in Import /\ NoManifest \in Manifest /\ NoSettings \in Settings
    /\ NoSetup \in Setup /\ Idle \in Process
<1>1. NoImport \in Import BY DEF NoImport, Import, Text
<1>2. NoManifest \in Manifest BY <1>1 DEF NoManifest, Manifest
<1>3. NoSettings \in Settings BY DEF NoSettings, Settings
<1>4. NoSetup \in Setup BY <1>3 DEF NoSetup, Setup
<1>5. Idle \in Process BY <1>2, <1>4 DEF Idle, Process
<1> QED BY <1>1, <1>2, <1>3, <1>4, <1>5

\* What the commands of init make of a constraint: a draft is generated, a
\* verified one is verified, and a superseded one is retired.
Drafted == ConstraintApply(NoConstraint, DraftDecide(NoConstraint, DraftRule, Human).evs[1])

\* The first constraint of a text is a generated rule of the repository.
LEMMA DraftedIs == Drafted \in [state : {"generated"}, kind : {"rule"}, scope : {RepoScope},
                level : {0}, deny : {FALSE}, origin : {FALSE}, anchors : {{}}, successor : Nat]
<1>1. Validate(DraftRule.scope)
  BY DEF Validate, IsSet, DraftRule, RepoScope, Global, Unset
<1>2. PICK e : e = [kind |-> "Drafted", of |-> "rule", scope |-> RepoScope, level |-> 0,
                    deny |-> FALSE, origin |-> FALSE, anchors |-> {}]
  OBVIOUS
<1>3. DraftDecide(NoConstraint, DraftRule, Human).evs = <<e>>
  BY <1>1, <1>2 DEF DraftDecide, NoConstraint, DraftRule, Emit
<1>4. Drafted = ConstraintApply(NoConstraint, e)
  BY <1>3 DEF Drafted
<1>5. /\ e.kind = "Drafted" /\ e.of = "rule" /\ e.scope = RepoScope /\ e.level = 0
      /\ e.deny = FALSE /\ e.origin = FALSE /\ e.anchors = {}
  BY <1>2
<1>6. Drafted = [NoConstraint EXCEPT !.state = "generated", !.kind = "rule", !.scope = RepoScope,
                   !.level = 0, !.deny = FALSE, !.origin = FALSE, !.anchors = {}]
  BY <1>4, <1>5 DEF ConstraintApply
<1> QED BY <1>6, SidecarConstants DEF NoConstraint

\* Constraints of the ledger.
States == {"generated", "verified", "retired"}
Constraint(states) ==
    [state : states, kind : {"rule"}, scope : {RepoScope}, level : {0}, deny : {FALSE},
     origin : {FALSE}, anchors : {{}}, successor : Nat]

\* A person may verify what is generated, and it becomes verified.
LEMMA VerifiedIs ==
    ASSUME NEW c \in Constraint(States)
    PROVE  /\ ~VerifyDecide(c, Human).refused => c.state = "generated"
           /\ c.state = "generated" =>
                ConstraintApply(c, VerifyDecide(c, Human).evs[1]) = [c EXCEPT !.state = "verified"]
BY DEF Constraint, States, VerifyDecide, Human, Emit, Reject, ConstraintApply

\* Superseding is refused for what is retired and by itself, and else retires.
LEMMA SupersededIs ==
    ASSUME NEW c \in Constraint(States), NEW id \in Nat, NEW by \in Nat \ {0}
    PROVE  /\ SupersedeDecide(c, [id |-> id, by |-> by]).refused <=> c.state = "retired" \/ by = id
           /\ ~SupersedeDecide(c, [id |-> id, by |-> by]).refused =>
                ConstraintApply(c, SupersedeDecide(c, [id |-> id, by |-> by]).evs[1])
                  = [c EXCEPT !.state = "retired", !.successor = by]
BY SidecarConstants DEF Constraint, States, SupersedeDecide, Emit, Reject, ConstraintApply

\* Replacing the constraint of one object keeps the others.
LEMMA WithConstraint ==
    ASSUME NEW q \in Seq(Object), NEW k \in 1..Len(q), NEW c \in Constraint(States)
    PROVE  /\ [q EXCEPT ![k].c = c] \in Seq(Object) /\ Len([q EXCEPT ![k].c = c]) = Len(q)
           /\ [q EXCEPT ![k].c = c][k].c = c
           /\ \A i \in 1..Len(q) : i # k => [q EXCEPT ![k].c = c][i] = q[i]
<1>1. q[k] \in Object OBVIOUS
<1>2. PICK x : x = [q[k] EXCEPT !.c = c] OBVIOUS
<1>3. x \in Object /\ x.c = c
  BY <1>1, <1>2 DEF Object, Constraint, States
<1>4. [q EXCEPT ![k].c = c] = [q EXCEPT ![k] = x]
  BY <1>2
<1> QED BY <1>3, <1>4

\* The objects of the ledger.
LEMMA Objects ==
    ASSUME TypeOK, NEW i \in 1..Len(constraints)
    PROVE  constraints[i] \in Object /\ constraints[i].c \in Constraint(States)
<1>1. constraints \in Seq(Object)
  BY DEF TypeOK
<1>2. constraints[i] \in Object
  BY <1>1
<1> QED BY <1>2 DEF Object, Constraint, States

-----------------------------------------------------------------------------
InitSteps == {"rule", "verify", "supersede", "adr", "verifyAdr", "context", "block", "ignore", "save", "register"}
UninitSteps == {"uncontext", "unblock", "unignore", "unsave"}

\* Which command is at which step, and what it has of the manifest: an init that
\* wrote nothing has the one on disk, and an init that is about to register has
\* saved its own.
Steps ==
    /\ proc.pc \in InitSteps => proc.cmd = "init"
    /\ proc.pc \in UninitSteps \union {"unregister"} => proc.cmd \in {"uninit", "uninstall"}
    /\ proc.pc \in {"merge", "approve", "write", "saveSetup"} => proc.cmd = "setup"
    /\ proc.pc \in {"settings", "restore", "unsetup"} => proc.cmd = "uninstall"
    /\ proc.pc \in InitSteps /\ ~proc.wrote => proc.pc \in {"rule", "adr", "context"} /\ proc.m = manifest
    /\ proc.pc = "rule" => ~proc.wrote
    /\ proc.pc = "register" => manifest = [proc.m EXCEPT !.exists = TRUE]
    /\ proc.pc \in UninitSteps => manifest.exists /\ proc.m = manifest
    /\ proc.pc = "verify" => constraints[proc.id].c.state = "generated"
    /\ ~manifest.exists => manifest = NoManifest

\* A copy of settings.json is of a file where setup found one.  Unless a command
\* wrote over an edit, it has the entries of the file that setup wrote, none where
\* there was no file; and it has no handlers unless setup repaired them.
Sound(s, rep, over) ==
    /\ s.existed => s.backup.exists
    /\ ~over => s.backup.other = s.written.other /\ (~s.existed => s.backup = NoSettings)
    /\ ~rep => s.backup.ours = {}

\* What a command read of settings.json is what the file holds unless it was edited
\* since, and an edit takes handlers out only.
HeldIs ==
    /\ ~held.late => settings = held.s
    /\ settings.ours \subseteq held.s.ours
    /\ IF held.s.exists THEN settings.exists ELSE held.s = NoSettings

\* What the user has in settings.json, and what setup.json knows of it; the copy
\* in the memory of a setup that is about to write is sound when it has written.
Kept ==
    /\ UserSettingsKept
    /\ ~settings.exists => settings = NoSettings
    /\ Sound(setup, repaired, overran)
    /\ proc.pc # "write" => Sound(proc.s, repaired, overran)
    /\ proc.pc = "write" => Sound(proc.s, repaired \/ held.s.ours # {}, overran \/ held.late)
    /\ proc.pc \in {"approve", "write", "restore"} => HeldIs
    /\ proc.calm /\ ~repaired /\ (proc.pc = "unsetup" \/ (proc.pc = "done" /\ proc.cmd = "uninstall"))
         => settings.ours = {}

\* The manifest that the next command will work with if this one gets through.
Coming == IF proc.pc \in InitSteps THEN proc.m ELSE manifest

\* As long as no init died, what keelage put into the repository is in it.
Known ==
    ~died =>
        /\ block # "none" => "block" \in Coming.rendered
        /\ ignored = "ours" => Coming.ignored
        /\ context.exists => manifest.exists \/ proc.pc \in {"block", "ignore", "save"}
        /\ manifest.exists => registered \/ proc.pc = "register"
        /\ proc.pc \in {"unignore", "unsave"} => block = "none"
        /\ proc.pc = "unsave" => ignored # "ours"
        /\ (\/ proc.pc \in {"unregister", "settings", "restore", "unsetup"}
            \/ proc.pc = "done" /\ proc.cmd = "uninstall") => ~manifest.exists

\* As long as no manifest was lost, a live constraint is the one it names, or the
\* one init is about to put there.
Named ==
    ~forgot =>
        \A i \in 1..Len(constraints) :
            Live(i) => \/ i = Coming.rule.id
                       \/ proc.pc \in {"verify", "supersede"} /\ i = proc.id

IInv == TypeOK /\ Steps /\ Kept /\ Known /\ Named

\* Its steps.
Pcs == {"idle", "done", "failed"} \union InitSteps \union UninitSteps
       \union {"unregister", "merge", "approve", "write", "saveSetup", "settings", "restore", "unsetup"}

-----------------------------------------------------------------------------
USE DEF files, records, ledger, history, vars

\* The process after a step.
Proc(pc, cmd, id, m, s, wrote, calm) ==
    /\ proc' \in Process
    /\ proc'.pc = pc /\ proc'.cmd = cmd /\ proc'.id = id /\ proc'.m = m /\ proc'.s = s
    /\ proc'.wrote = wrote /\ proc'.calm = calm

\* A manifest that differs in what was rendered or ignored only.
Updated(m, n, rendered, ign) ==
    /\ n \in Manifest /\ n.rule = m.rule /\ n.adr = m.adr
    /\ n.rendered = rendered /\ n.ignored = ign

\* Going on to another step.
LEMMA AtProc ==
    ASSUME proc \in Process, NEW pc \in Pcs, At(pc)
    PROVE  Proc(pc, proc.cmd, proc.id, proc.m, proc.s, proc.wrote, proc.calm)
BY DEF At, Proc, Process, Pcs, InitSteps, UninitSteps

\* A command that ends.
LEMMA DoneProc ==
    ASSUME proc \in Process, Done
    PROVE  Proc("done", proc.cmd, 0, NoManifest, NoSetup, FALSE, proc.calm)
<1>1. Idle \in Process /\ proc.cmd \in {"none", "init", "uninit", "setup", "uninstall"} /\ proc.calm \in BOOLEAN
  BY EmptyInstances DEF Process
<1> QED BY <1>1 DEF Done, Proc, Process, Idle

\* An edit ends what is at rest, and disturbs what runs.
LEMMA EditProc ==
    ASSUME proc \in Process, Edit
    PROVE  \/ Resting /\ Proc("idle", "none", 0, NoManifest, NoSetup, FALSE, TRUE)
           \/ ~Resting /\ Proc(proc.pc, proc.cmd, proc.id, proc.m, proc.s, proc.wrote, FALSE)
<1>1. CASE Resting
  BY <1>1, EmptyInstances DEF Edit, Proc, Idle
<1>2. CASE ~Resting
  BY <1>2 DEF Edit, Proc, Process
<1> QED BY <1>1, <1>2

\* No setup.json is a sound one.
LEMMA NoSetupSound == \A rep, over : Sound(NoSetup, rep, over)
BY DEF Sound, NoSetup, NoSettings

\* The user edits the rule file: nothing of the invariant is about its text.
LEMMA EditRuleStep ==
    ASSUME IInv, NEW t \in Rule \union {Blank}, EditRule(t)
    PROVE  IInv'
<1>1. /\ (\/ Resting /\ Proc("idle", "none", 0, NoManifest, NoSetup, FALSE, TRUE)
          \/ ~Resting /\ Proc(proc.pc, proc.cmd, proc.id, proc.m, proc.s, proc.wrote, FALSE))
  BY EditProc DEF IInv, TypeOK, EditRule
<1>2. /\ UNCHANGED <<block, adr, context, ignored, settings, manifest, registered, setup, constraints,
                     decisions, typed, died, forgot, repaired, overran, held>>
      /\ rule' = t
  BY DEF EditRule, Edit, Spend
<1>3. TypeOK'
  BY <1>1, <1>2, EmptyInstances DEF IInv, TypeOK, Proc, Linked, NoManifest, NoImport, Resting
<1>4. Steps'
  BY <1>1, <1>2 DEF IInv, Steps, Proc, InitSteps, UninitSteps, Resting
<1>5. Kept'
  BY <1>1, <1>2, NoSetupSound DEF IInv, Steps, Kept, HeldIs, Proc, UserSettingsKept, InitSteps, UninitSteps, Resting
<1>6. Known'
  BY <1>1, <1>2 DEF IInv, Steps, Known, Coming, Proc, InitSteps, UninitSteps, Resting, NoManifest
<1>7. Named'
  BY <1>1, <1>2 DEF IInv, Steps, Named, Coming, Proc, Live, InitSteps, Resting
<1> QED BY <1>3, <1>4, <1>5, <1>6, <1>7 DEF IInv

\* The user edits or removes a block that was there, so the manifest knows it.
LEMMA EditBlockStep ==
    ASSUME IInv, NEW b \in {"edited", "none"}, EditBlock(b)
    PROVE  IInv'
<1>1. /\ (\/ Resting /\ Proc("idle", "none", 0, NoManifest, NoSetup, FALSE, TRUE)
          \/ ~Resting /\ Proc(proc.pc, proc.cmd, proc.id, proc.m, proc.s, proc.wrote, FALSE))
      /\ block # "none"
  BY EditProc DEF IInv, TypeOK, EditBlock
<1>2. /\ UNCHANGED <<rule, adr, context, ignored, settings, manifest, registered, setup, constraints,
                     decisions, typed, died, forgot, repaired, overran, held>>
      /\ block' = b
  BY DEF EditBlock, Edit, Spend
<1>3. TypeOK'
  BY <1>1, <1>2, EmptyInstances DEF IInv, TypeOK, Proc, Linked, NoManifest, NoImport, Resting
<1>4. Steps'
  BY <1>1, <1>2 DEF IInv, Steps, Proc, InitSteps, UninitSteps, Resting
<1>5. Kept'
  BY <1>1, <1>2, NoSetupSound DEF IInv, Steps, Kept, HeldIs, Proc, UserSettingsKept, InitSteps, UninitSteps, Resting
<1>6. Known'
  BY <1>1, <1>2 DEF IInv, Steps, Known, Coming, Proc, InitSteps, UninitSteps, Resting, NoManifest
<1>7. Named'
  BY <1>1, <1>2 DEF IInv, Steps, Named, Coming, Proc, Live, InitSteps, Resting
<1> QED BY <1>3, <1>4, <1>5, <1>6, <1>7 DEF IInv

\* The user edits the ADR: nothing of the invariant is about its text.
LEMMA EditAdrStep ==
    ASSUME IInv, NEW t \in Adr \union {Blank}, EditAdr(t)
    PROVE  IInv'
<1>1. /\ (\/ Resting /\ Proc("idle", "none", 0, NoManifest, NoSetup, FALSE, TRUE)
          \/ ~Resting /\ Proc(proc.pc, proc.cmd, proc.id, proc.m, proc.s, proc.wrote, FALSE))
  BY EditProc DEF IInv, TypeOK, EditAdr
<1>2. /\ UNCHANGED <<rule, block, context, ignored, settings, manifest, registered, setup, constraints,
                     decisions, typed, died, forgot, repaired, overran, held>>
      /\ adr' = t
  BY DEF EditAdr, Edit, Spend
<1>3. TypeOK'
  BY <1>1, <1>2, EmptyInstances DEF IInv, TypeOK, Proc, Linked, NoManifest, NoImport, Resting
<1>4. Steps'
  BY <1>1, <1>2 DEF IInv, Steps, Proc, InitSteps, UninitSteps, Resting
<1>5. Kept'
  BY <1>1, <1>2, NoSetupSound DEF IInv, Steps, Kept, HeldIs, Proc, UserSettingsKept, InitSteps, UninitSteps, Resting
<1>6. Known'
  BY <1>1, <1>2 DEF IInv, Steps, Known, Coming, Proc, InitSteps, UninitSteps, Resting, NoManifest
<1>7. Named'
  BY <1>1, <1>2 DEF IInv, Steps, Named, Coming, Proc, Live, InitSteps, Resting
<1> QED BY <1>3, <1>4, <1>5, <1>6, <1>7 DEF IInv

\* The user edits settings.json: the entries are what was typed last.
LEMMA EditSettingsStep ==
    ASSUME IInv, NEW o \in Other \union {NoText}, NEW gone \in SUBSET Event, EditSettings(o, gone)
    PROVE  IInv'
<1>1. /\ (\/ Resting /\ Proc("idle", "none", 0, NoManifest, NoSetup, FALSE, TRUE)
          \/ ~Resting /\ Proc(proc.pc, proc.cmd, proc.id, proc.m, proc.s, proc.wrote, FALSE))
  BY EditProc DEF IInv, TypeOK, EditSettings
<1>2. /\ UNCHANGED <<rule, block, adr, context, ignored, manifest, registered, setup, constraints,
                     decisions, died, forgot, repaired>>
      /\ settings' \in Settings /\ settings'.exists /\ settings'.other = o /\ typed' = o
      /\ settings'.ours \subseteq settings.ours
      /\ held' = IF proc.pc \in {"approve", "write", "restore"} THEN [held EXCEPT !.late = TRUE] ELSE held
      /\ overran' = (overran /\ ~(Resting /\ setup = NoSetup))
  BY DEF EditSettings, Edit, Spend, IInv, TypeOK, Settings
<1>h. /\ held' \in [late : BOOLEAN, s : Settings] /\ held'.s = held.s /\ overran' \in BOOLEAN
      /\ proc.pc \in {"approve", "write", "restore"} => held'.late
      /\ ~Resting => overran' = overran
  <2>1. held \in [late : BOOLEAN, s : Settings] /\ overran \in BOOLEAN
    BY DEF IInv, TypeOK
  <2>4. /\ held' \in [late : BOOLEAN, s : Settings] /\ held'.s = held.s
        /\ proc.pc \in {"approve", "write", "restore"} => held'.late
    BY <1>2, <2>1
  <2>5. PICK clear \in BOOLEAN : clear = (Resting /\ setup = NoSetup)
    OBVIOUS
  <2>6. overran' = (overran /\ ~clear) /\ (~Resting => clear = FALSE)
    BY <1>2, <2>5
  <2>7. overran' \in BOOLEAN /\ (~Resting => overran' = overran)
    BY <2>1, <2>6
  <2> QED BY <2>4, <2>7
<1>3. TypeOK'
  BY <1>1, <1>2, <1>h, EmptyInstances DEF IInv, TypeOK, Proc, Linked, NoManifest, NoImport, Resting
<1>4. Steps'
  BY <1>1, <1>2 DEF IInv, Steps, Proc, InitSteps, UninitSteps, Resting
<1>5. Kept'
  <2>1. CASE Resting
    <3>1. /\ proc'.pc = "idle" /\ proc'.s = NoSetup /\ setup' = setup /\ repaired' = repaired
          /\ ~overran' => setup = NoSetup \/ ~overran
      BY <1>1, <1>2, <2>1 DEF Proc
    <3>2. Sound(setup', repaired', overran')
      <4>1. CASE setup = NoSetup
        BY <3>1, <4>1, NoSetupSound
      <4>2. CASE setup # NoSetup
        BY <3>1, <4>2 DEF IInv, Kept, Sound
      <4> QED BY <4>1, <4>2
    <3> QED BY <1>2, <3>1, <3>2, NoSetupSound DEF Kept, UserSettingsKept
  <2>2. CASE ~Resting
    <3>1. /\ Proc(proc.pc, proc.cmd, proc.id, proc.m, proc.s, proc.wrote, FALSE)
          /\ setup' = setup /\ repaired' = repaired /\ overran' = overran
          /\ proc'.pc = proc.pc /\ proc'.s = proc.s /\ ~proc'.calm
      <4>1. Proc(proc.pc, proc.cmd, proc.id, proc.m, proc.s, proc.wrote, FALSE)
        BY <1>1, <2>2
      <4> QED BY <1>2, <1>h, <2>2, <4>1 DEF Proc
    <3>2. Sound(setup', repaired', overran') /\ (proc'.pc # "write" => Sound(proc'.s, repaired', overran'))
      BY <3>1 DEF IInv, Kept
    <3>3. proc'.pc = "write" => Sound(proc'.s, repaired' \/ held'.s.ours # {}, overran' \/ held'.late)
      BY <1>h, <3>1 DEF IInv, Kept, Sound
    <3>4. proc'.pc \in {"approve", "write", "restore"} => HeldIs'
      BY <1>2, <1>h, <3>1 DEF IInv, Kept, HeldIs
    <3> QED BY <1>2, <3>1, <3>2, <3>3, <3>4 DEF Kept, UserSettingsKept
  <2> QED BY <2>1, <2>2
<1>6. Known'
  BY <1>1, <1>2 DEF IInv, Steps, Known, Coming, Proc, InitSteps, UninitSteps, Resting, NoManifest
<1>7. Named'
  BY <1>1, <1>2 DEF IInv, Steps, Named, Coming, Proc, Live, InitSteps, Resting
<1> QED BY <1>3, <1>4, <1>5, <1>6, <1>7 DEF IInv

\* init starts with the manifest on disk.
LEMMA StartInitStep ==
    ASSUME IInv, NEW v \in BOOLEAN, StartInit(v)
    PROVE  IInv'
<1>1. /\ Resting
      /\ Proc("rule", "init", 0, manifest, NoSetup, FALSE, TRUE)
  BY EmptyInstances DEF IInv, TypeOK, StartInit, Spend, Proc, Process, Idle, Resting
<1>2. /\ UNCHANGED <<rule, block, adr, context, ignored, settings, manifest, registered, setup,
                     constraints, decisions, typed, died, forgot, repaired, overran, held>>
  BY DEF StartInit, Spend
<1>3. TypeOK'
  BY <1>1, <1>2, EmptyInstances DEF IInv, TypeOK, Proc, Linked, NoManifest, NoImport, Resting
<1>4. Steps'
  BY <1>1, <1>2 DEF IInv, Steps, Proc, InitSteps, UninitSteps, Resting
<1>5. Kept'
  BY <1>1, <1>2, NoSetupSound DEF IInv, Steps, Kept, HeldIs, Proc, UserSettingsKept, InitSteps, UninitSteps, Resting
<1>6. Known'
  BY <1>1, <1>2 DEF IInv, Steps, Known, Coming, Proc, InitSteps, UninitSteps, Resting, NoManifest
<1>7. Named'
  BY <1>1, <1>2 DEF IInv, Steps, Named, Coming, Proc, Live, InitSteps, Resting
<1> QED BY <1>3, <1>4, <1>5, <1>6, <1>7 DEF IInv

\* The context is rendered, and the manifest in memory says so.
LEMMA RenderContextStep ==
    ASSUME IInv, NEW force \in BOOLEAN, RenderContext(force)
    PROVE  IInv'
<1>0. /\ Updated(proc.m, [proc.m EXCEPT !.rendered = @ \union {"context"}], proc.m.rendered \union {"context"}, proc.m.ignored)
  BY DEF IInv, TypeOK, Process, Manifest, Updated
<1>1. /\ proc.pc = "context"
      /\ Proc("block", proc.cmd, proc.id, [proc.m EXCEPT !.rendered = @ \union {"context"}], proc.s, TRUE, proc.calm)
  BY EmptyInstances DEF IInv, TypeOK, RenderContext, Proc, Process, Idle, Resting, Manifest
<1>2. /\ UNCHANGED <<rule, block, adr, ignored, settings, manifest, registered, setup, constraints,
                     decisions, typed, died, forgot, repaired, overran, held>>
      /\ context' \in [exists : BOOLEAN, ids : SUBSET Nat]
  BY DEF RenderContext, InForceIds
<1>3. TypeOK'
  BY <1>1, <1>2, <1>0, EmptyInstances DEF IInv, TypeOK, Proc, Linked, NoManifest, NoImport, Resting, Updated
<1>4. Steps'
  BY <1>1, <1>2, <1>0 DEF IInv, Steps, Proc, InitSteps, UninitSteps, Resting, Updated
<1>5. Kept'
  BY <1>1, <1>2, NoSetupSound DEF IInv, Steps, Kept, HeldIs, Proc, UserSettingsKept, InitSteps, UninitSteps, Resting
<1>6. Known'
  BY <1>1, <1>2, <1>0 DEF IInv, Steps, Known, Coming, Proc, InitSteps, UninitSteps, Resting, NoManifest, Updated
<1>7. Named'
  <2>1. UNCHANGED <<constraints, forgot>> /\ proc'.pc \notin {"verify", "supersede"}
    BY <1>1, <1>2 DEF Proc
  <2>2. proc.pc \notin {"verify", "supersede"} /\ Coming'.rule = Coming.rule
    BY <1>1, <1>2, <1>0 DEF IInv, Steps, Coming, Proc, InitSteps, Updated
  <2> QED BY <2>1, <2>2 DEF IInv, Named, Live
<1> QED BY <1>3, <1>4, <1>5, <1>6, <1>7 DEF IInv

\* The block is rendered, or left alone where the manifest has it.
LEMMA RenderBlockStep ==
    ASSUME IInv, RenderBlock
    PROVE  IInv'
<1>0. /\ Updated(proc.m, [proc.m EXCEPT !.rendered = @ \union {"block"}], proc.m.rendered \union {"block"}, proc.m.ignored)
  BY DEF IInv, TypeOK, Process, Manifest, Updated
<1>1. /\ proc.pc = "block"
      /\ \/ /\ "block" \in proc.m.rendered /\ block' = block
            /\ Proc("ignore", proc.cmd, proc.id, proc.m, proc.s, proc.wrote, proc.calm)
         \/ /\ block' = "ours"
            /\ Proc("ignore", proc.cmd, proc.id, [proc.m EXCEPT !.rendered = @ \union {"block"}],
                    proc.s, proc.wrote, proc.calm)
  <2>1. CASE Diverged /\ ~proc.force
    BY <2>1, AtProc DEF IInv, TypeOK, RenderBlock, Diverged, Pcs, InitSteps
  <2>2. CASE ~(Diverged /\ ~proc.force)
    <3>1. /\ proc \in Process /\ proc.pc = "block" /\ block' = "ours"
          /\ proc' = [proc EXCEPT !.pc = "ignore", !.m = [proc.m EXCEPT !.rendered = @ \union {"block"}]]
      BY <2>2 DEF IInv, TypeOK, RenderBlock
    <3> QED BY <1>0, <3>1 DEF Proc, Process, Updated
  <2> QED BY <2>1, <2>2
<1>2. /\ UNCHANGED <<rule, adr, context, ignored, settings, manifest, registered, setup, constraints,
                     decisions, typed, died, forgot, repaired, overran, held>>
  BY DEF RenderBlock, At, Diverged
<1>3. TypeOK'
  <2>1. proc' \in Process /\ proc'.pc \notin {"verify", "supersede", "verifyAdr"}
    BY <1>1 DEF Proc
  <2>2. Linked(proc'.m, Len(constraints), Len(decisions))
    <3>1. Linked(proc.m, Len(constraints), Len(decisions)) /\ Len(constraints) \in Nat /\ Len(decisions) \in Nat
      BY DEF IInv, TypeOK
    <3> QED BY <1>1, <1>0, <3>1 DEF Proc, Linked, NoManifest, NoImport, Updated
  <2>3. block' \in {"none", "ours", "edited"}
    BY <1>1, <1>2 DEF IInv, TypeOK
  <2> QED BY <1>2, <2>1, <2>2, <2>3 DEF IInv, TypeOK
<1>4. Steps'
  BY <1>1, <1>2, <1>0 DEF IInv, Steps, Proc, InitSteps, UninitSteps, Resting, Updated
<1>5. Kept'
  BY <1>1, <1>2, NoSetupSound DEF IInv, Steps, Kept, HeldIs, Proc, UserSettingsKept, InitSteps, UninitSteps, Resting
<1>6. Known'
  BY <1>1, <1>2, <1>0 DEF IInv, Steps, Known, Coming, Proc, InitSteps, UninitSteps, Resting, NoManifest, Updated
<1>7. Named'
  <2>1. UNCHANGED <<constraints, forgot>> /\ proc'.pc \notin {"verify", "supersede"}
    BY <1>1, <1>2 DEF Proc
  <2>2. proc.pc \notin {"verify", "supersede"} /\ Coming'.rule = Coming.rule
    BY <1>1, <1>2, <1>0 DEF IInv, Steps, Coming, Proc, InitSteps, Updated
  <2> QED BY <2>1, <2>2 DEF IInv, Named, Live
<1> QED BY <1>3, <1>4, <1>5, <1>6, <1>7 DEF IInv

\* The line in .gitignore is ours only if the manifest in memory says so.
LEMMA IgnoreStep ==
    ASSUME IInv, Ignore
    PROVE  IInv'
<1>0. /\ Updated(proc.m, [proc.m EXCEPT !.ignored = @ \/ ignored = "no"], proc.m.rendered, proc.m.ignored \/ ignored = "no")
  BY DEF IInv, TypeOK, Process, Manifest, Updated
<1>1. /\ proc.pc = "ignore"
      /\ Proc("save", proc.cmd, proc.id, [proc.m EXCEPT !.ignored = @ \/ ignored = "no"], proc.s, proc.wrote, proc.calm)
  <2>1. PICK m \in Manifest : m = [proc.m EXCEPT !.ignored = @ \/ ignored = "no"]
    BY <1>0 DEF Updated
  <2>2. /\ proc.pc = "ignore" /\ proc \in Process
        /\ proc' = [proc EXCEPT !.pc = "save", !.force = FALSE, !.m = m]
    BY <2>1 DEF Ignore, IInv, TypeOK
  <2>3. Proc("save", proc.cmd, proc.id, m, proc.s, proc.wrote, proc.calm)
    BY <2>2 DEF Proc, Process
  <2> QED BY <2>1, <2>2, <2>3
<1>2. /\ UNCHANGED <<rule, block, adr, context, settings, manifest, registered, setup, constraints,
                     decisions, typed, died, forgot, repaired, overran, held>>
      /\ ignored' = IF ignored = "no" THEN "ours" ELSE ignored
  BY DEF Ignore
<1>3. TypeOK'
  BY <1>1, <1>2, <1>0, EmptyInstances DEF IInv, TypeOK, Proc, Linked, NoManifest, NoImport, Resting, Updated
<1>4. Steps'
  BY <1>1, <1>2, <1>0 DEF IInv, Steps, Proc, InitSteps, UninitSteps, Resting, Updated
<1>5. Kept'
  BY <1>1, <1>2, NoSetupSound DEF IInv, Steps, Kept, HeldIs, Proc, UserSettingsKept, InitSteps, UninitSteps, Resting
<1>6. Known'
  BY <1>1, <1>2, <1>0 DEF IInv, Steps, Known, Coming, Proc, InitSteps, UninitSteps, Resting, NoManifest, Updated
<1>7. Named'
  <2>1. UNCHANGED <<constraints, forgot>> /\ proc'.pc \notin {"verify", "supersede"}
    BY <1>1, <1>2 DEF Proc
  <2>2. proc.pc \notin {"verify", "supersede"} /\ Coming'.rule = Coming.rule
    BY <1>1, <1>2, <1>0 DEF IInv, Steps, Coming, Proc, InitSteps, Updated
  <2> QED BY <2>1, <2>2 DEF IInv, Named, Live
<1> QED BY <1>3, <1>4, <1>5, <1>6, <1>7 DEF IInv

\* The manifest in memory becomes the one on disk.
LEMMA SaveStep ==
    ASSUME IInv, Save
    PROVE  IInv'
<1>0. /\ Updated(proc.m, [proc.m EXCEPT !.exists = TRUE], proc.m.rendered, proc.m.ignored)
      /\ [proc.m EXCEPT !.exists = TRUE].exists
  BY DEF IInv, TypeOK, Process, Manifest, Updated
<1>1. /\ proc.pc = "save"
      /\ Proc("register", proc.cmd, proc.id, proc.m, proc.s, proc.wrote, proc.calm)
  BY EmptyInstances DEF IInv, TypeOK, Save, At, Proc, Process, Idle, Resting
<1>2. /\ UNCHANGED <<rule, block, adr, context, ignored, settings, registered, setup, constraints,
                     decisions, typed, died, forgot, repaired, overran, held>>
      /\ manifest' = [proc.m EXCEPT !.exists = TRUE]
  BY DEF Save, At
<1>3. TypeOK'
  BY <1>1, <1>2, <1>0, EmptyInstances DEF IInv, TypeOK, Proc, Linked, NoManifest, NoImport, Resting, Updated
<1>4. Steps'
  BY <1>1, <1>2, <1>0 DEF IInv, Steps, Proc, InitSteps, UninitSteps, Resting, Updated
<1>5. Kept'
  BY <1>1, <1>2, NoSetupSound DEF IInv, Steps, Kept, HeldIs, Proc, UserSettingsKept, InitSteps, UninitSteps, Resting
<1>6. Known'
  BY <1>1, <1>2, <1>0 DEF IInv, Steps, Known, Coming, Proc, InitSteps, UninitSteps, Resting, NoManifest, Updated
<1>7. Named'
  <2>1. UNCHANGED <<constraints, forgot>> /\ proc'.pc \notin {"verify", "supersede"}
    BY <1>1, <1>2 DEF Proc
  <2>2. proc.pc \notin {"verify", "supersede"} /\ Coming'.rule = Coming.rule
    BY <1>1, <1>2, <1>0 DEF IInv, Steps, Coming, Proc, InitSteps, Updated
  <2> QED BY <2>1, <2>2 DEF IInv, Named, Live
<1> QED BY <1>3, <1>4, <1>5, <1>6, <1>7 DEF IInv

\* The repository is registered with the manifest on disk.
LEMMA RegisterStep ==
    ASSUME IInv, Register
    PROVE  IInv'
<1>0. /\ Updated(proc.m, [proc.m EXCEPT !.exists = TRUE], proc.m.rendered, proc.m.ignored)
      /\ [proc.m EXCEPT !.exists = TRUE].exists
  BY DEF IInv, TypeOK, Process, Manifest, Updated
<1>1. /\ proc.pc = "register"
      /\ Proc("done", proc.cmd, 0, NoManifest, NoSetup, FALSE, proc.calm)
  BY EmptyInstances DEF IInv, TypeOK, Register, Done, Proc, Process, Idle, Resting
<1>2. /\ UNCHANGED <<rule, block, adr, context, ignored, settings, manifest, setup, constraints,
                     decisions, typed, died, forgot, repaired, overran, held>>
      /\ registered' = TRUE
  BY DEF Register, Done
<1>3. TypeOK'
  BY <1>1, <1>2, <1>0, EmptyInstances DEF IInv, TypeOK, Proc, Linked, NoManifest, NoImport, Resting, Updated
<1>4. Steps'
  BY <1>1, <1>2, <1>0 DEF IInv, Steps, Proc, InitSteps, UninitSteps, Resting, Updated
<1>5. Kept'
  BY <1>1, <1>2, NoSetupSound DEF IInv, Steps, Kept, HeldIs, Proc, UserSettingsKept, InitSteps, UninitSteps, Resting
<1>6. Known'
  BY <1>1, <1>2, <1>0 DEF IInv, Steps, Known, Coming, Proc, InitSteps, UninitSteps, Resting, NoManifest, Updated
<1>7. Named'
  <2>1. UNCHANGED <<constraints, forgot>> /\ proc'.pc \notin {"verify", "supersede"}
    BY <1>1, <1>2 DEF Proc
  <2>2. proc.pc \notin {"verify", "supersede"} /\ Coming'.rule = Coming.rule
    BY <1>1, <1>2, <1>0 DEF IInv, Steps, Coming, Proc, InitSteps, Updated
  <2> QED BY <2>1, <2>2 DEF IInv, Named, Live
<1> QED BY <1>3, <1>4, <1>5, <1>6, <1>7 DEF IInv

\* uninit starts with the manifest on disk.
LEMMA StartUninitStep ==
    ASSUME IInv, StartUninit
    PROVE  IInv'
<1>1. /\ Resting
      /\ Proc(IF manifest.exists THEN "uncontext" ELSE "unregister", "uninit", 0, manifest, NoSetup, FALSE, TRUE)
  BY EmptyInstances DEF IInv, TypeOK, StartUninit, Spend, Proc, Process, Idle, Resting
<1>2. /\ UNCHANGED <<rule, block, adr, context, ignored, settings, manifest, registered, setup,
                     constraints, decisions, typed, died, forgot, repaired, overran, held>>
  BY DEF StartUninit, Spend
<1>3. TypeOK'
  BY <1>1, <1>2, EmptyInstances DEF IInv, TypeOK, Proc, Linked, NoManifest, NoImport, Resting
<1>4. Steps'
  BY <1>1, <1>2 DEF IInv, Steps, Proc, InitSteps, UninitSteps, Resting
<1>5. Kept'
  BY <1>1, <1>2, NoSetupSound DEF IInv, Steps, Kept, HeldIs, Proc, UserSettingsKept, InitSteps, UninitSteps, Resting
<1>6. Known'
  BY <1>1, <1>2 DEF IInv, Steps, Known, Coming, Proc, InitSteps, UninitSteps, Resting, NoManifest
<1>7. Named'
  BY <1>1, <1>2 DEF IInv, Steps, Named, Coming, Proc, Live, InitSteps, Resting
<1> QED BY <1>3, <1>4, <1>5, <1>6, <1>7 DEF IInv

\* uninit removes the context.
LEMMA RemoveContextStep ==
    ASSUME IInv, RemoveContext
    PROVE  IInv'
<1>1. /\ proc.pc = "uncontext"
      /\ Proc("unblock", proc.cmd, proc.id, proc.m, proc.s, proc.wrote, proc.calm)
  BY EmptyInstances DEF IInv, TypeOK, RemoveContext, At, Proc, Process, Idle, Resting
<1>2. /\ UNCHANGED <<rule, block, adr, ignored, settings, manifest, registered, setup, constraints,
                     decisions, typed, died, forgot, repaired, overran, held>>
      /\ context' = IF "context" \in proc.m.rendered THEN NotRendered ELSE context
  BY DEF RemoveContext, At
<1>3. TypeOK'
  BY <1>1, <1>2, EmptyInstances DEF IInv, TypeOK, Proc, Linked, NoManifest, NoImport, Resting, NotRendered
<1>4. Steps'
  BY <1>1, <1>2 DEF IInv, Steps, Proc, InitSteps, UninitSteps, Resting
<1>5. Kept'
  BY <1>1, <1>2, NoSetupSound DEF IInv, Steps, Kept, HeldIs, Proc, UserSettingsKept, InitSteps, UninitSteps, Resting
<1>6. Known'
  BY <1>1, <1>2 DEF IInv, Steps, Known, Coming, Proc, InitSteps, UninitSteps, Resting, NoManifest, NotRendered
<1>7. Named'
  BY <1>1, <1>2 DEF IInv, Steps, Named, Coming, Proc, Live, InitSteps, Resting
<1> QED BY <1>3, <1>4, <1>5, <1>6, <1>7 DEF IInv

\* uninit removes the block, which the manifest knows if it is there.
LEMMA RemoveBlockStep ==
    ASSUME IInv, RemoveBlock
    PROVE  IInv'
<1>1. /\ proc.pc = "unblock"
      /\ Proc("unignore", proc.cmd, proc.id, proc.m, proc.s, proc.wrote, proc.calm)
  BY EmptyInstances DEF IInv, TypeOK, RemoveBlock, At, Proc, Process, Idle, Resting
<1>2. /\ UNCHANGED <<rule, adr, context, ignored, settings, manifest, registered, setup, constraints,
                     decisions, typed, died, forgot, repaired, overran, held>>
      /\ block' = IF "block" \in proc.m.rendered THEN "none" ELSE block
  BY DEF RemoveBlock, At
<1>3. TypeOK'
  BY <1>1, <1>2, EmptyInstances DEF IInv, TypeOK, Proc, Linked, NoManifest, NoImport, Resting
<1>4. Steps'
  BY <1>1, <1>2 DEF IInv, Steps, Proc, InitSteps, UninitSteps, Resting
<1>5. Kept'
  BY <1>1, <1>2, NoSetupSound DEF IInv, Steps, Kept, HeldIs, Proc, UserSettingsKept, InitSteps, UninitSteps, Resting
<1>6. Known'
  BY <1>1, <1>2 DEF IInv, Steps, Known, Coming, Proc, InitSteps, UninitSteps, Resting, NoManifest
<1>7. Named'
  BY <1>1, <1>2 DEF IInv, Steps, Named, Coming, Proc, Live, InitSteps, Resting
<1> QED BY <1>3, <1>4, <1>5, <1>6, <1>7 DEF IInv

\* uninit removes the line in .gitignore if it is ours.
LEMMA UnignoreStep ==
    ASSUME IInv, Unignore
    PROVE  IInv'
<1>1. /\ proc.pc = "unignore"
      /\ Proc("unsave", proc.cmd, proc.id, proc.m, proc.s, proc.wrote, proc.calm)
  BY EmptyInstances DEF IInv, TypeOK, Unignore, At, Proc, Process, Idle, Resting
<1>2. /\ UNCHANGED <<rule, block, adr, context, settings, manifest, registered, setup, constraints,
                     decisions, typed, died, forgot, repaired, overran, held>>
      /\ ignored' = IF proc.m.ignored THEN "no" ELSE ignored
  BY DEF Unignore, At
<1>3. TypeOK'
  BY <1>1, <1>2, EmptyInstances DEF IInv, TypeOK, Proc, Linked, NoManifest, NoImport, Resting
<1>4. Steps'
  BY <1>1, <1>2 DEF IInv, Steps, Proc, InitSteps, UninitSteps, Resting
<1>5. Kept'
  BY <1>1, <1>2, NoSetupSound DEF IInv, Steps, Kept, HeldIs, Proc, UserSettingsKept, InitSteps, UninitSteps, Resting
<1>6. Known'
  BY <1>1, <1>2 DEF IInv, Steps, Known, Coming, Proc, InitSteps, UninitSteps, Resting, NoManifest
<1>7. Named'
  BY <1>1, <1>2 DEF IInv, Steps, Named, Coming, Proc, Live, InitSteps, Resting
<1> QED BY <1>3, <1>4, <1>5, <1>6, <1>7 DEF IInv

\* uninit removes the manifest; what it knew is forgotten.
LEMMA RemoveManifestStep ==
    ASSUME IInv, RemoveManifest
    PROVE  IInv'
<1>1. /\ proc.pc = "unsave"
      /\ Proc("unregister", proc.cmd, proc.id, proc.m, proc.s, proc.wrote, proc.calm)
  BY EmptyInstances DEF IInv, TypeOK, RemoveManifest, At, Proc, Process, Idle, Resting
<1>2. /\ UNCHANGED <<rule, block, adr, ignored, settings, registered, setup, constraints, decisions,
                     typed, died, repaired, overran, held>>
      /\ manifest' = NoManifest /\ context' = NotRendered /\ forgot' = TRUE
  BY DEF RemoveManifest, At
<1>3. TypeOK'
  BY <1>1, <1>2, EmptyInstances DEF IInv, TypeOK, Proc, Linked, NoManifest, NoImport, Resting, NotRendered
<1>4. Steps'
  BY <1>1, <1>2 DEF IInv, Steps, Proc, InitSteps, UninitSteps, Resting
<1>5. Kept'
  BY <1>1, <1>2, NoSetupSound DEF IInv, Steps, Kept, HeldIs, Proc, UserSettingsKept, InitSteps, UninitSteps, Resting
<1>6. Known'
  BY <1>1, <1>2 DEF IInv, Steps, Known, Coming, Proc, InitSteps, UninitSteps, Resting, NoManifest, NotRendered
<1>7. Named'
  BY <1>1, <1>2 DEF IInv, Steps, Named, Coming, Proc, Live, InitSteps, Resting
<1> QED BY <1>3, <1>4, <1>5, <1>6, <1>7 DEF IInv

\* The repository is unregistered, without a manifest.
LEMMA UnregisterStep ==
    ASSUME IInv, Unregister
    PROVE  IInv'
<1>1. /\ proc.pc = "unregister"
      /\ \/ proc.cmd = "uninstall" /\ Proc("settings", proc.cmd, proc.id, proc.m, proc.s, proc.wrote, proc.calm)
         \/ proc.cmd # "uninstall" /\ Proc("done", proc.cmd, 0, NoManifest, NoSetup, FALSE, proc.calm)
  BY AtProc, DoneProc DEF IInv, TypeOK, Unregister, Pcs
<1>2. /\ UNCHANGED <<rule, block, adr, context, ignored, settings, manifest, setup, constraints,
                     decisions, typed, died, forgot, repaired, overran, held>>
      /\ registered' = FALSE
  BY DEF Unregister
<1>3. TypeOK'
  <2>1. proc' \in Process /\ proc'.pc \notin {"verify", "supersede", "verifyAdr"}
    BY <1>1 DEF Proc
  <2>2. Linked(proc'.m, Len(constraints), Len(decisions))
    <3>1. Linked(proc.m, Len(constraints), Len(decisions)) /\ Len(constraints) \in Nat /\ Len(decisions) \in Nat
      BY DEF IInv, TypeOK
    <3> QED BY <1>1, <3>1 DEF Proc, Linked, NoManifest, NoImport
  <2>3. registered' \in BOOLEAN
    BY <1>1, <1>2 DEF IInv, TypeOK
  <2> QED BY <1>2, <2>1, <2>2, <2>3 DEF IInv, TypeOK
<1>4. Steps'
  BY <1>1, <1>2 DEF IInv, Steps, Proc, InitSteps, UninitSteps, Resting
<1>5. Kept'
  BY <1>1, <1>2, NoSetupSound DEF IInv, Steps, Kept, HeldIs, Proc, UserSettingsKept, InitSteps, UninitSteps, Resting
<1>6. Known'
  BY <1>1, <1>2 DEF IInv, Steps, Known, Coming, Proc, InitSteps, UninitSteps, Resting, NoManifest
<1>7. Named'
  BY <1>1, <1>2 DEF IInv, Steps, Named, Coming, Proc, Live, InitSteps, Resting
<1> QED BY <1>3, <1>4, <1>5, <1>6, <1>7 DEF IInv

\* setup starts with the setup.json on disk.
LEMMA StartSetupStep ==
    ASSUME IInv, StartSetup
    PROVE  IInv'
<1>1. /\ Resting
      /\ Proc("merge", "setup", 0, NoManifest, setup, FALSE, TRUE)
  BY EmptyInstances DEF IInv, TypeOK, StartSetup, Spend, Proc, Process, Idle, Resting
<1>2. /\ UNCHANGED <<rule, block, adr, context, ignored, settings, manifest, registered, setup,
                     constraints, decisions, typed, died, forgot, repaired, overran, held>>
  BY DEF StartSetup, Spend
<1>3. TypeOK'
  BY <1>1, <1>2, EmptyInstances DEF IInv, TypeOK, Proc, Linked, NoManifest, NoImport, Resting
<1>4. Steps'
  BY <1>1, <1>2 DEF IInv, Steps, Proc, InitSteps, UninitSteps, Resting
<1>5. Kept'
  BY <1>1, <1>2, NoSetupSound DEF IInv, Steps, Kept, HeldIs, Proc, UserSettingsKept, InitSteps, UninitSteps, Resting
<1>6. Known'
  BY <1>1, <1>2 DEF IInv, Steps, Known, Coming, Proc, InitSteps, UninitSteps, Resting, NoManifest
<1>7. Named'
  BY <1>1, <1>2 DEF IInv, Steps, Named, Coming, Proc, Live, InitSteps, Resting
<1> QED BY <1>3, <1>4, <1>5, <1>6, <1>7 DEF IInv

\* The copy in memory becomes the one on disk.
LEMMA SaveSetupStep ==
    ASSUME IInv, SaveSetup
    PROVE  IInv'
<1>1. /\ proc.pc = "saveSetup"
      /\ Proc("done", proc.cmd, 0, NoManifest, NoSetup, FALSE, proc.calm)
  BY EmptyInstances DEF IInv, TypeOK, SaveSetup, Done, Proc, Process, Idle, Resting
<1>2. /\ UNCHANGED <<rule, block, adr, context, ignored, settings, manifest, registered, constraints,
                     decisions, typed, died, forgot, repaired, overran, held>>
      /\ setup' = proc.s
  BY DEF SaveSetup, Done
<1>3. TypeOK'
  BY <1>1, <1>2, EmptyInstances DEF IInv, TypeOK, Proc, Linked, NoManifest, NoImport, Resting, Process
<1>4. Steps'
  BY <1>1, <1>2 DEF IInv, Steps, Proc, InitSteps, UninitSteps, Resting
<1>5. Kept'
  BY <1>1, <1>2, NoSetupSound DEF IInv, Steps, Kept, HeldIs, Proc, UserSettingsKept, InitSteps, UninitSteps, Resting
<1>6. Known'
  BY <1>1, <1>2 DEF IInv, Steps, Known, Coming, Proc, InitSteps, UninitSteps, Resting, NoManifest, Process
<1>7. Named'
  BY <1>1, <1>2 DEF IInv, Steps, Named, Coming, Proc, Live, InitSteps, Resting
<1> QED BY <1>3, <1>4, <1>5, <1>6, <1>7 DEF IInv

\* uninstall starts: a repository with a manifest is registered.
LEMMA StartUninstallStep ==
    ASSUME IInv, StartUninstall
    PROVE  IInv'
<1>a. Idle \in Process /\ manifest \in Manifest
  BY EmptyInstances DEF IInv, TypeOK
<1>b. PICK pc \in {"settings", "uncontext", "unregister"} :
        /\ proc' = [Idle EXCEPT !.cmd = "uninstall", !.m = manifest, !.pc = pc]
        /\ pc = "settings" <=> ~registered
        /\ pc = "uncontext" <=> registered /\ manifest.exists
  BY DEF StartUninstall
<1>1. /\ Resting
      /\ Proc(pc, "uninstall", 0, manifest, NoSetup, FALSE, TRUE)
      /\ pc = "settings" <=> ~registered
      /\ pc = "uncontext" <=> registered /\ manifest.exists
  BY <1>a, <1>b DEF StartUninstall, Proc, Process, Idle
<1>2. /\ UNCHANGED <<rule, block, adr, context, ignored, settings, manifest, registered, setup,
                     constraints, decisions, typed, died, forgot, repaired, overran, held>>
  BY DEF StartUninstall, Spend
<1>3. TypeOK'
  BY <1>1, <1>2, EmptyInstances DEF IInv, TypeOK, Proc, Linked, NoManifest, NoImport, Resting
<1>4. Steps'
  BY <1>1, <1>2 DEF IInv, Steps, Proc, InitSteps, UninitSteps, Resting
<1>5. Kept'
  BY <1>1, <1>2, NoSetupSound DEF IInv, Steps, Kept, HeldIs, Proc, UserSettingsKept, InitSteps, UninitSteps, Resting
<1>6. Known'
  BY <1>1, <1>2 DEF IInv, Steps, Known, Coming, Proc, InitSteps, UninitSteps, Resting, NoManifest
<1>7. Named'
  BY <1>1, <1>2 DEF IInv, Steps, Named, Coming, Proc, Live, InitSteps, Resting
<1> QED BY <1>3, <1>4, <1>5, <1>6, <1>7 DEF IInv

\* uninstall removes setup.json and ends.
LEMMA RemoveSetupStep ==
    ASSUME IInv, RemoveSetup
    PROVE  IInv'
<1>1. /\ proc.pc = "unsetup"
      /\ Proc("done", proc.cmd, 0, NoManifest, NoSetup, FALSE, proc.calm)
  BY EmptyInstances DEF IInv, TypeOK, RemoveSetup, Done, Proc, Process, Idle, Resting
<1>2. /\ UNCHANGED <<rule, block, adr, context, ignored, settings, manifest, registered, constraints,
                     decisions, typed, died, forgot, repaired, overran, held>>
      /\ setup' = NoSetup
  BY DEF RemoveSetup, Done
<1>3. TypeOK'
  BY <1>1, <1>2, EmptyInstances DEF IInv, TypeOK, Proc, Linked, NoManifest, NoImport, Resting
<1>4. Steps'
  BY <1>1, <1>2 DEF IInv, Steps, Proc, InitSteps, UninitSteps, Resting
<1>5. Kept'
  BY <1>1, <1>2, NoSetupSound DEF IInv, Steps, Kept, HeldIs, Proc, UserSettingsKept, InitSteps, UninitSteps, Resting
<1>6. Known'
  BY <1>1, <1>2 DEF IInv, Steps, Known, Coming, Proc, InitSteps, UninitSteps, Resting, NoManifest
<1>7. Named'
  BY <1>1, <1>2 DEF IInv, Steps, Named, Coming, Proc, Live, InitSteps, Resting
<1> QED BY <1>3, <1>4, <1>5, <1>6, <1>7 DEF IInv

\* A command dies: what an init had only in memory is lost, and that is remembered.
LEMMA DieStep ==
    ASSUME IInv, Die
    PROVE  IInv'
<1>1. /\ ~Resting
      /\ Proc("idle", "none", 0, NoManifest, NoSetup, FALSE, TRUE)
  BY EmptyInstances DEF IInv, TypeOK, Die, Proc, Process, Idle, Resting
<1>2. /\ UNCHANGED <<rule, block, adr, context, ignored, settings, manifest, registered, setup,
                     constraints, decisions, typed, repaired, overran>>
      /\ died' = (died \/ (proc.cmd = "init" /\ proc.wrote))
      /\ forgot' = (forgot \/ (proc.cmd = "init" /\ proc.wrote))
      /\ held' = NotHeld
  BY DEF Die
<1>3. TypeOK'
  BY <1>1, <1>2, EmptyInstances DEF IInv, TypeOK, Proc, Linked, NoManifest, NoImport, Resting, NotHeld
<1>4. Steps'
  BY <1>1, <1>2 DEF IInv, Steps, Proc, InitSteps, UninitSteps, Resting
<1>5. Kept'
  BY <1>1, <1>2, NoSetupSound DEF IInv, Steps, Kept, HeldIs, Proc, UserSettingsKept, InitSteps, UninitSteps, Resting
<1>6. Known'
  BY <1>1, <1>2 DEF IInv, Steps, Known, Coming, Proc, InitSteps, UninitSteps, Resting, NoManifest
<1>7. Named'
  BY <1>1, <1>2 DEF IInv, Steps, Named, Coming, Proc, Live, InitSteps, Resting
<1> QED BY <1>3, <1>4, <1>5, <1>6, <1>7 DEF IInv

\* A step of setup or uninstall leaves the ledger and the repository alone.
LEMMA SettingsStep ==
    ASSUME IInv, NEW pc \in Pcs, proc'.pc = pc, proc'.m = proc.m, proc'.cmd = proc.cmd,
           \/ proc.pc \in {"merge", "approve", "write"} /\ pc \in {"approve", "write", "saveSetup"}
           \/ proc.pc \in {"settings", "restore"} /\ pc \in {"restore", "unsetup"},
           UNCHANGED <<rule, block, adr, context, ignored, manifest, registered, setup, constraints,
                       decisions, typed, died, forgot>>
    PROVE  Steps' /\ Known' /\ Named'
<1>1. Steps'
  BY DEF IInv, Steps, InitSteps, UninitSteps
<1>2. Known'
  BY DEF IInv, Known, Coming, InitSteps
<1>3. Named'
  BY DEF IInv, Named, Coming, Live, InitSteps
<1> QED BY <1>1, <1>2, <1>3

\* What setup makes of a file, and uninstall of its handlers.
LEMMA Handlers ==
    ASSUME NEW s \in Settings
    PROVE  /\ Merged(s) \in Settings /\ Merged(s).exists /\ Merged(s).other = s.other
           /\ RemoveHooks(s) \in Settings /\ RemoveHooks(s).exists = s.exists
           /\ RemoveHooks(s).other = s.other /\ RemoveHooks(s).ours = {}
BY DEF Merged, RemoveHooks, Settings

\* setup reads settings.json.
LEMMA MergeHooksStep ==
    ASSUME IInv, MergeHooks
    PROVE  IInv'
<1>1. /\ proc.pc = "merge" /\ proc \in Process /\ settings \in Settings
      /\ UNCHANGED <<rule, block, adr, context, ignored, settings, manifest, registered, setup, constraints,
                     decisions, typed, died, forgot, repaired, overran>>
  BY DEF IInv, TypeOK, MergeHooks
<1>2. PICK pc \in {"approve", "saveSetup"} :
        /\ Proc(pc, proc.cmd, proc.id, proc.m, proc.s, proc.wrote, proc.calm)
        /\ pc = "saveSetup" => held' = held
        /\ pc = "approve" => held' = [late |-> FALSE, s |-> settings]
  <2>1. CASE settings.ours = Event
    BY <1>1, <2>1, AtProc DEF MergeHooks, Pcs
  <2>2. CASE settings.ours # Event
    BY <1>1, <2>2, AtProc DEF MergeHooks, Pcs
  <2> QED BY <2>1, <2>2
<1>3. TypeOK'
  <2>1. held' \in [late : BOOLEAN, s : Settings]
    <3>1. held \in [late : BOOLEAN, s : Settings]
      BY DEF IInv, TypeOK
    <3>2. [late |-> FALSE, s |-> settings] \in [late : BOOLEAN, s : Settings]
      BY <1>1
    <3>3. held' = held \/ held' = [late |-> FALSE, s |-> settings]
      BY <1>2
    <3> QED BY <3>1, <3>2, <3>3
  <2> QED BY <1>1, <1>2, <2>1 DEF IInv, TypeOK, Proc
<1>4. Kept'
  <2>1. pc = "approve" => HeldIs'
    BY <1>1, <1>2 DEF HeldIs, IInv, Kept
  <2> QED BY <1>1, <1>2, <2>1 DEF IInv, Kept, Proc, UserSettingsKept
<1>5. Steps' /\ Known' /\ Named'
  BY <1>1, <1>2, SettingsStep DEF Proc, Pcs
<1> QED BY <1>3, <1>4, <1>5 DEF IInv

\* The person declines, and nothing is written.
LEMMA DeclineStep ==
    ASSUME IInv, Decline
    PROVE  IInv'
<1>1. /\ proc.pc = "approve" /\ proc \in Process /\ held' = NotHeld
      /\ Proc("saveSetup", proc.cmd, proc.id, proc.m, proc.s, proc.wrote, proc.calm)
      /\ UNCHANGED <<rule, block, adr, context, ignored, settings, manifest, registered, setup, constraints,
                     decisions, typed, died, forgot, repaired, overran>>
  BY AtProc DEF IInv, TypeOK, Decline, Pcs
<1>2. TypeOK'
  BY <1>1, EmptyInstances DEF IInv, TypeOK, Proc, NotHeld
<1>3. Kept'
  BY <1>1 DEF IInv, Kept, Proc, UserSettingsKept
<1>4. Steps' /\ Known' /\ Named'
  BY <1>1, SettingsStep DEF Proc, Pcs
<1> QED BY <1>2, <1>3, <1>4 DEF IInv

\* The copy is of the file as it is, what is remembered of the file as it was.
LEMMA BackupSettingsStep ==
    ASSUME IInv, BackupSettings
    PROVE  IInv'
<1>1. /\ proc.pc = "approve" /\ proc \in Process /\ settings \in Settings /\ held.s \in Settings
      /\ UNCHANGED <<rule, block, adr, context, ignored, settings, manifest, registered, setup, constraints,
                     decisions, typed, died, forgot, repaired, overran, held>>
      /\ HeldIs
  BY DEF IInv, TypeOK, BackupSettings, Kept
<1>2. PICK s : s = [installed |-> TRUE, existed |-> held.s.exists, backup |-> settings, written |-> Merged(held.s)]
  OBVIOUS
<1>3. /\ Merged(held.s) \in Settings /\ Merged(held.s).other = held.s.other
      /\ held.s.exists \in BOOLEAN
  BY <1>1, Handlers DEF Settings
<1>4. s \in Setup
  BY <1>1, <1>2, <1>3 DEF Setup
<1>5. Proc("write", proc.cmd, proc.id, proc.m, s, proc.wrote, proc.calm)
  <2>1. proc' = [proc EXCEPT !.pc = "write", !.s = s]
    BY <1>2 DEF BackupSettings
  <2> QED BY <1>1, <1>4, <2>1 DEF Proc, Process
<1>6. TypeOK'
  BY <1>1, <1>5 DEF IInv, TypeOK, Proc
<1>7. Kept'
  <2>1. Sound(s, repaired \/ held.s.ours # {}, overran \/ held.late)
    <3>1. s.existed = held.s.exists /\ s.backup = settings /\ s.written = Merged(held.s)
      BY <1>2
    <3>2. s.existed => s.backup.exists
      BY <1>1, <3>1 DEF HeldIs
    <3>3. ~held.late => s.backup.other = s.written.other /\ (~s.existed => s.backup = NoSettings)
      BY <1>1, <1>3, <3>1 DEF HeldIs
    <3>4. ~(held.s.ours # {}) => s.backup.ours = {}
      BY <1>1, <3>1 DEF HeldIs
    <3> QED BY <3>2, <3>3, <3>4 DEF Sound
  <2>2. HeldIs'
    BY <1>1 DEF HeldIs
  <2> QED BY <1>1, <1>5, <2>1, <2>2 DEF IInv, Kept, Proc, UserSettingsKept
<1>8. Steps' /\ Known' /\ Named'
  BY <1>1, <1>5, SettingsStep DEF Proc, Pcs
<1> QED BY <1>6, <1>7, <1>8 DEF IInv

\* setup writes what it read, with the handlers: an edit since is overrun.
LEMMA WriteHooksStep ==
    ASSUME IInv, WriteHooks
    PROVE  IInv'
<1>1. /\ proc.pc = "write" /\ proc \in Process /\ held.s \in Settings
      /\ settings' = Merged(held.s) /\ held' = NotHeld
      /\ repaired' = (repaired \/ held.s.ours # {}) /\ overran' = (overran \/ held.late)
      /\ Proc("saveSetup", proc.cmd, proc.id, proc.m, proc.s, proc.wrote, proc.calm)
      /\ UNCHANGED <<rule, block, adr, context, ignored, manifest, registered, setup, constraints,
                     decisions, typed, died, forgot>>
  BY AtProc DEF IInv, TypeOK, WriteHooks, Pcs
<1>2. settings' \in Settings /\ settings'.exists /\ settings'.other = held.s.other
  BY <1>1, Handlers
<1>3. TypeOK'
  BY <1>1, <1>2, EmptyInstances DEF IInv, TypeOK, Proc, NotHeld
<1>4. Kept'
  <2>1. Sound(setup', repaired', overran') /\ Sound(proc'.s, repaired', overran')
    <3>1. Sound(setup, repaired, overran) /\ Sound(proc.s, repaired', overran')
      BY <1>1 DEF IInv, Kept
    <3> QED BY <1>1, <3>1 DEF Sound, Proc
  <2>2. ~overran' => settings'.other = typed'
    <3>1. ~held.late => settings = held.s
      BY <1>1 DEF IInv, Kept, HeldIs
    <3>2. ~overran => settings.other = typed
      BY DEF IInv, Kept, UserSettingsKept
    <3> QED BY <1>1, <1>2, <3>1, <3>2
  <2>3. proc'.pc = "saveSetup"
    BY <1>1 DEF Proc
  <2> QED BY <1>2, <2>1, <2>2, <2>3 DEF Kept, UserSettingsKept
<1>5. Steps' /\ Known' /\ Named'
  BY <1>1, SettingsStep DEF Proc, Pcs
<1> QED BY <1>3, <1>4, <1>5 DEF IInv

\* What uninstall makes of a file by what setup.json says of it.
LEMMA RestoredIs ==
    ASSUME IInv, NEW s \in Settings, ~s.exists => s = NoSettings
    PROVE  /\ Restored(s) \in Settings
           /\ ~Restored(s).exists => Restored(s) = NoSettings
           /\ ~repaired => Restored(s).ours = {}
           /\ ~overran => Restored(s).other = s.other
<1>1. /\ setup \in Setup /\ setup.backup \in Settings /\ setup.existed \in BOOLEAN
      /\ Sound(setup, repaired, overran)
  BY DEF IInv, TypeOK, Kept, Setup
<1>2. CASE setup.installed /\ s = setup.written /\ setup.existed
  <2>1. Restored(s) = setup.backup
    BY <1>2 DEF Restored
  <2> QED BY <1>1, <1>2, <2>1 DEF Sound
<1>3. CASE setup.installed /\ s = setup.written /\ ~setup.existed
  <2>1. Restored(s) = NoSettings
    BY <1>3 DEF Restored
  <2> QED BY <1>1, <1>3, <2>1, EmptyInstances DEF Sound, NoSettings
<1>4. CASE ~(setup.installed /\ s = setup.written)
  <2>1. Restored(s) = RemoveHooks(s)
    BY <1>4 DEF Restored
  <2>2. s = NoSettings => RemoveHooks(s) = NoSettings
    <3>1. RemoveHooks(NoSettings) \in Settings /\ NoSettings \in Settings
      BY Handlers, EmptyInstances
    <3>2. /\ RemoveHooks(NoSettings).exists = NoSettings.exists /\ RemoveHooks(NoSettings).ours = NoSettings.ours
          /\ RemoveHooks(NoSettings).other = NoSettings.other
      BY Handlers, EmptyInstances DEF NoSettings
    <3> QED BY <3>1, <3>2 DEF Settings
  <2> QED BY <2>1, <2>2, Handlers
<1> QED BY <1>1, <1>2, <1>3, <1>4

\* uninstall reads settings.json; what it would leave as it is has no handlers.
LEMMA ReadSettingsStep ==
    ASSUME IInv, ReadSettings
    PROVE  IInv'
<1>1. /\ proc.pc = "settings" /\ proc \in Process /\ settings \in Settings
      /\ UNCHANGED <<rule, block, adr, context, ignored, settings, manifest, registered, setup, constraints,
                     decisions, typed, died, forgot, repaired, overran>>
      /\ ~settings.exists => settings = NoSettings
  BY DEF IInv, TypeOK, ReadSettings, Kept
<1>2. PICK pc \in {"restore", "unsetup"} :
        /\ Proc(pc, proc.cmd, proc.id, proc.m, proc.s, proc.wrote, proc.calm)
        /\ pc = "unsetup" => held' = held /\ (~settings.exists \/ Restored(settings) = settings)
        /\ pc = "restore" => held' = [late |-> FALSE, s |-> settings]
  <2>1. CASE settings.exists /\ Restored(settings) # settings
    BY <1>1, <2>1, AtProc DEF ReadSettings, Pcs
  <2>2. CASE ~(settings.exists /\ Restored(settings) # settings)
    BY <1>1, <2>2, AtProc DEF ReadSettings, Pcs
  <2> QED BY <2>1, <2>2
<1>3. TypeOK'
  <2>1. held' \in [late : BOOLEAN, s : Settings]
    <3>1. held \in [late : BOOLEAN, s : Settings]
      BY DEF IInv, TypeOK
    <3>2. [late |-> FALSE, s |-> settings] \in [late : BOOLEAN, s : Settings]
      BY <1>1
    <3>3. held' = held \/ held' = [late |-> FALSE, s |-> settings]
      BY <1>2
    <3> QED BY <3>1, <3>2, <3>3
  <2> QED BY <1>1, <1>2, <2>1 DEF IInv, TypeOK, Proc
<1>4. Kept'
  <2>1. pc = "restore" => HeldIs'
    BY <1>1, <1>2 DEF HeldIs, IInv, Kept
  <2>2. pc = "unsetup" /\ ~repaired => settings.ours = {}
    <3>1. ~repaired => Restored(settings).ours = {}
      BY <1>1, RestoredIs
    <3>2. NoSettings.ours = {}
      BY DEF NoSettings
    <3> QED BY <1>1, <1>2, <3>1, <3>2
  <2> QED BY <1>1, <1>2, <2>1, <2>2 DEF IInv, Kept, Proc, UserSettingsKept
<1>5. Steps' /\ Known' /\ Named'
  BY <1>1, <1>2, SettingsStep DEF Proc, Pcs
<1> QED BY <1>3, <1>4, <1>5 DEF IInv

\* uninstall restores the copy over the file setup wrote, or takes the handlers out.
LEMMA RestoreSettingsStep ==
    ASSUME IInv, RestoreSettings
    PROVE  IInv'
<1>1. /\ proc.pc = "restore" /\ proc \in Process /\ held.s \in Settings /\ HeldIs
      /\ settings' = Restored(held.s) /\ held' = NotHeld /\ overran' = (overran \/ held.late)
      /\ Proc("unsetup", proc.cmd, proc.id, proc.m, proc.s, proc.wrote, proc.calm)
      /\ UNCHANGED <<rule, block, adr, context, ignored, manifest, registered, setup, constraints,
                     decisions, typed, died, forgot, repaired>>
  BY AtProc DEF IInv, TypeOK, RestoreSettings, Pcs, Kept
<1>2. /\ settings' \in Settings
      /\ ~settings'.exists => settings' = NoSettings
      /\ ~repaired => settings'.ours = {}
      /\ ~overran => settings'.other = held.s.other
  BY <1>1, RestoredIs DEF HeldIs
<1>3. TypeOK'
  <2>1. held' \in [late : BOOLEAN, s : Settings] /\ overran' \in BOOLEAN
    BY <1>1, EmptyInstances DEF IInv, TypeOK, NotHeld
  <2> QED BY <1>1, <1>2, <2>1 DEF IInv, TypeOK, Proc
<1>4. Kept'
  <2>1. Sound(setup', repaired', overran') /\ Sound(proc'.s, repaired', overran')
    <3>1. Sound(setup, repaired, overran) /\ Sound(proc.s, repaired, overran)
      BY <1>1 DEF IInv, Kept
    <3> QED BY <1>1, <3>1 DEF Sound, Proc
  <2>2. ~overran' => settings'.other = typed'
    BY <1>1, <1>2 DEF HeldIs, IInv, Kept, UserSettingsKept
  <2>3. proc'.pc = "unsetup" /\ (~repaired' => ~repaired)
    BY <1>1 DEF Proc
  <2>4. /\ ~settings'.exists => settings' = NoSettings
        /\ ~repaired' => settings'.ours = {}
    BY <1>2, <2>3
  <2> QED BY <2>1, <2>2, <2>3, <2>4 DEF Kept, UserSettingsKept
<1>5. Steps' /\ Known' /\ Named'
  BY <1>1, SettingsStep DEF Proc, Pcs
<1> QED BY <1>3, <1>4, <1>5 DEF IInv

\* A new text of the rule file becomes a new constraint, which init will name.
LEMMA AbsorbRuleStep ==
    ASSUME IInv, AbsorbRule
    PROVE  IInv'
<1>1. /\ proc.pc = "rule" /\ proc \in Process /\ constraints \in Seq(Object) /\ rule \in Text
      /\ UNCHANGED <<rule, block, adr, context, ignored, settings, manifest, registered, setup,
                     decisions, typed, died, forgot, repaired, overran, held>>
  BY DEF IInv, TypeOK, AbsorbRule, Text
<1>2. CASE rule = Blank \/ RuleKnown
  <2>1. /\ Proc("adr", proc.cmd, proc.id, proc.m, proc.s, proc.wrote, proc.calm)
        /\ UNCHANGED constraints
    BY <1>1, <1>2, AtProc DEF AbsorbRule, Pcs, InitSteps
  <2>2. TypeOK'
    BY <1>1, <2>1 DEF IInv, TypeOK, Proc
  <2>3. Steps'
    BY <1>1, <2>1 DEF IInv, Steps, Proc, InitSteps, UninitSteps
  <2>4. Kept'
    BY <1>1, <2>1 DEF IInv, Kept, Proc, UserSettingsKept
  <2>5. Known'
    BY <1>1, <2>1 DEF IInv, Known, Coming, Proc, InitSteps
  <2>6. Named'
    BY <1>1, <2>1 DEF IInv, Named, Coming, Proc, Live, InitSteps
  <2> QED BY <2>2, <2>3, <2>4, <2>5, <2>6 DEF IInv
<1>3. CASE ~(rule = Blank \/ RuleKnown)
  <2>1. PICK o : o = [c |-> Drafted, text |-> rule]
    OBVIOUS
  <2>2. o \in Object /\ o.c.state = "generated"
    BY <1>1, <2>1, DraftedIs DEF Object
  <2>3. PICK pc \in {"verify", "supersede"} :
          /\ constraints' = Append(constraints, o)
          /\ proc' = [proc EXCEPT !.id = Len(constraints) + 1, !.wrote = TRUE, !.pc = pc]
    BY <1>3, <2>1 DEF AbsorbRule, Drafted
  <2>4. /\ constraints' \in Seq(Object) /\ Len(constraints') = Len(constraints) + 1 /\ Len(constraints) \in Nat
        /\ constraints'[Len(constraints) + 1].c.state = "generated"
        /\ \A i \in 1..Len(constraints) : constraints'[i] = constraints[i]
    BY <1>1, <2>2, <2>3
  <2>5. Proc(pc, proc.cmd, Len(constraints) + 1, proc.m, proc.s, TRUE, proc.calm)
    <3>1. PICK id \in Nat : id = Len(constraints) + 1
      BY <2>4
    <3>2. proc' = [proc EXCEPT !.id = id, !.wrote = TRUE, !.pc = pc]
      BY <2>3, <3>1
    <3>3. Proc(pc, proc.cmd, id, proc.m, proc.s, TRUE, proc.calm)
      BY <1>1, <3>2 DEF Proc, Process
    <3> QED BY <3>1, <3>3
  <2>6. TypeOK'
    <3>1. /\ Linked(manifest, Len(constraints), Len(decisions)) /\ manifest.rule.id \in Nat
          /\ Linked(proc.m, Len(constraints), Len(decisions)) /\ proc.m.rule.id \in Nat
      BY DEF IInv, TypeOK, Process, Manifest, Import
    <3>2. Linked(manifest, Len(constraints'), Len(decisions)) /\ Linked(proc.m, Len(constraints'), Len(decisions))
      BY <2>4, <3>1 DEF Linked
    <3> QED BY <1>1, <2>4, <2>5, <3>2 DEF IInv, TypeOK, Proc
  <2>7. Steps'
    BY <1>1, <2>4, <2>5 DEF IInv, Steps, Proc, InitSteps, UninitSteps
  <2>8. Kept'
    BY <1>1, <2>5 DEF IInv, Kept, Proc, UserSettingsKept
  <2>9. Known'
    BY <1>1, <2>5 DEF IInv, Known, Coming, Proc, InitSteps
  <2>10. Named'
    BY <1>1, <2>4, <2>5 DEF IInv, Named, Coming, Proc, Live, InitSteps
  <2> QED BY <2>6, <2>7, <2>8, <2>9, <2>10 DEF IInv
<1> QED BY <1>2, <1>3

\* The new constraint is verified.
LEMMA VerifyRuleStep ==
    ASSUME IInv, VerifyRule
    PROVE  IInv'
<1>1. /\ proc.pc = "verify" /\ constraints \in Seq(Object) /\ proc.id \in 1..Len(constraints)
      /\ Proc("supersede", proc.cmd, proc.id, proc.m, proc.s, proc.wrote, proc.calm)
      /\ UNCHANGED <<rule, block, adr, context, ignored, settings, manifest, registered, setup,
                     decisions, typed, died, forgot, repaired, overran, held>>
  BY AtProc DEF IInv, TypeOK, VerifyRule, Pcs, InitSteps
<1>2. PICK c : c = [constraints[proc.id].c EXCEPT !.state = "verified"]
  OBVIOUS
<1>3. constraints[proc.id].c \in Constraint(States) /\ constraints[proc.id].c.state = "generated"
  BY <1>1, Objects DEF IInv, Steps
<1>4. c \in Constraint(States) /\ constraints' = [constraints EXCEPT ![proc.id].c = c]
  BY <1>2, <1>3, VerifiedIs DEF VerifyRule, Constraint, States
<1>5. /\ constraints' \in Seq(Object) /\ Len(constraints') = Len(constraints)
      /\ \A i \in 1..Len(constraints) : i # proc.id => constraints'[i] = constraints[i]
  BY <1>1, <1>4, WithConstraint
<1>6. TypeOK'
  BY <1>1, <1>5 DEF IInv, TypeOK, Proc
<1>7. Steps'
  BY <1>1 DEF IInv, Steps, Proc, InitSteps, UninitSteps
<1>8. Kept'
  BY <1>1 DEF IInv, Kept, Proc, UserSettingsKept
<1>9. Known'
  BY <1>1 DEF IInv, Known, Coming, Proc, InitSteps
<1>10. Named'
  BY <1>1, <1>5 DEF IInv, Named, Coming, Proc, Live, InitSteps
<1> QED BY <1>6, <1>7, <1>8, <1>9, <1>10 DEF IInv

\* The constraint of the old text retires, and the manifest names the new one.
LEMMA SupersedeRuleStep ==
    ASSUME IInv, SupersedeRule
    PROVE  IInv'
<1>1. /\ proc.pc = "supersede" /\ constraints \in Seq(Object) /\ proc.id \in 1..Len(constraints)
      /\ proc \in Process /\ proc.m \in Manifest /\ proc.m.rule.id \in Nat
      /\ Linked(proc.m, Len(constraints), Len(decisions))
      /\ UNCHANGED <<rule, block, adr, context, ignored, settings, manifest, registered, setup,
                     decisions, typed, died, forgot, repaired, overran, held>>
  BY DEF IInv, TypeOK, SupersedeRule, Process, Manifest, Import
<1>2. RuleImport \in Import /\ RuleImport.id = proc.id
  <2>1. constraints[proc.id] \in Object
    BY <1>1
  <2>2. constraints[proc.id].text \in Text
    BY <2>1 DEF Object
  <2> QED BY <1>1, <2>2 DEF RuleImport, Import
<1>3. PICK m : m = [proc.m EXCEPT !.rule = RuleImport]
  OBVIOUS
<1>4. /\ m \in Manifest /\ m.rule.id = proc.id /\ m.adr = proc.m.adr
      /\ m.rendered = proc.m.rendered /\ m.ignored = proc.m.ignored
  BY <1>1, <1>2, <1>3 DEF Manifest
<1>5. Proc("adr", proc.cmd, proc.id, m, proc.s, proc.wrote, proc.calm)
  <2>1. proc' = [proc EXCEPT !.pc = "adr", !.m = m]
    BY <1>3 DEF SupersedeRule
  <2> QED BY <1>1, <1>4, <2>1 DEF Proc, Process
<1>6. /\ constraints' \in Seq(Object) /\ Len(constraints') = Len(constraints)
      /\ \A i \in 1..Len(constraints) :
           /\ Live(i)' => Live(i)
           /\ i = proc.m.rule.id /\ Live(i)' => i = proc.id
  <2> DEFINE old == proc.m.rule.id
             d == SupersedeDecide(constraints[old].c, [id |-> old, by |-> proc.id])
  <2>1. CASE old = 0
    BY <1>1, <2>1 DEF SupersedeRule, Live
  <2>2. CASE old # 0
    <3>1. old \in 1..Len(constraints) /\ constraints[old].c \in Constraint(States) /\ proc.id \in Nat \ {0}
      BY <1>1, <2>2, Objects DEF IInv, Linked
    <3>a. /\ d.refused <=> constraints[old].c.state = "retired" \/ proc.id = old
          /\ ~d.refused => ConstraintApply(constraints[old].c, d.evs[1])
                             = [constraints[old].c EXCEPT !.state = "retired", !.successor = proc.id]
      BY <1>1, <3>1, SupersededIs
    <3>2. CASE d.refused
      <4>1. constraints' = constraints
        BY <3>2 DEF SupersedeRule
      <4>2. constraints[old].c.state = "retired" \/ proc.id = old
        BY <3>a, <3>2
      <4> QED BY <1>1, <4>1, <4>2 DEF Live
    <3>3. CASE ~d.refused
      <4>1. PICK c : c = [constraints[old].c EXCEPT !.state = "retired", !.successor = proc.id]
        OBVIOUS
      <4>2. c \in Constraint(States) /\ c.state = "retired"
        BY <3>1, <4>1 DEF Constraint, States
      <4>3. constraints' = [constraints EXCEPT ![old].c = c]
        BY <2>2, <3>a, <3>3, <4>1 DEF SupersedeRule
      <4> QED BY <1>1, <3>1, <4>2, <4>3, WithConstraint DEF Live
    <3> QED BY <3>2, <3>3
  <2> QED BY <2>1, <2>2
<1>7. TypeOK'
  <2>1. Linked(m, Len(constraints), Len(decisions))
    BY <1>1, <1>4 DEF Linked
  <2> QED BY <1>1, <1>5, <1>6, <2>1 DEF IInv, TypeOK, Proc
<1>8. Steps'
  BY <1>1, <1>5 DEF IInv, Steps, Proc, InitSteps, UninitSteps
<1>9. Kept'
  BY <1>1, <1>5 DEF IInv, Kept, Proc, UserSettingsKept
<1>10. Known'
  BY <1>1, <1>4, <1>5 DEF IInv, Known, Coming, Proc, InitSteps
<1>11. Named'
  BY <1>1, <1>4, <1>5, <1>6 DEF IInv, Named, Coming, Proc, InitSteps
<1> QED BY <1>7, <1>8, <1>9, <1>10, <1>11 DEF IInv

-----------------------------------------------------------------------------
\* A decision to write one event.
LEMMA Emitted ==
    ASSUME NEW e
    PROVE  ~Emit(<<e>>).refused /\ Emit(<<e>>).evs # << >> /\ Emit(<<e>>).evs[1] = e
BY DEF Emit

\* What the commands of init make of a decision: it stays one that is drafted or
\* verified, with the text of the command.
LEMMA DecisionDrafted ==
    ASSUME NEW t \in Text, NEW d,
           d = DecisionDecide(NoDecision, [cmd |-> "Draft", text |-> t, wellFormed |-> TRUE], Human)
    PROVE  ~d.refused /\ d.evs # << >> /\ DecisionApply(NoDecision, d.evs[1]) \in Decision
<1>1. PICK e : e = [kind |-> "Drafted", text |-> t] OBVIOUS
<1>2. d = Emit(<<e>>)
  BY <1>1 DEF DecisionDecide, NoDecision
<1>3. e.kind = "Drafted" /\ e.text = t BY <1>1
<1>4. DecisionApply(NoDecision, e) = [NoDecision EXCEPT !.state = "generated", !.text = t]
  BY <1>3 DEF DecisionApply
<1>5. [NoDecision EXCEPT !.state = "generated", !.text = t] \in Decision
  BY DEF NoDecision, Decision
<1>6. ~d.refused /\ d.evs # << >> /\ d.evs[1] = e
  BY <1>2, Emitted
<1> QED BY <1>4, <1>5, <1>6

\* A revision that writes leaves the decision drafted.
LEMMA DecisionRevised ==
    ASSUME NEW t \in Text, NEW o \in Decision, NEW d,
           d = DecisionDecide(o, [cmd |-> "Revise", text |-> t, wellFormed |-> TRUE], Human),
           ~d.refused, d.evs # << >>
    PROVE  DecisionApply(o, d.evs[1]) \in Decision
<1>1. PICK e : e = [kind |-> "Revised", text |-> t] OBVIOUS
<1>2. o.state \in {"generated", "verified"} BY DEF Decision
<1>3. d = Emit(<< >>) \/ d = Emit(<<e>>)
  BY <1>1, <1>2 DEF DecisionDecide
<1>4. d.evs[1] = e BY <1>3 DEF Emit
<1>5. e.kind = "Revised" /\ e.text = t BY <1>1
<1>6. DecisionApply(o, e) = [o EXCEPT !.state = "generated", !.text = t]
  BY <1>5 DEF DecisionApply
<1> QED BY <1>4, <1>6 DEF Decision

\* A verification that is not refused leaves the decision verified.
LEMMA DecisionVerified ==
    ASSUME NEW o \in Decision, NEW d, d = DecisionDecide(o, [cmd |-> "Verify"], Human), ~d.refused
    PROVE  DecisionApply(o, d.evs[1]) \in Decision
<1>1. PICK e : e = [kind |-> "Verified"] OBVIOUS
<1>2. d = Reject \/ d = Emit(<<e>>)
  BY <1>1 DEF DecisionDecide
<1>3. d.evs[1] = e BY <1>2 DEF Emit, Reject
<1>4. e.kind = "Verified" BY <1>1
<1>5. DecisionApply(o, e) = [o EXCEPT !.state = "verified"]
  BY <1>4 DEF DecisionApply
<1> QED BY <1>3, <1>5 DEF Decision

\* A key of a decision was used on a decision of the ledger.
Keyed == \A i \in Nat, t \in Text : <<i, t>> \in keys => i <= Len(decisions)

\* absorbADR keeps the invariant: it revises the decision that the manifest names,
\* or drafts a new one, whose id no key was used with.
LEMMA AbsorbAdrStep ==
    ASSUME IInv, Keyed, AbsorbAdr
    PROVE  IInv' /\ Keyed'
<1>1. /\ proc.pc = "adr" /\ proc \in Process /\ decisions \in Seq(Decision) /\ adr \in Text
      /\ proc.m \in Manifest /\ proc.m.adr.id \in Nat /\ Len(decisions) \in Nat
      /\ Linked(proc.m, Len(constraints), Len(decisions)) /\ Linked(manifest, Len(constraints), Len(decisions))
      /\ manifest.adr.id \in Nat
      /\ UNCHANGED <<rule, block, adr, context, ignored, settings, manifest, registered, setup, constraints,
                     typed, died, forgot, repaired, overran, held>>
  <2>1. proc.pc = "adr" /\ UNCHANGED <<rule, block, adr, context, ignored, settings, manifest, registered,
                                        setup, constraints, typed, died, forgot, repaired, overran, held>>
    BY DEF AbsorbAdr
  <2>2. /\ proc \in Process /\ decisions \in Seq(Decision) /\ adr \in Text /\ manifest \in Manifest
        /\ Linked(proc.m, Len(constraints), Len(decisions)) /\ Linked(manifest, Len(constraints), Len(decisions))
    BY DEF IInv, TypeOK, Text
  <2>3. proc.m \in Manifest
    BY <2>2 DEF Process
  <2>4. proc.m.adr.id \in Nat /\ manifest.adr.id \in Nat
    BY <2>2, <2>3 DEF Manifest, Import
  <2>5. Len(decisions) \in Nat
    BY <2>2
  <2> QED BY <2>1, <2>2, <2>3, <2>4, <2>5
<1>2. CASE adr = Blank \/ proc.m.adr.hash = adr
  <2>1. /\ Proc("context", proc.cmd, proc.id, proc.m, proc.s, proc.wrote, proc.calm)
        /\ UNCHANGED <<decisions, keys>>
    BY <1>1, <1>2, AtProc DEF AbsorbAdr, Pcs, InitSteps
  <2>2. TypeOK'
    BY <1>1, <2>1 DEF IInv, TypeOK, Proc
  <2>3. Steps'
    BY <1>1, <2>1 DEF IInv, Steps, Proc, InitSteps, UninitSteps
  <2>4. Kept'
    BY <1>1, <2>1 DEF IInv, Kept, Proc, UserSettingsKept
  <2>5. Known'
    BY <1>1, <2>1 DEF IInv, Known, Coming, Proc, InitSteps
  <2>6. Named'
    BY <1>1, <2>1 DEF IInv, Named, Coming, Proc, Live, InitSteps
  <2>7. Keyed'
    BY <2>1 DEF Keyed
  <2> QED BY <2>2, <2>3, <2>4, <2>5, <2>6, <2>7 DEF IInv
<1>3. CASE ~(adr = Blank \/ proc.m.adr.hash = adr)
  <2> DEFINE had == proc.m.adr.id # 0
             id == IF had THEN proc.m.adr.id ELSE Len(decisions) + 1
             d == IF had THEN DecisionDecide(decisions[id], [cmd |-> "Revise", text |-> adr, wellFormed |-> TRUE], Human)
                  ELSE DecisionDecide(NoDecision, [cmd |-> "Draft", text |-> adr, wellFormed |-> TRUE], Human)
             writes == <<id, adr>> \notin keys /\ ~d.refused /\ d.evs # << >>
  <2>1. /\ decisions' = CASE ~writes -> decisions
                          [] writes /\ had -> [decisions EXCEPT ![id] = DecisionApply(@, d.evs[1])]
                          [] writes /\ ~had -> Append(decisions, DecisionApply(NoDecision, d.evs[1]))
        /\ keys' = IF writes THEN keys \union {<<id, adr>>} ELSE keys
    BY <1>3 DEF AbsorbAdr
  <2>2. PICK pc \in {"verifyAdr", "context"} :
          proc' = [proc EXCEPT !.id = id, !.wrote = TRUE, !.m.adr = [id |-> id, hash |-> adr], !.pc = pc]
    BY <1>3 DEF AbsorbAdr
  <2>3. id \in Nat \ {0}
    BY <1>1
  <2>4. /\ decisions' \in Seq(Decision) /\ Len(decisions') >= Len(decisions) /\ id <= Len(decisions')
        /\ Len(decisions') \in Nat
    <3>1. CASE had
      <4>1. id \in 1..Len(decisions)
        BY <1>1, <3>1 DEF Linked
      <4>2. decisions[id] \in Decision
        BY <1>1, <4>1
      <4>3. writes => DecisionApply(decisions[id], d.evs[1]) \in Decision
        BY <1>1, <3>1, <4>2, DecisionRevised
      <4>4. decisions' = decisions \/
              \E x \in Decision : decisions' = [decisions EXCEPT ![id] = x]
        BY <2>1, <3>1, <4>3
      <4> QED BY <1>1, <4>1, <4>4
    <3>2. CASE ~had
      <4>1. id = Len(decisions) + 1
        BY <3>2
      <4>2. <<id, adr>> \notin keys
        BY <1>1, <2>3, <4>1 DEF Keyed
      <4>3. ~d.refused /\ d.evs # << >> /\ DecisionApply(NoDecision, d.evs[1]) \in Decision
        BY <1>1, <3>2, DecisionDrafted
      <4>4. \E x \in Decision : decisions' = Append(decisions, x)
        BY <2>1, <3>2, <4>2, <4>3
      <4> QED BY <1>1, <4>1, <4>4
    <3> QED BY <3>1, <3>2
  <2> HIDE DEF had, id, d, writes
  <2>5. PICK m : m = [proc.m EXCEPT !.adr = [id |-> id, hash |-> adr]]
    OBVIOUS
  <2>6. /\ m \in Manifest /\ m.rule = proc.m.rule /\ m.adr.id = id
        /\ m.rendered = proc.m.rendered /\ m.ignored = proc.m.ignored
    BY <1>1, <2>3, <2>5 DEF Manifest, Import
  <2>7. Proc(pc, proc.cmd, id, m, proc.s, TRUE, proc.calm)
    <3>1. proc' = [proc EXCEPT !.id = id, !.wrote = TRUE, !.m = m, !.pc = pc]
      BY <2>2, <2>5
    <3> QED BY <1>1, <2>3, <2>6, <3>1 DEF Proc, Process
  <2>8. TypeOK'
    <3>1. Linked(manifest, Len(constraints), Len(decisions')) /\ Linked(m, Len(constraints), Len(decisions'))
      BY <1>1, <2>4, <2>6 DEF Linked
    <3> QED BY <1>1, <2>3, <2>4, <2>7, <3>1 DEF IInv, TypeOK, Proc
  <2>9. Steps'
    BY <1>1, <2>7 DEF IInv, Steps, Proc, InitSteps, UninitSteps
  <2>10. Kept'
    BY <1>1, <2>7 DEF IInv, Kept, Proc, UserSettingsKept
  <2>11. Known'
    BY <1>1, <2>6, <2>7 DEF IInv, Known, Coming, Proc, InitSteps
  <2>12. Named'
    BY <1>1, <2>6, <2>7 DEF IInv, Named, Coming, Proc, Live, InitSteps
  <2>13. Keyed'
    <3> SUFFICES ASSUME NEW i \in Nat, NEW t \in Text, <<i, t>> \in keys'
                 PROVE  i <= Len(decisions')
      BY DEF Keyed
    <3>1. <<i, t>> \in keys \/ i = id
      BY <2>1
    <3> QED BY <1>1, <2>4, <3>1 DEF Keyed
  <2> QED BY <2>8, <2>9, <2>10, <2>11, <2>12, <2>13 DEF IInv
<1> QED BY <1>2, <1>3

\* The verification of the ADR keeps the invariant; where it is refused init ends
\* and the manifest in memory is lost.
LEMMA VerifyAdrStep ==
    ASSUME IInv, VerifyAdr
    PROVE  IInv' /\ Len(decisions') = Len(decisions)
<1>1. /\ proc.pc = "verifyAdr" /\ proc \in Process /\ decisions \in Seq(Decision)
      /\ proc.id \in 1..Len(decisions)
      /\ UNCHANGED <<rule, block, adr, context, ignored, settings, manifest, registered, setup, constraints,
                     keys, typed, repaired, overran, held>>
  BY DEF IInv, TypeOK, VerifyAdr
<1>2. decisions[proc.id] \in Decision
  BY <1>1
<1> DEFINE d == DecisionDecide(decisions[proc.id], [cmd |-> "Verify"], Human)
<1>3. CASE d.refused
  <2>1. /\ Proc("failed", "none", 0, NoManifest, NoSetup, FALSE, TRUE)
        /\ decisions' = decisions /\ died' = TRUE /\ forgot' = TRUE
    BY <1>3, EmptyInstances DEF VerifyAdr, Proc, Process, Idle
  <2>2. TypeOK'
    BY <1>1, <2>1, EmptyInstances DEF IInv, TypeOK, Proc, Linked, NoManifest, NoImport
  <2>3. Steps'
    BY <1>1, <2>1 DEF IInv, Steps, Proc, InitSteps, UninitSteps
  <2>4. Kept'
    BY <1>1, <2>1, NoSetupSound DEF IInv, Kept, Proc, UserSettingsKept
  <2>5. Known' /\ Named'
    BY <2>1 DEF Known, Named
  <2> QED BY <2>1, <2>2, <2>3, <2>4, <2>5 DEF IInv
<1>4. CASE ~d.refused
  <2>1. /\ Proc("context", proc.cmd, proc.id, proc.m, proc.s, proc.wrote, proc.calm)
        /\ decisions' = [decisions EXCEPT ![proc.id] = DecisionApply(decisions[proc.id], d.evs[1])]
        /\ UNCHANGED <<died, forgot>>
    BY <1>1, <1>4, AtProc DEF VerifyAdr, Pcs, InitSteps
  <2>2. DecisionApply(decisions[proc.id], d.evs[1]) \in Decision
    BY <1>2, <1>4, DecisionVerified
  <2>3. decisions' \in Seq(Decision) /\ Len(decisions') = Len(decisions)
    BY <1>1, <2>1, <2>2
  <2>4. TypeOK'
    BY <1>1, <2>1, <2>3 DEF IInv, TypeOK, Proc
  <2>5. Steps'
    BY <1>1, <2>1 DEF IInv, Steps, Proc, InitSteps, UninitSteps
  <2>6. Kept'
    BY <1>1, <2>1 DEF IInv, Kept, Proc, UserSettingsKept
  <2>7. Known'
    BY <1>1, <2>1 DEF IInv, Known, Coming, Proc, InitSteps
  <2>8. Named'
    BY <1>1, <2>1 DEF IInv, Named, Coming, Proc, Live, InitSteps
  <2> QED BY <2>3, <2>4, <2>5, <2>6, <2>7, <2>8 DEF IInv
<1> QED BY <1>3, <1>4

-----------------------------------------------------------------------------
\* The initial state: nothing is there but the files of the user.
LEMMA InitIInv == Init => IInv /\ Keyed
<1> SUFFICES ASSUME Init PROVE IInv /\ Keyed
  OBVIOUS
<1>1. /\ proc = Idle /\ proc.pc = "idle" /\ proc.m = NoManifest /\ proc.s = NoSetup
  BY DEF Init, Idle
<1>2. TypeOK
  <2>1. settings \in Settings /\ typed \in Other \union {NoText}
    <3>1. CASE settings = NoSettings
      BY <3>1, EmptyInstances DEF Init, NoSettings
    <3>2. CASE settings \in [exists : {TRUE}, ours : {{}}, other : Other]
      BY <3>2 DEF Init, Settings
    <3> QED BY <3>1, <3>2 DEF Init
  <2>2. NotRendered \in [exists : BOOLEAN, ids : SUBSET Nat]
    BY DEF NotRendered
  <2>3. Linked(NoManifest, 0, 0)
    BY DEF Linked, NoManifest, NoImport
  <2>4. /\ constraints \in Seq(Object) /\ decisions \in Seq(Decision)
        /\ Len(constraints) = 0 /\ Len(decisions) = 0
    BY DEF Init
  <2>5. /\ rule \in Rule \union {Blank} /\ adr \in Adr \union {Blank}
        /\ block \in {"none", "ours", "edited"} /\ ignored \in {"no", "ours", "user"}
        /\ context = NotRendered /\ manifest = NoManifest /\ setup = NoSetup
        /\ registered \in BOOLEAN /\ died \in BOOLEAN /\ forgot \in BOOLEAN /\ repaired \in BOOLEAN
        /\ overran \in BOOLEAN /\ held = NotHeld
    BY DEF Init
  <2>6. NotHeld \in [late : BOOLEAN, s : Settings]
    BY EmptyInstances DEF NotHeld
  <2> QED BY <1>1, <2>1, <2>2, <2>3, <2>4, <2>5, <2>6, EmptyInstances DEF TypeOK
<1>3. Steps
  BY <1>1 DEF Init, Steps, InitSteps, UninitSteps
<1>4. Kept
  BY <1>1, NoSetupSound DEF Init, Kept, UserSettingsKept, NoSettings
<1>5. Known
  BY <1>1 DEF Init, Known, NoManifest, NotRendered
<1>6. Named /\ Keyed
  BY DEF Init, Named, Keyed
<1> QED BY <1>2, <1>3, <1>4, <1>5, <1>6 DEF IInv

\* Every step keeps the invariant: one step of the proof for each action.
LEMMA NextIInv ==
    ASSUME IInv, Keyed, [Next]_vars
    PROVE  IInv' /\ Keyed'
<1>0. ASSUME UNCHANGED <<decisions, keys>>
      PROVE  Keyed'
  BY <1>0 DEF Keyed
<1>1. CASE \E t \in Rule \union {Blank} : EditRule(t)
  BY <1>0, <1>1, EditRuleStep DEF EditRule
<1>2. CASE EditBlock("edited") \/ EditBlock("none")
  BY <1>0, <1>2, EditBlockStep DEF EditBlock
<1>3. CASE \E t \in Adr \union {Blank} : EditAdr(t)
  BY <1>0, <1>3, EditAdrStep DEF EditAdr
<1>4. CASE \E o \in Other \union {NoText}, gone \in SUBSET Event : EditSettings(o, gone)
  BY <1>0, <1>4, EditSettingsStep DEF EditSettings
<1>5. CASE \E verify \in BOOLEAN : StartInit(verify)
  BY <1>0, <1>5, StartInitStep DEF StartInit
<1>6. CASE \E force \in BOOLEAN : RenderContext(force)
  BY <1>0, <1>6, RenderContextStep DEF RenderContext
<1>7. CASE AbsorbRule
  BY <1>0, <1>7, AbsorbRuleStep DEF AbsorbRule
<1>8. CASE VerifyRule
  BY <1>0, <1>8, VerifyRuleStep DEF VerifyRule
<1>9. CASE SupersedeRule
  BY <1>0, <1>9, SupersedeRuleStep DEF SupersedeRule
<1>10. CASE AbsorbAdr
  BY <1>10, AbsorbAdrStep
<1>11. CASE VerifyAdr
  BY <1>11, VerifyAdrStep DEF VerifyAdr, Keyed
<1>12. CASE RenderBlock
  BY <1>0, <1>12, RenderBlockStep DEF RenderBlock
<1>13. CASE Ignore
  BY <1>0, <1>13, IgnoreStep DEF Ignore
<1>14. CASE Save
  BY <1>0, <1>14, SaveStep DEF Save
<1>15. CASE Register
  BY <1>0, <1>15, RegisterStep DEF Register
<1>16. CASE StartUninit
  BY <1>0, <1>16, StartUninitStep DEF StartUninit
<1>17. CASE RemoveContext
  BY <1>0, <1>17, RemoveContextStep DEF RemoveContext
<1>18. CASE RemoveBlock
  BY <1>0, <1>18, RemoveBlockStep DEF RemoveBlock
<1>19. CASE Unignore
  BY <1>0, <1>19, UnignoreStep DEF Unignore
<1>20. CASE RemoveManifest
  BY <1>0, <1>20, RemoveManifestStep DEF RemoveManifest
<1>21. CASE Unregister
  BY <1>0, <1>21, UnregisterStep DEF Unregister
<1>22. CASE StartSetup
  BY <1>0, <1>22, StartSetupStep DEF StartSetup
<1>23. CASE MergeHooks
  BY <1>0, <1>23, MergeHooksStep DEF MergeHooks
<1>24. CASE SaveSetup
  BY <1>0, <1>24, SaveSetupStep DEF SaveSetup
<1>25. CASE StartUninstall
  BY <1>0, <1>25, StartUninstallStep DEF StartUninstall
<1>26. CASE RestoreSettings
  BY <1>0, <1>26, RestoreSettingsStep DEF RestoreSettings
<1>27. CASE RemoveSetup
  BY <1>0, <1>27, RemoveSetupStep DEF RemoveSetup
<1>28. CASE Die
  BY <1>0, <1>28, DieStep DEF Die
<1>29. CASE Decline
  BY <1>0, <1>29, DeclineStep DEF Decline
<1>30. CASE BackupSettings
  BY <1>0, <1>30, BackupSettingsStep DEF BackupSettings
<1>31. CASE WriteHooks
  BY <1>0, <1>31, WriteHooksStep DEF WriteHooks
<1>32. CASE ReadSettings
  BY <1>0, <1>32, ReadSettingsStep DEF ReadSettings
<1>33. CASE UNCHANGED vars
  BY <1>0, <1>33 DEF IInv, TypeOK, Steps, Kept, HeldIs, Known, Named, Coming, Live, UserSettingsKept
<1> QED
  BY <1>1, <1>2, <1>3, <1>4, <1>5, <1>6, <1>7, <1>8, <1>9, <1>10, <1>11,
     <1>12, <1>13, <1>14, <1>15, <1>16, <1>17, <1>18, <1>19, <1>20, <1>21,
     <1>22, <1>23, <1>24, <1>25, <1>26, <1>27, <1>28, <1>29, <1>30, <1>31, <1>32, <1>33
  DEF Next

\* The invariant: what the files, the manifest, setup.json and the ledger have to
\* do with one another at every step of init, uninit, setup and uninstall.
THEOREM SidecarInvariant == Spec => [](IInv /\ Keyed)
<1>1. Init => IInv /\ Keyed
  BY InitIInv
<1>2. (IInv /\ Keyed) /\ [Next]_vars => (IInv /\ Keyed)'
  BY NextIInv
<1> QED BY <1>1, <1>2, PTL DEF Spec

\* The types; the manifest, on disk and in memory, names objects of the ledger,
\* although init dies between its writes and the ledger is not undone.
THEOREM SidecarTypeOK == Spec => []TypeOK
<1>1. IInv /\ Keyed => TypeOK
  BY DEF IInv
<1> QED BY <1>1, SidecarInvariant, PTL

\* What the user has in settings.json is never lost, for any number of setups,
\* refused prompts, uninstalls, deaths and edits, as long as no command has written
\* over an edit that was made since it read the file (MergeHooks, the copy,
\* uninstallSettings).  There is no such promise for an edit while the prompt
\* waits: setup writes what it read.
THEOREM SidecarUserSettings == Spec => []UserSettingsKept
<1>1. IInv /\ Keyed => UserSettingsKept
  BY DEF IInv, Kept
<1> QED BY <1>1, SidecarInvariant, PTL

\* A rule file speaks with one voice while no manifest was lost: at rest only the
\* constraint of its last import is live (absorbRule).
THEOREM SidecarOneLiveRule == Spec => []OneLiveRule
<1>1. IInv /\ Keyed => OneLiveRule
  <2> SUFFICES ASSUME Named, Resting, ~forgot
               PROVE  \A i \in 1..Len(constraints) : Live(i) => i = manifest.rule.id
    BY DEF IInv, OneLiveRule
  <2>1. Coming = manifest /\ proc.pc \notin {"verify", "supersede"}
    BY DEF Coming, Resting, InitSteps
  <2> QED BY <2>1 DEF Named
<1> QED BY <1>1, SidecarInvariant, PTL

\* Uninstall leaves nothing of keelage behind, in the repository unless an init
\* died in it, in the settings unless setup repaired them (uninstall, uninitRepo).
THEOREM SidecarUninstallUndoes == Spec => []UninstallUndoes
<1>1. IInv /\ Keyed => UninstallUndoes
  <2> SUFFICES ASSUME IInv, proc.pc = "done", proc.cmd = "uninstall", proc.calm
               PROVE  /\ ~died => block = "none" /\ ~context.exists /\ ~manifest.exists /\ ignored # "ours"
                      /\ ~repaired => settings.ours = {}
    BY DEF UninstallUndoes
  <2>1. ~repaired => settings.ours = {}
    BY DEF IInv, Kept
  <2>2. ASSUME ~died
        PROVE  block = "none" /\ ~context.exists /\ ~manifest.exists /\ ignored # "ours"
    <3>1. ~manifest.exists /\ manifest = NoManifest /\ Coming = manifest
      BY <2>2 DEF IInv, Known, Steps, Coming, InitSteps
    <3>2. Coming.rendered = {} /\ ~Coming.ignored
      BY <3>1 DEF NoManifest
    <3> QED BY <2>2, <3>1, <3>2 DEF IInv, Known
  <2> QED BY <2>1, <2>2
<1> QED BY <1>1, SidecarInvariant, PTL

-----------------------------------------------------------------------------
(* What an init that was not disturbed leaves in the manifest. *)

AfterAdr == {"verifyAdr", "context", "block", "ignore", "save", "register"}
AfterRule == AfterAdr \union {"adr"}

\* The objects that a manifest names have the texts it has the hashes of; a
\* decision may have gone on, by a revision that replaced the text.
Imported(m, cs, ds, ps) ==
    /\ m.rule.hash = IF m.rule.id = 0 THEN NoText ELSE cs[m.rule.id].text
    /\ IF m.adr.id = 0 THEN m.adr.hash = NoText
       ELSE m.adr.hash = ds[m.adr.id].text \/ m.adr.hash \in ps

Manifests ==
    Imported(manifest, constraints, decisions, past) /\ Imported(proc.m, constraints, decisions, past)

\* A key that is used is of the text of the decision, or of one it had before.
Replayed ==
    \A i \in 1..Len(decisions), t \in Text :
        <<i, t>> \in keys => t = decisions[i].text \/ t \in past

\* As long as no init died, the constraint that the manifest names is live.
Voice ==
    /\ proc.pc \in {"verify", "supersede"} => Live(proc.id)
    /\ ~died /\ Coming.rule.id # 0 => Live(Coming.rule.id)

\* What init read is still in the files, as long as nobody edits them.
Read ==
    proc.calm =>
        /\ proc.pc \in {"verify", "supersede"} => constraints[proc.id].text = rule
        /\ proc.pc \in AfterRule /\ rule # Blank => proc.m.rule.hash = rule
        /\ proc.pc \in AfterAdr /\ adr # Blank => proc.m.adr.hash = adr
        /\ proc.pc = "done" /\ proc.cmd = "init" =>
             (rule # Blank => manifest.rule.hash = rule) /\ (adr # Blank => manifest.adr.hash = adr)

Imports == Manifests /\ Replayed /\ Voice /\ Read

\* Two manifests with the same imports.
Same(m, n) == m.rule = n.rule /\ m.adr = n.adr

\* A step that writes nothing to the ledger and leaves the imports of each manifest
\* alone, takes them over from the other one, or forgets them.
Quiet ==
    /\ UNCHANGED <<constraints, decisions, keys, past>>
    /\ died' \in BOOLEAN /\ (died => died')
    /\ Same(proc'.m, proc.m) \/ Same(proc'.m, manifest) \/ Same(proc'.m, NoManifest)
    /\ Same(manifest', manifest) \/ Same(manifest', proc.m) \/ Same(manifest', NoManifest)
    /\ ~died' => Coming'.rule = Coming.rule \/ Coming'.rule = NoImport
    /\ proc'.pc \in {"verify", "supersede"} => proc.pc \in {"verify", "supersede"} /\ proc'.id = proc.id

\* The imports of a manifest are all that counts.
LEMMA SameImported ==
    ASSUME NEW m, NEW n, Same(n, m), NEW cs, NEW ds, NEW ps, Imported(m, cs, ds, ps)
    PROVE  Imported(n, cs, ds, ps)
BY DEF Same, Imported

\* No manifest names nothing.
LEMMA NoneImported == \A cs, ds, ps : Imported(NoManifest, cs, ds, ps)
BY DEF Imported, NoManifest, NoImport

\* Such a step keeps what is true of the manifests and the ledger.
LEMMA QuietStep ==
    ASSUME Manifests, Replayed, Voice, Quiet
    PROVE  Manifests' /\ Replayed' /\ Voice'
<1>1. Imported(manifest', constraints, decisions, past)
  BY SameImported, NoneImported DEF Quiet, Manifests
<1>2. Imported(proc'.m, constraints, decisions, past)
  BY SameImported, NoneImported DEF Quiet, Manifests
<1>3. Manifests'
  BY <1>1, <1>2 DEF Quiet, Manifests
<1>4. Replayed'
  BY DEF Quiet, Replayed
<1>5. Voice'
  <2>1. proc'.pc \in {"verify", "supersede"} => Live(proc.id)' 
    BY DEF Quiet, Voice, Live
  <2>2. ASSUME ~died', Coming'.rule.id # 0 PROVE Live(Coming.rule.id)'
    BY <2>2 DEF Quiet, Voice, Live, NoImport
  <2> QED BY DEF Quiet, Voice, Live, NoImport
<1> QED BY <1>3, <1>4, <1>5

\* An edit of the user disturbs what runs, and nothing else of this.
LEMMA EditImports ==
    ASSUME IInv, Imports, Edit, UNCHANGED <<constraints, decisions, keys, past, died, manifest>>
    PROVE  Imports'
<1>1. \/ Resting /\ Proc("idle", "none", 0, NoManifest, NoSetup, FALSE, TRUE)
      \/ ~Resting /\ Proc(proc.pc, proc.cmd, proc.id, proc.m, proc.s, proc.wrote, FALSE)
  BY EditProc DEF IInv, TypeOK
<1>2. Quiet
  BY <1>1 DEF Quiet, Same, Coming, Proc, Resting, InitSteps, IInv, TypeOK
<1>3. Read'
  BY <1>1 DEF Read, Proc, AfterAdr, AfterRule
<1> QED BY <1>2, <1>3, QuietStep DEF Imports

\* A command starts.
LEMMA StartImports ==
    ASSUME IInv, Imports, Resting, UNCHANGED <<constraints, decisions, keys, past, died, manifest>>,
           proc'.m \in {manifest, NoManifest},
           proc'.pc \in {"rule", "uncontext", "unregister", "merge", "settings"}
    PROVE  Imports'
<1>1. Quiet
  <2>1. Coming = manifest /\ Coming' \in {manifest, NoManifest} /\ died \in BOOLEAN
    BY DEF Coming, Resting, InitSteps, IInv, TypeOK
  <2> QED BY <2>1 DEF Quiet, Same, NoManifest
<1>2. Read'
  BY DEF Read, AfterAdr, AfterRule
<1> QED BY <1>1, <1>2, QuietStep DEF Imports

\* uninit, setup and uninstall, and the death of any command, have no import to
\* make; an init that dies after a write is history.
LEMMA OtherImports ==
    ASSUME IInv, Imports, proc.pc \notin InitSteps \/ Die,
           \/ RemoveContext \/ RemoveBlock \/ Unignore \/ RemoveManifest \/ Unregister
           \/ MergeHooks \/ Decline \/ BackupSettings \/ WriteHooks \/ SaveSetup
           \/ ReadSettings \/ RestoreSettings \/ RemoveSetup \/ Die
    PROVE  Imports'
<1> USE DEF IInv, TypeOK
<1>1. CASE RemoveContext
  <2>1. Proc("unblock", proc.cmd, proc.id, proc.m, proc.s, proc.wrote, proc.calm)
    BY <1>1, AtProc DEF RemoveContext, Pcs, UninitSteps
  <2>2. Quiet
    BY <1>1, <2>1 DEF RemoveContext, Quiet, Same, Coming, Proc, InitSteps
  <2>3. Read' BY <2>1 DEF Read, Proc, AfterAdr, AfterRule
  <2> QED BY <2>2, <2>3, QuietStep DEF Imports
<1>2. CASE RemoveBlock
  <2>1. Proc("unignore", proc.cmd, proc.id, proc.m, proc.s, proc.wrote, proc.calm)
    BY <1>2, AtProc DEF RemoveBlock, Pcs, UninitSteps
  <2>2. Quiet
    BY <1>2, <2>1 DEF RemoveBlock, Quiet, Same, Coming, Proc, InitSteps
  <2>3. Read' BY <2>1 DEF Read, Proc, AfterAdr, AfterRule
  <2> QED BY <2>2, <2>3, QuietStep DEF Imports
<1>3. CASE Unignore
  <2>1. Proc("unsave", proc.cmd, proc.id, proc.m, proc.s, proc.wrote, proc.calm)
    BY <1>3, AtProc DEF Unignore, Pcs, UninitSteps
  <2>2. Quiet
    BY <1>3, <2>1 DEF Unignore, Quiet, Same, Coming, Proc, InitSteps
  <2>3. Read' BY <2>1 DEF Read, Proc, AfterAdr, AfterRule
  <2> QED BY <2>2, <2>3, QuietStep DEF Imports
<1>4. CASE RemoveManifest
  <2>1. Proc("unregister", proc.cmd, proc.id, proc.m, proc.s, proc.wrote, proc.calm)
    BY <1>4, AtProc DEF RemoveManifest, Pcs, UninitSteps
  <2>2. Quiet
    BY <1>4, <2>1 DEF RemoveManifest, Quiet, Same, Coming, Proc, InitSteps, NoManifest
  <2>3. Read' BY <2>1 DEF Read, Proc, AfterAdr, AfterRule
  <2> QED BY <2>2, <2>3, QuietStep DEF Imports
<1>5. CASE Unregister
  <2>1. \/ Proc("settings", proc.cmd, proc.id, proc.m, proc.s, proc.wrote, proc.calm)
        \/ Proc("done", proc.cmd, 0, NoManifest, NoSetup, FALSE, proc.calm) /\ proc.cmd # "init"
    BY <1>5, AtProc, DoneProc DEF Unregister, Pcs, Steps
  <2>2. Quiet
    BY <1>5, <2>1 DEF Unregister, Quiet, Same, Coming, Proc, InitSteps
  <2>3. Read' BY <2>1 DEF Read, Proc, AfterAdr, AfterRule
  <2> QED BY <2>2, <2>3, QuietStep DEF Imports
<1>6. CASE MergeHooks \/ Decline \/ BackupSettings \/ WriteHooks \/ ReadSettings \/ RestoreSettings
  <2>1. /\ proc'.pc \in {"approve", "write", "saveSetup", "restore", "unsetup"} /\ proc'.m = proc.m
        /\ UNCHANGED <<constraints, decisions, keys, past, died, manifest>>
    BY <1>6 DEF MergeHooks, Decline, BackupSettings, WriteHooks, ReadSettings, RestoreSettings, At, Process
  <2>2. proc.pc \notin InitSteps
    BY <1>6 DEF MergeHooks, Decline, BackupSettings, WriteHooks, ReadSettings, RestoreSettings, InitSteps
  <2>3. Quiet
    BY <2>1, <2>2 DEF Quiet, Same, Coming, InitSteps
  <2>4. Read' BY <2>1 DEF Read, AfterAdr, AfterRule
  <2> QED BY <2>3, <2>4, QuietStep DEF Imports
<1>7. CASE SaveSetup
  <2>1. Proc("done", proc.cmd, 0, NoManifest, NoSetup, FALSE, proc.calm) /\ proc.cmd = "setup"
    BY <1>7, DoneProc DEF SaveSetup, Steps
  <2>2. Quiet
    BY <1>7, <2>1 DEF SaveSetup, Quiet, Same, Coming, Proc, InitSteps
  <2>3. Read' BY <2>1 DEF Read, Proc, AfterAdr, AfterRule
  <2> QED BY <2>2, <2>3, QuietStep DEF Imports
<1>8. CASE RemoveSetup
  <2>1. Proc("done", proc.cmd, 0, NoManifest, NoSetup, FALSE, proc.calm) /\ proc.cmd = "uninstall"
    BY <1>8, DoneProc DEF RemoveSetup, Steps
  <2>2. Quiet
    BY <1>8, <2>1 DEF RemoveSetup, Quiet, Same, Coming, Proc, InitSteps
  <2>3. Read' BY <2>1 DEF Read, Proc, AfterAdr, AfterRule
  <2> QED BY <2>2, <2>3, QuietStep DEF Imports
<1>9. CASE Die
  <2>1. proc'.pc = "idle" /\ proc'.m = NoManifest
    BY <1>9 DEF Die, Idle
  <2>2. Coming' = manifest
    BY <1>9, <2>1 DEF Die, Coming, InitSteps
  <2>3. ~died' => Coming = manifest
    BY <1>9 DEF Die, Coming, Steps
  <2>4. died' \in BOOLEAN /\ (died => died')
    BY <1>9 DEF Die
  <2>5. Quiet
    BY <1>9, <2>1, <2>2, <2>3, <2>4 DEF Die, Quiet, Same
  <2>6. Read' BY <2>1 DEF Read, AfterAdr, AfterRule
  <2> QED BY <2>5, <2>6, QuietStep DEF Imports
<1> QED BY <1>1, <1>2, <1>3, <1>4, <1>5, <1>6, <1>7, <1>8, <1>9

\* The steps of init after the imports take them to the manifest on disk.
LEMMA RenderImports ==
    ASSUME IInv, Imports,
           (\E force \in BOOLEAN : RenderContext(force)) \/ RenderBlock \/ Ignore \/ Save \/ Register
    PROVE  Imports'
<1>0. proc \in Process /\ proc.m \in Manifest /\ died \in BOOLEAN
  BY DEF IInv, TypeOK, Process
<1>1. CASE \E force \in BOOLEAN : RenderContext(force)
  <2>1. /\ proc.pc = "context" /\ proc'.pc = "block" /\ proc'.calm = proc.calm /\ Same(proc'.m, proc.m)
        /\ UNCHANGED <<rule, adr, manifest, constraints, decisions, keys, past, died>>
    <3>1. PICK m : m = [proc.m EXCEPT !.rendered = proc.m.rendered \union {"context"}]
      OBVIOUS
    <3>2. Same(m, proc.m)
      BY <1>0, <3>1 DEF Manifest, Same
    <3>3. PICK force \in BOOLEAN : RenderContext(force)
      BY <1>1
    <3>4. proc' = [proc EXCEPT !.pc = "block", !.force = force, !.wrote = TRUE, !.m = m]
      BY <3>1, <3>3 DEF RenderContext
    <3> QED BY <1>0, <3>2, <3>3, <3>4 DEF RenderContext, Process
  <2>2. Quiet
    BY <1>0, <2>1 DEF Quiet, Same, Coming, InitSteps
  <2>3. Read' BY <2>1 DEF Imports, Read, Same, AfterAdr, AfterRule
  <2> QED BY <2>2, <2>3, QuietStep DEF Imports
<1>2. CASE RenderBlock
  <2>1. /\ proc.pc = "block" /\ proc'.pc = "ignore" /\ proc'.calm = proc.calm /\ Same(proc'.m, proc.m)
        /\ UNCHANGED <<rule, adr, manifest, constraints, decisions, keys, past, died>>
    <3>1. PICK m : m = [proc.m EXCEPT !.rendered = proc.m.rendered \union {"block"}]
      OBVIOUS
    <3>2. Same(m, proc.m) /\ Same(proc.m, proc.m)
      BY <1>0, <3>1 DEF Manifest, Same
    <3>3. proc' = [proc EXCEPT !.pc = "ignore"] \/ proc' = [proc EXCEPT !.pc = "ignore", !.m = m]
      BY <1>2, <3>1 DEF RenderBlock, At
    <3>4. proc'.pc = "ignore" /\ proc'.calm = proc.calm /\ Same(proc'.m, proc.m)
      BY <1>0, <3>2, <3>3 DEF Process
    <3> QED BY <1>2, <3>4 DEF RenderBlock
  <2>2. Quiet
    BY <1>0, <2>1 DEF Quiet, Same, Coming, InitSteps
  <2>3. Read' BY <2>1 DEF Imports, Read, Same, AfterAdr, AfterRule
  <2> QED BY <2>2, <2>3, QuietStep DEF Imports
<1>3. CASE Ignore
  <2>1. /\ proc.pc = "ignore" /\ proc'.pc = "save" /\ proc'.calm = proc.calm /\ Same(proc'.m, proc.m)
        /\ UNCHANGED <<rule, adr, manifest, constraints, decisions, keys, past, died>>
    BY <1>0, <1>3 DEF Ignore, Process, Manifest, Same
  <2>2. Quiet
    BY <1>0, <2>1 DEF Quiet, Same, Coming, InitSteps
  <2>3. Read' BY <2>1 DEF Imports, Read, Same, AfterAdr, AfterRule
  <2> QED BY <2>2, <2>3, QuietStep DEF Imports
<1>4. CASE Save
  <2>1. /\ proc.pc = "save" /\ proc'.pc = "register" /\ proc'.calm = proc.calm /\ proc'.m = proc.m
        /\ Same(manifest', proc.m)
        /\ UNCHANGED <<rule, adr, constraints, decisions, keys, past, died>>
    BY <1>0, <1>4 DEF Save, At, Process, Manifest, Same
  <2>2. Quiet
    BY <1>0, <2>1 DEF Quiet, Same, Coming, InitSteps
  <2>3. Read' BY <2>1 DEF Imports, Read, Same, AfterAdr, AfterRule
  <2> QED BY <2>2, <2>3, QuietStep DEF Imports
<1>5. CASE Register
  <2>1. Proc("done", proc.cmd, 0, NoManifest, NoSetup, FALSE, proc.calm)
    BY <1>0, <1>5, DoneProc DEF Register
  <2>2. /\ proc.pc = "register" /\ Same(manifest, proc.m)
        /\ UNCHANGED <<rule, adr, manifest, constraints, decisions, keys, past, died>>
    BY <1>0, <1>5 DEF Register, IInv, Steps, Manifest, Same
  <2>3. Quiet
    BY <1>0, <2>1, <2>2 DEF Quiet, Same, Coming, Proc, InitSteps
  <2>4. Read' BY <2>1, <2>2 DEF Imports, Read, Same, Proc, AfterAdr, AfterRule
  <2> QED BY <2>3, <2>4, QuietStep DEF Imports
<1> QED BY <1>1, <1>2, <1>3, <1>4, <1>5

\* A ledger that has grown or changed the state of an object has the same texts.
LEMMA SameTexts ==
    ASSUME NEW m, m.rule.id \in Nat, NEW cs, NEW ds, NEW ps, NEW cs2, m.rule.id <= Len(cs), Len(cs) \in Nat,
           \A i \in 1..Len(cs) : cs2[i].text = cs[i].text, Imported(m, cs, ds, ps)
    PROVE  Imported(m, cs2, ds, ps)
BY DEF Imported

\* absorbRule: a text that the manifest has is current; another one is drafted.
LEMMA AbsorbRuleImports ==
    ASSUME IInv, Imports, AbsorbRule
    PROVE  Imports'
<1>1. /\ proc.pc = "rule" /\ proc \in Process /\ constraints \in Seq(Object) /\ Len(constraints) \in Nat
      /\ died \in BOOLEAN /\ manifest.rule.id \in Nat /\ proc.m.rule.id \in Nat
      /\ manifest.rule.id <= Len(constraints) /\ proc.m.rule.id <= Len(constraints)
      /\ UNCHANGED <<rule, adr, manifest, decisions, keys, past, died>>
  BY DEF IInv, TypeOK, AbsorbRule, Process, Manifest, Import, Linked
<1>2. CASE rule = Blank \/ RuleKnown
  <2>1. /\ Proc("adr", proc.cmd, proc.id, proc.m, proc.s, proc.wrote, proc.calm)
        /\ UNCHANGED constraints
    BY <1>1, <1>2, AtProc DEF AbsorbRule, Pcs, InitSteps
  <2>2. Quiet
    BY <1>1, <2>1 DEF Quiet, Same, Coming, Proc, InitSteps
  <2>3. Read' BY <1>1, <1>2, <2>1 DEF Read, Proc, AfterAdr, AfterRule, RuleKnown
  <2> QED BY <2>2, <2>3, QuietStep DEF Imports
<1>3. CASE ~(rule = Blank \/ RuleKnown)
  <2>1. PICK o : o = [c |-> Drafted, text |-> rule]
    OBVIOUS
  <2>2. o \in Object /\ o.c.state = "generated" /\ o.text = rule
    BY <2>1, DraftedIs DEF Object, IInv, TypeOK, Text
  <2>3. /\ constraints' = Append(constraints, o)
        /\ proc'.id = Len(constraints) + 1 /\ proc'.pc \in {"verify", "supersede"} /\ proc'.m = proc.m
    BY <1>1, <1>3, <2>1 DEF AbsorbRule, Drafted, Process
  <2>4. /\ constraints'[Len(constraints) + 1] = o
        /\ \A i \in 1..Len(constraints) : constraints'[i] = constraints[i]
    BY <1>1, <2>2, <2>3
  <2>5. Manifests'
    <3>1. \A i \in 1..Len(constraints) : constraints'[i].text = constraints[i].text
      BY <2>4
    <3>2. Imported(manifest, constraints', decisions, past)
      BY <1>1, <3>1, SameTexts DEF Imports, Manifests
    <3>3. Imported(proc.m, constraints', decisions, past)
      BY <1>1, <3>1, SameTexts DEF Imports, Manifests
    <3> QED BY <1>1, <2>3, <3>2, <3>3 DEF Manifests
  <2>6. Replayed'
    BY <1>1 DEF Imports, Replayed
  <2>7. Voice'
    <3>1. constraints'[proc'.id].c.state # "retired"
      BY <2>2, <2>3, <2>4
    <3>2. Coming = proc.m /\ Coming' = proc.m
      BY <1>1, <2>3 DEF Coming, InitSteps
    <3>3. ~died /\ proc.m.rule.id # 0 => constraints'[proc.m.rule.id].c.state # "retired"
      BY <1>1, <2>4, <3>2 DEF Imports, Voice, Live
    <3> QED BY <1>1, <3>1, <3>2, <3>3 DEF Voice, Live
  <2>8. Read'
    BY <1>1, <2>2, <2>3, <2>4 DEF Read, AfterAdr, AfterRule
  <2> QED BY <2>5, <2>6, <2>7, <2>8 DEF Imports
<1> QED BY <1>2, <1>3

\* The new constraint is verified: it stays live, and keeps its text.
LEMMA VerifyRuleImports ==
    ASSUME IInv, Imports, VerifyRule
    PROVE  Imports'
<1>1. /\ proc.pc = "verify" /\ constraints \in Seq(Object) /\ proc.id \in 1..Len(constraints)
      /\ died \in BOOLEAN /\ manifest.rule.id \in Nat /\ proc.m.rule.id \in Nat /\ Len(constraints) \in Nat
      /\ manifest.rule.id <= Len(constraints) /\ proc.m.rule.id <= Len(constraints)
      /\ UNCHANGED <<rule, adr, manifest, decisions, keys, past, died>>
  BY DEF IInv, TypeOK, VerifyRule, Process, Manifest, Import, Linked
<1>2. Proc("supersede", proc.cmd, proc.id, proc.m, proc.s, proc.wrote, proc.calm)
  BY AtProc DEF IInv, TypeOK, VerifyRule, Pcs, InitSteps
<1>3. constraints[proc.id].c \in Constraint(States) /\ constraints[proc.id].c.state = "generated"
  BY <1>1, Objects DEF IInv, Steps
<1>4. constraints' = [constraints EXCEPT ![proc.id].c = [constraints[proc.id].c EXCEPT !.state = "verified"]]
  BY <1>3, VerifiedIs DEF VerifyRule
<1>5. \A i \in 1..Len(constraints) :
        /\ constraints'[i].text = constraints[i].text
        /\ Live(i) => constraints'[i].c.state # "retired"
  <2> SUFFICES ASSUME NEW i \in 1..Len(constraints)
               PROVE  /\ constraints'[i].text = constraints[i].text
                      /\ Live(i) => constraints'[i].c.state # "retired"
    OBVIOUS
  <2>1. constraints[proc.id] \in Object
    BY <1>1
  <2>2. PICK x : x = [constraints[proc.id] EXCEPT !.c = [constraints[proc.id].c EXCEPT !.state = "verified"]]
    OBVIOUS
  <2>3. x.text = constraints[proc.id].text /\ x.c.state = "verified"
    BY <1>3, <2>1, <2>2 DEF Object, Constraint
  <2>4. constraints' = [constraints EXCEPT ![proc.id] = x]
    BY <1>4, <2>2
  <2> QED BY <1>1, <2>3, <2>4 DEF Live
<1>6. Manifests'
  <2>1. Imported(manifest, constraints', decisions, past)
    BY <1>1, <1>5, SameTexts DEF Imports, Manifests
  <2>2. Imported(proc.m, constraints', decisions, past)
    BY <1>1, <1>5, SameTexts DEF Imports, Manifests
  <2> QED BY <1>1, <1>2, <2>1, <2>2 DEF Manifests, Proc
<1>7. Replayed'
  BY <1>1 DEF Imports, Replayed
<1>8. Voice'
  <2>1. Coming = proc.m /\ Coming' = proc.m
    BY <1>1, <1>2 DEF Coming, InitSteps, Proc
  <2> QED BY <1>1, <1>2, <1>5, <2>1 DEF Imports, Voice, Live, Proc
<1>9. Read'
  BY <1>1, <1>2, <1>5 DEF Imports, Read, Proc, AfterAdr, AfterRule
<1> QED BY <1>6, <1>7, <1>8, <1>9 DEF Imports

\* The old constraint retires; the manifest has the new one, which does not.
LEMMA SupersedeRuleImports ==
    ASSUME IInv, Imports, SupersedeRule
    PROVE  Imports'
<1>1. /\ proc.pc = "supersede" /\ constraints \in Seq(Object) /\ proc.id \in 1..Len(constraints)
      /\ died \in BOOLEAN /\ manifest.rule.id \in Nat /\ Len(constraints) \in Nat
      /\ proc \in Process /\ proc.m \in Manifest /\ proc.m.rule.id \in Nat
      /\ manifest.rule.id <= Len(constraints) /\ proc.m.rule.id <= Len(constraints)
      /\ UNCHANGED <<rule, adr, manifest, decisions, keys, past, died>>
  BY DEF IInv, TypeOK, SupersedeRule, Process, Manifest, Import, Linked
<1>2. PICK m : m = [proc.m EXCEPT !.rule = RuleImport]
  OBVIOUS
<1>3. /\ m.rule = RuleImport /\ m.adr = proc.m.adr /\ RuleImport.id = proc.id
      /\ RuleImport.hash = constraints[proc.id].text
  BY <1>1, <1>2 DEF Manifest, RuleImport
<1>4. proc'.pc = "adr" /\ proc'.m = m /\ proc'.calm = proc.calm
  BY <1>1, <1>2 DEF SupersedeRule, Process
<1>5. /\ \A i \in 1..Len(constraints) : constraints'[i].text = constraints[i].text
      /\ constraints'[proc.id].c.state # "retired"
  <2> DEFINE old == proc.m.rule.id
             d == SupersedeDecide(constraints[old].c, [id |-> old, by |-> proc.id])
  <2>0. Live(proc.id)
    BY <1>1 DEF Imports, Voice
  <2>1. CASE old = 0 \/ d.refused
    BY <1>1, <2>0, <2>1 DEF SupersedeRule, Live
  <2>2. CASE old # 0 /\ ~d.refused
    <3>1. /\ old \in 1..Len(constraints) /\ constraints[old] \in Object
          /\ constraints[old].c \in Constraint(States) /\ proc.id \in Nat \ {0}
      BY <1>1, <2>2, Objects DEF IInv
    <3>2. proc.id # old
      BY <2>2, <3>1, SupersededIs
    <3>3. PICK x : x = [constraints[old] EXCEPT !.c = ConstraintApply(@, d.evs[1])]
      OBVIOUS
    <3>4. x.text = constraints[old].text
      BY <3>1, <3>3 DEF Object
    <3>5. constraints' = [constraints EXCEPT ![old] = x]
      BY <2>2, <3>3 DEF SupersedeRule
    <3> QED BY <1>1, <2>0, <3>1, <3>2, <3>4, <3>5 DEF Live
  <2> QED BY <2>1, <2>2
<1>6. Manifests'
  <2>1. Imported(manifest, constraints', decisions, past)
    BY <1>1, <1>5, SameTexts DEF Imports, Manifests
  <2>2. Imported(m, constraints', decisions, past)
    BY <1>1, <1>3, <1>5 DEF Imports, Manifests, Imported
  <2> QED BY <1>1, <1>4, <2>1, <2>2 DEF Manifests
<1>7. Replayed'
  BY <1>1 DEF Imports, Replayed
<1>8. Voice'
  <2>1. Coming' = m
    BY <1>4 DEF Coming, InitSteps
  <2> QED BY <1>3, <1>4, <1>5, <2>1 DEF Voice, Live
<1>9. Read'
  BY <1>1, <1>3, <1>4 DEF Imports, Read, AfterAdr, AfterRule
<1> QED BY <1>6, <1>7, <1>8, <1>9 DEF Imports

\* A revision of the ADR is not refused, and writes unless the text is there.
LEMMA Revision ==
    ASSUME NEW t \in Text, NEW o \in Decision, NEW d,
           d = DecisionDecide(o, [cmd |-> "Revise", text |-> t, wellFormed |-> TRUE], Human)
    PROVE  /\ ~d.refused
           /\ d.evs = << >> => o.text = t
           /\ d.evs # << >> => DecisionApply(o, d.evs[1]).text = t
<1>1. PICK e : e = [kind |-> "Revised", text |-> t] OBVIOUS
<1>2. o.state \in {"generated", "verified"} BY DEF Decision
<1>3. (d = Emit(<< >>) /\ t = o.text) \/ d = Emit(<<e>>)
  BY <1>1, <1>2 DEF DecisionDecide
<1>4. ~d.refused /\ (d.evs = << >> => o.text = t) /\ (d.evs # << >> => d.evs[1] = e)
  BY <1>3 DEF Emit
<1>5. e.kind = "Revised" /\ e.text = t BY <1>1
<1>6. DecisionApply(o, e) = [o EXCEPT !.state = "generated", !.text = t]
  BY <1>5 DEF DecisionApply
<1>7. DecisionApply(o, e).text = t
  BY <1>6 DEF Decision
<1> QED BY <1>4, <1>7

\* A draft has the text of the command.
LEMMA DraftText ==
    ASSUME NEW t \in Text, NEW d,
           d = DecisionDecide(NoDecision, [cmd |-> "Draft", text |-> t, wellFormed |-> TRUE], Human)
    PROVE  DecisionApply(NoDecision, d.evs[1]).text = t
<1>1. PICK e : e = [kind |-> "Drafted", text |-> t] OBVIOUS
<1>2. d = Emit(<<e>>)
  BY <1>1 DEF DecisionDecide, NoDecision
<1>3. e.kind = "Drafted" /\ e.text = t BY <1>1
<1>4. DecisionApply(NoDecision, e) = [NoDecision EXCEPT !.state = "generated", !.text = t]
  BY <1>3 DEF DecisionApply
<1>5. DecisionApply(NoDecision, e).text = t
  BY <1>4 DEF NoDecision
<1>6. d.evs[1] = e
  BY <1>2, Emitted
<1> QED BY <1>5, <1>6

\* A verification leaves the text alone.
LEMMA VerifiedText ==
    ASSUME NEW o \in Decision, NEW d, d = DecisionDecide(o, [cmd |-> "Verify"], Human), ~d.refused
    PROVE  DecisionApply(o, d.evs[1]).text = o.text
<1>1. PICK e : e = [kind |-> "Verified"] OBVIOUS
<1>2. d = Reject \/ d = Emit(<<e>>)
  BY <1>1 DEF DecisionDecide
<1>3. d.evs[1] = e BY <1>2 DEF Emit, Reject
<1>4. e.kind = "Verified" BY <1>1
<1>5. DecisionApply(o, e) = [o EXCEPT !.state = "verified"]
  BY <1>4 DEF DecisionApply
<1> QED BY <1>3, <1>5 DEF Decision

\* A text that a decision of the ledger has or had: no write of init loses it.
Told(i, t, ds, ps) == t = ds[i].text \/ t \in ps

\* The manifest names such texts.
LEMMA ToldImported ==
    ASSUME NEW m, NEW cs, NEW ds, NEW ps, NEW ds2, NEW ps2, m.adr.id \in Nat, Len(ds) \in Nat, m.adr.id <= Len(ds),
           \A i \in 1..Len(ds), t \in {m.adr.hash} : Told(i, t, ds, ps) => Told(i, t, ds2, ps2),
           Imported(m, cs, ds, ps)
    PROVE  Imported(m, cs, ds2, ps2)
BY DEF Imported, Told

\* absorbADR: after it the decision has the text of the file, or had it before.
LEMMA AbsorbAdrImports ==
    ASSUME IInv, Keyed, Imports, AbsorbAdr
    PROVE  Imports'
<1>1. /\ proc.pc = "adr" /\ proc \in Process /\ decisions \in Seq(Decision) /\ adr \in Text
      /\ proc.m \in Manifest /\ proc.m.adr.id \in Nat /\ Len(decisions) \in Nat
      /\ manifest.adr.id \in Nat /\ died \in BOOLEAN
      /\ manifest.adr.id <= Len(decisions) /\ proc.m.adr.id <= Len(decisions)
  <2>1. TypeOK /\ proc.pc = "adr"
    BY DEF IInv, AbsorbAdr
  <2>2. /\ proc \in Process /\ decisions \in Seq(Decision) /\ adr \in Text
        /\ manifest \in Manifest /\ died \in BOOLEAN
    BY <2>1 DEF TypeOK, Text
  <2>3. proc.m \in Manifest
    BY <2>2 DEF Process
  <2>4. \A m \in Manifest : m.adr.id \in Nat
    BY DEF Manifest, Import
  <2>5. manifest.adr.id <= Len(decisions) /\ proc.m.adr.id <= Len(decisions)
    BY <2>1 DEF TypeOK, Linked
  <2>6. Len(decisions) \in Nat
    BY <2>2
  <2> QED BY <2>1, <2>2, <2>3, <2>4, <2>5, <2>6
<1>2. UNCHANGED <<rule, adr, manifest, constraints, died>>
  BY DEF AbsorbAdr
<1>3. CASE adr = Blank \/ proc.m.adr.hash = adr
  <2>1. /\ Proc("context", proc.cmd, proc.id, proc.m, proc.s, proc.wrote, proc.calm)
        /\ UNCHANGED <<decisions, keys, past>>
    BY <1>1, <1>3, AtProc DEF AbsorbAdr, Pcs, InitSteps
  <2>2. Quiet
    BY <1>1, <1>2, <2>1 DEF Quiet, Same, Coming, Proc, InitSteps
  <2>3. Read' BY <1>1, <1>2, <1>3, <2>1 DEF Imports, Read, Proc, AfterAdr, AfterRule
  <2> QED BY <2>2, <2>3, QuietStep DEF Imports
<1>4. CASE ~(adr = Blank \/ proc.m.adr.hash = adr)
  <2> DEFINE had == proc.m.adr.id # 0
             id == IF had THEN proc.m.adr.id ELSE Len(decisions) + 1
             d == IF had THEN DecisionDecide(decisions[id], [cmd |-> "Revise", text |-> adr, wellFormed |-> TRUE], Human)
                  ELSE DecisionDecide(NoDecision, [cmd |-> "Draft", text |-> adr, wellFormed |-> TRUE], Human)
             writes == <<id, adr>> \notin keys /\ ~d.refused /\ d.evs # << >>
  <2>1. /\ decisions' = CASE ~writes -> decisions
                          [] writes /\ had -> [decisions EXCEPT ![id] = DecisionApply(@, d.evs[1])]
                          [] writes /\ ~had -> Append(decisions, DecisionApply(NoDecision, d.evs[1]))
        /\ past' = IF writes /\ had THEN past \union {decisions[id].text} ELSE past
        /\ keys' = IF writes THEN keys \union {<<id, adr>>} ELSE keys
    BY <1>4 DEF AbsorbAdr
  <2>2. PICK pc \in {"verifyAdr", "context"} :
          proc' = [proc EXCEPT !.id = id, !.wrote = TRUE, !.m.adr = [id |-> id, hash |-> adr], !.pc = pc]
    BY <1>4 DEF AbsorbAdr
  <2>3. id \in Nat \ {0}
    BY <1>1
  <2>4. /\ \A i \in 1..Len(decisions) : \A t :
             Told(i, t, decisions, past) => Told(i, t, decisions', past')
        /\ Told(id, adr, decisions', past')
        /\ \A i \in 1..Len(decisions') : i \in 1..Len(decisions) \/ i = id
    <3>1. CASE had
      <4>1. id \in 1..Len(decisions) /\ decisions[id] \in Decision
        BY <1>1, <3>1
      <4>2. /\ ~d.refused
            /\ d.evs = << >> => decisions[id].text = adr
            /\ d.evs # << >> => DecisionApply(decisions[id], d.evs[1]).text = adr
        BY <1>1, <3>1, <4>1, Revision
      <4>3. CASE writes
        <5>1. PICK x : x = DecisionApply(decisions[id], d.evs[1])
          OBVIOUS
        <5>2. x.text = adr
          BY <4>2, <4>3, <5>1
        <5>3. decisions' = [decisions EXCEPT ![id] = x] /\ past' = past \union {decisions[id].text}
          BY <2>1, <3>1, <4>3, <5>1
        <5>4. Len(decisions') = Len(decisions) /\ decisions'[id] = x
          BY <1>1, <4>1, <5>3
        <5>5. \A i \in 1..Len(decisions) : i # id => decisions'[i] = decisions[i]
          BY <1>1, <4>1, <5>3
        <5> QED BY <4>1, <5>2, <5>3, <5>4, <5>5 DEF Told
      <4>4. CASE ~writes
        <5>1. decisions' = decisions /\ past' = past
          BY <2>1, <4>4
        <5>2. Told(id, adr, decisions, past)
          <6>1. CASE <<id, adr>> \in keys
            BY <1>1, <4>1, <6>1 DEF Imports, Replayed, Told
          <6>2. CASE <<id, adr>> \notin keys
            BY <4>2, <4>4, <6>2 DEF Told
          <6> QED BY <6>1, <6>2
        <5> QED BY <5>1, <5>2
      <4> QED BY <4>3, <4>4
    <3>2. CASE ~had
      <4>1. id = Len(decisions) + 1
        BY <3>2
      <4>2. <<id, adr>> \notin keys
        BY <1>1, <2>3, <4>1 DEF Keyed
      <4>3. ~d.refused /\ d.evs # << >> /\ DecisionApply(NoDecision, d.evs[1]) \in Decision
        BY <1>1, <3>2, DecisionDrafted
      <4>4. DecisionApply(NoDecision, d.evs[1]).text = adr
        BY <1>1, <3>2, DraftText
      <4>5. PICK x \in Decision : decisions' = Append(decisions, x) /\ x.text = adr /\ past' = past
        BY <2>1, <3>2, <4>2, <4>3, <4>4
      <4>6. Len(decisions') = Len(decisions) + 1 /\ decisions'[id] = x
        BY <1>1, <4>1, <4>5
      <4>7. \A i \in 1..Len(decisions) : decisions'[i] = decisions[i]
        BY <1>1, <4>5
      <4> QED BY <1>1, <4>1, <4>5, <4>6, <4>7 DEF Told
    <3> QED BY <3>1, <3>2
  <2> HIDE DEF had, id, d, writes
  <2>5. PICK m : m = [proc.m EXCEPT !.adr = [id |-> id, hash |-> adr]]
    OBVIOUS
  <2>6. m.rule = proc.m.rule /\ m.adr.id = id /\ m.adr.hash = adr
    BY <1>1, <2>5 DEF Manifest
  <2>7. proc'.pc = pc /\ proc'.m = m /\ proc'.calm = proc.calm
    <3>1. proc' = [proc EXCEPT !.id = id, !.wrote = TRUE, !.m = m, !.pc = pc]
      BY <2>2, <2>5
    <3> QED BY <1>1, <3>1 DEF Process
  <2>8. Manifests'
    <3>1. Imported(manifest, constraints, decisions', past')
      BY <1>1, <2>4, ToldImported DEF Imports, Manifests
    <3>2. Imported(m, constraints, decisions', past')
      BY <2>3, <2>4, <2>6 DEF Imports, Manifests, Imported, Told
    <3> QED BY <1>2, <2>7, <3>1, <3>2 DEF Manifests
  <2>9. Replayed'
    <3> SUFFICES ASSUME NEW i \in 1..Len(decisions'), NEW t \in Text, <<i, t>> \in keys'
                 PROVE  Told(i, t, decisions', past')
      BY DEF Replayed, Told
    <3>1. CASE i = id /\ t = adr
      BY <2>4, <3>1
    <3>2. CASE ~(i = id /\ t = adr)
      <4>1. <<i, t>> \in keys
        BY <2>1, <3>2
      <4>2. i \in 1..Len(decisions)
        BY <1>1, <4>1 DEF Keyed
      <4>3. Told(i, t, decisions, past)
        BY <4>1, <4>2 DEF Imports, Replayed, Told
      <4> QED BY <2>4, <4>2, <4>3
    <3> QED BY <3>1, <3>2
  <2>10. Voice'
    <3>1. Coming = proc.m /\ Coming' = m
      BY <1>1, <2>7 DEF Coming, InitSteps
    <3> QED BY <1>2, <2>6, <2>7, <3>1 DEF Imports, Voice, Live
  <2>11. Read'
    BY <1>1, <1>2, <2>6, <2>7 DEF Imports, Read, AfterAdr, AfterRule
  <2> QED BY <2>8, <2>9, <2>10, <2>11 DEF Imports
<1> QED BY <1>3, <1>4

\* The verification of the ADR leaves the texts alone, or ends init.
LEMMA VerifyAdrImports ==
    ASSUME IInv, Imports, VerifyAdr
    PROVE  Imports'
<1>1. /\ proc.pc = "verifyAdr" /\ proc \in Process /\ decisions \in Seq(Decision) /\ Len(decisions) \in Nat
      /\ proc.id \in 1..Len(decisions) /\ died \in BOOLEAN /\ manifest.adr.id \in Nat /\ proc.m.adr.id \in Nat
      /\ manifest.adr.id <= Len(decisions) /\ proc.m.adr.id <= Len(decisions)
  BY DEF IInv, TypeOK, VerifyAdr, Process, Manifest, Import, Linked
<1>2. UNCHANGED <<rule, adr, manifest, constraints, keys, past>>
  BY DEF VerifyAdr
<1> DEFINE d == DecisionDecide(decisions[proc.id], [cmd |-> "Verify"], Human)
<1>3. CASE d.refused
  <2>1. proc'.pc = "failed" /\ proc'.m = NoManifest /\ died' = TRUE /\ UNCHANGED decisions
    BY <1>3 DEF VerifyAdr, Idle
  <2>2. Quiet
    BY <1>1, <1>2, <2>1 DEF Quiet, Same
  <2>3. Read' BY <2>1 DEF Read, AfterAdr, AfterRule
  <2> QED BY <2>2, <2>3, QuietStep DEF Imports
<1>4. CASE ~d.refused
  <2>1. /\ Proc("context", proc.cmd, proc.id, proc.m, proc.s, proc.wrote, proc.calm)
        /\ decisions' = [decisions EXCEPT ![proc.id] = DecisionApply(decisions[proc.id], d.evs[1])]
        /\ UNCHANGED died
    BY <1>1, <1>4, AtProc DEF VerifyAdr, Pcs, InitSteps
  <2>2. decisions[proc.id] \in Decision
    BY <1>1
  <2>3. DecisionApply(decisions[proc.id], d.evs[1]).text = decisions[proc.id].text
    BY <1>4, <2>2, VerifiedText
  <2>4. Len(decisions') = Len(decisions) /\ \A i \in 1..Len(decisions) : decisions'[i].text = decisions[i].text
    BY <1>1, <2>1, <2>3
  <2>5. Manifests'
    <3>1. \A i \in 1..Len(decisions) : \A t :
            Told(i, t, decisions, past) => Told(i, t, decisions', past)
      BY <2>4 DEF Told
    <3>2. Imported(manifest, constraints, decisions', past)
      BY <1>1, <3>1, ToldImported DEF Imports, Manifests
    <3>3. Imported(proc.m, constraints, decisions', past)
      BY <1>1, <3>1, ToldImported DEF Imports, Manifests
    <3> QED BY <1>2, <2>1, <3>2, <3>3 DEF Manifests, Proc
  <2>6. Replayed'
    BY <1>2, <2>4 DEF Imports, Replayed
  <2>7. Voice'
    BY <1>1, <1>2, <2>1 DEF Imports, Voice, Live, Coming, InitSteps, Proc
  <2>8. Read'
    BY <1>1, <1>2, <2>1 DEF Imports, Read, Proc, AfterAdr, AfterRule
  <2> QED BY <2>5, <2>6, <2>7, <2>8 DEF Imports
<1> QED BY <1>3, <1>4

\* Every step keeps it.
LEMMA NextImports ==
    ASSUME IInv, Keyed, Imports, [Next]_vars
    PROVE  Imports'
<1>1. CASE \E t \in Rule \union {Blank} : EditRule(t)
  BY <1>1, EditImports DEF EditRule
<1>2. CASE EditBlock("edited") \/ EditBlock("none")
  BY <1>2, EditImports DEF EditBlock
<1>3. CASE \E t \in Adr \union {Blank} : EditAdr(t)
  BY <1>3, EditImports DEF EditAdr
<1>4. CASE \E o \in Other \union {NoText}, gone \in SUBSET Event : EditSettings(o, gone)
  BY <1>4, EditImports DEF EditSettings
<1>5. CASE (\E verify \in BOOLEAN : StartInit(verify)) \/ StartUninit \/ StartSetup \/ StartUninstall
  <2>1. /\ Resting /\ UNCHANGED <<constraints, decisions, keys, past, died, manifest>>
        /\ proc'.m \in {manifest, NoManifest}
        /\ proc'.pc \in {"rule", "uncontext", "unregister", "merge", "settings"}
    BY <1>5 DEF StartInit, StartUninit, StartSetup, StartUninstall, Idle
  <2> QED BY <2>1, StartImports
<1>6. CASE (\E force \in BOOLEAN : RenderContext(force)) \/ RenderBlock \/ Ignore \/ Save \/ Register
  BY <1>6, RenderImports
<1>7. CASE \/ RemoveContext \/ RemoveBlock \/ Unignore \/ RemoveManifest \/ Unregister
           \/ MergeHooks \/ Decline \/ BackupSettings \/ WriteHooks \/ SaveSetup
           \/ ReadSettings \/ RestoreSettings \/ RemoveSetup \/ Die
  <2>1. proc.pc \notin InitSteps \/ Die
    BY <1>7 DEF RemoveContext, RemoveBlock, Unignore, RemoveManifest, Unregister, MergeHooks, Decline,
                BackupSettings, WriteHooks, SaveSetup, ReadSettings, RestoreSettings, RemoveSetup, InitSteps
  <2> QED BY <1>7, <2>1, OtherImports
<1>8. CASE AbsorbRule
  BY <1>8, AbsorbRuleImports
<1>9. CASE VerifyRule
  BY <1>9, VerifyRuleImports
<1>10. CASE SupersedeRule
  BY <1>10, SupersedeRuleImports
<1>11. CASE AbsorbAdr
  BY <1>11, AbsorbAdrImports
<1>12. CASE VerifyAdr
  BY <1>12, VerifyAdrImports
<1>13. CASE UNCHANGED vars
  BY <1>13 DEF Imports, Manifests, Replayed, Voice, Live, Coming, Read
<1> QED
  BY <1>1, <1>2, <1>3, <1>4, <1>5, <1>6, <1>7, <1>8, <1>9, <1>10, <1>11, <1>12, <1>13 DEF Next

\* After an init that nobody disturbed the manifest is right about the repository:
\* the constraint it names is live and has the text of the rule file, the decision
\* the text of the ADR, unless a key of an earlier text replays (Importer).
THEOREM SidecarImportsAreCurrent == Spec => []ImportsAreCurrent
<1>1. Init => Imports
  <2> SUFFICES ASSUME Init PROVE Imports
    OBVIOUS
  <2>1. proc.pc = "idle" /\ proc.m = NoManifest /\ manifest = NoManifest
    BY DEF Init, Idle
  <2>2. Manifests
    BY <2>1, NoneImported DEF Manifests
  <2>3. Replayed
    BY DEF Init, Replayed
  <2>4. Voice
    BY <2>1 DEF Voice, Coming, InitSteps, NoManifest, NoImport
  <2>5. Read
    BY <2>1 DEF Read, AfterAdr, AfterRule
  <2> QED BY <2>2, <2>3, <2>4, <2>5 DEF Imports
<1>2. (IInv /\ Keyed) /\ Imports /\ [Next]_vars => Imports'
  BY NextImports
<1>3. (IInv /\ Keyed) /\ Imports => ImportsAreCurrent
  <2> SUFFICES ASSUME IInv, Imports, proc.pc = "done", proc.cmd = "init", proc.calm
               PROVE  /\ rule # Blank /\ ~died => Live(manifest.rule.id) /\ constraints[manifest.rule.id].text = rule
                      /\ adr # Blank /\ adr \notin past => decisions[manifest.adr.id].text = adr
    BY DEF ImportsAreCurrent
  <2>1. Imported(manifest, constraints, decisions, past) /\ (adr # Blank => manifest.adr.hash = adr)
    BY DEF Imports, Manifests, Read
  <2>2. ASSUME rule # Blank, ~died
        PROVE  Live(manifest.rule.id) /\ constraints[manifest.rule.id].text = rule
    <3>1. rule # NoText /\ manifest.rule.hash = rule
      BY <2>2, SidecarConstants DEF IInv, TypeOK, Imports, Read
    <3>2. manifest.rule.id # 0 /\ constraints[manifest.rule.id].text = rule
      BY <2>1, <3>1 DEF Imported
    <3>3. Coming = manifest
      BY DEF Coming, InitSteps
    <3> QED BY <2>2, <3>2, <3>3 DEF Imports, Voice
  <2>3. ASSUME adr # Blank, adr \notin past
        PROVE  decisions[manifest.adr.id].text = adr
    <3>1. adr # NoText
      BY <2>3, SidecarConstants DEF IInv, TypeOK
    <3> QED BY <2>1, <2>3, <3>1 DEF Imported
  <2> QED BY <2>2, <2>3
<1> QED BY <1>1, <1>2, <1>3, SidecarInvariant, PTL DEF Spec
=============================================================================
