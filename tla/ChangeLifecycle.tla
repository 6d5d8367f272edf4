--------------------------- MODULE ChangeLifecycle --------------------------
(***************************************************************************)
(* The Change aggregate (internal/core/accountability/change.go): its      *)
(* commands, each as one action that holds when Decide accepts the command *)
(* and applies the event it emits.  A refused command leaves the Change as *)
(* it is.  The pipeline orders commands on one Change, so one at a time is *)
(* enough; time passes between them.                                       *)
(*                                                                         *)
(* Ids, refs and the well-formedness checks on them are left out; Impact   *)
(* is reduced to whether it is empty, a proposal list to its length.       *)
(* The names of the specification say Change, so that one proof module can *)
(* extend this aggregate and the scope.                                    *)
(***************************************************************************)
EXTENDS Naturals, Sequences

CONSTANTS
    Person, Agent,   \* actors
    Owners,          \* DecideContext.Judges: owners whose judgment is required
    OutcomeWindow,   \* Policy.OutcomeWindow
    MaxJudgments,    \* bound: judgments of the Change
    MaxProposals,    \* bound: proposals of the Change
    MaxNow           \* bound: the clock

ASSUME ChangeConstants ==
    /\ Person \intersect Agent = {}
    /\ Owners \subseteq Person
    /\ OutcomeWindow \in Nat /\ MaxJudgments \in Nat
    /\ MaxProposals \in Nat \ {0} /\ MaxNow \in Nat

VARIABLES
    change,   \* the folded Change
    now       \* the clock, DecideContext.Now

changeVars == <<change, now>>

Actor == Person \union Agent
Autonomy == 0..3   \* L0..L3
Judgment == [by : Actor, decision : {"accept", "modify", "reject"}, reason : BOOLEAN]

None == [state |-> "none", kind |-> "realization", impact |-> FALSE, autonomy |-> 0,
         proposals |-> 0, judgments |-> << >>, deployedAt |-> 0, observed |-> FALSE]

Accepts(j) == j.decision # "reject"

ChangeInit == change = None /\ now = 0

\* open: a harness change is L0; autonomous mode needs L2.
OpenChange ==
    /\ change.state = "none"
    /\ \E kind \in {"realization", "harness"}, mode \in {"manual", "autonomous"},
          impact \in BOOLEAN, effective \in Autonomy, proposals \in {0, 1} :
         LET level == IF kind = "harness" THEN 0 ELSE effective IN
         /\ mode = "autonomous" => level >= 2
         /\ change' = [None EXCEPT !.state = "proposed", !.kind = kind, !.impact = impact,
                                   !.autonomy = level, !.proposals = proposals]
    /\ UNCHANGED now

AddProposal ==
    /\ change.state \in {"proposed", "judged"}
    /\ change.proposals < MaxProposals
    /\ change' = [change EXCEPT !.proposals = @ + 1]
    /\ UNCHANGED now

\* judge: an agent judges realization changes from L1 on; impact needs a reason.
Judge(j) ==
    /\ change.state \in {"proposed", "judged"}
    /\ Len(change.judgments) < MaxJudgments
    /\ j.by \in Agent => change.kind # "harness" /\ change.autonomy >= 1
    /\ change.impact => j.reason
    /\ change' = [change EXCEPT !.judgments = Append(@, j), !.state = "judged"]
    /\ UNCHANGED now

\* judgmentsAllow: the latest judgment is not a reject, someone accepted, a
\* human did at L0 and L1 and for a harness change, and every owner did.
JudgmentsAllow ==
    LET js == change.judgments
        accepted == {js[i].by : i \in {k \in 1..Len(js) : Accepts(js[k])}}
    IN
    /\ js # << >>
    /\ Accepts(js[Len(js)])
    /\ accepted # {}
    /\ change.kind = "harness" \/ change.autonomy <= 1 => accepted \intersect Person # {}
    /\ Owners \subseteq accepted

\* Mutant of Deploy: a proposed Change is deployed whatever it touches.
DeployUnjudged ==
    /\ change.state = "proposed" \/ (change.state = "judged" /\ JudgmentsAllow)
    /\ change' = [change EXCEPT !.state = "deployed", !.deployedAt = now]
    /\ UNCHANGED now

Deploy ==
    /\ \/ change.state = "judged" /\ JudgmentsAllow
       \/ change.state = "proposed" /\ ~change.impact
    /\ change' = [change EXCEPT !.state = "deployed", !.deployedAt = now]
    /\ UNCHANGED now

RecordOutcome ==
    /\ change.state = "deployed"
    /\ change' = [change EXCEPT !.state = "observed", !.observed = TRUE]
    /\ UNCHANGED now

\* Mutant of Settle: the outcome window is not waited for.
SettleEarly(by) ==
    /\ change.state \in {"deployed", "observed"}
    /\ JudgmentsAllow
    /\ change' = [change EXCEPT !.state = "settled"]
    /\ UNCHANGED now

\* settle: without impact from any state; with impact after the outcome or
\* the window, by a human below L2.
Settle(by) ==
    /\ change.state \notin {"none", "settled"}
    /\ \/ ~change.impact
       \/ /\ change.impact
          /\ \/ change.state = "observed"
             \/ change.state = "deployed" /\ now >= change.deployedAt + OutcomeWindow
          /\ JudgmentsAllow
          /\ by \in Agent => change.autonomy >= 2
    /\ change' = [change EXCEPT !.state = "settled"]
    /\ UNCHANGED now

TimePasses == now < MaxNow /\ now' = now + 1 /\ UNCHANGED change

ChangeNext ==
    \/ OpenChange \/ AddProposal \/ Deploy \/ RecordOutcome \/ TimePasses
    \/ \E j \in Judgment : Judge(j)
    \/ \E a \in Actor : Settle(a)

ChangeSpec == ChangeInit /\ [][ChangeNext]_changeVars

-----------------------------------------------------------------------------
Live == {"deployed", "observed", "settled"}

\* The Change and the clock hold values of their kind; it has judgments
\* before it says it was judged.
ChangeFields ==
    /\ change \in [state : {"none", "proposed", "judged"} \union Live,
                   kind : {"realization", "harness"}, impact : BOOLEAN,
                   autonomy : Autonomy, proposals : 0..MaxProposals, judgments : Seq(Judgment),
                   deployedAt : 0..MaxNow, observed : BOOLEAN]
    /\ change.state = "judged" => change.judgments # << >>
    /\ now \in 0..MaxNow

\* A Change with impact is live only on the strength of its judgments: a
\* human accepted it unless its autonomy is L2 or more and it is no harness
\* change, every owner accepted, and the last word was not a reject.  Nothing
\* that happens after the deployment undoes this.
LiveImpactWasAccepted ==
    change.state \in Live /\ change.impact =>
        /\ change.judgments # << >>
        /\ Accepts(change.judgments[Len(change.judgments)])
        /\ \A o \in Owners : \E i \in 1..Len(change.judgments) :
             change.judgments[i].by = o /\ Accepts(change.judgments[i])
        /\ \/ change.kind = "realization" /\ change.autonomy >= 2
           \/ \E i \in 1..Len(change.judgments) :
                change.judgments[i].by \in Person /\ Accepts(change.judgments[i])

\* A Change with impact settles only once its outcome was recorded or its
\* window is over, counted from the deployment.
SettledAfterObservation ==
    change.state = "settled" /\ change.impact =>
        change.observed \/ now >= change.deployedAt + OutcomeWindow

\* change.go: "no standing reject".  Refuted when a reject stands until its author
\* judges again: only the latest judgment is looked at, so somebody who accepted
\* and then rejected, an owner too, counts as having accepted once another accepts.
NoStandingReject ==
    change.state \in Live /\ change.impact =>
        \A i \in 1..Len(change.judgments) :
            \/ Accepts(change.judgments[i])
            \/ \E j \in i + 1..Len(change.judgments) : change.judgments[j].by = change.judgments[i].by

\* change.go: "harness changes are always judged by a human".
HarnessJudgedByHuman ==
    change.kind = "harness" /\ change.state \in Live =>
        \E i \in 1..Len(change.judgments) : change.judgments[i].by \in Person
=============================================================================
