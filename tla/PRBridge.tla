------------------------------ MODULE PRBridge ------------------------------
(***************************************************************************)
(* The pull request bridge (internal/app/prbridge.go) with the GitHub      *)
(* reporter it posts through (internal/adapter/githubapp/app.go).          *)
(*                                                                         *)
(* One pull request with one head commit.  Deliveries run concurrently.    *)
(* What a delivery does under the tenant lock is one step (OrgRuntime      *)
(* models the lock); listing the comments, writing one and posting the     *)
(* check are calls of their own, made after the lock is released.  Any     *)
(* call may fail before or after it took effect, and a delivery may be     *)
(* sent again whatever was answered.  The names of the specification say   *)
(* Bridge, so that one proof module can extend this and the tenant.        *)
(***************************************************************************)
EXTENDS Naturals, Sequences, FiniteSets, SequencesExt

CONSTANTS
    Delivery,     \* deliveries in flight
    Review,       \* reviews that approve or request changes; the others are skipped
    Reasoned,     \* those with a body
    Visiting,     \* those whose author may be no member of the org when asked
    Change,       \* Changes derived from the head commit, normally one
    NoChange,
    PerPage,      \* comments the reporter looks through
    MaxTimes,     \* bound: deliveries, of any events
    MaxOthers     \* bound: comments of other people

ASSUME PRConstants ==
    /\ Reasoned \subseteq Review /\ Visiting \subseteq Review
    /\ NoChange \notin Change
    /\ "opened" \notin Review
    /\ PerPage \in Nat \ {0} /\ MaxTimes \in Nat /\ MaxOthers \in Nat

VARIABLES
    changes,   \* the Changes on the server, and whether they were pushed yet
    comments,  \* the comments of the pull request, oldest first
    check,     \* what the newest check run shows
    del,       \* [delivery -> its locals]
    times,     \* the number of deliveries
    orderly,   \* history: no two deliveries overlapped
    failing,   \* history: the events whose last answer was an error
    refused    \* history: the reviews that ever had such an answer

history == <<orderly, failing, refused>>
bridgeVars == <<changes, comments, check, del, times, history>>

\* "opened" stands for pr_opened and pr_synchronize.
Event == {"opened"} \union Review

\* renderPR of no Change; note: the nudge for a reason is appended.
NoRecord == [change |-> NoChange, state |-> "none", impact |-> FALSE, judgments |-> << >>,
             note |-> FALSE]
NotPushed == [state |-> "absent", impact |-> FALSE, judgments |-> << >>]
Idle == [pc |-> "idle", event |-> "opened", view |-> NoRecord, found |-> 0]
Others == [NoRecord EXCEPT !.state = "other"]

Marked == {i \in 1..Len(comments) : comments[i] # Others}

\* Changes.ByRef ranges over a map: any Change of the commit may come back.
ByRef == {c \in Change : changes[c].state # "absent"}

Render(c, note) ==
    [change |-> c, state |-> changes[c].state, impact |-> changes[c].impact,
     judgments |-> changes[c].judgments, note |-> note]

\* The check is neutral without a record or while a judgment is pending.
Conclusion(v) ==
    IF v.state = "none" \/ (v.state = "proposed" /\ v.impact) THEN "neutral" ELSE "success"

BridgeInit ==
    /\ changes = [c \in Change |-> NotPushed]
    /\ comments = << >>
    /\ check = [view |-> NoRecord, conclusion |-> "none"]
    /\ del = [d \in Delivery |-> Idle]
    /\ times = 0
    /\ orderly = TRUE /\ failing = {} /\ refused = {}

-----------------------------------------------------------------------------
\* A daemon pushes the Change; without impact it settles it as well.
PushOpened(c) ==
    /\ changes[c].state = "absent"
    /\ \E impact \in BOOLEAN :
         changes' = [changes EXCEPT ![c].state = "proposed", ![c].impact = impact]
    /\ UNCHANGED <<comments, check, del, times, history>>

\* The next record of that push; a judgment in between takes its version.
PushSettled(c) ==
    /\ changes[c].state = "proposed" /\ ~changes[c].impact
    /\ changes' = [changes EXCEPT ![c].state = "settled"]
    /\ UNCHANGED <<comments, check, del, times, history>>

Comment ==
    /\ Len(comments) - Cardinality(Marked) < MaxOthers
    /\ comments' = Append(comments, Others)
    /\ UNCHANGED <<changes, check, del, times, history>>

Deliver(d, e) ==
    /\ del[d].pc = "idle"
    /\ times < MaxTimes /\ times' = times + 1
    /\ del' = [del EXCEPT ![d] = [Idle EXCEPT !.pc = "start", !.event = e]]
    /\ orderly' = (orderly /\ \A o \in Delivery : del[o].pc = "idle")
    /\ UNCHANGED <<changes, comments, check, failing, refused>>

\* The delivery is answered, and its handler ends.
Return(d, how) ==
    /\ del' = [del EXCEPT ![d] = Idle]
    /\ IF how = "error"
       THEN failing' = failing \union {del[d].event} /\ refused' = refused \union ({del[d].event} \intersect Review)
       ELSE failing' = failing \ {del[d].event} /\ UNCHANGED refused

Goto(d, pc, view) ==
    /\ del' = [del EXCEPT ![d].pc = pc, ![d].view = view]
    /\ UNCHANGED <<failing, refused>>

-----------------------------------------------------------------------------
\* describe: under org.mu, find the Change of the head commit and render it.
Describe(d) ==
    /\ del[d].pc = "start" /\ del[d].event = "opened"
    /\ \/ ByRef = {} /\ Goto(d, "list", NoRecord)
       \/ \E c \in ByRef : Goto(d, "list", Render(c, FALSE))
    /\ UNCHANGED <<changes, comments, check, times, orderly>>

\* review: nothing happens when the commit has no Change, or when the reviewer
\* is not a member of the org, which is asked anew at every delivery.
Skip(d) ==
    /\ del[d].pc = "start" /\ del[d].event \in Review
    /\ ByRef = {} \/ del[d].event \in Visiting
    /\ Return(d, "ok")
    /\ UNCHANGED <<changes, comments, check, times, orderly>>

Judgeable(c) == changes[c].state \in {"proposed", "judged"}
NeedsReason(r, c) == changes[c].impact /\ r \notin Reasoned
Judged(r, c) == r \in Range(changes[c].judgments)

Record(r, c) ==
    [changes EXCEPT ![c].state = "judged", ![c].judgments = Append(@, r)]

\* Mutant of Judge: the comment is rendered before the judgment.
JudgeRendersFirst(d, c) ==
    /\ del[d].pc = "start" /\ del[d].event \in Review
    /\ c \in ByRef /\ ~Judged(del[d].event, c) /\ Judgeable(c) /\ ~NeedsReason(del[d].event, c)
    /\ changes' = Record(del[d].event, c)
    /\ Goto(d, "list", Render(c, FALSE))
    /\ UNCHANGED <<comments, check, times, orderly>>

\* The judgment is recorded under the key of the review, and the Change is
\* rendered with it.
Judge(d, c) ==
    /\ del[d].pc = "start" /\ del[d].event \in Review
    /\ c \in ByRef /\ ~Judged(del[d].event, c) /\ Judgeable(c) /\ ~NeedsReason(del[d].event, c)
    /\ changes' = Record(del[d].event, c)
    /\ Goto(d, "list", Render(c, FALSE)')
    /\ UNCHANGED <<comments, check, times, orderly>>

\* The judgment is durable, but the pipeline returns an error (the commit is
\* not acknowledged, or a projector fails): nothing is posted.
JudgeUnreported(d, c) ==
    /\ del[d].pc = "start" /\ del[d].event \in Review
    /\ c \in ByRef /\ ~Judged(del[d].event, c) /\ Judgeable(c) /\ ~NeedsReason(del[d].event, c)
    /\ changes' = Record(del[d].event, c)
    /\ Return(d, "error")
    /\ UNCHANGED <<comments, check, times, orderly>>

\* A replayed or refused judgment posts nothing; a missing reason posts a nudge.
JudgeNothing(d, c) ==
    /\ del[d].pc = "start" /\ del[d].event \in Review
    /\ c \in ByRef
    /\ \/ /\ Judged(del[d].event, c) \/ ~Judgeable(c)
          /\ Return(d, "ok")
       \/ /\ ~Judged(del[d].event, c) /\ Judgeable(c) /\ NeedsReason(del[d].event, c)
          /\ Goto(d, "list", Render(c, TRUE))
    /\ UNCHANGED <<changes, comments, check, times, orderly>>

-----------------------------------------------------------------------------
\* UpsertComment: the first comment with the marker on the first page.
ListComments(d) ==
    /\ del[d].pc = "list"
    /\ LET seen == {i \in Marked : i <= PerPage}
       IN  del' = [del EXCEPT ![d].pc = "put",
                              ![d].found = IF seen = {} THEN 0 ELSE Min(seen)]
    /\ UNCHANGED <<changes, comments, check, times, history>>

\* PATCH what was found, else POST.
Written(d) ==
    IF del[d].found = 0 THEN Append(comments, del[d].view)
    ELSE [comments EXCEPT ![del[d].found] = del[d].view]

\* A nudge ends here; everything else goes on to the check.
PutComment(d) ==
    /\ del[d].pc = "put"
    /\ comments' = Written(d)
    /\ IF del[d].view.note THEN Return(d, "ok") ELSE Goto(d, "check", del[d].view)
    /\ UNCHANGED <<changes, check, times, orderly>>

\* The new check run hides the older ones of its name.
PostCheck(d) ==
    /\ del[d].pc = "check"
    /\ check' = [view |-> del[d].view, conclusion |-> Conclusion(del[d].view)]
    /\ Return(d, "ok")
    /\ UNCHANGED <<changes, comments, times, orderly>>

\* A call fails (the tenant, the ledger, the token, GitHub), before or after
\* it wrote: the rest is dropped.  Only the error of a nudge is ignored.
CallFails(d) ==
    /\ del[d].pc # "idle"
    /\ \/ UNCHANGED comments
       \/ del[d].pc = "put" /\ comments' = Written(d)
    /\ Return(d, IF del[d].view.note THEN "ok" ELSE "error")
    /\ UNCHANGED <<changes, check, times, orderly>>

BridgeNext ==
    \/ \E c \in Change : PushOpened(c) \/ PushSettled(c)
    \/ Comment
    \/ \E d \in Delivery :
         \/ \E e \in Event : Deliver(d, e)
         \/ Describe(d) \/ Skip(d)
         \/ \E c \in Change : Judge(d, c) \/ JudgeUnreported(d, c) \/ JudgeNothing(d, c)
         \/ ListComments(d) \/ PutComment(d) \/ PostCheck(d) \/ CallFails(d)

BridgeSpec == BridgeInit /\ [][BridgeNext]_bridgeVars

-----------------------------------------------------------------------------
\* Types; a delivery only ever overwrites a comment that carries the marker.
BridgeTypeOK ==
    /\ \A c \in Change : changes[c].state \in {"absent", "proposed", "judged", "settled"}
    /\ \A d \in Delivery :
         /\ del[d].pc \in {"idle", "start", "list", "put", "check"}
         /\ del[d].found \in 0..Len(comments)
         /\ del[d].found # 0 => del[d].found \in Marked
    /\ check.conclusion \in {"none", "neutral", "success"}

AtRest == \A d \in Delivery : del[d].pc = "idle"

\* The view is of a Change and has its judgments, but for some of those in R.
Tells(v, R) ==
    v.change \in Change /\ Range(changes[v.change].judgments) \subseteq Range(v.judgments) \union R

\* The judgments that every delivery of their review reported.
Reported(R) == (UNION {Range(changes[c].judgments) : c \in Change}) \ R

\* After deliveries that followed one another, whatever failed in them, there is
\* one comment, and the only judgments of its Change that it may lack are of
\* reviews whose sender was told of an error at some time; the same holds of the
\* check (review, post: a judgment is recorded first and posted by what may fail).
OrderlyCommentIsCurrent ==
    orderly /\ AtRest /\ Len(comments) <= PerPage /\ Reported(refused) # {} =>
        /\ Cardinality(Marked) = 1
        /\ \A i \in Marked : Tells(comments[i], refused)
        /\ Tells(check.view, refused)
        /\ check.view.judgments # << >> => check.conclusion = "success"

-----------------------------------------------------------------------------
(* Refuted: what comments and documents say and the code does not do. *)

\* ADR 0016: a redelivery is idempotent.  Where the head commit has two
\* Changes, each delivery may find another one, and a review is a judgment on both.
ReviewJudgedOnce ==
    \A b, c \in Change :
        \A i \in DOMAIN changes[b].judgments, j \in DOMAIN changes[c].judgments :
            changes[b].judgments[i] = changes[c].judgments[j] => b = c /\ i = j

\* prbridge.go: "the one PR comment keelage keeps up to date".
OneComment == Cardinality(Marked) <= 1

\* The same line, of its text: once every delivery was answered and none of the
\* last answers is an error, the comment shows the judgments.  A redelivery of a
\* review that was recorded and not posted posts nothing, and is answered well.
CommentUpToDate ==
    AtRest /\ failing = {} /\ Reported({}) # {} => \E i \in Marked : Tells(comments[i], {})
=============================================================================
