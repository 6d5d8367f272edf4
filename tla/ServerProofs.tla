---------------------------- MODULE ServerProofs ----------------------------
(***************************************************************************)
(* What holds of the team server: of one tenant, and of the bridge that    *)
(* reports a pull request.                                                 *)
(*                                                                         *)
(* The projections of a tenant are exact for any number of requests, any   *)
(* push and batch size and any length of the ledger.  ExactProjection is   *)
(* not inductive: a step that hands record at + 1 to the indexes keeps it  *)
(* only if at is the cursor, which LoopsFollowCursor says of the two       *)
(* loops, and publishing starts there only because nothing is behind when  *)
(* a refusal is recorded or a command appended.                            *)
(*                                                                         *)
(* The bridge, for any deliveries, reviews, page size and number of        *)
(* redeliveries, and any Changes of the head commit.  The judgments of a   *)
(* Change are distinct because a review is looked up and recorded in one   *)
(* transaction; that a review is one judgment in all needs OneChange, as a *)
(* redelivery may find the other of two.  What the comment lacks after     *)
(* orderly deliveries is not inductive; Orderly says what a delivery that  *)
(* is alone knows at each of its steps: of the comment it found, of the    *)
(* Change it rendered, and of the judgment it has still to post.           *)
(***************************************************************************)
EXTENDS OrgRuntime, PRBridge, FiniteSetTheorems, WellFoundedInduction, TLAPS

-----------------------------------------------------------------------------
\* The tenant.
\* Replay and publish continue where the cursor is; a published batch is the
\* end of the ledger; and each loop returns to a step of its own kind.
LoopsFollowCursor ==
    /\ step = "replay" => at = cursor
    /\ step = "publish" => /\ at = cursor
                           /\ at < upto
                           /\ upto = head
                           /\ after \in {"return", "event", "leave"}
    /\ step = "reject" => cursor = head
    /\ step \in {"head", "replay"} => after \in {"reject", "handle", "return"}

\* The inductive invariant.
IInv ==
    /\ TypeOK
    /\ ExactProjection
    /\ AnswersAreCurrent
    /\ LoopsFollowCursor

-----------------------------------------------------------------------------
\* The list of the first n records, extended by the next one.
LEMMA CountAppend ==
    ASSUME NEW n \in Nat
    PROVE  Append([i \in 1..n |-> i], n + 1) = [i \in 1..(n + 1) |-> i]
<1> DEFINE s == [i \in 1..n |-> i]
<1>1. s \in Seq(Nat) /\ Len(s) = n
  OBVIOUS
<1>2. Append(s, n + 1) = [i \in 1..(n + 1) |-> IF i = n + 1 THEN n + 1 ELSE s[i]]
  BY <1>1
<1>3. QED
  BY <1>2

\* Handing the record after the cursor to the projectors keeps them exact.
LEMMA ApplyNext ==
    ASSUME IInv, at = cursor, at < head, Apply(at + 1), head' = head
    PROVE  /\ cursor' = cursor + 1
           /\ ExactProjection'
           /\ applied' \in Seq(Nat)
<1>1. cursor \in Nat /\ head \in Nat /\ applied \in Seq(Nat)
  BY DEF IInv, TypeOK
<1>2. cursor' = cursor + 1
  BY <1>1 DEF Apply, Larger
<1>3. applied' = [n \in 1..(cursor + 1) |-> n]
  BY <1>1, CountAppend DEF Apply, IInv, ExactProjection
<1>4. applied' \in Seq(Nat)
  BY <1>1 DEF Apply
<1>5. QED
  BY <1>1, <1>2, <1>3, <1>4 DEF ExactProjection

\* The initial state satisfies the inductive invariant.
LEMMA InitIInv == Init => IInv
<1> SUFFICES ASSUME Init PROVE IInv
  OBVIOUS
<1>1. applied = [n \in 1..cursor |-> n]
  BY DEF Init
<1>2. QED
  BY <1>1, OrgConstants
     DEF Init, IInv, TypeOK, ExactProjection, AnswersAreCurrent, LoopsFollowCursor, Steps

\* Every step preserves the inductive invariant.
LEMMA NextIInv == IInv /\ [Next]_vars => IInv'
<1> SUFFICES ASSUME IInv, [Next]_vars PROVE IInv'
  OBVIOUS
<1> USE OrgConstants
<1> USE DEF IInv, TypeOK, AnswersAreCurrent, LoopsFollowCursor, Steps
<1>1. CASE UNCHANGED vars
  BY <1>1 DEF vars, ExactProjection
<1>2. ASSUME NEW r \in Req, Arrive(r) PROVE IInv'
  BY <1>2 DEF Arrive, ExactProjection, locals
<1>3. ASSUME NEW r \in Req, EnterPush(r) PROVE IInv'
  BY <1>3 DEF EnterPush, Enter, ExactProjection
<1>4. ASSUME NEW r \in Req, EnterOther(r) PROVE IInv'
  BY <1>4 DEF EnterOther, Enter, ExactProjection
<1>5. CASE CatchUpHead
  BY <1>5 DEF CatchUpHead, ExactProjection
<1>6. CASE Replay
  <2>1. CASE at < head
    <3>1. Apply(at + 1) /\ head' = head /\ at' = at + 1 /\ step' = "replay"
      BY <1>6, <2>1 DEF Replay
    <3>2. cursor' = cursor + 1 /\ ExactProjection' /\ applied' \in Seq(Nat)
      BY <1>6, <2>1, <3>1, ApplyNext DEF Replay
    <3>3. QED
      BY <1>6, <3>1, <3>2 DEF Replay
  <2>2. CASE ~(at < head)
    BY <1>6, <2>2 DEF Replay, ExactProjection
  <2>3. QED
    BY <2>1, <2>2
<1>7. CASE Fail
  BY <1>7 DEF Fail, ExactProjection, locals
<1>8. CASE EventAnswered
  BY <1>8 DEF EventAnswered, ExactProjection
<1>9. CASE EventAccepted
  BY <1>9 DEF EventAccepted, ExactProjection
<1>10. CASE EventRejected
  BY <1>10 DEF EventRejected, ExactProjection
<1>11. CASE EventsDone
  BY <1>11 DEF EventsDone, ExactProjection
<1>12. CASE RecordRejection
  BY <1>12 DEF RecordRejection, Resume, ExactProjection
<1>13. CASE HandleNoEffect
  BY <1>13 DEF HandleNoEffect, ExactProjection, locals
<1>14. CASE HandleRefused
  BY <1>14 DEF HandleRefused, ExactProjection, locals
<1>15. CASE HandleAccepted
  BY <1>15 DEF HandleAccepted, ExactProjection
<1>16. CASE Publish
  <2>1. Apply(at + 1) /\ head' = head /\ at' = at + 1 /\ at < head
    BY <1>16 DEF Publish
  <2>2. cursor' = cursor + 1 /\ ExactProjection' /\ applied' \in Seq(Nat)
    BY <1>16, <2>1, ApplyNext DEF Publish
  <2>3. QED
    BY <1>16, <2>1, <2>2 DEF Publish
<1>17. CASE Leave
  BY <1>17 DEF Leave, ExactProjection, locals
<1>18. CASE Restart
  <2>1. applied' = [n \in 1..cursor' |-> n] /\ applied' \in Seq(Nat)
    BY <1>18 DEF Restart
  <2>2. QED
    BY <1>18, <2>1 DEF Restart, ExactProjection
<1>19. QED
  BY <1>1, <1>2, <1>3, <1>4, <1>5, <1>6, <1>7, <1>8, <1>9, <1>10, <1>11, <1>12,
     <1>13, <1>14, <1>15, <1>16, <1>17, <1>18 DEF Next, Holding

\* The inductive invariant holds of every reachable state of an org.
THEOREM OrgInvariant == Spec => []IInv
BY InitIInv, NextIInv, PTL DEF Spec

\* org.mu and the locals of its holder are used as TypeOK says.
THEOREM OrgTypeOK == Spec => []TypeOK
BY OrgInvariant, PTL DEF IInv

\* The indexes hold each record up to the cursor once and in order, whatever
\* mixture of pushes, refusals, commands, failed calls and restarts.
THEOREM OrgExactProjection == Spec => []ExactProjection
BY OrgInvariant, PTL DEF IInv

\* Gates and judgments are decided, and requests answered, on projections of
\* the whole ledger.
THEOREM OrgAnswersAreCurrent == Spec => []AnswersAreCurrent
BY OrgInvariant, PTL DEF IInv

-----------------------------------------------------------------------------
\* The bridge.
\* The head commit has one Change.
OneChange == \E c : Change = {c}

View == [change : Change \union {NoChange},
         state : {"none", "absent", "proposed", "judged", "settled"},
         impact : BOOLEAN, judgments : Seq(Review), note : BOOLEAN]
Pushed == [state : {"absent", "proposed", "judged", "settled"}, impact : BOOLEAN,
           judgments : Seq(Review)]
Local == [pc : {"idle", "start", "list", "put", "check"}, event : Event, view : View,
          found : Nat]

\* The variables hold values of their kind; a comment that was found exists.
Typed ==
    /\ changes \in [Change -> Pushed]
    /\ comments \in Seq(View \union {Others})
    /\ check \in [view : View, conclusion : {"none", "neutral", "success"}]
    /\ del \in [Delivery -> Local] /\ \A d \in Delivery : del[d].found <= Len(comments)
    /\ orderly \in BOOLEAN

\* A review is recorded once on a Change, and a Change with judgments is judged.
Distinct(js) == \A i, j \in 1..Len(js) : js[i] = js[j] => i = j
JudgedOnce(ch) ==
    /\ Distinct(ch.judgments)
    /\ ch.judgments # << >> => ch.state = "judged"
Judgments == \A c \in Change : JudgedOnce(changes[c])

MarkedIn(cm) == {i \in 1..Len(cm) : cm[i] # Others}
Working(x) == x.pc \in {"list", "put", "check"}

\* One delivery at work, and one comment, which a delivery that is about to
\* write has found.
Alone(cm, dl) ==
    /\ \A d, e \in Delivery : dl[d].pc # "idle" /\ dl[e].pc # "idle" => d = e
    /\ \A i, j \in MarkedIn(cm) : i = j
    /\ \A d \in Delivery : dl[d].pc = "put" =>
         IF dl[d].found = 0 THEN MarkedIn(cm) = {} ELSE dl[d].found \in MarkedIn(cm)

\* A rendering is of a Change as it is, or of none while nothing is judged.
Fresh(v, cs) ==
    /\ v.change = NoChange => \A c \in Change : cs[c].judgments = << >>
    /\ v.change # NoChange => v.judgments = cs[v.change].judgments
    /\ v.judgments # << >> => v.state = "judged"

\* Reported and Tells, of any Changes; what the comments and the check then say.
Has(cs, R) == \E c \in Change : ~(Range(cs[c].judgments) \subseteq R)
Told(v, cs, R) == v.change \in Change /\ Range(cs[v.change].judgments) \subseteq Range(v.judgments) \union R
Posted(cm, cs, R) == Has(cs, R) => MarkedIn(cm) # {} /\ \A i \in MarkedIn(cm) : Told(cm[i], cs, R)
Checked(ck, cs, R) == Has(cs, R) => Told(ck.view, cs, R) /\ (ck.view.judgments # << >> => ck.conclusion = "success")

\* The reviews of deliveries at some step, which may have recorded a judgment that
\* is not posted yet; a nudge has recorded none.
Owed(dl, pcs) ==
    {r \in Review : \E d \in Delivery : dl[d].pc \in pcs /\ ~dl[d].view.note /\ dl[d].event = r}
Writing == {"list", "put"}
Posting == {"list", "put", "check"}

\* What is rendered is current, and the comment and the check lack judgments only
\* of reviews that are about to be posted or were refused.
Showing(cm, cs, ck, dl, rf) ==
    /\ Alone(cm, dl)
    /\ \A d \in Delivery : Working(dl[d]) => Fresh(dl[d].view, cs)
    /\ Posted(cm, cs, rf \union Owed(dl, Writing))
    /\ Checked(ck, cs, rf \union Owed(dl, Posting))

Orderly == orderly /\ Len(comments) <= PerPage => Showing(comments, changes, check, del, refused)

-----------------------------------------------------------------------------
\* A set of naturals that is not empty has a least element.
LEMMA MinIsIn ==
    ASSUME NEW S, S \subseteq Nat, S # {}
    PROVE  Min(S) \in S
<1> DEFINE Less == {ss \in Nat \X Nat : ss[1] < ss[2]}
<1>0. IsWellFoundedOn(Less, Nat)
  BY NatLessThanWellFounded, Zenon DEF OpToRel
<1>1. PICK x \in S : \A y \in S : ~(<<y, x>> \in Less)
  BY <1>0, WFMin
<1>2. \A y \in S : x <= y
  <2> SUFFICES ASSUME NEW y \in S, ~(x <= y) PROVE FALSE
    OBVIOUS
  <2> y \in Nat /\ x \in Nat /\ y < x
    OBVIOUS
  <2> <<y, x>> \in Less
    OBVIOUS
  <2> QED BY <1>1
<1> QED BY <1>1, <1>2 DEF Min

\* A view is no comment of other people, and the renderings are views.
LEMMA Views ==
    /\ \A v \in View : v # Others
    /\ NoRecord \in View
    /\ Idle \in Local /\ Idle.pc = "idle" /\ Idle.found = 0
<1>1. NoRecord \in View
  BY DEF NoRecord, View
<1>2. Others.state = "other"
  BY DEF Others, NoRecord
<1>3. \A v \in View : v.state # "other"
  BY DEF View
<1>4. "opened" \in Event
  BY DEF Event
<1> QED BY <1>1, <1>2, <1>3, <1>4 DEF Idle, Local

\* A rendering of a Change is a view that shows its judgments.
LEMMA Rendered ==
    ASSUME NEW ch \in [Change -> Pushed], NEW c \in Change, NEW note \in BOOLEAN
    PROVE  LET v == [change |-> c, state |-> ch[c].state, impact |-> ch[c].impact,
                     judgments |-> ch[c].judgments, note |-> note]
           IN  /\ v \in View /\ v.note = note
               /\ (ch[c].judgments # << >> => ch[c].state = "judged") => Fresh(v, ch)
BY PRConstants DEF View, Pushed, Fresh

\* The handler of a delivery ends.
LEMMA Returns ==
    ASSUME Typed, NEW d \in Delivery, NEW how, Return(d, how)
    PROVE  /\ del' \in [Delivery -> Local]
           /\ \A o \in Delivery : del'[o] = IF o = d THEN Idle ELSE del[o]
           /\ \A o \in Delivery : del'[o].found <= Len(comments)
<1>1. \A o \in Delivery : del'[o] = IF o = d THEN Idle ELSE del[o]
  BY DEF Return, Typed
<1>2. del' \in [Delivery -> Local]
  BY Views DEF Return, Typed
<1>3. comments \in Seq(View \union {Others}) /\ 0 <= Len(comments)
  BY DEF Typed
<1> QED BY <1>1, <1>2, <1>3, Views DEF Typed

\* The handler goes on with a rendering.
LEMMA Goes ==
    ASSUME Typed, NEW d \in Delivery, NEW v \in View, NEW pc \in {"list", "put", "check"},
           Goto(d, pc, v)
    PROVE  /\ del' \in [Delivery -> Local]
           /\ \A o \in Delivery : o # d => del'[o] = del[o]
           /\ del'[d].pc = pc /\ del'[d].view = v /\ del'[d].event = del[d].event
           /\ del'[d].found = del[d].found
           /\ \A o \in Delivery : del'[o].found <= Len(comments)
<1>1. PICK x \in Local : /\ x = [del[d] EXCEPT !.pc = pc, !.view = v]
                         /\ x.pc = pc /\ x.view = v
                         /\ x.event = del[d].event /\ x.found = del[d].found
  <2> DEFINE y == [del[d] EXCEPT !.pc = pc, !.view = v]
  <2>1. del[d] \in Local BY DEF Typed
  <2>2. y \in Local /\ y.pc = pc /\ y.view = v /\ y.event = del[d].event /\ y.found = del[d].found
    BY <2>1 DEF Local
  <2> QED BY <2>2
<1>2. del' = [del EXCEPT ![d] = x]
  BY <1>1 DEF Goto, Typed
<1>3. del' \in [Delivery -> Local] /\ del'[d] = x /\ \A o \in Delivery : o # d => del'[o] = del[o]
  BY <1>2 DEF Typed
<1> QED BY <1>1, <1>3 DEF Typed
\* A review that was not judged is a judgment of its own.
LEMMA DistinctAppend ==
    ASSUME NEW js \in Seq(Review), Distinct(js), NEW r \in Review, r \notin Range(js)
    PROVE  Distinct(Append(js, r))
<1> DEFINE ks == Append(js, r)
<1>1. Len(ks) = Len(js) + 1 /\ ks[Len(js) + 1] = r /\ Len(js) \in Nat
  OBVIOUS
<1>2. \A i \in 1..Len(js) : ks[i] = js[i] /\ js[i] # r
  BY DEF Range
<1> HIDE DEF ks
<1>3. ASSUME NEW i \in 1..Len(ks), NEW j \in 1..Len(ks), ks[i] = ks[j] PROVE i = j
  <2>1. CASE i \in 1..Len(js) /\ j \in 1..Len(js)
    BY <1>2, <1>3, <2>1 DEF Distinct
  <2>2. CASE i \notin 1..Len(js) \/ j \notin 1..Len(js)
    BY <1>1, <1>2, <1>3, <2>2
  <2> QED BY <2>1, <2>2
<1> QED BY <1>3 DEF Distinct, ks

\* Recording a review that was not recorded yet.
LEMMA Recorded ==
    ASSUME Typed, Judgments, NEW r \in Review, NEW c \in Change, ~Judged(r, c),
           changes' = Record(r, c)
    PROVE  /\ changes' \in [Change -> Pushed]
           /\ Judgments'
           /\ changes'[c].state = "judged" /\ changes'[c].judgments # << >>
<1> DEFINE js == changes[c].judgments
<1>0. changes[c] \in Pushed /\ js \in Seq(Review)
  BY DEF Typed, Pushed
<1>1. PICK ks \in Seq(Review) : ks = Append(js, r) /\ ks # << >> /\ Distinct(ks)
  <2>1. Distinct(js) /\ r \notin Range(js)
    BY DEF Judgments, JudgedOnce, Judged
  <2>2. Append(js, r) \in Seq(Review) /\ Append(js, r) # << >>
    BY <1>0
  <2> HIDE DEF js
  <2> QED BY <1>0, <2>1, <2>2, DistinctAppend
<1>2. PICK x \in Pushed : /\ x = [changes[c] EXCEPT !.state = "judged", !.judgments = ks]
                          /\ x.state = "judged" /\ x.judgments = ks
  <2> DEFINE y == [changes[c] EXCEPT !.state = "judged", !.judgments = ks]
  <2>1. y \in Pushed /\ y.state = "judged" /\ y.judgments = ks
    BY <1>0 DEF Pushed
  <2> QED BY <2>1
<1>3. changes' = [changes EXCEPT ![c] = x]
  BY <1>1, <1>2 DEF Record, Typed
<1>4. /\ changes' \in [Change -> Pushed] /\ changes'[c] = x
      /\ \A b \in Change : b # c => changes'[b] = changes[b]
  BY <1>3 DEF Typed
<1>5. Judgments'
  BY <1>1, <1>2, <1>4 DEF Judgments, JudgedOnce
<1> QED BY <1>1, <1>2, <1>4, <1>5

\* What a delivery writes: a comment is changed, or one is added at the end.
LEMMA Writes ==
    ASSUME Typed, NEW d \in Delivery
    PROVE  /\ Written(d) \in Seq(View \union {Others})
           /\ Len(comments) <= Len(Written(d))
           /\ del[d].found = 0 =>
                /\ Len(Written(d)) = Len(comments) + 1
                /\ Written(d)[Len(comments) + 1] = del[d].view
                /\ \A i \in 1..Len(comments) : Written(d)[i] = comments[i]
           /\ del[d].found # 0 =>
                /\ Len(Written(d)) = Len(comments)
                /\ del[d].found \in 1..Len(comments)
                /\ \A i \in 1..Len(comments) :
                     Written(d)[i] = IF i = del[d].found THEN del[d].view ELSE comments[i]
<1>1. /\ comments \in Seq(View \union {Others}) /\ Len(comments) \in Nat
      /\ del[d] \in Local /\ del[d].found <= Len(comments)
  BY DEF Typed
<1>2. del[d].view \in View /\ del[d].found \in Nat
  BY <1>1 DEF Local
<1>3. CASE del[d].found = 0
  BY <1>1, <1>2, <1>3 DEF Written
<1>4. CASE del[d].found # 0
  BY <1>1, <1>2, <1>4 DEF Written
<1> QED BY <1>3, <1>4

-----------------------------------------------------------------------------
\* Nothing is pushed, delivered or written at first.
LEMMA BridgeInitSafe == BridgeInit => Typed /\ Judgments
<1> SUFFICES ASSUME BridgeInit PROVE Typed /\ Judgments
  OBVIOUS
<1>1. NotPushed \in Pushed /\ NotPushed.judgments = << >>
  BY DEF NotPushed, Pushed
<1>2. changes \in [Change -> Pushed] /\ \A c \in Change : changes[c] = NotPushed
  BY <1>1 DEF BridgeInit
<1>3. check \in [view : View, conclusion : {"none", "neutral", "success"}]
  BY Views DEF BridgeInit
<1>4. del \in [Delivery -> Local] /\ \A d \in Delivery : del[d] = Idle
  BY Views DEF BridgeInit
<1>5. comments = << >> /\ orderly = TRUE
  BY DEF BridgeInit
<1>6. Typed
  BY <1>2, <1>3, <1>4, <1>5, Views DEF Typed
<1>7. Judgments
  BY <1>1, <1>2 DEF Judgments, JudgedOnce, Distinct
<1> QED BY <1>6, <1>7

\* The steps that leave the Changes alone keep the judgments.
LEMMA SameJudgments ==
    ASSUME Judgments, changes' = changes
    PROVE  Judgments'
BY DEF Judgments, JudgedOnce

\* Every step keeps the types and the judgments distinct, for any Changes.
LEMMA BridgeNextSafe ==
    ASSUME Typed, Judgments, [BridgeNext]_bridgeVars
    PROVE  Typed' /\ Judgments'
<1> USE PRConstants
<1>1. ASSUME NEW c \in Change, PushOpened(c) \/ PushSettled(c) PROVE Typed' /\ Judgments'
  <2>1. changes[c] \in Pushed /\ changes[c].state \in {"absent", "proposed"}
    BY <1>1 DEF PushOpened, PushSettled, Typed
  <2>2. PICK x \in Pushed : /\ changes' = [changes EXCEPT ![c] = x]
                            /\ x.judgments = changes[c].judgments
    <3>1. CASE PushOpened(c)
      <4>1. PICK impact \in BOOLEAN :
              changes' = [changes EXCEPT ![c].state = "proposed", ![c].impact = impact]
        BY <3>1 DEF PushOpened
      <4> DEFINE y == [changes[c] EXCEPT !.state = "proposed", !.impact = impact]
      <4>2. y \in Pushed /\ y.judgments = changes[c].judgments
        BY <2>1 DEF Pushed
      <4>3. changes' = [changes EXCEPT ![c] = y]
        BY <4>1 DEF Typed
      <4> QED BY <4>2, <4>3
    <3>2. CASE PushSettled(c)
      <4> DEFINE y == [changes[c] EXCEPT !.state = "settled"]
      <4>2. y \in Pushed /\ y.judgments = changes[c].judgments
        BY <2>1 DEF Pushed
      <4>3. changes' = [changes EXCEPT ![c] = y]
        BY <3>2 DEF Typed, PushSettled
      <4> QED BY <4>2, <4>3
    <3> QED BY <1>1, <3>1, <3>2
  <2>3. /\ changes' \in [Change -> Pushed] /\ changes'[c] = x
        /\ \A b \in Change : b # c => changes'[b] = changes[b]
    BY <2>2 DEF Typed
  <2>4. changes[c].judgments = << >>
    BY <2>1 DEF Judgments, JudgedOnce
  <2>5. Judgments'
    BY <2>2, <2>3, <2>4 DEF Judgments, JudgedOnce
  <2>6. UNCHANGED <<comments, check, del, orderly>>
    BY <1>1 DEF PushOpened, PushSettled, history
  <2>7. Typed'
    BY <2>3, <2>6 DEF Typed
  <2> QED BY <2>5, <2>7
<1>2. CASE Comment
  <2>1. comments' = Append(comments, Others) /\ UNCHANGED <<changes, check, del, orderly>>
    BY <1>2 DEF Comment, history
  <2>2. /\ comments' \in Seq(View \union {Others}) /\ Len(comments') = Len(comments) + 1
        /\ Len(comments) \in Nat
    BY <2>1 DEF Typed
  <2>3. \A d \in Delivery : del[d].found \in Nat /\ del[d].found <= Len(comments)
    BY DEF Typed, Local
  <2>4. Typed'
    BY <2>1, <2>2, <2>3 DEF Typed
  <2> QED BY <2>1, <2>4, SameJudgments
<1>3. ASSUME NEW d \in Delivery, NEW e \in Event, Deliver(d, e) PROVE Typed' /\ Judgments'
  <2>1. UNCHANGED <<changes, comments, check>> /\ orderly' \in BOOLEAN
    BY <1>3 DEF Deliver
  <2>2. PICK x \in Local : x = [Idle EXCEPT !.pc = "start", !.event = e] /\ x.found = 0
    <3> DEFINE y == [Idle EXCEPT !.pc = "start", !.event = e]
    <3>1. y \in Local /\ y.found = Idle.found
      BY Views DEF Local
    <3> QED BY <3>1, Views
  <2>3. del' = [del EXCEPT ![d] = x]
    BY <1>3, <2>2 DEF Deliver
  <2>4. del' \in [Delivery -> Local] /\ \A o \in Delivery : del'[o] = IF o = d THEN x ELSE del[o]
    BY <2>3 DEF Typed
  <2>5. 0 <= Len(comments)
    BY DEF Typed
  <2>6. Typed'
    BY <2>1, <2>2, <2>4, <2>5 DEF Typed
  <2> QED BY <2>1, <2>6, SameJudgments
<1>4. ASSUME NEW d \in Delivery, Describe(d) PROVE Typed' /\ Judgments'
  <2>1. UNCHANGED <<changes, comments, check, orderly>>
    BY <1>4 DEF Describe
  <2>2. \E v \in View : Goto(d, "list", v)
    BY <1>4, Views, Rendered DEF Describe, Typed, ByRef, Render
  <2>3. Typed'
    BY <2>1, <2>2, Goes DEF Typed
  <2> QED BY <2>1, <2>3, SameJudgments
<1>5. ASSUME NEW d \in Delivery, Skip(d) PROVE Typed' /\ Judgments'
  <2>1. UNCHANGED <<changes, comments, check, orderly>> /\ Return(d, "ok")
    BY <1>5 DEF Skip
  <2>2. Typed'
    BY <2>1, Returns DEF Typed
  <2> QED BY <2>1, <2>2, SameJudgments
<1>6. ASSUME NEW d \in Delivery, NEW c \in Change, Judge(d, c) PROVE Typed' /\ Judgments'
  <2>1. /\ UNCHANGED <<comments, check, orderly>> /\ changes' = Record(del[d].event, c)
        /\ del[d].event \in Review /\ ~Judged(del[d].event, c)
        /\ Goto(d, "list", Render(c, FALSE)')
    BY <1>6 DEF Judge
  <2>2. changes' \in [Change -> Pushed] /\ Judgments'
    BY <2>1, Recorded
  <2>3. Render(c, FALSE)' \in View
    BY <2>2, Rendered DEF Render
  <2>4. Typed'
    BY <2>1, <2>2, <2>3, Goes DEF Typed
  <2> QED BY <2>2, <2>4
<1>7. ASSUME NEW d \in Delivery, NEW c \in Change, JudgeUnreported(d, c) PROVE Typed' /\ Judgments'
  <2>1. /\ UNCHANGED <<comments, check, orderly>> /\ changes' = Record(del[d].event, c)
        /\ del[d].event \in Review /\ ~Judged(del[d].event, c)
        /\ Return(d, "error")
    BY <1>7 DEF JudgeUnreported
  <2>2. changes' \in [Change -> Pushed] /\ Judgments'
    BY <2>1, Recorded
  <2>3. Typed'
    BY <2>1, <2>2, Returns DEF Typed
  <2> QED BY <2>2, <2>3
<1>8. ASSUME NEW d \in Delivery, NEW c \in Change, JudgeNothing(d, c) PROVE Typed' /\ Judgments'
  <2>1. UNCHANGED <<changes, comments, check, orderly>>
    BY <1>8 DEF JudgeNothing
  <2>2. Return(d, "ok") \/ \E v \in View : Goto(d, "list", v)
    BY <1>8, Rendered DEF JudgeNothing, Typed, Render
  <2>3. Typed'
    BY <2>1, <2>2, Returns, Goes DEF Typed
  <2> QED BY <2>1, <2>3, SameJudgments
<1>9. ASSUME NEW d \in Delivery, ListComments(d) PROVE Typed' /\ Judgments'
  <2> DEFINE seen == {i \in Marked : i <= PerPage}
  <2>1. UNCHANGED <<changes, comments, check, orderly>>
    BY <1>9 DEF ListComments, history
  <2>2. PICK f \in Nat : /\ f = IF seen = {} THEN 0 ELSE Min(seen)
                         /\ f <= Len(comments)
    <3>1. seen \subseteq 1..Len(comments) /\ Len(comments) \in Nat
      BY DEF Marked, Typed
    <3>2. seen # {} => Min(seen) \in seen
      BY <3>1, MinIsIn
    <3> HIDE DEF seen
    <3>3. CASE seen = {} BY <3>1, <3>3
    <3>4. CASE seen # {}
      <4> Min(seen) \in 1..Len(comments) BY <3>1, <3>2, <3>4
      <4> QED BY <3>1, <3>4
    <3> QED BY <3>3, <3>4
  <2>3. PICK x \in Local : x = [del[d] EXCEPT !.pc = "put", !.found = f] /\ x.found = f
    <3> DEFINE y == [del[d] EXCEPT !.pc = "put", !.found = f]
    <3>1. del[d] \in Local BY DEF Typed
    <3>2. y \in Local /\ y.found = f
      BY <3>1 DEF Local
    <3> QED BY <3>2
  <2>4. del' = [del EXCEPT ![d] = x]
    BY <1>9, <2>2, <2>3 DEF ListComments, Typed
  <2>5. del' \in [Delivery -> Local] /\ \A o \in Delivery : del'[o] = IF o = d THEN x ELSE del[o]
    BY <2>4 DEF Typed
  <2>6. Typed'
    BY <2>1, <2>2, <2>3, <2>5 DEF Typed
  <2> QED BY <2>1, <2>6, SameJudgments
<1>10. ASSUME NEW d \in Delivery, PutComment(d) PROVE Typed' /\ Judgments'
  <2>1. UNCHANGED <<changes, check, orderly>> /\ comments' = Written(d)
    BY <1>10 DEF PutComment
  <2>2. Return(d, "ok") \/ \E v \in View : Goto(d, "check", v)
    <3>1. del[d].view \in View
      BY DEF Typed, Local
    <3> QED BY <1>10, <3>1 DEF PutComment
  <2>3. del' \in [Delivery -> Local] /\ \A o \in Delivery : del'[o].found <= Len(comments)
    BY <2>2, Returns, Goes
  <2>4. /\ comments' \in Seq(View \union {Others}) /\ Len(comments) <= Len(comments')
        /\ Len(comments) \in Nat /\ Len(comments') \in Nat
    BY <2>1, Writes DEF Typed
  <2>5. \A o \in Delivery : del'[o].found \in Nat
    BY <2>3 DEF Local
  <2>6. Typed'
    BY <2>1, <2>3, <2>4, <2>5 DEF Typed
  <2> QED BY <2>1, <2>6, SameJudgments
<1>11. ASSUME NEW d \in Delivery, PostCheck(d) PROVE Typed' /\ Judgments'
  <2>1. UNCHANGED <<changes, comments, orderly>> /\ Return(d, "ok")
    BY <1>11 DEF PostCheck
  <2>2. check' \in [view : View, conclusion : {"none", "neutral", "success"}]
    <3>1. del[d].view \in View
      BY DEF Typed, Local
    <3> QED BY <1>11, <3>1 DEF PostCheck, Conclusion
  <2>3. Typed'
    BY <2>1, <2>2, Returns DEF Typed
  <2> QED BY <2>1, <2>3, SameJudgments
<1>12. ASSUME NEW d \in Delivery, CallFails(d) PROVE Typed' /\ Judgments'
  <2>1. /\ UNCHANGED <<changes, check, orderly>>
        /\ comments' = comments \/ comments' = Written(d)
    BY <1>12 DEF CallFails
  <2>2. \E how : Return(d, how)
    BY <1>12 DEF CallFails
  <2>3. del' \in [Delivery -> Local] /\ \A o \in Delivery : del'[o].found <= Len(comments)
    BY <2>2, Returns
  <2>4. /\ comments' \in Seq(View \union {Others}) /\ Len(comments) <= Len(comments')
        /\ Len(comments) \in Nat /\ Len(comments') \in Nat
    BY <2>1, Writes DEF Typed
  <2>5. \A o \in Delivery : del'[o].found \in Nat
    BY <2>3 DEF Local
  <2>6. \A o \in Delivery : del'[o].found <= Len(comments')
    BY <2>3, <2>4, <2>5
  <2>7. Typed'
    BY <2>1, <2>3, <2>4, <2>6 DEF Typed
  <2> QED BY <2>1, <2>7, SameJudgments
<1>13. CASE UNCHANGED bridgeVars
  BY <1>13, SameJudgments DEF bridgeVars, history, Typed
<1> QED BY <1>1, <1>2, <1>3, <1>4, <1>5, <1>6, <1>7, <1>8, <1>9, <1>10, <1>11, <1>12, <1>13
        DEF BridgeNext
-----------------------------------------------------------------------------
\* A delivery of an orderly history is the only one at work.
LEMMA OthersIdle ==
    ASSUME NEW cm, NEW dl, Alone(cm, dl), NEW d \in Delivery, dl[d].pc # "idle"
    PROVE  \A o \in Delivery : o # d => dl[o].pc = "idle"
BY DEF Alone

\* The delivery that is alone returns: nothing else is at work.
LEMMA QuietReturn ==
    ASSUME NEW cm, NEW dl, Alone(cm, dl), NEW d \in Delivery, dl[d].pc # "idle", NEW em,
           \A i, j \in MarkedIn(em) : i = j, NEW dm,
           \A o \in Delivery : dm[o] = IF o = d THEN Idle ELSE dl[o]
    PROVE  Alone(em, dm) /\ \A o \in Delivery : dm[o].pc = "idle"
<1>1. \A o \in Delivery : dm[o].pc = "idle"
  BY OthersIdle, Views
<1> QED BY <1>1 DEF Alone

\* A delivery that rendered a Change is about to write.
LEMMA AloneGoto ==
    ASSUME Typed, NEW d \in Delivery, NEW v \in View, Goto(d, "list", v),
           Alone(comments, del), del[d].pc = "start"
    PROVE  /\ Alone(comments, del')
           /\ \A o \in Delivery : Working(del'[o]) => o = d
           /\ del'[d].pc = "list" /\ del'[d].view = v /\ del'[d].event = del[d].event
           /\ \A o \in Delivery : o # d => del'[o] = del[o]
<1>1. /\ \A o \in Delivery : o # d => del'[o] = del[o]
      /\ del'[d].pc = "list" /\ del'[d].view = v /\ del'[d].event = del[d].event
  BY Goes
<1>2. \A o \in Delivery : o # d => del'[o].pc = "idle"
  BY <1>1, OthersIdle
<1> QED BY <1>1, <1>2 DEF Alone, Working

\* What a delivery that is alone leaves of the comments: the view that it wrote.
LEMMA AloneWrite ==
    ASSUME Typed, NEW d \in Delivery, del[d].pc = "put", Alone(comments, del)
    PROVE  \E i : MarkedIn(Written(d)) = {i} /\ Written(d)[i] = del[d].view
<1>1. del[d].view \in View /\ del[d].view # Others /\ Len(comments) \in Nat
  BY Views DEF Typed, Local
<1>2. CASE del[d].found = 0
  <2>1. \A i \in 1..Len(comments) : comments[i] = Others
    BY <1>2 DEF Alone, MarkedIn
  <2>2. MarkedIn(Written(d)) = {Len(comments) + 1}
    BY <1>1, <1>2, <2>1, Writes DEF MarkedIn
  <2> QED BY <1>2, <2>2, Writes
<1>3. CASE del[d].found # 0
  <2>1. del[d].found \in MarkedIn(comments) /\ \A i \in MarkedIn(comments) : i = del[d].found
    BY <1>3 DEF Alone
  <2>2. \A i \in 1..Len(comments) : i # del[d].found => comments[i] = Others
    BY <2>1 DEF MarkedIn
  <2>3. MarkedIn(Written(d)) = {del[d].found}
    BY <1>1, <1>3, <2>2, Writes DEF MarkedIn
  <2> QED BY <1>3, <2>3, Writes
<1> QED BY <1>2, <1>3

\* What may lack fewer judgments may lack more.
LEMMA MayLackMore ==
    ASSUME NEW cm, NEW ck, NEW cs, NEW R, NEW S, R \subseteq S
    PROVE  /\ Posted(cm, cs, R) => Posted(cm, cs, S)
           /\ Checked(ck, cs, R) => Checked(ck, cs, S)
<1>1. Has(cs, S) => Has(cs, R)
  BY DEF Has
<1>2. \A v : Told(v, cs, R) => Told(v, cs, S)
  BY DEF Told
<1>3. Posted(cm, cs, R) => Posted(cm, cs, S)
  BY <1>1, <1>2 DEF Posted
<1>4. Checked(ck, cs, R) => Checked(ck, cs, S)
  BY <1>1, <1>2 DEF Checked
<1> QED BY <1>3, <1>4

\* As long as the judgments stay, so does what is said of them.
LEMMA SameSaid ==
    ASSUME NEW cs, NEW ds, \A c \in Change : ds[c].judgments = cs[c].judgments
    PROVE  /\ \A cm, R : Posted(cm, cs, R) => Posted(cm, ds, R)
           /\ \A ck, R : Checked(ck, cs, R) => Checked(ck, ds, R)
           /\ \A v : v.change \in Change \union {NoChange} /\ Fresh(v, cs) => Fresh(v, ds)
<1>1. \A R : Has(ds, R) => Has(cs, R)
  BY DEF Has
<1>2. \A v, R : Told(v, cs, R) => Told(v, ds, R)
  BY DEF Told
<1>3. \A cm, R : Posted(cm, cs, R) => Posted(cm, ds, R)
  BY <1>1, <1>2 DEF Posted
<1>4. \A ck, R : Checked(ck, cs, R) => Checked(ck, ds, R)
  BY <1>1, <1>2 DEF Checked
<1>5. \A v : v.change \in Change \union {NoChange} /\ Fresh(v, cs) => Fresh(v, ds)
  BY DEF Fresh
<1> QED BY <1>3, <1>4, <1>5

\* The Changes have at most one judgment more, of r.
Adds(cs, ds, r) == \A c \in Change : Range(ds[c].judgments) \subseteq Range(cs[c].judgments) \union {r}

\* A judgment more may be lacking where its review may.
LEMMA OneMore ==
    ASSUME NEW cs, NEW ds, NEW r, Adds(cs, ds, r), NEW R, NEW S, R \union {r} \subseteq S, NEW cm, NEW ck
    PROVE  /\ Posted(cm, cs, R) => Posted(cm, ds, S)
           /\ Checked(ck, cs, R) => Checked(ck, ds, S)
<1>1. Has(ds, S) => Has(cs, R)
  BY DEF Has, Adds
<1>2. \A v : Told(v, cs, R) => Told(v, ds, S)
  BY DEF Told, Adds
<1>3. Posted(cm, cs, R) => Posted(cm, ds, S)
  BY <1>1, <1>2 DEF Posted
<1>4. Checked(ck, cs, R) => Checked(ck, ds, S)
  BY <1>1, <1>2 DEF Checked
<1> QED BY <1>3, <1>4

\* A rendering that is current lacks nothing.
LEMMA FreshTells ==
    ASSUME NEW v \in View, NEW cs, Fresh(v, cs), NEW R, Has(cs, R)
    PROVE  Told(v, cs, R)
<1>1. Range(<< >>) = {}
  BY DEF Range
<1>2. v.change # NoChange
  BY <1>1 DEF Has, Fresh
<1> QED BY <1>2 DEF Told, Fresh, View

-----------------------------------------------------------------------------
\* At first there are neither judgments nor deliveries.
LEMMA BridgeInitOrderly == BridgeInit => Orderly
<1> SUFFICES ASSUME BridgeInit PROVE Showing(comments, changes, check, del, refused)
  BY DEF Orderly
<1>1. \A d \in Delivery : del[d].pc = "idle"
  BY Views DEF BridgeInit
<1>2. comments = << >> /\ MarkedIn(comments) = {}
  BY DEF BridgeInit, MarkedIn
<1>3. \A c \in Change : changes[c].judgments = << >>
  BY DEF BridgeInit, NotPushed
<1>4. \A R : ~Has(changes, R)
  BY <1>3 DEF Has, Range
<1> QED BY <1>1, <1>2, <1>4 DEF Showing, Alone, Working, Posted, Checked

\* A delivery that skips, or is answered without a judgment, leaves all as it is.
LEMMA OrderlyReturn ==
    ASSUME Typed, Orderly, NEW d \in Delivery, del[d].pc = "start", Return(d, "ok"),
           UNCHANGED <<changes, comments, check, orderly>>
    PROVE  Orderly'
<1> SUFFICES ASSUME Showing(comments, changes, check, del, refused)
             PROVE  Showing(comments, changes, check, del', refused)
  <2>1. refused' = refused
    BY DEF Return
  <2> QED BY <2>1 DEF Orderly
<1>1. \A o \in Delivery : del'[o] = IF o = d THEN Idle ELSE del[o]
  BY Returns
<1>2. PICK dm : dm = del'
  OBVIOUS
<1>3. Alone(comments, dm) /\ \A o \in Delivery : dm[o].pc = "idle"
  <2>1. Alone(comments, del) /\ (\A i, j \in MarkedIn(comments) : i = j) /\ del[d].pc # "idle"
    BY DEF Showing, Alone
  <2>2. \A o \in Delivery : dm[o] = IF o = d THEN Idle ELSE del[o]
    BY <1>1, <1>2
  <2> QED BY <2>1, <2>2, QuietReturn
<1>4. /\ refused \union Owed(del, Writing) \subseteq refused \union Owed(dm, Writing)
      /\ refused \union Owed(del, Posting) \subseteq refused \union Owed(dm, Posting)
  BY <1>1, <1>2 DEF Owed, Writing, Posting
<1> QED BY <1>2, <1>3, <1>4, MayLackMore DEF Showing, Working

\* A delivery that rendered what is current goes on to write it.
LEMMA OrderlyGoto ==
    ASSUME Typed, Orderly, NEW d \in Delivery, del[d].pc = "start", NEW v \in View, Goto(d, "list", v),
           Fresh(v, changes), UNCHANGED <<changes, comments, check, orderly>>
    PROVE  Orderly'
<1> SUFFICES ASSUME Showing(comments, changes, check, del, refused)
             PROVE  Showing(comments, changes, check, del', refused)
  <2>1. refused' = refused
    BY DEF Goto
  <2> QED BY <2>1 DEF Orderly
<1>1. /\ Alone(comments, del')
      /\ \A o \in Delivery : Working(del'[o]) => o = d
      /\ del'[d].view = v
      /\ \A o \in Delivery : o # d => del'[o] = del[o]
  BY AloneGoto DEF Showing
<1>2. PICK dm : dm = del'
  OBVIOUS
<1>3. /\ refused \union Owed(del, Writing) \subseteq refused \union Owed(dm, Writing)
      /\ refused \union Owed(del, Posting) \subseteq refused \union Owed(dm, Posting)
  BY <1>1, <1>2 DEF Owed, Writing, Posting
<1>4. \A o \in Delivery : Working(dm[o]) => Fresh(dm[o].view, changes)
  BY <1>1, <1>2
<1> QED BY <1>1, <1>2, <1>3, <1>4, MayLackMore DEF Showing

\* What a recorded judgment adds to the Changes.
LEMMA RecordedRange ==
    ASSUME Typed, NEW r \in Review, NEW c \in Change, changes' = Record(r, c)
    PROVE  \A b \in Change : Range(changes'[b].judgments) \subseteq Range(changes[b].judgments) \union {r}
<1> SUFFICES ASSUME NEW b \in Change
             PROVE  Range(changes'[b].judgments) \subseteq Range(changes[b].judgments) \union {r}
  OBVIOUS
<1>1. changes[b] \in Pushed /\ changes[c] \in Pushed /\ changes[c].judgments \in Seq(Review)
  BY DEF Typed, Pushed
<1>2. CASE b = c
  <2>1. changes'[b].judgments = Append(changes[c].judgments, r)
    BY <1>1, <1>2 DEF Record, Typed, Pushed
  <2> QED BY <1>1, <1>2, <2>1 DEF Range
<1>3. CASE b # c
  <2>1. changes'[b] = changes[b]
    BY <1>3 DEF Record, Typed
  <2> QED BY <2>1
<1> QED BY <1>2, <1>3

\* Every step keeps what a delivery that is alone knows.
LEMMA BridgeNextOrderly ==
    ASSUME Typed, Judgments, Orderly, [BridgeNext]_bridgeVars
    PROVE  Orderly'
<1> USE PRConstants
<1>0. \A ch \in [Change -> Pushed], c \in Change, note \in BOOLEAN :
        (ch[c].judgments # << >> => ch[c].state = "judged") =>
          LET v == [change |-> c, state |-> ch[c].state, impact |-> ch[c].impact,
                    judgments |-> ch[c].judgments, note |-> note]
          IN  v \in View /\ Fresh(v, ch)
  BY Rendered
<1>1. ASSUME NEW c \in Change, PushOpened(c) \/ PushSettled(c) PROVE Orderly'
  <2>1. \A b \in Change : changes'[b].judgments = changes[b].judgments
    <3>1. \A b \in Change : changes[b] \in Pushed
      BY DEF Typed
    <3>2. CASE PushOpened(c)
      BY <3>1, <3>2 DEF PushOpened, Typed, Pushed
    <3>3. CASE PushSettled(c)
      BY <3>1, <3>3 DEF PushSettled, Typed, Pushed
    <3> QED BY <1>1, <3>2, <3>3
  <2>2. UNCHANGED <<comments, check, del, orderly, refused>>
    BY <1>1 DEF PushOpened, PushSettled, history
  <2>3. PICK ch : ch = changes'
    OBVIOUS
  <2>4. \A d \in Delivery : del[d].view.change \in Change \union {NoChange}
    BY DEF Typed, Local, View
  <2>5. Showing(comments, changes, check, del, refused) => Showing(comments, ch, check, del, refused)
    BY <2>1, <2>3, <2>4, SameSaid DEF Showing
  <2> QED BY <2>2, <2>3, <2>5 DEF Orderly
<1>2. CASE Comment
  <2>1. comments' = Append(comments, Others) /\ UNCHANGED <<changes, check, del, orderly, refused>>
    BY <1>2 DEF Comment, history
  <2>2. /\ Len(comments') = Len(comments) + 1 /\ Len(comments) \in Nat
        /\ comments'[Len(comments) + 1] = Others
        /\ \A i \in 1..Len(comments) : comments'[i] = comments[i]
    BY <2>1 DEF Typed
  <2>3. PICK cm : cm = comments'
    OBVIOUS
  <2>4. /\ MarkedIn(cm) = MarkedIn(comments)
        /\ \A i \in MarkedIn(comments) : cm[i] = comments[i]
    BY <2>2, <2>3 DEF MarkedIn
  <2>5. Showing(comments, changes, check, del, refused) => Showing(cm, changes, check, del, refused)
    BY <2>4 DEF Showing, Alone, Posted
  <2>6. Len(comments') <= PerPage => Len(comments) <= PerPage
    BY <2>2
  <2> QED BY <2>1, <2>3, <2>5, <2>6 DEF Orderly
<1>3. ASSUME NEW d \in Delivery, NEW e \in Event, Deliver(d, e) PROVE Orderly'
  <2>1. /\ UNCHANGED <<changes, comments, check, refused>>
        /\ orderly' => orderly /\ \A o \in Delivery : del[o].pc = "idle"
    BY <1>3 DEF Deliver
  <2>2. PICK dm : dm = del'
    OBVIOUS
  <2>3. dm[d].pc = "start" /\ \A o \in Delivery : o # d => dm[o] = del[o]
    BY <1>3, <2>2 DEF Deliver, Typed, Idle
  <2> SUFFICES ASSUME Showing(comments, changes, check, del, refused), \A o \in Delivery : del[o].pc = "idle"
               PROVE  Showing(comments, changes, check, dm, refused)
    BY <2>1, <2>2 DEF Orderly
  <2>4. \A o \in Delivery : ~Working(dm[o]) /\ (dm[o].pc # "idle" => o = d)
    BY <2>3 DEF Working
  <2>5. Alone(comments, dm)
    BY <2>4 DEF Showing, Alone, Working
  <2>6. /\ refused \union Owed(del, Writing) \subseteq refused \union Owed(dm, Writing)
        /\ refused \union Owed(del, Posting) \subseteq refused \union Owed(dm, Posting)
    BY <2>3 DEF Owed, Writing, Posting
  <2> QED BY <2>4, <2>5, <2>6, MayLackMore DEF Showing
<1>4. ASSUME NEW d \in Delivery, Describe(d) PROVE Orderly'
  <2>1. UNCHANGED <<changes, comments, check, orderly>> /\ del[d].pc = "start"
    BY <1>4 DEF Describe
  <2>2. CASE ByRef = {} /\ Goto(d, "list", NoRecord)
    <3>1. \A c \in Change : changes[c].judgments = << >>
      BY <2>2 DEF ByRef, Judgments, JudgedOnce
    <3>2. Fresh(NoRecord, changes)
      BY <3>1 DEF Fresh, NoRecord
    <3> QED BY <2>1, <2>2, <3>2, Views, OrderlyGoto
  <2>3. ASSUME NEW c \in ByRef, Goto(d, "list", Render(c, FALSE)) PROVE Orderly'
    <3>1. c \in Change /\ (changes[c].judgments # << >> => changes[c].state = "judged")
      BY DEF ByRef, Judgments, JudgedOnce
    <3>2. Render(c, FALSE) \in View /\ Fresh(Render(c, FALSE), changes)
      BY <1>0, <3>1 DEF Render, Typed
    <3> QED BY <2>1, <2>3, <3>2, OrderlyGoto
  <2> QED BY <1>4, <2>2, <2>3 DEF Describe
<1>5. ASSUME NEW d \in Delivery, Skip(d) PROVE Orderly'
  BY <1>5, OrderlyReturn DEF Skip
<1>6. ASSUME NEW d \in Delivery, NEW c \in Change, Judge(d, c) PROVE Orderly'
  <2>1. /\ UNCHANGED <<comments, check, orderly>> /\ changes' = Record(del[d].event, c)
        /\ del[d].event \in Review /\ ~Judged(del[d].event, c) /\ del[d].pc = "start"
        /\ Goto(d, "list", Render(c, FALSE)')
    BY <1>6 DEF Judge
  <2>2. /\ changes' \in [Change -> Pushed] /\ changes'[c].state = "judged"
        /\ \A b \in Change : Range(changes'[b].judgments) \subseteq Range(changes[b].judgments) \union {del[d].event}
    BY <2>1, Recorded, RecordedRange
  <2>3. PICK v, ch : v = Render(c, FALSE)' /\ ch = changes'
    OBVIOUS
  <2>4. v \in View /\ Fresh(v, ch) /\ ~v.note
    BY <1>0, <2>2, <2>3 DEF Render
  <2>5. refused' = refused
    BY <2>1 DEF Goto
  <2> SUFFICES ASSUME Showing(comments, changes, check, del, refused)
               PROVE  Showing(comments, ch, check, del', refused)
    BY <2>1, <2>3, <2>5 DEF Orderly
  <2>6. PICK dm : dm = del'
    OBVIOUS
  <2>7. /\ Alone(comments, dm)
        /\ \A o \in Delivery : Working(dm[o]) => o = d
        /\ dm[d].pc = "list" /\ dm[d].view = v /\ dm[d].event = del[d].event
        /\ \A o \in Delivery : o # d => dm[o] = del[o]
    <3>1. Alone(comments, del)
      BY DEF Showing
    <3>2. Goto(d, "list", v)
      BY <2>1, <2>3
    <3> QED BY <2>1, <2>4, <2>6, <3>1, <3>2, AloneGoto
  <2>8. /\ refused \union Owed(del, Writing) \subseteq refused \union Owed(dm, Writing)
        /\ refused \union Owed(del, Posting) \subseteq refused \union Owed(dm, Posting)
    BY <2>1, <2>7 DEF Owed, Writing, Posting
  <2>9. del[d].event \in Owed(dm, Writing) /\ del[d].event \in Owed(dm, Posting)
    BY <2>1, <2>4, <2>7 DEF Owed, Writing, Posting
  <2>10. Posted(comments, ch, refused \union Owed(dm, Writing))
    <3>1. (refused \union Owed(del, Writing)) \union {del[d].event} \subseteq refused \union Owed(dm, Writing)
      BY <2>8, <2>9
    <3>2. Posted(comments, changes, refused \union Owed(del, Writing))
      BY DEF Showing
    <3>3. Adds(changes, ch, del[d].event)
      BY <2>2, <2>3 DEF Adds
    <3> QED BY <3>1, <3>2, <3>3, OneMore
  <2>11. Checked(check, ch, refused \union Owed(dm, Posting))
    <3>1. (refused \union Owed(del, Posting)) \union {del[d].event} \subseteq refused \union Owed(dm, Posting)
      BY <2>8, <2>9
    <3>2. Checked(check, changes, refused \union Owed(del, Posting))
      BY DEF Showing
    <3>3. Adds(changes, ch, del[d].event)
      BY <2>2, <2>3 DEF Adds
    <3> QED BY <3>1, <3>2, <3>3, OneMore
  <2>12. \A o \in Delivery : Working(dm[o]) => Fresh(dm[o].view, ch)
    BY <2>4, <2>7
  <2> QED BY <2>6, <2>7, <2>10, <2>11, <2>12 DEF Showing
<1>7. ASSUME NEW d \in Delivery, NEW c \in Change, JudgeUnreported(d, c) PROVE Orderly'
  <2>1. /\ UNCHANGED <<comments, check, orderly>> /\ changes' = Record(del[d].event, c)
        /\ del[d].event \in Review /\ del[d].pc = "start" /\ Return(d, "error")
    BY <1>7 DEF JudgeUnreported
  <2>2. \A b \in Change : Range(changes'[b].judgments) \subseteq Range(changes[b].judgments) \union {del[d].event}
    BY <2>1, RecordedRange
  <2>3. PICK ch, dm, rg : ch = changes' /\ dm = del' /\ rg = refused'
    OBVIOUS
  <2>4. rg = refused \union {del[d].event}
    BY <2>1, <2>3 DEF Return
  <2> SUFFICES ASSUME Showing(comments, changes, check, del, refused)
               PROVE  Showing(comments, ch, check, dm, rg)
    BY <2>1, <2>3 DEF Orderly
  <2>5. \A o \in Delivery : dm[o] = IF o = d THEN Idle ELSE del[o]
    BY <2>1, <2>3, Returns
  <2>6. Alone(comments, dm) /\ \A o \in Delivery : dm[o].pc = "idle"
    <3>1. Alone(comments, del) /\ (\A i, j \in MarkedIn(comments) : i = j) /\ del[d].pc # "idle"
      BY <2>1 DEF Showing, Alone
    <3> QED BY <2>5, <3>1, QuietReturn
  <2>7. /\ refused \union Owed(del, Writing) \subseteq rg \union Owed(dm, Writing)
        /\ refused \union Owed(del, Posting) \subseteq rg \union Owed(dm, Posting)
    BY <2>1, <2>4, <2>5 DEF Owed, Writing, Posting
  <2>8. Posted(comments, ch, rg \union Owed(dm, Writing))
    <3>1. (refused \union Owed(del, Writing)) \union {del[d].event} \subseteq rg \union Owed(dm, Writing)
      BY <2>4, <2>7
    <3>2. Posted(comments, changes, refused \union Owed(del, Writing))
      BY DEF Showing
    <3>3. Adds(changes, ch, del[d].event)
      BY <2>2, <2>3 DEF Adds
    <3> QED BY <3>1, <3>2, <3>3, OneMore
  <2>9. Checked(check, ch, rg \union Owed(dm, Posting))
    <3>1. (refused \union Owed(del, Posting)) \union {del[d].event} \subseteq rg \union Owed(dm, Posting)
      BY <2>4, <2>7
    <3>2. Checked(check, changes, refused \union Owed(del, Posting))
      BY DEF Showing
    <3>3. Adds(changes, ch, del[d].event)
      BY <2>2, <2>3 DEF Adds
    <3> QED BY <3>1, <3>2, <3>3, OneMore
  <2> QED BY <2>6, <2>8, <2>9 DEF Showing, Working
<1>8. ASSUME NEW d \in Delivery, NEW c \in Change, JudgeNothing(d, c) PROVE Orderly'
  <2>1. UNCHANGED <<changes, comments, check, orderly>> /\ del[d].pc = "start" /\ c \in ByRef
    BY <1>8 DEF JudgeNothing
  <2>2. CASE Return(d, "ok")
    BY <2>1, <2>2, OrderlyReturn
  <2>3. CASE Goto(d, "list", Render(c, TRUE))
    <3>1. changes[c].judgments # << >> => changes[c].state = "judged"
      BY DEF Judgments, JudgedOnce
    <3>2. Render(c, TRUE) \in View /\ Fresh(Render(c, TRUE), changes)
      BY <1>0, <3>1 DEF Render, Typed
    <3> QED BY <2>1, <2>3, <3>2, OrderlyGoto
  <2> QED BY <1>8, <2>2, <2>3 DEF JudgeNothing
<1>9. ASSUME NEW d \in Delivery, ListComments(d) PROVE Orderly'
  <2>1. UNCHANGED <<changes, comments, check, orderly, refused>> /\ del[d].pc = "list"
    BY <1>9 DEF ListComments, history
  <2> SUFFICES ASSUME Showing(comments, changes, check, del, refused), Len(comments) <= PerPage
               PROVE  Showing(comments, changes, check, del', refused)
    BY <2>1 DEF Orderly
  <2>2. Alone(comments, del)
    BY DEF Showing
  <2> DEFINE seen == {i \in Marked : i <= PerPage}
             f == IF seen = {} THEN 0 ELSE Min(seen)
  <2>3. seen = MarkedIn(comments) /\ seen \subseteq Nat /\ 0 \notin seen
    <3>1. Len(comments) \in Nat
      BY DEF Typed
    <3> QED BY <3>1 DEF Marked, MarkedIn
  <2>4. IF f = 0 THEN MarkedIn(comments) = {} ELSE f \in MarkedIn(comments)
    BY <2>3, MinIsIn
  <2>d. PICK dm : dm = del'
    OBVIOUS
  <2>5. /\ dm[d].pc = "put" /\ dm[d].view = del[d].view /\ dm[d].found = f /\ dm[d].event = del[d].event
        /\ \A o \in Delivery : o # d => dm[o] = del[o]
    <3>1. dm = [del EXCEPT ![d].pc = "put", ![d].found = f]
      BY <1>9, <2>d DEF ListComments
    <3>2. del[d] \in Local BY DEF Typed
    <3> HIDE DEF f
    <3> QED BY <3>1, <3>2 DEF Typed, Local
  <2> HIDE DEF seen, f
  <2>6. \A o \in Delivery : o # d => dm[o].pc = "idle"
    BY <2>1, <2>2, <2>5, OthersIdle
  <2>7. Alone(comments, dm)
    BY <2>2, <2>4, <2>5, <2>6 DEF Alone
  <2>8. \A o \in Delivery : Working(dm[o]) => Fresh(dm[o].view, changes)
    BY <2>1, <2>5, <2>6 DEF Showing, Working
  <2>9. /\ refused \union Owed(del, Writing) \subseteq refused \union Owed(dm, Writing)
        /\ refused \union Owed(del, Posting) \subseteq refused \union Owed(dm, Posting)
    BY <2>5 DEF Owed, Writing, Posting
  <2> QED BY <2>d, <2>7, <2>8, <2>9, MayLackMore DEF Showing
<1>w. ASSUME NEW d \in Delivery, del[d].pc = "put", Showing(comments, changes, check, del, refused), NEW R
      PROVE  /\ \E i : MarkedIn(Written(d)) = {i} /\ Written(d)[i] = del[d].view
             /\ Posted(Written(d), changes, R)
  <2>1. PICK i : MarkedIn(Written(d)) = {i} /\ Written(d)[i] = del[d].view
    BY <1>w, AloneWrite DEF Showing
  <2>2. del[d].view \in View /\ Fresh(del[d].view, changes)
    BY <1>w DEF Typed, Local, Showing, Working
  <2>3. Has(changes, R) => Told(del[d].view, changes, R)
    BY <2>2, FreshTells
  <2> QED BY <2>1, <2>3 DEF Posted
<1>10. ASSUME NEW d \in Delivery, PutComment(d) PROVE Orderly'
  <2>1. UNCHANGED <<changes, check, orderly>> /\ comments' = Written(d) /\ del[d].pc = "put"
    BY <1>10 DEF PutComment
  <2>2. Len(comments) <= Len(comments') /\ Len(comments) \in Nat /\ Len(comments') \in Nat
    BY <2>1, Writes DEF Typed
  <2>3. refused' = refused
    BY <1>10 DEF PutComment, Return, Goto
  <2>4. PICK cm, dm : cm = comments' /\ dm = del'
    OBVIOUS
  <2> SUFFICES ASSUME Showing(comments, changes, check, del, refused)
               PROVE  Showing(cm, changes, check, dm, refused)
    BY <2>1, <2>2, <2>3, <2>4 DEF Orderly
  <2>5. /\ \A i, j \in MarkedIn(cm) : i = j
        /\ \A R : Posted(cm, changes, R)
    BY <1>w, <2>1, <2>4
  <2>6. \A o \in Delivery : o # d => del[o].pc = "idle"
    BY <2>1, OthersIdle DEF Showing
  <2>7. CASE del[d].view.note /\ Return(d, "ok")
    <3>1. \A o \in Delivery : dm[o] = IF o = d THEN Idle ELSE del[o]
      BY <2>4, <2>7, Returns
    <3>2. Alone(cm, dm) /\ \A o \in Delivery : dm[o].pc = "idle"
      <4>1. Alone(comments, del) /\ del[d].pc # "idle"
        BY <2>1 DEF Showing
      <4> QED BY <2>5, <3>1, <4>1, QuietReturn
    <3>3. refused \union Owed(del, Posting) \subseteq refused \union Owed(dm, Posting)
      BY <2>7, <3>1 DEF Owed
    <3> QED BY <2>5, <3>2, <3>3, MayLackMore DEF Showing, Working
  <2>8. CASE ~del[d].view.note /\ Goto(d, "check", del[d].view)
    <3>1. /\ \A o \in Delivery : o # d => dm[o] = del[o]
          /\ dm[d].pc = "check" /\ dm[d].view = del[d].view /\ dm[d].event = del[d].event
      <4> del[d].view \in View
        BY DEF Typed, Local
      <4> QED BY <2>4, <2>8, Goes
    <3>2. Alone(cm, dm)
      BY <2>5, <2>6, <3>1 DEF Alone
    <3>3. \A o \in Delivery : Working(dm[o]) => Fresh(dm[o].view, changes)
      BY <2>1, <2>6, <3>1 DEF Showing, Working
    <3>4. refused \union Owed(del, Posting) \subseteq refused \union Owed(dm, Posting)
      BY <2>8, <3>1 DEF Owed, Posting
    <3> QED BY <2>5, <3>2, <3>3, <3>4, MayLackMore DEF Showing
  <2> QED BY <1>10, <2>7, <2>8 DEF PutComment
<1>11. ASSUME NEW d \in Delivery, PostCheck(d) PROVE Orderly'
  <2>1. /\ UNCHANGED <<changes, comments, orderly>> /\ del[d].pc = "check"
        /\ check'.view = del[d].view /\ check'.conclusion = Conclusion(del[d].view)
        /\ Return(d, "ok") /\ refused' = refused
    BY <1>11 DEF PostCheck, Return
  <2>2. PICK ck, dm : ck = check' /\ dm = del'
    OBVIOUS
  <2> SUFFICES ASSUME Showing(comments, changes, check, del, refused)
               PROVE  Showing(comments, changes, ck, dm, refused)
    BY <2>1, <2>2 DEF Orderly
  <2>3. \A o \in Delivery : dm[o] = IF o = d THEN Idle ELSE del[o]
    BY <2>1, <2>2, Returns
  <2>4. Alone(comments, dm) /\ \A o \in Delivery : dm[o].pc = "idle"
    <3>1. Alone(comments, del) /\ (\A i, j \in MarkedIn(comments) : i = j) /\ del[d].pc # "idle"
      BY <2>1 DEF Showing, Alone
    <3> QED BY <2>3, <3>1, QuietReturn
  <2>5. refused \union Owed(del, Writing) \subseteq refused \union Owed(dm, Writing)
    BY <2>1, <2>3 DEF Owed, Writing
  <2>6. del[d].view \in View /\ Fresh(del[d].view, changes)
    BY <2>1 DEF Typed, Local, Showing, Working
  <2>7. Checked(ck, changes, refused \union Owed(dm, Posting))
    <3>1. \A R : Has(changes, R) => Told(ck.view, changes, R)
      BY <2>1, <2>2, <2>6, FreshTells
    <3>2. ck.view.judgments # << >> => ck.conclusion = "success"
      BY <2>1, <2>2, <2>6 DEF Fresh, Conclusion
    <3> QED BY <3>1, <3>2 DEF Checked
  <2> QED BY <2>4, <2>5, <2>7, MayLackMore DEF Showing, Working
<1>12. ASSUME NEW d \in Delivery, CallFails(d) PROVE Orderly'
  <2>1. /\ UNCHANGED <<changes, check, orderly>> /\ del[d].pc # "idle"
        /\ comments' = comments \/ (del[d].pc = "put" /\ comments' = Written(d))
        /\ Return(d, IF del[d].view.note THEN "ok" ELSE "error")
    BY <1>12 DEF CallFails
  <2>2. Len(comments) <= Len(comments') /\ Len(comments) \in Nat /\ Len(comments') \in Nat
    BY <2>1, Writes DEF Typed
  <2>3. PICK cm, dm, rg : cm = comments' /\ dm = del' /\ rg = refused'
    OBVIOUS
  <2>4. /\ refused \subseteq rg
        /\ ~del[d].view.note /\ del[d].event \in Review => del[d].event \in rg
    BY <2>1, <2>3 DEF Return
  <2> SUFFICES ASSUME Showing(comments, changes, check, del, refused)
               PROVE  Showing(cm, changes, check, dm, rg)
    BY <2>1, <2>2, <2>3 DEF Orderly
  <2>5. \A o \in Delivery : dm[o] = IF o = d THEN Idle ELSE del[o]
    BY <2>1, <2>3, Returns
  <2>6. \A i, j \in MarkedIn(cm) : i = j
    <3>1. CASE cm = comments
      BY <3>1 DEF Showing, Alone
    <3>2. CASE del[d].pc = "put" /\ cm = Written(d)
      BY <1>w, <3>2
    <3> QED BY <2>1, <2>3, <3>1, <3>2
  <2>7. Alone(cm, dm) /\ \A o \in Delivery : dm[o].pc = "idle"
    <3>1. Alone(comments, del)
      BY DEF Showing
    <3>2. del[d].pc # "idle"
      BY <2>1
    <3> QED BY <2>5, <2>6, <3>1, <3>2, QuietReturn, SMTT(40)
  <2>8. /\ refused \union Owed(del, Writing) \subseteq rg \union Owed(dm, Writing)
        /\ refused \union Owed(del, Posting) \subseteq rg \union Owed(dm, Posting)
    BY <2>4, <2>5 DEF Owed, Writing, Posting
  <2>9. Posted(cm, changes, rg \union Owed(dm, Writing))
    <3>1. CASE cm = comments
      BY <2>8, <3>1, MayLackMore DEF Showing
    <3>2. CASE del[d].pc = "put" /\ cm = Written(d)
      BY <1>w, <3>2
    <3> QED BY <2>1, <2>3, <3>1, <3>2
  <2> QED BY <2>7, <2>8, <2>9, MayLackMore DEF Showing, Working
<1>13. CASE UNCHANGED bridgeVars
  BY <1>13 DEF bridgeVars, history, Orderly
<1> QED BY <1>1, <1>2, <1>3, <1>4, <1>5, <1>6, <1>7, <1>8, <1>9, <1>10, <1>11, <1>12, <1>13
        DEF BridgeNext

-----------------------------------------------------------------------------
\* What was found stays a comment with the marker, whatever is written.
Finds == \A d \in Delivery : del[d].found # 0 => del[d].found \in MarkedIn(comments)

\* No step takes the marker from a comment.
LEMMA MarkersStay ==
    ASSUME Typed, NEW d \in Delivery, comments' = Written(d)
    PROVE  MarkedIn(comments) \subseteq MarkedIn(comments')
<1>1. del[d].view # Others /\ Len(comments) \in Nat
  BY Views DEF Typed, Local
<1>2. CASE del[d].found = 0
  BY <1>1, <1>2, Writes DEF MarkedIn
<1>3. CASE del[d].found # 0
  BY <1>1, <1>3, Writes DEF MarkedIn
<1> QED BY <1>2, <1>3

\* Only listing the comments finds one, and it finds one with the marker.
LEMMA BridgeNextFinds ==
    ASSUME Typed, Finds, [BridgeNext]_bridgeVars
    PROVE  Finds'
<1> USE PRConstants
<1>1. ASSUME \A d \in Delivery : del'[d].found = 0 \/ del'[d].found = del[d].found,
             MarkedIn(comments) \subseteq MarkedIn(comments')
      PROVE  Finds'
  BY <1>1 DEF Finds
<1>2. CASE UNCHANGED <<comments, del>>
  BY <1>1, <1>2
<1>3. CASE Comment
  <2>1. comments' = Append(comments, Others) /\ comments \in Seq(View \union {Others})
    BY <1>3 DEF Comment, Typed
  <2>2. MarkedIn(comments) \subseteq MarkedIn(comments')
    BY <2>1 DEF MarkedIn
  <2> QED BY <1>1, <1>3, <2>2 DEF Comment
<1>4. ASSUME NEW d \in Delivery, NEW e \in Event, Deliver(d, e) PROVE Finds'
  <2>1. \A o \in Delivery : o # d => del'[o] = del[o]
    BY <1>4 DEF Deliver, Typed
  <2>2. del'[d].found = 0 /\ comments' = comments
    BY <1>4 DEF Deliver, Typed, Idle
  <2> QED BY <1>1, <2>1, <2>2
<1>5. ASSUME NEW d \in Delivery, NEW how, Return(d, how) PROVE
        \A o \in Delivery : del'[o].found = 0 \/ del'[o].found = del[o].found
  BY <1>5, Returns, Views
<1>6. ASSUME NEW d \in Delivery, NEW pc, NEW v, Goto(d, pc, v) PROVE
        \A o \in Delivery : del'[o].found = 0 \/ del'[o].found = del[o].found
  <2>1. del' = [del EXCEPT ![d].pc = pc, ![d].view = v] /\ del[d] \in Local
    BY <1>6 DEF Goto, Typed
  <2> QED BY <2>1 DEF Typed, Local
<1>7. ASSUME NEW d \in Delivery, Describe(d) \/ Skip(d) \/ PostCheck(d) PROVE Finds'
  BY <1>1, <1>5, <1>6, <1>7 DEF Describe, Skip, PostCheck
<1>8. ASSUME NEW d \in Delivery, NEW c \in Change,
             Judge(d, c) \/ JudgeUnreported(d, c) \/ JudgeNothing(d, c)
      PROVE  Finds'
  BY <1>1, <1>5, <1>6, <1>8 DEF Judge, JudgeUnreported, JudgeNothing
<1>9. ASSUME NEW d \in Delivery, ListComments(d) PROVE Finds'
  <2> DEFINE seen == {i \in Marked : i <= PerPage}
             f == IF seen = {} THEN 0 ELSE Min(seen)
  <2>1. f # 0 => f \in MarkedIn(comments)
    <3>1. seen \subseteq Nat /\ seen \subseteq MarkedIn(comments)
      BY DEF Marked, MarkedIn
    <3> QED BY <3>1, MinIsIn
  <2>2. del' = [del EXCEPT ![d].pc = "put", ![d].found = f] /\ comments' = comments
    BY <1>9 DEF ListComments
  <2>3. del[d] \in Local BY DEF Typed
  <2> HIDE DEF f
  <2>4. del'[d].found = f /\ \A o \in Delivery : o # d => del'[o] = del[o]
    BY <2>2, <2>3 DEF Typed, Local
  <2> QED BY <2>1, <2>2, <2>4 DEF Finds
<1>10. ASSUME NEW d \in Delivery, PutComment(d) PROVE Finds'
  <2>1. MarkedIn(comments) \subseteq MarkedIn(comments')
    BY <1>10, MarkersStay DEF PutComment
  <2> QED BY <1>1, <1>5, <1>6, <1>10, <2>1 DEF PutComment
<1>11. ASSUME NEW d \in Delivery, CallFails(d) PROVE Finds'
  <2>1. MarkedIn(comments) \subseteq MarkedIn(comments')
    BY <1>11, MarkersStay DEF CallFails
  <2> QED BY <1>1, <1>5, <1>11, <2>1 DEF CallFails
<1> QED BY <1>2, <1>3, <1>4, <1>7, <1>8, <1>9, <1>10, <1>11
        DEF BridgeNext, PushOpened, PushSettled, bridgeVars

\* A Change records a review at most once, however often the review is
\* delivered, and whatever fails after the judgment (prbridge.go, judge).
THEOREM BridgeJudgments == BridgeSpec => [](Typed /\ Judgments)
<1>1. Typed /\ Judgments /\ [BridgeNext]_bridgeVars => (Typed /\ Judgments)'
  BY BridgeNextSafe
<1> QED BY <1>1, BridgeInitSafe, PTL DEF BridgeSpec

\* The reporter overwrites only comments that carry its marker, even when two
\* deliveries list and write at the same time (app.go, UpsertComment).
THEOREM BridgeTypes == BridgeSpec => []BridgeTypeOK
<1>1. BridgeInit => Finds
  BY DEF BridgeInit, Finds, Idle
<1>2. Typed /\ Finds /\ [BridgeNext]_bridgeVars => Finds'
  BY BridgeNextFinds
<1>3. Typed /\ Finds => BridgeTypeOK
  <2> SUFFICES ASSUME Typed, Finds PROVE BridgeTypeOK
    OBVIOUS
  <2>1. \A c \in Change : changes[c].state \in {"absent", "proposed", "judged", "settled"}
    BY DEF Typed, Pushed
  <2>2. check.conclusion \in {"none", "neutral", "success"}
    BY DEF Typed
  <2>3. ASSUME NEW d \in Delivery
        PROVE  /\ del[d].pc \in {"idle", "start", "list", "put", "check"}
               /\ del[d].found \in 0..Len(comments)
               /\ del[d].found # 0 => del[d].found \in Marked
    <3>1. del[d] \in Local /\ del[d].found <= Len(comments) /\ Len(comments) \in Nat
      BY DEF Typed
    <3>2. Marked = MarkedIn(comments)
      BY DEF Marked, MarkedIn
    <3> QED BY <3>1, <3>2 DEF Local, Finds
  <2> QED BY <2>1, <2>2, <2>3 DEF BridgeTypeOK
<1> QED BY <1>1, <1>2, <1>3, BridgeJudgments, PTL DEF BridgeSpec

\* With one Change behind the head commit, a review is one judgment on it,
\* however many deliveries carry it (prbridge.go, review and judge).
THEOREM BridgeReviewJudgedOnce == OneChange => (BridgeSpec => []ReviewJudgedOnce)
<1> SUFFICES ASSUME OneChange PROVE BridgeSpec => []ReviewJudgedOnce
  OBVIOUS
<1>1. Typed /\ Judgments => ReviewJudgedOnce
  <2> SUFFICES ASSUME Typed, Judgments, NEW b \in Change, NEW c \in Change,
                      NEW i \in DOMAIN changes[b].judgments, NEW j \in DOMAIN changes[c].judgments,
                      changes[b].judgments[i] = changes[c].judgments[j]
               PROVE  b = c /\ i = j
    BY DEF ReviewJudgedOnce
  <2>1. b = c
    BY DEF OneChange
  <2>2. DOMAIN changes[c].judgments = 1..Len(changes[c].judgments)
    BY DEF Typed, Pushed
  <2> QED BY <2>1, <2>2 DEF Judgments, JudgedOnce, Distinct
<1> QED BY <1>1, BridgeJudgments, PTL

\* After deliveries that followed one another, for any number of Changes of the
\* commit and whatever calls failed, there is one comment, and the judgments that
\* it or the check lack are of reviews that were answered with an error
\* (prbridge.go, describe, review and post).
THEOREM BridgeOrderlyComment == BridgeSpec => []OrderlyCommentIsCurrent
<1>1. Typed /\ Judgments /\ Orderly /\ [BridgeNext]_bridgeVars => Orderly'
  BY BridgeNextOrderly
<1>2. BridgeSpec => []Orderly
  BY <1>1, BridgeInitOrderly, BridgeJudgments, PTL DEF BridgeSpec
<1>3. Orderly => OrderlyCommentIsCurrent
  <2> SUFFICES ASSUME Orderly, orderly, AtRest, Len(comments) <= PerPage, Reported(refused) # {}
               PROVE  /\ Cardinality(Marked) = 1
                      /\ \A i \in Marked : Tells(comments[i], refused)
                      /\ Tells(check.view, refused)
                      /\ check.view.judgments # << >> => check.conclusion = "success"
    BY DEF OrderlyCommentIsCurrent
  <2>1. Showing(comments, changes, check, del, refused)
    BY DEF Orderly
  <2>2. Marked = MarkedIn(comments)
    BY DEF Marked, MarkedIn
  <2>3. Owed(del, Writing) = {} /\ Owed(del, Posting) = {}
    BY DEF Owed, Writing, Posting, AtRest
  <2>4. refused \union {} = refused
    OBVIOUS
  <2>5. Posted(comments, changes, refused) /\ Checked(check, changes, refused)
    BY <2>1, <2>3, <2>4 DEF Showing
  <2>6. Has(changes, refused)
    BY DEF Reported, Has
  <2>7. \A v : Told(v, changes, refused) => Tells(v, refused)
    BY DEF Told, Tells
  <2>8. /\ Marked # {} /\ \A i \in Marked : Tells(comments[i], refused)
        /\ Tells(check.view, refused)
        /\ check.view.judgments # << >> => check.conclusion = "success"
    BY <2>2, <2>5, <2>6, <2>7 DEF Posted, Checked
  <2>9. PICK i : Marked = {i}
    BY <2>1, <2>2, <2>8 DEF Showing, Alone
  <2>10. Cardinality(Marked) = 1
    BY <2>9, FS_Singleton
  <2> QED BY <2>8, <2>10
<1> QED BY <1>2, <1>3, PTL
=============================================================================
