---------------------------- MODULE DaemonProofs ----------------------------
(***************************************************************************)
(* What holds of the daemon's projections for any number of requests, page *)
(* size, batch and ledger.                                                 *)
(*                                                                         *)
(* LostOnlyByJump needs to know where a catch-up stands: it never projects *)
(* a record further than one past the cursor. CatchUpAppliesOnce needs to  *)
(* know, without a counter, who may have applied a record: a catch-up only *)
(* when the record is behind its position or, between catch-ups, behind    *)
(* the cursor; the pipeline only once the batch of the record is no longer *)
(* in flight.                                                              *)
(***************************************************************************)
EXTENDS DaemonRuntime, SequenceTheorems, TLAPS

Inside == {"compare", "start", "read", "project", "mark", "unlock"}
Flying == {"reread", "publish", "pubmark"}

\* A catch-up may have handed record n to the indexes.
Behind(n) ==
    IF mu \in Req /\ pc[mu] \in {"read", "project", "mark"}
    THEN IF pc[mu] = "project" THEN n < loc[mu].at ELSE n <= loc[mu].at
    ELSE n <= cursor

\* Record n is of the batch of request r and not published yet.
InFlight(r, n) ==
    /\ pc[r] \in Flying
    /\ n <= loc[r].upto
    /\ IF pc[r] = "pubmark" THEN loc[r].at < n ELSE loc[r].at <= n

\* The pipeline may have handed record n to the indexes.
Published(n) == ledger[n] = "daemon" /\ \A r \in Req : ~InFlight(r, n)

\* How often record n can have been applied.
Bounded(n) ==
    /\ times[n] <= 2
    /\ Published(n) \/ times[n] <= 1
    /\ Behind(n) \/ times[n] <= 1
    /\ Published(n) \/ Behind(n) \/ times[n] = 0

\* Where request r stands on the ledger.
Place(r) ==
    /\ pc[r] = "read" => loc[r].at <= cursor
    /\ pc[r] \in {"project", "mark"} =>
         /\ 1 <= loc[r].at /\ loc[r].at <= loc[r].upto
         /\ loc[r].upto <= Len(ledger) /\ loc[r].at <= cursor + 1
    /\ pc[r] \in Flying =>
         /\ 1 <= loc[r].at /\ loc[r].at <= loc[r].upto /\ loc[r].upto <= Len(ledger)
         /\ \A n \in loc[r].at .. loc[r].upto : ledger[n] = "daemon"
    /\ pc[r] \in {"mark", "pubmark"} => times[loc[r].at] >= 1

\* Batches in flight do not overlap.
Apart(r, s) ==
    r # s /\ pc[r] \in Flying /\ pc[s] \in Flying =>
        loc[r].upto < loc[s].at \/ loc[s].upto < loc[r].at

\* The inductive invariant.
Inv ==
    /\ TypeOK
    /\ LostOnlyByJump
    /\ \A r \in Req : Place(r)
    /\ \A r, s \in Req : Apart(r, s)
    /\ \A n \in Seqs : n > Len(ledger) => times[n] = 0
    /\ \A n \in 1..Len(ledger) : Bounded(n)

\* A daemon that starts on an empty ledger satisfies the invariant.
LEMMA InitInv == Init => Inv
<1> SUFFICES ASSUME Init PROVE Inv
  OBVIOUS
<1> USE RuntimeConstants
<1>1. TypeOK
  BY DEF Init, TypeOK, Seqs, Steps, Locals, NoLocals
<1>2. LostOnlyByJump
  BY DEF Init, LostOnlyByJump
<1>3. \A r \in Req : Place(r)
  BY DEF Init, Place, Flying
<1>4. \A r, s \in Req : Apart(r, s)
  BY DEF Init, Apart, Flying
<1>5. 1..Len(ledger) = {} /\ \A n \in Seqs : times[n] = 0
  BY DEF Init
<1> QED BY <1>1, <1>2, <1>3, <1>4, <1>5 DEF Inv

-----------------------------------------------------------------------------
\* A step that takes request r from one point outside the projections to
\* another: ledger, times, cursor and jumped stay, and Behind and the batches
\* in flight are as they were or fewer.
LEMMA QuietStep ==
    ASSUME Inv, TypeOK', UNCHANGED <<ledger, times, cursor, jumped>>,
           \A r \in Req : Place(r)',
           \A r \in Req, n \in 1..Len(ledger) : InFlight(r, n)' => InFlight(r, n),
           \A r, s \in Req : Apart(r, s)',
           \A n \in 1..Len(ledger) : Behind(n) => Behind(n)'
    PROVE  Inv'
<1>1. LostOnlyByJump'
  BY DEF Inv, LostOnlyByJump
<1>2. \A n \in 1..Len(ledger') : Bounded(n)'
  BY DEF Inv, Bounded, Published
<1> QED BY <1>1, <1>2 DEF Inv

\* The locals keep their kinds when one of them is set.
LEMMA Setting ==
    ASSUME NEW r \in Req, loc \in [Req -> Locals], NEW k \in 0..MaxSeq
    PROVE  /\ [loc EXCEPT ![r].want = k] \in [Req -> Locals]
           /\ [loc EXCEPT ![r].head = k] \in [Req -> Locals]
           /\ [loc EXCEPT ![r].at = k] \in [Req -> Locals]
           /\ [loc EXCEPT ![r] = NoLocals] \in [Req -> Locals]
<1>1. [loc EXCEPT ![r].want = k] \in [Req -> Locals] BY DEF Locals
<1>2. [loc EXCEPT ![r].head = k] \in [Req -> Locals] BY DEF Locals
<1>3. [loc EXCEPT ![r].at = k] \in [Req -> Locals] BY DEF Locals
<1>4. NoLocals \in Locals BY RuntimeConstants DEF Locals, NoLocals
<1> QED BY <1>1, <1>2, <1>3, <1>4

\* A request that arrives touches no projection.
LEMMA ArriveInv == ASSUME Inv, NEW r \in Req, Arrive(r) PROVE Inv'
<1> USE RuntimeConstants
<1>1. TypeOK'
  <2>1. loc' \in [Req -> Locals]
    <3>1. Len(ledger) \in 0..MaxSeq BY DEF Inv, TypeOK
    <3> QED BY <3>1, Setting DEF Arrive, Inv, TypeOK
  <2>2. mu' \in Req \union {NoReq} /\ pc' \in [Req -> Steps]
    BY DEF Arrive, Inv, TypeOK, Steps, Goto
  <2>3. \A x \in Req : pc'[x] \in Inside <=> mu' = x
    BY DEF Arrive, Inv, TypeOK, Inside, Goto
  <2> QED BY <2>1, <2>2, <2>3 DEF Arrive, Inv, TypeOK, Inside
<1>2. UNCHANGED <<ledger, times, cursor, jumped>>
  BY DEF Arrive
<1>3. \A x \in Req : Place(x)'
  BY DEF Arrive, Inv, TypeOK, Place, Flying, Locals, Goto
<1>4. \A x \in Req, n \in 1..Len(ledger) : InFlight(x, n)' => InFlight(x, n)
  BY DEF Arrive, Inv, TypeOK, InFlight, Flying, Locals, Goto
<1>5. \A x, y \in Req : Apart(x, y)'
  BY DEF Arrive, Inv, TypeOK, Apart, Flying, Locals, Goto
<1>6. \A n \in 1..Len(ledger) : Behind(n) => Behind(n)'
  BY DEF Arrive, Inv, TypeOK, Behind, Place, Locals, Goto
<1> QED BY <1>1, <1>2, <1>3, <1>4, <1>5, <1>6, QuietStep

\* Taking c.mu puts the request at the start of a catch-up.
LEMMA LockInv == ASSUME Inv, NEW r \in Req, Lock(r) PROVE Inv'
<1> USE RuntimeConstants
<1>1. TypeOK'
  <2>1. loc' \in [Req -> Locals]
    <3>1. Len(ledger) \in 0..MaxSeq BY DEF Inv, TypeOK
    <3> QED BY <3>1, Setting DEF Lock, Inv, TypeOK
  <2>2. mu' \in Req \union {NoReq} /\ pc' \in [Req -> Steps]
    BY DEF Lock, Inv, TypeOK, Steps, Goto
  <2>3. \A x \in Req : pc'[x] \in Inside <=> mu' = x
    BY DEF Lock, Inv, TypeOK, Inside, Goto
  <2> QED BY <2>1, <2>2, <2>3 DEF Lock, Inv, TypeOK, Inside
<1>2. UNCHANGED <<ledger, times, cursor, jumped>>
  BY DEF Lock
<1>3. \A x \in Req : Place(x)'
  BY DEF Lock, Inv, TypeOK, Place, Flying, Locals, Goto
<1>4. \A x \in Req, n \in 1..Len(ledger) : InFlight(x, n)' => InFlight(x, n)
  BY DEF Lock, Inv, TypeOK, InFlight, Flying, Locals, Goto
<1>5. \A x, y \in Req : Apart(x, y)'
  BY DEF Lock, Inv, TypeOK, Apart, Flying, Locals, Goto
<1>6. \A n \in 1..Len(ledger) : Behind(n) => Behind(n)'
  BY DEF Lock, Inv, TypeOK, Behind, Place, Locals, Goto
<1> QED BY <1>1, <1>2, <1>3, <1>4, <1>5, <1>6, QuietStep

\* Comparing head and cursor only reads.
LEMMA CompareInv == ASSUME Inv, NEW r \in Req, Compare(r) PROVE Inv'
<1> USE RuntimeConstants
<1>1. TypeOK'
  BY DEF Compare, Inv, TypeOK, Steps, Locals, Goto
<1>2. UNCHANGED <<ledger, times, cursor, jumped>>
  BY DEF Compare
<1>3. \A x \in Req : Place(x)'
  BY DEF Compare, Inv, TypeOK, Place, Flying, Locals, Goto
<1>4. \A x \in Req, n \in 1..Len(ledger) : InFlight(x, n)' => InFlight(x, n)
  BY DEF Compare, Inv, TypeOK, InFlight, Flying, Locals, Goto
<1>5. \A x, y \in Req : Apart(x, y)'
  BY DEF Compare, Inv, TypeOK, Apart, Flying, Locals, Goto
<1>6. \A n \in 1..Len(ledger) : Behind(n) => Behind(n)'
  BY DEF Compare, Inv, TypeOK, Behind, Place, Locals, Goto
<1> QED BY <1>1, <1>2, <1>3, <1>4, <1>5, <1>6, QuietStep

\* A replay starts right behind the cursor.
LEMMA StartReplayInv == ASSUME Inv, NEW r \in Req, StartReplay(r) PROVE Inv'
<1> USE RuntimeConstants
<1>1. TypeOK'
  <2>1. loc' \in [Req -> Locals]
    <3>1. cursor \in 0..MaxSeq BY DEF Inv, TypeOK
    <3> QED BY <3>1, Setting DEF StartReplay, Inv, TypeOK
  <2>2. mu' \in Req \union {NoReq} /\ pc' \in [Req -> Steps]
    BY DEF StartReplay, Inv, TypeOK, Steps, Goto
  <2>3. \A x \in Req : pc'[x] \in Inside <=> mu' = x
    BY DEF StartReplay, Inv, TypeOK, Inside, Goto
  <2> QED BY <2>1, <2>2, <2>3 DEF StartReplay, Inv, TypeOK, Inside
<1>2. UNCHANGED <<ledger, times, cursor, jumped>>
  BY DEF StartReplay
<1>3. \A x \in Req : Place(x)'
  BY SMTT(30) DEF StartReplay, Inv, TypeOK, Place, Flying, Locals, Goto
<1>4. \A x \in Req, n \in 1..Len(ledger) : InFlight(x, n)' => InFlight(x, n)
  BY DEF StartReplay, Inv, TypeOK, InFlight, Flying, Locals, Goto
<1>5. \A x, y \in Req : Apart(x, y)'
  BY DEF StartReplay, Inv, TypeOK, Apart, Flying, Locals, Goto
<1>6. \A n \in 1..Len(ledger) : Behind(n) => Behind(n)'
  BY DEF StartReplay, Inv, TypeOK, Behind, Place, Locals, Goto
<1> QED BY <1>1, <1>2, <1>3, <1>4, <1>5, <1>6, QuietStep

\* A page starts where the last one ended.
LEMMA ReadPageInv == ASSUME Inv, NEW r \in Req, ReadPage(r) PROVE Inv'
<1> USE RuntimeConstants
<1>1. TypeOK'
  <2>1. loc' \in [Req -> Locals]
    <3>1. CASE UNCHANGED loc
      BY <3>1 DEF Inv, TypeOK
    <3>2. ASSUME NEW last \in 0..MaxSeq, NEW next \in 0..MaxSeq,
                 loc' = [loc EXCEPT ![r].base = loc[r].at, ![r].at = next, ![r].upto = last]
          PROVE  loc' \in [Req -> Locals]
      <4>1. loc \in [Req -> Locals] /\ loc[r] \in Locals
        BY DEF Inv, TypeOK
      <4>2. PICK l : l = [loc[r] EXCEPT !.base = loc[r].at, !.at = next, !.upto = last]
        OBVIOUS
      <4>3. l \in Locals
        BY <4>1, <4>2 DEF Locals
      <4>4. loc' = [loc EXCEPT ![r] = l]
        BY <3>2, <4>2
      <4> QED BY <4>1, <4>3, <4>4
    <3>3. CASE ~UNCHANGED loc
      <4> DEFINE last == Smaller(Len(ledger), loc[r].at + Page)
      <4>1. /\ ~(last <= loc[r].at)
            /\ loc' = [loc EXCEPT ![r].base = loc[r].at, ![r].at = loc[r].at + 1, ![r].upto = last]
        BY <3>3 DEF ReadPage
      <4>2. loc[r].at \in 0..MaxSeq /\ Len(ledger) \in 0..MaxSeq
        BY DEF Inv, TypeOK, Locals
      <4>3. last \in 0..MaxSeq /\ loc[r].at + 1 \in 0..MaxSeq
        BY <4>1, <4>2 DEF Smaller
      <4> HIDE DEF last
      <4> QED BY <4>1, <4>3, <3>2
    <3> QED BY <3>1, <3>3
  <2>2. mu' \in Req \union {NoReq} /\ pc' \in [Req -> Steps]
    BY DEF ReadPage, Inv, TypeOK, Steps, Goto, Smaller
  <2>3. \A x \in Req : pc'[x] \in Inside <=> mu' = x
    BY DEF ReadPage, Inv, TypeOK, Inside, Goto, Smaller
  <2> QED BY <2>1, <2>2, <2>3 DEF ReadPage, Inv, TypeOK, Inside
<1>2. UNCHANGED <<ledger, times, cursor, jumped>>
  BY DEF ReadPage
<1>3. \A x \in Req : Place(x)'
  <2> DEFINE last == Smaller(Len(ledger), loc[r].at + Page)
  <2>1. loc[r].at \in Nat /\ Len(ledger) \in Nat /\ loc[r].at <= cursor
    BY DEF Inv, TypeOK, Locals, Place, ReadPage
  <2>2. last <= Len(ledger)
    BY <2>1 DEF Smaller
  <2>3. ASSUME NEW x \in Req, x # r PROVE Place(x)'
    <3>1. pc'[x] = pc[x] /\ loc'[x] = loc[x]
      BY <2>3 DEF ReadPage, Goto, Inv, TypeOK
    <3> QED BY <3>1, <1>2 DEF Inv, Place
  <2>4. Place(r)'
    <3>1. CASE last <= loc[r].at
      BY <3>1 DEF ReadPage, Goto, Inv, TypeOK, Place, Flying
    <3>2. CASE ~(last <= loc[r].at)
      <4>1. pc'[r] = "project" /\ loc'[r].at = loc[r].at + 1 /\ loc'[r].upto = last
        BY <3>2 DEF ReadPage, Goto, Inv, TypeOK, Locals
      <4>2. loc[r].at + 1 <= last
        BY <3>2, <2>1 DEF Smaller
      <4> HIDE DEF last
      <4> QED BY <4>1, <4>2, <2>1, <2>2, <1>2 DEF Place, Flying, Inv, TypeOK
    <3> QED BY <3>1, <3>2
  <2> QED BY <2>3, <2>4
<1>4. \A x \in Req, n \in 1..Len(ledger) : InFlight(x, n)' => InFlight(x, n)
  BY DEF ReadPage, Inv, TypeOK, InFlight, Flying, Locals, Goto, Smaller
<1>5. \A x, y \in Req : Apart(x, y)'
  <2>1. \A x \in Req : pc'[x] \in Flying => pc[x] = pc'[x] /\ loc'[x] = loc[x]
    BY DEF ReadPage, Goto, Inv, TypeOK, Flying
  <2> QED BY <2>1 DEF Apart, Inv
<1>6. \A n \in 1..Len(ledger) : Behind(n) => Behind(n)'
  BY DEF ReadPage, Inv, TypeOK, Behind, Place, Locals, Goto, Smaller
<1> QED BY <1>1, <1>2, <1>3, <1>4, <1>5, <1>6, QuietStep

\* A failing read leaves the cursor where the last page put it.
LEMMA CatchUpFailsInv == ASSUME Inv, NEW r \in Req, CatchUpFails(r) PROVE Inv'
<1> USE RuntimeConstants
<1>1. TypeOK'
  <2>1. loc' \in [Req -> Locals]
    <3>1. 0 \in 0..MaxSeq OBVIOUS
    <3> QED BY <3>1, Setting DEF CatchUpFails, Return, Inv, TypeOK
  <2>2. mu' \in Req \union {NoReq} /\ pc' \in [Req -> Steps]
    BY DEF CatchUpFails, Inv, TypeOK, Steps, Return, Goto, NoLocals
  <2>3. \A x \in Req : pc'[x] \in Inside <=> mu' = x
    BY DEF CatchUpFails, Inv, TypeOK, Inside, Return, Goto, NoLocals
  <2> QED BY <2>1, <2>2, <2>3 DEF CatchUpFails, Inv, TypeOK, Inside
<1>2. UNCHANGED <<ledger, times, cursor, jumped>>
  BY DEF CatchUpFails
<1>3. \A x \in Req : Place(x)'
  BY DEF CatchUpFails, Inv, TypeOK, Place, Flying, Locals, Return, Goto, NoLocals
<1>4. \A x \in Req, n \in 1..Len(ledger) : InFlight(x, n)' => InFlight(x, n)
  BY DEF CatchUpFails, Inv, TypeOK, InFlight, Flying, Locals, Return, Goto, NoLocals
<1>5. \A x, y \in Req : Apart(x, y)'
  BY DEF CatchUpFails, Inv, TypeOK, Apart, Flying, Locals, Return, Goto, NoLocals
<1>6. \A n \in 1..Len(ledger) : Behind(n) => Behind(n)'
  BY SMTT(30) DEF CatchUpFails, Inv, TypeOK, Behind, Place, Locals, Return, Goto, NoLocals
<1> QED BY <1>1, <1>2, <1>3, <1>4, <1>5, <1>6, QuietStep

\* Releasing c.mu leaves the catch-up complete.
LEMMA UnlockInv == ASSUME Inv, NEW r \in Req, Unlock(r) PROVE Inv'
<1> USE RuntimeConstants
<1>1. TypeOK'
  BY DEF Unlock, Inv, TypeOK, Steps, Locals, Goto
<1>2. UNCHANGED <<ledger, times, cursor, jumped>>
  BY DEF Unlock
<1>3. \A x \in Req : Place(x)'
  BY DEF Unlock, Inv, TypeOK, Place, Flying, Locals, Goto
<1>4. \A x \in Req, n \in 1..Len(ledger) : InFlight(x, n)' => InFlight(x, n)
  BY DEF Unlock, Inv, TypeOK, InFlight, Flying, Locals, Goto
<1>5. \A x, y \in Req : Apart(x, y)'
  BY DEF Unlock, Inv, TypeOK, Apart, Flying, Locals, Goto
<1>6. \A n \in 1..Len(ledger) : Behind(n) => Behind(n)'
  BY DEF Unlock, Inv, TypeOK, Behind, Place, Locals, Goto
<1> QED BY <1>1, <1>2, <1>3, <1>4, <1>5, <1>6, QuietStep

\* A query is answered without writing.
LEMMA AnswerInv == ASSUME Inv, NEW r \in Req, Answer(r) PROVE Inv'
<1> USE RuntimeConstants
<1>1. TypeOK'
  BY SMTT(30) DEF Answer, Inv, TypeOK, Steps, Locals, Return, Goto, NoLocals
<1>2. UNCHANGED <<ledger, times, cursor, jumped>>
  BY DEF Answer
<1>3. \A x \in Req : Place(x)'
  BY DEF Answer, Inv, TypeOK, Place, Flying, Locals, Return, Goto, NoLocals
<1>4. \A x \in Req, n \in 1..Len(ledger) : InFlight(x, n)' => InFlight(x, n)
  BY DEF Answer, Inv, TypeOK, InFlight, Flying, Locals, Return, Goto, NoLocals
<1>5. \A x, y \in Req : Apart(x, y)'
  BY DEF Answer, Inv, TypeOK, Apart, Flying, Locals, Return, Goto, NoLocals
<1>6. \A n \in 1..Len(ledger) : Behind(n) => Behind(n)'
  BY DEF Answer, Inv, TypeOK, Behind, Place, Locals, Return, Goto, NoLocals
<1> QED BY <1>1, <1>2, <1>3, <1>4, <1>5, <1>6, QuietStep

\* Rereading the stream only reads.
LEMMA RereadInv == ASSUME Inv, NEW r \in Req, Reread(r) PROVE Inv'
<1> USE RuntimeConstants
<1>1. TypeOK'
  BY DEF Reread, Inv, TypeOK, Steps, Locals, Goto
<1>2. UNCHANGED <<ledger, times, cursor, jumped>>
  BY DEF Reread
<1>3. \A x \in Req : Place(x)'
  BY DEF Reread, Inv, TypeOK, Place, Flying, Locals, Goto
<1>4. \A x \in Req, n \in 1..Len(ledger) : InFlight(x, n)' => InFlight(x, n)
  BY DEF Reread, Inv, TypeOK, InFlight, Flying, Locals, Goto
<1>5. \A x, y \in Req : Apart(x, y)'
  BY DEF Reread, Inv, TypeOK, Apart, Flying, Locals, Goto
<1>6. \A n \in 1..Len(ledger) : Behind(n) => Behind(n)'
  BY DEF Reread, Inv, TypeOK, Behind, Place, Locals, Goto
<1> QED BY <1>1, <1>2, <1>3, <1>4, <1>5, <1>6, QuietStep

\* A batch that is not reread is not published; its records wait for a catch-up.
LEMMA RereadFailsInv == ASSUME Inv, NEW r \in Req, RereadFails(r) PROVE Inv'
<1> USE RuntimeConstants
<1>1. TypeOK'
  BY SMTT(30) DEF RereadFails, Inv, TypeOK, Steps, Locals, Return, Goto, NoLocals
<1>2. UNCHANGED <<ledger, times, cursor, jumped>>
  BY DEF RereadFails
<1>3. \A x \in Req : Place(x)'
  BY DEF RereadFails, Inv, TypeOK, Place, Flying, Locals, Return, Goto, NoLocals
<1>4. \A x \in Req, n \in 1..Len(ledger) : InFlight(x, n)' => InFlight(x, n)
  BY DEF RereadFails, Inv, TypeOK, InFlight, Flying, Locals, Return, Goto, NoLocals
<1>5. \A x, y \in Req : Apart(x, y)'
  BY DEF RereadFails, Inv, TypeOK, Apart, Flying, Locals, Return, Goto, NoLocals
<1>6. \A n \in 1..Len(ledger) : Behind(n) => Behind(n)'
  BY DEF RereadFails, Inv, TypeOK, Behind, Place, Locals, Return, Goto, NoLocals
<1> QED BY <1>1, <1>2, <1>3, <1>4, <1>5, <1>6, QuietStep

-----------------------------------------------------------------------------
\* A catch-up hands a record to the indexes that no catch-up had before.
LEMMA ProjectInv == ASSUME Inv, NEW r \in Req, Project(r) PROVE Inv'
<1> USE RuntimeConstants
<1> DEFINE k == loc[r].at
<1>1. /\ k \in 1..Len(ledger) /\ k \in Seqs /\ mu = r /\ pc[r] = "project"
  BY DEF Project, Inv, TypeOK, Place, Locals, Seqs
<1>2. /\ times' \in [Seqs -> Nat] /\ times'[k] = times[k] + 1
      /\ \A n \in Seqs : n # k => times'[n] = times[n]
  BY <1>1 DEF Project, ApplyToIndexes, Inv, TypeOK
<1>3. /\ \A x \in Req : pc'[x] = IF x = r THEN "mark" ELSE pc[x]
      /\ pc' \in [Req -> Steps]
      /\ UNCHANGED <<ledger, cursor, mu, loc, jumped, restarts>>
  BY DEF Project, Goto, Inv, TypeOK, Steps
<1>a. \A n \in Seqs : times[n] \in Nat
  BY DEF Inv, TypeOK
<1>4. TypeOK'
  BY <1>1, <1>2, <1>3 DEF Inv, TypeOK
<1>5. LostOnlyByJump'
  <2>1. \A n \in 1..cursor : n \in Seqs
    BY DEF Inv, TypeOK, Seqs
  <2> QED BY <1>1, <1>2, <1>3, <1>a, <2>1 DEF Inv, LostOnlyByJump
<1>6. \A x \in Req : Place(x)'
  <2>1. \A x \in Req : x # r => pc[x] # "mark"
    BY <1>1 DEF Inv, TypeOK
  <2>2. \A n \in Seqs : times[n] >= 1 => times'[n] >= 1
    BY <1>1, <1>2, <1>a
  <2>3. \A x \in Req : pc[x] \in Flying => loc[x].at \in Seqs
    BY DEF Inv, Place, TypeOK, Locals, Seqs, Flying
  <2>4. ASSUME NEW x \in Req, x # r PROVE Place(x)'
    BY <2>1, <2>2, <2>3, <2>4, <1>3 DEF Inv, Place, Flying
  <2>5. Place(r)'
    BY <1>1, <1>2, <1>3, <1>a DEF Inv, Place, Flying
  <2> QED BY <2>4, <2>5
<1>7. \A x \in Req, n \in 1..Len(ledger) : InFlight(x, n)' <=> InFlight(x, n)
  BY <1>1, <1>3 DEF InFlight, Flying
<1>8. \A x, y \in Req : Apart(x, y)'
  BY <1>1, <1>3 DEF Inv, Apart, Flying
<1>9. \A n \in Seqs : n > Len(ledger') => times'[n] = 0
  BY <1>1, <1>2, <1>3 DEF Inv
<1>10. \A n \in 1..Len(ledger) : /\ n = k => ~Behind(n) /\ Behind(n)'
                                 /\ Behind(n) => Behind(n)'
  BY <1>1, <1>3 DEF Behind, Inv, TypeOK, Locals
<1>11. ASSUME NEW n \in 1..Len(ledger) PROVE Bounded(n)'
  <2>1. n \in Seqs /\ times[n] \in Nat /\ Bounded(n)
    BY <1>a DEF Inv, TypeOK, Seqs
  <2>2. Published(n)' <=> Published(n)
    BY <1>3, <1>7 DEF Published
  <2>3. CASE n = k
    BY <2>1, <2>2, <2>3, <1>2, <1>10 DEF Bounded
  <2>4. CASE n # k
    BY <2>1, <2>2, <2>4, <1>2, <1>10 DEF Bounded
  <2> QED BY <2>3, <2>4
<1> QED BY <1>3, <1>4, <1>5, <1>6, <1>8, <1>9, <1>11 DEF Inv

\* The cursor follows the catch-up: it passes a record that was applied.
LEMMA MarkInv == ASSUME Inv, NEW r \in Req, Mark(r) PROVE Inv'
<1> USE RuntimeConstants
<1> DEFINE k == loc[r].at
<1>1. /\ k \in 1..Len(ledger) /\ k \in Seqs /\ mu = r /\ pc[r] = "mark"
      /\ k <= cursor + 1 /\ k <= loc[r].upto /\ loc[r].upto \in 1..Len(ledger)
      /\ cursor \in 0..Len(ledger) /\ times[k] >= 1
  BY DEF Mark, Inv, TypeOK, Place, Locals, Seqs
<1>2. /\ cursor' \in 0..Len(ledger) /\ cursor <= cursor' /\ k <= cursor'
      /\ \A n \in 1..cursor' : n <= cursor \/ n = k
  BY <1>1 DEF Mark, Larger
<1>3. /\ \A x \in Req : x # r => pc'[x] = pc[x] /\ loc'[x] = loc[x]
      /\ \/ pc'[r] = "project" /\ loc'[r] = [loc[r] EXCEPT !.at = k + 1] /\ k < loc[r].upto
         \/ pc'[r] \in {"unlock", "read"} /\ loc'[r] = loc[r]
      /\ UNCHANGED <<ledger, times, mu, jumped, restarts>>
  <2>1. CASE k < loc[r].upto
    BY <2>1 DEF Mark, Goto, Inv, TypeOK
  <2>2. CASE ~(k < loc[r].upto)
    BY <2>2 DEF Mark, Goto, Inv, TypeOK
  <2> QED BY <2>1, <2>2
<1>4. pc' \in [Req -> Steps] /\ loc' \in [Req -> Locals]
  <2>1. CASE k < loc[r].upto
    <3>1. k + 1 \in 0..MaxSeq
      BY <2>1, <1>1 DEF Inv, TypeOK
    <3>2. loc' = [loc EXCEPT ![r].at = k + 1] /\ pc' = [pc EXCEPT ![r] = "project"]
      BY <2>1 DEF Mark, Goto
    <3> QED BY <3>1, <3>2, Setting DEF Inv, TypeOK, Steps
  <2>2. CASE ~(k < loc[r].upto)
    BY <2>2 DEF Mark, Goto, Inv, TypeOK, Steps
  <2> QED BY <2>1, <2>2
<1>r. loc[r] \in Locals
  BY DEF Inv, TypeOK
<1>s. pc'[r] = "project" => loc'[r].at = k + 1 /\ loc'[r].upto = loc[r].upto /\ k < loc[r].upto
  BY <1>3, <1>r DEF Locals
<1> HIDE DEF k
<1>t. /\ pc'[r] \in {"project", "unlock", "read"}
      /\ pc'[r] # "project" => loc'[r] = loc[r]
  BY <1>3
<1>5. TypeOK'
  <2>1. \A x \in Req : pc'[x] \in Inside <=> mu' = x
    BY <1>1, <1>3, <1>t DEF Inv, TypeOK, Inside
  <2> QED BY <1>2, <1>3, <1>4, <2>1 DEF Inv, TypeOK, Inside
<1>6. LostOnlyByJump'
  BY <1>1, <1>2, <1>3 DEF Inv, LostOnlyByJump
<1>7. \A x \in Req : Place(x)'
  <2>1. ASSUME NEW x \in Req, x # r PROVE Place(x)'
    <3>1. pc'[x] \notin {"read", "project", "mark"}
      BY <1>1, <1>3, <2>1 DEF Inv, TypeOK
    <3> QED BY <2>1, <3>1, <1>3 DEF Inv, Place
  <2>2. Place(r)'
    <3>1. CASE pc'[r] = "project"
      BY <3>1, <1>1, <1>2, <1>3, <1>s, SMTT(30) DEF Place, Flying
    <3>2. CASE pc'[r] # "project"
      <4>1. loc'[r].at = k
        BY <3>2, <1>t DEF k
      <4> QED BY <3>2, <4>1, <1>2, <1>t DEF Place, Flying
    <3> QED BY <3>1, <3>2
  <2> QED BY <2>1, <2>2
<1>8. \A x \in Req, n \in 1..Len(ledger) : InFlight(x, n)' <=> InFlight(x, n)
  BY <1>1, <1>3, <1>t DEF InFlight, Flying
<1>9. \A x, y \in Req : Apart(x, y)'
  BY <1>1, <1>3, <1>t DEF Inv, Apart, Flying
<1>10. \A n \in 1..Len(ledger) : Behind(n) => Behind(n)'
  BY <1>1, <1>2, <1>3, <1>s, <1>t, SMTT(30) DEF Behind, k
<1>11. ASSUME NEW n \in 1..Len(ledger) PROVE Bounded(n)'
  <2>1. Published(n)' <=> Published(n)
    BY <1>3, <1>8 DEF Published
  <2> QED BY <2>1, <1>3, <1>10 DEF Inv, Bounded
<1> QED BY <1>3, <1>5, <1>6, <1>7, <1>9, <1>11 DEF Inv

-----------------------------------------------------------------------------
\* A ledger that grows at its end: what is known of its records stays, and
\* the new ones were applied by nobody.
LEMMA Grown ==
    ASSUME Inv, ledger' \in Seq({"daemon", "cli"}), Len(ledger) <= Len(ledger'),
           \A n \in 1..Len(ledger) : ledger'[n] = ledger[n],
           TypeOK', UNCHANGED <<times, cursor, jumped>>,
           \A r \in Req : Place(r)', \A r, s \in Req : Apart(r, s)',
           \A n \in 1..Len(ledger) : Behind(n) => Behind(n)',
           \A r \in Req, n \in 1..Len(ledger) : InFlight(r, n)' => InFlight(r, n)
    PROVE  Inv'
<1>0. Len(ledger) \in Nat /\ Len(ledger') \in Nat /\ Len(ledger') <= MaxSeq
  BY DEF Inv, TypeOK
<1>1. \A n \in 1..Len(ledger') : n \in Seqs /\ (n \in 1..Len(ledger) \/ times[n] = 0)
  BY <1>0, RuntimeConstants DEF Inv, Seqs
<1>2. ASSUME NEW n \in 1..Len(ledger') PROVE Bounded(n)'
  <2>1. CASE n \in 1..Len(ledger)
    <3>1. Published(n) => Published(n)'
      BY <2>1 DEF Published
    <3> QED BY <2>1, <3>1 DEF Inv, Bounded
  <2>2. CASE times[n] = 0
    BY <2>2 DEF Bounded
  <2> QED BY <1>1, <2>1, <2>2
<1>3. \A n \in Seqs : n > Len(ledger') => times'[n] = 0
  BY DEF Inv, TypeOK, Seqs
<1>4. LostOnlyByJump'
  BY DEF Inv, LostOnlyByJump
<1> QED BY <1>2, <1>3, <1>4 DEF Inv

\* The batch of a command follows every record that is in flight.
LEMMA HandleCommandInv == ASSUME Inv, NEW r \in Req, HandleCommand(r) PROVE Inv'
<1> USE RuntimeConstants
<1>1. PICK m \in 1..MaxBatch :
        /\ Len(ledger) + m <= MaxSeq
        /\ ledger' = ledger \o [i \in 1..m |-> "daemon"]
        /\ loc' = [loc EXCEPT ![r].at = Len(ledger) + 1, ![r].upto = Len(ledger) + m]
  BY DEF HandleCommand
<1> DEFINE b == [i \in 1..m |-> "daemon"]
<1>2. ledger \in Seq({"daemon", "cli"}) /\ Len(ledger) \in Nat /\ m \in Nat /\ m >= 1
  BY DEF Inv, TypeOK
<1>3. b \in Seq({"daemon", "cli"}) /\ Len(b) = m
  BY <1>2
<1>4. /\ ledger' \in Seq({"daemon", "cli"}) /\ Len(ledger') = Len(ledger) + m
      /\ \A n \in 1..Len(ledger) + m :
           ledger'[n] = IF n <= Len(ledger) THEN ledger[n] ELSE b[n - Len(ledger)]
  BY <1>1, <1>2, <1>3, ConcatProperties
<1>5. \A n \in 1..Len(ledger) : ledger'[n] = ledger[n]
  BY <1>4, <1>2
<1>6. \A n \in Len(ledger) + 1 .. Len(ledger) + m : ledger'[n] = "daemon"
  BY <1>4, <1>2
<1> HIDE DEF b
<1>7. /\ \A x \in Req : x # r => pc'[x] = pc[x] /\ loc'[x] = loc[x]
      /\ pc'[r] = "reread" /\ loc'[r].at = Len(ledger) + 1 /\ loc'[r].upto = Len(ledger) + m
      /\ pc' \in [Req -> Steps] /\ pc[r] = "serve"
      /\ UNCHANGED <<times, cursor, mu, jumped, restarts>>
  <2>1. /\ pc' = [pc EXCEPT ![r] = "reread"] /\ pc[r] = "serve"
        /\ UNCHANGED <<times, cursor, mu, jumped, restarts>>
    BY DEF HandleCommand, Goto
  <2>2. pc \in [Req -> Steps] /\ loc \in [Req -> Locals]
    BY DEF Inv, TypeOK
  <2>3. pc' \in [Req -> Steps] /\ pc'[r] = "reread" /\ \A x \in Req : x # r => pc'[x] = pc[x]
    BY <2>1, <2>2 DEF Steps
  <2> DEFINE first == Len(ledger) + 1
             last == Len(ledger) + m
  <2> HIDE DEF first, last
  <2>4. loc' = [loc EXCEPT ![r].at = first, ![r].upto = last]
    BY <1>1 DEF first, last
  <2>5. \A x \in Req : x # r => loc'[x] = loc[x]
    BY <2>2, <2>4
  <2>6. loc'[r].at = first /\ loc'[r].upto = last
    BY <2>2, <2>4 DEF Locals
  <2> QED BY <2>1, <2>3, <2>5, <2>6 DEF first, last
<1>8. loc' \in [Req -> Locals]
  <2> DEFINE first == Len(ledger) + 1
             last == Len(ledger) + m
  <2>1. first \in 0..MaxSeq /\ last \in 0..MaxSeq
    BY <1>1, <1>2
  <2> HIDE DEF first, last
  <2>2. loc' = [loc EXCEPT ![r].at = first, ![r].upto = last]
    BY <1>1 DEF first, last
  <2> QED BY <2>1, <2>2 DEF Inv, TypeOK, Locals
<1>9. TypeOK'
  <2>1. \A x \in Req : pc'[x] \in Inside <=> mu' = x
    BY <1>7 DEF Inv, TypeOK, Inside
  <2>2. Len(ledger') <= MaxSeq /\ cursor' \in 0..Len(ledger')
    BY <1>1, <1>2, <1>4, <1>7 DEF Inv, TypeOK
  <2> QED BY <2>1, <2>2, <1>4, <1>7, <1>8 DEF Inv, TypeOK, Inside
<1>10. \A x \in Req : Place(x)'
  <2>1. ASSUME NEW x \in Req, x # r PROVE Place(x)'
    <3>1. /\ loc[x].at \in Nat /\ loc[x].upto \in Nat
          /\ pc'[x] = pc[x] /\ loc'[x] = loc[x] /\ Place(x)
      <4>1. loc[x] \in Locals /\ Place(x)
        BY DEF Inv, TypeOK
      <4> QED BY <4>1, <1>7, <2>1 DEF Locals
    <3>2. pc[x] \in Flying => \A n \in loc[x].at .. loc[x].upto : ledger'[n] = "daemon"
      BY <3>1, <1>5 DEF Place
    <3>3. loc[x].upto <= Len(ledger) => loc[x].upto <= Len(ledger')
      BY <3>1, <1>2, <1>4
    <3> QED BY <3>1, <3>2, <3>3, <1>7 DEF Place
  <2>2. Place(r)'
    BY <1>2, <1>4, <1>6, <1>7 DEF Place, Flying
  <2> QED BY <2>1, <2>2
<1>11. \A x \in Req : x # r /\ pc[x] \in Flying => loc[x].upto < Len(ledger) + 1
  BY <1>2 DEF Inv, Place, TypeOK, Locals
<1>12. \A x, y \in Req : Apart(x, y)'
  BY <1>7, <1>11 DEF Inv, Apart
<1>13. \A n \in 1..Len(ledger) : Behind(n) => Behind(n)'
  BY <1>7 DEF Behind, Inv, TypeOK
<1>14. \A x \in Req, n \in 1..Len(ledger) : InFlight(x, n)' => InFlight(x, n)
  BY <1>7, <1>2 DEF InFlight
<1> QED BY <1>2, <1>4, <1>5, <1>7, <1>9, <1>10, <1>12, <1>13, <1>14, Grown

\* Records of the CLI are new to every index.
LEMMA CLIAppendInv == ASSUME Inv, CLIAppend PROVE Inv'
<1> USE RuntimeConstants
<1>1. /\ ledger' \in Seq({"daemon", "cli"}) /\ Len(ledger') = Len(ledger) + 1
      /\ \A n \in 1..Len(ledger) : ledger'[n] = ledger[n]
      /\ Len(ledger) \in Nat /\ Len(ledger) < MaxSeq
      /\ UNCHANGED <<times, cursor, mu, pc, loc, jumped, restarts>>
  BY DEF CLIAppend, Inv, TypeOK
<1>2. TypeOK'
  BY <1>1 DEF Inv, TypeOK
<1>3. ASSUME NEW x \in Req PROVE Place(x)'
  <2>1. loc[x].at \in Nat /\ loc[x].upto \in Nat /\ Place(x)
    BY DEF Inv, TypeOK, Locals
  <2>2. pc[x] \in Flying => \A n \in loc[x].at .. loc[x].upto : ledger'[n] = "daemon"
    BY <2>1, <1>1 DEF Place
  <2>3. loc[x].upto <= Len(ledger) => loc[x].upto <= Len(ledger')
    BY <2>1, <1>1
  <2> QED BY <2>1, <2>2, <2>3, <1>1 DEF Place
<1>4. \A x, y \in Req : Apart(x, y)'
  BY <1>1 DEF Inv, Apart
<1>5. \A n \in 1..Len(ledger) : Behind(n) => Behind(n)'
  BY <1>1 DEF Behind
<1>6. \A x \in Req, n \in 1..Len(ledger) : InFlight(x, n)' => InFlight(x, n)
  BY <1>1 DEF InFlight
<1> QED BY <1>1, <1>2, <1>3, <1>4, <1>5, <1>6, Grown

\* A publish hands a record to the indexes that was in its batch alone.
LEMMA PublishInv == ASSUME Inv, NEW r \in Req, Publish(r) PROVE Inv'
<1> USE RuntimeConstants
<1> DEFINE k == loc[r].at
<1>1. /\ k \in 1..Len(ledger) /\ k \in Seqs /\ pc[r] = "publish" /\ mu # r
      /\ k <= loc[r].upto /\ ledger[k] = "daemon" /\ loc[r].upto \in Nat
  <2>1. pc[r] = "publish" /\ Place(r) /\ loc[r] \in Locals /\ mu # r /\ Len(ledger) <= MaxSeq
        /\ Len(ledger) \in Nat
    BY DEF Publish, Inv, TypeOK
  <2> QED BY <2>1 DEF Place, Flying, Locals, Seqs
<1>2. /\ times' \in [Seqs -> Nat] /\ times'[k] = times[k] + 1
      /\ \A n \in Seqs : n # k => times'[n] = times[n]
  BY <1>1 DEF Publish, ApplyToIndexes, Inv, TypeOK
<1>3. /\ \A x \in Req : pc'[x] = IF x = r THEN "pubmark" ELSE pc[x]
      /\ pc' \in [Req -> Steps]
      /\ UNCHANGED <<ledger, cursor, mu, loc, jumped, restarts>>
  BY DEF Publish, Goto, Inv, TypeOK, Steps
<1>a. \A n \in Seqs : times[n] \in Nat
  BY DEF Inv, TypeOK
<1>4. TypeOK'
  BY <1>1, <1>2, <1>3 DEF Inv, TypeOK
<1>5. LostOnlyByJump'
  <2>1. \A n \in 1..cursor : n \in Seqs
    BY DEF Inv, TypeOK, Seqs
  <2> QED BY <1>1, <1>2, <1>3, <1>a, <2>1 DEF Inv, LostOnlyByJump
<1>6. \A x \in Req : Place(x)'
  <2>1. \A n \in Seqs : times[n] >= 1 => times'[n] >= 1
    BY <1>1, <1>2, <1>a
  <2>2. \A x \in Req : pc[x] \in {"mark", "pubmark"} => loc[x].at \in Seqs
    BY DEF Inv, Place, TypeOK, Locals, Seqs, Flying
  <2>3. ASSUME NEW x \in Req, x # r PROVE Place(x)'
    BY <2>1, <2>2, <2>3, <1>3 DEF Inv, Place, Flying
  <2>4. Place(r)'
    BY <1>1, <1>2, <1>3, <1>a DEF Inv, Place, Flying
  <2> QED BY <2>3, <2>4
<1>7. \A x, y \in Req : Apart(x, y)'
  BY <1>1, <1>3 DEF Inv, Apart, Flying
<1>8. \A x \in Req, n \in 1..Len(ledger) : InFlight(x, n)' => InFlight(x, n) /\ n # k
  <2> SUFFICES ASSUME NEW x \in Req, NEW n \in 1..Len(ledger), InFlight(x, n)'
               PROVE  InFlight(x, n) /\ n # k
    OBVIOUS
  <2>t. loc[x] \in Locals /\ loc[r] \in Locals /\ Apart(x, r)
    BY DEF Inv, TypeOK
  <2>1. CASE x = r
    BY <2>1, <2>t, <1>1, <1>3 DEF InFlight, Flying, Locals
  <2>2. CASE x # r
    <3>1. InFlight(x, n)
      BY <2>2, <1>3 DEF InFlight
    <3>2. loc[x].at <= n /\ n <= loc[x].upto /\ pc[x] \in Flying
      BY <3>1, <2>t DEF InFlight, Locals
    <3>3. n # k
      <4>1. loc[x].upto < k \/ loc[r].upto < loc[x].at
        BY <3>2, <2>2, <2>t, <1>1 DEF Apart, Flying
      <4>2. loc[x].upto \in Int /\ loc[x].at \in Int /\ k \in Int /\ loc[r].upto \in Int
        BY <2>t, SMTT(30) DEF Locals
      <4> QED BY <3>2, <4>1, <4>2, <1>1
    <3> QED BY <3>1, <3>3
  <2> QED BY <2>1, <2>2
<1>9. InFlight(r, k)
  BY <1>1 DEF InFlight, Flying
<1>10. \A n \in 1..Len(ledger) : Behind(n)' <=> Behind(n)
  BY <1>1, <1>3 DEF Behind
<1>11. \A n \in Seqs : n > Len(ledger') => times'[n] = 0
  BY <1>1, <1>2, <1>3 DEF Inv
<1>12. ASSUME NEW n \in 1..Len(ledger) PROVE Bounded(n)'
  <2>1. n \in Seqs /\ times[n] \in Nat /\ Bounded(n)
    BY <1>a DEF Inv, TypeOK, Seqs
  <2>2. CASE n = k
    <3>1. ~Published(n)
      BY <1>9, <2>2 DEF Published
    <3>2. Published(n)'
      BY <1>1, <1>3, <1>8, <2>2 DEF Published
    <3>3. times'[n] = times[n] + 1
      BY <1>2, <2>2
    <3> HIDE DEF k
    <3> QED BY <2>1, <3>1, <3>2, <3>3, <1>10 DEF Bounded
  <2>3. CASE n # k
    <3>1. Published(n) => Published(n)'
      BY <1>3, <1>8 DEF Published
    <3>2. times'[n] = times[n]
      BY <1>2, <2>1, <2>3
    <3> QED BY <2>1, <3>1, <3>2, <1>10 DEF Bounded
  <2> QED BY <2>2, <2>3
<1> QED BY <1>3, <1>4, <1>5, <1>6, <1>7, <1>11, <1>12 DEF Inv

\* The cursor follows the publish; what it passes unapplied is in jumped.
LEMMA PublishMarkInv == ASSUME Inv, NEW r \in Req, PublishMark(r) PROVE Inv'
<1> USE RuntimeConstants
<1> DEFINE k == loc[r].at
<1>1. /\ k \in 1..Len(ledger) /\ pc[r] = "pubmark" /\ mu # r /\ times[k] >= 1
      /\ k <= loc[r].upto /\ loc[r].upto \in 1..Len(ledger) /\ cursor \in 0..Len(ledger)
      /\ Len(ledger) \in Nat /\ Len(ledger) <= MaxSeq
      /\ \A n \in k .. loc[r].upto : ledger[n] = "daemon"
  <2>1. /\ pc[r] = "pubmark" /\ Place(r) /\ loc[r] \in Locals /\ mu # r /\ Len(ledger) \in Nat
        /\ cursor \in 0..Len(ledger) /\ Len(ledger) <= MaxSeq
    BY SMTT(30) DEF PublishMark, Inv, TypeOK
  <2> QED BY <2>1 DEF Place, Flying, Locals
<1>2. /\ cursor' \in 0..Len(ledger) /\ cursor <= cursor'
      /\ \A n \in 1..cursor' : n <= cursor \/ n \in cursor + 1 .. k
  BY <1>1 DEF PublishMark, Larger
<1>3. jumped' = jumped \union {n \in cursor + 1 .. k - 1 : times[n] = 0}
  BY DEF PublishMark
<1>4. UNCHANGED <<ledger, times, mu, restarts>>
  BY DEF PublishMark
<1>5. /\ \A x \in Req : x # r => pc'[x] = pc[x] /\ loc'[x] = loc[x]
      /\ \/ pc'[r] = "publish" /\ loc'[r].at = k + 1 /\ loc'[r].upto = loc[r].upto /\ k < loc[r].upto
         \/ pc'[r] = "idle"
      /\ pc' \in [Req -> Steps] /\ loc' \in [Req -> Locals]
  <2>0. pc \in [Req -> Steps] /\ loc \in [Req -> Locals]
    BY DEF Inv, TypeOK
  <2>1. CASE k < loc[r].upto
    <3>1. k + 1 \in 0..MaxSeq
      BY <2>1, <1>1
    <3>2. loc' = [loc EXCEPT ![r].at = k + 1] /\ pc' = [pc EXCEPT ![r] = "publish"]
      BY <2>1 DEF PublishMark, Goto
    <3>3. loc' \in [Req -> Locals]
      BY <3>1, <3>2, <2>0, Setting
    <3>4. loc'[r].at = k + 1 /\ loc'[r].upto = loc[r].upto
      BY <3>2, <2>0 DEF Locals
    <3> QED BY <3>2, <3>3, <3>4, <2>0, <2>1 DEF Steps
  <2>2. CASE ~(k < loc[r].upto)
    <3>1. pc' = [pc EXCEPT ![r] = "idle"] /\ loc' = [loc EXCEPT ![r] = NoLocals]
      BY <2>2 DEF PublishMark, Return, Goto
    <3>2. 0 \in 0..MaxSeq
      OBVIOUS
    <3> QED BY <3>1, <3>2, <2>0, Setting DEF Steps
  <2> QED BY <2>1, <2>2
<1> HIDE DEF k
<1>6. TypeOK'
  <2>1. \A x \in Req : pc'[x] \in Inside <=> mu' = x
    BY <1>1, <1>4, <1>5 DEF Inv, TypeOK, Inside
  <2>2. jumped' \subseteq Seqs
    <3>1. \A n \in cursor + 1 .. k - 1 : n \in Seqs
      BY <1>1 DEF Seqs
    <3>2. jumped \subseteq Seqs
      BY DEF Inv, TypeOK
    <3> QED BY <1>3, <3>1, <3>2
  <2> QED BY <1>2, <1>4, <1>5, <2>1, <2>2 DEF Inv, TypeOK, Inside
<1>7. LostOnlyByJump'
  <2> SUFFICES ASSUME NEW n \in 1..cursor', times'[n] = 0 PROVE n \in jumped'
    BY DEF LostOnlyByJump
  <2>1. CASE n <= cursor
    BY <2>1, <1>1, <1>3, <1>4 DEF Inv, LostOnlyByJump
  <2>2. CASE n \in cursor + 1 .. k
    BY <2>2, <1>1, <1>3, <1>4
  <2> QED BY <2>1, <2>2, <1>2
<1>8. \A x \in Req : Place(x)'
  <2>1. ASSUME NEW x \in Req, x # r PROVE Place(x)'
    <3>1. loc[x] \in Locals /\ Place(x)
      BY DEF Inv, TypeOK
    <3>2. loc[x].at <= cursor => loc[x].at <= cursor'
      BY <3>1, <1>1, <1>2 DEF Locals
    <3>3. loc[x].at <= cursor + 1 => loc[x].at <= cursor' + 1
      BY <3>1, <1>1, <1>2, SMTT(30) DEF Locals
    <3> QED BY <2>1, <3>1, <3>2, <3>3, <1>4, <1>5 DEF Place
  <2>2. Place(r)'
    <3>1. CASE pc'[r] = "idle"
      BY <3>1 DEF Place, Flying
    <3>2. CASE pc'[r] = "publish"
      BY <3>2, <1>1, <1>4, <1>5 DEF Place, Flying
    <3> QED BY <3>1, <3>2, <1>5
  <2> QED BY <2>1, <2>2
<1>9. \A x \in Req : pc'[x] \in Flying =>
        pc[x] \in Flying /\ loc'[x].upto = loc[x].upto /\ loc[x].at <= loc'[x].at
  <2> SUFFICES ASSUME NEW x \in Req, pc'[x] \in Flying
               PROVE  pc[x] \in Flying /\ loc'[x].upto = loc[x].upto /\ loc[x].at <= loc'[x].at
    OBVIOUS
  <2>t. loc[x] \in Locals
    BY DEF Inv, TypeOK
  <2>1. CASE x = r
    BY <2>1, <1>1, <1>5 DEF Flying, k
  <2>2. CASE x # r
    BY <2>2, <2>t, <1>5 DEF Locals
  <2> QED BY <2>1, <2>2
<1>10. \A x, y \in Req : Apart(x, y)'
  <2> SUFFICES ASSUME NEW x \in Req, NEW y \in Req PROVE Apart(x, y)'
    OBVIOUS
  <2>t. /\ loc[x] \in Locals /\ loc[y] \in Locals /\ loc'[x] \in Locals /\ loc'[y] \in Locals
        /\ Apart(x, y)
    BY <1>5 DEF Inv, TypeOK
  <2> QED BY <1>9, <2>t DEF Apart, Locals
<1>11. \A x \in Req, n \in 1..Len(ledger) : InFlight(x, n)' => InFlight(x, n)
  <2> SUFFICES ASSUME NEW x \in Req, NEW n \in 1..Len(ledger), InFlight(x, n)' PROVE InFlight(x, n)
    OBVIOUS
  <2>1. CASE x = r
    BY <2>1, <1>1, <1>5 DEF InFlight, Flying, k
  <2>2. CASE x # r
    BY <2>2, <1>5 DEF InFlight
  <2> QED BY <2>1, <2>2
<1>12. \A n \in 1..Len(ledger) : Behind(n) => Behind(n)'
  BY <1>1, <1>2, <1>4, <1>5 DEF Behind, Inv, TypeOK
<1>13. ASSUME NEW n \in 1..Len(ledger) PROVE Bounded(n)'
  <2>1. Published(n) => Published(n)'
    BY <1>4, <1>11 DEF Published
  <2> QED BY <2>1, <1>4, <1>12 DEF Inv, Bounded
<1> QED BY <1>4, <1>6, <1>7, <1>8, <1>10, <1>13 DEF Inv

\* openCore applies every record of the ledger once.
LEMMA RestartInv == ASSUME Inv, Restart PROVE Inv'
<1> USE RuntimeConstants
<1>1. /\ ledger' = ledger /\ Len(ledger) \in Nat /\ Len(ledger) <= MaxSeq /\ cursor' = Len(ledger)
      /\ ledger \in Seq({"daemon", "cli"})
      /\ mu' = NoReq /\ jumped' = {} /\ restarts' \in 0..MaxRestarts
  BY DEF Restart, Inv, TypeOK
<1>2. times' \in [Seqs -> Nat] /\ \A n \in Seqs : times'[n] = IF n <= Len(ledger) THEN 1 ELSE 0
  BY DEF Restart
<1>3. /\ pc' \in [Req -> Steps] /\ \A x \in Req : pc'[x] = "idle"
      /\ loc' \in [Req -> Locals]
  BY DEF Restart, Steps, Locals, NoLocals
<1>4. TypeOK'
  BY <1>1, <1>2, <1>3 DEF TypeOK
<1>5. \A n \in 1..Len(ledger) : times'[n] = 1
  BY <1>1, <1>2 DEF Seqs
<1>6. LostOnlyByJump'
  BY <1>1, <1>5 DEF LostOnlyByJump
<1>7. \A x \in Req : Place(x)'
  BY <1>3 DEF Place, Flying
<1>8. \A x, y \in Req : Apart(x, y)'
  BY <1>3 DEF Apart, Flying
<1>9. \A n \in 1..Len(ledger) : Bounded(n)'
  <2>1. \A n \in 1..Len(ledger) : Behind(n)'
    BY <1>1 DEF Behind
  <2> QED BY <2>1, <1>5 DEF Bounded
<1> QED BY <1>1, <1>2, <1>4, <1>6, <1>7, <1>8, <1>9 DEF Inv

\* Every step of the daemon keeps the invariant.
LEMMA NextInv == Inv /\ [Next]_vars => Inv'
<1> SUFFICES ASSUME Inv, [Next]_vars PROVE Inv'
  OBVIOUS
<1>1. CASE UNCHANGED vars
  BY <1>1 DEF vars, Inv, TypeOK, LostOnlyByJump, Place, Apart, Bounded, Published, InFlight, Behind
<1>2. ASSUME NEW r \in Req, Arrive(r) \/ Lock(r) PROVE Inv'
  BY <1>2, ArriveInv, LockInv
<1>3. ASSUME NEW r \in Req, Holding(r) PROVE Inv'
  BY <1>3, CompareInv, StartReplayInv, ReadPageInv, ProjectInv, MarkInv, UnlockInv, CatchUpFailsInv
  DEF Holding
<1>4. ASSUME NEW r \in Req, Serving(r) PROVE Inv'
  BY <1>4, AnswerInv, HandleCommandInv, RereadInv, RereadFailsInv, PublishInv, PublishMarkInv
  DEF Serving
<1> QED BY <1>1, <1>2, <1>3, <1>4, CLIAppendInv, RestartInv DEF Next

\* The invariant holds of every behaviour, fair or not.
LEMMA DaemonInv == Spec => []Inv
<1>1. Init => Inv BY InitInv
<1>2. Inv /\ [Next]_vars => Inv' BY NextInv
<1> QED BY <1>1, <1>2, PTL DEF Spec

\* c.mu is held by exactly the request that is inside catchUp (runtime.go).
THEOREM DaemonTypeOK == Spec => []TypeOK
<1>1. Inv => TypeOK BY DEF Inv
<1> QED BY <1>1, DaemonInv, PTL

\* A record that is missing behind the cursor is one a publish jumped over:
\* catchUp and Replay lose nothing (runtime.go, rebuild.go, cursor.go).
THEOREM DaemonLostOnlyByJump == Spec => []LostOnlyByJump
<1>1. Inv => LostOnlyByJump BY DEF Inv
<1> QED BY <1>1, DaemonInv, PTL

\* Catch-up hands each record to the indexes at most once, whatever requests,
\* publishes, failures and restarts surround it (runtime.go, rebuild.go).
THEOREM DaemonCatchUpAppliesOnce == Spec => []CatchUpAppliesOnce
<1>1. Inv => CatchUpAppliesOnce
  <2> SUFFICES ASSUME Inv, NEW n \in 1..Len(ledger)
               PROVE  times[n] <= IF ledger[n] = "cli" THEN 1 ELSE 2
    BY DEF CatchUpAppliesOnce
  <2>1. Bounded(n)
    BY DEF Inv
  <2> QED BY <2>1 DEF Bounded, Published
<1> QED BY <1>1, DaemonInv, PTL
=============================================================================
