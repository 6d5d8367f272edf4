----------------------------- MODULE HooksProofs ----------------------------
(***************************************************************************)
(* Proofs about Hooks, for any number of hooks that overlap, any files and *)
(* any number of events.                                                   *)
(*                                                                         *)
(* The state of a session is a fold over its records, and what a fold      *)
(* computes would need an induction over the stream.  The behaviour is     *)
(* that induction: records are only ever appended, so it is an invariant   *)
(* that the fold of every prefix exists, is the only one, and is a state   *)
(* (Folding).  Counted: an edit is in a turn, or carried by a hook that    *)
(* records one, or in the open turn.  Orderly: with one hook at a time,    *)
(* the session is open when a turn is closed and the turn is empty when a  *)
(* prompt replaces it.                                                     *)
(***************************************************************************)
EXTENDS Hooks, SequenceTheorems, FiniteSetTheorems, TLAPS

Class == {"accept", "redirect", "revert"}
Rec == [kind : {"Started", "Ended", "Shared"}] \union [kind : {"Turn"}, class : Class, files : SUBSET File]
Turn == [known : BOOLEAN, open : BOOLEAN, files : SUBSET File]
Cmd == [kind : {"none", "Start", "Turn", "End"}, class : Class, files : SUBSET File]
Kinds == {"SessionStart", "SessionEnd", "RevertCommand", "Prompt", "Redirect", "PostEdit"}
Local == [pc : {"idle", "edit", "start", "close", "record", "publish", "reset", "end", "done"},
          ev : Kinds \union {"none"}, cmd : Cmd, next : {"idle", "close", "reset", "end", "done"}, seq : Nat]
Session == [state : {"none", "open", "ended", "shared"}, turns : Nat, touched : SUBSET File, judgments : Nat]

\* The variables hold values of their kind; what a hook publishes is on the stream,
\* and a turn that is not known is empty.
Typed ==
    /\ stream \in Seq(Rec) /\ recorded \in BOOLEAN /\ turn \in Turn
    /\ hook \in [Hook -> Local]
    /\ \A h \in Hook : /\ hook[h].pc = "record" => hook[h].cmd.kind # "none"
                       /\ hook[h].pc = "publish" => hook[h].seq \in 1..Len(stream)
    /\ cursor \in 0..Len(stream)
    /\ edits \in [File -> Nat] /\ owed \subseteq File
    /\ lost \in BOOLEAN /\ raced \in BOOLEAN
    /\ ~turn.known => turn.files = {}

-----------------------------------------------------------------------------
(* The fold of a stream. *)

FoldOf(F, n, q) == F = [i \in 0..n |-> IF i = 0 THEN NoSession ELSE Apply(F[i-1], q[i])]
ReplayOf(F, from, s, q) == F = [i \in from..Len(q) |-> IF i = from THEN s ELSE Handle(F[i-1], q[i])]

\* Each prefix has one fold, and there is at most one replay behind a position.
Folds(q) ==
    \A n \in 0..Len(q) : \E F \in [0..n -> Session] : FoldOf(F, n, q) /\ \A G : FoldOf(G, n, q) => G = F
Replays(q) ==
    \A from \in 0..Len(q) : \A s, F, G : ReplayOf(F, from, s, q) /\ ReplayOf(G, from, s, q) => F = G

Folding == Folds(stream) /\ Replays(stream)

\* A record takes a state to a state.
LEMMA ApplyTyped ==
    ASSUME NEW s \in Session, NEW r \in Rec
    PROVE  Apply(s, r) \in Session
<1>1. NoSession \in Session
  BY DEF NoSession, Session
<1>2. CASE r \in [kind : {"Started", "Ended", "Shared"}]
  <2>1. r.kind \in {"Started", "Ended", "Shared"}
    BY <1>2
  <2> QED BY <1>1, <2>1 DEF Apply, Session
<1>3. CASE r \in [kind : {"Turn"}, class : Class, files : SUBSET File]
  <2>1. r.kind = "Turn" /\ r.files \in SUBSET File
    BY <1>3
  <2>2. PICK j : j = IF r.class \in {"redirect", "revert"} THEN s.judgments + 1 ELSE s.judgments
    OBVIOUS
  <2>3. j \in Nat /\ s.turns + 1 \in Nat /\ s.touched \union r.files \in SUBSET File
    BY <2>1, <2>2 DEF Session
  <2>4. Apply(s, r) = [s EXCEPT !.turns = s.turns + 1, !.touched = s.touched \union r.files, !.judgments = j]
    BY <2>1, <2>2 DEF Apply
  <2> QED BY <2>3, <2>4 DEF Session
<1> QED BY <1>2, <1>3 DEF Rec

\* SessionIndex.Handle says what Session.Apply says.
LEMMA HandleIsApply ==
    ASSUME NEW s, NEW r \in Rec
    PROVE  Handle(s, r) = Apply(s, r)
<1>1. CASE r \in [kind : {"Started", "Ended", "Shared"}]
  <2>1. r.kind \in {"Started", "Ended", "Shared"}
    BY <1>1
  <2> QED BY <2>1 DEF Apply, Handle
<1>2. CASE r \in [kind : {"Turn"}, class : Class, files : SUBSET File]
  <2>1. r.kind = "Turn" /\ r.class \in {"accept", "redirect", "revert"}
    BY <1>2 DEF Class
  <2> QED BY <2>1 DEF Apply, Handle
<1> QED BY <1>1, <1>2 DEF Rec

\* What the fold of a prefix is, does not depend on what comes after it.
LEMMA FoldOfPrefix ==
    ASSUME NEW q, NEW p, NEW n \in Nat, \A i \in 1..n : p[i] = q[i], NEW F
    PROVE  FoldOf(F, n, q) <=> FoldOf(F, n, p)
<1>1. [i \in 0..n |-> IF i = 0 THEN NoSession ELSE Apply(F[i-1], q[i])]
        = [i \in 0..n |-> IF i = 0 THEN NoSession ELSE Apply(F[i-1], p[i])]
  <2>1. \A i \in 0..n : i # 0 => i \in 1..n
    OBVIOUS
  <2> QED BY <2>1
<1> QED BY <1>1 DEF FoldOf

\* The fold of a prefix is the beginning of the fold.
LEMMA FoldOfLess ==
    ASSUME NEW q, NEW n \in Nat, NEW F, FoldOf(F, n + 1, q)
    PROVE  /\ FoldOf([i \in 0..n |-> F[i]], n, q)
           /\ F[n + 1] = Apply(F[n], q[n + 1])
<1> DEFINE G == [i \in 0..n |-> F[i]]
<1>1. \A i \in 0..(n + 1) : F[i] = IF i = 0 THEN NoSession ELSE Apply(F[i-1], q[i])
  BY DEF FoldOf
<1>2. \A i \in 0..n : i # 0 => i - 1 \in 0..n /\ G[i-1] = F[i-1]
  OBVIOUS
<1>3. \A i \in 0..n : G[i] = IF i = 0 THEN NoSession ELSE Apply(G[i-1], q[i])
  BY <1>1, <1>2
<1>4. G = [i \in 0..n |-> IF i = 0 THEN NoSession ELSE Apply(G[i-1], q[i])]
  BY <1>3
<1>5. F[n + 1] = Apply(F[n], q[n + 1])
  BY <1>1
<1> QED BY <1>4, <1>5 DEF FoldOf

\* A record at the end extends the fold.
LEMMA FoldsGrow ==
    ASSUME NEW q \in Seq(Rec), NEW r \in Rec, Folds(q)
    PROVE  Folds(Append(q, r))
<1> DEFINE p == Append(q, r)
           n == Len(q)
<1>1. p \in Seq(Rec) /\ Len(p) = n + 1 /\ p[n + 1] = r /\ n \in Nat /\ \A i \in 1..n : p[i] = q[i]
  OBVIOUS
<1> HIDE DEF p
<1>2. ASSUME NEW k \in 0..n
      PROVE  \E F \in [0..k -> Session] : FoldOf(F, k, p) /\ \A G : FoldOf(G, k, p) => G = F
  <2>1. k \in Nat /\ \A i \in 1..k : p[i] = q[i]
    BY <1>1
  <2>2. PICK F \in [0..k -> Session] : FoldOf(F, k, q) /\ \A G : FoldOf(G, k, q) => G = F
    BY DEF Folds
  <2>3. \A G : FoldOf(G, k, q) <=> FoldOf(G, k, p)
    BY <2>1, FoldOfPrefix
  <2> QED BY <2>2, <2>3
<1>3. \E F \in [0..(n + 1) -> Session] : FoldOf(F, n + 1, p) /\ \A G : FoldOf(G, n + 1, p) => G = F
  <2>1. PICK E \in [0..n -> Session] : FoldOf(E, n, p) /\ \A G : FoldOf(G, n, p) => G = E
    BY <1>1, <1>2
  <2>2. PICK F : F = [i \in 0..(n + 1) |-> IF i = n + 1 THEN Apply(E[n], r) ELSE E[i]]
    OBVIOUS
  <2>3. Apply(E[n], r) \in Session
    BY <1>1, <2>1, ApplyTyped
  <2>4. F \in [0..(n + 1) -> Session]
    BY <1>1, <2>1, <2>2, <2>3
  <2>5. FoldOf(F, n + 1, p)
    <3>1. \A i \in 0..n : E[i] = IF i = 0 THEN NoSession ELSE Apply(E[i-1], p[i])
      BY <2>1 DEF FoldOf
    <3>2. \A i \in 0..(n + 1) : F[i] = IF i = 0 THEN NoSession ELSE Apply(F[i-1], p[i])
      <4> SUFFICES ASSUME NEW i \in 0..(n + 1)
                   PROVE  F[i] = IF i = 0 THEN NoSession ELSE Apply(F[i-1], p[i])
        OBVIOUS
      <4>1. CASE i = n + 1
        <5>1. F[i] = Apply(E[n], r) /\ F[i-1] = E[n] /\ p[i] = r /\ i # 0
          BY <1>1, <2>2, <4>1
        <5> QED BY <5>1
      <4>2. CASE i # n + 1
        <5>1. i \in 0..n /\ F[i] = E[i] /\ (i # 0 => F[i-1] = E[i-1])
          BY <1>1, <2>2, <4>2
        <5> QED BY <3>1, <5>1
      <4> QED BY <4>1, <4>2
    <3>3. F = [i \in 0..(n + 1) |-> IF i = 0 THEN NoSession ELSE Apply(F[i-1], p[i])]
      BY <2>2, <3>2
    <3> QED BY <3>3 DEF FoldOf
  <2>6. ASSUME NEW G, FoldOf(G, n + 1, p)
        PROVE  G = F
    <3>1. FoldOf([i \in 0..n |-> G[i]], n, p) /\ G[n + 1] = Apply(G[n], p[n + 1])
      BY <1>1, <2>6, FoldOfLess
    <3>2. [i \in 0..n |-> G[i]] = E
      BY <2>1, <3>1
    <3>3. \A i \in 0..n : G[i] = E[i]
      BY <3>2
    <3>4. \A i \in 0..(n + 1) : G[i] = F[i]
      BY <1>1, <2>2, <3>1, <3>3
    <3>5. G = [i \in 0..(n + 1) |-> G[i]]
      BY <2>6 DEF FoldOf
    <3> QED BY <2>4, <3>4, <3>5
  <2> QED BY <2>4, <2>5, <2>6
<1>4. ASSUME NEW k \in 0..Len(p)
      PROVE  \E F \in [0..k -> Session] : FoldOf(F, k, p) /\ \A G : FoldOf(G, k, p) => G = F
  <2>1. k \in 0..n \/ k = n + 1
    BY <1>1
  <2>2. CASE k \in 0..n
    BY <1>2, <2>2
  <2>3. CASE k = n + 1
    BY <1>3, <2>3
  <2> QED BY <2>1, <2>2, <2>3
<1> QED BY <1>4 DEF Folds, p

\* A record at the end leaves at most one replay.
LEMMA ReplaysGrow ==
    ASSUME NEW q \in Seq(Rec), NEW r \in Rec, Replays(q)
    PROVE  Replays(Append(q, r))
<1> DEFINE p == Append(q, r)
           n == Len(q)
<1>1. Len(p) = n + 1 /\ n \in Nat /\ \A i \in 1..n : p[i] = q[i]
  OBVIOUS
<1> HIDE DEF p
<1> SUFFICES ASSUME NEW from \in 0..Len(p), NEW s, NEW F, NEW G, ReplayOf(F, from, s, p), ReplayOf(G, from, s, p)
             PROVE  F = G
  BY DEF Replays, p
<1>2. \A i \in from..Len(p) : F[i] = IF i = from THEN s ELSE Handle(F[i-1], p[i])
  BY DEF ReplayOf
<1>3. \A i \in from..Len(p) : G[i] = IF i = from THEN s ELSE Handle(G[i-1], p[i])
  BY DEF ReplayOf
<1>4. F = [i \in from..Len(p) |-> F[i]] /\ G = [i \in from..Len(p) |-> G[i]]
  BY DEF ReplayOf
<1>5. \A i \in from..Len(p) : F[i] = G[i]
  <2>1. CASE from = n + 1
    BY <1>1, <1>2, <1>3, <2>1
  <2>2. CASE from # n + 1
    <3> DEFINE D == [i \in from..n |-> F[i]]
               E == [i \in from..n |-> G[i]]
    <3>1. from \in 0..n /\ from \in Nat
      BY <1>1, <2>2
    <3>2. \A i \in from..n : i # from => i - 1 \in from..n /\ i \in 1..n
      BY <1>1, <3>1
    <3>3. \A i \in from..n : D[i] = IF i = from THEN s ELSE Handle(D[i-1], q[i])
      BY <1>1, <1>2, <3>1, <3>2
    <3>4. \A i \in from..n : E[i] = IF i = from THEN s ELSE Handle(E[i-1], q[i])
      BY <1>1, <1>3, <3>1, <3>2
    <3>5. ReplayOf(D, from, s, q)
      <4>1. D = [i \in from..n |-> IF i = from THEN s ELSE Handle(D[i-1], q[i])]
        BY <3>3
      <4> QED BY <4>1 DEF ReplayOf
    <3>6. ReplayOf(E, from, s, q)
      <4>1. E = [i \in from..n |-> IF i = from THEN s ELSE Handle(E[i-1], q[i])]
        BY <3>4
      <4> QED BY <4>1 DEF ReplayOf
    <3> HIDE DEF D, E
    <3>7. D = E
      BY <3>1, <3>5, <3>6 DEF Replays
    <3>8. \A i \in from..n : F[i] = G[i]
      BY <3>7 DEF D, E
    <3>9. F[n + 1] = G[n + 1]
      BY <1>1, <1>2, <1>3, <3>1, <3>8
    <3> QED BY <1>1, <3>1, <3>8, <3>9
  <2> QED BY <2>1, <2>2
<1> QED BY <1>4, <1>5

\* The fold of the first n records of a stream.
Prefix(q, n) == (CHOOSE G : FoldOf(G, n, q))[n]

\* It is a state, NoSession of nothing, and else the state before the last record
\* with that record applied.
LEMMA PrefixIs ==
    ASSUME NEW q \in Seq(Rec), Folds(q)
    PROVE  /\ \A n \in 0..Len(q) : Prefix(q, n) \in Session
           /\ Prefix(q, 0) = NoSession
           /\ \A n \in 1..Len(q) : Prefix(q, n) = Apply(Prefix(q, n - 1), q[n])
<1>1. ASSUME NEW n \in 0..Len(q), NEW F, FoldOf(F, n, q)
      PROVE  Prefix(q, n) = F[n] /\ F \in [0..n -> Session]
  <2>1. PICK E \in [0..n -> Session] : FoldOf(E, n, q) /\ \A G : FoldOf(G, n, q) => G = E
    BY DEF Folds
  <2> QED BY <1>1, <2>1 DEF Prefix
<1>2. \A n \in 0..Len(q) : \E F : FoldOf(F, n, q)
  BY DEF Folds
<1>3. \A n \in 0..Len(q) : Prefix(q, n) \in Session
  <2> SUFFICES ASSUME NEW n \in 0..Len(q) PROVE Prefix(q, n) \in Session
    OBVIOUS
  <2>1. PICK F : FoldOf(F, n, q)
    BY <1>2
  <2> QED BY <1>1, <2>1
<1>4. Prefix(q, 0) = NoSession
  <2>1. 0 \in 0..Len(q)
    OBVIOUS
  <2>2. PICK F : FoldOf(F, 0, q)
    BY <1>2, <2>1
  <2>3. F[0] = NoSession
    BY <2>2 DEF FoldOf
  <2> QED BY <1>1, <2>1, <2>2, <2>3
<1>5. ASSUME NEW n \in 1..Len(q)
      PROVE  Prefix(q, n) = Apply(Prefix(q, n - 1), q[n])
  <2>1. PICK k \in Nat : n = k + 1 /\ k = n - 1 /\ k \in 0..Len(q) /\ n \in 0..Len(q)
    OBVIOUS
  <2>2. PICK F : FoldOf(F, k + 1, q)
    BY <1>2, <2>1
  <2>3. FoldOf([i \in 0..k |-> F[i]], k, q) /\ F[k + 1] = Apply(F[k], q[k + 1])
    BY <2>1, <2>2, FoldOfLess
  <2>4. Prefix(q, k) = [i \in 0..k |-> F[i]][k]
    BY <1>1, <2>1, <2>3
  <2>5. Prefix(q, k) = F[k]
    BY <2>1, <2>4
  <2>6. Prefix(q, k + 1) = F[k + 1]
    BY <1>1, <2>1, <2>2
  <2> QED BY <2>1, <2>3, <2>5, <2>6
<1> QED BY <1>3, <1>4, <1>5

\* A record at the end does not change the states before it.
LEMMA PrefixStable ==
    ASSUME NEW q \in Seq(Rec), NEW r \in Rec, NEW n \in 0..Len(q)
    PROVE  Prefix(Append(q, r), n) = Prefix(q, n)
<1>1. n \in Nat /\ \A i \in 1..n : Append(q, r)[i] = q[i]
  OBVIOUS
<1>2. \A F : FoldOf(F, n, q) <=> FoldOf(F, n, Append(q, r))
  BY <1>1, FoldOfPrefix
<1> QED BY <1>2 DEF Prefix

\* The model's fold is this one, before and after a step.
LEMMA FoldedIsPrefix ==
    /\ \A n : Folded(n) = Prefix(stream, n)
    /\ \A n : Folded(n)' = Prefix(stream', n)
<1>1. \A n : Folded(n) = Prefix(stream, n)
  BY DEF Folded, Prefix, FoldOf
<1>2. \A n : Folded(n)' = Prefix(stream', n)
  BY DEF Folded, Prefix, FoldOf
<1> QED BY <1>1, <1>2

\* A replay behind a position, from the state there, ends in the state of the
\* stream.
LEMMA ReplayedIs ==
    ASSUME Folding, stream \in Seq(Rec), NEW from \in 0..Len(stream)
    PROVE  Replayed(from, Folded(from)) = Folded(Len(stream))
<1> DEFINE F == [i \in from..Len(stream) |-> Folded(i)]
           s == Folded(from)
<1>1. ReplayOf(F, from, s, stream)
  <2>1. \A i \in from..Len(stream) : F[i] = IF i = from THEN s ELSE Handle(F[i-1], stream[i])
    <3> SUFFICES ASSUME NEW i \in from..Len(stream)
                 PROVE  F[i] = IF i = from THEN s ELSE Handle(F[i-1], stream[i])
      OBVIOUS
    <3>1. CASE i = from
      BY <3>1
    <3>2. CASE i # from
      <4>1. i \in 1..Len(stream) /\ i - 1 \in from..Len(stream) /\ stream[i] \in Rec
        BY <3>2
      <4>2. Folded(i) = Apply(Folded(i - 1), stream[i])
        BY <4>1, PrefixIs, FoldedIsPrefix DEF Folding
      <4>3. F[i] = Folded(i) /\ F[i-1] = Folded(i - 1)
        BY <4>1
      <4> QED BY <3>2, <4>1, <4>2, <4>3, HandleIsApply
    <3> QED BY <3>1, <3>2
  <2>2. F = [i \in from..Len(stream) |-> IF i = from THEN s ELSE Handle(F[i-1], stream[i])]
    BY <2>1
  <2> QED BY <2>2 DEF ReplayOf
<1>2. F[Len(stream)] = Folded(Len(stream))
  OBVIOUS
<1> HIDE DEF F, s
<1>3. \A G : ReplayOf(G, from, s, stream) => G = F
  BY <1>1 DEF Folding, Replays
<1>4. Replayed(from, s) = (CHOOSE G : ReplayOf(G, from, s, stream))[Len(stream)]
  BY DEF Replayed, ReplayOf
<1>5. Replayed(from, s) = F[Len(stream)]
  BY <1>1, <1>3, <1>4
<1> QED BY <1>2, <1>5 DEF s

-----------------------------------------------------------------------------
USE DEF vars

\* What a step does to the stream: nothing, or it appends a record.
Grows(r) == stream' = stream \/ (r \in Rec /\ stream' = Append(stream, r))

\* The folds of the stream exist after a step.
LEMMA FoldingStep ==
    ASSUME Typed, Folding, NEW r, Grows(r)
    PROVE  Folding'
<1>1. stream \in Seq(Rec)
  BY DEF Typed
<1> QED BY <1>1, FoldsGrow, ReplaysGrow DEF Grows, Folding

\* The fold of a prefix is the same after it, and the new record is applied to the
\* state of the session.
LEMMA FoldedStep ==
    ASSUME Typed, Folding, NEW r \in Rec, stream' = Append(stream, r)
    PROVE  /\ \A n \in 0..Len(stream) : Folded(n)' = Folded(n)
           /\ Folded(Len(stream)) \in Session
           /\ State' = Apply(Folded(Len(stream)), r).state
<1>1. stream \in Seq(Rec) /\ stream' \in Seq(Rec) /\ Len(stream') = Len(stream) + 1 /\ Len(stream) \in Nat
      /\ stream'[Len(stream) + 1] = r
  BY DEF Typed
<1>2. Folds(stream') /\ Folds(stream)
  BY <1>1, FoldsGrow DEF Folding
<1>3. \A n \in 0..Len(stream) : Folded(n)' = Folded(n)
  BY <1>1, PrefixStable, FoldedIsPrefix
<1>4. Folded(Len(stream)) \in Session
  BY <1>1, <1>2, PrefixIs, FoldedIsPrefix
<1>5. Prefix(stream', Len(stream) + 1) = Apply(Prefix(stream', Len(stream)), r)
  <2>1. PICK n \in 1..Len(stream') : n = Len(stream) + 1 /\ n - 1 = Len(stream)
    BY <1>1
  <2>2. Prefix(stream', n) = Apply(Prefix(stream', n - 1), stream'[n])
    BY <1>1, <1>2, PrefixIs
  <2> QED BY <1>1, <2>1, <2>2
<1>6. Prefix(stream', Len(stream)) = Folded(Len(stream))
  BY <1>1, PrefixStable, FoldedIsPrefix
<1>7. State' = Prefix(stream', Len(stream')).state
  BY DEF State, Folded, Prefix, FoldOf
<1> QED BY <1>1, <1>3, <1>4, <1>5, <1>6, <1>7

\* The states that a record leads to.
LEMMA StateStep ==
    ASSUME Typed, Folding, NEW r \in Rec, stream' = Append(stream, r)
    PROVE  /\ r.kind = "Started" => State' = "open"
           /\ r.kind = "Turn" => State' = State
           /\ r.kind = "Ended" => State' = "ended"
           /\ r.kind = "Shared" => State' = "shared"
<1>1. PICK s \in Session : s = Folded(Len(stream)) /\ State = s.state /\ State' = Apply(s, r).state
  BY FoldedStep DEF State
<1>2. r.kind = "Started" => State' = "open"
  BY <1>1 DEF Apply, NoSession
<1>3. r.kind = "Turn" => State' = State
  BY <1>1 DEF Apply, Session
<1>4. r.kind = "Ended" => State' = "ended"
  BY <1>1 DEF Apply, Session
<1>5. r.kind = "Shared" => State' = "shared"
  BY <1>1 DEF Apply, Session
<1> QED BY <1>2, <1>3, <1>4, <1>5

\* A hook goes on, or ends, and the others stay where they are.
Moves(h, x) == x \in Local /\ hook' = [hook EXCEPT ![h] = x]

At(x, pc, kind) == x.pc = pc /\ x.cmd.kind = kind

\* Turns that hooks have taken over and not recorded yet.
Pending(f) == {h \in Hook : At(hook[h], "record", "Turn") /\ f \in hook[h].cmd.files}
Open(f) == IF f \in turn.files THEN 1 ELSE 0

\* An edit is in one place: a recorded turn, a hook that records one, or the open
\* turn.
Counted ==
    \A f \in File :
        /\ IsFiniteSet(TurnsWith(f)) /\ IsFiniteSet(Pending(f))
        /\ Cardinality(TurnsWith(f)) + Cardinality(Pending(f)) + Open(f) <= edits[f]

\* What a hook that is alone knows of the session and of the turn: the session is
\* open when it closes a turn, the turn is empty when it replaces it, and what is
\* owed is in the turn or in its hands.
Fine(x, state, files, rec, owing) ==
    /\ x.pc = "close" \/ At(x, "record", "Turn") \/ (x.pc = "publish" /\ x.next = "close") => state = "open"
    /\ x.pc = "start" \/ At(x, "record", "Start") => state \in {"none", "open"}
    /\ x.pc = "record" /\ x.next = "close" => x.cmd.kind = "Start"
    /\ x.pc = "reset" \/ (x.pc \in {"record", "publish"} /\ x.next = "reset") => files = {}
    /\ rec /\ ~At(x, "record", "Start") => state # "none"
    /\ owing \subseteq files \union (IF At(x, "record", "Turn") THEN x.cmd.files ELSE {})

\* In an orderly session at most one hook runs.
Orderly ==
    ~lost =>
        \/ (\A o \in Hook : ~Busy(o)) /\ Fine(Idle, State, turn.files, recorded, owed)
        \/ \E h \in Hook : /\ Busy(h) /\ (\A o \in Hook : o # h => ~Busy(o))
                           /\ Fine(hook[h], State, turn.files, recorded, owed)

IInv == Typed /\ Folding /\ Counted /\ Orderly /\ IndexIsExact

\* A step of one hook keeps the types.
LEMMA TypedStep ==
    ASSUME Typed, NEW h \in Hook, NEW x, Moves(h, x), NEW r, Grows(r),
           x.pc = "record" => x.cmd.kind # "none",
           x.pc = "publish" => x.seq \in 1..Len(stream'),
           recorded' \in BOOLEAN, turn' \in Turn, ~turn'.known => turn'.files = {},
           cursor' \in 0..Len(stream'), edits' \in [File -> Nat], owed' \subseteq File,
           lost' \in BOOLEAN, raced' \in BOOLEAN
    PROVE  Typed'
<1>1. stream' \in Seq(Rec) /\ Len(stream) \in Nat /\ Len(stream') \in Nat /\ Len(stream) <= Len(stream')
  <2>1. stream \in Seq(Rec)
    BY DEF Typed
  <2>2. CASE stream' = stream
    BY <2>1, <2>2
  <2>3. CASE r \in Rec /\ stream' = Append(stream, r)
    BY <2>1, <2>3
  <2> QED BY <2>2, <2>3 DEF Grows
<1>2. hook' \in [Hook -> Local] /\ hook'[h] = x /\ \A o \in Hook : o # h => hook'[o] = hook[o]
  BY DEF Typed, Moves
<1>3. \A o \in Hook : /\ hook'[o].pc = "record" => hook'[o].cmd.kind # "none"
                      /\ hook'[o].pc = "publish" => hook'[o].seq \in 1..Len(stream')
  <2> SUFFICES ASSUME NEW o \in Hook
               PROVE  /\ hook'[o].pc = "record" => hook'[o].cmd.kind # "none"
                      /\ hook'[o].pc = "publish" => hook'[o].seq \in 1..Len(stream')
    OBVIOUS
  <2>1. CASE o = h
    BY <1>2, <2>1
  <2>2. CASE o # h
    <3>1. hook'[o] = hook[o] /\ (hook[o].pc = "record" => hook[o].cmd.kind # "none")
      BY <1>2, <2>2 DEF Typed
    <3>2. hook[o].pc = "publish" => hook[o].seq \in 1..Len(stream)
      BY DEF Typed
    <3>3. 1..Len(stream) \subseteq 1..Len(stream')
      BY <1>1
    <3> QED BY <3>1, <3>2, <3>3
  <2> QED BY <2>1, <2>2
<1> QED BY <1>1, <1>2, <1>3 DEF Typed

\* A step that neither edits nor takes over a turn keeps the count.
LEMMA CountedQuiet ==
    ASSUME Typed, Counted, \A f \in File : TurnsWith(f)' = TurnsWith(f) /\ Pending(f)' \subseteq Pending(f),
           edits' = edits, turn'.files \subseteq turn.files
    PROVE  Counted'
<1> SUFFICES ASSUME NEW f \in File
             PROVE  /\ IsFiniteSet(TurnsWith(f)') /\ IsFiniteSet(Pending(f)')
                    /\ Cardinality(TurnsWith(f)') + Cardinality(Pending(f)') + Open(f)' <= edits'[f]
  BY DEF Counted
<1>1. /\ IsFiniteSet(TurnsWith(f)) /\ IsFiniteSet(Pending(f))
      /\ Cardinality(TurnsWith(f)) + Cardinality(Pending(f)) + Open(f) <= edits[f]
  BY DEF Counted
<1>2. IsFiniteSet(Pending(f)') /\ Cardinality(Pending(f)') <= Cardinality(Pending(f))
  BY <1>1, FS_Subset
<1>3. Cardinality(TurnsWith(f)) \in Nat /\ Cardinality(Pending(f)) \in Nat /\ Cardinality(Pending(f)') \in Nat
  BY <1>1, <1>2, FS_CardinalityType
<1>4. Open(f) \in Nat /\ Open(f)' \in Nat /\ Open(f)' <= Open(f)
  BY DEF Open
<1>5. edits[f] \in Nat
  BY DEF Typed
<1> QED BY <1>1, <1>2, <1>3, <1>4, <1>5

\* A hook that does not come to record a turn adds nothing to what is pending.
LEMMA PendingStep ==
    ASSUME Typed, NEW h \in Hook, NEW x, Moves(h, x), ~At(x, "record", "Turn"), NEW f
    PROVE  Pending(f)' \subseteq Pending(f)
<1>1. hook'[h] = x /\ \A o \in Hook : o # h => hook'[o] = hook[o]
  BY DEF Typed, Moves
<1> QED BY <1>1 DEF Pending

\* A record that is no turn adds no turn.
LEMMA TurnsStep ==
    ASSUME Typed, NEW r, Grows(r), r \in Rec => r.kind # "Turn", NEW f
    PROVE  TurnsWith(f)' = TurnsWith(f)
<1>1. CASE stream' = stream
  BY <1>1 DEF TurnsWith
<1>2. CASE r \in Rec /\ stream' = Append(stream, r)
  <2>1. stream \in Seq(Rec) /\ Len(stream) \in Nat
    BY DEF Typed
  <2>2. /\ Len(stream') = Len(stream) + 1 /\ stream'[Len(stream) + 1] = r
        /\ \A i \in 1..Len(stream) : stream'[i] = stream[i]
    BY <1>2, <2>1
  <2>3. \A i \in 1..Len(stream') : i \in 1..Len(stream) \/ stream'[i].kind # "Turn"
    BY <1>2, <2>1, <2>2
  <2>4. TurnsWith(f)' = {i \in 1..Len(stream') : stream'[i].kind = "Turn" /\ f \in stream'[i].files}
    BY DEF TurnsWith
  <2>5. 1..Len(stream) \subseteq 1..Len(stream')
    BY <2>1, <2>2
  <2> QED BY <2>2, <2>3, <2>4, <2>5 DEF TurnsWith
<1> QED BY <1>1, <1>2 DEF Grows

\* A step of the hook that is alone keeps the session orderly.
LEMMA OrderlyStep ==
    ASSUME Typed, Orderly, NEW h \in Hook, Busy(h), NEW x, Moves(h, x), lost' \in BOOLEAN, lost => lost',
           ~lost' /\ Fine(hook[h], State, turn.files, recorded, owed)
              => Fine(x, State', turn'.files, recorded', owed')
    PROVE  Orderly'
<1> SUFFICES ASSUME ~lost'
             PROVE  \/ (\A o \in Hook : ~Busy(o)') /\ Fine(Idle, State', turn'.files, recorded', owed')
                    \/ \E o \in Hook : /\ Busy(o)' /\ (\A k \in Hook : k # o => ~Busy(k)')
                                       /\ Fine(hook'[o], State', turn'.files, recorded', owed')
  BY DEF Orderly
<1>1. (\A o \in Hook : o # h => ~Busy(o)) /\ Fine(hook[h], State, turn.files, recorded, owed)
  BY DEF Orderly
<1>2. hook'[h] = x /\ \A o \in Hook : o # h => hook'[o] = hook[o]
  BY DEF Typed, Moves
<1>3. \A o \in Hook : o # h => ~Busy(o)'
  BY <1>1, <1>2 DEF Busy
<1>4. Fine(x, State', turn'.files, recorded', owed')
  BY <1>1
<1>5. CASE x.pc = "idle"
  <2>1. ~Busy(h)'
    BY <1>2, <1>5 DEF Busy
  <2>2. Fine(Idle, State', turn'.files, recorded', owed')
    BY <1>4, <1>5 DEF Fine, At, Idle
  <2> QED BY <1>3, <2>1, <2>2
<1>6. CASE x.pc # "idle"
  BY <1>2, <1>3, <1>4, <1>6 DEF Busy
<1> QED BY <1>5, <1>6

\* A step that leaves the projection alone keeps it exact.
LEMMA ExactQuiet ==
    ASSUME Typed, Folding, IndexIsExact, NEW r, Grows(r), UNCHANGED <<index, cursor>>, raced => raced'
    PROVE  IndexIsExact'
<1>1. cursor \in 0..Len(stream)
  BY DEF Typed
<1>2. Folded(cursor)' = Folded(cursor)
  <2>1. CASE stream' = stream
    <3>1. Folded(cursor) = Prefix(stream, cursor)
      BY FoldedIsPrefix
    <3>2. Folded(cursor)' = Prefix(stream', cursor')
      BY DEF Folded, Prefix, FoldOf
    <3> QED BY <2>1, <3>1, <3>2
  <2>2. CASE r \in Rec /\ stream' = Append(stream, r)
    <3>1. Folded(cursor) = Prefix(stream, cursor)
      BY FoldedIsPrefix
    <3>2. Folded(cursor)' = Prefix(stream', cursor')
      BY DEF Folded, Prefix, FoldOf
    <3>3. Prefix(Append(stream, r), cursor) = Prefix(stream, cursor)
      BY <1>1, <2>2, PrefixStable DEF Typed
    <3> QED BY <2>2, <3>1, <3>2, <3>3
  <2> QED BY <2>1, <2>2 DEF Grows
<1> QED BY <1>2 DEF IndexIsExact

\* The locals of a hook.
LEMMA Locals ==
    ASSUME Typed, NEW h \in Hook
    PROVE  /\ hook[h] \in Local /\ hook[h].cmd \in Cmd /\ hook[h].seq \in Nat
           /\ hook[h].cmd.files \subseteq File /\ hook[h].cmd.class \in Class
<1>1. hook[h] \in Local
  BY DEF Typed
<1> QED BY <1>1 DEF Local, Cmd

\* The empty locals and turns have their types.
LEMMA Empties ==
    /\ Idle \in Local /\ Idle.pc = "idle" /\ NoTurn \in Turn /\ NoTurn.files = {}
    /\ \A b \in BOOLEAN : NewTurn(b) \in Turn /\ NewTurn(b).known /\ NewTurn(b).files = {}
BY DEF Idle, Local, Cmd, NoCmd, Class, NoTurn, NewTurn, Turn

\* A step that only moves one hook on.
LEMMA OnlyMoves ==
    ASSUME IInv, NEW h \in Hook, Busy(h), NEW x, Moves(h, x), ~At(x, "record", "Turn"),
           x.pc = "record" => x.cmd.kind # "none", x.pc # "publish",
           recorded' \in BOOLEAN, turn' \in Turn, ~turn'.known => turn'.files = {}, turn'.files \subseteq turn.files,
           lost' \in BOOLEAN, lost => lost',
           UNCHANGED <<stream, index, cursor, edits, owed, raced>>,
           ~lost' /\ Fine(hook[h], State, turn.files, recorded, owed)
              => Fine(x, State, turn'.files, recorded', owed)
    PROVE  IInv'
<1>1. \A r : Grows(r)
  BY DEF Grows
<1>2. Typed'
  BY <1>1, TypedStep DEF IInv, Typed
<1>3. Folding'
  BY <1>1, FoldingStep DEF IInv
<1>4. Counted'
  <2>1. \A f \in File : TurnsWith(f)' = TurnsWith(f)
    BY DEF TurnsWith
  <2>2. \A f \in File : Pending(f)' \subseteq Pending(f)
    BY PendingStep DEF IInv
  <2> QED BY <2>1, <2>2, CountedQuiet DEF IInv
<1>5. Orderly'
  <2>1. State' = State
    BY DEF State, Folded
  <2> QED BY <2>1, OrderlyStep DEF IInv
<1>6. IndexIsExact'
  BY <1>1, ExactQuiet DEF IInv
<1> QED BY <1>2, <1>3, <1>4, <1>5, <1>6 DEF IInv

\* start: the mark is set, and the start is recorded unless it was.
LEMMA StartInv ==
    ASSUME IInv, NEW h \in Hook, Start(h)
    PROVE  IInv'
<1>1. /\ hook[h].pc = "start" /\ recorded' = TRUE /\ AfterStart(h) \in {"done", "close"}
      /\ UNCHANGED <<stream, turn, index, cursor, edits, owed, lost, raced>>
  BY DEF Start, AfterStart
<1>t. hook[h] \in Local /\ hook[h].cmd \in Cmd /\ lost \in BOOLEAN /\ recorded \in BOOLEAN /\ turn \in Turn
  BY Locals DEF IInv, Typed
<1>2. CASE recorded
  <2>1. PICK x : x = [hook[h] EXCEPT !.pc = AfterStart(h)]
    OBVIOUS
  <2>2. x \in Local /\ x.pc = AfterStart(h)
    BY <1>1, <1>t, <2>1 DEF Local
  <2>3. Moves(h, x)
    BY <1>2, <2>1, <2>2 DEF Start, Moves
  <2>4. Fine(hook[h], State, turn.files, recorded, owed) => Fine(x, State, turn.files, TRUE, owed)
    BY <1>1, <1>2, <2>2 DEF Fine, At
  <2> QED BY <1>1, <1>t, <2>2, <2>3, <2>4, OnlyMoves DEF Busy, At, IInv, Typed
<1>3. CASE ~recorded
  <2>1. PICK c : c = [hook[h].cmd EXCEPT !.kind = "Start"]
    OBVIOUS
  <2>2. c \in Cmd /\ c.kind = "Start"
    BY <1>t, <2>1 DEF Cmd
  <2>3. PICK x : x = [hook[h] EXCEPT !.pc = "record", !.cmd = c, !.next = AfterStart(h)]
    OBVIOUS
  <2>4. x \in Local /\ x.pc = "record" /\ x.cmd = c /\ x.next = AfterStart(h)
    BY <1>1, <1>t, <2>2, <2>3 DEF Local
  <2>5. Moves(h, x)
    BY <1>3, <2>1, <2>3, <2>4 DEF Start, Moves
  <2>6. Fine(hook[h], State, turn.files, recorded, owed) => Fine(x, State, turn.files, TRUE, owed)
    BY <1>1, <2>2, <2>4 DEF Fine, At
  <2> QED BY <1>1, <1>t, <2>2, <2>4, <2>5, <2>6, OnlyMoves DEF Busy, At, IInv, Typed
<1> QED BY <1>2, <1>3

\* A command that fails ends its hook; the session is no longer orderly.
LEMMA RecordFailsInv ==
    ASSUME IInv, NEW h \in Hook, RecordFails(h)
    PROVE  IInv'
<1>1. /\ hook[h].pc = "record" /\ lost' = TRUE
      /\ UNCHANGED <<stream, recorded, turn, index, cursor, edits, owed, raced>>
  BY DEF RecordFails
<1>2. Moves(h, Idle)
  BY Empties DEF RecordFails, Moves
<1> QED BY <1>1, <1>2, Empties, OnlyMoves DEF Busy, At, IInv, Typed

\* The new turn of a prompt: in an orderly session the old one is empty.
LEMMA ResetTurnInv ==
    ASSUME IInv, NEW h \in Hook, ResetTurn(h)
    PROVE  IInv'
<1>1. /\ hook[h].pc = "reset" /\ turn' = NewTurn(TRUE)
      /\ UNCHANGED <<stream, recorded, index, cursor, edits, owed, lost, raced>>
  BY DEF ResetTurn
<1>2. Moves(h, Idle)
  BY Empties DEF ResetTurn, Moves
<1>3. turn' \in Turn /\ turn'.known /\ turn'.files = {}
  BY <1>1, Empties
<1>4. Fine(hook[h], State, turn.files, recorded, owed) => Fine(Idle, State, {}, recorded, owed)
  BY <1>1, Empties DEF Fine, At
<1> QED BY <1>1, <1>2, <1>3, <1>4, Empties, OnlyMoves DEF Busy, At, IInv, Typed

\* The end of the session is to be recorded.
LEMMA EndInv ==
    ASSUME IInv, NEW h \in Hook, End(h)
    PROVE  IInv'
<1>1. /\ hook[h].pc = "end"
      /\ UNCHANGED <<stream, recorded, turn, index, cursor, edits, owed, lost, raced>>
  BY DEF End
<1>2. PICK c : c = [hook[h].cmd EXCEPT !.kind = "End"]
  OBVIOUS
<1>3. c \in Cmd /\ c.kind = "End"
  BY <1>2, Locals DEF Cmd, IInv
<1>4. PICK x : x = [hook[h] EXCEPT !.pc = "record", !.cmd = c, !.next = "done"]
  OBVIOUS
<1>5. x \in Local /\ x.pc = "record" /\ x.cmd = c /\ x.next = "done"
  BY <1>3, <1>4, Locals DEF Local, IInv
<1>6. Moves(h, x)
  BY <1>2, <1>4, <1>5 DEF End, Moves
<1>7. Fine(hook[h], State, turn.files, recorded, owed) => Fine(x, State, turn.files, recorded, owed)
  BY <1>1, <1>3, <1>5 DEF Fine, At
<1> QED BY <1>1, <1>3, <1>5, <1>6, <1>7, OnlyMoves DEF Busy, At, IInv, Typed

\* The hook is answered.
LEMMA DoneInv ==
    ASSUME IInv, NEW h \in Hook, Done(h)
    PROVE  IInv'
<1>1. /\ hook[h].pc = "done"
      /\ UNCHANGED <<stream, recorded, turn, index, cursor, edits, owed, lost, raced>>
  BY DEF Done
<1>2. Moves(h, Idle)
  BY Empties DEF Done, Moves
<1>3. Fine(hook[h], State, turn.files, recorded, owed) => Fine(Idle, State, turn.files, recorded, owed)
  BY <1>1, Empties DEF Fine, At
<1> QED BY <1>1, <1>2, <1>3, Empties, OnlyMoves DEF Busy, At, IInv, Typed

\* Where a hook goes after it closed the turn.
LEMMA AfterCloseIs ==
    ASSUME NEW h
    PROVE  AfterClose(h) \in {"reset", "end", "done"}
BY DEF AfterClose

\* closeTurn: the turn is empty afterwards, and its files are with the hook unless
\* there was nothing to record.
LEMMA CloseTurnInv ==
    ASSUME IInv, NEW h \in Hook, CloseTurn(h)
    PROVE  IInv'
<1>1. /\ hook[h].pc = "close"
      /\ UNCHANGED <<stream, recorded, index, cursor, edits, owed, lost, raced>>
  BY DEF CloseTurn
<1>t. hook[h] \in Local /\ hook[h].cmd \in Cmd /\ lost \in BOOLEAN /\ recorded \in BOOLEAN /\ turn \in Turn
  BY Locals DEF IInv, Typed
<1>k. ~turn.known => turn.files = {}
  BY DEF IInv, Typed
<1> DEFINE nothing == ~turn.known \/ (~turn.open /\ turn.files = {})
<1>2. CASE nothing \/ (turn.files = {} /\ hook[h].cmd.class = "accept")
  <2>1. turn.files = {}
    BY <1>2, <1>k
  <2>2. turn' \in {turn, NewTurn(FALSE)}
    BY DEF CloseTurn
  <2>3. turn' \in Turn /\ (~turn'.known => turn'.files = {}) /\ turn'.files = {}
    BY <1>t, <2>1, <2>2, Empties
  <2>4. PICK x : x = [hook[h] EXCEPT !.pc = AfterClose(h)]
    OBVIOUS
  <2>5. x \in Local /\ x.pc = AfterClose(h)
    BY <1>t, <2>4, AfterCloseIs DEF Local
  <2>6. Moves(h, x)
    <3>1. hook' = [hook EXCEPT ![h] = x]
      BY <1>2, <2>4 DEF CloseTurn
    <3> QED BY <2>5, <3>1 DEF Moves
  <2>7. Fine(hook[h], State, turn.files, recorded, owed) => Fine(x, State, turn'.files, recorded, owed)
    BY <1>1, <2>1, <2>3, <2>5, AfterCloseIs DEF Fine, At
  <2>8. x.pc \notin {"record", "publish"}
    BY <2>5, AfterCloseIs
  <2> QED BY <1>1, <1>t, <2>1, <2>3, <2>6, <2>7, <2>8, OnlyMoves DEF Busy, At
<1>3. CASE ~(nothing \/ (turn.files = {} /\ hook[h].cmd.class = "accept"))
  <2>1. turn' = NewTurn(FALSE)
    BY <1>3 DEF CloseTurn
  <2>2. turn' \in Turn /\ turn'.known /\ turn'.files = {}
    BY <2>1, Empties
  <2>3. PICK c : c = [hook[h].cmd EXCEPT !.kind = "Turn", !.files = turn.files]
    OBVIOUS
  <2>4. c \in Cmd /\ c.kind = "Turn" /\ c.files = turn.files
    BY <1>t, <2>3 DEF Cmd, Turn
  <2>5. PICK x : x = [hook[h] EXCEPT !.pc = "record", !.cmd = c, !.next = AfterClose(h)]
    OBVIOUS
  <2>6. x \in Local /\ x.pc = "record" /\ x.cmd = c /\ x.next = AfterClose(h)
    BY <1>t, <2>4, <2>5, AfterCloseIs DEF Local
  <2>7. Moves(h, x)
    <3>1. PICK y : y = [hook[h] EXCEPT !.pc = "record", !.cmd.kind = "Turn", !.cmd.files = turn.files,
                                      !.next = AfterClose(h)]
      OBVIOUS
    <3>2. hook' = [hook EXCEPT ![h] = y]
      BY <1>3, <3>1 DEF CloseTurn
    <3>3. y = x
      BY <1>t, <2>3, <2>5, <3>1 DEF Local, Cmd
    <3> QED BY <2>6, <3>2, <3>3 DEF Moves
  <2>8. \A r : Grows(r)
    BY <1>1 DEF Grows
  <2>9. Typed'
    BY <1>1, <1>t, <2>2, <2>4, <2>6, <2>7, <2>8, TypedStep DEF IInv, Typed
  <2>10. Folding'
    BY <2>8, FoldingStep DEF IInv
  <2>11. Counted'
    <3> SUFFICES ASSUME NEW f \in File
                 PROVE  /\ IsFiniteSet(TurnsWith(f)') /\ IsFiniteSet(Pending(f)')
                        /\ Cardinality(TurnsWith(f)') + Cardinality(Pending(f)') + Open(f)' <= edits'[f]
      BY DEF Counted
    <3>1. /\ IsFiniteSet(TurnsWith(f)) /\ IsFiniteSet(Pending(f))
          /\ Cardinality(TurnsWith(f)) + Cardinality(Pending(f)) + Open(f) <= edits[f]
      BY DEF IInv, Counted
    <3>2. TurnsWith(f)' = TurnsWith(f)
      BY <1>1 DEF TurnsWith
    <3>3. hook'[h] = x /\ \A o \in Hook : o # h => hook'[o] = hook[o]
      BY <2>7 DEF IInv, Typed, Moves
    <3>4. h \notin Pending(f)
      BY <1>1 DEF Pending, At
    <3>5. Pending(f)' = IF f \in turn.files THEN Pending(f) \union {h} ELSE Pending(f)
      <4>1. Pending(f)' = {o \in Hook : At(hook'[o], "record", "Turn") /\ f \in hook'[o].cmd.files}
        BY DEF Pending, At
      <4>2. At(hook'[h], "record", "Turn") /\ hook'[h].cmd.files = turn.files
        BY <2>4, <2>6, <3>3 DEF At
      <4> QED BY <3>3, <3>4, <4>1, <4>2 DEF Pending
    <3>6. Open(f)' = 0 /\ Open(f) = IF f \in turn.files THEN 1 ELSE 0
      BY <2>2 DEF Open
    <3>7. IsFiniteSet(Pending(f) \union {h}) /\ Cardinality(Pending(f) \union {h}) = Cardinality(Pending(f)) + 1
      BY <3>1, <3>4, FS_AddElement
    <3>8. Cardinality(TurnsWith(f)) \in Nat /\ Cardinality(Pending(f)) \in Nat /\ edits[f] \in Nat
      BY <3>1, FS_CardinalityType DEF IInv, Typed
    <3> QED BY <1>1, <3>1, <3>2, <3>5, <3>6, <3>7, <3>8
  <2>12. Orderly'
    <3>1. State' = State
      BY <1>1 DEF State, Folded
    <3>2. Fine(hook[h], State, turn.files, recorded, owed) => Fine(x, State, turn'.files, recorded, owed)
      BY <1>1, <2>2, <2>4, <2>6, AfterCloseIs DEF Fine, At
    <3> QED BY <1>1, <1>t, <2>7, <3>1, <3>2, OrderlyStep DEF IInv, Busy
  <2>13. IndexIsExact'
    BY <1>1, <2>8, ExactQuiet DEF IInv
  <2> QED BY <2>9, <2>10, <2>11, <2>12, <2>13 DEF IInv
<1> QED BY <1>2, <1>3

\* post_edit: one more edit of a file, which is in the open turn now.
LEMMA PostEditInv ==
    ASSUME IInv, NEW h \in Hook, PostEdit(h)
    PROVE  IInv'
<1> DEFINE fs == hook[h].cmd.files
<1>1. /\ hook[h].pc = "edit" /\ owed' = owed \union fs
      /\ edits' = [f \in File |-> IF f \in fs THEN edits[f] + 1 ELSE edits[f]]
      /\ UNCHANGED <<stream, recorded, index, cursor, lost, raced>>
  BY DEF PostEdit
<1>t. fs \subseteq File /\ lost \in BOOLEAN /\ turn \in Turn /\ edits \in [File -> Nat]
  BY Locals DEF IInv, Typed
<1>2. Moves(h, Idle)
  BY Empties DEF PostEdit, Moves
<1>3. turn' \in Turn /\ turn'.known /\ turn'.files = turn.files \union fs
  <2>1. PICK b : b = IF turn.known THEN turn ELSE NewTurn(TRUE)
    OBVIOUS
  <2>2. b \in Turn /\ b.known /\ b.files = turn.files
    BY <1>t, <2>1, Empties DEF IInv, Typed
  <2>3. turn' = [b EXCEPT !.files = b.files \union fs]
    BY <2>1 DEF PostEdit
  <2> QED BY <1>t, <2>2, <2>3 DEF Turn
<1> HIDE DEF fs
<1>4. \A r : Grows(r)
  BY <1>1 DEF Grows
<1>5. edits' \in [File -> Nat]
  BY <1>1, <1>t
<1>6. Typed'
  BY <1>1, <1>t, <1>2, <1>3, <1>4, <1>5, Empties, TypedStep DEF IInv, Typed
<1>7. Folding'
  BY <1>4, FoldingStep DEF IInv
<1>8. Counted'
  <2> SUFFICES ASSUME NEW f \in File
               PROVE  /\ IsFiniteSet(TurnsWith(f)') /\ IsFiniteSet(Pending(f)')
                      /\ Cardinality(TurnsWith(f)') + Cardinality(Pending(f)') + Open(f)' <= edits'[f]
    BY DEF Counted
  <2>1. /\ IsFiniteSet(TurnsWith(f)) /\ IsFiniteSet(Pending(f))
        /\ Cardinality(TurnsWith(f)) + Cardinality(Pending(f)) + Open(f) <= edits[f]
    BY DEF IInv, Counted
  <2>2. TurnsWith(f)' = TurnsWith(f)
    BY <1>1 DEF TurnsWith
  <2>3. Pending(f)' \subseteq Pending(f)
    BY <1>2, Empties, PendingStep DEF IInv, At
  <2>4. IsFiniteSet(Pending(f)') /\ Cardinality(Pending(f)') <= Cardinality(Pending(f))
    BY <2>1, <2>3, FS_Subset
  <2>5. /\ Cardinality(TurnsWith(f)) \in Nat /\ Cardinality(Pending(f)) \in Nat
        /\ Cardinality(Pending(f)') \in Nat /\ edits[f] \in Nat
    BY <1>t, <2>1, <2>4, FS_CardinalityType
  <2>6. Open(f) \in Nat /\ Open(f)' \in Nat /\ Open(f)' <= Open(f) + (IF f \in fs THEN 1 ELSE 0)
    BY <1>3 DEF Open
  <2>7. edits'[f] = edits[f] + (IF f \in fs THEN 1 ELSE 0)
    BY <1>1, <2>5
  <2> QED BY <2>1, <2>2, <2>4, <2>5, <2>6, <2>7
<1>9. Orderly'
  <2>1. State' = State
    BY <1>1 DEF State, Folded
  <2>2. Fine(hook[h], State, turn.files, recorded, owed) => Fine(Idle, State, turn'.files, recorded, owed')
    BY <1>1, <1>3, Empties DEF Fine, At
  <2> QED BY <1>1, <1>t, <1>2, <2>1, <2>2, OrderlyStep DEF IInv, Busy
<1>10. IndexIsExact'
  BY <1>1, <1>4, ExactQuiet DEF IInv
<1> QED BY <1>6, <1>7, <1>8, <1>9, <1>10 DEF IInv

\* The record of a command: none, or one of its kind, by the state of the session.
LEMMA DecideIs ==
    ASSUME NEW c \in Cmd, c.kind # "none"
    PROVE  \/ Decide(c) = << >> /\ (c.kind = "Start" => State # "none") /\ (c.kind = "Turn" => State # "open")
           \/ \E r \in Rec : /\ Decide(c) = <<r>>
                            /\ \/ c.kind = "Start" /\ r.kind = "Started" /\ State = "none"
                               \/ c.kind = "Turn" /\ r.kind = "Turn" /\ r.files = c.files /\ State = "open"
                               \/ c.kind = "End" /\ r.kind = "Ended"
<1>1. CASE c.kind = "Start"
  <2>1. [kind |-> "Started"] \in Rec
    BY DEF Rec
  <2> QED BY <1>1, <2>1 DEF Decide
<1>2. CASE c.kind = "Turn"
  <2>1. PICK r : r = [kind |-> "Turn", class |-> c.class, files |-> c.files]
    OBVIOUS
  <2>2. r \in Rec /\ r.kind = "Turn" /\ r.files = c.files
    BY <2>1 DEF Rec, Cmd
  <2>3. Decide(c) = IF State = "open" THEN <<r>> ELSE << >>
    BY <1>2, <2>1 DEF Decide
  <2> QED BY <1>2, <2>2, <2>3
<1>3. CASE c.kind = "End"
  <2>1. [kind |-> "Ended"] \in Rec
    BY DEF Rec
  <2> QED BY <1>3, <2>1 DEF Decide
<1> QED BY <1>1, <1>2, <1>3 DEF Cmd

\* record: a turn that was pending is on the stream.
LEMMA RecordInv ==
    ASSUME IInv, NEW h \in Hook, Record(h)
    PROVE  IInv'
<1> DEFINE c == hook[h].cmd
<1>1. hook[h].pc = "record" /\ UNCHANGED <<recorded, turn, index, cursor, edits, lost, raced>>
  BY DEF Record
<1>t. /\ hook[h] \in Local /\ c \in Cmd /\ c.kind # "none" /\ c.files \subseteq File
      /\ stream \in Seq(Rec) /\ Len(stream) \in Nat /\ cursor \in 0..Len(stream)
      /\ turn \in Turn /\ (~turn.known => turn.files = {}) /\ lost \in BOOLEAN /\ raced \in BOOLEAN
      /\ recorded \in BOOLEAN /\ edits \in [File -> Nat] /\ owed \subseteq File
  BY <1>1, Locals DEF IInv, Typed
<1>2. CASE Decide(c) = << >> /\ (c.kind = "Start" => State # "none") /\ (c.kind = "Turn" => State # "open")
  <2>1. PICK x : x = [hook[h] EXCEPT !.pc = hook[h].next]
    OBVIOUS
  <2>2. x \in Local /\ x.pc = hook[h].next /\ x.pc \in {"idle", "close", "reset", "end", "done"}
    BY <1>t, <2>1 DEF Local
  <2>3. Moves(h, x)
    <3>1. hook' = [hook EXCEPT ![h] = x]
      BY <1>2, <2>1 DEF Record
    <3> QED BY <2>2, <3>1 DEF Moves
  <2>4. stream' = stream /\ owed' = owed
    BY <1>2, <1>t DEF Record
  <2>5. Fine(hook[h], State, turn.files, recorded, owed) => Fine(x, State, turn.files, recorded, owed)
    <3> SUFFICES ASSUME Fine(hook[h], State, turn.files, recorded, owed)
                 PROVE  Fine(x, State, turn.files, recorded, owed)
      OBVIOUS
    <3>1. c.kind # "Turn"
      BY <1>1, <1>2 DEF Fine, At
    <3>2. c.kind = "Start" => State = "open"
      BY <1>1, <1>2 DEF Fine, At
    <3>3. x.pc = "close" => c.kind = "Start"
      BY <1>1, <2>2 DEF Fine
    <3>4. x.pc = "reset" => turn.files = {}
      BY <1>1, <2>2 DEF Fine
    <3>5. recorded => State # "none"
      BY <3>2 DEF Fine, At
    <3>6. owed \subseteq turn.files
      BY <3>1 DEF Fine, At
    <3> QED BY <2>2, <3>2, <3>3, <3>4, <3>5, <3>6 DEF Fine, At
  <2> QED BY <1>1, <1>t, <2>2, <2>3, <2>4, <2>5, OnlyMoves DEF Busy, At
<1>3. ASSUME NEW r \in Rec, Decide(c) = <<r>>,
             \/ c.kind = "Start" /\ r.kind = "Started" /\ State = "none"
             \/ c.kind = "Turn" /\ r.kind = "Turn" /\ r.files = c.files /\ State = "open"
             \/ c.kind = "End" /\ r.kind = "Ended"
      PROVE  IInv'
  <2>1. stream' = Append(stream, r) /\ owed' = IF c.kind = "Turn" THEN owed \ c.files ELSE owed
    <3>1. <<r>> # << >>
      OBVIOUS
    <3>2. stream \o <<r>> = Append(stream, r)
      BY <1>t
    <3> QED BY <1>3, <3>1, <3>2 DEF Record
  <2>2. PICK x : x = [hook[h] EXCEPT !.pc = "publish", !.seq = Len(stream) + 1]
    OBVIOUS
  <2>3. x \in Local /\ x.pc = "publish" /\ x.seq = Len(stream) + 1 /\ x.next = hook[h].next
    <3>1. PICK n \in Nat : n = Len(stream) + 1
      BY <1>t
    <3>2. x = [hook[h] EXCEPT !.pc = "publish", !.seq = n]
      BY <2>2, <3>1
    <3>3. x \in Local
      BY <1>t, <3>2 DEF Local
    <3>4. x.pc = "publish" /\ x.seq = n /\ x.next = hook[h].next
      BY <1>t, <3>2 DEF Local
    <3> QED BY <3>1, <3>3, <3>4
  <2>4. Moves(h, x)
    <3>1. <<r>> # << >>
      OBVIOUS
    <3>2. hook' = [hook EXCEPT ![h] = x]
      BY <1>3, <2>2, <3>1 DEF Record
    <3> QED BY <2>3, <3>2 DEF Moves
  <2>5. Grows(r) /\ Len(stream') = Len(stream) + 1 /\ stream'[Len(stream) + 1] = r
        /\ \A i \in 1..Len(stream) : stream'[i] = stream[i]
    BY <1>3, <1>t, <2>1 DEF Grows
  <2>6. Typed'
    <3>1. x.seq \in 1..Len(stream') /\ cursor \in 0..Len(stream') /\ owed' \subseteq File
      BY <1>t, <2>1, <2>3, <2>5
    <3> QED BY <1>1, <1>t, <2>3, <2>4, <2>5, <3>1, TypedStep DEF IInv
  <2>7. Folding'
    BY <2>5, FoldingStep DEF IInv
  <2>8. ~At(x, "record", "Turn")
    BY <2>3 DEF At
  <2>9. Counted'
    <3>1. CASE r.kind # "Turn"
      <4>1. \A f \in File : TurnsWith(f)' = TurnsWith(f)
        BY <2>5, <3>1, TurnsStep DEF IInv
      <4>2. \A f \in File : Pending(f)' \subseteq Pending(f)
        BY <2>4, <2>8, PendingStep DEF IInv
      <4> QED BY <1>1, <4>1, <4>2, CountedQuiet DEF IInv
    <3>2. CASE r.kind = "Turn"
      <4> SUFFICES ASSUME NEW f \in File
                   PROVE  /\ IsFiniteSet(TurnsWith(f)') /\ IsFiniteSet(Pending(f)')
                          /\ Cardinality(TurnsWith(f)') + Cardinality(Pending(f)') + Open(f)' <= edits'[f]
        BY DEF Counted
      <4>1. /\ IsFiniteSet(TurnsWith(f)) /\ IsFiniteSet(Pending(f))
            /\ Cardinality(TurnsWith(f)) + Cardinality(Pending(f)) + Open(f) <= edits[f]
        BY DEF IInv, Counted
      <4>2. c.kind = "Turn" /\ r.files = c.files
        BY <1>3, <3>2
      <4>3. hook'[h] = x /\ \A o \in Hook : o # h => hook'[o] = hook[o]
        BY <2>4 DEF IInv, Typed, Moves
      <4>4. Open(f)' = Open(f) /\ Open(f) \in Nat
        BY <1>1 DEF Open
      <4>5. /\ Cardinality(TurnsWith(f)) \in Nat /\ Cardinality(Pending(f)) \in Nat /\ edits[f] \in Nat
        BY <1>t, <4>1, FS_CardinalityType
      <4>6. TurnsWith(f)' = {i \in 1..Len(stream') : stream'[i].kind = "Turn" /\ f \in stream'[i].files}
        BY DEF TurnsWith
      <4>7. 1..Len(stream') = (1..Len(stream)) \union {Len(stream) + 1} /\ Len(stream) + 1 \notin 1..Len(stream)
        BY <1>t, <2>5
      <4>8. CASE f \in c.files
        <5>1. TurnsWith(f)' = TurnsWith(f) \union {Len(stream) + 1}
          BY <2>5, <3>2, <4>2, <4>6, <4>7, <4>8 DEF TurnsWith
        <5>2. Len(stream) + 1 \notin TurnsWith(f)
          BY <4>7 DEF TurnsWith
        <5>3. IsFiniteSet(TurnsWith(f)') /\ Cardinality(TurnsWith(f)') = Cardinality(TurnsWith(f)) + 1
          BY <4>1, <5>1, <5>2, FS_AddElement
        <5>4. h \in Pending(f)
          BY <1>1, <4>2, <4>8 DEF Pending, At
        <5>5. Pending(f)' = Pending(f) \ {h}
          <6>1. Pending(f)' = {o \in Hook : At(hook'[o], "record", "Turn") /\ f \in hook'[o].cmd.files}
            BY DEF Pending, At
          <6> QED BY <2>8, <4>3, <6>1 DEF Pending
        <5>6. IsFiniteSet(Pending(f)') /\ Cardinality(Pending(f)') = Cardinality(Pending(f)) - 1
          BY <4>1, <5>4, <5>5, FS_RemoveElement
        <5> QED BY <1>1, <4>1, <4>4, <4>5, <5>3, <5>6
      <4>9. CASE f \notin c.files
        <5>1. TurnsWith(f)' = TurnsWith(f)
          BY <2>5, <4>2, <4>6, <4>7, <4>9 DEF TurnsWith
        <5>2. Pending(f)' \subseteq Pending(f)
          BY <2>4, <2>8, PendingStep DEF IInv
        <5>3. IsFiniteSet(Pending(f)') /\ Cardinality(Pending(f)') <= Cardinality(Pending(f))
          BY <4>1, <5>2, FS_Subset
        <5>4. Cardinality(Pending(f)') \in Nat
          BY <5>3, FS_CardinalityType
        <5> QED BY <1>1, <4>1, <4>4, <4>5, <5>1, <5>3, <5>4
      <4> QED BY <4>8, <4>9
    <3> QED BY <3>1, <3>2
  <2>10. Orderly'
    <3>1. Fine(hook[h], State, turn.files, recorded, owed) => Fine(x, State', turn.files, recorded, owed')
      <4> SUFFICES ASSUME Fine(hook[h], State, turn.files, recorded, owed)
                   PROVE  Fine(x, State', turn.files, recorded, owed')
        OBVIOUS
      <4>1. /\ c.kind = "Start" => State' = "open"
            /\ c.kind = "Turn" => State' = "open"
            /\ c.kind = "End" => State' = "ended"
        BY <1>3, <2>1, StateStep DEF IInv
      <4>2. c.kind \in {"Start", "Turn", "End"}
        BY <1>t DEF Cmd
      <4>3. hook[h].next = "close" => c.kind = "Start"
        BY <1>1 DEF Fine
      <4>4. hook[h].next = "reset" => turn.files = {}
        BY <1>1 DEF Fine
      <4>5. owed' \subseteq turn.files
        BY <2>1 DEF Fine, At
      <4> QED BY <2>3, <4>1, <4>2, <4>3, <4>4, <4>5 DEF Fine, At
    <3> QED BY <1>1, <1>t, <2>4, <3>1, OrderlyStep DEF IInv, Busy
  <2>11. IndexIsExact'
    BY <1>1, <2>5, ExactQuiet DEF IInv
  <2> QED BY <2>6, <2>7, <2>9, <2>10, <2>11 DEF IInv
<1> HIDE DEF c
<1> QED BY <1>2, <1>3, <1>t, DecideIs

\* The state of a session is one of four.
LEMMA StateIs ==
    ASSUME Typed, Folding
    PROVE  State \in {"none", "open", "ended", "shared"}
<1>1. stream \in Seq(Rec) /\ Len(stream) \in 0..Len(stream)
  BY DEF Typed
<1>2. Folded(Len(stream)) \in Session
  BY <1>1, PrefixIs, FoldedIsPrefix DEF Folding
<1> QED BY <1>2 DEF State, Session

\* A hook arrives: the projection has caught up, and a second hook at the same time
\* or a tool that goes on where no session is open is no longer orderly.
LEMMA ArriveInv ==
    ASSUME IInv, NEW h \in Hook, NEW e \in Event, Arrive(h, e)
    PROVE  IInv'
<1>1. /\ index' = Replayed(cursor, index) /\ cursor' = Len(stream)
      /\ raced' = (raced \/ \E o \in Hook : Publishing(o))
      /\ lost' = \/ lost \/ State \in {"ended", "shared"} \/ \E o \in Hook : Busy(o)
                 \/ State = "none" /\ e.kind \notin {"SessionStart", "Prompt", "Redirect"}
      /\ UNCHANGED <<stream, recorded, turn, edits, owed>>
  BY DEF Arrive, CatchUp
<1>t. /\ stream \in Seq(Rec) /\ Len(stream) \in Nat /\ cursor \in 0..Len(stream)
      /\ turn \in Turn /\ (~turn.known => turn.files = {}) /\ lost \in BOOLEAN /\ raced \in BOOLEAN
      /\ recorded \in BOOLEAN /\ edits \in [File -> Nat] /\ owed \subseteq File
  BY DEF IInv, Typed
<1>e. e.kind \in Kinds /\ (e.kind = "PostEdit" => e.file \in File)
  BY DEF Event, Kinds
<1>2. PICK fs : fs = IF e.kind = "PostEdit" THEN {e.file} ELSE {}
  OBVIOUS
<1>3. PICK cl : cl = CASE e.kind = "Redirect" -> "redirect"
                       [] e.kind = "RevertCommand" -> "revert"
                       [] OTHER -> "accept"
  OBVIOUS
<1>4. PICK pc : pc = CASE e.kind = "PostEdit" -> "edit"
                       [] e.kind \in {"SessionStart", "Prompt", "Redirect"} -> "start"
                       [] OTHER -> "close"
  OBVIOUS
<1>5. fs \in SUBSET File /\ cl \in Class
  BY <1>2, <1>3, <1>e DEF Class
<1>6. pc \in {"edit", "start", "close"} /\ (pc = "close" => e.kind \notin {"SessionStart", "Prompt", "Redirect"})
      /\ (pc # "start" => e.kind \notin {"SessionStart", "Prompt", "Redirect"})
  BY <1>4
<1>7. PICK c : c = [NoCmd EXCEPT !.files = fs, !.class = cl]
  OBVIOUS
<1>8. c \in Cmd /\ c.kind = "none"
  <2>1. NoCmd \in Cmd /\ NoCmd.kind = "none"
    BY DEF NoCmd, Cmd, Class
  <2> QED BY <1>5, <1>7, <2>1 DEF Cmd
<1>9. PICK x : x = [Idle EXCEPT !.ev = e.kind, !.cmd = c, !.pc = pc]
  OBVIOUS
<1>i. Idle \in Local /\ Idle.next = "idle" /\ Idle.cmd = NoCmd
  BY Empties DEF Idle
<1>10. x \in Local /\ x.pc = pc /\ x.cmd = c /\ x.next = "idle"
  BY <1>6, <1>8, <1>9, <1>e, <1>i DEF Local
<1>11. Moves(h, x)
  <2>1. x = [Idle EXCEPT !.ev = e.kind, !.cmd.files = fs, !.cmd.class = cl, !.pc = pc]
    BY <1>7, <1>9, <1>i DEF Local
  <2>2. hook' = [hook EXCEPT ![h] = x]
    BY <1>2, <1>3, <1>4, <2>1 DEF Arrive
  <2> QED BY <1>10, <2>2 DEF Moves
<1>12. \A r : Grows(r)
  BY <1>1 DEF Grows
<1>13. lost' \in BOOLEAN /\ raced' \in BOOLEAN
  BY <1>1
<1>14. Typed'
  <2>1. cursor' \in 0..Len(stream')
    BY <1>1, <1>t
  <2> QED BY <1>1, <1>t, <1>6, <1>10, <1>11, <1>12, <1>13, <2>1, TypedStep DEF IInv
<1>15. Folding'
  BY <1>12, FoldingStep DEF IInv
<1>16. Counted'
  <2>1. \A f \in File : TurnsWith(f)' = TurnsWith(f)
    BY <1>1 DEF TurnsWith
  <2>2. ~At(x, "record", "Turn")
    BY <1>6, <1>10 DEF At
  <2>3. \A f \in File : Pending(f)' \subseteq Pending(f)
    BY <1>11, <2>2, PendingStep DEF IInv
  <2> QED BY <1>1, <2>1, <2>3, CountedQuiet DEF IInv
<1>17. Orderly'
  <2> SUFFICES ASSUME ~lost'
               PROVE  \E o \in Hook : /\ Busy(o)' /\ (\A k \in Hook : k # o => ~Busy(k)')
                                      /\ Fine(hook'[o], State', turn'.files, recorded', owed')
    BY DEF Orderly
  <2>1. /\ ~lost /\ State \notin {"ended", "shared"} /\ \A o \in Hook : ~Busy(o)
        /\ (State = "none" => e.kind \in {"SessionStart", "Prompt", "Redirect"})
    BY <1>1
  <2>2. Fine(Idle, State, turn.files, recorded, owed)
    BY <2>1 DEF IInv, Orderly
  <2>3. State' = State /\ State \in {"none", "open"}
    BY <1>1, <2>1, StateIs DEF State, Folded, IInv
  <2>4. hook'[h] = x /\ \A o \in Hook : o # h => hook'[o] = hook[o]
    BY <1>11 DEF IInv, Typed, Moves
  <2>5. Busy(h)' /\ \A k \in Hook : k # h => ~Busy(k)'
    BY <1>6, <1>10, <2>1, <2>4 DEF Busy
  <2>6. (recorded => State # "none") /\ owed \subseteq turn.files
    BY <2>2, Empties DEF Fine, At
  <2>7. Fine(x, State, turn.files, recorded, owed)
    BY <1>6, <1>8, <1>10, <2>1, <2>3, <2>6 DEF Fine, At
  <2> QED BY <1>1, <2>3, <2>4, <2>5, <2>7
<1>18. IndexIsExact'
  <2> SUFFICES ASSUME ~raced'
               PROVE  index' = Folded(cursor)'
    BY DEF IndexIsExact
  <2>1. index = Folded(cursor)
    BY <1>1 DEF IInv, IndexIsExact
  <2>2. index' = Folded(Len(stream))
    BY <1>1, <1>t, <2>1, ReplayedIs DEF IInv
  <2>3. Folded(cursor)' = Prefix(stream', cursor')
    BY DEF Folded, Prefix, FoldOf
  <2> QED BY <1>1, <2>2, <2>3, FoldedIsPrefix
<1> QED BY <1>14, <1>15, <1>16, <1>17, <1>18 DEF IInv

\* A record is published: the projection takes it up where it is.
LEMMA PublishInv ==
    ASSUME IInv, NEW h \in Hook, Publish(h)
    PROVE  IInv'
<1>1. /\ hook[h].pc = "publish" /\ raced' = (raced \/ hook[h].seq # cursor + 1)
      /\ index' = Handle(index, stream[hook[h].seq])
      /\ cursor' = IF hook[h].seq > cursor THEN hook[h].seq ELSE cursor
      /\ UNCHANGED <<stream, recorded, turn, edits, owed, lost>>
  BY DEF Publish, Publishing
<1>t. /\ stream \in Seq(Rec) /\ Len(stream) \in Nat /\ cursor \in 0..Len(stream)
      /\ turn \in Turn /\ (~turn.known => turn.files = {}) /\ lost \in BOOLEAN /\ raced \in BOOLEAN
      /\ recorded \in BOOLEAN /\ edits \in [File -> Nat] /\ owed \subseteq File
      /\ hook[h] \in Local /\ hook[h].seq \in 1..Len(stream)
  BY <1>1 DEF IInv, Typed
<1>2. PICK x : x = [hook[h] EXCEPT !.pc = hook[h].next]
  OBVIOUS
<1>3. x \in Local /\ x.pc = hook[h].next /\ x.pc \in {"idle", "close", "reset", "end", "done"}
  BY <1>t, <1>2 DEF Local
<1>4. Moves(h, x)
  <2>1. hook' = [hook EXCEPT ![h] = x]
    BY <1>2 DEF Publish
  <2> QED BY <1>3, <2>1 DEF Moves
<1>5. \A r : Grows(r)
  BY <1>1 DEF Grows
<1>6. Typed'
  <2>1. cursor' \in 0..Len(stream') /\ raced' \in BOOLEAN
    BY <1>1, <1>t
  <2> QED BY <1>1, <1>t, <1>3, <1>4, <1>5, <2>1, TypedStep DEF IInv
<1>7. Folding'
  BY <1>5, FoldingStep DEF IInv
<1>8. Counted'
  <2>1. \A f \in File : TurnsWith(f)' = TurnsWith(f)
    BY <1>1 DEF TurnsWith
  <2>2. ~At(x, "record", "Turn")
    BY <1>3 DEF At
  <2>3. \A f \in File : Pending(f)' \subseteq Pending(f)
    BY <1>4, <2>2, PendingStep DEF IInv
  <2> QED BY <1>1, <2>1, <2>3, CountedQuiet DEF IInv
<1>9. Orderly'
  <2>1. State' = State
    BY <1>1 DEF State, Folded
  <2>2. Fine(hook[h], State, turn.files, recorded, owed) => Fine(x, State, turn.files, recorded, owed)
    BY <1>1, <1>3 DEF Fine, At
  <2> QED BY <1>1, <1>t, <1>4, <2>1, <2>2, OrderlyStep DEF IInv, Busy
<1>10. IndexIsExact'
  <2> SUFFICES ASSUME ~raced'
               PROVE  index' = Folded(cursor)'
    BY DEF IndexIsExact
  <2>1. index = Folded(cursor) /\ hook[h].seq = cursor + 1
    BY <1>1 DEF IInv, IndexIsExact
  <2>2. PICK n \in 1..Len(stream) : n = cursor + 1 /\ n - 1 = cursor /\ n = hook[h].seq
    BY <1>t, <2>1
  <2>3. cursor' = n /\ stream[n] \in Rec
    BY <1>1, <1>t, <2>2
  <2>4. Folded(n) = Apply(Folded(n - 1), stream[n])
    BY <1>t, PrefixIs, FoldedIsPrefix DEF IInv, Folding
  <2>5. index' = Folded(n)
    BY <1>1, <2>1, <2>2, <2>3, <2>4, HandleIsApply
  <2>6. Folded(cursor)' = Prefix(stream', cursor')
    BY DEF Folded, Prefix, FoldOf
  <2> QED BY <1>1, <2>3, <2>5, <2>6, FoldedIsPrefix
<1> QED BY <1>6, <1>7, <1>8, <1>9, <1>10 DEF IInv

\* The session is shared: it is over, and only hooks that finish are at work.
LEMMA ShareInv ==
    ASSUME IInv, Share
    PROVE  IInv'
<1>1. /\ State \in {"ended", "shared"} /\ stream' = Append(stream, [kind |-> "Shared"])
      /\ raced' = (raced \/ \E h \in Hook : Busy(h))
      /\ UNCHANGED <<recorded, turn, hook, index, cursor, edits, owed, lost>>
  BY DEF Share
<1>t. stream \in Seq(Rec) /\ Len(stream) \in Nat /\ cursor \in 0..Len(stream) /\ raced \in BOOLEAN
  BY DEF IInv, Typed
<1>2. PICK r \in Rec : r = [kind |-> "Shared"] /\ r.kind = "Shared"
  <2>1. [kind |-> "Shared"] \in Rec
    BY DEF Rec
  <2> QED BY <2>1
<1>3. Grows(r) /\ stream' \in Seq(Rec) /\ Len(stream') = Len(stream) + 1
  BY <1>1, <1>2, <1>t DEF Grows
<1>4. Typed'
  <2>1. 1..Len(stream) \subseteq 1..Len(stream') /\ 0..Len(stream) \subseteq 0..Len(stream')
    BY <1>3, <1>t
  <2>2. raced' \in BOOLEAN
    BY <1>1, <1>t
  <2>3. \A h \in Hook : /\ hook'[h].pc = "record" => hook'[h].cmd.kind # "none"
                        /\ hook'[h].pc = "publish" => hook'[h].seq \in 1..Len(stream')
    BY <1>1, <2>1 DEF IInv, Typed
  <2>4. cursor' \in 0..Len(stream')
    BY <1>1, <1>t, <2>1
  <2> QED BY <1>1, <1>3, <2>2, <2>3, <2>4 DEF IInv, Typed
<1>5. Folding'
  BY <1>3, FoldingStep DEF IInv
<1>6. Counted'
  <2>1. \A f \in File : TurnsWith(f)' = TurnsWith(f)
    BY <1>2, <1>3, TurnsStep DEF IInv
  <2>2. \A f \in File : Pending(f)' = Pending(f)
    BY <1>1 DEF Pending
  <2> QED BY <1>1, <2>1, <2>2, CountedQuiet DEF IInv
<1>7. Orderly'
  <2> SUFFICES ASSUME ~lost'
               PROVE  \/ (\A o \in Hook : ~Busy(o)') /\ Fine(Idle, State', turn'.files, recorded', owed')
                      \/ \E o \in Hook : /\ Busy(o)' /\ (\A k \in Hook : k # o => ~Busy(k)')
                                         /\ Fine(hook'[o], State', turn'.files, recorded', owed')
    BY DEF Orderly
  <2>1. State' = "shared"
    BY <1>1, <1>2, StateStep DEF IInv
  <2>2. ASSUME NEW x, Fine(x, State, turn.files, recorded, owed)
        PROVE  Fine(x, State', turn'.files, recorded', owed')
    BY <1>1, <2>1, <2>2 DEF Fine
  <2>3. CASE (\A o \in Hook : ~Busy(o)) /\ Fine(Idle, State, turn.files, recorded, owed)
    BY <1>1, <2>2, <2>3 DEF Busy
  <2>4. CASE \E h \in Hook : /\ Busy(h) /\ (\A o \in Hook : o # h => ~Busy(o))
                             /\ Fine(hook[h], State, turn.files, recorded, owed)
    <3>1. PICK h \in Hook : /\ Busy(h) /\ (\A o \in Hook : o # h => ~Busy(o))
                            /\ Fine(hook[h], State, turn.files, recorded, owed)
      BY <2>4
    <3>2. Fine(hook'[h], State', turn'.files, recorded', owed')
      BY <1>1, <2>2, <3>1
    <3>3. Busy(h)' /\ \A o \in Hook : o # h => ~Busy(o)'
      BY <1>1, <3>1 DEF Busy
    <3> QED BY <3>2, <3>3
  <2> QED BY <1>1, <2>3, <2>4 DEF IInv, Orderly
<1>8. IndexIsExact'
  BY <1>1, <1>3, ExactQuiet DEF IInv
<1> QED BY <1>4, <1>5, <1>6, <1>7, <1>8 DEF IInv

\* A hook is dropped: at most the projection moves, and a dropped edit is lost.
LEMMA DropInv ==
    ASSUME IInv, NEW e \in Event, Drop(e)
    PROVE  IInv'
<1>1. /\ \/ /\ index' = Replayed(cursor, index) /\ cursor' = Len(stream)
            /\ raced' = (raced \/ \E o \in Hook : Publishing(o))
         \/ UNCHANGED <<index, cursor, raced>>
      /\ lost' = TRUE \/ (lost' = lost /\ owed' = owed)
      /\ UNCHANGED <<stream, recorded, turn, hook, edits>>
  BY DEF Drop, CatchUp
<1>t. /\ stream \in Seq(Rec) /\ Len(stream) \in Nat /\ cursor \in 0..Len(stream)
      /\ lost \in BOOLEAN /\ raced \in BOOLEAN /\ owed \subseteq File
  BY DEF IInv, Typed
<1>2. owed' \subseteq File
  <2>1. e.kind = "PostEdit" => e.file \in File
    BY DEF Event
  <2> QED BY <1>t, <2>1 DEF Drop
<1>3. Typed'
  <2>1. cursor' \in 0..Len(stream')
    BY <1>1, <1>t
  <2>2. raced' \in BOOLEAN
    BY <1>1, <1>t
  <2>3. lost' \in BOOLEAN
    BY <1>1, <1>t
  <2> QED BY <1>1, <1>2, <2>1, <2>2, <2>3 DEF IInv, Typed
<1>4. Folding'
  BY <1>1 DEF IInv, Folding
<1>5. Counted'
  BY <1>1 DEF IInv, Counted, TurnsWith, Pending, Open
<1>6. Orderly'
  <2>1. CASE lost' = TRUE
    BY <2>1 DEF Orderly
  <2>2. CASE lost' = lost /\ owed' = owed
    BY <1>1, <2>2 DEF IInv, Orderly, Busy, State, Folded
  <2> QED BY <1>1, <2>1, <2>2
<1>7. IndexIsExact'
  <2>1. CASE UNCHANGED <<index, cursor, raced>>
    BY <1>1, <2>1 DEF IInv, IndexIsExact, Folded
  <2>2. CASE /\ index' = Replayed(cursor, index) /\ cursor' = Len(stream)
             /\ raced' = (raced \/ \E o \in Hook : Publishing(o))
    <3> SUFFICES ASSUME ~raced'
                 PROVE  index' = Folded(cursor)'
      BY DEF IndexIsExact
    <3>1. index = Folded(cursor)
      BY <2>2 DEF IInv, IndexIsExact
    <3>2. index' = Folded(Len(stream))
      BY <2>2, <1>t, <3>1, ReplayedIs DEF IInv
    <3>3. Folded(cursor)' = Prefix(stream', cursor')
      BY DEF Folded, Prefix, FoldOf
    <3> QED BY <1>1, <1>t, <2>2, <3>2, <3>3, FoldedIsPrefix
  <2> QED BY <1>1, <2>1, <2>2
<1> QED BY <1>3, <1>4, <1>5, <1>6, <1>7 DEF IInv

\* The daemon restarts: what was in memory is gone, and the projection is rebuilt.
LEMMA RestartInv ==
    ASSUME IInv, Restart
    PROVE  IInv'
<1>1. /\ recorded' = FALSE /\ turn' = NoTurn /\ hook' = [h \in Hook |-> Idle]
      /\ index' = Replayed(0, NoSession) /\ cursor' = Len(stream) /\ lost' = TRUE /\ raced' = FALSE
      /\ UNCHANGED <<stream, edits, owed>>
  BY DEF Restart
<1>t. stream \in Seq(Rec) /\ Len(stream) \in Nat
  BY DEF IInv, Typed
<1>2. Typed'
  <2>1. cursor' \in 0..Len(stream') /\ hook' \in [Hook -> Local] /\ turn' \in Turn /\ turn'.files = {}
    BY <1>1, <1>t, Empties
  <2>2. \A h \in Hook : hook'[h].pc = "idle"
    BY <1>1, Empties
  <2>3. \A h \in Hook : /\ hook'[h].pc = "record" => hook'[h].cmd.kind # "none"
                        /\ hook'[h].pc = "publish" => hook'[h].seq \in 1..Len(stream')
    BY <2>2
  <2> QED BY <1>1, <2>1, <2>3 DEF IInv, Typed
<1>3. Folding'
  BY <1>1 DEF IInv, Folding
<1>4. Counted'
  <2>1. \A f \in File : TurnsWith(f)' = TurnsWith(f)
    BY <1>1 DEF TurnsWith
  <2>2. \A f \in File : Pending(f)' \subseteq Pending(f)
    <3>1. \A h \in Hook : hook'[h].pc = "idle"
      BY <1>1, Empties
    <3> QED BY <3>1 DEF Pending, At
  <2>3. turn'.files = {}
    BY <1>1, Empties
  <2> QED BY <1>1, <2>1, <2>2, <2>3, CountedQuiet DEF IInv
<1>5. Orderly'
  BY <1>1 DEF Orderly
<1>6. IndexIsExact'
  <2>1. Folded(0) = NoSession
    BY <1>t, PrefixIs, FoldedIsPrefix DEF IInv, Folding
  <2>2. Replayed(0, Folded(0)) = Folded(Len(stream))
    BY <1>t, ReplayedIs DEF IInv
  <2>3. Folded(cursor)' = Prefix(stream', cursor')
    BY DEF Folded, Prefix, FoldOf
  <2> QED BY <1>1, <2>1, <2>2, <2>3, FoldedIsPrefix DEF IndexIsExact
<1> QED BY <1>2, <1>3, <1>4, <1>5, <1>6 DEF IInv

\* Before the first hook there is no record, and the fold of nothing is NoSession.
LEMMA InitIInv ==
    Init => IInv
<1> SUFFICES ASSUME Init PROVE IInv
  OBVIOUS
<1> USE DEF Init
<1>1. Typed
  <2>1. hook \in [Hook -> Local] /\ \A h \in Hook : hook[h].pc = "idle"
    BY Empties
  <2>2. stream \in Seq(Rec) /\ Len(stream) = 0
    OBVIOUS
  <2>3. \A h \in Hook : /\ hook[h].pc = "record" => hook[h].cmd.kind # "none"
                        /\ hook[h].pc = "publish" => hook[h].seq \in 1..Len(stream)
    BY <2>1
  <2>4. cursor \in 0..Len(stream) /\ edits \in [File -> Nat]
    BY <2>2
  <2> QED BY <2>1, <2>2, <2>3, <2>4, Empties DEF Typed
<1>2. Folding
  <2>1. Folds(stream)
    <3>1. PICK F : F = [i \in 0..0 |-> NoSession]
      OBVIOUS
    <3>2. F \in [0..0 -> Session] /\ FoldOf(F, 0, stream)
      BY <3>1 DEF NoSession, Session, FoldOf
    <3>3. \A G : FoldOf(G, 0, stream) => G = F
      BY <3>1 DEF FoldOf
    <3>4. \A n \in 0..Len(stream) : n = 0
      OBVIOUS
    <3>5. \E E \in [0..0 -> Session] : FoldOf(E, 0, stream) /\ \A G : FoldOf(G, 0, stream) => G = E
      BY <3>2, <3>3
    <3> SUFFICES ASSUME NEW n \in 0..Len(stream)
                 PROVE  \E E \in [0..n -> Session] : FoldOf(E, n, stream) /\ \A G : FoldOf(G, n, stream) => G = E
      BY DEF Folds
    <3>6. n = 0
      BY <3>4
    <3> HIDE DEF Init
    <3> QED BY <3>5, <3>6
  <2>2. Replays(stream)
    <3> SUFFICES ASSUME NEW from \in 0..Len(stream), NEW s, NEW F, NEW G,
                        ReplayOf(F, from, s, stream), ReplayOf(G, from, s, stream)
                 PROVE  F = G
      BY DEF Replays
    <3>1. from = 0 /\ Len(stream) = 0
      OBVIOUS
    <3>2. F = [i \in 0..0 |-> s]
      BY <3>1 DEF ReplayOf
    <3>3. G = [i \in 0..0 |-> s]
      BY <3>1 DEF ReplayOf
    <3> QED BY <3>2, <3>3
  <2> QED BY <2>1, <2>2 DEF Folding
<1>3. Counted
  <2> SUFFICES ASSUME NEW f \in File
               PROVE  TurnsWith(f) = {} /\ Pending(f) = {} /\ Open(f) = 0 /\ edits[f] = 0
    <3>1. IsFiniteSet({}) /\ Cardinality({}) = 0
      BY FS_EmptySet
    <3> HIDE DEF Init
    <3> QED BY <3>1 DEF Counted
  <2>1. TurnsWith(f) = {}
    BY DEF TurnsWith
  <2>2. Pending(f) = {}
    BY Empties DEF Pending, At
  <2> QED BY <2>1, <2>2, Empties DEF Open
<1>4. Orderly
  <2>1. \A o \in Hook : ~Busy(o)
    BY Empties DEF Busy
  <2>2. Fine(Idle, State, turn.files, recorded, owed)
    BY Empties DEF Fine, At
  <2> QED BY <2>1, <2>2 DEF Orderly
<1>5. IndexIsExact
  <2>1. Folded(0) = NoSession
    BY <1>1, <1>2, PrefixIs, FoldedIsPrefix DEF Typed, Folding
  <2> QED BY <2>1 DEF IndexIsExact
<1> QED BY <1>1, <1>2, <1>3, <1>4, <1>5 DEF IInv

\* Every step of the capture keeps the invariant.
LEMMA NextIInv ==
    IInv /\ [Next]_vars => IInv'
<1> SUFFICES ASSUME IInv, [Next]_vars PROVE IInv'
  OBVIOUS
<1>1. ASSUME NEW h \in Hook, NEW e \in Event, Arrive(h, e) PROVE IInv'
  BY <1>1, ArriveInv
<1>2. ASSUME NEW h \in Hook, \/ PostEdit(h) \/ Start(h) \/ CloseTurn(h) \/ Record(h) \/ RecordFails(h)
      PROVE  IInv'
  BY <1>2, PostEditInv, StartInv, CloseTurnInv, RecordInv, RecordFailsInv
<1>3. ASSUME NEW h \in Hook, Publish(h) \/ ResetTurn(h) \/ End(h) \/ Done(h)
      PROVE  IInv'
  BY <1>3, PublishInv, ResetTurnInv, EndInv, DoneInv
<1>4. CASE Share \/ Restart \/ \E e \in Event : Drop(e)
  BY <1>4, ShareInv, RestartInv, DropInv
<1>5. CASE UNCHANGED vars
  <2>1. Typed'
    BY <1>5 DEF IInv, Typed
  <2>2. Folding'
    BY <1>5 DEF IInv, Folding
  <2>3. Counted'
    BY <1>5 DEF IInv, Counted, TurnsWith, Pending, Open
  <2>4. Orderly'
    BY <1>5 DEF IInv, Orderly, Busy, State, Folded
  <2>5. IndexIsExact'
    BY <1>5 DEF IInv, IndexIsExact, Folded
  <2> QED BY <2>1, <2>2, <2>3, <2>4, <2>5 DEF IInv
<1> QED BY <1>1, <1>2, <1>3, <1>4, <1>5 DEF Next

\* The invariant holds in every behaviour of the capture.
THEOREM HooksInvariant == Spec => []IInv
BY InitIInv, NextIInv, PTL DEF Spec

\* An edit that the hooks report is blamed at most once: closeTurn takes the files
\* over under the lock, so no file is in more recorded turns than it was edited, for
\* any number of hooks that overlap, fail or are cut off by a restart.
THEOREM HooksEditInOneTurn == Spec => []EditInOneTurn
<1>1. IInv => EditInOneTurn
  <2> SUFFICES ASSUME IInv, NEW f \in File
               PROVE  Cardinality(TurnsWith(f)) <= edits[f]
    BY DEF EditInOneTurn
  <2>1. /\ IsFiniteSet(TurnsWith(f)) /\ IsFiniteSet(Pending(f)) /\ edits[f] \in Nat
        /\ Cardinality(TurnsWith(f)) + Cardinality(Pending(f)) + Open(f) <= edits[f]
    BY DEF IInv, Counted, Typed
  <2>2. Cardinality(TurnsWith(f)) \in Nat /\ Cardinality(Pending(f)) \in Nat /\ Open(f) \in Nat
    BY <2>1, FS_CardinalityType DEF Open
  <2> QED BY <2>1, <2>2
<1> QED BY <1>1, HooksInvariant, PTL

\* In an orderly session no edit is lost: each file edited since its last turn is in
\* the open turn or in one that a hook is recording, through closeTurn and the new
\* turn of a prompt, which replaces the old one without looking.
THEOREM HooksOrderlyEditsKept == Spec => []OrderlyEditsKept
<1>1. IInv => OrderlyEditsKept
  <2> DEFINE recording == UNION {hook[h].cmd.files : h \in {o \in Hook : hook[o].pc = "record"}}
  <2> SUFFICES ASSUME IInv, ~lost
               PROVE  owed \subseteq turn.files \union recording
    BY DEF OrderlyEditsKept
  <2>1. CASE Fine(Idle, State, turn.files, recorded, owed)
    BY <2>1, Empties DEF Fine, At
  <2>2. ASSUME NEW h \in Hook, Fine(hook[h], State, turn.files, recorded, owed)
        PROVE  owed \subseteq turn.files \union recording
    BY <2>2 DEF Fine, At
  <2> QED BY <2>1, <2>2 DEF IInv, Orderly
<1> QED BY <1>1, HooksInvariant, PTL

\* SessionIndex says what the records up to its cursor say, each counted once, as
\* long as no record was published beside another hook's catch-up or publication:
\* Handle, catch-up and rebuild agree with Session.Apply.
THEOREM HooksIndexIsExact == Spec => []IndexIsExact
BY HooksInvariant, PTL DEF IInv
=============================================================================
