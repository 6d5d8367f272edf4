----------------------------- MODULE GateRules ------------------------------
(***************************************************************************)
(* The Gate aggregate, the approval broker record                          *)
(* (internal/core/accountability/gate.go), as operators.                   *)
(***************************************************************************)
EXTENDS Integers, Sequences

CONSTANT GateTTL              \* Policy.GateTTL

ASSUME GateTTLIsNat == GateTTL \in Nat

GateReject == [refused |-> TRUE, evs |-> << >>]
GateEmit(evs) == [refused |-> FALSE, evs |-> evs]

\* The zero Gate: no state, nothing answered.
NewGate == [state |-> "none", decision |-> "none", requested |-> 0,
            openedAt |-> 0, expiresAt |-> 0]

\* Deny above the cap, ask when another owner is involved, allow at or below
\* the effective level, otherwise ask.
GatePolicy(ctx, requested) ==
    CASE requested > ctx.cap -> "deny"
      [] requested <= ctx.cap /\ ctx.judges # {} -> "ask"
      [] requested <= ctx.cap /\ ctx.judges = {} /\ requested <= ctx.autonomy -> "allow"
      [] OTHER -> "ask"

\* request: a known (actor, proposal) pair returns the existing gate.
RequestDecide(g, m, ctx) ==
    IF g.state # "none"
    THEN GateEmit(<< >>)
    ELSE IF ~m.wellFormed
    THEN GateReject
    ELSE LET d == GatePolicy(ctx, m.requested) IN
         GateEmit(<<IF d = "ask"
                    THEN [kind |-> "GateOpened", requested |-> m.requested,
                          at |-> ctx.now, expiresAt |-> ctx.now + GateTTL]
                    ELSE [kind |-> "GateDecided", requested |-> m.requested,
                          decision |-> d, at |-> ctx.now]>>)

\* Mutant of ResolveDecide: an answered gate can be answered again.
ResolveAnswered(g, m, ctx) ==
    IF g.state = "none" \/ ~m.human \/ ~m.reason
    THEN GateReject
    ELSE GateEmit(<<[kind |-> "GateResolved", decision |-> m.decision, at |-> ctx.now]>>)

\* resolve: an open gate, a reasoned allow or deny by a human who is one of
\* the judges when there are any, strictly before the expiry.
ResolveDecide(g, m, ctx) ==
    IF \/ g.state # "open"
       \/ m.decision \notin {"allow", "deny"}
       \/ ~m.human
       \/ ctx.judges # {} /\ m.by \notin ctx.judges
       \/ ~m.reason
       \/ ctx.now >= g.expiresAt
    THEN GateReject
    ELSE GateEmit(<<[kind |-> "GateResolved", decision |-> m.decision, at |-> ctx.now]>>)

\* expire: a gate already answered stays as it is.
ExpireDecide(g, m, ctx) ==
    CASE g.state = "none" -> GateReject
      [] g.state \notin {"none", "open"} -> GateEmit(<< >>)
      [] g.state = "open" /\ ctx.now < g.expiresAt -> GateReject
      [] OTHER -> GateEmit(<<[kind |-> "GateExpired", at |-> ctx.now]>>)

GateDecide(g, m, ctx) ==
    CASE m.kind = "RequestGate" -> RequestDecide(g, m, ctx)
      [] m.kind = "ResolveGate" -> ResolveDecide(g, m, ctx)
      [] m.kind = "ExpireGate"  -> ExpireDecide(g, m, ctx)

GateApply(g, e) ==
    CASE e.kind = "GateDecided" ->
           [NewGate EXCEPT !.state = "decided", !.decision = e.decision,
                           !.requested = e.requested, !.openedAt = e.at]
      [] e.kind = "GateOpened" ->
           [NewGate EXCEPT !.state = "open", !.decision = "ask",
                           !.requested = e.requested, !.openedAt = e.at,
                           !.expiresAt = e.expiresAt]
      [] e.kind = "GateResolved" ->
           [g EXCEPT !.state = "resolved", !.decision = e.decision]
      [] e.kind = "GateExpired" -> [g EXCEPT !.state = "expired"]
=============================================================================
