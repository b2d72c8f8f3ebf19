-------------------------- MODULE MCItemPassport --------------------------
(***************************************************************************)
(* ItemPassport on two overlapping handlers and two idempotency keys, k1   *)
(* and k2, for each command.  VIEW identifies states that behave alike:     *)
(*   - a handler whose snapshot is no longer current can only be refused   *)
(*     or find its own receipt: what it saw makes no difference to what it *)
(*     still does, and for most commands nothing about it does, because an *)
(*     exact replay ends the handler as a refusal does;                    *)
(*   - the keys of one command are interchangeable.                        *)
(***************************************************************************)
EXTENDS ItemPassport, TLC

CONSTANTS k1, k2

HandlerSymmetry == Permutations(Handler)

Stale(a) == a # None /\ a.seen.version # passport.version
EndsEitherWay == {"claim", "approval", "reserve", "tokens", "attest", "release", "close"}

\* The names of the keys a command derives from the one its client chose.
Command(name) == CASE name \in {"evidence-ready", "analyzing"} -> "analysis"
                   [] name = "attested" -> "identity"
                   [] name = "token-attest" -> "attest"
                   [] name \in {"approved", "rejected-by-supervisor"} -> "approval"
                   [] OTHER -> name

Used(op) == {r.key[2] : r \in {q \in receipts : Command(q.key[1]) = op}}
InFlight(op) == {handler[h].key : h \in {g \in Handler :
                   handler[g] # None /\ ~Stale(handler[g]) /\ handler[g].op = op}}

\* A command nobody has sent before takes the lowest key that is free.
LowestFreshKey ==
  \A h \in Handler :
    LET a == handler'[h]
    IN handler[h] = None /\ a # None /\ a.key = k2 => k1 \in Used(a.op) \cup InFlight(a.op)

Other == (k1 :> k2) @@ (k2 :> k1)
Canonical(op, k) == IF Used(op) = {k2} /\ k \in Key THEN Other[k] ELSE k

Residue(a) ==
  IF a = None THEN None
  ELSE IF ~Stale(a) THEN [a EXCEPT !.key = Canonical(a.op, @)]
  ELSE IF a.op \in EndsEitherWay THEN "doomed"
  ELSE [a EXCEPT !.key = Canonical(a.op, @), !.seen = "stale", !.hand = "stale"]

View ==
  <<passport, handoff, tokens, outbox, remote,
    [i \in DOMAIN log |-> [log[i] EXCEPT !.key = "-"]],
    {[r EXCEPT !.key[2] = Canonical(Command(r.key[1]), @)] : r \in receipts},
    [h \in Handler |-> Residue(handler[h])]>>
=============================================================================
