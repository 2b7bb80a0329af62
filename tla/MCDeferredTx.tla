----------------------------- MODULE MCDeferredTx -----------------------------
(****************************************************************************)
(* DeferredTx with the requests that start, complete and change the         *)
(* sessions of a series, and one that begins with a write.                  *)
(****************************************************************************)
EXTENDS DeferredTx, TLC

CONSTANT Spars

Store == [spars : [Spars -> {"none", "running", "complete"}], drawn : BOOLEAN]

EmptyStore == [spars |-> [s \in Spars |-> "none"], drawn |-> FALSE]

StoreDraw == [kind |-> "store_draw"]

Handlers ==
  [kind : {"make_session", "mark_complete"}, spar : Spars] \cup {StoreDraw}

\* do_make_session, do_mark_spar_complete (forced) and the second transaction of
\* generate_draw.
HandlerEffects(r, s) ==
  CASE r.kind = "make_session" ->
         IF s.spars[r.spar] = "none" /\ \A t \in Spars : s.spars[t] # "running"
         THEN {[s EXCEPT !.spars[r.spar] = "running"]} ELSE {s}
    [] r.kind = "mark_complete" ->
         IF s.spars[r.spar] = "running"
         THEN {[s EXCEPT !.spars[r.spar] = "complete"]} ELSE {s}
    [] r.kind = "store_draw" -> {[s EXCEPT !.drawn = TRUE]}

WriteFirstHandlers == {StoreDraw}

ConnSymmetry == Permutations(Conns)
==============================================================================
