----------------------------- MODULE SSEClient -----------------------------
(***************************************************************************)
(* What a client of the proxy does with the events of a model stream, for  *)
(* the three dialects the proxy speaks.  An event is a record: t is what   *)
(* it does, idx the block or item index it carries, it the identity a      *)
(* block announces (call id, or the item the text belongs to) and val the  *)
(* piece of content it delivers.  Wording, ids and token counts are left   *)
(* out.                                                                    *)
(***************************************************************************)
EXTENDS Integers, Sequences, SequencesExt

CONSTANTS Items,     \* the output items one generation may contain
          KindOf,    \* item -> "text", "think" or "tool"
          MaxFrags,  \* pieces of content of an item
          NoItem     \* no item

ASSUME ItemsAssumption == /\ KindOf \in [Items -> {"text", "think", "tool"}]
                          /\ MaxFrags \in Nat \ {0}
                          /\ NoItem \notin Items

Ev(t, idx, it, val) == [t |-> t, idx |-> idx, it |-> it, val |-> val]
Mark(t) == Ev(t, -1, NoItem, <<>>)

IsTool(i) == KindOf[i] = "tool"

\* The pieces of content of item i, and the arguments of a call that has none.
Pieces(i, n) == [k \in 1..n |-> <<i, k>>]
EmptyArgs(i) == <<<<i, 0>>>>

NewClient == [start |-> FALSE, open |-> {}, used |-> {}, owner |-> <<>>,
              got |-> [i \in Items |-> <<>>], reason |-> FALSE,
              ends |-> 0, errors |-> 0, strict |-> TRUE]

Over(cl) == cl.ends + cl.errors > 0

(* A strict client of dialect d takes one event.  In the chat dialect text *)
(* has no index and blocks are never closed; in the responses dialect the  *)
(* end carries the reason.                                                 *)
Accepts(d, cl, e) ==
    /\ ~Over(cl)
    /\ e.t \in {"open", "frag", "close"} => cl.start
    /\ e.t \in {"open", "frag", "close"} => ~cl.reason
    /\ e.t = "open" => e.idx \notin cl.used
    /\ e.t \in {"frag", "close"} => e.idx \in cl.open \/ (d = "chat" /\ e.idx = -1)
    /\ e.t = "end" => (d = "responses" \/ cl.reason) /\ (d = "chat" \/ cl.open = {})

Recv(d, cl, e) ==
    LET Owner == IF e.idx = -1 \/ e.idx \notin cl.used THEN e.it ELSE cl.owner[e.idx]
        c == [cl EXCEPT !.strict = @ /\ Accepts(d, cl, e)]
    IN  CASE e.t = "start"  -> [c EXCEPT !.start = TRUE]
          [] e.t = "open"   -> [c EXCEPT !.open = @ \cup {e.idx}, !.used = @ \cup {e.idx},
                                         !.owner = [x \in cl.used \cup {e.idx} |->
                                                      IF x = e.idx THEN e.it ELSE cl.owner[x]]]
          [] e.t = "frag"   -> [c EXCEPT !.got[Owner] = @ \o e.val]
          [] e.t = "close"  -> [c EXCEPT !.open = @ \ {e.idx},
                                         !.got[Owner] = IF IsPrefix(@, e.val) THEN e.val ELSE @ \o e.val]
          [] e.t = "reason" -> [c EXCEPT !.reason = TRUE]
          [] e.t = "end"    -> [c EXCEPT !.ends = @ + 1]
          [] e.t = "error"  -> [c EXCEPT !.errors = @ + 1]

RecvAll(d, cl, es) == FoldLeft(LAMBDA c, e : Recv(d, c, e), cl, es)

-----------------------------------------------------------------------------

(* StreamTerminalComplete: whether the bytes the client received may be    *)
(* kept in the response cache.                                             *)
StreamTerminalComplete(d, cl) ==
    CASE d = "anthropic" -> cl.reason /\ cl.ends > 0 /\ cl.errors = 0
      [] d = "chat"      -> (cl.reason \/ cl.ends > 0) /\ cl.errors = 0
      [] d = "responses" -> cl.ends > 0 /\ cl.errors = 0
=============================================================================
