------------------------------ MODULE Streams ------------------------------
(***************************************************************************)
(* One model stream through the proxy: an upstream that speaks one dialect *)
(* and may be cut, fail or bend the protocol the way real gateways do, the *)
(* frame pump (sse_pump.go) with the converter of the direction            *)
(* (ConvertStream) or, when both sides speak the same dialect, the         *)
(* terminal watcher (stream_terminal_watch.go), and the client             *)
(* (SSEClient).                                                            *)
(***************************************************************************)
EXTENDS ConvertStream

VARIABLES dir,   \* the direction, <<dialect upstream, dialect of the client>>
          style, \* how the text of the stream begins (see ThinkPrefix)
          up,    \* what the upstream has sent
          cv,    \* the converter
          w,     \* the terminal watcher of a stream that is passed through
          cl,    \* the client
          eof    \* Read returned io.EOF

vars == <<dir, style, up, cv, w, cl, eof>>

Dialects == {"chat", "anthropic", "responses"}
Converted == dir[1] # dir[2]

Init ==
    /\ dir \in Dialects \X Dialects
    /\ style \in IF dir = <<"chat", "responses">> THEN {"plain", "prefix", "tag"} ELSE {"plain"}
    /\ up = [phase |-> [i \in Items |-> "new"], sent |-> [i \in Items |-> 0],
             begun |-> FALSE, ended |-> FALSE, reason |-> FALSE, late |-> FALSE, sealed |-> FALSE,
             failed |-> FALSE, whole |-> FALSE, over |-> FALSE]
    /\ cv = NewConverter
    /\ w = [sawData |-> FALSE, terminal |-> FALSE, sawError |-> FALSE, gaveUp |-> FALSE]
    /\ cl = NewClient
    /\ eof = FALSE

-----------------------------------------------------------------------------
(* The converter of the direction *)

Dispatch(c, e) ==
    CASE dir = <<"chat", "anthropic">>      -> C2A_Dispatch(c, e)
      [] dir = <<"anthropic", "chat">>      -> A2C_Dispatch(c, e)
      [] dir = <<"responses", "anthropic">> -> R2A_Dispatch(c, e)
      [] dir = <<"responses", "chat">>      -> R2C_Dispatch(c, e)
      [] dir = <<"anthropic", "responses">> -> A2R_Dispatch(c, e)
      [] dir = <<"chat", "responses">>      -> C2R_Dispatch(c, e, style)

StreamEnd(c) ==
    CASE dir = <<"chat", "anthropic">>      -> C2A_StreamEnd(c)
      [] dir = <<"anthropic", "chat">>      -> A2C_StreamEnd(c)
      [] dir = <<"responses", "anthropic">> -> R2A_StreamEnd(c)
      [] dir = <<"responses", "chat">>      -> R2C_StreamEnd(c)
      [] dir = <<"anthropic", "responses">> -> A2R_StreamEnd(c)
      [] dir = <<"chat", "responses">>      -> C2R_StreamEnd(c)

ScanError(c) ==
    CASE dir = <<"chat", "anthropic">> -> C2A_ScanError(c)
      [] dir = <<"anthropic", "chat">> -> Fail(c)
      [] dir = <<"chat", "responses">> -> Fail(EnsureStart(c))
      [] OTHER -> StreamEnd(c)

DrainDone(c) ==
    CASE dir = <<"chat", "anthropic">> -> C2A_Finish(c)
      [] dir = <<"anthropic", "chat">> -> A2C_DrainDone(c)
      [] OTHER -> c

-----------------------------------------------------------------------------
(* The watcher of a stream that is passed through unchanged *)

WatchDispatch(e) ==
    LET d == dir[1]
        terminal == CASE d = "chat"      -> e.t \in {"DONE", "reason"}
                      [] d = "anthropic" -> e.t = "end"
                      [] d = "responses" -> e.t = "end"
    IN  [w EXCEPT !.sawData = TRUE, !.terminal = @ \/ terminal,
                  !.sawError = @ \/ (e.t = "error" /\ (d = "responses" => e.val = <<>>))]

\* A line over 8 MiB ends the scanning; any frame but the bare [DONE] may hold one.
WatchScan(e) ==
    IF w.gaveUp THEN {w}
    ELSE {WatchDispatch(e)} \cup {[w EXCEPT !.gaveUp = TRUE] : t \in {e.t} \ {"DONE"}}

\* The client sees the upstream's own frame; only what ends a stream matters.
Forwarded(e) ==
    CASE e.t = "reason" -> <<Mark("reason")>>
      [] e.t = "error"  -> <<Mark("error")>>
      [] e.t = "end"    -> <<Mark("end")>>
      [] e.t = "DONE" /\ dir[1] = "chat" -> <<Mark("end")>>
      [] OTHER -> <<>>

(* finish: the missing terminal of a truncated stream is synthesised, *)
(* unless the scanner gave up and cannot tell.                        *)
WatchFinish ==
    /\ ~Converted /\ ~eof
    /\ up' = [up EXCEPT !.over = TRUE]
    /\ cl' = IF ~w.terminal /\ ~w.sawError /\ w.sawData /\ ~w.gaveUp
             THEN RecvAll(dir[2], cl, <<Mark("error")>>) ELSE cl
    /\ eof' = TRUE
    /\ UNCHANGED <<dir, style, cv, w>>

-----------------------------------------------------------------------------
(* The pump *)

\* One frame is scanned and dispatched; a converter with output, or done, scans no more.
Frame(e) ==
    /\ ~up.over /\ ~eof
    /\ IF Converted
       THEN /\ cv.out = <<>> /\ ~cv.done
            /\ cv' = Dispatch(cv, e)
            /\ UNCHANGED <<w, cl>>
       ELSE /\ w' \in WatchScan(e)
            /\ cl' = RecvAll(dir[2], cl, Forwarded(e))
            /\ UNCHANGED cv
    /\ UNCHANGED <<dir, style, eof>>

\* The scanner is exhausted, cleanly or with an error.
Exhausted ==
    /\ Converted /\ cv.out = <<>> /\ ~cv.done
    /\ up' = [up EXCEPT !.over = TRUE]
    /\ cv' \in {StreamEnd(cv), ScanError(cv)}
    /\ UNCHANGED <<dir, style, w, cl, eof>>

\* Read hands the buffered output to the client.
Read ==
    /\ cv.out # <<>>
    /\ cl' = RecvAll(dir[2], cl, cv.out)
    /\ cv' = [cv EXCEPT !.out = <<>>]
    /\ UNCHANGED <<dir, style, up, w, eof>>

\* The done branch of the pump: the terminal emission, then io.EOF.
Drain ==
    /\ Converted /\ cv.done /\ cv.out = <<>> /\ ~eof
    /\ cv' = DrainDone(cv)
    /\ eof' = (cv'.out = <<>>)
    /\ UNCHANGED <<dir, style, up, w, cl>>

-----------------------------------------------------------------------------
(* What the upstream may send next.  Argument deltas may come before their *)
(* call is announced (chat: named), an announcement may be repeated or     *)
(* skipped, a block may be left open, all of the content may come with     *)
(* the done frame or with the completed response, and the stream may go on *)
(* after its stop reason.                                                  *)

Untouched == \A i \in Items : up.phase[i] = "new" /\ up.sent[i] = 0

Before(i) == up.phase[i] \in {"new", "open"} /\ up.sent[i] < MaxFrags

SendStart ==
    /\ ~up.begun /\ (Converted => dir[1] # "chat" /\ Untouched)
    /\ up' = [up EXCEPT !.begun = TRUE]
    /\ Frame(Mark("start"))

Repeatable(i) == dir = <<"responses", "anthropic">> /\ up.phase[i] = "open"

SendOpen(i) ==
    /\ Converted /\ ~up.reason
    /\ up.phase[i] = "new" \/ Repeatable(i)
    /\ up' = [up EXCEPT !.phase = [j \in Items |->
                 CASE j = i -> "open"
                   [] j # i /\ dir[1] = "anthropic" /\ up.phase[j] = "open" -> "cut"
                   [] OTHER -> up.phase[j]]]
    /\ Frame(Ev("open", -1, i, <<>>))

SendPiece(i) ==
    /\ Converted /\ ~up.reason /\ Before(i)
    /\ dir[1] = "anthropic" => up.phase[i] = "open"
    /\ up' = [up EXCEPT !.sent[i] = @ + 1]
    /\ Frame(Ev("frag", -1, i, <<<<i, up.sent[i] + 1>>>>))

SendClose(i) ==
    /\ Converted /\ ~up.reason
    /\ CASE dir[1] = "anthropic" -> up.phase[i] = "open"
         [] dir[1] = "responses" -> up.phase[i] \in {"new", "open"} /\ up.sent[i] \in {0, MaxFrags}
         [] OTHER -> FALSE
    /\ up' = [up EXCEPT !.phase[i] = "closed"]
    /\ Frame(Ev("close", -1, i, <<>>))

SendReason ==
    /\ ~up.reason /\ ~up.ended /\ dir[1] # "responses"
    /\ up' = [up EXCEPT !.reason = TRUE, !.sealed = @ \/ dir[1] = "chat"]
    /\ Frame(Mark("reason"))

\* Content after the stop reason, which the chat and anthropic readers must not pass on.
SendLate(i) ==
    /\ up.reason /\ ~up.late /\ dir \in {<<"chat", "anthropic">>, <<"chat", "responses">>,
                                         <<"anthropic", "chat">>}
    /\ up' = [up EXCEPT !.late = TRUE]
    /\ Frame(Ev("frag", -1, i, <<<<i, MaxFrags + 1>>>>))

SendEnd ==
    /\ dir[1] # "chat" /\ ~up.ended
    /\ dir[1] = "responses" => \A i \in Items : IsTool(i) /\ up.phase[i] = "new" => up.sent[i] = 0
    /\ \E whole \in {FALSE, dir[1] = "responses" /\ Untouched} :
          /\ up' = [up EXCEPT !.ended = TRUE, !.sealed = up.reason \/ dir[1] = "responses", !.whole = whole]
          /\ Frame(Ev("end", -1, NoItem, IF whole THEN <<"output">> ELSE <<>>))

SendDone ==
    /\ ~up.ended
    /\ up' = [up EXCEPT !.ended = TRUE, !.sealed = @ \/ dir[1] = "chat" \/ (dir[1] = "anthropic" /\ Converted)]
    /\ Frame(Mark("DONE"))

\* [DONE] without the blank line before it: recovered from a folded payload.
SendFoldedDone ==
    /\ Converted
    /\ up' = [up EXCEPT !.sealed = @ \/ (dir = <<"chat", "anthropic">>) \/ (dir = <<"anthropic", "chat">> /\ up.reason)]
    /\ Frame(Mark("folded"))

SendError ==
    /\ ~up.failed /\ ~up.ended
    /\ up' = [up EXCEPT !.failed = TRUE, !.ended = TRUE]
    /\ \E bare \in {FALSE, dir[1] = "responses" /\ ~Converted} :
          Frame(Ev("error", -1, NoItem, IF bare THEN <<"error">> ELSE <<>>))

Send == \/ SendStart \/ SendReason \/ SendEnd \/ SendDone \/ SendFoldedDone \/ SendError
        \/ \E i \in Items : SendOpen(i) \/ SendPiece(i) \/ SendClose(i) \/ SendLate(i)

Ended == eof /\ UNCHANGED vars

Next == Send \/ Exhausted \/ Read \/ Drain \/ WatchFinish \/ Ended

Spec == Init /\ [][Next]_vars

-----------------------------------------------------------------------------
(* Properties *)

Clean == cl.ends > 0 /\ cl.errors = 0

\* What the client must have of item i after a clean end.
Owed(i) ==
    LET all == Pieces(i, MaxFrags)
    IN  CASE up.whole -> IF KindOf[i] = "think" THEN <<>> ELSE all
          [] ~up.whole /\ dir[1] = "responses" /\ up.phase[i] = "closed" /\ KindOf[i] # "think" -> all
          [] dir[1] # "responses" /\ IsTool(i) /\ up.sent[i] = 0 /\ up.phase[i] # "new"
             /\ (dir = <<"anthropic", "chat">> => up.phase[i] = "closed") -> EmptyArgs(i)
          [] OTHER -> Pieces(i, up.sent[i])

\* The pieces of item i the client holds; a leading think block went to the reasoning item.
Held(i) ==
    IF IsTool(i) THEN cl.got[i]
    ELSE SelectSeq(cl.got[Thinker] \o cl.got[Texter], LAMBDA p : p[1] = i)

\* A converted stream: every block is announced once, delivered and closed, nothing
\* comes after the stop reason or the terminal, and io.EOF comes after exactly one.
ConvertedEnds == Converted => cl.strict /\ (eof => cl.ends + cl.errors = 1)

\* A stream that was passed through and began: the watcher adds a missing terminal, unless
\* a line over 8 MiB stopped it, and adds nothing where it cannot know or has seen one.
PassedThroughEnds ==
    LET finished == cl.ends > 0 \/ (dir[1] = "chat" /\ cl.reason)
    IN  ~Converted /\ eof =>
          /\ w.sawData /\ ~w.gaveUp => finished \/ cl.errors > 0
          /\ w.gaveUp \/ finished => cl.errors = IF up.failed THEN 1 ELSE 0

(* Whatever the upstream sends, repeats, skips or cuts off, the client's   *)
(* stream is one that a strict client accepts to its end, converted        *)
(* (convert_stream.go, convert_responses_stream.go,                        *)
(* convert_responses_stream_to.go) or not (stream_terminal_watch.go), but  *)
(* for a passed-through line over 8 MiB, after which a cut stays a cut.    *)
StrictClientAccepts == ConvertedEnds /\ PassedThroughEnds

(* No early delta, late announcement, buffered call, held-back call or     *)
(* content-only-at-the-end gateway loses, repeats, reorders or misplaces a *)
(* piece of a tool call or of a text in a stream that ends cleanly.        *)
ContentDeliveredOnce ==
    Converted /\ Clean => \A i \in Items : Held(i) = Owed(i)

(* Fail closed: a stream the upstream cut before its own terminal, or      *)
(* failed, never looks complete to the client or to the response cache     *)
(* (StreamTerminalComplete), converted or not.                             *)
CacheOnlySealed ==
    eof /\ StreamTerminalComplete(dir[2], cl) => up.sealed
=============================================================================
