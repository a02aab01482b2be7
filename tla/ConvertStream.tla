--------------------------- MODULE ConvertStream ---------------------------
(***************************************************************************)
(* The six streaming converters (convert_stream.go,                        *)
(* convert_responses_stream.go, convert_responses_stream_to.go): each is a *)
(* record of the Go struct's fields, and each frame of the upstream is a   *)
(* function from that record to the next one.  out is the output buffer    *)
(* that Read drains.  Fields a direction does not have stay at their zero. *)
(*                                                                         *)
(*   blk[i]   the block of upstream item i: its index for the client (-1   *)
(*            when none), opened, whether content was emitted, what was    *)
(*            accumulated, how much of it was sent, whether it is named    *)
(*   cur      the block that is open (chat->anthropic) or current          *)
(*   pend     early argument deltas, before their item is announced        *)
(*   think    the splitter of a leading inline <think> block               *)
(***************************************************************************)
EXTENDS SSEClient

Emit(c, e) == [c EXCEPT !.out = Append(@, e)]

NewConverter ==
    [started |-> FALSE, done |-> FALSE, closed |-> FALSE, errored |-> FALSE,
     stop |-> FALSE, delim |-> FALSE, usageSent |-> FALSE, nxt |-> 0,
     blk |-> [i \in Items |-> [idx |-> -1, opened |-> FALSE, seen |-> FALSE,
                               acc |-> <<>>, sent |-> 0, named |-> FALSE]],
     cur |-> NoItem, order |-> <<>>, pend |-> [i \in Items |-> <<>>],
     items |-> FALSE, think |-> "detect", buf |-> <<>>, out |-> <<>>]

EnsureStart(c) == IF c.started THEN c ELSE Emit([c EXCEPT !.started = TRUE], Mark("start"))

\* The next index is given to item i and its block announced to the client.
Announce(c, i) ==
    Emit([c EXCEPT !.nxt = @ + 1, !.blk[i].idx = c.nxt, !.blk[i].opened = TRUE],
         Ev("open", c.nxt, i, <<>>))

Delta(c, i, val) == Emit(c, Ev("frag", c.blk[i].idx, i, val))
Close(c, i) == Emit([c EXCEPT !.blk[i].opened = FALSE], Ev("close", c.blk[i].idx, i, <<>>))

\* json.Valid on accumulated arguments: a prefix of the pieces is not a document.
InvalidArgs(acc) == Len(acc) \in 1..(MaxFrags - 1)

Fail(c) == [Emit(c, Mark("error")) EXCEPT !.errored = TRUE, !.closed = TRUE, !.done = TRUE]

-----------------------------------------------------------------------------

(* chat -> anthropic: one block at a time; tool calls are buffered and     *)
(* emitted as whole blocks by finish.                                      *)
C2A_CloseBlock(c) ==
    IF c.cur = NoItem THEN c ELSE [Close(c, c.cur) EXCEPT !.cur = NoItem]

\* Mutant: the block that is open stays open.
C2A_OpenBeside(c, i) == IF c.cur = i THEN c ELSE [Announce(c, i) EXCEPT !.cur = i]

C2A_Open(c, i) ==
    IF c.cur = i THEN c ELSE [Announce(C2A_CloseBlock(c), i) EXCEPT !.cur = i]

C2A_BufferTool(c, i, val) ==
    [c EXCEPT !.blk[i].acc = @ \o val,
              !.order = IF i \in Range(@) THEN @ ELSE Append(@, i)]

C2A_Chunk(c, e) ==
    IF c.stop THEN c
    ELSE LET s == EnsureStart(c)
         IN  CASE e.t = "reason" -> [s EXCEPT !.stop = TRUE]
               [] e.t = "open" -> IF IsTool(e.it) THEN C2A_BufferTool(s, e.it, <<>>) ELSE s
               [] e.t = "frag" -> IF IsTool(e.it) THEN C2A_BufferTool(s, e.it, e.val)
                                                  ELSE Delta(C2A_Open(s, e.it), e.it, e.val)
               [] OTHER -> s

C2A_ToolBlock(c, i) ==
    LET a == Announce(c, i)
    IN  Close(Delta(a, i, IF a.blk[i].acc = <<>> THEN EmptyArgs(i) ELSE a.blk[i].acc), i)

C2A_Finish(c) ==
    LET s == C2A_CloseBlock(EnsureStart(c))
        tools == FoldLeft(C2A_ToolBlock, s, s.order)
    IN  CASE c.closed -> c
          [] ~c.closed /\ \E i \in Range(s.order) : InvalidArgs(s.blk[i].acc) -> Fail(s)
          [] OTHER -> [Emit(Emit(tools, Mark("reason")), Mark("end")) EXCEPT !.closed = TRUE]

C2A_Dispatch(c, e) ==
    CASE e.t \in {"DONE", "folded"} -> [c EXCEPT !.done = TRUE]
      [] e.t = "error" -> Fail(C2A_CloseBlock(EnsureStart(c)))
      [] OTHER -> C2A_Chunk(c, e)

C2A_StreamEnd(c) ==
    IF c.stop THEN [c EXCEPT !.done = TRUE] ELSE Fail(C2A_CloseBlock(EnsureStart(c)))

C2A_ScanError(c) == Fail(C2A_CloseBlock(EnsureStart(c)))

-----------------------------------------------------------------------------

(* anthropic -> chat: tool blocks become numbered tool calls; a finish     *)
(* chunk needs both a stop_reason and message_stop.                        *)
A2C_ToolArgs(c, e) ==
    IF c.cur # NoItem /\ IsTool(c.cur) /\ c.blk[c.cur].idx # -1
    THEN Delta([c EXCEPT !.blk[c.cur].seen = TRUE], c.cur, e.val)
    ELSE c

A2C_Block(c, e) ==
    CASE e.t = "open" -> IF IsTool(e.it) THEN Announce(EnsureStart([c EXCEPT !.cur = e.it]), e.it)
                                         ELSE [c EXCEPT !.cur = e.it]
      [] e.t = "frag" -> IF IsTool(e.it) THEN A2C_ToolArgs(c, e)
                                         ELSE Delta(EnsureStart(c), e.it, e.val)
      [] e.t = "close" -> IF c.cur # NoItem /\ IsTool(c.cur) /\ ~c.blk[c.cur].seen
                          THEN [Delta(c, c.cur, EmptyArgs(c.cur)) EXCEPT !.cur = NoItem]
                          ELSE [c EXCEPT !.cur = NoItem]

A2C_Dispatch(c, e) ==
    CASE e.t = "DONE"   -> [c EXCEPT !.delim = TRUE, !.done = TRUE]
      [] e.t = "folded" -> [c EXCEPT !.done = TRUE]
      [] e.t = "start"  -> c
      [] e.t = "error"  -> Fail(c)
      [] e.t = "reason" -> IF c.closed THEN c ELSE [c EXCEPT !.stop = TRUE]
      [] e.t = "end"    -> IF c.stop THEN [c EXCEPT !.done = TRUE] ELSE Fail(c)
      [] OTHER          -> IF c.closed \/ c.stop THEN c ELSE A2C_Block(c, e)

A2C_DrainDone(c) ==
    LET f == IF ~c.closed /\ ~c.errored /\ ~c.delim /\ ~c.stop THEN Fail(c) ELSE c
        g == IF f.closed THEN f ELSE [Emit(f, Mark("reason")) EXCEPT !.closed = TRUE]
    IN  IF g.errored \/ g.usageSent THEN g
        ELSE [Emit(g, Mark("end")) EXCEPT !.usageSent = TRUE]

\* Mutant: a stop reason counts as the end, message_stop or not.
A2C_StreamEndOpen(c) == IF c.closed \/ c.stop THEN [c EXCEPT !.done = TRUE] ELSE Fail(c)

A2C_StreamEnd(c) == IF c.closed THEN [c EXCEPT !.done = TRUE] ELSE Fail(c)

-----------------------------------------------------------------------------

(* responses -> anthropic *)
CloseOpenBlocks(c) ==
    FoldLeft(Close, c, SetToSortSeq({i \in Items : c.blk[i].opened},
                                    LAMBDA i, j : c.blk[i].idx < c.blk[j].idx))

\* A delta for an item without a block reserves the next index; the block opens with it.
OpenAt(c, i) ==
    LET idx == IF c.blk[i].idx = -1 THEN c.nxt ELSE c.blk[i].idx
    IN  IF c.blk[i].opened THEN c
        ELSE Emit([c EXCEPT !.nxt = IF c.blk[i].idx = -1 THEN @ + 1 ELSE @,
                            !.blk[i].idx = idx, !.blk[i].opened = TRUE],
                  Ev("open", idx, i, <<>>))

\* emitDoneOnlyFunctionCall, emitCompletedMessageItem: a whole block at an index of its own.
WholeBlock(c, i, val) ==
    Emit(Emit(Emit([EnsureStart(c) EXCEPT !.nxt = @ + 1], Ev("open", c.nxt, i, <<>>)),
              Ev("frag", c.nxt, i, val)), Ev("close", c.nxt, i, <<>>))

R2A_Materialize(c) == FoldLeft(LAMBDA d, i : WholeBlock(d, i, Pieces(i, MaxFrags)), c,
                               SetToSeq({i \in Items : KindOf[i] # "think"}))

\* Mutant: early argument deltas are not replayed.
R2A_AddedLosing(c, i) ==
    CASE c.blk[i].idx # -1 -> c
      [] c.blk[i].idx = -1 /\ ~IsTool(i) ->
             [EnsureStart(c) EXCEPT !.blk[i].idx = c.nxt, !.nxt = @ + 1]
      [] OTHER -> Announce(EnsureStart(c), i)

R2A_Added(c, i) ==
    LET s == EnsureStart(c)
        a == Announce(s, i)
    IN  CASE c.blk[i].idx # -1 -> c
          [] c.blk[i].idx = -1 /\ ~IsTool(i) -> [s EXCEPT !.blk[i].idx = s.nxt, !.nxt = @ + 1]
          [] OTHER -> IF c.pend[i] = <<>> THEN a
                      ELSE Delta([a EXCEPT !.pend[i] = <<>>, !.blk[i].seen = TRUE], i, c.pend[i])

R2A_Delta(c, e) ==
    CASE ~IsTool(e.it) -> Delta(OpenAt(EnsureStart(c), e.it), e.it, e.val)
      [] IsTool(e.it) /\ c.blk[e.it].opened ->
             Delta([c EXCEPT !.blk[e.it].seen = TRUE], e.it, e.val)
      [] OTHER -> [c EXCEPT !.pend[e.it] = @ \o e.val]

\* The done frame carries the whole item, with which whatever was skipped is filled in.
R2A_Done(c, i) ==
    LET b == c.blk[i]
        full == Pieces(i, MaxFrags)
        filled == IF IsTool(i) /\ ~b.seen THEN Delta(c, i, full) ELSE c
    IN  CASE b.idx = -1 /\ IsTool(i) -> WholeBlock([c EXCEPT !.pend[i] = <<>>], i, full)
          [] b.idx = -1 /\ KindOf[i] = "text" -> WholeBlock(c, i, full)
          [] b.idx = -1 /\ KindOf[i] = "think" -> c
          [] b.idx # -1 /\ KindOf[i] = "text" /\ ~b.opened -> WholeBlock(c, i, full)
          [] OTHER -> IF b.opened THEN Close(filled, i) ELSE c

R2A_Finish(c) ==
    Emit(Emit(CloseOpenBlocks(EnsureStart([c EXCEPT !.done = TRUE])), Mark("reason")), Mark("end"))

R2A_Dispatch(c, e) ==
    LET s == [c EXCEPT !.items = @ \/ e.t \in {"open", "frag", "close"}]
    IN  CASE e.t = "DONE"   -> Fail(CloseOpenBlocks(EnsureStart(c)))
          [] e.t = "start"  -> EnsureStart(c)
          [] e.t = "open"   -> R2A_Added(s, e.it)
          [] e.t = "frag"   -> R2A_Delta(s, e)
          [] e.t = "close"  -> R2A_Done(s, e.it)
          [] e.t = "error"  -> Fail(EnsureStart(c))
          [] e.t = "end"    -> R2A_Finish(IF c.items \/ e.val = <<>> THEN c ELSE R2A_Materialize(c))
          [] OTHER          -> c

R2A_StreamEnd(c) == Fail(CloseOpenBlocks(EnsureStart(c)))

-----------------------------------------------------------------------------

(* responses -> chat: only function calls carry an index. *)
R2C_OpenTool(c, i) ==
    IF c.blk[i].idx = -1 THEN Announce(EnsureStart(c), i)
    ELSE Emit(c, Ev("open", c.blk[i].idx, i, <<>>))

R2C_Added(c, i) ==
    LET a == R2C_OpenTool(c, i)
    IN  CASE ~IsTool(i) -> c
          [] IsTool(i) /\ c.pend[i] = <<>> -> a
          [] OTHER -> Delta([a EXCEPT !.pend[i] = <<>>, !.blk[i].seen = TRUE], i, c.pend[i])

R2C_Delta(c, e) ==
    CASE IsTool(e.it) /\ c.blk[e.it].idx = -1 -> [c EXCEPT !.pend[e.it] = @ \o e.val]
      [] IsTool(e.it) /\ c.blk[e.it].idx # -1 ->
             Delta([c EXCEPT !.blk[e.it].seen = TRUE], e.it, e.val)
      [] OTHER -> Delta([EnsureStart(c) EXCEPT !.blk[e.it].seen = TRUE], e.it, e.val)

R2C_Done(c, i) ==
    LET full == Pieces(i, MaxFrags)
    IN  CASE KindOf[i] = "think" -> c
          [] KindOf[i] = "text" -> IF c.blk[i].seen THEN c ELSE Delta(EnsureStart(c), i, full)
          [] IsTool(i) /\ c.blk[i].idx = -1 ->
                 Delta(R2C_OpenTool([c EXCEPT !.pend[i] = <<>>], i), i, full)
          [] OTHER -> IF c.blk[i].seen THEN c ELSE Delta(c, i, full)

R2C_Materialize(c) == FoldLeft(R2C_Done, c, SetToSeq({i \in Items : KindOf[i] # "think"}))

R2C_Finish(c) ==
    Emit(Emit([c EXCEPT !.done = TRUE], Mark("reason")), Mark("end"))

R2C_Dispatch(c, e) ==
    LET s == [c EXCEPT !.items = @ \/ e.t \in {"open", "frag", "close"}]
    IN  CASE e.t \in {"DONE", "error"} -> Fail(c)
          [] e.t = "start" -> EnsureStart(c)
          [] e.t = "open"  -> R2C_Added(s, e.it)
          [] e.t = "frag"  -> R2C_Delta(s, e)
          [] e.t = "close" -> R2C_Done(s, e.it)
          [] e.t = "end"   -> R2C_Finish(IF c.items \/ e.val = <<>> THEN c ELSE R2C_Materialize(c))
          [] OTHER         -> c

R2C_StreamEnd(c) == Fail(c)

-----------------------------------------------------------------------------

(* The two directions that speak responses to the client close an item     *)
(* with all it accumulated.                                                *)
CloseItem(c, i) ==
    LET acc == c.blk[i].acc
    IN  Emit([c EXCEPT !.blk[i].opened = FALSE],
             Ev("close", c.blk[i].idx, i,
                IF IsTool(i) /\ acc = <<>> THEN EmptyArgs(i) ELSE acc))

ByIndex(c, S) == SetToSortSeq(S, LAMBDA i, j : c.blk[i].idx < c.blk[j].idx)

(* anthropic -> responses: a block that starts closes the ones before it. *)
A2R_CloseOpen(c) == FoldLeft(CloseItem, c, ByIndex(c, {i \in Items : c.blk[i].opened}))

A2R_Start(c, i) ==
    LET s == A2R_CloseOpen(c)
    IN  IF IsTool(i) THEN Announce(EnsureStart(s), i)
        ELSE [s EXCEPT !.blk[i].idx = s.nxt, !.nxt = @ + 1]

A2R_Delta(c, e) ==
    LET i == e.it
        s == IF IsTool(i) THEN c ELSE OpenAt(EnsureStart(c), i)
    IN  IF c.blk[i].idx = -1 \/ (IsTool(i) /\ ~c.blk[i].opened) THEN c
        ELSE Delta([s EXCEPT !.blk[i].acc = @ \o e.val], i, e.val)

A2R_Finish(c) ==
    IF c.done THEN c
    ELSE Emit(EnsureStart([A2R_CloseOpen(c) EXCEPT !.done = TRUE]), Mark("end"))

A2R_Dispatch(c, e) ==
    CASE e.t = "DONE"   -> A2R_Finish(c)
      [] e.t = "start"  -> EnsureStart(c)
      [] e.t = "open"   -> A2R_Start(c, e.it)
      [] e.t = "frag"   -> A2R_Delta(c, e)
      [] e.t = "close"  -> IF c.blk[e.it].opened THEN CloseItem(c, e.it) ELSE c
      [] e.t = "reason" -> [c EXCEPT !.stop = TRUE]
      [] e.t = "end"    -> IF c.stop THEN A2R_Finish(c) ELSE Fail(EnsureStart(c))
      [] e.t = "error"  -> Fail(EnsureStart(c))
      [] OTHER          -> c

A2R_StreamEnd(c) == Fail(EnsureStart(c))

-----------------------------------------------------------------------------

(* chat -> responses: one message item, one reasoning item, and tool calls *)
(* announced in the order of their indexes once their names are known.     *)
C2R_Push(c, i, val) ==
    Delta([OpenAt(EnsureStart(c), i) EXCEPT !.blk[i].acc = @ \o val], i, val)

Texter == CHOOSE i \in Items : KindOf[i] = "text"
Thinker == CHOOSE i \in Items : KindOf[i] = "think"

\* thinkPrefixDecision on the buffered leading text.
ThinkPrefix(style, buf) ==
    CASE style = "tag" -> "reasoning"
      [] style = "prefix" /\ Len(buf) = 1 -> "more"
      [] OTHER -> "text"

\* splitLeadingThinkBlock: the closing tag comes with the second piece.
C2R_DrainThink(c, i) ==
    IF Len(c.buf) < 2 THEN c
    ELSE C2R_Push(C2R_Push([c EXCEPT !.think = "text", !.buf = <<>>], Thinker, <<Head(c.buf)>>),
                  i, Tail(c.buf))

C2R_Content(c, i, val, style) ==
    LET b == [c EXCEPT !.buf = @ \o val]
        d == ThinkPrefix(style, b.buf)
    IN  CASE c.think = "text" -> C2R_Push(c, i, val)
          [] c.think = "reasoning" -> C2R_DrainThink(b, i)
          [] c.think = "detect" /\ d = "more" -> b
          [] c.think = "detect" /\ d = "reasoning" -> C2R_DrainThink([b EXCEPT !.think = d], i)
          [] OTHER -> C2R_Push([b EXCEPT !.think = "text", !.buf = <<>>], i, b.buf)

C2R_FlushThink(c) ==
    LET d == [c EXCEPT !.think = "text", !.buf = <<>>]
    IN  CASE c.buf = <<>> -> d
          [] c.buf # <<>> /\ c.think = "detect" -> C2R_Push(d, Texter, c.buf)
          [] OTHER -> C2R_Push(d, Thinker, c.buf)

Calls(c) == {i \in Items : IsTool(i) /\ c.blk[i].idx # -1}

C2R_OpenCall(c, i) ==
    Emit(EnsureStart([c EXCEPT !.blk[i].opened = TRUE]), Ev("open", c.blk[i].idx, i, <<>>))

C2R_SendArgs(c, i) ==
    LET b == c.blk[i]
    IN  IF b.sent = Len(b.acc) THEN c
        ELSE Delta([c EXCEPT !.blk[i].sent = Len(b.acc)], i, SubSeq(b.acc, b.sent + 1, Len(b.acc)))

\* openReadyToolCalls: an anonymous call holds back every call behind it.
C2R_OpenReady(c) ==
    LET waiting == {i \in Calls(c) : ~c.blk[i].opened}
        ready == {i \in waiting : \A j \in waiting :
                     c.blk[j].idx <= c.blk[i].idx => c.blk[j].named}
        opened == FoldLeft(C2R_OpenCall, c, ByIndex(c, ready))
    IN  FoldLeft(C2R_SendArgs, opened, ByIndex(opened, {i \in Calls(c) : opened.blk[i].opened}))

C2R_Tool(c, e) ==
    LET i == e.it
        s == IF c.blk[i].idx # -1 THEN c ELSE [c EXCEPT !.blk[i].idx = c.nxt, !.nxt = @ + 1]
    IN  C2R_OpenReady([s EXCEPT !.blk[i].named = @ \/ e.t = "open", !.blk[i].acc = @ \o e.val])

C2R_CloseOne(c, i) ==
    CloseItem(IF IsTool(i) /\ ~c.blk[i].opened THEN C2R_OpenCall(c, i) ELSE c, i)

C2R_Finish(c) ==
    LET f == C2R_FlushThink(EnsureStart([c EXCEPT !.done = TRUE]))
        all == Calls(f) \cup {i \in Items : f.blk[i].opened}
    IN  CASE c.done -> c
          [] ~c.done /\ \E i \in Items : IsTool(i) /\ InvalidArgs(c.blk[i].acc) ->
                 Fail(EnsureStart(c))
          [] OTHER -> Emit(FoldLeft(C2R_CloseOne, f, ByIndex(f, all)), Mark("end"))

C2R_Dispatch(c, e, style) ==
    CASE e.t = "DONE"   -> C2R_Finish(c)
      [] e.t = "error"  -> Fail(EnsureStart(c))
      [] e.t \notin {"DONE", "error"} /\ c.stop -> c
      [] e.t = "reason" /\ ~c.stop -> [c EXCEPT !.stop = TRUE]
      [] e.t \in {"open", "frag"} /\ ~c.stop ->
             CASE IsTool(e.it) -> C2R_Tool(c, e)
               [] KindOf[e.it] = "think" -> IF e.t = "frag" THEN C2R_Push(c, e.it, e.val) ELSE c
               [] OTHER -> IF e.t = "frag" THEN C2R_Content(c, e.it, e.val, style) ELSE c
      [] OTHER -> c

C2R_StreamEnd(c) == IF c.stop THEN C2R_Finish(c) ELSE Fail(EnsureStart(c))
=============================================================================
