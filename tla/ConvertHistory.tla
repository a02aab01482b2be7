--------------------------- MODULE ConvertHistory ---------------------------
(***************************************************************************)
(* The request and response converters between the three dialects of a     *)
(* chat history: Anthropic Messages ("anthropic"), OpenAI Chat Completions *)
(* ("openai") and OpenAI Responses ("responses").  A history is kept in    *)
(* the shape its dialect gives it (messages of blocks, messages with tool  *)
(* calls beside them, a flat list of items); the text itself is only a     *)
(* number n, which no converter looks at: it names the unit of content, so *)
(* that a property can follow a unit through a conversion.                 *)
(***************************************************************************)
EXTENDS Naturals, Sequences, FiniteSets, SequencesExt

(***************************************************************************)
(* Tool-call ids.  <<b, 0>> holds a character Anthropic does not allow     *)
(* ("call.a"), <<b, 1>> is the same id in legal characters ("call_a"),     *)
(* <<b, k>> for k > 1 is the legal id with the suffix _k.                   *)
(***************************************************************************)
NoId == <<"none", 0>>

(* The synthetic parts the converters add: they stand for no content.      *)
Dot == [t |-> "text", n |-> 0]

Text(n) == [t |-> "text", n |-> n]
Think(n, sig) == [t |-> "think", n |-> n, sig |-> sig]
Use(n, id, tool) == [t |-> "use", n |-> n, id |-> id, tool |-> tool]
Result(n, id, img, err) ==
  [t |-> "result", n |-> n, id |-> id, img |-> img, err |-> err]
Search(n, id) == [t |-> "search", n |-> n, id |-> id]

Msg(role, blocks) == [role |-> role, blocks |-> blocks]
ChatMsg(role, parts, calls, think, details) ==
  [role |-> role, parts |-> parts, calls |-> calls, think |-> think,
   details |-> details]
ToolMsg(n, id, err) == [role |-> "tool", n |-> n, id |-> id, err |-> err]
Item(role, parts) == [t |-> "message", role |-> role, parts |-> parts]

(***************************************************************************)
(* Tools.  <<ns, name, flat>>: a tool of MCP namespace ns ("" for none);   *)
(* flat is TRUE when the name is the namespace and the name in one string. *)
(***************************************************************************)
WebSearch == <<"", "web_search", FALSE>>

NsFlattenName(tool) == IF tool[1] = "" THEN tool ELSE <<tool[1], tool[2], TRUE>>

RestoreName(declared, tool) ==
  IF tool[3] /\ <<tool[1], tool[2], FALSE>> \in declared
  THEN <<tool[1], tool[2], FALSE>> ELSE tool

Of(s, kinds) == SelectSeq(s, LAMBDA x : x.t \in kinds)
NonEmpty(s, x) == IF s = <<>> THEN <<>> ELSE <<x>>

-----------------------------------------------------------------------------
(* toolIDNormalizer.  ctr is the process-wide counter of placeholders.     *)
Norm0(ctr) ==
  [map |-> <<>>, used |-> {}, empties |-> <<>>, taken |-> 0, ctr |-> ctr]

SanitizeToolUseID(id) == IF id[2] = 0 THEN <<id[1], 1>> ELSE id

NormUse_NoSuffix(nm, id) ==
  IF id = NoId
  THEN LET p == <<"empty", nm.ctr + 1>>
       IN [norm |-> [nm EXCEPT !.ctr = @ + 1, !.empties = Append(@, p)],
           id |-> p]
  ELSE [norm |-> nm, id |-> SanitizeToolUseID(id)]

NormUse(nm, id) ==
  IF id = NoId
  THEN LET p == <<"empty", nm.ctr + 1>>
       IN [norm |-> [nm EXCEPT !.ctr = @ + 1, !.empties = Append(@, p)],
           id |-> p]
  ELSE IF id \in DOMAIN nm.map THEN [norm |-> nm, id |-> nm.map[id]]
  ELSE LET s == SanitizeToolUseID(id)
           free(k) == <<s[1], k>> \notin nm.used
           p == IF s \notin nm.used THEN s
                ELSE <<s[1], CHOOSE k \in 2..Cardinality(nm.used) + 2 :
                               free(k) /\ \A j \in 2..k - 1 : ~free(j)>>
       IN [norm |-> [nm EXCEPT !.used = @ \cup {p},
                               !.map = [i \in DOMAIN @ \cup {id} |->
                                          IF i = id THEN p ELSE @[i]]],
           id |-> p]

NormResult_Fresh(nm, id) == NormUse(nm, id)

NormResult(nm, id) ==
  IF id = NoId /\ nm.taken < Len(nm.empties)
  THEN [norm |-> [nm EXCEPT !.taken = @ + 1], id |-> nm.empties[nm.taken + 1]]
  ELSE NormUse(nm, id)

-----------------------------------------------------------------------------
(* Shared by the two directions into Anthropic.                            *)
MergeConsecutiveAnthropicRoles(msgs) ==
  FoldLeft(LAMBDA out, m :
             IF out # <<>> /\ Last(out).role = m.role
             THEN [out EXCEPT ![Len(out)].blocks = @ \o m.blocks]
             ELSE Append(out, m),
           <<>>, msgs)

FirstIsUser(msgs) ==
  IF msgs # <<>> /\ msgs[1].role # "user"
  THEN <<Msg("user", <<Dot>>)>> \o msgs ELSE msgs

-----------------------------------------------------------------------------
(* request: openai -> anthropic                                            *)
C2A_AddMsg(acc, role, blocks) ==
  [acc EXCEPT !.msgs = @ \o NonEmpty(blocks, Msg(role, blocks))]

C2A_FlushPendingTool(acc) ==
  LET step(a, tm) ==
        LET r == NormResult(a.norm, tm.id)
        IN [a EXCEPT !.norm = r.norm,
                     !.blocks = Append(@, Result(tm.n, r.id, FALSE, tm.err))]
      f == FoldLeft(step, [norm |-> acc.norm, blocks |-> <<>>], acc.pend)
  IN C2A_AddMsg([acc EXCEPT !.norm = f.norm, !.pend = <<>>], "user", f.blocks)

ChatAnthropicThinkingReplay(m) == SelectSeq(m.details, LAMBDA d : d.sig)

C2A_Assistant(acc, m) ==
  LET step(a, c) ==
        LET r == NormUse(a.norm, c.id)
        IN [a EXCEPT !.norm = r.norm,
                     !.blocks = Append(@, Use(c.n, r.id, c.tool))]
      f == FoldLeft(step, [norm |-> acc.norm,
                           blocks |-> ChatAnthropicThinkingReplay(m) \o m.parts],
                    m.calls)
  IN C2A_AddMsg([acc EXCEPT !.norm = f.norm], "assistant", f.blocks)

C2A_Step(acc, m) ==
  CASE m.role = "system" -> acc
    [] m.role = "tool"   -> [acc EXCEPT !.pend = Append(@, m)]
    [] m.role = "user"   -> C2A_AddMsg(C2A_FlushPendingTool(acc), "user", m.parts)
    [] m.role = "assistant" -> C2A_Assistant(C2A_FlushPendingTool(acc), m)

ConvertOpenAIRequestToAnthropic(h, ctr) ==
  LET f == C2A_FlushPendingTool(
             FoldLeft(C2A_Step,
                      [msgs |-> <<>>, pend |-> <<>>, norm |-> Norm0(ctr)], h))
  IN [req |-> FirstIsUser(MergeConsecutiveAnthropicRoles(f.msgs)),
      ctr |-> f.norm.ctr]

-----------------------------------------------------------------------------
(* request: anthropic -> openai                                            *)
Image(n) == [t |-> "image", n |-> n]

A2C_Assistant(m) ==
  LET call(b) == [n |-> b.n, id |-> b.id,
                  tool |-> IF b.t = "use" THEN b.tool ELSE WebSearch]
      calls == Of(m.blocks, {"use", "search"})
      hosted == Of(m.blocks, {"search"})
  IN <<ChatMsg("assistant", Of(m.blocks, {"text", "image"}),
               [i \in DOMAIN calls |-> call(calls[i])],
               Of(m.blocks, {"think"}), <<>>)>>
     \o [i \in DOMAIN hosted |-> ToolMsg(0, hosted[i].id, FALSE)]

A2C_User(m, imageOK) ==
  LET parts == Of(m.blocks, {"text", "image"})
      result(b) ==
        <<ToolMsg(b.n, b.id, b.err)>>
        \o IF b.img /\ imageOK
           THEN <<ChatMsg("user", <<Dot, Image(b.n)>>, <<>>, <<>>, <<>>)>>
           ELSE <<>>
      results == Of(m.blocks, {"result"})
  IN FlattenSeq([i \in DOMAIN results |-> result(results[i])])
     \o NonEmpty(parts, ChatMsg("user", parts, <<>>, <<>>, <<>>))

ConvertAnthropicRequestToOpenAI(h, imageOK) ==
  FlattenSeq([i \in DOMAIN h |->
                IF h[i].role = "assistant" THEN A2C_Assistant(h[i])
                ELSE A2C_User(h[i], imageOK)])

-----------------------------------------------------------------------------
(* request: responses -> anthropic                                         *)
R2A_Step(acc, it) ==
  LET add(a, role, blocks) == [a EXCEPT !.msgs = Append(@, Msg(role, blocks))]
  IN CASE it.t = "message" ->
            IF it.role = "system" \/ it.parts = <<>> THEN acc
            ELSE add(acc, it.role, it.parts)
       [] it.t = "call" ->
            LET r == NormUse(acc.norm, it.id)
            IN add([acc EXCEPT !.norm = r.norm], "assistant",
                   <<Use(it.n, r.id, NsFlattenName(it.tool))>>)
       [] it.t = "output" ->
            LET r == NormResult(acc.norm, it.id)
            IN add([acc EXCEPT !.norm = r.norm], "user",
                   <<Result(it.n, r.id, it.img, it.err)>>)
       [] it.t = "search" -> add(acc, "assistant", <<Search(it.n, it.id)>>)
       [] it.t = "think"  -> add(acc, "assistant", <<Think(it.n, it.sig)>>)
       [] it.t \in {"custom_call", "custom_output", "tools"} -> acc

ConvertResponsesRequestToAnthropic(items, ctr) ==
  LET f == FoldLeft(R2A_Step, [msgs |-> <<>>, norm |-> Norm0(ctr)], items)
  IN [req |-> FirstIsUser(MergeConsecutiveAnthropicRoles(f.msgs)),
      ctr |-> f.norm.ctr]

-----------------------------------------------------------------------------
(* request: responses -> openai.  The walk: msgs built so far, reasoning   *)
(* waiting for an assistant message, the index of the last one (0: none).  *)
HasCalls(msgs) ==
  msgs # <<>> /\ Last(msgs).role = "assistant" /\ Last(msgs).calls # <<>>

AttachForward(w) ==
  IF w.think = <<>> THEN w
  ELSE [w EXCEPT !.msgs[w.last].think = w.think, !.think = <<>>]

AttachBackward(w) ==
  IF w.think # <<>> /\ w.last # 0
  THEN [w EXCEPT !.msgs[w.last].think = @ \o w.think, !.think = <<>>]
  ELSE [w EXCEPT !.think = <<>>]

AddAssistant(w, m) ==
  AttachForward([w EXCEPT !.msgs = Append(@, m), !.last = Len(w.msgs) + 1])

AddMessage(w, it) ==
  CASE it.role # "assistant" ->
         LET b == AttachBackward(w)
         IN [b EXCEPT !.msgs =
               Append(@, ChatMsg(it.role, it.parts, <<>>, <<>>, <<>>))]
    [] it.role = "assistant" /\ HasCalls(w.msgs) /\ it.parts # <<>> ->
         AttachBackward([w EXCEPT !.msgs[Len(w.msgs)].parts = @ \o it.parts])
    [] OTHER ->
         AddAssistant(w, ChatMsg("assistant", it.parts, <<>>, <<>>, <<>>))

AddToolCall(w, it) ==
  LET c == [n |-> it.n, id |-> it.id,
            tool |-> IF it.t = "search" THEN WebSearch ELSE NsFlattenName(it.tool)]
  IN IF HasCalls(w.msgs)
     THEN [w EXCEPT !.msgs[Len(w.msgs)].calls = Append(@, c)]
     ELSE AddAssistant(w, ChatMsg("assistant", <<>>, <<c>>, <<>>, <<>>))

AddToolOutput(w, it, imageOK) ==
  [w EXCEPT !.msgs =
     @ \o <<ToolMsg(it.n, it.id, it.err)>>
       \o IF it.img /\ imageOK
          THEN <<ChatMsg("user", <<Dot, Image(it.n)>>, <<>>, <<>>, <<>>)>>
          ELSE <<>>]

AddReasoning(w, it) == [w EXCEPT !.think = Append(@, Think(it.n, FALSE))]

R2C_Finish(w) ==
  LET a == IF w.think = <<>> THEN w
           ELSE IF w.last # 0 THEN AttachBackward(w)
           ELSE [w EXCEPT !.msgs =
                   Append(@, ChatMsg("assistant", <<>>, <<>>, w.think, <<>>))]
      head(m) == m.role = "system"
      rest(m) == m.role # "system"
  IN SelectSeq(a.msgs, head) \o SelectSeq(a.msgs, rest)

ConvertResponsesRequestToOpenAI(items, imageOK) ==
  LET step(w, it) ==
        CASE it.t = "message" -> AddMessage(w, it)
          [] it.t \in {"call", "custom_call", "search"} -> AddToolCall(w, it)
          [] it.t \in {"output", "custom_output"} -> AddToolOutput(w, it, imageOK)
          [] it.t = "think" -> AddReasoning(w, it)
          [] it.t = "tools" -> w
  IN R2C_Finish(FoldLeft(step, [msgs |-> <<>>, think |-> <<>>, last |-> 0], items))

-----------------------------------------------------------------------------
(* request: anthropic -> responses.  parts collect into one message item   *)
(* until another kind of block flushes them.                               *)
A2R_Flush_Late(acc, role) ==
  IF acc.items # <<>> THEN acc
  ELSE [acc EXCEPT !.items = @ \o NonEmpty(acc.parts, Item(role, acc.parts)),
                   !.parts = <<>>]

A2R_Flush(acc, role) ==
  [acc EXCEPT !.items = @ \o NonEmpty(acc.parts, Item(role, acc.parts)),
              !.parts = <<>>]

A2R_Block(acc, role, b, imageOK) ==
  LET f == A2R_Flush(acc, role)
      item(x) == [f EXCEPT !.items = Append(@, x)]
  IN CASE b.t \in {"text", "image"} -> [acc EXCEPT !.parts = Append(@, b)]
       [] b.t = "use" -> item([t |-> "call", n |-> b.n, id |-> b.id, tool |-> b.tool])
       [] b.t = "search" -> item(Search(b.n, b.id))
       [] b.t = "think" -> item(b)
       [] b.t = "result" ->
            LET o == item([t |-> "output", n |-> b.n, id |-> b.id,
                           img |-> FALSE, err |-> b.err])
            IN IF b.img /\ imageOK
               THEN [o EXCEPT !.items = Append(@, Item("user", <<Dot, Image(b.n)>>))]
               ELSE o

A2R_Msg(m, imageOK) ==
  A2R_Flush(FoldLeft(LAMBDA a, b : A2R_Block(a, m.role, b, imageOK),
                     [items |-> <<>>, parts |-> <<>>], m.blocks), m.role).items

DropOrphanReasoningItems(items) ==
  IF \E i \in DOMAIN items : items[i].t \in {"message", "call"} THEN items
  ELSE SelectSeq(items, LAMBDA it : it.t # "think")

ConvertAnthropicRequestToResponses(h, imageOK) ==
  FlattenSeq([i \in DOMAIN h |->
                LET items == A2R_Msg(h[i], imageOK)
                IN IF h[i].role = "assistant"
                   THEN DropOrphanReasoningItems(items) ELSE items])

-----------------------------------------------------------------------------
(* request: openai -> responses                                            *)
ChatMsgToResponsesItems(m) ==
  IF m.role = "tool"
  THEN <<[t |-> "output", n |-> m.n, id |-> m.id, img |-> FALSE, err |-> m.err]>>
  ELSE (IF m.think = <<>> THEN <<>> ELSE <<Think(Last(m.think).n, FALSE)>>)
       \o NonEmpty(m.parts, Item(m.role, m.parts))
       \o [i \in DOMAIN m.calls |->
             [t |-> "call", n |-> m.calls[i].n, id |-> m.calls[i].id,
              tool |-> m.calls[i].tool]]

ConvertOpenAIRequestToResponses(h) ==
  LET spoken == SelectSeq(h, LAMBDA m : m.role # "system")
  IN FlattenSeq([i \in DOMAIN spoken |-> ChatMsgToResponsesItems(spoken[i])])

-----------------------------------------------------------------------------
(* responses.  An answer is one assistant message of the target's dialect. *)
ConvertOpenAIResponseToAnthropic(m, ctr) ==
  LET step(a, c) ==
        IF c.id = NoId
        THEN [a EXCEPT !.ctr = @ + 1,
                       !.blocks = Append(@, Use(c.n, <<"empty", a.ctr + 1>>, c.tool))]
        ELSE [a EXCEPT !.blocks = Append(@, Use(c.n, SanitizeToolUseID(c.id), c.tool))]
      think == IF m.think = <<>> THEN <<>> ELSE <<Think(Last(m.think).n, FALSE)>>
      f == FoldLeft(step, [blocks |-> think \o m.parts, ctr |-> ctr], m.calls)
  IN [msg |-> Msg("assistant", IF f.blocks = <<>> THEN <<Dot>> ELSE f.blocks),
      ctr |-> f.ctr]

ConvertAnthropicResponseToOpenAI(m) ==
  LET calls == Of(m.blocks, {"use"})
      think == Of(m.blocks, {"think"})
  IN ChatMsg("assistant", Of(m.blocks, {"text"}),
             [i \in DOMAIN calls |->
                [n |-> calls[i].n, id |-> calls[i].id, tool |-> calls[i].tool]],
             think, SelectSeq(think, LAMBDA b : b.sig))

ConvertResponsesToAnthropic(items, ctr) ==
  LET step(a, it) ==
        CASE it.t = "message" -> [a EXCEPT !.blocks = @ \o it.parts]
          [] it.t = "call" ->
               LET r == NormUse(a.norm, it.id)
               IN [a EXCEPT !.norm = r.norm,
                            !.blocks = Append(@, Use(it.n, r.id, it.tool))]
          [] it.t \in {"search", "think"} -> [a EXCEPT !.blocks = Append(@, it)]
      f == FoldLeft(step, [blocks |-> <<>>, norm |-> Norm0(ctr)], items)
  IN [msg |-> Msg("assistant", IF f.blocks = <<>> THEN <<Dot>> ELSE f.blocks),
      ctr |-> f.norm.ctr]

ConvertResponsesToOpenAI(items) ==
  LET texts == Of(items, {"message"})
      calls == Of(items, {"call", "search"})
      think == Of(items, {"think"})
  IN ChatMsg("assistant", FlattenSeq([i \in DOMAIN texts |-> texts[i].parts]),
             [i \in DOMAIN calls |->
                [n |-> calls[i].n, id |-> calls[i].id,
                 tool |-> IF calls[i].t = "search" THEN WebSearch
                          ELSE calls[i].tool]],
             [i \in DOMAIN think |-> Think(think[i].n, FALSE)], <<>>)

(* declared: the tools of the request as the client sent it (r2cCtx).      *)
ConvertAnthropicResponseToResponses(m, declared) ==
  LET items == A2R_Msg(m, TRUE)
      named(it) == IF it.t = "call"
                   THEN [it EXCEPT !.tool = RestoreName(declared, @)] ELSE it
  IN IF items = <<>> THEN <<Item("assistant", <<Dot>>)>>
     ELSE [i \in DOMAIN items |-> named(items[i])]

ConvertOpenAIResponseToResponses(m, declared, custom) ==
  LET item(i) ==
        LET c == m.calls[i]
            id == IF c.id = NoId THEN <<"fc_item", i>> ELSE c.id
        IN IF c.tool \in custom \cap declared
           THEN [t |-> "custom_call", n |-> c.n, id |-> id, tool |-> c.tool]
           ELSE [t |-> "call", n |-> c.n, id |-> id, tool |-> RestoreName(declared, c.tool)]
      text == NonEmpty(m.parts, Item("assistant", m.parts))
      think == IF m.think = <<>> THEN <<>> ELSE <<Think(Last(m.think).n, FALSE)>>
      items == text \o think \o [i \in DOMAIN m.calls |-> item(i)]
  IN IF items = <<>> THEN <<Item("assistant", <<Dot>>)>> ELSE items
=============================================================================
