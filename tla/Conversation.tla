---------------------------- MODULE Conversation ----------------------------
(***************************************************************************)
(* A client and its conversation through the proxy: the client speaks one  *)
(* dialect for its whole life, every request may go to a target of another *)
(* dialect, the request is converted on the way in and the answer on the   *)
(* way back, and the client replays what it was given on its next request. *)
(* A Responses client may chain its requests by previous_response_id: then *)
(* it sends only what is new, and the proxy expands the chain from its     *)
(* store when the target has no such state.                                *)
(*                                                                         *)
(* Content is numbered: unit 10 t + k was first said in turn t.  k = 0 is  *)
(* the user's text, 1 the assistant's text, 2 its reasoning, 3 and 4 its   *)
(* tool calls, 5 a hosted web search, 6 and 7 the results of calls 3 and 4.*)
(***************************************************************************)
EXTENDS ConvertHistory

CONSTANTS
  MaxTurns,    \* requests the client makes
  Clients,     \* [dialect, chained] of the clients to consider
  Tools,       \* the tools a Responses client declares
  CustomTools, \* those of them that take free-form input
  Shapes       \* what an answer may consist of: [think, text, late, search, calls]

Dialects == {"anthropic", "openai", "responses"}
Plain == <<"", "run", FALSE>>

ASSUME ConversationAssumption ==
  /\ MaxTurns \in Nat \ {0}
  /\ \A c \in Clients : c.dialect \in Dialects /\ c.chained \in BOOLEAN
  /\ CustomTools \subseteq Tools
  /\ Plain \in Tools
  /\ Shapes \subseteq [think : {"no", "plain", "signed"}, text : BOOLEAN,
                       late : BOOLEAN, search : BOOLEAN, calls : 0..2]

VARIABLES
  client,   \* the client: its dialect, and whether it chains its requests
  hist,     \* the conversation as the client knows it, in its dialect
  marks,    \* each answer: its response id, its place in hist, and whether
            \* the target that gave it knew the whole conversation
  phase,    \* whose move it is: "ask", "answer" or "reply"
  turn,     \* requests made so far
  sent,     \* the last request: the target's dialect, what it was sent,
            \* what of it is the client's own, and which tools were declared
  emptyToolIDCounter,  \* placeholders the process has given out
  entries   \* the continuation store: response id -> history

vars == <<client, hist, marks, phase, turn, sent, emptyToolIDCounter, entries>>

Start(c) ==
  LET user == 0 + 10
  IN CASE c.dialect = "anthropic" -> <<Msg("user", <<Text(user)>>)>>
       [] c.dialect = "openai" ->
            <<ChatMsg("system", <<Dot>>, <<>>, <<>>, <<>>),
              ChatMsg("user", <<Text(user)>>, <<>>, <<>>, <<>>)>>
       [] c.dialect = "responses" ->
            <<[t |-> "tools", tools |-> Tools], Item("system", <<Dot>>),
              Item("user", <<Text(user)>>)>>

Nothing == [to |-> "none", req |-> <<>>, own |-> <<>>, declared |-> {}, hit |-> FALSE,
            vision |-> TRUE]

Init ==
  /\ client \in Clients
  /\ hist = Start(client)
  /\ marks = <<>>
  /\ phase = "ask"
  /\ turn = 0
  /\ sent = Nothing
  /\ emptyToolIDCounter = 0
  /\ entries = <<>>

-----------------------------------------------------------------------------
(* responsesRequestTools: what a list of items declares.                   *)
ResponsesRequestTools(items) ==
  UNION {items[i].tools : i \in {j \in DOMAIN items : items[j].t = "tools"}}

(* validateConversionCapabilities: no free-form tool on an Anthropic target *)
Refused(to, items) ==
  /\ client.dialect = "responses"
  /\ to = "anthropic"
  /\ ResponsesRequestTools(items) \cap CustomTools # {}

RepairOrphanedResponsesItems(items) ==
  LET ids(kinds) == {items[i].id : i \in {j \in DOMAIN items : items[j].t \in kinds}}
      fix(it) ==
        CASE it.t = "think" -> <<>>
          [] it.t = "call" /\ it.id \notin ids({"output"}) -> <<>>
          [] it.t = "custom_call" /\ it.id \notin ids({"custom_output"}) -> <<>>
          [] it.t = "output" /\ it.id \notin ids({"call"}) ->
               <<Item("user", <<Text(it.n)>>)>>
          [] it.t = "custom_output" /\ it.id \notin ids({"custom_call"}) ->
               <<Item("user", <<Text(it.n)>>)>>
          [] OTHER -> <<it>>
  IN FlattenSeq([i \in DOMAIN items |-> fix(items[i])])

(* expand: previous_response_id and the new items into a whole history.    *)
Expand_Newest(prev, current) ==
  IF prev = 0 THEN [items |-> current, hit |-> FALSE]
  ELSE IF prev \in DOMAIN entries
  THEN [items |-> entries[CHOOSE e \in DOMAIN entries :
                            \A f \in DOMAIN entries : f <= e] \o current, hit |-> TRUE]
  ELSE [items |-> RepairOrphanedResponsesItems(current), hit |-> FALSE]

Expand(prev, current) ==
  IF prev = 0 THEN [items |-> current, hit |-> FALSE]
  ELSE IF prev \in DOMAIN entries
  THEN [items |-> entries[prev] \o current, hit |-> TRUE]
  ELSE [items |-> RepairOrphanedResponsesItems(current), hit |-> FALSE]

(* convertRequestFor: the request the target gets, and the counter after.  *)
ConvertRequestFor(to, h, vision) ==
  LET same(r) == [req |-> r, ctr |-> emptyToolIDCounter]
      d == client.dialect
  IN CASE d = to -> same(h)
       [] d = "openai" /\ to = "anthropic" ->
            ConvertOpenAIRequestToAnthropic(h, emptyToolIDCounter)
       [] d = "openai" /\ to = "responses" -> same(ConvertOpenAIRequestToResponses(h))
       [] d = "anthropic" /\ to = "openai" ->
            same(ConvertAnthropicRequestToOpenAI(h, vision))
       [] d = "anthropic" /\ to = "responses" ->
            same(ConvertAnthropicRequestToResponses(h, vision))
       [] d = "responses" /\ to = "anthropic" ->
            ConvertResponsesRequestToAnthropic(h, emptyToolIDCounter)
       [] d = "responses" /\ to = "openai" ->
            same(ConvertResponsesRequestToOpenAI(h, vision))

(* The forward path for one target that answers.                           *)
Ask(to, vision) ==
  LET chain == client.chained /\ marks # <<>>
      prev == IF chain THEN Last(marks).id ELSE 0
      own == IF chain THEN SubSeq(hist, Last(marks).len + 1, Len(hist)) ELSE hist
      e == IF client.dialect = "responses" /\ to # "responses"
           THEN Expand(prev, own) ELSE [items |-> hist, hit |-> FALSE]
      c == ConvertRequestFor(to, e.items, vision)
  IN /\ phase = "ask"
     /\ turn < MaxTurns
     /\ ~Refused(to, e.items)
     /\ sent' = [to |-> to, req |-> c.req, own |-> e.items, hit |-> e.hit,
                 vision |-> vision,
                 declared |-> IF client.dialect = "responses"
                              THEN ResponsesRequestTools(own) ELSE {}]
     /\ emptyToolIDCounter' = c.ctr
     /\ turn' = turn + 1
     /\ phase' = "answer"
     /\ UNCHANGED <<client, hist, marks, entries>>

-----------------------------------------------------------------------------
(* What a target may answer, in its own dialect (external).                *)
Offered ==
  CASE client.dialect # "responses" -> {Plain}
    [] sent.to = "openai"    -> {NsFlattenName(t) : t \in Tools}
    [] sent.to = "anthropic" -> {NsFlattenName(t) : t \in Tools \ CustomTools}
    [] sent.to = "responses" -> Tools \ CustomTools

Id(style, i) ==
  CASE style = "legal"  -> <<ToString(turn), i>>
    [] style = "dotted" -> <<ToString(turn), i - 1>>
    [] style = "absent" -> NoId

Answers ==
  LET n == 10 * turn
      styles == CASE sent.to = "anthropic" -> {"legal"}
                  [] sent.to = "responses" -> {"legal", "dotted"}
                  [] sent.to = "openai" -> {"legal", "dotted", "absent"}
      shapes == {s \in Shapes : s.search => sent.to # "openai"}
  IN {[s EXCEPT !.calls = [i \in 1..s.calls |->
                             [n |-> n + 2 + i, id |-> Id(st, i),
                              tool |-> IF i = 1 THEN tool ELSE Plain]]] :
      s \in shapes, st \in styles, tool \in Offered}

Answered(a) ==
  LET n == 10 * turn
      think == IF a.think = "no" THEN <<>> ELSE <<Think(n + 2, a.think = "signed")>>
      text == IF a.text THEN <<Text(n + 1)>> ELSE <<>>
      item == NonEmpty(text, Item("assistant", text))
      search == IF a.search THEN <<Search(n + 5, <<"s", turn>>)>> ELSE <<>>
      uses == [i \in DOMAIN a.calls |->
                 Use(a.calls[i].n, a.calls[i].id, a.calls[i].tool)]
      calls == [i \in DOMAIN a.calls |-> [t |-> "call", n |-> a.calls[i].n,
                 id |-> a.calls[i].id, tool |-> a.calls[i].tool]]
  IN CASE sent.to = "anthropic" ->
            Msg("assistant", think \o (IF a.late THEN <<>> ELSE text) \o search
                              \o uses \o (IF a.late THEN text ELSE <<>>))
       [] sent.to = "openai" ->
            ChatMsg("assistant", text, a.calls, think, <<>>)
       [] sent.to = "responses" ->
            think \o (IF a.late THEN <<>> ELSE item) \o search \o calls
                  \o (IF a.late THEN item ELSE <<>>)

(* convertResponse: what the client appends to its history, and the counter.*)
ConvertResponse(m) ==
  LET d == client.dialect
      plain(x) == [add |-> x, ctr |-> emptyToolIDCounter]
      withCtr(r) == [add |-> <<r.msg>>, ctr |-> r.ctr]
  IN CASE d = sent.to -> plain(IF d = "responses" THEN m ELSE <<m>>)
       [] d = "anthropic" /\ sent.to = "openai" ->
            withCtr(ConvertOpenAIResponseToAnthropic(m, emptyToolIDCounter))
       [] d = "anthropic" /\ sent.to = "responses" ->
            withCtr(ConvertResponsesToAnthropic(m, emptyToolIDCounter))
       [] d = "openai" /\ sent.to = "anthropic" ->
            plain(<<ConvertAnthropicResponseToOpenAI(m)>>)
       [] d = "openai" /\ sent.to = "responses" ->
            plain(<<ConvertResponsesToOpenAI(m)>>)
       [] d = "responses" /\ sent.to = "anthropic" ->
            plain(ConvertAnthropicResponseToResponses(m, sent.declared))
       [] d = "responses" /\ sent.to = "openai" ->
            plain(ConvertOpenAIResponseToResponses(m, sent.declared, CustomTools))

(* recordResponse: only complete answers to a converted request.           *)
RecordResponse(add, complete) ==
  IF client.dialect = "responses" /\ sent.to # "responses" /\ complete
  THEN [i \in DOMAIN entries \cup {turn} |->
          IF i = turn THEN sent.own \o add ELSE entries[i]]
  ELSE entries

Answer(a, complete) ==
  LET c == ConvertResponse(Answered(a))
  IN /\ phase = "answer"
     /\ turn < MaxTurns
     /\ complete \/ client.chained
     /\ hist' = hist \o c.add
     /\ emptyToolIDCounter' = c.ctr
     /\ entries' = RecordResponse(c.add, complete)
     /\ marks' = Append(marks, [id |-> turn, from |-> Len(hist) + 1,
                                len |-> Len(hist'), whole |-> sent.own = hist])
     /\ phase' = "reply"
     /\ UNCHANGED <<client, turn, sent>>

-----------------------------------------------------------------------------
(* The client's next move (external): it answers every call of the last    *)
(* answer, in its dialect, or it goes on talking.                          *)
CallsOf(d, m) ==
  CASE d = "anthropic" -> Of(m.blocks, {"use"})
    [] d = "openai" -> m.calls
    [] d = "responses" -> Of(m, {"call", "custom_call"})

LastAnswer ==
  LET m == Last(marks)
  IN IF client.dialect = "responses" THEN SubSeq(hist, m.from, m.len) ELSE hist[m.len]

Reply(img, err) ==
  \* what the first of the tools returns: a picture, an error, or text
  LET calls == CallsOf(client.dialect, LastAnswer)
      n(c) == c.n + 3
      first(i) == i = 1
      talk == Text(10 * (turn + 1))
      said ==
        CASE client.dialect = "anthropic" ->
               <<Msg("user", IF calls = <<>> THEN <<talk>>
                             ELSE [i \in DOMAIN calls |->
                                     Result(n(calls[i]), calls[i].id, img /\ first(i),
                                            err /\ first(i))])>>
          [] client.dialect = "openai" ->
               IF calls = <<>> THEN <<ChatMsg("user", <<talk>>, <<>>, <<>>, <<>>)>>
               ELSE [i \in DOMAIN calls |->
                       ToolMsg(n(calls[i]), calls[i].id, err /\ first(i))]
          [] client.dialect = "responses" ->
               IF calls = <<>> THEN <<Item("user", <<talk>>)>>
               ELSE [i \in DOMAIN calls |->
                       [t |-> IF calls[i].t = "call" THEN "output" ELSE "custom_output",
                        n |-> n(calls[i]), id |-> calls[i].id,
                        img |-> img /\ first(i), err |-> err /\ first(i)]]
  IN /\ phase = "reply"
     /\ ~(img /\ err)
     /\ calls = <<>> => ~img /\ ~err
     /\ hist' = hist \o said
     /\ phase' = "ask"
     /\ UNCHANGED <<client, marks, turn, sent, emptyToolIDCounter, entries>>

(* The client goes back to an earlier answer and takes another way.        *)
Fork(i) ==
  /\ phase = "reply"
  /\ i < Len(marks)
  /\ hist' = SubSeq(hist, 1, marks[i].len)
  /\ marks' = SubSeq(marks, 1, i)
  /\ UNCHANGED <<client, phase, turn, sent, emptyToolIDCounter, entries>>

(* The process restarts, or the store drops what is old: chains are lost.  *)
Lose ==
  /\ phase = "ask"
  /\ entries # <<>>
  /\ entries' = <<>>
  /\ emptyToolIDCounter' = 0
  /\ UNCHANGED <<client, hist, marks, phase, turn, sent>>

Done == phase = "answer" /\ turn = MaxTurns /\ UNCHANGED vars

Next ==
  \/ \E to \in Dialects, vision \in BOOLEAN : Ask(to, vision)
  \/ phase = "answer" /\ \E a \in Answers, complete \in BOOLEAN : Answer(a, complete)
  \/ \E img, err \in BOOLEAN : Reply(img, err)
  \/ \E i \in DOMAIN marks : Fork(i)
  \/ Lose
  \/ Done

Spec == Init /\ [][Next]_vars

-----------------------------------------------------------------------------
(* The units of content of a history: kind, number, id, error flag.        *)
Unit(k, n, id, err) == [k |-> k, n |-> n, id |-> id, err |-> err]

PartUnits(parts) ==
  [i \in DOMAIN parts |-> Unit(parts[i].t, parts[i].n, NoId, FALSE)]

BlockUnits(b) ==
  CASE b.t \in {"text", "image"} -> PartUnits(<<b>>)
    [] b.t \in {"use", "call", "custom_call"} -> <<Unit("call", b.n, b.id, FALSE)>>
    [] b.t = "search" -> <<Unit("call", b.n, b.id, FALSE), Unit("result", 0, b.id, FALSE)>>
    [] b.t \in {"result", "output", "custom_output"} ->
         <<Unit("result", b.n, b.id, b.err)>>
         \o IF b.img THEN <<Unit("image", b.n, NoId, FALSE)>> ELSE <<>>
    [] b.t = "message" -> PartUnits(b.parts)
    [] b.t \in {"think", "tools"} -> <<>>

MsgUnits(d, m) ==
  CASE d = "anthropic" -> FlattenSeq([i \in DOMAIN m.blocks |-> BlockUnits(m.blocks[i])])
    [] d = "responses" -> BlockUnits(m)
    [] d = "openai" ->
         IF m.role = "tool" THEN <<Unit("result", m.n, m.id, m.err)>>
         ELSE PartUnits(m.parts)
              \o [i \in DOMAIN m.calls |-> Unit("call", m.calls[i].n, m.calls[i].id, FALSE)]

Units(d, h) ==
  SelectSeq(FlattenSeq([i \in DOMAIN h |-> MsgUnits(d, h[i])]),
            LAMBDA u : u.n # 0 \/ u.k = "result")

Converted == phase = "answer" /\ sent.to # client.dialect

Spoken(h) == {<<u.k, u.n>> : u \in {v \in ToSet(Units(client.dialect, h)) : v.n # 0}}
Arrived == Units(sent.to, sent.req)

(* Everything the client said, was told and was answered arrives at the    *)
(* target once, in the order of the conversation, whatever dialects its    *)
(* earlier turns went through: no text, call or result is lost, repeated   *)
(* or moved across a turn.  Images alone may go, to a target without       *)
(* vision; free-form calls go with their results (both or neither).        *)
ContentKept ==
  Converted =>
    LET arrived == SelectSeq(Arrived, LAMBDA u : u.n # 0)
        got == {<<arrived[i].k, arrived[i].n>> : i \in DOMAIN arrived}
        said == Spoken(sent.own)
        seen == {x \in said : x[1] = "image" /\ ~sent.vision}
    IN /\ got \subseteq said
       /\ said \ seen \subseteq got
       /\ Len(arrived) = Cardinality(got)
       /\ \A i \in 1..Len(arrived) - 1 : arrived[i].n \div 10 <= arrived[i + 1].n \div 10

(* A result still answers its own call after the conversion: it carries    *)
(* the id the call was given, and it still says whether the tool failed.   *)
PairingKept ==
  Converted =>
    \A r, c \in ToSet(Arrived) :
      (r.k = "result" /\ c.k = "call" /\ r.n = c.n + 3)
        => /\ r.id = c.id
           /\ \A u \in ToSet(Units(client.dialect, sent.own)) :
                (u.k = "result" /\ u.n = r.n) => u.err = r.err

(* The rules of an Anthropic target: the user speaks first, the roles      *)
(* alternate, ids are legal and, as far as the client's own ids were,      *)
(* distinct, and a result stands in the message after its call's.          *)
AnthropicAccepts ==
  (Converted /\ sent.to = "anthropic") =>
    LET req == sent.req
        ids(i, k) == {b.id : b \in ToSet(Of(req[i].blocks, {k}))}
        uses == SelectSeq(Arrived, LAMBDA u : u.k = "call" /\ u.n % 10 # 5)
        own == SelectSeq(Units(client.dialect, sent.own), LAMBDA u : u.k = "call")
        distinct(s) == \A i, j \in DOMAIN s : i # j => s[i].id # s[j].id
    IN /\ req[1].role = "user"
       /\ \A i \in 1..Len(req) - 1 : req[i].role # req[i + 1].role
       /\ \A i \in DOMAIN req : req[i].blocks # <<>>
       /\ \A i \in DOMAIN req : ids(i, "result") \subseteq (IF i = 1 THEN {} ELSE ids(i - 1, "use"))
       /\ \A i \in 1..Len(req) - 1 : ids(i, "use") \subseteq ids(i + 1, "result")
       /\ \A i \in DOMAIN uses : uses[i].id[2] # 0
       /\ distinct(SelectSeq(own, LAMBDA u : u.id # NoId)) => distinct(uses)

(* The rules of a chat target: a tool message answers a call of the last   *)
(* assistant message, and every call has its answer there.  Two things the *)
(* proxy sends that a strict target refuses are set apart: a picture is    *)
(* re-delivered right behind its result, also where another result of the  *)
(* same answer follows (ResultsAdjacent), and a hosted search of a         *)
(* Responses history is a call that nothing answers.                       *)
Reinjected(m) == m.role = "user" /\ m.parts[1] = Dot
Behind(i, j, also(_)) == \A k \in i + 1..j - 1 : sent.req[k].role = "tool" \/ also(sent.req[k])
AnswersCall(i, j) ==
  /\ sent.req[i].role = "assistant" /\ sent.req[j].role = "tool"
  /\ sent.req[j].id \in {c.id : c \in ToSet(sent.req[i].calls)}
HostedSearch(c) == client.dialect = "responses" /\ c.tool = WebSearch

ChatAccepts ==
  (Converted /\ sent.to = "openai") =>
    LET req == sent.req
    IN /\ \A j \in DOMAIN req : req[j].role = "tool" =>
            \E i \in 1..j - 1 : AnswersCall(i, j) /\ Behind(i, j, Reinjected)
       /\ \A i \in DOMAIN req : req[i].role = "assistant" =>
            \A c \in ToSet(req[i].calls) : HostedSearch(c) \/
              \E j \in i + 1..Len(req) :
                AnswersCall(i, j) /\ req[j].id = c.id /\ Behind(i, j, Reinjected)

(* Every history a client may have, through targets of any dialects, makes *)
(* a request that the next target's rules accept, but for the two cases    *)
(* ChatAccepts names.                                                      *)
TargetAccepts == AnthropicAccepts /\ ChatAccepts

(* Strict chat targets "reject non-adjacent tool messages": every result   *)
(* follows its call with nothing but results between                       *)
(* (convert_responses_request_from.go:684).                                *)
ResultsAdjacent ==
  (Converted /\ sent.to = "openai") =>
    \A j \in DOMAIN sent.req : sent.req[j].role = "tool" =>
      \E i \in 1..j - 1 : AnswersCall(i, j) /\ Behind(i, j, LAMBDA m : FALSE)

(* previous_response_id that the store still holds gives the target the    *)
(* conversation the client has in mind, also after it went back to an      *)
(* earlier answer, if the turn it names had it: a chain that was once      *)
(* missed (a restart, a turn that was not recorded) stays cut off.         *)
ChainFaithful ==
  (phase = "answer" /\ sent.hit /\ Last(marks).whole) => sent.own = hist

=============================================================================
