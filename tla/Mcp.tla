-------------------------------- MODULE Mcp --------------------------------
(***************************************************************************)
(* The MCP gateway: client sessions bound to one server or to a route over *)
(* several, the registry of child processes that serve the stdio ones, the *)
(* calls multiplexed over a child's pipes, and the operator's freeze of an *)
(* account.                                                                *)
(*                                                                         *)
(* "std" is a stdio server and "web" an HTTP server; clients address both  *)
(* directly and through a route over the two.  A registry key is a session *)
(* and the server, "" when the session is the server's own.  A message of  *)
(* a call is its JSON-RPC id and the call's own number, which the code     *)
(* does not have.                                                          *)
(***************************************************************************)
EXTENDS McpSessions, Functions

CONSTANTS
  Handlers,   \* requests that are served at the same time
  Accounts,   \* accounts of the provider behind the three servers
  Cap,        \* mcpStdioPerServerCap
  MaxReqs,    \* requests in a behaviour
  MaxConns,   \* children in a behaviour
  MaxFaults   \* freezes, deaths, hangs and expiries in a behaviour

Nobody == "nobody"   \* who holds a lock that is free

ASSUME McpAssumption ==
  /\ Cap \in Nat \ {0} /\ {MaxReqs, MaxConns, MaxFaults} \subseteq Nat
  /\ Nobody \notin Handlers /\ {"", "none"} \cap Accounts = {}

VARIABLES
  h,        \* the handlers
  reg,      \* mcpStdioRegistry.conns: key -> child
  spawn,    \* mcpStdioRegistry.spawns: key -> the handler that holds it
  child,    \* the children, in the order of their start
  frozen,   \* accounts that the operator froze
  faults,   \* freezes, deaths, hangs and expiries so far
  count,    \* requests so far
  misuse,   \* requests that used an account frozen before they came
  mixed     \* requests that got the answer of another call

procVars == <<reg, spawn, child>>
seenVars == <<misuse, mixed>>
envVars == <<frozen, faults, count>>
vars == <<lru, sess, idle, minted, h, reg, spawn, child, frozen,
          faults, count, misuse, mixed>>

Route == "route"
Targets == <<"std", "web">>
Conns == 1 .. Len(child)

Free == [op |-> "", pc |-> "free", sid |-> 0, cands |-> <<>>, got |-> {},
         conn |-> 0, id |-> 0, n |-> 0, acct |-> "", then |-> "",
         fire |-> {}, fz |-> {}]

Init ==
  /\ InitTable
  /\ h = [r \in Handlers |-> Free]
  /\ reg = <<>> /\ spawn = <<>> /\ child = <<>>
  /\ frozen = {} /\ faults = 0 /\ count = 0
  /\ misuse = {} /\ mixed = {}

\* A handler runs the eviction callbacks of its last access to the table
\* before it does anything else.
At(r, pc) == h[r].pc = pc /\ h[r].fire = {}
Set(r, rec) == h' = [h EXCEPT ![r] = rec]
Goto(r, pc) == Set(r, [h[r] EXCEPT !.pc = pc])
Finish(r, gone) == Set(r, IF gone = {} THEN Free
                          ELSE [Free EXCEPT !.pc = "end", !.fire = gone])

Up(c) == child[c].st # "dead"
Closed(C) == [c \in Conns |-> IF c \in C
                             THEN [child[c] EXCEPT !.st = "dead", !.owed = {}]
                             ELSE child[c]]
Registered(keys) == {reg[k] : k \in keys \cap DOMAIN reg}
Kill(keys) ==
  /\ reg' = Restrict(reg, DOMAIN reg \ keys)
  /\ child' = Closed(Registered(keys))
KeysOf(id) == {k \in DOMAIN reg : k[1] = id}
Bind(f, k, v) == [x \in DOMAIN f \cup {k} |-> IF x = k THEN v ELSE f[x]]

\* registry.put below the cap: the child it replaces is closed.
Register(key, c) ==
  /\ reg' = Bind(reg, key, c)
  /\ child' = Closed(Registered({key}))

\* mcpOnMCPSessionEvict, run outside the table's lock.
Evict(r) ==
  /\ h[r].fire # {}
  /\ Kill(UNION {KeysOf(i) : i \in h[r].fire})
  /\ Set(r, IF h[r].pc = "end" THEN Free ELSE [h[r] EXCEPT !.fire = {}])
  /\ UNCHANGED <<tableVars, spawn, envVars, seenVars>>

Healthy == Accounts \ frozen

\* A direct request to the stdio server, a message of a route's client that
\* is passed on to the servers (a notification, the end of the session), or
\* any other request.
Way(r) == IF h[r].op \in {"init", "call"} THEN "direct"
          ELSE IF h[r].op \in {"rnote", "rdel"} THEN "notice"
          ELSE "other"

\* A request reaches a server with an account's credential.
Uses(r, acct) ==
  misuse' = misuse \cup (IF acct \in h[r].fz THEN {Way(r)} ELSE {})

-----------------------------------------------------------------------------
(* The calls over one child's pipes.                                       *)

NewChild(server, acct) ==
  [server |-> server, acct |-> acct, st |-> "live", mu |-> Nobody,
   owed |-> {}, pend |-> {}]

\* StartStdio and, on the new child, the write of the initialize call.
Start(r, server, acct, id, then) ==
  LET c == Len(child) + 1 IN
  /\ c <= MaxConns
  /\ child' = Append(child,
       [NewChild(server, acct) EXCEPT !.owed = {<<id, h[r].n>>},
                                      !.pend = {<<id, r>>}])
  /\ Set(r, [h[r] EXCEPT !.pc = "wait", !.conn = c, !.id = id,
                         !.acct = acct, !.then = then])
  /\ Uses(r, acct)

Waiters(c) == {p[2] : p \in child[c].pend}

\* Call up to the select: a dead child or an id in flight is an error; else
\* the entry is registered and the body written under the same lock.
Call(r) ==
  LET c == h[r].conn
      entry == <<h[r].id, r>>
  IN
  /\ At(r, "call") /\ h[r].then # "note" /\ child[c].mu = Nobody
  /\ \/ /\ ~Up(c) \/ \E p \in child[c].pend : p[1] = h[r].id
        /\ Goto(r, "failed")
        /\ UNCHANGED <<child, misuse>>
     \/ /\ Up(c) /\ \A p \in child[c].pend : p[1] # h[r].id
        /\ child' = [child EXCEPT ![c].pend = @ \cup {entry},
                                  ![c].owed = @ \cup {<<h[r].id, h[r].n>>}]
        /\ Goto(r, "wait")
        /\ Uses(r, child[c].acct)
     \/ /\ child[c].st = "hung"     \* the pipe is full: the write blocks
        /\ \A p \in child[c].pend : p[1] # h[r].id
        /\ child' = [child EXCEPT ![c].pend = @ \cup {entry}, ![c].mu = r]
        /\ Goto(r, "blocked")
        /\ UNCHANGED misuse
  /\ UNCHANGED <<tableVars, reg, spawn, envVars, mixed>>

\* Call with a notification: it is written under the lock and nothing is
\* waited for.
Notify(r) ==
  LET c == h[r].conn IN
  /\ At(r, "call") /\ h[r].then = "note" /\ child[c].mu = Nobody
  /\ \/ /\ ~Up(c)
        /\ Finish(r, {})
        /\ UNCHANGED <<child, misuse>>
     \/ /\ Up(c)
        /\ Finish(r, {})
        /\ Uses(r, child[c].acct)
        /\ UNCHANGED child
     \/ /\ child[c].st = "hung"
        /\ child' = [child EXCEPT ![c].mu = r]
        /\ Goto(r, "blocked")
        /\ UNCHANGED misuse
  /\ UNCHANGED <<tableVars, reg, spawn, envVars, mixed>>

\* The blocked write fails when the child is gone.
WriteFails(r) ==
  LET c == h[r].conn IN
  /\ At(r, "blocked") /\ ~Up(c)
  /\ child' = [child EXCEPT ![c].mu = Nobody, ![c].pend = @ \ {<<h[r].id, r>>}]
  /\ Goto(r, "failed")
  /\ UNCHANGED <<tableVars, reg, spawn, envVars, seenVars>>

\* readLoop delivers an answer to whoever waits for its id, or drops it.
Deliver(c, m) ==
  /\ m \in child[c].owed /\ child[c].st = "live" /\ child[c].mu = Nobody
  /\ LET due == {p \in child[c].pend : p[1] = m[1]} IN
     /\ child' = [child EXCEPT ![c].owed = @ \ {m}, ![c].pend = @ \ due]
     /\ h' = [r \in Handlers |-> IF \E p \in due : p[2] = r
                                 THEN [h[r] EXCEPT !.pc = "answered"]
                                 ELSE h[r]]
     /\ mixed' = mixed \cup {Way(p[2]) : p \in {q \in due : h[q[2]].n # m[2]}}
  /\ UNCHANGED <<tableVars, reg, spawn, envVars, misuse>>

\* The reader's end: the child is reaped and every pending caller is woken.
ReadEnd(r) ==
  LET c == h[r].conn IN
  /\ At(r, "wait") /\ ~Up(c) /\ child[c].mu = Nobody
  /\ child' = [child EXCEPT ![c].pend = @ \ {<<h[r].id, r>>}]
  /\ Goto(r, "failed")
  /\ UNCHANGED <<tableVars, reg, spawn, envVars, seenVars>>

\* The call's context ends; dropping the entry takes the lock.
Timeout(r) ==
  LET c == h[r].conn IN
  /\ At(r, "wait") /\ child[c].mu = Nobody
  /\ child' = [child EXCEPT ![c].pend = @ \ {<<h[r].id, r>>}]
  /\ Goto(r, "failed")
  /\ UNCHANGED <<tableVars, reg, spawn, envVars, seenVars>>

\* The child dies by itself, or stops reading.
Dies(c) ==
  /\ Up(c) /\ faults < MaxFaults
  /\ child' = Closed({c})
  /\ faults' = faults + 1
  /\ UNCHANGED <<tableVars, h, reg, spawn, frozen, count, seenVars>>

Hangs(c) ==
  /\ child[c].st = "live" /\ faults < MaxFaults
  /\ child' = [child EXCEPT ![c].st = "hung"]
  /\ faults' = faults + 1
  /\ UNCHANGED <<tableVars, h, reg, spawn, frozen, count, seenVars>>

-----------------------------------------------------------------------------
(* Requests.                                                               *)

\* A request starts.  Accounts frozen before, and not picked by a request
\* that is still being served, are the ones it must not use.
Begin(r, op, pc, sid) ==
  /\ h[r] = Free /\ count < MaxReqs
  /\ count' = count + 1
  /\ Set(r, [Free EXCEPT !.op = op, !.pc = pc, !.sid = sid, !.n = count + 1,
                         !.fz = frozen \ {h[q].acct : q \in Handlers}])
  /\ UNCHANGED <<tableVars, procVars, frozen, faults, seenVars>>

Opening == {q \in Handlers : h[q].op \in {"init", "winit", "rinit"}}

Arrive(r) ==
  \/ /\ minted + Cardinality(Opening) < MaxSids
     /\ \/ Begin(r, "init", "p_start", 0)
        \/ Begin(r, "winit", "w_pick", 0)
        \/ Begin(r, "rinit", "r_mint", 0)
  \/ \E sid \in 1 .. minted :
       \/ Begin(r, "call", "p_get", sid)
       \/ Begin(r, "del", "p_kill", sid)
       \/ \E op \in {"wcall", "wdel"} : Begin(r, op, "w_get", sid)
       \/ \E op \in {"rcall", "rlist", "rnote"} : Begin(r, op, "r_get", sid)
       \/ Begin(r, "rdel", "r_subs", sid)

\* A session of another server is an unknown one (the handlers' first
\* access; a session that is gone or has expired is no session either).
Owned(id, server) == Live(id) /\ sess[id].server = server

\* A client does not use an id again while its request is being served.
TakenIds(r) == {h[q].id : q \in {p \in Handlers : /\ h[p].sid = h[r].sid
                                                /\ h[p].op = h[r].op}}

-----------------------------------------------------------------------------
(* A stdio server addressed directly: serveMCPStdio.                       *)

\* initialize: pick an account, start the child, call it.
P_Start(r) ==
  /\ At(r, "p_start")
  /\ \/ \E a \in Healthy : Start(r, "std", a, 1, "p_init")
     \/ Finish(r, {}) /\ UNCHANGED <<child, misuse>>
  /\ UNCHANGED <<tableVars, reg, spawn, envVars, mixed>>

\* The session is minted; the session it pushes out is evicted.
P_Put(r) ==
  /\ At(r, "p_put")
  /\ Put([NoSession EXCEPT !.server = "std", !.acct = h[r].acct])
  /\ Set(r, [h[r] EXCEPT !.pc = "p_reg", !.sid = minted + 1,
                         !.fire = Overflow])
  /\ UNCHANGED <<procVars, envVars, seenVars>>

Full(key, server) ==
  /\ Cardinality({k \in DOMAIN reg : child[reg[k]].server = server}) >= Cap
  /\ key \notin DOMAIN reg

\* registry.put: at the cap the child is closed and the session deleted.
P_Reg(r) ==
  LET key == <<h[r].sid, "">> IN
  /\ At(r, "p_reg")
  /\ \/ /\ Full(key, "std")
        /\ child' = Closed({h[r].conn})
        /\ Goto(r, "p_drop")
        /\ UNCHANGED reg
     \/ /\ ~Full(key, "std")
        /\ Register(key, h[r].conn)
        /\ Goto(r, "p_check")
  /\ UNCHANGED <<tableVars, spawn, envVars, seenVars>>

\* Mutant of P_Check: the session is not looked up again.
P_Check_Skipped(r) ==
  /\ At(r, "p_check")
  /\ Finish(r, {})
  /\ UNCHANGED <<tableVars, procVars, envVars, seenVars>>

\* The session may have been evicted before its child was registered.
P_Check(r) ==
  LET id == h[r].sid IN
  /\ At(r, "p_check")
  /\ Touch(id)
  /\ IF Live(id) THEN Finish(r, {}) ELSE
       Set(r, [h[r] EXCEPT !.pc = "p_undo", !.fire = Expired(id)])
  /\ UNCHANGED <<procVars, envVars, seenVars>>

P_Undo(r) ==
  /\ At(r, "p_undo")
  /\ Kill({<<h[r].sid, "">>})
  /\ Finish(r, {})
  /\ UNCHANGED <<tableVars, spawn, envVars, seenVars>>

\* A message on an established session: the session, then its child.
P_Get(r) ==
  LET id == h[r].sid IN
  /\ At(r, "p_get")
  /\ Touch(id)
  /\ IF Owned(id, "std") THEN Goto(r, "p_conn") ELSE Finish(r, Expired(id))
  /\ UNCHANGED <<procVars, envVars, seenVars>>

P_Conn(r) ==
  LET key == <<h[r].sid, "">> IN
  /\ At(r, "p_conn")
  /\ \/ key \notin DOMAIN reg /\ Finish(r, {})
     \/ /\ key \in DOMAIN reg
        /\ \E id \in {1, 2} \ TakenIds(r) :
             Set(r, [h[r] EXCEPT !.pc = "call", !.conn = reg[key], !.id = id,
                                 !.then = "p_call"])
  /\ UNCHANGED <<tableVars, procVars, envVars, seenVars>>

\* DELETE: the session is looked up, its child killed, then it is deleted.
P_Kill(r) ==
  LET id == h[r].sid IN
  /\ At(r, "p_kill")
  /\ Touch(id)
  /\ IF Owned(id, "std")
     THEN Kill({<<id, "">>}) /\ Goto(r, "p_drop")
     ELSE Finish(r, Expired(id)) /\ UNCHANGED <<reg, child>>
  /\ UNCHANGED <<spawn, envVars, seenVars>>

\* The last step of a failed or deleted session.
P_Drop(r) ==
  LET id == h[r].sid IN
  /\ At(r, "p_drop")
  /\ Delete(id)
  /\ Finish(r, IF Known(id) THEN {id} ELSE {})
  /\ UNCHANGED <<procVars, envVars, seenVars>>

-----------------------------------------------------------------------------
(* An HTTP server addressed directly: serveMCP.                            *)

\* Without a session an account is picked.
W_Pick(r) ==
  /\ At(r, "w_pick")
  /\ \/ \E a \in Healthy :
          /\ Set(r, [h[r] EXCEPT !.pc = "w_send", !.acct = a, !.got = Healthy,
                                 !.then = "first"])
          /\ Uses(r, a)
     \/ Healthy = {} /\ Finish(r, {}) /\ UNCHANGED misuse
  /\ UNCHANGED <<tableVars, procVars, envVars, mixed>>

\* The answer: an error, a 401 that is retried once with another account of
\* the pick, a success that starts a session, or the end of a DELETE.
W_Send(r) ==
  /\ At(r, "w_send")
  /\ \/ /\ IF h[r].op = "wdel" THEN Goto(r, "p_drop") ELSE Finish(r, {})
        /\ UNCHANGED <<tableVars, misuse>>
     \/ /\ h[r].then = "first"
        /\ \E b \in h[r].got \ {h[r].acct} :
             /\ Set(r, [h[r] EXCEPT !.then = "last", !.acct = b])
             /\ Uses(r, b)
        /\ UNCHANGED tableVars
     \/ /\ h[r].op = "winit"
        /\ Put([NoSession EXCEPT !.server = "web", !.acct = h[r].acct])
        /\ Finish(r, Overflow)
        /\ UNCHANGED misuse
  /\ UNCHANGED <<procVars, envVars, mixed>>

\* A request with a session: the session's account, or none.  A frozen
\* account ends the session; an id that is unknown here goes on without.
W_Get(r) ==
  LET id == h[r].sid
      a == sess[id].acct
  IN
  /\ At(r, "w_get")
  /\ \/ /\ Live(id) /\ sess[id].server # "web"
        /\ Touch(id) /\ Finish(r, {}) /\ UNCHANGED misuse
     \/ /\ ~Live(id)
        /\ Touch(id)
        /\ Set(r, [h[r] EXCEPT !.pc = "w_pick", !.fire = Expired(id)])
        /\ UNCHANGED misuse
     \/ /\ Owned(id, "web") /\ Healthy = {}
        /\ Touch(id) /\ Finish(r, {}) /\ UNCHANGED misuse
     \/ /\ Owned(id, "web") /\ a \in frozen /\ Healthy # {}
        /\ Touch(id) /\ Goto(r, "p_drop") /\ UNCHANGED misuse
     \/ /\ Owned(id, "web") /\ a \notin frozen
        /\ Touch(id)
        /\ Set(r, [h[r] EXCEPT !.pc = "w_send", !.acct = a])
        /\ Uses(r, a)
  /\ UNCHANGED <<procVars, envVars, mixed>>

-----------------------------------------------------------------------------
(* A route over several servers: serveMCPRoute.                            *)

\* initialize: the proxy answers itself.
R_Mint(r) ==
  /\ At(r, "r_mint")
  /\ Put([NoSession EXCEPT !.server = Route])
  /\ Finish(r, Overflow)
  /\ UNCHANGED <<procVars, envVars, seenVars>>

\* The session's last successful server changes places with the first.
StickyFirst(cands, s) ==
  LET at == {i \in DOMAIN cands : cands[i] = s} IN
  IF at = {} THEN cands
  ELSE LET i == CHOOSE j \in at : TRUE IN
       [cands EXCEPT ![1] = cands[i], ![i] = cands[1]]

\* The session is checked; a call takes the servers that can serve, in order;
\* a list that is cached needs none; a notification goes to all that are open.
R_Get(r) ==
  LET id == h[r].sid
      open == Live(id) /\ sess[id].server = Route
      cands == IF Healthy = {} THEN <<>> ELSE Targets
  IN
  /\ At(r, "r_get")
  /\ Touch(id)
  /\ \/ ~open /\ Finish(r, Expired(id))
     \/ open /\ h[r].op = "rnote" /\ Goto(r, "r_subs")
     \/ /\ open /\ h[r].op = "rcall"
        /\ IF cands = <<>> THEN Finish(r, {}) ELSE
             Set(r, [h[r] EXCEPT !.pc = "ensure",
                                 !.cands = StickyFirst(cands,
                                                       sess[id].sticky)])
     \/ /\ open /\ h[r].op = "rlist"
        /\ IF sess[id].ready THEN Finish(r, {}) ELSE
             Set(r, [h[r] EXCEPT !.pc = "ensure", !.cands = Targets])
  /\ UNCHANGED <<procVars, envVars, seenVars>>

\* The next server; after the last one a call has failed and a list is kept.
Next1(rec, gone) ==
  LET rest == [rec EXCEPT !.cands = Tail(@), !.acct = "", !.conn = 0,
                          !.then = "", !.fire = gone]
  IN IF Len(rec.cands) > 1 THEN [rest EXCEPT !.pc = "ensure"]
     ELSE IF rec.op = "rlist" THEN [rest EXCEPT !.pc = "r_tools"]
     ELSE IF gone = {} THEN Free
     ELSE [Free EXCEPT !.pc = "end", !.fire = gone]

Sub(id, server) == IF Live(id) /\ server \in DOMAIN sess[id].subs
                   THEN sess[id].subs[server] ELSE "none"
PutSub(id, server, a) == [sess[id] EXCEPT !.subs = Bind(@, server, a)]
DropSub(id, server) ==
  [sess[id] EXCEPT !.subs = Restrict(@, DOMAIN @ \ {server})]
Key(r) == <<h[r].sid, Head(h[r].cands)>>

\* Mutant of Ensure: the freeze of a sub-session's account is not noticed.
Ensure_Frozen(r) ==
  LET id == h[r].sid
      s == Head(h[r].cands)
      sub == Sub(id, s)
      build == IF s = "std" THEN "lock" ELSE "w_build"
  IN
  /\ At(r, "ensure")
  /\ \/ /\ sub # "none"
        /\ Touch(id)
        /\ Set(r, [h[r] EXCEPT !.pc = "use", !.acct = sub])
     \/ /\ sub = "none"
        /\ Access(id, DropSub(id, s))
        /\ IF Healthy = {} THEN Set(r, Next1(h[r], Expired(id)))
           ELSE \E a \in Healthy :
                  Set(r, [h[r] EXCEPT !.pc = build, !.acct = a,
                                      !.fire = Expired(id)])
  /\ UNCHANGED <<procVars, envVars, seenVars>>

\* mcpRouteEnsureSub: a sub-session is used again unless its account was
\* frozen; else an account is picked and a new one is built.
Ensure(r) ==
  LET id == h[r].sid
      s == Head(h[r].cands)
      sub == Sub(id, s)
      build == IF s = "std" THEN "lock" ELSE "w_build"
  IN
  /\ At(r, "ensure")
  /\ \/ /\ sub \in Healthy
        /\ Touch(id)
        /\ Set(r, [h[r] EXCEPT !.pc = "use", !.acct = sub])
     \/ /\ sub \notin Healthy
        /\ Access(id, DropSub(id, s))
        /\ IF Healthy = {} THEN Set(r, Next1(h[r], Expired(id)))
           ELSE \E a \in Healthy :
                  Set(r, [h[r] EXCEPT !.pc = build, !.acct = a,
                                      !.fire = Expired(id)])
  /\ UNCHANGED <<procVars, envVars, seenVars>>

Unlocked(r) == Restrict(spawn, {k \in DOMAIN spawn : spawn[k] # r})

\* lockSpawn, and the second look: a racing request may have built the
\* sub-session meanwhile.
Lock(r) ==
  LET id == h[r].sid
      s == Head(h[r].cands)
      sub == Sub(id, s)
  IN
  /\ At(r, "lock") /\ Key(r) \notin DOMAIN spawn
  /\ \/ /\ sub \in Healthy
        /\ Touch(id)
        /\ Set(r, [h[r] EXCEPT !.pc = "use", !.acct = sub])
        /\ UNCHANGED spawn
     \/ /\ sub \notin Healthy
        /\ Access(id, DropSub(id, s))
        /\ Set(r, [h[r] EXCEPT !.pc = "start", !.fire = Expired(id)])
        /\ spawn' = Bind(spawn, Key(r), r)
  /\ UNCHANGED <<reg, child, envVars, seenVars>>

R_Start(r) ==
  /\ At(r, "start")
  /\ \/ Start(r, "std", h[r].acct, 1, "r_init") /\ UNCHANGED spawn
     \/ /\ Set(r, Next1(h[r], {}))
        /\ spawn' = Unlocked(r)
        /\ UNCHANGED <<child, misuse>>
  /\ UNCHANGED <<tableVars, reg, envVars, mixed>>

\* The same for a sub-session's child.
R_Reg(r) ==
  /\ At(r, "r_reg")
  /\ \/ /\ Full(Key(r), "std")
        /\ child' = Closed({h[r].conn})
        /\ Set(r, Next1(h[r], {}))
        /\ spawn' = Unlocked(r)
        /\ UNCHANGED reg
     \/ /\ ~Full(Key(r), "std")
        /\ Register(Key(r), h[r].conn)
        /\ Goto(r, "r_sub")
        /\ UNCHANGED spawn
  /\ UNCHANGED <<tableVars, envVars, seenVars>>

\* RouteSubPut: without its session the child is killed again.
R_Sub(r) ==
  LET id == h[r].sid
      s == Head(h[r].cands)
  IN
  /\ At(r, "r_sub")
  /\ Access(id, PutSub(id, s, h[r].acct))
  /\ \/ /\ Live(id)
        /\ Goto(r, "use")
        /\ spawn' = Unlocked(r)
        /\ UNCHANGED <<reg, child>>
     \/ /\ ~Live(id)
        /\ Kill({Key(r)})
        /\ Set(r, Next1(h[r], Expired(id)))
        /\ spawn' = Unlocked(r)
  /\ UNCHANGED <<envVars, seenVars>>

\* The same for an HTTP server: the exchange, then RouteSubPut.
W_Build(r) ==
  LET id == h[r].sid
      s == Head(h[r].cands)
  IN
  /\ At(r, "w_build")
  /\ Uses(r, h[r].acct)
  /\ \/ Set(r, Next1(h[r], {})) /\ UNCHANGED tableVars
     \/ /\ Access(id, PutSub(id, s, h[r].acct))
        /\ Set(r, [h[r] EXCEPT !.pc = "use", !.fire = Expired(id)])
  /\ UNCHANGED <<procVars, envVars, mixed>>

\* The call or the list itself, over HTTP (an error, an answer that fails
\* over and may invalidate the sub-session, or a success) ...
UseWeb(r) ==
  LET id == h[r].sid
      s == Head(h[r].cands)
  IN
  /\ At(r, "use") /\ s = "web"
  /\ Uses(r, h[r].acct)
  /\ \/ Set(r, Next1(h[r], {})) /\ UNCHANGED tableVars
     \/ /\ h[r].op = "rcall"
        /\ Access(id, DropSub(id, s))
        /\ Set(r, Next1(h[r], Expired(id)))
     \/ Goto(r, "answered") /\ UNCHANGED tableVars
  /\ UNCHANGED <<procVars, envVars, mixed>>

\* ... or through the session's child.
UseStd(r) ==
  LET id == h[r].sid
      s == Head(h[r].cands)
  IN
  /\ At(r, "use") /\ s = "std"
  /\ \/ /\ Key(r) \in DOMAIN reg
        /\ \E m \in IF h[r].op = "rlist" THEN {2} ELSE {1, 2} \ TakenIds(r) :
             Set(r, [h[r] EXCEPT !.pc = "call", !.conn = reg[Key(r)],
                                 !.id = m, !.then = h[r].op])
        /\ UNCHANGED tableVars
     \/ /\ Key(r) \notin DOMAIN reg /\ h[r].op = "rcall"
        /\ Access(id, DropSub(id, s))
        /\ Set(r, Next1(h[r], Expired(id)))
     \/ /\ Key(r) \notin DOMAIN reg /\ h[r].op = "rlist"
        /\ Set(r, Next1(h[r], {}))
        /\ UNCHANGED tableVars
  /\ UNCHANGED <<procVars, envVars, seenVars>>

\* RouteToolsPut: what the servers that answered offer, kept for the session.
R_Tools(r) ==
  LET id == h[r].sid IN
  /\ At(r, "r_tools")
  /\ Access(id, [sess[id] EXCEPT !.tools = h[r].got, !.ready = TRUE])
  /\ Finish(r, Expired(id))
  /\ UNCHANGED <<procVars, envVars, seenVars>>

\* RouteSubs: copies of the sub-sessions, for a notification or a DELETE.  The
\* ones of HTTP servers are sent it now, with the account that they are bound
\* to (nothing that happens until the exchange is over makes a difference).
R_Subs(r) ==
  LET id == h[r].sid IN
  /\ At(r, "r_subs")
  /\ Touch(id)
  /\ Uses(r, Sub(id, "web"))
  /\ \/ /\ h[r].op = "rdel"
        /\ Set(r, [h[r] EXCEPT !.pc = "r_kill", !.fire = Expired(id),
                               !.got = {s \in {"std"} : Sub(id, s) # "none"}])
     \/ /\ h[r].op = "rnote" /\ Sub(id, "std") # "none"
        /\ Goto(r, "r_tell")
     \/ /\ h[r].op = "rnote" /\ Sub(id, "std") = "none"
        /\ Finish(r, Expired(id))
  /\ UNCHANGED <<procVars, envVars, mixed>>

\* mcpRouteFanOut: the child of a stdio server is told, when it is registered.
R_Tell(r) ==
  LET key == <<h[r].sid, "std">> IN
  /\ At(r, "r_tell")
  /\ \/ key \notin DOMAIN reg /\ Finish(r, {})
     \/ /\ key \in DOMAIN reg
        /\ Set(r, [h[r] EXCEPT !.pc = "call", !.conn = reg[key],
                               !.then = "note"])
  /\ UNCHANGED <<tableVars, procVars, envVars, seenVars>>

\* DELETE: mcpTerminateSub for every sub-session, then the session.
R_Kill(r) ==
  /\ At(r, "r_kill")
  /\ Kill({<<h[r].sid, s>> : s \in h[r].got})
  /\ Goto(r, "p_drop")
  /\ UNCHANGED <<tableVars, spawn, envVars, seenVars>>

-----------------------------------------------------------------------------
(* What a handler does with the outcome of a call.                         *)

Answered(r) ==
  LET id == h[r].sid
      s == Head(h[r].cands)
  IN
  /\ At(r, "answered")
  /\ \/ h[r].then = "p_init" /\ Goto(r, "p_put") /\ UNCHANGED tableVars
     \/ h[r].then = "p_call" /\ Finish(r, {}) /\ UNCHANGED tableVars
     \/ h[r].then = "r_init" /\ Goto(r, "r_reg") /\ UNCHANGED tableVars
     \/ /\ h[r].op = "rlist" /\ h[r].then # "r_init"
        /\ Set(r, Next1([h[r] EXCEPT !.got = @ \cup {s}], {}))
        /\ UNCHANGED tableVars
     \/ /\ h[r].op = "rcall" /\ h[r].then # "r_init"
        /\ Access(id, [sess[id] EXCEPT !.sticky = s])
        /\ Finish(r, Expired(id))
  /\ UNCHANGED <<procVars, envVars, seenVars>>

\* Mutant of Failed: a call that timed out leaves its child in use.
Failed_Keeps(r) ==
  /\ At(r, "failed")
  /\ \/ /\ h[r].then \in {"p_init", "r_init"}
        /\ child' = Closed({h[r].conn})
        /\ IF h[r].then = "p_init" THEN Finish(r, {})
           ELSE Set(r, Next1(h[r], {}))
        /\ spawn' = Unlocked(r)
     \/ h[r].then = "p_call" /\ Finish(r, {}) /\ UNCHANGED <<child, spawn>>
     \/ /\ h[r].then \in {"rcall", "rlist"}
        /\ Set(r, Next1(h[r], {}))
        /\ UNCHANGED <<child, spawn>>
  /\ UNCHANGED <<tableVars, reg, envVars, seenVars>>

\* A failed initialize closes its own child; a failed call kills the child
\* that is registered now; a failed list or notification leaves it alone.
Failed(r) ==
  /\ At(r, "failed")
  /\ \/ /\ h[r].then = "p_init"
        /\ child' = Closed({h[r].conn}) /\ Finish(r, {})
        /\ UNCHANGED <<reg, spawn>>
     \/ /\ h[r].then = "p_call"
        /\ Kill({<<h[r].sid, "">>}) /\ Goto(r, "p_drop")
        /\ UNCHANGED spawn
     \/ /\ h[r].then = "r_init"
        /\ child' = Closed({h[r].conn}) /\ Set(r, Next1(h[r], {}))
        /\ spawn' = Unlocked(r)
        /\ UNCHANGED reg
     \/ /\ h[r].then = "rcall"
        /\ Kill({Key(r)}) /\ Goto(r, "r_drop")
        /\ UNCHANGED spawn
     \/ /\ h[r].then = "rlist"
        /\ Set(r, Next1(h[r], {}))
        /\ UNCHANGED procVars
     \/ h[r].then = "note" /\ Finish(r, {}) /\ UNCHANGED procVars
  /\ UNCHANGED <<tableVars, envVars, seenVars>>

R_Drop(r) ==
  LET id == h[r].sid IN
  /\ At(r, "r_drop")
  /\ Access(id, DropSub(id, Head(h[r].cands)))
  /\ Set(r, Next1(h[r], Expired(id)))
  /\ UNCHANGED <<procVars, envVars, seenVars>>

-----------------------------------------------------------------------------
(* The operator freezes and thaws; sessions grow old.                      *)

Freeze(A) ==
  /\ A \cap frozen = {} /\ faults < MaxFaults
  /\ frozen' = frozen \cup A
  /\ faults' = faults + 1
  /\ UNCHANGED <<tableVars, h, procVars, count, seenVars>>

Thaw(a) ==
  /\ a \in frozen
  /\ frozen' = frozen \ {a}
  /\ h' = [r \in Handlers |-> [h[r] EXCEPT !.fz = @ \ {a}]]
  /\ UNCHANGED <<tableVars, procVars, faults, count, seenVars>>

GrowsOld(id) ==
  /\ Age(id) /\ faults < MaxFaults
  /\ faults' = faults + 1
  /\ UNCHANGED <<h, procVars, frozen, count, seenVars>>

Handle(r) ==
  \/ Evict(r) \/ Call(r) \/ Notify(r) \/ WriteFails(r) \/ ReadEnd(r) \/ Timeout(r)
  \/ P_Start(r) \/ P_Put(r) \/ P_Reg(r) \/ P_Check(r) \/ P_Undo(r)
  \/ P_Get(r) \/ P_Conn(r) \/ P_Kill(r) \/ P_Drop(r)
  \/ W_Pick(r) \/ W_Send(r) \/ W_Get(r)
  \/ R_Mint(r) \/ R_Get(r) \/ Ensure(r) \/ Lock(r)
  \/ R_Start(r) \/ R_Reg(r) \/ R_Sub(r) \/ W_Build(r)
  \/ UseWeb(r) \/ UseStd(r) \/ R_Tools(r)
  \/ R_Subs(r) \/ R_Tell(r) \/ R_Kill(r)
  \/ Answered(r) \/ Failed(r) \/ R_Drop(r)

Next ==
  \/ \E r \in Handlers : Arrive(r) \/ Handle(r)
  \/ \E c \in Conns : Dies(c) \/ Hangs(c)
                        \/ \E m \in child[c].owed : Deliver(c, m)
  \/ \E A \in SUBSET Accounts \ {{}} : Freeze(A)
  \/ \E a \in Accounts : Thaw(a)
  \/ \E id \in 1 .. minted : GrowsOld(id)

Spec == Init /\ [][Next]_vars

\* Handlers go on, and their calls' contexts end.
FairSpec == Spec /\ \A r \in Handlers : WF_vars(Handle(r))
-----------------------------------------------------------------------------
(* Properties.                                                             *)

Starting == {"wait", "failed", "answered"}

\* No child outlives its session: every process runs for the request that
\* is starting it or is registered, and every registered one belongs to a
\* session of the table or to a request that is about to kill it, however
\* evictions, expiries, deletes and failed handshakes interleave
\* (serveMCPStdio, mcpRouteEnsureSub, mcpOnMCPSessionEvict).
NoOrphan ==
  /\ \A c \in Conns : Up(c) =>
       \/ \E k \in DOMAIN reg : reg[k] = c
       \/ \E r \in Handlers :
            /\ h[r].conn = c
            /\ \/ h[r].pc \in Starting /\ h[r].then \in {"p_init", "r_init"}
               \/ h[r].pc \in {"p_put", "p_reg", "r_reg"}
  /\ \A k \in DOMAIN reg :
       \/ Known(k[1])
       \/ \E r \in Handlers :
            \/ k[1] \in h[r].fire
            \/ h[r].sid = k[1] /\ h[r].pc \in {"p_check", "p_undo", "r_sub"}

\* A request that comes after the operator froze an account is not served
\* with that account's credential, by an HTTP server or over a route
\* (serveMCP, mcpRouteEnsureSub); requests in flight at the freeze may be,
\* and what a route passes on to its servers is not asked about
\* (FrozenIsToldNothing).
FrozenStops == "other" \notin misuse

\* "The credential must stop being used": not for a notification either, nor
\* for the end of a route's session (mcpRouteFanOut, mcpTerminateSub).
FrozenIsToldNothing == "notice" \notin misuse

\* The same for a stdio server that is addressed directly.
FrozenStopsPinned == "direct" \notin misuse

\* A call on a pinned session is answered with its own answer, never with
\* the late answer to an earlier call that had the same id (StdioConn.Call,
\* serveMCPStdio).
AnswersOwn == "direct" \notin mixed

\* The same for the calls of a route.
AnswersOwnRoute == "other" \notin mixed

\* Every request that is taken is finished: no caller waits for ever for a
\* child, for a spawn lock or for another caller (StdioConn.Call).
RequestsFinish ==
  \A r \in Handlers : (h[r].pc # "free") ~> (h[r].pc = "free")
=============================================================================
