----------------------------- MODULE McpProofs ------------------------------
(***************************************************************************)
(* Proofs about the MCP gateway: no child process outlives its session, a  *)
(* frozen account serves no later request over HTTP or a route, and a call *)
(* on a pinned session gets its own answer, for any number of requests,    *)
(* accounts, sessions and children.                                        *)
(***************************************************************************)
EXTENDS Mcp, SequenceTheorems, TLAPS

(***************************************************************************)
(* Types.                                                                  *)
(***************************************************************************)
Server == {"std", "web"}
Subs == UNION {[D -> Accounts] : D \in SUBSET Server}
Session == [server : {"", "std", "web", Route}, acct : Accounts \cup {""},
            subs : Subs, sticky : {"", "std", "web"}, tools : SUBSET (Server \cup Accounts),
            ready : BOOLEAN]

Routed == {"rcall", "rlist"}
OnSession == {"call", "del", "wcall", "wdel", "rdel", "rnote"} \cup Routed
\* What an account may be used for.
Ways == {"direct", "notice", "other"}
Op == {"", "init", "winit", "rinit"} \cup OnSession
Pc == {"free", "end", "call", "wait", "blocked", "failed", "answered",
       "p_start", "p_put", "p_reg", "p_check", "p_undo", "p_get", "p_conn", "p_kill", "p_drop",
       "w_pick", "w_send", "w_get", "r_mint", "r_get", "r_subs", "r_tell", "r_kill", "r_tools", "r_drop",
       "ensure", "lock", "start", "r_reg", "r_sub", "w_build", "use"}
Then == {"", "p_init", "p_call", "r_init", "rcall", "rlist", "note", "first", "last"}
State == [op : Op, pc : Pc, sid : Nat, cands : Seq(Server), got : SUBSET (Server \cup Accounts),
          conn : Nat, id : Nat, n : Nat, acct : Accounts \cup {""}, then : Then,
          fire : SUBSET Nat, fz : SUBSET Accounts]
Child == [server : Server, acct : Accounts, st : {"live", "hung", "dead"},
          mu : Handlers \cup {Nobody}, owed : SUBSET (Nat \X Nat), pend : SUBSET (Nat \X Handlers)]
Keys == Nat \X {"", "std", "web"}

TypeOK ==
  /\ lru \in Seq(Nat) /\ minted \in Nat /\ sess \in [1 .. minted -> Session]
  /\ h \in [Handlers -> State]
  /\ DOMAIN reg \subseteq Keys /\ reg \in [DOMAIN reg -> Conns]
  /\ spawn \in [DOMAIN spawn -> Handlers]
  /\ child \in Seq(Child)
  /\ frozen \subseteq Accounts /\ faults \in Nat /\ count \in Nat
  /\ misuse \subseteq Ways /\ mixed \subseteq {"direct", "other"}

(***************************************************************************)
(* The inductive invariant: what a handler's step says about its record.   *)
(***************************************************************************)
\* A handler that waits for a child or deals with what came of it.
Talking(x) == x.pc \in {"call", "wait", "blocked", "failed"}
\* It owns a child that is started and not registered yet.
Holder(x) == \/ x.pc \in Starting /\ x.then \in {"p_init", "r_init"}
             \/ x.pc \in {"p_put", "p_reg", "r_reg"}
\* It holds a spawn lock.
Spawning(x) == \/ x.pc \in Starting /\ x.then = "r_init"
               \/ x.pc \in {"start", "r_reg", "r_sub"}
\* It has just registered the child of a pinned session.
Checking(x) == x.pc \in {"p_check", "p_undo"}
Direct(x) == x.op \in {"init", "call"}
\* It passes a message of a route's client on to the servers.
Notice(x) == x.op \in {"rnote", "rdel"}

\* The operation a handler serves at each of its steps.
Steps(x) ==
  /\ x.pc \in {"free", "end"} => x.op = ""
  /\ x.pc \in {"p_start", "p_put", "p_reg", "p_check", "p_undo"} => x.op = "init"
  /\ x.pc \in {"p_get", "p_conn"} => x.op = "call"
  /\ x.pc = "p_kill" => x.op = "del"
  /\ x.pc = "p_drop" => x.op \in {"init", "call", "del", "wdel", "wcall", "rdel"}
  /\ x.pc \in {"w_pick", "w_send"} => x.op \in {"winit", "wcall", "wdel"}
  /\ x.pc = "w_get" => x.op \in {"wcall", "wdel"}
  /\ x.pc = "r_mint" => x.op = "rinit"
  /\ x.pc = "r_get" => x.op \in Routed \cup {"rnote"}
  /\ x.pc = "r_subs" => x.op \in {"rdel", "rnote"}
  /\ x.pc = "r_tell" => x.op = "rnote"
  /\ x.pc = "r_kill" => x.op = "rdel"
  /\ x.pc = "r_tools" => x.op = "rlist"
  /\ x.pc = "r_drop" => x.op = "rcall"
  /\ x.pc \in {"ensure", "lock", "start", "r_reg", "r_sub", "w_build", "use"} => x.op \in Routed

\* What the outcome of a call is for.
Calls(x) ==
  /\ Talking(x) => x.then \in {"p_init", "p_call", "r_init", "rcall", "rlist", "note"}
  /\ x.pc = "wait" => x.then # "note"
  /\ x.pc = "answered" => x.then \in {"", "p_init", "p_call", "r_init", "rcall", "rlist"}
  /\ x.pc \in {"call", "blocked"} => x.then \notin {"p_init", "r_init"}
  /\ Talking(x) \/ x.pc = "answered" =>
       /\ x.then = "p_init" => x.op = "init"
       /\ x.then = "p_call" => x.op = "call"
       /\ x.then = "note" => x.op = "rnote"
       /\ x.then = "r_init" => x.op \in Routed
       /\ x.then \in {"", "rcall", "rlist"} => x.op \in Routed
       /\ x.then \in Routed => x.op = x.then
  /\ x.op = "call" /\ Talking(x) => x.id # 0

\* The server a routed handler is at, and the session of one that has one
\* (m ids are minted and l children started).
Places(x, m, l) ==
  /\ x.op \in Routed /\ x.pc \notin {"r_get", "r_tools"} => x.cands # <<>>
  /\ (\/ x.pc \in {"lock", "start", "r_reg", "r_sub", "r_drop"}
      \/ x.op \in Routed /\ (Talking(x) \/ Holder(x))) => Head(x.cands) = "std"
  /\ x.pc = "w_build" => Head(x.cands) = "web"
  /\ x.pc = "use" => x.then \in {"", "r_init"}
  /\ x.pc \in {"r_reg", "r_sub"} => x.then = "r_init"
  /\ x.pc \in {"w_get", "r_get", "ensure", "lock", "w_build"} => x.then = ""
  /\ x.pc = "use" /\ Head(x.cands) = "web" => x.then = ""
  /\ x.pc \in {"lock", "start", "r_reg", "r_sub", "w_build", "use"} => x.acct \in Accounts
  /\ x.pc = "w_send" /\ x.then = "first" => x.got \subseteq Accounts
  /\ x.op \in OnSession \/ x.pc \in {"p_reg", "p_check", "p_undo", "p_drop"} => x.sid \in 1 .. m
  /\ Talking(x) \/ Holder(x) => x.conn \in 1 .. l

Well(x, m, l) == Steps(x) /\ Calls(x) /\ Places(x, m, l)
Shaped == \A r \in Handlers : Well(h[r], minted, Len(child))

\* Who is registered with a child waits for it; who is blocked in the write
\* to it has its lock.
Pending ==
  /\ \A c \in Conns : \A p \in child[c].pend :
       h[p[2]].conn = c /\ h[p[2]].id = p[1] /\ h[p[2]].pc \in {"wait", "blocked"}
  /\ \A r \in Handlers : h[r].pc = "blocked" => child[h[r].conn].mu = r

(***************************************************************************)
(* No orphans.                                                             *)
(***************************************************************************)
\* A child that runs is registered or owned by the handler that started it.
Kept == \A c \in Conns : Up(c) => \/ \E k \in DOMAIN reg : reg[k] = c
                                  \/ \E r \in Handlers : Holder(h[r]) /\ h[r].conn = c

\* A handler that will find out that the session of k is gone.
Minds(x, k) == \/ k[1] \in x.fire
               \/ Checking(x) /\ k = <<x.sid, "">>
               \/ x.pc = "r_sub" /\ k = <<x.sid, "std">>

Minded == \A k \in DOMAIN reg : Known(k[1]) \/ \E r \in Handlers : Minds(h[r], k)

(***************************************************************************)
(* Answers.                                                                *)
(***************************************************************************)
\* A child that is not registered yet belongs to one handler alone.
Fresh ==
  \A r \in Handlers : Holder(h[r]) =>
    /\ \A k \in DOMAIN reg : reg[k] # h[r].conn
    /\ \A q \in Handlers \ {r} : Talking(h[q]) \/ Holder(h[q]) => h[q].conn # h[r].conn

\* A child is registered once.
Once == \A k, l \in DOMAIN reg : reg[k] = reg[l] => k = l

\* A call talks to the session's child while that runs.
Home(x) == <<x.sid, IF x.op = "call" THEN "" ELSE "std">>
Pinned ==
  \A r \in Handlers : Talking(h[r]) /\ ~Holder(h[r]) /\ Up(h[r].conn) =>
    Home(h[r]) \in DOMAIN reg /\ reg[Home(h[r])] = h[r].conn

\* Two calls on a session have different ids.
Apart ==
  \A r, q \in Handlers :
    h[r].op = "call" /\ h[q].op = "call" /\ h[r].sid = h[q].sid /\ h[r].id = h[q].id
      => r = q \/ h[r].id = 0

\* The child of a pinned session, from its start on.
Private(c) == \/ \E k \in DOMAIN reg : k[2] = "" /\ reg[k] = c
              \/ \E r \in Handlers : h[r].op = "init" /\ Holder(h[r]) /\ h[r].conn = c

\* The handler whose call the answer m of child c is for still has its id.
Asked(x, c, m) == /\ Direct(x) /\ x.pc \in {"wait", "failed"}
                  /\ x.conn = c /\ x.id = m[1] /\ x.n = m[2]

\* Every answer that the child of a pinned session owes has its asker.
Owing == \A c \in Conns : Up(c) /\ Private(c) =>
           \A m \in child[c].owed : \E r \in Handlers : Asked(h[r], c, m)

(***************************************************************************)
(* Frozen accounts.                                                        *)
(***************************************************************************)
\* What a request must not use is frozen.
Barred == \A r \in Handlers : h[r].fz \subseteq frozen

\* No request must not use what a routed request has picked; a request to an
\* HTTP server has picked what it may use.
Picked ==
  /\ \A q, r \in Handlers : h[q].op \in Routed => h[q].acct \notin h[r].fz
  /\ \A r \in Handlers : h[r].pc = "w_send" =>
       /\ h[r].acct \notin h[r].fz
       /\ h[r].then = "first" => h[r].got \cap h[r].fz = {}

\* A routed request finds a child that it may use.
Usable ==
  \A r \in Handlers : h[r].op \in Routed =>
    /\ h[r].pc = "call" => child[h[r].conn].acct \notin h[r].fz
    /\ LET k == <<h[r].sid, "std">> IN
       h[r].pc = "use" /\ Head(h[r].cands) = "std" /\ k \in DOMAIN reg
         => child[reg[k]].acct \notin h[r].fz

\* One handler at a time has the spawn lock of a key.
Locked == \A r \in Handlers : Spawning(h[r]) =>
            LET k == <<h[r].sid, "std">> IN k \in DOMAIN spawn /\ spawn[k] = r

\* A child has the account that its starter picked.
Started ==
  \A r \in Handlers :
    /\ h[r].op \in Routed /\ Holder(h[r]) => child[h[r].conn].acct = h[r].acct
    /\ LET k == <<h[r].sid, "std">> IN
       h[r].pc = "r_sub" /\ k \in DOMAIN reg => child[reg[k]].acct = h[r].acct

\* The child of a sub-session has the sub-session's account, or that of the
\* handler that is about to replace the sub-session.
Matched ==
  \A i \in 1 .. minted :
    LET k == <<i, "std">> IN
    "std" \in DOMAIN sess[i].subs /\ k \in DOMAIN reg =>
      \/ child[reg[k]].acct = sess[i].subs["std"]
      \/ \E q \in Handlers : /\ h[q].pc = "r_sub" /\ h[q].sid = i
                             /\ h[q].acct = child[reg[k]].acct

Orphans == Kept /\ Minded
Answers == Fresh /\ Once /\ Pinned /\ Apart /\ Owing /\ AnswersOwn
Freezes == Barred /\ Picked /\ Usable /\ Locked /\ Started /\ Matched /\ FrozenStops
IInv == TypeOK /\ Shaped /\ Pending /\ Orphans /\ Answers /\ Freezes

(***************************************************************************)
(* The table of sessions.                                                  *)
(***************************************************************************)
\* What an access to the table may do: it forgets the sessions of S alone,
\* and no sub-session of the stdio server is added or changed.
Listed(S) ==
  /\ lru' \in Seq(Nat) /\ minted' \in Nat /\ minted <= minted'
  /\ sess' \in [1 .. minted' -> Session]
  /\ \A i \in Nat : Known(i) => i \in ToSet(lru') \/ i \in S
Table(S) ==
  /\ Listed(S)
  /\ \A i \in 1 .. minted' : "std" \in DOMAIN sess'[i].subs =>
       /\ i \in 1 .. minted /\ "std" \in DOMAIN sess[i].subs
       /\ sess'[i].subs["std"] = sess[i].subs["std"]

(* The entries of a concatenation. *)
LEMMA ConcatParts ==
  ASSUME NEW a \in Seq(Nat), NEW b \in Seq(Nat)
  PROVE  /\ a \o b \in Seq(Nat) /\ Len(a) \in Nat /\ Len(b) \in Nat
         /\ DOMAIN (a \o b) = 1 .. Len(a) + Len(b)
         /\ \A i \in 1 .. Len(a) : (a \o b)[i] = a[i]
         /\ \A i \in 1 .. Len(b) : (a \o b)[Len(a) + i] = b[i]
<1>1. a \o b \in Seq(Nat) /\ Len(a) \in Nat /\ Len(b) \in Nat /\ DOMAIN (a \o b) = 1 .. Len(a) + Len(b)
  OBVIOUS
<1>2. ASSUME NEW i \in 1 .. Len(a) PROVE (a \o b)[i] = a[i]
  OBVIOUS
<1>3. ASSUME NEW i \in 1 .. Len(b) PROVE (a \o b)[Len(a) + i] = b[i]
  OBVIOUS
<1> QED BY <1>1, <1>2, <1>3

(* Removing an entry of the list keeps the others. *)
LEMMA RemoveKeeps ==
  ASSUME NEW s \in Seq(Nat), NEW j \in DOMAIN s
  PROVE  /\ RemoveAt(s, j) \in Seq(Nat)
         /\ \A i \in ToSet(s) : i # s[j] => i \in ToSet(RemoveAt(s, j))
<1> DEFINE a == SubSeq(s, 1, j - 1)
           b == SubSeq(s, j + 1, Len(s))
<1>1. /\ j \in 1 .. Len(s) /\ Len(s) \in Nat /\ DOMAIN s = 1 .. Len(s)
  OBVIOUS
<1>2. /\ a \in Seq(Nat) /\ Len(a) = j - 1 /\ \A i \in 1 .. j - 1 : a[i] = s[i]
  BY <1>1, SubSeqProperties
<1>3. /\ b \in Seq(Nat) /\ Len(b) = Len(s) - j /\ \A i \in 1 .. Len(s) - j : b[i] = s[j + i]
  <2>1. b \in Seq(Nat) /\ Len(b) = Len(s) - j
    BY <1>1, SubSeqProperties
  <2>2. ASSUME NEW i \in 1 .. Len(s) - j PROVE b[i] = s[j + i]
    <3>1. i \in 1 .. (Len(s) - (j + 1)) + 1 /\ ((j + 1) + i) - 1 = j + i
      BY <1>1
    <3>2. b[i] = s[((j + 1) + i) - 1]
      BY SMTT(30), <1>1, <3>1, SubSeqProperties
    <3> QED BY <3>1, <3>2
  <2> QED BY <2>1, <2>2
<1> HIDE DEF a, b
<1>n. Len(a) = j - 1 /\ Len(b) = Len(s) - j
  BY <1>2, <1>3
<1>4. /\ a \o b \in Seq(Nat) /\ DOMAIN (a \o b) = 1 .. Len(a) + Len(b)
      /\ \A i \in 1 .. Len(a) : (a \o b)[i] = a[i]
      /\ \A i \in 1 .. Len(b) : (a \o b)[Len(a) + i] = b[i]
  BY <1>2, <1>3, ConcatParts
<1>5. ASSUME NEW i \in DOMAIN s, i # j PROVE s[i] \in ToSet(a \o b)
  <2>1. CASE i < j
    <3>0. i \in 1 .. j - 1 /\ i \in 1 .. Len(a) /\ i \in 1 .. Len(a) + Len(b)
      BY SMTT(30), <1>1, <1>2, <1>3, <2>1
    <3>1. i \in DOMAIN (a \o b) /\ (a \o b)[i] = s[i]
      BY <3>0, <1>2, <1>4
    <3> QED BY <3>1 DEF ToSet
  <2>2. CASE i > j
    <3> DEFINE k == i - j
    <3>0. /\ k \in 1 .. Len(s) - j /\ j + k = i /\ k \in 1 .. Len(b)
          /\ Len(a) + k \in 1 .. Len(a) + Len(b)
      <4>1. i \in 1 .. Len(s) /\ j \in 1 .. Len(s) /\ Len(s) \in Nat
        BY <1>1, <1>5
      <4> DEFINE n == Len(s)
      <4>2. n \in Nat /\ i \in Nat /\ j \in Nat /\ 1 <= j /\ j < i /\ i <= n
        BY <4>1, <2>2
      <4> HIDE DEF n
      <4>3. k \in 1 .. n - j /\ j + k = i /\ (j - 1) + k \in 1 .. (j - 1) + (n - j)
        BY ONLY SMTT(30), <4>2 DEF k
      <4> HIDE DEF k
      <4> QED BY <4>3, <1>n DEF n
    <3> HIDE DEF k
    <3>1. b[k] = s[i]
      BY <1>3, <3>0
    <3>2. Len(a) + k \in DOMAIN (a \o b) /\ (a \o b)[Len(a) + k] = s[i]
      BY <1>4, <3>0, <3>1
    <3> QED BY <3>1, <3>2 DEF ToSet
  <2> QED BY <1>1, <1>5, <2>1, <2>2
<1> QED BY <1>4, <1>5 DEF ToSet, RemoveAt, a, b

(* A session is removed from the list alone. *)
LEMMA WithoutKeeps ==
  ASSUME lru \in Seq(Nat), NEW id \in Nat
  PROVE  /\ Without(id) \in Seq(Nat)
         /\ \A i \in Nat : Known(i) /\ i # id => i \in ToSet(Without(id))
<1>1. CASE Known(id)
  <2> DEFINE j == CHOOSE i \in DOMAIN lru : lru[i] = id
  <2>1. j \in DOMAIN lru /\ lru[j] = id
    BY <1>1 DEF Known, ToSet
  <2> HIDE DEF j
  <2>2. Without(id) = RemoveAt(lru, j)
    BY <1>1 DEF Without, j
  <2> QED BY <2>1, <2>2, RemoveKeeps DEF Known
<1>2. CASE ~Known(id)
  BY <1>2 DEF Without, Known
<1> QED BY <1>1, <1>2

(* The list with a session in front. *)
LEMMA FrontKnown ==
  ASSUME NEW s \in Seq(Nat), NEW id \in Nat
  PROVE  <<id>> \o s \in Seq(Nat) /\ ToSet(<<id>> \o s) = {id} \cup ToSet(s)
<1> DEFINE t == <<id>> \o s
<1>1. /\ t \in Seq(Nat) /\ DOMAIN t = 1 .. Len(s) + 1 /\ DOMAIN s = 1 .. Len(s) /\ Len(s) \in Nat
      /\ t[1] = id /\ \A i \in 1 .. Len(s) : t[i + 1] = s[i]
  OBVIOUS
<1> HIDE DEF t
<1>2. \A i \in 1 .. Len(s) + 1 : i = 1 \/ (i - 1 \in 1 .. Len(s) /\ (i - 1) + 1 = i)
  BY <1>1
<1>3. \A v \in ToSet(t) : v = id \/ v \in ToSet(s)
  <2> SUFFICES ASSUME NEW i \in 1 .. Len(s) + 1, i # 1 PROVE t[i] \in ToSet(s)
    BY <1>1 DEF ToSet
  <2> DEFINE j == i - 1
  <2>1. j \in 1 .. Len(s) /\ j + 1 = i
    BY <1>2
  <2>2. t[i] = s[j] /\ j \in DOMAIN s
    BY <1>1, <2>1
  <2> QED BY <2>2 DEF ToSet
<1>4. \A i \in 1 .. Len(s) : i + 1 \in DOMAIN t
  BY <1>1
<1>5. \A v \in ToSet(s) : v \in ToSet(t)
  BY <1>1, <1>4 DEF ToSet
<1>6. id \in ToSet(t)
  BY <1>1 DEF ToSet
<1> QED BY <1>1, <1>3, <1>5, <1>6 DEF t

(* A new session's record. *)
LEMMA EmptySession == NoSession \in Session /\ DOMAIN NoSession.subs = {}
<1>1. <<>> \in Subs /\ DOMAIN <<>> = {}
  BY DEF Subs
<1> QED BY <1>1 DEF NoSession, Session, Route

(* An access renews the session or forgets it. *)
LEMMA AccessListed ==
  ASSUME TypeOK, NEW id \in 1 .. minted, NEW s \in Session, Access(id, s)
  PROVE  /\ Listed(Expired(id)) /\ (Live(id) => id \in ToSet(lru') /\ Expired(id) = {}) /\ minted' = minted
         /\ ~Live(id) => ~Known(id) \/ id \in Expired(id)
         /\ \A i \in 1 .. minted : i # id => sess'[i] = sess[i]
         /\ sess'[id] = s \/ sess'[id] = NoSession
         /\ Expired(id) \subseteq Nat
<1>1. lru \in Seq(Nat) /\ id \in Nat /\ minted \in Nat /\ sess \in [1 .. minted -> Session] /\ minted' = minted
  BY DEF TypeOK, Access
<1>2. Without(id) \in Seq(Nat) /\ \A i \in Nat : Known(i) /\ i # id => i \in ToSet(Without(id))
  BY <1>1, WithoutKeeps
<1>3. lru' \in Seq(Nat) /\ \A i \in Nat : Known(i) /\ i # id => i \in ToSet(lru')
  BY <1>1, <1>2, FrontKnown DEF Access, Known
<1>4. Live(id) => id \in ToSet(lru') /\ Expired(id) = {}
  BY <1>1, <1>2, FrontKnown DEF Access, Known, Live, Expired
<1>5. Known(id) => id \in ToSet(lru') \/ id \in Expired(id)
  BY <1>4 DEF Live, Expired
<1>6. NoSession \in Session /\ DOMAIN NoSession.subs = {}
  BY EmptySession
<1>7. /\ sess' \in [1 .. minted -> Session]
      /\ \A i \in 1 .. minted : i # id => sess'[i] = sess[i]
      /\ sess'[id] = s \/ sess'[id] = NoSession
  BY <1>1, <1>6 DEF Access
<1>8. Expired(id) \subseteq Nat /\ (~Live(id) => ~Known(id) \/ id \in Expired(id))
  BY <1>1 DEF Expired, Live
<1> QED BY <1>1, <1>3, <1>4, <1>5, <1>7, <1>8 DEF Listed

(* An access that adds or changes no sub-session of the stdio server. *)
LEMMA AccessTable ==
  ASSUME TypeOK, NEW id \in 1 .. minted, NEW s \in Session, Access(id, s),
         "std" \in DOMAIN s.subs => /\ "std" \in DOMAIN sess[id].subs
                                    /\ s.subs["std"] = sess[id].subs["std"]
  PROVE  /\ Table(Expired(id)) /\ (Live(id) => id \in ToSet(lru') /\ Expired(id) = {}) /\ minted' = minted
         /\ ~Live(id) => ~Known(id) \/ id \in Expired(id)
         /\ Expired(id) \subseteq Nat
<1>1. /\ Listed(Expired(id)) /\ (Live(id) => id \in ToSet(lru') /\ Expired(id) = {}) /\ minted' = minted
      /\ ~Live(id) => ~Known(id) \/ id \in Expired(id)
      /\ \A i \in 1 .. minted : i # id => sess'[i] = sess[i]
      /\ sess'[id] = s \/ sess'[id] = NoSession
      /\ Expired(id) \subseteq Nat
  BY AccessListed
<1> QED BY <1>1, EmptySession DEF Table

(* A new session pushes out the least recently used ones. *)
LEMMA PutTable ==
  ASSUME TypeOK, NEW s \in Session, DOMAIN s.subs = {}, Put(s)
  PROVE  Table(Overflow) /\ minted' = minted + 1 /\ Overflow \subseteq Nat
<1>1. /\ lru \in Seq(Nat) /\ minted \in Nat /\ sess \in [1 .. minted -> Session] /\ minted' = minted + 1
      /\ TableMax \in Nat \ {0} /\ Len(lru) \in Nat
  BY SMTT(30), SessionsAssumption DEF TypeOK, Put
<1> DEFINE n == IF Len(lru) < TableMax THEN Len(lru) ELSE TableMax - 1
           kept == SubSeq(lru, 1, n)
           over == SubSeq(lru, TableMax, Len(lru))
<1>2. n \in 0 .. Len(lru) /\ (n = Len(lru) \/ n = TableMax - 1)
  BY <1>1
<1>3. lru' = <<minted + 1>> \o kept
  BY DEF Put
<1> HIDE DEF n
<1>4. kept \in Seq(Nat) /\ Len(kept) = n /\ \A i \in 1 .. n : kept[i] = lru[i]
  BY <1>1, <1>2
<1>5. over \in Seq(Nat) /\ \A i \in TableMax .. Len(lru) : lru[i] \in ToSet(over)
  <2>1. over \in Seq(Nat) /\ Len(over) = IF TableMax <= Len(lru) THEN (Len(lru) - TableMax) + 1 ELSE 0
    BY <1>1, SubSeqProperties
  <2>2. ASSUME NEW i \in TableMax .. Len(lru) PROVE lru[i] \in ToSet(over)
    <3> DEFINE j == (i - TableMax) + 1
    <3>1. j \in 1 .. (Len(lru) - TableMax) + 1 /\ (TableMax + j) - 1 = i /\ j \in 1 .. Len(over)
      BY <1>1, <2>1
    <3> HIDE DEF j
    <3>2. over[j] = lru[(TableMax + j) - 1]
      BY <1>1, <3>1, SubSeqProperties
    <3>3. j \in DOMAIN over /\ over[j] = lru[i]
      BY <2>1, <3>1, <3>2
    <3> QED BY <3>3 DEF ToSet
  <2> QED BY <2>1, <2>2
<1> HIDE DEF kept, over
<1>6. ToSet(lru') = {minted + 1} \cup ToSet(kept) /\ lru' \in Seq(Nat)
  BY <1>1, <1>3, <1>4, FrontKnown
<1>7. ASSUME NEW v \in Nat, Known(v) PROVE Known(v)' \/ v \in Overflow
  <2>1. PICK i \in 1 .. Len(lru) : lru[i] = v
    BY <1>1, <1>7 DEF Known, ToSet
  <2>2. CASE i <= n
    <3>1. i \in DOMAIN kept /\ kept[i] = v
      BY <1>1, <1>2, <1>4, <2>1, <2>2
    <3> QED BY <3>1, <1>6 DEF Known, ToSet
  <2>3. CASE i > n
    <3>1. i \in TableMax .. Len(lru)
      BY <1>1, <1>2, <2>1, <2>3
    <3> QED BY <3>1, <1>5, <2>1 DEF Overflow, over
  <2> QED BY <2>1, <2>2, <2>3, <1>1, <1>2
<1>8. NoSession \in Session /\ DOMAIN NoSession.subs = {}
  BY EmptySession
<1>9. /\ sess' \in [1 .. minted' -> Session]
      /\ \A i \in 1 .. minted' : \/ i \in 1 .. minted /\ sess'[i] = sess[i]
                                 \/ DOMAIN sess'[i].subs = {}
  <2>1. sess' = [i \in 1 .. minted + 1 |-> IF i = minted + 1 THEN s
                                           ELSE IF i \in Overflow THEN NoSession ELSE sess[i]]
    BY DEF Put
  <2>2. \A i \in 1 .. minted + 1 : i # minted + 1 => i \in 1 .. minted
    BY <1>1
  <2>3. \A i \in 1 .. minted + 1 : \/ sess'[i] = s \/ sess'[i] = NoSession
                                   \/ i \in 1 .. minted /\ sess'[i] = sess[i]
    BY <2>1, <2>2
  <2>4. \A i \in 1 .. minted + 1 : sess'[i] \in Session
    BY <2>3, <1>1, <1>8
  <2> QED BY <2>1, <2>3, <2>4, <1>1, <1>8
<1>10. Overflow \subseteq Nat
  <2>1. \A i \in DOMAIN over : over[i] \in Nat
    BY <1>5
  <2> QED BY <2>1 DEF Overflow, over, ToSet
<1>11. \A i \in Nat : Known(i) => i \in ToSet(lru') \/ i \in Overflow
  BY <1>7 DEF Known
<1>12. minted' \in Nat /\ minted <= minted'
  BY <1>1
<1>13. Listed(Overflow)
  BY <1>6, <1>9, <1>11, <1>12 DEF Listed
<1>14. \A i \in 1 .. minted' : "std" \in DOMAIN sess'[i].subs => i \in 1 .. minted /\ sess'[i] = sess[i]
  BY <1>9
<1> QED BY <1>1, <1>10, <1>13, <1>14 DEF Table

(* A session is deleted. *)
LEMMA DeleteTable ==
  ASSUME TypeOK, NEW id \in 1 .. minted, Delete(id)
  PROVE  Table(IF Known(id) THEN {id} ELSE {}) /\ minted' = minted
<1>1. /\ lru \in Seq(Nat) /\ id \in Nat /\ minted \in Nat /\ sess \in [1 .. minted -> Session]
      /\ minted' = minted /\ lru' = Without(id) /\ sess' = [sess EXCEPT ![id] = NoSession]
  BY DEF TypeOK, Delete
<1>2. lru' \in Seq(Nat) /\ \A i \in Nat : Known(i) /\ i # id => Known(i)'
  BY <1>1, WithoutKeeps DEF Known
<1>3. /\ sess' \in [1 .. minted -> Session]
      /\ \A i \in 1 .. minted : sess'[i] = sess[i] \/ DOMAIN sess'[i].subs = {}
  BY <1>1, EmptySession
<1> DEFINE gone == IF Known(id) THEN {id} ELSE {}
<1>4. \A i \in Nat : Known(i) => i \in ToSet(lru') \/ i \in gone
  BY <1>2 DEF Known
<1> HIDE DEF gone
<1>5. minted' \in Nat /\ minted <= minted'
  BY <1>1
<1>6. Listed(gone)
  BY <1>1, <1>2, <1>3, <1>4, <1>5 DEF Listed
<1>7. \A i \in 1 .. minted' : "std" \in DOMAIN sess'[i].subs => i \in 1 .. minted /\ sess'[i] = sess[i]
  BY <1>1, <1>3
<1>8. Table(gone)
  BY <1>6, <1>7 DEF Table
<1> QED BY <1>1, <1>8 DEF gone

(* The table does not change, or a session grows old. *)
LEMMA QuietTable ==
  ASSUME TypeOK, UNCHANGED <<lru, sess, minted>>
  PROVE  Table({}) /\ minted' = minted
BY DEF TypeOK, Table, Listed, Known

(***************************************************************************)
(* The registry and the children.                                          *)
(***************************************************************************)
Lives(c) == child'[c].st # "dead"

\* What a step may do to them: a child that is dead stays so, and a
\* registered child that loses its place is closed.
Procs ==
  /\ child' \in Seq(Child) /\ Len(child) <= Len(child')
  /\ DOMAIN reg' \subseteq Keys /\ reg' \in [DOMAIN reg' -> 1 .. Len(child')]
  /\ \A c \in Conns : (Lives(c) => Up(c)) /\ child'[c].acct = child[c].acct
  /\ \A k \in DOMAIN reg : Lives(reg[k]) => k \in DOMAIN reg' /\ reg'[k] = reg[k]

\* Nothing is registered, nobody registers with a child and no child is asked.
Unasked ==
  /\ Len(child') = Len(child)
  /\ \A c \in Conns : /\ child'[c].owed \subseteq child[c].owed
                      /\ child'[c].pend = child[c].pend /\ child'[c].mu = child[c].mu
Unregistered == \A k \in DOMAIN reg' : k \in DOMAIN reg /\ reg'[k] = reg[k]

(* Closing children. *)
LEMMA ClosedIs ==
  ASSUME TypeOK, NEW C, child' = Closed(C)
  PROVE  /\ child' \in Seq(Child) /\ Unasked /\ Len(child) \in Nat
         /\ \A c \in Conns : /\ Lives(c) => Up(c) /\ c \notin C
                             /\ child'[c].acct = child[c].acct
<1>1. child \in Seq(Child) /\ Len(child) \in Nat /\ \A c \in Conns : child[c] \in Child
  BY DEF TypeOK, Conns
<1>2. \A c \in Conns : /\ [child[c] EXCEPT !.st = "dead", !.owed = {}] \in Child
                       /\ child'[c] = IF c \in C THEN [child[c] EXCEPT !.st = "dead", !.owed = {}] ELSE child[c]
  BY <1>1 DEF Closed, Child
<1>3. child' \in Seq(Child) /\ Len(child') = Len(child)
  <2>1. child' \in [1 .. Len(child) -> Child]
    BY <1>1, <1>2 DEF Closed, Conns
  <2>2. child' \in Seq(Child)
    BY <1>1, <2>1, IsASeq
  <2> QED BY <1>1, <2>1, <2>2
<1>4. ASSUME NEW c \in Conns
      PROVE  /\ child'[c].owed \subseteq child[c].owed /\ child'[c].pend = child[c].pend
             /\ child'[c].mu = child[c].mu /\ child'[c].acct = child[c].acct
             /\ child'[c].st # "dead" => child[c].st # "dead" /\ c \notin C
  <2>1. CASE c \in C
    <3>1. child'[c] = [child[c] EXCEPT !.st = "dead", !.owed = {}] /\ child[c] \in Child
      BY <1>1, <1>2, <2>1
    <3> QED BY <3>1 DEF Child
  <2>2. CASE c \notin C
    BY <1>2, <2>2
  <2> QED BY <2>1, <2>2
<1> QED BY <1>1, <1>3, <1>4 DEF Unasked, Lives, Up

(* The types of the registry. *)
LEMMA RegIs ==
  ASSUME TypeOK
  PROVE  /\ Len(child) \in Nat /\ DOMAIN reg \subseteq Keys /\ reg \in [DOMAIN reg -> Conns]
         /\ \A k \in DOMAIN reg : reg[k] \in Conns
         /\ \A c \in Conns : child[c] \in Child
BY DEF TypeOK, Conns

(* Children are closed and the registry does not change. *)
LEMMA CloseProcs ==
  ASSUME TypeOK, NEW C, C \cap {reg[k] : k \in DOMAIN reg} = {}, child' = Closed(C), reg' = reg
  PROVE  Procs /\ Unasked /\ Unregistered /\ \A c \in Conns \cap C : ~Lives(c)
<1>1. /\ child' \in Seq(Child) /\ Unasked /\ Len(child) \in Nat
      /\ \A c \in Conns : (Lives(c) => Up(c) /\ c \notin C) /\ child'[c].acct = child[c].acct
  BY ClosedIs
<1> QED BY <1>1, RegIs DEF Procs, Unasked, Unregistered, Conns

(* A child dies by itself: it stays registered. *)
LEMMA DiesProcs ==
  ASSUME TypeOK, NEW C, child' = Closed(C), reg' = reg
  PROVE  Procs /\ Unasked /\ Unregistered
<1>1. /\ child' \in Seq(Child) /\ Unasked /\ Len(child) \in Nat
      /\ \A c \in Conns : (Lives(c) => Up(c) /\ c \notin C) /\ child'[c].acct = child[c].acct
  BY ClosedIs
<1> QED BY <1>1, RegIs DEF Procs, Unasked, Unregistered, Conns

(* Keys are removed from the registry and their children closed. *)
LEMMA KillProcs ==
  ASSUME TypeOK, NEW keys, Kill(keys)
  PROVE  /\ Procs /\ Unasked /\ Unregistered /\ DOMAIN reg' = DOMAIN reg \ keys
         /\ \A k \in DOMAIN reg : k \in keys => ~Lives(reg[k])
<1>1. /\ child' \in Seq(Child) /\ Unasked /\ Len(child) \in Nat
      /\ \A c \in Conns : (Lives(c) => Up(c) /\ c \notin Registered(keys)) /\ child'[c].acct = child[c].acct
  BY ClosedIs DEF Kill
<1>2. DOMAIN reg' = DOMAIN reg \ keys /\ \A k \in DOMAIN reg' : reg'[k] = reg[k]
  BY DEF Kill, Restrict
<1>3. reg' \in [DOMAIN reg' -> 1 .. Len(child')] /\ Unregistered
  <2>1. reg' = [k \in DOMAIN reg' |-> reg'[k]]
    BY <1>2 DEF Kill, Restrict
  <2> QED BY <2>1, <1>1, <1>2, RegIs DEF Unregistered, Unasked, Conns
<1>4. \A k \in DOMAIN reg : k \in keys => ~Lives(reg[k])
  BY <1>1, RegIs DEF Registered
<1> QED BY <1>1, <1>2, <1>3, <1>4, RegIs DEF Procs, Unasked, Conns

(* A child is registered and the one it replaces is closed. *)
LEMMA RegisterProcs ==
  ASSUME TypeOK, NEW key \in Keys, NEW c \in Conns, Register(key, c)
  PROVE  /\ Procs /\ Unasked /\ DOMAIN reg' = DOMAIN reg \cup {key} /\ reg'[key] = c
         /\ \A k \in DOMAIN reg' : k # key => k \in DOMAIN reg /\ reg'[k] = reg[k]
<1>1. /\ child' \in Seq(Child) /\ Unasked /\ Len(child) \in Nat
      /\ \A d \in Conns : (Lives(d) => Up(d) /\ d \notin Registered({key})) /\ child'[d].acct = child[d].acct
  BY ClosedIs DEF Register
<1>2. /\ DOMAIN reg' = DOMAIN reg \cup {key} /\ reg'[key] = c
      /\ \A k \in DOMAIN reg' : k # key => k \in DOMAIN reg /\ reg'[k] = reg[k]
  BY DEF Register, Bind
<1>3. reg' \in [DOMAIN reg' -> 1 .. Len(child')]
  <2>1. reg' = [k \in DOMAIN reg' |-> reg'[k]]
    BY <1>2 DEF Register, Bind
  <2> QED BY <2>1, <1>1, <1>2, RegIs DEF Unasked, Conns
<1>4. key \in DOMAIN reg => ~Lives(reg[key])
  BY <1>1, RegIs DEF Registered
<1> QED BY <1>1, <1>2, <1>3, <1>4, RegIs DEF Procs, Unasked, Conns

(* Nothing changes. *)
LEMMA SameProcs ==
  ASSUME TypeOK, reg' = reg, child' = child
  PROVE  Procs /\ Unasked /\ Unregistered
BY RegIs DEF TypeOK, Procs, Unasked, Unregistered, Lives, Up, Conns

(* One child changes in what it owes, who waits for it and who writes to it. *)
LEMMA TouchProcs ==
  ASSUME TypeOK, reg' = reg, NEW c \in Conns, NEW x \in Child, child' = [child EXCEPT ![c] = x],
         x.acct = child[c].acct, x.st # "dead" => Up(c)
  PROVE  /\ Procs /\ Unregistered /\ Len(child') = Len(child) /\ child'[c] = x
         /\ \A d \in Conns : d # c => child'[d] = child[d]
<1>1. child \in Seq(Child) /\ Len(child) \in Nat /\ DOMAIN child = Conns
  BY DEF TypeOK, Conns
<1>2. child' \in Seq(Child) /\ Len(child') = Len(child) /\ child'[c] = x
      /\ \A d \in Conns : d # c => child'[d] = child[d]
  BY <1>1, ExceptSeq DEF Conns
<1> QED BY <1>1, <1>2, RegIs DEF Procs, Unregistered, Lives, Up, Conns

(* A child is started. *)
LEMMA StartProcs ==
  ASSUME TypeOK, reg' = reg, NEW x \in Child, child' = Append(child, x)
  PROVE  /\ Procs /\ Unregistered /\ Len(child') = Len(child) + 1 /\ child'[Len(child) + 1] = x
         /\ \A d \in Conns : child'[d] = child[d]
         /\ Len(child) + 1 \notin Conns
<1>1. child \in Seq(Child) /\ Len(child) \in Nat /\ DOMAIN child = Conns
  BY DEF TypeOK, Conns
<1>2. /\ child' \in Seq(Child) /\ Len(child') = Len(child) + 1 /\ child'[Len(child) + 1] = x
      /\ \A d \in 1 .. Len(child) : child'[d] = child[d]
  BY <1>1
<1>3. \A c \in Conns : c \in 1 .. Len(child) + 1
  BY <1>1 DEF Conns
<1> QED BY <1>1, <1>2, <1>3, RegIs DEF Procs, Unregistered, Lives, Up, Conns

(***************************************************************************)
(* The parts of the invariant under a step that is known by what it does   *)
(* to the table, the registry, the children and the handlers' records.     *)
(***************************************************************************)
(* Types. *)
LEMMA TypeKeeps ==
  ASSUME NEW S, Listed(S), Procs, h' \in [Handlers -> State],
         spawn' \in [DOMAIN spawn' -> Handlers],
         frozen' \subseteq Accounts, faults' \in Nat, count' \in Nat,
         misuse' \subseteq Ways, mixed' \subseteq {"direct", "other"}
  PROVE  TypeOK'
BY DEF TypeOK, Listed, Procs, Conns

(* The shape of the handlers. *)
LEMMA ShapedKeeps ==
  ASSUME TypeOK, Shaped, NEW S, Listed(S), Procs,
         \A r \in Handlers : h'[r] = h[r] \/ Well(h'[r], minted', Len(child'))
  PROVE  Shaped'
<1>1. /\ minted \in Nat /\ minted' \in Nat /\ minted <= minted'
      /\ Len(child) \in Nat /\ Len(child') \in Nat /\ Len(child) <= Len(child')
  BY DEF TypeOK, Listed, Procs
<1>2. 1 .. minted \subseteq 1 .. minted' /\ 1 .. Len(child) \subseteq 1 .. Len(child')
  BY <1>1
<1>3. ASSUME NEW x, Well(x, minted, Len(child)) PROVE Well(x, minted', Len(child'))
  BY <1>2, <1>3 DEF Well, Places
<1> QED BY <1>3 DEF Shaped

(* Who waits for a child. *)
LEMMA PendingKeeps ==
  ASSUME TypeOK, Shaped, Pending, Unasked,
         \A r \in Handlers : h[r].pc \in {"wait", "blocked"} =>
           h'[r].pc = h[r].pc /\ h'[r].conn = h[r].conn /\ h'[r].id = h[r].id,
         \A r \in Handlers : h'[r].pc = "blocked" => h[r].pc = "blocked"
  PROVE  Pending'
<1>1. ASSUME NEW c \in Conns, NEW p \in child[c].pend
      PROVE  h'[p[2]].conn = c /\ h'[p[2]].id = p[1] /\ h'[p[2]].pc \in {"wait", "blocked"}
  <2>1. p[2] \in Handlers
    BY RegIs DEF Child
  <2>2. h[p[2]].conn = c /\ h[p[2]].id = p[1] /\ h[p[2]].pc \in {"wait", "blocked"}
    BY DEF Pending
  <2> QED BY <2>1, <2>2
<1>2. ASSUME NEW r \in Handlers, h'[r].pc = "blocked"
      PROVE  child'[h'[r].conn].mu = r
  <2>1. h[r].pc = "blocked" /\ h'[r].conn = h[r].conn
    BY <1>2
  <2>2. h[r].conn \in Conns
    BY <2>1 DEF Shaped, Well, Places, Talking, Conns
  <2> QED BY <2>1, <2>2 DEF Pending, Unasked
<1> QED BY <1>1, <1>2 DEF Pending, Unasked, Conns

\* What a handler's step may do without leaving an orphan.
OrphanStep(x, y) ==
  /\ Holder(x) => \/ Holder(y) /\ y.conn = x.conn
                  \/ ~Lives(x.conn)
                  \/ \E k \in DOMAIN reg' : reg'[k] = x.conn
  /\ \A k \in DOMAIN reg \cap DOMAIN reg' : Minds(x, k) => k[1] \in ToSet(lru') \/ Minds(y, k)

(* A handler that does not change leaves none. *)
LEMMA OrphanSame ==
  ASSUME NEW x
  PROVE  OrphanStep(x, x)
BY DEF OrphanStep

(* No orphans. *)
LEMMA OrphansKeep ==
  ASSUME TypeOK, Orphans, Procs, NEW S, Listed(S),
         \A r \in Handlers : OrphanStep(h[r], h'[r]),
         \A i \in S : \E r \in Handlers : i \in h'[r].fire,
         \A c \in 1 .. Len(child') : c \in Conns \/ \E r \in Handlers : Holder(h'[r]) /\ h'[r].conn = c,
         \A k \in DOMAIN reg' : k \in DOMAIN reg \/ \E r \in Handlers : Minds(h'[r], k)
  PROVE  Orphans'
<1>1. Kept'
  <2> SUFFICES ASSUME NEW c \in 1 .. Len(child'), Lives(c)
               PROVE  \/ \E k \in DOMAIN reg' : reg'[k] = c
                      \/ \E r \in Handlers : Holder(h'[r]) /\ h'[r].conn = c
    BY DEF Kept, Conns, Up, Lives
  <2>1. CASE c \in Conns
    <3>1. Up(c)
      BY <2>1 DEF Procs
    <3>2. CASE \E k \in DOMAIN reg : reg[k] = c
      BY <3>2 DEF Procs
    <3>3. CASE \E r \in Handlers : Holder(h[r]) /\ h[r].conn = c
      BY <3>3 DEF OrphanStep
    <3> QED BY <2>1, <3>1, <3>2, <3>3 DEF Orphans, Kept
  <2> QED BY <2>1
<1>2. Minded'
  <2> SUFFICES ASSUME NEW k \in DOMAIN reg', k \in DOMAIN reg
               PROVE  k[1] \in ToSet(lru') \/ \E r \in Handlers : Minds(h'[r], k)
    BY DEF Minded, Known, Minds, Checking
  <2>1. k[1] \in Nat
    BY RegIs DEF Keys
  <2>2. CASE Known(k[1])
    <3>1. k[1] \in ToSet(lru') \/ k[1] \in S
      BY <2>1, <2>2 DEF Listed, Known
    <3> QED BY <3>1 DEF Minds
  <2>3. CASE \E r \in Handlers : Minds(h[r], k)
    BY <2>3 DEF OrphanStep
  <2> QED BY <2>2, <2>3 DEF Orphans, Minded
<1> QED BY <1>1, <1>2 DEF Orphans

\* A handler goes on with the child and the call it has.
GoesOn(x, y) ==
  /\ Holder(y) => Holder(x) /\ y.conn = x.conn /\ y.op = x.op
  /\ Talking(y) => Talking(x) /\ (Holder(x) => Holder(y)) /\ y.conn = x.conn /\ y.op = x.op /\ y.sid = x.sid
  /\ y.op = "call" /\ y.id # 0 => x.op = "call" /\ y.sid = x.sid /\ y.id = x.id

\* It starts a child, or takes a registered one for a call.
StartsOne(x, y) == Holder(y) /\ y.conn = Len(child) + 1 /\ y.op = x.op /\ y.op # "call"
TakesOne(y) ==
  /\ ~Holder(y)
  /\ Home(y) \in DOMAIN reg /\ y.conn = reg[Home(y)]
  /\ y.op = "call" => \A q \in Handlers : h[q].op = "call" /\ h[q].sid = y.sid => h[q].id # y.id

\* The child of the handler a is registered.
RegistersOf(a) ==
  /\ a \in Handlers /\ Holder(h[a]) /\ ~Holder(h'[a]) /\ ~Talking(h'[a])
  /\ \E l \in DOMAIN reg' :
       /\ reg'[l] = h[a].conn /\ (l[2] = "" => h[a].op = "init")
       /\ \A k \in DOMAIN reg' : k # l => k \in DOMAIN reg /\ reg'[k] = reg[k]

\* The asker of an answer that the child owes stays.
Awaits(x, y) ==
  x.pc \in {"wait", "failed"} /\ Direct(x) /\ Lives(x.conn) =>
    \/ Asked(y, x.conn, <<x.id, x.n>>)
    \/ <<x.id, x.n>> \notin child'[x.conn].owed

(* A handler that does not change. *)
LEMMA AwaitsSame ==
  ASSUME NEW x
  PROVE  Awaits(x, x)
BY DEF Awaits, Asked

(* Answers. *)
LEMMA AnswersKeep ==
  ASSUME TypeOK, TypeOK', Shaped, Answers, Procs, NEW a,
         \A r \in Handlers \ {a} : GoesOn(h[r], h'[r]),
         a \in Handlers => GoesOn(h[a], h'[a]) \/ StartsOne(h[a], h'[a]) \/ TakesOne(h'[a]),
         Unregistered \/ RegistersOf(a),
         \A r \in Handlers : Awaits(h[r], h'[r]),
         \A c \in 1 .. Len(child') : \A m \in child'[c].owed :
           \/ c \in Conns /\ m \in child[c].owed
           \/ \E r \in Handlers : Asked(h'[r], c, m)
           \/ ~Private(c)',
         "direct" \notin mixed'
  PROVE  Answers'
<1> USE DEF Answers
<1>t. /\ Len(child) \in Nat /\ \A k \in DOMAIN reg : reg[k] \in 1 .. Len(child)
      /\ \A r \in Handlers : Holder(h[r]) \/ Talking(h[r]) => h[r].conn \in 1 .. Len(child)
  BY RegIs DEF Conns, Shaped, Well, Places
<1>f. Len(child) + 1 \notin 1 .. Len(child)
  BY <1>t
<1>1. Fresh'
  <2> SUFFICES ASSUME NEW r \in Handlers, Holder(h'[r])
               PROVE  /\ \A k \in DOMAIN reg' : reg'[k] # h'[r].conn
                      /\ \A q \in Handlers \ {r} :
                           Talking(h'[q]) \/ Holder(h'[q]) => h'[q].conn # h'[r].conn
    BY DEF Fresh, Holder, Talking
  <2>1. CASE Holder(h[r]) /\ h'[r].conn = h[r].conn
    <3>1. \A k \in DOMAIN reg : reg[k] # h'[r].conn
      BY <2>1 DEF Fresh
    <3>2. ASSUME RegistersOf(a) PROVE a # r /\ h[a].conn # h'[r].conn
      BY <2>1, <3>2 DEF Fresh, RegistersOf
    <3>3. \A k \in DOMAIN reg' : reg'[k] # h'[r].conn
      BY <3>1, <3>2 DEF Unregistered, RegistersOf
    <3>4. ASSUME NEW q \in Handlers \ {r}, Talking(h'[q]) \/ Holder(h'[q])
          PROVE  h'[q].conn # h'[r].conn
      <4>1. CASE GoesOn(h[q], h'[q])
        BY <2>1, <3>4, <4>1 DEF Fresh, GoesOn
      <4>2. CASE StartsOne(h[q], h'[q])
        BY <2>1, <4>2, <1>t, <1>f DEF StartsOne
      <4>3. CASE TakesOne(h'[q])
        BY <4>3, <3>1 DEF TakesOne
      <4> QED BY <4>1, <4>2, <4>3
    <3> QED BY <3>3, <3>4
  <2>2. CASE StartsOne(h[a], h'[a]) /\ r = a
    <3>1. Unregistered
      BY <2>2 DEF RegistersOf
    <3>2. \A k \in DOMAIN reg' : reg'[k] # h'[r].conn
      BY <3>1, <2>2, <1>t, <1>f DEF Unregistered, StartsOne
    <3>3. ASSUME NEW q \in Handlers \ {r}, Talking(h'[q]) \/ Holder(h'[q])
          PROVE  h'[q].conn # h'[r].conn
      BY <2>2, <3>3, <1>t, <1>f DEF StartsOne, GoesOn
    <3> QED BY <3>2, <3>3
  <2>3. CASE r = a /\ TakesOne(h'[a])
    BY <2>3 DEF TakesOne
  <2> QED BY <2>1, <2>2, <2>3 DEF GoesOn
<1>2. Once'
  <2>1. CASE Unregistered
    BY <2>1 DEF Once, Unregistered
  <2>2. CASE RegistersOf(a)
    <3>1. \A k \in DOMAIN reg : reg[k] # h[a].conn
      BY <2>2 DEF RegistersOf, Fresh
    <3> QED BY <2>2, <3>1 DEF RegistersOf, Once
  <2> QED BY <2>1, <2>2
<1>3. Pinned'
  <2> SUFFICES ASSUME NEW r \in Handlers, Talking(h'[r]), ~Holder(h'[r]), Lives(h'[r].conn)
               PROVE  Home(h'[r]) \in DOMAIN reg' /\ reg'[Home(h'[r])] = h'[r].conn
    BY DEF Pinned, Talking, Holder, Home, Up, Lives
  <2>1. CASE GoesOn(h[r], h'[r])
    <3>1. /\ Talking(h[r]) /\ ~Holder(h[r]) /\ h'[r].conn = h[r].conn
          /\ h'[r].op = h[r].op /\ h'[r].sid = h[r].sid
      BY <2>1 DEF GoesOn
    <3>2. Up(h[r].conn)
      BY <3>1, <1>t DEF Procs, Conns
    <3>3. Home(h[r]) \in DOMAIN reg /\ reg[Home(h[r])] = h[r].conn /\ Home(h'[r]) = Home(h[r])
      BY <3>1, <3>2 DEF Pinned, Home
    <3> QED BY <3>1, <3>3 DEF Procs
  <2>2. CASE r = a /\ TakesOne(h'[a])
    BY <2>2 DEF TakesOne, Procs
  <2>3. CASE r = a /\ StartsOne(h[a], h'[a])
    BY <2>3 DEF StartsOne
  <2> QED BY <2>1, <2>2, <2>3
<1>4. Apart'
  <2>1. ASSUME NEW r \in Handlers, NEW q \in Handlers, r # q,
               h'[r].op = "call", h'[q].op = "call", h'[r].sid = h'[q].sid, h'[r].id = h'[q].id, h'[r].id # 0,
               q # a
        PROVE  FALSE
    <3>1. h[q].op = "call" /\ h'[q].sid = h[q].sid /\ h'[q].id = h[q].id
      BY <2>1 DEF GoesOn
    <3>2. CASE GoesOn(h[r], h'[r])
      BY <2>1, <3>1, <3>2 DEF GoesOn, Apart
    <3>3. CASE TakesOne(h'[r])
      BY <2>1, <3>1, <3>3 DEF TakesOne
    <3>4. CASE StartsOne(h[r], h'[r])
      BY <2>1, <3>4 DEF StartsOne
    <3> QED BY <3>2, <3>3, <3>4
  <2> QED BY <2>1 DEF Apart
<1>5. Owing'
  <2> SUFFICES ASSUME NEW c \in 1 .. Len(child'), Lives(c), Private(c)', NEW m \in child'[c].owed
               PROVE  \E r \in Handlers : Asked(h'[r], c, m)
    BY DEF Owing, Conns, Up, Lives, Asked, Direct
  <2>1. CASE c \in Conns /\ m \in child[c].owed
    <3>1. Private(c)
      <4>1. CASE \E k \in DOMAIN reg' : k[2] = "" /\ reg'[k] = c
        <5>1. PICK k \in DOMAIN reg' : k[2] = "" /\ reg'[k] = c
          BY <4>1
        <5>2. CASE k \in DOMAIN reg /\ reg'[k] = reg[k]
          BY <5>1, <5>2 DEF Private
        <5>3. CASE RegistersOf(a) /\ c = h[a].conn
          <6>1. (k \in DOMAIN reg /\ reg[k] = c) \/ h[a].op = "init"
            BY <5>1, <5>3 DEF RegistersOf
          <6> QED BY <5>1, <5>3, <6>1 DEF RegistersOf, Private
        <5> QED BY <5>1, <5>2, <5>3 DEF Unregistered, RegistersOf
      <4>2. CASE \E r \in Handlers : h'[r].op = "init" /\ Holder(h'[r]) /\ h'[r].conn = c
        <5>1. PICK r \in Handlers : h'[r].op = "init" /\ Holder(h'[r]) /\ h'[r].conn = c
          BY <4>2
        <5>2. c # Len(child) + 1
          BY <2>1, <1>f DEF Conns
        <5>3. GoesOn(h[r], h'[r])
          BY <5>1, <5>2 DEF StartsOne, TakesOne
        <5> QED BY <5>1, <5>3 DEF GoesOn, Private
      <4> QED BY <4>1, <4>2 DEF Private, Holder
    <3>2. Up(c)
      BY <2>1 DEF Procs
    <3>3. PICK r \in Handlers : Asked(h[r], c, m)
      BY <2>1, <3>1, <3>2 DEF Owing
    <3>4. m = <<h[r].id, h[r].n>>
      <4>1. m \in Nat \X Nat
        BY <2>1, RegIs DEF Child
      <4> QED BY <3>3, <4>1 DEF Asked
    <3>5. Asked(h'[r], c, m) \/ m \notin child'[c].owed
      BY <3>3, <3>4 DEF Asked, Awaits
    <3> QED BY <3>5
  <2> QED BY <2>1
<1>6. AnswersOwn'
  BY DEF AnswersOwn
<1> QED BY <1>1, <1>2, <1>3, <1>4, <1>5, <1>6

\* A handler that nothing happens to, but for an answer or a thaw.
Stays(x, y) ==
  /\ y.op = x.op /\ y.sid = x.sid /\ y.cands = x.cands /\ y.got = x.got /\ y.conn = x.conn
  /\ y.acct = x.acct /\ y.then = x.then /\ y.fz \subseteq x.fz
  /\ y.pc = x.pc \/ (x.pc = "wait" /\ y.pc = "answered")

\* What a routed handler relies on, after the step.
Stands(r, y) ==
  LET k == <<y.sid, "std">> IN
  /\ y.op \in Routed /\ y.pc = "call" => child'[y.conn].acct \notin y.fz
  /\ y.op \in Routed /\ y.pc = "use" /\ Head(y.cands) = "std" /\ k \in DOMAIN reg'
       => child'[reg'[k]].acct \notin y.fz
  /\ Spawning(y) => k \in DOMAIN spawn' /\ spawn'[k] = r
  /\ y.op \in Routed /\ Holder(y) => child'[y.conn].acct = y.acct
  /\ y.pc = "r_sub" /\ k \in DOMAIN reg' => child'[reg'[k]].acct = y.acct

\* A handler's step as far as accounts are concerned.
Chooses(x, y) ==
  /\ y.fz \subseteq x.fz
  /\ y.op \in Routed => y.acct = "" \/ y.acct \in Accounts \ frozen \/ (x.op \in Routed /\ y.acct = x.acct)
  /\ y.pc = "w_send" => y.acct \notin y.fz /\ (y.then = "first" => y.got \cap y.fz = {})

\* The handler a leaves its sub-session with the account that it has picked.
Leaves(a) ==
  a \in Handlers /\ h[a].pc = "r_sub" =>
    \/ h'[a].pc = "r_sub" /\ h'[a].sid = h[a].sid /\ h'[a].acct = h[a].acct
    \/ <<h[a].sid, "std">> \notin DOMAIN reg'
    \/ h[a].sid \in 1 .. minted' /\ "std" \in DOMAIN sess'[h[a].sid].subs
         => sess'[h[a].sid].subs["std"] = h[a].acct

\* The spawn locks of the others stay.
LocksKept(a) == \A k \in DOMAIN spawn : spawn[k] # a => k \in DOMAIN spawn' /\ spawn'[k] = spawn[k]

\* A child is registered for a sub-session by the handler that has its lock.
RegisteredBy(a) ==
  \A k \in DOMAIN reg' :
    \/ k \in DOMAIN reg /\ reg'[k] = reg[k]
    \/ k[2] = ""
    \/ /\ a \in Handlers /\ k = <<h[a].sid, "std">> /\ reg'[k] = h[a].conn /\ h[a].pc = "r_reg"
       /\ h'[a].pc = "r_sub" /\ h'[a].sid = h[a].sid /\ h'[a].acct = h[a].acct

(* What is picked. *)
LEMMA PickedKeeps ==
  ASSUME TypeOK, TypeOK', Barred, Picked, NEW a,
         \A r \in Handlers \ {a} : Stays(h[r], h'[r]),
         a \in Handlers => Stays(h[a], h'[a]) \/ Chooses(h[a], h'[a])
  PROVE  Picked'
<1>1. \A r \in Handlers : h'[r].fz \subseteq h[r].fz /\ h[r].fz \subseteq frozen /\ h[r].fz \subseteq Accounts
  BY ZenonT(40) DEF Stays, Chooses, Barred, TypeOK, State
<1>2. "" \notin Accounts
  BY McpAssumption
<1>3. ASSUME NEW q \in Handlers, NEW r \in Handlers, h'[q].op \in Routed
      PROVE  h'[q].acct \notin h'[r].fz
  <2>1. CASE Stays(h[q], h'[q])
    BY <2>1, <1>1, <1>3 DEF Picked, Stays
  <2>2. CASE q = a /\ Chooses(h[a], h'[a])
    <3>1. CASE h'[q].acct = ""
      BY <3>1, <1>1, <1>2
    <3>2. CASE h'[q].acct \in Accounts \ frozen
      BY <3>2, <1>1
    <3>3. CASE h[q].op \in Routed /\ h'[q].acct = h[q].acct
      BY <3>3, <1>1 DEF Picked
    <3> QED BY <1>3, <2>2, <3>1, <3>2, <3>3 DEF Chooses
  <2> QED BY <2>1, <2>2
<1>4. ASSUME NEW r \in Handlers, h'[r].pc = "w_send"
      PROVE  h'[r].acct \notin h'[r].fz /\ (h'[r].then = "first" => h'[r].got \cap h'[r].fz = {})
  <2>1. CASE Stays(h[r], h'[r])
    BY <2>1, <1>4 DEF Picked, Stays
  <2>2. CASE r = a /\ Chooses(h[a], h'[a])
    BY <2>2, <1>4 DEF Chooses
  <2> QED BY <2>1, <2>2
<1> QED BY <1>3, <1>4 DEF Picked

(* The handlers that the step does not concern keep what they rely on. *)
LEMMA StandsKeeps ==
  ASSUME TypeOK, Shaped, Freezes, Procs, NEW a, NEW r \in Handlers,
         Stays(h[r], h'[r]), r # a \/ spawn' = spawn, RegisteredBy(a), LocksKept(a)
  PROVE  Stands(r, h'[r])
<1> DEFINE x == h[r]
           y == h'[r]
           k == <<y.sid, "std">>
<1>1. /\ \A c \in Conns : child'[c].acct = child[c].acct
      /\ Talking(x) \/ Holder(x) => x.conn \in Conns
      /\ \A l \in DOMAIN reg : reg[l] \in Conns
      /\ k[2] # "" /\ k = <<x.sid, "std">>
  BY RegIs DEF Procs, Shaped, Well, Places, Conns, Stays
<1>2. /\ Holder(y) => Holder(x)
      /\ Spawning(y) => Spawning(x)
      /\ y.pc \in {"call", "use", "r_sub"} => y.pc = x.pc
  BY DEF Stays, Holder, Spawning, Starting
<1>3. ASSUME k \in DOMAIN reg', ~(k \in DOMAIN reg /\ reg'[k] = reg[k])
      PROVE  /\ a \in Handlers /\ k = <<h[a].sid, "std">> /\ reg'[k] = h[a].conn /\ h[a].pc = "r_reg"
             /\ h[a].conn \in Conns /\ child[h[a].conn].acct = h[a].acct /\ h[a].op \in Routed
             /\ Spawning(h[a])
  <2>1. a \in Handlers /\ k = <<h[a].sid, "std">> /\ reg'[k] = h[a].conn /\ h[a].pc = "r_reg"
    BY <1>1, <1>3 DEF RegisteredBy
  <2>2. Holder(h[a]) /\ Spawning(h[a]) /\ h[a].op \in Routed /\ h[a].conn \in Conns
    BY <2>1 DEF Holder, Spawning, Shaped, Well, Steps, Places, Conns
  <2> QED BY <2>1, <2>2 DEF Freezes, Started
<1>4. ASSUME y.op \in Routed, y.pc = "call" PROVE child'[y.conn].acct \notin y.fz
  <2>1. x.op \in Routed /\ x.pc = "call" /\ y.conn = x.conn /\ x.conn \in Conns /\ y.fz \subseteq x.fz
    BY <1>4, <1>1, <1>2 DEF Stays, Talking
  <2> QED BY <2>1, <1>1 DEF Freezes, Usable
<1>5. ASSUME y.op \in Routed, y.pc = "use", Head(y.cands) = "std", k \in DOMAIN reg'
      PROVE  child'[reg'[k]].acct \notin y.fz
  <2>1. x.op \in Routed /\ x.pc = "use" /\ Head(x.cands) = "std" /\ y.fz \subseteq x.fz
    BY <1>5, <1>2 DEF Stays
  <2>2. CASE k \in DOMAIN reg /\ reg'[k] = reg[k]
    <3>1. child[reg[k]].acct \notin x.fz
      BY <2>1, <2>2, <1>1 DEF Freezes, Usable
    <3> QED BY <2>1, <2>2, <3>1, <1>1
  <2>3. CASE ~(k \in DOMAIN reg /\ reg'[k] = reg[k])
    <3>1. a \in Handlers /\ child'[reg'[k]].acct = h[a].acct /\ h[a].op \in Routed
      BY <1>1, <1>3, <1>5, <2>3
    <3>2. h[a].acct \notin h[r].fz
      BY <3>1 DEF Freezes, Picked
    <3> QED BY <3>1, <3>2, <2>1
  <2> QED BY <2>2, <2>3
<1>6. ASSUME Spawning(y) PROVE k \in DOMAIN spawn' /\ spawn'[k] = r
  BY <1>1, <1>2, <1>6 DEF LocksKept, Freezes, Locked
<1>7. ASSUME y.op \in Routed, Holder(y) PROVE child'[y.conn].acct = y.acct
  <2>1. x.op \in Routed /\ Holder(x) /\ y.conn = x.conn /\ x.conn \in Conns /\ y.acct = x.acct
    BY <1>7, <1>1, <1>2 DEF Stays
  <2> QED BY <2>1, <1>1 DEF Freezes, Started
<1>8. ASSUME y.pc = "r_sub", k \in DOMAIN reg' PROVE child'[reg'[k]].acct = y.acct
  <2>1. x.pc = "r_sub" /\ y.acct = x.acct
    BY <1>8, <1>2 DEF Stays
  <2>2. CASE k \in DOMAIN reg /\ reg'[k] = reg[k]
    BY <2>1, <2>2, <1>1 DEF Freezes, Started
  <2>3. CASE ~(k \in DOMAIN reg /\ reg'[k] = reg[k])
    <3>1. a \in Handlers /\ k = <<h[a].sid, "std">> /\ Spawning(h[a]) /\ h[a].pc = "r_reg"
      BY <1>3, <1>8, <2>3
    <3>2. k \in DOMAIN spawn /\ spawn[k] = a /\ spawn[k] = r
      BY <3>1, <2>1, <1>1 DEF Freezes, Locked, Spawning
    <3> QED BY <2>1, <3>1, <3>2
  <2> QED BY <2>2, <2>3
<1> QED BY <1>4, <1>5, <1>6, <1>7, <1>8 DEF Stands

(* Sub-sessions and their children. *)
LEMMA MatchedKeeps ==
  ASSUME TypeOK, Shaped, Freezes, Procs, NEW a,
         \A r \in Handlers \ {a} : Stays(h[r], h'[r]),
         RegisteredBy(a), Leaves(a),
         \A i \in 1 .. minted' : "std" \in DOMAIN sess'[i].subs =>
           \/ /\ i \in 1 .. minted /\ "std" \in DOMAIN sess[i].subs
              /\ sess'[i].subs["std"] = sess[i].subs["std"]
           \/ /\ a \in Handlers /\ h[a].pc = "r_sub" /\ i = h[a].sid /\ sess'[i].subs["std"] = h[a].acct
  PROVE  Matched'
<1> SUFFICES ASSUME NEW i \in 1 .. minted', "std" \in DOMAIN sess'[i].subs, <<i, "std">> \in DOMAIN reg'
             PROVE  \/ child'[reg'[<<i, "std">>]].acct = sess'[i].subs["std"]
                    \/ \E q \in Handlers : /\ h'[q].pc = "r_sub" /\ h'[q].sid = i
                                           /\ h'[q].acct = child'[reg'[<<i, "std">>]].acct
  BY DEF Matched
<1> DEFINE k == <<i, "std">>
<1>1. /\ \A c \in Conns : child'[c].acct = child[c].acct
      /\ \A l \in DOMAIN reg : reg[l] \in Conns
  BY RegIs DEF Procs
<1>2. CASE k \in DOMAIN reg /\ reg'[k] = reg[k]
  <2>1. child'[reg'[k]].acct = child[reg[k]].acct
    BY <1>1, <1>2
  <2>2. CASE a \in Handlers /\ h[a].pc = "r_sub" /\ i = h[a].sid
    <3>1. child[reg[k]].acct = h[a].acct
      BY <1>2, <2>2 DEF Freezes, Started
    <3> QED BY <2>1, <2>2, <3>1 DEF Leaves
  <2>3. CASE /\ ~(a \in Handlers /\ h[a].pc = "r_sub" /\ i = h[a].sid)
             /\ i \in 1 .. minted /\ "std" \in DOMAIN sess[i].subs
             /\ sess'[i].subs["std"] = sess[i].subs["std"]
    <3>1. \/ child[reg[k]].acct = sess[i].subs["std"]
          \/ \E q \in Handlers : /\ h[q].pc = "r_sub" /\ h[q].sid = i
                                 /\ h[q].acct = child[reg[k]].acct
      BY <1>2, <2>3 DEF Freezes, Matched
    <3>2. ASSUME NEW q \in Handlers, h[q].pc = "r_sub", h[q].sid = i
          PROVE  h'[q].pc = "r_sub" /\ h'[q].sid = i /\ h'[q].acct = h[q].acct
      BY <3>2, <2>3 DEF Stays
    <3> QED BY <2>1, <2>3, <3>1, <3>2
  <2> QED BY <2>2, <2>3
<1>3. CASE ~(k \in DOMAIN reg /\ reg'[k] = reg[k])
  <2>1. /\ a \in Handlers /\ k = <<h[a].sid, "std">> /\ reg'[k] = h[a].conn /\ h[a].pc = "r_reg"
        /\ h'[a].pc = "r_sub" /\ h'[a].sid = h[a].sid /\ h'[a].acct = h[a].acct
    BY <1>3 DEF RegisteredBy
  <2>2. Holder(h[a]) /\ h[a].op \in Routed /\ h[a].conn \in Conns /\ h[a].sid = i
    BY <2>1 DEF Holder, Shaped, Well, Steps, Places, Conns
  <2>3. child'[reg'[k]].acct = h[a].acct
    BY <2>1, <2>2, <1>1 DEF Freezes, Started
  <2> QED BY <2>1, <2>2, <2>3
<1> QED BY <1>2, <1>3

(* Frozen accounts. *)
LEMMA FreezesKeep ==
  ASSUME TypeOK, TypeOK', Shaped, Freezes, Procs, Picked', NEW a,
         \A r \in Handlers : h'[r].fz \subseteq frozen',
         \A r \in Handlers \ {a} : Stays(h[r], h'[r]),
         a \in Handlers => (Stays(h[a], h'[a]) /\ spawn' = spawn) \/ Stands(a, h'[a]),
         RegisteredBy(a), LocksKept(a), Leaves(a),
         \A i \in 1 .. minted' : "std" \in DOMAIN sess'[i].subs =>
           \/ /\ i \in 1 .. minted /\ "std" \in DOMAIN sess[i].subs
              /\ sess'[i].subs["std"] = sess[i].subs["std"]
           \/ /\ a \in Handlers /\ h[a].pc = "r_sub" /\ i = h[a].sid /\ sess'[i].subs["std"] = h[a].acct,
         "other" \notin misuse'
  PROVE  Freezes'
<1>1. \A r \in Handlers : Stands(r, h'[r])
  BY StandsKeeps
<1>2. Matched'
  BY MatchedKeeps
<1>3. Barred' /\ FrozenStops'
  BY DEF Barred, FrozenStops
<1>4. Usable'
  BY <1>1 DEF Stands, Usable
<1>5. Locked'
  BY <1>1 DEF Stands, Locked, Spawning
<1>6. Started'
  BY <1>1 DEF Stands, Started, Holder
<1> QED BY <1>2, <1>3, <1>4, <1>5, <1>6 DEF Freezes

(***************************************************************************)
(* The steps of one handler.                                               *)
(***************************************************************************)
\* No request but a direct one to the stdio server, or one that is passed on
\* to all servers of a route, uses what it must not.
Clean == misuse' \subseteq Ways /\ "other" \notin misuse'

(* A request uses an account. *)
LEMMA UsesClean ==
  ASSUME IInv, NEW r \in Handlers, NEW acct, Uses(r, acct),
         acct \notin h[r].fz \/ Direct(h[r]) \/ Notice(h[r])
  PROVE  Clean
BY DEF IInv, TypeOK, Freezes, FrozenStops, Uses, Way, Ways, Direct, Notice, Clean

(* Nothing is used. *)
LEMMA SameClean ==
  ASSUME IInv, misuse' = misuse
  PROVE  Clean
BY DEF IInv, TypeOK, Freezes, FrozenStops, Clean

(* The spawn locks. *)
LEMMA LocksAre ==
  ASSUME IInv, NEW a \in Handlers, spawn' = spawn \/ spawn' = Unlocked(a)
  PROVE  spawn' \in [DOMAIN spawn' -> Handlers] /\ LocksKept(a)
<1>1. spawn \in [DOMAIN spawn -> Handlers]
  BY DEF IInv, TypeOK
<1>2. CASE spawn' = spawn
  BY <1>1, <1>2 DEF LocksKept
<1>3. CASE spawn' = Unlocked(a)
  <2>1. /\ DOMAIN spawn' = {k \in DOMAIN spawn : spawn[k] # a}
        /\ \A k \in DOMAIN spawn' : spawn'[k] = spawn[k]
        /\ spawn' = [k \in DOMAIN spawn' |-> spawn'[k]]
    BY <1>3 DEF Unlocked, Restrict
  <2> QED BY <1>1, <2>1 DEF LocksKept
<1> QED BY <1>2, <1>3

\* The sub-sessions of the stdio server after a step of the handler a.
SubsKept(a) ==
  \A i \in 1 .. minted' : "std" \in DOMAIN sess'[i].subs =>
    \/ /\ i \in 1 .. minted /\ "std" \in DOMAIN sess[i].subs
       /\ sess'[i].subs["std"] = sess[i].subs["std"]
    \/ a \in Handlers /\ h[a].pc = "r_sub" /\ i = h[a].sid /\ sess'[i].subs["std"] = h[a].acct

(* A handler's step. *)
LEMMA HandlerMoves ==
  ASSUME IInv, NEW a \in Handlers, NEW y \in State, NEW S, Set(a, y),
         Listed(S), SubsKept(a), Procs, Clean, Pending',
         UNCHANGED <<frozen, faults, count, mixed>>,
         spawn' \in [DOMAIN spawn' -> Handlers], LocksKept(a),
         Well(y, minted', Len(child')), S \subseteq y.fire,
         \A c \in 1 .. Len(child') : c \in Conns \/ (Holder(y) /\ y.conn = c),
         \A k \in DOMAIN reg' : k \in DOMAIN reg \/ Minds(y, k),
         Unregistered \/ (RegistersOf(a) /\ RegisteredBy(a)),
         \A c \in 1 .. Len(child') : \A m \in child'[c].owed :
           \/ c \in Conns /\ m \in child[c].owed
           \/ Asked(y, c, m)
           \/ ~Private(c)',
         OrphanStep(h[a], y), GoesOn(h[a], y) \/ StartsOne(h[a], y) \/ TakesOne(y), Awaits(h[a], y),
         \/ Stays(h[a], y) /\ spawn' = spawn
         \/ Chooses(h[a], y) /\ Stands(a, y),
         Leaves(a)
  PROVE  IInv'
<1> USE DEF IInv
<1>1. /\ h' \in [Handlers -> State] /\ h'[a] = y /\ \A r \in Handlers \ {a} : h'[r] = h[r]
  BY DEF Set, TypeOK
<1>3. TypeOK'
  <2>1. mixed' \subseteq {"direct", "other"} /\ misuse' \subseteq Ways
    BY DEF TypeOK, Clean
  <2>2. frozen' \subseteq Accounts /\ faults' \in Nat /\ count' \in Nat
    BY DEF TypeOK
  <2> QED BY <1>1, <2>1, <2>2, TypeKeeps
<1>4. Shaped'
  BY <1>1, ShapedKeeps
<1>6. Orphans'
  <2>1. \A r \in Handlers : OrphanStep(h[r], h'[r])
    BY <1>1, OrphanSame
  <2>2. \A i \in S : i \in h'[a].fire
    BY <1>1
  <2>3. \A c \in 1 .. Len(child') : c \in Conns \/ (Holder(h'[a]) /\ h'[a].conn = c)
    BY <1>1
  <2>4. \A k \in DOMAIN reg' : k \in DOMAIN reg \/ Minds(h'[a], k)
    BY <1>1
  <2> QED BY <2>1, <2>2, <2>3, <2>4, OrphansKeep
<1>7. Answers'
  <2>1. \A r \in Handlers \ {a} : GoesOn(h[r], h'[r])
    BY <1>1 DEF GoesOn
  <2>2. \A r \in Handlers : Awaits(h[r], h'[r])
    BY <1>1, AwaitsSame
  <2>3. \A c \in 1 .. Len(child') : \A m \in child'[c].owed :
           \/ c \in Conns /\ m \in child[c].owed
           \/ \E r \in Handlers : Asked(h'[r], c, m)
           \/ ~Private(c)'
    BY <1>1
  <2>4. "direct" \notin mixed'
    BY DEF Answers, AnswersOwn
  <2>5. Unregistered \/ RegistersOf(a)
    OBVIOUS
  <2>6. GoesOn(h[a], h'[a]) \/ StartsOne(h[a], h'[a]) \/ TakesOne(h'[a])
    BY <1>1
  <2> QED BY <1>3, <2>1, <2>2, <2>3, <2>4, <2>5, <2>6, AnswersKeep
<1>8. \A r \in Handlers \ {a} : Stays(h[r], h'[r])
  BY <1>1 DEF Stays
<1>9. Picked'
  <2>1. Barred /\ Picked
    BY DEF Freezes
  <2> QED BY <1>1, <1>3, <1>8, <2>1, PickedKeeps
<1>10. Freezes'
  <2>1. \A r \in Handlers : h'[r].fz \subseteq frozen'
    <3>1. \A r \in Handlers : h'[r].fz \subseteq h[r].fz
      BY <1>1 DEF Stays, Chooses
    <3> QED BY <3>1 DEF Freezes, Barred
  <2>2. RegisteredBy(a)
    BY DEF RegisteredBy, Unregistered
  <2>4. "other" \notin misuse'
    BY DEF Clean
  <2> QED BY <1>1, <1>3, <1>8, <1>9, <2>1, <2>2, <2>4, FreezesKeep DEF SubsKept
<1> QED BY <1>3, <1>4, <1>6, <1>7, <1>10

(* A handler's step that registers no child and asks none. *)
LEMMA HandlerStep ==
  ASSUME IInv, NEW a \in Handlers, NEW y \in State, NEW S, Set(a, y),
         Table(S), Procs, Unasked, Unregistered, Clean,
         UNCHANGED <<frozen, faults, count, mixed>>,
         spawn' \in [DOMAIN spawn' -> Handlers], LocksKept(a),
         Well(y, minted', Len(child')), S \subseteq y.fire,
         h[a].pc \in {"wait", "blocked"} => y.pc = h[a].pc /\ y.conn = h[a].conn /\ y.id = h[a].id,
         y.pc = "blocked" => h[a].pc = "blocked",
         OrphanStep(h[a], y), GoesOn(h[a], y) \/ TakesOne(y), Awaits(h[a], y),
         \/ Stays(h[a], y) /\ spawn' = spawn
         \/ Chooses(h[a], y) /\ Stands(a, y),
         Leaves(a)
  PROVE  IInv'
<1>1. Listed(S) /\ SubsKept(a)
  BY DEF Table, SubsKept
<1>2. Pending'
  <2>1. TypeOK /\ Shaped /\ Pending
    BY DEF IInv
  <2>2. h'[a] = y /\ \A r \in Handlers \ {a} : h'[r] = h[r]
    BY <2>1 DEF Set, TypeOK
  <2> QED BY <2>1, <2>2, PendingKeeps
<1>3. /\ \A c \in 1 .. Len(child') : c \in Conns
      /\ \A c \in 1 .. Len(child') : \A m \in child'[c].owed : c \in Conns /\ m \in child[c].owed
  BY DEF Unasked, Conns
<1>4. \A k \in DOMAIN reg' : k \in DOMAIN reg
  BY DEF Unregistered
<1> QED BY <1>1, <1>2, <1>3, <1>4, HandlerMoves

\* The steps of a handler that has no child, no lock and nothing to check.
PlainPc == {"free", "end", "p_start", "p_get", "p_conn", "p_kill", "p_drop", "w_pick", "w_send", "w_get",
            "r_mint", "r_get", "r_subs", "r_tell", "r_kill", "r_tools", "r_drop", "ensure", "lock", "w_build"}

\* A handler whose record is x goes on to such a step, with S to evict.
Plain(x, y, S) ==
  /\ y \in State /\ Well(y, minted', Len(child')) /\ y.pc \in PlainPc
  /\ S \subseteq y.fire /\ Chooses(x, y)
  /\ y.op = "call" => x.op = "call" /\ y.sid = x.sid /\ y.id = x.id

(* A step to such a place. *)
LEMMA PlainStep ==
  ASSUME IInv, NEW a \in Handlers, NEW y, NEW S, Set(a, y), Plain(h[a], y, S),
         h[a].fire = {}, h[a].pc \notin {"wait", "blocked"},
         Table(S), Procs, Unasked, Unregistered, Clean,
         UNCHANGED <<frozen, faults, count, mixed>>,
         spawn' = spawn \/ spawn' = Unlocked(a),
         Holder(h[a]) \/ (h[a].pc = "failed" /\ Direct(h[a])) => ~Lives(h[a].conn),
         Checking(h[a]) => <<h[a].sid, "">> \notin DOMAIN reg' \/ h[a].sid \in ToSet(lru'),
         h[a].pc = "r_sub" => <<h[a].sid, "std">> \notin DOMAIN reg'
  PROVE  IInv'
<1> DEFINE x == h[a]
<1>1. ~Holder(y) /\ ~Talking(y) /\ ~Spawning(y) /\ y.pc \notin {"call", "use", "r_sub", "blocked"}
  BY DEF Plain, PlainPc, Holder, Talking, Spawning, Starting
<1>2. OrphanStep(x, y)
  <2>1. ASSUME NEW k \in DOMAIN reg \cap DOMAIN reg', Minds(x, k) PROVE k[1] \in ToSet(lru')
    <3>1. CASE k[1] \in x.fire
      BY <3>1
    <3>2. CASE Checking(x) /\ k = <<x.sid, "">>
      BY <3>2
    <3>3. CASE x.pc = "r_sub" /\ k = <<x.sid, "std">>
      BY <3>3
    <3> QED BY <2>1, <3>1, <3>2, <3>3 DEF Minds
  <2> QED BY <2>1 DEF OrphanStep
<1>3. GoesOn(x, y)
  BY <1>1 DEF Plain, GoesOn
<1>4. Awaits(x, y)
  BY DEF Awaits
<1>5. Chooses(x, y) /\ Stands(a, y)
  BY <1>1 DEF Plain, Stands
<1>6. Leaves(a)
  BY DEF Leaves
<1>7. spawn' \in [DOMAIN spawn' -> Handlers] /\ LocksKept(a)
  BY LocksAre
<1>8. y \in State /\ Well(y, minted', Len(child')) /\ S \subseteq y.fire
  BY DEF Plain
<1> HIDE DEF x
<1> QED BY <1>1, <1>2, <1>3, <1>4, <1>5, <1>6, <1>7, <1>8, HandlerStep DEF x

\* A handler that is done, or has only sessions to evict.
Done(gone) == IF gone = {} THEN Free ELSE [Free EXCEPT !.pc = "end", !.fire = gone]

(* The record of such a handler. *)
LEMMA DoneIs ==
  ASSUME NEW gone \in SUBSET Nat
  PROVE  /\ Done(gone) \in State /\ Done(gone).op = "" /\ Done(gone).pc \in {"free", "end"}
         /\ Done(gone).fire = gone /\ Done(gone).fz = {} /\ Done(gone).sid = 0
         /\ Done(gone).cands = <<>> /\ Done(gone).then = "" /\ Done(gone).acct = ""
<1>1. <<>> \in Seq(Server)
  OBVIOUS
<1>2. Free \in State
  BY <1>1 DEF Free, State, Op, Pc, Then
<1>3. CASE gone = {}
  BY <1>2, <1>3 DEF Free, Done
<1>4. CASE gone # {}
  <2>1. Done(gone) = [Free EXCEPT !.pc = "end", !.fire = gone]
    BY <1>4 DEF Done
  <2>2. Done(gone) \in State
    BY <1>2, <2>1 DEF State, Pc
  <2> QED BY <2>1, <2>2 DEF Free
<1> QED BY <1>3, <1>4

(* Its place. *)
LEMMA DonePlain ==
  ASSUME NEW x, NEW gone \in SUBSET Nat, minted' \in Nat, Len(child') \in Nat
  PROVE  Plain(x, Done(gone), gone)
<1> DEFINE y == Done(gone)
<1>1. /\ y \in State /\ y.op = "" /\ y.pc \in {"free", "end"} /\ y.fire = gone /\ y.fz = {}
      /\ y.sid = 0 /\ y.cands = <<>> /\ y.then = "" /\ y.acct = ""
  BY DoneIs
<1> SUFFICES Plain(x, y, gone)
  OBVIOUS
<1> HIDE DEF y
<1>2. Well(y, minted', Len(child'))
  BY <1>1 DEF Well, Steps, Calls, Places, Talking, Holder, Starting, OnSession, Routed
<1>3. Chooses(x, y)
  BY <1>1 DEF Chooses, Routed
<1> QED BY <1>1, <1>2, <1>3 DEF Plain, PlainPc

(* A handler is done. *)
LEMMA FinishPlain ==
  ASSUME NEW a \in Handlers, NEW x, NEW gone \in SUBSET Nat, Finish(a, gone), minted' \in Nat, Len(child') \in Nat
  PROVE  Set(a, Done(gone)) /\ Plain(x, Done(gone), gone)
<1>1. Set(a, Done(gone))
  BY DEF Finish, Done
<1> QED BY <1>1, DonePlain

(* A server is left when there was more than one. *)
LEMMA TailMore ==
  ASSUME NEW s \in Seq(Server), Len(s) > 1
  PROVE  Tail(s) # <<>>
<1>1. Len(s) \in Nat /\ s # <<>>
  OBVIOUS
<1>2. Len(Tail(s)) = Len(s) - 1
  BY <1>1, HeadTailProperties
<1>3. Len(Tail(s)) # 0
  BY SMTT(30), <1>1, <1>2
<1> QED BY <1>3, EmptySeq

(* A routed request goes on to its next server. *)
LEMMA NextPlain ==
  ASSUME TypeOK, NEW a \in Handlers, NEW rec \in State, NEW gone \in SUBSET Nat,
         rec.op \in Routed, rec.cands # <<>>, rec.sid \in 1 .. minted', rec.fz = h[a].fz,
         minted' \in Nat, Len(child') \in Nat
  PROVE  Plain(h[a], Next1(rec, gone), gone)
<1> DEFINE y == Next1(rec, gone)
           rest == [rec EXCEPT !.cands = Tail(@), !.acct = "", !.conn = 0, !.then = "", !.fire = gone]
<1> SUFFICES Plain(h[a], y, gone)
  OBVIOUS
<1> HIDE DEF y
<1>0. rec.cands \in Seq(Server)
  BY DEF State
<1>1. Len(rec.cands) \in Nat /\ Tail(rec.cands) \in Seq(Server) /\ Len(Tail(rec.cands)) = Len(rec.cands) - 1
  BY <1>0
<1>2. /\ rest \in State /\ rest.op = rec.op /\ rest.sid = rec.sid /\ rest.cands = Tail(rec.cands)
      /\ rest.acct = "" /\ rest.then = "" /\ rest.fire = gone /\ rest.fz = h[a].fz
  BY <1>1 DEF State, Then
<1>3. CASE Len(rec.cands) > 1
  <2>1. y = [rest EXCEPT !.pc = "ensure"]
    BY <1>3 DEF Next1, y
  <2>2. /\ y \in State /\ y.pc = "ensure" /\ y.op \in Routed /\ y.sid \in 1 .. minted'
        /\ y.cands = Tail(rec.cands)
        /\ y.acct = "" /\ y.then = "" /\ y.fire = gone /\ y.fz = h[a].fz
    BY <1>2, <2>1 DEF State, Pc
  <2>3. y.cands # <<>>
    BY <1>0, <1>3, <2>2, TailMore
  <2>4. Well(y, minted', Len(child'))
    BY <2>2, <2>3 DEF Well, Steps, Calls, Places, Talking, Holder, Starting, OnSession, Routed
  <2> QED BY <2>2, <2>4 DEF Plain, PlainPc, Chooses, Routed
<1>4. CASE ~(Len(rec.cands) > 1) /\ rec.op = "rlist"
  <2>1. y = [rest EXCEPT !.pc = "r_tools"]
    BY <1>4 DEF Next1, y
  <2>2. /\ y \in State /\ y.pc = "r_tools" /\ y.op = "rlist" /\ y.sid \in 1 .. minted'
        /\ y.acct = "" /\ y.then = "" /\ y.fire = gone /\ y.fz = h[a].fz
    BY <1>2, <1>4, <2>1 DEF State, Pc
  <2>4. Well(y, minted', Len(child'))
    BY <2>2 DEF Well, Steps, Calls, Places, Talking, Holder, Starting, OnSession, Routed
  <2> QED BY <2>2, <2>4 DEF Plain, PlainPc, Chooses, Routed
<1>5. CASE ~(Len(rec.cands) > 1) /\ rec.op # "rlist"
  <2>1. y = Done(gone)
    BY <1>5 DEF Next1, Done, y
  <2> QED BY <2>1, DonePlain
<1> QED BY <1>3, <1>4, <1>5

(* A handler's record. *)
LEMMA HandlerIs ==
  ASSUME IInv, NEW r \in Handlers
  PROVE  /\ TypeOK /\ h[r] \in State /\ minted \in Nat /\ Len(child) \in Nat
         /\ Steps(h[r]) /\ Calls(h[r]) /\ Places(h[r], minted, Len(child))
         /\ h[r].fz \subseteq frozen
BY DEF IInv, TypeOK, Shaped, Well, Freezes, Barred

(* A session's record. *)
LEMMA SessionIs ==
  ASSUME TypeOK, NEW id \in 1 .. minted
  PROVE  /\ sess[id] \in Session /\ sess[id].subs \in [DOMAIN sess[id].subs -> Accounts]
         /\ DOMAIN sess[id].subs \subseteq Server
<1>1. sess[id] \in Session
  BY DEF TypeOK
<1>2. sess[id].subs \in Subs
  BY <1>1 DEF Session
<1> QED BY <1>1, <1>2 DEF Subs

\* An access to the session id of the table.
Accessed(id) ==
  /\ Table(Expired(id)) /\ minted' = minted /\ Expired(id) \in SUBSET Nat
  /\ Live(id) => id \in ToSet(lru') /\ Expired(id) = {}

(* A session is looked up. *)
LEMMA TouchTable ==
  ASSUME TypeOK, NEW id \in 1 .. minted, Touch(id)
  PROVE  Accessed(id)
<1>1. sess[id] \in Session
  BY SessionIs
<1> QED BY <1>1, AccessTable DEF Touch, Accessed

(* A sub-session is dropped. *)
LEMMA DropTable ==
  ASSUME TypeOK, NEW id \in 1 .. minted, NEW s \in Server, Access(id, DropSub(id, s))
  PROVE  Accessed(id)
<1> DEFINE u == sess[id].subs
           v == Restrict(u, DOMAIN u \ {s})
           t == DropSub(id, s)
<1>1. sess[id] \in Session /\ u \in [DOMAIN u -> Accounts] /\ DOMAIN u \subseteq Server
  BY SessionIs
<1>2. /\ DOMAIN v = DOMAIN u \ {s} /\ v \in [DOMAIN u \ {s} -> Accounts]
      /\ \A i \in DOMAIN v : v[i] = u[i]
  BY <1>1 DEF Restrict
<1>3. v \in Subs
  BY <1>1, <1>2 DEF Subs
<1> HIDE DEF v
<1>4. t \in Session /\ t.subs = v
  BY <1>1, <1>3 DEF DropSub, Session, v
<1>5. "std" \in DOMAIN t.subs => "std" \in DOMAIN u /\ t.subs["std"] = u["std"]
  BY <1>2, <1>4
<1> HIDE DEF t
<1>6. Access(id, t)
  BY DEF t
<1> QED BY <1>4, <1>5, <1>6, AccessTable DEF Accessed

(* A sub-session is put. *)
LEMMA PutSubIs ==
  ASSUME TypeOK, NEW id \in 1 .. minted, NEW s \in Server, NEW a \in Accounts
  PROVE  /\ PutSub(id, s, a) \in Session
         /\ DOMAIN PutSub(id, s, a).subs = DOMAIN sess[id].subs \cup {s}
         /\ PutSub(id, s, a).subs[s] = a
         /\ \A i \in DOMAIN sess[id].subs : i # s => PutSub(id, s, a).subs[i] = sess[id].subs[i]
<1> DEFINE u == sess[id].subs
           v == Bind(u, s, a)
<1>1. sess[id] \in Session /\ u \in [DOMAIN u -> Accounts] /\ DOMAIN u \subseteq Server
  BY SessionIs
<1>2. /\ DOMAIN v = DOMAIN u \cup {s} /\ v \in [DOMAIN u \cup {s} -> Accounts]
      /\ v[s] = a /\ \A i \in DOMAIN u : i # s => v[i] = u[i]
  BY <1>1 DEF Bind
<1>3. v \in Subs
  BY <1>1, <1>2 DEF Subs
<1> HIDE DEF v
<1>4. PutSub(id, s, a) \in Session /\ PutSub(id, s, a).subs = v
  BY <1>1, <1>3 DEF PutSub, Session, v
<1> QED BY <1>2, <1>4

(* A step of a handler that has no child, no lock and nothing to check, to *)
(* such a place.                                                           *)
LEMMA PlainQuiet ==
  ASSUME IInv, NEW r \in Handlers, NEW y, NEW S, Set(r, y), Plain(h[r], y, S),
         At(r, h[r].pc), h[r].pc \in PlainPc \cup {"use"},
         Table(S), Clean, UNCHANGED <<procVars, envVars, mixed>>
  PROVE  IInv'
<1>1. Procs /\ Unasked /\ Unregistered
  BY HandlerIs, SameProcs DEF procVars
<1>2. /\ ~Holder(h[r]) /\ ~Checking(h[r]) /\ h[r].pc \notin {"wait", "blocked", "failed", "r_sub"}
      /\ h[r].fire = {}
  BY DEF PlainPc, Holder, Checking, Starting, At
<1> QED BY <1>1, <1>2, PlainStep DEF envVars, procVars

\* A step of the handlers without a child or a server: the record's place.
Simple(y, m) ==
  /\ y.pc \in {"p_conn", "p_drop", "p_kill", "w_pick", "w_send", "r_subs", "r_tell", "r_kill"} /\ Steps(y)
  /\ y.op \in OnSession \/ y.pc = "p_drop" => y.sid \in 1 .. m

(* Such a record is well formed. *)
LEMMA SimpleWell ==
  ASSUME NEW y \in State, NEW m, NEW l, Simple(y, m), y.pc = "w_send" /\ y.then = "first" => y.got \subseteq Accounts
  PROVE  Well(y, m, l)
BY DEF Well, Simple, Steps, Calls, Places, Talking, Holder, Starting, Routed, OnSession

(* A handler is done after such a step. *)
LEMMA FinishKeeps ==
  ASSUME IInv, NEW r \in Handlers, NEW gone \in SUBSET Nat, Finish(r, gone),
         At(r, h[r].pc), h[r].pc \in PlainPc \cup {"use"},
         Table(gone), Clean, UNCHANGED <<procVars, envVars, mixed>>
  PROVE  IInv'
<1>1. minted' \in Nat /\ Len(child') \in Nat
  BY HandlerIs DEF Table, Listed, procVars
<1>2. Set(r, Done(gone)) /\ Plain(h[r], Done(gone), gone)
  BY <1>1, FinishPlain
<1> QED BY <1>2, PlainQuiet

(* It goes on to the next server. *)
LEMMA NextKeeps ==
  ASSUME IInv, NEW r \in Handlers, NEW gone \in SUBSET Nat, Set(r, Next1(h[r], gone)),
         At(r, h[r].pc), h[r].pc \in {"ensure", "w_build", "use", "r_drop"},
         Table(gone), minted' = minted, Clean, UNCHANGED <<procVars, envVars, mixed>>
  PROVE  IInv'
<1>1. /\ TypeOK /\ h[r] \in State /\ minted' \in Nat /\ Len(child') \in Nat
      /\ h[r].op \in Routed /\ h[r].cands # <<>> /\ h[r].sid \in 1 .. minted'
  BY HandlerIs DEF procVars, Steps, Places, Routed, OnSession
<1>2. Plain(h[r], Next1(h[r], gone), gone)
  BY <1>1, NextPlain
<1>3. h[r].pc \in PlainPc \cup {"use"}
  BY DEF PlainPc
<1> HIDE DEF Next1
<1> QED BY <1>2, <1>3, PlainQuiet

(* It goes on to a place without a server. *)
LEMMA SimpleKeeps ==
  ASSUME IInv, NEW r \in Handlers, NEW y \in State, NEW S, Set(r, y), Simple(y, minted'),
         S \subseteq y.fire, y.fz = h[r].fz,
         y.op = "call" => h[r].op = "call" /\ y.sid = h[r].sid /\ y.id = h[r].id,
         y.pc = "w_send" => y.acct \notin y.fz /\ (y.then = "first" => y.got \subseteq Accounts \ y.fz),
         At(r, h[r].pc), h[r].pc \in PlainPc,
         Table(S), Clean, UNCHANGED <<procVars, envVars, mixed>>
  PROVE  IInv'
<1>1. Well(y, minted', Len(child'))
  BY SimpleWell
<1>2. y.op \notin Routed /\ y.pc \in PlainPc
  BY DEF Simple, Steps, Routed, PlainPc
<1>3. Chooses(h[r], y)
  BY <1>2 DEF Chooses
<1>4. Plain(h[r], y, S)
  BY <1>1, <1>2, <1>3 DEF Plain
<1> QED BY <1>4, PlainQuiet

(* A message on an established session. *)
LEMMA P_GetKeeps ==
  ASSUME IInv, NEW r \in Handlers, P_Get(r)
  PROVE  IInv'
<1> DEFINE x == h[r]
           gone == Expired(x.sid)
<1>1. TypeOK /\ x \in State /\ x.pc = "p_get" /\ At(r, x.pc) /\ x.op = "call" /\ x.sid \in 1 .. minted
  BY HandlerIs DEF P_Get, At, Steps, Places, OnSession
<1>2. Accessed(x.sid) /\ Clean /\ UNCHANGED <<procVars, envVars, mixed>>
  BY <1>1, TouchTable, SameClean DEF P_Get, seenVars
<1>4. CASE Owned(x.sid, "std")
  <2> DEFINE y == [x EXCEPT !.pc = "p_conn"]
  <2>1. Set(r, y) /\ Expired(x.sid) = {}
    BY <1>2, <1>4 DEF P_Get, Goto, Owned, Accessed
  <2>2. y \in State /\ y.pc = "p_conn" /\ y.op = "call" /\ y.sid = x.sid /\ y.id = x.id /\ y.fz = x.fz
    BY <1>1 DEF State, Pc
  <2> HIDE DEF y
  <2>3. Simple(y, minted')
    BY <1>1, <1>2, <2>2 DEF Simple, Steps, Accessed
  <2> QED BY <1>1, <1>2, <2>1, <2>2, <2>3, SimpleKeeps DEF Accessed, PlainPc
<1>5. CASE ~Owned(x.sid, "std")
  BY <1>1, <1>2, <1>5, FinishKeeps DEF P_Get, Accessed, PlainPc
<1> QED BY <1>4, <1>5

(* The end of a session. *)
LEMMA P_DropKeeps ==
  ASSUME IInv, NEW r \in Handlers, P_Drop(r)
  PROVE  IInv'
<1> DEFINE x == h[r]
           gone == IF Known(x.sid) THEN {x.sid} ELSE {}
<1>1. TypeOK /\ x \in State /\ x.pc = "p_drop" /\ At(r, x.pc) /\ x.sid \in 1 .. minted
  BY HandlerIs DEF P_Drop, At, Places
<1>2. Clean /\ UNCHANGED <<procVars, envVars, mixed>> /\ Finish(r, gone) /\ gone \in SUBSET Nat
  BY <1>1, SameClean DEF P_Drop, seenVars, State
<1> QED BY <1>1, <1>2, DeleteTable, FinishKeeps DEF P_Drop, PlainPc

(* A session of a stdio server is deleted: its child is killed first. *)
LEMMA P_KillKeeps ==
  ASSUME IInv, NEW r \in Handlers, P_Kill(r)
  PROVE  IInv'
<1> DEFINE x == h[r]
           gone == Expired(x.sid)
<1>1. TypeOK /\ x \in State /\ x.pc = "p_kill" /\ At(r, x.pc) /\ x.op = "del" /\ x.sid \in 1 .. minted
  BY HandlerIs DEF P_Kill, At, Steps, Places, OnSession
<1>2. Accessed(x.sid) /\ Clean /\ UNCHANGED <<spawn, envVars, mixed>>
  BY <1>1, TouchTable, SameClean DEF P_Kill, seenVars
<1>4. CASE Owned(x.sid, "std")
  <2> DEFINE y == [x EXCEPT !.pc = "p_drop"]
  <2>1. Set(r, y) /\ gone = {} /\ Kill({<<x.sid, "">>})
    BY <1>2, <1>4 DEF P_Kill, Goto, Owned, Accessed
  <2>2. y \in State /\ y.pc = "p_drop" /\ y.op = "del" /\ y.sid = x.sid /\ y.fz = x.fz
    BY <1>1 DEF State, Pc
  <2> HIDE DEF y
  <2>3. Procs /\ Unasked /\ Unregistered
    BY <1>1, <2>1, KillProcs
  <2>4. Well(y, minted', Len(child'))
    BY <1>1, <1>2, <2>2, SimpleWell DEF Simple, Steps, Accessed
  <2>5. Plain(x, y, gone)
    BY <2>1, <2>2, <2>4 DEF Plain, PlainPc, Chooses, Routed
  <2>6. ~Holder(x) /\ ~Checking(x) /\ x.pc \notin {"wait", "blocked", "failed", "r_sub"} /\ x.fire = {}
    BY <1>1 DEF Holder, Checking, Starting, At
  <2> QED BY <1>2, <2>1, <2>3, <2>5, <2>6, PlainStep DEF Accessed, envVars
<1>5. CASE ~Owned(x.sid, "std")
  BY <1>1, <1>2, <1>5, FinishKeeps DEF P_Kill, Accessed, PlainPc, procVars
<1> QED BY <1>4, <1>5

(* An account is picked for a request to an HTTP server. *)
LEMMA W_PickKeeps ==
  ASSUME IInv, NEW r \in Handlers, W_Pick(r)
  PROVE  IInv'
<1> DEFINE x == h[r]
<1>1. /\ TypeOK /\ x \in State /\ x.pc = "w_pick" /\ At(r, x.pc) /\ x.op \in {"winit", "wcall", "wdel"}
      /\ x.op \in OnSession => x.sid \in 1 .. minted
      /\ x.fz \subseteq frozen
  BY HandlerIs DEF W_Pick, At, Steps, Places
<1>2. UNCHANGED <<procVars, envVars, mixed>> /\ Table({}) /\ minted' = minted
  BY <1>1, QuietTable DEF W_Pick, tableVars
<1>3. CASE Healthy = {} /\ Finish(r, {}) /\ UNCHANGED misuse
  BY <1>1, <1>2, <1>3, SameClean, FinishKeeps DEF PlainPc
<1>4. ASSUME NEW a \in Healthy, Uses(r, a),
             Set(r, [x EXCEPT !.pc = "w_send", !.acct = a, !.got = Healthy, !.then = "first"])
      PROVE  IInv'
  <2> DEFINE y == [x EXCEPT !.pc = "w_send", !.acct = a, !.got = Healthy, !.then = "first"]
  <2>1. Healthy \subseteq Accounts \ x.fz
    BY <1>1 DEF Healthy
  <2>2. /\ y \in State /\ y.pc = "w_send" /\ y.op = x.op /\ y.sid = x.sid /\ y.fz = x.fz
        /\ y.acct = a /\ y.got = Healthy
    BY <1>1, <2>1 DEF State, Pc, Then
  <2>3. Set(r, y)
    BY <1>4
  <2> HIDE DEF y
  <2>4. Clean
    BY <1>4, <2>1, UsesClean
  <2>5. Simple(y, minted')
    BY <1>1, <1>2, <2>2 DEF Simple, Steps
  <2> QED BY <1>1, <1>2, <2>1, <2>2, <2>3, <2>4, <2>5, SimpleKeeps DEF PlainPc
<1> QED BY <1>3, <1>4 DEF W_Pick

(* A new session of an HTTP server. *)
LEMMA NewSession ==
  ASSUME TypeOK, NEW a \in Accounts \cup {""}, NEW s \in {"std", "web", Route}
  PROVE  /\ [NoSession EXCEPT !.server = s, !.acct = a] \in Session
         /\ DOMAIN [NoSession EXCEPT !.server = s, !.acct = a].subs = {}
BY EmptySession DEF Session, NoSession

(* The answer of an HTTP server. *)
LEMMA W_SendKeeps ==
  ASSUME IInv, NEW r \in Handlers, W_Send(r)
  PROVE  IInv'
<1> DEFINE x == h[r]
<1>1. /\ TypeOK /\ x \in State /\ x.pc = "w_send" /\ At(r, x.pc) /\ x.op \in {"winit", "wcall", "wdel"}
      /\ x.op \in OnSession => x.sid \in 1 .. minted
      /\ x.then = "first" => x.got \subseteq Accounts /\ x.got \cap x.fz = {}
      /\ x.acct \in Accounts \cup {""}
  <2>1. Picked
    BY DEF IInv, Freezes
  <2> QED BY <2>1, HandlerIs DEF W_Send, At, Steps, Places, Picked, State
<1>2. UNCHANGED <<procVars, envVars, mixed>>
  BY DEF W_Send
<1>q. tableVars' = tableVars => Table({}) /\ minted' = minted
  BY <1>1, QuietTable DEF tableVars
<1>3. CASE /\ IF x.op = "wdel" THEN Goto(r, "p_drop") ELSE Finish(r, {})
           /\ UNCHANGED <<tableVars, misuse>>
  <2>1. Clean /\ Table({}) /\ minted' = minted
    BY <1>3, <1>q, SameClean
  <2>2. CASE x.op = "wdel"
    <3> DEFINE y == [x EXCEPT !.pc = "p_drop"]
    <3>1. y \in State /\ y.pc = "p_drop" /\ y.op = x.op /\ y.sid = x.sid /\ y.fz = x.fz
      BY <1>1 DEF State, Pc
    <3>2. Set(r, y)
      BY <1>3, <2>2 DEF Goto
    <3> HIDE DEF y
    <3>3. Simple(y, minted')
      BY <1>1, <2>1, <2>2, <3>1 DEF Simple, Steps, OnSession
    <3> QED BY <1>1, <1>2, <2>1, <2>2, <3>1, <3>2, <3>3, SimpleKeeps DEF PlainPc
  <2>3. CASE x.op # "wdel"
    BY <1>1, <1>2, <1>3, <2>1, <2>3, FinishKeeps DEF PlainPc
  <2> QED BY <2>2, <2>3
<1>4. ASSUME x.then = "first", NEW b \in x.got \ {x.acct}, Set(r, [x EXCEPT !.then = "last", !.acct = b]),
             Uses(r, b), UNCHANGED tableVars
      PROVE  IInv'
  <2> DEFINE y == [x EXCEPT !.then = "last", !.acct = b]
  <2>1. b \in Accounts \ x.fz
    BY <1>1, <1>4
  <2>2. /\ y \in State /\ y.pc = "w_send" /\ y.op = x.op /\ y.sid = x.sid /\ y.fz = x.fz
        /\ y.acct = b /\ y.then = "last"
    BY <1>1, <2>1 DEF State, Then
  <2>3. Set(r, y) /\ Clean /\ Table({}) /\ minted' = minted
    BY <1>4, <1>q, <2>1, UsesClean
  <2> HIDE DEF y
  <2>5. Simple(y, minted')
    BY <1>1, <2>2, <2>3 DEF Simple, Steps
  <2> QED BY <1>1, <1>2, <2>1, <2>2, <2>3, <2>5, SimpleKeeps DEF PlainPc
<1>5. CASE /\ Put([NoSession EXCEPT !.server = "web", !.acct = x.acct])
           /\ Finish(r, Overflow) /\ UNCHANGED misuse
  <2> DEFINE s == [NoSession EXCEPT !.server = "web", !.acct = x.acct]
  <2>1. s \in Session /\ DOMAIN s.subs = {}
    BY <1>1, NewSession
  <2>2. Put(s)
    BY <1>5
  <2> HIDE DEF s
  <2>3. Table(Overflow) /\ Overflow \subseteq Nat
    BY <1>1, <2>1, <2>2, PutTable
  <2>4. Clean
    BY <1>5, SameClean
  <2> QED BY <1>1, <1>2, <1>5, <2>3, <2>4, FinishKeeps DEF PlainPc
<1> QED BY <1>3, <1>4, <1>5 DEF W_Send

(* A request to an HTTP server with a session. *)
LEMMA W_GetKeeps ==
  ASSUME IInv, NEW r \in Handlers, W_Get(r)
  PROVE  IInv'
<1> DEFINE x == h[r]
           id == x.sid
           gone == Expired(id)
           a == sess[id].acct
<1>1. /\ TypeOK /\ x \in State /\ x.pc = "w_get" /\ At(r, x.pc) /\ x.op \in {"wcall", "wdel"}
      /\ id \in 1 .. minted /\ x.fz \subseteq frozen
  BY HandlerIs DEF W_Get, At, Steps, Places, OnSession
<1>2. a \in Accounts \cup {""}
  BY <1>1, SessionIs DEF Session
<1>3. UNCHANGED <<procVars, envVars, mixed>> /\ Accessed(id)
  BY <1>1, TouchTable DEF W_Get
<1>4. CASE Live(id) /\ Finish(r, {}) /\ UNCHANGED misuse
  BY <1>1, <1>3, <1>4, SameClean, FinishKeeps DEF Accessed, PlainPc
<1>5. CASE /\ Set(r, [x EXCEPT !.pc = "w_pick", !.fire = gone]) /\ UNCHANGED misuse
  <2> DEFINE y == [x EXCEPT !.pc = "w_pick", !.fire = gone]
  <2>1. y \in State /\ y.pc = "w_pick" /\ y.op = x.op /\ y.sid = id /\ y.fz = x.fz /\ y.fire = gone
    BY <1>1, <1>3 DEF State, Pc, Accessed
  <2>2. Set(r, y) /\ Clean
    BY <1>5, SameClean
  <2> HIDE DEF y
  <2>3. Simple(y, minted')
    BY <1>1, <1>3, <2>1 DEF Simple, Steps, Accessed
  <2> QED BY <1>1, <1>3, <2>1, <2>2, <2>3, SimpleKeeps DEF Accessed, PlainPc
<1>6. CASE Live(id) /\ Goto(r, "p_drop") /\ UNCHANGED misuse
  <2> DEFINE y == [x EXCEPT !.pc = "p_drop"]
  <2>1. y \in State /\ y.pc = "p_drop" /\ y.op = x.op /\ y.sid = id /\ y.fz = x.fz
    BY <1>1 DEF State, Pc
  <2>2. Set(r, y) /\ Clean /\ gone = {}
    BY <1>3, <1>6, SameClean DEF Goto, Accessed
  <2> HIDE DEF y
  <2>3. Simple(y, minted')
    BY <1>1, <1>3, <2>1 DEF Simple, Steps, Accessed
  <2> QED BY <1>1, <1>3, <2>1, <2>2, <2>3, SimpleKeeps DEF Accessed, PlainPc
<1>7. CASE Live(id) /\ a \notin frozen /\ Set(r, [x EXCEPT !.pc = "w_send", !.acct = a]) /\ Uses(r, a)
  <2> DEFINE y == [x EXCEPT !.pc = "w_send", !.acct = a]
  <2>1. /\ y \in State /\ y.pc = "w_send" /\ y.op = x.op /\ y.sid = id /\ y.fz = x.fz /\ y.acct = a
        /\ y.then = x.then
    BY <1>1, <1>2 DEF State, Pc
  <2>2. Set(r, y) /\ Clean /\ gone = {} /\ a \notin x.fz
    BY <1>1, <1>3, <1>7, UsesClean DEF Accessed
  <2> HIDE DEF y
  <2>3. Simple(y, minted')
    BY <1>1, <1>3, <2>1 DEF Simple, Steps, Accessed
  <2>4. x.then # "first"
    BY <1>1, HandlerIs DEF Places
  <2> QED BY <1>1, <1>3, <2>1, <2>2, <2>3, <2>4, SimpleKeeps DEF Accessed, PlainPc
<1> QED BY <1>4, <1>5, <1>6, <1>7 DEF W_Get, Owned

(* A route answers initialize itself. *)
LEMMA R_MintKeeps ==
  ASSUME IInv, NEW r \in Handlers, R_Mint(r)
  PROVE  IInv'
<1> DEFINE s == [NoSession EXCEPT !.server = Route]
<1>1. TypeOK /\ h[r].pc = "r_mint" /\ At(r, h[r].pc)
  BY HandlerIs DEF R_Mint, At
<1>2. s \in Session /\ DOMAIN s.subs = {}
  BY EmptySession DEF Session, NoSession
<1>3. Put(s)
  BY DEF R_Mint
<1> HIDE DEF s
<1>4. Table(Overflow) /\ Overflow \subseteq Nat
  BY <1>1, <1>2, <1>3, PutTable
<1>5. Clean /\ UNCHANGED <<procVars, envVars, mixed>> /\ Finish(r, Overflow)
  BY SameClean DEF R_Mint, seenVars
<1> QED BY <1>1, <1>4, <1>5, FinishKeeps DEF PlainPc

(* A session's record changes in what is not a sub-session. *)
LEMMA KeepTable ==
  ASSUME TypeOK, NEW id \in 1 .. minted, NEW s \in Session, s.subs = sess[id].subs, Access(id, s)
  PROVE  Accessed(id)
<1>1. "std" \in DOMAIN s.subs => "std" \in DOMAIN sess[id].subs /\ s.subs["std"] = sess[id].subs["std"]
  OBVIOUS
<1> QED BY <1>1, AccessTable DEF Accessed

(* What the servers offer is kept. *)
LEMMA R_ToolsKeeps ==
  ASSUME IInv, NEW r \in Handlers, R_Tools(r)
  PROVE  IInv'
<1> DEFINE x == h[r]
           s == [sess[x.sid] EXCEPT !.tools = x.got, !.ready = TRUE]
<1>1. TypeOK /\ x \in State /\ x.pc = "r_tools" /\ At(r, x.pc) /\ x.sid \in 1 .. minted
  BY HandlerIs DEF R_Tools, At, Steps, Places, OnSession, Routed
<1>2. s \in Session /\ s.subs = sess[x.sid].subs
  <2>1. sess[x.sid] \in Session
    BY <1>1, SessionIs
  <2>2. x.got \in SUBSET (Server \cup Accounts)
    BY <1>1 DEF State
  <2> HIDE DEF x
  <2> QED BY <2>1, <2>2 DEF Session
<1>3. Access(x.sid, s)
  BY DEF R_Tools
<1> HIDE DEF s
<1>4. Accessed(x.sid)
  BY <1>1, <1>2, <1>3, KeepTable
<1>5. Clean /\ UNCHANGED <<procVars, envVars, mixed>> /\ Finish(r, Expired(x.sid))
  BY SameClean DEF R_Tools, seenVars
<1> QED BY <1>1, <1>4, <1>5, FinishKeeps DEF PlainPc, Accessed

(* A failed sub-session is dropped. *)
LEMMA R_DropKeeps ==
  ASSUME IInv, NEW r \in Handlers, R_Drop(r)
  PROVE  IInv'
<1> DEFINE x == h[r]
<1>1. /\ TypeOK /\ x \in State /\ x.pc = "r_drop" /\ At(r, x.pc) /\ x.sid \in 1 .. minted
      /\ Head(x.cands) \in Server
  BY HandlerIs DEF R_Drop, At, Steps, Places, OnSession, Routed, Server
<1>2. Accessed(x.sid)
  BY <1>1, DropTable DEF R_Drop
<1>3. Clean /\ UNCHANGED <<procVars, envVars, mixed>> /\ Set(r, Next1(x, Expired(x.sid)))
  BY SameClean DEF R_Drop, seenVars
<1> QED BY <1>1, <1>2, <1>3, NextKeeps DEF Accessed

(* What a server of a route is told needs no care. *)
LEMMA NoticeClean ==
  ASSUME IInv, NEW r \in Handlers, Notice(h[r]), NEW acct, Uses(r, acct)
  PROVE  Clean
BY UsesClean

(* The sub-sessions of a route are told, or ended. *)
LEMMA R_SubsKeeps ==
  ASSUME IInv, NEW r \in Handlers, R_Subs(r)
  PROVE  IInv'
<1> DEFINE x == h[r]
           id == x.sid
           gone == Expired(id)
<1>1. /\ TypeOK /\ x \in State /\ x.pc = "r_subs" /\ At(r, x.pc) /\ x.op \in {"rdel", "rnote"}
      /\ id \in 1 .. minted
  BY HandlerIs DEF R_Subs, At, Steps, Places, OnSession, Routed
<1>2. Accessed(id) /\ Clean /\ UNCHANGED <<procVars, envVars, mixed>>
  BY <1>1, TouchTable, NoticeClean DEF R_Subs, Notice
<1>3. CASE Finish(r, gone)
  BY <1>1, <1>2, <1>3, FinishKeeps DEF Accessed, PlainPc
<1>4. CASE x.op = "rdel" /\ Set(r, [x EXCEPT !.pc = "r_kill", !.fire = gone, !.got = {s \in {"std"} : Sub(id, s) # "none"}])
  <2> DEFINE g == {s \in {"std"} : Sub(id, s) # "none"}
             y == [x EXCEPT !.pc = "r_kill", !.fire = gone, !.got = g]
  <2>1. g \in SUBSET (Server \cup Accounts) /\ gone \in SUBSET Nat /\ "r_kill" \in Pc
    BY <1>2 DEF Pc, Accessed, Server
  <2>2. Set(r, y)
    BY <1>4
  <2> HIDE DEF g
  <2>3. y \in State /\ y.pc = "r_kill" /\ y.op = "rdel" /\ y.sid = id /\ y.fz = x.fz /\ y.fire = gone
    BY <1>1, <1>4, <2>1 DEF State
  <2> HIDE DEF y
  <2>4. Simple(y, minted')
    BY <1>1, <1>2, <2>3 DEF Simple, Steps, Accessed
  <2> QED BY <1>1, <1>2, <2>2, <2>3, <2>4, SimpleKeeps DEF Accessed, PlainPc
<1>5. CASE x.op = "rnote" /\ Sub(id, "std") # "none" /\ Goto(r, "r_tell")
  <2> DEFINE y == [x EXCEPT !.pc = "r_tell"]
  <2>1. y \in State /\ y.pc = "r_tell" /\ y.op = "rnote" /\ y.sid = id /\ y.fz = x.fz
    BY <1>1, <1>5 DEF State, Pc
  <2>2. Set(r, y) /\ gone = {}
    BY <1>2, <1>5 DEF Goto, Accessed, Sub
  <2> HIDE DEF y
  <2>3. Simple(y, minted')
    BY <1>1, <1>2, <2>1 DEF Simple, Steps, Accessed
  <2> QED BY <1>1, <1>2, <2>1, <2>2, <2>3, SimpleKeeps DEF Accessed, PlainPc
<1> QED BY <1>3, <1>4, <1>5 DEF R_Subs

(* A session of a route is deleted: the children are killed first. *)
LEMMA R_KillKeeps ==
  ASSUME IInv, NEW r \in Handlers, R_Kill(r)
  PROVE  IInv'
<1> DEFINE x == h[r]
           y == [x EXCEPT !.pc = "p_drop"]
<1>1. TypeOK /\ x \in State /\ x.pc = "r_kill" /\ x.fire = {} /\ x.op = "rdel" /\ x.sid \in 1 .. minted
  BY HandlerIs DEF R_Kill, At, Steps, Places, OnSession
<1>2. Set(r, y)
  BY DEF R_Kill, Goto
<1>3. y \in State /\ y.pc = "p_drop" /\ y.op = "rdel" /\ y.sid = x.sid /\ y.fz = x.fz
  BY <1>1 DEF State, Pc
<1> HIDE DEF y
<1>4. Table({}) /\ minted' = minted
  BY <1>1, QuietTable DEF R_Kill, tableVars
<1>5. Procs /\ Unasked /\ Unregistered
  <2> DEFINE keys == {<<x.sid, s>> : s \in x.got}
  <2>1. Kill(keys)
    BY DEF R_Kill
  <2> HIDE DEF keys
  <2> QED BY <1>1, <2>1, KillProcs
<1>6. Well(y, minted', Len(child'))
  BY <1>1, <1>3, <1>4, SimpleWell DEF Simple, Steps
<1>7. Plain(x, y, {})
  BY <1>3, <1>6 DEF Plain, PlainPc, Chooses, Routed
<1>8. ~Holder(x) /\ ~Checking(x) /\ x.pc \notin {"wait", "blocked", "failed", "r_sub"}
  BY <1>1 DEF Holder, Checking, Starting
<1>9. Clean /\ UNCHANGED <<spawn, frozen, faults, count, mixed>>
  BY SameClean DEF R_Kill, envVars, seenVars
<1> QED BY <1>1, <1>2, <1>4, <1>5, <1>7, <1>8, <1>9, PlainStep

(* Small numbers. *)
LEMMA Numbers ==
  /\ \A m \in {1, 2} : m \in Nat /\ m # 0
  /\ \A n \in Nat : \A i \in 1 .. n : i \in Nat
OBVIOUS

(* A registered child is taken for a call. *)
LEMMA CallStep ==
  ASSUME IInv, NEW r \in Handlers, NEW key \in DOMAIN reg, NEW m \in Nat, NEW t \in {"p_call", "note"} \cup Routed,
         Set(r, [h[r] EXCEPT !.pc = "call", !.conn = reg[key], !.id = m, !.then = t]),
         At(r, h[r].pc), h[r].pc \in {"p_conn", "use", "r_tell"},
         t = "note" => h[r].op = "rnote" /\ key = <<h[r].sid, "std">>,
         t = "p_call" => m # 0 /\ h[r].op = "call" /\ key = <<h[r].sid, "">> /\ m \notin TakenIds(r),
         t \in Routed => h[r].op = t /\ Head(h[r].cands) = "std" /\ key = <<h[r].sid, "std">> /\ child[reg[key]].acct \notin h[r].fz,
         UNCHANGED <<tableVars, procVars, envVars, seenVars>>
  PROVE  IInv'
<1> DEFINE x == h[r]
           y == [x EXCEPT !.pc = "call", !.conn = reg[key], !.id = m, !.then = t]
<1>m. m \in Nat
  OBVIOUS
<1>1. /\ TypeOK /\ x \in State /\ x.fire = {} /\ reg[key] \in 1 .. Len(child) /\ Len(child) \in Nat
      /\ x.op \in OnSession /\ x.sid \in 1 .. minted
      /\ x.op \in Routed => x.cands # <<>>
  BY HandlerIs, RegIs DEF At, Conns, Steps, Places, OnSession, Routed
<1>2. /\ y \in State /\ y.pc = "call" /\ y.conn = reg[key] /\ y.id = m /\ y.then = t
      /\ y.op = x.op /\ y.sid = x.sid /\ y.cands = x.cands /\ y.acct = x.acct /\ y.fz = x.fz
  <2>1. reg[key] \in Nat /\ m \in Nat /\ t \in Then /\ "call" \in Pc
    <3>1. reg[key] \in Nat
      BY <1>1, Numbers
    <3>2. t \in Then /\ "call" \in Pc
      BY DEF Pc, Then, Routed
    <3> QED BY <1>m, <3>1, <3>2
  <2> QED BY <1>1, <2>1 DEF State
<1>3. Set(r, y)
  OBVIOUS
<1> HIDE DEF y
<1>4. Table({}) /\ minted' = minted
  BY <1>1, QuietTable DEF tableVars
<1>5. Procs /\ Unasked /\ Unregistered /\ child' = child /\ spawn' = spawn
  BY <1>1, SameProcs DEF procVars
<1>6. Clean /\ UNCHANGED <<frozen, faults, count, mixed>>
  BY SameClean DEF seenVars, envVars
<1>7. spawn' \in [DOMAIN spawn' -> Handlers] /\ LocksKept(r)
  BY <1>5, LocksAre
<1>8. Well(y, minted', Len(child'))
  <2>1. Steps(y) /\ Calls(y)
    <3>1. t = "p_call" \/ t = "note" \/ t \in Routed
      BY DEF Routed
    <3>2. CASE t = "p_call"
      BY <1>2, <1>m, <3>2 DEF Steps, Calls, Talking, Routed
    <3>3. CASE t \in Routed
      BY <1>2, <3>3 DEF Steps, Calls, Talking, Routed
    <3>4. CASE t = "note"
      BY <1>2, <3>4 DEF Steps, Calls, Talking, Routed
    <3> QED BY <3>1, <3>2, <3>3, <3>4
  <2>2. Places(y, minted', Len(child'))
    BY <1>1, <1>2, <1>4, <1>5 DEF Places, Talking, Holder, Starting, OnSession, Routed
  <2> QED BY <2>1, <2>2 DEF Well
<1>9. OrphanStep(x, y)
  BY <1>1 DEF OrphanStep, Minds, Holder, Starting, Checking
<1>10. TakesOne(y)
  <2>1. ~Holder(y)
    BY <1>2 DEF Holder, Starting
  <2>2. y.op = "call" => t = "p_call"
    BY <1>2 DEF Routed
  <2>3. y.op = "call" => \A q \in Handlers : h[q].op = "call" /\ h[q].sid = y.sid => h[q].id # y.id
    BY <1>2, <2>2 DEF TakenIds
  <2>4. key = Home(y)
    BY <1>2, <2>2 DEF Home, Routed
  <2> QED BY <1>2, <2>1, <2>3, <2>4 DEF TakesOne
<1>11. Awaits(x, y) /\ Leaves(r)
  BY DEF Awaits, Leaves
<1>12. Chooses(x, y)
  BY <1>2 DEF Chooses
<1>13. Stands(r, y)
  BY <1>2, <1>5 DEF Stands, Spawning, Holder, Starting, Routed
<1> QED BY <1>2, <1>3, <1>4, <1>5, <1>6, <1>7, <1>8, <1>9, <1>10, <1>11, <1>12, <1>13, HandlerStep

(* A child of a route is taken for a notification. *)
LEMMA R_TellKeeps ==
  ASSUME IInv, NEW r \in Handlers, R_Tell(r)
  PROVE  IInv'
<1> DEFINE x == h[r]
           key == <<x.sid, "std">>
<1>1. TypeOK /\ x \in State /\ x.pc = "r_tell" /\ At(r, x.pc) /\ x.op = "rnote"
  BY HandlerIs DEF R_Tell, At, Steps
<1>2. Clean /\ UNCHANGED <<tableVars, procVars, envVars, seenVars>> /\ mixed' = mixed
  BY SameClean DEF R_Tell, seenVars
<1>3. Table({})
  BY <1>1, <1>2, QuietTable DEF tableVars
<1>4. CASE Finish(r, {})
  BY <1>1, <1>2, <1>3, <1>4, FinishKeeps DEF PlainPc
<1>5. CASE key \in DOMAIN reg /\ Set(r, [x EXCEPT !.pc = "call", !.conn = reg[key], !.then = "note"])
  <2>1. x.id \in Nat
    BY <1>1 DEF State
  <2>2. Set(r, [x EXCEPT !.pc = "call", !.conn = reg[key], !.id = x.id, !.then = "note"])
    BY <1>1, <1>5 DEF State
  <2>3. "note" \in {"p_call", "note"} \cup Routed /\ "note" # "p_call" /\ "note" \notin Routed
    BY DEF Routed
  <2> QED BY <1>1, <1>2, <1>5, <2>1, <2>2, <2>3, CallStep
<1> QED BY <1>4, <1>5 DEF R_Tell

(* A call on a pinned session. *)
LEMMA P_ConnKeeps ==
  ASSUME IInv, NEW r \in Handlers, P_Conn(r)
  PROVE  IInv'
<1> DEFINE x == h[r]
           key == <<x.sid, "">>
<1>1. TypeOK /\ x \in State /\ x.pc = "p_conn" /\ At(r, x.pc) /\ x.op = "call"
  BY HandlerIs DEF P_Conn, At, Steps
<1>2. UNCHANGED <<tableVars, procVars, envVars, seenVars>>
  BY DEF P_Conn
<1>3. CASE Finish(r, {})
  <2>1. Table({}) /\ Clean /\ UNCHANGED <<procVars, envVars, mixed>>
    BY <1>1, <1>2, QuietTable, SameClean DEF tableVars, seenVars
  <2> QED BY <1>1, <1>3, <2>1, FinishKeeps DEF PlainPc
<1>4. ASSUME key \in DOMAIN reg, NEW id \in {1, 2} \ TakenIds(r),
             Set(r, [x EXCEPT !.pc = "call", !.conn = reg[key], !.id = id, !.then = "p_call"])
      PROVE  IInv'
  <2>1. id \in Nat /\ id # 0 /\ id \notin TakenIds(r)
    BY Numbers
  <2>2. "p_call" \in {"p_call", "note"} \cup Routed /\ "p_call" # "note" /\ "p_call" \notin Routed
    BY DEF Routed
  <2> HIDE DEF x
  <2> QED BY <1>1, <1>2, <1>4, <2>1, <2>2, CallStep DEF x
<1> QED BY <1>3, <1>4 DEF P_Conn

(* The session of a new child is looked up again. *)
LEMMA P_CheckKeeps ==
  ASSUME IInv, NEW r \in Handlers, P_Check(r)
  PROVE  IInv'
<1> DEFINE x == h[r]
           gone == Expired(x.sid)
<1>1. /\ TypeOK /\ x \in State /\ x.pc = "p_check" /\ x.fire = {} /\ x.op = "init" /\ x.sid \in 1 .. minted
      /\ minted \in Nat /\ Len(child) \in Nat
  BY HandlerIs DEF P_Check, At, Steps, Places
<1>2. Accessed(x.sid) /\ Clean /\ UNCHANGED <<reg, child, spawn, frozen, faults, count, mixed>>
  BY <1>1, TouchTable, SameClean DEF P_Check, seenVars, procVars, envVars
<1>3. Procs /\ Unasked /\ Unregistered
  BY <1>1, <1>2, SameProcs
<1>4. ~Holder(x) /\ Checking(x) /\ x.pc \notin {"wait", "blocked", "failed", "r_sub"}
  BY <1>1 DEF Holder, Checking, Starting
<1>5. CASE Live(x.sid)
  <2>1. Finish(r, {}) /\ gone = {} /\ x.sid \in ToSet(lru')
    BY <1>2, <1>5 DEF P_Check, Accessed
  <2>2. Set(r, Done({})) /\ Plain(x, Done({}), {})
    BY <1>1, <1>2, <2>1, FinishPlain DEF Accessed
  <2> QED BY <1>1, <1>2, <1>3, <1>4, <2>1, <2>2, PlainStep DEF Accessed
<1>6. CASE ~Live(x.sid)
  <2> DEFINE y == [x EXCEPT !.pc = "p_undo", !.fire = gone]
  <2>1. Set(r, y)
    BY <1>6 DEF P_Check
  <2>2. y \in State /\ y.pc = "p_undo" /\ y.op = "init" /\ y.sid = x.sid /\ y.fz = x.fz /\ y.fire = gone
    BY <1>1, <1>2 DEF State, Pc, Accessed
  <2> HIDE DEF y
  <2>3. Well(y, minted', Len(child'))
    BY <1>1, <1>2, <2>2 DEF Well, Steps, Calls, Places, Talking, Holder, Starting, OnSession, Routed, Accessed
  <2>4. ~Holder(y) /\ ~Talking(y) /\ ~Spawning(y) /\ Checking(y)
    BY <2>2 DEF Holder, Talking, Spawning, Starting, Checking
  <2>5. OrphanStep(x, y)
    BY <1>1, <1>4, <2>2, <2>4 DEF OrphanStep, Minds
  <2>6. GoesOn(x, y) /\ Awaits(x, y) /\ Leaves(r)
    BY <1>4, <2>2, <2>4 DEF GoesOn, Awaits, Leaves
  <2>7. Chooses(x, y) /\ Stands(r, y)
    BY <2>2, <2>4 DEF Chooses, Stands, Routed
  <2>8. spawn' \in [DOMAIN spawn' -> Handlers] /\ LocksKept(r)
    BY <1>2, LocksAre
  <2> QED BY <1>2, <1>3, <1>4, <2>1, <2>2, <2>3, <2>5, <2>6, <2>7, <2>8, HandlerStep DEF Accessed
<1> QED BY <1>5, <1>6

(* It is gone: the child is killed. *)
LEMMA P_UndoKeeps ==
  ASSUME IInv, NEW r \in Handlers, P_Undo(r)
  PROVE  IInv'
<1> DEFINE x == h[r]
<1>1. TypeOK /\ x.pc = "p_undo" /\ x.fire = {} /\ minted \in Nat
  BY HandlerIs DEF P_Undo, At
<1>2. Table({}) /\ minted' = minted /\ Clean /\ UNCHANGED <<spawn, frozen, faults, count, mixed>>
  BY <1>1, QuietTable, SameClean DEF P_Undo, tableVars, seenVars, envVars
<1>3. Procs /\ Unasked /\ Unregistered /\ <<x.sid, "">> \notin DOMAIN reg'
  BY ZenonT(40), <1>1, KillProcs DEF P_Undo
<1>4. ~Holder(x) /\ x.pc \notin {"wait", "blocked", "failed", "r_sub"}
  BY <1>1 DEF Holder, Starting
<1>5. minted' \in Nat /\ Len(child') \in Nat
  BY <1>1, <1>2, <1>3, HandlerIs DEF Unasked
<1>6. Set(r, Done({})) /\ Plain(x, Done({}), {})
  BY <1>5, FinishPlain DEF P_Undo
<1> QED BY <1>1, <1>2, <1>3, <1>4, <1>6, PlainStep

(* The session of a child that was started is minted. *)
LEMMA P_PutKeeps ==
  ASSUME IInv, NEW r \in Handlers, P_Put(r)
  PROVE  IInv'
<1> DEFINE x == h[r]
           s == [NoSession EXCEPT !.server = "std", !.acct = x.acct]
           y == [x EXCEPT !.pc = "p_reg", !.sid = minted + 1, !.fire = Overflow]
<1>1. /\ TypeOK /\ x \in State /\ x.pc = "p_put" /\ x.fire = {} /\ x.op = "init"
      /\ x.conn \in 1 .. Len(child) /\ minted \in Nat /\ Len(child) \in Nat
  BY HandlerIs DEF P_Put, At, Steps, Places, Holder
<1>2. s \in Session /\ DOMAIN s.subs = {}
  BY <1>1, NewSession DEF State
<1>3. Put(s) /\ Set(r, y)
  BY DEF P_Put
<1> HIDE DEF s
<1>4. Table(Overflow) /\ minted' = minted + 1 /\ Overflow \subseteq Nat
  BY <1>1, <1>2, <1>3, PutTable
<1>5. /\ y \in State /\ y.pc = "p_reg" /\ y.op = "init" /\ y.sid = minted + 1 /\ y.conn = x.conn
      /\ y.fz = x.fz /\ y.fire = Overflow
  <2>1. minted + 1 \in Nat /\ "p_reg" \in Pc
    BY <1>1 DEF Pc
  <2> QED BY <1>1, <1>4, <2>1 DEF State
<1> HIDE DEF y
<1>6. Clean /\ UNCHANGED <<reg, child, spawn, frozen, faults, count, mixed>>
  BY SameClean DEF P_Put, seenVars, procVars, envVars
<1>7. Procs /\ Unasked /\ Unregistered
  BY <1>1, <1>6, SameProcs
<1>8. Well(y, minted', Len(child'))
  BY <1>1, <1>4, <1>5, <1>6 DEF Well, Steps, Calls, Places, Talking, Holder, Starting, OnSession, Routed
<1>9. /\ Holder(x) /\ Holder(y) /\ ~Talking(y) /\ ~Spawning(y) /\ ~Checking(x)
      /\ x.pc \notin {"wait", "blocked", "failed", "r_sub"}
  BY <1>1, <1>5 DEF Holder, Talking, Spawning, Checking, Starting
<1>10. OrphanStep(x, y)
  BY <1>1, <1>5, <1>9 DEF OrphanStep, Minds
<1>11. GoesOn(x, y) /\ Awaits(x, y) /\ Leaves(r)
  BY <1>1, <1>5, <1>9 DEF GoesOn, Awaits, Leaves
<1>12. Chooses(x, y) /\ Stands(r, y)
  BY <1>5, <1>9 DEF Chooses, Stands, Routed
<1>13. spawn' \in [DOMAIN spawn' -> Handlers] /\ LocksKept(r)
  BY <1>6, LocksAre
<1> QED BY <1>3, <1>4, <1>5, <1>6, <1>7, <1>8, <1>9, <1>10, <1>11, <1>12, <1>13, HandlerStep

(* The order of the servers. *)
LEMMA StickyIs ==
  ASSUME NEW c \in Seq(Server), c # <<>>, NEW s
  PROVE  StickyFirst(c, s) \in Seq(Server) /\ StickyFirst(c, s) # <<>>
<1> DEFINE at == {i \in DOMAIN c : c[i] = s}
           i == CHOOSE j \in at : TRUE
           d == [c EXCEPT ![1] = c[i], ![i] = c[1]]
<1>1. CASE at = {}
  BY <1>1 DEF StickyFirst
<1>2. CASE at # {}
  <2>1. i \in DOMAIN c
    BY <1>2
  <2>2. Len(c) \in Nat /\ c \in [1 .. Len(c) -> Server] /\ Len(c) # 0
    BY EmptySeq
  <2>3. 1 \in 1 .. Len(c) /\ i \in 1 .. Len(c)
    BY <2>1, <2>2
  <2> HIDE DEF i
  <2>4. d \in [1 .. Len(c) -> Server]
    BY <2>2, <2>3
  <2>5. d \in Seq(Server) /\ Len(d) = Len(c)
    <3>1. d \in Seq(Server)
      BY <2>2, <2>4, IsASeq
    <3> QED BY <2>2, <2>4, <3>1
  <2>6. d # <<>>
    BY <2>2, <2>5
  <2>7. StickyFirst(c, s) = d
    BY <1>2 DEF StickyFirst, i
  <2> HIDE DEF d
  <2> QED BY <2>5, <2>6, <2>7
<1> QED BY <1>1, <1>2

(* A request over a route. *)
LEMMA R_GetKeeps ==
  ASSUME IInv, NEW r \in Handlers, R_Get(r)
  PROVE  IInv'
<1> DEFINE x == h[r]
           id == x.sid
           gone == Expired(id)
           open == Live(id) /\ sess[id].server = Route
<1>1. /\ TypeOK /\ x \in State /\ x.pc = "r_get" /\ At(r, x.pc) /\ x.op \in Routed \cup {"rnote"}
      /\ id \in 1 .. minted /\ x.then = ""
  BY HandlerIs DEF R_Get, At, Steps, Places, OnSession, Routed
<1>2. Accessed(id) /\ Clean /\ UNCHANGED <<procVars, envVars, mixed>>
  BY <1>1, TouchTable, SameClean DEF R_Get, seenVars
<1>3. CASE Finish(r, gone)
  BY <1>1, <1>2, <1>3, FinishKeeps DEF Accessed, PlainPc
<1>4. ASSUME x.op = "rnote", Goto(r, "r_subs"), Live(id)
      PROVE  IInv'
  <2> DEFINE y == [x EXCEPT !.pc = "r_subs"]
  <2>1. y \in State /\ y.pc = "r_subs" /\ y.op = "rnote" /\ y.sid = id /\ y.fz = x.fz /\ y.then = ""
    BY <1>1, <1>4 DEF State, Pc
  <2>2. Set(r, y) /\ gone = {}
    BY <1>2, <1>4 DEF Goto, Accessed
  <2> HIDE DEF y
  <2>3. Simple(y, minted')
    BY <1>1, <1>2, <2>1 DEF Simple, Steps, Accessed
  <2> QED BY <1>1, <1>2, <2>1, <2>2, <2>3, SimpleKeeps DEF Accessed, PlainPc
<1>5. ASSUME x.op \in Routed, NEW c \in Seq(Server), c # <<>>, Set(r, [x EXCEPT !.pc = "ensure", !.cands = c]), Live(id)
      PROVE  IInv'
  <2> DEFINE y == [x EXCEPT !.pc = "ensure", !.cands = c]
  <2>1. /\ y \in State /\ y.pc = "ensure" /\ y.op = x.op /\ y.sid = id /\ y.fz = x.fz /\ y.cands = c
        /\ y.then = "" /\ y.acct = x.acct
    BY <1>1 DEF State, Pc
  <2>2. Set(r, y) /\ gone = {}
    BY <1>2, <1>5 DEF Accessed
  <2> HIDE DEF y
  <2>3. Well(y, minted', Len(child'))
    BY <1>1, <1>2, <1>5, <2>1
       DEF Well, Steps, Calls, Places, Talking, Holder, Starting, OnSession, Routed, Accessed
  <2>4. Plain(x, y, gone)
    BY <1>5, <2>1, <2>2, <2>3 DEF Plain, PlainPc, Chooses, Routed
  <2> QED BY <1>1, <1>2, <2>2, <2>4, PlainQuiet DEF Accessed, PlainPc
<1>6. Targets \in Seq(Server) /\ Targets # <<>>
  BY DEF Targets, Server
<1>7. StickyFirst(Targets, sess[id].sticky) \in Seq(Server) /\ StickyFirst(Targets, sess[id].sticky) # <<>>
  BY <1>6, StickyIs
<1>8. DOMAIN sess[id].subs \subseteq Server
  BY <1>1, SessionIs
<1>9. Live(id) => gone = {}
  BY <1>2 DEF Accessed
<1>10. CASE ~open /\ Finish(r, gone)
  BY <1>3, <1>10
<1>11. CASE open /\ x.op = "rnote" /\ Goto(r, "r_subs")
  BY <1>4, <1>11
<1>12. CASE /\ open /\ x.op = "rcall"
            /\ \/ Finish(r, {})
               \/ Set(r, [x EXCEPT !.pc = "ensure", !.cands = StickyFirst(Targets, sess[id].sticky)])
  BY <1>3, <1>5, <1>7, <1>9, <1>12 DEF Routed
<1>13. CASE /\ open /\ x.op = "rlist"
            /\ Finish(r, {}) \/ Set(r, [x EXCEPT !.pc = "ensure", !.cands = Targets])
  BY <1>3, <1>5, <1>6, <1>9, <1>13 DEF Routed
<1>14. \/ ~open /\ Finish(r, gone)
       \/ open /\ x.op = "rnote" /\ Goto(r, "r_subs")
       \/ /\ open /\ x.op = "rcall"
          /\ \/ Finish(r, {})
             \/ Set(r, [x EXCEPT !.pc = "ensure", !.cands = StickyFirst(Targets, sess[id].sticky)])
       \/ /\ open /\ x.op = "rlist"
          /\ Finish(r, {}) \/ Set(r, [x EXCEPT !.pc = "ensure", !.cands = Targets])
  <2> DEFINE c == IF Healthy = {} THEN <<>> ELSE Targets
  <2>1. c = <<>> \/ c = Targets
    OBVIOUS
  <2> QED BY <2>1 DEF R_Get
<1> QED BY <1>10, <1>11, <1>12, <1>13, <1>14

(* The eviction callbacks. *)
LEMMA EvictKeeps ==
  ASSUME IInv, NEW r \in Handlers, Evict(r)
  PROVE  IInv'
<1> DEFINE x == h[r]
           keys == UNION {KeysOf(i) : i \in x.fire}
           y == IF x.pc = "end" THEN Free ELSE [x EXCEPT !.fire = {}]
<1>1. /\ TypeOK /\ x \in State /\ minted \in Nat /\ Len(child) \in Nat
      /\ Steps(x) /\ Calls(x) /\ Places(x, minted, Len(child))
  BY HandlerIs
<1>2. Table({}) /\ minted' = minted /\ Clean /\ UNCHANGED <<spawn, frozen, faults, count, mixed>>
  BY <1>1, QuietTable, SameClean DEF Evict, tableVars, seenVars, envVars
<1>3. /\ Procs /\ Unasked /\ Unregistered /\ DOMAIN reg' = DOMAIN reg \ keys
      /\ Len(child') = Len(child)
  <2>1. Kill(keys)
    BY DEF Evict
  <2> HIDE DEF keys
  <2> QED BY <1>1, <2>1, KillProcs DEF Unasked
<1>4. \A k \in DOMAIN reg' : k[1] \notin x.fire
  BY <1>3 DEF KeysOf
<1>5. Set(r, y)
  BY DEF Evict
<1>6. spawn' \in [DOMAIN spawn' -> Handlers] /\ LocksKept(r)
  BY <1>2, LocksAre
<1>7. CASE x.pc # "end"
  <2>1. /\ y \in State /\ y.op = x.op /\ y.pc = x.pc /\ y.sid = x.sid /\ y.cands = x.cands /\ y.got = x.got
        /\ y.conn = x.conn /\ y.id = x.id /\ y.n = x.n /\ y.acct = x.acct /\ y.then = x.then /\ y.fz = x.fz
    BY <1>1, <1>7 DEF State
  <2> HIDE DEF y
  <2>2. Well(y, minted', Len(child'))
    <3>1. Steps(y) /\ Calls(y)
      BY ZenonT(40), <1>1, <2>1 DEF Steps, Calls, Talking
    <3>2. Places(y, minted', Len(child'))
      BY ZenonT(40), <1>1, <1>2, <1>3, <2>1 DEF Places, Talking, Holder
    <3> QED BY <3>1, <3>2 DEF Well
  <2>3. OrphanStep(x, y)
    BY <1>4, <2>1 DEF OrphanStep, Minds, Holder, Checking
  <2>4. GoesOn(x, y)
    BY <2>1 DEF GoesOn, Holder, Talking
  <2>5. Awaits(x, y)
    BY <2>1 DEF Awaits, Asked, Direct
  <2>6. Stays(x, y)
    BY <2>1 DEF Stays
  <2>7. Leaves(r)
    <3>1. h'[r] = y
      BY <1>1, <1>5 DEF Set, TypeOK
    <3> QED BY <2>1, <3>1 DEF Leaves
  <2> QED BY <1>2, <1>3, <1>5, <1>6, <2>1, <2>2, <2>3, <2>4, <2>5, <2>6, <2>7, HandlerStep
<1>8. CASE x.pc = "end"
  <2>1. y = Done({})
    BY <1>8 DEF Done
  <2>2. Plain(x, Done({}), {})
    BY <1>1, <1>2, <1>3, DonePlain
  <2>3. /\ Done({}) \in State /\ Well(Done({}), minted', Len(child')) /\ Chooses(x, Done({}))
        /\ Done({}).pc \in {"free", "end"} /\ Done({}).op = ""
    BY <2>2, DoneIs DEF Plain
  <2> DEFINE d == Done({})
  <2> HIDE DEF y, d
  <2>4. ~Holder(d) /\ ~Talking(d) /\ ~Spawning(d) /\ ~Holder(x) /\ ~Checking(x)
    BY <1>8, <2>3 DEF Holder, Talking, Spawning, Checking, Starting, d
  <2>5. OrphanStep(x, d)
    BY <1>4, <1>8, <2>4 DEF OrphanStep, Minds
  <2>6. GoesOn(x, d) /\ Awaits(x, d) /\ Leaves(r)
    BY <1>8, <2>3, <2>4 DEF GoesOn, Awaits, Leaves, d
  <2>7. Stands(r, d)
    BY <2>3, <2>4 DEF Stands, d, Routed
  <2>8. Set(r, d) /\ d \in State /\ Well(d, minted', Len(child')) /\ Chooses(x, d) /\ d.pc # "blocked"
    BY <1>5, <2>1, <2>3 DEF d
  <2> QED BY <1>2, <1>3, <1>6, <1>8, <2>5, <2>6, <2>7, <2>8, HandlerStep
<1> QED BY <1>7, <1>8

(* The child of a healthy sub-session may be used by every request. *)
LEMMA SubUsable ==
  ASSUME IInv, NEW r \in Handlers, NEW id \in 1 .. minted, Sub(id, "std") \in Healthy,
         <<id, "std">> \in DOMAIN reg
  PROVE  child[reg[<<id, "std">>]].acct \notin h[r].fz
<1> DEFINE c == reg[<<id, "std">>]
<1>1. h[r].fz \subseteq frozen
  BY HandlerIs
<1>2. Sub(id, "std") \in Accounts \ frozen /\ "none" \notin Accounts
  BY McpAssumption DEF Healthy
<1>3. "std" \in DOMAIN sess[id].subs /\ sess[id].subs["std"] \in Accounts \ frozen
  BY <1>2 DEF Sub
<1>4. \/ child[c].acct = sess[id].subs["std"]
      \/ \E q \in Handlers : h[q].pc = "r_sub" /\ h[q].acct = child[c].acct
  BY <1>3 DEF IInv, Freezes, Matched
<1>5. CASE child[c].acct = sess[id].subs["std"]
  BY <1>1, <1>3, <1>5
<1>6. ASSUME NEW q \in Handlers, h[q].pc = "r_sub", h[q].acct = child[c].acct PROVE child[c].acct \notin h[r].fz
  <2>1. h[q].op \in Routed
    BY <1>6, HandlerIs DEF Steps
  <2> QED BY <1>6, <2>1 DEF IInv, Freezes, Picked
<1> QED BY <1>4, <1>5, <1>6

(* A routed request has found or built its sub-session. *)
LEMMA UseStep ==
  ASSUME IInv, NEW r \in Handlers, NEW a \in Accounts, NEW gone \in SUBSET Nat,
         Set(r, [h[r] EXCEPT !.pc = "use", !.acct = a, !.fire = gone]),
         At(r, h[r].pc), h[r].pc \in {"ensure", "lock", "w_build"},
         a \notin frozen \/ a = h[r].acct,
         Head(h[r].cands) = "std" /\ <<h[r].sid, "std">> \in DOMAIN reg
           => child[reg[<<h[r].sid, "std">>]].acct \notin h[r].fz,
         Table(gone), minted' = minted, Clean, UNCHANGED <<procVars, envVars, mixed>>
  PROVE  IInv'
<1> DEFINE x == h[r]
           y == [x EXCEPT !.pc = "use", !.acct = a, !.fire = gone]
<1>1. /\ TypeOK /\ x \in State /\ x.fire = {} /\ x.op \in Routed /\ x.cands # <<>> /\ x.sid \in 1 .. minted
      /\ x.then = ""
  BY HandlerIs DEF At, Steps, Places, OnSession, Routed
<1>2. /\ y \in State /\ y.pc = "use" /\ y.op = x.op /\ y.sid = x.sid /\ y.cands = x.cands /\ y.then = x.then
      /\ y.acct = a /\ y.fz = x.fz /\ y.fire = gone
  BY <1>1 DEF State, Pc
<1>3. Set(r, y)
  OBVIOUS
<1> HIDE DEF y
<1>4. Procs /\ Unasked /\ Unregistered /\ child' = child /\ reg' = reg /\ spawn' = spawn
  BY <1>1, SameProcs DEF procVars
<1>5. spawn' \in [DOMAIN spawn' -> Handlers] /\ LocksKept(r)
  BY <1>4, LocksAre
<1>6. Well(y, minted', Len(child'))
  BY <1>1, <1>2 DEF Well, Steps, Calls, Places, Talking, Holder, Starting, OnSession, Routed
<1>7. ~Holder(x) /\ ~Holder(y) /\ ~Talking(y) /\ ~Spawning(y) /\ ~Checking(x) /\ y.op # "call"
  BY <1>1, <1>2 DEF Holder, Talking, Spawning, Checking, Starting, Routed
<1>8. OrphanStep(x, y)
  BY <1>1, <1>7 DEF OrphanStep, Minds
<1>9. GoesOn(x, y) /\ Awaits(x, y) /\ Leaves(r)
  BY <1>7 DEF GoesOn, Awaits, Leaves
<1>10. Chooses(x, y)
  BY <1>1, <1>2 DEF Chooses
<1>11. Stands(r, y)
  BY <1>2, <1>4, <1>7 DEF Stands
<1> QED BY <1>2, <1>3, <1>4, <1>5, <1>6, <1>8, <1>9, <1>10, <1>11, HandlerStep DEF envVars

(* A sub-session is found or dropped. *)
LEMMA EnsureKeeps ==
  ASSUME IInv, NEW r \in Handlers, Ensure(r)
  PROVE  IInv'
<1> DEFINE x == h[r]
           id == x.sid
           s == Head(x.cands)
           sub == Sub(id, s)
           gone == Expired(id)
           build == IF s = "std" THEN "lock" ELSE "w_build"
<1>1. /\ TypeOK /\ x \in State /\ x.fire = {} /\ x.op \in Routed /\ x.cands # <<>> /\ x.sid \in 1 .. minted
      /\ x.then = "" /\ x.pc = "ensure" /\ At(r, x.pc)
  BY HandlerIs DEF Ensure, At, Steps, Places, OnSession, Routed
<1>2. s \in Server
  <2>1. x.cands \in Seq(Server)
    BY <1>1 DEF State
  <2> QED BY <1>1, <2>1, HeadTailProperties
<1>3. Clean /\ UNCHANGED <<procVars, envVars, mixed>>
  BY SameClean DEF Ensure, seenVars
<1>4. CASE sub \in Healthy /\ Touch(id) /\ Set(r, [x EXCEPT !.pc = "use", !.acct = sub])
  <2>1. Accessed(id) /\ sub \in Accounts \ frozen
    BY <1>1, <1>4, TouchTable DEF Healthy
  <2>2. gone = {}
    <3>1. sub # "none"
      BY <2>1, McpAssumption
    <3> QED BY <2>1, <3>1 DEF Sub, Accessed
  <2>3. s = "std" /\ <<id, "std">> \in DOMAIN reg => child[reg[<<id, "std">>]].acct \notin x.fz
    BY <1>1, <1>4, SubUsable
  <2>4. Set(r, [x EXCEPT !.pc = "use", !.acct = sub, !.fire = {}])
    <3>1. [x EXCEPT !.pc = "use", !.acct = sub] = [x EXCEPT !.pc = "use", !.acct = sub, !.fire = {}]
      BY <1>1 DEF State
    <3> QED BY <1>4, <3>1
  <2> HIDE DEF sub, s
  <2> QED BY <1>1, <1>3, <2>1, <2>2, <2>3, <2>4, UseStep DEF Accessed, s
<1>5. CASE Access(id, DropSub(id, s)) /\ Set(r, Next1(x, gone))
  <2>1. Accessed(id)
    BY <1>1, <1>2, <1>5, DropTable
  <2> QED BY <1>1, <1>3, <1>5, <2>1, NextKeeps DEF Accessed
<1>6. ASSUME Access(id, DropSub(id, s)), NEW a \in Healthy,
             Set(r, [x EXCEPT !.pc = build, !.acct = a, !.fire = gone])
      PROVE  IInv'
  <2> DEFINE y == [x EXCEPT !.pc = build, !.acct = a, !.fire = gone]
  <2>1. Accessed(id) /\ a \in Accounts \ frozen
    BY <1>1, <1>2, <1>6, DropTable DEF Healthy
  <2>2. build \in Pc /\ ((build = "lock" /\ s = "std") \/ (build = "w_build" /\ s = "web"))
    <3> HIDE DEF s
    <3>1. s = "std" \/ s = "web"
      BY <1>2 DEF Server
    <3> QED BY <3>1 DEF Pc
  <2> HIDE DEF build
  <2>3. /\ y \in State /\ y.pc = build /\ y.op = x.op /\ y.sid = id /\ y.cands = x.cands /\ y.then = ""
        /\ y.acct = a /\ y.fz = x.fz /\ y.fire = gone
    BY <1>1, <2>1, <2>2 DEF State, Accessed
  <2>4. Set(r, y)
    BY <1>6
  <2> HIDE DEF y
  <2>5. Well(y, minted', Len(child'))
    BY <1>1, <2>1, <2>2, <2>3
       DEF Well, Steps, Calls, Places, Talking, Holder, Starting, OnSession, Routed, Accessed
  <2>6. Plain(x, y, gone)
    BY <1>1, <2>1, <2>2, <2>3, <2>5 DEF Plain, PlainPc, Chooses, Routed
  <2> QED BY <1>1, <1>3, <2>1, <2>4, <2>6, PlainQuiet DEF Accessed, PlainPc
<1> QED BY <1>4, <1>5, <1>6 DEF Ensure

(* An HTTP server's sub-session is built. *)
LEMMA W_BuildKeeps ==
  ASSUME IInv, NEW r \in Handlers, W_Build(r)
  PROVE  IInv'
<1> DEFINE x == h[r]
           id == x.sid
           s == Head(x.cands)
           gone == Expired(id)
           t == PutSub(id, s, x.acct)
<1>1. /\ TypeOK /\ x \in State /\ x.fire = {} /\ x.op \in Routed /\ x.sid \in 1 .. minted
      /\ x.pc = "w_build" /\ At(r, x.pc) /\ s = "web" /\ x.acct \in Accounts
  BY HandlerIs DEF W_Build, At, Steps, Places, OnSession, Routed
<1>2. Clean /\ UNCHANGED <<procVars, envVars, mixed>>
  <2>1. x.acct \notin x.fz
    BY <1>1 DEF IInv, Freezes, Picked
  <2> QED BY <2>1, UsesClean DEF W_Build
<1>3. CASE Set(r, Next1(x, {})) /\ UNCHANGED tableVars
  BY <1>1, <1>2, <1>3, QuietTable, NextKeeps DEF tableVars
<1>4. CASE Access(id, PutSub(id, s, x.acct)) /\ Set(r, [x EXCEPT !.pc = "use", !.fire = gone])
  <2>1. /\ t \in Session
        /\ "std" \in DOMAIN t.subs => "std" \in DOMAIN sess[id].subs /\ t.subs["std"] = sess[id].subs["std"]
    BY <1>1, PutSubIs DEF Server
  <2>2. Access(id, t)
    BY <1>4
  <2> HIDE DEF t
  <2>3. Accessed(id)
    BY <1>1, <2>1, <2>2, AccessTable DEF Accessed
  <2>4. [x EXCEPT !.pc = "use", !.fire = gone] = [x EXCEPT !.pc = "use", !.acct = x.acct, !.fire = gone]
    BY <1>1 DEF State
  <2> QED BY <1>1, <1>2, <1>4, <2>3, <2>4, UseStep DEF Accessed
<1> QED BY <1>3, <1>4 DEF W_Build

(* An HTTP server is called over a route. *)
LEMMA UseWebKeeps ==
  ASSUME IInv, NEW r \in Handlers, UseWeb(r)
  PROVE  IInv'
<1> DEFINE x == h[r]
           id == x.sid
           s == Head(x.cands)
           gone == Expired(id)
<1>1. /\ TypeOK /\ x \in State /\ x.fire = {} /\ x.op \in Routed /\ x.sid \in 1 .. minted /\ x.cands # <<>>
      /\ x.pc = "use" /\ At(r, x.pc) /\ s = "web" /\ x.acct \in Accounts /\ x.then = ""
  BY HandlerIs DEF UseWeb, At, Steps, Places, OnSession, Routed
<1>2. Clean /\ UNCHANGED <<procVars, envVars, mixed>>
  <2>1. x.acct \notin x.fz
    BY <1>1 DEF IInv, Freezes, Picked
  <2> QED BY <2>1, UsesClean DEF UseWeb
<1>3. CASE Set(r, Next1(x, {})) /\ UNCHANGED tableVars
  BY <1>1, <1>2, <1>3, QuietTable, NextKeeps DEF tableVars
<1>4. CASE Access(id, DropSub(id, s)) /\ Set(r, Next1(x, gone))
  <2>1. Accessed(id)
    BY <1>1, <1>4, DropTable DEF Server
  <2> QED BY <1>1, <1>2, <1>4, <2>1, NextKeeps DEF Accessed
<1>5. CASE Goto(r, "answered") /\ UNCHANGED tableVars
  <2> DEFINE y == [x EXCEPT !.pc = "answered"]
  <2>1. /\ y \in State /\ y.pc = "answered" /\ y.op = x.op /\ y.sid = id /\ y.cands = x.cands /\ y.then = ""
        /\ y.acct = x.acct /\ y.fz = x.fz
    BY <1>1 DEF State, Pc
  <2>2. Set(r, y) /\ Table({}) /\ minted' = minted
    BY <1>1, <1>5, QuietTable DEF Goto, tableVars
  <2> HIDE DEF y
  <2>3. Procs /\ Unasked /\ Unregistered /\ child' = child /\ spawn' = spawn
    BY <1>1, <1>2, SameProcs DEF procVars
  <2>4. spawn' \in [DOMAIN spawn' -> Handlers] /\ LocksKept(r)
    BY <2>3, LocksAre
  <2>5. Well(y, minted', Len(child'))
    BY <1>1, <2>1, <2>2 DEF Well, Steps, Calls, Places, Talking, Holder, Starting, OnSession, Routed
  <2>6. ~Holder(x) /\ ~Holder(y) /\ ~Talking(y) /\ ~Spawning(y) /\ ~Checking(x) /\ y.op # "call"
    BY <1>1, <2>1 DEF Holder, Talking, Spawning, Checking, Starting, Routed
  <2>7. OrphanStep(x, y)
    BY <1>1, <2>6 DEF OrphanStep, Minds
  <2>8. GoesOn(x, y) /\ Awaits(x, y) /\ Leaves(r)
    BY <1>1, <2>6 DEF GoesOn, Awaits, Leaves
  <2>9. Chooses(x, y) /\ Stands(r, y)
    BY <1>1, <2>1, <2>6 DEF Chooses, Stands
  <2> QED BY <1>1, <1>2, <2>1, <2>2, <2>3, <2>4, <2>5, <2>7, <2>8, <2>9, HandlerStep DEF envVars
<1> QED BY <1>3, <1>4, <1>5 DEF UseWeb

(* The stdio server is called over a route. *)
LEMMA UseStdKeeps ==
  ASSUME IInv, NEW r \in Handlers, UseStd(r)
  PROVE  IInv'
<1> DEFINE x == h[r]
           id == x.sid
           s == Head(x.cands)
           gone == Expired(id)
           key == <<id, "std">>
<1>1. /\ TypeOK /\ x \in State /\ x.fire = {} /\ x.op \in Routed /\ x.sid \in 1 .. minted /\ x.cands # <<>>
      /\ x.pc = "use" /\ At(r, x.pc) /\ s = "std" /\ Key(r) = key
  BY HandlerIs DEF UseStd, At, Steps, Places, OnSession, Routed, Key
<1>2. Clean /\ UNCHANGED <<procVars, envVars, seenVars>> /\ mixed' = mixed
  BY SameClean DEF UseStd, seenVars
<1>3. CASE Set(r, Next1(x, {})) /\ UNCHANGED tableVars
  BY <1>1, <1>2, <1>3, QuietTable, NextKeeps DEF tableVars
<1>4. CASE Access(id, DropSub(id, s)) /\ Set(r, Next1(x, gone))
  <2>1. Accessed(id)
    BY <1>1, <1>4, DropTable DEF Server
  <2> QED BY <1>1, <1>2, <1>4, <2>1, NextKeeps DEF Accessed
<1>5. ASSUME key \in DOMAIN reg, UNCHANGED tableVars, NEW m \in {1, 2},
             Set(r, [x EXCEPT !.pc = "call", !.conn = reg[key], !.id = m, !.then = x.op])
      PROVE  IInv'
  <2>1. child[reg[key]].acct \notin x.fz
    BY <1>1, <1>5 DEF IInv, Freezes, Usable
  <2>2. x.op \in {"p_call", "note"} \cup Routed /\ x.op # "p_call" /\ x.op # "note" /\ m \in Nat
    BY <1>1, <1>5, Numbers DEF Routed
  <2> HIDE DEF x, key
  <2> QED BY <1>1, <1>2, <1>5, <2>1, <2>2, CallStep DEF x, key
<1>6. \A m \in IF x.op = "rlist" THEN {2} ELSE {1, 2} \ TakenIds(r) : m \in {1, 2}
  OBVIOUS
<1> QED BY <1>1, <1>3, <1>4, <1>5, <1>6 DEF UseStd

(* The spawn lock is taken, and the sub-session looked up again. *)
LEMMA LockKeeps ==
  ASSUME IInv, NEW r \in Handlers, Lock(r)
  PROVE  IInv'
<1> DEFINE x == h[r]
           id == x.sid
           s == Head(x.cands)
           sub == Sub(id, s)
           gone == Expired(id)
           key == <<id, "std">>
<1>1. /\ TypeOK /\ x \in State /\ x.fire = {} /\ x.op \in Routed /\ x.cands # <<>> /\ x.sid \in 1 .. minted
      /\ x.then = "" /\ x.pc = "lock" /\ At(r, x.pc) /\ s = "std" /\ Key(r) = key /\ x.acct \in Accounts
  BY HandlerIs DEF Lock, At, Steps, Places, OnSession, Routed, Key
<1>3. Clean /\ UNCHANGED <<reg, child, envVars, mixed>> /\ key \notin DOMAIN spawn
  BY <1>1, SameClean DEF Lock, seenVars
<1>4. CASE sub \in Healthy /\ Touch(id) /\ Set(r, [x EXCEPT !.pc = "use", !.acct = sub]) /\ UNCHANGED spawn
  <2>1. Accessed(id) /\ sub \in Accounts \ frozen
    BY <1>1, <1>4, TouchTable DEF Healthy
  <2>2. gone = {}
    <3>1. sub # "none"
      BY <2>1, McpAssumption
    <3> QED BY <2>1, <3>1 DEF Sub, Accessed
  <2>3. <<id, "std">> \in DOMAIN reg => child[reg[<<id, "std">>]].acct \notin x.fz
    BY <1>1, <1>4, SubUsable
  <2>4. Set(r, [x EXCEPT !.pc = "use", !.acct = sub, !.fire = {}])
    <3>1. [x EXCEPT !.pc = "use", !.acct = sub] = [x EXCEPT !.pc = "use", !.acct = sub, !.fire = {}]
      BY <1>1 DEF State
    <3> QED BY <1>4, <3>1
  <2> HIDE DEF sub, s
  <2> QED BY <1>1, <1>3, <1>4, <2>1, <2>2, <2>3, <2>4, UseStep DEF Accessed, procVars, s
<1>5. CASE /\ Access(id, DropSub(id, s)) /\ Set(r, [x EXCEPT !.pc = "start", !.fire = gone])
           /\ spawn' = Bind(spawn, key, r)
  <2> DEFINE y == [x EXCEPT !.pc = "start", !.fire = gone]
  <2>1. Accessed(id)
    BY <1>1, <1>5, DropTable DEF Server
  <2>2. /\ y \in State /\ y.pc = "start" /\ y.op = x.op /\ y.sid = id /\ y.cands = x.cands /\ y.then = ""
        /\ y.acct = x.acct /\ y.fz = x.fz /\ y.fire = gone
    BY <1>1, <2>1 DEF State, Pc, Accessed
  <2>3. Set(r, y)
    BY <1>5
  <2> HIDE DEF y
  <2>4. Procs /\ Unasked /\ Unregistered
    BY <1>1, <1>3, SameProcs
  <2>5. /\ key \in DOMAIN spawn' /\ spawn'[key] = r
        /\ spawn' \in [DOMAIN spawn' -> Handlers] /\ LocksKept(r)
    <3>1. spawn \in [DOMAIN spawn -> Handlers]
      BY <1>1 DEF TypeOK
    <3>2. /\ DOMAIN spawn' = DOMAIN spawn \cup {key} /\ spawn' = [k \in DOMAIN spawn' |-> spawn'[k]]
          /\ spawn'[key] = r /\ \A k \in DOMAIN spawn : k # key => spawn'[k] = spawn[k]
      BY <1>5 DEF Bind
    <3> QED BY <1>3, <3>1, <3>2 DEF LocksKept
  <2>6. Well(y, minted', Len(child'))
    BY <1>1, <2>1, <2>2 DEF Well, Steps, Calls, Places, Talking, Holder, Starting, OnSession, Routed, Accessed
  <2>7. ~Holder(x) /\ ~Holder(y) /\ ~Talking(y) /\ ~Checking(x) /\ y.op # "call"
    BY <1>1, <2>2 DEF Holder, Talking, Checking, Starting, Routed
  <2>8. OrphanStep(x, y)
    BY <1>1, <2>7 DEF OrphanStep, Minds
  <2>9. GoesOn(x, y) /\ Awaits(x, y) /\ Leaves(r)
    BY <1>1, <2>7 DEF GoesOn, Awaits, Leaves
  <2>10. Chooses(x, y) /\ Stands(r, y)
    BY <1>1, <2>2, <2>5, <2>7 DEF Chooses, Stands
  <2> QED BY <1>1, <1>3, <2>1, <2>2, <2>3, <2>4, <2>5, <2>6, <2>8, <2>9, <2>10, HandlerStep DEF envVars, Accessed
<1> QED BY <1>1, <1>4, <1>5 DEF Lock

(* The owner of a child goes on with it. *)
LEMMA HolderStep ==
  ASSUME IInv, NEW r \in Handlers, NEW pc \in {"p_put", "r_reg"}, Goto(r, pc),
         At(r, "answered"), h[r].then = IF pc = "p_put" THEN "p_init" ELSE "r_init",
         UNCHANGED <<tableVars, procVars, envVars, seenVars>>
  PROVE  IInv'
<1> DEFINE x == h[r]
           y == [x EXCEPT !.pc = pc]
           k == <<x.sid, "std">>
<1>1. /\ TypeOK /\ x \in State /\ x.fire = {} /\ x.pc = "answered" /\ x.then \in {"p_init", "r_init"}
      /\ Holder(x) /\ x.conn \in 1 .. Len(child)
      /\ pc = "p_put" => x.then = "p_init" /\ x.op = "init"
      /\ pc = "r_reg" => x.then = "r_init" /\ x.op \in Routed
      /\ x.op \in Routed => x.cands # <<>> /\ x.sid \in 1 .. minted /\ Head(x.cands) = "std"
  BY HandlerIs DEF At, Steps, Calls, Places, Holder, Starting, OnSession, Routed
<1>2. /\ y \in State /\ y.pc = pc /\ y.op = x.op /\ y.sid = x.sid /\ y.cands = x.cands /\ y.then = x.then
      /\ y.acct = x.acct /\ y.fz = x.fz /\ y.conn = x.conn
  BY <1>1 DEF State, Pc
<1>3. Set(r, y)
  BY DEF Goto
<1> HIDE DEF y
<1>4. Table({}) /\ minted' = minted /\ Clean /\ UNCHANGED <<reg, child, spawn, frozen, faults, count, mixed>>
  BY <1>1, QuietTable, SameClean DEF tableVars, seenVars, envVars, procVars
<1>5. Procs /\ Unasked /\ Unregistered
  BY <1>1, <1>4, SameProcs
<1>6. spawn' \in [DOMAIN spawn' -> Handlers] /\ LocksKept(r)
  BY <1>4, LocksAre
<1>7. x.op \in Routed => child[x.conn].acct = x.acct /\ x.acct \in Accounts
  <2>1. x.op \in Routed => child[x.conn].acct = x.acct
    BY <1>1 DEF IInv, Freezes, Started
  <2>2. child[x.conn] \in Child
    BY <1>1, RegIs DEF Conns
  <2> QED BY <2>1, <2>2 DEF Child
<1>8. Well(y, minted', Len(child'))
  <2>1. CASE pc = "p_put"
    BY <1>1, <1>2, <1>4, <2>1 DEF Well, Steps, Calls, Places, Talking, Holder, Starting, OnSession, Routed
  <2>2. CASE pc = "r_reg"
    BY <1>1, <1>2, <1>4, <1>7, <2>2 DEF Well, Steps, Calls, Places, Talking, Holder, Starting, OnSession, Routed
  <2> QED BY <2>1, <2>2
<1>9. /\ Holder(y) /\ ~Talking(y) /\ ~Checking(x) /\ y.op # "call"
      /\ Spawning(y) => pc = "r_reg" /\ Spawning(x)
      /\ x.pc \notin {"wait", "blocked", "failed", "r_sub"}
  BY <1>1, <1>2 DEF Holder, Talking, Checking, Spawning, Starting, Routed
<1>10. OrphanStep(x, y)
  BY <1>1, <1>2, <1>9 DEF OrphanStep, Minds
<1>11. GoesOn(x, y) /\ Awaits(x, y) /\ Leaves(r)
  BY <1>1, <1>2, <1>9 DEF GoesOn, Awaits, Leaves
<1>12. Chooses(x, y)
  BY <1>1, <1>2 DEF Chooses
<1>13. Spawning(x) => k \in DOMAIN spawn /\ spawn[k] = r
  BY DEF IInv, Freezes, Locked
<1>14. Stands(r, y)
  BY <1>1, <1>2, <1>4, <1>7, <1>9, <1>13 DEF Stands
<1> QED BY <1>2, <1>3, <1>4, <1>5, <1>6, <1>8, <1>9, <1>10, <1>11, <1>12, <1>14, HandlerStep

(* A call is answered. *)
LEMMA AnsweredKeeps ==
  ASSUME IInv, NEW r \in Handlers, Answered(r)
  PROVE  IInv'
<1> DEFINE x == h[r]
           id == x.sid
           s == Head(x.cands)
           gone == Expired(id)
<1>1. /\ TypeOK /\ x \in State /\ x.fire = {} /\ x.pc = "answered" /\ At(r, x.pc)
      /\ x.op \in Routed => x.sid \in 1 .. minted /\ x.cands # <<>>
      /\ minted \in Nat /\ Len(child) \in Nat
  BY HandlerIs DEF Answered, At, Steps, Places, OnSession, Routed
<1>2. Clean /\ UNCHANGED <<procVars, envVars, seenVars>> /\ UNCHANGED <<reg, child, spawn, frozen, faults, count, mixed>>
  BY SameClean DEF Answered, seenVars, procVars, envVars
<1>3. Procs /\ Unasked /\ Unregistered
  BY <1>1, <1>2, SameProcs
<1>4. x.op \in Routed => s \in Server
  <2>1. x.cands \in Seq(Server)
    BY <1>1 DEF State
  <2> QED BY <1>1, <2>1, HeadTailProperties
<1>p. ASSUME NEW y, NEW S, Set(r, y), Plain(x, y, S), Table(S), x.then \notin {"p_init", "r_init"}
      PROVE  IInv'
  <2>1. ~Holder(x) /\ ~Checking(x) /\ x.pc \notin {"wait", "blocked", "failed", "r_sub"}
    BY <1>1, <1>p DEF Holder, Checking, Starting
  <2> QED BY <1>1, <1>2, <1>3, <1>p, <2>1, PlainStep
<1>5. CASE x.then = "p_init" /\ Goto(r, "p_put") /\ UNCHANGED tableVars
  BY <1>1, <1>2, <1>5, HolderStep
<1>6. CASE x.then = "p_call" /\ Finish(r, {}) /\ UNCHANGED tableVars
  <2>1. Table({}) /\ minted' = minted
    BY <1>1, <1>6, QuietTable DEF tableVars
  <2>2. Set(r, Done({})) /\ Plain(x, Done({}), {})
    BY <1>1, <1>2, <1>6, <2>1, FinishPlain
  <2> QED BY <1>p, <1>6, <2>1, <2>2
<1>7. CASE x.then = "r_init" /\ Goto(r, "r_reg") /\ UNCHANGED tableVars
  BY <1>1, <1>2, <1>7, HolderStep
<1>8. CASE /\ x.op = "rlist" /\ x.then # "r_init"
           /\ Set(r, Next1([x EXCEPT !.got = @ \cup {s}], {})) /\ UNCHANGED tableVars
  <2> DEFINE rec == [x EXCEPT !.got = @ \cup {s}]
  <2>1. Table({}) /\ minted' = minted
    BY <1>1, <1>8, QuietTable DEF tableVars
  <2>2. x.op \in Routed /\ x.got \in SUBSET (Server \cup Accounts) /\ s \in Server
    BY <1>1, <1>4, <1>8 DEF State, Routed
  <2>3. rec \in State /\ rec.op = x.op /\ rec.cands = x.cands /\ rec.sid = x.sid /\ rec.fz = x.fz
    <3> DEFINE g == x.got \cup {s}
    <3>1. g \in SUBSET (Server \cup Accounts)
      BY <2>2
    <3>2. rec = [x EXCEPT !.got = g]
      BY <1>1 DEF State
    <3> HIDE DEF g
    <3> QED BY <1>1, <3>1, <3>2 DEF State
  <2>4. Set(r, Next1(rec, {}))
    BY <1>8
  <2> HIDE DEF rec
  <2>5. Plain(x, Next1(rec, {}), {})
    BY <1>1, <1>2, <2>1, <2>2, <2>3, NextPlain
  <2>6. x.then # "p_init"
    BY <1>1, <1>8, HandlerIs DEF Calls
  <2> QED BY <1>p, <1>8, <2>1, <2>4, <2>5, <2>6
<1>9. CASE /\ x.op = "rcall" /\ x.then # "r_init"
           /\ Access(id, [sess[id] EXCEPT !.sticky = s]) /\ Finish(r, gone)
  <2> DEFINE t == [sess[id] EXCEPT !.sticky = s]
  <2>1. id \in 1 .. minted /\ s \in Server
    BY <1>1, <1>4, <1>9 DEF Routed
  <2>2. t \in Session /\ t.subs = sess[id].subs
    <3>1. sess[id] \in Session
      BY <1>1, <2>1, SessionIs
    <3>2. s \in {"", "std", "web"}
      BY <2>1 DEF Server
    <3> HIDE DEF s, id
    <3> QED BY <3>1, <3>2 DEF Session
  <2>3. Access(id, t)
    BY <1>9
  <2> HIDE DEF t
  <2>4. Accessed(id)
    BY <1>1, <2>1, <2>2, <2>3, KeepTable
  <2>5. Set(r, Done(gone)) /\ Plain(x, Done(gone), gone)
    BY <1>1, <1>2, <1>9, <2>4, FinishPlain DEF Accessed
  <2>6. x.then # "p_init"
    BY <1>1, <1>9, HandlerIs DEF Calls
  <2> QED BY <1>p, <1>9, <2>4, <2>5, <2>6 DEF Accessed
<1> QED BY <1>5, <1>6, <1>7, <1>8, <1>9 DEF Answered

(* The child of a handler that owns it is registered nowhere. *)
LEMMA OwnChild ==
  ASSUME IInv, NEW r \in Handlers, Holder(h[r])
  PROVE  {h[r].conn} \cap {reg[k] : k \in DOMAIN reg} = {} /\ h[r].conn \in Conns
<1>1. h[r].conn \in Conns
  BY HandlerIs DEF Places, Conns
<1> QED BY <1>1 DEF IInv, Answers, Fresh

(* A call has failed. *)
LEMMA FailedKeeps ==
  ASSUME IInv, NEW r \in Handlers, Failed(r)
  PROVE  IInv'
<1> DEFINE x == h[r]
<1>1. /\ TypeOK /\ x \in State /\ x.fire = {} /\ x.pc = "failed" /\ Talking(x) /\ x.conn \in Conns
      /\ x.op \in Routed => x.sid \in 1 .. minted /\ x.cands # <<>> /\ Head(x.cands) = "std"
      /\ x.then \in {"p_init", "r_init"} => Holder(x)
      /\ x.then \in {"rcall", "rlist", "r_init"} => x.op \in Routed /\ ~Direct(x)
      /\ x.then \in Routed => x.op = x.then
      /\ x.then = "p_call" => x.op = "call" /\ x.sid \in 1 .. minted
      /\ x.then = "note" => x.op = "rnote" /\ ~Direct(x) /\ ~Holder(x)
      /\ minted \in Nat /\ Len(child) \in Nat
  BY HandlerIs DEF Failed, At, Steps, Calls, Places, Holder, Talking, Starting, OnSession, Routed, Conns, Direct
<1>2. Clean /\ UNCHANGED <<frozen, faults, count, mixed>> /\ Table({}) /\ minted' = minted
  BY <1>1, SameClean, QuietTable DEF Failed, seenVars, envVars, tableVars
<1>p. ASSUME NEW y, Set(r, y), Plain(x, y, {}), spawn' = spawn \/ spawn' = Unlocked(r),
             Procs, Unasked, Unregistered, Holder(x) \/ Direct(x) => ~Lives(x.conn)
      PROVE  IInv'
  <2>1. ~Checking(x) /\ x.pc \notin {"wait", "blocked", "r_sub"}
    BY <1>1 DEF Checking
  <2> QED BY <1>1, <1>2, <1>p, <2>1, PlainStep
<1>c. ASSUME Holder(x), child' = Closed({x.conn}), reg' = reg
      PROVE  Procs /\ Unasked /\ Unregistered /\ ~Lives(x.conn) /\ Len(child') \in Nat
  <2>1. {x.conn} \cap {reg[k] : k \in DOMAIN reg} = {}
    BY <1>c, OwnChild
  <2> DEFINE C == {x.conn}
  <2>2. x.conn \in Conns \cap C /\ child' = Closed(C) /\ C \cap {reg[k] : k \in DOMAIN reg} = {}
    BY <1>1, <1>c, <2>1
  <2> HIDE DEF C
  <2> QED BY <1>1, <1>c, <2>2, CloseProcs DEF Unasked
<1>n. ASSUME x.op \in Routed, Len(child') \in Nat PROVE Plain(x, Next1(x, {}), {})
  BY <1>1, <1>2, <1>n, NextPlain
<1>3. CASE /\ x.then = "p_init" /\ child' = Closed({x.conn}) /\ Finish(r, {}) /\ UNCHANGED <<reg, spawn>>
  <2>1. Procs /\ Unasked /\ Unregistered /\ ~Lives(x.conn) /\ Len(child') \in Nat
    BY <1>1, <1>c, <1>3
  <2>2. Set(r, Done({})) /\ Plain(x, Done({}), {})
    BY <1>1, <1>2, <1>3, <2>1, FinishPlain
  <2> QED BY <1>p, <1>3, <2>1, <2>2
<1>4. CASE /\ x.then = "r_init" /\ child' = Closed({x.conn}) /\ Set(r, Next1(x, {}))
           /\ spawn' = Unlocked(r) /\ reg' = reg
  <2>1. Procs /\ Unasked /\ Unregistered /\ ~Lives(x.conn) /\ Len(child') \in Nat
    BY <1>1, <1>c, <1>4
  <2> QED BY <1>1, <1>n, <1>p, <1>4, <2>1
<1>5. CASE x.then = "rlist" /\ Set(r, Next1(x, {})) /\ UNCHANGED procVars
  <2>1. Procs /\ Unasked /\ Unregistered /\ Len(child') \in Nat /\ spawn' = spawn
    BY <1>1, <1>5, SameProcs DEF procVars
  <2>2. ~Holder(x)
    BY <1>1, <1>5 DEF Holder
  <2> QED BY <1>1, <1>n, <1>p, <1>5, <2>1, <2>2
<1>6. CASE x.then = "p_call" /\ Kill({<<x.sid, "">>}) /\ Goto(r, "p_drop") /\ spawn' = spawn
  <2> DEFINE y == [x EXCEPT !.pc = "p_drop"]
             key == <<x.sid, "">>
  <2>1. y \in State /\ y.pc = "p_drop" /\ y.op = "call" /\ y.sid = x.sid /\ y.id = x.id /\ y.fz = x.fz
    BY <1>1, <1>6 DEF State, Pc
  <2>2. Set(r, y)
    BY <1>6 DEF Goto
  <2> HIDE DEF y
  <2>3. Procs /\ Unasked /\ Unregistered /\ \A k \in DOMAIN reg : k \in {key} => ~Lives(reg[k])
    BY <1>1, <1>6, KillProcs
  <2>4. ~Lives(x.conn)
    <3>1. ~Holder(x) /\ Home(x) = key
      BY <1>1, <1>6 DEF Holder, Home
    <3>2. Up(x.conn) => key \in DOMAIN reg /\ reg[key] = x.conn
      BY <1>1, <3>1 DEF IInv, Answers, Pinned
    <3> QED BY <1>1, <2>3, <3>2 DEF Procs
  <2>5. Plain(x, y, {})
    <3>1. Well(y, minted', Len(child'))
      BY <1>1, <1>2, <1>6, <2>1, SimpleWell DEF Simple, Steps, OnSession
    <3> QED BY <1>1, <1>6, <2>1, <3>1 DEF Plain, PlainPc, Chooses, Routed
  <2> QED BY <1>p, <1>6, <2>2, <2>3, <2>4, <2>5
<1>7. CASE x.then = "rcall" /\ Kill({Key(r)}) /\ Goto(r, "r_drop") /\ spawn' = spawn
  <2> DEFINE y == [x EXCEPT !.pc = "r_drop"]
  <2>1. /\ y \in State /\ y.pc = "r_drop" /\ y.op = "rcall" /\ y.sid = x.sid /\ y.fz = x.fz
        /\ y.cands = x.cands /\ y.acct = x.acct /\ x.op = "rcall"
    BY <1>1, <1>7 DEF State, Pc, Routed
  <2>2. Set(r, y)
    BY <1>7 DEF Goto
  <2> HIDE DEF y
  <2>3. Procs /\ Unasked /\ Unregistered
    BY <1>1, <1>7, KillProcs
  <2>4. ~Holder(x)
    BY <1>1, <1>7 DEF Holder
  <2>5. Plain(x, y, {})
    <3>1. Well(y, minted', Len(child'))
      BY <1>1, <1>2, <1>7, <2>1
         DEF Well, Steps, Calls, Places, Talking, Holder, Starting, OnSession, Routed
    <3> QED BY <1>1, <1>7, <2>1, <3>1 DEF Plain, PlainPc, Chooses, Routed
  <2> QED BY <1>1, <1>p, <1>7, <2>2, <2>3, <2>4, <2>5
<1>8. CASE x.then = "note" /\ Finish(r, {}) /\ UNCHANGED procVars
  <2>1. Procs /\ Unasked /\ Unregistered /\ Len(child') \in Nat /\ spawn' = spawn
    BY <1>1, <1>8, SameProcs DEF procVars
  <2>2. Set(r, Done({})) /\ Plain(x, Done({}), {})
    BY <1>1, <1>2, <1>8, <2>1, FinishPlain
  <2> QED BY <1>1, <1>p, <1>8, <2>1, <2>2
<1> QED BY <1>3, <1>4, <1>5, <1>6, <1>7, <1>8 DEF Failed

(* A child is started. *)
LEMMA StartStep ==
  ASSUME IInv, NEW r \in Handlers, NEW acct \in Accounts, NEW then \in {"p_init", "r_init"},
         Start(r, "std", acct, 1, then),
         h[r].fire = {}, h[r].pc = IF then = "p_init" THEN "p_start" ELSE "start",
         then = "r_init" => acct = h[r].acct,
         UNCHANGED <<tableVars, reg, spawn, envVars, mixed>>
  PROVE  IInv'
<1> DEFINE x == h[r]
           c == Len(child) + 1
           new == [NewChild("std", acct) EXCEPT !.owed = {<<1, x.n>>}, !.pend = {<<1, r>>}]
           y == [x EXCEPT !.pc = "wait", !.conn = c, !.id = 1, !.acct = acct, !.then = then]
           k == <<x.sid, "std">>
<1>1. /\ TypeOK /\ x \in State /\ Len(child) \in Nat /\ c \in Nat /\ x.n \in Nat
      /\ then = "p_init" => x.op = "init" /\ x.pc = "p_start"
      /\ then = "r_init" => /\ x.op \in Routed /\ x.pc = "start" /\ x.cands # <<>> /\ Head(x.cands) = "std"
                            /\ x.sid \in 1 .. minted
  <2>1. /\ TypeOK /\ x \in State /\ Len(child) \in Nat /\ Steps(x) /\ Places(x, minted, Len(child))
    BY HandlerIs
  <2>2. c \in Nat
    BY <2>1
  <2>6. x.n \in Nat
    BY <2>1 DEF State
  <2>3. then = "p_init" => x.op = "init" /\ x.pc = "p_start"
    BY <2>1 DEF Steps
  <2>4. then = "r_init" => x.op \in Routed /\ x.pc = "start"
    BY <2>1 DEF Steps
  <2>5. then = "r_init" => x.cands # <<>> /\ Head(x.cands) = "std" /\ x.sid \in 1 .. minted
    BY <2>1, <2>4 DEF Places, OnSession
  <2> QED BY <2>1, <2>2, <2>3, <2>4, <2>5, <2>6
<1>2. new \in Child /\ new.acct = acct /\ new.owed = {<<1, x.n>>} /\ new.pend = {<<1, r>>} /\ new.mu = Nobody
  <2>1. 1 \in Nat /\ "std" \in Server /\ {<<1, x.n>>} \in SUBSET (Nat \X Nat) /\ {<<1, r>>} \in SUBSET (Nat \X Handlers)
    BY <1>1 DEF Server
  <2> HIDE DEF x
  <2> QED BY <2>1 DEF NewChild, Child
<1>3. child' = Append(child, new) /\ Set(r, y) /\ Uses(r, acct)
  BY DEF Start
<1> HIDE DEF new
<1>4. /\ Procs /\ Unregistered /\ Len(child') = c /\ child'[c] = new
      /\ \A d \in Conns : child'[d] = child[d]
      /\ c \notin Conns
  BY <1>1, <1>2, <1>3, StartProcs
<1>5. /\ y \in State /\ y.pc = "wait" /\ y.conn = c /\ y.id = 1 /\ y.acct = acct /\ y.then = then
      /\ y.op = x.op /\ y.sid = x.sid /\ y.cands = x.cands /\ y.n = x.n /\ y.fz = x.fz
  <2>1. 1 \in Nat /\ then \in Then /\ "wait" \in Pc
    BY DEF Then, Pc
  <2> HIDE DEF c
  <2> QED BY <1>1, <2>1 DEF State
<1>6. h'[r] = y /\ \A q \in Handlers \ {r} : h'[q] = h[q]
  BY <1>1, <1>3 DEF Set, TypeOK
<1>c. 1 .. c = Conns \cup {c} /\ c \in 1 .. c
  BY <1>1 DEF Conns
<1> HIDE DEF y, c
<1>7. Table({}) /\ minted' = minted /\ UNCHANGED <<frozen, faults, count, mixed>> /\ spawn' = spawn
  BY <1>1, QuietTable DEF tableVars, envVars
<1>8. Listed({}) /\ SubsKept(r)
  BY <1>7 DEF Table, SubsKept
<1>9. spawn' \in [DOMAIN spawn' -> Handlers] /\ LocksKept(r)
  BY <1>7, LocksAre
<1>10. /\ Holder(y) /\ Talking(y) /\ ~Holder(x) /\ ~Checking(x) /\ x.pc \notin {"wait", "blocked", "failed", "r_sub"}
       /\ y.op # "call" /\ (Spawning(y) <=> then = "r_init") /\ (then = "r_init" => Spawning(x))
  BY <1>1, <1>5 DEF Holder, Talking, Checking, Spawning, Starting, Routed
<1>11. Clean
  <2>1. Direct(x) \/ acct \notin x.fz
    BY <1>1 DEF Direct, IInv, Freezes, Picked
  <2> QED BY <1>3, <2>1, UsesClean
<1>12. Pending'
  <2>p. ASSUME NEW d \in 1 .. c, NEW p \in child'[d].pend
        PROVE  h'[p[2]].conn = d /\ h'[p[2]].id = p[1] /\ h'[p[2]].pc \in {"wait", "blocked"}
    <3>1. CASE d = c
      <4>1. p = <<1, r>>
        BY <1>2, <1>4, <2>p, <3>1
      <4> QED BY <1>5, <1>6, <3>1, <4>1
    <3>2. CASE d \in Conns
      <4>1. p \in child[d].pend
        BY <1>4, <2>p, <3>2
      <4>2. p[2] \in Handlers
        BY <1>1, <3>2, <4>1, RegIs DEF Child
      <4>3. h[p[2]].conn = d /\ h[p[2]].id = p[1] /\ h[p[2]].pc \in {"wait", "blocked"}
        BY <3>2, <4>1 DEF IInv, Pending
      <4>4. p[2] # r
        BY <1>10, <4>3
      <4> QED BY <1>6, <4>2, <4>3, <4>4
    <3> QED BY <1>c, <3>1, <3>2
  <2>m. ASSUME NEW q \in Handlers, h'[q].pc = "blocked" PROVE child'[h'[q].conn].mu = q
    <3>1. q # r
      BY <1>5, <1>6, <2>m
    <3>2. h'[q] = h[q] /\ h[q].pc = "blocked"
      BY <1>6, <2>m, <3>1
    <3>3. h[q].conn \in Conns
      BY <3>2, HandlerIs DEF Places, Talking, Conns
    <3> QED BY <1>4, <3>2, <3>3 DEF IInv, Pending
  <2> QED BY <1>4, <2>p, <2>m DEF Pending, Conns
<1>13. Well(y, minted', Len(child'))
  <2>1. CASE then = "p_init"
    BY <1>1, <1>4, <1>5, <1>7, <1>c, <2>1 DEF Well, Steps, Calls, Places, Talking, Holder, Starting, OnSession, Routed
  <2>2. CASE then = "r_init"
    BY <1>1, <1>4, <1>5, <1>7, <1>c, <2>2 DEF Well, Steps, Calls, Places, Talking, Holder, Starting, OnSession, Routed
  <2> QED BY <2>1, <2>2
<1>14. \A d \in 1 .. Len(child') : d \in Conns \/ (Holder(y) /\ y.conn = d)
  BY <1>4, <1>5, <1>10, <1>c
<1>15. \A l \in DOMAIN reg' : l \in DOMAIN reg
  BY <1>4 DEF Unregistered
<1>16. ASSUME NEW d \in 1 .. Len(child'), NEW m \in child'[d].owed
       PROVE  (d \in Conns /\ m \in child[d].owed) \/ Asked(y, d, m) \/ ~Private(d)'
  <2>1. CASE d \in Conns
    BY <1>4, <1>16, <2>1
  <2>2. CASE d = c
    <3>1. m = <<1, x.n>>
      BY <1>2, <1>4, <1>16, <2>2
    <3>2. CASE then = "p_init"
      BY <1>1, <1>5, <2>2, <3>1, <3>2 DEF Asked, Direct
    <3>3. CASE then = "r_init"
      <4>1. \A l \in DOMAIN reg' : reg'[l] # c
        BY <1>1, <1>4, RegIs DEF Unregistered
      <4>2. \A q \in Handlers : ~(h'[q].op = "init" /\ Holder(h'[q]) /\ h'[q].conn = c)
        <5>1. y.op # "init"
          BY <1>1, <1>5, <3>3 DEF Routed
        <5>2. \A q \in Handlers : Holder(h[q]) => h[q].conn \in Conns
          BY HandlerIs DEF Places, Conns
        <5> QED BY <1>4, <1>6, <5>1, <5>2
      <4> QED BY <2>2, <4>1, <4>2 DEF Private, Holder
    <3> QED BY <3>2, <3>3
  <2> QED BY <1>4, <1>c, <1>16, <2>1, <2>2
<1>17. OrphanStep(x, y)
  BY <1>10 DEF OrphanStep, Minds
<1>18. StartsOne(x, y)
  BY <1>5, <1>10 DEF StartsOne, c
<1>19. Awaits(x, y) /\ Leaves(r)
  BY <1>10 DEF Awaits, Leaves
<1>20. Chooses(x, y)
  BY <1>1, <1>5 DEF Chooses, Routed
<1>21. Stands(r, y)
  <2>1. Spawning(y) => k \in DOMAIN spawn' /\ spawn'[k] = r
    BY <1>7, <1>10 DEF IInv, Freezes, Locked
  <2>2. child'[y.conn].acct = y.acct
    BY <1>2, <1>4, <1>5
  <2> QED BY <1>5, <2>1, <2>2 DEF Stands
<1> QED BY <1>3, <1>4, <1>5, <1>7, <1>8, <1>9, <1>11, <1>12, <1>13, <1>14, <1>15, <1>16, <1>17, <1>18, <1>19, <1>20, <1>21,
           HandlerMoves

(* The initialize request of a stdio server. *)
LEMMA P_StartKeeps ==
  ASSUME IInv, NEW r \in Handlers, P_Start(r)
  PROVE  IInv'
<1>1. TypeOK /\ h[r].pc = "p_start" /\ At(r, h[r].pc) /\ h[r].fire = {}
  BY HandlerIs DEF P_Start, At
<1>2. UNCHANGED <<tableVars, reg, spawn, envVars, mixed>>
  BY DEF P_Start
<1>3. CASE Finish(r, {}) /\ UNCHANGED <<child, misuse>>
  <2>1. Table({}) /\ Clean /\ UNCHANGED <<procVars, envVars, mixed>>
    BY <1>1, <1>2, <1>3, QuietTable, SameClean DEF tableVars, procVars
  <2> QED BY <1>1, <1>3, <2>1, FinishKeeps DEF PlainPc
<1>4. ASSUME NEW a \in Healthy, Start(r, "std", a, 1, "p_init") PROVE IInv'
  <2>1. a \in Accounts
    BY DEF Healthy
  <2> QED BY <1>1, <1>2, <1>4, <2>1, StartStep
<1> QED BY <1>3, <1>4 DEF P_Start

(* The child of a sub-session is started. *)
LEMMA R_StartKeeps ==
  ASSUME IInv, NEW r \in Handlers, R_Start(r)
  PROVE  IInv'
<1> DEFINE x == h[r]
<1>1. /\ TypeOK /\ x \in State /\ x.pc = "start" /\ x.fire = {} /\ x.acct \in Accounts /\ x.op \in Routed
      /\ x.sid \in 1 .. minted /\ x.cands # <<>> /\ minted \in Nat /\ Len(child) \in Nat
  BY HandlerIs DEF R_Start, At, Steps, Places, OnSession, Routed
<1>2. UNCHANGED <<tableVars, reg, envVars, mixed>>
  BY DEF R_Start
<1>3. CASE Start(r, "std", x.acct, 1, "r_init") /\ UNCHANGED spawn
  BY <1>1, <1>2, <1>3, StartStep
<1>4. CASE Set(r, Next1(x, {})) /\ spawn' = Unlocked(r) /\ UNCHANGED <<child, misuse>>
  <2>1. Table({}) /\ Clean /\ minted' = minted /\ UNCHANGED <<frozen, faults, count, mixed>>
    BY <1>1, <1>2, <1>4, QuietTable, SameClean DEF tableVars, envVars
  <2>2. Procs /\ Unasked /\ Unregistered
    BY <1>1, <1>2, <1>4, SameProcs
  <2>3. Plain(x, Next1(x, {}), {})
    BY <1>1, <1>4, <2>1, NextPlain
  <2>4. ~Holder(x) /\ ~Checking(x) /\ x.pc \notin {"wait", "blocked", "failed", "r_sub"}
    BY <1>1 DEF Holder, Checking, Starting
  <2> QED BY <1>1, <1>4, <2>1, <2>2, <2>3, <2>4, PlainStep
<1> QED BY <1>3, <1>4 DEF R_Start

(* At the cap a new child is closed. *)
LEMMA CapStep ==
  ASSUME IInv, NEW r \in Handlers, NEW y, h[r].pc \in {"p_reg", "r_reg"}, h[r].fire = {},
         child' = Closed({h[r].conn}), reg' = reg, spawn' = spawn \/ spawn' = Unlocked(r),
         Set(r, y), Plain(h[r], y, {}), UNCHANGED <<tableVars, envVars, seenVars>>
  PROVE  IInv'
<1> DEFINE C == {h[r].conn}
<1>1. TypeOK /\ Holder(h[r]) /\ ~Checking(h[r]) /\ h[r].pc \notin {"wait", "blocked", "failed", "r_sub"}
  BY HandlerIs DEF Holder, Checking
<1>2. C \cap {reg[k] : k \in DOMAIN reg} = {} /\ h[r].conn \in Conns \cap C /\ child' = Closed(C)
  BY <1>1, OwnChild
<1> HIDE DEF C
<1>3. Procs /\ Unasked /\ Unregistered /\ ~Lives(h[r].conn)
  BY <1>1, <1>2, CloseProcs
<1>4. Table({}) /\ Clean /\ UNCHANGED <<frozen, faults, count, mixed>>
  BY <1>1, QuietTable, SameClean DEF tableVars, envVars, seenVars
<1> QED BY <1>1, <1>3, <1>4, PlainStep

(* Below it the child is registered. *)
LEMMA RegisterStep ==
  ASSUME IInv, NEW r \in Handlers, NEW s \in {"", "std"}, At(r, h[r].pc),
         h[r].pc = IF s = "" THEN "p_reg" ELSE "r_reg",
         Register(<<h[r].sid, s>>, h[r].conn), Goto(r, IF s = "" THEN "p_check" ELSE "r_sub"),
         UNCHANGED <<tableVars, spawn, envVars, seenVars>>
  PROVE  IInv'
<1> DEFINE x == h[r]
           pc == IF s = "" THEN "p_check" ELSE "r_sub"
           y == [x EXCEPT !.pc = pc]
           key == <<x.sid, s>>
<1>1. /\ TypeOK /\ x \in State /\ x.fire = {} /\ x.pc \in {"p_reg", "r_reg"} /\ minted \in Nat /\ Len(child) \in Nat
      /\ Steps(x) /\ Places(x, minted, Len(child))
  BY HandlerIs DEF At
<1>2. /\ s = "" => x.pc = "p_reg" /\ x.op = "init" /\ pc = "p_check"
      /\ s = "std" => x.pc = "r_reg" /\ x.op \in Routed /\ pc = "r_sub"
      /\ pc \in Pc
  BY <1>1 DEF Steps, Pc
<1>3. /\ Holder(x) /\ x.conn \in Conns /\ x.sid \in 1 .. minted /\ x.sid \in Nat
      /\ s = "std" => x.cands # <<>> /\ Head(x.cands) = "std" /\ x.acct \in Accounts /\ x.then = "r_init"
  BY <1>1, <1>2 DEF Places, Holder, OnSession, Conns, State
<1> HIDE DEF pc
<1>4. /\ y \in State /\ y.pc = pc /\ y.conn = x.conn /\ y.id = x.id /\ y.acct = x.acct /\ y.then = x.then
      /\ y.op = x.op /\ y.sid = x.sid /\ y.cands = x.cands /\ y.n = x.n /\ y.fz = x.fz
  BY <1>1, <1>2 DEF State
<1>5. Set(r, y)
  BY DEF Goto, pc
<1> HIDE DEF y
<1>6. h'[r] = y /\ \A q \in Handlers \ {r} : h'[q] = h[q]
  BY <1>1, <1>5 DEF Set, TypeOK
<1>7. key \in Keys /\ key[1] = x.sid /\ key[2] = s
  BY <1>3 DEF Keys
<1> HIDE DEF key
<1>8. /\ Procs /\ Unasked /\ DOMAIN reg' = DOMAIN reg \cup {key} /\ reg'[key] = x.conn
      /\ \A k \in DOMAIN reg' : k # key => k \in DOMAIN reg /\ reg'[k] = reg[k]
  BY <1>1, <1>3, <1>7, RegisterProcs DEF key
<1>9. Table({}) /\ minted' = minted /\ Clean /\ UNCHANGED <<frozen, faults, count, mixed>> /\ spawn' = spawn
  BY <1>1, QuietTable, SameClean DEF tableVars, envVars, seenVars
<1>10. Listed({}) /\ SubsKept(r)
  BY <1>9 DEF Table, SubsKept
<1>11. spawn' \in [DOMAIN spawn' -> Handlers] /\ LocksKept(r)
  BY <1>9, LocksAre
<1>12. /\ ~Holder(y) /\ ~Talking(y) /\ ~Checking(x) /\ x.pc \notin {"wait", "blocked", "failed", "r_sub"}
       /\ Spawning(y) => s = "std" /\ Spawning(x)
       /\ s = "" => Checking(y)
  BY <1>1, <1>2, <1>4 DEF Holder, Talking, Checking, Spawning, Starting
<1>13. Pending'
  <2>1. y.pc # "blocked"
    BY <1>2, <1>4
  <2> QED BY <1>1, <1>6, <1>8, <1>12, <2>1, PendingKeeps DEF IInv
<1>14. Well(y, minted', Len(child'))
  <2>1. CASE s = ""
    BY <1>2, <1>3, <1>4, <1>9, <2>1 DEF Well, Steps, Calls, Places, Talking, Holder, Starting, OnSession, Routed
  <2>2. CASE s = "std"
    BY <1>2, <1>3, <1>4, <1>9, <2>2 DEF Well, Steps, Calls, Places, Talking, Holder, Starting, OnSession, Routed
  <2> QED BY <2>1, <2>2
<1>15. \A c \in 1 .. Len(child') : c \in Conns /\ \A m \in child'[c].owed : m \in child[c].owed
  BY <1>8 DEF Unasked, Conns
<1>16. Minds(y, key)
  BY <1>2, <1>4, <1>12 DEF Minds, key
<1>17. RegistersOf(r)
  BY <1>2, <1>3, <1>6, <1>7, <1>8, <1>12 DEF RegistersOf
<1>18. RegisteredBy(r)
  <2>1. CASE s = ""
    BY <1>7, <1>8, <2>1 DEF RegisteredBy
  <2>2. CASE s = "std"
    BY <1>2, <1>4, <1>6, <1>8, <2>2 DEF RegisteredBy, key
  <2> QED BY <2>1, <2>2
<1>19. OrphanStep(x, y)
  BY <1>1, <1>8, <1>12 DEF OrphanStep, Minds
<1>20. GoesOn(x, y)
  BY <1>2, <1>4, <1>12 DEF GoesOn, Routed
<1>21. Awaits(x, y) /\ Leaves(r)
  BY <1>12 DEF Awaits, Leaves
<1>22. Chooses(x, y)
  BY <1>2, <1>4 DEF Chooses, Routed
<1>23. Stands(r, y)
  <2>1. Spawning(y) => <<x.sid, "std">> \in DOMAIN spawn' /\ spawn'[<<x.sid, "std">>] = r
    BY <1>9, <1>12 DEF IInv, Freezes, Locked
  <2>2. s = "std" => child'[reg'[<<x.sid, "std">>]].acct = x.acct
    <3>1. s = "std" => child[x.conn].acct = x.acct
      BY <1>2, <1>3 DEF IInv, Freezes, Started
    <3> QED BY <1>3, <1>8, <3>1 DEF Procs, key
  <2> QED BY <1>2, <1>4, <1>12, <2>1, <2>2 DEF Stands, Routed
<1> QED BY <1>4, <1>5, <1>8, <1>9, <1>10, <1>11, <1>13, <1>14, <1>15, <1>16, <1>17, <1>18, <1>19, <1>20,
           <1>21, <1>22, <1>23, HandlerMoves

(* The child of a pinned session. *)
LEMMA P_RegKeeps ==
  ASSUME IInv, NEW r \in Handlers, P_Reg(r)
  PROVE  IInv'
<1> DEFINE x == h[r]
<1>1. /\ TypeOK /\ x \in State /\ x.pc = "p_reg" /\ x.fire = {} /\ At(r, x.pc) /\ x.op = "init"
      /\ x.sid \in 1 .. minted
  BY HandlerIs DEF P_Reg, At, Steps, Places
<1>2. UNCHANGED <<tableVars, spawn, envVars, seenVars>>
  BY DEF P_Reg
<1>3. CASE child' = Closed({x.conn}) /\ Goto(r, "p_drop") /\ UNCHANGED reg
  <2> DEFINE y == [x EXCEPT !.pc = "p_drop"]
  <2>1. y \in State /\ y.pc = "p_drop" /\ y.op = "init" /\ y.sid = x.sid /\ y.fz = x.fz
    BY <1>1 DEF State, Pc
  <2>2. Set(r, y)
    BY <1>3 DEF Goto
  <2> HIDE DEF y
  <2>3. minted' = minted
    BY <1>2 DEF tableVars
  <2>4. Well(y, minted', Len(child'))
    BY <1>1, <2>1, <2>3, SimpleWell DEF Simple, Steps, OnSession, Routed
  <2>5. Plain(x, y, {})
    BY <2>1, <2>4 DEF Plain, PlainPc, Chooses, Routed
  <2> QED BY <1>1, <1>2, <1>3, <2>2, <2>5, CapStep
<1>4. CASE Register(<<x.sid, "">>, x.conn) /\ Goto(r, "p_check")
  BY <1>1, <1>2, <1>4, RegisterStep
<1> QED BY <1>3, <1>4 DEF P_Reg

(* The child of a sub-session. *)
LEMMA R_RegKeeps ==
  ASSUME IInv, NEW r \in Handlers, R_Reg(r)
  PROVE  IInv'
<1> DEFINE x == h[r]
<1>1. /\ TypeOK /\ x \in State /\ x.pc = "r_reg" /\ x.fire = {} /\ At(r, x.pc) /\ x.op \in Routed
      /\ x.sid \in 1 .. minted /\ x.cands # <<>> /\ Key(r) = <<x.sid, "std">>
      /\ minted \in Nat /\ Len(child) \in Nat
  BY HandlerIs DEF R_Reg, At, Steps, Places, Key, OnSession, Routed
<1>2. UNCHANGED <<tableVars, envVars, seenVars>> /\ minted' = minted
  BY DEF R_Reg, tableVars
<1>3. CASE child' = Closed({x.conn}) /\ Set(r, Next1(x, {})) /\ spawn' = Unlocked(r) /\ UNCHANGED reg
  <2>1. Len(child') \in Nat
    BY <1>1, <1>3, ClosedIs
  <2>2. Plain(x, Next1(x, {}), {})
    BY <1>1, <1>2, <2>1, NextPlain
  <2> QED BY <1>1, <1>2, <1>3, <2>2, CapStep
<1>4. CASE Register(Key(r), x.conn) /\ Goto(r, "r_sub") /\ UNCHANGED spawn
  BY <1>1, <1>2, <1>4, RegisterStep
<1> QED BY <1>3, <1>4 DEF R_Reg

(* The sub-session is put, or its child is killed again. *)
LEMMA R_SubKeeps ==
  ASSUME IInv, NEW r \in Handlers, R_Sub(r)
  PROVE  IInv'
<1> DEFINE x == h[r]
           id == x.sid
           gone == Expired(id)
           key == <<id, "std">>
           t == PutSub(id, "std", x.acct)
<1>1. /\ TypeOK /\ x \in State /\ x.pc = "r_sub" /\ x.fire = {} /\ x.op \in Routed /\ x.acct \in Accounts
      /\ id \in 1 .. minted /\ x.cands # <<>> /\ Head(x.cands) = "std" /\ Key(r) = key
      /\ minted \in Nat /\ Len(child) \in Nat /\ x.then \in Then
  BY HandlerIs DEF R_Sub, At, Steps, Places, Key, OnSession, Routed, State
<1>2. /\ t \in Session /\ DOMAIN t.subs = DOMAIN sess[id].subs \cup {"std"} /\ t.subs["std"] = x.acct
  BY <1>1, PutSubIs DEF Server
<1>3. Access(id, t) /\ UNCHANGED <<envVars, seenVars>> /\ spawn' = Unlocked(r)
  BY <1>1 DEF R_Sub
<1> HIDE DEF t
<1>4. /\ Listed(gone) /\ (Live(id) => id \in ToSet(lru') /\ gone = {}) /\ minted' = minted
      /\ \A i \in 1 .. minted : i # id => sess'[i] = sess[i]
      /\ sess'[id] = t \/ sess'[id] = NoSession
      /\ gone \in SUBSET Nat
  BY <1>1, <1>2, <1>3, AccessListed
<1>5. Clean /\ UNCHANGED <<frozen, faults, count, mixed>>
  BY <1>3, SameClean DEF envVars, seenVars
<1>6. spawn' \in [DOMAIN spawn' -> Handlers] /\ LocksKept(r)
  BY <1>3, LocksAre
<1>7. CASE Live(id) /\ Goto(r, "use") /\ UNCHANGED <<reg, child>>
  <2> DEFINE y == [x EXCEPT !.pc = "use"]
  <2>1. /\ y \in State /\ y.pc = "use" /\ y.conn = x.conn /\ y.id = x.id /\ y.acct = x.acct /\ y.then = x.then
        /\ y.op = x.op /\ y.sid = x.sid /\ y.cands = x.cands /\ y.n = x.n /\ y.fz = x.fz
    BY <1>1 DEF State, Pc
  <2>2. Set(r, y)
    BY <1>7 DEF Goto
  <2> HIDE DEF y
  <2>3. h'[r] = y /\ \A q \in Handlers \ {r} : h'[q] = h[q]
    BY <1>1, <2>2 DEF Set, TypeOK
  <2>4. Procs /\ Unasked /\ Unregistered /\ gone = {} /\ id \in ToSet(lru')
    BY <1>1, <1>4, <1>7, SameProcs
  <2>5. SubsKept(r)
    BY <1>1, <1>2, <1>4, EmptySession DEF SubsKept
  <2>6. /\ ~Holder(y) /\ ~Talking(y) /\ ~Spawning(y) /\ ~Holder(x) /\ ~Checking(x)
        /\ x.pc \notin {"wait", "blocked", "failed"} /\ y.op # "call"
    BY <1>1, <2>1 DEF Holder, Talking, Checking, Spawning, Starting, Routed
  <2>7. Pending'
    BY <1>1, <2>1, <2>3, <2>4, <2>6, PendingKeeps DEF IInv
  <2>8. x.then \in {"", "r_init"}
    BY <1>1, HandlerIs DEF Places
  <2>9. Well(y, minted', Len(child'))
    BY <1>1, <1>4, <2>1, <2>8 DEF Well, Steps, Calls, Places, Talking, Holder, Starting, OnSession, Routed
  <2>10. \A c \in 1 .. Len(child') : c \in Conns /\ \A m \in child'[c].owed : m \in child[c].owed
    BY <2>4 DEF Unasked, Conns
  <2>11. \A k \in DOMAIN reg' : k \in DOMAIN reg
    BY <1>7
  <2>12. OrphanStep(x, y)
    <3>1. ASSUME NEW k \in DOMAIN reg \cap DOMAIN reg', Minds(x, k) PROVE k[1] \in ToSet(lru')
      <4>1. k = key
        BY <1>1, <2>6, <3>1 DEF Minds
      <4> QED BY <2>4, <4>1
    <3> QED BY <2>6, <3>1 DEF OrphanStep
  <2>13. GoesOn(x, y) /\ Awaits(x, y)
    BY <2>6 DEF GoesOn, Awaits
  <2>14. Leaves(r)
    BY <1>2, <1>4, EmptySession DEF Leaves
  <2>15. Chooses(x, y)
    BY <1>1, <2>1 DEF Chooses
  <2>16. Stands(r, y)
    <3>1. key \in DOMAIN reg' => child'[reg'[key]].acct \notin x.fz
      <4>1. key \in DOMAIN reg => child[reg[key]].acct = x.acct
        BY <1>1 DEF IInv, Freezes, Started
      <4>2. x.acct \notin x.fz
        BY <1>1 DEF IInv, Freezes, Picked
      <4> QED BY <1>7, <4>1, <4>2
    <3> QED BY <2>1, <2>6, <3>1 DEF Stands
  <2> QED BY <1>4, <1>5, <1>6, <2>1, <2>2, <2>4, <2>5, <2>7, <2>9, <2>10, <2>11, <2>12, <2>13, <2>14, <2>15, <2>16,
             HandlerMoves
<1>8. CASE ~Live(id) /\ Kill({Key(r)}) /\ Set(r, Next1(x, gone))
  <2>1. Procs /\ Unasked /\ Unregistered /\ key \notin DOMAIN reg'
    <3>1. Kill({key})
      BY <1>1, <1>8
    <3>2. TypeOK
      BY <1>1
    <3> DEFINE keys == {key}
    <3>3. Kill(keys) /\ key \in keys
      BY <3>1
    <3> HIDE DEF keys
    <3>4. Procs /\ Unasked /\ Unregistered /\ DOMAIN reg' = DOMAIN reg \ keys
      BY <3>2, <3>3, KillProcs
    <3> QED BY <3>3, <3>4
  <2>2. sess'[id] = NoSession
    <3>1. sess \in [1 .. minted -> Session]
      BY <1>1 DEF TypeOK
    <3> QED BY <1>1, <1>3, <1>8, <3>1 DEF Access
  <2>3. Table(gone)
    BY <1>1, <1>4, <2>2, EmptySession DEF Table
  <2>4. Plain(x, Next1(x, gone), gone)
    BY <1>1, <1>4, <2>1, NextPlain DEF Unasked
  <2>5. ~Holder(x) /\ ~Checking(x) /\ x.pc \notin {"wait", "blocked", "failed"}
    BY <1>1 DEF Holder, Checking, Starting
  <2> QED BY <1>1, <1>3, <1>5, <1>8, <2>1, <2>3, <2>4, <2>5, PlainStep
<1> QED BY <1>7, <1>8 DEF R_Sub

(***************************************************************************)
(* Calls over a child's pipes.                                             *)
(***************************************************************************)
(* What a handler that is about to call relies on. *)
LEMMA CallerIs ==
  ASSUME IInv, NEW r \in Handlers, Talking(h[r])
  PROVE  /\ h[r].conn \in Conns /\ child[h[r].conn] \in Child
         /\ h[r].op \in Routed => h[r].sid \in 1 .. minted /\ h[r].cands # <<>> /\ Head(h[r].cands) = "std"
         /\ h[r].op \in {"init", "call", "rnote"} \cup Routed
         /\ h[r].then # "note" \/ h[r].pc = "wait" => h[r].op \in {"init", "call"} \cup Routed
         /\ h[r].pc \in {"call", "blocked"} => ~Holder(h[r]) /\ ~Spawning(h[r]) /\ h[r].op # "init"
<1>1. /\ TypeOK /\ Calls(h[r]) /\ Places(h[r], minted, Len(child))
  BY HandlerIs
<1>2. h[r].conn \in Conns /\ child[h[r].conn] \in Child
  BY <1>1, RegIs DEF Places, Conns
<1>3. h[r].op \in {"init", "call", "rnote"} \cup Routed
  BY <1>1 DEF Calls, Routed
<1>6. h[r].then # "note" \/ h[r].pc = "wait" => h[r].op \in {"init", "call"} \cup Routed
  BY <1>1 DEF Calls, Routed
<1>4. h[r].pc \in {"call", "blocked"} => ~Holder(h[r]) /\ ~Spawning(h[r]) /\ h[r].op # "init"
  BY <1>1 DEF Calls, Holder, Spawning, Starting, Talking, Routed
<1>5. h[r].op \in Routed => h[r].sid \in 1 .. minted /\ h[r].cands # <<>> /\ Head(h[r].cands) = "std"
  BY <1>1 DEF Places, OnSession, Talking
<1> QED BY <1>2, <1>3, <1>4, <1>5, <1>6

(* A child that a routed call talks to is not the child of a pinned session. *)
LEMMA RoutedShared ==
  ASSUME IInv, NEW r \in Handlers, Talking(h[r]), ~Holder(h[r]), h[r].op \in Routed, Up(h[r].conn)
  PROVE  ~Private(h[r].conn)
<1> DEFINE key == <<h[r].sid, "std">>
<1>1. key \in DOMAIN reg /\ reg[key] = h[r].conn /\ key[2] # ""
  BY DEF IInv, Answers, Pinned, Home, Routed
<1>2. \A k \in DOMAIN reg : reg[k] = h[r].conn => k = key
  BY <1>1 DEF IInv, Answers, Once
<1>3. \A q \in Handlers : Holder(h[q]) => h[q].conn # h[r].conn
  BY <1>1 DEF IInv, Answers, Fresh
<1> QED BY <1>1, <1>2, <1>3 DEF Private

(* A call is written to a child, or blocks in the write. *)
LEMMA AskStep ==
  ASSUME IInv, NEW r \in Handlers, NEW pc \in {"wait", "blocked"}, NEW z \in Child,
         At(r, "call"), child[h[r].conn].mu = Nobody, Up(h[r].conn),
         z.acct = child[h[r].conn].acct, z.st = child[h[r].conn].st,
         pc = "wait" => h[r].then # "note",
         \/ z.pend = child[h[r].conn].pend \cup {<<h[r].id, r>>}
         \/ pc = "blocked" /\ z.pend = child[h[r].conn].pend,
         z.owed = child[h[r].conn].owed \/ (pc = "wait" /\ z.owed = child[h[r].conn].owed \cup {<<h[r].id, h[r].n>>}),
         z.mu = IF pc = "wait" THEN Nobody ELSE r,
         child' = [child EXCEPT ![h[r].conn] = z], Goto(r, pc), Clean,
         UNCHANGED <<tableVars, reg, spawn, envVars, mixed>>
  PROVE  IInv'
<1> DEFINE x == h[r]
           c == x.conn
           y == [x EXCEPT !.pc = pc]
<1>1. /\ TypeOK /\ x \in State /\ x.fire = {} /\ x.pc = "call" /\ Talking(x)
      /\ Steps(x) /\ Calls(x) /\ Places(x, minted, Len(child)) /\ minted \in Nat
  BY HandlerIs DEF At, Talking
<1>2. /\ c \in Conns /\ x.op \in {"call", "rnote"} \cup Routed /\ ~Holder(x) /\ ~Spawning(x)
  BY <1>1, CallerIs
<1>3. /\ y \in State /\ y.pc = pc /\ y.conn = c /\ y.id = x.id /\ y.acct = x.acct /\ y.then = x.then
      /\ y.op = x.op /\ y.sid = x.sid /\ y.cands = x.cands /\ y.n = x.n /\ y.fz = x.fz
  BY <1>1 DEF State, Pc
<1>4. Set(r, y)
  BY DEF Goto
<1> HIDE DEF y
<1>5. h'[r] = y /\ \A q \in Handlers \ {r} : h'[q] = h[q]
  BY <1>1, <1>4 DEF Set, TypeOK
<1>6. /\ Procs /\ Unregistered /\ Len(child') = Len(child) /\ child'[c] = z
      /\ \A d \in Conns : d # c => child'[d] = child[d]
  BY <1>1, <1>2, TouchProcs
<1>7. Table({}) /\ minted' = minted /\ UNCHANGED <<frozen, faults, count, mixed>> /\ spawn' = spawn
  BY <1>1, QuietTable DEF tableVars, envVars
<1>8. Listed({}) /\ SubsKept(r)
  BY <1>7 DEF Table, SubsKept
<1>9. spawn' \in [DOMAIN spawn' -> Handlers] /\ LocksKept(r)
  BY <1>7, LocksAre
<1>10. ~Holder(y) /\ ~Spawning(y) /\ Talking(y) /\ ~Checking(x)
  BY <1>1, <1>3 DEF Holder, Spawning, Talking, Checking, Starting, Calls
<1>11. Pending'
  <2>1. ASSUME NEW d \in Conns, NEW p \in child'[d].pend
        PROVE  h'[p[2]].conn = d /\ h'[p[2]].id = p[1] /\ h'[p[2]].pc \in {"wait", "blocked"}
    <3>1. CASE d = c /\ p = <<x.id, r>>
      BY <1>3, <1>5, <3>1
    <3>2. CASE p \in child[d].pend
      <4>1. p[2] \in Handlers
        BY <1>1, <3>2, RegIs DEF Child
      <4>2. h[p[2]].conn = d /\ h[p[2]].id = p[1] /\ h[p[2]].pc \in {"wait", "blocked"}
        BY <3>2 DEF IInv, Pending
      <4> QED BY <1>1, <1>5, <4>1, <4>2
    <3> QED BY <1>6, <2>1, <3>1, <3>2
  <2>2. ASSUME NEW q \in Handlers, h'[q].pc = "blocked" PROVE child'[h'[q].conn].mu = q
    <3>1. CASE q = r
      BY <1>3, <1>5, <1>6, <2>2, <3>1
    <3>2. CASE q # r
      <4>1. h'[q] = h[q] /\ h[q].pc = "blocked"
        BY <1>5, <2>2, <3>2
      <4>2. h[q].conn \in Conns /\ child[h[q].conn].mu = q
        BY <4>1, CallerIs DEF Talking, IInv, Pending
      <4>3. h[q].conn # c
        BY <4>2, McpAssumption
      <4> QED BY <1>6, <4>1, <4>2, <4>3
    <3> QED BY <3>1, <3>2
  <2> QED BY <1>6, <2>1, <2>2 DEF Pending, Conns
<1>12. Well(y, minted', Len(child'))
  <2>1. Steps(y) /\ Calls(y)
    BY <1>1, <1>3 DEF Steps, Calls, Talking
  <2>2. Places(y, minted', Len(child'))
    BY <1>1, <1>2, <1>3, <1>6, <1>7, <1>10 DEF Places, Conns
  <2> QED BY <2>1, <2>2 DEF Well
<1>13. \A d \in 1 .. Len(child') : d \in Conns
  BY <1>6 DEF Conns
<1>14. \A l \in DOMAIN reg' : l \in DOMAIN reg
  BY <1>6 DEF Unregistered
<1>15. ASSUME NEW d \in 1 .. Len(child'), NEW m \in child'[d].owed
       PROVE  (d \in Conns /\ m \in child[d].owed) \/ Asked(y, d, m) \/ ~Private(d)'
  <2>1. CASE m \in child[d].owed
    BY <1>13, <2>1
  <2>2. CASE d = c /\ pc = "wait" /\ m = <<x.id, x.n>>
    <3>1. CASE x.op = "call"
      BY <1>3, <2>2, <3>1 DEF Asked, Direct
    <3>2. CASE x.op \in Routed
      <4>1. ~Private(c)
        BY <1>1, <1>2, <3>2, RoutedShared
      <4>2. \A q \in Handlers : Holder(h'[q]) => Holder(h[q]) /\ h'[q] = h[q]
        BY <1>5, <1>10
      <4> QED BY <2>2, <4>1, <4>2 DEF Private, Holder
    <3>3. x.op # "rnote"
      BY <1>1, <2>2 DEF Calls, Routed
    <3> QED BY <1>2, <3>1, <3>2, <3>3
  <2> QED BY <1>6, <1>13, <1>15, <2>1, <2>2
<1>16. OrphanStep(x, y)
  BY <1>1, <1>2, <1>10 DEF OrphanStep, Minds
<1>17. GoesOn(x, y)
  BY <1>1, <1>2, <1>3, <1>10 DEF GoesOn
<1>18. Awaits(x, y) /\ Leaves(r)
  BY <1>1 DEF Awaits, Leaves
<1>19. Chooses(x, y) /\ Stands(r, y)
  BY <1>2, <1>3, <1>10 DEF Chooses, Stands
<1> QED BY <1>3, <1>4, <1>6, <1>7, <1>8, <1>9, <1>11, <1>12, <1>13, <1>14, <1>15, <1>16, <1>17, <1>18, <1>19, HandlerMoves

(* A call fails before it is written. *)
LEMMA RefuseStep ==
  ASSUME IInv, NEW r \in Handlers, At(r, "call"), Goto(r, "failed"), UNCHANGED <<tableVars, procVars, envVars, seenVars>>
  PROVE  IInv'
<1> DEFINE x == h[r]
           y == [x EXCEPT !.pc = "failed"]
<1>1. /\ TypeOK /\ x \in State /\ x.fire = {} /\ x.pc = "call" /\ Talking(x)
      /\ Steps(x) /\ Calls(x) /\ Places(x, minted, Len(child)) /\ minted \in Nat
  BY HandlerIs DEF At, Talking
<1>2. /\ x.conn \in Conns /\ x.op \in {"call", "rnote"} \cup Routed /\ ~Holder(x) /\ ~Spawning(x)
  BY <1>1, CallerIs
<1>3. /\ y \in State /\ y.pc = "failed" /\ y.conn = x.conn /\ y.id = x.id /\ y.acct = x.acct /\ y.then = x.then
      /\ y.op = x.op /\ y.sid = x.sid /\ y.cands = x.cands /\ y.n = x.n /\ y.fz = x.fz
  BY <1>1 DEF State, Pc
<1>4. Set(r, y)
  BY DEF Goto
<1> HIDE DEF y
<1>5. Table({}) /\ minted' = minted /\ Clean /\ UNCHANGED <<reg, child, spawn, frozen, faults, count, mixed>>
  BY <1>1, QuietTable, SameClean DEF tableVars, seenVars, envVars, procVars
<1>6. Procs /\ Unasked /\ Unregistered
  BY <1>1, <1>5, SameProcs
<1>7. spawn' \in [DOMAIN spawn' -> Handlers] /\ LocksKept(r)
  BY <1>5, LocksAre
<1>8. ~Holder(y) /\ ~Spawning(y) /\ Talking(y) /\ ~Checking(x)
  BY <1>1, <1>3 DEF Holder, Spawning, Talking, Checking, Starting, Calls
<1>9. Well(y, minted', Len(child'))
  <2>1. Steps(y) /\ Calls(y)
    BY <1>1, <1>3 DEF Steps, Calls, Talking
  <2>2. Places(y, minted', Len(child'))
    BY <1>1, <1>2, <1>3, <1>5, <1>8 DEF Places, Conns
  <2> QED BY <2>1, <2>2 DEF Well
<1>10. OrphanStep(x, y)
  BY <1>1, <1>2, <1>8 DEF OrphanStep, Minds
<1>11. GoesOn(x, y)
  BY <1>1, <1>2, <1>3, <1>8 DEF GoesOn
<1>12. Awaits(x, y) /\ Leaves(r)
  BY <1>1 DEF Awaits, Leaves
<1>13. Chooses(x, y) /\ Stands(r, y)
  BY <1>2, <1>3, <1>8 DEF Chooses, Stands
<1> QED BY <1>1, <1>3, <1>4, <1>5, <1>6, <1>7, <1>9, <1>10, <1>11, <1>12, <1>13, HandlerStep

(* A call. *)
LEMMA CallKeeps ==
  ASSUME IInv, NEW r \in Handlers, Call(r)
  PROVE  IInv'
<1> DEFINE x == h[r]
           c == x.conn
           entry == <<x.id, r>>
           m == <<x.id, x.n>>
<1>1. /\ TypeOK /\ x \in State /\ x.pc = "call" /\ At(r, "call") /\ Talking(x) /\ child[c].mu = Nobody
      /\ x.id \in Nat /\ x.n \in Nat
  BY HandlerIs DEF Call, At, Talking, State
<1>2. c \in Conns /\ child[c] \in Child /\ x.op \in {"call"} \cup Routed /\ x.then # "note"
  <2>1. x.then # "note"
    BY DEF Call
  <2> QED BY <1>1, <2>1, CallerIs
<1>3. UNCHANGED <<tableVars, reg, spawn, envVars, mixed>>
  BY DEF Call
<1>4. child \in Seq(Child) /\ DOMAIN child = Conns
  BY <1>1 DEF TypeOK, Conns
<1>5. CASE Goto(r, "failed") /\ UNCHANGED <<child, misuse>>
  BY <1>1, <1>3, <1>5, RefuseStep DEF procVars, seenVars
<1>6. CASE /\ Up(c) /\ Goto(r, "wait") /\ Uses(r, child[c].acct)
           /\ child' = [child EXCEPT ![c].pend = @ \cup {entry}, ![c].owed = @ \cup {m}]
  <2> DEFINE P == child[c].pend \cup {entry}
             O == child[c].owed \cup {m}
             z == [child[c] EXCEPT !.pend = P, !.owed = O]
  <2>1. P \in SUBSET (Nat \X Handlers) /\ O \in SUBSET (Nat \X Nat)
    BY <1>1, <1>2 DEF Child
  <2>2. child' = [child EXCEPT ![c] = z]
    BY <1>2, <1>4, <1>6 DEF Child
  <2> HIDE DEF P, O
  <2>3. /\ z \in Child /\ z.acct = child[c].acct /\ z.st = child[c].st /\ z.mu = child[c].mu
        /\ z.pend = P /\ z.owed = O
    BY <1>2, <2>1 DEF Child
  <2>4. Clean
    <3>1. child[c].acct \notin x.fz \/ Direct(x)
      BY <1>1, <1>2 DEF IInv, Freezes, Usable, Direct
    <3> QED BY <1>6, <3>1, UsesClean
  <2> HIDE DEF z
  <2> QED BY <1>1, <1>2, <1>3, <1>6, <2>2, <2>3, <2>4, AskStep DEF P, O
<1>7. CASE /\ child[c].st = "hung" /\ Goto(r, "blocked") /\ UNCHANGED misuse
           /\ child' = [child EXCEPT ![c].pend = @ \cup {entry}, ![c].mu = r]
  <2> DEFINE P == child[c].pend \cup {entry}
             z == [child[c] EXCEPT !.pend = P, !.mu = r]
  <2>1. P \in SUBSET (Nat \X Handlers)
    BY <1>1, <1>2 DEF Child
  <2>2. child' = [child EXCEPT ![c] = z]
    BY <1>2, <1>4, <1>7 DEF Child
  <2> HIDE DEF P
  <2>3. /\ z \in Child /\ z.acct = child[c].acct /\ z.st = child[c].st /\ z.mu = r
        /\ z.pend = P /\ z.owed = child[c].owed
    BY <1>2, <2>1 DEF Child
  <2>4. Clean /\ Up(c)
    BY <1>7, SameClean DEF Up
  <2> HIDE DEF z
  <2> QED BY <1>1, <1>3, <1>7, <2>2, <2>3, <2>4, AskStep DEF P
<1> QED BY <1>5, <1>6, <1>7 DEF Call

(* A caller gives up. *)
LEMMA DropStep ==
  ASSUME IInv, NEW r \in Handlers, NEW z \in Child, h[r].pc \in {"wait", "blocked"}, h[r].fire = {},
         h[r].pc = "wait" => child[h[r].conn].mu = Nobody,
         z.acct = child[h[r].conn].acct, z.st = child[h[r].conn].st, z.owed = child[h[r].conn].owed,
         z.pend = child[h[r].conn].pend \ {<<h[r].id, r>>}, z.mu = Nobody,
         child' = [child EXCEPT ![h[r].conn] = z], Goto(r, "failed"),
         UNCHANGED <<tableVars, reg, spawn, envVars, seenVars>>
  PROVE  IInv'
<1> DEFINE x == h[r]
           c == x.conn
           y == [x EXCEPT !.pc = "failed"]
           k == <<x.sid, "std">>
<1>1. /\ TypeOK /\ x \in State /\ Talking(x) /\ Steps(x) /\ Calls(x) /\ Places(x, minted, Len(child)) /\ minted \in Nat
  BY HandlerIs DEF Talking
<1>2. c \in Conns /\ x.op \in {"init", "call", "rnote"} \cup Routed
  BY <1>1, CallerIs
<1>3. /\ y \in State /\ y.pc = "failed" /\ y.conn = c /\ y.id = x.id /\ y.acct = x.acct /\ y.then = x.then
      /\ y.op = x.op /\ y.sid = x.sid /\ y.cands = x.cands /\ y.n = x.n /\ y.fz = x.fz
  BY <1>1 DEF State, Pc
<1>4. Set(r, y)
  BY DEF Goto
<1> HIDE DEF y
<1>5. h'[r] = y /\ \A q \in Handlers \ {r} : h'[q] = h[q]
  BY <1>1, <1>4 DEF Set, TypeOK
<1>6. /\ Procs /\ Unregistered /\ Len(child') = Len(child) /\ child'[c] = z
      /\ \A d \in Conns : d # c => child'[d] = child[d]
  <2>1. z.st # "dead" => Up(c)
    BY DEF Up
  <2> QED BY <1>1, <1>2, <2>1, TouchProcs
<1>7. Table({}) /\ minted' = minted /\ UNCHANGED <<frozen, faults, count, mixed>> /\ spawn' = spawn /\ Clean
  BY <1>1, QuietTable, SameClean DEF tableVars, envVars, seenVars
<1>8. Listed({}) /\ SubsKept(r)
  BY <1>7 DEF Table, SubsKept
<1>9. spawn' \in [DOMAIN spawn' -> Handlers] /\ LocksKept(r)
  BY <1>7, LocksAre
<1>10. /\ Holder(y) <=> Holder(x)
       /\ Spawning(y) <=> Spawning(x)
       /\ Talking(y) /\ ~Checking(x) /\ x.pc # "r_sub"
  BY <1>1, <1>3 DEF Holder, Spawning, Talking, Checking, Starting, Calls
<1>11. Pending'
  <2>m. child[c].mu \in {Nobody, r}
    BY DEF IInv, Pending
  <2>1. ASSUME NEW d \in Conns, NEW p \in child'[d].pend
        PROVE  h'[p[2]].conn = d /\ h'[p[2]].id = p[1] /\ h'[p[2]].pc \in {"wait", "blocked"}
    <3>1. p \in child[d].pend /\ (d = c => p # <<x.id, r>>)
      BY <1>6, <2>1
    <3>2. p \in Nat \X Handlers
      BY <1>1, <3>1, RegIs DEF Child
    <3>3. h[p[2]].conn = d /\ h[p[2]].id = p[1] /\ h[p[2]].pc \in {"wait", "blocked"}
      BY <3>1 DEF IInv, Pending
    <3>4. p[2] # r
      BY <3>1, <3>2, <3>3
    <3> QED BY <1>5, <3>2, <3>3, <3>4
  <2>2. ASSUME NEW q \in Handlers, h'[q].pc = "blocked" PROVE child'[h'[q].conn].mu = q
    <3>1. q # r
      BY <1>3, <1>5, <2>2
    <3>2. h'[q] = h[q] /\ h[q].pc = "blocked"
      BY <1>5, <2>2, <3>1
    <3>3. h[q].conn \in Conns /\ child[h[q].conn].mu = q
      BY <3>2, CallerIs DEF Talking, IInv, Pending
    <3>4. h[q].conn # c
      BY <2>m, <3>1, <3>3, McpAssumption
    <3> QED BY <1>6, <3>2, <3>3, <3>4
  <2> QED BY <1>6, <2>1, <2>2 DEF Pending, Conns
<1>12. Well(y, minted', Len(child'))
  <2>1. Steps(y) /\ Calls(y)
    BY <1>1, <1>3 DEF Steps, Calls, Talking
  <2>2. Places(y, minted', Len(child'))
    BY <1>1, <1>2, <1>3, <1>6, <1>7, <1>10 DEF Places, Conns
  <2> QED BY <2>1, <2>2 DEF Well
<1>13. \A d \in 1 .. Len(child') : d \in Conns /\ \A m \in child'[d].owed : m \in child[d].owed
  BY <1>6 DEF Conns
<1>14. \A l \in DOMAIN reg' : l \in DOMAIN reg
  BY <1>6 DEF Unregistered
<1>15. OrphanStep(x, y)
  BY <1>3, <1>10 DEF OrphanStep, Minds
<1>16. GoesOn(x, y)
  BY <1>1, <1>3, <1>10 DEF GoesOn
<1>17. Awaits(x, y) /\ Leaves(r)
  BY <1>3, <1>10 DEF Awaits, Asked, Direct, Leaves
<1>18. Chooses(x, y)
  BY <1>3 DEF Chooses
<1>19. Stands(r, y)
  <2>1. Spawning(y) => k \in DOMAIN spawn' /\ spawn'[k] = r
    BY <1>7, <1>10 DEF IInv, Freezes, Locked
  <2>2. y.op \in Routed /\ Holder(y) => child'[y.conn].acct = y.acct
    BY <1>3, <1>6, <1>10 DEF IInv, Freezes, Started
  <2> QED BY <1>3, <2>1, <2>2 DEF Stands
<1> QED BY <1>3, <1>4, <1>6, <1>7, <1>8, <1>9, <1>11, <1>12, <1>13, <1>14, <1>15, <1>16, <1>17, <1>18, <1>19, HandlerMoves

(* A notification is written, or blocks in the write. *)
LEMMA NotifyKeeps ==
  ASSUME IInv, NEW r \in Handlers, Notify(r)
  PROVE  IInv'
<1> DEFINE x == h[r]
           c == x.conn
<1>1. /\ TypeOK /\ x \in State /\ x.pc = "call" /\ At(r, "call") /\ Talking(x) /\ child[c].mu = Nobody
      /\ x.then = "note" /\ x.op = "rnote" /\ x.fire = {}
  BY HandlerIs DEF Notify, At, Talking, Calls
<1>2. c \in Conns /\ child[c] \in Child /\ ~Holder(x) /\ ~Spawning(x)
  BY <1>1, CallerIs
<1>3. UNCHANGED <<tableVars, reg, spawn, envVars, mixed>>
  BY DEF Notify
<1>4. CASE Finish(r, {}) /\ child' = child /\ Clean
  <2>1. Table({}) /\ minted' = minted /\ minted' \in Nat
    BY <1>1, <1>3, QuietTable DEF tableVars, TypeOK
  <2>2. Procs /\ Unasked /\ Unregistered /\ Len(child') \in Nat
    BY <1>1, <1>3, <1>4, SameProcs, HandlerIs
  <2>3. Set(r, Done({})) /\ Plain(x, Done({}), {})
    BY <1>4, <2>1, <2>2, FinishPlain
  <2>4. ~Checking(x) /\ x.pc \notin {"wait", "blocked", "failed", "r_sub"}
    BY <1>1 DEF Checking
  <2> QED BY <1>1, <1>2, <1>3, <1>4, <2>1, <2>2, <2>3, <2>4, PlainStep DEF envVars
<1>5. CASE child[c].st = "hung" /\ child' = [child EXCEPT ![c].mu = r] /\ Goto(r, "blocked") /\ misuse' = misuse
  <2> DEFINE z == [child[c] EXCEPT !.mu = r]
  <2>1. child' = [child EXCEPT ![c] = z]
    BY <1>5
  <2>2. /\ z \in Child /\ z.acct = child[c].acct /\ z.st = child[c].st /\ z.mu = r
        /\ z.pend = child[c].pend /\ z.owed = child[c].owed
    BY <1>2 DEF Child
  <2>3. Clean /\ Up(c)
    BY <1>5, SameClean DEF Up
  <2> HIDE DEF z
  <2> QED BY <1>1, <1>3, <1>5, <2>1, <2>2, <2>3, AskStep
<1>6. ASSUME Uses(r, child[c].acct) PROVE Clean
  BY <1>1, <1>6, UsesClean DEF Notice
<1>7. ASSUME misuse' = misuse PROVE Clean
  BY <1>7, SameClean
<1> QED BY <1>4, <1>5, <1>6, <1>7 DEF Notify

(* The child of a caller that gives up. *)
LEMMA DropKeeps ==
  ASSUME IInv, NEW r \in Handlers, h[r].pc \in {"wait", "blocked"}, h[r].fire = {}, Goto(r, "failed"),
         \/ /\ child[h[r].conn].mu = Nobody
            /\ child' = [child EXCEPT ![h[r].conn].pend = @ \ {<<h[r].id, r>>}]
         \/ /\ h[r].pc = "blocked"
            /\ child' = [child EXCEPT ![h[r].conn].mu = Nobody, ![h[r].conn].pend = @ \ {<<h[r].id, r>>}],
         UNCHANGED <<tableVars, reg, spawn, envVars, seenVars>>
  PROVE  IInv'
<1> DEFINE c == h[r].conn
           P == child[c].pend \ {<<h[r].id, r>>}
           z == [child[c] EXCEPT !.pend = P, !.mu = Nobody]
<1>1. TypeOK /\ c \in Conns /\ child[c] \in Child
  BY HandlerIs, CallerIs DEF Talking
<1>2. child \in Seq(Child) /\ DOMAIN child = Conns
  BY <1>1 DEF TypeOK, Conns
<1>3. P \in SUBSET (Nat \X Handlers)
  BY <1>1 DEF Child
<1>4. child' = [child EXCEPT ![c] = z]
  <2>1. CASE child[c].mu = Nobody /\ child' = [child EXCEPT ![c].pend = @ \ {<<h[r].id, r>>}]
    BY <1>1, <1>2, <2>1 DEF Child
  <2>2. CASE child' = [child EXCEPT ![c].mu = Nobody, ![c].pend = @ \ {<<h[r].id, r>>}]
    BY <1>1, <1>2, <2>2 DEF Child
  <2> QED BY <2>1, <2>2
<1> HIDE DEF P
<1>5. /\ z \in Child /\ z.acct = child[c].acct /\ z.st = child[c].st /\ z.mu = Nobody
      /\ z.pend = P /\ z.owed = child[c].owed
  BY <1>1, <1>3 DEF Child
<1> HIDE DEF z
<1> QED BY <1>4, <1>5, DropStep DEF P

(* The write fails, the reader ends, or the call times out. *)
LEMMA GiveUpKeeps ==
  ASSUME IInv, NEW r \in Handlers, WriteFails(r) \/ ReadEnd(r) \/ Timeout(r)
  PROVE  IInv'
<1>1. CASE WriteFails(r)
  BY <1>1, DropKeeps DEF WriteFails, At
<1>2. CASE ReadEnd(r)
  BY <1>2, DropKeeps DEF ReadEnd, At
<1>3. CASE Timeout(r)
  BY <1>3, DropKeeps DEF Timeout, At
<1> QED BY <1>1, <1>2, <1>3

(***************************************************************************)
(* The steps of the children, the operator and time.                       *)
(***************************************************************************)
(* A step of no handler: each stays where it is, or has its answer. *)
LEMMA EnvStep ==
  ASSUME IInv, h' \in [Handlers -> State], Table({}), minted' = minted, Procs, Unregistered, Pending',
         Len(child') = Len(child), \A c \in Conns : child'[c].owed \subseteq child[c].owed,
         spawn' = spawn, misuse' = misuse, mixed' \subseteq {"direct", "other"}, "direct" \notin mixed',
         frozen' \subseteq Accounts, faults' \in Nat, count' \in Nat,
         \A r \in Handlers : /\ Stays(h[r], h'[r]) /\ h'[r].fz \subseteq frozen'
                             /\ h'[r].id = h[r].id /\ h'[r].fire = h[r].fire
                             /\ Awaits(h[r], h'[r])
  PROVE  IInv'
<1> USE DEF IInv
<1>1. TypeOK'
  <2>1. Listed({}) /\ spawn' \in [DOMAIN spawn' -> Handlers] /\ misuse' \subseteq Ways
    BY DEF Table, TypeOK
  <2> QED BY <2>1, TypeKeeps
<1>2. Shaped'
  <2>1. ASSUME NEW r \in Handlers PROVE Well(h'[r], minted', Len(child'))
    <3> DEFINE x == h[r]
               y == h'[r]
    <3>1. Steps(x) /\ Calls(x) /\ Places(x, minted, Len(child))
      BY HandlerIs
    <3>2. /\ y.op = x.op /\ y.sid = x.sid /\ y.cands = x.cands /\ y.got = x.got /\ y.conn = x.conn /\ y.id = x.id
          /\ y.acct = x.acct /\ y.then = x.then /\ (y.pc = x.pc \/ (x.pc = "wait" /\ y.pc = "answered"))
      BY DEF Stays
    <3> HIDE DEF x, y
    <3>3. Steps(y) /\ Calls(y)
      BY ZenonT(40), <3>1, <3>2 DEF Steps, Calls, Talking
    <3>4. Places(y, minted', Len(child'))
      BY ZenonT(40), <3>1, <3>2 DEF Places, Talking, Holder, Starting
    <3> QED BY <3>3, <3>4 DEF Well, y
  <2> QED BY <2>1 DEF Shaped
<1>3. \A r \in Handlers : OrphanStep(h[r], h'[r]) /\ GoesOn(h[r], h'[r])
  <2>1. ASSUME NEW r \in Handlers PROVE OrphanStep(h[r], h'[r]) /\ GoesOn(h[r], h'[r])
    <3>1. /\ Holder(h[r]) <=> Holder(h'[r])
          /\ Checking(h[r]) <=> Checking(h'[r])
          /\ Talking(h'[r]) => Talking(h[r])
          /\ h[r].pc = "r_sub" => h'[r].pc = "r_sub"
          /\ h'[r].op = h[r].op /\ h'[r].sid = h[r].sid /\ h'[r].conn = h[r].conn
      BY DEF Stays, Holder, Checking, Talking, Starting
    <3> QED BY <3>1 DEF OrphanStep, GoesOn, Minds
  <2> QED BY <2>1
<1>4. Listed({}) /\ \A c \in 1 .. Len(child') : c \in Conns /\ \A m \in child'[c].owed : m \in child[c].owed
  BY DEF Table, Conns
<1>5. Orphans'
  BY <1>3, <1>4, OrphansKeep DEF Unregistered
<1>6. Answers'
  BY <1>1, <1>3, <1>4, AnswersKeep
<1>7. Picked'
  BY <1>1, PickedKeeps, McpAssumption DEF Freezes
<1>8. Freezes'
  <2>1. RegisteredBy(Nobody) /\ LocksKept(Nobody) /\ Leaves(Nobody)
    BY McpAssumption DEF RegisteredBy, LocksKept, Leaves, Unregistered
  <2>2. "other" \notin misuse'
    BY DEF Freezes, FrozenStops
  <2>3. \A i \in 1 .. minted' : "std" \in DOMAIN sess'[i].subs =>
           /\ i \in 1 .. minted /\ "std" \in DOMAIN sess[i].subs
           /\ sess'[i].subs["std"] = sess[i].subs["std"]
    BY DEF Table
  <2> QED BY <1>1, <1>7, <2>1, <2>2, <2>3, FreezesKeep, McpAssumption
<1> QED BY <1>1, <1>2, <1>5, <1>6, <1>8

(* What does not concern a child's callers leaves their handlers alone. *)
LEMMA QuietStep ==
  ASSUME IInv, h' = h, UNCHANGED <<lru, sess, minted>>, Procs, Unregistered, Unasked,
         spawn' = spawn, misuse' = misuse, mixed' = mixed, frozen' \subseteq Accounts, frozen \subseteq frozen',
         faults' \in Nat, count' \in Nat
  PROVE  IInv'
<1> USE DEF IInv
<1>1. Table({})
  BY QuietTable
<1>2. Pending'
  BY PendingKeeps
<1>3. mixed' \subseteq {"direct", "other"} /\ "direct" \notin mixed' /\ h' \in [Handlers -> State]
  BY DEF TypeOK, Answers, AnswersOwn
<1>4. ASSUME NEW r \in Handlers
      PROVE  /\ Stays(h[r], h'[r]) /\ h'[r].fz \subseteq frozen'
             /\ h'[r].id = h[r].id /\ h'[r].fire = h[r].fire /\ Awaits(h[r], h'[r])
  BY AwaitsSame DEF Stays, Freezes, Barred
<1>5. Len(child') = Len(child) /\ \A c \in Conns : child'[c].owed \subseteq child[c].owed
  BY DEF Unasked
<1> QED BY <1>1, <1>2, <1>3, <1>4, <1>5, EnvStep

(* A child dies. *)
LEMMA DiesKeeps ==
  ASSUME IInv, NEW c \in Conns, Dies(c)
  PROVE  IInv'
<1>1. TypeOK /\ frozen \subseteq Accounts /\ faults \in Nat /\ count \in Nat
  BY DEF IInv, TypeOK
<1> DEFINE C == {c}
<1>2. child' = Closed(C) /\ reg' = reg
  BY DEF Dies
<1> HIDE DEF C
<1>3. Procs /\ Unasked /\ Unregistered
  BY <1>1, <1>2, DiesProcs
<1>4. faults' \in Nat /\ count' \in Nat /\ frozen' = frozen
  BY <1>1 DEF Dies
<1> QED BY <1>1, <1>3, <1>4, QuietStep DEF Dies, tableVars, seenVars

(* A child stops reading. *)
LEMMA HangsKeeps ==
  ASSUME IInv, NEW c \in Conns, Hangs(c)
  PROVE  IInv'
<1> DEFINE z == [child[c] EXCEPT !.st = "hung"]
<1>1. TypeOK /\ frozen \subseteq Accounts /\ faults \in Nat /\ count \in Nat /\ child \in Seq(Child)
  BY DEF IInv, TypeOK
<1>2. child[c] \in Child
  BY <1>1, RegIs
<1>3. /\ z \in Child /\ z.acct = child[c].acct /\ z.owed = child[c].owed /\ z.pend = child[c].pend
      /\ z.mu = child[c].mu
  BY <1>2 DEF Child
<1>4. child' = [child EXCEPT ![c] = z] /\ reg' = reg /\ Up(c)
  BY DEF Hangs, Up
<1> HIDE DEF z
<1>5. /\ Procs /\ Unregistered /\ Len(child') = Len(child) /\ child'[c] = z
      /\ \A d \in Conns : d # c => child'[d] = child[d]
  BY <1>1, <1>3, <1>4, TouchProcs
<1>6. Unasked
  BY <1>3, <1>5 DEF Unasked
<1>7. faults' \in Nat /\ count' \in Nat /\ frozen' = frozen
  BY <1>1 DEF Hangs
<1> QED BY <1>1, <1>5, <1>6, <1>7, QuietStep DEF Hangs, tableVars, seenVars

(* The operator freezes accounts. *)
LEMMA FreezeKeeps ==
  ASSUME IInv, NEW A \in SUBSET Accounts, Freeze(A)
  PROVE  IInv'
<1>1. TypeOK /\ frozen \subseteq Accounts /\ faults \in Nat /\ count \in Nat
  BY DEF IInv, TypeOK
<1>2. Procs /\ Unasked /\ Unregistered
  BY <1>1, SameProcs DEF Freeze, procVars
<1>3. faults' \in Nat /\ count' \in Nat /\ frozen' \subseteq Accounts /\ frozen \subseteq frozen'
  BY <1>1 DEF Freeze
<1> QED BY <1>2, <1>3, QuietStep DEF Freeze, tableVars, seenVars, procVars

(* A session grows old. *)
LEMMA GrowsOldKeeps ==
  ASSUME IInv, NEW id, GrowsOld(id)
  PROVE  IInv'
<1>1. TypeOK /\ frozen \subseteq Accounts /\ faults \in Nat /\ count \in Nat
  BY DEF IInv, TypeOK
<1>2. Procs /\ Unasked /\ Unregistered
  BY <1>1, SameProcs DEF GrowsOld, procVars
<1>3. faults' \in Nat /\ count' \in Nat /\ frozen' = frozen
  BY <1>1 DEF GrowsOld
<1> QED BY <1>1, <1>2, <1>3, QuietStep DEF GrowsOld, Age, seenVars, procVars

(* The operator thaws an account. *)
LEMMA ThawKeeps ==
  ASSUME IInv, NEW a \in Accounts, Thaw(a)
  PROVE  IInv'
<1> USE DEF IInv
<1>1. TypeOK /\ frozen \subseteq Accounts /\ faults \in Nat /\ count \in Nat /\ minted \in Nat
  BY DEF TypeOK
<1>2. Procs /\ Unasked /\ Unregistered /\ Table({})
  BY <1>1, SameProcs, QuietTable DEF Thaw, procVars, tableVars
<1>3. ASSUME NEW r \in Handlers
      PROVE  /\ h'[r] \in State /\ h'[r].fz = h[r].fz \ {a} /\ h'[r].pc = h[r].pc /\ h'[r].op = h[r].op
             /\ h'[r].sid = h[r].sid /\ h'[r].cands = h[r].cands /\ h'[r].got = h[r].got
             /\ h'[r].conn = h[r].conn /\ h'[r].acct = h[r].acct /\ h'[r].then = h[r].then
             /\ h'[r].id = h[r].id /\ h'[r].fire = h[r].fire /\ h'[r].n = h[r].n
  <2> DEFINE F == h[r].fz \ {a}
  <2>1. h[r] \in State /\ h'[r] = [h[r] EXCEPT !.fz = F]
    BY <1>1 DEF Thaw, TypeOK
  <2>2. F \in SUBSET Accounts
    BY <2>1 DEF State
  <2> HIDE DEF F
  <2>3. /\ h'[r] \in State /\ h'[r].fz = F /\ h'[r].pc = h[r].pc /\ h'[r].op = h[r].op
        /\ h'[r].sid = h[r].sid /\ h'[r].cands = h[r].cands /\ h'[r].got = h[r].got
        /\ h'[r].conn = h[r].conn /\ h'[r].acct = h[r].acct /\ h'[r].then = h[r].then
        /\ h'[r].id = h[r].id /\ h'[r].fire = h[r].fire /\ h'[r].n = h[r].n
    BY <2>1, <2>2 DEF State
  <2> QED BY <2>3 DEF F
<1>4. h' \in [Handlers -> State]
  <2>1. h' = [r \in Handlers |-> h'[r]]
    BY DEF Thaw
  <2> QED BY <1>3, <2>1
<1>5. Pending'
  BY <1>1, <1>2, <1>3, PendingKeeps
<1>6. ASSUME NEW r \in Handlers
      PROVE  /\ Stays(h[r], h'[r]) /\ h'[r].fz \subseteq frozen'
             /\ h'[r].id = h[r].id /\ h'[r].fire = h[r].fire /\ Awaits(h[r], h'[r])
  <2>1. Stays(h[r], h'[r])
    BY <1>3 DEF Stays
  <2>2. h'[r].fz \subseteq frozen'
    BY <1>3 DEF Thaw, Freezes, Barred
  <2>3. Awaits(h[r], h'[r])
    BY <1>3 DEF Awaits, Asked, Direct
  <2> QED BY <1>3, <2>1, <2>2, <2>3
<1>7. mixed' \subseteq {"direct", "other"} /\ "direct" \notin mixed'
  BY DEF TypeOK, Answers, AnswersOwn, Thaw, seenVars
<1>8. /\ Len(child') = Len(child) /\ \A c \in Conns : child'[c].owed \subseteq child[c].owed
      /\ frozen' \subseteq Accounts /\ faults' \in Nat /\ count' \in Nat /\ minted' = minted
      /\ spawn' = spawn /\ misuse' = misuse
  BY <1>1, <1>2 DEF Thaw, Unasked, tableVars, procVars, seenVars
<1> QED BY <1>2, <1>4, <1>5, <1>6, <1>7, <1>8, EnvStep

(* Whoever waits for the answer of a pinned session's child has asked for it. *)
LEMMA AskerIs ==
  ASSUME IInv, NEW r \in Handlers, NEW m \in child[h[r].conn].owed,
         h[r].pc = "wait", Direct(h[r]), Up(h[r].conn), h[r].id = m[1]
  PROVE  m = <<h[r].id, h[r].n>>
<1> DEFINE c == h[r].conn
<1>1. c \in Conns /\ child[c] \in Child /\ Talking(h[r])
  BY CallerIs DEF Talking
<1>2. ASSUME NEW q \in Handlers, Direct(h[q]), h[q].pc \in {"wait", "failed"}, h[q].conn = c
      PROVE  /\ Talking(h[q])
             /\ Holder(h[q]) => h[q].op = "init"
             /\ ~Holder(h[q]) => /\ h[q].op = "call" /\ h[q].id # 0 /\ Home(h[q]) = <<h[q].sid, "">>
                                 /\ Home(h[q]) \in DOMAIN reg /\ reg[Home(h[q])] = c
  <2>1. Talking(h[q]) /\ Calls(h[q])
    BY <1>2, HandlerIs DEF Talking
  <2>2. Holder(h[q]) => h[q].op = "init"
    BY <1>2, <2>1 DEF Holder, Calls, Direct, Routed
  <2>3. ~Holder(h[q]) => h[q].op = "call" /\ h[q].id # 0
    BY <1>2, <2>1 DEF Holder, Calls, Direct, Routed, Starting
  <2>4. ~Holder(h[q]) => Home(h[q]) \in DOMAIN reg /\ reg[Home(h[q])] = c
    BY <1>2, <2>1 DEF IInv, Answers, Pinned
  <2> QED BY <2>1, <2>2, <2>3, <2>4 DEF Home
<1>3. Private(c)
  <2>1. CASE Holder(h[r])
    BY <1>2, <2>1 DEF Private
  <2>2. CASE ~Holder(h[r])
    BY <1>2, <2>2 DEF Private
  <2> QED BY <2>1, <2>2
<1>4. PICK q \in Handlers : Asked(h[q], c, m)
  BY <1>1, <1>3 DEF IInv, Answers, Owing
<1>5. /\ Direct(h[q]) /\ h[q].pc \in {"wait", "failed"} /\ h[q].conn = c /\ h[q].id = m[1] /\ h[q].n = m[2]
  BY <1>4 DEF Asked
<1>6. q = r
  <2>1. CASE Holder(h[r]) \/ Holder(h[q])
    BY <1>1, <1>2, <1>5, <2>1 DEF IInv, Answers, Fresh
  <2>2. CASE ~Holder(h[r]) /\ ~Holder(h[q])
    <3>1. /\ h[q].op = "call" /\ h[r].op = "call" /\ h[r].id # 0
          /\ <<h[q].sid, "">> \in DOMAIN reg /\ <<h[r].sid, "">> \in DOMAIN reg
          /\ reg[<<h[q].sid, "">>] = c /\ reg[<<h[r].sid, "">>] = c
      BY <1>2, <1>5, <2>2
    <3>2. <<h[q].sid, "">> = <<h[r].sid, "">>
      BY <3>1 DEF IInv, Answers, Once
    <3>3. h[q].sid = h[r].sid
      BY <3>2
    <3> QED BY <1>5, <3>1, <3>3 DEF IInv, Answers, Apart
  <2> QED BY <2>1, <2>2
<1>7. m \in Nat \X Nat
  BY <1>1 DEF Child
<1> QED BY <1>5, <1>6, <1>7

(* An answer is delivered. *)
LEMMA DeliverKeeps ==
  ASSUME IInv, NEW c \in Conns, NEW m \in child[c].owed, Deliver(c, m)
  PROVE  IInv'
<1> USE DEF IInv
<1> DEFINE due == {p \in child[c].pend : p[1] = m[1]}
           O == child[c].owed \ {m}
           P == child[c].pend \ due
           z == [child[c] EXCEPT !.owed = O, !.pend = P]
<1>1. /\ TypeOK /\ frozen \subseteq Accounts /\ faults \in Nat /\ count \in Nat /\ minted \in Nat
      /\ child \in Seq(Child) /\ DOMAIN child = Conns
  BY DEF TypeOK, Conns
<1>2. child[c] \in Child /\ child[c].pend \subseteq Nat \X Handlers /\ child[c].owed \subseteq Nat \X Nat
  BY <1>1, RegIs DEF Child
<1>3. child[c].st = "live" /\ child[c].mu = Nobody /\ Up(c)
  BY DEF Deliver, Up
<1>4. child' = [child EXCEPT ![c] = z]
  BY <1>1, <1>2 DEF Deliver, Child
<1>5. O \in SUBSET (Nat \X Nat) /\ P \in SUBSET (Nat \X Handlers)
  BY <1>2
<1>6. z \in Child /\ z.acct = child[c].acct /\ z.st = child[c].st /\ z.mu = Nobody /\ z.owed = O /\ z.pend = P
  <2> HIDE DEF O, P
  <2> QED BY <1>2, <1>3, <1>5 DEF Child
<1> HIDE DEF z
<1>7. /\ Procs /\ Unregistered /\ Len(child') = Len(child) /\ child'[c] = z
      /\ \A d \in Conns : d # c => child'[d] = child[d]
  <2>1. reg' = reg
    BY DEF Deliver
  <2> QED BY <1>1, <1>3, <1>4, <1>6, <2>1, TouchProcs
<1>8. ASSUME NEW p \in due
      PROVE  /\ p[2] \in Handlers /\ p = <<h[p[2]].id, p[2]>> /\ h[p[2]].pc = "wait"
             /\ h[p[2]].conn = c /\ h[p[2]].id = m[1]
  <2>1. p \in Nat \X Handlers /\ h[p[2]].conn = c /\ h[p[2]].id = p[1] /\ h[p[2]].pc \in {"wait", "blocked"}
    BY <1>2 DEF Pending
  <2>2. h[p[2]].pc # "blocked"
    BY <1>3, <2>1, McpAssumption DEF Pending
  <2> QED BY <2>1, <2>2
<1>9. ASSUME NEW r \in Handlers
      PROVE  \/ h'[r] = h[r] /\ \A p \in due : p[2] # r
             \/ <<m[1], r>> \in due /\ h'[r] = [h[r] EXCEPT !.pc = "answered"]
  <2>1. CASE \E p \in due : p[2] = r
    BY <1>8, <2>1 DEF Deliver
  <2>2. CASE \A p \in due : p[2] # r
    BY <2>2 DEF Deliver
  <2> QED BY <2>1, <2>2
<1>10. ASSUME NEW r \in Handlers, <<m[1], r>> \in due, h'[r] = [h[r] EXCEPT !.pc = "answered"]
       PROVE  /\ h'[r] \in State /\ h'[r].pc = "answered" /\ h[r].pc = "wait" /\ Stays(h[r], h'[r])
              /\ h'[r].id = h[r].id /\ h'[r].fire = h[r].fire /\ h'[r].fz = h[r].fz
  <2>1. h[r] \in State
    BY <1>1 DEF TypeOK
  <2>2. h[r].pc = "wait"
    BY <1>8, <1>10
  <2> QED BY <1>10, <2>1, <2>2 DEF State, Pc, Stays
<1>11. h' \in [Handlers -> State]
  <2>1. h' = [r \in Handlers |-> h'[r]]
    BY DEF Deliver
  <2>2. ASSUME NEW r \in Handlers PROVE h'[r] \in State
    <3>1. h[r] \in State
      BY <1>1 DEF TypeOK
    <3>2. h'[r] = h[r] \/ h'[r] \in State
      BY <1>9, <1>10
    <3> QED BY <3>1, <3>2
  <2> QED BY <2>1, <2>2
<1> HIDE DEF due
<1>12. Pending'
  <2>1. ASSUME NEW d \in Conns, NEW p \in child'[d].pend
        PROVE  h'[p[2]].conn = d /\ h'[p[2]].id = p[1] /\ h'[p[2]].pc \in {"wait", "blocked"}
    <3>1. p \in child[d].pend /\ (d = c => p \notin due)
      BY <1>6, <1>7, <2>1
    <3>2. p \in Nat \X Handlers
      BY <1>1, <3>1, RegIs DEF Child
    <3>3. h[p[2]].conn = d /\ h[p[2]].id = p[1] /\ h[p[2]].pc \in {"wait", "blocked"}
      BY <3>1 DEF Pending
    <3>4. <<m[1], p[2]>> \notin due
      <4>1. ASSUME <<m[1], p[2]>> \in due PROVE FALSE
        <5>1. h[p[2]].conn = c /\ h[p[2]].id = m[1]
          BY <1>8, <4>1
        <5>2. d = c
          BY <3>3, <5>1
        <5>3. p[1] = m[1]
          BY <3>3, <5>1
        <5>4. p = <<p[1], p[2]>>
          BY <3>2
        <5> QED BY <3>1, <4>1, <5>2, <5>3, <5>4
      <4> QED BY <4>1
    <3>5. h'[p[2]] = h[p[2]]
      BY <1>9, <3>2, <3>4
    <3> QED BY <3>3, <3>5
  <2>2. ASSUME NEW q \in Handlers, h'[q].pc = "blocked" PROVE child'[h'[q].conn].mu = q
    <3>1. h'[q] = h[q]
      BY <1>9, <1>10, <2>2
    <3>2. h[q].conn \in Conns /\ child[h[q].conn].mu = q
      BY <2>2, <3>1, CallerIs DEF Talking, Pending
    <3>3. h[q].conn # c
      BY <1>3, <3>2, McpAssumption
    <3> QED BY <1>7, <3>1, <3>2, <3>3
  <2> QED BY <1>7, <2>1, <2>2 DEF Pending, Conns
<1>13. ASSUME NEW r \in Handlers, <<m[1], r>> \in due, Direct(h[r])
       PROVE  m = <<h[r].id, h[r].n>> /\ h[r].conn = c /\ h[r].n = m[2]
  <2>1. h[r].pc = "wait" /\ h[r].conn = c /\ h[r].id = m[1]
    BY <1>8, <1>13
  <2>2. m = <<h[r].id, h[r].n>>
    BY <1>3, <1>13, <2>1, AskerIs
  <2> QED BY <2>1, <2>2
<1>14. ASSUME NEW r \in Handlers PROVE Awaits(h[r], h'[r])
  <2>1. CASE h'[r] = h[r]
    BY <2>1, AwaitsSame
  <2>2. CASE <<m[1], r>> \in due
    <3>1. Direct(h[r]) => <<h[r].id, h[r].n>> \notin child'[h[r].conn].owed
      BY <1>6, <1>7, <1>13, <2>2
    <3> QED BY <3>1 DEF Awaits
  <2> QED BY <1>9, <2>1, <2>2
<1>15. mixed' \subseteq {"direct", "other"} /\ "direct" \notin mixed'
  <2>1. mixed' = mixed \cup {Way(p[2]) : p \in {q \in due : h[q[2]].n # m[2]}}
    BY DEF Deliver, due
  <2>2. ASSUME NEW p \in due, h[p[2]].n # m[2] PROVE Way(p[2]) = "other"
    <3>1. p[2] \in Handlers /\ <<m[1], p[2]>> \in due
      BY <1>8, <2>2
    <3>2. ~Direct(h[p[2]])
      BY <1>13, <2>2, <3>1
    <3>3. h[p[2]].pc = "wait"
      BY <1>8
    <3>4. h[p[2]].op \in {"init", "call"} \cup Routed
      BY <3>1, <3>3, CallerIs DEF Talking
    <3> QED BY <3>2, <3>4 DEF Way, Direct, Routed
  <2>3. mixed \subseteq {"direct", "other"} /\ "direct" \notin mixed
    BY DEF TypeOK, Answers, AnswersOwn
  <2> QED BY <2>1, <2>2, <2>3
<1>16. ASSUME NEW r \in Handlers
       PROVE  /\ Stays(h[r], h'[r]) /\ h'[r].fz \subseteq frozen'
              /\ h'[r].id = h[r].id /\ h'[r].fire = h[r].fire
  <2>1. /\ Stays(h[r], h'[r]) /\ h'[r].fz = h[r].fz
        /\ h'[r].id = h[r].id /\ h'[r].fire = h[r].fire
    BY <1>9, <1>10 DEF Stays
  <2>2. frozen' = frozen
    BY DEF Deliver, envVars
  <2> QED BY <2>1, <2>2 DEF Freezes, Barred
<1>17. /\ Table({}) /\ minted' = minted /\ spawn' = spawn /\ misuse' = misuse
       /\ frozen' \subseteq Accounts /\ faults' \in Nat /\ count' \in Nat
  BY <1>1, QuietTable DEF Deliver, tableVars, envVars
<1>18. \A d \in Conns : child'[d].owed \subseteq child[d].owed
  BY <1>6, <1>7
<1> QED BY <1>7, <1>11, <1>12, <1>14, <1>15, <1>16, <1>17, <1>18, EnvStep

(***************************************************************************)
(* Requests come.                                                          *)
(***************************************************************************)
\* The requests that come.
Comes(op, pc, sid) ==
  \/ op = "init" /\ pc = "p_start" /\ sid = 0
  \/ op = "winit" /\ pc = "w_pick" /\ sid = 0
  \/ op = "rinit" /\ pc = "r_mint" /\ sid = 0
  \/ op = "call" /\ pc = "p_get" /\ sid \in 1 .. minted
  \/ op = "del" /\ pc = "p_kill" /\ sid \in 1 .. minted
  \/ op \in {"wcall", "wdel"} /\ pc = "w_get" /\ sid \in 1 .. minted
  \/ op \in {"rcall", "rlist", "rnote"} /\ pc = "r_get" /\ sid \in 1 .. minted
  \/ op = "rdel" /\ pc = "r_subs" /\ sid \in 1 .. minted

(* A request comes. *)
LEMMA BeginKeeps ==
  ASSUME IInv, NEW a \in Handlers, NEW op, NEW pc, NEW sid, Comes(op, pc, sid), Begin(a, op, pc, sid)
  PROVE  IInv'
<1> USE DEF IInv
<1> DEFINE F == frozen \ {h[q].acct : q \in Handlers}
           x == h[a]
           y == [Free EXCEPT !.op = op, !.pc = pc, !.sid = sid, !.n = count + 1, !.fz = F]
<1>1. /\ TypeOK /\ frozen \subseteq Accounts /\ faults \in Nat /\ count \in Nat /\ minted \in Nat /\ Len(child) \in Nat
  BY HandlerIs DEF TypeOK
<1>2. /\ op \in Op /\ sid \in Nat /\ pc \in {"p_start", "w_pick", "r_mint", "p_get", "p_kill", "w_get", "r_get", "r_subs"}
      /\ op \in OnSession => sid \in 1 .. minted
      /\ op \in Routed => pc = "r_get"
  <2>1. \A i \in 1 .. minted : i \in Nat
    BY <1>1, Numbers
  <2>2. op \in Op /\ pc \in {"p_start", "w_pick", "r_mint", "p_get", "p_kill", "w_get", "r_get", "r_subs"}
    BY DEF Comes, Op, OnSession, Routed
  <2>3. op \in Routed => pc = "r_get"
    BY DEF Comes, Routed
  <2>4. sid = 0 \/ sid \in 1 .. minted
    BY DEF Comes
  <2>5. op \in OnSession => sid \in 1 .. minted
    BY DEF Comes, OnSession, Routed
  <2>6. sid \in Nat
    BY <2>1, <2>4
  <2> QED BY <2>2, <2>3, <2>5, <2>6
<1>3. F \in SUBSET Accounts /\ F \subseteq frozen /\ \A q \in Handlers : h[q].acct \notin F
  BY <1>1
<1>4. Set(a, y) /\ x = Free
  BY DEF Begin
<1> HIDE DEF F
<1>5. /\ y \in State /\ y.op = op /\ y.pc = pc /\ y.sid = sid /\ y.fz = F /\ y.acct = "" /\ y.id = 0
      /\ y.then = "" /\ y.fire = {}
  <2>1. pc \in Pc
    BY <1>2 DEF Pc
  <2>2. count + 1 \in Nat
    BY <1>1
  <2> DEFINE n == count + 1
  <2>3. Free \in State
    BY DoneIs DEF Done
  <2>4. Free.acct = "" /\ Free.id = 0 /\ Free.then = "" /\ Free.fire = {}
    BY DEF Free
  <2>5. n \in Nat
    BY <2>2
  <2> HIDE DEF n
  <2> QED BY <1>2, <1>3, <2>1, <2>3, <2>4, <2>5 DEF State, n
<1> HIDE DEF y
<1>6. /\ h' \in [Handlers -> State] /\ h'[a] = y /\ \A r \in Handlers \ {a} : h'[r] = h[r]
  BY <1>1, <1>4, <1>5 DEF Set, TypeOK
<1>7. /\ x.pc = "free" /\ x.op = "" /\ x.fire = {}
  <2>1. Free.pc = "free" /\ Free.op = "" /\ Free.fire = {}
    BY DEF Free
  <2> QED BY <1>4, <2>1
<1>8. /\ Table({}) /\ minted' = minted /\ reg' = reg /\ child' = child /\ spawn' = spawn
      /\ frozen' = frozen /\ faults' \in Nat /\ count' \in Nat /\ misuse' = misuse /\ mixed' = mixed
  BY <1>1, QuietTable DEF Begin, tableVars, procVars, seenVars
<1>9. Procs /\ Unasked /\ Unregistered /\ Listed({})
  BY <1>1, <1>8, SameProcs DEF Table
<1>10. /\ ~Holder(y) /\ ~Talking(y) /\ ~Spawning(y) /\ ~Checking(x) /\ ~Holder(x)
       /\ y.pc \notin {"call", "use", "r_sub", "blocked", "w_send"}
  BY <1>2, <1>5, <1>7 DEF Holder, Talking, Spawning, Checking, Starting
<1>11. TypeOK'
  <2>1. /\ spawn' \in [DOMAIN spawn' -> Handlers]
        /\ misuse' \subseteq Ways /\ mixed' \subseteq {"direct", "other"}
    BY <1>8 DEF TypeOK
  <2> QED BY <1>1, <1>6, <1>8, <1>9, <2>1, TypeKeeps
<1>12. Shaped'
  <2>1. Well(y, minted', Len(child'))
    <3>1. Steps(y) /\ Calls(y)
      BY <1>5, <1>7, <1>10 DEF Comes, Steps, Calls, Talking, Routed
    <3>2. Places(y, minted', Len(child'))
      BY <1>2, <1>5, <1>8, <1>10 DEF Places
    <3> QED BY <3>1, <3>2 DEF Well
  <2> QED BY <1>6, <1>9, <2>1, ShapedKeeps
<1>13. Pending'
  BY <1>6, <1>7, <1>9, <1>10, PendingKeeps
<1>14. Orphans'
  <2>1. OrphanStep(x, y)
    BY <1>7, <1>10 DEF OrphanStep, Minds
  <2>2. \A r \in Handlers : OrphanStep(h[r], h'[r])
    BY <1>6, <2>1, OrphanSame
  <2>3. \A c \in 1 .. Len(child') : c \in Conns
    BY <1>8 DEF Conns
  <2> QED BY <1>8, <1>9, <2>2, <2>3, OrphansKeep
<1>15. Answers'
  <2>1. \A r \in Handlers : GoesOn(h[r], h'[r])
    BY <1>5, <1>6, <1>10 DEF GoesOn
  <2>2. Awaits(x, y)
    BY <1>7 DEF Awaits
  <2>3. \A r \in Handlers : Awaits(h[r], h'[r])
    BY <1>6, <2>2, AwaitsSame
  <2>4. "direct" \notin mixed'
    BY <1>8 DEF Answers, AnswersOwn
  <2>5. \A c \in 1 .. Len(child') : \A m \in child'[c].owed : c \in Conns /\ m \in child[c].owed
    BY <1>8 DEF Conns
  <2> QED BY <1>9, <1>11, <2>1, <2>3, <2>4, <2>5, AnswersKeep
<1>16. Picked'
  <2>1. "" \notin Accounts
    BY McpAssumption
  <2>2. ASSUME NEW q \in Handlers, NEW r \in Handlers, h'[q].op \in Routed PROVE h'[q].acct \notin h'[r].fz
    <3>1. h'[r].fz \subseteq Accounts
      BY <1>6 DEF State
    <3>2. CASE q = a
      BY <1>5, <1>6, <2>1, <3>1, <3>2
    <3>3. CASE q # a /\ r = a
      BY <1>3, <1>5, <1>6, <3>3
    <3>4. CASE q # a /\ r # a
      BY <1>6, <2>2, <3>4 DEF Freezes, Picked
    <3> QED BY <3>2, <3>3, <3>4
  <2>3. ASSUME NEW r \in Handlers, h'[r].pc = "w_send" PROVE r # a
    BY <1>6, <1>10, <2>3
  <2> QED BY <1>6, <2>2, <2>3 DEF Freezes, Picked
<1>17. Freezes'
  <2>1. \A r \in Handlers : h'[r].fz \subseteq frozen'
    BY <1>3, <1>5, <1>6, <1>8 DEF Freezes, Barred
  <2>2. \A r \in Handlers \ {a} : Stays(h[r], h'[r])
    BY <1>6 DEF Stays
  <2>3. Stands(a, y)
    BY <1>10 DEF Stands
  <2>4. RegisteredBy(a) /\ LocksKept(a) /\ Leaves(a)
    BY <1>7, <1>8 DEF RegisteredBy, LocksKept, Leaves
  <2>5. "other" \notin misuse'
    BY <1>8 DEF Freezes, FrozenStops
  <2>6. \A i \in 1 .. minted' : "std" \in DOMAIN sess'[i].subs =>
           /\ i \in 1 .. minted /\ "std" \in DOMAIN sess[i].subs
           /\ sess'[i].subs["std"] = sess[i].subs["std"]
    BY <1>8 DEF Table
  <2> QED BY <1>6, <1>9, <1>11, <1>16, <2>1, <2>2, <2>3, <2>4, <2>5, <2>6, FreezesKeep
<1> QED BY <1>11, <1>12, <1>13, <1>14, <1>15, <1>17

(* Any of the requests. *)
LEMMA ArriveKeeps ==
  ASSUME IInv, NEW r \in Handlers, Arrive(r)
  PROVE  IInv'
<1>1. PICK op, pc, sid : Comes(op, pc, sid) /\ Begin(r, op, pc, sid)
  BY DEF Arrive, Comes
<1> QED BY <1>1, BeginKeeps

(***************************************************************************)
(* The theorems.                                                           *)
(***************************************************************************)
(* Nothing is started or taken at first. *)
LEMMA InitKeeps ==
  ASSUME Init
  PROVE  IInv
<1>1. /\ lru = <<>> /\ sess = <<>> /\ minted = 0 /\ reg = <<>> /\ spawn = <<>> /\ child = <<>>
      /\ h = [r \in Handlers |-> Free]
      /\ frozen = {} /\ faults = 0 /\ count = 0 /\ misuse = {} /\ mixed = {}
  BY DEF Init, InitTable
<1>2. /\ DOMAIN reg = {} /\ DOMAIN spawn = {} /\ Conns = {} /\ 1 .. minted = {} /\ Len(child) = 0
  BY <1>1 DEF Conns
<1>3. Free \in State /\ \A r \in Handlers : h[r] = Free
  BY <1>1, DoneIs DEF Done
<1>4. /\ Free.op = "" /\ Free.pc = "free" /\ Free.fz = {} /\ Free.fire = {} /\ Free.then = ""
  BY DEF Free
<1>5. ~Holder(Free) /\ ~Talking(Free) /\ ~Spawning(Free)
  BY <1>4 DEF Holder, Talking, Spawning, Starting
<1>6. TypeOK
  <2>1. lru \in Seq(Nat) /\ child \in Seq(Child) /\ minted \in Nat /\ faults \in Nat /\ count \in Nat
    BY <1>1
  <2>2. sess \in [1 .. minted -> Session] /\ reg \in [DOMAIN reg -> Conns] /\ spawn \in [DOMAIN spawn -> Handlers]
    BY <1>1, <1>2
  <2>3. h \in [Handlers -> State]
    BY <1>1, <1>3
  <2> QED BY <1>1, <1>2, <2>1, <2>2, <2>3 DEF TypeOK
<1>7. Shaped
  <2>1. Well(Free, minted, Len(child))
    BY <1>4, <1>5 DEF Well, Steps, Calls, Places, OnSession, Routed
  <2> QED BY <1>3, <2>1 DEF Shaped
<1>8. Pending
  BY <1>2, <1>3, <1>4 DEF Pending
<1>9. Orphans
  BY <1>2 DEF Orphans, Kept, Minded
<1>10. Answers
  BY <1>1, <1>2, <1>3, <1>4, <1>5 DEF Answers, Fresh, Once, Pinned, Apart, Owing, AnswersOwn
<1>11. Freezes
  <2>1. Barred /\ Picked
    BY <1>3, <1>4 DEF Barred, Picked, Routed
  <2>2. Usable /\ Locked /\ Started
    BY <1>3, <1>4, <1>5 DEF Usable, Locked, Started, Routed
  <2> QED BY <1>1, <1>2, <2>1, <2>2 DEF Freezes, Matched, FrozenStops
<1> QED BY <1>6, <1>7, <1>8, <1>9, <1>10, <1>11 DEF IInv

(* No step of a handler breaks the invariant. *)
LEMMA HandleKeeps ==
  ASSUME IInv, NEW r \in Handlers, Handle(r)
  PROVE  IInv'
BY EvictKeeps, CallKeeps, NotifyKeeps, GiveUpKeeps, P_StartKeeps, P_PutKeeps, P_RegKeeps, P_CheckKeeps, P_UndoKeeps,
   P_GetKeeps, P_ConnKeeps, P_KillKeeps, P_DropKeeps, W_PickKeeps, W_SendKeeps, W_GetKeeps,
   R_MintKeeps, R_GetKeeps, EnsureKeeps, LockKeeps, R_StartKeeps, R_RegKeeps, R_SubKeeps, W_BuildKeeps,
   UseWebKeeps, UseStdKeeps, R_ToolsKeeps, R_SubsKeeps, R_TellKeeps, R_KillKeeps, AnsweredKeeps, FailedKeeps, R_DropKeeps DEF Handle

(* Nor does any other. *)
LEMMA StepKeeps ==
  ASSUME IInv, [Next]_vars
  PROVE  IInv'
<1>1. CASE UNCHANGED vars
  <2>1. Procs /\ Unasked /\ Unregistered /\ TypeOK
    BY <1>1, SameProcs DEF vars, IInv
  <2> QED BY <1>1, <2>1, QuietStep DEF vars, TypeOK
<1>2. ASSUME NEW r \in Handlers, Arrive(r) \/ Handle(r) PROVE IInv'
  BY <1>2, ArriveKeeps, HandleKeeps
<1>3. ASSUME NEW c \in Conns, Dies(c) \/ Hangs(c) PROVE IInv'
  BY <1>3, DiesKeeps, HangsKeeps
<1>4. ASSUME NEW c \in Conns, NEW m \in child[c].owed, Deliver(c, m) PROVE IInv'
  BY <1>4, DeliverKeeps
<1>5. ASSUME NEW A \in SUBSET Accounts, Freeze(A) PROVE IInv'
  BY <1>5, FreezeKeeps
<1>6. ASSUME NEW a \in Accounts, Thaw(a) PROVE IInv'
  BY <1>6, ThawKeeps
<1>7. ASSUME NEW id, GrowsOld(id) PROVE IInv'
  BY <1>7, GrowsOldKeeps
<1> QED BY <1>1, <1>2, <1>3, <1>4, <1>5, <1>6, <1>7 DEF Next

(* The inductive invariant of the gateway: whatever requests, evictions,   *)
(* expiries, deaths, hangs, timeouts and freezes interleave, the records   *)
(* of the handlers, the registry, the spawn locks, the session table and   *)
(* the children agree.                                                     *)
THEOREM Invariance == Spec => []IInv
<1>1. Init => IInv
  BY InitKeeps
<1>2. IInv /\ [Next]_vars => IInv'
  BY StepKeeps
<1> QED BY <1>1, <1>2, PTL DEF Spec

(* Every variable of the gateway keeps its type. *)
THEOREM McpTypeCorrect == Spec => []TypeOK
<1>1. IInv => TypeOK
  BY DEF IInv
<1> QED BY <1>1, Invariance, PTL

(* No child process outlives its session (serveMCPStdio,                   *)
(* mcpRouteEnsureSub, mcpOnMCPSessionEvict), for any number of requests,   *)
(* sessions and children and any caps.                                     *)
THEOREM NoOrphans == Spec => []NoOrphan
<1>1. IInv => NoOrphan
  <2>1. ASSUME Kept, NEW c \in Conns, Up(c)
        PROVE  \/ \E k \in DOMAIN reg : reg[k] = c
               \/ \E r \in Handlers :
                    /\ h[r].conn = c
                    /\ \/ h[r].pc \in Starting /\ h[r].then \in {"p_init", "r_init"}
                       \/ h[r].pc \in {"p_put", "p_reg", "r_reg"}
    BY <2>1 DEF Kept, Holder
  <2>2. ASSUME Minded, NEW k \in DOMAIN reg
        PROVE  \/ Known(k[1])
               \/ \E r \in Handlers :
                    \/ k[1] \in h[r].fire
                    \/ h[r].sid = k[1] /\ h[r].pc \in {"p_check", "p_undo", "r_sub"}
    <3>1. CASE \E r \in Handlers : Minds(h[r], k)
      <4>1. PICK r \in Handlers : Minds(h[r], k)
        BY <3>1
      <4>2. k[1] \in h[r].fire \/ (h[r].sid = k[1] /\ h[r].pc \in {"p_check", "p_undo", "r_sub"})
        <5>1. CASE k[1] \in h[r].fire
          BY <5>1
        <5>2. CASE Checking(h[r]) /\ k = <<h[r].sid, "">>
          BY <5>2 DEF Checking
        <5>3. CASE h[r].pc = "r_sub" /\ k = <<h[r].sid, "std">>
          BY <5>3
        <5> QED BY <4>1, <5>1, <5>2, <5>3 DEF Minds
      <4> QED BY <4>2
    <3> QED BY <2>2, <3>1 DEF Minded
  <2> QED BY <2>1, <2>2 DEF IInv, Orphans, NoOrphan
<1> QED BY <1>1, Invariance, PTL

(* A request that comes after a freeze is not served with the frozen       *)
(* account by an HTTP server, nor a call or a list by the servers of a     *)
(* route (serveMCP, mcpRouteEnsureSub).  What a route passes on, its       *)
(* notifications and DELETEs, is not covered: see FrozenIsToldNothing.     *)
THEOREM FrozenServesNobody == Spec => []FrozenStops
<1>1. IInv => FrozenStops
  BY DEF IInv, Freezes
<1> QED BY <1>1, Invariance, PTL

(* A call on a pinned session gets its own answer (StdioConn.Call,         *)
(* readLoop): its id may be used again only after the child that still     *)
(* owes an answer for it was killed.                                       *)
THEOREM PinnedAnswers == Spec => []AnswersOwn
<1>1. IInv => AnswersOwn
  BY DEF IInv, Answers
<1> QED BY <1>1, Invariance, PTL
=============================================================================
