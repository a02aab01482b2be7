---------------------------- MODULE StatsProofs ----------------------------
(***************************************************************************)
(* Proofs about StatsFlusher, for every set of increments and keys, every  *)
(* backlog, every number of batches per cycle and every number of crashes: *)
(* no increment is counted twice, an orderly shutdown saves what had been  *)
(* counted, and the pipeline implements the ledger of StatsLedger.         *)
(***************************************************************************)
EXTENDS StatsFlusher, SequenceTheorems, TLAPS

----------------------------------------------------------------------------
(* The inductive invariant.                                                *)

\* An increment is in a set of entries, or of rows, under one key only.
OneKey(S) == \A x, y \in S : x[1] = y[1] => x = y

\* The increments of a backlog; no two of its batches share one.
EventsIn(q) == UNION {EventsOf(q[i].deltas) : i \in DOMAIN q}
Apart(q) ==
    \A i, j \in DOMAIN q :
      i # j => EventsOf(q[i].deltas) \cap EventsOf(q[j].deltas) = {}
Clean(q) == \A i \in DOMAIN q : OneKey(q[i].deltas)

Entry == Event \X Name
Row == Event \X Name \X Minute
Drain == {"provider", "agent", "mcp", "prune"}

TypeOK ==
    /\ phase \in {"down", "up", "stopping", "closed"}
    /\ live \in [Pipe -> SUBSET Entry]
    /\ held \in SUBSET Entry
    /\ used \in SUBSET Event
    /\ prev \in [Pipe -> SUBSET Entry]
    /\ queue \in [Pipe -> Seq(Batch)]
    /\ db \in [Pipe -> SUBSET Row]
    /\ lastBucket \in Minute
    /\ hold \in {"free", "reset", "rebase", "adopt", "rekey"} \cup Drain
    /\ left \in Nat
    /\ known \in SUBSET Key
    /\ stopper \in {"idle", "cycle", "busy", "check"}
    /\ expired \in BOOLEAN
    /\ before \in SUBSET Event

\* Where the increments of a pipeline can be found, but for the entries that
\* a recorder still holds.
Found(p) == EventsOf(live[p]) \cup EventsIn(queue[p]) \cup EventsOf(db[p])

\* Every pipeline has its own increments, all of them recorded or imported;
\* an increment whose add is still to come is nowhere yet.
Placed ==
    /\ used \cap Legacy = {}
    /\ EventsOf(held) \subseteq used
    /\ \A p \in Pipe : \A e \in Found(p) :
         /\ PipeOf[e] = p
         /\ e \in used \cup Legacy
         /\ e \notin EventsOf(held)

Keyed ==
    /\ OneKey(held)
    /\ \A p \in Pipe : OneKey(live[p]) /\ Clean(queue[p]) /\ OneKey(db[p])

\* The baselines follow the counters, but for the moment in which a rename
\* or a reset has changed the counters and has yet to change the baselines.
Based ==
    /\ hold \notin {"rekey", "rebase"} => \A p \in Pipe : prev[p] \subseteq live[p]
    /\ hold = "rekey" =>
         \A p \in Pipe :
           (IF p = "mcp" THEN prev[p] ELSE RekeyEntries(prev[p])) \subseteq live[p]

\* What CountedOnce says of a pipeline.
Single(p) ==
    /\ Uncollected(p) \cap (EventsIn(queue[p]) \cup EventsOf(db[p])) = {}
    /\ EventsIn(queue[p]) \cap EventsOf(db[p]) = {}
    /\ Apart(queue[p])

Once == hold \notin {"reset", "rebase"} => \A p \in Pipe : Single(p)

\* A process that is down has no memory.
Forgotten ==
    phase = "down" =>
      /\ hold = "free" /\ held = {} /\ ~expired
      /\ \A p \in Pipe : live[p] = {} /\ prev[p] = {} /\ queue[p] = <<>>

\* How far the shutdown is.  A cycle that was not cut short has collected all
\* that was counted before the shutdown, and what is added since is new.
Closing ==
    /\ phase \in {"down", "up"} => stopper = "idle" /\ ~expired
    /\ before \subseteq used \cup Legacy
    /\ before \cap EventsOf(held) = {}
    /\ stopper = "busy" => hold \in Drain
    /\ hold \in Drain => phase = "up" \/ (phase = "stopping" /\ stopper = "busy")
                         \/ expired
    /\ stopper \in {"busy", "check"} /\ ~expired =>
         \A p \in Pipe : before \cap Uncollected(p) = {}
    /\ stopper = "check" /\ ~expired => hold = "free"
    /\ phase = "closed" /\ ~expired =>
         /\ hold = "free"
         /\ \A p \in Pipe : before \cap Uncollected(p) = {} /\ queue[p] = <<>>

IInv == TypeOK /\ Placed /\ Keyed /\ Based /\ Once /\ Forgotten /\ Closing

----------------------------------------------------------------------------
(* Entries, rows and the increments in them.                               *)

\* An increment is in a set when some entry of the set is its entry.
LEMMA EventsMember ==
    ASSUME NEW S, NEW e
    PROVE  e \in EventsOf(S) <=> \E x \in S : e = x[1]
BY DEF EventsOf

\* Two sets have the same increments when each has those of the other.
LEMMA SameEvents ==
    ASSUME NEW S, NEW T,
           \A x \in S : \E y \in T : y[1] = x[1],
           \A y \in T : \E x \in S : y[1] = x[1]
    PROVE  EventsOf(T) = EventsOf(S)
<1>1. ASSUME NEW e PROVE e \in EventsOf(T) <=> e \in EventsOf(S)
  BY EventsMember
<1> QED BY <1>1

\* The increments of nothing are none.
LEMMA EventsNone == EventsOf({}) = {}
BY DEF EventsOf

\* Those of a union are those of both parts.
LEMMA EventsUnion ==
    ASSUME NEW S, NEW T
    PROVE  EventsOf(S \cup T) = EventsOf(S) \cup EventsOf(T)
BY DEF EventsOf

\* Those of a part are some of the whole's.
LEMMA EventsPart ==
    ASSUME NEW S, NEW T, S \subseteq T
    PROVE  EventsOf(S) \subseteq EventsOf(T)
BY DEF EventsOf

\* One entry has one increment.
LEMMA EventsOfOne == \A e, k : EventsOf({<<e, k>>}) = {e}
BY DEF EventsOf

\* Where a counter has one entry per increment, what it has beyond its
\* baseline are the increments that the baseline does not have.
LEMMA EventsDiff ==
    ASSUME NEW S, NEW T, OneKey(T), S \subseteq T
    PROVE  EventsOf(T \ S) = EventsOf(T) \ EventsOf(S)
BY DEF EventsOf, OneKey

\* A part of a set with one entry per increment is such a set.
LEMMA OneKeyPart ==
    ASSUME NEW S, NEW T, OneKey(T), S \subseteq T
    PROVE  OneKey(S)
BY DEF OneKey

\* So is the union of two of them that share no increment.
LEMMA OneKeyUnion ==
    ASSUME NEW S, NEW T, OneKey(S), OneKey(T), EventsOf(S) \cap EventsOf(T) = {}
    PROVE  OneKey(S \cup T)
BY DEF OneKey, EventsOf

\* A rename changes keys and no increment.
LEMMA RekeyEntriesKeeps ==
    ASSUME NEW S \in SUBSET Entry
    PROVE  /\ RekeyEntries(S) \in SUBSET Entry
           /\ EventsOf(RekeyEntries(S)) = EventsOf(S)
           /\ OneKey(S) => OneKey(RekeyEntries(S))
<1>1. \A k \in Name : Renamed(k) \in Name
  BY StatsAssumption DEF Renamed, Name
<1>2. RekeyEntries(S) \in SUBSET Entry
  BY <1>1 DEF RekeyEntries, Entry
<1>3. EventsOf(RekeyEntries(S)) = EventsOf(S)
  <2>1. \A x \in S : \E y \in RekeyEntries(S) : y[1] = x[1]
    <3>1. \A x \in S : <<x[1], Renamed(x[2])>> \in RekeyEntries(S)
      BY DEF RekeyEntries
    <3> QED BY <3>1
  <2>2. \A y \in RekeyEntries(S) : \E x \in S : y[1] = x[1]
    BY DEF RekeyEntries
  <2> QED BY <2>1, <2>2, SameEvents
<1>4. ASSUME OneKey(S) PROVE OneKey(RekeyEntries(S))
  BY <1>4 DEF OneKey, RekeyEntries
<1> QED BY <1>2, <1>3, <1>4

\* The same of rows.
LEMMA RekeyRowsKeeps ==
    ASSUME NEW S \in SUBSET Row
    PROVE  /\ RekeyRows(S) \in SUBSET Row
           /\ EventsOf(RekeyRows(S)) = EventsOf(S)
           /\ OneKey(S) => OneKey(RekeyRows(S))
<1>1. \A k \in Name : Renamed(k) \in Name
  BY StatsAssumption DEF Renamed, Name
<1>2. RekeyRows(S) \in SUBSET Row
  BY <1>1 DEF RekeyRows, Row
<1>3. EventsOf(RekeyRows(S)) = EventsOf(S)
  <2>1. \A x \in S : \E y \in RekeyRows(S) : y[1] = x[1]
    <3>1. \A x \in S : <<x[1], Renamed(x[2]), x[3]>> \in RekeyRows(S)
      BY DEF RekeyRows
    <3> QED BY <3>1
  <2>2. \A y \in RekeyRows(S) : \E x \in S : y[1] = x[1]
    BY DEF RekeyRows
  <2> QED BY <2>1, <2>2, SameEvents
<1>4. ASSUME OneKey(S) PROVE OneKey(RekeyRows(S))
  BY <1>4 DEF OneKey, RekeyRows
<1> QED BY <1>2, <1>3, <1>4

\* The counters that a start loads from rows.
LEMMA LoadKeeps ==
    ASSUME NEW S \in SUBSET Row
    PROVE  /\ LoadCumulative(S) \in SUBSET Entry
           /\ EventsOf(LoadCumulative(S)) = EventsOf(S)
           /\ OneKey(S) => OneKey(LoadCumulative(S))
<1>1. LoadCumulative(S) \in SUBSET Entry
  BY DEF LoadCumulative, Row, Entry
<1>2. EventsOf(LoadCumulative(S)) = EventsOf(S)
  <2>1. \A x \in S : \E y \in LoadCumulative(S) : y[1] = x[1]
    <3>1. \A x \in S : <<x[1], x[2]>> \in LoadCumulative(S)
      BY DEF LoadCumulative
    <3> QED BY <3>1
  <2>2. \A y \in LoadCumulative(S) : \E x \in S : y[1] = x[1]
    BY DEF LoadCumulative
  <2> QED BY <2>1, <2>2, SameEvents
<1>3. ASSUME OneKey(S) PROVE OneKey(LoadCumulative(S))
  BY <1>3 DEF OneKey, LoadCumulative
<1> QED BY <1>1, <1>2, <1>3

\* The rows that a batch adds have its increments and its minute.
LEMMA FlushKeeps ==
    ASSUME NEW S \in SUBSET Row, NEW b \in Batch, OneKey(S), OneKey(b.deltas),
           EventsOf(S) \cap EventsOf(b.deltas) = {}
    PROVE  /\ FlushContext(S, b) \in SUBSET Row
           /\ EventsOf(FlushContext(S, b)) = EventsOf(S) \cup EventsOf(b.deltas)
           /\ OneKey(FlushContext(S, b))
<1> DEFINE new == {<<x[1], Stored(x[2]), b.minute>> : x \in b.deltas}
<1>n. \A k \in Name : Stored(k) \in Name
  BY DEF Stored, Name, Nameless
<1>1. b.deltas \in SUBSET Entry /\ b.minute \in Minute
  BY DEF Batch, Entry
<1>2. new \in SUBSET Row
  BY <1>1, <1>n DEF Row, Entry
<1>3. EventsOf(new) = EventsOf(b.deltas)
  <2>1. \A x \in b.deltas : \E y \in new : y[1] = x[1]
    <3>1. \A x \in b.deltas : <<x[1], Stored(x[2]), b.minute>> \in new
      OBVIOUS
    <3> QED BY <3>1
  <2>2. \A y \in new : \E x \in b.deltas : y[1] = x[1]
    OBVIOUS
  <2> QED BY <2>1, <2>2, SameEvents
<1>4. OneKey(new)
  BY DEF OneKey
<1>5. FlushContext(S, b) = S \cup new
  BY DEF FlushContext
<1> HIDE DEF new
<1> QED BY <1>2, <1>3, <1>4, <1>5, EventsUnion, OneKeyUnion

----------------------------------------------------------------------------
(* The backlog.                                                            *)

\* An increment is in the backlog when some batch has it.
LEMMA EventsInMember ==
    ASSUME NEW q, NEW e
    PROVE  e \in EventsIn(q) <=> \E i \in DOMAIN q : e \in EventsOf(q[i].deltas)
BY DEF EventsIn

\* An empty backlog has nothing.
LEMMA EmptyBacklog ==
    /\ <<>> \in Seq(Batch) /\ EventsIn(<<>>) = {} /\ Apart(<<>>) /\ Clean(<<>>)
BY DEF EventsIn, Apart, Clean

\* Renaming the batches changes no increment of any of them.
LEMMA RekeyBatchesKeeps ==
    ASSUME NEW q \in Seq(Batch)
    PROVE  /\ RekeyBatches(q) \in Seq(Batch)
           /\ EventsIn(RekeyBatches(q)) = EventsIn(q)
           /\ Apart(q) => Apart(RekeyBatches(q))
           /\ Clean(q) => Clean(RekeyBatches(q))
<1> DEFINE r == RekeyBatches(q)
<1>1. DOMAIN r = DOMAIN q /\ DOMAIN q = 1..Len(q) /\ Len(q) \in Nat
  BY DEF RekeyBatches
<1>2. ASSUME NEW i \in DOMAIN q
      PROVE  /\ r[i] \in Batch
             /\ EventsOf(r[i].deltas) = EventsOf(q[i].deltas)
             /\ OneKey(q[i].deltas) => OneKey(r[i].deltas)
  <2>1. q[i] \in Batch /\ q[i].deltas \in SUBSET Entry
    <3>1. q[i] \in Batch
      BY <1>1, ElementOfSeq
    <3> QED BY <3>1 DEF Batch, Entry
  <2>2. r[i] = [q[i] EXCEPT !.deltas = RekeyEntries(q[i].deltas)]
    BY <2>1 DEF RekeyBatches, Batch
  <2>3. r[i].deltas = RekeyEntries(q[i].deltas) /\ r[i].minute = q[i].minute
    BY <2>1, <2>2 DEF Batch
  <2>4. RekeyEntries(q[i].deltas) \in SUBSET Entry
    BY <2>1, RekeyEntriesKeeps
  <2>5. r[i] \in Batch
    BY <2>1, <2>2, <2>4 DEF Batch, Entry
  <2> QED BY <2>1, <2>3, <2>5, RekeyEntriesKeeps
<1>3. r = [i \in 1..Len(q) |-> r[i]]
  BY <1>1 DEF RekeyBatches
<1> HIDE DEF r
<1>4. r \in Seq(Batch)
  BY <1>1, <1>2, <1>3, IsASeq
<1>5. EventsIn(r) = EventsIn(q)
  BY <1>1, <1>2 DEF EventsIn
<1>6. Apart(q) => Apart(r)
  BY <1>1, <1>2 DEF Apart
<1>7. Clean(q) => Clean(r)
  BY <1>1, <1>2 DEF Clean
<1> QED BY <1>4, <1>5, <1>6, <1>7 DEF r

\* What is left when the oldest batch is written.
LEMMA TailKeeps ==
    ASSUME NEW q \in Seq(Batch), q # <<>>, Apart(q), Clean(q)
    PROVE  /\ Head(q) \in Batch /\ OneKey(Head(q).deltas)
           /\ EventsOf(Head(q).deltas) \subseteq EventsIn(q)
           /\ Tail(q) \in Seq(Batch) /\ Apart(Tail(q)) /\ Clean(Tail(q))
           /\ EventsIn(Tail(q)) = EventsIn(q) \ EventsOf(Head(q).deltas)
<1>1. Len(q) \in Nat \ {0} /\ DOMAIN q = 1..Len(q) /\ Head(q) = q[1] /\ 1 \in DOMAIN q
  OBVIOUS
<1>2. /\ Tail(q) \in Seq(Batch) /\ DOMAIN Tail(q) = 1..(Len(q) - 1)
      /\ \A i \in DOMAIN Tail(q) : Tail(q)[i] = q[i + 1] /\ i + 1 \in DOMAIN q
  BY <1>1
<1>3. \A j \in DOMAIN q : j = 1 \/ (j - 1 \in DOMAIN Tail(q) /\ q[j] = Tail(q)[j - 1])
  BY <1>1, <1>2
<1>4. Head(q) \in Batch /\ OneKey(Head(q).deltas)
  BY <1>1 DEF Clean
<1>5. EventsOf(Head(q).deltas) \subseteq EventsIn(q)
  BY <1>1 DEF EventsIn
<1>6. Apart(Tail(q)) /\ Clean(Tail(q))
  <2>1. ASSUME NEW i \in DOMAIN Tail(q), NEW j \in DOMAIN Tail(q), i # j
        PROVE  EventsOf(Tail(q)[i].deltas) \cap EventsOf(Tail(q)[j].deltas) = {}
    <3>1. i + 1 \in DOMAIN q /\ j + 1 \in DOMAIN q /\ i + 1 # j + 1
      BY <1>2, <2>1
    <3>2. EventsOf(q[i + 1].deltas) \cap EventsOf(q[j + 1].deltas) = {}
      BY <3>1 DEF Apart
    <3> QED BY <1>2, <3>2
  <2>2. Clean(Tail(q))
    BY <1>2 DEF Clean
  <2> QED BY <2>1, <2>2 DEF Apart
<1>7. ASSUME NEW e PROVE e \in EventsIn(Tail(q)) <=> e \in EventsIn(q) \ EventsOf(Head(q).deltas)
  <2>1. ASSUME NEW i \in DOMAIN Tail(q), e \in EventsOf(Tail(q)[i].deltas)
        PROVE  e \in EventsIn(q) /\ e \notin EventsOf(Head(q).deltas)
    <3>1. i + 1 \in DOMAIN q /\ i + 1 # 1 /\ e \in EventsOf(q[i + 1].deltas)
      BY <1>2, <2>1
    <3> QED BY <3>1, <1>1, EventsInMember DEF Apart
  <2>2. ASSUME NEW j \in DOMAIN q, e \in EventsOf(q[j].deltas),
               e \notin EventsOf(Head(q).deltas)
        PROVE  e \in EventsIn(Tail(q))
    <3>1. j - 1 \in DOMAIN Tail(q) /\ e \in EventsOf(Tail(q)[j - 1].deltas)
      BY <1>1, <1>3, <2>2
    <3> QED BY <3>1, EventsInMember
  <2> QED BY <2>1, <2>2, EventsInMember
<1> QED BY <1>2, <1>4, <1>5, <1>6, <1>7

\* A batch of increments that the backlog does not have is appended.
LEMMA AppendKeeps ==
    ASSUME NEW q \in Seq(Batch), NEW b \in Batch, Apart(q), Clean(q),
           OneKey(b.deltas), EventsIn(q) \cap EventsOf(b.deltas) = {}
    PROVE  /\ Append(q, b) \in Seq(Batch) /\ Apart(Append(q, b)) /\ Clean(Append(q, b))
           /\ EventsIn(Append(q, b)) = EventsIn(q) \cup EventsOf(b.deltas)
<1> DEFINE a == Append(q, b)
           n == Len(q) + 1
<1>1. /\ a \in Seq(Batch) /\ Len(q) \in Nat
      /\ DOMAIN q = 1..Len(q) /\ DOMAIN a = 1..n
      /\ a[n] = b /\ n \in DOMAIN a
      /\ \A i \in DOMAIN a : i = n \/ (i \in DOMAIN q /\ a[i] = q[i])
      /\ \A i \in DOMAIN q : i # n /\ i \in DOMAIN a /\ a[i] = q[i]
  BY AppendProperties
<1> HIDE DEF a, n
<1>2. \A i \in DOMAIN q : EventsOf(q[i].deltas) \subseteq EventsIn(q)
  BY EventsInMember
<1>3. Apart(a)
  <2> SUFFICES ASSUME NEW i \in DOMAIN a, NEW j \in DOMAIN a, i # j
               PROVE  EventsOf(a[i].deltas) \cap EventsOf(a[j].deltas) = {}
    BY DEF Apart
  <2>1. CASE i = n
    <3>1. j \in DOMAIN q /\ a[j] = q[j]
      BY <1>1, <2>1
    <3> QED BY <1>1, <1>2, <2>1, <3>1
  <2>2. CASE j = n
    <3>1. i \in DOMAIN q /\ a[i] = q[i]
      BY <1>1, <2>2
    <3> QED BY <1>1, <1>2, <2>2, <3>1
  <2>3. CASE i # n /\ j # n
    BY <1>1, <2>3 DEF Apart
  <2> QED BY <2>1, <2>2, <2>3
<1>4. Clean(a)
  BY <1>1 DEF Clean
<1>5. ASSUME NEW e PROVE e \in EventsIn(a) <=> e \in EventsIn(q) \cup EventsOf(b.deltas)
  BY <1>1, EventsInMember
<1> QED BY <1>1, <1>3, <1>4, <1>5 DEF a

\* The nameless delta that a fold leaves is one of those.
LEMMA LastingIsNameless == \A q : Lasting(q) \subseteq Nameless
BY DEF Lasting, Nameless

\* Two batches with no increment in common fold into one that repeats none,
\* and of all pipelines but the MCP one loses none.
LEMMA FoldDeltas ==
    ASSUME NEW p, NEW S \in SUBSET Entry, NEW T \in SUBSET Entry, NEW last \in Nameless,
           OneKey(S), OneKey(T), EventsOf(S) \cap EventsOf(T) = {}
    PROVE  /\ Fold(p, S, T, last) \in SUBSET Entry
           /\ OneKey(Fold(p, S, T, last))
           /\ EventsOf(Fold(p, S, T, last)) \subseteq EventsOf(S) \cup EventsOf(T)
           /\ p # "mcp" => EventsOf(Fold(p, S, T, last)) = EventsOf(S) \cup EventsOf(T)
<1>1. CASE p # "mcp"
  <2>1. Fold(p, S, T, last) = S \cup T
    BY <1>1 DEF Fold
  <2> QED BY <2>1, EventsUnion, OneKeyUnion
<1>2. CASE p = "mcp"
  <2> DEFINE A == {x \in S : x[2] \in Key}
             Y == {y \in S : y[2] = last}
             B == {<<x[1], <<>>>> : x \in Y}
             C == {x \in T : x[2] \in NamesOf(S)}
             Z == {y \in T : y[2] \notin NamesOf(S)}
             D == {<<x[1], Bare(x[2])>> : x \in Z}
  <2>1. Fold(p, S, T, last) = (A \cup B) \cup (C \cup D)
    BY <1>2 DEF Fold, FoldMCP
  <2>2. A \in SUBSET Entry /\ C \in SUBSET Entry /\ OneKey(A) /\ OneKey(C)
    BY OneKeyPart
  <2>3. B \in SUBSET Entry /\ OneKey(B)
    <3>1. <<>> \in Name /\ \A x \in Y : x[1] \in Event
      BY DEF Name, Nameless, Entry
    <3> QED BY <3>1 DEF Entry, OneKey
  <2>4. D \in SUBSET Entry /\ OneKey(D)
    <3>1. \A x \in Z : x[1] \in Event /\ Bare(x[2]) \in Name
      BY DEF Bare, Name, Nameless, Entry
    <3>2. D \in SUBSET Entry
      BY <3>1 DEF Entry
    <3>3. OneKey(D)
      BY DEF OneKey
    <3> QED BY <3>2, <3>3
  <2>5. EventsOf(A) \subseteq EventsOf(S) /\ EventsOf(C) \subseteq EventsOf(T)
    BY EventsPart
  <2>6. EventsOf(B) \subseteq EventsOf(S) /\ EventsOf(D) \subseteq EventsOf(T)
    <3>1. ASSUME NEW e \in EventsOf(B) PROVE e \in EventsOf(S)
      BY <3>1 DEF EventsOf
    <3>2. ASSUME NEW e \in EventsOf(D) PROVE e \in EventsOf(T)
      BY <3>2 DEF EventsOf
    <3> QED BY <3>1, <3>2
  <2>7. EventsOf(A) \cap EventsOf(B) = {}
    <3>1. ASSUME NEW x \in A, NEW y \in Y, x[1] = y[1] PROVE FALSE
      <4>1. x = y /\ last \in Key
        BY <3>1 DEF OneKey
      <4> QED BY <4>1, StatsAssumption
    <3>2. \A e \in EventsOf(B) : \E y \in Y : e = y[1]
      BY DEF EventsOf
    <3>3. \A e \in EventsOf(A) : \E x \in A : e = x[1]
      BY DEF EventsOf
    <3> HIDE DEF A, B, Y
    <3> QED BY <3>1, <3>2, <3>3
  <2>8. EventsOf(C) \cap EventsOf(D) = {}
    <3>1. ASSUME NEW x \in C, NEW y \in Z, x[1] = y[1] PROVE FALSE
      BY <3>1 DEF OneKey
    <3>2. \A e \in EventsOf(D) : \E y \in Z : e = y[1]
      BY DEF EventsOf
    <3>3. \A e \in EventsOf(C) : \E x \in C : e = x[1]
      BY DEF EventsOf
    <3> HIDE DEF C, D, Z
    <3> QED BY <3>1, <3>2, <3>3
  <2> HIDE DEF A, B, C, D, Y, Z
  <2>9. /\ OneKey(A \cup B) /\ OneKey(C \cup D)
        /\ EventsOf(A \cup B) \subseteq EventsOf(S)
        /\ EventsOf(C \cup D) \subseteq EventsOf(T)
    BY <2>2, <2>3, <2>4, <2>5, <2>6, <2>7, <2>8, OneKeyUnion, EventsUnion
  <2>10. EventsOf(A \cup B) \cap EventsOf(C \cup D) = {}
    BY <2>9
  <2>11. OneKey((A \cup B) \cup (C \cup D))
    BY <2>9, <2>10, OneKeyUnion
  <2>12. EventsOf((A \cup B) \cup (C \cup D)) = EventsOf(A \cup B) \cup EventsOf(C \cup D)
    BY EventsUnion
  <2> QED BY <1>2, <2>1, <2>2, <2>3, <2>4, <2>9, <2>11, <2>12
<1> QED BY <1>1, <1>2

\* The two oldest batches of a backlog folded into one.
Folded(p, a, last) ==
    <<[minute |-> a[1].minute, deltas |-> Fold(p, a[1].deltas, a[2].deltas, last)]>>
      \o SubSeq(a, 3, Len(a))

\* Folding repeats nothing, and loses nothing but of the MCP backlog.
LEMMA FoldKeeps ==
    ASSUME NEW p, NEW last \in Nameless,
           NEW a \in Seq(Batch), Len(a) > 1, Apart(a), Clean(a)
    PROVE  LET r == Folded(p, a, last)
           IN  /\ r \in Seq(Batch) /\ Apart(r) /\ Clean(r)
               /\ EventsIn(r) \subseteq EventsIn(a)
               /\ p # "mcp" => EventsIn(r) = EventsIn(a)
<1> DEFINE f == [minute |-> a[1].minute,
                 deltas |-> Fold(p, a[1].deltas, a[2].deltas, last)]
           t == SubSeq(a, 3, Len(a))
           r == Folded(p, a, last)
<1>1. /\ Len(a) \in Nat /\ DOMAIN a = 1..Len(a) /\ 1 \in DOMAIN a /\ 2 \in DOMAIN a
      /\ \A i \in DOMAIN a : i = 1 \/ i = 2 \/ i - 1 \in 2..(Len(a) - 1)
  OBVIOUS
<1>2. /\ a[1] \in Batch /\ a[2] \in Batch
      /\ OneKey(a[1].deltas) /\ OneKey(a[2].deltas)
      /\ EventsOf(a[1].deltas) \cap EventsOf(a[2].deltas) = {}
  <2>1. a[1] \in Batch /\ a[2] \in Batch
    BY <1>1, ElementOfSeq
  <2>2. OneKey(a[1].deltas) /\ OneKey(a[2].deltas)
    BY <1>1 DEF Clean
  <2>3. EventsOf(a[1].deltas) \cap EventsOf(a[2].deltas) = {}
    <3>1. \A j \in DOMAIN a : 1 # j => EventsOf(a[1].deltas) \cap EventsOf(a[j].deltas) = {}
      BY <1>1 DEF Apart
    <3> QED BY <1>1, <3>1
  <2> QED BY <2>1, <2>2, <2>3
<1>3. /\ f \in Batch /\ OneKey(f.deltas)
      /\ EventsOf(f.deltas) \subseteq EventsOf(a[1].deltas) \cup EventsOf(a[2].deltas)
      /\ p # "mcp" => EventsOf(f.deltas) = EventsOf(a[1].deltas) \cup EventsOf(a[2].deltas)
  <2>1. f.deltas = Fold(p, a[1].deltas, a[2].deltas, last) /\ f.minute = a[1].minute
    OBVIOUS
  <2>2. a[1].deltas \in SUBSET Entry /\ a[2].deltas \in SUBSET Entry /\ a[1].minute \in Minute
    BY <1>2 DEF Batch, Entry
  <2>3. /\ f.deltas \in SUBSET Entry /\ OneKey(f.deltas)
        /\ EventsOf(f.deltas) \subseteq EventsOf(a[1].deltas) \cup EventsOf(a[2].deltas)
        /\ p # "mcp" => EventsOf(f.deltas) = EventsOf(a[1].deltas) \cup EventsOf(a[2].deltas)
    BY <1>2, <2>1, <2>2, FoldDeltas
  <2>4. f \in Batch
    BY <2>1, <2>2, <2>3 DEF Batch, Entry
  <2> QED BY <2>3, <2>4
<1>4. /\ t \in Seq(Batch) /\ Len(t) = Len(a) - 2
      /\ \A i \in 1..(Len(a) - 2) : t[i] = a[i + 2]
  BY <1>1, SubSeqProperties
<1>5. <<f>> \in Seq(Batch) /\ Len(<<f>>) = 1 /\ <<f>>[1] = f
  BY <1>3
<1>6. r = <<f>> \o t
  BY DEF Folded
<1> HIDE DEF f, t, r
<1>7. /\ r \in Seq(Batch) /\ DOMAIN r = 1..(Len(a) - 1)
      /\ r[1] = f
      /\ \A i \in 2..(Len(a) - 1) : r[i] = a[i + 1]
  <2>1. r \in Seq(Batch) /\ Len(r) = Len(a) - 1
    <3>1. r \in Seq(Batch) /\ Len(r) = Len(<<f>>) + Len(t)
      BY <1>4, <1>5, <1>6, ConcatProperties
    <3>2. Len(<<f>>) = 1 /\ Len(t) = Len(a) - 2 /\ Len(a) \in Nat
      BY <1>1, <1>4, <1>5
    <3> QED BY <3>1, <3>2
  <2>2. r[1] = f
    BY <1>1, <1>4, <1>5, <1>6, ConcatProperties
  <2>3. ASSUME NEW i \in 2..(Len(a) - 1) PROVE r[i] = a[i + 1]
    <3>1. r[i] = t[i - 1]
      BY <1>1, <1>4, <1>5, <1>6, ConcatProperties
    <3> QED BY <1>1, <1>4, <3>1
  <2> QED BY <2>1, <2>2, <2>3
<1>8. \A i \in 2..(Len(a) - 1) : i + 1 \in DOMAIN a /\ i + 1 # 1 /\ i + 1 # 2
  BY <1>1
<1>9. Apart(r)
  <2> DEFINE meet(i, j) == EventsOf(r[i].deltas) \cap EventsOf(r[j].deltas)
  <2> SUFFICES ASSUME NEW i \in DOMAIN r, NEW j \in DOMAIN r, i < j
               PROVE  meet(i, j) = {}
    <3>1. \A i, j \in DOMAIN r : i # j => i < j \/ j < i
      BY <1>1, <1>7
    <3>2. \A i, j \in DOMAIN r : meet(i, j) = meet(j, i)
      OBVIOUS
    <3> QED BY <3>1, <3>2 DEF Apart
  <2>1. j \in 2..(Len(a) - 1) /\ r[j] = a[j + 1] /\ j + 1 \in DOMAIN a
    BY <1>1, <1>7, <1>8
  <2>2. CASE i = 1
    <3>1. /\ EventsOf(a[1].deltas) \cap EventsOf(a[j + 1].deltas) = {}
          /\ EventsOf(a[2].deltas) \cap EventsOf(a[j + 1].deltas) = {}
      BY <1>1, <1>8, <2>1 DEF Apart
    <3> QED BY <1>3, <1>7, <2>1, <2>2, <3>1
  <2>3. CASE i # 1
    <3>1. /\ i \in 2..(Len(a) - 1) /\ r[i] = a[i + 1] /\ i + 1 \in DOMAIN a
          /\ i + 1 # j + 1
      BY <1>1, <1>7, <1>8, <2>3
    <3> QED BY <2>1, <3>1 DEF Apart
  <2> QED BY <2>2, <2>3
<1>10. Clean(r)
  <2> SUFFICES ASSUME NEW i \in DOMAIN r PROVE OneKey(r[i].deltas)
    BY DEF Clean
  <2>1. i = 1 \/ i \in 2..(Len(a) - 1)
    BY <1>1, <1>7
  <2> QED BY <1>3, <1>7, <1>8, <2>1 DEF Clean
<1>11. ASSUME NEW e
       PROVE  /\ e \in EventsIn(r) => e \in EventsIn(a)
              /\ p # "mcp" => (e \in EventsIn(r) <=> e \in EventsIn(a))
  <2>1. ASSUME NEW i \in DOMAIN r, e \in EventsOf(r[i].deltas)
        PROVE  \E j \in DOMAIN a : e \in EventsOf(a[j].deltas)
    <3>1. i = 1 \/ i \in 2..(Len(a) - 1)
      BY <1>1, <1>7
    <3> QED BY <1>1, <1>3, <1>7, <1>8, <2>1, <3>1
  <2>2. ASSUME p # "mcp", NEW j \in DOMAIN a, e \in EventsOf(a[j].deltas)
        PROVE  \E i \in DOMAIN r : e \in EventsOf(r[i].deltas)
    <3>1. CASE j = 1 \/ j = 2
      <4>1. 1 \in DOMAIN r
        BY <1>1, <1>7
      <4> QED BY <1>3, <1>7, <2>2, <3>1, <4>1
    <3>2. CASE ~(j = 1 \/ j = 2)
      <4>1. j - 1 \in 2..(Len(a) - 1) /\ j - 1 \in DOMAIN r /\ (j - 1) + 1 = j
        BY <1>1, <1>7, <3>2
      <4>2. r[j - 1] = a[j]
        BY <1>7, <4>1
      <4> QED BY <2>2, <4>1, <4>2
    <3> QED BY <3>1, <3>2
  <2> QED BY <2>1, <2>2, EventsInMember
<1> QED BY <1>7, <1>9, <1>10, <1>11 DEF r

\* Enqueue repeats nothing, at the limit too, and loses nothing but calls of
\* MCP names that a fold has left without one.
LEMMA EnqueueKeeps ==
    ASSUME NEW p, NEW last \in Nameless,
           NEW q \in Seq(Batch), NEW b \in Batch, Apart(q), Clean(q),
           OneKey(b.deltas), EventsIn(q) \cap EventsOf(b.deltas) = {}
    PROVE  LET r == Enqueue(p, q, b, last)
           IN  /\ r \in Seq(Batch) /\ Apart(r) /\ Clean(r)
               /\ EventsIn(r) \subseteq EventsIn(q) \cup EventsOf(b.deltas)
               /\ p # "mcp" => EventsIn(r) = EventsIn(q) \cup EventsOf(b.deltas)
<1> DEFINE a == Append(q, b)
<1>1. /\ a \in Seq(Batch) /\ Apart(a) /\ Clean(a)
      /\ EventsIn(a) = EventsIn(q) \cup EventsOf(b.deltas)
  BY AppendKeeps
<1>2. Enqueue(p, q, b, last) = IF Len(a) <= MaxPending THEN a ELSE Folded(p, a, last)
  BY DEF Enqueue, Folded
<1> HIDE DEF a
<1>3. Len(a) \in Nat
  BY <1>1
<1>4. CASE Len(a) <= MaxPending
  BY <1>1, <1>2, <1>4
<1>5. CASE ~(Len(a) <= MaxPending)
  <2>1. Len(a) > 1
    BY <1>3, <1>5, StatsAssumption
  <2> QED BY <1>1, <1>2, <1>5, <2>1, FoldKeeps
<1> QED BY <1>4, <1>5

----------------------------------------------------------------------------
(* The steps.  One lemma per action: the invariant survives it.            *)

\* A process that has not started is in a state of the invariant.
LEMMA InitIInv == Init => IInv
<1> SUFFICES ASSUME Init PROVE IInv
  OBVIOUS
<1>1. /\ \A p \in Pipe : /\ live[p] = {} /\ prev[p] = {} /\ queue[p] = <<>> /\ db[p] = {}
                         /\ EventsOf(live[p]) = {} /\ EventsOf(db[p]) = {}
                         /\ EventsIn(queue[p]) = {} /\ Apart(queue[p]) /\ Clean(queue[p])
      /\ EventsOf(held) = {} /\ used = {}
  BY EventsNone, EmptyBacklog DEF Init, Empty
<1>2. TypeOK
  BY EmptyBacklog DEF Init, Empty, TypeOK, Minute
<1>3. Placed
  BY <1>1 DEF Placed, Found
<1>4. Keyed
  BY <1>1 DEF Init, Keyed, OneKey
<1>5. Based
  BY <1>1 DEF Init, Based
<1>6. Once
  BY <1>1 DEF Once, Single, Uncollected
<1>7. Forgotten
  BY <1>1 DEF Init, Forgotten
<1>8. Closing
  BY DEF Init, Closing, Drain
<1> QED BY <1>2, <1>3, <1>4, <1>5, <1>6, <1>7, <1>8 DEF IInv

\* A reload moves no increment.
LEMMA ReloadMCPKeeps ==
    ASSUME IInv, NEW S \in SUBSET Key, ReloadMCP(S)
    PROVE  IInv'
<1>u. UNCHANGED <<live, held, used, prev, queue, db>> /\ hold' = hold
  BY DEF ReloadMCP, recorders, flusher, mutex, closing
<1> USE DEF IInv
<1>1. TypeOK'
  BY <1>u, StatsAssumption DEF ReloadMCP, TypeOK, recorders, flusher, mutex, closing, Following, Drain, Pipe, Minute
<1>2. Placed'
  BY <1>u DEF Placed, Found
<1>3. Keyed'
  BY <1>u DEF Keyed
<1>4. Based'
  BY <1>u DEF Based
<1>5. Once'
  BY <1>u DEF Once, Single, Uncollected
<1>6. Forgotten'
  BY <1>u DEF ReloadMCP, Forgotten, recorders, flusher, mutex, closing
<1>7. Closing'
  BY <1>u DEF ReloadMCP, Closing, Uncollected, recorders, flusher, mutex, closing
<1> QED BY <1>1, <1>2, <1>3, <1>4, <1>5, <1>6, <1>7 DEF IInv

\* The end of a drain loop moves none.
LEMMA EndDrainKeeps ==
    ASSUME IInv, NEW p \in Pipe, EndDrain(p)
    PROVE  IInv'
<1>u. UNCHANGED <<live, held, used, prev, queue, db>> /\ hold \in Drain /\ hold' \in Drain
  BY DEF EndDrain, recorders, flusher, mutex, closing, Drain, Pipe, Following
<1> USE DEF IInv
<1>1. TypeOK'
  BY <1>u, StatsAssumption DEF EndDrain, TypeOK, recorders, flusher, mutex, closing, Following, Drain, Pipe, Minute
<1>2. Placed'
  BY <1>u DEF Placed, Found
<1>3. Keyed'
  BY <1>u DEF Keyed
<1>4. Based'
  BY <1>u DEF Based, Drain
<1>5. Once'
  BY <1>u DEF Once, Single, Uncollected, Drain
<1>6. Forgotten'
  BY <1>u DEF EndDrain, Forgotten, recorders, flusher, mutex, closing, Drain
<1>7. Closing'
  BY <1>u DEF EndDrain, Closing, Uncollected, recorders, flusher, mutex, closing, Drain, Pipe, Following
<1> QED BY <1>1, <1>2, <1>3, <1>4, <1>5, <1>6, <1>7 DEF IInv

\* The end of the retry window moves none.
LEMMA ExpireKeeps ==
    ASSUME IInv, Expire
    PROVE  IInv'
<1>u. UNCHANGED <<live, held, used, prev, queue, db>> /\ hold' = hold
  BY DEF Expire, recorders, flusher, mutex, closing
<1> USE DEF IInv
<1>1. TypeOK'
  BY <1>u, StatsAssumption DEF Expire, TypeOK, recorders, flusher, mutex, closing, Following, Drain, Pipe, Minute
<1>2. Placed'
  BY <1>u DEF Placed, Found
<1>3. Keyed'
  BY <1>u DEF Keyed
<1>4. Based'
  BY <1>u DEF Based
<1>5. Once'
  BY <1>u DEF Once, Single, Uncollected
<1>6. Forgotten'
  BY <1>u DEF Expire, Forgotten, recorders, flusher, mutex, closing
<1>7. Closing'
  BY <1>u DEF Expire, Closing, Uncollected, recorders, flusher, mutex, closing
<1> QED BY <1>1, <1>2, <1>3, <1>4, <1>5, <1>6, <1>7 DEF IInv

\* A cycle that gives up waiting moves none.
LEMMA SkipCycleKeeps ==
    ASSUME IInv, SkipCycle
    PROVE  IInv'
<1>u. UNCHANGED <<live, held, used, prev, queue, db>> /\ hold' = hold
  BY DEF SkipCycle, recorders, flusher, mutex, closing
<1> USE DEF IInv
<1>1. TypeOK'
  BY <1>u, StatsAssumption DEF SkipCycle, TypeOK, recorders, flusher, mutex, closing, Following, Drain, Pipe, Minute
<1>2. Placed'
  BY <1>u DEF Placed, Found
<1>3. Keyed'
  BY <1>u DEF Keyed
<1>4. Based'
  BY <1>u DEF Based
<1>5. Once'
  BY <1>u DEF Once, Single, Uncollected
<1>6. Forgotten'
  BY <1>u DEF SkipCycle, Forgotten, recorders, flusher, mutex, closing
<1>7. Closing'
  BY <1>u DEF SkipCycle, Closing, Uncollected, recorders, flusher, mutex, closing, Drain
<1> QED BY <1>1, <1>2, <1>3, <1>4, <1>5, <1>6, <1>7 DEF IInv

\* The check at the end of a cycle moves none: it closes the store only when
\* nothing is pending or the window is over.
LEMMA CheckPendingKeeps ==
    ASSUME IInv, CheckPending
    PROVE  IInv'
<1>u. UNCHANGED <<live, held, used, prev, queue, db>> /\ hold' = hold
  BY DEF CheckPending, recorders, flusher, mutex, closing
<1> USE DEF IInv
<1>1. TypeOK'
  BY <1>u, StatsAssumption DEF CheckPending, TypeOK, recorders, flusher, mutex, closing, Following, Drain, Pipe, Minute
<1>2. Placed'
  BY <1>u DEF Placed, Found
<1>3. Keyed'
  BY <1>u DEF Keyed
<1>4. Based'
  BY <1>u DEF Based
<1>5. Once'
  BY <1>u DEF Once, Single, Uncollected
<1>6. Forgotten'
  BY <1>u DEF CheckPending, Forgotten, recorders, flusher, mutex, closing
<1>7. Closing'
  BY <1>u DEF CheckPending, Closing, Uncollected, recorders, flusher, mutex, closing, Drain
<1> QED BY <1>1, <1>2, <1>3, <1>4, <1>5, <1>6, <1>7 DEF IInv

\* The shutdown begins, with nothing promised but what has been counted.
LEMMA StopKeeps ==
    ASSUME IInv, Stop
    PROVE  IInv'
<1>u. UNCHANGED <<live, held, used, prev, queue, db, hold>>
  BY DEF Stop, recorders, flusher, mutex, closing
<1> USE DEF IInv
<1>b. /\ before' \subseteq used \cup Legacy
      /\ before' \cap EventsOf(held) = {}
  <2>1. ASSUME NEW e \in before' PROVE \E p \in Pipe : e \in Found(p)
    <3> DEFINE A == UNION {EventsOf(live[p] \ prev[p]) : p \in {"provider", "agent"}}
               B == UNION {UNION {EventsOf(queue[p][i].deltas) : i \in DOMAIN queue[p]} : p \in Pipe}
    <3>1. CASE e \in A
      <4>1. \A p \in Pipe : EventsOf(live[p] \ prev[p]) \subseteq EventsOf(live[p])
        BY EventsPart
      <4> QED BY <3>1, <4>1 DEF Found, Pipe
    <3>2. CASE e \in B
      BY <3>2 DEF Found, EventsIn
    <3>3. before' = A \cup B
      BY DEF Stop
    <3> HIDE DEF A, B
    <3> QED BY <2>1, <3>1, <3>2, <3>3
  <2> QED BY <2>1 DEF Placed
<1>1. TypeOK'
  BY <1>u, <1>b, StatsAssumption DEF Stop, TypeOK, recorders, flusher, mutex, closing
<1>2. Placed'
  BY <1>u DEF Placed, Found
<1>3. Keyed'
  BY <1>u DEF Keyed
<1>4. Based'
  BY <1>u DEF Based
<1>5. Once'
  BY <1>u DEF Once, Single, Uncollected
<1>6. Forgotten'
  BY <1>u DEF Stop, Forgotten, recorders, flusher, mutex, closing
<1>7. Closing'
  BY <1>u, <1>b DEF Stop, Closing, Uncollected, recorders, flusher, mutex, closing, Drain
<1> QED BY <1>1, <1>2, <1>3, <1>4, <1>5, <1>6, <1>7 DEF IInv

\* A recorder that has found its entry holds a new increment.
LEMMA LookupKeeps ==
    ASSUME IInv, NEW e \in Event, NEW k \in Key, Lookup(e, k)
    PROVE  IInv'
<1> USE DEF IInv
<1>u. /\ UNCHANGED <<live, prev, queue, db>>
      /\ UNCHANGED <<hold, phase, stopper, expired, before, lastBucket, left, known>>
      /\ held' = held \cup {<<e, k>>} /\ used' = used \cup {e}
      /\ e \notin used \cup Legacy /\ phase # "down"
  BY DEF Lookup, Serving, recorders, flusher, mutex, closing
<1>v. /\ EventsOf(held') = EventsOf(held) \cup {e} /\ e \notin EventsOf(held)
      /\ held' \in SUBSET Entry /\ OneKey(held')
  <2>1. <<e, k>> \in Entry /\ OneKey({<<e, k>>}) /\ EventsOf({<<e, k>>}) = {e}
    BY EventsOfOne DEF Entry, Name, OneKey
  <2>2. e \notin EventsOf(held)
    BY <1>u DEF Placed
  <2>3. EventsOf(held') = EventsOf(held) \cup {e}
    BY <1>u, <2>1, EventsUnion
  <2>4. OneKey(held')
    <3>1. OneKey(held) /\ EventsOf(held) \cap EventsOf({<<e, k>>}) = {}
      BY <2>1, <2>2 DEF Keyed
    <3> QED BY <1>u, <2>1, <3>1, OneKeyUnion
  <2> QED BY <1>u, <2>1, <2>2, <2>3, <2>4 DEF TypeOK
<1>w. \A p \in Pipe : Found(p)' = Found(p) /\ Uncollected(p)' = Uncollected(p)
  BY <1>u DEF Found, Uncollected
<1>1. TypeOK'
  BY <1>u, <1>v, StatsAssumption DEF TypeOK
<1>2. Placed'
  <2>1. used' \cap Legacy = {} /\ EventsOf(held') \subseteq used'
    BY <1>u, <1>v DEF Placed
  <2>2. ASSUME NEW p \in Pipe, NEW f \in Found(p)'
        PROVE  PipeOf[f] = p /\ f \in used' \cup Legacy /\ f \notin EventsOf(held')
    <3>1. f \in Found(p) \/ f \in Found(p)' \ Found(p)
      BY <2>2
    <3>2. CASE f \in Found(p)
      <4>1. PipeOf[f] = p /\ f \in used \cup Legacy /\ f \notin EventsOf(held)
        BY <3>2 DEF Placed
      <4> QED BY <1>u, <1>v, <4>1
    <3>3. CASE f \in Found(p)' \ Found(p)
      BY <1>u, <1>v, <1>w, <3>3
    <3> QED BY <3>1, <3>2, <3>3
  <2> QED BY <2>1, <2>2 DEF Placed
<1>3. Keyed'
  BY <1>u, <1>v DEF Keyed
<1>4. Based'
  BY <1>u, <1>v DEF Based
<1>5. Once'
  <2>1. ASSUME NEW p \in Pipe, Single(p) PROVE Single(p)'
    BY <1>u, <1>v, <1>w, <2>1 DEF Single, Found
  <2> QED BY <1>u, <2>1 DEF Once, Drain
<1>6. Forgotten'
  BY <1>u, <1>v DEF Forgotten
<1>7. Closing'
  <2>1. before' \subseteq used' \cup Legacy /\ before' \cap EventsOf(held') = {}
    <3>1. before \subseteq used \cup Legacy /\ before \cap EventsOf(held) = {}
      BY DEF Closing
    <3> QED BY <1>u, <1>v, <3>1
  <2>2. \A p \in Pipe : before \cap Uncollected(p) = {} => before' \cap Uncollected(p)' = {}
    BY <1>u, <1>v, <1>w DEF Closing, Placed
  <2> QED BY <1>u, <2>1, <2>2 DEF Closing, Drain
<1> QED BY <1>1, <1>2, <1>3, <1>4, <1>5, <1>6, <1>7 DEF IInv

\* The add moves the increment from its holder to the counter.
LEMMA AddKeeps ==
    ASSUME IInv, NEW e \in Event, NEW k \in Key, Add(<<e, k>>)
    PROVE  IInv'
<1> USE DEF IInv
<1>u. /\ UNCHANGED <<used, prev, queue, db>>
      /\ UNCHANGED <<hold, phase, stopper, expired, before, lastBucket, left, known>>
      /\ held' = held \ {<<e, k>>} /\ <<e, k>> \in held
      /\ live' = [live EXCEPT ![PipeOf[e]] = live[PipeOf[e]] \cup {<<e, k>>}]
      /\ phase # "down"
  BY DEF Add, Serving, recorders, flusher, mutex, closing
<1>h. /\ EventsOf(held') = EventsOf(held) \ {e} /\ e \in EventsOf(held)
      /\ OneKey(held') /\ held' \subseteq held
  <2>1. e \in EventsOf(held)
    BY <1>u DEF EventsOf
  <2>2. {<<e, k>>} \subseteq held
    BY <1>u
  <2>3. EventsOf(held \ {<<e, k>>}) = EventsOf(held) \ EventsOf({<<e, k>>})
    BY <2>2, EventsDiff DEF Keyed
  <2>4. OneKey(held \ {<<e, k>>})
    BY OneKeyPart DEF Keyed
  <2> QED BY <1>u, <2>1, <2>3, <2>4, EventsOfOne
<1>a. e \in used /\ \A p \in Pipe : e \notin Found(p)
  BY <1>h DEF Placed
<1>v. \A p \in Pipe :
        /\ live[p] \subseteq live'[p] /\ live'[p] \in SUBSET Entry /\ OneKey(live'[p])
        /\ p = PipeOf[e] => EventsOf(live'[p]) = EventsOf(live[p]) \cup {e}
        /\ p # PipeOf[e] => EventsOf(live'[p]) = EventsOf(live[p])
  <2>1. <<e, k>> \in Entry /\ OneKey({<<e, k>>}) /\ EventsOf({<<e, k>>}) = {e}
    BY EventsOfOne DEF Entry, Name, OneKey
  <2>2. PipeOf[e] \in Pipe
    BY StatsAssumption
  <2> SUFFICES ASSUME NEW p \in Pipe
               PROVE  /\ live[p] \subseteq live'[p] /\ live'[p] \in SUBSET Entry /\ OneKey(live'[p])
                      /\ p = PipeOf[e] => EventsOf(live'[p]) = EventsOf(live[p]) \cup {e}
                      /\ p # PipeOf[e] => EventsOf(live'[p]) = EventsOf(live[p])
    OBVIOUS
  <2>3. OneKey(live[p]) /\ live[p] \in SUBSET Entry
    BY DEF Keyed, TypeOK
  <2>4. live'[p] = IF p = PipeOf[e] THEN live[p] \cup {<<e, k>>} ELSE live[p]
    BY <1>u, <2>2 DEF TypeOK
  <2>5. CASE p = PipeOf[e]
    <3>1. EventsOf(live'[p]) = EventsOf(live[p]) \cup {e}
      BY <2>1, <2>4, <2>5, EventsUnion
    <3>2. EventsOf(live[p]) \cap EventsOf({<<e, k>>}) = {}
      BY <1>a, <2>1 DEF Found
    <3>3. OneKey(live'[p])
      BY <2>1, <2>3, <2>4, <2>5, <3>2, OneKeyUnion
    <3> QED BY <2>1, <2>3, <2>4, <2>5, <3>1, <3>3
  <2>6. CASE p # PipeOf[e]
    BY <2>3, <2>4, <2>6
  <2> QED BY <2>5, <2>6
<1>w. \A p \in Pipe :
        /\ Found(p)' = IF p = PipeOf[e] THEN Found(p) \cup {e} ELSE Found(p)
        /\ Uncollected(p)' \subseteq Uncollected(p) \cup {e}
        /\ e \notin Found(p)
  BY <1>u, <1>v, <1>a DEF Found, Uncollected
<1>1. TypeOK'
  <2>1. live' \in [Pipe -> SUBSET Entry]
    BY <1>u, <1>v DEF TypeOK
  <2> QED BY <1>u, <1>h, <2>1, StatsAssumption DEF TypeOK
<1>2. Placed'
  <2>1. used' \cap Legacy = {} /\ EventsOf(held') \subseteq used'
    BY <1>u, <1>h DEF Placed
  <2>2. ASSUME NEW p \in Pipe, NEW f \in Found(p)'
        PROVE  PipeOf[f] = p /\ f \in used' \cup Legacy /\ f \notin EventsOf(held')
    <3>1. f \in Found(p) \/ f \in Found(p)' \ Found(p)
      BY <2>2
    <3>2. CASE f \in Found(p)
      <4>1. PipeOf[f] = p /\ f \in used \cup Legacy /\ f \notin EventsOf(held)
        BY <3>2 DEF Placed
      <4> QED BY <1>u, <1>h, <4>1
    <3>3. CASE f \in Found(p)' \ Found(p)
      <4>1. p = PipeOf[e] /\ f = e
        BY <1>w, <3>3
      <4> QED BY <1>u, <1>h, <1>a, <4>1
    <3> QED BY <3>1, <3>2, <3>3
  <2> QED BY <2>1, <2>2 DEF Placed
<1>3. Keyed'
  BY <1>u, <1>v, <1>h DEF Keyed
<1>4. Based'
  BY <1>u, <1>v DEF Based
<1>5. Once'
  <2>1. ASSUME NEW p \in Pipe, Single(p) PROVE Single(p)'
    BY <1>u, <1>v, <1>w, <2>1 DEF Single, Found
  <2> QED BY <1>u, <2>1 DEF Once, Drain
<1>6. Forgotten'
  BY <1>u, <1>v DEF Forgotten
<1>7. Closing'
  <2>1. before' \subseteq used' \cup Legacy /\ before' \cap EventsOf(held') = {}
    <3>1. before \subseteq used \cup Legacy /\ before \cap EventsOf(held) = {}
      BY DEF Closing
    <3> QED BY <1>u, <1>h, <3>1
  <2>2. \A p \in Pipe : before \cap Uncollected(p) = {} => before' \cap Uncollected(p)' = {}
    BY <1>u, <1>h, <1>w DEF Closing, Placed
  <2> QED BY <1>u, <2>1, <2>2 DEF Closing, Drain
<1> QED BY <1>1, <1>2, <1>3, <1>4, <1>5, <1>6, <1>7 DEF IInv

\* A counter that is found and bumped under one lock gains a new increment.
LEMMA MutateKeeps ==
    ASSUME IInv, NEW e \in Event, NEW k \in Key, Mutate(e, k)
    PROVE  IInv'
<1> USE DEF IInv
<1>u. /\ UNCHANGED <<held, prev, queue, db>>
      /\ UNCHANGED <<hold, phase, stopper, expired, before, lastBucket, left, known>>
      /\ used' = used \cup {e} /\ e \notin used \cup Legacy
      /\ live' = [live EXCEPT ![PipeOf[e]] = live[PipeOf[e]] \cup {<<e, k>>}]
      /\ phase # "down"
  BY DEF Mutate, Serving, recorders, flusher, mutex, closing
<1>a. e \notin EventsOf(held) /\ \A p \in Pipe : e \notin Found(p)
  BY <1>u DEF Placed
<1>v. \A p \in Pipe :
        /\ live[p] \subseteq live'[p] /\ live'[p] \in SUBSET Entry /\ OneKey(live'[p])
        /\ p = PipeOf[e] => EventsOf(live'[p]) = EventsOf(live[p]) \cup {e}
        /\ p # PipeOf[e] => EventsOf(live'[p]) = EventsOf(live[p])
  <2>1. <<e, k>> \in Entry /\ OneKey({<<e, k>>}) /\ EventsOf({<<e, k>>}) = {e}
    BY EventsOfOne DEF Entry, Name, OneKey
  <2>2. PipeOf[e] \in Pipe
    BY StatsAssumption
  <2> SUFFICES ASSUME NEW p \in Pipe
               PROVE  /\ live[p] \subseteq live'[p] /\ live'[p] \in SUBSET Entry /\ OneKey(live'[p])
                      /\ p = PipeOf[e] => EventsOf(live'[p]) = EventsOf(live[p]) \cup {e}
                      /\ p # PipeOf[e] => EventsOf(live'[p]) = EventsOf(live[p])
    OBVIOUS
  <2>3. OneKey(live[p]) /\ live[p] \in SUBSET Entry
    BY DEF Keyed, TypeOK
  <2>4. live'[p] = IF p = PipeOf[e] THEN live[p] \cup {<<e, k>>} ELSE live[p]
    BY <1>u, <2>2 DEF TypeOK
  <2>5. CASE p = PipeOf[e]
    <3>1. EventsOf(live'[p]) = EventsOf(live[p]) \cup {e}
      BY <2>1, <2>4, <2>5, EventsUnion
    <3>2. EventsOf(live[p]) \cap EventsOf({<<e, k>>}) = {}
      BY <1>a, <2>1 DEF Found
    <3>3. OneKey(live'[p])
      BY <2>1, <2>3, <2>4, <2>5, <3>2, OneKeyUnion
    <3> QED BY <2>1, <2>3, <2>4, <2>5, <3>1, <3>3
  <2>6. CASE p # PipeOf[e]
    BY <2>3, <2>4, <2>6
  <2> QED BY <2>5, <2>6
<1>w. \A p \in Pipe :
        /\ Found(p)' = IF p = PipeOf[e] THEN Found(p) \cup {e} ELSE Found(p)
        /\ Uncollected(p)' \subseteq Uncollected(p) \cup {e}
        /\ e \notin Found(p)
  BY <1>u, <1>v, <1>a DEF Found, Uncollected
<1>1. TypeOK'
  <2>1. live' \in [Pipe -> SUBSET Entry]
    BY <1>u, <1>v DEF TypeOK
  <2> QED BY <1>u, <2>1, StatsAssumption DEF TypeOK
<1>2. Placed'
  <2>1. used' \cap Legacy = {} /\ EventsOf(held') \subseteq used'
    BY <1>u DEF Placed
  <2>2. ASSUME NEW p \in Pipe, NEW f \in Found(p)'
        PROVE  PipeOf[f] = p /\ f \in used' \cup Legacy /\ f \notin EventsOf(held')
    <3>1. f \in Found(p) \/ f \in Found(p)' \ Found(p)
      BY <2>2
    <3>2. CASE f \in Found(p)
      <4>1. PipeOf[f] = p /\ f \in used \cup Legacy /\ f \notin EventsOf(held)
        BY <3>2 DEF Placed
      <4> QED BY <1>u, <4>1
    <3>3. CASE f \in Found(p)' \ Found(p)
      BY <1>u, <1>a, <1>w, <3>3
    <3> QED BY <3>1, <3>2, <3>3
  <2> QED BY <2>1, <2>2 DEF Placed
<1>3. Keyed'
  BY <1>u, <1>v DEF Keyed
<1>4. Based'
  BY <1>u, <1>v DEF Based
<1>5. Once'
  <2>1. ASSUME NEW p \in Pipe, Single(p) PROVE Single(p)'
    BY <1>u, <1>v, <1>w, <2>1 DEF Single, Found
  <2> QED BY <1>u, <2>1 DEF Once, Drain
<1>6. Forgotten'
  BY <1>u, <1>v DEF Forgotten
<1>7. Closing'
  <2>1. before' \subseteq used' \cup Legacy /\ before' \cap EventsOf(held') = {}
    <3>1. before \subseteq used \cup Legacy /\ before \cap EventsOf(held) = {}
      BY DEF Closing
    <3> QED BY <1>u, <1>a, <3>1
  <2>2. \A p \in Pipe : before \cap Uncollected(p) = {} => before' \cap Uncollected(p)' = {}
    BY <1>u, <1>w DEF Closing, Placed
  <2> QED BY <1>u, <2>1, <2>2 DEF Closing, Drain
<1> QED BY <1>1, <1>2, <1>3, <1>4, <1>5, <1>6, <1>7 DEF IInv

\* What a cycle collects: entries beyond the baseline, each a new one to the
\* backlog.
LEMMA CollectView ==
    ASSUME IInv, NEW now \in Nat, Collect(now), NEW p \in Pipe
    PROVE  /\ queue'[p] \in Seq(Batch) /\ Apart(queue'[p]) /\ Clean(queue'[p])
           /\ EventsIn(queue'[p]) \subseteq EventsIn(queue[p]) \cup EventsOf(Diff(p))
           /\ p # "mcp" => EventsIn(queue'[p]) = EventsIn(queue[p]) \cup EventsOf(Diff(p))
           /\ EventsOf(Diff(p)) \subseteq Uncollected(p)
<1> USE DEF IInv
<1> DEFINE b == [minute |-> BucketFor(now), deltas |-> Diff(p)]
<1>1. /\ live[p] \in SUBSET Entry /\ prev[p] \in SUBSET Entry /\ queue[p] \in Seq(Batch)
      /\ OneKey(live[p]) /\ Clean(queue[p])
  BY DEF TypeOK, Keyed
<1>2. hold = "free"
  BY DEF Collect
<1>3. prev[p] \subseteq live[p] /\ Single(p)
  BY <1>2 DEF Based, Once
<1>4. Diff(p) \subseteq live[p] \ prev[p]
  BY DEF Diff, DiffMCP, DiffCounters
<1>5. EventsOf(Diff(p)) \subseteq Uncollected(p)
  <2>1. EventsOf(live[p] \ prev[p]) = Uncollected(p)
    BY <1>1, <1>3, EventsDiff DEF Uncollected
  <2> QED BY <1>4, <2>1, EventsPart
<1>6. OneKey(Diff(p)) /\ Diff(p) \in SUBSET Entry
  <2>1. Diff(p) \subseteq live[p]
    BY <1>4
  <2> QED BY <1>1, <2>1, OneKeyPart
<1>7. EventsIn(queue[p]) \cap EventsOf(Diff(p)) = {}
  BY <1>3, <1>5 DEF Single
<1>8. PICK last \in Nameless :
        queue'[p] = IF Diff(p) = {} THEN queue[p] ELSE Enqueue(p, queue[p], b, last)
  BY LastingIsNameless DEF Collect
<1>9. b \in Batch /\ b.deltas = Diff(p)
  <2>1. BucketFor(now) \in Nat
    BY DEF BucketFor, TypeOK, Minute
  <2> QED BY <1>6, <2>1 DEF Batch, Entry, Minute
<1> HIDE DEF b
<1>10. CASE Diff(p) = {}
  BY <1>1, <1>3, <1>5, <1>8, <1>10, EventsNone DEF Single
<1>11. CASE Diff(p) # {}
  <2>1. Apart(queue[p])
    BY <1>3 DEF Single
  <2> DEFINE r == Enqueue(p, queue[p], b, last)
  <2>2. /\ r \in Seq(Batch) /\ Apart(r) /\ Clean(r)
        /\ EventsIn(r) \subseteq EventsIn(queue[p]) \cup EventsOf(Diff(p))
        /\ p # "mcp" => EventsIn(r) = EventsIn(queue[p]) \cup EventsOf(Diff(p))
    <3>1. /\ OneKey(b.deltas) /\ EventsIn(queue[p]) \cap EventsOf(b.deltas) = {}
          /\ b \in Batch /\ queue[p] \in Seq(Batch) /\ Clean(queue[p]) /\ last \in Nameless
      BY <1>1, <1>6, <1>7, <1>8, <1>9
    <3> HIDE DEF r
    <3>2. /\ r \in Seq(Batch) /\ Apart(r) /\ Clean(r)
          /\ EventsIn(r) \subseteq EventsIn(queue[p]) \cup EventsOf(b.deltas)
          /\ p # "mcp" => EventsIn(r) = EventsIn(queue[p]) \cup EventsOf(b.deltas)
      BY <2>1, <3>1, EnqueueKeeps, Zenon DEF r
    <3> QED BY <1>9, <3>2
  <2> QED BY <1>5, <1>8, <1>11, <2>2
<1> QED BY <1>10, <1>11

\* A cycle collects what is new and moves the baselines past it.
LEMMA CollectKeeps ==
    ASSUME IInv, NEW now \in Nat, Collect(now)
    PROVE  IInv'
<1> USE DEF IInv
<1>u. /\ UNCHANGED <<live, held, used, db, known, phase, expired, before>>
      /\ prev' = live /\ hold = "free" /\ hold' = "provider" /\ left' = MaxPerFlush
      /\ lastBucket' \in Nat
      /\ \/ phase = "up" /\ stopper' = stopper
         \/ phase = "stopping" /\ stopper = "cycle" /\ stopper' = "busy"
  BY DEF Collect, recorders, BucketFor, TypeOK, Minute
<1>v. \A p \in Pipe :
        /\ queue'[p] \in Seq(Batch) /\ Apart(queue'[p]) /\ Clean(queue'[p])
        /\ EventsIn(queue'[p]) \subseteq EventsIn(queue[p]) \cup Uncollected(p)
  BY CollectView
<1>w. \A p \in Pipe : Found(p)' \subseteq Found(p) /\ Uncollected(p)' = {}
  BY <1>u, <1>v DEF Found, Uncollected
<1>1. TypeOK'
  <2>1. queue' \in [Pipe -> Seq(Batch)]
    <3>1. DOMAIN queue' = Pipe /\ queue' = [p \in Pipe |-> queue'[p]]
      BY DEF Collect
    <3> QED BY <1>v, <3>1
  <2> QED BY <1>u, <2>1, StatsAssumption DEF TypeOK, Drain, Minute
<1>2. Placed'
  <2>1. used' \cap Legacy = {} /\ EventsOf(held') \subseteq used'
    BY <1>u DEF Placed
  <2>2. ASSUME NEW p \in Pipe, NEW f \in Found(p)'
        PROVE  PipeOf[f] = p /\ f \in used' \cup Legacy /\ f \notin EventsOf(held')
    <3>1. f \in Found(p)
      BY <1>w, <2>2
    <3> QED BY <1>u, <3>1 DEF Placed
  <2> QED BY <2>1, <2>2 DEF Placed
<1>3. Keyed'
  BY <1>u, <1>v DEF Keyed
<1>4. Based'
  BY <1>u DEF Based
<1>5. Once'
  <2>1. ASSUME NEW p \in Pipe PROVE Single(p)'
    <3>1. Single(p)
      BY <1>u DEF Once
    <3>2. EventsIn(queue'[p]) \cap EventsOf(db[p]) = {}
      BY <1>v, <3>1 DEF Single
    <3> QED BY <1>u, <1>v, <1>w, <3>2 DEF Single
  <2> QED BY <2>1 DEF Once
<1>6. Forgotten'
  BY <1>u DEF Forgotten
<1>7. Closing'
  <2>1. before' \subseteq used' \cup Legacy /\ before' \cap EventsOf(held') = {}
    BY <1>u DEF Closing
  <2> QED BY <1>u, <1>w, <2>1 DEF Closing, Drain
<1> QED BY <1>1, <1>2, <1>3, <1>4, <1>5, <1>6, <1>7 DEF IInv

\* A batch that is written moves its increments to the rows.
LEMMA FlushBatchKeeps ==
    ASSUME IInv, NEW q \in Pipe, FlushBatch(q)
    PROVE  IInv'
<1> USE DEF IInv
<1>u. /\ UNCHANGED <<live, held, used, prev, lastBucket, hold, known, phase, stopper, expired, before>>
      /\ hold \in Drain /\ left > 0 /\ left' = left - 1
      /\ queue[q] # <<>>
      /\ db' = [db EXCEPT ![q] = FlushContext(db[q], Head(queue[q]))]
      /\ queue' = [queue EXCEPT ![q] = Tail(queue[q])]
  BY DEF FlushBatch, recorders, closing, Drain, Pipe
<1>s. \A p \in Pipe : Single(p)
  BY <1>u DEF Once, Drain
<1>v. \A p \in Pipe :
        /\ queue'[p] \in Seq(Batch) /\ Apart(queue'[p]) /\ Clean(queue'[p])
        /\ db'[p] \in SUBSET Row /\ OneKey(db'[p])
        /\ \E S \in SUBSET EventsIn(queue[p]) :
             /\ EventsIn(queue'[p]) = EventsIn(queue[p]) \ S
             /\ EventsOf(db'[p]) = EventsOf(db[p]) \cup S
  <2> SUFFICES ASSUME NEW p \in Pipe
               PROVE  /\ queue'[p] \in Seq(Batch) /\ Apart(queue'[p]) /\ Clean(queue'[p])
                      /\ db'[p] \in SUBSET Row /\ OneKey(db'[p])
                      /\ \E S \in SUBSET EventsIn(queue[p]) :
                           /\ EventsIn(queue'[p]) = EventsIn(queue[p]) \ S
                           /\ EventsOf(db'[p]) = EventsOf(db[p]) \cup S
    OBVIOUS
  <2>1. /\ queue[p] \in Seq(Batch) /\ db[p] \in SUBSET Row
        /\ Clean(queue[p]) /\ OneKey(db[p]) /\ Apart(queue[p])
        /\ EventsIn(queue[p]) \cap EventsOf(db[p]) = {}
    BY <1>s DEF TypeOK, Keyed, Single
  <2>2. CASE p = q
    <3>1. queue'[p] = Tail(queue[p]) /\ db'[p] = FlushContext(db[p], Head(queue[p]))
      BY <1>u, <2>2 DEF TypeOK
    <3>2. /\ Head(queue[p]) \in Batch /\ OneKey(Head(queue[p]).deltas)
          /\ EventsOf(Head(queue[p]).deltas) \subseteq EventsIn(queue[p])
          /\ queue'[p] \in Seq(Batch) /\ Apart(queue'[p]) /\ Clean(queue'[p])
          /\ EventsIn(queue'[p]) = EventsIn(queue[p]) \ EventsOf(Head(queue[p]).deltas)
      BY <1>u, <2>1, <2>2, <3>1, TailKeeps
    <3>3. EventsOf(db[p]) \cap EventsOf(Head(queue[p]).deltas) = {}
      BY <2>1, <3>2
    <3>4. /\ db'[p] \in SUBSET Row /\ OneKey(db'[p])
          /\ EventsOf(db'[p]) = EventsOf(db[p]) \cup EventsOf(Head(queue[p]).deltas)
      BY <2>1, <3>1, <3>2, <3>3, FlushKeeps
    <3> QED BY <3>2, <3>4
  <2>3. CASE p # q
    <3>1. queue'[p] = queue[p] /\ db'[p] = db[p]
      BY <1>u, <2>3 DEF TypeOK
    <3>2. /\ {} \in SUBSET EventsIn(queue[p])
          /\ EventsIn(queue'[p]) = EventsIn(queue[p]) \ {}
          /\ EventsOf(db'[p]) = EventsOf(db[p]) \cup {}
      BY <3>1
    <3> QED BY <2>1, <3>1, <3>2
  <2> QED BY <2>2, <2>3
<1>w. \A p \in Pipe : Found(p)' = Found(p) /\ Uncollected(p)' = Uncollected(p)
  <2> SUFFICES ASSUME NEW p \in Pipe PROVE Found(p)' = Found(p) /\ Uncollected(p)' = Uncollected(p)
    OBVIOUS
  <2>1. PICK S \in SUBSET EventsIn(queue[p]) :
             /\ EventsIn(queue'[p]) = EventsIn(queue[p]) \ S
             /\ EventsOf(db'[p]) = EventsOf(db[p]) \cup S
    BY <1>v
  <2> QED BY <1>u, <2>1 DEF Found, Uncollected
<1>1. TypeOK'
  <2>1. queue' \in [Pipe -> Seq(Batch)] /\ db' \in [Pipe -> SUBSET Row]
    BY <1>u, <1>v DEF TypeOK
  <2>2. left' \in Nat
    BY <1>u DEF TypeOK
  <2> QED BY <1>u, <2>1, <2>2 DEF TypeOK
<1>2. Placed'
  <2>1. used' \cap Legacy = {} /\ EventsOf(held') \subseteq used'
    BY <1>u DEF Placed
  <2>2. ASSUME NEW p \in Pipe, NEW f \in Found(p)'
        PROVE  PipeOf[f] = p /\ f \in used' \cup Legacy /\ f \notin EventsOf(held')
    <3>1. f \in Found(p)
      BY <1>w, <2>2
    <3> QED BY <1>u, <3>1 DEF Placed
  <2> QED BY <2>1, <2>2 DEF Placed
<1>3. Keyed'
  BY <1>u, <1>v DEF Keyed
<1>4. Based'
  BY <1>u DEF Based
<1>5. Once'
  <2>1. ASSUME NEW p \in Pipe PROVE Single(p)'
    <3>1. PICK S \in SUBSET EventsIn(queue[p]) :
             /\ EventsIn(queue'[p]) = EventsIn(queue[p]) \ S
             /\ EventsOf(db'[p]) = EventsOf(db[p]) \cup S
      BY <1>v
    <3> QED BY <1>s, <1>v, <1>w, <3>1 DEF Single
  <2> QED BY <2>1 DEF Once
<1>6. Forgotten'
  BY <1>u DEF Forgotten, Drain
<1>7. Closing'
  <2>1. before' \subseteq used' \cup Legacy /\ before' \cap EventsOf(held') = {}
    BY <1>u DEF Closing
  <2> QED BY <1>u, <1>w, <2>1 DEF Closing, Drain
<1> QED BY <1>1, <1>2, <1>3, <1>4, <1>5, <1>6, <1>7 DEF IInv

\* Pruning takes rows away.
LEMMA PruneKeeps ==
    ASSUME IInv, NEW cutoff \in Nat, Prune(cutoff)
    PROVE  IInv'
<1> USE DEF IInv
<1>u. /\ UNCHANGED <<live, held, used, prev, queue, lastBucket, known, phase, expired, before>>
      /\ hold = "prune" /\ hold' = "free" /\ left' = 0
      /\ stopper' = IF stopper = "busy" THEN "check" ELSE stopper
      /\ db' = [p \in Pipe |-> {r \in db[p] : r[3] >= cutoff}]
  BY DEF Prune, recorders, flusher
<1>v. \A p \in Pipe : /\ db'[p] \in SUBSET Row /\ OneKey(db'[p])
                     /\ EventsOf(db'[p]) \subseteq EventsOf(db[p])
  <2> SUFFICES ASSUME NEW p \in Pipe
               PROVE  /\ db'[p] \in SUBSET Row /\ OneKey(db'[p])
                      /\ EventsOf(db'[p]) \subseteq EventsOf(db[p])
    OBVIOUS
  <2>1. db'[p] \subseteq db[p]
    BY <1>u
  <2>2. db[p] \in SUBSET Row /\ OneKey(db[p])
    BY DEF TypeOK, Keyed
  <2> QED BY <2>1, <2>2, OneKeyPart, EventsPart
<1>w. \A p \in Pipe : Found(p)' \subseteq Found(p)
  BY <1>u, <1>v DEF Found
<1>1. TypeOK'
  <2>1. db' \in [Pipe -> SUBSET Row]
    BY <1>u, <1>v
  <2> QED BY <1>u, <2>1 DEF TypeOK
<1>2. Placed'
  <2>1. used' \cap Legacy = {} /\ EventsOf(held') \subseteq used'
    BY <1>u DEF Placed
  <2>2. ASSUME NEW p \in Pipe, NEW f \in Found(p)'
        PROVE  PipeOf[f] = p /\ f \in used' \cup Legacy /\ f \notin EventsOf(held')
    <3>1. f \in Found(p)
      BY <1>w, <2>2
    <3> QED BY <1>u, <3>1 DEF Placed
  <2> QED BY <2>1, <2>2 DEF Placed
<1>3. Keyed'
  BY <1>u, <1>v DEF Keyed
<1>4. Based'
  BY <1>u DEF Based
<1>5. Once'
  <2>1. ASSUME NEW p \in Pipe, Single(p) PROVE Single(p)'
    BY <1>u, <1>v, <2>1 DEF Single, Uncollected
  <2> QED BY <1>u, <2>1 DEF Once
<1>6. Forgotten'
  BY <1>u DEF Forgotten
<1>7. Closing'
  <2>1. before' \subseteq used' \cup Legacy /\ before' \cap EventsOf(held') = {}
    BY <1>u DEF Closing
  <2>2. \A p \in Pipe : Uncollected(p)' = Uncollected(p)
    BY <1>u, <1>v DEF Uncollected
  <2> QED BY <1>u, <2>1, <2>2 DEF Closing, Drain
<1> QED BY <1>1, <1>2, <1>3, <1>4, <1>5, <1>6, <1>7 DEF IInv

\* A reset empties the rows first.
LEMMA ResetStoreKeeps ==
    ASSUME IInv, ResetStore
    PROVE  IInv'
<1> USE DEF IInv
<1>u. /\ UNCHANGED <<live, held, used, prev, queue, lastBucket, left, known, phase, stopper, expired, before>>
      /\ phase = "up" /\ hold = "free" /\ hold' = "reset"
      /\ db' = [p \in Pipe |-> {}]
  BY DEF ResetStore, recorders, flusher, mutex, closing, Empty
<1>v. \A p \in Pipe : db'[p] = {} /\ EventsOf(db'[p]) = {}
  BY <1>u, EventsNone
<1>w. \A p \in Pipe : Found(p)' \subseteq Found(p)
  BY <1>u, <1>v DEF Found
<1>1. TypeOK'
  BY <1>u DEF TypeOK
<1>2. Placed'
  <2>1. used' \cap Legacy = {} /\ EventsOf(held') \subseteq used'
    BY <1>u DEF Placed
  <2>2. ASSUME NEW p \in Pipe, NEW f \in Found(p)'
        PROVE  PipeOf[f] = p /\ f \in used' \cup Legacy /\ f \notin EventsOf(held')
    <3>1. f \in Found(p)
      BY <1>w, <2>2
    <3> QED BY <1>u, <3>1 DEF Placed
  <2> QED BY <2>1, <2>2 DEF Placed
<1>3. Keyed'
  BY <1>u, <1>v DEF Keyed, OneKey
<1>4. Based'
  BY <1>u DEF Based
<1>5. Once'
  BY <1>u DEF Once
<1>6. Forgotten'
  BY <1>u DEF Forgotten
<1>7. Closing'
  <2>1. before' \subseteq used' \cup Legacy /\ before' \cap EventsOf(held') = {}
    BY <1>u DEF Closing
  <2>2. \A p \in Pipe : Uncollected(p)' = Uncollected(p)
    BY <1>u, <1>v DEF Uncollected
  <2> QED BY <1>u, <2>1, <2>2 DEF Closing, Drain
<1> QED BY <1>1, <1>2, <1>3, <1>4, <1>5, <1>6, <1>7 DEF IInv

\* Then the counters; who holds an entry of them is detached.
LEMMA ResetCountersKeeps ==
    ASSUME IInv, ResetCounters
    PROVE  IInv'
<1> USE DEF IInv
<1>u. /\ UNCHANGED <<used, prev, queue, db, lastBucket, left, known, phase, stopper, expired, before>>
      /\ hold = "reset" /\ hold' = "rebase"
      /\ live' = [p \in Pipe |-> {}] /\ held' = {}
  BY DEF ResetCounters, recorders, flusher, mutex, closing, Empty
<1>v. /\ \A p \in Pipe : live'[p] = {} /\ EventsOf(live'[p]) = {}
      /\ EventsOf(held') = {} /\ OneKey(held')
  BY <1>u, EventsNone DEF OneKey
<1>w. \A p \in Pipe : Found(p)' \subseteq Found(p)
  BY <1>u, <1>v DEF Found
<1>1. TypeOK'
  BY <1>u DEF TypeOK
<1>2. Placed'
  <2>1. used' \cap Legacy = {} /\ EventsOf(held') \subseteq used'
    BY <1>u, <1>v DEF Placed
  <2>2. ASSUME NEW p \in Pipe, NEW f \in Found(p)'
        PROVE  PipeOf[f] = p /\ f \in used' \cup Legacy /\ f \notin EventsOf(held')
    <3>1. f \in Found(p)
      BY <1>w, <2>2
    <3> QED BY <1>u, <1>v, <3>1 DEF Placed
  <2> QED BY <2>1, <2>2 DEF Placed
<1>3. Keyed'
  BY <1>u, <1>v DEF Keyed, OneKey
<1>4. Based'
  BY <1>u DEF Based
<1>5. Once'
  BY <1>u DEF Once
<1>6. Forgotten'
  BY <1>u DEF Forgotten
<1>7. Closing'
  <2>1. before' \subseteq used' \cup Legacy /\ before' \cap EventsOf(held') = {}
    BY <1>u, <1>v DEF Closing
  <2>2. \A p \in Pipe : Uncollected(p)' \subseteq Uncollected(p)
    BY <1>u, <1>v DEF Uncollected
  <2> QED BY <1>u, <2>1, <2>2 DEF Closing, Drain
<1> QED BY <1>1, <1>2, <1>3, <1>4, <1>5, <1>6, <1>7 DEF IInv

\* Then the backlog; the new baselines are what has been counted since.
LEMMA ResetBaselineKeeps ==
    ASSUME IInv, ResetBaseline
    PROVE  IInv'
<1> USE DEF IInv
<1>u. /\ UNCHANGED <<live, held, used, db, left, known, phase, stopper, expired, before>>
      /\ hold = "rebase" /\ hold' = "free" /\ lastBucket' = 0
      /\ prev' = live /\ queue' = [p \in Pipe |-> <<>>]
  BY DEF ResetBaseline, recorders, flusher, mutex, closing
<1>v. \A p \in Pipe : /\ queue'[p] = <<>> /\ queue'[p] \in Seq(Batch) /\ EventsIn(queue'[p]) = {}
                     /\ Apart(queue'[p]) /\ Clean(queue'[p])
  BY <1>u, EmptyBacklog
<1>w. \A p \in Pipe : Found(p)' \subseteq Found(p) /\ Uncollected(p)' = {}
  BY <1>u, <1>v DEF Found, Uncollected
<1>1. TypeOK'
  BY <1>u, EmptyBacklog DEF TypeOK, Minute
<1>2. Placed'
  <2>1. used' \cap Legacy = {} /\ EventsOf(held') \subseteq used'
    BY <1>u DEF Placed
  <2>2. ASSUME NEW p \in Pipe, NEW f \in Found(p)'
        PROVE  PipeOf[f] = p /\ f \in used' \cup Legacy /\ f \notin EventsOf(held')
    <3>1. f \in Found(p)
      BY <1>w, <2>2
    <3> QED BY <1>u, <3>1 DEF Placed
  <2> QED BY <2>1, <2>2 DEF Placed
<1>3. Keyed'
  BY <1>u, <1>v DEF Keyed
<1>4. Based'
  BY <1>u DEF Based
<1>5. Once'
  BY <1>u, <1>v, <1>w DEF Once, Single
<1>6. Forgotten'
  BY <1>u DEF Forgotten
<1>7. Closing'
  <2>1. before' \subseteq used' \cup Legacy /\ before' \cap EventsOf(held') = {}
    BY <1>u DEF Closing
  <2> QED BY <1>u, <1>w, <2>1 DEF Closing, Drain
<1> QED BY <1>1, <1>2, <1>3, <1>4, <1>5, <1>6, <1>7 DEF IInv

\* A rename changes the rows first.
LEMMA RenameStoreKeeps ==
    ASSUME IInv, RenameStore
    PROVE  IInv'
<1> USE DEF IInv
<1>u. /\ UNCHANGED <<live, held, used, prev, queue, lastBucket, left, known, phase, stopper, expired, before>>
      /\ phase = "up" /\ hold = "free" /\ hold' = "adopt"
      /\ db' = [p \in Pipe |-> IF p = "mcp" THEN db[p] ELSE RekeyRows(db[p])]
  BY DEF RenameStore, OnProviderKeys, recorders, flusher, mutex, closing
<1>v. \A p \in Pipe : /\ db'[p] \in SUBSET Row /\ OneKey(db'[p])
                     /\ EventsOf(db'[p]) = EventsOf(db[p])
  <2> SUFFICES ASSUME NEW p \in Pipe
               PROVE  /\ db'[p] \in SUBSET Row /\ OneKey(db'[p])
                      /\ EventsOf(db'[p]) = EventsOf(db[p])
    OBVIOUS
  <2>1. db[p] \in SUBSET Row /\ OneKey(db[p])
    BY DEF TypeOK, Keyed
  <2>2. db'[p] = db[p] \/ db'[p] = RekeyRows(db[p])
    BY <1>u
  <2> QED BY <2>1, <2>2, RekeyRowsKeeps
<1>w. \A p \in Pipe : Found(p)' \subseteq Found(p)
  BY <1>u, <1>v DEF Found
<1>1. TypeOK'
  <2>1. db' \in [Pipe -> SUBSET Row]
    BY <1>u, <1>v
  <2> QED BY <1>u, <2>1 DEF TypeOK
<1>2. Placed'
  <2>1. used' \cap Legacy = {} /\ EventsOf(held') \subseteq used'
    BY <1>u DEF Placed
  <2>2. ASSUME NEW p \in Pipe, NEW f \in Found(p)'
        PROVE  PipeOf[f] = p /\ f \in used' \cup Legacy /\ f \notin EventsOf(held')
    <3>1. f \in Found(p)
      BY <1>w, <2>2
    <3> QED BY <1>u, <3>1 DEF Placed
  <2> QED BY <2>1, <2>2 DEF Placed
<1>3. Keyed'
  BY <1>u, <1>v DEF Keyed
<1>4. Based'
  BY <1>u DEF Based
<1>5. Once'
  <2>1. ASSUME NEW p \in Pipe, Single(p) PROVE Single(p)'
    BY <1>u, <1>v, <2>1 DEF Single, Uncollected
  <2> QED BY <1>u, <2>1 DEF Once
<1>6. Forgotten'
  BY <1>u DEF Forgotten
<1>7. Closing'
  <2>1. before' \subseteq used' \cup Legacy /\ before' \cap EventsOf(held') = {}
    BY <1>u DEF Closing
  <2>2. \A p \in Pipe : Uncollected(p)' = Uncollected(p)
    BY <1>u, <1>v DEF Uncollected
  <2> QED BY <1>u, <2>1, <2>2 DEF Closing, Drain
<1> QED BY <1>1, <1>2, <1>3, <1>4, <1>5, <1>6, <1>7 DEF IInv

\* Then the counters; who holds a renamed entry is detached.
LEMMA AdoptKeeps ==
    ASSUME IInv, Adopt
    PROVE  IInv'
<1> USE DEF IInv
<1>u. /\ UNCHANGED <<used, prev, queue, db, lastBucket, left, known, phase, stopper, expired, before>>
      /\ hold = "adopt" /\ hold' = "rekey"
      /\ live' = [p \in Pipe |-> IF p = "mcp" THEN live[p] ELSE RekeyEntries(live[p])]
      /\ held' \subseteq held
  BY DEF Adopt, OnProviderKeys, recorders, flusher, mutex, closing
<1>v. \A p \in Pipe : /\ live'[p] \in SUBSET Entry /\ OneKey(live'[p])
                     /\ EventsOf(live'[p]) = EventsOf(live[p])
  <2> SUFFICES ASSUME NEW p \in Pipe
               PROVE  /\ live'[p] \in SUBSET Entry /\ OneKey(live'[p])
                      /\ EventsOf(live'[p]) = EventsOf(live[p])
    OBVIOUS
  <2>1. live[p] \in SUBSET Entry /\ OneKey(live[p])
    BY DEF TypeOK, Keyed
  <2>2. live'[p] = live[p] \/ live'[p] = RekeyEntries(live[p])
    BY <1>u
  <2> QED BY <2>1, <2>2, RekeyEntriesKeeps
<1>w. \A p \in Pipe : Found(p)' \subseteq Found(p)
  BY <1>u, <1>v DEF Found
<1>h. EventsOf(held') \subseteq EventsOf(held) /\ OneKey(held')
  BY <1>u, EventsPart, OneKeyPart DEF Keyed
<1>1. TypeOK'
  <2>1. live' \in [Pipe -> SUBSET Entry]
    BY <1>u, <1>v
  <2> QED BY <1>u, <2>1 DEF TypeOK
<1>2. Placed'
  <2>1. used' \cap Legacy = {} /\ EventsOf(held') \subseteq used'
    BY <1>u, <1>h DEF Placed
  <2>2. ASSUME NEW p \in Pipe, NEW f \in Found(p)'
        PROVE  PipeOf[f] = p /\ f \in used' \cup Legacy /\ f \notin EventsOf(held')
    <3>1. f \in Found(p)
      BY <1>w, <2>2
    <3> QED BY <1>u, <1>h, <3>1 DEF Placed
  <2> QED BY <2>1, <2>2 DEF Placed
<1>3. Keyed'
  BY <1>u, <1>v, <1>h DEF Keyed
<1>4. Based'
  <2>1. ASSUME NEW p \in Pipe
        PROVE  (IF p = "mcp" THEN prev[p] ELSE RekeyEntries(prev[p])) \subseteq live'[p]
    <3>1. prev[p] \subseteq live[p]
      BY <1>u DEF Based
    <3>2. RekeyEntries(prev[p]) \subseteq RekeyEntries(live[p])
      BY <3>1 DEF RekeyEntries
    <3> QED BY <1>u, <3>1, <3>2
  <2> QED BY <1>u, <2>1 DEF Based
<1>5. Once'
  <2>1. ASSUME NEW p \in Pipe, Single(p) PROVE Single(p)'
    BY <1>u, <1>v, <2>1 DEF Single, Uncollected
  <2> QED BY <1>u, <2>1 DEF Once
<1>6. Forgotten'
  BY <1>u DEF Forgotten
<1>7. Closing'
  <2>1. EventsOf(held') \subseteq EventsOf(held)
    BY <1>u, EventsPart
  <2>2. before' \subseteq used' \cup Legacy /\ before' \cap EventsOf(held') = {}
    BY <1>u, <2>1 DEF Closing
  <2>3. \A p \in Pipe : Uncollected(p)' = Uncollected(p)
    BY <1>u, <1>v DEF Uncollected
  <2> QED BY <1>u, <2>2, <2>3 DEF Closing, Drain
<1> QED BY <1>1, <1>2, <1>3, <1>4, <1>5, <1>6, <1>7 DEF IInv

\* Then the baselines and the backlog.
LEMMA RekeyBaselineKeeps ==
    ASSUME IInv, RekeyBaseline
    PROVE  IInv'
<1> USE DEF IInv
<1>u. /\ UNCHANGED <<live, held, used, db, lastBucket, left, known, phase, stopper, expired, before>>
      /\ hold = "rekey" /\ hold' = "free"
      /\ prev' = [p \in Pipe |-> IF p = "mcp" THEN prev[p] ELSE RekeyEntries(prev[p])]
      /\ queue' = [p \in Pipe |-> IF p = "mcp" THEN queue[p] ELSE RekeyBatches(queue[p])]
  BY DEF RekeyBaseline, OnProviderKeys, recorders, flusher, mutex, closing
<1>v. \A p \in Pipe :
        /\ prev'[p] \in SUBSET Entry /\ EventsOf(prev'[p]) = EventsOf(prev[p])
        /\ queue'[p] \in Seq(Batch) /\ Clean(queue'[p])
        /\ EventsIn(queue'[p]) = EventsIn(queue[p])
        /\ Apart(queue[p]) => Apart(queue'[p])
  <2> SUFFICES ASSUME NEW p \in Pipe
               PROVE  /\ prev'[p] \in SUBSET Entry /\ EventsOf(prev'[p]) = EventsOf(prev[p])
                      /\ queue'[p] \in Seq(Batch) /\ Clean(queue'[p])
                      /\ EventsIn(queue'[p]) = EventsIn(queue[p])
                      /\ Apart(queue[p]) => Apart(queue'[p])
    OBVIOUS
  <2>1. prev[p] \in SUBSET Entry /\ queue[p] \in Seq(Batch) /\ Clean(queue[p])
    BY DEF TypeOK, Keyed
  <2>2. prev'[p] = prev[p] \/ prev'[p] = RekeyEntries(prev[p])
    BY <1>u
  <2>3. queue'[p] = queue[p] \/ queue'[p] = RekeyBatches(queue[p])
    BY <1>u
  <2>4. prev'[p] \in SUBSET Entry /\ EventsOf(prev'[p]) = EventsOf(prev[p])
    BY <2>1, <2>2, RekeyEntriesKeeps
  <2>5. /\ queue'[p] \in Seq(Batch) /\ Clean(queue'[p])
        /\ EventsIn(queue'[p]) = EventsIn(queue[p])
        /\ Apart(queue[p]) => Apart(queue'[p])
    BY <2>1, <2>3, RekeyBatchesKeeps
  <2> QED BY <2>4, <2>5
<1>w. \A p \in Pipe : Found(p)' \subseteq Found(p) /\ Uncollected(p)' = Uncollected(p)
  BY <1>u, <1>v DEF Found, Uncollected
<1>1. TypeOK'
  <2>1. prev' \in [Pipe -> SUBSET Entry] /\ queue' \in [Pipe -> Seq(Batch)]
    BY <1>u, <1>v
  <2> QED BY <1>u, <2>1 DEF TypeOK
<1>2. Placed'
  <2>1. used' \cap Legacy = {} /\ EventsOf(held') \subseteq used'
    BY <1>u DEF Placed
  <2>2. ASSUME NEW p \in Pipe, NEW f \in Found(p)'
        PROVE  PipeOf[f] = p /\ f \in used' \cup Legacy /\ f \notin EventsOf(held')
    <3>1. f \in Found(p)
      BY <1>w, <2>2
    <3> QED BY <1>u, <3>1 DEF Placed
  <2> QED BY <2>1, <2>2 DEF Placed
<1>3. Keyed'
  BY <1>u, <1>v DEF Keyed
<1>4. Based'
  BY <1>u DEF Based
<1>5. Once'
  <2>1. ASSUME NEW p \in Pipe, Single(p) PROVE Single(p)'
    BY <1>u, <1>v, <1>w, <2>1 DEF Single
  <2> QED BY <1>u, <2>1 DEF Once
<1>6. Forgotten'
  BY <1>u DEF Forgotten
<1>7. Closing'
  <2>1. before' \subseteq used' \cup Legacy /\ before' \cap EventsOf(held') = {}
    BY <1>u DEF Closing
  <2> QED BY <1>u, <1>w, <2>1 DEF Closing, Drain
<1> QED BY <1>1, <1>2, <1>3, <1>4, <1>5, <1>6, <1>7 DEF IInv

\* A process that ends keeps the rows and nothing else.
LEMMA ExitKeeps ==
    ASSUME IInv, Exit
    PROVE  IInv'
<1> USE DEF IInv
<1>u. /\ UNCHANGED <<used, db, known>>
      /\ phase' = "down" /\ hold' = "free" /\ left' = 0 /\ lastBucket' = 0
      /\ stopper' = "idle" /\ expired' = FALSE /\ before' = {} /\ held' = {}
      /\ live' = [p \in Pipe |-> {}] /\ prev' = [p \in Pipe |-> {}]
      /\ queue' = [p \in Pipe |-> <<>>]
  BY DEF Exit, Empty
<1>v. /\ \A p \in Pipe : /\ live'[p] = {} /\ prev'[p] = {} /\ queue'[p] = <<>>
                        /\ EventsOf(live'[p]) = {} /\ EventsIn(queue'[p]) = {}
                        /\ Apart(queue'[p]) /\ Clean(queue'[p])
      /\ EventsOf(held') = {} /\ OneKey(held')
  BY <1>u, EventsNone, EmptyBacklog DEF OneKey
<1>w. \A p \in Pipe : Found(p)' \subseteq Found(p) /\ Uncollected(p)' = {}
  BY <1>u, <1>v DEF Found, Uncollected
<1>1. TypeOK'
  BY <1>u, EmptyBacklog DEF TypeOK, Minute
<1>2. Placed'
  <2>1. used' \cap Legacy = {} /\ EventsOf(held') \subseteq used'
    BY <1>u, <1>v DEF Placed
  <2>2. ASSUME NEW p \in Pipe, NEW f \in Found(p)'
        PROVE  PipeOf[f] = p /\ f \in used' \cup Legacy /\ f \notin EventsOf(held')
    <3>1. f \in Found(p)
      BY <1>w, <2>2
    <3> QED BY <1>u, <1>v, <3>1 DEF Placed
  <2> QED BY <2>1, <2>2 DEF Placed
<1>3. Keyed'
  BY <1>u, <1>v DEF Keyed, OneKey
<1>4. Based'
  BY <1>u, <1>v DEF Based
<1>5. Once'
  BY <1>u, <1>v, <1>w DEF Once, Single
<1>6. Forgotten'
  BY <1>u, <1>v DEF Forgotten
<1>7. Closing'
  BY <1>u DEF Closing, Drain
<1> QED BY <1>1, <1>2, <1>3, <1>4, <1>5, <1>6, <1>7 DEF IInv

\* What a start finds in the database and loads from it.
LEMMA BootView ==
    ASSUME IInv, Boot, NEW p \in Pipe
    PROVE  /\ db'[p] \in SUBSET Row /\ OneKey(db'[p])
           /\ live'[p] \in SUBSET Entry /\ OneKey(live'[p])
           /\ prev'[p] = live'[p]
           /\ EventsOf(live'[p]) \subseteq EventsOf(db'[p])
           /\ \/ EventsOf(db'[p]) = EventsOf(db[p])
              \/ p = "provider" /\ db[p] = {} /\ EventsOf(db'[p]) = Legacy
<1> USE DEF IInv
<1> DEFINE im == ImportLegacyTokens(db)
<1>1. db[p] \in SUBSET Row /\ OneKey(db[p])
  BY DEF TypeOK, Keyed
<1>2. im[p] = IF p = "provider" /\ db[p] = {} THEN Legacied ELSE db[p]
  BY DEF ImportLegacyTokens, TypeOK, Pipe
<1>3. Legacied \in SUBSET Row /\ OneKey(Legacied) /\ EventsOf(Legacied) = Legacy
  <2>1. Legacied \in SUBSET Row
    BY StatsAssumption DEF Legacied, Row, Name, Minute
  <2>2. OneKey(Legacied)
    BY DEF Legacied, OneKey
  <2>3. ASSUME NEW e PROVE e \in EventsOf(Legacied) <=> e \in Legacy
    <3>1. e \in Legacy => <<e, FromKey, 0>> \in Legacied /\ e = <<e, FromKey, 0>>[1]
      BY DEF Legacied
    <3>2. \A x \in Legacied : x[1] \in Legacy
      BY DEF Legacied
    <3> QED BY <3>1, <3>2, EventsMember
  <2> QED BY <2>1, <2>2, <2>3
<1>4. /\ im[p] \in SUBSET Row /\ OneKey(im[p])
      /\ \/ EventsOf(im[p]) = EventsOf(db[p])
         \/ p = "provider" /\ db[p] = {} /\ EventsOf(im[p]) = Legacy
  BY <1>1, <1>2, <1>3
<1>5. db'[p] = im[p] \/ db'[p] = RekeyRows(im[p])
  BY DEF Boot, OnProviderKeys
<1> HIDE DEF im
<1>6. db'[p] \in SUBSET Row /\ OneKey(db'[p]) /\ EventsOf(db'[p]) = EventsOf(im[p])
  BY <1>4, <1>5, RekeyRowsKeeps
<1>7. live'[p] = {} \/ live'[p] = LoadCumulative(db'[p])
  <2>1. DOMAIN db' = Pipe
    BY DEF Boot, OnProviderKeys, ImportLegacyTokens, TypeOK
  <2> QED BY <2>1 DEF Boot, OnProviderKeys
<1>8. /\ live'[p] \in SUBSET Entry /\ OneKey(live'[p])
      /\ EventsOf(live'[p]) \subseteq EventsOf(db'[p])
  <2>1. CASE live'[p] = {}
    BY <2>1, EventsNone DEF OneKey
  <2>2. CASE live'[p] = LoadCumulative(db'[p])
    BY <1>6, <2>2, LoadKeeps
  <2> QED BY <1>7, <2>1, <2>2
<1>9. prev'[p] = live'[p]
  BY DEF Boot
<1> QED BY <1>4, <1>6, <1>8, <1>9

\* A process that starts loads counters and baselines from the rows.
LEMMA BootKeeps ==
    ASSUME IInv, Boot
    PROVE  IInv'
<1> USE DEF IInv
<1>u. /\ UNCHANGED <<held, used, queue, lastBucket, hold, left, known, stopper, expired, before>>
      /\ phase = "down" /\ phase' = "up" /\ prev' = live'
      /\ live' = [p \in Pipe |-> live'[p]] /\ db' = [p \in Pipe |-> db'[p]]
  <2>1. db' = [p \in Pipe |-> db'[p]]
    BY DEF Boot, OnProviderKeys, ImportLegacyTokens, TypeOK
  <2> QED BY <2>1 DEF Boot, OnProviderKeys, mutex
<1>f. /\ hold = "free" /\ held = {} /\ stopper = "idle" /\ ~expired
      /\ \A p \in Pipe : queue[p] = <<>>
  BY <1>u DEF Forgotten, Closing
<1>g. /\ EventsOf(held) = {} /\ Legacy \subseteq {e \in Event : PipeOf[e] = "provider"}
      /\ \A p \in Pipe : EventsIn(queue[p]) = {} /\ Apart(queue[p])
  BY <1>f, EventsNone, EmptyBacklog, StatsAssumption
<1>v. \A p \in Pipe :
        /\ db'[p] \in SUBSET Row /\ OneKey(db'[p])
        /\ live'[p] \in SUBSET Entry /\ OneKey(live'[p]) /\ prev'[p] = live'[p]
        /\ EventsOf(live'[p]) \subseteq EventsOf(db'[p])
        /\ \/ EventsOf(db'[p]) = EventsOf(db[p])
           \/ p = "provider" /\ EventsOf(db'[p]) = Legacy
  BY BootView
<1>w. \A p \in Pipe : /\ Found(p)' \subseteq EventsOf(db'[p]) /\ Uncollected(p)' = {}
  BY <1>u, <1>g, <1>v DEF Found, Uncollected
<1>1. TypeOK'
  <2>1. live' \in [Pipe -> SUBSET Entry] /\ db' \in [Pipe -> SUBSET Row]
    BY <1>u, <1>v
  <2> QED BY <1>u, <2>1 DEF TypeOK
<1>2. Placed'
  <2>1. used' \cap Legacy = {} /\ EventsOf(held') \subseteq used'
    BY <1>u DEF Placed
  <2>2. ASSUME NEW p \in Pipe, NEW f \in Found(p)'
        PROVE  PipeOf[f] = p /\ f \in used' \cup Legacy /\ f \notin EventsOf(held')
    <3>1. f \in EventsOf(db[p]) \/ (p = "provider" /\ f \in Legacy)
      BY <1>v, <1>w, <2>2
    <3>2. CASE f \in EventsOf(db[p])
      <4>1. f \in Found(p)
        BY <3>2 DEF Found
      <4> QED BY <1>u, <4>1 DEF Placed
    <3>3. CASE p = "provider" /\ f \in Legacy
      BY <1>u, <1>g, <3>3
    <3> QED BY <3>1, <3>2, <3>3
  <2> QED BY <2>1, <2>2 DEF Placed
<1>3. Keyed'
  BY <1>u, <1>v DEF Keyed
<1>4. Based'
  BY <1>u, <1>f, <1>v DEF Based
<1>5. Once'
  BY <1>u, <1>g, <1>w DEF Once, Single
<1>6. Forgotten'
  BY <1>u DEF Forgotten
<1>7. Closing'
  <2>1. before' \subseteq used' \cup Legacy /\ before' \cap EventsOf(held') = {}
    BY <1>u DEF Closing
  <2> QED BY <1>u, <1>f, <2>1 DEF Closing, Drain
<1> QED BY <1>1, <1>2, <1>3, <1>4, <1>5, <1>6, <1>7 DEF IInv
----------------------------------------------------------------------------
(* The theorems.                                                           *)

\* A step that changes nothing, and every action of Next, keeps the invariant.
LEMMA NextKeeps == IInv /\ [Next]_vars => IInv'
<1> SUFFICES ASSUME IInv, [Next]_vars PROVE IInv'
  OBVIOUS
<1>1. ASSUME NEW e \in Event, NEW k \in Key,
             Inc(e, k) \/ RecordMCP(e, k) \/ Add(<<e, k>>) \/ Mutate(e, k)
      PROVE  IInv'
  BY <1>1, LookupKeeps, AddKeeps, MutateKeeps DEF Inc, RecordMCP
<1>2. ASSUME NEW S \in {{}, Key}, ReloadMCP(S) PROVE IInv'
  <2>1. S \in SUBSET Key
    OBVIOUS
  <2> QED BY <1>2, <2>1, ReloadMCPKeeps
<1>3. ASSUME NEW now \in 1..MaxNow, Collect(now) PROVE IInv'
  <2>1. now \in Nat
    BY StatsAssumption
  <2> QED BY <1>3, <2>1, CollectKeeps
<1>4. ASSUME NEW p \in Pipe, FlushBatch(p) \/ EndDrain(p) PROVE IInv'
  BY <1>4, FlushBatchKeeps, EndDrainKeeps
<1>5. ASSUME NEW cutoff \in 0..MaxNow, Prune(cutoff) PROVE IInv'
  <2>1. cutoff \in Nat
    BY StatsAssumption
  <2> QED BY <1>5, <2>1, PruneKeeps
<1>6. CASE ResetStore \/ ResetCounters \/ ResetBaseline
  BY <1>6, ResetStoreKeeps, ResetCountersKeeps, ResetBaselineKeeps
<1>7. CASE RenameStore \/ Adopt \/ RekeyBaseline
  BY <1>7, RenameStoreKeeps, AdoptKeeps, RekeyBaselineKeeps
<1>8. CASE Stop \/ Expire \/ SkipCycle \/ CheckPending \/ Exit \/ Boot
  BY <1>8, StopKeeps, ExpireKeeps, SkipCycleKeeps, CheckPendingKeeps, ExitKeeps, BootKeeps
<1>9. CASE UNCHANGED vars
  <2>1. /\ UNCHANGED <<live, held, used, prev, queue, db, lastBucket>>
        /\ UNCHANGED <<phase, hold, left, known, stopper, expired, before>>
    BY <1>9 DEF vars
  <2>2. TypeOK'
    BY <2>1 DEF IInv, TypeOK
  <2>3. Placed' /\ Keyed' /\ Based'
    BY <2>1 DEF IInv, Placed, Found, Keyed, Based
  <2>4. Once' /\ Forgotten'
    BY <2>1 DEF IInv, Once, Single, Uncollected, Forgotten
  <2>5. Closing'
    BY <2>1 DEF IInv, Closing, Uncollected
  <2> QED BY <2>2, <2>3, <2>4, <2>5 DEF IInv
<1> QED BY <1>1, <1>2, <1>3, <1>4, <1>5, <1>6, <1>7, <1>8, <1>9 DEF Next

\* Every reachable state is in the inductive invariant.
THEOREM Invariance == Spec => []IInv
<1> QED BY InitIInv, NextKeeps, PTL DEF Spec

\* Counters, baselines, backlogs and rows are what their declarations say.
THEOREM TypeCorrect == Spec => []TypeOK
<1>1. IInv => TypeOK
  BY DEF IInv
<1> QED BY <1>1, Invariance, PTL

\* No increment is counted twice, whatever fails and whatever races
\* (flusher.go:317, rename.go:106).
THEOREM CountsAreSingle == Spec => []CountedOnce
<1>1. ASSUME IInv PROVE CountedOnce
  <2> USE <1>1 DEF IInv
  <2>1. hold = "free" => \A p \in Pipe : prev[p] \subseteq live[p]
    BY DEF Based
  <2>2. ASSUME hold \notin {"reset", "rebase"}, NEW p \in Pipe
        PROVE  /\ Uncollected(p) \cap (Queued(p) \cup Rows(p)) = {}
               /\ Queued(p) \cap Rows(p) = {}
               /\ \A i, j \in DOMAIN queue[p] :
                    i # j => EventsOf(queue[p][i].deltas) \cap EventsOf(queue[p][j].deltas) = {}
    <3>1. Single(p)
      BY <2>2 DEF Once
    <3>2. Queued(p) = EventsIn(queue[p]) /\ Rows(p) = EventsOf(db[p])
      BY DEF Queued, EventsIn, Rows
    <3> QED BY <3>1, <3>2 DEF Single, Apart
  <2>3. \A p \in Pipe : \A r, s \in db[p] : r[1] = s[1] => r = s
    BY DEF Keyed, OneKey
  <2> QED BY <2>1, <2>2, <2>3 DEF CountedOnce
<1> QED BY <1>1, Invariance, PTL

\* A shutdown that ends before its retry window does has saved what had been
\* counted when it began (FlushForShutdown, flusher.go:618).
THEOREM ShutdownIsComplete == Spec => []ShutdownSaves
<1>1. ASSUME IInv PROVE ShutdownSaves
  <2> SUFFICES ASSUME phase = "closed", ~expired PROVE before \cap Owed = {}
    BY DEF ShutdownSaves
  <2>1. /\ hold = "free"
        /\ \A p \in Pipe : before \cap Uncollected(p) = {} /\ queue[p] = <<>>
    BY <1>1 DEF IInv, Closing
  <2>2. \A p \in Pipe : Queued(p) = {}
    BY <2>1, EmptyBacklog DEF Queued, EventsIn
  <2>3. Owed = UNION {Uncollected(p) \cup Queued(p) : p \in Pipe}
    BY <2>1 DEF Owed
  <2> QED BY <2>1, <2>2, <2>3
<1> QED BY <1>1, Invariance, PTL
----------------------------------------------------------------------------
(* The ledger.  Every step of the pipeline is a step of the ledger, or     *)
(* leaves its books as they are.                                           *)

Books == [Ledger!Next]_<<Owed, Saved>>

Resetting == hold \in {"reset", "rebase"}

\* What is owed is what some pipeline has yet to save, unless a reset is under
\* way; what is saved is in the rows of some pipeline.
LEMMA BooksMember ==
    ASSUME NEW e
    PROVE  /\ e \in Owed <=> ~Resetting /\ \E p \in Pipe : e \in Uncollected(p) \cup EventsIn(queue[p])
           /\ e \in Saved <=> \E p \in Pipe : e \in EventsOf(db[p])
           /\ e \in Owed' <=> ~Resetting' /\ \E p \in Pipe : e \in Uncollected(p)' \cup EventsIn(queue'[p])
           /\ e \in Saved' <=> \E p \in Pipe : e \in EventsOf(db'[p])
<1>1. /\ \A p \in Pipe : Queued(p) = EventsIn(queue[p]) /\ Rows(p) = EventsOf(db[p])
      /\ \A p \in Pipe : Queued(p)' = EventsIn(queue'[p]) /\ Rows(p)' = EventsOf(db'[p])
  BY DEF Queued, EventsIn, Rows
<1>2. e \in Owed <=> ~Resetting /\ \E p \in Pipe : e \in Uncollected(p) \cup Queued(p)
  BY DEF Owed, Resetting
<1>3. e \in Owed' <=> ~Resetting' /\ \E p \in Pipe : e \in Uncollected(p)' \cup Queued(p)'
  BY DEF Owed, Resetting
<1>4. /\ e \in Saved <=> \E p \in Pipe : e \in Rows(p)
      /\ e \in Saved' <=> \E p \in Pipe : e \in Rows(p)'
  BY DEF Saved
<1> QED BY <1>1, <1>2, <1>3, <1>4

\* A step that moves no increment leaves the books as they are.
LEMMA BooksStay ==
    ASSUME Resetting' = Resetting,
           \A p \in Pipe : /\ Resetting \/ Uncollected(p)' = Uncollected(p)
                           /\ Resetting \/ EventsIn(queue'[p]) = EventsIn(queue[p])
                           /\ EventsOf(db'[p]) = EventsOf(db[p])
    PROVE  Owed' = Owed /\ Saved' = Saved
<1>1. \A e : e \in Owed' <=> e \in Owed
  <2> SUFFICES ASSUME NEW e PROVE e \in Owed' <=> e \in Owed
    OBVIOUS
  <2>1. CASE Resetting
    BY <2>1, BooksMember
  <2>2. CASE ~Resetting
    BY <2>2, BooksMember
  <2> QED BY <2>1, <2>2
<1>2. \A e : e \in Saved' <=> e \in Saved
  BY BooksMember
<1> QED BY <1>1, <1>2

\* The increments a pipeline has are its own; a baseline has none that its
\* counter does not have, but for the moment of a reset.
LEMMA Owned ==
    ASSUME IInv, NEW p \in Pipe
    PROVE  /\ Uncollected(p) \subseteq Found(p) /\ EventsIn(queue[p]) \subseteq Found(p)
           /\ EventsOf(db[p]) \subseteq Found(p)
           /\ \A e \in Found(p) : e \in Event /\ PipeOf[e] = p
           /\ ~Resetting => EventsOf(prev[p]) \subseteq EventsOf(live[p])
<1> USE DEF IInv
<1>1. /\ Uncollected(p) \subseteq Found(p) /\ EventsIn(queue[p]) \subseteq Found(p)
      /\ EventsOf(db[p]) \subseteq Found(p)
  BY DEF Uncollected, Found
<1>2. \A e \in Found(p) : e \in used \cup Legacy /\ PipeOf[e] = p
  BY DEF Placed
<1>3. used \cup Legacy \subseteq Event
  BY StatsAssumption DEF TypeOK
<1>4. ASSUME ~Resetting PROVE EventsOf(prev[p]) \subseteq EventsOf(live[p])
  <2>1. CASE hold # "rekey"
    <3>1. prev[p] \subseteq live[p]
      BY <1>4, <2>1 DEF Based, Resetting
    <3> QED BY <3>1, EventsPart
  <2>2. CASE hold = "rekey"
    <3>1. prev[p] \in SUBSET Entry
      BY DEF TypeOK
    <3>2. CASE p = "mcp"
      <4>1. prev[p] \subseteq live[p]
        BY <2>2, <3>2 DEF Based
      <4> QED BY <4>1, EventsPart
    <3>3. CASE p # "mcp"
      <4>1. RekeyEntries(prev[p]) \subseteq live[p]
        BY <2>2, <3>3 DEF Based
      <4> QED BY <3>1, <4>1, EventsPart, RekeyEntriesKeeps
    <3> QED BY <3>2, <3>3
  <2> QED BY <2>1, <2>2
<1> QED BY <1>1, <1>2, <1>3, <1>4

\* An increment that no pipeline had becomes owed, unless a reset is under
\* way, which will drop it.
LEMMA Accepted ==
    ASSUME IInv, NEW e \in Event \ Legacy, NEW k \in Key,
           \A p \in Pipe : e \notin Found(p),
           live' = [live EXCEPT ![PipeOf[e]] = live[PipeOf[e]] \cup {<<e, k>>}],
           UNCHANGED <<prev, queue, db, hold>>
    PROVE  Books
<1>1. \A p \in Pipe : /\ EventsIn(queue'[p]) = EventsIn(queue[p])
                      /\ EventsOf(db'[p]) = EventsOf(db[p])
  OBVIOUS
<1>2. Resetting' = Resetting
  BY DEF Resetting
<1>3. CASE Resetting
  <2>1. Owed' = Owed /\ Saved' = Saved
    BY <1>1, <1>2, <1>3, BooksStay
  <2> QED BY <2>1 DEF Books
<1>4. CASE ~Resetting
  <2>1. PipeOf[e] \in Pipe
    BY StatsAssumption
  <2>2. ASSUME NEW p \in Pipe
        PROVE  Uncollected(p)' = IF p = PipeOf[e] THEN Uncollected(p) \cup {e} ELSE Uncollected(p)
    <3>1. e \notin EventsOf(prev[p])
      BY <1>4, Owned DEF Found
    <3>2. live'[p] = IF p = PipeOf[e] THEN live[p] \cup {<<e, k>>} ELSE live[p]
      BY <2>1 DEF IInv, TypeOK
    <3>3. EventsOf(live[p] \cup {<<e, k>>}) = EventsOf(live[p]) \cup {e}
      <4>1. EventsOf({<<e, k>>}) = {e}
        BY EventsOfOne
      <4>2. EventsOf(live[p] \cup {<<e, k>>}) = EventsOf(live[p]) \cup EventsOf({<<e, k>>})
        BY EventsUnion
      <4> QED BY <4>1, <4>2
    <3> QED BY <3>1, <3>2, <3>3 DEF Uncollected
  <2>3. e \notin Owed \cup Saved
    <3>1. \A p \in Pipe : e \notin Uncollected(p) \cup EventsIn(queue[p]) \cup EventsOf(db[p])
      BY Owned
    <3> QED BY <3>1, BooksMember
  <2>4. ASSUME NEW f PROVE f \in Owed' <=> f \in Owed \cup {e}
    <3>1. /\ f \in Owed' <=> \E p \in Pipe : f \in Uncollected(p)' \cup EventsIn(queue'[p])
          /\ f \in Owed <=> \E p \in Pipe : f \in Uncollected(p) \cup EventsIn(queue[p])
      BY <1>2, <1>4, BooksMember
    <3> QED BY <1>1, <2>1, <2>2, <3>1
  <2>5. Saved' = Saved
    <3>1. ASSUME NEW f PROVE f \in Saved' <=> f \in Saved
      BY <1>1, BooksMember
    <3> QED BY <3>1
  <2>6. Owed' = Owed \cup {e}
    BY <2>4
  <2>7. Ledger!Accept(e)
    BY <2>3, <2>5, <2>6 DEF Ledger!Accept
  <2> QED BY <2>7 DEF Books, Ledger!Next
<1> QED BY <1>3, <1>4

\* Recording accepts, at the add.
LEMMA RecordBooks ==
    ASSUME IInv, NEW e \in Event, NEW k \in Key,
           Inc(e, k) \/ RecordMCP(e, k) \/ Add(<<e, k>>) \/ Mutate(e, k)
    PROVE  Books
<1> USE DEF IInv
<1>1. CASE Lookup(e, k)
  <2>1. UNCHANGED <<live, prev, queue, db, hold>>
    BY <1>1 DEF Lookup, flusher, mutex
  <2>2. Owed' = Owed /\ Saved' = Saved
    BY <2>1, BooksStay DEF Resetting, Uncollected
  <2> QED BY <2>2 DEF Books
<1>2. CASE Add(<<e, k>>)
  <2>1. /\ UNCHANGED <<prev, queue, db, hold>> /\ <<e, k>> \in held
        /\ live' = [live EXCEPT ![PipeOf[e]] = live[PipeOf[e]] \cup {<<e, k>>}]
    BY <1>2 DEF Add, flusher, mutex
  <2>2. e \in EventsOf(held)
    BY <2>1 DEF EventsOf
  <2>3. e \notin Legacy /\ \A p \in Pipe : e \notin Found(p)
    BY <2>2 DEF Placed
  <2> QED BY <2>1, <2>3, Accepted
<1>3. CASE Mutate(e, k)
  <2>1. /\ UNCHANGED <<prev, queue, db, hold>> /\ e \notin used \cup Legacy
        /\ live' = [live EXCEPT ![PipeOf[e]] = live[PipeOf[e]] \cup {<<e, k>>}]
    BY <1>3 DEF Mutate, flusher, mutex
  <2>2. \A p \in Pipe : e \notin Found(p)
    BY <2>1 DEF Placed
  <2> QED BY <2>1, <2>2, Accepted
<1> QED BY <1>1, <1>2, <1>3 DEF Inc, RecordMCP

\* A cycle drops calls of MCP names that do not resolve or that a fold has
\* left without a name, and no other increment.
LEMMA CollectBooks ==
    ASSUME IInv, NEW now \in Nat, Collect(now)
    PROVE  Books
<1> USE DEF IInv
<1> DEFINE S == (Uncollected("mcp") \cup EventsIn(queue["mcp"])) \ EventsIn(queue'["mcp"])
<1>u. UNCHANGED <<live, db>> /\ prev' = live /\ ~Resetting /\ ~Resetting' /\ hold = "free"
  BY DEF Collect, recorders, Resetting
<1>1. \A p \in Pipe :
        /\ EventsIn(queue'[p]) \subseteq EventsIn(queue[p]) \cup Uncollected(p)
        /\ p # "mcp" => EventsIn(queue'[p]) = EventsIn(queue[p]) \cup EventsOf(Diff(p))
        /\ Uncollected(p)' = {}
  BY <1>u, CollectView DEF Uncollected
<1>2. ASSUME NEW p \in Pipe, p # "mcp"
      PROVE  EventsIn(queue'[p]) = EventsIn(queue[p]) \cup Uncollected(p)
  <2>1. Diff(p) = live[p] \ prev[p]
    BY <1>2 DEF Diff, DiffCounters
  <2>2. OneKey(live[p]) /\ prev[p] \subseteq live[p]
    BY <1>u DEF Keyed, Based
  <2>3. EventsOf(Diff(p)) = Uncollected(p)
    BY <2>1, <2>2, EventsDiff DEF Uncollected
  <2> QED BY <1>1, <1>2, <2>3
<1>3. "mcp" \in Pipe
  BY DEF Pipe
<1>4. \A p \in Pipe : \A e \in Uncollected(p) \cup EventsIn(queue[p]) : e \in Event /\ PipeOf[e] = p
  BY Owned
<1>5. S \subseteq Owed \cap {e \in Event : PipeOf[e] = "mcp"}
  <2> SUFFICES ASSUME NEW e \in S PROVE e \in Owed /\ e \in Event /\ PipeOf[e] = "mcp"
    OBVIOUS
  <2>1. e \in Uncollected("mcp") \cup EventsIn(queue["mcp"])
    OBVIOUS
  <2> QED BY <1>u, <1>3, <1>4, <2>1, BooksMember
<1>6. ASSUME NEW e PROVE e \in Owed' <=> e \in Owed \ S
  <2>1. e \in Owed' <=> \E p \in Pipe : e \in EventsIn(queue'[p])
    BY <1>u, <1>1, BooksMember
  <2>2. e \in Owed <=> \E p \in Pipe : e \in Uncollected(p) \cup EventsIn(queue[p])
    BY <1>u, BooksMember
  <2>3. ASSUME NEW p \in Pipe, e \in EventsIn(queue'[p])
        PROVE  e \notin S /\ e \in Uncollected(p) \cup EventsIn(queue[p])
    <3>1. e \in Uncollected(p) \cup EventsIn(queue[p]) /\ PipeOf[e] = p
      BY <1>1, <1>4, <2>3
    <3>2. e \in S => p = "mcp"
      BY <1>3, <1>4, <3>1
    <3> QED BY <2>3, <3>1, <3>2
  <2>4. ASSUME NEW p \in Pipe, e \in Uncollected(p) \cup EventsIn(queue[p]), e \notin S
        PROVE  e \in EventsIn(queue'[p])
    <3>1. CASE p = "mcp"
      BY <2>4, <3>1
    <3>2. CASE p # "mcp"
      BY <1>2, <2>4, <3>2
    <3> QED BY <3>1, <3>2
  <2> HIDE DEF S
  <2> QED BY <2>1, <2>2, <2>3, <2>4
<1>7. ASSUME NEW e PROVE e \in Saved' <=> e \in Saved
  BY <1>u, BooksMember
<1> HIDE DEF S
<1>8. Ledger!Skip(S)
  <2>1. Owed' = Owed \ S /\ Saved' = Saved
    BY <1>6, <1>7
  <2> QED BY <1>5, <2>1 DEF Ledger!Skip
<1>9. S \in SUBSET Event
  BY <1>5
<1> QED BY <1>8, <1>9 DEF Books, Ledger!Next

\* A batch that is written was owed and is saved.
LEMMA FlushBooks ==
    ASSUME IInv, NEW q \in Pipe, FlushBatch(q)
    PROVE  Books
<1> USE DEF IInv
<1> DEFINE S == EventsOf(Head(queue[q]).deltas)
<1>u. /\ UNCHANGED <<live, prev>> /\ ~Resetting /\ ~Resetting' /\ queue[q] # <<>>
      /\ db' = [db EXCEPT ![q] = FlushContext(db[q], Head(queue[q]))]
      /\ queue' = [queue EXCEPT ![q] = Tail(queue[q])]
  BY DEF FlushBatch, recorders, Resetting, Pipe
<1>1. \A p \in Pipe : Single(p) /\ Uncollected(p)' = Uncollected(p)
  BY <1>u DEF Once, Resetting, Uncollected
<1>2. /\ queue[q] \in Seq(Batch) /\ db[q] \in SUBSET Row
      /\ Clean(queue[q]) /\ OneKey(db[q]) /\ Apart(queue[q])
      /\ EventsIn(queue[q]) \cap EventsOf(db[q]) = {}
  BY <1>1 DEF TypeOK, Keyed, Single
<1>3. /\ Head(queue[q]) \in Batch /\ OneKey(Head(queue[q]).deltas)
      /\ S \subseteq EventsIn(queue[q])
      /\ EventsIn(Tail(queue[q])) = EventsIn(queue[q]) \ S
  BY <1>u, <1>2, TailKeeps
<1>4. EventsOf(FlushContext(db[q], Head(queue[q]))) = EventsOf(db[q]) \cup S
  <2>1. EventsOf(db[q]) \cap EventsOf(Head(queue[q]).deltas) = {}
    BY <1>2, <1>3
  <2> QED BY <1>2, <1>3, <2>1, FlushKeeps
<1> HIDE DEF S
<1>5. \A p \in Pipe :
        /\ EventsIn(queue'[p]) = IF p = q THEN EventsIn(queue[p]) \ S ELSE EventsIn(queue[p])
        /\ EventsOf(db'[p]) = IF p = q THEN EventsOf(db[p]) \cup S ELSE EventsOf(db[p])
  BY <1>u, <1>3, <1>4 DEF TypeOK
<1>6. \A p \in Pipe : \A e \in Uncollected(p) \cup EventsIn(queue[p]) : e \in Event /\ PipeOf[e] = p
  BY Owned
<1>7. \A e \in S : e \in Event /\ e \in Owed /\ \A p \in Pipe : e \notin Uncollected(p)
  <2> SUFFICES ASSUME NEW e \in S
               PROVE  e \in Event /\ e \in Owed /\ \A p \in Pipe : e \notin Uncollected(p)
    OBVIOUS
  <2>1. e \in EventsIn(queue[q]) /\ PipeOf[e] = q /\ e \in Event
    BY <1>3, <1>6
  <2>2. e \notin Uncollected(q)
    BY <1>1, <2>1 DEF Single
  <2> QED BY <1>u, <1>6, <2>1, <2>2, BooksMember
<1>8. ASSUME NEW e PROVE e \in Owed' <=> e \in Owed \ S
  <2>1. e \in Owed' <=> \E p \in Pipe : e \in Uncollected(p) \cup EventsIn(queue'[p])
    BY <1>u, <1>1, BooksMember
  <2>2. e \in Owed <=> \E p \in Pipe : e \in Uncollected(p) \cup EventsIn(queue[p])
    BY <1>u, BooksMember
  <2>3. ASSUME NEW p \in Pipe
        PROVE  e \in EventsIn(queue'[p]) <=> e \in EventsIn(queue[p]) /\ e \notin S
    <3>1. e \in S => PipeOf[e] = q
      BY <1>3, <1>6
    <3> QED BY <1>5, <1>6, <3>1
  <2> QED BY <1>7, <2>1, <2>2, <2>3
<1>9. ASSUME NEW e PROVE e \in Saved' <=> e \in Saved \cup S
  <2>1. /\ e \in Saved' <=> \E p \in Pipe : e \in EventsOf(db'[p])
        /\ e \in Saved <=> \E p \in Pipe : e \in EventsOf(db[p])
    BY BooksMember
  <2> QED BY <1>5, <2>1
<1>10. Ledger!Save(S)
  <2>1. Owed' = Owed \ S /\ Saved' = Saved \cup S /\ S \subseteq Owed
    BY <1>7, <1>8, <1>9
  <2> QED BY <2>1 DEF Ledger!Save
<1>11. S \in SUBSET Event
  BY <1>7
<1> QED BY <1>10, <1>11 DEF Books, Ledger!Next

\* Pruning expires what is saved.
LEMMA PruneBooks ==
    ASSUME IInv, NEW cutoff \in Nat, Prune(cutoff)
    PROVE  Books
<1> DEFINE S == Saved \ Saved'
<1>u. /\ UNCHANGED <<live, prev, queue>> /\ ~Resetting /\ ~Resetting'
      /\ \A p \in Pipe : db'[p] \subseteq db[p]
  BY DEF Prune, recorders, flusher, Resetting
<1>1. ASSUME NEW e PROVE e \in Owed' <=> e \in Owed
  BY <1>u, BooksMember DEF Uncollected
<1>2. ASSUME NEW e, e \in Saved' PROVE e \in Saved
  <2>1. PICK p \in Pipe : e \in EventsOf(db'[p])
    BY <1>2, BooksMember
  <2>2. e \in EventsOf(db[p])
    BY <1>u, <2>1, EventsPart
  <2> QED BY <2>2, BooksMember
<1>3. ASSUME NEW e, e \in Saved PROVE e \in Event
  <2>1. PICK p \in Pipe : e \in EventsOf(db[p])
    BY <1>3, BooksMember
  <2> QED BY <2>1, Owned
<1>4. Ledger!Expire(S)
  <2>1. Owed' = Owed /\ Saved' = Saved \ S /\ S \subseteq Saved
    BY <1>1, <1>2
  <2> QED BY <2>1 DEF Ledger!Expire
<1>5. S \in SUBSET Event
  BY <1>3
<1> QED BY <1>4, <1>5 DEF Books, Ledger!Next

\* A reset wipes the books when it empties the database; its other steps
\* change nothing that is still owed.
LEMMA ResetBooks ==
    ASSUME IInv, ResetStore \/ ResetCounters \/ ResetBaseline
    PROVE  Books
<1>1. CASE ResetStore
  <2>1. Resetting' /\ \A p \in Pipe : EventsOf(db'[p]) = {}
    BY <1>1, EventsNone DEF ResetStore, Resetting, Empty
  <2>2. ASSUME NEW e PROVE e \notin Owed' /\ e \notin Saved'
    BY <2>1, BooksMember
  <2>3. Ledger!Wipe
    BY <2>2 DEF Ledger!Wipe
  <2> QED BY <2>3 DEF Books, Ledger!Next
<1>2. CASE ResetCounters
  <2>1. Resetting /\ Resetting' = Resetting /\ \A p \in Pipe : EventsOf(db'[p]) = EventsOf(db[p])
    BY <1>2 DEF ResetCounters, Resetting
  <2>2. Owed' = Owed /\ Saved' = Saved
    BY <2>1, BooksStay
  <2> QED BY <2>2 DEF Books
<1>3. CASE ResetBaseline
  <2>1. /\ Resetting /\ UNCHANGED <<live, db>> /\ prev' = live
        /\ \A p \in Pipe : queue'[p] = <<>>
    BY <1>3 DEF ResetBaseline, Resetting, recorders
  <2>2. \A p \in Pipe : Uncollected(p)' = {} /\ EventsIn(queue'[p]) = {}
    BY <2>1, EmptyBacklog DEF Uncollected
  <2>3. ASSUME NEW e PROVE e \notin Owed' /\ e \notin Owed /\ (e \in Saved' <=> e \in Saved)
    BY <2>1, <2>2, BooksMember
  <2>4. Owed' = Owed /\ Saved' = Saved
    BY <2>3
  <2> QED BY <2>4 DEF Books
<1> QED BY <1>1, <1>2, <1>3

\* A rename changes no book.
LEMMA RenameBooks ==
    ASSUME IInv, RenameStore \/ Adopt \/ RekeyBaseline
    PROVE  Books
<1> USE DEF IInv
<1>1. CASE RenameStore
  <2>1. /\ UNCHANGED <<live, prev, queue>> /\ Resetting' = Resetting
        /\ db' = [p \in Pipe |-> IF p = "mcp" THEN db[p] ELSE RekeyRows(db[p])]
    BY <1>1 DEF RenameStore, OnProviderKeys, recorders, flusher, Resetting
  <2>2. ASSUME NEW p \in Pipe PROVE EventsOf(db'[p]) = EventsOf(db[p])
    <3>1. db[p] \in SUBSET Row /\ (db'[p] = db[p] \/ db'[p] = RekeyRows(db[p]))
      BY <2>1 DEF TypeOK
    <3> QED BY <3>1, RekeyRowsKeeps
  <2>3. Owed' = Owed /\ Saved' = Saved
    BY <2>1, <2>2, BooksStay DEF Uncollected
  <2> QED BY <2>3 DEF Books
<1>2. CASE Adopt
  <2>1. /\ UNCHANGED <<prev, queue, db>> /\ Resetting' = Resetting
        /\ live' = [p \in Pipe |-> IF p = "mcp" THEN live[p] ELSE RekeyEntries(live[p])]
    BY <1>2 DEF Adopt, OnProviderKeys, flusher, Resetting
  <2>2. ASSUME NEW p \in Pipe PROVE EventsOf(live'[p]) = EventsOf(live[p])
    <3>1. live[p] \in SUBSET Entry /\ (live'[p] = live[p] \/ live'[p] = RekeyEntries(live[p]))
      BY <2>1 DEF TypeOK
    <3> QED BY <3>1, RekeyEntriesKeeps
  <2>3. Owed' = Owed /\ Saved' = Saved
    BY <2>1, <2>2, BooksStay DEF Uncollected
  <2> QED BY <2>3 DEF Books
<1>3. CASE RekeyBaseline
  <2>1. /\ UNCHANGED <<live, db>> /\ Resetting' = Resetting
        /\ prev' = [p \in Pipe |-> IF p = "mcp" THEN prev[p] ELSE RekeyEntries(prev[p])]
        /\ queue' = [p \in Pipe |-> IF p = "mcp" THEN queue[p] ELSE RekeyBatches(queue[p])]
    BY <1>3 DEF RekeyBaseline, OnProviderKeys, recorders, Resetting
  <2>2. ASSUME NEW p \in Pipe
        PROVE  /\ EventsOf(prev'[p]) = EventsOf(prev[p])
               /\ EventsIn(queue'[p]) = EventsIn(queue[p])
    <3>1. prev[p] \in SUBSET Entry /\ (prev'[p] = prev[p] \/ prev'[p] = RekeyEntries(prev[p]))
      BY <2>1 DEF TypeOK
    <3>2. queue[p] \in Seq(Batch) /\ (queue'[p] = queue[p] \/ queue'[p] = RekeyBatches(queue[p]))
      BY <2>1 DEF TypeOK
    <3>3. EventsOf(prev'[p]) = EventsOf(prev[p])
      BY <3>1, RekeyEntriesKeeps
    <3>4. EventsIn(queue'[p]) = EventsIn(queue[p])
      BY <3>2, RekeyBatchesKeeps
    <3> QED BY <3>3, <3>4
  <2>3. Owed' = Owed /\ Saved' = Saved
    BY <2>1, <2>2, BooksStay DEF Uncollected
  <2> QED BY <2>3 DEF Books
<1> QED BY <1>1, <1>2, <1>3

\* The end of a process forgets what is owed.
LEMMA ExitBooks ==
    ASSUME IInv, Exit
    PROVE  Books
<1>1. /\ UNCHANGED db
      /\ \A p \in Pipe : live'[p] = {} /\ queue'[p] = <<>>
  BY DEF Exit, Empty
<1>2. \A p \in Pipe : Uncollected(p)' = {} /\ EventsIn(queue'[p]) = {}
  BY <1>1, EventsNone, EmptyBacklog DEF Uncollected
<1>3. ASSUME NEW e PROVE e \notin Owed' /\ (e \in Saved' <=> e \in Saved)
  BY <1>1, <1>2, BooksMember
<1>4. Ledger!Crash
  BY <1>3 DEF Ledger!Crash
<1> QED BY <1>4 DEF Books, Ledger!Next

\* A start imports the legacy file when the provider table is empty, and owes
\* nothing.
LEMMA BootBooks ==
    ASSUME IInv, Boot
    PROVE  Books
<1> USE DEF IInv
<1>1. /\ UNCHANGED <<queue, hold>> /\ prev' = live' /\ phase = "down"
  BY DEF Boot, mutex
<1>2. /\ hold = "free"
      /\ \A p \in Pipe : live[p] = {} /\ queue[p] = <<>>
  BY <1>1 DEF Forgotten
<1>3. \A p \in Pipe : Uncollected(p) = {} /\ Uncollected(p)' = {} /\ EventsIn(queue[p]) = {}
  BY <1>1, <1>2, EventsNone, EmptyBacklog DEF Uncollected
<1>4. ASSUME NEW e PROVE e \notin Owed' /\ e \notin Owed
  BY <1>1, <1>3, BooksMember
<1>5. \A p \in Pipe : \/ EventsOf(db'[p]) = EventsOf(db[p])
                      \/ p = "provider" /\ db[p] = {} /\ EventsOf(db'[p]) = Legacy
  BY BootView
<1>6. CASE \A p \in Pipe : EventsOf(db'[p]) = EventsOf(db[p])
  <2>1. ASSUME NEW e PROVE e \in Saved' <=> e \in Saved
    BY <1>6, BooksMember
  <2>2. Owed' = Owed /\ Saved' = Saved
    BY <1>4, <2>1
  <2> QED BY <2>2 DEF Books
<1>7. CASE ~ \A p \in Pipe : EventsOf(db'[p]) = EventsOf(db[p])
  <2>1. db["provider"] = {} /\ EventsOf(db'["provider"]) = Legacy /\ "provider" \in Pipe
    BY <1>5, <1>7 DEF Pipe
  <2>2. \A p \in Pipe : p # "provider" => EventsOf(db'[p]) = EventsOf(db[p])
    BY <1>5
  <2>3. EventsOf(db["provider"]) = {}
    BY <2>1, EventsNone
  <2>4. ASSUME NEW e \in Legacy PROVE e \notin Saved
    <3>1. PipeOf[e] = "provider"
      BY StatsAssumption
    <3>2. \A p \in Pipe : e \in EventsOf(db[p]) => p = "provider"
      BY <3>1, Owned
    <3> QED BY <2>3, <3>2, BooksMember
  <2>5. ASSUME NEW e PROVE e \in Saved' <=> e \in Saved \cup Legacy
    <3>1. /\ e \in Saved' <=> \E p \in Pipe : e \in EventsOf(db'[p])
          /\ e \in Saved <=> \E p \in Pipe : e \in EventsOf(db[p])
      BY BooksMember
    <3> QED BY <2>1, <2>2, <2>3, <3>1
  <2>6. Ledger!Import
    <3>1. Owed' = Owed /\ Saved' = Saved \cup Legacy /\ Saved \cap Legacy = {}
      BY <1>4, <2>4, <2>5
    <3> QED BY <3>1 DEF Ledger!Import
  <2> QED BY <2>6 DEF Books, Ledger!Next
<1> QED BY <1>6, <1>7

\* The other steps move no increment.
LEMMA StillBooks ==
    ASSUME UNCHANGED <<live, prev, queue, db>>, Resetting' = Resetting
    PROVE  Books
<1>1. Owed' = Owed /\ Saved' = Saved
  BY BooksStay DEF Uncollected
<1> QED BY <1>1 DEF Books

\* Every step of the pipeline is a step of the ledger or leaves it alone.
LEMMA StepBooks == IInv /\ [Next]_vars => Books
<1> SUFFICES ASSUME IInv, [Next]_vars PROVE Books
  OBVIOUS
<1>1. ASSUME NEW e \in Event, NEW k \in Key,
             Inc(e, k) \/ RecordMCP(e, k) \/ Add(<<e, k>>) \/ Mutate(e, k)
      PROVE  Books
  BY <1>1, RecordBooks
<1>2. ASSUME NEW S \in {{}, Key}, ReloadMCP(S) PROVE Books
  BY <1>2, StillBooks DEF ReloadMCP, recorders, flusher, mutex, Resetting
<1>3. ASSUME NEW now \in 1..MaxNow, Collect(now) PROVE Books
  <2>1. now \in Nat
    BY StatsAssumption
  <2> QED BY <1>3, <2>1, CollectBooks
<1>4. ASSUME NEW p \in Pipe, FlushBatch(p) PROVE Books
  BY <1>4, FlushBooks
<1>5. ASSUME NEW p \in Pipe, EndDrain(p) PROVE Books
  BY <1>5, StillBooks DEF EndDrain, recorders, flusher, Resetting, Following, Pipe
<1>6. ASSUME NEW cutoff \in 0..MaxNow, Prune(cutoff) PROVE Books
  <2>1. cutoff \in Nat
    BY StatsAssumption
  <2> QED BY <1>6, <2>1, PruneBooks
<1>7. CASE ResetStore \/ ResetCounters \/ ResetBaseline
  BY <1>7, ResetBooks
<1>8. CASE RenameStore \/ Adopt \/ RekeyBaseline
  BY <1>8, RenameBooks
<1>9. CASE Stop \/ Expire \/ SkipCycle \/ CheckPending
  <2>1. UNCHANGED <<live, prev, queue, db, hold>>
    BY <1>9 DEF Stop, Expire, SkipCycle, CheckPending, recorders, flusher, mutex
  <2> QED BY <2>1, StillBooks DEF Resetting
<1>10. CASE Exit \/ Boot
  BY <1>10, ExitBooks, BootBooks
<1>11. CASE UNCHANGED vars
  BY <1>11, StillBooks DEF vars, Resetting
<1> QED BY <1>1, <1>2, <1>3, <1>4, <1>5, <1>6, <1>7, <1>8, <1>9, <1>10, <1>11 DEF Next

\* The pipeline implements the ledger: an increment that is owed stays owed
\* until it is saved, or a crash, a reset, an unresolved name or a fold of the
\* MCP backlog drops it, and what is saved stays saved until retention or a
\* reset takes it
\* (flusher.go:317).
THEOREM ImplementsLedger == Spec => KeepsTheLedger
<1>1. Init => Ledger!Init
  <2> SUFFICES ASSUME Init PROVE Ledger!Init
    OBVIOUS
  <2>1. \A p \in Pipe : live[p] = {} /\ queue[p] = <<>> /\ db[p] = {}
    BY DEF Init, Empty
  <2>2. \A p \in Pipe : Uncollected(p) = {} /\ EventsIn(queue[p]) = {} /\ EventsOf(db[p]) = {}
    BY <2>1, EventsNone, EmptyBacklog DEF Uncollected
  <2>3. ASSUME NEW e PROVE e \notin Owed /\ e \notin Saved
    BY <2>2, BooksMember
  <2> QED BY <2>3 DEF Ledger!Init
<1>2. IInv /\ [Next]_vars => [Ledger!Next]_<<Owed, Saved>>
  BY StepBooks DEF Books
<1> QED BY <1>1, <1>2, Invariance, PTL DEF Spec, KeepsTheLedger, Ledger!Spec

============================================================================
