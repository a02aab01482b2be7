--------------------------- MODULE AccountsProofs ---------------------------
(***************************************************************************)
(* Proofs about the credential pool: an acknowledged secret stays where    *)
(* the next load finds it, a removed account stays removed, and a removal  *)
(* leaves no entry in the keychain, for any number of processes, accounts, *)
(* operations, faults, keychain calls that take effect late, sizes of the  *)
(* secrets and changes of the backend.                                     *)
(***************************************************************************)
EXTENDS Accounts, WellFoundedInduction, TLAPS

Rows == UNION {[D -> Nat] : D \in SUBSET Ids}
File == [here : BOOLEAN, rows : Rows]
Calls == [id : Ids, v : Nat, old : BOOLEAN]

\* A process that waits for the lock, or for its read.
Waiting == {"lock", "steal", "read"}
\* A process that has read the pool and fetches secrets, or migrates.
Fetching == {"hydrate", "restore", "mark", "rewrite", "legacy", "legacy file"}
\* A process that changes the pool it has loaded.
Changing == {"merge", "del", "clean", "set", "purge", "guard", "write"}

State ==
  {s \in [pc : {"idle", "unlock"} \cup Waiting \cup Fetching \cup Changing,
          op : {"", "load", "login", "refresh", "remove", "clear"},
          id : Ids \cup {0}, view : File, pool : Rows,
          out : SUBSET Ids, todo : SUBSET Ids, meta : BOOLEAN] :
     s.op # "" => s.id \in Ids}

TypeOK ==
  /\ kind \in {"key", "oauth"}
  /\ file \in File
  /\ legacy \in Nat
  /\ chain \in [Ids -> Nat] /\ late \in SUBSET Calls
  /\ marker \in SUBSET Ids
  /\ lock \in Procs \cup {"none", "dead"}
  /\ mode \in [Procs -> {"file", "keychain"}]
  /\ st \in [Procs -> State]
  /\ ver \in Nat
  /\ owned \in [Ids -> Nat]
  /\ gone \in SUBSET Ids /\ stray \in SUBSET Ids /\ stale \in SUBSET Procs
  /\ raced \in BOOLEAN

\* What a process's own steps make sure of: the backend it works for, and
\* how far it has come.
Shape(s, m) ==
  /\ s.pc = "idle" => s = Idle
  /\ s.pc # "idle" => s.op # ""
  /\ s.op = "load" => s.pc \notin Changing \cup {"lock", "steal"}
  /\ s.pc \in Waiting => s.pool = NoRows /\ s.todo = {} /\ s.out = {} /\ ~s.meta
  /\ s.pc \in Fetching => s.out = {} /\ (~Removal(s) \/ s.pc \in {"legacy", "legacy file"})
  /\ s.pc \in {"hydrate", "legacy", "legacy file", "set", "purge"} => m = "keychain"
  /\ s.pc \in {"restore", "mark", "guard"} => m = "file"
  /\ s.pc = "hydrate" =>
       /\ s.view.here /\ s.todo \subseteq DOMAIN s.view.rows
       /\ DOMAIN s.pool = DOMAIN s.view.rows \ s.todo
  /\ s.pc = "restore" =>
       /\ s.view.here /\ MetadataOnly(s.view.rows) /\ s.todo \subseteq DOMAIN s.view.rows
       /\ DOMAIN s.pool \subseteq DOMAIN s.view.rows \ s.todo
  /\ s.pc \in {"mark", "rewrite"} => s.view.here /\ DOMAIN s.pool = DOMAIN s.view.rows
  /\ s.pc \in {"legacy", "legacy file"} =>
       ~s.view.here /\ DOMAIN s.pool = {LegacyId} /\ ~s.meta /\ s.todo = {}
  /\ s.pc = "merge" => s.out = {} /\ s.todo = {} /\ (s.meta => Removal(s))
  /\ s.pc \in {"set", "purge", "guard"} => ~s.meta
  /\ s.pc = "set" => s.todo \subseteq DOMAIN s.pool
  /\ s.pc = "del" => s.meta
  /\ s.pc \in {"del", "clean"} => Removal(s)
  /\ s.pc \in {"clean", "write"} => s.meta \/ m = "file"
  /\ s.pc \in {"guard", "write"} => s.todo = {}
  /\ s.pc \in Changing \ {"merge"} =>
       /\ s.out \cap DOMAIN s.pool = {}
       /\ s.meta => Removal(s)
       /\ s.op \in Issuing => s.id \in DOMAIN s.pool /\ s.out = {}
       /\ s.op = "clear" => DOMAIN s.pool = {}

\* The process is between taking the lock and giving it back.
Holding(s) ==
  IF s.op = "load" THEN s.pc \in {"mark", "rewrite", "unlock"}
  ELSE s.pc \notin {"idle", "lock", "steal"}

\* The holder has the lock file, and nobody replaces what it has read.
Locked(p) ==
  /\ lock = p <=> Holding(st[p])
  /\ Holding(st[p]) /\ st[p].op # "load" /\ st[p].pc # "read" => p \notin stale

\* Where an account can come from.
Source ==
  DOMAIN file.rows \cup (IF ~file.here /\ legacy # 0 THEN {LegacyId} ELSE {})

\* A save of the metadata pool in plain form that the guard has yet to judge.
Guarded(p) ==
  /\ st[p].pc \in {"merge", "guard"} /\ mode[p] = "file" /\ ~Removal(st[p])
  /\ file.here /\ MetadataOnly(file.rows)

\* What the keychain has for i, and will have unless an overtaken call takes
\* effect: version v, or one that is no older than the secret owned.
Fixed(i, v) == chain[i] = v /\ \A c \in late : c.id = i => c.old
Sure(i) == owned[i] <= chain[i] /\ \A c \in late : c.id = i /\ ~c.old => owned[i] <= c.v

\* The same of the state after a step.
Fixes(i, v) == chain'[i] = v /\ \A c \in late' : c.id = i => c.old
Secures(i) ==
  owned'[i] <= chain'[i] /\ \A c \in late' : c.id = i /\ ~c.old => owned'[i] <= c.v

\* What a process that has fetched secrets can rely on as long as the file
\* is the one it has read.
Fetched(p) ==
  LET s == st[p]
  IN s.pc \in Fetching /\ p \notin stale =>
       /\ s.view = file
       /\ \A i \in DOMAIN s.pool : owned[i] <= s.pool[i]
       /\ s.pc \in {"hydrate", "rewrite"} /\ mode[p] = "keychain" =>
            \A i \in DOMAIN s.pool : ~TooLarge(i, s.pool[i]) => Sure(i)
       /\ s.pc = "rewrite" /\ mode[p] = "file" => marker = DOMAIN s.pool
       /\ s.pc \in {"legacy", "legacy file"} => s.pool[LegacyId] = legacy /\ legacy # 0
       /\ s.pc = "legacy file" => Sure(LegacyId)

\* The pool that is being changed against what is stored: no account is
\* forgotten, none comes back, and no secret is older than the one owned.
Pooled(p) ==
  LET s == st[p]
  IN s.pc \in Changing =>
       /\ gone \cap DOMAIN s.pool = {}
       /\ ~s.meta => \A i \in DOMAIN s.pool : owned[i] <= s.pool[i]
       /\ s.pc # "merge" /\ s.op \in Issuing => s.pool[s.id] <= ver
       /\ Source \subseteq DOMAIN s.pool \cup s.out \/ Guarded(p)
       /\ s.pc = "merge" => DOMAIN s.pool \subseteq Source
       /\ \A i \in s.out : owned[i] = 0
       /\ s.meta => /\ file.here /\ DOMAIN s.pool \cup s.out \subseteq DOMAIN file.rows
                    /\ \A i \in DOMAIN s.pool : file.rows[i] = 0
       /\ ~s.meta /\ mode[p] = "file" =>
            Valid(file.rows) \/ (~Removal(s) /\ MetadataOnly(file.rows))
       /\ mode[p] = "keychain" => DOMAIN file.rows = Source /\ s.out \subseteq Source

\* How far the entries of the keychain are.
Entries(p) ==
  LET s == st[p]
      named == IF s.op = "clear" THEN marker ELSE marker \cap s.out
  IN /\ s.pc = "del" => s.todo \subseteq s.out /\ \A i \in s.out \ s.todo : Fixed(i, 0)
     /\ s.pc = "clean" =>
          /\ s.todo \subseteq named
          /\ \A i \in named \ s.todo : Fixed(i, 0)
          /\ \A i \in s.out : Fixed(i, 0) \/ (~s.meta /\ (chain[i] = 0 \/ i \in stray \cup marker))
     /\ s.pc \in {"guard", "write"} =>
          \A i \in s.out : Fixed(i, 0) \/ (~s.meta /\ (chain[i] = 0 \/ i \in stray))
     /\ s.pc = "write" /\ ~s.meta =>
          \A i \in Ids : chain[i] # 0 => i \in stray \/ (i \in marker /\ i \in DOMAIN s.pool)
     /\ s.pc \in {"set", "purge"} =>
          \A i \in DOMAIN s.pool :
            i \notin s.todo /\ ~TooLarge(i, s.pool[i]) => Fixed(i, s.pool[i])
     /\ s.pc = "purge" =>
          /\ s.todo \subseteq DOMAIN file.rows \ DOMAIN s.pool
          /\ \A i \in DOMAIN file.rows \ DOMAIN s.pool : i \notin s.todo => Fixed(i, 0)

\* Every entry of the keychain has a row that refers to it, or a row and the
\* marker that remembers it, or is a stray.
Entered ==
  \A i \in Ids :
    chain[i] # 0 => \/ i \in stray
                    \/ i \in DOMAIN file.rows /\ (file.rows[i] = 0 \/ i \in marker)

\* The entry that a metadata row refers to is sure.
Held == \A i \in DOMAIN file.rows : file.rows[i] = 0 => Sure(i)

\* The versions that exist.
Issued ==
  /\ ver >= 1 /\ (kind = "key" => ver = 1)
  /\ legacy # 0 => kind = "key"
  /\ \A i \in Ids : owned[i] <= ver
  /\ ~file.here => DOMAIN file.rows = {}

Own(p) == Locked(p) /\ Fetched(p) /\ Pooled(p) /\ Entries(p)

Stored == Issued /\ Entered /\ Held /\ KeepsSecrets /\ StaysRemoved /\ RemovalCleans

(* The inductive invariant.  Once a race has been met only the types and    *)
(* the shape of what a process does are left.                              *)
IInv ==
  /\ TypeOK
  /\ \A p \in Procs : Shape(st[p], mode[p])
  /\ ~raced => Stored /\ \A p \in Procs : Own(p)

----------------------------------------------------------------------------
(* The operators the model is built from.                                  *)

(* A nonempty set of naturals has a least element, and Min is it.          *)
LEMMA MinIn ==
  ASSUME NEW S \in SUBSET Nat, S # {}
  PROVE  Min(S) \in S
<1>1. PICK e \in S : \A n \in S : ~(<<n, e>> \in OpToRel(<, Nat))
  BY NatLessThanWellFounded, WFMin
<1>2. \A n \in S : ~(n < e)
  BY <1>1 DEF OpToRel
<1>3. \A n \in S : e <= n
  BY <1>2
<1> QED BY <1>3 DEF Min

(* What it is to be rows of a pool. *)
LEMMA RowsAre ==
  ASSUME NEW r
  PROVE  r \in Rows <=> DOMAIN r \subseteq Ids /\ r \in [DOMAIN r -> Nat]
<1>1. ASSUME r \in Rows PROVE DOMAIN r \subseteq Ids /\ r \in [DOMAIN r -> Nat]
  BY <1>1 DEF Rows
<1>2. ASSUME DOMAIN r \subseteq Ids, r \in [DOMAIN r -> Nat] PROVE r \in Rows
  BY <1>2 DEF Rows
<1> QED BY <1>1, <1>2

(* The rows of an empty pool. *)
LEMMA NoRowsAre == NoRows \in Rows /\ DOMAIN NoRows = {}
<1>1. DOMAIN NoRows = {} /\ NoRows \in [{} -> Nat]
  BY DEF NoRows
<1> QED BY <1>1, RowsAre

(* A row that is put into a pool, over the one it may have had. *)
LEMMA PutRow ==
  ASSUME NEW i \in Ids, NEW v \in Nat, NEW r \in Rows
  PROVE  /\ Put(r, i, v) \in Rows
         /\ DOMAIN Put(r, i, v) = {i} \cup DOMAIN r
         /\ Put(r, i, v)[i] = v
         /\ \A j \in DOMAIN r : j # i => Put(r, i, v)[j] = r[j]
<1>1. DOMAIN r \subseteq Ids /\ r \in [DOMAIN r -> Nat]
  BY RowsAre
<1>2. /\ DOMAIN Put(r, i, v) = {i} \cup DOMAIN r
      /\ Put(r, i, v)[i] = v
      /\ \A j \in DOMAIN r : j # i => Put(r, i, v)[j] = r[j]
      /\ Put(r, i, v) \in [{i} \cup DOMAIN r -> Nat]
  BY <1>1 DEF Put
<1> QED BY <1>1, <1>2, RowsAre

(* The pool of the legacy file has one row. *)
LEMMA OneRow ==
  ASSUME NEW i \in Ids, NEW v \in Nat
  PROVE  /\ Put(NoRows, i, v) \in Rows
         /\ DOMAIN Put(NoRows, i, v) = {i}
         /\ Put(NoRows, i, v)[i] = v
<1>1. NoRows \in Rows /\ DOMAIN NoRows = {}
  BY NoRowsAre
<1>2. /\ Put(NoRows, i, v) \in Rows
      /\ DOMAIN Put(NoRows, i, v) = {i} \cup DOMAIN NoRows
      /\ Put(NoRows, i, v)[i] = v
  BY <1>1, PutRow
<1> QED BY <1>1, <1>2

(* Rows without some of the accounts. *)
LEMMA WithoutRows ==
  ASSUME NEW r \in Rows, NEW S
  PROVE  /\ Without(r, S) \in Rows
         /\ DOMAIN Without(r, S) = DOMAIN r \ S
         /\ \A i \in DOMAIN r \ S : Without(r, S)[i] = r[i]
<1>1. DOMAIN r \subseteq Ids /\ r \in [DOMAIN r -> Nat]
  BY RowsAre
<1>2. /\ DOMAIN Without(r, S) = DOMAIN r \ S
      /\ \A i \in DOMAIN r \ S : Without(r, S)[i] = r[i]
      /\ Without(r, S) \in [DOMAIN r \ S -> Nat]
  BY <1>1 DEF Without
<1> QED BY <1>1, <1>2, RowsAre

(* Rows without the secrets that the keychain takes. *)
LEMMA StrippedRows ==
  ASSUME NEW r \in Rows
  PROVE  /\ Stripped(r) \in Rows
         /\ DOMAIN Stripped(r) = DOMAIN r
         /\ \A i \in DOMAIN r : Stripped(r)[i] = IF TooLarge(i, r[i]) THEN r[i] ELSE 0
<1>1. DOMAIN r \subseteq Ids /\ r \in [DOMAIN r -> Nat]
  BY RowsAre
<1>2. /\ DOMAIN Stripped(r) = DOMAIN r
      /\ \A i \in DOMAIN r : Stripped(r)[i] = IF TooLarge(i, r[i]) THEN r[i] ELSE 0
      /\ Stripped(r) \in [DOMAIN r -> Nat]
  BY <1>1 DEF Stripped
<1> QED BY <1>1, <1>2, RowsAre

(* Rows without any secret. *)
LEMMA BlankRows ==
  ASSUME NEW r \in Rows
  PROVE  [i \in DOMAIN r |-> 0] \in Rows
<1>1. DOMAIN r \subseteq Ids
  BY RowsAre
<1>2. [i \in DOMAIN r |-> 0] \in [DOMAIN r -> Nat] /\ DOMAIN [i \in DOMAIN r |-> 0] = DOMAIN r
  OBVIOUS
<1> QED BY <1>1, <1>2, RowsAre

(* What a pool file holds. *)
LEMMA PoolFile ==
  ASSUME NEW r \in Rows
  PROVE  Pool(r) \in File /\ Pool(r).here /\ Pool(r).rows = r
BY DEF Pool, File

(* The state of a process that does nothing. *)
LEMMA IdleState ==
  /\ Idle \in State /\ Idle.pc = "idle" /\ Idle.op = "" /\ Idle.pool = NoRows
  /\ Idle.todo = {} /\ Idle.out = {} /\ Idle.meta = FALSE /\ Idle.view \in File
<1>1. NoFile \in File
  BY NoRowsAre DEF NoFile, File
<1> QED BY <1>1, NoRowsAre DEF Idle, State

(* The fields of a process's state. *)
LEMMA StateFields ==
  ASSUME NEW s \in State
  PROVE  /\ s.pc \in {"idle", "unlock"} \cup Waiting \cup Fetching \cup Changing
         /\ s.op \in {"", "load", "login", "refresh", "remove", "clear"}
         /\ (s.op # "" => s.id \in Ids) /\ s.view \in File /\ s.pool \in Rows
         /\ s.view.here \in BOOLEAN /\ s.view.rows \in Rows
         /\ DOMAIN s.pool \subseteq Ids /\ s.out \subseteq Ids /\ s.todo \subseteq Ids
         /\ \A i \in DOMAIN s.pool : s.pool[i] \in Nat
         /\ DOMAIN s.view.rows \subseteq Ids
         /\ \A i \in DOMAIN s.view.rows : s.view.rows[i] \in Nat
         /\ s.meta \in BOOLEAN
<1>1. /\ s.pc \in {"idle", "unlock"} \cup Waiting \cup Fetching \cup Changing
      /\ s.op \in {"", "load", "login", "refresh", "remove", "clear"}
      /\ (s.op # "" => s.id \in Ids) /\ s.view \in File /\ s.pool \in Rows
      /\ s.out \subseteq Ids /\ s.todo \subseteq Ids /\ s.meta \in BOOLEAN
  BY DEF State
<1>2. s.view.here \in BOOLEAN /\ s.view.rows \in Rows
  BY <1>1 DEF File
<1>3. DOMAIN s.pool \subseteq Ids /\ s.pool \in [DOMAIN s.pool -> Nat]
  BY <1>1, RowsAre
<1>4. DOMAIN s.view.rows \subseteq Ids /\ s.view.rows \in [DOMAIN s.view.rows -> Nat]
  BY <1>2, RowsAre
<1> QED BY <1>1, <1>2, <1>3, <1>4

(* The pool file of a state. *)
LEMMA FileFields ==
  ASSUME TypeOK
  PROVE  /\ file.here \in BOOLEAN /\ file.rows \in Rows
         /\ DOMAIN file.rows \subseteq Ids
         /\ \A i \in DOMAIN file.rows : file.rows[i] \in Nat
<1>1. file.here \in BOOLEAN /\ file.rows \in Rows
  BY DEF TypeOK, File
<1>2. DOMAIN file.rows \subseteq Ids /\ file.rows \in [DOMAIN file.rows -> Nat]
  BY <1>1, RowsAre
<1> QED BY <1>1, <1>2

----------------------------------------------------------------------------
(* What a step of one process leaves to the others.                        *)

\* No call is given up on that could be due.
Later == \A c \in late' : c \in late \/ c.old

\* The others stay where they are; what the holder of the lock relies on
\* stays as it is; a process whose file is replaced is stale; an entry that
\* is set is no older than the secret owned.
Apart(p) ==
  /\ kind' = kind
  /\ \A q \in Procs \ {p} :
       /\ st'[q] = st[q] /\ mode'[q] = mode[q]
       /\ lock' = q <=> lock = q
       /\ q \in stale => q \in stale'
       /\ lock = q =>
            /\ UNCHANGED <<file, legacy, chain, marker, owned, gone, stray, ver>> /\ Later
            /\ q \in stale' => q \in stale
       /\ \/ st[q].pc = "idle" \/ q \in stale'
          \/ file' = file /\ legacy' = legacy /\ \A i \in Ids : owned'[i] <= owned[i]
  /\ \A i \in Ids : Sure(i) /\ owned'[i] <= owned[i] => Sure(i)'

(* What is sure about an entry stays so unless a call changes it. *)
LEMMA SureStays ==
  ASSUME TypeOK, TypeOK', NEW i \in Ids, Sure(i), owned'[i] <= owned[i],
         chain'[i] = chain[i] \/ owned[i] <= chain'[i],
         \A c \in late' : c.id = i => c \in late \/ c.old \/ owned[i] <= c.v
  PROVE  Sure(i)'
<1>1. /\ owned[i] \in Nat /\ owned'[i] \in Nat /\ chain[i] \in Nat /\ chain'[i] \in Nat
      /\ \A c \in late' : c.v \in Nat
  BY DEF TypeOK, Calls
<1>2. owned'[i] <= chain'[i]
  BY <1>1 DEF Sure
<1>3. ASSUME NEW c \in late', c.id = i, ~c.old PROVE owned'[i] <= c.v
  <2>1. owned[i] <= c.v
    BY <1>3 DEF Sure
  <2> QED BY <1>1, <2>1
<1> QED BY <1>2, <1>3 DEF Sure

(* What a call leaves behind: no call on its entry is due any more. *)
LEMMA CallMade ==
  ASSUME TypeOK, NEW i \in Ids, NEW v \in Nat, Call(i, v)
  PROVE  /\ chain' \in [Ids -> Nat] /\ late' \in SUBSET Calls
         /\ chain'[i] = v /\ \A j \in Ids : j # i => chain'[j] = chain[j]
         /\ Fixes(i, v) /\ Later
         /\ \A j \in Ids, w \in Nat : j # i /\ Fixed(j, w) => Fixes(j, w)
<1>1. chain' = [chain EXCEPT ![i] = v] /\ chain \in [Ids -> Nat] /\ late \in SUBSET Calls
  BY DEF Call, TypeOK
<1>2. ASSUME NEW x \in late' PROVE x \in Calls /\ (x.old \/ (x \in late /\ x.id # i))
  <2>1. PICK c \in late : x = [c EXCEPT !.old = @ \/ c.id = i]
    BY DEF Call
  <2>2. c \in Calls
    BY <1>1
  <2>3. x \in Calls /\ x.id = c.id /\ x.v = c.v /\ x.old = (c.old \/ c.id = i)
    BY <2>1, <2>2 DEF Calls
  <2>4. ~x.old => x = c
    BY <2>2, <2>3 DEF Calls
  <2> QED BY <2>3, <2>4
<1>3. chain'[i] = v /\ \A j \in Ids : j # i => chain'[j] = chain[j]
  BY <1>1
<1>4. Fixes(i, v) /\ Later
  BY <1>2, <1>3 DEF Fixes, Later
<1>5. \A j \in Ids, w \in Nat : j # i /\ Fixed(j, w) => Fixes(j, w)
  BY <1>2, <1>3 DEF Fixed, Fixes
<1>6. chain' \in [Ids -> Nat] /\ late' \in SUBSET Calls
  BY <1>1, <1>2
<1> QED BY <1>3, <1>4, <1>5, <1>6

(* What is fixed stays so while the entry does and no call on it is due. *)
LEMMA FixedStays ==
  ASSUME NEW i, NEW v, Fixed(i, v), chain'[i] = chain[i], Later
  PROVE  Fixed(i, v)'
BY DEF Fixed, Later

(* What is sure stays so while no call is made. *)
LEMMA KeptSure ==
  ASSUME TypeOK, TypeOK', UNCHANGED <<chain, late>>
  PROVE  \A i \in Ids : Sure(i) /\ owned'[i] <= owned[i] => Sure(i)'
BY SureStays

(* The entry of an account without a secret is sure. *)
LEMMA UnownedSure ==
  ASSUME TypeOK, NEW i \in Ids, owned[i] <= 0
  PROVE  Sure(i)
<1>1. owned[i] \in Nat /\ chain[i] \in Nat /\ \A c \in late : c.v \in Nat
  BY DEF TypeOK, Calls
<1>2. owned[i] = 0
  BY <1>1
<1> QED BY <1>1, <1>2 DEF Sure

(* The facts about a process survive the steps of another one. *)
LEMMA OthersKeep ==
  ASSUME TypeOK, TypeOK', NEW p \in Procs, Apart(p), NEW q \in Procs, q # p,
         Shape(st[q], mode[q]), Own(q)
  PROVE  Own(q)'
<1> DEFINE s == st[q]
<1>a. /\ st'[q] = s /\ mode'[q] = mode[q] /\ kind' = kind
      /\ lock' = q <=> lock = q
      /\ q \in stale => q \in stale'
      /\ lock = q => /\ UNCHANGED <<file, legacy, chain, marker, owned, gone, stray, ver>> /\ Later
                     /\ q \in stale' => q \in stale
      /\ \/ s.pc = "idle" \/ q \in stale'
         \/ file' = file /\ legacy' = legacy /\ \A i \in Ids : owned'[i] <= owned[i]
      /\ \A i \in Ids : Sure(i) /\ owned'[i] <= owned[i] => Sure(i)'
  BY DEF Apart
<1>o. Locked(q) /\ Fetched(q) /\ Pooled(q) /\ Entries(q)
  BY DEF Own
<1>s. s \in State
  BY DEF TypeOK
<1>l. lock = q <=> Holding(s)
  BY <1>o DEF Locked
<1>1. Locked(q)'
  BY <1>a, <1>o DEF Locked
<1>2. CASE s.pc \in Changing
  <2>1. Holding(s)
    BY <1>2 DEF Shape, Holding, Changing
  <2>2. UNCHANGED <<file, legacy, chain, marker, owned, gone, stray, ver>> /\ Later
    BY <2>1, <1>l, <1>a
  <2>3. Pooled(q)'
    BY <2>2, <1>a, <1>o DEF Pooled, Guarded, Source
  <2>4. Entries(q)'
    <3>1. \A i, v : Fixed(i, v) => Fixed(i, v)'
      BY <2>2, FixedStays
    <3>2. \A i, v : TooLarge(i, v)' = TooLarge(i, v)
      BY <1>a DEF TooLarge
    <3> QED BY <2>2, <3>1, <3>2, <1>a, <1>o DEF Entries
  <2>5. Fetched(q)'
    BY <1>2, <1>a DEF Fetched, Fetching, Changing
  <2> QED BY <1>1, <2>3, <2>4, <2>5 DEF Own
<1>3. CASE s.pc \notin Changing
  <2>1. Pooled(q)'
    BY <1>3, <1>a DEF Pooled
  <2>2. Entries(q)'
    BY <1>3, <1>a DEF Entries, Changing
  <2>3. Fetched(q)'
    <3> SUFFICES ASSUME s.pc \in Fetching, q \notin stale'
                 PROVE  Fetched(q)'
      BY <1>a DEF Fetched
    <3>1. /\ q \notin stale /\ file' = file /\ legacy' = legacy
          /\ \A i \in Ids : owned'[i] <= owned[i]
      BY <1>a DEF Fetching
    <3>2. /\ s.view = file
          /\ \A i \in DOMAIN s.pool : owned[i] <= s.pool[i]
          /\ s.pc \in {"hydrate", "rewrite"} /\ mode[q] = "keychain" =>
               \A i \in DOMAIN s.pool : ~TooLarge(i, s.pool[i]) => Sure(i)
          /\ s.pc = "rewrite" /\ mode[q] = "file" => marker = DOMAIN s.pool
          /\ s.pc \in {"legacy", "legacy file"} => s.pool[LegacyId] = legacy /\ legacy # 0
          /\ s.pc = "legacy file" => Sure(LegacyId)
      BY <3>1, <1>o DEF Fetched
    <3>3. DOMAIN s.pool \subseteq Ids /\ \A i \in DOMAIN s.pool : s.pool[i] \in Nat
      BY <1>s, StateFields
    <3>4. \A i \in Ids : owned[i] \in Nat /\ owned'[i] \in Nat
      BY DEF TypeOK
    <3>5. \A i \in Ids : Sure(i) => Sure(i)'
      BY <3>1, <1>a
    <3>6. ASSUME NEW i \in DOMAIN s.pool PROVE owned'[i] <= s.pool[i]
      <4>1. owned'[i] <= owned[i] /\ owned[i] \in Nat /\ owned'[i] \in Nat
        BY <3>1, <3>3, <3>4
      <4>2. owned[i] <= s.pool[i] /\ s.pool[i] \in Nat
        BY <3>2, <3>3
      <4> HIDE DEF s
      <4> QED BY <4>1, <4>2
    <3>7. s.pc = "rewrite" => marker' = marker
      BY <1>a, <1>l DEF Holding
    <3>8. LegacyId \in Ids
      BY AccountsAssumption
    <3>9. \A i \in DOMAIN s.pool : TooLarge(i, s.pool[i])' = TooLarge(i, s.pool[i])
      BY <1>a DEF TooLarge
    <3>10. s.pc \in {"hydrate", "rewrite"} /\ mode[q] = "keychain" =>
               \A i \in DOMAIN s.pool : ~TooLarge(i, s.pool[i])' => Sure(i)'
      BY <3>2, <3>3, <3>5, <3>9
    <3> QED BY <1>a, <3>1, <3>2, <3>6, <3>7, <3>10, <3>5, <3>8 DEF Fetched
  <2> QED BY <1>1, <2>1, <2>2, <2>3 DEF Own
<1> QED BY <1>2, <1>3

(* One process moves to state t: what is left to show of the invariant.    *)
LEMMA MoveKeeps ==
  ASSUME IInv, TypeOK', NEW p \in Procs, NEW t,
         st' = [st EXCEPT ![p] = t], Shape(t, mode'[p]), raced => raced',
         \A q \in Procs \ {p} : mode'[q] = mode[q],
         ~raced' => Apart(p) /\ Stored' /\ Own(p)'
  PROVE  IInv'
<1>1. \A q \in Procs : Shape(st[q], mode[q])
  BY DEF IInv
<1>2. st'[p] = t /\ \A q \in Procs \ {p} : st'[q] = st[q]
  BY DEF IInv, TypeOK
<1>3. \A q \in Procs : Shape(st'[q], mode'[q])
  BY <1>1, <1>2
<1>4. ASSUME ~raced', NEW q \in Procs PROVE Own(q)'
  <2>1. CASE q = p
    BY <2>1, <1>4
  <2>2. CASE q # p
    <3>1. Own(q) /\ TypeOK
      BY <1>4 DEF IInv
    <3> QED BY <3>1, <2>2, <1>1, <1>4, OthersKeep
  <2> QED BY <2>1, <2>2
<1>5. ~raced' => Stored' /\ \A q \in Procs : Own(q)'
  BY <1>4
<1> QED BY <1>3, <1>5 DEF IInv

\* Neither the stores nor what is known of them changes.
Still == UNCHANGED <<kind, file, legacy, chain, late, marker, ver, owned, gone, stray>>

\* Process p may give up on a call: one that would set the entry to a secret
\* that is no older than the one owned, unless another process has the lock.
Quiet(p) ==
  /\ UNCHANGED <<kind, file, legacy, chain, marker, ver, owned, gone, stray>>
  /\ late' \in SUBSET Calls
  /\ ~raced => \A c \in late' :
       c \in late \/ c.old \/ (owned[c.id] <= c.v /\ lock \notin Procs \ {p})

(* Nothing happens to the keychain's calls. *)
LEMMA StillQuiet == ASSUME TypeOK, Still, NEW p PROVE Quiet(p)
BY DEF TypeOK, Still, Quiet

(* A call fails whose secret is no older than the one owned. *)
LEMMA FailsQuiet ==
  ASSUME TypeOK, NEW p, NEW i \in Ids, NEW v \in Nat, NEW old \in BOOLEAN, CallFails(i, v, old),
         ~raced => old \/ (owned[i] <= v /\ lock \notin Procs \ {p}),
         UNCHANGED <<kind, file, legacy, marker, ver, owned, gone, stray>>
  PROVE  Quiet(p)
<1> DEFINE x == [id |-> i, v |-> v, old |-> old]
<1>1. x \in Calls /\ late \in SUBSET Calls
  BY DEF Calls, TypeOK
<1>2. x.id = i /\ x.v = v /\ x.old = old
  OBVIOUS
<1>3. late' \in {late, late \cup {x}} /\ chain' = chain
  BY DEF CallFails
<1> HIDE DEF x
<1> QED BY <1>1, <1>2, <1>3 DEF Quiet

(* What was sure stays so when a call is given up on. *)
LEMMA QuietSure ==
  ASSUME TypeOK, TypeOK', ~raced, NEW p, Quiet(p), NEW i \in Ids, Sure(i)
  PROVE  Sure(i)'
<1>1. chain'[i] = chain[i] /\ owned'[i] = owned[i] /\ owned[i] \in Nat
  BY DEF Quiet, TypeOK
<1>2. \A c \in late' : c.id = i => c \in late \/ c.old \/ owned[i] <= c.v
  BY DEF Quiet
<1> QED BY <1>1, <1>2, SureStays

(* What is stored keeps its properties while nobody touches it. *)
LEMMA StillStored ==
  ASSUME TypeOK, TypeOK', Stored, NEW p, Still \/ Quiet(p), ~raced, ~raced'
  PROVE  Stored'
<1>q. Quiet(p) /\ UNCHANGED <<kind, file, legacy, chain, marker, ver, owned, gone, stray>>
  BY StillQuiet DEF Quiet
<1>1. Issued'
  BY <1>q DEF Stored, Issued
<1>2. Entered'
  BY <1>q DEF Stored, Entered
<1>3. KeepsSecrets'
  BY <1>q DEF Stored, KeepsSecrets, Found
<1>4. StaysRemoved' /\ RemovalCleans'
  BY <1>q DEF Stored, StaysRemoved, RemovalCleans
<1>5. Held'
  BY <1>q, QuietSure, FileFields DEF Stored, Held
<1> QED BY <1>1, <1>2, <1>3, <1>4, <1>5 DEF Stored

(* A step that touches neither the stores nor the file's readers leaves    *)
(* the others alone.                                                       *)
LEMMA StillApart ==
  ASSUME NEW p \in Procs, TypeOK, TypeOK', ~raced, Still \/ Quiet(p),
         \A q \in Procs \ {p} :
           /\ st'[q] = st[q] /\ mode'[q] = mode[q]
           /\ lock' = q <=> lock = q
           /\ q \in stale' <=> q \in stale
  PROVE  Apart(p)
<1>2. Quiet(p) /\ UNCHANGED <<kind, file, legacy, chain, marker, ver, owned, gone, stray>>
  BY StillQuiet DEF Quiet
<1>1. \A i \in Ids : owned'[i] <= owned[i]
  BY <1>2 DEF TypeOK
<1>3. \A q \in Procs \ {p} : lock = q => Later
  BY <1>2 DEF Quiet, Later
<1>4. \A i \in Ids : Sure(i) => Sure(i)'
  BY <1>2, QuietSure
<1> QED BY <1>1, <1>2, <1>3, <1>4 DEF Apart

(* A process that neither fetches nor changes has only the lock to answer  *)
(* for.                                                                    *)
LEMMA RestOwn ==
  ASSUME NEW p \in Procs, st'[p].pc \notin Fetching \cup Changing, Locked(p)'
  PROVE  Own(p)'
<1>1. Fetched(p)' /\ Pooled(p)'
  BY DEF Fetched, Pooled
<1>2. Entries(p)'
  BY DEF Entries, Changing
<1> QED BY <1>1, <1>2 DEF Own

(* The step moves p to a state at rest and touches no store. *)
LEMMA RestKeeps ==
  ASSUME IInv, NEW p \in Procs, NEW t \in State,
         st' = [st EXCEPT ![p] = t], mode' = mode, Shape(t, mode[p]),
         Still \/ Quiet(p), raced' \in BOOLEAN, raced => raced', stale' = stale,
         lock' \in Procs \cup {"none", "dead"},
         t.pc \notin Fetching \cup Changing,
         ~raced' => /\ \A q \in Procs \ {p} : lock' = q <=> lock = q
                    /\ lock' = p <=> Holding(t)
                    /\ t.op = "load" \/ t.pc \in {"idle", "lock", "steal", "read"} \/ p \notin stale
  PROVE  IInv'
<1>1. TypeOK
  BY DEF IInv
<1>q. Quiet(p) /\ UNCHANGED <<kind, file, legacy, chain, marker, ver, owned, gone, stray>>
  BY <1>1, StillQuiet DEF Quiet
<1>2. TypeOK'
  BY <1>1, <1>q DEF TypeOK, Quiet
<1>3. st'[p] = t /\ \A q \in Procs \ {p} : st'[q] = st[q] /\ mode'[q] = mode[q]
  BY <1>1 DEF TypeOK
<1>4. ASSUME ~raced' PROVE Apart(p) /\ Stored' /\ Own(p)'
  <2>1. Apart(p)
    BY <1>1, <1>2, <1>3, <1>4, <1>q, StillApart
  <2>2. Stored'
    BY <1>1, <1>2, <1>4, <1>q, StillStored DEF IInv
  <2>3. Locked(p)'
    BY <1>3, <1>4 DEF Locked, Holding
  <2> QED BY <2>1, <2>2, <2>3, <1>3, RestOwn
<1> QED BY <1>2, <1>3, <1>4, MoveKeeps

----------------------------------------------------------------------------
(* Steps after which a process is at rest or waits.                        *)

(* A process that does nothing may change its backend. *)
LEMMA IdleShape == ASSUME NEW m PROVE Shape(Idle, m) /\ ~Holding(Idle)
BY IdleState DEF Shape, Holding, Waiting, Fetching, Changing

(* A process that is to release the lock has no other obligations. *)
LEMMA UnlockShape ==
  ASSUME NEW s \in State, s.op # "", NEW m
  PROVE  /\ [s EXCEPT !.pc = "unlock"] \in State
         /\ Shape([s EXCEPT !.pc = "unlock"], m)
         /\ Holding([s EXCEPT !.pc = "unlock"])
         /\ [s EXCEPT !.pc = "unlock"].pc = "unlock"
         /\ [s EXCEPT !.pc = "unlock"].op = s.op
<1> DEFINE t == [s EXCEPT !.pc = "unlock"]
<1>1. t \in State /\ t.pc = "unlock" /\ t.op = s.op
  BY DEF State
<1> HIDE DEF t
<1>2. Shape(t, m) /\ Holding(t)
  BY <1>1 DEF Shape, Holding, Waiting, Fetching, Changing
<1> QED BY <1>1, <1>2 DEF t

(* A process that waits may go on waiting, or read. *)
LEMMA WaitShape ==
  ASSUME NEW s \in State, NEW m, Shape(s, m), s.pc \in Waiting,
         NEW c \in Waiting, s.op = "load" => c = "read"
  PROVE  /\ [s EXCEPT !.pc = c] \in State
         /\ Shape([s EXCEPT !.pc = c], m)
         /\ [s EXCEPT !.pc = c].pc = c
         /\ [s EXCEPT !.pc = c].op = s.op
<1> DEFINE t == [s EXCEPT !.pc = c]
<1>1. /\ t \in State /\ t.pc = c /\ t.op = s.op /\ t.pool = s.pool /\ t.todo = s.todo
      /\ t.out = s.out /\ t.meta = s.meta
  BY DEF State
<1>2. s.op # "" /\ s.pool = NoRows /\ s.todo = {} /\ s.out = {} /\ ~s.meta
  BY DEF Shape, Waiting
<1> HIDE DEF t
<1>3. Shape(t, m)
  BY <1>1, <1>2 DEF Shape, Waiting, Fetching, Changing
<1> QED BY <1>1, <1>3 DEF t

(* What the invariant says of one process. *)
LEMMA Known ==
  ASSUME IInv, NEW p \in Procs
  PROVE  /\ TypeOK /\ st[p] \in State /\ mode[p] \in {"file", "keychain"} /\ Shape(st[p], mode[p])
         /\ ~raced => Stored /\ Locked(p) /\ Fetched(p) /\ Pooled(p) /\ Entries(p)
         /\ p \notin {"none", "dead"} /\ lock \in Procs \cup {"none", "dead"} /\ raced \in BOOLEAN
BY HolderAssumption DEF IInv, TypeOK, Own

(* Nobody but the holder holds the lock. *)
LEMMA OneHolder ==
  ASSUME IInv, ~raced, NEW p \in Procs, NEW q \in Procs, Holding(st[p]), Holding(st[q])
  PROVE  p = q
BY DEF IInv, Own, Locked

(* An operation that ends early gives back what it holds. *)
LEMMA AbortKeeps ==
  ASSUME IInv, NEW p \in Procs, Abort(p), st[p].pc \in Fetching \cup Changing,
         Still \/ Quiet(p), UNCHANGED <<lock, mode, stale, raced>>
  PROVE  IInv'
<1> DEFINE s == st[p]
           t == Ended(s, p)
<1>k. /\ TypeOK /\ s \in State /\ Shape(s, mode[p]) /\ raced \in BOOLEAN
      /\ ~raced => Locked(p) /\ lock \in Procs \cup {"none", "dead"}
  BY Known
<1>l. lock \in Procs \cup {"none", "dead"}
  BY Known
<1>1. st' = [st EXCEPT ![p] = t]
  BY DEF Abort, Go
<1>2. s.op # ""
  BY <1>k DEF Shape, Fetching, Changing
<1>3. ASSUME ~raced, s.op # "load" PROVE lock = p /\ p \notin stale
  BY <1>3, <1>k DEF Locked, Holding, Fetching, Changing
<1>4. CASE lock = p \/ s.op # "load"
  <2>1. t = [s EXCEPT !.pc = "unlock"]
    BY <1>4 DEF Ended
  <2>2. t \in State /\ Shape(t, mode[p]) /\ Holding(t) /\ t.pc = "unlock" /\ t.op = s.op
    BY <2>1, <1>k, <1>2, UnlockShape
  <2>3. ~raced => lock = p /\ (t.op = "load" \/ p \notin stale)
    BY <1>3, <1>4, <2>2
  <2>4. t.pc \notin Fetching \cup Changing
    BY <2>2 DEF Fetching, Changing
  <2> HIDE DEF t
  <2> QED BY <1>1, <1>k, <1>l, <2>2, <2>3, <2>4, RestKeeps
<1>5. CASE ~(lock = p \/ s.op # "load")
  <2>1. t = Idle
    BY <1>5 DEF Ended
  <2>4. Idle.pc \notin Fetching \cup Changing
    BY IdleState DEF Fetching, Changing
  <2> QED BY <1>1, <1>k, <1>l, <1>5, <2>1, <2>4, IdleState, IdleShape, RestKeeps
<1> QED BY <1>4, <1>5

(* An operation begins. *)
LEMMA StartKeeps ==
  ASSUME IInv, NEW p \in Procs, NEW i \in Ids,
         NEW op \in {"load", "login", "refresh", "remove", "clear"}, Start(p, op, i)
  PROVE  IInv'
<1> DEFINE c == IF op = "load" THEN "read" ELSE "lock"
           t == [Idle EXCEPT !.pc = c, !.op = op, !.id = i]
<1>u. /\ st[p].pc = "idle" /\ st' = [st EXCEPT ![p] = t]
      /\ Still /\ UNCHANGED <<lock, mode, stale, raced>>
  BY DEF Start, At, Go, Still, stores, ghosts
<1>k. /\ st[p] \in State /\ Shape(st[p], mode[p]) /\ raced \in BOOLEAN
      /\ ~raced => Locked(p)
      /\ lock \in Procs \cup {"none", "dead"}
  BY Known
<1>1. /\ t \in State /\ t.pc = c /\ t.op = op /\ t.pool = NoRows /\ t.todo = {}
      /\ t.out = {} /\ t.meta = FALSE
  <2>1. NoFile \in File
    BY NoRowsAre DEF NoFile, File
  <2> QED BY <2>1, NoRowsAre DEF Idle, State, Waiting
<1>2. c \in Waiting /\ op # ""
  BY DEF Waiting
<1>3. op # "load" => c = "lock"
  OBVIOUS
<1>4. op = "load" => c = "read"
  OBVIOUS
<1> HIDE DEF t, c
<1>5. Shape(t, mode[p])
  BY <1>1, <1>2, <1>3, <1>4 DEF Shape, Waiting, Fetching, Changing
<1>6. ~Holding(t) /\ t.pc \in {"lock", "read"} /\ t.pc \notin Fetching \cup Changing
  BY <1>1, <1>2, <1>3, <1>4 DEF Holding, Fetching, Changing
<1>7. ~raced => lock # p
  BY <1>k, <1>u DEF Locked, Holding, Shape, Idle
<1> QED BY <1>u, <1>k, <1>1, <1>5, <1>6, <1>7, RestKeeps

(* A process changes its backend while it does nothing. *)
LEMMA SwitchKeeps ==
  ASSUME IInv, NEW p \in Procs, Switch(p)
  PROVE  IInv'
<1>u. /\ st[p].pc = "idle" /\ st' = st /\ Still /\ UNCHANGED <<lock, stale, raced>>
      /\ mode' = [mode EXCEPT ![p] = IF mode[p] = "file" THEN "keychain" ELSE "file"]
  BY DEF Switch, At, Still, stores, ghosts
<1>k. /\ TypeOK /\ st[p] \in State /\ Shape(st[p], mode[p]) /\ raced \in BOOLEAN
      /\ ~raced => Locked(p) /\ Stored
  BY Known
<1>1. st[p] = Idle
  BY <1>u, <1>k DEF Shape
<1>2. Shape(Idle, mode'[p])
  BY IdleShape
<1>3. TypeOK'
  BY <1>u, <1>k DEF TypeOK, Still
<1>4. st' = [st EXCEPT ![p] = Idle]
  BY <1>u, <1>1, <1>k DEF TypeOK
<1>5. \A q \in Procs \ {p} : mode'[q] = mode[q]
  BY <1>u, <1>k DEF TypeOK
<1>6. ASSUME ~raced' PROVE Apart(p) /\ Stored' /\ Own(p)'
  <2>1. Apart(p)
    BY <1>3, <1>6, <1>u, <1>k, <1>5, StillApart
  <2>2. Stored'
    BY <1>3, <1>6, <1>u, <1>k, StillStored
  <2>3. Locked(p)'
    BY <1>6, <1>u, <1>k DEF Locked
  <2>4. st'[p].pc \notin Fetching \cup Changing
    BY <1>u DEF Fetching, Changing
  <2> QED BY <2>1, <2>2, <2>3, <2>4, RestOwn
<1> QED BY <1>2, <1>3, <1>4, <1>5, <1>6, <1>u, MoveKeeps

(* The lock file is created. *)
LEMMA AcquireKeeps ==
  ASSUME IInv, NEW p \in Procs, Acquire(p)
  PROVE  IInv'
<1> DEFINE s == st[p]
           t == [s EXCEPT !.pc = "read"]
<1>u. /\ s.pc = "lock" /\ lock = "none" /\ lock' = p /\ st' = [st EXCEPT ![p] = t]
      /\ Still /\ UNCHANGED <<mode, stale, raced>>
  BY DEF Acquire, At, Go, To, Still, stores, ghosts, KeepStores, KeepRest, KeepGhosts
<1>k. s \in State /\ Shape(s, mode[p]) /\ raced \in BOOLEAN
  BY Known
<1>1. s.op # "load" /\ s.op # ""
  BY <1>u, <1>k DEF Shape
<1>2. t \in State /\ Shape(t, mode[p]) /\ t.pc = "read" /\ t.op = s.op
  BY <1>u, <1>k, WaitShape DEF Waiting
<1> HIDE DEF t
<1>3. Holding(t) /\ t.pc \notin Fetching \cup Changing
  BY <1>1, <1>2 DEF Holding, Fetching, Changing
<1>4. \A q \in Procs \ {p} : lock' = q <=> lock = q
  BY <1>u, HolderAssumption
<1> QED BY <1>u, <1>k, <1>2, <1>3, <1>4, RestKeeps

(* A lock file is judged stale. *)
LEMMA JudgeKeeps ==
  ASSUME IInv, NEW p \in Procs, Judge(p)
  PROVE  IInv'
<1> DEFINE s == st[p]
           t == [s EXCEPT !.pc = "steal"]
<1>u. /\ s.pc = "lock" /\ lock = "dead" /\ lock' = lock /\ st' = [st EXCEPT ![p] = t]
      /\ Still /\ UNCHANGED <<mode, stale, raced>>
  BY DEF Judge, At, Go, To, Still, stores, ghosts, KeepStores, KeepRest, KeepGhosts
<1>k. s \in State /\ Shape(s, mode[p]) /\ raced \in BOOLEAN /\ p \notin {"none", "dead"}
  BY Known
<1>1. s.op # "load" /\ s.op # ""
  BY <1>u, <1>k DEF Shape
<1>2. t \in State /\ Shape(t, mode[p]) /\ t.pc = "steal" /\ t.op = s.op
  BY <1>u, <1>k, <1>1, WaitShape DEF Waiting
<1> HIDE DEF t
<1>3. ~Holding(t) /\ t.pc \notin Fetching \cup Changing
  BY <1>1, <1>2 DEF Holding, Fetching, Changing
<1> QED BY <1>u, <1>k, <1>2, <1>3, RestKeeps

(* The lock file that was judged stale is removed. *)
LEMMA StealKeeps ==
  ASSUME IInv, NEW p \in Procs, Steal(p)
  PROVE  IInv'
<1> DEFINE s == st[p]
           t == [s EXCEPT !.pc = "lock"]
<1>u. /\ s.pc = "steal" /\ lock' = "none" /\ st' = [st EXCEPT ![p] = t]
      /\ Still /\ UNCHANGED <<mode, stale>> /\ raced' = (raced \/ lock \in Procs)
  BY DEF Steal, At, Go, To, Still, stores, KeepStores, KeepRest
<1>k. s \in State /\ Shape(s, mode[p]) /\ raced \in BOOLEAN /\ p \notin {"none", "dead"}
  BY Known
<1>1. s.op # "load" /\ s.op # ""
  BY <1>u, <1>k DEF Shape
<1>2. t \in State /\ Shape(t, mode[p]) /\ t.pc = "lock" /\ t.op = s.op
  BY <1>u, <1>k, <1>1, WaitShape DEF Waiting
<1> HIDE DEF t
<1>3. ~Holding(t) /\ t.pc \notin Fetching \cup Changing
  BY <1>1, <1>2 DEF Holding, Fetching, Changing
<1>4. ~raced' => \A q \in Procs \ {p} : lock' = q <=> lock = q
  BY <1>u, HolderAssumption
<1>5. raced' \in BOOLEAN /\ (raced => raced')
  BY <1>u, <1>k
<1> QED BY <1>u, <1>k, <1>2, <1>3, <1>4, <1>5, RestKeeps

(* The wait for the lock times out. *)
LEMMA GiveUpKeeps ==
  ASSUME IInv, NEW p \in Procs, GiveUp(p)
  PROVE  IInv'
<1>u. /\ st[p].pc = "lock" /\ lock' = lock /\ st' = [st EXCEPT ![p] = Idle]
      /\ Still /\ UNCHANGED <<mode, stale, raced>>
  BY DEF GiveUp, At, Go, Still, stores, ghosts, KeepStores, KeepRest, KeepGhosts
<1>k. /\ st[p] \in State /\ Shape(st[p], mode[p]) /\ raced \in BOOLEAN
      /\ lock \in Procs \cup {"none", "dead"} /\ (~raced => Locked(p))
  BY Known
<1>1. ~raced => lock # p
  BY <1>u, <1>k DEF Locked, Holding
<1>2. Idle.pc \notin Fetching \cup Changing
  BY IdleState DEF Fetching, Changing
<1> QED BY <1>u, <1>k, <1>1, <1>2, IdleState, IdleShape, RestKeeps

(* The lock file is removed by its holder. *)
LEMMA UnlockKeeps ==
  ASSUME IInv, NEW p \in Procs, Unlock(p)
  PROVE  IInv'
<1>u. /\ st[p].pc = "unlock" /\ lock' = "none" /\ st' = [st EXCEPT ![p] = Idle]
      /\ Still /\ UNCHANGED <<mode, stale>> /\ raced' = (raced \/ lock \in Procs \ {p})
  BY DEF Unlock, At, Go, Still, stores, KeepStores, KeepRest
<1>k. raced \in BOOLEAN /\ p \notin {"none", "dead"}
  BY Known
<1>1. ~raced' => \A q \in Procs \ {p} : lock' = q <=> lock = q
  BY <1>u, HolderAssumption
<1>2. Idle.pc \notin Fetching \cup Changing
  BY IdleState DEF Fetching, Changing
<1>3. raced' \in BOOLEAN /\ (raced => raced')
  BY <1>u, <1>k
<1> QED BY <1>u, <1>k, <1>1, <1>2, <1>3, IdleState, IdleShape, RestKeeps

(* A process dies. *)
LEMMA CrashKeeps ==
  ASSUME IInv, NEW p \in Procs, Crash(p)
  PROVE  IInv'
<1>u. /\ lock' = (IF lock = p THEN "dead" ELSE lock) /\ st' = [st EXCEPT ![p] = Idle]
      /\ Still /\ UNCHANGED <<mode, stale, raced>>
  BY DEF Crash, Go, Still, stores, ghosts, KeepStores, KeepRest, KeepGhosts
<1>k. raced \in BOOLEAN /\ p \notin {"none", "dead"} /\ lock \in Procs \cup {"none", "dead"}
  BY Known
<1>1. \A q \in Procs \ {p} : lock' = q <=> lock = q
  BY <1>u, HolderAssumption
<1>2. Idle.pc \notin Fetching \cup Changing
  BY IdleState DEF Fetching, Changing
<1>3. lock' # p /\ lock' \in Procs \cup {"none", "dead"}
  BY <1>u, <1>k
<1> QED BY <1>u, <1>k, <1>1, <1>2, <1>3, IdleState, IdleShape, RestKeeps

----------------------------------------------------------------------------
(* Reading the pool.                                                       *)

(* No account of which the removal was acknowledged can be loaded. *)
LEMMA GoneFromSource ==
  ASSUME Stored, ~raced
  PROVE  gone \cap Source = {}
BY DEF Stored, StaysRemoved, Source

(* An account with an acknowledged secret can be loaded. *)
LEMMA OwnedInSource ==
  ASSUME TypeOK, Stored, ~raced, NEW i \in Ids, owned[i] # 0
  PROVE  i \in Source
<1>1. Found(i) >= owned[i] /\ owned[i] \in Nat /\ legacy \in Nat
  BY DEF Stored, KeepsSecrets, TypeOK
<1>2. Found(i) # 0
  BY <1>1
<1> QED BY <1>2 DEF Found, Source, Stored, Issued

(* A pool that has just been loaded is ready to be changed. *)
LEMMA MergeOwn ==
  ASSUME NEW p \in Procs, Stored', ~raced', Locked(p)',
         st'[p].pc = "merge", st'[p].out = {},
         DOMAIN st'[p].pool \subseteq Source',
         Source' \subseteq DOMAIN st'[p].pool \/ Guarded(p)',
         ~st'[p].meta => \A i \in DOMAIN st'[p].pool : owned'[i] <= st'[p].pool[i],
         st'[p].meta => /\ file'.here /\ DOMAIN st'[p].pool \subseteq DOMAIN file'.rows
                        /\ \A i \in DOMAIN st'[p].pool : file'.rows[i] = 0,
         ~st'[p].meta /\ mode'[p] = "file" =>
           Valid(file'.rows) \/ (~Removal(st'[p]) /\ MetadataOnly(file'.rows)),
         mode'[p] = "keychain" => DOMAIN file'.rows = Source'
  PROVE  Own(p)'
<1>1. gone' \cap DOMAIN st'[p].pool = {}
  BY DEF Stored, StaysRemoved, Source
<1>2. Pooled(p)'
  BY <1>1 DEF Pooled
<1>3. Fetched(p)' /\ Entries(p)'
  BY DEF Fetched, Entries, Fetching
<1> QED BY <1>2, <1>3 DEF Own

(* The shape of a process whose pool has been loaded. *)
LEMMA MergeShape ==
  ASSUME NEW t, NEW m, t.pc = "merge", t.op \notin {"", "load"}, t.out = {}, t.todo = {},
         t.meta => Removal(t)
  PROVE  Shape(t, m) /\ Holding(t)
BY DEF Shape, Holding, Waiting, Fetching, Changing

(* A process reads the pool file and goes on in state t. *)
LEMMA ReadTo ==
  ASSUME IInv, NEW p \in Procs, NEW t \in State, st[p].pc = "read",
         st' = [st EXCEPT ![p] = t], Shape(t, mode[p]), Still,
         UNCHANGED <<lock, mode, raced>>, stale' = stale \ {p},
         Holding(t) <=> st[p].op # "load",
         ~raced' /\ Locked(p)' /\ Stored' => Own(p)'
  PROVE  IInv'
<1>k. TypeOK /\ raced \in BOOLEAN /\ (~raced => Stored /\ Locked(p))
  BY Known
<1>1. TypeOK'
  BY <1>k DEF TypeOK, Still
<1>2. st'[p] = t /\ \A q \in Procs \ {p} : st'[q] = st[q] /\ mode'[q] = mode[q]
  BY <1>k DEF TypeOK
<1>3. ASSUME ~raced' PROVE Apart(p) /\ Stored' /\ Own(p)'
  <2>1. Apart(p)
    BY <1>1, <1>3, <1>k, <1>2, StillApart
  <2>2. Stored'
    BY <1>1, <1>3, <1>k, StillStored
  <2>3. Locked(p)'
    BY <1>3, <1>k, <1>2 DEF Locked, Holding
  <2> QED BY <2>1, <2>2, <2>3, <1>3
<1> QED BY <1>1, <1>2, <1>3, MoveKeeps

(* The pool file, or the legacy file, has all the secrets. *)
LEMMA ReadLoaded ==
  ASSUME IInv, NEW p \in Procs, NEW v \in State, NEW r \in Rows, st[p].pc = "read",
         v.op = st[p].op, v.out = {}, v.todo = {}, v.meta = FALSE,
         st' = [st EXCEPT ![p] = Loaded(v, r)], Still,
         UNCHANGED <<lock, mode, raced>>, stale' = stale \ {p},
         DOMAIN r = Source, \A i \in DOMAIN r : r[i] = Found(i),
         mode[p] = "file" => Valid(file.rows),
         mode[p] = "keychain" => DOMAIN file.rows = Source
  PROVE  IInv'
<1>k. TypeOK /\ st[p] \in State /\ Shape(st[p], mode[p])
  BY Known
<1>1. v.op # ""
  BY <1>k DEF Shape
<1>2. CASE v.op = "load"
  <2>1. Loaded(v, r) = Idle
    BY <1>2 DEF Loaded
  <2>2. Idle.pc \notin Fetching \cup Changing
    BY IdleState DEF Fetching, Changing
  <2>3. st'[p].pc = "idle"
    BY <2>1, <1>k, IdleState DEF TypeOK
  <2>4. ~raced' /\ Locked(p)' /\ Stored' => Own(p)'
    BY <2>3, RestOwn DEF Fetching, Changing
  <2> QED BY <2>1, <2>2, <2>4, <1>2, IdleState, IdleShape, ReadTo
<1>3. CASE v.op # "load"
  <2> DEFINE t == [v EXCEPT !.pc = "merge", !.pool = r]
  <2>1. Loaded(v, r) = t
    BY <1>3 DEF Loaded
  <2>2. /\ t \in State /\ t.pc = "merge" /\ t.pool = r /\ t.out = {} /\ t.todo = {}
        /\ t.meta = FALSE /\ t.op = v.op
    BY DEF State, Changing
  <2> HIDE DEF t
  <2>3. Shape(t, mode[p]) /\ Holding(t)
    BY <2>2, <1>1, <1>3, MergeShape
  <2>4. st'[p] = t
    BY <2>1, <1>k DEF TypeOK
  <2>5. ASSUME ~raced', Locked(p)', Stored' PROVE Own(p)'
    <3>1. UNCHANGED <<file, legacy, chain, late, owned, mode>>
      BY DEF Still
    <3>2. Source' = Source
      BY <3>1 DEF Source
    <3>3. \A i \in DOMAIN r : owned'[i] <= r[i]
      <4> SUFFICES ASSUME NEW i \in DOMAIN r PROVE owned[i] <= r[i]
        BY <3>1
      <4>1. i \in Ids /\ r[i] \in Nat /\ owned[i] \in Nat
        BY RowsAre, <1>k DEF TypeOK
      <4>2. owned[i] # 0 => Found(i) >= owned[i]
        BY <4>1, <2>5, <3>1 DEF Stored, KeepsSecrets, Found
      <4>3. r[i] = Found(i)
        OBVIOUS
      <4> QED BY <4>1, <4>2, <4>3
    <3> QED BY <2>2, <2>4, <2>5, <3>1, <3>2, <3>3, MergeOwn
  <2> QED BY <2>1, <2>2, <2>3, <2>5, <1>3, ReadTo
<1> QED BY <1>2, <1>3

(* LoadSnapshot and loadPoolForRemoval read the pool file. *)
LEMMA ReadKeeps ==
  ASSUME IInv, NEW p \in Procs, Read(p)
  PROVE  IInv'
<1> DEFINE s == st[p]
           m == mode[p]
           rows == file.rows
           v == [s EXCEPT !.view = file]
           t == ReadView(s, m, p)
<1>u. /\ s.pc = "read" /\ st' = [st EXCEPT ![p] = t] /\ Still
      /\ UNCHANGED <<lock, mode, raced>> /\ stale' = stale \ {p}
  BY DEF Read, At, Go, Still, stores, KeepStores, KeepRest
<1>k. /\ TypeOK /\ s \in State /\ m \in {"file", "keychain"} /\ Shape(s, m)
      /\ raced \in BOOLEAN /\ (~raced => Stored /\ Locked(p))
  BY Known
<1>f. /\ file \in File /\ file.here \in BOOLEAN /\ rows \in Rows /\ DOMAIN rows \subseteq Ids
      /\ \A i \in DOMAIN rows : rows[i] \in Nat
  BY <1>k, FileFields DEF TypeOK
<1>s. s.op # "" /\ s.pool = NoRows /\ s.todo = {} /\ s.out = {} /\ ~s.meta /\ s.meta \in BOOLEAN
  BY <1>u, <1>k, StateFields DEF Shape, Waiting
<1>v. /\ v \in State /\ v.op = s.op /\ v.out = {} /\ v.todo = {} /\ v.meta = FALSE
      /\ v.pool = NoRows /\ v.view = file /\ v.pc = s.pc
  BY <1>k, <1>f, <1>s DEF State
<1>h. Removal(v) <=> Removal(s)
  BY <1>v DEF Removal
<1>l. st'[p] = t
  BY <1>u, <1>k DEF TypeOK
<1>w. UNCHANGED <<file, legacy, chain, late, marker, owned, mode, kind>>
  BY <1>u DEF Still
<1> HIDE DEF s, v, m
<1>1. CASE file.here /\ Removal(s) /\ MetadataOnly(rows)
  <2> DEFINE u == [v EXCEPT !.pc = "merge", !.pool = rows, !.meta = TRUE]
  <2>1. t = u
    BY <1>1 DEF ReadView, v
  <2>2. /\ u \in State /\ u.pc = "merge" /\ u.pool = rows /\ u.out = {} /\ u.todo = {}
        /\ u.meta = TRUE /\ u.op = s.op
    BY <1>v, <1>f DEF State, Changing
  <2> HIDE DEF u
  <2>3. Removal(u) /\ s.op \notin {"", "load"}
    BY <2>2, <1>1 DEF Removal
  <2>4. Shape(u, m) /\ Holding(u)
    BY <2>2, <2>3, MergeShape
  <2>5. ASSUME ~raced', Locked(p)', Stored' PROVE Own(p)'
    <3>1. Source' = DOMAIN rows /\ file' = file
      BY <1>1, <1>w DEF Source
    <3>2. \A i \in DOMAIN rows : rows[i] = 0
      BY <1>1 DEF MetadataOnly
    <3> QED BY <2>1, <2>2, <2>5, <3>1, <3>2, <1>1, <1>l, MergeOwn
  <2> QED BY <2>1, <2>2, <2>3, <2>4, <2>5, <1>u, ReadTo DEF s, m
<1>2. CASE file.here /\ Removal(s) /\ ~MetadataOnly(rows) /\ ~Valid(rows)
  <2> DEFINE u == [v EXCEPT !.pc = "unlock"]
  <2>1. t = u
    BY <1>2 DEF ReadView, v
  <2>2. u \in State /\ Shape(u, m) /\ Holding(u) /\ u.pc = "unlock"
    BY <1>v, <1>s, UnlockShape
  <2> HIDE DEF u
  <2>3. s.op # "load"
    BY <1>2 DEF Removal
  <2>4. st'[p].pc \notin Fetching \cup Changing
    BY <1>l, <2>1, <2>2 DEF Fetching, Changing
  <2>5. ~raced' /\ Locked(p)' /\ Stored' => Own(p)'
    BY <2>4, RestOwn
  <2> QED BY <2>1, <2>2, <2>3, <2>5, <1>u, ReadTo DEF s, m
<1>3. CASE file.here /\ Valid(rows) /\ (Removal(s) => ~MetadataOnly(rows))
           /\ (~Removal(s) => m # "keychain" /\ ~MetadataOnly(rows))
  <2>1. t = Loaded(v, rows)
    BY <1>3 DEF ReadView, v
  <2>2. Source = DOMAIN rows
    BY <1>3 DEF Source
  <2>3. \A i \in DOMAIN rows : rows[i] = Found(i)
    BY <1>3 DEF Found, Valid
  <2> QED BY <2>1, <2>2, <2>3, <1>v, <1>f, <1>3, <1>u, ReadLoaded DEF s, m
<1>4. CASE file.here /\ ~Removal(s) /\ m = "keychain"
  <2> DEFINE u == [v EXCEPT !.pc = "hydrate", !.todo = DOMAIN rows]
  <2>1. t = u
    BY <1>4 DEF ReadView, v
  <2>2. /\ u \in State /\ u.pc = "hydrate" /\ u.pool = NoRows /\ u.out = {} /\ u.todo = DOMAIN rows
        /\ u.op = s.op /\ u.view = file
    BY <1>v, <1>f DEF State, Fetching
  <2> HIDE DEF u
  <2>3. ~Removal(u)
    BY <2>2, <1>4 DEF Removal
  <2>4. Shape(u, m)
    BY <2>2, <2>3, <1>4, <1>s, NoRowsAre DEF Shape, Waiting, Fetching, Changing
  <2>5. Holding(u) <=> s.op # "load"
    BY <2>2 DEF Holding
  <2>6. ASSUME ~raced', Locked(p)', Stored' PROVE Own(p)'
    <3>1. Fetched(p)'
      BY <2>1, <2>2, <1>l, <1>w, NoRowsAre DEF Fetched
    <3>2. Pooled(p)' /\ Entries(p)'
      BY <2>1, <2>2, <1>l DEF Pooled, Entries, Changing
    <3> QED BY <3>1, <3>2, <2>6 DEF Own
  <2> QED BY <2>1, <2>2, <2>4, <2>5, <2>6, <1>u, ReadTo DEF s, m
<1>5. CASE file.here /\ ~Removal(s) /\ m # "keychain" /\ MetadataOnly(rows)
  <2> DEFINE u == [v EXCEPT !.pc = "restore", !.todo = DOMAIN rows]
  <2>1. t = u
    BY <1>5 DEF ReadView, v
  <2>2. /\ u \in State /\ u.pc = "restore" /\ u.pool = NoRows /\ u.out = {} /\ u.todo = DOMAIN rows
        /\ u.op = s.op /\ u.view = file
    BY <1>v, <1>f DEF State, Fetching
  <2> HIDE DEF u
  <2>3. ~Removal(u) /\ m = "file"
    BY <2>2, <1>5, <1>k DEF Removal, m
  <2>4. Shape(u, m)
    BY <2>2, <2>3, <1>5, <1>s, NoRowsAre DEF Shape, Waiting, Fetching, Changing
  <2>5. Holding(u) <=> s.op # "load"
    BY <2>2 DEF Holding
  <2>6. ASSUME ~raced', Locked(p)', Stored' PROVE Own(p)'
    <3>1. Fetched(p)'
      BY <2>1, <2>2, <1>l, <1>w, NoRowsAre DEF Fetched
    <3>2. Pooled(p)' /\ Entries(p)'
      BY <2>1, <2>2, <1>l DEF Pooled, Entries, Changing
    <3> QED BY <3>1, <3>2, <2>6 DEF Own
  <2> QED BY <2>1, <2>2, <2>4, <2>5, <2>6, <1>u, ReadTo DEF s, m
<1>6. CASE file.here /\ ~Removal(s) /\ m # "keychain" /\ ~MetadataOnly(rows) /\ ~Valid(rows)
  <2>1. t = Ended(v, p)
    BY <1>6 DEF ReadView, v
  <2>2. CASE v.op # "load"
    <3> DEFINE u == [v EXCEPT !.pc = "unlock"]
    <3>1. t = u
      BY <2>1, <2>2 DEF Ended
    <3>2. u \in State /\ Shape(u, m) /\ Holding(u) /\ u.pc = "unlock"
      BY <1>v, <1>s, UnlockShape
    <3> HIDE DEF u
    <3>4. st'[p].pc \notin Fetching \cup Changing
      BY <1>l, <3>1, <3>2 DEF Fetching, Changing
    <3>5. ~raced' /\ Locked(p)' /\ Stored' => Own(p)'
      BY <3>4, RestOwn
    <3> QED BY <3>1, <3>2, <3>5, <2>2, <1>v, <1>u, ReadTo DEF s, m
  <2>3. CASE v.op = "load" /\ lock # p
    <3>1. t = Idle
      BY <2>1, <2>3 DEF Ended
    <3>2. Idle \in State /\ Shape(Idle, m) /\ ~Holding(Idle)
      BY IdleState, IdleShape
    <3>4. st'[p].pc \notin Fetching \cup Changing
      BY <1>l, <3>1, IdleState DEF Fetching, Changing
    <3>5. ~raced' /\ Locked(p)' /\ Stored' => Own(p)'
      BY <3>4, RestOwn
    <3> QED BY <3>1, <3>2, <3>5, <2>3, <1>v, <1>u, ReadTo DEF s, m
  <2>4. CASE v.op = "load" /\ lock = p
    <3>1. raced
      BY <2>4, <1>k, <1>u, <1>v DEF Locked, Holding, s
    <3> DEFINE u == [v EXCEPT !.pc = "unlock"]
    <3>2. t = u
      BY <2>1, <2>4 DEF Ended
    <3>3. u \in State /\ Shape(u, m)
      BY <1>v, <1>s, UnlockShape
    <3> HIDE DEF u
    <3>4. TypeOK'
      BY <1>u, <1>k, <3>2, <3>3 DEF TypeOK, Still
    <3>5. raced' /\ \A q \in Procs : mode'[q] = mode[q]
      BY <3>1, <1>u
    <3> QED BY <3>2, <3>3, <3>4, <3>5, <1>u, MoveKeeps DEF m
  <2> QED BY <2>2, <2>3, <2>4
<1>7. CASE ~file.here /\ (legacy = 0 \/ m = "file")
  <2> DEFINE r == IF legacy = 0 THEN NoRows ELSE Put(NoRows, LegacyId, legacy)
  <2>1. t = Loaded(v, r)
    BY <1>7 DEF ReadView, v
  <2>2. LegacyId \in Ids /\ legacy \in Nat
    BY <1>k, AccountsAssumption DEF TypeOK
  <2>3. Put(NoRows, LegacyId, legacy) \in Rows
        /\ DOMAIN Put(NoRows, LegacyId, legacy) = {LegacyId}
        /\ Put(NoRows, LegacyId, legacy)[LegacyId] = legacy
    BY <2>2, OneRow
  <2>4. CASE ~raced
    <3>1. DOMAIN rows = {}
      BY <1>7, <1>k, <2>4 DEF Stored, Issued
    <3>2. r \in Rows /\ DOMAIN r = Source
      BY <2>3, <3>1, <1>7, NoRowsAre DEF Source
    <3>3. \A i \in DOMAIN r : r[i] = Found(i)
      BY <2>3, <1>7, NoRowsAre DEF Found
    <3>4. Valid(rows) /\ (m = "keychain" => DOMAIN rows = Source)
      BY <3>1, <1>7 DEF Valid, Source
    <3> HIDE DEF r
    <3> QED BY <2>1, <3>2, <3>3, <3>4, <1>v, <1>u, ReadLoaded DEF s, m
  <2>5. CASE raced
    <3>1. r \in Rows
      BY <2>3, NoRowsAre
    <3> HIDE DEF r
    <3> DEFINE u == [v EXCEPT !.pc = "merge", !.pool = r]
    <3>2. t = Idle \/ (t = u /\ v.op # "load")
      BY <2>1 DEF Loaded
    <3>3. /\ u \in State /\ u.pc = "merge" /\ u.out = {} /\ u.todo = {}
          /\ u.meta = FALSE /\ u.op = v.op
      BY <1>v, <3>1 DEF State, Changing
    <3> HIDE DEF u
    <3>4. v.op # "load" => Shape(u, m)
      BY <3>3, <1>v, <1>s, MergeShape
    <3>5. t \in State /\ Shape(t, m)
      BY <3>2, <3>3, <3>4, IdleState, IdleShape
    <3> HIDE DEF t
    <3>6. TypeOK'
      BY <1>u, <1>k, <3>5 DEF TypeOK, Still
    <3>7. raced' /\ \A q \in Procs : mode'[q] = mode[q]
      BY <2>5, <1>u
    <3> QED BY <3>5, <3>6, <3>7, <1>u, MoveKeeps DEF m
  <2> QED BY <2>4, <2>5, <1>k
<1>8. CASE ~file.here /\ legacy # 0 /\ m # "file"
  <2> DEFINE r == Put(NoRows, LegacyId, legacy)
             u == [v EXCEPT !.pc = "legacy", !.pool = r]
  <2>1. t = u
    BY <1>8 DEF ReadView, v
  <2>2. LegacyId \in Ids /\ legacy \in Nat
    BY <1>k, AccountsAssumption DEF TypeOK
  <2>3. r \in Rows /\ DOMAIN r = {LegacyId} /\ r[LegacyId] = legacy
    BY <2>2, OneRow
  <2> HIDE DEF r
  <2>4. /\ u \in State /\ u.pc = "legacy" /\ u.pool = r /\ u.out = {} /\ u.todo = {}
        /\ u.op = s.op /\ u.view = file /\ u.meta = FALSE
    BY <1>v, <2>3 DEF State, Fetching
  <2> HIDE DEF u
  <2>5. m = "keychain"
    BY <1>8, <1>k DEF m
  <2>6. Shape(u, m)
    BY <2>3, <2>4, <2>5, <1>8, <1>s DEF Shape, Waiting, Fetching, Changing
  <2>7. Holding(u) <=> s.op # "load"
    BY <2>4 DEF Holding
  <2>8. ASSUME ~raced', Locked(p)', Stored' PROVE Own(p)'
    <3>1. owned'[LegacyId] <= r[LegacyId]
      <4>1. owned[LegacyId] \in Nat /\ (owned[LegacyId] # 0 => Found(LegacyId) >= owned[LegacyId])
        BY <2>2, <2>8, <1>u, <1>k DEF Stored, KeepsSecrets, TypeOK
      <4>2. Found(LegacyId) = legacy
        BY <1>8 DEF Found
      <4> QED BY <4>1, <4>2, <2>2, <2>3, <1>w
    <3>2. Fetched(p)'
      BY <2>1, <2>3, <2>4, <3>1, <1>8, <1>l, <1>w DEF Fetched
    <3>3. Pooled(p)' /\ Entries(p)'
      BY <2>1, <2>4, <1>l DEF Pooled, Entries, Changing
    <3> QED BY <3>2, <3>3, <2>8 DEF Own
  <2> QED BY <2>1, <2>4, <2>6, <2>7, <2>8, <1>u, ReadTo DEF s, m
<1> QED
  <2>1. file.here \in BOOLEAN
    BY <1>f
  <2> QED BY <2>1, <1>1, <1>2, <1>3, <1>4, <1>5, <1>6, <1>7, <1>8

----------------------------------------------------------------------------
(* Fetching the secrets.                                                   *)

(* What is stored keeps its properties when one entry of the keychain      *)
(* changes and what is sure stays so.                                      *)
LEMMA ChangeStored ==
  ASSUME TypeOK, TypeOK', Stored, ~raced, ~raced', NEW i \in Ids,
         \A j \in Ids : j # i => chain'[j] = chain[j],
         UNCHANGED <<kind, file, legacy, marker, ver, owned, gone>>,
         \A j \in stray : j # i => j \in stray',
         chain'[i] # 0 => i \in stray', \A j \in Ids : Sure(j) => Sure(j)'
  PROVE  Stored'
<1>2. Issued'
  BY DEF Stored, Issued
<1>3. Entered'
  BY DEF Stored, Entered
<1>4. StaysRemoved'
  BY DEF Stored, StaysRemoved
<1>5. RemovalCleans'
  <2> SUFFICES ASSUME NEW j \in gone PROVE j \in stray' \/ chain'[j] = 0
    BY DEF RemovalCleans
  <2>1. j \in Ids /\ (j \in stray \/ chain[j] = 0)
    BY DEF Stored, RemovalCleans, TypeOK
  <2> QED BY <2>1
<1>h. Held'
  BY FileFields DEF Stored, Held
<1>6. KeepsSecrets'
  <2> SUFFICES ASSUME NEW j \in Ids, owned[j] # 0 PROVE Found(j)' >= owned[j]
    BY DEF KeepsSecrets
  <2>1. Found(j) >= owned[j]
    BY DEF Stored, KeepsSecrets
  <2>2. /\ chain'[j] \in Nat /\ owned[j] \in Nat
        /\ j \in DOMAIN file.rows /\ file.rows[j] = 0 => owned[j] <= chain'[j]
    BY <1>h DEF TypeOK, Held, Sure
  <2>3. Found(j)' = Found(j) \/ (j \in DOMAIN file.rows /\ file.rows[j] = 0 /\ Found(j)' = chain'[j])
    BY DEF Found
  <2> QED BY <2>1, <2>2, <2>3
<1> QED BY <1>2, <1>3, <1>4, <1>5, <1>6, <1>h DEF Stored

(* A call leaves everything sure when it sets a secret that is no older.    *)
LEMMA CallSure ==
  ASSUME TypeOK, TypeOK', NEW i \in Ids, NEW w \in Nat, Call(i, w), owned[i] <= w, owned' = owned
  PROVE  \A j \in Ids : Sure(j) => Sure(j)'
<1>1. chain'[i] = w /\ Later /\ \A j \in Ids : j # i => chain'[j] = chain[j]
  BY CallMade
<1>2. \A j \in Ids : owned'[j] <= owned[j]
  BY DEF TypeOK
<1>3. ASSUME NEW j \in Ids, Sure(j) PROVE Sure(j)'
  <2>1. chain'[j] = chain[j] \/ owned[j] <= chain'[j]
    BY <1>1
  <2>2. \A c \in late' : c.id = j => c \in late \/ c.old \/ owned[j] <= c.v
    BY <1>1 DEF Later
  <2> QED BY <1>2, <1>3, <2>1, <2>2, SureStays
<1> QED BY <1>3

(* The same for a call that sets one entry. *)
LEMMA EntryStored ==
  ASSUME TypeOK, TypeOK', Stored, ~raced, ~raced', NEW i \in Ids, NEW w \in Nat, Call(i, w),
         UNCHANGED <<kind, file, legacy, marker, ver, owned, gone>>,
         \A j \in stray : j # i => j \in stray',
         w # 0 => i \in stray', owned[i] <= w
  PROVE  Stored'
BY CallMade, CallSure, ChangeStored

(* The others rely on no entry that a process changes while none of them   *)
(* holds the lock, unless it is older than the secret owned.               *)
LEMMA EntryApart ==
  ASSUME TypeOK, TypeOK', NEW p \in Procs, NEW t, st' = [st EXCEPT ![p] = t],
         lock \notin Procs \ {p}, NEW i \in Ids, NEW w \in Nat, owned[i] <= w, Call(i, w),
         UNCHANGED <<kind, file, legacy, owned, lock, mode, stale>>
  PROVE  Apart(p)
<1>1. \A q \in Procs \ {p} : st'[q] = st[q] /\ mode'[q] = mode[q] /\ lock # q
  BY DEF TypeOK
<1>2. \A j \in Ids : owned'[j] <= owned[j]
  BY DEF TypeOK
<1>3. \A j \in Ids : Sure(j) => Sure(j)'
  BY CallSure
<1> QED BY <1>1, <1>2, <1>3 DEF Apart

(* A migration that no concurrent change has met. *)
LEMMA SafeMigration ==
  ASSUME IInv, ~raced, NEW p \in Procs, ~Unsafe(p),
         st[p].pc \in {"hydrate", "legacy", "legacy file"}
  PROVE  lock \notin Procs \ {p} /\ p \notin stale
<1>1. Locked(p)
  BY Known
<1>2. CASE lock = p
  <2>1. Holding(st[p])
    BY <1>1, <1>2 DEF Locked
  <2>2. st[p].op # "load"
    BY <2>1 DEF Holding
  <2> QED BY <1>1, <1>2, <2>1, <2>2 DEF Locked
<1>3. CASE lock # p
  BY <1>3 DEF Unsafe
<1> QED BY <1>2, <1>3

(* The next row of the pool is fetched. *)
LEMMA FetchRow ==
  ASSUME NEW s, NEW t, NEW m, Shape(s, m), s.pc = "hydrate", NEW i \in s.todo,
         t.pc = s.pc, t.op = s.op, t.view = s.view, t.out = s.out,
         DOMAIN t.pool = {i} \cup DOMAIN s.pool, t.todo = s.todo \ {i}
  PROVE  Shape(t, m) /\ (Holding(t) <=> Holding(s))
<1>1. Removal(t) <=> Removal(s)
  BY DEF Removal
<1>2. /\ s.view.here /\ s.todo \subseteq DOMAIN s.view.rows /\ s.out = {} /\ ~Removal(s)
      /\ DOMAIN s.pool = DOMAIN s.view.rows \ s.todo /\ m = "keychain" /\ s.op # ""
  BY DEF Shape, Fetching
<1>3. t.todo \subseteq DOMAIN t.view.rows /\ DOMAIN t.pool = DOMAIN t.view.rows \ t.todo
  BY <1>2
<1>4. t.pc = "hydrate" /\ t.view.here /\ t.out = {} /\ t.op # ""
  BY <1>2
<1>5. Shape(t, m)
  BY ONLY <1>1, <1>2, <1>3, <1>4 DEF Shape, Waiting, Fetching, Changing
<1> QED BY <1>5 DEF Holding

(* loadSnapshotKeychain visits a row. *)
LEMMA HydrateKeeps ==
  ASSUME IInv, NEW p \in Procs, Hydrate(p)
  PROVE  IInv'
<1> DEFINE s == st[p]
           m == mode[p]
           i == Min(s.todo)
           v == s.view.rows[i]
           w == IF v # 0 THEN v ELSE chain[i]
           next == [s EXCEPT !.todo = @ \ {i}, !.pool = Put(@, i, w)]
<1>u. /\ s.pc = "hydrate" /\ s.todo # {}
      /\ UNCHANGED <<kind, file, legacy, marker, ver, owned, gone, lock, mode, stale>>
      /\ \/ /\ v # 0 /\ ~TooLarge(i, v) /\ Call(i, v)
            /\ stray' = stray \cup {i} /\ raced' = (raced \/ Unsafe(p))
            /\ Go(p, [next EXCEPT !.meta = TRUE])
         \/ /\ IF v # 0 THEN TooLarge(i, v) ELSE chain[i] # 0
            /\ Go(p, next) /\ UNCHANGED <<chain, late, stray, raced>>
         \/ /\ Abort(p) /\ UNCHANGED <<stray, raced>>
            /\ (v # 0 /\ CallFails(i, v, Unsafe(p))) \/ UNCHANGED <<chain, late>>
  BY DEF Hydrate, At, KeepRest
<1>k. /\ TypeOK /\ s \in State /\ m \in {"file", "keychain"} /\ Shape(s, m)
      /\ raced \in BOOLEAN /\ (~raced => Stored /\ Locked(p) /\ Fetched(p))
  BY Known
<1>i. i \in s.todo /\ i \in Ids
  <2>1. s.todo \subseteq Ids /\ Ids \subseteq Nat
    BY <1>k, StateFields, AccountsAssumption
  <2> QED BY <2>1, <1>u, MinIn
<1>v. /\ i \in DOMAIN s.view.rows /\ v \in Nat /\ chain[i] \in Nat /\ w \in Nat /\ s.view.here
      /\ s.meta \in BOOLEAN /\ s.pool \in Rows /\ m = "keychain"
  <2>1. i \in DOMAIN s.view.rows /\ s.view.here /\ m = "keychain"
    BY <1>u, <1>k, <1>i DEF Shape
  <2> QED BY <2>1, <1>i, <1>k, StateFields DEF TypeOK
<1>n. next = [s EXCEPT !.todo = s.todo \ {i}, !.pool = Put(s.pool, i, w), !.meta = s.meta]
  BY <1>k DEF State
<1>m. [next EXCEPT !.meta = TRUE]
        = [s EXCEPT !.todo = s.todo \ {i}, !.pool = Put(s.pool, i, w), !.meta = TRUE]
  BY <1>k DEF State
<1> HIDE DEF next, i
<1>p. /\ Put(s.pool, i, w) \in Rows
      /\ DOMAIN Put(s.pool, i, w) = {i} \cup DOMAIN s.pool /\ Put(s.pool, i, w)[i] = w
      /\ \A j \in DOMAIN s.pool : j # i => Put(s.pool, i, w)[j] = s.pool[j]
  <2> DEFINE r == s.pool
             x == w
  <2>1. r \in Rows /\ i \in Ids /\ x \in Nat
    BY <1>i, <1>v
  <2> HIDE DEF r, x
  <2>2. /\ Put(r, i, x) \in Rows
        /\ DOMAIN Put(r, i, x) = {i} \cup DOMAIN r /\ Put(r, i, x)[i] = x
        /\ \A j \in DOMAIN r : j # i => Put(r, i, x)[j] = r[j]
    BY ONLY <2>1, PutRow
  <2> QED BY <2>2 DEF r, x
<1>o. ASSUME ~raced, p \notin stale PROVE s.view = file /\ owned[i] <= w /\ (v = 0 => Sure(i))
  <2>1. s.view = file
    BY <1>o, <1>u, <1>k DEF Fetched, Fetching
  <2>2. owned[i] # 0 => Found(i) >= owned[i]
    BY <1>o, <1>k, <1>i DEF Stored, KeepsSecrets
  <2>3. Found(i) = w
    BY <2>1, <1>v DEF Found
  <2>4. owned[i] \in Nat
    BY <1>k, <1>i DEF TypeOK
  <2>5. v = 0 => Sure(i)
    BY <2>1, <1>o, <1>k, <1>v DEF Stored, Held
  <2> QED BY <2>1, <2>2, <2>3, <2>4, <2>5, <1>v
<1>1. CASE /\ v # 0 /\ ~TooLarge(i, v) /\ Call(i, v)
           /\ stray' = stray \cup {i} /\ raced' = (raced \/ Unsafe(p))
           /\ Go(p, [next EXCEPT !.meta = TRUE])
  <2> DEFINE t == [next EXCEPT !.meta = TRUE]
  <2> HIDE DEF t
  <2>1. /\ t \in State /\ Shape(t, m) /\ (Holding(t) <=> Holding(s))
        /\ t.pc = "hydrate" /\ t.op = s.op /\ t.view = s.view /\ t.pool = Put(s.pool, i, w)
    <3>1. /\ t \in State /\ t.pc = s.pc /\ t.op = s.op /\ t.view = s.view /\ t.out = s.out
          /\ t.pool = Put(s.pool, i, w) /\ t.todo = s.todo \ {i}
      <4> DEFINE a == s.todo \ {i}
                 b == Put(s.pool, i, w)
      <4>1. t = [s EXCEPT !.todo = a, !.pool = b, !.meta = TRUE]
        BY <1>m DEF t
      <4>2. s \in State /\ a \subseteq Ids /\ b \in Rows
        BY <1>k, <1>p DEF State
      <4> HIDE DEF a, b, s
      <4>3. /\ t \in State /\ t.pc = s.pc /\ t.op = s.op /\ t.view = s.view /\ t.out = s.out
            /\ t.pool = b /\ t.todo = a
        BY ONLY <4>1, <4>2 DEF State
      <4> QED BY <4>3 DEF a, b
    <3>2. Shape(s, m) /\ s.pc = "hydrate" /\ i \in s.todo
      BY <1>k, <1>u, <1>i
    <3>3. DOMAIN t.pool = {i} \cup DOMAIN s.pool
      BY <3>1, <1>p
    <3> HIDE DEF s, m, w
    <3> QED BY <3>1, <3>2, <3>3, FetchRow
  <2>2. st' = [st EXCEPT ![p] = t] /\ st'[p] = t
    BY <1>1, <1>k DEF Go, t, TypeOK
  <2>c. /\ chain' \in [Ids -> Nat] /\ late' \in SUBSET Calls /\ Later
        /\ chain'[i] = v /\ \A j \in Ids : j # i => chain'[j] = chain[j]
        /\ Fixes(i, v)
    BY <1>1, <1>k, <1>i, <1>v, CallMade
  <2>3. TypeOK'
    BY <1>1, <1>u, <1>k, <1>i, <1>v, <2>c, <2>1, <2>2 DEF TypeOK, Unsafe
  <2>4. ASSUME ~raced' PROVE Apart(p) /\ Stored' /\ Own(p)'
    <3>1. ~raced /\ ~Unsafe(p)
      BY <2>4, <1>1
    <3>2. lock \notin Procs \ {p} /\ p \notin stale
      BY <3>1, <1>u, SafeMigration
    <3>3. s.view = file /\ owned[i] <= v
      BY <3>1, <3>2, <1>o, <1>1
    <3>4. Apart(p)
      BY <3>2, <3>3, <1>u, <1>k, <1>1, <1>i, <1>v, <2>2, <2>3, EntryApart
    <3>5. Stored'
      BY <3>1, <2>4, <2>3, <3>3, <1>u, <1>k, <1>1, <1>i, <1>v, EntryStored
    <3>6. Locked(p)'
      BY <3>1, <1>k, <1>u, <2>1, <2>2 DEF Locked
    <3>7. /\ s.view = file
          /\ \A j \in DOMAIN s.pool : owned[j] <= s.pool[j] /\ (~TooLarge(j, s.pool[j]) => Sure(j))
      BY <3>1, <3>2, <1>k, <1>u, <1>v DEF Fetched, Fetching
    <3>8. Secures(i) /\ \A j \in Ids : Sure(j) => Sure(j)'
      <4>1. \A j \in Ids : Sure(j) => Sure(j)'
        BY <3>3, <2>3, <1>1, <1>u, <1>k, <1>i, <1>v, CallSure
      <4>2. Secures(i)
        BY <2>c, <3>3, <1>u DEF Fixes, Secures
      <4> QED BY <4>1, <4>2
    <3>9. DOMAIN s.pool \subseteq Ids
      BY <1>k, StateFields
    <3>10. \A j \in DOMAIN t.pool : owned'[j] <= t.pool[j]
      BY <3>3, <3>7, <2>1, <1>p, <1>u, <1>1
    <3>11. \A j \in DOMAIN t.pool : ~TooLarge(j, t.pool[j]) => Sure(j)'
      <4> SUFFICES ASSUME NEW j \in DOMAIN t.pool, ~TooLarge(j, t.pool[j]), j # i PROVE Sure(j)'
        BY <3>8 DEF Secures, Sure
      <4>1. j \in DOMAIN s.pool /\ t.pool[j] = s.pool[j]
        BY <2>1, <1>p
      <4> QED BY <4>1, <3>7, <3>8, <3>9
    <3>12. Fetched(p)'
      BY <3>7, <3>10, <3>11, <2>1, <2>2, <1>u DEF Fetched, TooLarge
    <3>13. Pooled(p)' /\ Entries(p)'
      BY <2>1, <2>2 DEF Pooled, Entries, Changing
    <3> QED BY <3>4, <3>5, <3>6, <3>12, <3>13 DEF Own
  <2> QED BY <2>1, <2>2, <2>3, <2>4, <1>1, <1>u, MoveKeeps
<1>2. CASE /\ IF v # 0 THEN TooLarge(i, v) ELSE chain[i] # 0
           /\ Go(p, next) /\ UNCHANGED <<chain, late, stray, raced>>
  <2>1. /\ next \in State /\ Shape(next, m) /\ (Holding(next) <=> Holding(s))
        /\ next.pc = "hydrate" /\ next.op = s.op /\ next.view = s.view
        /\ next.pool = Put(s.pool, i, w)
    <3>1. /\ next \in State /\ next.pc = s.pc /\ next.op = s.op /\ next.view = s.view
          /\ next.out = s.out /\ next.pool = Put(s.pool, i, w) /\ next.todo = s.todo \ {i}
      BY <1>n, <1>k, <1>p DEF State
    <3>2. Shape(s, m) /\ s.pc = "hydrate" /\ i \in s.todo
      BY <1>k, <1>u, <1>i
    <3>3. DOMAIN next.pool = {i} \cup DOMAIN s.pool
      BY <3>1, <1>p
    <3> HIDE DEF s, m, w
    <3> QED BY <3>1, <3>2, <3>3, FetchRow
  <2>2. st' = [st EXCEPT ![p] = next] /\ st'[p] = next
    BY <1>2, <1>k DEF Go, TypeOK
  <2>3. Still
    BY <1>2, <1>u DEF Still
  <2>4. TypeOK'
    BY <1>2, <1>u, <1>k, <2>1, <2>2 DEF TypeOK
  <2>5. ASSUME ~raced' PROVE Apart(p) /\ Stored' /\ Own(p)'
    <3>1. ~raced
      BY <2>5, <1>2
    <3>2. Apart(p)
      <4>1. \A q \in Procs \ {p} : st'[q] = st[q] /\ mode'[q] = mode[q]
        BY <2>2, <1>u, <1>k DEF TypeOK
      <4> QED BY <3>1, <4>1, <2>3, <2>4, <1>u, <1>k, StillApart
    <3>3. Stored'
      BY <3>1, <2>5, <2>3, <2>4, <1>k, StillStored
    <3>4. Locked(p)'
      BY <3>1, <1>k, <1>u, <2>1, <2>2 DEF Locked
    <3>5. ASSUME p \notin stale PROVE Fetched(p)'
      <4>1. /\ s.view = file
            /\ \A j \in DOMAIN s.pool : owned[j] <= s.pool[j] /\ (~TooLarge(j, s.pool[j]) => Sure(j))
        BY <3>1, <3>5, <1>k, <1>u, <1>v DEF Fetched, Fetching
      <4>2. owned[i] <= w /\ (v = 0 => Sure(i))
        BY <3>1, <3>5, <1>o
      <4>3. \A j \in DOMAIN next.pool : owned'[j] <= next.pool[j]
        BY <4>1, <4>2, <2>1, <1>p, <1>u
      <4>4. ~TooLarge(i, w) => v = 0
        BY <1>2
      <4>5. \A j \in DOMAIN next.pool : ~TooLarge(j, next.pool[j]) => Sure(j)'
        <5> SUFFICES ASSUME NEW j \in DOMAIN next.pool, ~TooLarge(j, next.pool[j]) PROVE Sure(j)
          BY <1>2, <1>u DEF Sure
        <5>2. CASE j = i
          BY <5>2, <4>2, <4>4, <2>1, <1>p
        <5>3. CASE j # i
          BY <5>3, <4>1, <2>1, <1>p
        <5> QED BY <5>2, <5>3
      <4> QED BY <4>1, <4>3, <4>5, <2>1, <2>2, <1>u DEF Fetched, TooLarge
    <3>6. Fetched(p)'
      BY <3>5, <1>u DEF Fetched
    <3>7. Pooled(p)' /\ Entries(p)'
      BY <2>1, <2>2 DEF Pooled, Entries, Changing
    <3> QED BY <3>2, <3>3, <3>4, <3>6, <3>7 DEF Own
  <2> QED BY <2>1, <2>2, <2>4, <2>5, <1>2, <1>u, MoveKeeps
<1>3. CASE /\ Abort(p) /\ UNCHANGED <<stray, raced>>
           /\ (v # 0 /\ CallFails(i, v, Unsafe(p))) \/ UNCHANGED <<chain, late>>
  <2>1. s.pc \in Fetching
    BY <1>u DEF Fetching
  <2>2. Still \/ Quiet(p)
    <3>1. CASE UNCHANGED <<chain, late>>
      BY <3>1, <1>3, <1>u DEF Still
    <3>2. CASE v # 0 /\ CallFails(i, v, Unsafe(p))
      <4>1. ~raced /\ ~Unsafe(p) => lock \notin Procs \ {p} /\ owned[i] <= v
        BY <3>2, <1>u, <1>o, SafeMigration
      <4>2. Unsafe(p) \in BOOLEAN
        BY DEF Unsafe
      <4> HIDE DEF s, v
      <4> QED BY <3>2, <4>1, <4>2, <1>3, <1>u, <1>k, <1>i, <1>v, FailsQuiet
    <3> QED BY <3>1, <3>2, <1>3
  <2> QED BY <2>1, <2>2, <1>3, <1>u, AbortKeeps
<1> QED BY <1>u, <1>1, <1>2, <1>3

(* A step that touches no store and moves one process to state t. *)
LEMMA StillMove ==
  ASSUME IInv, NEW p \in Procs, NEW t \in State, st' = [st EXCEPT ![p] = t],
         Shape(t, mode[p]), Still, UNCHANGED <<mode, stale, raced>>,
         lock' \in Procs \cup {"none", "dead"},
         \A q \in Procs \ {p} : lock' = q <=> lock = q,
         ~raced => (lock' = p <=> Holding(t)),
         ~raced => (Holding(t) /\ t.op # "load" /\ t.pc # "read" => p \notin stale),
         ~raced /\ Stored' /\ Locked(p)' => Own(p)'
  PROVE  IInv'
<1>k. TypeOK /\ (~raced => Stored)
  BY Known
<1>1. TypeOK'
  BY <1>k DEF TypeOK, Still
<1>2. st'[p] = t /\ \A q \in Procs \ {p} : st'[q] = st[q] /\ mode'[q] = mode[q]
  BY <1>k DEF TypeOK
<1>3. ASSUME ~raced' PROVE Apart(p) /\ Stored' /\ Own(p)'
  <2>1. Apart(p)
    BY <1>1, <1>3, <1>k, <1>2, StillApart
  <2>2. Stored'
    BY <1>1, <1>3, <1>k, StillStored
  <2>3. Locked(p)'
    BY <1>2, <1>3 DEF Locked
  <2> QED BY <2>1, <2>2, <2>3, <1>3
<1> QED BY <1>1, <1>2, <1>3, MoveKeeps

(* The shape of a process that has visited a row of the metadata pool. *)
LEMMA RestoreShape ==
  ASSUME NEW s, NEW t, NEW m, Shape(s, m), s.pc = "restore", NEW i \in s.todo,
         t.pc = s.pc, t.op = s.op, t.view = s.view, t.out = s.out,
         DOMAIN t.pool \subseteq {i} \cup DOMAIN s.pool, t.todo = s.todo \ {i}
  PROVE  Shape(t, m) /\ (Holding(t) <=> Holding(s))
<1>1. Removal(t) <=> Removal(s)
  BY DEF Removal
<1>2. /\ s.view.here /\ s.todo \subseteq DOMAIN s.view.rows /\ s.out = {} /\ ~Removal(s)
      /\ DOMAIN s.pool \subseteq DOMAIN s.view.rows \ s.todo /\ m = "file" /\ s.op # ""
      /\ MetadataOnly(s.view.rows)
  BY DEF Shape, Fetching
<1>3. t.todo \subseteq DOMAIN t.view.rows /\ DOMAIN t.pool \subseteq DOMAIN t.view.rows \ t.todo
  BY <1>2
<1>4. t.pc = "restore" /\ t.view.here /\ t.out = {} /\ t.op # "" /\ MetadataOnly(t.view.rows)
  BY <1>2
<1>5. Shape(t, m)
  BY ONLY <1>1, <1>2, <1>3, <1>4 DEF Shape, Waiting, Fetching, Changing
<1> QED BY <1>5 DEF Holding

(* restoreFromKeychain visits a row. *)
LEMMA RestoreKeeps ==
  ASSUME IInv, NEW p \in Procs, Restore(p)
  PROVE  IInv'
<1> DEFINE s == st[p]
           m == mode[p]
           i == Min(s.todo)
           next == [s EXCEPT !.todo = @ \ {i}]
           more == [next EXCEPT !.pool = Put(@, i, chain[i])]
<1>u. /\ s.pc = "restore" /\ s.todo # {} /\ Still
      /\ UNCHANGED <<lock, mode, stale, raced>>
      /\ \/ st' = [st EXCEPT ![p] = more]
         \/ st' = [st EXCEPT ![p] = next]
  BY DEF Restore, At, Go, Still, stores, ghosts, KeepStores, KeepRest, KeepGhosts
<1>k. /\ TypeOK /\ s \in State /\ m \in {"file", "keychain"} /\ Shape(s, m)
      /\ lock \in Procs \cup {"none", "dead"}
      /\ raced \in BOOLEAN /\ (~raced => Stored /\ Locked(p) /\ Fetched(p))
  BY Known
<1>i. i \in s.todo /\ i \in Ids
  <2>1. s.todo \subseteq Ids /\ Ids \subseteq Nat
    BY <1>k, StateFields, AccountsAssumption
  <2> QED BY <2>1, <1>u, MinIn
<1>v. /\ i \in DOMAIN s.view.rows /\ s.view.rows[i] = 0 /\ chain[i] \in Nat /\ s.view.here
      /\ s.pool \in Rows /\ m = "file"
  <2>1. i \in DOMAIN s.view.rows /\ s.view.here /\ m = "file" /\ MetadataOnly(s.view.rows)
    BY <1>u, <1>k, <1>i DEF Shape
  <2> QED BY <2>1, <1>i, <1>k, StateFields DEF TypeOK, MetadataOnly
<1> HIDE DEF i
<1>p. /\ Put(s.pool, i, chain[i]) \in Rows
      /\ DOMAIN Put(s.pool, i, chain[i]) = {i} \cup DOMAIN s.pool
      /\ Put(s.pool, i, chain[i])[i] = chain[i]
      /\ \A j \in DOMAIN s.pool : j # i => Put(s.pool, i, chain[i])[j] = s.pool[j]
  <2> DEFINE r == s.pool
             x == chain[i]
  <2>1. r \in Rows /\ i \in Ids /\ x \in Nat
    BY <1>i, <1>v
  <2> HIDE DEF r, x
  <2>2. /\ Put(r, i, x) \in Rows
        /\ DOMAIN Put(r, i, x) = {i} \cup DOMAIN r /\ Put(r, i, x)[i] = x
        /\ \A j \in DOMAIN r : j # i => Put(r, i, x)[j] = r[j]
    BY ONLY <2>1, PutRow
  <2> QED BY <2>2 DEF r, x
<1>n. /\ next \in State /\ next.pc = s.pc /\ next.op = s.op /\ next.view = s.view
      /\ next.out = s.out /\ next.pool = s.pool /\ next.todo = s.todo \ {i}
  BY <1>k DEF State
<1>m. /\ more \in State /\ more.pc = s.pc /\ more.op = s.op /\ more.view = s.view
      /\ more.out = s.out /\ more.pool = Put(s.pool, i, chain[i]) /\ more.todo = s.todo \ {i}
  BY <1>k, <1>p DEF State
<1> HIDE DEF next, more
<1>o. ASSUME ~raced, p \notin stale
      PROVE  /\ s.view = file /\ owned[i] <= chain[i]
             /\ \A j \in DOMAIN s.pool : owned[j] <= s.pool[j]
  <2>1. s.view = file /\ \A j \in DOMAIN s.pool : owned[j] <= s.pool[j]
    BY <1>o, <1>u, <1>k DEF Fetched, Fetching
  <2>2. owned[i] # 0 => Found(i) >= owned[i]
    BY <1>o, <1>k, <1>i DEF Stored, KeepsSecrets
  <2>3. Found(i) = chain[i]
    BY <2>1, <1>v DEF Found
  <2>4. owned[i] \in Nat
    BY <1>k, <1>i DEF TypeOK
  <2> QED BY <2>1, <2>2, <2>3, <2>4, <1>v
<1>1. ASSUME NEW t \in {next, more}, st' = [st EXCEPT ![p] = t] PROVE IInv'
  <2>1. /\ t \in State /\ t.pc = s.pc /\ t.op = s.op /\ t.view = s.view /\ t.out = s.out
        /\ t.todo = s.todo \ {i} /\ t.pool \in {s.pool, Put(s.pool, i, chain[i])}
        /\ DOMAIN t.pool \subseteq {i} \cup DOMAIN s.pool
    BY <1>n, <1>m, <1>p
  <2>2. Shape(t, m) /\ (Holding(t) <=> Holding(s))
    <3>1. Shape(s, m) /\ s.pc = "restore" /\ i \in s.todo
      BY <1>k, <1>u, <1>i
    <3> HIDE DEF s, m
    <3> QED BY <2>1, <3>1, RestoreShape
  <2>3. st'[p] = t
    BY <1>1, <1>k DEF TypeOK
  <2>4. ASSUME ~raced, Stored', Locked(p)' PROVE Own(p)'
    <3>1. ASSUME p \notin stale PROVE Fetched(p)'
      <4>1. \A j \in DOMAIN t.pool : owned'[j] <= t.pool[j]
        BY <2>1, <2>4, <3>1, <1>o, <1>p, <1>u DEF Still
      <4>2. t.view = file'
        BY <2>1, <2>4, <3>1, <1>o, <1>u DEF Still
      <4> QED BY <4>1, <4>2, <2>1, <2>3, <1>u DEF Fetched
    <3>2. Fetched(p)'
      BY <3>1, <1>u DEF Fetched
    <3>3. Pooled(p)' /\ Entries(p)'
      BY <2>1, <2>3, <1>u DEF Pooled, Entries, Changing
    <3> QED BY <3>2, <3>3, <2>4 DEF Own
  <2>5. ~raced => (lock = p <=> Holding(t)) /\ (Holding(t) /\ t.op # "load" => p \notin stale)
    BY <2>1, <2>2, <1>u, <1>k DEF Locked
  <2> QED BY <2>1, <2>2, <2>4, <2>5, <1>1, <1>u, <1>k, StillMove
<1> QED BY <1>u, <1>1

(* tryPoolLock: a load that is to rewrite the pool takes the lock. *)
LEMMA TryKeeps ==
  ASSUME IInv, NEW p \in Procs, Try(p)
  PROVE  IInv'
<1> DEFINE s == st[p]
           m == mode[p]
           c == IF s.pc = "restore" THEN "mark" ELSE "rewrite"
           t == [s EXCEPT !.pc = c]
<1>u. /\ s.pc \in {"hydrate", "restore"} /\ s.todo = {} /\ Rewriting(s) /\ lock = "none"
      /\ lock' = p /\ st' = [st EXCEPT ![p] = t] /\ Still /\ UNCHANGED <<mode, stale, raced>>
  BY DEF Try, Visited, At, To, Go, Still, stores, ghosts, KeepStores, KeepRest, KeepGhosts
<1>k. /\ TypeOK /\ s \in State /\ m \in {"file", "keychain"} /\ Shape(s, m)
      /\ p \notin {"none", "dead"}
      /\ raced \in BOOLEAN /\ (~raced => Stored /\ Locked(p) /\ Fetched(p))
  BY Known
<1>1. /\ t \in State /\ t.pc = c /\ t.op = s.op /\ t.view = s.view /\ t.out = s.out
      /\ t.pool = s.pool /\ t.todo = s.todo
  BY <1>k DEF State, Fetching
<1>2. /\ s.view.here /\ s.out = {} /\ ~Removal(s) /\ s.op # ""
      /\ DOMAIN s.pool = DOMAIN s.view.rows
      /\ m = IF c = "mark" THEN "file" ELSE "keychain"
  BY <1>u, <1>k DEF Shape, Fetching, Rewriting
<1>3. st'[p] = t
  BY <1>u, <1>k DEF TypeOK
<1>c. c \in {"mark", "rewrite"} /\ (c = "rewrite" => s.pc = "hydrate")
  BY <1>u
<1> HIDE DEF t, c
<1>4. Removal(t) <=> Removal(s)
  BY <1>1 DEF Removal
<1>5. Shape(t, m)
  BY <1>1, <1>2, <1>4, <1>c DEF Shape, Waiting, Fetching, Changing
<1>6. Holding(t)
  BY <1>1, <1>c DEF Holding
<1>7. ~raced => s.op = "load"
  BY <1>u, <1>k DEF Locked, Holding
<1>8. ASSUME ~raced, Stored', Locked(p)' PROVE Own(p)'
  <2>1. UNCHANGED <<kind, file, chain, late, owned, legacy>>
    BY <1>u DEF Still
  <2>2. ASSUME p \notin stale PROVE Fetched(p)'
    <3>1. /\ s.view = file
          /\ \A j \in DOMAIN s.pool : owned[j] <= s.pool[j]
          /\ s.pc = "hydrate" /\ m = "keychain" =>
               \A j \in DOMAIN s.pool : ~TooLarge(j, s.pool[j]) => Sure(j)
      BY <1>8, <2>2, <1>u, <1>k DEF Fetched, Fetching
    <3>2. \A j, v : TooLarge(j, v)' = TooLarge(j, v)
      BY <2>1 DEF TooLarge
    <3>3. \A j : Sure(j) => Sure(j)'
      BY <2>1 DEF Sure
    <3> QED BY <3>1, <3>2, <3>3, <2>1, <1>1, <1>2, <1>3, <1>c, <1>u DEF Fetched
  <2>3. Fetched(p)'
    BY <2>2, <1>u DEF Fetched
  <2>4. Pooled(p)' /\ Entries(p)'
    BY <1>1, <1>3, <1>c DEF Pooled, Entries, Changing
  <2> QED BY <2>3, <2>4, <1>8 DEF Own
<1>9. \A q \in Procs \ {p} : lock' = q <=> lock = q
  BY <1>u, HolderAssumption
<1> QED BY <1>1, <1>5, <1>6, <1>7, <1>8, <1>9, <1>u, <1>k, StillMove

(* The pool is served as it is. *)
LEMMA ServeKeeps ==
  ASSUME IInv, NEW p \in Procs, Serve(p)
  PROVE  IInv'
<1> DEFINE s == st[p]
           m == mode[p]
           v == [s EXCEPT !.meta = FALSE]
           t == [v EXCEPT !.pc = "merge", !.pool = s.pool]
<1>u. /\ s.pc \in {"hydrate", "restore"} /\ s.todo = {}
      /\ st' = [st EXCEPT ![p] = Loaded(v, s.pool)] /\ Still
      /\ UNCHANGED <<lock, mode, stale, raced>>
  BY DEF Serve, Visited, Go, Still, stores, ghosts, KeepStores, KeepRest, KeepGhosts
<1>k. /\ TypeOK /\ s \in State /\ m \in {"file", "keychain"} /\ Shape(s, m)
      /\ lock \in Procs \cup {"none", "dead"}
      /\ raced \in BOOLEAN /\ (~raced => Stored /\ Locked(p) /\ Fetched(p))
  BY Known
<1>1. /\ v.op = s.op /\ t \in State /\ t.pc = "merge" /\ t.op = s.op /\ t.out = s.out
      /\ t.pool = s.pool /\ t.todo = s.todo /\ t.meta = FALSE
  BY <1>k DEF State, Changing
<1>2. CASE s.op = "load"
  <2>1. st' = [st EXCEPT ![p] = Idle]
    BY <1>u, <1>1, <1>2 DEF Loaded
  <2>2. ~raced => lock # p
    BY <1>2, <1>u, <1>k DEF Locked, Holding
  <2>3. Idle.pc \notin Fetching \cup Changing
    BY IdleState DEF Fetching, Changing
  <2> QED BY <2>1, <2>2, <2>3, <1>u, <1>k, IdleState, IdleShape, RestKeeps
<1>3. CASE s.op # "load"
  <2>1. st' = [st EXCEPT ![p] = t] /\ st'[p] = t
    BY <1>u, <1>1, <1>3, <1>k DEF Loaded, TypeOK
  <2>2. s.op # "" /\ s.out = {} /\ ~Removal(s) /\ s.view.here
    BY <1>u, <1>k DEF Shape, Fetching
  <2> HIDE DEF t
  <2>3. Shape(t, m) /\ Holding(t)
    BY <1>1, <1>3, <1>u, <2>2, MergeShape
  <2>4. Holding(s)
    BY <1>u, <1>3 DEF Holding
  <2>5. ~raced => lock = p /\ p \notin stale
    BY <2>4, <1>3, <1>u, <1>k DEF Locked
  <2>6. ASSUME ~raced, Stored', Locked(p)' PROVE Own(p)'
    <3>1. UNCHANGED <<file, legacy, owned, mode>> /\ ~raced'
      BY <1>u, <2>6 DEF Still
    <3>2. s.view = file /\ \A j \in DOMAIN s.pool : owned[j] <= s.pool[j]
      BY <2>5, <2>6, <1>u, <1>k DEF Fetched, Fetching
    <3>3. Source' = DOMAIN file.rows
      BY <3>1, <3>2, <2>2 DEF Source
    <3>4. ~Removal(t)
      BY <1>1, <2>2 DEF Removal
    <3>5. CASE s.pc = "hydrate"
      <4>1. m = "keychain" /\ DOMAIN s.pool = DOMAIN file.rows
        BY <3>5, <3>2, <1>u, <1>k DEF Shape
      <4> QED BY <4>1, <3>1, <3>2, <3>3, <2>1, <2>2, <2>6, <1>1, MergeOwn
    <3>6. CASE s.pc = "restore"
      <4>1. m = "file" /\ DOMAIN s.pool \subseteq DOMAIN file.rows /\ MetadataOnly(file.rows)
        BY <3>6, <3>2, <1>u, <1>k DEF Shape
      <4>2. Guarded(p)'
        BY <4>1, <3>1, <3>2, <3>4, <2>1, <2>2, <1>1 DEF Guarded
      <4> QED BY <4>1, <4>2, <3>1, <3>2, <3>3, <3>4, <2>1, <2>2, <2>6, <1>1, MergeOwn
    <3> QED BY <3>5, <3>6, <1>u
  <2> QED BY <2>1, <2>3, <2>5, <2>6, <1>1, <1>u, <1>k, StillMove
<1> QED BY <1>2, <1>3

----------------------------------------------------------------------------
(* Rewriting the pool during a load.                                       *)

(* A step taken while no other process holds the lock. *)
LEMMA HolderApart ==
  ASSUME TypeOK, TypeOK', NEW p \in Procs, NEW t, st' = [st EXCEPT ![p] = t],
         lock \notin Procs \ {p}, UNCHANGED <<kind, lock, mode>>,
         \A q \in Procs \ {p} : q \in stale => q \in stale',
         \/ file' = file /\ legacy' = legacy /\ \A i \in Ids : owned'[i] <= owned[i]
         \/ \A q \in Procs \ {p} : st[q].pc # "idle" => q \in stale',
         UNCHANGED <<chain, late>> \/ \A i \in Ids : Sure(i) => Sure(i)'
  PROVE  Apart(p)
<1>1. \A q \in Procs \ {p} : st'[q] = st[q] /\ mode'[q] = mode[q] /\ lock # q
  BY DEF TypeOK
<1>2. \A i \in Ids : Sure(i) /\ owned'[i] <= owned[i] => Sure(i)'
  BY KeptSure
<1> QED BY <1>1, <1>2 DEF Apart

(* Only the marker changes. *)
LEMMA MarkerStored ==
  ASSUME Stored, ~raced, ~raced', Entered',
         UNCHANGED <<kind, file, legacy, chain, late, ver, owned, gone, stray>>
  PROVE  Stored'
<1>1. Issued'
  BY DEF Stored, Issued
<1>2. KeepsSecrets'
  BY DEF Stored, KeepsSecrets, Found
<1>3. StaysRemoved' /\ RemovalCleans'
  BY DEF Stored, StaysRemoved, RemovalCleans
<1>4. Held'
  BY DEF Stored, Held, Sure
<1> QED BY <1>1, <1>2, <1>3, <1>4 DEF Stored

(* The state in which an operation ends. *)
LEMMA EndedState ==
  ASSUME IInv, NEW p \in Procs, st[p].pc \in Fetching \cup Changing
  PROVE  /\ Ended(st[p], p) \in State /\ Shape(Ended(st[p], p), mode[p])
         /\ Ended(st[p], p).pc \notin Fetching \cup Changing
         /\ lock = p => Holding(Ended(st[p], p)) /\ Ended(st[p], p).op = st[p].op
<1> DEFINE s == st[p]
           u == [s EXCEPT !.pc = "unlock"]
<1>1. s \in State /\ s.op # ""
  BY Known DEF Shape, Fetching, Changing
<1> HIDE DEF s
<1>2. u \in State /\ Shape(u, mode[p]) /\ Holding(u) /\ u.pc = "unlock" /\ u.op = s.op
  BY <1>1, UnlockShape
<1>3. Ended(s, p) = (IF lock = p \/ s.op # "load" THEN u ELSE Idle)
  BY DEF Ended
<1> HIDE DEF u
<1>4. CASE lock = p \/ s.op # "load"
  BY <1>2, <1>3, <1>4 DEF s, Fetching, Changing
<1>5. CASE ~(lock = p \/ s.op # "load")
  BY <1>3, <1>5, IdleState, IdleShape DEF s, Fetching, Changing
<1> QED BY <1>4, <1>5

(* writeRestoredKeychainMarker during a restore. *)
LEMMA MarkKeeps ==
  ASSUME IInv, NEW p \in Procs, Mark(p)
  PROVE  IInv'
<1> DEFINE s == st[p]
           m == mode[p]
           t == [s EXCEPT !.pc = "rewrite"]
<1>u. /\ s.pc = "mark"
      /\ UNCHANGED <<kind, mode, file, legacy, chain, late, lock, ver, owned, gone, stray, stale>>
      /\ \/ /\ marker' = DOMAIN s.pool /\ raced' = (raced \/ p \in stale)
            /\ st' = [st EXCEPT ![p] = t]
         \/ Abort(p) /\ UNCHANGED <<marker, raced>>
  BY DEF Mark, At, To, Go, KeepRest
<1>k. /\ TypeOK /\ s \in State /\ m \in {"file", "keychain"} /\ Shape(s, m)
      /\ raced \in BOOLEAN /\ (~raced => Stored /\ Locked(p) /\ Fetched(p))
  BY Known
<1>1. CASE /\ marker' = DOMAIN s.pool /\ raced' = (raced \/ p \in stale)
           /\ st' = [st EXCEPT ![p] = t]
  <2>1. /\ t \in State /\ t.pc = "rewrite" /\ t.op = s.op /\ t.view = s.view /\ t.out = s.out
        /\ t.pool = s.pool
    BY <1>k DEF State, Fetching
  <2>2. /\ s.view.here /\ s.out = {} /\ ~Removal(s) /\ s.op # "" /\ m = "file"
        /\ DOMAIN s.pool = DOMAIN s.view.rows
    BY <1>u, <1>k DEF Shape, Fetching
  <2>3. st'[p] = t
    BY <1>1, <1>k DEF TypeOK
  <2>d. DOMAIN s.pool \subseteq Ids
    BY <1>k, StateFields
  <2> HIDE DEF t
  <2>4. Removal(t) <=> Removal(s)
    BY <2>1 DEF Removal
  <2>5. Shape(t, m)
    BY <2>1, <2>2, <2>4 DEF Shape, Waiting, Fetching, Changing
  <2>6. TypeOK'
    BY <1>1, <1>u, <1>k, <2>1, <2>d DEF TypeOK
  <2>7. ASSUME ~raced' PROVE Apart(p) /\ Stored' /\ Own(p)'
    <3>1. ~raced /\ p \notin stale
      BY <1>1, <2>7
    <3>2. lock = p
      BY <3>1, <1>u, <1>k DEF Locked, Holding
    <3>3. s.view = file /\ \A j \in DOMAIN s.pool : owned[j] <= s.pool[j]
      BY <3>1, <1>u, <1>k DEF Fetched, Fetching
    <3>4. Apart(p)
      <4>1. \A i \in Ids : owned'[i] <= owned[i]
        BY <1>u, <1>k DEF TypeOK
      <4> QED BY <4>1, <3>2, <2>6, <1>1, <1>u, <1>k, HolderApart
    <3>5. Entered'
      BY <3>1, <3>3, <2>2, <1>1, <1>u, <1>k DEF Stored, Entered
    <3>6. Stored'
      BY <3>1, <3>5, <2>7, <1>u, <1>k, MarkerStored
    <3>7. Locked(p)'
      BY <3>1, <3>2, <2>1, <2>3, <1>u DEF Locked, Holding
    <3>8. Fetched(p)'
      BY <3>3, <2>1, <2>2, <2>3, <1>1, <1>u DEF Fetched
    <3>9. Pooled(p)' /\ Entries(p)'
      BY <2>1, <2>3 DEF Pooled, Entries, Changing
    <3> QED BY <3>4, <3>6, <3>7, <3>8, <3>9 DEF Own
  <2> QED BY <2>5, <2>6, <2>7, <1>1, <1>u, MoveKeeps
<1>2. CASE Abort(p) /\ UNCHANGED <<marker, raced>>
  <2>1. Still /\ s.pc \in Fetching
    BY <1>2, <1>u DEF Still, Fetching
  <2> QED BY <2>1, <1>2, <1>u, AbortKeeps
<1> QED BY <1>u, <1>1, <1>2

(* What the rewritten file says, in either backend. *)
LEMMA RewriteStored ==
  ASSUME TypeOK, Stored, ~raced, ~raced', NEW r \in Rows, NEW m,
         file' = Pool(IF m = "file" THEN r ELSE Stripped(r)),
         stray' = (IF m = "file" THEN stray ELSE Strays(r)),
         UNCHANGED <<kind, legacy, chain, late, marker, ver, owned, gone>>,
         file.here, DOMAIN file.rows = DOMAIN r,
         \A i \in DOMAIN r : owned[i] <= r[i],
         m # "file" => \A i \in DOMAIN r : ~TooLarge(i, r[i]) => Sure(i),
         m = "file" => marker = DOMAIN r
  PROVE  Stored'
<1> DEFINE w == IF m = "file" THEN r ELSE Stripped(r)
<1>1. /\ w \in Rows /\ DOMAIN w = DOMAIN r
      /\ \A i \in DOMAIN r : w[i] = IF m = "file" \/ TooLarge(i, r[i]) THEN r[i] ELSE 0
  BY StrippedRows
<1> HIDE DEF w
<1>2. file'.here /\ file'.rows = w
  BY <1>1, PoolFile DEF w
<1>r. DOMAIN r \subseteq Ids /\ \A i \in DOMAIN r : r[i] \in Nat
  BY RowsAre
<1>3. Issued'
  BY <1>2 DEF Stored, Issued
<1>4. StaysRemoved'
  BY <1>1, <1>2 DEF Stored, StaysRemoved
<1>5. RemovalCleans'
  BY DEF Stored, StaysRemoved, RemovalCleans, Strays
<1>6. Entered'
  <2> SUFFICES ASSUME NEW i \in Ids, chain[i] # 0, i \notin stray'
               PROVE  i \in DOMAIN w /\ (w[i] = 0 \/ i \in marker)
    BY <1>2 DEF Entered
  <2>1. i \in stray \/ i \in DOMAIN r
    BY DEF Stored, Entered
  <2>2. i \in DOMAIN r /\ (m # "file" => ~TooLarge(i, r[i]))
    BY <2>1 DEF Strays
  <2> QED BY <2>2, <1>1
<1>h. Held'
  <2> SUFFICES ASSUME NEW i \in DOMAIN r, w[i] = 0 PROVE Sure(i)
    BY <1>1, <1>2 DEF Held, Sure
  <2>1. CASE m = "file" \/ TooLarge(i, r[i])
    BY <2>1, <1>1, <1>r, UnownedSure
  <2>2. CASE ~(m = "file" \/ TooLarge(i, r[i]))
    BY <2>2
  <2> QED BY <2>1, <2>2
<1>7. KeepsSecrets'
  <2> SUFFICES ASSUME NEW i \in Ids, owned[i] # 0 PROVE Found(i)' >= owned[i]
    BY DEF KeepsSecrets
  <2>1. i \in DOMAIN r
    BY OwnedInSource DEF Source
  <2>2. owned[i] \in Nat /\ chain[i] \in Nat
    BY DEF TypeOK
  <2>3. Found(i)' = IF w[i] # 0 THEN w[i] ELSE chain[i]
    BY <2>1, <1>1, <1>2 DEF Found
  <2>4. CASE m = "file" \/ TooLarge(i, r[i])
    BY <2>1, <2>2, <2>3, <2>4, <1>1, <1>r
  <2>5. CASE ~(m = "file" \/ TooLarge(i, r[i]))
    <3>1. owned[i] <= chain[i]
      BY <2>1, <2>5 DEF Sure
    <3> QED BY <3>1, <2>1, <2>2, <2>3, <2>5, <1>1
  <2> QED BY <2>4, <2>5
<1> QED BY <1>3, <1>4, <1>5, <1>6, <1>7, <1>h DEF Stored

(* The file is rewritten after a migration or a restore. *)
LEMMA RewriteKeeps ==
  ASSUME IInv, NEW p \in Procs, Rewrite(p)
  PROVE  IInv'
<1> DEFINE s == st[p]
           m == mode[p]
           r == s.pool
           t == Ended(s, p)
<1>u. /\ s.pc = "rewrite" /\ Abort(p)
      /\ UNCHANGED <<kind, mode, legacy, chain, late, marker, lock, ver, owned, gone>>
      /\ \/ /\ file' = Pool(IF m = "file" THEN r ELSE Stripped(r))
            /\ stray' = (IF m = "file" THEN stray ELSE Strays(r))
            /\ raced' = (raced \/ p \in stale) /\ Replaced(p)
         \/ UNCHANGED <<file, stray, stale, raced>>
  BY DEF Rewrite, At, KeepRest
<1>k. /\ TypeOK /\ s \in State /\ m \in {"file", "keychain"} /\ Shape(s, m)
      /\ raced \in BOOLEAN /\ (~raced => Stored /\ Locked(p) /\ Fetched(p))
  BY Known
<1>f. s.pc \in Fetching
  BY <1>u DEF Fetching
<1>1. CASE /\ file' = Pool(IF m = "file" THEN r ELSE Stripped(r))
           /\ stray' = (IF m = "file" THEN stray ELSE Strays(r))
           /\ raced' = (raced \/ p \in stale) /\ Replaced(p)
  <2>1. /\ t \in State /\ Shape(t, m) /\ t.pc \notin Fetching \cup Changing
        /\ lock = p => Holding(t) /\ t.op = s.op
    BY <1>f, EndedState
  <2>2. st' = [st EXCEPT ![p] = t] /\ st'[p] = t
    BY <1>u, <1>k DEF Abort, Go, TypeOK
  <2>3. r \in Rows /\ s.view.here /\ DOMAIN r = DOMAIN s.view.rows
    BY <1>u, <1>k, StateFields DEF Shape
  <2>4. stale' = stale \cup {q \in Procs \ {p} : st[q].pc # "idle"}
    BY <1>1 DEF Replaced, At
  <2> HIDE DEF t, r
  <2>5. file' \in File
    BY <1>1, <2>3, PoolFile, StrippedRows
  <2>6. TypeOK'
    <3>1. stray' \subseteq Ids
      BY <1>1, <1>k, <2>3, RowsAre DEF TypeOK, Strays
    <3> QED BY <3>1, <1>1, <1>u, <1>k, <2>1, <2>2, <2>4, <2>5 DEF TypeOK
  <2>7. ASSUME ~raced' PROVE Apart(p) /\ Stored' /\ Own(p)'
    <3>1. ~raced /\ p \notin stale
      BY <1>1, <2>7
    <3>2. lock = p
      BY <3>1, <1>u, <1>k DEF Locked, Holding
    <3>3. /\ s.view = file /\ \A j \in DOMAIN r : owned[j] <= r[j]
          /\ m = "keychain" => \A j \in DOMAIN r : ~TooLarge(j, r[j]) => Sure(j)
          /\ m = "file" => marker = DOMAIN r
      BY <3>1, <1>f, <1>u, <1>k DEF Fetched, r
    <3>4. Apart(p)
      BY <3>2, <2>2, <2>4, <2>6, <1>u, <1>k, HolderApart
    <3>5. Stored'
      <4>1. m # "file" => m = "keychain"
        BY <1>k
      <4>2. file.here /\ DOMAIN file.rows = DOMAIN r
        BY <2>3, <3>3
      <4> HIDE DEF m, s
      <4> QED BY <4>1, <4>2, <3>1, <3>3, <2>3, <2>7, <1>1, <1>u, <1>k, RewriteStored
    <3>6. Locked(p)'
      BY <3>1, <3>2, <2>1, <2>2, <2>4, <1>u DEF Locked
    <3> QED BY <3>4, <3>5, <3>6, <2>1, <2>2, RestOwn
  <2> QED BY <2>1, <2>2, <2>6, <2>7, <1>1, <1>u, MoveKeeps
<1>2. CASE UNCHANGED <<file, stray, stale, raced>>
  <2>1. Still
    BY <1>2, <1>u DEF Still
  <2> QED BY <2>1, <1>2, <1>f, <1>u, AbortKeeps
<1> QED BY <1>u, <1>1, <1>2

(* loadLegacyKeychain: the entry of the legacy account is set. *)
LEMMA LegacyKeeps ==
  ASSUME IInv, NEW p \in Procs, Legacy(p)
  PROVE  IInv'
<1> DEFINE s == st[p]
           m == mode[p]
           w == s.pool[LegacyId]
           t == [s EXCEPT !.pc = "legacy file"]
<1>u. /\ s.pc = "legacy"
      /\ UNCHANGED <<kind, mode, file, legacy, marker, lock, ver, owned, gone, stale>>
      /\ \/ /\ Call(LegacyId, w) /\ stray' = stray \cup {LegacyId}
            /\ raced' = (raced \/ Unsafe(p)) /\ st' = [st EXCEPT ![p] = t]
         \/ Abort(p) /\ CallFails(LegacyId, w, Unsafe(p)) /\ UNCHANGED <<stray, raced>>
  BY DEF Legacy, At, To, Go, KeepRest
<1>k. /\ TypeOK /\ s \in State /\ m \in {"file", "keychain"} /\ Shape(s, m)
      /\ raced \in BOOLEAN /\ (~raced => Stored /\ Locked(p) /\ Fetched(p))
  BY Known
<1>s. /\ ~s.view.here /\ DOMAIN s.pool = {LegacyId} /\ ~s.meta /\ s.todo = {} /\ s.out = {}
      /\ s.op # "" /\ m = "keychain"
  BY <1>u, <1>k DEF Shape, Fetching
<1>w. LegacyId \in Ids /\ w \in Nat
  BY <1>k, <1>s, StateFields
<1>o. ASSUME ~raced, ~Unsafe(p)
      PROVE  /\ lock \notin Procs \ {p} /\ p \notin stale
             /\ s.view = file /\ owned[LegacyId] <= w /\ w = legacy /\ legacy # 0
  <2>1. lock \notin Procs \ {p} /\ p \notin stale
    BY <1>o, <1>u, SafeMigration
  <2> QED BY <2>1, <1>o, <1>s, <1>u, <1>k DEF Fetched, Fetching
<1>1. CASE /\ Call(LegacyId, w) /\ stray' = stray \cup {LegacyId}
           /\ raced' = (raced \/ Unsafe(p)) /\ st' = [st EXCEPT ![p] = t]
  <2>1. /\ t \in State /\ t.pc = "legacy file" /\ t.op = s.op /\ t.view = s.view
        /\ t.out = s.out /\ t.pool = s.pool /\ t.todo = s.todo /\ t.meta = s.meta
    BY <1>k DEF State, Fetching
  <2>3. st'[p] = t
    BY <1>1, <1>k DEF TypeOK
  <2> HIDE DEF t
  <2>5. Shape(t, m)
    BY <2>1, <1>s DEF Shape, Waiting, Fetching, Changing
  <2>c. chain' \in [Ids -> Nat] /\ late' \in SUBSET Calls /\ Fixes(LegacyId, w)
    BY <1>1, <1>k, <1>w, CallMade
  <2>6. TypeOK'
    BY <1>1, <1>u, <1>k, <1>w, <2>1, <2>c DEF TypeOK, Unsafe
  <2>7. ASSUME ~raced' PROVE Apart(p) /\ Stored' /\ Own(p)'
    <3>1. ~raced /\ ~Unsafe(p)
      BY <1>1, <2>7
    <3>3. /\ lock \notin Procs \ {p} /\ p \notin stale
          /\ s.view = file /\ owned[LegacyId] <= w /\ w = legacy /\ legacy # 0
      BY <3>1, <1>o
    <3>5. Apart(p)
      BY <3>3, <2>6, <1>1, <1>u, <1>w, <1>k, EntryApart
    <3>6. Stored'
      BY <3>1, <3>3, <2>6, <2>7, <1>1, <1>u, <1>w, <1>k, EntryStored
    <3>7. Locked(p)'
      BY <3>1, <2>1, <2>3, <1>u, <1>k DEF Locked, Holding
    <3>8. Sure(LegacyId)'
      BY <3>3, <2>c, <1>u DEF Fixes, Sure
    <3>9. Fetched(p)'
      BY <3>3, <3>8, <2>1, <1>s, <2>3, <1>u DEF Fetched
    <3>10. Pooled(p)' /\ Entries(p)'
      BY <2>1, <2>3 DEF Pooled, Entries, Changing
    <3> QED BY <3>5, <3>6, <3>7, <3>9, <3>10 DEF Own
  <2> QED BY <2>3, <2>5, <2>6, <2>7, <1>1, <1>u, MoveKeeps
<1>2. CASE Abort(p) /\ CallFails(LegacyId, w, Unsafe(p)) /\ UNCHANGED <<stray, raced>>
  <2>1. s.pc \in Fetching
    BY <1>u DEF Fetching
  <2>2. Quiet(p)
    <3>1. Unsafe(p) \in BOOLEAN
      BY DEF Unsafe
    <3> HIDE DEF s, w
    <3> QED BY <3>1, <1>2, <1>u, <1>k, <1>w, <1>o, FailsQuiet
  <2> QED BY <2>1, <2>2, <1>2, <1>u, AbortKeeps
<1> QED BY <1>u, <1>1, <1>2

(* What is stored once the legacy account has moved to a pool of its own. *)
LEMMA LegacyStored ==
  ASSUME TypeOK, Stored, ~raced, ~raced', ~file.here, legacy # 0,
         file'.here, DOMAIN file'.rows = {LegacyId}, file'.rows[LegacyId] = 0,
         legacy' \in {legacy, 0}, stray' = stray \ {LegacyId},
         UNCHANGED <<kind, chain, late, marker, ver, owned, gone>>,
         Sure(LegacyId)
  PROVE  Stored'
<1>2. Issued'
  BY DEF Stored, Issued
<1>h. Held'
  BY DEF Held, Sure
<1>3. gone = {}
  BY DEF Stored, StaysRemoved
<1>4. StaysRemoved' /\ RemovalCleans'
  BY <1>3 DEF StaysRemoved, RemovalCleans
<1>5. Entered'
  BY DEF Stored, Entered, Issued
<1>6. KeepsSecrets'
  <2> SUFFICES ASSUME NEW i \in Ids, owned[i] # 0 PROVE Found(i)' >= owned[i]
    BY DEF KeepsSecrets
  <2>1. i \in Source
    BY OwnedInSource
  <2>2. i = LegacyId
    BY <2>1 DEF Source, Stored, Issued
  <2>3. Found(i)' = chain[i]
    BY <2>2 DEF Found
  <2> QED BY <2>2, <2>3 DEF TypeOK, Sure
<1> QED BY <1>2, <1>4, <1>5, <1>6, <1>h DEF Stored

(* loadLegacyKeychain: the metadata file is written, without the lock. *)
LEMMA LegacyFileKeeps ==
  ASSUME IInv, NEW p \in Procs, LegacyFile(p)
  PROVE  IInv'
<1> DEFINE s == st[p]
           m == mode[p]
           r == s.pool
           t == Loaded(s, r)
           u == [s EXCEPT !.pc = "merge", !.pool = r]
<1>u. /\ s.pc = "legacy file"
      /\ UNCHANGED <<kind, mode, chain, late, marker, lock, ver, owned, gone>>
      /\ \/ /\ file' = Pool(Stripped(r)) /\ legacy' \in {legacy, 0}
            /\ stray' = Strays(r) /\ raced' = (raced \/ Unsafe(p))
            /\ st' = [st EXCEPT ![p] = t] /\ Replaced(p)
         \/ Abort(p) /\ UNCHANGED <<file, legacy, stray, stale, raced>>
  BY DEF LegacyFile, At, Go, KeepRest
<1>k. /\ TypeOK /\ s \in State /\ m \in {"file", "keychain"} /\ Shape(s, m)
      /\ raced \in BOOLEAN /\ (~raced => Stored /\ Locked(p) /\ Fetched(p))
  BY Known
<1>1. CASE /\ file' = Pool(Stripped(r)) /\ legacy' \in {legacy, 0}
           /\ stray' = Strays(r) /\ raced' = (raced \/ Unsafe(p))
           /\ st' = [st EXCEPT ![p] = t] /\ Replaced(p)
  <2>1. /\ u \in State /\ u.pc = "merge" /\ u.op = s.op /\ u.pool = r
        /\ u.out = s.out /\ u.todo = s.todo /\ u.meta = s.meta
    BY <1>k DEF State, Changing
  <2>2. /\ ~s.view.here /\ DOMAIN r = {LegacyId} /\ ~s.meta /\ s.todo = {} /\ s.out = {}
        /\ s.op # "" /\ m = "keychain"
    BY <1>u, <1>k DEF Shape, Fetching
  <2>3. t = (IF s.op = "load" THEN Idle ELSE u)
    BY DEF Loaded
  <2> HIDE DEF u
  <2>4. s.op # "load" => Shape(u, m) /\ Holding(u)
    BY <2>1, <2>2, MergeShape
  <2>5. /\ t \in State /\ Shape(t, m)
        /\ s.op = "load" => t.pc = "idle" /\ ~Holding(t)
        /\ s.op # "load" => t = u
    BY <2>1, <2>3, <2>4, IdleState, IdleShape
  <2> HIDE DEF t
  <2>6. st'[p] = t
    BY <1>1, <1>k DEF TypeOK
  <2>7. r \in Rows /\ LegacyId \in Ids
    BY <1>k, StateFields, AccountsAssumption
  <2>8. stale' = stale \cup {q \in Procs \ {p} : st[q].pc # "idle"}
    BY <1>1 DEF Replaced, At
  <2> HIDE DEF r
  <2>9. /\ file' \in File /\ file'.here /\ DOMAIN file'.rows = {LegacyId}
        /\ file'.rows[LegacyId] = IF TooLarge(LegacyId, r[LegacyId]) THEN r[LegacyId] ELSE 0
    BY <1>1, <2>2, <2>7, PoolFile, StrippedRows
  <2>10. TypeOK'
    <3>1. /\ legacy' \in Nat /\ raced' \in BOOLEAN /\ stale' \subseteq Procs
          /\ stray' \subseteq Ids
      <4>1. Strays(r) \subseteq Ids
        BY <1>k, <2>2, <2>7 DEF TypeOK, Strays
      <4>2. legacy' \in Nat
        BY <1>1, <1>k DEF TypeOK
      <4>3. raced' \in BOOLEAN
        BY <1>1, <1>k DEF Unsafe
      <4>4. stale' \subseteq Procs
        BY <1>k, <2>8 DEF TypeOK
      <4> QED BY <4>1, <4>2, <4>3, <4>4, <1>1
    <3> QED BY <3>1, <1>1, <1>u, <1>k, <2>5, <2>9 DEF TypeOK
  <2>11. ASSUME ~raced' PROVE Apart(p) /\ Stored' /\ Own(p)'
    <3>1. ~raced /\ ~Unsafe(p)
      BY <1>1, <2>11
    <3>2. lock \notin Procs \ {p} /\ p \notin stale
      BY <3>1, <1>u, SafeMigration
    <3>3. /\ s.view = file /\ owned[LegacyId] <= r[LegacyId] /\ legacy # 0
          /\ Sure(LegacyId)
      BY <3>1, <3>2, <2>2, <1>u, <1>k DEF Fetched, Fetching, r
    <3>4. \A v : ~TooLarge(LegacyId, v)
      BY <3>1, <3>3, <1>k DEF Stored, Issued, TooLarge
    <3>5. Apart(p)
      BY <3>2, <2>8, <2>10, <1>1, <1>u, <1>k, HolderApart
    <3>6. Stored'
      <4>1. stray' = stray \ {LegacyId} /\ file'.rows[LegacyId] = 0
        BY <3>4, <2>2, <2>9, <1>1 DEF Strays
      <4>2. ~file.here /\ file'.here /\ DOMAIN file'.rows = {LegacyId}
        BY <3>3, <2>2, <2>9
      <4>3. TypeOK /\ Stored /\ ~raced /\ ~raced'
        BY <3>1, <2>11, <1>k
      <4>4. legacy' \in {legacy, 0} /\ legacy # 0 /\ Sure(LegacyId)
        BY <3>3, <1>1
      <4>5. UNCHANGED <<kind, chain, late, marker, ver, owned, gone>>
        BY <1>u
      <4> QED BY <4>1, <4>2, <4>3, <4>4, <4>5, LegacyStored
    <3>7. Locked(p)'
      BY <3>1, <3>2, <2>1, <2>4, <2>5, <2>6, <2>8, <1>u, <1>k DEF Locked, Holding
    <3>8. CASE s.op = "load"
      <4>1. st'[p].pc \notin Fetching \cup Changing
        BY <3>8, <2>5, <2>6 DEF Fetching, Changing
      <4> QED BY <4>1, <3>5, <3>6, <3>7, RestOwn
    <3>9. CASE s.op # "load"
      <4>1. Source' = {LegacyId}
        BY <2>9 DEF Source
      <4>2. st'[p] = u
        BY <3>9, <2>5, <2>6
      <4>3. \A j \in DOMAIN u.pool : owned'[j] <= u.pool[j]
        BY <2>1, <2>2, <3>3, <1>u
      <4>4. Own(p)'
        BY <4>1, <4>2, <4>3, <3>6, <3>7, <2>1, <2>2, <2>9, <2>11, <1>u, MergeOwn
      <4> QED BY <4>4, <3>5, <3>6
    <3> QED BY <3>8, <3>9
  <2> QED BY <2>5, <2>10, <2>11, <1>1, <1>u, MoveKeeps
<1>2. CASE Abort(p) /\ UNCHANGED <<file, legacy, stray, stale, raced>>
  <2>1. Still /\ s.pc \in Fetching
    BY <1>2, <1>u DEF Still, Fetching
  <2> QED BY <2>1, <1>2, <1>u, AbortKeeps
<1> QED BY <1>u, <1>1, <1>2

----------------------------------------------------------------------------
(* Changing the pool.                                                      *)

(* What holds of a process that changes the pool. *)
LEMMA ChangerKnown ==
  ASSUME IInv, NEW p \in Procs, st[p].pc \in Changing
  PROVE  /\ st[p].op \in {"login", "refresh", "remove", "clear"} /\ Holding(st[p])
         /\ Removal(st[p]) <=> st[p].op \notin Issuing
         /\ ~raced => Stored /\ Locked(p) /\ Pooled(p) /\ Entries(p) /\ lock = p /\ p \notin stale
<1>1. /\ st[p] \in State /\ Shape(st[p], mode[p])
      /\ ~raced => Stored /\ Locked(p) /\ Pooled(p) /\ Entries(p)
  BY Known
<1>2. st[p].op \in {"login", "refresh", "remove", "clear"}
  <2>1. st[p].op # "" /\ st[p].op # "load"
    BY <1>1 DEF Shape, Changing
  <2> QED BY <2>1, <1>1, StateFields
<1>3. Holding(st[p])
  BY <1>2 DEF Holding, Changing
<1>4. ~raced => lock = p /\ p \notin stale
  BY <1>1, <1>2, <1>3 DEF Locked, Changing
<1> QED BY <1>1, <1>2, <1>3, <1>4 DEF Removal, Issuing

(* The process that changes the pool goes on to state t. *)
LEMMA ChangeMove ==
  ASSUME IInv, NEW p \in Procs, NEW t \in State, st' = [st EXCEPT ![p] = t],
         Shape(t, mode[p]), st[p].pc \in Changing, t.pc \in Changing, t.op = st[p].op,
         UNCHANGED <<kind, lock, mode, stale, raced, file, legacy>>, TypeOK',
         \A i \in Ids : owned'[i] <= owned[i],
         ~raced => /\ UNCHANGED <<chain, late>> \/ \A i \in Ids : Sure(i) => Sure(i)'
                   /\ Stored' /\ Pooled(p)' /\ Entries(p)'
  PROVE  IInv'
<1>k. TypeOK
  BY Known
<1>1. st'[p] = t
  BY <1>k DEF TypeOK
<1>2. ASSUME ~raced' PROVE Apart(p) /\ Stored' /\ Own(p)'
  <2>1. ~raced /\ lock = p /\ p \notin stale /\ Locked(p) /\ st[p].op # "load"
    BY <1>2, ChangerKnown
  <2>2. Apart(p)
    BY <2>1, <1>k, HolderApart
  <2>3. Locked(p)'
    BY <2>1, <1>1 DEF Locked, Holding, Changing
  <2>4. Fetched(p)'
    BY <1>1 DEF Fetched, Fetching, Changing
  <2> QED BY <2>1, <2>2, <2>3, <2>4 DEF Own
<1> QED BY <1>2, MoveKeeps

(* What is known of the pool stays known while the stores it is compared   *)
(* with do.                                                                *)
LEMMA PooledStays ==
  ASSUME NEW p \in Procs, Pooled(p), st[p].pc \in Changing \ {"merge"},
         st'[p].pc \in Changing \ {"merge"}, st'[p].op = st[p].op, st'[p].id = st[p].id,
         st'[p].pool = st[p].pool, st'[p].out = st[p].out, st'[p].meta = st[p].meta,
         UNCHANGED <<file, legacy, owned, gone, ver, mode>>,
         Source \subseteq DOMAIN st[p].pool \cup st[p].out
  PROVE  Pooled(p)'
<1>1. Source' = Source
  BY DEF Source
<1>2. Removal(st'[p]) <=> Removal(st[p])
  BY DEF Removal
<1> QED BY <1>1, <1>2 DEF Pooled

(* A new version of a secret is put into the pool. *)
LEMMA UpsertKeeps ==
  ASSUME IInv, NEW p \in Procs, st[p].pc = "merge", st[p].op \in Issuing, NEW v,
         v = IF kind = "oauth" THEN ver + 1 ELSE 1,
         st' = [st EXCEPT ![p] = Saving(Upserted(st[p], v), mode[p])],
         ver' = v, gone' = gone \ {st[p].id},
         UNCHANGED <<kind, mode, file, legacy, chain, late, marker, lock, owned, stray, stale, raced>>
  PROVE  IInv'
<1> DEFINE s == st[p]
           m == mode[p]
           r == Put(s.pool, s.id, v)
           x == Upserted(s, v)
           t == Saving(x, m)
<1>k. /\ TypeOK /\ s \in State /\ m \in {"file", "keychain"} /\ Shape(s, m)
      /\ raced \in BOOLEAN
  BY Known
<1>c. /\ ~Removal(s) /\ s.op \notin {"", "load"} /\ s.pc \in Changing
      /\ ~raced => Stored /\ Pooled(p) /\ Entries(p)
  BY ChangerKnown DEF Changing, Issuing
<1>s. s.out = {} /\ s.todo = {} /\ s.meta = FALSE
  BY <1>c, <1>k, StateFields DEF Shape
<1>n. ver \in Nat /\ kind \in {"key", "oauth"} /\ \A i \in Ids : owned[i] \in Nat
  BY <1>k DEF TypeOK
<1>v. v \in Nat /\ s.id \in Ids /\ s.pool \in Rows
  <2>1. v \in Nat
    BY <1>n
  <2>2. s.id \in Ids /\ s.pool \in Rows
    BY <1>c, <1>k, StateFields
  <2> QED BY <2>1, <2>2
<1>r. /\ r \in Rows /\ DOMAIN r = {s.id} \cup DOMAIN s.pool /\ r[s.id] = v
      /\ \A j \in DOMAIN s.pool : j # s.id => r[j] = s.pool[j]
  <2> DEFINE q == s.pool
             i == s.id
  <2>1. q \in Rows /\ i \in Ids /\ v \in Nat
    BY <1>v
  <2> HIDE DEF q, i
  <2>2. /\ Put(q, i, v) \in Rows
        /\ DOMAIN Put(q, i, v) = {i} \cup DOMAIN q /\ Put(q, i, v)[i] = v
        /\ \A j \in DOMAIN q : j # i => Put(q, i, v)[j] = q[j]
    BY ONLY <2>1, PutRow
  <2> QED BY <2>2 DEF q, i
<1>x. /\ x \in State /\ x.op = s.op /\ x.id = s.id /\ x.pool = r /\ x.out = {} /\ x.todo = {}
      /\ x.meta = FALSE
  BY <1>k, <1>r, <1>s DEF Upserted, State
<1> HIDE DEF r, x
<1>t. /\ t \in State /\ t.op = s.op /\ t.id = s.id /\ t.pool = r /\ t.out = {} /\ t.meta = FALSE
      /\ m = "keychain" => t.pc = "set" /\ t.todo = DOMAIN r
      /\ m # "keychain" => t.pc = "guard" /\ t.todo = {}
  <2>1. DOMAIN r \subseteq Ids
    BY <1>r, RowsAre
  <2> QED BY <2>1, <1>x DEF Saving, State, Changing
<1> HIDE DEF t
<1>1. ~Removal(t) /\ t.pc \in {"set", "guard"} /\ t.pc \in Changing
  BY <1>t, <1>c DEF Removal, Changing
<1>2. Shape(t, m)
  BY <1>1, <1>t, <1>r, <1>c, <1>k DEF Shape, Waiting, Fetching, Changing, Issuing
<1>3. st' = [st EXCEPT ![p] = t] /\ st'[p] = t
  BY <1>k DEF t, x, TypeOK
<1>4. TypeOK'
  BY <1>3, <1>t, <1>v, <1>k DEF TypeOK
<1>5. \A i \in Ids : owned'[i] <= owned[i]
  BY <1>k DEF TypeOK
<1>6. ASSUME ~raced PROVE Stored' /\ Pooled(p)' /\ Entries(p)'
  <2>i. ver >= 1 /\ (kind = "key" => ver = 1) /\ \A i \in Ids : owned[i] <= ver
    BY <1>6, <1>c DEF Stored, Issued
  <2>1. v >= 1 /\ ver <= v
    BY <2>i, <1>n
  <2>2. \A i \in Ids : owned[i] <= v
    BY <2>i, <2>1, <1>n, <1>v
  <2>3. Issued'
    BY <2>1, <2>2, <1>6, <1>c, <1>k DEF Stored, Issued, TypeOK
  <2>4. Entered' /\ StaysRemoved' /\ RemovalCleans'
    BY <1>6, <1>c DEF Stored, Entered, StaysRemoved, RemovalCleans
  <2>h. Held'
    BY <1>6, <1>c DEF Stored, Held, Sure
  <2>5. KeepsSecrets'
    BY <1>6, <1>c DEF Stored, KeepsSecrets, Found
  <2>6. Source' = Source /\ (Guarded(p) => Guarded(p)')
    BY <1>3, <1>1, <1>t, <1>k DEF Source, Guarded
  <2>7. \A i \in DOMAIN r : owned'[i] <= r[i]
    <3> SUFFICES ASSUME NEW i \in DOMAIN r PROVE owned[i] <= r[i]
      OBVIOUS
    <3>1. \A j \in DOMAIN s.pool : owned[j] <= s.pool[j]
      BY <1>6, <1>c, <1>s DEF Pooled
    <3>2. CASE i = s.id
      BY <3>2, <2>2, <1>r, <1>v
    <3>3. CASE i # s.id
      BY <3>1, <3>3, <1>r
    <3> QED BY <3>2, <3>3
  <2>8. Pooled(p)'
    <3>1. /\ gone \cap DOMAIN s.pool = {}
          /\ Source \subseteq DOMAIN s.pool \/ Guarded(p)
          /\ m = "file" => Valid(file.rows) \/ MetadataOnly(file.rows)
          /\ m = "keychain" => DOMAIN file.rows = Source
      BY <1>6, <1>c, <1>s DEF Pooled
    <3>2. gone' \cap DOMAIN r = {}
      BY <3>1, <1>r
    <3>3. Source' \subseteq DOMAIN r \/ Guarded(p)'
      BY <3>1, <2>6, <1>r
    <3>4. r[t.id] <= ver'
      BY <1>r, <1>t, <1>v
    <3> QED BY <3>1, <3>2, <3>3, <3>4, <2>6, <2>7, <1>1, <1>3, <1>t DEF Pooled
  <2>9. Entries(p)'
    BY <1>1, <1>3, <1>t DEF Entries
  <2> QED BY <2>3, <2>4, <2>5, <2>8, <2>9, <2>h DEF Stored
<1> QED BY <1>1, <1>2, <1>3, <1>4, <1>5, <1>6, <1>c, <1>t, ChangeMove

\* A process goes on with another list of accounts to visit.
Onto(x, c, T) == [x EXCEPT !.pc = c, !.todo = T]

(* Only the place and the list change. *)
LEMMA OntoState ==
  ASSUME NEW x \in State, NEW c \in Changing, NEW T \in SUBSET Ids
  PROVE  /\ Onto(x, c, T) \in State /\ Onto(x, c, T).pc = c /\ Onto(x, c, T).todo = T
         /\ Onto(x, c, T).op = x.op /\ Onto(x, c, T).id = x.id
         /\ Onto(x, c, T).pool = x.pool /\ Onto(x, c, T).out = x.out
         /\ Onto(x, c, T).meta = x.meta
BY DEF Onto, State

\* The pool without the chosen accounts, and where its removal goes on.
Less(s) == [s EXCEPT !.pool = Without(@, Chosen(s)), !.out = Chosen(s)]
Chose(s, m) ==
  IF s.meta THEN [Less(s) EXCEPT !.pc = "del", !.todo = Chosen(s)]
  ELSE IF m = "file" THEN Cleaning(Less(s)) ELSE Saving(Less(s), m)

(* The chosen accounts leave the pool. *)
LEMMA ChooseKeeps ==
  ASSUME IInv, NEW p \in Procs, st[p].pc = "merge", Removal(st[p]),
         owned' = [i \in Ids |-> IF i \in Chosen(st[p]) THEN 0 ELSE owned[i]],
         st' = [st EXCEPT ![p] = Chose(st[p], mode[p])],
         UNCHANGED <<kind, mode, file, legacy, chain, late, marker, lock, ver, gone, stray, stale, raced>>
  PROVE  IInv'
<1> DEFINE s == st[p]
           m == mode[p]
           C == Chosen(s)
           r == Without(s.pool, C)
           x == Less(s)
           t == Chose(s, m)
           named == IF s.op = "clear" THEN marker ELSE marker \cap C
<1>k. /\ TypeOK /\ s \in State /\ m \in {"file", "keychain"} /\ Shape(s, m)
      /\ raced \in BOOLEAN
  BY Known
<1>c. /\ s.op \in {"remove", "clear"} /\ s.pc \in Changing
      /\ ~raced => Stored /\ Pooled(p) /\ Entries(p)
  BY ChangerKnown DEF Changing, Removal
<1>s. s.out = {} /\ s.todo = {} /\ s.meta \in BOOLEAN /\ s.pool \in Rows /\ DOMAIN s.pool \subseteq Ids
  BY <1>k, StateFields DEF Shape
<1>d. C \subseteq DOMAIN s.pool /\ (s.op = "clear" => C = DOMAIN s.pool)
  BY DEF Chosen
<1> HIDE DEF C
<1>r. r \in Rows /\ DOMAIN r = DOMAIN s.pool \ C /\ \A i \in DOMAIN r : r[i] = s.pool[i]
  <2> DEFINE q == s.pool
  <2>1. q \in Rows
    BY <1>s
  <2> HIDE DEF q
  <2>2. /\ Without(q, C) \in Rows /\ DOMAIN Without(q, C) = DOMAIN q \ C
        /\ \A i \in DOMAIN q \ C : Without(q, C)[i] = q[i]
    BY ONLY <2>1, WithoutRows
  <2> QED BY <2>2 DEF q
<1>x. /\ x \in State /\ x.op = s.op /\ x.id = s.id /\ x.pool = r /\ x.out = C /\ x.todo = {}
      /\ x.meta = s.meta
  <2>1. x = [s EXCEPT !.pool = r, !.out = C]
    BY DEF Less, C
  <2>2. C \subseteq Ids
    BY <1>d, <1>s
  <2> HIDE DEF x, r
  <2> QED BY <2>1, <2>2, <1>k, <1>r, <1>s DEF State
<1>y. t = IF s.meta THEN [x EXCEPT !.pc = "del", !.todo = C]
          ELSE IF m = "file" THEN Cleaning(x) ELSE Saving(x, m)
  BY DEF C, Chose
<1>z. st' = [st EXCEPT ![p] = t]
  OBVIOUS
<1>w. s.pc = "merge" /\ Removal(s)
  OBVIOUS
<1> HIDE DEF r, x, t
<1>t. /\ t \in State /\ t.op = s.op /\ t.id = s.id /\ t.pool = r /\ t.out = C /\ t.meta = s.meta
      /\ s.meta => t.pc = "del" /\ t.todo = C
      /\ ~s.meta /\ m = "file" => t.pc = "clean" /\ t.todo = named
      /\ ~s.meta /\ m # "file" => t.pc = "set" /\ t.todo = DOMAIN r
  <2>1. C \subseteq Ids /\ DOMAIN r \subseteq Ids /\ named \subseteq Ids
    BY <1>d, <1>s, <1>r, <1>k DEF TypeOK
  <2>c. {"del", "clean", "set"} \subseteq Changing
    BY DEF Changing
  <2>n. named = IF x.op = "clear" THEN marker ELSE marker \cap x.out
    BY <1>x
  <2>m. m # "file" => m = "keychain"
    BY <1>k
  <2> HIDE DEF s, m, named
  <2>2. CASE s.meta
    <3>1. t = Onto(x, "del", C)
      BY <2>2, <1>y DEF Onto
    <3>2. /\ t \in State /\ t.pc = "del" /\ t.todo = C /\ t.op = x.op /\ t.id = x.id
          /\ t.pool = x.pool /\ t.out = x.out /\ t.meta = x.meta
      BY ONLY <3>1, <2>1, <2>c, <1>x, OntoState
    <3> QED BY ONLY <3>2, <2>2, <1>x
  <2>3. CASE ~s.meta /\ m = "file"
    <3>1. t = Onto(x, "clean", named)
      BY <2>3, <2>n, <1>y DEF Cleaning, Onto
    <3> QED BY ONLY <3>1, <2>1, <2>3, <2>c, <1>x, OntoState
  <2>4. CASE ~s.meta /\ m # "file"
    <3>1. t = Onto(x, "set", DOMAIN r)
      BY <2>4, <2>m, <1>x, <1>y DEF Saving, Onto
    <3> QED BY ONLY <3>1, <2>1, <2>4, <2>c, <1>x, OntoState
  <2> QED BY <2>2, <2>3, <2>4
<1>1. Removal(t) /\ t.pc \in {"del", "clean", "set"} /\ t.pc \in Changing
  BY <1>t, <1>c, <1>k DEF Removal, Changing
<1>2. Shape(t, m)
  <2>1. t.out \cap DOMAIN t.pool = {} /\ (t.op = "clear" => DOMAIN t.pool = {})
    BY <1>t, <1>r, <1>d
  <2>2. t.op \notin {"", "load"} \cup Issuing
    BY <1>t, <1>c DEF Issuing
  <2> QED BY <1>1, <1>t, <1>k, <2>1, <2>2 DEF Shape, Waiting, Fetching, Changing
<1>3. st'[p] = t
  BY <1>k, <1>z DEF TypeOK
<1>o. \A i \in Ids : owned[i] \in Nat /\ owned'[i] = IF i \in C THEN 0 ELSE owned[i]
  BY <1>k DEF TypeOK, C
<1>4. TypeOK'
  <2>1. owned' \in [Ids -> Nat]
    BY <1>k DEF TypeOK
  <2> QED BY <2>1, <1>t, <1>z, <1>k DEF TypeOK
<1>5. \A i \in Ids : owned'[i] <= owned[i]
  BY <1>o
<1>6. ASSUME ~raced PROVE Stored' /\ Pooled(p)' /\ Entries(p)'
  <2>1. Issued'
    BY <1>6, <1>c, <1>o, <1>k DEF Stored, Issued, TypeOK
  <2>h. Held'
    <3>1. \A i \in Ids : Sure(i) => Sure(i)'
      BY <1>4, <1>5, <1>k, KeptSure
    <3> QED BY <3>1, <1>6, <1>c, <1>k, FileFields DEF Stored, Held
  <2>2. Entered' /\ StaysRemoved' /\ RemovalCleans'
    BY <1>6, <1>c DEF Stored, Entered, StaysRemoved, RemovalCleans
  <2>3. KeepsSecrets'
    <3> SUFFICES ASSUME NEW i \in Ids, owned'[i] # 0 PROVE Found(i)' >= owned'[i]
      BY DEF KeepsSecrets
    <3>1. owned[i] = owned'[i]
      BY <1>o
    <3>2. Found(i) >= owned[i]
      BY <3>1, <1>6, <1>c DEF Stored, KeepsSecrets
    <3>3. Found(i)' = Found(i)
      BY DEF Found
    <3> QED BY <3>1, <3>2, <3>3
  <2>4. Source' = Source
    BY DEF Source
  <2>p. /\ gone \cap DOMAIN s.pool = {}
        /\ ~s.meta => \A i \in DOMAIN s.pool : owned[i] <= s.pool[i]
        /\ Source \subseteq DOMAIN s.pool /\ DOMAIN s.pool \subseteq Source
        /\ s.meta => /\ file.here /\ DOMAIN s.pool \subseteq DOMAIN file.rows
                     /\ \A i \in DOMAIN s.pool : file.rows[i] = 0
        /\ ~s.meta /\ m = "file" => Valid(file.rows)
        /\ m = "keychain" => DOMAIN file.rows = Source
    BY <1>6, <1>c, <1>s DEF Pooled, Guarded
  <2>5. Pooled(p)'
    <3>1. gone' \cap DOMAIN r = {} /\ Source' \subseteq DOMAIN r \cup C /\ C \subseteq Source'
          /\ DOMAIN r \cup C = DOMAIN s.pool
      BY <2>p, <2>4, <1>r, <1>d
    <3>2. \A i \in C : owned'[i] = 0
      BY <1>o, <1>d, <1>s
    <3>3. ~s.meta => \A i \in DOMAIN r : owned'[i] <= r[i]
      BY <2>p, <1>o, <1>r, <1>s
    <3>4. t.op \notin Issuing
      BY <1>t, <1>c DEF Issuing
    <3>5. \A i \in DOMAIN r : i \in DOMAIN s.pool
      BY <1>r
    <3> QED BY <3>1, <3>2, <3>3, <3>4, <3>5, <2>p, <2>4, <1>1, <1>3, <1>t DEF Pooled
  <2>6. Entries(p)'
    <3>1. CASE s.meta
      BY <3>1, <1>t, <1>3 DEF Entries
    <3>2. CASE ~s.meta /\ m = "file"
      <4>1. \A i \in C : chain[i] = 0 \/ i \in stray \cup marker
        <5> SUFFICES ASSUME NEW i \in C, chain[i] # 0, i \notin stray PROVE i \in marker
          OBVIOUS
        <5>1. i \in DOMAIN file.rows /\ (file.rows[i] = 0 \/ i \in marker)
          BY <1>6, <1>c, <1>d, <1>s DEF Stored, Entered
        <5>2. file.rows[i] # 0
          BY <5>1, <2>p, <3>2 DEF Valid
        <5> QED BY <5>1, <5>2
      <4>2. t.pc = "clean" /\ t.todo = named /\ t.out = C /\ t.op = s.op /\ ~t.meta
        BY <3>2, <1>t
      <4> QED BY <4>1, <4>2, <1>3 DEF Entries
    <3>3. CASE ~s.meta /\ m # "file"
      BY <3>3, <1>t, <1>3 DEF Entries
    <3> QED BY <3>1, <3>2, <3>3
  <2> QED BY <2>1, <2>2, <2>3, <2>5, <2>6, <2>h DEF Stored
<1> QED BY <1>1, <1>2, <1>4, <1>5, <1>6, <1>c, <1>t, <1>z, ChangeMove

(* The pool that was loaded is changed, or the operation is cancelled. *)
LEMMA MergeKeeps ==
  ASSUME IInv, NEW p \in Procs, Merge(p)
  PROVE  IInv'
<1> DEFINE s == st[p]
           v == IF kind = "oauth" THEN ver + 1 ELSE 1
           t == Chose(s, mode[p])
<1>u. /\ s.pc = "merge"
      /\ UNCHANGED <<kind, mode, file, legacy, chain, late, marker, lock, stray, stale, raced>>
      /\ \/ /\ s.op \in Issuing /\ st' = [st EXCEPT ![p] = Saving(Upserted(s, v), mode[p])]
            /\ ver' = v /\ gone' = gone \ {s.id} /\ UNCHANGED owned
         \/ /\ s.op \in Issuing /\ st' = [st EXCEPT ![p] = [s EXCEPT !.pc = "unlock"]]
            /\ UNCHANGED <<ver, gone, owned>>
         \/ /\ Removal(s) /\ st' = [st EXCEPT ![p] = t] /\ UNCHANGED <<ver, gone>>
            /\ owned' = [i \in Ids |-> IF i \in Chosen(s) THEN 0 ELSE owned[i]]
  BY DEF Merge, At, To, Go, KeepRest, KeepStores, stores, Issuing, Chose, Less
<1>1. CASE /\ s.op \in Issuing /\ st' = [st EXCEPT ![p] = Saving(Upserted(s, v), mode[p])]
           /\ ver' = v /\ gone' = gone \ {s.id} /\ UNCHANGED owned
  <2> DEFINE x == v
  <2>1. x = IF kind = "oauth" THEN ver + 1 ELSE 1
    OBVIOUS
  <2>2. st' = [st EXCEPT ![p] = Saving(Upserted(s, x), mode[p])] /\ ver' = x
    BY <1>1
  <2> HIDE DEF x
  <2> QED BY <2>1, <2>2, <1>1, <1>u, UpsertKeeps
<1>2. CASE /\ s.op \in Issuing /\ st' = [st EXCEPT ![p] = [s EXCEPT !.pc = "unlock"]]
           /\ UNCHANGED <<ver, gone, owned>>
  <2> DEFINE w == [s EXCEPT !.pc = "unlock"]
  <2>k. /\ TypeOK /\ s \in State /\ Shape(s, mode[p]) /\ raced \in BOOLEAN
        /\ lock \in Procs \cup {"none", "dead"}
    BY Known
  <2>c. s.op # "" /\ (~raced => lock = p /\ p \notin stale)
    BY <1>u, <1>2, ChangerKnown DEF Changing, Issuing
  <2>1. w \in State /\ Shape(w, mode[p]) /\ Holding(w) /\ w.pc = "unlock"
    BY <2>k, <2>c, UnlockShape
  <2> HIDE DEF w
  <2>2. w.pc \notin Fetching \cup Changing
    BY <2>1 DEF Fetching, Changing
  <2>3. Still
    BY <1>u, <1>2 DEF Still
  <2>4. st' = [st EXCEPT ![p] = w]
    BY <1>2 DEF w
  <2> QED BY <2>1, <2>2, <2>3, <2>4, <2>k, <2>c, <1>u, RestKeeps
<1>3. CASE /\ Removal(s) /\ st' = [st EXCEPT ![p] = t] /\ UNCHANGED <<ver, gone>>
           /\ owned' = [i \in Ids |-> IF i \in Chosen(s) THEN 0 ELSE owned[i]]
  BY <1>3, <1>u, ChooseKeeps
<1> QED BY <1>u, <1>1, <1>2, <1>3

(* The entries that a step deletes belong to nobody. *)
LEMMA DeletedUnowned ==
  ASSUME IInv, ~raced, NEW p \in Procs, st[p].pc \in {"del", "clean", "purge"},
         NEW i \in st[p].todo
  PROVE  owned[i] = 0
<1> DEFINE s == st[p]
<1>k. TypeOK /\ s \in State /\ Shape(s, mode[p]) /\ s.pc \in Changing
  BY Known DEF Changing
<1>c. Stored /\ Pooled(p) /\ Entries(p)
  BY <1>k, ChangerKnown
<1>1. Source \subseteq DOMAIN s.pool \cup s.out /\ \A j \in s.out : owned[j] = 0
  BY <1>k, <1>c DEF Pooled, Guarded
<1>2. i \in Ids /\ i \in s.todo
  BY <1>k, StateFields
<1>3. CASE s.pc = "del"
  BY <1>1, <1>2, <1>3, <1>c DEF Entries
<1>4. CASE s.pc = "clean"
  <2>1. i \in s.out \/ s.op = "clear"
    BY <1>2, <1>4, <1>c DEF Entries
  <2>2. s.op = "clear" => DOMAIN s.pool = {}
    BY <1>4, <1>k DEF Shape, Changing
  <2>3. owned[i] # 0 => i \in Source
    BY <1>2, <1>k, <1>c, OwnedInSource
  <2> QED BY <1>1, <2>1, <2>2, <2>3
<1>5. CASE s.pc = "purge"
  <2>1. i \in DOMAIN file.rows \ DOMAIN s.pool
    BY <1>2, <1>5, <1>c DEF Entries
  <2> QED BY <2>1, <1>1 DEF Source
<1> QED BY <1>3, <1>4, <1>5

(* The shape of a process that has one account less to visit. *)
LEMMA VisitShape ==
  ASSUME NEW s, NEW m, Shape(s, m), s.pc \in {"del", "clean", "set", "purge"}, NEW t, NEW i,
         t.pc = s.pc, t.op = s.op, t.id = s.id, t.pool = s.pool, t.out = s.out,
         t.meta = s.meta, t.todo = s.todo \ {i}
  PROVE  Shape(t, m)
<1>1. Removal(t) <=> Removal(s)
  BY DEF Removal
<1> QED BY <1>1 DEF Shape, Waiting, Fetching, Changing

(* deleteKeychainAccount, for the next entry that is to go. *)
LEMMA DeleteEntryKeeps ==
  ASSUME IInv, NEW p \in Procs, NEW c \in {"del", "clean", "purge"}, DeleteEntry(p, c)
  PROVE  IInv'
<1> DEFINE s == st[p]
           m == mode[p]
           i == Min(s.todo)
           t == [s EXCEPT !.todo = @ \ {i}]
<1>u. /\ s.pc = c /\ s.todo # {}
      /\ UNCHANGED <<kind, mode, file, legacy, marker, lock, ver, owned, gone, stale, raced>>
      /\ \/ /\ Call(i, 0) /\ stray' = stray \ {i}
            /\ st' = [st EXCEPT ![p] = t]
         \/ Abort(p) /\ CallFails(i, 0, FALSE) /\ UNCHANGED stray
  BY DEF DeleteEntry, At, Go, KeepRest
<1>k. TypeOK /\ s \in State /\ Shape(s, m) /\ raced \in BOOLEAN
  BY Known
<1>c. s.pc \in Changing /\ s.pc \in {"del", "clean", "purge"}
  BY <1>u DEF Changing
<1>i. i \in s.todo /\ i \in Ids
  <2>1. s.todo \subseteq Ids /\ Ids \subseteq Nat
    BY <1>k, StateFields, AccountsAssumption
  <2> QED BY <2>1, <1>u, MinIn
<1> HIDE DEF i
<1>1. CASE /\ Call(i, 0) /\ stray' = stray \ {i}
           /\ st' = [st EXCEPT ![p] = t]
  <2>1. /\ t \in State /\ t.pc = s.pc /\ t.op = s.op /\ t.id = s.id /\ t.pool = s.pool
        /\ t.out = s.out /\ t.meta = s.meta /\ t.todo = s.todo \ {i}
    BY <1>k DEF State
  <2> HIDE DEF t
  <2>2. Shape(t, m)
    <3>1. Shape(s, m) /\ s.pc \in {"del", "clean", "set", "purge"}
      BY <1>k, <1>c
    <3> HIDE DEF s, m
    <3> QED BY <3>1, <2>1, VisitShape
  <2>3. st'[p] = t
    BY <1>1, <1>k DEF TypeOK
  <2>6. /\ chain' \in [Ids -> Nat] /\ late' \in SUBSET Calls /\ chain'[i] = 0
        /\ \A j \in Ids : j # i => chain'[j] = chain[j]
        /\ Fixes(i, 0) /\ \A j \in Ids, v \in Nat : j # i /\ Fixed(j, v) => Fixes(j, v)
    BY <1>1, <1>i, <1>k, CallMade
  <2>4. TypeOK'
    BY <1>1, <1>u, <1>k, <2>1, <2>6, <1>i DEF TypeOK
  <2>5. \A j \in Ids : owned'[j] <= owned[j]
    BY <1>u, <1>k DEF TypeOK
  <2>7. ASSUME ~raced
        PROVE  /\ \A j \in Ids : Sure(j) => Sure(j)'
               /\ Stored' /\ Pooled(p)' /\ Entries(p)'
    <3>c. Stored /\ Pooled(p) /\ Entries(p)
      BY <2>7, <1>c, ChangerKnown
    <3>1. owned[i] = 0
      BY <2>7, <1>c, <1>i, DeletedUnowned
    <3>2. \A j \in Ids : Sure(j) => Sure(j)'
      BY <3>1, <2>4, <1>1, <1>u, <1>i, <1>k, CallSure
    <3>3. Stored'
      <4> DEFINE w == 0
      <4>1. /\ w \in Nat /\ owned[i] <= w /\ Call(i, w)
            /\ w # 0 => i \in stray'
        BY <3>1, <1>1
      <4>2. \A j \in stray : j # i => j \in stray'
        BY <1>1
      <4>3. /\ UNCHANGED <<kind, file, legacy, marker, ver, owned, gone>>
            /\ ~raced /\ ~raced' /\ TypeOK /\ TypeOK' /\ Stored
        BY <3>c, <2>4, <2>7, <1>u, <1>k
      <4> HIDE DEF w, s, t
      <4> QED BY ONLY <4>1, <4>2, <4>3, <1>i, EntryStored
    <3>4. Pooled(p)'
      <4>1. Source \subseteq DOMAIN s.pool \cup s.out
        BY <3>c, <1>c DEF Pooled, Guarded
      <4>2. s.pc \in Changing \ {"merge"}
        BY <1>c
      <4> QED BY <4>1, <4>2, <3>c, <2>1, <2>3, <1>u, PooledStays
    <3>5. CASE s.pc = "del"
      <4>1. s.todo \subseteq s.out /\ \A j \in s.out \ s.todo : Fixed(j, 0)
        BY <3>5, <3>c DEF Entries
      <4>2. s.out \subseteq Ids
        BY <1>k, StateFields
      <4>3. t.todo \subseteq t.out /\ \A j \in t.out \ t.todo : Fixes(j, 0)
        BY <4>1, <4>2, <2>1, <2>6
      <4>4. t.pc = "del"
        BY <3>5, <2>1
      <4>5. Entries(p)'
        BY <4>3, <4>4, <2>3 DEF Entries, Fixed, Fixes
      <4> QED BY <4>5, <3>2, <3>3, <3>4
    <3>6. CASE s.pc = "clean"
      <4> DEFINE named == IF s.op = "clear" THEN marker ELSE marker \cap s.out
      <4>1. /\ s.todo \subseteq named /\ \A j \in named \ s.todo : Fixed(j, 0)
            /\ \A j \in s.out :
                 Fixed(j, 0) \/ (~s.meta /\ (chain[j] = 0 \/ j \in stray \cup marker))
        BY <3>6, <3>c DEF Entries
      <4>2. s.out \subseteq Ids /\ named \subseteq Ids
        BY <1>k, StateFields DEF TypeOK
      <4>3. t.todo \subseteq named /\ \A j \in named \ t.todo : Fixes(j, 0)
        BY <4>1, <4>2, <2>1, <2>6
      <4>4. \A j \in t.out :
              Fixes(j, 0) \/ (~t.meta /\ (chain'[j] = 0 \/ j \in stray' \cup marker))
        BY <4>1, <4>2, <2>1, <2>6, <1>1
      <4>5. t.pc = "clean" /\ t.op = s.op /\ t.out = s.out /\ marker' = marker
        BY <3>6, <2>1, <1>u
      <4>6. Entries(p)'
        BY <4>3, <4>4, <4>5, <2>3, <1>u DEF Entries, Fixed, Fixes, TooLarge
      <4> QED BY <4>6, <3>2, <3>3, <3>4
    <3>7. CASE s.pc = "purge"
      <4>1. /\ s.todo \subseteq DOMAIN file.rows \ DOMAIN s.pool
            /\ \A j \in DOMAIN file.rows \ DOMAIN s.pool : j \notin s.todo => Fixed(j, 0)
            /\ \A j \in DOMAIN s.pool :
                 j \notin s.todo /\ ~TooLarge(j, s.pool[j]) => Fixed(j, s.pool[j])
        BY <3>7, <3>c DEF Entries
      <4>2. /\ DOMAIN s.pool \subseteq Ids /\ DOMAIN file.rows \subseteq Ids
            /\ \A j \in DOMAIN s.pool : s.pool[j] \in Nat
        BY <1>k, StateFields, FileFields
      <4>3. /\ t.todo \subseteq DOMAIN file'.rows \ DOMAIN t.pool
            /\ \A j \in DOMAIN file'.rows \ DOMAIN t.pool : j \notin t.todo => Fixes(j, 0)
        BY <4>1, <4>2, <2>1, <2>6, <1>u
      <4>4. \A j \in DOMAIN t.pool : ~TooLarge(j, t.pool[j]) => Fixes(j, t.pool[j])
        <5> SUFFICES ASSUME NEW j \in DOMAIN s.pool, ~TooLarge(j, s.pool[j])
                     PROVE  Fixes(j, s.pool[j])
          BY <2>1
        <5>1. j # i /\ j \in Ids /\ s.pool[j] \in Nat
          BY <4>1, <4>2, <1>i
        <5>2. Fixed(j, s.pool[j])
          BY <4>1, <1>i
        <5> QED BY <5>1, <5>2, <2>6
      <4>5. t.pc = "purge"
        BY <3>7, <2>1
      <4>6. Entries(p)'
        BY <4>3, <4>4, <4>5, <2>3, <1>u DEF Entries, Fixed, Fixes, TooLarge
      <4> QED BY <4>6, <3>2, <3>3, <3>4
    <3> QED BY <3>5, <3>6, <3>7, <1>c
  <2>8. t.pc \in Changing
    BY <2>1, <1>c
  <2> QED BY <2>1, <2>2, <2>4, <2>5, <2>7, <2>8, <1>1, <1>c, <1>u, ChangeMove
<1>2. CASE Abort(p) /\ CallFails(i, 0, FALSE) /\ UNCHANGED stray
  <2>1. ~raced => owned[i] <= 0 /\ lock \notin Procs \ {p}
    BY <1>c, <1>i, DeletedUnowned, ChangerKnown
  <2>2. Quiet(p)
    BY <2>1, <1>2, <1>u, <1>k, <1>i, FailsQuiet
  <2> QED BY <2>2, <1>2, <1>c, <1>u, AbortKeeps
<1> QED BY <1>u, <1>1, <1>2

(* The entries of a metadata pool are deleted. *)
LEMMA DeletedKeeps ==
  ASSUME IInv, NEW p \in Procs, Deleted(p)
  PROVE  IInv'
<1> DEFINE s == st[p]
           m == mode[p]
           named == IF s.op = "clear" THEN marker ELSE marker \cap s.out
           c == IF marker # {} THEN "clean" ELSE "write"
           T == IF marker # {} THEN named ELSE {}
           t == Onto(s, c, T)
<1>k. TypeOK /\ s \in State /\ Shape(s, m) /\ raced \in BOOLEAN
  BY Known
<1>u. /\ s.pc = "del" /\ s.todo = {}
      /\ st' = [st EXCEPT ![p] = IF marker # {} THEN Cleaning(s) ELSE [s EXCEPT !.pc = "write"]]
      /\ Still /\ UNCHANGED <<lock, mode, stale, raced>>
  BY DEF Deleted, At, Go, Still, stores, ghosts, KeepStores, KeepRest, KeepGhosts
<1>1. st' = [st EXCEPT ![p] = t]
  <2>1. CASE marker # {}
    BY <2>1, <1>u DEF Cleaning, Onto
  <2>2. CASE marker = {}
    <3>1. [s EXCEPT !.pc = "write"] = [s EXCEPT !.pc = "write", !.todo = {}]
      BY <1>u, <1>k DEF State
    <3> QED BY <3>1, <2>2, <1>u DEF Onto
  <2> QED BY <2>1, <2>2
<1>c. s.pc \in Changing /\ Removal(s) /\ s.meta /\ s.op \notin {"", "load"} \cup Issuing
  BY <1>u, <1>k DEF Shape, Changing, Removal, Issuing
<1>d. c \in Changing /\ c \in {"clean", "write"} /\ T \in SUBSET Ids /\ (c = "write" => T = {})
      /\ (c = "clean" => T = named)
  BY <1>k DEF Changing, TypeOK
<1>2. /\ t \in State /\ t.pc = c /\ t.todo = T /\ t.op = s.op /\ t.id = s.id
      /\ t.pool = s.pool /\ t.out = s.out /\ t.meta = s.meta
  <2> HIDE DEF s, c, T
  <2> QED BY <1>d, <1>k, OntoState
<1> HIDE DEF t, c, T
<1>3. Shape(t, m)
  <2>1. Removal(t)
    BY <1>c, <1>2 DEF Removal
  <2>2. s.out \cap DOMAIN s.pool = {} /\ (s.op = "clear" => DOMAIN s.pool = {})
    BY <1>u, <1>k DEF Shape, Changing
  <2> QED BY <2>1, <2>2, <1>2, <1>c, <1>d DEF Shape, Waiting, Fetching, Changing
<1>4. st'[p] = t
  BY <1>1, <1>k DEF TypeOK
<1>5. TypeOK'
  BY <1>1, <1>2, <1>u, <1>k DEF TypeOK, Still
<1>6. UNCHANGED <<kind, file, legacy, chain, late, marker, ver, owned, gone, stray>>
  BY <1>u DEF Still
<1>7. \A i \in Ids : owned'[i] <= owned[i]
  BY <1>6, <1>k DEF TypeOK
<1>8. ASSUME ~raced PROVE Stored' /\ Pooled(p)' /\ Entries(p)'
  <2>c. Stored /\ Pooled(p) /\ Entries(p)
    BY <1>8, <1>c, ChangerKnown
  <2>1. Stored'
    BY <2>c, <1>5, <1>8, <1>u, <1>k, StillStored
  <2>2. Pooled(p)'
    <3>1. Source \subseteq DOMAIN s.pool \cup s.out
      BY <2>c, <1>c DEF Pooled, Guarded
    <3>2. s.pc \in Changing \ {"merge"} /\ t.pc \in Changing \ {"merge"}
      BY <1>c, <1>d, <1>u, <1>2
    <3> QED BY <3>1, <3>2, <2>c, <1>2, <1>4, <1>6, <1>u, PooledStays
  <2>3. \A i \in s.out : Fixed(i, 0)'
    BY <2>c, <1>u, <1>6 DEF Entries, Fixed
  <2>4. Entries(p)'
    BY <2>3, <1>2, <1>4, <1>6, <1>c, <1>d DEF Entries
  <2> QED BY <2>1, <2>2, <2>4
<1> QED BY <1>1, <1>2, <1>3, <1>5, <1>6, <1>7, <1>8, <1>c, <1>d, <1>u, ChangeMove

(* cleanupRestoredKeychain: the marker forgets the entries it has deleted. *)
LEMMA CleanedKeeps ==
  ASSUME IInv, NEW p \in Procs, Cleaned(p)
  PROVE  IInv'
<1> DEFINE s == st[p]
           m == mode[p]
           left == IF s.op = "clear" THEN {} ELSE marker \ s.out
           named == IF s.op = "clear" THEN marker ELSE marker \cap s.out
           c == IF s.meta THEN "write" ELSE "guard"
           t == Onto(s, c, {})
<1>k. TypeOK /\ s \in State /\ m \in {"file", "keychain"} /\ Shape(s, m) /\ raced \in BOOLEAN
  BY Known
<1>u. /\ s.pc = "clean" /\ s.todo = {}
      /\ UNCHANGED <<kind, mode, file, legacy, chain, late, lock, ver, owned, gone, stray, stale, raced>>
      /\ \/ /\ marker' = left
            /\ st' = [st EXCEPT ![p] = IF s.meta THEN [s EXCEPT !.pc = "write"] ELSE Saving(s, m)]
         \/ Abort(p) /\ UNCHANGED marker
  BY DEF Cleaned, At, Go, ghosts, KeepRest, KeepGhosts
<1>c. /\ s.pc \in Changing /\ Removal(s) /\ s.op \notin {"", "load"} \cup Issuing
      /\ (s.meta \/ m = "file") /\ s.meta \in BOOLEAN
  BY <1>u, <1>k, StateFields DEF Shape, Changing, Removal, Issuing
<1>1. CASE /\ marker' = left
           /\ st' = [st EXCEPT ![p] = IF s.meta THEN [s EXCEPT !.pc = "write"] ELSE Saving(s, m)]
  <2>1. st' = [st EXCEPT ![p] = t]
    <3>1. [s EXCEPT !.pc = c] = [s EXCEPT !.pc = c, !.todo = {}]
      BY <1>u, <1>k DEF State
    <3>2. CASE s.meta
      BY <3>1, <3>2, <1>1 DEF Onto
    <3>3. CASE ~s.meta
      <4>1. Saving(s, m) = [s EXCEPT !.pc = "guard"]
        BY <3>3, <1>c DEF Saving
      <4> QED BY <3>1, <3>3, <4>1, <1>1 DEF Onto
    <3> QED BY <3>2, <3>3
  <2>d. /\ c \in Changing /\ c \in {"write", "guard"} /\ {} \in SUBSET Ids
        /\ (c = "guard" => ~s.meta /\ m = "file")
    BY <1>c DEF Changing
  <2>2. /\ t \in State /\ t.pc = c /\ t.todo = {} /\ t.op = s.op /\ t.id = s.id
        /\ t.pool = s.pool /\ t.out = s.out /\ t.meta = s.meta
    <3> HIDE DEF s, c
    <3> QED BY <2>d, <1>k, OntoState
  <2> HIDE DEF t, c
  <2>3. Shape(t, m)
    <3>1. Removal(t)
      BY <1>c, <2>2 DEF Removal
    <3>2. s.out \cap DOMAIN s.pool = {} /\ (s.op = "clear" => DOMAIN s.pool = {})
      BY <1>u, <1>k DEF Shape, Changing
    <3> QED BY <3>1, <3>2, <2>2, <2>d, <1>c DEF Shape, Waiting, Fetching, Changing
  <2>4. st'[p] = t
    BY <2>1, <1>k DEF TypeOK
  <2>5. TypeOK'
    <3>1. left \subseteq Ids
      BY <1>k DEF TypeOK
    <3> QED BY <3>1, <2>1, <2>2, <1>1, <1>u, <1>k DEF TypeOK
  <2>6. \A i \in Ids : owned'[i] <= owned[i]
    BY <1>u, <1>k DEF TypeOK
  <2>7. ASSUME ~raced PROVE Stored' /\ Pooled(p)' /\ Entries(p)'
    <3>c. Stored /\ Pooled(p) /\ Entries(p)
      BY <2>7, <1>c, ChangerKnown
    <3>1. /\ \A i \in named : chain[i] = 0 /\ Fixed(i, 0)
          /\ \A i \in s.out :
               Fixed(i, 0) \/ (~s.meta /\ (chain[i] = 0 \/ i \in stray \cup marker))
      BY <3>c, <1>u DEF Entries, Fixed
    <3>2. Entered'
      <4> SUFFICES ASSUME NEW i \in Ids, chain[i] # 0, i \notin stray
                   PROVE  i \in DOMAIN file.rows /\ (file.rows[i] = 0 \/ i \in left)
        BY <1>1, <1>u DEF Entered
      <4>1. i \in DOMAIN file.rows /\ (file.rows[i] = 0 \/ i \in marker)
        BY <3>c DEF Stored, Entered
      <4>2. i \notin named
        BY <3>1
      <4> QED BY <4>1, <4>2
    <3>3. Stored'
      BY <3>c, <3>2, <2>7, <1>u, MarkerStored
    <3>4. Pooled(p)'
      <4>1. Source \subseteq DOMAIN s.pool \cup s.out
        BY <3>c, <1>c, <1>u DEF Pooled, Guarded
      <4>2. s.pc \in Changing \ {"merge"} /\ t.pc \in Changing \ {"merge"}
        BY <1>c, <2>d, <1>u, <2>2
      <4> QED BY <4>1, <4>2, <3>c, <2>2, <2>4, <1>u, PooledStays
    <3>5. \A i \in t.out : Fixed(i, 0)' \/ (~t.meta /\ (chain'[i] = 0 \/ i \in stray'))
      <4> SUFFICES ASSUME NEW i \in s.out, ~Fixed(i, 0), chain[i] # 0 PROVE ~s.meta /\ i \in stray
        <5>1. \A i \in s.out : Fixed(i, 0) \/ ~s.meta
          BY <3>1
        <5> QED BY <5>1, <2>2, <1>u DEF Fixed
      <4>1. ~s.meta /\ i \in stray \cup marker
        BY <3>1
      <4>2. i \notin marker
        BY <3>1
      <4> QED BY <4>1, <4>2
    <3>6. t.pc = "write" => t.meta
      BY <2>2 DEF c
    <3>7. Entries(p)'
      BY <3>5, <3>6, <2>2, <2>4, <2>d DEF Entries
    <3> QED BY <3>3, <3>4, <3>7
  <2> QED BY <2>1, <2>2, <2>3, <2>5, <2>6, <2>7, <2>d, <1>c, <1>u, ChangeMove
<1>2. CASE Abort(p) /\ UNCHANGED marker
  <2>1. Still
    BY <1>2, <1>u DEF Still
  <2> QED BY <2>1, <1>2, <1>c, <1>u, AbortKeeps
<1> QED BY <1>u, <1>1, <1>2

(* saveKeychain sets an entry. *)
LEMMA SetEntryKeeps ==
  ASSUME IInv, NEW p \in Procs, SetEntry(p)
  PROVE  IInv'
<1> DEFINE s == st[p]
           m == mode[p]
           i == Min(s.todo)
           w == s.pool[i]
           t == [s EXCEPT !.todo = @ \ {i}]
<1>u. /\ s.pc = "set" /\ s.todo # {}
      /\ UNCHANGED <<kind, mode, file, legacy, marker, lock, ver, owned, gone, stale, raced>>
      /\ \/ /\ TooLarge(i, w) /\ UNCHANGED <<chain, late, stray>>
            /\ st' = [st EXCEPT ![p] = t]
         \/ /\ Call(i, w) /\ stray' = stray \cup {i}
            /\ st' = [st EXCEPT ![p] = t]
         \/ Abort(p) /\ CallFails(i, w, FALSE) /\ UNCHANGED stray
  BY DEF SetEntry, At, Go, KeepRest
<1>k. TypeOK /\ s \in State /\ Shape(s, m) /\ raced \in BOOLEAN
  BY Known
<1>c. s.pc \in Changing /\ s.todo \subseteq DOMAIN s.pool
  BY <1>u, <1>k DEF Changing, Shape
<1>i. i \in s.todo /\ i \in Ids
  <2>1. s.todo \subseteq Ids /\ Ids \subseteq Nat
    BY <1>k, StateFields, AccountsAssumption
  <2> QED BY <2>1, <1>u, MinIn
<1>w. i \in DOMAIN s.pool /\ w \in Nat /\ DOMAIN s.pool \subseteq Ids
  BY <1>i, <1>c, <1>k, StateFields
<1> HIDE DEF i
<1>o. ~raced => owned[i] <= w /\ lock \notin Procs \ {p} /\ Stored /\ Pooled(p) /\ Entries(p)
  <2>1. ~s.meta
    BY <1>u, <1>k DEF Shape
  <2> QED BY <2>1, <1>c, <1>w, ChangerKnown DEF Pooled
<1>1. ASSUME st' = [st EXCEPT ![p] = t],
             chain' \in [Ids -> Nat], late' \in SUBSET Calls, stray' \subseteq Ids,
             \A j \in Ids, v \in Nat : j # i /\ Fixed(j, v) => Fixes(j, v),
             TooLarge(i, w) \/ Fixes(i, w),
             ~raced /\ TypeOK' => Stored' /\ \A j \in Ids : Sure(j) => Sure(j)'
      PROVE  IInv'
  <2>1. /\ t \in State /\ t.pc = s.pc /\ t.op = s.op /\ t.id = s.id /\ t.pool = s.pool
        /\ t.out = s.out /\ t.meta = s.meta /\ t.todo = s.todo \ {i}
    BY <1>k DEF State
  <2> HIDE DEF t
  <2>2. Shape(t, m)
    <3>1. Shape(s, m) /\ s.pc \in {"del", "clean", "set", "purge"}
      BY <1>k, <1>u
    <3> HIDE DEF s, m
    <3> QED BY <3>1, <2>1, VisitShape
  <2>3. st'[p] = t
    BY <1>1, <1>k DEF TypeOK
  <2>4. TypeOK'
    BY <1>1, <1>u, <1>k, <2>1 DEF TypeOK
  <2>5. \A j \in Ids : owned'[j] <= owned[j]
    BY <1>u, <1>k DEF TypeOK
  <2>7. ASSUME ~raced
        PROVE  /\ \A j \in Ids : Sure(j) => Sure(j)'
               /\ Stored' /\ Pooled(p)' /\ Entries(p)'
    <3>1. Stored' /\ \A j \in Ids : Sure(j) => Sure(j)'
      BY <2>4, <2>7, <1>1
    <3>4. Pooled(p)'
      <4>1. Source \subseteq DOMAIN s.pool \cup s.out
        BY <2>7, <1>o, <1>c, <1>u DEF Pooled, Guarded
      <4>2. s.pc \in Changing \ {"merge"}
        BY <1>c, <1>u
      <4> QED BY <4>1, <4>2, <2>7, <1>o, <2>1, <2>3, <1>u, PooledStays
    <3>5. /\ \A j \in DOMAIN s.pool : j \notin s.todo /\ ~TooLarge(j, s.pool[j]) => Fixed(j, s.pool[j])
          /\ \A j \in DOMAIN s.pool : s.pool[j] \in Nat
      BY <2>7, <1>o, <1>u, <1>k, StateFields DEF Entries
    <3>6. \A j \in DOMAIN t.pool : j \notin t.todo /\ ~TooLarge(j, t.pool[j]) => Fixes(j, t.pool[j])
      <4> SUFFICES ASSUME NEW j \in DOMAIN s.pool, j \notin s.todo \ {i}, ~TooLarge(j, s.pool[j])
                   PROVE  Fixes(j, s.pool[j])
        BY <2>1
      <4>1. CASE j = i
        BY <4>1, <1>1, <1>w
      <4>2. CASE j # i
        <5>1. j \in Ids /\ s.pool[j] \in Nat /\ Fixed(j, s.pool[j])
          BY <4>2, <3>5, <1>w
        <5> QED BY <5>1, <4>2, <1>1
      <4> QED BY <4>1, <4>2
    <3>7. Entries(p)'
      BY <3>6, <2>1, <2>3, <1>u DEF Entries, Fixed, Fixes, TooLarge
    <3> QED BY <3>1, <3>4, <3>7
  <2>8. t.pc \in Changing
    BY <2>1, <1>c
  <2> QED BY <2>1, <2>2, <2>4, <2>5, <2>7, <2>8, <1>1, <1>c, <1>u, ChangeMove
<1>2. CASE /\ TooLarge(i, w) /\ UNCHANGED <<chain, late, stray>>
           /\ st' = [st EXCEPT ![p] = t]
  <2>1. Still
    BY <1>2, <1>u DEF Still
  <2>2. chain' \in [Ids -> Nat] /\ late' \in SUBSET Calls /\ stray' \subseteq Ids
    BY <1>2, <1>k DEF TypeOK
  <2>3. \A j \in Ids : (Sure(j) => Sure(j)') /\ \A v \in Nat : Fixed(j, v) => Fixes(j, v)
    BY <1>2, <1>u DEF Sure, Fixed, Fixes
  <2>4. ~raced /\ TypeOK' => Stored'
    BY <2>1, <1>o, <1>u, <1>k, StillStored
  <2> QED BY <2>2, <2>3, <2>4, <1>1, <1>2
<1>3. CASE /\ Call(i, w) /\ stray' = stray \cup {i}
           /\ st' = [st EXCEPT ![p] = t]
  <2>1. /\ chain' \in [Ids -> Nat] /\ late' \in SUBSET Calls /\ Fixes(i, w)
        /\ \A j \in Ids, v \in Nat : j # i /\ Fixed(j, v) => Fixes(j, v)
    <3> DEFINE x == w
    <3>1. x \in Nat /\ Call(i, x)
      BY <1>3, <1>w
    <3> HIDE DEF x
    <3>2. /\ chain' \in [Ids -> Nat] /\ late' \in SUBSET Calls /\ Fixes(i, x)
          /\ \A j \in Ids, v \in Nat : j # i /\ Fixed(j, v) => Fixes(j, v)
      BY <3>1, <1>i, <1>k, CallMade
    <3> QED BY <3>2 DEF x
  <2>2. stray' \subseteq Ids
    BY <1>3, <1>i, <1>k DEF TypeOK
  <2>3. ~raced /\ TypeOK' => Stored' /\ \A j \in Ids : Sure(j) => Sure(j)'
    <3> DEFINE x == w
    <3>1. x \in Nat /\ Call(i, x) /\ (~raced => owned[i] <= x)
      BY <1>3, <1>w, <1>o
    <3>2. /\ UNCHANGED <<kind, file, legacy, marker, ver, owned, gone, raced>>
          /\ TypeOK /\ (~raced => Stored) /\ stray' = stray \cup {i}
      BY <1>3, <1>o, <1>u, <1>k
    <3> HIDE DEF x, w, s, t
    <3> QED BY ONLY <3>1, <3>2, <1>i, EntryStored, CallSure
  <2> QED BY <2>1, <2>2, <2>3, <1>1, <1>3
<1>4. CASE Abort(p) /\ CallFails(i, w, FALSE) /\ UNCHANGED stray
  <2> DEFINE x == w
  <2>1. x \in Nat /\ CallFails(i, x, FALSE) /\ (~raced => owned[i] <= x /\ lock \notin Procs \ {p})
    BY <1>4, <1>w, <1>o
  <2> HIDE DEF x, w
  <2>2. Quiet(p)
    BY <2>1, <1>4, <1>u, <1>k, <1>i, FailsQuiet
  <2> QED BY <2>2, <1>4, <1>c, <1>u, AbortKeeps
<1> QED BY <1>u, <1>2, <1>3, <1>4

(* deleteRemovedEntries begins. *)
LEMMA EntriesSetKeeps ==
  ASSUME IInv, NEW p \in Procs, EntriesSet(p)
  PROVE  IInv'
<1> DEFINE s == st[p]
           m == mode[p]
           T == DOMAIN file.rows \ DOMAIN s.pool
           t == Onto(s, "purge", T)
<1>u. /\ s.pc = "set" /\ s.todo = {} /\ st' = [st EXCEPT ![p] = t]
      /\ Still /\ UNCHANGED <<lock, mode, stale, raced>>
  BY DEF EntriesSet, At, Go, Still, stores, ghosts, KeepStores, KeepRest, KeepGhosts, Onto
<1>k. TypeOK /\ s \in State /\ Shape(s, m) /\ raced \in BOOLEAN
  BY Known
<1>c. s.pc \in Changing /\ "purge" \in Changing /\ T \in SUBSET Ids
  BY <1>u, <1>k, FileFields DEF Changing
<1>2. /\ t \in State /\ t.pc = "purge" /\ t.todo = T /\ t.op = s.op /\ t.id = s.id
      /\ t.pool = s.pool /\ t.out = s.out /\ t.meta = s.meta
  <2> HIDE DEF s, T
  <2> QED BY <1>c, <1>k, OntoState
<1> HIDE DEF t
<1>3. Shape(t, m)
  <2>1. /\ s.op # "" /\ s.op # "load" /\ m = "keychain" /\ ~s.meta
        /\ s.out \cap DOMAIN s.pool = {} /\ (s.op = "clear" => DOMAIN s.pool = {})
        /\ s.op \in Issuing => s.id \in DOMAIN s.pool /\ s.out = {}
    BY <1>u, <1>k DEF Shape, Changing
  <2> QED BY <2>1, <1>2 DEF Shape, Waiting, Fetching, Changing
<1>4. st'[p] = t
  BY <1>u, <1>k DEF TypeOK
<1>5. TypeOK'
  BY <1>2, <1>u, <1>k DEF TypeOK, Still
<1>6. UNCHANGED <<kind, file, legacy, chain, late, marker, ver, owned, gone, stray>>
  BY <1>u DEF Still
<1>7. \A i \in Ids : owned'[i] <= owned[i]
  BY <1>6, <1>k DEF TypeOK
<1>8. ASSUME ~raced PROVE Stored' /\ Pooled(p)' /\ Entries(p)'
  <2>c. Stored /\ Pooled(p) /\ Entries(p)
    BY <1>8, <1>c, ChangerKnown
  <2>1. Stored'
    BY <2>c, <1>5, <1>8, <1>u, <1>k, StillStored
  <2>2. Pooled(p)'
    <3>1. Source \subseteq DOMAIN s.pool \cup s.out
      BY <2>c, <1>c, <1>u DEF Pooled, Guarded
    <3>2. s.pc \in Changing \ {"merge"} /\ t.pc \in Changing \ {"merge"}
      BY <1>c, <1>u, <1>2
    <3> QED BY <3>1, <3>2, <2>c, <1>2, <1>4, <1>6, <1>u, PooledStays
  <2>3. \A j \in DOMAIN s.pool : ~TooLarge(j, s.pool[j]) => Fixed(j, s.pool[j])
    BY <1>u, <2>c DEF Entries
  <2>4. Entries(p)'
    BY <2>3, <1>2, <1>4, <1>6 DEF Entries, TooLarge, Fixed
  <2> QED BY <2>1, <2>2, <2>4
<1>9. t.pc \in Changing
  BY <1>c, <1>2
<1> QED BY <1>2, <1>3, <1>5, <1>6, <1>7, <1>8, <1>9, <1>c, <1>u, ChangeMove

(* The guard lets a save in plain form pass. *)
LEMMA PassKeeps ==
  ASSUME IInv, NEW p \in Procs, st[p].pc = "guard",
         st' = [st EXCEPT ![p] = [st[p] EXCEPT !.pc = "write"]],
         UNCHANGED <<kind, mode, file, legacy, chain, late, lock, ver, owned, gone, stray, stale, raced>>,
         \/ ~MetadataOnly(file.rows) /\ marker' = marker
         \/ /\ MetadataOnly(file.rows) /\ DOMAIN file.rows \subseteq DOMAIN st[p].pool
            /\ marker' = DOMAIN file.rows
  PROVE  IInv'
<1> DEFINE s == st[p]
           m == mode[p]
           t == Onto(s, "write", {})
<1>k. TypeOK /\ s \in State /\ Shape(s, m) /\ raced \in BOOLEAN
  BY Known
<1>c. /\ s.pc \in Changing /\ "write" \in Changing /\ {} \in SUBSET Ids
      /\ m = "file" /\ ~s.meta /\ s.todo = {} /\ s.meta \in BOOLEAN
  BY <1>k, StateFields DEF Shape, Changing
<1>1. st' = [st EXCEPT ![p] = t]
  <2>1. [s EXCEPT !.pc = "write"] = [s EXCEPT !.pc = "write", !.todo = {}]
    BY <1>c, <1>k DEF State
  <2> QED BY <2>1 DEF Onto
<1>2. /\ t \in State /\ t.pc = "write" /\ t.todo = {} /\ t.op = s.op /\ t.id = s.id
      /\ t.pool = s.pool /\ t.out = s.out /\ t.meta = s.meta
  <2> HIDE DEF s
  <2> QED BY <1>c, <1>k, OntoState
<1> HIDE DEF t
<1>3. Shape(t, m)
  <2>1. /\ s.op # "" /\ s.op # "load"
        /\ s.out \cap DOMAIN s.pool = {} /\ (s.op = "clear" => DOMAIN s.pool = {})
        /\ s.op \in Issuing => s.id \in DOMAIN s.pool /\ s.out = {}
    BY <1>k DEF Shape, Changing
  <2> QED BY <2>1, <1>2, <1>c DEF Shape, Waiting, Fetching, Changing
<1>4. st'[p] = t
  BY <1>1, <1>k DEF TypeOK
<1>5. TypeOK'
  <2>1. marker' \subseteq Ids
    BY <1>k, FileFields DEF TypeOK
  <2> QED BY <2>1, <1>1, <1>2, <1>k DEF TypeOK
<1>6. \A i \in Ids : owned'[i] <= owned[i]
  BY <1>k DEF TypeOK
<1>7. ASSUME ~raced PROVE Stored' /\ Pooled(p)' /\ Entries(p)'
  <2>c. Stored /\ Pooled(p) /\ Entries(p)
    BY <1>7, <1>c, ChangerKnown
  <2>1. Source \subseteq DOMAIN s.pool \cup s.out
    <3>1. CASE ~MetadataOnly(file.rows)
      BY <3>1, <2>c, <1>c DEF Pooled, Guarded
    <3>2. CASE MetadataOnly(file.rows)
      <4>1. DOMAIN file.rows # {} /\ DOMAIN file.rows \subseteq DOMAIN s.pool
        BY <3>2 DEF MetadataOnly
      <4>2. file.here
        BY <4>1, <2>c DEF Stored, Issued
      <4> QED BY <4>1, <4>2 DEF Source
    <3> QED BY <3>1, <3>2
  <2>2. Pooled(p)'
    <3>1. s.pc \in Changing \ {"merge"} /\ t.pc \in Changing \ {"merge"}
      BY <1>c, <1>2
    <3> QED BY <3>1, <2>1, <2>c, <1>2, <1>4, PooledStays
  <2>3. \A i \in Ids : chain[i] # 0 /\ i \notin stray => i \in DOMAIN file.rows /\ i \in marker'
    <3> SUFFICES ASSUME NEW i \in Ids, chain[i] # 0, i \notin stray
                 PROVE  i \in DOMAIN file.rows /\ i \in marker'
      OBVIOUS
    <3>1. i \in DOMAIN file.rows /\ (file.rows[i] = 0 \/ i \in marker)
      BY <2>c DEF Stored, Entered
    <3>2. CASE ~MetadataOnly(file.rows)
      <4>1. Valid(file.rows)
        BY <3>2, <2>c, <1>c DEF Pooled
      <4> QED BY <3>1, <3>2, <4>1 DEF Valid
    <3>3. CASE MetadataOnly(file.rows)
      BY <3>1, <3>3
    <3> QED BY <3>2, <3>3
  <2>4. Entered'
    BY <2>3 DEF Entered
  <2>5. Stored'
    BY <2>4, <2>c, <1>7, MarkerStored
  <2>6. \A i \in s.out : chain[i] = 0 \/ i \in stray
    BY <2>c DEF Entries, Fixed
  <2>7. \A i \in Ids : chain[i] # 0 => i \in stray \/ (i \in marker' /\ i \in DOMAIN s.pool)
    <3> SUFFICES ASSUME NEW i \in Ids, chain[i] # 0, i \notin stray
                 PROVE  i \in marker' /\ i \in DOMAIN s.pool
      OBVIOUS
    <3>1. i \in marker' /\ i \in Source
      BY <2>3 DEF Source
    <3>2. i \notin s.out
      BY <2>6
    <3> QED BY <3>1, <3>2, <2>1
  <2>8. Entries(p)'
    BY <2>6, <2>7, <1>2, <1>4, <1>c DEF Entries
  <2> QED BY <2>2, <2>5, <2>8
<1>8. t.pc \in Changing
  BY <1>2, <1>c
<1> QED BY <1>1, <1>2, <1>3, <1>5, <1>6, <1>7, <1>8, <1>c, ChangeMove

(* prepareMetadataToFileSave. *)
LEMMA GuardKeeps ==
  ASSUME IInv, NEW p \in Procs, Guard(p)
  PROVE  IInv'
<1> DEFINE s == st[p]
           old == DOMAIN file.rows
<1>u. /\ s.pc = "guard"
      /\ UNCHANGED <<kind, mode, file, legacy, chain, late, lock, ver, owned, gone, stray, stale, raced>>
      /\ \/ /\ st' = [st EXCEPT ![p] = [s EXCEPT !.pc = "write"]]
            /\ \/ ~MetadataOnly(file.rows) /\ marker' = marker
               \/ MetadataOnly(file.rows) /\ old \subseteq DOMAIN s.pool /\ marker' = old
         \/ Abort(p) /\ UNCHANGED marker
  BY DEF Guard, At, To, Go, ghosts, KeepRest, KeepGhosts
<1>1. CASE /\ st' = [st EXCEPT ![p] = [s EXCEPT !.pc = "write"]]
           /\ \/ ~MetadataOnly(file.rows) /\ marker' = marker
              \/ MetadataOnly(file.rows) /\ old \subseteq DOMAIN s.pool /\ marker' = old
  BY <1>1, <1>u, PassKeeps
<1>2. CASE Abort(p) /\ UNCHANGED marker
  <2>1. Still /\ s.pc \in Changing
    BY <1>2, <1>u DEF Still, Changing
  <2> QED BY <2>1, <1>2, <1>u, AbortKeeps
<1> QED BY <1>u, <1>1, <1>2

(* What is stored once a save is acknowledged. *)
LEMMA SaveStored ==
  ASSUME IInv, ~raced, ~raced', NEW p \in Procs, st[p].pc \in {"write", "purge"}, st[p].todo = {},
         NEW w \in Rows, file'.here, file'.rows = w, DOMAIN w = DOMAIN st[p].pool,
         \A i \in DOMAIN w : w[i] = IF st[p].meta THEN 0
                                    ELSE IF mode[p] = "keychain" /\ ~TooLarge(i, st[p].pool[i]) THEN 0
                                    ELSE st[p].pool[i],
         legacy' \in {legacy, 0},
         stray' = (IF mode[p] = "file" THEN stray ELSE Strays(st[p].pool)),
         owned' = (IF Removal(st[p]) THEN owned
                   ELSE [owned EXCEPT ![st[p].id] = st[p].pool[st[p].id]]),
         gone' = (IF Removal(st[p]) THEN gone \cup st[p].out ELSE gone),
         UNCHANGED <<kind, chain, late, marker, ver>>, TypeOK'
  PROVE  Stored'
<1> DEFINE s == st[p]
           m == mode[p]
           D == DOMAIN s.pool
<1>k. TypeOK /\ s \in State /\ m \in {"file", "keychain"} /\ Shape(s, m)
  BY Known
<1>a. s.pc \in Changing
  BY DEF Changing
<1>c. Stored /\ Pooled(p) /\ Entries(p) /\ (Removal(s) <=> s.op \notin Issuing)
  BY <1>a, ChangerKnown
<1>s. /\ D \subseteq Ids /\ s.out \subseteq Ids /\ \A i \in D : s.pool[i] \in Nat
      /\ s.out \cap D = {} /\ (s.meta => Removal(s)) /\ s.meta \in BOOLEAN
      /\ ~Removal(s) => s.id \in D /\ s.out = {}
      /\ (s.pc = "purge" => m = "keychain" /\ ~s.meta)
      /\ (s.pc = "write" => s.meta \/ m = "file")
  <2>1. /\ D \subseteq Ids /\ s.out \subseteq Ids /\ \A i \in D : s.pool[i] \in Nat
        /\ s.meta \in BOOLEAN
    BY <1>k, StateFields
  <2>2. /\ s.out \cap D = {} /\ (s.meta => Removal(s))
        /\ s.op \in Issuing => s.id \in D /\ s.out = {}
        /\ (s.pc = "purge" => m = "keychain" /\ ~s.meta)
        /\ (s.pc = "write" => s.meta \/ m = "file")
    BY <1>a, <1>k DEF Shape, Changing
  <2> QED BY <2>1, <2>2, <1>c
<1>p. /\ gone \cap D = {} /\ Source \subseteq D \cup s.out
      /\ \A i \in s.out : owned[i] = 0
      /\ ~s.meta => \A i \in D : owned[i] <= s.pool[i]
      /\ ~Removal(s) => s.pool[s.id] <= ver
      /\ s.meta => file.here /\ D \cup s.out \subseteq DOMAIN file.rows /\ \A i \in D : file.rows[i] = 0
      /\ m = "keychain" => s.out \subseteq DOMAIN file.rows
  BY <1>a, <1>c DEF Pooled, Guarded
<1>o. /\ \A i \in Ids : owned[i] \in Nat /\ chain[i] \in Nat /\ owned[i] <= ver
      /\ ver \in Nat
  BY <1>k, <1>c DEF TypeOK, Stored, Issued
<1>n. \A i \in Ids : owned'[i] = IF ~Removal(s) /\ i = s.id THEN s.pool[i] ELSE owned[i]
  BY <1>k DEF TypeOK
<1>w. \A i \in D : w[i] = IF s.meta THEN 0 ELSE IF m = "keychain" /\ ~TooLarge(i, s.pool[i]) THEN 0 ELSE s.pool[i]
  OBVIOUS
\* The entries: of the accounts saved, of those removed, and all the others.
<1>e. /\ m = "keychain" /\ ~s.meta => \A i \in D : ~TooLarge(i, s.pool[i]) => Fixed(i, s.pool[i])
      /\ \A i \in s.out : chain[i] = 0 \/ (m = "file" /\ i \in stray)
  <2>1. CASE s.pc = "purge"
    <3>1. /\ \A i \in D : ~TooLarge(i, s.pool[i]) => Fixed(i, s.pool[i])
          /\ \A i \in DOMAIN file.rows \ D : chain[i] = 0
      BY <2>1, <1>c DEF Entries, Fixed
    <3> QED BY <3>1, <2>1, <1>s, <1>p
  <2>2. CASE s.pc = "write"
    <3>1. \A i \in s.out : chain[i] = 0 \/ (~s.meta /\ i \in stray)
      BY <2>2, <1>c DEF Entries, Fixed
    <3> QED BY <3>1, <2>2, <1>s, <1>k
  <2> QED BY <2>1, <2>2
<1>g. /\ m = "file" => stray' = stray
      /\ m = "keychain" =>
           stray' = (stray \ D) \cup {i \in D : TooLarge(i, s.pool[i]) /\ chain[i] # 0}
  BY DEF Strays
<1> HIDE DEF s, m, D
<1>1. Issued'
  <2>1. \A i \in Ids : owned'[i] <= ver
    BY <1>n, <1>o, <1>p
  <2>2. ver >= 1 /\ (kind = "key" => ver = 1) /\ (legacy' # 0 => kind = "key")
    BY <1>c DEF Stored, Issued
  <2> QED BY <2>1, <2>2 DEF Issued
<1>2. StaysRemoved'
  <2>1. gone' \cap D = {}
    BY <1>p, <1>s DEF s
  <2>2. DOMAIN file'.rows = D
    BY DEF D, s
  <2> QED BY <2>1, <2>2 DEF StaysRemoved
<1>3. RemovalCleans'
  <2> SUFFICES ASSUME NEW i \in gone' PROVE i \in stray' \/ chain[i] = 0
    BY DEF RemovalCleans
  <2>1. CASE i \in gone
    <3>1. i \in stray \/ chain[i] = 0
      BY <2>1, <1>c DEF Stored, RemovalCleans
    <3>2. i \notin D
      BY <2>1, <1>p
    <3> QED BY <3>1, <3>2, <1>g, <1>k
  <2>2. CASE i \in s.out
    BY <2>2, <1>e, <1>g
  <2> QED BY <2>1, <2>2 DEF s
<1>4. Entered'
  <2> SUFFICES ASSUME NEW i \in Ids, chain[i] # 0, i \notin stray'
               PROVE  i \in D /\ (w[i] = 0 \/ i \in marker)
    BY DEF Entered, D, s
  <2>1. i \notin stray => i \in DOMAIN file.rows /\ i \notin s.out
    BY <1>c, <1>e DEF Stored, Entered
  <2>2. i \in D
    <3>1. m = "keychain" /\ i \in stray => i \in D
      BY <1>g
    <3>2. i \notin stray => i \in D
      BY <2>1, <1>p DEF Source
    <3> QED BY <3>1, <3>2, <1>g, <1>k
  <2>3. CASE s.meta
    BY <2>2, <2>3, <1>w
  <2>4. CASE ~s.meta /\ m = "keychain"
    <3>1. ~TooLarge(i, s.pool[i])
      BY <2>2, <2>4, <1>g
    <3> QED BY <3>1, <2>2, <2>4, <1>w
  <2>5. CASE ~s.meta /\ m = "file"
    <3>1. s.pc = "write"
      BY <2>5, <1>s DEF s
    <3>2. i \in stray \/ i \in marker
      BY <2>5, <3>1, <1>c DEF Entries, s
    <3> QED BY <3>2, <2>2, <2>5, <1>g
  <2> QED BY <2>3, <2>4, <2>5, <1>k
<1>h. Held'
  <2> SUFFICES ASSUME NEW i \in D, w[i] = 0 PROVE Sure(i)'
    BY DEF Held, D, s
  <2>0. i \in Ids /\ s.pool[i] \in Nat
    BY <1>s
  <2>1. CASE s.meta
    <3>1. Sure(i) /\ owned'[i] = owned[i]
      BY <2>0, <2>1, <1>c, <1>n, <1>p, <1>s DEF Stored, Held
    <3> QED BY <3>1 DEF Sure
  <2>2. CASE ~s.meta /\ m = "keychain" /\ ~TooLarge(i, s.pool[i])
    <3> DEFINE v == s.pool[i]
    <3>1. Fixed(i, v) /\ owned'[i] <= v
      BY <2>0, <2>2, <1>e, <1>n, <1>p, <1>o
    <3> HIDE DEF v
    <3> QED BY <3>1 DEF Fixed, Sure
  <2>3. CASE ~s.meta /\ ~(m = "keychain" /\ ~TooLarge(i, s.pool[i]))
    <3>1. s.pool[i] = 0
      BY <2>3, <1>w
    <3>2. owned'[i] <= 0
      BY <3>1, <2>0, <2>3, <1>n, <1>p, <1>o
    <3>3. owned'[i] \in Nat /\ chain'[i] \in Nat /\ \A c \in late' : c.v \in Nat
      BY <2>0 DEF TypeOK, Calls
    <3>4. owned'[i] = 0
      BY <3>2, <3>3
    <3> QED BY <3>3, <3>4 DEF Sure
  <2> QED BY <2>1, <2>2, <2>3, <1>s
<1>5. KeepsSecrets'
  <2> SUFFICES ASSUME NEW i \in Ids, owned'[i] # 0 PROVE Found(i)' >= owned'[i]
    BY DEF KeepsSecrets
  <2>1. i \in D
    <3>1. CASE ~Removal(s) /\ i = s.id
      BY <3>1, <1>s
    <3>2. CASE ~(~Removal(s) /\ i = s.id)
      <4>1. owned[i] # 0
        BY <3>2, <1>n
      <4>2. i \in Source /\ i \notin s.out
        BY <4>1, <1>c, <1>k, <1>p, OwnedInSource
      <4> QED BY <4>2, <1>p
    <3> QED BY <3>1, <3>2
  <2>2. Found(i)' = IF w[i] # 0 THEN w[i] ELSE chain[i]
    BY <2>1 DEF Found, D, s
  <2>3. CASE s.meta
    <3>1. owned'[i] = owned[i] /\ Found(i)' = chain[i]
      BY <2>1, <2>2, <2>3, <1>n, <1>s, <1>w
    <3>2. Found(i) = chain[i]
      BY <2>1, <2>3, <1>p DEF Found
    <3>3. Found(i) >= owned[i]
      BY <3>1, <1>c DEF Stored, KeepsSecrets
    <3> QED BY <3>1, <3>2, <3>3
  <2>4. CASE ~s.meta
    <3>1. owned'[i] <= s.pool[i] /\ s.pool[i] \in Nat /\ owned'[i] \in Nat
      BY <2>1, <2>4, <1>n, <1>p, <1>s, <1>o
    <3>2. CASE m = "keychain" /\ ~TooLarge(i, s.pool[i])
      <4>1. w[i] = 0 /\ chain[i] = s.pool[i]
        BY <3>2, <2>1, <2>4, <1>w, <1>e DEF Fixed
      <4> QED BY <4>1, <3>1, <2>2
    <3>3. CASE ~(m = "keychain" /\ ~TooLarge(i, s.pool[i]))
      <4>1. w[i] = s.pool[i]
        BY <3>3, <2>1, <2>4, <1>w
      <4> QED BY <4>1, <3>1, <2>2
    <3> QED BY <3>2, <3>3
  <2> QED BY <2>3, <2>4
<1> QED BY <1>1, <1>2, <1>3, <1>4, <1>5, <1>h DEF Stored

(* The rows that a save writes. *)
LEMMA SavedRows ==
  ASSUME NEW s \in State, NEW m \in {"file", "keychain"}, NEW w,
         w = IF s.meta THEN [i \in DOMAIN s.pool |-> 0]
             ELSE IF m = "keychain" THEN Stripped(s.pool) ELSE s.pool
  PROVE  /\ w \in Rows /\ DOMAIN w = DOMAIN s.pool
         /\ \A i \in DOMAIN w : w[i] = IF s.meta THEN 0
                                       ELSE IF m = "keychain" /\ ~TooLarge(i, s.pool[i]) THEN 0
                                       ELSE s.pool[i]
<1> DEFINE r == s.pool
<1>1. r \in Rows /\ s.meta \in BOOLEAN
  BY StateFields
<1> HIDE DEF r
<1>2. CASE s.meta
  <2>1. w = [i \in DOMAIN r |-> 0]
    BY <1>2 DEF r
  <2> QED BY ONLY <2>1, <1>1, <1>2, BlankRows DEF r
<1>3. CASE ~s.meta /\ m = "keychain"
  <2>1. w = Stripped(r)
    BY <1>3 DEF r
  <2>2. w \in Rows /\ DOMAIN w = DOMAIN r /\ \A i \in DOMAIN r : w[i] = IF TooLarge(i, r[i]) THEN r[i] ELSE 0
    BY ONLY <2>1, <1>1, StrippedRows
  <2> QED BY ONLY <2>2, <1>3 DEF r
<1>4. CASE ~s.meta /\ m = "file"
  BY <1>1, <1>4 DEF r
<1> QED BY <1>1, <1>2, <1>3, <1>4

(* The pool file is replaced, or the write fails. *)
LEMMA WriteKeeps ==
  ASSUME IInv, NEW p \in Procs, Write(p)
  PROVE  IInv'
<1> DEFINE s == st[p]
           m == mode[p]
           w == IF s.meta THEN [i \in DOMAIN s.pool |-> 0]
                ELSE IF m = "keychain" THEN Stripped(s.pool) ELSE s.pool
           t == [s EXCEPT !.pc = "unlock"]
<1>u. /\ s.pc \in {"write", "purge"} /\ s.todo = {}
      /\ st' = [st EXCEPT ![p] = t]
      /\ UNCHANGED <<kind, mode, chain, late, marker, lock, ver, raced>>
      /\ \/ /\ file' = Pool(w) /\ legacy' \in {legacy, 0}
            /\ stray' = (IF m = "file" THEN stray ELSE Strays(s.pool))
            /\ owned' = (IF Removal(s) THEN owned ELSE [owned EXCEPT ![s.id] = s.pool[s.id]])
            /\ gone' = (IF Removal(s) THEN gone \cup s.out ELSE gone)
            /\ Replaced(p)
         \/ UNCHANGED <<file, legacy, stray, stale, owned, gone>>
  BY DEF Write, To, Go, KeepRest
<1>k. TypeOK /\ s \in State /\ m \in {"file", "keychain"} /\ Shape(s, m) /\ raced \in BOOLEAN
  BY Known
<1>l. lock \in Procs \cup {"none", "dead"}
  BY Known
<1>c. /\ s.pc \in Changing /\ s.op # "" /\ s.op # "load"
      /\ ~Removal(s) => s.id \in DOMAIN s.pool
      /\ ~raced => lock = p /\ p \notin stale
  <2>1. s.pc \in Changing \ {"merge"}
    BY <1>u DEF Changing
  <2>2. s.op \in Issuing => s.id \in DOMAIN s.pool
    BY <2>1, <1>k DEF Shape
  <2> QED BY <2>1, <2>2, ChangerKnown
<1>t. t \in State /\ Shape(t, m) /\ Holding(t) /\ t.pc = "unlock" /\ t.op = s.op
  BY <1>k, <1>c, UnlockShape
<1>r. t.pc \notin Fetching \cup Changing
  BY <1>t DEF Fetching, Changing
<1> HIDE DEF t
<1>1. CASE /\ file' = Pool(w) /\ legacy' \in {legacy, 0}
           /\ stray' = (IF m = "file" THEN stray ELSE Strays(s.pool))
           /\ owned' = (IF Removal(s) THEN owned ELSE [owned EXCEPT ![s.id] = s.pool[s.id]])
           /\ gone' = (IF Removal(s) THEN gone \cup s.out ELSE gone)
           /\ Replaced(p)
  <2>1. st'[p] = t
    BY <1>u, <1>k DEF TypeOK
  <2>2. /\ w \in Rows /\ DOMAIN w = DOMAIN s.pool
        /\ \A i \in DOMAIN w : w[i] = IF s.meta THEN 0
                                      ELSE IF m = "keychain" /\ ~TooLarge(i, s.pool[i]) THEN 0
                                      ELSE s.pool[i]
    BY <1>k, SavedRows
  <2> HIDE DEF w
  <2>3. file' \in File /\ file'.here /\ file'.rows = w
    BY <1>1, <2>2, PoolFile
  <2>4. stale' = stale \cup {q \in Procs \ {p} : st[q].pc # "idle"}
    BY <1>1 DEF Replaced, At
  <2>5. /\ DOMAIN s.pool \subseteq Ids /\ s.out \subseteq Ids
        /\ \A i \in DOMAIN s.pool : s.pool[i] \in Nat
    BY <1>k, StateFields
  <2>6. TypeOK'
    <3>1. owned' \in [Ids -> Nat]
      <4>1. CASE Removal(s)
        BY <4>1, <1>1, <1>k DEF TypeOK
      <4>2. CASE ~Removal(s)
        <5>1. s.id \in Ids /\ s.pool[s.id] \in Nat
          BY <4>2, <1>c, <2>5
        <5> QED BY <5>1, <4>2, <1>1, <1>k DEF TypeOK
      <4> QED BY <4>1, <4>2
    <3>2. legacy' \in Nat /\ gone' \subseteq Ids /\ stray' \subseteq Ids /\ stale' \subseteq Procs
      BY <1>1, <1>k, <2>4, <2>5 DEF TypeOK, Strays
    <3> QED BY <3>1, <3>2, <2>3, <1>u, <1>k, <1>t DEF TypeOK
  <2>7. ASSUME ~raced' PROVE Apart(p) /\ Stored' /\ Own(p)'
    <3>1. ~raced /\ lock = p /\ p \notin stale
      BY <2>7, <1>u, <1>c
    <3>2. Apart(p)
      BY <3>1, <2>4, <2>6, <1>u, <1>k, HolderApart
    <3>3. Stored'
      BY <3>1, <2>2, <2>3, <2>6, <2>7, <1>1, <1>u, SaveStored
    <3>4. Locked(p)'
      BY <3>1, <2>1, <2>4, <1>u, <1>t DEF Locked
    <3> QED BY <3>2, <3>3, <3>4, <2>1, <1>r, RestOwn
  <2> QED BY <2>6, <2>7, <1>u, <1>t, MoveKeeps
<1>2. CASE UNCHANGED <<file, legacy, stray, stale, owned, gone>>
  <2>1. Still
    BY <1>2, <1>u DEF Still
  <2> QED BY <2>1, <1>2, <1>u, <1>k, <1>l, <1>c, <1>t, <1>r, RestKeeps
<1> QED BY <1>u, <1>1, <1>2

----------------------------------------------------------------------------
(* The theorems.                                                           *)

(* The state in which the first process finds the store. *)
LEMMA InitIInv == Init => IInv
<1> SUFFICES ASSUME Init PROVE IInv
  OBVIOUS
<1>i. /\ kind \in {"key", "oauth"} /\ file = NoFile /\ marker = {} /\ lock = "none" /\ ver = 1
      /\ chain = [i \in Ids |-> 0] /\ late = {} /\ st = [p \in Procs |-> Idle]
      /\ gone = {} /\ stray = {} /\ stale = {} /\ raced = FALSE
      /\ owned = [i \in Ids |-> IF i = LegacyId THEN legacy ELSE 0]
  BY DEF Init
<1>1. NoFile \in File /\ ~NoFile.here /\ NoFile.rows = NoRows /\ DOMAIN NoRows = {}
  BY NoRowsAre DEF NoFile, File
<1>2. \A p \in Procs : st[p] = Idle
  BY <1>i
<1>4. legacy \in {0, 1} /\ (legacy # 0 => kind = "key")
  BY DEF Init
<1>5. mode \in [Procs -> {"file", "keychain"}]
  BY DEF Init
<1>6. \A i \in Ids : owned[i] = IF i = LegacyId THEN legacy ELSE 0
  BY <1>i
<1>7. TypeOK
  <2>1. owned \in [Ids -> Nat] /\ chain \in [Ids -> Nat] /\ legacy \in Nat
    BY <1>i, <1>4
  <2>2. st \in [Procs -> State]
    BY <1>i, IdleState
  <2> QED BY <2>1, <2>2, <1>i, <1>1, <1>5 DEF TypeOK
<1>8. \A p \in Procs : Shape(st[p], mode[p])
  BY <1>2, IdleShape
<1>9. Stored
  <2>0. \A i \in Ids : chain[i] = 0
    BY <1>i
  <2>1. Issued
    BY <2>0, <1>i, <1>1, <1>4, <1>6 DEF Issued
  <2>2. Entered /\ StaysRemoved /\ RemovalCleans
    BY <2>0, <1>i DEF Entered, StaysRemoved, RemovalCleans
  <2>3. KeepsSecrets
    BY <1>i, <1>1, <1>4, <1>6 DEF KeepsSecrets, Found
  <2>4. Held
    BY <1>i, <1>1 DEF Held
  <2> QED BY <2>1, <2>2, <2>3, <2>4 DEF Stored
<1>10. ASSUME NEW p \in Procs PROVE Own(p)
  <2>1. Locked(p)
    BY <1>2, IdleShape, HolderAssumption DEF Init, Locked
  <2>2. Fetched(p) /\ Pooled(p) /\ Entries(p)
    BY <1>2, IdleState DEF Fetched, Pooled, Entries, Fetching, Changing
  <2> QED BY <2>1, <2>2 DEF Own
<1> QED BY <1>7, <1>8, <1>9, <1>10 DEF IInv

(* A step that changes nothing. *)
LEMMA StutterKeeps ==
  ASSUME IInv, UNCHANGED vars
  PROVE  IInv'
<1>u. /\ UNCHANGED <<kind, file, legacy, chain, late, marker, lock, mode, st, ver>>
      /\ UNCHANGED <<owned, gone, stray, stale, raced>>
  BY DEF vars, stores, ghosts
<1>1. TypeOK'
  BY <1>u DEF IInv, TypeOK
<1>2. \A p \in Procs : Shape(st'[p], mode'[p])
  BY <1>u DEF IInv
<1>3. ASSUME ~raced' PROVE Stored'
  <2>1. Still /\ ~raced
    BY <1>3, <1>u DEF Still
  <2> QED BY <2>1, <1>1, <1>3, StillStored DEF IInv
<1>4. ASSUME ~raced', NEW p \in Procs PROVE Own(p)'
  <2>1. Locked(p) /\ Fetched(p) /\ Pooled(p) /\ Entries(p)
    BY <1>4, <1>u DEF IInv, Own
  <2>2. Locked(p)'
    BY <2>1, <1>u DEF Locked
  <2>3. Fetched(p)'
    BY <2>1, <1>u DEF Fetched, TooLarge, Sure
  <2>4. Pooled(p)'
    BY <2>1, <1>u DEF Pooled, Guarded, Source
  <2>5. Entries(p)'
    BY <2>1, <1>u DEF Entries, TooLarge, Fixed
  <2> QED BY <2>2, <2>3, <2>4, <2>5 DEF Own
<1> QED BY <1>1, <1>2, <1>3, <1>4 DEF IInv

(* A call that was given up on takes effect. *)
LEMMA LandKeeps ==
  ASSUME IInv, NEW c \in late, Land(c)
  PROVE  IInv'
<1> DEFINE i == c.id
<1>u. /\ chain' = [chain EXCEPT ![i] = c.v] /\ late' = late \ {c}
      /\ stray' = (IF c.v = 0 THEN stray \ {i} ELSE stray \cup {i}) /\ raced' = (raced \/ c.old)
      /\ UNCHANGED <<kind, file, legacy, marker, lock, mode, st, ver, owned, gone, stale>>
  BY DEF Land
<1>k. TypeOK /\ c \in Calls /\ i \in Ids /\ c.v \in Nat /\ c.old \in BOOLEAN
  BY DEF IInv, TypeOK, Calls
<1>1. TypeOK'
  BY <1>u, <1>k DEF TypeOK
<1>2. \A p \in Procs : Shape(st'[p], mode'[p])
  BY <1>u DEF IInv
<1>3. chain'[i] = c.v /\ \A j \in Ids : j # i => chain'[j] = chain[j]
  BY <1>u, <1>k DEF TypeOK
<1> HIDE DEF i
<1>4. ASSUME ~raced' PROVE \A j \in Ids : Sure(j) => Sure(j)'
  <2> SUFFICES ASSUME NEW j \in Ids, Sure(j) PROVE Sure(j)'
    OBVIOUS
  <2>1. owned'[j] <= owned[j]
    BY <1>u, <1>k DEF TypeOK
  <2>2. chain'[j] = chain[j] \/ owned[j] <= chain'[j]
    BY <1>3, <1>4, <1>u, <1>k DEF Sure, i
  <2> QED BY <2>1, <2>2, <1>1, <1>u, <1>k, SureStays
<1>5. ASSUME ~raced' PROVE Stored'
  <2>1. ~raced /\ Stored
    BY <1>5, <1>u DEF IInv
  <2>2. (\A j \in stray : j # i => j \in stray') /\ (chain'[i] # 0 => i \in stray')
    BY <1>3, <1>u
  <2> QED BY <2>1, <2>2, <1>1, <1>3, <1>4, <1>5, <1>u, <1>k, ChangeStored
<1>6. ASSUME ~raced', NEW p \in Procs PROVE Own(p)'
  <2>1. Locked(p) /\ Fetched(p) /\ Pooled(p) /\ Entries(p) /\ ~raced /\ st[p] \in State
    BY <1>6, <1>u, <1>k DEF IInv, Own, TypeOK
  <2>2. Locked(p)'
    BY <2>1, <1>u DEF Locked
  <2>3. \A j, v : TooLarge(j, v)' = TooLarge(j, v)
    BY <1>u DEF TooLarge
  <2>d. /\ DOMAIN st[p].pool \subseteq Ids /\ st[p].out \subseteq Ids /\ marker \subseteq Ids
        /\ LegacyId \in Ids /\ DOMAIN file.rows \subseteq Ids
    BY <2>1, <1>k, StateFields, FileFields, AccountsAssumption DEF TypeOK
  <2>4. Fetched(p)'
    BY <2>1, <2>3, <2>d, <1>4, <1>6, <1>u DEF Fetched
  <2>5. Pooled(p)'
    BY <2>1, <1>u DEF Pooled, Guarded, Source
  <2>6. ASSUME NEW j \in Ids, NEW v, Fixed(j, v) PROVE Fixed(j, v)'
    <3>1. j # i
      BY <2>6, <1>6, <1>u DEF Fixed, i
    <3> QED BY <3>1, <2>6, <1>3, <1>u DEF Fixed
  <2>7. \A j \in Ids : /\ j \in stray \/ chain[j] = 0 => j \in stray' \/ chain'[j] = 0
                       /\ chain'[j] # 0 => chain[j] # 0 \/ j \in stray'
                       /\ j \in stray => j \in stray' \/ chain'[j] = 0
    BY <1>3, <1>u
  <2>8. Entries(p)'
    <3> DEFINE s == st[p]
    <3>1. /\ st'[p] = s /\ marker' = marker /\ file' = file
      BY <1>u
    <3> HIDE DEF s
    <3> QED BY <2>1, <2>3, <2>d, <2>6, <2>7, <3>1 DEF Entries, s
  <2> QED BY <2>2, <2>4, <2>5, <2>8 DEF Own
<1> QED BY <1>1, <1>2, <1>5, <1>6 DEF IInv

(* Every step of the store keeps the invariant. *)
LEMMA StepIInv == IInv /\ [Next]_vars => IInv'
<1> SUFFICES ASSUME IInv, [Next]_vars PROVE IInv'
  OBVIOUS
<1>1. CASE UNCHANGED vars
  BY <1>1, StutterKeeps
<1>3. ASSUME NEW c \in late, Land(c) PROVE IInv'
  BY <1>3, LandKeeps
<1>2. CASE \E p \in Procs :
             \/ \E op \in {"load", "login", "refresh", "remove", "clear"}, i \in Ids :
                  Start(p, op, i)
             \/ Switch(p) \/ Step(p) \/ Crash(p)
  <2>1. PICK p \in Procs :
          \/ \E op \in {"load", "login", "refresh", "remove", "clear"}, i \in Ids :
               Start(p, op, i)
          \/ Switch(p) \/ Step(p) \/ Crash(p)
    BY <1>2
  <2>2. ASSUME NEW op \in {"load", "login", "refresh", "remove", "clear"}, NEW i \in Ids,
               Start(p, op, i)
        PROVE  IInv'
    BY <2>2, StartKeeps
  <2>3. CASE Switch(p)
    BY <2>3, SwitchKeeps
  <2>4. CASE Crash(p)
    BY <2>4, CrashKeeps
  <2>5. CASE Acquire(p) \/ Judge(p) \/ Steal(p) \/ GiveUp(p) \/ Unlock(p)
    BY <2>5, AcquireKeeps, JudgeKeeps, StealKeeps, GiveUpKeeps, UnlockKeeps
  <2>6. CASE Read(p) \/ Hydrate(p) \/ Restore(p) \/ Try(p) \/ Serve(p)
    BY <2>6, ReadKeeps, HydrateKeeps, RestoreKeeps, TryKeeps, ServeKeeps
  <2>7. CASE Mark(p) \/ Rewrite(p) \/ Legacy(p) \/ LegacyFile(p)
    BY <2>7, MarkKeeps, RewriteKeeps, LegacyKeeps, LegacyFileKeeps
  <2>8. ASSUME NEW c \in {"del", "clean", "purge"}, DeleteEntry(p, c) PROVE IInv'
    BY <2>8, DeleteEntryKeeps
  <2>9. CASE Merge(p) \/ Deleted(p) \/ Cleaned(p) \/ SetEntry(p) \/ EntriesSet(p)
    BY <2>9, MergeKeeps, DeletedKeeps, CleanedKeeps, SetEntryKeeps, EntriesSetKeeps
  <2>10. CASE Guard(p) \/ Write(p)
    BY <2>10, GuardKeeps, WriteKeeps
  <2> QED BY <2>1, <2>2, <2>3, <2>4, <2>5, <2>6, <2>7, <2>8, <2>9, <2>10 DEF Step
<1> QED BY <1>1, <1>2, <1>3 DEF Next

(* The invariant holds in every state that the processes reach. *)
THEOREM Invariance == Spec => []IInv
BY InitIInv, StepIInv, PTL DEF Spec

(* The stores, the lock and what a process keeps have their types. *)
THEOREM TypeCorrect == Spec => []TypeOK
<1>1. IInv => TypeOK
  BY DEF IInv
<1> QED BY <1>1, Invariance, PTL

(* An acknowledged secret is found by the next load, whatever crashes,     *)
(* fails, takes effect late, is migrated or is restored, as long as no     *)
(* race is met and no keychain call takes effect after it was overtaken    *)
(* (saveKeychain, restoreFromKeychain, withLock, withKeychainTimeout).     *)
THEOREM SecretsAreKept == Spec => []KeepsSecrets
<1>1. IInv => KeepsSecrets
  BY DEF IInv, Stored, KeepsSecrets
<1> QED BY <1>1, Invariance, PTL

(* A removed account does not come back, from the legacy file, the marker  *)
(* or another backend (RemoveAllAccounts, cleanupRestoredKeychain).        *)
THEOREM RemovedStaysRemoved == Spec => []StaysRemoved
<1>1. IInv => StaysRemoved
  BY DEF IInv, Stored, StaysRemoved
<1> QED BY <1>1, Invariance, PTL

(* A removal leaves no entry of the account in the keychain, but for a     *)
(* save or a migration that did not finish, and for an entry that a larger *)
(* secret could not replace (cleanupRestoredKeychain, saveKeychain).       *)
THEOREM RemovalIsClean == Spec => []RemovalCleans
<1>1. IInv => RemovalCleans
  BY DEF IInv, Stored, RemovalCleans
<1> QED BY <1>1, Invariance, PTL
=============================================================================
