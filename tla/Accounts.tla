------------------------------ MODULE Accounts ------------------------------
(***************************************************************************)
(* The credential pool of one provider: a pool file, a legacy file with    *)
(* one account, the entries of the operating system's keychain, the marker *)
(* of a restore, and the lock file that serialises the processes that      *)
(* change them (the server's token refresh and its loads, the login and    *)
(* logout commands, the admin jobs).                                       *)
(*                                                                         *)
(* A row of the pool file carries a secret inline (its version, from 1) or *)
(* is metadata (0): then the secret is in the keychain.  A secret is       *)
(* abstracted to its version: an API key has one, an OAuth blob a new one  *)
(* at every login and every refresh.  The blobs in Big do not fit into a   *)
(* keychain entry.  Every read or write of a file and every operation on a *)
(* keychain entry is a step of its own; each may fail, and a process may   *)
(* crash before each.  A keychain call that timed out has failed for its   *)
(* caller and may still take effect at any later moment.                   *)
(***************************************************************************)
EXTENDS Integers, FiniteSets, FiniteSetsExt

CONSTANTS
  Procs,        \* processes that use the store
  Ids,          \* account ids, as numbers: loops visit them in their order
  LegacyId,     \* the account of the legacy file
  Big,          \* blobs, as <<account, version>>, that the keychain rejects
  MaxVer,       \* versions of a secret
  MaxOps,       \* operations that are started
  MaxFaults,    \* crashes and failing writes, reads and keychain calls
  MaxSwitches   \* changes of a process's backend

ASSUME AccountsAssumption ==
  /\ Ids \subseteq Nat /\ LegacyId \in Ids /\ Big \subseteq Ids \X (Nat \ {0})
  /\ MaxVer \in Nat \ {0} /\ MaxOps \in Nat
  /\ MaxFaults \in Nat /\ MaxSwitches \in Nat

\* No process is taken for a lock file that nobody holds.
ASSUME HolderAssumption == {"none", "dead"} \cap Procs = {}

VARIABLES
  kind,      \* what the provider's accounts are: "key" or "oauth"
  file,      \* the pool file: is it there, and its rows
  legacy,    \* version in the legacy file, 0 when there is none
  chain,     \* keychain entry of each account, 0 when there is none
  late,      \* keychain calls that were given up on and may yet take effect
  marker,    \* accounts the restore marker names, {} when there is none
  lock,      \* lock file: none, left by a dead process, or its holder
  mode,      \* backend of each process
  st,        \* what each process is doing
  ver,       \* versions issued so far
  ops, faults, switches,   \* bounds
  owned,     \* ghost: version of an account the store has acknowledged
  gone,      \* ghost: accounts whose removal was acknowledged
  stray,     \* ghost: entries set by a save or a migration not yet finished,
             \* or older than a secret that was too large to replace them
  stale,     \* ghost: processes since whose read of the pool file it was replaced
  raced,     \* ghost: an unlocked write met a concurrent change, a live lock was
             \* removed, or a keychain call took effect after it was overtaken
  refused    \* ghost: why the last login that found no fault was refused

stores == <<file, legacy, chain, late, marker>>
bounds == <<ops, faults, switches>>
ghosts == <<owned, gone, stray, stale, raced, refused>>
vars == <<kind, stores, lock, mode, st, ver, bounds, ghosts>>

NoRows == [i \in {} |-> 0]
NoFile == [here |-> FALSE, rows |-> NoRows]
\* Mutant: an empty pool leaves no file behind.
Pool_NoTombstone(rows) == [here |-> DOMAIN rows # {}, rows |-> rows]

Pool(rows) == [here |-> TRUE, rows |-> rows]
Idle == [pc |-> "idle", op |-> "", id |-> 0, view |-> NoFile,
         pool |-> NoRows, out |-> {}, todo |-> {}, meta |-> FALSE]

Init ==
  /\ kind \in {"key", "oauth"}
  /\ file = NoFile
  /\ legacy \in IF kind = "key" THEN {0, 1} ELSE {0}
  /\ chain = [i \in Ids |-> 0] /\ late = {}
  /\ marker = {}
  /\ lock = "none"
  /\ mode \in {[p \in Procs |-> b] : b \in {"file", "keychain"}}
  /\ st = [p \in Procs |-> Idle]
  /\ ver = 1
  /\ ops = 0 /\ faults = 0 /\ switches = 0
  /\ owned = [i \in Ids |-> IF i = LegacyId THEN legacy ELSE 0]
  /\ gone = {} /\ stray = {} /\ stale = {} /\ raced = FALSE /\ refused = ""

----------------------------------------------------------------------------
At(p, c) == st[p].pc = c
Go(p, s) == st' = [st EXCEPT ![p] = s]
To(p, c) == Go(p, [st[p] EXCEPT !.pc = c])
Fault == faults < MaxFaults /\ faults' = faults + 1
NoFault == UNCHANGED faults

\* Everything but the named parts stays as it is.
KeepStores == UNCHANGED stores
KeepRest == UNCHANGED <<kind, mode, ops, switches>>
KeepGhosts == UNCHANGED ghosts

\* The operation ends; a mutation still has the lock to release.
Ended(s, p) == IF lock = p \/ s.op # "load" THEN [s EXCEPT !.pc = "unlock"] ELSE Idle
Abort(p) == Go(p, Ended(st[p], p))

\* isMetadataOnly: an empty pool is not.
MetadataOnly(rows) == DOMAIN rows # {} /\ \A i \in DOMAIN rows : rows[i] = 0
\* validatePool: every row carries its secret.
Valid(rows) == \A i \in DOMAIN rows : rows[i] # 0
TooLarge(i, v) == kind = "oauth" /\ <<i, v>> \in Big
\* metadataOnly: rows without their secrets, except blobs that stay inline.
Stripped(rows) == [i \in DOMAIN rows |-> IF TooLarge(i, rows[i]) THEN rows[i] ELSE 0]
\* The row of account i is set, over the one it may have had.
Put(rows, i, v) == [j \in {i} \cup DOMAIN rows |-> IF j = i THEN v ELSE rows[j]]
Without(rows, S) == [i \in DOMAIN rows \ S |-> rows[i]]
\* The strays once a save or a migration of the pool is finished.
Strays(rows) ==
  (stray \ DOMAIN rows) \cup {i \in DOMAIN rows : TooLarge(i, rows[i]) /\ chain[i] # 0}

----------------------------------------------------------------------------
(* Keychain calls on the entry of account i; 0 deletes it.                 *)

\* The call succeeds and overtakes the ones that were given up on.
Call(i, v) ==
  /\ chain' = [chain EXCEPT ![i] = v]
  /\ late' = {[c EXCEPT !.old = @ \/ c.id = i] : c \in late}

\* The call fails for good, or it timed out (old: it would be unsafe).
CallFails(i, v, old) ==
  /\ late' \in {late, late \cup {[id |-> i, v |-> v, old |-> old]}}
  /\ UNCHANGED chain

\* A call that timed out takes effect after all.
Land(c) ==
  /\ chain' = [chain EXCEPT ![c.id] = c.v]
  /\ late' = late \ {c}
  /\ stray' = IF c.v = 0 THEN stray \ {c.id} ELSE stray \cup {c.id}
  /\ raced' = (raced \/ c.old)
  /\ UNCHANGED <<kind, file, legacy, marker, lock, mode, st, ver, bounds,
                 owned, gone, stale, refused>>

----------------------------------------------------------------------------
(* An operation begins; the backend of a process follows its configuration.*)

\* Operations that save a new version of a secret.
Issuing == {"login", "refresh"}

Start(p, op, i) ==
  /\ At(p, "idle") /\ ops < MaxOps
  /\ op = "refresh" => kind = "oauth"
  /\ op \in Issuing /\ kind = "oauth" =>
       ver + Cardinality({q \in Procs : st[q].op \in Issuing}) < MaxVer
  /\ op \in {"load", "clear"} => i = LegacyId
  /\ Go(p, [Idle EXCEPT !.pc = IF op = "load" THEN "read" ELSE "lock",
                        !.op = op, !.id = i])
  /\ ops' = ops + 1
  /\ UNCHANGED <<kind, stores, lock, mode, ver, faults, switches, ghosts>>

Switch(p) ==
  /\ At(p, "idle") /\ switches < MaxSwitches
  /\ switches' = switches + 1
  /\ mode' = [mode EXCEPT ![p] = IF @ = "file" THEN "keychain" ELSE "file"]
  /\ UNCHANGED <<kind, stores, lock, st, ver, ops, faults, ghosts>>

(* withLock: create the lock file; a lock file whose holder is dead and    *)
(* whose time stamp is old is removed in a second step; a deadline ends    *)
(* the wait.                                                               *)
Acquire(p) ==
  /\ At(p, "lock") /\ lock = "none"
  /\ lock' = p /\ To(p, "read")
  /\ NoFault /\ KeepStores /\ KeepRest /\ KeepGhosts /\ UNCHANGED ver

Judge(p) ==
  /\ At(p, "lock") /\ lock = "dead"
  /\ To(p, "steal")
  /\ NoFault /\ KeepStores /\ KeepRest /\ KeepGhosts /\ UNCHANGED <<lock, ver>>

Steal(p) ==
  /\ At(p, "steal")
  /\ lock' = "none" /\ To(p, "lock")
  /\ raced' = (raced \/ lock \in Procs)
  /\ NoFault /\ KeepStores /\ KeepRest
  /\ UNCHANGED <<ver, owned, gone, stray, stale, refused>>

GiveUp(p) ==
  /\ At(p, "lock") /\ lock # "none"
  /\ Go(p, Idle)
  /\ NoFault /\ KeepStores /\ KeepRest /\ KeepGhosts /\ UNCHANGED <<lock, ver>>

\* The deferred removal: whatever lock file is there goes.
Unlock(p) ==
  /\ At(p, "unlock")
  /\ lock' = "none" /\ Go(p, Idle)
  /\ raced' = (raced \/ lock \in Procs \ {p})
  /\ NoFault /\ KeepStores /\ KeepRest
  /\ UNCHANGED <<ver, owned, gone, stray, stale, refused>>

----------------------------------------------------------------------------
(* Reading the pool: LoadSnapshot, and loadPoolForRemoval.                 *)

Removal(s) == s.op \in {"remove", "clear"}

\* The pool is loaded.
Loaded(s, rows) ==
  IF s.op = "load" THEN Idle ELSE [s EXCEPT !.pc = "merge", !.pool = rows]

ReadView(s, m, p) ==
  LET rows == file.rows
      v == [s EXCEPT !.view = file]
  IN IF file.here
     THEN IF Removal(s) /\ MetadataOnly(rows)
          THEN [v EXCEPT !.pc = "merge", !.pool = rows, !.meta = TRUE]
          ELSE IF Removal(s)
          THEN IF Valid(rows) THEN Loaded(v, rows) ELSE [v EXCEPT !.pc = "unlock"]
          ELSE IF m = "keychain" THEN [v EXCEPT !.pc = "hydrate", !.todo = DOMAIN rows]
          ELSE IF MetadataOnly(rows)
          THEN [v EXCEPT !.pc = "restore", !.todo = DOMAIN rows]
          ELSE IF Valid(rows) THEN Loaded(v, rows) ELSE Ended(v, p)
     ELSE IF legacy = 0 THEN Loaded(v, NoRows)
     ELSE IF m = "file" THEN Loaded(v, Put(NoRows, LegacyId, legacy))
     ELSE [v EXCEPT !.pc = "legacy", !.pool = Put(NoRows, LegacyId, legacy)]

Read(p) ==
  /\ At(p, "read")
  /\ Go(p, ReadView(st[p], mode[p], p))
  /\ stale' = stale \ {p}
  /\ NoFault /\ KeepStores /\ KeepRest
  /\ UNCHANGED <<lock, ver, owned, gone, stray, raced, refused>>

\* A process that does not hold the lock writes while somebody else does, or
\* after the file was replaced.
Unsafe(p) == lock # p /\ (lock \in Procs \/ p \in stale)

\* The pool file is replaced under the eyes of the others.
Replaced(p) == stale' = stale \cup {q \in Procs \ {p} : ~At(q, "idle")}

\* loadSnapshotKeychain: a secret found in the file moves to the keychain,
\* a metadata row is read from it; a missing entry fails the load.
Hydrate(p) ==
  LET s == st[p]
      i == Min(s.todo)
      v == s.view.rows[i]
      next == [s EXCEPT !.todo = @ \ {i},
                        !.pool = Put(@, i, IF v # 0 THEN v ELSE chain[i])]
  IN /\ At(p, "hydrate") /\ s.todo # {}
     /\ \/ /\ v # 0 /\ ~TooLarge(i, v)
           /\ Call(i, v)
           /\ stray' = stray \cup {i}
           /\ raced' = (raced \/ Unsafe(p))
           /\ Go(p, [next EXCEPT !.meta = TRUE])
           /\ NoFault /\ UNCHANGED refused
        \/ /\ IF v # 0 THEN TooLarge(i, v) ELSE chain[i] # 0
           /\ Go(p, next)
           /\ NoFault /\ UNCHANGED <<chain, late, stray, raced, refused>>
        \/ /\ v = 0 /\ chain[i] = 0
           /\ Abort(p)
           /\ refused' = IF s.op = "login" THEN "missing" ELSE refused
           /\ NoFault /\ UNCHANGED <<chain, late, stray, raced>>
        \/ /\ ~TooLarge(i, v) /\ Fault
           /\ IF v # 0 THEN CallFails(i, v, Unsafe(p)) ELSE UNCHANGED <<chain, late>>
           /\ Abort(p)
           /\ UNCHANGED <<stray, raced, refused>>
     /\ KeepRest /\ UNCHANGED <<file, legacy, marker, lock, ver, owned, gone, stale>>

\* restoreFromKeychain: an entry that is missing or cannot be read leaves
\* its account to a new login.
Restore(p) ==
  LET s == st[p]
      i == Min(s.todo)
      next == [s EXCEPT !.todo = @ \ {i}]
  IN /\ At(p, "restore") /\ s.todo # {}
     /\ \/ chain[i] # 0 /\ Go(p, [next EXCEPT !.pool = Put(@, i, chain[i])]) /\ NoFault
        \/ chain[i] = 0 /\ Go(p, next) /\ NoFault
        \/ chain[i] # 0 /\ Go(p, next) /\ Fault
     /\ KeepStores /\ KeepRest /\ KeepGhosts /\ UNCHANGED <<lock, ver>>

\* The file is to be rewritten: a secret was migrated (meta), or all were
\* restored.
Rewriting(s) ==
  \/ s.pc = "hydrate" /\ s.meta
  \/ s.pc = "restore" /\ DOMAIN s.pool = DOMAIN s.view.rows

Visited(p) == st[p].pc \in {"hydrate", "restore"} /\ st[p].todo = {}

\* tryPoolLock.
Try(p) ==
  /\ Visited(p) /\ Rewriting(st[p]) /\ lock = "none"
  /\ lock' = p
  /\ To(p, IF At(p, "restore") THEN "mark" ELSE "rewrite")
  /\ NoFault /\ KeepStores /\ KeepRest /\ KeepGhosts /\ UNCHANGED ver

\* The rewrite is skipped when the lock is taken, by this process too.
Serve(p) ==
  /\ Visited(p) /\ (Rewriting(st[p]) => lock # "none")
  /\ Go(p, Loaded([st[p] EXCEPT !.meta = FALSE], st[p].pool))
  /\ NoFault /\ KeepStores /\ KeepRest /\ KeepGhosts /\ UNCHANGED <<lock, ver>>

\* writeRestoredKeychainMarker, before the secrets are written to the file.
Mark(p) ==
  /\ At(p, "mark")
  /\ \/ /\ marker' = DOMAIN st[p].pool
        /\ raced' = (raced \/ p \in stale)
        /\ To(p, "rewrite") /\ NoFault
     \/ Fault /\ Abort(p) /\ UNCHANGED <<marker, raced>>
  /\ KeepRest
  /\ UNCHANGED <<file, legacy, chain, late, lock, ver, owned, gone, stray, stale, refused>>

Rewrite(p) ==
  LET s == st[p]
  IN /\ At(p, "rewrite")
     /\ \/ /\ file' = Pool(IF mode[p] = "file" THEN s.pool ELSE Stripped(s.pool))
           /\ stray' = IF mode[p] = "file" THEN stray ELSE Strays(s.pool)
           /\ raced' = (raced \/ p \in stale)
           /\ Replaced(p) /\ NoFault
        \/ Fault /\ UNCHANGED <<file, stray, stale, raced>>
     /\ Abort(p)
     /\ KeepRest
     /\ UNCHANGED <<legacy, chain, late, marker, lock, ver, owned, gone, refused>>

\* loadLegacyKeychain: the entry, then the metadata file, written without
\* the lock, then the legacy file is moved aside.
Legacy(p) ==
  /\ At(p, "legacy")
  /\ \/ /\ Call(LegacyId, st[p].pool[LegacyId])
        /\ stray' = stray \cup {LegacyId}
        /\ raced' = (raced \/ Unsafe(p))
        /\ To(p, "legacy file") /\ NoFault
     \/ /\ CallFails(LegacyId, st[p].pool[LegacyId], Unsafe(p))
        /\ Fault /\ Abort(p) /\ UNCHANGED <<stray, raced>>
  /\ KeepRest /\ UNCHANGED <<file, legacy, marker, lock, ver, owned, gone, stale, refused>>

LegacyFile(p) ==
  LET s == st[p]
  IN /\ At(p, "legacy file")
     /\ \/ /\ file' = Pool(Stripped(s.pool))
           /\ legacy' \in {legacy, 0}
           /\ stray' = Strays(s.pool)
           /\ raced' = (raced \/ Unsafe(p))
           /\ Go(p, Loaded(s, s.pool)) /\ Replaced(p) /\ NoFault
        \/ Fault /\ Abort(p) /\ UNCHANGED <<file, legacy, stray, stale, raced>>
     /\ KeepRest /\ UNCHANGED <<chain, late, marker, lock, ver, owned, gone, refused>>

----------------------------------------------------------------------------
(* The mutation: login, token refresh, removal of one account or of all.   *)

Chosen(s) == IF s.op = "clear" THEN DOMAIN s.pool ELSE DOMAIN s.pool \cap {s.id}

\* Where a save begins, with the pool it is to write.
Saving(s, m) ==
  IF m = "keychain" THEN [s EXCEPT !.pc = "set", !.todo = DOMAIN s.pool]
  ELSE [s EXCEPT !.pc = "guard"]

\* Mutant: the copies that a restore has kept are forgotten.
Cleaning_Forgotten(s) == [s EXCEPT !.pc = "clean", !.todo = {}]

\* cleanupRestoredKeychain: which entries of the marker are deleted.
Cleaning(s) ==
  [s EXCEPT !.pc = "clean", !.todo = IF s.op = "clear" THEN marker ELSE marker \cap s.out]

\* The account with this secret replaces its row or is added.
Upserted(s, v) == [s EXCEPT !.pool = Put(@, s.id, v)]

Merge(p) ==
  LET s == st[p]
      v == IF kind = "oauth" THEN ver + 1 ELSE 1
      less == [s EXCEPT !.pool = Without(@, Chosen(s)), !.out = Chosen(s)]
  IN /\ At(p, "merge")
     /\ \/ /\ s.op \in Issuing
           /\ s.op = "refresh" => s.view.here /\ s.id \in DOMAIN s.pool
           /\ Go(p, Saving(Upserted(s, v), mode[p]))
           /\ ver' = v
           /\ gone' = gone \ {s.id}
           /\ UNCHANGED owned
        \* "login cancelled", or the account to refresh is unknown
        \/ /\ \/ s.op = "login" /\ kind = "key" /\ s.id \in DOMAIN s.pool
              \/ s.op = "refresh" /\ ~(s.view.here /\ s.id \in DOMAIN s.pool)
           /\ To(p, "unlock")
           /\ UNCHANGED <<ver, gone, owned>>
        \/ /\ Removal(s)
           /\ owned' = [i \in Ids |-> IF i \in Chosen(s) THEN 0 ELSE owned[i]]
           /\ Go(p, IF s.meta THEN [less EXCEPT !.pc = "del", !.todo = Chosen(s)]
                    ELSE IF mode[p] = "file" THEN Cleaning(less)
                    ELSE Saving(less, mode[p]))
           /\ UNCHANGED <<ver, gone>>
     /\ NoFault /\ KeepStores /\ KeepRest /\ UNCHANGED <<lock, stray, stale, raced, refused>>

\* deleteKeychainAccount, for the entries a step still has to delete.
DeleteEntry(p, c) ==
  LET s == st[p]
      i == Min(s.todo)
  IN /\ At(p, c) /\ s.todo # {}
     /\ \/ /\ Call(i, 0)
           /\ stray' = stray \ {i}
           /\ Go(p, [s EXCEPT !.todo = @ \ {i}]) /\ NoFault
        \/ CallFails(i, 0, FALSE) /\ Fault /\ Abort(p) /\ UNCHANGED stray
     /\ KeepRest
     /\ UNCHANGED <<file, legacy, marker, lock, ver, owned, gone, stale, raced, refused>>

\* Removal from a metadata pool: its entries, then the marker's.
Deleted(p) ==
  /\ At(p, "del") /\ st[p].todo = {}
  /\ Go(p, IF marker # {} THEN Cleaning(st[p]) ELSE [st[p] EXCEPT !.pc = "write"])
  /\ NoFault /\ KeepStores /\ KeepRest /\ KeepGhosts /\ UNCHANGED <<lock, ver>>

Cleaned(p) ==
  LET s == st[p]
      left == IF s.op = "clear" THEN {} ELSE marker \ s.out
  IN /\ At(p, "clean") /\ s.todo = {}
     /\ \/ /\ marker' = left /\ NoFault
           /\ Go(p, IF s.meta THEN [s EXCEPT !.pc = "write"] ELSE Saving(s, mode[p]))
        \/ left # marker /\ Fault /\ Abort(p) /\ UNCHANGED marker
     /\ KeepRest /\ KeepGhosts /\ UNCHANGED <<file, legacy, chain, late, lock, ver>>

----------------------------------------------------------------------------
(* Save.                                                                   *)

\* saveKeychain: the secrets first.  One that is too large leaves the entry
\* of its account, which may hold an older one, as it is.
SetEntry(p) ==
  LET s == st[p]
      i == Min(s.todo)
      v == s.pool[i]
      next == [s EXCEPT !.todo = @ \ {i}]
  IN /\ At(p, "set") /\ s.todo # {}
     /\ \/ /\ TooLarge(i, v)
           /\ Go(p, next) /\ NoFault /\ UNCHANGED <<chain, late, stray>>
        \/ /\ ~TooLarge(i, v)
           /\ Call(i, v)
           /\ stray' = stray \cup {i}
           /\ Go(p, next) /\ NoFault
        \/ /\ ~TooLarge(i, v)
           /\ CallFails(i, v, FALSE) /\ Fault /\ Abort(p) /\ UNCHANGED stray
     /\ KeepRest
     /\ UNCHANGED <<file, legacy, marker, lock, ver, owned, gone, stale, raced, refused>>

\* deleteRemovedEntries: the accounts of the file that the pool has not.
EntriesSet(p) ==
  LET s == st[p]
  IN /\ At(p, "set") /\ s.todo = {}
     /\ Go(p, [s EXCEPT !.pc = "purge", !.todo = DOMAIN file.rows \ DOMAIN s.pool])
     /\ NoFault /\ KeepStores /\ KeepRest /\ KeepGhosts /\ UNCHANGED <<lock, ver>>

\* Mutant: the accounts without a secret are not looked for.
Guard_Unchecked(p) ==
  /\ At(p, "guard")
  /\ To(p, "write")
  /\ NoFault /\ KeepStores /\ KeepRest /\ KeepGhosts /\ UNCHANGED <<lock, ver>>

\* prepareMetadataToFileSave: a metadata file becomes a plain one only when
\* every account of it has its secret again; the marker first.
Guard(p) ==
  LET s == st[p]
      old == DOMAIN file.rows
  IN /\ At(p, "guard")
     /\ \/ /\ ~MetadataOnly(file.rows)
           /\ To(p, "write") /\ NoFault /\ UNCHANGED marker
        \/ /\ MetadataOnly(file.rows) /\ old \subseteq DOMAIN s.pool
           /\ \/ marker' = old /\ To(p, "write") /\ NoFault
              \/ Fault /\ Abort(p) /\ UNCHANGED marker
        \/ /\ MetadataOnly(file.rows) /\ ~(old \subseteq DOMAIN s.pool)
           /\ Abort(p) /\ NoFault /\ UNCHANGED marker
     /\ KeepRest /\ KeepGhosts /\ UNCHANGED <<file, legacy, chain, late, lock, ver>>

\* The pool file is replaced: the operation is acknowledged.  A keychain
\* save then moves the legacy file aside, if it can.
Write(p) ==
  LET s == st[p]
      rows == IF s.meta THEN [i \in DOMAIN s.pool |-> 0]
              ELSE IF mode[p] = "keychain" THEN Stripped(s.pool) ELSE s.pool
  IN /\ s.pc \in {"write", "purge"} /\ s.todo = {}
     /\ \/ /\ file' = Pool(rows)
           /\ legacy' \in IF s.meta \/ mode[p] = "file" THEN {legacy} ELSE {legacy, 0}
           /\ stray' = IF mode[p] = "file" THEN stray ELSE Strays(s.pool)
           /\ owned' = IF Removal(s) THEN owned
                       ELSE [owned EXCEPT ![s.id] = s.pool[s.id]]
           /\ gone' = IF Removal(s) THEN gone \cup s.out ELSE gone
           /\ Replaced(p) /\ NoFault
        \/ Fault /\ UNCHANGED <<file, legacy, stray, stale, owned, gone>>
     /\ To(p, "unlock")
     /\ KeepRest /\ UNCHANGED <<chain, late, marker, lock, ver, raced, refused>>

----------------------------------------------------------------------------
\* A process dies: its lock file stays.
Crash(p) ==
  /\ ~At(p, "idle") /\ Fault
  /\ Go(p, Idle)
  /\ lock' = IF lock = p THEN "dead" ELSE lock
  /\ KeepStores /\ KeepRest /\ KeepGhosts /\ UNCHANGED ver

Step(p) ==
  \/ Acquire(p) \/ Judge(p) \/ Steal(p) \/ GiveUp(p) \/ Unlock(p)
  \/ Read(p) \/ Hydrate(p) \/ Restore(p) \/ Try(p) \/ Serve(p)
  \/ Mark(p) \/ Rewrite(p) \/ Legacy(p) \/ LegacyFile(p)
  \/ Merge(p) \/ \E c \in {"del", "clean", "purge"} : DeleteEntry(p, c)
  \/ Deleted(p) \/ Cleaned(p) \/ SetEntry(p) \/ EntriesSet(p)
  \/ Guard(p) \/ Write(p)

Next ==
  \/ \E p \in Procs :
       \/ \E op \in {"load", "login", "refresh", "remove", "clear"}, i \in Ids :
            Start(p, op, i)
       \/ Switch(p)
       \/ Step(p)
       \/ Crash(p)
  \/ \E c \in late : Land(c)

Spec == Init /\ [][Next]_vars

----------------------------------------------------------------------------
\* Where the secret of account i is found.
Found(i) ==
  IF ~file.here THEN IF i = LegacyId THEN legacy ELSE 0
  ELSE IF i \notin DOMAIN file.rows THEN 0
  ELSE IF file.rows[i] # 0 THEN file.rows[i] ELSE chain[i]

(* An account whose login or refresh the store acknowledged, and which     *)
(* nobody has begun to remove, keeps a copy of that secret or of a later   *)
(* one where the next load finds it: through crashes, failing writes,      *)
(* keychain calls that fail or take effect after their timeout,            *)
(* migrations, restores and changes of the backend, as long as no unlocked *)
(* write met another process's change, no live lock was removed and no     *)
(* keychain call took effect after a later one on the same entry           *)
(* (saveKeychain, restoreFromKeychain, withLock, withKeychainTimeout).     *)
KeepsSecrets ==
  ~raced => \A i \in Ids : owned[i] # 0 => Found(i) >= owned[i]

(* An account that was removed stays removed: neither the legacy file nor  *)
(* the marker nor another backend brings it back, until a login does       *)
(* (RemoveAllAccounts: the empty pool file is a tombstone).                *)
StaysRemoved ==
  ~raced => \A i \in gone : file.here /\ i \notin DOMAIN file.rows

(* A removal deletes the keychain entry of the account in every backend,   *)
(* also the copy that a restore has kept: an entry without a row of the    *)
(* pool that outlives the account's removal is left only by a save or a    *)
(* migration that did not finish, or by one whose secret was too large to  *)
(* replace the entry (cleanupRestoredKeychain, saveKeychain).              *)
RemovalCleans ==
  ~raced => \A i \in gone : i \in stray \/ chain[i] = 0

(* "No orphan": after a logout no secret of the account is left in the     *)
(* keychain, whatever its size was (RemoveAccount, RemoveAllAccounts).     *)
NoOrphanedSecret == \A i \in gone : chain[i] = 0

(* saveKeychain takes metadata without an entry for "merely an unreadable  *)
(* account the next save can fix": a login then is never refused because   *)
(* an entry is missing.                                                    *)
NextSaveFixes == refused = ""

(* "An unlocked read can never race a locked save" (WithLock): a login     *)
(* that was acknowledged survives the loads of other processes.            *)
ReadNeverRaces == \A i \in Ids : owned[i] # 0 => Found(i) >= owned[i]
=============================================================================
