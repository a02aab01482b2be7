---------------------------- MODULE McpSessions ----------------------------
(***************************************************************************)
(* The table of MCP sessions: a bounded list in order of use whose entries *)
(* expire when they are idle for too long, evaluated when the table is     *)
(* touched.  Every removal is handed back to the caller, who runs the      *)
(* eviction callback after the table's lock is released.                   *)
(*                                                                         *)
(* A session's idle time is abstracted to whether it exceeds the limit.    *)
(* Each operator below is one critical section of the table's lock.        *)
(***************************************************************************)
EXTENDS Integers, Sequences, FiniteSets, SequencesExt

CONSTANTS
  MaxSids,    \* session ids that are minted
  TableMax    \* sessions that the table holds

ASSUME SessionsAssumption == MaxSids \in Nat /\ TableMax \in Nat \ {0}

VARIABLES
  lru,      \* session ids, the most recently used first
  sess,     \* minted id -> what the table keeps about the session
  idle,     \* sessions whose LastSeen is older than the limit
  minted    \* ids minted so far

tableVars == <<lru, sess, idle, minted>>

NoSession == [server |-> "", acct |-> "", subs |-> <<>>, sticky |-> "",
              tools |-> {}, ready |-> FALSE]

InitTable ==
  /\ lru = <<>>
  /\ sess = <<>>
  /\ idle = {}
  /\ minted = 0

Known(id) == id \in ToSet(lru)
Without(id) == IF Known(id)
               THEN RemoveAt(lru, CHOOSE i \in DOMAIN lru : lru[i] = id)
               ELSE lru
Live(id) == Known(id) /\ id \notin idle

\* What an access to id removes: the session itself, when it has expired.
Expired(id) == IF Known(id) /\ id \in idle THEN {id} ELSE {}

\* Get and routeSessionLockedE: an access renews the session or removes it.
\* The session's record becomes s when the session is live.
Access(id, s) ==
  /\ lru' = IF Live(id) THEN <<id>> \o Without(id) ELSE Without(id)
  /\ idle' = idle \ {id}
  /\ sess' = [sess EXCEPT ![id] = IF Live(id) THEN s ELSE NoSession]
  /\ UNCHANGED minted

Touch(id) == Access(id, sess[id])

\* What a new session pushes out: the least recently used entries.
Overflow == ToSet(SubSeq(lru, TableMax, Len(lru)))

\* Put and PutRoute, after the id was minted.
Put(s) ==
  LET id == minted + 1
      kept == SubSeq(lru, 1, IF Len(lru) < TableMax THEN Len(lru)
                             ELSE TableMax - 1)
  IN /\ minted' = id
     /\ lru' = <<id>> \o kept
     /\ idle' = idle \ Overflow
     /\ sess' = [i \in 1 .. id |-> IF i = id THEN s
                                ELSE IF i \in Overflow THEN NoSession
                                ELSE sess[i]]

\* Delete: removes the session whether it has expired or not.
Delete(id) ==
  /\ lru' = Without(id)
  /\ idle' = idle \ {id}
  /\ sess' = [sess EXCEPT ![id] = NoSession]
  /\ UNCHANGED minted

\* Time passes until the session's idle limit is over.
Age(id) ==
  /\ Live(id)
  /\ idle' = idle \cup {id}
  /\ UNCHANGED <<lru, sess, minted>>
=============================================================================
