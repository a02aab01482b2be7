----------------------------- MODULE StatsLedger -----------------------------
(***************************************************************************)
(* What the statistics pipeline promises of the events it counts: an       *)
(* accepted event is owed to the database until it is saved there, once;   *)
(* it leaves the books only by a crash (what is owed), by retention or an  *)
(* operator's reset, or, for the volatile part, by a name that no longer   *)
(* resolves or a fold of the backlog that loses it.  StatsFlusher          *)
(* implements this specification.                                          *)
(***************************************************************************)
CONSTANTS Event,      \* increments that may be counted
          Volatile,   \* MCP calls: dropped when their name is not configured or a fold loses it
          Legacy      \* entries of the legacy token file

VARIABLES owed,       \* accepted, not yet in the database
          saved       \* in the database

Init == owed = {} /\ saved = {}

Accept(e) ==
    /\ e \notin owed \cup saved
    /\ owed' = owed \cup {e}
    /\ UNCHANGED saved

Save(S) ==
    /\ S \subseteq owed
    /\ owed' = owed \ S
    /\ saved' = saved \cup S

\* The database forgets what is older than the retention.
Expire(S) ==
    /\ S \subseteq saved
    /\ saved' = saved \ S
    /\ UNCHANGED owed

Skip(S) ==
    /\ S \subseteq owed \cap Volatile
    /\ owed' = owed \ S
    /\ UNCHANGED saved

\* An operator's reset.
Wipe == owed' = {} /\ saved' = {}

Crash == owed' = {} /\ UNCHANGED saved

Import ==
    /\ saved \cap Legacy = {}
    /\ saved' = saved \cup Legacy
    /\ UNCHANGED owed

Next ==
    \/ \E e \in Event \ Legacy : Accept(e)
    \/ \E S \in SUBSET Event : Save(S) \/ Expire(S) \/ Skip(S)
    \/ Wipe
    \/ Crash
    \/ Import

Spec == Init /\ [][Next]_<<owed, saved>>
=============================================================================
