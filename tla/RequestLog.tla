----------------------------- MODULE RequestLog -----------------------------
(***************************************************************************)
(* The request log: a queue, the one writer that drains it into JSONL      *)
(* files that rotate by size and by day, the retention sweep, the indexer  *)
(* that tails the files into a database every tick, the cache of session   *)
(* aggregates beside it, and the shutdown that drains the one and then the *)
(* other.                                                                  *)
(*                                                                         *)
(* A record is a number and belongs to the one session there is.  A file   *)
(* is named <<day, k>>: k = 0 is the day's active file, k > 0 its archives *)
(* in the order of their rotation.  The identity of a file (ino), which    *)
(* the code does not look at, is the name it has once it is an archive.    *)
(* A line is a record, Torn (bytes that no newline ends yet) or Junk (a    *)
(* line that does not decode).  Every line has the same length, so that a  *)
(* cursor is a number of lines.                                            *)
(***************************************************************************)
EXTENDS Integers, Sequences, FiniteSets, SequencesExt

CONSTANTS
  MaxRecords,  \* records the handlers offer
  QueueCap,    \* capacity of the queue
  MaxLines,    \* lines a file holds before it is rotated
  MaxDay,      \* days that pass
  MaxErrors,   \* operations of the database that fail
  MaxCrashes,  \* crashes of the process
  MaxQueries   \* times the session list is asked for

ASSUME RequestLogAssumption ==
  /\ {MaxRecords, MaxDay, MaxErrors, MaxCrashes, MaxQueries} \subseteq Nat
  /\ {QueueCap, MaxLines} \subseteq Nat \ {0}

Torn == 0
Junk == -1
NoFile == <<-1, 0>>
Nothing == [f \in {} |-> 0]

VARIABLES
  queue,    \* Logger.encodes
  logger,   \* "run", "drain" (done is closed) or "closed"
  hand,     \* the line the writer is writing: record, step, glued to Torn?
  active,   \* Writer.path
  day,      \* the calendar day
  files,    \* name -> [ino, lines]
  born,     \* files created so far
  rows,     \* the records table: [file, off, rec]
  cursor,   \* the files table: name -> [n, ino]; ino is not in the table
  ix,       \* the indexer's pass
  cache,    \* the session's cached aggregate, -1 when it is not cached
  offered,  \* records offered so far
  kept,     \* records written to a file
  lost,     \* records counted as dropped or failed, or gone with a crash
  fooled,   \* a replaced file was taken for the one it replaced
  left      \* errors, crashes and queries that may still happen

logVars == <<queue, logger, hand, active, files, born, kept>>
ixVars == <<rows, cursor, ix, cache, fooled>>
vars == <<queue, logger, hand, active, day, files, born, rows, cursor, ix,
          cache, offered, kept, lost, fooled, left>>

Idle == [rec |-> 0, at |-> "idle", glued |-> FALSE]
NoPass == [pc |-> "idle", seen |-> Nothing, todo |-> {}, batch |-> <<>>,
           from |-> 0, ino |-> NoFile, final |-> FALSE, ok |-> TRUE]

Init ==
  /\ queue = <<>> /\ logger = "run" /\ hand = Idle
  /\ active = NoFile /\ day = 0 /\ files = Nothing /\ born = 0
  /\ rows = {} /\ cursor = Nothing /\ ix = NoPass /\ cache = -1
  /\ offered = 0 /\ kept = {} /\ lost = {} /\ fooled = FALSE
  /\ left = [errors |-> MaxErrors, crashes |-> MaxCrashes, queries |-> MaxQueries]

-----------------------------------------------------------------------------
(* Logger.                                                                 *)
Enqueue_Unchecked(r) ==
  IF Len(queue) < QueueCap
  THEN queue' = Append(queue, r) /\ lost' = lost
  ELSE lost' = lost \cup {r} /\ queue' = queue

Enqueue(r) ==
  \* the check for closed and the send are one step under stopMu
  IF logger # "closed" /\ Len(queue) < QueueCap
  THEN queue' = Append(queue, r) /\ lost' = lost
  ELSE lost' = lost \cup {r} /\ queue' = queue

Offer ==
  /\ offered < MaxRecords
  /\ offered' = offered + 1
  /\ Enqueue(offered + 1)
  /\ UNCHANGED <<logger, hand, active, day, files, born, kept, left, ixVars>>

Without(fn, S) == [f \in DOMAIN fn \ S |-> fn[f]]

(* Writer.open: the day's file, new or left by an earlier process.         *)
Open(fs, name) ==
  IF name \in DOMAIN fs
  THEN files' = fs /\ born' = born
  ELSE /\ files' = [f \in DOMAIN fs \cup {name} |->
                      IF f = name THEN [ino |-> <<name[1], born + 1>>, lines |-> <<>>]
                      ELSE fs[f]]
       /\ born' = born + 1

WriteFails ==
  /\ hand.at = "idle" /\ logger # "closed" /\ queue # <<>>
  /\ left.errors > 0
  /\ left' = [left EXCEPT !.errors = @ - 1]
  /\ lost' = lost \cup {Head(queue)}
  /\ queue' = Tail(queue)
  /\ UNCHANGED <<logger, hand, active, day, files, born, kept, offered, ixVars>>

(* WriteLine up to the write: lazy open, the day's change, the size.       *)
Take ==
  /\ hand.at = "idle" /\ logger # "closed" /\ queue # <<>>
  /\ queue' = Tail(queue)
  /\ LET name == <<day, 0>>
         same == active \in {NoFile, name}
         old == IF ~same /\ files[active].lines = <<>>
                THEN Without(files, {active}) ELSE files
         full == same /\ name \in DOMAIN files /\ Len(files[name].lines) >= MaxLines
     IN /\ hand' = [rec |-> Head(queue), at |-> IF full THEN "rotate" ELSE "write",
                    glued |-> FALSE]
        /\ Open(old, name)
        /\ active' = name
  /\ UNCHANGED <<logger, day, kept, lost, offered, left, ixVars>>

(* rotateSize: the file is renamed, or keeps its name when that fails ...  *)
RotateSize(renamed) ==
  /\ hand.at = "rotate"
  /\ LET archive == files[active].ino
     IN files' = IF renamed
                 THEN [f \in (DOMAIN files \ {active}) \cup {archive} |->
                         IF f = archive THEN files[active] ELSE files[f]]
                 ELSE files
  /\ hand' = [hand EXCEPT !.at = "open"]
  /\ UNCHANGED <<queue, logger, active, day, born, kept, lost, offered, left, ixVars>>

(* ... and the file of that name is opened again, or created.              *)
Reopen ==
  /\ hand.at = "open"
  /\ Open(files, active)
  /\ hand' = [hand EXCEPT !.at = "write"]
  /\ UNCHANGED <<queue, logger, active, day, kept, lost, offered, left, ixVars>>

(* A file that does not end in a newline.                                  *)
Ragged(lines) == lines # <<>> /\ lines[Len(lines)] = Torn

(* The write, as a reader of the file may see it: some bytes, then all.    *)
WriteBytes ==
  /\ hand.at = "write"
  /\ LET lines == files[active].lines
         torn == Ragged(lines)
     IN /\ files' = IF torn THEN files
                    ELSE [files EXCEPT ![active].lines = Append(@, Torn)]
        /\ hand' = [hand EXCEPT !.at = "rest", !.glued = torn]
  /\ UNCHANGED <<queue, logger, active, day, born, kept, lost, offered, left, ixVars>>

WriteRest ==
  /\ hand.at = "rest"
  /\ files' = [files EXCEPT ![active].lines[Len(files[active].lines)] =
                              IF hand.glued THEN Junk ELSE hand.rec]
  /\ kept' = kept \cup {hand.rec}
  /\ hand' = Idle
  /\ UNCHANGED <<queue, logger, active, day, born, lost, offered, left, ixVars>>

(* sweep: retention is less than a day; the file in use is never removed.  *)
Expired == {f \in DOMAIN files : f[1] < day /\ f # active}
Sweep ==
  /\ hand.at = "idle" /\ logger # "closed"
  /\ Expired # {}
  /\ files' = Without(files, Expired)
  /\ UNCHANGED <<queue, logger, hand, active, day, born, kept, lost, offered, left, ixVars>>

NextDay ==
  /\ day < MaxDay
  /\ day' = day + 1
  /\ UNCHANGED <<logVars, offered, lost, left, ixVars>>

Shutdown ==
  /\ logger = "run"
  /\ logger' = "drain"
  /\ UNCHANGED <<queue, hand, active, day, files, born, kept, lost, offered, left, ixVars>>

(* Run returns: the last sweep, the file is closed, closed under stopMu.   *)
Drained ==
  /\ logger = "drain" /\ hand.at = "idle" /\ queue = <<>>
  /\ files' = Without(files, Expired)
  /\ active' = NoFile
  /\ logger' = "closed"
  /\ UNCHANGED <<queue, hand, day, born, kept, lost, offered, left, ixVars>>

-----------------------------------------------------------------------------
(* Indexer.                                                                *)
RowsOf(S) == {r \in rows : r.file \in S}

(* The order of names: a day's archives come before its active file.       *)
Before(f, g) ==
  \/ f[1] < g[1]
  \/ f[1] = g[1] /\ f[2] # 0 /\ (f[2] < g[2] \/ g[2] = 0)
First(S) == CHOOSE f \in S : \A g \in S \ {f} : Before(f, g)

(* A new pass: the files and sizes of this moment.                         *)
Listing(final) ==
  [NoPass EXCEPT !.pc = "drop", !.todo = DOMAIN files, !.final = final,
                 !.seen = [f \in DOMAIN files |->
                             [n |-> Len(files[f].lines), ino |-> files[f].ino]]]

Reconcile_EarlyFinal(final) ==
  /\ ix.pc = "idle" /\ ~ix.final
  /\ ix' = Listing(final)
  /\ UNCHANGED <<logVars, day, rows, cursor, cache, offered, lost, fooled, left>>

Reconcile(final) ==
  /\ ix.pc = "idle" /\ ~ix.final
  /\ final => logger = "closed"
  /\ ix' = Listing(final)
  /\ UNCHANGED <<logVars, day, rows, cursor, cache, offered, lost, fooled, left>>

(* An error ends the pass; the next tick begins another.                   *)
PassFails ==
  /\ ix.pc \in {"drop", "sync", "insert"}
  /\ left.errors > 0
  /\ left' = [left EXCEPT !.errors = @ - 1]
  /\ ix' = [NoPass EXCEPT !.final = ix.final, !.ok = FALSE]
  /\ UNCHANGED <<logVars, day, rows, cursor, cache, offered, lost, fooled>>

DropVanished ==
  /\ ix.pc = "drop"
  /\ LET gone == DOMAIN cursor \ DOMAIN ix.seen
     IN /\ rows' = rows \ RowsOf(gone)
        /\ cursor' = Without(cursor, gone)
        /\ ix' = [ix EXCEPT !.pc = IF RowsOf(gone) = {} THEN "sync" ELSE "uncache"]
  /\ UNCHANGED <<logVars, day, cache, offered, lost, fooled, left>>

DropSessions ==
  /\ ix.pc = "uncache"
  /\ cache' = -1
  /\ ix' = [ix EXCEPT !.pc = "sync"]
  /\ UNCHANGED <<logVars, day, rows, cursor, offered, lost, fooled, left>>

SyncDone ==
  /\ ix.pc = "sync" /\ ix.todo = {}
  /\ ix' = [NoPass EXCEPT !.final = ix.final]
  /\ UNCHANGED <<logVars, day, rows, cursor, cache, offered, lost, fooled, left>>

Indexed(f) == IF f \in DOMAIN cursor THEN cursor[f].n ELSE 0
Replaced(f) ==
  f \in DOMAIN cursor /\ f \in DOMAIN files /\ cursor[f].ino # files[f].ino
\* The cursor counts the lines of another file than the one that was seen.
Mistaken(f) == Indexed(f) > 0 /\ cursor[f].ino # ix.seen[f].ino

NeedsRewind(f) == ix.seen[f].n < Indexed(f)

(* syncFile: a file smaller than its cursor is indexed again from zero.    *)
Rewind ==
  /\ ix.pc = "sync" /\ ix.todo # {}
  /\ LET f == First(ix.todo)
     IN /\ NeedsRewind(f)
        /\ rows' = rows \ RowsOf({f})
        /\ cursor' = [cursor EXCEPT ![f] = [n |-> 0, ino |-> NoFile]]
        /\ ix' = [ix EXCEPT !.pc = IF RowsOf({f}) = {} THEN "sync" ELSE "uncache"]
  /\ UNCHANGED <<logVars, day, cache, offered, lost, fooled, left>>

UpToDate ==
  /\ ix.pc = "sync" /\ ix.todo # {}
  /\ LET f == First(ix.todo)
     IN /\ ix.seen[f].n = Indexed(f)
        /\ fooled' = (fooled \/ Mistaken(f))
        /\ ix' = [ix EXCEPT !.todo = @ \ {f}]
  /\ UNCHANGED <<logVars, day, rows, cursor, cache, offered, lost, left>>

(* appendFile: the terminated lines after the cursor, as they are now; a   *)
(* file that has gone meanwhile ends the pass with an error.               *)
Terminated(lines) == IF Ragged(lines) THEN Len(lines) - 1 ELSE Len(lines)

AppendFile ==
  /\ ix.pc = "sync" /\ ix.todo # {}
  /\ LET f == First(ix.todo)
         n == Indexed(f)
     IN /\ ix.seen[f].n > n
        /\ IF f \notin DOMAIN files
           THEN /\ ix' = [NoPass EXCEPT !.final = ix.final, !.ok = FALSE]
                /\ fooled' = fooled
           ELSE LET lines == files[f].lines
                    new == SubSeq(lines, n + 1, Terminated(lines))
                IN /\ ix' = [ix EXCEPT !.pc = IF new = <<>> THEN "next" ELSE "insert",
                               !.batch = new, !.from = n, !.ino = files[f].ino]
                   /\ fooled' = \/ fooled \/ Mistaken(f)
                                \/ n > 0 /\ Replaced(f) /\ Len(lines) >= n
  /\ UNCHANGED <<logVars, day, rows, cursor, cache, offered, lost, left>>

(* insertBatch: the rows and the cursor in one transaction ...             *)
InsertBatch_PastTorn ==
  /\ ix.pc = "insert"
  /\ LET f == First(ix.todo)
     IN /\ rows' = rows \cup {[file |-> f, off |-> ix.from + i, rec |-> ix.batch[i]] :
                              i \in {j \in DOMAIN ix.batch : ix.batch[j] # Junk}}
        /\ cursor' = [g \in DOMAIN cursor \cup {f} |->
                        IF g = f THEN [n |-> ix.seen[f].n, ino |-> ix.ino]
                        ELSE cursor[g]]
        /\ ix' = [ix EXCEPT !.pc = "fold"]
  /\ UNCHANGED <<logVars, day, cache, offered, lost, fooled, left>>

InsertBatch ==
  /\ ix.pc = "insert"
  /\ LET f == First(ix.todo)
     IN /\ rows' = rows \cup {[file |-> f, off |-> ix.from + i, rec |-> ix.batch[i]] :
                              i \in {j \in DOMAIN ix.batch : ix.batch[j] # Junk}}
        /\ cursor' = [g \in DOMAIN cursor \cup {f} |->
                        IF g = f THEN [n |-> ix.from + Len(ix.batch), ino |-> ix.ino]
                        ELSE cursor[g]]
        /\ ix' = [ix EXCEPT !.pc = "fold"]
  /\ UNCHANGED <<logVars, day, cache, offered, lost, fooled, left>>

(* ... and then, under the lock of the cache, the aggregates.              *)
FoldBatch ==
  /\ ix.pc = "fold"
  /\ cache' = IF cache = -1 THEN -1
              ELSE cache + Cardinality({i \in DOMAIN ix.batch : ix.batch[i] # Junk})
  /\ ix' = [ix EXCEPT !.pc = "next"]
  /\ UNCHANGED <<logVars, day, rows, cursor, offered, lost, fooled, left>>

NextFile ==
  /\ ix.pc = "next"
  /\ ix' = [ix EXCEPT !.pc = "sync", !.todo = @ \ {First(@)}, !.batch = <<>>]
  /\ UNCHANGED <<logVars, day, rows, cursor, cache, offered, lost, fooled, left>>

(* SessionSummaries: computed and stored under the lock of the cache.      *)
SessionSummaries ==
  /\ left.queries > 0
  /\ rows # {}
  /\ left' = [left EXCEPT !.queries = @ - 1]
  /\ cache' = IF cache = -1 THEN Cardinality(rows) ELSE cache
  /\ UNCHANGED <<logVars, day, rows, cursor, ix, offered, lost, fooled>>

-----------------------------------------------------------------------------
(* The process dies and starts again: files and database stay.             *)
Crash ==
  /\ left.crashes > 0
  /\ left' = [left EXCEPT !.crashes = @ - 1]
  /\ queue' = <<>> /\ hand' = Idle /\ active' = NoFile /\ logger' = "run"
  /\ lost' = lost \cup ToSet(queue) \cup ({hand.rec} \ {0})
  /\ ix' = [NoPass EXCEPT !.ok = ix.pc = "idle" /\ ix.ok] /\ cache' = -1
  /\ UNCHANGED <<day, files, born, kept, rows, cursor, offered, fooled>>

Done == ix.final /\ ix.pc = "idle" /\ UNCHANGED vars

Next ==
  \/ Offer \/ WriteFails \/ Take \/ Reopen \/ WriteBytes \/ WriteRest
  \/ \E renamed \in BOOLEAN : RotateSize(renamed)
  \/ Sweep \/ NextDay \/ Shutdown \/ Drained
  \/ \E final \in BOOLEAN : Reconcile(final)
  \/ PassFails \/ DropVanished \/ DropSessions \/ SyncDone
  \/ Rewind \/ UpToDate \/ AppendFile \/ InsertBatch \/ FoldBatch \/ NextFile
  \/ SessionSummaries \/ Crash \/ Done

Spec == Init /\ [][Next]_vars

-----------------------------------------------------------------------------
(* Every record that a handler offered is on its way, written or counted,  *)
(* exactly one of the three, and once the logger has closed nothing is on  *)
(* its way any more (Enqueue, Run's drain under stopMu, countDropped).     *)
Accounted ==
  LET underway == ToSet(queue) \cup ({hand.rec} \ {0})
  IN /\ 1..offered = underway \cup kept \cup lost
     /\ underway \cap (kept \cup lost) = {} /\ kept \cap lost = {}
     /\ logger = "closed" => underway = {}

(* The places of the records that can be read.                             *)
Lines ==
  UNION {{<<f, i>> : i \in {j \in DOMAIN files[f].lines : files[f].lines[j] > 0}} :
         f \in DOMAIN files}

(* After the shutdown the index is the log: the final pass, which begins   *)
(* when the writer has drained, leaves one row for every record of every   *)
(* file, at its place, and no other, whatever was rotated, swept, torn by  *)
(* a crash or left over by failed passes; unless it took a file that       *)
(* replaced another for its continuation (closeRuntimeServices, Shutdown). *)
ShutdownIndexed ==
  (ix.final /\ ix.pc = "idle" /\ ix.ok /\ ~fooled) =>
    rows = {[file |-> l[1], off |-> l[2], rec |-> files[l[1]].lines[l[2]]] : l \in Lines}

(* readRecordAt: some record is at the place of a row.  Which one it is,   *)
(* the code does not ask.                                                  *)
Decodes(x) ==
  /\ x.file \in DOMAIN files
  /\ x.off \in DOMAIN files[x.file].lines
  /\ files[x.file].lines[x.off] > 0

(* Detail: the places that are read for an id, those of its rows, or else, *)
(* when one of them does not decode, what lies beyond the cursors.         *)
Detail(r) ==
  LET at == {x \in rows : x.rec = r}
  IN IF at # {} /\ \A x \in at : Decodes(x)
     THEN {<<x.file, x.off>> : x \in at}
     ELSE {l \in Lines : l[2] > Indexed(l[1]) /\ files[l[1]].lines[l[2]] = r}

(* The file that has taken the name of a row's file has grown past it.     *)
Overtaken(x) == Replaced(x.file) /\ Decodes(x)

(* Between two passes a record that is in a file is found by its id, once, *)
(* also when its file has been rotated since, by the scan of what is not   *)
(* indexed, unless the file it is in has replaced another one since the    *)
(* last pass, or the successor of the file it was in already holds a       *)
(* record where it was: that one is the answer (DetailIsOfTheId).          *)
DetailFinds ==
  (ix.pc = "idle" /\ ix.ok /\ ~fooled) =>
    \A l \in Lines :
      LET r == files[l[1]].lines[l[2]]
      IN \/ Detail(r) = {l}
         \/ Replaced(l[1])
         \/ \E x \in rows : x.rec = r /\ Overtaken(x)

(* "Detail returns the full records for one request id ... the file was    *)
(* rotated away ... falls back to tailScan": what is read is a record of   *)
(* the id that was asked for.                                              *)
DetailIsOfTheId ==
  \A r \in kept : \A l \in Detail(r) : files[l[1]].lines[l[2]] = r

(* The cached aggregate of a session is the one its rows add up to when no *)
(* pass is under way ("entries are computed from SQL on first request,     *)
(* then kept exact by folding every inserted record").                     *)
SessionCacheExact ==
  (ix.pc = "idle" /\ cache # -1) => cache = Cardinality(rows)
=============================================================================
