-------------------------- MODULE RequestLogProofs --------------------------
(***************************************************************************)
(* Proofs about the request log: no record is lost unseen, the index of a  *)
(* clean shutdown is the log, and between two passes a record is found by  *)
(* its id, for any number of records, days, rotations, failing passes and  *)
(* crashes.                                                                *)
(***************************************************************************)
EXTENDS RequestLog, SequenceTheorems, WellFoundedInduction, TLAPS

Name == Nat \X Nat
Line == Nat \cup {Junk}
File == [ino : Name, lines : Seq(Line)]
Cursor == [n : Nat, ino : Name \cup {NoFile}]
Row == [file : Name, off : Nat, rec : Nat]
Hand == [rec : Nat, at : {"idle", "rotate", "open", "write", "rest"}, glued : BOOLEAN]
\* What a pass is busy with: a file between its reading and the next one.
Busy == {"insert", "fold", "next"}
Seen == UNION {[D -> Cursor] : D \in SUBSET Name}
Pass == [pc : {"idle", "drop", "uncache", "sync"} \cup Busy, seen : Seen,
         todo : SUBSET Name, batch : Seq(Line), from : Nat,
         ino : Name \cup {NoFile}, final : BOOLEAN, ok : BOOLEAN]

TypeOK ==
  /\ queue \in Seq(Nat) /\ offered \in Nat
  /\ logger \in {"run", "drain", "closed"}
  /\ hand \in Hand
  /\ active \in Name \cup {NoFile}
  /\ day \in Nat /\ born \in Nat
  /\ DOMAIN files \subseteq Name /\ files \in [DOMAIN files -> File]
  /\ DOMAIN cursor \subseteq Name /\ cursor \in [DOMAIN cursor -> Cursor]
  /\ rows \subseteq Row
  /\ ix \in Pass
  /\ kept \subseteq Nat /\ lost \subseteq Nat
  /\ fooled \in BOOLEAN

\* The records on their way to a file are different ones.
Apart ==
  /\ 0 \notin ToSet(queue) \cup kept \cup lost
  /\ \A i, j \in DOMAIN queue : queue[i] = queue[j] => i = j
  /\ hand.rec \notin ToSet(queue)
  /\ hand.at = "idle" <=> hand.rec = 0

\* The names that the file with this identity, one of the first b, can have.
Called(f, ino, b) == f[1] = ino[1] /\ (f[2] = 0 \/ f = ino) /\ ino[2] \in 1 .. b

\* The files: what they are called, and a record is in one place.
Sound ==
  /\ \A f \in DOMAIN files : Called(f, files[f].ino, born)
  /\ \A f, g \in DOMAIN files : files[f].ino = files[g].ino => f = g
  /\ \A f \in DOMAIN files : \A i \in DOMAIN files[f].lines :
       /\ files[f].lines[i] = Torn => i = Len(files[f].lines)
       /\ files[f].lines[i] > 0 => files[f].lines[i] \in kept
  /\ \A f, g \in DOMAIN files : \A i \in DOMAIN files[f].lines, j \in DOMAIN files[g].lines :
       files[f].lines[i] = files[g].lines[j] /\ files[f].lines[i] > 0 => f = g /\ i = j

\* The writer and the file it has open.
Writing ==
  /\ active # NoFile => active[2] = 0 /\ (hand.at # "open" => active \in DOMAIN files)
  /\ hand.at # "idle" => active # NoFile
  /\ hand.at = "rest" => Ragged(files[active].lines)
  /\ logger = "closed" => active = NoFile

\* The rows against the files: a record that is in a file and in a row is in
\* the file that the row's cursor counts, and there at the same place.
Faithful ==
  /\ \A x \in rows : /\ x.file \in DOMAIN cursor /\ x.off \in 1 .. cursor[x.file].n
                     /\ x.rec \in kept /\ x.rec > 0
  /\ \A x \in rows, g \in DOMAIN files : \A i \in DOMAIN files[g].lines :
       files[g].lines[i] = x.rec => files[g].ino = cursor[x.file].ino /\ i = x.off

\* A cursor against the file it counts, under whatever name that is.
Counted ==
  \A f \in DOMAIN cursor, g \in DOMAIN files :
    cursor[f].n > 0 /\ files[g].ino = cursor[f].ino =>
      /\ cursor[f].n <= Terminated(files[g].lines)
      /\ \A i \in 1 .. cursor[f].n : files[g].lines[i] > 0 =>
           [file |-> f, off |-> i, rec |-> files[g].lines[i]] \in rows
      /\ \A x \in rows : x.file = f => files[g].lines[x.off] = x.rec

\* The names that the index knows.
Known == DOMAIN cursor \cup DOMAIN ix.seen

\* A file that is not an archive yet is not known as one.
Fresh ==
  /\ \A f \in Known : f[2] <= born
  /\ \A f \in DOMAIN cursor : cursor[f].n > 0 => Called(f, cursor[f].ino, born)
  /\ \A a \in DOMAIN files : a[2] = 0 => files[a].ino \notin Known

\* The pass will notice that the cursor of a counts another file.
Noticed(a) ==
  \/ ix.pc = "drop" /\ a \notin DOMAIN ix.seen
  \/ /\ a \in ix.todo /\ ix.seen[a].ino # cursor[a].ino
     /\ ix.pc \in Busy => a # First(ix.todo)

\* A file is counted under its archive's name and under the one it had
\* before only until the pass has noticed.
Single ==
  ix.pc # "idle" \/ ix.ok =>
    \A a \in DOMAIN cursor :
      a[2] = 0 /\ cursor[a].n > 0 /\ cursor[a].ino \in Known => Noticed(a)

\* The pass.
Passing ==
  /\ ix.todo \subseteq DOMAIN ix.seen
  /\ ix.pc \notin {"idle", "drop"} => DOMAIN cursor \subseteq DOMAIN ix.seen
  /\ ix.pc \in Busy => ix.todo # {}
  /\ ix.pc = "idle" => ix.seen = Nothing /\ ix.todo = {}

\* The lines that are read and not yet inserted.
Batch ==
  LET f == First(ix.todo)
  IN ix.pc = "insert" =>
       /\ ix.from = Indexed(f) /\ (ix.from > 0 => cursor[f].ino = ix.ino)
       /\ ix.ino \in Name /\ Called(f, ix.ino, born) /\ (f[2] = 0 => ix.ino \notin Known)
       /\ \A j \in DOMAIN ix.batch : ix.batch[j] # Torn
       /\ \A j \in DOMAIN ix.batch : ix.batch[j] > 0 =>
            /\ ix.batch[j] \in kept
            /\ \A g \in DOMAIN files : \A i \in DOMAIN files[g].lines :
                 files[g].lines[i] = ix.batch[j] =>
                   files[g].ino = ix.ino /\ i = ix.from + j
       /\ \A g \in DOMAIN files : files[g].ino = ix.ino =>
            /\ ix.from + Len(ix.batch) <= Terminated(files[g].lines)
            /\ \A j \in DOMAIN ix.batch : files[g].lines[ix.from + j] = ix.batch[j]

\* All of the file is in the index, and nothing else under its name.
Complete(f) ==
  /\ \A i \in DOMAIN files[f].lines : files[f].lines[i] > 0 =>
       [file |-> f, off |-> i, rec |-> files[f].lines[i]] \in rows
  /\ f \in DOMAIN cursor /\ cursor[f].n > 0 => cursor[f].ino = files[f].ino

\* The final pass.
Final ==
  ix.final /\ (ix.pc # "idle" \/ ix.ok) =>
    /\ ix.pc # "idle" =>
         ix.seen = [f \in DOMAIN files |-> [n |-> Len(files[f].lines), ino |-> files[f].ino]]
    /\ ix.pc # "drop" => DOMAIN cursor \subseteq DOMAIN files
    /\ \A f \in DOMAIN files \ ix.todo : Complete(f)
    /\ ix.pc \in {"fold", "next"} => Complete(First(ix.todo))
    /\ ix.pc = "insert" =>
         /\ ix.ino = files[First(ix.todo)].ino
         /\ ix.from + Len(ix.batch) = Terminated(files[First(ix.todo)].lines)

Closed == ix.final => logger = "closed"

Indexing == Faithful /\ Counted /\ Fresh /\ Single /\ Batch /\ Final

(* The inductive invariant.  Once a file is taken for the one it replaced  *)
(* nothing is said of the index.                                           *)
IInv ==
  /\ TypeOK /\ Apart /\ Accounted /\ Sound /\ Writing /\ Passing /\ Closed
  /\ ~fooled => Indexing

----------------------------------------------------------------------------
(* Sequences, names and files.                                             *)

(* What is in a queue once a record joins it. *)
LEMMA AppendSet ==
  ASSUME NEW q \in Seq(Nat), NEW r \in Nat
  PROVE  /\ Append(q, r) \in Seq(Nat) /\ ToSet(Append(q, r)) = ToSet(q) \cup {r}
         /\ r \notin ToSet(q) /\ (\A i, j \in DOMAIN q : q[i] = q[j] => i = j) =>
              \A i, j \in DOMAIN Append(q, r) : Append(q, r)[i] = Append(q, r)[j] => i = j
<1> DEFINE p == Append(q, r)
<1>1. /\ p \in Seq(Nat) /\ DOMAIN p = 1 .. Len(q) + 1 /\ DOMAIN q = 1 .. Len(q) /\ Len(q) \in Nat
      /\ \A i \in 1 .. Len(q) : p[i] = q[i]
      /\ p[Len(q) + 1] = r
  OBVIOUS
<1> HIDE DEF p
<1>2. ToSet(p) = ToSet(q) \cup {r}
  BY <1>1 DEF ToSet
<1>3. ASSUME r \notin ToSet(q), \A i, j \in DOMAIN q : q[i] = q[j] => i = j
      PROVE  \A i, j \in DOMAIN p : p[i] = p[j] => i = j
  BY <1>1, <1>3, SMTT(40) DEF ToSet
<1> QED BY <1>1, <1>2, <1>3 DEF p

(* What is in a queue once its first record leaves it. *)
LEMMA TailSet ==
  ASSUME NEW q \in Seq(Nat), q # <<>>, \A i, j \in DOMAIN q : q[i] = q[j] => i = j
  PROVE  /\ Tail(q) \in Seq(Nat) /\ Head(q) \in Nat
         /\ ToSet(q) = ToSet(Tail(q)) \cup {Head(q)} /\ Head(q) \notin ToSet(Tail(q))
         /\ \A i, j \in DOMAIN Tail(q) : Tail(q)[i] = Tail(q)[j] => i = j
<1> DEFINE p == Tail(q)
<1>1. /\ p \in Seq(Nat) /\ DOMAIN p = 1 .. Len(q) - 1 /\ DOMAIN q = 1 .. Len(q)
      /\ Len(q) \in Nat /\ Len(q) >= 1 /\ Head(q) = q[1] /\ Head(q) \in Nat
      /\ \A i \in 1 .. Len(q) - 1 : p[i] = q[i + 1]
  OBVIOUS
<1> HIDE DEF p
<1>s. \A i \in 1 .. Len(q) - 1 : i + 1 \in 1 .. Len(q) /\ i + 1 # 1
  BY <1>1
<1>d. 1 \in 1 .. Len(q)
  BY <1>1
<1>2. ToSet(q) = ToSet(p) \cup {q[1]}
  <2>1. ASSUME NEW i \in 1 .. Len(q), i # 1 PROVE q[i] \in ToSet(p)
    <3> DEFINE j == i - 1
    <3>1. j \in 1 .. Len(q) - 1 /\ j + 1 = i
      BY <1>1, <2>1
    <3>2. p[j] = q[j + 1]
      BY <1>1, <3>1
    <3>3. p[j] = q[i] /\ j \in DOMAIN p
      BY <1>1, <3>1, <3>2
    <3> HIDE DEF j
    <3> QED BY <3>3 DEF ToSet
  <2>2. ASSUME NEW i \in 1 .. Len(q) - 1 PROVE p[i] \in ToSet(q)
    <3> DEFINE j == i + 1
    <3>1. p[i] = q[j] /\ j \in DOMAIN q
      BY <1>1, <1>s
    <3> HIDE DEF j
    <3> QED BY <3>1 DEF ToSet
  <2>3. q[1] \in ToSet(q)
    BY <1>1, <1>d DEF ToSet
  <2>4. \A v \in ToSet(q) : v \in ToSet(p) \/ v = q[1]
    BY <1>1, <2>1, SMTT(40) DEF ToSet
  <2>5. \A v \in ToSet(p) : v \in ToSet(q)
    BY <1>1, <2>2 DEF ToSet
  <2> QED BY <2>3, <2>4, <2>5
<1>3. q[1] \notin ToSet(p)
  <2>1. ASSUME NEW i \in 1 .. Len(q) - 1 PROVE p[i] # q[1]
    <3>1. p[i] = q[i + 1] /\ i + 1 \in 1 .. Len(q) /\ i + 1 # 1
      BY <1>1, <1>s
    <3> QED BY <3>1, <1>1, <1>d
  <2> QED BY <1>1, <2>1 DEF ToSet
<1>4. \A i, j \in DOMAIN p : p[i] = p[j] => i = j
  <2> SUFFICES ASSUME NEW i \in DOMAIN p, NEW j \in DOMAIN p, p[i] = p[j] PROVE i = j
    OBVIOUS
  <2>1. p[i] = q[i + 1] /\ p[j] = q[j + 1]
    BY <1>1
  <2>0. i \in 1 .. Len(q) - 1 /\ j \in 1 .. Len(q) - 1
    BY <1>1
  <2> HIDE DEF p
  <2>2. i + 1 \in 1 .. Len(q) /\ j + 1 \in 1 .. Len(q) /\ i \in Nat /\ j \in Nat
    BY <2>0, <1>s
  <2>3. i + 1 = j + 1
    BY <2>1, <2>2, <1>1
  <2> QED BY <2>2, <2>3
<1> QED BY <1>1, <1>2, <1>3, <1>4 DEF p

(* A nonempty set of naturals has a least element. *)
LEMMA LeastNat ==
  ASSUME NEW S \in SUBSET Nat, S # {}
  PROVE  \E e \in S : \A n \in S : e <= n
<1>1. PICK e \in S : \A n \in S : ~(<<n, e>> \in OpToRel(<, Nat))
  BY NatLessThanWellFounded, WFMin, Zenon
<1>2. \A n \in S : ~(n < e)
  BY <1>1 DEF OpToRel
<1> QED BY <1>2

(* The order of names has a first name in every nonempty set of them. *)
LEMMA FirstIn ==
  ASSUME NEW S \in SUBSET Name, S # {}
  PROVE  First(S) \in S
<1> DEFINE D == {f[1] : f \in S}
<1>1. \A f \in S : f[1] \in Nat /\ f[2] \in Nat /\ f = <<f[1], f[2]>>
  BY DEF Name
<1>m. D \in SUBSET Nat /\ D # {}
  BY <1>1
<1>2. PICK d \in D : \A e \in D : d <= e
  <2> HIDE DEF D
  <2> QED BY <1>m, LeastNat
<1> DEFINE T == {f \in S : f[1] = d}
           K == {f[2] : f \in {g \in T : g[2] # 0}}
<1>3. CASE K = {}
  <2>1. PICK f \in S : f[1] = d
    BY <1>2
  <2>2. \A g \in S \ {f} : Before(f, g)
    <3> SUFFICES ASSUME NEW g \in S, g # f PROVE Before(f, g)
      OBVIOUS
    <3>1. d <= g[1] /\ d \in Nat
      BY <1>1, <1>2, <2>1
    <3>2. CASE g[1] = d
      <4>1. g[2] = 0 /\ f[2] = 0
        BY <1>3, <2>1, <3>2
      <4> QED BY <4>1, <1>1, <2>1, <3>2
    <3>3. CASE g[1] # d
      BY <3>1, <3>3, <1>1, <2>1 DEF Before
    <3> QED BY <3>2, <3>3
  <2> QED BY <2>2 DEF First
<1>4. CASE K # {}
  <2>1. K \subseteq Nat
    BY <1>1
  <2>2. PICK k \in K : \A m \in K : k <= m
    BY <2>1, <1>4, LeastNat
  <2>3. PICK f \in S : f[1] = d /\ f[2] = k /\ k # 0
    BY <2>2
  <2>4. \A g \in S \ {f} : Before(f, g)
    <3> SUFFICES ASSUME NEW g \in S, g # f PROVE Before(f, g)
      OBVIOUS
    <3>1. d <= g[1] /\ d \in Nat /\ k \in Nat
      BY <1>1, <1>2, <2>3
    <3>2. CASE g[1] = d /\ g[2] # 0
      <4>1. k <= g[2]
        BY <2>2, <3>2
      <4>2. k # g[2]
        BY <1>1, <2>3, <3>2
      <4> QED BY <4>1, <4>2, <3>1, <3>2, <2>3, <1>1 DEF Before
    <3>3. CASE g[1] = d /\ g[2] = 0
      BY <3>3, <2>3 DEF Before
    <3>4. CASE g[1] # d
      BY <3>1, <3>4, <1>1, <2>3 DEF Before
    <3> QED BY <3>2, <3>3, <3>4
  <2> QED BY <2>4 DEF First
<1> QED BY <1>3, <1>4

(* The parts of a file, and of a cursor. *)
LEMMA FileParts ==
  ASSUME TypeOK
  PROVE  /\ \A f \in DOMAIN files :
              /\ f \in Name /\ files[f] \in File /\ files[f].ino \in Name
              /\ files[f].lines \in Seq(Line) /\ Len(files[f].lines) \in Nat
              /\ DOMAIN files[f].lines = 1 .. Len(files[f].lines)
              /\ \A i \in DOMAIN files[f].lines : files[f].lines[i] \in Line
         /\ \A f \in DOMAIN cursor :
              f \in Name /\ cursor[f] \in Cursor /\ cursor[f].n \in Nat
              /\ cursor[f].ino \in Name \cup {NoFile}
         /\ \A x \in rows : x.file \in Name /\ x.off \in Nat /\ x.rec \in Nat
<1>1. /\ DOMAIN files \subseteq Name /\ files \in [DOMAIN files -> File]
      /\ DOMAIN cursor \subseteq Name /\ cursor \in [DOMAIN cursor -> Cursor]
      /\ rows \subseteq Row
  BY DEF TypeOK
<1>2. \A f \in DOMAIN files :
        /\ f \in Name /\ files[f] \in File /\ files[f].ino \in Name
        /\ files[f].lines \in Seq(Line)
  BY <1>1 DEF File
<1>3. \A f \in DOMAIN cursor :
        f \in Name /\ cursor[f] \in Cursor /\ cursor[f].n \in Nat
        /\ cursor[f].ino \in Name \cup {NoFile}
  BY <1>1 DEF Cursor
<1>4. \A x \in rows : x.file \in Name /\ x.off \in Nat /\ x.rec \in Nat
  BY <1>1 DEF Row
<1>5. ASSUME NEW f \in DOMAIN files
      PROVE  /\ Len(files[f].lines) \in Nat
             /\ DOMAIN files[f].lines = 1 .. Len(files[f].lines)
             /\ \A i \in DOMAIN files[f].lines : files[f].lines[i] \in Line
  BY <1>2
<1> QED BY <1>2, <1>3, <1>4, <1>5

(* The lines that are terminated are the first ones. *)
LEMMA TerminatedIs ==
  ASSUME NEW s \in Seq(Line)
  PROVE  /\ Terminated(s) \in Nat /\ Terminated(s) <= Len(s) /\ Len(s) <= Terminated(s) + 1
         /\ Len(s) \in Nat /\ DOMAIN s = 1 .. Len(s)
         /\ Terminated(s) < Len(s) => s[Len(s)] = Torn
         /\ ~Ragged(s) => Terminated(s) = Len(s)
         /\ Ragged(s) => Len(s) >= 1 /\ s[Len(s)] = Torn /\ Terminated(s) = Len(s) - 1
<1>1. Len(s) \in Nat /\ DOMAIN s = 1 .. Len(s)
  OBVIOUS
<1>2. CASE Ragged(s)
  <2>1. Len(s) >= 1 /\ s[Len(s)] = Torn
    BY <1>1, <1>2 DEF Ragged
  <2>2. Terminated(s) = Len(s) - 1
    BY <1>2 DEF Terminated
  <2> QED BY <2>1, <2>2, <1>1, <1>2
<1>3. CASE ~Ragged(s)
  <2>1. Terminated(s) = Len(s)
    BY <1>3 DEF Terminated
  <2> QED BY <2>1, <1>1, <1>3
<1> QED BY <1>2, <1>3

----------------------------------------------------------------------------
(* What a step of the writer leaves to the index.                          *)

\* The terminated lines stay; a line that comes is a new record's.
Longer(s, t) ==
  /\ Terminated(s) <= Terminated(t)
  /\ \A i \in 1 .. Terminated(s) : t[i] = s[i]
  /\ \A i \in DOMAIN t : t[i] > 0 => (i \in DOMAIN s /\ t[i] = s[i]) \/ t[i] \notin kept

\* Every file is a new one, or one that was there, perhaps as an archive now.
Grows ==
  /\ born <= born' /\ kept \subseteq kept'
  /\ \A g \in DOMAIN files' :
       \/ files'[g].ino[2] > born /\ files'[g].lines = <<>>
       \/ \E f \in DOMAIN files :
            /\ files[f].ino = files'[g].ino /\ (g[2] = 0 => f = g)
            /\ Longer(files[f].lines, files'[g].lines)

(* A name stays possible when files are created. *)
LEMMA CalledStays ==
  ASSUME NEW b \in Nat, NEW d \in Nat, b <= d, NEW f, NEW c, Called(f, c, b)
  PROVE  Called(f, c, d)
BY DEF Called

(* The index keeps its properties when the writer writes. *)
LEMMA GrowsKeeps ==
  ASSUME TypeOK, TypeOK', Sound, Passing, Indexing, Grows,
         ix.final => files' = files, UNCHANGED <<rows, cursor, ix>>
  PROVE  Indexing'
<1>p. /\ \A f \in DOMAIN files :
           /\ f \in Name /\ files[f].ino \in Name /\ files[f].lines \in Seq(Line)
           /\ DOMAIN files[f].lines = 1 .. Len(files[f].lines)
      /\ \A f \in DOMAIN cursor : f \in Name /\ cursor[f].n \in Nat
      /\ \A x \in rows : x.file \in Name /\ x.off \in Nat /\ x.rec \in Nat
      /\ born \in Nat /\ born' \in Nat /\ DOMAIN ix.seen \subseteq Name
  <2>1. born \in Nat /\ born' \in Nat /\ ix \in Pass
    BY DEF TypeOK
  <2>2. DOMAIN ix.seen \subseteq Name
    BY <2>1 DEF Pass, Seen
  <2> QED BY <2>1, <2>2, FileParts
<1>q. \A g \in DOMAIN files' : /\ g \in Name /\ files'[g].ino \in Name /\ files'[g].ino[2] \in Nat
                               /\ files'[g].lines \in Seq(Line)
  <2>1. DOMAIN files' \subseteq Name /\ files' \in [DOMAIN files' -> File]
    BY DEF TypeOK
  <2> QED BY <2>1 DEF File, Name
<1>g. /\ born <= born' /\ kept \subseteq kept'
      /\ \A g \in DOMAIN files' :
           \/ files'[g].ino[2] > born /\ files'[g].lines = <<>>
           \/ \E f \in DOMAIN files :
                /\ files[f].ino = files'[g].ino /\ (g[2] = 0 => f = g)
                /\ Longer(files[f].lines, files'[g].lines)
  BY DEF Grows
<1>1. Faithful'
  <2>1. \A x \in rows : /\ x.file \in DOMAIN cursor /\ x.off \in 1 .. cursor[x.file].n
                        /\ x.rec \in kept /\ x.rec > 0
    BY DEF Indexing, Faithful
  <2>2. ASSUME NEW x \in rows, NEW g \in DOMAIN files', NEW i \in DOMAIN files'[g].lines,
               files'[g].lines[i] = x.rec
        PROVE  files'[g].ino = cursor[x.file].ino /\ i = x.off
    <3>1. files'[g].lines # <<>>
      BY <1>q, <2>2
    <3>2. PICK f \in DOMAIN files :
            files[f].ino = files'[g].ino /\ Longer(files[f].lines, files'[g].lines)
      BY <1>g, <3>1
    <3>3. i \in DOMAIN files[f].lines /\ files[f].lines[i] = x.rec
      BY <2>1, <2>2, <3>2 DEF Longer
    <3> QED BY <3>2, <3>3 DEF Indexing, Faithful
  <2> QED BY <2>1, <2>2, <1>g DEF Faithful
<1>2. Counted'
  <2> SUFFICES ASSUME NEW f \in DOMAIN cursor, NEW g \in DOMAIN files',
                      cursor[f].n > 0, files'[g].ino = cursor[f].ino
               PROVE  /\ cursor[f].n <= Terminated(files'[g].lines)
                      /\ \A i \in 1 .. cursor[f].n : files'[g].lines[i] > 0 =>
                           [file |-> f, off |-> i, rec |-> files'[g].lines[i]] \in rows
                      /\ \A x \in rows : x.file = f => files'[g].lines[x.off] = x.rec
    BY DEF Counted, Terminated, Ragged
  <2>1. cursor[f].ino[2] \in 1 .. born
    BY DEF Indexing, Fresh, Called
  <2>2. PICK h \in DOMAIN files :
          files[h].ino = files'[g].ino /\ Longer(files[h].lines, files'[g].lines)
    BY <2>1, <1>g, <1>p, <1>q
  <2>3. /\ cursor[f].n <= Terminated(files[h].lines)
        /\ \A i \in 1 .. cursor[f].n : files[h].lines[i] > 0 =>
             [file |-> f, off |-> i, rec |-> files[h].lines[i]] \in rows
        /\ \A x \in rows : x.file = f => files[h].lines[x.off] = x.rec
    BY <2>2 DEF Indexing, Counted
  <2>4. /\ Terminated(files[h].lines) \in Nat /\ Terminated(files'[g].lines) \in Nat
        /\ Terminated(files[h].lines) <= Terminated(files'[g].lines)
        /\ \A i \in 1 .. Terminated(files[h].lines) : files'[g].lines[i] = files[h].lines[i]
    BY <2>2, <1>p, <1>q, TerminatedIs DEF Longer
  <2>5. \A i \in 1 .. cursor[f].n : files'[g].lines[i] = files[h].lines[i]
    BY <2>3, <2>4, <1>p
  <2>6. \A x \in rows : x.file = f => x.off \in 1 .. cursor[f].n
    BY DEF Indexing, Faithful
  <2>7. cursor[f].n <= Terminated(files'[g].lines)
    BY <2>3, <2>4, <1>p
  <2> QED BY <2>3, <2>5, <2>6, <2>7
<1>3. Fresh'
  <2>1. Known' = Known
    BY DEF Known
  <2>2. \A f \in Known : f[2] <= born'
    <3>1. \A f \in Known : f[2] \in Nat /\ f[2] <= born
      BY <1>p DEF Indexing, Fresh, Known, Name
    <3> QED BY <3>1, <1>g, <1>p
  <2>3. \A f \in DOMAIN cursor : cursor[f].n > 0 => Called(f, cursor[f].ino, born')
    BY <1>g, <1>p, CalledStays DEF Indexing, Fresh
  <2>4. ASSUME NEW a \in DOMAIN files', a[2] = 0 PROVE files'[a].ino \notin Known
    <3>1. CASE files'[a].ino[2] > born
      <4>1. \A f \in Known : f[2] \in Nat /\ f[2] <= born
        BY <1>p DEF Indexing, Fresh, Known, Name
      <4> QED BY <3>1, <4>1, <1>p, <1>q
    <3>2. CASE a \in DOMAIN files /\ files[a].ino = files'[a].ino
      BY <3>2, <2>4 DEF Indexing, Fresh
    <3> QED BY <3>1, <3>2, <2>4, <1>g
  <2> QED BY <2>1, <2>2, <2>3, <2>4 DEF Fresh
<1>4. Single'
  BY DEF Indexing, Single, Noticed, Known
<1>5. Batch'
  <2> DEFINE f == First(ix.todo)
  <2> SUFFICES ASSUME ix.pc = "insert"
               PROVE  /\ ix.from = Indexed(f) /\ (ix.from > 0 => cursor[f].ino = ix.ino)
                      /\ ix.ino \in Name /\ Called(f, ix.ino, born') /\ (f[2] = 0 => ix.ino \notin Known)
                      /\ \A j \in DOMAIN ix.batch : ix.batch[j] # Torn
                      /\ \A j \in DOMAIN ix.batch : ix.batch[j] > 0 =>
                           /\ ix.batch[j] \in kept'
                           /\ \A g \in DOMAIN files' : \A i \in DOMAIN files'[g].lines :
                                files'[g].lines[i] = ix.batch[j] =>
                                  files'[g].ino = ix.ino /\ i = ix.from + j
                      /\ \A g \in DOMAIN files' : files'[g].ino = ix.ino =>
                           /\ ix.from + Len(ix.batch) <= Terminated(files'[g].lines)
                           /\ \A j \in DOMAIN ix.batch : files'[g].lines[ix.from + j] = ix.batch[j]
    BY DEF Batch, Indexed, Known, Terminated, Ragged
  <2>b. /\ ix.from = Indexed(f) /\ (ix.from > 0 => cursor[f].ino = ix.ino)
        /\ ix.ino \in Name /\ Called(f, ix.ino, born) /\ (f[2] = 0 => ix.ino \notin Known)
        /\ \A j \in DOMAIN ix.batch : ix.batch[j] # Torn
        /\ \A j \in DOMAIN ix.batch : ix.batch[j] > 0 =>
             /\ ix.batch[j] \in kept
             /\ \A g \in DOMAIN files : \A i \in DOMAIN files[g].lines :
                  files[g].lines[i] = ix.batch[j] => files[g].ino = ix.ino /\ i = ix.from + j
        /\ \A g \in DOMAIN files : files[g].ino = ix.ino =>
             /\ ix.from + Len(ix.batch) <= Terminated(files[g].lines)
             /\ \A j \in DOMAIN ix.batch : files[g].lines[ix.from + j] = ix.batch[j]
    BY DEF Indexing, Batch
  <2>t. ix.from \in Nat /\ Len(ix.batch) \in Nat /\ DOMAIN ix.batch = 1 .. Len(ix.batch)
    <3>1. ix.from \in Nat /\ ix.batch \in Seq(Line)
      BY DEF TypeOK, Pass
    <3> QED BY <3>1
  <2>1. Called(f, ix.ino, born')
    BY <2>b, <1>g, <1>p, CalledStays
  <2> HIDE DEF f
  <2>2. ASSUME NEW j \in DOMAIN ix.batch, ix.batch[j] > 0,
               NEW g \in DOMAIN files', NEW i \in DOMAIN files'[g].lines,
               files'[g].lines[i] = ix.batch[j]
        PROVE  files'[g].ino = ix.ino /\ i = ix.from + j
    <3>1. files'[g].lines # <<>>
      BY <1>q, <2>2
    <3>2. PICK h \in DOMAIN files :
            files[h].ino = files'[g].ino /\ Longer(files[h].lines, files'[g].lines)
      BY <1>g, <3>1
    <3>3. i \in DOMAIN files[h].lines /\ files[h].lines[i] = ix.batch[j]
      BY <2>b, <2>2, <3>2 DEF Longer
    <3> QED BY <2>b, <2>2, <3>2, <3>3
  <2>3. ASSUME NEW g \in DOMAIN files', files'[g].ino = ix.ino
        PROVE  /\ ix.from + Len(ix.batch) <= Terminated(files'[g].lines)
               /\ \A j \in DOMAIN ix.batch : files'[g].lines[ix.from + j] = ix.batch[j]
    <3>1. ix.ino[2] \in 1 .. born
      BY <2>b DEF Called
    <3>2. PICK h \in DOMAIN files :
            files[h].ino = files'[g].ino /\ Longer(files[h].lines, files'[g].lines)
      BY <2>3, <3>1, <1>g, <1>p, <1>q
    <3>3. /\ ix.from + Len(ix.batch) <= Terminated(files[h].lines)
          /\ \A j \in DOMAIN ix.batch : files[h].lines[ix.from + j] = ix.batch[j]
      BY <2>b, <2>3, <3>2
    <3>4. /\ Terminated(files[h].lines) \in Nat /\ Terminated(files'[g].lines) \in Nat
          /\ Terminated(files[h].lines) <= Terminated(files'[g].lines)
          /\ \A i \in 1 .. Terminated(files[h].lines) : files'[g].lines[i] = files[h].lines[i]
      BY <3>2, <1>p, <1>q, TerminatedIs DEF Longer
    <3>5. \A j \in DOMAIN ix.batch : ix.from + j \in 1 .. Terminated(files[h].lines)
      BY <2>t, <3>3, <3>4
    <3>6. \A j \in DOMAIN ix.batch : files'[g].lines[ix.from + j] = files[h].lines[ix.from + j]
      BY <3>4, <3>5
    <3>7. \A j \in DOMAIN ix.batch : files'[g].lines[ix.from + j] = ix.batch[j]
      BY <3>3, <3>6
    <3>8. ix.from + Len(ix.batch) <= Terminated(files'[g].lines)
      BY <2>t, <3>3, <3>4
    <3> QED BY <3>7, <3>8
  <2> QED BY <2>b, <2>1, <2>2, <2>3, <1>g
<1>6. Final'
  <2> SUFFICES ASSUME ix.final, files' = files PROVE Final'
    BY DEF Final
  <2> QED BY DEF Indexing, Final, Complete, Terminated, Ragged
<1> QED BY <1>1, <1>2, <1>3, <1>4, <1>5, <1>6 DEF Indexing

----------------------------------------------------------------------------
(* What the writer does to the files.                                      *)

(* A file is as long as it was. *)
LEMMA SameLonger ==
  ASSUME NEW s \in Seq(Line)
  PROVE  Longer(s, s)
BY TerminatedIs DEF Longer

\* Files are removed, and one may be created, under a name that no file has.
Thins ==
  /\ born' \in Nat /\ born <= born' /\ kept' = kept
  /\ \A g \in DOMAIN files' :
       \/ g \in DOMAIN files /\ files'[g] = files[g]
       \/ /\ g \in Name /\ g[2] = 0 /\ born' = born + 1
          /\ files'[g] = [ino |-> <<g[1], born + 1>>, lines |-> <<>>]
  /\ \A f, g \in DOMAIN files' :
       files'[f].lines = <<>> /\ files'[g].lines = <<>> /\ files'[f].ino = files'[g].ino => f = g

(* Removing files and creating one keeps the directory sound. *)
LEMMA ThinFiles ==
  ASSUME TypeOK, Sound, Thins, files' = [f \in DOMAIN files' |-> files'[f]]
  PROVE  DOMAIN files' \subseteq Name /\ files' \in [DOMAIN files' -> File] /\ Sound' /\ Grows
<1>p. /\ \A f \in DOMAIN files :
           /\ f \in Name /\ files[f] \in File /\ files[f].ino \in Name
           /\ files[f].lines \in Seq(Line)
      /\ born \in Nat
  BY FileParts DEF TypeOK
<1>n. \A g \in Name : g[1] \in Nat /\ <<g[1], born + 1>> \in Name
  BY <1>p DEF Name
<1>1. \A g \in DOMAIN files' :
        \/ g \in DOMAIN files /\ files'[g] = files[g]
        \/ /\ g \in Name /\ g[2] = 0 /\ born' = born + 1
           /\ files'[g].ino = <<g[1], born + 1>> /\ files'[g].lines = <<>> /\ files'[g] \in File
  <2> SUFFICES ASSUME NEW g \in DOMAIN files', g \in Name, g[2] = 0, born' = born + 1,
                      files'[g] = [ino |-> <<g[1], born + 1>>, lines |-> <<>>]
               PROVE  files'[g].ino = <<g[1], born + 1>> /\ files'[g].lines = <<>> /\ files'[g] \in File
    BY DEF Thins
  <2>1. <<g[1], born + 1>> \in Name /\ <<>> \in Seq(Line)
    BY <1>n
  <2> QED BY <2>1 DEF File
<1>2. DOMAIN files' \subseteq Name /\ \A g \in DOMAIN files' : files'[g] \in File
  BY <1>1, <1>p
<1>3. files' \in [DOMAIN files' -> File]
  BY <1>2
<1>4. Grows
  <2>1. ASSUME NEW g \in DOMAIN files'
        PROVE  \/ files'[g].ino[2] > born /\ files'[g].lines = <<>>
               \/ \E f \in DOMAIN files :
                    /\ files[f].ino = files'[g].ino /\ (g[2] = 0 => f = g)
                    /\ Longer(files[f].lines, files'[g].lines)
    <3>1. CASE g \in DOMAIN files /\ files'[g] = files[g]
      <4>1. Longer(files[g].lines, files'[g].lines)
        BY <3>1, <1>p, SameLonger
      <4> QED BY <3>1, <4>1
    <3>2. CASE files'[g].ino = <<g[1], born + 1>> /\ files'[g].lines = <<>>
      BY <3>2, <1>p
    <3> QED BY <3>1, <3>2, <1>1
  <2> QED BY <2>1 DEF Grows, Thins
<1>5. Sound'
  <2>o. \A f \in DOMAIN files : files[f].ino[2] \in 1 .. born
    BY DEF Sound, Called
  <2>1. ASSUME NEW f \in DOMAIN files' PROVE Called(f, files'[f].ino, born')
    <3>1. CASE f \in DOMAIN files /\ files'[f] = files[f]
      BY <3>1, <1>p, CalledStays DEF Sound, Thins
    <3>2. CASE f[2] = 0 /\ born' = born + 1 /\ files'[f].ino = <<f[1], born + 1>>
      BY <3>2, <1>p DEF Called
    <3> QED BY <3>1, <3>2, <1>1
  <2>2. ASSUME NEW f \in DOMAIN files', NEW g \in DOMAIN files', files'[f].ino = files'[g].ino
        PROVE  f = g
    <3>1. CASE f \in DOMAIN files /\ files'[f] = files[f] /\ g \in DOMAIN files /\ files'[g] = files[g]
      BY <2>2, <3>1 DEF Sound
    <3>2. CASE files'[f].ino = <<f[1], born + 1>> /\ files'[f].lines = <<>>
      <4>1. files'[g].ino[2] = born + 1
        BY <2>2, <3>2
      <4>2. ~(g \in DOMAIN files /\ files'[g] = files[g])
        BY <4>1, <2>o, <1>p
      <4> QED BY <4>2, <2>2, <3>2, <1>1 DEF Thins
    <3>3. CASE files'[g].ino = <<g[1], born + 1>> /\ files'[g].lines = <<>>
      <4>1. files'[f].ino[2] = born + 1
        BY <2>2, <3>3
      <4>2. ~(f \in DOMAIN files /\ files'[f] = files[f])
        BY <4>1, <2>o, <1>p
      <4> QED BY <4>2, <2>2, <3>3, <1>1 DEF Thins
    <3> QED BY <3>1, <3>2, <3>3, <1>1
  <2>e. \A f \in DOMAIN files' : \A i \in DOMAIN files'[f].lines :
          f \in DOMAIN files /\ files'[f] = files[f]
    BY <1>1
  <2>3. \A f \in DOMAIN files' : \A i \in DOMAIN files'[f].lines :
          /\ files'[f].lines[i] = Torn => i = Len(files'[f].lines)
          /\ files'[f].lines[i] > 0 => files'[f].lines[i] \in kept'
    BY <2>e DEF Sound, Thins
  <2>4. \A f, g \in DOMAIN files' : \A i \in DOMAIN files'[f].lines, j \in DOMAIN files'[g].lines :
          files'[f].lines[i] = files'[g].lines[j] /\ files'[f].lines[i] > 0 => f = g /\ i = j
    BY <2>e DEF Sound
  <2> QED BY <2>1, <2>2, <2>3, <2>4 DEF Sound
<1> QED BY <1>2, <1>3, <1>4, <1>5

(* open, after some files may have been removed. *)
LEMMA OpenThins ==
  ASSUME TypeOK, Sound, NEW S, NEW a \in Name, a[2] = 0, Open(Without(files, S), a), kept' = kept
  PROVE  /\ Thins /\ files' = [f \in DOMAIN files' |-> files'[f]]
         /\ a \in DOMAIN files'
<1> DEFINE fs == Without(files, S)
<1>1. /\ DOMAIN fs = DOMAIN files \ S /\ (\A f \in DOMAIN fs : fs[f] = files[f])
      /\ fs = [f \in DOMAIN fs |-> fs[f]] /\ born \in Nat
  BY DEF Without, TypeOK
<1> HIDE DEF fs
<1>2. CASE a \in DOMAIN fs
  <2>1. files' = fs /\ born' = born
    BY <1>2 DEF Open, fs
  <2>2. \A f, g \in DOMAIN files' : files'[f].ino = files'[g].ino => f = g
    BY <2>1, <1>1 DEF Sound
  <2> QED BY <2>1, <2>2, <1>1, <1>2 DEF Thins
<1>3. CASE a \notin DOMAIN fs
  <2> DEFINE new == [ino |-> <<a[1], born + 1>>, lines |-> <<>>]
  <2>1. /\ files' = [f \in DOMAIN fs \cup {a} |-> IF f = a THEN new ELSE fs[f]]
        /\ born' = born + 1
    BY <1>3 DEF Open, fs
  <2>i. new.ino[2] = born + 1
    OBVIOUS
  <2> HIDE DEF new
  <2>2. DOMAIN files' = DOMAIN fs \cup {a} /\ files'[a] = new /\ \A f \in DOMAIN fs : files'[f] = files[f]
    BY <2>1, <1>1, <1>3
  <2>3. \A f \in DOMAIN fs : f \in DOMAIN files /\ files[f].ino[2] \in 1 .. born
    BY <1>1 DEF Sound, Called
  <2>4. \A f, g \in DOMAIN files' : files'[f].ino = files'[g].ino => f = g
    <3> SUFFICES ASSUME NEW f \in DOMAIN files', NEW g \in DOMAIN files', files'[f].ino = files'[g].ino
                 PROVE  f = g
      OBVIOUS
    <3>1. CASE f = a /\ g # a
      BY <3>1, <2>2, <2>3, <2>i, <1>1
    <3>2. CASE f # a /\ g = a
      BY <3>2, <2>2, <2>3, <2>i, <1>1
    <3>3. CASE f # a /\ g # a
      BY <3>3, <2>2, <1>1 DEF Sound
    <3> QED BY <3>1, <3>2, <3>3
  <2>5. \A g \in DOMAIN files' :
          \/ g \in DOMAIN files /\ files'[g] = files[g]
          \/ /\ g \in Name /\ g[2] = 0 /\ born' = born + 1
             /\ files'[g] = [ino |-> <<g[1], born + 1>>, lines |-> <<>>]
    BY <2>1, <2>2, <2>3 DEF new
  <2>6. born' \in Nat /\ born <= born'
    BY <2>1, <1>1
  <2>7. files' = [f \in DOMAIN files' |-> files'[f]]
    BY <2>1
  <2> QED BY <2>2, <2>4, <2>5, <2>6, <2>7 DEF Thins
<1> QED BY <1>2, <1>3

(* sweep. *)
LEMMA SweepThins ==
  ASSUME TypeOK, Sound, NEW S, files' = Without(files, S), born' = born, kept' = kept
  PROVE  /\ Thins /\ files' = [f \in DOMAIN files' |-> files'[f]]
         /\ \A f \in DOMAIN files \ S : f \in DOMAIN files' /\ files'[f] = files[f]
<1>1. /\ DOMAIN files' = DOMAIN files \ S /\ (\A f \in DOMAIN files' : files'[f] = files[f])
      /\ born \in Nat
  BY DEF Without, TypeOK
<1>2. files' = [f \in DOMAIN files' |-> files'[f]]
  BY DEF Without
<1>3. \A f, g \in DOMAIN files' : files'[f].ino = files'[g].ino => f = g
  BY <1>1 DEF Sound
<1> QED BY <1>1, <1>2, <1>3 DEF Thins

(* rotateSize: the file is renamed to the archive that it is. *)
LEMMA RenameFiles ==
  ASSUME TypeOK, Sound, NEW a \in DOMAIN files, a[2] = 0, NEW c, c = files[a].ino,
         files' = [f \in (DOMAIN files \ {a}) \cup {c} |-> IF f = c THEN files[a] ELSE files[f]],
         born' = born, kept' = kept
  PROVE  DOMAIN files' \subseteq Name /\ files' \in [DOMAIN files' -> File] /\ Sound' /\ Grows
<1>p. /\ \A f \in DOMAIN files :
           /\ f \in Name /\ files[f] \in File /\ files[f].ino \in Name
           /\ files[f].lines \in Seq(Line)
      /\ born \in Nat
  BY FileParts DEF TypeOK
<1>s. /\ \A f \in DOMAIN files : Called(f, files[f].ino, born)
      /\ \A f, g \in DOMAIN files : files[f].ino = files[g].ino => f = g
  BY DEF Sound
<1>c. c \in Name /\ c[2] # 0 /\ c[1] = a[1] /\ c \notin DOMAIN files
  <2>1. c \in Name /\ c[2] \in 1 .. born /\ c[1] = a[1]
    BY <1>p, <1>s DEF Called
  <2>2. ASSUME c \in DOMAIN files PROVE FALSE
    <3>1. c = files[c].ino
      BY <2>1, <2>2, <1>s, <1>p DEF Called
    <3>2. c = a
      BY <2>2, <3>1, <1>s
    <3> QED BY <3>2, <2>1, <1>p
  <2> QED BY <2>1, <2>2
<1> DEFINE src(g) == IF g = c THEN a ELSE g
<1>1. /\ DOMAIN files' = (DOMAIN files \ {a}) \cup {c}
      /\ \A g \in DOMAIN files' : src(g) \in DOMAIN files /\ files'[g] = files[src(g)]
      /\ \A f, g \in DOMAIN files' : src(f) = src(g) => f = g
      /\ \A g \in DOMAIN files' : g[2] = 0 => src(g) = g
  BY <1>c
<1>2. DOMAIN files' \subseteq Name /\ files' \in [DOMAIN files' -> File]
  <2>1. \A g \in DOMAIN files' : files'[g] \in File
    BY <1>1, <1>p
  <2>2. DOMAIN files' \subseteq Name
    BY <1>1, <1>c, <1>p
  <2> QED BY <2>1, <2>2
<1>3. \A g \in DOMAIN files' : Called(g, files'[g].ino, born')
  BY <1>c, <1>s, <1>1 DEF Called
<1> HIDE DEF src
<1>4. Grows
  <2>1. ASSUME NEW g \in DOMAIN files'
        PROVE  \E f \in DOMAIN files :
                 /\ files[f].ino = files'[g].ino /\ (g[2] = 0 => f = g)
                 /\ Longer(files[f].lines, files'[g].lines)
    <3>1. src(g) \in DOMAIN files /\ files'[g] = files[src(g)] /\ (g[2] = 0 => src(g) = g)
      BY <1>1
    <3>2. Longer(files[src(g)].lines, files[src(g)].lines)
      BY <3>1, <1>p, SameLonger
    <3> QED BY <3>1, <3>2
  <2>2. \A g \in DOMAIN files' :
          \E f \in DOMAIN files :
            /\ files[f].ino = files'[g].ino /\ (g[2] = 0 => f = g)
            /\ Longer(files[f].lines, files'[g].lines)
    BY <2>1
  <2>3. born <= born' /\ kept \subseteq kept'
    BY <1>p
  <2> QED BY ONLY <2>2, <2>3 DEF Grows
<1>5. Sound'
  <2>1. \A f, g \in DOMAIN files' : files'[f].ino = files'[g].ino => f = g
    BY <1>1, <1>s
  <2>2. \A f \in DOMAIN files' : \A i \in DOMAIN files'[f].lines :
          /\ files'[f].lines[i] = Torn => i = Len(files'[f].lines)
          /\ files'[f].lines[i] > 0 => files'[f].lines[i] \in kept'
    BY <1>1 DEF Sound
  <2>3. \A f, g \in DOMAIN files' : \A i \in DOMAIN files'[f].lines, j \in DOMAIN files'[g].lines :
          files'[f].lines[i] = files'[g].lines[j] /\ files'[f].lines[i] > 0 => f = g /\ i = j
    BY <1>1 DEF Sound
  <2> QED BY <2>1, <2>2, <2>3, <1>3 DEF Sound
<1> QED BY <1>2, <1>4, <1>5

(* A write: the last line of the file changes, or one comes. *)
LEMMA WriteFiles ==
  ASSUME TypeOK, Sound, NEW a \in DOMAIN files, NEW t \in Seq(Line), NEW r \in Nat,
         files' = [files EXCEPT ![a].lines = t], born' = born,
         Terminated(files[a].lines) <= Terminated(t),
         \A i \in 1 .. Terminated(files[a].lines) : t[i] = files[a].lines[i],
         \A i \in DOMAIN t : t[i] = Torn => i = Len(t),
         \A i \in DOMAIN t : t[i] > 0 => \/ i \in DOMAIN files[a].lines /\ t[i] = files[a].lines[i]
                                         \/ t[i] = r /\ i = Len(t) /\ r \in kept',
         r \notin kept, kept \subseteq kept'
  PROVE  /\ DOMAIN files' \subseteq Name /\ files' \in [DOMAIN files' -> File] /\ Sound' /\ Grows
         /\ files'[a].lines = t /\ DOMAIN files' = DOMAIN files
<1>p. /\ \A f \in DOMAIN files :
           /\ f \in Name /\ files[f] \in File /\ files[f].ino \in Name
           /\ files[f].lines \in Seq(Line)
      /\ born \in Nat /\ files \in [DOMAIN files -> File]
  BY FileParts DEF TypeOK
<1>1. /\ DOMAIN files' = DOMAIN files
      /\ \A f \in DOMAIN files : files'[f].ino = files[f].ino /\ files'[f] \in File
      /\ \A f \in DOMAIN files : f # a => files'[f] = files[f]
      /\ files'[a].lines = t
  <2>1. DOMAIN files' = DOMAIN files /\ \A f \in DOMAIN files : f # a => files'[f] = files[f]
    BY <1>p
  <2>2. files'[a] = [files[a] EXCEPT !.lines = t]
    BY <1>p
  <2>3. files[a] \in [ino : Name, lines : Seq(Line)]
    BY <1>p DEF File
  <2>4. files'[a].ino = files[a].ino /\ files'[a].lines = t /\ files'[a] \in File
    BY <2>2, <2>3 DEF File
  <2> QED BY <2>1, <2>4, <1>p
<1>2. files' \in [DOMAIN files' -> File]
  BY <1>1, <1>p
<1>o. \A f \in DOMAIN files : \A i \in DOMAIN files[f].lines :
        /\ files[f].lines[i] = Torn => i = Len(files[f].lines)
        /\ files[f].lines[i] > 0 => files[f].lines[i] \in kept
  BY DEF Sound
<1>3. Grows
  <2>1. Longer(files[a].lines, t)
    BY DEF Longer
  <2>2. \A f \in DOMAIN files : Longer(files[f].lines, files'[f].lines)
    BY <2>1, <1>1, <1>p, SameLonger
  <2> QED BY <2>2, <1>1, <1>p DEF Grows
<1>4. Sound'
  <2>1. /\ \A f \in DOMAIN files' : Called(f, files'[f].ino, born')
        /\ \A f, g \in DOMAIN files' : files'[f].ino = files'[g].ino => f = g
    BY <1>1 DEF Sound
  <2>2. \A f \in DOMAIN files' : \A i \in DOMAIN files'[f].lines :
          /\ files'[f].lines[i] = Torn => i = Len(files'[f].lines)
          /\ files'[f].lines[i] > 0 => files'[f].lines[i] \in kept'
    <3> SUFFICES ASSUME NEW f \in DOMAIN files', NEW i \in DOMAIN files'[f].lines
                 PROVE  /\ files'[f].lines[i] = Torn => i = Len(files'[f].lines)
                        /\ files'[f].lines[i] > 0 => files'[f].lines[i] \in kept'
      OBVIOUS
    <3>1. CASE f = a
      BY <3>1, <1>1, <1>o
    <3>2. CASE f # a
      BY <3>2, <1>1, <1>o
    <3> QED BY <3>1, <3>2
  <2>3. ASSUME NEW f \in DOMAIN files', NEW g \in DOMAIN files',
               NEW i \in DOMAIN files'[f].lines, NEW j \in DOMAIN files'[g].lines,
               files'[f].lines[i] = files'[g].lines[j], files'[f].lines[i] > 0
        PROVE  f = g /\ i = j
    <3> DEFINE Old(k, l) == l \in DOMAIN files[k].lines /\ files'[k].lines[l] = files[k].lines[l]
               New(k, l) == k = a /\ l = Len(t) /\ files'[k].lines[l] = r
    <3>1. (Old(f, i) \/ New(f, i)) /\ (Old(g, j) \/ New(g, j))
      BY <2>3, <1>1
    <3>2. CASE Old(f, i) /\ Old(g, j)
      BY <3>2, <2>3, <1>1 DEF Sound
    <3>3. CASE New(f, i) /\ New(g, j)
      BY <3>3
    <3>4. CASE Old(f, i) /\ New(g, j)
      <4>1. files[f].lines[i] = r /\ r > 0
        BY <3>4, <2>3
      <4> QED BY <4>1, <3>4, <1>1, <1>o
    <3>5. CASE New(f, i) /\ Old(g, j)
      <4>1. files[g].lines[j] = r /\ r > 0
        BY <3>5, <2>3
      <4> QED BY <4>1, <3>5, <1>1, <1>o
    <3> QED BY <3>1, <3>2, <3>3, <3>4, <3>5
  <2> QED BY <2>1, <2>2, <2>3 DEF Sound
<1> QED BY <1>1, <1>2, <1>3, <1>4, <1>p

----------------------------------------------------------------------------
(* The steps of the logger.                                                *)

(* What is left to show of a step that leaves the index alone. *)
LEMMA WriterKeeps ==
  ASSUME IInv, UNCHANGED <<rows, cursor, ix, fooled>>, TypeOK', Apart', Accounted', Sound',
         Writing', Grows, logger = "closed" => files' = files /\ logger' = "closed"
  PROVE  IInv'
<1>1. TypeOK /\ Sound /\ Passing /\ Closed /\ (~fooled => Indexing)
  BY DEF IInv
<1>2. Passing' /\ Closed'
  BY <1>1 DEF Passing, Closed
<1>3. ix.final => files' = files
  BY <1>1 DEF Closed
<1>4. ~fooled' => Indexing'
  BY <1>1, <1>3, GrowsKeeps
<1> QED BY <1>2, <1>4 DEF IInv

(* Nothing happens to the files. *)
LEMMA QuietFiles ==
  ASSUME TypeOK, Sound, UNCHANGED <<files, born, kept>>
  PROVE  Sound' /\ Grows
<1>p. (\A f \in DOMAIN files : files[f].lines \in Seq(Line)) /\ born \in Nat
  BY FileParts DEF TypeOK
<1>1. Sound'
  BY DEF Sound
<1>2. \A f \in DOMAIN files : Longer(files[f].lines, files[f].lines)
  BY <1>p, SameLonger
<1> QED BY <1>1, <1>2, <1>p DEF Grows

(* The accounts, in other words. *)
LEMMA AccountsAre ==
  Accounted <=>
    /\ 1 .. offered = ToSet(queue) \cup ({hand.rec} \ {0}) \cup kept \cup lost
    /\ (ToSet(queue) \cup ({hand.rec} \ {0})) \cap (kept \cup lost) = {} /\ kept \cap lost = {}
    /\ logger = "closed" => ToSet(queue) \cup ({hand.rec} \ {0}) = {}
BY DEF Accounted

(* A handler offers a record. *)
LEMMA OfferKeeps ==
  ASSUME IInv, Offer
  PROVE  IInv'
<1> DEFINE r == offered + 1
<1>u. /\ offered' = r
      /\ UNCHANGED <<logger, hand, active, day, files, born, kept, rows, cursor, ix, fooled>>
      /\ \/ logger # "closed" /\ queue' = Append(queue, r) /\ lost' = lost
         \/ lost' = lost \cup {r} /\ queue' = queue
  BY DEF Offer, Enqueue, ixVars
<1>i. TypeOK /\ Apart /\ Accounted /\ Sound /\ Writing
  BY DEF IInv
<1>t. queue \in Seq(Nat) /\ offered \in Nat /\ r \in Nat /\ lost \subseteq Nat /\ 1 .. r = (1 .. offered) \cup {r}
  BY <1>i DEF TypeOK
<1>a. /\ 1 .. offered = ToSet(queue) \cup ({hand.rec} \ {0}) \cup kept \cup lost
      /\ (ToSet(queue) \cup ({hand.rec} \ {0})) \cap (kept \cup lost) = {} /\ kept \cap lost = {}
      /\ logger = "closed" => ToSet(queue) \cup ({hand.rec} \ {0}) = {}
  BY <1>i, AccountsAre
<1>f. r \notin 1 .. offered /\ r # 0
  BY <1>t
<1>h. hand.rec \in Nat
  BY <1>i DEF TypeOK, Hand
<1>n. r \notin ToSet(queue) \cup kept \cup lost /\ r # hand.rec
  BY <1>a, <1>f
<1>1. TypeOK' /\ Apart' /\ Accounted'
  <2>1. CASE logger # "closed" /\ queue' = Append(queue, r) /\ lost' = lost
    <3>1. /\ queue' \in Seq(Nat) /\ ToSet(queue') = ToSet(queue) \cup {r}
          /\ \A i, j \in DOMAIN queue' : queue'[i] = queue'[j] => i = j
      <4> HIDE DEF r
      <4> QED BY <2>1, <1>t, <1>i, <1>n, AppendSet DEF Apart
    <3>2. TypeOK'
      BY <3>1, <2>1, <1>u, <1>i, <1>t DEF TypeOK
    <3>3. Apart'
      BY <3>1, <2>1, <1>u, <1>i, <1>n, <1>f DEF Apart
    <3>4. Accounted'
      <4>1. 1 .. offered' = ToSet(queue') \cup ({hand'.rec} \ {0}) \cup kept' \cup lost'
        BY <3>1, <2>1, <1>u, <1>t, <1>a
      <4>2. (ToSet(queue') \cup ({hand'.rec} \ {0})) \cap (kept' \cup lost') = {} /\ kept' \cap lost' = {}
        BY <3>1, <2>1, <1>u, <1>a, <1>n
      <4> QED BY <4>1, <4>2, <2>1, <1>u DEF Accounted
    <3> QED BY <3>2, <3>3, <3>4
  <2>2. CASE lost' = lost \cup {r} /\ queue' = queue
    <3>2. TypeOK'
      BY <2>2, <1>u, <1>i, <1>t DEF TypeOK
    <3>3. Apart'
      BY <2>2, <1>u, <1>i, <1>f DEF Apart
    <3>4. Accounted'
      <4>1. 1 .. offered' = ToSet(queue') \cup ({hand'.rec} \ {0}) \cup kept' \cup lost'
        BY <2>2, <1>u, <1>t, <1>a
      <4>2. (ToSet(queue') \cup ({hand'.rec} \ {0})) \cap (kept' \cup lost') = {} /\ kept' \cap lost' = {}
        BY <2>2, <1>u, <1>a, <1>n
      <4>3. logger' = "closed" => ToSet(queue') \cup ({hand'.rec} \ {0}) = {}
        BY <2>2, <1>u, <1>a
      <4> QED BY <4>1, <4>2, <4>3 DEF Accounted
    <3> QED BY <3>2, <3>3, <3>4
  <2> QED BY <1>u, <2>1, <2>2
<1>2. Writing'
  BY <1>u, <1>i DEF Writing
<1>3. Sound' /\ Grows
  BY <1>u, <1>i, QuietFiles
<1> QED BY <1>1, <1>2, <1>3, <1>u, WriterKeeps

(* The first record of the queue leaves it, to be written or counted. *)
LEMMA LeaveQueue ==
  ASSUME TypeOK, Apart, Accounted, hand.at = "idle", queue # <<>>, logger # "closed",
         queue' = Tail(queue), UNCHANGED <<offered, kept, logger>>,
         \/ /\ hand'.rec = Head(queue) /\ hand'.at # "idle" /\ lost' = lost
         \/ hand' = hand /\ lost' = lost \cup {Head(queue)}
  PROVE  queue' \in Seq(Nat) /\ lost' \subseteq Nat /\ Head(queue) \in Nat /\ Apart' /\ Accounted'
<1>t. queue \in Seq(Nat) /\ lost \subseteq Nat /\ hand.rec = 0
  BY DEF TypeOK, Apart
<1>a. /\ 1 .. offered = ToSet(queue) \cup ({hand.rec} \ {0}) \cup kept \cup lost
      /\ (ToSet(queue) \cup ({hand.rec} \ {0})) \cap (kept \cup lost) = {} /\ kept \cap lost = {}
  BY AccountsAre
<1>1. /\ queue' \in Seq(Nat) /\ Head(queue) \in Nat
      /\ ToSet(queue) = ToSet(queue') \cup {Head(queue)} /\ Head(queue) \notin ToSet(queue')
      /\ \A i, j \in DOMAIN queue' : queue'[i] = queue'[j] => i = j
  BY <1>t, TailSet DEF Apart
<1> DEFINE r == Head(queue)
<1> HIDE DEF r
<1>2. r # 0 /\ 0 \notin ToSet(queue) \cup kept \cup lost
  BY <1>1 DEF Apart, r
<1>3. Apart'
  BY <1>1, <1>2, <1>t DEF Apart, r
<1>4. Accounted'
  <2>1. 1 .. offered' = ToSet(queue') \cup ({hand'.rec} \ {0}) \cup kept' \cup lost'
    BY <1>1, <1>2, <1>t, <1>a DEF r
  <2>2. (ToSet(queue') \cup ({hand'.rec} \ {0})) \cap (kept' \cup lost') = {} /\ kept' \cap lost' = {}
    BY <1>1, <1>2, <1>t, <1>a DEF r
  <2> QED BY <2>1, <2>2 DEF Accounted
<1> QED BY <1>1, <1>3, <1>4, <1>t

(* A record that cannot be written is counted. *)
LEMMA WriteFailsKeeps ==
  ASSUME IInv, WriteFails
  PROVE  IInv'
<1>u. /\ hand.at = "idle" /\ queue # <<>> /\ logger # "closed"
      /\ queue' = Tail(queue) /\ lost' = lost \cup {Head(queue)}
      /\ UNCHANGED <<logger, hand, active, day, files, born, kept, offered, rows, cursor, ix, fooled>>
  BY DEF WriteFails, ixVars
<1>i. TypeOK /\ Apart /\ Accounted /\ Sound /\ Writing
  BY DEF IInv
<1>1. queue' \in Seq(Nat) /\ lost' \subseteq Nat /\ Apart' /\ Accounted'
  BY <1>u, <1>i, LeaveQueue
<1>2. TypeOK'
  BY <1>1, <1>u, <1>i DEF TypeOK
<1>3. Writing'
  BY <1>u, <1>i DEF Writing
<1>4. Sound' /\ Grows
  BY <1>u, <1>i, QuietFiles
<1> QED BY <1>1, <1>2, <1>3, <1>4, <1>u, WriterKeeps

(* Time passes, or the shutdown begins. *)
LEMMA ClockKeeps ==
  ASSUME IInv, NextDay \/ Shutdown
  PROVE  IInv'
<1>u. /\ UNCHANGED <<queue, hand, active, files, born, kept, lost, offered, rows, cursor, ix, fooled>>
      /\ \/ day' = day + 1 /\ logger' = logger
         \/ day' = day /\ logger = "run" /\ logger' = "drain"
  BY DEF NextDay, Shutdown, ixVars, logVars
<1>i. TypeOK /\ Apart /\ Accounted /\ Sound /\ Writing
  BY DEF IInv
<1>1. TypeOK'
  BY <1>u, <1>i DEF TypeOK
<1>2. Apart' /\ Accounted' /\ Writing'
  BY <1>u, <1>i DEF Apart, Accounted, Writing
<1>3. Sound' /\ Grows
  BY <1>u, <1>i, QuietFiles
<1> QED BY <1>1, <1>2, <1>3, <1>u, WriterKeeps


----------------------------------------------------------------------------
(* The steps of the writer.                                                *)

(* The type of the state after a step of the writer. *)
LEMMA WriterTypes ==
  ASSUME TypeOK, queue' \in Seq(Nat), logger' \in {"run", "drain", "closed"}, hand' \in Hand,
         active' \in Name \cup {NoFile}, born' \in Nat,
         DOMAIN files' \subseteq Name, files' \in [DOMAIN files' -> File],
         kept' \subseteq Nat, lost' \subseteq Nat,
         UNCHANGED <<day, offered, rows, cursor, ix, fooled>>
  PROVE  TypeOK'
BY DEF TypeOK

(* WriteLine takes a record and opens the day's file. *)
LEMMA TakeKeeps ==
  ASSUME IInv, Take
  PROVE  IInv'
<1> DEFINE name == <<day, 0>>
<1>u. /\ hand.at = "idle" /\ logger # "closed" /\ queue # <<>> /\ queue' = Tail(queue)
      /\ \E at \in {"rotate", "write"} : hand' = [rec |-> Head(queue), at |-> at, glued |-> FALSE]
      /\ Open(files, name) \/ Open(Without(files, {active}), name)
      /\ active' = name
      /\ UNCHANGED <<logger, day, kept, lost, offered, rows, cursor, ix, fooled>>
  BY DEF Take, ixVars
<1>i. TypeOK /\ Apart /\ Accounted /\ Sound /\ Writing
  BY DEF IInv
<1>h. hand'.rec = Head(queue) /\ hand'.at \in {"rotate", "write"}
  BY <1>u
<1>1. queue' \in Seq(Nat) /\ lost' \subseteq Nat /\ Head(queue) \in Nat /\ Apart' /\ Accounted'
  BY <1>u, <1>h, <1>i, LeaveQueue
<1>2. hand' \in Hand
  BY <1>u, <1>1 DEF Hand
<1>3. name \in Name /\ name[2] = 0
  BY <1>i DEF TypeOK, Name
<1>w. Without(files, {}) = files
  BY <1>i DEF Without, TypeOK
<1> HIDE DEF name
<1>4. Thins /\ files' = [f \in DOMAIN files' |-> files'[f]] /\ name \in DOMAIN files'
  BY <1>u, <1>w, <1>3, <1>i, OpenThins
<1>5. DOMAIN files' \subseteq Name /\ files' \in [DOMAIN files' -> File] /\ Sound' /\ Grows
  BY <1>4, <1>i, ThinFiles
<1>6. born' \in Nat
  BY <1>4 DEF Thins
<1>7. TypeOK'
  <2>1. /\ logger' \in {"run", "drain", "closed"} /\ kept' \subseteq Nat /\ active' \in Name \cup {NoFile}
    BY <1>u, <1>3, <1>i DEF TypeOK
  <2> QED BY <2>1, <1>u, <1>1, <1>2, <1>5, <1>6, <1>i, WriterTypes
<1>8. Writing'
  <2>1. name # NoFile
    BY <1>3 DEF Name, NoFile
  <2> QED BY <2>1, <1>3, <1>4, <1>u, <1>h DEF Writing
<1> QED BY <1>1, <1>5, <1>7, <1>8, <1>u, WriterKeeps

(* The parts of the state that a step keeps which only moves the hand on. *)
LEMMA HandMoves ==
  ASSUME TypeOK, Apart, Accounted, hand.at # "idle",
         NEW b \in {"rotate", "open", "write", "rest"}, NEW g \in BOOLEAN,
         hand' = [hand EXCEPT !.at = b, !.glued = g] \/ hand' = [hand EXCEPT !.at = b],
         UNCHANGED <<queue, logger, kept, lost, offered>>
  PROVE  hand' \in Hand /\ hand'.rec = hand.rec /\ hand'.at = b /\ Apart' /\ Accounted'
<1>1. hand \in [rec : Nat, at : {"idle", "rotate", "open", "write", "rest"}, glued : BOOLEAN]
  BY DEF TypeOK, Hand
<1>2. hand' \in Hand /\ hand'.rec = hand.rec /\ hand'.at = b
  BY <1>1 DEF Hand
<1>3. Apart'
  BY <1>2 DEF Apart
<1>4. Accounted'
  BY <1>2 DEF Accounted
<1> QED BY <1>2, <1>3, <1>4

(* The rotation renames the file, or fails to. *)
LEMMA RotateKeeps ==
  ASSUME IInv, NEW renamed \in BOOLEAN, RotateSize(renamed)
  PROVE  IInv'
<1> DEFINE c == files[active].ino
<1>u. /\ hand.at = "rotate" /\ hand' = [hand EXCEPT !.at = "open"]
      /\ \/ files' = files
         \/ files' = [f \in (DOMAIN files \ {active}) \cup {c} |-> IF f = c THEN files[active] ELSE files[f]]
      /\ UNCHANGED <<queue, logger, active, day, born, kept, lost, offered, rows, cursor, ix, fooled>>
  BY DEF RotateSize, ixVars
<1>i. TypeOK /\ Apart /\ Accounted /\ Sound /\ Writing
  BY DEF IInv
<1>1. hand' \in Hand /\ hand'.at = "open" /\ Apart' /\ Accounted'
  BY <1>u, <1>i, HandMoves
<1>2. active \in DOMAIN files /\ active[2] = 0 /\ active # NoFile /\ logger # "closed"
  BY <1>u, <1>i DEF Writing
<1> HIDE DEF c
<1>3. DOMAIN files' \subseteq Name /\ files' \in [DOMAIN files' -> File] /\ Sound' /\ Grows
  <2>1. CASE files' = files
    BY <2>1, <1>u, <1>i, QuietFiles DEF TypeOK
  <2>2. CASE files' = [f \in (DOMAIN files \ {active}) \cup {c} |-> IF f = c THEN files[active] ELSE files[f]]
    BY <2>2, <1>u, <1>2, <1>i, RenameFiles DEF c
  <2> QED BY <2>1, <2>2, <1>u
<1>4. TypeOK'
  BY <1>1, <1>3, <1>u, <1>i DEF TypeOK
<1>5. Writing'
  BY <1>1, <1>2, <1>u DEF Writing
<1> QED BY <1>1, <1>2, <1>3, <1>4, <1>5, <1>u, WriterKeeps

(* The file of the day is opened again. *)
LEMMA ReopenKeeps ==
  ASSUME IInv, Reopen
  PROVE  IInv'
<1>u. /\ hand.at = "open" /\ hand' = [hand EXCEPT !.at = "write"] /\ Open(files, active)
      /\ UNCHANGED <<queue, logger, active, day, kept, lost, offered, rows, cursor, ix, fooled>>
  BY DEF Reopen, ixVars
<1>i. TypeOK /\ Apart /\ Accounted /\ Sound /\ Writing
  BY DEF IInv
<1>1. hand' \in Hand /\ hand'.at = "write" /\ Apart' /\ Accounted'
  BY <1>u, <1>i, HandMoves
<1>2. active \in Name /\ active[2] = 0 /\ active # NoFile /\ logger # "closed"
  BY <1>u, <1>i DEF Writing, TypeOK
<1>w. Without(files, {}) = files
  BY <1>i DEF Without, TypeOK
<1>3. Thins /\ files' = [f \in DOMAIN files' |-> files'[f]] /\ active \in DOMAIN files'
  BY <1>u, <1>w, <1>2, <1>i, OpenThins
<1>4. DOMAIN files' \subseteq Name /\ files' \in [DOMAIN files' -> File] /\ Sound' /\ Grows
  BY <1>3, <1>i, ThinFiles
<1>5. born' \in Nat
  BY <1>3 DEF Thins
<1>6. TypeOK'
  BY <1>1, <1>4, <1>5, <1>u, <1>i DEF TypeOK
<1>7. Writing'
  BY <1>1, <1>2, <1>3, <1>u DEF Writing
<1> QED BY <1>1, <1>2, <1>4, <1>6, <1>7, <1>u, WriterKeeps

(* The first bytes of the line reach the file. *)
LEMMA WriteBytesKeeps ==
  ASSUME IInv, WriteBytes
  PROVE  IInv'
<1> DEFINE s == files[active].lines
           t == IF Ragged(s) THEN s ELSE Append(s, Torn)
<1>u. /\ hand.at = "write" /\ hand' = [hand EXCEPT !.at = "rest", !.glued = Ragged(s)]
      /\ files' = IF Ragged(s) THEN files ELSE [files EXCEPT ![active].lines = Append(s, Torn)]
      /\ UNCHANGED <<queue, logger, active, day, born, kept, lost, offered, rows, cursor, ix, fooled>>
  BY DEF WriteBytes, ixVars
<1>i. TypeOK /\ Apart /\ Accounted /\ Sound /\ Writing
  BY DEF IInv
<1>b. Ragged(s) \in BOOLEAN
  BY DEF Ragged
<1>1. hand' \in Hand /\ hand'.at = "rest" /\ Apart' /\ Accounted'
  <2> HIDE DEF s
  <2> QED BY <1>u, <1>b, <1>i, HandMoves
<1>2. active \in DOMAIN files /\ active[2] = 0 /\ active # NoFile /\ logger # "closed"
  BY <1>u, <1>i DEF Writing
<1>s. s \in Seq(Line)
  BY <1>2, <1>i, FileParts
<1>o. \A i \in DOMAIN s : s[i] = Torn => i = Len(s)
  BY <1>2, <1>i DEF Sound
<1>f. (DOMAIN files \subseteq Name /\ files \in [DOMAIN files -> File]) /\ born \in Nat
  BY <1>i DEF TypeOK
<1>3. /\ DOMAIN files' \subseteq Name /\ files' \in [DOMAIN files' -> File] /\ Sound' /\ Grows
      /\ active \in DOMAIN files' /\ Ragged(files'[active].lines)
  <2>1. CASE Ragged(s)
    <3>1. files' = files
      BY <2>1, <1>u
    <3> QED BY <2>1, <3>1, <1>2, <1>u, <1>i, <1>f, QuietFiles
  <2>2. CASE ~Ragged(s)
    <3>1. /\ t \in Seq(Line) /\ Len(t) = Len(s) + 1 /\ DOMAIN t = 1 .. Len(s) + 1 /\ Len(s) \in Nat
          /\ t[Len(s) + 1] = Torn /\ (\A i \in 1 .. Len(s) : t[i] = s[i]) /\ DOMAIN s = 1 .. Len(s)
      <4>1. Torn \in Line
        BY DEF Torn, Line
      <4> HIDE DEF s
      <4> QED BY <4>1, <2>2, <1>s
    <3>2. files' = [files EXCEPT ![active].lines = t]
      BY <2>2, <1>u
    <3> HIDE DEF t
    <3>3. t[Len(t)] = Torn /\ t # <<>>
      BY <3>1
    <3>4. Ragged(t)
      BY <3>3 DEF Ragged
    <3>5. Terminated(t) = Len(s) /\ Terminated(s) = Len(s)
      BY <3>1, <3>4, <2>2, <1>s, TerminatedIs
    <3> HIDE DEF s
    <3>6. /\ Terminated(s) <= Terminated(t)
          /\ \A i \in 1 .. Terminated(s) : t[i] = s[i]
      BY <3>5, <3>1
    <3>7. \A i \in DOMAIN t : t[i] = Torn => i = Len(t)
      <4> SUFFICES ASSUME NEW i \in DOMAIN t, t[i] = Torn, i # Len(t) PROVE FALSE
        OBVIOUS
      <4>1. i \in 1 .. Len(s)
        BY <3>1
      <4>2. s[i] = Torn /\ i = Len(s) /\ s # <<>>
        BY <4>1, <3>1, <1>o
      <4> QED BY <4>2, <2>2 DEF Ragged
    <3>8. \A i \in DOMAIN t : t[i] > 0 => i \in DOMAIN s /\ t[i] = s[i]
      BY <3>1 DEF Torn
    <3>9. 0 \notin kept
      BY <1>i DEF Apart
    <3>10. /\ DOMAIN files' \subseteq Name /\ files' \in [DOMAIN files' -> File] /\ Sound' /\ Grows
           /\ files'[active].lines = t /\ DOMAIN files' = DOMAIN files
      <4>1. /\ Terminated(files[active].lines) <= Terminated(t)
            /\ \A i \in 1 .. Terminated(files[active].lines) : t[i] = files[active].lines[i]
        BY <3>6 DEF s
      <4>2. \A i \in DOMAIN t : t[i] > 0 => i \in DOMAIN files[active].lines /\ t[i] = files[active].lines[i]
        BY <3>8 DEF s
      <4>3. TypeOK /\ Sound /\ active \in DOMAIN files /\ born' = born /\ kept \subseteq kept' /\ t \in Seq(Line)
        BY <3>1, <1>2, <1>u, <1>i
      <4> QED BY ONLY <4>1, <4>2, <4>3, <3>2, <3>7, <3>9, WriteFiles
    <3> QED BY <3>10, <3>4, <1>2
  <2> QED BY <2>1, <2>2
<1>4. TypeOK'
  BY <1>1, <1>3, <1>u, <1>i DEF TypeOK
<1>5. Writing'
  BY <1>1, <1>2, <1>3, <1>u DEF Writing, Ragged
<1> QED BY <1>1, <1>2, <1>3, <1>4, <1>5, <1>u, WriterKeeps

(* The rest of the line reaches the file: the record is written. *)
LEMMA WriteRestKeeps ==
  ASSUME IInv, WriteRest
  PROVE  IInv'
<1> DEFINE s == files[active].lines
           l == IF hand.glued THEN Junk ELSE hand.rec
           t == [s EXCEPT ![Len(s)] = l]
           r == hand.rec
<1>u. /\ hand.at = "rest" /\ hand' = Idle /\ kept' = kept \cup {r}
      /\ files' = [files EXCEPT ![active].lines[Len(s)] = l]
      /\ UNCHANGED <<queue, logger, active, day, born, lost, offered, rows, cursor, ix, fooled>>
  BY DEF WriteRest, ixVars
<1>i. TypeOK /\ Apart /\ Accounted /\ Sound /\ Writing
  BY DEF IInv
<1>2. active \in DOMAIN files /\ active[2] = 0 /\ active # NoFile /\ logger # "closed" /\ Ragged(s)
  BY <1>u, <1>i DEF Writing
<1>r. r \in Nat /\ r # 0 /\ r \notin ToSet(queue)
  BY <1>u, <1>i DEF TypeOK, Hand, Apart
<1>l. l \in Line /\ (l = r \/ l = Junk)
  BY <1>r DEF Line
<1>a. /\ 1 .. offered = ToSet(queue) \cup ({r} \ {0}) \cup kept \cup lost
      /\ (ToSet(queue) \cup ({r} \ {0})) \cap (kept \cup lost) = {} /\ kept \cap lost = {}
  BY <1>i, AccountsAre
<1>3. hand' \in Hand /\ hand'.rec = 0 /\ hand'.at = "idle"
  BY <1>u DEF Idle, Hand
<1>s. s \in Seq(Line) /\ Len(s) \in Nat /\ Len(s) >= 1 /\ Terminated(s) = Len(s) - 1 /\ DOMAIN s = 1 .. Len(s)
  <2>1. s \in Seq(Line)
    BY <1>2, <1>i, FileParts
  <2> HIDE DEF s
  <2> QED BY <2>1, <1>2, TerminatedIs
<1>o. \A i \in DOMAIN s : s[i] = Torn => i = Len(s)
  BY <1>2, <1>i DEF Sound
<1>f. DOMAIN files \subseteq Name /\ files \in [DOMAIN files -> File] /\ born \in Nat
  BY <1>i DEF TypeOK
<1>4. files' = [files EXCEPT ![active].lines = t]
  BY <1>u, <1>2, <1>f
<1>t. /\ t \in Seq(Line) /\ Len(t) = Len(s) /\ DOMAIN t = 1 .. Len(s) /\ t[Len(s)] = l
      /\ \A i \in 1 .. Len(s) : i # Len(s) => t[i] = s[i]
  <2> HIDE DEF s, l
  <2>1. t \in [1 .. Len(s) -> Line]
    BY <1>s, <1>l
  <2>2. t \in Seq(Line) /\ Len(t) = Len(s) /\ DOMAIN t = 1 .. Len(s)
    BY <2>1, <1>s
  <2>3. t[Len(s)] = l /\ \A i \in 1 .. Len(s) : i # Len(s) => t[i] = s[i]
    BY <1>s
  <2> QED BY <2>2, <2>3
<1> HIDE DEF t, s
<1>5. l # Torn
  BY <1>l, <1>r DEF Torn, Junk
<1>6. Terminated(t) = Len(s)
  <2>1. ~Ragged(t)
    BY <1>t, <1>5 DEF Ragged
  <2> QED BY <2>1, <1>t, TerminatedIs
<1>7. /\ Terminated(s) <= Terminated(t)
      /\ \A i \in 1 .. Terminated(s) : t[i] = s[i]
      /\ \A i \in DOMAIN t : t[i] = Torn => i = Len(t)
  <2>1. Terminated(s) <= Terminated(t)
    BY <1>6, <1>s
  <2>2. \A i \in 1 .. Terminated(s) : i \in 1 .. Len(s) /\ i # Len(s)
    <3>1. Len(s) \in Nat /\ Terminated(s) = Len(s) - 1
      BY <1>s
    <3>2. ASSUME NEW i \in 1 .. Len(s) - 1 PROVE i \in 1 .. Len(s) /\ i # Len(s)
      BY ONLY <3>1, <3>2
    <3> QED BY <3>1, <3>2
  <2>3. \A i \in 1 .. Terminated(s) : t[i] = s[i]
    BY <2>2, <1>t
  <2>4. \A i \in DOMAIN t : t[i] = Torn => i = Len(t)
    BY <1>t, <1>o, <1>s
  <2> QED BY <2>1, <2>3, <2>4
<1>8. \A i \in DOMAIN t : t[i] > 0 => \/ i \in DOMAIN s /\ t[i] = s[i]
                                      \/ t[i] = r /\ i = Len(t) /\ r \in kept'
  <2> HIDE DEF l, r
  <2> SUFFICES ASSUME NEW i \in DOMAIN t, t[i] > 0
               PROVE  \/ i \in DOMAIN s /\ t[i] = s[i]
                      \/ t[i] = r /\ i = Len(t) /\ r \in kept'
    OBVIOUS
  <2>1. CASE i = Len(s)
    <3>1. t[i] = l /\ l # Junk
      BY <2>1, <1>t DEF Junk
    <3> QED BY <3>1, <2>1, <1>l, <1>t, <1>u
  <2>2. CASE i # Len(s)
    BY <2>2, <1>t, <1>s
  <2> QED BY <2>1, <2>2
<1>9. r \notin kept /\ kept \subseteq kept'
  BY <1>a, <1>r, <1>u
<1> HIDE DEF l, r
<1>10. /\ DOMAIN files' \subseteq Name /\ files' \in [DOMAIN files' -> File] /\ Sound' /\ Grows
       /\ DOMAIN files' = DOMAIN files
  BY <1>2, <1>t, <1>r, <1>4, <1>7, <1>8, <1>9, <1>u, <1>i, WriteFiles DEF s
<1>11. TypeOK'
  BY <1>3, <1>10, <1>u, <1>r, <1>i DEF TypeOK
<1>12. Apart'
  <2>1. 0 \notin ToSet(queue) \cup kept' \cup lost
    BY <1>r, <1>u, <1>i DEF Apart
  <2> QED BY <2>1, <1>3, <1>u, <1>i DEF Apart
<1>13. Accounted'
  <2>1. 1 .. offered' = ToSet(queue') \cup ({hand'.rec} \ {0}) \cup kept' \cup lost'
    BY <1>3, <1>u, <1>a, <1>r
  <2>2. (ToSet(queue') \cup ({hand'.rec} \ {0})) \cap (kept' \cup lost') = {} /\ kept' \cap lost' = {}
    BY <1>3, <1>u, <1>a, <1>r
  <2> QED BY <2>1, <2>2, <1>2, <1>u DEF Accounted
<1>14. Writing'
  BY <1>2, <1>3, <1>10, <1>u DEF Writing
<1> QED BY <1>2, <1>10, <1>11, <1>12, <1>13, <1>14, <1>u, WriterKeeps

(* The sweep, and the end of the writer. *)
LEMMA SweepKeeps ==
  ASSUME IInv, Sweep \/ Drained
  PROVE  IInv'
<1>u. /\ hand.at = "idle" /\ logger # "closed" /\ files' = Without(files, Expired)
      /\ \/ active' = active /\ logger' = logger
         \/ active' = NoFile /\ logger' = "closed" /\ queue = <<>>
      /\ UNCHANGED <<queue, hand, day, born, kept, lost, offered, rows, cursor, ix, fooled>>
  BY DEF Sweep, Drained, ixVars
<1>i. TypeOK /\ Apart /\ Accounted /\ Sound /\ Writing
  BY DEF IInv
<1>1. /\ Thins /\ files' = [f \in DOMAIN files' |-> files'[f]]
      /\ \A f \in DOMAIN files \ Expired : f \in DOMAIN files' /\ files'[f] = files[f]
  BY <1>u, <1>i, SweepThins
<1>2. DOMAIN files' \subseteq Name /\ files' \in [DOMAIN files' -> File] /\ Sound' /\ Grows
  BY <1>1, <1>i, ThinFiles
<1>3. TypeOK'
  BY <1>2, <1>u, <1>i DEF TypeOK
<1>4. Apart'
  BY <1>u, <1>i DEF Apart
<1>5. Accounted'
  <2>1. hand.rec = 0
    BY <1>u, <1>i DEF Apart
  <2>2. queue = <<>> => ToSet(queue) = {}
    BY DEF ToSet
  <2> QED BY <2>1, <2>2, <1>u, <1>i DEF Accounted
<1>6. Writing'
  <2>1. active # NoFile => active \in DOMAIN files' /\ active[2] = 0
    BY <1>1, <1>u, <1>i DEF Writing, Expired
  <2> QED BY <2>1, <1>u, <1>i DEF Writing
<1> QED BY <1>2, <1>3, <1>4, <1>5, <1>6, <1>u, WriterKeeps

----------------------------------------------------------------------------
(* The steps of the indexer.                                               *)

(* What is left to show of a step that leaves the log alone. *)
LEMMA IndexerKeeps ==
  ASSUME IInv, UNCHANGED <<queue, logger, hand, active, files, born, kept, offered, lost>>,
         TypeOK', Passing', Closed', ~fooled' => Indexing'
  PROVE  IInv'
<1>1. Apart' /\ Accounted' /\ Sound' /\ Writing'
  BY DEF IInv, Apart, Accounted, Sound, Writing, Ragged
<1> QED BY <1>1 DEF IInv

(* The type of the state after a step of the indexer. *)
LEMMA IndexerTypes ==
  ASSUME TypeOK, UNCHANGED <<queue, logger, hand, active, day, files, born, kept, offered, lost>>,
         DOMAIN cursor' \subseteq Name, cursor' \in [DOMAIN cursor' -> Cursor], rows' \subseteq Row,
         ix' \in Pass, fooled' \in BOOLEAN
  PROVE  TypeOK'
BY DEF TypeOK

(* The parts of a pass. *)
LEMMA PassParts ==
  ASSUME TypeOK
  PROVE  /\ ix \in Pass /\ ix.seen \in Seen /\ ix.todo \subseteq Name /\ ix.batch \in Seq(Line)
         /\ ix.from \in Nat /\ ix.final \in BOOLEAN /\ ix.ok \in BOOLEAN
         /\ DOMAIN ix.seen \subseteq Name
         /\ \A f \in DOMAIN ix.seen : ix.seen[f].n \in Nat
         /\ Known \subseteq Name
<1>1. /\ ix \in Pass /\ ix.seen \in Seen /\ ix.todo \subseteq Name /\ ix.batch \in Seq(Line)
      /\ ix.from \in Nat /\ ix.final \in BOOLEAN /\ ix.ok \in BOOLEAN
  BY DEF TypeOK, Pass
<1>2. PICK D \in SUBSET Name : ix.seen \in [D -> Cursor]
  BY <1>1 DEF Seen
<1>3. DOMAIN ix.seen \subseteq Name /\ \A f \in DOMAIN ix.seen : ix.seen[f].n \in Nat
  BY <1>2 DEF Cursor
<1>4. Known \subseteq Name
  BY <1>3 DEF Known, TypeOK
<1> QED BY <1>1, <1>3, <1>4

(* The indexer between two passes. *)
LEMMA NoPassIs ==
  ASSUME NEW fin \in BOOLEAN, NEW ok \in BOOLEAN
  PROVE  /\ NoPass \in Pass
         /\ \A p \in {[NoPass EXCEPT !.final = fin, !.ok = ok], [NoPass EXCEPT !.final = fin]} :
              /\ p \in Pass /\ p.pc = "idle" /\ p.seen = Nothing /\ DOMAIN p.seen = {} /\ p.todo = {}
              /\ p.final = fin
         /\ [NoPass EXCEPT !.final = fin, !.ok = ok].ok = ok
         /\ LET p == [NoPass EXCEPT !.ok = ok]
            IN /\ p \in Pass /\ p.pc = "idle" /\ p.seen = Nothing /\ p.todo = {}
               /\ p.final = FALSE /\ p.ok = ok
<1>1. Nothing \in Seen /\ DOMAIN Nothing = {}
  <2>1. Nothing \in [{} -> Cursor]
    BY DEF Nothing
  <2> QED BY <2>1 DEF Seen
<1> DEFINE p == [NoPass EXCEPT !.final = fin, !.ok = ok]
           q == [NoPass EXCEPT !.final = fin]
<1>2. /\ NoPass \in Pass /\ NoPass.pc = "idle" /\ NoPass.seen = Nothing /\ NoPass.todo = {}
  <2>1. <<>> \in Seq(Line) /\ {} \subseteq Name /\ 0 \in Nat
    OBVIOUS
  <2> QED BY <2>1, <1>1 DEF NoPass, Pass
<1>3. /\ p \in Pass /\ p.pc = NoPass.pc /\ p.seen = NoPass.seen /\ p.todo = NoPass.todo
      /\ p.final = fin /\ p.ok = ok
  BY <1>2 DEF Pass
<1>4. /\ q \in Pass /\ q.pc = NoPass.pc /\ q.seen = NoPass.seen /\ q.todo = NoPass.todo
      /\ q.final = fin
  BY <1>2 DEF Pass
<1> DEFINE o == [NoPass EXCEPT !.ok = ok]
<1>5. /\ o \in Pass /\ o.pc = NoPass.pc /\ o.seen = NoPass.seen /\ o.todo = NoPass.todo
      /\ o.final = NoPass.final /\ o.ok = ok
  BY <1>2 DEF Pass
<1>6. NoPass.final = FALSE
  BY DEF NoPass
<1> QED BY <1>1, <1>2, <1>3, <1>4, <1>5, <1>6

(* No pass is under way any more: what the index says stays. *)
LEMMA EndPass ==
  ASSUME IInv, ~fooled, UNCHANGED <<rows, cursor, files, born, kept>>,
         ix'.pc = "idle", DOMAIN ix'.seen = {}, ix'.todo = {}, ix'.final => ix.final,
         ix'.ok => \/ ix.pc = "idle" /\ ix.ok
                   \/ ix.pc = "sync" /\ ix.todo = {}
  PROVE  Indexing'
<1>i. TypeOK /\ Passing /\ Indexing
  BY DEF IInv
<1>2. Faithful' /\ Counted'
  BY <1>i DEF Indexing, Faithful, Counted, Terminated, Ragged
<1>3. Known' \subseteq Known
  BY DEF Known
<1>4. Fresh'
  BY <1>3, <1>i DEF Indexing, Fresh
<1>5. Single'
  <2> SUFFICES ASSUME ix'.ok, NEW a \in DOMAIN cursor, a[2] = 0, cursor[a].n > 0, cursor[a].ino \in Known'
               PROVE  FALSE
    BY DEF Single
  <2>1. Noticed(a)
    BY <1>3, <1>i DEF Indexing, Single
  <2>2. ix.todo = {} /\ ix.pc # "drop"
    BY <1>i DEF Passing
  <2> QED BY <2>1, <2>2 DEF Noticed
<1>6. Batch'
  BY DEF Batch
<1>7. Final'
  <2> SUFFICES ASSUME ix'.final, ix'.ok PROVE Final'
    BY DEF Final
  <2>1. /\ DOMAIN cursor \subseteq DOMAIN files
        /\ \A f \in DOMAIN files \ ix.todo : Complete(f)
    BY <1>i DEF Indexing, Final
  <2>2. ix.todo = {}
    BY <1>i DEF Passing
  <2>3. \A f \in DOMAIN files : Complete(f)'
    BY <2>1, <2>2 DEF Complete
  <2> QED BY <2>1, <2>3 DEF Final
<1> QED BY <1>2, <1>4, <1>5, <1>6, <1>7 DEF Indexing

(* A pass that ends leaves nothing but whether it was the last one and     *)
(* whether it succeeded.                                                   *)
LEMMA EndedPass ==
  ASSUME NEW fin \in BOOLEAN, NEW p,
         p \in {[NoPass EXCEPT !.final = fin, !.ok = FALSE], [NoPass EXCEPT !.final = fin]}
  PROVE  /\ p \in Pass /\ p.pc = "idle" /\ p.seen = Nothing /\ p.todo = {} /\ DOMAIN p.seen = {}
         /\ p.final = fin
         /\ p = [NoPass EXCEPT !.final = fin, !.ok = FALSE] => p.ok = FALSE
<1> DEFINE failed == [NoPass EXCEPT !.final = fin, !.ok = FALSE]
           done == [NoPass EXCEPT !.final = fin]
<1>1. /\ \A q \in {failed, done} :
           /\ q \in Pass /\ q.pc = "idle" /\ q.seen = Nothing /\ DOMAIN q.seen = {} /\ q.todo = {}
           /\ q.final = fin
      /\ failed.ok = FALSE
  BY ONLY fin \in BOOLEAN, NoPassIs
<1>2. p \in {failed, done}
  OBVIOUS
<1> HIDE DEF failed, done
<1>3. p = failed => p.ok = FALSE
  BY ONLY <1>1
<1>4. /\ p \in Pass /\ p.pc = "idle" /\ p.seen = Nothing /\ p.todo = {} /\ DOMAIN p.seen = {}
      /\ p.final = fin
  BY ONLY <1>1, <1>2
<1> QED BY <1>3, <1>4 DEF failed

(* The pass ends, done or failed. *)
LEMMA EndKeeps ==
  ASSUME IInv, PassFails \/ SyncDone
  PROVE  IInv'
<1>u. /\ UNCHANGED <<queue, logger, hand, active, day, files, born, kept, offered, lost, rows, cursor, fooled>>
      /\ \/ ix' = [NoPass EXCEPT !.final = ix.final, !.ok = FALSE]
         \/ ix.pc = "sync" /\ ix.todo = {} /\ ix' = [NoPass EXCEPT !.final = ix.final]
  BY DEF PassFails, SyncDone, logVars
<1>i. TypeOK /\ Passing /\ Closed
  BY DEF IInv
<1>f. ix.final \in BOOLEAN
  BY <1>i, PassParts
<1>2. /\ ix' \in Pass /\ ix'.pc = "idle" /\ ix'.seen = Nothing /\ ix'.todo = {} /\ DOMAIN ix'.seen = {}
      /\ ix'.final = ix.final /\ (ix'.ok => ix.pc = "sync" /\ ix.todo = {})
  <2>1. /\ ix' \in {[NoPass EXCEPT !.final = ix.final, !.ok = FALSE], [NoPass EXCEPT !.final = ix.final]}
        /\ ix' = [NoPass EXCEPT !.final = ix.final, !.ok = FALSE] \/ (ix.pc = "sync" /\ ix.todo = {})
    BY <1>u
  <2> QED BY ONLY <2>1, <1>f, EndedPass
<1>3. TypeOK'
  BY <1>2, <1>u, <1>i DEF TypeOK
<1>4. Passing' /\ Closed'
  BY <1>2, <1>u, <1>i DEF Passing, Closed, Busy
<1>5. ~fooled' => Indexing'
  BY <1>2, <1>u, EndPass
<1> QED BY <1>3, <1>4, <1>5, <1>u, IndexerKeeps

(* A new pass begins with what the directory shows. *)
LEMMA ReconcileKeeps ==
  ASSUME IInv, NEW final \in BOOLEAN, Reconcile(final)
  PROVE  IInv'
<1> DEFINE now == [f \in DOMAIN files |-> [n |-> Len(files[f].lines), ino |-> files[f].ino]]
<1>u. /\ ix.pc = "idle" /\ ~ix.final /\ (final => logger = "closed")
      /\ ix' = [NoPass EXCEPT !.pc = "drop", !.todo = DOMAIN files, !.final = final, !.seen = now]
      /\ UNCHANGED <<queue, logger, hand, active, day, files, born, kept, offered, lost, rows, cursor, fooled>>
  BY DEF Reconcile, Listing, logVars
<1>i. TypeOK /\ Passing /\ Closed /\ Sound
  BY DEF IInv
<1>p. \A f \in DOMAIN files : f \in Name /\ files[f].ino \in Name /\ Len(files[f].lines) \in Nat
  BY <1>i, FileParts
<1>n. now \in Seen /\ DOMAIN now = DOMAIN files /\ \A f \in DOMAIN files : now[f].ino = files[f].ino
  <2>1. now \in [DOMAIN files -> Cursor]
    BY <1>p DEF Cursor
  <2>2. DOMAIN files \in SUBSET Name
    BY <1>p
  <2> QED BY <2>1, <2>2 DEF Seen
<1> HIDE DEF now
<1>1. /\ ix' \in Pass /\ ix'.pc = "drop" /\ ix'.seen = now /\ ix'.todo = DOMAIN files /\ ix'.final = final
  <2>1. NoPass \in Pass
    BY NoPassIs
  <2>2. DOMAIN files \subseteq Name
    BY <1>p
  <2> QED BY <2>1, <2>2, <1>u, <1>n DEF Pass
<1>2. TypeOK'
  BY <1>1, <1>u, <1>i DEF TypeOK
<1>3. Passing' /\ Closed'
  BY <1>1, <1>n, <1>u DEF Passing, Closed, Busy
<1>4. ASSUME ~fooled PROVE Indexing'
  <2>i. Indexing
    BY <1>4 DEF IInv
  <2>1. Faithful' /\ Counted'
    BY <2>i, <1>u DEF Indexing, Faithful, Counted, Terminated, Ragged
  <2>k. Known' = DOMAIN cursor \cup DOMAIN files /\ DOMAIN cursor \subseteq Known
    BY <1>1, <1>n, <1>u DEF Known
  <2>c. /\ \A f \in DOMAIN files : Called(f, files[f].ino, born)
        /\ \A f, g \in DOMAIN files : files[f].ino = files[g].ino => f = g
    BY <1>i DEF Sound
  <2>b. born \in Nat
    BY <1>i DEF TypeOK
  <2>2. \A f \in Known' : f[2] <= born
    <3>1. \A f \in DOMAIN files : f[2] <= born
      BY <2>c, <2>b DEF Called
    <3> QED BY <3>1, <2>k, <2>i DEF Indexing, Fresh
  <2>3. ASSUME NEW a \in DOMAIN files, a[2] = 0 PROVE files[a].ino \notin Known'
    <3> DEFINE c == files[a].ino
    <3>1. c \notin DOMAIN cursor
      BY <2>3, <2>k, <2>i DEF Indexing, Fresh
    <3>2. ASSUME c \in DOMAIN files PROVE FALSE
      <4>1. c[2] \in 1 .. born
        BY <2>c DEF Called
      <4>2. files[c].ino = c
        BY <4>1, <3>2, <2>c DEF Called
      <4>3. a = c
        BY <4>2, <3>2, <2>c
      <4> QED BY <4>1, <4>3, <2>3, <2>b
    <3> QED BY <3>1, <3>2, <2>k
  <2>4. Fresh'
    BY <2>2, <2>3, <2>i, <1>u DEF Indexing, Fresh
  <2>5. Single'
    <3> SUFFICES ASSUME NEW a \in DOMAIN cursor, a[2] = 0, cursor[a].ino \in Known'
                 PROVE  a \notin DOMAIN files \/ now[a].ino # cursor[a].ino
      BY <1>1, <1>n, <1>u DEF Single, Noticed, Busy
    <3> QED BY <2>3, <1>n
  <2>6. Batch'
    BY <1>1 DEF Batch
  <2>7. Final'
    BY <1>1, <1>u DEF Final, now
  <2> QED BY <2>1, <2>4, <2>5, <2>6, <2>7 DEF Indexing
<1> QED BY <1>2, <1>3, <1>4, <1>u, IndexerKeeps

(* Rows and cursors of some names are dropped. *)
LEMMA DropsKeeps ==
  ASSUME TypeOK, Faithful, Counted, NEW S, rows' = rows \ RowsOf(S),
         DOMAIN cursor' \subseteq DOMAIN cursor, \A f \in DOMAIN cursor \ S : f \in DOMAIN cursor',
         \A f \in DOMAIN cursor' : IF f \in S THEN cursor'[f].n = 0 ELSE cursor'[f] = cursor[f],
         UNCHANGED <<files, kept>>
  PROVE  /\ Faithful' /\ Counted'
         /\ \A f \in DOMAIN files \ S : Complete(f) => Complete(f)'
<1>1. \A x : x \in rows' <=> x \in rows /\ x.file \notin S
  BY DEF RowsOf
<1>c. \A f \in DOMAIN cursor' \ S : f \in DOMAIN cursor /\ cursor'[f] = cursor[f]
  OBVIOUS
<1>2. Faithful'
  <2>1. ASSUME NEW x \in rows'
        PROVE  /\ x \in rows /\ x.file \in DOMAIN cursor' /\ cursor'[x.file] = cursor[x.file]
               /\ x.off \in 1 .. cursor[x.file].n /\ x.rec \in kept /\ x.rec > 0
    BY <1>1, <1>c DEF Faithful
  <2> QED BY <2>1 DEF Faithful
<1>3. Counted'
  <2> SUFFICES ASSUME NEW f \in DOMAIN cursor', NEW g \in DOMAIN files,
                      cursor'[f].n > 0, files[g].ino = cursor'[f].ino
               PROVE  /\ cursor'[f].n <= Terminated(files[g].lines)
                      /\ \A i \in 1 .. cursor'[f].n : files[g].lines[i] > 0 =>
                           [file |-> f, off |-> i, rec |-> files[g].lines[i]] \in rows'
                      /\ \A x \in rows' : x.file = f => files[g].lines[x.off] = x.rec
    BY DEF Counted, Terminated, Ragged
  <2>1. CASE f \notin S
    <3>1. f \in DOMAIN cursor /\ cursor'[f] = cursor[f]
      BY <2>1
    <3>2. /\ cursor[f].n <= Terminated(files[g].lines)
          /\ \A i \in 1 .. cursor[f].n : files[g].lines[i] > 0 =>
               [file |-> f, off |-> i, rec |-> files[g].lines[i]] \in rows
          /\ \A x \in rows : x.file = f => files[g].lines[x.off] = x.rec
      BY <3>1 DEF Counted
    <3> QED BY <3>1, <3>2, <2>1, <1>1
  <2>2. CASE f \in S
    <3>1. cursor'[f].n = 0
      BY <2>2
    <3> QED BY <3>1
  <2> QED BY <2>1, <2>2
<1>4. ASSUME NEW f \in DOMAIN files \ S, Complete(f) PROVE Complete(f)'
  BY <1>1, <1>c, <1>4 DEF Complete
<1> QED BY <1>2, <1>3, <1>4

(* The pass moves on, and nothing else changes. *)
LEMMA PassMoves ==
  ASSUME TypeOK, NEW b \in {"sync", "uncache", "fold", "next"}, ix' = [ix EXCEPT !.pc = b]
  PROVE  /\ ix' \in Pass /\ ix'.pc = b /\ ix'.seen = ix.seen /\ ix'.todo = ix.todo
         /\ ix'.final = ix.final /\ ix'.ok = ix.ok
<1>1. ix \in Pass
  BY PassParts
<1> QED BY <1>1 DEF Pass, Busy

(* The rows of vanished files are dropped. *)
LEMMA DropVanishedKeeps ==
  ASSUME IInv, DropVanished
  PROVE  IInv'
<1> DEFINE gone == DOMAIN cursor \ DOMAIN ix.seen
<1>u. /\ ix.pc = "drop" /\ rows' = rows \ RowsOf(gone) /\ cursor' = Without(cursor, gone)
      /\ \E b \in {"sync", "uncache"} : ix' = [ix EXCEPT !.pc = b]
      /\ UNCHANGED <<queue, logger, hand, active, day, files, born, kept, offered, lost, fooled>>
  BY DEF DropVanished, logVars
<1>i. TypeOK /\ Passing /\ Closed
  BY DEF IInv
<1>1. /\ ix' \in Pass /\ ix'.pc \in {"sync", "uncache"} /\ ix'.seen = ix.seen /\ ix'.todo = ix.todo
      /\ ix'.final = ix.final /\ ix'.ok = ix.ok
  BY <1>u, <1>i, PassMoves
<1>2. /\ DOMAIN cursor' = DOMAIN cursor \ gone /\ DOMAIN cursor' \subseteq DOMAIN ix.seen
      /\ \A f \in DOMAIN cursor' : f \in DOMAIN cursor /\ cursor'[f] = cursor[f]
      /\ cursor' = [f \in DOMAIN cursor' |-> cursor'[f]]
  BY <1>u DEF Without
<1>3. TypeOK'
  <2>1. DOMAIN cursor \subseteq Name /\ (\A f \in DOMAIN cursor : cursor[f] \in Cursor) /\ rows \subseteq Row
    BY <1>i DEF TypeOK
  <2>2. /\ DOMAIN cursor' \subseteq Name /\ cursor' \in [DOMAIN cursor' -> Cursor] /\ rows' \subseteq Row
        /\ fooled' \in BOOLEAN
    BY <2>1, <1>2, <1>u, <1>i DEF TypeOK
  <2> QED BY <2>2, <1>1, <1>u, <1>i, IndexerTypes
<1>4. Passing' /\ Closed'
  BY <1>1, <1>2, <1>u, <1>i DEF Passing, Closed, Busy
<1>5. ASSUME ~fooled PROVE Indexing'
  <2>i. Indexing
    BY <1>5 DEF IInv
  <2>f. Faithful /\ Counted
    BY <2>i DEF Indexing
  <2>1. Faithful' /\ Counted' /\ \A f \in DOMAIN files \ gone : Complete(f) => Complete(f)'
    <3> HIDE DEF gone
    <3>1. /\ \A f \in DOMAIN cursor \ gone : f \in DOMAIN cursor'
          /\ \A f \in DOMAIN cursor' : IF f \in gone THEN cursor'[f].n = 0 ELSE cursor'[f] = cursor[f]
          /\ DOMAIN cursor' \subseteq DOMAIN cursor
      BY <1>2
    <3> QED BY <3>1, <2>f, <1>u, <1>i, DropsKeeps
  <2>k. Known' \subseteq Known
    BY <1>1, <1>2 DEF Known
  <2>2. Fresh'
    BY <2>k, <2>i, <1>2, <1>u DEF Indexing, Fresh
  <2>3. Single'
    <3> SUFFICES ASSUME NEW a \in DOMAIN cursor', a[2] = 0, cursor'[a].n > 0, cursor'[a].ino \in Known'
                 PROVE  Noticed(a)'
      BY DEF Single
    <3>1. Noticed(a)
      BY <2>k, <2>i, <1>2, <1>u DEF Indexing, Single
    <3>2. a \in ix.todo /\ ix.seen[a].ino # cursor[a].ino
      BY <3>1, <1>2 DEF Noticed
    <3> QED BY <3>2, <1>1, <1>2 DEF Noticed, Busy
  <2>4. Batch'
    BY <1>1 DEF Batch
  <2>5. Final'
    <3> SUFFICES ASSUME ix.final PROVE Final'
      BY <1>1 DEF Final
    <3>1. /\ ix.seen = [f \in DOMAIN files |-> [n |-> Len(files[f].lines), ino |-> files[f].ino]]
          /\ \A f \in DOMAIN files \ ix.todo : Complete(f)
      BY <2>i, <1>u DEF Indexing, Final
    <3>2. DOMAIN ix.seen = DOMAIN files
      BY <3>1
    <3>3. \A f \in DOMAIN files \ ix.todo : Complete(f)'
      BY <3>1, <3>2, <2>1
    <3> QED BY <3>1, <3>2, <3>3, <1>1, <1>2, <1>u DEF Final
  <2> QED BY <2>1, <2>2, <2>3, <2>4, <2>5 DEF Indexing
<1> QED BY <1>3, <1>4, <1>5, <1>u, IndexerKeeps

(* Only the aggregates change; the pass may move on from them. *)
LEMMA CacheKeeps ==
  ASSUME IInv, DropSessions \/ FoldBatch \/ SessionSummaries
  PROVE  IInv'
<1>u. /\ UNCHANGED <<queue, logger, hand, active, day, files, born, kept, offered, lost, rows, cursor, fooled>>
      /\ \/ ix.pc = "uncache" /\ ix' = [ix EXCEPT !.pc = "sync"]
         \/ ix.pc = "fold" /\ ix' = [ix EXCEPT !.pc = "next"]
         \/ ix' = ix
  BY DEF DropSessions, FoldBatch, SessionSummaries, logVars
<1>i. TypeOK /\ Passing /\ Closed
  BY DEF IInv
<1>1. /\ ix' \in Pass /\ ix'.seen = ix.seen /\ ix'.todo = ix.todo /\ ix'.final = ix.final /\ ix'.ok = ix.ok
      /\ \/ ix.pc = "uncache" /\ ix'.pc = "sync"
         \/ ix.pc = "fold" /\ ix'.pc = "next"
         \/ ix' = ix
  BY <1>u, <1>i, PassMoves, PassParts
<1>3. TypeOK'
  BY <1>1, <1>u, <1>i DEF TypeOK
<1>4. Passing' /\ Closed'
  BY <1>1, <1>u, <1>i DEF Passing, Closed, Busy
<1>5. ASSUME ~fooled PROVE Indexing'
  <2>i. Indexing
    BY <1>5 DEF IInv
  <2>1. Faithful' /\ Counted'
    BY <2>i, <1>u DEF Indexing, Faithful, Counted, Terminated, Ragged
  <2>2. Fresh'
    BY <2>i, <1>u, <1>1 DEF Indexing, Fresh, Known
  <2>3. Single'
    BY <2>i, <1>u, <1>1 DEF Indexing, Single, Noticed, Known, Busy
  <2>4. Batch'
    BY <2>i, <1>u, <1>1 DEF Indexing, Batch, Indexed, Known, Terminated, Ragged
  <2>5. Final'
    BY <2>i, <1>u, <1>1 DEF Indexing, Final, Complete, Terminated, Ragged
  <2> QED BY <2>1, <2>2, <2>3, <2>4, <2>5 DEF Indexing
<1> QED BY <1>3, <1>4, <1>5, <1>u, IndexerKeeps

(* The indexer turns to the next file. *)
LEMMA NextFileKeeps ==
  ASSUME IInv, NextFile
  PROVE  IInv'
<1> DEFINE f == First(ix.todo)
<1>u. /\ UNCHANGED <<queue, logger, hand, active, day, files, born, kept, offered, lost, rows, cursor, fooled>>
      /\ ix.pc = "next" /\ ix' = [ix EXCEPT !.pc = "sync", !.todo = ix.todo \ {f}, !.batch = <<>>]
  BY DEF NextFile, logVars
<1>i. TypeOK /\ Passing /\ Closed
  BY DEF IInv
<1> HIDE DEF f
<1>1. /\ ix' \in Pass /\ ix'.seen = ix.seen /\ ix'.todo = ix.todo \ {f} /\ ix'.final = ix.final
      /\ ix'.pc = "sync"
  <2>1. ix \in Pass /\ ix.todo \subseteq Name /\ <<>> \in Seq(Line)
    BY <1>i, PassParts
  <2> QED BY <2>1, <1>u DEF Pass
<1>3. TypeOK'
  BY <1>1, <1>u, <1>i DEF TypeOK
<1>4. Passing' /\ Closed'
  BY <1>1, <1>u, <1>i DEF Passing, Closed, Busy
<1>5. ASSUME ~fooled PROVE Indexing'
  <2>i. Indexing
    BY <1>5 DEF IInv
  <2>1. Faithful' /\ Counted'
    BY <2>i, <1>u DEF Indexing, Faithful, Counted, Terminated, Ragged
  <2>k. Known' = Known
    BY <1>1, <1>u DEF Known
  <2>2. Fresh'
    BY <2>k, <2>i, <1>u DEF Indexing, Fresh
  <2>3. Single'
    <3> SUFFICES ASSUME NEW a \in DOMAIN cursor, a[2] = 0, cursor[a].n > 0, cursor[a].ino \in Known
                 PROVE  Noticed(a)'
      BY <2>k, <1>u DEF Single
    <3>1. Noticed(a)
      BY <2>i, <1>u DEF Indexing, Single
    <3>2. a \in ix.todo \ {f} /\ ix.seen[a].ino # cursor[a].ino
      BY <3>1, <1>u DEF Noticed, Busy, f
    <3> QED BY <3>2, <1>1, <1>u DEF Noticed, Busy
  <2>4. Batch'
    BY <1>1 DEF Batch
  <2>5. Final'
    <3> SUFFICES ASSUME ix.final PROVE Final'
      BY <1>1 DEF Final
    <3>1. /\ ix.seen = [g \in DOMAIN files |-> [n |-> Len(files[g].lines), ino |-> files[g].ino]]
          /\ DOMAIN cursor \subseteq DOMAIN files
          /\ \A g \in DOMAIN files \ ix.todo : Complete(g)
          /\ Complete(f)
      BY <2>i, <1>u DEF Indexing, Final, f
    <3>2. \A g \in DOMAIN files \ ix'.todo : Complete(g)
      BY <3>1, <1>1
    <3>3. \A g \in DOMAIN files : Complete(g) => Complete(g)'
      BY <1>u DEF Complete
    <3> QED BY <3>1, <3>2, <3>3, <1>1, <1>u DEF Final
  <2> QED BY <2>1, <2>2, <2>3, <2>4, <2>5 DEF Indexing
<1> QED BY <1>3, <1>4, <1>5, <1>u, IndexerKeeps

(* A file smaller than its cursor is forgotten. *)
LEMMA RewindKeeps ==
  ASSUME IInv, Rewind
  PROVE  IInv'
<1> DEFINE f == First(ix.todo)
           zero == [n |-> 0, ino |-> NoFile]
<1>u. /\ ix.pc = "sync" /\ ix.todo # {} /\ ix.seen[f].n < Indexed(f)
      /\ rows' = rows \ RowsOf({f}) /\ cursor' = [cursor EXCEPT ![f] = zero]
      /\ \E b \in {"sync", "uncache"} : ix' = [ix EXCEPT !.pc = b]
      /\ UNCHANGED <<queue, logger, hand, active, day, files, born, kept, offered, lost, fooled>>
  BY DEF Rewind, NeedsRewind, logVars
<1>i. TypeOK /\ Passing /\ Closed
  BY DEF IInv
<1>t. f \in ix.todo
  BY <1>i, <1>u, PassParts, FirstIn
<1> HIDE DEF f
<1>d. f \in DOMAIN cursor
  <2>1. f \in DOMAIN ix.seen /\ ix.seen[f].n \in Nat
    BY <1>t, <1>i, PassParts DEF Passing
  <2> QED BY <2>1, <1>u DEF Indexed
<1>1. /\ ix' \in Pass /\ ix'.pc \in {"sync", "uncache"} /\ ix'.seen = ix.seen /\ ix'.todo = ix.todo
      /\ ix'.final = ix.final /\ ix'.ok = ix.ok
  BY <1>u, <1>i, PassMoves
<1>z. zero \in Cursor /\ zero.n = 0
  BY DEF Cursor
<1> HIDE DEF zero
<1>2. /\ DOMAIN cursor' = DOMAIN cursor /\ cursor'[f] = zero
      /\ \A g \in DOMAIN cursor : g # f => cursor'[g] = cursor[g]
      /\ cursor' \in [DOMAIN cursor' -> Cursor]
  <2>1. cursor \in [DOMAIN cursor -> Cursor]
    BY <1>i DEF TypeOK
  <2> QED BY <2>1, <1>u, <1>d, <1>z
<1>3. TypeOK'
  <2>2. DOMAIN cursor' \subseteq Name /\ rows' \subseteq Row /\ fooled' \in BOOLEAN
    BY <1>2, <1>u, <1>i DEF TypeOK
  <2> QED BY <2>2, <1>1, <1>2, <1>u, <1>i, IndexerTypes
<1>4. Passing' /\ Closed'
  BY <1>1, <1>2, <1>u, <1>i DEF Passing, Closed, Busy
<1>5. ASSUME ~fooled PROVE Indexing'
  <2>i. Indexing
    BY <1>5 DEF IInv
  <2>f. Faithful /\ Counted
    BY <2>i DEF Indexing
  <2>1. Faithful' /\ Counted' /\ \A g \in DOMAIN files \ {f} : Complete(g) => Complete(g)'
    <3>1. /\ \A g \in DOMAIN cursor \ {f} : g \in DOMAIN cursor'
          /\ \A g \in DOMAIN cursor' : IF g \in {f} THEN cursor'[g].n = 0 ELSE cursor'[g] = cursor[g]
          /\ DOMAIN cursor' \subseteq DOMAIN cursor
      BY <1>2, <1>z
    <3> QED BY <3>1, <2>f, <1>u, <1>i, DropsKeeps
  <2>k. Known' = Known
    BY <1>1, <1>2 DEF Known
  <2>c. \A g \in DOMAIN cursor' : cursor'[g].n > 0 => g # f /\ g \in DOMAIN cursor /\ cursor'[g] = cursor[g]
    BY <1>2, <1>z
  <2>2. Fresh'
    BY <2>k, <2>c, <2>i, <1>u DEF Indexing, Fresh
  <2>3. Single'
    <3> SUFFICES ASSUME NEW a \in DOMAIN cursor', a[2] = 0, cursor'[a].n > 0, cursor'[a].ino \in Known'
                 PROVE  Noticed(a)'
      BY DEF Single
    <3>1. Noticed(a)
      BY <2>k, <2>c, <2>i, <1>u DEF Indexing, Single
    <3>2. a \in ix.todo /\ ix.seen[a].ino # cursor[a].ino
      BY <3>1, <1>u DEF Noticed
    <3> QED BY <3>2, <2>c, <1>1 DEF Noticed, Busy
  <2>4. Batch'
    BY <1>1 DEF Batch
  <2>5. Final'
    <3> SUFFICES ASSUME ix.final PROVE Final'
      BY <1>1 DEF Final
    <3>1. /\ ix.seen = [g \in DOMAIN files |-> [n |-> Len(files[g].lines), ino |-> files[g].ino]]
          /\ DOMAIN cursor \subseteq DOMAIN files
          /\ \A g \in DOMAIN files \ ix.todo : Complete(g)
      BY <2>i, <1>u DEF Indexing, Final
    <3>3. \A g \in DOMAIN files \ ix.todo : Complete(g)'
      BY <3>1, <2>1, <1>t
    <3> QED BY <3>1, <3>3, <1>1, <1>2, <1>u DEF Final, Busy
  <2> QED BY <2>1, <2>2, <2>3, <2>4, <2>5 DEF Indexing
<1> QED BY <1>3, <1>4, <1>5, <1>u, IndexerKeeps

(* A crash: the files and the index stay, and the counts are of what went. *)
LEMMA CrashKeeps ==
  ASSUME IInv, Crash
  PROVE  IInv'
<1> DEFINE ok == ix.pc = "idle" /\ ix.ok
<1>u. /\ queue' = <<>> /\ hand' = Idle /\ active' = NoFile /\ logger' = "run"
      /\ lost' = lost \cup ToSet(queue) \cup ({hand.rec} \ {0})
      /\ ix' = [NoPass EXCEPT !.ok = ok]
      /\ UNCHANGED <<day, files, born, kept, rows, cursor, offered, fooled>>
  BY DEF Crash
<1>i. TypeOK /\ Apart /\ Accounted /\ Sound /\ Passing
  BY DEF IInv
<1>o. ok \in BOOLEAN
  BY <1>i, PassParts
<1>1. /\ ix' \in Pass /\ ix'.pc = "idle" /\ ix'.seen = Nothing /\ ix'.todo = {} /\ DOMAIN ix'.seen = {}
      /\ ix'.final = FALSE /\ ix'.ok = ok
  <2> HIDE DEF ok
  <2>1. DOMAIN Nothing = {}
    BY DEF Nothing
  <2> QED BY <2>1, <1>u, <1>o, NoPassIs
<1>2. hand' \in Hand /\ hand'.rec = 0 /\ hand'.at = "idle"
  BY <1>u DEF Idle, Hand
<1>q. queue \in Seq(Nat) /\ hand.rec \in Nat /\ ToSet(queue) \subseteq Nat
  BY <1>i DEF TypeOK, Hand, ToSet
<1>3. TypeOK'
  <2>1. queue' \in Seq(Nat) /\ lost' \subseteq Nat
    BY <1>q, <1>u, <1>i DEF TypeOK
  <2> QED BY <2>1, <1>1, <1>2, <1>u, <1>i DEF TypeOK
<1>e. ToSet(queue') = {} /\ DOMAIN queue' = {}
  BY <1>u DEF ToSet
<1>4. Apart'
  BY <1>e, <1>2, <1>u, <1>i DEF Apart
<1>5. Accounted'
  <2>1. /\ 1 .. offered = ToSet(queue) \cup ({hand.rec} \ {0}) \cup kept \cup lost
        /\ (ToSet(queue) \cup ({hand.rec} \ {0})) \cap (kept \cup lost) = {} /\ kept \cap lost = {}
    BY <1>i, AccountsAre
  <2> QED BY <2>1, <1>e, <1>2, <1>u DEF Accounted
<1>6. Sound' /\ Writing'
  BY <1>2, <1>u, <1>i DEF Sound, Writing
<1>7. Passing' /\ Closed'
  BY <1>1, <1>u DEF Passing, Closed, Busy
<1>8. ~fooled' => Indexing'
  BY <1>1, <1>u, EndPass
<1> QED BY <1>3, <1>4, <1>5, <1>6, <1>7, <1>8 DEF IInv

(* A file that the final pass finds indexed up to its end is complete. *)
LEMMA IndexedWhole ==
  ASSUME TypeOK, Counted, NEW f \in DOMAIN files, Terminated(files[f].lines) <= Indexed(f),
         Indexed(f) > 0 => cursor[f].ino = files[f].ino
  PROVE  Complete(f)
<1> DEFINE s == files[f].lines
<1>1. s \in Seq(Line)
  BY FileParts
<1> HIDE DEF s
<1>2. /\ Terminated(s) \in Nat /\ Len(s) \in Nat /\ DOMAIN s = 1 .. Len(s) /\ Len(s) <= Terminated(s) + 1
      /\ Terminated(s) < Len(s) => s[Len(s)] = Torn
  BY <1>1, TerminatedIs
<1>3. \A i \in DOMAIN s : s[i] > 0 => i \in 1 .. Terminated(s)
  <2> SUFFICES ASSUME NEW i \in DOMAIN s, s[i] > 0, i > Terminated(s) PROVE FALSE
    BY <1>2
  <2>1. i = Len(s) /\ Terminated(s) < Len(s)
    BY <1>2
  <2> QED BY <2>1, <1>2 DEF Torn
<1>4. CASE Indexed(f) = 0
  <2>1. Terminated(s) = 0
    BY <1>4, <1>2 DEF s
  <2>2. \A i \in DOMAIN s : ~(s[i] > 0)
    BY <2>1, <1>3, <1>2
  <2> QED BY <2>2, <1>4 DEF Complete, Indexed, s
<1>5. CASE Indexed(f) # 0
  <2>1. f \in DOMAIN cursor /\ Indexed(f) = cursor[f].n /\ cursor[f].n \in Nat
    BY <1>5, FileParts DEF Indexed
  <2>2. cursor[f].n > 0 /\ cursor[f].ino = files[f].ino
    BY <2>1, <1>5
  <2>3. \A i \in 1 .. cursor[f].n : s[i] > 0 => [file |-> f, off |-> i, rec |-> s[i]] \in rows
    BY <2>1, <2>2 DEF Counted, s
  <2>4. \A i \in 1 .. Terminated(s) : i \in 1 .. cursor[f].n
    BY <2>1, <1>2 DEF s
  <2>5. \A i \in DOMAIN s : s[i] > 0 => [file |-> f, off |-> i, rec |-> s[i]] \in rows
    BY <2>3, <2>4, <1>3
  <2> QED BY <2>2, <2>5 DEF Complete, s
<1> QED BY <1>4, <1>5

(* A file that has not grown is skipped. *)
LEMMA UpToDateKeeps ==
  ASSUME IInv, UpToDate
  PROVE  IInv'
<1> DEFINE f == First(ix.todo)
<1>u. /\ ix.pc = "sync" /\ ix.todo # {} /\ ix.seen[f].n = Indexed(f)
      /\ fooled' = (fooled \/ Mistaken(f))
      /\ ix' = [ix EXCEPT !.todo = ix.todo \ {f}]
      /\ UNCHANGED <<queue, logger, hand, active, day, files, born, kept, offered, lost, rows, cursor>>
  BY DEF UpToDate, logVars
<1>i. TypeOK /\ Passing /\ Closed
  BY DEF IInv
<1>t. f \in ix.todo /\ f \in DOMAIN ix.seen
  <2>1. f \in ix.todo
    BY <1>i, <1>u, PassParts, FirstIn
  <2> QED BY <2>1, <1>i DEF Passing
<1> HIDE DEF f
<1>1. /\ ix' \in Pass /\ ix'.pc = "sync" /\ ix'.seen = ix.seen /\ ix'.todo = ix.todo \ {f}
      /\ ix'.final = ix.final
  <2>1. ix \in Pass /\ ix.todo \subseteq Name
    BY <1>i, PassParts
  <2> QED BY <2>1, <1>u DEF Pass
<1>3. TypeOK'
  <2>1. fooled' \in BOOLEAN
    BY <1>u, <1>i DEF TypeOK, Mistaken
  <2> QED BY <2>1, <1>1, <1>u, <1>i DEF TypeOK
<1>4. Passing' /\ Closed'
  BY <1>1, <1>u, <1>i DEF Passing, Closed, Busy
<1>5. ASSUME ~fooled' PROVE Indexing'
  <2>i. Indexing /\ ~Mistaken(f)
    BY <1>5, <1>u DEF IInv
  <2>1. Faithful' /\ Counted'
    BY <2>i, <1>u DEF Indexing, Faithful, Counted, Terminated, Ragged
  <2>k. Known' = Known
    BY <1>1, <1>u DEF Known
  <2>2. Fresh'
    BY <2>k, <2>i, <1>u DEF Indexing, Fresh
  <2>3. Single'
    <3> SUFFICES ASSUME NEW a \in DOMAIN cursor, a[2] = 0, cursor[a].n > 0, cursor[a].ino \in Known
                 PROVE  Noticed(a)'
      BY <2>k, <1>u DEF Single
    <3>1. Noticed(a)
      BY <2>i, <1>u DEF Indexing, Single
    <3>2. a \in ix.todo /\ ix.seen[a].ino # cursor[a].ino
      BY <3>1, <1>u DEF Noticed
    <3>3. a # f
      BY <3>2, <2>i DEF Mistaken, Indexed
    <3> QED BY <3>2, <3>3, <1>1, <1>u DEF Noticed, Busy
  <2>4. Batch'
    BY <1>1 DEF Batch
  <2>5. Final'
    <3> SUFFICES ASSUME ix.final PROVE Final'
      BY <1>1 DEF Final
    <3>1. /\ ix.seen = [g \in DOMAIN files |-> [n |-> Len(files[g].lines), ino |-> files[g].ino]]
          /\ DOMAIN cursor \subseteq DOMAIN files
          /\ \A g \in DOMAIN files \ ix.todo : Complete(g)
      BY <2>i, <1>u DEF Indexing, Final
    <3>2. f \in DOMAIN files /\ ix.seen[f].n = Len(files[f].lines) /\ ix.seen[f].ino = files[f].ino
      BY <3>1, <1>t
    <3>3. Terminated(files[f].lines) <= Indexed(f)
      <4>1. files[f].lines \in Seq(Line)
        BY <3>2, <1>i, FileParts
      <4>2. Terminated(files[f].lines) <= Len(files[f].lines)
        BY <4>1, TerminatedIs
      <4> QED BY <4>2, <3>2, <1>u
    <3>4. Indexed(f) > 0 => cursor[f].ino = files[f].ino
      BY <3>2, <2>i DEF Mistaken
    <3>5. Complete(f)
      BY <3>2, <3>3, <3>4, <2>i, <1>i, IndexedWhole DEF Indexing
    <3>6. \A g \in DOMAIN files : Complete(g) => Complete(g)'
      BY <1>u DEF Complete
    <3>7. \A g \in DOMAIN files \ ix'.todo : Complete(g)'
      BY <3>1, <3>5, <3>6, <1>1
    <3> QED BY <3>1, <3>7, <1>1, <1>u DEF Final, Busy
  <2> QED BY <2>1, <2>2, <2>3, <2>4, <2>5 DEF Indexing
<1> QED BY <1>3, <1>4, <1>5, <1>u, IndexerKeeps

(* The lines after a place, up to another. *)
LEMMA Cut ==
  ASSUME NEW s \in Seq(Line), NEW n \in Nat, NEW m \in Nat, m <= Len(s)
  PROVE  LET new == SubSeq(s, n + 1, m)
         IN /\ new \in Seq(Line) /\ DOMAIN new = 1 .. Len(new) /\ Len(new) \in Nat
            /\ (new = <<>> => m <= n) /\ (new # <<>> => n + Len(new) = m)
            /\ \A j \in DOMAIN new : new[j] = s[n + j] /\ n + j \in 1 .. m
<1> DEFINE new == SubSeq(s, n + 1, m)
<1>1. \A i \in n + 1 .. m : i \in DOMAIN s
  OBVIOUS
<1>2. \A i \in n + 1 .. m : s[i] \in Line
  BY <1>1
<1>3. /\ new \in Seq(Line)
      /\ Len(new) = IF n + 1 <= m THEN m - (n + 1) + 1 ELSE 0
      /\ \A i \in 1 .. m - (n + 1) + 1 : new[i] = s[n + 1 + i - 1]
  <2>1. n + 1 \in Int /\ m \in Int
    OBVIOUS
  <2> QED BY <2>1, <1>2, SubSeqProperties
<1> HIDE DEF new
<1>4. DOMAIN new = 1 .. Len(new) /\ Len(new) \in Nat /\ (new = <<>> <=> Len(new) = 0)
  BY <1>3
<1>5. (new = <<>> => m <= n) /\ (new # <<>> => n + Len(new) = m)
  BY <1>3, <1>4
<1>6. ASSUME NEW j \in DOMAIN new PROVE new[j] = s[n + j] /\ n + j \in 1 .. m
  <2>1. Len(new) = m - n /\ j \in 1 .. m - n /\ j \in Nat
    BY <1>3, <1>4
  <2>2. j \in 1 .. m - (n + 1) + 1 /\ n + 1 + j - 1 = n + j /\ n + j \in 1 .. m
    BY <2>1
  <2> QED BY <2>2, <1>3
<1> QED BY <1>3, <1>4, <1>5, <1>6 DEF new

(* The lines after the cursor are read. *)
LEMMA AppendFileKeeps ==
  ASSUME IInv, AppendFile
  PROVE  IInv'
<1> DEFINE f == First(ix.todo)
           n == Indexed(f)
           s == files[f].lines
           new == SubSeq(s, n + 1, Terminated(s))
<1>u. /\ ix.pc = "sync" /\ ix.todo # {} /\ ix.seen[f].n > n
      /\ UNCHANGED <<queue, logger, hand, active, day, files, born, kept, offered, lost, rows, cursor>>
      /\ \/ /\ f \notin DOMAIN files /\ ix' = [NoPass EXCEPT !.final = ix.final, !.ok = FALSE]
            /\ fooled' = fooled
         \/ /\ f \in DOMAIN files
            /\ ix' = [ix EXCEPT !.pc = IF new = <<>> THEN "next" ELSE "insert",
                                !.batch = new, !.from = n, !.ino = files[f].ino]
            /\ fooled' = (fooled \/ Mistaken(f) \/ (n > 0 /\ Replaced(f) /\ Len(s) >= n))
  BY DEF AppendFile, logVars
<1>i. TypeOK /\ Passing /\ Closed /\ Sound
  BY DEF IInv
<1>t. f \in ix.todo /\ f \in DOMAIN ix.seen
  <2>1. f \in ix.todo
    BY <1>i, <1>u, PassParts, FirstIn
  <2> QED BY <2>1, <1>i DEF Passing
<1>1. CASE f \notin DOMAIN files
  <2>1. ix.final \in BOOLEAN
    BY <1>i, PassParts
  <2>2. /\ ix' \in Pass /\ ix'.pc = "idle" /\ ix'.seen = Nothing /\ ix'.todo = {} /\ DOMAIN ix'.seen = {}
        /\ ix'.final = ix.final /\ ix'.ok = FALSE /\ fooled' = fooled
    <3>1. ix' = [NoPass EXCEPT !.final = ix.final, !.ok = FALSE] /\ fooled' = fooled
      BY <1>1, <1>u
    <3> QED BY ONLY <2>1, <3>1, EndedPass
  <2>3. TypeOK'
    BY <2>2, <1>u, <1>i DEF TypeOK
  <2>4. Passing' /\ Closed'
    BY <2>2, <1>u, <1>i DEF Passing, Closed, Busy
  <2>5. ~fooled' => Indexing'
    BY <2>2, <1>u, EndPass
  <2> QED BY <2>3, <2>4, <2>5, <1>u, IndexerKeeps
<1>2. CASE f \in DOMAIN files
  <2>s. s \in Seq(Line) /\ files[f].ino \in Name
    BY <1>2, <1>i, FileParts
  <2>n. n \in Nat
    BY <1>i, FileParts DEF Indexed
  <2> HIDE DEF s, n, f
  <2>T. /\ Terminated(s) \in Nat /\ Terminated(s) <= Len(s) /\ Len(s) <= Terminated(s) + 1
        /\ Len(s) \in Nat /\ DOMAIN s = 1 .. Len(s)
        /\ Ragged(s) => Terminated(s) = Len(s) - 1
    BY <2>s, TerminatedIs
  <2>c. /\ new \in Seq(Line) /\ DOMAIN new = 1 .. Len(new) /\ Len(new) \in Nat
        /\ (new = <<>> => Terminated(s) <= n) /\ (new # <<>> => n + Len(new) = Terminated(s))
        /\ \A j \in DOMAIN new : new[j] = s[n + j] /\ n + j \in 1 .. Terminated(s)
    BY <2>s, <2>n, <2>T, Cut
  <2> HIDE DEF new
  <2>1. /\ ix' \in Pass /\ ix'.pc = (IF new = <<>> THEN "next" ELSE "insert") /\ ix'.seen = ix.seen
        /\ ix'.todo = ix.todo /\ ix'.final = ix.final /\ ix'.batch = new /\ ix'.from = n
        /\ ix'.ino = files[f].ino
    <3>1. ix \in Pass
      BY <1>i, PassParts
    <3>2. ix' = [ix EXCEPT !.pc = IF new = <<>> THEN "next" ELSE "insert",
                           !.batch = new, !.from = n, !.ino = files[f].ino]
      BY <1>2, <1>u
    <3> QED BY <3>1, <3>2, <2>c, <2>n, <2>s DEF Pass, Busy
  <2>2. TypeOK'
    <3>1. fooled' \in BOOLEAN
      BY <1>2, <1>u, <1>i DEF TypeOK, Mistaken, Replaced
    <3> QED BY <3>1, <2>1, <1>u, <1>i DEF TypeOK
  <2>3. Passing' /\ Closed'
    BY <2>1, <1>u, <1>i DEF Passing, Closed, Busy
  <2>4. ASSUME ~fooled' PROVE Indexing'
    <3>i. Indexing /\ ~Mistaken(f) /\ ~(n > 0 /\ Replaced(f) /\ Len(s) >= n)
      BY <2>4, <1>2, <1>u DEF IInv
    <3>1. Faithful' /\ Counted'
      BY <3>i, <1>u DEF Indexing, Faithful, Counted, Terminated, Ragged
    <3>k. Known' = Known
      BY <2>1, <1>u DEF Known
    <3>2. Fresh'
      BY <3>k, <3>i, <1>u DEF Indexing, Fresh
    <3>3. Single'
      <4> SUFFICES ASSUME NEW a \in DOMAIN cursor, a[2] = 0, cursor[a].n > 0, cursor[a].ino \in Known
                   PROVE  Noticed(a)'
        BY <3>k, <1>u DEF Single
      <4>1. Noticed(a)
        BY <3>i, <1>u DEF Indexing, Single
      <4>2. a \in ix.todo /\ ix.seen[a].ino # cursor[a].ino
        BY <4>1, <1>u DEF Noticed
      <4>3. a # f
        BY <4>2, <3>i DEF Mistaken, Indexed
      <4> QED BY <4>2, <4>3, <2>1, <1>u DEF Noticed, Busy, f
    <3>o. /\ \A g \in DOMAIN files : files[g].ino = files[f].ino => g = f
          /\ Called(f, files[f].ino, born)
          /\ \A i \in DOMAIN s : (s[i] = Torn => i = Len(s)) /\ (s[i] > 0 => s[i] \in kept)
          /\ \A g \in DOMAIN files : \A i \in DOMAIN s, j \in DOMAIN files[g].lines :
               s[i] = files[g].lines[j] /\ s[i] > 0 => f = g /\ i = j
      BY <1>2, <1>i DEF Sound, s
    <3>d. \A j \in DOMAIN new : n + j \in DOMAIN s /\ s[n + j] = new[j] /\ new[j] # Torn
      <4> SUFFICES ASSUME NEW j \in DOMAIN new PROVE n + j \in DOMAIN s /\ s[n + j] = new[j] /\ new[j] # Torn
        OBVIOUS
      <4>1. s[n + j] = new[j] /\ n + j \in 1 .. Terminated(s)
        BY <2>c
      <4>2. n + j \in DOMAIN s
        BY <4>1, <2>T
      <4>3. ASSUME new[j] = Torn PROVE FALSE
        <5>1. n + j = Len(s) /\ s[Len(s)] = Torn
          BY <4>1, <4>2, <4>3, <3>o
        <5>2. Ragged(s)
          BY <5>1, <4>2, <2>s DEF Ragged
        <5> QED BY <5>1, <5>2, <4>1, <2>T
      <4> QED BY <4>1, <4>2, <4>3
    <3>4. Batch'
      <4> SUFFICES ASSUME new # <<>>
                   PROVE  /\ (n > 0 => cursor[f].ino = files[f].ino)
                          /\ (f[2] = 0 => files[f].ino \notin Known)
                          /\ \A j \in DOMAIN new : new[j] > 0 =>
                               /\ new[j] \in kept
                               /\ \A g \in DOMAIN files : \A i \in DOMAIN files[g].lines :
                                    files[g].lines[i] = new[j] =>
                                      files[g].ino = files[f].ino /\ i = n + j
                          /\ \A g \in DOMAIN files : files[g].ino = files[f].ino =>
                               /\ n + Len(new) <= Terminated(files[g].lines)
                               /\ \A j \in DOMAIN new : files[g].lines[n + j] = new[j]
        <5>3. f = First(ix'.todo)
          BY <2>1 DEF f
        <5>1. Indexed(First(ix.todo))' = n
          BY <5>3, <1>u DEF n, Indexed
        <5> QED BY <5>1, <5>3, <2>1, <2>s, <3>k, <3>d, <3>o, <1>u DEF Batch, Terminated, Ragged
      <4>1. n > 0 => cursor[f].ino = files[f].ino
        <5>1. n > 0 => f \in DOMAIN cursor
          BY DEF n, Indexed
        <5>2. Len(s) >= n
          BY <2>c, <2>T, <2>n
        <5> QED BY <5>1, <5>2, <3>i, <1>2 DEF Replaced
      <4>2. f[2] = 0 => files[f].ino \notin Known
        BY <3>i, <1>2 DEF Indexing, Fresh
      <4>3. ASSUME NEW j \in DOMAIN new, new[j] > 0
            PROVE  /\ new[j] \in kept
                   /\ \A g \in DOMAIN files : \A i \in DOMAIN files[g].lines :
                        files[g].lines[i] = new[j] => files[g].ino = files[f].ino /\ i = n + j
        BY <4>3, <3>d, <3>o
      <4>4. ASSUME NEW g \in DOMAIN files, files[g].ino = files[f].ino
            PROVE  /\ n + Len(new) <= Terminated(files[g].lines)
                   /\ \A j \in DOMAIN new : files[g].lines[n + j] = new[j]
        <5>1. g = f /\ files[g].lines = s
          BY <4>4, <3>o DEF s
        <5> QED BY <5>1, <3>d, <2>c, <2>T
      <4> QED BY <4>1, <4>2, <4>3, <4>4
    <3>5. Final'
      <4> SUFFICES ASSUME ix.final PROVE Final'
        BY <2>1 DEF Final
      <4>1. /\ ix.seen = [g \in DOMAIN files |-> [n |-> Len(files[g].lines), ino |-> files[g].ino]]
            /\ DOMAIN cursor \subseteq DOMAIN files
            /\ \A g \in DOMAIN files \ ix.todo : Complete(g)
        BY <3>i, <1>u DEF Indexing, Final
      <4>2. ix.seen[f].n = Len(s) /\ ix.seen[f].ino = files[f].ino
        BY <4>1, <1>2 DEF s
      <4>3. ASSUME new = <<>> PROVE Complete(f)
        <5>1. Terminated(s) <= Indexed(f)
          BY <4>3, <2>c DEF n
        <5>2. Indexed(f) > 0 => cursor[f].ino = files[f].ino
          BY <4>2, <3>i DEF Mistaken
        <5> QED BY <5>1, <5>2, <3>i, <1>i, <1>2, IndexedWhole DEF Indexing, s
      <4>4. \A g \in DOMAIN files : Complete(g) => Complete(g)'
        BY <1>u DEF Complete
      <4>6. First(ix'.todo) = f
        BY <2>1 DEF f
      <4>7. new = <<>> => Complete(First(ix.todo))'
        BY <4>3, <4>4, <4>6, <1>2, <1>u, <2>1 DEF Complete
      <4>8. new # <<>> => n + Len(new) = Terminated(s)
        BY <2>c
      <4>9. \A g \in DOMAIN files \ ix.todo : Complete(g)'
        BY <4>1, <4>4
      <4> QED BY <4>1, <4>6, <4>7, <4>8, <4>9, <2>1, <1>u DEF Final, Busy, s, Terminated, Ragged
    <3> QED BY <3>1, <3>2, <3>3, <3>4, <3>5 DEF Indexing
  <2> QED BY <2>2, <2>3, <2>4, <1>u, IndexerKeeps
<1> QED BY <1>1, <1>2

(* The rows and the cursor of what was read are inserted. *)
LEMMA InsertBatchKeeps ==
  ASSUME IInv, InsertBatch
  PROVE  IInv'
<1> DEFINE f == First(ix.todo)
           n == ix.from + Len(ix.batch)
           cur == [n |-> n, ino |-> ix.ino]
           Row0(i) == [file |-> f, off |-> ix.from + i, rec |-> ix.batch[i]]
           Rows == {Row0(i) : i \in {j \in DOMAIN ix.batch : ix.batch[j] # Junk}}
<1>u. /\ ix.pc = "insert" /\ rows' = rows \cup Rows
      /\ cursor' = [g \in DOMAIN cursor \cup {f} |-> IF g = f THEN cur ELSE cursor[g]]
      /\ ix' = [ix EXCEPT !.pc = "fold"]
      /\ UNCHANGED <<queue, logger, hand, active, day, files, born, kept, offered, lost, fooled>>
  BY DEF InsertBatch, logVars
<1>i. TypeOK /\ Passing /\ Closed
  BY DEF IInv
<1>t. f \in ix.todo /\ f \in DOMAIN ix.seen /\ f \in Name
  <2>0. ix.todo # {}
    BY <1>u, <1>i DEF Passing, Busy
  <2>1. f \in ix.todo
    BY <2>0, <1>i, PassParts, FirstIn
  <2> QED BY <2>1, <1>i, PassParts DEF Passing
<1>p. /\ ix.from \in Nat /\ ix.batch \in Seq(Line) /\ Len(ix.batch) \in Nat
      /\ DOMAIN ix.batch = 1 .. Len(ix.batch) /\ n \in Nat
      /\ \A j \in DOMAIN ix.batch : ix.batch[j] \in Line
  <2>1. ix.from \in Nat /\ ix.batch \in Seq(Line)
    BY <1>i, PassParts
  <2> QED BY <2>1
<1> HIDE DEF f, n
<1>c. cur.n = n /\ cur.ino = ix.ino /\ cur \in Cursor
  <2>1. ix.ino \in Name \cup {NoFile}
    BY <1>i DEF TypeOK, Pass
  <2> QED BY <2>1, <1>p DEF Cursor
<1> HIDE DEF cur
<1>1. /\ ix' \in Pass /\ ix'.pc = "fold" /\ ix'.seen = ix.seen /\ ix'.todo = ix.todo
      /\ ix'.final = ix.final /\ ix'.ok = ix.ok
  BY <1>u, <1>i, PassMoves
<1>2. /\ DOMAIN cursor' = DOMAIN cursor \cup {f} /\ cursor'[f] = cur
      /\ \A g \in DOMAIN cursor : g # f => cursor'[g] = cursor[g]
      /\ cursor' \in [DOMAIN cursor' -> Cursor] /\ DOMAIN cursor' \subseteq Name
  <2>1. DOMAIN cursor \subseteq Name /\ \A g \in DOMAIN cursor : cursor[g] \in Cursor
    BY <1>i DEF TypeOK
  <2>2. /\ DOMAIN cursor' = DOMAIN cursor \cup {f} /\ cursor'[f] = cur
        /\ \A g \in DOMAIN cursor : g # f => cursor'[g] = cursor[g]
        /\ cursor' = [g \in DOMAIN cursor' |-> cursor'[g]]
    BY <1>u
  <2>3. \A g \in DOMAIN cursor' : cursor'[g] \in Cursor
    BY <2>1, <2>2, <1>c
  <2> QED BY <2>1, <2>2, <2>3, <1>t
<1>r. /\ \A j \in DOMAIN ix.batch : ix.batch[j] # Junk =>
           Row0(j).file = f /\ Row0(j).off = ix.from + j /\ Row0(j).rec = ix.batch[j] /\ Row0(j) \in Row
      /\ \A x \in Rows : \E j \in DOMAIN ix.batch : ix.batch[j] # Junk /\ x = Row0(j)
      /\ \A j \in DOMAIN ix.batch : ix.batch[j] # Junk => Row0(j) \in Rows
  <2>1. \A j \in DOMAIN ix.batch : ix.from + j \in Nat
    BY <1>p
  <2>2. \A j \in DOMAIN ix.batch : ix.batch[j] # Junk => ix.batch[j] \in Nat
    BY <1>p DEF Line
  <2> QED BY <2>1, <2>2, <1>t DEF Row
<1> HIDE DEF Rows
<1>3. TypeOK'
  <2>1. rows' \subseteq Row
    <3>1. rows \subseteq Row
      BY <1>i DEF TypeOK
    <3>2. Rows \subseteq Row
      <4> HIDE DEF Row0
      <4> QED BY <1>r
    <3> QED BY <3>1, <3>2, <1>u
  <2>2. fooled' \in BOOLEAN
    BY <1>u, <1>i DEF TypeOK
  <2> QED BY <2>1, <2>2, <1>1, <1>2, <1>u, <1>i, IndexerTypes
<1>4. Passing' /\ Closed'
  BY <1>1, <1>2, <1>t, <1>u, <1>i DEF Passing, Closed, Busy
<1>5. ASSUME ~fooled PROVE Indexing'
  <2>i. Indexing
    BY <1>5 DEF IInv
  <2>b. /\ ix.from = Indexed(f) /\ (ix.from > 0 => cursor[f].ino = ix.ino)
        /\ ix.ino \in Name /\ Called(f, ix.ino, born) /\ (f[2] = 0 => ix.ino \notin Known)
        /\ \A j \in DOMAIN ix.batch : ix.batch[j] # Torn
        /\ \A j \in DOMAIN ix.batch : ix.batch[j] > 0 =>
             /\ ix.batch[j] \in kept
             /\ \A g \in DOMAIN files : \A i \in DOMAIN files[g].lines :
                  files[g].lines[i] = ix.batch[j] => files[g].ino = ix.ino /\ i = ix.from + j
        /\ \A g \in DOMAIN files : files[g].ino = ix.ino =>
             /\ n <= Terminated(files[g].lines)
             /\ \A j \in DOMAIN ix.batch : files[g].lines[ix.from + j] = ix.batch[j]
    BY <2>i, <1>u DEF Indexing, Batch, f, n
  <2>j. \A j \in DOMAIN ix.batch : ix.batch[j] # Junk => ix.batch[j] > 0
    <3> SUFFICES ASSUME NEW j \in DOMAIN ix.batch, ix.batch[j] # Junk PROVE ix.batch[j] > 0
      OBVIOUS
    <3>1. ix.batch[j] \in Nat /\ ix.batch[j] # 0
      BY <1>p, <2>b DEF Line, Torn
    <3> QED BY <3>1
  <2>n. \A j \in DOMAIN ix.batch : ix.from + j \in 1 .. n
    BY <1>p DEF n
  \* the rows of before, and the new ones
  <2>x. ASSUME NEW x \in rows
        PROVE  /\ x.file \in DOMAIN cursor /\ x.off \in 1 .. cursor[x.file].n
               /\ x.rec \in kept /\ x.rec > 0
               /\ x.file = f => ix.from = cursor[f].n /\ ix.from > 0 /\ cursor[f].ino = ix.ino
    <3>1. /\ x.file \in DOMAIN cursor /\ x.off \in 1 .. cursor[x.file].n
          /\ x.rec \in kept /\ x.rec > 0
      BY <2>i DEF Indexing, Faithful
    <3>2. x.file = f => ix.from = cursor[f].n /\ ix.from > 0
      BY <3>1, <2>b, <1>p DEF Indexed
    <3> QED BY <3>1, <3>2, <2>b
  <2>y. ASSUME NEW x \in Rows
        PROVE  \E j \in DOMAIN ix.batch : /\ ix.batch[j] > 0 /\ x.file = f /\ x.off = ix.from + j
                                          /\ x.rec = ix.batch[j]
    BY <1>r, <2>j
  <2> HIDE DEF Row0
  <2>1. Faithful'
    <3>1. ASSUME NEW x \in rows'
          PROVE  /\ x.file \in DOMAIN cursor' /\ x.off \in 1 .. cursor'[x.file].n
                 /\ x.rec \in kept /\ x.rec > 0
                 /\ \A g \in DOMAIN files : \A i \in DOMAIN files[g].lines :
                      files[g].lines[i] = x.rec => files[g].ino = cursor'[x.file].ino /\ i = x.off
      <4>1. CASE x \in rows
        <5>1. /\ x.file \in DOMAIN cursor /\ x.off \in 1 .. cursor[x.file].n
              /\ x.rec \in kept /\ x.rec > 0
              /\ x.file = f => ix.from = cursor[f].n /\ ix.from > 0 /\ cursor[f].ino = ix.ino
          BY <4>1, <2>x
        <5>2. x.off \in 1 .. cursor'[x.file].n
          <6>1. CASE x.file = f
            <7>1. x.off \in 1 .. ix.from
              BY <5>1, <6>1
            <7>2. x.off \in 1 .. n
              BY <7>1, <1>p DEF n
            <7> QED BY <7>2, <6>1, <1>2, <1>c
          <6>2. CASE x.file # f
            BY <6>2, <5>1, <1>2
          <6> QED BY <6>1, <6>2
        <5>3. cursor'[x.file].ino = cursor[x.file].ino
          BY <5>1, <1>2, <1>c
        <5>4. \A g \in DOMAIN files : \A i \in DOMAIN files[g].lines :
                files[g].lines[i] = x.rec => files[g].ino = cursor[x.file].ino /\ i = x.off
          BY <4>1, <2>i DEF Indexing, Faithful
        <5> QED BY <5>1, <5>2, <5>3, <5>4, <1>2
      <4>2. CASE x \in Rows
        <5>1. PICK j \in DOMAIN ix.batch : /\ ix.batch[j] > 0 /\ x.file = f /\ x.off = ix.from + j
                                           /\ x.rec = ix.batch[j]
          BY <4>2, <2>y
        <5>2. x.file \in DOMAIN cursor' /\ cursor'[x.file].n = n /\ cursor'[x.file].ino = ix.ino
          BY <5>1, <1>2, <1>c
        <5>3. x.off \in 1 .. n
          BY <5>1, <2>n
        <5>4. /\ x.rec \in kept /\ x.rec > 0
              /\ \A g \in DOMAIN files : \A i \in DOMAIN files[g].lines :
                      files[g].lines[i] = x.rec => files[g].ino = ix.ino /\ i = x.off
          BY <5>1, <2>b
        <5> QED BY <5>2, <5>3, <5>4
      <4> QED BY <4>1, <4>2, <1>u
    <3> QED BY <3>1, <1>u DEF Faithful
  <2>2. Counted'
    <3> SUFFICES ASSUME NEW d \in DOMAIN cursor', NEW g \in DOMAIN files,
                        cursor'[d].n > 0, files[g].ino = cursor'[d].ino
                 PROVE  /\ cursor'[d].n <= Terminated(files[g].lines)
                        /\ \A i \in 1 .. cursor'[d].n : files[g].lines[i] > 0 =>
                             [file |-> d, off |-> i, rec |-> files[g].lines[i]] \in rows'
                        /\ \A x \in rows' : x.file = d => files[g].lines[x.off] = x.rec
      <4>1. files' = files
        BY <1>u
      <4> QED BY <4>1 DEF Counted, Terminated, Ragged
    <3>1. CASE d # f
      <4>1. d \in DOMAIN cursor /\ cursor'[d] = cursor[d]
        BY <3>1, <1>2
      <4>2. /\ cursor[d].n <= Terminated(files[g].lines)
            /\ \A i \in 1 .. cursor[d].n : files[g].lines[i] > 0 =>
                 [file |-> d, off |-> i, rec |-> files[g].lines[i]] \in rows
            /\ \A x \in rows : x.file = d => files[g].lines[x.off] = x.rec
        BY <4>1, <2>i DEF Indexing, Counted
      <4>3. \A x \in rows' : x.file = d => x \in rows
        BY <3>1, <2>y, <1>u
      <4>4. rows \subseteq rows'
        BY <1>u
      <4> QED BY <4>1, <4>2, <4>3, <4>4
    <3>2. CASE d = f
      <4>g. cursor'[d].n = n /\ files[g].ino = ix.ino
        BY <3>2, <1>2, <1>c
      <4>1. n <= Terminated(files[g].lines) /\ \A j \in DOMAIN ix.batch : files[g].lines[ix.from + j] = ix.batch[j]
        BY <4>g, <2>b
      <4>o. ASSUME ix.from > 0
            PROVE  /\ \A i \in 1 .. ix.from : files[g].lines[i] > 0 =>
                        [file |-> f, off |-> i, rec |-> files[g].lines[i]] \in rows
                   /\ \A x \in rows : x.file = f => files[g].lines[x.off] = x.rec
        <5>1. f \in DOMAIN cursor /\ cursor[f].n = ix.from /\ cursor[f].ino = ix.ino
          BY <4>o, <2>b DEF Indexed
        <5> QED BY <5>1, <4>o, <4>g, <2>i DEF Indexing, Counted
      <4>2. ASSUME NEW i \in 1 .. n, files[g].lines[i] > 0
            PROVE  [file |-> f, off |-> i, rec |-> files[g].lines[i]] \in rows'
        <5>1. CASE i <= ix.from
          <6>1. i \in 1 .. ix.from /\ ix.from > 0
            BY <5>1, <1>p
          <6> QED BY <6>1, <4>o, <4>2, <1>u
        <5>2. CASE i > ix.from
          <6> DEFINE j == i - ix.from
          <6>1. j \in DOMAIN ix.batch /\ ix.from + j = i
            BY <5>2, <1>p DEF n
          <6> HIDE DEF j
          <6>2. files[g].lines[i] = ix.batch[j] /\ ix.batch[j] # Junk
            BY <6>1, <4>1, <4>2 DEF Junk
          <6>3. Row0(j) \in rows'
            BY <6>1, <6>2, <1>r, <1>u
          <6>4. Row0(j) = [file |-> f, off |-> i, rec |-> files[g].lines[i]]
            BY <6>1, <6>2 DEF Row0
          <6> QED BY <6>3, <6>4
        <5> QED BY <5>1, <5>2, <1>p
      <4>3. ASSUME NEW x \in rows', x.file = f PROVE files[g].lines[x.off] = x.rec
        <5>1. CASE x \in rows
          BY <5>1, <4>3, <4>o, <2>x
        <5>2. CASE x \in Rows
          BY <5>2, <2>y, <4>1
        <5> QED BY <5>1, <5>2, <1>u
      <4> QED BY <4>g, <4>1, <4>2, <4>3, <3>2
    <3> QED BY <3>1, <3>2
  <2>k. Known' = Known
    BY <1>1, <1>2, <1>t DEF Known
  <2>3. Fresh'
    <3>1. ASSUME NEW d \in DOMAIN cursor', cursor'[d].n > 0 PROVE Called(d, cursor'[d].ino, born)
      <4>1. CASE d = f
        BY <4>1, <2>b, <1>2, <1>c
      <4>2. CASE d # f
        BY <4>2, <3>1, <2>i, <1>2 DEF Indexing, Fresh
      <4> QED BY <4>1, <4>2
    <3> QED BY <3>1, <2>k, <2>i, <1>u DEF Indexing, Fresh
  <2>4. Single'
    <3> SUFFICES ASSUME NEW a \in DOMAIN cursor', a[2] = 0, cursor'[a].n > 0, cursor'[a].ino \in Known
                 PROVE  Noticed(a)'
      BY <2>k DEF Single
    <3>1. a # f
      BY <2>b, <1>2, <1>c
    <3>2. a \in DOMAIN cursor /\ cursor'[a] = cursor[a]
      BY <3>1, <1>2
    <3>3. Noticed(a)
      BY <3>2, <2>i, <1>u DEF Indexing, Single
    <3>4. a \in ix.todo /\ ix.seen[a].ino # cursor[a].ino
      BY <3>3, <1>u DEF Noticed
    <3> QED BY <3>1, <3>2, <3>4, <1>1 DEF Noticed, f
  <2>5. Batch'
    BY <1>1 DEF Batch
  <2>6. Final'
    <3> SUFFICES ASSUME ix.final PROVE Final'
      BY <1>1 DEF Final
    <3>1. /\ ix.seen = [g \in DOMAIN files |-> [n |-> Len(files[g].lines), ino |-> files[g].ino]]
          /\ DOMAIN cursor \subseteq DOMAIN files
          /\ \A g \in DOMAIN files \ ix.todo : Complete(g)
          /\ ix.ino = files[f].ino /\ n = Terminated(files[f].lines)
      BY <2>i, <1>u DEF Indexing, Final, f, n
    <3>2. f \in DOMAIN files
      BY <3>1, <1>t
    <3>3. \A g \in DOMAIN files \ ix.todo : Complete(g)'
      <4> SUFFICES ASSUME NEW g \in DOMAIN files \ ix.todo PROVE Complete(g)'
        OBVIOUS
      <4>1. Complete(g) /\ g # f
        BY <3>1, <1>t
      <4>2. g \in DOMAIN cursor' => g \in DOMAIN cursor /\ cursor'[g] = cursor[g]
        BY <4>1, <1>2
      <4> QED BY <4>1, <4>2, <1>u DEF Complete
    <3>4. Complete(First(ix.todo))'
      <4>0. First(ix'.todo) = f
        BY <1>1 DEF f
      <4> DEFINE s == files[f].lines
      <4>1. s \in Seq(Line)
        BY <3>2, <1>i, FileParts
      <4>2. n > 0 => \A i \in 1 .. n : s[i] > 0 => [file |-> f, off |-> i, rec |-> s[i]] \in rows'
        <5> SUFFICES ASSUME n > 0
                     PROVE  \A i \in 1 .. n : s[i] > 0 => [file |-> f, off |-> i, rec |-> s[i]] \in rows'
          OBVIOUS
        <5>1. f \in DOMAIN cursor' /\ cursor'[f].n = n /\ files'[f].ino = cursor'[f].ino /\ f \in DOMAIN files'
          BY <3>1, <3>2, <1>2, <1>c, <1>u
        <5>2. \A i \in 1 .. n : files'[f].lines[i] > 0 =>
                [file |-> f, off |-> i, rec |-> files'[f].lines[i]] \in rows'
          BY <5>1, <2>2 DEF Counted
        <5> QED BY <5>2, <1>u
      <4>3. \A i \in DOMAIN s : s[i] > 0 => i \in 1 .. n
        <5> HIDE DEF s
        <5>1. /\ Terminated(s) \in Nat /\ Len(s) \in Nat /\ DOMAIN s = 1 .. Len(s) /\ Len(s) <= Terminated(s) + 1
              /\ Terminated(s) < Len(s) => s[Len(s)] = Torn
          BY <4>1, TerminatedIs
        <5>2. n = Terminated(s)
          BY <3>1 DEF s
        <5> SUFFICES ASSUME NEW i \in DOMAIN s, s[i] > 0, i > Terminated(s) PROVE FALSE
          BY <5>1, <5>2
        <5>3. i = Len(s) /\ Terminated(s) < Len(s)
          BY <5>1
        <5> QED BY <5>1, <5>3 DEF Torn
      <4>4. \A i \in DOMAIN s : s[i] > 0 => [file |-> f, off |-> i, rec |-> s[i]] \in rows'
        BY <4>2, <4>3, <1>p
      <4>5. cursor'[f].ino = files[f].ino
        BY <3>1, <1>2, <1>c
      <4> QED BY <4>0, <4>4, <4>5, <1>u DEF Complete
    <3>5. DOMAIN cursor' \subseteq DOMAIN files
      BY <3>1, <3>2, <1>2
    <3> QED BY <3>1, <3>3, <3>4, <3>5, <1>1, <1>u DEF Final
  <2> QED BY <2>1, <2>2, <2>3, <2>4, <2>5, <2>6 DEF Indexing
<1> QED BY <1>3, <1>4, <1>5, <1>u, IndexerKeeps

----------------------------------------------------------------------------
(* The specification.                                                      *)

(* The invariant holds when the process starts on an empty directory. *)
LEMMA InitIInv == Init => IInv
<1> SUFFICES ASSUME Init PROVE IInv
  OBVIOUS
<1>u. /\ queue = <<>> /\ logger = "run" /\ hand = Idle /\ active = NoFile /\ day = 0 /\ born = 0
      /\ files = Nothing /\ cursor = Nothing /\ rows = {} /\ ix = NoPass
      /\ offered = 0 /\ kept = {} /\ lost = {} /\ fooled = FALSE
  BY DEF Init
<1>n. DOMAIN Nothing = {} /\ Nothing = [f \in {} |-> 0]
  BY DEF Nothing
<1>p. /\ NoPass \in Pass /\ NoPass.pc = "idle" /\ NoPass.seen = Nothing /\ NoPass.todo = {}
      /\ NoPass.final = FALSE
  <2>1. NoPass \in Pass
    BY NoPassIs
  <2> QED BY <2>1 DEF NoPass
<1>h. hand \in Hand /\ hand.rec = 0 /\ hand.at = "idle"
  BY <1>u DEF Idle, Hand
<1>1. TypeOK
  <2>1. DOMAIN files = {} /\ DOMAIN cursor = {} /\ files \in [{} -> File] /\ cursor \in [{} -> Cursor]
    BY <1>u, <1>n
  <2>2. queue \in Seq(Nat) /\ offered \in Nat /\ day \in Nat /\ born \in Nat
    BY <1>u
  <2>3. DOMAIN files \subseteq Name /\ DOMAIN cursor \subseteq Name /\ rows \subseteq Row
    BY <2>1, <1>u
  <2>4. files \in [DOMAIN files -> File] /\ cursor \in [DOMAIN cursor -> Cursor]
    BY <2>1
  <2>5. active \in Name \cup {NoFile} /\ ix \in Pass /\ kept \subseteq Nat /\ lost \subseteq Nat
    BY <1>u, <1>p
  <2>6. logger \in {"run", "drain", "closed"} /\ fooled \in BOOLEAN
    BY <1>u
  <2> QED BY <2>2, <2>3, <2>4, <2>5, <2>6, <1>h DEF TypeOK
<1>q. ToSet(queue) = {} /\ DOMAIN queue = {}
  BY <1>u DEF ToSet
<1>2. Apart /\ Accounted
  <2>1. 1 .. offered = {}
    BY <1>u
  <2> QED BY <2>1, <1>q, <1>h, <1>u DEF Apart, Accounted
<1>d. DOMAIN files = {} /\ DOMAIN cursor = {} /\ Known = {}
  BY <1>u, <1>n, <1>p DEF Known
<1>3. Sound /\ Writing
  BY <1>d, <1>h, <1>u DEF Sound, Writing
<1>4. Passing /\ Closed
  BY <1>p, <1>u DEF Passing, Closed, Busy
<1>5. Indexing
  <2>1. Faithful /\ Counted /\ Fresh /\ Single
    BY <1>d, <1>u DEF Faithful, Counted, Fresh, Single
  <2>2. Batch /\ Final
    BY <1>p, <1>u DEF Batch, Final
  <2> QED BY <2>1, <2>2 DEF Indexing
<1> QED BY <1>1, <1>2, <1>3, <1>4, <1>5 DEF IInv

(* A step that changes nothing. *)
LEMMA StutterKeeps ==
  ASSUME IInv, UNCHANGED vars
  PROVE  IInv'
<1>u. UNCHANGED <<queue, logger, hand, active, day, files, born, kept, offered, lost, rows, cursor, ix, fooled>>
  BY DEF vars
<1>i. TypeOK /\ Apart /\ Accounted /\ Sound /\ Writing
  BY DEF IInv
<1>1. TypeOK' /\ Apart' /\ Accounted' /\ Writing'
  BY <1>u, <1>i DEF TypeOK, Apart, Accounted, Writing, Ragged
<1>2. Sound' /\ Grows
  BY <1>u, <1>i, QuietFiles
<1> QED BY <1>1, <1>2, <1>u, WriterKeeps

(* Every step keeps the invariant. *)
LEMMA StepIInv == IInv /\ [Next]_vars => IInv'
<1> SUFFICES ASSUME IInv, [Next]_vars PROVE IInv'
  OBVIOUS
<1>1. CASE Offer
  BY <1>1, OfferKeeps
<1>2. CASE WriteFails
  BY <1>2, WriteFailsKeeps
<1>3. CASE Take
  BY <1>3, TakeKeeps
<1>4. CASE Reopen
  BY <1>4, ReopenKeeps
<1>5. CASE WriteBytes
  BY <1>5, WriteBytesKeeps
<1>6. CASE WriteRest
  BY <1>6, WriteRestKeeps
<1>7. CASE \E renamed \in BOOLEAN : RotateSize(renamed)
  BY <1>7, RotateKeeps
<1>8. CASE Sweep \/ Drained
  BY <1>8, SweepKeeps
<1>9. CASE NextDay \/ Shutdown
  BY <1>9, ClockKeeps
<1>10. CASE \E final \in BOOLEAN : Reconcile(final)
  BY <1>10, ReconcileKeeps
<1>11. CASE PassFails \/ SyncDone
  BY <1>11, EndKeeps
<1>12. CASE DropVanished
  BY <1>12, DropVanishedKeeps
<1>13. CASE DropSessions \/ FoldBatch \/ SessionSummaries
  BY <1>13, CacheKeeps
<1>14. CASE Rewind
  BY <1>14, RewindKeeps
<1>15. CASE UpToDate
  BY <1>15, UpToDateKeeps
<1>16. CASE AppendFile
  BY <1>16, AppendFileKeeps
<1>17. CASE InsertBatch
  BY <1>17, InsertBatchKeeps
<1>18. CASE NextFile
  BY <1>18, NextFileKeeps
<1>19. CASE Crash
  BY <1>19, CrashKeeps
<1>20. CASE Done \/ UNCHANGED vars
  BY <1>20, StutterKeeps DEF Done
<1> QED BY <1>1, <1>2, <1>3, <1>4, <1>5, <1>6, <1>7, <1>8, <1>9, <1>10, <1>11, <1>12, <1>13,
           <1>14, <1>15, <1>16, <1>17, <1>18, <1>19, <1>20 DEF Next

(* The invariant holds in every state of the log and its index. *)
THEOREM Invariance == Spec => []IInv
BY InitIInv, StepIInv, PTL DEF Spec

(* The types of Logger, Writer and Indexer. *)
THEOREM TypeCorrect == Spec => []TypeOK
<1>1. IInv => TypeOK
  BY DEF IInv
<1> QED BY Invariance, <1>1, PTL

(* Every record that is offered is under way, written or counted, exactly  *)
(* one of the three, through rotations, failures, crashes and the drain.   *)
THEOREM RecordsAreAccounted == Spec => []Accounted
<1>1. IInv => Accounted
  BY DEF IInv
<1> QED BY Invariance, <1>1, PTL

(* The places of the records, in other words. *)
LEMMA LinesAre ==
  \A l : l \in Lines <=> \E f \in DOMAIN files : \E i \in DOMAIN files[f].lines :
                           files[f].lines[i] > 0 /\ l = <<f, i>>
BY DEF Lines

(* After a final pass that succeeded and was not fooled the rows are the   *)
(* records of the files, each at its place, and no other.                  *)
LEMMA FinalIsWhole == IInv => ShutdownIndexed
<1> SUFFICES ASSUME IInv, ix.final, ix.pc = "idle", ix.ok, ~fooled
             PROVE  rows = {[file |-> l[1], off |-> l[2], rec |-> files[l[1]].lines[l[2]]] : l \in Lines}
  BY DEF ShutdownIndexed
<1>i. TypeOK /\ Passing /\ Indexing
  BY DEF IInv
<1>1. DOMAIN cursor \subseteq DOMAIN files /\ \A f \in DOMAIN files : Complete(f)
  <2>1. ix.todo = {}
    BY <1>i DEF Passing
  <2> QED BY <2>1, <1>i DEF Indexing, Final
<1>2. ASSUME NEW x \in rows
      PROVE  \E l \in Lines : x = [file |-> l[1], off |-> l[2], rec |-> files[l[1]].lines[l[2]]]
  <2> DEFINE f == x.file
             i == x.off
  <2>1. f \in DOMAIN cursor /\ i \in 1 .. cursor[f].n /\ x.rec > 0 /\ cursor[f].n \in Nat
    BY <1>i, FileParts DEF Indexing, Faithful
  <2>2. f \in DOMAIN files /\ cursor[f].n > 0 /\ cursor[f].ino = files[f].ino
    BY <2>1, <1>1 DEF Complete
  <2>3. cursor[f].n <= Terminated(files[f].lines) /\ files[f].lines[i] = x.rec
    BY <2>1, <2>2, <1>i DEF Indexing, Counted
  <2>4. files[f].lines \in Seq(Line)
    BY <2>2, <1>i, FileParts
  <2>5. /\ Terminated(files[f].lines) \in Nat /\ Terminated(files[f].lines) <= Len(files[f].lines)
        /\ DOMAIN files[f].lines = 1 .. Len(files[f].lines) /\ Len(files[f].lines) \in Nat
    BY <2>4, TerminatedIs
  <2>6. i \in DOMAIN files[f].lines
    BY <2>1, <2>3, <2>5
  <2>7. <<f, i>> \in Lines
    BY <2>1, <2>2, <2>3, <2>6, LinesAre
  <2>8. x = [file |-> f, off |-> i, rec |-> files[f].lines[i]]
    BY <2>3, <1>i DEF TypeOK, Row
  <2> DEFINE l == <<f, i>>
  <2>9. l[1] = f /\ l[2] = i
    OBVIOUS
  <2> HIDE DEF f, i, l
  <2>10. x = [file |-> l[1], off |-> l[2], rec |-> files[l[1]].lines[l[2]]]
    BY <2>8, <2>9
  <2> QED BY <2>7, <2>10 DEF l
<1>3. ASSUME NEW l \in Lines
      PROVE  [file |-> l[1], off |-> l[2], rec |-> files[l[1]].lines[l[2]]] \in rows
  <2>1. PICK f \in DOMAIN files : \E i \in DOMAIN files[f].lines : files[f].lines[i] > 0 /\ l = <<f, i>>
    BY LinesAre
  <2>2. PICK i \in DOMAIN files[f].lines : files[f].lines[i] > 0 /\ l = <<f, i>>
    BY <2>1
  <2>3. [file |-> f, off |-> i, rec |-> files[f].lines[i]] \in rows
    BY <2>2, <1>1 DEF Complete
  <2>4. l[1] = f /\ l[2] = i
    BY <2>2
  <2> QED BY <2>3, <2>4
<1> QED BY <1>2, <1>3

(* After the shutdown the index is the log (Shutdown, closeRuntimeServices). *)
THEOREM ShutdownIsIndexed == Spec => []ShutdownIndexed
BY Invariance, FinalIsWhole, PTL

(* Between two passes a record is found by its id, once.  The names of a   *)
(* file and what the last pass noticed forbid a row that cannot be read.   *)
LEMMA IdleFinds == IInv => DetailFinds
<1> SUFFICES ASSUME IInv, ix.pc = "idle", ix.ok, ~fooled, NEW l \in Lines, ~Replaced(l[1]),
                    \A x \in rows : x.rec = files[l[1]].lines[l[2]] => ~Overtaken(x)
             PROVE  Detail(files[l[1]].lines[l[2]]) = {l}
  BY DEF DetailFinds
<1>i. TypeOK /\ Passing /\ Sound /\ Indexing
  BY DEF IInv
<1>0. PICK f \in DOMAIN files : \E i \in DOMAIN files[f].lines : files[f].lines[i] > 0 /\ l = <<f, i>>
  BY LinesAre
<1>1. PICK i \in DOMAIN files[f].lines : files[f].lines[i] > 0 /\ l = <<f, i>>
  BY <1>0
<1>l. l[1] = f /\ l[2] = i /\ ~Replaced(f)
  BY <1>1
<1> DEFINE r == files[f].lines[i]
           at == {x \in rows : x.rec = r}
           tail == {k \in Lines : k[2] > Indexed(k[1]) /\ files[k[1]].lines[k[2]] = r}
<1>d. Detail(r) = IF at # {} /\ \A x \in at : Decodes(x) THEN {<<x.file, x.off>> : x \in at}
                  ELSE tail
  BY DEF Detail
<1>s. \A g \in DOMAIN files : \A j \in DOMAIN files[g].lines : files[g].lines[j] = r => g = f /\ j = i
  BY <1>1, <1>i DEF Sound
<1>2. tail \subseteq {l}
  <2> SUFFICES ASSUME NEW k \in Lines, files[k[1]].lines[k[2]] = r PROVE k = l
    OBVIOUS
  <2>1. PICK g \in DOMAIN files : \E j \in DOMAIN files[g].lines : files[g].lines[j] > 0 /\ k = <<g, j>>
    BY LinesAre
  <2>2. PICK j \in DOMAIN files[g].lines : k = <<g, j>>
    BY <2>1
  <2>3. k[1] = g /\ k[2] = j
    BY <2>2
  <2> QED BY <2>2, <2>3, <1>s, <1>1
\* what decodes at the place of a row is the record's own line
<1>3. ASSUME NEW x \in at, Decodes(x) PROVE <<x.file, x.off>> = l
  <2>1. x \in rows /\ x.rec = r /\ x.file \in DOMAIN files
    BY <1>3 DEF Decodes
  <2>2. x.file \in DOMAIN cursor /\ files[f].ino = cursor[x.file].ino /\ i = x.off
    BY <2>1, <1>1, <1>i DEF Indexing, Faithful
  <2>3. ~Replaced(x.file)
    BY <1>3, <2>1, <1>l, <1>1 DEF Overtaken
  <2>4. files[x.file].ino = files[f].ino
    BY <2>1, <2>2, <2>3 DEF Replaced
  <2>5. x.file = f
    BY <2>1, <2>4, <1>1, <1>i DEF Sound
  <2> QED BY <2>2, <2>5, <1>1
<1>4. CASE at # {} /\ \A x \in at : Decodes(x)
  <2>1. {<<x.file, x.off>> : x \in at} = {l}
    BY <1>3, <1>4
  <2> QED BY <2>1, <1>4, <1>d, <1>l
<1>5. CASE i > Indexed(f)
  <2>1. l \in tail
    BY <1>5, <1>l
  <2>2. tail = {l}
    BY <2>1, <1>2
  <2> QED BY <2>2, <1>4, <1>d, <1>l
<1>6. CASE ~(i > Indexed(f))
  <2>n. i \in Nat /\ i > 0
    BY <1>1, <1>i, FileParts
  <2>1. f \in DOMAIN cursor /\ i \in 1 .. cursor[f].n /\ cursor[f].n > 0
    <3>1. f \in DOMAIN cursor
      BY <1>6, <2>n DEF Indexed
    <3>2. cursor[f].n \in Nat /\ Indexed(f) = cursor[f].n
      BY <3>1, <1>i, FileParts DEF Indexed
    <3> QED BY <3>1, <3>2, <1>6, <2>n
  <2>2. cursor[f].ino = files[f].ino
    BY <2>1, <1>l DEF Replaced
  <2>3. [file |-> f, off |-> i, rec |-> r] \in rows
    BY <2>1, <2>2, <1>1, <1>i DEF Indexing, Counted
  <2>4. at # {}
    BY <2>3
  <2>5. ASSUME NEW x \in at PROVE Decodes(x)
    <3>1. x \in rows /\ x.rec = r
      OBVIOUS
    <3>2. x.file \in DOMAIN cursor /\ x.off \in 1 .. cursor[x.file].n
      BY <3>1, <1>i DEF Indexing, Faithful
    <3>3. files[f].ino = cursor[x.file].ino /\ i = x.off
      BY <3>1, <1>i DEF Indexing, Faithful
    <3> DEFINE h == x.file
               c == files[f].ino
    <3>4. cursor[h].n > 0
      BY <3>2, <1>i, FileParts
    <3>5. Called(h, c, born) /\ Called(f, c, born)
      BY <3>2, <3>3, <3>4, <1>i DEF Indexing, Fresh, Sound
    <3>6. \A a \in DOMAIN cursor : a[2] = 0 /\ cursor[a].n > 0 => cursor[a].ino \notin DOMAIN cursor
      <4>1. ix.todo = {}
        BY <1>i DEF Passing
      <4>2. \A a : ~Noticed(a)
        BY <4>1 DEF Noticed
      <4> QED BY <4>2, <1>i DEF Indexing, Single, Known
    <3>7. h \in Name /\ f \in Name
      BY <3>2, <1>i, FileParts
    <3>8. h = f
      <4>1. ~(h[2] = 0 /\ f = c)
        BY <3>2, <3>3, <3>4, <3>6, <2>1
      <4>2. ~(f[2] = 0 /\ h = c)
        BY <2>1, <2>2, <3>2, <3>6
      <4>3. CASE h[2] = 0 /\ f[2] = 0
        BY <4>3, <3>5, <3>7 DEF Called, Name
      <4>4. CASE h = c /\ f = c
        BY <4>4
      <4> QED BY <4>1, <4>2, <4>3, <4>4, <3>5 DEF Called
    <3> QED BY <3>1, <3>3, <3>8, <1>1 DEF Decodes
  <2> QED BY <2>4, <2>5, <1>4
<1> QED BY <1>5, <1>6

(* Detail finds a record that is in a file, at its place. *)
THEOREM DetailIsFound == Spec => []DetailFinds
BY Invariance, IdleFinds, PTL
=============================================================================
