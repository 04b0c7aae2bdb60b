---------------------------- MODULE TaskBoardProofs ----------------------------
(***************************************************************************)
(* Theorems about the task board, for any processes, commands and boards.  *)
(*                                                                         *)
(* What the command of a process knows of the board, and what it is to     *)
(* write, stays true of every task no other command works on.  A step of   *)
(* one command changes only tasks it works on (Step), so that the others   *)
(* are as right about the board as they were (OthersFit).                  *)
(***************************************************************************)
EXTENDS TaskBoard, FiniteSetTheorems, WellFoundedInduction, SequenceTheorems, TLAPS

RowFields == {"status", "parent", "label", "key", "notes", "closed", "obsolete", "mergedInto"}
JobFields == {"op", "foot", "n", "writes", "batch", "task", "target", "label", "parent", "key",
              "reread", "seen", "other", "row", "all"}
Ids == Task \cup {None}

\* Of a board b and the tasks c of two commands: a task is there, as it was read.
Stays(b, c, t) == t \notin c => t \in DOMAIN b
Same(b, c, t, row) == t \notin c => t \in DOMAIN b /\ b[t] = row

IsSeq(s) == s \in Seq({s[i] : i \in 1..Len(s)})

\* What a batch has to do yet.
Waits(b, c, f, j) ==
    /\ IsSeq(j.batch)
    /\ \A i \in 1..Len(j.batch) :
           /\ j.batch[i].task \in j.foot \ f
           /\ j.batch[i].task # j.task
           /\ j.batch[i].target # None => j.batch[i].target \in j.foot \ (f \cup {j.batch[i].task})
           /\ j.batch[i].task \notin c =>
                  j.batch[i].task \in DOMAIN b /\ ~Terminal(b[j.batch[i].task])
    /\ \A i, i2 \in 1..Len(j.batch) : i # i2 => j.batch[i].task # j.batch[i2].task

\* What a command has to write, each part of it still right for the board.
WriteFits(b, c, f, j, i) ==
    LET t == j.writes[i].task
        patch == j.writes[i].patch
    IN  /\ t \in j.foot \ f /\ Stays(b, c, t)
        /\ "parent" \in DOMAIN patch =>
               /\ j.op = "merge" /\ patch.parent = j.target /\ DOMAIN patch = {"parent"}
               /\ t \in Children(j.all, j.task) \ {j.target}
        /\ "notes" \in DOMAIN patch =>
               /\ i = 1 /\ "mergedInto" \notin DOMAIN patch
               /\ t \notin c => b[t].notes \subseteq patch.notes
               /\ IF j.op = "merge" THEN t = j.target ELSE j.n \in patch.notes
        /\ "key" \in DOMAIN patch => j.op = "create" /\ t = j.task /\ patch.key = j.key
        /\ "obsolete" \in DOMAIN patch => i = Len(j.writes) /\ t = j.task
        /\ "status" \in DOMAIN patch =>
               /\ i = Len(j.writes) /\ t = j.task
               /\ t \notin c /\ Terminal(b[t]) /\ patch.status # b[t].status => j.op = "reopen"
        /\ "mergedInto" \in DOMAIN patch =>
               /\ i = Len(j.writes) /\ j.op = "merge" /\ t = j.task /\ patch.mergedInto = j.target
               /\ j.target # None

Writes(b, c, f, j) ==
    /\ IsSeq(j.writes) /\ j.writes # <<>>
    /\ \A i \in 1..Len(j.writes) : WriteFits(b, c, f, j, i)

\* A merge between two tasks; what it read of the board; what it has done of its plan.
Joins(f, j) ==
    /\ j.op = "merge" /\ {j.task, j.target} \subseteq j.foot /\ j.task # j.target /\ j.task \notin f

Known(b, c, f, j) ==
    /\ Same(b, c, j.task, j.seen) /\ Same(b, c, j.target, j.other) /\ j.target \notin f

Moved(x, j) == Children(j.all, j.task) \subseteq x

Snapshot(b, c, x, f, j) ==
    /\ DOMAIN j.all \subseteq Task \ f
    /\ Children(j.all, j.task) \subseteq j.foot
    /\ \A t \in Children(j.all, j.task) : Stays(b, c, t)
    /\ j.task \notin c => \A t \in DOMAIN b \ c : b[t].parent = j.task => t \in Children(j.all, j.task)
    /\ Moved(x, j) \/
         /\ \A t \in DOMAIN b \ (c \cup x) :
                IF t \in DOMAIN j.all THEN b[t].parent = j.all[t].parent
                ELSE t # j.target /\ \A u \in DOMAIN j.all \ c : j.all[u].parent # t
         /\ \A u \in DOMAIN j.all \ c : j.all[u].parent \notin f

Leads(b, c, x, j, S) ==
    /\ j.target \in S /\ S \cap Children(j.all, j.task) \subseteq {j.target}
    /\ \A t \in S \cap (DOMAIN b \ (c \cup x)) : b[t].parent \in S

Halfway(b, c, x, f, j) ==
    /\ Joins(f, j) /\ j.target \notin f
    /\ Stays(b, c, j.task) /\ Stays(b, c, j.target)
    /\ j.target \notin c => b[j.target].parent # j.task
    /\ j.task \notin c => \A t \in DOMAIN b \ c : b[t].parent = j.task =>
           \E i \in 1..Len(j.writes) : j.writes[i].task = t /\ "parent" \in DOMAIN j.writes[i].patch
    /\ j.task \notin c /\ j.target \notin c =>
           \/ b[j.task].notes \subseteq b[j.target].notes
           \/ /\ "notes" \in DOMAIN j.writes[1].patch /\ j.writes[1].task = j.target
              /\ b[j.task].notes \subseteq j.writes[1].patch.notes
    /\ Moved(x, j) \/ \E S \in SUBSET Ids : Leads(b, c, x, j, S)

\* A creation: what has its key is known, or the key is doubtful.
KeyIsFree(b, c, d, j, ts) ==
    \A t \in DOMAIN b \ (c \cup ts) :
        IsOpen(b[t]) /\ b[t].key = j.key => j.key \in {None} \cup d

Creates(f, j) ==
    j.op = "create" /\ j.parent \in Ids \ f /\ (j.parent # None => j.parent \in j.foot)

Fits(b, c, x, d, f, a, j) ==
    /\ DOMAIN j = JobFields
    /\ j.foot \subseteq Task
    /\ a = "idle" => j = NoJob
    /\ Waits(b, c, f, j)
    /\ a = "read" => j.op \in Ops /\ j.task \in j.foot \ f /\ Same(b, c, j.task, j.seen)
    /\ a = "target" => Joins(f, j) /\ ~j.reread /\ Same(b, c, j.task, j.seen)
    /\ a = "all" => Joins(f, j) /\ (~j.reread => Known(b, c, f, j))
    /\ a = "plan" /\ j.op = "merge" => Joins(f, j) /\ Known(b, c, f, j) /\ Snapshot(b, c, x, f, j)
    /\ a = "plan" /\ j.op = "create" =>
           /\ Creates(f, j)
           /\ \A t \in Alike(j.all, j.label) : t \in j.foot \ f /\ Same(b, c, t, j.all[t])
           /\ KeyIsFree(b, c, d, j, Existing(j))
    /\ a = "insert" => Creates(f, j) /\ KeyIsFree(b, c, d, j, {})
    /\ a \in {"writing", "fetched"} =>
           /\ Writes(b, c, f, j)
           /\ j.op = "merge" => Halfway(b, c, x, f, j)
           /\ j.op = "create" => KeyIsFree(b, c, d, j, {j.task})
    /\ a = "fetched" => Same(b, c, j.writes[1].task, j.row)
    /\ a = "clearing" => j.op = "clear" /\ j.foot = Task /\ j.batch = <<>>

\* Of two commands.
Beside(x, d, a, j, a1, j1) ==
    /\ /\ a \in {"plan", "writing", "fetched"} /\ j.op = "merge"
       /\ a1 \in {"plan", "writing", "fetched"} /\ j1.op = "merge"
       => Moved(x, j) \/ Moved(x, j1)
    /\ a # "idle" /\ j.op = "create" /\ a1 # "idle" /\ j1.op = "create" /\ j.key = j1.key
       => j.key \in {None} \cup d

\* Of a board.
Rows(b, c, f) ==
    /\ DOMAIN b \subseteq Task \ f
    /\ \A t \in DOMAIN b \ c : DOMAIN b[t] = RowFields /\ b[t].parent \in Ids \ f

NoCircle(b, ts) ==
    \A t \in ts : \E S \in SUBSET Ids :
        b[t].parent \in S /\ t \notin S /\ \A u \in S \cap ts : b[u].parent \in S

NotesAreKept(b, c, f, g) ==
    /\ DOMAIN g = Task
    /\ \A t \in f : g[t] = {}
    /\ \A t \in DOMAIN b \ c : g[t] \subseteq b[t].notes

KeysAreApart(b, c, d) ==
    \A t, u \in DOMAIN b \ c :
        t # u /\ IsOpen(b[t]) /\ IsOpen(b[u]) /\ b[t].key = b[u].key => b[t].key \in {None} \cup d

BoardInv ==
    /\ fresh \subseteq Task
    /\ DOMAIN at = Process /\ DOMAIN job = Process
    /\ at = [p \in Process |-> at[p]] /\ job = [p \in Process |-> job[p]]
    /\ \A p \in Process : Fits(board, contested, crossed, doubtful, fresh, at[p], job[p])
    /\ \A p, q \in Process : p # q =>
           /\ job[p].foot \cap job[q].foot \subseteq contested
           /\ Beside(crossed, doubtful, at[p], job[p], at[q], job[q])
    /\ Rows(board, contested, fresh)
    /\ NoCircle(board, DOMAIN board \ (contested \cup crossed))
    /\ NotesAreKept(board, contested, fresh, given)
    /\ KeysAreApart(board, contested, doubtful)


\* A sequence is one of what it holds.
LEMMA SeqsAreSeqs ==
    ASSUME NEW S, NEW s \in Seq(S)
    PROVE  IsSeq(s)
<1> DEFINE R == {s[i] : i \in 1..Len(s)}
<1>1. \A i \in 1..Len(s) : s[i] \in R
  OBVIOUS
<1>2. s = [i \in 1..Len(s) |-> s[i]] /\ Len(s) \in Nat
  OBVIOUS
<1>3. s \in Seq(R)
  <2> HIDE DEF R
  <2> QED BY <1>1, <1>2
<1> QED BY <1>3 DEF IsSeq

\* What is left of a sequence without its first.
LEMMA TailOfSeq ==
    ASSUME NEW s, IsSeq(s), s # <<>>
    PROVE  /\ Len(s) \in Nat \ {0} /\ Head(s) = s[1]
           /\ IsSeq(Tail(s)) /\ Len(Tail(s)) = Len(s) - 1
           /\ \A i \in 1..Len(Tail(s)) : Tail(s)[i] = s[i + 1] /\ i + 1 \in 1..Len(s)
           /\ 1 \in 1..Len(s) /\ (Tail(s) = <<>> <=> Len(s) = 1)
<1> DEFINE S == {s[i] : i \in 1..Len(s)}
<1>1. s \in Seq(S)
  BY DEF IsSeq
<1>2. Len(s) \in Nat \ {0} /\ Head(s) = s[1] /\ Len(Tail(s)) = Len(s) - 1 /\ Tail(s) \in Seq(S)
  BY <1>1
<1>3. \A i \in 1..Len(Tail(s)) : Tail(s)[i] = s[i + 1] /\ i + 1 \in 1..Len(s)
  BY <1>1, <1>2
<1>4. IsSeq(Tail(s))
  BY <1>2, SeqsAreSeqs
<1> QED BY <1>1, <1>2, <1>3, <1>4

\* Sequences of none and of one.
LEMMA ShortSeqs ==
    /\ IsSeq(<<>>) /\ Len(<<>>) = 0
    /\ \A w : IsSeq(<<w>>) /\ <<w>> # <<>> /\ Len(<<w>>) = 1 /\ <<w>>[1] = w
<1>1. IsSeq(<<>>) /\ Len(<<>>) = 0
  BY DEF IsSeq
<1>2. ASSUME NEW w PROVE IsSeq(<<w>>) /\ <<w>> # <<>> /\ Len(<<w>>) = 1 /\ <<w>>[1] = w
  <2> DEFINE s == <<w>>
  <2>1. Len(s) = 1 /\ s[1] = w /\ s # <<>>
    OBVIOUS
  <2>2. w \in {s[i] : i \in 1..Len(s)}
    BY <2>1
  <2>3. s \in Seq({s[i] : i \in 1..Len(s)})
    BY <2>2
  <2> QED BY <2>1, <2>3 DEF IsSeq
<1> QED BY <1>1, <1>2

\* SetToSeq lists the members of a finite set.
LEMMA SetToSeqFacts ==
    ASSUME NEW S, IsFiniteSet(S)
    PROVE  /\ SetToSeq(S) \in Seq(S)
           /\ \A s \in S : \E i \in 1..Len(SetToSeq(S)) : SetToSeq(S)[i] = s
<1> DEFINE N == Cardinality(S)
           Q == SetToSeq(S)
<1>1. PICK m \in Nat : ExistsBijection(1..m, S)
  BY FS_NatBijection
<1>2. m = N
  BY <1>1, FS_CountingElements
<1>3. PICK g : g \in Bijection(1..N, S)
  BY <1>1, <1>2 DEF ExistsBijection
<1>4. g \in [1..N -> S] /\ IsInjective(g)
  BY <1>3 DEF Bijection, Injection
<1>5. Q \in [1..N -> S] /\ IsInjective(Q)
  BY <1>4 DEF SetToSeq
<1>6. N \in Nat /\ Cardinality(1..N) = N /\ IsFiniteSet(1..N)
  BY <1>2, FS_Interval
<1>7. Q \in Surjection(1..N, S)
  <2> HIDE DEF Q
  <2>1. Q \in Injection(1..N, S)
    BY <1>5 DEF Injection
  <2> QED BY <2>1, <1>6, FS_Injection
<1>8. Q \in Seq(S) /\ Len(Q) = N
  <2> HIDE DEF Q, N
  <2> QED BY <1>5, <1>6
<1> QED BY <1>7, <1>8 DEF Surjection

Moving(a, j, t) == a = "fetched" /\ j.op = "merge" /\ t \in Children(j.all, j.task) \ {j.target}

\* What a step of a command does to the board: a, j is the command, F what it works on.
Step(b, c, x, d, f, b2, c2, x2, d2, f2, a, j, F) ==
    /\ c \subseteq c2 /\ x \subseteq x2 /\ d \subseteq d2 /\ f2 \subseteq f /\ F \subseteq Task
    /\ \A t \in Task \ (c2 \cup F) :
           /\ t \in DOMAIN b2 <=> t \in DOMAIN b
           /\ t \in DOMAIN b => b2[t] = b[t]
    /\ \A t \in DOMAIN b2 \ c2 :
           \/ t \in DOMAIN b /\ b2[t].parent = b[t].parent
           \/ t \in DOMAIN b /\ Moving(a, j, t) /\ b2[t].parent = j.target /\ j.target \in F \ f
           \/ t \in f /\ b2[t].parent \in (F \cup {None}) \ f
    /\ \A t \in DOMAIN b2 \ c2 :
           IsOpen(b2[t]) /\ b2[t].key \notin {None} \cup d2 =>
               \/ t \in DOMAIN b /\ IsOpen(b[t]) /\ b[t].key = b2[t].key
               \/ a = "fetched" /\ j.op = "create" /\ t = j.task /\ b2[t].key = j.key

\* A step leaves alone what is not contested and not of its command.
LEMMA SameStays ==
    ASSUME NEW b, NEW c, NEW x, NEW d, NEW f, NEW b2, NEW c2, NEW x2, NEW d2, NEW f2, NEW a, NEW j, NEW F,
           Step(b, c, x, d, f, b2, c2, x2, d2, f2, a, j, F), NEW t \in Task, t \in F => t \in c2
    PROVE  /\ Stays(b, c, t) => Stays(b2, c2, t)
           /\ \A row : Same(b, c, t, row) => Same(b2, c2, t, row)
           /\ t \notin c2 => t \notin c /\ (t \in DOMAIN b <=> t \in DOMAIN b2) /\ (t \in DOMAIN b => b2[t] = b[t])
BY DEF Step, Stays, Same

\* After a step of another command: what a batch has to do is there to be done,
LEMMA OthersWait ==
    ASSUME NEW b, NEW c, NEW x, NEW d, NEW f, NEW b2, NEW c2, NEW x2, NEW d2, NEW f2, NEW a, NEW j, NEW F,
           Step(b, c, x, d, f, b2, c2, x2, d2, f2, a, j, F),
           NEW j1, j1.foot \subseteq Task, j1.foot \cap F \subseteq c2, Waits(b, c, f, j1)
    PROVE  Waits(b2, c2, f2, j1)
<1>1. f2 \subseteq f
  BY DEF Step
<1>2. \A t \in j1.foot : t \notin c2 => t \notin c /\ (t \in DOMAIN b => t \in DOMAIN b2 /\ b2[t] = b[t])
  BY SameStays
<1> QED BY <1>1, <1>2 DEF Waits

\* the writes of a command fit,
LEMMA OthersWrite ==
    ASSUME NEW b, NEW c, NEW x, NEW d, NEW f, NEW b2, NEW c2, NEW x2, NEW d2, NEW f2, NEW a, NEW j, NEW F,
           Step(b, c, x, d, f, b2, c2, x2, d2, f2, a, j, F),
           NEW j1, j1.foot \subseteq Task, j1.foot \cap F \subseteq c2, Writes(b, c, f, j1)
    PROVE  Writes(b2, c2, f2, j1)
<1>1. f2 \subseteq f
  BY DEF Step
<1>2. \A t \in j1.foot : t \notin c2 => t \notin c /\ (t \in DOMAIN b => t \in DOMAIN b2 /\ b2[t] = b[t])
  BY SameStays
<1>3. ASSUME NEW i, WriteFits(b, c, f, j1, i) PROVE WriteFits(b2, c2, f2, j1, i)
  BY <1>1, <1>2, <1>3 DEF WriteFits, Stays
<1> QED BY <1>3 DEF Writes

\* the children a merge has read are those there are,
LEMMA OthersSnapshot ==
    ASSUME NEW b, NEW c, NEW x, NEW d, NEW f, NEW b2, NEW c2, NEW x2, NEW d2, NEW f2, NEW a, NEW j, NEW F,
           Step(b, c, x, d, f, b2, c2, x2, d2, f2, a, j, F),
           NEW j1, j1.foot \subseteq Task, j1.foot \cap F \subseteq c2, Joins(f, j1), j1.target \notin f,
           Beside(x, d, a, j, "plan", j1), Snapshot(b, c, x, f, j1)
    PROVE  Snapshot(b2, c2, x2, f2, j1)
<1>0. c \subseteq c2 /\ x \subseteq x2 /\ f2 \subseteq f
  BY DEF Step
<1>1. DOMAIN j1.all \subseteq Task \ f2 /\ Children(j1.all, j1.task) \subseteq j1.foot
  BY <1>0 DEF Snapshot
<1>2. \A t \in Children(j1.all, j1.task) : Stays(b2, c2, t)
  BY <1>1, SameStays DEF Snapshot
<1>3. ASSUME j1.task \notin c2, NEW t \in DOMAIN b2 \ c2, b2[t].parent = j1.task
      PROVE  t \in Children(j1.all, j1.task)
  <2>1. j1.task \in j1.foot /\ j1.task \notin F /\ j1.task # None
    BY <1>3, NoneIsNothing DEF Joins
  <2>2. t \in DOMAIN b /\ b2[t].parent = b[t].parent
    BY <1>3, <2>1 DEF Step
  <2> QED BY <1>0, <1>3, <2>2 DEF Snapshot
<1>4. ASSUME ~Moved(x2, j1)
      PROVE  /\ \A t \in DOMAIN b2 \ (c2 \cup x2) :
                    IF t \in DOMAIN j1.all THEN b2[t].parent = j1.all[t].parent
                    ELSE t # j1.target /\ \A u \in DOMAIN j1.all \ c2 : j1.all[u].parent # t
             /\ \A u \in DOMAIN j1.all \ c2 : j1.all[u].parent \notin f2
  <2>1. ~Moved(x, j1)
    BY <1>0, <1>4 DEF Moved
  <2>2. /\ \A t \in DOMAIN b \ (c \cup x) :
                    IF t \in DOMAIN j1.all THEN b[t].parent = j1.all[t].parent
                    ELSE t # j1.target /\ \A u \in DOMAIN j1.all \ c : j1.all[u].parent # t
        /\ \A u \in DOMAIN j1.all \ c : j1.all[u].parent \notin f
    BY <2>1 DEF Snapshot
  <2>3. a = "fetched" /\ j.op = "merge" => Moved(x, j)
    BY <2>1 DEF Beside, Joins
  <2>4. ASSUME NEW t \in DOMAIN b2 \ (c2 \cup x2)
        PROVE  IF t \in DOMAIN j1.all THEN b2[t].parent = j1.all[t].parent
               ELSE t # j1.target /\ \A u \in DOMAIN j1.all \ c2 : j1.all[u].parent # t
    <3>1. ~Moving(a, j, t)
      BY <2>3, <2>4, <1>0 DEF Moving, Moved
    <3>2. CASE t \in DOMAIN b /\ b2[t].parent = b[t].parent
      BY <3>2, <2>2, <2>4, <1>0
    <3>3. CASE t \in f
      BY <3>3, <2>2, <1>0 DEF Snapshot
    <3> QED BY <3>1, <3>2, <3>3 DEF Step
  <2> QED BY <2>2, <2>4, <1>0
<1> QED BY <1>1, <1>2, <1>3, <1>4 DEF Snapshot

\* a set that leads up from a target still does, without the ids not made yet,
LEMMA LeadStays ==
    ASSUME NEW b, NEW c, NEW x, NEW d, NEW f, NEW b2, NEW c2, NEW x2, NEW d2, NEW f2, NEW a, NEW j, NEW F,
           Step(b, c, x, d, f, b2, c2, x2, d2, f2, a, j, F), Rows(b, c, f),
           NEW j1, j1.target \notin f, NEW S \in SUBSET Ids, Leads(b, c, x, j1, S),
           \A t \in S \ {j1.target} : t \notin x2 => ~Moving(a, j, t),
           Moving(a, j, j1.target) => j1.target \in x2
    PROVE  Leads(b2, c2, x2, j1, S \ f)
<1>1. ASSUME NEW t \in (S \ f) \cap (DOMAIN b2 \ (c2 \cup x2)) PROVE b2[t].parent \in S \ f
  <2>1. t \in DOMAIN b /\ b2[t].parent = b[t].parent
    BY <1>1 DEF Step
  <2>2. t \in S \cap (DOMAIN b \ (c \cup x))
    BY <1>1, <2>1 DEF Step
  <2> QED BY <2>1, <2>2 DEF Leads, Rows
<1> QED BY <1>1 DEF Leads

\* a merge is as far as it was,
LEMMA OthersHalfway ==
    ASSUME NEW b, NEW c, NEW x, NEW d, NEW f, NEW b2, NEW c2, NEW x2, NEW d2, NEW f2, NEW a, NEW j, NEW F,
           Step(b, c, x, d, f, b2, c2, x2, d2, f2, a, j, F), Rows(b, c, f),
           NEW j1, j1.foot \subseteq Task, j1.foot \cap F \subseteq c2,
           Beside(x, d, a, j, "writing", j1), Halfway(b, c, x, f, j1)
    PROVE  Halfway(b2, c2, x2, f2, j1)
<1>0. c \subseteq c2 /\ x \subseteq x2 /\ f2 \subseteq f
  BY DEF Step
<1>1. Joins(f2, j1) /\ j1.target \notin f2 /\ {j1.task, j1.target} \subseteq j1.foot
  BY <1>0 DEF Halfway, Joins
<1>2. Stays(b2, c2, j1.task) /\ Stays(b2, c2, j1.target)
  BY <1>1, SameStays DEF Halfway
<1>3. \A t \in {j1.task, j1.target} : t \notin c2 => t \notin c /\ t \in DOMAIN b /\ b2[t] = b[t]
  BY <1>1, SameStays DEF Halfway, Stays
<1>4. j1.target \notin c2 => b2[j1.target].parent # j1.task
  BY <1>3 DEF Halfway
<1>5. ASSUME j1.task \notin c2, NEW t \in DOMAIN b2 \ c2, b2[t].parent = j1.task
      PROVE  \E i \in 1..Len(j1.writes) : j1.writes[i].task = t /\ "parent" \in DOMAIN j1.writes[i].patch
  <2>1. j1.task \in j1.foot /\ j1.task \notin F /\ j1.task # None
    BY <1>5, <1>1, NoneIsNothing
  <2>2. t \in DOMAIN b /\ b2[t].parent = b[t].parent
    BY <1>5, <2>1 DEF Step
  <2> QED BY <1>0, <1>5, <2>2 DEF Halfway
<1>6. j1.task \notin c2 /\ j1.target \notin c2 =>
           \/ b2[j1.task].notes \subseteq b2[j1.target].notes
           \/ /\ "notes" \in DOMAIN j1.writes[1].patch /\ j1.writes[1].task = j1.target
              /\ b2[j1.task].notes \subseteq j1.writes[1].patch.notes
  BY <1>3 DEF Halfway
<1>7. ASSUME ~Moved(x2, j1) PROVE \E S \in SUBSET Ids : Leads(b2, c2, x2, j1, S)
  <2>1. ~Moved(x, j1)
    BY <1>0, <1>7 DEF Moved
  <2>2. PICK S \in SUBSET Ids : Leads(b, c, x, j1, S)
    BY <2>1 DEF Halfway
  <2>3. a = "fetched" /\ j.op = "merge" => Moved(x, j)
    BY <2>1 DEF Beside, Halfway, Joins
  <2>4. \A t : Moving(a, j, t) => t \in x2
    BY <2>3, <1>0 DEF Moving, Moved
  <2>5. Leads(b2, c2, x2, j1, S \ f)
    BY <2>2, <2>4, LeadStays DEF Halfway
  <2> QED BY <2>5
<1> QED BY <1>1, <1>2, <1>4, <1>5, <1>6, <1>7 DEF Halfway

\* and the key of a creation is free.
LEMMA OthersKeys ==
    ASSUME NEW b, NEW c, NEW x, NEW d, NEW f, NEW b2, NEW c2, NEW x2, NEW d2, NEW f2, NEW a, NEW j, NEW F,
           Step(b, c, x, d, f, b2, c2, x2, d2, f2, a, j, F),
           NEW j1, NEW a1, a1 # "idle", j1.op = "create", Beside(x, d, a, j, a1, j1),
           NEW ts, KeyIsFree(b, c, d, j1, ts)
    PROVE  KeyIsFree(b2, c2, d2, j1, ts)
<1>1. SUFFICES ASSUME NEW t \in DOMAIN b2 \ (c2 \cup ts), IsOpen(b2[t]), b2[t].key = j1.key,
                      j1.key \notin {None} \cup d2
               PROVE  FALSE
  BY DEF KeyIsFree
<1>2. CASE t \in DOMAIN b /\ IsOpen(b[t]) /\ b[t].key = b2[t].key
  BY <1>1, <1>2 DEF KeyIsFree, Step
<1>3. CASE a = "fetched" /\ j.op = "create" /\ t = j.task /\ b2[t].key = j.key
  BY <1>1, <1>3 DEF Beside, Step
<1> QED BY <1>1, <1>2, <1>3 DEF Step

\* A step of one command leaves what the others know as it was.
LEMMA OthersFit ==
    ASSUME NEW b, NEW c, NEW x, NEW d, NEW f, NEW b2, NEW c2, NEW x2, NEW d2, NEW f2, NEW a, NEW j, NEW F,
           Step(b, c, x, d, f, b2, c2, x2, d2, f2, a, j, F), Rows(b, c, f),
           NEW a1, NEW j1, j1.foot \cap F \subseteq c2, Beside(x, d, a, j, a1, j1),
           Fits(b, c, x, d, f, a1, j1)
    PROVE  Fits(b2, c2, x2, d2, f2, a1, j1)
<1>0. j1.foot \subseteq Task /\ f2 \subseteq f
  BY DEF Fits, Step
<1>1. Waits(b2, c2, f2, j1)
  BY <1>0, OthersWait DEF Fits
<1>2. \A t \in j1.foot : /\ Stays(b, c, t) => Stays(b2, c2, t)
                         /\ \A row : Same(b, c, t, row) => Same(b2, c2, t, row)
  BY <1>0, SameStays
<1>3. Joins(f, j1) => Joins(f2, j1)
  BY <1>0 DEF Joins
<1>4. Joins(f, j1) /\ Known(b, c, f, j1) => Known(b2, c2, f2, j1)
  BY <1>0, <1>2 DEF Known, Joins
<1>5. Creates(f, j1) => Creates(f2, j1)
  BY <1>0 DEF Creates
<1>6. ASSUME a1 = "plan", j1.op = "merge"
      PROVE  Joins(f2, j1) /\ Known(b2, c2, f2, j1) /\ Snapshot(b2, c2, x2, f2, j1)
  <2>1. Joins(f, j1) /\ Known(b, c, f, j1) /\ Snapshot(b, c, x, f, j1) /\ j1.target \notin f
    BY <1>6 DEF Fits, Known
  <2> QED BY <2>1, <1>0, <1>3, <1>4, <1>6, OthersSnapshot
<1>7. ASSUME a1 = "plan", j1.op = "create"
      PROVE  /\ Creates(f2, j1)
             /\ \A t \in Alike(j1.all, j1.label) : t \in j1.foot \ f2 /\ Same(b2, c2, t, j1.all[t])
             /\ KeyIsFree(b2, c2, d2, j1, Existing(j1))
  BY <1>0, <1>2, <1>5, <1>7, OthersKeys DEF Fits
<1>8. a1 = "insert" => Creates(f2, j1) /\ KeyIsFree(b2, c2, d2, j1, {})
  BY <1>5, OthersKeys DEF Fits, Creates
<1>9. ASSUME a1 \in {"writing", "fetched"}
      PROVE  /\ Writes(b2, c2, f2, j1)
             /\ j1.op = "merge" => Halfway(b2, c2, x2, f2, j1)
             /\ j1.op = "create" => KeyIsFree(b2, c2, d2, j1, {j1.task})
  <2>1. Writes(b2, c2, f2, j1)
    BY <1>0, <1>9, OthersWrite DEF Fits
  <2>2. ASSUME j1.op = "merge" PROVE Halfway(b2, c2, x2, f2, j1)
    <3>1. Beside(x, d, a, j, "writing", j1)
      BY <2>2, <1>9 DEF Beside
    <3> QED BY <3>1, <1>0, <1>9, <2>2, OthersHalfway DEF Fits
  <2>3. j1.op = "create" => KeyIsFree(b2, c2, d2, j1, {j1.task})
    BY <1>9, OthersKeys DEF Fits
  <2> QED BY <2>1, <2>2, <2>3
<1>10. a1 = "fetched" => Same(b2, c2, j1.writes[1].task, j1.row)
  <2>1. a1 = "fetched" => j1.writes[1].task \in j1.foot /\ Same(b, c, j1.writes[1].task, j1.row)
    BY TailOfSeq DEF Fits, Writes, WriteFits
  <2> QED BY <2>1, <1>2
<1>11. a1 = "read" => j1.op \in Ops /\ j1.task \in j1.foot \ f2 /\ Same(b2, c2, j1.task, j1.seen)
  BY <1>0, <1>2 DEF Fits
<1>12. a1 = "target" => Joins(f2, j1) /\ ~j1.reread /\ Same(b2, c2, j1.task, j1.seen)
  BY <1>2, <1>3 DEF Fits, Joins
<1>13. a1 = "all" => Joins(f2, j1) /\ (~j1.reread => Known(b2, c2, f2, j1))
  BY <1>3, <1>4 DEF Fits
<1>14. /\ DOMAIN j1 = JobFields /\ j1.foot \subseteq Task /\ (a1 = "idle" => j1 = NoJob)
       /\ a1 = "clearing" => j1.op = "clear" /\ j1.foot = Task /\ j1.batch = <<>>
  BY DEF Fits
<1> QED BY <1>1, <1>6, <1>7, <1>8, <1>9, <1>10, <1>11, <1>12, <1>13, <1>14 DEF Fits

\* Parents do not lead round: a task that is moved goes where nothing leads to it.
LEMMA NoCircleIsMade ==
    ASSUME NEW b, NEW c, NEW x, NEW d, NEW f, NEW b2, NEW c2, NEW x2, NEW d2, NEW f2, NEW a, NEW j, NEW F,
           Step(b, c, x, d, f, b2, c2, x2, d2, f2, a, j, F), Rows(b, c, f), DOMAIN b2 \subseteq Task,
           NoCircle(b, DOMAIN b \ (c \cup x)),
           a = "fetched" /\ j.op = "merge" => Moved(x, j) \/ \E S \in SUBSET Ids : Leads(b, c, x, j, S)
    PROVE  NoCircle(b2, DOMAIN b2 \ (c2 \cup x2))
<1> DEFINE C == DOMAIN b \ (c \cup x)
           C2 == DOMAIN b2 \ (c2 \cup x2)
<1>0. c \subseteq c2 /\ x \subseteq x2 /\ f2 \subseteq f /\ F \subseteq Task
  BY DEF Step
<1>1. \A t \in C2 : \/ t \in C /\ b2[t].parent = b[t].parent
                    \/ t \in C /\ Moving(a, j, t) /\ b2[t].parent = j.target /\ j.target \in F \ f
                    \/ t \in f \ C /\ b2[t].parent \in (F \cup {None}) \ f
  BY <1>0 DEF Step, Rows
<1>2. \A t \in C : b[t].parent \in Ids \ f /\ t \notin f
  BY DEF Rows
<1>3. \A t \in C2 : b2[t].parent \in Ids \ f
  BY <1>0, <1>1, <1>2 DEF Ids
<1>4. \A t \in C : \E S \in SUBSET Ids : b[t].parent \in S /\ t \notin S /\ \A u \in S \cap C : b[u].parent \in S
  BY DEF NoCircle
<1>5. ASSUME NEW t \in C2, t \in f
      PROVE  \E S \in SUBSET Ids : b2[t].parent \in S /\ t \notin S /\ \A u \in S \cap C2 : b2[u].parent \in S
  BY <1>3, <1>5
<1>6. ASSUME NEW X \in SUBSET Ids, Leads(b, c, x, j, X), NEW t \in C2, t \notin f
      PROVE  \E S \in SUBSET Ids : b2[t].parent \in S /\ t \notin S /\ \A u \in S \cap C2 : b2[u].parent \in S
  <2>1. /\ j.target \in X /\ \A u \in X \cap C : b[u].parent \in X
        /\ \A u \in C2 : Moving(a, j, u) => u \notin X
    BY <1>6 DEF Leads, Moving
  <2>2. \A u \in X \cap C2 : u \notin f => b2[u].parent \in X \ f
    BY <2>1, <1>1, <1>3
  <2>3. CASE Moving(a, j, t) /\ b2[t].parent = j.target /\ j.target \in F \ f
    <3>1. j.target \in X \ f /\ t \notin X \ f /\ \A u \in (X \ f) \cap C2 : b2[u].parent \in X \ f
      BY <2>1, <2>2, <2>3
    <3> QED BY <3>1, <2>3
  <2>4. CASE t \in C /\ b2[t].parent = b[t].parent
    <3>1. PICK S \in SUBSET Ids : b[t].parent \in S /\ t \notin S /\ \A u \in S \cap C : b[u].parent \in S
      BY <1>4, <2>4
    <3>2. CASE t \in X
      <4> DEFINE Q == (S \cap X) \ f
      <4>1. b2[t].parent \in Q /\ t \notin Q /\ Q \in SUBSET Ids
        BY <1>3, <2>1, <2>4, <3>1, <3>2
      <4>2. ASSUME NEW u \in Q \cap C2 PROVE b2[u].parent \in Q
        <5>1. u \in C /\ b2[u].parent = b[u].parent
          BY <4>2, <2>1, <1>1
        <5> QED BY <5>1, <4>2, <3>1, <2>1, <1>2
      <4> QED BY <4>1, <4>2
    <3>3. CASE t \notin X
      <4> DEFINE Q == (S \cup X) \ f
      <4>1. b2[t].parent \in Q /\ t \notin Q /\ Q \in SUBSET Ids
        BY <1>3, <2>4, <3>1, <3>3
      <4>2. ASSUME NEW u \in Q \cap C2 PROVE b2[u].parent \in Q
        <5>1. CASE u \in C /\ b2[u].parent = b[u].parent
          BY <5>1, <4>2, <3>1, <2>1, <1>2
        <5>2. CASE b2[u].parent = j.target /\ j.target \in F \ f
          BY <5>2, <2>1
        <5> QED BY <5>1, <5>2, <4>2, <1>1
      <4> QED BY <4>1, <4>2
    <3> QED BY <3>2, <3>3
  <2> QED BY <2>3, <2>4, <1>6, <1>1
<1>7. ASSUME \A u \in C2 : ~Moving(a, j, u), NEW t \in C2, t \notin f
      PROVE  \E S \in SUBSET Ids : b2[t].parent \in S /\ t \notin S /\ \A u \in S \cap C2 : b2[u].parent \in S
  <2>1. t \in C /\ b2[t].parent = b[t].parent
    BY <1>7, <1>1
  <2>2. PICK S \in SUBSET Ids : b[t].parent \in S /\ t \notin S /\ \A u \in S \cap C : b[u].parent \in S
    BY <1>4, <2>1
  <2>3. \A u \in (S \ f) \cap C2 : b2[u].parent \in S \ f
    BY <2>2, <1>7, <1>1, <1>3
  <2>4. b2[t].parent \in S \ f /\ t \notin S \ f
    BY <2>1, <2>2, <1>3
  <2> QED BY <2>3, <2>4
<1>8. CASE a = "fetched" /\ j.op = "merge" /\ ~Moved(x, j)
  <2>1. PICK X \in SUBSET Ids : Leads(b, c, x, j, X)
    BY <1>8
  <2> QED BY <2>1, <1>5, <1>6 DEF NoCircle
<1>9. CASE ~(a = "fetched" /\ j.op = "merge" /\ ~Moved(x, j))
  <2>1. \A u \in C2 : ~Moving(a, j, u)
    BY <1>9, <1>0 DEF Moving, Moved
  <2> QED BY <2>1, <1>5, <1>7 DEF NoCircle
<1> QED BY <1>8, <1>9

\* One open task of a key: the other would be that of the command itself.
LEMMA KeysStayApart ==
    ASSUME NEW b, NEW c, NEW x, NEW d, NEW f, NEW b2, NEW c2, NEW x2, NEW d2, NEW f2, NEW a, NEW j, NEW F,
           Step(b, c, x, d, f, b2, c2, x2, d2, f2, a, j, F), KeysAreApart(b, c, d),
           a = "fetched" /\ j.op = "create" => KeyIsFree(b, c, d, j, {j.task})
    PROVE  KeysAreApart(b2, c2, d2)
<1> SUFFICES ASSUME NEW t \in DOMAIN b2 \ c2, NEW u \in DOMAIN b2 \ c2, t # u, IsOpen(b2[t]), IsOpen(b2[u]),
                    b2[t].key = b2[u].key, b2[t].key \notin {None} \cup d2
             PROVE  FALSE
  BY DEF KeysAreApart
<1>0. c \subseteq c2 /\ d \subseteq d2
  BY DEF Step
<1>1. \A v \in {t, u} : \/ v \in DOMAIN b \ c /\ IsOpen(b[v]) /\ b[v].key = b2[t].key
                        \/ a = "fetched" /\ j.op = "create" /\ v = j.task /\ b2[t].key = j.key
  BY <1>0 DEF Step
<1>2. ASSUME a = "fetched", j.op = "create", b2[t].key = j.key, NEW v \in DOMAIN b \ c, v # j.task,
             IsOpen(b[v]), b[v].key = j.key
      PROVE  FALSE
  BY <1>0, <1>2 DEF KeyIsFree
<1> QED BY <1>0, <1>1, <1>2 DEF KeysAreApart

\* What a step keeps, when the command that takes it is right about the board again.
LEMMA StepKeeps ==
    ASSUME BoardInv, NEW p \in Process, NEW a2, NEW j2,
           at' = [at EXCEPT ![p] = a2], job' = [job EXCEPT ![p] = j2],
           NEW F, j2.foot \subseteq F,
           Step(board, contested, crossed, doubtful, fresh,
                board', contested', crossed', doubtful', fresh', at[p], job[p], F),
           \A q \in Process \ {p} : F \cap job[q].foot \subseteq contested',
           \A q \in Process \ {p} : Beside(crossed', doubtful', a2, j2, at[q], job[q]),
           Fits(board', contested', crossed', doubtful', fresh', a2, j2),
           Rows(board', contested', fresh'),
           NotesAreKept(board', contested', fresh', given')
    PROVE  BoardInv'
<1>0. /\ contested \subseteq contested' /\ crossed \subseteq crossed' /\ doubtful \subseteq doubtful'
      /\ fresh' \subseteq Task /\ Rows(board, contested, fresh) /\ DOMAIN board' \subseteq Task
  BY DEF Step, BoardInv, Rows
<1>1. /\ DOMAIN at = Process /\ DOMAIN job = Process
      /\ at'[p] = a2 /\ job'[p] = j2
      /\ \A q \in Process \ {p} : at'[q] = at[q] /\ job'[q] = job[q]
  BY DEF BoardInv
<1>2. /\ DOMAIN at' = Process /\ DOMAIN job' = Process
      /\ at' = [q \in Process |-> at'[q]] /\ job' = [q \in Process |-> job'[q]]
  <2>1. at' = [q \in Process |-> IF q = p THEN a2 ELSE at[q]]
    BY <1>1
  <2>2. job' = [q \in Process |-> IF q = p THEN j2 ELSE job[q]]
    BY <1>1
  <2> QED BY <2>1, <2>2
<1>3. ASSUME NEW q \in Process
      PROVE  Fits(board', contested', crossed', doubtful', fresh', at'[q], job'[q])
  <2>1. CASE q = p
    BY <2>1, <1>1
  <2>2. CASE q # p
    <3>1. Beside(crossed, doubtful, at[p], job[p], at[q], job[q])
      BY <2>2 DEF BoardInv
    <3>2. Fits(board, contested, crossed, doubtful, fresh, at[q], job[q])
      BY DEF BoardInv
    <3>3. job[q].foot \cap F \subseteq contested'
      BY <2>2
    <3>4. Fits(board', contested', crossed', doubtful', fresh', at[q], job[q])
      BY <3>1, <3>2, <3>3, <1>0, OthersFit
    <3> QED BY <3>4, <2>2, <1>1
  <2> QED BY <2>1, <2>2
<1>4. ASSUME NEW q \in Process, NEW r \in Process, q # r
      PROVE  /\ job'[q].foot \cap job'[r].foot \subseteq contested'
             /\ Beside(crossed', doubtful', at'[q], job'[q], at'[r], job'[r])
  <2>1. CASE q = p
    BY <2>1, <1>1, <1>4
  <2>2. CASE r = p
    BY <2>2, <1>1, <1>4 DEF Beside
  <2>3. CASE q # p /\ r # p
    <3>1. /\ job[q].foot \cap job[r].foot \subseteq contested
          /\ Beside(crossed, doubtful, at[q], job[q], at[r], job[r])
      BY <1>4 DEF BoardInv
    <3> QED BY <3>1, <2>3, <1>0, <1>1 DEF Beside, Moved
  <2> QED BY <2>1, <2>2, <2>3
<1>5. NoCircle(board', DOMAIN board' \ (contested' \cup crossed'))
  <2>1. at[p] = "fetched" /\ job[p].op = "merge" =>
            Moved(crossed, job[p]) \/ \E S \in SUBSET Ids : Leads(board, contested, crossed, job[p], S)
    BY DEF BoardInv, Fits, Halfway
  <2>2. NoCircle(board, DOMAIN board \ (contested \cup crossed))
    BY DEF BoardInv
  <2> QED BY <2>1, <2>2, <1>0, NoCircleIsMade
<1>6. KeysAreApart(board', contested', doubtful')
  <2>1. at[p] = "fetched" /\ job[p].op = "create" =>
            KeyIsFree(board, contested, doubtful, job[p], {job[p].task})
    BY DEF BoardInv, Fits
  <2>2. KeysAreApart(board, contested, doubtful)
    BY DEF BoardInv
  <2> QED BY <2>1, <2>2, KeysStayApart
<1>7. /\ \A q \in Process :
             Fits(board', contested', crossed', doubtful', fresh', at'[q], job'[q])
      /\ \A q, r \in Process : q # r =>
             /\ job'[q].foot \cap job'[r].foot \subseteq contested'
             /\ Beside(crossed', doubtful', at'[q], job'[q], at'[r], job'[r])
  BY <1>3, <1>4
<1> QED BY <1>0, <1>2, <1>5, <1>6, <1>7 DEF BoardInv

\* The same of a step that leaves the board alone.
LEMMA QuietKeeps ==
    ASSUME BoardInv, NEW p \in Process, NEW a2, NEW j2,
           at' = [at EXCEPT ![p] = a2], job' = [job EXCEPT ![p] = j2],
           UNCHANGED <<board, fresh, given>>,
           contested \subseteq contested', crossed \subseteq crossed', doubtful \subseteq doubtful',
           \A q \in Process \ {p} : j2.foot \cap job[q].foot \subseteq contested',
           \A q \in Process \ {p} : Beside(crossed', doubtful', a2, j2, at[q], job[q]),
           Fits(board, contested', crossed', doubtful', fresh, a2, j2)
    PROVE  BoardInv'
<1>1. /\ Rows(board, contested, fresh) /\ NotesAreKept(board, contested, fresh, given)
      /\ j2.foot \subseteq Task
  BY DEF BoardInv, Fits
<1>2. Rows(board', contested', fresh') /\ NotesAreKept(board', contested', fresh', given')
  BY <1>1 DEF Rows, NotesAreKept
<1>3. Step(board, contested, crossed, doubtful, fresh,
           board', contested', crossed', doubtful', fresh', at[p], job[p], j2.foot)
  BY <1>1 DEF Step, Rows
<1>4. Fits(board', contested', crossed', doubtful', fresh', a2, j2)
  OBVIOUS
<1> QED BY <1>2, <1>3, <1>4, StepKeeps

\* Where a command goes when it has ws to write yet, and what it knows there.
GoesTo(j, ws) ==
    IF ws # <<>> THEN "writing"
    ELSE IF j.batch = <<>> THEN "idle"
    ELSE IF Head(j.batch).target = None THEN "writing" ELSE "all"

GoesWith(j, ws) ==
    LET next == Head(j.batch) IN
    IF ws # <<>> THEN [j EXCEPT !.writes = ws]
    ELSE IF j.batch = <<>> THEN NoJob
    ELSE IF next.target = None
    THEN [j EXCEPT !.op = "archive", !.batch = Tail(@), !.task = next.task,
                   !.writes = <<Write(next.task, ArchivePatch)>>]
    ELSE [j EXCEPT !.op = "merge", !.batch = Tail(@), !.task = next.task,
                   !.target = next.target, !.writes = <<>>, !.reread = TRUE]

\* It ends, turns to the next candidate or goes on with the same thing.
TurnsTo(j, ws) ==
    \/ GoesTo(j, ws) = "idle"
    \/ GoesTo(j, ws) = "all" /\ GoesWith(j, ws).op = "merge"
    \/ GoesWith(j, ws).op = "archive"
    \/ /\ GoesTo(j, ws) = "writing" /\ ws # <<>>
       /\ GoesWith(j, ws).op = j.op /\ GoesWith(j, ws).key = j.key
       /\ GoesWith(j, ws).all = j.all /\ GoesWith(j, ws).task = j.task

\* Goes leads there.
LEMMA GoesThere ==
    ASSUME NEW p, NEW ws, Goes(p, ws)
    PROVE  /\ at' = [at EXCEPT ![p] = GoesTo(job[p], ws)]
           /\ job' = [job EXCEPT ![p] = GoesWith(job[p], ws)]
BY DEF Goes, Learns, GoesTo, GoesWith

\* A batch after its first candidate.
LEMMA BatchGoesOn ==
    ASSUME NEW b, NEW c, NEW f, NEW j, Waits(b, c, f, j), j.batch # <<>>
    PROVE  LET e == Head(j.batch) IN
           /\ e.task \in j.foot \ f
           /\ e.target # None => e.target \in j.foot \ (f \cup {e.task})
           /\ e.task \notin c => e.task \in DOMAIN b /\ ~Terminal(b[e.task])
           /\ \A j2 : /\ j2.batch = Tail(j.batch) /\ j2.foot = j.foot /\ j2.task = e.task
                      => Waits(b, c, f, j2)
<1>1. /\ Len(j.batch) \in Nat \ {0} /\ Head(j.batch) = j.batch[1]
      /\ IsSeq(Tail(j.batch)) /\ Len(Tail(j.batch)) = Len(j.batch) - 1
      /\ \A i \in 1..Len(Tail(j.batch)) : Tail(j.batch)[i] = j.batch[i + 1] /\ i + 1 \in 1..Len(j.batch)
      /\ 1 \in 1..Len(j.batch)
  BY TailOfSeq DEF Waits
<1> DEFINE e == Head(j.batch)
<1>2. /\ e.task \in j.foot \ f
      /\ e.target # None => e.target \in j.foot \ (f \cup {e.task})
      /\ e.task \notin c => e.task \in DOMAIN b /\ ~Terminal(b[e.task])
  BY <1>1 DEF Waits
<1>3. ASSUME NEW j2, j2.batch = Tail(j.batch), j2.foot = j.foot, j2.task = e.task
      PROVE  Waits(b, c, f, j2)
  <2>1. ASSUME NEW i \in 1..Len(j2.batch)
        PROVE  /\ j2.batch[i] = j.batch[i + 1] /\ i + 1 \in 1..Len(j.batch)
               /\ j2.batch[i].task # j2.task
    <3>1. j2.batch[i] = j.batch[i + 1] /\ i + 1 \in 1..Len(j.batch) /\ i + 1 # 1
      BY <1>1, <1>3
    <3>2. j.batch[i + 1].task # j.batch[1].task
      BY <3>1, <1>1 DEF Waits
    <3> QED BY <3>1, <3>2, <1>1, <1>3
  <2>2. ASSUME NEW i \in 1..Len(j2.batch), NEW i2 \in 1..Len(j2.batch), i # i2
        PROVE  j2.batch[i].task # j2.batch[i2].task
    <3>1. /\ j2.batch[i] = j.batch[i + 1] /\ j2.batch[i2] = j.batch[i2 + 1]
          /\ i + 1 \in 1..Len(j.batch) /\ i2 + 1 \in 1..Len(j.batch) /\ i + 1 # i2 + 1
      BY <2>1, <2>2, <1>1, <1>3
    <3> QED BY <3>1 DEF Waits
  <2>3. IsSeq(j2.batch)
    BY <1>1, <1>3
  <2>4. ASSUME NEW i \in 1..Len(j2.batch)
        PROVE  /\ j2.batch[i].task \in j2.foot \ f
               /\ j2.batch[i].target # None => j2.batch[i].target \in j2.foot \ (f \cup {j2.batch[i].task})
               /\ j2.batch[i].task \notin c =>
                      j2.batch[i].task \in DOMAIN b /\ ~Terminal(b[j2.batch[i].task])
    BY <2>1, <1>3 DEF Waits
  <2> QED BY <2>1, <2>2, <2>3, <2>4 DEF Waits
<1> QED BY <1>2, <1>3

\* A process without a command is right about any board.
LEMMA IdleFits ==
    ASSUME NEW b, NEW c, NEW x, NEW d, NEW f
    PROVE  Fits(b, c, x, d, f, "idle", NoJob) /\ NoJob.foot = {}
BY ShortSeqs DEF Fits, NoJob, JobFields, Waits

\* What a command needs to know of ws to write it.
MayWrite(b, c, x, d, f, j, ws) ==
    \A j2 : /\ \A field \in JobFields \ {"writes"} : j2[field] = j[field]
            /\ j2.writes = ws
            => /\ Writes(b, c, f, j2)
               /\ j2.op = "merge" => Halfway(b, c, x, f, j2)
               /\ j2.op = "create" => KeyIsFree(b, c, d, j2, {j2.task})

\* A command that goes on is right about the board if it was about what is left to do.
LEMMA GoesOnFit ==
    ASSUME NEW b, NEW c, NEW x, NEW d, NEW f, NEW j, NEW ws,
           DOMAIN j = JobFields, j.foot \subseteq Task, Waits(b, c, f, j),
           ws # <<>> => MayWrite(b, c, x, d, f, j, ws)
    PROVE  /\ Fits(b, c, x, d, f, GoesTo(j, ws), GoesWith(j, ws))
           /\ GoesWith(j, ws).foot \subseteq j.foot
           /\ TurnsTo(j, ws)
<1> DEFINE j2 == GoesWith(j, ws)
           next == Head(j.batch)
<1>1. CASE ws # <<>>
  <2>1. /\ DOMAIN j2 = JobFields /\ j2.writes = ws
        /\ \A field \in JobFields \ {"writes"} : j2[field] = j[field]
    BY <1>1 DEF GoesWith, JobFields
  <2>2. /\ j2.op = j.op /\ j2.key = j.key /\ j2.all = j.all /\ j2.task = j.task
        /\ j2.batch = j.batch /\ j2.foot = j.foot
    BY <2>1 DEF JobFields
  <2>3. GoesTo(j, ws) = "writing"
    BY <1>1 DEF GoesTo
  <2>4. Waits(b, c, f, j2)
    BY <2>2 DEF Waits
  <2> HIDE DEF j2
  <2>5. Fits(b, c, x, d, f, "writing", j2)
    BY <1>1, <2>1, <2>2, <2>4 DEF Fits, MayWrite
  <2> QED BY <1>1, <2>2, <2>3, <2>5 DEF j2, TurnsTo
<1>2. CASE ws = <<>> /\ j.batch = <<>>
  BY <1>2, IdleFits DEF GoesTo, GoesWith, TurnsTo
<1>3. CASE ws = <<>> /\ j.batch # <<>> /\ next.target = None
  <2>1. j2 = [j EXCEPT !.op = "archive", !.batch = Tail(@), !.task = next.task,
                       !.writes = <<Write(next.task, ArchivePatch)>>]
    BY <1>3 DEF GoesWith
  <2>2. GoesTo(j, ws) = "writing"
    BY <1>3 DEF GoesTo
  <2>3. /\ DOMAIN j2 = JobFields /\ j2.op = "archive" /\ j2.batch = Tail(j.batch) /\ j2.task = next.task
        /\ j2.writes = <<Write(next.task, ArchivePatch)>> /\ j2.foot = j.foot
    BY <2>1 DEF JobFields
  <2> HIDE DEF j2
  <2>4. Waits(b, c, f, j2)
    BY <1>3, <2>3, BatchGoesOn
  <2>5. /\ next.task \in j.foot \ f
        /\ next.task \notin c => next.task \in DOMAIN b /\ ~Terminal(b[next.task])
    BY <1>3, BatchGoesOn
  <2>6. /\ IsSeq(j2.writes) /\ Len(j2.writes) = 1 /\ j2.writes # <<>>
        /\ j2.writes[1] = Write(next.task, ArchivePatch)
    BY <2>3, ShortSeqs
  <2>7. WriteFits(b, c, f, j2, 1)
    BY <2>3, <2>5, <2>6 DEF WriteFits, Write, ArchivePatch, Stays
  <2>8. Writes(b, c, f, j2)
    BY <2>6, <2>7 DEF Writes
  <2>9. Fits(b, c, x, d, f, "writing", j2)
    BY <2>3, <2>4, <2>8 DEF Fits
  <2> QED BY <2>2, <2>3, <2>9 DEF j2, TurnsTo
<1>4. CASE ws = <<>> /\ j.batch # <<>> /\ next.target # None
  <2>1. j2 = [j EXCEPT !.op = "merge", !.batch = Tail(@), !.task = next.task,
                       !.target = next.target, !.writes = <<>>, !.reread = TRUE]
    BY <1>4 DEF GoesWith
  <2>2. GoesTo(j, ws) = "all"
    BY <1>4 DEF GoesTo
  <2>3. /\ DOMAIN j2 = JobFields /\ j2.op = "merge" /\ j2.batch = Tail(j.batch) /\ j2.task = next.task
        /\ j2.target = next.target /\ j2.reread = TRUE /\ j2.foot = j.foot
    BY <2>1 DEF JobFields
  <2> HIDE DEF j2
  <2>4. Waits(b, c, f, j2)
    BY <1>4, <2>3, BatchGoesOn
  <2>5. next.task \in j.foot \ f /\ next.target \in j.foot \ (f \cup {next.task})
    BY <1>4, BatchGoesOn
  <2>6. Joins(f, j2)
    BY <2>3, <2>5 DEF Joins
  <2>7. Fits(b, c, x, d, f, "all", j2)
    BY <2>3, <2>4, <2>6 DEF Fits
  <2> QED BY <2>2, <2>3, <2>7 DEF j2, TurnsTo
<1> QED BY <1>1, <1>2, <1>3, <1>4

\* A command that goes on with the same thing, or with nothing that moves or creates,
\* stands beside another as before.
LEMMA BesideGoesOn ==
    ASSUME NEW x, NEW d, NEW x2, NEW d2, x \subseteq x2, d \subseteq d2, NEW a, NEW j, NEW a1, NEW j1,
           NEW a2, NEW j2, Beside(x, d, a, j, a1, j1),
           \/ a2 = "idle"
           \/ a2 = "all" /\ j2.op = "merge"
           \/ j2.op \in Operations
           \/ /\ a # "idle" /\ j2.op = j.op /\ j2.key = j.key /\ j2.all = j.all /\ j2.task = j.task
              /\ a \in {"plan", "writing", "fetched"} \/ a2 \notin {"plan", "writing", "fetched"} 
    PROVE  Beside(x2, d2, a2, j2, a1, j1)
BY DEF Beside, Moved, Operations

\* More contested tasks make a batch no worse.
LEMMA WaitsLater ==
    ASSUME NEW b, NEW c, NEW c2, c \subseteq c2, NEW f, NEW j, Waits(b, c, f, j)
    PROVE  Waits(b, c2, f, j)
BY DEF Waits

\* A command that goes on, the board as it was.
LEMMA GoingKeeps ==
    ASSUME BoardInv, NEW p \in Process, NEW ws, Goes(p, ws), Busy(p),
           UNCHANGED <<board, fresh, given>>,
           contested \subseteq contested', crossed \subseteq crossed', doubtful \subseteq doubtful',
           ws # <<>> => at[p] \in {"plan", "writing", "fetched"} \/ job[p].op \in Operations,
           ws # <<>> => MayWrite(board, contested', crossed', doubtful', fresh, job[p], ws)
    PROVE  BoardInv'
<1> DEFINE j == job[p]
           a2 == GoesTo(j, ws)
           j2 == GoesWith(j, ws)
<1>1. /\ DOMAIN j = JobFields /\ j.foot \subseteq Task /\ Waits(board, contested, fresh, j)
  BY DEF BoardInv, Fits
<1>2. Waits(board, contested', fresh, j)
  BY <1>1, WaitsLater
<1>3. /\ Fits(board, contested', crossed', doubtful', fresh, a2, j2)
      /\ j2.foot \subseteq j.foot
      /\ \/ a2 = "idle"
         \/ a2 = "all" /\ j2.op = "merge"
         \/ j2.op = "archive"
         \/ a2 = "writing" /\ ws # <<>> /\ j2.op = j.op /\ j2.key = j.key /\ j2.all = j.all /\ j2.task = j.task
  <2>1. ws # <<>> => MayWrite(board, contested', crossed', doubtful', fresh, j, ws)
    OBVIOUS
  <2> HIDE DEF j
  <2>2. Fits(board, contested', crossed', doubtful', fresh, GoesTo(j, ws), GoesWith(j, ws))
    BY <1>1, <1>2, <2>1, GoesOnFit
  <2>3. GoesWith(j, ws).foot \subseteq j.foot
    BY <1>1, <1>2, <2>1, GoesOnFit
  <2>4. TurnsTo(j, ws)
    BY <1>1, <1>2, <2>1, GoesOnFit
  <2> QED BY <2>2, <2>3, <2>4 DEF TurnsTo
<1>4. at' = [at EXCEPT ![p] = a2] /\ job' = [job EXCEPT ![p] = j2]
  BY GoesThere
<1>5. ASSUME NEW q \in Process \ {p}
      PROVE  /\ j2.foot \cap job[q].foot \subseteq contested'
             /\ Beside(crossed', doubtful', a2, j2, at[q], job[q])
  <2>1. /\ j.foot \cap job[q].foot \subseteq contested
        /\ Beside(crossed, doubtful, at[p], j, at[q], job[q])
    BY <1>5 DEF BoardInv
  <2> HIDE DEF j, j2, a2
  <2>3. \/ a2 = "idle"
        \/ a2 = "all" /\ j2.op = "merge"
        \/ j2.op \in Operations
        \/ /\ at[p] # "idle" /\ j2.op = j.op /\ j2.key = j.key /\ j2.all = j.all /\ j2.task = j.task
           /\ at[p] \in {"plan", "writing", "fetched"}
    BY <1>3 DEF Busy, Operations, j
  <2>4. Beside(crossed', doubtful', a2, j2, at[q], job[q])
    BY <2>1, <2>3, BesideGoesOn
  <2> QED BY <2>1, <2>4, <1>3
<1> HIDE DEF j, a2, j2
<1> QED BY <1>3, <1>4, <1>5, QuietKeeps

\* What Touch makes contested.
LEMMA TouchedAreContested ==
    ASSUME BoardInv, NEW p \in Process, NEW ts, Touch(p, ts)
    PROVE  /\ contested \subseteq contested'
           /\ \A q \in Process \ {p} : ts \cap job[q].foot \subseteq contested'
<1>1. \A q \in Process : ~Busy(q) => job[q].foot = {}
  BY IdleFits DEF BoardInv, Fits, Busy
<1> QED BY <1>1 DEF Touch

\* Sequences of two.
LEMMA PairsWait ==
    ASSUME NEW e, NEW e2
    PROVE  /\ IsSeq(<<e, e2>>) /\ Len(<<e, e2>>) = 2 /\ <<e, e2>>[1] = e /\ <<e, e2>>[2] = e2
<1> DEFINE s == <<e, e2>>
<1>1. Len(s) = 2 /\ s[1] = e /\ s[2] = e2
  OBVIOUS
<1>2. {e, e2} \subseteq {s[i] : i \in 1..Len(s)}
  BY <1>1
<1>3. s \in Seq({s[i] : i \in 1..Len(s)})
  BY <1>2
<1> QED BY <1>1, <1>3 DEF IsSeq

\* A command that starts.
LEMMA StartsKeep ==
    ASSUME BoardInv, NEW p \in Process, NEW j, NEW a2, Starts(p, j, a2), DOMAIN j = JobFields,
           doubtful \subseteq doubtful',
           \A j2 : /\ DOMAIN j2 = JobFields
                   /\ \A field \in JobFields \ {"n"} : j2[field] = j[field]
                   => /\ Fits(board, contested', crossed, doubtful', fresh, a2, j2)
                      /\ \A q \in Process \ {p} : Beside(crossed, doubtful', a2, j2, at[q], job[q])
    PROVE  BoardInv'
<1> DEFINE j2 == [j EXCEPT !.n = Commands - left + 1]
<1>1. DOMAIN j2 = JobFields /\ \A field \in JobFields \ {"n"} : j2[field] = j[field]
  BY DEF JobFields
<1>2. at' = [at EXCEPT ![p] = a2] /\ job' = [job EXCEPT ![p] = j2] /\ UNCHANGED <<board, fresh, given, crossed>>
  BY DEF Starts
<1>3. j2.foot = j.foot
  BY <1>1 DEF JobFields
<1>4. Touch(p, j2.foot)
  BY <1>3 DEF Starts
<1> HIDE DEF j2
<1>5. /\ contested \subseteq contested'
      /\ \A q \in Process \ {p} : j2.foot \cap job[q].foot \subseteq contested'
  BY <1>4, TouchedAreContested
<1>6. /\ Fits(board, contested', crossed', doubtful', fresh, a2, j2)
      /\ \A q \in Process \ {p} : Beside(crossed', doubtful', a2, j2, at[q], job[q])
  BY <1>1, <1>2
<1> QED BY <1>2, <1>5, <1>6, QuietKeeps

\* update, close, archive, renew
LEMMA BeginKeeps ==
    ASSUME BoardInv, NEW p \in Process, NEW op \in Ops, NEW t \in Task, Begin(p, op, t)
    PROVE  BoardInv'
<1> DEFINE j == [NoJob EXCEPT !.op = op, !.foot = {t}, !.task = t, !.seen = board[t]]
<1>1. /\ DOMAIN j = JobFields /\ j.op = op /\ j.foot = {t} /\ j.task = t /\ j.seen = board[t]
      /\ j.batch = <<>>
  BY DEF NoJob, JobFields
<1>2. Starts(p, j, "read") /\ t \in DOMAIN board /\ t \notin fresh /\ doubtful' = doubtful
  BY DEF Begin, BoardInv, Rows
<1> HIDE DEF j
<1>3. ASSUME NEW j2, DOMAIN j2 = JobFields, \A field \in JobFields \ {"n"} : j2[field] = j[field]
      PROVE  /\ Fits(board, contested', crossed, doubtful', fresh, "read", j2)
             /\ \A q \in Process \ {p} : Beside(crossed, doubtful', "read", j2, at[q], job[q])
  <2>1. j2.op = op /\ j2.foot = {t} /\ j2.task = t /\ j2.seen = board[t] /\ j2.batch = <<>>
    BY <1>1, <1>3 DEF JobFields
  <2>2. Waits(board, contested', fresh, j2)
    BY <2>1, ShortSeqs DEF Waits
  <2>3. Fits(board, contested', crossed, doubtful', fresh, "read", j2)
    BY <1>2, <1>3, <2>1, <2>2 DEF Fits, Same
  <2> QED BY <2>1, <2>3, OpsAreKnown DEF Beside, Operations
<1> QED BY <1>1, <1>2, <1>3, StartsKeep

\* merge
LEMMA BeginMergeKeeps ==
    ASSUME BoardInv, NEW p \in Process, NEW s \in Task, NEW t \in Task, BeginMerge(p, s, t)
    PROVE  BoardInv'
<1> DEFINE j == [NoJob EXCEPT !.op = "merge", !.foot = {s, t}, !.task = s, !.target = t,
                               !.seen = board[s]]
<1>1. /\ DOMAIN j = JobFields /\ j.op = "merge" /\ j.foot = {s, t} /\ j.task = s /\ j.target = t
      /\ j.seen = board[s] /\ j.batch = <<>> /\ j.reread = FALSE
  BY DEF NoJob, JobFields
<1>2. Starts(p, j, "target") /\ s # t /\ s \in DOMAIN board /\ s \notin fresh /\ doubtful' = doubtful
  BY DEF BeginMerge, BoardInv, Rows
<1> HIDE DEF j
<1>3. ASSUME NEW j2, DOMAIN j2 = JobFields, \A field \in JobFields \ {"n"} : j2[field] = j[field]
      PROVE  /\ Fits(board, contested', crossed, doubtful', fresh, "target", j2)
             /\ \A q \in Process \ {p} : Beside(crossed, doubtful', "target", j2, at[q], job[q])
  <2>1. /\ j2.op = "merge" /\ j2.foot = {s, t} /\ j2.task = s /\ j2.target = t
        /\ j2.seen = board[s] /\ j2.batch = <<>> /\ j2.reread = FALSE
    BY <1>1, <1>3 DEF JobFields
  <2>2. Waits(board, contested', fresh, j2)
    BY <2>1, ShortSeqs DEF Waits
  <2>3. Joins(fresh, j2) /\ Same(board, contested', j2.task, j2.seen)
    BY <1>2, <2>1 DEF Joins, Same
  <2>4. Fits(board, contested', crossed, doubtful', fresh, "target", j2)
    BY <1>3, <2>1, <2>2, <2>3 DEF Fits
  <2> QED BY <2>1, <2>4 DEF Beside
<1> QED BY <1>1, <1>2, <1>3, StartsKeep

\* triage with apply: candidates are open, and so not terminal.
LEMMA BeginTriageKeeps ==
    ASSUME BoardInv, NEW p \in Process, BeginTriage(p)
    PROVE  BoardInv'
<1>1. PICK e \in Candidate : \E e2 \in Candidate :
        /\ e.task # e2.task
        /\ \A y \in {e, e2} : y.target # None =>
               /\ y.target \in DOMAIN board \ {y.task} /\ IsOpen(board[y.target])
               /\ Topic[board[y.target].label] = Topic[board[y.task].label]
        /\ Starts(p, [NoJob EXCEPT !.op = "triage", !.batch = <<e, e2>>,
                                   !.foot = {e.task, e.target, e2.task, e2.target} \ {None}], "plan")
        /\ UNCHANGED doubtful
  BY Zenon DEF BeginTriage
<1>2. PICK e2 \in Candidate :
        /\ e.task # e2.task
        /\ \A y \in {e, e2} : y.target # None =>
               /\ y.target \in DOMAIN board \ {y.task} /\ IsOpen(board[y.target])
               /\ Topic[board[y.target].label] = Topic[board[y.task].label]
        /\ Starts(p, [NoJob EXCEPT !.op = "triage", !.batch = <<e, e2>>,
                                   !.foot = {e.task, e.target, e2.task, e2.target} \ {None}], "plan")
        /\ UNCHANGED doubtful
  BY <1>1
<1> DEFINE j == [NoJob EXCEPT !.op = "triage", !.batch = <<e, e2>>,
                              !.foot = {e.task, e.target, e2.task, e2.target} \ {None}]
<1>3. /\ DOMAIN j = JobFields /\ j.op = "triage" /\ j.batch = <<e, e2>> /\ j.task = None
      /\ j.foot = {e.task, e.target, e2.task, e2.target} \ {None}
  BY DEF NoJob, JobFields
<1>4. \A y \in {e, e2} :
         /\ y.task \in Task \ fresh /\ y.task # None /\ y.task \in DOMAIN board /\ ~Terminal(board[y.task])
         /\ y.target # None => y.target \in Task \ (fresh \cup {y.task})
  <2>1. DOMAIN board \subseteq Task \ fresh
    BY DEF BoardInv, Rows
  <2>2. \A y \in Candidate : y.task \in DOMAIN board /\ IsOpen(board[y.task])
    BY DEF Candidate
  <2>3. \A t : IsOpen(board[t]) => ~Terminal(board[t])
    BY DEF IsOpen, Terminal, Archived
  <2> QED BY <1>2, <2>1, <2>2, <2>3, NoneIsNothing
<1> HIDE DEF j
<1>5. ASSUME NEW j2, DOMAIN j2 = JobFields, \A field \in JobFields \ {"n"} : j2[field] = j[field]
      PROVE  /\ Fits(board, contested', crossed, doubtful', fresh, "plan", j2)
             /\ \A q \in Process \ {p} : Beside(crossed, doubtful', "plan", j2, at[q], job[q])
  <2>1. /\ j2.op = "triage" /\ j2.batch = <<e, e2>> /\ j2.task = None
        /\ j2.foot = {e.task, e.target, e2.task, e2.target} \ {None}
    BY <1>3, <1>5 DEF JobFields
  <2>2. /\ IsSeq(j2.batch) /\ Len(j2.batch) = 2 /\ j2.batch[1] = e /\ j2.batch[2] = e2
    BY <2>1, PairsWait
  <2>3. \A i \in 1..2 : i = 1 \/ i = 2
    OBVIOUS
  <2>4. ASSUME NEW y \in {e, e2}
        PROVE  /\ y.task \in j2.foot \ fresh /\ y.task # j2.task
               /\ y.target # None => y.target \in j2.foot \ (fresh \cup {y.task})
               /\ y.task \notin contested' => y.task \in DOMAIN board /\ ~Terminal(board[y.task])
    BY <1>4, <2>1
  <2>5. Waits(board, contested', fresh, j2)
    BY <1>2, <2>2, <2>3, <2>4 DEF Waits
  <2>6. j2.foot \subseteq Task
    BY <2>1, <1>4
  <2>7. Fits(board, contested', crossed, doubtful', fresh, "plan", j2)
    BY <1>5, <2>1, <2>5, <2>6 DEF Fits
  <2> QED BY <2>1, <2>7 DEF Beside
<1>6. Starts(p, j, "plan") /\ doubtful' = doubtful
  BY <1>2 DEF j
<1> QED BY <1>3, <1>5, <1>6, StartsKeep

\* create: a key another creation is about becomes doubtful.
LEMMA BeginCreateKeeps ==
    ASSUME BoardInv, NEW p \in Process, NEW l \in Label, NEW t \in DOMAIN board \cup {None},
           NEW key \in Key \cup {None}, BeginCreate(p, l, t, key)
    PROVE  BoardInv'
<1> DEFINE j == [NoJob EXCEPT !.op = "create", !.foot = Alike(board, l) \cup ({t} \ {None}),
                              !.label = l, !.parent = t, !.key = key, !.all = board]
<1>1. /\ DOMAIN j = JobFields /\ j.op = "create" /\ j.foot = Alike(board, l) \cup ({t} \ {None})
      /\ j.label = l /\ j.parent = t /\ j.key = key /\ j.all = board /\ j.batch = <<>>
  BY DEF NoJob, JobFields
<1>2. /\ Starts(p, j, "plan")
      /\ doubtful' = doubtful \cup {y \in {key} \ {None} :
                         \E q \in Process : Busy(q) /\ job[q].op = "create" /\ job[q].key = y}
  BY DEF BeginCreate
<1>3. DOMAIN board \subseteq Task \ fresh /\ fresh \subseteq Task
  BY DEF BoardInv, Rows
<1> HIDE DEF j
<1>4. ASSUME NEW j2, DOMAIN j2 = JobFields, \A field \in JobFields \ {"n"} : j2[field] = j[field]
      PROVE  /\ Fits(board, contested', crossed, doubtful', fresh, "plan", j2)
             /\ \A q \in Process \ {p} : Beside(crossed, doubtful', "plan", j2, at[q], job[q])
  <2>1. /\ j2.op = "create" /\ j2.foot = Alike(board, l) \cup ({t} \ {None}) /\ j2.label = l
        /\ j2.parent = t /\ j2.key = key /\ j2.all = board /\ j2.batch = <<>>
    BY <1>1, <1>4 DEF JobFields
  <2>2. Waits(board, contested', fresh, j2)
    BY <2>1, ShortSeqs DEF Waits
  <2>3. Alike(board, l) \subseteq DOMAIN board
    BY DEF Alike
  <2>4. Creates(fresh, j2) /\ j2.foot \subseteq Task
    BY <1>3, <2>1, <2>3, NoneIsNothing DEF Creates, Ids
  <2>5. \A u \in Alike(j2.all, j2.label) : u \in j2.foot \ fresh /\ Same(board, contested', u, j2.all[u])
    BY <1>3, <2>1, <2>3 DEF Same
  <2>6. KeyIsFree(board, contested', doubtful', j2, Existing(j2))
    BY <2>1 DEF KeyIsFree, Existing
  <2>7. Fits(board, contested', crossed, doubtful', fresh, "plan", j2)
    BY <1>4, <2>1, <2>2, <2>4, <2>5, <2>6 DEF Fits
  <2>8. ASSUME NEW q \in Process, at[q] # "idle", job[q].op = "create", job[q].key = j2.key
        PROVE  j2.key \in {None} \cup doubtful'
    BY <1>2, <2>1, <2>8 DEF Busy
  <2> QED BY <2>1, <2>7, <2>8 DEF Beside
<1>5. doubtful \subseteq doubtful'
  BY <1>2
<1> QED BY <1>1, <1>2, <1>4, <1>5, StartsKeep

\* clear
LEMMA BeginClearKeeps ==
    ASSUME BoardInv, NEW p \in Process, BeginClear(p)
    PROVE  BoardInv'
<1> DEFINE j == [NoJob EXCEPT !.op = "clear", !.foot = Task]
<1>1. DOMAIN j = JobFields /\ j.op = "clear" /\ j.foot = Task /\ j.batch = <<>>
  BY DEF NoJob, JobFields
<1>2. Starts(p, j, "clearing") /\ doubtful' = doubtful
  BY DEF BeginClear
<1> HIDE DEF j
<1>3. ASSUME NEW j2, DOMAIN j2 = JobFields, \A field \in JobFields \ {"n"} : j2[field] = j[field]
      PROVE  /\ Fits(board, contested', crossed, doubtful', fresh, "clearing", j2)
             /\ \A q \in Process \ {p} : Beside(crossed, doubtful', "clearing", j2, at[q], job[q])
  <2>1. j2.op = "clear" /\ j2.foot = Task /\ j2.batch = <<>>
    BY <1>1, <1>3 DEF JobFields
  <2>2. Waits(board, contested', fresh, j2)
    BY <2>1, ShortSeqs DEF Waits
  <2>3. Fits(board, contested', crossed, doubtful', fresh, "clearing", j2)
    BY <1>3, <2>1, <2>2 DEF Fits
  <2> QED BY <2>1, <2>3 DEF Beside
<1> QED BY <1>1, <1>2, <1>3, StartsKeep

\* A patch that is allowed adds a note, or changes a status that is not terminal, or reopens.
LEMMA PatchIsAllowed ==
    ASSUME NEW op \in Operations, NEW row, NEW n, Allowed(op, row)
    PROVE  LET patch == PatchOf(op, row, n) IN
           /\ DOMAIN patch \subseteq {"notes", "status", "closed", "obsolete"}
           /\ "notes" \in DOMAIN patch => patch.notes = row.notes \cup {n}
           /\ "status" \in DOMAIN patch /\ Terminal(row) /\ patch.status # row.status => op = "reopen"
<1> USE DEF PatchOf, Allowed
<1>1. CASE op = "note"
  BY <1>1
<1>2. CASE op = "run"
  BY <1>2
<1>3. CASE op = "finish"
  BY <1>3 DEF Terminal
<1>4. CASE op = "fail"
  BY <1>4 DEF Terminal, Archived
<1>5. CASE op = "reopen"
  BY <1>5
<1>6. CASE op = "close"
  BY <1>6
<1>7. CASE op = "archive"
  BY <1>7 DEF Terminal, Archived, ArchivePatch
<1>8. CASE op = "renew"
  BY <1>8
<1> QED BY <1>1, <1>2, <1>3, <1>4, <1>5, <1>6, <1>7, <1>8 DEF Operations

\* What is decided on the row that was read still fits.
LEMMA DecideKeeps ==
    ASSUME BoardInv, NEW p \in Process, Decide(p)
    PROVE  BoardInv'
<1> DEFINE j == job[p]
           ws == IF Allowed(j.op, j.seen) THEN <<Write(j.task, PatchOf(j.op, j.seen, j.n))>> ELSE <<>>
<1>1. at[p] = "read" /\ j.op \in Operations /\ Goes(p, ws)
      /\ UNCHANGED <<board, left, fresh, given, contested, crossed, doubtful>>
  BY OpsAreKnown DEF Decide
<1>2. Fits(board, contested, crossed, doubtful, fresh, "read", j)
  BY <1>1 DEF BoardInv
<1>3. j.task \in j.foot \ fresh /\ Same(board, contested, j.task, j.seen)
  BY <1>2 DEF Fits
<1>4. ASSUME ws # <<>> PROVE MayWrite(board, contested, crossed, doubtful, fresh, j, ws)
  <2>1. Allowed(j.op, j.seen) /\ ws = <<Write(j.task, PatchOf(j.op, j.seen, j.n))>>
    BY <1>4
  <2> DEFINE patch == PatchOf(j.op, j.seen, j.n)
  <2>2. /\ DOMAIN patch \subseteq {"notes", "status", "closed", "obsolete"}
        /\ "notes" \in DOMAIN patch => patch.notes = j.seen.notes \cup {j.n}
        /\ "status" \in DOMAIN patch /\ Terminal(j.seen) /\ patch.status # j.seen.status => j.op = "reopen"
    BY <1>1, <2>1, PatchIsAllowed
  <2>3. IsSeq(ws) /\ Len(ws) = 1 /\ ws[1] = Write(j.task, patch)
    BY <2>1, ShortSeqs
  <2> HIDE DEF patch, ws
  <2>4. ASSUME NEW j2, \A field \in JobFields \ {"writes"} : j2[field] = j[field], j2.writes = ws
        PROVE  /\ Writes(board, contested, fresh, j2)
               /\ j2.op = "merge" => Halfway(board, contested, crossed, fresh, j2)
               /\ j2.op = "create" => KeyIsFree(board, contested, doubtful, j2, {j2.task})
    <3>1. j2.op = j.op /\ j2.task = j.task /\ j2.foot = j.foot /\ j2.n = j.n
      BY <2>4 DEF JobFields
    <3>2. j2.op \notin {"merge", "create"}
      BY <3>1, <1>1 DEF Operations
    <3>3. j2.writes[1].task = j.task /\ j2.writes[1].patch = patch /\ Len(j2.writes) = 1
      BY <2>3, <2>4 DEF Write
    <3>4. WriteFits(board, contested, fresh, j2, 1)
      BY <1>3, <2>2, <3>1, <3>2, <3>3 DEF WriteFits, Same, Stays
    <3>5. Writes(board, contested, fresh, j2)
      BY <1>4, <2>3, <2>4, <3>4 DEF Writes, ws
    <3> QED BY <3>2, <3>5
  <2> QED BY <2>4 DEF MayWrite
<1> HIDE DEF ws
<1>5. ws # <<>> => MayWrite(board, contested', crossed', doubtful', fresh, job[p], ws)
  BY <1>1, <1>4
<1> QED BY <1>1, <1>5, GoingKeeps DEF Busy

\* The first candidate of a batch.
LEMMA TriageKeeps ==
    ASSUME BoardInv, NEW p \in Process, Triage(p)
    PROVE  BoardInv'
<1> DEFINE ws == <<>>
<1>1. Goes(p, ws) /\ Busy(p) /\ ws = <<>>
      /\ UNCHANGED <<board, left, fresh, given, contested, crossed, doubtful>>
  BY DEF Triage, Busy
<1> HIDE DEF ws
<1> QED BY <1>1, GoingKeeps

\* A crash leaves nothing but the board.
LEMMA CrashKeeps ==
    ASSUME BoardInv, NEW p \in Process, Crash(p)
    PROVE  BoardInv'
<1>1. /\ at' = [at EXCEPT ![p] = "idle"] /\ job' = [job EXCEPT ![p] = NoJob]
      /\ UNCHANGED <<board, left, fresh, given, contested, crossed, doubtful>>
  BY DEF Crash, Learns
<1>2. Fits(board, contested', crossed', doubtful', fresh, "idle", NoJob) /\ NoJob.foot = {}
  BY IdleFits
<1>3. \A q \in Process \ {p} : Beside(crossed', doubtful', "idle", NoJob, at[q], job[q])
  BY DEF Beside
<1> QED BY <1>1, <1>2, <1>3, QuietKeeps

\* A command that comes to know more, and does not go on to write.
LEMMA LearnsKeep ==
    ASSUME BoardInv, NEW p \in Process, NEW j2, NEW a2, Learns(p, j2, a2), Busy(p),
           UNCHANGED <<board, fresh, given>>,
           contested \subseteq contested', crossed \subseteq crossed', doubtful \subseteq doubtful',
           j2.op = job[p].op, j2.key = job[p].key, j2.all = job[p].all, j2.task = job[p].task,
           at[p] \in {"plan", "writing", "fetched"} \/ a2 \notin {"plan", "writing", "fetched"},
           j2.foot = job[p].foot,
           Fits(board, contested', crossed', doubtful', fresh, a2, j2)
    PROVE  BoardInv'
<1>1. at' = [at EXCEPT ![p] = a2] /\ job' = [job EXCEPT ![p] = j2]
  BY DEF Learns
<1>2. ASSUME NEW q \in Process \ {p}
      PROVE  /\ j2.foot \cap job[q].foot \subseteq contested'
             /\ Beside(crossed', doubtful', a2, j2, at[q], job[q])
  <2>1. /\ job[p].foot \cap job[q].foot \subseteq contested
        /\ Beside(crossed, doubtful, at[p], job[p], at[q], job[q])
    BY <1>2 DEF BoardInv
  <2> QED BY <2>1, BesideGoesOn DEF Busy
<1> QED BY <1>1, <1>2, QuietKeeps

\* The target of a merge, or none.
LEMMA ReadTargetKeeps ==
    ASSUME BoardInv, NEW p \in Process, ReadTarget(p)
    PROVE  BoardInv'
<1> DEFINE j == job[p]
           j2 == [j EXCEPT !.other = board[j.target]]
<1>1. at[p] = "target" /\ Busy(p)
      /\ UNCHANGED <<board, left, fresh, given, contested, crossed, doubtful>>
  BY DEF ReadTarget, Busy
<1>2. Fits(board, contested, crossed, doubtful, fresh, "target", j)
  BY <1>1 DEF BoardInv
<1>3. CASE j.target \in DOMAIN board
  <2>1. Learns(p, j2, "all")
    BY <1>3 DEF ReadTarget
  <2>2. /\ DOMAIN j2 = JobFields /\ j2.other = board[j.target]
        /\ j2.op = j.op /\ j2.key = j.key /\ j2.all = j.all /\ j2.task = j.task /\ j2.target = j.target
        /\ j2.foot = j.foot /\ j2.batch = j.batch /\ j2.seen = j.seen /\ j2.reread = j.reread
    BY <1>2 DEF Fits, JobFields
  <2> HIDE DEF j2
  <2>3. j.target \notin fresh
    BY <1>3 DEF BoardInv, Rows
  <2>4. Joins(fresh, j2) /\ Known(board, contested, fresh, j2)
    BY <1>2, <1>3, <2>2, <2>3 DEF Fits, Joins, Known, Same
  <2>5. Waits(board, contested, fresh, j2)
    BY <1>2, <2>2 DEF Fits, Waits
  <2>6. Fits(board, contested, crossed, doubtful, fresh, "all", j2)
    BY <1>2, <2>2, <2>4, <2>5 DEF Fits
  <2>7. Fits(board, contested', crossed', doubtful', fresh, "all", j2)
    BY <1>1, <2>6
  <2> QED BY <1>1, <2>1, <2>2, <2>7, LearnsKeep
<1>4. CASE j.target \notin DOMAIN board
  <2> DEFINE ws == <<>>
  <2>1. Goes(p, ws) /\ ws = <<>>
    BY <1>4 DEF ReadTarget
  <2> HIDE DEF ws
  <2> QED BY <1>1, <2>1, GoingKeeps
<1> QED BY <1>3, <1>4

\* What is read of the whole board is right about it, and the merge is one to move
\* children that no other merge moves, or else that are crossed.
LEMMA ReadAllKeeps ==
    ASSUME BoardInv, NEW p \in Process, ReadAll(p)
    PROVE  BoardInv'
<1> DEFINE j == job[p]
           children == Children(board, j.task)
           known == [j EXCEPT !.all = board, !.foot = @ \cup children]
<1>1. /\ at[p] = "all" /\ Busy(p) /\ Touch(p, j.foot \cup children)
      /\ UNCHANGED <<board, left, fresh, given, doubtful>>
      /\ crossed' = crossed \cup IF \E q \in Process \ {p} : Merging(q) THEN children ELSE {}
  BY DEF ReadAll, Busy
<1>2. Fits(board, contested, crossed, doubtful, fresh, "all", j)
  BY <1>1 DEF BoardInv
<1>3. /\ contested \subseteq contested' /\ crossed \subseteq crossed'
      /\ \A q \in Process \ {p} : (j.foot \cup children) \cap job[q].foot \subseteq contested'
  BY <1>1, TouchedAreContested
<1>4. children \subseteq DOMAIN board /\ DOMAIN board \subseteq Task \ fresh /\ j.foot \subseteq Task
  BY <1>2 DEF Children, BoardInv, Rows, Fits
<1>5. ASSUME NEW j2, Learns(p, j2, "plan"), DOMAIN j2 = JobFields, j2.op = "merge", j2.all = board,
             j2.foot = j.foot \cup children, j2.task = j.task, j2.target = j.target, j2.batch = j.batch,
             Known(board, contested', fresh, j2)
      PROVE  BoardInv'
  <2>1. at' = [at EXCEPT ![p] = "plan"] /\ job' = [job EXCEPT ![p] = j2]
    BY <1>5 DEF Learns
  <2>2. Waits(board, contested', fresh, j2)
    BY <1>2, <1>3, <1>5 DEF Fits, Waits
  <2>3. Joins(fresh, j2)
    BY <1>2, <1>5 DEF Fits, Joins
  <2>4. Snapshot(board, contested', crossed', fresh, j2)
    <3>1. \A u \in DOMAIN board \ contested' : board[u].parent \notin fresh
      BY <1>3 DEF BoardInv, Rows
    <3> QED BY <1>4, <1>5, <3>1 DEF Snapshot, Stays, Children
  <2>5. Fits(board, contested', crossed', doubtful', fresh, "plan", j2)
    BY <1>1, <1>4, <1>5, <2>2, <2>3, <2>4 DEF Fits
  <2>6. ASSUME NEW q \in Process \ {p}
        PROVE  /\ j2.foot \cap job[q].foot \subseteq contested'
               /\ Beside(crossed', doubtful', "plan", j2, at[q], job[q])
    <3>1. Merging(q) => Moved(crossed', j2)
      BY <1>1, <1>5 DEF Moved
    <3> QED BY <3>1, <1>3, <1>5 DEF Beside, Merging
  <2> QED BY <1>1, <1>3, <2>1, <2>5, <2>6, QuietKeeps
<1>6. CASE ~j.reread
  <2>1. Learns(p, known, "plan")
    BY <1>6 DEF ReadAll
  <2>2. /\ DOMAIN known = JobFields /\ known.op = "merge" /\ known.all = board
        /\ known.foot = j.foot \cup children /\ known.task = j.task /\ known.target = j.target
        /\ known.batch = j.batch /\ known.seen = j.seen /\ known.other = j.other
    BY <1>2 DEF Fits, JobFields, Joins
  <2> HIDE DEF known
  <2>3. Known(board, contested', fresh, known)
    BY <1>2, <1>3, <1>6, <2>2 DEF Fits, Known, Same
  <2> QED BY <2>1, <2>2, <2>3, <1>5
<1>7. CASE j.reread /\ {j.task, j.target} \subseteq DOMAIN board /\ IsOpen(board[j.task]) /\ IsOpen(board[j.target])
  <2> DEFINE both == [known EXCEPT !.seen = board[j.task], !.other = board[j.target]]
  <2>1. Learns(p, both, "plan")
    BY <1>7 DEF ReadAll
  <2>2. /\ DOMAIN known = JobFields /\ known.op = "merge" /\ known.all = board
        /\ known.foot = j.foot \cup children /\ known.task = j.task /\ known.target = j.target
        /\ known.batch = j.batch
    BY <1>2 DEF Fits, JobFields, Joins
  <2> HIDE DEF known
  <2>3. /\ DOMAIN both = JobFields /\ both.op = "merge" /\ both.all = board
        /\ both.foot = j.foot \cup children /\ both.task = j.task /\ both.target = j.target
        /\ both.batch = j.batch /\ both.seen = board[j.task] /\ both.other = board[j.target]
    BY <2>2 DEF JobFields
  <2> HIDE DEF both
  <2>4. Known(board, contested', fresh, both)
    BY <1>4, <1>7, <2>3 DEF Known, Same
  <2> QED BY <2>1, <2>3, <2>4, <1>5
<1>8. CASE j.reread /\ ~({j.task, j.target} \subseteq DOMAIN board /\ IsOpen(board[j.task]) /\ IsOpen(board[j.target]))
  <2> DEFINE ws == <<>>
  <2>1. Goes(p, ws) /\ ws = <<>>
    BY <1>8 DEF ReadAll
  <2> HIDE DEF ws
  <2> QED BY <1>1, <1>3, <2>1, GoingKeeps
<1> QED BY <1>6, <1>7, <1>8

\* The fields of a write and of a patch.
LEMMA WriteTells ==
    /\ \A t, patch : Write(t, patch).task = t /\ Write(t, patch).patch = patch
    /\ \A S : DOMAIN [notes |-> S] = {"notes"} /\ [notes |-> S].notes = S
    /\ \A t : DOMAIN [parent |-> t] = {"parent"} /\ [parent |-> t].parent = t
BY DEF Write

\* The notes come first, then every child but the target, then the source.
LEMMA MergeWritesAll ==
    ASSUME NEW j, DOMAIN j.all \subseteq Task
    PROVE  LET ws == MergeWrites(j)
               moved == Children(j.all, j.task) \ {j.target} IN
           /\ IsSeq(ws) /\ ws # <<>> /\ Len(ws) \in Nat /\ Len(ws) > 1
           /\ ws[1] = Write(j.target, [notes |-> j.other.notes \cup j.seen.notes])
           /\ ws[Len(ws)] = Write(j.task, MergedPatch(j.target))
           /\ \A i \in 1..Len(ws) : i # 1 /\ i # Len(ws) =>
                  \E t \in moved : ws[i] = Write(t, [parent |-> j.target])
           /\ \A t \in moved : \E i \in 1..Len(ws) : ws[i] = Write(t, [parent |-> j.target])
<1> DEFINE moved == Children(j.all, j.task) \ {j.target}
           ts == SetToSeq(moved)
           one == Write(j.target, [notes |-> j.other.notes \cup j.seen.notes])
           last == Write(j.task, MergedPatch(j.target))
           Each(t) == Write(t, [parent |-> j.target])
           mid == [i \in DOMAIN ts |-> Each(ts[i])]
           All == {one, last} \cup {Each(t) : t \in moved}
           ws == <<one>> \o mid \o <<last>>
<1>1. IsFiniteSet(moved)
  BY TasksAreFinite, FS_Subset DEF Children
<1>2. ts \in Seq(moved) /\ \A t \in moved : \E i \in 1..Len(ts) : ts[i] = t
  BY <1>1, SetToSeqFacts
<1>3. MergeWrites(j) = ws
  BY DEF MergeWrites
<1> HIDE DEF moved, ts, one, last, Each
<1>4. Len(ts) \in Nat /\ DOMAIN ts = 1..Len(ts) /\ \A i \in 1..Len(ts) : ts[i] \in moved
  BY <1>2
<1>5. mid \in Seq(All) /\ Len(mid) = Len(ts) /\ \A i \in 1..Len(ts) : mid[i] = Each(ts[i])
  BY <1>4
<1>6. <<one>> \in Seq(All) /\ <<last>> \in Seq(All)
  OBVIOUS
<1> HIDE DEF mid, All
<1>7. <<one>> \o mid \in Seq(All) /\ Len(<<one>> \o mid) = Len(ts) + 1
      /\ (<<one>> \o mid)[1] = one /\ \A i \in 1..Len(ts) : (<<one>> \o mid)[i + 1] = mid[i]
  BY <1>4, <1>5, <1>6
<1>8. ws \in Seq(All) /\ Len(ws) = Len(ts) + 2 /\ ws[Len(ws)] = last
      /\ \A i \in 1..(Len(ts) + 1) : ws[i] = (<<one>> \o mid)[i]
  BY <1>4, <1>5, <1>6, <1>7
<1> HIDE DEF ws
<1>9. ws[1] = one
  BY <1>4, <1>7, <1>8
<1>10. ASSUME NEW i \in 1..Len(ws), i # 1, i # Len(ws)
       PROVE  \E t \in moved : ws[i] = Each(t)
  <2>1. i - 1 \in 1..Len(ts) /\ (i - 1) + 1 = i /\ i \in 1..(Len(ts) + 1)
    BY <1>4, <1>8, <1>10
  <2>2. ws[i] = Each(ts[i - 1]) /\ ts[i - 1] \in moved
    BY <2>1, <1>4, <1>5, <1>7, <1>8
  <2> QED BY <2>2
<1>11. ASSUME NEW t \in moved PROVE \E i \in 1..Len(ws) : ws[i] = Each(t)
  <2>1. PICK i \in 1..Len(ts) : ts[i] = t
    BY <1>2
  <2>2. i + 1 \in 1..(Len(ts) + 1) /\ i + 1 \in 1..Len(ws)
    BY <1>4, <1>8
  <2>3. ws[i + 1] = Each(t)
    BY <2>1, <2>2, <1>5, <1>7, <1>8
  <2> QED BY <2>2, <2>3
<1>12. IsSeq(ws) /\ ws # <<>>
  BY <1>4, <1>8, SeqsAreSeqs
<1> QED BY <1>3, <1>4, <1>8, <1>9, <1>10, <1>11, <1>12 DEF one, last, Each, moved

\* A merge that is allowed goes to a target that nothing below the source leads to.
LEMMA MergeLeads ==
    ASSUME NEW b, NEW c, NEW x, NEW f, NEW j, f \subseteq Task, j.foot \subseteq Task,
           Joins(f, j), Known(b, c, f, j), Snapshot(b, c, x, f, j), MergeAllowed(j), ~Moved(x, j)
    PROVE  \E S \in SUBSET Ids : Leads(b, c, x, j, S)
<1> DEFINE gone == {t \in DOMAIN b \ (c \cup x) : t \notin DOMAIN j.all}
<1>1. j.task \in Ids /\ j.target \in Task /\ j.task # j.target
  BY DEF Joins, Ids
<1>2. PICK S \in SUBSET Ids : j.other.parent \in S /\ Upward(j.all, S) /\ j.task \notin S
  BY <1>1 DEF MergeAllowed, Above, Ids
<1>3. /\ \A t \in DOMAIN b \ (c \cup x) :
             IF t \in DOMAIN j.all THEN b[t].parent = j.all[t].parent
             ELSE t # j.target /\ \A u \in DOMAIN j.all \ c : j.all[u].parent # t
  BY DEF Snapshot
<1> DEFINE X == (S \cup {j.target}) \ gone
<1>4. j.target \in X /\ X \in SUBSET Ids
  BY <1>1, <1>2, <1>3 DEF Ids
<1>5. X \cap Children(j.all, j.task) \subseteq {j.target}
  BY <1>2 DEF Children, Upward
<1>6. ASSUME NEW t \in X, t \in DOMAIN b \ (c \cup x) PROVE b[t].parent \in X
  <2>1. t \in DOMAIN j.all /\ b[t].parent = j.all[t].parent
    BY <1>3, <1>6
  <2>2. b[t].parent \notin gone
    BY <1>3, <1>6, <2>1
  <2>3. CASE t \in S
    BY <2>1, <2>2, <2>3, <1>2 DEF Upward
  <2>4. CASE t = j.target
    BY <2>2, <2>4, <1>2, <1>6 DEF Known, Same
  <2> QED BY <2>3, <2>4, <1>6
<1> QED BY <1>4, <1>5, <1>6 DEF Leads

\* planMerge: what a merge has to write fits what it read.
LEMMA PlanningKeeps ==
    ASSUME BoardInv, NEW p \in Process, Plan(p)
    PROVE  BoardInv'
<1> DEFINE j == job[p]
           ws == IF MergeAllowed(j) THEN MergeWrites(j) ELSE <<>>
           moved == Children(j.all, j.task) \ {j.target}
<1>1. at[p] = "plan" /\ j.op = "merge" /\ Goes(p, ws)
      /\ UNCHANGED <<board, left, fresh, given, contested, crossed, doubtful>>
  BY DEF Plan
<1>2. /\ Joins(fresh, j) /\ Known(board, contested, fresh, j)
      /\ Snapshot(board, contested, crossed, fresh, j) /\ j.foot \subseteq Task
  BY <1>1 DEF BoardInv, Fits
<1>3. ASSUME ws # <<>> PROVE MayWrite(board, contested, crossed, doubtful, fresh, j, ws)
  <2>1. MergeAllowed(j) /\ ws = MergeWrites(j)
    BY <1>3
  <2> HIDE DEF ws, j
  <2>2. /\ IsSeq(ws) /\ ws # <<>> /\ Len(ws) \in Nat /\ Len(ws) > 1
        /\ ws[1] = Write(j.target, [notes |-> j.other.notes \cup j.seen.notes])
        /\ ws[Len(ws)] = Write(j.task, MergedPatch(j.target))
        /\ \A i \in 1..Len(ws) : i # 1 /\ i # Len(ws) =>
                  \E t \in moved : ws[i] = Write(t, [parent |-> j.target])
        /\ \A t \in moved : \E i \in 1..Len(ws) : ws[i] = Write(t, [parent |-> j.target])
    BY <2>1, <1>2, MergeWritesAll DEF Snapshot
  <2>3. fresh \subseteq Task
    BY DEF BoardInv
  <2>4. Moved(crossed, j) \/ \E S \in SUBSET Ids : Leads(board, contested, crossed, j, S)
    BY <2>1, <2>3, <1>2, MergeLeads
  <2>5. /\ j.task \in j.foot \ fresh /\ j.target \in j.foot \ fresh /\ j.task # j.target
        /\ j.target \in Task /\ j.target # None
        /\ Stays(board, contested, j.task) /\ Stays(board, contested, j.target)
    BY <1>2, NoneIsNothing DEF Joins, Known, Same, Stays
  <2>6. \A t \in moved : t \in j.foot \ fresh /\ Stays(board, contested, t)
    BY <1>2 DEF Snapshot, Children
  <2>7. ASSUME NEW j2, \A field \in JobFields \ {"writes"} : j2[field] = j[field], j2.writes = ws
        PROVE  /\ Writes(board, contested, fresh, j2)
               /\ Halfway(board, contested, crossed, fresh, j2)
    <3>1. j2.op = "merge" /\ j2.task = j.task /\ j2.target = j.target /\ j2.foot = j.foot /\ j2.all = j.all
      BY <2>7, <1>1 DEF JobFields, j
    <3>2. WriteFits(board, contested, fresh, j2, 1)
      <4>1. /\ j2.writes[1].task = j.target
            /\ j2.writes[1].patch = [notes |-> j.other.notes \cup j.seen.notes]
            /\ DOMAIN j2.writes[1].patch = {"notes"}
        BY <2>2, <2>7, WriteTells
      <4>2. j.target \notin contested => board[j.target].notes \subseteq j.other.notes
        BY <1>2 DEF Known, Same
      <4> QED BY <4>1, <4>2, <2>5, <3>1 DEF WriteFits
    <3>3. WriteFits(board, contested, fresh, j2, Len(ws))
      <4>1. /\ j2.writes[Len(ws)].task = j.task
            /\ j2.writes[Len(ws)].patch = MergedPatch(j.target)
        BY <2>2, <2>7, WriteTells
      <4>2. j.task \notin contested => ~Terminal(board[j.task])
        BY <1>2, <2>1 DEF Known, Same, MergeAllowed, IsOpen, Terminal, Archived
      <4> QED BY <4>1, <4>2, <2>5, <2>7, <3>1 DEF WriteFits, MergedPatch
    <3>4. ASSUME NEW i \in 1..Len(ws), i # 1, i # Len(ws)
          PROVE  WriteFits(board, contested, fresh, j2, i)
      <4>1. PICK t \in moved : ws[i] = Write(t, [parent |-> j.target])
        BY <2>2, <3>4
      <4>2. /\ j2.writes[i].task = t /\ j2.writes[i].patch = [parent |-> j.target]
            /\ DOMAIN j2.writes[i].patch = {"parent"} /\ j2.writes[i].patch.parent = j.target
        BY <2>7, <4>1, WriteTells
      <4> QED BY <4>2, <2>6, <3>1 DEF WriteFits
    <3>5. Writes(board, contested, fresh, j2)
      BY <2>2, <2>7, <3>2, <3>3, <3>4 DEF Writes
    <3>6. j.target \notin contested => board[j.target].parent # j.task
      BY <1>2, <2>1 DEF Known, Same, MergeAllowed
    <3>7. ASSUME j.task \notin contested, NEW t \in DOMAIN board \ contested, board[t].parent = j.task
          PROVE  \E i \in 1..Len(j2.writes) : j2.writes[i].task = t /\ "parent" \in DOMAIN j2.writes[i].patch
      <4>1. t \in moved
        BY <1>2, <3>6, <3>7 DEF Snapshot
      <4>2. PICK i \in 1..Len(ws) : ws[i] = Write(t, [parent |-> j.target])
        BY <2>2, <4>1
      <4> QED BY <4>2, <2>7 DEF Write
    <3>8. j.task \notin contested =>
              /\ "notes" \in DOMAIN j2.writes[1].patch /\ j2.writes[1].task = j.target
              /\ board[j.task].notes \subseteq j2.writes[1].patch.notes
      BY <1>2, <2>2, <2>7 DEF Known, Same, Write
    <3>9. Joins(fresh, j2) /\ (Moved(crossed, j2) \/ \E S \in SUBSET Ids : Leads(board, contested, crossed, j2, S))
      BY <1>2, <2>4, <3>1 DEF Joins, Moved, Leads
    <3> QED BY <2>5, <3>1, <3>5, <3>6, <3>7, <3>8, <3>9 DEF Halfway
  <2>8. ASSUME NEW j2, \A field \in JobFields \ {"writes"} : j2[field] = j[field] PROVE j2.op # "create"
    BY <2>8, <1>1 DEF JobFields, j
  <2> QED BY <2>7, <2>8 DEF MayWrite
<1>4. Busy(p)
  BY <1>1 DEF Busy
<1> HIDE DEF ws
<1>5. ws # <<>> => MayWrite(board, contested', crossed', doubtful', fresh, job[p], ws)
  BY <1>1, <1>3
<1> QED BY <1>1, <1>4, <1>5, GoingKeeps

\* create, once it has read everything.
LEMMA CreateKeeps ==
    ASSUME BoardInv, NEW p \in Process, Create(p)
    PROVE  BoardInv'
<1> DEFINE j == job[p]
<1>1. at[p] = "plan" /\ j.op = "create" /\ Busy(p)
      /\ UNCHANGED <<board, left, fresh, given, contested, crossed, doubtful>>
  BY DEF Create, Busy
<1>2. /\ Creates(fresh, j) /\ KeyIsFree(board, contested, doubtful, j, Existing(j))
      /\ \A t \in Alike(j.all, j.label) : t \in j.foot \ fresh /\ Same(board, contested, t, j.all[t])
      /\ Fits(board, contested, crossed, doubtful, fresh, "plan", j)
  BY <1>1 DEF BoardInv, Fits
<1>3. ASSUME NEW ws, Goes(p, ws), ws = <<>> PROVE BoardInv'
  BY <1>1, <1>3, GoingKeeps
<1>4. ASSUME j.key = None, NEW h \in Hosts(j), NEW ws, Goes(p, ws),
             ws = <<Write(h, [notes |-> j.all[h].notes \cup {j.n}])>>
      PROVE  BoardInv'
  <2>1. h \in j.foot \ fresh /\ Same(board, contested, h, j.all[h])
    BY <1>2, <1>4 DEF Hosts
  <2>2. /\ IsSeq(ws) /\ Len(ws) = 1 /\ ws # <<>>
        /\ ws[1] = Write(h, [notes |-> j.all[h].notes \cup {j.n}])
    BY <1>4, ShortSeqs
  <2>3. ASSUME NEW j2, \A field \in JobFields \ {"writes"} : j2[field] = j[field], j2.writes = ws
        PROVE  /\ Writes(board, contested, fresh, j2)
               /\ j2.op # "merge" /\ KeyIsFree(board, contested, doubtful, j2, {j2.task})
    <3>1. j2.op = "create" /\ j2.key = None /\ j2.foot = j.foot /\ j2.n = j.n
      BY <1>1, <1>4, <2>3 DEF JobFields
    <3>2. /\ j2.writes[1].task = h /\ j2.writes[1].patch = [notes |-> j.all[h].notes \cup {j.n}]
          /\ DOMAIN j2.writes[1].patch = {"notes"}
      BY <2>2, <2>3, WriteTells
    <3>3. WriteFits(board, contested, fresh, j2, 1)
      BY <2>1, <3>1, <3>2 DEF WriteFits, Same, Stays
    <3>4. Writes(board, contested, fresh, j2)
      <4>1. IsSeq(j2.writes) /\ Len(j2.writes) = 1 /\ j2.writes # <<>>
        BY <2>2, <2>3
      <4>2. \A i \in 1..Len(j2.writes) : i = 1
        BY <4>1
      <4> QED BY <4>1, <4>2, <3>3 DEF Writes
    <3> QED BY <3>1, <3>4 DEF KeyIsFree
  <2>4. MayWrite(board, contested, crossed, doubtful, fresh, j, ws)
    BY <2>3 DEF MayWrite
  <2>5. MayWrite(board, contested', crossed', doubtful', fresh, job[p], ws)
    BY <1>1, <2>4
  <2> QED BY <1>1, <1>4, <2>5, GoingKeeps
<1>5. ASSUME Existing(j) = {}, Learns(p, j, "insert") PROVE BoardInv'
  <2>1. KeyIsFree(board, contested, doubtful, j, {})
    BY <1>2, <1>5
  <2>2. Fits(board, contested, crossed, doubtful, fresh, "insert", j)
    BY <1>1, <1>2, <2>1 DEF Fits
  <2>3. Fits(board, contested', crossed', doubtful', fresh, "insert", j)
    BY <1>1, <2>2
  <2> QED BY <1>1, <1>5, <2>3, LearnsKeep
<1>6. \/ \E ws : Goes(p, ws) /\ ws = <<>>
      \/ Existing(j) = {} /\ Learns(p, j, "insert")
      \/ \E h \in Hosts(j) : \E ws : /\ j.key = None /\ Goes(p, ws)
                                     /\ ws = <<Write(h, [notes |-> j.all[h].notes \cup {j.n}])>>
  BY DEF Create
<1> QED BY <1>3, <1>4, <1>5, <1>6

\* The same command after its first write.
Rest(j, j2) ==
    /\ \A field \in JobFields \ {"writes"} : j2[field] = j[field]
    /\ j2.writes = Tail(j.writes) /\ j2.writes # <<>>

\* The writes after the first are those of before, one place earlier.
LEMMA RestOfWrites ==
    ASSUME NEW b, NEW c, NEW f, NEW j, Writes(b, c, f, j), NEW j2, Rest(j, j2)
    PROVE  /\ IsSeq(j2.writes) /\ j2.writes # <<>> /\ Len(j2.writes) = Len(j.writes) - 1
           /\ Len(j2.writes) \in Nat
           /\ \A i \in 1..Len(j2.writes) :
                  /\ j2.writes[i] = j.writes[i + 1] /\ i + 1 \in 1..Len(j.writes) /\ i + 1 # 1
                  /\ WriteFits(b, c, f, j, i + 1)
           /\ j2.op = j.op /\ j2.foot = j.foot /\ j2.n = j.n /\ j2.task = j.task /\ j2.target = j.target
           /\ j2.key = j.key /\ j2.all = j.all
<1>1. j2.op = j.op /\ j2.foot = j.foot /\ j2.n = j.n /\ j2.task = j.task /\ j2.target = j.target
      /\ j2.key = j.key /\ j2.all = j.all
  BY DEF JobFields, Rest
<1>2. /\ Len(j.writes) \in Nat \ {0} /\ IsSeq(Tail(j.writes)) /\ Len(Tail(j.writes)) = Len(j.writes) - 1
      /\ \A i \in 1..Len(Tail(j.writes)) : Tail(j.writes)[i] = j.writes[i + 1] /\ i + 1 \in 1..Len(j.writes)
  BY TailOfSeq DEF Writes
<1>3. j2.writes = Tail(j.writes) /\ j2.writes # <<>>
  BY DEF Rest
<1>4. \A i \in 1..Len(j2.writes) : i + 1 # 1 /\ i + 1 \in 1..Len(j.writes)
  BY <1>2, <1>3
<1> QED BY <1>1, <1>2, <1>3, <1>4 DEF Writes

\* A row that is read again, is gone, or is a child that is gone.
LEMMA FetchKeeps ==
    ASSUME BoardInv, NEW p \in Process, Fetch(p)
    PROVE  BoardInv'
<1> DEFINE j == job[p]
           w == Head(j.writes)
<1>1. at[p] = "writing" /\ Busy(p)
      /\ UNCHANGED <<board, left, fresh, given, contested, crossed, doubtful>>
  BY DEF Fetch, Busy
<1>2. Fits(board, contested, crossed, doubtful, fresh, "writing", j)
  BY <1>1 DEF BoardInv
<1>3. /\ Writes(board, contested, fresh, j)
      /\ j.op = "merge" => Halfway(board, contested, crossed, fresh, j)
      /\ j.op = "create" => KeyIsFree(board, contested, doubtful, j, {j.task})
      /\ w = j.writes[1]
  BY <1>2, TailOfSeq DEF Fits, Writes
<1>4. CASE w.task \in DOMAIN board
  <2> DEFINE j2 == [j EXCEPT !.row = board[w.task]]
  <2>1. Learns(p, j2, "fetched")
    BY <1>4 DEF Fetch
  <2>2. /\ DOMAIN j2 = JobFields /\ j2.row = board[w.task]
        /\ j2.op = j.op /\ j2.key = j.key /\ j2.all = j.all /\ j2.task = j.task /\ j2.target = j.target
        /\ j2.foot = j.foot /\ j2.batch = j.batch /\ j2.writes = j.writes /\ j2.n = j.n
    BY <1>2 DEF Fits, JobFields
  <2> HIDE DEF j2
  <2>3. Waits(board, contested, fresh, j2)
    BY <1>2, <2>2 DEF Fits, Waits
  <2>4. Writes(board, contested, fresh, j2)
    <3>1. ASSUME NEW i, WriteFits(board, contested, fresh, j, i)
          PROVE  WriteFits(board, contested, fresh, j2, i)
      BY <2>2, <3>1 DEF WriteFits
    <3> QED BY <3>1, <1>3, <2>2 DEF Writes
  <2>5. j2.op = "merge" => Halfway(board, contested, crossed, fresh, j2)
    BY <1>3, <2>2 DEF Halfway, Joins, Moved, Leads
  <2>6. j2.op = "create" => KeyIsFree(board, contested, doubtful, j2, {j2.task})
    BY <1>3, <2>2 DEF KeyIsFree
  <2>7. Same(board, contested, j2.writes[1].task, j2.row)
    BY <1>3, <1>4, <2>2 DEF Same
  <2>8. Fits(board, contested, crossed, doubtful, fresh, "fetched", j2)
    BY <1>2, <2>2, <2>3, <2>4, <2>5, <2>6, <2>7 DEF Fits
  <2>9. Fits(board, contested', crossed', doubtful', fresh, "fetched", j2)
    BY <1>1, <2>8
  <2> QED BY <1>1, <2>1, <2>2, <2>9, LearnsKeep
<1>5. CASE w.task \notin DOMAIN board /\ "parent" \in DOMAIN w.patch
  <2> DEFINE ws == Tail(j.writes)
  <2>1. Goes(p, ws)
    BY <1>5 DEF Fetch
  <2>2. 1 \in 1..Len(j.writes) /\ WriteFits(board, contested, fresh, j, 1)
    BY <1>3, TailOfSeq DEF Writes
  <2>3. j.op = "merge" /\ DOMAIN w.patch = {"parent"}
    BY <1>3, <1>5, <2>2 DEF WriteFits
  <2>4. ASSUME ws # <<>>, NEW j2, \A field \in JobFields \ {"writes"} : j2[field] = j[field], j2.writes = ws
        PROVE  Writes(board, contested, fresh, j2) /\ Halfway(board, contested, crossed, fresh, j2)
    <3>0. Rest(j, j2)
      BY <2>4 DEF Rest
    <3> HIDE DEF j
    <3>1. /\ IsSeq(j2.writes) /\ j2.writes # <<>> /\ Len(j2.writes) = Len(j.writes) - 1
          /\ Len(j2.writes) \in Nat
          /\ \A i \in 1..Len(j2.writes) :
                 /\ j2.writes[i] = j.writes[i + 1] /\ i + 1 \in 1..Len(j.writes) /\ i + 1 # 1
                 /\ WriteFits(board, contested, fresh, j, i + 1)
          /\ j2.op = j.op /\ j2.foot = j.foot /\ j2.n = j.n /\ j2.task = j.task /\ j2.target = j.target
          /\ j2.key = j.key /\ j2.all = j.all
      BY <1>3, <3>0, RestOfWrites
    <3>2. ASSUME NEW i \in 1..Len(j2.writes) PROVE WriteFits(board, contested, fresh, j2, i)
      <4>1. /\ j2.writes[i] = j.writes[i + 1] /\ i + 1 # 1 /\ WriteFits(board, contested, fresh, j, i + 1)
            /\ i + 1 = Len(j.writes) <=> i = Len(j2.writes)
        BY <1>3, <3>1, TailOfSeq DEF Writes
      <4> QED BY <4>1, <3>1 DEF WriteFits
    <3>3. Writes(board, contested, fresh, j2)
      BY <3>1, <3>2 DEF Writes
    <3>4. ASSUME j.task \notin contested, NEW t \in DOMAIN board \ contested, board[t].parent = j.task
          PROVE  \E i \in 1..Len(j2.writes) : j2.writes[i].task = t /\ "parent" \in DOMAIN j2.writes[i].patch
      <4>1. PICK i \in 1..Len(j.writes) : j.writes[i].task = t /\ "parent" \in DOMAIN j.writes[i].patch
        BY <1>3, <2>3, <3>4 DEF Halfway
      <4>2. i # 1
        BY <1>3, <1>5, <4>1
      <4>3. i - 1 \in 1..Len(j2.writes) /\ (i - 1) + 1 = i
        BY <3>1, <4>1, <4>2
      <4>4. j2.writes[i - 1] = j.writes[i]
        BY <3>1, <4>3
      <4> QED BY <4>1, <4>3, <4>4
    <3>5. j.task \notin contested /\ j.target \notin contested => board[j.task].notes \subseteq board[j.target].notes
      BY <1>3, <2>3 DEF Halfway
    <3>6. Halfway(board, contested, crossed, fresh, j)
      BY <1>3, <2>3
    <3>7. Halfway(board, contested, crossed, fresh, j2)
      BY <3>1, <3>4, <3>5, <3>6 DEF Halfway, Joins, Moved, Leads
    <3> QED BY <3>3, <3>7
  <2>5. ASSUME NEW j2, \A field \in JobFields \ {"writes"} : j2[field] = j[field] PROVE j2.op # "create"
    BY <2>3, <2>5 DEF JobFields
  <2>6. ws # <<>> => MayWrite(board, contested, crossed, doubtful, fresh, j, ws)
    BY <2>4, <2>5 DEF MayWrite
  <2> HIDE DEF ws
  <2>7. ws # <<>> => MayWrite(board, contested', crossed', doubtful', fresh, job[p], ws)
    BY <1>1, <2>6
  <2> QED BY <1>1, <2>1, <2>7, GoingKeeps
<1>6. CASE w.task \notin DOMAIN board /\ "parent" \notin DOMAIN w.patch /\ j.op = "merge"
  <2> DEFINE ws == <<>>
  <2>1. Goes(p, ws) /\ ws = <<>>
    BY <1>6 DEF Fetch
  <2> HIDE DEF ws
  <2> QED BY <1>1, <2>1, GoingKeeps
<1>7. CASE w.task \notin DOMAIN board /\ "parent" \notin DOMAIN w.patch /\ j.op # "merge"
  <2>1. at' = [at EXCEPT ![p] = "idle"] /\ job' = [job EXCEPT ![p] = NoJob]
    BY <1>7 DEF Fetch, Learns
  <2>2. Fits(board, contested', crossed', doubtful', fresh, "idle", NoJob) /\ NoJob.foot = {}
    BY IdleFits
  <2>3. \A q \in Process \ {p} : Beside(crossed', doubtful', "idle", NoJob, at[q], job[q])
    BY DEF Beside
  <2> QED BY <1>1, <2>1, <2>2, <2>3, QuietKeeps
<1> QED BY <1>4, <1>5, <1>6, <1>7

\* clear leaves nothing: every other command is on contested tasks.
LEMMA ClearKeeps ==
    ASSUME BoardInv, NEW p \in Process, Clear(p)
    PROVE  BoardInv'
<1> DEFINE j == job[p]
           ws == <<>>
<1>1. /\ at[p] = "clearing" /\ board' = <<>> /\ given' = [t \in Task |-> {}] /\ Goes(p, ws)
      /\ UNCHANGED <<left, fresh, contested, crossed, doubtful>>
  BY DEF Clear
<1>2. Fits(board, contested, crossed, doubtful, fresh, "clearing", j) /\ fresh \subseteq Task
  BY <1>1 DEF BoardInv
<1>3. j.batch = <<>> /\ j.foot = Task
  BY <1>2 DEF Fits
<1>4. at' = [at EXCEPT ![p] = "idle"] /\ job' = [job EXCEPT ![p] = NoJob]
  BY <1>1, <1>3, GoesThere DEF GoesTo, GoesWith
<1>5. Fits(board', contested', crossed', doubtful', fresh', "idle", NoJob) /\ NoJob.foot = {}
  BY IdleFits
<1>6. DOMAIN board' = {}
  BY <1>1
<1>7. Rows(board', contested', fresh') /\ NotesAreKept(board', contested', fresh', given')
  BY <1>1, <1>2, <1>6 DEF Rows, NotesAreKept
<1>8. Step(board, contested, crossed, doubtful, fresh,
           board', contested', crossed', doubtful', fresh', at[p], job[p], Task)
  BY <1>1, <1>6 DEF Step
<1>9. ASSUME NEW q \in Process \ {p}
      PROVE  Task \cap job[q].foot \subseteq contested' /\ Beside(crossed', doubtful', "idle", NoJob, at[q], job[q])
  BY <1>1, <1>3, <1>9 DEF BoardInv, Beside
<1> QED BY <1>4, <1>5, <1>7, <1>8, <1>9, StepKeeps

\* A new row stands without its key, which its command has still to write.
LEMMA InsertKeeps ==
    ASSUME BoardInv, NEW p \in Process, Insert(p)
    PROVE  BoardInv'
<1> DEFINE j == job[p]
           meta == IF j.key = None THEN [notes |-> {j.n}] ELSE [key |-> j.key]
<1>1. at[p] = "insert" /\ UNCHANGED <<left, given, crossed, doubtful>>
  BY DEF Insert
<1>2. PICK t \in fresh :
        /\ fresh' = fresh \ {t} /\ Touch(p, {t})
        /\ board' = Stored(t, NewRow(j.label, j.parent))
        /\ Learns(p, [j EXCEPT !.foot = @ \cup {t}, !.task = t, !.writes = <<Write(t, meta)>>], "writing")
  BY DEF Insert
<1> DEFINE j2 == [j EXCEPT !.foot = @ \cup {t}, !.task = t, !.writes = <<Write(t, meta)>>]
<1>3. at' = [at EXCEPT ![p] = "writing"] /\ job' = [job EXCEPT ![p] = j2]
  BY <1>2 DEF Learns
<1>4. /\ Fits(board, contested, crossed, doubtful, fresh, "insert", j)
      /\ Rows(board, contested, fresh) /\ NotesAreKept(board, contested, fresh, given) /\ fresh \subseteq Task
  BY <1>1 DEF BoardInv
<1>5. /\ DOMAIN j2 = JobFields /\ j2.foot = j.foot \cup {t} /\ j2.task = t /\ j2.writes = <<Write(t, meta)>>
      /\ j2.op = "create" /\ j2.key = j.key /\ j2.batch = j.batch /\ j2.n = j.n
  BY <1>4 DEF Fits, Creates, JobFields
<1>6. /\ j.op = "create" /\ j.parent \in Ids \ fresh /\ (j.parent # None => j.parent \in j.foot)
      /\ KeyIsFree(board, contested, doubtful, j, {}) /\ Waits(board, contested, fresh, j)
      /\ j.foot \subseteq Task
  BY <1>4 DEF Fits, Creates
<1> DEFINE row == NewRow(j.label, j.parent)
<1>7. /\ DOMAIN board' = DOMAIN board \cup {t} /\ board'[t] = row /\ t \notin DOMAIN board
      /\ \A u \in DOMAIN board : board'[u] = board[u]
  BY <1>2, <1>4 DEF Stored, Rows
<1>8. /\ DOMAIN row = RowFields /\ row.parent = j.parent /\ row.notes = {} /\ row.key = None
      /\ ~Terminal(row)
  BY DEF NewRow, RowFields, Terminal, Archived
<1>9. /\ contested \subseteq contested'
      /\ \A q \in Process \ {p} : {t} \cap job[q].foot \subseteq contested'
  BY <1>2, TouchedAreContested
<1> HIDE DEF j, j2, row, meta
<1>10. Step(board, contested, crossed, doubtful, fresh,
            board', contested', crossed', doubtful', fresh', at[p], job[p], j2.foot)
  <2>1. /\ contested \subseteq contested' /\ crossed \subseteq crossed' /\ doubtful \subseteq doubtful'
        /\ fresh' \subseteq fresh /\ j2.foot \subseteq Task
    BY <1>1, <1>2, <1>4, <1>5, <1>6, <1>9
  <2>2. \A u \in Task \ (contested' \cup j2.foot) :
           /\ u \in DOMAIN board' <=> u \in DOMAIN board
           /\ u \in DOMAIN board => board'[u] = board[u]
    BY <1>5, <1>7
  <2>3. ASSUME NEW u \in DOMAIN board' \ contested'
        PROVE  /\ \/ u \in DOMAIN board /\ board'[u].parent = board[u].parent
                  \/ u \in fresh /\ board'[u].parent \in (j2.foot \cup {None}) \ fresh
               /\ IsOpen(board'[u]) /\ board'[u].key \notin {None} \cup doubtful' =>
                     u \in DOMAIN board /\ IsOpen(board[u]) /\ board[u].key = board'[u].key
    BY <1>2, <1>5, <1>6, <1>7, <1>8, <2>3
  <2> QED BY <2>1, <2>2, <2>3 DEF Step
<1>11. Rows(board', contested', fresh')
  <2>1. DOMAIN board' \subseteq Task \ fresh'
    BY <1>2, <1>4, <1>7 DEF Rows
  <2>2. ASSUME NEW u \in DOMAIN board' \ contested'
        PROVE  DOMAIN board'[u] = RowFields /\ board'[u].parent \in Ids \ fresh'
    BY <1>2, <1>4, <1>6, <1>7, <1>8, <1>9, <2>2 DEF Rows
  <2> QED BY <2>1, <2>2 DEF Rows
<1>12. NotesAreKept(board', contested', fresh', given')
  BY <1>1, <1>2, <1>4, <1>7, <1>9 DEF NotesAreKept
<1>13. Waits(board', contested', fresh', j2)
  BY <1>2, <1>5, <1>6, <1>7, <1>9 DEF Waits
<1>14. Writes(board', contested', fresh', j2)
  <2>1. /\ IsSeq(j2.writes) /\ Len(j2.writes) = 1 /\ j2.writes # <<>>
        /\ j2.writes[1].task = t /\ j2.writes[1].patch = meta
    BY <1>5, ShortSeqs, WriteTells
  <2>2. /\ DOMAIN meta \subseteq {"notes", "key"}
        /\ "notes" \in DOMAIN meta => j.n \in meta.notes
        /\ "key" \in DOMAIN meta => meta.key = j.key
    BY DEF meta
  <2>3. t \in j2.foot \ fresh' /\ Stays(board', contested', t) /\ board'[t].notes = {}
    BY <1>2, <1>5, <1>7, <1>8 DEF Stays
  <2>4. WriteFits(board', contested', fresh', j2, 1)
    BY <1>5, <2>1, <2>2, <2>3 DEF WriteFits
  <2>5. \A i \in 1..Len(j2.writes) : i = 1
    BY <2>1
  <2> QED BY <2>1, <2>4, <2>5 DEF Writes
<1>15. KeyIsFree(board', contested', doubtful', j2, {j2.task})
  BY <1>1, <1>5, <1>6, <1>7, <1>9 DEF KeyIsFree
<1>16. Fits(board', contested', crossed', doubtful', fresh', "writing", j2)
  BY <1>4, <1>5, <1>6, <1>13, <1>14, <1>15 DEF Fits
<1>17. ASSUME NEW q \in Process \ {p}
       PROVE  /\ j2.foot \cap job[q].foot \subseteq contested'
              /\ Beside(crossed', doubtful', "writing", j2, at[q], job[q])
  <2>1. /\ j.foot \cap job[q].foot \subseteq contested
        /\ Beside(crossed, doubtful, at[p], j, at[q], job[q])
    BY <1>17 DEF BoardInv, j
  <2> QED BY <2>1, <1>1, <1>5, <1>6, <1>9, <1>17 DEF Beside
<1>18. at' = [at EXCEPT ![p] = "writing"] /\ job' = [job EXCEPT ![p] = j2]
  BY <1>3
<1> QED BY <1>10, <1>11, <1>12, <1>16, <1>17, <1>18, StepKeeps

\* What a command is about when it stores a row.
LEMMA SaveWrites ==
    ASSUME BoardInv, NEW p \in Process, Save(p)
    PROVE  LET j == job[p]
               t == j.writes[1].task
               patch == j.writes[1].patch IN
           /\ at[p] = "fetched" /\ Writes(board, contested, fresh, j)
           /\ WriteFits(board, contested, fresh, j, 1) /\ 1 \in 1..Len(j.writes)
           /\ DOMAIN board' = DOMAIN board \cup {t}
           /\ \A u \in DOMAIN board \ {t} : board'[u] = board[u]
           /\ t \notin contested =>
                 /\ t \in DOMAIN board /\ j.row = board[t]
                 /\ DOMAIN board'[t] = RowFields
                 /\ \A field \in RowFields :
                        board'[t][field] = IF field \in DOMAIN patch THEN patch[field] ELSE board[t][field]
           /\ doubtful' = doubtful \cup IF IsOpen(board'[t]) /\ ~IsOpen(j.row) THEN {board'[t].key} \ {None} ELSE {}
           /\ given' = Given(j, j.writes[1])
           /\ Goes(p, Tail(j.writes))
           /\ UNCHANGED <<left, fresh, contested, crossed>>
<1> DEFINE j == job[p]
           t == j.writes[1].task
           patch == j.writes[1].patch
<1>1. at[p] = "fetched" /\ UNCHANGED <<left, fresh, contested, crossed>> /\ Goes(p, Tail(j.writes))
  BY DEF Save
<1>2. Writes(board, contested, fresh, j) /\ Same(board, contested, t, j.row) /\ Rows(board, contested, fresh)
  BY <1>1 DEF BoardInv, Fits
<1>3. Head(j.writes) = j.writes[1] /\ 1 \in 1..Len(j.writes)
  BY <1>2, TailOfSeq DEF Writes
<1>4. /\ board' = Stored(t, Patched(j.row, patch)) /\ given' = Given(j, j.writes[1])
      /\ doubtful' = doubtful \cup IF IsOpen(Patched(j.row, patch)) /\ ~IsOpen(j.row)
                                   THEN {Patched(j.row, patch).key} \ {None} ELSE {}
  BY <1>3 DEF Save
<1>5. WriteFits(board, contested, fresh, j, 1)
  BY <1>2, <1>3 DEF Writes
<1> HIDE DEF j, t, patch
<1>6. /\ board'[t] = Patched(j.row, patch)
      /\ DOMAIN board' = DOMAIN board \cup {t}
      /\ \A u \in DOMAIN board \ {t} : board'[u] = board[u]
      /\ t \notin contested =>
             /\ t \in DOMAIN board /\ j.row = board[t]
             /\ DOMAIN board'[t] = RowFields
             /\ \A field \in RowFields :
                    board'[t][field] = IF field \in DOMAIN patch THEN patch[field] ELSE board[t][field]
  <2>1. /\ board'[t] = Patched(j.row, patch) /\ DOMAIN board' = DOMAIN board \cup {t}
        /\ \A u \in DOMAIN board \ {t} : board'[u] = board[u]
    BY <1>4 DEF Stored
  <2>2. ASSUME t \notin contested
        PROVE  /\ t \in DOMAIN board /\ j.row = board[t]
               /\ DOMAIN board'[t] = RowFields
               /\ \A field \in RowFields :
                      board'[t][field] = IF field \in DOMAIN patch THEN patch[field] ELSE board[t][field]
    <3>1. t \in DOMAIN board /\ j.row = board[t]
      BY <1>2, <2>2 DEF Same
    <3>2. DOMAIN board[t] = RowFields
      BY <3>1, <1>2, <2>2 DEF Rows
    <3> QED BY <3>1, <3>2, <2>1 DEF Patched
  <2> QED BY <2>1, <2>2
<1> QED BY <1>1, <1>2, <1>3, <1>4, <1>5, <1>6 DEF j, t, patch

\* Storing a row is a step of its command.
LEMMA SaveSteps ==
    ASSUME BoardInv, NEW p \in Process, Save(p)
    PROVE  /\ Step(board, contested, crossed, doubtful, fresh,
                   board', contested', crossed', doubtful', fresh', at[p], job[p], job[p].foot)
           /\ Rows(board', contested', fresh')
           /\ NotesAreKept(board', contested', fresh', given')
<1> DEFINE j == job[p]
           t == j.writes[1].task
           patch == j.writes[1].patch
<1>1. /\ at[p] = "fetched" /\ Writes(board, contested, fresh, j)
      /\ WriteFits(board, contested, fresh, j, 1) /\ 1 \in 1..Len(j.writes)
      /\ DOMAIN board' = DOMAIN board \cup {t}
      /\ \A u \in DOMAIN board \ {t} : board'[u] = board[u]
      /\ t \notin contested =>
             /\ t \in DOMAIN board /\ j.row = board[t]
             /\ DOMAIN board'[t] = RowFields
             /\ \A field \in RowFields :
                    board'[t][field] = IF field \in DOMAIN patch THEN patch[field] ELSE board[t][field]
      /\ doubtful' = doubtful \cup IF IsOpen(board'[t]) /\ ~IsOpen(j.row) THEN {board'[t].key} \ {None} ELSE {}
      /\ given' = Given(j, j.writes[1])
      /\ UNCHANGED <<left, fresh, contested, crossed>>
  BY SaveWrites
<1>2. /\ Rows(board, contested, fresh) /\ NotesAreKept(board, contested, fresh, given) /\ fresh \subseteq Task
      /\ j.foot \subseteq Task
      /\ j.op = "merge" => Halfway(board, contested, crossed, fresh, j)
  BY <1>1 DEF BoardInv, Fits
<1> HIDE DEF j
<1>3. t \in j.foot \ fresh
  BY <1>1 DEF WriteFits
<1>4. j.op = "merge" => j.target \in j.foot \ fresh /\ j.target # None /\ j.task \in j.foot \ fresh /\ j.task # j.target
  BY <1>2, NoneIsNothing DEF Halfway, Joins
<1>5. ASSUME t \notin contested
      PROVE  /\ "parent" \notin DOMAIN patch => board'[t].parent = board[t].parent
             /\ "parent" \in DOMAIN patch => Moving(at[p], j, t) /\ board'[t].parent = j.target
             /\ IsOpen(board'[t]) /\ board'[t].key \notin {None} \cup doubtful' =>
                   \/ IsOpen(board[t]) /\ board[t].key = board'[t].key
                   \/ j.op = "create" /\ t = j.task /\ board'[t].key = j.key
  <2>1. /\ board'[t].parent = IF "parent" \in DOMAIN patch THEN patch.parent ELSE board[t].parent
        /\ board'[t].key = IF "key" \in DOMAIN patch THEN patch.key ELSE board[t].key
        /\ j.row = board[t]
    BY <1>1, <1>5 DEF RowFields
  <2>2. /\ "parent" \in DOMAIN patch =>
               j.op = "merge" /\ patch.parent = j.target /\ t \in Children(j.all, j.task) \ {j.target}
        /\ "key" \in DOMAIN patch => j.op = "create" /\ t = j.task /\ patch.key = j.key
    BY <1>1 DEF WriteFits
  <2>3. "parent" \in DOMAIN patch => Moving(at[p], j, t) /\ board'[t].parent = j.target
    BY <2>1, <2>2, <1>1 DEF Moving
  <2>4. ASSUME IsOpen(board'[t]), board'[t].key \notin {None} \cup doubtful', "key" \notin DOMAIN patch
        PROVE  IsOpen(board[t]) /\ board[t].key = board'[t].key
    BY <2>1, <2>4, <1>1
  <2> QED BY <2>1, <2>2, <2>3, <2>4
<1>6. Step(board, contested, crossed, doubtful, fresh,
           board', contested', crossed', doubtful', fresh', at[p], j, j.foot)
  <2>1. /\ contested \subseteq contested' /\ crossed \subseteq crossed' /\ doubtful \subseteq doubtful'
        /\ fresh' \subseteq fresh
    BY <1>1
  <2>2. \A u \in Task \ (contested' \cup j.foot) :
           /\ u \in DOMAIN board' <=> u \in DOMAIN board
           /\ u \in DOMAIN board => board'[u] = board[u]
    BY <1>1, <1>3
  <2>3. ASSUME NEW u \in DOMAIN board' \ contested'
        PROVE  /\ u \in DOMAIN board
               /\ \/ board'[u].parent = board[u].parent
                  \/ Moving(at[p], j, u) /\ board'[u].parent = j.target /\ j.target \in j.foot \ fresh
               /\ IsOpen(board'[u]) /\ board'[u].key \notin {None} \cup doubtful' =>
                     \/ IsOpen(board[u]) /\ board[u].key = board'[u].key
                     \/ at[p] = "fetched" /\ j.op = "create" /\ u = j.task /\ board'[u].key = j.key
    <3>1. CASE u # t
      BY <3>1, <2>3, <1>1
    <3>2. CASE u = t
      <4>1. t \notin contested /\ t \in DOMAIN board
        BY <3>2, <2>3, <1>1
      <4> QED BY <3>2, <4>1, <1>1, <1>4, <1>5 DEF Moving
    <3> QED BY <3>1, <3>2
  <2> QED BY <2>1, <2>2, <2>3, <1>2 DEF Step
<1>7. Rows(board', contested', fresh')
  <2>1. DOMAIN board' \subseteq Task \ fresh'
    BY <1>1, <1>2, <1>3 DEF Rows
  <2>2. ASSUME NEW u \in DOMAIN board' \ contested'
        PROVE  DOMAIN board'[u] = RowFields /\ board'[u].parent \in Ids \ fresh'
    <3>1. CASE u # t
      BY <3>1, <2>2, <1>1, <1>2 DEF Rows
    <3>2. CASE u = t
      <4>1. t \notin contested /\ t \in DOMAIN board
        BY <3>2, <2>2, <1>1
      <4>2. board[t].parent \in Ids \ fresh
        BY <4>1, <1>2 DEF Rows
      <4>3. board'[t].parent \in {board[t].parent} \cup (IF j.op = "merge" THEN {j.target} ELSE {})
        BY <4>1, <1>5 DEF Moving
      <4> QED BY <3>2, <4>1, <4>2, <4>3, <1>1, <1>2, <1>4 DEF Ids
    <3> QED BY <3>1, <3>2
  <2> QED BY <2>1, <2>2 DEF Rows
<1>8. NotesAreKept(board', contested', fresh', given')
  <2>0. DOMAIN given = Task /\ (\A u \in fresh : given[u] = {}) /\ t \in Task
        /\ \A u \in DOMAIN board \ contested : given[u] \subseteq board[u].notes
    BY <1>2, <1>3 DEF NotesAreKept
  <2>1. CASE "mergedInto" \in DOMAIN patch
    <3>1. /\ j.op = "merge" /\ t = j.task /\ patch.mergedInto = j.target /\ "notes" \notin DOMAIN patch
          /\ j.target \in Task \ fresh
      BY <2>1, <1>1, <1>2, <1>4 DEF WriteFits
    <3>2. given' = [given EXCEPT ![j.target] = @ \cup IF t \in contested THEN {} ELSE given[t]]
      BY <1>1, <2>1, <3>1 DEF Given
    <3>3. DOMAIN given' = Task /\ \A u \in Task \ {j.target} : given'[u] = given[u]
      BY <2>0, <3>1, <3>2
    <3>4. \A u \in DOMAIN board' \ contested : u \in DOMAIN board /\ board'[u].notes = board[u].notes
      BY <1>1, <3>1 DEF RowFields
    <3>5. ASSUME j.target \notin contested, j.target \in DOMAIN board'
          PROVE  given'[j.target] \subseteq board'[j.target].notes
      <4>1. given[j.target] \subseteq board[j.target].notes
        BY <2>0, <3>4, <3>5
      <4>2. ASSUME t \notin contested PROVE given[t] \subseteq board[j.target].notes
        <5>1. board[t].notes \subseteq board[j.target].notes
          BY <1>2, <3>1, <3>5, <4>2 DEF Halfway
        <5>2. given[t] \subseteq board[t].notes
          BY <2>0, <1>1, <4>2
        <5> QED BY <5>1, <5>2
      <4> QED BY <2>0, <3>1, <3>2, <3>4, <3>5, <4>1, <4>2
    <3>6. \A u \in fresh : given'[u] = {}
      BY <2>0, <1>2, <3>1, <3>3
    <3>7. \A u \in DOMAIN board' \ contested : given'[u] \subseteq board'[u].notes
      <4>1. DOMAIN board' \subseteq Task
        BY <1>7 DEF Rows
      <4> QED BY <2>0, <3>3, <3>4, <3>5, <4>1
    <3> QED BY <1>1, <3>3, <3>6, <3>7 DEF NotesAreKept
  <2>2. CASE "mergedInto" \notin DOMAIN patch
    <3> DEFINE n == IF "notes" \in DOMAIN patch /\ j.op # "merge" THEN {j.n} ELSE {}
    <3>1. given' = [given EXCEPT ![t] = @ \cup IF t \in contested THEN {} ELSE n]
      BY <1>1, <2>2 DEF Given
    <3>2. DOMAIN given' = Task /\ \A u \in Task \ {t} : given'[u] = given[u]
      BY <2>0, <3>1
    <3>3. ASSUME t \notin contested PROVE given'[t] \subseteq board'[t].notes
      <4>1. given'[t] = given[t] \cup n /\ given[t] \subseteq board[t].notes
        BY <2>0, <1>1, <3>1, <3>3
      <4>2. board'[t].notes = IF "notes" \in DOMAIN patch THEN patch.notes ELSE board[t].notes
        BY <1>1, <3>3 DEF RowFields
      <4>3. "notes" \in DOMAIN patch => board[t].notes \subseteq patch.notes /\ n \subseteq patch.notes
        BY <1>1, <3>3 DEF WriteFits
      <4> QED BY <4>1, <4>2, <4>3
    <3>4. \A u \in fresh : given'[u] = {}
      BY <2>0, <1>2, <1>3, <3>2
    <3>5. \A u \in DOMAIN board' \ contested : given'[u] \subseteq board'[u].notes
      <4>1. DOMAIN board' \subseteq Task
        BY <1>7 DEF Rows
      <4> QED BY <1>1, <2>0, <3>2, <3>3, <4>1
    <3> QED BY <1>1, <3>2, <3>4, <3>5 DEF NotesAreKept
  <2> QED BY <2>1, <2>2
<1> QED BY <1>6, <1>7, <1>8 DEF j

\* What a command that has stored a row has to write yet still fits.
LEMMA SaveLeavesTheRest ==
    ASSUME BoardInv, NEW p \in Process, Save(p), NEW j2, Rest(job[p], j2)
    PROVE  Writes(board', contested', fresh', j2)
<1> DEFINE j == job[p]
           t == j.writes[1].task
           patch == j.writes[1].patch
<1>1. /\ Writes(board, contested, fresh, j)
      /\ WriteFits(board, contested, fresh, j, 1) /\ 1 \in 1..Len(j.writes)
      /\ DOMAIN board' = DOMAIN board \cup {t}
      /\ \A u \in DOMAIN board \ {t} : board'[u] = board[u]
      /\ t \notin contested =>
             /\ t \in DOMAIN board
             /\ \A field \in RowFields :
                    board'[t][field] = IF field \in DOMAIN patch THEN patch[field] ELSE board[t][field]
      /\ UNCHANGED <<fresh, contested, crossed>>
  BY SaveWrites
<1> HIDE DEF j
<1>2. Rest(j, j2)
  BY DEF j
<1>3. /\ IsSeq(j2.writes) /\ j2.writes # <<>> /\ Len(j2.writes) = Len(j.writes) - 1
      /\ Len(j2.writes) \in Nat
      /\ \A i \in 1..Len(j2.writes) :
             /\ j2.writes[i] = j.writes[i + 1] /\ i + 1 \in 1..Len(j.writes) /\ i + 1 # 1
             /\ WriteFits(board, contested, fresh, j, i + 1)
      /\ j2.op = j.op /\ j2.foot = j.foot /\ j2.n = j.n /\ j2.task = j.task /\ j2.target = j.target
      /\ j2.key = j.key /\ j2.all = j.all
  BY <1>1, <1>2, RestOfWrites
<1>4. Len(j2.writes) > 0 /\ Len(j.writes) = Len(j2.writes) + 1 /\ Len(j.writes) # 1
  <2>1. Len(j2.writes) \in Nat \ {0}
    BY <1>3, TailOfSeq
  <2> QED BY <2>1, <1>3
<1>5. "status" \notin DOMAIN patch /\ "obsolete" \notin DOMAIN patch
  BY <1>1, <1>4 DEF WriteFits
<1>6. ASSUME NEW u, u \notin contested, u \in DOMAIN board
      PROVE  /\ u \in DOMAIN board' /\ board'[u].status = board[u].status
             /\ board'[u].obsolete = board[u].obsolete
  BY <1>1, <1>5, <1>6 DEF RowFields
<1>7. ASSUME NEW i \in 1..Len(j2.writes)
      PROVE  WriteFits(board', contested', fresh', j2, i)
  <2>1. /\ WriteFits(board, contested, fresh, j, i + 1) /\ j2.writes[i] = j.writes[i + 1] /\ i + 1 # 1
        /\ i + 1 = Len(j.writes) => i = Len(j2.writes)
    BY <1>3, <1>4
  <2> DEFINE v == j2.writes[i].task
             after == j2.writes[i].patch
  <2>2. v \in j2.foot \ fresh' /\ Stays(board', contested', v)
    BY <2>1, <1>1, <1>3 DEF WriteFits, Stays
  <2>3. "notes" \notin DOMAIN after
    BY <2>1 DEF WriteFits
  <2>4. "status" \in DOMAIN after =>
            /\ i = Len(j2.writes) /\ v = j2.task
            /\ v \notin contested' /\ Terminal(board'[v]) /\ after.status # board'[v].status => j2.op = "reopen"
    <3>1. ASSUME "status" \in DOMAIN after, v \notin contested, Terminal(board'[v]), after.status # board'[v].status
          PROVE  j2.op = "reopen"
      <4>1. v \in DOMAIN board
        BY <2>1, <3>1 DEF WriteFits, Stays
      <4>2. board'[v].status = board[v].status /\ board'[v].obsolete = board[v].obsolete
        BY <4>1, <3>1, <1>6
      <4>3. Terminal(board[v]) /\ after.status # board[v].status
        BY <4>2, <3>1 DEF Terminal, Archived
      <4> QED BY <4>3, <3>1, <2>1, <1>3 DEF WriteFits
    <3>2. "status" \in DOMAIN after => i = Len(j2.writes) /\ v = j2.task
      BY <2>1, <1>3 DEF WriteFits
    <3> QED BY <3>1, <3>2, <1>1
  <2>5. /\ "parent" \in DOMAIN after =>
               /\ j2.op = "merge" /\ after.parent = j2.target /\ DOMAIN after = {"parent"}
               /\ v \in Children(j2.all, j2.task) \ {j2.target}
        /\ "key" \in DOMAIN after => j2.op = "create" /\ v = j2.task /\ after.key = j2.key
        /\ "obsolete" \in DOMAIN after => i = Len(j2.writes) /\ v = j2.task
        /\ "mergedInto" \in DOMAIN after =>
               /\ i = Len(j2.writes) /\ j2.op = "merge" /\ v = j2.task /\ after.mergedInto = j2.target
               /\ j2.target # None
    BY <2>1, <1>3 DEF WriteFits
  <2> QED BY <2>2, <2>3, <2>4, <2>5 DEF WriteFits
<1> QED BY <1>3, <1>7 DEF Writes

\* A merge that has stored a row is still halfway.
LEMMA SaveStaysHalfway ==
    ASSUME BoardInv, NEW p \in Process, Save(p), NEW j2, Rest(job[p], j2), job[p].op = "merge"
    PROVE  Halfway(board', contested', crossed', fresh', j2)
<1> DEFINE j == job[p]
           t == j.writes[1].task
           patch == j.writes[1].patch
<1>1. /\ at[p] = "fetched" /\ Writes(board, contested, fresh, j)
      /\ WriteFits(board, contested, fresh, j, 1) /\ 1 \in 1..Len(j.writes)
      /\ DOMAIN board' = DOMAIN board \cup {t}
      /\ \A u \in DOMAIN board \ {t} : board'[u] = board[u]
      /\ t \notin contested =>
             /\ t \in DOMAIN board
             /\ \A field \in RowFields :
                    board'[t][field] = IF field \in DOMAIN patch THEN patch[field] ELSE board[t][field]
      /\ UNCHANGED <<fresh, contested, crossed>>
  BY SaveWrites
<1>2. Halfway(board, contested, crossed, fresh, j) /\ Rows(board, contested, fresh)
  BY <1>1 DEF BoardInv, Fits
<1>3. Step(board, contested, crossed, doubtful, fresh,
           board', contested', crossed', doubtful', fresh', at[p], j, j.foot)
  BY SaveSteps
<1>4. j.op = "merge" /\ Rest(j, j2)
  OBVIOUS
<1> HIDE DEF j
<1>5. /\ j2.op = j.op /\ j2.foot = j.foot /\ j2.task = j.task /\ j2.target = j.target /\ j2.all = j.all
      /\ Len(j2.writes) = Len(j.writes) - 1 /\ Len(j2.writes) \in Nat
      /\ \A i \in 1..Len(j2.writes) : j2.writes[i] = j.writes[i + 1]
  BY <1>1, <1>4, RestOfWrites
<1>6. /\ Joins(fresh, j) /\ j.target \notin fresh /\ j.task # j.target
      /\ Stays(board, contested, j.task) /\ Stays(board, contested, j.target)
  BY <1>2 DEF Halfway, Joins
<1>7. /\ "parent" \in DOMAIN patch => patch.parent = j.target /\ t # j.target
      /\ "notes" \in DOMAIN patch => t = j.target
  BY <1>1, <1>4 DEF WriteFits
<1>8. ASSUME NEW u \in DOMAIN board', u \notin contested
      PROVE  /\ u \in DOMAIN board
             /\ (u = t /\ "parent" \in DOMAIN patch) \/ board'[u].parent = board[u].parent
             /\ (u = t /\ "notes" \in DOMAIN patch) \/ board'[u].notes = board[u].notes
  BY <1>1, <1>8 DEF RowFields
<1>9. Joins(fresh', j2) /\ j2.target \notin fresh'
      /\ Stays(board', contested', j2.task) /\ Stays(board', contested', j2.target)
  BY <1>1, <1>4, <1>5, <1>6 DEF Joins, Stays
<1>10. j.target \notin contested => board'[j.target].parent # j.task
  <2>1. ASSUME j.target \notin contested PROVE board'[j.target].parent = board[j.target].parent
    BY <2>1, <1>1, <1>6, <1>7, <1>8 DEF Stays
  <2> QED BY <2>1, <1>2 DEF Halfway
<1>11. ASSUME j.task \notin contested, NEW u \in DOMAIN board' \ contested, board'[u].parent = j.task
       PROVE  \E i \in 1..Len(j2.writes) : j2.writes[i].task = u /\ "parent" \in DOMAIN j2.writes[i].patch
  <2>1. ~(u = t /\ "parent" \in DOMAIN patch)
    <3>1. ASSUME u = t, "parent" \in DOMAIN patch PROVE FALSE
      <4>1. board'[t].parent = patch.parent
        BY <3>1, <1>1, <1>11 DEF RowFields
      <4> QED BY <4>1, <3>1, <1>6, <1>7, <1>11
    <3> QED BY <3>1
  <2>2. u \in DOMAIN board \ contested /\ board[u].parent = j.task
    BY <2>1, <1>8, <1>11
  <2>3. PICK i \in 1..Len(j.writes) : j.writes[i].task = u /\ "parent" \in DOMAIN j.writes[i].patch
    BY <2>2, <1>2, <1>11 DEF Halfway
  <2>4. i # 1
    BY <2>1, <2>3
  <2>5. i - 1 \in 1..Len(j2.writes) /\ (i - 1) + 1 = i
    BY <2>3, <2>4, <1>5
  <2> QED BY <2>3, <2>5, <1>5
<1>12. ASSUME j.task \notin contested, j.target \notin contested
       PROVE  board'[j.task].notes \subseteq board'[j.target].notes
  <2>1. board'[j.task].notes = board[j.task].notes
    BY <1>1, <1>6, <1>7, <1>8, <1>12 DEF Stays
  <2>2. CASE t = j.target /\ "notes" \in DOMAIN patch
    <3>1. board'[j.target].notes = patch.notes /\ board[j.target].notes \subseteq patch.notes
      BY <2>2, <1>1, <1>12 DEF RowFields, WriteFits
    <3> QED BY <3>1, <2>1, <2>2, <1>2, <1>12 DEF Halfway
  <2>3. CASE ~(t = j.target /\ "notes" \in DOMAIN patch)
    <3>1. board'[j.target].notes = board[j.target].notes
      BY <2>3, <1>1, <1>6, <1>8, <1>12 DEF Stays
    <3> QED BY <3>1, <2>1, <2>3, <1>2, <1>12 DEF Halfway
  <2> QED BY <2>2, <2>3
<1>13. Moved(crossed, j) \/ \E S \in SUBSET Ids : Leads(board', contested', crossed', j, S)
  <2>1. SUFFICES ASSUME ~Moved(crossed, j) PROVE \E S \in SUBSET Ids : Leads(board', contested', crossed', j, S)
    OBVIOUS
  <2>2. PICK S \in SUBSET Ids : Leads(board, contested, crossed, j, S)
    BY <2>1, <1>2 DEF Halfway
  <2>3. /\ \A u \in S \ {j.target} : ~Moving(at[p], j, u)
        /\ ~Moving(at[p], j, j.target)
    BY <2>2 DEF Leads, Moving
  <2>4. Leads(board', contested', crossed', j, S \ fresh)
    BY <2>2, <2>3, <1>2, <1>3, <1>6, LeadStays
  <2> QED BY <2>4
<1>14. Moved(crossed', j2) \/ \E S \in SUBSET Ids : Leads(board', contested', crossed', j2, S)
  BY <1>13, <1>1, <1>5 DEF Moved, Leads
<1>15. /\ j2.target \notin contested' => board'[j2.target].parent # j2.task
       /\ j2.task \notin contested' => \A u \in DOMAIN board' \ contested' : board'[u].parent = j2.task =>
              \E i \in 1..Len(j2.writes) : j2.writes[i].task = u /\ "parent" \in DOMAIN j2.writes[i].patch
       /\ j2.task \notin contested' /\ j2.target \notin contested' =>
              board'[j2.task].notes \subseteq board'[j2.target].notes
  BY <1>1, <1>5, <1>10, <1>11, <1>12
<1> QED BY <1>9, <1>14, <1>15 DEF Halfway

\* Storing a row keeps the board sound.
LEMMA SaveKeeps ==
    ASSUME BoardInv, NEW p \in Process, Save(p)
    PROVE  BoardInv'
<1> DEFINE j == job[p]
           t == j.writes[1].task
           patch == j.writes[1].patch
           ws == Tail(j.writes)
           a2 == GoesTo(j, ws)
           j2 == GoesWith(j, ws)
<1>1. /\ at[p] = "fetched" /\ Writes(board, contested, fresh, j)
      /\ WriteFits(board, contested, fresh, j, 1)
      /\ DOMAIN board' = DOMAIN board \cup {t}
      /\ \A u \in DOMAIN board \ {t} : board'[u] = board[u]
      /\ t \notin contested =>
             /\ t \in DOMAIN board
             /\ \A field \in RowFields :
                    board'[t][field] = IF field \in DOMAIN patch THEN patch[field] ELSE board[t][field]
      /\ Goes(p, ws)
      /\ UNCHANGED <<fresh, contested, crossed>>
  BY SaveWrites
<1>2. /\ Step(board, contested, crossed, doubtful, fresh,
              board', contested', crossed', doubtful', fresh', at[p], j, j.foot)
      /\ Rows(board', contested', fresh')
      /\ NotesAreKept(board', contested', fresh', given')
  BY SaveSteps
<1>3. /\ DOMAIN j = JobFields /\ j.foot \subseteq Task /\ Waits(board, contested, fresh, j)
      /\ j.op = "create" => KeyIsFree(board, contested, doubtful, j, {j.task})
  BY <1>1 DEF BoardInv, Fits
<1>4. ASSUME NEW after, Rest(j, after)
      PROVE  /\ Writes(board', contested', fresh', after)
             /\ j.op = "merge" => Halfway(board', contested', crossed', fresh', after)
  BY <1>4, SaveLeavesTheRest, SaveStaysHalfway
<1>5. at' = [at EXCEPT ![p] = a2] /\ job' = [job EXCEPT ![p] = j2]
  BY <1>1, GoesThere
<1>6. ASSUME NEW q \in Process \ {p}
      PROVE  /\ j.foot \cap job[q].foot \subseteq contested
             /\ Beside(crossed, doubtful, at[p], j, at[q], job[q])
  BY <1>6 DEF BoardInv
<1> HIDE DEF j
<1>7. Waits(board', contested', fresh', j)
  <2>1. ASSUME NEW i \in 1..Len(j.batch), j.batch[i].task \notin contested
        PROVE  j.batch[i].task \in DOMAIN board' /\ ~Terminal(board'[j.batch[i].task])
    <3> DEFINE u == j.batch[i].task
    <3>1. u # j.task /\ u \in DOMAIN board /\ ~Terminal(board[u])
      BY <2>1, <1>3 DEF Waits
    <3>2. CASE u # t
      BY <3>1, <3>2, <1>1
    <3>3. CASE u = t
      <4>1. "status" \notin DOMAIN patch /\ "obsolete" \notin DOMAIN patch
        BY <3>1, <3>3, <1>1 DEF WriteFits
      <4>2. board'[t].status = board[t].status /\ board'[t].obsolete = board[t].obsolete
        BY <4>1, <3>3, <2>1, <1>1 DEF RowFields
      <4> QED BY <4>2, <3>1, <3>3, <1>1 DEF Terminal, Archived
    <3> QED BY <3>2, <3>3
  <2> QED BY <2>1, <1>1, <1>3 DEF Waits
<1>8. ASSUME NEW after, j.op = "create", after.key = j.key
      PROVE  KeyIsFree(board', contested', doubtful', after, {j.task})
  <2>1. SUFFICES ASSUME NEW u \in DOMAIN board' \ (contested' \cup {j.task}), IsOpen(board'[u]),
                        board'[u].key = j.key, j.key \notin {None} \cup doubtful'
                 PROVE  FALSE
    BY <1>8 DEF KeyIsFree
  <2>2. u \in DOMAIN board /\ IsOpen(board[u]) /\ board[u].key = board'[u].key
    BY <2>1, <1>2 DEF Step
  <2> QED BY <2>1, <2>2, <1>1, <1>2, <1>3, <1>8 DEF KeyIsFree, Step
<1>9. ws # <<>> => MayWrite(board', contested', crossed', doubtful', fresh', j, ws)
  <2>1. ASSUME ws # <<>>, NEW after, \A field \in JobFields \ {"writes"} : after[field] = j[field],
               after.writes = ws
        PROVE  /\ Writes(board', contested', fresh', after)
               /\ after.op = "merge" => Halfway(board', contested', crossed', fresh', after)
               /\ after.op = "create" => KeyIsFree(board', contested', doubtful', after, {after.task})
    <3>1. Rest(j, after) /\ after.op = j.op /\ after.key = j.key /\ after.task = j.task
      BY <2>1 DEF Rest, JobFields
    <3> QED BY <3>1, <1>4, <1>8
  <2> QED BY <2>1 DEF MayWrite
<1> HIDE DEF ws
<1>10. /\ Fits(board', contested', crossed', doubtful', fresh', a2, j2)
       /\ j2.foot \subseteq j.foot
       /\ \/ a2 = "idle"
          \/ a2 = "all" /\ j2.op = "merge"
          \/ j2.op = "archive"
          \/ a2 = "writing" /\ ws # <<>> /\ j2.op = j.op /\ j2.key = j.key /\ j2.all = j.all /\ j2.task = j.task
  <2>1. Fits(board', contested', crossed', doubtful', fresh', GoesTo(j, ws), GoesWith(j, ws))
    BY <1>3, <1>7, <1>9, GoesOnFit
  <2>2. GoesWith(j, ws).foot \subseteq j.foot
    BY <1>3, <1>7, <1>9, GoesOnFit
  <2>3. TurnsTo(j, ws)
    BY <1>3, <1>7, <1>9, GoesOnFit
  <2> QED BY <2>1, <2>2, <2>3 DEF TurnsTo
<1> HIDE DEF a2, j2
<1>11. ASSUME NEW q \in Process \ {p}
       PROVE  Beside(crossed', doubtful', a2, j2, at[q], job[q])
  <2>1. crossed \subseteq crossed' /\ doubtful \subseteq doubtful'
    BY <1>2 DEF Step
  <2>2. \/ a2 = "idle"
        \/ a2 = "all" /\ j2.op = "merge"
        \/ j2.op \in Operations
        \/ /\ at[p] # "idle" /\ j2.op = j.op /\ j2.key = j.key /\ j2.all = j.all /\ j2.task = j.task
           /\ at[p] \in {"plan", "writing", "fetched"}
    BY <1>1, <1>10 DEF Operations
  <2> QED BY <2>1, <2>2, <1>6, <1>11, BesideGoesOn
<1>12. /\ Step(board, contested, crossed, doubtful, fresh,
               board', contested', crossed', doubtful', fresh', at[p], job[p], j.foot)
       /\ \A q \in Process \ {p} : j.foot \cap job[q].foot \subseteq contested'
  BY <1>1, <1>2, <1>6 DEF j
<1> QED BY <1>2, <1>5, <1>10, <1>11, <1>12, StepKeeps

\* The boards to begin with are sound.
LEMMA BoardInitially == Init => BoardInv
<1> SUFFICES ASSUME Init PROVE BoardInv
  OBVIOUS
<1>1. /\ DOMAIN board \subseteq Task
      /\ \A t \in DOMAIN board :
             /\ board[t] \in Row /\ board[t].parent \in DOMAIN board \cup {None}
             /\ t \notin {board[t].parent} \cup Above(board, board[t].parent)
      /\ \A t, u \in DOMAIN board :
             t # u /\ IsOpen(board[t]) /\ IsOpen(board[u]) /\ board[t].key = board[u].key => board[t].key = None
  BY BoardsAreTrees DEF Init
<1>2. /\ fresh = Task \ DOMAIN board /\ contested = {} /\ crossed = {} /\ doubtful = {}
      /\ at = [p \in Process |-> "idle"] /\ job = [p \in Process |-> NoJob]
      /\ given = [t \in Task |-> IF t \in DOMAIN board THEN board[t].notes ELSE {}]
  BY DEF Init
<1>3. ASSUME NEW p \in Process PROVE Fits(board, contested, crossed, doubtful, fresh, at[p], job[p])
  BY <1>2, IdleFits
<1>4. ASSUME NEW p \in Process, NEW q \in Process
      PROVE  /\ job[p].foot \cap job[q].foot \subseteq contested
             /\ Beside(crossed, doubtful, at[p], job[p], at[q], job[q])
  <2>1. at[p] = "idle" /\ job[p] = NoJob /\ NoJob.foot = {}
    BY <1>2, IdleFits
  <2> QED BY <2>1 DEF Beside
<1>5. Rows(board, contested, fresh)
  <2>1. ASSUME NEW t \in DOMAIN board
        PROVE  DOMAIN board[t] = RowFields /\ board[t].parent \in Ids \ fresh
    <3>1. DOMAIN board[t] = RowFields
      BY <1>1 DEF Row, RowFields
    <3>2. board[t].parent \in Ids \ fresh
      BY <1>1, <1>2, NoneIsNothing DEF Ids
    <3> QED BY <3>1, <3>2
  <2> QED BY <2>1, <1>1, <1>2 DEF Rows
<1>6. NoCircle(board, DOMAIN board \ (contested \cup crossed))
  <2>1. ASSUME NEW t \in DOMAIN board
        PROVE  \E S \in SUBSET Ids :
                   board[t].parent \in S /\ t \notin S /\ \A u \in S \cap DOMAIN board : board[u].parent \in S
    <3>1. t \in Ids /\ t # board[t].parent /\ t \notin Above(board, board[t].parent)
      BY <1>1 DEF Ids
    <3>2. PICK S \in SUBSET Ids : board[t].parent \in S /\ Upward(board, S) /\ t \notin S
      BY <3>1 DEF Above, Ids
    <3> QED BY <3>2 DEF Upward
  <2> QED BY <2>1, <1>2 DEF NoCircle
<1>7. NotesAreKept(board, contested, fresh, given)
  BY <1>1, <1>2 DEF NotesAreKept
<1>8. KeysAreApart(board, contested, doubtful)
  BY <1>1, <1>2 DEF KeysAreApart
<1> QED BY <1>1, <1>2, <1>3, <1>4, <1>5, <1>6, <1>7, <1>8 DEF BoardInv

\* Every step keeps the board sound.
LEMMA BoardStep == ASSUME BoardInv, [Next]_vars PROVE BoardInv'
<1>1. CASE UNCHANGED vars
  BY <1>1 DEF vars, BoardInv
<1>2. ASSUME NEW p \in Process, NEW op \in Ops, NEW t \in Task, Begin(p, op, t) PROVE BoardInv'
  BY <1>2, BeginKeeps
<1>3. ASSUME NEW p \in Process, NEW s \in Task, NEW t \in Task, BeginMerge(p, s, t) PROVE BoardInv'
  BY <1>3, BeginMergeKeeps
<1>4. ASSUME NEW p \in Process, NEW l \in Label, NEW t \in DOMAIN board \cup {None},
             NEW key \in Key \cup {None}, BeginCreate(p, l, t, key)
      PROVE  BoardInv'
  BY <1>4, BeginCreateKeeps
<1>5. ASSUME NEW p \in Process, BeginTriage(p) PROVE BoardInv'
  BY <1>5, BeginTriageKeeps
<1>6. ASSUME NEW p \in Process, BeginClear(p) PROVE BoardInv'
  BY <1>6, BeginClearKeeps
<1>7. ASSUME NEW p \in Process, Decide(p) PROVE BoardInv'
  BY <1>7, DecideKeeps
<1>8. ASSUME NEW p \in Process, ReadTarget(p) PROVE BoardInv'
  BY <1>8, ReadTargetKeeps
<1>9. ASSUME NEW p \in Process, ReadAll(p) PROVE BoardInv'
  BY <1>9, ReadAllKeeps
<1>10. ASSUME NEW p \in Process, Plan(p) PROVE BoardInv'
  BY <1>10, PlanningKeeps
<1>11. ASSUME NEW p \in Process, Triage(p) PROVE BoardInv'
  BY <1>11, TriageKeeps
<1>12. ASSUME NEW p \in Process, Create(p) PROVE BoardInv'
  BY <1>12, CreateKeeps
<1>13. ASSUME NEW p \in Process, Insert(p) PROVE BoardInv'
  BY <1>13, InsertKeeps
<1>14. ASSUME NEW p \in Process, Fetch(p) PROVE BoardInv'
  BY <1>14, FetchKeeps
<1>15. ASSUME NEW p \in Process, Save(p) PROVE BoardInv'
  BY <1>15, SaveKeeps
<1>16. ASSUME NEW p \in Process, Clear(p) PROVE BoardInv'
  BY <1>16, ClearKeeps
<1>17. ASSUME NEW p \in Process, Crash(p) PROVE BoardInv'
  BY <1>17, CrashKeeps
<1>18. ASSUME Next PROVE BoardInv'
  BY <1>18, <1>2, <1>3, <1>4, <1>5, <1>6, <1>7, <1>8, <1>9, <1>10, <1>11, <1>12, <1>13, <1>14,
     <1>15, <1>16, <1>17 DEF Next
<1> QED BY <1>1, <1>18

\* On a sound board no note is lost, keys are apart and parents lead up.
LEMMA BoardTells == ASSUME BoardInv PROVE TreeStaysATree /\ OneOpenPerKey /\ NoNoteLost
<1>1. NoNoteLost
  BY DEF BoardInv, NotesAreKept, NoNoteLost
<1>2. OneOpenPerKey
  BY DEF BoardInv, KeysAreApart, OneOpenPerKey
<1>3. TreeStaysATree
  <2> DEFINE ts == DOMAIN board \ (contested \cup crossed)
             calm == [t \in ts |-> board[t]]
  <2>1. ASSUME NEW t \in ts PROVE t \notin Above(calm, calm[t].parent) \cup {calm[t].parent}
    <3>1. PICK S \in SUBSET Ids :
              board[t].parent \in S /\ t \notin S /\ \A u \in S \cap ts : board[u].parent \in S
      BY DEF BoardInv, NoCircle
    <3>2. Upward(calm, S) /\ calm[t].parent \in S
      BY <3>1 DEF Upward
    <3> QED BY <3>1, <3>2 DEF Above, Ids
  <2> QED BY <2>1 DEF TreeStaysATree
<1> QED BY <1>1, <1>2, <1>3

\* What one step of a command does to a task that is there before and after.
LEMMA CommandKeepsTheTask ==
    ASSUME BoardInv, Next, NEW t \in (DOMAIN board \cap DOMAIN board') \ contested
    PROVE  /\ Terminal(board[t]) /\ board'[t].status # board[t].status =>
                 \E p \in Process : Busy(p) /\ job[p].op = "reopen" /\ job[p].task = t
           /\ board[t].mergedInto = None /\ board'[t].mergedInto # None =>
                 Children(board', t) \ contested = {}
<1>1. ASSUME board'[t] # board[t] PROVE \E p \in Process : Save(p)
  <2>1. ASSUME NEW p \in Process, Insert(p) PROVE board'[t] = board[t]
    <3>1. PICK u \in fresh : board' = Stored(u, NewRow(job[p].label, job[p].parent))
      BY <2>1 DEF Insert
    <3>2. t # u
      BY DEF BoardInv, Rows
    <3> QED BY <3>1, <3>2 DEF Stored
  <2>2. ASSUME NEW p \in Process, Clear(p) PROVE FALSE
    BY <2>2 DEF Clear
  <2>3. ASSUME NEW p \in Process, NEW op \in Ops, NEW s \in Task, Begin(p, op, s) PROVE UNCHANGED board
    BY <2>3 DEF Begin, Starts
  <2>4. ASSUME NEW p \in Process, NEW s \in Task, NEW u \in Task, BeginMerge(p, s, u) PROVE UNCHANGED board
    BY <2>4 DEF BeginMerge, Starts
  <2>5. ASSUME NEW p \in Process, NEW l, NEW u, NEW key, BeginCreate(p, l, u, key) PROVE UNCHANGED board
    BY <2>5 DEF BeginCreate, Starts
  <2>6. ASSUME NEW p \in Process, BeginTriage(p) PROVE UNCHANGED board
    BY <2>6 DEF BeginTriage, Starts
  <2>7. ASSUME NEW p \in Process, BeginClear(p) PROVE UNCHANGED board
    BY <2>7 DEF BeginClear, Starts
  <2>8. ASSUME NEW p \in Process,
               \/ Decide(p) \/ ReadTarget(p) \/ ReadAll(p) \/ Plan(p) \/ Triage(p)
               \/ Create(p) \/ Fetch(p) \/ Crash(p)
        PROVE  UNCHANGED board
    BY <2>8 DEF Decide, ReadTarget, ReadAll, Plan, Triage, Create, Fetch, Crash
  <2> QED BY <1>1, <2>1, <2>2, <2>3, <2>4, <2>5, <2>6, <2>7, <2>8 DEF Next
<1>2. ASSUME NEW p \in Process, Save(p), board'[t] # board[t]
      PROVE  /\ Terminal(board[t]) /\ board'[t].status # board[t].status =>
                   Busy(p) /\ job[p].op = "reopen" /\ job[p].task = t
             /\ board[t].mergedInto = None /\ board'[t].mergedInto # None =>
                   Children(board', t) \ contested = {}
  <2> DEFINE j == job[p]
             patch == j.writes[1].patch
  <2>1. /\ at[p] = "fetched" /\ Writes(board, contested, fresh, j)
        /\ WriteFits(board, contested, fresh, j, 1) /\ 1 \in 1..Len(j.writes)
        /\ DOMAIN board' = DOMAIN board \cup {j.writes[1].task}
        /\ \A u \in DOMAIN board \ {j.writes[1].task} : board'[u] = board[u]
        /\ j.writes[1].task \notin contested =>
              \A field \in RowFields :
                  board'[j.writes[1].task][field]
                  = IF field \in DOMAIN patch THEN patch[field] ELSE board[j.writes[1].task][field]
    BY <1>2, SaveWrites
  <2>2. j.writes[1].task = t
    BY <1>2, <2>1
  <2>3. j.op = "merge" => Halfway(board, contested, crossed, fresh, j)
    BY <2>1 DEF BoardInv, Fits
  <2>4. Busy(p)
    BY <2>1 DEF Busy
  <2> HIDE DEF j
  <2>5. /\ board'[t].status = IF "status" \in DOMAIN patch THEN patch.status ELSE board[t].status
        /\ board'[t].mergedInto = IF "mergedInto" \in DOMAIN patch THEN patch.mergedInto ELSE board[t].mergedInto
    BY <2>1, <2>2 DEF RowFields
  <2>6. Terminal(board[t]) /\ board'[t].status # board[t].status => j.op = "reopen" /\ j.task = t
    BY <2>1, <2>2, <2>5 DEF WriteFits
  <2>7. ASSUME board[t].mergedInto = None, board'[t].mergedInto # None, NEW u \in Children(board', t) \ contested
        PROVE  FALSE
    <3>1. /\ "mergedInto" \in DOMAIN patch /\ j.op = "merge" /\ j.task = t /\ Len(j.writes) = 1
      BY <2>1, <2>2, <2>5, <2>7 DEF WriteFits
    <3>2. "parent" \notin DOMAIN patch
      BY <2>1, <3>1 DEF WriteFits
    <3>3. u \in DOMAIN board /\ board[u].parent = t
      <4>1. u \in DOMAIN board /\ board'[u].parent = t
        BY <2>1, <2>2, <2>7 DEF Children
      <4>2. board'[u].parent = board[u].parent
        BY <4>1, <2>1, <2>2, <2>7, <3>2 DEF RowFields
      <4> QED BY <4>1, <4>2
    <3>4. PICK i \in 1..Len(j.writes) : "parent" \in DOMAIN j.writes[i].patch
      BY <2>3, <2>7, <3>1, <3>3 DEF Halfway
    <3> QED BY <3>1, <3>2, <3>4
  <2> QED BY <2>4, <2>6, <2>7 DEF j
<1> QED BY <1>1, <1>2

(* Of tasks no two commands work on at a time: no note is lost, a dedupeKey has   *)
(* one open task if its creations did not overlap and none was opened again, and  *)
(* parents lead up to a task without one if no two merges moved tasks at a time   *)
(* (patchTask, planMerge, applyMerge, create).                                    *)
THEOREM BoardIsSound == Spec => [](TreeStaysATree /\ OneOpenPerKey /\ NoNoteLost)
<1>1. Init => BoardInv
  BY BoardInitially
<1>2. BoardInv /\ [Next]_vars => BoardInv'
  BY BoardStep
<1>3. BoardInv => TreeStaysATree /\ OneOpenPerKey /\ NoNoteLost
  BY BoardTells
<1> QED BY <1>1, <1>2, <1>3, PTL DEF Spec

(* Only a reopening leaves a terminal status, however many commands are under way *)
(* on other tasks, and a merge leaves no child with the source it archives        *)
(* (checkTransition, applyMerge).                                                 *)
THEOREM BoardIsKept == Spec => CommandsKeepTheBoard
<1> DEFINE Kept ==
        \A t \in (DOMAIN board \cap DOMAIN board') \ contested :
            /\ Terminal(board[t]) /\ board'[t].status # board[t].status =>
                  \E p \in Process : Busy(p) /\ job[p].op = "reopen" /\ job[p].task = t
            /\ board[t].mergedInto = None /\ board'[t].mergedInto # None =>
                  Children(board', t) \ contested = {}
<1>1. Init => BoardInv
  BY BoardInitially
<1>2. BoardInv /\ [Next]_vars => BoardInv'
  BY BoardStep
<1>3. BoardInv /\ [Next]_vars => [Kept]_vars
  BY CommandKeepsTheTask
<1>4. CommandsKeepTheBoard <=> [][Kept]_vars
  BY DEF CommandsKeepTheBoard
<1> QED BY <1>1, <1>2, <1>3, <1>4, PTL DEF Spec
================================================================================
