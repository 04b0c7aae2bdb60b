--------------------------- MODULE FirmMemoryProofs ---------------------------
(***************************************************************************)
(* Theorems about the calls of a node and what Atrium does with firm       *)
(* memory, each component by itself and for any values of its constants,   *)
(* and then as the run of MCFirmMemory has it.                             *)
(***************************************************************************)
EXTENDS MCFirmMemory, FiniteSetTheorems, WellFoundedInduction, SequenceTheorems, TLAPS

-----------------------------------------------------------------------------
(***************************************************************************)
(* Theorems about the call path of a node, for every set of nodes,         *)
(* sessions and calls, with or without authentication, a key store and     *)
(* faults.                                                                 *)
(*                                                                         *)
(* Neither property is inductive.  WithdrawnNeverRuns says nothing of a    *)
(* call that has not started yet: Withdrawn adds what keeps it from        *)
(* starting.  RowsTellWhatRan says nothing of a call on its way: Stages    *)
(* adds what each stage has established.                                   *)
(***************************************************************************)

\* What holds a withdrawn call back: its session stays killed, so the audit layer
\* turns it away; its token stays revoked, so the auth layer does.
Withdrawn ==
    \A c \in Call :
        /\ c \in unsent =>
              /\ SessionOf[c] \in killed[Home(c)]
              /\ at[c] \in {"new", "done"} /\ c \notin ran
        /\ KeyStored /\ c \in revoked =>
              /\ token[SessionOf[c]] = "revoked" /\ Home(c) \in Authenticating
              /\ at[c] # "running" /\ c \notin ran

\* What is known of a call at each stage of its way.
Stages ==
    \A c \in Call :
        /\ at[c] # "done" => ledger[c] = "none" /\ answer[c] = "none"
        /\ at[c] \in {"new", "verifying"} => c \notin ran
        /\ at[c] = "running" => c \in ran
        /\ at[c] = "recording" /\ outcome[c] = "success" => c \in ran
        /\ answer[c] = "success" => ledger[c] = "success"
        /\ ledger[c] = "denied" => c \notin ran
        /\ ledger[c] = "success" => c \in ran

IInv == TypeOK /\ Withdrawn /\ Stages

\* A call lives on the node of its session.
LEMMA HomeType ==
    ASSUME NodeAssumption, NEW c \in Call
    PROVE  SessionOf[c] \in Session /\ Home(c) \in Node /\ NodeOf[SessionOf[c]] = Home(c)
BY DEF NodeAssumption, Home

LEMMA InitInv == ASSUME NodeAssumption PROVE Init => IInv
BY DEF Init, IInv, TypeOK, Withdrawn, Stages, NodeAssumption

-----------------------------------------------------------------------------
\* The layers of a call move that call alone, and none of them disturbs what was
\* withdrawn or what the stages know.

LEMMA ReceiveInv ==
    ASSUME NodeAssumption, IInv, NEW c \in Call, Receive(c) PROVE IInv'
<1> USE HomeType DEF IInv, Receive, Answers, Appended, AppendThrows, LedgerOpen, Scoped,
        switchVars, historyVars
<1>1. TypeOK'
  BY DEF TypeOK
<1>2. Withdrawn'
  BY DEF TypeOK, Withdrawn, Stages, Allowed, Home
<1>3. Stages'
  BY DEF TypeOK, Stages
<1> QED BY <1>1, <1>2, <1>3

LEMMA VerifiedInv ==
    ASSUME NodeAssumption, IInv, NEW c \in Call, Verified(c) PROVE IInv'
<1> USE HomeType DEF IInv, Verified, Scoped, switchVars, historyVars
<1>1. TypeOK'
  BY DEF TypeOK
<1>2. Withdrawn'
  BY DEF TypeOK, Withdrawn, TokenStands, Home
<1>3. Stages'
  BY DEF TypeOK, Stages
<1> QED BY <1>1, <1>2, <1>3

LEMMA RefusedInv ==
    ASSUME NodeAssumption, IInv, NEW c \in Call, Refused(c) PROVE IInv'
<1> USE DEF IInv, Refused, switchVars, historyVars
<1>1. TypeOK'
  BY DEF TypeOK
<1>2. Withdrawn'
  BY DEF TypeOK, Withdrawn, Home
<1>3. Stages'
  BY DEF TypeOK, Stages
<1> QED BY <1>1, <1>2, <1>3

LEMMA FinishInv ==
    ASSUME NodeAssumption, IInv, NEW c \in Call, Finish(c) PROVE IInv'
<1> USE DEF IInv, Finish, switchVars, historyVars
<1>1. TypeOK'
  BY DEF TypeOK
<1>2. Withdrawn'
  BY DEF TypeOK, Withdrawn, Home
<1>3. Stages'
  BY DEF TypeOK, Stages
<1> QED BY <1>1, <1>2, <1>3

LEMMA RecordInv ==
    ASSUME NodeAssumption, IInv, NEW c \in Call, Record(c) PROVE IInv'
<1> USE HomeType DEF IInv, Record, Answers, Appended, AppendThrows, LedgerOpen,
        switchVars, historyVars
<1>1. TypeOK'
  BY DEF TypeOK
<1>2. Withdrawn'
  BY DEF TypeOK, Withdrawn, Home
<1>3. Stages'
  BY DEF TypeOK, Stages
<1> QED BY <1>1, <1>2, <1>3

-----------------------------------------------------------------------------
\* The kill switch only ever adds to the killed sessions, and resume() leaves them.

LEMMA KillSessionInv ==
    ASSUME NodeAssumption, IInv, NEW s \in Session, KillSession(s) PROVE IInv'
<1> USE HomeType DEF IInv, KillSession, CallsAt, callVars
<1>1. TypeOK'
  BY DEF TypeOK, NodeAssumption
<1>2. Withdrawn'
  BY DEF TypeOK, Withdrawn, Stages, Home, NodeAssumption
<1>3. Stages'
  BY DEF Stages
<1> QED BY <1>1, <1>2, <1>3

LEMMA SwitchInv ==
    ASSUME IInv, NEW n \in Node, Pause(n) \/ Resume(n) PROVE IInv'
<1> USE DEF IInv, Pause, Resume, callVars, historyVars
<1>1. TypeOK'
  BY DEF TypeOK
<1>2. Withdrawn'
  BY DEF Withdrawn, Home
<1>3. Stages'
  BY DEF Stages
<1> QED BY <1>1, <1>2, <1>3

-----------------------------------------------------------------------------
\* Tokens: a token that was revoked stays so, for only a good one expires.

LEMMA TokenInv ==
    ASSUME NodeAssumption, IInv, NEW s \in Session, Expire(s) \/ Revoke(s) PROVE IInv'
<1> USE DEF IInv, Expire, Revoke, HasToken, CallsAt, switchVars, callVars, historyVars
<1>1. TypeOK'
  BY DEF TypeOK
<1>2. Withdrawn'
  BY HomeType DEF TypeOK, Withdrawn, Stages, Home
<1>3. Stages'
  BY DEF Stages
<1> QED BY <1>1, <1>2, <1>3

\* Close and crash: the calls that are cut have started or will never do.
LEMMA PhaseInv ==
    ASSUME NodeAssumption, IInv, NEW n \in Node, Close(n) \/ CloseLedger(n) \/ Crash(n)
    PROVE  IInv'
<1>1. CASE Close(n) \/ CloseLedger(n)
  BY <1>1 DEF Close, CloseLedger, IInv, TypeOK, Withdrawn, Stages, Home, switchVars, callVars,
              historyVars
<1>2. CASE Crash(n)
  <2> USE <1>2 DEF IInv, Crash, switchVars, historyVars
  <2>1. TypeOK'
    BY DEF TypeOK
  <2>2. Withdrawn'
    BY DEF TypeOK, Withdrawn, Home
  <2>3. Stages'
    BY DEF TypeOK, Stages
  <2> QED BY <2>1, <2>2, <2>3
<1> QED BY <1>1, <1>2

-----------------------------------------------------------------------------
LEMMA NextInv == ASSUME NodeAssumption, IInv, [Next]_vars PROVE IInv'
<1>1. ASSUME NEW c \in Call,
             Receive(c) \/ Verified(c) \/ Refused(c) \/ Finish(c) \/ Record(c)
      PROVE  IInv'
  BY <1>1, ReceiveInv, VerifiedInv, RefusedInv, FinishInv, RecordInv
<1>2. ASSUME NEW n \in Node, Pause(n) \/ Resume(n) \/ Close(n) \/ CloseLedger(n) \/ Crash(n)
      PROVE  IInv'
  BY <1>2, SwitchInv, PhaseInv
<1>3. ASSUME NEW s \in Session, KillSession(s) \/ Expire(s) \/ Revoke(s) PROVE IInv'
  BY <1>3, KillSessionInv, TokenInv
<1>4. CASE UNCHANGED vars
  BY <1>4 DEF IInv, TypeOK, Withdrawn, Stages, Home, vars, switchVars, callVars, historyVars
<1> QED BY <1>1, <1>2, <1>3, <1>4 DEF Next

\* Spec keeps the strengthened invariant; TypeOK, its first part, is the type
\* correctness of every state the node package can be in.
THEOREM ChainInv == Spec => []IInv
<1>1. Init => IInv
  BY InitInv, NodeAssumption
<1>2. IInv /\ [Next]_vars => IInv'
  BY NextInv, NodeAssumption
<1> QED BY <1>1, <1>2, PTL DEF Spec

\* A call made in a session after kill_session, and with a key store a call under a
\* revoked token, never reaches its tool, however many calls, pauses, resumes, closes
\* and crashes come in between (create-node.ts, kill-switch, the auth middleware).
THEOREM WithdrawnCallsNeverRun == Spec => []WithdrawnNeverRuns
<1>1. IInv => WithdrawnNeverRuns
  BY DEF IInv, TypeOK, Withdrawn, WithdrawnNeverRuns
<1> QED BY <1>1, ChainInv, PTL

\* A caller is told of success only with the row of it in the ledger, a denied row
\* stands for a tool that never ran and a success for one that did (the finally block
\* of the audit middleware).
THEOREM RowsAreTrue == Spec => []RowsTellWhatRan
<1>1. IInv => RowsTellWhatRan
  BY DEF IInv, Stages, RowsTellWhatRan
<1> QED BY <1>1, ChainInv, PTL

-----------------------------------------------------------------------------
\* A finite set of naturals that is not empty has a least member: the well-founded
\* order is that of its initial segments.
LEMMA LeastMember ==
    ASSUME NEW U \in SUBSET Nat, IsFiniteSet(U), U # {}
    PROVE  \E m \in U : \A n \in U : m <= n
<1> DEFINE Upto(m) == {n \in U : n <= m}
           T == {Upto(m) : m \in U}
<1>1. FiniteSubsetsOf(U) = SUBSET U
  BY FS_FiniteSubsetsOfFinite
<1>2. T \subseteq SUBSET U /\ T # {}
  <2>1. \A m \in U : Upto(m) \subseteq U
    OBVIOUS
  <2>2. PICK u \in U : TRUE
    OBVIOUS
  <2> HIDE DEF Upto
  <2> QED BY <2>1, <2>2
<1>3. PICK X \in T : \A Y \in T : ~ (<<Y, X>> \in StrictSubsetOrdering(U))
  <2> HIDE DEF T
  <2>1. IsWellFoundedOn(StrictSubsetOrdering(U), SUBSET U)
    BY <1>1, FS_StrictSubsetOrderingWellFounded
  <2> QED BY <2>1, <1>2, WFMin
<1>4. PICK m \in U : X = Upto(m)
  BY <1>3
<1>5. ASSUME NEW n \in U, n < m PROVE FALSE
  <2>1. m \in Nat /\ n \in Nat /\ U \subseteq Nat
    OBVIOUS
  <2>2. m \in Upto(m) /\ m \notin Upto(n) /\ Upto(m) \subseteq U
    BY <1>5, <2>1
  <2>3. \A x \in Upto(n) : x \in Upto(m)
    BY <1>5, <2>1
  <2>4. Upto(n) \in T
    OBVIOUS
  <2> HIDE DEF Upto, T
  <2> QED BY <2>2, <2>3, <2>4, <1>3, <1>4 DEF StrictSubsetOrdering
<1> QED BY <1>5

-----------------------------------------------------------------------------
(***************************************************************************)
(* The session files, for any files, processes and runs of them.           *)
(*                                                                         *)
(* CheckpointIsCovered is not inductive: what will be saved is in the      *)
(* operations and the commands under way.  Settled says of a line number   *)
(* what makes it fit for a checkpoint: every line up to it is whole, and   *)
(* the turns among them are in Firm Memory.  An operation keeps it for the *)
(* last turn it has taken, since it has planned every turn that follows.   *)
(***************************************************************************)
Kind == {"turn", "other", "half"}
Marks == [File -> Nat]
Working == {"turn", "get", "put", "append"}
Ops == [at : {"waiting", "done"}]
         \cup [at : Working, todo : SUBSET Nat, last : Nat, read : Nat]
         \cup [at : {"saving"}, marks : Marks]
Commands == [is : {"idle"}] \cup [is : {"sessions", "other"}, marks : Marks, processed : Nat]

IngestType ==
    /\ lines \in [File -> Seq(Kind)]
    /\ saved \in Marks
    /\ run \in [Process -> Commands]
    /\ op \in [Process -> [File -> Ops]]

Halves == \A f \in File : \A n \in 1..Len(lines[f]) : lines[f][n] = "half" => n = Len(lines[f])

Settled(f, m) ==
    /\ m <= Len(lines[f])
    /\ \A n \in 1..m : lines[f][n] # "half" /\ (lines[f][n] = "turn" => <<f, n>> \in facts)

Planned(f, o) ==
    /\ Settled(f, o.last)
    /\ \A t \in o.todo : /\ t \in 1..Len(lines[f]) /\ o.last < t /\ lines[f][t] = "turn"
                         /\ \A n \in 1..t : o.last < n /\ lines[f][n] = "turn" => n \in o.todo
    /\ o.at # "turn" => o.todo # {}
    /\ o.at = "append" => <<f, Sessions!Min(o.todo)>> \in facts

Sound(f, o) ==
    /\ o.at \in Working => Planned(f, o)
    /\ o.at = "saving" => \A g \in File : Settled(g, o.marks[g])

Own(p) ==
    /\ run[p].is # "idle" => \A f \in File : Settled(f, run[p].marks[f])
    /\ \A f \in File : Sound(f, op[p][f]) /\ (op[p][f].at # "waiting" => run[p].is = "sessions")

IngestInv ==
    /\ IngestType /\ Halves
    /\ \A f \in File : Settled(f, saved[f])
    /\ \A p \in Process : Own(p)

LEMMA IngestInit == Sessions!Init => IngestInv
<1> SUFFICES ASSUME Sessions!Init PROVE IngestInv
  OBVIOUS
<1> USE DEF Sessions!Init, Sessions!NoMarks, Sessions!Idle, Sessions!Waiting
<1>1. IngestType
  <2>1. lines \in [File -> Seq(Kind)]
    <3>1. <<>> \in Seq(Kind) /\ <<"turn">> \in Seq(Kind)
      BY DEF Kind
    <3> QED BY <3>1
  <2>2. saved \in Marks
    BY DEF Marks
  <2>3. run \in [Process -> Commands] /\ op \in [Process -> [File -> Ops]]
    BY DEF Commands, Ops
  <2> QED BY <2>1, <2>2, <2>3 DEF IngestType
<1>2. Halves
  BY DEF Halves
<1>3. ASSUME NEW f \in File PROVE Settled(f, saved[f])
  BY <1>1, LenProperties DEF Settled, IngestType
<1>4. ASSUME NEW p \in Process PROVE Own(p)
  BY DEF Own, Sound, Working
<1> QED BY <1>1, <1>2, <1>3, <1>4 DEF IngestInv

\* What only ever happens to a file and to Firm Memory.
Grows ==
    /\ lines' \in [File -> Seq(Kind)] /\ Halves'
    /\ facts \subseteq facts'
    /\ \A f \in File : /\ Len(lines[f]) <= Len(lines'[f])
                       /\ \A n \in 1..Len(lines[f]) :
                              lines[f][n] # "half" => lines'[f][n] = lines[f][n]

LEMMA LinesGrow ==
    ASSUME IngestInv, NEW g \in File, NEW kind \in Kind, Sessions!Grow(g, kind)
    PROVE  Grows
<1> DEFINE old == lines[g]
           new == lines'[g]
<1>1. old \in Seq(Kind) /\ Len(old) \in Nat /\ lines \in [File -> Seq(Kind)]
        /\ \A n \in 1..Len(old) : old[n] = "half" => n = Len(old)
  BY LenProperties DEF IngestInv, IngestType, Halves
<1>2. CASE old # <<>> /\ old[Len(old)] = "half"
  <2>1. kind # "half" /\ lines' = [lines EXCEPT ![g] = [old EXCEPT ![Len(old)] = kind]]
    BY <1>2 DEF Sessions!Grow, Sessions!Last
  <2>2. new = [old EXCEPT ![Len(old)] = kind]
    BY <1>1, <2>1
  <2> HIDE DEF old, new
  <2>3. /\ new \in Seq(Kind) /\ Len(new) = Len(old)
        /\ \A n \in 1..Len(old) : n # Len(old) => new[n] = old[n]
        /\ \A n \in 1..Len(old) : new[n] # "half"
    <3>1. old \in Seq(Kind) /\ Len(old) \in 1..Len(old)
      BY <1>1, <1>2, EmptySeq
    <3>2. /\ new \in Seq(Kind) /\ Len(new) = Len(old)
          /\ \A n \in 1..Len(old) : new[n] = IF n = Len(old) THEN kind ELSE old[n]
      BY <2>2, <3>1, ExceptSeq
    <3> QED BY <1>1, <2>1, <3>2
  <2>4. \A n \in 1..Len(old) : old[n] # "half" => new[n] = old[n]
    BY <1>2, <2>3
  <2>5. \A f \in File \ {g} : lines'[f] = lines[f]
    BY <1>1, <2>1
  <2>6. lines' \in [File -> Seq(Kind)]
    BY <1>1, <2>1, <2>2, <2>3
  <2>8. Halves'
    <3> SUFFICES ASSUME NEW f \in File, NEW n \in 1..Len(lines'[f]), lines'[f][n] = "half"
                 PROVE  n = Len(lines'[f])
      BY DEF Halves
    <3>1. CASE f = g
      BY <2>3, <3>1 DEF new
    <3>2. CASE f # g
      BY <2>5, <3>2 DEF IngestInv, Halves
    <3> QED BY <3>1, <3>2
  <2>9. ASSUME NEW f \in File
        PROVE  /\ Len(lines[f]) <= Len(lines'[f])
               /\ \A n \in 1..Len(lines[f]) : lines[f][n] # "half" => lines'[f][n] = lines[f][n]
    <3>1. CASE f = g
      BY <1>1, <2>3, <2>4, <3>1 DEF old, new
    <3>2. CASE f # g
      <4>1. Len(lines[f]) \in Nat
        BY LenProperties DEF IngestInv, IngestType
      <4> QED BY <2>5, <3>2, <4>1
    <3> QED BY <3>1, <3>2
  <2>10. facts \subseteq facts'
    BY DEF Sessions!Grow
  <2> QED BY <2>6, <2>8, <2>9, <2>10 DEF Grows
<1>3. CASE ~ (old # <<>> /\ old[Len(old)] = "half")
  <2>1. lines' = [lines EXCEPT ![g] = Append(old, kind)]
    BY <1>3 DEF Sessions!Grow, Sessions!Last
  <2>2. new = Append(old, kind)
    BY <1>1, <2>1
  <2>3. \A n \in 1..Len(old) : old[n] # "half"
    BY <1>1, <1>3
  <2> HIDE DEF old, new
  <2>4. /\ new \in Seq(Kind) /\ Len(new) = Len(old) + 1
        /\ \A n \in 1..Len(old) : new[n] = old[n]
    BY <1>1, <2>2
  <2>5. \A n \in 1..Len(new) : new[n] = "half" => n = Len(new)
    BY <1>1, <2>3, <2>4
  <2>6. \A f \in File \ {g} : lines'[f] = lines[f]
    BY <1>1, <2>1
  <2>7. lines' \in [File -> Seq(Kind)]
    BY <1>1, <2>1, <2>2, <2>4
  <2>8. Halves'
    <3> SUFFICES ASSUME NEW f \in File, NEW n \in 1..Len(lines'[f]), lines'[f][n] = "half"
                 PROVE  n = Len(lines'[f])
      BY DEF Halves
    <3>1. CASE f = g
      BY <2>5, <3>1 DEF new
    <3>2. CASE f # g
      BY <2>6, <3>2 DEF IngestInv, Halves
    <3> QED BY <3>1, <3>2
  <2>9. ASSUME NEW f \in File
        PROVE  /\ Len(lines[f]) <= Len(lines'[f])
               /\ \A n \in 1..Len(lines[f]) : lines[f][n] # "half" => lines'[f][n] = lines[f][n]
    <3>1. CASE f = g
      BY <1>1, <2>4, <3>1 DEF old, new
    <3>2. CASE f # g
      <4>1. Len(lines[f]) \in Nat
        BY LenProperties DEF IngestInv, IngestType
      <4> QED BY <2>6, <3>2, <4>1
    <3> QED BY <3>1, <3>2
  <2>10. facts \subseteq facts'
    BY DEF Sessions!Grow
  <2> QED BY <2>7, <2>8, <2>9, <2>10 DEF Grows
<1> QED BY <1>2, <1>3

LEMMA SettledStays ==
    ASSUME IngestInv, Grows, NEW f \in File, NEW m \in Nat, Settled(f, m) PROVE Settled(f, m)'
<1>1. Len(lines[f]) \in Nat /\ Len(lines'[f]) \in Nat
  BY LenProperties DEF IngestInv, IngestType, Grows
<1> QED BY <1>1 DEF Grows, Settled

LEMMA SoundStays ==
    ASSUME IngestInv, Grows, NEW f \in File, NEW o \in Ops, Sound(f, o) PROVE Sound(f, o)'
<1>1. CASE o.at \in Working
  <2>1. o.last \in Nat /\ o.todo \subseteq Nat /\ o.at # "saving"
    BY <1>1 DEF Ops, Working
  <2>2. Planned(f, o) /\ Len(lines[f]) \in Nat /\ Len(lines'[f]) \in Nat
    BY <1>1, LenProperties DEF Sound, IngestInv, IngestType, Grows
  <2>3. Settled(f, o.last)'
    BY <2>1, <2>2, SettledStays DEF Planned
  <2>4. ASSUME NEW t \in o.todo
        PROVE  /\ t \in 1..Len(lines'[f]) /\ o.last < t /\ lines'[f][t] = "turn"
               /\ \A n \in 1..t : o.last < n /\ lines'[f][n] = "turn" => n \in o.todo
    <3>1. t \in 1..Len(lines[f]) /\ lines[f][t] = "turn" /\ o.last < t
      BY <2>2 DEF Planned
    <3>2. t \in 1..Len(lines'[f]) /\ lines'[f][t] = "turn"
      BY <2>2, <3>1 DEF Grows
    <3>3. ASSUME NEW n \in 1..t, o.last < n, lines'[f][n] = "turn" PROVE n \in o.todo
      <4>1. n \in 1..Len(lines[f]) /\ lines[f][n] # "half"
        BY <2>2, <3>1 DEF IngestInv, Halves
      <4>2. lines[f][n] = "turn"
        BY <3>3, <4>1 DEF Grows
      <4> QED BY <2>2, <3>3, <4>2 DEF Planned
    <3> QED BY <3>1, <3>2, <3>3
  <2> QED BY <2>1, <2>2, <2>3, <2>4 DEF Sound, Planned, Grows
<1>2. CASE o.at = "saving"
  <2>1. o.marks \in Marks /\ o.at \notin Working
    BY <1>2 DEF Ops, Working
  <2> QED BY <1>2, <2>1, SettledStays DEF Sound, Marks
<1>3. CASE o.at \notin Working /\ o.at # "saving"
  BY <1>3 DEF Sound
<1> QED BY <1>1, <1>2, <1>3

LEMMA StayingGrows ==
    ASSUME IngestInv, lines' = lines, facts \subseteq facts' PROVE Grows
<1>1. Halves'
  BY DEF IngestInv, Halves
<1>2. \A f \in File : Len(lines[f]) \in Nat
  BY LenProperties DEF IngestInv, IngestType
<1> QED BY <1>1, <1>2 DEF Grows, IngestInv, IngestType

LEMMA OwnStays ==
    ASSUME IngestInv, Grows, NEW p \in Process, run'[p] = run[p], op'[p] = op[p] PROVE Own(p)'
<1>1. run[p] \in Commands /\ op[p] \in [File -> Ops]
  BY DEF IngestInv, IngestType
<1>2. ASSUME run[p].is # "idle", NEW f \in File PROVE Settled(f, run[p].marks[f])'
  <2>1. PICK m \in Nat : m = run[p].marks[f]
    BY <1>1, <1>2 DEF Commands, Marks
  <2>2. Settled(f, m)
    BY <1>2, <2>1 DEF IngestInv, Own
  <2>3. Settled(f, m)'
    BY <2>2, SettledStays
  <2>4. run'[p].marks[f] = m
    BY <2>1
  <2> QED BY <2>3, <2>4 DEF Settled
<1>3. ASSUME NEW f \in File PROVE Sound(f, op[p][f])'
  <2>1. PICK o \in Ops : o = op[p][f]
    BY <1>1
  <2>2. Sound(f, o)
    BY <2>1 DEF IngestInv, Own
  <2>3. Sound(f, o)'
    BY <2>2, SoundStays
  <2>4. op'[p][f] = o
    BY <2>1
  <2> QED BY <2>3, <2>4 DEF Sound, Planned, Settled
<1> QED BY <1>2, <1>3 DEF IngestInv, Own

\* A checkpoint that is saved was settled before.
LEMMA SavedStays ==
    ASSUME IngestInv, Grows, NEW marks \in Marks, \A f \in File : Settled(f, marks[f]), saved' = marks
    PROVE  /\ saved' \in Marks
           /\ \A f \in File : Settled(f, saved[f])'
<1> SUFFICES ASSUME NEW f \in File PROVE Settled(f, saved[f])'
  OBVIOUS
<1>1. PICK m \in Nat : m = marks[f]
  BY DEF Marks
<1>2. Settled(f, m)'
  BY <1>1, SettledStays
<1> QED BY <1>1, <1>2 DEF Settled

\* An operation moves on, and its command perhaps with it.
LEMMA OpMoves ==
    ASSUME IngestInv, Grows, NEW p \in Process, NEW f \in File, NEW o \in Ops,
           Sessions!Becomes(p, f, o), Sound(f, o)',
           run[p].is = "sessions", NEW c \in Commands, run' = [run EXCEPT ![p] = c],
           c.is = "sessions", \A g \in File : Settled(g, c.marks[g])',
           saved' \in Marks, \A g \in File : Settled(g, saved[g])'
    PROVE  IngestInv'
<1>1. op \in [Process -> [File -> Ops]] /\ run \in [Process -> Commands]
  BY DEF IngestInv, IngestType
<1>2. op' = [op EXCEPT ![p][f] = o]
  BY DEF Sessions!Becomes
<1>3. /\ op' \in [Process -> [File -> Ops]] /\ op'[p][f] = o
      /\ \A g \in File \ {f} : op'[p][g] = op[p][g]
      /\ \A q \in Process \ {p} : op'[q] = op[q]
  BY <1>1, <1>2
<1>4. /\ run' \in [Process -> Commands] /\ run'[p] = c
      /\ \A q \in Process \ {p} : run'[q] = run[q]
  BY <1>1
<1>5. IngestType' /\ Halves'
  BY <1>3, <1>4 DEF IngestType, Grows
<1>6. ASSUME NEW g \in File
      PROVE  Sound(g, op[p][g])' /\ Settled(g, run[p].marks[g])'
  <2>1. Settled(g, run[p].marks[g])'
    <3>1. Settled(g, c.marks[g])'
      OBVIOUS
    <3> QED BY <1>4, <3>1 DEF Settled
  <2>2. CASE g = f
    <3>1. Sound(f, o)'
      OBVIOUS
    <3> QED BY <1>3, <2>1, <2>2, <3>1 DEF Sound, Planned, Settled
  <2>3. CASE g # f
    <3>1. PICK x \in Ops : x = op[p][g]
      BY <1>1
    <3>2. Sound(g, x)'
      BY <3>1, SoundStays DEF IngestInv, Own
    <3>3. op'[p][g] = x
      BY <1>3, <2>3, <3>1
    <3> QED BY <2>1, <3>2, <3>3 DEF Sound, Planned, Settled
  <2> QED BY <2>2, <2>3
<1>7. Own(p)'
  BY <1>4, <1>6 DEF Own
<1>8. ASSUME NEW q \in Process PROVE Own(q)'
  <2>1. CASE q = p
    BY <1>7, <2>1
  <2>2. CASE q # p
    BY <1>3, <1>4, <2>2, OwnStays
  <2> QED BY <2>1, <2>2
<1> QED BY <1>5, <1>8 DEF IngestInv

\* A command begins, ends or dies, and its operations with it.
LEMMA CommandMoves ==
    ASSUME IngestInv, lines' = lines, facts' = facts, NEW p \in Process, NEW c \in Commands,
           run' = [run EXCEPT ![p] = c],
           op' = [op EXCEPT ![p] = Sessions!Waiting] \/ (op' = op /\ op[p] = Sessions!Waiting),
           c.is # "idle" => \A f \in File : Settled(f, c.marks[f]),
           NEW marks \in Marks, saved' = marks, \A f \in File : Settled(f, marks[f])
    PROVE  IngestInv'
<1>1. op \in [Process -> [File -> Ops]] /\ run \in [Process -> Commands]
  BY DEF IngestInv, IngestType
<1>2. Grows
  BY StayingGrows
<1>3. Sessions!Waiting \in [File -> Ops]
  BY DEF Sessions!Waiting, Ops
<1>4. /\ op' \in [Process -> [File -> Ops]] /\ op'[p] = Sessions!Waiting
      /\ \A q \in Process \ {p} : op'[q] = op[q]
  BY <1>1, <1>3
<1>5. /\ run' \in [Process -> Commands] /\ run'[p] = c
      /\ \A q \in Process \ {p} : run'[q] = run[q]
  BY <1>1
<1>6. saved' \in Marks /\ \A f \in File : Settled(f, saved[f])'
  BY <1>2, SavedStays
<1>7. IngestType' /\ Halves'
  BY <1>2, <1>4, <1>5, <1>6 DEF IngestType, Grows
<1>8. Own(p)'
  <2>1. ASSUME NEW f \in File
        PROVE  op'[p][f].at = "waiting" /\ Sound(f, op[p][f])'
    BY <1>4 DEF Sessions!Waiting, Sound, Working
  <2>2. ASSUME c.is # "idle", NEW f \in File PROVE Settled(f, run[p].marks[f])'
    <3>1. Settled(f, c.marks[f])
      BY <2>2
    <3> QED BY <1>5, <3>1 DEF Settled
  <2> QED BY <1>5, <2>1, <2>2 DEF Own
<1>9. ASSUME NEW q \in Process PROVE Own(q)'
  <2>1. CASE q = p
    BY <1>8, <2>1
  <2>2. CASE q # p
    BY <1>2, <1>4, <1>5, <2>2, OwnStays
  <2> QED BY <2>1, <2>2
<1> QED BY <1>6, <1>7, <1>9 DEF IngestInv

LEMMA GrowKeeps ==
    ASSUME IngestInv, NEW f \in File, NEW kind \in Kind, Sessions!Grow(f, kind) PROVE IngestInv'
<1>1. Grows
  BY LinesGrow
<1>2. UNCHANGED <<saved, run, op>>
  BY DEF Sessions!Grow
<1>3. \A p \in Process : Own(p)'
  BY <1>1, <1>2, OwnStays
<1>4. ASSUME NEW g \in File PROVE Settled(g, saved[g])'
  <2>1. PICK m \in Nat : m = saved[g]
    BY DEF IngestInv, IngestType, Marks
  <2>2. Settled(g, m)'
    BY <1>1, <2>1, SettledStays DEF IngestInv
  <2> QED BY <1>2, <2>1, <2>2 DEF Settled
<1> QED BY <1>1, <1>2, <1>3, <1>4 DEF IngestInv, IngestType, Grows

LEMMA BeginKeeps ==
    ASSUME IngestInv, NEW p \in Process, NEW command \in {"sessions", "other"}, Sessions!Begin(p, command)
    PROVE  IngestInv'
<1>1. PICK marks \in Marks : marks = saved
  BY DEF IngestInv, IngestType
<1>2. PICK c \in Commands : c = [is |-> command, marks |-> marks, processed |-> 0]
  BY DEF Commands
<1>3. \A f \in File : Settled(f, marks[f]) /\ Settled(f, c.marks[f])
  BY <1>1, <1>2 DEF IngestInv
<1>4. /\ run' = [run EXCEPT ![p] = c] /\ op' = [op EXCEPT ![p] = Sessions!Waiting]
      /\ saved' = marks /\ lines' = lines /\ facts' = facts
  BY <1>1, <1>2 DEF Sessions!Begin
<1> QED BY <1>3, <1>4, CommandMoves

\* What is known of an operation that is under way.
LEMMA OpFacts ==
    ASSUME IngestInv, NEW p \in Process, NEW f \in File, op[p][f].at # "waiting"
    PROVE  /\ op[p][f] \in Ops /\ Sound(f, op[p][f])
           /\ run[p] \in [is : {"sessions"}, marks : Marks, processed : Nat]
           /\ \A g \in File : Settled(g, run[p].marks[g])
<1>1. run[p] \in Commands /\ op[p] \in [File -> Ops]
  BY DEF IngestInv, IngestType
<1>2. run[p].is = "sessions" /\ Sound(f, op[p][f]) /\ \A g \in File : Settled(g, run[p].marks[g])
  BY DEF IngestInv, Own
<1> QED BY <1>1, <1>2 DEF Commands

\* A step that leaves files, Firm Memory and the checkpoints as they are.
LEMMA OpStep ==
    ASSUME IngestInv, NEW p \in Process, NEW f \in File, NEW o \in Ops,
           Sessions!Becomes(p, f, o), lines' = lines, facts \subseteq facts', saved' = saved,
           Sound(f, o)' \/ Sound(f, o),
           NEW c \in [is : {"sessions"}, marks : Marks, processed : Nat], run' = [run EXCEPT ![p] = c],
           run[p].is = "sessions", \A g \in File : Settled(g, c.marks[g])
    PROVE  IngestInv'
<1>1. Grows
  BY StayingGrows
<1>2. Sound(f, o)'
  BY <1>1, SoundStays
<1>3. ASSUME NEW g \in File PROVE Settled(g, c.marks[g])'
  <2>1. PICK m \in Nat : m = c.marks[g]
    BY DEF Marks
  <2>2. Settled(g, m)'
    BY <1>1, <2>1, SettledStays
  <2> QED BY <2>1, <2>2
<1>4. saved' \in Marks /\ \A g \in File : Settled(g, saved[g])'
  <2>1. PICK marks \in Marks : marks = saved
    BY DEF IngestInv, IngestType
  <2> QED BY <1>1, <2>1, SavedStays DEF IngestInv
<1>5. c \in Commands /\ c.is = "sessions"
  BY DEF Commands
<1> QED BY <1>1, <1>2, <1>3, <1>4, <1>5, OpMoves

LEMMA ReadKeeps ==
    ASSUME IngestInv, NEW p \in Process, NEW f \in File, Sessions!Read(p, f) PROVE IngestInv'
<1>1. /\ run[p] \in [is : {"sessions"}, marks : Marks, processed : Nat]
      /\ \A g \in File : Settled(g, run[p].marks[g])
  <2>1. run[p] \in Commands /\ run[p].is = "sessions"
    BY DEF Sessions!Read, IngestInv, IngestType
  <2> QED BY <2>1 DEF Commands, IngestInv, Own
<1>2. PICK c \in [is : {"sessions"}, marks : Marks, processed : Nat] : c = run[p]
  BY <1>1
<1>3. run' = [run EXCEPT ![p] = c] /\ run[p].is = "sessions" /\ \A g \in File : Settled(g, c.marks[g])
  BY <1>1, <1>2 DEF Sessions!Read, IngestInv, IngestType
<1>4. lines' = lines /\ facts' = facts /\ saved' = saved
  BY DEF Sessions!Read
<1>5. CASE Sessions!Becomes(p, f, [at |-> "done"])
  <2>1. [at |-> "done"] \in Ops /\ Sound(f, [at |-> "done"])
    BY DEF Ops, Sound, Working
  <2> QED BY <1>3, <1>4, <1>5, <2>1, OpStep
<1>6. CASE ~ Sessions!Becomes(p, f, [at |-> "done"])
  <2>1. PICK todo, last, read :
           /\ todo = Sessions!Turns(f, run[p].marks[f]) /\ last = run[p].marks[f]
           /\ read = Len(lines[f])
    OBVIOUS
  <2> DEFINE o == [at |-> "turn", todo |-> todo, last |-> last, read |-> read]
  <2>2. Sessions!Becomes(p, f, o)
    BY <1>6, <2>1 DEF Sessions!Read
  <2>3. last \in Nat /\ read \in Nat /\ Settled(f, last)
    BY <1>1, <2>1, LenProperties DEF Marks, IngestInv, IngestType
  <2>4. todo = {n \in 1..Len(lines[f]) : n > last /\ lines[f][n] = "turn"}
    BY <2>1 DEF Sessions!Turns
  <2>5. Len(lines[f]) \in Nat
    BY <2>1, <2>3
  <2>6. Planned(f, o)
    BY <2>3, <2>4, <2>5 DEF Planned
  <2>7. o \in Ops /\ Sound(f, o)
    <3>1. o.at = "turn" /\ o.at # "saving"
      OBVIOUS
    <3>2. todo \subseteq Nat
      BY <2>4, <2>5
    <3>3. o \in Ops
      BY <2>3, <3>2 DEF Ops, Working
    <3> QED BY <2>6, <3>1, <3>3 DEF Sound
  <2> HIDE DEF o
  <2> QED BY <1>3, <1>4, <2>2, <2>7, OpStep
<1> QED BY <1>5, <1>6

\* The turn that is taken is the first of those planned.
LEMMA TurnFacts ==
    ASSUME IngestInv, NEW f \in File, NEW o \in Ops, o.at \in Working, o.at # "turn", Sound(f, o)
    PROVE  /\ Sessions!Min(o.todo) \in o.todo /\ Sessions!Min(o.todo) \in Nat
           /\ \A n \in o.todo : Sessions!Min(o.todo) <= n
<1>1. o.todo \in SUBSET Nat /\ o.todo # {}
  BY DEF Ops, Working, Sound, Planned
<1>2. o.todo \subseteq 1..Len(lines[f])
  BY DEF Sound, Planned
<1>3. Len(lines[f]) \in Nat
  BY LenProperties DEF IngestInv, IngestType
<1>4. IsFiniteSet(o.todo)
  <2>1. \A n \in Nat : IsFiniteSet(1..n)
    BY FS_Interval
  <2> QED BY <1>2, <1>3, <2>1, FS_Subset
<1>5. \E m \in o.todo : \A n \in o.todo : m <= n
  BY <1>1, <1>4, LeastMember
<1> QED BY <1>1, <1>5 DEF Sessions!Min

\* A turn that is in Firm Memory is taken.
LEMMA AdvanceKeeps ==
    ASSUME IngestInv, NEW p \in Process, NEW f \in File, op[p][f].at \in {"get", "append"},
           Sessions!FactOf(p, f) \in facts, Sessions!Advance(p, f), UNCHANGED <<lines, facts, saved>>
    PROVE  IngestInv'
<1>1. PICK o \in Ops : o = op[p][f]
  BY OpFacts
<1>2. /\ o.at \in Working /\ o.at # "turn" /\ Sound(f, o)
      /\ run[p] \in [is : {"sessions"}, marks : Marks, processed : Nat]
      /\ \A g \in File : Settled(g, run[p].marks[g])
  BY <1>1, OpFacts DEF Working
<1>3. PICK t : t = Sessions!Min(o.todo)
  OBVIOUS
<1>4. /\ t \in o.todo /\ t \in Nat /\ \A n \in o.todo : t <= n
      /\ <<f, t>> \in facts
  BY <1>1, <1>2, <1>3, TurnFacts DEF Sessions!FactOf, Sessions!Turn
<1> DEFINE new == [at |-> "turn", todo |-> o.todo \ {t}, last |-> t, read |-> o.read]
<1>5. o \in [at : Working, todo : SUBSET Nat, last : Nat, read : Nat]
  BY <1>2 DEF Ops, Working
<1>6. Sessions!Becomes(p, f, new)
  BY <1>1, <1>3 DEF Sessions!Advance, Sessions!Turn
<1>7. Planned(f, new)
  <2>1. Planned(f, o) /\ o.todo \subseteq Nat /\ o.last \in Nat /\ Len(lines[f]) \in Nat
    BY <1>2, <1>5, LenProperties DEF Sound, IngestInv, IngestType
  <2>2. Settled(f, t)
    <3>1. t \in 1..Len(lines[f]) /\ Settled(f, o.last) /\ o.last < t /\ lines[f][t] = "turn"
      BY <1>4, <2>1 DEF Planned
    <3>2. ASSUME NEW n \in 1..t
          PROVE  lines[f][n] # "half" /\ (lines[f][n] = "turn" => <<f, n>> \in facts)
      <4>1. CASE n <= o.last
        BY <2>1, <3>1, <4>1 DEF Settled
      <4>2. CASE n = t
        BY <1>4, <3>1, <4>2
      <4>3. CASE o.last < n /\ n < t
        <5>1. lines[f][n] # "turn"
          BY <1>4, <2>1, <4>3 DEF Planned
        <5>2. lines[f][n] # "half"
          BY <2>1, <3>1, <4>3 DEF IngestInv, Halves
        <5> QED BY <5>1, <5>2
      <4> QED BY <2>1, <3>1, <4>1, <4>2, <4>3
    <3> QED BY <3>1, <3>2 DEF Settled
  <2>3. \A x \in o.todo \ {t} : t < x
    BY <1>4, <2>1
  <2> QED BY <1>4, <2>1, <2>2, <2>3 DEF Planned
<1>8. new \in Ops /\ Sound(f, new)
  <2>1. new \in [at : Working, todo : SUBSET Nat, last : Nat, read : Nat]
    BY <1>4, <1>5 DEF Working
  <2>2. new.at # "saving"
    OBVIOUS
  <2> QED BY <1>7, <2>1, <2>2 DEF Ops, Sound
<1> HIDE DEF new
<1>9. PICK c \in [is : {"sessions"}, marks : Marks, processed : Nat] :
         run' = [run EXCEPT ![p] = c] /\ c.marks = run[p].marks
  <2>1. PICK r \in [is : {"sessions"}, marks : Marks, processed : Nat] : r = run[p]
    BY <1>2
  <2> DEFINE c == [r EXCEPT !.processed = r.processed + 1]
  <2>2. run' = [run EXCEPT ![p] = c]
    BY <2>1 DEF Sessions!Advance
  <2>3. c \in [is : {"sessions"}, marks : Marks, processed : Nat] /\ c.marks = r.marks
    OBVIOUS
  <2> HIDE DEF c
  <2> QED BY <2>1, <2>2, <2>3
<1>10. run[p].is = "sessions" /\ \A g \in File : Settled(g, c.marks[g])
  BY <1>2, <1>9
<1>11. facts \subseteq facts' /\ lines' = lines /\ saved' = saved
  OBVIOUS
<1> QED BY <1>6, <1>8, <1>9, <1>10, <1>11, OpStep
\* A command is idle, or its checkpoints are settled; those of nothing always are.
LEMMA NoMarksAreSettled ==
    ASSUME IngestInv PROVE Sessions!NoMarks \in Marks /\ \A f \in File : Settled(f, Sessions!NoMarks[f])
<1>1. \A f \in File : Len(lines[f]) \in Nat
  BY LenProperties DEF IngestInv, IngestType
<1> QED BY <1>1 DEF Sessions!NoMarks, Marks, Settled

LEMMA CheckKeeps ==
    ASSUME IngestInv, NEW p \in Process, NEW f \in File, Sessions!Check(p, f) PROVE IngestInv'
<1>1. op[p][f].at = "turn" /\ lines' = lines /\ facts' = facts /\ saved' = saved
  BY DEF Sessions!Check
<1>2. PICK o \in Ops : o = op[p][f]
  BY <1>1, OpFacts
<1>3. PICK r \in [is : {"sessions"}, marks : Marks, processed : Nat] : r = run[p]
  BY <1>1, OpFacts
<1>4. /\ o.at = "turn" /\ Sound(f, o) /\ run[p].is = "sessions"
      /\ \A g \in File : Settled(g, r.marks[g])
  BY <1>1, <1>2, <1>3, OpFacts
<1>5. o \in [at : Working, todo : SUBSET Nat, last : Nat, read : Nat]
  BY <1>4 DEF Ops
<1>6. Planned(f, o)
  BY <1>4 DEF Sound, Working
<1>7. CASE o.todo = {} \/ Sessions!Capped(p)
  <2>1. PICK marks \in Marks : marks = [r.marks EXCEPT ![f] = o.last]
    BY <1>5 DEF Marks
  <2>2. \A g \in File : Settled(g, marks[g])
    BY <1>4, <1>6, <2>1 DEF Marks, Planned
  <2>3. PICK c \in [is : {"sessions"}, marks : Marks, processed : Nat] : c = [r EXCEPT !.marks = marks]
    OBVIOUS
  <2>4. c.marks = marks
    BY <2>3
  <2>5. run' = [run EXCEPT ![p] = c] /\ Sessions!Becomes(p, f, [at |-> "saving", marks |-> marks])
    BY <1>1, <1>2, <1>3, <1>7, <2>1, <2>3 DEF Sessions!Check, Sessions!Reached
  <2>6. PICK new \in Ops : new = [at |-> "saving", marks |-> marks]
    BY DEF Ops
  <2>7. Sound(f, new)
    BY <2>2, <2>6 DEF Sound, Working
  <2> QED BY <1>1, <1>4, <2>2, <2>4, <2>5, <2>6, <2>7, OpStep
<1>8. CASE ~ (o.todo = {} \/ Sessions!Capped(p))
  <2>1. PICK new \in [at : Working, todo : SUBSET Nat, last : Nat, read : Nat] :
           new = [o EXCEPT !.at = "get"]
    BY <1>5 DEF Working
  <2>2. new.at = "get" /\ new.todo = o.todo /\ new.last = o.last
    BY <1>5, <2>1
  <2>3. new \in Ops /\ Sound(f, new)
    BY <1>6, <1>8, <2>2 DEF Ops, Sound, Planned, Working
  <2>4. Sessions!Becomes(p, f, new) /\ run' = run
    BY <1>1, <1>2, <1>8, <2>1 DEF Sessions!Check
  <2>5. run' = [run EXCEPT ![p] = r]
    BY <1>3, <2>4 DEF IngestInv, IngestType
  <2> QED BY <1>1, <1>4, <2>3, <2>4, <2>5, OpStep
<1> QED BY <1>7, <1>8

LEMMA GetKeeps ==
    ASSUME IngestInv, NEW p \in Process, NEW f \in File, Sessions!Get(p, f) PROVE IngestInv'
<1>1. op[p][f].at = "get" /\ lines' = lines /\ facts' = facts /\ saved' = saved
  BY DEF Sessions!Get
<1>2. CASE Sessions!FactOf(p, f) \in facts
  BY <1>1, <1>2, AdvanceKeeps DEF Sessions!Get
<1>3. CASE Sessions!FactOf(p, f) \notin facts
  <2>1. PICK o \in Ops : o = op[p][f]
    BY <1>1, OpFacts
  <2>2. PICK r \in [is : {"sessions"}, marks : Marks, processed : Nat] : r = run[p]
    BY <1>1, OpFacts
  <2>3. /\ o.at = "get" /\ Sound(f, o) /\ run[p].is = "sessions"
        /\ \A g \in File : Settled(g, r.marks[g])
    BY <1>1, <2>1, <2>2, OpFacts
  <2>4. o \in [at : Working, todo : SUBSET Nat, last : Nat, read : Nat]
    BY <2>3 DEF Ops
  <2>5. Planned(f, o)
    BY <2>3 DEF Sound, Working
  <2>6. PICK new \in [at : Working, todo : SUBSET Nat, last : Nat, read : Nat] :
           new = [o EXCEPT !.at = "put"]
    BY <2>4 DEF Working
  <2>7. new.at = "put" /\ new.todo = o.todo /\ new.last = o.last
    BY <2>4, <2>6
  <2>8. new \in Ops /\ Sound(f, new)
    BY <2>3, <2>5, <2>7 DEF Ops, Sound, Planned, Working
  <2>9. Sessions!Becomes(p, f, new) /\ run' = run
    BY <1>1, <1>3, <2>1, <2>6 DEF Sessions!Get
  <2>10. run' = [run EXCEPT ![p] = r]
    BY <2>2, <2>9 DEF IngestInv, IngestType
  <2> QED BY <1>1, <2>3, <2>8, <2>9, <2>10, OpStep
<1> QED BY <1>2, <1>3

LEMMA PutKeeps ==
    ASSUME IngestInv, NEW p \in Process, NEW f \in File, Sessions!Put(p, f) PROVE IngestInv'
<1>1. /\ op[p][f].at = "put" /\ lines' = lines /\ saved' = saved /\ run' = run
      /\ facts' = facts \cup {Sessions!FactOf(p, f)}
  BY DEF Sessions!Put
<1>2. PICK o \in Ops : o = op[p][f]
  BY <1>1, OpFacts
<1>3. PICK r \in [is : {"sessions"}, marks : Marks, processed : Nat] : r = run[p]
  BY <1>1, OpFacts
<1>4. /\ o.at = "put" /\ Sound(f, o) /\ run[p].is = "sessions"
      /\ \A g \in File : Settled(g, r.marks[g])
  BY <1>1, <1>2, <1>3, OpFacts
<1>5. o \in [at : Working, todo : SUBSET Nat, last : Nat, read : Nat]
  BY <1>4 DEF Ops
<1>6. Grows
  BY <1>1, StayingGrows
<1>7. Planned(f, o)'
  <2>1. Sound(f, o)'
    BY <1>4, <1>6, SoundStays
  <2> QED BY <1>4, <2>1 DEF Sound, Working
<1>8. PICK new \in [at : Working, todo : SUBSET Nat, last : Nat, read : Nat] :
         new = [o EXCEPT !.at = "append"]
  BY <1>5 DEF Working
<1>9. new.at = "append" /\ new.todo = o.todo /\ new.last = o.last
  BY <1>5, <1>8
<1>10. <<f, Sessions!Min(new.todo)>> \in facts'
  BY <1>1, <1>2, <1>9 DEF Sessions!FactOf, Sessions!Turn
<1>11. Planned(f, new)'
  BY <1>4, <1>7, <1>9, <1>10 DEF Planned, Settled
<1>12. new \in Ops /\ Sound(f, new)'
  BY <1>9, <1>11 DEF Ops, Sound, Working
<1>13. Sessions!Becomes(p, f, new)
  BY <1>2, <1>8 DEF Sessions!Put
<1>14. run' = [run EXCEPT ![p] = r]
  BY <1>1, <1>3 DEF IngestInv, IngestType
<1>15. facts \subseteq facts'
  BY <1>1
<1> QED BY <1>1, <1>4, <1>12, <1>13, <1>14, <1>15, OpStep

LEMMA PutFailsKeeps ==
    ASSUME IngestInv, NEW p \in Process, NEW f \in File, Sessions!PutFails(p, f) PROVE IngestInv'
<1>1. /\ op[p][f].at = "put" /\ lines' = lines /\ saved' = saved /\ run' = run /\ facts' = facts
      /\ Sessions!Becomes(p, f, [at |-> "done"])
  BY DEF Sessions!PutFails
<1>2. PICK r \in [is : {"sessions"}, marks : Marks, processed : Nat] : r = run[p]
  BY <1>1, OpFacts
<1>3. run[p].is = "sessions" /\ \A g \in File : Settled(g, r.marks[g])
  BY <1>1, <1>2, OpFacts
<1>4. [at |-> "done"] \in Ops /\ Sound(f, [at |-> "done"])
  BY DEF Ops, Sound, Working
<1>5. run' = [run EXCEPT ![p] = r]
  BY <1>1, <1>2 DEF IngestInv, IngestType
<1> QED BY <1>1, <1>3, <1>4, <1>5, OpStep

LEMMA RecordKeeps ==
    ASSUME IngestInv, NEW p \in Process, NEW f \in File, Sessions!Record(p, f) PROVE IngestInv'
<1>1. op[p][f].at = "append"
  BY DEF Sessions!Record
<1>2. Planned(f, op[p][f])
  BY <1>1, OpFacts DEF Sound, Working
<1>3. Sessions!FactOf(p, f) \in facts
  BY <1>1, <1>2 DEF Planned, Sessions!FactOf, Sessions!Turn
<1> QED BY <1>1, <1>3, AdvanceKeeps DEF Sessions!Record

LEMMA SaveKeeps ==
    ASSUME IngestInv, NEW p \in Process, NEW f \in File, Sessions!Save(p, f) PROVE IngestInv'
<1>1. /\ op[p][f].at = "saving" /\ lines' = lines /\ run' = run /\ facts' = facts
      /\ Sessions!Becomes(p, f, [at |-> "done"])
  BY DEF Sessions!Save
<1>2. Grows
  BY <1>1, StayingGrows
<1>3. PICK c \in Commands : c = run[p]
  BY DEF IngestInv, IngestType
<1>4. c.is = "sessions" /\ run' = [run EXCEPT ![p] = c]
  BY <1>1, <1>3, OpFacts DEF IngestInv, IngestType
<1>5. ASSUME NEW g \in File PROVE Settled(g, c.marks[g])'
  <2>1. PICK m \in Nat : m = c.marks[g]
    BY <1>3, <1>4 DEF Commands, Marks
  <2>2. Settled(g, m)'
    BY <1>1, <1>2, <1>3, <2>1, OpFacts, SettledStays
  <2> QED BY <2>1, <2>2
<1>6. PICK marks \in Marks : marks = saved' /\ \A g \in File : Settled(g, marks[g])
  <2>1. op[p][f].marks \in Marks /\ \A g \in File : Settled(g, op[p][f].marks[g])
    BY <1>1, OpFacts DEF Ops, Sound, Working
  <2>2. saved' = op[p][f].marks \/ saved' = Sessions!NoMarks
    BY DEF Sessions!Save
  <2> QED BY <2>1, <2>2, NoMarksAreSettled
<1>7. saved' \in Marks /\ \A g \in File : Settled(g, saved[g])'
  BY <1>2, <1>6, SavedStays
<1>8. [at |-> "done"] \in Ops /\ Sound(f, [at |-> "done"])'
  BY DEF Ops, Sound, Working
<1>9. run[p].is = "sessions"
  BY <1>3, <1>4
<1> QED BY <1>1, <1>2, <1>4, <1>5, <1>7, <1>8, <1>9, OpMoves

\* The commands and their ends.
LEMMA EndKeeps ==
    ASSUME IngestInv, NEW p \in Process,
           Sessions!End(p) \/ Sessions!EndOther(p) \/ Sessions!Crash(p)
    PROVE  IngestInv'
<1>1. lines' = lines /\ facts' = facts /\ run' = [run EXCEPT ![p] = Sessions!Idle]
  BY DEF Sessions!End, Sessions!EndOther, Sessions!Crash
<1>2. PICK c \in Commands : c = Sessions!Idle
  BY DEF Commands, Sessions!Idle
<1>3. c.is = "idle"
  BY <1>2 DEF Sessions!Idle
<1>4. op' = [op EXCEPT ![p] = Sessions!Waiting] \/ (op' = op /\ op[p] = Sessions!Waiting)
  <2>1. CASE Sessions!EndOther(p)
    <3>1. run[p].is = "other" /\ op' = op
      BY <2>1 DEF Sessions!EndOther
    <3>2. op[p] \in [File -> Ops] /\ \A f \in File : op[p][f].at = "waiting"
      BY <3>1 DEF IngestInv, IngestType, Own
    <3>3. \A f \in File : op[p][f] = [at |-> "waiting"]
      BY <3>2 DEF Ops, Working
    <3> QED BY <3>1, <3>2, <3>3 DEF Sessions!Waiting
  <2> QED BY <2>1 DEF Sessions!End, Sessions!Crash
<1>5. PICK marks \in Marks : marks = saved' /\ \A g \in File : Settled(g, marks[g])
  <2>1. saved \in Marks /\ \A g \in File : Settled(g, saved[g])
    BY DEF IngestInv, IngestType
  <2>2. CASE Sessions!End(p)
    BY <2>1, <2>2 DEF Sessions!End
  <2>3. CASE Sessions!EndOther(p)
    <3>1. run[p].is = "other" /\ run[p] \in Commands
      BY <2>3 DEF Sessions!EndOther, IngestInv, IngestType
    <3>2. run[p].marks \in Marks /\ \A g \in File : Settled(g, run[p].marks[g])
      BY <3>1 DEF Commands, IngestInv, Own
    <3>3. saved' = run[p].marks \/ saved' = Sessions!NoMarks
      BY <2>3 DEF Sessions!EndOther
    <3> QED BY <3>2, <3>3, NoMarksAreSettled
  <2>4. CASE Sessions!Crash(p)
    <3>1. saved' = saved \/ \E f \in File : <<p, f>> \in Sessions!Writes /\ saved' \in {op[p][f].marks, Sessions!NoMarks}
      BY <2>4 DEF Sessions!Crash
    <3>2. CASE saved' = saved
      BY <2>1, <3>2
    <3>3. ASSUME NEW f \in File, <<p, f>> \in Sessions!Writes, saved' \in {op[p][f].marks, Sessions!NoMarks}
          PROVE  saved' \in Marks /\ \A g \in File : Settled(g, saved'[g])
      <4>1. op[p][f].at = "saving"
        BY <3>3 DEF Sessions!Writes
      <4>2. op[p][f].marks \in Marks /\ \A g \in File : Settled(g, op[p][f].marks[g])
        BY <4>1, OpFacts DEF Ops, Sound, Working
      <4> QED BY <3>3, <4>2, NoMarksAreSettled
    <3> QED BY <3>1, <3>2, <3>3
  <2> QED BY <2>2, <2>3, <2>4
<1> QED BY <1>1, <1>2, <1>3, <1>4, <1>5, CommandMoves

LEMMA IngestStep == IngestInv /\ [Sessions!Next]_(Sessions!vars) => IngestInv'
<1> SUFFICES ASSUME IngestInv, [Sessions!Next]_(Sessions!vars) PROVE IngestInv'
  OBVIOUS
<1>1. CASE UNCHANGED Sessions!vars
  <2>1. \A p \in Process : Own(p)'
    BY <1>1, StayingGrows, OwnStays DEF Sessions!vars
  <2> QED BY <1>1, <2>1 DEF Sessions!vars, IngestInv, IngestType, Halves, Settled
<1>2. ASSUME NEW f \in File, NEW kind \in {"turn", "other", "half"}, Sessions!Grow(f, kind)
      PROVE  IngestInv'
  BY <1>2, GrowKeeps DEF Kind
<1>3. ASSUME NEW p \in Process, NEW command \in {"sessions", "other"}, Sessions!Begin(p, command)
      PROVE  IngestInv'
  BY <1>3, BeginKeeps
<1>4. ASSUME NEW p \in Process, NEW f \in File,
             \/ Sessions!Read(p, f) \/ Sessions!Check(p, f) \/ Sessions!Get(p, f) \/ Sessions!Put(p, f)
             \/ Sessions!PutFails(p, f) \/ Sessions!Record(p, f) \/ Sessions!Save(p, f)
      PROVE  IngestInv'
  BY <1>4, ReadKeeps, CheckKeeps, GetKeeps, PutKeeps, PutFailsKeeps, RecordKeeps, SaveKeeps
<1>5. ASSUME NEW p \in Process, Sessions!End(p) \/ Sessions!EndOther(p) \/ Sessions!Crash(p)
      PROVE  IngestInv'
  BY <1>5, EndKeeps
<1> QED BY <1>1, <1>2, <1>3, <1>4, <1>5 DEF Sessions!Next

LEMMA IngestIsCovered == IngestInv => Sessions!CheckpointIsCovered
<1> SUFFICES ASSUME IngestInv, NEW f \in File, NEW n \in 1..Length, n <= saved[f], lines[f][n] = "turn"
             PROVE  <<f, n>> \in facts
  BY DEF Sessions!CheckpointIsCovered
<1>1. saved[f] \in Nat /\ Settled(f, saved[f])
  BY DEF IngestInv, IngestType, Marks
<1> QED BY <1>1 DEF Settled

\* No turn is lost, whatever runs overlap, fail or are killed.
THEOREM SessionsAreCovered == Sessions!Spec => []Sessions!CheckpointIsCovered
BY IngestInit, IngestStep, IngestIsCovered, PTL DEF Sessions!Spec

-----------------------------------------------------------------------------
(***************************************************************************)
(* The folder in Drive, for any files, pages, edits and runs.              *)
(*                                                                         *)
(* The mark a run will save is covered because the listing comes with the  *)
(* oldest first: whatever is newer than the floor and not newer than some  *)
(* entry has an entry that tells how it is (Listed), however it was edited *)
(* between the pages; and because the entries are stored in that order, an *)
(* older one of the same file never comes after a newer one (Stored).      *)
(***************************************************************************)
Entry == [doc : Doc, time : Nat]
Syncing == [step : {"idle", "listing", "importing"}, floor : Nat, files : SUBSET Entry,
            todo : SUBSET Entry, last : Nat]

DriveType ==
    /\ modified \in [Doc -> Nat] /\ trashed \in SUBSET Doc
    /\ imported \in [Doc -> Nat] /\ mark \in Nat /\ edits \in Nat
    /\ sync \in Syncing

Times ==
    /\ mark <= edits
    /\ \A f, g \in Doc : /\ modified[f] <= edits
                         /\ modified[f] = modified[g] /\ modified[f] > 0 => f = g

Listed(s) ==
    /\ s.floor = mark
    /\ \A x \in s.files : s.floor < x.time /\ x.time <= modified[x.doc]
    /\ \A f \in Doc \ trashed, x \in s.files :
          s.floor < modified[f] /\ modified[f] <= x.time => [doc |-> f, time |-> modified[f]] \in s.files

Stored(s) ==
    /\ s.todo \subseteq s.files
    /\ \A x \in s.files \ s.todo :
          /\ \A y \in s.todo : x.time <= y.time
          /\ x.time = modified[x.doc] => imported[x.doc] = x.time
    /\ s.last > 0 => \E x \in s.files : x.time = s.last

Underway(s) ==
    /\ s.step # "idle" => Listed(s)
    /\ s.step = "listing" => s.last = 0
    /\ s.step = "importing" => Stored(s)

DriveInv == DriveType /\ Times /\ Sessions!MarkIsCovered /\ Underway(sync)

LEMMA DriveInit == Sessions!DriveInit => DriveInv
BY DEF Sessions!DriveInit, Sessions!NoSync, DriveInv, DriveType, Times, Underway, Syncing,
       Sessions!MarkIsCovered

LEMMA IdleAgain ==
    Sessions!NoSync \in Syncing /\ Sessions!NoSync.step = "idle"
BY DEF Sessions!NoSync, Syncing

LEMMA EditKeeps == ASSUME DriveInv, NEW d \in Doc, Sessions!Edit(d) PROVE DriveInv'
<1>1. /\ edits' = edits + 1 /\ modified' = [modified EXCEPT ![d] = edits + 1]
      /\ UNCHANGED <<trashed, imported, mark, sync>>
  BY DEF Sessions!Edit
<1>2. DriveType /\ Times /\ Underway(sync) /\ Sessions!MarkIsCovered
  BY DEF DriveInv
<1>3. DriveType'
  BY <1>1, <1>2 DEF DriveType
<1>4. /\ modified'[d] = edits + 1 /\ \A f \in Doc \ {d} : modified'[f] = modified[f]
      /\ \A f \in Doc : modified[f] \in Nat /\ modified[f] <= edits
  BY <1>1, <1>2 DEF DriveType, Times
<1>5. Times'
  BY <1>1, <1>2, <1>3, <1>4 DEF Times, DriveType
<1>6. Sessions!MarkIsCovered'
  <2> SUFFICES ASSUME NEW f \in Doc \ trashed', modified'[f] \in 1..mark' PROVE imported'[f] = modified'[f]
    BY DEF Sessions!MarkIsCovered
  <2>1. mark' \in Nat /\ mark' <= edits /\ edits \in Nat
    BY <1>1, <1>2 DEF DriveType, Times
  <2>2. f # d
    BY <1>4, <2>1
  <2> QED BY <1>1, <1>2, <1>4, <2>2 DEF Sessions!MarkIsCovered
<1>7. PICK s \in Syncing : s = sync
  BY <1>2 DEF DriveType
<1>8. \A x \in s.files : x \in Entry
  BY DEF Syncing
<1>9. ASSUME Listed(s) PROVE Listed(s)'
  <2>1. \A x \in s.files : /\ x.doc \in Doc /\ x.time \in Nat /\ modified'[x.doc] \in Nat
                           /\ x.time <= modified'[x.doc] /\ x.time <= edits /\ s.floor < x.time
    BY <1>1, <1>2, <1>3, <1>4, <1>8, <1>9 DEF Listed, Entry, DriveType
  <2>2. ASSUME NEW f \in Doc \ trashed', NEW x \in s.files, s.floor < modified'[f], modified'[f] <= x.time
        PROVE  [doc |-> f, time |-> modified'[f]] \in s.files
    <3>1. f # d
      BY <1>2, <1>4, <2>1, <2>2 DEF DriveType
    <3> QED BY <1>1, <1>4, <1>9, <2>2, <3>1 DEF Listed
  <2> QED BY <1>1, <1>9, <2>1, <2>2 DEF Listed
<1>10. ASSUME Listed(s), Stored(s) PROVE Stored(s)'
  <2>1. ASSUME NEW x \in s.files, x.time = modified'[x.doc] PROVE x.doc # d
    BY <1>2, <1>4, <1>8, <1>10, <2>1 DEF Listed, Entry, DriveType
  <2> QED BY <1>1, <1>4, <1>8, <1>10, <2>1 DEF Stored, Entry
<1> QED BY <1>1, <1>2, <1>3, <1>5, <1>6, <1>7, <1>9, <1>10 DEF DriveInv, Underway

LEMMA TrashKeeps == ASSUME DriveInv, NEW d \in Doc, Sessions!Trash(d) PROVE DriveInv'
<1>1. /\ trashed' = trashed \cup {d}
      /\ UNCHANGED <<modified, edits, imported, mark, sync>>
  BY DEF Sessions!Trash
<1> QED BY <1>1 DEF DriveInv, DriveType, Times, Sessions!MarkIsCovered, Underway, Listed, Stored

LEMMA BeginSyncKeeps == ASSUME DriveInv, Sessions!BeginSync PROVE DriveInv'
<1>1. UNCHANGED <<modified, trashed, edits, imported, mark>>
  BY DEF Sessions!BeginSync, Sessions!folder
<1>2. sync' = [step |-> "listing", floor |-> mark, files |-> {}, todo |-> {}, last |-> 0]
  BY DEF Sessions!BeginSync, Sessions!NoSync
<1>3. DriveType'
  BY <1>1, <1>2 DEF DriveInv, DriveType, Syncing
<1>4. Underway(sync)'
  BY <1>1, <1>2 DEF Underway, Listed
<1> QED BY <1>1, <1>3, <1>4 DEF DriveInv, Times, Sessions!MarkIsCovered

\* A page adds to the listing what is oldest in the rest of it.
LEMMA PageIsListed ==
    ASSUME DriveInv, NEW s \in Syncing, Listed(s),
           NEW page \in Sessions!Pages(Sessions!Rest(s.floor, s.files)),
           NEW files, files = s.files \cup {[doc |-> f, time |-> modified[f]] : f \in page}
    PROVE  /\ files \in SUBSET Entry
           /\ \A x \in files : s.floor < x.time /\ x.time <= modified[x.doc]
           /\ \A f \in Doc \ trashed, x \in files :
                 s.floor < modified[f] /\ modified[f] <= x.time => [doc |-> f, time |-> modified[f]] \in files
<1>1. /\ modified \in [Doc -> Nat] /\ s.files \subseteq Entry /\ s.floor \in Nat
      /\ \A f, g \in Doc : modified[f] = modified[g] /\ modified[f] > 0 => f = g
  BY DEF DriveInv, DriveType, Times, Syncing
<1> DEFINE rest == Sessions!Rest(s.floor, s.files)
<1>2. \A f : f \in rest <=> /\ f \in Doc \ trashed /\ modified[f] > s.floor
                            /\ \A g \in s.files : modified[f] > g.time
  BY DEF Sessions!Rest
<1> HIDE DEF rest
<1>3. page \subseteq rest /\ \A f \in page, g \in rest : modified[g] < modified[f] => g \in page
  BY DEF Sessions!Pages, rest
<1>4. \A f \in page : f \in Doc /\ [doc |-> f, time |-> modified[f]] \in Entry
  BY <1>1, <1>2, <1>3 DEF Entry
<1>5. files \in SUBSET Entry
  BY <1>1, <1>4
<1>6. ASSUME NEW x \in files PROVE s.floor < x.time /\ x.time <= modified[x.doc]
  <2>1. CASE x \in s.files
    BY <2>1 DEF Listed
  <2>2. CASE x \notin s.files
    <3>1. PICK f \in page : x = [doc |-> f, time |-> modified[f]]
      BY <2>2
    <3>2. f \in rest
      BY <1>3
    <3> QED BY <1>1, <1>2, <3>1, <3>2
  <2> QED BY <2>1, <2>2
<1>7. ASSUME NEW f \in Doc \ trashed, NEW x \in files, s.floor < modified[f], modified[f] <= x.time
      PROVE  [doc |-> f, time |-> modified[f]] \in files
  <2>1. CASE \E g \in s.files : modified[f] <= g.time
    BY <1>7, <2>1 DEF Listed
  <2>2. CASE ~ \E g \in s.files : modified[f] <= g.time
    <3>1. x \notin s.files
      BY <1>7, <2>2
    <3>2. PICK g \in page : x = [doc |-> g, time |-> modified[g]]
      BY <3>1
    <3>3. \A y \in s.files : modified[f] > y.time
      <4>1. \A y \in s.files : y.time \in Nat
        BY <1>1 DEF Entry
      <4> QED BY <1>1, <2>2, <4>1
    <3>4. f \in rest
      BY <1>1, <1>2, <1>7, <3>3
    <3>5. modified[f] < modified[g] \/ f = g
      BY <1>1, <1>4, <1>7, <3>2
    <3>6. f \in page
      BY <1>3, <3>4, <3>5
    <3> QED BY <3>6
  <2> QED BY <2>1, <2>2
<1> QED BY <1>5, <1>6, <1>7

LEMMA ListPageKeeps == ASSUME DriveInv, Sessions!ListPage PROVE DriveInv'
<1>1. sync.step = "listing" /\ UNCHANGED <<modified, trashed, edits, imported, mark>>
  BY DEF Sessions!ListPage, Sessions!folder
<1>2. PICK s \in Syncing : s = sync
  BY DEF DriveInv, DriveType
<1>3. s.step = "listing" /\ Listed(s) /\ s.last = 0
  BY <1>1, <1>2 DEF DriveInv, Underway
<1>4. PICK page \in Sessions!Pages(Sessions!Rest(s.floor, s.files)) :
         LET files == s.files \cup {[doc |-> f, time |-> modified[f]] : f \in page}
         IN  \/ sync' = [s EXCEPT !.files = files]
             \/ sync' = [s EXCEPT !.step = "importing", !.files = files, !.todo = files]
  BY <1>2 DEF Sessions!ListPage
<1>5. PICK files : files = s.files \cup {[doc |-> f, time |-> modified[f]] : f \in page}
  OBVIOUS
<1>6. \/ sync' = [s EXCEPT !.files = files]
      \/ sync' = [s EXCEPT !.step = "importing", !.files = files, !.todo = files]
  BY <1>4, <1>5
<1>7. /\ files \in SUBSET Entry
      /\ \A x \in files : s.floor < x.time /\ x.time <= modified[x.doc]
      /\ \A f \in Doc \ trashed, x \in files :
            s.floor < modified[f] /\ modified[f] <= x.time => [doc |-> f, time |-> modified[f]] \in files
  BY <1>3, <1>5, PageIsListed
<1>8. /\ sync' \in Syncing /\ sync'.floor = s.floor /\ sync'.files = files /\ sync'.last = 0
      /\ sync'.step = "listing" \/ (sync'.step = "importing" /\ sync'.todo = files)
  <2>1. CASE sync' = [s EXCEPT !.files = files]
    BY <1>3, <1>7, <2>1 DEF Syncing
  <2>2. CASE sync' = [s EXCEPT !.step = "importing", !.files = files, !.todo = files]
    BY <1>3, <1>7, <2>2 DEF Syncing
  <2> QED BY <1>6, <2>1, <2>2
<1>9. Listed(sync)'
  BY <1>1, <1>3, <1>7, <1>8 DEF Listed
<1>10. sync'.step = "importing" => Stored(sync)'
  BY <1>8 DEF Stored
<1> QED BY <1>1, <1>8, <1>9, <1>10 DEF DriveInv, DriveType, Times, Sessions!MarkIsCovered, Underway

LEMMA ImportKeeps == ASSUME DriveInv, Sessions!Import PROVE DriveInv'
<1>1. sync.step = "importing" /\ UNCHANGED <<modified, trashed, edits, mark>>
  BY DEF Sessions!Import, Sessions!folder
<1>2. PICK s \in Syncing : s = sync
  BY DEF DriveInv, DriveType
<1>3. s.step = "importing" /\ Listed(s) /\ Stored(s)
  BY <1>1, <1>2 DEF DriveInv, Underway
<1>4. PICK file \in s.todo, first \in s.files :
         /\ \A g \in s.todo : file.time <= g.time
         /\ imported' = [imported EXCEPT ![file.doc] = file.time]
         /\ sync' = [s EXCEPT !.todo = s.todo \ {file}, !.last = Sessions!Max({s.last, first.time})]
  BY <1>2 DEF Sessions!Import
<1>5. /\ s.files \subseteq Entry /\ s.todo \subseteq s.files /\ s.last \in Nat
      /\ file \in s.files /\ file.doc \in Doc /\ file.time \in Nat /\ first.time \in Nat
      /\ \A x \in s.files : x.doc \in Doc /\ x.time \in Nat /\ x.time <= modified[x.doc]
  BY <1>3 DEF Syncing, Stored, Listed, Entry
<1>6. PICK last : last = Sessions!Max({s.last, first.time})
  OBVIOUS
<1>7. last \in {s.last, first.time} /\ last \in Nat
  <2>1. \E x \in {s.last, first.time} : \A y \in {s.last, first.time} : x >= y
    BY <1>5
  <2>2. last \in {s.last, first.time}
    BY <1>6, <2>1 DEF Sessions!Max
  <2> QED BY <1>5, <2>2
<1>8. sync' = [s EXCEPT !.todo = s.todo \ {file}, !.last = last]
  BY <1>4, <1>6
<1>9. /\ sync' \in Syncing /\ sync'.step = "importing" /\ sync'.floor = s.floor /\ sync'.files = s.files
      /\ sync'.todo = s.todo \ {file} /\ sync'.last = last
  BY <1>3, <1>5, <1>7, <1>8 DEF Syncing
<1>10. imported \in [Doc -> Nat] /\ modified \in [Doc -> Nat] /\ s.floor = mark /\ mark \in Nat
  BY <1>3 DEF DriveInv, DriveType, Listed
<1>11. DriveType'
  BY <1>1, <1>4, <1>5, <1>9, <1>10 DEF DriveInv, DriveType
<1>12. Sessions!MarkIsCovered'
  <2> SUFFICES ASSUME NEW f \in Doc \ trashed', modified'[f] \in 1..mark' PROVE imported'[f] = modified'[f]
    BY DEF Sessions!MarkIsCovered
  <2>1. s.floor < file.time /\ file.time <= modified[file.doc]
    BY <1>3, <1>5 DEF Listed
  <2>2. f # file.doc
    BY <1>1, <1>5, <1>10, <2>1
  <2> QED BY <1>1, <1>4, <1>10, <2>2 DEF DriveInv, Sessions!MarkIsCovered
<1>13. Listed(sync)'
  BY <1>1, <1>3, <1>9 DEF Listed
<1>14. Stored(sync)'
  <2>1. ASSUME NEW x \in s.files \ (s.todo \ {file})
        PROVE  /\ \A y \in s.todo \ {file} : x.time <= y.time
               /\ x.time = modified[x.doc] => imported'[x.doc] = x.time
    <3>1. CASE x = file
      BY <1>4, <1>5, <1>10, <3>1
    <3>2. CASE x # file
      <4>1. x \in s.files \ s.todo /\ x.time <= file.time
        BY <1>3, <3>2 DEF Stored
      <4>2. \A y \in s.todo : x.time <= y.time
        BY <1>3, <4>1 DEF Stored
      <4>3. ASSUME x.time = modified[x.doc] PROVE imported'[x.doc] = x.time
        <5>1. imported[x.doc] = x.time
          BY <1>3, <4>1, <4>3 DEF Stored
        <5>2. CASE x.doc = file.doc
          <6>1. file.time <= x.time
            BY <1>5, <4>3, <5>2
          <6> QED BY <1>4, <1>5, <1>10, <4>1, <5>2, <6>1
        <5> QED BY <1>4, <1>5, <1>10, <5>1, <5>2
      <4> QED BY <4>2, <4>3
    <3> QED BY <3>1, <3>2
  <2>2. last > 0 => \E x \in s.files : x.time = last
    BY <1>3, <1>7 DEF Stored
  <2> QED BY <1>1, <1>5, <1>9, <2>1, <2>2 DEF Stored
<1>15. Times'
  BY <1>1 DEF DriveInv, Times
<1> QED BY <1>9, <1>11, <1>12, <1>13, <1>14, <1>15 DEF DriveInv, Underway

LEMMA FinishKeeps == ASSUME DriveInv, Sessions!Finish PROVE DriveInv'
<1>1. /\ sync.step = "importing" /\ sync.todo = {} /\ UNCHANGED <<modified, trashed, edits, imported>>
      /\ mark' = IF sync.last > 0 THEN sync.last ELSE mark
      /\ sync' = Sessions!NoSync
  BY DEF Sessions!Finish, Sessions!folder
<1>2. PICK s \in Syncing : s = sync
  BY DEF DriveInv, DriveType
<1>3. s.todo = {} /\ Listed(s) /\ Stored(s)
  BY <1>1, <1>2 DEF DriveInv, Underway
<1>4. /\ s.files \subseteq Entry /\ s.last \in Nat /\ s.floor \in Nat /\ modified \in [Doc -> Nat]
      /\ mark \in Nat /\ edits \in Nat
      /\ \A x \in s.files : x.doc \in Doc /\ x.time \in Nat /\ x.time <= modified[x.doc]
  BY <1>3 DEF Syncing, Listed, Entry, DriveInv, DriveType
<1>5. CASE s.last = 0
  <2>1. mark' = mark
    BY <1>1, <1>2, <1>5
  <2> QED BY <1>1, <2>1, IdleAgain DEF DriveInv, DriveType, Times, Sessions!MarkIsCovered, Underway
<1>6. CASE s.last # 0
  <2>1. mark' = s.last /\ s.last > 0
    BY <1>1, <1>2, <1>4, <1>6
  <2>2. PICK x \in s.files : x.time = s.last
    BY <1>3, <2>1 DEF Stored
  <2>3. s.last <= edits
    BY <1>4, <2>2 DEF DriveInv, Times
  <2>4. Sessions!MarkIsCovered'
    <3> SUFFICES ASSUME NEW f \in Doc \ trashed', modified'[f] \in 1..mark' PROVE imported'[f] = modified'[f]
      BY DEF Sessions!MarkIsCovered
    <3>1. f \in Doc \ trashed /\ modified[f] \in 1..s.last
      BY <1>1, <2>1
    <3>2. CASE modified[f] <= s.floor
      <4>1. modified[f] \in 1..mark
        BY <1>3, <1>4, <3>1, <3>2 DEF Listed
      <4> QED BY <1>1, <3>1, <4>1 DEF DriveInv, Sessions!MarkIsCovered
    <3>3. CASE s.floor < modified[f]
      <4>1. PICK e : e = [doc |-> f, time |-> modified[f]]
        OBVIOUS
      <4>3. modified[f] <= x.time
        BY <2>2, <3>1
      <4>4. e \in s.files /\ e.doc = f /\ e.time = modified[f]
        BY <1>3, <2>2, <3>1, <3>3, <4>1, <4>3 DEF Listed
      <4>2. imported[f] = modified[f]
        BY <1>3, <4>4 DEF Stored
      <4> QED BY <1>1, <4>2
    <3> QED BY <1>4, <3>1, <3>2, <3>3
  <2> QED BY <1>1, <1>4, <2>1, <2>3, <2>4, IdleAgain DEF DriveInv, DriveType, Times, Underway
<1> QED BY <1>5, <1>6

LEMMA StopKeeps == ASSUME DriveInv, Sessions!Stop PROVE DriveInv'
<1>1. sync' = Sessions!NoSync /\ UNCHANGED <<modified, trashed, edits, imported, mark>>
  BY DEF Sessions!Stop, Sessions!folder
<1> QED BY <1>1, IdleAgain DEF DriveInv, DriveType, Times, Sessions!MarkIsCovered, Underway

LEMMA DriveStep == DriveInv /\ [Sessions!DriveNext]_(Sessions!driveVars) => DriveInv'
<1> SUFFICES ASSUME DriveInv, [Sessions!DriveNext]_(Sessions!driveVars) PROVE DriveInv'
  OBVIOUS
<1>1. CASE UNCHANGED Sessions!driveVars
  BY <1>1 DEF Sessions!driveVars, DriveInv, DriveType, Times, Sessions!MarkIsCovered, Underway, Listed, Stored
<1>2. ASSUME NEW d \in Doc, Sessions!Edit(d) \/ Sessions!Trash(d) PROVE DriveInv'
  BY <1>2, EditKeeps, TrashKeeps
<1> QED BY <1>1, <1>2, BeginSyncKeeps, ListPageKeeps, ImportKeeps, FinishKeeps, StopKeeps DEF Sessions!DriveNext

LEMMA DriveIsCovered == DriveInv => Sessions!MarkIsCovered
BY DEF DriveInv

\* No file is passed over, whatever is edited between the pages and wherever runs end.
THEOREM FolderIsCovered == Sessions!DriveSpec => []Sessions!MarkIsCovered
BY DriveInit, DriveStep, DriveIsCovered, PTL DEF Sessions!DriveSpec

-----------------------------------------------------------------------------
(***************************************************************************)
(* The mirror, for any facts, passphrases, bundles and crashes.            *)
(*                                                                         *)
(* A bundle is Good when its mark is covered by its rows.  The one being   *)
(* packed becomes Good because the mark comes before the rows (Packing),   *)
(* and the root is whole again after a restore because nobody was at it    *)
(* (Restoring).                                                            *)
(***************************************************************************)
All == <<".audit", "checkpoints.json", "memory.db", "vector">>
Marked == <<"checkpoints.json", "memory.db", "vector">>
Rows == <<"memory.db", "vector">>
Index == <<"vector">>
Files == {All, Marked, Rows, Index, <<>>}
Bundle == [memory : SUBSET Nat, saved : Nat, quiet : BOOLEAN, secret : Secret \cup {"none", Bundled!Bundle.secret}]

Good(b) == b.quiet => 1..b.saved \subseteq b.memory

MirrorType ==
    /\ memory \in SUBSET Nat /\ wal \in SUBSET Nat /\ packed \in Nat /\ stored \in Nat
    /\ open \in BOOLEAN /\ torn \in BOOLEAN
    /\ push \in [files : Files, busy : BOOLEAN, bundle : Bundle]
    /\ drive \in Seq(Bundle)
    /\ restore \in [files : Files, bundle : Bundle]

Whole == ~ torn /\ restore.files = <<>> =>
    /\ 1..packed \subseteq memory \cup wal
    /\ open => 1..stored \subseteq memory \cup wal

Packing ==
    /\ push.files = Rows /\ push.bundle.quiet => restore.files = <<>> /\ 1..push.bundle.saved \subseteq memory
    /\ push.files \in {Index, <<>>} => Good(push.bundle)
    /\ push.files # <<>> => push.busy

Restoring ==
    /\ Good(restore.bundle)
    /\ ~ torn /\ restore.files # <<>> =>
          /\ ~ open /\ wal = {} /\ restore.bundle.quiet
          /\ restore.files \in {Rows, Index} => packed = restore.bundle.saved
          /\ restore.files = Index => memory = restore.bundle.memory

MirrorInv ==
    /\ MirrorType /\ Whole /\ Packing /\ Restoring
    /\ \A i \in 1..Len(drive) : Good(drive[i])

\* The files of a bundle, one after the other.
LEMMA FilesInOrder ==
    /\ Bundled!Packed = All
    /\ Head(All) = ".audit" /\ Tail(All) = Marked
    /\ Head(Marked) = "checkpoints.json" /\ Tail(Marked) = Rows
    /\ Head(Rows) = "memory.db" /\ Tail(Rows) = Index
    /\ Head(Index) = "vector" /\ Tail(Index) = <<>>
    /\ Len(Index) = 1 /\ Len(All) = 4 /\ Len(Marked) = 3 /\ Len(Rows) = 2 /\ Len(<<>>) = 0
BY DEF Bundled!Packed, All, Marked, Rows, Index

LEMMA FilesApart ==
    /\ All # Marked /\ All # Rows /\ All # Index /\ Marked # Rows /\ Marked # Index /\ Rows # Index
    /\ All # <<>> /\ Marked # <<>> /\ Rows # <<>> /\ Index # <<>>
<1>1. Head(All) # Head(Marked) /\ Head(All) # Head(Rows) /\ Head(All) # Head(Index)
  BY FilesInOrder
<1>2. Head(Marked) # Head(Rows) /\ Head(Marked) # Head(Index) /\ Head(Rows) # Head(Index)
  BY FilesInOrder
<1>3. Len(All) # Len(<<>>) /\ Len(Marked) # Len(<<>>) /\ Len(Rows) # Len(<<>>) /\ Len(Index) # Len(<<>>)
  BY FilesInOrder
<1> HIDE DEF All, Marked, Rows, Index
<1> QED BY <1>1, <1>2, <1>3

LEMMA FirstBundle ==
    /\ Bundled!Bundle \in Bundle /\ Good(Bundled!Bundle)
    /\ Bundled!Foreign \in Bundle /\ Good(Bundled!Foreign)
<1> DEFINE secret == CHOOSE s \in Secret : TRUE
           fields == [memory : {{}}, saved : {0}, quiet : {TRUE}, secret : {secret, "none"}]
<1>1. Bundled!Bundle = [memory |-> {}, saved |-> 0, quiet |-> TRUE, secret |-> secret]
  BY DEF Bundled!Bundle
<1>2. Bundled!Bundle.secret = secret
  BY <1>1
<1> HIDE DEF secret
<1>3. PICK b \in fields : b = Bundled!Bundle
  BY <1>1
<1>4. PICK c \in fields : c = [b EXCEPT !.secret = "none"]
  OBVIOUS
<1>5. c = Bundled!Foreign
  BY <1>3, <1>4 DEF Bundled!Foreign
<1>6. ASSUME NEW x \in fields PROVE x \in Bundle
  <2>1. x.memory \in SUBSET Nat /\ x.saved \in Nat /\ x.quiet \in BOOLEAN
    <3>1. x.memory = {} /\ x.saved = 0
      OBVIOUS
    <3>2. x.quiet \in BOOLEAN
      <4>1. x.quiet \in {TRUE}
        OBVIOUS
      <4> HIDE DEF fields
      <4> QED BY <4>1, Zenon
    <3> HIDE DEF fields
    <3> QED BY <3>1, <3>2
  <2>3. x.secret \in Secret \cup {"none", Bundled!Bundle.secret}
    BY <1>2
  <2>2. x = [memory |-> x.memory, saved |-> x.saved, quiet |-> x.quiet, secret |-> x.secret]
    OBVIOUS
  <2> HIDE DEF fields
  <2> QED BY <2>1, <2>2, <2>3 DEF Bundle
<1>7. \A x \in fields : Good(x)
  BY DEF Good
<1> QED BY <1>3, <1>5, <1>6, <1>7

LEMMA MirrorInit == Bundled!Init => MirrorInv
<1> SUFFICES ASSUME Bundled!Init PROVE MirrorInv
  OBVIOUS
<1>1. /\ memory = {} /\ wal = {} /\ packed = 0 /\ open = FALSE /\ stored = 0 /\ torn = FALSE
      /\ push = [files |-> <<>>, busy |-> FALSE, bundle |-> Bundled!Bundle]
      /\ drive = <<>> /\ restore = [files |-> <<>>, bundle |-> Bundled!Bundle]
  BY DEF Bundled!Init, Bundled!NoPush, Bundled!NoRestore
<1>2. MirrorType
  <2>1. push \in [files : Files, busy : BOOLEAN, bundle : Bundle] /\ restore \in [files : Files, bundle : Bundle]
    BY <1>1, FirstBundle DEF Files
  <2>2. drive \in Seq(Bundle)
    BY <1>1
  <2> QED BY <1>1, <2>1, <2>2 DEF MirrorType
<1>3. Packing
  BY <1>1, FilesApart, FirstBundle DEF Packing
<1> QED BY <1>1, <1>2, <1>3, FirstBundle DEF MirrorInv, Whole, Restoring

\* What the steps of an ingest leave alone.
LEMMA IngestSteps ==
    ASSUME MirrorInv,
           \/ Bundled!Open \/ Bundled!Store \/ Bundled!SaveMark \/ Bundled!EmptyLog \/ Bundled!Crash
    PROVE  MirrorInv'
<1>1. push' = push /\ drive' = drive /\ restore' = restore
  BY DEF Bundled!Open, Bundled!Store, Bundled!SaveMark, Bundled!EmptyLog, Bundled!Crash,
         Bundled!mirror, Bundled!root
<1>2. memory \subseteq memory'
  BY DEF Bundled!Open, Bundled!Store, Bundled!SaveMark, Bundled!EmptyLog, Bundled!Crash,
         Bundled!mirror, Bundled!root
<1>3. /\ memory' \in SUBSET Nat /\ wal' \in SUBSET Nat /\ packed' \in Nat /\ stored' \in Nat
      /\ open' \in BOOLEAN /\ torn' \in BOOLEAN
  <2> USE DEF MirrorInv, MirrorType
  <2>1. CASE Bundled!Open
    BY <2>1 DEF Bundled!Open, Bundled!root
  <2>2. CASE Bundled!Store
    BY <2>2 DEF Bundled!Store
  <2>3. CASE Bundled!SaveMark
    BY <2>3 DEF Bundled!SaveMark
  <2>4. CASE Bundled!EmptyLog
    BY <2>4 DEF Bundled!EmptyLog
  <2>5. CASE Bundled!Crash
    BY <2>5 DEF Bundled!Crash, Bundled!root
  <2> QED BY <2>1, <2>2, <2>3, <2>4, <2>5
<1>6. MirrorType'
  BY <1>1, <1>3 DEF MirrorInv, MirrorType
<1>4. Packing'
  BY <1>1, <1>2 DEF MirrorInv, Packing, Good
<1>5. Whole' /\ Restoring'
  <2>1. CASE Bundled!Open
    BY <2>1, <1>1 DEF MirrorInv, MirrorType, Whole, Restoring, Good, Bundled!Open, Bundled!root
  <2>2. CASE Bundled!Store
    <3>1. \A n \in 1..(stored + 1) : n \in 1..stored \/ n = stored + 1
      BY DEF MirrorInv, MirrorType
    <3> QED BY <2>2, <1>1, <3>1 DEF MirrorInv, MirrorType, Whole, Restoring, Good, Bundled!Store
  <2>3. CASE Bundled!SaveMark
    BY <2>3, <1>1 DEF MirrorInv, MirrorType, Whole, Restoring, Good, Bundled!SaveMark
  <2>4. CASE Bundled!EmptyLog
    BY <2>4, <1>1 DEF MirrorInv, MirrorType, Whole, Restoring, Good, Bundled!EmptyLog
  <2>5. CASE Bundled!Crash
    BY <2>5, <1>1 DEF MirrorInv, MirrorType, Whole, Restoring, Good, Bundled!Crash, Bundled!root
  <2> QED BY <2>1, <2>2, <2>3, <2>4, <2>5
<1> QED BY <1>1, <1>4, <1>5, <1>6 DEF MirrorInv, Good

LEMMA PushKeeps ==
    ASSUME MirrorInv, NEW secret \in Secret, Bundled!Push(secret) PROVE MirrorInv'
<1>1. UNCHANGED <<memory, wal, packed, open, stored, drive, restore, torn>>
  BY DEF Bundled!Push, Bundled!root
<1>2. PICK b \in Bundle : b = Bundled!Bundle
  BY FirstBundle
<1>3. push' = [files |-> All, busy |-> TRUE, bundle |-> [b EXCEPT !.secret = secret]]
  BY <1>2, FilesInOrder DEF Bundled!Push
<1>4. [b EXCEPT !.secret = secret] \in Bundle
  BY DEF Bundle
<1>5. MirrorType'
  BY <1>1, <1>3, <1>4 DEF MirrorInv, MirrorType, Files
<1>6. Packing'
  BY <1>3, FilesApart DEF Packing
<1> QED BY <1>1, <1>5, <1>6 DEF MirrorInv, Whole, Restoring, Good

LEMMA PackKeeps == ASSUME MirrorInv, Bundled!Pack PROVE MirrorInv'
<1>1. UNCHANGED <<memory, wal, packed, open, stored, drive, restore, torn>> /\ push.files # <<>>
  BY DEF Bundled!Pack, Bundled!root
<1>2. PICK b \in Bundle : b = push.bundle
  BY DEF MirrorInv, MirrorType
<1>3. PICK new :
         new = CASE Head(push.files) = "memory.db" -> [b EXCEPT !.memory = memory]
                 [] Head(push.files) = "checkpoints.json" ->
                       [b EXCEPT !.saved = packed, !.quiet = Bundled!Quiet]
                 [] OTHER -> b
  OBVIOUS
<1>4. push' = [push EXCEPT !.files = Tail(push.files), !.bundle = new]
  BY <1>2, <1>3 DEF Bundled!Pack
<1>5. push \in [files : Files, busy : BOOLEAN, bundle : Bundle] /\ push.busy /\ push.files \in {All, Marked, Rows, Index}
  BY <1>1 DEF MirrorInv, MirrorType, Packing, Files
<1>6. Bundled!Quiet \in BOOLEAN
  BY DEF Bundled!Quiet
<1>7. new \in Bundle
  <2>1. [b EXCEPT !.memory = memory] \in Bundle
    BY DEF Bundle, MirrorInv, MirrorType
  <2>2. [b EXCEPT !.saved = packed, !.quiet = Bundled!Quiet] \in Bundle
    BY <1>6 DEF Bundle, MirrorInv, MirrorType
  <2> QED BY <1>3, <2>1, <2>2
<1>8. push'.files = Tail(push.files) /\ push'.bundle = new /\ push'.busy
  BY <1>4, <1>5
<1>9. Tail(push.files) \in Files
  BY <1>5, FilesInOrder DEF Files
<1>10. push' \in [files : Files, busy : BOOLEAN, bundle : Bundle]
  BY <1>4, <1>5, <1>7, <1>9
<1>11. MirrorType'
  BY <1>1, <1>10 DEF MirrorInv, MirrorType
<1>12. Packing'
  <2>1. CASE push.files = All
    BY <1>8, <2>1, FilesInOrder, FilesApart DEF Packing
  <2>2. CASE push.files = Marked
    <3>1. new = [b EXCEPT !.saved = packed, !.quiet = Bundled!Quiet]
      BY <1>3, <2>2, FilesInOrder
    <3>2. new.saved = packed /\ new.quiet = Bundled!Quiet
      BY <3>1 DEF Bundle
    <3>3. new.quiet => restore.files = <<>> /\ 1..new.saved \subseteq memory
      BY <3>2 DEF Bundled!Quiet, MirrorInv, Whole
    <3> QED BY <1>1, <1>8, <2>2, <3>3, FilesInOrder, FilesApart DEF Packing
  <2>3. CASE push.files = Rows
    <3>1. new = [b EXCEPT !.memory = memory]
      BY <1>3, <2>3, FilesInOrder
    <3>2. new.memory = memory /\ new.saved = b.saved /\ new.quiet = b.quiet
      BY <3>1 DEF Bundle
    <3>3. Good(new)
      BY <1>2, <2>3, <3>2 DEF MirrorInv, Packing, Good
    <3> QED BY <1>8, <2>3, <3>3, FilesInOrder, FilesApart DEF Packing, Good
  <2>4. CASE push.files = Index
    <3>1. new = b
      BY <1>3, <2>4, FilesInOrder
    <3>2. Good(new)
      BY <1>2, <2>4, <3>1 DEF MirrorInv, Packing
    <3> QED BY <1>8, <2>4, <3>2, FilesInOrder, FilesApart DEF Packing, Good
  <2> QED BY <1>5, <2>1, <2>2, <2>3, <2>4
<1> QED BY <1>1, <1>11, <1>12 DEF MirrorInv, Whole, Restoring, Good

LEMMA DriveGrows ==
    ASSUME NEW old \in Seq(Bundle), NEW b \in Bundle, \A i \in 1..Len(old) : Good(old[i]), Good(b)
    PROVE  /\ Append(old, b) \in Seq(Bundle)
           /\ \A i \in 1..Len(Append(old, b)) : Good(Append(old, b)[i])
<1>1. /\ Append(old, b) \in Seq(Bundle) /\ Len(Append(old, b)) = Len(old) + 1 /\ Len(old) \in Nat
      /\ \A i \in 1..(Len(old) + 1) : Append(old, b)[i] = IF i = Len(old) + 1 THEN b ELSE old[i]
  BY AppendProperties, LenProperties
<1>2. ASSUME NEW i \in 1..Len(Append(old, b)) PROVE Good(Append(old, b)[i])
  <2>1. CASE i = Len(old) + 1
    BY <1>1, <2>1
  <2>2. CASE i # Len(old) + 1
    BY <1>1, <2>2
  <2> QED BY <2>1, <2>2
<1> QED BY <1>1, <1>2

LEMMA UploadKeeps == ASSUME MirrorInv, Bundled!Upload \/ Bundled!PutForeign PROVE MirrorInv'
<1>1. UNCHANGED <<memory, wal, packed, open, stored, restore, torn>>
  BY DEF Bundled!Upload, Bundled!PutForeign, Bundled!root
<1>2. push' = push \/ push' = [files |-> <<>>, busy |-> FALSE, bundle |-> Bundled!Bundle]
  BY DEF Bundled!Upload, Bundled!PutForeign, Bundled!NoPush
<1>3. push' \in [files : Files, busy : BOOLEAN, bundle : Bundle] /\ Packing'
  <2>1. CASE push' = push
    BY <1>1, <2>1 DEF MirrorInv, MirrorType, Packing, Good
  <2>2. CASE push' = [files |-> <<>>, busy |-> FALSE, bundle |-> Bundled!Bundle]
    BY <2>2, FirstBundle, FilesApart DEF Packing, Files
  <2> QED BY <1>2, <2>1, <2>2
<1>4. drive' = drive \/ \E b \in Bundle : Good(b) /\ drive' = Append(drive, b)
  <2>1. CASE Bundled!Upload
    <3>1. push.bundle \in Bundle /\ Good(push.bundle)
      BY <2>1 DEF Bundled!Upload, MirrorInv, MirrorType, Packing
    <3> QED BY <2>1, <3>1 DEF Bundled!Upload
  <2>2. CASE Bundled!PutForeign
    BY <2>2, FirstBundle DEF Bundled!PutForeign
  <2> QED BY <2>1, <2>2
<1>5. drive' \in Seq(Bundle) /\ \A i \in 1..Len(drive') : Good(drive'[i])
  BY <1>4, DriveGrows DEF MirrorInv, MirrorType
<1> QED BY <1>1, <1>3, <1>5 DEF MirrorInv, MirrorType, Whole, Restoring, Good

\* A restore overtakes a push.
LEMMA OvertakenKeeps ==
    ASSUME MirrorInv
    PROVE  /\ Bundled!Overtaken \in [files : Files, busy : BOOLEAN, bundle : Bundle]
           /\ Bundled!Overtaken.files = push.files
           /\ Bundled!Overtaken.busy = push.busy
           /\ push.files # <<>> => ~ Bundled!Overtaken.bundle.quiet
           /\ push.files = <<>> => Good(Bundled!Overtaken.bundle)
<1>1. PICK old \in [files : Files, busy : BOOLEAN, bundle : Bundle] : old = push
  BY DEF MirrorInv, MirrorType
<1>2. PICK b \in Bundle : b = old.bundle
  OBVIOUS
<1>3. PICK c \in Bundle : c = [b EXCEPT !.quiet = FALSE]
  BY DEF Bundle
<1>4. PICK new \in [files : Files, busy : BOOLEAN, bundle : Bundle] : new = [old EXCEPT !.bundle = c]
  OBVIOUS
<1>5. new.files = old.files /\ new.busy = old.busy /\ new.bundle = c /\ c.quiet = FALSE
  BY <1>3, <1>4 DEF Bundle
<1>6. Bundled!Overtaken = IF old.busy THEN new ELSE old
  BY <1>1, <1>2, <1>3, <1>4 DEF Bundled!Overtaken
<1>7. old.files # <<>> => old.busy
  BY <1>1 DEF MirrorInv, Packing
<1>8. old.files = <<>> => Good(old.bundle)
  BY <1>1 DEF MirrorInv, Packing
<1> QED BY <1>1, <1>5, <1>6, <1>7, <1>8 DEF Good

LEMMA RestoreKeeps ==
    ASSUME MirrorInv, NEW secret \in Secret, Bundled!RestoreLive(secret) \/ Bundled!RestoreBeside(secret)
    PROVE  MirrorInv'
<1>1. /\ restore.files = <<>> /\ push' = Bundled!Overtaken
      /\ UNCHANGED <<open, stored, drive>>
  BY DEF Bundled!RestoreLive, Bundled!RestoreBeside, Bundled!root
<1>2. /\ push' \in [files : Files, busy : BOOLEAN, bundle : Bundle] /\ push'.files = push.files
      /\ push'.busy = push.busy
      /\ push'.files # <<>> => ~ push'.bundle.quiet
      /\ push'.files = <<>> => Good(push'.bundle)
  BY <1>1, OvertakenKeeps
<1>3. Packing'
  <2>1. push'.files # <<>> => push'.busy
    BY <1>2 DEF MirrorInv, Packing
  <2>2. CASE push'.files = <<>>
    BY <1>2, <2>1, <2>2, FilesApart DEF Packing
  <2>3. CASE push'.files # <<>>
    BY <1>2, <2>1, <2>3, FilesApart DEF Packing, Good
  <2> QED BY <2>2, <2>3
<1>4. ASSUME NEW b \in Bundled!ToSet(drive) PROVE b \in Bundle /\ Good(b)
  <2>1. PICK i \in DOMAIN drive : b = drive[i]
    BY DEF Bundled!ToSet
  <2>2. DOMAIN drive = 1..Len(drive) /\ \A j \in 1..Len(drive) : drive[j] \in Bundle
    BY LenProperties, ElementOfSeq DEF MirrorInv, MirrorType
  <2> QED BY <2>1, <2>2 DEF MirrorInv
<1>5. CASE Bundled!RestoreLive(secret)
  <2>1. PICK b \in Bundled!ToSet(drive) :
           /\ restore' = [files |-> All, bundle |-> b]
           /\ torn' = (torn \/ open \/ wal # {} \/ ~ b.quiet)
    BY <1>5, FilesInOrder DEF Bundled!RestoreLive
  <2>2. UNCHANGED <<memory, wal, packed>> /\ b \in Bundle /\ Good(b)
    BY <1>4, <1>5 DEF Bundled!RestoreLive, Bundled!root
  <2>3. b.quiet \in BOOLEAN /\ torn \in BOOLEAN /\ open \in BOOLEAN
    BY <2>2 DEF Bundle, MirrorInv, MirrorType
  <2>4. MirrorType'
    BY <1>1, <1>2, <2>1, <2>2, <2>3 DEF MirrorInv, MirrorType, Files
  <2>5. Whole' /\ Restoring'
    BY <1>1, <2>1, <2>2, <2>3, FilesApart DEF Whole, Restoring, Good
  <2> QED BY <1>1, <1>3, <2>4, <2>5 DEF MirrorInv, Good
<1>6. CASE Bundled!RestoreBeside(secret)
  <2>1. PICK b \in Bundled!ToSet(drive) :
           memory' = b.memory /\ wal' = {} /\ packed' = b.saved /\ torn' = ~ b.quiet
    BY <1>6 DEF Bundled!RestoreBeside
  <2>2. restore' = restore /\ ~ open /\ b \in Bundle /\ Good(b)
    BY <1>4, <1>6 DEF Bundled!RestoreBeside
  <2>3. b.quiet \in BOOLEAN /\ b.memory \in SUBSET Nat /\ b.saved \in Nat
    BY <2>2 DEF Bundle
  <2>4. MirrorType'
    BY <1>1, <1>2, <2>1, <2>2, <2>3 DEF MirrorInv, MirrorType
  <2>5. Whole' /\ Restoring'
    BY <1>1, <2>1, <2>2, <2>3 DEF Whole, Restoring, Good, MirrorInv
  <2> QED BY <1>1, <1>3, <2>4, <2>5 DEF MirrorInv, Good
<1> QED BY <1>5, <1>6

LEMMA UnpackKeeps == ASSUME MirrorInv, Bundled!Unpack PROVE MirrorInv'
<1>1. UNCHANGED <<wal, open, stored, push, drive, torn>> /\ restore.files # <<>>
  BY DEF Bundled!Unpack
<1>2. PICK old \in [files : Files, bundle : Bundle] : old = restore
  BY DEF MirrorInv, MirrorType
<1>3. PICK b \in Bundle : b = old.bundle
  OBVIOUS
<1>4. b.memory \in SUBSET Nat /\ b.saved \in Nat /\ Good(b)
  BY <1>2, <1>3 DEF Bundle, MirrorInv, Restoring
<1>5. old.files \in {All, Marked, Rows, Index}
  BY <1>1, <1>2 DEF Files
<1>6. /\ old.files = Rows => memory' = b.memory
      /\ old.files # Rows => memory' = memory
      /\ old.files = Marked => packed' = b.saved
      /\ old.files # Marked => packed' = packed
  BY <1>2, <1>3, <1>5, FilesInOrder, FilesApart DEF Bundled!Unpack
<1>7. PICK new \in [files : Files, bundle : Bundle] :
         /\ restore' = new
         /\ new.files = Tail(old.files) /\ Good(new.bundle)
         /\ old.files # Index => new.bundle = b
  <2>1. CASE old.files = Index
    <3>1. restore' = [files |-> <<>>, bundle |-> Bundled!Bundle]
      BY <1>2, <2>1, FilesInOrder DEF Bundled!Unpack, Bundled!NoRestore
    <3>2. PICK new \in [files : Files, bundle : Bundle] : new = [files |-> <<>>, bundle |-> Bundled!Bundle]
      BY FirstBundle DEF Files
    <3>3. new.files = Tail(old.files) /\ Good(new.bundle)
      BY <2>1, <3>2, FirstBundle, FilesInOrder
    <3> QED BY <2>1, <3>1, <3>2, <3>3
  <2>2. CASE old.files # Index
    <3>1. restore' = [old EXCEPT !.files = Tail(old.files)]
      BY <1>2, <1>5, <2>2, FilesInOrder DEF Bundled!Unpack
    <3>2. Tail(old.files) \in Files
      BY <1>5, FilesInOrder DEF Files
    <3>3. PICK new \in [files : Files, bundle : Bundle] : new = [old EXCEPT !.files = Tail(old.files)]
      BY <3>2
    <3>4. new.files = Tail(old.files) /\ new.bundle = b
      BY <1>3, <3>3
    <3> QED BY <1>4, <2>2, <3>1, <3>3, <3>4
  <2> QED BY <2>1, <2>2
<1>8. MirrorType'
  BY <1>1, <1>4, <1>5, <1>6, <1>7 DEF MirrorInv, MirrorType
<1>9. Packing'
  BY <1>1, FilesApart DEF MirrorInv, Packing, Good
<1>10. Restoring'
  <2>1. ASSUME ~ torn PROVE ~ open /\ wal = {} /\ b.quiet
                            /\ (old.files \in {Rows, Index} => packed = b.saved)
                            /\ (old.files = Index => memory = b.memory)
    BY <1>1, <1>2, <1>3, <2>1 DEF MirrorInv, Restoring
  <2>2. CASE old.files = All
    BY <1>1, <1>6, <1>7, <2>1, <2>2, FilesInOrder, FilesApart DEF Restoring, Good
  <2>3. CASE old.files = Marked
    BY <1>1, <1>6, <1>7, <2>1, <2>3, FilesInOrder, FilesApart DEF Restoring, Good
  <2>4. CASE old.files = Rows
    BY <1>1, <1>6, <1>7, <2>1, <2>4, FilesInOrder, FilesApart DEF Restoring, Good
  <2>5. CASE old.files = Index
    BY <1>1, <1>7, <2>5, FilesInOrder DEF Restoring, Good
  <2> QED BY <1>5, <2>2, <2>3, <2>4, <2>5
<1>11. Whole'
  <2>1. CASE old.files = Index
    <3>1. ASSUME ~ torn PROVE ~ open /\ b.quiet /\ packed = b.saved /\ memory = b.memory
      BY <1>1, <1>2, <1>3, <2>1, <3>1 DEF MirrorInv, Restoring
    <3> QED BY <1>1, <1>4, <1>6, <2>1, <3>1, FilesApart DEF Whole, Good
  <2>2. CASE old.files # Index
    <3>1. restore'.files # <<>>
      BY <1>5, <1>7, <2>2, FilesInOrder, FilesApart
    <3> QED BY <3>1 DEF Whole
  <2> QED BY <2>1, <2>2
<1> QED BY <1>1, <1>8, <1>9, <1>10, <1>11 DEF MirrorInv, Good

LEMMA BreakOffKeeps == ASSUME MirrorInv, Bundled!BreakOff PROVE MirrorInv'
<1>1. /\ UNCHANGED <<memory, wal, packed, open, stored, push, drive>> /\ torn' = TRUE
      /\ restore' = [files |-> <<>>, bundle |-> Bundled!Bundle]
  BY DEF Bundled!BreakOff, Bundled!NoRestore, Bundled!root
<1>2. MirrorType'
  BY <1>1, FirstBundle DEF MirrorInv, MirrorType, Files
<1>3. Packing'
  BY <1>1 DEF MirrorInv, Packing, Good
<1> QED BY <1>1, <1>2, <1>3, FirstBundle DEF MirrorInv, Whole, Restoring, Good

LEMMA MirrorStep == MirrorInv /\ [Bundled!Next]_(Bundled!vars) => MirrorInv'
<1> SUFFICES ASSUME MirrorInv, [Bundled!Next]_(Bundled!vars) PROVE MirrorInv'
  OBVIOUS
<1>1. CASE UNCHANGED Bundled!vars
  BY <1>1 DEF Bundled!vars, MirrorInv, MirrorType, Whole, Packing, Restoring, Good
<1>2. ASSUME NEW secret \in Secret,
             Bundled!Push(secret) \/ Bundled!RestoreLive(secret) \/ Bundled!RestoreBeside(secret)
      PROVE  MirrorInv'
  BY <1>2, PushKeeps, RestoreKeeps
<1> QED BY <1>1, <1>2, IngestSteps, PackKeeps, UploadKeeps, UnpackKeeps, BreakOffKeeps DEF Bundled!Next

LEMMA MirrorIsStored == MirrorInv => Bundled!MarkIsStored
BY DEF MirrorInv, Whole, Bundled!MarkIsStored

\* What the mark says is done is in the memory, also after a restore.
THEOREM MirrorIsCovered == Bundled!Spec => []Bundled!MarkIsStored
BY MirrorInit, MirrorStep, MirrorIsStored, PTL DEF Bundled!Spec

-----------------------------------------------------------------------------
\* Side by side each of the three steps as it does on its own, or stands still.
LEMMA PartsStepAlone ==
    [PartNext]_<<part, vars, ingestVars, wizardVars, cockpitVars, driveVars, mirrorVars, hookVars>> =>
        /\ [Sessions!Next]_(Sessions!vars)
        /\ [Sessions!DriveNext]_(Sessions!driveVars)
        /\ [Bundled!Next]_(Bundled!vars)
<1>1. /\ Sessions!vars = ingestVars /\ Sessions!driveVars = driveVars /\ Bundled!vars = mirrorVars
      /\ (Sessions!vars)' = ingestVars' /\ (Sessions!driveVars)' = driveVars' /\ (Bundled!vars)' = mirrorVars'
  BY DEF Sessions!vars, ingestVars, Sessions!driveVars, driveVars, Bundled!vars, mirrorVars
<1> QED BY <1>1 DEF PartNext, Still

\* Every mark is covered by what is in Firm Memory: that of a session file, that of
\* the folder in Drive, and that of a root which was restored.
THEOREM MarksHold == PartSpec => []MarksAreCovered
<1>1. PartInit => IngestInv /\ DriveInv /\ MirrorInv
  BY IngestInit, DriveInit, MirrorInit DEF PartInit
<1>2. IngestInv /\ DriveInv /\ MirrorInv
        /\ [PartNext]_<<part, vars, ingestVars, wizardVars, cockpitVars, driveVars, mirrorVars, hookVars>>
      => (IngestInv /\ DriveInv /\ MirrorInv)'
  BY PartsStepAlone, IngestStep, DriveStep, MirrorStep
<1>3. IngestInv /\ DriveInv /\ MirrorInv => MarksAreCovered
  BY IngestIsCovered, DriveIsCovered, MirrorIsStored DEF MarksAreCovered
<1> QED BY <1>1, <1>2, <1>3, PTL DEF PartSpec
==============================================================================
