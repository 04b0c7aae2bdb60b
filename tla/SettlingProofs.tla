---------------------------- MODULE SettlingProofs ----------------------------
(***************************************************************************)
(* Theorems about what MCSettling has side by side: the reconciler, and    *)
(* at the end the gateway.                                                 *)
(*                                                                         *)
(* The reconciler, for every history of commits, any number                *)
(* of runs under way at a time, whatever users do to the board meanwhile,  *)
(* and however many runs die or fail.                                      *)
(*                                                                         *)
(* That the marker passes over no claim needs to know of each run that     *)
(* everything up to where it starts has been inspected (Covered): by       *)
(* itself, by a run that died, or by one that overlaps with it.  That a    *)
(* run closes nothing a second time needs to know that what a snapshot     *)
(* holds to be closed is closed on the board as well, although the board   *)
(* has moved on (NoneReopened).                                            *)
(***************************************************************************)
EXTENDS MCSettling, FiniteSetTheorems, TLAPS

\* A finite set of naturals that is not empty has a least member: the well-founded
\* order is that of its initial segments.
LEMMA LeastMember ==
    ASSUME NEW U \in SUBSET Nat, IsFiniteSet(U), U # {}
    PROVE  \E m \in U : \A n \in U : m <= n
<1> DEFINE Upto(m) == {n \in U : n <= m}
           T == {Upto(m) : m \in U}
<1>1. FiniteSubsetsOf(U) = SUBSET U
  BY FS_FiniteSubsetsOfFinite
<1>2. T \subseteq SUBSET U /\ T # {}
  <2>1. \A m \in U : Upto(m) \subseteq U
    OBVIOUS
  <2>2. PICK u \in U : TRUE
    OBVIOUS
  <2> HIDE DEF Upto
  <2> QED BY <2>1, <2>2
<1>3. PICK X \in T : \A Y \in T : ~ (<<Y, X>> \in StrictSubsetOrdering(U))
  <2> HIDE DEF T
  <2>1. IsWellFoundedOn(StrictSubsetOrdering(U), SUBSET U)
    BY <1>1, FS_StrictSubsetOrderingWellFounded
  <2> QED BY <2>1, <1>2, WFMin
<1>4. PICK m \in U : X = Upto(m)
  BY <1>3
<1>5. ASSUME NEW n \in U, n < m PROVE FALSE
  <2>1. m \in Nat /\ n \in Nat /\ U \subseteq Nat
    OBVIOUS
  <2>2. m \in Upto(m) /\ m \notin Upto(n) /\ Upto(m) \subseteq U
    BY <1>5, <2>1
  <2>3. \A x \in Upto(n) : x \in Upto(m)
    BY <1>5, <2>1
  <2>4. Upto(n) \in T
    OBVIOUS
  <2> HIDE DEF Upto, T
  <2> QED BY <2>2, <2>3, <2>4, <1>3, <1>4 DEF StrictSubsetOrdering
<1> QED BY <1>5

\* So there is an oldest among any claims.
LEMMA OldestClaim ==
    ASSUME NEW S \in SUBSET Claims, S # {}
    PROVE  \E x \in S : \A y \in S : Before(x, y)
<1> USE ReconcilerAssumption
<1>1. \A x \in S : x = <<x[1], x[2]>> /\ x[1] \in 1..Len(Commits) /\ x[2] \in 1..Len(Commits[x[1]])
  BY DEF Claims, Commit
<1> DEFINE commits == {x[1] : x \in S}
<1>2. PICK c \in commits : \A d \in commits : c <= d
  <2>1. Len(Commits) \in Nat
    OBVIOUS
  <2>2. commits \subseteq 1..Len(Commits) /\ commits # {}
    BY <1>1
  <2> HIDE DEF commits
  <2>3. IsFiniteSet(1..Len(Commits))
    BY <2>1, FS_Interval
  <2>4. IsFiniteSet(commits)
    BY <2>2, <2>3, FS_Subset
  <2>5. commits \subseteq Nat
    BY <2>1, <2>2
  <2> QED BY <2>2, <2>4, <2>5, LeastMember
<1> DEFINE places == {x[2] : x \in {y \in S : y[1] = c}}
<1>3. PICK i \in places : \A j \in places : i <= j
  <2>1. c \in 1..Len(Commits) /\ Len(Commits[c]) \in Nat
    <3>1. c \in 1..Len(Commits)
      BY <1>1
    <3> QED BY <3>1
  <2>2. places \subseteq 1..Len(Commits[c]) /\ places # {}
    BY <1>1
  <2> HIDE DEF places
  <2>3. IsFiniteSet(1..Len(Commits[c]))
    <3>1. \A n \in Nat : IsFiniteSet(1..n)
      BY FS_Interval
    <3> QED BY <2>1, <3>1
  <2>4. IsFiniteSet(places)
    BY <2>2, <2>3, FS_Subset
  <2>5. places \subseteq Nat
    BY <2>1, <2>2
  <2> QED BY <2>2, <2>4, <2>5, LeastMember
<1>4. PICK x \in S : x[1] = c /\ x[2] = i
  OBVIOUS
<1>5. ASSUME NEW y \in S PROVE Before(x, y)
  <2>1. c <= y[1] /\ c \in Nat /\ y[1] \in Nat
    BY <1>1, <1>2, <1>4
  <2>2. y[1] = c => i <= y[2]
    BY <1>3
  <2> QED BY <1>4, <2>1, <2>2 DEF Before
<1> QED BY <1>5

LEMMA ClaimIsOne ==
    ASSUME NEW r, run[r].todo \in SUBSET Claims, run[r].todo # {}
    PROVE  Claim(r) \in run[r].todo /\ Claim(r) \in Claims
<1>1. \E x \in run[r].todo : \A y \in run[r].todo : Before(x, y)
  BY OldestClaim
<1> QED BY <1>1 DEF Claim

\* Where a run can be.
Stages == {"idle", "git", "read", "closing", "saving", "auditing"}

\* A claim is of a commit there is, and names tasks.
LEMMA ClaimFacts ==
    ASSUME NEW claim \in Claims
    PROVE  claim[1] \in Nat /\ claim[1] > 0 /\ claim[1] <= Len(Commits) /\ Named(claim) \subseteq Task
<1>1. PICK c \in 1..Len(Commits) : \E i \in 1..Len(Commits[c]) : claim = <<c, i>>
  <2>1. \A c \in 1..Len(Commits) : DOMAIN Commits[c] = 1..Len(Commits[c])
    BY ReconcilerAssumption
  <2> QED BY <2>1 DEF Claims, Commit
<1>2. PICK i \in 1..Len(Commits[c]) : claim = <<c, i>>
  BY <1>1
<1>3. Commits[c] \in Seq(Trailer) /\ Len(Commits) \in Nat
  BY ReconcilerAssumption
<1>4. Commits[c][i] \in Trailer
  BY <1>3
<1> QED BY <1>2, <1>3, <1>4, ReconcilerAssumption DEF Named

-----------------------------------------------------------------------------
\* What a run holds comes from commits there are.
Held ==
    \A r \in Reconciler :
        /\ run[r].since <= head
        /\ \A claim \in run[r].todo : claim[1] <= run[r].upto

WellTyped == TypeOK /\ Held

LEMMA TypeInit == Init => WellTyped
<1> SUFFICES ASSUME Init PROVE WellTyped
  OBVIOUS
<1>1. Len(Commits) \in Nat
  BY ReconcilerAssumption
<1>2. NoRun \in Run
  BY <1>1 DEF NoRun, Run, Status
<1>3. \A r \in Reconciler : run[r] \in Run /\ run[r] = NoRun
  BY <1>2 DEF Init
<1>4. TypeOK
  BY <1>1, <1>2, <1>3, ReconcilerAssumption DEF Init, TypeOK, Status, NoRun
<1>5. Held
  BY <1>1, <1>3 DEF Init, Held, NoRun
<1> QED BY <1>4, <1>5 DEF WellTyped

LEMMA TypeStep == WellTyped /\ [Next]_vars => WellTyped'
<1> SUFFICES ASSUME WellTyped, [Next]_vars PROVE WellTyped'
  OBVIOUS
<1> USE ReconcilerAssumption
<1>0. /\ Len(Commits) \in Nat /\ head \in Nat /\ head <= Len(Commits) /\ marker \in Nat /\ marker <= head
      /\ \A r \in Reconciler :
            /\ run[r] \in Run /\ at[r] \in Stages
            /\ run[r].since \in Nat /\ run[r].upto \in Nat /\ run[r].todo \subseteq Claims
  BY DEF WellTyped, TypeOK, Run, Stages
<1>a. NoRun \in Run /\ NoRun.upto = 0 /\ NoRun.since = 0 /\ NoRun.todo = {}
  BY <1>0 DEF NoRun, Run, Status
<1>1. ASSUME NEW r \in Reconciler, Begin(r) PROVE WellTyped'
  <2>1. /\ run' = [run EXCEPT ![r].since = marker] /\ at' = [at EXCEPT ![r] = "git"]
        /\ UNCHANGED <<head, marker, board, evidence, audited, closures, inspected, crashes>>
    BY <1>1 DEF Begin, Goes
  <2>2. [run[r] EXCEPT !.since = marker] \in Run
    <3>1. marker \in 0..Len(Commits) /\ run[r] \in Run
      BY <1>0
    <3> QED BY <3>1 DEF Run
  <2> HIDE ReconcilerAssumption
  <2>3. /\ run' \in [Reconciler -> Run]
        /\ \A x \in Reconciler :
              run'[x].upto = run[x].upto /\ run'[x].todo = run[x].todo /\ run'[x].since \in {run[x].since, marker}
    <3>1. run \in [Reconciler -> Run] /\ run[r] \in Run
      BY <1>0 DEF WellTyped, TypeOK
    <3>2. run' \in [Reconciler -> Run]
      BY <2>1, <2>2, <3>1
    <3>3. [run[r] EXCEPT !.since = marker].upto = run[r].upto /\ [run[r] EXCEPT !.since = marker].todo = run[r].todo
          /\ [run[r] EXCEPT !.since = marker].since = marker
      BY <3>1 DEF Run
    <3>4. \A x \in Reconciler : run'[x] = IF x = r THEN [run[r] EXCEPT !.since = marker] ELSE run[x]
      BY <2>1, <3>1
    <3> QED BY <3>2, <3>3, <3>4
  <2>4. /\ at' \in [Reconciler -> Stages]
        /\ \A x \in Reconciler : at'[x] = at[x] \/ at'[x] = "git"
    BY <2>1 DEF WellTyped, TypeOK, Stages
  <2>5. TypeOK'
    BY <2>1, <2>3, <2>4 DEF WellTyped, TypeOK, Stages
  <2>6. Held'
    BY <1>0, <2>1, <2>3 DEF WellTyped, Held
  <2> QED BY <2>5, <2>6 DEF WellTyped
<1>2. ASSUME NEW r \in Reconciler, ReadLog(r) PROVE WellTyped'
  <2> DEFINE new == {claim \in Claims : claim[1] \in (run[r].since + 1)..head}
  <2>1. /\ run' = [run EXCEPT ![r] = [@ EXCEPT !.upto = head, !.todo = new]]
        /\ at' = [at EXCEPT ![r] = "read"]
        /\ UNCHANGED <<head, marker, board, evidence, audited, closures, inspected, crashes>>
    BY <1>2 DEF ReadLog, Goes
  <2>2. new \subseteq Claims /\ \A claim \in new : claim[1] <= head
    BY <1>0
  <2> HIDE DEF new
  <2>3. [run[r] EXCEPT !.upto = head, !.todo = new] \in Run
    <3>1. head \in 0..Len(Commits) /\ run[r] \in Run
      BY <1>0
    <3> QED BY <2>2, <3>1 DEF Run
  <2>4. /\ run' \in [Reconciler -> Run] /\ at' \in [Reconciler -> Stages]
        /\ at'[r] = "read" /\ run'[r].since = run[r].since /\ run'[r].upto = head /\ run'[r].todo = new
        /\ \A x \in Reconciler \ {r} : at'[x] = at[x] /\ run'[x] = run[x]
    BY <1>0, <2>1, <2>3 DEF WellTyped, TypeOK, Stages, Run
  <2>5. head <= head
    BY DEF WellTyped, TypeOK
  <2>6. \A x \in Reconciler :
            run'[x].upto <= head /\ (at'[x] \in {"saving", "auditing"} => run'[x].todo # {})
    BY <2>4, <2>5 DEF WellTyped, TypeOK
  <2>7. Held'
    BY <2>1, <2>2, <2>4 DEF WellTyped, Held
  <2> QED BY <2>1, <2>4, <2>6, <2>7 DEF WellTyped, TypeOK, Stages
<1>3. ASSUME NEW r \in Reconciler, Snapshot(r) PROVE WellTyped'
  <2>1. /\ run' = [run EXCEPT ![r] = [@ EXCEPT !.snap = board, !.seen = Closed(run[r].todo)]]
        /\ at' = [at EXCEPT ![r] = "closing"]
        /\ UNCHANGED <<head, marker, board, evidence, audited, closures, inspected, crashes>>
    BY <1>3 DEF Snapshot, Goes
  <2>2. Closed(run[r].todo) \subseteq Claims \X Task /\ board \in [Task -> Status]
    BY DEF WellTyped, TypeOK, Closed
  <2>3. [run[r] EXCEPT !.snap = board, !.seen = Closed(run[r].todo)] \in Run
    BY <1>0, <2>2 DEF Run
  <2>4. /\ run' \in [Reconciler -> Run] /\ at' \in [Reconciler -> Stages] /\ at'[r] = "closing"
        /\ \A x \in Reconciler : /\ run'[x].since = run[x].since /\ run'[x].upto = run[x].upto
                                 /\ run'[x].todo = run[x].todo
        /\ \A x \in Reconciler \ {r} : at'[x] = at[x]
    BY <1>0, <2>1, <2>3 DEF WellTyped, TypeOK, Stages, Run
  <2>5. Held'
    BY <2>1, <2>4 DEF WellTyped, Held
  <2>6. \A x \in Reconciler :
            run'[x].upto <= head /\ (at'[x] \in {"saving", "auditing"} => run'[x].todo # {})
    BY <2>4 DEF WellTyped, TypeOK
  <2> QED BY <2>1, <2>4, <2>5, <2>6 DEF WellTyped, TypeOK, Stages
<1>4. ASSUME NEW r \in Reconciler, Skip(r) PROVE WellTyped'
  <2> DEFINE next == [run[r] EXCEPT !.todo = @ \ {Claim(r)}]
  <2>1. /\ run' = [run EXCEPT ![r].todo = @ \ {Claim(r)}]
        /\ inspected' = inspected \cup {Claim(r)}
        /\ at[r] = "closing" /\ run[r].todo # {}
        /\ UNCHANGED <<head, marker, board, evidence, audited, at, closures, crashes>>
    BY <1>4 DEF Skip
  <2>2. Claim(r) \in Claims
    BY <1>0, <2>1, ClaimIsOne
  <2>3. next \in Run /\ next.since = run[r].since /\ next.upto = run[r].upto /\ next.todo \subseteq run[r].todo
    BY <1>0 DEF Run
  <2>4. run' = [run EXCEPT ![r] = next]
    BY <2>1
  <2> HIDE DEF next
  <2>5. inspected' \subseteq Claims
    BY <2>1, <2>2 DEF WellTyped, TypeOK
  <2>6. \A x \in Reconciler : at[x] \in {"saving", "auditing"} => run'[x].todo # {}
    BY <1>0, <2>1, <2>4 DEF WellTyped, TypeOK
  <2>7. run' \in [Reconciler -> Run] /\ \A x \in Reconciler : run'[x].upto <= head
    BY <1>0, <2>3, <2>4 DEF WellTyped, TypeOK
  <2>8. Held'
    BY <1>0, <2>1, <2>3, <2>4 DEF WellTyped, TypeOK, Held
  <2> QED BY <2>1, <2>5, <2>6, <2>7, <2>8 DEF WellTyped, TypeOK
<1>5. ASSUME NEW r \in Reconciler, Ends(r), UNCHANGED <<head, board, evidence, audited, closures, inspected>>,
             marker' \in Nat, marker' <= head, crashes' \in 0..MaxCrashes
      PROVE  WellTyped'
  <2>1. at' = [at EXCEPT ![r] = "idle"] /\ run' = [run EXCEPT ![r] = NoRun]
    BY <1>5 DEF Ends
  <2>2. /\ at' \in [Reconciler -> Stages] /\ run' \in [Reconciler -> Run]
        /\ \A x \in Reconciler : run'[x] = run[x] \/ run'[x] = NoRun
    BY <1>a, <2>1 DEF WellTyped, TypeOK, Stages
  <2>3. \A x \in Reconciler : at'[x] \in {"saving", "auditing"} => run'[x].todo # {}
    <3>1. \A x \in Reconciler : at'[x] = "idle" \/ (at'[x] = at[x] /\ run'[x] = run[x])
      BY <2>1 DEF WellTyped, TypeOK
    <3>2. \A x \in Reconciler : at[x] \in {"saving", "auditing"} => run[x].todo # {}
      BY DEF WellTyped, TypeOK
    <3> QED BY <3>1, <3>2
  <2>4. \A x \in Reconciler : run'[x].upto <= head /\ run'[x].since <= head
    <3>1. \A x \in Reconciler : run[x].upto <= head /\ run[x].since <= head
      BY DEF WellTyped, TypeOK, Held
    <3> QED BY <1>0, <1>a, <2>2, <3>1
  <2>5. \A x \in Reconciler : \A claim \in run'[x].todo : claim[1] <= run'[x].upto
    BY <1>a, <2>2 DEF WellTyped, Held
  <2>6. marker' \in 0..head
    BY <1>0, <1>5
  <2>7. TypeOK'
    BY <1>5, <2>2, <2>3, <2>4, <2>6 DEF WellTyped, TypeOK, Stages
  <2>8. Held'
    BY <1>5, <2>4, <2>5 DEF Held
  <2> QED BY <2>7, <2>8 DEF WellTyped
<1>6. ASSUME NEW r \in Reconciler, Fetch(r) PROVE WellTyped'
  <2>1. CASE Ends(r)
    BY <1>0, <1>5, <1>6, <2>1 DEF Fetch, WellTyped, TypeOK
  <2>2. CASE Goes(r, "closing", "saving") /\ UNCHANGED run
    BY <1>0, <1>6, <2>2 DEF Fetch, Goes, WellTyped, TypeOK, Held
  <2> QED BY <1>6, <2>1, <2>2 DEF Fetch
<1>7. ASSUME NEW r \in Reconciler, Save(r) PROVE WellTyped'
  <2>1. PICK t \in Match(r) :
          /\ board' = [board EXCEPT ![t] = "completed"]
          /\ evidence' = [evidence EXCEPT ![t] = Claim(r)[1]]
          /\ closures' = closures \cup {<<Claim(r), t>>}
    BY <1>7 DEF Save
  <2>2. /\ at[r] = "saving" /\ at' = [at EXCEPT ![r] = "auditing"] /\ inspected' = inspected \cup {Claim(r)}
        /\ UNCHANGED <<head, marker, audited, run, crashes>>
    BY <1>7 DEF Save, Goes
  <2>3. run[r].todo # {}
    BY <2>2 DEF WellTyped, TypeOK
  <2>4. Claim(r) \in run[r].todo /\ Claim(r) \in Claims
    BY <1>0, <2>3, ClaimIsOne
  <2>5. t \in Named(Claim(r)) /\ t \in Task /\ Claim(r)[1] \in Nat
    BY <2>4, ClaimFacts DEF Match, OpenNamed
  <2>6. Claim(r)[1] <= head
    <3>1. Claim(r)[1] <= run[r].upto /\ run[r].upto <= head
      BY <2>4 DEF WellTyped, TypeOK, Held
    <3>2. run[r].upto \in Nat /\ head \in Nat
      BY <1>0 DEF Run
    <3> QED BY <2>5, <3>1, <3>2
  <2>7. /\ board' \in [Task -> Status] /\ evidence' \in [Task -> 0..head]
        /\ closures' \subseteq Claims \X Task /\ inspected' \subseteq Claims
    BY <1>0, <2>1, <2>2, <2>4, <2>5, <2>6 DEF WellTyped, TypeOK, Status
  <2>8. ASSUME NEW u \in Task, evidence'[u] > 0
        PROVE  \E claim \in Claims : claim[1] = evidence'[u] /\ u \in Named(claim)
    BY <2>1, <2>4, <2>5, <2>8 DEF WellTyped, TypeOK
  <2>9. at' \in [Reconciler -> Stages]
    BY <2>2 DEF WellTyped, TypeOK, Stages
  <2>10. \A x \in Reconciler : at'[x] \in {"saving", "auditing"} => run[x].todo # {}
    BY <2>2, <2>3 DEF WellTyped, TypeOK
  <2> QED BY <2>2, <2>7, <2>8, <2>9, <2>10 DEF WellTyped, TypeOK, Held, Stages
<1>8. ASSUME NEW r \in Reconciler, Audit(r) PROVE WellTyped'
  <2>1. CASE Ends(r) /\ UNCHANGED audited
    BY <1>0, <1>5, <1>8, <2>1 DEF Audit, WellTyped, TypeOK
  <2>2. ASSUME NEW t \in Match(r), Goes(r, "auditing", "closing"),
               run' = [run EXCEPT ![r].todo = @ \ {Claim(r)}, ![r].snap[t] = "completed"],
               audited' = audited \cup {<<t, Claim(r)[1]>>}
        PROVE  WellTyped'
    <3>1. at[r] = "auditing" /\ at' = [at EXCEPT ![r] = "closing"]
      BY <2>2 DEF Goes
    <3>2. run[r].todo # {}
      BY <3>1 DEF WellTyped, TypeOK
    <3>3. Claim(r) \in run[r].todo /\ Claim(r) \in Claims
      BY <1>0, <3>2, ClaimIsOne
    <3>4. t \in Task /\ Claim(r)[1] \in Nat /\ Claim(r)[1] > 0
      BY <3>3, ClaimFacts DEF Match, OpenNamed
    <3>5. Claim(r)[1] <= head
      <4>1. Claim(r)[1] <= run[r].upto /\ run[r].upto <= head
        BY <3>3 DEF WellTyped, TypeOK, Held
      <4> QED BY <1>0, <3>4, <4>1
    <3> DEFINE next == [run[r] EXCEPT !.todo = @ \ {Claim(r)}, !.snap[t] = "completed"]
    <3>6. next \in Run /\ next.since = run[r].since /\ next.upto = run[r].upto /\ next.todo \subseteq run[r].todo
      BY <1>0, <3>4 DEF Run, Status
    <3>7. run' = [run EXCEPT ![r] = next]
      BY <2>2
    <3> HIDE DEF next
    <3>8. audited' \subseteq Task \X (1..head)
      BY <1>0, <2>2, <3>4, <3>5 DEF WellTyped, TypeOK
    <3>9. UNCHANGED <<head, marker, board, evidence, closures, inspected, crashes>>
      BY <1>8 DEF Audit
    <3> QED BY <1>0, <3>1, <3>6, <3>7, <3>8, <3>9 DEF WellTyped, TypeOK, Held
  <2> QED BY <1>8, <2>1, <2>2 DEF Audit
<1>9. ASSUME NEW r \in Reconciler, Mark(r) PROVE WellTyped'
  <2>1. marker' \in Nat /\ marker' <= head
    BY <1>0, <1>9 DEF Mark, Marked, WellTyped, TypeOK
  <2> QED BY <1>5, <1>9, <2>1 DEF Mark, WellTyped, TypeOK
<1>10. ASSUME NEW r \in Reconciler, Crash(r) PROVE WellTyped'
  <2>1. crashes' \in 0..MaxCrashes
    BY <1>10 DEF Crash, WellTyped, TypeOK
  <2> QED BY <1>0, <1>5, <1>10, <2>1 DEF Crash
<1>11. CASE MakeCommit
  <2>1. head' = head + 1 /\ head < Len(Commits)
        /\ UNCHANGED <<marker, board, evidence, audited, at, run, closures, inspected, crashes>>
    BY <1>11 DEF MakeCommit
  <2>2. evidence' \in [Task -> 0..head'] /\ audited' \subseteq Task \X (1..head')
    BY <1>0, <2>1 DEF WellTyped, TypeOK
  <2>3. head' \in 0..Len(Commits) /\ marker' \in 0..head'
    BY <1>0, <2>1
  <2>4. \A r \in Reconciler : run'[r].upto <= head' /\ run'[r].since <= head'
    BY <1>0, <2>1 DEF WellTyped, TypeOK, Held
  <2> QED BY <2>1, <2>2, <2>3, <2>4 DEF WellTyped, TypeOK, Held
<1>12. ASSUME NEW t \in Task, NEW op \in UserOps, Change(t, op) PROVE WellTyped'
  <2>1. board' \in [Task -> Status]
    <3>1. ResultOf[op] \in Status
      BY DEF ResultOf, Status
    <3> QED BY <1>12, <3>1 DEF Change, WellTyped, TypeOK
  <2> QED BY <1>12, <2>1 DEF Change, WellTyped, TypeOK, Held
<1>13. CASE UNCHANGED vars
  BY <1>13 DEF vars, WellTyped, TypeOK, Held
<1> QED
  BY <1>1, <1>2, <1>3, <1>4, <1>6, <1>7, <1>8, <1>9, <1>10, <1>11, <1>12, <1>13 DEF Next, Goes_On

(***************************************************************************)
(* Every reachable state is well typed: each task's evidence is a commit   *)
(* that is made and that names it.                                         *)
(***************************************************************************)
THEOREM TypeCorrect == Spec => []TypeOK
<1>1. WellTyped => TypeOK
  BY DEF WellTyped
<1> QED BY TypeInit, TypeStep, <1>1, PTL DEF Spec

-----------------------------------------------------------------------------
(***************************************************************************)
(* What has been inspected.  Up to the marker, and up to where each run    *)
(* starts, everything has been; of what a run has read, it still holds     *)
(* what has not; and the claim a run has closed is one that has.           *)
(***************************************************************************)
Covered ==
    /\ \A claim \in Claims : claim[1] <= marker => claim \in inspected
    /\ \A r \in Reconciler : at[r] # "idle" =>
          \A claim \in Claims : claim[1] <= run[r].since => claim \in inspected
    /\ \A r \in Reconciler : at[r] \notin {"idle", "git"} =>
          \A claim \in Claims : run[r].since < claim[1] /\ claim[1] <= run[r].upto =>
              claim \in run[r].todo \cup inspected
    /\ \A r \in Reconciler : at[r] = "auditing" => Claim(r) \in inspected

LEMMA CoveredStep == WellTyped /\ Covered /\ [Next]_vars => Covered'
<1> SUFFICES ASSUME WellTyped, Covered, [Next]_vars PROVE Covered'
  OBVIOUS
<1>0. /\ head \in Nat /\ marker \in Nat /\ marker <= head
      /\ \A claim \in Claims : claim[1] \in Nat
      /\ run \in [Reconciler -> Run] /\ at \in [Reconciler -> Stages]
      /\ \A r \in Reconciler : run[r].since \in Nat /\ run[r].upto \in Nat /\ run[r].since <= head
  <2>1. Len(Commits) \in Nat /\ \A claim \in Claims : claim[1] \in Nat
    BY ReconcilerAssumption, ClaimFacts
  <2>2. run \in [Reconciler -> Run] /\ at \in [Reconciler -> Stages]
    BY DEF WellTyped, TypeOK, Stages
  <2>3. head \in Nat /\ marker \in Nat /\ marker <= head
    BY <2>1 DEF WellTyped, TypeOK
  <2>4. \A r \in Reconciler : run[r].since \in Nat /\ run[r].upto \in Nat
    BY <2>1, <2>2 DEF Run
  <2> QED BY <2>1, <2>2, <2>3, <2>4 DEF WellTyped, Held
\* Only the run of r moves, and nothing that has been inspected is forgotten.
<1>1. ASSUME NEW r \in Reconciler, NEW to, NEW next,
             at' = [at EXCEPT ![r] = to], run' = [run EXCEPT ![r] = next],
             inspected \subseteq inspected',
             \A claim \in Claims : claim[1] <= marker' => claim \in inspected',
             to # "idle" => \A claim \in Claims : claim[1] <= next.since => claim \in inspected',
             to \notin {"idle", "git"} =>
                \A claim \in Claims : next.since < claim[1] /\ claim[1] <= next.upto =>
                    claim \in next.todo \cup inspected',
             to = "auditing" => Claim(r)' \in inspected'
      PROVE  Covered'
  <2>1. /\ at'[r] = to /\ run'[r] = next
        /\ \A x \in Reconciler : x # r => at'[x] = at[x] /\ run'[x] = run[x] /\ Claim(x)' = Claim(x)
    BY <1>0, <1>1 DEF Claim
  <2>2. ASSUME NEW x \in Reconciler, at'[x] # "idle", NEW claim \in Claims, claim[1] <= run'[x].since
        PROVE  claim \in inspected'
    BY <1>1, <2>1, <2>2 DEF Covered
  <2>3. ASSUME NEW x \in Reconciler, at'[x] \notin {"idle", "git"}, NEW claim \in Claims,
               run'[x].since < claim[1], claim[1] <= run'[x].upto
        PROVE  claim \in run'[x].todo \cup inspected'
    BY <1>1, <2>1, <2>3 DEF Covered
  <2>4. ASSUME NEW x \in Reconciler, at'[x] = "auditing"
        PROVE  Claim(x)' \in inspected'
    BY <1>1, <2>1, <2>4 DEF Covered
  <2> QED BY <1>1, <2>2, <2>3, <2>4 DEF Covered
<1>2. ASSUME UNCHANGED <<marker, at, run, inspected>> PROVE Covered'
  BY <1>2 DEF Covered, Claim
<1>3. ASSUME NEW r \in Reconciler, Begin(r) PROVE Covered'
  <2> DEFINE next == [run[r] EXCEPT !.since = marker]
  <2>1. run' = [run EXCEPT ![r] = next] /\ next.since = marker
    BY <1>0, <1>3 DEF Begin, Run
  <2> HIDE DEF next
  <2>2. at' = [at EXCEPT ![r] = "git"] /\ UNCHANGED <<marker, inspected>>
    BY <1>3 DEF Begin, Goes
  <2> QED BY <1>1, <2>1, <2>2 DEF Covered
<1>4. ASSUME NEW r \in Reconciler, ReadLog(r) PROVE Covered'
  <2> DEFINE new  == {claim \in Claims : claim[1] \in (run[r].since + 1)..head}
             next == [run[r] EXCEPT !.upto = head, !.todo = new]
  <2>1. run' = [run EXCEPT ![r] = next]
    BY <1>4 DEF ReadLog
  <2>2. next.since = run[r].since /\ next.upto = head /\ next.todo = new
    BY <1>0 DEF Run
  <2>3. \A claim \in Claims : run[r].since < claim[1] /\ claim[1] <= head => claim \in new
    BY <1>0
  <2> HIDE DEF new, next
  <2>4. at[r] = "git" /\ at' = [at EXCEPT ![r] = "read"] /\ UNCHANGED <<marker, inspected>>
    BY <1>4 DEF ReadLog, Goes
  <2> QED BY <1>1, <2>1, <2>2, <2>3, <2>4 DEF Covered
<1>5. ASSUME NEW r \in Reconciler, Snapshot(r) PROVE Covered'
  <2> DEFINE next == [run[r] EXCEPT !.snap = board, !.seen = Closed(run[r].todo)]
  <2>1. run' = [run EXCEPT ![r] = next]
    BY <1>5 DEF Snapshot
  <2>2. next.since = run[r].since /\ next.upto = run[r].upto /\ next.todo = run[r].todo
    BY <1>0 DEF Run
  <2> HIDE DEF next
  <2>3. at[r] = "read" /\ at' = [at EXCEPT ![r] = "closing"] /\ UNCHANGED <<marker, inspected>>
    BY <1>5 DEF Snapshot, Goes
  <2> QED BY <1>1, <2>1, <2>2, <2>3 DEF Covered
<1>6. ASSUME NEW r \in Reconciler, Skip(r) PROVE Covered'
  <2> DEFINE next == [run[r] EXCEPT !.todo = @ \ {Claim(r)}]
  <2>1. run' = [run EXCEPT ![r] = next]
    BY <1>6 DEF Skip
  <2>2. next.since = run[r].since /\ next.upto = run[r].upto /\ next.todo = run[r].todo \ {Claim(r)}
    BY <1>0 DEF Run
  <2> HIDE DEF next
  <2>3. at[r] = "closing" /\ at' = [at EXCEPT ![r] = "closing"]
    BY <1>0, <1>6 DEF Skip
  <2>4. marker' = marker /\ inspected' = inspected \cup {Claim(r)}
    BY <1>6 DEF Skip
  <2> QED BY <1>1, <2>1, <2>2, <2>3, <2>4 DEF Covered
<1>7. ASSUME NEW r \in Reconciler, Ends(r), inspected' = inspected,
             \A claim \in Claims : claim[1] <= marker' => claim \in inspected
      PROVE  Covered'
  BY <1>1, <1>7 DEF Ends
<1>8. ASSUME NEW r \in Reconciler, Fetch(r) PROVE Covered'
  <2>1. marker' = marker /\ inspected' = inspected
    BY <1>8 DEF Fetch
  <2>2. CASE Ends(r)
    BY <1>7, <2>1, <2>2 DEF Covered
  <2>3. CASE Goes(r, "closing", "saving") /\ UNCHANGED run
    <3>1. run' = [run EXCEPT ![r] = run[r]]
      BY <1>0, <2>3
    <3> QED BY <1>1, <2>1, <2>3, <3>1 DEF Goes, Covered
  <2> QED BY <1>8, <2>2, <2>3 DEF Fetch
<1>9. ASSUME NEW r \in Reconciler, Save(r) PROVE Covered'
  <2>1. /\ run' = run /\ run' = [run EXCEPT ![r] = run[r]]
        /\ marker' = marker /\ inspected' = inspected \cup {Claim(r)}
        /\ at[r] = "saving" /\ at' = [at EXCEPT ![r] = "auditing"]
    BY <1>0, <1>9 DEF Save, Goes
  <2>2. Claim(r)' = Claim(r)
    BY <2>1 DEF Claim
  <2> QED BY <1>1, <2>1, <2>2 DEF Covered
<1>10. ASSUME NEW r \in Reconciler, Audit(r) PROVE Covered'
  <2>1. at[r] = "auditing" /\ UNCHANGED <<marker, inspected>>
    BY <1>10 DEF Audit
  <2>2. CASE Ends(r)
    BY <1>7, <2>1, <2>2 DEF Covered
  <2>3. ASSUME NEW t \in Match(r), Goes(r, "auditing", "closing"),
               run' = [run EXCEPT ![r].todo = @ \ {Claim(r)}, ![r].snap[t] = "completed"]
        PROVE  Covered'
    <3> DEFINE next == [run[r] EXCEPT !.todo = @ \ {Claim(r)}, !.snap[t] = "completed"]
    <3>1. run' = [run EXCEPT ![r] = next]
      BY <2>3
    <3>2. next.since = run[r].since /\ next.upto = run[r].upto /\ next.todo = run[r].todo \ {Claim(r)}
      BY <1>0 DEF Run
    <3> HIDE DEF next
    <3>3. at' = [at EXCEPT ![r] = "closing"]
      BY <2>3 DEF Goes
    <3> QED BY <1>1, <2>1, <3>1, <3>2, <3>3 DEF Covered
  <2> QED BY <1>10, <2>2, <2>3 DEF Audit
<1>11. ASSUME NEW r \in Reconciler, Mark(r) PROVE Covered'
  <2>1. at[r] = "closing" /\ run[r].todo = {} /\ Ends(r) /\ inspected' = inspected
        /\ marker' \in {marker, run[r].upto}
    BY <1>11 DEF Mark, Marked
  <2>2. ASSUME NEW claim \in Claims, claim[1] <= run[r].upto PROVE claim \in inspected
    BY <1>0, <2>1, <2>2 DEF Covered
  <2> QED BY <1>7, <2>1, <2>2 DEF Covered
<1>12. ASSUME NEW r \in Reconciler, Crash(r) PROVE Covered'
  BY <1>7, <1>12 DEF Crash, Covered
<1>13. CASE MakeCommit
  BY <1>2, <1>13 DEF MakeCommit
<1>14. ASSUME NEW t \in Task, NEW op \in UserOps, Change(t, op) PROVE Covered'
  BY <1>2, <1>14 DEF Change
<1>15. CASE UNCHANGED vars
  BY <1>2, <1>15 DEF vars
<1> QED
  BY <1>3, <1>4, <1>5, <1>6, <1>8, <1>9, <1>10, <1>11, <1>12, <1>13, <1>14, <1>15 DEF Next, Goes_On

(***************************************************************************)
(* The marker passes over no claim, whichever runs die, fail or overlap.   *)
(***************************************************************************)
THEOREM MarkerPassesOverNothing == Spec => []NoClaimSkipped
<1>1. Init => Covered
  <2> SUFFICES ASSUME Init PROVE Covered
    OBVIOUS
  <2>1. \A claim \in Claims : ~ (claim[1] <= 0)
    BY ClaimFacts
  <2> QED BY <2>1 DEF Init, Covered
<1>2. Covered => NoClaimSkipped
  BY DEF Covered, NoClaimSkipped
<1> QED BY TypeInit, TypeStep, CoveredStep, <1>1, <1>2, PTL DEF Spec

-----------------------------------------------------------------------------
(***************************************************************************)
(* What is closed.  Of the tasks named by a claim that has closed one,     *)
(* none is open on the board, and none in the snapshot of a run that found *)
(* the claim closed; for what a snapshot holds to be closed is closed on   *)
(* the board.                                                              *)
(***************************************************************************)
Acting == {"closing", "saving", "auditing"}

NoneReopened ==
    /\ \A x \in closures : \A u \in Named(x[1]) : board[u] \notin Open
    /\ \A r \in Reconciler : at[r] \in Acting =>
          /\ \A u \in Task : run[r].snap[u] \notin Open => board[u] \notin Open
          /\ \A x \in run[r].seen : OpenNamed(r, x[1]) = {}
    /\ \A r \in Reconciler : at[r] \in {"saving", "auditing"} => Match(r) # {}
    /\ \A r \in Reconciler : at[r] = "auditing" => \A t \in Match(r) : board[t] \notin Open

LEMMA ClosedStep ==
    ASSUME "reopen" \notin UserOps, WellTyped, NoneReopened, [Next]_vars
    PROVE  NoneReopened'
<1>0. /\ run \in [Reconciler -> Run] /\ at \in [Reconciler -> Stages]
      /\ board \in [Task -> Status]
      /\ \A x \in closures : x[1] \in Claims
      /\ \A r \in Reconciler : run[r].todo \in SUBSET Claims /\ \A x \in run[r].seen : x[1] \in Claims
      /\ \A claim \in Claims : Named(claim) \subseteq Task
  <2>1. run \in [Reconciler -> Run] /\ at \in [Reconciler -> Stages] /\ board \in [Task -> Status]
    BY DEF WellTyped, TypeOK, Stages
  <2>2. \A x \in closures : x[1] \in Claims
    BY DEF WellTyped, TypeOK
  <2>3. \A r \in Reconciler : run[r].todo \in SUBSET Claims /\ \A x \in run[r].seen : x[1] \in Claims
    BY <2>1 DEF Run
  <2> QED BY <2>1, <2>2, <2>3, ClaimFacts
\* Only the run of r moves, and what is closed stays closed.
<1>1. ASSUME NEW r \in Reconciler, NEW to, NEW next,
             at' = [at EXCEPT ![r] = to], run' = [run EXCEPT ![r] = next],
             \A u \in Task : board[u] \notin Open => board'[u] \notin Open,
             \A x \in closures' : x[1] \in Claims /\ \A u \in Named(x[1]) : board'[u] \notin Open,
             to \in Acting =>
                /\ \A u \in Task : next.snap[u] \notin Open => board'[u] \notin Open
                /\ \A x \in next.seen : \A u \in Named(x[1]) : next.snap[u] \notin Open,
             to \in {"saving", "auditing"} => Match(r)' # {},
             to = "auditing" => \A t \in Match(r)' : board'[t] \notin Open
      PROVE  NoneReopened'
  <2>1. /\ at'[r] = to /\ run'[r] = next
        /\ \A y \in Reconciler : y # r =>
              at'[y] = at[y] /\ run'[y] = run[y] /\ Match(y)' = Match(y)
    BY <1>0, <1>1 DEF Match, OpenNamed, Claim
  <2>2. ASSUME NEW y \in Reconciler, at'[y] \in Acting
        PROVE  /\ \A u \in Task : run'[y].snap[u] \notin Open => board'[u] \notin Open
               /\ \A x \in run'[y].seen : OpenNamed(y, x[1])' = {}
    <3>1. CASE y = r
      BY <1>1, <2>1, <2>2, <3>1 DEF OpenNamed
    <3>2. CASE y # r
      BY <1>1, <2>1, <2>2, <3>2 DEF OpenNamed, NoneReopened
    <3> QED BY <3>1, <3>2
  <2>3. ASSUME NEW y \in Reconciler, at'[y] \in {"saving", "auditing"} PROVE Match(y)' # {}
    BY <1>1, <2>1, <2>3 DEF NoneReopened
  <2>4. ASSUME NEW y \in Reconciler, at'[y] = "auditing", NEW t \in Match(y)'
        PROVE  board'[t] \notin Open
    <3>1. CASE y = r
      BY <1>1, <2>1, <2>4, <3>1
    <3>2. CASE y # r
      <4>1. at[y] = "auditing" /\ t \in Match(y) /\ run[y].todo # {}
        BY <2>1, <2>4, <3>2 DEF WellTyped, TypeOK
      <4>2. t \in Task
        BY <1>0, <4>1, ClaimIsOne DEF Match, OpenNamed
      <4> QED BY <1>1, <4>1, <4>2 DEF NoneReopened
    <3> QED BY <3>1, <3>2
  <2> QED BY <1>1, <2>2, <2>3, <2>4 DEF NoneReopened
<1>2. ASSUME UNCHANGED <<closures, at, run>>,
             \A u \in Task : board[u] \notin Open => board'[u] \notin Open
      PROVE  NoneReopened'
  <2>1. \A r \in Reconciler : at[r] = "auditing" => Match(r) \subseteq Task
    BY <1>0, ClaimIsOne DEF Match, OpenNamed, WellTyped, TypeOK
  <2>2. \A r \in Reconciler : Match(r)' = Match(r) /\ \A claim \in Claims : OpenNamed(r, claim)' = OpenNamed(r, claim)
    BY <1>2 DEF Match, OpenNamed, Claim
  <2> QED BY <1>0, <1>2, <2>1, <2>2 DEF NoneReopened
<1>3. ASSUME NEW r \in Reconciler, NEW to, to \notin Acting, NEW next,
             at' = [at EXCEPT ![r] = to], run' = [run EXCEPT ![r] = next], UNCHANGED <<board, closures>>
      PROVE  NoneReopened'
  <2>1. \A x \in closures : x[1] \in Claims /\ \A u \in Named(x[1]) : board[u] \notin Open
    BY <1>0 DEF NoneReopened
  <2> QED BY <1>1, <1>3, <2>1 DEF Acting
<1>4. ASSUME NEW r \in Reconciler, Begin(r) \/ ReadLog(r) \/ Mark(r) \/ Crash(r) PROVE NoneReopened'
  <2>1. CASE Begin(r)
    BY <1>3, <2>1 DEF Begin, Goes, Acting
  <2>2. CASE ReadLog(r)
    BY <1>3, <2>2 DEF ReadLog, Goes, Acting
  <2>3. CASE Mark(r) \/ Crash(r)
    BY <1>3, <2>3 DEF Mark, Crash, Ends, Acting
  <2> QED BY <1>4, <2>1, <2>2, <2>3
<1>5. ASSUME NEW r \in Reconciler, Snapshot(r) PROVE NoneReopened'
  <2> DEFINE next == [run[r] EXCEPT !.snap = board, !.seen = Closed(run[r].todo)]
  <2>1. run' = [run EXCEPT ![r] = next]
    BY <1>5 DEF Snapshot
  <2>2. next.snap = board /\ next.seen \subseteq closures
    BY <1>0 DEF Run, Closed
  <2> HIDE DEF next
  <2>3. at' = [at EXCEPT ![r] = "closing"] /\ UNCHANGED <<board, closures>>
    BY <1>5 DEF Snapshot, Goes
  <2>4. \A x \in closures : x[1] \in Claims /\ \A u \in Named(x[1]) : board[u] \notin Open
    BY <1>0 DEF NoneReopened
  <2> QED BY <1>1, <2>1, <2>2, <2>3, <2>4
<1>6. ASSUME NEW r \in Reconciler, Skip(r) PROVE NoneReopened'
  <2> DEFINE next == [run[r] EXCEPT !.todo = @ \ {Claim(r)}]
  <2>1. run' = [run EXCEPT ![r] = next]
    BY <1>6 DEF Skip
  <2>2. next.snap = run[r].snap /\ next.seen = run[r].seen
    BY <1>0 DEF Run
  <2> HIDE DEF next
  <2>3. at[r] = "closing" /\ at' = [at EXCEPT ![r] = "closing"] /\ UNCHANGED <<board, closures>>
    BY <1>0, <1>6 DEF Skip
  <2>4. \A x \in closures : x[1] \in Claims /\ \A u \in Named(x[1]) : board[u] \notin Open
    BY <1>0 DEF NoneReopened
  <2>5. /\ \A u \in Task : next.snap[u] \notin Open => board[u] \notin Open
        /\ \A x \in next.seen : \A u \in Named(x[1]) : next.snap[u] \notin Open
    BY <2>2, <2>3 DEF NoneReopened, OpenNamed, Acting
  <2> QED BY <1>1, <2>1, <2>3, <2>4, <2>5
<1>7. ASSUME NEW r \in Reconciler, Fetch(r) PROVE NoneReopened'
  <2>1. CASE Ends(r)
    BY <1>3, <1>7, <2>1 DEF Fetch, Ends, Acting
  <2>2. CASE Goes(r, "closing", "saving") /\ UNCHANGED run
    <3>1. at[r] = "closing" /\ at' = [at EXCEPT ![r] = "saving"] /\ run' = run
          /\ run' = [run EXCEPT ![r] = run[r]] /\ UNCHANGED <<board, closures>> /\ Match(r) # {}
      BY <1>0, <1>7, <2>2 DEF Fetch, Goes
    <3>2. Match(r)' # {}
      BY <3>1 DEF Match, OpenNamed, Claim
    <3>3. \A x \in closures : x[1] \in Claims /\ \A u \in Named(x[1]) : board[u] \notin Open
      BY <1>0 DEF NoneReopened
    <3>4. /\ \A u \in Task : run[r].snap[u] \notin Open => board[u] \notin Open
          /\ \A x \in run[r].seen : \A u \in Named(x[1]) : run[r].snap[u] \notin Open
      BY <3>1 DEF NoneReopened, OpenNamed, Acting
    <3> QED BY <1>1, <3>1, <3>2, <3>3, <3>4
  <2> QED BY <1>7, <2>1, <2>2 DEF Fetch
<1>8. ASSUME NEW r \in Reconciler, Save(r) PROVE NoneReopened'
  <2>1. PICK t \in Match(r) :
          /\ board' = [board EXCEPT ![t] = "completed"]
          /\ closures' = closures \cup {<<Claim(r), t>>}
    BY <1>8 DEF Save
  <2>2. /\ at[r] = "saving" /\ at' = [at EXCEPT ![r] = "auditing"]
        /\ run' = run /\ run' = [run EXCEPT ![r] = run[r]]
    BY <1>0, <1>8 DEF Save, Goes
  <2>3. run[r].todo # {}
    BY <2>2 DEF WellTyped, TypeOK
  <2>4. Claim(r) \in Claims /\ Named(Claim(r)) \subseteq Task
    BY <1>0, <2>3, ClaimIsOne
  <2>5. OpenNamed(r, Claim(r)) = {t} /\ Match(r) = {t} /\ t \in Task /\ Match(r)' = Match(r)
    BY <2>1, <2>2, <2>4 DEF Match, OpenNamed, Claim
  <2>6. board'[t] \notin Open /\ \A u \in Task : u # t => board'[u] = board[u]
    BY <1>0, <2>1, <2>5 DEF Open
  <2>7. /\ \A u \in Task : run[r].snap[u] \notin Open => board[u] \notin Open
        /\ \A x \in run[r].seen : \A u \in Named(x[1]) : run[r].snap[u] \notin Open
    BY <2>2 DEF NoneReopened, OpenNamed, Acting
  <2>8. \A u \in Named(Claim(r)) : board'[u] \notin Open
    BY <2>4, <2>5, <2>6, <2>7 DEF OpenNamed
  <2>9. ASSUME NEW x \in closures' PROVE x[1] \in Claims /\ \A u \in Named(x[1]) : board'[u] \notin Open
    <3>1. CASE x \in closures
      BY <1>0, <2>6, <3>1 DEF NoneReopened
    <3>2. CASE x = <<Claim(r), t>>
      BY <2>4, <2>8, <3>2
    <3> QED BY <2>1, <3>1, <3>2
  <2>10. \A u \in Task : board[u] \notin Open => board'[u] \notin Open
    BY <2>6
  <2>11. \A u \in Task : run[r].snap[u] \notin Open => board'[u] \notin Open
    BY <2>7, <2>10
  <2>12. Match(r)' # {} /\ \A u \in Match(r)' : board'[u] \notin Open
    BY <2>5, <2>6
  <2> QED BY <1>1, <2>2, <2>7, <2>9, <2>10, <2>11, <2>12
<1>9. ASSUME NEW r \in Reconciler, Audit(r) PROVE NoneReopened'
  <2>1. at[r] = "auditing" /\ UNCHANGED <<board, closures>>
    BY <1>9 DEF Audit
  <2>2. CASE Ends(r)
    BY <1>3, <2>1, <2>2 DEF Ends, Acting
  <2>3. ASSUME NEW t \in Match(r), Goes(r, "auditing", "closing"),
               run' = [run EXCEPT ![r].todo = @ \ {Claim(r)}, ![r].snap[t] = "completed"]
        PROVE  NoneReopened'
    <3> DEFINE next == [run[r] EXCEPT !.todo = @ \ {Claim(r)}, !.snap[t] = "completed"]
    <3>1. run' = [run EXCEPT ![r] = next]
      BY <2>3
    <3>2. /\ next.seen = run[r].seen
          /\ \A u \in Task : next.snap[u] = IF u = t THEN "completed" ELSE run[r].snap[u]
      BY <1>0 DEF Run
    <3> HIDE DEF next
    <3>3. at' = [at EXCEPT ![r] = "closing"]
      BY <2>3 DEF Goes
    <3>4. board[t] \notin Open
      BY <2>1, <2>3 DEF NoneReopened
    <3>5. /\ \A u \in Task : run[r].snap[u] \notin Open => board[u] \notin Open
          /\ \A x \in run[r].seen : \A u \in Named(x[1]) : run[r].snap[u] \notin Open
      BY <2>1 DEF NoneReopened, OpenNamed, Acting
    <3>6. \A x \in next.seen : \A u \in Named(x[1]) : next.snap[u] \notin Open
      BY <1>0, <3>2, <3>5 DEF Open
    <3>7. \A u \in Task : next.snap[u] \notin Open => board[u] \notin Open
      BY <3>2, <3>4, <3>5
    <3>8. \A x \in closures : x[1] \in Claims /\ \A u \in Named(x[1]) : board[u] \notin Open
      BY <1>0 DEF NoneReopened
    <3> QED BY <1>1, <2>1, <3>1, <3>3, <3>6, <3>7, <3>8
  <2> QED BY <1>9, <2>2, <2>3 DEF Audit
<1>10. ASSUME NEW t \in Task, NEW op \in UserOps, Change(t, op) PROVE NoneReopened'
  <2>1. op \in {"start", "fail", "complete", "delete"}
    BY ReconcilerAssumption
  <2>2. board' = [board EXCEPT ![t] = ResultOf[op]] /\ Becomes(op, board[t]) /\ UNCHANGED <<closures, at, run>>
    BY <1>10 DEF Change
  <2>3. ResultOf[op] \in Open => board[t] \in Open
    <3>1. CASE op = "start" \/ op = "fail"
      BY <2>2, <3>1 DEF Becomes, Open
    <3>2. CASE op = "complete" \/ op = "delete"
      BY <3>2 DEF ResultOf, Open
    <3> QED BY <2>1, <3>1, <3>2
  <2>4. \A u \in Task : board[u] \notin Open => board'[u] \notin Open
    BY <1>0, <2>2, <2>3
  <2> QED BY <1>2, <2>2, <2>4
<1>11. CASE MakeCommit \/ UNCHANGED vars
  BY <1>2, <1>11 DEF MakeCommit, vars
<1> QED
  BY <1>4, <1>5, <1>6, <1>7, <1>8, <1>9, <1>10, <1>11 DEF Next, Goes_On

(***************************************************************************)
(* Unless users reopen tasks, no run closes anything by a claim that had   *)
(* closed a task when the run read the board.                              *)
(***************************************************************************)
THEOREM RunningAgainIsSafe ==
    ASSUME "reopen" \notin UserOps PROVE Spec => []RerunsCloseNothing
<1>1. Init => NoneReopened
  BY DEF Init, NoneReopened, Acting
<1>2. WellTyped /\ NoneReopened /\ [Next]_vars => NoneReopened'
  BY ClosedStep
<1>3. NoneReopened => RerunsCloseNothing
  BY DEF NoneReopened, RerunsCloseNothing, Match, Acting
<1> QED BY TypeInit, TypeStep, <1>1, <1>2, <1>3, PTL DEF Spec

-----------------------------------------------------------------------------
(***************************************************************************)
(* BegunPerTimeout for any requests, limits and clock.  The bound is kept  *)
(* by create(), which counts the records; so every session begun within    *)
(* the timeout must still have its record (RecordsStay), and that rests on *)
(* the confusion of ids: the sessions that are touched and removed are     *)
(* never those the records are kept under (IdsApart).                      *)
(***************************************************************************)
IdsApart ==
    /\ records \subseteq made /\ sessions \cap made = {}
    /\ \A r \in Request : handler[r] = "handling" => call[r].id \in 1..issued \ made

RecordsStay == lifecycle \in {"open", "closing"} => Gateway!Begun \subseteq records

GatewayInv == Gateway!TypeOK /\ IdsApart /\ RecordsStay /\ Gateway!BegunPerTimeout

GatewayBounds == Ids \in Nat /\ MaxSessions \in Nat /\ Timeout \in Nat /\ Horizon \in Nat

\* The members of the gateway's sets are counted as those of any.
LEMMA SameCount == \A S : Gateway!Cardinality(S) = Cardinality(S)
BY DEF Gateway!Cardinality, Cardinality

\* Whatever number of connections becomes idle, there are some.
LEMMA KeptIsNatural ==
    ASSUME NEW idle \in Nat, NEW had, Gateway!KeptOrEnded(idle, had)
    PROVE  kept' \in Nat
BY DEF Gateway!KeptOrEnded

LEMMA GatewayStarts == ASSUME GatewayBounds, Gateway!Init PROVE GatewayInv
<1>1. Gateway!TypeOK
  BY DEF GatewayBounds, Gateway!Init, Gateway!TypeOK, Gateway!Id, Gateway!NoId, Gateway!Method
<1>2. Gateway!Begun = {}
  BY DEF Gateway!Init, Gateway!Begun
<1> QED BY <1>1, <1>2, SameCount, FS_EmptySet DEF GatewayBounds, Gateway!Init, GatewayInv, IdsApart, RecordsStay,
      Gateway!BegunPerTimeout

\* Begun within the timeout is not expired.
LEMMA BegunIsUnexpired == ASSUME GatewayBounds, Gateway!TypeOK PROVE Gateway!Begun = {i \in made : ~ Gateway!Expired(i)}
<1>1. now \in Nat /\ Timeout \in Nat /\ \A i \in made : lastActive[i] \in Nat
  BY DEF GatewayBounds, Gateway!TypeOK, Gateway!Id
<1> QED BY <1>1 DEF Gateway!Begun, Gateway!Expired

\* The records are those of ids made so far, and finitely many.
LEMMA BegunIsFinite ==
    ASSUME GatewayBounds, Gateway!TypeOK
    PROVE  /\ IsFiniteSet(made) /\ IsFiniteSet(Gateway!Begun) /\ Cardinality(Gateway!Begun) \in Nat
           /\ \A S \in SUBSET made : IsFiniteSet(S) /\ Cardinality(S) \in Nat
<1>1. issued \in Nat /\ IsFiniteSet(1..issued)
  BY FS_Interval DEF GatewayBounds, Gateway!TypeOK
<1>2. IsFiniteSet(made)
  BY <1>1, FS_Subset DEF Gateway!TypeOK
<1>3. \A S \in SUBSET made : IsFiniteSet(S) /\ Cardinality(S) \in Nat
  BY <1>2, FS_Subset, FS_CardinalityType
<1> QED BY <1>2, <1>3 DEF Gateway!Begun

\* What begins no session and loses no record of one keeps the bound: with the same
\* records' times, or later, no more sessions have begun within the timeout.
LEMMA NoneBegun ==
    ASSUME GatewayBounds, GatewayInv, Gateway!TypeOK', made' = made, now <= now',
           \A i \in made : lastActive'[i] = lastActive[i],
           lifecycle' \in {"open", "closing"} =>
              lifecycle \in {"open", "closing"} /\ \A i \in records : i \in records' \/ Gateway!Expired(i)
    PROVE  RecordsStay' /\ Gateway!BegunPerTimeout'
<1>1. now \in Nat /\ now' \in Nat /\ Timeout \in Nat /\ \A i \in made : lastActive[i] \in Nat
  BY DEF GatewayInv, Gateway!TypeOK, GatewayBounds, Gateway!Id
<1>2. Gateway!Begun' \subseteq Gateway!Begun
  BY <1>1 DEF Gateway!Begun
<1>3. RecordsStay'
  BY <1>2, BegunIsUnexpired DEF GatewayInv, RecordsStay
<1>4. Cardinality(Gateway!Begun') <= Cardinality(Gateway!Begun) /\ Cardinality(Gateway!Begun') \in Nat
  <2>1. IsFiniteSet(Gateway!Begun)
    BY BegunIsFinite DEF GatewayInv
  <2> QED BY <1>2, <2>1, FS_Subset, FS_CardinalityType
<1>5. Gateway!BegunPerTimeout'
  <2>1. Cardinality(Gateway!Begun) \in Nat
    BY BegunIsFinite DEF GatewayInv
  <2> QED BY <1>4, <2>1, SameCount DEF GatewayInv, Gateway!BegunPerTimeout, GatewayBounds
<1> QED BY <1>3, <1>5

LEMMA ArriveInv ==
    ASSUME GatewayBounds, GatewayInv, NEW r \in Request,
           NEW m \in Gateway!Method, NEW i \in 1..issued \cup {Gateway!NoId}, NEW v \in BOOLEAN, Gateway!Arrive(r, m, i, v)
    PROVE  GatewayInv'
<1>1. /\ call' = [call EXCEPT ![r] = [method |-> m, id |-> i, valid |-> v]]
      /\ \/ handler' = [handler EXCEPT ![r] = "done"] /\ UNCHANGED lastActive
         \/ handler' = [handler EXCEPT ![r] = "body"] /\ UNCHANGED lastActive
         \/ /\ handler' = [handler EXCEPT ![r] = "handling"] /\ i \in sessions
            /\ UNCHANGED lastActive \/ Gateway!Touch(i)
      /\ \/ UNCHANGED answer
         \/ \E status \in {400, 403, 404, 429} : answer' = [answer EXCEPT ![r] = status]
  BY DEF Gateway!Arrive
<1>2. UNCHANGED <<now, sessions, records, issued, lifecycle, made>>
  BY DEF Gateway!Arrive
<1>3. issued \in Nat /\ 1..issued \subseteq Gateway!Id
  BY DEF GatewayInv, Gateway!TypeOK, GatewayBounds, Gateway!Id
<1>4. lastActive' = lastActive
  BY <1>1 DEF Gateway!Touch, GatewayInv, Gateway!TypeOK, IdsApart
<1>5. Gateway!TypeOK'
  <2>1. handler' \in [Request -> {"unsent", "body", "connecting", "handling", "streaming", "done"}]
    <3>1. PICK x \in {"done", "body", "handling"} : handler' = [handler EXCEPT ![r] = x]
      BY <1>1
    <3>2. handler \in [Request -> {"unsent", "body", "connecting", "handling", "streaming", "done"}]
      BY DEF GatewayInv, Gateway!TypeOK
    <3> QED BY <3>1, <3>2
  <2>2. answer' \in [Request -> {0, 200, 400, 403, 404, 406, 409, 429, 503}]
    BY <1>1 DEF GatewayInv, Gateway!TypeOK
  <2>3. i \in Gateway!Id \cup {Gateway!NoId}
    BY <1>3
  <2>4. call' \in [Request -> [method : Gateway!Method, id : Gateway!Id \cup {Gateway!NoId}, valid : BOOLEAN]]
    BY <1>1, <2>3 DEF GatewayInv, Gateway!TypeOK
  <2>5. kept' \in Nat
    <3>1. kept \in Nat /\ (lifecycle = "draining" => kept > 0)
      BY DEF Gateway!Arrive, Gateway!Reachable, GatewayInv, Gateway!TypeOK
    <3>2. Gateway!Idle \in Nat
      BY <3>1 DEF Gateway!Idle
    <3>3. kept' = Gateway!Idle \/ Gateway!KeptOrEnded(Gateway!Idle, 1)
      BY DEF Gateway!Arrive
    <3> QED BY <3>2, <3>3, KeptIsNatural
  <2> QED BY <1>2, <1>4, <2>1, <2>2, <2>4, <2>5 DEF GatewayInv, Gateway!TypeOK
<1>6. IdsApart'
  BY <1>1, <1>2, <1>3 DEF GatewayInv, IdsApart, Gateway!TypeOK
<1>7. RecordsStay' /\ Gateway!BegunPerTimeout'
  BY <1>2, <1>4, <1>5, NoneBegun DEF GatewayInv, Gateway!TypeOK
<1> QED BY <1>5, <1>6, <1>7 DEF GatewayInv

\* Where a handler leaves the tables, the clock and the gateway alone.
LEMMA QuietInv ==
    ASSUME GatewayBounds, GatewayInv, NEW r \in Request,
           \/ Gateway!RejectBody(r) \/ Gateway!PostToSession(r) \/ Gateway!NotInitialize(r)
           \/ Gateway!Handled(r) \/ Gateway!HandledGet(r) \/ Gateway!Leave(r)
    PROVE  GatewayInv'
<1>1. UNCHANGED <<now, sessions, records, issued, lifecycle, made, call>>
  BY DEF Gateway!RejectBody, Gateway!PostToSession, Gateway!NotInitialize, Gateway!Handled,
      Gateway!HandledGet, Gateway!Leave, Gateway!Answered, Gateway!Waits
<1>2. lastActive' = lastActive
  <2>1. \A i \in sessions : Gateway!Touch(i) => lastActive' = lastActive
    BY DEF Gateway!Touch, GatewayInv, Gateway!TypeOK, IdsApart
  <2> QED BY <2>1 DEF Gateway!RejectBody, Gateway!PostToSession, Gateway!NotInitialize, Gateway!Handled,
      Gateway!HandledGet, Gateway!Leave
<1>3. /\ \/ \E x \in {"streaming", "done"} : handler' = [handler EXCEPT ![r] = x]
         \/ handler' = [handler EXCEPT ![r] = "handling"] /\ call[r].id \in sessions
      /\ answer' = answer \/ \E status \in {200, 400, 404, 406, 409} : answer' = [answer EXCEPT ![r] = status]
      /\ kept' = kept \/ Gateway!KeptOrEnded(kept, 1)
  BY DEF Gateway!RejectBody, Gateway!PostToSession, Gateway!NotInitialize, Gateway!Handled,
      Gateway!HandledGet, Gateway!Leave, Gateway!Answered, Gateway!Waits
<1>4. Gateway!TypeOK'
  <2>1. handler' \in [Request -> {"unsent", "body", "connecting", "handling", "streaming", "done"}]
    <3>1. PICK x \in {"done", "streaming", "handling"} : handler' = [handler EXCEPT ![r] = x]
      BY <1>3
    <3> QED BY <3>1 DEF GatewayInv, Gateway!TypeOK
  <2>2. answer' \in [Request -> {0, 200, 400, 403, 404, 406, 409, 429, 503}]
    BY <1>3 DEF GatewayInv, Gateway!TypeOK
  <2>3. kept' \in Nat
    BY <1>3, KeptIsNatural DEF GatewayInv, Gateway!TypeOK
  <2> QED BY <1>1, <1>2, <2>1, <2>2, <2>3 DEF GatewayInv, Gateway!TypeOK
<1>5. IdsApart'
  <2>1. ASSUME NEW q \in Request, handler'[q] = "handling" PROVE call'[q].id \in 1..issued \ made
    <3>1. handler[q] = "handling" \/ call[q].id \in sessions
      BY <1>3, <2>1 DEF GatewayInv, Gateway!TypeOK
    <3> QED BY <1>1, <3>1 DEF GatewayInv, IdsApart, Gateway!TypeOK
  <2> QED BY <1>1, <2>1 DEF GatewayInv, IdsApart
<1>6. RecordsStay' /\ Gateway!BegunPerTimeout'
  BY <1>1, <1>2, <1>4, NoneBegun DEF GatewayInv, Gateway!TypeOK
<1> QED BY <1>4, <1>5, <1>6 DEF GatewayInv

\* create(): the one that begins a session does so while there is room among the
\* records, which are those of all begun within the timeout.
LEMMA PostNewInv == ASSUME GatewayBounds, GatewayInv, NEW r \in Request, Gateway!PostNew(r) PROVE GatewayInv'
<1>1. CASE Cardinality(Gateway!Unexpired) >= MaxSessions
  <2>1. /\ UNCHANGED <<now, sessions, issued, lastActive, lifecycle, made, call>>
        /\ records' = Gateway!Unexpired
        /\ handler' = [handler EXCEPT ![r] = "done"] /\ answer' = [answer EXCEPT ![r] = 503]
        /\ kept' \in Nat
    BY <1>1, SameCount, KeptIsNatural DEF Gateway!PostNew, Gateway!Answered, GatewayInv, Gateway!TypeOK
  <2>2. Gateway!TypeOK'
    <3>1. handler' \in [Request -> {"unsent", "body", "connecting", "handling", "streaming", "done"}]
      BY <2>1 DEF GatewayInv, Gateway!TypeOK
    <3>2. answer' \in [Request -> {0, 200, 400, 403, 404, 406, 409, 429, 503}]
      BY <2>1 DEF GatewayInv, Gateway!TypeOK
    <3>3. records' \subseteq 1..issued
      BY <2>1 DEF GatewayInv, Gateway!TypeOK, Gateway!Unexpired
    <3> QED BY <2>1, <3>1, <3>2, <3>3 DEF GatewayInv, Gateway!TypeOK
  <2>3. IdsApart'
    <3>1. \A q \in Request : handler'[q] = "handling" => handler[q] = "handling"
      BY <2>1 DEF GatewayInv, Gateway!TypeOK
    <3> QED BY <2>1, <3>1 DEF GatewayInv, IdsApart, Gateway!Unexpired
  <2>4. RecordsStay' /\ Gateway!BegunPerTimeout'
    BY <2>1, <2>2, NoneBegun DEF GatewayInv, Gateway!TypeOK, Gateway!Unexpired
  <2> QED BY <2>2, <2>3, <2>4 DEF GatewayInv
<1>2. CASE ~ (Cardinality(Gateway!Unexpired) >= MaxSessions)
  <2> DEFINE new == issued + 1
  <2>1. /\ UNCHANGED <<now, sessions, lifecycle, call, answer, kept>>
        /\ handler' = [handler EXCEPT ![r] = "connecting"]
        /\ issued < Ids /\ issued' = new /\ made' = made \cup {new}
        /\ records' = Gateway!Unexpired \cup {new}
        /\ lastActive' = [lastActive EXCEPT ![new] = now]
    BY <1>2, SameCount DEF Gateway!PostNew, Gateway!Waits, Gateway!NewId
  <2>2. issued \in Nat /\ now \in Nat /\ new \in Gateway!Id /\ new \notin 1..issued /\ 1..issued \subseteq Gateway!Id
    BY <2>1 DEF GatewayInv, Gateway!TypeOK, GatewayBounds, Gateway!Id
  <2>3. Gateway!TypeOK'
    <3>1. lastActive' \in [Gateway!Id -> 0..now']
      BY <2>1, <2>2 DEF GatewayInv, Gateway!TypeOK
    <3>2. \A S : S \subseteq 1..issued => S \subseteq 1..issued' /\ S \cup {new} \subseteq 1..issued'
      BY <2>1, <2>2
    <3>3. issued' \in 0..Ids
      BY <2>1, <2>2 DEF GatewayBounds
    <3>4. sessions' \subseteq 1..issued' /\ made' \subseteq 1..issued' /\ records' \subseteq 1..issued'
      <4>1. Gateway!Unexpired \subseteq 1..issued /\ sessions \subseteq 1..issued /\ made \subseteq 1..issued
        BY DEF GatewayInv, Gateway!TypeOK, Gateway!Unexpired
      <4> QED BY <2>1, <3>2, <4>1
    <3>5. handler' \in [Request -> {"unsent", "body", "connecting", "handling", "streaming", "done"}]
      BY <2>1 DEF GatewayInv, Gateway!TypeOK
    <3> QED BY <2>1, <3>1, <3>3, <3>4, <3>5 DEF GatewayInv, Gateway!TypeOK
  <2>4. IdsApart'
    <3>1. \A q \in Request : handler'[q] = "handling" => handler[q] = "handling"
      BY <2>1 DEF GatewayInv, Gateway!TypeOK
    <3>2. 1..issued \ made \subseteq 1..issued' \ made'
      BY <2>1, <2>2
    <3>3. \A q \in Request : handler'[q] = "handling" => call'[q].id \in 1..issued' \ made'
      BY <2>1, <3>1, <3>2 DEF GatewayInv, IdsApart
    <3>4. records' \subseteq made'
      BY <2>1 DEF GatewayInv, IdsApart, Gateway!Unexpired
    <3>5. new \notin sessions
      BY <2>2 DEF GatewayInv, Gateway!TypeOK
    <3>6. sessions' \cap made' = {}
      BY <2>1, <3>5 DEF GatewayInv, IdsApart
    <3> QED BY <3>3, <3>4, <3>6 DEF IdsApart
  <2>5. Gateway!Begun' \subseteq Gateway!Begun \cup {new}
    <3>1. \A i \in made : i # new /\ i \in Gateway!Id /\ lastActive'[i] = lastActive[i]
      BY <2>1, <2>2 DEF GatewayInv, Gateway!TypeOK
    <3> QED BY <2>1, <3>1 DEF Gateway!Begun
  <2>6. lifecycle \in {"open", "closing"} => Gateway!Begun \subseteq Gateway!Unexpired
    BY BegunIsUnexpired DEF GatewayInv, RecordsStay, Gateway!Unexpired
  <2>7. RecordsStay'
    BY <2>1, <2>5, <2>6 DEF RecordsStay
  <2>8. Gateway!BegunPerTimeout'
    <3>1. SUFFICES ASSUME lifecycle \in {"open", "closing"} PROVE Cardinality(Gateway!Begun') <= MaxSessions
      BY <2>1, SameCount DEF Gateway!BegunPerTimeout
    <3>2. IsFiniteSet(Gateway!Unexpired) /\ Cardinality(Gateway!Unexpired) \in Nat
      BY BegunIsFinite DEF GatewayInv, IdsApart, Gateway!Unexpired
    <3>3. /\ IsFiniteSet(Gateway!Unexpired \cup {new})
          /\ Cardinality(Gateway!Unexpired \cup {new}) <= Cardinality(Gateway!Unexpired) + 1
          /\ Cardinality(Gateway!Unexpired \cup {new}) \in Nat
      <4>1. /\ IsFiniteSet(Gateway!Unexpired \cup {new})
            /\ \/ Cardinality(Gateway!Unexpired \cup {new}) = Cardinality(Gateway!Unexpired)
               \/ Cardinality(Gateway!Unexpired \cup {new}) = Cardinality(Gateway!Unexpired) + 1
        BY <3>2, FS_AddElement
      <4> QED BY <3>2, <4>1
    <3>4. Gateway!Begun' \subseteq Gateway!Unexpired \cup {new}
      BY <2>5, <2>6, <3>1
    <3>5. Cardinality(Gateway!Begun') <= Cardinality(Gateway!Unexpired \cup {new}) /\ Cardinality(Gateway!Begun') \in Nat
      BY <3>3, <3>4, FS_Subset, FS_CardinalityType
    <3>6. Cardinality(Gateway!Unexpired) + 1 <= MaxSessions
      BY <1>2, <3>2 DEF GatewayBounds
    <3> QED BY <3>2, <3>3, <3>5, <3>6 DEF GatewayBounds
  <2> QED BY <2>3, <2>4, <2>7, <2>8 DEF GatewayInv
<1> QED BY <1>1, <1>2

LEMMA InitializeInv == ASSUME GatewayBounds, GatewayInv, NEW r \in Request, Gateway!Initialize(r) PROVE GatewayInv'
<1>1. /\ UNCHANGED <<now, records, lastActive, lifecycle, made, call>>
      /\ issued < Ids /\ issued' = issued + 1 /\ sessions' = sessions \cup {issued + 1}
      /\ handler' = [handler EXCEPT ![r] = "done"] /\ answer' = [answer EXCEPT ![r] = 200]
      /\ kept' \in Nat
  BY KeptIsNatural DEF Gateway!Initialize, Gateway!NewId, Gateway!Answered, GatewayInv, Gateway!TypeOK
<1>2. issued \in Nat /\ issued + 1 \notin 1..issued /\ issued' \in 0..Ids
  BY <1>1 DEF GatewayInv, Gateway!TypeOK, GatewayBounds
<1>3. \A S : S \subseteq 1..issued => S \subseteq 1..issued' /\ S \cup {issued + 1} \subseteq 1..issued'
  BY <1>1, <1>2
<1>4. Gateway!TypeOK'
  BY <1>1, <1>2, <1>3 DEF GatewayInv, Gateway!TypeOK
<1>5. IdsApart'
  BY <1>1, <1>2 DEF GatewayInv, IdsApart, Gateway!TypeOK
<1>6. RecordsStay' /\ Gateway!BegunPerTimeout'
  BY <1>1, <1>4, NoneBegun DEF GatewayInv, Gateway!TypeOK
<1> QED BY <1>4, <1>5, <1>6 DEF GatewayInv

\* Ending a session takes its own id out of both tables, which no record has.
LEMMA EndsInv ==
    ASSUME GatewayBounds, GatewayInv, Gateway!CloseSession \/ \E r \in Request : Gateway!Deleted(r)
    PROVE  GatewayInv'
<1>1. \E i \in 1..issued \ made : \E ended : Gateway!TransportCloses(i, ended) /\ UNCHANGED lifecycle
  <2>1. CASE Gateway!CloseSession
    <3>1. sessions \subseteq 1..issued \ made
      BY DEF GatewayInv, IdsApart, Gateway!TypeOK
    <3> QED BY <2>1, <3>1 DEF Gateway!CloseSession
  <2>2. CASE \E r \in Request : Gateway!Deleted(r)
    <3>1. PICK r \in Request : Gateway!Deleted(r)
      BY <2>2
    <3>2. call[r].id \in 1..issued \ made
      BY <3>1 DEF Gateway!Deleted, GatewayInv, IdsApart
    <3> QED BY <3>1, <3>2 DEF Gateway!Deleted
  <2> QED BY <2>1, <2>2
<1>2. PICK i \in 1..issued \ made :
          /\ sessions' = sessions \ {i} /\ records' = records \ {i}
          /\ UNCHANGED <<now, lastActive, issued, lifecycle, made, call>>
          /\ \E ended : /\ handler' = [r \in Request |-> IF r \in ended THEN "done" ELSE handler[r]]
                        /\ answer' = [r \in Request |-> IF r \in ended THEN 200 ELSE answer[r]]
                        /\ Gateway!KeptOrEnded(kept, Cardinality(ended))
  BY <1>1, SameCount DEF Gateway!TransportCloses
<1>3. Gateway!TypeOK'
  <2>1. PICK ended : /\ handler' = [r \in Request |-> IF r \in ended THEN "done" ELSE handler[r]]
                     /\ answer' = [r \in Request |-> IF r \in ended THEN 200 ELSE answer[r]]
                     /\ Gateway!KeptOrEnded(kept, Cardinality(ended))
    BY <1>2
  <2>2. kept' \in Nat
    BY <2>1, KeptIsNatural DEF GatewayInv, Gateway!TypeOK
  <2> QED BY <1>2, <2>1, <2>2 DEF GatewayInv, Gateway!TypeOK
<1>4. IdsApart'
  BY <1>2 DEF GatewayInv, IdsApart, Gateway!TypeOK
<1>5. records' = records
  BY <1>2 DEF GatewayInv, IdsApart
<1>6. RecordsStay' /\ Gateway!BegunPerTimeout'
  BY <1>2, <1>3, <1>5, NoneBegun DEF GatewayInv, Gateway!TypeOK
<1> QED BY <1>3, <1>4, <1>6 DEF GatewayInv

\* Timers, and the steps of close() that end no session.  Once nothing listens any
\* more, no record is kept and nothing is promised.
LEMMA TimersInv ==
    ASSUME GatewayBounds, GatewayInv,
           \/ Gateway!Sweep \/ Gateway!Tick
           \/ Gateway!Close \/ Gateway!StopListening \/ Gateway!KeepAliveEnds \/ Gateway!Closed
    PROVE  GatewayInv'
<1>1. /\ UNCHANGED <<sessions, lastActive, issued, made, handler, call, answer>>
      /\ now' \in 0..Horizon /\ now <= now' /\ now \in Nat
      /\ records' \in {records, Gateway!Unexpired, {}}
      /\ lifecycle' \in {"open", "closing", "draining", "closed"} /\ kept' \in Nat
  BY DEF Gateway!Sweep, Gateway!Tick, Gateway!Close, Gateway!StopListening, Gateway!KeepAliveEnds, Gateway!Closed,
      Gateway!requestVars, GatewayInv, Gateway!TypeOK, GatewayBounds
<1>2. lifecycle' \in {"open", "closing"} =>
          lifecycle \in {"open", "closing"} /\ \A i \in records : i \in records' \/ Gateway!Expired(i)
  BY DEF Gateway!Sweep, Gateway!Tick, Gateway!Close, Gateway!StopListening, Gateway!KeepAliveEnds, Gateway!Closed,
      Gateway!Unexpired, GatewayInv, Gateway!TypeOK
<1>3. Gateway!TypeOK'
  <2>1. 0..now \subseteq 0..now'
    BY <1>1 DEF GatewayBounds
  <2> QED BY <1>1, <2>1 DEF GatewayInv, Gateway!TypeOK, Gateway!Unexpired
<1>4. IdsApart'
  BY <1>1 DEF GatewayInv, IdsApart, Gateway!Unexpired
<1>5. RecordsStay' /\ Gateway!BegunPerTimeout'
  BY <1>1, <1>2, <1>3, NoneBegun
<1> QED BY <1>3, <1>4, <1>5 DEF GatewayInv

LEMMA GatewayStep == ASSUME GatewayBounds, GatewayInv, [Gateway!Next]_Gateway!vars PROVE GatewayInv'
<1>1. CASE UNCHANGED Gateway!vars
  <2>1. Gateway!TypeOK' /\ IdsApart'
    BY <1>1 DEF Gateway!vars, Gateway!requestVars, GatewayInv, Gateway!TypeOK, IdsApart
  <2>2. RecordsStay' /\ Gateway!BegunPerTimeout'
    BY <1>1, <2>1, NoneBegun DEF Gateway!vars, GatewayInv, Gateway!TypeOK
  <2> QED BY <2>1, <2>2 DEF GatewayInv
<1>2. CASE Gateway!Next
  BY <1>2, ArriveInv, QuietInv, PostNewInv, InitializeInv, EndsInv, TimersInv DEF Gateway!Next,
      Gateway!Handler
<1> QED BY <1>1, <1>2

(***************************************************************************)
(* However requests, sweeps and the clock come, at most MaxSessions        *)
(* sessions are begun in any period as long as the idle timeout, until     *)
(* the server stops listening (create() and evictExpired()).               *)
(***************************************************************************)
THEOREM SessionsBegunAreBounded == ASSUME GatewayBounds PROVE Gateway!Spec => []Gateway!BegunPerTimeout
<1>1. Gateway!Init => GatewayInv
  BY GatewayStarts
<1>2. GatewayInv /\ [Gateway!Next]_Gateway!vars => GatewayInv'
  BY GatewayStep
<1>3. GatewayInv => Gateway!BegunPerTimeout
  BY DEF GatewayInv
<1> QED BY <1>1, <1>2, <1>3, PTL DEF Gateway!Spec

(***************************************************************************)
(* The gateway of the run keeps its bound too, whichever component moves   *)
(* (create() and evictExpired() of session-manager.ts).                    *)
(***************************************************************************)
THEOREM GatewayIsBounded == ASSUME GatewayBounds PROVE FairParts => []BegunPerTimeout
<1>1. PartInit => Gateway!Init
  BY DEF PartInit
<1>2. [PartNext]_<<part, vars, gatewayVars>> => [Gateway!Next]_Gateway!vars
  BY DEF PartNext, gatewayVars, Gateway!vars, Gateway!requestVars
<1>3. Gateway!BegunPerTimeout => BegunPerTimeout
  BY DEF BegunPerTimeout
<1> QED BY <1>1, <1>2, <1>3, SessionsBegunAreBounded, PTL DEF FairParts, Gateway!Spec
===============================================================================
