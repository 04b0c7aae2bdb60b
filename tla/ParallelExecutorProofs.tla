--------------------------- MODULE ParallelExecutorProofs ---------------------------
(***************************************************************************)
(* Theorems about the scheduler of packages/parallel, for every plan,      *)
(* every assignment of tags and every setting of the caps.                 *)
(*                                                                         *)
(* That the loop never waits in vain needs to know, during a scan, that    *)
(* what was passed over is still without room (Scanning), and, at its end, *)
(* that something is ready unless everything has settled: the least        *)
(* operation that has not settled has all its dependencies settled, and    *)
(* none of them failed, because failures spread (Order).                   *)
(***************************************************************************)
EXTENDS ParallelExecutor, FiniteSetTheorems, TLAPS

\* An operation that has begun has its dependencies' values, and a failure reaches
\* everything downstream of it at once.
Order ==
    /\ running \cap values = {} /\ running \cap failed = {} /\ values \cap failed = {}
    /\ errored \subseteq failed
    /\ \A o \in running \cup values \cup errored : DepSet(o) \subseteq values
    /\ \A o \in Op : DepSet(o) \cap failed # {} => o \in failed

\* The places of a dependency list that still wait for their value.
Waits(c) == {i \in 1..Len(Deps[c]) : Deps[c][i] \notin values}
PendingAgree == \A c \in Op : pending[c] = Cardinality(Waits(c))

\* A scan that has dispatched nothing leaves everything it has looked at blocked.
Scanning ==
    /\ unscanned \subseteq ready /\ running \subseteq inFlight
    /\ loop = "scan" /\ ~ dispatched => \A o \in ready \ unscanned : ~ CanDispatch(o)

IInv == SchedulerInStep /\ Order /\ PendingAgree /\ Scanning /\ NoLostWakeup

-----------------------------------------------------------------------------
(***************************************************************************)
(* The plan and the caps.                                                  *)
(***************************************************************************)

LEMMA PlanFacts ==
    ASSUME PlanAssumption, NEW o \in Op
    PROVE  /\ o \in Nat
           /\ Deps[o] \in Seq(Op) /\ Len(Deps[o]) \in Nat
           /\ DepSet(o) \subseteq Op /\ \A d \in DepSet(o) : d < o
<1>1. o \in Nat /\ Deps[o] \in Seq(Op) /\ Len(Deps[o]) \in Nat
  BY DEF PlanAssumption, Op
<1>2. \A i \in 1..Len(Deps[o]) : Deps[o][i] \in Op
  BY <1>1
<1> QED BY <1>1, <1>2 DEF DepSet, PlanAssumption

\* Every set of operations is finite.
LEMMA OpsAreFinite ==
    ASSUME PlanAssumption, NEW S \in SUBSET Op
    PROVE  IsFiniteSet(S) /\ Cardinality(S) \in Nat
<1>1. IsFiniteSet(Op)
  BY FS_Interval DEF Op, PlanAssumption
<1> QED BY <1>1, FS_Subset, FS_CardinalityType

\* A finite set of naturals that is not empty has a least member: the well-founded
\* order is that of its initial segments.
LEMMA LeastMember ==
    ASSUME NEW U \in SUBSET Nat, IsFiniteSet(U), U # {}
    PROVE  \E m \in U : \A n \in U : m <= n
<1> DEFINE Upto(m) == {n \in U : n <= m}
           T == {Upto(m) : m \in U}
<1>1. FiniteSubsetsOf(U) = SUBSET U
  BY FS_FiniteSubsetsOfFinite
<1>2. T \subseteq SUBSET U /\ T # {}
  <2>1. \A m \in U : Upto(m) \subseteq U
    OBVIOUS
  <2>2. PICK u \in U : TRUE
    OBVIOUS
  <2> HIDE DEF Upto
  <2> QED BY <2>1, <2>2
<1>3. PICK X \in T : \A Y \in T : ~ (<<Y, X>> \in StrictSubsetOrdering(U))
  <2> HIDE DEF T
  <2>1. IsWellFoundedOn(StrictSubsetOrdering(U), SUBSET U)
    BY <1>1, FS_StrictSubsetOrderingWellFounded
  <2> QED BY <2>1, <1>2, WFMin
<1>4. PICK m \in U : X = Upto(m)
  BY <1>3
<1>5. ASSUME NEW n \in U, n < m PROVE FALSE
  <2>1. m \in Nat /\ n \in Nat /\ U \subseteq Nat
    OBVIOUS
  <2>2. m \in Upto(m) /\ m \notin Upto(n) /\ Upto(m) \subseteq U
    BY <1>5, <2>1
  <2>3. \A x \in Upto(n) : x \in Upto(m)
    BY <1>5, <2>1
  <2>4. Upto(n) \in T
    OBVIOUS
  <2> HIDE DEF Upto, T
  <2> QED BY <2>2, <2>3, <2>4, <1>3, <1>4 DEF StrictSubsetOrdering
<1> QED BY <1>5

\* The caps leave room for one operation at least.
LEMMA CapFacts ==
    ASSUME OptionAssumption
    PROVE  /\ GlobalCap \in Nat /\ GlobalCap > 0
           /\ \A t \in Tag : TagCap[t] = Unset \/ (TagCap[t] \in Nat /\ TagCap[t] > 0)
<1>1. GlobalCap \in Nat /\ GlobalCap > 0
  BY DEF OptionAssumption, GlobalCap
<1>2. RpmCap(SonnetRpm) = Unset \/ (RpmCap(SonnetRpm) \in Nat /\ RpmCap(SonnetRpm) > 0)
  BY DEF OptionAssumption, RpmCap
<1>3. ASSUME NEW t \in Tag
      PROVE  TagCap[t] = Unset \/ (TagCap[t] \in Nat /\ TagCap[t] > 0)
  BY <1>2 DEF OptionAssumption, TagCap
<1> QED BY <1>1, <1>3

-----------------------------------------------------------------------------
(***************************************************************************)
(* The walk of cascadeSkip(): it is closed, and the least closed set.      *)
(***************************************************************************)
LEMMA SkippedFacts ==
    ASSUME NEW o \in Op
    PROVE  /\ Skipped(o) \subseteq Op
           /\ \A c \in Op \ failed :
                 o \in DepSet(c) \/ DepSet(c) \cap Skipped(o) # {} => c \in Skipped(o)
           /\ \A S \in SUBSET Op :
                 (\A c \in Op \ failed : o \in DepSet(c) \/ DepSet(c) \cap S # {} => c \in S)
                    => Skipped(o) \subseteq S
BY DEF Skipped

\* What a failure skips has not failed before, and lacks a value it depends on: it has
\* not begun and is not in the ready list.
LEMMA SkippedWait ==
    ASSUME PlanAssumption, Order, NEW o \in Op, o \notin values
    PROVE  \A x \in Skipped(o) : x \in Op \ failed /\ ~ (DepSet(x) \subseteq values)
<1> DEFINE S == {c \in Op \ failed : ~ (DepSet(c) \subseteq values)}
<1>1. ASSUME NEW c \in Op \ failed, o \in DepSet(c) \/ DepSet(c) \cap S # {}
      PROVE  c \in S
  BY <1>1 DEF Order
<1>2. S \in SUBSET Op
  OBVIOUS
<1> HIDE DEF S
<1>3. Skipped(o) \subseteq S
  BY <1>1, <1>2, SkippedFacts
<1> QED BY <1>3 DEF S

\* With nothing running and nothing ready, everything has settled.
LEMMA SomethingIsReady ==
    ASSUME PlanAssumption, TypeOK, ReadyMeansReady, OneEndEntryEach, Order,
           running = {}, ready = {}
    PROVE  Unsettled = {}
<1> SUFFICES ASSUME Unsettled # {} PROVE FALSE
  OBVIOUS
<1>1. Unsettled \subseteq Nat /\ IsFiniteSet(Unsettled)
  BY OpsAreFinite, PlanFacts DEF Unsettled
<1>2. PICK m \in Unsettled : \A n \in Unsettled : m <= n
  BY <1>1, LeastMember
<1>3. m \in Op /\ m \notin values /\ m \notin failed
  BY <1>2 DEF Unsettled
<1>4. \A d \in DepSet(m) : d \in Op /\ d \in Nat /\ d < m
  BY <1>3, PlanFacts
<1>5. \A d \in DepSet(m) : d \in values \cup failed
  BY <1>1, <1>2, <1>4 DEF Unsettled
<1>6. DepSet(m) \subseteq values
  BY <1>3, <1>5 DEF Order
<1>7. starts[m] = 0
  BY <1>3 DEF OneEndEntryEach, Order, TypeOK
<1> QED BY <1>3, <1>6, <1>7 DEF ReadyMeansReady

-----------------------------------------------------------------------------
(***************************************************************************)
(* What recording a failure does, whichever of the two paths leads to it.  *)
(***************************************************************************)
LEMMA RecordFailureFacts ==
    ASSUME PlanAssumption, IInv, NEW o \in Op, o \in Unsettled, o \notin ready',
           DepSet(o) \subseteq values,
           RecordFailure(o), UNCHANGED values, running' = running \ {o}
    PROVE  /\ errored' \subseteq Op /\ failed' \subseteq Op /\ ends' \in [Op -> Nat]
           /\ pendingCount' \in Nat /\ pendingCount' = Cardinality(Unsettled')
           /\ \A x \in Op : ends'[x] = IF x \in Unsettled' THEN 0 ELSE 1
           /\ Order'
           /\ \A x \in ready \ {o} : x \notin failed'
           /\ Unsettled' \subseteq Unsettled
           /\ \A x \in Op : DepSet(x) \subseteq values => (x \in failed' <=> x = o \/ x \in failed)
<1> DEFINE gone == {o} \cup Skipped(o)
<1> USE DEF IInv, SchedulerInStep
<1>1. o \notin values /\ o \notin failed
  BY DEF Unsettled
<1>2. \A x \in Skipped(o) : x \in Op \ failed /\ ~ (DepSet(x) \subseteq values)
  BY <1>1, SkippedWait
<1>3. \A x \in Skipped(o) : x \notin running /\ x \notin values /\ x \notin errored /\ x \notin ready
  BY <1>2 DEF Order, ReadyMeansReady
<1>4. gone \subseteq Unsettled
  BY <1>2, <1>3 DEF Unsettled
<1>5. /\ errored' = errored \cup {o} /\ failed' = failed \cup gone
      /\ ends' = [x \in Op |-> IF x \in gone THEN ends[x] + 1 ELSE ends[x]]
      /\ pendingCount' = pendingCount - Cardinality(gone)
  BY DEF RecordFailure
<1>6. \A c \in Op \ failed :
         o \in DepSet(c) \/ DepSet(c) \cap Skipped(o) # {} => c \in Skipped(o)
  BY SkippedFacts
<1> HIDE DEF gone
<1>7. Unsettled' = Unsettled \ gone
  BY <1>5 DEF Unsettled
<1>8. errored' \subseteq Op /\ failed' \subseteq Op /\ ends' \in [Op -> Nat]
  BY <1>4, <1>5 DEF TypeOK, Unsettled
<1>9. pendingCount' \in Nat /\ pendingCount' = Cardinality(Unsettled')
  <2>1. Unsettled \cap gone = gone /\ Unsettled \in SUBSET Op /\ Unsettled' \in SUBSET Op
    BY <1>4, <1>7 DEF Unsettled
  <2>2. IsFiniteSet(Unsettled) /\ Cardinality(Unsettled') \in Nat
    BY <2>1, OpsAreFinite
  <2>3. Cardinality(Unsettled') = Cardinality(Unsettled) - Cardinality(gone)
    BY <2>1, <2>2, <1>7, FS_Difference
  <2> QED BY <2>2, <2>3, <1>5 DEF CountersAgree
<1>10. \A x \in Op : ends'[x] = IF x \in Unsettled' THEN 0 ELSE 1
  BY <1>4, <1>5, <1>7 DEF OneEndEntryEach
<1>11. Order'
  <2>1. running' \cap values' = {} /\ values' \cap failed' = {} /\ running' \cap failed' = {}
    BY <1>1, <1>3, <1>5 DEF Order, gone
  <2>2. errored' \subseteq failed'
    BY <1>5 DEF Order, gone
  <2>3. \A x \in running' \cup values' \cup errored' : DepSet(x) \subseteq values'
    BY <1>5 DEF Order
  <2>4. ASSUME NEW x \in Op, DepSet(x) \cap failed' # {} PROVE x \in failed'
    <3>1. CASE x \in failed
      BY <3>1, <1>5
    <3>2. CASE DepSet(x) \cap failed # {}
      BY <3>2, <1>5 DEF Order
    <3>3. CASE x \notin failed /\ (o \in DepSet(x) \/ DepSet(x) \cap Skipped(o) # {})
      BY <3>3, <1>5, <1>6 DEF gone
    <3> QED BY <2>4, <3>1, <3>2, <3>3, <1>5 DEF gone
  <2> QED BY <2>1, <2>2, <2>3, <2>4 DEF Order
<1>12. \A x \in ready \ {o} : x \notin failed'
  BY <1>3, <1>5 DEF gone, ReadyMeansReady, TypeOK
<1>13. \A x \in Op : DepSet(x) \subseteq values => (x \in failed' <=> x = o \/ x \in failed)
  BY <1>2, <1>5 DEF gone
<1> QED BY <1>7, <1>8, <1>9, <1>10, <1>11, <1>12, <1>13

\* The counters of an operation that leaves the flight.
LEMMA LeaveFlightCounts ==
    ASSUME PlanAssumption, OptionAssumption, IInv, NEW o \in running, LeaveFlight(o)
    PROVE  /\ running' \subseteq Op /\ globalInFlight' \in Nat /\ tagInFlight' \in [Tag -> Nat]
           /\ globalInFlight' = Cardinality(running') /\ globalInFlight' <= GlobalCap
           /\ \A t \in Tag :
                 /\ tagInFlight'[t] = Cardinality({x \in running' : TagOf[x] = t})
                 /\ TagCap[t] = Unset \/ tagInFlight'[t] <= TagCap[t]
<1> USE DEF IInv, SchedulerInStep
<1>1. running \in SUBSET Op /\ running' = running \ {o} /\ running' \in SUBSET Op
  BY DEF LeaveFlight, TypeOK
<1>2. /\ globalInFlight' = Cardinality(running') /\ globalInFlight' \in Nat
      /\ globalInFlight' = globalInFlight - 1 /\ globalInFlight \in Nat
  <2>1. IsFiniteSet(running) /\ Cardinality(running') \in Nat
    BY <1>1, OpsAreFinite
  <2>2. Cardinality(running \ {o}) = Cardinality(running) - 1
    BY <2>1, FS_RemoveElement
  <2>3. globalInFlight' = globalInFlight - 1 /\ globalInFlight \in Nat
    BY DEF LeaveFlight, TypeOK
  <2>4. globalInFlight = Cardinality(running)
    BY DEF CountersAgree
  <2> QED BY <1>1, <2>1, <2>2, <2>3, <2>4
<1>3. globalInFlight' <= GlobalCap
  BY <1>2, CapFacts DEF CountersAgree
<1>4. ASSUME NEW t \in Tag
      PROVE  /\ tagInFlight'[t] \in Nat
             /\ tagInFlight'[t] = Cardinality({x \in running' : TagOf[x] = t})
             /\ TagCap[t] = Unset \/ tagInFlight'[t] <= TagCap[t]
  <2> DEFINE S == {x \in running : TagOf[x] = t}
  <2>1. S \in SUBSET Op /\ IsFiniteSet(S) /\ Cardinality(S) \in Nat
    BY <1>1, OpsAreFinite
  <2>2. tagInFlight[t] = Cardinality(S) /\ (TagCap[t] = Unset \/ tagInFlight[t] <= TagCap[t])
    BY DEF CountersAgree
  <2>3. CASE TagOf[o] = t
    <3>1. {x \in running' : TagOf[x] = t} = S \ {o} /\ o \in S
      BY <2>3, <1>1
    <3>2. tagInFlight'[t] = tagInFlight[t] - 1
      BY <2>3 DEF LeaveFlight
    <3> HIDE DEF S
    <3>3. Cardinality(S \ {o}) = Cardinality(S) - 1 /\ Cardinality(S \ {o}) \in Nat
      BY <2>1, <3>1, FS_RemoveElement, FS_CardinalityType
    <3>4. tagInFlight'[t] = Cardinality(S \ {o}) /\ tagInFlight'[t] <= tagInFlight[t]
      BY <2>1, <2>2, <3>2, <3>3
    <3>5. tagInFlight'[t] \in Nat /\ tagInFlight[t] \in Nat
      BY <2>1, <2>2, <3>3, <3>4
    <3>6. TagCap[t] = Unset \/ tagInFlight'[t] <= TagCap[t]
      BY <2>2, <3>4, <3>5, CapFacts
    <3> QED BY <3>1, <3>4, <3>5, <3>6
  <2>4. CASE TagOf[o] # t
    <3>1. {x \in running' : TagOf[x] = t} = S
      BY <2>4, <1>1
    <3>2. tagInFlight'[t] = tagInFlight[t]
      BY <2>4 DEF LeaveFlight, TypeOK
    <3> QED BY <2>1, <2>2, <3>1, <3>2
  <2> QED BY <2>3, <2>4
<1>5. tagInFlight' \in [Tag -> Nat]
  BY <1>4 DEF LeaveFlight
<1> QED BY <1>1, <1>2, <1>3, <1>4, <1>5

\* The counters of an operation that enters it.
LEMMA EnterFlightCounts ==
    ASSUME PlanAssumption, OptionAssumption, IInv, NEW o \in Op, o \notin running,
           CanDispatch(o), running' = running \cup {o}, globalInFlight' = globalInFlight + 1,
           tagInFlight' = [t \in Tag |-> IF t = TagOf[o] THEN tagInFlight[t] + 1 ELSE tagInFlight[t]]
    PROVE  /\ running' \subseteq Op /\ globalInFlight' \in Nat /\ tagInFlight' \in [Tag -> Nat]
           /\ globalInFlight' = Cardinality(running') /\ globalInFlight' <= GlobalCap
           /\ \A t \in Tag :
                 /\ tagInFlight'[t] = Cardinality({x \in running' : TagOf[x] = t})
                 /\ TagCap[t] = Unset \/ tagInFlight'[t] <= TagCap[t]
<1> USE DEF IInv, SchedulerInStep
<1>1. running \in SUBSET Op /\ running' \in SUBSET Op
  BY DEF TypeOK
<1>2. globalInFlight' = Cardinality(running') /\ globalInFlight' \in Nat /\ globalInFlight \in Nat
  <2>1. IsFiniteSet(running) /\ Cardinality(running) \in Nat
    BY <1>1, OpsAreFinite
  <2>2. Cardinality(running \cup {o}) = Cardinality(running) + 1
    BY <2>1, FS_AddElement
  <2>3. globalInFlight = Cardinality(running)
    BY DEF CountersAgree
  <2> QED BY <2>1, <2>2, <2>3
<1>3. globalInFlight' <= GlobalCap
  BY <1>2, CapFacts DEF CanDispatch
<1>4. ASSUME NEW t \in Tag
      PROVE  /\ tagInFlight'[t] \in Nat
             /\ tagInFlight'[t] = Cardinality({x \in running' : TagOf[x] = t})
             /\ TagCap[t] = Unset \/ tagInFlight'[t] <= TagCap[t]
  <2> DEFINE S == {x \in running : TagOf[x] = t}
  <2>1. S \in SUBSET Op /\ IsFiniteSet(S) /\ Cardinality(S) \in Nat /\ o \notin S
    BY <1>1, OpsAreFinite
  <2>2. tagInFlight[t] = Cardinality(S) /\ (TagCap[t] = Unset \/ tagInFlight[t] <= TagCap[t])
    BY DEF CountersAgree
  <2>3. CASE TagOf[o] = t
    <3>1. {x \in running' : TagOf[x] = t} = S \cup {o}
      BY <2>3, <1>1
    <3>2. tagInFlight'[t] = tagInFlight[t] + 1
      BY <2>3
    <3>3. TagCap[t] = Unset \/ tagInFlight[t] < TagCap[t]
      BY <2>3 DEF CanDispatch
    <3> HIDE DEF S
    <3>4. Cardinality(S \cup {o}) = Cardinality(S) + 1
      BY <2>1, FS_AddElement
    <3>5. tagInFlight'[t] = Cardinality(S \cup {o}) /\ tagInFlight'[t] \in Nat
      BY <2>1, <2>2, <3>2, <3>4
    <3>6. TagCap[t] = Unset \/ tagInFlight'[t] <= TagCap[t]
      BY <2>1, <2>2, <3>2, <3>3, CapFacts
    <3> QED BY <3>1, <3>5, <3>6
  <2>4. CASE TagOf[o] # t
    <3>1. {x \in running' : TagOf[x] = t} = S
      BY <2>4, <1>1
    <3>2. tagInFlight'[t] = tagInFlight[t]
      BY <2>4
    <3> QED BY <2>1, <2>2, <3>1, <3>2
  <2> QED BY <2>3, <2>4
<1>5. tagInFlight' \in [Tag -> Nat]
  BY <1>4
<1> QED BY <1>1, <1>2, <1>3, <1>4, <1>5

-----------------------------------------------------------------------------
(***************************************************************************)
(* The actions, one lemma each.                                            *)
(***************************************************************************)
LEMMA InitInv == ASSUME PlanAssumption, OptionAssumption PROVE Init => IInv
<1> SUFFICES ASSUME Init PROVE IInv
  OBVIOUS
<1> USE DEF Init
<1>1. N \in Nat /\ IsFiniteSet(Op) /\ Cardinality(Op) = N
  BY FS_Interval DEF Op, PlanAssumption
<1>2. \A o \in Op : Len(Deps[o]) \in Nat
  BY PlanFacts
<1>3. TypeOK
  BY <1>1, <1>2 DEF TypeOK
<1>4. \A o \in Op : Len(Deps[o]) = 0 <=> DepSet(o) = {}
  <2>1. ASSUME NEW o \in Op, Len(Deps[o]) # 0 PROVE Deps[o][1] \in DepSet(o)
    BY <2>1, <1>2 DEF DepSet
  <2>2. ASSUME NEW o \in Op, Len(Deps[o]) = 0 PROVE DepSet(o) = {}
    BY <2>2 DEF DepSet
  <2> QED BY <2>1, <2>2
<1>5. ReadyMeansReady
  BY <1>4 DEF ReadyMeansReady
<1>6. Unsettled = Op
  BY DEF Unsettled
<1>7. CountersAgree
  <2>1. \A t \in Tag : {o \in running : TagOf[o] = t} = {}
    OBVIOUS
  <2>2. Cardinality({}) = 0
    BY FS_EmptySet
  <2>3. \A t \in Tag : TagCap[t] = Unset \/ tagInFlight[t] <= TagCap[t]
    BY CapFacts
  <2>4. globalInFlight <= GlobalCap
    BY CapFacts
  <2> QED BY <1>1, <1>6, <2>1, <2>2, <2>3, <2>4 DEF CountersAgree
<1>8. OneEndEntryEach
  BY <1>6 DEF OneEndEntryEach
<1>9. Order
  BY DEF Order
<1>10. PendingAgree
  <2>1. ASSUME NEW c \in Op PROVE pending[c] = Cardinality(Waits(c))
    <3>1. Waits(c) = 1..Len(Deps[c])
      BY DEF Waits
    <3>2. Cardinality(1..Len(Deps[c])) = Len(Deps[c])
      <4> DEFINE n == Len(Deps[c])
      <4>1. n \in Nat
        BY <1>2
      <4> HIDE DEF n
      <4>2. Cardinality(1..n) = IF 1 > n THEN 0 ELSE n - 1 + 1
        BY <4>1, FS_Interval
      <4> QED BY <4>1, <4>2 DEF n
    <3> QED BY <3>1, <3>2
  <2> QED BY <2>1 DEF PendingAgree
<1>11. Scanning
  BY DEF Scanning
<1>12. NoLostWakeup
  BY <1>1, <1>6 DEF NoLostWakeup, Op
<1> QED
  BY <1>3, <1>5, <1>7, <1>8, <1>9, <1>10, <1>11, <1>12 DEF IInv, SchedulerInStep

\* What the scan picks has not begun, has all its values and has not failed.
LEMMA PickFacts ==
    ASSUME IInv, NEW o \in Op, Pick(o)
    PROVE  /\ o \in ready /\ o \in Unsettled /\ o \notin running /\ o \notin errored
           /\ starts[o] = 0 /\ DepSet(o) \subseteq values
           /\ loop = "scan" /\ dispatched'
<1>1. o \in ready /\ starts[o] = 0 /\ DepSet(o) \subseteq values /\ o \notin failed
  BY DEF IInv, SchedulerInStep, ReadyMeansReady, Scanning, Pick
<1>2. o \notin running /\ o \notin values /\ o \notin errored
  BY <1>1 DEF IInv, SchedulerInStep, OneEndEntryEach
<1> QED BY <1>1, <1>2 DEF Pick, Unsettled

LEMMA DispatchInv ==
    ASSUME PlanAssumption, OptionAssumption, IInv, NEW o \in Op, Dispatch(o) PROVE IInv'
<1> USE DEF IInv, SchedulerInStep
<1>1. /\ o \in ready /\ o \in Unsettled /\ o \notin running /\ o \notin errored
      /\ starts[o] = 0 /\ DepSet(o) \subseteq values /\ loop = "scan" /\ dispatched'
  BY PickFacts DEF Dispatch
<1>2. /\ running' \subseteq Op /\ globalInFlight' \in Nat /\ tagInFlight' \in [Tag -> Nat]
      /\ globalInFlight' = Cardinality(running') /\ globalInFlight' <= GlobalCap
      /\ \A t \in Tag :
            /\ tagInFlight'[t] = Cardinality({x \in running' : TagOf[x] = t})
            /\ TagCap[t] = Unset \/ tagInFlight'[t] <= TagCap[t]
  BY <1>1, EnterFlightCounts DEF Dispatch, Pick
<1>3. /\ ready' = ready \ {o} /\ unscanned' = unscanned \ {o} /\ inFlight' = inFlight \cup {o}
      /\ starts' = [starts EXCEPT ![o] = @ + 1] /\ running' = running \cup {o}
      /\ UNCHANGED <<pending, values, errored, failed, ends, pendingCount, loop>>
  BY DEF Dispatch, Pick
<1>4. dispatched' = TRUE
  BY DEF Dispatch, Pick
<1>5. TypeOK'
  BY <1>2, <1>3, <1>4 DEF TypeOK
<1>6. \A x \in Op : starts'[x] = IF x = o THEN 1 ELSE starts[x]
  BY <1>1, <1>3 DEF TypeOK
<1>7. ReadyMeansReady'
  BY <1>3, <1>6 DEF ReadyMeansReady
<1>8. Unsettled' = Unsettled
  BY <1>3 DEF Unsettled
<1>9. CountersAgree'
  BY <1>2, <1>3, <1>8 DEF CountersAgree
<1>10. OneEndEntryEach'
  BY <1>1, <1>3, <1>6, <1>8 DEF OneEndEntryEach
<1>11. Order'
  BY <1>1, <1>3 DEF Order, Unsettled
<1>12. PendingAgree'
  BY <1>3 DEF PendingAgree, Waits
<1>13. Scanning'
  BY <1>1, <1>3 DEF Scanning
<1>14. NoLostWakeup'
  BY <1>1, <1>3 DEF NoLostWakeup
<1> QED BY <1>5, <1>7, <1>9, <1>10, <1>11, <1>12, <1>13, <1>14

LEMMA DispatchThrowsInv ==
    ASSUME PlanAssumption, OptionAssumption, IInv, NEW o \in Op, DispatchThrows(o) PROVE IInv'
<1> USE DEF IInv, SchedulerInStep
<1>1. /\ o \in ready /\ o \in Unsettled /\ o \notin running /\ o \notin errored
      /\ starts[o] = 0 /\ DepSet(o) \subseteq values /\ loop = "scan" /\ dispatched'
  BY PickFacts DEF DispatchThrows
<1>2. /\ ready' = ready \ {o} /\ unscanned' = unscanned \ {o} /\ inFlight' = inFlight \cup {o}
      /\ starts' = [starts EXCEPT ![o] = @ + 1] /\ errored' = errored \cup {o}
      /\ UNCHANGED <<pending, values, running, globalInFlight, tagInFlight, loop>>
  BY DEF DispatchThrows, Pick, RecordFailure
<1>3. dispatched' = TRUE
  BY DEF DispatchThrows, Pick
<1>4. /\ errored' \subseteq Op /\ failed' \subseteq Op /\ ends' \in [Op -> Nat]
      /\ pendingCount' \in Nat /\ pendingCount' = Cardinality(Unsettled')
      /\ \A x \in Op : ends'[x] = IF x \in Unsettled' THEN 0 ELSE 1
      /\ Order'
      /\ \A x \in Op : DepSet(x) \subseteq values => (x \in failed' <=> x = o \/ x \in failed)
  <2>1. RecordFailure(o) /\ UNCHANGED values /\ running' = running \ {o} /\ o \notin ready'
    BY <1>1, <1>2 DEF DispatchThrows
  <2> QED BY <1>1, <2>1, RecordFailureFacts
<1>5. TypeOK'
  <2>1. starts' \in [Op -> Nat] /\ dispatched' \in BOOLEAN
    BY <1>2, <1>3 DEF TypeOK
  <2> QED BY <1>2, <1>4, <2>1 DEF TypeOK
<1>6. \A x \in Op : starts'[x] = IF x = o THEN 1 ELSE starts[x]
  BY <1>1, <1>2 DEF TypeOK
<1>7. ReadyMeansReady'
  BY <1>2, <1>4, <1>6 DEF ReadyMeansReady
<1>8. CountersAgree'
  BY <1>2, <1>4 DEF CountersAgree
<1>9. OneEndEntryEach'
  BY <1>1, <1>2, <1>4, <1>6 DEF OneEndEntryEach
<1>10. PendingAgree'
  BY <1>2 DEF PendingAgree, Waits
<1>11. Scanning'
  BY <1>1, <1>2 DEF Scanning
<1>12. NoLostWakeup'
  BY <1>1, <1>2 DEF NoLostWakeup
<1> QED BY <1>4, <1>5, <1>7, <1>8, <1>9, <1>10, <1>11, <1>12

\* Nothing in the ready list has failed, so passing over changes only the scan.
LEMMA PassOverInv ==
    ASSUME IInv, NEW o \in Op, PassOver(o) PROVE IInv'
<1> USE DEF IInv, SchedulerInStep
<1>1. /\ ready' = ready /\ unscanned' = unscanned \ {o} /\ loop = "scan"
      /\ UNCHANGED <<pending, values, errored, failed, running, starts, ends, globalInFlight,
                     tagInFlight, pendingCount, inFlight, loop, dispatched>>
  BY DEF PassOver, ReadyMeansReady, countVars
<1>2. TypeOK'
  BY <1>1 DEF TypeOK
<1>3. ReadyMeansReady' /\ OneEndEntryEach' /\ CountersAgree'
  BY <1>1 DEF ReadyMeansReady, OneEndEntryEach, CountersAgree, Unsettled
<1>4. Order' /\ PendingAgree' /\ NoLostWakeup'
  BY <1>1 DEF Order, PendingAgree, Waits, NoLostWakeup
<1>5. Scanning'
  <2>1. o \in ready => ~ CanDispatch(o)
    BY DEF PassOver, ReadyMeansReady
  <2> QED BY <1>1, <2>1 DEF Scanning, CanDispatch
<1> QED BY <1>2, <1>3, <1>4, <1>5

\* A scan that dispatched nothing and found nothing running has nothing left to do:
\* the loop waits only while something runs, and gives up only when all has settled.
LEMMA EndScanInv ==
    ASSUME PlanAssumption, OptionAssumption, IInv, EndScan PROVE IInv'
<1> USE DEF IInv, SchedulerInStep
<1>1. /\ loop = "scan" /\ unscanned = {} /\ unscanned' = ready /\ dispatched' = FALSE
      /\ UNCHANGED <<pending, ready, values, errored, failed, running, starts, ends,
                     globalInFlight, tagInFlight, pendingCount, inFlight>>
  BY DEF EndScan, opVars, countVars
<1>2. /\ pendingCount = 0 => loop' = "draining"
      /\ pendingCount > 0 /\ dispatched => loop' = "scan"
      /\ pendingCount > 0 /\ ~ dispatched /\ inFlight = {} /\ ready = {} => loop' = "draining"
      /\ pendingCount > 0 /\ ~ dispatched /\ ~ (inFlight = {} /\ ready = {}) => loop' = "waiting"
  BY DEF EndScan, TypeOK
<1>3. pendingCount \in Nat /\ dispatched \in BOOLEAN /\ (pendingCount = 0 <=> Unsettled = {})
  <2>1. Unsettled \in SUBSET Op /\ pendingCount = Cardinality(Unsettled) /\ pendingCount \in Nat
    BY DEF Unsettled, CountersAgree, TypeOK
  <2> QED BY <2>1, OpsAreFinite, FS_EmptySet DEF TypeOK
<1>4. ~ dispatched /\ running = {} => Unsettled = {}
  <2> SUFFICES ASSUME ~ dispatched, running = {} PROVE Unsettled = {}
    OBVIOUS
  <2>1. globalInFlight = 0 /\ \A t \in Tag : tagInFlight[t] = 0
    <3>1. \A t \in Tag : {o \in running : TagOf[o] = t} = {}
      OBVIOUS
    <3> QED BY <3>1, FS_EmptySet DEF CountersAgree
  <2>2. \A o \in Op : CanDispatch(o)
    BY <2>1, CapFacts DEF CanDispatch
  <2>3. ready = {}
    BY <1>1, <2>2 DEF Scanning, TypeOK
  <2> QED BY <2>3, SomethingIsReady
<1>5. NoLostWakeup'
  <2>1. loop' = "waiting" => running' # {}
    BY <1>1, <1>2, <1>3, <1>4
  <2>2. loop' \in {"draining", "returned"} => Unsettled' = {}
    <3>1. Unsettled' = Unsettled
      BY <1>1 DEF Unsettled
    <3>2. inFlight = {} => running = {}
      BY DEF Scanning
    <3> QED BY <1>2, <1>3, <1>4, <3>1, <3>2
  <2> QED BY <2>1, <2>2 DEF NoLostWakeup
<1>6. TypeOK'
  <2>1. loop' \in {"scan", "waiting", "draining"}
    BY <1>2, <1>3
  <2> QED BY <1>1, <2>1 DEF TypeOK
<1>7. ReadyMeansReady' /\ OneEndEntryEach' /\ CountersAgree'
  BY <1>1 DEF ReadyMeansReady, OneEndEntryEach, CountersAgree, Unsettled
<1>8. Order' /\ PendingAgree' /\ Scanning'
  BY <1>1 DEF Order, PendingAgree, Waits, Scanning, CanDispatch
<1> QED BY <1>5, <1>6, <1>7, <1>8

LEMMA ResumeInv ==
    ASSUME PlanAssumption, IInv, Resume PROVE IInv'
<1> USE DEF IInv, SchedulerInStep
<1>1. /\ unscanned' = ready /\ loop' = (IF pendingCount > 0 THEN "scan" ELSE "draining")
      /\ UNCHANGED <<pending, ready, values, errored, failed, running, starts, ends,
                     globalInFlight, tagInFlight, pendingCount, inFlight, dispatched>>
  BY DEF Resume, opVars, countVars
<1>2. pendingCount > 0 \/ Unsettled = {}
  <2>1. Unsettled \in SUBSET Op /\ pendingCount = Cardinality(Unsettled) /\ pendingCount \in Nat
    BY DEF Unsettled, CountersAgree, TypeOK
  <2> QED BY <2>1, OpsAreFinite, FS_EmptySet
<1>3. TypeOK'
  BY <1>1 DEF TypeOK
<1>4. ReadyMeansReady' /\ OneEndEntryEach' /\ CountersAgree'
  BY <1>1 DEF ReadyMeansReady, OneEndEntryEach, CountersAgree, Unsettled
<1>5. Order' /\ PendingAgree' /\ Scanning'
  BY <1>1 DEF Order, PendingAgree, Waits, Scanning, CanDispatch
<1>6. NoLostWakeup'
  BY <1>1, <1>2 DEF NoLostWakeup, Unsettled
<1> QED BY <1>3, <1>4, <1>5, <1>6

LEMMA ReturnInv == ASSUME IInv, Return PROVE IInv'
<1> USE DEF IInv, SchedulerInStep, Return, opVars, countVars
<1>1. TypeOK'
  BY DEF TypeOK
<1>2. ReadyMeansReady' /\ OneEndEntryEach' /\ CountersAgree'
  BY DEF ReadyMeansReady, OneEndEntryEach, CountersAgree, Unsettled
<1>3. Order' /\ PendingAgree' /\ Scanning'
  BY DEF Order, PendingAgree, Waits, Scanning, CanDispatch
<1>4. NoLostWakeup'
  BY DEF NoLostWakeup, Unsettled
<1> QED BY <1>1, <1>2, <1>3, <1>4

LEMMA ReapInv == ASSUME IInv, NEW o \in Op, Reap(o) PROVE IInv'
<1> USE DEF IInv, SchedulerInStep, Reap, opVars, countVars, loopVars
<1>1. TypeOK'
  BY DEF TypeOK
<1>2. ReadyMeansReady' /\ OneEndEntryEach' /\ CountersAgree'
  BY DEF ReadyMeansReady, OneEndEntryEach, CountersAgree, Unsettled
<1>3. Order' /\ PendingAgree' /\ Scanning'
  BY DEF Order, PendingAgree, Waits, Scanning, CanDispatch
<1>4. NoLostWakeup'
  BY DEF NoLostWakeup, Unsettled
<1> QED BY <1>1, <1>2, <1>3, <1>4

\* Whoever runs has not settled; the loop, therefore, has neither left nor returned,
\* and the end of the operation wakes it if it waits.
LEMMA WakeFacts ==
    ASSUME IInv, NEW o \in running, Wake
    PROVE  /\ o \in Op /\ o \in Unsettled /\ o \notin ready /\ o \notin errored
           /\ starts[o] = 1 /\ DepSet(o) \subseteq values
           /\ loop' \in {"scan", "woken"}
<1> USE DEF IInv, SchedulerInStep
<1>1. o \in Op /\ o \in Unsettled /\ o \notin errored /\ DepSet(o) \subseteq values
  BY DEF TypeOK, Order, Unsettled
<1>2. starts[o] = 1 /\ o \notin ready
  BY <1>1 DEF OneEndEntryEach, ReadyMeansReady
<1>3. loop \notin {"draining", "returned"}
  BY <1>1 DEF NoLostWakeup
<1> QED BY <1>1, <1>2, <1>3 DEF Wake, TypeOK

\* Counting down the places of a dependency list that named the new value.
LEMMA PendingCounts ==
    ASSUME PlanAssumption, PendingAgree, NEW o, o \notin values, values' = values \cup {o},
           NEW c \in Op
    PROVE  /\ pending[c] - Occurrences(c, o) = Cardinality(Waits(c)')
           /\ Cardinality(Waits(c)') \in Nat
           /\ Cardinality(Waits(c)') = 0 <=> DepSet(c) \subseteq values'
<1> DEFINE places == 1..Len(Deps[c])
           mine   == {i \in places : Deps[c][i] = o}
<1>1. Len(Deps[c]) \in Nat
  BY PlanFacts
<1>2. IsFiniteSet(places)
  BY <1>1, FS_Interval
<1>3. /\ Waits(c) \subseteq places /\ mine \subseteq Waits(c) /\ Waits(c)' \subseteq places
      /\ Waits(c)' = Waits(c) \ mine
      /\ Waits(c)' = {} <=> DepSet(c) \subseteq values'
  BY DEF Waits, DepSet
<1>4. Occurrences(c, o) = Cardinality(mine)
  BY DEF Occurrences
<1> HIDE DEF mine, places
<1>5. IsFiniteSet(Waits(c)) /\ IsFiniteSet(Waits(c)') /\ Cardinality(Waits(c)') \in Nat
  BY <1>2, <1>3, FS_Subset, FS_CardinalityType
<1>6. Waits(c) \cap mine = mine
  BY <1>3
<1>7. Cardinality(Waits(c)') = Cardinality(Waits(c)) - Cardinality(mine)
  BY <1>3, <1>5, <1>6, FS_Difference
<1>8. pending[c] = Cardinality(Waits(c))
  BY DEF PendingAgree
<1>9. Cardinality(Waits(c)') = 0 <=> Waits(c)' = {}
  BY <1>5, FS_EmptySet
<1> QED BY <1>3, <1>4, <1>5, <1>7, <1>8, <1>9

LEMMA SucceedInv ==
    ASSUME PlanAssumption, OptionAssumption, IInv, NEW o \in Op, Succeed(o) PROVE IInv'
<1> USE DEF IInv, SchedulerInStep
<1> DEFINE left == [c \in Op |-> pending[c] - Occurrences(c, o)]
<1>1. /\ o \in running /\ loop # "scan" /\ LeaveFlight(o) /\ Wake
      /\ values' = values \cup {o} /\ pending' = left
      /\ ready' = ready \cup {c \in Op \ failed : o \in DepSet(c) /\ left[c] = 0}
      /\ ends' = [ends EXCEPT ![o] = @ + 1] /\ pendingCount' = pendingCount - 1
      /\ UNCHANGED <<errored, failed, starts, inFlight, unscanned, dispatched>>
  BY DEF Succeed
<1>2. /\ o \in Unsettled /\ o \notin ready /\ o \notin errored /\ o \notin values
      /\ starts[o] = 1 /\ DepSet(o) \subseteq values /\ loop' \in {"scan", "woken"} /\ loop' # "scan"
  BY <1>1, WakeFacts DEF Unsettled, Wake
<1>3. /\ running' \subseteq Op /\ globalInFlight' \in Nat /\ tagInFlight' \in [Tag -> Nat]
      /\ globalInFlight' = Cardinality(running') /\ globalInFlight' <= GlobalCap
      /\ \A t \in Tag :
            /\ tagInFlight'[t] = Cardinality({x \in running' : TagOf[x] = t})
            /\ TagCap[t] = Unset \/ tagInFlight'[t] <= TagCap[t]
  BY <1>1, LeaveFlightCounts
<1>4. running' = running \ {o}
  BY <1>1 DEF LeaveFlight
<1>5. \A c \in Op :
         /\ pending'[c] = Cardinality(Waits(c)') /\ pending'[c] \in Nat
         /\ left[c] = 0 <=> DepSet(c) \subseteq values'
  <2> SUFFICES ASSUME NEW c \in Op
               PROVE  /\ pending'[c] = Cardinality(Waits(c)') /\ pending'[c] \in Nat
                      /\ left[c] = 0 <=> DepSet(c) \subseteq values'
    OBVIOUS
  <2>1. pending'[c] = pending[c] - Occurrences(c, o) /\ left[c] = pending'[c]
    BY <1>1
  <2> HIDE DEF left
  <2> QED BY <1>1, <1>2, <2>1, PendingCounts
<1>6. PendingAgree'
  BY <1>5 DEF PendingAgree
<1>7. pending' \in [Op -> Nat]
  <2>1. \A c \in Op : left[c] \in Nat
    BY <1>1, <1>5
  <2> QED BY <1>1, <2>1
<1> HIDE DEF left
<1>8. Unsettled' = Unsettled \ {o}
  BY <1>1 DEF Unsettled
<1>9. pendingCount' \in Nat /\ pendingCount' = Cardinality(Unsettled')
  <2>1. Unsettled \in SUBSET Op /\ Unsettled' \in SUBSET Op
    BY <1>8 DEF Unsettled
  <2>2. IsFiniteSet(Unsettled) /\ Cardinality(Unsettled') \in Nat
    BY <2>1, OpsAreFinite
  <2>3. Cardinality(Unsettled') = Cardinality(Unsettled) - 1
    BY <1>2, <1>8, <2>2, FS_RemoveElement
  <2> QED BY <1>1, <2>2, <2>3 DEF CountersAgree
<1>10. TypeOK'
  <2>1. ends' \in [Op -> Nat]
    BY <1>1 DEF TypeOK
  <2>2. values' \subseteq Op /\ ready' \subseteq Op
    BY <1>1 DEF TypeOK
  <2> QED BY <1>1, <1>2, <1>3, <1>7, <1>9, <2>1, <2>2 DEF TypeOK
<1>11. ReadyMeansReady'
  <2> SUFFICES ASSUME NEW x \in Op
               PROVE  x \in ready' <=> starts[x] = 0 /\ x \notin failed /\ DepSet(x) \subseteq values'
    BY <1>1 DEF ReadyMeansReady
  <2>1. x \in ready' <=> x \in ready \/ (x \notin failed /\ o \in DepSet(x) /\ DepSet(x) \subseteq values')
    BY <1>1, <1>5
  <2>2. CASE o \in DepSet(x)
    <3>1. x \notin running \cup values \cup errored
      BY <1>2, <2>2 DEF Order
    <3>2. starts[x] # 1 /\ starts[x] <= 1
      BY <3>1 DEF OneEndEntryEach
    <3>3. starts[x] = 0
      BY <3>2 DEF TypeOK
    <3> QED BY <1>2, <2>1, <2>2, <3>3 DEF ReadyMeansReady
  <2>3. CASE o \notin DepSet(x)
    <3>1. DepSet(x) \subseteq values' <=> DepSet(x) \subseteq values
      BY <1>1, <2>3
    <3> QED BY <2>1, <2>3, <3>1 DEF ReadyMeansReady
  <2> QED BY <2>2, <2>3
<1>12. CountersAgree'
  BY <1>3, <1>9 DEF CountersAgree
<1>13. OneEndEntryEach'
  <2>1. \A x \in Op : ends'[x] = IF x = o THEN ends[x] + 1 ELSE ends[x]
    BY <1>1 DEF TypeOK
  <2> QED BY <1>1, <1>2, <1>4, <1>8, <2>1 DEF OneEndEntryEach
<1>14. Order'
  BY <1>1, <1>2, <1>4 DEF Order, Unsettled
<1>15. Scanning'
  BY <1>1, <1>2, <1>4 DEF Scanning
<1>16. NoLostWakeup'
  BY <1>2 DEF NoLostWakeup
<1> QED BY <1>6, <1>10, <1>11, <1>12, <1>13, <1>14, <1>15, <1>16

LEMMA FailInv ==
    ASSUME PlanAssumption, OptionAssumption, IInv, NEW o \in Op, Fail(o) PROVE IInv'
<1> USE DEF IInv, SchedulerInStep
<1>1. /\ o \in running /\ loop # "scan" /\ LeaveFlight(o) /\ Wake /\ RecordFailure(o)
      /\ errored' = errored \cup {o}
      /\ UNCHANGED <<pending, ready, values, starts, inFlight, unscanned, dispatched>>
  BY DEF Fail, RecordFailure
<1>2. /\ o \in Unsettled /\ o \notin ready /\ o \notin errored
      /\ starts[o] = 1 /\ DepSet(o) \subseteq values /\ loop' \in {"scan", "woken"} /\ loop' # "scan"
  BY <1>1, WakeFacts DEF Wake
<1>3. /\ running' \subseteq Op /\ globalInFlight' \in Nat /\ tagInFlight' \in [Tag -> Nat]
      /\ globalInFlight' = Cardinality(running') /\ globalInFlight' <= GlobalCap
      /\ \A t \in Tag :
            /\ tagInFlight'[t] = Cardinality({x \in running' : TagOf[x] = t})
            /\ TagCap[t] = Unset \/ tagInFlight'[t] <= TagCap[t]
  BY <1>1, LeaveFlightCounts
<1>4. running' = running \ {o}
  BY <1>1 DEF LeaveFlight
<1>5. /\ errored' \subseteq Op /\ failed' \subseteq Op /\ ends' \in [Op -> Nat]
      /\ pendingCount' \in Nat /\ pendingCount' = Cardinality(Unsettled')
      /\ \A x \in Op : ends'[x] = IF x \in Unsettled' THEN 0 ELSE 1
      /\ Order'
      /\ \A x \in Op : DepSet(x) \subseteq values => (x \in failed' <=> x = o \/ x \in failed)
  <2>1. UNCHANGED values /\ o \notin ready'
    BY <1>1, <1>2
  <2> QED BY <1>1, <1>2, <1>4, <2>1, RecordFailureFacts
<1>6. TypeOK'
  BY <1>1, <1>2, <1>3, <1>5 DEF TypeOK
<1>7. ReadyMeansReady'
  BY <1>1, <1>2, <1>5 DEF ReadyMeansReady
<1>8. CountersAgree'
  BY <1>3, <1>5 DEF CountersAgree
<1>9. OneEndEntryEach'
  BY <1>1, <1>2, <1>4, <1>5 DEF OneEndEntryEach
<1>10. PendingAgree'
  BY <1>1 DEF PendingAgree, Waits
<1>11. Scanning'
  BY <1>1, <1>2, <1>4 DEF Scanning
<1>12. NoLostWakeup'
  BY <1>2 DEF NoLostWakeup
<1> QED BY <1>5, <1>6, <1>7, <1>8, <1>9, <1>10, <1>11, <1>12

LEMMA NextInv ==
    ASSUME PlanAssumption, OptionAssumption, IInv, [Next]_vars PROVE IInv'
<1>1. ASSUME NEW o \in Op, Scan(o) \/ Succeed(o) \/ Fail(o) \/ Reap(o) PROVE IInv'
  BY <1>1, DispatchInv, DispatchThrowsInv, PassOverInv, SucceedInv, FailInv, ReapInv DEF Scan
<1>2. CASE EndScan \/ Resume \/ Return
  BY <1>2, EndScanInv, ResumeInv, ReturnInv
<1>3. CASE UNCHANGED vars
  BY <1>3 DEF vars, opVars, countVars, loopVars, IInv, SchedulerInStep, TypeOK, ReadyMeansReady,
              CountersAgree, OneEndEntryEach, Unsettled, Order, PendingAgree, Waits, Scanning,
              CanDispatch, NoLostWakeup
<1> QED BY <1>1, <1>2, <1>3 DEF Next

\* The strengthened invariant, of which all the others are parts.
THEOREM SchedulerInv == Spec => []IInv
<1>1. Init => IInv
  BY InitInv, PlanAssumption, OptionAssumption
<1>2. IInv /\ [Next]_vars => IInv'
  BY NextInv, PlanAssumption, OptionAssumption
<1> QED BY <1>1, <1>2, PTL DEF Spec

\* The ready list, the counters, the caps and the lineage agree in every state of every
\* run of every plan: no operation starts twice or before its dependencies, no cap is
\* exceeded, and each operation gets its one end entry (executor.ts, run() and runOp()).
THEOREM SchedulerStaysInStep == Spec => []SchedulerInStep
<1>1. IInv => SchedulerInStep
  BY DEF IInv
<1> QED BY <1>1, SchedulerInv, PTL

\* The loop never awaits a wakeup that nobody will send, and never leaves while an
\* operation still owes its end state: its bail-out is dead code (executor.ts, run()).
THEOREM LoopNeverSleepsThrough == Spec => []NoLostWakeup
<1>1. IInv => NoLostWakeup
  BY DEF IInv
<1> QED BY <1>1, SchedulerInv, PTL

-----------------------------------------------------------------------------
(***************************************************************************)
(* run() implements DagRun: its safety part, step by step.  That the run   *)
(* returns is liveness, which TLC checks.                                  *)
(***************************************************************************)

\* Where an operation is, read off the scheduler's sets.
LEMMA OpStateFacts ==
    ASSUME Order, NEW o \in Op
    PROVE  /\ OpState[o] = "running" <=> o \in running
           /\ OpState[o] = "success" <=> o \in values
           /\ OpState[o] = "error" <=> o \in errored
           /\ OpState[o] = "skipped" <=> o \in failed /\ o \notin errored
           /\ OpState[o] = "waiting" <=> o \notin running /\ o \notin values /\ o \notin failed
           /\ OpState[o] \in {"running", "success", "error", "skipped", "waiting"}
BY DEF OpState, Order

\* The operations downstream of o that a failure of o finds waiting are those that the
\* walk over operations that have not failed reaches.
LEMMA DownstreamSkipped ==
    ASSUME PlanAssumption, Order, NEW o \in Op, o \notin values
    PROVE  \A x \in Op : x \in Skipped(o) <=> x \in Promise!Downstream(o) /\ x \notin failed
<1> DEFINE Closed(S) == \A c \in Op : o \in DepSet(c) \/ DepSet(c) \cap S # {} => c \in S
<1>1. Promise!Downstream(o) = {x \in Op : \A S \in {T \in SUBSET Op : Closed(T)} : x \in S}
  BY DEF Promise!Downstream, Promise!DepSet, Promise!Op, DepSet, Op
<1>2. ASSUME NEW x \in Skipped(o) PROVE x \in Promise!Downstream(o)
  <2>1. \A S \in SUBSET Op : Closed(S) => Skipped(o) \subseteq S
    BY SkippedFacts
  <2> HIDE DEF Closed
  <2> QED BY <1>1, <2>1, SkippedFacts
<1>3. ASSUME NEW x \in Promise!Downstream(o) PROVE x \in Skipped(o) \cup (failed \cap Op)
  <2> DEFINE S == Skipped(o) \cup (failed \cap Op)
  <2>1. Closed(S)
    BY SkippedFacts DEF Order
  <2>2. S \in SUBSET Op
    BY SkippedFacts
  <2> HIDE DEF S, Closed
  <2> QED BY <1>1, <2>1, <2>2 DEF S
<1>4. \A x \in Skipped(o) : x \notin failed
  BY SkippedWait
<1> QED BY <1>2, <1>3, <1>4

\* The abstract specification counts as this one does.
LEMMA SameCardinality == ASSUME NEW S PROVE Promise!Cardinality(S) = Cardinality(S)
BY DEF Promise!Cardinality, Cardinality

\* What has room by the counters has room by the operations in flight.
LEMMA RoomFacts ==
    ASSUME IInv, NEW o \in Op, CanDispatch(o)
    PROVE  Promise!Room(o)
<1>1. Promise!InFlight = running
  <2>1. \A x \in Op : OpState[x] = "running" <=> x \in running
    BY OpStateFacts DEF IInv
  <2>2. Promise!InFlight = {x \in Op : OpState[x] = "running"}
    BY DEF Promise!InFlight, Promise!Op, Op
  <2> QED BY <2>1, <2>2 DEF IInv, SchedulerInStep, TypeOK
<1>2. globalInFlight = Cardinality(running) /\ globalInFlight < GlobalCap
  BY DEF IInv, SchedulerInStep, CountersAgree, CanDispatch
<1>3. \A t \in Tag : TagOf[o] = t /\ TagCap[t] # Unset =>
         Cardinality({x \in running : TagOf[x] = t}) < TagCap[t]
  BY DEF IInv, SchedulerInStep, CountersAgree, CanDispatch
<1>4. Cardinality(Promise!InFlight) < GlobalCap
  BY <1>1, <1>2
<1>5. \A t \in Tag : TagOf[o] = t /\ TagCap[t] # Unset =>
         Cardinality({x \in Promise!InFlight : TagOf[x] = t}) < TagCap[t]
  BY <1>1, <1>3
<1> HIDE DEF Promise!InFlight
<1> QED BY <1>4, <1>5, SameCardinality DEF Promise!Room

\* What the scan picks, the abstract specification may start.
LEMMA PickStartable ==
    ASSUME PlanAssumption, IInv, NEW o \in Op, Pick(o)
    PROVE  Promise!Startable(o)
<1>1. o \in Unsettled /\ o \notin running /\ DepSet(o) \subseteq values
  BY PickFacts
<1>2. OpState[o] = "waiting"
  BY <1>1, OpStateFacts DEF IInv, Unsettled
<1>3. \A d \in DepSet(o) : d \in Op /\ OpState[d] = "success"
  BY <1>1, PlanFacts, OpStateFacts DEF IInv
<1>4. Promise!DepSet(o) = DepSet(o)
  BY DEF Promise!DepSet, DepSet
<1>5. Promise!Room(o)
  BY RoomFacts DEF Pick
<1> QED BY <1>2, <1>3, <1>4, <1>5 DEF Promise!Startable

\* Recording a failure is the abstract failure, on both paths.
LEMMA RecordFailureStep ==
    ASSUME PlanAssumption, IInv, IInv', NEW o \in Op, RecordFailure(o), o \in Unsettled,
           UNCHANGED values, running' = running \ {o},
           Promise!Startable(o) \/ OpState[o] = "running",
           (loop = "returned") = (loop = "returned")'
    PROVE  Promise!Fail(o)
<1>1. /\ errored' = errored \cup {o} /\ failed' = failed \cup {o} \cup Skipped(o)
  BY DEF RecordFailure
<1>2. o \notin values
  BY DEF Unsettled
<1>3. ASSUME NEW x \in Op
      PROVE  OpState'[x] = IF x = o THEN "error"
                           ELSE IF x \in Promise!Downstream(o) /\ OpState[x] = "waiting" THEN "skipped"
                           ELSE OpState[x]
  <2>1. x \in Skipped(o) <=> x \in Promise!Downstream(o) /\ x \notin failed
    BY <1>2, DownstreamSkipped DEF IInv
  <2>2. x \in Skipped(o) => x \notin running /\ x \notin values
    BY <1>2, SkippedWait DEF IInv, Order
  <2>3. x \in Promise!Downstream(o) /\ x \notin failed /\ x # o => x \notin running /\ x \notin values
    BY <2>1, <2>2
  <2> QED BY <1>1, <1>2, <2>1, <2>2 DEF OpState, IInv, Order
<1>4. OpState' = [x \in Op |-> IF x = o THEN "error"
                               ELSE IF x \in Promise!Downstream(o) /\ OpState[x] = "waiting" THEN "skipped"
                               ELSE OpState[x]]
  BY <1>3 DEF OpState
<1> QED BY <1>4 DEF Promise!Fail, Promise!Op, Op

\* Every step of the scheduler is a step of DagRun or leaves its state alone.
LEMMA StepImplements ==
    ASSUME PlanAssumption, OptionAssumption, IInv, [Next]_vars
    PROVE  [Promise!Next]_<<OpState, loop = "returned">>
<1>1. IInv'
  BY NextInv
<1> DEFINE back == (loop = "returned")
<1>2. ASSUME NEW o \in Op, Dispatch(o) PROVE Promise!Begin(o)
  <2>1. Promise!Startable(o)
    BY <1>2, PickStartable DEF Dispatch
  <2>2. o \in Unsettled /\ o \notin errored
    BY <1>2, PickFacts DEF Dispatch
  <2>3. running' = running \cup {o} /\ UNCHANGED <<values, errored, failed, loop>>
    BY <1>2 DEF Dispatch
  <2>4. \A x \in Op : OpState'[x] = IF x = o THEN "running" ELSE OpState[x]
    BY <2>2, <2>3 DEF OpState, Unsettled
  <2>5. OpState' = [OpState EXCEPT ![o] = "running"]
    BY <2>4 DEF OpState
  <2> QED BY <2>1, <2>3, <2>5 DEF Promise!Begin
<1>3. ASSUME NEW o \in Op, DispatchThrows(o) PROVE Promise!Fail(o)
  <2>1. Promise!Startable(o)
    BY <1>3, PickStartable DEF DispatchThrows
  <2>2. o \in Unsettled /\ o \notin running
    BY <1>3, PickFacts DEF DispatchThrows
  <2>3. RecordFailure(o) /\ running' = running \ {o} /\ UNCHANGED <<values, loop>>
    BY <1>3, <2>2 DEF DispatchThrows
  <2> QED BY <1>1, <2>1, <2>2, <2>3, RecordFailureStep
<1>4. ASSUME NEW o \in Op, Succeed(o) PROVE Promise!Succeed(o)
  <2>1. o \in running /\ LeaveFlight(o) /\ Wake /\ values' = values \cup {o}
        /\ UNCHANGED <<errored, failed>>
    BY <1>4 DEF Succeed
  <2>2. o \in Unsettled /\ o \notin errored
    BY <2>1, WakeFacts
  <2>3. running' = running \ {o} /\ (loop = "returned") = (loop = "returned")'
    BY <2>1 DEF LeaveFlight, Wake
  <2>4. OpState[o] = "running"
    BY <2>1, OpStateFacts DEF IInv
  <2>5. \A x \in Op : OpState'[x] = IF x = o THEN "success" ELSE OpState[x]
    BY <2>1, <2>2, <2>3 DEF OpState, Unsettled
  <2>6. OpState' = [OpState EXCEPT ![o] = "success"]
    BY <2>5 DEF OpState
  <2> QED BY <2>3, <2>4, <2>6 DEF Promise!Succeed
<1>5. ASSUME NEW o \in Op, Fail(o) PROVE Promise!Fail(o)
  <2>1. o \in running /\ LeaveFlight(o) /\ Wake /\ RecordFailure(o) /\ UNCHANGED values
    BY <1>5 DEF Fail
  <2>2. o \in Unsettled
    BY <2>1, WakeFacts
  <2>3. running' = running \ {o} /\ (loop = "returned") = (loop = "returned")'
    BY <2>1 DEF LeaveFlight, Wake
  <2>4. OpState[o] = "running"
    BY <2>1, OpStateFacts DEF IInv
  <2> QED BY <1>1, <2>1, <2>2, <2>3, <2>4, RecordFailureStep
<1>6. ASSUME Return PROVE Promise!Return
  <2>1. Unsettled = {} /\ loop' = "returned" /\ UNCHANGED opVars
    BY <1>6 DEF Return, IInv, NoLostWakeup
  <2>2. OpState' = OpState
    BY <2>1 DEF opVars, OpState
  <2>3. \A o \in Op : Promise!Ended(o)
    BY <2>1, OpStateFacts DEF IInv, Unsettled, Promise!Ended
  <2> QED BY <2>1, <2>2, <2>3 DEF Promise!Return, Promise!Op, Op
<1>7. ASSUME NEW o \in Op, PassOver(o) \/ Reap(o)
      PROVE  UNCHANGED <<OpState, loop = "returned">>
  BY <1>7 DEF PassOver, Reap, opVars, loopVars, OpState
<1>8. CASE EndScan \/ Resume
  <2>1. UNCHANGED opVars /\ loop # "returned" /\ loop' # "returned"
    <3>1. CASE EndScan
      <4>1. loop' \in {"draining", "scan", "waiting"}
        BY <3>1 DEF EndScan, IInv, SchedulerInStep, TypeOK
      <4> QED BY <3>1, <4>1 DEF EndScan
    <3>2. CASE Resume
      BY <3>2 DEF Resume
    <3> QED BY <1>8, <3>1, <3>2
  <2> QED BY <2>1 DEF opVars, OpState
<1>9. CASE UNCHANGED vars
  BY <1>9 DEF vars, opVars, loopVars, OpState
<1>10. Promise!Op = Op
  BY DEF Promise!Op, Op
<1> QED
  BY <1>2, <1>3, <1>4, <1>5, <1>6, <1>7, <1>8, <1>9, <1>10 DEF Next, Scan, Promise!Next

\* Whatever run() does with a plan, DagRun allows: an operation starts only after all its
\* dependencies succeeded and while the caps leave room, a failure skips what is
\* downstream of it and nothing else, and the run returns only when no operation owes
\* an end state (executor.ts, run(), runOp() and cascadeSkip()).
THEOREM RunImplementsDagRun == Spec => Promise!Safe
<1>1. Init => Promise!Init
  BY DEF Init, OpState, Promise!Init, Promise!Op, Op
<1>2. IInv /\ [Next]_vars => [Promise!Next]_<<OpState, loop = "returned">>
  BY StepImplements, PlanAssumption, OptionAssumption
<1> QED BY <1>1, <1>2, SchedulerInv, PTL DEF Spec, Promise!Safe
=============================================================================
