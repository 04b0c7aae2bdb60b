--------------------------- MODULE AgentPoolProofs ---------------------------
(***************************************************************************)
(* Theorems about AgentPool, for every set of agents and tasks, every      *)
(* retry policy, every behaviour of the owner, and with or without         *)
(* autoscaling.                                                            *)
(***************************************************************************)
EXTENDS AgentPool, SequenceTheorems, FiniteSetTheorems, TLAPS

\* The queue as a set of positions.
In(t, q)    == \E i \in 1..Len(q) : q[i] = t
Distinct(q) == \A i, k \in 1..Len(q) : q[i] = q[k] => i = k

-----------------------------------------------------------------------------
\* The queue q with t put behind its first k entries.
Inserted(q, t, k) == SubSeq(q, 1, k) \o <<t>> \o SubSeq(q, k + 1, Len(q))

(***************************************************************************)
(* What the push and the sort make of a queue, position by position.       *)
(***************************************************************************)
LEMMA Insertion ==
    ASSUME NEW q \in Seq(Task), NEW t \in Task, NEW k \in 0..Len(q)
    PROVE  LET r == Inserted(q, t, k) IN
           /\ r \in Seq(Task) /\ Len(r) = Len(q) + 1
           /\ \A i \in 1..Len(q) + 1 :
                 r[i] = IF i <= k THEN q[i] ELSE IF i = k + 1 THEN t ELSE q[i - 1]
<1> DEFINE r     == Inserted(q, t, k)
           front == SubSeq(q, 1, k)
           back  == SubSeq(q, k + 1, Len(q))
<1>1. /\ front \in Seq(Task) /\ Len(front) = k
      /\ \A i \in 1..k : front[i] = q[i]
  BY DEF front
<1>2. /\ back \in Seq(Task) /\ Len(back) = Len(q) - k
      /\ \A i \in 1..(Len(q) - k) : back[i] = q[k + i]
  <2>1. \A i \in k + 1..Len(q) : q[i] \in Task
    OBVIOUS
  <2>2. /\ back \in Seq(Task)
        /\ Len(back) = IF k + 1 <= Len(q) THEN Len(q) - (k + 1) + 1 ELSE 0
        /\ \A i \in 1..Len(q) - (k + 1) + 1 : back[i] = q[k + 1 + i - 1]
    BY <2>1, SubSeqProperties, k + 1 \in Int, Len(q) \in Int
  <2> QED BY <2>2
<1> HIDE DEF r, front, back
<1>3. r = (front \o <<t>>) \o back
  BY DEF r, front, back, Inserted
<1>4. /\ front \o <<t>> \in Seq(Task) /\ Len(front \o <<t>>) = k + 1
      /\ \A i \in 1..k + 1 : (front \o <<t>>)[i] = IF i <= k THEN q[i] ELSE t
  BY <1>1
<1> DEFINE most == front \o <<t>>
<1> HIDE DEF most
<1>5. /\ most \o back \in Seq(Task)
      /\ Len(most \o back) = Len(most) + Len(back)
      /\ \A i \in 1..Len(most) + Len(back) :
            (most \o back)[i] = IF i <= Len(most) THEN most[i] ELSE back[i - Len(most)]
  BY <1>4, <1>2, ConcatProperties DEF most
<1>6. /\ r = most \o back
      /\ Len(most) = k + 1
      /\ \A i \in 1..k + 1 : most[i] = IF i <= k THEN q[i] ELSE t
  BY <1>3, <1>4 DEF most
<1>7. Len(q) \in Nat /\ k \in Nat
  OBVIOUS
<1>8. r \in Seq(Task) /\ Len(r) = Len(q) + 1
  BY <1>5, <1>6, <1>2, <1>7
<1>9. ASSUME NEW i \in 1..Len(q) + 1
      PROVE  r[i] = IF i <= k THEN q[i] ELSE IF i = k + 1 THEN t ELSE q[i - 1]
  <2>1. r[i] = IF i <= k + 1 THEN most[i] ELSE back[i - (k + 1)]
    BY <1>5, <1>6, <1>7, <1>2
  <2>2. i > k + 1 => back[i - (k + 1)] = q[k + (i - (k + 1))] /\ k + (i - (k + 1)) = i - 1
    BY <1>2, <1>7
  <2> QED BY <2>1, <2>2, <1>6, <1>7
<1> QED BY <1>8, <1>9 DEF r

(***************************************************************************)
(* Inserting into the queue adds the task and nothing else, wherever the   *)
(* sort puts it.                                                           *)
(***************************************************************************)
LEMMA EnqueuedProperties ==
    ASSUME NEW q \in Seq(Task), NEW t \in Task, NEW r \in Enqueued(q, t)
    PROVE  /\ r \in Seq(Task) /\ Len(r) = Len(q) + 1
           /\ \A u \in Task : In(u, r) <=> u = t \/ In(u, q)
           /\ Distinct(q) /\ ~ In(t, q) => Distinct(r)
<1>1. PICK k \in 0..Len(q) : r = Inserted(q, t, k)
  BY DEF Enqueued, Inserted
<1>2. /\ r \in Seq(Task) /\ Len(r) = Len(q) + 1
      /\ \A i \in 1..Len(q) + 1 : r[i] = IF i <= k THEN q[i] ELSE IF i = k + 1 THEN t ELSE q[i - 1]
  BY <1>1, Insertion
<1>3. ASSUME NEW u \in Task PROVE In(u, r) <=> u = t \/ In(u, q)
  <2>1. In(u, r) => u = t \/ In(u, q)
    BY <1>2 DEF In
  <2>2. r[k + 1] = t /\ k + 1 \in 1..Len(r)
    BY <1>2
  <2>3. ASSUME NEW i \in 1..Len(q) PROVE \E m \in 1..Len(r) : r[m] = q[i]
    <3>1. CASE i <= k
      BY <3>1, <1>2
    <3>2. CASE i > k
      <4>1. i + 1 \in 1..Len(r) /\ r[i + 1] = q[i]
        BY <3>2, <1>2
      <4> QED BY <4>1
    <3> QED BY <3>1, <3>2
  <2> QED BY <2>1, <2>2, <2>3 DEF In
<1>4. ASSUME Distinct(q), ~ In(t, q), NEW i \in 1..Len(r), NEW m \in 1..Len(r), r[i] = r[m]
      PROVE  i = m
  <2> DEFINE from(x) == IF x <= k THEN x ELSE x - 1
  <2>1. ASSUME NEW x \in 1..Len(r), x # k + 1
        PROVE  from(x) \in 1..Len(q) /\ r[x] = q[from(x)]
    BY <1>2, <2>1
  <2>2. r[k + 1] = t
    BY <1>2
  <2>3. \A x \in 1..Len(r) : x # k + 1 => r[x] # t
    BY <2>1, <1>4 DEF In
  <2>4. CASE i = k + 1 \/ m = k + 1
    BY <2>2, <2>3, <2>4, <1>4
  <2>5. CASE i # k + 1 /\ m # k + 1
    <3>1. from(i) = from(m)
      BY <2>1, <2>5, <1>4 DEF Distinct
    <3> QED BY <3>1, <2>5, <1>2
  <2> QED BY <2>4, <2>5
<1> QED BY <1>2, <1>3, <1>4 DEF Distinct

(***************************************************************************)
(* Taking the head leaves the others, each still queued once.              *)
(***************************************************************************)
LEMMA TailProperties ==
    ASSUME NEW q \in Seq(Task), q # <<>>, Distinct(q)
    PROVE  /\ Head(q) \in Task /\ Tail(q) \in Seq(Task)
           /\ In(Head(q), q) /\ ~ In(Head(q), Tail(q))
           /\ \A u \in Task : In(u, Tail(q)) <=> u # Head(q) /\ In(u, q)
           /\ Distinct(Tail(q))
<1>1. /\ Head(q) = q[1] /\ Len(q) >= 1 /\ Len(Tail(q)) = Len(q) - 1
      /\ Tail(q) \in Seq(Task)
      /\ \A i \in 1..Len(q) - 1 : Tail(q)[i] = q[i + 1]
  OBVIOUS
<1>2. ASSUME NEW u \in Task, In(u, q), u # Head(q) PROVE In(u, Tail(q))
  <2>1. PICK i \in 1..Len(q) : q[i] = u
    BY <1>2 DEF In
  <2>2. i - 1 \in 1..Len(Tail(q)) /\ Tail(q)[i - 1] = u
    BY <2>1, <1>1, <1>2
  <2> QED BY <2>2 DEF In
<1> QED BY <1>1, <1>2 DEF In, Distinct

-----------------------------------------------------------------------------
(***************************************************************************)
(* The autoscaling check returns agent states, and only ever terminates.   *)
(***************************************************************************)
LEMMA ScalingTypes ==
    ASSUME NEW st \in [Agent -> AgentState]
    PROVE  /\ ScaledUp(st) \in Nat
           /\ ScaledDown(st) \in [Agent -> AgentState]
           /\ \A a \in Agent : ScaledDown(st)[a] = "idle" => st[a] = "idle"
BY DEF ScaledUp, ScaledDown, AgentState

LEMMA DispatchTypes ==
    ASSUME TypeOK,
           NEW q \in Seq(Task), NEW j \in [Agent -> Task \cup {NoTask}],
           NEW st \in [Agent -> AgentState], NEW n \in Nat,
           DispatchNext(q, j, st, n)
    PROVE  /\ queue' \in Seq(Task)
           /\ job' \in [Agent -> Task \cup {NoTask}]
           /\ state' \in [Agent -> AgentState]
           /\ leaving' \subseteq Agent
           /\ spawning' \in Nat
           /\ inFlight' \in [Task -> Agent \cup {NoAgent}]
           /\ rejecting' \subseteq Task
<1>1. CASE NoDispatch(q, j, st, n)
  BY <1>1 DEF NoDispatch, StatesBecome, TypeOK
<1>2. ASSUME q # <<>>, NEW a \in Candidates(Head(q), st), DispatchTo(a, q, j, st, n)
      PROVE  /\ queue' \in Seq(Task)
             /\ job' \in [Agent -> Task \cup {NoTask}]
             /\ state' \in [Agent -> AgentState]
             /\ leaving' \subseteq Agent
             /\ spawning' \in Nat
             /\ inFlight' \in [Task -> Agent \cup {NoAgent}]
             /\ rejecting' \subseteq Task
  <2> DEFINE busy == [st EXCEPT ![a] = "busy"]
  <2>1. a \in Agent /\ Head(q) \in Task /\ Tail(q) \in Seq(Task)
    BY <1>2 DEF Candidates, CanTake, TypeOK
  <2>2. busy \in [Agent -> AgentState]
    BY <2>1 DEF AgentState
  <2>3. ScaledUp(busy) \in Nat /\ ScaledDown(busy) \in [Agent -> AgentState]
    BY <2>2, ScalingTypes
  <2>4. /\ queue' = Tail(q)
        /\ inFlight' = [inFlight EXCEPT ![Head(q)] = a]
        /\ rejecting' = rejecting \/ rejecting' = rejecting \cup {Head(q)}
        /\ job' = j \/ job' = [j EXCEPT ![a] = Head(q)]
        /\ state' = st \/ state' = ScaledDown(busy)
        /\ spawning' = spawning + n \/ spawning' = spawning + n + ScaledUp(busy)
        /\ leaving' \subseteq leaving \cup agents
    BY <1>2 DEF DispatchTo, StatesBecome
  <2> HIDE DEF busy
  <2>5. state' \in [Agent -> AgentState] /\ spawning' \in Nat
    BY <2>3, <2>4 DEF TypeOK
  <2>6. queue' \in Seq(Task) /\ rejecting' \subseteq Task /\ leaving' \subseteq Agent
    BY <2>1, <2>4 DEF TypeOK
  <2>7. /\ job' \in [Agent -> Task \cup {NoTask}]
        /\ inFlight' \in [Task -> Agent \cup {NoAgent}]
    BY <2>1, <2>4 DEF TypeOK
  <2> QED BY <2>5, <2>6, <2>7
<1> QED BY <1>1, <1>2 DEF DispatchNext

(***************************************************************************)
(* What a dispatch does to tasks: nothing, or the head goes to an idle     *)
(* agent, which executes it unless the schemas reject the assignment.  No  *)
(* agent becomes idle by it.                                               *)
(***************************************************************************)
Dispatched(q, j, st) ==
    /\ \A b \in Agent : state'[b] = "idle" => st[b] = "idle" /\ job'[b] = j[b]
    /\ \/ queue' = q /\ job' = j /\ inFlight' = inFlight /\ rejecting' = rejecting
       \/ /\ q # <<>> /\ queue' = Tail(q)
          /\ \E a \in Agent :
                /\ st[a] = "idle"
                /\ inFlight' = [inFlight EXCEPT ![Head(q)] = a]
                /\ \/ /\ Head(q) \in Malformed
                      /\ rejecting' = rejecting \cup {Head(q)}
                      /\ job' = j
                   \/ /\ Head(q) \notin Malformed
                      /\ rejecting' = rejecting
                      /\ job' = [j EXCEPT ![a] = Head(q)]

LEMMA DispatchEffect ==
    ASSUME TypeOK,
           NEW q \in Seq(Task), NEW j \in [Agent -> Task \cup {NoTask}],
           NEW st \in [Agent -> AgentState], NEW n \in Nat,
           DispatchNext(q, j, st, n)
    PROVE  Dispatched(q, j, st)
<1>1. CASE NoDispatch(q, j, st, n)
  BY <1>1 DEF NoDispatch, StatesBecome, Dispatched
<1>2. ASSUME q # <<>>, NEW a \in Candidates(Head(q), st), DispatchTo(a, q, j, st, n)
      PROVE  Dispatched(q, j, st)
  <2> DEFINE busy == [st EXCEPT ![a] = "busy"]
  <2>1. a \in Agent /\ st[a] = "idle"
    BY <1>2 DEF Candidates, CanTake, TypeOK
  <2>2. busy \in [Agent -> AgentState]
    BY <2>1 DEF AgentState
  <2>3. \A b \in Agent : ScaledDown(busy)[b] = "idle" => st[b] = "idle" /\ b # a
    <3>1. \A b \in Agent : ScaledDown(busy)[b] = "idle" => busy[b] = "idle"
      BY <2>2, ScalingTypes
    <3> QED BY <3>1, <2>1
  <2>4. CASE Head(q) \in Malformed
    BY <1>2, <2>1, <2>4 DEF DispatchTo, StatesBecome, Dispatched
  <2>5. CASE Head(q) \notin Malformed
    BY <1>2, <2>1, <2>3, <2>5 DEF DispatchTo, StatesBecome, Dispatched
  <2> QED BY <2>4, <2>5
<1> QED BY <1>1, <1>2 DEF DispatchNext

-----------------------------------------------------------------------------
(***************************************************************************)
(* Type correctness, one step per action.                                  *)
(***************************************************************************)
LEMMA TypeInit == Init => TypeOK
<1> SUFFICES ASSUME Init PROVE TypeOK
  OBVIOUS
<1>1. queue \in Seq(Task) /\ deadLetters \in Seq([task : Task, attempts : Nat])
  BY DEF Init
<1>2. /\ state \in [Agent -> AgentState]
      /\ job \in [Agent -> Task \cup {NoTask}]
      /\ inFlight \in [Task -> Agent \cup {NoAgent}]
      /\ history \in [Task -> Outcome]
      /\ retries \in [Task -> Nat]
  BY DEF Init, AgentState, Outcome
<1> QED BY <1>1, <1>2, PoolAssumption DEF Init, TypeOK

LEMMA TypeStep == TypeOK /\ [Next]_vars => TypeOK'
<1> SUFFICES ASSUME TypeOK, [Next]_vars PROVE TypeOK'
  OBVIOUS
<1> USE PoolAssumption
<1>1. ASSUME NEW t \in Task, Submit(t) PROVE TypeOK'
  <2>1. PICK q \in Enqueued(queue, t) : DispatchNext(q, job, state, 0)
    BY <1>1 DEF Submit
  <2>2. q \in Seq(Task)
    BY EnqueuedProperties DEF TypeOK
  <2>3. /\ queue' \in Seq(Task) /\ job' \in [Agent -> Task \cup {NoTask}]
        /\ state' \in [Agent -> AgentState] /\ leaving' \subseteq Agent /\ spawning' \in Nat
        /\ inFlight' \in [Task -> Agent \cup {NoAgent}] /\ rejecting' \subseteq Task
    BY <2>1, <2>2, DispatchTypes DEF TypeOK
  <2> QED BY <1>1, <2>3 DEF Submit, TypeOK, lifecycle
<1>2. ASSUME NEW a \in Agent, SendResult(a) PROVE TypeOK'
  <2>1. job[a] \in Task
    BY <1>2 DEF SendResult, TypeOK
  <2>2. /\ backoff' \subseteq Task
        /\ history' \in [Task -> Outcome]
        /\ deadLetters' \in Seq([task : Task, attempts : Nat])
    <3>1. CASE Completed(job[a])
      BY <2>1, <3>1 DEF Completed, TypeOK, Outcome
    <3>2. CASE Retrying(job[a])
      BY <2>1, <3>2 DEF Retrying, TypeOK
    <3>3. CASE DeadLettered(job[a])
      <4>1. [task |-> job[a], attempts |-> retries[job[a]] + 1] \in [task : Task, attempts : Nat]
        BY <2>1 DEF TypeOK
      <4> QED BY <2>1, <3>3, <4>1 DEF DeadLettered, TypeOK, Outcome
    <3> QED BY <1>2, <3>1, <3>2, <3>3 DEF SendResult
  <2> QED BY <1>2, <2>1, <2>2 DEF SendResult, TypeOK, lifecycle, fleet
<1>3. ASSUME NEW a \in Agent, GoIdle(a) PROVE TypeOK'
  <2> DEFINE idle == [state EXCEPT ![a] = "idle"]
             free == [job EXCEPT ![a] = NoTask]
  <2>1. idle \in [Agent -> AgentState] /\ free \in [Agent -> Task \cup {NoTask}]
    BY DEF TypeOK, AgentState
  <2>2. DispatchNext(queue, free, ScaledDown(idle), ScaledUp(idle))
    BY <1>3 DEF GoIdle
  <2> HIDE DEF idle, free
  <2>3. /\ queue' \in Seq(Task) /\ job' \in [Agent -> Task \cup {NoTask}]
        /\ state' \in [Agent -> AgentState] /\ leaving' \subseteq Agent /\ spawning' \in Nat
        /\ inFlight' \in [Task -> Agent \cup {NoAgent}] /\ rejecting' \subseteq Task
    <3>1. ScaledUp(idle) \in Nat /\ ScaledDown(idle) \in [Agent -> AgentState]
      BY <2>1, ScalingTypes
    <3>2. queue \in Seq(Task)
      BY DEF TypeOK
    <3> QED BY <2>1, <2>2, <3>1, <3>2, DispatchTypes
  <2> QED BY <1>3, <2>3 DEF GoIdle, TypeOK, lifecycle
<1>4. ASSUME NEW t \in Task, RetryTimer(t) PROVE TypeOK'
  <2>1. PICK q \in Enqueued(queue, t) : DispatchNext(q, job, state, 0)
    BY <1>4 DEF RetryTimer
  <2>2. q \in Seq(Task)
    BY EnqueuedProperties DEF TypeOK
  <2>3. /\ queue' \in Seq(Task) /\ job' \in [Agent -> Task \cup {NoTask}]
        /\ state' \in [Agent -> AgentState] /\ leaving' \subseteq Agent /\ spawning' \in Nat
        /\ inFlight' \in [Task -> Agent \cup {NoAgent}] /\ rejecting' \subseteq Task
    BY <2>1, <2>2, DispatchTypes DEF TypeOK
  <2>4. retries' \in [Task -> Nat] /\ backoff' \subseteq Task
    BY <1>4 DEF RetryTimer, TypeOK
  <2> QED BY <1>4, <2>3, <2>4 DEF RetryTimer, TypeOK, lifecycle
<1>5. ASSUME NEW t \in Task, DispatchError(t) PROVE TypeOK'
  BY <1>5 DEF DispatchError, TypeOK, lifecycle, fleet, work
<1>6. CASE Start
  BY <1>6 DEF Start, TypeOK, work, tasks
<1>7. ASSUME NEW a \in Agent, Register(a) PROVE TypeOK'
  BY <1>7 DEF Register, TypeOK, AgentState, lifecycle, work, tasks
<1>8. ASSUME NEW a \in Agent, Terminate(a), shrink' \subseteq Agent PROVE TypeOK'
  <2> DEFINE st == [state EXCEPT ![a] = "terminated"]
  <2>1. st \in [Agent -> AgentState]
    BY DEF TypeOK, AgentState
  <2>2. ScaledUp(st) \in Nat /\ ScaledDown(st) \in [Agent -> AgentState]
    BY <2>1, ScalingTypes
  <2>3. StatesBecome(ScaledDown(st)) /\ spawning' = spawning + ScaledUp(st)
    BY <1>8 DEF Terminate
  <2> HIDE DEF st
  <2>4. state' \in [Agent -> AgentState] /\ spawning' \in Nat /\ leaving' \subseteq Agent
    BY <2>2, <2>3 DEF StatesBecome, TypeOK
  <2> QED BY <1>8, <2>4 DEF Terminate, TypeOK, lifecycle, work, tasks
<1>9. ASSUME NEW a \in Agent, TerminateAgent(a) PROVE TypeOK'
  BY <1>8, <1>9 DEF TerminateAgent, TypeOK
<1>10. ASSUME NEW a \in Agent, Deregister(a) PROVE TypeOK'
  BY <1>10 DEF Deregister, TypeOK, lifecycle, work, tasks
<1>11. ASSUME NEW n \in ReplicaChoices, UpdateSpec(n) PROVE TypeOK'
  <2>1. n \in Nat
    OBVIOUS
  <2>2. spawning' \in Nat /\ shrink' \subseteq Agent
    BY <1>11, <2>1 DEF UpdateSpec, TypeOK
  <2>3. StillStarting(n) \subseteq Nat
    <3>1. starting \in Nat /\ replicas \in Nat
      BY DEF TypeOK
    <3>2. ASSUME n > replicas, NEW loops \in 1..starting
          PROVE  starting + loops * (n - replicas) \in Nat
      <4>1. n - replicas \in Nat /\ loops \in Nat
        BY <2>1, <3>1, <3>2
      <4>2. \A i, j \in Nat : i * j \in Nat
        OBVIOUS
      <4>3. loops * (n - replicas) \in Nat
        BY <4>1, <4>2
      <4> QED BY <3>1, <4>3
    <3> QED BY <2>1, <3>1, <3>2 DEF StillStarting
  <2>4. starting' \in Nat
    BY <1>11, <2>3 DEF UpdateSpec
  <2> QED BY <1>11, <2>1, <2>2, <2>4 DEF UpdateSpec, TypeOK, work, tasks
<1>12. ASSUME NEW a \in Agent, ShrinkNext(a) PROVE TypeOK'
  <2>1. shrink' \subseteq Agent
    BY <1>12 DEF ShrinkNext, TypeOK
  <2>2. CASE Terminate(a)
    BY <1>8, <2>1, <2>2
  <2>3. CASE UNCHANGED <<lifecycle, agents, state, starting, spawning, leaving, work, tasks>>
    BY <2>1, <2>3 DEF TypeOK, lifecycle, work, tasks
  <2> QED BY <1>12, <2>2, <2>3 DEF ShrinkNext
<1>13. CASE Stop
  BY <1>13 DEF Stop, TypeOK, fleet, work, tasks
<1>14. CASE Shutdown
  <2>1. PICK n \in 0..(Total * ScaledUp(state)) : spawning' = spawning + n
    BY <1>14 DEF Shutdown
  <2>2. spawning' \in Nat /\ stops' \in Nat /\ clearing' \in Nat
    BY <1>14, <2>1 DEF Shutdown, TypeOK
  <2> QED BY <1>14, <2>2 DEF Shutdown, TypeOK, AgentState, work, tasks
<1>15. CASE ClearAgents
  BY <1>15 DEF ClearAgents, TypeOK, work, tasks
<1>16. CASE UNCHANGED vars
  BY <1>16 DEF vars, lifecycle, fleet, work, tasks, TypeOK
<1> QED
  BY <1>1, <1>2, <1>3, <1>4, <1>5, <1>6, <1>7, <1>9, <1>10, <1>11, <1>12, <1>13, <1>14, <1>15, <1>16
     DEF Next, Internal, Owner, Drained, DrainDeadline

(***************************************************************************)
(* Every reachable state of the pool is well typed.                        *)
(***************************************************************************)
THEOREM TypeCorrect == Spec => []TypeOK
<1> QED BY TypeInit, TypeStep, PTL DEF Spec

-----------------------------------------------------------------------------
(***************************************************************************)
(* The inductive invariant, and the same statement about a state in the    *)
(* middle of a handler: after the handler's own changes to the queue q,    *)
(* the jobs j, the agents' states st, the timers bo, the accepted tasks    *)
(* sub and the agents se that have sent a result, and before               *)
(* dispatchNext() runs.                                                    *)
(***************************************************************************)
IInv == TypeOK /\ OnePlace /\ FlightMatchesJob /\ IdleHasNoJob /\ Strengthening

Places(q, bo, sub) ==
    /\ \A t \in sub : In(t, q) \/ Flying(t) \/ t \in bo \/ Settled(t)
    /\ \A t \in Task : In(t, q) \/ Flying(t) \/ t \in bo \/ Settled(t) => t \in sub
    /\ \A t \in Task : In(t, q)  => ~ Flying(t) /\ t \notin bo /\ ~ Settled(t)
    /\ \A t \in Task : Flying(t) => t \notin bo /\ ~ Settled(t)
    /\ \A t \in Task : t \in bo  => ~ Settled(t)
    /\ \A t \in Task : Finished(t) => t \notin refused
    /\ Distinct(q)

Pairing(j, st, se) ==
    /\ \A t \in Task : Flying(t) /\ t \notin rejecting =>
          j[inFlight[t]] = t /\ inFlight[t] \notin se
    /\ \A a \in Agent : j[a] # NoTask /\ a \notin se => inFlight[j[a]] = a
    /\ \A a \in Agent : st[a] = "idle" => j[a] = NoTask
    /\ \A t \in rejecting : Flying(t) /\ t \in Malformed
    /\ \A a \in Agent : j[a] \notin Malformed
    /\ \A a \in se : j[a] # NoTask

LEMMA PlacesIsOnePlace == OnePlace <=> Places(queue, backoff, submitted)
BY DEF OnePlace, Places, Queued, In, Distinct, Settled

LEMMA PairingIsTheRest ==
    FlightMatchesJob /\ IdleHasNoJob /\ Strengthening <=> Pairing(job, state, settled)
BY DEF FlightMatchesJob, IdleHasNoJob, Strengthening, Pairing

(***************************************************************************)
(* A dispatch moves the head of the queue in flight and leaves every other *)
(* task where it is.                                                       *)
(***************************************************************************)
LEMMA DispatchKeepsPlaces ==
    ASSUME TypeOK, NEW q \in Seq(Task), NEW j, NEW st, NEW bo, NEW sub \in SUBSET Task,
           Places(q, bo, sub), Dispatched(q, j, st),
           backoff' = bo, submitted' = sub, refused' = refused, history' = history
    PROVE  OnePlace'
<1>1. (\A t \in Task : Settled(t)' <=> Settled(t)) /\ (\A t \in Task : Finished(t)' <=> Finished(t))
  BY DEF Settled, Finished
<1>2. CASE queue' = q /\ inFlight' = inFlight
  <2>1. \A t \in Task : Flying(t)' <=> Flying(t)
    BY <1>2 DEF Flying
  <2>2. Places(queue, backoff, submitted)'
    BY <1>1, <1>2, <2>1 DEF Places, TypeOK, In, Distinct, Settled, Flying, Finished
  <2> QED BY <2>2, PlacesIsOnePlace, PTL
<1>3. ASSUME q # <<>>, queue' = Tail(q),
             NEW a \in Agent, inFlight' = [inFlight EXCEPT ![Head(q)] = a]
      PROVE  OnePlace'
  <2>1. /\ Head(q) \in Task /\ In(Head(q), q) /\ ~ In(Head(q), queue')
        /\ \A u \in Task : In(u, queue') <=> u # Head(q) /\ In(u, q)
        /\ Distinct(queue')
    BY <1>3, TailProperties DEF Places
  <2>2. \A u \in Task : Flying(u)' <=> u = Head(q) \/ Flying(u)
    BY <1>3, <2>1, PoolAssumption DEF Flying, TypeOK
  <2>3. ASSUME NEW t \in Task
        PROVE  /\ (In(t, queue) \/ Flying(t) \/ t \in backoff \/ Settled(t))' <=>
                     In(t, q) \/ Flying(t) \/ t \in bo \/ Settled(t)
               /\ In(t, queue)' => ~ Flying(t)' /\ t \notin backoff' /\ ~ Settled(t)'
               /\ Flying(t)' => t \notin backoff' /\ ~ Settled(t)'
               /\ t \in backoff' => ~ Settled(t)'
               /\ Finished(t)' => t \notin refused'
    <3>1. In(t, queue)' <=> t # Head(q) /\ In(t, q)
      BY <2>1 DEF In
    <3> QED BY <3>1, <2>1, <2>2, <1>1 DEF Places
  <2>5. Places(queue, backoff, submitted)'
    BY <2>1, <2>3 DEF Places, Distinct
  <2> QED BY <2>5, PlacesIsOnePlace, PTL
<1> QED BY <1>2, <1>3 DEF Dispatched

LEMMA DispatchKeepsPairing ==
    ASSUME TypeOK, NEW q \in Seq(Task), NEW j \in [Agent -> Task \cup {NoTask}],
           NEW st \in [Agent -> AgentState], NEW bo, NEW sub, NEW se \in SUBSET Agent,
           Places(q, bo, sub), Pairing(j, st, se), Dispatched(q, j, st), settled' = se
    PROVE  FlightMatchesJob' /\ IdleHasNoJob' /\ Strengthening'
<1>1. CASE queue' = q /\ job' = j /\ inFlight' = inFlight /\ rejecting' = rejecting
  <2>1. Pairing(job, state, settled)'
    BY <1>1 DEF Pairing, Dispatched, Flying
  <2> QED BY <2>1, PairingIsTheRest, PTL
<1>2. ASSUME q # <<>>, NEW a \in Agent, st[a] = "idle",
             inFlight' = [inFlight EXCEPT ![Head(q)] = a],
             \/ Head(q) \in Malformed /\ rejecting' = rejecting \cup {Head(q)} /\ job' = j
             \/ Head(q) \notin Malformed /\ rejecting' = rejecting /\ job' = [j EXCEPT ![a] = Head(q)]
      PROVE  Pairing(job, state, settled)'
  <2>1. Head(q) \in Task /\ In(Head(q), q)
    BY <1>2, TailProperties DEF Places
  <2>2. ~ Flying(Head(q)) /\ Head(q) \notin rejecting
    BY <2>1 DEF Places, Pairing
  <2>3. /\ \A u \in Task : Flying(u)' <=> u = Head(q) \/ Flying(u)
        /\ \A u \in Task : u # Head(q) => inFlight'[u] = inFlight[u]
        /\ inFlight'[Head(q)] = a
    BY <1>2, <2>1, PoolAssumption DEF Flying, TypeOK
  <2>4. j[a] = NoTask /\ a \notin se
    BY <1>2 DEF Pairing
  <2>5. ASSUME NEW b \in Agent, j[b] = Head(q), b \notin se PROVE FALSE
    <3>1. inFlight[Head(q)] = b
      BY <2>1, <2>5, PoolAssumption DEF Pairing
    <3> QED BY <3>1, <2>2, PoolAssumption DEF Flying
  <2>6. /\ \A b \in Agent : b # a => job'[b] = j[b]
        /\ job'[a] = NoTask \/ (job'[a] = Head(q) /\ Head(q) \notin Malformed)
        /\ job'[a] = NoTask <=> Head(q) \in Malformed
    BY <1>2, <2>1, <2>4, PoolAssumption
  <2>7. \A u \in Task : Flying(u)' /\ u \notin rejecting' => job'[inFlight'[u]] = u /\ inFlight'[u] \notin se
    <3>1. SUFFICES ASSUME NEW u \in Task, Flying(u)', u \notin rejecting'
                   PROVE  job'[inFlight'[u]] = u /\ inFlight'[u] \notin se
      OBVIOUS
    <3>2. CASE u = Head(q)
      BY <1>2, <2>3, <2>4, <2>6, <3>1, <3>2
    <3>3. CASE u # Head(q)
      <4>1. Flying(u) /\ u \notin rejecting /\ inFlight'[u] = inFlight[u]
        BY <1>2, <2>3, <3>1, <3>3
      <4>2. inFlight[u] \in Agent /\ j[inFlight[u]] = u /\ inFlight[u] \notin se
        BY <4>1 DEF Pairing, Flying, TypeOK
      <4>3. inFlight[u] # a
        BY <4>2, <2>4, PoolAssumption
      <4> QED BY <4>1, <4>2, <4>3, <2>6
    <3> QED BY <3>2, <3>3
  <2>8. \A b \in Agent : job'[b] # NoTask /\ b \notin se => inFlight'[job'[b]] = b
    <3>1. SUFFICES ASSUME NEW b \in Agent, job'[b] # NoTask, b \notin se
                   PROVE  inFlight'[job'[b]] = b
      OBVIOUS
    <3>2. CASE b = a
      BY <2>3, <2>6, <3>1, <3>2
    <3>3. CASE b # a
      <4>1. job'[b] = j[b] /\ j[b] \in Task /\ j[b] # Head(q) /\ inFlight[j[b]] = b
        BY <2>5, <2>6, <3>1, <3>3 DEF Pairing
      <4> QED BY <4>1, <2>3
    <3> QED BY <3>2, <3>3
  <2>9. \A b \in Agent : state'[b] = "idle" => job'[b] = NoTask
    BY DEF Dispatched, Pairing
  <2>10. \A u \in rejecting' : Flying(u)' /\ u \in Malformed
    <3>1. \A u \in rejecting : u \in Task
      BY DEF TypeOK
    <3> QED BY <1>2, <2>1, <2>3, <3>1 DEF Pairing
  <2>11. \A b \in Agent : job'[b] \notin Malformed
    <3>1. \A b \in Agent : j[b] \notin Malformed
      BY DEF Pairing
    <3>2. NoTask \notin Malformed
      BY PoolAssumption
    <3> QED BY <2>6, <3>1, <3>2
  <2>12. \A b \in se : job'[b] # NoTask
    BY <2>4, <2>6 DEF Pairing
  <2> QED BY <2>7, <2>8, <2>9, <2>10, <2>11, <2>12 DEF Pairing
<1>3. ASSUME Pairing(job, state, settled)' PROVE FlightMatchesJob' /\ IdleHasNoJob' /\ Strengthening'
  BY <1>3, PairingIsTheRest, PTL
<1> QED BY <1>1, <1>2, <1>3 DEF Dispatched

-----------------------------------------------------------------------------
(***************************************************************************)
(* The invariant holds initially and is kept by every step.                *)
(***************************************************************************)
LEMMA InvInit == Init => IInv
<1> SUFFICES ASSUME Init PROVE IInv
  OBVIOUS
<1>1. Len(queue) = 0
  BY DEF Init
<1>2. OnePlace
  BY <1>1 DEF Init, OnePlace, Queued, Flying, Settled, Finished
<1>3. FlightMatchesJob /\ IdleHasNoJob /\ Strengthening
  BY PoolAssumption DEF Init, FlightMatchesJob, IdleHasNoJob, Strengthening, Flying
<1> QED BY <1>2, <1>3, TypeInit DEF IInv

(***************************************************************************)
(* The pairing of agents and tasks speaks only of inFlight, job, state,    *)
(* settled and rejecting, and is kept when agents are only terminated; the *)
(* places of tasks do not depend on the fleet.                             *)
(***************************************************************************)
LEMMA FleetStep ==
    ASSUME IInv, UNCHANGED <<work, tasks>>,
           \A a \in Agent : state'[a] = "idle" => job[a] = NoTask
    PROVE  OnePlace' /\ FlightMatchesJob' /\ IdleHasNoJob' /\ Strengthening'
BY DEF IInv, work, tasks, OnePlace, FlightMatchesJob, IdleHasNoJob, Strengthening,
       Queued, Flying, Settled, Finished

LEMMA TerminateIdle ==
    ASSUME TypeOK, IdleHasNoJob, NEW a \in Agent, Terminate(a)
    PROVE  \A b \in Agent : state'[b] = "idle" => job[b] = NoTask
<1> DEFINE st == [state EXCEPT ![a] = "terminated"]
<1>1. st \in [Agent -> AgentState] /\ \A b \in Agent : st[b] = "idle" => state[b] = "idle"
  BY DEF TypeOK, AgentState
<1>2. state' = ScaledDown(st)
  BY DEF Terminate, StatesBecome
<1> HIDE DEF st
<1>3. \A b \in Agent : state'[b] = "idle" => state[b] = "idle"
  BY <1>1, <1>2, ScalingTypes
<1> QED BY <1>3 DEF IdleHasNoJob

LEMMA SendResultStep ==
    ASSUME IInv, NEW a \in Agent, SendResult(a)
    PROVE  OnePlace' /\ FlightMatchesJob' /\ IdleHasNoJob' /\ Strengthening'
<1>0. PICK t \in Task : t = job[a]
  BY DEF IInv, TypeOK, SendResult
<1>1. inFlight[t] = a /\ Flying(t) /\ t \notin rejecting
  BY <1>0, PoolAssumption DEF IInv, TypeOK, SendResult, FlightMatchesJob, Strengthening, Flying
<1>2. /\ inFlight' = [inFlight EXCEPT ![t] = NoAgent]
      /\ settled' = settled \cup {a}
      /\ UNCHANGED <<job, state, queue, rejecting, refused, submitted>>
  BY <1>0 DEF SendResult, fleet
<1>3. \/ backoff' = backoff /\ Finished(t)' /\ \A u \in Task : u # t => history'[u] = history[u]
      \/ backoff' = backoff \cup {t} /\ history' = history
  BY <1>0, <1>1 DEF IInv, TypeOK, SendResult, Completed, Retrying, DeadLettered, Finished, Outcome
<1>4. /\ ~ Flying(t)'
      /\ \A u \in Task : u # t => (Flying(u)' <=> Flying(u)) /\ inFlight'[u] = inFlight[u]
  BY <1>1, <1>2 DEF IInv, TypeOK, Flying
<1>5. /\ ~ Queued(t) /\ t \notin backoff /\ ~ Settled(t) /\ t \in submitted
      /\ \A u \in Task : Queued(u)' <=> Queued(u)
  BY <1>1, <1>2 DEF IInv, OnePlace, Queued
<1>6. \A u \in Task : u # t => (Finished(u)' <=> Finished(u)) /\ (u \in backoff' <=> u \in backoff)
  BY <1>3 DEF Finished
<1>7. OnePlace'
  <2>1. ASSUME NEW u \in Task, u # t
        PROVE  /\ Queued(u)' <=> Queued(u)
               /\ Flying(u)' <=> Flying(u)
               /\ u \in backoff' <=> u \in backoff
               /\ Finished(u)' <=> Finished(u)
               /\ Settled(u)' <=> Settled(u)
    BY <2>1, <1>2, <1>4, <1>5, <1>6 DEF Settled
  <2>2. /\ ~ Queued(t)' /\ ~ Flying(t)' /\ t \notin refused /\ t \in submitted
        /\ \/ Finished(t)' /\ t \notin backoff'
           \/ ~ Finished(t)' /\ t \in backoff'
    BY <1>3, <1>4, <1>5 DEF Settled, Finished
  <2>3. /\ submitted' = submitted /\ submitted \subseteq Task /\ refused' = refused
        /\ \A i, k \in 1..Len(queue') : queue'[i] = queue'[k] => i = k
    BY <1>2 DEF IInv, TypeOK, OnePlace
  <2> QED BY <2>1, <2>2, <2>3 DEF IInv, OnePlace, Settled
<1>8. FlightMatchesJob'
  <2>1. ASSUME NEW u \in Task, Flying(u)', u \notin rejecting'
        PROVE  job'[inFlight'[u]] = u /\ inFlight'[u] \notin settled'
    <3>1. u # t /\ Flying(u) /\ inFlight'[u] = inFlight[u]
      BY <1>4, <2>1
    <3>2. job[inFlight[u]] = u /\ inFlight[u] \notin settled
      BY <3>1, <2>1, <1>2 DEF IInv, FlightMatchesJob
    <3>3. inFlight[u] # a
      BY <3>1, <3>2, <1>0
    <3> QED BY <3>1, <3>2, <3>3, <1>2
  <2>2. ASSUME NEW b \in Agent, job'[b] # NoTask, b \notin settled'
        PROVE  inFlight'[job'[b]] = b
    <3>1. b # a /\ inFlight[job[b]] = b /\ job[b] \in Task /\ job[b] # t
      BY <1>1, <1>2, <2>2 DEF IInv, FlightMatchesJob, TypeOK
    <3> QED BY <3>1, <1>1, <1>2, <1>4
  <2> QED BY <2>1, <2>2 DEF FlightMatchesJob
<1>9. IdleHasNoJob'
  BY <1>2 DEF IInv, IdleHasNoJob
<1>10. Strengthening'
  <2>1. \A u \in rejecting : u \in Task /\ u # t
    BY <1>1 DEF IInv, TypeOK
  <2>2. job[a] # NoTask
    BY <1>0, PoolAssumption
  <2> QED BY <1>2, <1>4, <2>1, <2>2 DEF IInv, Strengthening
<1> QED BY <1>7, <1>8, <1>9, <1>10

LEMMA DispatchErrorStep ==
    ASSUME IInv, NEW t \in Task, DispatchError(t)
    PROVE  OnePlace' /\ FlightMatchesJob' /\ IdleHasNoJob' /\ Strengthening'
<1>1. /\ inFlight' = [inFlight EXCEPT ![t] = NoAgent]
      /\ rejecting' = rejecting \ {t} /\ refused' = refused \cup {t} /\ t \in rejecting
      /\ UNCHANGED <<job, settled, state, queue, backoff, submitted, history>>
  BY DEF DispatchError, fleet, work
<1>2. /\ Flying(t) /\ ~ Flying(t)'
      /\ \A u \in Task : u # t => (Flying(u)' <=> Flying(u)) /\ inFlight'[u] = inFlight[u]
  BY <1>1 DEF IInv, TypeOK, Strengthening, Flying
<1>3. OnePlace'
  <2>1. ASSUME NEW u \in Task, u # t
        PROVE  /\ Queued(u)' <=> Queued(u)
               /\ Finished(u)' <=> Finished(u)
               /\ Settled(u)' <=> Settled(u)
    BY <2>1, <1>1 DEF Settled, Finished, Queued
  <2>2. ~ Queued(t)' /\ t \notin backoff /\ ~ Finished(t)' /\ t \in submitted
    BY <1>1, <1>2 DEF IInv, OnePlace, Settled, Finished, Queued
  <2>3. /\ submitted \subseteq Task
        /\ \A i, k \in 1..Len(queue') : queue'[i] = queue'[k] => i = k
    BY <1>1 DEF IInv, TypeOK, OnePlace
  <2> QED BY <1>1, <1>2, <2>1, <2>2, <2>3 DEF IInv, OnePlace, Settled
<1>4. \A a \in Agent : job[a] # t
  BY <1>1 DEF IInv, Strengthening
<1>5. FlightMatchesJob'
  BY <1>1, <1>2, <1>4 DEF IInv, TypeOK, FlightMatchesJob
<1>6. IdleHasNoJob' /\ Strengthening'
  <2>1. \A u \in rejecting' : u \in Task /\ u # t
    BY <1>1 DEF IInv, TypeOK
  <2> QED BY <1>1, <1>2, <2>1 DEF IInv, IdleHasNoJob, Strengthening
<1> QED BY <1>3, <1>5, <1>6

(***************************************************************************)
(* The three handlers that dispatch.                                       *)
(***************************************************************************)
LEMMA SubmitStep ==
    ASSUME IInv, NEW t \in Task, Submit(t)
    PROVE  OnePlace' /\ FlightMatchesJob' /\ IdleHasNoJob' /\ Strengthening'
<1>1. PICK q \in Enqueued(queue, t) : DispatchNext(q, job, state, 0)
  BY DEF Submit
<1>2. /\ t \notin submitted /\ submitted' = submitted \cup {t}
      /\ UNCHANGED <<settled, backoff, refused, history>>
  BY DEF Submit
<1>3. TypeOK /\ queue \in Seq(Task) /\ Places(queue, backoff, submitted) /\ Pairing(job, state, settled)
  BY PlacesIsOnePlace, PairingIsTheRest DEF IInv, TypeOK
<1>4. ~ In(t, queue) /\ ~ Flying(t) /\ t \notin backoff /\ ~ Settled(t)
  BY <1>2, <1>3 DEF Places
<1>5. /\ q \in Seq(Task) /\ Distinct(q)
      /\ \A u \in Task : In(u, q) <=> u = t \/ In(u, queue)
  BY <1>1, <1>3, <1>4, EnqueuedProperties DEF Places
<1>6. Places(q, backoff, submitted \cup {t})
  BY <1>3, <1>4, <1>5 DEF Places, TypeOK
<1>7. Dispatched(q, job, state)
  BY <1>1, <1>3, <1>5, DispatchEffect DEF TypeOK
<1>8. OnePlace'
  BY <1>2, <1>3, <1>5, <1>6, <1>7, DispatchKeepsPlaces DEF TypeOK
<1> QED BY <1>2, <1>3, <1>5, <1>6, <1>7, <1>8, DispatchKeepsPairing DEF TypeOK

LEMMA RetryTimerStep ==
    ASSUME IInv, NEW t \in Task, RetryTimer(t)
    PROVE  OnePlace' /\ FlightMatchesJob' /\ IdleHasNoJob' /\ Strengthening'
<1>1. PICK q \in Enqueued(queue, t) : DispatchNext(q, job, state, 0)
  BY DEF RetryTimer
<1>2. /\ t \in backoff /\ backoff' = backoff \ {t}
      /\ UNCHANGED <<settled, submitted, refused, history>>
  BY DEF RetryTimer
<1>3. TypeOK /\ queue \in Seq(Task) /\ Places(queue, backoff, submitted) /\ Pairing(job, state, settled)
  BY PlacesIsOnePlace, PairingIsTheRest DEF IInv, TypeOK
<1>4. ~ In(t, queue) /\ ~ Flying(t) /\ ~ Settled(t) /\ t \in submitted
  BY <1>2, <1>3 DEF Places
<1>5. /\ q \in Seq(Task) /\ Distinct(q)
      /\ \A u \in Task : In(u, q) <=> u = t \/ In(u, queue)
  BY <1>1, <1>3, <1>4, EnqueuedProperties DEF Places
<1>6. Places(q, backoff \ {t}, submitted)
  BY <1>3, <1>4, <1>5 DEF Places, TypeOK
<1>7. Dispatched(q, job, state)
  BY <1>1, <1>3, <1>5, DispatchEffect DEF TypeOK
<1>8. OnePlace'
  BY <1>2, <1>3, <1>5, <1>6, <1>7, DispatchKeepsPlaces DEF TypeOK
<1> QED BY <1>2, <1>3, <1>5, <1>6, <1>7, <1>8, DispatchKeepsPairing DEF TypeOK

LEMMA GoIdleStep ==
    ASSUME IInv, NEW a \in Agent, GoIdle(a)
    PROVE  OnePlace' /\ FlightMatchesJob' /\ IdleHasNoJob' /\ Strengthening'
<1> DEFINE idle == [state EXCEPT ![a] = "idle"]
           free == [job EXCEPT ![a] = NoTask]
           st   == ScaledDown(idle)
<1>1. /\ DispatchNext(queue, free, st, ScaledUp(idle))
      /\ a \in settled /\ settled' = settled \ {a}
      /\ UNCHANGED <<backoff, submitted, refused, history>>
  BY DEF GoIdle
<1>2. TypeOK /\ queue \in Seq(Task) /\ Places(queue, backoff, submitted) /\ Pairing(job, state, settled)
  BY PlacesIsOnePlace, PairingIsTheRest DEF IInv, TypeOK
<1>3. /\ idle \in [Agent -> AgentState] /\ free \in [Agent -> Task \cup {NoTask}]
      /\ \A b \in Agent : b # a => free[b] = job[b] /\ idle[b] = state[b]
      /\ free[a] = NoTask
  BY <1>2 DEF TypeOK, AgentState
<1> HIDE DEF idle, free
<1>4. /\ ScaledUp(idle) \in Nat /\ st \in [Agent -> AgentState]
      /\ \A b \in Agent : st[b] = "idle" => idle[b] = "idle"
  BY <1>3, ScalingTypes
<1> HIDE DEF st
<1>5. Pairing(free, st, settled \ {a})
  <2>1. ASSUME NEW t \in Task, Flying(t), t \notin rejecting
        PROVE  free[inFlight[t]] = t /\ inFlight[t] \notin settled \ {a}
    <3>1. inFlight[t] \in Agent /\ job[inFlight[t]] = t /\ inFlight[t] \notin settled
      BY <2>1, <1>2 DEF Pairing, TypeOK, Flying
    <3> QED BY <3>1, <1>1, <1>3
  <2>2. ASSUME NEW b \in Agent, free[b] # NoTask, b \notin settled \ {a}
        PROVE  inFlight[free[b]] = b
    BY <2>2, <1>2, <1>3 DEF Pairing
  <2>3. ASSUME NEW b \in Agent
        PROVE  (st[b] = "idle" => free[b] = NoTask) /\ free[b] \notin Malformed
    BY <1>2, <1>3, <1>4, PoolAssumption DEF Pairing
  <2> QED BY <2>1, <2>2, <2>3, <1>2, <1>3 DEF Pairing, TypeOK
<1>6. Dispatched(queue, free, st)
  BY <1>1, <1>2, <1>3, <1>4, DispatchEffect
<1>7. OnePlace'
  BY <1>1, <1>2, <1>6, DispatchKeepsPlaces DEF TypeOK
<1> QED BY <1>1, <1>2, <1>3, <1>4, <1>5, <1>6, <1>7, DispatchKeepsPairing DEF TypeOK

LEMMA InvStep == IInv /\ [Next]_vars => IInv'
<1> SUFFICES ASSUME IInv, [Next]_vars
             PROVE  OnePlace' /\ FlightMatchesJob' /\ IdleHasNoJob' /\ Strengthening'
  BY TypeStep DEF IInv
<1>0. TypeOK /\ IdleHasNoJob /\ \A a \in Agent : state[a] = "idle" => job[a] = NoTask
  BY DEF IInv, IdleHasNoJob
<1>1. ASSUME NEW t \in Task, Submit(t) \/ RetryTimer(t) \/ DispatchError(t)
      PROVE  OnePlace' /\ FlightMatchesJob' /\ IdleHasNoJob' /\ Strengthening'
  BY <1>1, SubmitStep, RetryTimerStep, DispatchErrorStep
<1>2. ASSUME NEW a \in Agent, SendResult(a) \/ GoIdle(a)
      PROVE  OnePlace' /\ FlightMatchesJob' /\ IdleHasNoJob' /\ Strengthening'
  BY <1>2, SendResultStep, GoIdleStep
<1>3. ASSUME UNCHANGED <<work, tasks, state>>
      PROVE  OnePlace' /\ FlightMatchesJob' /\ IdleHasNoJob' /\ Strengthening'
  BY <1>0, <1>3, FleetStep
<1>4. ASSUME NEW a \in Agent, Register(a)
      PROVE  OnePlace' /\ FlightMatchesJob' /\ IdleHasNoJob' /\ Strengthening'
  <2>1. UNCHANGED <<work, tasks>> /\ job[a] = NoTask
    BY <1>4 DEF Register
  <2>2. \A b \in Agent : state'[b] = "idle" => job[b] = NoTask
    BY <1>0, <1>4, <2>1 DEF Register, TypeOK
  <2> QED BY <2>1, <2>2, FleetStep
<1>5. ASSUME NEW a \in Agent, Terminate(a)
      PROVE  OnePlace' /\ FlightMatchesJob' /\ IdleHasNoJob' /\ Strengthening'
  <2>1. UNCHANGED <<work, tasks>>
    BY <1>5 DEF Terminate
  <2> QED BY <1>0, <1>5, <2>1, TerminateIdle, FleetStep
<1>6. CASE Shutdown
  <2>1. UNCHANGED <<work, tasks>>
    BY <1>6 DEF Shutdown
  <2>2. \A b \in Agent : state'[b] = "idle" => job[b] = NoTask
    BY <1>0, <1>6 DEF Shutdown
  <2> QED BY <2>1, <2>2, FleetStep
<1>7. ASSUME NEW a \in Agent, Deregister(a)
      PROVE  OnePlace' /\ FlightMatchesJob' /\ IdleHasNoJob' /\ Strengthening'
  BY <1>3, <1>7 DEF Deregister
<1>8. ASSUME NEW a \in Agent, TerminateAgent(a) \/ ShrinkNext(a)
      PROVE  OnePlace' /\ FlightMatchesJob' /\ IdleHasNoJob' /\ Strengthening'
  BY <1>3, <1>5, <1>8 DEF TerminateAgent, ShrinkNext
<1>9. ASSUME NEW n \in ReplicaChoices, UpdateSpec(n)
      PROVE  OnePlace' /\ FlightMatchesJob' /\ IdleHasNoJob' /\ Strengthening'
  BY <1>3, <1>9 DEF UpdateSpec
<1>10. CASE Start \/ Stop \/ ClearAgents
  BY <1>3, <1>10 DEF Start, Stop, ClearAgents, fleet
<1>11. CASE UNCHANGED vars
  BY <1>3, <1>11 DEF vars, fleet
<1> QED
  BY <1>1, <1>2, <1>4, <1>6, <1>7, <1>8, <1>9, <1>10, <1>11
     DEF Next, Internal, Owner, Drained, DrainDeadline

LEMMA Invariance == Spec => []IInv
<1> QED BY InvInit, InvStep, PTL DEF Spec

-----------------------------------------------------------------------------
(***************************************************************************)
(* No accepted task is lost, duplicated or in two places at once; results  *)
(* find the entry of their own task; and the agents selectAgent() takes    *)
(* for available execute nothing.                                          *)
(***************************************************************************)
THEOREM JobsAreAccountedFor == Spec => []JobsAccounted
<1>1. IInv => JobsAccounted
  BY DEF IInv, JobsAccounted
<1> QED BY Invariance, <1>1, PTL

(***************************************************************************)
(* An outcome is final: the only step that writes taskHistory writes it    *)
(* for a task in flight, and such a task has no outcome yet.               *)
(***************************************************************************)
LEMMA OutcomeStep ==
    ASSUME IInv, [Next]_vars, NEW t \in Task, Settled(t)
    PROVE  history'[t] = history[t] /\ Settled(t)'
<1>1. ASSUME NEW a \in Agent, SendResult(a) PROVE history'[t] = history[t] /\ Settled(t)'
  <2>1. job[a] \in Task /\ job[a] # t
    BY <1>1, PoolAssumption
       DEF IInv, TypeOK, SendResult, FlightMatchesJob, OnePlace, Flying
  <2>2. history'[t] = history[t] /\ refused' = refused
    BY <1>1, <2>1 DEF IInv, TypeOK, SendResult, Completed, Retrying, DeadLettered
  <2> QED BY <2>2 DEF Settled, Finished
<1>2. CASE history' = history /\ refused \subseteq refused'
  BY <1>2 DEF Settled, Finished
<1>3. ASSUME NEW u \in Task, Submit(u) \/ RetryTimer(u) \/ DispatchError(u)
      PROVE  history' = history /\ refused \subseteq refused'
  BY <1>3 DEF Submit, RetryTimer, DispatchError
<1>4. ASSUME NEW a \in Agent, GoIdle(a) \/ Register(a) \/ Deregister(a) \/ Terminate(a)
                              \/ TerminateAgent(a) \/ ShrinkNext(a)
      PROVE  history' = history /\ refused \subseteq refused'
  BY <1>4 DEF GoIdle, Register, Deregister, Terminate, TerminateAgent, ShrinkNext, tasks
<1>5. ASSUME NEW n \in ReplicaChoices, UpdateSpec(n)
      PROVE  history' = history /\ refused \subseteq refused'
  BY <1>5 DEF UpdateSpec, tasks
<1>6. CASE Start \/ Stop \/ Shutdown \/ ClearAgents \/ UNCHANGED vars
  BY <1>2, <1>6 DEF Start, Stop, Shutdown, ClearAgents, vars, tasks
<1> QED
  BY <1>1, <1>2, <1>3, <1>4, <1>5, <1>6 DEF Next, Internal, Owner, Drained, DrainDeadline

THEOREM OutcomesAreFinal == Spec => OutcomeFinal
<1>1. IInv /\ IInv' /\ [Next]_vars =>
        [\A t \in Task : Settled(t) =>
            history'[t] = history[t] /\ ~ Flying(t)' /\ ~ Queued(t)' /\ t \notin backoff']_vars
  <2> SUFFICES ASSUME IInv, IInv', [Next]_vars, NEW t \in Task, Settled(t)
               PROVE  history'[t] = history[t] /\ ~ Flying(t)' /\ ~ Queued(t)' /\ t \notin backoff'
    OBVIOUS
  <2>1. history'[t] = history[t] /\ Settled(t)'
    BY OutcomeStep
  <2> QED BY <2>1 DEF IInv, OnePlace
<1> QED BY Invariance, <1>1, PTL DEF Spec, OutcomeFinal

-----------------------------------------------------------------------------
(***************************************************************************)
(* The tries of a task.  A task behind a retry timer has a retry left; and *)
(* deadLetters holds one entry for each task that has failed for good, and *)
(* nothing else.                                                           *)
(***************************************************************************)
Tries ==
    /\ \A t \in Task : retries[t] <= MaxRetries[t]
    /\ \A t \in backoff : retries[t] < MaxRetries[t]
    /\ \A i \in 1..Len(deadLetters) :
          /\ deadLetters[i].attempts = MaxRetries[deadLetters[i].task] + 1
          /\ history[deadLetters[i].task] = "failure"
    /\ \A t \in Task : history[t] = "failure" =>
          \E i \in 1..Len(deadLetters) : deadLetters[i].task = t
    /\ \A i, k \in 1..Len(deadLetters) : deadLetters[i].task = deadLetters[k].task => i = k

\* A result is that of a task in flight, which has no outcome yet; so the
\* entry that the last failure appends is the first one of its task.
LEMMA ResultKeepsTries ==
    ASSUME IInv, Tries, NEW a \in Agent, SendResult(a)
    PROVE  Tries'
<1> USE PoolAssumption
<1>1. PICK t \in Task : t = job[a]
  BY DEF IInv, TypeOK, SendResult
<1>2. history[t] = "none" /\ retries' = retries
  BY <1>1 DEF IInv, TypeOK, SendResult, FlightMatchesJob, OnePlace, Flying, Settled, Finished
<1>3. /\ deadLetters \in Seq([task : Task, attempts : Nat])
      /\ retries \in [Task -> Nat] /\ history \in [Task -> Outcome]
  BY DEF IInv, TypeOK
<1>4. \A i \in 1..Len(deadLetters) : deadLetters[i].task \in Task /\ deadLetters[i].task # t
  <2>1. \A i \in 1..Len(deadLetters) : deadLetters[i] \in [task : Task, attempts : Nat]
    BY <1>3, ElementOfSeq
  <2>2. \A i \in 1..Len(deadLetters) : history[deadLetters[i].task] = "failure"
    BY DEF Tries
  <2> QED BY <1>2, <2>1, <2>2
<1>5. CASE Completed(t)
  <2>1. /\ \A u \in Task : u # t => history'[u] = history[u]
        /\ history'[t] # "failure"
        /\ UNCHANGED <<backoff, deadLetters>>
    BY <1>3, <1>5 DEF Completed
  <2>2. \A i \in 1..Len(deadLetters) :
           /\ deadLetters[i].attempts = MaxRetries[deadLetters[i].task] + 1
           /\ history'[deadLetters[i].task] = "failure"
    BY <1>4, <2>1 DEF Tries
  <2>3. \A u \in Task : history'[u] = "failure" =>
           \E i \in 1..Len(deadLetters) : deadLetters[i].task = u
    BY <2>1 DEF Tries
  <2> QED BY <1>2, <2>1, <2>2, <2>3 DEF Tries
<1>6. CASE Retrying(t)
  BY <1>2, <1>6 DEF Retrying, Tries
<1>7. CASE DeadLettered(t)
  <2> DEFINE entry == [task |-> t, attempts |-> retries[t] + 1]
  <2>1. /\ Len(deadLetters') = Len(deadLetters) + 1
        /\ \A i \in 1..Len(deadLetters) : deadLetters'[i] = deadLetters[i]
        /\ deadLetters'[Len(deadLetters) + 1] = entry
    BY <1>3, <1>7 DEF DeadLettered
  <2>2. entry.task = t /\ entry.attempts = MaxRetries[t] + 1
    BY <1>3, <1>7 DEF DeadLettered, Tries
  <2>3. /\ history'[t] = "failure" /\ \A u \in Task : u # t => history'[u] = history[u]
        /\ backoff' = backoff
    BY <1>3, <1>7 DEF DeadLettered
  <2> HIDE DEF entry
  <2>4. Len(deadLetters) \in Nat /\ 1..Len(deadLetters') = 1..Len(deadLetters) \cup {Len(deadLetters) + 1}
    BY <1>3, <2>1
  <2>5. ASSUME NEW i \in 1..Len(deadLetters')
        PROVE  /\ deadLetters'[i].attempts = MaxRetries[deadLetters'[i].task] + 1
               /\ history'[deadLetters'[i].task] = "failure"
    <3>1. CASE i \in 1..Len(deadLetters)
      BY <1>4, <2>1, <2>3, <3>1 DEF Tries
    <3>2. CASE i = Len(deadLetters) + 1
      BY <2>1, <2>2, <2>3, <3>2
    <3> QED BY <2>4, <3>1, <3>2
  <2>6. ASSUME NEW u \in Task, history'[u] = "failure"
        PROVE  \E i \in 1..Len(deadLetters') : deadLetters'[i].task = u
    <3>1. CASE u = t
      BY <2>1, <2>2, <2>4, <3>1
    <3>2. CASE u # t
      <4>1. PICK i \in 1..Len(deadLetters) : deadLetters[i].task = u
        BY <2>3, <2>6, <3>2 DEF Tries
      <4> QED BY <2>1, <2>4, <4>1
    <3> QED BY <3>1, <3>2
  <2>7. ASSUME NEW i \in 1..Len(deadLetters'), NEW k \in 1..Len(deadLetters'),
               deadLetters'[i].task = deadLetters'[k].task
        PROVE  i = k
    BY <1>4, <2>1, <2>2, <2>4, <2>7 DEF Tries
  <2> QED BY <1>2, <2>3, <2>5, <2>6, <2>7 DEF Tries
<1> QED BY <1>1, <1>5, <1>6, <1>7 DEF SendResult

LEMMA TriesStep == IInv /\ Tries /\ [Next]_vars => Tries'
<1> SUFFICES ASSUME IInv, Tries, [Next]_vars PROVE Tries'
  OBVIOUS
<1>1. ASSUME NEW t \in Task, RetryTimer(t) PROVE Tries'
  <2>1. /\ t \in backoff /\ backoff' = backoff \ {t}
        /\ retries' = [retries EXCEPT ![t] = @ + 1]
        /\ UNCHANGED <<history, deadLetters>>
    BY <1>1 DEF RetryTimer
  <2>2. /\ retries'[t] = retries[t] + 1 /\ \A u \in Task : u # t => retries'[u] = retries[u]
        /\ retries[t] \in Nat /\ MaxRetries[t] \in Nat /\ backoff \subseteq Task
    BY <2>1, PoolAssumption DEF IInv, TypeOK
  <2>3. retries'[t] <= MaxRetries[t]
    BY <2>1, <2>2 DEF Tries
  <2> QED BY <2>1, <2>2, <2>3 DEF Tries
<1>2. CASE UNCHANGED <<retries, backoff, history, deadLetters>>
  BY <1>2 DEF Tries
<1>3. ASSUME NEW t \in Task, Submit(t) \/ DispatchError(t) PROVE Tries'
  BY <1>2, <1>3 DEF Submit, DispatchError
<1>4. ASSUME NEW a \in Agent,
             GoIdle(a) \/ Register(a) \/ Deregister(a) \/ TerminateAgent(a) \/ ShrinkNext(a)
      PROVE  Tries'
  BY <1>2, <1>4 DEF GoIdle, Register, Deregister, TerminateAgent, ShrinkNext, Terminate, tasks
<1>5. ASSUME NEW n \in ReplicaChoices, UpdateSpec(n) PROVE Tries'
  BY <1>2, <1>5 DEF UpdateSpec, tasks
<1>6. CASE Start \/ Stop \/ Shutdown \/ ClearAgents \/ UNCHANGED vars
  BY <1>2, <1>6 DEF Start, Stop, Shutdown, ClearAgents, vars, tasks
<1> QED
  BY <1>1, <1>3, <1>4, <1>5, <1>6, ResultKeepsTries
     DEF Next, Internal, Owner, Drained, DrainDeadline

(***************************************************************************)
(* A task is tried at most maxRetries + 1 times, and the dead letter queue *)
(* holds one entry, made after the last try, for each task that failed.    *)
(***************************************************************************)
THEOREM DeadLettersAreLastTries == Spec => []DeadLetterAfterLastTry
<1>1. Init => Tries
  <2> SUFFICES ASSUME Init PROVE Tries
    OBVIOUS
  <2>1. Len(deadLetters) = 0 /\ \A t \in Task : MaxRetries[t] \in Nat
    BY PoolAssumption DEF Init
  <2> QED BY <2>1 DEF Init, Tries
<1>2. Tries => DeadLetterAfterLastTry
  <2> SUFFICES ASSUME Tries, NEW t \in Task, history[t] = "failure"
               PROVE  Cardinality({i \in 1..Len(deadLetters) : deadLetters[i].task = t}) = 1
    BY DEF Tries, DeadLetterAfterLastTry
  <2>1. PICK i \in 1..Len(deadLetters) : deadLetters[i].task = t
    BY DEF Tries
  <2>2. {k \in 1..Len(deadLetters) : deadLetters[k].task = t} = {i}
    BY <2>1 DEF Tries
  <2> QED BY <2>2, FS_Singleton
<1> QED BY Invariance, TriesStep, <1>1, <1>2, PTL DEF Spec

-----------------------------------------------------------------------------
(***************************************************************************)
(* The order of the queue.                                                 *)
(***************************************************************************)
Ordered(q) == \A i, k \in 1..Len(q) : i < k => Rank[q[i]] <= Rank[q[k]]

LEMMA EnqueuedOrdered ==
    ASSUME NEW q \in Seq(Task), NEW t \in Task, NEW r \in Enqueued(q, t), Ordered(q)
    PROVE  Ordered(r)
<1>1. PICK k \in 0..Len(q) :
         /\ r = Inserted(q, t, k)
         /\ \A i \in 1..k : Rank[q[i]] <= Rank[t]
         /\ \A i \in (k + 1)..Len(q) : Rank[t] < Rank[q[i]]
  BY DEF Enqueued, Inserted
<1>2. /\ Len(r) = Len(q) + 1
      /\ \A i \in 1..Len(q) + 1 : r[i] = IF i <= k THEN q[i] ELSE IF i = k + 1 THEN t ELSE q[i - 1]
  <2>1. r = Inserted(q, t, k)
    BY <1>1
  <2> QED BY <2>1, Insertion
<1>3. Rank[t] \in Nat /\ \A i \in 1..Len(q) : Rank[q[i]] \in Nat
  BY PoolAssumption
<1>4. ASSUME NEW i \in 1..Len(q) + 1, NEW m \in 1..Len(q) + 1, i < m
      PROVE  Rank[r[i]] <= Rank[r[m]]
  <2>1. CASE m <= k
    BY <1>2, <1>4, <2>1 DEF Ordered
  <2>2. CASE m = k + 1
    <3>1. r[i] = q[i] /\ r[m] = t /\ i \in 1..k
      BY <1>2, <1>4, <2>2
    <3>2. Rank[q[i]] <= Rank[t]
      BY <1>1, <3>1
    <3> QED BY <3>1, <3>2
  <2>3. CASE m > k + 1 /\ i <= k
    <3>1. r[i] = q[i] /\ r[m] = q[m - 1] /\ i \in 1..Len(q) /\ m - 1 \in 1..Len(q) /\ i < m - 1
      BY <1>2, <2>3
    <3> QED BY <3>1 DEF Ordered
  <2>4. CASE m > k + 1 /\ i = k + 1
    <3>1. r[i] = t /\ r[m] = q[m - 1] /\ m - 1 \in (k + 1)..Len(q) /\ m - 1 \in 1..Len(q)
      BY <1>2, <2>4
    <3>2. Rank[t] < Rank[q[m - 1]]
      BY <1>1, <3>1
    <3> QED BY <1>3, <3>1, <3>2
  <2>5. CASE m > k + 1 /\ i > k + 1
    <3>1. r[i] = q[i - 1] /\ r[m] = q[m - 1] /\ i - 1 \in 1..Len(q) /\ m - 1 \in 1..Len(q) /\ i - 1 < m - 1
      BY <1>2, <1>4, <2>5
    <3> QED BY <3>1 DEF Ordered
  <2> QED BY <2>1, <2>2, <2>3, <2>4, <2>5
<1> QED BY <1>2, <1>4 DEF Ordered

-----------------------------------------------------------------------------
(***************************************************************************)
(* A dispatch takes the head of an ordered queue, if anything.             *)
(***************************************************************************)
HeadTaken(q) ==
    /\ queue' = q \/ (q # <<>> /\ queue' = Tail(q))
    /\ \A t \in Task : Flying(t)' /\ ~ Flying(t) => q # <<>> /\ t = Head(q) /\ queue' = Tail(q)

LEMMA DispatchTakesHead ==
    ASSUME TypeOK, NEW q \in Seq(Task), NEW j, NEW st, Dispatched(q, j, st)
    PROVE  HeadTaken(q)
BY DEF Dispatched, HeadTaken, Flying, TypeOK

LEMMA HeadIsMostUrgent ==
    ASSUME NEW q \in Seq(Task), Ordered(q), HeadTaken(q)
    PROVE  /\ Ordered(queue')
           /\ \A t \in Task : Flying(t)' /\ ~ Flying(t) =>
                 \A i \in 1..Len(queue') : Rank[t] <= Rank[queue'[i]]
<1>1. CASE queue' = q
  <2>1. q # <<>> => q # Tail(q)
    OBVIOUS
  <2> QED BY <1>1, <2>1 DEF HeadTaken
<1>2. CASE q # <<>> /\ queue' = Tail(q)
  <2>1. /\ Head(q) = q[1] /\ Len(q) \in Nat /\ Len(q) >= 1 /\ Len(queue') = Len(q) - 1
        /\ \A i \in 1..Len(queue') : queue'[i] = q[i + 1]
    BY <1>2
  <2>2. \A i \in 1..Len(queue') : Rank[q[1]] <= Rank[queue'[i]]
    BY <2>1 DEF Ordered
  <2>3. Ordered(queue')
    BY <2>1 DEF Ordered
  <2> QED BY <1>2, <2>1, <2>2, <2>3 DEF HeadTaken
<1> QED BY <1>1, <1>2 DEF HeadTaken

LEMMA OrderStep ==
    ASSUME IInv, Ordered(queue), [Next]_vars
    PROVE  /\ Ordered(queue')
           /\ \A t \in Task : Flying(t)' /\ ~ Flying(t) =>
                 \A i \in 1..Len(queue') : Rank[t] <= Rank[queue'[i]]
<1> DEFINE Goal == /\ Ordered(queue')
                   /\ \A t \in Task : Flying(t)' /\ ~ Flying(t) =>
                         \A i \in 1..Len(queue') : Rank[t] <= Rank[queue'[i]]
<1>1. TypeOK /\ queue \in Seq(Task) /\ job \in [Agent -> Task \cup {NoTask}]
      /\ state \in [Agent -> AgentState]
  BY DEF IInv, TypeOK
<1>2. ASSUME NEW t \in Task, Submit(t) \/ RetryTimer(t) PROVE Goal
  <2>1. PICK q \in Enqueued(queue, t) : DispatchNext(q, job, state, 0)
    BY <1>2 DEF Submit, RetryTimer
  <2>2. q \in Seq(Task) /\ Ordered(q)
    BY <1>1, EnqueuedProperties, EnqueuedOrdered
  <2>3. HeadTaken(q)
    BY <1>1, <2>1, <2>2, DispatchEffect, DispatchTakesHead
  <2> QED BY <2>2, <2>3, HeadIsMostUrgent
<1>3. ASSUME NEW a \in Agent, GoIdle(a) PROVE Goal
  <2> DEFINE idle == [state EXCEPT ![a] = "idle"]
             free == [job EXCEPT ![a] = NoTask]
  <2>1. idle \in [Agent -> AgentState] /\ free \in [Agent -> Task \cup {NoTask}]
    BY <1>1 DEF AgentState
  <2>2. DispatchNext(queue, free, ScaledDown(idle), ScaledUp(idle))
    BY <1>3 DEF GoIdle
  <2> HIDE DEF idle, free
  <2>3. HeadTaken(queue)
    BY <1>1, <2>1, <2>2, ScalingTypes, DispatchEffect, DispatchTakesHead
  <2> QED BY <1>1, <2>3, HeadIsMostUrgent
<1>4. CASE queue' = queue /\ \A t \in Task : Flying(t)' => Flying(t)
  BY <1>4
<1>5. ASSUME NEW a \in Agent, SendResult(a) PROVE Goal
  BY <1>1, <1>4, <1>5 DEF SendResult, Flying, TypeOK
<1>6. ASSUME NEW t \in Task, DispatchError(t) PROVE Goal
  BY <1>1, <1>4, <1>6 DEF DispatchError, Flying, TypeOK
<1>7. CASE UNCHANGED <<queue, inFlight>>
  BY <1>4, <1>7 DEF Flying
<1>8. ASSUME NEW a \in Agent, Register(a) \/ Deregister(a) \/ TerminateAgent(a) \/ ShrinkNext(a)
      PROVE  Goal
  BY <1>7, <1>8 DEF Register, Deregister, TerminateAgent, ShrinkNext, Terminate, tasks
<1>9. ASSUME NEW n \in ReplicaChoices, UpdateSpec(n) PROVE Goal
  BY <1>7, <1>9 DEF UpdateSpec, tasks
<1>10. CASE Start \/ Stop \/ Shutdown \/ ClearAgents \/ UNCHANGED vars
  BY <1>7, <1>10 DEF Start, Stop, Shutdown, ClearAgents, vars, tasks
<1> QED
  BY <1>2, <1>3, <1>5, <1>6, <1>8, <1>9, <1>10 DEF Next, Internal, Owner, Drained, DrainDeadline

(***************************************************************************)
(* The head of the queue, the task that goes to an agent, is at least as   *)
(* urgent as every task left waiting: the sort after each push keeps the   *)
(* whole queue in order, and taking the head does.                         *)
(***************************************************************************)
THEOREM UrgentTasksGoFirst == Spec => MostUrgentFirst
<1>1. Init => Ordered(queue)
  BY DEF Init, Ordered
<1>2. IInv /\ Ordered(queue) /\ [Next]_vars => Ordered(queue)'
  BY OrderStep
<1>3. IInv /\ Ordered(queue) /\ [Next]_vars =>
        [\A t \in Task : Flying(t)' /\ ~ Flying(t) =>
            \A i \in 1..Len(queue') : Rank[t] <= Rank[queue'[i]]]_vars
  BY OrderStep
<1> QED BY Invariance, <1>1, <1>2, <1>3, PTL DEF Spec, MostUrgentFirst

-----------------------------------------------------------------------------
(***************************************************************************)
(* A pool of a fixed number of agents, each able to run every task, whose  *)
(* owner awaits start(), starts it once, and never resizes it; tasks pass  *)
(* the schemas.  An agent that joins later, one that cannot run the head,  *)
(* and an assignment that is rejected, each leave tasks queued beside an   *)
(* idle agent, since none of the three is followed by dispatchNext().      *)
(***************************************************************************)
FixedPool ==
    /\ Calls \subseteq {"stop", "terminateAgent"}
    /\ ~ Autoscaling
    /\ Malformed = {}
    /\ \A a \in Agent : CanRun[a] = Task

\* The agents of the one start() are all there before the first submission,
\* and no other ever joins.
FixedFleet ==
    /\ IsFiniteSet(agents)
    /\ spawning = 0 /\ shrink = {}
    /\ starting > 0 => submitted = {}

LEMMA NoScaling ==
    ASSUME FixedPool, NEW st
    PROVE  ScaledUp(st) = 0 /\ ScaledDown(st) = st
BY DEF FixedPool, ScaledUp, ScaledDown, Overloaded, Underloaded

LEMMA NothingSubmittedNothingQueued ==
    ASSUME IInv, submitted = {} PROVE queue = <<>>
<1>1. queue \in Seq(Task) /\ \A t \in Task : ~ Queued(t)
  BY DEF IInv, TypeOK, OnePlace
<1>2. \A i \in 1..Len(queue) : queue[i] \in Task
  BY <1>1, ElementOfSeq
<1>3. Len(queue) = 0
  <2>1. CASE Len(queue) # 0
    <3>1. 1 \in 1..Len(queue)
      BY <1>1, <2>1
    <3> QED BY <1>1, <1>2, <3>1 DEF Queued
  <2> QED BY <2>1
<1> QED BY <1>1, <1>3, EmptySeq

(***************************************************************************)
(* One dispatch is enough when one agent at most is idle, or when one task *)
(* at most is queued.                                                      *)
(***************************************************************************)
LEMMA OneDispatchIsEnough ==
    ASSUME FixedPool, TypeOK, NEW q \in Seq(Task), NEW j, NEW n,
           NEW st \in [Agent -> AgentState],
           DispatchNext(q, j, st, n), UNCHANGED <<running, agents>>,
           \/ \A a, b \in agents : st[a] = "idle" /\ st[b] = "idle" => a = b
           \/ q # <<>> => Tail(q) = <<>>
    PROVE  NoIdleAgentWhileQueued'
<1>1. CASE NoDispatch(q, j, st, n)
  <2>1. /\ ~ running \/ q = <<>> \/ Candidates(Head(q), st) = {}
        /\ queue' = q /\ state' = st
    BY <1>1 DEF NoDispatch, StatesBecome
  <2>2. q # <<>> => Head(q) \in Task
    OBVIOUS
  <2>3. q # <<>> => Candidates(Head(q), st) = {a \in agents : st[a] = "idle"}
    BY <2>2 DEF Candidates, CanTake, FixedPool, TypeOK
  <2> QED BY <2>1, <2>3 DEF NoIdleAgentWhileQueued
<1>2. ASSUME q # <<>>, NEW a \in Candidates(Head(q), st), DispatchTo(a, q, j, st, n)
      PROVE  NoIdleAgentWhileQueued'
  <2> DEFINE busy == [st EXCEPT ![a] = "busy"]
  <2>1. a \in agents /\ a \in Agent /\ st[a] = "idle"
    BY <1>2 DEF Candidates, CanTake, TypeOK
  <2>2. queue' = Tail(q) /\ state' = ScaledDown(busy)
    BY <1>2 DEF DispatchTo, StatesBecome, FixedPool
  <2>3. ScaledDown(busy) = busy
    BY NoScaling
  <2>4. \A b \in agents : state'[b] = "idle" => st[b] = "idle" /\ b # a
    BY <2>1, <2>2, <2>3 DEF TypeOK
  <2> QED BY <1>2, <2>1, <2>2, <2>4 DEF NoIdleAgentWhileQueued
<1> QED BY <1>1, <1>2 DEF DispatchNext

LEMMA FixedStep ==
    ASSUME FixedPool, IInv, FixedFleet, NoIdleAgentWhileQueued, [Next]_vars
    PROVE  FixedFleet' /\ NoIdleAgentWhileQueued'
<1>0. /\ TypeOK /\ queue \in Seq(Task) /\ job \in [Agent -> Task \cup {NoTask}]
      /\ state \in [Agent -> AgentState] /\ agents \subseteq Agent
      /\ "early" \notin Calls /\ "restart" \notin Calls /\ "updateSpec" \notin Calls
  BY DEF IInv, TypeOK, FixedPool
<1>1. ASSUME NEW t \in Task, Submit(t) \/ RetryTimer(t), running
      PROVE  FixedFleet' /\ NoIdleAgentWhileQueued'
  <2>1. /\ UNCHANGED <<running, agents, starting, shrink>>
        /\ starting = 0 \/ submitted' = submitted
    BY <1>0, <1>1 DEF Submit, RetryTimer, lifecycle
  <2>2. PICK q \in Enqueued(queue, t) : DispatchNext(q, job, state, 0)
    BY <1>1 DEF Submit, RetryTimer
  <2>3. q \in Seq(Task) /\ Len(q) = Len(queue) + 1
    BY <1>0, EnqueuedProperties
  <2>5. \/ \A a, b \in agents : state[a] = "idle" /\ state[b] = "idle" => a = b
        \/ q # <<>> => Tail(q) = <<>>
    <3>1. CASE queue = <<>>
      <4>1. Len(q) = 1
        BY <2>3, <3>1
      <4>2. Tail(q) \in Seq(Task) /\ Len(Tail(q)) = 0
        <5>1. q # <<>>
          BY <4>1, EmptySeq
        <5>2. q \in Seq(Task)
          BY <2>3
        <5>3. Tail(q) \in Seq(Task) /\ Len(Tail(q)) = Len(q) - 1
          BY <5>1, <5>2, HeadTailProperties
        <5> QED BY <4>1, <5>3
      <4> QED BY <4>2, EmptySeq
    <3>2. CASE queue # <<>>
      BY <1>1, <3>2 DEF NoIdleAgentWhileQueued
    <3> QED BY <3>1, <3>2
  <2>4. spawning' = 0
    <3> DEFINE busy(a) == [state EXCEPT ![a] = "busy"]
    <3>1. spawning' = spawning + 0 \/ \E a \in Agent : spawning' = spawning + 0 + ScaledUp(busy(a))
      BY <1>0, <2>2 DEF DispatchNext, NoDispatch, DispatchTo, Candidates
    <3>2. \A a \in Agent : ScaledUp(busy(a)) = 0
      BY NoScaling
    <3> HIDE DEF busy
    <3> QED BY <3>1, <3>2 DEF FixedFleet
  <2>6. FixedFleet'
    BY <2>1, <2>4 DEF FixedFleet, IInv, TypeOK
  <2> QED BY <1>0, <2>1, <2>2, <2>3, <2>5, <2>6, OneDispatchIsEnough
<1>2. ASSUME NEW t \in Task, Submit(t) \/ RetryTimer(t), ~ running
      PROVE  FixedFleet' /\ NoIdleAgentWhileQueued'
  <2>1. RetryTimer(t)
    BY <1>0, <1>2 DEF Submit
  <2>2. PICK q \in Enqueued(queue, t) : DispatchNext(q, job, state, 0)
    BY <2>1 DEF RetryTimer
  <2>3. spawning' = spawning + 0
    BY <1>2, <2>2 DEF DispatchNext, NoDispatch
  <2> QED BY <1>2, <2>1, <2>3 DEF RetryTimer, lifecycle, FixedFleet, NoIdleAgentWhileQueued
<1>3. ASSUME NEW a \in Agent, GoIdle(a)
      PROVE  FixedFleet' /\ NoIdleAgentWhileQueued'
  <2> DEFINE idle == [state EXCEPT ![a] = "idle"]
             free == [job EXCEPT ![a] = NoTask]
  <2>1. ScaledDown(idle) = idle /\ ScaledUp(idle) = 0
    BY NoScaling
  <2>2. DispatchNext(queue, free, idle, 0) /\ UNCHANGED <<running, agents, starting, shrink, submitted>>
    BY <1>3, <2>1 DEF GoIdle, lifecycle
  <2>3. spawning' = 0
    <3> DEFINE busy(b) == [idle EXCEPT ![b] = "busy"]
    <3> HIDE DEF idle, free
    <3>1. spawning' = spawning + 0 \/ \E b \in Agent : spawning' = spawning + 0 + ScaledUp(busy(b))
      BY <1>0, <2>2 DEF DispatchNext, NoDispatch, DispatchTo, Candidates
    <3>2. \A b \in Agent : ScaledUp(busy(b)) = 0
      BY NoScaling
    <3> HIDE DEF busy
    <3> QED BY <3>1, <3>2 DEF FixedFleet
  <2>4. FixedFleet'
    BY <2>2, <2>3 DEF FixedFleet
  <2>5. CASE running /\ queue # <<>>
    <3>1. \A b \in agents : idle[b] = "idle" => b = a
      BY <1>0, <2>5 DEF NoIdleAgentWhileQueued
    <3>2. idle \in [Agent -> AgentState]
      BY <1>0 DEF AgentState
    <3> HIDE DEF idle, free
    <3> QED BY <1>0, <2>2, <2>4, <3>1, <3>2, OneDispatchIsEnough
  <2>6. CASE ~ (running /\ queue # <<>>)
    <3>1. queue' = queue
      BY <2>2, <2>6 DEF DispatchNext, NoDispatch
    <3> QED BY <2>2, <2>4, <2>6, <3>1 DEF NoIdleAgentWhileQueued
  <2> QED BY <2>5, <2>6
<1>4. CASE Start
  <2>1. submitted = {} /\ queue = <<>>
    BY <1>0, <1>4, NothingSubmittedNothingQueued DEF Start
  <2> QED BY <1>4, <2>1 DEF Start, tasks, FixedFleet, NoIdleAgentWhileQueued
<1>5. ASSUME NEW a \in Agent, Register(a)
      PROVE  FixedFleet' /\ NoIdleAgentWhileQueued'
  <2>1. starting > 0 /\ starting' = starting - 1 /\ spawning' = spawning
    BY <1>5 DEF Register, FixedFleet
  <2>2. submitted = {} /\ queue = <<>>
    BY <2>1, NothingSubmittedNothingQueued DEF FixedFleet
  <2>3. agents' = agents \cup {a} /\ IsFiniteSet(agents')
    BY <1>5, FS_AddElement DEF Register, FixedFleet
  <2> QED BY <1>5, <2>1, <2>2, <2>3 DEF Register, tasks, FixedFleet, NoIdleAgentWhileQueued
<1>6. ASSUME NEW a \in Agent, TerminateAgent(a)
      PROVE  FixedFleet' /\ NoIdleAgentWhileQueued'
  <2> DEFINE st == [state EXCEPT ![a] = "terminated"]
  <2>1. ScaledDown(st) = st /\ ScaledUp(st) = 0
    BY NoScaling
  <2>2. state' = st /\ spawning' = spawning + 0 /\ UNCHANGED <<lifecycle, agents, starting, work, tasks, shrink>>
    BY <1>6, <2>1 DEF TerminateAgent, Terminate, StatesBecome
  <2>3. \A b \in agents : state'[b] = "idle" => state[b] = "idle"
    BY <1>0, <2>2
  <2> QED BY <2>2, <2>3 DEF lifecycle, tasks, FixedFleet, NoIdleAgentWhileQueued
<1>7. ASSUME NEW a \in Agent, Deregister(a)
      PROVE  FixedFleet' /\ NoIdleAgentWhileQueued'
  <2>1. IsFiniteSet(agents') /\ agents' \subseteq agents
    BY <1>7, FS_RemoveElement DEF Deregister, FixedFleet
  <2> QED BY <1>7, <2>1 DEF Deregister, lifecycle, tasks, FixedFleet, NoIdleAgentWhileQueued
<1>8. CASE Shutdown
  <2>1. PICK n \in 0..(Total * ScaledUp(state)) : spawning' = spawning + n
    BY <1>8 DEF Shutdown
  <2>2. Total * ScaledUp(state) = 0
    BY NoScaling, FS_CardinalityType DEF Total, FixedFleet
  <2> QED BY <1>8, <2>1, <2>2 DEF Shutdown, tasks, FixedFleet, NoIdleAgentWhileQueued
<1>9. CASE ClearAgents
  BY <1>9, FS_EmptySet DEF ClearAgents, tasks, FixedFleet, NoIdleAgentWhileQueued
<1>10. CASE UNCHANGED <<running, queue, agents, state, spawning, shrink, starting, submitted>>
  BY <1>10 DEF FixedFleet, NoIdleAgentWhileQueued
<1>11. ASSUME NEW a \in Agent, SendResult(a)
      PROVE  FixedFleet' /\ NoIdleAgentWhileQueued'
  BY <1>10, <1>11 DEF SendResult, lifecycle, fleet
<1>12. ASSUME NEW t \in Task, DispatchError(t)
      PROVE  FixedFleet' /\ NoIdleAgentWhileQueued'
  BY <1>10, <1>12 DEF DispatchError, lifecycle, fleet
<1>13. CASE Stop \/ UNCHANGED vars
  BY <1>10, <1>13 DEF Stop, vars, lifecycle, fleet, tasks
<1>14. /\ \A a \in Agent : ~ ShrinkNext(a)
       /\ \A n \in ReplicaChoices : ~ UpdateSpec(n)
  BY <1>0 DEF ShrinkNext, UpdateSpec, FixedFleet
<1> QED
  BY <1>1, <1>2, <1>3, <1>4, <1>5, <1>6, <1>7, <1>8, <1>9, <1>11, <1>12, <1>13, <1>14
     DEF Next, Internal, Owner, Drained, DrainDeadline

(***************************************************************************)
(* In a pool of a fixed size no agent is idle while a task waits: one      *)
(* dispatchNext() per submission, retry and idle event keeps up.           *)
(***************************************************************************)
THEOREM AgentsAreKeptBusy ==
    ASSUME FixedPool PROVE Spec => []NoIdleAgentWhileQueued
<1>1. Init => FixedFleet /\ NoIdleAgentWhileQueued
  BY FS_EmptySet DEF Init, FixedFleet, NoIdleAgentWhileQueued
<1>2. IInv /\ FixedFleet /\ NoIdleAgentWhileQueued /\ [Next]_vars
        => (FixedFleet /\ NoIdleAgentWhileQueued)'
  BY FixedStep
<1> QED BY Invariance, <1>1, <1>2, PTL DEF Spec
=============================================================================
