---------------------------- MODULE ServicesProofs ----------------------------
(***************************************************************************)
(* Theorems about the components that MCServices puts side by side, each   *)
(* by itself and for any values of its constants.                          *)
(***************************************************************************)
EXTENDS MCServices, FiniteSetTheorems, WellFoundedInduction, SequenceTheorems, TLAPS

-----------------------------------------------------------------------------
(***************************************************************************)
(* The proof that the token bucket keeps its promise for every rate,       *)
(* burst, clock bound and set of clients.  WindowBound is not inductive: a *)
(* request may be granted long after the last refill.  Account             *)
(* strengthens it to what holds at the time of the last refill, the tokens *)
(* left over included.                                                     *)
(***************************************************************************)
Account ==
    \A k \in Key :
        IF k \in buckets /\ lastRefill[k] >= from
        THEN granted[k] * Cost + tokens[k] <= Burst * Cost + (lastRefill[k] - from) * Rate
        ELSE granted[k] = 0

LimiterInv == TypeOK /\ Account

\* Products with a sum, the only nonlinear arithmetic the proofs need.
LEMMA Distribute ==
    ASSUME NEW a \in Nat, NEW b \in Nat, NEW c \in Nat
    PROVE  /\ a * c \in Nat
           /\ (a + b) * c = a * c + b * c
           /\ (a + 1) * c = a * c + c
    OBVIOUS

\* A refill never exceeds the burst, nor what the time since the last one gives.
LEMMA RefillBounds ==
    ASSUME TypeOK, LimitAssumption, NEW k \in Key
    PROVE  /\ Refilled(k) \in 0..Burst * Cost
           /\ k \in buckets => Refilled(k) <= tokens[k] + (now - lastRefill[k]) * Rate
    <1>1. Burst * Cost \in Nat
        BY Distribute DEF LimitAssumption
    <1>2. now - lastRefill[k] \in Nat
        BY DEF TypeOK
    <1>3. (now - lastRefill[k]) * Rate \in Nat
        BY <1>2, Distribute DEF LimitAssumption
    <1>4. tokens[k] \in 0..Burst * Cost
        BY DEF TypeOK
    <1> QED
        BY <1>1, <1>3, <1>4 DEF Refilled

\* The refill a call of consume() begins with keeps the account.
LEMMA RefillAccount ==
    ASSUME LimiterInv, LimitAssumption, NEW k \in Key, now >= from
    PROVE  granted[k] * Cost + Refilled(k) <= Burst * Cost + (now - from) * Rate
    <1>1. now \in Nat /\ from \in Nat /\ lastRefill[k] \in 0..now /\ granted[k] \in Nat
        BY DEF LimiterInv, TypeOK, LimitAssumption
    <1>2. Cost \in Nat /\ Rate \in Nat /\ Burst \in Nat
        BY DEF LimitAssumption
    <1>3. Refilled(k) \in 0..Burst * Cost
        BY RefillBounds DEF LimiterInv
    <1>4. (now - from) * Rate \in Nat
        BY <1>1, <1>2, Distribute
    <1>5. CASE k \in buckets /\ lastRefill[k] >= from
        <2> DEFINE a == now - lastRefill[k]
                   b == lastRefill[k] - from
        <2>1. a \in Nat /\ b \in Nat /\ now - from = a + b
            BY <1>1, <1>5
        <2>2. (now - from) * Rate = a * Rate + b * Rate
            BY <2>1, <1>2, Distribute
        <2>3. Refilled(k) <= tokens[k] + a * Rate
            BY <1>5, RefillBounds DEF LimiterInv
        <2>4. granted[k] * Cost + tokens[k] <= Burst * Cost + b * Rate
            BY <1>5 DEF LimiterInv, Account
        <2>5. a * Rate \in Nat /\ b * Rate \in Nat /\ granted[k] * Cost \in Nat /\ Burst * Cost \in Nat
            BY <2>1, <1>1, <1>2, Distribute
        <2>6. tokens[k] \in Nat
            BY <2>5 DEF LimiterInv, TypeOK
        <2> HIDE DEF a, b
        <2> QED
            BY <1>3, <2>2, <2>3, <2>4, <2>5, <2>6
    <1>6. CASE ~ (k \in buckets /\ lastRefill[k] >= from)
        <2>1. granted[k] = 0
            BY <1>6 DEF LimiterInv, Account
        <2>2. granted[k] * Cost = 0
            BY <2>1, <1>2
        <2>3. Burst * Cost \in Nat
            BY <1>2, Distribute
        <2> QED
            BY <2>2, <2>3, <1>3, <1>4
    <1> QED
        BY <1>5, <1>6

LEMMA InitInv == ASSUME LimitAssumption PROVE Init => LimiterInv
    <1>1. Burst * Cost \in Nat
        BY Distribute DEF LimitAssumption
    <1> QED
        BY <1>1 DEF LimitAssumption, Init, LimiterInv, TypeOK, Account

\* What both outcomes of consume() have in common.
LEMMA LookAtType ==
    ASSUME TypeOK, LimitAssumption, NEW k \in Key, NEW t \in 0..Burst * Cost, LookAt(k, t),
           granted' \in [Key -> Nat]
    PROVE  TypeOK'
    <1> DEFINE B == Burst * Cost
    <1>1. now \in 0..Horizon /\ from \in 0..Horizon /\ now' = now /\ from' = from
        BY DEF TypeOK, LookAt
    <1>2. buckets' \subseteq Key
        BY DEF TypeOK, LookAt
    <1>3. tokens' \in [Key -> 0..B]
        <2>1. tokens \in [Key -> 0..B] /\ t \in 0..B /\ tokens' = [tokens EXCEPT ![k] = t]
            BY DEF TypeOK, LookAt
        <2> HIDE DEF B
        <2> QED
            BY <2>1
    <1>4. lastRefill' \in [Key -> 0..now']
        BY <1>1 DEF TypeOK, LookAt, LimitAssumption
    <1> QED
        BY <1>1, <1>2, <1>3, <1>4 DEF TypeOK

LEMMA NextInv == ASSUME LimitAssumption, LimiterInv, [Next]_vars PROVE LimiterInv'
    <1>0. Cost \in Nat /\ Cost > 0 /\ Rate \in Nat /\ Burst \in Nat /\ Burst * Cost \in Nat
        BY Distribute DEF LimitAssumption
    <1>1. CASE Tick
        BY <1>1 DEF Tick, bucketVars, LimiterInv, TypeOK, Account, LimitAssumption
    <1>2. ASSUME NEW k \in Key, Grant(k) PROVE LimiterInv'
        <2>1. Refilled(k) \in 0..Burst * Cost
            BY RefillBounds DEF LimiterInv
        <2>2. Refilled(k) - Cost \in 0..Burst * Cost
            BY <1>2, <2>1, <1>0 DEF Grant
        <2>3. granted' \in [Key -> Nat]
            BY <1>2 DEF Grant, LimiterInv, TypeOK
        <2>4. TypeOK'
            BY <1>2, <2>2, <2>3, LookAtType DEF Grant, LimiterInv
        <2>5. ASSUME NEW j \in Key, j # k PROVE
                /\ j \in buckets' <=> j \in buckets
                /\ lastRefill'[j] = lastRefill[j] /\ tokens'[j] = tokens[j] /\ granted'[j] = granted[j]
            BY <1>2, <2>5 DEF Grant, LookAt, LimiterInv, TypeOK
        <2>6. k \in buckets' /\ lastRefill'[k] = now /\ tokens'[k] = Refilled(k) - Cost
            BY <1>2 DEF Grant, LookAt, LimiterInv, TypeOK
        <2>7. from' = from /\ from \in Nat /\ now \in Nat
            BY <1>2 DEF Grant, LookAt, LimiterInv, TypeOK, LimitAssumption
        <2>8. CASE now >= from
            <3>1. granted'[k] = granted[k] + 1
                BY <1>2, <2>8 DEF Grant, LimiterInv, TypeOK
            <3>2. granted[k] \in Nat /\ granted[k] * Cost \in Nat /\ granted'[k] * Cost = granted[k] * Cost + Cost
                BY <3>1, <1>0, Distribute DEF LimiterInv, TypeOK
            <3>3. granted[k] * Cost + Refilled(k) <= Burst * Cost + (now - from) * Rate
                BY <2>8, RefillAccount
            <3>4. (now - from) * Rate \in Nat
                BY <2>7, <2>8, <1>0, Distribute
            <3>5. granted'[k] * Cost + tokens'[k] <= Burst * Cost + (now - from) * Rate
                BY <3>2, <3>3, <3>4, <2>1, <2>6, <1>0
            <3>6. Account'
                BY <2>5, <2>6, <2>7, <2>8, <3>5 DEF LimiterInv, Account
            <3> QED
                BY <2>4, <3>6 DEF LimiterInv
        <2>9. CASE ~ now >= from
            <3>1. granted'[k] = granted[k]
                BY <1>2, <2>9 DEF Grant, LimiterInv, TypeOK
            <3>2. lastRefill[k] \in 0..now
                BY DEF LimiterInv, TypeOK
            <3>3. granted[k] = 0
                BY <2>7, <2>9, <3>2 DEF LimiterInv, Account
            <3>4. Account'
                BY <2>5, <2>6, <2>7, <2>9, <3>1, <3>3 DEF LimiterInv, Account
            <3> QED
                BY <2>4, <3>4 DEF LimiterInv
        <2> QED
            BY <2>8, <2>9
    <1>3. ASSUME NEW k \in Key, Deny(k) PROVE LimiterInv'
        <2>1. Refilled(k) \in 0..Burst * Cost
            BY RefillBounds DEF LimiterInv
        <2>4. TypeOK'
            BY <1>3, <2>1, LookAtType DEF Deny, LimiterInv, TypeOK
        <2>5. ASSUME NEW j \in Key, j # k PROVE
                /\ j \in buckets' <=> j \in buckets
                /\ lastRefill'[j] = lastRefill[j] /\ tokens'[j] = tokens[j] /\ granted'[j] = granted[j]
            BY <1>3, <2>5 DEF Deny, LookAt, LimiterInv, TypeOK
        <2>6. k \in buckets' /\ lastRefill'[k] = now /\ tokens'[k] = Refilled(k) /\ granted'[k] = granted[k]
            BY <1>3 DEF Deny, LookAt, LimiterInv, TypeOK
        <2>7. from' = from /\ from \in Nat /\ now \in Nat
            BY <1>3 DEF Deny, LookAt, LimiterInv, TypeOK, LimitAssumption
        <2>8. CASE now >= from
            <3>1. granted[k] * Cost + Refilled(k) <= Burst * Cost + (now - from) * Rate
                BY <2>8, RefillAccount
            <3>2. Account'
                BY <2>5, <2>6, <2>7, <2>8, <3>1 DEF LimiterInv, Account
            <3> QED
                BY <2>4, <3>2 DEF LimiterInv
        <2>9. CASE ~ now >= from
            <3>2. lastRefill[k] \in 0..now
                BY DEF LimiterInv, TypeOK
            <3>3. granted[k] = 0
                BY <2>7, <2>9, <3>2 DEF LimiterInv, Account
            <3>4. Account'
                BY <2>5, <2>6, <2>7, <2>9, <3>3 DEF LimiterInv, Account
            <3> QED
                BY <2>4, <3>4 DEF LimiterInv
        <2> QED
            BY <2>8, <2>9
    <1>4. CASE UNCHANGED vars
        BY <1>4 DEF vars, bucketVars, LimiterInv, TypeOK, Account
    <1> QED
        BY <1>1, <1>2, <1>3, <1>4 DEF Next

\* At any later time the window is longer than at the last refill.
LEMMA AccountGivesWindow == ASSUME LimitAssumption, LimiterInv PROVE WindowBound
    <1> SUFFICES ASSUME NEW k \in Key
                 PROVE  IF now < from THEN granted[k] = 0
                        ELSE granted[k] * Cost <= Burst * Cost + (now - from) * Rate
        BY DEF WindowBound
    <1>1. lastRefill[k] \in 0..now /\ now \in Nat /\ from \in Nat /\ granted[k] \in Nat
        BY DEF LimiterInv, TypeOK, LimitAssumption
    <1>2. CASE now < from
        BY <1>1, <1>2 DEF LimiterInv, Account
    <1>3. CASE ~ now < from
        <2>1. granted[k] * Cost + Refilled(k) <= Burst * Cost + (now - from) * Rate
            BY <1>1, <1>3, RefillAccount
        <2>2. Refilled(k) \in Nat
            BY RefillBounds DEF LimiterInv
        <2>3. granted[k] * Cost \in Nat /\ Burst * Cost \in Nat /\ (now - from) * Rate \in Nat
            BY <1>1, <1>3, Distribute DEF LimitAssumption
        <2> QED
            BY <1>3, <2>1, <2>2, <2>3
    <1> QED
        BY <1>2, <1>3

(***************************************************************************)
(* consume() grants no more than a burst and the rate allow in any window, *)
(* for every configuration of the limiter.                                 *)
(***************************************************************************)
THEOREM RateIsBounded == Spec => []WindowBound
    <1>1. Init => LimiterInv
        BY InitInv, LimitAssumption
    <1>2. LimiterInv /\ [Next]_vars => LimiterInv'
        BY NextInv, LimitAssumption
    <1>3. LimiterInv => WindowBound
        BY AccountGivesWindow, LimitAssumption
    <1> QED
        BY <1>1, <1>2, <1>3, PTL DEF Spec

-----------------------------------------------------------------------------
(***************************************************************************)
(* The process sandbox.  As long as no call of execute() or initialize()   *)
(* overlaps with a process, one process at most is open, and the one that  *)
(* runs is the one stop() would kill.  While a call of destroy() awaits,   *)
(* and after it, that one slipped in since: destroy() killed what ran.     *)
(***************************************************************************)
Alone ==
    /\ \A j, k \in Jobs : Sandbox!Open(j) /\ Sandbox!Open(k) => j = k
    /\ \A j \in Jobs : Sandbox!Open(j) => status \in {"running", "stopped", "error"}
    /\ \A j \in Jobs : proc[j] = "running" => current = j
    /\ destroying > 0 \/ destroyed => \A j \in Jobs : proc[j] = "running" => j \in slipped

SandboxInv ==
    /\ DOMAIN proc = Jobs /\ destroying \in Nat /\ (destroyed => status = "stopped")
    /\ ~ shared => Alone

LEMMA SandboxInit == Sandbox!Init => SandboxInv
BY DEF Sandbox!Init, SandboxInv, Alone, Sandbox!Open

LEMMA SandboxStep == SandboxInv /\ [Sandbox!Next]_Sandbox!vars => SandboxInv'
<1> SUFFICES ASSUME SandboxInv, [Sandbox!Next]_Sandbox!vars PROVE SandboxInv'
  OBVIOUS
<1> USE DEF SandboxInv, Alone, Sandbox!Open, Sandbox!InUse
<1>1. ASSUME NEW j \in Jobs, Sandbox!Execute(j) PROVE SandboxInv'
  <2>1. /\ proc[j] = "none" /\ status # "stopped" /\ status' = "running" /\ current' = j
        /\ destroyed' = destroyed /\ destroying' = destroying /\ DOMAIN proc' = Jobs /\ proc'[j] = "running"
        /\ destroying > 0 => j \in slipped'
        /\ \A k \in Jobs \ {j} : proc'[k] = proc[k]
    BY <1>1 DEF Sandbox!Execute
  <2>2. ~ shared' => ~ shared /\ \A k \in Jobs : ~ Sandbox!Open(k)
    BY <1>1 DEF Sandbox!Execute
  <2> QED BY <2>1, <2>2
<1>2. ASSUME NEW j \in Jobs, Sandbox!SpawnError(j) PROVE SandboxInv'
  BY <1>2 DEF Sandbox!SpawnError
<1>3. ASSUME NEW j \in Jobs, Sandbox!End(j) \/ Sandbox!Fire(j) PROVE SandboxInv'
  BY <1>3 DEF Sandbox!End, Sandbox!Fire
<1>4. ASSUME NEW j \in Jobs, Sandbox!Close(j) PROVE SandboxInv'
  BY <1>4 DEF Sandbox!Close
\* What ran was the current one, and runs no more.
<1>5. CASE Sandbox!Stop \/ Sandbox!Destroy
  <2>1. /\ DOMAIN proc' = Jobs /\ destroying' \in Nat /\ UNCHANGED <<status, destroyed, slipped, shared>>
        /\ \A j \in Jobs : proc'[j] = IF j = current /\ proc[j] = "running" THEN "dying" ELSE proc[j]
    BY <1>5 DEF Sandbox!Stop, Sandbox!Destroy, Sandbox!KillCurrent
  <2>2. ~ shared => \A j \in Jobs : proc'[j] # "running"
    BY <2>1
  <2> QED BY <2>1, <2>2
<1>6. CASE Sandbox!DestroyEnd
  BY <1>6 DEF Sandbox!DestroyEnd
<1>7. CASE Sandbox!Initialize
  BY <1>7 DEF Sandbox!Initialize
<1>8. CASE UNCHANGED Sandbox!vars
  BY <1>8 DEF Sandbox!vars
<1> QED BY <1>1, <1>2, <1>3, <1>4, <1>5, <1>6, <1>7, <1>8 DEF Sandbox!Next

(***************************************************************************)
(* Nothing runs on in a sandbox that is idle, and nothing in one that was  *)
(* destroyed but what slipped in while destroy() awaited (initialize(),    *)
(* execute(), stop(), both halves of destroy() and the events of the       *)
(* processes, in any order).                                               *)
(***************************************************************************)
THEOREM SandboxEndsItsProcesses == Sandbox!Spec => []Sandbox!NothingRunsOn
<1>1. SandboxInv => Sandbox!NothingRunsOn
  BY DEF SandboxInv, Alone, Sandbox!NothingRunsOn, Sandbox!Open, Sandbox!InUse
<1> QED BY <1>1, SandboxInit, SandboxStep, PTL DEF Sandbox!Spec

-----------------------------------------------------------------------------
(***************************************************************************)
(* The marketplace.  Once there was a pruning, a node that is online gave  *)
(* a sign of life at most the timeout before the last one, and that was at *)
(* most one interval ago.  Nothing that is as good in price and tag and better in one of     *)
(* them scores less: a tag outweighs no difference of prices, and the      *)
(* range the prices are scaled by is that of the candidates.               *)
(***************************************************************************)
MarketBounds == Price \subseteq Int /\ IsFiniteSet(Price) /\ {Stale, Every, Past, Hours} \subseteq Nat

MarketInv ==
    /\ clock \in Nat /\ nextPrune \in Nat /\ nextPrune - Every <= clock /\ clock <= nextPrune
    /\ nodes \in [DOMAIN nodes -> [price : Price, tagged : BOOLEAN,
                                   status : {"online", "offline"}, beat : Int]]
    /\ nextPrune >= Every
    /\ \A n \in DOMAIN nodes : /\ nodes[n].beat <= clock
                               /\ nodes[n].status = "online" /\ nextPrune > Every =>
                                     nextPrune - Every <= nodes[n].beat + Stale
    /\ Market!RoutesToLive

\* A finite set that is not empty has a least and a greatest member: the well-founded
\* order is that of its initial or final segments.
LEMMA ExtremeMember ==
    ASSUME NEW U \in SUBSET Int, IsFiniteSet(U), U # {}, NEW up \in BOOLEAN
    PROVE  /\ Market!Extreme(U, up) \in U
           /\ \A n \in U : IF up THEN Market!Extreme(U, up) >= n ELSE Market!Extreme(U, up) <= n
<1> DEFINE Beyond(m) == {n \in U : IF up THEN n >= m ELSE n <= m}
           T == {Beyond(m) : m \in U}
<1>1. FiniteSubsetsOf(U) = SUBSET U
  BY FS_FiniteSubsetsOfFinite
<1>2. T \subseteq SUBSET U /\ T # {}
  <2>1. \A m \in U : Beyond(m) \subseteq U
    OBVIOUS
  <2>2. PICK u \in U : TRUE
    OBVIOUS
  <2> HIDE DEF Beyond
  <2> QED BY <2>1, <2>2
<1>3. PICK X \in T : \A Y \in T : ~ (<<Y, X>> \in StrictSubsetOrdering(U))
  <2> HIDE DEF T
  <2>1. IsWellFoundedOn(StrictSubsetOrdering(U), SUBSET U)
    BY <1>1, FS_StrictSubsetOrderingWellFounded
  <2> QED BY <2>1, <1>2, WFMin
<1>4. PICK m \in U : X = Beyond(m)
  BY <1>3
<1>5. ASSUME NEW n \in U, IF up THEN n > m ELSE n < m PROVE FALSE
  <2>1. m \in Int /\ n \in Int /\ U \subseteq Int
    OBVIOUS
  <2>2. m \in Beyond(m) /\ m \notin Beyond(n) /\ Beyond(m) \subseteq U
    BY <1>5, <2>1
  <2>3. \A x \in Beyond(n) : x \in Beyond(m)
    BY <1>5, <2>1
  <2>4. Beyond(n) \in T
    OBVIOUS
  <2> HIDE DEF Beyond, T
  <2> QED BY <2>2, <2>3, <2>4, <1>3, <1>4 DEF StrictSubsetOrdering
<1>6. \A n \in U : IF up THEN m >= n ELSE m <= n
  BY <1>5
<1> HIDE DEF Beyond, T
<1>7. \E x \in U : \A y \in U : IF up THEN x >= y ELSE x <= y
  BY <1>6
<1> QED BY <1>7 DEF Market!Extreme

\* The best score goes to a candidate that none of the others beats.
LEMMA BestIsUndominated ==
    ASSUME MarketBounds, MarketInv, NEW limit \in Price, NEW prefer \in BOOLEAN,
           NEW n \in Market!Candidates(limit),
           \A m \in Market!Candidates(limit) :
              Market!Score(n, Market!Candidates(limit), prefer) >= Market!Score(m, Market!Candidates(limit), prefer)
    PROVE  Market!Undominated(n, Market!Candidates(limit), prefer)
<1> DEFINE all == Market!Candidates(limit)
           prices == {nodes[m].price : m \in all}
           lo == Market!Extreme(prices, FALSE)
           hi == Market!Extreme(prices, TRUE)
           span == hi - lo
           range == IF span = 0 THEN 1 ELSE span
<1>1. \A m \in all : m \in DOMAIN nodes /\ nodes[m].price \in Int /\ nodes[m].tagged \in BOOLEAN
  BY DEF MarketBounds, MarketInv, Market!Candidates
<1>2. /\ lo \in Int /\ hi \in Int
      /\ \A m \in all : lo <= nodes[m].price /\ nodes[m].price <= hi
  <2>1. prices \subseteq Price
    BY DEF MarketInv, Market!Candidates
  <2>2. prices \subseteq Int /\ IsFiniteSet(prices) /\ nodes[n].price \in prices
    BY <2>1, FS_Subset DEF MarketBounds
  <2>3. \A m \in all : nodes[m].price \in prices
    OBVIOUS
  <2> HIDE DEF prices
  <2>4. lo \in prices /\ hi \in prices /\ \A p \in prices : lo <= p /\ p <= hi
    BY <2>2, ExtremeMember
  <2> QED BY <2>2, <2>3, <2>4
<1>3. \A m \in all : Market!Score(m, all, prefer) =
         (IF prefer /\ nodes[m].tagged THEN 5 * range ELSE 0)
         - (IF span = 0 THEN 0 ELSE 15 * (nodes[m].price - lo))
  BY DEF Market!Score
<1> HIDE DEF all, prices, lo, hi
<1>4. ASSUME NEW m \in all, nodes[m].price <= nodes[n].price,
             prefer /\ nodes[n].tagged => nodes[m].tagged,
             nodes[m].price < nodes[n].price \/ (prefer /\ nodes[m].tagged /\ ~nodes[n].tagged)
      PROVE  FALSE
  <2>1. Market!Score(n, all, prefer) >= Market!Score(m, all, prefer)
    BY DEF all
  <2>2. n \in all /\ m \in all
    BY DEF all
  <2> QED BY <1>1, <1>2, <1>3, <1>4, <2>1, <2>2
<1> QED BY <1>4 DEF Market!Undominated, all

LEMMA MarketInit == MarketBounds /\ Market!Init => MarketInv
<1> SUFFICES ASSUME MarketBounds, Market!Init PROVE MarketInv
  OBVIOUS
<1>1. PICK known \in SUBSET Node : nodes \in [known -> Market!Row]
  BY DEF Market!Init
<1>2. \A n \in DOMAIN nodes : nodes[n] \in Market!Row
  BY <1>1
<1>3. -Past \in Int /\ -Past <= 0
  BY DEF MarketBounds
<1>4. nodes \in [DOMAIN nodes -> [price : Price, tagged : BOOLEAN, status : {"online", "offline"}, beat : Int]]
  BY <1>1, <1>2, <1>3 DEF Market!Row
<1>5. \A n \in DOMAIN nodes : nodes[n].beat <= 0
  BY <1>2, <1>3 DEF Market!Row
<1> QED BY <1>4, <1>5 DEF MarketBounds, MarketInv, Market!Init, Market!RoutesToLive, Market!Nobody

LEMMA MarketStep == MarketBounds /\ MarketInv /\ [Market!Next]_Market!vars => MarketInv'
<1> SUFFICES ASSUME MarketBounds, MarketInv, [Market!Next]_Market!vars PROVE MarketInv'
  OBVIOUS
<1> USE DEF MarketBounds, Market!RoutesToLive
<1>1. ASSUME NEW n \in Node, NEW price \in Price, NEW tagged \in BOOLEAN,
             Market!Register(n, price, tagged)
      PROVE  MarketInv'
  BY <1>1 DEF MarketInv, Market!Register
<1>2. ASSUME NEW n \in Node, Market!Unregister(n) PROVE MarketInv'
  BY <1>2 DEF MarketInv, Market!Unregister
<1>3. ASSUME NEW n \in Node, Market!Heartbeat(n) PROVE MarketInv'
  BY <1>3 DEF MarketInv, Market!Heartbeat
<1>4. ASSUME NEW limit \in Price, NEW prefer \in BOOLEAN, Market!Route(limit, prefer) PROVE MarketInv'
  <2> DEFINE all == Market!Candidates(limit)
  <2>1. PICK n \in all :
           /\ \A m \in all : Market!Score(n, all, prefer) >= Market!Score(m, all, prefer)
           /\ routed' = [node |-> n, age |-> clock - nodes[n].beat,
                         best |-> Market!Undominated(n, all, prefer), pruned |-> nextPrune > Every]
    BY <1>4 DEF Market!Route
  <2>2. Market!Undominated(n, all, prefer)
    BY <2>1, BestIsUndominated
  <2>3. n \in DOMAIN nodes /\ nodes[n].status = "online"
    BY DEF Market!Candidates
  <2> HIDE DEF all
  <2>4. nextPrune > Every => clock - nodes[n].beat <= Stale + Every
    BY <2>3 DEF MarketInv
  <2> QED BY <1>4, <2>1, <2>2, <2>4 DEF MarketInv, Market!Route
<1>5. CASE Market!Prune
  BY <1>5 DEF MarketInv, Market!Prune
<1>6. CASE Market!Tick
  BY <1>6 DEF MarketInv, Market!Tick
<1>7. CASE UNCHANGED Market!vars
  BY <1>7 DEF MarketInv, Market!vars
<1> QED BY <1>1, <1>2, <1>3, <1>4, <1>5, <1>6, <1>7 DEF Market!Next

(***************************************************************************)
(* From the first pruning of any database on, calls go to nodes that lived *)
(* within the timeout and one interval, and always to none that another    *)
(* candidate beats (search(), route(), pruneStale()).                      *)
(***************************************************************************)
THEOREM CallsGoToTheBestThatLive == ASSUME MarketBounds PROVE Market!Spec => []Market!RoutesToLive
<1>1. MarketInv => Market!RoutesToLive
  BY DEF MarketInv
<1> QED BY <1>1, MarketInit, MarketStep, PTL DEF Market!Spec

-----------------------------------------------------------------------------
(***************************************************************************)
(* The firm's memory.  On an entry that is not unsteady, one call at most  *)
(* is at work, and Progress is what its step tells of the two stores.      *)
(* Without a table there are no vectors, so that createTable() loses none. *)
(***************************************************************************)
Working == {"embed", "create", "clean", "add", "remove"}

Progress(c, e) ==
    /\ step[c] = "remove" <=> e \notin DOMAIN rows
    /\ e \in DOMAIN rows => rows[e] = c
    /\ step[c] = "add" => \A v \in vectors : v.entry # e

MemoryType ==
    /\ DOMAIN step = Uses /\ DOMAIN entry = Uses
    /\ \A c \in Uses :
          /\ step[c] \in {"new", "nearest", "join", "done", "failed"} \cup Working
          /\ step[c] \in Working => entry[c] \in Entries
          /\ step[c] \in {"new", "nearest", "join"} => entry[c] = 0
          /\ step[c] \in {"clean", "add"} => table
    /\ table \/ vectors = {}

Follows(e) ==
    /\ \A c, d \in Uses :
          step[c] \in Working /\ step[d] \in Working /\ entry[c] = e /\ entry[d] = e => c = d
    /\ \A c \in Uses : step[c] \in Working /\ entry[c] = e => Progress(c, e)
    /\ (\A c \in Uses : step[c] \in Working => entry[c] # e) =>
          Memory!Of(e) = IF e \in DOMAIN rows THEN {[entry |-> e, of |-> rows[e]]} ELSE {}

VectorsInv == MemoryType /\ \A e \in Entries \ unsteady : Follows(e)

LEMMA MemoryInit == Memory!Init => VectorsInv
BY DEF Memory!Init, Memory!None, VectorsInv, MemoryType, Follows, Memory!Of, Working

\* A call that goes on, and what the others keep.
LEMMA MemoryGoes ==
    ASSUME MemoryType, NEW c \in Uses, NEW where, Memory!Goes(c, where)
    PROVE  DOMAIN step' = Uses /\ step'[c] = where /\ \A d \in Uses \ {c} : step'[d] = step[d]
BY DEF MemoryType, Memory!Goes

LEMMA BeginInv ==
    ASSUME VectorsInv, 0 \notin Entries, NEW c \in Uses, NEW e \in Entries,
           Memory!Put(c, e) \/ Memory!Delete(c, e)
    PROVE  VectorsInv'
<1>1. /\ step[c] = "new" /\ UNCHANGED <<table, vectors>>
      /\ DOMAIN step' = Uses /\ \A d \in Uses \ {c} : step'[d] = step[d]
      /\ DOMAIN entry' = Uses /\ entry'[c] = e /\ \A d \in Uses \ {c} : entry'[d] = entry[d]
      /\ unsteady' = unsteady \cup IF Memory!Sharing(c, e) # {} THEN {e} ELSE {}
  BY MemoryGoes DEF VectorsInv, MemoryType, Memory!Put, Memory!Delete
<1>2. /\ step'[c] \in {"embed", "remove"}
      /\ step'[c] = "remove" <=> e \notin DOMAIN rows'
      /\ e \in DOMAIN rows' => rows'[e] = c
      /\ \A f \in Entries \ {e} :
            /\ f \in DOMAIN rows' <=> f \in DOMAIN rows
            /\ f \in DOMAIN rows => rows'[f] = rows[f]
  BY MemoryGoes DEF VectorsInv, MemoryType, Memory!Put, Memory!Delete
<1>3. MemoryType'
  BY <1>1, <1>2 DEF VectorsInv, MemoryType, Working
<1>4. ASSUME NEW f \in Entries \ unsteady', f # e PROVE Follows(f)'
  <2>1. Follows(f) /\ \A d \in Uses : step[d] \in Working /\ entry[d] = f => d # c
    BY <1>1, <1>4 DEF VectorsInv, Working
  <2>2. \A d \in Uses : step'[d] \in Working /\ entry'[d] = f <=> step[d] \in Working /\ entry[d] = f
    BY <1>1, <1>4, <2>1
  <2>3. /\ f \in DOMAIN rows' <=> f \in DOMAIN rows
        /\ f \in DOMAIN rows => rows'[f] = rows[f]
    <3>1. f \in Entries \ {e}
      BY <1>4
    <3> QED BY <1>2, <3>1
  <2>4. ASSUME NEW d \in Uses, step[d] \in Working, entry[d] = f PROVE Progress(d, f)'
    <3>1. Progress(d, f) /\ step'[d] = step[d]
      BY <1>1, <2>1, <2>4 DEF Follows
    <3> QED BY <1>1, <2>3, <3>1 DEF Progress
  <2>5. Memory!Of(f)' = Memory!Of(f)
    BY <1>1 DEF Memory!Of
  <2> QED BY <2>1, <2>2, <2>3, <2>4, <2>5 DEF Follows
<1>5. ASSUME e \notin unsteady' PROVE Follows(e)'
  <2>1. \A d \in Uses \ {c} : step[d] \in Working => entry[d] # e
    BY <1>1, <1>5 DEF Memory!Sharing, Memory!Busy, Working
  <2> QED BY <1>1, <1>2, <2>1 DEF Follows, Progress, Working
<1> QED BY <1>3, <1>4, <1>5 DEF VectorsInv

\* The steps that change the vectors of one entry.
LEMMA VectorInv ==
    ASSUME VectorsInv, NEW c \in Uses, Memory!Clean(c) \/ Memory!Add(c) \/ Memory!Drop(c)
    PROVE  VectorsInv'
<1> DEFINE e == entry[c]
<1>1. /\ UNCHANGED <<rows, table, entry, unsteady>>
      /\ DOMAIN step' = Uses /\ \A d \in Uses \ {c} : step'[d] = step[d]
      /\ step[c] \in {"clean", "add", "remove"}
      /\ IF step[c] = "add" THEN vectors' = vectors \cup {[entry |-> e, of |-> c]}
         ELSE vectors' = {v \in vectors : v.entry # e}
      /\ step'[c] = IF step[c] = "clean" THEN "add" ELSE "done"
  BY MemoryGoes DEF VectorsInv, Memory!Clean, Memory!Add, Memory!Drop, Memory!Of
<1>2. e \in Entries
  BY <1>1 DEF VectorsInv, MemoryType, Working
<1>3. MemoryType'
  BY <1>1 DEF VectorsInv, MemoryType, Working
<1>4. ASSUME NEW f \in Entries \ unsteady, f # e PROVE Follows(f)'
  <2>1. Memory!Of(f)' = Memory!Of(f)
    BY <1>1, <1>4 DEF Memory!Of
  <2> QED BY <1>1, <1>4, <2>1 DEF VectorsInv, Follows, Progress, Working
<1>5. ASSUME e \notin unsteady PROVE Follows(e)'
  <2>1. Follows(e) /\ Progress(c, e)
    BY <1>1, <1>2, <1>5 DEF VectorsInv, Follows, Working
  <2>2. \A d \in Uses \ {c} : step'[d] \in Working => entry[d] # e
    BY <1>1, <2>1 DEF Follows, Working
  <2>3. Memory!Of(e)' = IF step[c] = "add" THEN {[entry |-> e, of |-> c]} ELSE {}
    BY <1>1, <2>1 DEF Memory!Of, Progress
  <2>4. step[c] = "clean" => Progress(c, e)'
    BY <1>1, <2>1 DEF Progress
  <2>5. CASE step[c] = "clean"
    BY <1>1, <2>2, <2>4, <2>5 DEF Follows, Working
  <2>6. CASE step[c] # "clean"
    <3>1. Memory!Of(e)' = IF e \in DOMAIN rows THEN {[entry |-> e, of |-> rows[e]]} ELSE {}
      BY <1>1, <2>1, <2>3, <2>6 DEF Progress
    <3>2. \A d \in Uses : step'[d] \in Working => entry[d] # e
      BY <1>1, <2>2, <2>6 DEF Working
    <3> QED BY <1>1, <3>1, <3>2 DEF Follows
  <2> QED BY <2>5, <2>6
<1> QED BY <1>1, <1>3, <1>4, <1>5 DEF VectorsInv

LEMMA CreateTableInv ==
    ASSUME VectorsInv, NEW c \in Uses, Memory!CreateTable(c), ~ table PROVE VectorsInv'
<1>1. /\ UNCHANGED <<rows, entry, unsteady>> /\ table' = TRUE
      /\ DOMAIN step' = Uses /\ \A d \in Uses \ {c} : step'[d] = step[d]
      /\ step[c] = "create" /\ step'[c] = "clean"
      /\ vectors = {} /\ vectors' = {[entry |-> entry[c], of |-> c]}
  BY MemoryGoes DEF VectorsInv, MemoryType, Memory!CreateTable
<1>2. MemoryType'
  BY <1>1 DEF VectorsInv, MemoryType, Working
<1>3. ASSUME NEW f \in Entries \ unsteady PROVE Follows(f)'
  <2>1. Follows(f) /\ \A d \in Uses : step[d] # "add"
    BY <1>1, <1>3 DEF VectorsInv, MemoryType, Memory!CreateTable
  <2>2. f # entry[c] => Memory!Of(f)' = Memory!Of(f)
    BY <1>1 DEF Memory!Of
  <2> QED BY <1>1, <2>1, <2>2 DEF Follows, Progress, Working
<1> QED BY <1>1, <1>2, <1>3 DEF VectorsInv

\* The steps that touch neither store.
LEMMA QuietInv ==
    ASSUME VectorsInv, NEW c \in Uses,
           Memory!Embed(c) \/ Memory!Search(c) \/ Memory!Nearest(c) \/ Memory!Join(c)
    PROVE  VectorsInv'
<1>1. /\ UNCHANGED <<rows, table, vectors, entry, unsteady>>
      /\ DOMAIN step' = Uses /\ \A d \in Uses \ {c} : step'[d] = step[d]
      /\ \/ step[c] = "embed" /\ step'[c] \in {"clean", "create"} /\ (step'[c] = "clean" => table)
         \/ step[c] = "new" /\ step'[c] = "nearest"
         \/ step[c] = "nearest" /\ step'[c] = "join"
         \/ step[c] = "join" /\ step'[c] = "done"
  BY MemoryGoes DEF VectorsInv, Memory!Embed, Memory!Search, Memory!Nearest, Memory!Join
<1>2. MemoryType'
  BY <1>1 DEF VectorsInv, MemoryType, Working
<1>3. ASSUME NEW f \in Entries \ unsteady PROVE Follows(f)'
  BY <1>1, <1>3 DEF VectorsInv, Follows, Progress, Memory!Of, Working
<1> QED BY <1>1, <1>2, <1>3 DEF VectorsInv

\* A call that fails, and a crash, leave their entries unsteady.
LEMMA FailInv ==
    ASSUME VectorsInv, 0 \notin Entries,
           Memory!Crash \/ \E c \in Uses : Memory!Fail(c) \/ (Memory!CreateTable(c) /\ table)
    PROVE  VectorsInv'
<1>1. \E S \in SUBSET Uses :
         /\ UNCHANGED <<rows, table, vectors, entry>> /\ DOMAIN step' = Uses
         /\ \A d \in Uses : step'[d] = IF d \in S THEN "failed" ELSE step[d]
         /\ unsteady' = unsteady \cup ({entry[d] : d \in S} \ {0})
  <2>1. CASE Memory!Crash
    <3> DEFINE S == {d \in Uses : Memory!Busy(d)}
    <3>1. S \in SUBSET Uses /\ \A d \in Uses : d \in S <=> Memory!Busy(d)
      OBVIOUS
    <3>2. /\ UNCHANGED <<rows, table, vectors, entry>>
          /\ step' = [c \in Uses |-> IF Memory!Busy(c) THEN "failed" ELSE step[c]]
          /\ unsteady' = unsteady \cup ({entry[d] : d \in S} \ {0})
      BY <2>1 DEF Memory!Crash, Memory!None
    <3> HIDE DEF S
    <3> QED BY <3>1, <3>2
  <2>2. ASSUME NEW c \in Uses, Memory!Fail(c) \/ (Memory!CreateTable(c) /\ table)
        PROVE  /\ UNCHANGED <<rows, table, vectors, entry>> /\ DOMAIN step' = Uses
               /\ \A d \in Uses : step'[d] = IF d \in {c} THEN "failed" ELSE step[d]
               /\ unsteady' = unsteady \cup ({entry[d] : d \in {c}} \ {0})
    BY <2>2, MemoryGoes DEF VectorsInv, Memory!Fail, Memory!CreateTable, Memory!Fails, Memory!None
  <2>3. CASE \E c \in Uses : Memory!Fail(c) \/ (Memory!CreateTable(c) /\ table)
    <3>1. PICK c \in Uses : Memory!Fail(c) \/ (Memory!CreateTable(c) /\ table)
      BY <2>3
    <3>2. {c} \in SUBSET Uses
      OBVIOUS
    <3> QED BY <2>2, <3>1, <3>2
  <2> QED BY <2>1, <2>3
<1>2. PICK S \in SUBSET Uses :
         /\ UNCHANGED <<rows, table, vectors, entry>> /\ DOMAIN step' = Uses
         /\ \A d \in Uses : step'[d] = IF d \in S THEN "failed" ELSE step[d]
         /\ unsteady' = unsteady \cup ({entry[d] : d \in S} \ {0})
  BY <1>1
<1>3. MemoryType'
  BY <1>2 DEF VectorsInv, MemoryType, Working
<1>4. ASSUME NEW f \in Entries \ unsteady' PROVE Follows(f)'
  <2>1. f \notin unsteady /\ \A d \in S : entry[d] # f
    BY <1>2, <1>4
  <2> QED BY <1>2, <1>4, <2>1 DEF VectorsInv, Follows, Progress, Memory!Of, Working
<1> QED BY <1>3, <1>4 DEF VectorsInv

LEMMA MemoryStep ==
    ASSUME 0 \notin Entries PROVE VectorsInv /\ [Memory!Next]_Memory!vars => VectorsInv'
<1> SUFFICES ASSUME VectorsInv, [Memory!Next]_Memory!vars PROVE VectorsInv'
  OBVIOUS
<1>1. CASE UNCHANGED Memory!vars
  BY <1>1 DEF Memory!vars, VectorsInv, MemoryType, Follows, Progress, Memory!Of
<1>2. ASSUME NEW c \in Uses, Memory!CreateTable(c) PROVE VectorsInv'
  BY <1>2, CreateTableInv, FailInv
<1>3. CASE Memory!Next
  BY <1>2, <1>3, BeginInv, VectorInv, QuietInv, FailInv DEF Memory!Next
<1> QED BY <1>1, <1>3

(***************************************************************************)
(* A search.  What it has answered it answered from its snapshot, cut to   *)
(* its limits, and a call that is no search has none.                      *)
(***************************************************************************)
Best(c) ==
    \E listed \in Memory!Cut(DOMAIN snapshot[c], Listed) :
        result[c] \in Memory!Cut(Memory!Answer(c, listed), wanted[c])

Answers ==
    /\ DOMAIN snapshot = Uses /\ DOMAIN hits = Uses /\ DOMAIN wanted = Uses
    /\ DOMAIN result = Uses /\ DOMAIN step = Uses
    /\ \A c \in Uses :
          /\ step[c] \in {"new"} \cup Working => DOMAIN snapshot[c] = {}
          /\ step[c] = "done" => (DOMAIN snapshot[c] = {} /\ result[c] = {}) \/ Best(c)
          /\ step[c] # "done" => result[c] = {}

LEMMA AnswersInit == Memory!Init => Answers
BY DEF Memory!Init, Memory!None, Answers, Working

\* What a call answered is what it was while nothing of it changes.
LEMMA BestStays ==
    ASSUME NEW c, snapshot'[c] = snapshot[c], hits'[c] = hits[c], wanted'[c] = wanted[c],
           result'[c] = result[c]
    PROVE  Best(c)' = Best(c)
<1>1. \A listed : Memory!Answer(c, listed)' = Memory!Answer(c, listed)
  BY DEF Memory!Answer
<1> QED BY <1>1 DEF Best, Memory!Cut

LEMMA AnswersStep == Answers /\ [Memory!Next]_Memory!vars => Answers'
<1> SUFFICES ASSUME Answers, [Memory!Next]_Memory!vars PROVE Answers'
  OBVIOUS
<1>1. ASSUME NEW c \in Uses,
             UNCHANGED <<snapshot, hits, wanted, result>>,
             step[c] \in {"new"} \cup Working, DOMAIN step' = Uses,
             step'[c] \in Working \cup {"done", "failed"},
             \A d \in Uses \ {c} : step'[d] = step[d]
      PROVE  Answers'
  <2>1. \A d \in Uses : Best(d)' = Best(d)
    BY <1>1, BestStays
  <2> QED BY <1>1, <2>1 DEF Answers, Working
<1>2. ASSUME NEW c \in Uses, NEW e \in Entries, Memory!Put(c, e) \/ Memory!Delete(c, e) PROVE Answers'
  BY <1>1, <1>2 DEF Answers, Memory!Put, Memory!Delete, Memory!Goes, Working
<1>3. ASSUME NEW c \in Uses,
             \/ Memory!Embed(c) \/ Memory!CreateTable(c) \/ Memory!Clean(c) \/ Memory!Add(c)
             \/ Memory!Drop(c) \/ Memory!Fail(c)
      PROVE  Answers'
  BY <1>1, <1>3 DEF Answers, Memory!Embed, Memory!CreateTable, Memory!Clean, Memory!Add, Memory!Drop,
                    Memory!Fail, Memory!Fails, Memory!Goes, Working
<1>4. ASSUME NEW c \in Uses, Memory!Search(c) \/ Memory!Nearest(c) PROVE Answers'
  <2>1. /\ step[c] \in {"new", "nearest"} /\ step'[c] \in {"nearest", "join"} /\ UNCHANGED result
        /\ DOMAIN snapshot' = Uses /\ DOMAIN hits' = Uses /\ DOMAIN wanted' = Uses /\ DOMAIN step' = Uses
        /\ \A d \in Uses \ {c} : /\ step'[d] = step[d] /\ snapshot'[d] = snapshot[d]
                                /\ hits'[d] = hits[d] /\ wanted'[d] = wanted[d]
    BY <1>4 DEF Answers, Memory!Search, Memory!Nearest, Memory!Goes
  <2>2. \A d \in Uses \ {c} : Best(d)' = Best(d)
    BY <2>1, BestStays
  <2> QED BY <2>1, <2>2 DEF Answers, Working
<1>5. ASSUME NEW c \in Uses, Memory!Join(c) PROVE Answers'
  <2>1. /\ UNCHANGED <<snapshot, hits, wanted>> /\ step[c] = "join" /\ step'[c] = "done"
        /\ DOMAIN step' = Uses /\ DOMAIN result' = Uses
        /\ \A d \in Uses \ {c} : step'[d] = step[d] /\ result'[d] = result[d]
    BY <1>5 DEF Answers, Memory!Join, Memory!Goes
  <2>2. \A d \in Uses \ {c} : Best(d)' = Best(d)
    BY <2>1, BestStays
  <2>3. Best(c)'
    <3>1. PICK listed \in Memory!Cut(DOMAIN snapshot[c], Listed) :
             \E best \in Memory!Cut(Memory!Answer(c, listed), wanted[c]) :
                 result' = [result EXCEPT ![c] = best]
      BY <1>5 DEF Memory!Join
    <3>2. result'[c] \in Memory!Cut(Memory!Answer(c, listed), wanted[c])
      BY <3>1 DEF Answers
    <3>3. Memory!Answer(c, listed)' = Memory!Answer(c, listed)
      BY <2>1 DEF Memory!Answer
    <3> QED BY <2>1, <3>1, <3>2, <3>3 DEF Best, Memory!Cut
  <2> QED BY <2>1, <2>2, <2>3 DEF Answers, Working
<1>6. CASE Memory!Crash
  <2>1. /\ UNCHANGED <<snapshot, hits, wanted, result>> /\ DOMAIN step' = Uses
        /\ \A d \in Uses : step'[d] = step[d] \/ (step[d] \notin {"new", "done"} /\ step'[d] = "failed")
    BY <1>6 DEF Memory!Crash, Memory!Busy
  <2>2. \A d \in Uses : Best(d)' = Best(d)
    BY <2>1, BestStays
  <2> QED BY <2>1, <2>2 DEF Answers, Working
<1>7. CASE UNCHANGED Memory!vars
  <2>1. \A d \in Uses : Best(d)' = Best(d)
    BY <1>7, BestStays DEF Memory!vars
  <2> QED BY <1>7, <2>1 DEF Answers, Memory!vars
<1> QED BY <1>2, <1>3, <1>4, <1>5, <1>6, <1>7 DEF Memory!Next

\* A part of a set, and all of it unless it is as large as was asked for.
LEMMA CutFacts ==
    ASSUME NEW S, NEW n, NEW T \in Memory!Cut(S, n)
    PROVE  T \subseteq S /\ (T = S \/ Memory!Cardinality(T) = n)
BY DEF Memory!Cut, Memory!kSubset

LEMMA AnswersAreWhole == Answers => Memory!SearchIsWhole
<1> SUFFICES ASSUME Answers, NEW c \in Uses
             PROVE  /\ \A r, s \in result[c] : r.entry = s.entry => r = s
                    /\ \A r \in result[c] : r.entry \in DOMAIN snapshot[c]
                    /\ /\ step[c] = "done" /\ Memory!Cardinality(result[c]) # wanted[c]
                       /\ Memory!Cardinality(DOMAIN snapshot[c]) <= Listed
                       => \A e \in DOMAIN snapshot[c] :
                             snapshot[c][e] \in Matches => \E r \in result[c] : r.entry = e
  BY DEF Memory!SearchIsWhole
<1>1. CASE result[c] = {} /\ (step[c] = "done" => DOMAIN snapshot[c] = {})
  BY <1>1
<1>2. CASE Best(c)
  <2>1. PICK listed \in Memory!Cut(DOMAIN snapshot[c], Listed) :
           result[c] \in Memory!Cut(Memory!Answer(c, listed), wanted[c])
    BY <1>2 DEF Best
  <2> DEFINE near == {v.entry : v \in hits[c]} \cap listed
             told(e) == [entry |-> e, by |-> IF e \in near THEN "vector" ELSE "lexical"]
  <2>2. \A r : r \in Memory!Answer(c, listed) <=>
            \E e \in listed : (e \in near \/ snapshot[c][e] \in Matches) /\ r = told(e)
    BY DEF Memory!Answer
  <2> HIDE DEF near
  <2>3. \A r \in Memory!Answer(c, listed) : r.entry \in listed /\ r = told(r.entry)
    BY <2>2
  <2>4. listed \subseteq DOMAIN snapshot[c] /\ result[c] \subseteq Memory!Answer(c, listed)
    BY <2>1, CutFacts
  <2>5. Memory!Cardinality(result[c]) # wanted[c] => result[c] = Memory!Answer(c, listed)
    BY <2>1, CutFacts
  <2>6. Memory!Cardinality(DOMAIN snapshot[c]) <= Listed => listed = DOMAIN snapshot[c]
    BY <2>1 DEF Memory!Cut
  <2>7. ASSUME NEW e \in listed, snapshot[c][e] \in Matches
        PROVE  \E r \in Memory!Answer(c, listed) : r.entry = e
    <3>1. told(e) \in Memory!Answer(c, listed)
      BY <2>2, <2>7
    <3> QED BY <3>1
  <2> QED BY <2>3, <2>4, <2>5, <2>6, <2>7
<1> QED BY <1>1, <1>2 DEF Answers

(***************************************************************************)
(* Between calls, an entry on which nothing failed or overlapped has one   *)
(* vector, of the text it has, and what was deleted has none (put(),       *)
(* delete(), upsert()); and a search finds what its words match, once, and *)
(* nothing that was not there, whatever the vectors, up to its limit and   *)
(* that of list() (search()).                                              *)
(***************************************************************************)
THEOREM MemoryAgrees ==
    ASSUME 0 \notin Entries
    PROVE  Memory!Spec => [](Memory!VectorsFollowRows /\ Memory!SearchIsWhole)
<1>1. VectorsInv => Memory!VectorsFollowRows
  BY DEF VectorsInv, MemoryType, Follows, Memory!VectorsFollowRows, Memory!Busy, Working
<1> QED BY <1>1, MemoryInit, MemoryStep, AnswersInit, AnswersStep, AnswersAreWhole, PTL DEF Memory!Spec

-----------------------------------------------------------------------------
(***************************************************************************)
(* Workflows, whichever template each execution runs.                      *)
(***************************************************************************)
Templates == {"codeReview", "tddCycle", "parallelAnalysis"}

Spots == {"implement", "review", "test", "refactor", "analyze", "synthesize"}

\* Each stage has a pattern, and a stage to follow it or the end.
LEMMA StageFacts ==
    ASSUME NEW e \in Exec, WorkflowOf[e] \in Templates
    PROVE  /\ Workflows!Entry(e) \in DOMAIN Workflows!Stages(e)
           /\ \A s \in DOMAIN Workflows!Stages(e) :
                 /\ Workflows!Stages(e)[s].pattern \in {"sequential", "parallel", "council"}
                 /\ Workflows!Stages(e)[s].next \in DOMAIN Workflows!Stages(e) \cup {"end"}
           /\ DOMAIN Workflows!Stages(e) \subseteq Spots /\ "end" \notin Spots
<1>1. CASE WorkflowOf[e] = "codeReview"
  <2>1. Workflows!Stages(e) =
           [implement |-> Workflows!Stage(<<"coder">>, "sequential", FALSE, "review"),
            review    |-> Workflows!Stage(<<"reviewer">>, "sequential", TRUE, "end")]
    BY <1>1 DEF Workflows!Stages
  <2>2. Workflows!Entry(e) = "implement"
    BY <1>1 DEF Workflows!Entry
  <2>3. Workflows!Entry(e) \in DOMAIN Workflows!Stages(e)
    BY <2>1, <2>2
  <2> QED BY <2>1, <2>3 DEF Workflows!Stage, Spots
<1>2. CASE WorkflowOf[e] = "tddCycle"
  <2>1. Workflows!Stages(e) =
           [test      |-> Workflows!Stage(<<"tester">>, "sequential", FALSE, "implement"),
            implement |-> Workflows!Stage(<<"coder">>, "sequential", FALSE, "refactor"),
            refactor  |-> Workflows!Stage(<<"coder", "reviewer">>, "council", TRUE, "end")]
    BY <1>2 DEF Workflows!Stages
  <2>2. Workflows!Entry(e) = "test"
    BY <1>2 DEF Workflows!Entry
  <2>3. Workflows!Entry(e) \in DOMAIN Workflows!Stages(e)
    BY <2>1, <2>2
  <2> QED BY <2>1, <2>3 DEF Workflows!Stage, Spots
<1>3. CASE WorkflowOf[e] = "parallelAnalysis"
  <2>1. Workflows!Stages(e) =
           [analyze    |-> Workflows!Stage(<<"analyst", "coder", "reviewer">>, "parallel", FALSE, "synthesize"),
            synthesize |-> Workflows!Stage(<<"analyst">>, "sequential", FALSE, "end")]
    BY <1>3 DEF Workflows!Stages
  <2>2. Workflows!Entry(e) = "analyze"
    BY <1>3 DEF Workflows!Entry
  <2>3. Workflows!Entry(e) \in DOMAIN Workflows!Stages(e)
    BY <2>1, <2>2
  <2> QED BY <2>1, <2>3 DEF Workflows!Stage, Spots
<1> QED BY <1>1, <1>2, <1>3 DEF Templates

FlowsType ==
    /\ run \in [Exec -> [at : {"idle", "sequential", "parallel", "council", "review", "done"},
                         stage : Spots, i : Nat]]
    /\ record \in [Exec -> [status : {"none", "running", "completed", "failed"}, stage : Spots,
                            marks : SUBSET Spots]]
    /\ DOMAIN walked = Exec

\* What holds of one execution: its walk follows its template and ends where it is,
\* and its record names stages of the walk.
Walks(e) ==
    LET walk == walked[e] IN
    /\ walk \in Seq(DOMAIN Workflows!Stages(e))
    /\ walk # <<>> => walk[1] = Workflows!Entry(e)
    /\ \A i \in 2..Len(walk) : walk[i] = Workflows!Stages(e)[walk[i - 1]].next
    /\ Workflows!Running(e) => walk # <<>> /\ run[e].stage = walk[Len(walk)]
    /\ run[e].at = "idle" => walk = <<>> /\ e \notin executions
    /\ e \in executions => \E i \in 1..Len(walk) : walk[i] = record[e].stage
    /\ \A s \in record[e].marks : \E i \in 1..Len(walk) : walk[i] = s
    /\ record[e].status = "completed" => /\ run[e].at = "done" /\ walk # <<>>
                                         /\ Workflows!Stages(e)[walk[Len(walk)]].next = "end"

\* There is one timer, that of the execution that runs.
Timers ==
    /\ lifecycle # "crashed"
    /\ ticking \subseteq {timer}
    /\ \A e \in ticking : e \in Exec /\ Workflows!Running(e) /\ e \in executions
    /\ \A e, f \in Exec : Workflows!Running(e) /\ Workflows!Running(f) => e = f
    /\ lifecycle = "stopping" => ticking = {}

FlowsInv == FlowsType /\ (\A e \in Exec : Walks(e)) /\ (contested \/ Timers)

LEMMA FlowsInit ==
    ASSUME WorkflowOf \in [Exec -> Templates], Workflows!Init PROVE FlowsInv
<1>1. ASSUME NEW e \in Exec PROVE Workflows!Entry(e) \in Spots
  BY StageFacts
<1>2. FlowsType
  BY <1>1 DEF FlowsType, Workflows!Init, Workflows!Idle
<1>3. ASSUME NEW e \in Exec PROVE Walks(e)
  BY DEF Walks, Workflows!Init, Workflows!Idle, Workflows!Running
<1>4. Timers
  BY DEF Timers, Workflows!Init, Workflows!Idle, Workflows!Running
<1> QED BY <1>2, <1>3, <1>4 DEF FlowsInv

\* What becomes of an execution that enters a stage, and of its walk.
LEMMA EnterWalks ==
    ASSUME NEW e \in Exec, WorkflowOf[e] \in Templates, FlowsType, Walks(e),
           NEW s \in DOMAIN Workflows!Stages(e), NEW beats, NEW mine, Workflows!Enter(e, s, beats, mine),
           \/ run[e].at = "idle" /\ s = Workflows!Entry(e)
           \/ Workflows!Running(e) /\ s = Workflows!Stages(e)[run[e].stage].next
    PROVE  /\ FlowsType' /\ Walks(e)'
           /\ \A f \in Exec \ {e} : run'[f] = run[f] /\ record'[f] = record[f] /\ walked'[f] = walked[f]
           /\ \/ Workflows!Running(e)' /\ ticking' = beats /\ timer' = mine
              \/ ~ Workflows!Running(e)' /\ ticking' = beats \ {mine}
<1> DEFINE walk == walked[e]
           stage == Workflows!Stages(e)[s]
<1>1. /\ stage.pattern \in {"sequential", "parallel", "council"} /\ s \in Spots
      /\ walk \in Seq(DOMAIN Workflows!Stages(e))
  BY StageFacts DEF Walks
<1>2. walked' = [walked EXCEPT ![e] = Append(@, s)]
  BY DEF Workflows!Enter
<1>3. \/ /\ run' = [run EXCEPT ![e] = [at |-> stage.pattern, stage |-> s, i |-> 1]]
         /\ record' = [record EXCEPT ![e].status = IF mine # timer THEN "running" ELSE @, ![e].stage = s]
         /\ ticking' = beats /\ timer' = mine
      \/ /\ run' = [run EXCEPT ![e].at = "done"]
         /\ record' = [record EXCEPT ![e].status = "failed", ![e].stage = s]
         /\ ticking' = beats \ {mine}
  BY DEF Workflows!Enter
<1> HIDE DEF stage
<1>4. FlowsType'
  <2>1. run' \in [Exec -> [at : {"idle", "sequential", "parallel", "council", "review", "done"},
                           stage : Spots, i : Nat]]
    <3>1. \/ run' = [run EXCEPT ![e] = [at |-> stage.pattern, stage |-> s, i |-> 1]]
          \/ run' = [run EXCEPT ![e].at = "done"]
      BY <1>3
    <3>2. CASE run' = [run EXCEPT ![e] = [at |-> stage.pattern, stage |-> s, i |-> 1]]
      BY <1>1, <3>2 DEF FlowsType
    <3>3. CASE run' = [run EXCEPT ![e].at = "done"]
      BY <3>3 DEF FlowsType
    <3> QED BY <3>1, <3>2, <3>3
  <2>2. record' \in [Exec -> [status : {"none", "running", "completed", "failed"}, stage : Spots,
                              marks : SUBSET Spots]]
    <3> DEFINE old == record[e]
    <3>1. /\ old \in [status : {"none", "running", "completed", "failed"}, stage : Spots,
                       marks : SUBSET Spots]
          /\ record \in [Exec -> [status : {"none", "running", "completed", "failed"}, stage : Spots,
                                   marks : SUBSET Spots]]
      BY DEF FlowsType
    <3>2. PICK new \in {"none", "running", "completed", "failed"} :
             record' = [record EXCEPT ![e] = [old EXCEPT !.status = new, !.stage = s]]
      <4>1. \/ record' = [record EXCEPT ![e].status = "running", ![e].stage = s]
            \/ record' = [record EXCEPT ![e].status = @, ![e].stage = s]
            \/ record' = [record EXCEPT ![e].status = "failed", ![e].stage = s]
        BY <1>3, Zenon
      <4>2. record' = [record EXCEPT ![e].status = "running", ![e].stage = s] =>
               record' = [record EXCEPT ![e] = [old EXCEPT !.status = "running", !.stage = s]]
        OBVIOUS
      <4>3. record' = [record EXCEPT ![e].status = @, ![e].stage = s] =>
               record' = [record EXCEPT ![e] = [old EXCEPT !.status = old.status, !.stage = s]]
        OBVIOUS
      <4>4. record' = [record EXCEPT ![e].status = "failed", ![e].stage = s] =>
               record' = [record EXCEPT ![e] = [old EXCEPT !.status = "failed", !.stage = s]]
        OBVIOUS
      <4>5. old.status \in {"none", "running", "completed", "failed"}
        BY <3>1
      <4> QED BY <4>1, <4>2, <4>3, <4>4, <4>5, Zenon
    <3> HIDE DEF old
    <3>3. [old EXCEPT !.status = new, !.stage = s]
              \in [status : {"none", "running", "completed", "failed"}, stage : Spots,
                    marks : SUBSET Spots]
      BY <1>1, <3>1
    <3> QED BY <3>1, <3>2, <3>3
  <2>3. DOMAIN walked' = Exec
    BY <1>2 DEF FlowsType
  <2> QED BY <2>1, <2>2, <2>3 DEF FlowsType
<1>5. \A f \in Exec \ {e} : run'[f] = run[f] /\ record'[f] = record[f] /\ walked'[f] = walked[f]
  BY <1>2, <1>3 DEF FlowsType
<1>6. \/ Workflows!Running(e)' /\ run'[e].stage = s /\ ticking' = beats /\ timer' = mine
      \/ ~ Workflows!Running(e)' /\ run'[e].at = "done" /\ ticking' = beats \ {mine}
  BY <1>1, <1>3 DEF FlowsType, Workflows!Running
<1>7. /\ record'[e].stage = s /\ record'[e].marks = record[e].marks
      /\ record'[e].status # "completed"
  BY <1>3 DEF FlowsType, Walks, Workflows!Running
<1>8. /\ walked'[e] \in Seq(DOMAIN Workflows!Stages(e)) /\ Len(walked'[e]) = Len(walk) + 1
      /\ walked'[e][Len(walk) + 1] = s /\ Len(walk) \in Nat
      /\ \A i \in 1..Len(walk) : walked'[e][i] = walk[i]
  BY <1>1, <1>2 DEF FlowsType
<1>9. \/ walk = <<>> /\ s = Workflows!Entry(e)
      \/ walk # <<>> /\ s = Workflows!Stages(e)[walk[Len(walk)]].next
  BY DEF Walks
<1> HIDE DEF walk
<1>10. /\ walked'[e][1] = Workflows!Entry(e)
       /\ \A i \in 2..Len(walked'[e]) : walked'[e][i] = Workflows!Stages(e)[walked'[e][i - 1]].next
  <2>1. walk = <<>> => Len(walk) = 0
    OBVIOUS
  <2>2. walk # <<>> => Len(walk) > 0
    BY <1>1, EmptySeq DEF walk
  <2>3. walk # <<>> => walk[1] = Workflows!Entry(e)
    BY DEF Walks, walk
  <2>4. \A i \in 2..Len(walk) : walk[i] = Workflows!Stages(e)[walk[i - 1]].next
    BY DEF Walks, walk
  <2>5. walked'[e][1] = Workflows!Entry(e)
    BY <1>8, <1>9, <2>1, <2>2, <2>3
  <2>6. ASSUME NEW i \in 2..Len(walked'[e])
        PROVE  walked'[e][i] = Workflows!Stages(e)[walked'[e][i - 1]].next
    <3>1. CASE i = Len(walk) + 1
      <4>1. walk # <<>> /\ walked'[e][i - 1] = walk[Len(walk)]
        BY <1>8, <2>1, <2>2, <2>6, <3>1
      <4> QED BY <1>8, <1>9, <3>1, <4>1
    <3>2. CASE i # Len(walk) + 1
      <4>1. i \in 2..Len(walk) /\ walked'[e][i] = walk[i] /\ walked'[e][i - 1] = walk[i - 1]
        BY <1>8, <2>6, <3>2
      <4> QED BY <2>4, <4>1
    <3> QED BY <3>1, <3>2
  <2> QED BY <2>5, <2>6
<1>11. Walks(e)'
  <2> DEFINE new == walked'[e]
  <2>1. \E i \in 1..Len(new) : new[i] = s
    BY <1>8
  <2>2. \A x \in record'[e].marks : \E i \in 1..Len(new) : new[i] = x
    <3> SUFFICES ASSUME NEW x \in record[e].marks PROVE \E i \in 1..Len(new) : new[i] = x
      BY <1>7
    <3>1. PICK i \in 1..Len(walk) : walk[i] = x
      BY DEF Walks, walk
    <3>2. i \in 1..Len(new) /\ new[i] = x
      BY <1>8, <3>1
    <3> QED BY <3>2
  <2>3. new # <<>> /\ s = new[Len(new)]
    BY <1>8
  <2>4. new \in Seq(DOMAIN Workflows!Stages(e))
    BY <1>8
  <2> HIDE DEF new
  <2>5. Workflows!Running(e)' => run'[e].stage = s
    BY <1>6
  <2>6. run'[e].at # "idle"
    BY <1>6 DEF Workflows!Running
  <2> QED BY <1>7, <1>10, <2>1, <2>2, <2>3, <2>4, <2>5, <2>6 DEF Walks, new
<1> QED BY <1>4, <1>5, <1>6, <1>11

\* An execution that runs goes one step on, or ends and its timer with it.
Moves(e) ==
    /\ FlowsType' /\ Walks(e)'
    /\ \A f \in Exec \ {e} : run'[f] = run[f] /\ record'[f] = record[f] /\ walked'[f] = walked[f]
    /\ \/ Workflows!Running(e)' /\ ticking' = ticking /\ timer' = timer
       \/ ~ Workflows!Running(e)' /\ ticking' = ticking \ {timer}

LEMMA WalkStays ==
    ASSUME NEW f \in Exec, Walks(f), run'[f] = run[f], record'[f] = record[f],
           walked'[f] = walked[f], f \in executions' => f \in executions
    PROVE  Walks(f)'
BY DEF Walks, Workflows!Running

LEMMA EndMoves ==
    ASSUME NEW e \in Exec, WorkflowOf[e] \in Templates, FlowsType, Walks(e), Workflows!Running(e),
           NEW outcome \in {"completed", "failed"}, Workflows!Ends(e, outcome, record[e].stage),
           outcome = "completed" => Workflows!Stages(e)[run[e].stage].next = "end",
           walked' = walked, executions' = executions
    PROVE  Moves(e)
<1>1. run' = [run EXCEPT ![e].at = "done"] /\ ticking' = ticking \ {timer}
  BY DEF Workflows!Ends
<1>2. record' = [record EXCEPT ![e].status = outcome, ![e].stage = record[e].stage]
  BY DEF Workflows!Ends
<1>3. record' \in [Exec -> [status : {"none", "running", "completed", "failed"}, stage : Spots,
                            marks : SUBSET Spots]]
  <2> DEFINE old == record[e]
  <2>1. /\ old \in [status : {"none", "running", "completed", "failed"}, stage : Spots,
                    marks : SUBSET Spots]
        /\ record \in [Exec -> [status : {"none", "running", "completed", "failed"}, stage : Spots,
                                marks : SUBSET Spots]]
    BY DEF FlowsType
  <2>2. record' = [record EXCEPT ![e] = [old EXCEPT !.status = outcome, !.stage = old.stage]]
    BY <1>2
  <2> HIDE DEF old
  <2>3. [old EXCEPT !.status = outcome, !.stage = old.stage]
            \in [status : {"none", "running", "completed", "failed"}, stage : Spots,
                 marks : SUBSET Spots]
    BY <2>1
  <2> QED BY <2>1, <2>2, <2>3
<1>4. FlowsType'
  <2>1. run' \in [Exec -> [at : {"idle", "sequential", "parallel", "council", "review", "done"},
                           stage : Spots, i : Nat]]
    BY <1>1 DEF FlowsType
  <2>2. DOMAIN walked' = Exec
    BY DEF FlowsType
  <2> QED BY <1>3, <2>1, <2>2 DEF FlowsType
<1>5. /\ run'[e].at = "done" /\ record'[e].stage = record[e].stage
      /\ record'[e].marks = record[e].marks /\ record'[e].status = outcome
  BY <1>1, <1>2 DEF FlowsType
<1>6. Walks(e)'
  BY <1>5 DEF Walks, Workflows!Running
<1>7. \A f \in Exec \ {e} : run'[f] = run[f] /\ record'[f] = record[f] /\ walked'[f] = walked[f]
  BY <1>1, <1>2 DEF FlowsType
<1> QED BY <1>1, <1>4, <1>5, <1>6, <1>7 DEF Moves, Workflows!Running

LEMMA LeaveMoves ==
    ASSUME NEW e \in Exec, WorkflowOf[e] \in Templates, FlowsType, Walks(e), Workflows!Running(e),
           Workflows!Leave(e), executions' = executions
    PROVE  Moves(e)
<1> DEFINE next == Workflows!Stages(e)[run[e].stage].next
<1>1. CASE next = "end"
  BY <1>1, EndMoves DEF Workflows!Leave
<1>2. CASE next # "end"
  <2>1. Workflows!Enter(e, next, ticking, timer)
    BY <1>2 DEF Workflows!Leave
  <2>2. walked[e] \in Seq(DOMAIN Workflows!Stages(e)) /\ walked[e] # <<>>
          /\ run[e].stage = walked[e][Len(walked[e])]
    BY DEF Walks
  <2>3. run[e].stage \in DOMAIN Workflows!Stages(e)
    <3> DEFINE walk == walked[e]
               set == DOMAIN Workflows!Stages(e)
    <3>1. walk \in Seq(set) /\ walk # <<>>
      BY <2>2
    <3>2. walk[Len(walk)] \in set
      <4> HIDE DEF walk, set
      <4> QED BY <3>1
    <3> QED BY <2>2, <3>2
  <2>4. next \in DOMAIN Workflows!Stages(e)
    BY <1>2, <2>3, StageFacts
  <2> QED BY <2>1, <2>4, EnterWalks DEF Moves
<1> QED BY <1>1, <1>2

LEMMA StayMoves ==
    ASSUME NEW e \in Exec, FlowsType, Walks(e), Workflows!Running(e),
           \/ run' = [run EXCEPT ![e].at = "review"]
           \/ run' = [run EXCEPT ![e].i = run[e].i + 1],
           UNCHANGED <<record, ticking, timer, walked, executions>>
    PROVE  Moves(e)
<1>1. FlowsType'
  <2>1. CASE run' = [run EXCEPT ![e].at = "review"]
    BY <2>1 DEF FlowsType
  <2>2. CASE run' = [run EXCEPT ![e].i = run[e].i + 1]
    BY <2>2 DEF FlowsType
  <2> QED BY <2>1, <2>2
<1>2. Workflows!Running(e)' /\ run'[e].stage = run[e].stage
  BY DEF FlowsType, Workflows!Running
<1>3. Walks(e)'
  BY <1>2 DEF Walks, Workflows!Running
<1>4. \A f \in Exec \ {e} : run'[f] = run[f]
  BY DEF FlowsType
<1> QED BY <1>1, <1>2, <1>3, <1>4 DEF Moves

LEMMA JudgeMoves ==
    ASSUME NEW e \in Exec, WorkflowOf[e] \in Templates, FlowsType, Walks(e), Workflows!Running(e),
           Workflows!Judge(e), executions' = executions
    PROVE  Moves(e)
<1>1. CASE Workflows!Leave(e)
  BY <1>1, LeaveMoves
<1>2. CASE Workflows!Ends(e, "failed", record[e].stage) /\ UNCHANGED walked
  BY <1>2, EndMoves
<1>3. CASE /\ run' = [run EXCEPT ![e].at = "review"]
           /\ UNCHANGED <<record, ticking, timer, walked>>
  BY <1>3, StayMoves
<1> QED BY <1>1, <1>2, <1>3 DEF Workflows!Judge

\* A step of one execution keeps the invariant of all.
LEMMA MovesKeep ==
    ASSUME FlowsInv, NEW e \in Exec, Workflows!Running(e), Moves(e),
           UNCHANGED <<executions, lifecycle, contested>>
    PROVE  FlowsInv'
<1>1. ASSUME NEW f \in Exec PROVE Walks(f)'
  <2>1. CASE f = e
    BY <2>1 DEF Moves
  <2>2. CASE f # e
    BY <2>2, WalkStays DEF Moves, FlowsInv
  <2> QED BY <2>1, <2>2
<1>2. \A f \in Exec : Workflows!Running(f)' => Workflows!Running(f)
  BY DEF Moves, Workflows!Running
<1>3. ASSUME Timers PROVE Timers'
  BY <1>2, <1>3 DEF Timers, Moves, Workflows!Running
<1> QED BY <1>1, <1>3 DEF FlowsInv, Moves

\* An execution begins.
LEMMA ExecuteKeeps ==
    ASSUME FlowsInv, NEW e \in Exec, WorkflowOf[e] \in Templates, Workflows!Execute(e)
    PROVE  FlowsInv'
<1>1. /\ FlowsType' /\ Walks(e)'
      /\ \A f \in Exec \ {e} : run'[f] = run[f] /\ record'[f] = record[f] /\ walked'[f] = walked[f]
      /\ \/ Workflows!Running(e)' /\ ticking' = ticking \cup {e} /\ timer' = e
         \/ ~ Workflows!Running(e)' /\ ticking' = (ticking \cup {e}) \ {e}
  <2>1. Workflows!Entry(e) \in DOMAIN Workflows!Stages(e) /\ run[e].at = "idle"
    BY StageFacts DEF Workflows!Execute
  <2>2. Workflows!Enter(e, Workflows!Entry(e), ticking \cup {e}, e)
    BY DEF Workflows!Execute
  <2> QED BY <2>1, <2>2, EnterWalks DEF FlowsInv
<1>2. ASSUME NEW f \in Exec PROVE Walks(f)'
  <2>1. CASE f = e
    BY <1>1, <2>1
  <2>2. CASE f # e
    BY <1>1, <2>2, WalkStays DEF FlowsInv, Workflows!Execute
  <2> QED BY <2>1, <2>2
<1>3. ASSUME ~ contested' PROVE Timers'
  <2>1. /\ Timers /\ lifecycle # "stopping" /\ lifecycle' = lifecycle
        /\ \A f \in Exec : ~ Workflows!Running(f)
        /\ executions' = executions \cup {e}
    BY <1>3 DEF FlowsInv, Workflows!Execute
  <2>2. ticking = {}
    BY <2>1 DEF Timers
  <2>3. \A f \in Exec \ {e} : ~ Workflows!Running(f)'
    BY <1>1, <2>1 DEF Workflows!Running
  <2> QED BY <1>1, <2>1, <2>2, <2>3 DEF Timers
<1> QED BY <1>1, <1>2, <1>3 DEF FlowsInv

\* A checkpoint marks the stage on the record, and a restored one names a mark.
LEMMA RecordKeeps ==
    ASSUME FlowsInv, NEW e \in Exec, Workflows!Checkpoint(e) \/ Workflows!Restore(e)
    PROVE  FlowsInv'
<1> DEFINE AllRecords == [status : {"none", "running", "completed", "failed"}, stage : Spots,
                      marks : SUBSET Spots]
<1>1. record \in [Exec -> AllRecords] /\ record[e] \in AllRecords
  BY DEF FlowsInv, FlowsType
<1>2. /\ UNCHANGED <<run, executions, ticking, timer, lifecycle, walked, contested>>
      /\ e \in executions
  BY DEF Workflows!Checkpoint, Workflows!Restore
<1>3. PICK new \in AllRecords :
         /\ record' = [record EXCEPT ![e] = new]
         /\ \/ new.marks = record[e].marks \cup {record[e].stage}
               /\ new.stage = record[e].stage /\ new.status = record[e].status
            \/ new.marks = record[e].marks /\ new.stage \in record[e].marks
               /\ new.status = "running"
  <2> DEFINE old == record[e]
  <2>1. CASE Workflows!Checkpoint(e)
    <3> DEFINE new == [old EXCEPT !.marks = old.marks \cup {old.stage}]
    <3>1. record' = [record EXCEPT ![e] = new]
      BY <2>1 DEF Workflows!Checkpoint
    <3> HIDE DEF old
    <3>2. old \in AllRecords
      BY <1>1 DEF old
    <3>3. /\ new \in AllRecords /\ new.marks = old.marks \cup {old.stage}
          /\ new.stage = old.stage /\ new.status = old.status
      BY <3>2
    <3> HIDE DEF new
    <3> QED BY <3>1, <3>3 DEF old
  <2>2. CASE Workflows!Restore(e)
    <3>1. PICK s \in old.marks : record' = [record EXCEPT ![e].stage = s, ![e].status = "running"]
      BY <2>2 DEF Workflows!Restore
    <3> DEFINE new == [old EXCEPT !.stage = s, !.status = "running"]
    <3>2. record' = [record EXCEPT ![e] = new]
      BY <3>1
    <3>3. s \in old.marks
      BY <3>1
    <3> HIDE DEF old
    <3>4. old \in AllRecords
      BY <1>1 DEF old
    <3>5. /\ new \in AllRecords /\ new.marks = old.marks
          /\ new.stage = s /\ new.status = "running"
      BY <3>3, <3>4
    <3> HIDE DEF new
    <3> QED BY <3>2, <3>3, <3>5 DEF old
  <2> QED BY <2>1, <2>2
<1>4. record' \in [Exec -> AllRecords] /\ record'[e] = new
  BY <1>1, <1>3
<1>5. \A f \in Exec \ {e} : record'[f] = record[f]
  BY <1>1, <1>3
<1>6. FlowsType'
  BY <1>2, <1>4 DEF FlowsInv, FlowsType
<1>7. Walks(e)'
  BY <1>2, <1>3, <1>4 DEF FlowsInv, Walks, Workflows!Running
<1>8. ASSUME NEW f \in Exec PROVE Walks(f)'
  <2>1. CASE f = e
    BY <1>7, <2>1
  <2>2. CASE f # e
    BY <1>2, <1>5, <2>2, WalkStays DEF FlowsInv
  <2> QED BY <2>1, <2>2
<1>9. Timers => Timers'
  BY <1>2 DEF Timers, Workflows!Running
<1> QED BY <1>2, <1>6, <1>8, <1>9 DEF FlowsInv

LEMMA FlowsStep ==
    ASSUME WorkflowOf \in [Exec -> Templates], FlowsInv, [Workflows!Next]_Workflows!vars PROVE FlowsInv'
<1>1. ASSUME UNCHANGED <<run, record, executions, ticking, timer, lifecycle, walked, contested>>
      PROVE  FlowsInv'
  <2>1. FlowsType'
    BY <1>1 DEF FlowsInv, FlowsType
  <2>2. ASSUME NEW f \in Exec PROVE Walks(f)'
    BY <1>1 DEF FlowsInv, Walks, Workflows!Running
  <2>3. Timers => Timers'
    BY <1>1 DEF Timers, Workflows!Running
  <2> QED BY <1>1, <2>1, <2>2, <2>3 DEF FlowsInv
<1>2. CASE UNCHANGED Workflows!vars
  BY <1>1, <1>2 DEF Workflows!vars
<1>3. ASSUME NEW r \in Role,
             Workflows!CreatePool(r) \/ Workflows!BeginRemove(r) \/ Workflows!RemovePool(r) \/ Workflows!StopPool(r)
      PROVE  FlowsInv'
  BY <1>1, <1>3 DEF Workflows!CreatePool, Workflows!BeginRemove, Workflows!RemovePool, Workflows!StopPool
<1>4. ASSUME NEW e \in Exec, Workflows!Execute(e) PROVE FlowsInv'
  BY <1>4, ExecuteKeeps
<1>5. ASSUME NEW e \in Exec, Workflows!Sequential(e) \/ Workflows!Joined(e) \/ Workflows!Reviewed(e)
      PROVE  FlowsInv'
  <2>1. Workflows!Running(e) /\ UNCHANGED <<executions, lifecycle, contested>>
    BY <1>5 DEF Workflows!Sequential, Workflows!Joined, Workflows!Reviewed, Workflows!Running
  <2>2. FlowsType /\ Walks(e) /\ WorkflowOf[e] \in Templates
    BY DEF FlowsInv
  <2>3. \/ Workflows!Judge(e) \/ Workflows!Leave(e)
        \/ Workflows!Ends(e, "failed", record[e].stage) /\ UNCHANGED walked
        \/ /\ run' = [run EXCEPT ![e].i = run[e].i + 1]
           /\ UNCHANGED <<record, ticking, timer, walked>>
    BY <1>5 DEF Workflows!Sequential, Workflows!Joined, Workflows!Reviewed
  <2>4. Moves(e)
    <3>1. CASE Workflows!Judge(e)
      BY <2>1, <2>2, <3>1, JudgeMoves
    <3>2. CASE Workflows!Leave(e)
      BY <2>1, <2>2, <3>2, LeaveMoves
    <3>3. CASE Workflows!Ends(e, "failed", record[e].stage) /\ UNCHANGED walked
      BY <2>1, <2>2, <3>3, EndMoves
    <3>4. CASE /\ run' = [run EXCEPT ![e].i = run[e].i + 1]
               /\ UNCHANGED <<record, ticking, timer, walked>>
      BY <2>1, <2>2, <3>4, StayMoves
    <3> QED BY <2>3, <3>1, <3>2, <3>3, <3>4
  <2> QED BY <2>1, <2>4, MovesKeep
<1>6. ASSUME NEW e \in Exec, Workflows!Checkpoint(e) \/ Workflows!Restore(e) PROVE FlowsInv'
  BY <1>6, RecordKeeps
<1>7. ASSUME NEW e \in Exec, Workflows!Tick(e) PROVE FlowsInv'
  <2>1. contested /\ contested' = contested
    BY <1>7 DEF Workflows!Tick, FlowsInv, Timers
  <2>2. FlowsType'
    BY <1>7 DEF Workflows!Tick, FlowsInv, FlowsType
  <2>3. ASSUME NEW f \in Exec PROVE Walks(f)'
    BY <1>7 DEF Workflows!Tick, FlowsInv, Walks, Workflows!Running
  <2> QED BY <2>1, <2>2, <2>3 DEF FlowsInv
<1>8. ASSUME Workflows!Shutdown \/ Workflows!Forget PROVE FlowsInv'
  <2>1. FlowsType' /\ contested' = contested
    BY <1>8 DEF Workflows!Shutdown, Workflows!Forget, FlowsInv, FlowsType
  <2>2. ASSUME NEW f \in Exec PROVE Walks(f)'
    <3>1. f \in executions' => f \in executions
      BY <1>8 DEF Workflows!Shutdown, Workflows!Forget
    <3>2. UNCHANGED <<run, record, walked>>
      BY <1>8 DEF Workflows!Shutdown, Workflows!Forget
    <3> QED BY <3>1, <3>2 DEF FlowsInv, Walks, Workflows!Running
  <2>3. Timers => Timers'
    BY <1>8 DEF Workflows!Shutdown, Workflows!Forget, Timers, Workflows!Running
  <2> QED BY <2>1, <2>2, <2>3 DEF FlowsInv
<1> QED BY <1>2, <1>3, <1>4, <1>5, <1>6, <1>7, <1>8 DEF Workflows!Next

\* Whichever template each execution runs and however many there are, an execution
\* starts the stages of its workflow once each and in order, and no checkpoint timer
\* outlives its workflow unless two workflows overlapped.
THEOREM WorkflowsRunInOrder ==
    ASSUME WorkflowOf \in [Exec -> Templates] PROVE Workflows!Spec => []Workflows!WorkflowsKeepOrder
<1>1. Workflows!Init => FlowsInv
  BY FlowsInit
<1>2. FlowsInv /\ [Workflows!Next]_Workflows!vars => FlowsInv'
  BY FlowsStep
<1>3. FlowsInv => Workflows!WorkflowsKeepOrder
  <2> SUFFICES ASSUME FlowsInv PROVE Workflows!WorkflowsKeepOrder
    OBVIOUS
  <2>1. ASSUME NEW e \in Exec
        PROVE  /\ walked[e] # <<>> => walked[e][1] = Workflows!Entry(e)
               /\ \A i \in 1..Len(walked[e]) : walked[e][i] \in DOMAIN Workflows!Stages(e)
               /\ \A i \in 2..Len(walked[e]) :
                      walked[e][i] = Workflows!Stages(e)[walked[e][i - 1]].next
               /\ record[e].status = "completed" =>
                      walked[e] # <<>> /\ Workflows!Stages(e)[walked[e][Len(walked[e])]].next = "end"
               /\ record[e].marks \subseteq Workflows!Range(walked[e])
    <3>1. \A i \in 1..Len(walked[e]) : walked[e][i] \in DOMAIN Workflows!Stages(e)
      <4> DEFINE walk == walked[e]
                 set == DOMAIN Workflows!Stages(e)
      <4>1. walk \in Seq(set)
        BY DEF FlowsInv, Walks
      <4> HIDE DEF walk, set
      <4>2. \A i \in 1..Len(walk) : walk[i] \in set
        BY <4>1
      <4> QED BY <4>2 DEF walk, set
    <3>2. record[e].marks \subseteq Workflows!Range(walked[e])
      <4>1. DOMAIN walked[e] = 1..Len(walked[e])
        BY DEF FlowsInv, Walks
      <4> QED BY <4>1 DEF FlowsInv, Walks, Workflows!Range
    <3> QED BY <3>1, <3>2 DEF FlowsInv, Walks
  <2>2. Workflows!WalksInOrder
    BY <2>1 DEF Workflows!WalksInOrder
  <2>3. Workflows!TimersEndWithRuns
    BY DEF FlowsInv, Timers, Workflows!TimersEndWithRuns
  <2> QED BY <2>2, <2>3 DEF Workflows!WorkflowsKeepOrder
<1> QED BY <1>1, <1>2, <1>3, PTL DEF Workflows!Spec

-----------------------------------------------------------------------------
(***************************************************************************)
(* The page of the setup wizard.  The banner is there when the loop has    *)
(* ended because the number of runs still to wait for and the number of    *)
(* those counted make up the total, as long as none was refused (Counts);  *)
(* the cards tell the queue (Cards), and a process that is followed has    *)
(* its link (Links).                                                       *)
(***************************************************************************)
SetupBounds == IsFiniteSet(Source) /\ Source \subseteq Nat /\ DefaultOn \subseteq Source

Cards ==
    /\ \A i, j \in 1..Len(queue) : i # j => queue[i] # queue[j]
    /\ \A i \in 1..Len(queue) : card[queue[i]] = IF i = 1 THEN "running" ELSE "queued"
    /\ \A s \in Source : card[s] \in {"running", "queued"} => \E i \in 1..Len(queue) : queue[i] = s

Counts ==
    /\ section # "run" => queue = <<>> /\ ~ banner
    /\ section = "run" => /\ done + Len(queue) <= total /\ total > 0
                          /\ ~ refused => done + Len(queue) = total
                          /\ banner <=> done >= total

Links ==
    /\ link = "none" <=> queue = <<>>
    /\ link \in {"none", "posted"} => own = "none"
    /\ ~ lost => orphans = 0

SetupType ==
    /\ queue \in Seq(Source)
    /\ card \in [Source -> {"none", "queued", "running", "complete", "failed"}]
    /\ enabled \subseteq Source
    /\ total \in Nat /\ done \in Nat /\ orphans \in Nat
    /\ banner \in BOOLEAN /\ refused \in BOOLEAN /\ lost \in BOOLEAN

SetupInv == SetupType /\ Cards /\ Counts /\ Links

LEMMA SameSize == \A S : Pages!Cardinality(S) = Cardinality(S)
BY DEF Pages!Cardinality, Cardinality

\* InOrder() enumerates a finite set of numbers, the least one first: different members
\* have different ranks, and all the ranks there may be are taken.
LEMMA Enumerates ==
    ASSUME NEW S \in SUBSET Nat, IsFiniteSet(S), S # {}
    PROVE  /\ Pages!InOrder(S) \in Seq(S) /\ Len(Pages!InOrder(S)) = Cardinality(S)
           /\ Cardinality(S) \in Nat \ {0}
           /\ \A i, j \in 1..Cardinality(S) : i # j => Pages!InOrder(S)[i] # Pages!InOrder(S)[j]
           /\ \A s \in S : \E i \in 1..Cardinality(S) : Pages!InOrder(S)[i] = s
           /\ Pages!InOrder(S)[1] = Pages!Min(S)
<1> DEFINE n == Cardinality(S)
           Less(s) == {r \in S : r < s}
           rank == [s \in S |-> Cardinality(Less(s))]
<1>1. n \in Nat \ {0}
  BY FS_CardinalityType, FS_EmptySet
<1>2. ASSUME NEW s \in S
      PROVE  IsFiniteSet(Less(s)) /\ Cardinality(Less(s)) \in 0..n - 1
  <2>1. Less(s) \in SUBSET S /\ s \notin Less(s)
    OBVIOUS
  <2>2. IsFiniteSet(Less(s)) /\ Cardinality(Less(s)) <= n /\ Cardinality(Less(s)) # n
    <3> HIDE DEF Less
    <3> QED BY <2>1, FS_Subset
  <2>3. Cardinality(Less(s)) \in Nat
    BY <2>2, FS_CardinalityType
  <2> HIDE DEF Less
  <2> QED BY <1>1, <2>2, <2>3
<1>3. ASSUME NEW r \in S, NEW s \in S, r < s PROVE Cardinality(Less(r)) < Cardinality(Less(s))
  <2>1. Less(r) \in SUBSET Less(s) /\ r \in Less(s) /\ r \notin Less(r)
    <3>1. ASSUME NEW x \in S, x < r PROVE x < s
      <4>1. x \in Nat /\ r \in Nat /\ s \in Nat
        OBVIOUS
      <4> QED BY <1>3, <3>1, <4>1
    <3>2. ~ (r < r)
      BY <1>3
    <3>3. \A x \in Less(r) : x \in Less(s)
      BY <3>1
    <3>4. r \in Less(s) /\ r \notin Less(r)
      BY <1>3, <3>2
    <3> HIDE DEF Less
    <3> QED BY <3>3, <3>4
  <2>2. /\ Cardinality(Less(r)) <= Cardinality(Less(s))
        /\ Cardinality(Less(r)) # Cardinality(Less(s))
    <3> HIDE DEF Less
    <3> QED BY <1>2, <2>1, FS_Subset
  <2>3. Cardinality(Less(r)) \in Nat /\ Cardinality(Less(s)) \in Nat
    BY <1>2, <1>1
  <2> HIDE DEF Less
  <2> QED BY <2>2, <2>3
<1>4. \A r, s \in S : r # s => rank[r] # rank[s]
  <2> SUFFICES ASSUME NEW r \in S, NEW s \in S, r # s PROVE Cardinality(Less(r)) # Cardinality(Less(s))
    OBVIOUS
  <2>1. r < s \/ s < r
    OBVIOUS
  <2>2. Cardinality(Less(r)) \in Nat /\ Cardinality(Less(s)) \in Nat
    BY <1>2, <1>1
  <2> HIDE DEF Less
  <2> QED BY <1>3, <2>1, <2>2
<1>5. \A k \in 0..n - 1 : \E s \in S : rank[s] = k
  <2>1. rank \in [S -> 0..n - 1]
    BY <1>2
  <2> HIDE DEF rank
  <2>2. rank \in Injection(S, 0..n - 1)
    BY <2>1, <1>4 DEF Injection, IsInjective
  <2>3. IsFiniteSet(0..n - 1) /\ Cardinality(0..n - 1) = n
    BY <1>1, FS_Interval
  <2>4. rank \in Surjection(S, 0..n - 1)
    BY <2>2, <2>3, FS_Injection
  <2> QED BY <2>4 DEF Surjection
<1> DEFINE o == Pages!InOrder(S)
<1>6. o = [i \in 1..n |-> CHOOSE s \in S : Cardinality(Less(s)) = i - 1]
  BY DEF Pages!InOrder, Pages!Cardinality, Cardinality
<1>7. \A i \in 1..n : o[i] \in S /\ rank[o[i]] = i - 1
  <2> SUFFICES ASSUME NEW i \in 1..n PROVE o[i] \in S /\ rank[o[i]] = i - 1
    OBVIOUS
  <2>1. i - 1 \in 0..n - 1
    BY <1>1
  <2>2. PICK s \in S : Cardinality(Less(s)) = i - 1
    BY <2>1, <1>5
  <2>3. o[i] = CHOOSE t \in S : Cardinality(Less(t)) = i - 1
    BY <1>6
  <2> HIDE DEF o, Less
  <2> QED BY <2>2, <2>3
<1>8. o \in Seq(S) /\ Len(o) = n
  <2>1. o \in [1..n -> S]
    BY <1>6, <1>7
  <2> HIDE DEF o, n
  <2> QED BY <2>1, <1>1
<1>9. \A i, j \in 1..n : i # j => o[i] # o[j]
  <2> HIDE DEF o, rank, n
  <2> QED BY <1>7, <1>1
<1>10. \A s \in S : \E i \in 1..n : o[i] = s
  <2> SUFFICES ASSUME NEW s \in S PROVE \E i \in 1..n : o[i] = s
    OBVIOUS
  <2>1. rank[s] \in 0..n - 1
    BY <1>2
  <2> HIDE DEF rank, o, n
  <2>2. rank[s] + 1 \in 1..n /\ rank[s] + 1 - 1 = rank[s]
    BY <1>1, <2>1
  <2>3. o[rank[s] + 1] \in S /\ rank[o[rank[s] + 1]] = rank[s]
    <3> DEFINE k == rank[s] + 1
    <3>1. k \in 1..n /\ k - 1 = rank[s]
      BY <1>1, <2>1
    <3> HIDE DEF k
    <3>2. o[k] \in S /\ rank[o[k]] = rank[s]
      BY <1>7, <3>1
    <3> QED BY <3>2 DEF k
  <2> QED BY <1>4, <2>2, <2>3
<1>11. o[1] = Pages!Min(S)
  <2>1. 1 \in 1..n
    BY <1>1
  <2>2. o[1] \in S /\ Cardinality(Less(o[1])) = 0 /\ IsFiniteSet(Less(o[1]))
    <3>1. o[1] \in S /\ rank[o[1]] = 1 - 1
      <4> HIDE DEF o, rank
      <4> QED BY <2>1, <1>7
    <3>2. rank[o[1]] = Cardinality(Less(o[1]))
      BY <3>1
    <3> HIDE DEF o, rank, Less
    <3>3. Cardinality(Less(o[1])) = 0
      BY <3>1, <3>2
    <3> QED BY <1>2, <3>1, <3>3
  <2>3. Less(o[1]) = {}
    <3> HIDE DEF Less, o
    <3> QED BY <2>2, FS_EmptySet
  <2> HIDE DEF o
  <2>4. \A s \in S : o[1] <= s
    <3> SUFFICES ASSUME NEW s \in S, ~ (o[1] <= s) PROVE FALSE
      OBVIOUS
    <3>1. s \in Nat /\ o[1] \in Nat
      BY <2>2
    <3>2. s \in Less(o[1])
      BY <3>1
    <3> HIDE DEF Less
    <3> QED BY <2>3, <3>2
  <2>5. \A y \in S : y <= o[1] => y = o[1]
    <3> SUFFICES ASSUME NEW y \in S, y <= o[1] PROVE y = o[1]
      OBVIOUS
    <3>1. y \in Nat /\ o[1] \in Nat /\ o[1] <= y
      BY <2>2, <2>4
    <3> QED BY <3>1
  <2>6. Pages!Min(S) = CHOOSE x \in S : \A y \in S : x <= y
    BY DEF Pages!Min
  <2>7. Pages!Min(S) \in S /\ \A y \in S : Pages!Min(S) <= y
    BY <2>2, <2>4, <2>6
  <2> QED BY <2>2, <2>5, <2>7
<1> HIDE DEF o, rank
<1> QED BY <1>1, <1>8, <1>9, <1>10, <1>11 DEF o

LEMMA SetupStarts == ASSUME SetupBounds, Pages!SetupInit PROVE SetupInv
<1>1. SetupType
  <2>1. card = [s \in Source |-> "none"] /\ queue = <<>> /\ enabled = DefaultOn \ Stub
    BY DEF Pages!SetupInit
  <2>2. card \in [Source -> {"none", "queued", "running", "complete", "failed"}] /\ queue \in Seq(Source)
    BY <2>1, EmptySeq
  <2>3. enabled \subseteq Source
    BY <2>1 DEF SetupBounds
  <2> QED BY <2>2, <2>3 DEF Pages!SetupInit, SetupType
<1>2. Len(queue) = 0 /\ queue = <<>>
  BY DEF Pages!SetupInit
<1>3. Cards /\ Counts /\ Links
  BY <1>2 DEF Pages!SetupInit, Cards, Counts, Links
<1> QED BY <1>1, <1>3 DEF SetupInv

LEMMA RunKeeps == ASSUME SetupBounds, SetupInv, Pages!Run PROVE SetupInv'
<1> DEFINE o == Pages!InOrder(enabled)
           n == Cardinality(enabled)
<1>1. enabled \in SUBSET Nat /\ IsFiniteSet(enabled) /\ enabled # {} /\ enabled \subseteq Source
  BY FS_Subset DEF SetupBounds, SetupInv, SetupType, Pages!Run
<1>2. queue' = o /\ total' = n
  BY SameSize DEF Pages!Run
<1>3. o \in Seq(enabled) /\ Len(o) = n /\ n \in Nat \ {0} /\ o # <<>>
  <2>1. o \in Seq(enabled) /\ Len(o) = n /\ n \in Nat \ {0}
    BY <1>1, Enumerates
  <2> HIDE DEF o, n
  <2> QED BY <2>1, EmptySeq
<1>4. /\ \A i, j \in 1..n : i # j => o[i] # o[j]
      /\ \A s \in enabled : \E i \in 1..n : o[i] = s
      /\ o[1] = Pages!Min(enabled)
  BY <1>1, Enumerates
<1>5. card' = [s \in Source |-> IF s \notin enabled THEN "none" ELSE IF s = o[1] THEN "running" ELSE "queued"]
  BY <1>4 DEF Pages!Run
<1> HIDE DEF o, n
<1>6. \A i \in 1..n : o[i] \in enabled
  BY <1>3
<1>7. SetupType'
  <2>1. o \in Seq(Source)
    BY <1>1, <1>3, SeqMonotonic
  <2> QED BY <1>2, <1>3, <1>5, <2>1 DEF SetupInv, SetupType, Pages!Run
<1>8. Cards'
  <2>1. \A i \in 1..n : card'[o[i]] = IF i = 1 THEN "running" ELSE "queued"
    <3> SUFFICES ASSUME NEW i \in 1..n PROVE card'[o[i]] = IF i = 1 THEN "running" ELSE "queued"
      OBVIOUS
    <3>1. o[i] \in enabled /\ o[i] \in Source
      BY <1>1, <1>6
    <3>3. 1 \in 1..n
      BY <1>3
    <3>2. o[i] = o[1] <=> i = 1
      BY <1>4, <3>3
    <3> QED BY <1>5, <3>1, <3>2
  <2>2. \A s \in Source : card'[s] \in {"running", "queued"} => \E i \in 1..n : o[i] = s
    BY <1>4, <1>5
  <2> QED BY <1>2, <1>3, <1>4, <2>1, <2>2 DEF Cards
<1>9. Counts'
  <2>1. section = "sources" /\ section' = "run" /\ done' = 0 /\ refused' = FALSE /\ banner' = FALSE
    BY DEF Pages!Run, SetupInv, Counts
  <2> QED BY <1>2, <1>3, <2>1 DEF Counts
<1>10. Links'
  BY <1>2, <1>3 DEF Pages!Run, SetupInv, Links
<1> QED BY <1>7, <1>8, <1>9, <1>10 DEF SetupInv

LEMMA ResolveKeeps ==
    ASSUME SetupInv, link # "none", NEW says \in {"complete", "failed"}, Pages!Resolve(says)
    PROVE  /\ section = "run" /\ done < total /\ total' = total /\ section' = "run"
           /\ queue' \in Seq(Source) /\ Len(queue') = Len(queue) - 1 /\ Len(queue') \in Nat
           /\ card' \in [Source -> {"none", "queued", "running", "complete", "failed"}]
           /\ enabled' \subseteq Source
           /\ link' = "none" <=> queue' = <<>>
           /\ own' = "none" /\ orphans' \in Nat /\ (own # "running" => orphans' = orphans)
           /\ Cards'
<1> DEFINE rest == Tail(queue)
<1>1. queue \in Seq(Source) /\ queue # <<>> /\ Len(queue) \in Nat \ {0}
  BY EmptySeq DEF SetupInv, SetupType, Links
<1>2. /\ rest \in Seq(Source) /\ Len(rest) = Len(queue) - 1
      /\ \A i \in 1..Len(rest) : rest[i] = queue[i + 1]
  BY <1>1, HeadTailProperties
<1>3. queue' = rest /\ Head(queue) = queue[1] /\ Len(rest) \in Nat
  BY <1>1, <1>2 DEF Pages!Resolve
<1>4. rest # <<>> => Len(rest) \in Nat \ {0} /\ Head(rest) = rest[1] /\ rest[1] = queue[2]
  <2> HIDE DEF rest
  <2> QED BY <1>2, EmptySeq
<1>5. rest = <<>> => Len(rest) = 0
  <2> HIDE DEF rest
  <2> QED BY <1>2, EmptySeq
<1>6. card' = [s \in Source |-> IF s = queue[1] THEN says
                                ELSE IF rest # <<>> /\ s = rest[1] THEN "running" ELSE card[s]]
  BY <1>3, <1>4 DEF Pages!Resolve
<1> HIDE DEF rest
<1>7. /\ \A i, j \in 1..Len(queue) : i # j => queue[i] # queue[j]
      /\ \A i \in 1..Len(queue) : card[queue[i]] = IF i = 1 THEN "running" ELSE "queued"
      /\ \A s \in Source : card[s] \in {"running", "queued"} => \E i \in 1..Len(queue) : queue[i] = s
  BY DEF SetupInv, Cards
<1>8. \A i \in 1..Len(rest) : i + 1 \in 1..Len(queue) /\ i + 1 # 1
  BY <1>1, <1>2
<1>9. \A i, j \in 1..Len(rest) : i # j => rest[i] # rest[j]
  <2> SUFFICES ASSUME NEW i \in 1..Len(rest), NEW j \in 1..Len(rest), i # j PROVE rest[i] # rest[j]
    OBVIOUS
  <2>1. i + 1 # j + 1
    OBVIOUS
  <2> QED BY <1>2, <1>7, <1>8, <2>1
<1>10. \A i \in 1..Len(rest) : card'[rest[i]] = IF i = 1 THEN "running" ELSE "queued"
  <2> SUFFICES ASSUME NEW i \in 1..Len(rest) PROVE card'[rest[i]] = IF i = 1 THEN "running" ELSE "queued"
    OBVIOUS
  <2>1. rest[i] \in Source /\ rest # <<>>
    BY <1>2, <1>5
  <2>2. rest[i] = queue[i + 1] /\ queue[i + 1] # queue[1]
    BY <1>1, <1>2, <1>7, <1>8
  <2>3. card[rest[i]] = "queued"
    BY <1>7, <1>8, <2>2
  <2>4. i = 1 <=> rest[i] = rest[1]
    BY <1>9
  <2> QED BY <1>6, <2>1, <2>2, <2>3, <2>4
<1>11. \A s \in Source : card'[s] \in {"running", "queued"} => \E i \in 1..Len(rest) : rest[i] = s
  <2> SUFFICES ASSUME NEW s \in Source, card'[s] \in {"running", "queued"} PROVE \E i \in 1..Len(rest) : rest[i] = s
    OBVIOUS
  <2>1. s # queue[1]
    BY <1>6
  <2>2. CASE rest # <<>> /\ s = rest[1]
    BY <1>4, <2>2
  <2>3. CASE ~ (rest # <<>> /\ s = rest[1])
    <3>1. card[s] \in {"running", "queued"}
      BY <1>6, <2>1, <2>3
    <3>2. PICK j \in 1..Len(queue) : queue[j] = s
      BY <1>7, <3>1
    <3>3. j - 1 \in 1..Len(rest) /\ (j - 1) + 1 = j
      BY <1>1, <1>2, <2>1, <3>2
    <3>4. rest[j - 1] = queue[(j - 1) + 1]
      BY <1>2, <3>3
    <3> QED BY <3>2, <3>3, <3>4
  <2> QED BY <2>2, <2>3
<1>12. Cards'
  BY <1>3, <1>9, <1>10, <1>11 DEF Cards
<1>13. /\ section = "run" /\ done < total /\ total' = total /\ section' = "run"
  <2>1. section = "run" /\ done + Len(queue) <= total /\ done \in Nat /\ total \in Nat
    BY <1>1 DEF SetupInv, SetupType, Counts
  <2> QED BY <1>1, <2>1 DEF Pages!Resolve
<1>14. card' \in [Source -> {"none", "queued", "running", "complete", "failed"}]
  <2>1. \A s \in Source : card[s] \in {"none", "queued", "running", "complete", "failed"}
    BY DEF SetupInv, SetupType
  <2> QED BY <1>6, <2>1
<1>15. /\ link' = "none" <=> queue' = <<>>
       /\ own' = "none" /\ orphans' \in Nat /\ (own # "running" => orphans' = orphans)
       /\ enabled' \subseteq Source
  BY DEF Pages!Resolve, SetupInv, SetupType
<1> QED BY <1>2, <1>3, <1>12, <1>13, <1>14, <1>15

LEMMA SetupStep == ASSUME SetupBounds, SetupInv, [Pages!SetupNext]_Pages!setupVars PROVE SetupInv'
<1>1. ASSUME UNCHANGED Pages!setupVars PROVE SetupInv'
  BY <1>1 DEF Pages!setupVars, SetupInv, SetupType, Cards, Counts, Links
<1>2. CASE Pages!Run
  BY <1>2, RunKeeps
<1>3. ASSUME Pages!Turn \/ (\E s \in Source : Pages!Toggle(s)) PROVE SetupInv'
  <2>1. /\ section # "run" /\ section' # "run" /\ enabled' \subseteq Source
        /\ UNCHANGED <<card, queue, link, own, orphans, total, done, banner, refused, lost>>
    BY <1>3 DEF Pages!Turn, Pages!Toggle, SetupInv, SetupType
  <2> QED BY <2>1 DEF SetupInv, SetupType, Cards, Counts, Links
<1>4. ASSUME Pages!Reach \/ Pages!Open \/ Pages!Exit PROVE SetupInv'
  <2>1. UNCHANGED <<section, enabled, card, queue, total, done, banner, refused, lost>>
    BY <1>4 DEF Pages!Reach, Pages!Open, Pages!Exit
  <2>2. /\ link' = "none" <=> link = "none"
        /\ link' \in {"none", "posted"} => own' = "none"
        /\ orphans' \in Nat /\ (orphans = 0 => orphans' = 0)
    BY <1>4 DEF Pages!Reach, Pages!Open, Pages!Exit, SetupInv, SetupType, Links
  <2> QED BY <2>1, <2>2 DEF SetupInv, SetupType, Cards, Counts, Links
<1>5. CASE Pages!Refuse
  <2>1. Pages!Resolve("failed") /\ link = "posted" /\ own = "none"
        /\ refused' = TRUE /\ UNCHANGED <<done, banner, lost>>
    BY <1>5 DEF Pages!Refuse, SetupInv, Links
  <2> DEFINE m == Len(queue)
             m2 == Len(queue')
  <2>2. /\ section = "run" /\ done < total /\ total' = total /\ section' = "run"
        /\ queue' \in Seq(Source) /\ m2 = m - 1 /\ m2 \in Nat
        /\ card' \in [Source -> {"none", "queued", "running", "complete", "failed"}]
        /\ enabled' \subseteq Source
        /\ link' = "none" <=> queue' = <<>>
        /\ own' = "none" /\ orphans' \in Nat /\ orphans' = orphans
        /\ Cards'
    <3>1. link # "none" /\ own # "running"
      BY <2>1
    <3> QED BY <2>1, <3>1, ResolveKeeps, Zenon
  <2>3. done \in Nat /\ total \in Nat /\ done + m <= total /\ ~ banner /\ total > 0
    BY <2>2 DEF SetupInv, SetupType, Counts
  <2>4. SetupType'
    BY <2>1, <2>2 DEF SetupInv, SetupType
  <2>5. Links'
    BY <2>1, <2>2 DEF SetupInv, Links
  <2>6. done + m2 <= total /\ m \in Int
    <3> HIDE DEF m, m2
    <3>1. m = m2 + 1 \/ m \notin Int
      BY <2>2
    <3>2. m \in Int
      BY DEF m, SetupInv, SetupType
    <3> QED BY <2>2, <2>3, <3>1, <3>2
  <2>7. Counts'
    BY <2>1, <2>2, <2>3, <2>6 DEF Counts
  <2> QED BY <2>2, <2>4, <2>5, <2>7 DEF SetupInv
<1>6. ASSUME Pages!Done \/ Pages!Break PROVE SetupInv'
  <2>1. \E says \in {"complete", "failed"} : Pages!Resolve(says)
    BY <1>6 DEF Pages!Done, Pages!Break
  <2>2. link # "none" /\ done' = done + 1 /\ banner' = (banner \/ done' >= total) /\ refused' = refused
    BY <1>6 DEF Pages!Done, Pages!Break, Pages!Count
  <2>3. lost' = TRUE \/ (own # "running" /\ lost' = lost)
    BY <1>6 DEF Pages!Done, Pages!Break
  <2> DEFINE m == Len(queue)
             m2 == Len(queue')
  <2>4. /\ section = "run" /\ done < total /\ total' = total /\ section' = "run"
        /\ queue' \in Seq(Source) /\ m2 = m - 1 /\ m2 \in Nat
        /\ card' \in [Source -> {"none", "queued", "running", "complete", "failed"}]
        /\ enabled' \subseteq Source
        /\ link' = "none" <=> queue' = <<>>
        /\ own' = "none" /\ orphans' \in Nat /\ (own # "running" => orphans' = orphans)
        /\ Cards'
    <3>1. PICK says \in {"complete", "failed"} : Pages!Resolve(says)
      BY <2>1
    <3> QED BY <2>2, <3>1, ResolveKeeps, Zenon
  <2>5. /\ done \in Nat /\ total \in Nat /\ done + m <= total /\ m \in Int /\ total > 0
        /\ ~ refused => done + m = total
        /\ banner = FALSE
    BY <2>4 DEF SetupInv, SetupType, Counts
  <2>6. SetupType'
    <3>1. banner' \in BOOLEAN
      BY <2>2
    <3>2. done' \in Nat /\ total' \in Nat /\ refused' \in BOOLEAN /\ lost' \in BOOLEAN
      <4>1. done' = done + 1 /\ done \in Nat /\ total' = total /\ total \in Nat
        BY <2>2, <2>4, <2>5
      <4>2. refused' \in BOOLEAN /\ lost' \in BOOLEAN
        BY <2>2, <2>3 DEF SetupInv, SetupType
      <4> QED BY <4>1, <4>2
    <3> QED BY <2>4, <3>1, <3>2 DEF SetupType
  <2>7. Links'
    BY <2>2, <2>3, <2>4 DEF SetupInv, Links
  <2>8. Counts'
    <3> HIDE DEF m, m2
    <3>1. done' + m2 <= total /\ (~ refused => done' + m2 = total)
      BY <2>2, <2>4, <2>5
    <3> QED BY <2>2, <2>4, <2>5, <3>1 DEF Counts, m2
  <2> QED BY <2>4, <2>6, <2>7, <2>8 DEF SetupInv
<1>7. CASE Pages!Again
  <2>1. /\ section' = "sources" /\ total' = 0 /\ done' = 0 /\ banner' = FALSE
        /\ UNCHANGED <<enabled, card, queue, link, own, orphans, refused, lost>>
    BY <1>7 DEF Pages!Again
  <2>2. queue = <<>>
    <3>1. banner /\ section = "run"
      BY <1>7 DEF Pages!Again, SetupInv, Counts
    <3>2. done \in Nat /\ total \in Nat /\ done + Len(queue) <= total /\ done >= total /\ Len(queue) \in Nat
      BY <3>1 DEF SetupInv, SetupType, Counts
    <3>3. Len(queue) = 0 /\ queue \in Seq(Source)
      BY <3>2 DEF SetupInv, SetupType
    <3> QED BY <3>3, EmptySeq
  <2>3. SetupType'
    BY <2>1 DEF SetupInv, SetupType
  <2>4. Cards'
    BY <2>1 DEF SetupInv, Cards
  <2>5. Counts' /\ Links'
    BY <2>1, <2>2 DEF SetupInv, Counts, Links
  <2> QED BY <2>3, <2>4, <2>5 DEF SetupInv
<1> QED BY <1>1, <1>2, <1>3, <1>4, <1>5, <1>6, <1>7 DEF Pages!SetupNext

(* The banner is shown when the loop over the runs has ended every one of them    *)
(* and not before, unless the server refused one; what was not asked for is       *)
(* queued, and no process is left beside another (startRuns, startRun).           *)
THEOREM BannerIsTheEnd == ASSUME SetupBounds PROVE Pages!SetupSpec => []Pages!BannerTellsTheEnd
<1>1. Pages!SetupInit => SetupInv
  BY SetupStarts
<1>2. SetupInv /\ [Pages!SetupNext]_Pages!setupVars => SetupInv'
  BY SetupStep
<1>3. SetupInv => Pages!BannerTellsTheEnd
  <2> SUFFICES ASSUME SetupInv PROVE Pages!BannerTellsTheEnd
    OBVIOUS
  <2>1. queue \in Seq(Source) /\ Len(queue) \in Nat /\ DOMAIN queue = 1..Len(queue)
        /\ (queue = <<>> <=> Len(queue) = 0)
    BY EmptySeq DEF SetupInv, SetupType
  <2>2. /\ section # "run" => queue = <<>> /\ ~ banner
        /\ section = "run" => /\ done + Len(queue) <= total /\ total > 0
                              /\ ~ refused => done + Len(queue) = total
                              /\ banner <=> done >= total
    BY DEF SetupInv, Counts
  <2>3. done \in Nat /\ total \in Nat
    BY DEF SetupInv, SetupType
  <2>4. section = "run" /\ ~ refused => (banner <=> queue = <<>>)
    BY <2>1, <2>2, <2>3
  <2>5. banner => section = "run" /\ queue = <<>>
    BY <2>1, <2>2, <2>3
  <2>6. banner => \A s \in Source : card[s] \in {"none", "complete", "failed"}
    <3> SUFFICES ASSUME banner, NEW s \in Source PROVE card[s] \in {"none", "complete", "failed"}
      OBVIOUS
    <3>1. Len(queue) = 0
      BY <2>1, <2>5
    <3>2. card[s] \notin {"running", "queued"}
      BY <3>1 DEF SetupInv, Cards
    <3>3. card[s] \in {"none", "queued", "running", "complete", "failed"}
      BY DEF SetupInv, SetupType
    <3> QED BY <3>2, <3>3
  <2>7. \A i \in DOMAIN queue : card[queue[i]] = IF i = 1 THEN "running" ELSE "queued"
    BY <2>1 DEF SetupInv, Cards
  <2>8. ~ lost => orphans = 0
    BY DEF SetupInv, Links
  <2> QED BY <2>4, <2>5, <2>6, <2>7, <2>8 DEF Pages!BannerTellsTheEnd
<1> QED BY <1>1, <1>2, <1>3, PTL DEF Pages!SetupSpec

-----------------------------------------------------------------------------
(***************************************************************************)
(* The client of a language server.  What has been written was written in  *)
(* answer to requests that nobody has still to answer (Written), and ids   *)
(* are given once; so whichever of it the loop of handleData() takes, and  *)
(* however it is cut up, it is for calls whose request is answered.  With  *)
(* one server that writes ASCII the stream is one whole answer after the   *)
(* other, of which the buffer is the beginning (InStep).  The loop is a    *)
(* recursive function: that there is one, and what it does in as many      *)
(* turns as there are characters, is by induction over the turns.          *)
(***************************************************************************)
\* A finite set of numbers that is not empty has a least one.
LEMMA Least ==
    ASSUME NEW U \in SUBSET Nat, IsFiniteSet(U), U # {} PROVE \E m \in U : \A k \in U : m <= k
<1>1. U \in SUBSET Int /\ FALSE \in BOOLEAN
  OBVIOUS
<1>2. Market!Extreme(U, FALSE) \in U /\ \A k \in U : Market!Extreme(U, FALSE) <= k
  BY <1>1, ExtremeMember
<1> QED BY <1>2

\* Induction over a bounded range, of a set of numbers.
LEMMA ReachesAll ==
    ASSUME NEW n \in Nat, NEW G \in SUBSET (0..n), 0 \in G, \A k \in 1..n : k - 1 \in G => k \in G
    PROVE  \A k \in 0..n : k \in G
<1> DEFINE U == (0..n) \ G
<1>1. IsFiniteSet(U) /\ U \in SUBSET Nat
  <2>1. IsFiniteSet(0..n) /\ U \in SUBSET (0..n)
    BY FS_Interval
  <2>2. IsFiniteSet(U)
    <3> HIDE DEF U
    <3> QED BY <2>1, FS_Subset
  <2> QED BY <2>1, <2>2
<1>2. ASSUME U # {} PROVE FALSE
  <2>1. PICK m \in U : \A k \in U : m <= k
    BY <1>1, <1>2, Least
  <2>2. m \in 1..n /\ m - 1 \in 0..n
    OBVIOUS
  <2>3. m - 1 \in G
    BY <2>1, <2>2
  <2> QED BY <2>2, <2>3
<1> QED BY <1>2

Turns(all) ==
    CHOOSE Loop : Loop = [k \in 0..Len(all) |->
        IF k = 0 THEN [buffer |-> all, got |-> {}] ELSE Lsp!Frame(Loop[k - 1])]

LEMMA HandleTurns == ASSUME NEW read PROVE Lsp!HandleData(read) = Turns(buffer \o read)[Len(buffer \o read)]
BY DEF Lsp!HandleData, Turns

\* The loop there is: one turn after the other.
LEMMA TurnByTurn ==
    ASSUME NEW all, Len(all) \in Nat
    PROVE  /\ Turns(all)[0] = [buffer |-> all, got |-> {}]
           /\ \A k \in 1..Len(all) : Turns(all)[k] = Lsp!Frame(Turns(all)[k - 1])
<1> DEFINE n == Len(all)
           first == [buffer |-> all, got |-> {}]
           Is(f, m) == f = [k \in 0..m |-> IF k = 0 THEN first ELSE Lsp!Frame(f[k - 1])]
           G == {m \in 0..n : \E f : Is(f, m)}
<1> HIDE DEF first
<1>1. 0 \in G
  <2> DEFINE g == [k \in 0..0 |-> first]
  <2>1. \A k \in 0..0 : k = 0
    OBVIOUS
  <2>2. \A k \in 0..0 : g[k] = IF k = 0 THEN first ELSE Lsp!Frame(g[k - 1])
    BY <2>1
  <2>3. g = [k \in 0..0 |-> g[k]]
    OBVIOUS
  <2>4. Is(g, 0)
    <3> HIDE DEF g
    <3> QED BY <2>2, <2>3
  <2>5. 0 \in 0..n
    OBVIOUS
  <2> HIDE DEF Is, g
  <2> QED BY <2>4, <2>5
<1>2. ASSUME NEW m \in 1..n, m - 1 \in G PROVE m \in G
  <2>1. PICK f : f = [k \in 0..m - 1 |-> IF k = 0 THEN first ELSE Lsp!Frame(f[k - 1])]
    BY <1>2
  <2> DEFINE g == [k \in 0..m |-> IF k = m THEN Lsp!Frame(f[m - 1]) ELSE f[k]]
  <2>2. ASSUME NEW k \in 0..m PROVE g[k] = IF k = 0 THEN first ELSE Lsp!Frame(g[k - 1])
    <3>1. m \in Nat /\ m # 0 /\ m - 1 # m /\ m - 1 \in 0..m
      OBVIOUS
    <3>2. CASE k = m
      <4>1. g[k] = Lsp!Frame(f[m - 1]) /\ g[m - 1] = f[m - 1]
        BY <3>1, <3>2
      <4> HIDE DEF g
      <4> QED BY <3>1, <3>2, <4>1
    <3>3. CASE k # m
      <4>1. k \in 0..m - 1 /\ (k # 0 => k - 1 \in 0..m /\ k - 1 # m)
        BY <3>3
      <4>2. g[k] = f[k] /\ (k # 0 => g[k - 1] = f[k - 1])
        BY <3>3, <4>1
      <4>3. f[k] = IF k = 0 THEN first ELSE Lsp!Frame(f[k - 1])
        BY <2>1, <4>1
      <4> HIDE DEF g
      <4> QED BY <4>2, <4>3
    <3> QED BY <3>2, <3>3
  <2>3. Is(g, m)
    <3>1. g = [k \in 0..m |-> g[k]]
      OBVIOUS
    <3> HIDE DEF g
    <3> QED BY <2>2, <3>1
  <2> HIDE DEF Is, g
  <2> QED BY <2>3
<1>3. n \in G
  <2> HIDE DEF G
  <2>1. G \in SUBSET (0..n)
    BY DEF G
  <2>2. n \in Nat /\ n \in 0..n
    BY DEF n
  <2>3. \A k \in 1..n : k - 1 \in G => k \in G
    BY <1>2
  <2> HIDE DEF n
  <2> QED BY <1>1, <2>1, <2>2, <2>3, ReachesAll
<1>4. \E f : f = [k \in 0..n |-> IF k = 0 THEN first ELSE Lsp!Frame(f[k - 1])]
  BY <1>3
<1>5. Turns(all) = [k \in 0..n |-> IF k = 0 THEN first ELSE Lsp!Frame(Turns(all)[k - 1])]
  BY <1>4 DEF Turns, first
<1>6. Turns(all)[0] = first
  <2>1. 0 \in 0..n
    OBVIOUS
  <2> QED BY <1>5, <2>1
<1>7. ASSUME NEW k \in 1..n PROVE Turns(all)[k] = Lsp!Frame(Turns(all)[k - 1])
  <2>1. k \in 0..n /\ k # 0
    OBVIOUS
  <2> QED BY <1>5, <2>1
<1> QED BY <1>6, <1>7 DEF first

Tokens == [kind : {"content", "length", "body"}, value : Nat]
Bodies(W) == {x.value : x \in {y \in W : y.kind = "body"}}

FirstLength(b) ==
    LET I == {i \in 1..Len(b) : b[i].kind = "length"} IN IF I # {} THEN Lsp!Min(I) ELSE 0

LEMMA FirstLengthIsFirst ==
    ASSUME NEW b, Len(b) \in Nat
    PROVE  /\ FirstLength(b) \in 0..Len(b)
           /\ FirstLength(b) # 0 => b[FirstLength(b)].kind = "length"
           /\ \A i \in 1..Len(b) : b[i].kind = "length" => FirstLength(b) # 0 /\ FirstLength(b) <= i
<1> DEFINE I == {i \in 1..Len(b) : b[i].kind = "length"}
<1>1. I \in SUBSET Nat /\ IsFiniteSet(I)
  <2>1. IsFiniteSet(1..Len(b)) /\ I \in SUBSET (1..Len(b))
    BY FS_Interval
  <2>2. IsFiniteSet(I)
    <3> HIDE DEF I
    <3> QED BY <2>1, FS_Subset
  <2> QED BY <2>1, <2>2
<1>2. CASE I = {}
  <2>1. FirstLength(b) = 0
    BY <1>2 DEF FirstLength
  <2> QED BY <1>2, <2>1
<1>3. CASE I # {}
  <2>1. FirstLength(b) = Lsp!Min(I)
    BY <1>3 DEF FirstLength
  <2>2. \E m \in I : \A k \in I : m <= k
    <3> HIDE DEF I
    <3> QED BY <1>1, <1>3, Least
  <2>3. Lsp!Min(I) \in I /\ \A k \in I : Lsp!Min(I) <= k
    <3> HIDE DEF I
    <3> QED BY <2>2 DEF Lsp!Min
  <2>4. FirstLength(b) \in I /\ \A k \in I : FirstLength(b) <= k
    <3> HIDE DEF I
    <3> QED BY <2>1, <2>3
  <2> QED BY <2>4
<1> QED BY <1>2, <1>3

LEMMA FrameIs ==
    ASSUME NEW st
    PROVE  LET b == st.buffer
               e == FirstLength(b)
               n == b[e].value
               body == SubSeq(b, e + 1, e + n)
           IN  Lsp!Frame(st) =
                 IF e = 0 THEN st
                 ELSE IF ~ (e > 1 /\ b[e - 1].kind = "content")
                      THEN [st EXCEPT !.buffer = SubSeq(st.buffer, e + 1, Len(st.buffer))]
                 ELSE IF Len(b) < e + n THEN st
                 ELSE [buffer |-> SubSeq(b, e + n + 1, Len(b)),
                       got |-> st.got \cup IF n = 1 /\ body[1].kind = "body" THEN {body[1].value} ELSE {}]
BY DEF Lsp!Frame, Lsp!SelectInSeq, FirstLength

\* A turn takes nothing but what is there.
LEMMA FrameTakes ==
    ASSUME NEW W \in SUBSET Tokens, NEW st \in [buffer : Seq(W), got : SUBSET Bodies(W)]
    PROVE  Lsp!Frame(st) \in [buffer : Seq(W), got : SUBSET Bodies(W)]
<1> DEFINE b == st.buffer
           e == FirstLength(b)
           n == b[e].value
           body == SubSeq(b, e + 1, e + n)
           g == IF n = 1 /\ body[1].kind = "body" THEN {body[1].value} ELSE {}
<1>1. b \in Seq(W) /\ Len(b) \in Nat /\ st.got \in SUBSET Bodies(W)
  OBVIOUS
<1>2. \A i \in 1..Len(b) : b[i] \in W
  <2> HIDE DEF b
  <2> QED BY <1>1
<1>3. e \in 0..Len(b)
  <2> HIDE DEF b
  <2> QED BY <1>1, FirstLengthIsFirst
<1>4. \A i \in 1..Len(b) + 1 : SubSeq(b, i, Len(b)) \in Seq(W)
  <2> HIDE DEF b
  <2> SUFFICES ASSUME NEW i \in 1..Len(b) + 1 PROVE SubSeq(b, i, Len(b)) \in Seq(W)
    OBVIOUS
  <2>1. \A j \in i..Len(b) : b[j] \in W
    BY <1>1, <1>2
  <2> QED BY <1>1, <2>1, SubSeqProperties
<1>5. CASE e = 0
  BY <1>5, FrameIs
<1>6. CASE e # 0 /\ ~ (e > 1 /\ b[e - 1].kind = "content")
  <2>1. Lsp!Frame(st) = [st EXCEPT !.buffer = SubSeq(st.buffer, e + 1, Len(st.buffer))]
    BY <1>6, FrameIs
  <2>2. e + 1 \in 1..Len(b) + 1
    BY <1>3, <1>1, <1>6
  <2>3. SubSeq(b, e + 1, Len(b)) \in Seq(W)
    <3> HIDE DEF b, e
    <3> QED BY <1>4, <2>2
  <2> QED BY <2>1, <2>3
<1>7. CASE e # 0 /\ (e > 1 /\ b[e - 1].kind = "content") /\ Len(b) < e + n
  BY <1>7, FrameIs
<1>8. CASE e # 0 /\ (e > 1 /\ b[e - 1].kind = "content") /\ ~ (Len(b) < e + n)
  <2>1. Lsp!Frame(st) = [buffer |-> SubSeq(b, e + n + 1, Len(b)), got |-> st.got \cup g]
    BY <1>8, FrameIs
  <2>2. n \in Nat /\ e \in 1..Len(b)
    <3> HIDE DEF b, e
    <3>1. e \in 1..Len(b)
      BY <1>1, <1>3, <1>8
    <3> QED BY <1>2, <3>1 DEF Tokens
  <2>3. e + n + 1 \in 1..Len(b) + 1
    <3> HIDE DEF b, e, n
    <3> QED BY <1>1, <1>8, <2>2
  <2>4. SubSeq(b, e + n + 1, Len(b)) \in Seq(W)
    <3> HIDE DEF b, e, n
    <3> QED BY <1>4, <2>3
  <2>5. g \in SUBSET Bodies(W)
    <3> SUFFICES ASSUME n = 1, body[1].kind = "body" PROVE body[1].value \in Bodies(W)
      OBVIOUS
    <3>1. e + 1 \in 1..Len(b)
      <4> HIDE DEF b, e, n
      <4> QED BY <1>1, <1>8, <2>2
    <3>2. body[1] = b[e + 1] /\ body[1] \in W
      <4> DEFINE m == e + 1
      <4>1. body = SubSeq(b, m, m)
        OBVIOUS
      <4>2. m \in 1..Len(b)
        BY <3>1
      <4> HIDE DEF b, e, n, body, m
      <4>3. m \in Int /\ \A j \in m..m : b[j] \in W
        BY <1>2, <4>2
      <4>4. \A j \in 1..m - m + 1 : SubSeq(b, m, m)[j] = b[m + j - 1]
        BY <4>3, SubSeqProperties
      <4>5. m - m + 1 = 1 /\ m + 1 - 1 = m
        BY <4>3
      <4>6. 1 \in 1..m - m + 1
        BY <4>5
      <4>7. SubSeq(b, m, m)[1] = b[m + 1 - 1]
        BY <4>4, <4>6
      <4> QED BY <1>2, <4>1, <4>2, <4>5, <4>7 DEF m
    <3> HIDE DEF body
    <3> QED BY <3>2 DEF Bodies
  <2> HIDE DEF g, n, b, e
  <2> QED BY <1>1, <2>1, <2>4, <2>5
<1> QED BY <1>5, <1>6, <1>7, <1>8

LEMMA HandleTakes ==
    ASSUME NEW W \in SUBSET Tokens, NEW all \in Seq(W)
    PROVE  Turns(all)[Len(all)] \in [buffer : Seq(W), got : SUBSET Bodies(W)]
<1> DEFINE n == Len(all)
           Good == [buffer : Seq(W), got : SUBSET Bodies(W)]
           G == {k \in 0..n : Turns(all)[k] \in Good}
<1>1. n \in Nat /\ n \in 0..n /\ 0 \in 0..n
  OBVIOUS
<1>2. 0 \in G
  <2>1. Turns(all)[0] = [buffer |-> all, got |-> {}]
    BY <1>1, TurnByTurn
  <2> QED BY <1>1, <2>1
<1>3. ASSUME NEW k \in 1..n, k - 1 \in G PROVE k \in G
  <2>1. Turns(all)[k] = Lsp!Frame(Turns(all)[k - 1])
    BY <1>1, TurnByTurn
  <2>2. Turns(all)[k - 1] \in Good
    BY <1>3
  <2>3. Lsp!Frame(Turns(all)[k - 1]) \in Good
    BY <2>2, FrameTakes
  <2>4. k \in 0..n
    OBVIOUS
  <2> HIDE DEF Good, n
  <2> QED BY <2>1, <2>3, <2>4
<1>4. n \in G
  <2>1. G \in SUBSET (0..n)
    OBVIOUS
  <2> HIDE DEF G, n
  <2> QED BY <1>1, <1>2, <1>3, <2>1, ReachesAll
<1> HIDE DEF n, Good
<1> QED BY <1>4 DEF n, Good

\* A sequence of whole answers, of one character each.
InThrees(q) ==
    \A k \in 1..Len(q) : /\ k % 3 = 1 => q[k].kind = "content"
                         /\ k % 3 = 2 => q[k].kind = "length" /\ q[k].value = 1
                         /\ k % 3 = 0 => q[k].kind = "body"

LEMMA FrameInThrees ==
    ASSUME NEW q \in Seq(Tokens), InThrees(q), NEW got
    PROVE  /\ Len(q) < 3 => Lsp!Frame([buffer |-> q, got |-> got]) = [buffer |-> q, got |-> got]
           /\ Len(q) >= 3 => Lsp!Frame([buffer |-> q, got |-> got]) =
                                [buffer |-> SubSeq(q, 4, Len(q)), got |-> got \cup {q[3].value}]
<1> DEFINE st == [buffer |-> q, got |-> got]
           e == FirstLength(q)
<1>1. st.buffer = q /\ st.got = got /\ Len(q) \in Nat
  OBVIOUS
<1>2. /\ 1 <= Len(q) => q[1].kind = "content"
      /\ 2 <= Len(q) => q[2].kind = "length" /\ q[2].value = 1
      /\ 3 <= Len(q) => q[3].kind = "body"
  <2>1. 1 % 3 = 1 /\ 2 % 3 = 2 /\ 3 % 3 = 0
    OBVIOUS
  <2> QED BY <1>1, <2>1 DEF InThrees
<1>3. /\ e \in 0..Len(q)
      /\ e # 0 => q[e].kind = "length"
      /\ \A i \in 1..Len(q) : q[i].kind = "length" => e # 0 /\ e <= i
  BY <1>1, FirstLengthIsFirst
<1> HIDE DEF e
<1>4. IF Len(q) < 2 THEN e = 0 ELSE e = 2
  <2>1. CASE Len(q) < 2
    BY <1>1, <1>2, <1>3, <2>1
  <2>2. CASE Len(q) >= 2
    <3>1. e # 0 /\ e <= 2
      BY <1>1, <1>2, <1>3, <2>2
    <3>2. e # 1
      BY <1>1, <1>2, <1>3, <2>2
    <3> QED BY <1>1, <1>3, <2>2, <3>1, <3>2
  <2> QED BY <1>1, <2>1, <2>2
<1>5. CASE Len(q) < 2
  <2>1. e = 0
    BY <1>4, <1>5
  <2> QED BY <1>1, <1>5, <2>1, FrameIs DEF e
<1>6. CASE Len(q) >= 2
  <2>1. e = 2 /\ q[e - 1].kind = "content" /\ q[e].value = 1
    BY <1>1, <1>2, <1>4, <1>6
  <2>2. CASE Len(q) = 2
    <3>1. ~ (Len(q) >= 3) /\ Len(q) < e + q[e].value
      BY <2>1, <2>2
    <3> QED BY <1>1, <2>1, <3>1, FrameIs DEF e
  <2>3. CASE Len(q) >= 3
    <3>1. ~ (Len(q) < e + q[e].value) /\ ~ (Len(q) < 3)
      BY <1>1, <2>1, <2>3
    <3>2. SubSeq(q, e + 1, e + q[e].value)[1] = q[3]
      <4>1. \A i \in 3..3 : q[i] \in Tokens
        BY <2>3
      <4>2. \A i \in 1..3 - 3 + 1 : SubSeq(q, 3, 3)[i] = q[3 + i - 1]
        BY <4>1, SubSeqProperties
      <4>3. SubSeq(q, 3, 3)[1] = q[3]
        BY <4>2
      <4>4. e + 1 = 3 /\ e + q[e].value = 3
        BY <2>1
      <4> QED BY <4>3, <4>4
    <3>3. e + q[e].value + 1 = 4
      BY <2>1
    <3>4. q[3].kind = "body"
      BY <1>2, <2>3
    <3>5. Lsp!Frame(st) = [buffer |-> SubSeq(q, e + q[e].value + 1, Len(q)),
                           got |-> got \cup {SubSeq(q, e + 1, e + q[e].value)[1].value}]
      <4> DEFINE n == q[e].value
                 body == SubSeq(q, e + 1, e + n)
      <4> HIDE DEF st
      <4>1. Lsp!Frame(st) =
              IF e = 0 THEN st
              ELSE IF ~ (e > 1 /\ q[e - 1].kind = "content")
                   THEN [st EXCEPT !.buffer = SubSeq(st.buffer, e + 1, Len(st.buffer))]
              ELSE IF Len(q) < e + n THEN st
              ELSE [buffer |-> SubSeq(q, e + n + 1, Len(q)),
                    got |-> got \cup IF n = 1 /\ body[1].kind = "body" THEN {body[1].value} ELSE {}]
        BY <1>1, FrameIs DEF e
      <4>2. e # 0 /\ e > 1 /\ q[e - 1].kind = "content" /\ ~ (Len(q) < e + n)
        BY <2>1, <3>1
      <4>3. n = 1 /\ body[1].kind = "body"
        BY <2>1, <3>2, <3>4
      <4> HIDE DEF n, body
      <4>4. Lsp!Frame(st) = [buffer |-> SubSeq(q, e + n + 1, Len(q)), got |-> got \cup {body[1].value}]
        BY <4>1, <4>2, <4>3
      <4> QED BY <4>4 DEF n, body
    <3> QED BY <3>1, <3>2, <3>3, <3>5
  <2>4. Len(q) = 2 \/ Len(q) >= 3
    <3>1. \A n \in Nat : n >= 2 => n = 2 \/ n >= 3
      OBVIOUS
    <3> HIDE DEF st
    <3> QED BY <1>1, <1>6, <3>1
  <2> QED BY <2>2, <2>3, <2>4
<1>7. Len(q) < 2 \/ Len(q) >= 2
  BY <1>1
<1> QED BY <1>5, <1>6, <1>7

\* What is left of what is left.
LEMMA RestOfRest ==
    ASSUME NEW S, NEW s \in Seq(S), NEW r \in 0..Len(s), NEW m \in 0..Len(s) - r
    PROVE  LET q == SubSeq(s, r + 1, Len(s)) IN
           /\ q \in Seq(S) /\ Len(q) = Len(s) - r /\ \A i \in 1..Len(q) : q[i] = s[r + i]
           /\ SubSeq(q, m + 1, Len(q)) = SubSeq(s, r + m + 1, Len(s))
<1> DEFINE n == Len(s)
           q == SubSeq(s, r + 1, n)
<1>1. n \in Nat /\ r \in Nat /\ m \in Nat /\ r + m <= n
  OBVIOUS
<1>2. ASSUME NEW k \in 0..n
      PROVE  /\ SubSeq(s, k + 1, n) \in Seq(S) /\ Len(SubSeq(s, k + 1, n)) = n - k
             /\ \A i \in 1..n - k : SubSeq(s, k + 1, n)[i] = s[k + i]
  <2>1. k + 1 \in Int /\ n \in Int /\ \A i \in k + 1..n : s[i] \in S
    OBVIOUS
  <2> DEFINE t == SubSeq(s, k + 1, n)
  <2>2. /\ t \in Seq(S) /\ Len(t) = (IF k + 1 <= n THEN n - (k + 1) + 1 ELSE 0)
        /\ \A i \in 1..n - (k + 1) + 1 : t[i] = s[k + 1 + i - 1]
    <3> HIDE DEF n
    <3> QED BY <2>1, SubSeqProperties
  <2> HIDE DEF t, n
  <2>3. n - (k + 1) + 1 = n - k /\ \A i \in Int : k + 1 + i - 1 = k + i
    BY <1>1
  <2> QED BY <1>1, <2>2, <2>3 DEF t
<1>3. q \in Seq(S) /\ Len(q) = n - r /\ \A i \in 1..n - r : q[i] = s[r + i]
  BY <1>2
<1> HIDE DEF q
<1>4. /\ SubSeq(q, m + 1, n - r) \in Seq(S)
      /\ Len(SubSeq(q, m + 1, n - r)) = n - r - m
      /\ \A i \in 1..n - r - m : SubSeq(q, m + 1, n - r)[i] = q[m + i]
  <2> DEFINE t == SubSeq(q, m + 1, n - r)
  <2>1. m + 1 \in Int /\ n - r \in Int /\ \A i \in m + 1..n - r : q[i] \in S
    BY <1>1, <1>3
  <2>2. /\ t \in Seq(S) /\ Len(t) = (IF m + 1 <= n - r THEN n - r - (m + 1) + 1 ELSE 0)
        /\ \A i \in 1..n - r - (m + 1) + 1 : t[i] = q[m + 1 + i - 1]
    <3> HIDE DEF n
    <3> QED BY <2>1, SubSeqProperties
  <2> HIDE DEF t, n
  <2>3. n - r - (m + 1) + 1 = n - r - m /\ \A i \in Int : m + 1 + i - 1 = m + i
    BY <1>1
  <2> QED BY <1>1, <2>2, <2>3 DEF t
<1>5. r + m \in 0..n /\ n - (r + m) = n - r - m
  BY <1>1
<1> DEFINE a == SubSeq(q, m + 1, n - r)
           b == SubSeq(s, r + m + 1, n)
<1>6. b \in Seq(S) /\ Len(b) = n - r - m /\ \A i \in 1..n - r - m : b[i] = s[r + m + i]
  BY <1>2, <1>5
<1>7. \A i \in 1..n - r - m : a[i] = b[i]
  <2> SUFFICES ASSUME NEW i \in 1..n - r - m PROVE a[i] = b[i]
    OBVIOUS
  <2>1. m + i \in 1..n - r /\ r + (m + i) = r + m + i
    BY <1>1
  <2>2. a[i] = q[m + i] /\ b[i] = s[r + m + i]
    BY <1>4, <1>6
  <2> QED BY <1>3, <2>1, <2>2
<1>8. a = b
  <2> HIDE DEF a, b
  <2>1. a \in Seq(S) /\ Len(a) = n - r - m
    BY <1>4 DEF a
  <2> QED BY <1>6, <1>7, <2>1, SeqEqual
<1>9. SubSeq(q, m + 1, Len(q)) = SubSeq(s, r + m + 1, n)
  BY <1>3, <1>8
<1> QED BY <1>3, <1>9 DEF q

LEMMA HandleInThrees ==
    ASSUME NEW all \in Seq(Tokens), InThrees(all)
    PROVE  \E r \in 0..Len(all) : \E got :
               /\ r % 3 = 0 /\ Len(all) - r < 3
               /\ Turns(all)[Len(all)] = [buffer |-> SubSeq(all, r + 1, Len(all)), got |-> got]
               /\ \A p \in 1..r : p % 3 = 0 => all[p].value \in got
<1> DEFINE n == Len(all)
           Reached(j, r, got) ==
               /\ r % 3 = 0 /\ (r >= j \/ n - r < 3)
               /\ Turns(all)[j] = [buffer |-> SubSeq(all, r + 1, n), got |-> got]
               /\ \A p \in 1..r : p % 3 = 0 => all[p].value \in got
           G == {j \in 0..n : \E r \in 0..n : \E got : Reached(j, r, got)}
<1>1. n \in Nat /\ n \in 0..n /\ 0 \in 0..n
  OBVIOUS
<1>2. 0 \in G
  <2>1. Turns(all)[0] = [buffer |-> all, got |-> {}]
    BY <1>1, TurnByTurn
  <2>2. SubSeq(all, 0 + 1, n) = all
    BY SubSeqFull
  <2>3. Reached(0, 0, {})
    <3>1. 0 % 3 = 0 /\ 0 >= 0 /\ \A p \in 1..0 : p % 3 = 0 => all[p].value \in {}
      OBVIOUS
    <3>2. Turns(all)[0] = [buffer |-> SubSeq(all, 0 + 1, n), got |-> {}]
      BY <2>1, <2>2
    <3> QED BY <3>1, <3>2
  <2> HIDE DEF Reached
  <2> QED BY <1>1, <2>3
<1>3. ASSUME NEW j \in 1..n, j - 1 \in G PROVE j \in G
  <2>0. PICK r \in 0..n : \E got : Reached(j - 1, r, got)
    <3> HIDE DEF Reached
    <3> QED BY <1>3
  <2>1. PICK got : Reached(j - 1, r, got)
    <3> HIDE DEF Reached
    <3> QED BY <2>0
  <2> DEFINE q == SubSeq(all, r + 1, n)
  <2>2. Turns(all)[j] = Lsp!Frame([buffer |-> q, got |-> got])
    BY <1>1, <2>1, TurnByTurn
  <2>3. q \in Seq(Tokens) /\ Len(q) = n - r /\ \A i \in 1..Len(q) : q[i] = all[r + i]
    <3>1. 0 \in 0..n - r
      OBVIOUS
    <3> QED BY <3>1, RestOfRest
  <2>4. InThrees(q)
    <3> HIDE DEF q
    <3> SUFFICES ASSUME NEW k \in 1..Len(q)
                 PROVE  /\ k % 3 = 1 => q[k].kind = "content"
                        /\ k % 3 = 2 => q[k].kind = "length" /\ q[k].value = 1
                        /\ k % 3 = 0 => q[k].kind = "body"
      BY DEF InThrees
    <3>1. r + k \in 1..n /\ (r + k) % 3 = k % 3
      <4>1. r % 3 = 0 /\ r \in Nat /\ Len(q) = n - r
        BY <2>1, <2>3
      <4> HIDE DEF n
      <4>2. k \in Nat /\ r + k >= 1 /\ r + k <= n
        BY <1>1, <4>1
      <4> QED BY <1>1, <4>1, <4>2
    <3> QED BY <2>3, <3>1 DEF InThrees
  <2>5. CASE n - r < 3
    <3>1. Lsp!Frame([buffer |-> q, got |-> got]) = [buffer |-> q, got |-> got]
      <4> HIDE DEF q
      <4> QED BY <2>3, <2>4, <2>5, FrameInThrees
    <3>2. Reached(j, r, got)
      BY <2>1, <2>2, <2>5, <3>1
    <3> HIDE DEF Reached
    <3> QED BY <3>2
  <2>6. CASE n - r >= 3
    <3>1. Lsp!Frame([buffer |-> q, got |-> got]) = [buffer |-> SubSeq(q, 4, Len(q)), got |-> got \cup {q[3].value}]
      <4> HIDE DEF q
      <4> QED BY <2>3, <2>4, <2>6, FrameInThrees
    <3>2. SubSeq(q, 3 + 1, Len(q)) = SubSeq(all, r + 3 + 1, n)
      <4>1. 3 \in 0..n - r
        BY <2>6
      <4> QED BY <4>1, RestOfRest
    <3>3. q[3] = all[r + 3]
      BY <2>3, <2>6
    <3> DEFINE t == r + 3
    <3>4. t \in 0..n /\ t % 3 = 0 /\ t >= j
      <4>1. r % 3 = 0 /\ r >= j - 1
        BY <2>1, <2>6
      <4> QED BY <1>1, <2>6, <4>1
    <3>5. Turns(all)[j] = [buffer |-> SubSeq(all, t + 1, n), got |-> got \cup {all[t].value}]
      <4> HIDE DEF q, n
      <4>1. 3 + 1 = 4
        OBVIOUS
      <4>2. SubSeq(q, 4, Len(q)) = SubSeq(all, r + 3 + 1, n)
        BY <3>2, <4>1
      <4> QED BY <2>2, <3>1, <3>3, <4>2
    <3>6. \A p \in 1..t : p % 3 = 0 => all[p].value \in got \cup {all[t].value}
      <4> SUFFICES ASSUME NEW p \in 1..t, p % 3 = 0, p # t PROVE all[p].value \in got
        OBVIOUS
      <4>1. r % 3 = 0
        BY <2>1
      <4>2. p \in 1..r
        BY <4>1
      <4> QED BY <2>1, <4>2
    <3>7. Reached(j, t, got \cup {all[t].value})
      <4> HIDE DEF t
      <4> QED BY <3>4, <3>5, <3>6
    <3> HIDE DEF Reached, t
    <3> QED BY <3>4, <3>7
  <2>7. n - r < 3 \/ n - r >= 3
    <3> HIDE DEF n
    <3> QED BY <1>1
  <2> QED BY <2>5, <2>6, <2>7
<1>4. n \in G
  <2>1. G \in SUBSET (0..n)
    OBVIOUS
  <2> HIDE DEF G, n
  <2> QED BY <1>1, <1>2, <1>3, <2>1, ReachesAll
<1>5. PICK r \in 0..n : \E got : Reached(n, r, got)
  <2> HIDE DEF Reached
  <2> QED BY <1>4
<1>6. PICK got : Reached(n, r, got)
  <2> HIDE DEF Reached
  <2> QED BY <1>5
<1>7. n - r < 3
  BY <1>1, <1>6
<1> QED BY <1>6, <1>7

LspBounds == Calls \in Nat /\ Servers \in Nat /\ Split \subseteq Nat

Waits == {"initialize", "query", "shutdown"}

\* Nobody has still to answer i.
Answered(i) == i \in 1..requestId /\ \A s \in 1..Servers : i \notin inbox[s]

Written == {x \in Tokens : x.kind = "body" => Answered(x.value)}

LspType ==
    /\ requestId \in Nat /\ started \in 0..Servers /\ process \in 0..started
    /\ alive \subseteq 1..started /\ wide \in BOOLEAN
    /\ at \in [Lsp!Call -> Waits \cup {"new", "reading", "setup", "answered", "failed", "kill", "threw", "down"}]
    /\ id \in [Lsp!Call -> 0..requestId] /\ to \in [Lsp!Call -> 0..Servers]
    /\ inbox \in [1..Servers -> SUBSET (1..requestId)]
    /\ buffer \in Seq(Written) /\ pipe \in [1..Servers -> Seq(Written)]

Waiting ==
    \A i \in DOMAIN pending : /\ i \in 1..requestId /\ pending[i] \in Lsp!Call
                              /\ id[pending[i]] = i /\ at[pending[i]] \in Waits

Asked ==
    /\ \A c, d \in Lsp!Call : c # d /\ id[c] = id[d] => id[c] = 0
    /\ \A c \in Lsp!Call : /\ id[c] # 0 => to[c] \in 1..Servers
                           /\ at[c] \in {"setup", "answered"} => \A s \in 1..Servers : id[c] \notin inbox[s]
    /\ \A s, t \in 1..Servers : s # t => inbox[s] \cap inbox[t] = {}

InStep ==
    /\ started = 0 => requestId = 0 /\ buffer = <<>>
    /\ \A s \in 1..Servers : s > started => pipe[s] = <<>>
    /\ ~ wide /\ started = 1 =>
          /\ InThrees(buffer \o pipe[1]) /\ Len(buffer \o pipe[1]) % 3 = 0 /\ Len(buffer) < 3
          /\ \A i \in DOMAIN pending :
                i \in inbox[1] \/ \E k \in 1..Len(pipe[1]) : pipe[1][k] = Lsp!Token("body", i)

LspInv == LspType /\ Waiting /\ Asked /\ InStep

LEMMA LspStarts == ASSUME LspBounds, Lsp!Init PROVE LspInv
<1>1. LspType
  <2>1. pipe = [s \in 1..Servers |-> <<>>] /\ <<>> \in Seq(Written) /\ buffer = <<>>
    BY EmptySeq DEF Lsp!Init
  <2>2. pipe \in [1..Servers -> Seq(Written)] /\ buffer \in Seq(Written)
    BY <2>1
  <2>3. inbox \in [1..Servers -> SUBSET (1..requestId)] /\ requestId = 0
    BY DEF Lsp!Init
  <2>4. at = [c \in Lsp!Call |-> "new"] /\ id = [c \in Lsp!Call |-> 0] /\ to = [c \in Lsp!Call |-> 0]
    BY DEF Lsp!Init, Lsp!NoServer
  <2>5. started = 0 /\ process = 0 /\ alive = {} /\ wide = FALSE
    BY DEF Lsp!Init, Lsp!NoServer
  <2>6. 0 \in 0..Servers /\ 0 \in 0..0
    BY DEF LspBounds
  <2> QED BY <2>2, <2>3, <2>4, <2>5, <2>6 DEF LspType
<1>2. Waiting
  BY DEF Lsp!Init, Waiting
<1>3. Asked
  BY DEF Lsp!Init, Asked
<1>4. InStep
  BY DEF Lsp!Init, InStep
<1> QED BY <1>1, <1>2, <1>3, <1>4 DEF LspInv

\* What was written stays written, and of answered requests.
LEMMA WrittenStays ==
    ASSUME LspType, requestId' \in Nat, requestId <= requestId',
           \A i \in 1..requestId : Answered(i) => Answered(i)'
    PROVE  /\ Written \subseteq Written'
           /\ buffer \in Seq(Written') /\ pipe \in [1..Servers -> Seq(Written')]
<1>1. Written \subseteq Written'
  <2> SUFFICES ASSUME NEW x \in Tokens, x.kind = "body", Answered(x.value) PROVE Answered(x.value)'
    BY DEF Written
  <2>1. x.value \in 1..requestId
    BY DEF Answered
  <2> QED BY <2>1
<1>2. buffer \in Seq(Written')
  BY <1>1, SeqMonotonic DEF LspType
<1>3. \A s \in 1..Servers : pipe[s] \in Seq(Written')
  <2> SUFFICES ASSUME NEW s \in 1..Servers PROVE pipe[s] \in Seq(Written')
    OBVIOUS
  <2>1. pipe[s] \in Seq(Written)
    BY DEF LspType
  <2> QED BY <1>1, <2>1, SeqMonotonic
<1>4. pipe \in [1..Servers -> Seq(Written')]
  BY <1>3 DEF LspType
<1> QED BY <1>1, <1>2, <1>4

LEMMA SendsKeep ==
    ASSUME LspBounds, LspInv, NEW c \in Lsp!Call, NEW s \in 1..Servers, NEW where \in Waits,
           at[c] \in {"new", "reading"}, Lsp!Sends(c, s, where), UNCHANGED <<pipe, buffer, wide>>
    PROVE  /\ Waiting' /\ Asked'
           /\ requestId' \in Nat /\ wide' \in BOOLEAN
           /\ at' \in [Lsp!Call -> Waits \cup {"new", "reading", "setup", "answered", "failed", "kill", "threw", "down"}]
           /\ id' \in [Lsp!Call -> 0..requestId'] /\ to' \in [Lsp!Call -> 0..Servers]
           /\ inbox' \in [1..Servers -> SUBSET (1..requestId')]
           /\ buffer' \in Seq(Written') /\ pipe' \in [1..Servers -> Seq(Written')]
           /\ DOMAIN pending' = DOMAIN pending \cup {requestId'}
           /\ \A t \in 1..Servers : inbox[t] \subseteq inbox'[t]
           /\ requestId' \in inbox'[s] /\ requestId' = requestId + 1
<1> DEFINE new == requestId + 1
           States == Waits \cup {"new", "reading", "setup", "answered", "failed", "kill", "threw", "down"}
<1>1. /\ requestId \in Nat /\ at \in [Lsp!Call -> States] /\ id \in [Lsp!Call -> 0..requestId]
      /\ to \in [Lsp!Call -> 0..Servers] /\ inbox \in [1..Servers -> SUBSET (1..requestId)]
      /\ Servers \in Nat
  BY DEF LspInv, LspType, LspBounds
<1>2. /\ requestId' = new
      /\ id' = [id EXCEPT ![c] = new] /\ to' = [to EXCEPT ![c] = s]
      /\ inbox' = [inbox EXCEPT ![s] = inbox[s] \cup {new}]
      /\ at' = [at EXCEPT ![c] = where]
      /\ pending' = [i \in DOMAIN pending \cup {new} |-> IF i = new THEN c ELSE pending[i]]
  BY DEF Lsp!Sends
<1>3. new \in Nat /\ new \in 1..new /\ 1..requestId \subseteq 1..new /\ new \notin 0..requestId
  BY <1>1
<1>4. c \notin {pending[i] : i \in DOMAIN pending}
  BY DEF LspInv, Waiting, Waits
<1> HIDE DEF new
<1>5. Waiting'
  <2> SUFFICES ASSUME NEW i \in DOMAIN pending'
               PROVE  /\ i \in 1..requestId' /\ pending'[i] \in Lsp!Call
                      /\ id'[pending'[i]] = i /\ at'[pending'[i]] \in Waits
    BY DEF Waiting, Lsp!Call
  <2>1. CASE i = new
    BY <1>1, <1>2, <1>3, <2>1
  <2>2. CASE i # new
    <3>1. i \in DOMAIN pending /\ pending'[i] = pending[i]
      BY <1>2, <2>2
    <3>2. i \in 1..requestId /\ pending[i] \in Lsp!Call /\ id[pending[i]] = i /\ at[pending[i]] \in Waits
      BY <3>1 DEF LspInv, Waiting
    <3>3. pending[i] # c
      BY <1>4, <3>1
    <3> QED BY <1>1, <1>2, <1>3, <3>1, <3>2, <3>3
  <2> QED BY <2>1, <2>2
<1>6. \A t \in 1..Servers : inbox'[t] = IF t = s THEN inbox[s] \cup {new} ELSE inbox[t]
  BY <1>1, <1>2
<1>7. Asked'
  <2>1. ASSUME NEW d \in Lsp!Call, NEW e \in Lsp!Call, d # e, id'[d] = id'[e] PROVE id'[d] = 0
    <3>1. id'[d] = (IF d = c THEN new ELSE id[d]) /\ id'[e] = (IF e = c THEN new ELSE id[e])
      BY <1>1, <1>2
    <3>2. id[d] \in 0..requestId /\ id[e] \in 0..requestId
      BY <1>1
    <3>3. d # c /\ e # c
      BY <1>3, <2>1, <3>1, <3>2
    <3> QED BY <2>1, <3>1, <3>3 DEF LspInv, Asked
  <2>2. ASSUME NEW d \in Lsp!Call, id'[d] # 0 PROVE to'[d] \in 1..Servers
    BY <1>1, <1>2, <2>2 DEF LspInv, Asked
  <2>3. ASSUME NEW d \in Lsp!Call, at'[d] \in {"setup", "answered"}, NEW t \in 1..Servers PROVE id'[d] \notin inbox'[t]
    <3>1. d # c
      BY <1>1, <1>2, <2>3 DEF Waits
    <3>2. at'[d] = at[d] /\ id'[d] = id[d] /\ id[d] \in 0..requestId
      BY <1>1, <1>2, <3>1
    <3>3. id[d] \notin inbox[t]
      BY <2>3, <3>2 DEF LspInv, Asked
    <3> QED BY <1>3, <1>6, <3>2, <3>3
  <2>4. ASSUME NEW t \in 1..Servers, NEW u \in 1..Servers, t # u PROVE inbox'[t] \cap inbox'[u] = {}
    <3>1. inbox[t] \cap inbox[u] = {} /\ new \notin inbox[t] /\ new \notin inbox[u]
      BY <1>1, <1>3, <2>4 DEF LspInv, Asked
    <3> QED BY <1>6, <2>4, <3>1
  <2> QED BY <2>1, <2>2, <2>3, <2>4 DEF Asked, Lsp!Call
<1>8. /\ at' \in [Lsp!Call -> States] /\ to' \in [Lsp!Call -> 0..Servers]
      /\ id' \in [Lsp!Call -> 0..requestId'] /\ inbox' \in [1..Servers -> SUBSET (1..requestId')]
  <2>1. at' \in [Lsp!Call -> States] /\ to' \in [Lsp!Call -> 0..Servers]
    BY <1>1, <1>2
  <2>2. 0..requestId \subseteq 0..new /\ new \in 0..new
    BY <1>1, <1>3 DEF new
  <2>3. id' \in [Lsp!Call -> 0..new]
    BY <1>1, <1>2, <2>2
  <2>4. inbox' \in [1..Servers -> SUBSET (1..new)]
    <3>1. \A t \in 1..Servers : inbox'[t] \in SUBSET (1..new)
      BY <1>1, <1>3, <1>6
    <3> QED BY <1>1, <1>2, <3>1
  <2> QED BY <1>2, <2>1, <2>3, <2>4
<1>9. \A i \in 1..requestId : Answered(i) => Answered(i)'
  BY <1>2, <1>3, <1>6 DEF Answered
<1>10. /\ buffer' \in Seq(Written') /\ pipe' \in [1..Servers -> Seq(Written')]
  <2>1. requestId' \in Nat /\ requestId <= requestId'
    BY <1>1, <1>2 DEF new
  <2> QED BY <1>9, <2>1, WrittenStays DEF LspInv
<1>11. /\ DOMAIN pending' = DOMAIN pending \cup {requestId'}
       /\ \A t \in 1..Servers : inbox[t] \subseteq inbox'[t]
       /\ requestId' \in inbox'[s] /\ requestId' \in Nat /\ wide' \in BOOLEAN
  BY <1>2, <1>3, <1>6 DEF LspInv, LspType
<1> QED BY <1>2, <1>5, <1>7, <1>8, <1>10, <1>11 DEF new

LEMMA SettleKeeps ==
    ASSUME LspInv, NEW ids, NEW answered \in BOOLEAN, Lsp!Settle(ids, answered),
           UNCHANGED <<requestId, id, to, inbox>>,
           answered => \A i \in ids \cap DOMAIN pending : \A s \in 1..Servers : i \notin inbox[s]
    PROVE  /\ Waiting' /\ Asked' /\ DOMAIN pending' = DOMAIN pending \ ids
           /\ at' \in [Lsp!Call -> Waits \cup {"new", "reading", "setup", "answered", "failed", "kill", "threw", "down"}]
<1> DEFINE calls == {pending[i] : i \in ids \cap DOMAIN pending}
           After(c) == CASE at[c] = "initialize" /\ answered -> "setup"
                         [] at[c] = "query" /\ answered -> "answered"
                         [] at[c] = "shutdown" -> "kill"
                         [] OTHER -> "failed"
<1>1. /\ pending' = [i \in DOMAIN pending \ ids |-> pending[i]]
      /\ at' = [c \in Lsp!Call |-> IF c \notin calls THEN at[c] ELSE After(c)]
  BY DEF Lsp!Settle
<1>2. \A i \in DOMAIN pending : /\ i \in 1..requestId /\ pending[i] \in Lsp!Call
                                /\ id[pending[i]] = i /\ at[pending[i]] \in Waits
  BY DEF LspInv, Waiting
<1>3. at \in [Lsp!Call -> Waits \cup {"new", "reading", "setup", "answered", "failed", "kill", "threw", "down"}]
  BY DEF LspInv, LspType
<1>4. \A c : After(c) \in {"setup", "answered", "kill", "failed"} /\ (After(c) \in {"setup", "answered"} => answered)
  OBVIOUS
<1>5. DOMAIN pending' = DOMAIN pending \ ids /\ \A i \in DOMAIN pending' : pending'[i] = pending[i] /\ pending[i] \notin calls
  BY <1>1, <1>2
<1>6. \A c \in calls : \E i \in ids \cap DOMAIN pending : id[c] = i
  BY <1>2
<1> HIDE DEF calls, After
<1>7. Waiting'
  <2> SUFFICES ASSUME NEW i \in DOMAIN pending'
               PROVE  /\ i \in 1..requestId' /\ pending'[i] \in Lsp!Call
                      /\ id'[pending'[i]] = i /\ at'[pending'[i]] \in Waits
    BY DEF Waiting, Lsp!Call
  <2>1. i \in DOMAIN pending /\ pending'[i] = pending[i] /\ pending[i] \notin calls
    BY <1>5
  <2> QED BY <1>1, <1>2, <2>1
<1>8. Asked'
  <2>1. ASSUME NEW c \in Lsp!Call, at'[c] \in {"setup", "answered"}, NEW s \in 1..Servers PROVE id[c] \notin inbox[s]
    <3>1. CASE c \in calls
      <4>1. answered
        BY <1>1, <1>4, <2>1, <3>1
      <4> QED BY <1>6, <3>1, <4>1
    <3>2. CASE c \notin calls
      BY <1>1, <2>1, <3>2 DEF LspInv, Asked
    <3> QED BY <3>1, <3>2
  <2> QED BY <2>1 DEF LspInv, Asked, Lsp!Call
<1>9. at' \in [Lsp!Call -> Waits \cup {"new", "reading", "setup", "answered", "failed", "kill", "threw", "down"}]
  BY <1>1, <1>3, <1>4
<1> QED BY <1>5, <1>7, <1>8, <1>9

\* Nothing is written or read, and no call begins to wait.
LEMMA InStepStays ==
    ASSUME InStep, UNCHANGED <<requestId, started, buffer, pipe, inbox, wide>>, DOMAIN pending' \subseteq DOMAIN pending
    PROVE  InStep'
<1>1. ASSUME ~ wide, started = 1, NEW i \in DOMAIN pending'
      PROVE  i \in inbox[1] \/ \E k \in 1..Len(pipe[1]) : pipe[1][k] = Lsp!Token("body", i)
  BY <1>1 DEF InStep
<1>2. /\ started' = started /\ requestId' = requestId /\ buffer' = buffer /\ pipe' = pipe
      /\ inbox' = inbox /\ wide' = wide
  OBVIOUS
<1>3. started' = 0 => requestId' = 0 /\ buffer' = <<>>
  BY <1>2 DEF InStep
<1>4. \A s \in 1..Servers : s > started' => pipe'[s] = <<>>
  BY <1>2 DEF InStep
<1>5. ~ wide' /\ started' = 1 =>
        /\ InThrees(buffer' \o pipe'[1]) /\ Len(buffer' \o pipe'[1]) % 3 = 0 /\ Len(buffer') < 3
        /\ \A i \in DOMAIN pending' :
              i \in inbox'[1] \/ \E k \in 1..Len(pipe'[1]) : pipe'[1][k] = Lsp!Token("body", i)
  <2> SUFFICES ASSUME ~ wide', started' = 1
               PROVE  /\ InThrees(buffer' \o pipe'[1]) /\ Len(buffer' \o pipe'[1]) % 3 = 0 /\ Len(buffer') < 3
                      /\ \A i \in DOMAIN pending' :
                            i \in inbox'[1] \/ \E k \in 1..Len(pipe'[1]) : pipe'[1][k] = Lsp!Token("body", i)
    OBVIOUS
  <2>1. ~ wide /\ started = 1
    BY <1>2
  <2>2. InThrees(buffer \o pipe[1]) /\ Len(buffer \o pipe[1]) % 3 = 0 /\ Len(buffer) < 3
    BY <2>1 DEF InStep
  <2>3. InThrees(buffer' \o pipe'[1]) /\ Len(buffer' \o pipe'[1]) % 3 = 0 /\ Len(buffer') < 3
    BY <1>2, <2>2
  <2>4. \A i \in DOMAIN pending' :
            i \in inbox'[1] \/ \E k \in 1..Len(pipe'[1]) : pipe'[1][k] = Lsp!Token("body", i)
    BY <1>1, <1>2
  <2> QED BY <2>3, <2>4
<1> QED BY <1>3, <1>4, <1>5 DEF InStep, Lsp!Token

LEMMA AskKeeps ==
    ASSUME LspBounds, LspInv, NEW c \in Lsp!Call, Lsp!Ask(c) \/ Lsp!Shutdown(c)
    PROVE  LspInv'
<1>1. CASE at' = [at EXCEPT ![c] = "failed"] /\ at[c] = "reading" /\
           UNCHANGED <<process, started, alive, exiting, pipe, buffer, initialized, requestId, pending, inbox, id, to, wide>>
  <2>1. at' \in [Lsp!Call -> Waits \cup {"new", "reading", "setup", "answered", "failed", "kill", "threw", "down"}]
    BY <1>1 DEF LspInv, LspType
  <2>2. at \in [Lsp!Call -> Waits \cup {"new", "reading", "setup", "answered", "failed", "kill", "threw", "down"}]
    BY DEF LspInv, LspType
  <2>3. \A d \in Lsp!Call : at'[d] = IF d = c THEN "failed" ELSE at[d]
    BY <1>1, <2>2
  <2>4. Waiting'
    BY <1>1, <2>3 DEF LspInv, Waiting, Waits, Lsp!Call
  <2>5. Asked'
    BY <1>1, <2>3 DEF LspInv, Asked, Lsp!Call
  <2>6. InStep'
    BY <1>1, InStepStays DEF LspInv
  <2>7. LspType'
    BY <1>1, <2>1 DEF LspInv, LspType, Lsp!Call, Written, Answered
  <2> QED BY <2>4, <2>5, <2>6, <2>7 DEF LspInv
<1>2. CASE /\ process # 0 /\ at[c] \in {"new", "reading"} /\ \E where \in Waits : Lsp!Sends(c, process, where)
           /\ UNCHANGED <<process, started, alive, exiting, pipe, buffer, initialized, wide>>
  <2>1. PICK where \in Waits : Lsp!Sends(c, process, where)
    BY <1>2
  <2>2. process \in 1..started /\ process \in 1..Servers
    BY <1>2 DEF LspInv, LspType, LspBounds
  <2>3. /\ Waiting' /\ Asked'
        /\ requestId' \in Nat /\ wide' \in BOOLEAN
        /\ at' \in [Lsp!Call -> Waits \cup {"new", "reading", "setup", "answered", "failed", "kill", "threw", "down"}]
        /\ id' \in [Lsp!Call -> 0..requestId'] /\ to' \in [Lsp!Call -> 0..Servers]
        /\ inbox' \in [1..Servers -> SUBSET (1..requestId')]
        /\ buffer' \in Seq(Written') /\ pipe' \in [1..Servers -> Seq(Written')]
        /\ DOMAIN pending' = DOMAIN pending \cup {requestId'}
        /\ \A t \in 1..Servers : inbox[t] \subseteq inbox'[t]
        /\ requestId' \in inbox'[process] /\ requestId' = requestId + 1
    BY <1>2, <2>1, <2>2, SendsKeep
  <2>4. LspType'
    BY <1>2, <2>3 DEF LspInv, LspType, Lsp!Call
  <2>5. InStep'
    <3>1. /\ started' = started /\ buffer' = buffer /\ pipe' = pipe /\ wide' = wide /\ started # 0
      BY <1>2, <2>2
    <3>2. ASSUME ~ wide, started = 1, NEW i \in DOMAIN pending'
          PROVE  i \in inbox'[1] \/ \E k \in 1..Len(pipe[1]) : pipe[1][k] = Lsp!Token("body", i)
      <4>1. CASE i = requestId'
        BY <2>2, <2>3, <3>2, <4>1
      <4>2. CASE i \in DOMAIN pending
        BY <2>2, <2>3, <3>2, <4>2 DEF LspInv, InStep
      <4> QED BY <2>3, <4>1, <4>2
    <3>3. \A s \in 1..Servers : s > started' => pipe'[s] = <<>>
      BY <3>1 DEF LspInv, InStep
    <3>4. ~ wide' /\ started' = 1 =>
            /\ InThrees(buffer' \o pipe'[1]) /\ Len(buffer' \o pipe'[1]) % 3 = 0 /\ Len(buffer') < 3
            /\ \A i \in DOMAIN pending' :
                  i \in inbox'[1] \/ \E k \in 1..Len(pipe'[1]) : pipe'[1][k] = Lsp!Token("body", i)
      BY <3>1, <3>2 DEF LspInv, InStep
    <3> QED BY <3>1, <3>3, <3>4 DEF InStep, Lsp!Token
  <2> QED BY <2>3, <2>4, <2>5 DEF LspInv
<1>3. CASE Lsp!Ask(c)
  BY <1>1, <1>2, <1>3 DEF Lsp!Ask, Lsp!NoServer, Lsp!serverVars, Waits
<1>4. CASE Lsp!Shutdown(c)
  BY <1>2, <1>4 DEF Lsp!Shutdown, Lsp!Comes, Lsp!NoServer, Lsp!serverVars, Waits
<1> QED BY <1>3, <1>4

LEMMA InitializeKeeps ==
    ASSUME LspBounds, LspInv, NEW c \in Lsp!Call, Lsp!Initialize(c)
    PROVE  LspInv'
<1> DEFINE s == started + 1
<1>1. /\ at[c] = "new" /\ started' = s /\ alive' = alive \cup {s} /\ process' = s
      /\ Lsp!Sends(c, s, "initialize") /\ UNCHANGED <<pipe, buffer, wide>> /\ started < Servers
  BY DEF Lsp!Initialize, Lsp!Comes
<1>2. s \in 1..Servers /\ started \in Nat /\ s \in 1..s /\ 1..started \subseteq 1..s /\ s \in 0..Servers /\ s \in 0..s
  BY <1>1 DEF LspInv, LspType, LspBounds
<1>3. /\ Waiting' /\ Asked'
      /\ requestId' \in Nat /\ wide' \in BOOLEAN
      /\ at' \in [Lsp!Call -> Waits \cup {"new", "reading", "setup", "answered", "failed", "kill", "threw", "down"}]
      /\ id' \in [Lsp!Call -> 0..requestId'] /\ to' \in [Lsp!Call -> 0..Servers]
      /\ inbox' \in [1..Servers -> SUBSET (1..requestId')]
      /\ buffer' \in Seq(Written') /\ pipe' \in [1..Servers -> Seq(Written')]
      /\ DOMAIN pending' = DOMAIN pending \cup {requestId'}
      /\ \A t \in 1..Servers : inbox[t] \subseteq inbox'[t]
      /\ requestId' \in inbox'[s] /\ requestId' = requestId + 1
  <2>1. "initialize" \in Waits
    BY DEF Waits
  <2> HIDE DEF s
  <2> QED BY <1>1, <1>2, <2>1, SendsKeep
<1>4. LspType'
  <2>1. alive' \subseteq 1..started'
    BY <1>1, <1>2 DEF LspInv, LspType
  <2> HIDE DEF s
  <2> QED BY <1>1, <1>2, <1>3, <2>1 DEF LspType, Lsp!Call
<1>5. InStep'
  <2>1. started' # 0
    BY <1>1, <1>2
  <2>2. \A t \in 1..Servers : t > started' => pipe'[t] = <<>>
    BY <1>1, <1>2 DEF LspInv, InStep
  <2>3. ASSUME started' = 1
        PROVE  /\ InThrees(buffer' \o pipe'[1]) /\ Len(buffer' \o pipe'[1]) % 3 = 0 /\ Len(buffer') < 3
               /\ \A i \in DOMAIN pending' : i \in inbox'[1]
    <3>1. started = 0 /\ s = 1
      BY <1>1, <1>2, <2>3
    <3>2. buffer' = <<>> /\ pipe'[1] = <<>> /\ DOMAIN pending = {}
      <4>1. buffer = <<>> /\ pipe[1] = <<>> /\ requestId = 0
        BY <1>2, <3>1 DEF LspInv, InStep
      <4>2. DOMAIN pending = {}
        BY <4>1 DEF LspInv, Waiting
      <4> QED BY <1>1, <4>1, <4>2
    <3>3. buffer' \o pipe'[1] = <<>> /\ Len(<<>>) = 0 /\ 0 % 3 = 0
      BY <3>2, EmptySeq, ConcatEmptySeq
    <3>4. InThrees(<<>>)
      BY DEF InThrees
    <3>5. \A i \in DOMAIN pending' : i \in inbox'[1]
      BY <1>3, <3>1, <3>2
    <3> QED BY <3>2, <3>3, <3>4, <3>5
  <2>4. ~ wide' /\ started' = 1 =>
            /\ InThrees(buffer' \o pipe'[1]) /\ Len(buffer' \o pipe'[1]) % 3 = 0 /\ Len(buffer') < 3
            /\ \A i \in DOMAIN pending' :
                  i \in inbox'[1] \/ \E k \in 1..Len(pipe'[1]) : pipe'[1][k] = Lsp!Token("body", i)
    BY <2>3
  <2> QED BY <2>1, <2>2, <2>4 DEF InStep, Lsp!Token
<1> QED BY <1>3, <1>4, <1>5 DEF LspInv

LEMMA OneMoreAnswer ==
    ASSUME NEW q \in Seq(Tokens), InThrees(q), Len(q) % 3 = 0, NEW a \in Tokens, NEW b \in Tokens, NEW c \in Tokens,
           a.kind = "content", b.kind = "length", b.value = 1, c.kind = "body"
    PROVE  InThrees(q \o <<a, b, c>>) /\ Len(q \o <<a, b, c>>) % 3 = 0
<1> DEFINE t == <<a, b, c>>
           n == Len(q)
<1>1. n \in Nat /\ n % 3 = 0 /\ t \in Seq(Tokens) /\ Len(t) = 3 /\ t[1] = a /\ t[2] = b /\ t[3] = c
  OBVIOUS
<1> HIDE DEF t, n
<1>2. /\ Len(q \o t) = n + 3
      /\ \A i \in 1..n + 3 : (q \o t)[i] = IF i <= n THEN q[i] ELSE t[i - n]
  <2>1. q \in Seq(Tokens) /\ Len(q) = n
    BY DEF n
  <2>2. /\ Len(q \o t) = Len(q) + Len(t)
        /\ \A i \in 1..Len(q) + Len(t) : (q \o t)[i] = IF i <= Len(q) THEN q[i] ELSE t[i - Len(q)]
    BY <1>1, <2>1, ConcatProperties
  <2> QED BY <1>1, <2>1, <2>2
<1>3. (n + 3) % 3 = 0
  BY <1>1
<1>4. ASSUME NEW k \in 1..n + 3
      PROVE  /\ k % 3 = 1 => (q \o t)[k].kind = "content"
             /\ k % 3 = 2 => (q \o t)[k].kind = "length" /\ (q \o t)[k].value = 1
             /\ k % 3 = 0 => (q \o t)[k].kind = "body"
  <2>1. CASE k <= n
    <3>1. k \in 1..n /\ (q \o t)[k] = q[k]
      BY <1>1, <1>2, <2>1
    <3> QED BY <3>1 DEF InThrees, n
  <2>2. CASE k = n + 1
    <3>1. (q \o t)[k] = t[1] /\ k % 3 = 1
      <4>1. ~ (k <= n) /\ k - n = 1 /\ k % 3 = 1
        BY <1>1, <2>2
      <4> QED BY <1>2, <4>1
    <3> QED BY <1>1, <3>1
  <2>3. CASE k = n + 2
    <3>1. (q \o t)[k] = t[2] /\ k % 3 = 2
      <4>1. ~ (k <= n) /\ k - n = 2 /\ k % 3 = 2
        BY <1>1, <2>3
      <4> QED BY <1>2, <4>1
    <3> QED BY <1>1, <3>1
  <2>4. CASE k = n + 3
    <3>1. (q \o t)[k] = t[3] /\ k % 3 = 0
      <4>1. ~ (k <= n) /\ k - n = 3 /\ k % 3 = 0
        BY <1>1, <2>4
      <4> QED BY <1>2, <4>1
    <3> QED BY <1>1, <3>1
  <2>5. k <= n \/ k = n + 1 \/ k = n + 2 \/ k = n + 3
    BY <1>1
  <2> QED BY <2>1, <2>2, <2>3, <2>4, <2>5
<1>5. InThrees(q \o t)
  BY <1>2, <1>4 DEF InThrees
<1> QED BY <1>2, <1>3, <1>5 DEF t

LEMMA AnswerKeeps ==
    ASSUME LspBounds, LspInv, NEW s \in 1..Servers, NEW i \in inbox[s], NEW n \in {1, 2}, Lsp!Answer(s, i, n)
    PROVE  LspInv'
<1> DEFINE a == Lsp!Token("content", 0)
           b == Lsp!Token("length", n)
           c == Lsp!Token("body", i)
           t == <<a, b, c>>
<1>1. /\ inbox' = [inbox EXCEPT ![s] = inbox[s] \ {i}]
      /\ pipe' = [pipe EXCEPT ![s] = pipe[s] \o t]
      /\ wide' = (wide \/ n > 1) /\ s \in alive
      /\ UNCHANGED <<process, started, alive, exiting, buffer, initialized, requestId, pending, at, id, to>>
  BY DEF Lsp!Answer, Lsp!serverVars, Lsp!callVars
<1>2. /\ inbox \in [1..Servers -> SUBSET (1..requestId)] /\ requestId \in Nat
      /\ \A u, v \in 1..Servers : u # v => inbox[u] \cap inbox[v] = {}
      /\ pipe \in [1..Servers -> Seq(Written)] /\ buffer \in Seq(Written)
  BY DEF LspInv, LspType, Asked
<1>3. /\ i \in 1..requestId
      /\ \A u \in 1..Servers : inbox'[u] = (IF u = s THEN inbox[s] \ {i} ELSE inbox[u]) /\ i \notin inbox'[u]
  BY <1>1, <1>2
<1>4. Answered(i)' /\ \A j \in 1..requestId : Answered(j) => Answered(j)'
  BY <1>1, <1>3 DEF Answered
<1>5. /\ Written \subseteq Written'
      /\ buffer \in Seq(Written') /\ pipe \in [1..Servers -> Seq(Written')]
  <2>1. requestId' \in Nat /\ requestId <= requestId'
    BY <1>1, <1>2
  <2> QED BY <1>4, <2>1, WrittenStays DEF LspInv
<1>6. a \in Written' /\ b \in Written' /\ c \in Written'
  <2>1. a \in Tokens /\ b \in Tokens /\ c \in Tokens /\ a.kind = "content" /\ b.kind = "length" /\ c.value = i
    BY <1>3 DEF Tokens, Lsp!Token
  <2> HIDE DEF a, b, c
  <2> QED BY <1>4, <2>1 DEF Written
<1> HIDE DEF a, b, c
<1>7. t \in Seq(Written') /\ Len(t) = 3 /\ t[3] = c
  BY <1>6
<1>8. pipe' \in [1..Servers -> Seq(Written')]
  <2>1. pipe[s] \o t \in Seq(Written')
    BY <1>5, <1>7, ConcatProperties
  <2> HIDE DEF t
  <2> QED BY <1>1, <1>5, <2>1
<1>9. LspType'
  <2>1. inbox' \in [1..Servers -> SUBSET (1..requestId)]
    BY <1>1, <1>2
  <2>2. wide' \in BOOLEAN
    BY <1>1 DEF LspInv, LspType
  <2> HIDE DEF t
  <2> QED BY <1>1, <1>5, <1>8, <2>1, <2>2 DEF LspInv, LspType, Lsp!Call
<1>10. Waiting'
  BY <1>1 DEF LspInv, Waiting, Lsp!Call
<1>11. Asked'
  <2>1. \A d \in Lsp!Call : at[d] \in {"setup", "answered"} => \A u \in 1..Servers : id[d] \notin inbox'[u]
    BY <1>3 DEF LspInv, Asked
  <2>2. \A u, v \in 1..Servers : u # v => inbox'[u] \cap inbox'[v] = {}
    BY <1>2, <1>3
  <2> QED BY <1>1, <2>1, <2>2 DEF LspInv, Asked, Lsp!Call
<1>12. InStep'
  <2>1. s \in 1..started
    BY <1>1 DEF LspInv, LspType
  <2>2. \A u \in 1..Servers : u > started' => pipe'[u] = <<>>
    <3> HIDE DEF t
    <3>1. \A u \in 1..Servers : u > started => u # s
      <4>1. started \in Nat
        BY DEF LspInv, LspType, LspBounds
      <4> QED BY <2>1, <4>1
    <3> QED BY <1>1, <1>2, <3>1 DEF LspInv, InStep
  <2>3. started' # 0
    BY <1>1, <2>1
  <2>4. ASSUME ~ wide', started' = 1
        PROVE  /\ InThrees(buffer \o pipe'[1]) /\ Len(buffer \o pipe'[1]) % 3 = 0 /\ Len(buffer) < 3
               /\ \A j \in DOMAIN pending :
                     j \in inbox'[1] \/ \E k \in 1..Len(pipe'[1]) : pipe'[1][k] = Lsp!Token("body", j)
    <3>1. ~ wide /\ started = 1 /\ s = 1 /\ n = 1
      <4>1. ~ wide /\ ~ (n > 1)
        BY <1>1, <2>4
      <4>2. started = 1
        BY <1>1, <2>4
      <4>3. s \in 1..1
        BY <2>1, <4>2
      <4> QED BY <4>1, <4>2, <4>3
    <3> DEFINE old == pipe[1]
    <3>2. /\ InThrees(buffer \o old) /\ Len(buffer \o old) % 3 = 0 /\ Len(buffer) < 3
          /\ \A j \in DOMAIN pending :
                j \in inbox[1] \/ \E k \in 1..Len(old) : old[k] = Lsp!Token("body", j)
      BY <3>1 DEF LspInv, InStep
    <3>3. pipe'[1] = old \o t
      BY <1>1, <1>2, <3>1
    <3>4. Written' \subseteq Tokens
      BY DEF Written
    <3>5. old \in Seq(Tokens) /\ buffer \in Seq(Tokens) /\ t \in Seq(Tokens) /\ Len(old) \in Nat
      <4>1. old \in Seq(Written')
        BY <1>5, <3>1
      <4> HIDE DEF t, old
      <4> QED BY <1>5, <1>7, <3>4, <4>1, SeqMonotonic
    <3> HIDE DEF old
    <3>6. buffer \o (old \o t) = (buffer \o old) \o t /\ buffer \o old \in Seq(Tokens)
      <4> HIDE DEF t
      <4>1. buffer \o (old \o t) = (buffer \o old) \o t
        BY <3>5, ConcatAssociative
      <4>2. buffer \o old \in Seq(Tokens)
        BY <3>5, ConcatProperties
      <4> QED BY <4>1, <4>2
    <3>7. InThrees((buffer \o old) \o t) /\ Len((buffer \o old) \o t) % 3 = 0
      <4>1. a \in Tokens /\ b \in Tokens /\ c \in Tokens
        BY <1>6, <3>4
      <4>2. a.kind = "content" /\ b.kind = "length" /\ b.value = 1 /\ c.kind = "body"
        BY <3>1 DEF a, b, c, Lsp!Token
      <4> QED BY <3>2, <3>6, <4>1, <4>2, OneMoreAnswer
    <3>8. /\ Len(old \o t) = Len(old) + 3
          /\ \A k \in 1..Len(old) + 3 : (old \o t)[k] = IF k <= Len(old) THEN old[k] ELSE t[k - Len(old)]
      <4> HIDE DEF t
      <4>1. /\ Len(old \o t) = Len(old) + Len(t)
            /\ \A k \in 1..Len(old) + Len(t) : (old \o t)[k] = IF k <= Len(old) THEN old[k] ELSE t[k - Len(old)]
        BY <3>5, ConcatProperties
      <4> QED BY <1>7, <4>1
    <3> HIDE DEF t
    <3>9. ASSUME NEW j \in DOMAIN pending
          PROVE  j \in inbox'[1] \/ \E k \in 1..Len(old \o t) : (old \o t)[k] = Lsp!Token("body", j)
      <4>1. CASE j \in inbox[1] /\ j # i
        BY <1>3, <3>1, <4>1
      <4>2. CASE j = i
        <5>1. Len(old) + 3 \in 1..Len(old) + 3 /\ ~ (Len(old) + 3 <= Len(old)) /\ Len(old) + 3 - Len(old) = 3
          BY <3>5
        <5>2. (old \o t)[Len(old) + 3] = c
          BY <1>7, <3>8, <5>1
        <5> QED BY <3>8, <4>2, <5>1, <5>2 DEF c
      <4>3. CASE \E k \in 1..Len(old) : old[k] = Lsp!Token("body", j)
        <5>1. PICK k \in 1..Len(old) : old[k] = Lsp!Token("body", j)
          BY <4>3
        <5>2. k \in 1..Len(old) + 3 /\ k <= Len(old)
          BY <3>5
        <5> QED BY <3>8, <5>1, <5>2
      <4> QED BY <3>2, <4>1, <4>2, <4>3
    <3> QED BY <3>2, <3>3, <3>6, <3>7, <3>9
  <2>5. ~ wide' /\ started' = 1 =>
            /\ InThrees(buffer' \o pipe'[1]) /\ Len(buffer' \o pipe'[1]) % 3 = 0 /\ Len(buffer') < 3
            /\ \A j \in DOMAIN pending' :
                  j \in inbox'[1] \/ \E k \in 1..Len(pipe'[1]) : pipe'[1][k] = Lsp!Token("body", j)
    <3>1. buffer' = buffer /\ pending' = pending
      BY <1>1
    <3> QED BY <2>4, <3>1
  <2> QED BY <2>2, <2>3, <2>5 DEF InStep, Lsp!Token
<1> QED BY <1>9, <1>10, <1>11, <1>12 DEF LspInv

\* A chunk is cut off, and what is handled of it and of what came before.
LEMMA Cut ==
    ASSUME NEW b \in Seq(Tokens), NEW p \in Seq(Tokens), NEW k \in 0..Len(p),
           InThrees(b \o p), Len(b \o p) % 3 = 0
    PROVE  LET all == b \o SubSeq(p, 1, k)
               rest == SubSeq(p, k + 1, Len(p))
           IN  /\ InThrees(all)
               /\ \A m \in 1..Len(p) : /\ m <= k => Len(b) + m \in 1..Len(all) /\ all[Len(b) + m] = p[m]
                                       /\ m > k => m - k \in 1..Len(rest) /\ rest[m - k] = p[m]
               /\ \A r \in 0..Len(all) : r % 3 = 0 =>
                      LET kept == SubSeq(all, r + 1, Len(all)) IN
                      InThrees(kept \o rest) /\ Len(kept \o rest) % 3 = 0 /\ Len(kept) = Len(all) - r
<1> DEFINE chunk == SubSeq(p, 1, k)
           all == b \o chunk
           rest == SubSeq(p, k + 1, Len(p))
           stream == b \o p
           n == Len(b)
           l == Len(p)
<1>1. n \in Nat /\ l \in Nat /\ k \in 0..l
  OBVIOUS
<1>2. chunk \in Seq(Tokens) /\ Len(chunk) = k /\ \A i \in 1..k : chunk[i] = p[i]
  <2>1. 1 \in Int /\ k \in Int /\ \A i \in 1..k : p[i] \in Tokens
    OBVIOUS
  <2>2. /\ chunk \in Seq(Tokens) /\ Len(chunk) = (IF 1 <= k THEN k - 1 + 1 ELSE 0)
        /\ \A i \in 1..k - 1 + 1 : chunk[i] = p[1 + i - 1]
    BY <2>1, SubSeqProperties
  <2>3. k - 1 + 1 = k /\ \A i \in Int : 1 + i - 1 = i
    BY <1>1
  <2> HIDE DEF chunk
  <2> QED BY <1>1, <2>2, <2>3
<1>3. rest \in Seq(Tokens) /\ Len(rest) = l - k /\ \A i \in 1..l - k : rest[i] = p[k + i]
  <2>1. 0 \in 0..l - k
    BY <1>1
  <2>2. rest \in Seq(Tokens) /\ Len(rest) = l - k /\ \A i \in 1..Len(rest) : rest[i] = p[k + i]
    BY <1>1, <2>1, RestOfRest
  <2> HIDE DEF rest
  <2> QED BY <2>2
<1> HIDE DEF chunk, rest
<1>4. all \in Seq(Tokens) /\ Len(all) = n + k /\ \A i \in 1..n + k : all[i] = IF i <= n THEN b[i] ELSE chunk[i - n]
  <2>1. /\ all \in Seq(Tokens) /\ Len(all) = Len(b) + Len(chunk)
        /\ \A i \in 1..Len(b) + Len(chunk) : all[i] = IF i <= Len(b) THEN b[i] ELSE chunk[i - Len(b)]
    BY <1>2, ConcatProperties
  <2> HIDE DEF all
  <2> QED BY <1>2, <2>1
<1>5. stream \in Seq(Tokens) /\ Len(stream) = n + l /\ \A i \in 1..n + l : stream[i] = IF i <= n THEN b[i] ELSE p[i - n]
  BY ConcatProperties
<1> HIDE DEF all, stream, n, l
<1>6. \A i \in 1..n + k : all[i] = stream[i] /\ i \in 1..n + l
  <2> SUFFICES ASSUME NEW i \in 1..n + k PROVE all[i] = stream[i] /\ i \in 1..n + l
    OBVIOUS
  <2>1. i \in 1..n + l
    BY <1>1
  <2>2. ~ (i <= n) => i - n \in 1..k
    BY <1>1
  <2> QED BY <1>2, <1>4, <1>5, <2>1, <2>2
<1>7. InThrees(stream) /\ (n + l) % 3 = 0
  BY <1>5 DEF stream
<1>8. InThrees(all)
  BY <1>4, <1>5, <1>6, <1>7 DEF InThrees
<1>9. ASSUME NEW m \in 1..l
      PROVE  /\ m <= k => n + m \in 1..Len(all) /\ all[n + m] = p[m]
             /\ m > k => m - k \in 1..Len(rest) /\ rest[m - k] = p[m]
  <2>1. CASE m <= k
    <3>1. n + m \in 1..n + k /\ ~ (n + m <= n) /\ n + m - n = m /\ m \in 1..k /\ ~ (m > k)
      BY <1>1, <2>1
    <3> DEFINE x == n + m
    <3>2. x \in 1..n + k /\ ~ (x <= n) /\ x - n = m
      BY <1>1, <2>1
    <3> HIDE DEF x
    <3>3. all[x] = chunk[x - n] /\ chunk[m] = p[m]
      BY <1>2, <1>4, <3>1, <3>2
    <3>4. x \in 1..Len(all) /\ all[x] = p[m]
      BY <1>4, <3>2, <3>3
    <3> QED BY <3>1, <3>4 DEF x
  <2>2. CASE m > k
    <3>1. m - k \in 1..l - k /\ k + (m - k) = m /\ ~ (m <= k)
      BY <1>1, <2>2
    <3> QED BY <1>3, <3>1
  <2>3. m <= k \/ m > k
    BY <1>1
  <2> QED BY <2>1, <2>2, <2>3
<1>10. ASSUME NEW r \in 0..Len(all), r % 3 = 0
       PROVE  LET kept == SubSeq(all, r + 1, Len(all)) IN
              InThrees(kept \o rest) /\ Len(kept \o rest) % 3 = 0 /\ Len(kept) = Len(all) - r
  <2> DEFINE kept == SubSeq(all, r + 1, Len(all))
             both == kept \o rest
  <2>1. kept \in Seq(Tokens) /\ Len(kept) = n + k - r /\ \A i \in 1..n + k - r : kept[i] = all[r + i]
    <3>1. 0 \in 0..Len(all) - r
      BY <1>1, <1>4
    <3>2. kept \in Seq(Tokens) /\ Len(kept) = Len(all) - r /\ \A i \in 1..Len(kept) : kept[i] = all[r + i]
      BY <1>4, <3>1, RestOfRest
    <3> HIDE DEF kept
    <3>3. Len(all) = n + k
      BY <1>4
    <3>4. Len(kept) = n + k - r
      BY <1>1, <1>10, <3>2, <3>3
    <3> QED BY <3>2, <3>4
  <2> HIDE DEF kept
  <2>2. /\ Len(both) = n + k - r + (l - k)
        /\ \A i \in 1..n + k - r + (l - k) : both[i] = IF i <= n + k - r THEN kept[i] ELSE rest[i - (n + k - r)]
    <3>1. /\ Len(both) = Len(kept) + Len(rest)
          /\ \A i \in 1..Len(kept) + Len(rest) : both[i] = IF i <= Len(kept) THEN kept[i] ELSE rest[i - Len(kept)]
      BY <1>3, <2>1, ConcatProperties
    <3> HIDE DEF both
    <3> QED BY <1>3, <2>1, <3>1
  <2> HIDE DEF both
  <2>3. r \in 0..n + k /\ n + k - r + (l - k) = n + l - r
    BY <1>1, <1>4
  <2>4. ASSUME NEW i \in 1..n + l - r
        PROVE  both[i] = stream[r + i] /\ r + i \in 1..n + l /\ (r + i) % 3 = i % 3
    <3>1. r + i \in 1..n + l
      BY <1>1, <2>3
    <3>2. (r + i) % 3 = i % 3
      BY <1>1, <1>10, <2>3
    <3>3. CASE i <= n + k - r
      <4>1. i \in 1..n + k - r /\ r + i \in 1..n + k
        BY <1>1, <2>3, <3>3
      <4> QED BY <1>6, <2>1, <2>2, <2>3, <3>1, <3>2, <3>3, <4>1
    <3>4. CASE ~ (i <= n + k - r)
      <4> DEFINE j == i - (n + k - r)
      <4>1. j \in 1..l - k /\ ~ (r + i <= n) /\ k + j = r + i - n
        BY <1>1, <2>3, <3>4
      <4> HIDE DEF j
      <4>2. both[i] = rest[j] /\ rest[j] = p[k + j] /\ stream[r + i] = p[r + i - n]
        <5>1. i \in 1..n + k - r + (l - k)
          BY <2>3
        <5>2. both[i] = rest[j]
          BY <2>2, <3>4, <5>1 DEF j
        <5>3. rest[j] = p[k + j]
          BY <1>3, <4>1
        <5>4. stream[r + i] = p[r + i - n]
          BY <1>1, <1>5, <2>3, <3>1, <4>1
        <5> QED BY <5>2, <5>3, <5>4
      <4> QED BY <3>1, <3>2, <4>1, <4>2
    <3> QED BY <3>3, <3>4
  <2>5. InThrees(both)
    <3>1. Len(both) = n + l - r
      BY <2>2, <2>3
    <3>2. ASSUME NEW i \in 1..n + l - r
          PROVE  /\ i % 3 = 1 => both[i].kind = "content"
                 /\ i % 3 = 2 => both[i].kind = "length" /\ both[i].value = 1
                 /\ i % 3 = 0 => both[i].kind = "body"
      BY <1>5, <1>7, <2>4 DEF InThrees
    <3> QED BY <3>1, <3>2 DEF InThrees
  <2>6. (n + l - r) % 3 = 0
    BY <1>1, <1>7, <1>10, <2>3
  <2> QED BY <1>4, <2>1, <2>2, <2>3, <2>5, <2>6 DEF kept, both
<1> QED BY <1>8, <1>9, <1>10 DEF all, rest, chunk, n, l

LEMMA ReceiveKeeps ==
    ASSUME LspBounds, LspInv, NEW s \in 1..Servers, NEW n \in Split, Lsp!Receive(s, n)
    PROVE  LspInv'
<1> DEFINE k == IF n < Len(pipe[s]) THEN n ELSE Len(pipe[s])
           chunk == SubSeq(pipe[s], 1, k)
           all == buffer \o chunk
           rest == SubSeq(pipe[s], k + 1, Len(pipe[s]))
           d == Turns(all)[Len(all)]
<1>1. /\ k > 0 /\ pipe' = [pipe EXCEPT ![s] = rest] /\ buffer' = d.buffer /\ Lsp!Settle(d.got, TRUE)
      /\ UNCHANGED <<process, started, alive, exiting, initialized, requestId, inbox, id, to, wide>>
  <2>1. d = Lsp!HandleData(SubSeq(pipe[s], 1, k))
    BY HandleTurns
  <2> HIDE DEF d
  <2> QED BY <2>1 DEF Lsp!Receive, Lsp!serverVars
<1>2. pipe[s] \in Seq(Written) /\ buffer \in Seq(Written) /\ Written \in SUBSET Tokens /\ pipe \in [1..Servers -> Seq(Written)]
  BY DEF LspInv, LspType, Written
<1>3. k \in 0..Len(pipe[s]) /\ Len(pipe[s]) \in Nat
  <2>1. n \in Nat /\ Len(pipe[s]) \in Nat
    BY <1>2 DEF LspBounds
  <2> QED BY <2>1
<1> HIDE DEF k
<1>4. chunk \in Seq(Written) /\ rest \in Seq(Written)
  <2>1. \A i \in 1..Len(pipe[s]) : pipe[s][i] \in Written
    BY <1>2
  <2>2. 1 \in Int /\ k \in Int /\ k + 1 \in Int /\ \A i \in 1..k : pipe[s][i] \in Written
    BY <1>3, <2>1
  <2>3. \A i \in k + 1..Len(pipe[s]) : pipe[s][i] \in Written
    BY <1>3, <2>1
  <2>4. chunk \in Seq(Written)
    BY <2>2, SubSeqProperties
  <2>5. rest \in Seq(Written)
    BY <1>3, <2>2, <2>3, SubSeqProperties
  <2> QED BY <2>4, <2>5
<1> HIDE DEF chunk, rest
<1>5. all \in Seq(Written)
  BY <1>2, <1>4, ConcatProperties
<1> HIDE DEF all
<1>6. d \in [buffer : Seq(Written), got : SUBSET Bodies(Written)]
  BY <1>2, <1>5, HandleTakes
<1> HIDE DEF d
<1>7. \A i \in d.got : Answered(i)
  BY <1>6 DEF Bodies, Written
<1>8. /\ Waiting' /\ Asked' /\ DOMAIN pending' = DOMAIN pending \ d.got
      /\ at' \in [Lsp!Call -> Waits \cup {"new", "reading", "setup", "answered", "failed", "kill", "threw", "down"}]
  BY <1>1, <1>7, SettleKeeps DEF Answered
<1>9. Written' = Written
  BY <1>1 DEF Written, Answered
<1>10. LspType'
  <2>1. buffer' \in Seq(Written) /\ pipe' \in [1..Servers -> Seq(Written)]
    BY <1>1, <1>2, <1>4, <1>6
  <2> QED BY <1>1, <1>8, <1>9, <2>1 DEF LspInv, LspType, Lsp!Call
<1>11. s \in 1..started
  <2>1. pipe[s] # <<>>
    <3>1. Len(pipe[s]) # 0
      BY <1>1, <1>3
    <3> QED BY <3>1
  <2> QED BY <2>1 DEF LspInv, LspType, InStep, LspBounds
<1>12. \A t \in 1..Servers : t > started => pipe'[t] = <<>>
  <2> SUFFICES ASSUME NEW t \in 1..Servers, t > started PROVE pipe'[t] = <<>>
    OBVIOUS
  <2>1. t # s
    BY <1>11 DEF LspInv, LspType, LspBounds
  <2> QED BY <1>1, <1>2, <2>1 DEF LspInv, InStep
<1>13. ASSUME ~ wide, started = 1
       PROVE  /\ InThrees(buffer' \o pipe'[1]) /\ Len(buffer' \o pipe'[1]) % 3 = 0 /\ Len(buffer') < 3
              /\ \A i \in DOMAIN pending' :
                    i \in inbox[1] \/ \E m \in 1..Len(pipe'[1]) : pipe'[1][m] = Lsp!Token("body", i)
  <2>1. s = 1
    <3>1. s \in 1..1
      BY <1>11, <1>13
    <3> QED BY <3>1
  <2> DEFINE p == pipe[s]
  <2>2. /\ InThrees(buffer \o p) /\ Len(buffer \o p) % 3 = 0
        /\ \A i \in DOMAIN pending :
              i \in inbox[1] \/ \E m \in 1..Len(p) : p[m] = Lsp!Token("body", i)
    BY <1>13, <2>1 DEF LspInv, InStep
  <2>3. buffer \in Seq(Tokens) /\ p \in Seq(Tokens) /\ all \in Seq(Tokens)
    BY <1>2, <1>5, SeqMonotonic
  <2>4. /\ InThrees(all)
        /\ \A m \in 1..Len(p) : /\ m <= k => Len(buffer) + m \in 1..Len(all) /\ all[Len(buffer) + m] = p[m]
                                /\ m > k => m - k \in 1..Len(rest) /\ rest[m - k] = p[m]
        /\ \A r \in 0..Len(all) : r % 3 = 0 =>
               LET kept == SubSeq(all, r + 1, Len(all)) IN
               InThrees(kept \o rest) /\ Len(kept \o rest) % 3 = 0 /\ Len(kept) = Len(all) - r
    BY <1>3, <2>2, <2>3, Cut DEF all, chunk, rest
  <2>r. PICK r \in 0..Len(all) : \E got :
               /\ r % 3 = 0 /\ Len(all) - r < 3
               /\ d = [buffer |-> SubSeq(all, r + 1, Len(all)), got |-> got]
               /\ \A i \in 1..r : i % 3 = 0 => all[i].value \in got
    BY <2>3, <2>4, HandleInThrees DEF d
  <2>5. PICK got :
               /\ r % 3 = 0 /\ Len(all) - r < 3
               /\ d = [buffer |-> SubSeq(all, r + 1, Len(all)), got |-> got]
               /\ \A i \in 1..r : i % 3 = 0 => all[i].value \in got
    BY <2>r
  <2>6. buffer' = SubSeq(all, r + 1, Len(all)) /\ d.got = got /\ pipe'[1] = rest
    BY <1>1, <1>2, <2>1, <2>5
  <2>7. InThrees(buffer' \o rest) /\ Len(buffer' \o rest) % 3 = 0 /\ Len(buffer') < 3
    BY <2>4, <2>5, <2>6
  <2>8. ASSUME NEW i \in DOMAIN pending', i \notin inbox[1]
        PROVE  \E m \in 1..Len(rest) : rest[m] = Lsp!Token("body", i)
    <3>1. i \in DOMAIN pending /\ i \notin got
      BY <1>8, <2>6, <2>8
    <3>2. PICK m \in 1..Len(p) : p[m] = Lsp!Token("body", i)
      BY <2>2, <2>8, <3>1
    <3>3. CASE m <= k
      <4> DEFINE x == Len(buffer) + m
      <4>1. x \in 1..Len(all) /\ all[x] = Lsp!Token("body", i)
        BY <2>4, <3>2, <3>3
      <4> HIDE DEF x
      <4>2. x % 3 = 0
        <5>1. all[x].kind = "body"
          BY <4>1 DEF Lsp!Token
        <5>2. x % 3 # 1 /\ x % 3 # 2
          BY <2>4, <4>1, <5>1 DEF InThrees
        <5>3. x \in Nat
          BY <4>1
        <5> QED BY <5>2, <5>3
      <4>3. x \in 1..r
        <5>1. Len(all) \in Nat /\ r \in 0..Len(all) /\ r % 3 = 0 /\ Len(all) - r < 3
          BY <2>3, <2>5
        <5> QED BY <4>1, <4>2, <5>1
      <4>4. all[x].value \in got
        BY <2>5, <4>2, <4>3
      <4> QED BY <3>1, <4>1, <4>4 DEF Lsp!Token
    <3>4. CASE m > k
      BY <2>4, <3>2, <3>4
    <3>5. m <= k \/ m > k
      BY <1>3
    <3> QED BY <3>3, <3>4, <3>5
  <2> QED BY <2>6, <2>7, <2>8
<1>14. InStep'
  <2>1. /\ started' = started /\ requestId' = requestId /\ wide' = wide /\ inbox' = inbox /\ started # 0
    BY <1>1, <1>11
  <2>2. \A t \in 1..Servers : t > started' => pipe'[t] = <<>>
    BY <1>12, <2>1
  <2>3. ~ wide' /\ started' = 1 =>
            /\ InThrees(buffer' \o pipe'[1]) /\ Len(buffer' \o pipe'[1]) % 3 = 0 /\ Len(buffer') < 3
            /\ \A i \in DOMAIN pending' :
                  i \in inbox'[1] \/ \E m \in 1..Len(pipe'[1]) : pipe'[1][m] = Lsp!Token("body", i)
    BY <1>13, <2>1
  <2> QED BY <2>1, <2>2, <2>3 DEF InStep, Lsp!Token
<1> QED BY <1>8, <1>10, <1>14 DEF LspInv

\* A call goes on by itself.
LEMMA CallMoves ==
    ASSUME LspInv, NEW c \in Lsp!Call, at[c] \notin Waits,
           NEW where \in {"reading", "answered", "threw"}, where = "answered" => at[c] = "setup",
           at' = [at EXCEPT ![c] = where],
           UNCHANGED <<process, started, alive, pipe, buffer, requestId, pending, inbox, id, to, wide>>
    PROVE  LspInv'
<1>1. at \in [Lsp!Call -> Waits \cup {"new", "reading", "setup", "answered", "failed", "kill", "threw", "down"}]
  BY DEF LspInv, LspType
<1>2. /\ at' \in [Lsp!Call -> Waits \cup {"new", "reading", "setup", "answered", "failed", "kill", "threw", "down"}]
      /\ \A d \in Lsp!Call : at'[d] = IF d = c THEN where ELSE at[d]
  BY <1>1
<1>3. Waiting'
  <2> SUFFICES ASSUME NEW i \in DOMAIN pending
               PROVE  i \in 1..requestId /\ pending[i] \in Lsp!Call /\ id[pending[i]] = i /\ at'[pending[i]] \in Waits
    BY DEF Waiting, Lsp!Call
  <2> QED BY <1>2 DEF LspInv, Waiting
<1>4. Asked'
  BY <1>2 DEF LspInv, Asked, Lsp!Call
<1>5. InStep'
  BY InStepStays DEF LspInv
<1>6. LspType'
  BY <1>2 DEF LspInv, LspType, Lsp!Call, Written, Answered
<1> QED BY <1>3, <1>4, <1>5, <1>6 DEF LspInv

LEMMA KillKeeps ==
    ASSUME LspBounds, LspInv, NEW c \in Lsp!Call, Lsp!Kill(c), process # 0
    PROVE  LspInv'
<1>1. /\ at[c] = "kill" /\ alive' = alive \ {process} /\ process' = 0 /\ pending' = <<>>
      /\ at' = [d \in Lsp!Call |-> IF d = c THEN "down"
                                   ELSE IF d \notin Lsp!Range(pending) THEN at[d]
                                   ELSE IF at[d] = "shutdown" THEN "kill" ELSE "failed"]
      /\ UNCHANGED <<started, pipe, buffer, requestId, inbox, id, to, wide>>
  BY DEF Lsp!Kill, Lsp!NoServer
<1>2. at' \in [Lsp!Call -> Waits \cup {"new", "reading", "setup", "answered", "failed", "kill", "threw", "down"}]
  BY <1>1 DEF LspInv, LspType
<1>3. DOMAIN pending' = {}
  BY <1>1
<1>4. Waiting'
  BY <1>3 DEF Waiting
<1>5. Asked'
  <2>1. \A d \in Lsp!Call : at'[d] \in {"setup", "answered"} => at[d] \in {"setup", "answered"}
    BY <1>1
  <2> QED BY <1>1, <2>1 DEF LspInv, Asked, Lsp!Call
<1>6. InStep'
  BY <1>1, <1>3, InStepStays DEF LspInv
<1>7. LspType'
  <2>1. process' \in 0..started /\ alive' \subseteq 1..started
    BY <1>1 DEF LspInv, LspType, LspBounds
  <2> QED BY <1>1, <1>2, <2>1 DEF LspInv, LspType, Lsp!Call, Written, Answered
<1> QED BY <1>4, <1>5, <1>6, <1>7 DEF LspInv

LEMMA LspStep == ASSUME LspBounds, LspInv, [Lsp!Next]_Lsp!vars PROVE LspInv'
<1>1. ASSUME UNCHANGED <<process, started, pipe, buffer, requestId, pending, inbox, at, id, to, wide>>, alive' \subseteq alive
      PROVE  LspInv'
  <2>1. InStep'
    BY <1>1, InStepStays DEF LspInv
  <2>2. Waiting' /\ Asked'
    BY <1>1 DEF LspInv, Waiting, Asked, Lsp!Call
  <2>3. LspType'
    BY <1>1 DEF LspInv, LspType, Lsp!Call, Written, Answered
  <2> QED BY <2>1, <2>2, <2>3 DEF LspInv
<1>2. CASE UNCHANGED Lsp!vars
  BY <1>1, <1>2 DEF Lsp!vars, Lsp!serverVars, Lsp!callVars
<1>3. ASSUME NEW ids, Lsp!Settle(ids, FALSE), process' \in {process, 0},
             UNCHANGED <<started, alive, pipe, buffer, requestId, inbox, id, to, wide>>
      PROVE  LspInv'
  <2>1. /\ Waiting' /\ Asked' /\ DOMAIN pending' = DOMAIN pending \ ids
        /\ at' \in [Lsp!Call -> Waits \cup {"new", "reading", "setup", "answered", "failed", "kill", "threw", "down"}]
    BY <1>3, SettleKeeps
  <2>2. InStep'
    BY <1>3, <2>1, InStepStays DEF LspInv
  <2>3. process' \in 0..started
    BY <1>3 DEF LspInv, LspType, LspBounds
  <2>4. LspType'
    BY <1>3, <2>1, <2>3 DEF LspInv, LspType, Lsp!Call, Written, Answered
  <2> QED BY <2>1, <2>2, <2>4 DEF LspInv
<1>4. ASSUME NEW c \in Lsp!Call, Lsp!Initialize(c) PROVE LspInv'
  BY <1>4, InitializeKeeps
<1>5. ASSUME NEW c \in Lsp!Call, Lsp!Ask(c) \/ Lsp!Shutdown(c) PROVE LspInv'
  BY <1>5, AskKeeps
<1>6. ASSUME NEW c \in Lsp!Call, Lsp!Query(c) \/ Lsp!Setup(c) \/ (Lsp!Kill(c) /\ process = 0) PROVE LspInv'
  <2>1. /\ at[c] \notin Waits
        /\ \E where \in {"reading", "answered", "threw"} :
              (where = "answered" => at[c] = "setup") /\ at' = [at EXCEPT ![c] = where]
        /\ UNCHANGED <<process, started, alive, pipe, buffer, requestId, pending, inbox, id, to, wide>>
    BY <1>6 DEF Lsp!Query, Lsp!Comes, Lsp!Setup, Lsp!Kill, Lsp!NoServer, Lsp!serverVars, Waits
  <2> QED BY <2>1, CallMoves
<1>7. ASSUME NEW c \in Lsp!Call, Lsp!Kill(c) PROVE LspInv'
  BY <1>6, <1>7, KillKeeps
<1>8. ASSUME NEW s \in 1..Servers, NEW i \in inbox[s], NEW n \in {1, 2}, Lsp!Answer(s, i, n) PROVE LspInv'
  BY <1>8, AnswerKeeps
<1>9. ASSUME NEW s \in 1..Servers, NEW n \in Split, Lsp!Receive(s, n) PROVE LspInv'
  BY <1>9, ReceiveKeeps
<1>10. ASSUME NEW s \in 1..Servers, Lsp!Exit(s) PROVE LspInv'
  BY <1>1, <1>10 DEF Lsp!Exit, Lsp!callVars
<1>11. ASSUME NEW s \in 1..Servers, Lsp!OnExit(s) PROVE LspInv'
  BY <1>3, <1>11 DEF Lsp!OnExit, Lsp!NoServer
<1>12. ASSUME NEW i \in DOMAIN pending, Lsp!RequestTimesOut(i) PROVE LspInv'
  BY <1>3, <1>12 DEF Lsp!RequestTimesOut, Lsp!serverVars
<1> QED BY <1>2, <1>4, <1>5, <1>6, <1>7, <1>8, <1>9, <1>10, <1>11, <1>12 DEF Lsp!Next

(* What a call got is the answer to its own request, of the server it asked, and  *)
(* no answer that has arrived whole is left in the buffer when one server writes  *)
(* ASCII (sendRequest, handleData).                                               *)
THEOREM AnswersAreTheirOwn ==
    ASSUME LspBounds PROVE Lsp!Spec => [](Lsp!AnswersAreOwn /\ Lsp!FramesInStep)
<1>1. Lsp!Init => LspInv
  BY LspStarts
<1>2. LspInv /\ [Lsp!Next]_Lsp!vars => LspInv'
  BY LspStep
<1>3. LspInv => Lsp!AnswersAreOwn
  <2> SUFFICES ASSUME LspInv PROVE Lsp!AnswersAreOwn
    OBVIOUS
  <2>1. ASSUME NEW c \in Lsp!Call, at[c] \in {"setup", "answered"}, id[c] # 0
        PROVE  id[c] \notin inbox[to[c]] /\ c \notin Lsp!Range(pending)
    <3>1. id[c] \notin inbox[to[c]]
      BY <2>1 DEF LspInv, Asked
    <3>2. \A i \in DOMAIN pending : pending[i] # c
      BY <2>1 DEF LspInv, Waiting, Waits
    <3> QED BY <3>1, <3>2 DEF Lsp!Range
  <2> QED BY <2>1 DEF LspInv, Asked, Lsp!AnswersAreOwn
<1>4. LspInv => Lsp!FramesInStep
  <2> SUFFICES ASSUME LspInv, ~ wide, ~ (started > 1), NEW i \in DOMAIN pending, NEW s \in 1..started, i \notin inbox[s]
               PROVE  \E k \in DOMAIN (buffer \o pipe[s]) :
                         (buffer \o pipe[s])[k] = Lsp!Token("body", i) /\ k > Len(buffer)
    BY DEF Lsp!FramesInStep
  <2>1. started = 1 /\ s = 1 /\ 1 \in 1..Servers
    BY DEF LspInv, LspType, LspBounds
  <2>2. PICK k \in 1..Len(pipe[1]) : pipe[1][k] = Lsp!Token("body", i)
    BY <2>1 DEF LspInv, InStep
  <2>3. buffer \in Seq(Written) /\ pipe[1] \in Seq(Written)
    BY <2>1 DEF LspInv, LspType
  <2> DEFINE all == buffer \o pipe[1]
             x == Len(buffer) + k
  <2>4. /\ all \in Seq(Written) /\ Len(all) = Len(buffer) + Len(pipe[1])
        /\ \A j \in 1..Len(buffer) + Len(pipe[1]) :
              all[j] = IF j <= Len(buffer) THEN buffer[j] ELSE pipe[1][j - Len(buffer)]
    BY <2>3, ConcatProperties
  <2>5. x \in 1..Len(buffer) + Len(pipe[1]) /\ ~ (x <= Len(buffer)) /\ x > Len(buffer) /\ x - Len(buffer) = k
    BY <2>3
  <2> HIDE DEF all, x
  <2>6. all[x] = pipe[1][k] /\ x \in DOMAIN all
    BY <2>4, <2>5
  <2> QED BY <2>1, <2>2, <2>5, <2>6 DEF all
<1> QED BY <1>1, <1>2, <1>3, <1>4, PTL DEF Lsp!Spec

-----------------------------------------------------------------------------
(***************************************************************************)
(* In MCServices a component moves by itself and has its own variables, so *)
(* that what is proved of it holds of its part, whichever part moves.      *)
(***************************************************************************)
LEMMA PartsAreTheirOwn ==
    /\ PartSpec => Workflows!Spec
    /\ PartSpec => Sandbox!Spec
    /\ PartSpec => Market!Spec
    /\ PartSpec => Tasks!Spec
    /\ PartSpec => Tasks!RedactionSpec
    /\ PartSpec => Lsp!Spec
    /\ PartSpec => Pages!SetupSpec
<1> DEFINE all == <<part, vars, workflowVars, lspVars, sandboxVars, marketVars,
                    memoryVars, redactionVars, taskVars, setupVars, cockpitVars, factVars>>
<1>1. PartInit => /\ Workflows!Init /\ Sandbox!Init /\ Market!Init
                  /\ Tasks!Init /\ Tasks!RedactionInit /\ Lsp!Init /\ Pages!SetupInit
  BY DEF PartInit
<1>2. [PartNext]_all => [Workflows!Next]_Workflows!vars
  BY DEF PartNext, Still, Workflows!vars, workflowVars
<1>3. [PartNext]_all => [Sandbox!Next]_Sandbox!vars
  BY DEF PartNext, Still, Sandbox!vars, sandboxVars
<1>4. [PartNext]_all => [Market!Next]_Market!vars
  BY DEF PartNext, Still, Market!vars, marketVars
<1>5. [PartNext]_all => [Tasks!Next]_Tasks!vars
  BY DEF PartNext, Still, Tasks!vars, taskVars
<1>6. [PartNext]_all => [Tasks!RedactionNext]_Tasks!redactionVars
  BY DEF PartNext, Still, Tasks!redactionVars, redactionVars
<1>7. [PartNext]_all => [Lsp!Next]_Lsp!vars
  BY DEF PartNext, Still, Lsp!vars, Lsp!serverVars, Lsp!callVars, lspVars
<1>8. [PartNext]_all => [Pages!SetupNext]_Pages!setupVars
  BY DEF PartNext, Still, Pages!setupVars, setupVars
<1> QED
  BY <1>1, <1>2, <1>3, <1>4, <1>5, <1>6, <1>7, <1>8, PTL
  DEF PartSpec, Lsp!Spec, Pages!SetupSpec, Workflows!Spec, Sandbox!Spec, Market!Spec, Tasks!Spec, Tasks!RedactionSpec

(* An execution starts the stages of its workflow once each and in order, and no  *)
(* checkpoint timer outlives its workflow unless two of them overlap              *)
(* (Orchestrator.executeWorkflow, createCheckpoint, restoreFromCheckpoint).       *)
THEOREM WorkflowsInOrder ==
    ASSUME WorkflowOf \in [Exec -> Templates] PROVE PartSpec => []WorkflowsKeepOrder
<1>1. Workflows!WorkflowsKeepOrder => WorkflowsKeepOrder
  BY DEF WorkflowsKeepOrder
<1> QED BY <1>1, PartsAreTheirOwn, WorkflowsRunInOrder, PTL

(* No process of its own outlasts a sandbox that is idle or was destroyed, but    *)
(* what slipped in during destroy() (ProcessSandbox: initialize, execute, destroy).*)
THEOREM SandboxLeavesNothing == PartSpec => []NothingRunsOn
<1>1. Sandbox!NothingRunsOn => NothingRunsOn
  BY DEF NothingRunsOn
<1> QED BY <1>1, PartsAreTheirOwn, SandboxEndsItsProcesses, PTL

(* Once the registry was pruned, a call is routed to a node that answered lately; *)
(* and always to one that none beats (registry prune, router).                    *)
THEOREM RoutesAreLive == ASSUME MarketBounds PROVE PartSpec => []RoutesToLive
<1>1. Market!RoutesToLive => RoutesToLive
  BY DEF RoutesToLive
<1> QED BY <1>1, PartsAreTheirOwn, CallsGoToTheBestThatLive, PTL

(* The task list keeps what it was given and its log tells it (TaskLog.update,    *)
(* events).                                                                       *)
THEOREM TaskLogTellsTheTruth == ASSUME Commands \in Nat PROVE PartSpec => []TaskLogIsTrue
<1>1. Tasks!TaskLogIsTrue => TaskLogIsTrue
  BY DEF TaskLogIsTrue
<1> QED BY <1>1, PartsAreTheirOwn, Tasks!LogIsTrue, PTL

(* An entry that was redacted tells the hash of what it had logged, however often *)
(* it is redacted (redactEntry).                                                  *)
THEOREM TombstonesTellOriginals ==
    ASSUME Tasks!Blank \notin Args \cup Marked PROVE PartSpec => []TombstoneTellsOriginal
<1>1. Tasks!TombstoneTellsOriginal => TombstoneTellsOriginal
  BY DEF TombstoneTellsOriginal
<1> QED BY <1>1, PartsAreTheirOwn, Tasks!RedactionsTellOriginals, PTL

(* A call is answered by the server it asked, and with one server that writes     *)
(* ASCII the client handles every answer that has arrived whole                   *)
(* (lsp/client.ts, sendRequest, handleData).                                      *)
THEOREM AnswersReachTheCalls == ASSUME LspBounds PROVE PartSpec => []AnswersReachTheirCalls
<1>1. Lsp!AnswersAreOwn /\ Lsp!FramesInStep => AnswersReachTheirCalls
  BY DEF AnswersReachTheirCalls
<1> QED BY <1>1, PartsAreTheirOwn, AnswersAreTheirOwn, PTL

(* On the page of the setup wizard the banner tells that the runs have ended, and *)
(* the cards what the loop is at (startRuns, startRun).                           *)
THEOREM BannerTellsOfTheRuns == ASSUME SetupBounds PROVE PartSpec => []Pages!BannerTellsTheEnd
<1> QED BY PartsAreTheirOwn, BannerIsTheEnd, PTL

===============================================================================
