------------------------------- MODULE Pools -------------------------------
(* How the router picks a pool's member (routing/router.ts, poolOrder): a    *)
(* smooth weighted rotation, which also breaks the ties of least-requests.   *)
(* One pool of one process; validateRouting only admits connection/model     *)
(* ids, so a member's name is the id its reservations are counted under.     *)
EXTENDS Integers, Sequences, FiniteSets, SequencesExt

CONSTANTS
    PoolConfigs,   \* settings: [members: sequence of [model, weight], strategy]
    NoPool,        \* the pool was removed, or never rotated
    PoolModels, MaxActive   \* models that exist; bound on open reservations

VARIABLES
    pool,          \* config.pools: the pool's settings
    available,     \* models the registry resolves
    balance,       \* balances: [signature, scores]
    active,        \* reservations per model
    served,        \* history: picks in the present cycle of total-weight picks
    clean,         \* history: every pick on this balance was a weighted one
    passed         \* history: picks in a row that passed a tied member over

\* What validateRouting accepts as a pool's members: no model twice.
MemberLists ==
    {s \in Seq([model : PoolModels, weight : Nat \ {0}]) :
        \A i, j \in DOMAIN s : s[i].model = s[j].model => i = j}

ASSUME PoolsAssumption ==
    /\ IsFiniteSet(PoolModels)
    /\ \A c \in PoolConfigs : c.members \in MemberLists

poolVars == <<pool, available, balance, active, served, clean, passed>>

-----------------------------------------------------------------------------
\* The members the registry resolves, in their order.
Members ==
    LET up[n \in 0..Len(pool.members)] ==
            IF n = 0 THEN <<>>
            ELSE IF pool.members[n].model \in available
                 THEN Append(up[n - 1], pool.members[n])
                 ELSE up[n - 1]
    IN up[Len(pool.members)]

TotalWeight(members) == SumFunction([i \in DOMAIN members |-> members[i].weight])

Zeros(members) == [i \in DOMAIN members |-> 0]

\* The rotation starts again when members or weights change.
Scores == IF balance # NoPool /\ balance.signature = Members
          THEN balance.scores ELSE Zeros(Members)

Raised == [i \in DOMAIN Members |-> Scores[i] + Members[i].weight]

LessLoaded(i, j) ==     \* load is active / weight
    active[Members[i].model] * Members[j].weight
        < active[Members[j].model] * Members[i].weight

LeastLoaded == {i \in DOMAIN Members : ~\E j \in DOMAIN Members : LessLoaded(j, i)}

Eligible == IF pool.strategy = "least-requests" THEN LeastLoaded ELSE DOMAIN Members

\* The first of the highest scores.
Best == CHOOSE i \in Eligible :
            \A j \in Eligible : Raised[j] < Raised[i] \/ (Raised[j] = Raised[i] /\ i <= j)

\* Variant: the pick is charged its own weight.
ChargedOwnWeight(i) == Members[i].weight

Charged(i) == TotalWeight(Members)

Clamp(n, w) == Max({-w, Min({w, n})})

Bounded(scores) ==
    IF pool.strategy = "least-requests"
    THEN [i \in DOMAIN scores |-> Clamp(scores[i], TotalWeight(Members))]
    ELSE scores

-----------------------------------------------------------------------------
PoolsInit ==
    /\ pool \in PoolConfigs
    /\ available \in {PoolModels \ {m} : m \in PoolModels} \cup {PoolModels}
    /\ balance = NoPool
    /\ active = [m \in PoolModels |-> 0]
    /\ served = [m \in PoolModels |-> 0]
    /\ clean = TRUE
    /\ passed = [m \in PoolModels |-> 0]

ActiveTotal == SumFunction(active)
ServedTotal == SumFunction(served)

\* What the histories note about the pick of member i.
Note(i) ==
    LET again == balance # NoPool /\ balance.signature = Members
        old   == IF again /\ ServedTotal < TotalWeight(Members)
                 THEN served ELSE [m \in PoolModels |-> 0]
        equal == {Members[j].model : j \in Eligible}
    IN /\ served' = [old EXCEPT ![Members[i].model] = @ + 1]
       /\ clean' = ((again => clean) /\ pool.strategy # "least-requests")
       /\ passed' = [m \in PoolModels |->
              IF /\ again /\ pool.strategy = "least-requests"
                 /\ m \in equal /\ m # Members[i].model
              THEN passed[m] + 1 ELSE 0]

\* plan() for the pool: poolOrder, and the first model is reserved.
PlanPool ==
    /\ pool # NoPool
    /\ Members # <<>>
    /\ ActiveTotal < MaxActive
    /\ LET i == Best
       IN /\ balance' = [signature |-> Members,
                         scores |-> Bounded([Raised EXCEPT ![i] = @ - Charged(i)])]
          /\ active' = [active EXCEPT ![Members[i].model] = @ + 1]
          /\ Note(i)
    /\ UNCHANGED <<pool, available>>

\* plan() for any other target drops the balances of pools that are gone.
PlanOther ==
    /\ pool = NoPool
    /\ balance' = NoPool
    /\ served' = [m \in PoolModels |-> 0]
    /\ passed' = [m \in PoolModels |-> 0]
    /\ clean' = TRUE
    /\ UNCHANGED <<pool, available, active>>

Release(m) ==
    /\ active[m] > 0
    /\ active' = [active EXCEPT ![m] = @ - 1]
    /\ UNCHANGED <<pool, available, balance, served, clean, passed>>

Reconfigure(c) ==
    /\ pool' = c
    /\ UNCHANGED <<available, balance, active, served, clean, passed>>

\* A connection is added while the gateway runs.
Connect(m) ==
    /\ available' = available \cup {m}
    /\ UNCHANGED <<pool, balance, active, served, clean, passed>>

PoolsNext ==
    \/ PlanPool
    \/ PlanOther
    \/ \E m \in PoolModels : Release(m) \/ Connect(m)
    \/ \E c \in PoolConfigs \cup {NoPool} : Reconfigure(c)

PoolsSpec == PoolsInit /\ [][PoolsNext]_poolVars

-----------------------------------------------------------------------------
(* A weighted pool gives every member its share and spreads it: after any    *)
(* number of picks no member is a whole pick ahead of its proportion, and    *)
(* after as many picks as the weights add up to each had exactly its weight; *)
(* whatever was changed before, while other pools or members came and went.  *)
FairShare ==
    clean /\ balance # NoPool =>
        LET w == TotalWeight(balance.signature)
        IN \A i \in DOMAIN balance.signature :
               LET m == balance.signature[i]
                   ahead == served[m.model] * w - ServedTotal * m.weight
               IN /\ ahead < w
                  /\ ServedTotal = w => ahead = 0

(* "Least-requests needs rotation only for ties, not unbounded historical    *)
(* debt": a member as idle as the others is not passed over, pick after      *)
(* pick, for two more of its turns than there are members (its turn comes    *)
(* once in total weight / weight picks), whatever load the members had       *)
(* before and although the scores of a weighted rotation are carried over.   *)
TiesRotate ==
    balance # NoPool =>
        LET n == Len(balance.signature)
        IN \A i \in DOMAIN balance.signature :
               LET m == balance.signature[i]
               IN passed[m.model] * m.weight < (n + 2) * TotalWeight(balance.signature)

(* Load balancing is fair, over time and over ties.                          *)
PoolsFair == FairShare /\ TiesRotate
=============================================================================
