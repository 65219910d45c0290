----------------------------- MODULE MCServices -----------------------------
(* Five parts of the gateway that share no state with each other, checked in *)
(* one run: in every behaviour one of them, the subject, moves and the       *)
(* others stay as they start. Their initial states other than the subject's  *)
(* are fixed, so nothing is explored twice.                                  *)
EXTENDS Reports, Pools, Catalog, Providers, Worker

CONSTANTS q1, q2, g1

VARIABLE subject

Others(s) ==
    /\ s # "reports"   => UNCHANGED reportVars
    /\ s # "pools"     => UNCHANGED poolVars
    /\ s # "catalog"   => UNCHANGED catalogVars
    /\ s # "providers" => UNCHANGED providerVars
    /\ s # "worker"    => UNCHANGED workerVars

MCInit ==
    /\ ReportsInit /\ PoolsInit /\ CatalogInit /\ ProvidersInit /\ WorkerInit
    /\ subject \in {"reports", "pools", "catalog", "providers", "worker"}
    /\ subject # "pools" => pool = CHOOSE c \in PoolConfigs : TRUE
    /\ subject # "pools" => available = PoolModels
    /\ subject # "catalog" => base = CHOOSE b \in Bases : TRUE

MCNext ==
    /\ UNCHANGED subject
    /\ \/ subject = "reports"   /\ ReportsNext   /\ Others("reports")
       \/ subject = "pools"     /\ PoolsNext     /\ Others("pools")
       \/ subject = "catalog"   /\ CatalogNext   /\ Others("catalog")
       \/ subject = "providers" /\ ProvidersNext /\ Others("providers")
       \/ subject = "worker"    /\ WorkerNext    /\ Others("worker")

everything == <<subject, reportVars, poolVars, catalogVars, providerVars, workerVars>>

MCSpec ==
    /\ MCInit /\ [][MCNext]_everything
    /\ WF_everything(subject = "worker" /\ Flush /\ Others("worker") /\ UNCHANGED subject)
    /\ \A r \in WorkerRequests :
           WF_everything(subject = "worker" /\ End(r) /\ Others("worker") /\ UNCHANGED subject)

-----------------------------------------------------------------------------
(* Reports *)

m1 == [provider |-> "p", name |-> "a"]
m2 == [provider |-> "p", name |-> "b"]
m3 == [provider |-> "q", name |-> "a"]

Token(name) == [id |-> <<"token", "t">>, name |-> name]

Call(m, agent, caller, operation, tokens, latency, error, rate) ==
    [model |-> m, agent |-> agent, caller |-> caller, operation |-> operation,
     tokens |-> tokens, latency |-> latency, error |-> error, rate |-> rate]

MCShapes ==
    {Call(m1, None, Token("old"), "chat", 2, 1, FALSE, 3),
     Call(m1, None, Token("new"), "chat", 1, 2, FALSE, 0),
     Call(m2, "x", None, "chat", 3, 2, FALSE, None),
     Call(m2, "x", Token("new"), "routing", 0, 1, TRUE, 3),
     Call(m3, None, None, "decisions", 1, 5, FALSE, 2),
     Call(m3, None, None, "chat", 0, 4, TRUE, None)}

Query(from, to, model, provider, caller) ==
    [from |-> from, to |-> to, model |-> model, provider |-> provider,
     caller |-> caller]

MCQueries ==
    {Query(0, 9, None, None, None), Query(1, 9, None, None, None),
     Query(1, 5, m1, None, None), Query(0, 9, None, "p", None),
     Query(0, 8, None, None, <<"token", "t">>), Query(3, 4, None, None, None)}

(* Pools *)

Member(m, w) == [model |-> m, weight |-> w]
ThreeMembers == <<Member("a", 2), Member("b", 1), Member("c", 1)>>

MCPoolConfigs ==
    {[members |-> ThreeMembers, strategy |-> "weighted-round-robin"],
     [members |-> ThreeMembers, strategy |-> "least-requests"]}

(* Catalog: k has a key and u has none *)

Listing(models, price) == [m \in models |-> price]

\* An error, one page, two pages of which the second may fail, more for ever.
MCApiAnswers ==
    {<<Absent>>, <<{"a", "ft"}>>, <<{"a"}, {"b"}>>, <<{"b"}, Absent>>,
     <<{"a"}, {"a"}, {"a"}>>}

MCDevAnswers ==
    {Absent,
     [p \in {"k", "u"} |-> IF p = "k" THEN Listing({"a", "b"}, 1) ELSE Listing({"a"}, 2)],
     [p \in {"k", "u"} |-> IF p = "k" THEN Listing({"b"}, Absent) ELSE Listing({"a", "b"}, 3)],
     [p \in {"u"} |-> Listing({"b"}, 0)]}

Bundled(p, source) == [source |-> source, models |-> Listing({"a"}, 1)]

MCBases ==
    {[p \in {"retired"} |-> Bundled(p, "models.dev")],
     [p \in {"k", "u"} |-> Bundled(p, IF p = "k" THEN "api" ELSE "models.dev")],
     [p \in {"k", "u"} |-> Bundled(p, "models.dev")]}

(* Providers *)

Addition(c, m, create, key) == [connection |-> c, model |-> m, create |-> create, key |-> key]

MCWanted(a) ==
    CASE a = 1 -> Addition("new", "x", TRUE, TRUE)
      [] a = 2 -> Addition("new", "y", TRUE, TRUE)
      [] a = 3 -> Addition("new", "z", FALSE, FALSE)
      [] a = 4 -> Addition("env", "x", FALSE, TRUE)

MCEnvModels == [c \in {"env", "new"} |-> IF c = "env" THEN {"e"} ELSE {}]
=============================================================================
