----------------------------- MODULE Providers -----------------------------
(* The store of provider connections (providers/settings.ts): a document per *)
(* connection, a copy in every gateway, and a chain of additions in each. An *)
(* addition merges one model into what memory has and replaces the document. *)
(* Keys are only known to be there; connections and models are names.        *)
EXTENDS Integers, Sequences

CONSTANTS
    Gateways, Additions,
    Wanted(_),        \* what an addition asks: [connection, model, create, key]
    Connections,
    EnvModels,        \* connection -> models configured in the environment
    MaxSaveFaults, MaxRestarts   \* bounds of the run

ASSUME ProvidersAssumption ==
    /\ \A a \in Additions : Wanted(a).connection \in Connections
    /\ EnvModels = [c \in Connections |-> EnvModels[c]]

VARIABLES
    document,    \* connection -> the models of its document; {} when there is none
    configs,     \* gateway -> connection -> models, {} for an unknown connection
    configsLoaded,
    writes,      \* gateway -> the chain of additions, its head in progress
    merged,      \* gateway -> what the head is saving, {} before it merged
    outcome,     \* addition -> "none", "queued", "ok", "refused", "failed"
    saveFaults, restarts

providerVars == <<document, configs, configsLoaded, writes, merged, outcome,
                  saveFaults, restarts>>

-----------------------------------------------------------------------------
ProvidersInit ==
    /\ document = [c \in Connections |-> {}]
    /\ configs = [g \in Gateways |-> EnvModels]
    /\ configsLoaded = [g \in Gateways |-> FALSE]
    /\ writes = [g \in Gateways |-> <<>>]
    /\ merged = [g \in Gateways |-> {}]
    /\ outcome = [a \in Additions |-> "none"]
    /\ saveFaults = 0 /\ restarts = 0

Add(g, a) ==
    /\ outcome[a] = "none"
    /\ outcome' = [outcome EXCEPT ![a] = "queued"]
    /\ writes' = [writes EXCEPT ![g] = Append(@, a)]
    /\ UNCHANGED <<document, configs, configsLoaded, merged, saveFaults, restarts>>

\* The head of the chain is answered and the next one may begin.
Answer(g, result) ==
    /\ outcome' = [outcome EXCEPT ![Head(writes[g])] = result]
    /\ writes' = [writes EXCEPT ![g] = Tail(@)]
    /\ merged' = [merged EXCEPT ![g] = {}]

\* Every document replaces what the environment configured under its name.
Loaded(g) == [c \in Connections |->
                 IF document[c] # {} THEN document[c] ELSE configs[g][c]]

\* initialize(), by any request
Load(g) ==
    /\ ~configsLoaded[g]
    /\ configsLoaded' = [configsLoaded EXCEPT ![g] = TRUE]
    /\ configs' = [configs EXCEPT ![g] = Loaded(g)]
    /\ UNCHANGED <<document, writes, merged, outcome, saveFaults, restarts>>

\* The addition that waits for a load that fails is answered 503.
LoadFails(g) ==
    /\ ~configsLoaded[g] /\ writes[g] # <<>>
    /\ saveFaults < MaxSaveFaults
    /\ saveFaults' = saveFaults + 1
    /\ Answer(g, "failed")
    /\ UNCHANGED <<document, configs, configsLoaded, restarts>>

-----------------------------------------------------------------------------
(* addModel *)

Wish(g) == Wanted(Head(writes[g]))

Known(g) == configs[g][Wish(g).connection]

Taken(g) == Wish(g).create /\ Known(g) # {}

Merging(g) == configsLoaded[g] /\ writes[g] # <<>> /\ merged[g] = {}

Refuse(g) ==
    /\ Merging(g)
    /\ Taken(g) \/ (Known(g) = {} /\ ~Wish(g).key)
    /\ Answer(g, "refused")
    /\ UNCHANGED <<document, configs, configsLoaded, saveFaults, restarts>>

Merge(g) ==
    /\ Merging(g)
    /\ ~Taken(g) /\ (Known(g) # {} \/ Wish(g).key)
    /\ merged' = [merged EXCEPT ![g] = Known(g) \cup {Wish(g).model}]
    /\ UNCHANGED <<document, configs, configsLoaded, writes, outcome, saveFaults, restarts>>

\* Variant: the models of the environment are not written to the document.
SavedAlone(g) == {Wish(g).model}

Saved(g) == merged[g]

SaveDone(g) ==
    /\ merged[g] # {}
    /\ document' = [document EXCEPT ![Wish(g).connection] = Saved(g)]
    /\ configs' = [configs EXCEPT ![g][Wish(g).connection] = merged[g]]
    /\ Answer(g, "ok")
    /\ UNCHANGED <<configsLoaded, saveFaults, restarts>>

\* The save fails; the database may have applied it all the same.
SaveFails(g) ==
    /\ merged[g] # {}
    /\ saveFaults < MaxSaveFaults
    /\ saveFaults' = saveFaults + 1
    /\ \/ UNCHANGED document
       \/ document' = [document EXCEPT ![Wish(g).connection] = Saved(g)]
    /\ Answer(g, "failed")
    /\ UNCHANGED <<configs, configsLoaded, restarts>>

\* A gateway restarts: its memory and the requests it had are gone; a save on
\* its way may still arrive.
RestartGateway(g) ==
    /\ restarts < MaxRestarts
    /\ restarts' = restarts + 1
    /\ configs' = [configs EXCEPT ![g] = EnvModels]
    /\ configsLoaded' = [configsLoaded EXCEPT ![g] = FALSE]
    /\ LET lost == {writes[g][i] : i \in DOMAIN writes[g]}
       IN outcome' = [a \in Additions |-> IF a \in lost THEN "failed" ELSE outcome[a]]
    /\ writes' = [writes EXCEPT ![g] = <<>>]
    /\ merged' = [merged EXCEPT ![g] = {}]
    /\ \/ UNCHANGED document
       \/ /\ merged[g] # {}
          /\ document' = [document EXCEPT ![Wish(g).connection] = Saved(g)]
    /\ UNCHANGED saveFaults

ProvidersNext ==
    \E g \in Gateways :
        \/ \E a \in Additions : Add(g, a)
        \/ Load(g) \/ LoadFails(g) \/ Refuse(g) \/ Merge(g)
        \/ SaveDone(g) \/ SaveFails(g) \/ RestartGateway(g)

ProvidersSpec == ProvidersInit /\ [][ProvidersNext]_providerVars

-----------------------------------------------------------------------------
(* "Serialize read/merge/write so concurrent additions cannot lose models":  *)
(* a model whose addition was acknowledged is in the document, and a gateway *)
(* that has loaded it serves it, after failures and restarts too; and so are *)
(* the models that the environment had configured under the same name. "Only *)
(* publish the change after durable storage succeeds": nothing is served     *)
(* that a restart would lose.                                                *)
AddedModelsKept ==
    /\ \A a \in Additions : outcome[a] = "ok" =>
          LET c == Wanted(a).connection
              kept == {Wanted(a).model} \cup EnvModels[c]
          IN /\ kept \subseteq document[c]
             /\ \A g \in Gateways : configsLoaded[g] => kept \subseteq configs[g][c]
    /\ \A g \in Gateways, c \in Connections :
          configs[g][c] \subseteq IF document[c] # {} THEN document[c] ELSE EnvModels[c]
=============================================================================
