------------------------------- MODULE Routing -------------------------------
(***************************************************************************)
(* The routing settings store (routing/settings.ts) of several replicas    *)
(* and the one document they share in gateway_routing. Each replica loads  *)
(* the document once, saves its defaults if there is none, and from then   *)
(* on answers from memory; its writes run one at a time on a promise       *)
(* chain, replace the whole document and change the memory only once the   *)
(* database acknowledged them. A configuration maps its parts (Fields) to  *)
(* whoever wrote them last: a replica's defaults or a request.             *)
(***************************************************************************)
EXTENDS Integers, Sequences, SequencesExt

CONSTANTS
    Replicas,
    Fields,         \* parts of the configuration
    PolicyFields,   \* those of the default failover policy, which a patch can set
    Puts, Patches,  \* PUT /v1/routing, PUT /v1/failover
    home,           \* the replica that serves a request
    NoConfig,
    FaultKinds,     \* which of "unavailable", "ackLost", "restart" may happen
    MaxFaults

Requests == Puts \cup Patches
Configs == [Fields -> Replicas \cup Requests]

ASSUME RoutingAssumption ==
    /\ PolicyFields \subseteq Fields /\ PolicyFields # {}
    /\ Puts \cap Patches = {} /\ Requests \cap Replicas = {}
    /\ home \in [Requests -> Replicas]
    /\ NoConfig \notin Configs
    /\ FaultKinds \subseteq {"unavailable", "ackLost", "restart"}
    /\ MaxFaults \in Nat

VARIABLES
    doc,        \* the document "default"
    saved,      \* every configuration it ever held (history)
    config,     \* per replica: the configuration in memory
    load,       \* per replica: "no", "find", "upsert" or "loaded"
    writes,     \* per replica: its promise chain, the running write first
    field,      \* what each patch sets
    pc, next,   \* per request: where it is, the configuration it writes
    faults

routingVars == <<doc, saved, config, load, writes, field, pc, next, faults>>

Defaults(p) == [f \in Fields |-> p]

RoutingInit ==
    /\ doc = NoConfig /\ saved = {}
    /\ config = [p \in Replicas |-> Defaults(p)]
    /\ load = [p \in Replicas |-> "no"]
    /\ writes = [p \in Replicas |-> <<>>]
    /\ field \in [Patches -> PolicyFields]
    /\ pc = [r \in Requests |-> "start"]
    /\ next = [r \in Requests |-> NoConfig]
    /\ faults = 0

Goto(r, stage) == pc' = [pc EXCEPT ![r] = stage]
Fault(kind) == kind \in FaultKinds /\ faults < MaxFaults /\ faults' = faults + 1

Stored(c) == doc' = c /\ saved' = saved \cup {c}

-----------------------------------------------------------------------------
(* initialize: one load at a time; everybody who needs it waits for it. *)

LoadStart(p) ==
    /\ load[p] = "no"
    /\ load' = [load EXCEPT ![p] = "find"]
    /\ UNCHANGED <<doc, saved, config, writes, field, pc, next, faults>>

LoadFound(p) ==
    /\ load[p] = "find" /\ doc # NoConfig
    /\ config' = [config EXCEPT ![p] = doc]
    /\ load' = [load EXCEPT ![p] = "loaded"]
    /\ UNCHANGED <<doc, saved, writes, field, pc, next, faults>>

LoadMissing(p) ==
    /\ load[p] = "find" /\ doc = NoConfig
    /\ load' = [load EXCEPT ![p] = "upsert"]
    /\ UNCHANGED <<doc, saved, config, writes, field, pc, next, faults>>

\* findOneAndUpdate with $setOnInsert: whichever defaults came first stay.
Upserted(p) == IF doc = NoConfig THEN Defaults(p) ELSE doc

LoadUpsert(p) ==
    /\ load[p] = "upsert"
    /\ Stored(Upserted(p))
    /\ config' = [config EXCEPT ![p] = Upserted(p)]
    /\ load' = [load EXCEPT ![p] = "loaded"]
    /\ UNCHANGED <<writes, field, pc, next, faults>>

\* The write that waits for the load fails with it; the next one tries again.
LoadFailed(p) ==
    /\ load' = [load EXCEPT ![p] = "no"]
    /\ pc' = [r \in Requests |->
                IF home[r] = p /\ pc[r] = "running" THEN "failed" ELSE pc[r]]
    /\ writes' = IF \E r \in Requests : home[r] = p /\ pc[r] = "running"
                 THEN [writes EXCEPT ![p] = Tail(@)] ELSE writes

LoadUnavailable(p) ==
    /\ load[p] \in {"find", "upsert"} /\ Fault("unavailable")
    /\ LoadFailed(p)
    /\ UNCHANGED <<doc, saved, config, field, next>>

LoadAckLost(p) ==
    /\ load[p] = "upsert" /\ Fault("ackLost")
    /\ Stored(Upserted(p))
    /\ LoadFailed(p)
    /\ UNCHANGED <<config, field, next>>

-----------------------------------------------------------------------------
(* update, updateFailover: enqueue, then save. *)

Enqueue(r) ==
    /\ pc[r] = "start"
    /\ writes' = [writes EXCEPT ![home[r]] = Append(@, r)]
    /\ Goto(r, "queued")
    /\ UNCHANGED <<doc, saved, config, load, field, next, faults>>

\* Variants: a write does not wait for the one before it; it waits forever
\* behind one that failed.
TurnAtOnce(r) == TRUE
TurnAfterSuccess(r) ==
    /\ Head(writes[home[r]]) = r
    /\ \A q \in Requests : home[q] = home[r] => pc[q] # "failed"

\* this.writes: a write's turn comes when those before it are through.
Turn(r) == writes[home[r]] # <<>> /\ Head(writes[home[r]]) = r

\* A write that runs is the first one of its chain, and leaves it when it is over.
Leaves(r) == writes' = [writes EXCEPT ![home[r]] = Tail(@)]

WriteStart(r) ==
    /\ pc[r] = "queued" /\ Turn(r)
    /\ Goto(r, "running")
    /\ UNCHANGED <<doc, saved, config, load, writes, field, next, faults>>

\* A put brings the whole configuration, a patch changes the one in memory.
Wanted(r) ==
    IF r \in Puts THEN [f \in Fields |-> r]
    ELSE [config[home[r]] EXCEPT ![field[r]] = r]

SaveSend(r) ==
    /\ pc[r] = "running" /\ load[home[r]] = "loaded"
    /\ next' = [next EXCEPT ![r] = Wanted(r)]
    /\ Goto(r, "sent")
    /\ UNCHANGED <<doc, saved, config, load, writes, field, faults>>

\* validateRouting refuses: unknown targets, duplicates, an Auto setup that
\* does not add up.
SaveRefused(r) ==
    /\ r \in Puts /\ pc[r] = "running" /\ load[home[r]] = "loaded"
    /\ Goto(r, "failed")
    /\ Leaves(r)
    /\ UNCHANGED <<doc, saved, config, load, field, next, faults>>

\* replaceOne of the whole document.
SaveLands(r) ==
    /\ pc[r] = "sent"
    /\ Stored(next[r])
    /\ Goto(r, "acked")
    /\ UNCHANGED <<config, load, writes, field, next, faults>>

SavePublishes(r) ==
    /\ pc[r] = "acked"
    /\ config' = [config EXCEPT ![home[r]] = next[r]]
    /\ Leaves(r)
    /\ Goto(r, "ok")
    /\ UNCHANGED <<doc, saved, load, field, next, faults>>

\* Variant: a write that failed is published all the same.
PublishAnyway(r) == next[r]

\* What memory holds after a write that failed.
AfterFailure(r) == config[home[r]]

SaveUnavailable(r) ==
    /\ pc[r] = "sent" /\ Fault("unavailable")
    /\ config' = [config EXCEPT ![home[r]] = AfterFailure(r)]
    /\ Goto(r, "failed")
    /\ Leaves(r)
    /\ UNCHANGED <<doc, saved, load, field, next>>

\* The document is replaced and the answer lost: memory keeps the old one.
SaveAckLost(r) ==
    /\ pc[r] = "sent" /\ Fault("ackLost")
    /\ Stored(next[r])
    /\ Goto(r, "failed")
    /\ Leaves(r)
    /\ UNCHANGED <<config, load, field, next>>

Restart(p) ==
    /\ Fault("restart")
    /\ config' = [config EXCEPT ![p] = Defaults(p)]
    /\ load' = [load EXCEPT ![p] = "no"]
    /\ writes' = [writes EXCEPT ![p] = <<>>]
    /\ pc' = [r \in Requests |->
                IF home[r] = p /\ pc[r] \in {"queued", "running", "sent", "acked"}
                THEN "failed" ELSE pc[r]]
    /\ UNCHANGED <<doc, saved, field, next>>

Load(p) == LoadStart(p) \/ LoadFound(p) \/ LoadMissing(p) \/ LoadUpsert(p)
Save(r) == WriteStart(r) \/ SaveSend(r) \/ SaveLands(r) \/ SavePublishes(r)

RoutingNext ==
    \/ \E p \in Replicas : Load(p) \/ LoadUnavailable(p) \/ LoadAckLost(p) \/ Restart(p)
    \/ \E r \in Requests :
        Enqueue(r) \/ Save(r) \/ SaveRefused(r) \/ SaveUnavailable(r) \/ SaveAckLost(r)

RoutingSpec == RoutingInit /\ [][RoutingNext]_routingVars

\* Replicas go on; the database answers in the end (faults are bounded).
RoutingFairSpec ==
    /\ RoutingSpec
    /\ \A p \in Replicas : WF_routingVars(Load(p))
    /\ \A r \in Requests : WF_routingVars(Save(r))

-----------------------------------------------------------------------------
(* Properties. *)

TypeOK ==
    /\ doc \in Configs \cup {NoConfig} /\ saved \subseteq Configs
    /\ config \in [Replicas -> Configs]
    /\ load \in [Replicas -> {"no", "find", "upsert", "loaded"}]
    /\ writes \in [Replicas -> Seq(Requests)]
    /\ field \in [Patches -> PolicyFields]
    /\ pc \in [Requests -> {"start", "queued", "running", "sent", "acked", "ok", "failed"}]
    /\ next \in [Requests -> Configs \cup {NoConfig}]
    /\ faults \in 0 .. MaxFaults

\* README: "Writes must succeed before a policy becomes active." A replica that
\* serves routing serves a configuration the database really held.
ActiveWasSaved == \A p \in Replicas : load[p] = "loaded" => config[p] \in saved

\* README: "Restarts and concurrent startups preserve the configuration already
\* stored there": defaults are written once, and over nothing.
StartupsPreserve ==
    [][\A p \in Replicas : doc # NoConfig /\ doc # Defaults(p) => doc' # Defaults(p)]_routingVars

\* A replica's queued writes do not pass each other: whatever a patch leaves
\* alone is, when it is saved, what that replica serves at that moment, so it
\* undoes nothing the same replica has published.
QueuedWritesKept ==
    [][\A r \in Patches : pc[r] = "sent" /\ pc'[r] = "acked" =>
          \A f \in Fields \ {field[r]} : doc'[f] = config[home[r]][f]]_routingVars

\* A write that waits its turn is answered, whatever happened to those before.
WritesSettle == \A r \in Requests : pc[r] = "queued" ~> pc[r] \in {"ok", "failed"}
===============================================================================
