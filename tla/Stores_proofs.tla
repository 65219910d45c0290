---------------------------- MODULE Stores_proofs ----------------------------
(***************************************************************************)
(* Proofs about what the processes keep in front of the database. Routing: *)
(* what a replica serves was saved, and defaults never replace a           *)
(* configuration, for any number of replicas, requests and faults.         *)
(* Telemetry: no event is lost untold and reports are complete, for any    *)
(* number of readers, events and failures and for any size of the queue    *)
(* and the ring.                                                           *)
(***************************************************************************)
EXTENDS Routing, Telemetry, SequenceTheorems, TLAPS

(* The routing settings: ActiveWasSaved, StartupsPreserve. *)

\* What the invariants need of the types; the promise chains are left out.
RoutingTyped ==
    /\ doc \in Configs \cup {NoConfig} /\ saved \subseteq Configs
    /\ config \in [Replicas -> Configs]
    /\ load \in [Replicas -> {"no", "find", "upsert", "loaded"}]
    /\ field \in [Patches -> PolicyFields]
    /\ pc \in [Requests -> {"start", "queued", "running", "sent", "acked", "ok", "failed"}]
    /\ next \in [Requests -> Configs \cup {NoConfig}]

\* The strengthening: the document is one of those saved, and so is what a
\* request is about to publish; what a request writes is nobody's defaults.
DocSaved == doc # NoConfig => doc \in saved
AckedSaved == \A r \in Requests : pc[r] = "acked" => next[r] \in saved
Signed == \A r \in Requests : pc[r] \in {"sent", "acked"} =>
              /\ next[r] \in Configs
              /\ \E f \in Fields : next[r][f] \in Requests
RoutingInv == RoutingTyped /\ DocSaved /\ AckedSaved /\ Signed /\ ActiveWasSaved

\* The defaults of a replica are a configuration, and the upsert leaves one.
LEMMA DefaultsTyped == \A p \in Replicas : Defaults(p) \in Configs
  BY DEF Defaults, Configs

LEMMA UpsertedTyped ==
  ASSUME RoutingTyped, NEW p \in Replicas
  PROVE  Upserted(p) \in Configs
  BY DefaultsTyped DEF Upserted, RoutingTyped

\* What a request saves is a configuration, and a part of it is its own.
LEMMA WantedSigned ==
  ASSUME RoutingTyped, NEW r \in Requests
  PROVE  Wanted(r) \in Configs /\ \E f \in Fields : Wanted(r)[f] \in Requests
<1>1. home[r] \in Replicas
  BY RoutingAssumption
<1>2. CASE r \in Puts
  <2>1. Wanted(r) = [f \in Fields |-> r]
    BY <1>2 DEF Wanted
  <2>2. PICK f \in Fields : TRUE
    BY RoutingAssumption
  <2>. QED
    BY <2>1, <2>2 DEF Configs
<1>3. CASE r \notin Puts
  <2>1. r \in Patches /\ field[r] \in Fields
    BY <1>3, RoutingAssumption DEF RoutingTyped, Requests
  <2>2. Wanted(r) = [config[home[r]] EXCEPT ![field[r]] = r]
    BY <1>3 DEF Wanted
  <2>3. config[home[r]] \in Configs
    BY <1>1 DEF RoutingTyped
  <2>4. Wanted(r) \in Configs /\ Wanted(r)[field[r]] = r
    BY <2>1, <2>2, <2>3 DEF Configs
  <2>. QED
    BY <2>1, <2>4
<1>. QED
  BY <1>2, <1>3

\* Every action preserves the inductive invariant.
LEMMA RoutingInvStep ==
  ASSUME RoutingInv, [RoutingNext]_routingVars
  PROVE  RoutingInv'
<1>. USE RoutingAssumption DEF RoutingInv, RoutingTyped, DocSaved, AckedSaved, Signed, ActiveWasSaved
<1>1. ASSUME NEW p \in Replicas, LoadStart(p) PROVE RoutingInv'
  BY <1>1 DEF LoadStart
<1>2. ASSUME NEW p \in Replicas, LoadFound(p) PROVE RoutingInv'
  BY <1>2 DEF LoadFound
<1>3. ASSUME NEW p \in Replicas, LoadMissing(p) PROVE RoutingInv'
  BY <1>3 DEF LoadMissing
<1>4. ASSUME NEW p \in Replicas, LoadUpsert(p) PROVE RoutingInv'
  BY <1>4, UpsertedTyped DEF LoadUpsert, Stored
<1>5. ASSUME NEW p \in Replicas, LoadUnavailable(p) PROVE RoutingInv'
  BY <1>5 DEF LoadUnavailable, LoadFailed
<1>6. ASSUME NEW p \in Replicas, LoadAckLost(p) PROVE RoutingInv'
  BY <1>6, UpsertedTyped DEF LoadAckLost, LoadFailed, Stored
<1>7. ASSUME NEW p \in Replicas, Restart(p) PROVE RoutingInv'
  BY <1>7, DefaultsTyped DEF Restart
<1>8. ASSUME NEW r \in Requests, Enqueue(r) PROVE RoutingInv'
  BY <1>8 DEF Enqueue, Goto
<1>9. ASSUME NEW r \in Requests, WriteStart(r) PROVE RoutingInv'
  BY <1>9 DEF WriteStart, Goto
<1>10. ASSUME NEW r \in Requests, SaveSend(r) PROVE RoutingInv'
  BY <1>10, WantedSigned DEF SaveSend, Goto
<1>11. ASSUME NEW r \in Requests, SaveRefused(r) PROVE RoutingInv'
  BY <1>11 DEF SaveRefused, Goto
<1>12. ASSUME NEW r \in Requests, SaveLands(r) PROVE RoutingInv'
  BY <1>12 DEF SaveLands, Stored, Goto
<1>13. ASSUME NEW r \in Requests, SavePublishes(r) PROVE RoutingInv'
  BY <1>13 DEF SavePublishes, Goto
<1>14. ASSUME NEW r \in Requests, SaveUnavailable(r) PROVE RoutingInv'
  BY <1>14 DEF SaveUnavailable, AfterFailure, Goto
<1>15. ASSUME NEW r \in Requests, SaveAckLost(r) PROVE RoutingInv'
  BY <1>15 DEF SaveAckLost, Stored, Goto
<1>16. CASE UNCHANGED routingVars
  BY <1>16 DEF routingVars
<1>. QED
  BY <1>1, <1>2, <1>3, <1>4, <1>5, <1>6, <1>7, <1>8, <1>9, <1>10, <1>11, <1>12,
     <1>13, <1>14, <1>15, <1>16 DEF RoutingNext, Load, Save

\* The inductive invariant holds of every behaviour.
THEOREM RoutingInvariant == RoutingSpec => []RoutingInv
<1>1. RoutingInit => RoutingInv
  BY DefaultsTyped, RoutingAssumption
     DEF RoutingInit, RoutingInv, RoutingTyped, DocSaved, AckedSaved, Signed, ActiveWasSaved
<1>2. RoutingInv /\ [RoutingNext]_routingVars => RoutingInv'
  BY RoutingInvStep
<1>. QED
  BY <1>1, <1>2, PTL DEF RoutingSpec

\* A replica that answers from memory answers with a configuration the
\* database once held, whatever was lost or restarted.
THEOREM ServedWasSaved == RoutingSpec => []ActiveWasSaved
<1>1. RoutingInv => ActiveWasSaved
  BY DEF RoutingInv
<1>. QED
  BY <1>1, RoutingInvariant, PTL

\* No step of any replica puts defaults over a configuration in the database.
THEOREM DefaultsReplaceNothing == RoutingSpec => StartupsPreserve
<1>1. ASSUME RoutingInv, [RoutingNext]_routingVars
      PROVE  \A p \in Replicas : doc # NoConfig /\ doc # Defaults(p) => doc' # Defaults(p)
  <2>. SUFFICES ASSUME NEW p \in Replicas, doc # NoConfig, doc # Defaults(p)
                PROVE  doc' # Defaults(p)
    OBVIOUS
  <2>. USE RoutingAssumption
  <2>1. ASSUME NEW r \in Requests, pc[r] = "sent" PROVE next[r] # Defaults(p)
    BY <1>1, <2>1 DEF RoutingInv, Signed, Defaults
  <2>2. ASSUME NEW q \in Replicas, LoadUpsert(q) \/ LoadAckLost(q) PROVE doc' # Defaults(p)
    BY <2>2 DEF LoadUpsert, LoadAckLost, Stored, Upserted
  <2>3. ASSUME NEW r \in Requests, SaveLands(r) \/ SaveAckLost(r) PROVE doc' # Defaults(p)
    BY <2>1, <2>3 DEF SaveLands, SaveAckLost, Stored
  <2>4. ASSUME NEW q \in Replicas,
               LoadStart(q) \/ LoadFound(q) \/ LoadMissing(q) \/ LoadUnavailable(q) \/ Restart(q)
        PROVE  doc' # Defaults(p)
    BY <2>4 DEF LoadStart, LoadFound, LoadMissing, LoadUnavailable, Restart
  <2>5. ASSUME NEW r \in Requests,
               Enqueue(r) \/ WriteStart(r) \/ SaveSend(r) \/ SaveRefused(r)
                 \/ SavePublishes(r) \/ SaveUnavailable(r)
        PROVE  doc' # Defaults(p)
    BY <2>5 DEF Enqueue, WriteStart, SaveSend, SaveRefused, SavePublishes, SaveUnavailable
  <2>6. CASE UNCHANGED routingVars
    BY <2>6 DEF routingVars
  <2>. QED
    BY <1>1, <2>2, <2>3, <2>4, <2>5, <2>6 DEF RoutingNext, Load, Save
<1>. QED
  BY <1>1, RoutingInvariant, PTL DEF RoutingSpec, StartupsPreserve

-----------------------------------------------------------------------------
(* The chain of a replica's writes: QueuedWritesKept. *)

\* A write that runs is the first of its replica's chain, which is loaded once
\* it has sent, and a patch that is sent differs from what the replica serves
\* in its own field only.
AtWork(r) == pc[r] \in {"running", "sent", "acked"}
ChainTyped == writes \in [Replicas -> Seq(Requests)]
RunsFirst ==
    \A r \in Requests : AtWork(r) => writes[home[r]] # <<>> /\ Head(writes[home[r]]) = r
SentLoaded == \A r \in Requests : pc[r] \in {"sent", "acked"} => load[home[r]] = "loaded"
PatchFollows ==
    \A r \in Patches : pc[r] = "sent" => next[r] = [config[home[r]] EXCEPT ![field[r]] = r]
QueueInv == ChainTyped /\ RunsFirst /\ SentLoaded /\ PatchFollows

LEMMA QueueInvInit == RoutingInit => QueueInv
<1> SUFFICES ASSUME RoutingInit PROVE QueueInv
  OBVIOUS
<1>1. ChainTyped
  <2>1. <<>> \in Seq(Requests)
    BY EmptySeq
  <2> QED
    BY <2>1 DEF RoutingInit, ChainTyped
<1>2. \A r \in Requests : pc[r] = "start"
  BY DEF RoutingInit
<1>3. Patches \subseteq Requests
  BY DEF Requests
<1> QED
  BY <1>1, <1>2, <1>3 DEF QueueInv, RunsFirst, AtWork, SentLoaded, PatchFollows

\* Two writes of a replica are never both at work.
LEMMA OneAtWork ==
    ASSUME QueueInv, NEW r \in Requests, AtWork(r), NEW q \in Requests, AtWork(q),
           home[q] = home[r]
    PROVE  q = r
BY DEF QueueInv, RunsFirst

\* A write comes to work at the head of its chain, or stays there.
LEMMA ProgressStep ==
    ASSUME RoutingInv, QueueInv, NEW r \in Requests, NEW stage,
           Goto(r, stage),
           stage \in {"running", "sent", "acked"},
           writes[home[r]] # <<>> /\ Head(writes[home[r]]) = r,
           stage # "running" => load[home[r]] = "loaded",
           \A q \in Patches : q # r => next'[q] = next[q],
           stage = "sent" /\ r \in Patches
             => next'[r] = [config[home[r]] EXCEPT ![field[r]] = r],
           UNCHANGED <<config, load, writes, field>>
    PROVE  QueueInv'
<1>1. /\ pc' = [pc EXCEPT ![r] = stage]
      /\ pc \in [Requests -> {"start", "queued", "running", "sent", "acked", "ok", "failed"}]
  BY DEF Goto, RoutingInv, RoutingTyped
<1>2. pc'[r] = stage /\ \A q \in Requests : q # r => pc'[q] = pc[q]
  BY <1>1
<1>3. Patches \subseteq Requests
  BY DEF Requests
<1>4. ChainTyped' /\ RunsFirst'
  BY <1>2 DEF QueueInv, ChainTyped, RunsFirst, AtWork
<1>5. SentLoaded'
  BY <1>2 DEF QueueInv, SentLoaded
<1>6. PatchFollows'
  BY <1>2, <1>3 DEF QueueInv, PatchFollows
<1> QED
  BY <1>4, <1>5, <1>6 DEF QueueInv

\* A write at work is over, and the chain goes on without it; only an
\* acknowledged one changes what the replica serves.
LEMMA LeavesStep ==
    ASSUME RoutingInv, QueueInv, NEW r \in Requests, AtWork(r), NEW stage,
           stage \in {"ok", "failed"}, Goto(r, stage), Leaves(r),
           \A p \in Replicas : p # home[r] => config'[p] = config[p],
           UNCHANGED <<load, field, next>>
    PROVE  QueueInv'
<1>1. /\ pc' = [pc EXCEPT ![r] = stage]
      /\ pc \in [Requests -> {"start", "queued", "running", "sent", "acked", "ok", "failed"}]
      /\ writes' = [writes EXCEPT ![home[r]] = Tail(@)]
      /\ writes \in [Replicas -> Seq(Requests)] /\ home \in [Requests -> Replicas]
  BY RoutingAssumption DEF Goto, Leaves, RoutingInv, RoutingTyped, QueueInv, ChainTyped
<1>2. pc'[r] = stage /\ \A q \in Requests : q # r => pc'[q] = pc[q]
  BY <1>1
<1>3. Patches \subseteq Requests
  BY DEF Requests
<1>4. ChainTyped'
  <2>1. writes[home[r]] \in Seq(Requests) /\ writes[home[r]] # <<>>
    BY <1>1 DEF QueueInv, RunsFirst
  <2>2. Tail(writes[home[r]]) \in Seq(Requests)
    BY <2>1, HeadTailProperties
  <2> QED
    BY <1>1, <2>2 DEF ChainTyped
<1>5. \A q \in Requests : AtWork(q)' => AtWork(q) /\ q # r /\ home[q] # home[r]
  BY <1>2, OneAtWork DEF AtWork
<1>6. \A p \in Replicas : p # home[r] => writes'[p] = writes[p]
  BY <1>1
<1>7. RunsFirst'
  BY <1>1, <1>5, <1>6 DEF QueueInv, RunsFirst
<1>8. SentLoaded'
  BY <1>2 DEF QueueInv, SentLoaded
<1>9. PatchFollows'
  <2> SUFFICES ASSUME NEW q \in Patches, pc'[q] = "sent"
               PROVE  next'[q] = [config'[home[q]] EXCEPT ![field'[q]] = q]
    BY DEF PatchFollows
  <2>1. q # r /\ home[q] # home[r] /\ home[q] \in Replicas
    BY <1>1, <1>3, <1>5 DEF AtWork
  <2> QED
    BY <1>2, <1>3, <2>1 DEF QueueInv, PatchFollows
<1> QED
  BY <1>4, <1>7, <1>8, <1>9 DEF QueueInv

\* A step of a replica that touches no request that is sent.
LEMMA LoadStep ==
    ASSUME RoutingInv, QueueInv, NEW p \in Replicas,
           \/ Load(p) \/ LoadUnavailable(p) \/ LoadAckLost(p) \/ Restart(p)
    PROVE  QueueInv'
<1> USE RoutingAssumption
<1>0. /\ pc \in [Requests -> {"start", "queued", "running", "sent", "acked", "ok", "failed"}]
      /\ load \in [Replicas -> {"no", "find", "upsert", "loaded"}]
      /\ config \in [Replicas -> Configs]
      /\ writes \in [Replicas -> Seq(Requests)] /\ home \in [Requests -> Replicas]
      /\ Patches \subseteq Requests
  BY DEF RoutingInv, RoutingTyped, QueueInv, ChainTyped, Requests
<1>1. CASE Load(p)
  <2>1. /\ load[p] # "loaded" /\ UNCHANGED <<writes, field, pc, next>>
        /\ \A q \in Replicas : q # p => load'[q] = load[q] /\ config'[q] = config[q]
    BY <1>0, <1>1 DEF Load, LoadStart, LoadFound, LoadMissing, LoadUpsert
  <2>2. \A r \in Requests : pc[r] \in {"sent", "acked"} => home[r] # p
    BY <2>1 DEF QueueInv, SentLoaded
  <2>3. ChainTyped' /\ RunsFirst'
    BY <2>1 DEF QueueInv, ChainTyped, RunsFirst, AtWork
  <2>4. SentLoaded'
    BY <1>0, <2>1, <2>2 DEF QueueInv, SentLoaded
  <2>5. PatchFollows'
    <3>1. \A r \in Patches : pc'[r] = "sent" =>
             config'[home[r]] = config[home[r]] /\ field'[r] = field[r] /\ next'[r] = next[r]
      BY <1>0, <2>1, <2>2
    <3> QED
      BY <2>1, <3>1 DEF QueueInv, PatchFollows
  <2> QED
    BY <2>3, <2>4, <2>5 DEF QueueInv
<1>2. CASE LoadUnavailable(p) \/ LoadAckLost(p)
  <2>1. /\ load[p] # "loaded" /\ LoadFailed(p) /\ UNCHANGED <<config, field, next>>
    BY <1>2 DEF LoadUnavailable, LoadAckLost
  <2>2. /\ load' = [load EXCEPT ![p] = "no"]
        /\ pc' = [r \in Requests |->
                    IF home[r] = p /\ pc[r] = "running" THEN "failed" ELSE pc[r]]
        /\ writes' = IF \E r \in Requests : home[r] = p /\ pc[r] = "running"
                     THEN [writes EXCEPT ![p] = Tail(@)] ELSE writes
    BY <2>1 DEF LoadFailed
  <2>3. \A r \in Requests : pc[r] \in {"sent", "acked"} => home[r] # p
    BY <2>1 DEF QueueInv, SentLoaded
  <2>4. \A r \in Requests : AtWork(r)' => /\ AtWork(r) /\ home[r] # p /\ pc'[r] = pc[r]
                                         /\ writes'[home[r]] = writes[home[r]]
                                         /\ load'[home[r]] = load[home[r]]
    BY <1>0, <2>2, <2>3 DEF AtWork
  <2>5. ChainTyped'
    <3>1. CASE \E r \in Requests : home[r] = p /\ pc[r] = "running"
      <4>1. writes[p] \in Seq(Requests) /\ writes[p] # <<>>
        BY <1>0, <3>1 DEF QueueInv, RunsFirst, AtWork
      <4>2. Tail(writes[p]) \in Seq(Requests)
        BY <4>1, HeadTailProperties
      <4>3. writes' = [writes EXCEPT ![p] = Tail(writes[p])]
        BY <2>2, <3>1
      <4> QED
        BY <1>0, <4>2, <4>3 DEF ChainTyped
    <3>2. CASE ~ \E r \in Requests : home[r] = p /\ pc[r] = "running"
      BY <1>0, <2>2, <3>2 DEF ChainTyped
    <3> QED
      BY <3>1, <3>2
  <2>6. RunsFirst'
    BY <2>4 DEF QueueInv, RunsFirst
  <2>7. SentLoaded'
    BY <2>4 DEF QueueInv, SentLoaded, AtWork
  <2>8. PatchFollows'
    BY <1>0, <2>1, <2>4 DEF QueueInv, PatchFollows, AtWork
  <2> QED
    BY <2>5, <2>6, <2>7, <2>8 DEF QueueInv
<1>3. CASE Restart(p)
  <2>1. /\ config' = [config EXCEPT ![p] = Defaults(p)]
        /\ load' = [load EXCEPT ![p] = "no"]
        /\ writes' = [writes EXCEPT ![p] = <<>>]
        /\ pc' = [r \in Requests |->
                    IF home[r] = p /\ pc[r] \in {"queued", "running", "sent", "acked"}
                    THEN "failed" ELSE pc[r]]
        /\ UNCHANGED <<field, next>>
    BY <1>3 DEF Restart
  <2>2. \A r \in Requests : AtWork(r)' => /\ AtWork(r) /\ home[r] # p /\ pc'[r] = pc[r]
                                         /\ writes'[home[r]] = writes[home[r]]
                                         /\ load'[home[r]] = load[home[r]]
                                         /\ config'[home[r]] = config[home[r]]
    BY <1>0, <2>1 DEF AtWork
  <2>3. ChainTyped'
    <3>1. <<>> \in Seq(Requests)
      BY EmptySeq
    <3> QED
      BY <1>0, <2>1, <3>1 DEF ChainTyped
  <2>4. RunsFirst' /\ SentLoaded'
    BY <2>2 DEF QueueInv, RunsFirst, SentLoaded, AtWork
  <2>5. PatchFollows'
    BY <1>0, <2>1, <2>2 DEF QueueInv, PatchFollows, AtWork
  <2> QED
    BY <2>3, <2>4, <2>5 DEF QueueInv
<1> QED
  BY <1>1, <1>2, <1>3

LEMMA SaveStep ==
    ASSUME RoutingInv, QueueInv, NEW r \in Requests,
           \/ Enqueue(r) \/ Save(r) \/ SaveRefused(r) \/ SaveUnavailable(r) \/ SaveAckLost(r)
    PROVE  QueueInv'
<1> USE RoutingAssumption
<1>0. /\ pc \in [Requests -> {"start", "queued", "running", "sent", "acked", "ok", "failed"}]
      /\ config \in [Replicas -> Configs] /\ next \in [Requests -> Configs \cup {NoConfig}]
      /\ writes \in [Replicas -> Seq(Requests)] /\ home \in [Requests -> Replicas]
      /\ Patches \subseteq Requests
  BY DEF RoutingInv, RoutingTyped, QueueInv, ChainTyped, Requests
<1>1. AtWork(r) => writes[home[r]] # <<>> /\ Head(writes[home[r]]) = r
  BY DEF QueueInv, RunsFirst
<1>2. CASE Enqueue(r)
  <2> DEFINE w == writes[home[r]]
  <2>1. /\ writes' = [writes EXCEPT ![home[r]] = Append(w, r)]
        /\ pc' = [pc EXCEPT ![r] = "queued"] /\ UNCHANGED <<config, load, field, next>>
    BY <1>2 DEF Enqueue, Goto
  <2>2. w \in Seq(Requests) /\ home[r] \in Replicas
    BY <1>0
  <2>3. /\ Append(w, r) \in Seq(Requests) /\ Append(w, r) # <<>>
        /\ w # <<>> => Head(Append(w, r)) = Head(w)
    BY <2>2, AppendProperties, HeadTailAppend
  <2>4. pc'[r] = "queued" /\ \A q \in Requests : q # r => pc'[q] = pc[q]
    BY <1>0, <2>1
  <2>5. writes'[home[r]] = Append(w, r) /\ \A p \in Replicas : p # home[r] => writes'[p] = writes[p]
    BY <1>0, <2>1, <2>2
  <2>6. ChainTyped'
    BY <1>0, <2>1, <2>3 DEF ChainTyped
  <2>7. RunsFirst'
    <3> SUFFICES ASSUME NEW q \in Requests, AtWork(q)'
                 PROVE  writes'[home[q]] # <<>> /\ Head(writes'[home[q]]) = q
      BY DEF RunsFirst
    <3>1. q # r /\ AtWork(q)
      BY <2>4 DEF AtWork
    <3>2. writes[home[q]] # <<>> /\ Head(writes[home[q]]) = q /\ home[q] \in Replicas
      BY <1>0, <3>1 DEF QueueInv, RunsFirst
    <3> QED
      BY <2>3, <2>5, <3>2
  <2>8. SentLoaded'
    BY <2>1, <2>4 DEF QueueInv, SentLoaded
  <2>9. PatchFollows'
    BY <1>0, <2>1, <2>4 DEF QueueInv, PatchFollows
  <2> QED
    BY <2>6, <2>7, <2>8, <2>9 DEF QueueInv
<1>3. CASE WriteStart(r)
  BY <1>3, ProgressStep DEF WriteStart, Turn
<1>4. CASE SaveSend(r)
  <2>1. /\ AtWork(r) /\ load[home[r]] = "loaded" /\ Goto(r, "sent")
        /\ next' = [next EXCEPT ![r] = Wanted(r)]
        /\ UNCHANGED <<config, load, writes, field>>
    BY <1>4 DEF SaveSend, AtWork
  <2>2. next'[r] = Wanted(r) /\ \A q \in Patches : q # r => next'[q] = next[q]
    BY <1>0, <2>1
  <2>3. r \in Patches => Wanted(r) = [config[home[r]] EXCEPT ![field[r]] = r]
    BY DEF Wanted
  <2> QED
    BY <1>1, <2>1, <2>2, <2>3, ProgressStep
<1>5. CASE SaveLands(r)
  <2>1. /\ AtWork(r) /\ load[home[r]] = "loaded" /\ Goto(r, "acked")
        /\ UNCHANGED <<config, load, writes, field, next>>
    BY <1>5 DEF SaveLands, AtWork, QueueInv, SentLoaded
  <2> QED
    BY <1>1, <2>1, ProgressStep
<1>6. CASE SavePublishes(r)
  BY <1>0, <1>6, LeavesStep DEF SavePublishes, AtWork
<1>7. CASE SaveRefused(r)
  BY <1>0, <1>7, LeavesStep DEF SaveRefused, AtWork
<1>8. CASE SaveUnavailable(r)
  BY <1>0, <1>8, LeavesStep DEF SaveUnavailable, AtWork
<1>9. CASE SaveAckLost(r)
  BY <1>0, <1>9, LeavesStep DEF SaveAckLost, AtWork
<1> QED
  BY <1>2, <1>3, <1>4, <1>5, <1>6, <1>7, <1>8, <1>9 DEF Save

LEMMA QueueInvStep == RoutingInv /\ QueueInv /\ [RoutingNext]_routingVars => QueueInv'
<1> SUFFICES ASSUME RoutingInv, QueueInv, [RoutingNext]_routingVars PROVE QueueInv'
  OBVIOUS
<1>1. CASE UNCHANGED routingVars
  BY <1>1 DEF routingVars, QueueInv, ChainTyped, RunsFirst, AtWork, SentLoaded, PatchFollows
<1> QED
  BY <1>1, LoadStep, SaveStep DEF RoutingNext

LEMMA OnlyItsOwnField ==
    ASSUME RoutingInv, QueueInv, [RoutingNext]_routingVars, NEW r \in Patches,
           pc[r] = "sent", pc'[r] = "acked"
    PROVE  \A f \in Fields \ {field[r]} : doc'[f] = config[home[r]][f]
<1>1. SaveLands(r)
  <2>1. r \in Requests /\ pc \in [Requests -> {"start", "queued", "running", "sent", "acked", "ok", "failed"}]
    BY DEF Requests, RoutingInv, RoutingTyped
  <2>2. ASSUME NEW q \in Requests, NEW stage, Goto(q, stage)
        PROVE  q = r /\ stage = "acked"
    BY <2>1, <2>2 DEF Goto
  <2>3. RoutingNext
    BY DEF routingVars
  <2>4. ASSUME NEW p \in Replicas, Load(p) \/ LoadUnavailable(p) \/ LoadAckLost(p) \/ Restart(p)
        PROVE  FALSE
    BY <2>1, <2>4 DEF Load, LoadStart, LoadFound, LoadMissing, LoadUpsert, LoadUnavailable,
                      LoadAckLost, LoadFailed, Restart
  <2>5. ASSUME NEW q \in Requests,
               Enqueue(q) \/ Save(q) \/ SaveRefused(q) \/ SaveUnavailable(q) \/ SaveAckLost(q)
        PROVE  SaveLands(r)
    <3>1. CASE SaveLands(q)
      <4>1. Goto(q, "acked")
        BY <3>1 DEF SaveLands
      <4> QED
        BY <2>2, <3>1, <4>1
    <3>2. CASE Enqueue(q)
      <4>1. Goto(q, "queued")
        BY <3>2 DEF Enqueue
      <4> QED
        BY <2>2, <4>1
    <3>3. CASE WriteStart(q) \/ SaveSend(q)
      <4>1. Goto(q, "running") \/ Goto(q, "sent")
        BY <3>3 DEF WriteStart, SaveSend
      <4> QED
        BY <2>2, <4>1
    <3>4. CASE SavePublishes(q) \/ SaveRefused(q) \/ SaveUnavailable(q) \/ SaveAckLost(q)
      <4>1. Goto(q, "ok") \/ Goto(q, "failed")
        BY <3>4 DEF SavePublishes, SaveRefused, SaveUnavailable, SaveAckLost
      <4> QED
        BY <2>2, <4>1
    <3> QED
      BY <2>5, <3>1, <3>2, <3>3, <3>4 DEF Save
  <2> QED
    BY <2>3, <2>4, <2>5 DEF RoutingNext
<1>2. doc' = next[r] /\ next[r] = [config[home[r]] EXCEPT ![field[r]] = r]
  BY <1>1 DEF SaveLands, Stored, QueueInv, PatchFollows
<1>3. home[r] \in Replicas /\ config[home[r]] \in Configs
  BY RoutingAssumption DEF Requests, RoutingInv, RoutingTyped
<1> QED
  BY <1>2, <1>3 DEF Configs

\* settings.ts: a patch saves, of what it does not set, what its replica serves
\* at that moment, for any number of replicas, requests and failures.
THEOREM PatchesKeepTheRest == RoutingSpec => QueuedWritesKept
<1>1. RoutingInv /\ QueueInv /\ [RoutingNext]_routingVars =>
        [\A r \in Patches : pc[r] = "sent" /\ pc'[r] = "acked" =>
            \A f \in Fields \ {field[r]} : doc'[f] = config[home[r]][f]]_routingVars
  BY OnlyItsOwnField
<1> QED
  BY <1>1, RoutingInvariant, QueueInvInit, QueueInvStep, PTL DEF RoutingSpec, QueuedWritesKept

-----------------------------------------------------------------------------
(* The telemetry queue and its readers: NothingLostSilently, ReportComplete. *)

TelemetryTypeOK ==
    /\ now \in Nat /\ count \in Nat /\ stamp \in [1 .. MaxEvents -> Nat]
    /\ pending \in Seq(Nat) /\ batch \in Seq(Nat) /\ durableIncomplete \in BOOLEAN
    /\ chain \in Nat /\ flushing \in {"no", "schema", "insert"}
    /\ coverageFrom \in Nat /\ cursor \in 1 .. maxAnalyticsEvents
    /\ kind \in [Readers -> {"summary", "report", "stop"}]
    /\ phase \in [Readers -> {"start", "first", "second", "drained", "memory", "mongodb",
                              "stopped", "left"}]
    /\ waitFor \in [Readers -> Nat] /\ asked \in [Readers -> Nat]

\* Every event is somewhere, and what was dropped is told.
EventsPlaced == 1 .. count = stored \cup Range(pending) \cup Range(batch) \cup dropped
DropsTold == dropped # {} => durableIncomplete

\* Only a running insert holds a batch, and only a scheduled flush runs.
FlushHolds == (flushing # "insert" => batch = <<>>) /\ (flushing # "no" => chain > 0)

\* While a reader is about to look, no flush runs.
DueAtRest == \A r \in Readers : Due(r) => flushing = "no"

\* What was recorded when a reader asked is stored, once its drain succeeded,
\* except for what was dropped.
AskedStored ==
    \A r \in Readers :
        /\ asked[r] <= count
        /\ phase[r] = "drained" => 1 .. asked[r] \subseteq stored \cup dropped
        /\ phase[r] = "mongodb" /\ r \in Reports => 1 .. asked[r] \subseteq stored

\* The ring holds what the coverage says, and nothing that is still to come.
RingCovers ==
    /\ ring \in Seq(1 .. count) /\ Len(ring) <= maxAnalyticsEvents
    /\ \A e \in 1 .. count : stamp[e] >= coverageFrom => e \in Range(ring)

TelemetryInv ==
    /\ TelemetryTypeOK /\ EventsPlaced /\ DropsTold /\ FlushHolds /\ DueAtRest
    /\ AskedStored /\ RingCovers

LEMMA SequenceRange ==
    ASSUME NEW S, NEW s \in Seq(S)
    PROVE  /\ Range(s) = {s[i] : i \in 1 .. Len(s)} /\ Range(s) \subseteq S
           /\ Len(s) \in Nat /\ \A i \in 1 .. Len(s) : s[i] \in S
<1>1. Range(s) = {s[i] : i \in 1 .. Len(s)}
  BY RangeEquality
<1>2. Len(s) \in Nat
  BY LenProperties
<1>3. \A i \in 1 .. Len(s) : s[i] \in S
  BY ElementOfSeq
<1> QED
  BY <1>1, <1>2, <1>3

LEMMA RangeOfEmpty == Range(<<>>) = {} /\ \A S : <<>> \in Seq(S)
BY EmptySeq DEF Range

LEMMA RangeOfAppend ==
    ASSUME NEW S, NEW s \in Seq(S), NEW e \in S
    PROVE  Append(s, e) \in Seq(S) /\ Range(Append(s, e)) = Range(s) \cup {e}
<1> DEFINE t == Append(s, e)
<1>1. /\ t \in Seq(S) /\ Len(t) = Len(s) + 1 /\ Len(s) \in Nat
      /\ \A i \in 1 .. Len(s) : t[i] = s[i]
      /\ t[Len(s) + 1] = e
  BY AppendProperties, LenProperties
<1> HIDE DEF t
<1>2. Range(t) = {t[i] : i \in 1 .. Len(t)} /\ Range(s) = {s[i] : i \in 1 .. Len(s)}
  BY <1>1, SequenceRange
<1>3. 1 .. Len(t) = (1 .. Len(s)) \cup {Len(s) + 1}
  BY <1>1
<1>4. Range(t) = Range(s) \cup {e}
  BY <1>1, <1>2, <1>3
<1> QED
  BY <1>1, <1>4 DEF t

LEMMA RangeOfConcat ==
    ASSUME NEW S, NEW s \in Seq(S), NEW t \in Seq(S)
    PROVE  s \o t \in Seq(S) /\ Range(s \o t) = Range(s) \cup Range(t)
BY ConcatProperties, RangeConcatenation

LEMMA KeepNewestFacts ==
    ASSUME NEW s \in Seq(Nat)
    PROVE  /\ KeepNewest(s) \in Seq(Nat) /\ Range(KeepNewest(s)) \subseteq Range(s)
           /\ Len(s) <= maxPending => Range(KeepNewest(s)) = Range(s)
<1> DEFINE m == IF Len(s) > maxPending THEN Len(s) - maxPending + 1 ELSE 1
           n == Len(s)
           k == SubSeq(s, m, n)
<1>1. n \in Nat /\ m \in Int /\ m >= 1 /\ maxPending \in Nat
  BY LenProperties, TelemetryAssumption
<1>2. \A i \in m .. n : i \in 1 .. n /\ s[i] \in Nat
  BY <1>1, ElementOfSeq
<1>3. n <= maxPending => m = 1
  BY <1>1
<1> HIDE DEF m
<1>4. /\ k \in Seq(Nat) /\ Len(k) = IF m <= n THEN n - m + 1 ELSE 0
      /\ \A i \in 1 .. n - m + 1 : k[i] = s[m + i - 1]
  BY <1>1, <1>2, SubSeqProperties
<1>5. KeepNewest(s) = k
  BY DEF KeepNewest, m
<1> HIDE DEF k
<1>6. Range(k) = {k[i] : i \in 1 .. Len(k)} /\ Range(s) = {s[i] : i \in 1 .. n}
  BY <1>4, SequenceRange
<1>7. \A i \in 1 .. Len(k) : m + i - 1 \in 1 .. n /\ k[i] = s[m + i - 1]
  <2> SUFFICES ASSUME NEW i \in 1 .. Len(k)
               PROVE  m + i - 1 \in 1 .. n /\ k[i] = s[m + i - 1]
    OBVIOUS
  <2> HIDE DEF n
  <2>1. m <= n /\ Len(k) = n - m + 1
    BY <1>1, <1>4
  <2>2. i \in 1 .. n - m + 1
    BY <2>1
  <2>3. m + i - 1 \in 1 .. n
    BY <1>1, <2>2
  <2> QED
    BY <1>4, <2>2, <2>3
<1>8. Range(k) \subseteq Range(s)
  BY <1>6, <1>7
<1>9. ASSUME m = 1 PROVE Range(s) \subseteq Range(k)
  <2>1. Len(k) = n /\ \A i \in 1 .. n : s[1 + i - 1] = s[i]
    BY <1>1, <1>4, <1>9
  <2>2. \A i \in 1 .. n : i \in 1 .. Len(k) /\ k[i] = s[i]
    BY <1>7, <1>9, <2>1
  <2> QED
    BY <1>6, <2>2
<1> QED
  BY <1>3, <1>4, <1>5, <1>8, <1>9

\* What is kept and what is dropped are what there was.
LEMMA KeepFacts ==
    ASSUME NEW s \in Seq(Nat), Keep(s), durableIncomplete \in BOOLEAN
    PROVE  /\ pending' \in Seq(Nat) /\ durableIncomplete' \in BOOLEAN
           /\ Range(pending') \cup dropped' = Range(s) \cup dropped
           /\ dropped \subseteq dropped'
           /\ durableIncomplete => durableIncomplete'
           /\ dropped' # dropped => durableIncomplete'
<1>1. /\ pending' = KeepNewest(s)
      /\ dropped' = dropped \cup (Range(s) \ Range(KeepNewest(s)))
      /\ durableIncomplete' = (durableIncomplete \/ Len(s) > maxPending)
  BY DEF Keep, IncompleteAfter
<1>2. /\ KeepNewest(s) \in Seq(Nat) /\ Range(KeepNewest(s)) \subseteq Range(s)
      /\ Len(s) <= maxPending => Range(KeepNewest(s)) = Range(s)
  BY KeepNewestFacts
<1>3. Len(s) \in Nat /\ maxPending \in Nat
  BY LenProperties, TelemetryAssumption
<1>4. ~(Len(s) > maxPending) => dropped' = dropped
  BY <1>1, <1>2, <1>3
<1> QED
  BY <1>1, <1>2, <1>4

LEMMA TelemetryInvInit == TelemetryInit => TelemetryInv
<1> SUFFICES ASSUME TelemetryInit PROVE TelemetryInv
  OBVIOUS
<1>1. /\ <<>> \in Seq(Nat) /\ <<>> \in Seq(1 .. count) /\ Len(<<>>) = 0 /\ Range(<<>>) = {}
      /\ maxAnalyticsEvents \in Nat \ {0} /\ 1 .. count = {}
  BY RangeOfEmpty, EmptySeq, TelemetryAssumption DEF TelemetryInit
<1>2. TelemetryTypeOK
  <2>1. 0 \in Nat /\ 1 \in 1 .. maxAnalyticsEvents
    BY <1>1
  <2>2. /\ stamp \in [1 .. MaxEvents -> Nat] /\ waitFor \in [Readers -> Nat]
        /\ asked \in [Readers -> Nat]
        /\ phase \in [Readers -> {"start", "first", "second", "drained", "memory", "mongodb",
                                  "stopped", "left"}]
    BY <2>1 DEF TelemetryInit
  <2> QED
    BY <1>1, <2>1, <2>2 DEF TelemetryInit, TelemetryTypeOK
<1>3. EventsPlaced /\ DropsTold /\ FlushHolds /\ DueAtRest
  BY <1>1 DEF TelemetryInit, EventsPlaced, DropsTold, FlushHolds, DueAtRest
<1>4. AskedStored
  BY <1>1 DEF TelemetryInit, AskedStored
<1>5. RingCovers
  BY <1>1 DEF TelemetryInit, RingCovers
<1> QED
  BY <1>2, <1>3, <1>4, <1>5 DEF TelemetryInv

\* The ring, when an event enters it.
LEMMA RingStep ==
    ASSUME TelemetryInv, Record
    PROVE  RingCovers' /\ coverageFrom' \in Nat /\ cursor' \in 1 .. maxAnalyticsEvents
<1> DEFINE e == count + 1
<1>1. /\ count' = count + 1 /\ count < MaxEvents /\ count \in Nat /\ e \in 1 .. count'
      /\ MaxEvents \in Nat /\ now \in Nat
      /\ stamp' = [stamp EXCEPT ![e] = now] /\ Remember(e)
      /\ stamp \in [1 .. MaxEvents -> Nat]
      /\ maxAnalyticsEvents \in Nat \ {0} /\ coverageFrom \in Nat
      /\ cursor \in 1 .. maxAnalyticsEvents
  BY TelemetryAssumption DEF Record, TelemetryInv, TelemetryTypeOK
<1>2. /\ ring \in Seq(1 .. count) /\ Len(ring) <= maxAnalyticsEvents
      /\ \A x \in 1 .. count : stamp[x] >= coverageFrom => x \in Range(ring)
  BY DEF TelemetryInv, RingCovers
<1>3. /\ ring \in Seq(1 .. count') /\ Len(ring) \in Nat
      /\ Range(ring) = {ring[i] : i \in 1 .. Len(ring)}
      /\ \A i \in 1 .. Len(ring) : ring[i] \in 1 .. count
  <2>1. 1 .. count \subseteq 1 .. count'
    BY <1>1
  <2>2. /\ Range(ring) = {ring[i] : i \in 1 .. Len(ring)} /\ Len(ring) \in Nat
        /\ \A i \in 1 .. Len(ring) : ring[i] \in 1 .. count
    BY <1>2, SequenceRange
  <2>3. ring \in Seq(1 .. count')
    BY ONLY <1>2, <2>1, SeqMonotonic
  <2> QED
    BY <2>2, <2>3
<1>4. \A x \in 1 .. count : stamp'[x] = stamp[x] /\ stamp[x] \in Nat
  BY <1>1
<1>5. \A x \in 1 .. count' : x \in 1 .. count \/ x = e
  BY <1>1
<1> HIDE DEF e
<1>6. CASE Len(ring) < maxAnalyticsEvents
  <2>1. ring' = Append(ring, e) /\ UNCHANGED <<cursor, coverageFrom>>
    BY <1>1, <1>6 DEF Remember
  <2>2. /\ ring' \in Seq(1 .. count') /\ Range(ring') = Range(ring) \cup {e}
        /\ Len(ring') = Len(ring) + 1
    <3>1. e \in 1 .. count' /\ ring \in Seq(1 .. count')
      BY <1>1, <1>3
    <3>2. Len(Append(ring, e)) = Len(ring) + 1
      BY ONLY <3>1, AppendProperties
    <3>3. Append(ring, e) \in Seq(1 .. count')
      BY ONLY <3>1, AppendProperties
    <3>4. Range(Append(ring, e)) = Range(ring) \cup {e}
      <4> DEFINE S == 1 .. count'
      <4>1. e \in S /\ ring \in Seq(S)
        BY <3>1
      <4> HIDE DEF S
      <4> QED
        BY ONLY <4>1, RangeOfAppend
    <3> QED
      BY <2>1, <3>2, <3>3, <3>4
  <2>3. \A x \in 1 .. count' : stamp'[x] >= coverageFrom' => x \in Range(ring')
    BY <1>2, <1>4, <1>5, <2>1, <2>2
  <2>4. Len(ring') <= maxAnalyticsEvents
    BY <1>1, <1>3, <1>6, <2>2
  <2> QED
    BY <1>1, <2>1, <2>2, <2>3, <2>4 DEF RingCovers
<1>7. CASE ~(Len(ring) < maxAnalyticsEvents)
  <2>1. /\ ring' = [ring EXCEPT ![cursor] = e]
        /\ cursor' = (cursor % maxAnalyticsEvents) + 1
        /\ coverageFrom' = CoverageAfterEviction
    BY <1>1, <1>7 DEF Remember
  <2>2. Len(ring) = maxAnalyticsEvents /\ cursor \in 1 .. Len(ring)
    BY <1>1, <1>2, <1>3, <1>7
  <2>3. /\ ring' \in Seq(1 .. count') /\ Len(ring') = Len(ring)
        /\ \A j \in 1 .. Len(ring) : ring'[j] = IF j = cursor THEN e ELSE ring[j]
    BY <1>1, <1>3, <2>1, <2>2, ExceptSeq
  <2>4. Range(ring') = {ring'[i] : i \in 1 .. Len(ring')}
    BY <2>3, SequenceRange
  <2>5. /\ stamp[ring[cursor]] \in Nat /\ ring[cursor] \in 1 .. count
        /\ coverageFrom' \in Nat /\ coverageFrom' >= coverageFrom
        /\ coverageFrom' > stamp[ring[cursor]]
    <3>1. ring[cursor] \in 1 .. count
      BY <1>3, <2>2
    <3>2. stamp[ring[cursor]] \in Nat
      BY <1>4, <3>1
    <3>3. coverageFrom' = IF stamp[ring[cursor]] + 1 > coverageFrom
                          THEN stamp[ring[cursor]] + 1 ELSE coverageFrom
      BY <2>1 DEF CoverageAfterEviction
    <3> HIDE DEF CoverageAfterEviction
    <3>4. coverageFrom \in Nat
      BY <1>1
    <3> QED
      BY ONLY <3>1, <3>2, <3>3, <3>4
  <2>6. \A x \in Range(ring) : x = ring[cursor] \/ x \in Range(ring')
    BY <1>3, <2>2, <2>3, <2>4
  <2>7. e \in Range(ring')
    BY <2>2, <2>3, <2>4
  <2>8. ASSUME NEW x \in 1 .. count', stamp'[x] >= coverageFrom' PROVE x \in Range(ring')
    <3>1. CASE x \in 1 .. count
      <4>0. /\ stamp'[x] = stamp[x] /\ stamp[x] \in Nat /\ coverageFrom \in Nat
            /\ stamp[ring[cursor]] \in Nat /\ coverageFrom' \in Nat
            /\ coverageFrom' >= coverageFrom /\ coverageFrom' > stamp[ring[cursor]]
        BY <1>1, <1>4, <2>5, <3>1
      <4>1. stamp[x] >= coverageFrom /\ x # ring[cursor]
        BY ONLY <2>8, <4>0
      <4> QED
        BY <1>2, <2>6, <3>1, <4>1
    <3> QED
      BY <1>5, <2>7, <2>8, <3>1
  <2>9. cursor' \in 1 .. maxAnalyticsEvents
    BY <1>1, <2>1
  <2> QED
    BY <2>2, <2>3, <2>5, <2>8, <2>9 DEF RingCovers
<1> QED
  BY <1>6, <1>7

LEMMA RecordStep == ASSUME TelemetryInv, Record PROVE TelemetryInv'
<1>1. /\ count' = count + 1 /\ count \in Nat /\ Keep(Append(pending, count + 1))
      /\ UNCHANGED <<flushing, batch, stored, kind, phase, waitFor, asked, now>>
      /\ chain \in Nat /\ chain' \in {chain, chain + 1}
      /\ durableIncomplete \in BOOLEAN /\ pending \in Seq(Nat)
  BY DEF Record, readers, TelemetryInv, TelemetryTypeOK
<1>2. /\ Append(pending, count + 1) \in Seq(Nat)
      /\ Range(Append(pending, count + 1)) = Range(pending) \cup {count + 1}
  BY <1>1, RangeOfAppend
<1>3. /\ pending' \in Seq(Nat) /\ durableIncomplete' \in BOOLEAN
      /\ Range(pending') \cup dropped' = Range(pending) \cup {count + 1} \cup dropped
      /\ dropped \subseteq dropped' /\ (durableIncomplete => durableIncomplete')
      /\ dropped' # dropped => durableIncomplete'
  BY <1>1, <1>2, KeepFacts
<1>4. stamp' \in [1 .. MaxEvents -> Nat]
  BY DEF Record, TelemetryInv, TelemetryTypeOK
<1>5. TelemetryTypeOK'
  BY <1>1, <1>3, <1>4, RingStep DEF TelemetryInv, TelemetryTypeOK
<1>6. EventsPlaced'
  <2>1. 1 .. count' = (1 .. count) \cup {count + 1}
    BY <1>1
  <2> QED
    BY <1>1, <1>3, <2>1 DEF TelemetryInv, EventsPlaced
<1>7. DropsTold' /\ FlushHolds' /\ DueAtRest'
  BY <1>1, <1>3 DEF TelemetryInv, DropsTold, FlushHolds, DueAtRest, Due, Waiting
<1>8. AskedStored'
  <2>1. \A r \in Readers : asked[r] \in Nat
    BY DEF TelemetryInv, TelemetryTypeOK
  <2>2. Reports' = Reports
    BY <1>1 DEF Reports
  <2> QED
    BY <1>1, <1>3, <2>1, <2>2 DEF TelemetryInv, AskedStored
<1> QED
  BY <1>5, <1>6, <1>7, <1>8, RingStep DEF TelemetryInv

\* A flush ends: what of its batch is neither stored nor queued was dropped.
LEMMA FlushEndsStep ==
    ASSUME TelemetryInv, flushing # "no", NEW ok \in BOOLEAN, FlushEnds(ok),
           pending' \in Seq(Nat), durableIncomplete' \in BOOLEAN,
           stored \subseteq stored', dropped \subseteq dropped',
           stored' \cup Range(pending') \cup dropped'
             = stored \cup Range(pending) \cup Range(batch) \cup dropped,
           durableIncomplete => durableIncomplete',
           dropped' # dropped => durableIncomplete',
           UNCHANGED <<now, count, stamp, memory>>
    PROVE  TelemetryInv'
<1>1. /\ flushing' = "no" /\ batch' = <<>> /\ chain' = chain - 1 /\ chain \in Nat /\ chain > 0
      /\ waitFor' = [r \in Readers |-> IF Waiting(r) /\ waitFor[r] > 0
                                       THEN waitFor[r] - 1 ELSE waitFor[r]]
      /\ UNCHANGED <<kind, phase, asked, now, count, stamp, ring, cursor, coverageFrom>>
  BY DEF FlushEnds, memory, TelemetryInv, TelemetryTypeOK, FlushHolds
<1>2. <<>> \in Seq(Nat) /\ Range(<<>>) = {}
  BY RangeOfEmpty
<1>3. waitFor' \in [Readers -> Nat]
  BY <1>1 DEF TelemetryInv, TelemetryTypeOK
<1>4. TelemetryTypeOK'
  BY <1>1, <1>2, <1>3 DEF TelemetryInv, TelemetryTypeOK
<1>5. EventsPlaced' /\ DropsTold' /\ FlushHolds' /\ DueAtRest'
  BY <1>1, <1>2 DEF TelemetryInv, EventsPlaced, DropsTold, FlushHolds, DueAtRest
<1>6. AskedStored'
  <2>1. Reports' = Reports
    BY <1>1 DEF Reports
  <2> QED
    BY <1>1, <2>1 DEF TelemetryInv, AskedStored
<1>7. RingCovers'
  BY <1>1 DEF TelemetryInv, RingCovers
<1> QED
  BY <1>4, <1>5, <1>6, <1>7 DEF TelemetryInv

LEMMA FlushStep == ASSUME TelemetryInv, Flush PROVE TelemetryInv'
<1>0. /\ pending \in Seq(Nat) /\ batch \in Seq(Nat) /\ durableIncomplete \in BOOLEAN
      /\ chain \in Nat
  BY DEF TelemetryInv, TelemetryTypeOK
<1>1. CASE FlushStart
  <2>1. /\ flushing = "no" /\ flushing' = "schema" /\ chain > 0 /\ \A r \in Readers : ~Due(r)
        /\ UNCHANGED <<now, count, stamp, queue, chain, batch, stored, memory, readers>>
    BY <1>0, <1>1 DEF FlushStart, MayStart
  <2>2. TelemetryTypeOK'
    BY <2>1 DEF TelemetryInv, TelemetryTypeOK, queue, memory, readers
  <2>3. EventsPlaced' /\ DropsTold' /\ FlushHolds' /\ DueAtRest'
    BY <2>1 DEF TelemetryInv, EventsPlaced, DropsTold, FlushHolds, DueAtRest, Due, Waiting,
                queue, readers
  <2>4. AskedStored' /\ RingCovers'
    BY <2>1 DEF TelemetryInv, AskedStored, RingCovers, Reports, queue, memory, readers
  <2> QED
    BY <2>2, <2>3, <2>4 DEF TelemetryInv
<1>2. CASE SchemaFails \/ NothingToSend
  <2>1. /\ flushing = "schema" /\ \E ok \in BOOLEAN : FlushEnds(ok)
        /\ UNCHANGED <<now, count, stamp, pending, durableIncomplete, dropped, stored, memory>>
    BY <1>2 DEF SchemaFails, NothingToSend, queue
  <2>2. Range(batch) = {}
    BY <2>1, RangeOfEmpty DEF TelemetryInv, FlushHolds
  <2> QED
    BY <1>0, <2>1, <2>2, FlushEndsStep
<1>3. CASE TakeBatch
  <2>1. /\ flushing = "schema" /\ flushing' = "insert" /\ batch' = pending /\ pending' = <<>>
        /\ UNCHANGED <<now, count, stamp, durableIncomplete, dropped, chain, stored, memory,
                       readers>>
    BY <1>3 DEF TakeBatch
  <2>2. batch = <<>> /\ Range(<<>>) = {} /\ <<>> \in Seq(Nat)
    BY <2>1, RangeOfEmpty DEF TelemetryInv, FlushHolds
  <2>3. TelemetryTypeOK'
    BY <1>0, <2>1, <2>2 DEF TelemetryInv, TelemetryTypeOK, memory, readers
  <2>4. EventsPlaced' /\ DropsTold' /\ FlushHolds' /\ DueAtRest'
    BY <2>1, <2>2 DEF TelemetryInv, EventsPlaced, DropsTold, FlushHolds, DueAtRest, Due,
                      Waiting, readers
  <2>5. AskedStored' /\ RingCovers'
    BY <2>1 DEF TelemetryInv, AskedStored, RingCovers, Reports, memory, readers
  <2> QED
    BY <2>3, <2>4, <2>5 DEF TelemetryInv
<1>4. CASE InsertLands
  <2>1. /\ flushing = "insert" /\ stored' = stored \cup Range(batch) /\ FlushEnds(TRUE)
        /\ UNCHANGED <<now, count, stamp, pending, durableIncomplete, dropped, memory>>
    BY <1>4 DEF InsertLands, queue
  <2>2. stored' \cup Range(pending') \cup dropped'
          = stored \cup Range(pending) \cup Range(batch) \cup dropped
    BY <2>1
  <2> QED
    BY <1>0, <2>1, <2>2, FlushEndsStep
<1>5. CASE InsertFails
  <2>1. PICK done \in SUBSET Range(batch) : stored' = stored \cup done
    BY <1>5 DEF InsertFails
  <2>2. /\ flushing = "insert" /\ FlushEnds(FALSE) /\ Keep(batch \o pending)
        /\ UNCHANGED <<now, count, stamp, memory>>
    BY <1>5 DEF InsertFails, Requeued
  <2>3. batch \o pending \in Seq(Nat) /\ Range(batch \o pending) = Range(batch) \cup Range(pending)
    BY <1>0, RangeOfConcat
  <2>4. /\ pending' \in Seq(Nat) /\ durableIncomplete' \in BOOLEAN
        /\ Range(pending') \cup dropped' = Range(batch) \cup Range(pending) \cup dropped
        /\ dropped \subseteq dropped' /\ (durableIncomplete => durableIncomplete')
        /\ dropped' # dropped => durableIncomplete'
    BY <1>0, <2>2, <2>3, KeepFacts
  <2>5. /\ stored \subseteq stored'
        /\ stored' \cup Range(pending') \cup dropped'
             = stored \cup Range(pending) \cup Range(batch) \cup dropped
    BY <2>1, <2>4
  <2> QED
    BY <2>2, <2>4, <2>5, FlushEndsStep
<1> QED
  BY <1>1, <1>2, <1>3, <1>4, <1>5 DEF Flush

\* The steps of a reader change nothing but the readers and the chain.
LEMMA ReaderStep ==
    ASSUME TelemetryInv, NEW r \in Readers, Ask(r) \/ Read(r) \/ QueryFails(r)
    PROVE  TelemetryInv'
<1>0. /\ chain \in Nat /\ count \in Nat /\ waitFor \in [Readers -> Nat]
      /\ asked \in [Readers -> Nat]
      /\ phase \in [Readers -> {"start", "first", "second", "drained", "memory", "mongodb",
                                "stopped", "left"}]
      /\ flushing # "no" => chain > 0
  BY DEF TelemetryInv, TelemetryTypeOK, FlushHolds
<1>1. /\ UNCHANGED <<now, count, stamp, pending, durableIncomplete, dropped, batch, flushing,
                     stored, ring, cursor, coverageFrom, kind>>
      /\ chain' \in {chain, chain + 1}
      /\ phase' = [phase EXCEPT ![r] = phase'[r]] /\ phase'[r] # "start"
      /\ phase'[r] \in {"first", "second", "drained", "memory", "mongodb", "stopped", "left"}
      /\ waitFor' = [waitFor EXCEPT ![r] = waitFor'[r]] /\ waitFor'[r] \in Nat
      /\ asked' = [asked EXCEPT ![r] = asked'[r]] /\ asked'[r] \in {asked[r], count}
  <2>1. CASE Ask(r)
    BY <1>0, <2>1 DEF Ask, Ahead, queue, flush, memory
  <2>2. CASE DrainFlush(r)
    BY <1>0, <2>2 DEF DrainFlush, queue, memory
  <2>3. CASE DrainEnds(r)
    BY <1>0, <2>3 DEF DrainEnds, Drained, queue, flush, memory
  <2>4. CASE QuerySink(r) \/ Untrusted(r) \/ QueryFails(r)
    BY <1>0, <2>4 DEF QuerySink, Untrusted, QueryFails, queue, flush, memory
  <2> QED
    BY <2>1, <2>2, <2>3, <2>4 DEF Read
<1>2. TelemetryTypeOK'
  <2>1. phase' \in [Readers -> {"start", "first", "second", "drained", "memory", "mongodb",
                              "stopped", "left"}]
    BY <1>0, <1>1
  <2>2. waitFor' \in [Readers -> Nat]
    BY <1>0, <1>1
  <2>3. asked'[r] \in Nat
    BY <1>0, <1>1
  <2>4. asked' \in [Readers -> Nat]
    BY <1>0, <1>1, <2>3
  <2>5. chain' \in Nat
    BY <1>0, <1>1
  <2> QED
    BY <1>1, <2>1, <2>2, <2>4, <2>5 DEF TelemetryInv, TelemetryTypeOK
<1>3. EventsPlaced' /\ DropsTold' /\ FlushHolds' /\ RingCovers'
  BY <1>0, <1>1 DEF TelemetryInv, EventsPlaced, DropsTold, FlushHolds, RingCovers
<1>4. \A q \in Readers : q # r => /\ phase'[q] = phase[q] /\ waitFor'[q] = waitFor[q]
                                  /\ asked'[q] = asked[q]
  BY <1>0, <1>1
<1>5. DueAtRest'
  <2>1. \A q \in Readers : q # r => Due(q)' = Due(q)
    BY <1>4 DEF Due, Waiting
  <2>2. Due(r)' => flushing = "no"
    <3>1. CASE Ask(r)
      <4>1. waitFor'[r] = chain
        BY <1>0, <3>1 DEF Ask, Ahead
      <4> QED
        BY <1>0, <4>1 DEF Due
    <3>2. CASE DrainFlush(r)
      <4>1. waitFor'[r] = chain + 1
        BY <1>0, <3>2 DEF DrainFlush
      <4> QED
        BY <1>0, <4>1 DEF Due
    <3>3. CASE DrainEnds(r) \/ QuerySink(r) \/ Untrusted(r) \/ QueryFails(r)
      <4>1. phase'[r] \notin {"first", "second"}
        BY <1>0, <3>3 DEF DrainEnds, Drained, QuerySink, Untrusted, QueryFails
      <4> QED
        BY <4>1 DEF Due, Waiting
    <3> QED
      BY <3>1, <3>2, <3>3 DEF Read
  <2> QED
    BY <1>1, <2>1, <2>2 DEF TelemetryInv, DueAtRest
<1>6. AskedStored'
  <2>1. Reports' = Reports
    BY <1>1 DEF Reports
  <2>2. asked[r] <= count /\ asked'[r] <= count
    BY <1>0, <1>1 DEF TelemetryInv, AskedStored
  <2>3. phase'[r] = "drained" => 1 .. asked'[r] \subseteq stored \cup dropped
    <3>1. SUFFICES ASSUME phase'[r] = "drained"
                   PROVE  1 .. asked'[r] \subseteq stored \cup dropped
      OBVIOUS
    <3>2. DrainEnds(r) /\ pending = <<>> /\ asked'[r] = asked[r]
      <4>1. ~Ask(r) /\ ~DrainFlush(r) /\ ~QuerySink(r) /\ ~Untrusted(r) /\ ~QueryFails(r)
        BY <1>0, <3>1 DEF Ask, DrainFlush, QuerySink, Untrusted, QueryFails
      <4>2. DrainEnds(r)
        BY <4>1 DEF Read
      <4>3. r \notin Stops /\ (lastOk /\ pending = <<>>) /\ asked'[r] = asked[r]
        BY <1>0, <3>1, <4>2 DEF DrainEnds, Drained
      <4> QED
        BY <4>2, <4>3
    <3>3. flushing = "no"
      BY <3>2 DEF DrainEnds, TelemetryInv, DueAtRest
    <3>4. Range(pending) = {} /\ Range(batch) = {}
      BY <3>2, <3>3, RangeOfEmpty DEF TelemetryInv, FlushHolds
    <3>5. 1 .. count = stored \cup dropped
      BY <3>4 DEF TelemetryInv, EventsPlaced
    <3>6. 1 .. asked[r] \subseteq 1 .. count
      BY <1>0, <2>2
    <3> QED
      BY <3>2, <3>5, <3>6
  <2>4. phase'[r] = "mongodb" /\ r \in Reports => 1 .. asked'[r] \subseteq stored
    <3>1. SUFFICES ASSUME phase'[r] = "mongodb", r \in Reports
                   PROVE  1 .. asked'[r] \subseteq stored
      OBVIOUS
    <3>2. QuerySink(r)
      BY <1>0, <3>1 DEF Ask, Read, DrainFlush, DrainEnds, Drained, Untrusted, QueryFails
    <3>3. phase[r] = "drained" /\ ~durableIncomplete /\ asked'[r] = asked[r]
      BY <3>1, <3>2 DEF QuerySink, Trusted
    <3>4. dropped = {}
      BY <3>3 DEF TelemetryInv, DropsTold
    <3> QED
      BY <3>3, <3>4 DEF TelemetryInv, AskedStored
  <2> QED
    BY <1>1, <1>4, <2>1, <2>2, <2>3, <2>4 DEF TelemetryInv, AskedStored
<1> QED
  BY <1>2, <1>3, <1>5, <1>6 DEF TelemetryInv

LEMMA TelemetryInvStep == TelemetryInv /\ [TelemetryNext]_telemetryVars => TelemetryInv'
<1> SUFFICES ASSUME TelemetryInv, [TelemetryNext]_telemetryVars PROVE TelemetryInv'
  OBVIOUS
<1>1. CASE TimerTick \/ Tick \/ UNCHANGED telemetryVars
  <2>1. /\ UNCHANGED <<count, stamp, queue, batch, flushing, stored, memory, readers>>
        /\ now' \in Nat /\ chain' \in Nat /\ chain' >= chain /\ chain \in Nat
    BY <1>1 DEF TimerTick, Tick, telemetryVars, flush, TelemetryInv, TelemetryTypeOK
  <2>2. TelemetryTypeOK'
    BY <2>1 DEF TelemetryInv, TelemetryTypeOK, queue, memory, readers
  <2>3. EventsPlaced' /\ DropsTold' /\ FlushHolds' /\ DueAtRest'
    BY <2>1 DEF TelemetryInv, EventsPlaced, DropsTold, FlushHolds, DueAtRest, Due, Waiting,
                queue, readers
  <2>4. AskedStored' /\ RingCovers'
    BY <2>1 DEF TelemetryInv, AskedStored, RingCovers, Reports, queue, memory, readers
  <2> QED
    BY <2>2, <2>3, <2>4 DEF TelemetryInv
<1> QED
  BY <1>1, RecordStep, FlushStep, ReaderStep DEF TelemetryNext

LEMMA TelemetryInvariant == TelemetrySpec => []TelemetryInv
<1> QED
  BY TelemetryInvInit, TelemetryInvStep, PTL DEF TelemetrySpec

\* However inserts fail, in part or only in their answer, and however full the
\* queue is: every event is stored, queued, in flight or dropped, and no event
\* is dropped untold.
THEOREM NothingLost == TelemetrySpec => []NothingLostSilently
<1>1. TelemetryInv => NothingLostSilently
  BY DEF TelemetryInv, EventsPlaced, DropsTold, NothingLostSilently
<1> QED
  BY <1>1, TelemetryInvariant, PTL

\* A report from the database counts every event recorded before it was asked
\* for; one from memory every event since the coverage it states.
THEOREM ReportsComplete == TelemetrySpec => []ReportComplete
<1>1. TelemetryInv => ReportComplete
  BY DEF TelemetryInv, AskedStored, RingCovers, ReportComplete, Reports
<1> QED
  BY <1>1, TelemetryInvariant, PTL
=============================================================================
