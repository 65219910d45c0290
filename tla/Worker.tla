------------------------------- MODULE Worker -------------------------------
(* Overlapping requests of one Worker isolate (worker.ts, worker-requests.ts,*)
(* mongo.ts, server.ts). The stores and the telemetry queue are shared; a    *)
(* MongoDB client belongs to the request in whose scope it was opened, and   *)
(* is closed when that request's response has been sent. A store's calls and *)
(* those of the other stores are one client here.                            *)
EXTENDS Integers, Sequences, FiniteSets

CONSTANTS
    WorkerRequests, Nobody,
    MaxInsertFailures    \* bound of the run

ASSUME WorkerAssumption == Nobody \notin WorkerRequests

VARIABLES
    pc,        \* "new", "load", "handle", "stream", "drain", "flush", "close", "done"
    loaded, loading,   \* saved settings: read, and in whose request
    open,      \* requests with an open client in their scope
    alive,     \* requests whose handler has not finished
    hungUp,    \* requests whose client cancelled the body
    recorded,  \* requests that recorded a call; the event is named after it
    pending, batch, stored,   \* telemetry: queued, being inserted, in MongoDB
    chain,     \* flushChain: in whose scope each queued flush runs
    waits,     \* flushes a draining request still waits for
    failures

workerVars == <<pc, loaded, loading, open, alive, hungUp, recorded, pending,
                batch, stored, chain, waits, failures>>

telemetryVars == <<pending, batch, stored, chain, waits, failures>>

-----------------------------------------------------------------------------
WorkerInit ==
    /\ pc = [r \in WorkerRequests |-> "new"]
    /\ loaded = FALSE /\ loading = Nobody
    /\ open = {} /\ alive = {} /\ hungUp = {} /\ recorded = {}
    /\ pending = {} /\ batch = {} /\ stored = {}
    /\ chain = <<>>
    /\ waits = [r \in WorkerRequests |-> 0]
    /\ failures = 0

\* initializePersistence: the first request loads, later ones join it.
Begin(r) ==
    /\ pc[r] = "new"
    /\ pc' = [pc EXCEPT ![r] = IF loaded THEN "handle" ELSE "load"]
    /\ loading' = IF loaded \/ loading # Nobody THEN loading ELSE r
    /\ open' = open \cup {r}
    /\ alive' = alive \cup {r}
    /\ UNCHANGED <<loaded, hungUp, recorded, telemetryVars>>

\* Loaded or not, the requests that waited go on to the routes.
LoadEnds(ok) ==
    /\ loading # Nobody
    /\ loading' = Nobody
    /\ loaded' = ok
    /\ pc' = [r \in WorkerRequests |-> IF pc[r] = "load" THEN "handle" ELSE pc[r]]
    /\ UNCHANGED <<open, alive, hungUp, recorded, telemetryVars>>

\* recordChat: flushIntervalMs is 0, so each event queues a flush of its own.
Record(r) ==
    /\ r \in alive /\ pc[r] # "load" /\ r \notin recorded
    /\ recorded' = recorded \cup {r}
    /\ pending' = pending \cup {r}
    /\ chain' = Append(chain, r)
    /\ UNCHANGED <<pc, loaded, loading, open, alive, hungUp, batch, stored,
                   waits, failures>>

\* The handler answers with a body that goes on.
Stream(r) ==
    /\ pc[r] = "handle"
    /\ pc' = [pc EXCEPT ![r] = "stream"]
    /\ UNCHANGED <<loaded, loading, open, alive, hungUp, recorded, telemetryVars>>

\* releaseAfterResponse, then releaseRequestResources: telemetry.close() drains.
BeginEnd(r) ==
    /\ pc' = [pc EXCEPT ![r] = "drain"]
    /\ waits' = [waits EXCEPT ![r] = Len(chain)]

\* The body has been sent.
Finish(r) ==
    /\ pc[r] \in {"handle", "stream"}
    /\ BeginEnd(r)
    /\ alive' = alive \ {r}
    /\ UNCHANGED <<loaded, loading, open, hungUp, recorded, pending, batch,
                   stored, chain, failures>>

\* The client cancels the body; the handler learns of it in its own time.
Cancel(r) ==
    /\ pc[r] = "stream"
    /\ BeginEnd(r)
    /\ hungUp' = hungUp \cup {r}
    /\ UNCHANGED <<loaded, loading, open, alive, recorded, pending, batch,
                   stored, chain, failures>>

HandlerEnds(r) ==
    /\ r \in alive /\ r \in hungUp
    /\ alive' = alive \ {r}
    /\ UNCHANGED <<pc, loaded, loading, open, hungUp, recorded, telemetryVars>>

-----------------------------------------------------------------------------
(* The shared chain of flushes *)

FlushTakes ==
    /\ chain # <<>> /\ batch = {}
    /\ pending # {}
    /\ batch' = pending
    /\ pending' = {}
    /\ open' = open \cup {Head(chain)}
    /\ UNCHANGED <<pc, loaded, loading, alive, hungUp, recorded, stored, chain,
                   waits, failures>>

OneLess == [r \in WorkerRequests |-> IF waits[r] > 0 THEN waits[r] - 1 ELSE 0]

FlushEmpty ==
    /\ chain # <<>> /\ batch = {} /\ pending = {}
    /\ chain' = Tail(chain)
    /\ waits' = OneLess
    /\ UNCHANGED <<pc, loaded, loading, open, alive, hungUp, recorded, pending,
                   batch, stored, failures>>

\* A client that is being closed answers with an error.
FlushInserts ==
    /\ batch # {} /\ pc[Head(chain)] # "close"
    /\ stored' = stored \cup batch
    /\ batch' = {}
    /\ chain' = Tail(chain)
    /\ waits' = OneLess
    /\ UNCHANGED <<pc, loaded, loading, open, alive, hungUp, recorded, pending,
                   failures>>

\* Variant: a flush that fails breaks the chain for whoever waits on it.
NotTold == waits

Told == OneLess

FlushFails ==
    /\ batch # {}
    /\ pc[Head(chain)] = "close" \/ failures < MaxInsertFailures
    /\ failures' = IF pc[Head(chain)] = "close" THEN failures ELSE failures + 1
    /\ pending' = pending \cup batch
    /\ batch' = {}
    /\ chain' = Tail(chain)
    /\ waits' = Told
    /\ UNCHANGED <<pc, loaded, loading, open, alive, hungUp, recorded, stored>>

\* Variant: the drain does not wait for the flushes of other requests.
DrainedAtOnce(r) == TRUE

Drained(r) == waits[r] = 0

\* drain(): what is still queued gets one more flush, in this request's scope.
DrainAgain(r) ==
    /\ pc[r] = "drain" /\ Drained(r)
    /\ IF pending # {}
       THEN /\ chain' = Append(chain, r)
            /\ waits' = [waits EXCEPT ![r] = Len(chain) + 1]
            /\ pc' = [pc EXCEPT ![r] = "flush"]
       ELSE /\ pc' = [pc EXCEPT ![r] = "close"]
            /\ UNCHANGED <<chain, waits>>
    /\ UNCHANGED <<loaded, loading, open, alive, hungUp, recorded, pending,
                   batch, stored, failures>>

DrainEnds(r) ==
    /\ pc[r] = "flush" /\ Drained(r)
    /\ pc' = [pc EXCEPT ![r] = "close"]
    /\ UNCHANGED <<loaded, loading, open, alive, hungUp, recorded, telemetryVars>>

\* close() of the scope: its clients are closed and forgotten.
CloseClients(r) ==
    /\ pc[r] = "close"
    /\ pc' = [pc EXCEPT ![r] = "done"]
    /\ open' = open \ {r}
    /\ UNCHANGED <<loaded, loading, alive, hungUp, recorded, telemetryVars>>

Flush == FlushTakes \/ FlushEmpty \/ FlushInserts \/ FlushFails

End(r) == DrainAgain(r) \/ DrainEnds(r) \/ CloseClients(r)

WorkerNext ==
    \/ \E ok \in BOOLEAN : LoadEnds(ok)
    \/ \E r \in WorkerRequests :
           Begin(r) \/ Record(r) \/ Stream(r) \/ Finish(r) \/ Cancel(r)
             \/ HandlerEnds(r) \/ End(r)
    \/ Flush

WorkerSpec == WorkerInit /\ [][WorkerNext]_workerVars

\* The driver answers within its deadlines and promises go on; handlers and
\* clients take as long as they like.
WorkerFairness ==
    /\ WF_workerVars(Flush)
    /\ \A r \in WorkerRequests : WF_workerVars(End(r))

-----------------------------------------------------------------------------
(* "Keep request resources until streaming and telemetry writes complete":   *)
(* once a request closes its clients, no flush is left that would run in its *)
(* scope, and afterwards none of them is open. Requests share one queue: a   *)
(* call whose response was delivered is in MongoDB when its request is over, *)
(* whoever's flush took it, unless an insert failed. All this unless the     *)
(* client hung up.                                                           *)
ShippedBeforeEnd ==
    /\ \A r \in WorkerRequests \ hungUp :
          pc[r] \in {"close", "done"} =>
              /\ \A i \in DOMAIN chain : chain[i] # r
              /\ loading # r
              /\ pc[r] = "done" => r \notin open
    /\ \A r \in recorded \ hungUp : pc[r] = "done" /\ failures = 0 => r \in stored

(* No request's end waits forever on the flushes of the others, which keep   *)
(* coming and may fail.                                                      *)
RequestsEnd == \A r \in WorkerRequests : pc[r] = "drain" ~> pc[r] = "done"
=============================================================================
