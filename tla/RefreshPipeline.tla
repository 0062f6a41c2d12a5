---------------------------- MODULE RefreshPipeline ----------------------------
(***************************************************************************)
(* How a Snapshot travels: the private chain and its routes in the control *)
(* server, the Snapshot table, the two ways to publish (an administrator's *)
(* request and the automatic refresh), the public-chain node service, the  *)
(* SnapshotGateway contract and the page a consumer opens.                 *)
(*                                                                         *)
(* The store's operations hold its mutex and their table statements are a  *)
(* single transaction, so here each is one step, taken from SnapshotTable; *)
(* SnapshotStore has their inside.  A publication request is not one step: *)
(* the control server posts it without any lock, the node service works on *)
(* it between awaits, and the answer may come after the server gave up.    *)
(*                                                                         *)
(* What a manifest says is reduced to the newest Block it rests on         *)
(* (source) and the route it was built for (route).  A cycle of the        *)
(* scheduler treats batches one after the other; with one batch per        *)
(* instance a cycle is one Refresh.  Due times and windows are the matter  *)
(* of SnapshotStorage's schedule, a refresh may take place at any time.    *)
(***************************************************************************)
EXTENDS SnapshotTable, Sequences

CONSTANTS
    Routes, FirstRoute,  \* route versions of a batch (by fingerprint)
    MaxHead,             \* bound: Blocks a batch can reach
    MaxRouteChanges,     \* bound: semantic route changes per batch
    Admins,              \* administrators at the control panel
    MaxRequests,         \* bound: publication requests ever posted
    Faults               \* "timeout": the server may give up on a request
                         \* (or the answer is lost, or the node dies)
                         \* "node": a step of the node service fails
                         \* "store": a step of the Snapshot store fails

ASSUME BoundsAssumption ==
    MaxHead \in Nat \ {0} /\ MaxRouteChanges \in Nat /\ MaxRequests \in Nat
ASSUME FirstRouteAssumption == FirstRoute \in Routes
ASSUME ContentsAssumption == Contents = [source : 0..MaxHead, route : Routes]

VARIABLES
    head, route, eligible,   \* the private chain's view of each batch
    routeChanges,            \* how many route changes so far
    changing,                \* batches whose route is saved, not yet invalidated
    table,                   \* snapshot_storage
    candidate,               \* the content of every ID ever built
    drafts,                  \* IDs an administrator's browser holds
    client,                  \* what each publisher of the control server does
    requests,                \* the requests the node service has received
    current, mined,          \* the contract: current Snapshot, all Snapshots
    manifests                \* manifest files beside the node service

private == <<head, route, eligible, routeChanges, changing>>
public == <<current, mined, manifests>>
vars == <<private, table, candidate, drafts, client, requests, public>>

Scheduler == "scheduler"
Clients == Admins \cup {Scheduler}

Content(b) == [source |-> head[b], route |-> route[b]]

Unused(b) == {i \in Ids : BatchOf[i] = b /\ candidate[i] = NoContent}

Active(b) == LoadActive(table, b)
Latest(b) == LatestPublication(table, b)

ClientIdle == [at |-> "idle"]
Waiting(n) == [at |-> "waiting", request |-> n]

Init ==
    /\ head = [b \in Batches |-> 1]
    /\ route = [b \in Batches |-> FirstRoute]
    /\ eligible \in [Batches -> BOOLEAN]
    /\ routeChanges = [b \in Batches |-> 0]
    /\ changing = {}
    /\ table = EmptyTable
    /\ candidate = [i \in Ids |-> NoContent]
    /\ drafts = {}
    /\ client = [p \in Clients |-> ClientIdle]
    /\ requests = <<>>
    /\ current = [b \in Batches |-> NoId]
    /\ mined = {} /\ manifests = {}

-----------------------------------------------------------------------------
(* The private chain.  Both handlers and the first phase of a refresh run  *)
(* under chain_mutex; a route change holds it over two database writes.    *)

ChainMutexFree == changing = {}

(* A Block of the batch is committed; the route's stages may be complete   *)
(* now, or not yet.                                                        *)
AppendBlock(b) ==
    /\ ChainMutexFree
    /\ head[b] < MaxHead
    /\ head' = [head EXCEPT ![b] = @ + 1]
    /\ \E e \in BOOLEAN : eligible' = [eligible EXCEPT ![b] = e]
    /\ UNCHANGED <<route, routeChanges, changing, table, candidate, drafts,
                   client, requests, public>>

(* POST /api/workflow with a different fingerprint: save_workflow_route ... *)
SaveRoute(b) ==
    /\ ChainMutexFree
    /\ routeChanges[b] < MaxRouteChanges
    /\ routeChanges' = [routeChanges EXCEPT ![b] = @ + 1]
    /\ \E r \in Routes \ {route[b]} : route' = [route EXCEPT ![b] = r]
    /\ \E e \in BOOLEAN : eligible' = [eligible EXCEPT ![b] = e]
    /\ changing' = changing \cup {b}
    /\ UNCHANGED <<head, table, candidate, drafts, client, requests, public>>

(* ... then invalidate_batch ...                                           *)
InvalidateChanged(b) ==
    /\ b \in changing
    /\ table' = Invalidated(table, b)
    /\ changing' = changing \ {b}
    /\ UNCHANGED <<head, route, eligible, routeChanges, candidate, drafts,
                   client, requests, public>>

(* ... which is not reached when the policies of the route cannot be set   *)
(* up, and whose own failure is only logged: the table stays as it is.     *)
InvalidateFails(b) ==
    /\ "store" \in Faults
    /\ b \in changing
    /\ changing' = changing \ {b}
    /\ UNCHANGED <<head, route, eligible, routeChanges, table, candidate, drafts,
                   client, requests, public>>

-----------------------------------------------------------------------------
(* POST /api/snapshot/preview takes no lock: records first, then the route *)
(* and the eligibility check of build_preview, and last the row.           *)
ReadRecords(a, b) ==
    /\ client[a] = ClientIdle
    /\ client' = [client EXCEPT ![a] = [at |-> "reading", batch |-> b,
                                        source |-> head[b]]]
    /\ UNCHANGED <<private, table, candidate, drafts, requests, public>>

BuildPreview(a) ==
    /\ client[a].at = "reading"
    /\ LET b == client[a].batch
           c == [source |-> client[a].source, route |-> route[b]]
       IN  \/ /\ eligible[b]
              /\ \E i \in Unused(b) :
                     /\ candidate' = [candidate EXCEPT ![i] = c]
                     /\ client' = [client EXCEPT ![a] = [at |-> "built", id |-> i]]
           \/ /\ ~eligible[b]
              /\ client' = [client EXCEPT ![a] = ClientIdle]
              /\ UNCHANGED candidate
    /\ UNCHANGED <<private, table, drafts, requests, public>>

SavePreview(a) ==
    /\ client[a].at = "built"
    /\ table' = WithPreview(table, client[a].id, candidate[client[a].id])
    /\ drafts' = drafts \cup {client[a].id}
    /\ client' = [client EXCEPT ![a] = ClientIdle]
    /\ UNCHANGED <<private, candidate, requests, public>>

(* post_publication_candidate: a connection to the node service.           *)
Post(p, i) ==
    /\ Len(requests) < MaxRequests
    /\ requests' = Append(requests, [at |-> "received", id |-> i, by |-> p])
    /\ client' = [client EXCEPT ![p] = Waiting(Len(requests) + 1)]

(* POST /api/snapshot/publish posts whatever candidate the browser holds:  *)
(* it may have been superseded or invalidated meanwhile.                   *)
AdminPublishes(a, i) ==
    /\ client[a] = ClientIdle
    /\ i \in drafts
    /\ Post(a, i)
    /\ UNCHANGED <<private, table, candidate, drafts, public>>

-----------------------------------------------------------------------------
(* automatic_snapshot_refresh, the part under chain_mutex.  A batch that   *)
(* has neither an active nor an earlier row is skipped, as are one that is *)
(* not eligible and one whose active Snapshot is still current.            *)
RefreshUnconditionally(b) ==
    /\ client[Scheduler] = ClientIdle
    /\ ChainMutexFree
    /\ Active(b) # NoRecord \/ Latest(b) # NoRecord
    /\ eligible[b]
    /\ \E i \in Unused(b) :
           /\ candidate' = [candidate EXCEPT ![i] = Content(b)]
           /\ client' = [client EXCEPT ![Scheduler] = [at |-> "queued", id |-> i]]
    /\ UNCHANGED <<private, table, drafts, requests, public>>
RefreshOnRouteOnly(b) ==
    /\ client[Scheduler] = ClientIdle
    /\ ChainMutexFree
    /\ Active(b) # NoRecord \/ Latest(b) # NoRecord
    /\ eligible[b]
    /\ Active(b).content \notin {c \in Contents : c.route = route[b]}
    /\ \E i \in Unused(b) :
           /\ candidate' = [candidate EXCEPT ![i] = Content(b)]
           /\ client' = [client EXCEPT ![Scheduler] = [at |-> "queued", id |-> i]]
    /\ UNCHANGED <<private, table, drafts, requests, public>>
Refresh(b) ==
    /\ client[Scheduler] = ClientIdle
    /\ ChainMutexFree
    /\ Active(b) # NoRecord \/ Latest(b) # NoRecord
    /\ eligible[b]
    /\ Active(b).content # Content(b)
    /\ \E i \in Unused(b) :
           /\ candidate' = [candidate EXCEPT ![i] = Content(b)]
           /\ client' = [client EXCEPT ![Scheduler] = [at |-> "queued", id |-> i]]
    /\ UNCHANGED <<private, table, drafts, requests, public>>

(* Its second part posts the queued candidate with no lock held.           *)
SchedulerPublishes ==
    /\ client[Scheduler].at = "queued"
    /\ Post(Scheduler, client[Scheduler].id)
    /\ UNCHANGED <<private, table, candidate, drafts, public>>

-----------------------------------------------------------------------------
(* The node service, publishCandidate.                                     *)
StageOf(n) == requests[n].at
IdOf(n) == requests[n].id
Advance(n, s) == requests' = [requests EXCEPT ![n].at = s]

(* fetchCurrentRouteState asks the control server for the saved route.     *)
CheckRoute(n) ==
    /\ StageOf(n) = "received"
    /\ Advance(n, IF candidate[IdOf(n)].route = route[BatchOf[IdOf(n)]]
                  THEN "checked" ELSE "refused")
    /\ UNCHANGED <<private, table, candidate, drafts, client, public>>

(* The publishSnapshot transaction: an ID is published once; the Snapshot  *)
(* that was current is superseded, the new one is current.                 *)
Mine(n) ==
    /\ StageOf(n) = "checked"
    /\ IF IdOf(n) \in mined
       THEN Advance(n, "refused") /\ UNCHANGED <<mined, current>>
       ELSE /\ Advance(n, "mined")
            /\ mined' = mined \cup {IdOf(n)}
            /\ current' = [current EXCEPT ![BatchOf[IdOf(n)]] = IdOf(n)]
    /\ UNCHANGED <<private, table, candidate, drafts, client, manifests>>

(* The manifest file, and the answer 201.                                  *)
WriteManifest(n) ==
    /\ StageOf(n) = "mined"
    /\ Advance(n, "published")
    /\ manifests' = manifests \cup {IdOf(n)}
    /\ UNCHANGED <<private, table, candidate, drafts, client, current, mined>>

(* Any step may throw: the control server cannot be reached, the           *)
(* transaction reverts (its nonce was used by a concurrent request, the    *)
(* contract is paused, the batch recalled), its receipt or the manifest    *)
(* file is lost.  The answer is an error; a mined transaction stands.      *)
NodeFails(n) ==
    /\ "node" \in Faults
    /\ StageOf(n) \in {"received", "checked", "mined"}
    /\ Advance(n, "refused")
    /\ UNCHANGED <<private, table, candidate, drafts, client, public>>

-----------------------------------------------------------------------------
(* The answer reaches the publisher that still waits: mark_published on    *)
(* success; on an error the row, if any, stays as it was.                  *)
ReceivePublished(p) ==
    /\ client[p].at = "waiting"
    /\ StageOf(client[p].request) = "published"
    /\ LET i == IdOf(client[p].request)
       IN  table' = WithPublication(table, i, candidate[i])
    /\ client' = [client EXCEPT ![p] = ClientIdle]
    /\ UNCHANGED <<private, candidate, drafts, requests, public>>

ReceiveIgnoringStatus(p) ==
    /\ client[p].at = "waiting"
    /\ StageOf(client[p].request) = "refused"
    /\ LET i == IdOf(client[p].request)
       IN  table' = WithPublication(table, i, candidate[i])
    /\ client' = [client EXCEPT ![p] = ClientIdle]
    /\ UNCHANGED <<private, candidate, drafts, requests, public>>
ReceiveRefused(p) ==
    /\ client[p].at = "waiting"
    /\ StageOf(client[p].request) = "refused"
    /\ client' = [client EXCEPT ![p] = ClientIdle]
    /\ UNCHANGED <<private, table, candidate, drafts, requests, public>>

(* The 10 second socket timeout, or a connection that breaks: the server   *)
(* reports the service unavailable, the node service carries on.           *)
GiveUpMarkingPublished(p) ==
    /\ "timeout" \in Faults
    /\ client[p].at = "waiting"
    /\ LET i == IdOf(client[p].request)
       IN  table' = WithPublication(table, i, candidate[i])
    /\ client' = [client EXCEPT ![p] = ClientIdle]
    /\ UNCHANGED <<private, candidate, drafts, requests, public>>
GiveUp(p) ==
    /\ "timeout" \in Faults
    /\ client[p].at = "waiting"
    /\ client' = [client EXCEPT ![p] = ClientIdle]
    /\ UNCHANGED <<private, table, candidate, drafts, requests, public>>

(* save_preview or mark_published fails before its COMMIT: the browser gets *)
(* no candidate, or the publication stands without a row.                  *)
StoreFails(p) ==
    /\ "store" \in Faults
    /\ \/ client[p].at = "built"
       \/ client[p].at = "waiting" /\ StageOf(client[p].request) = "published"
    /\ client' = [client EXCEPT ![p] = ClientIdle]
    /\ UNCHANGED <<private, table, candidate, drafts, requests, public>>

NodeStep(n) == CheckRoute(n) \/ Mine(n) \/ WriteManifest(n)

Next ==
    \/ \E b \in Batches : \/ AppendBlock(b) \/ SaveRoute(b)
                          \/ InvalidateChanged(b) \/ InvalidateFails(b) \/ Refresh(b)
    \/ \E a \in Admins : \/ \E b \in Batches : ReadRecords(a, b)
                         \/ BuildPreview(a) \/ SavePreview(a)
                         \/ \E i \in Ids : AdminPublishes(a, i)
    \/ SchedulerPublishes
    \/ \E n \in DOMAIN requests : NodeStep(n) \/ NodeFails(n)
    \/ \E p \in Clients : \/ ReceivePublished(p) \/ ReceiveRefused(p)
                           \/ GiveUp(p) \/ StoreFails(p)

(* The scheduler always comes round to a cycle in which the batch is due   *)
(* (it is woken or its delay runs out), a handler that has the chain mutex *)
(* finishes, and the node service answers.  Nobody must append, change or  *)
(* publish by hand.                                                        *)
Fairness ==
    /\ \A b \in Batches : WF_vars(InvalidateChanged(b)) /\ WF_vars(Refresh(b))
    /\ WF_vars(SchedulerPublishes)
    /\ \A n \in 1..MaxRequests : WF_vars(n \in DOMAIN requests /\ NodeStep(n))
    /\ \A p \in Clients : WF_vars(ReceivePublished(p) \/ ReceiveRefused(p))

Spec == Init /\ [][Next]_vars /\ Fairness

(* Both services have been restarted after an administrator published the  *)
(* first Snapshot of every batch.  From there the refresh keeps the        *)
(* batches current alone: with Admins = {} nobody else publishes.          *)
FirstId(b) == CHOOSE i \in Ids : BatchOf[i] = b
FirstIds == {FirstId(b) : b \in Batches}
FirstContent == [source |-> 1, route |-> FirstRoute]
FirstRow == [state |-> "active", rev |-> 1, content |-> FirstContent,
             publication |-> FirstContent]
PublishedInit ==
    /\ head = [b \in Batches |-> 1]
    /\ route = [b \in Batches |-> FirstRoute]
    /\ eligible = [b \in Batches |-> TRUE]
    /\ routeChanges = [b \in Batches |-> 0]
    /\ changing = {}
    /\ table = [i \in Ids |-> IF i \in FirstIds THEN FirstRow ELSE AbsentRow]
    /\ candidate = [i \in Ids |-> IF i \in FirstIds THEN FirstContent ELSE NoContent]
    /\ drafts = {}
    /\ client = [p \in Clients |-> ClientIdle]
    /\ requests = <<>>
    /\ current = [b \in Batches |-> FirstId(b)]
    /\ mined = FirstIds /\ manifests = FirstIds

SchedulerAloneSpec == PublishedInit /\ [][Next]_vars /\ Fairness

-----------------------------------------------------------------------------
(* What tracePublishedSnapshot shows a consumer who scans the batch now:   *)
(* the contract's current Snapshot, if its manifest file is there and its  *)
(* route is the saved route.                                               *)
Shown(b) ==
    IF /\ current[b] \in manifests
       /\ candidate[current[b]].route = route[b]
    THEN candidate[current[b]] ELSE NoContent

(* Nothing is on its way between the control server and the contract.      *)
Quiet ==
    /\ \A p \in Clients : client[p].at # "waiting"
    /\ \A n \in DOMAIN requests : StageOf(n) \in {"published", "refused"}

(* The state has the shape of the two services' data.                      *)
TypeOK ==
    /\ head \in [Batches -> 0..MaxHead] /\ route \in [Batches -> Routes]
    /\ eligible \in [Batches -> BOOLEAN]
    /\ routeChanges \in [Batches -> 0..MaxRouteChanges]
    /\ changing \subseteq Batches
    /\ table \in [Ids -> Row]
    /\ candidate \in [Ids -> Contents \cup {NoContent}]
    /\ drafts \subseteq Ids
    /\ \A p \in Clients : client[p].at \in {"idle", "reading", "built", "queued", "waiting"}
    /\ \A n \in DOMAIN requests :
           requests[n] \in [at : {"received", "checked", "mined", "published", "refused"},
                            id : Ids, by : Clients]
    /\ current \in [Batches -> Ids \cup {NoId}]
    /\ mined \subseteq Ids /\ manifests \subseteq mined

(* The control server never claims a publication that did not happen: a    *)
(* row with publication data was accepted by the contract, its manifest is *)
(* served, and both say what the row says - under timeouts, lost answers,  *)
(* failing manifest writes and failing statements of the store.            *)
PublishedRowsAreOnChain ==
    \A i \in Ids : table[i].publication # NoContent =>
        /\ i \in manifests
        /\ table[i].content = candidate[i]

(* "A scan resolves the current active Snapshot at scan time": when no     *)
(* publication is under way, the contract's current Snapshot is the one    *)
(* the control server has as active.                                       *)
ScanResolvesActive ==
    Quiet => \A b \in Batches : Active(b) # NoRecord => current[b] = Active(b).id

(* "unchanged source blocks and route fingerprints update only the hot     *)
(* verification status; no public-chain publication is created": the       *)
(* refresh never publishes again what the contract's current Snapshot of   *)
(* the batch says already, unless a route change invalidated that one.     *)
NoRepublication ==
    [][\A b \in Batches : \A n \in DOMAIN requests :
          /\ requests[n].by = Scheduler
          /\ current[b] # NoId /\ current'[b] # current[b]
          /\ current'[b] = IdOf(n)
          /\ candidate[current'[b]] = candidate[current[b]]
          => table[current[b]].state = "invalidated"]_vars

(* "changed source blocks create and publish a new immutable Snapshot      *)
(* revision", "a completed route after an invalidation can publish its     *)
(* replacement revision": once Blocks and routes stop changing, a batch    *)
(* that was published and is eligible comes to show its newest Block and   *)
(* its route, and keeps showing them.                                      *)
ConsumersSeeCurrentSource ==
    \A b \in Batches :
        <>[](eligible[b] /\ mined # {} => Shown(b) = Content(b))
=============================================================================
