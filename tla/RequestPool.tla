------------------------------ MODULE RequestPool ------------------------------
(***************************************************************************)
(* The control server's request handling: the accept loop, the bounded     *)
(* queue and the worker threads of ThreadPool, and what goes through them: *)
(*   change       a handler that commits and then announces the change,    *)
(*                unless it fails between the two                          *)
(*   submit       a page sends its form: a Block is committed, announced   *)
(*                and answered                                             *)
(*   publication  a publish handler: it posts the candidate to the node    *)
(*                service and waits, while the service calls back for the  *)
(*                route state                                              *)
(*   callback     that call, which needs a worker of the same pool         *)
(*   events       a page opens its stream of live events, which a thread   *)
(*                outside of the pool then serves                          *)
(*   read         the request with which a page refreshes itself           *)
(*                                                                         *)
(* The live event hub keeps the last RingSize events; a page refreshes on  *)
(* the events it receives, one refresh at a time, except while its form is *)
(* being sent or is done.  Work items come from a MemoryPool, a free list  *)
(* that is extended when it is empty.                                      *)
(*                                                                         *)
(* A handler may wait without a limit on a peer that says nothing: while   *)
(* it reads the request (read_request) and while it hands a file to IPFS   *)
(* (add_file_to_ipfs).  Such a worker is silent until the peer goes on or  *)
(* hangs up, which it need not do.                                         *)
(***************************************************************************)
EXTENDS Integers, Sequences, FiniteSets

CONSTANTS
    Workers,
    Changes, Publications,  \* requests that clients send once
    Pages,
    Loads,          \* what happens to the server: requests sent, streams
                    \* that break, peers that say nothing; one is chosen
    MaxQueue,       \* max_queue_size_
    RingSize,       \* events the hub keeps
    Prealloc,       \* work items allocated at the start
    MoreItems       \* work items allocated when none is free

ASSUME PoolAssumption ==
    /\ IsFiniteSet(Workers) /\ Workers # {}
    /\ MaxQueue \in Nat \ {0} /\ RingSize \in Nat \ {0}
    /\ Prealloc \in Nat /\ MoreItems \in Nat \ {0}

Request(kind, of) == [kind |-> kind, of |-> of]
ClientRequests == {Request("change", c) : c \in Changes}
             \cup {Request("publication", p) : p \in Publications}
             \cup {Request("events", g) : g \in Pages}
             \cup {Request("submit", g) : g \in Pages}
Requests == ClientRequests
       \cup {Request("callback", p) : p \in Publications}
       \cup {Request("read", g) : g \in Pages}

(* Bounds: drops is how often the stream of each page may break, silences  *)
(* how often a peer may fall silent.                                       *)
ASSUME LoadAssumption ==
    Loads \subseteq [send : SUBSET ClientRequests, drops : Nat, silences : Nat]

VARIABLES
    arrived,    \* connections the accept loop has not taken
    unsent,     \* client requests not sent yet
    acceptor,   \* the main thread: what it is submitting
    queue,      \* queue_
    worker,     \* the worker threads
    freeItems,  \* how many are in MemoryPool::free_list_
    items,      \* how many work items were ever allocated
    node,       \* the node service's part of each publication
    version,    \* how many changes are committed
    announced,  \* history: how many were when the last event was published
    silences,   \* how often a peer may still fall silent
    sequence,   \* LiveEventHub::sequence_
    stream,     \* the event thread of each page
    page        \* each page in its browser

poolVars == <<queue, worker, freeItems, items>>
pageVars == <<announced, sequence, stream, page>>
vars == <<arrived, unsent, acceptor, queue, worker, freeItems, items, node,
          version, announced, silences, sequence, stream, page>>

NoRequest == Request("none", "none")
Accepting == [at |-> "accept", request |-> NoRequest]
Ready == [at |-> "ready", request |-> NoRequest, value |-> 0]
Unopened == [at |-> "unopened", last |-> 0, upto |-> 0]
Broken == [Unopened EXCEPT !.at = "broken"]

(* What a page shows, refreshInFlight, refreshQueued; whether it ignored   *)
(* an event since its last refresh and whether that refresh failed         *)
(* (history); how often its stream may break; submitting and completed.    *)
Blank == [shows |-> 0, fetching |-> FALSE, again |-> FALSE, missed |-> FALSE,
          failed |-> FALSE, drops |-> 0, form |-> "editing"]

TypeOK ==
    /\ arrived \subseteq Requests /\ unsent \subseteq ClientRequests
    /\ acceptor \in [at : {"accept", "admit", "notify"},
                     request : Requests \cup {NoRequest}]
    /\ queue \in Seq(Requests)
    /\ worker \in [Workers ->
           [at : {"ready", "asleep", "running", "silent", "waiting", "committed",
                  "answering", "replying", "done"},
            request : Requests \cup {NoRequest}, value : Nat]]
    /\ freeItems \in Nat /\ items \in Nat
    /\ node \in [Publications -> {"idle", "posted", "calling", "allowed", "refused"}]
    /\ version \in Nat /\ announced \in Nat
    /\ silences \in Nat /\ sequence \in Nat
    /\ stream \in [Pages -> [at : {"unopened", "opening", "broken", "sync", "waiting", "writing"},
                             last : Nat, upto : Nat]]
    /\ page \in [Pages -> [shows : Nat, fetching : BOOLEAN, again : BOOLEAN,
                           missed : BOOLEAN, failed : BOOLEAN, drops : Nat,
                           form : {"editing", "submitting", "completed"}]]

Init ==
    /\ arrived = {}
    /\ acceptor = Accepting
    /\ queue = <<>>
    /\ worker = [w \in Workers |-> Ready]
    /\ freeItems = Prealloc /\ items = Prealloc
    /\ node = [p \in Publications |-> "idle"]
    /\ version = 0 /\ announced = 0 /\ sequence = 0
    /\ stream = [g \in Pages |-> Unopened]
    /\ \E load \in Loads :
           /\ unsent = load.send /\ silences = load.silences
           /\ page = [g \in Pages |-> [Blank EXCEPT !.drops = load.drops]]

-----------------------------------------------------------------------------
(* Clients.                                                                *)
Send(r) ==
    /\ r \in unsent /\ r.kind # "submit"
    /\ unsent' = unsent \ {r} /\ arrived' = arrived \cup {r}
    /\ UNCHANGED <<acceptor, poolVars, node, version, silences, pageVars>>

(* submit: the participant's page sends its form ...                       *)
Submit(g) ==
    /\ Request("submit", g) \in unsent
    /\ stream[g].at # "unopened" /\ page[g].form = "editing"
    /\ page' = [page EXCEPT ![g].form = "submitting"]
    /\ unsent' = unsent \ {Request("submit", g)}
    /\ arrived' = arrived \cup {Request("submit", g)}
    /\ UNCHANGED <<acceptor, poolVars, node, version, announced, silences, sequence, stream>>

(* ... and hears of it, unless it has given up before: the form is done,   *)
(* or can be sent again.  What came up in between is not looked at.        *)
Submitted(g, form) ==
    page' = [page EXCEPT ![g].form = IF @ = "submitting" THEN form ELSE @]

(* RECORD_TIMEOUT.                                                         *)
SubmitTimesOut(g) ==
    /\ page[g].form = "submitting"
    /\ Submitted(g, "editing")
    /\ UNCHANGED <<arrived, unsent, acceptor, poolVars, node, version, announced, silences,
                   sequence, stream>>

(* clearForm, and selectBatch: the done form makes room for another.       *)
ClearForm(g) ==
    /\ page[g].form = "completed"
    /\ page' = [page EXCEPT ![g].form = "editing"]
    /\ UNCHANGED <<arrived, unsent, acceptor, poolVars, node, version, announced, silences,
                   sequence, stream>>

(* A browser opens its event stream again when it broke or was refused.    *)
Reconnect(g) ==
    /\ stream[g].at = "broken"
    /\ stream' = [stream EXCEPT ![g].at = "opening"]
    /\ arrived' = arrived \cup {Request("events", g)}
    /\ UNCHANGED <<unsent, acceptor, poolVars, node, version, announced, silences, sequence, page>>

StartRefresh(g) ==
    /\ page' = [page EXCEPT ![g].fetching = TRUE, ![g].missed = FALSE]
    /\ arrived' = arrived \cup {Request("read", g)}


(* An event reaches the page.  With the form done it is ignored; during a  *)
(* refresh, or while the form is sent, another refresh is put down for     *)
(* later; otherwise a refresh starts.                                      *)
Noticed(g) ==
    \/ /\ page[g].form = "completed"
       /\ page' = [page EXCEPT ![g].missed = TRUE]
       /\ UNCHANGED arrived
    \/ /\ page[g].form # "completed"
       /\ page[g].fetching \/ page[g].form = "submitting"
       /\ page' = [page EXCEPT ![g].again = TRUE]
       /\ UNCHANGED arrived
    \/ /\ page[g].form = "editing" /\ ~page[g].fetching
       /\ StartRefresh(g)

(* A refresh ends, with an answer or without.  Only here a refresh put     *)
(* down for later is taken up, if the form is neither being sent nor done. *)
Refreshed(g, result) ==
    LET again == page[g].again /\ page[g].form = "editing"
    IN  /\ page' = [page EXCEPT ![g] =
               [result EXCEPT !.fetching = again, !.again = @ /\ ~again, !.missed = @ /\ ~again]]
        /\ arrived' = arrived \cup (IF again THEN {Request("read", g)} ELSE {})

(* What a client makes of a request that is refused or breaks off.         *)
Unanswered(q) ==
    /\ node' = [p \in Publications |->
           IF q = Request("callback", p) THEN "refused" ELSE node[p]]
    /\ stream' = [g \in Pages |-> IF q = Request("events", g) THEN Broken ELSE stream[g]]
    /\ CASE q.kind = "read" -> Refreshed(q.of, [page[q.of] EXCEPT !.failed = TRUE])
         [] q.kind = "submit" -> Submitted(q.of, "editing") /\ UNCHANGED arrived
         [] OTHER -> UNCHANGED <<page, arrived>>

(* The events after one that the hub still has.                            *)
Oldest(last) == IF sequence - RingSize > last THEN sequence - RingSize + 1
                                              ELSE last + 1

(* stream_live_events: first state_sync, with the ID of the latest event,  *)
(* then whatever after() returns, each time the hub has something newer.   *)
Synchronize(g) ==
    /\ stream[g].at = "sync"
    /\ stream' = [stream EXCEPT ![g] = [at |-> "waiting", last |-> sequence, upto |-> 0]]
    /\ Noticed(g)
    /\ UNCHANGED <<unsent, acceptor, poolVars, node, version, announced, silences, sequence>>

Collect(g) ==
    /\ stream[g].at = "waiting" /\ sequence > stream[g].last
    /\ stream' = [stream EXCEPT ![g] =
           [at |-> "writing", last |-> Oldest(@.last) - 1, upto |-> sequence]]
    /\ UNCHANGED <<arrived, unsent, acceptor, poolVars, node, version, announced, silences,
                   sequence, page>>

Write(g) ==
    /\ stream[g].at = "writing"
    /\ stream' = [stream EXCEPT ![g].last = @ + 1,
           ![g].at = IF stream[g].last + 1 = stream[g].upto THEN "waiting" ELSE @]
    /\ Noticed(g)
    /\ UNCHANGED <<unsent, acceptor, poolVars, node, version, announced, silences, sequence>>

Drop(g) ==
    /\ stream[g].at \in {"sync", "waiting", "writing"} /\ page[g].drops > 0
    /\ stream' = [stream EXCEPT ![g] = Broken]
    /\ page' = [page EXCEPT ![g].drops = @ - 1]
    /\ UNCHANGED <<arrived, unsent, acceptor, poolVars, node, version, announced, silences, sequence>>

-----------------------------------------------------------------------------
(* ThreadPool::submit, called by the accept loop.  First the work item,    *)
(* from the free list or a new chunk, without the pool's mutex.            *)
Accept(r) ==
    /\ acceptor.at = "accept" /\ r \in arrived
    /\ acceptor' = [at |-> "admit", request |-> r]
    /\ IF freeItems > 0
       THEN freeItems' = freeItems - 1 /\ UNCHANGED items
       ELSE freeItems' = MoreItems - 1 /\ items' = items + MoreItems
    /\ arrived' = arrived \ {r}
    /\ UNCHANGED <<unsent, queue, worker, node, version, silences, pageVars>>

(* Then, under the mutex, the place in the queue.                          *)
Enqueue ==
    /\ acceptor.at = "admit" /\ Len(queue) < MaxQueue
    /\ queue' = Append(queue, acceptor.request)
    /\ acceptor' = [Accepting EXCEPT !.at = "notify"]
    /\ UNCHANGED <<arrived, unsent, worker, freeItems, items, node, version, silences, pageVars>>

(* Or there is none: 503, the item goes back, and the client copes.        *)
Refuse ==
    /\ acceptor.at = "admit" /\ Len(queue) >= MaxQueue
    /\ freeItems' = freeItems + 1
    /\ acceptor' = Accepting
    /\ Unanswered(acceptor.request)
    /\ UNCHANGED <<unsent, queue, worker, items, version, announced, silences, sequence>>

(* notify_one, after the mutex was released.                               *)
Asleep == {w \in Workers : worker[w].at = "asleep"}
Notify ==
    /\ acceptor.at = "notify"
    /\ acceptor' = Accepting
    /\ \/ Asleep = {} /\ UNCHANGED worker
       \/ \E w \in Asleep : worker' = [worker EXCEPT ![w].at = "ready"]
    /\ UNCHANGED <<arrived, unsent, queue, freeItems, items, node, version, silences, pageVars>>

(* worker_loop: the predicate is evaluated under the mutex.                *)
Take(w) ==
    /\ worker[w].at = "ready" /\ queue # <<>>
    /\ worker' = [worker EXCEPT ![w] = [@ EXCEPT !.at = "running",
           !.request = Head(queue)]]
    /\ queue' = Tail(queue)
    /\ UNCHANGED <<arrived, unsent, acceptor, freeItems, items, node, version, silences, pageVars>>

(* Mutant of FallAsleep: a wait without the predicate.                     *)
FallAsleepUntested(w) ==
    /\ worker[w].at = "ready"
    /\ worker' = [worker EXCEPT ![w].at = "asleep"]
    /\ UNCHANGED <<arrived, unsent, acceptor, queue, freeItems, items, node,
                   version, silences, pageVars>>

FallAsleep(w) ==
    /\ worker[w].at = "ready" /\ queue = <<>>
    /\ worker' = [worker EXCEPT ![w].at = "asleep"]
    /\ UNCHANGED <<arrived, unsent, acceptor, queue, freeItems, items, node,
                   version, silences, pageVars>>

Runs(w, kind) == worker[w].at = "running" /\ worker[w].request.kind = kind
Moves(w, at) == worker' = [worker EXCEPT ![w].at = at]

-----------------------------------------------------------------------------
(* A peer says nothing, for as long as it likes, then goes on or hangs up. *)
FallSilent(w) ==
    /\ worker[w].at = "running" /\ silences > 0
    /\ silences' = silences - 1
    /\ Moves(w, "silent")
    /\ UNCHANGED <<arrived, unsent, acceptor, queue, freeItems, items, node, version, pageVars>>

Resume(w) ==
    /\ worker[w].at = "silent"
    /\ Moves(w, "running")
    /\ UNCHANGED <<arrived, unsent, acceptor, queue, freeItems, items, node, version, silences,
                   pageVars>>

HangUp(w) ==
    /\ worker[w].at = "silent"
    /\ Moves(w, "done")
    /\ Unanswered(worker[w].request)
    /\ UNCHANGED <<unsent, acceptor, queue, freeItems, items, version, announced, silences, sequence>>

-----------------------------------------------------------------------------
(* The tasks.  A change, and the Block of a form, are committed before     *)
(* they are announced.                                                     *)
Commit(w) ==
    /\ Runs(w, "change") \/ Runs(w, "submit")
    /\ version' = version + 1
    /\ Moves(w, "committed")
    /\ UNCHANGED <<arrived, unsent, acceptor, queue, freeItems, items, node, silences, pageVars>>

(* The policies of a saved route, or the list of saved settings, cannot be *)
(* written or read: 500, and nothing is announced.                         *)
CommitSilently(w) ==
    /\ Runs(w, "change")
    /\ version' = version + 1
    /\ Moves(w, "done")
    /\ UNCHANGED <<arrived, unsent, acceptor, queue, freeItems, items, node, silences, pageVars>>

Announce(w) ==
    /\ worker[w].at = "committed"
    /\ sequence' = sequence + 1 /\ announced' = version
    /\ Moves(w, IF worker[w].request.kind = "submit" THEN "answering" ELSE "done")
    /\ UNCHANGED <<arrived, unsent, acceptor, queue, freeItems, items, node, version, silences,
                   stream, page>>

(* The page of a form is told, of its Block or of what was wrong.          *)
Answer(w, form) ==
    /\ Submitted(worker[w].request.of, form)
    /\ Moves(w, "done")
    /\ UNCHANGED <<arrived, unsent, acceptor, queue, freeItems, items, node, version, announced,
                   silences, sequence, stream>>

AnswerSubmit(w) == worker[w].at = "answering" /\ Answer(w, "completed")
Reject(w) == Runs(w, "submit") /\ Answer(w, "editing")

(* post_publication_candidate waits for the node service, which asks for   *)
(* the route state before it answers.                                      *)
Post(w) ==
    /\ Runs(w, "publication")
    /\ node' = [node EXCEPT ![worker[w].request.of] = "posted"]
    /\ Moves(w, "waiting")
    /\ UNCHANGED <<arrived, unsent, acceptor, queue, freeItems, items, version, silences, pageVars>>

CallBack(p) ==
    /\ node[p] = "posted"
    /\ node' = [node EXCEPT ![p] = "calling"]
    /\ arrived' = arrived \cup {Request("callback", p)}
    /\ UNCHANGED <<unsent, acceptor, poolVars, version, silences, pageVars>>

AnswerCallback(w) ==
    /\ Runs(w, "callback")
    /\ node' = [node EXCEPT ![worker[w].request.of] = "allowed"]
    /\ Moves(w, "done")
    /\ UNCHANGED <<arrived, unsent, acceptor, queue, freeItems, items, version, silences, pageVars>>

(* The service published, or the route state could not be had.             *)
Published(w) ==
    /\ worker[w].at = "waiting" /\ node[worker[w].request.of] = "allowed"
    /\ version' = version + 1
    /\ Moves(w, "committed")
    /\ UNCHANGED <<arrived, unsent, acceptor, queue, freeItems, items, node, silences, pageVars>>

NotPublished(w) ==
    /\ worker[w].at = "waiting" /\ node[worker[w].request.of] = "refused"
    /\ Moves(w, "done")
    /\ UNCHANGED <<arrived, unsent, acceptor, queue, freeItems, items, node,
                   version, silences, pageVars>>

(* Mutant of TimeOut: the socket has no time limit.                        *)
TimeOutNever(w) == FALSE /\ UNCHANGED vars

(* SO_RCVTIMEO: ten seconds without an answer.                             *)
TimeOut(w) ==
    /\ worker[w].at = "waiting" /\ node[worker[w].request.of] \notin {"allowed", "refused"}
    /\ Moves(w, "done")
    /\ UNCHANGED <<arrived, unsent, acceptor, queue, freeItems, items, node,
                   version, silences, pageVars>>

(* GET /api/events: a detached thread takes the connection over.           *)
OpenStream(w) ==
    /\ Runs(w, "events")
    /\ stream' = [stream EXCEPT ![worker[w].request.of].at = "sync"]
    /\ Moves(w, "done")
    /\ UNCHANGED <<arrived, unsent, acceptor, queue, freeItems, items, node, version, announced,
                   silences, sequence, page>>

Read(w) ==
    /\ Runs(w, "read")
    /\ worker' = [worker EXCEPT ![w].at = "replying", ![w].value = version]
    /\ UNCHANGED <<arrived, unsent, acceptor, queue, freeItems, items, node,
                   version, silences, pageVars>>

Reply(w) ==
    LET g == worker[w].request.of
    IN  /\ worker[w].at = "replying"
        /\ Refreshed(g, [page[g] EXCEPT !.shows = worker[w].value, !.failed = FALSE])
        /\ Moves(w, "done")
        /\ UNCHANGED <<unsent, acceptor, queue, freeItems, items, node, version, announced,
                       silences, sequence, stream>>

(* Mutant of Finish: the work item is not given back.                      *)
FinishKeepingItem(w) ==
    /\ worker[w].at = "done"
    /\ worker' = [worker EXCEPT ![w] = Ready]
    /\ UNCHANGED <<arrived, unsent, acceptor, queue, freeItems, items, node, version,
                   silences, pageVars>>

(* The end of the round: the work item goes back to the pool.              *)
Finish(w) ==
    /\ worker[w].at = "done"
    /\ freeItems' = freeItems + 1
    /\ worker' = [worker EXCEPT ![w] = Ready]
    /\ UNCHANGED <<arrived, unsent, acceptor, queue, items, node, version, silences, pageVars>>

-----------------------------------------------------------------------------
Acceptor == (\E r \in arrived : Accept(r)) \/ Enqueue \/ Refuse \/ Notify
Handle(w) ==
    \/ Commit(w) \/ CommitSilently(w) \/ Announce(w) \/ AnswerSubmit(w) \/ Reject(w)
    \/ Post(w) \/ AnswerCallback(w) \/ Published(w) \/ NotPublished(w)
    \/ OpenStream(w) \/ Read(w) \/ Reply(w)
WorkerStep(w) == Take(w) \/ FallAsleep(w) \/ Handle(w) \/ Finish(w)
PeerStep(w) == FallSilent(w) \/ Resume(w) \/ HangUp(w)
StreamStep(g) == Synchronize(g) \/ Collect(g) \/ Write(g)

Next ==
    \/ \E r \in unsent : Send(r)
    \/ \E g \in Pages : \/ Submit(g) \/ SubmitTimesOut(g) \/ ClearForm(g)
                        \/ Reconnect(g) \/ StreamStep(g) \/ Drop(g)
    \/ Acceptor
    \/ \E w \in Workers : WorkerStep(w) \/ TimeOut(w) \/ PeerStep(w)
    \/ \E p \in Publications : CallBack(p)

(* Threads that can run do, the node service calls back, and browsers open *)
(* their streams again.  Nothing is assumed of a silent peer, nor of the   *)
(* participant.  A publication that has waited long enough is given up;    *)
(* that it must be is assumed only while no worker is left to answer it.   *)
NoWorkerLeft == \A w \in Workers : worker[w].at \in {"waiting", "silent"}
Fairness ==
    /\ WF_vars(Acceptor)
    /\ \A w \in Workers : WF_vars(WorkerStep(w))
    /\ WF_vars(NoWorkerLeft /\ \E w \in Workers : TimeOut(w))
    /\ WF_vars(\E p \in Publications : CallBack(p))
    /\ \A g \in Pages : WF_vars(Reconnect(g) \/ StreamStep(g))

Spec == Init /\ [][Next]_vars /\ Fairness

-----------------------------------------------------------------------------
(* Every work item is with the free list, the accept loop, a queued        *)
(* request or a worker: none is lost when a request is refused or a task   *)
(* ends, and none is given back twice.                                     *)
Holding == {w \in Workers : worker[w].request # NoRequest}
ItemsAreConserved ==
    items = freeItems + Len(queue) + Cardinality(Holding)
                + (IF acceptor.at = "admit" THEN 1 ELSE 0)

(* No wake is lost: when work is queued, a worker is up, or the accept     *)
(* loop is about to wake one.                                              *)
NeverAsleepWithWork ==
    queue # <<>> => Asleep # Workers \/ acceptor.at = "notify"

Silent == {w \in Workers : worker[w].at = "silent"}

(* Every request that was admitted leaves the pool again, so that a finite *)
(* load leaves in it only the requests of silent peers, though publish     *)
(* handlers hold workers while the service needs one to answer them.  Only *)
(* as many silent peers as there are workers stop the server: no time      *)
(* limit gives one of those workers back.                                  *)
AdmittedIsServed == <>[](Silent = Workers) \/ []<>(queue = <<>> /\ Holding = Silent)

(* Where the request that would refresh the page, or open its stream, may  *)
(* stay for good.                                                          *)
HeldUp(g) ==
    \/ Silent = Workers
    \/ \E w \in Silent : worker[w].request \in {Request("read", g), Request("events", g)}

(* A page has what was announced, or none of its business with the server  *)
(* is going on: it is not open, its last refresh failed (503, a hang-up),  *)
(* its form is under way or done.                                          *)
UpToDate(g) ==
    \/ page[g].shows >= announced
    \/ stream[g].at = "unopened" \/ page[g].failed \/ page[g].form # "editing"

=============================================================================
