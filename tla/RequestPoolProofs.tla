--------------------------- MODULE RequestPoolProofs ---------------------------
(***************************************************************************)
(* Proofs about RequestPool, for any number of workers, requests and       *)
(* pages: the types, the accounting of work items and the wakes of the     *)
(* workers.                                                                *)
(***************************************************************************)
EXTENDS RequestPool, FiniteSetTheorems, SequenceTheorems, TLAPS

Resting == {"ready", "asleep"}
WorkerAts == {"ready", "asleep", "running", "silent", "waiting", "committed", "answering",
              "replying", "done"}
WorkerState == [at : WorkerAts, request : Requests \cup {NoRequest}, value : Nat]
StreamState == [at : {"unopened", "opening", "broken", "sync", "waiting", "writing"},
                last : Nat, upto : Nat]
PageState == [shows : Nat, fetching : BOOLEAN, again : BOOLEAN, missed : BOOLEAN,
              failed : BOOLEAN, drops : Nat,
              form : {"editing", "submitting", "completed"}]
NodeState == [Publications -> {"idle", "posted", "calling", "allowed", "refused"}]

(* A worker has a request exactly while it is up for one, the accept loop  *)
(* while it submits one; only a read is replied to.                        *)
HandlingInv ==
    /\ acceptor.at = "admit" => acceptor.request \in Requests
    /\ \A w \in Workers :
           /\ worker[w].at \in Resting <=> worker[w].request = NoRequest
           /\ worker[w].at = "replying" => worker[w].request.kind = "read"

IInv == TypeOK /\ HandlingInv /\ ItemsAreConserved /\ NeverAsleepWithWork

-----------------------------------------------------------------------------
(* Requests of different kinds differ, and no request is none.             *)
LEMMA RequestKinds ==
    /\ NoRequest \notin Requests
    /\ \A g \in Pages : /\ Request("read", g) \in Requests
                         /\ Request("events", g) \in Requests /\ Request("submit", g) \in Requests
    /\ \A p \in Publications : Request("callback", p) \in Requests
    /\ \A r \in Requests : r.kind = "read" => r.of \in Pages /\ r = Request("read", r.of)
    /\ ClientRequests \subseteq Requests
<1>1. NoRequest \notin Requests
  BY DEF Request, Requests, ClientRequests, NoRequest
<1>2. ASSUME NEW r \in Requests, r.kind = "read"
      PROVE  r.of \in Pages /\ r = Request("read", r.of)
  <2>1. PICK g \in Pages : r = Request("read", g)
    BY <1>2 DEF Request, Requests, ClientRequests
  <2> QED BY <2>1 DEF Request
<1>3. /\ \A g \in Pages : /\ Request("read", g) \in Requests
                           /\ Request("events", g) \in Requests /\ Request("submit", g) \in Requests
      /\ \A p \in Publications : Request("callback", p) \in Requests
      /\ ClientRequests \subseteq Requests
  BY DEF Requests, ClientRequests
<1> QED BY <1>1, <1>2, <1>3

(* A refresh of a page starts, an event reaches it, one of its forms ends. *)
LEMMA StartRefreshTyped ==
    ASSUME page \in [Pages -> PageState], arrived \subseteq Requests,
           NEW g \in Pages, StartRefresh(g)
    PROVE  page' \in [Pages -> PageState] /\ arrived' \subseteq Requests
<1>1. [page[g] EXCEPT !.fetching = TRUE, !.missed = FALSE] \in PageState
  BY DEF PageState
<1>2. page' = [page EXCEPT ![g] = [page[g] EXCEPT !.fetching = TRUE, !.missed = FALSE]]
  BY DEF StartRefresh
<1> QED BY <1>1, <1>2, RequestKinds DEF StartRefresh

LEMMA NoticedTyped ==
    ASSUME page \in [Pages -> PageState], arrived \subseteq Requests,
           NEW g \in Pages, Noticed(g)
    PROVE  page' \in [Pages -> PageState] /\ arrived' \subseteq Requests
<1>1. /\ [page[g] EXCEPT !.again = TRUE] \in PageState
      /\ [page[g] EXCEPT !.missed = TRUE] \in PageState
  BY DEF PageState
<1>2. CASE page' = [page EXCEPT ![g].missed = TRUE] /\ UNCHANGED arrived
  BY <1>1, <1>2
<1>3. CASE page' = [page EXCEPT ![g].again = TRUE] /\ UNCHANGED arrived
  BY <1>1, <1>3
<1>4. CASE StartRefresh(g)
  BY <1>4, StartRefreshTyped
<1> QED BY <1>2, <1>3, <1>4 DEF Noticed

LEMMA SubmittedTyped ==
    ASSUME page \in [Pages -> PageState],
           NEW g, NEW form \in {"editing", "completed"}, Submitted(g, form)
    PROVE  page' \in [Pages -> PageState]
<1>1. CASE g \in Pages
  <2> DEFINE x == [page[g] EXCEPT !.form = IF page[g].form = "submitting"
                                           THEN form ELSE page[g].form]
  <2>1. x \in PageState
    <3>1. page[g] \in PageState
      BY <1>1
    <3>2. (IF page[g].form = "submitting" THEN form ELSE page[g].form)
              \in {"editing", "submitting", "completed"}
      BY <3>1 DEF PageState
    <3> QED BY <3>1, <3>2 DEF PageState
  <2>2. page' = [page EXCEPT ![g] = x]
    BY DEF Submitted
  <2> HIDE DEF x
  <2> QED BY <1>1, <2>1, <2>2
<1>2. CASE g \notin Pages
  BY <1>2 DEF Submitted
<1> QED BY <1>1, <1>2

(* A refresh of a page ends.                                               *)
LEMMA RefreshedTyped ==
    ASSUME page \in [Pages -> PageState], arrived \subseteq Requests,
           NEW g \in Pages, NEW result \in PageState, Refreshed(g, result)
    PROVE  page' \in [Pages -> PageState] /\ arrived' \subseteq Requests
<1> DEFINE again == page[g].again /\ page[g].form = "editing"
           x == [result EXCEPT !.fetching = again, !.again = result.again /\ ~again,
                               !.missed = result.missed /\ ~again]
<1>1. again \in BOOLEAN
  OBVIOUS
<1>2. page' = [page EXCEPT ![g] = x]
  BY DEF Refreshed
<1>3. arrived' \subseteq Requests
  BY RequestKinds DEF Refreshed
<1> HIDE DEF again
<1>4. x \in PageState
  BY <1>1 DEF PageState
<1> HIDE DEF x
<1> QED BY <1>2, <1>3, <1>4

(* A request is refused, or its connection breaks off.                     *)
LEMMA UnansweredTyped ==
    ASSUME page \in [Pages -> PageState], arrived \subseteq Requests,
           stream \in [Pages -> StreamState], node \in NodeState,
           NEW q \in Requests, Unanswered(q)
    PROVE  /\ page' \in [Pages -> PageState] /\ arrived' \subseteq Requests
           /\ stream' \in [Pages -> StreamState] /\ node' \in NodeState
<1>1. stream' \in [Pages -> StreamState]
  <2>1. Broken \in StreamState
    BY DEF Broken, Unopened, StreamState
  <2> QED BY <2>1 DEF Unanswered
<1>2. node' \in NodeState
  BY DEF Unanswered, NodeState
<1>3. page' \in [Pages -> PageState] /\ arrived' \subseteq Requests
  <2>1. CASE q.kind = "read"
    <3>1. q.of \in Pages
      BY <2>1, RequestKinds
    <3>2. page[q.of] \in PageState
      BY <3>1
    <3>3. [page[q.of] EXCEPT !.failed = TRUE] \in PageState
      BY <3>2 DEF PageState
    <3>4. Refreshed(q.of, [page[q.of] EXCEPT !.failed = TRUE])
      BY <2>1 DEF Unanswered
    <3> QED BY <3>1, <3>3, <3>4, RefreshedTyped
  <2>2. CASE q.kind = "submit"
    <3>1. Submitted(q.of, "editing") /\ UNCHANGED arrived
      BY <2>2 DEF Unanswered
    <3> QED BY <3>1, SubmittedTyped
  <2>3. CASE q.kind \notin {"read", "submit"}
    BY <2>3 DEF Unanswered
  <2> QED BY <2>1, <2>2, <2>3
<1> QED BY <1>1, <1>2, <1>3

(* A worker goes on with the request it has.                               *)
LEMMA GoesOn ==
    ASSUME worker \in [Workers -> WorkerState], HandlingInv, UNCHANGED acceptor,
           NEW w \in Workers, NEW x \in WorkerState,
           worker[w].at \notin Resting, x.at \notin Resting,
           x.at = "replying" => x.request.kind = "read",
           x.request = worker[w].request,
           worker' = [worker EXCEPT ![w] = x]
    PROVE  /\ worker' \in [Workers -> WorkerState] /\ HandlingInv'
           /\ Holding' = Holding /\ Asleep' = Asleep
<1>1. worker'[w] = x /\ \A u \in Workers \ {w} : worker'[u] = worker[u]
  OBVIOUS
<1>2. worker' \in [Workers -> WorkerState]
  OBVIOUS
<1>3. \A u \in Workers : worker'[u].request = worker[u].request
  BY <1>1
<1>4. HandlingInv'
  BY <1>1, <1>3 DEF HandlingInv
<1>5. Holding' = Holding
  BY <1>3 DEF Holding
<1>6. Asleep' = Asleep
  BY <1>1 DEF Asleep, Resting
<1> QED BY <1>2, <1>4, <1>5, <1>6

LEMMA Moved ==
    ASSUME worker \in [Workers -> WorkerState], HandlingInv, UNCHANGED acceptor,
           NEW w \in Workers, NEW at \in WorkerAts \ (Resting \cup {"replying"}),
           worker[w].at \notin Resting, Moves(w, at)
    PROVE  /\ worker' \in [Workers -> WorkerState] /\ HandlingInv'
           /\ Holding' = Holding /\ Asleep' = Asleep
<1> DEFINE x == [worker[w] EXCEPT !.at = at]
<1>1. x \in WorkerState /\ x.at = at /\ x.request = worker[w].request
  BY DEF WorkerState
<1>2. worker' = [worker EXCEPT ![w] = x]
  BY DEF Moves
<1> HIDE DEF x
<1> QED BY <1>1, <1>2, GoesOn

-----------------------------------------------------------------------------
(* The types, in the names used here.                                      *)
Typed ==
    /\ arrived \subseteq Requests /\ unsent \subseteq ClientRequests
    /\ acceptor \in [at : {"accept", "admit", "notify"}, request : Requests \cup {NoRequest}]
    /\ queue \in Seq(Requests)
    /\ worker \in [Workers -> WorkerState]
    /\ freeItems \in Nat /\ items \in Nat
    /\ node \in NodeState
    /\ version \in Nat /\ announced \in Nat
    /\ silences \in Nat /\ sequence \in Nat
    /\ stream \in [Pages -> StreamState]
    /\ page \in [Pages -> PageState]

LEMMA TypedIsTypeOK == TypeOK <=> Typed
BY DEF TypeOK, Typed, WorkerState, WorkerAts, StreamState, PageState, NodeState

(* What the invariant says when the pool itself stays as it is.            *)
LEMMA PoolStays ==
    ASSUME ItemsAreConserved, NeverAsleepWithWork,
           UNCHANGED <<acceptor, queue, freeItems, items>>,
           Holding' = Holding, Asleep' = Asleep
    PROVE  ItemsAreConserved' /\ NeverAsleepWithWork'
BY DEF ItemsAreConserved, NeverAsleepWithWork

(* Clients, pages and the node service leave the pool alone.               *)
LEMMA OutsideKeeps ==
    ASSUME IInv,
           \/ \E r \in unsent : Send(r)
           \/ \E g \in Pages : \/ Submit(g) \/ SubmitTimesOut(g) \/ ClearForm(g)
                               \/ Reconnect(g) \/ StreamStep(g) \/ Drop(g)
           \/ \E p \in Publications : CallBack(p)
    PROVE  IInv'
<1>0. Typed /\ HandlingInv /\ ItemsAreConserved /\ NeverAsleepWithWork
  BY TypedIsTypeOK DEF IInv
<1> DEFINE Goal == Typed' /\ UNCHANGED <<acceptor, queue, worker, freeItems, items>>
<1>1. ASSUME NEW r \in unsent, Send(r)
      PROVE  Goal
  BY <1>0, <1>1, RequestKinds DEF Send, poolVars, pageVars, Typed
<1>2. ASSUME NEW g \in Pages, Reconnect(g)
      PROVE  Goal
  <2>1. [stream[g] EXCEPT !.at = "opening"] \in StreamState
    BY <1>0 DEF Typed, StreamState
  <2>2. stream' \in [Pages -> StreamState]
    BY <1>0, <1>2, <2>1 DEF Reconnect, Typed
  <2> QED BY <1>0, <1>2, <2>2, RequestKinds DEF Reconnect, poolVars, Typed
<1>3. ASSUME NEW g \in Pages, Synchronize(g)
      PROVE  Goal
  <2>1. [at |-> "waiting", last |-> sequence, upto |-> 0] \in StreamState
    BY <1>0 DEF Typed, StreamState
  <2>2. stream' \in [Pages -> StreamState]
    BY <1>0, <1>3, <2>1 DEF Synchronize, Typed
  <2>3. page' \in [Pages -> PageState] /\ arrived' \subseteq Requests
    BY <1>0, <1>3, NoticedTyped DEF Synchronize, Typed
  <2> QED BY <1>0, <1>3, <2>2, <2>3 DEF Synchronize, poolVars, Typed
<1>4. ASSUME NEW g \in Pages, Collect(g)
      PROVE  Goal
  <2>1. /\ stream[g].last \in Nat /\ sequence \in Nat /\ RingSize \in Nat
        /\ Oldest(stream[g].last) - 1 \in Nat
    BY <1>0, PoolAssumption DEF Typed, StreamState, Oldest
  <2>2. [at |-> "writing", last |-> Oldest(stream[g].last) - 1, upto |-> sequence] \in StreamState
    BY <2>1 DEF StreamState
  <2>3. stream' \in [Pages -> StreamState]
    BY <1>0, <1>4, <2>2 DEF Collect, Typed
  <2> QED BY <1>0, <1>4, <2>3 DEF Collect, poolVars, Typed
<1>5. ASSUME NEW g \in Pages, Write(g)
      PROVE  Goal
  <2> DEFINE x == [stream[g] EXCEPT !.last = @ + 1,
                       !.at = IF stream[g].last + 1 = stream[g].upto THEN "waiting" ELSE @]
  <2>1. x \in StreamState
    <3>1. stream[g] \in StreamState /\ stream[g].last + 1 \in Nat
      BY <1>0 DEF Typed, StreamState
    <3>2. (IF stream[g].last + 1 = stream[g].upto THEN "waiting" ELSE stream[g].at)
              \in {"unopened", "opening", "broken", "sync", "waiting", "writing"}
      BY <3>1 DEF StreamState
    <3> QED BY <3>1, <3>2 DEF StreamState
  <2>2. stream' = [stream EXCEPT ![g] = x]
    BY <1>5 DEF Write
  <2> HIDE DEF x
  <2>3. stream' \in [Pages -> StreamState]
    BY <1>0, <2>1, <2>2 DEF Typed
  <2>4. page' \in [Pages -> PageState] /\ arrived' \subseteq Requests
    BY <1>0, <1>5, NoticedTyped DEF Write, Typed
  <2> QED BY <1>0, <1>5, <2>3, <2>4 DEF Write, poolVars, Typed
<1>6. ASSUME NEW g \in Pages, Drop(g)
      PROVE  Goal
  <2>1. Broken \in StreamState
    BY DEF Broken, Unopened, StreamState
  <2>4. page[g] \in PageState /\ page[g].drops > 0
    BY <1>0, <1>6 DEF Drop, Typed
  <2>5. page[g].drops - 1 \in Nat
    BY <2>4 DEF PageState
  <2>2. [page[g] EXCEPT !.drops = page[g].drops - 1] \in PageState
    BY <2>4, <2>5 DEF PageState
  <2>3. stream' \in [Pages -> StreamState] /\ page' \in [Pages -> PageState]
    BY <1>0, <1>6, <2>1, <2>2 DEF Drop, Typed
  <2> QED BY <1>0, <1>6, <2>3 DEF Drop, poolVars, Typed
<1>7. ASSUME NEW p \in Publications, CallBack(p)
      PROVE  Goal
  <2>1. node' \in NodeState
    BY <1>0, <1>7 DEF CallBack, Typed, NodeState
  <2> QED BY <1>0, <1>7, <2>1, RequestKinds DEF CallBack, poolVars, pageVars, Typed
<1>8. ASSUME NEW g \in Pages, Submit(g)
      PROVE  Goal
  <2>1. [page[g] EXCEPT !.form = "submitting"] \in PageState
    BY <1>0 DEF Typed, PageState
  <2>2. page' \in [Pages -> PageState]
    BY <1>0, <1>8, <2>1 DEF Submit, Typed
  <2> QED BY <1>0, <1>8, <2>2, RequestKinds DEF Submit, poolVars, Typed
<1>9. ASSUME NEW g \in Pages, SubmitTimesOut(g)
      PROVE  Goal
  <2>1. page' \in [Pages -> PageState]
    BY <1>0, <1>9, SubmittedTyped DEF SubmitTimesOut, Typed
  <2> QED BY <1>0, <1>9, <2>1 DEF SubmitTimesOut, poolVars, Typed
<1>10. ASSUME NEW g \in Pages, ClearForm(g)
      PROVE  Goal
  <2>1. [page[g] EXCEPT !.form = "editing"] \in PageState
    BY <1>0 DEF Typed, PageState
  <2>2. page' \in [Pages -> PageState]
    BY <1>0, <1>10, <2>1 DEF ClearForm, Typed
  <2> QED BY <1>0, <1>10, <2>2 DEF ClearForm, poolVars, Typed
<1>11. Goal
  BY <1>1, <1>2, <1>3, <1>4, <1>5, <1>6, <1>7, <1>8, <1>9, <1>10 DEF StreamStep
<1>12. HandlingInv' /\ Holding' = Holding /\ Asleep' = Asleep
  BY <1>0, <1>11 DEF HandlingInv, Holding, Asleep
<1>13. TypeOK'
  BY <1>11, TypedIsTypeOK, PTL
<1> QED BY <1>0, <1>11, <1>12, <1>13, PoolStays DEF IInv

(* A task runs on the worker that took it and leaves the pool alone.       *)
LEMMA TasksKeep ==
    ASSUME IInv, NEW w \in Workers, Handle(w) \/ TimeOut(w) \/ PeerStep(w)
    PROVE  IInv'
<1>0. Typed /\ HandlingInv /\ ItemsAreConserved /\ NeverAsleepWithWork
      /\ worker \in [Workers -> WorkerState]
  BY TypedIsTypeOK DEF IInv, Typed
<1> DEFINE Rest == /\ worker' \in [Workers -> WorkerState] /\ HandlingInv'
                   /\ Holding' = Holding /\ Asleep' = Asleep
           Goal == Typed' /\ UNCHANGED <<acceptor, queue, freeItems, items>> /\ Rest
<1>1. ASSUME Commit(w) \/ Published(w)
      PROVE  Goal
  <2>1. Moves(w, "committed") /\ worker[w].at \notin Resting /\ UNCHANGED acceptor
    BY <1>1 DEF Commit, Published, Runs, Resting
  <2>2. "committed" \in WorkerAts \ (Resting \cup {"replying"})
    BY DEF WorkerAts, Resting
  <2>3. Rest
    BY <1>0, <2>1, <2>2, Moved
  <2> HIDE DEF Rest
  <2>4. Typed'
    <3>1. worker' \in [Workers -> WorkerState]
      BY <2>3 DEF Rest
    <3> QED BY <1>0, <1>1, <3>1 DEF Commit, Published, pageVars, Typed
  <2> QED BY <1>1, <2>3, <2>4 DEF Commit, Published
<1>2. ASSUME \/ CommitSilently(w) \/ AnswerCallback(w) \/ NotPublished(w)
             \/ OpenStream(w) \/ TimeOut(w)
      PROVE  Goal
  <2>1. Moves(w, "done") /\ worker[w].at \notin Resting /\ UNCHANGED acceptor
    BY <1>2 DEF CommitSilently, AnswerCallback, NotPublished, OpenStream, TimeOut, Runs, Resting
  <2>2. "done" \in WorkerAts \ (Resting \cup {"replying"})
    BY DEF WorkerAts, Resting
  <2>3. Rest
    BY <1>0, <2>1, <2>2, Moved
  <2>4. worker' \in [Workers -> WorkerState]
    BY <2>3
  <2> HIDE DEF Rest
  <2>5. \A g \in Pages : [stream[g] EXCEPT !.at = "sync"] \in StreamState
    <3>1. \A g \in Pages : stream[g] \in StreamState
      BY <1>0 DEF Typed
    <3> QED BY <3>1 DEF StreamState
  <2>6. ASSUME OpenStream(w)
        PROVE  stream' \in [Pages -> StreamState]
    <3> DEFINE g == worker[w].request.of
    <3>1. stream' = [stream EXCEPT ![g].at = "sync"]
      BY <2>6 DEF OpenStream
    <3> HIDE DEF g
    <3>2. stream \in [Pages -> StreamState]
      BY <1>0 DEF Typed
    <3>3. CASE g \in Pages
      <4>1. stream' = [stream EXCEPT ![g] = [stream[g] EXCEPT !.at = "sync"]]
        BY <3>1
      <4> QED BY <2>5, <3>2, <3>3, <4>1
    <3>4. CASE g \notin Pages
      BY <3>1, <3>2, <3>4
    <3> QED BY <3>3, <3>4
  <2>7. AnswerCallback(w) => node' \in NodeState
    BY <1>0 DEF AnswerCallback, Typed, NodeState
  <2>8. CASE CommitSilently(w)
    BY <1>0, <2>3, <2>4, <2>8 DEF CommitSilently, pageVars, Typed
  <2>9. CASE AnswerCallback(w)
    BY <1>0, <2>3, <2>4, <2>7, <2>9 DEF AnswerCallback, pageVars, Typed
  <2>10. CASE NotPublished(w) \/ TimeOut(w)
    BY <1>0, <2>3, <2>4, <2>10 DEF NotPublished, TimeOut, pageVars, Typed
  <2>11. CASE OpenStream(w)
    BY <1>0, <2>3, <2>4, <2>6, <2>11 DEF OpenStream, Typed
  <2> QED BY <1>2, <2>8, <2>9, <2>10, <2>11
<1>3. ASSUME Post(w)
      PROVE  Goal
  <2>1. Moves(w, "waiting") /\ worker[w].at \notin Resting /\ UNCHANGED acceptor
    BY <1>3 DEF Post, Runs, Resting
  <2>2. "waiting" \in WorkerAts \ (Resting \cup {"replying"})
    BY DEF WorkerAts, Resting
  <2>3. Rest
    BY <1>0, <2>1, <2>2, Moved
  <2>4. worker' \in [Workers -> WorkerState]
    BY <2>3
  <2> HIDE DEF Rest
  <2>5. node' \in NodeState
    BY <1>0, <1>3 DEF Post, Typed, NodeState
  <2> QED BY <1>0, <1>3, <2>3, <2>4, <2>5 DEF Post, pageVars, Typed
<1>4. ASSUME Read(w)
      PROVE  Goal
  <2> DEFINE x == [worker[w] EXCEPT !.at = "replying", !.value = version]
  <2>1. /\ worker[w] \in WorkerState /\ version \in Nat
        /\ worker[w].at = "running" /\ worker[w].request.kind = "read"
    BY <1>0, <1>4 DEF Read, Runs, Typed
  <2>2. x \in WorkerState /\ x.at = "replying" /\ x.request = worker[w].request
    BY <2>1 DEF WorkerState, WorkerAts
  <2>3. worker' = [worker EXCEPT ![w] = x] /\ UNCHANGED acceptor
    BY <1>4 DEF Read
  <2> HIDE DEF x
  <2>4. Rest
    BY <1>0, <2>1, <2>2, <2>3, GoesOn DEF Resting
  <2>5. worker' \in [Workers -> WorkerState]
    BY <2>4
  <2> HIDE DEF Rest
  <2> QED BY <1>0, <1>4, <2>4, <2>5 DEF Read, pageVars, Typed
<1>5. ASSUME Reply(w)
      PROVE  Goal
  <2>1. Moves(w, "done") /\ worker[w].at = "replying" /\ UNCHANGED acceptor
    BY <1>5 DEF Reply
  <2>2. "done" \in WorkerAts \ (Resting \cup {"replying"}) /\ "replying" \notin Resting
    BY DEF WorkerAts, Resting
  <2>3. Rest
    BY <1>0, <2>1, <2>2, Moved
  <2>4. worker' \in [Workers -> WorkerState]
    BY <2>3
  <2> HIDE DEF Rest
  <2> DEFINE g == worker[w].request.of
  <2>5. worker[w] \in WorkerState /\ worker[w].request # NoRequest
        /\ worker[w].request.kind = "read"
    BY <1>0, <2>1, <2>2 DEF HandlingInv
  <2>6. g \in Pages /\ worker[w].value \in Nat
    BY <2>5, RequestKinds DEF WorkerState
  <2>7. Refreshed(g, [page[g] EXCEPT !.shows = worker[w].value, !.failed = FALSE])
    BY <1>5 DEF Reply
  <2> HIDE DEF g
  <2>8. [page[g] EXCEPT !.shows = worker[w].value, !.failed = FALSE] \in PageState
    BY <1>0, <2>6 DEF Typed, PageState
  <2>9. page' \in [Pages -> PageState] /\ arrived' \subseteq Requests
    BY <1>0, <2>6, <2>7, <2>8, RefreshedTyped DEF Typed
  <2> QED BY <1>0, <1>5, <2>3, <2>4, <2>9 DEF Reply, Typed
<1>6. ASSUME Announce(w)
      PROVE  Goal
  <2> DEFINE at == IF worker[w].request.kind = "submit" THEN "answering" ELSE "done"
  <2>1. Moves(w, at) /\ worker[w].at \notin Resting /\ UNCHANGED acceptor
    BY <1>6 DEF Announce, Resting
  <2>2. at \in WorkerAts \ (Resting \cup {"replying"})
    BY DEF WorkerAts, Resting
  <2> HIDE DEF at
  <2>3. Rest
    BY <1>0, <2>1, <2>2, Moved
  <2>4. worker' \in [Workers -> WorkerState]
    BY <2>3
  <2> HIDE DEF Rest
  <2> QED BY <1>0, <1>6, <2>3, <2>4 DEF Announce, Typed
<1>7. ASSUME NEW form \in {"editing", "completed"}, Answer(w, form), worker[w].at \notin Resting
      PROVE  Goal
  <2>1. Moves(w, "done") /\ UNCHANGED acceptor
    BY <1>7 DEF Answer
  <2>2. "done" \in WorkerAts \ (Resting \cup {"replying"})
    BY DEF WorkerAts, Resting
  <2>3. Rest
    BY <1>0, <1>7, <2>1, <2>2, Moved
  <2>4. worker' \in [Workers -> WorkerState]
    BY <2>3
  <2> HIDE DEF Rest
  <2>5. page' \in [Pages -> PageState]
    BY <1>0, <1>7, SubmittedTyped DEF Answer, Typed
  <2> QED BY <1>0, <1>7, <2>3, <2>4, <2>5 DEF Answer, Typed
<1>8. ASSUME FallSilent(w) \/ Resume(w)
      PROVE  Goal
  <2>1. PICK at \in {"silent", "running"} : Moves(w, at)
    BY <1>8 DEF FallSilent, Resume
  <2>2. worker[w].at \notin Resting /\ UNCHANGED acceptor
    BY <1>8 DEF FallSilent, Resume, Resting
  <2>3. at \in WorkerAts \ (Resting \cup {"replying"})
    BY DEF WorkerAts, Resting
  <2>4. Rest
    BY <1>0, <2>1, <2>2, <2>3, Moved
  <2>5. worker' \in [Workers -> WorkerState]
    BY <2>4
  <2>6. silences' \in Nat
    BY <1>0, <1>8 DEF FallSilent, Resume, Typed
  <2> HIDE DEF Rest
  <2> QED BY <1>0, <1>8, <2>4, <2>5, <2>6 DEF FallSilent, Resume, pageVars, Typed
<1>9. ASSUME HangUp(w)
      PROVE  Goal
  <2>1. Moves(w, "done") /\ worker[w].at = "silent" /\ UNCHANGED acceptor
    BY <1>9 DEF HangUp
  <2>2. "done" \in WorkerAts \ (Resting \cup {"replying"}) /\ "silent" \notin Resting
    BY DEF WorkerAts, Resting
  <2>3. Rest
    BY <1>0, <2>1, <2>2, Moved
  <2>4. worker' \in [Workers -> WorkerState]
    BY <2>3
  <2> HIDE DEF Rest
  <2>5. worker[w].request \in Requests
    BY <1>0, <2>1, <2>2 DEF HandlingInv, WorkerState
  <2>6. /\ page' \in [Pages -> PageState] /\ arrived' \subseteq Requests
        /\ stream' \in [Pages -> StreamState] /\ node' \in NodeState
    BY <1>0, <1>9, <2>5, UnansweredTyped DEF HangUp, Typed
  <2> QED BY <1>0, <1>9, <2>3, <2>4, <2>6 DEF HangUp, Typed
<1>10. Goal
  <2>1. CASE AnswerSubmit(w)
    <3>1. Answer(w, "completed") /\ worker[w].at \notin Resting
      BY <2>1 DEF AnswerSubmit, Resting
    <3> QED BY <3>1, <1>7
  <2>2. CASE Reject(w)
    <3>1. Answer(w, "editing") /\ worker[w].at \notin Resting
      BY <2>2 DEF Reject, Runs, Resting
    <3> QED BY <3>1, <1>7
  <2> QED BY <1>1, <1>2, <1>3, <1>4, <1>5, <1>6, <1>8, <1>9, <2>1, <2>2 DEF Handle, PeerStep
<1>11. TypeOK'
  BY <1>10, TypedIsTypeOK, PTL
<1> QED BY <1>0, <1>10, <1>11, PoolStays DEF IInv

-----------------------------------------------------------------------------
(* The accept loop: a work item goes to the loop, from there to the queue  *)
(* or back, and the wake that a new entry owes is given.                   *)
LEMMA AcceptorKeeps ==
    ASSUME IInv, Acceptor
    PROVE  IInv'
<1>0. /\ Typed /\ HandlingInv /\ ItemsAreConserved /\ NeverAsleepWithWork
      /\ PoolAssumption
  BY TypedIsTypeOK, PoolAssumption DEF IInv
<1>1. ASSUME UNCHANGED worker
      PROVE  Holding' = Holding /\ Asleep' = Asleep
  BY <1>1 DEF Holding, Asleep
<1>2. Cardinality(Holding) \in Nat /\ Len(queue) \in Nat /\ freeItems \in Nat /\ items \in Nat
  <2>1. IsFiniteSet(Holding)
    BY <1>0, FS_Subset DEF Holding, PoolAssumption
  <2> QED BY <1>0, <2>1, FS_CardinalityType, LenProperties DEF Typed
<1>3. ASSUME NEW r \in arrived, Accept(r)
      PROVE  Typed' /\ HandlingInv' /\ ItemsAreConserved' /\ NeverAsleepWithWork'
  <2>1. /\ acceptor.at = "accept" /\ r \in Requests /\ UNCHANGED <<queue, worker>>
        /\ acceptor' = [at |-> "admit", request |-> r]
        /\ freeItems \in Nat /\ items \in Nat /\ MoreItems \in Nat \ {0}
    BY <1>0, <1>3 DEF Accept, Typed, PoolAssumption
  <2>2. acceptor'.at = "admit" /\ acceptor'.request = r
    BY <2>1
  <2>3. /\ freeItems' \in Nat /\ items' \in Nat
        /\ items' + freeItems = items + freeItems' + 1
    <3>1. CASE freeItems > 0
      BY <1>3, <2>1, <3>1 DEF Accept
    <3>2. CASE ~(freeItems > 0)
      BY <1>3, <2>1, <3>2 DEF Accept
    <3> QED BY <3>1, <3>2
  <2>4. Typed'
    <3>1. acceptor' \in [at : {"accept", "admit", "notify"}, request : Requests \cup {NoRequest}]
      BY <2>1
    <3> QED BY <1>0, <1>3, <2>3, <3>1 DEF Accept, pageVars, Typed
  <2>5. HandlingInv'
    BY <1>0, <2>1, <2>2 DEF HandlingInv
  <2>6. ItemsAreConserved'
    <3>1. acceptor.at # "admit"
      BY <2>1
    <3>2. items = freeItems + Len(queue) + Cardinality(Holding)
      BY <1>0, <1>2, <3>1 DEF ItemsAreConserved
    <3>3. PICK q \in Nat, h \in Nat, i \in Nat, f \in Nat, j \in Nat, g \in Nat :
              /\ q = Len(queue) /\ h = Cardinality(Holding)
              /\ i = items /\ f = freeItems /\ j = items' /\ g = freeItems'
      BY <1>2, <2>3
    <3>4. i = f + q + h /\ j + f = i + g + 1
      BY <2>3, <3>2, <3>3
    <3>5. j = g + q + h + 1
      BY <3>4
    <3>6. items' = freeItems' + Len(queue) + Cardinality(Holding) + 1
      BY <3>3, <3>5
    <3>7. Len(queue') = Len(queue) /\ Cardinality(Holding') = Cardinality(Holding)
      BY <1>1, <2>1
    <3> QED BY <2>2, <3>6, <3>7 DEF ItemsAreConserved
  <2>7. NeverAsleepWithWork'
    BY <1>0, <1>1, <2>1 DEF NeverAsleepWithWork
  <2> QED BY <2>4, <2>5, <2>6, <2>7
<1>4. ASSUME Enqueue
      PROVE  Typed' /\ HandlingInv' /\ ItemsAreConserved' /\ NeverAsleepWithWork'
  <2>1. /\ acceptor.at = "admit" /\ acceptor.request \in Requests
        /\ queue' = Append(queue, acceptor.request)
        /\ UNCHANGED <<worker, freeItems, items>>
    BY <1>0, <1>4 DEF Enqueue, HandlingInv
  <2>2. queue' \in Seq(Requests) /\ Len(queue') = Len(queue) + 1
    BY <1>0, <2>1 DEF Typed
  <2>3. acceptor' = [at |-> "notify", request |-> NoRequest]
    BY <1>4 DEF Enqueue, Accepting
  <2>4. Typed'
    <3>1. acceptor' \in [at : {"accept", "admit", "notify"}, request : Requests \cup {NoRequest}]
      BY <2>3
    <3> QED BY <1>0, <1>4, <2>2, <3>1 DEF Enqueue, pageVars, Typed
  <2>5. HandlingInv'
    BY <1>0, <2>1, <2>3 DEF HandlingInv
  <2>6. ItemsAreConserved'
    BY <1>0, <1>1, <1>2, <2>1, <2>2, <2>3 DEF ItemsAreConserved
  <2>7. NeverAsleepWithWork'
    BY <2>3 DEF NeverAsleepWithWork
  <2> QED BY <2>4, <2>5, <2>6, <2>7
<1>5. ASSUME Refuse
      PROVE  Typed' /\ HandlingInv' /\ ItemsAreConserved' /\ NeverAsleepWithWork'
  <2>1. /\ acceptor.at = "admit" /\ acceptor.request \in Requests
        /\ freeItems' = freeItems + 1 /\ UNCHANGED <<queue, worker, items>>
        /\ acceptor' = [at |-> "accept", request |-> NoRequest]
    BY <1>0, <1>5 DEF Refuse, HandlingInv, Accepting
  <2>2. acceptor'.at = "accept"
    BY <2>1
  <2>3. /\ page' \in [Pages -> PageState] /\ arrived' \subseteq Requests
        /\ stream' \in [Pages -> StreamState] /\ node' \in NodeState
    BY <1>0, <1>5, <2>1, UnansweredTyped DEF Refuse, Typed
  <2>6. Typed'
    <3>1. acceptor' \in [at : {"accept", "admit", "notify"}, request : Requests \cup {NoRequest}]
      BY <2>1
    <3>2. freeItems' \in Nat
      BY <1>2, <2>1
    <3> QED BY <1>0, <1>5, <2>3, <3>1, <3>2 DEF Refuse, Typed
  <2>7. HandlingInv'
    BY <1>0, <2>1, <2>2 DEF HandlingInv
  <2>8. ItemsAreConserved'
    BY <1>0, <1>1, <1>2, <2>1, <2>2 DEF ItemsAreConserved
  <2>9. NeverAsleepWithWork'
    BY <1>0, <1>1, <2>1 DEF NeverAsleepWithWork
  <2> QED BY <2>6, <2>7, <2>8, <2>9
<1>6. ASSUME Notify
      PROVE  Typed' /\ HandlingInv' /\ ItemsAreConserved' /\ NeverAsleepWithWork'
  <2>1. /\ acceptor.at = "notify" /\ UNCHANGED <<queue, freeItems, items>>
        /\ acceptor' = [at |-> "accept", request |-> NoRequest]
    BY <1>6 DEF Notify, Accepting
  <2>2. acceptor'.at = "accept"
    BY <2>1
  <2>3. /\ worker' \in [Workers -> WorkerState]
        /\ \A u \in Workers : /\ worker'[u].request = worker[u].request
                              /\ worker'[u].at \in Resting <=> worker[u].at \in Resting
                              /\ worker'[u].at \notin Resting => worker'[u].at = worker[u].at
        /\ \E u \in Workers : worker'[u].at # "asleep"
    <3>1. CASE Asleep = {} /\ UNCHANGED worker
      BY <1>0, <3>1 DEF Asleep, Typed, PoolAssumption
    <3>2. ASSUME NEW w \in Asleep, worker' = [worker EXCEPT ![w].at = "ready"]
          PROVE  /\ worker' \in [Workers -> WorkerState]
                 /\ \A u \in Workers : /\ worker'[u].request = worker[u].request
                                       /\ worker'[u].at \in Resting <=> worker[u].at \in Resting
                                       /\ worker'[u].at \notin Resting => worker'[u].at = worker[u].at
                 /\ worker'[w].at # "asleep"
      <4>1. w \in Workers /\ worker[w] \in WorkerState /\ worker[w].at = "asleep"
        BY <1>0 DEF Asleep, Typed
      <4> DEFINE x == [worker[w] EXCEPT !.at = "ready"]
      <4>2. x \in WorkerState /\ x.at = "ready" /\ x.request = worker[w].request
        BY <4>1 DEF WorkerState, WorkerAts
      <4>3. worker' = [worker EXCEPT ![w] = x]
        BY <3>2
      <4> HIDE DEF x
      <4>4. worker'[w] = x /\ \A u \in Workers \ {w} : worker'[u] = worker[u]
        BY <1>0, <4>1, <4>3 DEF Typed
      <4>5. worker' \in [Workers -> WorkerState]
        BY <1>0, <4>1, <4>2, <4>3 DEF Typed
      <4> QED BY <4>1, <4>2, <4>4, <4>5 DEF Resting
    <3> QED BY <1>6, <3>1, <3>2 DEF Notify, Asleep
  <2>4. Typed'
    <3>1. acceptor' \in [at : {"accept", "admit", "notify"}, request : Requests \cup {NoRequest}]
      BY <2>1
    <3> QED BY <1>0, <1>6, <2>3, <3>1 DEF Notify, pageVars, Typed
  <2>5. HandlingInv'
    BY <1>0, <2>2, <2>3 DEF HandlingInv, Resting
  <2>6. ItemsAreConserved'
    <3>1. Holding' = Holding
      BY <2>3 DEF Holding
    <3> QED BY <1>0, <1>2, <2>1, <2>2, <3>1 DEF ItemsAreConserved
  <2>7. NeverAsleepWithWork'
    BY <2>3 DEF NeverAsleepWithWork, Asleep
  <2> QED BY <2>4, <2>5, <2>6, <2>7
<1>7. Typed' /\ HandlingInv' /\ ItemsAreConserved' /\ NeverAsleepWithWork'
  BY <1>3, <1>4, <1>5, <1>6 DEF Acceptor
<1>8. TypeOK'
  BY <1>7, TypedIsTypeOK, PTL
<1> QED BY <1>7, <1>8 DEF IInv
-----------------------------------------------------------------------------
(* The rounds of a worker.                                                 *)
LEMMA RoundsKeep ==
    ASSUME IInv, NEW w \in Workers, Take(w) \/ FallAsleep(w) \/ Finish(w)
    PROVE  IInv'
<1>0. /\ Typed /\ HandlingInv /\ ItemsAreConserved /\ NeverAsleepWithWork
      /\ worker \in [Workers -> WorkerState] /\ worker[w] \in WorkerState
      /\ PoolAssumption
  BY TypedIsTypeOK, PoolAssumption DEF IInv, Typed
<1>1. /\ IsFiniteSet(Holding) /\ Cardinality(Holding) \in Nat
      /\ Len(queue) \in Nat /\ freeItems \in Nat /\ items \in Nat
  <2>1. IsFiniteSet(Holding)
    BY <1>0, FS_Subset DEF Holding, PoolAssumption
  <2> QED BY <1>0, <2>1, FS_CardinalityType, LenProperties DEF Typed
<1>2. w \in Holding <=> worker[w].at \notin Resting
  BY <1>0 DEF Holding, HandlingInv
<1>3. ASSUME Take(w)
      PROVE  Typed' /\ HandlingInv' /\ ItemsAreConserved' /\ NeverAsleepWithWork'
  <2> DEFINE x == [worker[w] EXCEPT !.at = "running", !.request = Head(queue)]
  <2>1. /\ worker[w].at = "ready" /\ queue # <<>> /\ queue' = Tail(queue)
        /\ worker' = [worker EXCEPT ![w] = x] /\ UNCHANGED <<acceptor, freeItems, items>>
    BY <1>3 DEF Take
  <2>2. /\ Head(queue) \in Requests /\ queue' \in Seq(Requests)
        /\ Len(queue') = Len(queue) - 1
    BY <1>0, <2>1, HeadTailProperties DEF Typed
  <2>3. x \in WorkerState /\ x.at = "running" /\ x.request = Head(queue)
    BY <1>0, <2>2 DEF WorkerState, WorkerAts
  <2> HIDE DEF x
  <2>4. worker'[w] = x /\ \A u \in Workers \ {w} : worker'[u] = worker[u]
    BY <1>0, <2>1
  <2>5. x.request # NoRequest
    BY <2>2, <2>3, RequestKinds
  <2>6. Typed'
    <3>1. worker' \in [Workers -> WorkerState]
      BY <1>0, <2>1, <2>3
    <3> QED BY <1>0, <1>3, <2>2, <3>1 DEF Take, pageVars, Typed
  <2>7. HandlingInv'
    BY <1>0, <2>1, <2>3, <2>4, <2>5 DEF HandlingInv, Resting
  <2>8. ItemsAreConserved'
    <3>1. Holding' = Holding \cup {w} /\ w \notin Holding
      BY <1>2, <2>1, <2>4, <2>5 DEF Holding, Resting
    <3>2. Cardinality(Holding') = Cardinality(Holding) + 1
      BY <1>1, <3>1, FS_AddElement
    <3> QED BY <1>0, <1>1, <2>1, <2>2, <3>2 DEF ItemsAreConserved
  <2>9. NeverAsleepWithWork'
    BY <2>3, <2>4 DEF NeverAsleepWithWork, Asleep
  <2> QED BY <2>6, <2>7, <2>8, <2>9
<1>4. ASSUME FallAsleep(w)
      PROVE  Typed' /\ HandlingInv' /\ ItemsAreConserved' /\ NeverAsleepWithWork'
  <2> DEFINE x == [worker[w] EXCEPT !.at = "asleep"]
  <2>1. /\ worker[w].at = "ready" /\ queue = <<>>
        /\ worker' = [worker EXCEPT ![w] = x] /\ UNCHANGED <<acceptor, queue, freeItems, items>>
    BY <1>4 DEF FallAsleep
  <2>2. x \in WorkerState /\ x.at = "asleep" /\ x.request = worker[w].request
    BY <1>0 DEF WorkerState, WorkerAts
  <2> HIDE DEF x
  <2>3. worker'[w] = x /\ \A u \in Workers \ {w} : worker'[u] = worker[u]
    BY <1>0, <2>1
  <2>4. Typed'
    <3>1. worker' \in [Workers -> WorkerState]
      BY <1>0, <2>1, <2>2
    <3> QED BY <1>0, <1>4, <3>1 DEF FallAsleep, pageVars, Typed
  <2>5. HandlingInv'
    BY <1>0, <2>1, <2>2, <2>3 DEF HandlingInv, Resting
  <2>6. ItemsAreConserved'
    <3>1. Holding' = Holding
      BY <2>2, <2>3 DEF Holding
    <3> QED BY <1>0, <2>1, <3>1 DEF ItemsAreConserved
  <2>7. NeverAsleepWithWork'
    BY <2>1 DEF NeverAsleepWithWork
  <2> QED BY <2>4, <2>5, <2>6, <2>7
<1>5. ASSUME Finish(w)
      PROVE  Typed' /\ HandlingInv' /\ ItemsAreConserved' /\ NeverAsleepWithWork'
  <2>1. /\ worker[w].at = "done" /\ freeItems' = freeItems + 1
        /\ worker' = [worker EXCEPT ![w] = Ready] /\ UNCHANGED <<acceptor, queue, items>>
    BY <1>5 DEF Finish
  <2>2. Ready \in WorkerState /\ Ready.at = "ready" /\ Ready.request = NoRequest
    BY DEF Ready, WorkerState, WorkerAts
  <2>3. worker'[w] = Ready /\ \A u \in Workers \ {w} : worker'[u] = worker[u]
    BY <1>0, <2>1
  <2>4. Typed'
    <3>1. worker' \in [Workers -> WorkerState] /\ freeItems' \in Nat
      BY <1>0, <1>1, <2>1, <2>2
    <3> QED BY <1>0, <1>5, <3>1 DEF Finish, pageVars, Typed
  <2>5. HandlingInv'
    BY <1>0, <2>1, <2>2, <2>3 DEF HandlingInv, Resting
  <2>6. ItemsAreConserved'
    <3>1. Holding' = Holding \ {w} /\ w \in Holding
      BY <1>2, <2>1, <2>2, <2>3 DEF Holding, Resting
    <3>2. Cardinality(Holding') = Cardinality(Holding) - 1
      BY <1>1, <3>1, FS_RemoveElement
    <3> QED BY <1>0, <1>1, <2>1, <3>2 DEF ItemsAreConserved
  <2>7. NeverAsleepWithWork'
    BY <2>2, <2>3 DEF NeverAsleepWithWork, Asleep
  <2> QED BY <2>4, <2>5, <2>6, <2>7
<1>6. TypeOK'
  BY <1>3, <1>4, <1>5, TypedIsTypeOK, PTL
<1> QED BY <1>3, <1>4, <1>5, <1>6 DEF IInv

-----------------------------------------------------------------------------
LEMMA InitIInv == Init => IInv
<1> SUFFICES ASSUME Init PROVE IInv
  OBVIOUS
<1>1. Typed
  <2>1. Accepting \in [at : {"accept", "admit", "notify"}, request : Requests \cup {NoRequest}]
    BY DEF Accepting
  <2>2. Ready \in WorkerState /\ Unopened \in StreamState
    BY DEF Ready, WorkerState, WorkerAts, Unopened, StreamState
  <2>3. PICK load \in Loads :
           /\ unsent = load.send /\ silences = load.silences
           /\ page = [g \in Pages |-> [Blank EXCEPT !.drops = load.drops]]
    BY DEF Init
  <2>4. load.send \subseteq ClientRequests /\ load.silences \in Nat /\ load.drops \in Nat
    BY LoadAssumption
  <2>5. [Blank EXCEPT !.drops = load.drops] \in PageState
    BY <2>4 DEF Blank, PageState
  <2>6. page \in [Pages -> PageState]
    BY <2>3, <2>5
  <2> QED BY <2>1, <2>2, <2>3, <2>4, <2>6, PoolAssumption DEF Init, Typed, NodeState
<1>2. HandlingInv
  BY DEF Init, HandlingInv, Accepting, Ready, Resting
<1>3. ItemsAreConserved
  <2>1. Holding = {}
    BY DEF Init, Holding, Ready
  <2> QED BY <2>1, FS_EmptySet, PoolAssumption DEF Init, ItemsAreConserved, Accepting
<1>4. NeverAsleepWithWork
  BY DEF Init, NeverAsleepWithWork
<1> QED BY <1>1, <1>2, <1>3, <1>4, TypedIsTypeOK DEF IInv

LEMMA Invariance == Spec => []IInv
<1>1. IInv /\ [Next]_vars => IInv'
  <2>1. IInv /\ Next => IInv'
    BY OutsideKeeps, AcceptorKeeps, TasksKeep, RoundsKeep DEF Next, WorkerStep
  <2>2. IInv /\ UNCHANGED vars => IInv'
    BY DEF vars, IInv, TypeOK, HandlingInv, ItemsAreConserved, NeverAsleepWithWork,
           Holding, Asleep
  <2> QED BY <2>1, <2>2
<1> QED BY <1>1, InitIInv, PTL DEF Spec

(* Requests, queue, workers, streams and pages keep their types.           *)
THEOREM TypeCorrect == Spec => []TypeOK
BY Invariance, PTL DEF IInv

(* Every work item is with the free list, the accept loop, a queued        *)
(* request or a worker, however many requests are refused, time out or     *)
(* end, and however often the pool is extended.                            *)
THEOREM ItemsConserved == Spec => []ItemsAreConserved
BY Invariance, PTL DEF IInv

(* No wake is lost, for any number of workers: when work is queued, one of *)
(* them is up or the accept loop is about to wake one.                     *)
THEOREM NoLostWake == Spec => []NeverAsleepWithWork
BY Invariance, PTL DEF IInv
=============================================================================
