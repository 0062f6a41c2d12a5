----------------------------- MODULE PrivateChain -----------------------------
(***************************************************************************)
(* How a Block gets onto the private chain: POST /api/records of the       *)
(* control server, from the form a participant filled in to the committed  *)
(* row, against POST /api/workflow, which replaces the route under it.     *)
(*                                                                         *)
(* The handler checks a submission twice.  Without chain_mutex it loads    *)
(* the route, finds the stage, checks the confirmation policy and consumes *)
(* the one-time challenge; then, under chain_mutex, it loads the route     *)
(* again, evaluates the progress again and inserts.  Several worker        *)
(* threads do this at once, a submission may arrive twice, an insertion    *)
(* may fail, and the server may die anywhere: the chain is then reloaded   *)
(* from SQLite and must pass validate_stored_chain.                        *)
(***************************************************************************)
EXTENDS SnapshotEligibility

CONSTANTS
    Threads,          \* worker threads of the pool
    FirstRoute,       \* the default route of a new database
    NoRoute, NoNode,  \* '' in the columns and form fields
    NoThread,         \* nobody holds chain_mutex
    Idle,             \* a thread without a submission
    MaxChallenges,    \* bound: challenges ever issued
    MaxRouteChanges   \* bound: saved routes

ASSUME FirstRouteAssumption == FirstRoute \in Routes
ASSUME NoValueAssumption ==
    /\ NoRoute \notin RouteId /\ NoNode \notin Nodes /\ NoThread \notin Threads
ASSUME ChainBoundAssumption == MaxChallenges \in Nat /\ MaxRouteChanges \in Nat

VARIABLES
    blocks,      \* supply_chain_records, in the order of block_id
    edges,       \* block_edges
    routeOf,     \* batches.route_id; NoRoute: no such batch
    template,    \* the route_definitions row with is_default = 1
    memory,      \* stored_records, the server's copy of the chain
    holder,      \* who holds chain_mutex across steps
    submission,  \* what each thread works on
    challenges,  \* confirmation_challenges: issued, not used, not expired
    issued,      \* how many challenges were issued
    saves        \* how many routes were saved

database == <<blocks, edges, routeOf, template>>
bounds == <<issued, saves>>
vars == <<database, memory, holder, submission, challenges, bounds>>

Submission ==
    [at : {"received", "routed", "confirmed", "inserted"}, user : Users,
     batch : Batches \cup {0}, route : RouteId \cup {NoRoute},
     node : Nodes \cup {NoNode}, challenge : 1..MaxChallenges,
     seen : RouteId \cup {NoRoute}, stage : Nodes \cup {NoNode}]

ASSUME IdleAssumption == Idle \notin Submission

Existing == {b \in Batches : routeOf[b] # NoRoute}
ChainMutexFree == holder = NoThread

(* load_workflow_route: the route of a batch; for a Supplier, who creates  *)
(* the batch with the Block, the default route.                            *)
IsSupplier(s) == RoleOf[s.user] = "supplier"
CurrentRoute(s) ==
    IF IsSupplier(s) THEN [owner |-> DefaultOwner, route |-> template]
    ELSE routeOf[s.batch]

Init ==
    /\ blocks = <<>> /\ edges = {} /\ memory = <<>>
    /\ routeOf = [b \in Batches |-> NoRoute]
    /\ template = FirstRoute
    /\ holder = NoThread
    /\ submission = [t \in Threads |-> Idle]
    /\ challenges = {} /\ issued = 0 /\ saves = 0

-----------------------------------------------------------------------------
(* The participant's page.  GET /api/confirmation/challenge issues a       *)
(* challenge for the account; GET /api/batches, which reads the database,  *)
(* offers a batch whose next stage is assigned to it, and the form carries *)
(* that stage until it arrives.                                            *)
Form(u, b, id, n) ==
    [at |-> "received", user |-> u, batch |-> b, route |-> id, node |-> n,
     challenge |-> issued + 1, seen |-> NoRoute, stage |-> NoNode]

Offered(u, b) ==
    LET r == routeOf[b].route
        k == NextStage(r, blocks, b)
    IN  ~ProgressFails(r, blocks, b) /\ k # 0 /\ StagesOf[r][k].user = u

Submit(t, u) ==
    /\ submission[t] = Idle
    /\ issued < MaxChallenges
    /\ \/ /\ RoleOf[u] = "supplier"
          /\ submission' = [submission EXCEPT ![t] = Form(u, 0, NoRoute, NoNode)]
       \/ /\ RoleOf[u] # "supplier"
          /\ \E b \in Existing :
                 LET r == routeOf[b].route
                 IN  /\ Offered(u, b)
                     /\ submission' = [submission EXCEPT
                          ![t] = Form(u, b, routeOf[b], StagesOf[r][NextStage(r, blocks, b)].node)]
    /\ issued' = issued + 1
    /\ challenges' = challenges \cup {[id |-> issued + 1, user |-> u]}
    /\ UNCHANGED <<database, memory, holder, saves>>

(* The same signed submission arrives once more while the first is worked  *)
(* on.                                                                     *)
Resubmit(t, s) ==
    /\ submission[t] = Idle /\ submission[s] # Idle
    /\ submission' = [submission EXCEPT
         ![t] = [submission[s] EXCEPT !.at = "received", !.seen = NoRoute, !.stage = NoNode]]
    /\ UNCHANGED <<database, memory, holder, challenges, bounds>>

(* Five minutes passed.                                                    *)
Expire(c) ==
    /\ c \in challenges
    /\ challenges' = challenges \ {c}
    /\ UNCHANGED <<database, memory, holder, submission, bounds>>

-----------------------------------------------------------------------------
(* POST /api/records, before chain_mutex.                                  *)
Answered(t) == submission' = [submission EXCEPT ![t] = Idle]
ChallengeOf(s) == [id |-> s.challenge, user |-> s.user]

LoadRoute(t) ==
    /\ submission[t] # Idle /\ submission[t].at = "received"
    /\ submission' = [submission EXCEPT ![t].at = "routed",
                                        ![t].seen = CurrentRoute(submission[t])]
    /\ UNCHANGED <<database, memory, holder, challenges, bounds>>

(* policy_node: a Supplier's own stage, wherever it is on the route; for   *)
(* the others the next stage, read from stored_records under chain_mutex.  *)
(* A draft that is no path may still lead the Supplier to a Supermarket.   *)
StageToConfirm(s, n) ==
    LET r == s.seen.route
        k == NextStage(r, memory, s.batch)
    IN  \/ /\ IsSupplier(s)
           /\ \/ StagesOf[r] = <<>>
              \/ \E i \in DOMAIN StagesOf[r] :
                     StagesOf[r][i] = [node |-> n, user |-> s.user] /\ HasPolicy(r, i)
        \/ /\ ~IsSupplier(s)
           /\ ChainMutexFree
           /\ ~ProgressFails(r, memory, s.batch)
           /\ k # 0 /\ StagesOf[r][k] = [node |-> n, user |-> s.user]
           /\ s.seen = s.route /\ n = s.node
           /\ HasPolicy(r, k)

(* The policy allows the typed name; the challenge is this account's and   *)
(* is consumed; signature and key are accepted.                            *)
ConfirmWithoutConsuming(t) ==
    LET s == submission[t]
    IN  /\ s # Idle /\ s.at = "routed"
        /\ ChallengeOf(s) \in challenges
        /\ \E n \in Nodes :
               /\ StageToConfirm(s, n)
               /\ submission' = [submission EXCEPT ![t].at = "confirmed", ![t].stage = n]
        /\ UNCHANGED <<database, memory, holder, challenges, bounds>>
Confirm(t) ==
    LET s == submission[t]
    IN  /\ s # Idle /\ s.at = "routed"
        /\ ChallengeOf(s) \in challenges
        /\ \E n \in Nodes :
               /\ StageToConfirm(s, n)
               /\ submission' = [submission EXCEPT ![t].at = "confirmed", ![t].stage = n]
        /\ challenges' = challenges \ {ChallengeOf(s)}
        /\ UNCHANGED <<database, memory, holder, bounds>>

(* 422: a field, the policy, the stage, the payload or the challenge is    *)
(* refused; or, with the challenge gone already, the signature or the key. *)
Refuse(t) ==
    LET s == submission[t]
    IN  /\ s # Idle /\ s.at \in {"received", "routed"}
        /\ Answered(t)
        /\ \/ UNCHANGED challenges
           \/ s.at = "routed" /\ challenges' = challenges \ {ChallengeOf(s)}
        /\ UNCHANGED <<database, memory, holder, bounds>>

-----------------------------------------------------------------------------
(* POST /api/records, under chain_mutex.                                   *)

(* next_batch_id_for_product: one more than the highest number in use, and *)
(* none beyond the last.                                                   *)
NewBatch == 1 + Max(Existing \cup {0})
TargetBatch(s) == IF IsSupplier(s) THEN NewBatch ELSE s.batch

(* The route as it is now that it cannot change any more, and the one the  *)
(* Block, and with it the batch, is written with.                          *)
RouteBeforeLock(s) == s.seen
RouteAtCommit(s) == CurrentRoute(s)
RecordedRoute(s) == RouteAtCommit(s)

(* The form must name the route and the stage as they are now; a           *)
(* Supplier's form names neither.                                          *)
NotRechecked(s, n) == TRUE
Rechecked(s, n) == IsSupplier(s) \/ (s.route = RouteAtCommit(s) /\ s.node = n)

(* Whether the submission s may become the Block of stage k of route r.    *)
BatchInOrder(s, b) ==
    IF IsSupplier(s) THEN Latest(memory, b) = Genesis /\ b \notin Existing
    ELSE Latest(memory, b) # Genesis /\ b \in Existing
Permitted(s, r, b, k) ==
    /\ ~ProgressFails(r, memory, b)
    /\ BatchInOrder(s, b)
    /\ k # 0
    /\ StagesOf[r][k].user = s.user
    /\ Rechecked(s, StagesOf[r][k].node)
    /\ RoleAt(r, k) = "logistics" => k < Len(StagesOf[r])

(* insert_supply_chain_block: one transaction that creates the batch if    *)
(* needed, inserts the Block and its edge and updates the batch.  The      *)
(* mutex stays held until the Block is in stored_records.                  *)
CommitBlock(t) ==
    LET s == submission[t]
        r == RouteAtCommit(s).route
        b == TargetBatch(s)
        k == NextStage(r, memory, b)
        parent == ParentFor(r, memory, b)
        new == [batch |-> b, parent |-> parent, node |-> StagesOf[r][k].node,
                user |-> s.user, route |-> RecordedRoute(s), challenge |-> s.challenge]
    IN  /\ s # Idle /\ s.at = "confirmed" /\ ChainMutexFree
        /\ b \in Batches
        /\ Permitted(s, r, b, k)
        /\ Len(blocks) = Len(memory)  \* block_id is UNIQUE
        /\ blocks' = Append(blocks, new)
        /\ edges' = edges \cup
               IF parent = Genesis THEN {} ELSE {LinkTo(blocks', Len(blocks'))}
        /\ routeOf' = [routeOf EXCEPT ![b] = RecordedRoute(s)]
        /\ holder' = t
        /\ submission' = [submission EXCEPT ![t].at = "inserted"]
        /\ UNCHANGED <<template, memory, challenges, bounds>>

(* stored_records.push_back; the answer is 201.                            *)
PublishBlock(t) ==
    /\ submission[t] # Idle /\ submission[t].at = "inserted"
    /\ memory' = Append(memory, blocks[Len(blocks)])
    /\ holder' = NoThread
    /\ Answered(t)
    /\ UNCHANGED <<database, challenges, bounds>>

(* 409, the submission does not fit the route any more or there is no      *)
(* further batch ID; or 500, the transaction failed and was rolled back.   *)
CommitFails(t) ==
    /\ submission[t] # Idle /\ submission[t].at = "confirmed" /\ ChainMutexFree
    /\ Answered(t)
    /\ UNCHANGED <<database, memory, holder, challenges, bounds>>

-----------------------------------------------------------------------------
(* POST /api/workflow, under chain_mutex: the administrator saves a route, *)
(* complete or a draft, for one batch or as the default.                   *)
SaveRoute(r) ==
    /\ ChainMutexFree /\ saves < MaxRouteChanges
    /\ saves' = saves + 1
    /\ \/ template' = r /\ UNCHANGED routeOf
       \/ \E b \in Existing :
              /\ routeOf' = [routeOf EXCEPT ![b] = [owner |-> b, route |-> r]]
              /\ UNCHANGED template
    /\ UNCHANGED <<blocks, edges, memory, holder, submission, challenges, issued>>

(* The process dies and starts again: submissions, challenges and the      *)
(* mutex are gone, and the chain is read back if it validates.             *)
Restart ==
    /\ ValidateStoredChain(blocks, edges)
    /\ memory' = blocks
    /\ holder' = NoThread
    /\ submission' = [t \in Threads |-> Idle]
    /\ challenges' = {}
    /\ UNCHANGED <<database, bounds>>

Next ==
    \/ \E t \in Threads :
           \/ \E u \in Users : Submit(t, u)
           \/ \E s \in Threads : Resubmit(t, s)
           \/ LoadRoute(t) \/ Confirm(t) \/ Refuse(t)
           \/ CommitBlock(t) \/ PublishBlock(t) \/ CommitFails(t)
    \/ \E c \in challenges : Expire(c)
    \/ \E r \in Routes : SaveRoute(r)
    \/ Restart

Spec == Init /\ [][Next]_vars

-----------------------------------------------------------------------------
TypeOK ==
    /\ blocks \in Seq(Block) /\ memory \in Seq(Block)
    /\ \A e \in edges : e.from \in Nat /\ e.to \in Nat /\ e.batch \in Batches
    /\ routeOf \in [Batches -> RouteId \cup {NoRoute}]
    /\ template \in Routes
    /\ holder \in Threads \cup {NoThread}
    /\ submission \in [Threads -> Submission \cup {Idle}]
    /\ challenges \subseteq [id : 1..MaxChallenges, user : Users]
    /\ issued \in 0..MaxChallenges /\ saves \in 0..MaxRouteChanges

(* The server can start again whenever it dies: what is on disk passes     *)
(* validate_stored_chain, also when routes were replaced under the batch   *)
(* by ones that put a new stage before a committed one.                    *)
StoredChainValidates == ValidateStoredChain(blocks, edges)

(* No batch is stuck with a progress error: whatever order commits and     *)
(* route changes come in, no stage of any complete route has two Blocks    *)
(* and no Block is out of the history evaluate_workflow_progress accepts.  *)
ProgressNeverFails ==
    \A b \in Existing, r \in Routes : Complete(r) => ~ProgressFails(r, memory, b)

(* Two pieces of code judge whether a batch is done, and agree: on a       *)
(* complete route the batch is eligible for a Snapshot exactly when the    *)
(* progress names no next stage, in whatever order its Blocks were put on  *)
(* the chain and whatever routes it followed before.  A Supermarket Block  *)
(* that was committed on a draft stays marked in_progress and is excluded. *)
CommittedOnComplete(b) ==
    \A i \in BlocksOf(memory, b) :
        RoleOf[memory[i].user] = "supermarket" => Complete(memory[i].route.route)
CompletedIsEligible ==
    \A b \in Existing : LET r == routeOf[b].route IN
        Complete(r) /\ CommittedOnComplete(b)
        => (Eligible(r, memory, b) <=> NextStage(r, memory, b) = 0)

(* stored_records is the database's chain whenever no one is inside the    *)
(* critical section of chain_mutex, failed insertions and restarts         *)
(* included.                                                               *)
MemoryFollowsDatabase == ChainMutexFree => memory = blocks

(* A confirmation is good for one Block: a submission that arrives twice   *)
(* does not create a second batch or a second Block.                       *)
ChallengeUsedOnce ==
    \A i, j \in DOMAIN blocks :
        blocks[i].challenge = blocks[j].challenge => i = j

(* "Serialize them so a record validated against one revision cannot write *)
(* that older revision back after the administrator has switched the       *)
(* route": committing a Block leaves the route of every existing batch.    *)
RouteKeptByCommit ==
    [][blocks' # blocks => \A b \in Existing : routeOf'[b] = routeOf[b]]_vars

(* The Block of a continuing stage is the one that was confirmed: the      *)
(* route and the stage whose policy was checked before chain_mutex was     *)
(* taken are the ones recorded, whatever happened in between.              *)
ConfirmedStageIsRecorded ==
    [][\A t \in Threads :
          LET new == blocks'[Len(blocks')]
          IN  /\ blocks' # blocks /\ holder' = t
              /\ ~IsSupplier(submission[t])
              => /\ new.route = submission[t].seen
                 /\ new.node = submission[t].stage]_vars
=============================================================================
