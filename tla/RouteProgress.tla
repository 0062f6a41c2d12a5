----------------------------- MODULE RouteProgress -----------------------------
(***************************************************************************)
(* Routes, Blocks, and how far a batch has come on its route: the helpers  *)
(* evaluate_workflow_progress, workflow_node_for_record, workflow_is_valid *)
(* and validate_stored_chain of the control server, as operators.          *)
(*                                                                         *)
(* A chain is the sequence of committed Blocks of all batches; a Block is  *)
(* known by its position, which stands for its ID and its hash.  A route   *)
(* is the sequence of its stages in the order of its edges; a saved draft  *)
(* whose nodes do not form one path has no such order and is <<>>.         *)
(***************************************************************************)
EXTENDS Integers, Sequences, FiniteSetsExt

CONSTANTS
    Users, RoleOf,     \* accounts; the role of an account never changes
    Nodes,             \* stable IDs of route nodes
    Routes, StagesOf,  \* saved routes, and the stages of each
    MaxBatches         \* bound: the last sequence number of a batch ID (9999)

Stage == [node : Nodes, user : Users]
Roles == {"supplier", "logistics", "warehouse", "supermarket"}

ASSUME RoleAssumption == RoleOf \in [Users -> Roles]
ASSUME StageAssumption == StagesOf \in [Routes -> Seq(Stage)]
ASSUME BatchBoundAssumption == MaxBatches \in Nat

Batches == 1..MaxBatches
Genesis == 0

(* A revision of a route: reusing the ID of an equal revision of the same  *)
(* owner makes owner and content the identity.  The owner is a batch, or   *)
(* DefaultOwner for the template that new batches start with.              *)
DefaultOwner == 0
RouteId == [owner : Batches \cup {DefaultOwner}, route : Routes]

Block == [batch : Batches, parent : Nat, node : Nodes, user : Users,
          route : RouteId, challenge : Nat]

RoleAt(r, k) == RoleOf[StagesOf[r][k].user]

(* workflow_is_valid, for a route that is not a draft: from the only       *)
(* Supplier to the only Supermarket.                                       *)
Complete(r) ==
    /\ Len(StagesOf[r]) >= 2
    /\ \A k \in DOMAIN StagesOf[r] :
           /\ RoleAt(r, k) = "supplier" <=> k = 1
           /\ RoleAt(r, k) = "supermarket" <=> k = Len(StagesOf[r])

(* supplier_route_path_node_ids: a stage has a confirmation policy when it *)
(* lies on the way from the Supplier to the Supermarket, in a draft too.   *)
StagesWithRole(r, role) == {k \in DOMAIN StagesOf[r] : RoleAt(r, k) = role}
HasPolicy(r, k) ==
    /\ \E i \in StagesWithRole(r, "supplier") : i <= k
    /\ StagesWithRole(r, "supermarket") # {}
    /\ \A j \in StagesWithRole(r, "supermarket") : k <= j

BlocksOf(chain, b) == {i \in DOMAIN chain : chain[i].batch = b}

(* workflow_node_for_record: a Block counts for a stage as long as its     *)
(* account is still assigned to its node.                                  *)
BlocksAt(chain, b, s) ==
    {i \in BlocksOf(chain, b) : chain[i].node = s.node /\ chain[i].user = s.user}

Latest(chain, b) == IF BlocksOf(chain, b) = {} THEN Genesis ELSE Max(BlocksOf(chain, b))

-----------------------------------------------------------------------------
(* evaluate_workflow_progress.                                             *)

(* The first stage without a Block, or 0.                                  *)
NextStage(r, chain, b) ==
    LET open == {k \in DOMAIN StagesOf[r] : BlocksAt(chain, b, StagesOf[r][k]) = {}}
    IN  IF open = {} THEN 0 ELSE Min(open)

(* "New stages are appended to the immutable block chain even when the     *)
(* saved route inserts them before an existing later stage."               *)
ParentAtPreviousStage(r, chain, b) ==
    LET k == NextStage(r, chain, b)
    IN  IF k <= 1 THEN Genesis
        ELSE CHOOSE i \in BlocksAt(chain, b, StagesOf[r][k - 1]) : TRUE
ParentFor(r, chain, b) == Latest(chain, b)

(* The Block of the first stage is a genesis Block; any other links to the *)
(* Block of the stage before it or to an earlier Block of its batch.       *)
LinkedToStageBefore(r, chain, b, k, i) ==
    IF k = 1 THEN chain[i].parent = Genesis
    ELSE chain[i].parent \in BlocksAt(chain, b, StagesOf[r][k - 1])
Linked(r, chain, b, k, i) ==
    IF k = 1 THEN chain[i].parent = Genesis
    ELSE \/ chain[i].parent \in BlocksAt(chain, b, StagesOf[r][k - 1])
         \/ chain[i].parent \in {j \in BlocksOf(chain, b) : j < i}

(* progress.error: no linear order, a stage with two Blocks, or a Block    *)
(* before the next stage that does not link to the history.                *)
ProgressFails(r, chain, b) ==
    \/ StagesOf[r] = <<>>
    \/ \E k \in DOMAIN StagesOf[r] : \E i, j \in BlocksAt(chain, b, StagesOf[r][k]) : i # j
    \/ \E k \in DOMAIN StagesOf[r] :
           /\ NextStage(r, chain, b) \notin 1..k
           /\ \E i \in BlocksAt(chain, b, StagesOf[r][k]) : ~Linked(r, chain, b, k, i)

-----------------------------------------------------------------------------
(* validate_stored_chain: the server refuses to start when a Block does    *)
(* not continue the latest Block of its batch, or when block_edges is not  *)
(* exactly the set of these links.                                         *)
LinkTo(chain, i) == [from |-> chain[i].parent, to |-> i, batch |-> chain[i].batch]

ValidateStoredChain(chain, edges) ==
    /\ \A i \in DOMAIN chain :
           /\ chain[i].parent = Latest(SubSeq(chain, 1, i - 1), chain[i].batch)
           /\ {e \in edges : e.to = i} =
                  IF chain[i].parent = Genesis THEN {} ELSE {LinkTo(chain, i)}
    /\ \A e \in edges :
           /\ e.from \in DOMAIN chain /\ e.to \in DOMAIN chain /\ e.from < e.to
           /\ chain[e.from].batch = e.batch /\ chain[e.to].batch = e.batch
=============================================================================
