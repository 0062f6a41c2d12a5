-------------------------- MODULE SnapshotEligibility --------------------------
(***************************************************************************)
(* When a batch may enter a public Snapshot: make_snapshot_batch_input,    *)
(* which sorts the Blocks of a batch into the stages of its current route  *)
(* and history, and evaluate_eligibility, which decides on the result,     *)
(* independently of evaluate_workflow_progress.  The fields of a Block     *)
(* were checked when it was committed and are complete.                    *)
(***************************************************************************)
EXTENDS RouteProgress

(* chain_status, written once, when the Block is committed: whether it     *)
(* completed the route it was committed on.                                *)
ChainStatusCompleted(chain, i) ==
    LET r == chain[i].route.route
        upto == SubSeq(chain, 1, i)
    IN  ~ProgressFails(r, upto, chain[i].batch) /\ NextStage(r, upto, chain[i].batch) = 0

(* input.stages, each with its step on the route; any other Block of the   *)
(* batch is historical.                                                    *)
StageInputs(r, chain, b) ==
    {s \in [step : DOMAIN StagesOf[r], block : BlocksOf(chain, b)] :
        s.block \in BlocksAt(chain, b, StagesOf[r][s.step])}

(* route_is_complete_linear, which lets roles repeat.                      *)
RouteIsCompleteLinear(r) ==
    /\ Len(StagesOf[r]) >= 2
    /\ RoleAt(r, 1) = "supplier" /\ RoleAt(r, Len(StagesOf[r])) = "supermarket"

(* "does not link to immutable block history": the parent may be any       *)
(* earlier Block of the batch, at a stage or historical.                   *)
LinksToStageBefore(r, chain, b, s) ==
    chain[s.block].parent \in BlocksAt(chain, b, StagesOf[r][s.step - 1])
LinksToHistory(r, chain, b, s) ==
    chain[s.block].parent \in {i \in BlocksOf(chain, b) : i < s.block}

(* evaluate_eligibility.                                                   *)
Eligible(r, chain, b) ==
    LET stages == StageInputs(r, chain, b)
    IN  /\ RouteIsCompleteLinear(r)
        /\ {s.step : s \in stages} = DOMAIN StagesOf[r]  \* input.status
        /\ Cardinality(stages) = Len(StagesOf[r])
        /\ \A s \in stages :
               /\ IF s.step = 1 THEN chain[s.block].parent = Genesis
                  ELSE LinksToHistory(r, chain, b, s)
               /\ RoleAt(r, s.step) = "supermarket" => ChainStatusCompleted(chain, s.block)
=============================================================================
