------------------------------ MODULE WorkflowRoute ------------------------------
(***************************************************************************)
(* Route revisions and the confirmation policies of their stages: the      *)
(* tables route_definitions, route_nodes, route_edges,                     *)
(* route_node_confirmation_policy and batches.route_id, and the handlers   *)
(* POST /api/workflow and GET and POST /api/confirmation-policy.           *)
(*                                                                         *)
(* A save of a route is one transaction under chain_mutex, the policies of *)
(* its stages are set up in a second one; the policy handlers take no      *)
(* chain_mutex and load a route in three statements, its ID, its nodes and *)
(* its edges, between which other requests run.  The server may die        *)
(* between any two of these steps.                                         *)
(*                                                                         *)
(* A node is its ID, account and role; labels and steps are part of what   *)
(* tells nodes apart, positions are left out: saving them rewrites the     *)
(* revision that is there.                                                 *)
(***************************************************************************)
EXTENDS Integers, FiniteSetsExt

CONSTANTS
    Pages,             \* open pages, one request at a time
    Batches, Template, \* owners of routes; Template: batch_id = ''
    NodeIds, Users,
    Routes,            \* what the canvas saves: nodes and edges
    FirstRoute,        \* default_route_nodes, default_route_edges
    LegacyOf,          \* confirmation_policy: the methods of a role
    Selections,           \* sets of methods an administrator selects
    NoId, None, Idle,
    MaxRevisions,      \* bound: the last number of a revision
    MaxPolicySaves     \* bound: saves of policies

Roles == {"supplier", "logistics", "warehouse", "supermarket"}
Methods == {"typed_name", "handwritten", "face"}
RouteNode == [node : NodeIds, user : Users, role : Roles]
NodesIn(nodes) == {n.node : n \in nodes}

(* What the canvas lets the administrator draw: one Supplier, one          *)
(* Supermarket, one connection out of a node, an account at one node only. *)
ASSUME RouteAssumption ==
    /\ Routes \subseteq [nodes : SUBSET RouteNode, edges : SUBSET (NodeIds \X NodeIds)]
    /\ \A r \in Routes :
           /\ r.nodes # {} /\ r.edges # {}
           /\ \A m, n \in r.nodes : m.node = n.node \/ m.user = n.user => m = n
           /\ \A role \in {"supplier", "supermarket"} :
                  Cardinality({n \in r.nodes : n.role = role}) = 1
           /\ \A e \in r.edges : e[1] # e[2] /\ {e[1], e[2]} \subseteq NodesIn(r.nodes)
           /\ \A d, e \in r.edges : d[1] = e[1] => d = e
    /\ FirstRoute \in Routes
ASSUME PolicyAssumption ==
    /\ LegacyOf \in [Roles -> SUBSET Methods]
    /\ Selections \subseteq (SUBSET Methods) \ {{}}
ASSUME OwnerAssumption == Template \notin Batches
ASSUME RouteBoundAssumption == MaxRevisions \in Nat /\ MaxPolicySaves \in Nat

(* "route-default", "route-default-v1", ..., "route-<batch>-v1", ...       *)
Owners == Batches \cup {Template}
Ids == [base : Owners, number : 0..MaxRevisions]
DefaultId == [base |-> Template, number |-> 0]

Definition == [owner : Owners, isDefault : BOOLEAN]
PolicyRow == [user : Users, methods : SUBSET Methods]
Saved == [id : Ids, route : Routes]
Handler == [kind : {"form", "policies"}, id : Ids,
            nodes : (SUBSET RouteNode) \cup {None},
            edges : (SUBSET (NodeIds \X NodeIds)) \cup {None},
            at : {"nodes", "edges", "loaded", "ensured"}]

ASSUME NoValueAssumption ==
    /\ NoId \notin Ids
    /\ None \notin Definition /\ None \notin PolicyRow /\ None \notin Saved
    /\ None \notin [owner : Owners, route : Routes]
    /\ Idle \notin Handler

VARIABLES
    definition,  \* route_definitions: owner and is_default of each ID
    nodesOf,     \* route_nodes
    edgesOf,     \* route_edges
    policy,      \* route_node_confirmation_policy
    routeOf,     \* batches.route_id
    editor,      \* the saved route whose policies POST /api/workflow sets up
    reader,      \* what the handler of each page's request has loaded so far
    shown,       \* the revision whose policies each page shows
    policySaves  \* how many times policies were saved

routes == <<definition, nodesOf, edgesOf, routeOf>>
vars == <<routes, policy, editor, reader, shown, policySaves>>

Defined == {id \in Ids : definition[id] # None}
RouteIn(id) == [nodes |-> nodesOf[id], edges |-> edgesOf[id]]

(* "WHERE is_default = 1"; there is one such row.                          *)
DefaultRoute ==
    LET D == {id \in Defined : definition[id].isDefault}
    IN  IF D = {} THEN DefaultId ELSE CHOOSE id \in D : TRUE

CurrentId(o) == IF o = Template THEN DefaultRoute ELSE routeOf[o]

Init ==
    /\ definition = [id \in Ids |->
           IF id = DefaultId THEN [owner |-> Template, isDefault |-> TRUE] ELSE None]
    /\ nodesOf = [id \in Ids |-> IF id = DefaultId THEN FirstRoute.nodes ELSE {}]
    /\ edgesOf = [id \in Ids |-> IF id = DefaultId THEN FirstRoute.edges ELSE {}]
    /\ policy = [id \in Ids |-> [n \in NodeIds |-> None]]
    /\ routeOf = [b \in Batches |-> NoId]
    /\ editor = None
    /\ reader = [p \in Pages |-> Idle]
    /\ shown = [p \in Pages |-> NoId] /\ policySaves = 0

-----------------------------------------------------------------------------
(* supplier_route_path_node_ids: the nodes on the way from the Supplier to *)
(* the Supermarket; none if the way does not get there.                    *)
Connected(nodes, edges) ==
    LET At(role) == {n.node : n \in {m \in nodes : m.role = role}}
        Known == {e \in edges : {e[1], e[2]} \subseteq NodesIn(nodes)}
        walk[k \in 0..Cardinality(nodes)] ==
            IF k = 0 THEN At("supplier")
            ELSE LET before == walk[k - 1]
                 IN  before \cup
                     {e[2] : e \in {d \in Known : d[1] \in before \ At("supermarket")}}
        reached == walk[Cardinality(nodes)]
    IN  IF reached \cap At("supermarket") = {} THEN {} ELSE reached

(* next_route_revision_id: one more than the highest number in use.        *)
NextRevision(o) ==
    [base |-> o, number |-> 1 + Max({id.number : id \in {j \in Defined : j.base = o}} \cup {0})]

(* save_workflow_route, which ID a route is saved under: the current one   *)
(* if it is the owner's and only positions moved; an earlier revision of   *)
(* the owner if the route is restored exactly; otherwise a new one.        *)
IsRevision(o, id, r) == id \in Defined /\ definition[id].owner = o /\ RouteIn(id) = r

SavedInPlace(o, r, id) ==
    IF definition[CurrentId(o)].owner = o THEN id = CurrentId(o) ELSE id = NextRevision(o)
SavedUnder(o, r, id) ==
    IF IsRevision(o, CurrentId(o), r) THEN id = CurrentId(o)
    ELSE IF \E j \in Ids : IsRevision(o, j, r) THEN IsRevision(o, id, r)
    ELSE id = NextRevision(o)

(* The transaction of save_workflow_route, under chain_mutex.              *)
SaveRoute(o, r) ==
    /\ editor = None
    /\ CurrentId(o) # NoId
    /\ \E id \in Ids :
           /\ SavedUnder(o, r, id)
           /\ definition' = [j \in Ids |->
                  CASE j = id -> [owner |-> o, isDefault |-> o = Template]
                    [] j # id /\ definition[j] # None /\ o = Template ->
                           [definition[j] EXCEPT !.isDefault = FALSE]
                    [] OTHER -> definition[j]]
           /\ nodesOf' = [nodesOf EXCEPT ![id] = r.nodes]
           /\ edgesOf' = [edgesOf EXCEPT ![id] = r.edges]
           /\ routeOf' = IF o = Template THEN routeOf ELSE [routeOf EXCEPT ![o] = id]
           /\ editor' = [id |-> id, route |-> r]
    /\ UNCHANGED <<policy, reader, shown, policySaves>>

(* POST /api/records of a Supplier, under chain_mutex: the batch is        *)
(* created on the default route of that moment.  A Block of a later stage  *)
(* writes back the route its batch has.                                    *)
CreateBatch(b) ==
    /\ editor = None
    /\ routeOf[b] = NoId
    /\ routeOf' = [routeOf EXCEPT ![b] = DefaultRoute]
    /\ UNCHANGED <<definition, nodesOf, edgesOf, policy, editor, reader, shown, policySaves>>

-----------------------------------------------------------------------------
(* ensure_route_confirmation_policies, in one transaction.                 *)

(* The methods a stage without a row starts with: those of the same stage  *)
(* and account on another revision of the owner, else on the default       *)
(* route, else those of its role and the typed name.  Rows are compared by *)
(* the second they were written in, so any row of the class may be taken   *)
(* for the newest.                                                         *)
Inheritable(id, n) ==
    {j \in Defined \ {id} : policy[j][n.node] # None /\ policy[j][n.node].user = n.user}
MethodsIn(J, n) == {policy[j][n.node].methods : j \in J}
InitialMethods(id, n) ==
    LET own == {j \in Inheritable(id, n) : definition[j].owner = definition[id].owner}
        ofDefault == {j \in Inheritable(id, n) : definition[j].isDefault}
    IN  IF own # {} THEN MethodsIn(own, n)
        ELSE IF ofDefault # {} THEN MethodsIn(ofDefault, n)
        ELSE {LegacyOf[n.role] \cup {"typed_name"}}

(* Rows that are there keep their methods; rows of stages that are not     *)
(* connected are deleted.                                                  *)
Overwritten(id, n, m) == m
Kept(id, n, m) == IF policy[id][n.node] = None THEN m ELSE policy[id][n.node].methods
EnsurePolicies(id, nodes, edges) ==
    LET linked == {n \in nodes : n.node \in Connected(nodes, edges)}
    IN  \E initial \in [linked -> UNION {InitialMethods(id, n) : n \in linked}] :
            /\ \A n \in linked : initial[n] \in InitialMethods(id, n)
            /\ policy' = [policy EXCEPT ![id] = [k \in NodeIds |->
                   IF k \in NodesIn(linked)
                   THEN LET n == CHOOSE m \in linked : m.node = k
                        IN  [user |-> n.user, methods |-> Kept(id, n, initial[n])]
                   ELSE None]]

(* POST /api/workflow goes on with the nodes and edges of its form; if     *)
(* that fails the answer is 500 and the route stays saved.                 *)
SetUpPolicies ==
    /\ editor # None
    /\ EnsurePolicies(editor.id, editor.route.nodes, editor.route.edges)
    /\ editor' = None
    /\ UNCHANGED <<routes, reader, shown, policySaves>>

SetUpFails ==
    /\ editor # None
    /\ editor' = None
    /\ UNCHANGED <<routes, policy, reader, shown, policySaves>>

-----------------------------------------------------------------------------
(* GET ("form") and POST ("policies") /api/confirmation-policy load the    *)
(* route of a batch, the default route, or one a page names.               *)
Request(p, kind) ==
    /\ reader[p] = Idle
    /\ \E id \in ({CurrentId(o) : o \in Owners} \cup {shown[p]}) \ {NoId} :
           reader' = [reader EXCEPT
               ![p] = [kind |-> kind, id |-> id, nodes |-> None, edges |-> None, at |-> "nodes"]]
    /\ UNCHANGED <<routes, policy, editor, shown, policySaves>>

ReadNodes(p) ==
    /\ reader[p] # Idle /\ reader[p].at = "nodes"
    /\ reader' = [reader EXCEPT ![p].nodes = nodesOf[reader[p].id], ![p].at = "edges"]
    /\ UNCHANGED <<routes, policy, editor, shown, policySaves>>

ReadEdges(p) ==
    /\ reader[p] # Idle /\ reader[p].at = "edges"
    /\ reader' = [reader EXCEPT ![p].edges = edgesOf[reader[p].id], ![p].at = "loaded"]
    /\ UNCHANGED <<routes, policy, editor, shown, policySaves>>

(* GET: missing rows are set up, then the rows are read and answered.      *)
FormWithoutEnsuring(p) ==
    /\ reader[p] # Idle /\ reader[p].at = "loaded" /\ reader[p].kind = "form"
    /\ reader' = [reader EXCEPT ![p].at = "ensured"]
    /\ UNCHANGED <<routes, policy, editor, shown, policySaves>>
EnsureForForm(p) ==
    /\ reader[p] # Idle /\ reader[p].at = "loaded" /\ reader[p].kind = "form"
    /\ EnsurePolicies(reader[p].id, reader[p].nodes, reader[p].edges)
    /\ reader' = [reader EXCEPT ![p].at = "ensured"]
    /\ UNCHANGED <<routes, editor, shown, policySaves>>

ShowPolicies(p) ==
    /\ reader[p] # Idle /\ reader[p].at = "ensured"
    /\ shown' = [shown EXCEPT ![p] = reader[p].id]
    /\ reader' = [reader EXCEPT ![p] = Idle]
    /\ UNCHANGED <<routes, policy, editor, policySaves>>

(* POST: the page sends one row per stage it was shown, each with a        *)
(* method; the handler checks them against the route it loaded, and the    *)
(* transaction of save_route_confirmation_policies against the route it    *)
(* finds.                                                                  *)
StagesToSave(p) == {n \in reader[p].nodes : n.node \in Connected(reader[p].nodes, reader[p].edges)}
SavePolicies(p) ==
    /\ reader[p] # Idle /\ reader[p].at = "loaded" /\ reader[p].kind = "policies"
    /\ policySaves < MaxPolicySaves
    /\ LET id == reader[p].id
           stages == StagesToSave(p)
       IN  /\ stages # {}
           /\ NodesIn(stages) = Connected(nodesOf[id], edgesOf[id])
           /\ \E chosen \in [stages -> Selections] :
                  policy' = [policy EXCEPT ![id] = [k \in NodeIds |->
                      IF k \in NodesIn(stages)
                      THEN LET n == CHOOSE m \in stages : m.node = k
                           IN  [user |-> n.user, methods |-> chosen[n]]
                      ELSE policy[id][k]]]
    /\ policySaves' = policySaves + 1
    /\ reader' = [reader EXCEPT ![p] = Idle]
    /\ UNCHANGED <<routes, editor, shown>>

(* A request ends early: 404, 422, or 500 after a rollback.                *)
Abandon(p) ==
    /\ reader[p] # Idle
    /\ reader' = [reader EXCEPT ![p] = Idle]
    /\ UNCHANGED <<routes, policy, editor, shown, policySaves>>

-----------------------------------------------------------------------------
(* The server dies and starts again: ensure_default_workflow adds what is  *)
(* missing of the default route, by primary key.                           *)
Restart ==
    /\ definition' = IF DefaultId \in Defined THEN definition
                     ELSE [definition EXCEPT ![DefaultId] = [owner |-> Template, isDefault |-> TRUE]]
    /\ nodesOf' = [nodesOf EXCEPT ![DefaultId] = @ \cup
           {n \in FirstRoute.nodes : n.node \notin NodesIn(nodesOf[DefaultId])}]
    /\ edgesOf' = [edgesOf EXCEPT ![DefaultId] = @ \cup FirstRoute.edges]
    /\ editor' = None
    /\ reader' = [p \in Pages |-> Idle]
    /\ UNCHANGED <<policy, routeOf, shown, policySaves>>

Next ==
    \/ \E o \in Owners, r \in Routes : SaveRoute(o, r)
    \/ \E b \in Batches : CreateBatch(b)
    \/ SetUpPolicies \/ SetUpFails
    \/ \E p \in Pages :
           \/ \E kind \in {"form", "policies"} : Request(p, kind)
           \/ ReadNodes(p) \/ ReadEdges(p)
           \/ EnsureForForm(p) \/ ShowPolicies(p) \/ SavePolicies(p) \/ Abandon(p)
    \/ Restart

Spec == Init /\ [][Next]_vars

-----------------------------------------------------------------------------
(* "Historical Blocks" name the revision they were confirmed on: what a    *)
(* route ID stands for never changes, restoring a route returns to its     *)
(* revision, and a handler that reads the ID, the nodes and the edges one  *)
(* by one still gets one revision as a whole.                              *)
RevisionOf(id) ==
    IF definition[id] = None THEN None
    ELSE [owner |-> definition[id].owner, route |-> RouteIn(id)]
SeenBy(p) ==
    LET s == reader[p] IN
    IF s = Idle THEN None
    ELSE [id |-> s.id,
          revision |-> [owner |-> definition[s.id].owner,
                        route |-> [nodes |-> IF s.at = "nodes" THEN nodesOf[s.id] ELSE s.nodes,
                                   edges |-> IF s.at \in {"nodes", "edges"}
                                             THEN edgesOf[s.id] ELSE s.edges]]]
Table == INSTANCE RouteTable WITH
    First <- DefaultId,
    revision <- [id \in Ids |-> RevisionOf(id)],
    current <- [o \in Owners |-> CurrentId(o)],
    Threads <- Pages,
    seen <- [p \in Pages |-> SeenBy(p)]
ImplementsRouteTable == Table!Spec

(* "Every connected node must keep at least one method enabled": once a    *)
(* page has been given the policies of a revision, each stage on its way   *)
(* from Supplier to Supermarket has a row, for the account of the stage    *)
(* and with a method, so that the submission that follows is not refused   *)
(* for want of a policy; a server that died between saving the route and   *)
(* setting up its policies included.                                       *)
ShownStageHasPolicy ==
    \A p \in Pages : LET id == shown[p] IN id # NoId => \A n \in nodesOf[id] :
        n.node \in Connected(nodesOf[id], edgesOf[id]) =>
            /\ policy[id][n.node] # None
            /\ policy[id][n.node].user = n.user
            /\ policy[id][n.node].methods # {}

(* What an administrator has set for a stage of a revision changes only    *)
(* when an administrator saves the policies of that revision: setting up   *)
(* rows again, from a page that loaded the route long ago or after the     *)
(* route was edited or restored, neither overwrites nor deletes them.      *)
PolicyChangedOnlyBySave ==
    [][\A id \in Ids, k \in NodeIds :
          policy[id][k] # None /\ policy'[id][k] # policy[id][k] =>
              \E p \in Pages : /\ reader[p] # Idle /\ reader'[p] = Idle
                               /\ reader[p].kind = "policies" /\ reader[p].id = id]_vars
=============================================================================
