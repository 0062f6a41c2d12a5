-------------------------- MODULE WorkflowRouteProofs --------------------------
(***************************************************************************)
(* Proofs about WorkflowRoute, for any pages, batches, routes, accounts    *)
(* and bounds: what a revision stands for never changes, so a handler that *)
(* reads a route piece by piece, a save that goes on with its form, and a  *)
(* page that was shown policies long ago all speak of the same stages.     *)
(* Which stages are connected is left open: the proofs hold for any        *)
(* meaning of Connected.                                                   *)
(***************************************************************************)
EXTENDS WorkflowRoute, WellFoundedInduction, TLAPS

(* The connected stages of a revision: those that have a policy.           *)
LinkedIn(id) == {n \in nodesOf[id] : n.node \in Connected(nodesOf[id], edgesOf[id])}

AllHavePolicy(id) == \A n \in LinkedIn(id) : policy[id][n.node] # None

(* The shape of the tables.                                                *)
ShapeInv ==
    /\ definition \in [Ids -> Definition \cup {None}]
    /\ nodesOf \in [Ids -> SUBSET RouteNode]
    /\ edgesOf \in [Ids -> SUBSET (NodeIds \X NodeIds)]
    /\ policy \in [Ids -> [NodeIds -> PolicyRow \cup {None}]]
    /\ routeOf \in [Batches -> Ids \cup {NoId}]
    /\ reader \in [Pages -> Handler \cup {Idle}]
    /\ shown \in [Pages -> Ids \cup {NoId}]

(* A revision is a route of the owner its ID names, and there is one of    *)
(* each; one revision of the template is the default.                      *)
RevisionInv ==
    /\ \A id \in Ids : IF definition[id] = None
                       THEN nodesOf[id] = {} /\ edgesOf[id] = {}
                       ELSE definition[id].owner = id.base /\ RouteIn(id) \in Routes
    /\ \A i, j \in Defined : i.base = j.base /\ RouteIn(i) = RouteIn(j) => i = j
    /\ DefaultId \in Defined /\ RouteIn(DefaultId) = FirstRoute
    /\ \E id \in Defined : definition[id].isDefault
    /\ \A i, j \in Defined : definition[i].isDefault /\ definition[j].isDefault => i = j
    /\ \A id \in Defined : definition[id].isDefault => id.base = Template

(* Batches, pages and handlers name revisions that exist; what a handler   *)
(* has loaded is what is there.                                            *)
FollowInv ==
    /\ \A b \in Batches : routeOf[b] \in Defined \cup {NoId}
    /\ \A p \in Pages : shown[p] \in Defined \cup {NoId}
    /\ editor # None => /\ editor \in Saved /\ editor.id \in Defined
                        /\ RouteIn(editor.id) = editor.route
    /\ \A p \in Pages : reader[p] # Idle =>
           /\ reader[p].id \in Defined
           /\ reader[p].at # "nodes" => reader[p].nodes = nodesOf[reader[p].id]
           /\ reader[p].at \notin {"nodes", "edges"} => reader[p].edges = edgesOf[reader[p].id]

(* Policies are those of connected stages, and complete where a page was   *)
(* or is about to be shown them.                                           *)
PolicyInv ==
    /\ \A id \in Ids, k \in NodeIds : policy[id][k] # None =>
           \E n \in LinkedIn(id) : /\ n.node = k /\ policy[id][k].user = n.user
                                   /\ policy[id][k].methods # {}
    /\ \A p \in Pages : shown[p] # NoId => AllHavePolicy(shown[p])
    /\ \A p \in Pages : reader[p] # Idle /\ reader[p].at = "ensured" =>
           AllHavePolicy(reader[p].id)

IInv == ShapeInv /\ RevisionInv /\ FollowInv /\ PolicyInv

-----------------------------------------------------------------------------
(* A revision number that is not in use.                                   *)
Earlier == {p \in Nat \X Nat : p[1] < p[2]}

(* A non-empty set of numbers up to a bound has a last one.                *)
LEMMA MaxIsLast ==
    ASSUME NEW n \in Nat, NEW W \in SUBSET (0..n), W # {}
    PROVE  Max(W) \in W /\ \A y \in W : y <= Max(W)
<1> DEFINE D == {n - x : x \in W}
<1>0. \A x \in W : x \in Nat /\ x <= n /\ n - x \in Nat
  OBVIOUS
<1>1. D \in SUBSET Nat /\ D # {}
  BY <1>0
<1>2. IsWellFoundedOn(Earlier, Nat)
  <2>1. IsWellFoundedOn(OpToRel(<,Nat), Nat)
    BY NatLessThanWellFounded
  <2>2. OpToRel(<,Nat) = Earlier
    BY DEF OpToRel, Earlier
  <2> QED BY <2>1, <2>2
<1>3. PICK d \in D : \A e \in D : ~(<<e, d>> \in Earlier)
  BY <1>1, <1>2, WFMin
<1>4. PICK x \in W : d = n - x
  BY <1>3
<1>5. ASSUME NEW y \in W PROVE x >= y
  <2>1. n - y \in D /\ <<n - y, d>> \in Nat \X Nat
    BY <1>1, <1>3
  <2>2. ~(n - y < n - x)
    BY <2>1, <1>3, <1>4 DEF Earlier
  <2> QED BY <2>2, <1>0, <1>4
<1>6. Max(W) \in W /\ \A y \in W : Max(W) >= y
  BY <1>5 DEF Max
<1> QED BY <1>0, <1>6

(* The ID of a new revision names its owner and is not in use.             *)
LEMMA NextRevisionIsNew ==
    ASSUME NEW o \in Owners, NextRevision(o) \in Ids
    PROVE  NextRevision(o).base = o /\ NextRevision(o) \notin Defined
<1> DEFINE W == {id.number : id \in {j \in Defined : j.base = o}} \cup {0}
<1>1. NextRevision(o) = [base |-> o, number |-> 1 + Max(W)]
  BY DEF NextRevision
<1>2. W \in SUBSET (0..MaxRevisions) /\ W # {} /\ MaxRevisions \in Nat
  BY RouteBoundAssumption DEF Defined, Ids
<1>4. ASSUME NextRevision(o) \in Defined PROVE NextRevision(o).number \in W
  BY <1>1, <1>4
<1> HIDE DEF W
<1>3. Max(W) \in W /\ \A y \in W : y <= Max(W)
  BY <1>2, MaxIsLast
<1>6. Max(W) \in Nat
  <2>1. \A y \in W : y \in 0..MaxRevisions
    BY <1>2
  <2>2. Max(W) \in 0..MaxRevisions
    BY <1>3, <2>1
  <2> QED BY <1>2, <2>2
<1>5. NextRevision(o).base = o /\ NextRevision(o).number = 1 + Max(W)
  BY <1>1
<1> QED BY <1>3, <1>4, <1>5, <1>6

(* What the canvas guarantees of a route.                                  *)
LEMMA RouteShape ==
    ASSUME NEW r \in Routes
    PROVE  /\ r = [nodes |-> r.nodes, edges |-> r.edges]
           /\ r.nodes \in SUBSET RouteNode /\ r.edges \in SUBSET (NodeIds \X NodeIds)
           /\ \A m, n \in r.nodes : m.node = n.node => m = n
           /\ \A n \in r.nodes : n.node \in NodeIds /\ n.user \in Users /\ n.role \in Roles
<1>1. r \in [nodes : SUBSET RouteNode, edges : SUBSET (NodeIds \X NodeIds)]
  BY RouteAssumption
<1>2. \A m, n \in r.nodes : m.node = n.node => m = n
  BY RouteAssumption
<1>3. \A n \in RouteNode : n.node \in NodeIds /\ n.user \in Users /\ n.role \in Roles
  BY DEF RouteNode
<1> QED BY <1>1, <1>2, <1>3

-----------------------------------------------------------------------------
(* What a save of a route does to the tables: it returns to the revision   *)
(* the owner has of this route, or adds one under an ID not in use.        *)
SavedAs(o, r, id) ==
    /\ id \in Ids /\ id.base = o
    /\ definition'[id] \in Definition /\ definition'[id].owner = o
    /\ definition'[id].isDefault <=> o = Template
    /\ \A j \in Ids \ {id} : definition[j] = None => definition'[j] = None
    /\ \A j \in Defined \ {id} :
           /\ definition'[j] \in Definition /\ definition'[j].owner = definition[j].owner
           /\ definition'[j].isDefault <=> definition[j].isDefault /\ o # Template
    /\ nodesOf'[id] = r.nodes /\ edgesOf'[id] = r.edges
    /\ \A j \in Ids \ {id} : nodesOf'[j] = nodesOf[j] /\ edgesOf'[j] = edgesOf[j]
    /\ IF id \in Defined THEN RouteIn(id) = r
       ELSE \A j \in Defined : ~(j.base = o /\ RouteIn(j) = r)

LEMMA SaveEffect ==
    ASSUME ShapeInv, RevisionInv, NEW o \in Owners, NEW r \in Routes, SaveRoute(o, r)
    PROVE  \E id \in Ids :
               /\ SavedAs(o, r, id)
               /\ routeOf' = IF o = Template THEN routeOf ELSE [routeOf EXCEPT ![o] = id]
               /\ editor' = [id |-> id, route |-> r]
<1>1. PICK id \in Ids :
          /\ SavedUnder(o, r, id)
          /\ definition' = [j \in Ids |->
                 CASE j = id -> [owner |-> o, isDefault |-> o = Template]
                   [] j # id /\ definition[j] # None /\ o = Template ->
                          [definition[j] EXCEPT !.isDefault = FALSE]
                   [] OTHER -> definition[j]]
          /\ nodesOf' = [nodesOf EXCEPT ![id] = r.nodes]
          /\ edgesOf' = [edgesOf EXCEPT ![id] = r.edges]
          /\ routeOf' = IF o = Template THEN routeOf ELSE [routeOf EXCEPT ![o] = id]
          /\ editor' = [id |-> id, route |-> r]
  BY DEF SaveRoute
<1>2. definition'[id] = [owner |-> o, isDefault |-> o = Template]
  BY <1>1
<1>3. /\ definition'[id] \in Definition /\ definition'[id].owner = o
      /\ definition'[id].isDefault <=> o = Template
  <2>1. CASE o = Template
    <3>1. definition'[id] = [owner |-> o, isDefault |-> TRUE]
      BY <1>2, <2>1
    <3> QED BY <2>1, <3>1 DEF Definition
  <2>2. CASE o # Template
    <3>1. definition'[id] = [owner |-> o, isDefault |-> FALSE]
      BY <1>2, <2>2
    <3> QED BY <2>2, <3>1 DEF Definition
  <2> QED BY <2>1, <2>2
<1>4. \A j \in Ids \ {id} : definition[j] = None \/ o # Template => definition'[j] = definition[j]
  BY <1>1
<1>5. \A j \in Defined \ {id} : o = Template =>
          definition'[j] = [definition[j] EXCEPT !.isDefault = FALSE]
  BY <1>1 DEF Defined
<1>6. \A j \in Defined : j \in Ids /\ definition[j] \in Definition
  BY DEF Defined, ShapeInv
<1>7. \A d \in Definition :
          /\ [d EXCEPT !.isDefault = FALSE] \in Definition
          /\ [d EXCEPT !.isDefault = FALSE].owner = d.owner
          /\ [d EXCEPT !.isDefault = FALSE].isDefault = FALSE
  BY DEF Definition
<1>8. ASSUME NEW j \in Defined \ {id}
      PROVE  /\ definition'[j] \in Definition /\ definition'[j].owner = definition[j].owner
             /\ definition'[j].isDefault <=> definition[j].isDefault /\ o # Template
  BY <1>4, <1>5, <1>6, <1>7
<1>9. /\ nodesOf'[id] = r.nodes /\ edgesOf'[id] = r.edges
      /\ \A j \in Ids \ {id} : nodesOf'[j] = nodesOf[j] /\ edgesOf'[j] = edgesOf[j]
  BY <1>1 DEF ShapeInv
<1>10. \A j \in Ids : IsRevision(o, j, r) <=> j \in Defined /\ j.base = o /\ RouteIn(j) = r
  BY DEF IsRevision, RevisionInv, Defined
<1>11. \/ IsRevision(o, id, r)
       \/ id = NextRevision(o) /\ \A j \in Ids : ~IsRevision(o, j, r)
  <2>1. IsRevision(o, CurrentId(o), r) => CurrentId(o) \in Ids
    BY <1>6 DEF IsRevision
  <2> QED BY <1>1, <2>1 DEF SavedUnder
<1>12. /\ id.base = o
       /\ IF id \in Defined THEN RouteIn(id) = r
          ELSE \A j \in Defined : ~(j.base = o /\ RouteIn(j) = r)
  BY <1>6, <1>10, <1>11, NextRevisionIsNew
<1>13. SavedAs(o, r, id)
  BY <1>3, <1>4, <1>8, <1>9, <1>12 DEF SavedAs
<1> QED BY <1>1, <1>13

(* Setting up the policies of a revision adds a row, with a method, for    *)
(* each connected stage that has none, and touches no other row.           *)
LEMMA EnsureEffect ==
    ASSUME ShapeInv, RevisionInv, PolicyInv, NEW id \in Defined,
           EnsurePolicies(id, nodesOf[id], edgesOf[id])
    PROVE  /\ policy' \in [Ids -> [NodeIds -> PolicyRow \cup {None}]]
           /\ \A j \in Ids, k \in NodeIds :
                  policy[j][k] # None \/ j # id => policy'[j][k] = policy[j][k]
           /\ \A k \in NodeIds : policy'[id][k] # None =>
                  \E n \in LinkedIn(id) : /\ n.node = k /\ policy'[id][k].user = n.user
                                          /\ policy'[id][k].methods # {}
           /\ \A n \in LinkedIn(id) : policy'[id][n.node] # None
<1> DEFINE L == LinkedIn(id)
           row(k, f) == LET n == CHOOSE m \in L : m.node = k
                        IN  [user |-> n.user, methods |-> Kept(id, n, f[n])]
<1>0. /\ id \in Ids /\ RouteIn(id) \in Routes /\ L \subseteq nodesOf[id]
      /\ policy \in [Ids -> [NodeIds -> PolicyRow \cup {None}]]
  BY DEF Defined, RevisionInv, ShapeInv, LinkedIn
<1>1. /\ \A m, n \in L : m.node = n.node => m = n
      /\ \A n \in L : n.node \in NodeIds /\ n.user \in Users /\ n.role \in Roles
  <2>1. nodesOf[id] = RouteIn(id).nodes
    BY DEF RouteIn
  <2> QED BY <1>0, <2>1, RouteShape
<1>2. PICK f \in [L -> UNION {InitialMethods(id, n) : n \in L}] :
          /\ \A n \in L : f[n] \in InitialMethods(id, n)
          /\ policy' = [policy EXCEPT ![id] = [k \in NodeIds |->
                 IF k \in NodesIn(L) THEN row(k, f) ELSE None]]
  BY DEF EnsurePolicies, LinkedIn
<1>3. ASSUME NEW n \in L
      PROVE  \A M \in InitialMethods(id, n) : M # {} /\ M \in SUBSET Methods
  <2>1. \A j \in Defined, k \in NodeIds : policy[j][k] # None =>
            policy[j][k].methods # {} /\ policy[j][k].methods \in SUBSET Methods
    <3>1. \A j \in Defined : j \in Ids
      BY DEF Defined
    <3>2. \A j \in Ids, k \in NodeIds : policy[j][k] # None => policy[j][k] \in PolicyRow
      BY <1>0
    <3> QED BY <3>1, <3>2 DEF PolicyInv, PolicyRow
  <2>2. \A J \in SUBSET Inheritable(id, n) : \A M \in MethodsIn(J, n) :
            M # {} /\ M \in SUBSET Methods
    BY <1>1, <2>1 DEF Inheritable, MethodsIn
  <2>3. LegacyOf[n.role] \cup {"typed_name"} \in SUBSET Methods
    BY <1>1, PolicyAssumption DEF Methods
  <2> QED BY <2>2, <2>3 DEF InitialMethods
<1>4. ASSUME NEW n \in L
      PROVE  row(n.node, f) = [user |-> n.user, methods |-> Kept(id, n, f[n])]
  <2>1. (CHOOSE m \in L : m.node = n.node) = n
    BY <1>1
  <2> QED BY <2>1
<1> HIDE DEF row, L
<1>5. \A k \in NodeIds : IF k \in NodesIn(L) THEN policy'[id][k] = row(k, f)
                         ELSE policy'[id][k] = None
  BY <1>0, <1>2
<1>6. ASSUME NEW n \in L
      PROVE  /\ policy'[id][n.node] \in PolicyRow /\ policy'[id][n.node].user = n.user
             /\ policy'[id][n.node].methods # {}
             /\ policy[id][n.node] # None => policy'[id][n.node] = policy[id][n.node]
  <2>1. policy'[id][n.node] = [user |-> n.user, methods |-> Kept(id, n, f[n])]
    BY <1>1, <1>4, <1>5 DEF NodesIn
  <2>2. n.node \in NodeIds /\ n.user \in Users /\ f[n] # {} /\ f[n] \in SUBSET Methods
    BY <1>1, <1>2, <1>3
  <2>3. CASE policy[id][n.node] = None
    BY <2>1, <2>2, <2>3 DEF Kept, PolicyRow
  <2>4. CASE policy[id][n.node] # None
    <3>1. policy[id][n.node] \in PolicyRow
      BY <1>0, <2>2, <2>4
    <3>2. PICK m \in L : /\ m.node = n.node /\ policy[id][n.node].user = m.user
                         /\ policy[id][n.node].methods # {}
      BY <1>0, <2>2, <2>4 DEF PolicyInv, L
    <3>3. m = n
      BY <1>1, <3>2
    <3>4. policy[id][n.node] = [user |-> policy[id][n.node].user,
                                methods |-> policy[id][n.node].methods]
      BY <3>1 DEF PolicyRow
    <3>5. policy'[id][n.node] = policy[id][n.node]
      BY <2>1, <2>4, <3>2, <3>3, <3>4 DEF Kept
    <3> QED BY <3>1, <3>2, <3>3, <3>5
  <2> QED BY <2>3, <2>4
<1>7. \A k \in NodeIds : policy'[id][k] # None \/ policy[id][k] # None => \E n \in L : n.node = k
  <2>1. \A k \in NodeIds : policy[id][k] # None => \E n \in L : n.node = k
    BY <1>0 DEF PolicyInv, L
  <2> QED BY <1>5, <2>1 DEF NodesIn
<1>8. \A k \in NodeIds : policy'[id][k] \in PolicyRow \cup {None}
  BY <1>5, <1>6, <1>7
<1>9. /\ \A j \in Ids \ {id} : policy'[j] = policy[j]
      /\ DOMAIN policy' = Ids /\ policy'[id] = [k \in NodeIds |-> policy'[id][k]]
      /\ policy' = [j \in Ids |-> policy'[j]]
  BY <1>0, <1>2
<1>10. policy' \in [Ids -> [NodeIds -> PolicyRow \cup {None}]]
  <2>1. policy'[id] \in [NodeIds -> PolicyRow \cup {None}]
    BY <1>8, <1>9
  <2> QED BY <1>0, <1>9, <2>1
<1>11. \A n \in L : policy'[id][n.node] # None
  BY <1>6, NoValueAssumption
<1>12. \A j \in Ids, k \in NodeIds :
           policy[j][k] # None \/ j # id => policy'[j][k] = policy[j][k]
  BY <1>6, <1>7, <1>9
<1>13. \A k \in NodeIds : policy'[id][k] # None =>
           \E n \in L : /\ n.node = k /\ policy'[id][k].user = n.user
                       /\ policy'[id][k].methods # {}
  BY <1>6, <1>7
<1> QED BY <1>10, <1>11, <1>12, <1>13 DEF L

-----------------------------------------------------------------------------
(* A restart finds the default route in place and adds nothing to it.      *)
LEMMA RestartEffect ==
    ASSUME ShapeInv, RevisionInv, Restart
    PROVE  /\ UNCHANGED <<definition, nodesOf, edgesOf, routeOf, policy, shown>>
           /\ editor' = None /\ reader' = [p \in Pages |-> Idle]
<1>1. DefaultId \in Ids /\ DefaultId \in Defined
  BY DEF RevisionInv, Defined
<1>2. nodesOf[DefaultId] = FirstRoute.nodes /\ edgesOf[DefaultId] = FirstRoute.edges
  <2>1. RouteIn(DefaultId).nodes = nodesOf[DefaultId] /\ RouteIn(DefaultId).edges = edgesOf[DefaultId]
    BY DEF RouteIn
  <2> QED BY <2>1 DEF RevisionInv
<1>3. {n \in FirstRoute.nodes : n.node \notin NodesIn(nodesOf[DefaultId])} = {}
  BY <1>2 DEF NodesIn
<1>4. nodesOf' = [nodesOf EXCEPT ![DefaultId] = nodesOf[DefaultId] \cup {}]
  BY <1>3 DEF Restart
<1>5. edgesOf' = [edgesOf EXCEPT ![DefaultId] = edgesOf[DefaultId] \cup FirstRoute.edges]
  BY DEF Restart
<1>6. nodesOf' = nodesOf
  BY <1>4 DEF ShapeInv
<1>7. edgesOf' = edgesOf
  BY <1>2, <1>5 DEF ShapeInv
<1> QED BY <1>1, <1>6, <1>7 DEF Restart

(* Only a save of a route writes the route tables.                         *)
LEMMA TablesChangeBySave ==
    ASSUME IInv, [Next]_vars
    PROVE  \/ \E o \in Owners, r \in Routes : SaveRoute(o, r)
           \/ UNCHANGED <<definition, nodesOf, edgesOf>>
<1>1. Restart => UNCHANGED <<definition, nodesOf, edgesOf>>
  BY RestartEffect DEF IInv
<1>2. (\E b \in Batches : CreateBatch(b)) => UNCHANGED <<definition, nodesOf, edgesOf>>
  BY DEF CreateBatch
<1>3. SetUpPolicies \/ SetUpFails => UNCHANGED <<definition, nodesOf, edgesOf>>
  BY DEF SetUpPolicies, SetUpFails, routes
<1>4. ASSUME NEW p \in Pages,
             \/ \E kind \in {"form", "policies"} : Request(p, kind)
             \/ ReadNodes(p) \/ ReadEdges(p)
             \/ EnsureForForm(p) \/ ShowPolicies(p) \/ SavePolicies(p) \/ Abandon(p)
      PROVE  UNCHANGED <<definition, nodesOf, edgesOf>>
  BY <1>4 DEF Request, ReadNodes, ReadEdges, EnsureForForm, ShowPolicies, SavePolicies,
              Abandon, routes
<1>5. UNCHANGED vars => UNCHANGED <<definition, nodesOf, edgesOf>>
  BY DEF vars, routes
<1> QED BY <1>1, <1>2, <1>3, <1>4, <1>5 DEF Next

(* The default route exists, and so does the route an owner follows.       *)
LEMMA CurrentExists ==
    ASSUME RevisionInv, FollowInv
    PROVE  /\ DefaultRoute \in Defined /\ definition[DefaultRoute].isDefault
           /\ \A o \in Owners : CurrentId(o) \in Defined \cup {NoId}
<1>1. DefaultRoute \in Defined /\ definition[DefaultRoute].isDefault
  <2> DEFINE D == {id \in Defined : definition[id].isDefault}
  <2>1. D # {}
    BY DEF RevisionInv
  <2>2. DefaultRoute \in D
    BY <2>1 DEF DefaultRoute
  <2> QED BY <2>2
<1> QED BY <1>1 DEF CurrentId, FollowInv, Owners

(* What a revision stands for never changes, and the tables stay a table   *)
(* of revisions.                                                           *)
LEMMA RevisionsStand ==
    ASSUME IInv, [Next]_vars
    PROVE  /\ RevisionInv'
           /\ definition' \in [Ids -> Definition \cup {None}]
           /\ nodesOf' \in [Ids -> SUBSET RouteNode]
           /\ edgesOf' \in [Ids -> SUBSET (NodeIds \X NodeIds)]
           /\ \A id \in Defined : /\ id \in Defined' /\ nodesOf'[id] = nodesOf[id]
                                  /\ edgesOf'[id] = edgesOf[id]
<1>0. ShapeInv /\ RevisionInv
  BY DEF IInv
<1>1. CASE UNCHANGED <<definition, nodesOf, edgesOf>>
  BY <1>0, <1>1 DEF ShapeInv, RevisionInv, Defined, RouteIn
<1>2. ASSUME NEW o \in Owners, NEW r \in Routes, SaveRoute(o, r)
      PROVE  /\ RevisionInv'
             /\ definition' \in [Ids -> Definition \cup {None}]
             /\ nodesOf' \in [Ids -> SUBSET RouteNode]
             /\ edgesOf' \in [Ids -> SUBSET (NodeIds \X NodeIds)]
             /\ \A id \in Defined : /\ id \in Defined' /\ nodesOf'[id] = nodesOf[id]
                                    /\ edgesOf'[id] = edgesOf[id]
  <2>1. PICK id \in Ids : SavedAs(o, r, id)
    BY <1>0, <1>2, SaveEffect
  <2>2. \A j \in Defined : j \in Ids /\ definition[j] # None
    BY DEF Defined
  <2>3. RouteIn(id)' = r /\ r.nodes \in SUBSET RouteNode /\ r.edges \in SUBSET (NodeIds \X NodeIds)
    BY <2>1, RouteShape DEF SavedAs, RouteIn
  <2>4. \A j \in Ids \ {id} : RouteIn(j)' = RouteIn(j)
    BY <2>1 DEF SavedAs, RouteIn
  <2>5. ASSUME NEW j \in Ids
        PROVE  /\ j \in Defined' <=> j \in Defined \/ j = id
               /\ j \in Defined' => definition'[j] \in Definition
    BY <2>1, NoValueAssumption DEF SavedAs, Defined
  <2>6. definition' \in [Ids -> Definition \cup {None}]
    <3>1. \A j \in Ids : definition'[j] \in Definition \cup {None}
      BY <2>5 DEF Defined
    <3>2. definition' = [j \in Ids |-> definition'[j]]
      BY <1>2 DEF SaveRoute
    <3> QED BY <3>1, <3>2
  <2>7. /\ nodesOf' \in [Ids -> SUBSET RouteNode]
        /\ edgesOf' \in [Ids -> SUBSET (NodeIds \X NodeIds)]
    BY <1>0, <1>2, <2>3 DEF SaveRoute, ShapeInv
  <2>8. \A j \in Defined : nodesOf'[j] = nodesOf[j] /\ edgesOf'[j] = edgesOf[j]
    <3>1. id \in Defined => nodesOf[id] = r.nodes /\ edgesOf[id] = r.edges
      BY <2>1 DEF SavedAs, RouteIn
    <3> QED BY <2>1, <2>2, <3>1 DEF SavedAs
  <2>9. RevisionInv'
    <3>1. ASSUME NEW j \in Ids
          PROVE  IF definition'[j] = None
                 THEN nodesOf'[j] = {} /\ edgesOf'[j] = {}
                 ELSE definition'[j].owner = j.base /\ RouteIn(j)' \in Routes
      <4>1. CASE j = id
        BY <2>1, <2>3, <4>1, NoValueAssumption DEF SavedAs
      <4>2. CASE j # id /\ definition[j] = None
        BY <1>0, <2>1, <4>2 DEF SavedAs, RevisionInv
      <4>3. CASE j # id /\ definition[j] # None
        <5>1. j \in Defined \ {id}
          BY <4>3 DEF Defined
        <5>2. definition'[j] # None /\ definition'[j].owner = definition[j].owner
          BY <2>1, <5>1, NoValueAssumption DEF SavedAs
        <5> QED BY <1>0, <2>4, <4>3, <5>2 DEF RevisionInv
      <4> QED BY <4>1, <4>2, <4>3
    <3>2. ASSUME NEW i \in Defined', NEW j \in Defined', i.base = j.base, RouteIn(i)' = RouteIn(j)'
          PROVE  i = j
      <4>1. i \in Ids /\ j \in Ids
        BY DEF Defined
      <4>2. CASE i # id /\ j # id
        BY <1>0, <2>4, <2>5, <3>2, <4>1, <4>2 DEF RevisionInv
      <4>3. ASSUME NEW k \in Defined, k # id, k.base = o, RouteIn(k) = r
            PROVE  FALSE
        <5>1. id \in Defined /\ RouteIn(id) = r /\ id.base = o
          BY <2>1, <4>3 DEF SavedAs
        <5> QED BY <1>0, <4>3, <5>1 DEF RevisionInv
      <4>4. CASE i = id \/ j = id
        BY <2>1, <2>3, <2>4, <2>5, <3>2, <4>1, <4>3, <4>4 DEF SavedAs
      <4> QED BY <4>2, <4>4
    <3>3. DefaultId \in Defined' /\ RouteIn(DefaultId)' = FirstRoute
      <4>1. DefaultId \in Defined /\ RouteIn(DefaultId) = FirstRoute
        BY <1>0 DEF RevisionInv
      <4> QED BY <2>2, <2>5, <2>8, <4>1 DEF RouteIn
    <3>4. ASSUME NEW j \in Ids \ {id}
          PROVE  j \in Defined' /\ definition'[j].isDefault <=>
                     j \in Defined /\ definition[j].isDefault /\ o # Template
      BY <2>1, <2>5 DEF SavedAs
    <3>5. id \in Defined' /\ (definition'[id].isDefault <=> o = Template) /\ id.base = o
      BY <2>1, <2>5 DEF SavedAs
    <3>6. \E j \in Defined' : definition'[j].isDefault
      <4>1. CASE o = Template
        BY <3>5, <4>1
      <4>2. CASE o # Template
        <5>1. PICK j \in Defined : definition[j].isDefault
          BY <1>0 DEF RevisionInv
        <5>2. j.base = Template /\ j # id /\ j \in Ids
          BY <1>0, <2>2, <3>5, <4>2, <5>1 DEF RevisionInv
        <5> QED BY <3>4, <4>2, <5>1, <5>2
      <4> QED BY <4>1, <4>2
    <3>7. ASSUME NEW i \in Defined', NEW j \in Defined',
                 definition'[i].isDefault, definition'[j].isDefault
          PROVE  i = j
      <4>1. i \in Ids /\ j \in Ids
        BY DEF Defined
      <4> QED BY <1>0, <3>4, <3>5, <3>7, <4>1 DEF RevisionInv
    <3>8. ASSUME NEW j \in Defined', definition'[j].isDefault
          PROVE  j.base = Template
      <4>1. j \in Ids
        BY DEF Defined
      <4> QED BY <1>0, <3>4, <3>5, <3>8, <4>1 DEF RevisionInv
    <3> QED BY <3>1, <3>2, <3>3, <3>6, <3>7, <3>8 DEF RevisionInv
  <2> QED BY <2>2, <2>5, <2>6, <2>7, <2>8, <2>9
<1> QED BY <1>1, <1>2, TablesChangeBySave

(* What a step does to the handler of a page: it ends, or it has loaded    *)
(* one more part of a revision that exists.                                *)
LEMMA ReaderEffect ==
    ASSUME IInv, [Next]_vars
    PROVE  /\ reader' = [q \in Pages |-> reader'[q]]
           /\ \A q \in Pages :
                \/ reader'[q] = reader[q]
                \/ reader'[q] = Idle
                \/ /\ reader'[q] \in Handler /\ reader'[q].id \in Defined
                   /\ reader'[q].at # "nodes" => reader'[q].nodes = nodesOf[reader'[q].id]
                   /\ reader'[q].at \notin {"nodes", "edges"} =>
                          reader'[q].edges = edgesOf[reader'[q].id]
                   /\ reader'[q].at = "ensured" =>
                          EnsureForForm(q) /\ reader'[q].id = reader[q].id
<1> DEFINE Loaded(q) ==
               /\ reader'[q] \in Handler /\ reader'[q].id \in Defined
               /\ reader'[q].at # "nodes" => reader'[q].nodes = nodesOf[reader'[q].id]
               /\ reader'[q].at \notin {"nodes", "edges"} =>
                      reader'[q].edges = edgesOf[reader'[q].id]
               /\ reader'[q].at = "ensured" =>
                      EnsureForForm(q) /\ reader'[q].id = reader[q].id
           Goal == /\ reader' = [q \in Pages |-> reader'[q]]
                   /\ \A q \in Pages : reader'[q] = reader[q] \/ reader'[q] = Idle \/ Loaded(q)
<1>0. ShapeInv /\ RevisionInv /\ FollowInv /\ reader \in [Pages -> Handler \cup {Idle}]
  BY DEF IInv, ShapeInv
<1>1. CASE UNCHANGED reader
  BY <1>0, <1>1
<1>2. CASE Restart
  BY <1>2 DEF Restart
<1>3. ASSUME NEW p \in Pages, NEW h \in Handler, reader' = [reader EXCEPT ![p] = h],
             Loaded(p)
      PROVE  Goal
  BY <1>0, <1>3
<1>4. ASSUME NEW p \in Pages, NEW kind \in {"form", "policies"}, Request(p, kind)
      PROVE  Goal
  <2>1. PICK id \in ({CurrentId(o) : o \in Owners} \cup {shown[p]}) \ {NoId} :
            reader' = [reader EXCEPT
               ![p] = [kind |-> kind, id |-> id, nodes |-> None, edges |-> None, at |-> "nodes"]]
    BY <1>4 DEF Request
  <2> DEFINE h == [kind |-> kind, id |-> id, nodes |-> None, edges |-> None, at |-> "nodes"]
  <2>2. id \in Defined
    BY <1>0, CurrentExists DEF FollowInv
  <2>3. h \in Handler /\ h.id = id /\ h.at = "nodes"
    <3>1. id \in Ids
      <4>1. \A j \in Defined : j \in Ids
        BY DEF Defined
      <4> QED BY <2>2, <4>1
    <3>2. /\ None \in (SUBSET RouteNode) \cup {None}
          /\ None \in (SUBSET (NodeIds \X NodeIds)) \cup {None}
      OBVIOUS
    <3>3. h \in Handler
      BY <3>1, <3>2, Zenon DEF Handler
    <3> QED BY <3>3
  <2>4. reader'[p] = h
    BY <1>0, <2>1
  <2> HIDE DEF h
  <2>5. Loaded(p)
    BY <2>2, <2>3, <2>4
  <2>6. reader' = [reader EXCEPT ![p] = h]
    BY <2>1 DEF h
  <2> QED BY <1>3, <2>3, <2>5, <2>6
<1>5. ASSUME NEW p \in Pages, ReadNodes(p)
      PROVE  Goal
  <2> DEFINE h == [reader[p] EXCEPT !.nodes = nodesOf[reader[p].id], !.at = "edges"]
  <2>1. reader[p] \in Handler /\ reader[p].id \in Defined
    BY <1>0, <1>5 DEF ReadNodes, FollowInv
  <2>2. nodesOf[reader[p].id] \in SUBSET RouteNode
    BY <1>0, <2>1 DEF ShapeInv, Defined
  <2>3. /\ h \in Handler /\ h.id = reader[p].id /\ h.at = "edges"
        /\ h.nodes = nodesOf[reader[p].id]
    BY <2>1, <2>2 DEF Handler
  <2>4. reader' = [reader EXCEPT ![p] = h]
    BY <1>5 DEF ReadNodes
  <2> HIDE DEF h
  <2>5. Loaded(p)
    BY <1>0, <2>1, <2>3, <2>4
  <2> QED BY <1>3, <2>3, <2>4, <2>5
<1>6. ASSUME NEW p \in Pages, ReadEdges(p)
      PROVE  Goal
  <2> DEFINE h == [reader[p] EXCEPT !.edges = edgesOf[reader[p].id], !.at = "loaded"]
  <2>1. /\ reader[p] \in Handler /\ reader[p].id \in Defined
        /\ reader[p].nodes = nodesOf[reader[p].id]
    BY <1>0, <1>6 DEF ReadEdges, FollowInv
  <2>2. edgesOf[reader[p].id] \in SUBSET (NodeIds \X NodeIds)
    BY <1>0, <2>1 DEF ShapeInv, Defined
  <2>3. /\ h \in Handler /\ h.id = reader[p].id /\ h.at = "loaded"
        /\ h.edges = edgesOf[reader[p].id] /\ h.nodes = reader[p].nodes
    BY <2>1, <2>2 DEF Handler
  <2>4. reader' = [reader EXCEPT ![p] = h]
    BY <1>6 DEF ReadEdges
  <2> HIDE DEF h
  <2>5. Loaded(p)
    BY <1>0, <2>1, <2>3, <2>4
  <2> QED BY <1>3, <2>3, <2>4, <2>5
<1>7. ASSUME NEW p \in Pages, EnsureForForm(p)
      PROVE  Goal
  <2> DEFINE h == [reader[p] EXCEPT !.at = "ensured"]
  <2>1. /\ reader[p] \in Handler /\ reader[p].id \in Defined
        /\ reader[p].nodes = nodesOf[reader[p].id] /\ reader[p].edges = edgesOf[reader[p].id]
    BY <1>0, <1>7 DEF EnsureForForm, FollowInv
  <2>2. /\ h \in Handler /\ h.id = reader[p].id /\ h.at = "ensured"
        /\ h.edges = reader[p].edges /\ h.nodes = reader[p].nodes
    BY <2>1 DEF Handler
  <2>3. reader' = [reader EXCEPT ![p] = h]
    BY <1>7 DEF EnsureForForm
  <2> HIDE DEF h
  <2>4. reader'[p] = h
    BY <1>0, <2>3
  <2>5. Loaded(p)
    BY <1>7, <2>1, <2>2, <2>4
  <2> QED BY <1>3, <2>2, <2>3, <2>5
<1>8. ASSUME NEW p \in Pages, ShowPolicies(p) \/ SavePolicies(p) \/ Abandon(p)
      PROVE  Goal
  <2>1. reader' = [reader EXCEPT ![p] = Idle]
    BY <1>8 DEF ShowPolicies, SavePolicies, Abandon
  <2> QED BY <1>0, <2>1
<1>9. CASE \/ \E o \in Owners, r \in Routes : SaveRoute(o, r)
           \/ \E b \in Batches : CreateBatch(b)
           \/ SetUpPolicies \/ SetUpFails \/ UNCHANGED vars
  BY <1>1, <1>9 DEF SaveRoute, CreateBatch, SetUpPolicies, SetUpFails, vars
<1>10. Goal
  BY <1>2, <1>4, <1>5, <1>6, <1>7, <1>8, <1>9 DEF Next
<1> QED BY <1>10

(* Policies are saved for exactly the connected stages of the revision the *)
(* handler loaded, each with a method.                                     *)
LEMMA SaveKeepsPolicies ==
    ASSUME IInv, NEW p \in Pages, SavePolicies(p)
    PROVE  /\ reader[p].id \in Defined
           /\ policy' \in [Ids -> [NodeIds -> PolicyRow \cup {None}]]
           /\ \A j \in Ids \ {reader[p].id} : policy'[j] = policy[j]
           /\ \A k \in NodeIds :
                  policy[reader[p].id][k] # None => policy'[reader[p].id][k] # None
           /\ \A k \in NodeIds : policy'[reader[p].id][k] # None =>
                  \E n \in LinkedIn(reader[p].id) :
                      /\ n.node = k /\ policy'[reader[p].id][k].user = n.user
                      /\ policy'[reader[p].id][k].methods # {}
<1> DEFINE id == reader[p].id
           L == LinkedIn(id)
           row(k, f) == LET n == CHOOSE m \in L : m.node = k
                        IN  [user |-> n.user, methods |-> f[n]]
<1>0. /\ id \in Ids /\ id \in Defined /\ RouteIn(id) \in Routes /\ L \subseteq nodesOf[id]
      /\ policy \in [Ids -> [NodeIds -> PolicyRow \cup {None}]]
  BY DEF IInv, Defined, RevisionInv, ShapeInv, FollowInv, LinkedIn, SavePolicies
<1>1. /\ \A m, n \in L : m.node = n.node => m = n
      /\ \A n \in L : n.node \in NodeIds /\ n.user \in Users
  <2>1. nodesOf[id] = RouteIn(id).nodes
    BY DEF RouteIn
  <2> QED BY <1>0, <2>1, RouteShape
<1>2. StagesToSave(p) = L
  <2>1. reader[p].nodes = nodesOf[id] /\ reader[p].edges = edgesOf[id]
    BY DEF IInv, FollowInv, SavePolicies
  <2> QED BY <2>1 DEF StagesToSave, LinkedIn
<1>3. PICK f \in [L -> Selections] :
          policy' = [policy EXCEPT ![id] = [k \in NodeIds |->
              IF k \in NodesIn(L) THEN row(k, f) ELSE policy[id][k]]]
  <2> DEFINE Saves(S) == \E f \in [S -> Selections] :
                 policy' = [policy EXCEPT ![id] = [k \in NodeIds |->
                     IF k \in NodesIn(S)
                     THEN LET n == CHOOSE m \in S : m.node = k
                          IN  [user |-> n.user, methods |-> f[n]]
                     ELSE policy[id][k]]]
  <2>1. Saves(StagesToSave(p))
    BY Zenon DEF SavePolicies
  <2> HIDE DEF Saves, L
  <2>2. Saves(L)
    BY <1>2, <2>1
  <2> QED BY <2>2, Zenon DEF Saves
<1>4. ASSUME NEW n \in L
      PROVE  row(n.node, f) = [user |-> n.user, methods |-> f[n]]
  <2>1. (CHOOSE m \in L : m.node = n.node) = n
    BY <1>1
  <2> QED BY <2>1
<1>5. \A n \in L : f[n] # {} /\ f[n] \in SUBSET Methods
  BY PolicyAssumption
<1>6. \A k \in NodeIds : policy[id][k] # None =>
          \E n \in L : /\ n.node = k /\ policy[id][k].user = n.user
                      /\ policy[id][k].methods # {}
  BY <1>0 DEF IInv, PolicyInv
<1> HIDE DEF row, L, id
<1>7. /\ \A j \in Ids \ {id} : policy'[j] = policy[j]
      /\ DOMAIN policy' = Ids /\ policy'[id] = [k \in NodeIds |-> policy'[id][k]]
      /\ policy' = [j \in Ids |-> policy'[j]]
      /\ \A k \in NodeIds : IF k \in NodesIn(L) THEN policy'[id][k] = row(k, f)
                             ELSE policy'[id][k] = policy[id][k]
  BY <1>0, <1>3
<1>8. ASSUME NEW n \in L
      PROVE  /\ policy'[id][n.node] \in PolicyRow /\ policy'[id][n.node].user = n.user
             /\ policy'[id][n.node].methods # {} /\ policy'[id][n.node] # None
  <2>1. n.node \in NodeIds /\ n.node \in NodesIn(L) /\ n.user \in Users
    BY <1>1 DEF NodesIn
  <2>2. policy'[id][n.node] = [user |-> n.user, methods |-> f[n]]
    BY <1>4, <1>7, <2>1
  <2> QED BY <1>5, <2>1, <2>2, NoValueAssumption DEF PolicyRow
<1>9. \A k \in NodeIds : \/ \E n \in L : n.node = k
                         \/ policy'[id][k] = policy[id][k] /\ policy[id][k] = None
  BY <1>6, <1>7 DEF NodesIn
<1>10. policy'[id] \in [NodeIds -> PolicyRow \cup {None}]
  <2>1. \A k \in NodeIds : policy'[id][k] \in PolicyRow \cup {None}
    BY <1>8, <1>9
  <2> QED BY <1>7, <2>1
<1>11. policy' \in [Ids -> [NodeIds -> PolicyRow \cup {None}]]
  <2>1. \A j \in Ids : policy'[j] \in [NodeIds -> PolicyRow \cup {None}]
    BY <1>0, <1>7, <1>10
  <2> QED BY <1>7, <2>1
<1>12. \A k \in NodeIds : policy[id][k] # None => policy'[id][k] # None
  BY <1>8, <1>9
<1>13. \A k \in NodeIds : policy'[id][k] # None =>
           \E n \in L : /\ n.node = k /\ policy'[id][k].user = n.user
                       /\ policy'[id][k].methods # {}
  BY <1>8, <1>9
<1> QED BY <1>0, <1>7, <1>11, <1>12, <1>13 DEF L, id

(* What any step does to the policies: rows come and are rewritten by a    *)
(* save, but never go, and are those of connected stages.                  *)
LEMMA PolicyEffect ==
    ASSUME IInv, [Next]_vars
    PROVE  /\ policy' \in [Ids -> [NodeIds -> PolicyRow \cup {None}]]
           /\ \A id \in Ids, k \in NodeIds : policy[id][k] # None => policy'[id][k] # None
           /\ \A id \in Ids, k \in NodeIds : policy'[id][k] # None =>
                  \E n \in LinkedIn(id) : /\ n.node = k /\ policy'[id][k].user = n.user
                                          /\ policy'[id][k].methods # {}
           /\ \A id \in Ids, k \in NodeIds :
                  policy[id][k] # None /\ policy'[id][k] # policy[id][k] =>
                      \E p \in Pages : SavePolicies(p) /\ reader[p].id = id
           /\ \A p \in Pages : EnsureForForm(p) =>
                  \A n \in LinkedIn(reader[p].id) : policy'[reader[p].id][n.node] # None
<1> DEFINE Goal ==
        /\ policy' \in [Ids -> [NodeIds -> PolicyRow \cup {None}]]
        /\ \A id \in Ids, k \in NodeIds : policy[id][k] # None => policy'[id][k] # None
        /\ \A id \in Ids, k \in NodeIds : policy'[id][k] # None =>
               \E n \in LinkedIn(id) : /\ n.node = k /\ policy'[id][k].user = n.user
                                       /\ policy'[id][k].methods # {}
        /\ \A id \in Ids, k \in NodeIds :
               policy[id][k] # None /\ policy'[id][k] # policy[id][k] =>
                   \E p \in Pages : SavePolicies(p) /\ reader[p].id = id
<1>0. ShapeInv /\ RevisionInv /\ FollowInv /\ PolicyInv
  BY DEF IInv
<1>1. ASSUME NEW id \in Defined, EnsurePolicies(id, nodesOf[id], edgesOf[id])
      PROVE  Goal /\ \A n \in LinkedIn(id) : policy'[id][n.node] # None
  <2>1. /\ policy' \in [Ids -> [NodeIds -> PolicyRow \cup {None}]]
        /\ \A j \in Ids, k \in NodeIds :
               policy[j][k] # None \/ j # id => policy'[j][k] = policy[j][k]
        /\ \A k \in NodeIds : policy'[id][k] # None =>
               \E n \in LinkedIn(id) : /\ n.node = k /\ policy'[id][k].user = n.user
                                       /\ policy'[id][k].methods # {}
        /\ \A n \in LinkedIn(id) : policy'[id][n.node] # None
    BY <1>0, <1>1, EnsureEffect
  <2>2. \A j \in Ids, k \in NodeIds : policy[j][k] # None =>
            \E n \in LinkedIn(j) : /\ n.node = k /\ policy[j][k].user = n.user
                                   /\ policy[j][k].methods # {}
    BY <1>0 DEF PolicyInv
  <2>3. \A j \in Ids, k \in NodeIds : policy'[j][k] # None =>
            \E n \in LinkedIn(j) : /\ n.node = k /\ policy'[j][k].user = n.user
                                   /\ policy'[j][k].methods # {}
    BY <2>1, <2>2
  <2> QED BY <2>1, <2>3
<1>2. ASSUME NEW p \in Pages, EnsureForForm(p)
      PROVE  Goal /\ \A n \in LinkedIn(reader[p].id) : policy'[reader[p].id][n.node] # None
  <2>1. /\ reader[p].id \in Defined
        /\ reader[p].nodes = nodesOf[reader[p].id] /\ reader[p].edges = edgesOf[reader[p].id]
    BY <1>0, <1>2 DEF EnsureForForm, FollowInv
  <2>2. EnsurePolicies(reader[p].id, reader[p].nodes, reader[p].edges)
    BY <1>2 DEF EnsureForForm
  <2> QED BY <1>1, <2>1, <2>2
<1>3. ASSUME SetUpPolicies
      PROVE  Goal
  <2>1. /\ editor.id \in Defined
        /\ editor.route.nodes = nodesOf[editor.id] /\ editor.route.edges = edgesOf[editor.id]
    BY <1>0, <1>3 DEF SetUpPolicies, FollowInv, RouteIn
  <2>2. EnsurePolicies(editor.id, editor.route.nodes, editor.route.edges)
    BY <1>3 DEF SetUpPolicies
  <2>3. EnsurePolicies(editor.id, nodesOf[editor.id], edgesOf[editor.id])
    BY <2>1, <2>2
  <2> HIDE DEF Goal
  <2> QED BY <1>1, <2>1, <2>3
<1>4. ASSUME NEW p \in Pages, SavePolicies(p)
      PROVE  Goal
  <2> DEFINE id == reader[p].id
  <2>1. /\ id \in Defined
        /\ policy' \in [Ids -> [NodeIds -> PolicyRow \cup {None}]]
        /\ \A j \in Ids \ {id} : policy'[j] = policy[j]
        /\ \A k \in NodeIds : policy[id][k] # None => policy'[id][k] # None
        /\ \A k \in NodeIds : policy'[id][k] # None =>
               \E n \in LinkedIn(id) : /\ n.node = k /\ policy'[id][k].user = n.user
                                       /\ policy'[id][k].methods # {}
    BY <1>4, SaveKeepsPolicies
  <2>2. \A j \in Ids, k \in NodeIds : policy[j][k] # None =>
            \E n \in LinkedIn(j) : /\ n.node = k /\ policy[j][k].user = n.user
                                   /\ policy[j][k].methods # {}
    BY <1>0 DEF PolicyInv
  <2>3. \A j \in Ids, k \in NodeIds : policy'[j][k] # None =>
            \E n \in LinkedIn(j) : /\ n.node = k /\ policy'[j][k].user = n.user
                                   /\ policy'[j][k].methods # {}
    BY <2>1, <2>2
  <2>4. \A j \in Ids, k \in NodeIds : policy'[j][k] # policy[j][k] =>
            \E q \in Pages : SavePolicies(q) /\ reader[q].id = j
    BY <1>4, <2>1
  <2>5. \A j \in Ids, k \in NodeIds : policy[j][k] # None => policy'[j][k] # None
    BY <2>1
  <2> QED BY <2>1, <2>3, <2>4, <2>5
<1>5. ASSUME UNCHANGED policy
      PROVE  Goal
  <2>1. \A j \in Ids, k \in NodeIds : policy'[j][k] # None =>
            \E n \in LinkedIn(j) : /\ n.node = k /\ policy'[j][k].user = n.user
                                   /\ policy'[j][k].methods # {}
    BY <1>0, <1>5 DEF PolicyInv
  <2> QED BY <1>0, <1>5, <2>1 DEF ShapeInv
<1>6. ASSUME NEW p \in Pages,
             \/ \E kind \in {"form", "policies"} : Request(p, kind)
             \/ ReadNodes(p) \/ ReadEdges(p) \/ ShowPolicies(p) \/ Abandon(p)
      PROVE  UNCHANGED policy
  BY <1>6 DEF Request, ReadNodes, ReadEdges, ShowPolicies, Abandon
<1>7. (\E o \in Owners, r \in Routes : SaveRoute(o, r)) \/ (\E b \in Batches : CreateBatch(b))
      \/ SetUpFails \/ Restart \/ UNCHANGED vars => UNCHANGED policy
  BY DEF SaveRoute, CreateBatch, SetUpFails, Restart, vars
<1>8. Goal
  BY <1>2, <1>3, <1>4, <1>5, <1>6, <1>7 DEF Next
<1> QED BY <1>2, <1>8

-----------------------------------------------------------------------------
(* The revisions that existed are connected as before.                     *)
LEMMA LinkedStands ==
    ASSUME IInv, [Next]_vars, NEW id \in Defined
    PROVE  id \in Defined' /\ LinkedIn(id)' = LinkedIn(id)
BY RevisionsStand DEF LinkedIn

(* Every step keeps the shape of the tables.                               *)
LEMMA StepShape == IInv /\ [Next]_vars => ShapeInv'
<1> SUFFICES ASSUME IInv, [Next]_vars PROVE ShapeInv'
  OBVIOUS
<1>0. ShapeInv /\ RevisionInv /\ FollowInv /\ \A id \in Defined : id \in Ids
  BY DEF IInv, Defined
<1>1. routeOf' \in [Batches -> Ids \cup {NoId}]
  <2>1. ASSUME NEW o \in Owners, NEW r \in Routes, SaveRoute(o, r)
        PROVE  routeOf' \in [Batches -> Ids \cup {NoId}]
    BY <1>0, <2>1 DEF SaveRoute, ShapeInv
  <2>2. ASSUME NEW b \in Batches, CreateBatch(b)
        PROVE  routeOf' \in [Batches -> Ids \cup {NoId}]
    BY <1>0, <2>2, CurrentExists DEF CreateBatch, ShapeInv
  <2>3. CASE UNCHANGED routeOf
    BY <1>0, <2>3 DEF ShapeInv
  <2>4. ASSUME NEW p \in Pages,
               \/ \E kind \in {"form", "policies"} : Request(p, kind)
               \/ ReadNodes(p) \/ ReadEdges(p) \/ EnsureForForm(p)
               \/ ShowPolicies(p) \/ SavePolicies(p) \/ Abandon(p)
        PROVE  UNCHANGED routeOf
    BY <2>4 DEF Request, ReadNodes, ReadEdges, EnsureForForm, ShowPolicies, SavePolicies,
                Abandon, routes
  <2>5. SetUpPolicies \/ SetUpFails \/ Restart \/ UNCHANGED vars => UNCHANGED routeOf
    BY DEF SetUpPolicies, SetUpFails, Restart, routes, vars
  <2> QED BY <2>1, <2>2, <2>3, <2>4, <2>5 DEF Next
<1>2. reader' \in [Pages -> Handler \cup {Idle}]
  <2>1. \A q \in Pages : reader[q] \in Handler \cup {Idle}
    BY <1>0 DEF ShapeInv
  <2>2. \A q \in Pages : reader'[q] \in Handler \cup {Idle}
    BY <2>1, ReaderEffect
  <2>3. reader' = [q \in Pages |-> reader'[q]]
    BY ReaderEffect
  <2> QED BY <2>2, <2>3
<1>3. shown' \in [Pages -> Ids \cup {NoId}]
  <2>1. ASSUME NEW p \in Pages, ShowPolicies(p)
        PROVE  shown' \in [Pages -> Ids \cup {NoId}]
    BY <1>0, <2>1 DEF ShowPolicies, ShapeInv, FollowInv
  <2>2. CASE UNCHANGED shown
    BY <1>0, <2>2 DEF ShapeInv
  <2>3. ASSUME NEW p \in Pages,
               \/ \E kind \in {"form", "policies"} : Request(p, kind)
               \/ ReadNodes(p) \/ ReadEdges(p) \/ EnsureForForm(p)
               \/ SavePolicies(p) \/ Abandon(p)
        PROVE  UNCHANGED shown
    BY <2>3 DEF Request, ReadNodes, ReadEdges, EnsureForForm, SavePolicies, Abandon
  <2>4. (\E o \in Owners, r \in Routes : SaveRoute(o, r)) \/ (\E b \in Batches : CreateBatch(b))
        \/ SetUpPolicies \/ SetUpFails \/ Restart \/ UNCHANGED vars => UNCHANGED shown
    BY DEF SaveRoute, CreateBatch, SetUpPolicies, SetUpFails, Restart, vars
  <2> QED BY <2>1, <2>2, <2>3, <2>4 DEF Next
<1> QED BY <1>1, <1>2, <1>3, RevisionsStand, PolicyEffect DEF ShapeInv

(* A page is shown a revision whose policies its handler has set up.       *)
LEMMA ShownEffect ==
    ASSUME IInv, [Next]_vars, NEW q \in Pages
    PROVE  \/ shown'[q] = shown[q]
           \/ /\ reader[q] # Idle /\ reader[q].at = "ensured"
              /\ shown'[q] = reader[q].id /\ UNCHANGED policy
<1>1. ASSUME NEW p \in Pages, ShowPolicies(p)
      PROVE  \/ shown'[q] = shown[q]
             \/ /\ reader[q] # Idle /\ reader[q].at = "ensured"
                /\ shown'[q] = reader[q].id /\ UNCHANGED policy
  <2>1. /\ reader[p] # Idle /\ reader[p].at = "ensured" /\ UNCHANGED policy
        /\ shown' = [shown EXCEPT ![p] = reader[p].id]
    BY <1>1 DEF ShowPolicies
  <2>2. shown \in [Pages -> Ids \cup {NoId}]
    BY DEF IInv, ShapeInv
  <2> QED BY <2>1, <2>2
<1>2. ASSUME NEW p \in Pages,
             \/ \E kind \in {"form", "policies"} : Request(p, kind)
             \/ ReadNodes(p) \/ ReadEdges(p) \/ EnsureForForm(p)
             \/ SavePolicies(p) \/ Abandon(p)
      PROVE  UNCHANGED shown
  BY <1>2 DEF Request, ReadNodes, ReadEdges, EnsureForForm, SavePolicies, Abandon
<1>3. (\E o \in Owners, r \in Routes : SaveRoute(o, r)) \/ (\E b \in Batches : CreateBatch(b))
      \/ SetUpPolicies \/ SetUpFails \/ Restart \/ UNCHANGED vars => UNCHANGED shown
  BY DEF SaveRoute, CreateBatch, SetUpPolicies, SetUpFails, Restart, vars
<1> QED BY <1>1, <1>2, <1>3 DEF Next

(* Batches, pages, handlers and the editor follow revisions that exist.    *)
LEMMA StepFollow == IInv /\ [Next]_vars => FollowInv'
<1> SUFFICES ASSUME IInv, [Next]_vars PROVE FollowInv'
  OBVIOUS
<1>0. ShapeInv /\ RevisionInv /\ FollowInv /\ \A id \in Defined : id \in Ids
  BY DEF IInv, Defined
<1>1. \A id \in Defined : /\ id \in Defined' /\ nodesOf'[id] = nodesOf[id]
                          /\ edgesOf'[id] = edgesOf[id]
  BY RevisionsStand
<1>2. \A b \in Batches : routeOf'[b] \in Defined' \cup {NoId}
  <2>1. ASSUME NEW o \in Owners, NEW r \in Routes, SaveRoute(o, r), NEW b \in Batches
        PROVE  routeOf'[b] \in Defined' \cup {NoId}
    <3>1. PICK id \in Ids :
              /\ SavedAs(o, r, id)
              /\ routeOf' = IF o = Template THEN routeOf ELSE [routeOf EXCEPT ![o] = id]
      BY <1>0, <2>1, SaveEffect
    <3>2. id \in Defined'
      <4>1. definition'[id] \in Definition
        BY <3>1 DEF SavedAs
      <4> QED BY <4>1, NoValueAssumption DEF Defined
    <3>3. routeOf[b] \in Defined' \cup {NoId}
      BY <1>0, <1>1 DEF FollowInv
    <3>4. routeOf'[b] = routeOf[b] \/ routeOf'[b] = id
      BY <1>0, <3>1 DEF ShapeInv
    <3> QED BY <3>2, <3>3, <3>4
  <2>2. ASSUME NEW c \in Batches, CreateBatch(c), NEW b \in Batches
        PROVE  routeOf'[b] \in Defined' \cup {NoId}
    <3>1. routeOf'[b] = routeOf[b] \/ routeOf'[b] = DefaultRoute
      BY <1>0, <2>2 DEF CreateBatch, ShapeInv
    <3>2. routeOf[b] \in Defined \cup {NoId} /\ DefaultRoute \in Defined
      BY <1>0, CurrentExists DEF FollowInv
    <3> QED BY <1>1, <3>1, <3>2
  <2>3. CASE UNCHANGED routeOf
    BY <1>0, <1>1, <2>3 DEF FollowInv
  <2>4. ASSUME NEW p \in Pages,
               \/ \E kind \in {"form", "policies"} : Request(p, kind)
               \/ ReadNodes(p) \/ ReadEdges(p) \/ EnsureForForm(p)
               \/ ShowPolicies(p) \/ SavePolicies(p) \/ Abandon(p)
        PROVE  UNCHANGED routeOf
    BY <2>4 DEF Request, ReadNodes, ReadEdges, EnsureForForm, ShowPolicies, SavePolicies,
                Abandon, routes
  <2>5. SetUpPolicies \/ SetUpFails \/ Restart \/ UNCHANGED vars => UNCHANGED routeOf
    BY DEF SetUpPolicies, SetUpFails, Restart, routes, vars
  <2> QED BY <2>1, <2>2, <2>3, <2>4, <2>5 DEF Next
<1>3. \A p \in Pages : shown'[p] \in Defined' \cup {NoId}
  <2>1. \A p \in Pages : shown'[p] = shown[p] \/ (reader[p] # Idle /\ shown'[p] = reader[p].id)
    BY ShownEffect
  <2> QED BY <1>0, <1>1, <2>1 DEF FollowInv
<1>4. editor' # None => /\ editor' \in Saved /\ editor'.id \in Defined'
                        /\ RouteIn(editor.id)' = editor'.route
  <2>1. ASSUME NEW o \in Owners, NEW r \in Routes, SaveRoute(o, r)
        PROVE  /\ editor' \in Saved /\ editor'.id \in Defined'
               /\ RouteIn(editor.id)' = editor'.route
    <3>1. PICK id \in Ids : SavedAs(o, r, id) /\ editor' = [id |-> id, route |-> r]
      BY <1>0, <2>1, SaveEffect
    <3>2. editor' \in Saved /\ editor'.id = id /\ editor'.route = r
      BY <3>1 DEF Saved
    <3>3. id \in Defined'
      <4>1. definition'[id] \in Definition
        BY <3>1 DEF SavedAs
      <4> QED BY <4>1, NoValueAssumption DEF Defined
    <3>4. r = [nodes |-> nodesOf'[id], edges |-> edgesOf'[id]]
      BY <3>1, RouteShape DEF SavedAs
    <3> QED BY <3>2, <3>3, <3>4 DEF RouteIn
  <2>2. ASSUME UNCHANGED editor, editor' # None
        PROVE  /\ editor' \in Saved /\ editor'.id \in Defined'
               /\ RouteIn(editor.id)' = editor'.route
    <3>1. editor \in Saved /\ editor.id \in Defined /\ RouteIn(editor.id) = editor.route
      BY <1>0, <2>2 DEF FollowInv
    <3> QED BY <1>1, <2>2, <3>1 DEF RouteIn
  <2>3. ASSUME NEW p \in Pages,
               \/ \E kind \in {"form", "policies"} : Request(p, kind)
               \/ ReadNodes(p) \/ ReadEdges(p) \/ EnsureForForm(p)
               \/ ShowPolicies(p) \/ SavePolicies(p) \/ Abandon(p)
        PROVE  UNCHANGED editor
    BY <2>3 DEF Request, ReadNodes, ReadEdges, EnsureForForm, ShowPolicies, SavePolicies,
                Abandon
  <2>4. /\ (\E b \in Batches : CreateBatch(b)) \/ UNCHANGED vars => UNCHANGED editor
        /\ SetUpPolicies \/ SetUpFails \/ Restart => editor' = None
    BY DEF CreateBatch, SetUpPolicies, SetUpFails, Restart, vars
  <2> QED BY <2>1, <2>2, <2>3, <2>4 DEF Next
<1>5. ASSUME NEW p \in Pages, reader'[p] # Idle
      PROVE  /\ reader'[p].id \in Defined'
             /\ reader'[p].at # "nodes" => reader'[p].nodes = nodesOf'[reader'[p].id]
             /\ reader'[p].at \notin {"nodes", "edges"} =>
                    reader'[p].edges = edgesOf'[reader'[p].id]
  <2>1. /\ reader'[p].id \in Defined
        /\ reader'[p].at # "nodes" => reader'[p].nodes = nodesOf[reader'[p].id]
        /\ reader'[p].at \notin {"nodes", "edges"} =>
               reader'[p].edges = edgesOf[reader'[p].id]
    BY <1>0, <1>5, ReaderEffect DEF FollowInv
  <2> QED BY <1>1, <2>1
<1> QED BY <1>2, <1>3, <1>4, <1>5 DEF FollowInv

(* A stage that has a row keeps it.                                        *)
LEMMA RowsStay ==
    ASSUME IInv, [Next]_vars, NEW id \in Defined, AllHavePolicy(id)
    PROVE  AllHavePolicy(id)'
<1>1. id \in Ids /\ LinkedIn(id)' = LinkedIn(id)
  BY LinkedStands DEF Defined
<1>2. \A n \in LinkedIn(id) : n.node \in NodeIds
  <2>1. LinkedIn(id) \subseteq RouteNode
    BY <1>1 DEF IInv, ShapeInv, LinkedIn
  <2> QED BY <2>1 DEF RouteNode
<1>3. \A n \in LinkedIn(id) : policy'[id][n.node] # None
  BY <1>1, <1>2, PolicyEffect DEF AllHavePolicy
<1> QED BY <1>1, <1>3 DEF AllHavePolicy

(* Rows are those of connected stages, and complete where they are shown.  *)
LEMMA StepPolicy == IInv /\ [Next]_vars => PolicyInv'
<1> SUFFICES ASSUME IInv, [Next]_vars PROVE PolicyInv'
  OBVIOUS
<1>0. ShapeInv /\ RevisionInv /\ FollowInv /\ PolicyInv /\ \A id \in Defined : id \in Ids
  BY DEF IInv, Defined
<1>1. ASSUME NEW id \in Ids, NEW k \in NodeIds, policy'[id][k] # None
      PROVE  \E n \in LinkedIn(id)' : /\ n.node = k /\ policy'[id][k].user = n.user
                                      /\ policy'[id][k].methods # {}
  <2>1. PICK n \in LinkedIn(id) : /\ n.node = k /\ policy'[id][k].user = n.user
                                  /\ policy'[id][k].methods # {}
    BY <1>1, PolicyEffect
  <2>2. id \in Defined
    BY <1>0, <2>1 DEF LinkedIn, RevisionInv, Defined
  <2>3. LinkedIn(id)' = LinkedIn(id)
    BY <2>2, LinkedStands
  <2> QED BY <2>1, <2>3
<1>2. ASSUME NEW p \in Pages, shown'[p] # NoId
      PROVE  AllHavePolicy(shown[p])'
  <2>1. PICK id \in Defined : id = shown'[p] /\ AllHavePolicy(id)
    BY <1>0, <1>2, ShownEffect DEF FollowInv, PolicyInv
  <2>2. AllHavePolicy(id)'
    BY <2>1, RowsStay
  <2> QED BY <2>1, <2>2 DEF AllHavePolicy
<1>3. ASSUME NEW p \in Pages, reader'[p] # Idle, reader'[p].at = "ensured"
      PROVE  AllHavePolicy(reader[p].id)'
  <2>1. ASSUME reader'[p] = reader[p]
        PROVE  \E id \in Defined : id = reader'[p].id /\ AllHavePolicy(id)'
    <3>1. PICK id \in Defined : id = reader[p].id /\ AllHavePolicy(id)
      BY <1>0, <1>3, <2>1 DEF FollowInv, PolicyInv
    <3>2. AllHavePolicy(id)'
      BY <3>1, RowsStay
    <3> QED BY <2>1, <3>1, <3>2
  <2>2. ASSUME reader'[p] # reader[p]
        PROVE  \E id \in Defined : id = reader'[p].id /\ AllHavePolicy(id)'
    <3>1. EnsureForForm(p) /\ reader'[p].id = reader[p].id /\ reader'[p].id \in Defined
      BY <1>3, <2>2, ReaderEffect
    <3>2. PICK id \in Defined : id = reader[p].id
      BY <3>1
    <3>3. \A n \in LinkedIn(id) : policy'[id][n.node] # None
      BY <3>1, <3>2, PolicyEffect
    <3>4. LinkedIn(id)' = LinkedIn(id)
      BY LinkedStands
    <3>5. AllHavePolicy(id)'
      BY <3>3, <3>4 DEF AllHavePolicy
    <3> QED BY <3>1, <3>2, <3>5
  <2>3. PICK id \in Defined : id = reader'[p].id /\ AllHavePolicy(id)'
    BY <2>1, <2>2
  <2> QED BY <2>3 DEF AllHavePolicy
<1> QED BY <1>1, <1>2, <1>3 DEF PolicyInv

(* The first database: the default route, no policies, no batches.         *)
LEMMA InitIInv == Init => IInv
<1> SUFFICES ASSUME Init PROVE IInv
  OBVIOUS
<1>1. DefaultId \in Ids /\ DefaultId.base = Template
  BY RouteBoundAssumption DEF DefaultId, Ids, Owners
<1>2. [owner |-> Template, isDefault |-> TRUE] \in Definition
  BY DEF Definition, Owners
<1>3. /\ FirstRoute \in Routes /\ FirstRoute = [nodes |-> FirstRoute.nodes, edges |-> FirstRoute.edges]
      /\ FirstRoute.nodes \in SUBSET RouteNode /\ FirstRoute.edges \in SUBSET (NodeIds \X NodeIds)
  BY RouteAssumption, RouteShape
<1>4. /\ definition[DefaultId] = [owner |-> Template, isDefault |-> TRUE]
      /\ nodesOf[DefaultId] = FirstRoute.nodes /\ edgesOf[DefaultId] = FirstRoute.edges
      /\ \A id \in Ids : id # DefaultId =>
             definition[id] = None /\ nodesOf[id] = {} /\ edgesOf[id] = {}
  BY <1>1 DEF Init
<1>5. Defined = {DefaultId}
  BY <1>1, <1>2, <1>4, NoValueAssumption DEF Defined
<1>6. ShapeInv
  <2>1. definition \in [Ids -> Definition \cup {None}]
    BY <1>2 DEF Init
  <2>2. nodesOf \in [Ids -> SUBSET RouteNode] /\ edgesOf \in [Ids -> SUBSET (NodeIds \X NodeIds)]
    BY <1>3 DEF Init
  <2>3. policy \in [Ids -> [NodeIds -> PolicyRow \cup {None}]]
    BY DEF Init
  <2> QED BY <2>1, <2>2, <2>3 DEF Init, ShapeInv
<1>7. RevisionInv
  <2>1. RouteIn(DefaultId) = FirstRoute
    BY <1>3, <1>4 DEF RouteIn
  <2>2. /\ definition[DefaultId].owner = Template /\ definition[DefaultId].isDefault
        /\ definition[DefaultId] # None
    <3>1. definition[DefaultId] # None
      BY <1>2, <1>4, NoValueAssumption
    <3>2. definition[DefaultId].owner = Template
      BY <1>4
    <3>3. definition[DefaultId].isDefault = TRUE
      BY <1>4
    <3> QED BY <3>1, <3>2, <3>3
  <2>3. \A id \in Ids : IF definition[id] = None
                        THEN nodesOf[id] = {} /\ edgesOf[id] = {}
                        ELSE definition[id].owner = id.base /\ RouteIn(id) \in Routes
    BY <1>1, <1>3, <1>4, <2>1, <2>2
  <2> QED BY <1>1, <1>5, <2>1, <2>2, <2>3 DEF RevisionInv
<1>8. FollowInv
  BY DEF Init, FollowInv
<1>9. PolicyInv
  BY DEF Init, PolicyInv
<1> QED BY <1>6, <1>7, <1>8, <1>9 DEF IInv

LEMMA StepIInv == IInv /\ [Next]_vars => IInv'
<1>1. IInv /\ [Next]_vars => RevisionInv'
  BY RevisionsStand
<1> QED BY <1>1, StepShape, StepFollow, StepPolicy DEF IInv

LEMMA Invariance == Spec => []IInv
BY InitIInv, StepIInv, PTL DEF Spec

-----------------------------------------------------------------------------
(* Once a page has been given the policies of a revision, every connected  *)
(* stage of it has a row, for its account and with a method, whatever is   *)
(* edited, restored, saved or lost in a crash afterwards.                  *)
THEOREM ShownPolicies == Spec => []ShownStageHasPolicy
<1>1. IInv => ShownStageHasPolicy
  <2> SUFFICES ASSUME IInv, NEW p \in Pages, NEW id, id = shown[p], id # NoId,
                      NEW n \in nodesOf[id],
                      n.node \in Connected(nodesOf[id], edgesOf[id])
               PROVE  /\ policy[id][n.node] # None
                      /\ policy[id][n.node].user = n.user
                      /\ policy[id][n.node].methods # {}
    BY DEF ShownStageHasPolicy
  <2>1. ShapeInv /\ RevisionInv /\ FollowInv /\ PolicyInv /\ \A j \in Defined : j \in Ids
    BY DEF IInv, Defined
  <2>2. id \in Defined /\ AllHavePolicy(id)
    BY <2>1 DEF FollowInv, PolicyInv
  <2>3. n \in LinkedIn(id)
    BY DEF LinkedIn
  <2>4. RouteIn(id) \in Routes /\ nodesOf[id] = RouteIn(id).nodes
    BY <2>1, <2>2 DEF RevisionInv, Defined, RouteIn
  <2>5. n.node \in NodeIds /\ \A m \in LinkedIn(id) : m.node = n.node => m = n
    BY <2>4, RouteShape DEF LinkedIn
  <2>6. policy[id][n.node] # None
    BY <2>2, <2>3 DEF AllHavePolicy
  <2>7. PICK m \in LinkedIn(id) : /\ m.node = n.node /\ policy[id][n.node].user = m.user
                                  /\ policy[id][n.node].methods # {}
    BY <2>1, <2>2, <2>5, <2>6 DEF PolicyInv
  <2> QED BY <2>5, <2>6, <2>7
<1> QED BY <1>1, Invariance, PTL

(* What an administrator has set for a stage of a revision changes only by *)
(* a save of the policies of that revision: setting up rows again, from    *)
(* however old a page, neither overwrites nor deletes them.                *)
THEOREM PoliciesChangeBySave == Spec => PolicyChangedOnlyBySave
<1> DEFINE OnlyBySave ==
        \A id \in Ids, k \in NodeIds :
            policy[id][k] # None /\ policy'[id][k] # policy[id][k] =>
                \E p \in Pages : /\ reader[p] # Idle /\ reader'[p] = Idle
                                 /\ reader[p].kind = "policies" /\ reader[p].id = id
<1>1. IInv /\ [Next]_vars => [OnlyBySave]_vars
  <2> SUFFICES ASSUME IInv, [Next]_vars, NEW id \in Ids, NEW k \in NodeIds,
                      policy[id][k] # None, policy'[id][k] # policy[id][k]
               PROVE  \E p \in Pages : /\ reader[p] # Idle /\ reader'[p] = Idle
                                       /\ reader[p].kind = "policies" /\ reader[p].id = id
    OBVIOUS
  <2>1. PICK p \in Pages : SavePolicies(p) /\ reader[p].id = id
    BY PolicyEffect
  <2>2. reader \in [Pages -> Handler \cup {Idle}]
    BY DEF IInv, ShapeInv
  <2>3. /\ reader[p] # Idle /\ reader[p].kind = "policies"
        /\ reader' = [reader EXCEPT ![p] = Idle]
    BY <2>1 DEF SavePolicies
  <2> QED BY <2>1, <2>2, <2>3
<1> QED BY <1>1, Invariance, PTL DEF Spec, PolicyChangedOnlyBySave

-----------------------------------------------------------------------------
(* The handlers, read piece by piece, implement the table of revisions in  *)
(* which a handler gets a revision as a whole.                             *)

(* A revision is its owner, the base of its ID, and its route.             *)
LEMMA RevisionIs ==
    ASSUME RevisionInv, NEW id \in Ids
    PROVE  /\ id \in Defined =>
                  /\ RevisionOf(id) = [owner |-> id.base, route |-> RouteIn(id)]
                  /\ RevisionOf(id) # None /\ id.base \in Owners /\ RouteIn(id) \in Routes
           /\ id \notin Defined => RevisionOf(id) = None
<1>1. id \in Defined <=> definition[id] # None
  BY DEF Defined
<1>2. id.base \in Owners
  BY DEF Ids
<1>3. definition[id] # None => definition[id].owner = id.base /\ RouteIn(id) \in Routes
  BY DEF RevisionInv
<1>4. [owner |-> id.base, route |-> RouteIn(id)] # None
      \/ definition[id] = None
  BY <1>2, <1>3, NoValueAssumption
<1> QED BY <1>1, <1>2, <1>3, <1>4 DEF RevisionOf

(* What a handler has read and will read is the revision of its ID.        *)
SeenIsWhole ==
    \A p \in Pages :
        SeenBy(p) = IF reader[p] = Idle THEN None
                    ELSE [id |-> reader[p].id, revision |-> RevisionOf(reader[p].id)]

LEMMA SeenWhole == RevisionInv /\ FollowInv => SeenIsWhole
<1> SUFFICES ASSUME RevisionInv, FollowInv, NEW p \in Pages
             PROVE  SeenBy(p) = IF reader[p] = Idle THEN None
                                ELSE [id |-> reader[p].id, revision |-> RevisionOf(reader[p].id)]
  BY DEF SeenIsWhole
<1>1. CASE reader[p] = Idle
  BY <1>1 DEF SeenBy
<1>2. CASE reader[p] # Idle
  <2>1. /\ definition[reader[p].id] # None
        /\ reader[p].at # "nodes" => reader[p].nodes = nodesOf[reader[p].id]
        /\ reader[p].at \notin {"nodes", "edges"} => reader[p].edges = edgesOf[reader[p].id]
    BY <1>2 DEF FollowInv, Defined
  <2>2. (IF reader[p].at = "nodes" THEN nodesOf[reader[p].id] ELSE reader[p].nodes)
            = nodesOf[reader[p].id]
    BY <2>1
  <2>3. (IF reader[p].at \in {"nodes", "edges"} THEN edgesOf[reader[p].id] ELSE reader[p].edges)
            = edgesOf[reader[p].id]
    BY <2>1
  <2> QED BY <1>2, <2>1, <2>2, <2>3 DEF SeenBy, RevisionOf, RouteIn
<1> QED BY <1>1, <1>2

(* The revisions that exist stand for what they stood for.                 *)
LEMMA RevisionStands ==
    ASSUME IInv, [Next]_vars, NEW id \in Defined
    PROVE  id \in Ids /\ id \in Defined' /\ RevisionOf(id)' = RevisionOf(id)
<1>1. /\ RevisionInv /\ RevisionInv' /\ id \in Ids /\ id \in Defined'
      /\ nodesOf'[id] = nodesOf[id] /\ edgesOf'[id] = edgesOf[id]
  BY RevisionsStand DEF IInv, Defined
<1>2. RouteIn(id)' = RouteIn(id)
  BY <1>1 DEF RouteIn
<1>3. definition[id] # None /\ definition[id].owner = id.base
  BY <1>1 DEF RevisionInv, Defined
<1>4. definition'[id] # None /\ definition'[id].owner = id.base
  BY <1>1 DEF RevisionInv, Defined
<1> QED BY <1>1, <1>2, <1>3, <1>4 DEF RevisionOf

(* A step that leaves the route tables alone and starts no handler is, to  *)
(* the table of revisions, the end of some handlers.                       *)
LEMMA HandlersEnd ==
    ASSUME IInv, IInv', UNCHANGED <<definition, nodesOf, edgesOf, routeOf>>,
           \A q \in Pages : \/ reader'[q] = Idle
                            \/ reader[q] # Idle /\ reader'[q].id = reader[q].id
    PROVE  Table!Forget
<1> DEFINE T == {q \in Pages : reader'[q] = Idle}
<1>0. RevisionInv /\ FollowInv /\ RevisionInv' /\ FollowInv'
  BY DEF IInv
<1>1. \A id \in Ids : RevisionOf(id)' = RevisionOf(id)
  BY DEF RevisionOf, RouteIn
<1>2. \A o \in Owners : CurrentId(o)' = CurrentId(o)
  BY DEF CurrentId, DefaultRoute, Defined
<1>8. SeenIsWhole /\ SeenIsWhole'
  BY <1>0, SeenWhole, PTL
<1>3. ASSUME NEW q \in Pages
      PROVE  SeenBy(q)' = IF q \in T THEN None ELSE SeenBy(q)
  <2>1. SeenBy(q)' = IF reader'[q] = Idle THEN None
                     ELSE [id |-> reader'[q].id, revision |-> RevisionOf(reader[q].id)']
    BY <1>8 DEF SeenIsWhole
  <2>2. SeenBy(q) = IF reader[q] = Idle THEN None
                    ELSE [id |-> reader[q].id, revision |-> RevisionOf(reader[q].id)]
    BY <1>8 DEF SeenIsWhole
  <2>3. ASSUME reader'[q] # Idle
        PROVE  RevisionOf(reader[q].id)' = RevisionOf(reader[q].id)
    BY <2>3 DEF RevisionOf, RouteIn
  <2> QED BY <2>1, <2>2, <2>3
<1>4. T \in SUBSET Pages
  OBVIOUS
<1>5. [q \in Pages |-> SeenBy(q)]' = [q \in Pages |-> IF q \in T THEN None
                                                     ELSE [p \in Pages |-> SeenBy(p)][q]]
  BY <1>3
<1>6. [id \in Ids |-> RevisionOf(id)]' = [id \in Ids |-> RevisionOf(id)]
  BY <1>1
<1>7. [o \in Owners |-> CurrentId(o)]' = [o \in Owners |-> CurrentId(o)]
  BY <1>2
<1> QED BY <1>4, <1>5, <1>6, <1>7 DEF Table!Forget

(* An owner that saves a route follows it, every other owner what it       *)
(* followed; only a save of the template changes the default.              *)
LEMMA SaveMovesOwner ==
    ASSUME IInv, RevisionInv', NEW o \in Owners, NEW r \in Routes, NEW id \in Ids,
           SavedAs(o, r, id),
           routeOf' = IF o = Template THEN routeOf ELSE [routeOf EXCEPT ![o] = id]
    PROVE  \A c \in Owners : CurrentId(c)' = IF c = o THEN id ELSE CurrentId(c)
<1>0. ShapeInv /\ RevisionInv /\ FollowInv
  BY DEF IInv
<1>1. DefaultRoute \in Defined /\ definition[DefaultRoute].isDefault
  BY <1>0, CurrentExists
<1>2. id \in Defined' /\ id.base = o
  BY NoValueAssumption DEF SavedAs, Defined
<1>3. \A i, j \in Defined' : definition'[i].isDefault /\ definition'[j].isDefault => i = j
  BY DEF RevisionInv
<1>4. \A j \in Defined' : definition'[j].isDefault => DefaultRoute' = j
  <2> SUFFICES ASSUME NEW j \in Defined', definition'[j].isDefault
               PROVE  DefaultRoute' = j
    OBVIOUS
  <2> DEFINE D == {i \in Defined' : definition'[i].isDefault}
  <2>1. D = {j}
    BY <1>3
  <2>2. DefaultRoute' = IF D = {} THEN DefaultId ELSE CHOOSE i \in D : TRUE
    BY DEF DefaultRoute
  <2> HIDE DEF D
  <2> QED BY <2>1, <2>2
<1>5. CASE o = Template
  <2>1. definition'[id].isDefault
    BY <1>5 DEF SavedAs
  <2>2. DefaultRoute' = id
    BY <1>2, <1>4, <2>1
  <2> QED BY <1>5, <2>2 DEF CurrentId
<1>6. CASE o # Template
  <2>1. DefaultRoute # id
    BY <1>0, <1>1, <1>2, <1>6 DEF RevisionInv
  <2>2. definition'[DefaultRoute] \in Definition /\ definition'[DefaultRoute].isDefault
    BY <1>1, <1>6, <2>1 DEF SavedAs
  <2>3. DefaultRoute \in Defined'
    BY <1>1, <2>2, NoValueAssumption DEF Defined
  <2>4. PICK d \in Defined' : d = DefaultRoute /\ definition'[d].isDefault
    BY <2>2, <2>3
  <2>5. DefaultRoute' = d
    BY <1>4, <2>4
  <2>6. routeOf' = [routeOf EXCEPT ![o] = id] /\ o \in Batches
    BY <1>6 DEF Owners
  <2>7. \A c \in Batches : routeOf'[c] = IF c = o THEN id ELSE routeOf[c]
    BY <1>0, <2>6 DEF ShapeInv
  <2> QED BY <1>6, <2>4, <2>5, <2>7 DEF CurrentId, Owners
<1> QED BY <1>5, <1>6

(* Saving a route: the owner's revision of it, or a new one, becomes the   *)
(* one the owner follows.                                                  *)
LEMMA SaveIsSave ==
    ASSUME IInv, [Next]_vars, NEW o \in Owners, NEW r \in Routes, SaveRoute(o, r)
    PROVE  Table!Save(o, r)
<1>0. /\ ShapeInv /\ RevisionInv /\ FollowInv /\ RevisionInv' /\ FollowInv'
      /\ UNCHANGED reader /\ CurrentId(o) # NoId
  BY RevisionsStand, StepFollow DEF IInv, SaveRoute
<1>1. PICK id \in Ids :
          /\ SavedAs(o, r, id)
          /\ routeOf' = IF o = Template THEN routeOf ELSE [routeOf EXCEPT ![o] = id]
  BY <1>0, SaveEffect
<1>2. \A c \in Owners : CurrentId(c)' = IF c = o THEN id ELSE CurrentId(c)
  BY <1>0, <1>1, SaveMovesOwner
<1>3. SeenIsWhole /\ SeenIsWhole'
  BY <1>0, SeenWhole, PTL
<1>4. ASSUME NEW q \in Pages
      PROVE  SeenBy(q)' = SeenBy(q)
  <2>1. CASE reader[q] = Idle
    BY <1>0, <1>3, <2>1 DEF SeenIsWhole
  <2>2. CASE reader[q] # Idle
    <3>1. PICK i \in Defined : i = reader[q].id
      BY <1>0, <2>2 DEF FollowInv
    <3>2. RevisionOf(i)' = RevisionOf(i)
      BY RevisionStands
    <3>3. SeenBy(q) = [id |-> i, revision |-> RevisionOf(i)]
      BY <1>3, <2>2, <3>1 DEF SeenIsWhole
    <3>4. i = reader'[q].id /\ reader'[q] # Idle
      BY <1>0, <2>2, <3>1
    <3>5. SeenBy(q)' = [id |-> i, revision |-> RevisionOf(i)']
      BY <1>3, <3>4 DEF SeenIsWhole, RevisionOf, RouteIn
    <3> QED BY <3>2, <3>3, <3>5
  <2> QED BY <2>1, <2>2
<1>5. id.base = o /\ definition'[id] # None /\ definition'[id].owner = o
      /\ r = [nodes |-> nodesOf'[id], edges |-> edgesOf'[id]]
  BY <1>1, RouteShape, NoValueAssumption DEF SavedAs
<1>6. RevisionOf(id)' = [owner |-> o, route |-> r]
  BY <1>5 DEF RevisionOf, RouteIn
<1>7. ASSUME NEW j \in Ids, j # id
      PROVE  RevisionOf(j)' = RevisionOf(j)
  <2>1. CASE j \in Defined
    BY <2>1, RevisionStands
  <2>2. CASE j \notin Defined
    <3>1. definition[j] = None /\ definition'[j] = None
      BY <1>1, <1>7, <2>2 DEF SavedAs, Defined
    <3> QED BY <3>1 DEF RevisionOf
  <2> QED BY <2>1, <2>2
<1>8. [p \in Pages |-> SeenBy(p)]' = [p \in Pages |-> SeenBy(p)]
  BY <1>4
<1>9. [c \in Owners |-> CurrentId(c)]' = [[c \in Owners |-> CurrentId(c)] EXCEPT ![o] = id]
  BY <1>2
<1>10. CASE id \in Defined
  <2>1. RevisionOf(id) = [owner |-> o, route |-> r]
    BY <1>0, <1>1, <1>5, <1>10, RevisionIs DEF SavedAs
  <2>2. [i \in Ids |-> RevisionOf(i)]' = [i \in Ids |-> RevisionOf(i)]
    BY <1>6, <1>7, <2>1
  <2> QED BY <1>0, <1>8, <1>9, <2>1, <2>2 DEF Table!Save, Table!Revision
<1>11. CASE id \notin Defined
  <2>1. RevisionOf(id) = None
    BY <1>0, <1>11, RevisionIs
  <2>2. ASSUME NEW j \in Ids
        PROVE  RevisionOf(j) # [owner |-> o, route |-> r]
    <3>1. [owner |-> o, route |-> r] # None
      BY NoValueAssumption
    <3>2. CASE j \in Defined
      <4>1. RevisionOf(j) = [owner |-> j.base, route |-> RouteIn(j)]
        BY <1>0, <3>2, RevisionIs
      <4>2. ~(j.base = o /\ RouteIn(j) = r)
        BY <1>1, <1>11, <3>2 DEF SavedAs
      <4> QED BY <4>1, <4>2
    <3> QED BY <1>0, <3>1, <3>2, RevisionIs
  <2>3. [i \in Ids |-> RevisionOf(i)]' =
            [[i \in Ids |-> RevisionOf(i)] EXCEPT ![id] = [owner |-> o, route |-> r]]
    BY <1>6, <1>7
  <2> QED BY <1>0, <1>8, <1>9, <2>1, <2>2, <2>3 DEF Table!Save, Table!Revision
<1> QED BY <1>10, <1>11

(* A new batch is bound to the default route.                              *)
LEMMA CreateIsBind ==
    ASSUME IInv, IInv', NEW b \in Batches, CreateBatch(b)
    PROVE  Table!Bind(b)
<1>0. /\ ShapeInv /\ b \in Owners /\ Template \in Owners /\ b # Template
      /\ routeOf[b] = NoId /\ routeOf' = [routeOf EXCEPT ![b] = DefaultRoute]
      /\ UNCHANGED <<definition, nodesOf, edgesOf, reader>>
  BY OwnerAssumption DEF IInv, CreateBatch, Owners
<1>1. \A id \in Ids : RevisionOf(id)' = RevisionOf(id)
  BY <1>0 DEF RevisionOf, RouteIn
<1>2. DefaultRoute' = DefaultRoute
  BY <1>0 DEF DefaultRoute, Defined
<1>3. \A c \in Batches : routeOf'[c] = IF c = b THEN DefaultRoute ELSE routeOf[c]
  BY <1>0 DEF ShapeInv
<1>4. \A c \in Owners : CurrentId(c)' = IF c = b THEN CurrentId(Template) ELSE CurrentId(c)
  BY <1>0, <1>2, <1>3 DEF CurrentId, Owners
<1>5. \A q \in Pages : SeenBy(q)' = SeenBy(q)
  BY <1>0 DEF SeenBy
<1>6. [p \in Pages |-> SeenBy(p)]' = [p \in Pages |-> SeenBy(p)]
  BY <1>5
<1>7. [id \in Ids |-> RevisionOf(id)]' = [id \in Ids |-> RevisionOf(id)]
  BY <1>1
<1>8. [o \in Owners |-> CurrentId(o)]' =
          [[o \in Owners |-> CurrentId(o)] EXCEPT ![b] = [o \in Owners |-> CurrentId(o)][Template]]
  BY <1>0, <1>4
<1>9. [o \in Owners |-> CurrentId(o)][b] = NoId
  BY <1>0 DEF CurrentId
<1> QED BY <1>6, <1>7, <1>8, <1>9 DEF Table!Bind

(* A request that starts loads the revision it will read.                  *)
LEMMA RequestIsLoad ==
    ASSUME IInv, IInv', NEW p \in Pages, NEW kind \in {"form", "policies"}, Request(p, kind)
    PROVE  Table!Load(p)
<1>0. /\ ShapeInv /\ RevisionInv /\ FollowInv /\ RevisionInv' /\ FollowInv'
      /\ reader[p] = Idle /\ UNCHANGED <<definition, nodesOf, edgesOf, routeOf>>
  BY DEF IInv, Request, routes
<1>1. PICK id \in ({CurrentId(o) : o \in Owners} \cup {shown[p]}) \ {NoId} :
          reader' = [reader EXCEPT
              ![p] = [kind |-> kind, id |-> id, nodes |-> None, edges |-> None, at |-> "nodes"]]
  BY DEF Request
<1>2. id \in Defined /\ id \in Ids
  <2>1. id \in Defined
    BY <1>0, CurrentExists DEF FollowInv
  <2> QED BY <2>1 DEF Defined
<1>3. /\ reader'[p] = [kind |-> kind, id |-> id, nodes |-> None, edges |-> None, at |-> "nodes"]
      /\ \A q \in Pages : q # p => reader'[q] = reader[q]
  BY <1>0, <1>1 DEF ShapeInv
<1>4. reader'[p].id = id /\ reader'[p] # Idle
  <2>1. reader'[p] \in Handler
    <3>1. /\ None \in (SUBSET RouteNode) \cup {None}
          /\ None \in (SUBSET (NodeIds \X NodeIds)) \cup {None}
      OBVIOUS
    <3>2. [kind |-> kind, id |-> id, nodes |-> None, edges |-> None, at |-> "nodes"] \in Handler
      BY <1>2, <3>1, Zenon DEF Handler
    <3> QED BY <1>3, <3>2
  <2> QED BY <1>3, <2>1, NoValueAssumption
<1>5. SeenIsWhole /\ SeenIsWhole'
  BY <1>0, SeenWhole, PTL
<1>6. \A i \in Ids : RevisionOf(i)' = RevisionOf(i)
  BY <1>0 DEF RevisionOf, RouteIn
<1>7. \A o \in Owners : CurrentId(o)' = CurrentId(o)
  BY <1>0 DEF CurrentId, DefaultRoute, Defined
<1>8. SeenBy(p) = None
  BY <1>0 DEF SeenBy
<1>9. SeenBy(p)' = [id |-> id, revision |-> RevisionOf(id)]
  <2>1. SeenBy(p)' = [id |-> reader'[p].id, revision |-> RevisionOf(reader[p].id)']
    BY <1>4, <1>5 DEF SeenIsWhole
  <2>2. RevisionOf(reader[p].id)' = RevisionOf(id)'
    BY <1>4 DEF RevisionOf, RouteIn
  <2> QED BY <1>2, <1>4, <1>6, <2>1, <2>2
<1>10. ASSUME NEW q \in Pages, q # p
       PROVE  SeenBy(q)' = SeenBy(q)
  BY <1>0, <1>3, <1>10 DEF SeenBy
<1>11. [q \in Pages |-> SeenBy(q)]' =
           [[q \in Pages |-> SeenBy(q)] EXCEPT
               ![p] = [id |-> id, revision |-> [i \in Ids |-> RevisionOf(i)][id]]]
  BY <1>2, <1>9, <1>10
<1>12. [i \in Ids |-> RevisionOf(i)]' = [i \in Ids |-> RevisionOf(i)]
  BY <1>6
<1>13. [o \in Owners |-> CurrentId(o)]' = [o \in Owners |-> CurrentId(o)]
  BY <1>7
<1>14. [i \in Ids |-> RevisionOf(i)][id] # None
  BY <1>0, <1>2, RevisionIs
<1>15. [q \in Pages |-> SeenBy(q)][p] = None
  BY <1>8
<1> QED BY <1>2, <1>11, <1>12, <1>13, <1>14, <1>15 DEF Table!Load

(* The first database is the first table: one revision, followed by the    *)
(* template.                                                               *)
LEMMA InitIsInit == Init => Table!Init
<1> SUFFICES ASSUME Init PROVE Table!Init
  OBVIOUS
<1>0. ShapeInv /\ RevisionInv /\ FollowInv
  BY InitIInv DEF IInv
<1>1. DefaultId.base = Template /\ DefaultId \in Ids
  BY <1>0 DEF DefaultId, RevisionInv, Defined
<1>2. \A id \in Ids : id \in Defined <=> id = DefaultId
  BY <1>0 DEF Init, RevisionInv, Defined
<1>3. RouteIn(DefaultId) = FirstRoute
  BY <1>0 DEF RevisionInv
<1>4. \A id \in Ids : RevisionOf(id) = IF id = DefaultId
                                       THEN [owner |-> Template, route |-> FirstRoute] ELSE None
  BY <1>0, <1>1, <1>2, <1>3, RevisionIs
<1>5. DefaultRoute = DefaultId
  <2>1. DefaultRoute \in Ids /\ DefaultRoute \in Defined
    BY <1>0, CurrentExists DEF Defined
  <2> QED BY <1>2, <2>1
<1>6. \A o \in Owners : CurrentId(o) = IF o = Template THEN DefaultId ELSE NoId
  BY <1>5 DEF Init, CurrentId, Owners
<1>7. \A p \in Pages : SeenBy(p) = None
  BY DEF Init, SeenBy
<1> QED BY <1>4, <1>6, <1>7 DEF Table!Init, Table!Revision

(* Route editing as the server does it, with a save in two transactions,   *)
(* requests that load a route in three statements, and crashes in between, *)
(* implements a table of revisions that only grows, in which a handler     *)
(* gets a revision as a whole.                                             *)
THEOREM Refinement == Spec => ImplementsRouteTable
<1>1. IInv /\ [Next]_vars => [Table!Next]_(Table!vars)
  <2> SUFFICES ASSUME IInv, [Next]_vars PROVE Table!Next
    OBVIOUS
  <2>0. ShapeInv /\ FollowInv /\ RevisionInv /\ IInv'
    BY StepIInv DEF IInv
  <2>1. ASSUME NEW o \in Owners, NEW r \in Routes, SaveRoute(o, r)
        PROVE  Table!Next
    BY <2>1, SaveIsSave DEF Table!Next
  <2>2. ASSUME NEW b \in Batches, CreateBatch(b)
        PROVE  Table!Next
    <3>1. Table!Bind(b) /\ b \in Owners \ {Template}
      BY <2>0, <2>2, CreateIsBind, OwnerAssumption DEF Owners
    <3> QED BY <3>1 DEF Table!Next
  <2>3. ASSUME NEW p \in Pages, NEW kind \in {"form", "policies"}, Request(p, kind)
        PROVE  Table!Next
    <3>1. Table!Load(p)
      BY <2>0, <2>3, RequestIsLoad
    <3> QED BY <3>1 DEF Table!Next
  <2>4. ASSUME NEW p \in Pages, ReadNodes(p) \/ ReadEdges(p) \/ EnsureForForm(p)
        PROVE  Table!Next
    <3>1. /\ reader[p] # Idle /\ UNCHANGED <<definition, nodesOf, edgesOf, routeOf>>
          /\ \A q \in Pages : q # p => reader'[q] = reader[q]
      BY <2>0, <2>4 DEF ReadNodes, ReadEdges, EnsureForForm, routes, ShapeInv
    <3>2. reader[p] \in Handler
      BY <2>0, <3>1 DEF ShapeInv
    <3>3. reader'[p].id = reader[p].id
      <4>1. CASE ReadNodes(p)
        BY <2>0, <3>2, <4>1 DEF ReadNodes, ShapeInv, Handler
      <4>2. CASE ReadEdges(p)
        BY <2>0, <3>2, <4>2 DEF ReadEdges, ShapeInv, Handler
      <4>3. CASE EnsureForForm(p)
        BY <2>0, <3>2, <4>3 DEF EnsureForForm, ShapeInv, Handler
      <4> QED BY <2>4, <4>1, <4>2, <4>3
    <3>4. \A q \in Pages : \/ reader'[q] = Idle
                           \/ reader[q] # Idle /\ reader'[q].id = reader[q].id
      BY <3>1, <3>3
    <3>5. Table!Forget
      BY <2>0, <3>1, <3>4, HandlersEnd
    <3> QED BY <3>5 DEF Table!Next
  <2>5. ASSUME UNCHANGED <<definition, nodesOf, edgesOf, routeOf>>,
               \A q \in Pages : reader'[q] = reader[q] \/ reader'[q] = Idle
        PROVE  Table!Next
    <3>1. Table!Forget
      BY <2>0, <2>5, HandlersEnd
    <3> QED BY <3>1 DEF Table!Next
  <2>6. ASSUME NEW p \in Pages, ShowPolicies(p) \/ SavePolicies(p) \/ Abandon(p)
        PROVE  /\ UNCHANGED <<definition, nodesOf, edgesOf, routeOf>>
               /\ \A q \in Pages : reader'[q] = reader[q] \/ reader'[q] = Idle
    BY <2>0, <2>6 DEF ShowPolicies, SavePolicies, Abandon, routes, ShapeInv
  <2>7. CASE Restart
    BY <2>0, <2>5, <2>7, RestartEffect
  <2>8. SetUpPolicies \/ SetUpFails \/ UNCHANGED vars =>
            UNCHANGED <<definition, nodesOf, edgesOf, routeOf, reader>>
    BY DEF SetUpPolicies, SetUpFails, routes, vars
  <2> QED BY <2>1, <2>2, <2>3, <2>4, <2>5, <2>6, <2>7, <2>8 DEF Next
<1> QED BY <1>1, InitIsInit, Invariance, PTL DEF Spec, ImplementsRouteTable, Table!Spec
=============================================================================
