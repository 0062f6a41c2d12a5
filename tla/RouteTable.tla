------------------------------- MODULE RouteTable -------------------------------
(***************************************************************************)
(* What route editing promises the rest of the server: a table of route    *)
(* revisions that only grows.  A revision keeps its owner and its route    *)
(* for ever, an owner has at most one revision of a route, every batch and *)
(* the template for new batches follow one revision each, and a handler    *)
(* that loads a route gets one revision as a whole.  RouteProgress and     *)
(* PrivateChain are written against this promise: there a route ID is its  *)
(* owner and its route.                                                    *)
(***************************************************************************)
CONSTANTS
    Threads,     \* request handlers
    Owners,      \* the batches, and Template
    Template,    \* the owner of the default routes
    Routes,      \* what the canvas can show
    Ids,         \* route IDs
    First,       \* the ID every database starts with ...
    FirstRoute,  \* ... and its route
    NoId,        \* the route of a batch that does not exist yet
    None         \* a revision that does not exist; a handler without a route

VARIABLES
    revision,  \* what each ID stands for
    current,   \* the revision each owner follows
    seen       \* what each handler has loaded

vars == <<revision, current, seen>>

Revision(o, r) == [owner |-> o, route |-> r]

Init ==
    /\ revision = [id \in Ids |-> IF id = First THEN Revision(Template, FirstRoute) ELSE None]
    /\ current = [o \in Owners |-> IF o = Template THEN First ELSE NoId]
    /\ seen = [t \in Threads |-> None]

(* An owner saves a route: the revision it already has of that route, or a *)
(* new one, becomes the one it follows.                                    *)
Save(o, r) ==
    /\ UNCHANGED seen
    /\ current[o] # NoId
    /\ \E id \in Ids :
           /\ current' = [current EXCEPT ![o] = id]
           /\ \/ revision[id] = Revision(o, r) /\ UNCHANGED revision
              \/ /\ revision[id] = None
                 /\ \A j \in Ids : revision[j] # Revision(o, r)
                 /\ revision' = [revision EXCEPT ![id] = Revision(o, r)]

(* A new batch follows the template.                                       *)
Bind(b) ==
    /\ current[b] = NoId
    /\ current' = [current EXCEPT ![b] = current[Template]]
    /\ UNCHANGED <<revision, seen>>

(* A handler loads a revision, by its ID or as the one an owner follows.   *)
Load(t) ==
    /\ seen[t] = None
    /\ \E id \in Ids :
           /\ revision[id] # None
           /\ seen' = [seen EXCEPT ![t] = [id |-> id, revision |-> revision[id]]]
    /\ UNCHANGED <<revision, current>>

(* Handlers end, all of them when the server dies.                         *)
Forget ==
    /\ \E T \in SUBSET Threads :
           seen' = [t \in Threads |-> IF t \in T THEN None ELSE seen[t]]
    /\ UNCHANGED <<revision, current>>

Next ==
    \/ Forget
    \/ \E t \in Threads : Load(t)
    \/ \E b \in Owners \ {Template} : Bind(b)
    \/ \E o \in Owners, r \in Routes : Save(o, r)

Spec == Init /\ [][Next]_vars
=============================================================================
