-------------------------- MODULE PrivateChainProofs --------------------------
(***************************************************************************)
(* Proofs about PrivateChain, for any sets of accounts, nodes, routes and  *)
(* threads, and without the bounds of the model-checked instance; and, in  *)
(* the second half, about MerkleTrees, whose roots and verified flags the  *)
(* Blocks are committed with, for any leaves, number of leaves and arity.  *)
(***************************************************************************)
EXTENDS PrivateChain, MerkleTrees, SequenceTheorems, FunctionTheorems, FiniteSetTheorems,
        WellFoundedInduction, TLAPS

-----------------------------------------------------------------------------
(* First and last positions.                                               *)
Earlier == {p \in Nat \X Nat : p[1] < p[2]}

(* The order of positions is well founded.                                 *)
LEMMA EarlierIsWellFounded == IsWellFoundedOn(Earlier, Nat)
<1>1. IsWellFoundedOn(OpToRel(<,Nat), Nat)
  BY NatLessThanWellFounded
<1>2. OpToRel(<,Nat) = Earlier
  BY DEF OpToRel, Earlier
<1> QED BY <1>1, <1>2

(* A non-empty set of positions has a first one, as NextStage takes it.    *)
LEMMA MinIsMember ==
    ASSUME NEW W \in SUBSET Nat, W # {}
    PROVE  Min(W) \in W /\ \A y \in W : Min(W) <= y
<1>1. PICK x \in W : \A y \in W : ~(<<y, x>> \in Earlier)
  BY EarlierIsWellFounded, WFMin
<1>2. ASSUME NEW y \in W PROVE x <= y
  <2>1. ~(<<y, x>> \in Earlier) /\ x \in Nat /\ y \in Nat /\ <<y, x>> \in Nat \X Nat
    BY <1>1
  <2>2. ~(y < x)
    BY <2>1 DEF Earlier
  <2> QED BY <2>1, <2>2
<1> QED BY <1>2 DEF Min

(* A non-empty set of positions of a sequence has a last one, as Latest    *)
(* takes it.                                                               *)
LEMMA MaxIsMember ==
    ASSUME NEW n \in Nat, NEW W \in SUBSET (1..n), W # {}
    PROVE  Max(W) \in W
<1> DEFINE D == {n - x : x \in W}
<1>0. \A x \in W : x \in Nat /\ x <= n /\ n - x \in Nat
  OBVIOUS
<1>1. D \in SUBSET Nat /\ D # {}
  BY <1>0
<1>2. PICK d \in D : \A e \in D : ~(<<e, d>> \in Earlier)
  BY <1>1, EarlierIsWellFounded, WFMin
<1>3. PICK x \in W : d = n - x
  BY <1>2
<1>4. ASSUME NEW y \in W PROVE x >= y
  <2>1. n - y \in D /\ <<n - y, d>> \in Nat \X Nat
    BY <1>1, <1>2
  <2>2. ~(n - y < n - x)
    BY <2>1, <1>2, <1>3 DEF Earlier
  <2> QED BY <2>2, <1>0, <1>3
<1> QED BY <1>4 DEF Max

(* Latest is the position of a Block of the batch, or Genesis.             *)
LEMMA LatestIsBlock ==
    ASSUME NEW c \in Seq(Block), NEW b
    PROVE  /\ Latest(c, b) \in 0..Len(c)
           /\ Latest(c, b) # Genesis => Latest(c, b) \in BlocksOf(c, b)
           /\ Latest(c, b) = Genesis => BlocksOf(c, b) = {}
<1>1. BlocksOf(c, b) \in SUBSET (1..Len(c)) /\ Len(c) \in Nat
  BY DEF BlocksOf
<1>2. BlocksOf(c, b) # {} => Max(BlocksOf(c, b)) \in BlocksOf(c, b)
  BY <1>1, MaxIsMember
<1> QED BY <1>1, <1>2 DEF Latest, Genesis

(* The next stage of a batch is one that nobody has committed.             *)
LEMMA NextStageIsOpen ==
    ASSUME NEW r \in Routes, NEW c, NEW b, NextStage(r, c, b) # 0
    PROVE  /\ NextStage(r, c, b) \in DOMAIN StagesOf[r]
           /\ BlocksAt(c, b, StagesOf[r][NextStage(r, c, b)]) = {}
           /\ StagesOf[r][NextStage(r, c, b)] \in Stage
<1> DEFINE open == {k \in DOMAIN StagesOf[r] : BlocksAt(c, b, StagesOf[r][k]) = {}}
<1>1. StagesOf[r] \in Seq(Stage)
  BY StageAssumption
<1>2. open \in SUBSET Nat
  BY <1>1
<1>3. open # {} /\ NextStage(r, c, b) = Min(open)
  BY DEF NextStage
<1>4. NextStage(r, c, b) \in open
  BY <1>2, <1>3, MinIsMember
<1> QED BY <1>1, <1>4

-----------------------------------------------------------------------------
(* The inductive part of StoredChainValidates and ProgressNeverFails:      *)
(* every Block continues the latest one of its batch, no account commits   *)
(* twice at a node of a batch, and genesis Blocks are the Suppliers'.      *)
Chain(c) ==
    /\ c \in Seq(Block)
    /\ \A i \in 1..Len(c) : c[i].parent = Latest(SubSeq(c, 1, i - 1), c[i].batch)
    /\ \A i, j \in 1..Len(c) :
           /\ c[i].batch = c[j].batch /\ c[i].node = c[j].node /\ c[i].user = c[j].user
           => i = j
    /\ \A i \in 1..Len(c) : RoleOf[c[i].user] = "supplier" <=> c[i].parent = Genesis

Links(c) == {LinkTo(c, i) : i \in {j \in 1..Len(c) : c[j].parent # Genesis}}

(* A parent is an earlier Block of the same batch.                         *)
LEMMA ParentIsEarlier ==
    ASSUME NEW c, Chain(c), NEW i \in 1..Len(c), c[i].parent # Genesis
    PROVE  /\ c[i].parent \in 1..Len(c) /\ c[i].parent < i
           /\ c[c[i].parent].batch = c[i].batch
<1> DEFINE p == SubSeq(c, 1, i - 1)
<1>1. c \in Seq(Block) /\ i - 1 \in 0..Len(c)
  BY DEF Chain
<1>2. /\ p \in Seq(Block) /\ Len(p) = i - 1
      /\ \A j \in 1..(i - 1) : p[j] = c[j]
  BY <1>1
<1>3. c[i].parent = Latest(p, c[i].batch)
  BY DEF Chain
<1>4. c[i].parent \in BlocksOf(p, c[i].batch)
  BY <1>2, <1>3, LatestIsBlock
<1>5. c[i].parent \in 1..(i - 1) /\ p[c[i].parent].batch = c[i].batch
  BY <1>2, <1>4 DEF BlocksOf
<1> QED BY <1>1, <1>2, <1>5

(* A Block that continues the latest one of its batch, at a stage without  *)
(* one, keeps the chain as it has to be.                                   *)
LEMMA AppendKeepsChain ==
    ASSUME NEW c, Chain(c), NEW new \in Block,
           new.parent = Latest(c, new.batch),
           \A i \in 1..Len(c) :
               ~(c[i].batch = new.batch /\ c[i].node = new.node /\ c[i].user = new.user),
           RoleOf[new.user] = "supplier" <=> new.parent = Genesis
    PROVE  /\ Chain(Append(c, new))
           /\ Links(Append(c, new)) = Links(c) \cup
                  IF new.parent = Genesis THEN {}
                  ELSE {LinkTo(Append(c, new), Len(c) + 1)}
<1> DEFINE d == Append(c, new)
<1>1. c \in Seq(Block) /\ Len(c) \in Nat
  BY DEF Chain
<1>2. /\ d \in Seq(Block) /\ Len(d) = Len(c) + 1 /\ d[Len(c) + 1] = new
      /\ \A i \in 1..Len(c) : d[i] = c[i]
  BY <1>1, AppendProperties
<1>3. 1..Len(d) = 1..Len(c) \cup {Len(c) + 1}
  BY <1>1, <1>2
<1>4. ASSUME NEW i \in 1..(Len(c) + 1)
      PROVE  SubSeq(d, 1, i - 1) = SubSeq(c, 1, i - 1)
  <2>1. i - 1 \in 0..Len(c)
    BY <1>1
  <2>2. d = c \o <<new>> /\ <<new>> \in Seq(Block)
    BY <1>1, AppendIsConcat
  <2>3. SubSeq(c \o <<new>>, 1, i - 1) = SubSeq(c, 1, i - 1)
    BY <1>1, <2>1, <2>2, SubSeqOfConcat1
  <2> QED BY <2>2, <2>3
<1>5. SubSeq(d, 1, Len(c)) = c
  <2>1. SubSeq(d, 1, (Len(c) + 1) - 1) = SubSeq(c, 1, (Len(c) + 1) - 1)
    BY <1>1, <1>4
  <2>2. SubSeq(c, 1, Len(c)) = c
    BY <1>1, SubSeqFull
  <2> QED BY <1>1, <2>1, <2>2
<1>6. \A i \in 1..Len(d) : d[i].parent = Latest(SubSeq(d, 1, i - 1), d[i].batch)
  <2>1. ASSUME NEW i \in 1..Len(c)
        PROVE  d[i].parent = Latest(SubSeq(d, 1, i - 1), d[i].batch)
    <3>1. SubSeq(d, 1, i - 1) = SubSeq(c, 1, i - 1)
      BY <1>1, <1>4
    <3> QED BY <3>1, <1>2 DEF Chain
  <2>2. d[Len(c) + 1].parent = Latest(SubSeq(d, 1, (Len(c) + 1) - 1), d[Len(c) + 1].batch)
    <3>1. (Len(c) + 1) - 1 = Len(c)
      BY <1>1
    <3> QED BY <1>2, <1>5, <3>1
  <2> QED BY <1>3, <2>1, <2>2
<1>7. \A i, j \in 1..Len(d) :
          /\ d[i].batch = d[j].batch /\ d[i].node = d[j].node /\ d[i].user = d[j].user
          => i = j
  BY <1>2, <1>3 DEF Chain
<1>8. \A i \in 1..Len(d) : RoleOf[d[i].user] = "supplier" <=> d[i].parent = Genesis
  BY <1>2, <1>3 DEF Chain
<1>9. Chain(d)
  BY <1>2, <1>6, <1>7, <1>8 DEF Chain
<1>10. \A i \in 1..Len(c) : LinkTo(d, i) = LinkTo(c, i)
  BY <1>2 DEF LinkTo
<1>11. Links(d) = Links(c) \cup
           IF new.parent = Genesis THEN {} ELSE {LinkTo(d, Len(c) + 1)}
  BY <1>2, <1>3, <1>10 DEF Links
<1> QED BY <1>9, <1>11

(* Such a chain and its links pass validate_stored_chain.                  *)
LEMMA ChainValidates ==
    ASSUME NEW c, Chain(c)
    PROVE  ValidateStoredChain(c, Links(c))
<1>1. c \in Seq(Block) /\ DOMAIN c = 1..Len(c) /\ Len(c) \in Nat
  BY DEF Chain
<1>2. \A i \in 1..Len(c) : LinkTo(c, i).to = i /\ LinkTo(c, i).from = c[i].parent
                          /\ LinkTo(c, i).batch = c[i].batch
  BY DEF LinkTo
<1>3. ASSUME NEW i \in 1..Len(c)
      PROVE  {e \in Links(c) : e.to = i} =
                 IF c[i].parent = Genesis THEN {} ELSE {LinkTo(c, i)}
  BY <1>2 DEF Links
<1>4. ASSUME NEW e \in Links(c)
      PROVE  /\ e.from \in DOMAIN c /\ e.to \in DOMAIN c /\ e.from < e.to
             /\ c[e.from].batch = e.batch /\ c[e.to].batch = e.batch
  <2>1. PICK i \in 1..Len(c) : c[i].parent # Genesis /\ e = LinkTo(c, i)
    BY DEF Links
  <2> QED BY <1>1, <1>2, <2>1, ParentIsEarlier
<1> QED BY <1>1, <1>3, <1>4 DEF Chain, ValidateStoredChain

(* On such a chain the progress evaluation of no complete route fails.     *)
LEMMA ChainProgresses ==
    ASSUME NEW c, Chain(c), NEW r \in Routes, Complete(r), NEW b
    PROVE  ~ProgressFails(r, c, b)
<1>1. c \in Seq(Block) /\ DOMAIN c = 1..Len(c) /\ Len(c) \in Nat
  BY DEF Chain
<1>2. StagesOf[r] \in Seq(Stage)
  BY StageAssumption
<1>3. StagesOf[r] # <<>>
  BY <1>2 DEF Complete
<1>4. ASSUME NEW k \in DOMAIN StagesOf[r],
             NEW i \in BlocksAt(c, b, StagesOf[r][k]), NEW j \in BlocksAt(c, b, StagesOf[r][k])
      PROVE  i = j
  BY <1>1 DEF Chain, BlocksAt, BlocksOf
<1>5. ASSUME NEW k \in DOMAIN StagesOf[r], NEW i \in BlocksAt(c, b, StagesOf[r][k])
      PROVE  Linked(r, c, b, k, i)
  <2>1. /\ i \in 1..Len(c) /\ c[i].batch = b /\ c[i].user = StagesOf[r][k].user
        /\ k \in Nat
    BY <1>1, <1>2 DEF BlocksAt, BlocksOf
  <2>2. RoleOf[c[i].user] = "supplier" <=> k = 1
    BY <2>1 DEF Complete, RoleAt
  <2>3. c[i].parent = Genesis <=> k = 1
    BY <2>1, <2>2 DEF Chain
  <2>4. CASE k = 1
    BY <2>3, <2>4 DEF Linked
  <2>5. CASE k # 1
    <3>1. c[i].parent \in 1..Len(c) /\ c[i].parent < i /\ c[c[i].parent].batch = b
      BY <2>1, <2>3, <2>5, ParentIsEarlier
    <3>2. c[i].parent \in {j \in BlocksOf(c, b) : j < i}
      BY <1>1, <3>1 DEF BlocksOf
    <3> QED BY <2>5, <3>2 DEF Linked
  <2> QED BY <2>4, <2>5
<1> QED BY <1>3, <1>4, <1>5 DEF ProgressFails

-----------------------------------------------------------------------------
(* The inductive invariant.                                                *)
Busy(t) == submission[t] # Idle
Confirmed(t) == Busy(t) /\ submission[t].at = "confirmed"
Inserted(t) == Busy(t) /\ submission[t].at = "inserted"

(* Who is inside the critical section, and the Block that memory lacks.    *)
MutexInv ==
    /\ ChainMutexFree => memory = blocks /\ \A t \in Threads : ~Inserted(t)
    /\ ~ChainMutexFree =>
           /\ holder \in Threads /\ Inserted(holder)
           /\ Len(blocks) > 0 /\ blocks = Append(memory, blocks[Len(blocks)])
           /\ \A t \in Threads : Inserted(t) => t = holder

(* A continuing stage names a batch, and is confirmed for what it names.   *)
FormInv ==
    \A t \in Threads : Busy(t) /\ ~IsSupplier(submission[t]) =>
        /\ submission[t].batch \in Batches
        /\ Confirmed(t) => /\ submission[t].seen = submission[t].route
                           /\ submission[t].stage = submission[t].node

(* A challenge is open, or spent on one submission or one Block.           *)
ChallengeInv ==
    /\ \A c \in challenges : c.id <= issued
    /\ \A c, d \in challenges : c.id = d.id => c = d
    /\ \A t \in Threads : Busy(t) => submission[t].challenge <= issued
    /\ \A i \in 1..Len(blocks) :
           /\ blocks[i].challenge <= issued
           /\ \A c \in challenges : c.id # blocks[i].challenge
    /\ \A t \in Threads : Confirmed(t) =>
           /\ \A c \in challenges : c.id # submission[t].challenge
           /\ \A i \in 1..Len(blocks) : blocks[i].challenge # submission[t].challenge
    /\ \A t, u \in Threads : Confirmed(t) /\ Confirmed(u)
           /\ submission[t].challenge = submission[u].challenge => t = u
    /\ \A i, j \in 1..Len(blocks) : blocks[i].challenge = blocks[j].challenge => i = j

ChainInv ==
    /\ TypeOK
    /\ Chain(blocks) /\ Chain(memory) /\ edges = Links(blocks)
    /\ MutexInv /\ FormInv /\ ChallengeInv

(* A thread is idle or has a submission with all its fields.               *)
LEMMA SubmissionFields ==
    ASSUME TypeOK, NEW t \in Threads, Busy(t)
    PROVE  /\ submission[t] \in Submission
           /\ submission[t].at \in {"received", "routed", "confirmed", "inserted"}
           /\ submission[t].user \in Users
           /\ submission[t].batch \in Batches \cup {0}
           /\ submission[t].route \in RouteId \cup {NoRoute}
           /\ submission[t].node \in Nodes \cup {NoNode}
           /\ submission[t].challenge \in 1..MaxChallenges
           /\ submission[t].seen \in RouteId \cup {NoRoute}
           /\ submission[t].stage \in Nodes \cup {NoNode}
<1>1. submission[t] \in Submission
  BY DEF TypeOK, Busy
<1> QED BY <1>1 DEF Submission

(* The route a submission is checked against is a revision of a route.     *)
LEMMA CurrentRouteType ==
    ASSUME TypeOK, FormInv, NEW t \in Threads, Busy(t)
    PROVE  /\ CurrentRoute(submission[t]) \in RouteId \cup {NoRoute}
           /\ IsSupplier(submission[t]) => CurrentRoute(submission[t]) \in RouteId
           /\ ~IsSupplier(submission[t]) =>
                  CurrentRoute(submission[t]) = routeOf[submission[t].batch]
<1>1. [owner |-> DefaultOwner, route |-> template] \in RouteId
  BY DEF TypeOK, RouteId
<1>2. ~IsSupplier(submission[t]) => submission[t].batch \in Batches
  BY DEF FormInv
<1> QED BY <1>1, <1>2 DEF TypeOK, CurrentRoute

(* What a commit appends, given that nobody else is inside chain_mutex.    *)
LEMMA CommitFacts ==
    ASSUME ChainInv, NEW t \in Threads, CommitBlock(t)
    PROVE  \E new \in Block :
             /\ Confirmed(t) /\ ChainMutexFree /\ memory = blocks
             /\ blocks' = Append(blocks, new)
             /\ edges' = edges \cup IF new.parent = Genesis THEN {}
                                    ELSE {LinkTo(blocks', Len(blocks) + 1)}
             /\ routeOf' = [routeOf EXCEPT ![new.batch] = new.route]
             /\ new.parent = Latest(blocks, new.batch)
             /\ \A i \in 1..Len(blocks) :
                    ~(/\ blocks[i].batch = new.batch /\ blocks[i].node = new.node
                      /\ blocks[i].user = new.user)
             /\ RoleOf[new.user] = "supplier" <=> new.parent = Genesis
             /\ NextStage(new.route.route, blocks, new.batch) # 0
             /\ StagesOf[new.route.route][NextStage(new.route.route, blocks, new.batch)]
                   = [node |-> new.node, user |-> new.user]
             /\ new.challenge = submission[t].challenge
             /\ IsSupplier(submission[t]) => new.batch \notin Existing
             /\ ~IsSupplier(submission[t]) =>
                    /\ new.route = submission[t].route /\ new.node = submission[t].node
                    /\ new.route = routeOf[new.batch]
<1> DEFINE s == submission[t]
           id == RouteAtCommit(s)
           r == id.route
           b == TargetBatch(s)
           k == NextStage(r, memory, b)
           parent == ParentFor(r, memory, b)
           new == [batch |-> b, parent |-> parent, node |-> StagesOf[r][k].node,
                   user |-> s.user, route |-> RecordedRoute(s), challenge |-> s.challenge]
<1>1. TypeOK /\ FormInv /\ MutexInv /\ Chain(blocks)
  BY DEF ChainInv
<1>2. Busy(t) /\ s.at = "confirmed" /\ ChainMutexFree /\ b \in Batches /\ Permitted(s, r, b, k)
  BY DEF CommitBlock, Busy
<1>3. memory = blocks
  BY <1>1, <1>2 DEF MutexInv
<1>4. /\ blocks' = Append(blocks, new)
      /\ edges' = edges \cup IF parent = Genesis THEN {} ELSE {LinkTo(blocks', Len(blocks'))}
      /\ routeOf' = [routeOf EXCEPT ![b] = RecordedRoute(s)]
  BY DEF CommitBlock
<1>5. /\ BatchInOrder(s, b) /\ k # 0 /\ StagesOf[r][k].user = s.user
      /\ Rechecked(s, StagesOf[r][k].node)
  BY <1>2 DEF Permitted
<1>6. id \in RouteId
  <2>1. CASE IsSupplier(s)
    BY <1>1, <1>2, <2>1, CurrentRouteType DEF RouteAtCommit
  <2>2. CASE ~IsSupplier(s)
    <3>1. b = s.batch /\ b \in Existing
      BY <1>5, <2>2 DEF BatchInOrder, TargetBatch
    <3>2. id = routeOf[b] /\ id # NoRoute /\ id \in RouteId \cup {NoRoute}
      BY <1>1, <1>2, <2>2, <3>1, CurrentRouteType DEF RouteAtCommit, Existing
    <3> QED BY <3>2
  <2> QED BY <2>1, <2>2
<1>7. r \in Routes
  BY <1>6 DEF RouteId
<1>8. /\ k \in DOMAIN StagesOf[r] /\ BlocksAt(memory, b, StagesOf[r][k]) = {}
      /\ StagesOf[r][k] \in Stage
  BY <1>5, <1>7, NextStageIsOpen
<1>9. parent = Latest(blocks, b) /\ parent \in 0..Len(blocks)
  BY <1>1, <1>3, LatestIsBlock DEF ParentFor, Chain
<1>10. new \in Block
  <2>1. s.user \in Users /\ s.challenge \in Nat
    BY <1>1, <1>2, SubmissionFields, ChainBoundAssumption
  <2>2. parent \in Nat
    BY <1>9, <1>1 DEF Chain
  <2> QED BY <1>2, <1>6, <1>8, <2>1, <2>2 DEF Block, Stage, RecordedRoute
<1>11. \A i \in 1..Len(blocks) :
           ~(blocks[i].batch = new.batch /\ blocks[i].node = new.node /\ blocks[i].user = new.user)
  <2>1. blocks \in Seq(Block)
    BY <1>1 DEF Chain
  <2> QED BY <1>3, <1>5, <1>8, <2>1 DEF BlocksAt, BlocksOf
<1>12. RoleOf[new.user] = "supplier" <=> new.parent = Genesis
  BY <1>3, <1>5, <1>9 DEF BatchInOrder, IsSupplier
<1>13. IsSupplier(s) => new.batch \notin Existing
  BY <1>5 DEF BatchInOrder
<1>14. ASSUME ~IsSupplier(s)
       PROVE  /\ new.route = s.route /\ new.node = s.node
              /\ new.route = routeOf[new.batch]
  <2>1. b = s.batch
    BY <1>14 DEF TargetBatch
  <2>2. id = routeOf[b]
    BY <1>1, <1>2, <1>14, <2>1, CurrentRouteType DEF RouteAtCommit
  <2> QED BY <1>5, <1>14, <2>2 DEF Rechecked, RecordedRoute
<1>15. Len(blocks') = Len(blocks) + 1
  BY <1>1, <1>4, <1>10, AppendProperties DEF Chain
<1>16. Confirmed(t) /\ ChainMutexFree
  BY <1>2 DEF Confirmed
<1>17. edges' = edges \cup IF new.parent = Genesis THEN {} ELSE {LinkTo(blocks', Len(blocks) + 1)}
  BY <1>4, <1>15
<1>18. /\ routeOf' = [routeOf EXCEPT ![new.batch] = new.route]
       /\ new.parent = Latest(blocks, new.batch) /\ new.challenge = s.challenge
  BY <1>4, <1>9
<1>19. /\ NextStage(new.route.route, blocks, new.batch) # 0
       /\ StagesOf[new.route.route][NextStage(new.route.route, blocks, new.batch)]
             = [node |-> new.node, user |-> new.user]
  <2>1. new.route.route = r /\ new.batch = b
    BY DEF RecordedRoute
  <2>2. StagesOf[r][k] = [node |-> StagesOf[r][k].node, user |-> StagesOf[r][k].user]
    BY <1>8 DEF Stage
  <2>3. new.node = StagesOf[r][k].node /\ new.user = StagesOf[r][k].user
    BY <1>5
  <2> HIDE DEF new, r, b
  <2> QED BY <1>3, <1>5, <2>1, <2>2, <2>3
<1> HIDE DEF new
<1> QED BY <1>3, <1>4, <1>10, <1>11, <1>12, <1>13, <1>14, <1>16, <1>17, <1>18, <1>19

-----------------------------------------------------------------------------
(* The steps that leave the chain and the mutex alone.                     *)
QuietStep(t) ==
    \/ \E u \in Users : Submit(t, u)
    \/ \E s \in Threads : Resubmit(t, s)
    \/ LoadRoute(t) \/ Confirm(t) \/ Refuse(t) \/ CommitFails(t)
Quiet ==
    \/ \E t \in Threads : QuietStep(t)
    \/ \E c \in challenges : Expire(c)

(* Every step is quiet, or one of the four that are not.                   *)
LEMMA NextCases ==
    ASSUME [Next]_vars
    PROVE  \/ Quiet
           \/ \E t \in Threads : CommitBlock(t)
           \/ \E t \in Threads : PublishBlock(t)
           \/ \E r \in Routes : SaveRoute(r)
           \/ Restart
           \/ UNCHANGED vars
BY DEF Next, Quiet, QuietStep

(* A quiet step changes one submission at most, and its thread is not      *)
(* inside the critical section before or after it.                         *)
LEMMA QuietFacts ==
    ASSUME ChainInv, Quiet
    PROVE  /\ UNCHANGED <<blocks, edges, routeOf, template, memory, holder, saves>>
           /\ \/ submission' = submission
              \/ \E t \in Threads :
                     /\ \A u \in Threads \ {t} : submission'[u] = submission[u]
                     /\ ~Inserted(t)
                     /\ submission'[t] # Idle =>
                            /\ submission'[t] \in Submission
                            /\ submission'[t].at \in {"received", "routed", "confirmed"}
<1>1. TypeOK /\ FormInv
  BY DEF ChainInv
<1>2. ASSUME NEW c \in challenges, Expire(c)
      PROVE  /\ UNCHANGED <<blocks, edges, routeOf, template, memory, holder, saves>>
             /\ submission' = submission
  BY <1>2 DEF Expire, database, bounds
<1>3. ASSUME NEW t \in Threads, QuietStep(t)
      PROVE  /\ UNCHANGED <<blocks, edges, routeOf, template, memory, holder, saves>>
             /\ \A u \in Threads \ {t} : submission'[u] = submission[u]
             /\ ~Inserted(t)
             /\ submission'[t] # Idle =>
                    /\ submission'[t] \in Submission
                    /\ submission'[t].at \in {"received", "routed", "confirmed"}
  <2> DEFINE Goal == /\ UNCHANGED <<blocks, edges, routeOf, template, memory, holder, saves>>
                     /\ \A u \in Threads \ {t} : submission'[u] = submission[u]
                     /\ ~Inserted(t)
                     /\ submission'[t] # Idle =>
                            /\ submission'[t] \in Submission
                            /\ submission'[t].at \in {"received", "routed", "confirmed"}
  <2>0. submission \in [Threads -> Submission \cup {Idle}]
    BY <1>1 DEF TypeOK
  <2>1. ASSUME NEW u \in Users, Submit(t, u) PROVE Goal
    <3>1. issued + 1 \in 1..MaxChallenges
      BY <1>1, <2>1, ChainBoundAssumption DEF Submit, TypeOK
    <3>2. Form(u, 0, NoRoute, NoNode) \in Submission
      BY <3>1 DEF Form, Submission
    <3>3. ASSUME NEW b \in Existing, Offered(u, b)
          PROVE  Form(u, b, routeOf[b],
                      StagesOf[routeOf[b].route][NextStage(routeOf[b].route, blocks, b)].node)
                     \in Submission
      <4>1. b \in Batches /\ routeOf[b] \in RouteId
        BY <1>1 DEF Existing, TypeOK
      <4>2. routeOf[b].route \in Routes
        BY <4>1 DEF RouteId
      <4>3. StagesOf[routeOf[b].route][NextStage(routeOf[b].route, blocks, b)] \in Stage
        BY <3>3, <4>2, NextStageIsOpen DEF Offered
      <4> QED BY <3>1, <4>1, <4>3 DEF Form, Submission, Stage
    <3>4. PICK f \in Submission :
              submission' = [submission EXCEPT ![t] = f] /\ f.at = "received"
      BY <2>1, <3>2, <3>3 DEF Submit, Form
    <3> QED BY <2>0, <2>1, <3>4 DEF Submit, Inserted, Busy, database
  <2>2. ASSUME NEW s \in Threads, Resubmit(t, s) PROVE Goal
    <3>1. submission[s] \in Submission
      BY <2>0, <2>2 DEF Resubmit
    <3> QED BY <2>0, <2>2, <3>1 DEF Resubmit, Submission, Inserted, Busy, database, bounds
  <2>3. CASE LoadRoute(t)
    <3>1. submission[t] \in Submission /\ Busy(t)
      BY <2>0, <2>3 DEF LoadRoute, Busy
    <3>2. CurrentRoute(submission[t]) \in RouteId \cup {NoRoute}
      BY <1>1, <3>1, CurrentRouteType
    <3> QED BY <2>0, <2>3, <3>1, <3>2 DEF LoadRoute, Submission, Inserted, database, bounds
  <2>4. CASE Confirm(t)
    <3>1. submission[t] \in Submission /\ submission[t].at = "routed"
      BY <2>0, <2>4 DEF Confirm
    <3>2. PICK n \in Nodes :
              submission' = [submission EXCEPT ![t].at = "confirmed", ![t].stage = n]
      BY <2>4 DEF Confirm
    <3>3. /\ submission'[t] \in Submission /\ submission'[t].at = "confirmed"
          /\ \A u \in Threads \ {t} : submission'[u] = submission[u]
      BY <2>0, <3>1, <3>2 DEF Submission
    <3>4. UNCHANGED <<blocks, edges, routeOf, template, memory, holder, saves>>
      BY <2>4 DEF Confirm, database, bounds
    <3> QED BY <3>1, <3>3, <3>4 DEF Inserted
  <2>5. CASE Refuse(t)
    BY <2>0, <2>5 DEF Refuse, Answered, Inserted, database, bounds
  <2>6. CASE CommitFails(t)
    BY <2>0, <2>6 DEF CommitFails, Answered, Inserted, database, bounds
  <2> QED BY <1>3, <2>1, <2>2, <2>3, <2>4, <2>5, <2>6 DEF QuietStep
<1> QED BY <1>2, <1>3 DEF Quiet

(* Every step keeps the types.                                             *)
LEMMA TypeStep == ChainInv /\ [Next]_vars => TypeOK'
<1> SUFFICES ASSUME ChainInv, [Next]_vars PROVE TypeOK'
  OBVIOUS
<1>1. TypeOK /\ Chain(blocks) /\ MutexInv /\ FormInv
  BY DEF ChainInv
<1>2. CASE Quiet
  <2>1. UNCHANGED <<blocks, edges, routeOf, template, memory, holder, saves>>
    BY <1>2, QuietFacts
  <2>2. submission' \in [Threads -> Submission \cup {Idle}]
    <3>1. submission \in [Threads -> Submission \cup {Idle}]
      BY <1>1 DEF TypeOK
    <3>2. DOMAIN submission' = Threads
      BY <1>2, <3>1 DEF Quiet, QuietStep, Submit, Resubmit, LoadRoute, Confirm, Refuse,
                        CommitFails, Expire, Answered
    <3>3. \A t \in Threads : submission'[t] \in Submission \cup {Idle}
      BY <1>2, <3>1, QuietFacts
    <3>4. submission' = [t \in Threads |-> submission'[t]]
      BY <1>2, <3>1, <3>2 DEF Quiet, QuietStep, Submit, Resubmit, LoadRoute, Confirm, Refuse,
                        CommitFails, Expire, Answered
    <3> QED BY <3>3, <3>4
  <2>3. issued' \in 0..MaxChallenges /\ challenges' \subseteq [id : 1..MaxChallenges, user : Users]
    <3>1. ASSUME NEW t \in Threads, NEW u \in Users, Submit(t, u) 
        PROVE  /\ issued' \in 0..MaxChallenges
               /\ challenges' \subseteq [id : 1..MaxChallenges, user : Users]
      <4>1. issued' = issued + 1 /\ issued + 1 \in 1..MaxChallenges
        BY <1>1, <3>1, ChainBoundAssumption DEF Submit, TypeOK
      <4> QED BY <1>1, <3>1, <4>1 DEF Submit, TypeOK
    <3>2. CASE \E t \in Threads : \/ \E s \in Threads : Resubmit(t, s)
                                 \/ LoadRoute(t) \/ Confirm(t) \/ Refuse(t) \/ CommitFails(t)
      BY <1>1, <3>2 DEF Resubmit, LoadRoute, Confirm, Refuse, CommitFails, bounds, TypeOK
    <3>3. CASE \E c \in challenges : Expire(c)
      BY <1>1, <3>3 DEF Expire, bounds, TypeOK
    <3> QED BY <1>2, <3>1, <3>2, <3>3 DEF Quiet, QuietStep
  <2> QED BY <1>1, <2>1, <2>2, <2>3 DEF TypeOK
<1>3. ASSUME NEW t \in Threads, CommitBlock(t) PROVE TypeOK'
  <2>1. PICK new \in Block :
            /\ blocks' = Append(blocks, new)
            /\ edges' = edges \cup IF new.parent = Genesis THEN {}
                                   ELSE {LinkTo(blocks', Len(blocks) + 1)}
            /\ routeOf' = [routeOf EXCEPT ![new.batch] = new.route]
    BY <1>3, CommitFacts
  <2>2. blocks' \in Seq(Block) /\ blocks'[Len(blocks) + 1] = new /\ Len(blocks) \in Nat
    BY <1>1, <2>1, AppendProperties DEF Chain
  <2>3. /\ new.batch \in Batches /\ new.parent \in Nat /\ new.route \in RouteId
    BY DEF Block
  <2>4. \A e \in edges' : e.from \in Nat /\ e.to \in Nat /\ e.batch \in Batches
    BY <1>1, <2>1, <2>2, <2>3 DEF TypeOK, LinkTo
  <2>5. routeOf' \in [Batches -> RouteId \cup {NoRoute}]
    BY <1>1, <2>1, <2>3 DEF TypeOK
  <2>6. submission' \in [Threads -> Submission \cup {Idle}]
    <3>1. submission[t] \in Submission
      BY <1>1, <1>3 DEF TypeOK, CommitBlock
    <3> QED BY <1>1, <1>3, <3>1 DEF TypeOK, CommitBlock, Submission
  <2>7. holder' = t /\ UNCHANGED <<template, memory, challenges, issued, saves>>
    BY <1>3 DEF CommitBlock, bounds
  <2> QED BY <1>1, <2>2, <2>4, <2>5, <2>6, <2>7 DEF TypeOK
<1>4. ASSUME NEW t \in Threads, PublishBlock(t) PROVE TypeOK'
  <2>1. Inserted(t)
    BY <1>4 DEF PublishBlock, Inserted, Busy
  <2>2. blocks = Append(memory, blocks[Len(blocks)])
    BY <1>1, <2>1 DEF MutexInv
  <2>3. memory' = blocks
    BY <1>4, <2>2 DEF PublishBlock
  <2> QED BY <1>1, <1>4, <2>3 DEF PublishBlock, Answered, TypeOK, database, bounds
<1>5. ASSUME NEW r \in Routes, SaveRoute(r) PROVE TypeOK'
  <2>1. \A b \in Existing : b \in Batches /\ [owner |-> b, route |-> r] \in RouteId
    BY DEF Existing, RouteId
  <2>2. routeOf' \in [Batches -> RouteId \cup {NoRoute}] /\ template' \in Routes
    BY <1>1, <1>5, <2>1 DEF SaveRoute, TypeOK
  <2>3. saves' \in 0..MaxRouteChanges
    BY <1>1, <1>5, ChainBoundAssumption DEF SaveRoute, TypeOK
  <2> QED BY <1>1, <1>5, <2>2, <2>3 DEF SaveRoute, TypeOK
<1>6. CASE Restart
  BY <1>1, <1>6 DEF Restart, TypeOK, database, bounds
<1>7. CASE UNCHANGED vars
  BY <1>1, <1>7 DEF vars, database, bounds, TypeOK
<1> QED BY <1>2, <1>3, <1>4, <1>5, <1>6, <1>7, NextCases

(* Every step keeps what is said about the chain, on disk and in memory.   *)
LEMMA ChainStep ==
    ChainInv /\ [Next]_vars => Chain(blocks') /\ Chain(memory') /\ edges' = Links(blocks')
<1> SUFFICES ASSUME ChainInv, [Next]_vars
             PROVE  Chain(blocks') /\ Chain(memory') /\ edges' = Links(blocks')
  OBVIOUS
<1>1. Chain(blocks) /\ Chain(memory) /\ edges = Links(blocks) /\ MutexInv
  BY DEF ChainInv
<1>2. CASE Quiet
  BY <1>1, <1>2, QuietFacts
<1>3. ASSUME NEW t \in Threads, CommitBlock(t)
      PROVE  Chain(blocks') /\ Chain(memory') /\ edges' = Links(blocks')
  <2>1. memory' = memory
    BY <1>3 DEF CommitBlock
  <2>2. PICK new \in Block :
            /\ blocks' = Append(blocks, new)
            /\ edges' = edges \cup IF new.parent = Genesis THEN {}
                                   ELSE {LinkTo(blocks', Len(blocks) + 1)}
            /\ new.parent = Latest(blocks, new.batch)
            /\ \A i \in 1..Len(blocks) :
                   ~(/\ blocks[i].batch = new.batch /\ blocks[i].node = new.node
                     /\ blocks[i].user = new.user)
            /\ RoleOf[new.user] = "supplier" <=> new.parent = Genesis
    BY <1>3, CommitFacts
  <2>3. Chain(Append(blocks, new)) /\ Links(Append(blocks, new)) = Links(blocks) \cup
            IF new.parent = Genesis THEN {} ELSE {LinkTo(Append(blocks, new), Len(blocks) + 1)}
    BY <1>1, <2>2, AppendKeepsChain
  <2> QED BY <1>1, <2>1, <2>2, <2>3
<1>4. ASSUME NEW t \in Threads, PublishBlock(t)
      PROVE  Chain(blocks') /\ Chain(memory') /\ edges' = Links(blocks')
  <2>1. Inserted(t)
    BY <1>4 DEF PublishBlock, Inserted, Busy
  <2>2. memory' = blocks /\ UNCHANGED <<blocks, edges>>
    BY <1>1, <1>4, <2>1 DEF PublishBlock, MutexInv, database
  <2> QED BY <1>1, <2>2
<1>5. ASSUME NEW r \in Routes, SaveRoute(r)
      PROVE  Chain(blocks') /\ Chain(memory') /\ edges' = Links(blocks')
  BY <1>1, <1>5 DEF SaveRoute
<1>6. CASE Restart
  BY <1>1, <1>6 DEF Restart, database
<1>7. CASE UNCHANGED vars
  BY <1>1, <1>7 DEF vars, database
<1> QED BY <1>2, <1>3, <1>4, <1>5, <1>6, <1>7, NextCases

(* Every step keeps the mutex's meaning.                                   *)
LEMMA MutexStep == ChainInv /\ [Next]_vars => MutexInv'
<1> SUFFICES ASSUME ChainInv, [Next]_vars PROVE MutexInv'
  OBVIOUS
<1>1. TypeOK /\ MutexInv /\ Chain(blocks)
  BY DEF ChainInv
<1>2. CASE Quiet
  <2>1. UNCHANGED <<blocks, memory, holder>>
    BY <1>2, QuietFacts
  <2>2. \A t \in Threads : Inserted(t)' <=> Inserted(t)
    BY <1>2, QuietFacts DEF Inserted, Busy
  <2> QED BY <1>1, <2>1, <2>2 DEF MutexInv, ChainMutexFree
<1>3. ASSUME NEW t \in Threads, CommitBlock(t) PROVE MutexInv'
  <2>1. PICK new \in Block :
            /\ ChainMutexFree /\ memory = blocks /\ blocks' = Append(blocks, new)
    BY <1>3, CommitFacts
  <2>2. Len(blocks') = Len(blocks) + 1 /\ blocks'[Len(blocks')] = new /\ Len(blocks) \in Nat
    BY <1>1, <2>1, AppendProperties DEF Chain
  <2>3. holder' = t /\ memory' = memory
    BY <1>3 DEF CommitBlock
  <2>4. \A u \in Threads : Inserted(u)' <=> u = t
    <3>1. submission[t] \in Submission /\ \A u \in Threads : ~Inserted(u)
      BY <1>1, <1>3, <2>1 DEF TypeOK, CommitBlock, MutexInv
    <3>2. submission'[t] = [submission[t] EXCEPT !.at = "inserted"]
          /\ \A u \in Threads \ {t} : submission'[u] = submission[u]
      BY <1>1, <1>3 DEF TypeOK, CommitBlock
    <3>3. submission'[t] \in Submission /\ submission'[t].at = "inserted"
      BY <3>1, <3>2 DEF Submission
    <3> QED BY <3>1, <3>2, <3>3, IdleAssumption DEF Inserted, Busy
  <2>5. t # NoThread
    BY NoValueAssumption
  <2> QED BY <2>1, <2>2, <2>3, <2>4, <2>5 DEF MutexInv, ChainMutexFree
<1>4. ASSUME NEW t \in Threads, PublishBlock(t) PROVE MutexInv'
  <2>1. Inserted(t)
    BY <1>4 DEF PublishBlock, Inserted, Busy
  <2>2. /\ memory' = blocks /\ blocks' = blocks /\ holder' = NoThread
        /\ \A u \in Threads : Inserted(u) => u = t
    BY <1>1, <1>4, <2>1 DEF PublishBlock, MutexInv, database
  <2>3. submission'[t] = Idle /\ \A u \in Threads \ {t} : submission'[u] = submission[u]
    BY <1>1, <1>4 DEF PublishBlock, Answered, TypeOK
  <2> QED BY <2>2, <2>3 DEF MutexInv, ChainMutexFree, Inserted, Busy
<1>5. ASSUME NEW r \in Routes, SaveRoute(r) PROVE MutexInv'
  BY <1>1, <1>5 DEF SaveRoute, MutexInv, ChainMutexFree, Inserted, Busy
<1>6. CASE Restart
  BY <1>1, <1>6 DEF Restart, MutexInv, ChainMutexFree, Inserted, Busy, database
<1>7. CASE UNCHANGED vars
  BY <1>1, <1>7 DEF vars, database, MutexInv, ChainMutexFree, Inserted, Busy
<1> QED BY <1>2, <1>3, <1>4, <1>5, <1>6, <1>7, NextCases

(* Every step keeps that a continuing stage is confirmed for what its form *)
(* names.                                                                  *)
LEMMA FormStep == ChainInv /\ [Next]_vars => FormInv'
<1> DEFINE FormOK(s) ==
        ~IsSupplier(s) =>
            /\ s.batch \in Batches
            /\ s.at = "confirmed" => s.seen = s.route /\ s.stage = s.node
<1> SUFFICES ASSUME ChainInv, [Next]_vars,
                    NEW u \in Threads, submission'[u] # Idle
             PROVE  FormOK(submission'[u])
  BY DEF FormInv, Busy, Confirmed, IsSupplier
<1>1. TypeOK /\ submission \in [Threads -> Submission \cup {Idle}]
  BY DEF ChainInv, TypeOK
<1>2. \A t \in Threads : submission[t] # Idle => FormOK(submission[t])
  BY DEF ChainInv, FormInv, Busy, Confirmed
<1>3. CASE submission'[u] = submission[u]
  BY <1>2, <1>3
<1>4. ASSUME NEW w \in Users, Submit(u, w) PROVE FormOK(submission'[u])
  <2>1. PICK f : submission'[u] = f /\ f.at = "received" /\ f.user = w
                 /\ (RoleOf[w] # "supplier" => f.batch \in Batches)
    BY <1>1, <1>4 DEF Submit, Form, Existing
  <2> QED BY <2>1 DEF IsSupplier
<1>5. ASSUME NEW s \in Threads, Resubmit(u, s) PROVE FormOK(submission'[u])
  <2>1. submission[s] \in Submission /\ FormOK(submission[s])
    BY <1>1, <1>2, <1>5 DEF Resubmit
  <2>2. submission'[u] = [submission[s] EXCEPT !.at = "received", !.seen = NoRoute, !.stage = NoNode]
    BY <1>1, <1>5 DEF Resubmit
  <2>3. /\ submission'[u].at = "received" /\ submission'[u].batch = submission[s].batch
        /\ submission'[u].user = submission[s].user
    BY <2>1, <2>2 DEF Submission
  <2> QED BY <2>1, <2>3 DEF IsSupplier
<1>6. CASE LoadRoute(u)
  <2>1. submission[u] \in Submission /\ FormOK(submission[u])
    BY <1>1, <1>2, <1>6 DEF LoadRoute
  <2>2. /\ submission'[u].at = "routed" /\ submission'[u].batch = submission[u].batch
        /\ submission'[u].user = submission[u].user
    BY <1>1, <1>6, <2>1 DEF LoadRoute, Submission
  <2> QED BY <2>1, <2>2 DEF IsSupplier
<1>7. CASE Confirm(u)
  <2>1. submission[u] \in Submission /\ FormOK(submission[u])
    BY <1>1, <1>2, <1>7 DEF Confirm
  <2>2. PICK n \in Nodes :
            /\ StageToConfirm(submission[u], n)
            /\ submission' = [submission EXCEPT ![u].at = "confirmed", ![u].stage = n]
    BY <1>7 DEF Confirm
  <2>3. /\ submission'[u].batch = submission[u].batch /\ submission'[u].stage = n
        /\ submission'[u].user = submission[u].user /\ submission'[u].seen = submission[u].seen
        /\ submission'[u].route = submission[u].route /\ submission'[u].node = submission[u].node
    BY <1>1, <2>1, <2>2 DEF Submission
  <2>4. ~IsSupplier(submission[u]) =>
            submission[u].seen = submission[u].route /\ n = submission[u].node
    BY <2>2 DEF StageToConfirm
  <2> QED BY <2>1, <2>3, <2>4 DEF IsSupplier
<1>8. CASE CommitBlock(u)
  <2>1. submission[u] \in Submission /\ FormOK(submission[u])
    BY <1>1, <1>2, <1>8 DEF CommitBlock
  <2>2. /\ submission'[u].at = "inserted" /\ submission'[u].batch = submission[u].batch
        /\ submission'[u].user = submission[u].user
    BY <1>1, <1>8, <2>1 DEF CommitBlock, Submission
  <2> QED BY <2>1, <2>2 DEF IsSupplier
<1>9. Refuse(u) \/ CommitFails(u) \/ PublishBlock(u) => submission'[u] = Idle
  BY <1>1 DEF Refuse, CommitFails, PublishBlock, Answered
<1>10. ASSUME NEW t \in Threads \ {u},
              \/ QuietStep(t) \/ CommitBlock(t) \/ PublishBlock(t)
       PROVE  submission'[u] = submission[u]
  BY <1>1, <1>10 DEF QuietStep, Submit, Resubmit, LoadRoute, Confirm, Refuse, CommitFails,
                     CommitBlock, PublishBlock, Answered
<1>11. ASSUME \/ \E c \in challenges : Expire(c)
              \/ \E r \in Routes : SaveRoute(r)
              \/ UNCHANGED vars
       PROVE  submission'[u] = submission[u]
  BY <1>11 DEF Expire, SaveRoute, vars
<1>12. Restart => submission'[u] = Idle
  BY DEF Restart
<1> QED BY <1>3, <1>4, <1>5, <1>6, <1>7, <1>8, <1>9, <1>10, <1>11, <1>12, NextCases
        DEF Quiet, QuietStep

(* Challenges stay distinct when some go and no submission is confirmed.   *)
LEMMA FewerChallenges ==
    ASSUME ChallengeInv, UNCHANGED <<blocks, issued>>,
           challenges' \subseteq challenges,
           \A u \in Threads : Busy(u)' => submission'[u].challenge <= issued,
           \A u \in Threads : Confirmed(u)' =>
               Confirmed(u) /\ submission'[u].challenge = submission[u].challenge
    PROVE  ChallengeInv'
<1> USE DEF ChallengeInv
<1>1. \A c \in challenges' : c.id <= issued'
  OBVIOUS
<1>2. \A c, d \in challenges' : c.id = d.id => c = d
  OBVIOUS
<1>3. \A i \in 1..Len(blocks') :
          /\ blocks'[i].challenge <= issued'
          /\ \A c \in challenges' : c.id # blocks'[i].challenge
  OBVIOUS
<1>4. \A t \in Threads : Confirmed(t)' =>
          /\ \A c \in challenges' : c.id # submission'[t].challenge
          /\ \A i \in 1..Len(blocks') : blocks'[i].challenge # submission'[t].challenge
  OBVIOUS
<1>5. \A t, u \in Threads : Confirmed(t)' /\ Confirmed(u)'
          /\ submission'[t].challenge = submission'[u].challenge => t = u
  OBVIOUS
<1> QED BY <1>1, <1>2, <1>3, <1>4, <1>5

(* Every step keeps every challenge good for one Block.                    *)
LEMMA ChallengeStep == ChainInv /\ [Next]_vars => ChallengeInv'
<1> SUFFICES ASSUME ChainInv, [Next]_vars PROVE ChallengeInv'
  OBVIOUS
<1>1. TypeOK /\ ChallengeInv /\ Chain(blocks)
      /\ submission \in [Threads -> Submission \cup {Idle}]
  BY DEF ChainInv, TypeOK
<1>2. /\ issued \in Nat /\ \A c \in challenges : c.id \in Nat
      /\ blocks \in Seq(Block) /\ \A i \in 1..Len(blocks) : blocks[i].challenge \in Nat
      /\ \A u \in Threads : Busy(u) => submission[u].challenge \in Nat
  <2>1. \A u \in Threads : Busy(u) => submission[u].challenge \in Nat
    BY <1>1, SubmissionFields, ChainBoundAssumption
  <2>2. \A i \in 1..Len(blocks) : blocks[i] \in Block
    BY <1>1 DEF Chain
  <2> QED BY <1>1, <2>1, <2>2, ChainBoundAssumption DEF TypeOK, Chain, Block
<1>3. ASSUME NEW t \in Threads, NEW w \in Users, Submit(t, w) PROVE ChallengeInv'
  <2>1. PICK b, id, n : submission' = [submission EXCEPT ![t] = Form(w, b, id, n)]
    BY <1>3 DEF Submit
  <2>2. /\ issued' = issued + 1 /\ blocks' = blocks
        /\ challenges' = challenges \cup {[id |-> issued + 1, user |-> w]}
    BY <1>3 DEF Submit, database
  <2>3. /\ submission'[t].at = "received" /\ submission'[t].challenge = issued + 1
        /\ \A u \in Threads \ {t} : submission'[u] = submission[u]
    BY <1>1, <2>1 DEF Form
  <2>4. \A u \in Threads : Confirmed(u)' =>
            u # t /\ Confirmed(u) /\ submission'[u].challenge = submission[u].challenge
            /\ submission[u].challenge \in Nat /\ submission[u].challenge <= issued
    BY <1>1, <1>2, <2>3 DEF Confirmed, Busy, ChallengeInv
  <2>5. \A u \in Threads : Busy(u)' => submission'[u].challenge <= issued'
    BY <1>1, <1>2, <2>2, <2>3 DEF Busy, ChallengeInv
  <2>6. /\ \A c \in challenges' : c.id <= issued'
        /\ \A c, d \in challenges' : c.id = d.id => c = d
    BY <1>1, <1>2, <2>2 DEF ChallengeInv
  <2>7. \A i \in 1..Len(blocks') :
            /\ blocks'[i].challenge <= issued'
            /\ \A c \in challenges' : c.id # blocks'[i].challenge
    BY <1>1, <1>2, <2>2 DEF ChallengeInv
  <2>8. \A u \in Threads : Confirmed(u)' =>
            /\ \A c \in challenges' : c.id # submission'[u].challenge
            /\ \A i \in 1..Len(blocks') : blocks'[i].challenge # submission'[u].challenge
    BY <1>1, <1>2, <2>2, <2>4 DEF ChallengeInv
  <2>9. \A u, v \in Threads : Confirmed(u)' /\ Confirmed(v)'
            /\ submission'[u].challenge = submission'[v].challenge => u = v
    BY <1>1, <2>4 DEF ChallengeInv
  <2>10. \A i, j \in 1..Len(blocks') : blocks'[i].challenge = blocks'[j].challenge => i = j
    BY <1>1, <2>2 DEF ChallengeInv
  <2> QED BY <2>5, <2>6, <2>7, <2>8, <2>9, <2>10 DEF ChallengeInv
<1>4. ASSUME NEW t \in Threads, Confirm(t) PROVE ChallengeInv'
  <2> DEFINE c0 == ChallengeOf(submission[t])
  <2>1. /\ c0 \in challenges /\ challenges' = challenges \ {c0}
        /\ UNCHANGED <<blocks, issued>> /\ Busy(t)
    BY <1>4 DEF Confirm, database, bounds, Busy
  <2>2. PICK n \in Nodes :
            submission' = [submission EXCEPT ![t].at = "confirmed", ![t].stage = n]
    BY <1>4 DEF Confirm
  <2>3. /\ submission'[t].challenge = submission[t].challenge
        /\ \A u \in Threads \ {t} : submission'[u] = submission[u]
    BY <1>1, <2>1, <2>2 DEF Submission, Busy
  <2>4. c0.id = submission[t].challenge
    BY DEF ChallengeOf
  <2>5. \A u \in Threads : Busy(u)' => submission'[u].challenge <= issued
    BY <1>1, <2>1, <2>3 DEF Busy, ChallengeInv
  <2>6. \A u \in Threads : Confirmed(u)' =>
            /\ submission'[u].challenge = submission[u].challenge
            /\ u = t \/ Confirmed(u)
    BY <2>3 DEF Confirmed, Busy
  <2>7. /\ \A c \in challenges' : c.id # submission[t].challenge
        /\ \A i \in 1..Len(blocks) : blocks[i].challenge # submission[t].challenge
        /\ \A u \in Threads : Confirmed(u) => submission[u].challenge # submission[t].challenge
    BY <1>1, <2>1, <2>4 DEF ChallengeInv
  <2>8. \A u \in Threads : Confirmed(u)' =>
            /\ \A c \in challenges' : c.id # submission'[u].challenge
            /\ \A i \in 1..Len(blocks') : blocks'[i].challenge # submission'[u].challenge
    BY <1>1, <2>1, <2>6, <2>7 DEF ChallengeInv
  <2>9. \A u, v \in Threads : Confirmed(u)' /\ Confirmed(v)'
            /\ submission'[u].challenge = submission'[v].challenge => u = v
    BY <1>1, <2>6, <2>7 DEF ChallengeInv
  <2> QED BY <1>1, <2>1, <2>5, <2>8, <2>9 DEF ChallengeInv
<1>5. ASSUME NEW t \in Threads, CommitBlock(t) PROVE ChallengeInv'
  <2>1. PICK new \in Block :
            /\ Confirmed(t) /\ blocks' = Append(blocks, new)
            /\ new.challenge = submission[t].challenge
    BY <1>5, CommitFacts
  <2>2. /\ Len(blocks') = Len(blocks) + 1 /\ blocks'[Len(blocks) + 1] = new
        /\ \A i \in 1..Len(blocks) : blocks'[i] = blocks[i]
    BY <1>2, <2>1, AppendProperties
  <2>3. 1..Len(blocks') = 1..Len(blocks) \cup {Len(blocks) + 1}
    BY <1>2, <2>2
  <2>4. UNCHANGED <<challenges, issued>>
    BY <1>5 DEF CommitBlock, bounds
  <2>5. /\ submission'[t].at = "inserted" /\ submission'[t].challenge = submission[t].challenge
        /\ \A u \in Threads \ {t} : submission'[u] = submission[u]
    BY <1>1, <1>5, <2>1 DEF CommitBlock, Submission, Confirmed, Busy
  <2>6. \A u \in Threads : Confirmed(u)' =>
            u # t /\ Confirmed(u) /\ submission'[u].challenge = submission[u].challenge
    BY <2>5 DEF Confirmed, Busy
  <2>7. \A u \in Threads : Busy(u)' => submission'[u].challenge <= issued'
    BY <1>1, <2>1, <2>4, <2>5 DEF Busy, Confirmed, ChallengeInv
  <2>8. \A i \in 1..Len(blocks') :
            /\ blocks'[i].challenge <= issued'
            /\ \A c \in challenges' : c.id # blocks'[i].challenge
    BY <1>1, <2>1, <2>2, <2>3, <2>4 DEF ChallengeInv, Confirmed
  <2>9. \A u \in Threads : Confirmed(u)' =>
            /\ \A c \in challenges' : c.id # submission'[u].challenge
            /\ \A i \in 1..Len(blocks') : blocks'[i].challenge # submission'[u].challenge
    BY <1>1, <2>1, <2>2, <2>3, <2>4, <2>6 DEF ChallengeInv
  <2>10. \A u, v \in Threads : Confirmed(u)' /\ Confirmed(v)'
            /\ submission'[u].challenge = submission'[v].challenge => u = v
    BY <1>1, <2>6 DEF ChallengeInv
  <2>11. \A i, j \in 1..Len(blocks') : blocks'[i].challenge = blocks'[j].challenge => i = j
    BY <1>1, <2>1, <2>2, <2>3 DEF ChallengeInv
  <2> QED BY <1>1, <2>4, <2>7, <2>8, <2>9, <2>10, <2>11 DEF ChallengeInv
<1>6. ASSUME NEW t \in Threads, NEW s \in Threads, Resubmit(t, s) PROVE ChallengeInv'
  <2>1. submission[s] \in Submission /\ Busy(s)
    BY <1>1, <1>6 DEF Resubmit, Busy
  <2>2. /\ submission'[t].at = "received" /\ submission'[t].challenge = submission[s].challenge
        /\ \A u \in Threads \ {t} : submission'[u] = submission[u]
    BY <1>1, <1>6, <2>1 DEF Resubmit, Submission
  <2>3. UNCHANGED <<blocks, issued, challenges>>
    BY <1>6 DEF Resubmit, database, bounds
  <2>4. \A u \in Threads : Busy(u)' => submission'[u].challenge <= issued
    BY <1>1, <2>1, <2>2 DEF Busy, ChallengeInv
  <2>5. \A u \in Threads : Confirmed(u)' =>
            Confirmed(u) /\ submission'[u].challenge = submission[u].challenge
    BY <2>2 DEF Confirmed, Busy
  <2> QED BY <1>1, <2>3, <2>4, <2>5, FewerChallenges
<1>7. ASSUME NEW t \in Threads, LoadRoute(t) PROVE ChallengeInv'
  <2>1. submission[t] \in Submission /\ Busy(t)
    BY <1>1, <1>7 DEF LoadRoute, Busy
  <2>2. /\ submission'[t].at = "routed" /\ submission'[t].challenge = submission[t].challenge
        /\ \A u \in Threads \ {t} : submission'[u] = submission[u]
    BY <1>1, <1>7, <2>1 DEF LoadRoute, Submission
  <2>3. UNCHANGED <<blocks, issued, challenges>>
    BY <1>7 DEF LoadRoute, database, bounds
  <2>4. \A u \in Threads : Busy(u)' => submission'[u].challenge <= issued
    BY <1>1, <2>1, <2>2 DEF Busy, ChallengeInv
  <2>5. \A u \in Threads : Confirmed(u)' =>
            Confirmed(u) /\ submission'[u].challenge = submission[u].challenge
    BY <2>2 DEF Confirmed, Busy
  <2> QED BY <1>1, <2>3, <2>4, <2>5, FewerChallenges
<1>8. ASSUME NEW t \in Threads, Refuse(t) \/ CommitFails(t) \/ PublishBlock(t)
      PROVE  ChallengeInv'
  <2>1. submission'[t] = Idle /\ \A u \in Threads \ {t} : submission'[u] = submission[u]
    BY <1>1, <1>8 DEF Refuse, CommitFails, PublishBlock, Answered
  <2>2. UNCHANGED <<blocks, issued>> /\ challenges' \subseteq challenges
    BY <1>8 DEF Refuse, CommitFails, PublishBlock, database, bounds
  <2>3. \A u \in Threads : Busy(u)' => Busy(u) /\ submission'[u] = submission[u]
    BY <2>1 DEF Busy
  <2>4. \A u \in Threads : Busy(u)' => submission'[u].challenge <= issued
    BY <1>1, <2>3 DEF ChallengeInv
  <2>5. \A u \in Threads : Confirmed(u)' =>
            Confirmed(u) /\ submission'[u].challenge = submission[u].challenge
    BY <2>3 DEF Confirmed
  <2> QED BY <1>1, <2>2, <2>4, <2>5, FewerChallenges
<1>9. ASSUME \/ \E c \in challenges : Expire(c)
             \/ \E r \in Routes : SaveRoute(r)
             \/ UNCHANGED vars
      PROVE  ChallengeInv'
  <2>1. submission' = submission
    BY <1>9 DEF Expire, SaveRoute, vars
  <2>2. UNCHANGED <<blocks, issued>> /\ challenges' \subseteq challenges
    BY <1>9 DEF Expire, SaveRoute, vars, database, bounds
  <2>3. \A u \in Threads : Busy(u)' => submission'[u].challenge <= issued
    BY <1>1, <2>1 DEF Busy, ChallengeInv
  <2>4. \A u \in Threads : Confirmed(u)' =>
            Confirmed(u) /\ submission'[u].challenge = submission[u].challenge
    BY <2>1 DEF Busy, Confirmed
  <2> QED BY <1>1, <2>2, <2>3, <2>4, FewerChallenges
<1>10. CASE Restart
  <2>1. \A u \in Threads : ~Busy(u)'
    BY <1>10 DEF Restart, Busy
  <2>2. UNCHANGED <<blocks, issued>> /\ challenges' = {}
    BY <1>10 DEF Restart, database, bounds
  <2>3. \A u \in Threads : ~Confirmed(u)'
    BY <2>1 DEF Confirmed
  <2> QED BY <1>1, <2>1, <2>2, <2>3, FewerChallenges
<1> QED BY <1>3, <1>4, <1>5, <1>6, <1>7, <1>8, <1>9, <1>10, NextCases DEF Quiet, QuietStep

-----------------------------------------------------------------------------
(* A new database satisfies the invariant.                                 *)
LEMMA InitChainInv == Init => ChainInv
<1> SUFFICES ASSUME Init PROVE ChainInv
  OBVIOUS
<1> USE DEF Init
<1>1. TypeOK
  BY FirstRouteAssumption, ChainBoundAssumption DEF TypeOK
<1>2. blocks = <<>> /\ memory = <<>> /\ Len(blocks) = 0
  OBVIOUS
<1>3. Chain(blocks) /\ Chain(memory) /\ edges = Links(blocks)
  BY <1>1, <1>2 DEF TypeOK, Chain, Links
<1>4. \A t \in Threads : ~Busy(t)
  BY DEF Busy
<1>5. MutexInv /\ FormInv
  BY <1>4 DEF MutexInv, FormInv, Inserted, ChainMutexFree
<1>6. ChallengeInv
  BY <1>2, <1>4 DEF ChallengeInv, Confirmed
<1> QED BY <1>1, <1>3, <1>5, <1>6 DEF ChainInv

(* The invariant of the private chain: Blocks continue their batch one     *)
(* after the other, edges are their links, memory lags by the one Block of *)
(* the thread inside chain_mutex, and no challenge is spent twice.         *)
THEOREM ChainInvariance == Spec => []ChainInv
<1>1. ChainInv /\ [Next]_vars => ChainInv'
  BY TypeStep, ChainStep, MutexStep, FormStep, ChallengeStep DEF ChainInv
<1> QED BY InitChainInv, <1>1, PTL DEF Spec

(* The state of the control server and of its database keeps its types.    *)
THEOREM ChainTypeCorrect == Spec => []TypeOK
<1>1. ChainInv => TypeOK
  BY DEF ChainInv
<1> QED BY ChainInvariance, <1>1, PTL

(* What is on disk always passes validate_stored_chain, so the server can  *)
(* start again wherever it died and whatever routes were saved.            *)
THEOREM ServerCanRestart == Spec => []StoredChainValidates
<1>1. ChainInv => StoredChainValidates
  BY ChainValidates DEF ChainInv, StoredChainValidates
<1> QED BY ChainInvariance, <1>1, PTL

(* evaluate_workflow_progress reports no error for any batch on any        *)
(* complete route, in whatever order Blocks and routes came.               *)
THEOREM BatchesNeverStuck == Spec => []ProgressNeverFails
<1>1. ChainInv => ProgressNeverFails
  BY ChainProgresses DEF ChainInv, ProgressNeverFails
<1> QED BY ChainInvariance, <1>1, PTL

(* stored_records is the chain of the database whenever chain_mutex is     *)
(* free.                                                                   *)
THEOREM MemoryIsChain == Spec => []MemoryFollowsDatabase
<1>1. ChainInv => MemoryFollowsDatabase
  BY DEF ChainInv, MutexInv, MemoryFollowsDatabase
<1> QED BY ChainInvariance, <1>1, PTL

(* No two Blocks were committed with one confirmation challenge.           *)
THEOREM OneBlockPerConfirmation == Spec => []ChallengeUsedOnce
<1>1. ChainInv => ChallengeUsedOnce
  <2> SUFFICES ASSUME ChainInv PROVE ChallengeUsedOnce
    OBVIOUS
  <2>1. ChallengeInv /\ DOMAIN blocks = 1..Len(blocks)
    BY DEF ChainInv, Chain
  <2> QED BY <2>1 DEF ChallengeInv, ChallengeUsedOnce
<1> QED BY ChainInvariance, <1>1, PTL

(* Only a commit changes the stored Blocks.                                *)
LEMMA BlocksChangeByCommit ==
    ASSUME ChainInv, [Next]_vars, blocks' # blocks
    PROVE  \E t \in Threads : CommitBlock(t)
<1>1. Quiet => blocks' = blocks
  BY QuietFacts
<1>2. (\E t \in Threads : PublishBlock(t)) => blocks' = blocks
  BY DEF PublishBlock, database
<1>3. (\E r \in Routes : SaveRoute(r)) \/ Restart \/ UNCHANGED vars => blocks' = blocks
  BY DEF SaveRoute, Restart, vars, database
<1> QED BY <1>1, <1>2, <1>3, NextCases

(* Committing a Block writes no older route back to a batch.               *)
THEOREM CommitKeepsRoutes == Spec => RouteKeptByCommit
<1> DEFINE Kept == blocks' # blocks => \A b \in Existing : routeOf'[b] = routeOf[b]
<1>1. ChainInv /\ [Next]_vars => [Kept]_vars
  <2> SUFFICES ASSUME ChainInv, [Next]_vars, blocks' # blocks, NEW b \in Existing
               PROVE  routeOf'[b] = routeOf[b]
    OBVIOUS
  <2>1. PICK t \in Threads : CommitBlock(t)
    BY BlocksChangeByCommit
  <2>2. PICK new \in Block :
            /\ routeOf' = [routeOf EXCEPT ![new.batch] = new.route]
            /\ IsSupplier(submission[t]) => new.batch \notin Existing
            /\ ~IsSupplier(submission[t]) => new.route = routeOf[new.batch]
    BY <2>1, CommitFacts
  <2>3. routeOf \in [Batches -> RouteId \cup {NoRoute}] /\ b \in Batches
    BY DEF ChainInv, TypeOK, Existing
  <2> QED BY <2>2, <2>3
<1> QED BY ChainInvariance, <1>1, PTL DEF Spec, RouteKeptByCommit

(* A continuing stage is recorded with the route and at the node whose     *)
(* policy was checked before chain_mutex was taken.                        *)
THEOREM RecordedAsConfirmed == Spec => ConfirmedStageIsRecorded
<1> DEFINE Recorded ==
        \A t \in Threads :
            LET new == blocks'[Len(blocks')]
            IN  /\ blocks' # blocks /\ holder' = t
                /\ ~IsSupplier(submission[t])
                => /\ new.route = submission[t].seen
                   /\ new.node = submission[t].stage
<1>1. ChainInv /\ [Next]_vars => [Recorded]_vars
  <2> SUFFICES ASSUME ChainInv, [Next]_vars, NEW t \in Threads,
                      blocks' # blocks, holder' = t, ~IsSupplier(submission[t])
               PROVE  /\ blocks'[Len(blocks')].route = submission[t].seen
                      /\ blocks'[Len(blocks')].node = submission[t].stage
    OBVIOUS
  <2>1. CommitBlock(t)
    <3>1. PICK u \in Threads : CommitBlock(u)
      BY BlocksChangeByCommit
    <3> QED BY <3>1 DEF CommitBlock
  <2>2. PICK new \in Block :
            /\ Confirmed(t) /\ blocks' = Append(blocks, new)
            /\ new.route = submission[t].route /\ new.node = submission[t].node
    BY <2>1, CommitFacts
  <2>3. submission[t].seen = submission[t].route /\ submission[t].stage = submission[t].node
    BY <2>2 DEF ChainInv, FormInv, Confirmed
  <2>4. blocks'[Len(blocks')] = new
    BY <2>2, AppendProperties DEF ChainInv, Chain
  <2> QED BY <2>2, <2>3, <2>4
<1> QED BY ChainInvariance, <1>1, PTL DEF Spec, ConfirmedStageIsRecorded

-----------------------------------------------------------------------------
(* When a batch is done.  A Supermarket's Block that was committed on a    *)
(* complete route found all other stages of that route done: this was true *)
(* of the chain as it was then, so it stays true of that prefix whatever   *)
(* Blocks and routes come later.                                           *)
Finishes(c, i) == NextStage(c[i].route.route, SubSeq(c, 1, i), c[i].batch) = 0
Finished(c) ==
    \A i \in 1..Len(c) :
        RoleOf[c[i].user] = "supermarket" /\ Complete(c[i].route.route) => Finishes(c, i)

(* The first n Blocks of a chain.                                          *)
LEMMA FirstBlocks ==
    ASSUME NEW c \in Seq(Block), NEW n \in 0..Len(c)
    PROVE  /\ SubSeq(c, 1, n) \in Seq(Block) /\ Len(SubSeq(c, 1, n)) = n
           /\ \A i \in 1..n : SubSeq(c, 1, n)[i] = c[i]
           /\ \A m \in 0..n : SubSeq(SubSeq(c, 1, n), 1, m) = SubSeq(c, 1, m)
<1> DEFINE p == SubSeq(c, 1, n)
<1>1. p \in Seq(Block) /\ Len(p) = n /\ \A i \in 1..n : p[i] = c[i]
  OBVIOUS
<1>2. ASSUME NEW m \in 0..n
      PROVE  SubSeq(p, 1, m) = SubSeq(c, 1, m)
  <2>1. /\ SubSeq(c, 1, m) \in Seq(Block) /\ Len(SubSeq(c, 1, m)) = m
        /\ \A i \in 1..m : SubSeq(c, 1, m)[i] = c[i]
    OBVIOUS
  <2>2. /\ SubSeq(p, 1, m) \in Seq(Block) /\ Len(SubSeq(p, 1, m)) = m
        /\ \A i \in 1..m : SubSeq(p, 1, m)[i] = p[i]
    BY <1>1
  <2> HIDE DEF p
  <2>3. \A i \in 1..m : p[i] = c[i]
    BY <1>1
  <2> QED BY <2>1, <2>2, <2>3, SeqEqual
<1> QED BY <1>1, <1>2

(* They are a chain as well.                                               *)
LEMMA FirstBlocksAreChain ==
    ASSUME NEW c, Chain(c), NEW n \in 0..Len(c)
    PROVE  Chain(SubSeq(c, 1, n))
<1> DEFINE p == SubSeq(c, 1, n)
<1>1. /\ c \in Seq(Block) /\ p \in Seq(Block) /\ Len(p) = n
      /\ \A i \in 1..n : p[i] = c[i] /\ i \in 1..Len(c)
      /\ \A i \in 1..n : SubSeq(p, 1, i - 1) = SubSeq(c, 1, i - 1)
  BY FirstBlocks DEF Chain
<1> HIDE DEF p
<1>2. \A i \in 1..n : p[i].parent = Latest(SubSeq(p, 1, i - 1), p[i].batch)
  BY <1>1 DEF Chain
<1>3. \A i, j \in 1..n :
          /\ p[i].batch = p[j].batch /\ p[i].node = p[j].node /\ p[i].user = p[j].user
          => i = j
  BY <1>1 DEF Chain
<1>4. \A i \in 1..n : RoleOf[p[i].user] = "supplier" <=> p[i].parent = Genesis
  BY <1>1 DEF Chain
<1>5. Chain(p)
  BY <1>1, <1>2, <1>3, <1>4 DEF Chain
<1> QED BY <1>5 DEF p

(* What NextStage says of the stages it passes over.                       *)
LEMMA StagesPassed ==
    ASSUME NEW r \in Routes, NEW c, NEW b
    PROVE  /\ NextStage(r, c, b) = 0 <=>
                  \A k \in DOMAIN StagesOf[r] : BlocksAt(c, b, StagesOf[r][k]) # {}
           /\ \A k \in DOMAIN StagesOf[r] :
                  k < NextStage(r, c, b) => BlocksAt(c, b, StagesOf[r][k]) # {}
<1> DEFINE open == {k \in DOMAIN StagesOf[r] : BlocksAt(c, b, StagesOf[r][k]) = {}}
<1>1. StagesOf[r] \in Seq(Stage)
  BY StageAssumption
<1>2. open \in SUBSET Nat /\ 0 \notin open
  BY <1>1
<1> DEFINE m == NextStage(r, c, b)
<1>3. open = {} => m = 0
  BY DEF NextStage
<1>4. open # {} => m \in open /\ \A k \in open : m <= k
  <2>1. open # {} => m = Min(open)
    BY DEF NextStage
  <2> QED BY <1>2, <2>1, MinIsMember
<1>5. \A k \in DOMAIN StagesOf[r] :
          k \in Nat /\ k > 0 /\ (k \in open <=> BlocksAt(c, b, StagesOf[r][k]) = {})
  BY <1>1
<1> HIDE DEF open, m
<1>6. m = 0 <=> open = {}
  BY <1>2, <1>3, <1>4
<1>7. ASSUME NEW k \in DOMAIN StagesOf[r], k < m
      PROVE  k \notin open
  <2>1. open # {} /\ k \in Nat
    BY <1>3, <1>5, <1>7
  <2>2. m \in Nat
    BY <1>2, <1>4, <2>1
  <2> QED BY <1>4, <1>7, <2>1, <2>2
<1>8. m = 0 <=> \A k \in DOMAIN StagesOf[r] : k \notin open
  <2>1. \A k \in open : k \in DOMAIN StagesOf[r]
    BY DEF open
  <2> QED BY <1>6, <2>1
<1> QED BY <1>5, <1>7, <1>8 DEF m

(* The Block of the next stage leaves no stage of a complete route open if *)
(* it is a Supermarket's.                                                  *)
LEMMA AppendFinishes ==
    ASSUME NEW c, Chain(c), Finished(c), NEW new \in Block,
           NextStage(new.route.route, c, new.batch) # 0,
           StagesOf[new.route.route][NextStage(new.route.route, c, new.batch)]
               = [node |-> new.node, user |-> new.user]
    PROVE  Finished(Append(c, new))
<1> DEFINE d == Append(c, new)
           r == new.route.route
           k == NextStage(r, c, new.batch)
<1>1. c \in Seq(Block) /\ Len(c) \in Nat
  BY DEF Chain
<1>2. /\ d \in Seq(Block) /\ Len(d) = Len(c) + 1 /\ d[Len(c) + 1] = new
      /\ \A i \in 1..Len(c) : d[i] = c[i]
  BY <1>1, AppendProperties
<1>3. r \in Routes
  BY DEF Block, RouteId
<1>4. StagesOf[r] \in Seq(Stage) /\ k \in DOMAIN StagesOf[r] /\ k \in 1..Len(StagesOf[r])
  <2>1. StagesOf[r] \in Seq(Stage)
    BY <1>3, StageAssumption
  <2>2. k \in DOMAIN StagesOf[r]
    BY <1>3, NextStageIsOpen
  <2> QED BY <2>1, <2>2, LenProperties
<1>5. ASSUME NEW n \in 0..Len(c)
      PROVE  SubSeq(d, 1, n) = SubSeq(c, 1, n)
  <2>1. /\ SubSeq(c, 1, n) \in Seq(Block) /\ Len(SubSeq(c, 1, n)) = n
        /\ \A i \in 1..n : SubSeq(c, 1, n)[i] = c[i]
    BY <1>1, FirstBlocks
  <2>2. /\ SubSeq(d, 1, n) \in Seq(Block) /\ Len(SubSeq(d, 1, n)) = n
        /\ \A i \in 1..n : SubSeq(d, 1, n)[i] = d[i]
    BY <1>1, <1>2, FirstBlocks
  <2>3. \A i \in 1..n : d[i] = c[i]
    BY <1>1, <1>2
  <2> QED BY <2>1, <2>2, <2>3, SeqEqual
<1>6. ASSUME NEW i \in 1..Len(c), RoleOf[d[i].user] = "supermarket", Complete(d[i].route.route)
      PROVE  Finishes(d, i)
  <2>1. d[i] = c[i] /\ SubSeq(d, 1, i) = SubSeq(c, 1, i)
    BY <1>1, <1>2, <1>5
  <2> QED BY <1>6, <2>1 DEF Finished, Finishes
<1>7. ASSUME RoleOf[new.user] = "supermarket", Complete(r)
      PROVE  Finishes(d, Len(c) + 1)
  <2>1. StagesOf[r][k].user = new.user /\ StagesOf[r][k].node = new.node
    OBVIOUS
  <2>2. k = Len(StagesOf[r])
    BY <1>4, <1>7, <2>1 DEF Complete, RoleAt
  <2>3. SubSeq(d, 1, Len(c) + 1) = d
    BY <1>2, SubSeqFull
  <2>4. \A b, s : BlocksAt(c, b, s) \subseteq BlocksAt(d, b, s)
    <3>1. DOMAIN c = 1..Len(c) /\ DOMAIN d = 1..(Len(c) + 1)
      BY <1>1, <1>2
    <3> HIDE DEF d
    <3> QED BY <1>1, <1>2, <3>1 DEF BlocksAt, BlocksOf
  <2>5. Len(c) + 1 \in BlocksAt(d, new.batch, StagesOf[r][k])
    <3>1. Len(c) + 1 \in DOMAIN d
      BY <1>1, <1>2
    <3> QED BY <1>2, <2>1, <3>1 DEF BlocksAt, BlocksOf
  <2>6. \A j \in DOMAIN StagesOf[r] : j = k \/ j < k
    BY <1>4, <2>2
  <2> HIDE DEF d, k
  <2>7. \A j \in DOMAIN StagesOf[r] : BlocksAt(d, new.batch, StagesOf[r][j]) # {}
    BY <1>3, <2>4, <2>5, <2>6, StagesPassed DEF k
  <2>8. NextStage(r, d, new.batch) = 0
    BY <1>3, <2>7, StagesPassed
  <2> QED BY <1>2, <2>3, <2>8 DEF Finishes
<1>8. 1..Len(d) = 1..Len(c) \cup {Len(c) + 1}
  BY <1>1, <1>2
<1> HIDE DEF d
<1>9. Finished(d)
  BY <1>2, <1>6, <1>7, <1>8 DEF Finished
<1> QED BY <1>9 DEF d

(* Every Supermarket's Block on disk was found to finish its route.        *)
LEMMA FinishedInvariance == Spec => [](ChainInv /\ Finished(blocks))
<1>1. Init => Finished(blocks)
  BY DEF Init, Finished
<1>2. ChainInv /\ Finished(blocks) /\ [Next]_vars => Finished(blocks')
  <2> SUFFICES ASSUME ChainInv, Finished(blocks), [Next]_vars PROVE Finished(blocks')
    OBVIOUS
  <2>1. CASE blocks' = blocks
    BY <2>1
  <2>2. CASE blocks' # blocks
    <3>1. PICK t \in Threads : CommitBlock(t)
      BY <2>2, BlocksChangeByCommit
    <3>2. PICK new \in Block :
              /\ blocks' = Append(blocks, new)
              /\ NextStage(new.route.route, blocks, new.batch) # 0
              /\ StagesOf[new.route.route][NextStage(new.route.route, blocks, new.batch)]
                    = [node |-> new.node, user |-> new.user]
      BY <3>1, CommitFacts
    <3> QED BY <3>2, AppendFinishes DEF ChainInv
  <2> QED BY <2>1, <2>2
<1>3. ChainInv /\ Finished(blocks) /\ [Next]_vars => (Finished(blocks))'
  BY <1>2 DEF Finished, Finishes
<1> QED BY <1>1, <1>3, ChainInvariance, PTL DEF Spec

(* The server's copy of the chain is the database's or its first part.     *)
LEMMA MemoryIsFinished ==
    ASSUME ChainInv, Finished(blocks)
    PROVE  Finished(memory)
<1>1. memory \in Seq(Block) /\ blocks \in Seq(Block) /\ Len(memory) \in Nat
  BY DEF ChainInv, TypeOK
<1>2. CASE memory = blocks
  BY <1>2
<1>3. CASE Len(blocks) > 0 /\ blocks = Append(memory, blocks[Len(blocks)])
  <2> DEFINE new == blocks[Len(blocks)]
  <2>1. new \in Block
    BY <1>1, <1>3
  <2> HIDE DEF new
  <2>2. /\ Len(blocks) = Len(memory) + 1
        /\ \A i \in 1..Len(memory) : blocks[i] = memory[i]
    BY <1>1, <1>3, <2>1, AppendProperties DEF new
  <2>3. ASSUME NEW i \in 1..Len(memory)
        PROVE  SubSeq(blocks, 1, i) = SubSeq(memory, 1, i)
    <3>1. /\ SubSeq(memory, 1, i) \in Seq(Block) /\ Len(SubSeq(memory, 1, i)) = i
          /\ \A j \in 1..i : SubSeq(memory, 1, i)[j] = memory[j]
      BY <1>1, FirstBlocks
    <3>2. /\ SubSeq(blocks, 1, i) \in Seq(Block) /\ Len(SubSeq(blocks, 1, i)) = i
          /\ \A j \in 1..i : SubSeq(blocks, 1, i)[j] = blocks[j]
      BY <1>1, <2>2, FirstBlocks
    <3>3. \A j \in 1..i : blocks[j] = memory[j]
      BY <1>1, <2>2
    <3> QED BY <3>1, <3>2, <3>3, SeqEqual
  <2>4. \A i \in 1..Len(memory) : i \in 1..Len(blocks)
    BY <1>1, <2>2
  <2> QED BY <2>2, <2>3, <2>4 DEF Finished, Finishes
<1> QED BY <1>2, <1>3 DEF ChainInv, MutexInv

(* The stages of a route with a Block each are as many inputs as stages.   *)
LEMMA OneInputPerStage ==
    ASSUME NEW c, Chain(c), NEW r \in Routes, Complete(r), NEW b, NextStage(r, c, b) = 0
    PROVE  /\ {s.step : s \in StageInputs(r, c, b)} = DOMAIN StagesOf[r]
           /\ Cardinality(StageInputs(r, c, b)) = Len(StagesOf[r])
<1> DEFINE n == Len(StagesOf[r])
           S == StageInputs(r, c, b)
           At(k) == BlocksAt(c, b, StagesOf[r][k])
           f == [k \in 1..n |-> [step |-> k, block |-> CHOOSE i \in At(k) : TRUE]]
<1>1. n \in Nat /\ DOMAIN StagesOf[r] = 1..n
  BY StageAssumption, LenProperties
<1>2. \A k \in 1..n : At(k) # {} /\ At(k) \subseteq BlocksOf(c, b)
  BY <1>1, StagesPassed DEF BlocksAt
<1>3. \A k \in 1..n : \A i, j \in At(k) : i = j
  <2>1. ~ProgressFails(r, c, b)
    BY ChainProgresses
  <2> QED BY <1>1, <2>1 DEF ProgressFails
<1>4. \A s : s \in S <=> /\ s \in [step : 1..n, block : BlocksOf(c, b)]
                         /\ s.block \in At(s.step)
  BY <1>1 DEF StageInputs
<1> HIDE DEF n, S, At
<1>5. f \in [1..n -> S]
  BY <1>2, <1>4
<1>6. \A s \in S : s.step \in 1..n /\ s = f[s.step]
  BY <1>3, <1>4
<1>7. \A k \in 1..n : f[k].step = k
  OBVIOUS
<1> HIDE DEF f
<1>8. f \in Bijection(1..n, S)
  BY <1>5, <1>6, <1>7 DEF Bijection, Injection, Surjection, IsInjective
<1>9. Cardinality(S) = n
  <2>1. ExistsBijection(1..n, S)
    BY <1>8 DEF ExistsBijection
  <2>2. IsFiniteSet(1..n) /\ Cardinality(1..n) = n
    BY <1>1, FS_Interval
  <2> QED BY <2>1, <2>2, FS_Bijection
<1>10. {s.step : s \in S} = 1..n
  BY <1>5, <1>6, <1>7
<1> QED BY <1>1, <1>9, <1>10 DEF n, S

(* evaluate_eligibility and evaluate_workflow_progress agree on when a     *)
(* batch is done.                                                          *)
LEMMA DoneIsEligible ==
    ASSUME NEW c, Chain(c), Finished(c), NEW r \in Routes, Complete(r), NEW b,
           \A i \in BlocksOf(c, b) :
               RoleOf[c[i].user] = "supermarket" => Complete(c[i].route.route)
    PROVE  Eligible(r, c, b) <=> NextStage(r, c, b) = 0
<1>1. c \in Seq(Block) /\ DOMAIN c = 1..Len(c) /\ Len(c) \in Nat
  BY DEF Chain
<1>2. /\ StagesOf[r] \in Seq(Stage) /\ DOMAIN StagesOf[r] = 1..Len(StagesOf[r])
      /\ Len(StagesOf[r]) \in Nat /\ Len(StagesOf[r]) >= 2
  BY StageAssumption, LenProperties DEF Complete
<1>3. ASSUME Eligible(r, c, b) PROVE NextStage(r, c, b) = 0
  <2>1. \A k \in DOMAIN StagesOf[r] : \E s \in StageInputs(r, c, b) : s.step = k
    BY <1>3 DEF Eligible
  <2>2. \A s \in StageInputs(r, c, b) : s.block \in BlocksAt(c, b, StagesOf[r][s.step])
    BY DEF StageInputs
  <2>3. \A k \in DOMAIN StagesOf[r] : BlocksAt(c, b, StagesOf[r][k]) # {}
    BY <2>1, <2>2
  <2> QED BY <2>3, StagesPassed
<1>4. ASSUME NextStage(r, c, b) = 0 PROVE Eligible(r, c, b)
  <2>1. RouteIsCompleteLinear(r)
    BY <1>2 DEF Complete, RouteIsCompleteLinear
  <2>2. ASSUME NEW s \in StageInputs(r, c, b)
        PROVE  /\ IF s.step = 1 THEN c[s.block].parent = Genesis
                  ELSE LinksToHistory(r, c, b, s)
               /\ RoleAt(r, s.step) = "supermarket" => ChainStatusCompleted(c, s.block)
    <3> DEFINE k == s.step
               i == s.block
    <3>1. k \in DOMAIN StagesOf[r] /\ k \in Nat /\ i \in BlocksAt(c, b, StagesOf[r][k])
      BY <1>2 DEF StageInputs
    <3> HIDE DEF k, i
    <3>2. /\ i \in 1..Len(c) /\ i \in BlocksOf(c, b) /\ c[i].batch = b
          /\ c[i].user = StagesOf[r][k].user /\ c[i].node = StagesOf[r][k].node
      BY <1>1, <3>1 DEF BlocksAt, BlocksOf
    <3>3. RoleOf[c[i].user] = "supplier" <=> k = 1
      BY <3>1, <3>2 DEF Complete, RoleAt
    <3>4. c[i].parent = Genesis <=> k = 1
      BY <3>2, <3>3 DEF Chain
    <3>5. k # 1 => c[i].parent \in {j \in BlocksOf(c, b) : j < i}
      <4>1. ASSUME k # 1 PROVE c[i].parent \in 1..Len(c) /\ c[i].parent < i /\ c[c[i].parent].batch = b
        BY <3>2, <3>4, <4>1, ParentIsEarlier
      <4> QED BY <1>1, <4>1 DEF BlocksOf
    <3>6. ASSUME RoleAt(r, k) = "supermarket"
          PROVE  ChainStatusCompleted(c, i)
      <4>1. RoleOf[c[i].user] = "supermarket" /\ Complete(c[i].route.route)
        BY <3>2, <3>6 DEF RoleAt
      <4>2. c[i] \in Block
        BY <1>1, <3>2
      <4>6. c[i].route.route \in Routes
        BY <4>2 DEF Block, RouteId
      <4>3. Chain(SubSeq(c, 1, i))
        BY <1>1, <3>2, FirstBlocksAreChain
      <4>4. ~ProgressFails(c[i].route.route, SubSeq(c, 1, i), c[i].batch)
        BY <4>1, <4>3, <4>6, ChainProgresses
      <4>5. NextStage(c[i].route.route, SubSeq(c, 1, i), c[i].batch) = 0
        BY <3>2, <4>1 DEF Finished, Finishes
      <4> QED BY <4>4, <4>5 DEF ChainStatusCompleted
    <3> QED BY <3>4, <3>5, <3>6 DEF k, i, LinksToHistory
  <2> QED BY <1>4, <2>1, <2>2, OneInputPerStage DEF Eligible
<1> QED BY <1>3, <1>4

(* On a complete route a batch is eligible for a Snapshot exactly when     *)
(* the progress names no next stage, in whatever order its Blocks and its  *)
(* routes came.                                                            *)
THEOREM CompletionIsEligibility == Spec => []CompletedIsEligible
<1>1. ChainInv /\ Finished(blocks) => CompletedIsEligible
  <2> SUFFICES ASSUME ChainInv, Finished(blocks), NEW b \in Existing,
                      Complete(routeOf[b].route), CommittedOnComplete(b)
               PROVE  Eligible(routeOf[b].route, memory, b)
                          <=> NextStage(routeOf[b].route, memory, b) = 0
    BY DEF CompletedIsEligible
  <2>1. routeOf[b] \in RouteId
    BY DEF ChainInv, TypeOK, Existing
  <2>2. routeOf[b].route \in Routes
    BY <2>1 DEF RouteId
  <2>3. Chain(memory) /\ Finished(memory)
    BY MemoryIsFinished DEF ChainInv
  <2> QED BY <2>2, <2>3, DoneIsEligible DEF CommittedOnComplete
<1> QED BY <1>1, FinishedInvariance, PTL

-----------------------------------------------------------------------------
(* The Merkle trees.  What is hashed has no type that grows with a tree,   *)
(* so a level is a sequence of whatever it holds.                          *)
Proper(s) == \E m \in Nat \ {0} : s = [i \in 1..m |-> s[i]]

(* A proper sequence is a sequence of its own elements, and not empty.     *)
LEMMA ProperParts ==
    ASSUME NEW s, Proper(s)
    PROVE  /\ Len(s) \in Nat \ {0} /\ DOMAIN s = 1..Len(s) /\ s # <<>>
           /\ s = [i \in 1..Len(s) |-> s[i]]
           /\ s \in Seq({s[i] : i \in 1..Len(s)})
<1>1. PICK m \in Nat \ {0} : s = [i \in 1..m |-> s[i]]
  BY DEF Proper
<1>2. s \in [1..m -> {s[i] : i \in 1..m}]
  BY <1>1
<1>3. s \in Seq({s[i] : i \in 1..m})
  BY <1>2
<1>4. Len(s) = m
  BY <1>2, <1>3, LenProperties
<1> QED BY <1>1, <1>3, <1>4

(* A function on the first m numbers is proper, and m long.                *)
LEMMA IsProper ==
    ASSUME NEW m \in Nat \ {0}, NEW s, s = [i \in 1..m |-> s[i]]
    PROVE  Proper(s) /\ Len(s) = m
<1>1. Proper(s)
  BY DEF Proper
<1>2. DOMAIN s = 1..m /\ DOMAIN s = 1..Len(s) /\ Len(s) \in Nat
  BY <1>1, ProperParts
<1> QED BY <1>1, <1>2

(* The smaller of two positions.                                           *)
LEMMA SmallerOfTwo ==
    ASSUME NEW a \in Nat, NEW b \in Nat
    PROVE  Min({a, b}) = IF a <= b THEN a ELSE b
<1>1. Min({a, b}) \in {a, b} /\ \A y \in {a, b} : Min({a, b}) <= y
  BY MinIsMember
<1> QED BY <1>1

-----------------------------------------------------------------------------
(* Positions in groups of n.                                               *)
LEMMA GroupOf ==
    ASSUME NEW p \in Nat \ {0}, NEW n \in Nat \ {0}
    PROVE  /\ ParentAt(p, n) \in Nat \ {0} /\ ((p - 1) % n) + 1 \in 1..n
           /\ (ParentAt(p, n) - 1) * n + (((p - 1) % n) + 1) = p
<1>1. PICK a \in Nat : a = p - 1
  OBVIOUS
<1>2. a \div n \in Nat
  OBVIOUS
<1>3. a % n \in 0..n - 1
  OBVIOUS
<1>4. a % n = a - (a \div n) * n
  OBVIOUS
<1>5. ParentAt(p, n) = a \div n + 1 /\ ((p - 1) % n) + 1 = (a % n) + 1
  BY <1>1 DEF ParentAt
<1> QED BY <1>1, <1>2, <1>3, <1>4, <1>5

Groups(l, n) == (l + n - 1) \div n
Above(level, n) ==
    [i \in 1..((Len(level) + n - 1) \div n) |-> SHA256(Group(level, i, n))]

(* The level above has a node for every group, fewer than the level        *)
(* unless that has one.                                                    *)
LEMMA GroupCount ==
    ASSUME NEW l \in Nat \ {0}, NEW n \in Nat, n >= 2
    PROVE  /\ Groups(l, n) \in Nat \ {0}
           /\ l > 1 => Groups(l, n) < l
           /\ \A p \in 1..l : ParentAt(p, n) \in 1..Groups(l, n)
           /\ \A i \in 1..Groups(l, n) : (i - 1) * n + 1 \in 1..l
<1> DEFINE g == (l + n - 1) \div n
<1>1. g \in Nat /\ g * n <= l + n - 1 /\ l + n - 1 < g * n + n
  OBVIOUS
<1> HIDE DEF g
<1>2. g # 0
  BY <1>1
<1>3. l > 1 => g < l
  <2> SUFFICES ASSUME l > 1, g >= l PROVE FALSE
    BY <1>1
  <2>1. g * n >= l * n
    BY <1>1
  <2>2. PICK k \in Nat : l = k + 1 /\ k > 0
    OBVIOUS
  <2>3. l * n = k * n + n /\ k * n >= k * 2
    BY <2>2
  <2>4. g * n <= k + n
    BY <1>1, <2>2
  <2> QED BY <1>1, <2>1, <2>2, <2>3, <2>4
<1>4. ASSUME NEW p \in 1..l PROVE ParentAt(p, n) \in 1..g
  <2> DEFINE q == ParentAt(p, n)
  <2>0. p \in Nat \ {0} /\ n \in Nat \ {0}
    OBVIOUS
  <2>1. q \in Nat \ {0} /\ (q - 1) * n + 1 <= p
    <3> DEFINE c == ((p - 1) % n) + 1
    <3>1. q \in Nat \ {0} /\ c \in 1..n /\ (q - 1) * n + c = p
      BY <2>0, GroupOf
    <3> HIDE DEF c, q
    <3> QED BY <3>1
  <2> HIDE DEF q
  <2>2. q * n = (q - 1) * n + n
    BY <2>1
  <2>3. q * n < g * n + n
    BY <1>1, <2>1, <2>2
  <2>4. (g + 1) * n = g * n + n
    BY <1>1
  <2>5. q > g => q * n >= (g + 1) * n
    BY <1>1, <2>1
  <2> QED BY <1>1, <2>1, <2>3, <2>4, <2>5 DEF q
<1>5. ASSUME NEW i \in 1..g PROVE (i - 1) * n + 1 \in 1..l
  <2>1. i - 1 \in Nat /\ i * n <= g * n /\ i * n = (i - 1) * n + n /\ (i - 1) * n \in Nat
    BY <1>1
  <2> QED BY <1>1, <2>1
<1> QED BY <1>1, <1>2, <1>3, <1>4, <1>5 DEF g, Groups

(* A group of two: the node and the next one, or a copy of itself.         *)
LEMMA GroupOfTwo ==
    ASSUME NEW level, Proper(level), NEW i \in 1..((Len(level) + 1) \div 2)
    PROVE  /\ 2 * i - 1 \in 1..Len(level)
           /\ Group(level, i, 2) =
                  <<level[2 * i - 1],
                    IF 2 * i <= Len(level) THEN level[2 * i] ELSE level[2 * i - 1]>>
<1>1. Len(level) \in Nat \ {0}
  BY ProperParts
<1>2. 2 * i - 1 \in 1..Len(level)
  BY <1>1
<1>3. /\ Min({(i - 1) * 2 + 1, Len(level)}) = 2 * i - 1
      /\ Min({(i - 1) * 2 + 2, Len(level)}) = IF 2 * i <= Len(level) THEN 2 * i ELSE 2 * i - 1
  BY <1>1, <1>2, SmallerOfTwo
<1>4. Group(level, i, 2) = [c \in 1..2 |-> level[Min({(i - 1) * 2 + c, Len(level)})]]
  BY DEF Group
<1> DEFINE a == level[2 * i - 1]
           b == IF 2 * i <= Len(level) THEN level[2 * i] ELSE level[2 * i - 1]
           e == [c \in 1..2 |-> level[Min({(i - 1) * 2 + c, Len(level)})]]
<1>5. e[1] = a /\ e[2] = b /\ DOMAIN e = 1..2
  BY <1>3
<1>6. e = [c \in 1..2 |-> e[c]]
  OBVIOUS
<1> HIDE DEF a, b, e
<1>7. e = <<a, b>>
  BY <1>5, <1>6
<1> QED BY <1>2, <1>4, <1>7 DEF a, b, e

(* The level above by pairs of an even level is the one MerkleTree builds. *)
LEMMA PairsAreGroups ==
    ASSUME NEW level, Proper(level)
    PROVE  Pairs(level) = Above(level, 2) /\ DisplayPairs(level) = Above(level, 2)
<1> DEFINE L == Len(level)
<1>1. L \in Nat \ {0} /\ level \in Seq({level[i] : i \in 1..L})
  BY ProperParts
<1>2. (L + 2 - 1) \div 2 = (L + 1) \div 2
  BY <1>1
<1>3. Pairs(level) = Above(level, 2)
  BY <1>2, GroupOfTwo DEF Pairs, Above
<1>4. /\ Len(Even(level)) \div 2 = (L + 1) \div 2
      /\ \A j \in 1..L : Even(level)[j] = level[j]
      /\ L % 2 # 0 => Even(level)[L + 1] = level[L]
  <2>1. CASE L % 2 = 0
    BY <1>1, <2>1 DEF Even
  <2>2. CASE L % 2 # 0
    <3>1. Even(level) = Append(level, level[L]) /\ level[L] \in {level[i] : i \in 1..L}
      BY <1>1, <2>2 DEF Even, Last
    <3>2. /\ Len(Even(level)) = L + 1 /\ Even(level)[L + 1] = level[L]
          /\ \A j \in 1..L : Even(level)[j] = level[j]
      BY <1>1, <3>1, AppendProperties
    <3> QED BY <1>1, <2>2, <3>2
  <2> QED BY <2>1, <2>2
<1>5. ASSUME NEW i \in 1..((L + 1) \div 2)
      PROVE  <<Even(level)[2 * i - 1], Even(level)[2 * i]>> = Group(level, i, 2)
  <2> DEFINE even == Even(level)
  <2>1. /\ i \in Nat /\ 2 * i - 1 \in 1..L
        /\ Group(level, i, 2) =
             <<level[2 * i - 1], IF 2 * i <= L THEN level[2 * i] ELSE level[2 * i - 1]>>
    BY <1>1, GroupOfTwo
  <2>2. L \in Nat /\ (\A j \in 1..L : even[j] = level[j]) /\ (L % 2 # 0 => even[L + 1] = level[L])
    BY <1>1, <1>4
  <2> HIDE DEF L, even
  <2>3. even[2 * i - 1] = level[2 * i - 1]
    BY <2>1, <2>2
  <2>4. CASE 2 * i <= L
    <3>1. even[2 * i] = level[2 * i]
      BY <2>1, <2>2, <2>4
    <3> QED BY <2>1, <2>3, <2>4, <3>1 DEF even
  <2>5. CASE ~(2 * i <= L)
    <3>1. 2 * i = L + 1
      BY <2>1, <2>2, <2>5
    <3>2. L % 2 # 0
      BY <2>1, <2>2, <3>1
    <3>3. even[2 * i] = level[2 * i - 1]
      BY <2>1, <2>2, <3>1, <3>2
    <3> QED BY <2>1, <2>3, <2>5, <3>3 DEF even
  <2> QED BY <2>4, <2>5
<1>6. DisplayPairs(level) = Above(level, 2)
  BY <1>2, <1>4, <1>5 DEF DisplayPairs, Above
<1> QED BY <1>3, <1>6

(* Every level is a sequence of hashes that is not empty, and while it has *)
(* more than one it has fewer than the one below.                          *)
LEMMA AboveIsProper ==
    ASSUME NEW level, Proper(level), NEW n \in Nat, n >= 2
    PROVE  /\ Proper(Above(level, n)) /\ Len(Above(level, n)) = Groups(Len(level), n)
           /\ \A i \in 1..Len(Above(level, n)) : Above(level, n)[i] = SHA256(Group(level, i, n))
           /\ Len(level) > 1 => Len(Above(level, n)) < Len(level)
<1> DEFINE m == (Len(level) + n - 1) \div n
<1>1. Len(level) \in Nat \ {0}
  BY ProperParts
<1>2. m \in Nat \ {0} /\ (Len(level) > 1 => m < Len(level))
  BY <1>1, GroupCount DEF Groups
<1>3. Above(level, n) = [i \in 1..m |-> SHA256(Group(level, i, n))]
  BY DEF Above
<1> HIDE DEF m
<1>4. Above(level, n) = [i \in 1..m |-> Above(level, n)[i]]
  BY <1>3
<1>5. Proper(Above(level, n)) /\ Len(Above(level, n)) = m
  BY <1>2, <1>4, IsProper
<1> QED BY <1>2, <1>3, <1>5 DEF m, Groups

-----------------------------------------------------------------------------
(* Induction, as a fact about sets of numbers.                             *)
LEMMA UpTo ==
    ASSUME NEW W, NEW a \in Nat, NEW b \in Nat, a \in W,
           \A k \in a..b - 1 : k \in W => k + 1 \in W
    PROVE  \A k \in a..b : k \in W
<1> DEFINE out == {k \in a..b : k \notin W}
<1>1. SUFFICES ASSUME out # {} PROVE FALSE
  OBVIOUS
<1>2. out \in SUBSET Nat
  OBVIOUS
<1>3. PICK m \in out : \A k \in out : m <= k
  BY <1>1, <1>2, MinIsMember
<1>4. m # a /\ m \in a..b
  BY <1>3
<1>5. m - 1 \in a..b - 1 /\ m - 1 \notin out
  BY <1>3, <1>4
<1>6. m - 1 \in W
  BY <1>4, <1>5
<1> QED BY <1>3, <1>5, <1>6

(* The levels above a list, up to the one that has a single node; what     *)
(* the three implementations do as long as they are right about a level.   *)
Risen(level, n) == IF Len(level) = 1 THEN level ELSE Above(level, n)
Levels(leaves, n, f) ==
    f = [k \in 0..Len(leaves) |->
            IF k = 0 THEN LeafHashes(leaves) ELSE Risen(f[k - 1], n)]

(* A level with a single node stays; any other is replaced by the one      *)
(* above.                                                                  *)
LEMMA RisenCases ==
    ASSUME NEW x, Proper(x), NEW n
    PROVE  \E l \in Nat \ {0} :
              /\ l = Len(x)
              /\ l <= 1 => Risen(x, n) = x
              /\ l > 1 => Risen(x, n) = Above(x, n)
<1>1. PICK l \in Nat \ {0} : l = Len(x)
  BY ProperParts
<1>2. Risen(x, n) = IF l = 1 THEN x ELSE Above(x, n)
  BY <1>1, Zenon DEF Risen
<1>3. (l > 1 => l # 1) /\ (l <= 1 => l = 1)
  OBVIOUS
<1> QED BY <1>1, <1>2, <1>3

(* The recursion of LevelsOf defines a function.                           *)
LEMMA LevelsExist ==
    ASSUME NEW leaves, Len(leaves) \in Nat, NEW n
    PROVE  \E f : Levels(leaves, n, f)
<1> DEFINE Upto(b, f) ==
        f = [k \in 0..b |-> IF k = 0 THEN LeafHashes(leaves) ELSE Risen(f[k - 1], n)]
           W == {b \in Nat : \E f : Upto(b, f)}
<1>1. 0 \in W
  <2> DEFINE f == [k \in 0..0 |-> LeafHashes(leaves)]
  <2>1. Upto(0, f)
    OBVIOUS
  <2> QED BY <2>1
<1>2. ASSUME NEW b \in 0..Len(leaves) - 1, b \in W PROVE b + 1 \in W
  <2>1. PICK f : Upto(b, f)
    BY <1>2
  <2> DEFINE g == [k \in 0..b + 1 |-> IF k <= b THEN f[k] ELSE Risen(f[b], n)]
  <2>2. ASSUME NEW k \in 0..b + 1
        PROVE  g[k] = IF k = 0 THEN LeafHashes(leaves) ELSE Risen(g[k - 1], n)
    <3>1. CASE k = 0
      BY <2>1, <3>1
    <3>2. CASE k \in 1..b
      <4>1. f[k] = Risen(f[k - 1], n)
        BY <2>1, <3>2
      <4>2. g[k] = f[k] /\ g[k - 1] = f[k - 1] /\ k # 0
        BY <3>2
      <4> QED BY <4>1, <4>2
    <3>3. CASE k = b + 1
      <4>1. g[k] = Risen(f[b], n) /\ g[k - 1] = f[b] /\ k # 0
        BY <3>3
      <4> QED BY <4>1
    <3> QED BY <3>1, <3>2, <3>3
  <2>3. g = [k \in 0..b + 1 |-> g[k]]
    OBVIOUS
  <2> HIDE DEF g
  <2>4. Upto(b + 1, g)
    BY <2>2, <2>3
  <2> QED BY <2>4
<1> HIDE DEF W
<1>3. \A k \in 0..Len(leaves) : k \in W
  BY <1>1, <1>2, UpTo
<1>4. Len(leaves) \in W
  BY <1>3
<1> QED BY <1>4 DEF W, Levels

(* The lowest level has a hash for every leaf.                             *)
LEMMA LeafHashesAreProper ==
    ASSUME NEW leaves, Proper(leaves)
    PROVE  /\ Proper(LeafHashes(leaves)) /\ Len(LeafHashes(leaves)) = Len(leaves)
           /\ \A i \in 1..Len(leaves) : LeafHashes(leaves)[i] = LeafHash(leaves[i])
<1>1. Len(leaves) \in Nat \ {0} /\ DOMAIN leaves = 1..Len(leaves)
  BY ProperParts
<1>2. LeafHashes(leaves) = [i \in 1..Len(leaves) |-> LeafHash(leaves[i])]
  BY <1>1 DEF LeafHashes
<1>3. LeafHashes(leaves) = [i \in 1..Len(leaves) |-> LeafHashes(leaves)[i]]
  BY <1>2
<1>4. Proper(LeafHashes(leaves)) /\ Len(LeafHashes(leaves)) = Len(leaves)
  BY <1>1, <1>3, IsProper
<1> QED BY <1>2, <1>4

(* Every level is proper, and after as many levels as leaves one has a     *)
(* single node.                                                            *)
LEMMA LevelsAreProper ==
    ASSUME NEW leaves, Proper(leaves), NEW n \in Nat, n >= 2, NEW f,
           f[0] = LeafHashes(leaves),
           \A k \in 1..Len(leaves) : Proper(f[k - 1]) => f[k] = Risen(f[k - 1], n)
    PROVE  \A k \in 0..Len(leaves) :
               Proper(f[k]) /\ (Len(f[k]) > 1 => Len(f[k]) + k <= Len(leaves))
<1> DEFINE Good(k) == Proper(f[k]) /\ (Len(f[k]) > 1 => Len(f[k]) + k <= Len(leaves))
           W == {k \in 0..Len(leaves) : Good(k)}
<1>0. Len(leaves) \in Nat \ {0}
  BY ProperParts
<1>1. 0 \in W
  BY <1>0, LeafHashesAreProper
<1>2. ASSUME NEW k \in 0..Len(leaves) - 1, k \in W PROVE k + 1 \in W
  <2>0. PICK x, y : x = f[k] /\ y = f[k + 1]
    OBVIOUS
  <2>1. /\ k + 1 \in 1..Len(leaves) /\ k + 1 \in 0..Len(leaves) /\ k + 1 - 1 = k
        /\ Proper(x) /\ (Len(x) > 1 => Len(x) + k <= Len(leaves))
    BY <1>0, <1>2, <2>0
  <2>2. y = Risen(x, n)
    BY <2>0, <2>1
  <2>3. PICK l \in Nat \ {0} :
            l = Len(x) /\ (l <= 1 => y = x) /\ (l > 1 => y = Above(x, n))
    BY <2>1, <2>2, RisenCases
  <2>4. CASE l <= 1
    BY <2>0, <2>1, <2>3, <2>4
  <2>5. CASE l > 1
    <3>1. Proper(y) /\ Len(y) < l
      BY <2>1, <2>3, <2>5, AboveIsProper
    <3>2. PICK m \in Nat : m = Len(y)
      BY <3>1, ProperParts
    <3>3. m + (k + 1) <= Len(leaves)
      BY <1>0, <2>1, <2>3, <2>5, <3>1, <3>2
    <3> QED BY <2>0, <2>1, <3>1, <3>2, <3>3
  <2> QED BY <2>3, <2>4, <2>5
<1> HIDE DEF W
<1>3. \A k \in 0..Len(leaves) : k \in W
  BY <1>0, <1>1, <1>2, UpTo
<1> QED BY <1>3 DEF W

(* The three implementations repeat one step.                              *)
LEMMA SameLevels ==
    ASSUME NEW leaves, Proper(leaves)
    PROVE  /\ LevelsOf(leaves, Pairs) = CHOOSE f : Levels(leaves, 2, f)
           /\ LevelsOf(leaves, DisplayPairs) = CHOOSE f : Levels(leaves, 2, f)
<1>0. Len(leaves) \in Nat \ {0}
  BY ProperParts
<1> DEFINE ByPairs(f) ==
        f = [k \in 0..Len(leaves) |->
            IF k = 0 THEN LeafHashes(leaves)
            ELSE IF Len(f[k - 1]) = 1 THEN f[k - 1] ELSE Pairs(f[k - 1])]
           ByDisplay(f) ==
        f = [k \in 0..Len(leaves) |->
            IF k = 0 THEN LeafHashes(leaves)
            ELSE IF Len(f[k - 1]) = 1 THEN f[k - 1] ELSE DisplayPairs(f[k - 1])]
<1>1. ASSUME NEW f, ByPairs(f) \/ ByDisplay(f) \/ Levels(leaves, 2, f)
      PROVE  ByPairs(f) /\ ByDisplay(f) /\ Levels(leaves, 2, f)
  <2>1. /\ f = [k \in 0..Len(leaves) |-> f[k]]
        /\ f[0] = LeafHashes(leaves)
    BY <1>0, <1>1 DEF Levels
  <2>2. ASSUME NEW k \in 1..Len(leaves)
        PROVE  \/ f[k] = IF Len(f[k - 1]) = 1 THEN f[k - 1] ELSE Pairs(f[k - 1])
               \/ f[k] = IF Len(f[k - 1]) = 1 THEN f[k - 1] ELSE DisplayPairs(f[k - 1])
               \/ f[k] = Risen(f[k - 1], 2)
    BY <1>0, <1>1 DEF Levels
  <2>3. \A k \in 1..Len(leaves) : Proper(f[k - 1]) => f[k] = Risen(f[k - 1], 2)
    BY <2>2, PairsAreGroups DEF Risen
  <2> HIDE DEF ByPairs, ByDisplay
  <2>4. \A k \in 0..Len(leaves) : Proper(f[k])
    <3>1. 2 \in Nat /\ 2 >= 2
      OBVIOUS
    <3> QED BY <2>1, <2>3, <3>1, LevelsAreProper
  <2> USE DEF ByPairs, ByDisplay
  <2>5. ASSUME NEW k \in 1..Len(leaves)
        PROVE  /\ f[k] = Risen(f[k - 1], 2)
               /\ f[k] = IF Len(f[k - 1]) = 1 THEN f[k - 1] ELSE Pairs(f[k - 1])
               /\ f[k] = IF Len(f[k - 1]) = 1 THEN f[k - 1] ELSE DisplayPairs(f[k - 1])
    <3>1. k - 1 \in 0..Len(leaves)
      BY <1>0
    <3>2. Proper(f[k - 1])
      BY <2>4, <3>1
    <3> QED BY <2>3, <3>2, PairsAreGroups DEF Risen
  <2>6. ByPairs(f)
    BY <2>1, <2>5
  <2>7. ByDisplay(f)
    BY <2>1, <2>5
  <2>8. Levels(leaves, 2, f)
    BY <2>1, <2>5 DEF Levels
  <2> QED BY <2>6, <2>7, <2>8
<1>2. LevelsOf(leaves, Pairs) = CHOOSE f : ByPairs(f)
  BY DEF LevelsOf
<1>3. LevelsOf(leaves, DisplayPairs) = CHOOSE f : ByDisplay(f)
  BY DEF LevelsOf
<1> HIDE DEF ByPairs, ByDisplay
<1>4. (CHOOSE f : ByPairs(f)) = CHOOSE f : Levels(leaves, 2, f)
  BY <1>1
<1>5. (CHOOSE f : ByDisplay(f)) = CHOOSE f : Levels(leaves, 2, f)
  BY <1>1
<1> QED BY <1>2, <1>3, <1>4, <1>5

-----------------------------------------------------------------------------
(* A tree is its levels up to the first that has a single node.            *)
Height(leaves, f) == Min({k \in 0..Len(leaves) : Len(f[k]) = 1})
UpToRoot(leaves, f) == [k \in 1..Height(leaves, f) + 1 |-> f[k - 1]]

(* All three trees are the levels of the same recursion, cut at the root.  *)
LEMMA TreesOfLevels ==
    ASSUME NEW leaves, Proper(leaves), NEW n
    PROVE  /\ NTree(leaves, n) = UpToRoot(leaves, CHOOSE f : Levels(leaves, n, f))
           /\ BuildFromBlocks(leaves) = UpToRoot(leaves, CHOOSE f : Levels(leaves, 2, f))
           /\ DisplayTree(leaves) = UpToRoot(leaves, CHOOSE f : Levels(leaves, 2, f))
<1>1. NTree(leaves, n) = UpToRoot(leaves, CHOOSE f : Levels(leaves, n, f))
  BY Zenon DEF NTree, Grow, LevelsOf, UpToRoot, Height, Levels, Risen, Above
<1>2. BuildFromBlocks(leaves) = UpToRoot(leaves, LevelsOf(leaves, Pairs))
  BY Zenon DEF BuildFromBlocks, Grow, UpToRoot, Height
<1>3. DisplayTree(leaves) = UpToRoot(leaves, LevelsOf(leaves, DisplayPairs))
  BY Zenon DEF DisplayTree, Grow, UpToRoot, Height
<1> QED BY <1>1, <1>2, <1>3, SameLevels

(* All that a proof taken from a tree rests on.                            *)
IsTree(tree, leaves, n) ==
    /\ Proper(tree) /\ tree[1] = LeafHashes(leaves)
    /\ \A k \in 1..Len(tree) : Proper(tree[k])
    /\ \A k \in 1..Len(tree) - 1 : tree[k + 1] = Above(tree[k], n)
    /\ Len(tree[Len(tree)]) <= 1

(* What NTree builds is such a tree: the last level is the first with a    *)
(* single node, and every other has more than one, so it has a level       *)
(* above.                                                                  *)
LEMMA NTreeIsTree ==
    ASSUME NEW leaves, Proper(leaves), NEW n \in Nat, n >= 2
    PROVE  IsTree(NTree(leaves, n), leaves, n)
<1>0. Len(leaves) \in Nat \ {0}
  BY ProperParts
<1>1. PICK f : Levels(leaves, n, f) /\ f = CHOOSE g : Levels(leaves, n, g)
  BY <1>0, LevelsExist
<1>2. f[0] = LeafHashes(leaves) /\ \A k \in 1..Len(leaves) : f[k] = Risen(f[k - 1], n)
  BY <1>0, <1>1 DEF Levels
<1>3. \A k \in 0..Len(leaves) :
          Proper(f[k]) /\ (Len(f[k]) > 1 => Len(f[k]) + k <= Len(leaves))
  BY <1>2, LevelsAreProper
<1> DEFINE single == {k \in 0..Len(leaves) : Len(f[k]) = 1}
           h == Height(leaves, f)
           tree == NTree(leaves, n)
<1>4. Len(leaves) \in single
  <2>1. PICK x : x = f[Len(leaves)]
    OBVIOUS
  <2>2. Proper(x) /\ (Len(x) > 1 => Len(x) + Len(leaves) <= Len(leaves))
    BY <1>0, <1>3, <2>1
  <2>3. PICK l \in Nat \ {0} : l = Len(x)
    BY <2>2, ProperParts
  <2>4. ~(l > 1)
    BY <1>0, <2>2, <2>3
  <2>5. l = 1
    BY <2>4
  <2>6. Len(f[Len(leaves)]) = 1
    BY <2>1, <2>3, <2>5, Zenon
  <2>7. Len(leaves) \in 0..Len(leaves)
    BY <1>0
  <2> QED BY <2>6, <2>7
<1>5. h \in single /\ \A k \in single : h <= k
  <2>1. single \in SUBSET Nat /\ single # {}
    BY <1>4
  <2>2. h = Min(single)
    BY DEF Height
  <2> HIDE DEF single
  <2> QED BY <2>1, <2>2, MinIsMember
<1>6. h \in 0..Len(leaves) /\ h \in Nat
  BY <1>5
<1>7. tree = [k \in 1..h + 1 |-> f[k - 1]]
  BY <1>1, TreesOfLevels DEF UpToRoot
<1>8. Proper(tree) /\ Len(tree) = h + 1
  <2>1. tree = [k \in 1..h + 1 |-> tree[k]]
    BY <1>7
  <2> HIDE DEF tree, h
  <2> QED BY <1>6, <2>1, IsProper
<1>9. \A k \in 1..Len(tree) : tree[k] = f[k - 1] /\ k - 1 \in 0..Len(leaves)
  <2> HIDE DEF tree, h
  <2> QED BY <1>0, <1>6, <1>7, <1>8
<1>10. tree[1] = LeafHashes(leaves)
  <2> HIDE DEF tree, h
  <2> QED BY <1>2, <1>6, <1>7
<1>11. \A k \in 1..Len(tree) : Proper(tree[k])
  <2> HIDE DEF tree, h
  <2> QED BY <1>3, <1>9
<1>12. ASSUME NEW k \in 1..Len(tree) - 1 PROVE tree[k + 1] = Above(tree[k], n)
  <2> HIDE DEF tree, h
  <2>1. /\ k \in 1..Len(tree) /\ k + 1 \in 1..Len(tree) /\ k \in 1..Len(leaves)
        /\ k - 1 \in 0..Len(leaves) /\ k - 1 < h
    BY <1>0, <1>6, <1>8
  <2>2. PICK x : x = f[k - 1]
    OBVIOUS
  <2>3. tree[k] = x /\ tree[k + 1] = Risen(x, n) /\ Proper(x)
    <3>1. tree[k + 1] = f[k]
      BY <1>9, <2>1
    <3> QED BY <1>2, <1>3, <1>9, <2>1, <2>2, <3>1
  <2>4. k - 1 \notin single
    BY <1>5, <1>6, <2>1
  <2>5. Len(x) # 1
    BY <2>1, <2>2, <2>4, Zenon
  <2>6. PICK l \in Nat \ {0} :
            l = Len(x) /\ (l <= 1 => Risen(x, n) = x) /\ (l > 1 => Risen(x, n) = Above(x, n))
    BY <2>3, RisenCases
  <2>7. l # 1
    BY <2>5, <2>6, Zenon
  <2> QED BY <2>3, <2>6, <2>7
<1>13. Len(tree[Len(tree)]) <= 1
  <2>1. PICK x : x = f[h]
    OBVIOUS
  <2>2. PICK l \in Nat \ {0} : l = Len(x)
    BY <1>3, <1>6, <2>1, ProperParts
  <2>3. Len(x) = 1
    BY <1>5, <2>1, Zenon
  <2>4. l <= 1
    <3>1. l = 1
      BY <2>2, <2>3, Zenon
    <3> QED BY <3>1
  <2>5. tree[Len(tree)] = x
    <3> HIDE DEF tree, h
    <3> QED BY <1>6, <1>8, <1>9, <2>1
  <2> HIDE DEF tree, h
  <2> QED BY <2>2, <2>4, <2>5
<1> HIDE DEF tree, h
<1> QED BY <1>8, <1>10, <1>11, <1>12, <1>13 DEF IsTree, tree

(* The leaves and the nodes of a tree.                                     *)
LEMMA TreeParts ==
    ASSUME NEW leaves, Proper(leaves), NEW n \in Nat, n >= 2, NEW tree,
           IsTree(tree, leaves, n)
    PROVE  /\ Len(tree) \in Nat \ {0} /\ Len(tree) \in 1..Len(tree)
           /\ Len(tree[1]) = Len(leaves)
           /\ \A k \in 1..Len(tree) : Len(tree[k]) \in Nat \ {0}
           /\ \A k \in 1..Len(tree) - 1 :
                 /\ k \in 1..Len(tree) /\ k + 1 \in 1..Len(tree)
                 /\ Len(tree[k + 1]) = Groups(Len(tree[k]), n)
           /\ \A i \in 1..Len(tree[Len(tree)]) : i = 1
<1>1. Len(tree) \in Nat \ {0} /\ \A k \in 1..Len(tree) : Len(tree[k]) \in Nat \ {0}
  BY ProperParts DEF IsTree
<1>2. Len(tree[1]) = Len(leaves)
  BY LeafHashesAreProper DEF IsTree
<1>3. ASSUME NEW k \in 1..Len(tree) - 1
      PROVE  /\ k \in 1..Len(tree) /\ k + 1 \in 1..Len(tree)
             /\ Len(tree[k + 1]) = Groups(Len(tree[k]), n)
  <2>1. k \in 1..Len(tree) /\ k + 1 \in 1..Len(tree)
    BY <1>1
  <2>2. Proper(tree[k]) /\ tree[k + 1] = Above(tree[k], n)
    BY <2>1 DEF IsTree
  <2> QED BY <2>1, <2>2, AboveIsProper
<1>4. Len(tree) \in 1..Len(tree)
  BY <1>1
<1>5. PICK l \in Nat \ {0} : l = Len(tree[Len(tree)])
  BY <1>1, <1>4
<1>6. l <= 1
  BY <1>5 DEF IsTree
<1>7. \A i \in 1..l : i = 1
  BY <1>6
<1> QED BY <1>1, <1>2, <1>3, <1>4, <1>5, <1>7

(* A leaf node hashes its leaf, every other node its group of the level    *)
(* below.                                                                  *)
LEMMA TreeNodes ==
    ASSUME NEW leaves, Proper(leaves), NEW n \in Nat, n >= 2, NEW tree,
           IsTree(tree, leaves, n)
    PROVE  /\ \A i \in 1..Len(leaves) : tree[1][i] = LeafHash(leaves[i])
           /\ \A k \in 1..Len(tree) - 1 : \A i \in 1..Len(tree[k + 1]) :
                 tree[k + 1][i] = SHA256(Group(tree[k], i, n))
<1>1. \A i \in 1..Len(leaves) : tree[1][i] = LeafHash(leaves[i])
  BY LeafHashesAreProper DEF IsTree
<1>2. ASSUME NEW k \in 1..Len(tree) - 1, NEW i \in 1..Len(tree[k + 1])
      PROVE  tree[k + 1][i] = SHA256(Group(tree[k], i, n))
  <2>1. k \in 1..Len(tree)
    BY TreeParts
  <2>2. Proper(tree[k]) /\ tree[k + 1] = Above(tree[k], n)
    BY <2>1 DEF IsTree
  <2> QED BY <2>2, AboveIsProper
<1> QED BY <1>1, <1>2

(* The children of a node: those there are, and copies of the last one.    *)
LEMMA Grouped ==
    ASSUME NEW level, Proper(level), NEW n \in Nat, n >= 2, NEW p \in 1..Len(level)
    PROVE  /\ Proper(Group(level, ParentAt(p, n), n))
           /\ Len(Group(level, ParentAt(p, n), n)) = n
           /\ ((p - 1) % n) + 1 \in 1..n
           /\ Group(level, ParentAt(p, n), n)[((p - 1) % n) + 1] = level[p]
<1> DEFINE q == ParentAt(p, n)
           c == ((p - 1) % n) + 1
           g == Group(level, q, n)
<1>0. Len(level) \in Nat \ {0} /\ p \in Nat \ {0} /\ n \in Nat \ {0} /\ p <= Len(level)
  BY ProperParts
<1>1. q \in Nat \ {0} /\ c \in 1..n /\ (q - 1) * n + c = p
  BY <1>0, GroupOf
<1>2. g = [d \in 1..n |-> level[Min({(q - 1) * n + d, Len(level)})]]
  BY DEF Group
<1> HIDE DEF q, c
<1>3. g[c] = level[p]
  <2>1. g[c] = level[Min({p, Len(level)})]
    BY <1>1, <1>2
  <2>2. Min({p, Len(level)}) = p
    BY <1>0, SmallerOfTwo
  <2> QED BY <2>1, <2>2
<1>4. g = [d \in 1..n |-> g[d]]
  BY <1>2
<1> HIDE DEF g
<1>5. Proper(g) /\ Len(g) = n
  BY <1>0, <1>4, IsProper
<1> QED BY <1>1, <1>3, <1>5 DEF g, q, c

(* Where the nodes above a leaf are: in their levels, each above the last. *)
LEMMA Positions ==
    ASSUME NEW p, NEW n, NEW h \in Nat \ {0}
    PROVE  /\ PositionsOf(p, n, h)[1] = p
           /\ \A k \in 1..h - 1 :
                 PositionsOf(p, n, h)[k + 1] = ParentAt(PositionsOf(p, n, h)[k], n)
<1> DEFINE Upto(b, f) == f = [k \in 1..b |-> IF k = 1 THEN p ELSE ParentAt(f[k - 1], n)]
           W == {b \in Nat : \E f : Upto(b, f)}
<1>1. 1 \in W
  <2> DEFINE f == [k \in 1..1 |-> p]
  <2>1. Upto(1, f)
    OBVIOUS
  <2> QED BY <2>1
<1>2. ASSUME NEW b \in 1..h - 1, b \in W PROVE b + 1 \in W
  <2>1. PICK f : Upto(b, f)
    BY <1>2
  <2> DEFINE g == [k \in 1..b + 1 |-> IF k <= b THEN f[k] ELSE ParentAt(f[b], n)]
  <2>2. ASSUME NEW k \in 1..b + 1
        PROVE  g[k] = IF k = 1 THEN p ELSE ParentAt(g[k - 1], n)
    <3>1. CASE k = 1
      BY <2>1, <3>1
    <3>2. CASE k \in 2..b
      <4>1. f[k] = ParentAt(f[k - 1], n)
        BY <2>1, <3>2
      <4>2. g[k] = f[k] /\ g[k - 1] = f[k - 1] /\ k # 1
        BY <3>2
      <4> QED BY <4>1, <4>2
    <3>3. CASE k = b + 1
      <4>1. g[k] = ParentAt(f[b], n) /\ g[k - 1] = f[b] /\ k # 1
        BY <3>3
      <4> QED BY <4>1
    <3> QED BY <3>1, <3>2, <3>3
  <2>3. g = [k \in 1..b + 1 |-> g[k]]
    OBVIOUS
  <2> HIDE DEF g
  <2>4. Upto(b + 1, g)
    BY <2>2, <2>3
  <2> QED BY <2>4
<1>3. h \in W
  <2> HIDE DEF W
  <2>1. \A b \in 1..h : b \in W
    BY <1>1, <1>2, UpTo
  <2> QED BY <2>1
<1>4. PositionsOf(p, n, h) = CHOOSE f : Upto(h, f)
  BY DEF PositionsOf
<1>5. PICK at : Upto(h, at) /\ at = PositionsOf(p, n, h)
  BY <1>3, <1>4
<1> HIDE DEF W
<1>6. at[1] = p /\ \A k \in 1..h - 1 : at[k + 1] = ParentAt(at[k], n)
  BY <1>5
<1> QED BY <1>5, <1>6

(* On the way up from a leaf every position is one of its level; the last  *)
(* is the root.                                                            *)
LEMMA PositionsInLevels ==
    ASSUME NEW leaves, Proper(leaves), NEW n \in Nat, n >= 2, NEW tree,
           IsTree(tree, leaves, n), NEW p \in 1..Len(leaves)
    PROVE  \E at : /\ at = PositionsOf(p, n, Len(tree)) /\ at[1] = p
                   /\ \A k \in 1..Len(tree) - 1 : at[k + 1] = ParentAt(at[k], n)
                   /\ \A k \in 1..Len(tree) : at[k] \in 1..Len(tree[k])
                   /\ at[Len(tree)] = 1
<1>1. Len(tree) \in Nat \ {0} /\ Len(tree) \in 1..Len(tree) /\ Len(tree[1]) = Len(leaves)
  BY TreeParts
<1>2. PICK at : /\ at = PositionsOf(p, n, Len(tree)) /\ at[1] = p
                /\ \A k \in 1..Len(tree) - 1 : at[k + 1] = ParentAt(at[k], n)
  BY <1>1, Positions
<1> DEFINE W == {k \in 1..Len(tree) : at[k] \in 1..Len(tree[k])}
<1>3. 1 \in W
  BY <1>1, <1>2
<1>4. ASSUME NEW k \in 1..Len(tree) - 1, k \in W PROVE k + 1 \in W
  <2>0. k \in 1..Len(tree) /\ k + 1 \in 1..Len(tree)
    BY TreeParts
  <2>1. Len(tree[k]) \in Nat \ {0}
    BY <2>0, TreeParts
  <2>3. Len(tree[k + 1]) = Groups(Len(tree[k]), n)
    BY TreeParts
  <2>2. at[k] \in 1..Len(tree[k]) /\ at[k + 1] = ParentAt(at[k], n)
    BY <1>2, <1>4
  <2>4. at[k + 1] \in 1..Len(tree[k + 1])
    BY <2>1, <2>2, <2>3, GroupCount
  <2> QED BY <2>0, <2>4
<1> HIDE DEF W
<1>5. \A k \in 1..Len(tree) : k \in W
  BY <1>1, <1>3, <1>4, UpTo
<1>6. \A k \in 1..Len(tree) : at[k] \in 1..Len(tree[k])
  BY <1>5 DEF W
<1>7. at[Len(tree)] = 1
  <2>1. \A i \in 1..Len(tree[Len(tree)]) : i = 1
    BY TreeParts
  <2>2. at[Len(tree)] \in 1..Len(tree[Len(tree)])
    BY <1>1, <1>6
  <2> QED BY <2>1, <2>2
<1> QED BY <1>2, <1>6, <1>7

-----------------------------------------------------------------------------
(* What is left of a group, and the group put together again.              *)
LEMMA LengthIs ==
    ASSUME NEW m \in Nat, NEW s, s = [i \in 1..m |-> s[i]]
    PROVE  Len(s) = m /\ DOMAIN s = 1..m
BY DOMAIN s = 1..m

(* What RemoveAt leaves of a group: the others, in their order.            *)
LEMMA RemovedAt ==
    ASSUME NEW g, Proper(g), NEW n \in Nat, n >= 2, Len(g) = n, NEW c \in 1..n
    PROVE  /\ Proper(RemoveAt(g, c)) /\ Len(RemoveAt(g, c)) = n - 1
           /\ \A j \in 1..n - 1 : RemoveAt(g, c)[j] = IF j < c THEN g[j] ELSE g[j + 1]
<1> DEFINE S == {g[i] : i \in 1..Len(g)}
           a == SubSeq(g, 1, c - 1)
           b == SubSeq(g, c + 1, n)
<1>1. g \in Seq(S)
  BY ProperParts
<1> HIDE DEF S
<1>2. a \in Seq(S) /\ Len(a) = c - 1 /\ \A i \in 1..c - 1 : a[i] = g[i]
  <2>1. 1 \in 1..Len(g) + 1 /\ c - 1 \in 1 - 1..Len(g)
    OBVIOUS
  <2> QED BY <1>1, <2>1, SubSeqProperties
<1>3. b \in Seq(S) /\ Len(b) = n - c /\ \A i \in 1..n - c : b[i] = g[c + i]
  <2>1. c + 1 \in 1..Len(g) + 1 /\ n \in (c + 1) - 1..Len(g)
    OBVIOUS
  <2>2. n - (c + 1) + 1 = n - c
    OBVIOUS
  <2>3. \A i \in 1..n - c : (c + 1) + i - 1 = c + i
    OBVIOUS
  <2>4. /\ b \in Seq(S) /\ Len(b) = n - (c + 1) + 1
        /\ \A i \in 1..n - (c + 1) + 1 : b[i] = g[(c + 1) + i - 1]
    BY <1>1, <2>1, SubSeqProperties
  <2> QED BY <2>2, <2>3, <2>4
<1>4. RemoveAt(g, c) = a \o b
  BY DEF RemoveAt
<1> HIDE DEF a, b
<1> DEFINE r == a \o b
<1>5. /\ r \in Seq(S) /\ Len(r) = n - 1
      /\ \A i \in 1..n - 1 : r[i] = IF i <= c - 1 THEN a[i] ELSE b[i - (c - 1)]
  BY <1>2, <1>3, ConcatProperties
<1> HIDE DEF r
<1>6. \A j \in 1..n - 1 : r[j] = IF j < c THEN g[j] ELSE g[j + 1]
  <2> TAKE j \in 1..n - 1
  <2>1. CASE j < c
    BY <1>2, <1>5, <2>1
  <2>2. CASE ~(j < c)
    <3>1. j - (c - 1) \in 1..n - c /\ c + (j - (c - 1)) = j + 1 /\ ~(j <= c - 1)
      BY <2>2
    <3> QED BY <1>3, <1>5, <2>2, <3>1
  <2> QED BY <2>1, <2>2
<1>7. r = [i \in 1..n - 1 |-> r[i]] /\ n - 1 \in Nat \ {0}
  BY <1>5
<1>8. Proper(r) /\ Len(r) = n - 1
  BY <1>7, IsProper
<1> QED BY <1>4, <1>6, <1>8 DEF r

(* What InsertAt makes of the siblings and the child.                      *)
LEMMA InsertedAt ==
    ASSUME NEW s, Proper(s), NEW n \in Nat, n >= 2, Len(s) = n - 1, NEW c \in 1..n, NEW e
    PROVE  InsertAt(s, c, e) =
               [j \in 1..n |-> IF j < c THEN s[j] ELSE IF j = c THEN e ELSE s[j - 1]]
<1> DEFINE S == {s[i] : i \in 1..Len(s)} \cup {e}
           a == SubSeq(s, 1, c - 1)
           b == SubSeq(s, c, n - 1)
<1>1. s \in Seq(S)
  <2>1. s = [i \in 1..Len(s) |-> s[i]] /\ Len(s) \in Nat
    BY ProperParts
  <2>2. \A i \in 1..Len(s) : s[i] \in S
    OBVIOUS
  <2> HIDE DEF S
  <2>3. s \in [1..Len(s) -> S]
    BY <2>1, <2>2
  <2> QED BY <2>1, <2>3
<1>0. <<e>> \in Seq(S) /\ Len(<<e>>) = 1 /\ <<e>>[1] = e
  OBVIOUS
<1> HIDE DEF S
<1>2. a \in Seq(S) /\ Len(a) = c - 1 /\ \A i \in 1..c - 1 : a[i] = s[i]
  <2>1. 1 \in 1..Len(s) + 1 /\ c - 1 \in 1 - 1..Len(s)
    OBVIOUS
  <2> QED BY <1>1, <2>1, SubSeqProperties
<1>3. b \in Seq(S) /\ Len(b) = n - c /\ \A i \in 1..n - c : b[i] = s[c + i - 1]
  <2>1. c \in 1..Len(s) + 1 /\ n - 1 \in c - 1..Len(s) /\ (n - 1) - c + 1 = n - c
    OBVIOUS
  <2>2. /\ b \in Seq(S) /\ Len(b) = (n - 1) - c + 1
        /\ \A i \in 1..(n - 1) - c + 1 : b[i] = s[c + i - 1]
    BY <1>1, <2>1, SubSeqProperties
  <2> QED BY <2>1, <2>2
<1>4. InsertAt(s, c, e) = a \o <<e>> \o b
  BY DEF InsertAt
<1> HIDE DEF a, b
<1> DEFINE ae == a \o <<e>>
<1>5. /\ ae \in Seq(S) /\ Len(ae) = c
      /\ \A i \in 1..c : ae[i] = IF i <= c - 1 THEN a[i] ELSE <<e>>[i - (c - 1)]
  BY <1>0, <1>2, ConcatProperties
<1>6. ae[c] = e /\ \A i \in 1..c - 1 : ae[i] = s[i]
  BY <1>0, <1>2, <1>5
<1> HIDE DEF ae
<1> DEFINE r == ae \o b
<1>7. /\ r \in Seq(S) /\ Len(r) = n
      /\ \A i \in 1..n : r[i] = IF i <= c THEN ae[i] ELSE b[i - c]
  BY <1>3, <1>5, ConcatProperties
<1> HIDE DEF r
<1>8. ASSUME NEW j \in 1..n
      PROVE  r[j] = IF j < c THEN s[j] ELSE IF j = c THEN e ELSE s[j - 1]
  <2>1. CASE j < c
    BY <1>6, <1>7, <2>1
  <2>2. CASE j = c
    BY <1>6, <1>7, <2>2
  <2>3. CASE j > c
    <3>1. j - c \in 1..n - c /\ c + (j - c) - 1 = j - 1 /\ ~(j <= c) /\ ~(j < c) /\ j # c
      BY <2>3
    <3>2. r[j] = b[j - c]
      BY <1>7, <3>1
    <3>3. b[j - c] = s[j - 1]
      BY <1>3, <3>1
    <3> QED BY <3>1, <3>2, <3>3
  <2> QED BY <2>1, <2>2, <2>3
<1>9. r = [j \in 1..n |-> r[j]]
  BY <1>7
<1> QED BY <1>4, <1>8, <1>9 DEF r, ae

(* Inserting a child where it was removed gives the group again.           *)
LEMMA Restored ==
    ASSUME NEW g, Proper(g), NEW n \in Nat, n >= 2, Len(g) = n, NEW c \in 1..n
    PROVE  InsertAt(RemoveAt(g, c), c, g[c]) = g
<1>1. PICK r : r = RemoveAt(g, c)
  OBVIOUS
<1>2. /\ Proper(r) /\ Len(r) = n - 1
      /\ \A j \in 1..n - 1 : r[j] = IF j < c THEN g[j] ELSE g[j + 1]
  BY <1>1, RemovedAt
<1>3. InsertAt(r, c, g[c]) =
          [j \in 1..n |-> IF j < c THEN r[j] ELSE IF j = c THEN g[c] ELSE r[j - 1]]
  BY <1>2, InsertedAt
<1>4. ASSUME NEW j \in 1..n
      PROVE  g[j] = IF j < c THEN r[j] ELSE IF j = c THEN g[c] ELSE r[j - 1]
  <2>1. CASE j < c
    BY <1>2, <2>1
  <2>2. CASE j = c
    BY <2>2
  <2>3. CASE j > c
    <3>1. j - 1 \in 1..n - 1 /\ ~(j - 1 < c) /\ (j - 1) + 1 = j /\ ~(j < c) /\ j # c
      BY <2>3
    <3> QED BY <1>2, <3>1
  <2> QED BY <2>1, <2>2, <2>3
<1>5. g = [j \in 1..n |-> g[j]]
  BY ProperParts
<1> QED BY <1>1, <1>3, <1>4, <1>5

-----------------------------------------------------------------------------
(* The hashes a proof of NTreeMerkle makes, from its value up.             *)
LEMMA HashesUpSteps ==
    ASSUME NEW proof, NEW m \in Nat, Len(proof.steps) = m
    PROVE  /\ HashesUp(proof)[0] = LeafHash(proof.value)
           /\ \A k \in 1..m :
                 HashesUp(proof)[k] = SHA256(Children(proof.steps[k], HashesUp(proof)[k - 1]))
<1> DEFINE Upto(b, f) ==
        f = [k \in 0..b |-> IF k = 0 THEN LeafHash(proof.value)
                            ELSE SHA256(Children(proof.steps[k], f[k - 1]))]
           W == {b \in Nat : \E f : Upto(b, f)}
<1>1. 0 \in W
  <2> DEFINE f == [k \in 0..0 |-> LeafHash(proof.value)]
  <2>1. Upto(0, f)
    OBVIOUS
  <2> QED BY <2>1
<1>2. ASSUME NEW b \in 0..m - 1, b \in W PROVE b + 1 \in W
  <2>1. PICK f : Upto(b, f)
    BY <1>2
  <2> DEFINE g == [k \in 0..b + 1 |-> IF k <= b THEN f[k]
                                      ELSE SHA256(Children(proof.steps[b + 1], f[b]))]
  <2>2. ASSUME NEW k \in 0..b + 1
        PROVE  g[k] = IF k = 0 THEN LeafHash(proof.value)
                      ELSE SHA256(Children(proof.steps[k], g[k - 1]))
    <3>1. CASE k = 0
      BY <2>1, <3>1
    <3>2. CASE k \in 1..b
      <4>1. f[k] = SHA256(Children(proof.steps[k], f[k - 1]))
        BY <2>1, <3>2
      <4>2. g[k] = f[k] /\ g[k - 1] = f[k - 1] /\ k # 0
        BY <3>2
      <4> QED BY <4>1, <4>2
    <3>3. CASE k = b + 1
      <4>1. g[k] = SHA256(Children(proof.steps[k], f[b])) /\ g[k - 1] = f[b] /\ k # 0
        BY <3>3
      <4> QED BY <4>1
    <3> QED BY <3>1, <3>2, <3>3
  <2>3. g = [k \in 0..b + 1 |-> g[k]]
    OBVIOUS
  <2> HIDE DEF g
  <2>4. Upto(b + 1, g)
    BY <2>2, <2>3
  <2> QED BY <2>4
<1>3. m \in W
  <2> HIDE DEF W
  <2>1. \A b \in 0..m : b \in W
    BY <1>1, <1>2, UpTo
  <2> QED BY <2>1
<1>4. HashesUp(proof) = CHOOSE f : Upto(m, f)
  BY DEF HashesUp
<1>5. PICK hash : Upto(m, hash) /\ hash = HashesUp(proof)
  BY <1>3, <1>4
<1> HIDE DEF W
<1>6. /\ hash[0] = LeafHash(proof.value)
      /\ \A k \in 1..m : hash[k] = SHA256(Children(proof.steps[k], hash[k - 1]))
  BY <1>5
<1> QED BY <1>5, <1>6

(* A proof as issued: at every level the child on the way up, and the rest *)
(* of its group.                                                           *)
Issued(proof, at, tree, leaves, p, n) ==
    /\ proof = GenerateProof(tree, leaves, p, n)
    /\ at = PositionsOf(p, n, Len(tree))
    /\ proof.value = leaves[p] /\ proof.root = RootOf(tree)
    /\ Len(proof.steps) = Len(tree) - 1 /\ DOMAIN proof.steps = 1..Len(tree) - 1
    /\ \A k \in 1..Len(tree) - 1 :
          /\ proof.steps[k].child = ((at[k] - 1) % n) + 1
          /\ proof.steps[k].child \in 1..n
          /\ proof.steps[k].siblings =
                RemoveAt(Group(tree[k], at[k + 1], n), proof.steps[k].child)
          /\ Proper(proof.steps[k].siblings)
          /\ Len(proof.steps[k].siblings) = n - 1
          /\ Children(proof.steps[k], tree[k][at[k]]) = Group(tree[k], at[k + 1], n)

(* GenerateProof issues such a proof for every leaf.                       *)
LEMMA IssuedProof ==
    ASSUME NEW leaves, Proper(leaves), NEW n \in Nat, n >= 2, NEW tree,
           IsTree(tree, leaves, n), NEW p \in 1..Len(leaves)
    PROVE  \E proof, at : Issued(proof, at, tree, leaves, p, n)
<1>1. PICK at : /\ at = PositionsOf(p, n, Len(tree)) /\ at[1] = p
                /\ \A k \in 1..Len(tree) - 1 : at[k + 1] = ParentAt(at[k], n)
                /\ \A k \in 1..Len(tree) : at[k] \in 1..Len(tree[k])
                /\ at[Len(tree)] = 1
  BY PositionsInLevels
<1>2. PICK proof : proof = GenerateProof(tree, leaves, p, n)
  OBVIOUS
<1> DEFINE steps == [k \in 1..(Len(tree) - 1) |->
            LET child == ((at[k] - 1) % n) + 1
            IN  [child |-> child,
                 siblings |-> RemoveAt(Group(tree[k], ParentAt(at[k], n), n), child)]]
<1>3. proof = [value |-> leaves[p], root |-> RootOf(tree), steps |-> steps]
  BY <1>1, <1>2 DEF GenerateProof
<1>4. proof.value = leaves[p] /\ proof.root = RootOf(tree) /\ proof.steps = steps
  BY <1>3
<1>5. Len(proof.steps) = Len(tree) - 1 /\ DOMAIN proof.steps = 1..Len(tree) - 1
  <2>1. Len(tree) - 1 \in Nat
    BY TreeParts
  <2>2. steps = [k \in 1..Len(tree) - 1 |-> steps[k]]
    OBVIOUS
  <2> HIDE DEF steps
  <2> QED BY <1>4, <2>1, <2>2, LengthIs
<1>6. ASSUME NEW k \in 1..Len(tree) - 1
      PROVE  /\ proof.steps[k].child = ((at[k] - 1) % n) + 1
             /\ proof.steps[k].child \in 1..n
             /\ proof.steps[k].siblings =
                    RemoveAt(Group(tree[k], at[k + 1], n), proof.steps[k].child)
             /\ Proper(proof.steps[k].siblings)
             /\ Len(proof.steps[k].siblings) = n - 1
             /\ Children(proof.steps[k], tree[k][at[k]]) = Group(tree[k], at[k + 1], n)
  <2>0. k \in 1..Len(tree) /\ k + 1 \in 1..Len(tree)
    BY TreeParts
  <2>1. PICK level, c, g :
            /\ level = tree[k] /\ c = ((at[k] - 1) % n) + 1
            /\ g = Group(level, ParentAt(at[k], n), n)
    OBVIOUS
  <2>2. proof.steps[k] = [child |-> c, siblings |-> RemoveAt(g, c)]
    BY <1>4, <2>1
  <2>3. Proper(level) /\ at[k] \in 1..Len(level) /\ at[k + 1] = ParentAt(at[k], n)
    BY <1>1, <2>0, <2>1 DEF IsTree
  <2>4. Proper(g) /\ Len(g) = n /\ c \in 1..n /\ g[c] = level[at[k]]
    BY <2>1, <2>3, Grouped
  <2>5. Proper(RemoveAt(g, c)) /\ Len(RemoveAt(g, c)) = n - 1
    BY <2>4, RemovedAt
  <2>6. InsertAt(RemoveAt(g, c), c, g[c]) = g
    BY <2>4, Restored
  <2>7. Children(proof.steps[k], g[c]) = g
    BY <2>2, <2>6 DEF Children
  <2> QED BY <2>1, <2>2, <2>3, <2>4, <2>5, <2>7
<1> HIDE DEF steps
<1>7. Issued(proof, at, tree, leaves, p, n)
  BY <1>1, <1>2, <1>4, <1>5, <1>6 DEF Issued
<1> QED BY <1>7

(* Every proof as issued is accepted.                                      *)
LEMMA IssuedIsAccepted ==
    ASSUME NEW leaves, Proper(leaves), NEW n \in Nat, n >= 2, NEW tree,
           IsTree(tree, leaves, n), NEW p \in 1..Len(leaves)
    PROVE  VerifyProof(tree, GenerateProof(tree, leaves, p, n), n)
<1>0. PICK proof, at : Issued(proof, at, tree, leaves, p, n)
  BY IssuedProof
<1>1. /\ proof = GenerateProof(tree, leaves, p, n)
      /\ at = PositionsOf(p, n, Len(tree))
      /\ proof.value = leaves[p] /\ proof.root = RootOf(tree)
      /\ Len(proof.steps) = Len(tree) - 1 /\ DOMAIN proof.steps = 1..Len(tree) - 1
      /\ \A k \in 1..Len(tree) - 1 :
            /\ proof.steps[k].child \in 1..n
            /\ Len(proof.steps[k].siblings) = n - 1
            /\ Children(proof.steps[k], tree[k][at[k]]) = Group(tree[k], at[k + 1], n)
  BY <1>0 DEF Issued
<1>2. /\ at[1] = p /\ at[Len(tree)] = 1
      /\ \A k \in 1..Len(tree) : at[k] \in 1..Len(tree[k])
  BY <1>1, PositionsInLevels
<1>3. PICK m \in Nat : m = Len(tree) - 1 /\ Len(tree) = m + 1
  BY TreeParts
<1>4. PICK hash : /\ hash = HashesUp(proof)
                  /\ hash[0] = LeafHash(proof.value)
                  /\ \A k \in 1..m : hash[k] = SHA256(Children(proof.steps[k], hash[k - 1]))
  BY <1>1, <1>3, HashesUpSteps
<1> DEFINE W == {k \in 0..m : hash[k] = tree[k + 1][at[k + 1]]}
<1>5. 0 \in W
  BY <1>1, <1>2, <1>4, TreeNodes
<1>6. ASSUME NEW k \in 0..m - 1, k \in W PROVE k + 1 \in W
  <2>1. k + 1 \in 1..m /\ k + 1 \in 0..m /\ k + 1 \in 1..Len(tree) - 1 /\ (k + 1) - 1 = k
        /\ k + 2 \in 1..Len(tree) /\ (k + 1) + 1 = k + 2
    BY <1>3
  <2>2. hash[k] = tree[k + 1][at[k + 1]]
    BY <1>6
  <2>3. hash[k + 1] = SHA256(Children(proof.steps[k + 1], hash[k]))
    BY <1>4, <2>1
  <2>4. Children(proof.steps[k + 1], tree[k + 1][at[k + 1]]) = Group(tree[k + 1], at[k + 2], n)
    BY <1>1, <2>1
  <2>5. at[k + 2] \in 1..Len(tree[k + 2])
    BY <1>2, <2>1
  <2>6. tree[k + 2][at[k + 2]] = SHA256(Group(tree[k + 1], at[k + 2], n))
    <3>1. \A i \in 1..Len(tree[(k + 1) + 1]) :
              tree[(k + 1) + 1][i] = SHA256(Group(tree[k + 1], i, n))
      <4>1. k + 1 \in 1..Len(tree) - 1
        BY <2>1
      <4> QED BY <4>1, TreeNodes, Zenon
    <3> QED BY <2>1, <2>5, <3>1
  <2> QED BY <2>1, <2>2, <2>3, <2>4, <2>6
<1> HIDE DEF W
<1>7. \A k \in 0..m : k \in W
  BY <1>5, <1>6, UpTo
<1>8. hash[m] = tree[m + 1][at[m + 1]]
  <2>1. m \in W
    BY <1>7
  <2> QED BY <2>1 DEF W
<1>9. hash[m] = RootOf(tree)
  BY <1>2, <1>3, <1>8 DEF RootOf
<1>10. ASSUME NEW k \in DOMAIN proof.steps
       PROVE  proof.steps[k].child <= n /\ Len(proof.steps[k].siblings) + 1 = n
  <2>1. PICK step : step = proof.steps[k]
    OBVIOUS
  <2>2. PICK l : l = Len(step.siblings)
    OBVIOUS
  <2>3. step.child \in 1..n /\ Len(step.siblings) = n - 1
    BY <1>1, <2>1
  <2>4. l = n - 1
    BY <2>2, <2>3, Zenon
  <2>5. l + 1 = n
    BY <2>4
  <2>6. Len(step.siblings) + 1 = n
    BY <2>2, <2>5, Zenon
  <2>7. step.child <= n
    BY <2>3
  <2> QED BY <2>1, <2>6, <2>7, Zenon
<1> QED BY <1>1, <1>3, <1>4, <1>9, <1>10 DEF VerifyProof

(* Equal hashes are hashes of the same.                                    *)
LEMMA HashesDiffer ==
    /\ \A a, b : SHA256(a) = SHA256(b) => a = b
    /\ \A a, b : LeafHash(a) = LeafHash(b) => a = b
    /\ \A a, b : SHA256(a) # LeafHash(b)
<1>1. ASSUME NEW a, NEW b, SHA256(a) = SHA256(b) PROVE a = b
  <2>1. SHA256(a).what = a /\ SHA256(b).what = b
    BY DEF SHA256
  <2> QED BY <1>1, <2>1
<1>2. ASSUME NEW a, NEW b, LeafHash(a) = LeafHash(b) PROVE a = b
  <2>1. LeafHash(a).what = a /\ LeafHash(b).what = b
    BY DEF LeafHash
  <2> QED BY <1>2, <2>1
<1>3. ASSUME NEW a, NEW b PROVE SHA256(a) # LeafHash(b)
  <2>1. SHA256(a).of = "hashes" /\ LeafHash(b).of = "text"
    BY DEF SHA256, LeafHash
  <2> QED BY <2>1
<1> QED BY <1>1, <1>2, <1>3

(* The node a path leads to, level by level from the root.                 *)
Descends(at, tree, path, n, m) ==
    /\ Opened(tree, path, n) = at[m] /\ at[0] = 1
    /\ \A d \in 1..m :
          at[d] = Min({(at[d - 1] - 1) * n + path[m + 1 - d], Len(tree[m + 1 - d])})

(* The recursion of Opened defines the descent.                            *)
LEMMA OpenedSteps ==
    ASSUME NEW tree, NEW path, NEW n, NEW m \in Nat, Len(path) = m
    PROVE  \E at : Descends(at, tree, path, n, m)
<1> DEFINE NodeBelow(d, i) == Min({(i - 1) * n + path[m + 1 - d], Len(tree[m + 1 - d])})
<1> HIDE DEF NodeBelow
<1> DEFINE Upto(b, f) == f = [d \in 0..b |-> IF d = 0 THEN 1 ELSE NodeBelow(d, f[d - 1])]
           W == {b \in Nat : \E f : Upto(b, f)}
<1>1. 0 \in W
  <2> DEFINE f == [d \in 0..0 |-> 1]
  <2>1. Upto(0, f)
    OBVIOUS
  <2> QED BY <2>1
<1>2. ASSUME NEW b \in 0..m - 1, b \in W PROVE b + 1 \in W
  <2>1. PICK f : Upto(b, f)
    BY <1>2
  <2> DEFINE g == [d \in 0..b + 1 |-> IF d <= b THEN f[d] ELSE NodeBelow(b + 1, f[b])]
  <2>2. ASSUME NEW d \in 0..b + 1
        PROVE  g[d] = IF d = 0 THEN 1 ELSE NodeBelow(d, g[d - 1])
    <3>1. CASE d = 0
      BY <2>1, <3>1
    <3>2. CASE d \in 1..b
      <4>1. f[d] = NodeBelow(d, f[d - 1])
        BY <2>1, <3>2
      <4>2. g[d] = f[d] /\ g[d - 1] = f[d - 1] /\ d # 0
        BY <3>2
      <4> QED BY <4>1, <4>2
    <3>3. CASE d = b + 1
      <4>1. g[d] = NodeBelow(d, f[b]) /\ g[d - 1] = f[b] /\ d # 0
        BY <3>3
      <4> QED BY <4>1
    <3> QED BY <3>1, <3>2, <3>3
  <2>3. g = [d \in 0..b + 1 |-> g[d]]
    OBVIOUS
  <2> HIDE DEF g
  <2>4. Upto(b + 1, g)
    BY <2>2, <2>3
  <2> QED BY <2>4
<1>3. m \in W
  <2> HIDE DEF W
  <2>1. \A b \in 0..m : b \in W
    BY <1>1, <1>2, UpTo
  <2> QED BY <2>1
<1>4. Opened(tree, path, n) = (CHOOSE f : Upto(m, f))[m]
  BY DEF Opened, NodeBelow
<1>5. PICK at : Upto(m, at) /\ at = CHOOSE f : Upto(m, f)
  BY <1>3
<1> HIDE DEF W
<1>6. at[0] = 1 /\ \A d \in 1..m : at[d] = NodeBelow(d, at[d - 1])
  BY <1>5
<1>7. Opened(tree, path, n) = at[m]
  BY <1>4, <1>5
<1>8. Descends(at, tree, path, n, m)
  BY <1>6, <1>7 DEF NodeBelow, Descends
<1> QED BY <1>8

(* A proof with a child and n - 1 siblings for each of m levels, issued or *)
(* not.                                                                    *)
WellFormed(proof, n, m) ==
    /\ Len(proof.steps) = m /\ DOMAIN proof.steps = 1..m
    /\ \A k \in 1..m : /\ proof.steps[k].child \in 1..n
                       /\ Proper(proof.steps[k].siblings)
                       /\ Len(proof.steps[k].siblings) = n - 1

(* What NTreeMerkle accepts is the leaf at the end of the path: from the   *)
(* root down, the hash a level has is the hash of the node the path leads  *)
(* to, for equal hashes are hashes of the same children.                   *)
THEOREM AcceptedOpens ==
    ASSUME NEW leaves, Proper(leaves), NEW n \in Nat, n >= 2, NEW tree,
           IsTree(tree, leaves, n), NEW proof, NEW m \in Nat, Len(tree) = m + 1,
           WellFormed(proof, n, m), VerifyProof(tree, proof, n)
    PROVE  leaves[Opened(tree, PathOf(proof), n)] = proof.value
<1> USE DEF WellFormed
<1>1. PICK path : path = PathOf(proof)
  OBVIOUS
<1>2. Len(path) = m /\ \A k \in 1..m : path[k] = proof.steps[k].child
  <2>1. path = [k \in 1..m |-> proof.steps[k].child]
    BY <1>1 DEF PathOf
  <2>2. path = [k \in 1..m |-> path[k]]
    BY <2>1
  <2> QED BY <2>1, <2>2, LengthIs
<1>0. PICK at : Descends(at, tree, path, n, m)
  BY <1>2, OpenedSteps
<1>3. /\ Opened(tree, path, n) = at[m] /\ at[0] = 1
      /\ \A d \in 1..m :
            at[d] = Min({(at[d - 1] - 1) * n + path[m + 1 - d], Len(tree[m + 1 - d])})
  BY <1>0 DEF Descends
<1>4. PICK hash : /\ hash = HashesUp(proof)
                  /\ hash[0] = LeafHash(proof.value)
                  /\ \A k \in 1..m : hash[k] = SHA256(Children(proof.steps[k], hash[k - 1]))
  BY HashesUpSteps
<1>5. hash[m] = tree[m + 1][1]
  BY <1>4 DEF VerifyProof, RootOf
<1> DEFINE W == {d \in 0..m : /\ at[d] \in 1..Len(tree[m + 1 - d])
                              /\ hash[m - d] = tree[m + 1 - d][at[d]]}
<1>6. 0 \in W
  <2>1. Len(tree[m + 1]) \in Nat \ {0}
    <3>1. m + 1 \in 1..Len(tree)
      OBVIOUS
    <3> QED BY <3>1, TreeParts
  <2>2. 0 \in 0..m /\ m + 1 - 0 = m + 1 /\ m - 0 = m
    OBVIOUS
  <2> QED BY <1>3, <1>5, <2>1, <2>2
<1>7. ASSUME NEW d \in 0..m - 1, d \in W PROVE d + 1 \in W
  <2>1. PICK k \in 1..m : k = m - d
    OBVIOUS
  <2>2. /\ m + 1 - d = k + 1 /\ m + 1 - (d + 1) = k /\ m - (d + 1) = k - 1
        /\ d + 1 \in 0..m /\ d + 1 \in 1..m /\ (d + 1) - 1 = d
        /\ k \in 1..Len(tree) /\ k \in 1..Len(tree) - 1
    BY <2>1
  <2>3. PICK level, step, i, c :
            level = tree[k] /\ step = proof.steps[k] /\ i = at[d] /\ c = step.child
    OBVIOUS
  <2>4. i \in 1..Len(tree[k + 1]) /\ hash[k] = tree[k + 1][i]
    BY <1>7, <2>1, <2>2, <2>3
  <2>5. hash[k] = SHA256(Children(step, hash[k - 1])) /\ tree[k + 1][i] = SHA256(Group(level, i, n))
    <3>1. hash[k] = SHA256(Children(proof.steps[k], hash[k - 1]))
      BY <1>4
    <3>2. \A j \in 1..Len(tree[k + 1]) : tree[k + 1][j] = SHA256(Group(tree[k], j, n))
      <4>1. k \in 1..Len(tree) - 1
        BY <2>2
      <4> QED BY <4>1, TreeNodes, Zenon
    <3> QED BY <2>3, <2>4, <3>1, <3>2
  <2>6. Children(step, hash[k - 1]) = Group(level, i, n)
    BY <2>4, <2>5, HashesDiffer
  <2>7. c \in 1..n /\ Proper(step.siblings) /\ Len(step.siblings) = n - 1
    BY <2>3
  <2>8. Children(step, hash[k - 1])[c] = hash[k - 1]
    <3>0. PICK s, e : s = step.siblings /\ e = hash[k - 1]
      OBVIOUS
    <3>1. Proper(s) /\ Len(s) = n - 1
      BY <2>7, <3>0
    <3>2. InsertAt(s, c, e) =
              [j \in 1..n |-> IF j < c THEN s[j] ELSE IF j = c THEN e ELSE s[j - 1]]
      BY <2>7, <3>1, InsertedAt
    <3>3. Children(step, e) = InsertAt(s, c, e)
      BY <2>3, <3>0 DEF Children
    <3> QED BY <2>7, <3>0, <3>2, <3>3
  <2>9. PICK l \in Nat \ {0} : l = Len(level)
    BY <2>2, <2>3, TreeParts
  <2>10. PICK q : q = Min({(i - 1) * n + c, l})
    OBVIOUS
  <2>11. Group(level, i, n)[c] = level[q]
    BY <2>7, <2>9, <2>10 DEF Group
  <2>12. q \in 1..l
    <3>1. i \in Nat /\ i >= 1
      <4>1. Len(tree[k + 1]) \in Nat
        BY <2>2, TreeParts
      <4> QED BY <2>4, <4>1
    <3>2. (i - 1) * n \in Nat
      BY <3>1
    <3>3. PICK a \in Nat : a = (i - 1) * n + c /\ a >= 1
      BY <2>7, <3>2
    <3>4. q = IF a <= l THEN a ELSE l
      BY <2>10, <3>3, SmallerOfTwo
    <3> QED BY <3>3, <3>4
  <2>13. at[d + 1] = q
    <3>1. at[d + 1] = Min({(at[d] - 1) * n + path[k], Len(tree[k])})
      BY <1>3, <2>2
    <3>2. path[k] = c
      BY <1>2, <2>3
    <3> QED BY <2>3, <2>9, <2>10, <3>1, <3>2
  <2>14. hash[k - 1] = level[q]
    BY <2>6, <2>8, <2>11
  <2> QED BY <2>2, <2>3, <2>9, <2>12, <2>13, <2>14
<1> HIDE DEF W
<1>8. m \in W
  <2>1. \A d \in 0..m : d \in W
    BY <1>6, <1>7, UpTo
  <2> QED BY <2>1
<1>9. at[m] \in 1..Len(leaves) /\ hash[0] = tree[1][at[m]]
  <2>1. m + 1 - m = 1 /\ m - m = 0
    OBVIOUS
  <2>2. Len(tree[1]) = Len(leaves)
    BY TreeParts
  <2> QED BY <1>8, <2>1, <2>2 DEF W
<1>10. LeafHash(proof.value) = LeafHash(leaves[at[m]])
  BY <1>4, <1>9, TreeNodes
<1>11. proof.value = leaves[at[m]]
  BY <1>10 DEF LeafHash
<1> QED BY <1>1, <1>3, <1>11

(* ProofOpensPosition, of any list.                                        *)
LEMMA AlteredOpens ==
    ASSUME NEW leaves, Proper(leaves), NEW n \in Nat, n >= 2, NEW tree,
           IsTree(tree, leaves, n), NEW p \in 1..Len(leaves),
           NEW proof, proof = GenerateProof(tree, leaves, p, n),
           NEW v, NEW path \in [DOMAIN proof.steps -> 1..n],
           VerifyProof(tree, Altered(proof, v, path), n)
    PROVE  leaves[Opened(tree, PathOf(Altered(proof, v, path)), n)] = v
<1> DEFINE altered == Altered(proof, v, path)
<1>0. PICK given, at : Issued(given, at, tree, leaves, p, n)
  BY IssuedProof
<1>1. Issued(proof, at, tree, leaves, p, n)
  <2>1. given = proof
    BY <1>0 DEF Issued
  <2> QED BY <1>0, <2>1
<1>2. PICK m \in Nat : Len(tree) = m + 1 /\ m = Len(tree) - 1
  <2>1. Len(tree) \in Nat \ {0}
    BY TreeParts, Zenon
  <2>2. PICK h \in Nat \ {0} : h = Len(tree)
    BY <2>1, Zenon
  <2>3. h - 1 \in Nat /\ h = (h - 1) + 1
    OBVIOUS
  <2> QED BY <2>2, <2>3
<1>3. /\ DOMAIN proof.steps = 1..m /\ DOMAIN path = 1..m
      /\ \A k \in 1..m : /\ Proper(proof.steps[k].siblings)
                         /\ Len(proof.steps[k].siblings) = n - 1
  BY <1>1, <1>2 DEF Issued
<1>4. \A k \in 1..m : "child" \in DOMAIN proof.steps[k] /\ "siblings" \in DOMAIN proof.steps[k]
  BY <1>2 DEF GenerateProof
<1>5. "value" \in DOMAIN proof /\ "steps" \in DOMAIN proof
  BY DEF GenerateProof
<1> DEFINE steps == [k \in 1..m |-> [proof.steps[k] EXCEPT !.child = path[k]]]
<1>6. altered.value = v /\ altered.steps = steps
  BY <1>3, <1>5 DEF Altered
<1> HIDE DEF altered
<1>7. \A k \in 1..m : steps[k].child = path[k] /\ steps[k].siblings = proof.steps[k].siblings
  BY <1>4
<1>8. Len(steps) = m /\ DOMAIN steps = 1..m
  <2>1. steps = [k \in 1..m |-> steps[k]]
    OBVIOUS
  <2> HIDE DEF steps
  <2> QED BY <2>1, LengthIs
<1> HIDE DEF steps
<1>9. ASSUME NEW k \in 1..m
      PROVE  /\ altered.steps[k].child \in 1..n
             /\ Proper(altered.steps[k].siblings)
             /\ Len(altered.steps[k].siblings) = n - 1
  <2>1. PICK s : s = proof.steps[k].siblings
    OBVIOUS
  <2>2. Proper(s) /\ Len(s) = n - 1
    BY <1>3, <2>1
  <2>3. altered.steps[k].child = path[k] /\ altered.steps[k].siblings = s
    BY <1>6, <1>7, <2>1
  <2>4. path[k] \in 1..n
    BY <1>3
  <2> QED BY <2>2, <2>3, <2>4
<1>10. Len(altered.steps) = m /\ DOMAIN altered.steps = 1..m
  BY <1>6, <1>8
<1>11. leaves[Opened(tree, PathOf(altered), n)] = altered.value
  <2>1. WellFormed(altered, n, m)
    BY <1>9, <1>10 DEF WellFormed
  <2>2. \A q : WellFormed(q, n, m) /\ VerifyProof(tree, q, n)
                   => leaves[Opened(tree, PathOf(q), n)] = q.value
    BY <1>2, AcceptedOpens
  <2>3. VerifyProof(tree, altered, n)
    BY DEF altered
  <2> QED BY <2>1, <2>2, <2>3
<1> QED BY <1>6, <1>11 DEF altered

(* A sibling and its node are the pair that is hashed, in this order.      *)
LEMMA SiblingInGroup ==
    ASSUME NEW level, Proper(level), NEW p \in 1..Len(level)
    PROVE  LET s == Sibling(level, p)
               g == Group(level, ParentAt(p, 2), 2)
           IN  /\ s.side = "L" => g = <<s.hash, level[p]>>
               /\ s.side # "L" => g = <<level[p], s.hash>>
               /\ s = [side |-> IF ((p - 1) % 2) + 1 = 1 THEN "R" ELSE "L",
                       hash |-> RemoveAt(g, ((p - 1) % 2) + 1)[1]]
<1> DEFINE i == ParentAt(p, 2)
           c == ((p - 1) % 2) + 1
           g == Group(level, i, 2)
           s == Sibling(level, p)
<1>1. PICK l \in Nat \ {0} : l = Len(level)
  BY ProperParts
<1>2. p \in 1..l /\ i = (p - 1) \div 2 + 1
  BY <1>1 DEF ParentAt
<1>3. /\ i \in 1..((l + 1) \div 2) /\ c \in 1..2
      /\ (p % 2 = 1 /\ c = 1 /\ p = 2 * i - 1) \/ (p % 2 # 1 /\ c = 2 /\ p = 2 * i)
  BY <1>2
<1> HIDE DEF i, c
<1>4. g = <<level[2 * i - 1], IF 2 * i <= l THEN level[2 * i] ELSE level[2 * i - 1]>>
  BY <1>1, <1>3, GroupOfTwo
<1>0. PICK n \in Nat \ {0} : n = 2
  OBVIOUS
<1>5. Proper(g) /\ Len(g) = n
  <2>1. g = [d \in 1..n |-> g[d]]
    BY <1>0 DEF g, Group
  <2> HIDE DEF g
  <2> QED BY <2>1, IsProper
<1>6. PICK r : r = RemoveAt(g, c) /\ r[1] = IF 1 < c THEN g[1] ELSE g[2]
  <2> HIDE DEF g
  <2>1. \A j \in 1..n - 1 : RemoveAt(g, c)[j] = IF j < c THEN g[j] ELSE g[j + 1]
    <3>1. n >= 2 /\ c \in 1..n
      BY <1>0, <1>3
    <3> QED BY <1>5, <3>1, RemovedAt
  <2>2. 1 \in 1..n - 1 /\ 1 + 1 = 2
    BY <1>0
  <2> QED BY <2>1, <2>2
<1>7. CASE p % 2 = 1 /\ c = 1 /\ p = 2 * i - 1
  <2>1. s = [side |-> "R", hash |-> level[IF p < l THEN p + 1 ELSE p]]
    BY <1>1, <1>7 DEF Sibling, IsLeft
  <2>2. (2 * i <= l <=> p < l) /\ 2 * i = p + 1
    BY <1>1, <1>2, <1>3, <1>7
  <2>3. g = <<level[p], level[IF p < l THEN p + 1 ELSE p]>>
    BY <1>4, <1>7, <2>2
  <2>4. r[1] = level[IF p < l THEN p + 1 ELSE p]
    BY <1>6, <1>7, <2>3
  <2>5. s.side = "R" /\ s.hash = level[IF p < l THEN p + 1 ELSE p]
    BY <2>1
  <2> HIDE DEF g, s
  <2> QED BY <1>6, <1>7, <2>1, <2>3, <2>4, <2>5 DEF g, s, i, c
<1>8. CASE p % 2 # 1 /\ c = 2 /\ p = 2 * i
  <2>1. s = [side |-> "L", hash |-> level[p - 1]]
    BY <1>8 DEF Sibling, IsLeft
  <2>2. 2 * i <= l /\ 2 * i - 1 = p - 1
    BY <1>1, <1>2, <1>8
  <2>3. g = <<level[p - 1], level[p]>>
    BY <1>4, <1>8, <2>2
  <2>4. r[1] = level[p - 1]
    BY <1>6, <1>8, <2>3
  <2>5. s.side = "L" /\ s.hash = level[p - 1]
    BY <2>1
  <2> HIDE DEF g, s
  <2> QED BY <1>6, <1>8, <2>1, <2>3, <2>4, <2>5 DEF g, s, i, c
<1> HIDE DEF g, s
<1> QED BY <1>3, <1>7, <1>8

(* The hashes a proof of MerkleTree makes.                                 *)
Paired(s, hash) == IF s.side = "L" THEN SHA256(<<s.hash, hash>>) ELSE SHA256(<<hash, s.hash>>)

(* The recursion of HashesOf defines the hashes level by level.            *)
LEMMA HashesOfSteps ==
    ASSUME NEW proof, NEW m \in Nat \ {0}, Len(proof) = m
    PROVE  /\ HashesOf(proof)[1] = proof[1].hash
           /\ \A k \in 1..m - 1 : HashesOf(proof)[k + 1] = Paired(proof[k + 1], HashesOf(proof)[k])
<1> DEFINE Upto(b, f) ==
        f = [k \in 1..b |-> IF k = 1 THEN proof[1].hash ELSE Paired(proof[k], f[k - 1])]
           W == {b \in Nat : \E f : Upto(b, f)}
<1> HIDE DEF Paired
<1>1. 1 \in W
  <2> DEFINE f == [k \in 1..1 |-> proof[1].hash]
  <2>1. Upto(1, f)
    OBVIOUS
  <2> QED BY <2>1
<1>2. ASSUME NEW b \in 1..m - 1, b \in W PROVE b + 1 \in W
  <2>1. PICK f : Upto(b, f)
    BY <1>2
  <2> DEFINE g == [k \in 1..b + 1 |-> IF k <= b THEN f[k] ELSE Paired(proof[b + 1], f[b])]
  <2>2. ASSUME NEW k \in 1..b + 1
        PROVE  g[k] = IF k = 1 THEN proof[1].hash ELSE Paired(proof[k], g[k - 1])
    <3>1. CASE k = 1
      BY <2>1, <3>1
    <3>2. CASE k \in 2..b
      <4>1. f[k] = Paired(proof[k], f[k - 1])
        BY <2>1, <3>2
      <4>2. g[k] = f[k] /\ g[k - 1] = f[k - 1] /\ k # 1
        BY <3>2
      <4> QED BY <4>1, <4>2
    <3>3. CASE k = b + 1
      <4>1. g[k] = Paired(proof[k], f[b]) /\ g[k - 1] = f[b] /\ k # 1
        BY <3>3
      <4> QED BY <4>1
    <3> QED BY <3>1, <3>2, <3>3
  <2>3. g = [k \in 1..b + 1 |-> g[k]]
    OBVIOUS
  <2> HIDE DEF g
  <2>4. Upto(b + 1, g)
    BY <2>2, <2>3
  <2> QED BY <2>4
<1>3. m \in W
  <2> HIDE DEF W
  <2>1. \A b \in 1..m : b \in W
    BY <1>1, <1>2, UpTo
  <2> QED BY <2>1
<1>4. HashesOf(proof) = CHOOSE f : Upto(m, f)
  BY DEF HashesOf, Paired
<1>5. PICK hash : Upto(m, hash) /\ hash = HashesOf(proof)
  BY <1>3, <1>4
<1> HIDE DEF W
<1>6. hash[1] = proof[1].hash /\ \A k \in 1..m - 1 : hash[k + 1] = Paired(proof[k + 1], hash[k])
  BY <1>5
<1> QED BY <1>5, <1>6

(* A proof of MerkleTree leads from its leaf to the root of its tree.      *)
LEMMA ProverLeadsToRoot ==
    ASSUME NEW leaves, Proper(leaves), NEW tree, IsTree(tree, leaves, 2), NEW p \in 1..Len(leaves)
    PROVE  /\ Proper(ProverBlock(tree, p)) /\ Len(ProverBlock(tree, p)) = Len(tree)
           /\ HashesOf(ProverBlock(tree, p))[Len(tree)] = RootOf(tree)
<1>0. 2 \in Nat /\ 2 >= 2
  OBVIOUS
<1>1. PICK at : /\ at = PositionsOf(p, 2, Len(tree)) /\ at[1] = p
                /\ \A k \in 1..Len(tree) - 1 : at[k + 1] = ParentAt(at[k], 2)
                /\ \A k \in 1..Len(tree) : at[k] \in 1..Len(tree[k])
                /\ at[Len(tree)] = 1
  BY <1>0, PositionsInLevels
<1>2. PICK m \in Nat \ {0} : m = Len(tree)
  BY <1>0, TreeParts
<1>3. PICK proof : proof = ProverBlock(tree, p)
  OBVIOUS
<1> DEFINE entries ==
        [k \in 1..m |-> IF k > 1 THEN Sibling(tree[k - 1], at[k - 1])
            ELSE [side |-> IF Len(tree) = 1 \/ IsLeft(p) THEN "L" ELSE "R", hash |-> tree[1][p]]]
<1>4. proof = entries
  BY <1>1, <1>2, <1>3 DEF ProverBlock
<1>5. Proper(proof) /\ Len(proof) = m
  <2>1. entries = [k \in 1..m |-> entries[k]]
    OBVIOUS
  <2> HIDE DEF entries
  <2> QED BY <1>4, <2>1, IsProper
<1>6. proof[1].hash = tree[1][p]
  BY <1>4
<1>7. \A k \in 1..m - 1 : proof[k + 1] = Sibling(tree[k], at[k])
  BY <1>4
<1>8. PICK hash : /\ hash = HashesOf(proof) /\ hash[1] = proof[1].hash
                  /\ \A k \in 1..m - 1 : hash[k + 1] = Paired(proof[k + 1], hash[k])
  <2>1. /\ HashesOf(proof)[1] = proof[1].hash
        /\ \A k \in 1..m - 1 :
              HashesOf(proof)[k + 1] = Paired(proof[k + 1], HashesOf(proof)[k])
    BY <1>2, <1>5, HashesOfSteps
  <2> QED BY <2>1
<1> DEFINE W == {k \in 1..m : hash[k] = tree[k][at[k]]}
<1>9. 1 \in W
  BY <1>1, <1>6, <1>8
<1>10. ASSUME NEW k \in 1..m - 1, k \in W PROVE k + 1 \in W
  <2>1. k \in 1..Len(tree) - 1 /\ k \in 1..m /\ k + 1 \in 1..m /\ k + 1 \in 1..Len(tree)
    BY <1>2
  <2>2. PICK level, q, s :
            level = tree[k] /\ q = at[k] /\ s = Sibling(level, q)
    OBVIOUS
  <2>3. Proper(level) /\ q \in 1..Len(level)
    BY <1>1, <1>2, <2>1, <2>2 DEF IsTree
  <2>4. /\ s.side = "L" => Group(level, ParentAt(q, 2), 2) = <<s.hash, level[q]>>
        /\ s.side # "L" => Group(level, ParentAt(q, 2), 2) = <<level[q], s.hash>>
    BY <2>2, <2>3, SiblingInGroup
  <2>5. hash[k] = level[q]
    BY <1>10, <2>2
  <2>6. hash[k + 1] = Paired(s, level[q])
    BY <1>7, <1>8, <2>2, <2>5
  <2>7. hash[k + 1] = SHA256(Group(level, ParentAt(q, 2), 2))
    BY <2>4, <2>6 DEF Paired
  <2>8. \A j \in 1..Len(tree[k + 1]) : tree[k + 1][j] = SHA256(Group(tree[k], j, 2))
    <3>1. ASSUME NEW n \in Nat, n >= 2, IsTree(tree, leaves, n)
          PROVE  \A j \in 1..Len(tree[k + 1]) : tree[k + 1][j] = SHA256(Group(tree[k], j, n))
      <4>1. k \in 1..Len(tree) - 1
        BY <2>1
      <4> QED BY <3>1, <4>1, TreeNodes, Zenon
    <3> QED BY <1>0, <3>1
  <2>9. at[k + 1] \in 1..Len(tree[k + 1]) /\ at[k + 1] = ParentAt(q, 2)
    BY <1>1, <2>1, <2>2
  <2> QED BY <2>1, <2>2, <2>7, <2>8, <2>9
<1> HIDE DEF W
<1>11. m \in W
  <2>1. \A k \in 1..m : k \in W
    BY <1>9, <1>10, UpTo
  <2> QED BY <2>1
<1>12. hash[m] = RootOf(tree)
  BY <1>1, <1>2, <1>11 DEF RootOf, W
<1> QED BY <1>2, <1>3, <1>5, <1>8, <1>12

(* So it verifies against a root when that is the root of its tree.        *)
LEMMA Verifies ==
    ASSUME NEW leaves, Proper(leaves), NEW tree, IsTree(tree, leaves, 2),
           NEW p \in 1..Len(leaves), NEW root
    PROVE  Verify(root, ProverBlock(tree, p)) <=> root = RootOf(tree)
<1>1. PICK proof : proof = ProverBlock(tree, p)
  OBVIOUS
<1>2. Proper(proof) /\ Len(proof) = Len(tree) /\ HashesOf(proof)[Len(tree)] = RootOf(tree)
  BY <1>1, ProverLeadsToRoot
<1>3. proof # <<>>
  BY <1>2, ProperParts
<1> QED BY <1>1, <1>2, <1>3 DEF Verify

(* MerkleTree, the display tree and the N-ary tree with two children are   *)
(* one tree.                                                               *)
LEMMA BlocksTree ==
    ASSUME NEW leaves, Proper(leaves)
    PROVE  /\ IsTree(BuildFromBlocks(leaves), leaves, 2)
           /\ DisplayTree(leaves) = BuildFromBlocks(leaves)
           /\ NTree(leaves, 2) = BuildFromBlocks(leaves)
<1>1. /\ DisplayTree(leaves) = BuildFromBlocks(leaves)
      /\ NTree(leaves, 2) = BuildFromBlocks(leaves)
  BY TreesOfLevels
<1>2. 2 \in Nat /\ 2 >= 2
  OBVIOUS
<1>3. IsTree(NTree(leaves, 2), leaves, 2)
  BY <1>2, NTreeIsTree
<1> QED BY <1>1, <1>3

(* The proofs of MerkleTree and of the N-ary tree with two children.       *)
LEMMA ProofsAgree ==
    ASSUME NEW leaves, Proper(leaves), NEW tree, IsTree(tree, leaves, 2),
           NEW p \in 1..Len(leaves)
    PROVE  LET steps == GenerateProof(tree, leaves, p, 2).steps
           IN  Tail(ProverBlock(tree, p)) =
                   [k \in DOMAIN steps |->
                       [side |-> IF steps[k].child = 1 THEN "R" ELSE "L",
                        hash |-> steps[k].siblings[1]]]
<1>0. 2 \in Nat /\ 2 >= 2
  OBVIOUS
<1>1. PICK at : /\ at = PositionsOf(p, 2, Len(tree)) /\ at[1] = p
                /\ \A k \in 1..Len(tree) - 1 : at[k + 1] = ParentAt(at[k], 2)
                /\ \A k \in 1..Len(tree) : at[k] \in 1..Len(tree[k])
                /\ at[Len(tree)] = 1
  BY <1>0, PositionsInLevels
<1>2. PICK m \in Nat : m = Len(tree) - 1 /\ Len(tree) = m + 1
  <2>1. Len(tree) \in Nat \ {0}
    BY <1>0, TreeParts
  <2> QED BY <2>1
<1>3. PICK proof : proof = ProverBlock(tree, p)
  OBVIOUS
<1>4. Proper(proof) /\ Len(proof) = m + 1
  BY <1>2, <1>3, ProverLeadsToRoot
<1>5. \A k \in 1..m : proof[k + 1] = Sibling(tree[k], at[k])
  BY <1>1, <1>2, <1>3 DEF ProverBlock
<1>6. Tail(proof) = [k \in 1..m |-> proof[k + 1]]
  <2>1. proof \in Seq({proof[i] : i \in 1..Len(proof)}) /\ proof # <<>>
    BY <1>4, ProperParts
  <2>2. PICK t : t = Tail(proof)
    OBVIOUS
  <2>3. /\ t \in Seq({proof[i] : i \in 1..Len(proof)}) /\ Len(t) = Len(proof) - 1
        /\ \A i \in 1..Len(t) : t[i] = proof[i + 1]
    BY <2>1, <2>2, HeadTailProperties
  <2>4. Len(t) = m
    BY <1>4, <2>3
  <2>5. t = [i \in 1..m |-> t[i]]
    BY <2>3, <2>4
  <2> QED BY <2>2, <2>3, <2>4, <2>5
<1> DEFINE steps == GenerateProof(tree, leaves, p, 2).steps
<1>7. steps = [k \in 1..m |->
            LET child == ((at[k] - 1) % 2) + 1
            IN  [child |-> child,
                 siblings |-> RemoveAt(Group(tree[k], ParentAt(at[k], 2), 2), child)]]
  BY <1>1, <1>2 DEF GenerateProof
<1>8. ASSUME NEW k \in 1..m
      PROVE  proof[k + 1] = [side |-> IF steps[k].child = 1 THEN "R" ELSE "L",
                             hash |-> steps[k].siblings[1]]
  <2>1. PICK level, q, c, g :
            /\ level = tree[k] /\ q = at[k] /\ c = ((q - 1) % 2) + 1
            /\ g = Group(level, ParentAt(q, 2), 2)
    OBVIOUS
  <2>2. k \in 1..Len(tree)
    BY <1>2
  <2>3. Proper(level) /\ q \in 1..Len(level)
    BY <1>1, <2>1, <2>2 DEF IsTree
  <2>4. Sibling(level, q) = [side |-> IF c = 1 THEN "R" ELSE "L", hash |-> RemoveAt(g, c)[1]]
    BY <2>1, <2>3, SiblingInGroup
  <2>5. steps[k].child = c /\ steps[k].siblings = RemoveAt(g, c)
    BY <1>7, <2>1
  <2> QED BY <1>5, <2>1, <2>4, <2>5
<1> HIDE DEF steps
<1>9. DOMAIN steps = 1..m
  BY <1>7
<1> QED BY <1>3, <1>6, <1>8, <1>9 DEF steps

-----------------------------------------------------------------------------
Differ(s) == \A i, j \in 1..Len(s) : s[i] = s[j] => i = j

(* Nodes of different nodes differ, and then a level is known by the one   *)
(* above: only a last node without a neighbour is paired with itself.      *)
LEMMA FirstOfGroup ==
    ASSUME NEW level, Proper(level), NEW i \in 1..((Len(level) + 1) \div 2)
    PROVE  /\ 2 * i - 1 \in 1..Len(level)
           /\ Group(level, i, 2)[1] = level[2 * i - 1]
           /\ Group(level, i, 2)[2] = level[IF 2 * i <= Len(level) THEN 2 * i ELSE 2 * i - 1]
BY GroupOfTwo

(* Different nodes below make different nodes above: the first of a group  *)
(* decides.                                                                *)
LEMMA AboveDiffer ==
    ASSUME NEW level, Proper(level), Differ(level)
    PROVE  Differ(Above(level, 2))
<1>1. PICK l \in Nat \ {0} : l = Len(level)
  BY ProperParts
<1>2. PICK y : y = Above(level, 2)
  OBVIOUS
<1>3. /\ Len(y) = (l + 1) \div 2
      /\ \A i \in 1..((l + 1) \div 2) : y[i] = SHA256(Group(level, i, 2))
  <2>1. 2 \in Nat /\ 2 >= 2 /\ (l + 2 - 1) \div 2 = (l + 1) \div 2
    BY <1>1
  <2>2. Len(y) = Groups(l, 2) /\ \A i \in 1..Len(y) : y[i] = SHA256(Group(level, i, 2))
    BY <1>1, <1>2, <2>1, AboveIsProper
  <2>3. Groups(l, 2) = (l + 1) \div 2
    BY <2>1 DEF Groups
  <2> QED BY <2>2, <2>3
<1>4. ASSUME NEW i \in 1..((l + 1) \div 2), NEW j \in 1..((l + 1) \div 2), y[i] = y[j]
      PROVE  i = j
  <2>1. Group(level, i, 2) = Group(level, j, 2)
    BY <1>3, <1>4, HashesDiffer
  <2>2. level[2 * i - 1] = level[2 * j - 1] /\ 2 * i - 1 \in 1..l /\ 2 * j - 1 \in 1..l
    BY <1>1, <2>1, FirstOfGroup
  <2>3. 2 * i - 1 = 2 * j - 1
    BY <1>1, <2>2 DEF Differ
  <2> QED BY <2>3
<1> QED BY <1>2, <1>3, <1>4 DEF Differ

(* Two levels without repetition that have the same level above are the    *)
(* same.                                                                   *)
LEMMA BelowIsKnown ==
    ASSUME NEW x, Proper(x), Differ(x), NEW y, Proper(y), Differ(y),
           Above(x, 2) = Above(y, 2)
    PROVE  x = y
<1>1. PICK a \in Nat \ {0}, b \in Nat \ {0} : a = Len(x) /\ b = Len(y)
  BY ProperParts
<1>2. PICK h : h = (a + 1) \div 2 /\ h = (b + 1) \div 2 /\ h \in Nat \ {0}
  <2>1. PICK u, w : u = Above(x, 2) /\ w = Above(y, 2)
    OBVIOUS
  <2>2. Len(u) = (a + 2 - 1) \div 2 /\ Len(w) = (b + 2 - 1) \div 2
    <3>1. 2 \in Nat /\ 2 >= 2
      OBVIOUS
    <3> QED BY <1>1, <2>1, <3>1, AboveIsProper DEF Groups
  <2>3. PICK h, g : h = (a + 1) \div 2 /\ g = (b + 1) \div 2
    OBVIOUS
  <2>4. a + 2 - 1 = a + 1 /\ b + 2 - 1 = b + 1 /\ h \in Nat \ {0}
    BY <2>3
  <2>5. h = g
    BY <2>1, <2>2, <2>3, <2>4, Zenon
  <2> QED BY <2>3, <2>4, <2>5
<1>3. \A i \in 1..h : Group(x, i, 2) = Group(y, i, 2)
  <2>1. /\ Above(x, 2) = [i \in 1..h |-> SHA256(Group(x, i, 2))]
        /\ Above(y, 2) = [i \in 1..h |-> SHA256(Group(y, i, 2))]
    BY <1>1, <1>2 DEF Above
  <2>2. \A i \in 1..h : SHA256(Group(x, i, 2)) = SHA256(Group(y, i, 2))
    BY <2>1
  <2> QED BY <2>2, HashesDiffer
<1>4. ASSUME NEW i \in 1..h
      PROVE  /\ 2 * i - 1 \in 1..a /\ 2 * i - 1 \in 1..b
             /\ x[2 * i - 1] = y[2 * i - 1]
             /\ x[IF 2 * i <= a THEN 2 * i ELSE 2 * i - 1] = y[IF 2 * i <= b THEN 2 * i ELSE 2 * i - 1]
  BY <1>1, <1>2, <1>3, FirstOfGroup
<1>5. a = b
  <2>1. h \in 1..h /\ (a = 2 * h \/ a = 2 * h - 1) /\ (b = 2 * h \/ b = 2 * h - 1)
    BY <1>2
  <2>2. CASE a = 2 * h /\ b = 2 * h - 1
    <3>1. x[2 * h - 1] = y[2 * h - 1] /\ x[2 * h] = y[2 * h - 1]
      BY <1>4, <2>1, <2>2
    <3>2. 2 * h - 1 = 2 * h
      BY <1>1, <1>2, <2>2, <3>1 DEF Differ
    <3> QED BY <1>2, <3>2
  <2>3. CASE b = 2 * h /\ a = 2 * h - 1
    <3>1. x[2 * h - 1] = y[2 * h - 1] /\ y[2 * h] = x[2 * h - 1]
      BY <1>4, <2>1, <2>3
    <3>2. 2 * h - 1 = 2 * h
      BY <1>1, <1>2, <2>3, <3>1 DEF Differ
    <3> QED BY <1>2, <3>2
  <2> QED BY <2>1, <2>2, <2>3
<1>6. ASSUME NEW j \in 1..a PROVE x[j] = y[j]
  <2>1. PICK i \in 1..h : j = 2 * i - 1 \/ j = 2 * i
    <3>1. (j + 1) \div 2 \in 1..h /\ (j = 2 * ((j + 1) \div 2) - 1 \/ j = 2 * ((j + 1) \div 2))
      BY <1>2
    <3> QED BY <3>1
  <2>2. CASE j = 2 * i - 1
    BY <1>4, <2>2
  <2>3. CASE j = 2 * i
    <3>1. 2 * i <= a /\ 2 * i <= b
      BY <1>5, <2>3
    <3> QED BY <1>4, <2>3, <3>1
  <2> QED BY <2>1, <2>2, <2>3
<1>7. x = [j \in 1..a |-> x[j]] /\ y = [j \in 1..a |-> y[j]]
  BY <1>1, <1>5, ProperParts
<1> QED BY <1>6, <1>7

(* No level above distinct leaves repeats a node.                          *)
LEMMA NodesDiffer ==
    ASSUME NEW leaves, Proper(leaves), Differ(leaves), NEW tree, IsTree(tree, leaves, 2)
    PROVE  \A k \in 1..Len(tree) : Differ(tree[k])
<1>0. 2 \in Nat /\ 2 >= 2
  OBVIOUS
<1>1. PICK m \in Nat \ {0} : m = Len(tree)
  BY <1>0, TreeParts
<1> DEFINE W == {k \in 1..m : Differ(tree[k])}
<1>2. 1 \in W
  <2>1. PICK x : x = tree[1]
    OBVIOUS
  <2>2. Len(x) = Len(leaves) /\ \A i \in 1..Len(leaves) : x[i] = LeafHash(leaves[i])
    BY <1>0, <2>1, TreeParts, TreeNodes
  <2>3. Differ(x)
    BY <2>2, HashesDiffer DEF Differ
  <2> QED BY <1>1, <2>1, <2>3
<1>3. ASSUME NEW k \in 1..m - 1, k \in W PROVE k + 1 \in W
  <2>1. k \in 1..m /\ k + 1 \in 1..m
    OBVIOUS
  <2>2. Proper(tree[k]) /\ Differ(tree[k]) /\ tree[k + 1] = Above(tree[k], 2)
    BY <1>1, <1>3, <2>1 DEF IsTree
  <2> QED BY <2>1, <2>2, AboveDiffer
<1> HIDE DEF W
<1>4. \A k \in 1..m : k \in W
  BY <1>2, <1>3, UpTo
<1> QED BY <1>1, <1>4 DEF W

(* A level of leaves is no level above leaves.                             *)
LEMMA LeavesAreNoNodes ==
    ASSUME NEW a, Proper(a), NEW A, IsTree(A, a, 2), NEW b, Proper(b), NEW B, IsTree(B, b, 2),
           NEW k \in 2..Len(B)
    PROVE  A[1] # B[k]
<1>0. 2 \in Nat /\ 2 >= 2
  OBVIOUS
<1>1. PICK h \in Nat \ {0} : h = Len(B)
  BY <1>0, TreeParts
<1>2. PICK j \in Nat : k = j + 1 /\ j \in 1..Len(B) - 1 /\ k \in 1..Len(B)
  <2>1. k - 1 \in Nat /\ k = (k - 1) + 1 /\ k - 1 \in 1..Len(B) - 1 /\ k \in 1..Len(B)
    BY <1>1
  <2> QED BY <2>1
<1>3. B[k][1] = SHA256(Group(B[j], 1, 2))
  <2>1. \A i \in 1..Len(B[j + 1]) : B[j + 1][i] = SHA256(Group(B[j], i, 2))
    BY <1>0, <1>2, TreeNodes
  <2>2. Len(B[k]) \in Nat \ {0}
    BY <1>0, <1>2, TreeParts
  <2>3. 1 \in 1..Len(B[k])
    BY <2>2
  <2> QED BY <1>2, <2>1, <2>3
<1>4. A[1][1] = LeafHash(a[1])
  <2>1. Len(a) \in Nat \ {0}
    BY ProperParts
  <2>2. \A i \in 1..Len(a) : A[1][i] = LeafHash(a[i])
    BY <1>0, TreeNodes
  <2> QED BY <2>1, <2>2
<1> QED BY <1>3, <1>4, HashesDiffer

(* Trees of lists without repetition that have the same root are the same, *)
(* from the root down.                                                     *)
LEMMA RootsDecide ==
    ASSUME NEW a, Proper(a), Differ(a), NEW A, IsTree(A, a, 2),
           NEW b, Proper(b), Differ(b), NEW B, IsTree(B, b, 2), RootOf(A) = RootOf(B)
    PROVE  a = b
<1>0. 2 \in Nat /\ 2 >= 2
  OBVIOUS
<1>1. PICK g \in Nat \ {0} : g = Len(A)
  BY <1>0, TreeParts
<1>2. PICK h \in Nat \ {0} : h = Len(B)
  BY <1>0, TreeParts
<1>3. PICK c \in Nat : c < g /\ c < h /\ (c = g - 1 \/ c = h - 1)
  <2>1. CASE g <= h
    <3>1. g - 1 \in Nat /\ g - 1 < g /\ g - 1 < h
      BY <2>1
    <3> QED BY <3>1
  <2>2. CASE h <= g
    <3>1. h - 1 \in Nat /\ h - 1 < h /\ h - 1 < g
      BY <2>2
    <3> QED BY <3>1
  <2> QED BY <2>1, <2>2
<1> DEFINE W == {d \in 0..c : A[g - d] = B[h - d]}
<1>4. 0 \in W
  <2>1. PICK x, y : x = A[g] /\ y = B[h]
    OBVIOUS
  <2>2. Proper(x) /\ Proper(y) /\ x[1] = y[1]
    BY <1>1, <1>2, <2>1 DEF IsTree, RootOf
  <2>3. Len(x) <= 1 /\ Len(y) <= 1
    BY <1>1, <1>2, <2>1 DEF IsTree
  <2>4. PICK l \in Nat \ {0}, m \in Nat \ {0} : l = Len(x) /\ m = Len(y)
    BY <2>2, ProperParts
  <2>5. l <= 1 /\ m <= 1
    BY <2>3, <2>4
  <2>6. l = 1 /\ m = l
    BY <2>5
  <2>7. x = [i \in 1..l |-> x[i]] /\ y = [i \in 1..m |-> y[i]]
    BY <2>2, <2>4, ProperParts
  <2>8. \A i \in 1..l : x[i] = y[i]
    BY <2>2, <2>6
  <2>9. x = y
    BY <2>6, <2>7, <2>8
  <2>10. g - 0 = g /\ h - 0 = h /\ 0 \in 0..c
    OBVIOUS
  <2> QED BY <2>1, <2>9, <2>10
<1>5. ASSUME NEW d \in 0..c - 1, d \in W PROVE d + 1 \in W
  <2>1. PICK i, j : i = g - (d + 1) /\ j = h - (d + 1)
    OBVIOUS
  <2>2. /\ i \in 1..g - 1 /\ i \in 1..g /\ i + 1 = g - d
        /\ j \in 1..h - 1 /\ j \in 1..h /\ j + 1 = h - d /\ d + 1 \in 0..c
    BY <1>3, <2>1
  <2>3. PICK x, y : x = A[i] /\ y = B[j]
    OBVIOUS
  <2>4. /\ Proper(x) /\ Proper(y)
        /\ A[i + 1] = Above(x, 2) /\ B[j + 1] = Above(y, 2)
    BY <1>1, <1>2, <2>2, <2>3 DEF IsTree
  <2>5. Differ(x) /\ Differ(y)
    <3>1. \A k \in 1..Len(A) : Differ(A[k])
      BY NodesDiffer
    <3>2. \A k \in 1..Len(B) : Differ(B[k])
      BY NodesDiffer
    <3> QED BY <1>1, <1>2, <2>2, <2>3, <3>1, <3>2
  <2>6. Above(x, 2) = Above(y, 2)
    BY <1>5, <2>2, <2>4
  <2>7. x = y
    BY <2>4, <2>5, <2>6, BelowIsKnown
  <2> QED BY <2>1, <2>2, <2>3, <2>7
<1> HIDE DEF W
<1>6. A[g - c] = B[h - c]
  <2>1. \A d \in 0..c : d \in W
    BY <1>4, <1>5, UpTo
  <2>2. c \in 0..c
    OBVIOUS
  <2> QED BY <2>1, <2>2 DEF W
<1>7. CASE c = g - 1 /\ c = h - 1
  <2>1. g - c = 1 /\ h - c = 1
    BY <1>7
  <2>2. PICK x : x = A[1] /\ x = B[1]
    BY <1>6, <2>1
  <2>3. Len(x) = Len(a) /\ \A i \in 1..Len(a) : x[i] = LeafHash(a[i])
    <3>1. x = LeafHashes(a)
      BY <2>2 DEF IsTree
    <3> QED BY <3>1, LeafHashesAreProper
  <2>4. Len(x) = Len(b) /\ \A i \in 1..Len(b) : x[i] = LeafHash(b[i])
    <3>1. x = LeafHashes(b)
      BY <2>2 DEF IsTree
    <3> QED BY <3>1, LeafHashesAreProper
  <2>5. PICK l : l = Len(a) /\ l = Len(b)
    BY <2>3, <2>4, Zenon
  <2>6. \A i \in 1..l : a[i] = b[i]
    BY <2>3, <2>4, <2>5, HashesDiffer
  <2>7. a = [i \in 1..l |-> a[i]] /\ b = [i \in 1..l |-> b[i]]
    BY <2>5, ProperParts
  <2> QED BY <2>6, <2>7
<1>8. CASE c = g - 1 /\ c # h - 1
  <2>1. g - c = 1 /\ h - c \in 2..Len(B)
    BY <1>2, <1>3, <1>8
  <2> QED BY <1>6, <2>1, LeavesAreNoNodes
<1>9. CASE c # g - 1 /\ c = h - 1
  <2>1. h - c = 1 /\ g - c \in 2..Len(A)
    BY <1>1, <1>3, <1>9
  <2> QED BY <1>6, <2>1, LeavesAreNoNodes
<1> QED BY <1>3, <1>7, <1>8, <1>9

-----------------------------------------------------------------------------
(* The session.                                                            *)
Shown(count) == [i \in 1..count |-> blockList[i]]
SessionInv ==
    /\ blockList \in Seq(Values) /\ blockList # <<>> /\ Len(blockList) <= MaxBlocks
    /\ strResult # <<>> =>
           /\ asked.of \in 1..Len(blockList) /\ asked.position \in 1..asked.of
           /\ strResult = ProverBlock(BuildFromBlocks(Shown(asked.of)), asked.position)

(* The session has at least one block, and every prefix of its blocks is a *)
(* list of leaves.                                                         *)
LEMMA BlocksAreProper ==
    ASSUME blockList \in Seq(Values), blockList # <<>>
    PROVE  /\ Proper(blockList) /\ Len(blockList) \in Nat \ {0} /\ DOMAIN blockList = 1..Len(blockList)
           /\ Shown(Len(blockList)) = blockList
           /\ \A count \in 1..Len(blockList) :
                 Proper(Shown(count)) /\ Len(Shown(count)) = count
<1>1. PICK l \in Nat : l = Len(blockList) /\ DOMAIN blockList = 1..l
  BY LenProperties
<1>2. l # 0
  BY <1>1, EmptySeq
<1>3. blockList = [i \in 1..l |-> blockList[i]]
  BY <1>1, SeqDef
<1>4. ASSUME NEW count \in 1..l PROVE Proper(Shown(count)) /\ Len(Shown(count)) = count
  <2>1. Shown(count) = [i \in 1..count |-> Shown(count)[i]] /\ count \in Nat \ {0}
    BY DEF Shown
  <2> QED BY <2>1, IsProper
<1>5. Proper(blockList)
  BY <1>2, <1>3 DEF Proper
<1> QED BY <1>1, <1>2, <1>3, <1>4, <1>5 DEF Shown

(* The inductive invariant of the session: appending keeps the blocks a    *)
(* proof was taken from as a prefix.                                       *)
LEMMA SessionInductive == SessionSpec => []SessionInv
<1>1. SessionInit => SessionInv
  BY BlockBoundAssumption DEF SessionInit, SessionInv
<1>2. ASSUME SessionInv, [SessionNext]_sessionVars PROVE SessionInv'
  <2> USE <1>2
  <2>0. PICK l \in Nat \ {0} : l = Len(blockList) /\ DOMAIN blockList = 1..l
    BY BlocksAreProper DEF SessionInv
  <2>1. ASSUME NEW v \in Values, AppendBlock(v) PROVE SessionInv'
    <3>1. /\ blockList' = Append(blockList, v) /\ strResult' = strResult /\ asked' = asked
          /\ blockList \in Seq(Values) /\ l < MaxBlocks
      BY <2>0, <2>1 DEF AppendBlock, SessionInv
    <3>2. /\ blockList' \in Seq(Values) /\ blockList' # <<>> /\ Len(blockList') = l + 1
          /\ \A i \in 1..l : blockList'[i] = blockList[i]
      BY <2>0, <3>1, AppendProperties
    <3>3. Len(blockList') <= MaxBlocks
      BY <3>1, <3>2, BlockBoundAssumption
    <3>4. ASSUME strResult # <<>>
          PROVE  /\ asked'.of \in 1..Len(blockList') /\ asked'.position \in 1..asked'.of
                 /\ strResult' = ProverBlock(BuildFromBlocks(Shown(asked.of)'), asked'.position)
      <4>1. PICK count, p : count = asked.of /\ p = asked.position
        OBVIOUS
      <4>2. /\ count \in 1..l /\ p \in 1..count
            /\ strResult = ProverBlock(BuildFromBlocks(Shown(count)), p)
        BY <2>0, <3>4, <4>1 DEF SessionInv
      <4>3. Shown(count)' = Shown(count)
        BY <3>2, <4>1, <4>2 DEF Shown
      <4> QED BY <3>1, <3>2, <4>1, <4>2, <4>3
    <3> QED BY <3>1, <3>2, <3>3, <3>4 DEF SessionInv
  <2>2. ASSUME NEW p \in 1..(MaxBlocks + 1), Request(p) PROVE SessionInv'
    <3>1. blockList' = blockList
      BY <2>2 DEF Request
    <3>2. CASE p \in DOMAIN blockList
      <4>1. /\ strResult' = ProverBlock(BuildFromBlocks(blockList), p)
            /\ asked'.of = l /\ asked'.position = p /\ p \in 1..l /\ l \in 1..l
        BY <2>0, <2>2, <3>2 DEF Request
      <4>2. Shown(l)' = blockList
        <5>1. Shown(l)' = Shown(l)
          BY <3>1 DEF Shown
        <5> QED BY <2>0, <5>1, BlocksAreProper DEF SessionInv
      <4> QED BY <2>0, <3>1, <4>1, <4>2 DEF SessionInv
    <3>3. CASE p \notin DOMAIN blockList
      BY <2>2, <3>1, <3>3 DEF Request, SessionInv
    <3> QED BY <3>2, <3>3
  <2>3. CASE UNCHANGED sessionVars
    BY <2>3 DEF sessionVars, SessionInv, Shown
  <2> QED BY <2>1, <2>2, <2>3 DEF SessionNext
<1> QED BY <1>1, <1>2, PTL DEF SessionSpec

(* Leaves without repetition, in the terms of the model and of the proofs. *)
LEMMA DistinctDiffer ==
    ASSUME NEW s, Proper(s)
    PROVE  Distinct(s) <=> Differ(s)
<1>1. DOMAIN s = 1..Len(s)
  BY ProperParts
<1> QED BY <1>1 DEF Distinct, Differ

(* Whatever was appended since it was requested, a proof of MerkleTree     *)
(* verifies as long as nothing was, and among distinct blocks only then;   *)
(* every Block is committed with its verified flag set.                    *)
THEOREM ProofsVerify == SessionSpec => []ProofVerifiesUntilAppend
<1>1. ASSUME SessionInv PROVE ProofVerifiesUntilAppend
  <2>1. /\ Proper(blockList) /\ DOMAIN blockList = 1..Len(blockList)
        /\ Shown(Len(blockList)) = blockList
        /\ \A count \in 1..Len(blockList) : Proper(Shown(count)) /\ Len(Shown(count)) = count
    BY <1>1, BlocksAreProper DEF SessionInv
  <2>2. PICK tree : tree = BuildFromBlocks(blockList) /\ IsTree(tree, blockList, 2)
    BY <2>1, BlocksTree
  <2>3. \A p \in 1..Len(blockList) : Verify(RootOf(tree), ProverBlock(tree, p))
    BY <2>1, <2>2, Verifies
  <2>4. BuildBlockMerkle(blockList).verified
    BY <2>1, <2>2, <2>3 DEF BuildBlockMerkle
  <2>5. ASSUME strResult # <<>>
        PROVE  /\ asked.of = Len(blockList) => Verify(RootOf(tree), strResult)
               /\ Distinct(blockList) =>
                      (Verify(RootOf(tree), strResult) <=> asked.of = Len(blockList))
    <3>1. PICK count, p :
              /\ count = asked.of /\ count \in 1..Len(blockList) /\ p \in 1..count
              /\ strResult = ProverBlock(BuildFromBlocks(Shown(count)), p)
      BY <1>1, <2>5 DEF SessionInv
    <3>2. PICK shown : shown = Shown(count) /\ Proper(shown) /\ Len(shown) = count
      BY <2>1, <3>1
    <3>3. PICK old : old = BuildFromBlocks(shown) /\ IsTree(old, shown, 2)
      BY <3>2, BlocksTree
    <3>4. Verify(RootOf(tree), strResult) <=> RootOf(tree) = RootOf(old)
      BY <3>1, <3>2, <3>3, Verifies
    <3>5. ASSUME count = Len(blockList) PROVE RootOf(tree) = RootOf(old)
      BY <2>1, <2>2, <3>2, <3>3, <3>5
    <3>6. ASSUME Distinct(blockList), RootOf(tree) = RootOf(old) PROVE count = Len(blockList)
      <4>1. Differ(blockList)
        BY <2>1, <3>6, DistinctDiffer
      <4>2. Differ(shown)
        <5>1. PICK l \in Nat : l = Len(blockList)
          BY <1>1, BlocksAreProper DEF SessionInv
        <5>2. \A i \in 1..count : shown[i] = blockList[i] /\ i \in 1..l
          BY <3>1, <3>2, <5>1 DEF Shown
        <5> QED BY <3>2, <4>1, <5>1, <5>2 DEF Differ
      <4>3. shown = blockList
        BY <2>1, <2>2, <3>2, <3>3, <3>6, <4>1, <4>2, RootsDecide
      <4> QED BY <3>2, <4>3
    <3> QED BY <3>1, <3>4, <3>5, <3>6
  <2> QED BY <2>2, <2>4, <2>5 DEF ProofVerifiesUntilAppend
<1> QED BY <1>1, SessionInductive, PTL

(* No other list of distinct fields has the root a Block was committed     *)
(* with.                                                                   *)
THEOREM RootsCommit == SessionSpec => []RootCommitsToFields
<1>1. ASSUME SessionInv PROVE RootCommitsToFields
  <2>1. SUFFICES ASSUME Distinct(blockList), NEW other \in Lists, Distinct(other),
                        RootOf(BuildFromBlocks(other)) = RootOf(BuildFromBlocks(blockList))
                 PROVE  other = blockList
    BY DEF RootCommitsToFields
  <2>2. Proper(blockList)
    BY <1>1, BlocksAreProper DEF SessionInv
  <2>3. Proper(other)
    <3>1. PICK k \in 1..MaxBlocks : other \in [1..k -> Values]
      BY DEF Lists
    <3>2. k \in Nat \ {0} /\ other = [i \in 1..k |-> other[i]]
      BY <3>1, BlockBoundAssumption
    <3> QED BY <3>2, IsProper
  <2>4. Differ(blockList) /\ Differ(other)
    BY <2>1, <2>2, <2>3, DistinctDiffer
  <2>5. IsTree(BuildFromBlocks(blockList), blockList, 2) /\ IsTree(BuildFromBlocks(other), other, 2)
    BY <2>2, <2>3, BlocksTree
  <2> QED BY <2>1, <2>2, <2>3, <2>4, <2>5, RootsDecide
<1> QED BY <1>1, SessionInductive, PTL

(* The three implementations build the same levels, and two of them issue  *)
(* the same proofs.                                                        *)
THEOREM TreesAgreeAlways == SessionSpec => []TreesAgree
<1>1. ASSUME SessionInv PROVE TreesAgree
  <2>1. Proper(blockList) /\ DOMAIN blockList = 1..Len(blockList)
    BY <1>1, BlocksAreProper DEF SessionInv
  <2>2. PICK tree : tree = BuildFromBlocks(blockList) /\ IsTree(tree, blockList, 2)
    BY <2>1, BlocksTree
  <2>3. DisplayTree(blockList) = tree /\ NTree(blockList, 2) = tree
    BY <2>1, <2>2, BlocksTree
  <2>4. \A p \in DOMAIN blockList :
            LET steps == GenerateProof(tree, blockList, p, 2).steps
            IN  Tail(ProverBlock(tree, p)) =
                    [k \in DOMAIN steps |->
                        [side |-> IF steps[k].child = 1 THEN "R" ELSE "L",
                         hash |-> steps[k].siblings[1]]]
    BY <2>1, <2>2, ProofsAgree
  <2> QED BY <2>2, <2>3, <2>4 DEF TreesAgree
<1> QED BY <1>1, SessionInductive, PTL

(* NTreeMerkle accepts every proof it issued, and of those that differ     *)
(* from one only in the value or the path, none that shows another value   *)
(* than the leaf at the end of the path.                                   *)
THEOREM ProofsOpen == SessionSpec => []ProofOpensPosition
<1>1. ASSUME SessionInv PROVE ProofOpensPosition
  <2>1. Proper(blockList) /\ DOMAIN blockList = 1..Len(blockList)
    BY <1>1, BlocksAreProper DEF SessionInv
  <2>2. SUFFICES ASSUME NEW n \in Arities, NEW p \in DOMAIN blockList
                 PROVE  LET tree == NTree(blockList, n)
                            proof == GenerateProof(tree, blockList, p, n)
                        IN  /\ VerifyProof(tree, proof, n)
                            /\ \A v \in Values, path \in [DOMAIN proof.steps -> 1..n] :
                                  LET altered == Altered(proof, v, path)
                                  IN  VerifyProof(tree, altered, n)
                                      => blockList[Opened(tree, PathOf(altered), n)] = v
    BY DEF ProofOpensPosition
  <2>3. n \in Nat /\ n >= 2 /\ p \in 1..Len(blockList)
    BY <2>1, ArityAssumption
  <2>4. PICK tree : tree = NTree(blockList, n) /\ IsTree(tree, blockList, n)
    BY <2>1, <2>3, NTreeIsTree
  <2>5. PICK proof : proof = GenerateProof(tree, blockList, p, n)
    OBVIOUS
  <2>6. VerifyProof(tree, proof, n)
    BY <2>1, <2>3, <2>4, <2>5, IssuedIsAccepted
  <2>7. ASSUME NEW v \in Values, NEW path \in [DOMAIN proof.steps -> 1..n],
               VerifyProof(tree, Altered(proof, v, path), n)
        PROVE  blockList[Opened(tree, PathOf(Altered(proof, v, path)), n)] = v
    BY <2>1, <2>3, <2>4, <2>5, <2>7, AlteredOpens
  <2> QED BY <2>4, <2>5, <2>6, <2>7
<1> QED BY <1>1, SessionInductive, PTL
=============================================================================
