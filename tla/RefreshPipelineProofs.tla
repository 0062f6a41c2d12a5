------------------------- MODULE RefreshPipelineProofs -------------------------
(***************************************************************************)
(* Proofs about RefreshPipeline, for any batches, Snapshot IDs, routes and *)
(* bounds, and any number of publication requests under way at a time.     *)
(* The first part holds under every fault and with any administrators; the *)
(* second is about a scheduler that publishes alone and is always          *)
(* answered.                                                               *)
(***************************************************************************)
EXTENDS RefreshPipeline, SnapshotTableProofs, SequenceTheorems

Stages == {"received", "checked", "mined", "published", "refused"}
Request == [at : Stages, id : Ids, by : Clients]

(* The IDs a manifest was ever built for.                                  *)
Built == {i \in Ids : candidate[i] # NoContent}

(* What a publisher of the control server can be doing.                    *)
ClientOK(c) ==
    \/ c = ClientIdle
    \/ c.at = "reading" /\ c.batch \in Batches /\ c.source \in 0..MaxHead
    \/ c.at \in {"built", "queued"} /\ c.id \in Built
    \/ c.at = "waiting" /\ c.request \in 1..Len(requests)

(* The shape of the state.                                                 *)
ShapeInv ==
    /\ head \in [Batches -> 0..MaxHead] /\ route \in [Batches -> Routes]
    /\ eligible \in [Batches -> BOOLEAN]
    /\ routeChanges \in [Batches -> 0..MaxRouteChanges]
    /\ changing \subseteq Batches
    /\ candidate \in [Ids -> Contents \cup {NoContent}]
    /\ requests \in Seq(Request)
    /\ current \in [Batches -> Ids \cup {NoId}]
    /\ DOMAIN client = Clients

(* Nothing travels that was not built, and a row says what was built under *)
(* its ID.                                                                 *)
BuiltInv ==
    /\ \A p \in Clients : ClientOK(client[p])
    /\ drafts \subseteq Built
    /\ \A n \in 1..Len(requests) : requests[n].id \in Built
    /\ \A i \in Ids : IF Stored(table, i)
                      THEN i \in Built /\ table[i].content = candidate[i]
                      ELSE table[i].publication = NoContent

(* What an answer or a row claims the contract and the manifests have.     *)
ClaimsInv ==
    /\ mined \subseteq Ids /\ manifests \subseteq mined
    /\ \A n \in 1..Len(requests) :
           /\ requests[n].at = "mined" => requests[n].id \in mined
           /\ requests[n].at = "published" => requests[n].id \in manifests
    /\ \A i \in Ids : table[i].publication # NoContent => i \in manifests

IInv == ShapeInv /\ TableInv(table) /\ BuiltInv /\ ClaimsInv

-----------------------------------------------------------------------------
(* A step of the node service moves one request on and leaves the others.  *)
LEMMA AdvanceOne ==
    ASSUME requests \in Seq(Request), NEW n \in DOMAIN requests, NEW s \in Stages,
           Advance(n, s)
    PROVE  /\ requests' \in Seq(Request) /\ Len(requests') = Len(requests)
           /\ \A m \in 1..Len(requests) :
                  /\ requests'[m].id = requests[m].id
                  /\ requests'[m].by = requests[m].by
                  /\ requests'[m].at = IF m = n THEN s ELSE requests[m].at
<1> DEFINE r == [requests[n] EXCEPT !.at = s]
<1>1. n \in 1..Len(requests) /\ requests[n] \in Request
  BY LenProperties, ElementOfSeq
<1>2. r \in Request /\ r.id = requests[n].id /\ r.by = requests[n].by /\ r.at = s
  BY <1>1 DEF Request
<1>3. requests' = [requests EXCEPT ![n] = r]
  BY <1>1 DEF Advance
<1> HIDE DEF r
<1>4. /\ [requests EXCEPT ![n] = r] \in Seq(Request)
      /\ Len([requests EXCEPT ![n] = r]) = Len(requests)
      /\ \A m \in 1..Len(requests) :
             [requests EXCEPT ![n] = r][m] = IF m = n THEN r ELSE requests[m]
  BY <1>1, <1>2, ExceptSeq
<1> QED BY <1>2, <1>3, <1>4

(* A post adds a request that was just received.                           *)
LEMMA PostOne ==
    ASSUME requests \in Seq(Request), NEW p \in Clients, NEW i \in Ids, Post(p, i)
    PROVE  /\ requests' \in Seq(Request) /\ Len(requests') = Len(requests) + 1
           /\ Len(requests) \in Nat
           /\ \A m \in 1..Len(requests) : requests'[m] = requests[m]
           /\ requests'[Len(requests) + 1] = [at |-> "received", id |-> i, by |-> p]
<1> DEFINE r == [at |-> "received", id |-> i, by |-> p]
<1>1. r \in Request
  BY DEF Request, Stages
<1>2. requests' = Append(requests, r)
  BY DEF Post
<1> HIDE DEF r
<1>3. Len(requests) \in Nat
  BY LenProperties
<1>4. /\ requests' \in Seq(Request) /\ Len(requests') = Len(requests) + 1
      /\ \A m \in 1..Len(requests) : requests'[m] = requests[m]
      /\ requests'[Len(requests) + 1] = r
  BY <1>1, <1>2, <1>3
<1> QED BY <1>3, <1>4 DEF r

(* What a step of the node service leaves alone, and where it can lead.    *)
LEMMA NodeEffect ==
    ASSUME ShapeInv, NEW n \in DOMAIN requests, NodeStep(n) \/ NodeFails(n)
    PROVE  /\ UNCHANGED <<private, table, candidate, drafts, client>>
           /\ \E s \in Stages : Advance(n, s)
<1>1. CASE CheckRoute(n)
  BY <1>1 DEF CheckRoute, Stages
<1>2. CASE Mine(n)
  BY <1>2 DEF Mine, Stages
<1>3. CASE WriteManifest(n)
  BY <1>3 DEF WriteManifest, Stages
<1>4. CASE NodeFails(n)
  BY <1>4 DEF NodeFails, Stages
<1> QED BY <1>1, <1>2, <1>3, <1>4 DEF NodeStep

(* The content a refresh builds for is one a manifest can have.            *)
LEMMA ContentType ==
    ASSUME ShapeInv, NEW b \in Batches
    PROVE  Content(b) \in Contents
BY ContentsAssumption DEF ShapeInv, Content

(* What BuildPreview does to the candidates.                               *)
LEMMA BuildEffect ==
    ASSUME ShapeInv, BuiltInv, NEW a \in Admins, BuildPreview(a)
    PROVE  \/ /\ client' = [client EXCEPT ![a] = ClientIdle]
              /\ UNCHANGED candidate
           \/ \E c \in Contents, i \in Ids :
                  /\ candidate[i] = NoContent
                  /\ candidate' = [candidate EXCEPT ![i] = c]
                  /\ client' = [client EXCEPT ![a] = [at |-> "built", id |-> i]]
<1> DEFINE c == [source |-> client[a].source, route |-> route[client[a].batch]]
<1>1. a \in Clients /\ ClientOK(client[a])
  BY DEF Clients, BuiltInv
<1>2. c \in Contents
  <2>1. client[a].batch \in Batches /\ client[a].source \in 0..MaxHead
    BY <1>1 DEF BuildPreview, ClientOK, ClientIdle
  <2>2. route[client[a].batch] \in Routes
    BY <2>1 DEF ShapeInv
  <2> QED BY <2>1, <2>2, ContentsAssumption
<1>3. CASE eligible[client[a].batch]
  <2>1. PICK i \in Unused(client[a].batch) :
            /\ candidate' = [candidate EXCEPT ![i] = c]
            /\ client' = [client EXCEPT ![a] = [at |-> "built", id |-> i]]
    BY <1>3 DEF BuildPreview
  <2> HIDE DEF c
  <2> QED BY <1>2, <2>1 DEF Unused
<1>4. CASE ~eligible[client[a].batch]
  BY <1>4 DEF BuildPreview
<1> QED BY <1>3, <1>4

(* A preview that is saved was built.                                      *)
LEMMA SavedIsBuilt ==
    ASSUME ShapeInv, BuiltInv, NEW a \in Admins, SavePreview(a)
    PROVE  /\ a \in Clients /\ client[a].id \in Ids /\ client[a].id \in Built
           /\ candidate[client[a].id] \in Contents
<1>1. a \in Clients /\ client[a].at = "built"
  BY DEF Clients, SavePreview
<1>2. client[a].id \in Built
  BY <1>1 DEF BuiltInv, ClientOK, ClientIdle
<1>3. candidate \in [Ids -> Contents \cup {NoContent}]
  BY DEF ShapeInv
<1> QED BY <1>1, <1>2, <1>3 DEF Built

(* Every step keeps the shape of the state.                                *)
LEMMA StepShape == ShapeInv /\ BuiltInv /\ [Next]_vars => ShapeInv'
<1> SUFFICES ASSUME ShapeInv, BuiltInv, [Next]_vars PROVE ShapeInv'
  OBVIOUS
<1> USE BoundsAssumption DEF ShapeInv
<1>0. NoContent \notin Contents /\ BatchOf \in [Ids -> Batches]
  BY NoContentAssumption, BatchOfAssumption
<1>1. ASSUME NEW b \in Batches, AppendBlock(b)
      PROVE  ShapeInv'
  BY <1>1 DEF AppendBlock, public
<1>2. ASSUME NEW b \in Batches, SaveRoute(b)
      PROVE  ShapeInv'
  BY <1>2 DEF SaveRoute, public
<1>3. ASSUME NEW b \in Batches, InvalidateChanged(b) \/ InvalidateFails(b)
      PROVE  ShapeInv'
  BY <1>3 DEF InvalidateChanged, InvalidateFails, public
<1>4. ASSUME NEW b \in Batches, Refresh(b)
      PROVE  ShapeInv'
  BY <1>4, ContentType DEF Refresh, Unused, private, public
<1>5. ASSUME NEW a \in Admins, NEW b \in Batches, ReadRecords(a, b)
      PROVE  ShapeInv'
  BY <1>5 DEF ReadRecords, private, public
<1>6. ASSUME NEW a \in Admins, BuildPreview(a)
      PROVE  ShapeInv'
  <2>1. candidate' \in [Ids -> Contents \cup {NoContent}] /\ DOMAIN client' = Clients
    BY <1>6, BuildEffect
  <2> QED BY <1>6, <2>1 DEF BuildPreview, private, public
<1>12. ASSUME NEW a \in Admins, SavePreview(a)
       PROVE  ShapeInv'
  BY <1>12 DEF SavePreview, private, public
<1>7. ASSUME NEW a \in Admins, NEW i \in Ids, AdminPublishes(a, i)
      PROVE  ShapeInv'
  <2>1. a \in Clients /\ Post(a, i)
    BY <1>7 DEF AdminPublishes, Clients
  <2> QED BY <1>7, <2>1, PostOne DEF AdminPublishes, Post, private, public
<1>8. CASE SchedulerPublishes
  <2>1. Scheduler \in Clients /\ client[Scheduler].id \in Ids
    BY <1>8 DEF SchedulerPublishes, Clients, BuiltInv, ClientOK, ClientIdle, Built
  <2>2. Post(Scheduler, client[Scheduler].id)
    BY <1>8 DEF SchedulerPublishes
  <2> QED BY <1>8, <2>1, <2>2, PostOne DEF SchedulerPublishes, Post, private, public
<1>9. ASSUME NEW n \in DOMAIN requests, NodeStep(n) \/ NodeFails(n)
      PROVE  ShapeInv'
  <2>1. requests' \in Seq(Request)
    BY <1>9, NodeEffect, AdvanceOne
  <2>2. requests[n].id \in Ids
    <3>1. n \in 1..Len(requests)
      BY LenProperties
    <3>2. requests[n] \in Request
      BY <3>1, ElementOfSeq
    <3> QED BY <3>2 DEF Request
  <2>3. current' \in [Batches -> Ids \cup {NoId}]
    BY <1>0, <1>9, <2>2
    DEF NodeStep, CheckRoute, Mine, WriteManifest, NodeFails, IdOf, public
  <2> QED BY <1>9, <2>1, <2>3, NodeEffect DEF private
<1>10. ASSUME NEW p \in Clients, \/ ReceivePublished(p) \/ ReceiveRefused(p)
                                \/ GiveUp(p) \/ StoreFails(p)
       PROVE  ShapeInv'
  BY <1>10 DEF ReceivePublished, ReceiveRefused, GiveUp, StoreFails, private, public
<1>11. CASE UNCHANGED vars
  BY <1>11 DEF vars, private, public
<1> QED BY <1>1, <1>2, <1>3, <1>4, <1>5, <1>6, <1>7, <1>8, <1>9, <1>10, <1>11, <1>12
        DEF Next

-----------------------------------------------------------------------------
(* A publisher whose answer comes in has a candidate that was built.       *)
LEMMA AnsweredIsBuilt ==
    ASSUME ShapeInv, BuiltInv, NEW p \in Clients, client[p].at = "waiting"
    PROVE  /\ client[p].request \in 1..Len(requests)
           /\ IdOf(client[p].request) \in Ids
           /\ candidate[IdOf(client[p].request)] \in Contents
<1>1. client[p].request \in 1..Len(requests)
  BY DEF BuiltInv, ClientOK, ClientIdle
<1>2. IdOf(client[p].request) \in Built
  BY <1>1 DEF BuiltInv, IdOf
<1>3. candidate \in [Ids -> Contents \cup {NoContent}]
  BY DEF ShapeInv
<1> QED BY <1>1, <1>2, <1>3 DEF Built

(* Only previews, answers and invalidations write the table, each as the   *)
(* store does.                                                             *)
LEMMA StepTable == IInv /\ [Next]_vars => TableInv(table')
<1> SUFFICES ASSUME IInv, [Next]_vars PROVE TableInv(table')
  OBVIOUS
<1>0. ShapeInv /\ BuiltInv /\ TableInv(table)
  BY DEF IInv
<1>1. ASSUME NEW a \in Admins, SavePreview(a)
      PROVE  TableInv(table')
  BY <1>0, <1>1, SavedIsBuilt, PreviewKeepsTable DEF SavePreview
<1>2. ASSUME NEW p \in Clients, ReceivePublished(p)
      PROVE  TableInv(table')
  BY <1>0, <1>2, AnsweredIsBuilt, PublicationKeepsTable DEF ReceivePublished
<1>3. ASSUME NEW b \in Batches, InvalidateChanged(b)
      PROVE  TableInv(table')
  BY <1>0, <1>3, InvalidationKeepsTable DEF InvalidateChanged
<1>4. CASE UNCHANGED table
  BY <1>0, <1>4
<1> QED BY <1>1, <1>2, <1>3, <1>4
        DEF Next, vars, AppendBlock, SaveRoute, InvalidateFails, Refresh, ReadRecords,
            BuildPreview, AdminPublishes, SchedulerPublishes, NodeStep, CheckRoute, Mine,
            WriteManifest, NodeFails, ReceiveRefused, GiveUp, StoreFails

(* A client or a request that had a built candidate keeps it: candidates   *)
(* are written once.                                                       *)
LEMMA BuiltStays ==
    ASSUME ShapeInv, BuiltInv, [Next]_vars
    PROVE  \A i \in Built : i \in Built' /\ candidate'[i] = candidate[i]
<1>1. ASSUME NEW b \in Batches, Refresh(b)
      PROVE  \A i \in Built : i \in Built' /\ candidate'[i] = candidate[i]
  BY <1>1, ContentType, NoContentAssumption DEF Refresh, Unused, Built, ShapeInv
<1>2. ASSUME NEW a \in Admins, BuildPreview(a)
      PROVE  \A i \in Built : i \in Built' /\ candidate'[i] = candidate[i]
  BY <1>2, BuildEffect, NoContentAssumption DEF Built, ShapeInv
<1>3. CASE UNCHANGED candidate
  BY <1>3 DEF Built
<1> QED BY <1>1, <1>2, <1>3
        DEF Next, vars, AppendBlock, SaveRoute, InvalidateChanged, InvalidateFails,
            ReadRecords, SavePreview, AdminPublishes, SchedulerPublishes, NodeStep,
            CheckRoute, Mine, WriteManifest, NodeFails, ReceivePublished, ReceiveRefused,
            GiveUp, StoreFails

(* What a client does stays possible while requests are added and more     *)
(* candidates are built.                                                   *)
LEMMA ClientStaysOK ==
    ASSUME ShapeInv, BuiltInv, [Next]_vars, Len(requests') \in Nat,
           Len(requests') >= Len(requests), NEW c, ClientOK(c)
    PROVE  ClientOK(c)'
<1>1. \A i \in Built : i \in Built'
  BY BuiltStays
<1>2. 1..Len(requests) \subseteq 1..Len(requests')
  <2>1. Len(requests) \in Nat
    BY LenProperties DEF ShapeInv
  <2> QED BY <2>1
<1> QED BY <1>1, <1>2 DEF ClientOK

(* Every step keeps BuiltInv.                                              *)
LEMMA StepBuilt == IInv /\ [Next]_vars => BuiltInv'
<1> SUFFICES ASSUME IInv, [Next]_vars PROVE BuiltInv'
  OBVIOUS
<1>0. /\ ShapeInv /\ BuiltInv /\ TableInv(table)
      /\ \A i \in Built : i \in Built' /\ candidate'[i] = candidate[i]
      /\ Len(requests) \in Nat
  BY BuiltStays, LenProperties DEF IInv, ShapeInv
<1>a. \A c : Len(requests') = Len(requests) /\ ClientOK(c) => ClientOK(c)'
  BY <1>0, ClientStaysOK
<1>r. (\A i \in Ids : table'[i] = table[i]) =>
          \A i \in Ids : IF Stored(table', i)
                         THEN i \in Built' /\ table'[i].content = candidate'[i]
                         ELSE table'[i].publication = NoContent
  BY <1>0 DEF BuiltInv, Stored
<1>1. ASSUME NEW b \in Batches, AppendBlock(b) \/ SaveRoute(b) \/ InvalidateFails(b)
      PROVE  BuiltInv'
  BY <1>0, <1>a, <1>r, <1>1 DEF AppendBlock, SaveRoute, InvalidateFails, BuiltInv, Built
<1>2. ASSUME NEW b \in Batches, InvalidateChanged(b)
      PROVE  BuiltInv'
  <2>1. \A i \in Ids : IF Stored(table', i)
                       THEN i \in Built' /\ table'[i].content = candidate'[i]
                       ELSE table'[i].publication = NoContent
    BY <1>0, <1>2, WrittenData DEF InvalidateChanged, BuiltInv
  <2> QED BY <1>0, <1>a, <1>2, <2>1 DEF InvalidateChanged, BuiltInv
<1>3. ASSUME NEW b \in Batches, Refresh(b)
      PROVE  BuiltInv'
  <2>1. PICK i \in Unused(b) :
            /\ candidate' = [candidate EXCEPT ![i] = Content(b)]
            /\ client' = [client EXCEPT ![Scheduler] = [at |-> "queued", id |-> i]]
    BY <1>3 DEF Refresh
  <2>2. i \in Built' /\ UNCHANGED <<table, drafts, requests>>
    BY <1>0, <1>3, <2>1, ContentType, NoContentAssumption
    DEF Refresh, Unused, Built, ShapeInv
  <2>3. ClientOK([at |-> "queued", id |-> i])'
    BY <2>2 DEF ClientOK
  <2>4. \A p \in Clients : ClientOK(client[p])'
    BY <1>0, <1>a, <2>1, <2>2, <2>3 DEF BuiltInv, ShapeInv
  <2> QED BY <1>0, <1>r, <2>2, <2>4 DEF BuiltInv
<1>4. ASSUME NEW a \in Admins, NEW b \in Batches, ReadRecords(a, b)
      PROVE  BuiltInv'
  <2>1. \A c : c = [at |-> "reading", batch |-> b, source |-> head[b]] => ClientOK(c)'
    BY <1>0 DEF ClientOK, ShapeInv
  <2>2. \A p \in Clients : ClientOK(client[p])'
    BY <1>0, <1>a, <1>4, <2>1 DEF ReadRecords, BuiltInv, ShapeInv
  <2> QED BY <1>0, <1>r, <1>4, <2>2 DEF ReadRecords, BuiltInv
<1>5. ASSUME NEW a \in Admins, BuildPreview(a)
      PROVE  BuiltInv'
  <2>1. UNCHANGED <<table, drafts, requests>>
    BY <1>5 DEF BuildPreview
  <2>2. PICK c : client' = [client EXCEPT ![a] = c] /\ ClientOK(c)'
    <3>1. ClientOK(ClientIdle)'
      BY DEF ClientOK
    <3>2. ASSUME NEW c \in Contents, NEW i \in Ids, candidate' = [candidate EXCEPT ![i] = c]
          PROVE  ClientOK([at |-> "built", id |-> i])'
      <4>1. i \in Built'
        BY <1>0, <3>2, NoContentAssumption DEF Built, ShapeInv
      <4> QED BY <4>1 DEF ClientOK
    <3> QED BY <1>0, <1>5, <3>1, <3>2, BuildEffect
  <2>3. \A p \in Clients : ClientOK(client[p])'
    BY <1>0, <1>a, <2>1, <2>2 DEF BuiltInv, ShapeInv
  <2> QED BY <1>0, <1>r, <2>1, <2>3 DEF BuiltInv
<1>13. ASSUME NEW a \in Admins, SavePreview(a)
       PROVE  BuiltInv'
  <2> DEFINE i == client[a].id
  <2>1. i \in Ids /\ i \in Built /\ candidate[i] \in Contents
    BY <1>0, <1>13, SavedIsBuilt
  <2>2. /\ table' = WithPreview(table, i, candidate[i]) /\ drafts' = drafts \cup {i}
        /\ client' = [client EXCEPT ![a] = ClientIdle]
        /\ UNCHANGED <<candidate, requests>>
    BY <1>13 DEF SavePreview
  <2> HIDE DEF i
  <2>3. \A j \in Ids : IF Stored(table', j)
                       THEN j \in Built' /\ table'[j].content = candidate'[j]
                       ELSE table'[j].publication = NoContent
    BY <1>0, <2>1, <2>2, WrittenData DEF BuiltInv
  <2>4. ClientOK(ClientIdle)'
    BY DEF ClientOK
  <2>5. \A q \in Clients : ClientOK(client[q])'
    BY <1>0, <1>a, <2>2, <2>4 DEF BuiltInv, ShapeInv
  <2> QED BY <1>0, <2>1, <2>2, <2>3, <2>5 DEF BuiltInv
<1>6. ASSUME NEW p \in Clients, NEW i \in Built, Post(p, i),
             UNCHANGED <<private, table, candidate, drafts, public>>
      PROVE  BuiltInv'
  <2>0. i \in Ids /\ requests \in Seq(Request)
    BY <1>0 DEF ShapeInv, Built
  <2>1. /\ Len(requests') = Len(requests) + 1
        /\ \A m \in 1..Len(requests) : requests'[m] = requests[m]
        /\ requests'[Len(requests) + 1] = [at |-> "received", id |-> i, by |-> p]
    BY <1>6, <2>0, PostOne
  <2>2. \A c : c = Waiting(Len(requests) + 1) => ClientOK(c)'
    BY <1>0, <2>1 DEF ClientOK, Waiting
  <2>3. \A c : ClientOK(c) => ClientOK(c)'
    BY <1>0, <2>1, ClientStaysOK
  <2>4. \A q \in Clients : ClientOK(client[q])'
    BY <1>0, <1>6, <2>2, <2>3 DEF Post, BuiltInv, ShapeInv
  <2>5. \A n \in 1..Len(requests') : requests'[n].id \in Built'
    <3> SUFFICES ASSUME NEW n \in 1..(Len(requests) + 1)
                 PROVE  requests'[n].id \in Built'
      BY <2>1
    <3>1. CASE n = Len(requests) + 1
      BY <1>0, <2>1, <3>1
    <3>2. CASE n # Len(requests) + 1
      <4>1. n \in 1..Len(requests)
        BY <1>0, <3>2
      <4> QED BY <1>0, <2>1, <4>1 DEF BuiltInv
    <3> QED BY <3>1, <3>2
  <2> QED BY <1>0, <1>r, <1>6, <2>4, <2>5 DEF BuiltInv
<1>7. ASSUME NEW n \in DOMAIN requests, NodeStep(n) \/ NodeFails(n)
      PROVE  BuiltInv'
  <2>1. PICK s \in Stages : Advance(n, s)
    BY <1>0, <1>7, NodeEffect
  <2>2. /\ Len(requests') = Len(requests)
        /\ \A m \in 1..Len(requests) : requests'[m].id = requests[m].id
    BY <1>0, <2>1, AdvanceOne DEF ShapeInv
  <2>3. UNCHANGED <<table, candidate, drafts, client>>
    BY <1>0, <1>7, NodeEffect
  <2> QED BY <1>0, <1>a, <1>r, <2>2, <2>3 DEF BuiltInv
<1>8. ASSUME NEW p \in Clients, ReceivePublished(p)
      PROVE  BuiltInv'
  <2> DEFINE i == IdOf(client[p].request)
  <2>1. i \in Ids /\ i \in Built /\ candidate[i] \in Contents
    BY <1>0, <1>8, AnsweredIsBuilt, NoContentAssumption DEF ReceivePublished, Built
  <2>2. table' = WithPublication(table, i, candidate[i])
        /\ client' = [client EXCEPT ![p] = ClientIdle]
        /\ UNCHANGED <<candidate, drafts, requests>>
    BY <1>8 DEF ReceivePublished
  <2> HIDE DEF i
  <2>3. \A j \in Ids : IF Stored(table', j)
                       THEN j \in Built' /\ table'[j].content = candidate'[j]
                       ELSE table'[j].publication = NoContent
    BY <1>0, <2>1, <2>2, WrittenData DEF BuiltInv
  <2>4. ClientOK(ClientIdle)'
    BY DEF ClientOK
  <2>5. \A q \in Clients : ClientOK(client[q])'
    BY <1>0, <1>a, <2>2, <2>4 DEF BuiltInv, ShapeInv
  <2> QED BY <1>0, <2>2, <2>3, <2>5 DEF BuiltInv
<1>9. ASSUME NEW p \in Clients, ReceiveRefused(p) \/ GiveUp(p) \/ StoreFails(p)
      PROVE  BuiltInv'
  <2>1. client' = [client EXCEPT ![p] = ClientIdle]
        /\ UNCHANGED <<table, candidate, drafts, requests>>
    BY <1>9 DEF ReceiveRefused, GiveUp, StoreFails
  <2>2. ClientOK(ClientIdle)'
    BY DEF ClientOK
  <2>3. \A q \in Clients : ClientOK(client[q])'
    BY <1>0, <1>a, <2>1, <2>2 DEF BuiltInv, ShapeInv
  <2> QED BY <1>0, <1>r, <2>1, <2>3 DEF BuiltInv
<1>10. CASE UNCHANGED vars
  BY <1>0, <1>a, <1>r, <1>10 DEF vars, BuiltInv
<1>11. ASSUME NEW a \in Admins, NEW i \in Ids, AdminPublishes(a, i)
       PROVE  BuiltInv'
  BY <1>0, <1>6, <1>11 DEF AdminPublishes, BuiltInv, Clients
<1>12. CASE SchedulerPublishes
  <2>1. Scheduler \in Clients /\ client[Scheduler].id \in Built
    BY <1>0, <1>12 DEF SchedulerPublishes, Clients, BuiltInv, ClientOK, ClientIdle
  <2> QED BY <1>6, <1>12, <2>1 DEF SchedulerPublishes
<1> QED BY <1>1, <1>2, <1>3, <1>4, <1>5, <1>7, <1>8, <1>9, <1>10, <1>11, <1>12, <1>13
        DEF Next

(* Every step keeps ClaimsInv: the answer "published" is given after the   *)
(* transaction and the manifest, and a row gets publication data only from *)
(* such an answer.                                                         *)
LEMMA StepClaims == IInv /\ [Next]_vars => ClaimsInv'
<1> SUFFICES ASSUME IInv, [Next]_vars PROVE ClaimsInv'
  OBVIOUS
<1>0. /\ ShapeInv /\ BuiltInv /\ TableInv(table) /\ ClaimsInv
      /\ requests \in Seq(Request) /\ Len(requests) \in Nat
  BY LenProperties DEF IInv, ShapeInv
<1>1. ASSUME NEW b \in Batches, InvalidateChanged(b)
      PROVE  ClaimsInv'
  <2>1. \A i \in Ids : table'[i].publication = table[i].publication
    BY <1>0, <1>1, WrittenData DEF InvalidateChanged
  <2> QED BY <1>0, <1>1, <2>1 DEF InvalidateChanged, ClaimsInv, public
<1>2. ASSUME NEW a \in Admins, SavePreview(a)
      PROVE  ClaimsInv'
  <2>1. UNCHANGED <<requests, mined, manifests>>
    BY <1>2 DEF SavePreview, public
  <2>2. \A i \in Ids : table'[i].publication \in {table[i].publication, NoContent}
    <3>1. PICK i \in Ids, c \in Contents : table' = WithPreview(table, i, c)
      BY <1>0, <1>2, SavedIsBuilt DEF SavePreview
    <3> QED BY <1>0, <3>1, WrittenData
  <2> QED BY <1>0, <2>1, <2>2 DEF ClaimsInv
<1>3. ASSUME NEW p \in Clients, NEW i \in Ids, Post(p, i), UNCHANGED <<table, public>>
      PROVE  ClaimsInv'
  <2>1. /\ Len(requests') = Len(requests) + 1
        /\ \A m \in 1..Len(requests) : requests'[m] = requests[m]
        /\ requests'[Len(requests) + 1] = [at |-> "received", id |-> i, by |-> p]
    BY <1>0, <1>3, PostOne
  <2>2. ASSUME NEW n \in 1..Len(requests')
        PROVE  /\ requests'[n].at = "mined" => requests'[n].id \in mined
               /\ requests'[n].at = "published" => requests'[n].id \in manifests
    <3>1. CASE n = Len(requests) + 1
      BY <2>1, <3>1
    <3>2. CASE n # Len(requests) + 1
      <4>1. n \in 1..Len(requests)
        BY <1>0, <2>1, <3>2
      <4> QED BY <1>0, <2>1, <4>1 DEF ClaimsInv
    <3> QED BY <3>1, <3>2
  <2> QED BY <1>0, <1>3, <2>2 DEF ClaimsInv, public
<1>4. ASSUME NEW n \in DOMAIN requests, NodeStep(n) \/ NodeFails(n)
      PROVE  ClaimsInv'
  <2>0. n \in 1..Len(requests) /\ requests[n].id \in Ids
    BY <1>0, LenProperties DEF BuiltInv, Built
  <2>1. PICK s \in Stages : Advance(n, s)
    BY <1>0, <1>4, NodeEffect
  <2>2. /\ Len(requests') = Len(requests)
        /\ \A m \in 1..Len(requests) :
               /\ requests'[m].id = requests[m].id
               /\ requests'[m].at = IF m = n THEN s ELSE requests[m].at
    BY <1>0, <2>1, AdvanceOne
  <2>3. UNCHANGED table
    BY <1>0, <1>4, NodeEffect
  <2>4. \A t \in Stages : Advance(n, t) => s = t
    <3>1. \A t \in Stages : Advance(n, t) => requests'[n].at = t
      BY <1>0, <2>0, AdvanceOne
    <3> QED BY <2>1, <3>1
  <2>5. CASE CheckRoute(n)
    <3>1. s \notin {"mined", "published"} /\ UNCHANGED public
      BY <2>4, <2>5 DEF CheckRoute, Stages
    <3> QED BY <1>0, <2>2, <2>3, <3>1 DEF ClaimsInv, public
  <2>6. CASE Mine(n)
    <3>1. CASE IdOf(n) \in mined
      <4>1. s = "refused" /\ UNCHANGED <<mined, manifests>>
        BY <2>4, <2>6, <3>1 DEF Mine, Stages
      <4> QED BY <1>0, <2>2, <2>3, <4>1 DEF ClaimsInv
    <3>2. CASE IdOf(n) \notin mined
      <4>1. s = "mined" /\ mined' = mined \cup {requests[n].id} /\ UNCHANGED manifests
        BY <2>4, <2>6, <3>2 DEF Mine, Stages, IdOf
      <4> QED BY <1>0, <2>0, <2>2, <2>3, <4>1 DEF ClaimsInv
    <3> QED BY <3>1, <3>2
  <2>7. CASE WriteManifest(n)
    <3>1. s = "published" /\ manifests' = manifests \cup {requests[n].id} /\ UNCHANGED mined
      BY <2>4, <2>7 DEF WriteManifest, Stages, IdOf
    <3>2. requests[n].id \in mined
      BY <1>0, <2>0, <2>7 DEF WriteManifest, StageOf, ClaimsInv
    <3> QED BY <1>0, <2>0, <2>2, <2>3, <3>1, <3>2 DEF ClaimsInv
  <2>8. CASE NodeFails(n)
    <3>1. s = "refused" /\ UNCHANGED public
      BY <2>4, <2>8 DEF NodeFails, Stages
    <3> QED BY <1>0, <2>2, <2>3, <3>1 DEF ClaimsInv, public
  <2> QED BY <1>4, <2>5, <2>6, <2>7, <2>8 DEF NodeStep
<1>5. ASSUME NEW p \in Clients, ReceivePublished(p)
      PROVE  ClaimsInv'
  <2> DEFINE i == IdOf(client[p].request)
  <2>1. i \in Ids /\ i \in manifests /\ candidate[i] \in Contents
    BY <1>0, <1>5, AnsweredIsBuilt DEF ReceivePublished, StageOf, IdOf, ClaimsInv
  <2>2. table' = WithPublication(table, i, candidate[i]) /\ UNCHANGED <<requests, public>>
    BY <1>5 DEF ReceivePublished
  <2> HIDE DEF i
  <2>3. \A j \in Ids \ {i} : table'[j].publication = table[j].publication
    BY <1>0, <2>1, <2>2, WrittenData
  <2> QED BY <1>0, <2>1, <2>2, <2>3 DEF ClaimsInv, public
<1>6. CASE UNCHANGED <<table, requests, public>>
  BY <1>0, <1>6 DEF ClaimsInv, public
<1>7. ASSUME NEW a \in Admins, NEW i \in Ids, AdminPublishes(a, i)
      PROVE  ClaimsInv'
  BY <1>3, <1>7 DEF AdminPublishes, Clients
<1>8. CASE SchedulerPublishes
  <2>1. Scheduler \in Clients /\ client[Scheduler].id \in Ids
    BY <1>0, <1>8 DEF SchedulerPublishes, Clients, BuiltInv, ClientOK, ClientIdle, Built
  <2> QED BY <1>3, <1>8, <2>1 DEF SchedulerPublishes
<1> QED BY <1>1, <1>2, <1>4, <1>5, <1>6, <1>7, <1>8
        DEF Next, vars, AppendBlock, SaveRoute, InvalidateFails, Refresh, ReadRecords,
            BuildPreview, ReceiveRefused, GiveUp, StoreFails

(* An empty store, no request, nothing published.                          *)
LEMMA InitIInv == Init => IInv
<1> SUFFICES ASSUME Init PROVE IInv
  OBVIOUS
<1>1. ShapeInv
  BY BoundsAssumption, FirstRouteAssumption DEF Init, ShapeInv
<1>2. TableInv(table)
  BY EmptyTableInv DEF Init
<1>3. BuiltInv
  BY DEF Init, BuiltInv, ClientOK, Stored, EmptyTable, AbsentRow
<1>4. ClaimsInv
  BY DEF Init, ClaimsInv, EmptyTable, AbsentRow
<1> QED BY <1>1, <1>2, <1>3, <1>4 DEF IInv

(* The four parts together are inductive.                                  *)
LEMMA StepIInv == IInv /\ [Next]_vars => IInv'
BY StepShape, StepTable, StepBuilt, StepClaims DEF IInv

(* They hold in every state reachable from an empty system.                *)
LEMMA Invariance == Spec => []IInv
BY InitIInv, StepIInv, PTL DEF Spec

(* The data of the control server, the node service and the contract keep  *)
(* their shape, under every fault.                                         *)
THEOREM TypeCorrect == Spec => []TypeOK
<1>1. IInv => TypeOK
  <2> SUFFICES ASSUME IInv PROVE TypeOK
    OBVIOUS
  <2>0. ShapeInv /\ BuiltInv /\ ClaimsInv /\ table \in [Ids -> Row]
    BY DEF IInv, TableInv
  <2>1. \A p \in Clients : client[p].at \in {"idle", "reading", "built", "queued", "waiting"}
    BY <2>0 DEF BuiltInv, ClientOK, ClientIdle
  <2>2. \A n \in DOMAIN requests : requests[n] \in Request
    BY <2>0, LenProperties, ElementOfSeq DEF ShapeInv
  <2>3. drafts \subseteq Ids
    BY <2>0 DEF BuiltInv, Built
  <2> QED BY <2>0, <2>1, <2>2, <2>3
          DEF TypeOK, ShapeInv, ClaimsInv, Request, Stages
<1> QED BY <1>1, Invariance, PTL

(* Whatever times out, fails or is answered late, a row with publication   *)
(* data belongs to a Snapshot the contract accepted, whose manifest is     *)
(* served and says what the row says.                                      *)
THEOREM PublishedOnChain == Spec => []PublishedRowsAreOnChain
<1>1. IInv => PublishedRowsAreOnChain
  BY DEF IInv, BuiltInv, ClaimsInv, PublishedRowsAreOnChain
<1> QED BY <1>1, Invariance, PTL

-----------------------------------------------------------------------------
(* A scheduler that publishes alone and is always answered.  Every batch   *)
(* has an ID its first Snapshot was published under.                       *)
SchedulerAlone == Admins = {} /\ Faults = {}
FirstPublished == \A b \in Batches : \E i \in Ids : BatchOf[i] = b

Unfinished(n) == requests[n].at \in {"received", "checked", "mined"}

(* The contract has the scheduler's candidate, the table not yet.          *)
Answering(b) ==
    /\ client[Scheduler].at = "waiting"
    /\ StageOf(client[Scheduler].request) \in {"mined", "published"}
    /\ BatchOf[IdOf(client[Scheduler].request)] = b

(* The candidate the scheduler is about to have published.                 *)
Pending(i) ==
    \/ client[Scheduler].at = "queued" /\ client[Scheduler].id = i
    \/ /\ client[Scheduler].at = "waiting"
       /\ StageOf(client[Scheduler].request) \in {"received", "checked"}
       /\ IdOf(client[Scheduler].request) = i

(* One request at a time; the contract is ahead of the table only while    *)
(* the answer is on its way; and what the contract has as current is a row *)
(* of that batch which is active or was invalidated.                       *)
AheadInv ==
    /\ \A n \in 1..Len(requests) : Unfinished(n) => client[Scheduler] = Waiting(n)
    /\ \A b \in Batches : Answering(b) => current[b] = IdOf(client[Scheduler].request)
    /\ \A i \in Ids : table[i].state = "active" =>
           current[BatchOf[i]] = i \/ Answering(BatchOf[i])
    /\ \A b \in Batches : current[b] # NoId =>
           /\ BatchOf[current[b]] = b
           /\ \/ table[current[b]].state \in {"active", "invalidated"}
              \/ Answering(b)

(* A candidate on its way says something the current Snapshot does not,    *)
(* unless that one was invalidated.                                        *)
NewsInv ==
    \A i \in Ids : Pending(i) =>
        LET j == current[BatchOf[i]]
        IN  \/ j = NoId
            \/ candidate[j] # candidate[i]
            \/ table[j].state = "invalidated"

(* What is left of Next when the scheduler is alone.                       *)
LEMMA AloneNext ==
    ASSUME SchedulerAlone, [Next]_vars
    PROVE  \/ \E b \in Batches : InvalidateChanged(b) \/ Refresh(b)
           \/ SchedulerPublishes
           \/ \E n \in DOMAIN requests : NodeStep(n)
           \/ ReceivePublished(Scheduler)
           \/ ReceiveRefused(Scheduler)
           \/ UNCHANGED <<table, candidate, client, requests, current>>
BY DEF SchedulerAlone, Next, vars, public, Clients, AppendBlock, SaveRoute, NodeFails, GiveUp,
       InvalidateFails, StoreFails

(* Only the request the scheduler waits for can be unfinished.             *)
LEMMA UnfinishedIsAwaited ==
    ASSUME AheadInv, NEW n \in 1..Len(requests), Unfinished(n)
    PROVE  client[Scheduler].at = "waiting" /\ client[Scheduler].request = n
<1>1. client[Scheduler] = Waiting(n)
  BY DEF AheadInv
<1> QED BY <1>1 DEF Waiting

(* The request the node service works on is the one the scheduler waits    *)
(* for, and it stays that one.                                             *)
LEMMA WorkedOnIsAwaited ==
    ASSUME IInv, AheadInv, NEW n \in DOMAIN requests, NodeStep(n)
    PROVE  /\ n \in 1..Len(requests) /\ requests[n].id \in Ids
           /\ BatchOf[requests[n].id] \in Batches
           /\ client[Scheduler] = [at |-> "waiting", request |-> n]
           /\ UNCHANGED <<table, candidate, client>>
           /\ Len(requests') = Len(requests)
           /\ \A m \in 1..Len(requests) :
                  /\ requests'[m].id = requests[m].id
                  /\ m # n => requests'[m].at = requests[m].at
           /\ \A s \in Stages : Advance(n, s) => requests'[n].at = s
<1>0. ShapeInv /\ BuiltInv /\ requests \in Seq(Request)
  BY DEF IInv, ShapeInv
<1>1. n \in 1..Len(requests)
  BY <1>0, LenProperties
<1>2. requests[n].id \in Ids
  BY <1>0, <1>1 DEF BuiltInv, Built
<1>3. Unfinished(n)
  BY DEF NodeStep, CheckRoute, Mine, WriteManifest, StageOf, Unfinished
<1>4. client[Scheduler] = [at |-> "waiting", request |-> n]
  BY <1>1, <1>3 DEF AheadInv, Waiting
<1>5. PICK s \in Stages : Advance(n, s)
  BY <1>0, NodeEffect
<1>6. /\ Len(requests') = Len(requests)
      /\ \A m \in 1..Len(requests) :
             /\ requests'[m].id = requests[m].id
             /\ m # n => requests'[m].at = requests[m].at
  BY <1>0, <1>5, AdvanceOne
<1>7. \A t \in Stages : Advance(n, t) => requests'[n].at = t
  BY <1>0, <1>1, AdvanceOne
<1>8. UNCHANGED <<table, candidate, client>>
  BY <1>0, NodeEffect
<1> QED BY <1>1, <1>2, <1>4, <1>6, <1>7, <1>8, BatchOfAssumption

(* Where a step of the node service leads when nothing fails: the          *)
(* transaction alone makes the candidate current.                          *)
LEMMA NodeOutcome ==
    ASSUME IInv, AheadInv, NEW n \in DOMAIN requests, NodeStep(n)
    PROVE  \/ /\ requests[n].at = "received" /\ requests'[n].at \in {"checked", "refused"}
              /\ UNCHANGED current
           \/ /\ requests[n].at = "checked" /\ requests'[n].at = "refused"
              /\ UNCHANGED current
           \/ /\ requests[n].at = "checked" /\ requests'[n].at = "mined"
              /\ current' = [current EXCEPT ![BatchOf[requests[n].id]] = requests[n].id]
           \/ /\ requests[n].at = "mined" /\ requests'[n].at = "published"
              /\ UNCHANGED current
<1>0. \A s \in Stages : Advance(n, s) => requests'[n].at = s
  BY WorkedOnIsAwaited
<1>1. CASE CheckRoute(n)
  BY <1>0, <1>1 DEF CheckRoute, StageOf, Stages, public
<1>2. CASE Mine(n)
  BY <1>0, <1>2 DEF Mine, StageOf, IdOf, Stages
<1>3. CASE WriteManifest(n)
  BY <1>0, <1>3 DEF WriteManifest, StageOf, Stages
<1> QED BY <1>1, <1>2, <1>3 DEF NodeStep

(* Every step keeps AheadInv: the transaction puts the contract ahead, the *)
(* answer brings the table level with it.                                  *)
LEMMA StepAhead ==
    ASSUME SchedulerAlone, IInv, AheadInv, [Next]_vars
    PROVE  AheadInv'
<1>0. /\ ShapeInv /\ BuiltInv /\ TableInv(table) /\ table \in [Ids -> Row]
      /\ requests \in Seq(Request) /\ Len(requests) \in Nat
      /\ BatchOf \in [Ids -> Batches] /\ current \in [Batches -> Ids \cup {NoId}]
      /\ Scheduler \in Clients /\ DOMAIN client = Clients
  BY LenProperties, BatchOfAssumption DEF IInv, ShapeInv, TableInv, Clients
<1>1. ASSUME NEW b \in Batches, InvalidateChanged(b)
      PROVE  AheadInv'
  <2>1. UNCHANGED <<client, requests, current>>
    BY <1>1 DEF InvalidateChanged, public
  <2>2. \A i \in Ids : /\ table'[i].state = "active" => table[i].state = "active"
                       /\ table[i].state \in {"active", "invalidated"} =>
                              table'[i].state \in {"active", "invalidated"}
    BY <1>0, <1>1, StatesAfterInvalidation DEF InvalidateChanged
  <2> QED BY <1>0, <2>1, <2>2 DEF AheadInv, Answering, Unfinished, StageOf, IdOf
<1>2. ASSUME NEW b \in Batches, Refresh(b)
      PROVE  AheadInv'
  <2>1. /\ UNCHANGED <<table, requests, current>>
        /\ client[Scheduler].at = "idle" /\ client'[Scheduler].at = "queued"
    BY <1>0, <1>2 DEF Refresh, public, ClientIdle
  <2>2. \A n \in 1..Len(requests) : ~Unfinished(n)
    BY <2>1, UnfinishedIsAwaited
  <2> QED BY <2>1, <2>2 DEF AheadInv, Answering, Unfinished
<1>3. CASE SchedulerPublishes
  <2>1. client[Scheduler].at = "queued" /\ client[Scheduler].id \in Ids
    BY <1>0, <1>3 DEF SchedulerPublishes, BuiltInv, ClientOK, ClientIdle, Built
  <2>2. Post(Scheduler, client[Scheduler].id) /\ UNCHANGED <<table, current>>
    BY <1>3 DEF SchedulerPublishes, public
  <2>3. /\ Len(requests') = Len(requests) + 1
        /\ \A m \in 1..Len(requests) : requests'[m] = requests[m]
        /\ requests'[Len(requests) + 1] =
               [at |-> "received", id |-> client[Scheduler].id, by |-> Scheduler]
    BY <1>0, <2>1, <2>2, PostOne
  <2>4. client'[Scheduler] = [at |-> "waiting", request |-> Len(requests) + 1]
    BY <1>0, <2>2 DEF Post, Waiting
  <2>5. \A n \in 1..Len(requests) : ~Unfinished(n)
    BY <2>1, UnfinishedIsAwaited
  <2>6. \A n \in 1..Len(requests') : n \in 1..Len(requests) \/ n = Len(requests) + 1
    BY <1>0, <2>3
  <2>7. \A b \in Batches : ~Answering(b) /\ ~Answering(b)'
    BY <2>1, <2>3, <2>4 DEF Answering, StageOf
  <2>8. \A n \in 1..Len(requests') : Unfinished(n)' => client'[Scheduler] = Waiting(n)
    BY <2>3, <2>4, <2>5, <2>6 DEF Unfinished, Waiting
  <2> QED BY <1>0, <2>2, <2>7, <2>8 DEF AheadInv
<1>4. ASSUME NEW n \in DOMAIN requests, NodeStep(n)
      PROVE  AheadInv'
  <2> DEFINE i == requests[n].id
  <2>1. /\ n \in 1..Len(requests) /\ i \in Ids /\ BatchOf[i] \in Batches
        /\ client[Scheduler] = [at |-> "waiting", request |-> n]
        /\ UNCHANGED <<table, client>>
        /\ Len(requests') = Len(requests)
        /\ \A m \in 1..Len(requests) :
               /\ requests'[m].id = requests[m].id
               /\ m # n => requests'[m].at = requests[m].at
    BY <1>4, WorkedOnIsAwaited
  <2>2. \A b \in Batches :
            /\ Answering(b) <=> requests[n].at \in {"mined", "published"} /\ BatchOf[i] = b
            /\ Answering(b)' <=> requests'[n].at \in {"mined", "published"} /\ BatchOf[i] = b
    BY <2>1 DEF Answering, StageOf, IdOf
  <2>3. IdOf(client[Scheduler].request) = i /\ IdOf(client[Scheduler].request)' = i
    BY <2>1 DEF IdOf
  <2>4. \A m \in 1..Len(requests') : Unfinished(m)' => client'[Scheduler] = Waiting(m)
    BY <2>1 DEF Unfinished, Waiting, AheadInv
  <2>5. CASE UNCHANGED current /\ (requests'[n].at \in {"mined", "published"} <=>
                                   requests[n].at \in {"mined", "published"})
    BY <1>0, <2>1, <2>2, <2>3, <2>4, <2>5 DEF AheadInv
  <2>6. CASE /\ requests[n].at = "checked" /\ requests'[n].at = "mined"
             /\ current' = [current EXCEPT ![BatchOf[i]] = i]
    BY <1>0, <2>1, <2>2, <2>3, <2>4, <2>6 DEF AheadInv
  <2> QED BY <1>4, <2>5, <2>6, NodeOutcome
<1>5. CASE ReceivePublished(Scheduler)
  <2> DEFINE n == client[Scheduler].request
             i == IdOf(n)
  <2>1. i \in Ids /\ candidate[i] \in Contents
    BY <1>0, <1>5, AnsweredIsBuilt DEF ReceivePublished
  <2>2. /\ client[Scheduler].at = "waiting" /\ StageOf(n) = "published"
        /\ table' = WithPublication(table, i, candidate[i])
        /\ client'[Scheduler] = ClientIdle /\ UNCHANGED <<requests, current>>
    BY <1>0, <1>5 DEF ReceivePublished, public
  <2>3. \A b \in Batches : /\ Answering(b) <=> BatchOf[i] = b
                           /\ ~Answering(b)'
    BY <2>2 DEF Answering, ClientIdle
  <2>4. current[BatchOf[i]] = i
    BY <1>0, <2>1, <2>3 DEF AheadInv
  <2>5. \A m \in 1..Len(requests) : ~Unfinished(m)
    BY <2>2, UnfinishedIsAwaited DEF Unfinished, StageOf
  <2> HIDE DEF i, n
  <2>6. \A j \in Ids : table'[j].state = IF j = i THEN "active"
             ELSE IF BatchOf[j] = BatchOf[i] /\ table[j].state = "active"
                  THEN "superseded" ELSE table[j].state
    BY <1>0, <2>1, <2>2, StatesAfterPublication
  <2>7. \A j \in Ids : table'[j].state = "active" => current[BatchOf[j]] = j
    BY <1>0, <2>1, <2>3, <2>4, <2>6 DEF AheadInv
  <2>8. \A b \in Batches : current[b] # NoId =>
            BatchOf[current[b]] = b /\ table'[current[b]].state \in {"active", "invalidated"}
    BY <1>0, <2>1, <2>3, <2>4, <2>6 DEF AheadInv
  <2> QED BY <2>2, <2>3, <2>5, <2>7, <2>8 DEF AheadInv, Unfinished
<1>6. CASE ReceiveRefused(Scheduler)
  <2>1. /\ client[Scheduler].at = "waiting"
        /\ StageOf(client[Scheduler].request) = "refused"
        /\ client'[Scheduler] = ClientIdle /\ UNCHANGED <<table, requests, current>>
    BY <1>0, <1>6 DEF ReceiveRefused, public
  <2>2. \A b \in Batches : ~Answering(b) /\ ~Answering(b)'
    BY <2>1 DEF Answering, ClientIdle
  <2>3. \A m \in 1..Len(requests) : ~Unfinished(m)
    BY <2>1, UnfinishedIsAwaited DEF Unfinished, StageOf
  <2>4. \A m \in 1..Len(requests') : ~Unfinished(m)'
    BY <2>1, <2>3 DEF Unfinished
  <2>5. \A j \in Ids : table'[j].state = "active" => current'[BatchOf[j]] = j
    BY <1>0, <2>1, <2>2 DEF AheadInv
  <2>6. \A b \in Batches : current'[b] # NoId =>
            BatchOf[current'[b]] = b /\ table'[current'[b]].state \in {"active", "invalidated"}
    BY <1>0, <2>1, <2>2 DEF AheadInv
  <2> QED BY <2>2, <2>4, <2>5, <2>6 DEF AheadInv
<1>7. CASE UNCHANGED <<table, candidate, client, requests, current>>
  BY <1>7 DEF AheadInv, Answering, Unfinished, StageOf, IdOf
<1> QED BY <1>1, <1>2, <1>3, <1>4, <1>5, <1>6, <1>7, AloneNext

(* What has to be shown of a step that starts no refresh: what is pending  *)
(* was pending, and the current Snapshot it differs from is the same.      *)
LEMMA OldNews ==
    ASSUME ShapeInv, NewsInv, candidate' = candidate,
           \A i \in Ids : Pending(i)' => Pending(i) /\ current' = current,
           \A i \in Ids : table[i].state = "invalidated" => table'[i].state = "invalidated"
    PROVE  NewsInv'
<1> SUFFICES ASSUME NEW i \in Ids, Pending(i)'
             PROVE  \/ current'[BatchOf[i]] = NoId
                    \/ candidate'[current'[BatchOf[i]]] # candidate'[i]
                    \/ table'[current'[BatchOf[i]]].state = "invalidated"
  BY DEF NewsInv
<1>1. Pending(i) /\ current' = current
  OBVIOUS
<1>2. current[BatchOf[i]] \in Ids \cup {NoId}
  BY BatchOfAssumption DEF ShapeInv
<1> QED BY <1>1, <1>2 DEF NewsInv

(* Every step keeps NewsInv: a refresh compares the active row with the    *)
(* source, and the active row says what the current Snapshot says.         *)
LEMMA StepNews ==
    ASSUME SchedulerAlone, IInv, AheadInv, NewsInv, [Next]_vars
    PROVE  NewsInv'
<1>0. /\ ShapeInv /\ BuiltInv /\ TableInv(table) /\ table \in [Ids -> Row]
      /\ AtMostOne(table, "active")
      /\ requests \in Seq(Request) /\ Len(requests) \in Nat
      /\ BatchOf \in [Ids -> Batches] /\ current \in [Batches -> Ids \cup {NoId}]
      /\ candidate \in [Ids -> Contents \cup {NoContent}]
      /\ Scheduler \in Clients /\ DOMAIN client = Clients
  BY LenProperties, BatchOfAssumption DEF IInv, ShapeInv, TableInv, Clients
<1>1. ASSUME NEW b \in Batches, InvalidateChanged(b)
      PROVE  NewsInv'
  <2>1. UNCHANGED <<candidate, client, requests, current>>
    BY <1>1 DEF InvalidateChanged, public
  <2>2. \A i \in Ids : table[i].state = "invalidated" => table'[i].state = "invalidated"
    BY <1>0, <1>1, StatesAfterInvalidation DEF InvalidateChanged
  <2>3. \A i \in Ids : Pending(i)' => Pending(i)
    BY <2>1 DEF Pending, StageOf, IdOf
  <2> QED BY <1>0, <2>1, <2>2, <2>3, OldNews
<1>2. ASSUME NEW b \in Batches, Refresh(b)
      PROVE  NewsInv'
  <2>1. /\ UNCHANGED <<table, requests, current>>
        /\ client[Scheduler].at = "idle" /\ Active(b).content # Content(b)
    BY <1>0, <1>2 DEF Refresh, public, ClientIdle
  <2>2. PICK i \in Ids : /\ BatchOf[i] = b /\ candidate[i] = NoContent
                         /\ candidate' = [candidate EXCEPT ![i] = Content(b)]
                         /\ client' = [client EXCEPT ![Scheduler] = [at |-> "queued", id |-> i]]
    BY <1>2 DEF Refresh, Unused
  <2>3. \A k \in Ids : Pending(k)' => k = i
    BY <1>0, <2>2 DEF Pending
  <2>4. ASSUME current[b] # NoId
        PROVE  candidate'[current[b]] # candidate'[i] \/ table[current[b]].state = "invalidated"
    <3> DEFINE j == current[b]
    <3>1. j \in Ids /\ BatchOf[j] = b /\ table[j].state \in {"active", "invalidated"}
      BY <1>0, <2>1, <2>4 DEF AheadInv, Answering
    <3>2. ASSUME table[j].state = "active"
          PROVE  candidate'[j] # candidate'[i]
      <4>1. Stored(table, j)
        BY <3>1, <3>2 DEF Stored
      <4>2. candidate[j] # NoContent /\ table[j].content = candidate[j]
        BY <1>0, <3>1, <4>1 DEF BuiltInv, Built
      <4>3. Active(b) = RecordOf(table, j)
        BY <1>0, <3>1, <3>2, ActiveIsLoaded DEF Active
      <4>4. Active(b).content = candidate[j]
        BY <4>2, <4>3 DEF RecordOf
      <4>5. j # i
        BY <2>2, <4>2
      <4> QED BY <1>0, <2>1, <2>2, <3>1, <4>4, <4>5
    <3> QED BY <3>1, <3>2
  <2> QED BY <2>1, <2>2, <2>3, <2>4 DEF NewsInv
<1>3. CASE SchedulerPublishes
  <2>1. client[Scheduler].at = "queued" /\ client[Scheduler].id \in Ids
    BY <1>0, <1>3 DEF SchedulerPublishes, BuiltInv, ClientOK, ClientIdle, Built
  <2>2. Post(Scheduler, client[Scheduler].id) /\ UNCHANGED <<table, candidate, current>>
    BY <1>3 DEF SchedulerPublishes, public
  <2>3. requests'[Len(requests) + 1] =
               [at |-> "received", id |-> client[Scheduler].id, by |-> Scheduler]
    BY <1>0, <2>1, <2>2, PostOne
  <2>4. client'[Scheduler] = [at |-> "waiting", request |-> Len(requests) + 1]
    BY <1>0, <2>2 DEF Post, Waiting
  <2>5. client'[Scheduler].at = "waiting" /\ client'[Scheduler].request = Len(requests) + 1
    BY <2>4
  <2>6. requests'[Len(requests) + 1].id = client[Scheduler].id
    BY <2>3
  <2>7. \A i \in Ids : Pending(i)' => Pending(i)
    BY <2>1, <2>5, <2>6 DEF Pending, IdOf
  <2> QED BY <1>0, <2>2, <2>7, OldNews
<1>4. ASSUME NEW n \in DOMAIN requests, NodeStep(n)
      PROVE  NewsInv'
  <2>1. /\ n \in 1..Len(requests)
        /\ client[Scheduler].at = "waiting" /\ client[Scheduler].request = n
        /\ UNCHANGED <<table, candidate, client>>
        /\ requests'[n].id = requests[n].id
    <3>1. /\ n \in 1..Len(requests)
          /\ client[Scheduler] = [at |-> "waiting", request |-> n]
          /\ UNCHANGED <<table, candidate, client>>
      BY <1>4, WorkedOnIsAwaited
    <3>2. \A m \in 1..Len(requests) : requests'[m].id = requests[m].id
      BY <1>4, WorkedOnIsAwaited
    <3> QED BY <3>1, <3>2
  <2>2. requests'[n].at \in {"received", "checked"} =>
            requests[n].at \in {"received", "checked"} /\ current' = current
    BY <1>4, NodeOutcome
  <2>3. \A i \in Ids : Pending(i)' => Pending(i) /\ current' = current
    BY <2>1, <2>2 DEF Pending, StageOf, IdOf
  <2> QED BY <1>0, <2>1, <2>3, OldNews
<1>5. CASE ReceivePublished(Scheduler) \/ ReceiveRefused(Scheduler)
  <2>1. client'[Scheduler].at = "idle"
    BY <1>0, <1>5 DEF ReceivePublished, ReceiveRefused, ClientIdle
  <2>2. \A i \in Ids : ~Pending(i)'
    BY <2>1 DEF Pending
  <2> QED BY <2>2 DEF NewsInv
<1>6. CASE UNCHANGED <<table, candidate, client, requests, current>>
  BY <1>6 DEF NewsInv, Pending, StageOf, IdOf
<1> QED BY <1>1, <1>2, <1>3, <1>4, <1>5, <1>6, AloneNext

(* The state both services restart from satisfies all three.               *)
LEMMA PublishedInitInv ==
    ASSUME FirstPublished, PublishedInit
    PROVE  IInv /\ AheadInv /\ NewsInv
<1>1. \A b \in Batches : FirstId(b) \in Ids /\ BatchOf[FirstId(b)] = b
  BY DEF FirstPublished, FirstId
<1>2. \A i \in FirstIds : i \in Ids /\ i = FirstId(BatchOf[i]) /\ BatchOf[i] \in Batches
  BY <1>1 DEF FirstIds
<1>3. FirstContent \in Contents
  BY BoundsAssumption, FirstRouteAssumption, ContentsAssumption DEF FirstContent
<1>4. FirstContent # NoContent
  BY <1>3, NoContentAssumption
<1> HIDE DEF FirstContent
<1>5. FirstRow \in Row /\ AbsentRow \in Row
  BY <1>3 DEF FirstRow, AbsentRow, Row, States
<1>6. /\ FirstRow.state = "active" /\ FirstRow.rev = 1
      /\ FirstRow.content = FirstContent /\ FirstRow.publication = FirstContent
      /\ AbsentRow.state = "absent" /\ AbsentRow.publication = NoContent
  BY DEF FirstRow, AbsentRow
<1>7. /\ table \in [Ids -> Row]
      /\ \A i \in Ids : IF i \in FirstIds THEN table[i] = FirstRow ELSE table[i] = AbsentRow
  BY <1>5 DEF PublishedInit
<1>8. /\ candidate \in [Ids -> Contents \cup {NoContent}]
      /\ \A i \in Ids : candidate[i] = IF i \in FirstIds THEN FirstContent ELSE NoContent
  BY <1>3 DEF PublishedInit
<1>9. requests = <<>> /\ requests \in Seq(Request) /\ Len(requests) = 0
  BY DEF PublishedInit
<1>10. /\ DOMAIN client = Clients /\ Scheduler \in Clients
       /\ \A p \in Clients : client[p] = ClientIdle /\ client[p].at = "idle"
  BY DEF PublishedInit, ClientIdle, Clients
<1>11. \A b \in Batches : current[b] = FirstId(b)
  BY DEF PublishedInit
<1>12. ShapeInv
  <2>1. current \in [Batches -> Ids \cup {NoId}]
    BY <1>1 DEF PublishedInit
  <2>2. /\ head \in [Batches -> 0..MaxHead] /\ route \in [Batches -> Routes]
        /\ eligible \in [Batches -> BOOLEAN]
        /\ routeChanges \in [Batches -> 0..MaxRouteChanges]
        /\ changing \subseteq Batches
    BY BoundsAssumption, FirstRouteAssumption DEF PublishedInit
  <2> QED BY <1>8, <1>9, <1>10, <2>1, <2>2 DEF ShapeInv
<1>13. TableInv(table)
  <2>1. \A i \in Ids : Stored(table, i) <=> i \in FirstIds
    BY <1>6, <1>7 DEF Stored
  <2>2. \A b \in Batches : RowsOf(table, b) = {FirstId(b)}
    BY <1>1, <1>2, <2>1 DEF RowsOf, FirstIds
  <2>3. \A b \in Batches : table[FirstId(b)].rev = 1
    BY <1>1, <1>6, <1>7 DEF FirstIds
  <2>4. \A b \in Batches : Revisions(table, b) = 1..1
    BY <2>2, <2>3 DEF Revisions
  <2>5. Numbered(table)
    BY <2>2, <2>4 DEF Numbered
  <2>6. \A s : AtMostOne(table, s) \/ s = "absent"
    <3> SUFFICES ASSUME NEW s, s # "absent", NEW i \in Ids, NEW j \in Ids,
                        BatchOf[i] = BatchOf[j], table[i].state = s, table[j].state = s
                 PROVE  i = j
      BY DEF AtMostOne
    <3>1. i \in FirstIds /\ j \in FirstIds
      BY <1>6, <1>7
    <3> QED BY <1>2, <3>1
  <2> QED BY <1>7, <2>5, <2>6 DEF TableInv
<1>14. BuiltInv
  <2>1. \A p \in Clients : ClientOK(client[p])
    BY <1>10 DEF ClientOK
  <2>2. \A i \in Ids : IF Stored(table, i)
                        THEN i \in Built /\ table[i].content = candidate[i]
                        ELSE table[i].publication = NoContent
    BY <1>4, <1>6, <1>7, <1>8 DEF Stored, Built
  <2>3. drafts = {}
    BY DEF PublishedInit
  <2> QED BY <1>9, <2>1, <2>2, <2>3 DEF BuiltInv
<1>15. ClaimsInv
  <2>1. mined = FirstIds /\ manifests = FirstIds
    BY DEF PublishedInit
  <2>2. \A i \in Ids : table[i].publication # NoContent => i \in manifests
    BY <1>6, <1>7, <2>1
  <2> QED BY <1>2, <1>9, <2>1, <2>2 DEF ClaimsInv
<1>16. AheadInv
  <2>1. \A b \in Batches : ~Answering(b)
    BY <1>10 DEF Answering
  <2>2. \A i \in Ids : table[i].state = "active" => current[BatchOf[i]] = i
    BY <1>2, <1>6, <1>7, <1>11
  <2>3. \A b \in Batches : BatchOf[current[b]] = b /\ table[current[b]].state = "active"
    BY <1>1, <1>6, <1>7, <1>11 DEF FirstIds
  <2> QED BY <1>9, <2>1, <2>2, <2>3 DEF AheadInv
<1>17. NewsInv
  BY <1>10 DEF NewsInv, Pending
<1> QED BY <1>12, <1>13, <1>14, <1>15, <1>16, <1>17 DEF IInv

(* The three parts hold together from there on.                            *)
LEMMA AloneInvariance ==
    ASSUME SchedulerAlone, FirstPublished
    PROVE  SchedulerAloneSpec => [](IInv /\ AheadInv /\ NewsInv)
<1>1. PublishedInit => IInv /\ AheadInv /\ NewsInv
  BY PublishedInitInv
<1>2. IInv /\ AheadInv /\ NewsInv /\ [Next]_vars => (IInv /\ AheadInv /\ NewsInv)'
  BY StepIInv, StepAhead, StepNews
<1> QED BY <1>1, <1>2, PTL DEF SchedulerAloneSpec

(* A scan resolves the Snapshot that is active at scan time: between two   *)
(* publications of a scheduler that publishes alone, the contract's        *)
(* current Snapshot is the one the control server has as active.           *)
THEOREM ScanResolves ==
    ASSUME SchedulerAlone, FirstPublished
    PROVE  SchedulerAloneSpec => []ScanResolvesActive
<1>1. IInv /\ AheadInv => ScanResolvesActive
  <2> SUFFICES ASSUME IInv, AheadInv, Quiet, NEW b \in Batches, Active(b) # NoRecord
               PROVE  current[b] = Active(b).id
    BY DEF ScanResolvesActive
  <2>1. table \in [Ids -> Row] /\ AtMostOne(table, "active")
    BY DEF IInv, TableInv
  <2>2. PICK i \in InState(table, b, {"active"}) : Active(b) = RecordOf(table, i)
    BY <2>1, LoadedIsActive DEF Active
  <2>3. i \in Ids /\ BatchOf[i] = b /\ table[i].state = "active"
    BY <2>2 DEF InState
  <2>4. ~Answering(b)
    BY DEF Quiet, Answering, Clients
  <2>5. Active(b).id = i
    BY <2>2 DEF RecordOf
  <2> QED BY <2>3, <2>4, <2>5 DEF AheadInv
<1> QED BY <1>1, AloneInvariance, PTL

(* The refresh never publishes again what the contract's current Snapshot  *)
(* says already, unless a route change invalidated that one.               *)
THEOREM NoNeedlessPublication ==
    ASSUME SchedulerAlone, FirstPublished
    PROVE  SchedulerAloneSpec => NoRepublication
<1>1. ASSUME IInv, AheadInv, NewsInv, [Next]_vars
      PROVE  \A b \in Batches : \A n \in DOMAIN requests :
                 /\ requests[n].by = Scheduler
                 /\ current[b] # NoId /\ current'[b] # current[b]
                 /\ current'[b] = IdOf(n)
                 /\ candidate[current'[b]] = candidate[current[b]]
                 => table[current[b]].state = "invalidated"
  <2> SUFFICES ASSUME NEW b \in Batches, current[b] # NoId, current'[b] # current[b],
                      candidate[current'[b]] = candidate[current[b]]
               PROVE  table[current[b]].state = "invalidated"
    OBVIOUS
  <2>1. PICK m \in DOMAIN requests : NodeStep(m)
    <3>1. ASSUME NEW c \in Batches, InvalidateChanged(c) \/ Refresh(c)
          PROVE  FALSE
      BY <1>1, <3>1 DEF InvalidateChanged, Refresh, public
    <3>2. CASE SchedulerPublishes \/ ReceivePublished(Scheduler) \/ ReceiveRefused(Scheduler)
      BY <3>2 DEF SchedulerPublishes, ReceivePublished, ReceiveRefused, public
    <3> QED BY <1>1, <3>1, <3>2, AloneNext
  <2>2. /\ m \in 1..Len(requests) /\ requests[m].id \in Ids
        /\ client[Scheduler] = [at |-> "waiting", request |-> m]
    BY <1>1, <2>1, WorkedOnIsAwaited
  <2>3. /\ requests[m].at = "checked"
        /\ current' = [current EXCEPT ![BatchOf[requests[m].id]] = requests[m].id]
    BY <1>1, <2>1, NodeOutcome
  <2>4. b = BatchOf[requests[m].id] /\ current'[b] = requests[m].id
    BY <1>1, <2>3 DEF IInv, ShapeInv
  <2>5. client[Scheduler].at = "waiting" /\ client[Scheduler].request = m
    BY <2>2
  <2>6. Pending(requests[m].id)
    BY <2>3, <2>5 DEF Pending, StageOf, IdOf
  <2> QED BY <1>1, <2>2, <2>4, <2>6 DEF NewsInv
<1> QED BY <1>1, AloneInvariance, PTL DEF SchedulerAloneSpec, NoRepublication
=============================================================================
