---------------------------- MODULE OutboxProofs ----------------------------
(***************************************************************************)
(* The webhook outbox, for any number of endpoints, events and publishers: *)
(* what the rows say of the posts, that no pending delivery is lost, that  *)
(* the worker never sleeps on one it was told of, and that the outbox      *)
(* implements a queue of events per endpoint.                              *)
(***************************************************************************)
EXTENDS OutboxProperties, FiniteSetTheorems, WellFoundedInduction, TLAPS

\* Publishers under way have their events to come.
PublishInv ==
  /\ IsFiniteSet(Publishing)
  /\ count + Cardinality(Publishing) <= NV

\* A row belongs to an event that is stored and an endpoint that is live; one
\* that is pending has attempts left and, untried, is due.
RowInv ==
  \A r \in Rows :
    /\ row[r].state # "none" => r[1] \in stored /\ endpoint[r[2]] = "live"
    /\ row[r].state = "pending" =>
         row[r].attempts < MaxAttempts /\ (row[r].attempts = 0 => row[r].due)
    /\ row[r].state = "failed" => row[r].attempts = MaxAttempts

\* Only a batch sends; what is sent is pending unless its endpoint has gone, and
\* what is to be written down as delivered was accepted.
FlightInv ==
  /\ worker = "batch" => busy
  /\ \A ep \in Endpoints : flight[ep].at # "none" =>
       /\ worker = "batch"
       /\ flight[ep].event \in 1..count
       /\ row[<<flight[ep].event, ep>>].state \in {"none", "pending"}
       /\ \A e \in Events : Pending(e, ep) => flight[ep].event <= e
       /\ flight[ep].at # "post" /\ flight[ep].ok => <<flight[ep].event, ep>> \in accepted

\* The posts of an endpoint follow the order of its events, none after an event
\* that has still to be sent.
Ordered(ep) ==
  /\ \A i \in DOMAIN tried[ep] :
       /\ tried[ep][i] <= count
       /\ \A e \in Events : Pending(e, ep) => tried[ep][i] <= e
       /\ flight[ep].at # "none" => tried[ep][i] <= flight[ep].event
  /\ \A i, j \in DOMAIN tried[ep] : i <= j => tried[ep][i] <= tried[ep][j]

OrderInv == \A ep \in Endpoints : Ordered(ep)

OutboxInv == TypeOK /\ PublishInv /\ RowInv /\ FlightInv /\ OrderInv

-----------------------------------------------------------------------------
\* A flag goes with its event.
FlagInv == FlagFollowsRows /\ \A e \in Events : flag[e] => e \in stored

\* The posts of every delivery, the one in hand among them.
Mishaps == (MaxFaults - faults) + (MaxCrashes - crashes)

Tried(r) ==
  row[r].state # "none" =>
    /\ row[r].attempts + InHand(r) <= Tries(r)
    /\ Tries(r) <= row[r].attempts + InHand(r) + Mishaps

TriesInv == \A r \in Rows : Tried(r)

\* From a query that finds nothing on, an untried head has a publisher to signal.
Unsignalled == ~wake /\ \A p \in Publishers : pub[p] # "wake"

WakeInv ==
  \/ worker = "prune" /\ ~busy
  \/ worker = "sleep" /\ ~error
  => (Unsignalled => \A r \in DueHeads : row[r].attempts > 0)

-----------------------------------------------------------------------------
(* Helpers *)

LEMMA LeastNumber ==
  ASSUME NEW T, T \subseteq Nat, T # {}
  PROVE  \E x \in T : \A y \in T : x <= y
<1> DEFINE R == OpToRel(<, Nat)
<1>1. IsWellFoundedOn(R, Nat)
  BY NatLessThanWellFounded
<1>2. \A x \in T, y \in T : ~(<<y, x>> \in R) => x <= y
  BY DEF OpToRel
<1> HIDE DEF R
<1>3. \E x \in T : \A y \in T : ~(<<y, x>> \in R)
  BY <1>1, WFMin
<1> QED BY <1>2, <1>3

\* What a query puts in flight: heads of queues, of live endpoints, due.
LEMMA QueryTakes ==
  ASSUME TypeOK, Query, NEW ep \in Endpoints
  PROVE  \/ /\ flight'[ep] = NoSend
            /\ \A r \in Batch : r[2] # ep
         \/ /\ Batch # {}
            /\ \E e \in Events :
                 /\ flight'[ep] = [at |-> "post", ok |-> FALSE, event |-> e]
                 /\ Pending(e, ep) /\ endpoint[ep] = "live"
                 /\ \A f \in Events : Pending(f, ep) => e <= f
<1>1. CASE \E r \in Batch : r[2] = ep
  <2> DEFINE h == CHOOSE r \in Batch : r[2] = ep
  <2>1. h \in Batch /\ h[2] = ep
    BY <1>1
  <2>2. flight'[ep] = [at |-> "post", ok |-> FALSE, event |-> h[1]]
    BY <1>1 DEF Query
  <2> HIDE DEF h
  <2>3. /\ h[1] \in Events /\ Pending(h[1], ep) /\ ep \in Live
        /\ \A f \in Events : Pending(f, ep) => h[1] <= f
    BY <2>1 DEF Batch, DueHeads, Rows
  <2> QED BY <2>1, <2>2, <2>3 DEF Live
<1>2. CASE ~ \E r \in Batch : r[2] = ep
  BY <1>2 DEF Query
<1> QED BY <1>1, <1>2

\* A query that finds nothing finds no due head: the first of them is within
\* every limit.
LEMMA EmptyBatch ==
  ASSUME TypeOK, Batch = {}
  PROVE  DueHeads = {}
<1> SUFFICES ASSUME DueHeads # {} PROVE FALSE
  OBVIOUS
<1>0. DueHeads \subseteq Events \X Endpoints /\ Events \subseteq Nat /\ Endpoints \subseteq Nat
  BY DEF DueHeads, Rows, Events, Endpoints
<1> DEFINE E == {r[1] : r \in DueHeads}
<1>1. PICK e \in E : \A f \in E : e <= f
  <2>1. E \subseteq Nat /\ E # {}
    BY <1>0
  <2> HIDE DEF E
  <2> QED BY <2>1, LeastNumber
<1> DEFINE T == {r[2] : r \in {s \in DueHeads : s[1] = e}}
<1>2. PICK ep \in T : \A x \in T : ep <= x
  <2>1. T \subseteq Nat /\ T # {}
    BY <1>0
  <2> HIDE DEF T
  <2> QED BY <2>1, LeastNumber
<1>3. PICK r \in DueHeads : r[1] = e /\ r[2] = ep
  OBVIOUS
<1>4. \A s \in DueHeads : ~Before(s, r)
  <2>1. ASSUME NEW s \in DueHeads PROVE ~Before(s, r)
    <3>1. s[1] \in Nat /\ s[2] \in Nat /\ e \in Nat /\ ep \in Nat /\ e <= s[1]
      BY <1>0, <1>1, <1>3
    <3>2. s[1] = e => ep <= s[2]
      BY <1>2
    <3> QED BY <1>3, <3>1, <3>2 DEF Before
  <2> QED BY <2>1
<1>5. {s \in DueHeads : Before(s, r)} = {}
  BY <1>4
<1>6. Cardinality({s \in DueHeads : Before(s, r)}) = 0
  BY <1>5, FS_EmptySet
<1>7. r \in Batch
  BY <1>6, OutboxAssumption DEF Batch
<1> QED BY <1>7

\* Publishers come and go one at a time.
LEMMA PublishingSteps ==
  ASSUME PublishInv, TypeOK, NEW p
  PROVE  /\ count' = count /\ Publishing' \subseteq Publishing => PublishInv'
         /\ /\ count' = count /\ Publishing' = Publishing \cup {p}
            /\ count + Cardinality(Publishing) < NV
            => PublishInv'
         /\ /\ count' = count + 1 /\ Publishing' = Publishing \ {p}
            /\ p \in Publishing
            => PublishInv' /\ count' \in 0..NV
<1> DEFINE P == Publishing
           Q == Publishing'
<1>1. IsFiniteSet(P) /\ Cardinality(P) \in Nat
  BY FS_CardinalityType DEF PublishInv
<1>2. /\ NV \in Nat /\ count \in 0..NV /\ count + Cardinality(P) <= NV
      /\ PublishInv' <=> IsFiniteSet(Q) /\ count' + Cardinality(Q) <= NV
  BY OutboxAssumption DEF PublishInv, TypeOK
<1> HIDE DEF P, Q
<1>3. ASSUME count' = count, Q \subseteq P PROVE PublishInv'
  <2>1. /\ IsFiniteSet(Q) /\ Cardinality(Q) \in Nat
        /\ Cardinality(Q) <= Cardinality(P)
    BY <1>1, <1>3, FS_Subset, FS_CardinalityType
  <2> QED BY <1>1, <1>2, <1>3, <2>1
<1>4. ASSUME count' = count, Q = P \cup {p}, count + Cardinality(P) < NV
      PROVE  PublishInv'
  <2>1. /\ IsFiniteSet(Q) /\ Cardinality(Q) \in Nat
        /\ Cardinality(Q) <= Cardinality(P) + 1
    <3>1. CASE p \in P
      <4>1. Q = P
        BY <1>4, <3>1
      <4> QED BY <1>1, <4>1
    <3>2. CASE p \notin P
      BY <1>1, <1>4, <3>2, FS_AddElement
    <3> QED BY <3>1, <3>2
  <2> QED BY <1>1, <1>2, <1>4, <2>1
<1>5. ASSUME count' = count + 1, Q = P \ {p}, p \in P
      PROVE  PublishInv' /\ count' \in 0..NV
  <2>1. /\ IsFiniteSet(Q) /\ Cardinality(Q) \in Nat
        /\ Cardinality(Q) = Cardinality(P) - 1
    BY <1>1, <1>5, FS_RemoveElement, FS_CardinalityType
  <2> QED BY <1>1, <1>2, <1>5, <2>1
<1> QED BY <1>3, <1>4, <1>5 DEF P, Q

-----------------------------------------------------------------------------
(* Types *)

LEMMA FinishedType ==
  ASSUME NEW o \in RowType, o.attempts < MaxAttempts, NEW ok \in BOOLEAN
  PROVE  /\ Finished(o, ok) \in RowType
         /\ Finished(o, ok).attempts = o.attempts + 1
         /\ Finished(o, ok).state = "delivered" <=> ok
         /\ Finished(o, ok).state = "failed" => Finished(o, ok).attempts = MaxAttempts
         /\ Finished(o, ok).state = "pending" => Finished(o, ok).attempts < MaxAttempts
         /\ Finished(o, ok).state # "none"
<1>1. o.attempts \in 0..MaxAttempts /\ MaxAttempts \in Nat
  BY OutboxAssumption DEF RowType
<1>2. /\ Finished(o, ok).attempts = o.attempts + 1
      /\ Finished(o, ok).due = FALSE
      /\ Finished(o, ok).state = IF ok THEN "delivered"
             ELSE IF o.attempts + 1 >= MaxAttempts THEN "failed" ELSE "pending"
  BY DEF Finished
<1>3. Finished(o, ok) \in RowType
  BY <1>1 DEF Finished, RowType
<1> QED BY <1>1, <1>2, <1>3

LEMMA ClientTypes ==
  ASSUME OutboxInv,
         \/ \E ep \in Endpoints : DeleteEndpoint(ep)
         \/ \E ep \in Endpoints, kinds \in Filters : CreateEndpoint(ep, kinds)
  PROVE  TypeOK' /\ PublishInv'
<1> USE OutboxAssumption DEF OutboxInv, TypeOK, endpoints, store, publishing, signals,
   history,
                             bounds
<1>1. ASSUME NEW ep \in Endpoints, DeleteEndpoint(ep) PROVE TypeOK'
  <2>1. NoRow \in RowType
    BY DEF NoRow, RowType
  <2> QED BY <1>1, <2>1 DEF DeleteEndpoint
<1>2. ASSUME NEW ep \in Endpoints, NEW kinds \in Filters, CreateEndpoint(ep, kinds) PROVE TypeOK'
  BY <1>2 DEF CreateEndpoint
<1>3. PublishInv'
  BY DEF DeleteEndpoint, CreateEndpoint, PublishInv, Publishing
<1> QED BY <1>1, <1>2, <1>3

LEMMA PublisherTypes ==
  ASSUME OutboxInv, NEW p \in Publishers,
         Publish(p) \/ PublisherStep(p) \/ PublishFails(p) \/ CancelPublish(p)
  PROVE  TypeOK' /\ PublishInv'
<1> USE DEF OutboxInv, PublisherStep
<1>0. pub \in [Publishers -> {"idle", "list", "record", "wake"}]
  BY DEF TypeOK
<1>1. CASE Publish(p)
  <2>1. /\ Publishing' = Publishing \cup {p} /\ count' = count
        /\ count + Cardinality(Publishing) < NV
    BY <1>0, <1>1 DEF Publish, Publishing, store
  <2>2. PublishInv'
    BY <2>1, PublishingSteps
  <2> QED BY <1>1, <2>2
          DEF Publish, TypeOK, endpoints, store, signals, history, bounds
<1>2. CASE ListTargets(p)
  <2>1. Publishing' \subseteq Publishing /\ count' = count
    BY <1>0, <1>2 DEF ListTargets, Publishing, store
  <2>2. PublishInv'
    BY <2>1, PublishingSteps
  <2>3. targets' \in [Publishers -> SUBSET Endpoints]
    BY <1>2 DEF ListTargets, TypeOK, Live
  <2> QED BY <1>2, <2>2, <2>3
          DEF ListTargets, TypeOK, endpoints, store, signals, history, bounds
<1>3. CASE Record(p)
  <2>1. /\ p \in Publishing /\ Publishing' = Publishing \ {p}
        /\ count' = count + 1 \/ count' = count
    BY <1>0, <1>3 DEF Record, Publishing
  <2>2. PublishInv' /\ count' \in 0..NV
    BY <2>1, PublishingSteps DEF TypeOK
  <2>3. row' \in [Rows -> RowType]
    <3>1. NewRow \in RowType
      BY OutboxAssumption DEF NewRow, RowType
    <3> QED BY <1>3, <3>1 DEF Record, TypeOK
  <2>4. stored' \subseteq 1..count'
    <3>1. count \in Nat /\ stored \subseteq 1..count
      BY OutboxAssumption DEF TypeOK
    <3>2. CASE count' = count /\ stored' = stored
      BY <3>1, <3>2
    <3>3. CASE count' = count + 1 /\ stored' = stored \cup {count'}
      BY <3>1, <3>3
    <3> QED BY <1>3, <3>2, <3>3 DEF Record
  <2> QED BY <1>3, <2>2, <2>3, <2>4 DEF Record, TypeOK, endpoints, signals, history,
     bounds
<1>4. CASE SetWake(p)
  <2>1. Publishing' \subseteq Publishing /\ count' = count
    BY <1>0, <1>4 DEF SetWake, Publishing, store
  <2>2. PublishInv'
    BY <2>1, PublishingSteps
  <2> QED BY <1>4, <2>2 DEF SetWake, TypeOK, endpoints, store, history, bounds
<1>5. CASE PublishFails(p) \/ CancelPublish(p)
  <2>1. Publishing' \subseteq Publishing /\ count' = count
    BY <1>0, <1>5 DEF PublishFails, CancelPublish, Publishing, store
  <2>2. PublishInv'
    BY <2>1, PublishingSteps
  <2>3. faults' \in 0..MaxFaults
    BY <1>5, OutboxAssumption DEF PublishFails, CancelPublish, UseFault, TypeOK, bounds
  <2>4. targets' \in [Publishers -> SUBSET Endpoints]
    BY <1>5 DEF PublishFails, CancelPublish, TypeOK
  <2> QED BY <1>5, <2>2, <2>3, <2>4
          DEF PublishFails, CancelPublish, TypeOK, endpoints, store, signals, history,
              bounds
<1> QED BY <1>1, <1>2, <1>3, <1>4, <1>5

LEMMA WorkerTypes ==
  ASSUME OutboxInv,
         \/ WorkerStep \/ CycleFails
         \/ \E ep \in Endpoints : SendFails(ep)
         \/ \E r \in Rows : BackoffEnds(r)
  PROVE  TypeOK' /\ PublishInv'
<1> USE OutboxAssumption DEF OutboxInv, TypeOK, endpoints, store, publishing, signals,
   history,
                             bounds, NextCycle, UseFault
<1>1. CASE Query
  <2>1. flight' \in [Endpoints -> Flight]
    <3>1. ASSUME NEW ep \in Endpoints PROVE flight'[ep] \in Flight
      <4>1. CASE flight'[ep] = NoSend
        BY <4>1 DEF Flight, NoSend
      <4>2. CASE \E e \in Events : flight'[ep] = [at |-> "post", ok |-> FALSE, event |-> e]
        BY <4>2 DEF Flight, Events
      <4> QED BY <1>1, <4>1, <4>2, QueryTakes
    <3> QED BY <1>1, <3>1 DEF Query
  <2> QED BY <1>1, <2>1 DEF Query, PublishInv, Publishing
<1>2. CASE BatchDone
  BY <1>2 DEF BatchDone, PublishInv, Publishing
<1>3. CASE Awake
  BY <1>3 DEF Awake, PublishInv, Publishing
<1>4. ASSUME NEW old, Prune(old) PROVE TypeOK' /\ PublishInv'
  <2>1. NoRow \in RowType
    BY DEF NoRow, RowType
  <2>2. row' \in [Rows -> RowType] /\ flag' \in [Events -> BOOLEAN]
    BY <1>4, <2>1 DEF Prune
  <2> QED BY <1>4, <2>2 DEF Prune, PublishInv, Publishing
<1>5. ASSUME NEW ep \in Endpoints, Post(ep) PROVE TypeOK' /\ PublishInv'
  <2>1. flight[ep].event \in 1..count /\ count \in 0..NV /\ NV \in Nat
    BY <1>5 DEF Post, FlightInv
  <2>2. flight[ep].event \in Events
    BY <2>1 DEF Events
  <2>3. tried' \in [Endpoints -> Seq(Events)]
    BY <1>5, <2>2 DEF Post
  <2>4. accepted' \subseteq Rows
    BY <1>5, <2>2 DEF Post, Rows
  <2>5. flight' \in [Endpoints -> Flight]
    <3>1. PICK ok \in BOOLEAN : flight' = [flight EXCEPT ![ep].at = "read", ![ep].ok = ok]
      BY <1>5 DEF Post
    <3>2. flight[ep] \in Flight
      OBVIOUS
    <3>3. flight'[ep] \in Flight
      BY <3>1, <3>2 DEF Flight
    <3> QED BY <3>1, <3>3
  <2> QED BY <1>5, <2>3, <2>4, <2>5 DEF Post, PublishInv, Publishing
<1>6. ASSUME NEW ep \in Endpoints, FinishRead(ep) PROVE TypeOK' /\ PublishInv'
  <2>1. flight' \in [Endpoints -> Flight]
    <3>1. flight'[ep] \in Flight
      <4>1. flight[ep] \in Flight /\ NoSend \in Flight
        BY DEF Flight, NoSend
      <4>2. [flight[ep] EXCEPT !.at = "update"] \in Flight
        BY <4>1 DEF Flight
      <4>3. flight'[ep] \in {NoSend, [flight[ep] EXCEPT !.at = "update"]}
        BY <1>6 DEF FinishRead
      <4> QED BY <4>1, <4>2, <4>3
    <3> QED BY <1>6, <3>1 DEF FinishRead
  <2> QED BY <1>6, <2>1 DEF FinishRead, PublishInv, Publishing
<1>7. ASSUME NEW ep \in Endpoints, FinishWrite(ep) PROVE TypeOK' /\ PublishInv'
  <2> DEFINE r == <<flight[ep].event, ep>>
  <2>1. /\ r \in Rows /\ row[r].state \in {"none", "pending"}
        /\ row[r].state = "pending" => row[r].attempts < MaxAttempts
        /\ flight[ep].ok \in BOOLEAN /\ row[r] \in RowType
    BY <1>7 DEF FinishWrite, FlightInv, RowInv, Events, Rows, Flight
  <2>2. flight' \in [Endpoints -> Flight]
    BY <1>7 DEF FinishWrite, Flight, NoSend
  <2>3. row' \in [Rows -> RowType]
    <3>1. row' = IF row[r].state = "none" THEN row
                 ELSE [row EXCEPT ![r] = Finished(row[r], flight[ep].ok)]
      BY <1>7 DEF FinishWrite
    <3>2. row[r].state = "pending" => Finished(row[r], flight[ep].ok) \in RowType
      BY <2>1, FinishedType
    <3> HIDE DEF r
    <3> QED BY <2>1, <3>1, <3>2
  <2>4. flag' \in [Events -> BOOLEAN]
    BY <1>7 DEF FinishWrite, AllDelivered
  <2> QED BY <1>7, <2>2, <2>3, <2>4 DEF FinishWrite, PublishInv, Publishing
<1>8. ASSUME NEW ep \in Endpoints, SendFails(ep) PROVE TypeOK' /\ PublishInv'
  BY <1>8 DEF SendFails, Flight, NoSend, PublishInv, Publishing
<1>9. CASE CycleFails
  BY <1>9 DEF CycleFails, PublishInv, Publishing
<1>10. ASSUME NEW r \in Rows, BackoffEnds(r) PROVE TypeOK' /\ PublishInv'
  <2>1. row' \in [Rows -> RowType]
    <3>1. row[r] \in RowType /\ row' = [row EXCEPT ![r].due = TRUE]
      BY <1>10 DEF BackoffEnds
    <3>2. row'[r] \in RowType
      BY <3>1 DEF RowType
    <3> QED BY <3>1, <3>2
  <2> QED BY <1>10, <2>1 DEF BackoffEnds, PublishInv, Publishing
<1> QED BY <1>1, <1>2, <1>3, <1>4, <1>5, <1>6, <1>7, <1>8, <1>9, <1>10 DEF WorkerStep

LEMMA ProcessTypes ==
  ASSUME OutboxInv, Start \/ Stop \/ StopTimeout \/ Crash \/ UNCHANGED vars
  PROVE  TypeOK' /\ PublishInv'
<1> USE OutboxAssumption DEF OutboxInv, TypeOK, endpoints, store, publishing, signals,
   history,
                             bounds
<1>1. CASE Start \/ Stop \/ UNCHANGED vars
  BY <1>1 DEF Start, Stop, vars, PublishInv, Publishing
<1>2. ASSUME LoseWork
      PROVE  /\ flight' \in [Endpoints -> Flight] /\ failed' = FALSE
             /\ crashes' \in 0..MaxCrashes
             /\ UNCHANGED <<endpoints, store, busy, history, faults>>
  BY <1>2 DEF LoseWork, UseCrash, Flight, NoSend
<1>3. CASE StopTimeout
  BY <1>2, <1>3 DEF StopTimeout, PublishInv, Publishing
<1>4. CASE Crash
  <2>1. Publishing' = {} /\ count' = count
    BY <1>2, <1>4 DEF Crash, Publishing
  <2>2. PublishInv'
    BY <2>1, FS_EmptySet DEF PublishInv
  <2> QED BY <1>2, <1>4, <2>2 DEF Crash
<1> QED BY <1>1, <1>3, <1>4

-----------------------------------------------------------------------------
(* Rows, sends and their order *)

\* An event and its rows are recorded, as the next one.
LEMMA RecordEffect ==
  ASSUME OutboxInv, NEW p \in Publishers, Record(p)
  PROVE  /\ UNCHANGED <<endpoints, flag, worker, busy, failed, flight, signals, history, bounds>>
         /\ \/ UNCHANGED <<count, stored, row>>
            \/ /\ count' = count + 1 /\ stored' = stored \cup {count + 1}
               /\ pub'[p] = "wake"
               /\ \A r \in Rows :
                    \/ row'[r] = row[r]
                    \/ r[1] = count + 1 /\ r[2] \in Live /\ row'[r] = NewRow
         /\ \A r \in Rows : r[1] > count => row[r].state = "none"
<1>1. /\ row \in [Rows -> RowType] /\ stored \subseteq 1..count /\ count \in Nat
      /\ pub \in [Publishers -> {"idle", "list", "record", "wake"}]
  BY OutboxAssumption DEF OutboxInv, TypeOK
<1>2. \A r \in Rows : r[1] > count => row[r].state = "none"
  <2>1. ASSUME NEW r \in Rows, r[1] > count PROVE r[1] \notin stored
    <3>1. stored \subseteq {i \in Nat : i <= count}
      BY <1>1
    <3>2. r[1] \in Nat
      BY DEF Rows, Events
    <3> QED BY <1>1, <2>1, <3>1, <3>2
  <2> QED BY <2>1 DEF OutboxInv, RowInv
<1> QED BY <1>1, <1>2 DEF Record

\* The rows but one stay as they are when a delivery is written down.
LEMMA WriteEffect ==
  ASSUME OutboxInv, NEW ep \in Endpoints, FinishWrite(ep)
  PROVE  LET r == <<flight[ep].event, ep>> IN
         /\ r \in Rows /\ flight' = [flight EXCEPT ![ep] = NoSend]
         /\ flight[ep].at = "update" /\ flight[ep].ok \in BOOLEAN
         /\ \A q \in Rows \ {r} : row'[q] = row[q]
         /\ \/ row[r].state = "none" /\ row'[r] = row[r]
            \/ /\ row[r].state = "pending" /\ row[r].attempts < MaxAttempts
               /\ row'[r] = Finished(row[r], flight[ep].ok) /\ row[r] \in RowType
<1> DEFINE r == <<flight[ep].event, ep>>
<1>1. /\ r \in Rows /\ row[r].state \in {"none", "pending"} /\ row[r] \in RowType
      /\ row[r].state = "pending" => row[r].attempts < MaxAttempts
      /\ flight[ep].ok \in BOOLEAN
  BY OutboxAssumption
     DEF FinishWrite, OutboxInv, TypeOK, FlightInv, RowInv, Events, Rows, Flight
<1>2. /\ row' = IF row[r].state = "none" THEN row
                ELSE [row EXCEPT ![r] = Finished(row[r], flight[ep].ok)]
      /\ flight' = [flight EXCEPT ![ep] = NoSend] /\ flight[ep].at = "update"
  BY DEF FinishWrite
<1>3. row \in [Rows -> RowType]
  BY DEF OutboxInv, TypeOK
<1> HIDE DEF r
<1>4. /\ \A q \in Rows \ {r} : row'[q] = row[q]
      /\ \/ row[r].state = "none" /\ row'[r] = row[r]
         \/ /\ row[r].state = "pending" /\ row[r].attempts < MaxAttempts
            /\ row'[r] = Finished(row[r], flight[ep].ok) /\ row[r] \in RowType
  BY <1>1, <1>2, <1>3
<1> QED BY <1>1, <1>2, <1>4 DEF r

\* What the steps that write no row leave alone.
LEMMA QuietRows ==
  ASSUME [Next]_vars,
         ~ \E p \in Publishers : Record(p),
         ~ \E ep \in Endpoints : DeleteEndpoint(ep) \/ FinishWrite(ep),
         ~ \E ep \in Endpoints, kinds \in Filters : CreateEndpoint(ep, kinds),
         ~ \E old \in SUBSET Events : Prune(old),
         ~ \E r \in Rows : BackoffEnds(r)
  PROVE  UNCHANGED <<endpoints, store>>
<1>1. CASE UNCHANGED vars
  BY <1>1 DEF vars
<1>2. CASE \E p \in Publishers : Publish(p) \/ PublisherStep(p) \/ PublishFails(p) \/ CancelPublish(p)
  BY <1>2 DEF Publish, PublisherStep, ListTargets, SetWake, PublishFails, CancelPublish
<1>3. CASE WorkerStep \/ CycleFails \/ \E ep \in Endpoints : SendFails(ep)
  BY <1>3 DEF WorkerStep, Query, BatchDone, Awake, Post, FinishRead, CycleFails,
     SendFails
<1>4. CASE Start \/ Stop \/ StopTimeout \/ Crash
  BY <1>4 DEF Start, Stop, StopTimeout, Crash, LoseWork
<1> QED BY <1>1, <1>2, <1>3, <1>4 DEF Next

LEMMA RowSteps ==
  ASSUME OutboxInv, [Next]_vars
  PROVE  RowInv'
<1>0. /\ row \in [Rows -> RowType]
      /\ endpoint \in [Endpoints -> {"new", "live", "deleted"}]
      /\ \A r \in Rows : r[1] \in Events /\ r[2] \in Endpoints
      /\ RowInv /\ MaxAttempts \in Nat \ {0}
  BY OutboxAssumption DEF OutboxInv, TypeOK, Rows
<1>1. ASSUME NEW p \in Publishers, Record(p) PROVE RowInv'
  <2>1. NewRow.state = "pending" /\ NewRow.attempts = 0 /\ NewRow.due
    BY DEF NewRow
  <2> QED BY <1>0, <1>1, <2>1, RecordEffect DEF RowInv, endpoints, Live
<1>2. ASSUME NEW ep \in Endpoints, DeleteEndpoint(ep) PROVE RowInv'
  BY <1>0, <1>2 DEF DeleteEndpoint, RowInv, NoRow
<1>3. ASSUME NEW ep \in Endpoints, FinishWrite(ep) PROVE RowInv'
  <2> DEFINE r == <<flight[ep].event, ep>>
  <2>1. /\ r \in Rows /\ flight[ep].ok \in BOOLEAN
        /\ \A q \in Rows \ {r} : row'[q] = row[q]
        /\ \/ row[r].state = "none" /\ row'[r] = row[r]
           \/ /\ row[r].state = "pending" /\ row[r].attempts < MaxAttempts
              /\ row'[r] = Finished(row[r], flight[ep].ok) /\ row[r] \in RowType
    BY <1>3, WriteEffect
  <2>2. stored' = stored /\ endpoint' = endpoint
    BY <1>3 DEF FinishWrite, endpoints
  <2>3. row[r].attempts \in Nat
    BY <1>0, <2>1 DEF RowType
  <2> HIDE DEF r
  <2>4. CASE row'[r] = row[r]
    BY <1>0, <2>1, <2>2, <2>4 DEF RowInv
  <2>5. CASE /\ row[r].state = "pending" /\ row[r].attempts < MaxAttempts
             /\ row'[r] = Finished(row[r], flight[ep].ok) /\ row[r] \in RowType
    <3>1. /\ row'[r].attempts = row[r].attempts + 1
          /\ row'[r].state = "failed" => row'[r].attempts = MaxAttempts
          /\ row'[r].state = "pending" => row'[r].attempts < MaxAttempts
      BY <2>1, <2>5, FinishedType
    <3> QED BY <1>0, <2>1, <2>2, <2>3, <2>5, <3>1 DEF RowInv
  <2> QED BY <2>1, <2>4, <2>5
<1>4. ASSUME NEW old, Prune(old) PROVE RowInv'
  BY <1>0, <1>4 DEF Prune, RowInv, NoRow, endpoints
<1>5. ASSUME NEW r \in Rows, BackoffEnds(r) PROVE RowInv'
  <2>1. /\ \A q \in Rows : row'[q].state = row[q].state /\ row'[q].attempts = row[q].attempts
        /\ \A q \in Rows : row[q].due => row'[q].due
    BY <1>0, <1>5 DEF BackoffEnds, RowType
  <2>2. stored' = stored /\ endpoint' = endpoint
    BY <1>5 DEF BackoffEnds, endpoints
  <2> QED BY <1>0, <2>1, <2>2 DEF RowInv
<1>6. ASSUME NEW ep \in Endpoints, NEW kinds, CreateEndpoint(ep, kinds) PROVE RowInv'
  BY <1>0, <1>6 DEF CreateEndpoint, RowInv, store
<1>7. ASSUME UNCHANGED <<endpoints, store>> PROVE RowInv'
  BY <1>0, <1>7 DEF RowInv, endpoints, store
<1> QED BY <1>1, <1>2, <1>3, <1>4, <1>5, <1>6, <1>7, QuietRows

\* Numbers of events.
LEMMA EventFacts ==
  ASSUME OutboxInv
  PROVE  /\ count \in Nat /\ \A e \in Events : e \in Nat
         /\ \A ep \in Endpoints : flight[ep].at # "none" =>
              flight[ep].event \in Events /\ flight[ep].event \in 1..count
         /\ \A e \in Events, ep \in Endpoints :
              <<e, ep>> \in Rows /\ (row[<<e, ep>>].state # "none" => e \in 1..count)
         /\ \A ep \in Endpoints : tried[ep] \in Seq(Events)
<1>1. /\ count \in Nat /\ NV \in Nat /\ count <= NV /\ stored \subseteq 1..count
      /\ \A ep \in Endpoints : tried[ep] \in Seq(Events)
  BY OutboxAssumption DEF OutboxInv, TypeOK
<1>2. 1..count \subseteq Events /\ \A e \in Events : e \in Nat
  BY <1>1 DEF Events
<1>3. \A ep \in Endpoints : flight[ep].at # "none" =>
        flight[ep].event \in Events /\ flight[ep].event \in 1..count
  BY <1>2 DEF OutboxInv, FlightInv
<1>4. ASSUME NEW e \in Events, NEW ep \in Endpoints, row[<<e, ep>>].state # "none"
      PROVE  e \in 1..count
  <2>1. <<e, ep>> \in Rows
    BY DEF Rows
  <2>2. <<e, ep>>[1] \in stored
    BY <1>4, <2>1 DEF OutboxInv, RowInv
  <2> QED BY <1>1, <2>2
<1> QED BY <1>1, <1>2, <1>3, <1>4 DEF Rows

\* A step that sends nothing new, and queues nothing but a later event.
LEMMA SettledSends ==
  ASSUME OutboxInv, TypeOK', UNCHANGED tried, count' >= count,
     accepted \subseteq accepted',
         worker' = "batch" => worker = "batch" /\ busy' = busy,
         \A ep \in Endpoints :
           \/ flight'[ep].at = "none"
           \/ /\ worker' = worker /\ flight[ep].at # "none"
              /\ flight'[ep].event = flight[ep].event
              /\ flight'[ep].at # "post" /\ flight'[ep].ok =>
                   flight[ep].at # "post" /\ flight[ep].ok
              /\ \/ row'[<<flight[ep].event, ep>>] = row[<<flight[ep].event, ep>>]
                 \/ row'[<<flight[ep].event, ep>>].state = "none",
         \A e \in Events, ep \in Endpoints : Pending(e, ep)' => Pending(e, ep) \/ e > count
  PROVE  FlightInv' /\ OrderInv'
<1>0. /\ count \in Nat /\ count' \in Nat
      /\ \A e \in Events : e \in Nat
      /\ tried \in [Endpoints -> Seq(Events)]
      /\ \A ep \in Endpoints : flight[ep].at # "none" =>
           flight[ep].event \in Nat /\ flight[ep].event <= count
      /\ FlightInv /\ OrderInv
  <2>1. count' \in Nat
    BY OutboxAssumption DEF TypeOK
  <2> QED BY <2>1, EventFacts DEF OutboxInv, TypeOK
<1>1. FlightInv'
  <2>1. worker' = "batch" => busy'
    BY <1>0 DEF FlightInv
  <2>2. ASSUME NEW ep \in Endpoints, flight'[ep].at # "none"
        PROVE  /\ worker' = "batch"
               /\ flight'[ep].event \in 1..count'
               /\ row'[<<flight'[ep].event, ep>>].state \in {"none", "pending"}
               /\ \A e \in Events : Pending(e, ep)' => flight'[ep].event <= e
               /\ flight'[ep].at # "post" /\ flight'[ep].ok =>
                    <<flight'[ep].event, ep>> \in accepted'
    <3>1. /\ flight[ep].at # "none" /\ worker' = worker
          /\ flight'[ep].event = flight[ep].event
      BY <2>2
    <3>2. /\ worker = "batch" /\ flight[ep].event \in 1..count
          /\ row[<<flight[ep].event, ep>>].state \in {"none", "pending"}
          /\ \A e \in Events : Pending(e, ep) => flight[ep].event <= e
          /\ flight[ep].at # "post" /\ flight[ep].ok =>
               <<flight[ep].event, ep>> \in accepted
      BY <1>0, <3>1 DEF FlightInv
    <3>3. flight'[ep].event \in 1..count'
      BY <1>0, <3>1, <3>2
    <3>4. \A e \in Events : Pending(e, ep)' => flight'[ep].event <= e
      BY <1>0, <3>1, <3>2
    <3> QED BY <2>2, <3>1, <3>2, <3>3, <3>4
  <2> QED BY <2>1, <2>2 DEF FlightInv, Pending
<1>2. ASSUME NEW ep \in Endpoints PROVE Ordered(ep)'
  <2>1. tried'[ep] = tried[ep] /\ Ordered(ep)
    BY <1>0 DEF OrderInv
  <2>2. ASSUME NEW i \in DOMAIN tried[ep]
        PROVE  /\ tried[ep][i] <= count'
               /\ \A e \in Events : Pending(e, ep)' => tried[ep][i] <= e
               /\ flight'[ep].at # "none" => tried[ep][i] <= flight'[ep].event
    <3>1. tried[ep][i] \in Nat
      <4>1. tried[ep][i] \in Events
        BY <1>0
      <4> QED BY <1>0, <4>1
    <3>2. /\ tried[ep][i] <= count
          /\ \A e \in Events : Pending(e, ep) => tried[ep][i] <= e
          /\ flight[ep].at # "none" => tried[ep][i] <= flight[ep].event
      BY <2>1 DEF Ordered
    <3>3. tried[ep][i] <= count'
      BY <1>0, <3>1, <3>2
    <3>4. ASSUME NEW e \in Events, Pending(e, ep)' PROVE tried[ep][i] <= e
      <4>1. e \in Nat /\ (Pending(e, ep) \/ e > count)
        BY <1>0, <3>4
      <4> QED BY <1>0, <3>1, <3>2, <4>1
    <3>5. flight'[ep].at # "none" => tried[ep][i] <= flight'[ep].event
      BY <3>2
    <3> QED BY <3>3, <3>4, <3>5
  <2> QED BY <2>1, <2>2 DEF Ordered, Pending
<1> QED BY <1>1, <1>2 DEF OrderInv

LEMMA SendSteps ==
  ASSUME OutboxInv, TypeOK', [Next]_vars
  PROVE  FlightInv' /\ OrderInv'
<1> DEFINE Goal == FlightInv' /\ OrderInv'
<1>0. /\ row \in [Rows -> RowType] /\ flight \in [Endpoints -> Flight] /\ count \in Nat
      /\ \A e \in Events, ep \in Endpoints : <<e, ep>> \in Rows
      /\ \A ep \in Endpoints : flight[ep].at # "none" =>
           flight[ep].event \in Events /\ flight[ep].event <= count
      /\ FlightInv
  BY EventFacts DEF OutboxInv, TypeOK
<1>1. ASSUME UNCHANGED <<store, worker, busy, flight, history>> PROVE Goal
  BY <1>0, <1>1, SettledSends DEF store, history, Pending
<1>2. ASSUME NEW p \in Publishers, Record(p) PROVE Goal
  <2>1. /\ UNCHANGED <<worker, busy, flight, tried, accepted>> /\ count' >= count
        /\ \A r \in Rows : row'[r] = row[r] \/ r[1] = count + 1
    BY <1>0, <1>2, RecordEffect DEF history
  <2>2. \A e \in Events, ep \in Endpoints : Pending(e, ep)' => Pending(e, ep) \/ e > count
    BY <1>0, <2>1 DEF Pending
  <2>3. \A ep \in Endpoints : flight[ep].at # "none" =>
          row'[<<flight[ep].event, ep>>] = row[<<flight[ep].event, ep>>]
    BY <1>0, <2>1
  <2> QED BY <2>1, <2>2, <2>3, SettledSends
<1>3. ASSUME NEW ep \in Endpoints, DeleteEndpoint(ep) PROVE Goal
  <2>1. /\ UNCHANGED <<worker, busy, flight, tried, accepted, count>>
        /\ \A r \in Rows : row'[r] = row[r] \/ row'[r].state = "none"
    BY <1>3 DEF DeleteEndpoint, history, NoRow
  <2> QED BY <1>0, <2>1, SettledSends DEF Pending
<1>4. ASSUME NEW ep \in Endpoints, FinishWrite(ep) PROVE Goal
  <2>1. /\ UNCHANGED <<worker, busy, tried, accepted, count>>
        /\ flight' = [flight EXCEPT ![ep] = NoSend]
    BY <1>4 DEF FinishWrite, history
  <2>2. \A r \in Rows : r[2] # ep => row'[r] = row[r]
    <3>1. \A r \in Rows : r # <<flight[ep].event, ep>> => row'[r] = row[r]
      BY <1>4, WriteEffect
    <3> QED BY <3>1
  <2>3. \A e \in Events, x \in Endpoints : Pending(e, x)' => Pending(e, x)
    BY <1>0, <1>4, WriteEffect DEF Pending
  <2>4. \A x \in Endpoints : x # ep =>
          flight'[x] = flight[x] /\ \A e \in Events : row'[<<e, x>>] = row[<<e, x>>]
    BY <1>0, <2>1, <2>2
  <2>5. flight'[ep].at = "none"
    BY <1>0, <2>1 DEF NoSend
  <2> QED BY <1>0, <2>1, <2>3, <2>4, <2>5, SettledSends
<1>5. ASSUME NEW old, Prune(old) PROVE Goal
  <2>1. /\ UNCHANGED <<flight, tried, accepted, count>> /\ worker = "prune" /\ worker' # "batch"
        /\ \A r \in Rows : row'[r] = row[r] \/ row'[r].state = "none"
    BY <1>5 DEF Prune, NextCycle, history, NoRow
  <2>2. \A ep \in Endpoints : flight[ep].at = "none"
    BY <1>0, <2>1 DEF FlightInv
  <2> QED BY <1>0, <2>1, <2>2, SettledSends DEF Pending
<1>6. ASSUME NEW r \in Rows, BackoffEnds(r) PROVE Goal
  <2>1. /\ UNCHANGED <<worker, busy, flight, tried, accepted, count>>
        /\ \A q \in Rows : row'[q].state = row[q].state
    BY <1>0, <1>6 DEF BackoffEnds, RowType, history
  <2>2. \A e \in Events, ep \in Endpoints : Pending(e, ep)' <=> Pending(e, ep)
    BY <1>0, <2>1 DEF Pending
  <2>3. FlightInv'
    BY <1>0, <2>1, <2>2 DEF FlightInv
  <2>4. OrderInv'
    BY <2>1, <2>2 DEF OutboxInv, OrderInv, Ordered
  <2> QED BY <2>3, <2>4
<1>7. CASE Query
  <2>1. /\ UNCHANGED <<tried, accepted, count, row>> /\ busy' = (Batch # {})
        /\ worker' = IF Batch = {} THEN "prune" ELSE "batch"
    BY <1>7 DEF Query, store, history
  <2>2. ASSUME NEW ep \in Endpoints, flight'[ep].at # "none"
        PROVE  /\ worker' = "batch" /\ flight'[ep].at = "post"
               /\ flight'[ep].event \in Events /\ Pending(flight'[ep].event, ep)
               /\ \A f \in Events : Pending(f, ep) => flight'[ep].event <= f
    <3>1. NoSend.at = "none"
      BY DEF NoSend
    <3>2. Batch # {} /\ \E e \in Events :
                 /\ flight'[ep] = [at |-> "post", ok |-> FALSE, event |-> e]
                 /\ Pending(e, ep) /\ endpoint[ep] = "live"
                 /\ \A f \in Events : Pending(f, ep) => e <= f
      BY <1>7, <2>2, <3>1, QueryTakes DEF OutboxInv
    <3> QED BY <2>1, <3>2
  <2>3. ASSUME NEW e \in Events, NEW ep \in Endpoints, Pending(e, ep) PROVE e \in 1..count
    BY <2>3, EventFacts DEF Pending
  <2>4. FlightInv'
    BY <2>1, <2>2, <2>3 DEF FlightInv, Pending
  <2>5. ASSUME NEW ep \in Endpoints PROVE Ordered(ep)'
    BY <2>1, <2>2 DEF OutboxInv, OrderInv, Ordered, Pending
  <2> QED BY <2>4, <2>5 DEF OrderInv
<1>8. CASE BatchDone \/ Awake \/ CycleFails
  <2>1. UNCHANGED <<flight, tried, accepted, count, row>> /\ worker' # "batch"
    BY <1>8 DEF BatchDone, Awake, CycleFails, NextCycle, store, history
  <2>2. \A ep \in Endpoints : flight[ep].at = "none"
    BY <1>0, <1>8 DEF BatchDone, NobodySends, Awake, CycleFails, FlightInv
  <2> QED BY <1>0, <2>1, <2>2, SettledSends DEF Pending
<1>9. ASSUME NEW ep \in Endpoints, Post(ep) PROVE Goal
  <2>1. /\ flight[ep].at = "post" /\ UNCHANGED <<worker, busy, count, row>>
        /\ tried' = [tried EXCEPT ![ep] = Append(@, flight[ep].event)]
        /\ accepted \subseteq accepted'
        /\ flight'[ep].at = "read" /\ flight'[ep].event = flight[ep].event
        /\ flight'[ep].ok => <<flight[ep].event, ep>> \in accepted'
        /\ \A x \in Endpoints \ {ep} : flight'[x] = flight[x]
    BY <1>0, <1>9 DEF Post, store, Flight
  <2>2. FlightInv'
    <3>1. ASSUME NEW x \in Endpoints
          PROVE  /\ flight'[x].event = flight[x].event
                 /\ flight'[x].at # "none" => flight[x].at # "none"
                 /\ flight'[x].at \notin {"none", "post"} /\ flight'[x].ok =>
                      <<flight[x].event, x>> \in accepted'
      <4>1. CASE x = ep
        BY <2>1, <4>1
      <4>2. CASE x # ep
        <5>1. flight'[x] = flight[x]
          BY <2>1, <4>2
        <5>2. flight[x].at # "post" /\ flight[x].at # "none" /\ flight[x].ok =>
                <<flight[x].event, x>> \in accepted
          BY <1>0 DEF FlightInv
        <5> QED BY <2>1, <5>1, <5>2
      <4> QED BY <4>1, <4>2
    <3> QED BY <1>0, <2>1, <3>1 DEF FlightInv, Pending
  <2>3. ASSUME NEW x \in Endpoints, x # ep PROVE Ordered(x)'
    BY <2>1, <2>3 DEF OutboxInv, TypeOK, OrderInv, Ordered, Pending
  <2>4. Ordered(ep)'
    <3> DEFINE s == tried[ep]
               t == tried'[ep]
               e == flight[ep].event
    <3>1. s \in Seq(Events) /\ e \in Events /\ t = Append(s, e) /\ \A x \in Events : x \in Nat
      BY <1>0, <2>1 DEF OutboxInv, TypeOK, Events
    <3>2. /\ \A f \in Events : Pending(f, ep) => e <= f
          /\ e <= count
      <4>1. flight[ep].at # "none"
        BY <2>1
      <4> QED BY <1>0, <4>1 DEF FlightInv
    <3>3. /\ \A i \in DOMAIN s : s[i] <= e /\ s[i] \in Events
          /\ \A i, j \in DOMAIN s : i <= j => s[i] <= s[j]
      BY <2>1, <3>1 DEF OutboxInv, OrderInv, Ordered
    <3> HIDE DEF s, t, e
    <3>4. /\ DOMAIN s = 1..Len(s) /\ DOMAIN t = 1..(Len(s) + 1) /\ Len(s) \in Nat
          /\ t[Len(s) + 1] = e /\ \A i \in DOMAIN s : t[i] = s[i]
      BY <3>1
    <3>5. \A i \in DOMAIN t : t[i] <= e /\ t[i] \in Nat
      BY <3>1, <3>3, <3>4
    <3>6. \A i, j \in DOMAIN t : i <= j => t[i] <= t[j]
      BY <3>1, <3>3, <3>4, <3>5
    <3>7. \A i \in DOMAIN t : /\ t[i] <= count
                             /\ \A f \in Events : Pending(f, ep) => t[i] <= f
      BY <1>0, <3>1, <3>2, <3>5
    <3> QED BY <2>1, <3>5, <3>6, <3>7 DEF Ordered, Pending, t, e
  <2> QED BY <2>2, <2>3, <2>4 DEF OrderInv
<1>10. ASSUME NEW ep \in Endpoints, FinishRead(ep) \/ SendFails(ep) PROVE Goal
  <2>1. UNCHANGED <<worker, busy, count, row, tried, accepted>>
    BY <1>10 DEF FinishRead, SendFails, store, history
  <2>2. ASSUME NEW x \in Endpoints
        PROVE  \/ flight'[x].at = "none"
               \/ /\ flight[x].at # "none" /\ flight'[x].event = flight[x].event
                  /\ flight'[x].at # "post" /\ flight'[x].ok =>
                       flight[x].at # "post" /\ flight[x].ok
    BY <1>0, <1>10 DEF FinishRead, SendFails, NoSend, Flight
  <2> QED BY <1>0, <2>1, <2>2, SettledSends DEF Pending
<1>11. CASE StopTimeout \/ Crash
  <2>1. /\ UNCHANGED <<count, row, tried, accepted>> /\ worker' # "batch"
        /\ \A ep \in Endpoints : flight'[ep].at = "none"
    BY <1>11 DEF StopTimeout, Crash, LoseWork, store, history, NoSend
  <2> QED BY <1>0, <2>1, SettledSends DEF Pending
<1>12. CASE Start
  <2>1. UNCHANGED <<flight, tried, accepted, count, row>> /\ worker' # "batch" /\ worker # "batch"
    BY <1>12 DEF Start, Starting, store, history
  <2>2. \A ep \in Endpoints : flight[ep].at = "none"
    BY <1>0, <2>1 DEF FlightInv
  <2> QED BY <1>0, <2>1, <2>2, SettledSends DEF Pending
<1>13. CASE UNCHANGED vars \/ Stop
  BY <1>1, <1>13 DEF vars, Stop
<1>14. ASSUME NEW p \in Publishers,
              \/ Publish(p) \/ ListTargets(p) \/ SetWake(p)
              \/ PublishFails(p) \/ CancelPublish(p)
       PROVE  Goal
  BY <1>1, <1>14 DEF Publish, ListTargets, SetWake, PublishFails, CancelPublish
<1>15. ASSUME NEW ep \in Endpoints, NEW kinds, CreateEndpoint(ep, kinds) PROVE Goal
  BY <1>1, <1>15 DEF CreateEndpoint
<1> QED BY <1>2, <1>3, <1>4, <1>5, <1>6, <1>7, <1>8, <1>9, <1>10, <1>11, <1>12, <1>13,
           <1>14, <1>15 DEF Next, WorkerStep, PublisherStep
-----------------------------------------------------------------------------
(* The invariant, and what it shows of rows and sends *)

LEMMA InitOutbox ==
  ASSUME Init
  PROVE  OutboxInv
<1> USE OutboxAssumption DEF Init
<1>1. TypeOK
  <2>1. NoRow \in RowType /\ NoSend \in Flight
    BY DEF NoRow, RowType, NoSend, Flight
  <2>2. /\ count \in 0..NV /\ stored \subseteq 1..count
        /\ faults \in 0..MaxFaults /\ crashes \in 0..MaxCrashes
    OBVIOUS
  <2>3. /\ row \in [Rows -> RowType] /\ flight \in [Endpoints -> Flight]
        /\ tried \in [Endpoints -> Seq(Events)]
    BY <2>1
  <2> QED BY <2>2, <2>3 DEF TypeOK
<1>2. PublishInv
  <2>1. Publishing = {}
    BY DEF Publishing
  <2> QED BY <2>1, FS_EmptySet DEF PublishInv
<1>3. RowInv /\ FlightInv
  BY DEF RowInv, NoRow, FlightInv, NoSend
<1>4. OrderInv
  BY DEF OrderInv, Ordered
<1> QED BY <1>1, <1>2, <1>3, <1>4 DEF OutboxInv

LEMMA OutboxSteps ==
  ASSUME OutboxInv, [Next]_vars
  PROVE  OutboxInv'
<1>1. TypeOK' /\ PublishInv'
  BY ClientTypes, PublisherTypes, WorkerTypes, ProcessTypes DEF Next
<1>2. RowInv' /\ FlightInv' /\ OrderInv'
  BY <1>1, RowSteps, SendSteps
<1> QED BY <1>1, <1>2 DEF OutboxInv

\* In every reachable state the rows, what is in flight and what was posted
\* agree: only a batch sends, and only heads of queues.
THEOREM OutboxInvariant == Spec => []OutboxInv
<1>1. Init => OutboxInv
  BY InitOutbox
<1>2. OutboxInv /\ [Next]_vars => OutboxInv'
  BY OutboxSteps
<1> QED BY <1>1, <1>2, PTL DEF Spec

\* The tables and the tasks have their types, and no delivery more attempts than
\* the limit.
THEOREM OutboxTypes == Spec => []TypeOK
<1>1. OutboxInv => TypeOK
  BY DEF OutboxInv
<1> QED BY <1>1, OutboxInvariant, PTL

\* No receiver gets an event after a later one, whatever fails, is repeated or
\* restarted in between.
THEOREM PostsAreOrdered ==
  Spec => [](\A ep \in Endpoints : \A i, j \in DOMAIN tried[ep] :
               i <= j => tried[ep][i] <= tried[ep][j])
<1>1. OutboxInv => \A ep \in Endpoints : \A i, j \in DOMAIN tried[ep] :
                     i <= j => tried[ep][i] <= tried[ep][j]
  BY DEF OutboxInv, OrderInv, Ordered
<1> QED BY <1>1, OutboxInvariant, PTL

\* What may become of a pending row in a step.
Kept(r) ==
  \/ row'[r].state = "pending" /\ r[1] \in stored'
  \/ row'[r].state = "delivered" /\ r \in accepted
  \/ row'[r].state = "failed" /\ row'[r].attempts = MaxAttempts
  \/ endpoint'[r[2]] = "deleted"

LEMMA PendingSteps ==
  ASSUME OutboxInv, [Next]_vars, NEW r \in Rows, row[r].state = "pending"
  PROVE  Kept(r)
<1>0. /\ row \in [Rows -> RowType] /\ r[1] \in stored /\ r[1] \in Events /\ r[2] \in Endpoints
      /\ r = <<r[1], r[2]>> /\ endpoint \in [Endpoints -> {"new", "live", "deleted"}]
  <2>1. r[1] \in Events /\ r[2] \in Endpoints /\ r = <<r[1], r[2]>>
    BY DEF Rows
  <2>2. /\ row \in [Rows -> RowType]
        /\ endpoint \in [Endpoints -> {"new", "live", "deleted"}]
    BY DEF OutboxInv, TypeOK
  <2>3. r[1] \in stored
    BY DEF OutboxInv, RowInv
  <2> QED BY <2>1, <2>2, <2>3
<1> USE DEF Kept
<1>1. ASSUME NEW p \in Publishers, Record(p) PROVE Kept(r)
  BY <1>0, <1>1, RecordEffect DEF NewRow
<1>2. ASSUME NEW ep \in Endpoints, DeleteEndpoint(ep) PROVE Kept(r)
  BY <1>0, <1>2 DEF DeleteEndpoint
<1>3. ASSUME NEW ep \in Endpoints, FinishWrite(ep) PROVE Kept(r)
  <2>1. stored' = stored
    BY <1>3 DEF FinishWrite
  <2>2. CASE r # <<flight[ep].event, ep>>
    <3>1. row'[r] = row[r]
      BY <1>3, <2>2, WriteEffect
    <3> QED BY <1>0, <2>1, <3>1
  <2>3. CASE r = <<flight[ep].event, ep>>
    <3>1. /\ row[r].attempts < MaxAttempts /\ row[r] \in RowType
          /\ row'[r] = Finished(row[r], flight[ep].ok)
          /\ flight[ep].at = "update" /\ flight[ep].ok \in BOOLEAN
      BY <1>3, <2>3, WriteEffect
    <3>2. flight[ep].ok => r \in accepted
      BY <2>3, <3>1 DEF OutboxInv, FlightInv
    <3>3. /\ row'[r] \in RowType
          /\ row'[r].state = "delivered" <=> flight[ep].ok
          /\ row'[r].state = "failed" => row'[r].attempts = MaxAttempts
          /\ row'[r].state # "none"
      BY <3>1, FinishedType
    <3> QED BY <1>0, <2>1, <3>2, <3>3 DEF RowType
  <2> QED BY <2>2, <2>3
<1>4. ASSUME NEW old, Prune(old) PROVE Kept(r)
  <2>1. r[1] \notin old
    BY <1>0, <1>4 DEF Prune, Prunable, Pending
  <2> QED BY <1>0, <1>4, <2>1 DEF Prune
<1>5. ASSUME NEW q \in Rows, BackoffEnds(q) PROVE Kept(r)
  BY <1>0, <1>5 DEF BackoffEnds, RowType
<1>6. ASSUME NEW ep \in Endpoints, NEW kinds, CreateEndpoint(ep, kinds) PROVE Kept(r)
  BY <1>0, <1>6 DEF CreateEndpoint, store
<1>7. ASSUME UNCHANGED <<endpoints, store>> PROVE Kept(r)
  BY <1>0, <1>7 DEF store
<1> QED BY <1>1, <1>2, <1>3, <1>4, <1>5, <1>6, <1>7, QuietRows

\* A pending delivery stays, and its event with it, until it is accepted, given
\* up after the last attempt, or goes with its endpoint: no step of a publisher,
\* the worker, retention, a restart or a crash loses it.
THEOREM NoPendingIsLost == Spec => PendingIsKept
<1>1. OutboxInv /\ [Next]_vars =>
        [\A r \in Rows : row[r].state = "pending" =>
             \/ row'[r].state = "pending" /\ r[1] \in stored'
             \/ row'[r].state = "delivered" /\ r \in accepted
             \/ row'[r].state = "failed" /\ row'[r].attempts = MaxAttempts
             \/ endpoint'[r[2]] = "deleted"]_vars
  BY PendingSteps DEF Kept
<1> QED BY <1>1, OutboxInvariant, PTL DEF Spec, PendingIsKept
-----------------------------------------------------------------------------
(* The outbox is a queue of events for each endpoint *)

Waiting == [ep \in Endpoints |-> {e \in Events : Pending(e, ep)}]
Taken == [ep \in Endpoints |-> IF flight[ep].at = "none" THEN 0 ELSE flight[ep].event]

QueueStep == [Queue!Next]_(Queue!vars)

LEMMA QueueStutters ==
  ASSUME UNCHANGED <<Waiting, Taken, tried>>
  PROVE  QueueStep
  BY DEF QueueStep, Queue!vars, Waiting, Taken

LEMMA QueuePutsBack ==
  ASSUME NEW eps \in SUBSET Endpoints, UNCHANGED <<Waiting, tried>>,
         Taken' = [ep \in Endpoints |-> IF ep \in eps THEN 0 ELSE Taken[ep]]
  PROVE  QueueStep
<1>1. Queue!PutBack(eps)
  BY DEF Queue!PutBack, Waiting, Taken
<1> QED BY <1>1 DEF QueueStep, Queue!Next

LEMMA QueueSteps ==
  ASSUME OutboxInv, OutboxInv', [Next]_vars
  PROVE  QueueStep
<1>0. /\ row \in [Rows -> RowType] /\ flight \in [Endpoints -> Flight] /\ FlightInv
      /\ \A e \in Events, ep \in Endpoints : <<e, ep>> \in Rows
      /\ flight' \in [Endpoints -> Flight] /\ \A ep \in Endpoints : flight[ep].event \in Nat
  BY OutboxAssumption, EventFacts DEF OutboxInv, TypeOK, Flight
<1>1. ASSUME \A e \in Events, ep \in Endpoints : Pending(e, ep)' <=> Pending(e, ep)
      PROVE  Waiting' = Waiting
  BY <1>1 DEF Waiting
<1>2. ASSUME flight' = flight PROVE Taken' = Taken
  BY <1>2 DEF Taken
<1>3. ASSUME UNCHANGED <<row, flight, tried>> PROVE QueueStep
  BY <1>1, <1>2, <1>3, QueueStutters DEF Pending
<1>4. ASSUME NEW p \in Publishers, Record(p) PROVE QueueStep
  <2>1. UNCHANGED <<flight, tried>>
    BY <1>4, RecordEffect DEF history
  <2>2. CASE UNCHANGED row
    BY <1>3, <2>1, <2>2
  <2>3. CASE count' = count + 1 /\ ~ UNCHANGED row
    <3> DEFINE e == count + 1
               eps == {ep \in Endpoints : row'[<<e, ep>>] = NewRow}
    <3>1. e \in Events /\ count \in Nat /\ \A f \in Events : f \in Nat
      BY <2>3, OutboxAssumption, EventFacts DEF OutboxInv, TypeOK, Events
    <3>2. /\ \A f \in Events, ep \in Endpoints :
               row'[<<f, ep>>] = row[<<f, ep>>] \/ (f = e /\ row'[<<f, ep>>] = NewRow)
          /\ \A ep \in Endpoints : row[<<e, ep>>].state = "none"
      <4>1. /\ \A r \in Rows :
                 row'[r] = row[r] \/ (r[1] = count + 1 /\ row'[r] = NewRow)
            /\ \A r \in Rows : r[1] > count => row[r].state = "none"
        BY <1>4, <2>3, RecordEffect
      <4>2. \A f \in Events, ep \in Endpoints : <<f, ep>>[1] = f
        OBVIOUS
      <4> QED BY <1>0, <3>1, <4>1, <4>2
    <3>3. ASSUME NEW ep \in Endpoints, NEW f \in Events
          PROVE  Pending(f, ep)' <=> Pending(f, ep) \/ (f = e /\ ep \in eps)
      BY <1>0, <3>1, <3>2 DEF Pending, NewRow
    <3>4. ASSUME NEW ep \in Endpoints
          PROVE  /\ Waiting'[ep] = IF ep \in eps THEN Waiting[ep] \cup {e} ELSE Waiting[ep]
                 /\ Waiting[ep] \subseteq 1..count
                 /\ Taken[ep] \in 0..count
      <4>1. Waiting'[ep] = IF ep \in eps THEN Waiting[ep] \cup {e} ELSE Waiting[ep]
        BY <3>1, <3>3 DEF Waiting
      <4>2. Waiting[ep] \subseteq 1..count
        BY EventFacts DEF Waiting, Pending
      <4>3. Taken[ep] \in 0..count
        BY <3>1, EventFacts DEF Taken
      <4> QED BY <4>1, <4>2, <4>3
    <3>5. \A ep \in Endpoints : \A i \in DOMAIN tried[ep] : tried[ep][i] <= count /\ tried[ep][i] \in Nat
      <4>1. \A ep \in Endpoints : \A i \in DOMAIN tried[ep] : tried[ep][i] \in Events
        BY EventFacts
      <4> QED BY <3>1, <4>1 DEF OutboxInv, OrderInv, Ordered
    <3>6. Queue!Accept(e, eps)
      <4>1. \A ep \in Endpoints : \A f \in Waiting[ep] \cup {Taken[ep]} : f < e
        <5>1. ASSUME NEW ep \in Endpoints, NEW f \in Waiting[ep] \cup {Taken[ep]} PROVE f < e
          <6>1. Waiting[ep] \subseteq 1..count /\ Taken[ep] \in 0..count
            BY <3>4
          <6>2. CASE f \in Waiting[ep]
            BY <3>1, <6>1, <6>2
          <6>3. CASE f = Taken[ep]
            BY <3>1, <6>1, <6>3
          <6> QED BY <5>1, <6>2, <6>3
        <5> QED BY <5>1
      <4>2. \A ep \in Endpoints : \A i \in DOMAIN tried[ep] : tried[ep][i] < e
        BY <3>1, <3>5
      <4>3. Waiting' = [ep \in Endpoints |->
                          IF ep \in eps THEN Waiting[ep] \cup {e} ELSE Waiting[ep]]
        BY <3>4 DEF Waiting
      <4>4. UNCHANGED <<Taken, tried>>
        BY <1>2, <2>1
      <4> QED BY <4>1, <4>2, <4>3, <4>4 DEF Queue!Accept, Waiting, Taken
    <3> QED BY <3>1, <3>6 DEF QueueStep, Queue!Next
  <2> QED BY <1>4, <2>2, <2>3, RecordEffect
<1>5. ASSUME NEW ep \in Endpoints, DeleteEndpoint(ep) PROVE QueueStep
  <2>1. /\ UNCHANGED <<flight, tried>>
        /\ \A r \in Rows : row'[r] = IF r[2] = ep THEN NoRow ELSE row[r]
    BY <1>5 DEF DeleteEndpoint, history
  <2>2. Waiting' = [Waiting EXCEPT ![ep] = {}]
    <3>1. ASSUME NEW x \in Endpoints, NEW f \in Events
          PROVE  Pending(f, x)' <=> x # ep /\ Pending(f, x)
      <4>1. row'[<<f, x>>] = IF x = ep THEN NoRow ELSE row[<<f, x>>]
        BY <1>0, <2>1
      <4> QED BY <4>1 DEF Pending, NoRow
    <3> QED BY <3>1 DEF Waiting
  <2>3. Queue!Drop(ep)
    BY <1>2, <2>1, <2>2 DEF Queue!Drop, Waiting, Taken
  <2> QED BY <2>3 DEF QueueStep, Queue!Next
<1>6. ASSUME NEW old, Prune(old) PROVE QueueStep
  <2>1. /\ UNCHANGED <<flight, tried>> /\ old \subseteq Prunable
        /\ \A r \in Rows : row'[r] = IF r[1] \in old THEN NoRow ELSE row[r]
    BY <1>6 DEF Prune, history
  <2>2. \A e \in Events, ep \in Endpoints : Pending(e, ep)' <=> Pending(e, ep)
    <3>1. ASSUME NEW e \in Events, NEW ep \in Endpoints
          PROVE  row'[<<e, ep>>] = IF e \in old THEN NoRow ELSE row[<<e, ep>>]
      BY <1>0, <2>1
    <3>2. ASSUME NEW e \in Events, NEW ep \in Endpoints, e \in old PROVE ~Pending(e, ep)
      BY <2>1, <3>2 DEF Prunable
    <3>3. ASSUME NEW e \in Events, NEW ep \in Endpoints
          PROVE  Pending(e, ep)' <=> Pending(e, ep)
      <4>1. CASE e \in old
        BY <3>1, <3>2, <4>1 DEF Pending, NoRow
      <4>2. CASE e \notin old
        BY <3>1, <4>2 DEF Pending
      <4> QED BY <4>1, <4>2
    <3> QED BY <3>3
  <2> QED BY <1>1, <1>2, <2>1, <2>2, QueueStutters
<1>7. ASSUME NEW r \in Rows, BackoffEnds(r) PROVE QueueStep
  <2>1. /\ UNCHANGED <<flight, tried>>
        /\ \A q \in Rows : row'[q].state = row[q].state
    BY <1>0, <1>7 DEF BackoffEnds, RowType, history
  <2>2. \A e \in Events, ep \in Endpoints : Pending(e, ep)' <=> Pending(e, ep)
    BY <1>0, <2>1 DEF Pending
  <2> QED BY <1>1, <1>2, <2>1, <2>2, QueueStutters
<1>8. CASE Query
  <2>0. PICK eps \in SUBSET Endpoints : eps = {ep \in Endpoints : flight'[ep].at # "none"}
    OBVIOUS
  <2>1. UNCHANGED <<row, tried>> /\ Waiting' = Waiting
    BY <1>1, <1>8 DEF Query, store, history, Pending
  <2>2. \A ep \in Endpoints : Taken[ep] = 0
    BY <1>0, <1>8 DEF Query, FlightInv, Taken
  <2>3. ASSUME NEW ep \in Endpoints
        PROVE  IF ep \in eps
               THEN /\ Taken'[ep] \in Events /\ Pending(Taken'[ep], ep)
                    /\ \A f \in Events : Pending(f, ep) => Taken'[ep] <= f
               ELSE Taken'[ep] = 0
    <3>1. CASE flight'[ep].at = "none"
      BY <2>0, <3>1 DEF Taken
    <3>2. CASE flight'[ep].at # "none"
      <4>1. /\ Taken'[ep] = flight'[ep].event /\ ep \in eps
        BY <2>0, <3>2 DEF Taken
      <4>2. \E e \in Events : /\ flight'[ep] = [at |-> "post", ok |-> FALSE, event |-> e]
                             /\ Pending(e, ep)
                             /\ \A f \in Events : Pending(f, ep) => e <= f
        BY <1>8, <3>2, QueryTakes DEF OutboxInv, NoSend
      <4> QED BY <4>1, <4>2
    <3> QED BY <3>1, <3>2
  <2>4. Queue!Take(eps)
    <3>1. Taken' \in [Endpoints -> Events \cup {0}]
      BY <2>3 DEF Taken
    <3>2. \A ep \in Endpoints :
            IF ep \in eps THEN /\ Taken'[ep] \in Waiting[ep]
                               /\ \A f \in Waiting[ep] : Taken'[ep] <= f
                          ELSE Taken'[ep] = 0
      BY <2>3 DEF Waiting
    <3> QED BY <2>1, <2>2, <3>1, <3>2 DEF Queue!Take, Queue!IsHead, Waiting, Taken
  <2> QED BY <2>4 DEF QueueStep, Queue!Next
<1>9. ASSUME NEW ep \in Endpoints, Post(ep) PROVE QueueStep
  <2>1. /\ flight[ep].at = "post" /\ UNCHANGED row
        /\ tried' = [tried EXCEPT ![ep] = Append(@, flight[ep].event)]
        /\ flight'[ep].at = "read" /\ flight'[ep].event = flight[ep].event
        /\ \A x \in Endpoints \ {ep} : flight'[x] = flight[x]
    BY <1>0, <1>9 DEF Post, store, Flight
  <2>2. Taken' = Taken /\ Waiting' = Waiting
    BY <1>1, <2>1 DEF Taken, Pending
  <2>3. Taken[ep] # 0 /\ Taken[ep] = flight[ep].event
    BY <2>1, EventFacts DEF Taken
  <2>4. Queue!Send(ep)
    BY <2>1, <2>2, <2>3 DEF Queue!Send, Waiting, Taken
  <2> QED BY <2>4 DEF QueueStep, Queue!Next
\* What is no longer in flight is put back, or was settled.
<1>10. ASSUME NEW ep \in Endpoints, flight' = [flight EXCEPT ![ep] = NoSend]
       PROVE  Taken' = [x \in Endpoints |-> IF x \in {ep} THEN 0 ELSE Taken[x]]
  BY <1>0, <1>10 DEF Taken, NoSend
<1>11. ASSUME NEW ep \in Endpoints, FinishRead(ep) \/ SendFails(ep) PROVE QueueStep
  <2>1. UNCHANGED <<row, tried>> /\ Waiting' = Waiting
    BY <1>1, <1>11 DEF FinishRead, SendFails, store, history, Pending
  <2>2. CASE flight' = [flight EXCEPT ![ep] = NoSend]
    BY <1>10, <2>1, <2>2, QueuePutsBack
  <2>3. CASE flight[ep].at = "read" /\ flight' = [flight EXCEPT ![ep].at = "update"]
    <3>1. Taken' = Taken
      BY <1>0, <2>3 DEF Taken, Flight
    <3> QED BY <2>1, <3>1, QueueStutters
  <2> QED BY <1>11, <2>2, <2>3 DEF FinishRead, SendFails
<1>12. ASSUME NEW ep \in Endpoints, FinishWrite(ep) PROVE QueueStep
  <2>0. PICK e \in Nat : e = flight[ep].event
    BY <1>0
  <2>1. /\ flight' = [flight EXCEPT ![ep] = NoSend] /\ UNCHANGED tried
        /\ <<e, ep>> \in Rows /\ flight[ep].at = "update"
        /\ \A q \in Rows \ {<<e, ep>>} : row'[q] = row[q]
        /\ row'[<<e, ep>>].state = "pending" => row[<<e, ep>>].state = "pending"
    BY <1>12, <2>0, WriteEffect DEF FinishWrite, history
  <2>2. e \in Events /\ e # 0
    BY <2>0, <2>1, EventFacts
  <2>3. Taken' = [x \in Endpoints |-> IF x \in {ep} THEN 0 ELSE Taken[x]] /\ Taken[ep] = e
    BY <1>10, <2>0, <2>1 DEF Taken
  <2>4. ASSUME NEW x \in Endpoints, NEW f \in Events, x # ep \/ f # e
        PROVE  Pending(f, x)' <=> Pending(f, x)
    <3>1. row'[<<f, x>>] = row[<<f, x>>]
      BY <1>0, <2>1, <2>4
    <3> QED BY <3>1 DEF Pending
  <2>5. CASE Pending(e, ep)' <=> Pending(e, ep)
    <3>1. Waiting' = Waiting
      <4>1. ASSUME NEW x \in Endpoints, NEW f \in Events
            PROVE  Pending(f, x)' <=> Pending(f, x)
        BY <2>4, <2>5 DEF Pending
      <4> QED BY <1>1, <4>1
    <3> QED BY <2>1, <2>3, <3>1, QueuePutsBack
  <2>6. CASE Pending(e, ep) /\ ~Pending(e, ep)'
    <3>1. Waiting' = [Waiting EXCEPT ![ep] = @ \ {Taken[ep]}]
      <4>1. ASSUME NEW x \in Endpoints, NEW f \in Events
            PROVE  Pending(f, x)' <=> Pending(f, x) /\ ~(x = ep /\ f = e)
        BY <2>4, <2>6 DEF Pending
      <4> QED BY <2>2, <2>3, <4>1 DEF Waiting
    <3>2. Taken' = [Taken EXCEPT ![ep] = 0] /\ Taken[ep] # 0
      BY <2>2, <2>3 DEF Taken
    <3>3. Queue!Settle(ep)
      BY <2>1, <3>1, <3>2 DEF Queue!Settle, Waiting, Taken
    <3> QED BY <3>3 DEF QueueStep, Queue!Next
  <2>7. Pending(e, ep)' => Pending(e, ep)
    BY <2>1 DEF Pending
  <2> QED BY <2>5, <2>6, <2>7
<1>13. CASE StopTimeout \/ Crash
  <2>1. UNCHANGED <<row, tried>> /\ flight' = [ep \in Endpoints |-> NoSend]
    BY <1>13 DEF StopTimeout, Crash, LoseWork, store, history
  <2>2. Waiting' = Waiting
    BY <1>1, <2>1 DEF Pending
  <2>3. Taken' = [ep \in Endpoints |-> IF ep \in Endpoints THEN 0 ELSE Taken[ep]]
    BY <2>1 DEF Taken, NoSend
  <2> QED BY <2>1, <2>2, <2>3, QueuePutsBack
<1>14. CASE BatchDone \/ Awake \/ CycleFails \/ Start \/ Stop \/ UNCHANGED vars
  BY <1>3, <1>14 DEF BatchDone, Awake, CycleFails, Start, Stop, vars, store, history
<1>15. ASSUME NEW p \in Publishers,
              \/ Publish(p) \/ ListTargets(p) \/ SetWake(p)
              \/ PublishFails(p) \/ CancelPublish(p)
       PROVE  QueueStep
  BY <1>3, <1>15
     DEF Publish, ListTargets, SetWake, PublishFails, CancelPublish, store, history
<1>16. ASSUME NEW ep \in Endpoints, NEW kinds, CreateEndpoint(ep, kinds) PROVE QueueStep
  BY <1>3, <1>16 DEF CreateEndpoint, store, history
<1> QED BY <1>4, <1>5, <1>6, <1>7, <1>8, <1>9, <1>11, <1>12, <1>13, <1>14, <1>15, <1>16
        DEF Next, WorkerStep, PublisherStep

\* The outbox implements one queue of events for each endpoint, served from its
\* head, one event at a time, across failures, crashes and restarts.
THEOREM OutboxIsAQueue == Spec => QueueSpec
<1>1. Init => Queue!Init
  BY DEF Init, Queue!Init, Pending, NoRow, NoSend, Rows
<1>2. OutboxInv /\ OutboxInv' /\ [Next]_vars => [Queue!Next]_(Queue!vars)
  BY QueueSteps DEF QueueStep
<1> QED BY <1>1, <1>2, OutboxInvariant, PTL DEF Spec, QueueSpec, Queue!Spec
-----------------------------------------------------------------------------
(* Flags *)

LEMMA FlagSteps ==
  ASSUME OutboxInv, FlagInv, [Next]_vars
  PROVE  FlagInv'
<1> DEFINE Flagged(e) ==
      /\ flag[e] => e \in stored
      /\ e \in stored =>
           /\ flag[e] => AllDelivered(e, row)
           /\ /\ \A ep \in Endpoints : endpoint[ep] # "deleted"
              /\ \E ep \in Endpoints : row[<<e, ep>>].state # "none"
              /\ AllDelivered(e, row)
              => flag[e]
<1>0. /\ row \in [Rows -> RowType] /\ flag \in [Events -> BOOLEAN]
      /\ endpoint \in [Endpoints -> {"new", "live", "deleted"}]
      /\ \A e \in Events, ep \in Endpoints : <<e, ep>> \in Rows
      /\ count \in Nat /\ \A e \in Events : e \in stored => e <= count
      /\ \A ep \in Endpoints : flight[ep].at # "none" => flight[ep].event \in Events
      /\ \A e \in stored : e \in Events
  <2>1. count \in Nat /\ NV \in Nat /\ count <= NV /\ stored \subseteq 1..count
    BY OutboxAssumption DEF OutboxInv, TypeOK
  <2>2. (\A e \in stored : e \in Events) /\ \A e \in Events : e \in stored => e <= count
    BY <2>1 DEF Events
  <2> QED BY <2>1, <2>2, EventFacts DEF OutboxInv, TypeOK
<1>f. \A e \in Events : Flagged(e)
  BY DEF FlagInv, FlagFollowsRows
<1>1. ASSUME UNCHANGED <<endpoints, store>> PROVE FlagInv'
  BY <1>1 DEF FlagInv, FlagFollowsRows, AllDelivered, endpoints, store
<1>2. ASSUME NEW p \in Publishers, Record(p) PROVE FlagInv'
  <2>1. UNCHANGED <<flag, endpoint>>
    BY <1>2, RecordEffect DEF endpoints
  <2>2. CASE UNCHANGED <<count, stored, row>>
    BY <2>1, <2>2 DEF FlagInv, FlagFollowsRows, AllDelivered
  <2>3. CASE /\ stored' = stored \cup {count + 1}
             /\ \A r \in Rows : row'[r] = row[r] \/ (r[1] = count + 1 /\ row'[r] = NewRow)
    <3>1. ASSUME NEW e \in Events PROVE Flagged(e)'
      <4>1. CASE e = count + 1
        <5>1. ~flag[e]
          BY <1>0, <1>f, <4>1
        <5>2. \A ep \in Endpoints : row[<<e, ep>>].state = "none"
          <6>1. \A r \in Rows : r[1] > count => row[r].state = "none"
            BY <1>2, RecordEffect
          <6>2. \A ep \in Endpoints : <<e, ep>>[1] > count
            BY <1>0, <4>1
          <6> QED BY <1>0, <6>1, <6>2
        <5>3. \A ep \in Endpoints :
                row'[<<e, ep>>].state # "none" => row'[<<e, ep>>].state = "pending"
          BY <1>0, <2>3, <5>2 DEF NewRow
        <5> QED BY <2>1, <5>1, <5>3 DEF AllDelivered
      <4>2. CASE e # count + 1
        <5>1. \A ep \in Endpoints : row'[<<e, ep>>] = row[<<e, ep>>]
          BY <1>0, <2>3, <4>2
        <5>2. e \in stored' <=> e \in stored
          BY <2>3, <4>2
        <5> QED BY <1>f, <2>1, <5>1, <5>2 DEF AllDelivered
      <4> QED BY <4>1, <4>2
    <3>2. \A e \in stored' : e \in Events
      <4>1. count' \in 0..NV /\ stored' \subseteq 1..count'
        BY OutboxSteps DEF OutboxInv, TypeOK
      <4> QED BY <4>1, OutboxAssumption DEF Events
    <3> QED BY <3>1, <3>2 DEF FlagInv, FlagFollowsRows, AllDelivered
  <2> QED BY <1>2, <2>2, <2>3, RecordEffect
\* A step that stores no event and keeps, but for the events a send has to do
\* with, the flags.
<1>3. ASSUME stored' \subseteq stored, \A e \in Events : Flagged(e)'
      PROVE  FlagInv'
  BY <1>0, <1>3 DEF FlagInv, FlagFollowsRows, AllDelivered
<1>4. ASSUME NEW ep \in Endpoints, DeleteEndpoint(ep) PROVE FlagInv'
  <2>1. /\ UNCHANGED <<stored, flag>> /\ endpoint'[ep] = "deleted"
        /\ \A r \in Rows : row'[r] = row[r] \/ row'[r].state = "none"
    BY <1>0, <1>4 DEF DeleteEndpoint, NoRow
  <2>2. ASSUME NEW e \in Events PROVE Flagged(e)'
    BY <1>0, <1>f, <2>1 DEF AllDelivered
  <2> QED BY <1>3, <2>1, <2>2
<1>5. ASSUME NEW ep \in Endpoints, FinishWrite(ep) PROVE FlagInv'
  <2>0. PICK e \in Events : e = flight[ep].event
    BY <1>0, <1>5 DEF FinishWrite
  <2>1. /\ UNCHANGED <<stored, endpoint>>
        /\ flag' = IF e \in stored THEN [flag EXCEPT ![e] = AllDelivered(e, row')] ELSE flag
    BY <1>5, <2>0 DEF FinishWrite, endpoints
  <2>2. \A r \in Rows : r # <<e, ep>> => row'[r] = row[r]
    BY <1>5, <2>0, WriteEffect
  <2>3. ASSUME NEW f \in Events, f # e PROVE Flagged(f)'
    <3>1. \A x \in Endpoints : row'[<<f, x>>] = row[<<f, x>>]
      BY <1>0, <2>2, <2>3
    <3> QED BY <1>0, <1>f, <2>1, <2>3, <3>1 DEF AllDelivered
  <2>4. Flagged(e)'
    BY <1>0, <1>f, <2>1 DEF AllDelivered
  <2> QED BY <1>3, <2>1, <2>3, <2>4
<1>6. ASSUME NEW old, Prune(old) PROVE FlagInv'
  <2>1. /\ stored' = stored \ old /\ endpoint' = endpoint
        /\ \A e \in Events : flag'[e] = (e \notin old /\ flag[e])
        /\ \A r \in Rows : row'[r] = IF r[1] \in old THEN NoRow ELSE row[r]
    BY <1>6 DEF Prune, endpoints
  <2>2. ASSUME NEW e \in Events PROVE Flagged(e)'
    <3>1. CASE e \in old
      BY <2>1, <3>1
    <3>2. CASE e \notin old
      <4>1. \A x \in Endpoints : row'[<<e, x>>] = row[<<e, x>>]
        BY <1>0, <2>1, <3>2
      <4> QED BY <1>f, <2>1, <3>2, <4>1 DEF AllDelivered
    <3> QED BY <3>1, <3>2
  <2> QED BY <1>3, <2>1, <2>2
<1>7. ASSUME NEW r \in Rows, BackoffEnds(r) PROVE FlagInv'
  <2>1. /\ UNCHANGED <<stored, flag, endpoint>>
        /\ \A q \in Rows : row'[q].state = row[q].state
    BY <1>0, <1>7 DEF BackoffEnds, RowType, endpoints
  <2>2. ASSUME NEW e \in Events PROVE Flagged(e)'
    BY <1>0, <1>f, <2>1 DEF AllDelivered
  <2> QED BY <1>3, <2>1, <2>2
<1>8. ASSUME NEW ep \in Endpoints, NEW kinds, CreateEndpoint(ep, kinds) PROVE FlagInv'
  <2>1. /\ UNCHANGED store /\ \A x \in Endpoints :
          endpoint'[x] # "deleted" => endpoint[x] # "deleted"
    BY <1>0, <1>8 DEF CreateEndpoint
  <2>2. endpoint[ep] # "deleted" /\ \A x \in Endpoints \ {ep} : endpoint'[x] = endpoint[x]
    BY <1>0, <1>8 DEF CreateEndpoint
  <2>3. ASSUME NEW e \in Events PROVE Flagged(e)'
    BY <1>f, <2>1, <2>2 DEF AllDelivered, store
  <2> QED BY <1>3, <2>1, <2>3 DEF store
<1> QED BY <1>1, <1>2, <1>4, <1>5, <1>6, <1>7, <1>8, QuietRows

\* events.delivered is set only while every remaining delivery succeeded, and by
\* the last one to succeed, however many finish_delivery calls run at once.
THEOREM FlagsFollowRows == Spec => []FlagFollowsRows
<1>1. Init => FlagInv
  BY DEF Init, FlagInv, FlagFollowsRows
<1>2. OutboxInv /\ FlagInv /\ [Next]_vars => FlagInv'
  BY FlagSteps
<1>3. FlagInv => FlagFollowsRows
  BY DEF FlagInv
<1> QED BY <1>1, <1>2, <1>3, OutboxInvariant, PTL DEF Spec
-----------------------------------------------------------------------------
(* Flags of accepted events, if endpoints stay *)

\* What is in flight is pending.
SentInv ==
  \A ep \in Endpoints : flight[ep].at # "none" => Pending(flight[ep].event, ep)

\* No DELETE /api/endpoints.
EndpointsStay == \A ep \in Endpoints : ~DeleteEndpoint(ep)

\* A send goes on with its event until it is over.
LEMMA FlightSteps ==
  ASSUME OutboxInv, [Next]_vars, NEW ep \in Endpoints, flight'[ep].at # "none"
  PROVE  \/ Query
         \/ flight[ep].at # "none" /\ flight'[ep].event = flight[ep].event
<1>0. flight \in [Endpoints -> Flight]
  BY DEF OutboxInv, TypeOK
<1>1. CASE UNCHANGED flight
  BY <1>1
<1>2. ASSUME NEW x \in Endpoints,
             Post(x) \/ FinishRead(x) \/ FinishWrite(x) \/ SendFails(x)
      PROVE  flight[ep].at # "none" /\ flight'[ep].event = flight[ep].event
  BY <1>0, <1>2 DEF Post, FinishRead, FinishWrite, SendFails, NoSend, Flight
<1>3. CASE StopTimeout \/ Crash
  BY <1>3 DEF StopTimeout, Crash, LoseWork, NoSend
<1>4. CASE UNCHANGED vars
  BY <1>4 DEF vars
<1>5. ASSUME NEW p \in Publishers,
             Publish(p) \/ PublisherStep(p) \/ PublishFails(p) \/ CancelPublish(p)
      PROVE  UNCHANGED flight
  BY <1>5 DEF Publish, PublisherStep, ListTargets, Record, SetWake, PublishFails,
     CancelPublish
<1>6. CASE CycleFails \/ BatchDone \/ Awake \/ \E old \in SUBSET Events : Prune(old)
  BY <1>6 DEF CycleFails, BatchDone, Awake, Prune
<1>7. CASE \/ Start \/ Stop \/ \E r \in Rows : BackoffEnds(r)
           \/ \E x \in Endpoints : DeleteEndpoint(x)
           \/ \E x \in Endpoints, kinds \in Filters : CreateEndpoint(x, kinds)
  BY <1>7 DEF Start, Stop, BackoffEnds, DeleteEndpoint, CreateEndpoint
<1> QED BY <1>1, <1>2, <1>3, <1>4, <1>5, <1>6, <1>7 DEF Next, WorkerStep

\* Nothing but its deletion makes an endpoint a deleted one.
LEMMA EndpointSteps ==
  ASSUME OutboxInv, [Next]_vars, EndpointsStay, NEW ep \in Endpoints,
         endpoint[ep] = "live"
  PROVE  endpoint'[ep] = "live"
<1>0. endpoint \in [Endpoints -> {"new", "live", "deleted"}]
  BY DEF OutboxInv, TypeOK
<1>1. CASE UNCHANGED endpoint
  BY <1>1
<1>2. ASSUME NEW x \in Endpoints, NEW kinds \in Filters, CreateEndpoint(x, kinds)
      PROVE  endpoint'[ep] = "live"
  BY <1>0, <1>2 DEF CreateEndpoint
<1>3. CASE \/ \E p \in Publishers : Record(p)
           \/ \E x \in Endpoints : FinishWrite(x)
           \/ \E old \in SUBSET Events : Prune(old)
           \/ \E r \in Rows : BackoffEnds(r)
  BY <1>1, <1>3 DEF Record, FinishWrite, Prune, BackoffEnds, endpoints
<1>4. CASE UNCHANGED <<endpoints, store>>
  BY <1>1, <1>4 DEF endpoints
<1> QED BY <1>2, <1>3, <1>4, QuietRows DEF EndpointsStay

LEMMA SentSteps ==
  ASSUME OutboxInv, OutboxInv', SentInv, [Next]_vars, EndpointsStay
  PROVE  SentInv'
<1> SUFFICES ASSUME NEW ep \in Endpoints, flight'[ep].at # "none"
             PROVE  row'[<<flight'[ep].event, ep>>].state = "pending"
  BY DEF SentInv, Pending
<1>1. CASE Query
  <2>1. TypeOK /\ UNCHANGED row
    BY <1>1 DEF OutboxInv, Query, store
  <2>2. flight'[ep] # NoSend
    BY DEF NoSend
  <2>3. PICK e \in Events : /\ flight'[ep] = [at |-> "post", ok |-> FALSE, event |-> e]
                            /\ Pending(e, ep)
    BY <1>1, <2>1, <2>2, QueryTakes
  <2> QED BY <2>1, <2>3 DEF Pending
<1>2. CASE flight[ep].at # "none" /\ flight'[ep].event = flight[ep].event
  <2> DEFINE r == <<flight[ep].event, ep>>
  <2>1. r \in Rows /\ row[r].state = "pending"
    BY <1>2, EventFacts DEF OutboxInv, SentInv, Pending, Rows
  <2>2. row'[r].state \in {"none", "pending"}
    BY <1>2 DEF OutboxInv, FlightInv
  <2>3. endpoint'[ep] = "live"
    BY <2>1, EndpointSteps DEF OutboxInv, RowInv
  <2>4. Kept(r)
    BY <2>1, PendingSteps
  <2> QED BY <1>2, <2>2, <2>3, <2>4 DEF Kept, Pending
<1> QED BY <1>1, <1>2, FlightSteps

\* A flag is set by the write of a delivery, of an event some receiver accepted,
\* and by nothing else.
LEMMA AcceptedSteps ==
  ASSUME OutboxInv, SentInv, DeliveredWasAccepted, [Next]_vars
  PROVE  DeliveredWasAccepted'
<1> DEFINE Accepted(e) == \E ep \in Endpoints : <<e, ep>> \in accepted
<1>0. /\ flag \in [Events -> BOOLEAN]
      /\ \A e \in Events : flag[e] => Accepted(e)
  BY DEF OutboxInv, TypeOK, DeliveredWasAccepted
<1>1. ASSUME accepted \subseteq accepted',
             \A e \in Events : flag'[e] => flag[e]
      PROVE  DeliveredWasAccepted'
  BY <1>0, <1>1 DEF DeliveredWasAccepted
<1>2. ASSUME NEW ep \in Endpoints, FinishWrite(ep) PROVE DeliveredWasAccepted'
  <2> DEFINE e == flight[ep].event
             r == <<e, ep>>
  <2>1. /\ UNCHANGED accepted
        /\ flag' = flag \/ flag' = [flag EXCEPT ![e] = AllDelivered(e, row')]
    BY <1>2 DEF FinishWrite, history
  <2>2. AllDelivered(e, row') => r \in accepted
    <3>1. /\ row[r].state = "pending" /\ flight[ep].at = "update"
          /\ flight[ep].ok \in BOOLEAN
      BY <1>2, WriteEffect DEF SentInv, Pending
    <3>2. /\ row'[r] = Finished(row[r], flight[ep].ok)
          /\ row[r].attempts < MaxAttempts /\ row[r] \in RowType
      BY <1>2, <3>1, WriteEffect
    <3>3. row'[r].state = "delivered" \/ row'[r].state = "none" => flight[ep].ok
      BY <3>1, <3>2, FinishedType
    <3>4. flight[ep].ok => r \in accepted
      BY <3>1 DEF OutboxInv, FlightInv
    <3> QED BY <3>3, <3>4 DEF AllDelivered
  <2>3. ASSUME NEW f \in Events, flag'[f] PROVE Accepted(f)
    BY <1>0, <2>1, <2>2, <2>3
  <2> QED BY <2>1, <2>3 DEF DeliveredWasAccepted
<1>3. ASSUME NEW ep \in Endpoints, Post(ep) PROVE DeliveredWasAccepted'
  BY <1>1, <1>3 DEF Post, store
<1>4. ASSUME NEW old, Prune(old) PROVE DeliveredWasAccepted'
  BY <1>1, <1>4 DEF Prune, history
<1>5. CASE UNCHANGED <<flag, accepted>>
  BY <1>1, <1>5
<1>6. CASE \/ UNCHANGED vars \/ Query \/ BatchDone \/ Awake \/ CycleFails
           \/ \E ep \in Endpoints : FinishRead(ep) \/ SendFails(ep)
           \/ \E r \in Rows : BackoffEnds(r)
  BY <1>5, <1>6 DEF vars, store, history, Query, BatchDone, Awake, CycleFails,
     FinishRead, SendFails, BackoffEnds
<1>7. CASE \/ Start \/ Stop \/ StopTimeout \/ Crash
           \/ \E ep \in Endpoints : DeleteEndpoint(ep)
           \/ \E ep \in Endpoints, kinds \in Filters : CreateEndpoint(ep, kinds)
  BY <1>5, <1>7 DEF store, history, Start, Stop, StopTimeout, Crash, LoseWork,
     DeleteEndpoint, CreateEndpoint
<1>8. ASSUME NEW p \in Publishers,
             Publish(p) \/ PublisherStep(p) \/ PublishFails(p) \/ CancelPublish(p)
      PROVE  DeliveredWasAccepted'
  BY <1>5, <1>8 DEF store, history, Publish, PublisherStep, ListTargets, Record,
     SetWake, PublishFails, CancelPublish
<1> QED BY <1>2, <1>3, <1>4, <1>6, <1>7, <1>8 DEF Next, WorkerStep

\* As long as no endpoint is deleted, an event is flagged delivered only if some
\* receiver answered 2xx to it, whatever fails: the deletion of an endpoint
\* during a delivery is the only way to the counterexample of VDelivered.
THEOREM FlaggedWasAccepted ==
  Spec /\ [][EndpointsStay]_vars => []DeliveredWasAccepted
<1>1. Init => SentInv /\ DeliveredWasAccepted
  BY DEF Init, SentInv, DeliveredWasAccepted, NoSend
<1>2. OutboxInv /\ OutboxInv' /\ SentInv /\ [Next]_vars /\ [EndpointsStay]_vars => SentInv'
  <2>1. ASSUME OutboxInv, OutboxInv', SentInv, [Next]_vars, EndpointsStay PROVE SentInv'
    BY <2>1, SentSteps
  <2>2. ASSUME SentInv, UNCHANGED vars PROVE SentInv'
    BY <2>2 DEF vars, store, SentInv, Pending
  <2> QED BY <2>1, <2>2
<1>3. OutboxInv /\ SentInv /\ DeliveredWasAccepted /\ [Next]_vars => DeliveredWasAccepted'
  BY AcceptedSteps
<1> QED BY <1>1, <1>2, <1>3, OutboxInvariant, PTL DEF Spec
-----------------------------------------------------------------------------
(* Attempts and posts *)

LEMMA TriesTypes ==
  ASSUME OutboxInv
  PROVE  /\ \A r \in Rows : Tries(r) \in Nat /\ InHand(r) \in {0, 1} /\ row[r].attempts \in Nat
         /\ Mishaps \in Nat
<1>1. ASSUME NEW r \in Rows PROVE Tries(r) \in Nat
  <2>1. tried[r[2]] \in Seq(Events)
    BY EventFacts DEF Rows
  <2>2. IsFiniteSet(1..Len(tried[r[2]]))
    BY <2>1, FS_Interval
  <2>3. {i \in DOMAIN tried[r[2]] : tried[r[2]][i] = r[1]} \subseteq 1..Len(tried[r[2]])
    BY <2>1
  <2> QED BY <2>2, <2>3, FS_Subset, FS_CardinalityType DEF Tries
<1>2. \A r \in Rows : InHand(r) \in {0, 1} /\ row[r].attempts \in Nat
  BY OutboxAssumption DEF InHand, OutboxInv, TypeOK, RowType
<1>3. Mishaps \in Nat
  BY OutboxAssumption DEF Mishaps, OutboxInv, TypeOK
<1> QED BY <1>1, <1>2, <1>3

LEMMA TriesStepTypes ==
  ASSUME OutboxInv'
  PROVE  Mishaps' \in Nat
<1>1. PICK f \in 0..MaxFaults, c \in 0..MaxCrashes : f = faults' /\ c = crashes'
  BY DEF OutboxInv, TypeOK
<1>2. (MaxFaults - f) + (MaxCrashes - c) \in Nat
  BY OutboxAssumption
<1> QED BY <1>1, <1>2 DEF Mishaps

\* A post is counted once.
LEMMA PostTries ==
  ASSUME OutboxInv, NEW ep \in Endpoints, NEW e \in Events,
         tried' = [tried EXCEPT ![ep] = Append(@, e)],
         NEW r \in Rows
  PROVE  Tries(r)' = IF r = <<e, ep>> THEN Tries(r) + 1 ELSE Tries(r)
<1>0. r = <<r[1], r[2]>> /\ r[2] \in Endpoints /\ tried \in [Endpoints -> Seq(Events)]
  BY DEF Rows, OutboxInv, TypeOK
<1>1. CASE r[2] # ep
  <2>1. tried'[r[2]] = tried[r[2]]
    BY <1>0, <1>1
  <2> QED BY <1>0, <1>1, <2>1 DEF Tries
<1>2. CASE r[2] = ep
  <2> DEFINE s == tried[ep]
             t == tried'[ep]
             n == Len(s)
             before == {i \in DOMAIN s : s[i] = r[1]}
             after == {i \in DOMAIN t : t[i] = r[1]}
  <2>1. Tries(r) = Cardinality(before) /\ Tries(r)' = Cardinality(after)
    BY <1>2 DEF Tries
  <2>2. s \in Seq(Events) /\ t = Append(s, e)
    BY <1>0
  <2>3. /\ n \in Nat /\ DOMAIN s = 1..n /\ DOMAIN t = 1..(n + 1)
        /\ t[n + 1] = e /\ \A i \in DOMAIN s : t[i] = s[i]
    BY <2>2
  <2> HIDE DEF s, t, n
  <2>4. before \subseteq 1..n /\ n + 1 \notin before
    BY <2>3
  <2>5. IsFiniteSet(before)
    <3>1. IsFiniteSet(1..n)
      BY <2>3, FS_Interval
    <3> HIDE DEF before
    <3> QED BY <2>4, <3>1, FS_Subset
  <2>6. CASE r[1] = e
    <3>1. after = before \cup {n + 1}
      BY <2>3, <2>6
    <3> HIDE DEF before, after
    <3>2. Cardinality(after) = Cardinality(before) + 1
      BY <2>4, <2>5, <3>1, FS_AddElement
    <3> QED BY <1>0, <1>2, <2>1, <2>6, <3>2
  <2>7. CASE r[1] # e
    <3>1. after = before
      BY <2>3, <2>7
    <3> HIDE DEF before, after
    <3> QED BY <1>0, <1>2, <2>1, <2>7, <3>1
  <2> QED BY <2>6, <2>7
<1> QED BY <1>1, <1>2

\* A row that is not attempted, whose post in hand stays or is lost by a mishap.
LEMMA SameTries ==
  ASSUME OutboxInv, OutboxInv', UNCHANGED tried, NEW r \in Rows, Tried(r),
         row'[r].state # "none" =>
           /\ row[r].state # "none" /\ row'[r].attempts = row[r].attempts
           /\ \/ InHand(r)' = InHand(r) /\ Mishaps' >= Mishaps
              \/ InHand(r)' = 0 /\ Mishaps' >= Mishaps + 1
  PROVE  Tried(r)'
<1>1. Tries(r)' = Tries(r)
  BY DEF Tries
<1>2. /\ Tries(r) \in Nat /\ InHand(r) \in {0, 1} /\ row[r].attempts \in Nat
      /\ Mishaps \in Nat
  BY TriesTypes
<1>3. Mishaps' \in Nat
  BY TriesStepTypes
<1> QED BY <1>1, <1>2, <1>3 DEF Tried

LEMMA TriesSteps ==
  ASSUME OutboxInv, OutboxInv', \A r \in Rows : Tried(r), [Next]_vars, NEW r \in Rows
  PROVE  Tried(r)'
<1>0. /\ row \in [Rows -> RowType] /\ flight \in [Endpoints -> Flight]
      /\ r[1] \in Events /\ r[2] \in Endpoints /\ r = <<r[1], r[2]>>
      /\ faults \in Int /\ crashes \in Int /\ MaxFaults \in Int /\ MaxCrashes \in Int
      /\ InHand(r) \in {0, 1} /\ FlightInv
  BY OutboxAssumption, TriesTypes DEF OutboxInv, TypeOK, Rows
<1>1. ASSUME UNCHANGED <<faults, crashes>> PROVE Mishaps' >= Mishaps
  BY <1>0, <1>1 DEF Mishaps
<1>2. ASSUME \/ UseFault /\ crashes' = crashes
             \/ UseCrash /\ faults' = faults
      PROVE  Mishaps' >= Mishaps + 1 /\ Mishaps' >= Mishaps
  BY <1>0, <1>2 DEF Mishaps, UseFault, UseCrash
<1>3. ASSUME flight'[r[2]] = flight[r[2]] PROVE InHand(r)' = InHand(r)
  BY <1>3 DEF InHand
<1>4. ASSUME UNCHANGED <<flight, tried>>, Mishaps' >= Mishaps,
             \/ row'[r].state = row[r].state /\ row'[r].attempts = row[r].attempts
             \/ row'[r].state = "none"
      PROVE  Tried(r)'
  BY <1>3, <1>4, SameTries
<1>5. ASSUME NEW p \in Publishers, Record(p) PROVE Tried(r)'
  <2>1. UNCHANGED <<flight, tried>> /\ Mishaps' >= Mishaps
    BY <1>1, <1>5, RecordEffect DEF history, bounds
  <2>2. CASE row'[r] = row[r]
    BY <1>4, <2>1, <2>2
  <2>3. CASE r[1] = count + 1 /\ row'[r] = NewRow
    <3>1. InHand(r)' = 0
      <4>1. flight[r[2]].at # "none" => flight[r[2]].event # r[1]
        BY <1>0, <2>3, EventFacts
      <4> QED BY <2>1, <4>1 DEF InHand
    <3>2. Tries(r)' = 0
      <4>1. \A i \in DOMAIN tried[r[2]] : tried[r[2]][i] <= count
        BY <1>0 DEF OutboxInv, OrderInv, Ordered
      <4>2. \A i \in DOMAIN tried[r[2]] : tried[r[2]][i] # r[1]
        BY <2>3, <4>1, EventFacts
      <4>3. {i \in DOMAIN tried'[r[2]] : tried'[r[2]][i] = r[1]} = {}
        BY <2>1, <4>2
      <4> QED BY <4>3, FS_EmptySet DEF Tries
    <3>3. Mishaps' \in Nat
      BY TriesStepTypes
    <3>4. row'[r].attempts = 0
      BY <2>3 DEF NewRow
    <3>5. PICK m \in Nat : m = Mishaps'
      BY <3>3
    <3>6. 0 + 0 <= 0 /\ 0 <= 0 + 0 + m
      OBVIOUS
    <3> QED BY <3>1, <3>2, <3>4, <3>5, <3>6 DEF Tried
  <2> QED BY <1>5, <2>2, <2>3, RecordEffect
<1>6. ASSUME NEW ep \in Endpoints, DeleteEndpoint(ep) PROVE Tried(r)'
  BY <1>1, <1>4, <1>6 DEF DeleteEndpoint, history, bounds, NoRow
<1>7. ASSUME NEW old, Prune(old) PROVE Tried(r)'
  BY <1>1, <1>4, <1>7 DEF Prune, history, bounds, NoRow
<1>8. ASSUME NEW q \in Rows, BackoffEnds(q) PROVE Tried(r)'
  <2>1. row'[r].state = row[r].state /\ row'[r].attempts = row[r].attempts
    BY <1>0, <1>8 DEF BackoffEnds, RowType
  <2> QED BY <1>1, <1>4, <1>8, <2>1 DEF BackoffEnds, history, bounds
<1>9. ASSUME NEW ep \in Endpoints, FinishWrite(ep) PROVE Tried(r)'
  <2>1. /\ flight' = [flight EXCEPT ![ep] = NoSend] /\ UNCHANGED tried /\ Mishaps' = Mishaps
        /\ flight[ep].at = "update"
    BY <1>9 DEF FinishWrite, history, bounds, Mishaps
  <2>2. CASE r # <<flight[ep].event, ep>>
    <3>1. row'[r] = row[r]
      BY <1>9, <2>2, WriteEffect
    <3>2. InHand(r)' = InHand(r)
      BY <1>0, <2>1, <2>2 DEF InHand, NoSend
    <3> QED BY <1>0, <2>1, <3>1, <3>2, SameTries, TriesTypes
  <2>3. CASE r = <<flight[ep].event, ep>>
    <3>1. InHand(r) = 1 /\ InHand(r)' = 0
      BY <1>0, <2>1, <2>3 DEF InHand, NoSend
    <3>2. CASE row[r].state = "none" /\ row'[r] = row[r]
      BY <3>2 DEF Tried
    <3>3. CASE row[r].state # "none" /\ row'[r] = Finished(row[r], flight[ep].ok)
      <4>1. row'[r].attempts = row[r].attempts + 1
        BY <3>3 DEF Finished
      <4>2. Tries(r)' = Tries(r)
        BY <2>1 DEF Tries
      <4>3. /\ Tries(r) \in Nat /\ row[r].attempts \in Nat /\ Mishaps \in Nat
        BY TriesTypes
      <4> QED BY <2>1, <3>1, <3>3, <4>1, <4>2, <4>3 DEF Tried
    <3> QED BY <1>9, <2>3, <3>2, <3>3, WriteEffect
  <2> QED BY <2>2, <2>3
<1>10. CASE Query
  <2>1. UNCHANGED <<row, tried>> /\ Mishaps' >= Mishaps
    BY <1>1, <1>10 DEF Query, store, history, bounds
  <2>2. InHand(r) = 0
    BY <1>0, <1>10 DEF Query, FlightInv, InHand
  <2>3. InHand(r)' = 0
    <3>1. CASE flight'[r[2]] = NoSend
      BY <3>1 DEF InHand, NoSend
    <3>2. CASE \E e \in Events :
                 flight'[r[2]] = [at |-> "post", ok |-> FALSE, event |-> e]
      BY <3>2 DEF InHand
    <3> QED BY <1>0, <1>10, <3>1, <3>2, QueryTakes DEF OutboxInv
  <2> QED BY <2>1, <2>2, <2>3, SameTries
<1>11. ASSUME NEW ep \in Endpoints, Post(ep) PROVE Tried(r)'
  <2>0. PICK e \in Events : e = flight[ep].event
    BY <1>11, EventFacts DEF Post
  <2>1. /\ flight[ep].at = "post" /\ UNCHANGED row /\ Mishaps' = Mishaps
        /\ tried' = [tried EXCEPT ![ep] = Append(@, e)]
        /\ flight'[ep].at = "read" /\ flight'[ep].event = e
        /\ \A x \in Endpoints \ {ep} : flight'[x] = flight[x]
    BY <1>0, <1>11, <2>0 DEF Post, store, bounds, Flight, Mishaps
  <2>2. Tries(r)' = IF r = <<e, ep>> THEN Tries(r) + 1 ELSE Tries(r)
    BY <2>1, PostTries
  <2>3. /\ Tries(r) \in Nat /\ row[r].attempts \in Nat /\ Mishaps \in Nat
    BY TriesTypes
  <2>4. CASE r = <<e, ep>>
    <3>1. InHand(r) = 0 /\ InHand(r)' = 1
      BY <1>0, <2>0, <2>1, <2>4 DEF InHand
    <3> QED BY <2>1, <2>2, <2>3, <2>4, <3>1 DEF Tried
  <2>5. CASE r # <<e, ep>>
    <3>1. InHand(r)' = InHand(r)
      BY <1>0, <2>0, <2>1, <2>5 DEF InHand
    <3> QED BY <2>1, <2>2, <2>3, <2>5, <3>1 DEF Tried
  <2> QED BY <2>4, <2>5
<1>12. ASSUME NEW ep \in Endpoints, FinishRead(ep) PROVE Tried(r)'
  <2>1. /\ UNCHANGED <<row, tried>> /\ Mishaps' >= Mishaps /\ flight[ep].at = "read"
        /\ \A x \in Endpoints \ {ep} : flight'[x] = flight[x]
        /\ \/ /\ row[<<flight[ep].event, ep>>].state = "none"
              /\ flight'[ep] = NoSend
           \/ flight'[ep].event = flight[ep].event /\ flight'[ep].at = "update"
    BY <1>0, <1>1, <1>12 DEF FinishRead, store, history, bounds, Flight
  <2>2. row[r].state # "none" => InHand(r)' = InHand(r)
    BY <1>0, <2>1 DEF InHand, NoSend
  <2> QED BY <2>1, <2>2, SameTries
<1>13. ASSUME NEW ep \in Endpoints, SendFails(ep) PROVE Tried(r)'
  <2>1. /\ UNCHANGED <<row, tried>> /\ Mishaps' >= Mishaps + 1 /\ Mishaps' >= Mishaps
        /\ flight' = [flight EXCEPT ![ep] = NoSend]
    BY <1>2, <1>13 DEF SendFails, store, history
  <2>2. InHand(r)' = InHand(r) \/ InHand(r)' = 0
    BY <1>0, <2>1 DEF InHand, NoSend
  <2> QED BY <2>1, <2>2, SameTries
<1>14. CASE StopTimeout \/ Crash
  <2>1. /\ UNCHANGED <<row, tried>> /\ Mishaps' >= Mishaps + 1
        /\ flight' = [ep \in Endpoints |-> NoSend]
    BY <1>2, <1>14 DEF StopTimeout, Crash, LoseWork, store, history
  <2>2. InHand(r)' = 0
    BY <1>0, <2>1 DEF InHand, NoSend
  <2> QED BY <2>1, <2>2, SameTries
<1>15. CASE BatchDone \/ Awake \/ Start \/ Stop \/ UNCHANGED vars
  BY <1>1, <1>4, <1>15 DEF BatchDone, Awake, Start, Stop, vars, store, history, bounds
<1>16. CASE CycleFails
  BY <1>2, <1>4, <1>16 DEF CycleFails, store, history
<1>17. ASSUME NEW p \in Publishers,
              Publish(p) \/ ListTargets(p) \/ SetWake(p) \/ CancelPublish(p)
       PROVE  Tried(r)'
  BY <1>1, <1>4, <1>17
     DEF Publish, ListTargets, SetWake, CancelPublish, store, history, bounds
<1>18. ASSUME NEW p \in Publishers, PublishFails(p) PROVE Tried(r)'
  BY <1>2, <1>4, <1>18 DEF PublishFails, store, history
<1>19. ASSUME NEW ep \in Endpoints, NEW kinds, CreateEndpoint(ep, kinds) PROVE Tried(r)'
  BY <1>1, <1>4, <1>19 DEF CreateEndpoint, store, history, bounds
<1> QED BY <1>5, <1>6, <1>7, <1>8, <1>9, <1>10, <1>11, <1>12, <1>13, <1>14, <1>15,
   <1>16,
           <1>17, <1>18, <1>19 DEF Next, WorkerStep, PublisherStep

\* A delivery is not counted as attempted without a post, nor posted beyond the
\* count but once for each crash, cancelled worker or SQLite failure.
THEOREM PostsAreCounted == Spec => []AttemptsAreCounted
<1>1. Init => TriesInv
  BY DEF Init, TriesInv, Tried, NoRow
<1>2. OutboxInv /\ OutboxInv' /\ TriesInv /\ [Next]_vars => TriesInv'
  BY TriesSteps DEF TriesInv
<1>3. OutboxInv /\ TriesInv => AttemptsAreCounted
  <2>1. ASSUME OutboxInv, NEW r \in Rows, Tried(r), row[r].state # "none"
        PROVE  /\ row[r].attempts <= Tries(r)
               /\ Tries(r) <= row[r].attempts + InHand(r)
                                + (MaxFaults - faults) + (MaxCrashes - crashes)
               /\ row[r].state = "failed" => row[r].attempts = MaxAttempts
    <3>1. /\ Tries(r) \in Nat /\ row[r].attempts \in Nat /\ InHand(r) \in {0, 1}
          /\ faults \in Int /\ crashes \in Int /\ MaxFaults \in Int /\ MaxCrashes \in Int
      BY <2>1, TriesTypes, OutboxAssumption DEF OutboxInv, TypeOK
    <3>2. row[r].state = "failed" => row[r].attempts = MaxAttempts
      BY <2>1 DEF OutboxInv, RowInv
    <3> QED BY <2>1, <3>1, <3>2 DEF Tried, Mishaps
  <2> QED BY <2>1 DEF AttemptsAreCounted, TriesInv
<1> QED BY <1>1, <1>2, <1>3, OutboxInvariant, PTL DEF Spec
-----------------------------------------------------------------------------
(* The signal *)

\* The heads of the queues of other endpoints, or of rows that stay, stay.
LEMMA FewerHeads ==
  ASSUME \A r \in Rows : \/ row'[r] = row[r] /\ (r[2] \in Live' => r[2] \in Live)
                         \/ ~Pending(r[1], r[2])' /\ ~Pending(r[1], r[2])
                         \/ r[2] \notin Live'
  PROVE  \A r \in DueHeads' : r \in DueHeads /\ row'[r] = row[r]
<1>1. ASSUME NEW r \in DueHeads' PROVE r \in DueHeads /\ row'[r] = row[r]
  <2>1. /\ r \in Rows /\ r[2] \in Live' /\ Pending(r[1], r[2])' /\ row'[r].due
        /\ \A e \in Events : Pending(e, r[2])' => r[1] <= e
    BY <1>1 DEF DueHeads
  <2>2. row'[r] = row[r] /\ r[2] \in Live
    BY <2>1
  <2>3. r = <<r[1], r[2]>> /\ r[2] \in Endpoints
    BY <2>1 DEF Rows
  <2>4. ASSUME NEW e \in Events, Pending(e, r[2]) PROVE r[1] <= e
    <3>1. <<e, r[2]>> \in Rows
      BY <2>3 DEF Rows
    <3>2. Pending(e, r[2])'
      BY <2>1, <2>4, <3>1 DEF Pending
    <3> QED BY <2>1, <2>4, <3>2
  <2> QED BY <2>1, <2>2, <2>3, <2>4 DEF DueHeads, Pending
<1> QED BY <1>1

LEMMA WakeSteps ==
  ASSUME Stoppable = {}, OutboxInv, OutboxInv', WakeInv, [Next]_vars
  PROVE  WakeInv'
<1>0. /\ row \in [Rows -> RowType] /\ flight \in [Endpoints -> Flight] /\ FlightInv /\ RowInv
      /\ endpoint \in [Endpoints -> {"new", "live", "deleted"}]
  BY DEF OutboxInv, TypeOK
<1> DEFINE Asleep == \/ worker = "prune" /\ ~busy
                     \/ worker = "sleep" /\ ~error
           Tried0 == \A r \in DueHeads : row[r].attempts > 0
<1>1. WakeInv <=> (Asleep => (Unsignalled => Tried0))
  BY DEF WakeInv
<1>2. ASSUME Asleep' => Asleep, Unsignalled' => Unsignalled,
             \A r \in DueHeads' : r \in DueHeads /\ row'[r] = row[r]
      PROVE  WakeInv'
  BY <1>2 DEF WakeInv
<1>3. ASSUME UNCHANGED <<row, endpoint>>
      PROVE  \A r \in DueHeads' : r \in DueHeads /\ row'[r] = row[r]
  BY <1>3 DEF DueHeads, Live, Pending
<1>4. ASSUME UNCHANGED <<worker, busy, error>> PROVE Asleep' => Asleep
  BY <1>4
<1>5. ASSUME UNCHANGED <<wake, pub>> PROVE Unsignalled' => Unsignalled
  BY <1>5 DEF Unsignalled
<1>6. ASSUME ~Asleep' PROVE WakeInv'
  BY <1>6 DEF WakeInv
<1>7. ASSUME ~Unsignalled' PROVE WakeInv'
  BY <1>7 DEF WakeInv
<1>10. CASE Query
  <2>1. CASE Batch = {}
    <3>1. DueHeads = {}
      BY <2>1, EmptyBatch DEF OutboxInv
    <3>2. UNCHANGED <<row, endpoint>>
      BY <1>10 DEF Query, endpoints, store
    <3>3. DueHeads' = {}
      BY <3>1, <3>2, <1>3
    <3> QED BY <3>3 DEF WakeInv
  <2>2. CASE Batch # {}
    <3>1. ~Asleep'
      BY <1>10, <2>2 DEF Query
    <3> QED BY <3>1, <1>6
  <2> QED BY <2>1, <2>2
<1>11. CASE BatchDone
  <2>1. ~Asleep'
    BY <1>0, <1>11 DEF BatchDone, FlightInv
  <2> QED BY <2>1, <1>6
<1>12. CASE Awake \/ Start \/ StopTimeout \/ Crash \/ CycleFails
  <2>1. ~Asleep'
    BY <1>12 DEF Awake, NextCycle, Start, StopTimeout, Crash, CycleFails
  <2> QED BY <2>1, <1>6
<1>13. CASE Stop
  <2>1. ~Unsignalled'
    BY <1>13 DEF Stop, Unsignalled
  <2> QED BY <2>1, <1>7
<1>14. ASSUME NEW old, Prune(old) PROVE WakeInv'
  <2>1. CASE busy
    <3>1. ~Asleep'
      BY <1>14, <2>1 DEF Prune, NextCycle
    <3> QED BY <3>1, <1>6
  <2>2. CASE ~busy
    <3>1. Asleep /\ UNCHANGED <<wake, pub, endpoint>>
      BY <1>14, <2>2 DEF Prune, publishing, endpoints
    <3>2. ASSUME NEW r \in Rows
          PROVE  \/ row'[r] = row[r] /\ (r[2] \in Live' => r[2] \in Live)
                 \/ ~Pending(r[1], r[2])' /\ ~Pending(r[1], r[2])
      <4>1. r = <<r[1], r[2]>> /\ r[2] \in Endpoints
        BY DEF Rows
      <4>2. CASE r[1] \in old
        <5>1. row'[r] = NoRow
          BY <1>14, <4>2 DEF Prune
        <5>2. ~Pending(r[1], r[2])
          BY <1>14, <4>1, <4>2 DEF Prune, Prunable
        <5> QED BY <4>1, <5>1, <5>2 DEF Pending, NoRow
      <4>3. CASE r[1] \notin old
        BY <1>14, <3>1, <4>3 DEF Prune, Live
      <4> QED BY <4>2, <4>3
    <3>3. \A r \in DueHeads' : r \in DueHeads /\ row'[r] = row[r]
      BY <3>2, FewerHeads
    <3> QED BY <1>2, <1>5, <3>1, <3>3
  <2> QED BY <2>1, <2>2
<1>15. ASSUME NEW ep \in Endpoints, DeleteEndpoint(ep) PROVE WakeInv'
  <2>1. \A r \in Rows : \/ row'[r] = row[r] /\ (r[2] \in Live' => r[2] \in Live)
                        \/ r[2] \notin Live'
    BY <1>0, <1>15 DEF DeleteEndpoint, Live
  <2>2. UNCHANGED <<wake, pub, worker, busy, error>>
    BY <1>15 DEF DeleteEndpoint, publishing, signals
  <2> QED BY <1>2, <1>4, <1>5, <2>1, <2>2, FewerHeads
<1>16. ASSUME NEW ep \in Endpoints, NEW kinds, CreateEndpoint(ep, kinds) PROVE WakeInv'
  <2>1. ASSUME NEW r \in Rows
        PROVE  \/ row'[r] = row[r] /\ (r[2] \in Live' => r[2] \in Live)
               \/ ~Pending(r[1], r[2])' /\ ~Pending(r[1], r[2])
    <3>1. row' = row /\ endpoint' = [endpoint EXCEPT ![ep] = "live"] /\ endpoint[ep] = "new"
      BY <1>16 DEF CreateEndpoint, store
    <3>2. r = <<r[1], r[2]>> /\ r[2] \in Endpoints
      BY DEF Rows
    <3>3. CASE r[2] = ep
      <4>1. row[r].state = "none"
        BY <1>0, <3>1, <3>3 DEF RowInv
      <4> QED BY <3>1, <3>2, <4>1 DEF Pending
    <3>4. CASE r[2] # ep
      BY <1>0, <3>1, <3>4 DEF Live
    <3> QED BY <3>3, <3>4
  <2>2. UNCHANGED <<wake, pub, worker, busy, error>>
    BY <1>16 DEF CreateEndpoint, publishing, signals
  <2>3. \A r \in DueHeads' : r \in DueHeads /\ row'[r] = row[r]
    BY <2>1, FewerHeads
  <2> QED BY <1>2, <1>4, <1>5, <2>2, <2>3
<1>17. ASSUME NEW p \in Publishers, Record(p) PROVE WakeInv'
  <2>0. pub \in [Publishers -> {"idle", "list", "record", "wake"}]
    BY DEF OutboxInv, TypeOK
  <2>1. CASE targets[p] \subseteq Live
    <3>1. ~Unsignalled'
      BY <1>17, <2>0, <2>1 DEF Record, Unsignalled
    <3> QED BY <3>1, <1>7
  <2>2. CASE ~(targets[p] \subseteq Live)
    <3>1. /\ UNCHANGED <<row, endpoint, worker, busy, error, wake>>
          /\ pub' = [pub EXCEPT ![p] = "idle"] /\ pub[p] = "record"
      BY <1>17, <2>2 DEF Record, endpoints, signals
    <3>2. Unsignalled' => Unsignalled
      BY <2>0, <3>1 DEF Unsignalled
    <3> QED BY <1>2, <1>3, <1>4, <3>1, <3>2
  <2> QED BY <2>1, <2>2
<1>18. ASSUME NEW p \in Publishers,
              Publish(p) \/ ListTargets(p) \/ SetWake(p) \/ PublishFails(p) \/ CancelPublish(p)
       PROVE  WakeInv'
  <2>0. pub \in [Publishers -> {"idle", "list", "record", "wake"}]
    BY DEF OutboxInv, TypeOK
  <2>1. CASE SetWake(p)
    <3>1. ~Unsignalled'
      BY <2>1 DEF SetWake, Unsignalled
    <3> QED BY <3>1, <1>7
  <2>2. CASE Publish(p) \/ ListTargets(p) \/ PublishFails(p)
    <3>1. UNCHANGED <<row, endpoint, worker, busy, error, wake>>
      BY <2>2 DEF Publish, ListTargets, PublishFails, endpoints, store, signals
    <3>2. pub[p] # "wake" /\ \A q \in Publishers \ {p} : pub'[q] = pub[q]
      BY <2>0, <2>2 DEF Publish, ListTargets, PublishFails
    <3>3. Unsignalled' => Unsignalled
      BY <3>1, <3>2 DEF Unsignalled
    <3> QED BY <1>2, <1>3, <1>4, <3>1, <3>3
  <2>3. ~CancelPublish(p)
    BY DEF CancelPublish
  <2> QED BY <1>18, <2>1, <2>2, <2>3
<1>19. ASSUME NEW ep \in Endpoints,
              Post(ep) \/ FinishRead(ep) \/ FinishWrite(ep) \/ SendFails(ep)
       PROVE  WakeInv'
  <2>1. worker = "batch" /\ worker' = worker
    BY <1>0, <1>19 DEF FlightInv, Post, FinishRead, FinishWrite, SendFails
  <2> QED BY <1>6, <2>1
<1>20. ASSUME NEW q \in Rows, BackoffEnds(q) PROVE WakeInv'
  <2>1. /\ UNCHANGED <<endpoint, worker, busy, error, wake, pub>>
        /\ row' = [row EXCEPT ![q].due = TRUE] /\ row[q].state = "pending" /\ ~row[q].due
    BY <1>20 DEF BackoffEnds, endpoints, signals, publishing
  <2>2. row[q].attempts \in Nat /\ row[q].attempts # 0
    BY <1>0, <1>20, <2>1, OutboxAssumption DEF RowInv, RowType
  <2>3. \A r \in Rows : /\ row'[r].state = row[r].state /\ row'[r].attempts = row[r].attempts
                        /\ r # q => row'[r] = row[r]
    BY <1>0, <2>1 DEF RowType
  <2>4. \A r \in DueHeads' : r \in DueHeads \/ r = q
    <3>1. ASSUME NEW r \in DueHeads', r # q PROVE r \in DueHeads
      <4>1. /\ r \in Rows /\ r[2] \in Live' /\ Pending(r[1], r[2])' /\ row'[r].due
            /\ \A e \in Events : Pending(e, r[2])' => r[1] <= e
        BY <3>1 DEF DueHeads
      <4>2. Live' = Live
        BY <2>1 DEF Live
      <4>3. r = <<r[1], r[2]>> /\ r[2] \in Endpoints
        BY <4>1 DEF Rows
      <4>4. \A e \in Events : Pending(e, r[2])' <=> Pending(e, r[2])
        BY <2>3, <4>3 DEF Pending, Rows
      <4>5. r[1] \in Events /\ row'[r] = row[r]
        BY <2>3, <3>1, <4>1 DEF Rows
      <4> QED BY <4>1, <4>2, <4>4, <4>5 DEF DueHeads
    <3> QED BY <3>1
  <2>5. ASSUME Asleep', Unsignalled', NEW r \in DueHeads' PROVE row'[r].attempts > 0
    <3>1. Asleep /\ Unsignalled /\ r \in Rows
      BY <1>4, <1>5, <2>1, <2>5 DEF DueHeads
    <3>2. CASE r = q
      BY <2>2, <2>3, <3>1, <3>2
    <3>3. CASE r \in DueHeads
      BY <1>1, <2>3, <3>1, <3>3
    <3> QED BY <2>4, <2>5, <3>2, <3>3
  <2> QED BY <2>5 DEF WakeInv
<1>21. CASE UNCHANGED vars
  BY <1>2, <1>3, <1>4, <1>5, <1>21 DEF vars, endpoints, store, publishing, signals
<1> QED BY <1>10, <1>11, <1>12, <1>13, <1>14, <1>15, <1>16, <1>17, <1>18, <1>19, <1>20,
   <1>21
        DEF Next, WorkerStep, PublisherStep

\* If no scenario stop can cancel a publisher between the commit and the signal,
\* the worker never sleeps on a new delivery it was told of.
THEOREM NoWakeIsMissed ==
  ASSUME Stoppable = {}
  PROVE  Spec => []NoMissedWake
<1>1. Init => WakeInv
  BY DEF Init, WakeInv
<1>2. OutboxInv /\ OutboxInv' /\ WakeInv /\ [Next]_vars => WakeInv'
  BY WakeSteps
<1>3. WakeInv => NoMissedWake
  BY DEF WakeInv, NoMissedWake, Unsignalled
<1> QED BY <1>1, <1>2, <1>3, OutboxInvariant, PTL DEF Spec
=============================================================================
