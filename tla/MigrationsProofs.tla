-------------------------- MODULE MigrationsProofs --------------------------
(***************************************************************************)
(* Theorems about Migrations, for any builds, runners, instances, requests *)
(* and times.                                                              *)
(***************************************************************************)
EXTENDS Migrations, TLAPS

USE DEF database, vars

-----------------------------------------------------------------------------
(* The inductive invariant.                                                *)

Whole == \A v \in DOMAIN recorded : Body[recorded[v]] \subseteq items
(* A runner has left out nothing below what it is about to apply.          *)
Orderly(r) ==
    At(r, "apply") => \A w \in runs[r].todo :
        /\ w \in Versions(runs[r].build)
        /\ \A v \in 1 .. (w - 1) : v \in runs[r].todo \/ Applied(v)
(* What a server goes by once it has found its schema current.             *)
Has(b) == \A v \in Versions(b) : Applied(v) /\ recorded[v] = b[v]
Sure(s) == servers[s].cached = "ok" \/ servers[s].prepared => Has(servers[s].build)
Told(q) == /\ requests[q].pc # "idle" => requests[q].server \in Servers
           /\ requests[q].pc = "read" => ~requests[q].ready
           /\ \/ requests[q].pc = "write" /\ requests[q].ready
              \/ requests[q].pc \in {"connect", "query"}
              => Has(OfServer(q).build)
(* Who works under a name of its own, and in time, has the lock.           *)
Locked(r) == OnlyName(r) /\ Works(r) /\ ~Overdue(r)
             => lock = [holder |-> HolderOf[r], age |-> runs[r].age]

IInv == /\ TypeOK /\ Whole /\ InOrder
        /\ \A r \in Runners : Orderly(r) /\ Locked(r)
        /\ \A s \in Servers : Sure(s)
        /\ \A q \in Requests : Told(q)

-----------------------------------------------------------------------------
(* The database                                                            *)

LEMMA BuildOK ==
    ASSUME NEW b \in Builds
    PROVE  Len(b) \in Nat /\ b \in Seq(Sums) /\ \A v \in Versions(b) : v \in Nat \ {0} /\ b[v] \in Sums
  BY BuildsAssumption DEF Versions

LEMMA InitOK == Init => IInv
  <1> SUFFICES ASSUME Init PROVE IInv
    OBVIOUS
  <1>1. DOMAIN recorded = {}
    BY DEF Init
  <1>2. TypeOK
    <2>1. lock \in Lock
      BY DEF Init, Free, Lock
    <2>2. runs \in [Runners -> Runner]
      BY DEF Init, Resting, Runner
    <2>3. servers \in [Servers -> Instance]
      <3>1. \A b \in Builds : Started(b) \in Instance
        BY DEF Started, Instance
      <3>2. QED
        BY <3>1 DEF Init
    <2>4. requests \in [Requests -> Request]
      BY DEF Init, Asleep, Request
    <2>5. QED
      BY <1>1, <2>1, <2>2, <2>3, <2>4, TimeAssumption DEF Init, TypeOK
  <1>3. Whole /\ InOrder
    BY <1>1 DEF Whole, InOrder
  <1>4. \A r \in Runners : Orderly(r) /\ Locked(r)
    BY DEF Init, Resting, Orderly, Locked, Works, At
  <1>5. \A s \in Servers : Sure(s)
    <2>1. TAKE s \in Servers
    <2>2. PICK b \in Builds : servers[s] = Started(b)
      BY DEF Init
    <2>3. QED
      BY <2>2 DEF Sure, Started
  <1>6. \A q \in Requests : Told(q)
    BY DEF Init, Asleep, Told
  <1>7. QED
    BY <1>2, <1>3, <1>4, <1>5, <1>6 DEF IInv

(* A row is added to the record, or nothing is; nothing ever goes.         *)
Kept == /\ \A v \in DOMAIN recorded : v \in DOMAIN recorded' /\ recorded'[v] = recorded[v]
        /\ items \subseteq items'

LEMMA NothingRecorded ==
    ASSUME TypeOK, Whole, InOrder, recorded' = recorded, items \subseteq items'
    PROVE  Kept /\ Whole' /\ InOrder'
  BY DEF Kept, Whole, InOrder

LEMMA OneRecorded ==
    ASSUME IInv, NEW r \in Runners, At(r, "apply"), NEW v, IsNext(r, v), Records(r, v)
    PROVE  /\ Kept /\ Whole' /\ InOrder' /\ runs[r].build \in Builds
           /\ v \in Nat \ {0} /\ DOMAIN recorded' = DOMAIN recorded \cup {v}
           /\ recorded'[v] \in Sums /\ items' \subseteq Items
  <1>1. PICK b \in Builds \cup {<< >>} : b = runs[r].build
    BY DEF IInv, TypeOK, Runner
  <1>2. v \in Versions(b)
    BY <1>1 DEF IInv, Orderly, IsNext
  <1>3. b \in Builds
    BY <1>2 DEF Versions
  <1>4. Len(b) \in Nat /\ v \in Nat \ {0} /\ b[v] \in Sums
    BY <1>2, <1>3, BuildOK
  <1>5. /\ v \notin DOMAIN recorded /\ items' = items \cup Body[b[v]]
        /\ recorded' = [w \in DOMAIN recorded \cup {v} |-> IF w = v THEN b[v] ELSE recorded[w]]
    BY <1>1 DEF Records, With, Applied
  <1>6. DOMAIN recorded' = DOMAIN recorded \cup {v} /\ recorded'[v] = b[v]
        /\ \A w \in DOMAIN recorded : recorded'[w] = recorded[w]
    BY <1>5
  <1>7. Kept
    BY <1>5, <1>6 DEF Kept
  <1>8. Whole'
    BY <1>5, <1>6 DEF IInv, Whole
  <1>9. InOrder'
    <2>1. 1 .. v \subseteq DOMAIN recorded'
      <3>1. \A w \in 1 .. (v - 1) : w \in DOMAIN recorded
        BY <1>4 DEF IInv, Orderly, IsNext, TypeOK, Runner, Applied
      <3>2. QED
        BY <1>4, <1>6, <3>1
    <2>2. QED
      BY <1>6, <2>1 DEF IInv, InOrder
  <1>10. items' \subseteq Items
    BY <1>4, <1>5, BodyAssumption DEF IInv, TypeOK
  <1>11. QED
    BY <1>1, <1>3, <1>4, <1>6, <1>7, <1>8, <1>9, <1>10

LEMMA HasKept ==
    ASSUME Kept, NEW b, Has(b)
    PROVE  Has(b)'
  BY DEF Kept, Has, Applied

LEMMA CurrentHas ==
    ASSUME NEW b, IsCurrent(b)
    PROVE  Has(b)
  BY DEF IsCurrent, Drifted, Pending, Has, Applied

-----------------------------------------------------------------------------
(* The runners                                                             *)

(* Others lose the lock only when it is free, overdue or not theirs.       *)
LEMMA OthersLocked ==
    ASSUME IInv, NEW r \in Runners, NEW s \in Runners \ {r}, runs'[s] = runs[s],
           lock' = lock \/ lock = Free \/ IsStale \/ Holds(r)
    PROVE  Locked(s)'
  <1> SUFFICES ASSUME OnlyName(s), Works(s), ~Overdue(s)
               PROVE  lock' = [holder |-> HolderOf[s], age |-> runs[s].age]
    BY DEF Locked, OnlyName, Works, Overdue, At
  <1>1. lock = [holder |-> HolderOf[s], age |-> runs[s].age]
    BY DEF IInv, Locked
  <1>2. lock # Free
    BY <1>1, NoneAssumption DEF Free
  <1>3. ~IsStale
    BY <1>1 DEF IsStale, Overdue
  <1>4. ~Holds(r)
    BY <1>1 DEF Holds, OnlyName
  <1>5. QED
    BY <1>1, <1>2, <1>3, <1>4

LEMMA OthersOrderly ==
    ASSUME IInv, Kept, NEW s \in Runners, runs'[s] = runs[s]
    PROVE  Orderly(s)'
  BY DEF IInv, Kept, Orderly, At, Applied

LEMMA OutsideKept ==
    ASSUME IInv, Kept, Outside
    PROVE  /\ \A s \in Servers : Sure(s)'
           /\ \A q \in Requests : Told(q)'
  <1>1. \A s \in Servers : Sure(s)'
    <2>1. TAKE s \in Servers
    <2>2. Sure(s) /\ servers' = servers
      BY DEF IInv, Outside
    <2>3. QED
      BY <2>2, HasKept DEF Sure
  <1>2. \A q \in Requests : Told(q)'
    <2>1. TAKE q \in Requests
    <2>2. Told(q) /\ servers' = servers /\ requests' = requests
      BY DEF IInv, Outside
    <2>3. QED
      BY <2>2, HasKept DEF Told, OfServer
  <1>3. QED
    BY <1>1, <1>2

Recorded == /\ \A v \in DOMAIN recorded : v \in Nat \ {0} /\ recorded[v] \in Sums
            /\ items \subseteq Items

(* One runner goes on; what it must not do to the others.                  *)
LEMMA RunnerStep ==
    ASSUME IInv, NEW r \in Runners, NEW new \in Runner, runs' = [runs EXCEPT ![r] = new],
           Kept, Whole', InOrder', Recorded', Outside, lock' \in Lock, events' \in 0 .. MaxEvents,
           Orderly(r)', Locked(r)',
           lock' = lock \/ lock = Free \/ IsStale \/ Holds(r)
    PROVE  IInv'
  <1>1. runs \in [Runners -> Runner]
    BY DEF IInv, TypeOK
  <1>2. runs' \in [Runners -> Runner]
    BY <1>1
  <1>3. TypeOK'
    BY <1>2 DEF IInv, TypeOK, Recorded, Outside
  <1>4. \A s \in Runners \ {r} : runs'[s] = runs[s]
    BY <1>1
  <1>5. \A s \in Runners : Orderly(s)' /\ Locked(s)'
    BY <1>4, OthersOrderly, OthersLocked
  <1>6. QED
    BY <1>3, <1>5, OutsideKept DEF IInv

(* The same of a runner that leaves the record as it was.                  *)
LEMMA IdleStep ==
    ASSUME IInv, NEW r \in Runners, NEW new \in Runner, runs' = [runs EXCEPT ![r] = new],
           recorded' = recorded, items' = items, Outside, lock' \in Lock, events' \in 0 .. MaxEvents,
           Orderly(r)', Locked(r)',
           lock' = lock \/ lock = Free \/ IsStale \/ Holds(r)
    PROVE  IInv'
  <1>1. Kept /\ Whole' /\ InOrder'
    BY NothingRecorded DEF IInv
  <1>2. Recorded'
    BY DEF IInv, TypeOK, Recorded
  <1>3. QED
    BY <1>1, <1>2, RunnerStep

LEMMA RunTypes ==
    ASSUME IInv, NEW r \in Runners
    PROVE  /\ runs \in [Runners -> Runner] /\ runs[r] \in Runner /\ lock \in Lock
           /\ events \in 0 .. MaxEvents /\ Free \in Lock /\ Resting \in Runner
  BY DEF IInv, TypeOK, Free, Lock, Resting, Runner

(* A runner that neither looks nor applies has nothing to prove.           *)
LEMMA AwayStep ==
    ASSUME IInv, NEW r \in Runners, NEW new \in Runner, runs' = [runs EXCEPT ![r] = new],
           new.pc \notin {"look", "apply"},
           recorded' = recorded, items' = items, Outside, lock' \in Lock, events' \in 0 .. MaxEvents,
           lock' = lock \/ lock = Free \/ IsStale \/ Holds(r)
    PROVE  IInv'
  <1>1. runs'[r] = new
    BY RunTypes
  <1>2. Orderly(r)' /\ Locked(r)'
    BY <1>1 DEF Orderly, Locked, Works, At
  <1>3. QED
    BY <1>2, IdleStep

LEMMA EventCounted ==
    ASSUME IInv, Event
    PROVE  events' \in 0 .. MaxEvents
  BY TimeAssumption DEF IInv, TypeOK, Event

LEMMA UpOK ==
    ASSUME IInv, NEW r \in Runners, NEW b \in Builds, Up(r, b)
    PROVE  IInv'
  <1> DEFINE new == [Resting EXCEPT !.pc = "clear", !.build = b]
  <1>1. new \in Runner /\ new.pc = "clear"
    BY DEF Resting, Runner
  <1>2. QED
    BY <1>1, RunTypes, AwayStep DEF Up

LEMMA ClearStaleOK ==
    ASSUME IInv, NEW r \in Runners, ClearStale(r)
    PROVE  IInv'
  <1> DEFINE new == [runs[r] EXCEPT !.pc = "claim", !.age = 0]
  <1>1. new \in Runner /\ new.pc = "claim" /\ runs' = [runs EXCEPT ![r] = new]
    BY RunTypes DEF ClearStale, Runner
  <1>2. lock' \in Lock /\ (lock' = lock \/ IsStale)
    BY RunTypes DEF ClearStale
  <1>3. QED
    BY <1>1, <1>2, RunTypes, AwayStep DEF ClearStale

LEMMA ClaimOK ==
    ASSUME IInv, NEW r \in Runners, Claim(r)
    PROVE  IInv'
  <1>1. CASE lock = Free
    <2> DEFINE new == [runs[r] EXCEPT !.pc = "look"]
    <2>1. new \in Runner /\ new.pc = "look" /\ new.age = runs[r].age
          /\ runs' = [runs EXCEPT ![r] = new]
      BY <1>1, RunTypes DEF Claim, Goes, Runner
    <2>2. lock' = [holder |-> HolderOf[r], age |-> runs[r].age] /\ lock' \in Lock
      BY <1>1, RunTypes DEF Claim, Lock, Runner
    <2>3. runs'[r] = new
      BY <2>1, RunTypes
    <2>4. Orderly(r)' /\ Locked(r)'
      BY <2>1, <2>2, <2>3 DEF Orderly, Locked, Works, At
    <2>5. QED
      BY <1>1, <2>1, <2>2, <2>4, RunTypes, IdleStep DEF Claim
  <1>2. CASE lock # Free
    <2>1. Resting.pc = "idle"
      BY DEF Resting
    <2>2. QED
      BY <1>2, <2>1, RunTypes, AwayStep DEF Claim, Ends
  <1>3. QED
    BY <1>1, <1>2

LEMMA LookOK ==
    ASSUME IInv, NEW r \in Runners, Look(r)
    PROVE  IInv'
  <1> DEFINE b == runs[r].build
             todo == IF Drifted(b) THEN {} ELSE Pending(b)
             new == [runs[r] EXCEPT !.todo = todo, !.pc = "apply"]
  <1>1. b \in Builds \cup {<< >>}
    BY RunTypes DEF Runner
  <1>2. todo \subseteq Versions(b) /\ Len(b) \in Nat
    BY <1>1, BuildOK DEF Pending
  <1>3. new \in Runner /\ runs' = [runs EXCEPT ![r] = new]
    <2>1. todo \in SUBSET Nat
      BY <1>2 DEF Versions
    <2>2. new \in Runner
      <3> HIDE DEF todo
      <3>1. QED
        BY <2>1, RunTypes DEF Runner
    <2>3. runs' = [runs EXCEPT ![r].todo = todo, ![r].pc = "apply"]
      BY DEF Look
    <2>4. QED
      <3> HIDE DEF todo
      <3>1. QED
        BY <2>2, <2>3, RunTypes
  <1>4. runs'[r] = new
    BY <1>3, RunTypes
  <1>5. new.todo = todo /\ new.build = b /\ new.age = runs[r].age
    BY RunTypes DEF Runner
  <1>6. Orderly(r)'
    <2>1. SUFFICES ASSUME NEW w \in todo
                   PROVE  /\ w \in Versions(b)
                          /\ \A v \in 1 .. (w - 1) : v \in todo \/ v \in DOMAIN recorded
      <3>1. runs'[r].todo = todo /\ runs'[r].build = b /\ recorded' = recorded
        BY <1>4, <1>5 DEF Look
      <3> HIDE DEF todo, b
      <3>2. QED
        BY <2>1, <3>1 DEF Orderly, Applied, Versions
    <2>2. todo = Pending(b)
      BY <2>1
    <2>3. QED
      BY <1>2, <2>1, <2>2 DEF Versions, Pending, Applied
  <1>7. Locked(r)'
    BY <1>4, <1>5 DEF IInv, Locked, Look, Works, At, OnlyName, Overdue
  <1>8. QED
    BY <1>3, <1>6, <1>7, RunTypes, IdleStep DEF Look

LEMMA ApplyOneOK ==
    ASSUME IInv, NEW r \in Runners, ApplyOne(r)
    PROVE  IInv'
  <1>1. PICK v \in Versions(runs[r].build) :
          IsNext(r, v) /\ Records(r, v) /\ runs' = [runs EXCEPT ![r].todo = @ \ {v}]
    BY DEF ApplyOne
  <1> DEFINE new == [runs[r] EXCEPT !.todo = @ \ {v}]
  <1>2. new \in Runner /\ runs' = [runs EXCEPT ![r] = new]
    BY <1>1, RunTypes DEF Runner
  <1>3. runs'[r] = new
    BY <1>2, RunTypes
  <1>4. new.todo = runs[r].todo \ {v} /\ new.build = runs[r].build /\ new.age = runs[r].age
        /\ new.pc = runs[r].pc
    BY RunTypes DEF Runner
  <1>5. /\ Kept /\ Whole' /\ InOrder' /\ v \in Nat \ {0}
        /\ DOMAIN recorded' = DOMAIN recorded \cup {v} /\ recorded'[v] \in Sums /\ items' \subseteq Items
    BY <1>1, OneRecorded DEF ApplyOne
  <1>6. Recorded'
    BY <1>5 DEF IInv, TypeOK, Recorded, Kept
  <1>7. Orderly(r)'
    <2>1. Orderly(r) /\ At(r, "apply")
      BY DEF IInv, ApplyOne
    <2>2. QED
      BY <1>3, <1>4, <1>5, <2>1 DEF Orderly, Applied
  <1>8. Locked(r)'
    BY <1>3, <1>4 DEF IInv, Locked, ApplyOne, Works, At, OnlyName, Overdue
  <1>9. QED
    BY <1>2, <1>5, <1>6, <1>7, <1>8, RunTypes, RunnerStep DEF ApplyOne

LEMMA StopsOK ==
    ASSUME IInv, NEW r \in Runners, Stops(r)
    PROVE  /\ [Resting EXCEPT !.pc = "release"] \in Runner
           /\ Orderly(r)' /\ Locked(r)'
           /\ runs' = [runs EXCEPT ![r] = [Resting EXCEPT !.pc = "release"]]
  <1>1. [Resting EXCEPT !.pc = "release"] \in Runner
    BY DEF Resting, Runner
  <1>2. runs'[r] = [Resting EXCEPT !.pc = "release"]
    BY RunTypes DEF Stops
  <1>3. runs'[r].pc = "release"
    BY <1>2 DEF Resting
  <1>4. QED
    BY <1>1, <1>3 DEF Stops, Orderly, Locked, Works, At

LEMMA ApplyFailsOK ==
    ASSUME IInv, NEW r \in Runners, ApplyFails(r)
    PROVE  IInv'
  <1>1. PICK v \in Versions(runs[r].build) :
          /\ IsNext(r, v)
          /\ \/ Records(r, v)
             \/ items' \in {items \cup S : S \in SUBSET Body[runs[r].build[v]]} /\ recorded' = recorded
    BY DEF ApplyFails
  <1>2. Kept /\ Whole' /\ InOrder' /\ Recorded'
    <2>1. CASE Records(r, v)
      <3>1. /\ Kept /\ Whole' /\ InOrder' /\ v \in Nat \ {0}
            /\ DOMAIN recorded' = DOMAIN recorded \cup {v} /\ recorded'[v] \in Sums
            /\ items' \subseteq Items
        BY <1>1, <2>1, OneRecorded DEF ApplyFails
      <3>2. QED
        BY <3>1 DEF IInv, TypeOK, Recorded, Kept
    <2>2. CASE items' \in {items \cup S : S \in SUBSET Body[runs[r].build[v]]} /\ recorded' = recorded
      <3>1. runs[r].build \in Builds
        BY <1>1, RunTypes DEF Runner, Versions
      <3>2. Body[runs[r].build[v]] \subseteq Items
        BY <3>1, <1>1, BuildOK, BodyAssumption
      <3>3. items \subseteq items' /\ items' \subseteq Items
        BY <2>2, <3>2 DEF IInv, TypeOK
      <3>4. QED
        BY <2>2, <3>3, NothingRecorded DEF IInv, TypeOK, Recorded
    <2>3. QED
      BY <1>1, <2>1, <2>2
  <1>3. Stops(r) /\ lock' = lock /\ Outside /\ events' \in 0 .. MaxEvents
    BY EventCounted DEF ApplyFails
  <1>4. QED
    BY <1>2, <1>3, RunTypes, StopsOK, RunnerStep

LEMMA LeavesOK ==
    ASSUME IInv, NEW r \in Runners,
           Collides(r) \/ AllDone(r) \/ Release(r) \/ Dies(r)
    PROVE  IInv'
  <1>1. CASE Collides(r)
    BY <1>1, RunTypes, StopsOK, IdleStep DEF Collides
  <1>2. CASE AllDone(r)
    BY <1>2, RunTypes, StopsOK, IdleStep DEF AllDone
  <1>3. Resting.pc = "idle"
    BY DEF Resting
  <1>4. CASE Release(r)
    BY <1>3, <1>4, RunTypes, AwayStep DEF Release, Ends
  <1>5. CASE Dies(r)
    BY <1>3, <1>5, RunTypes, EventCounted, AwayStep DEF Dies, Ends
  <1>6. QED
    BY <1>1, <1>2, <1>4, <1>5

-----------------------------------------------------------------------------
(* The servers                                                             *)

LEMMA ClientStep ==
    ASSUME IInv, Client, events' \in 0 .. MaxEvents,
           servers' \in [Servers -> Instance], requests' \in [Requests -> Request],
           \A s \in Servers : Sure(s)',
           \A q \in Requests : Told(q)'
    PROVE  IInv'
  <1>1. TypeOK' /\ Whole' /\ InOrder'
    BY DEF IInv, TypeOK, Client, Whole, InOrder
  <1>2. \A r \in Runners : Orderly(r)' /\ Locked(r)'
    BY DEF IInv, Client, Orderly, Locked, At, Works, Overdue, OnlyName, Applied
  <1>3. QED
    BY <1>1, <1>2 DEF IInv

LEMMA ServerTypes ==
    ASSUME IInv
    PROVE  /\ servers \in [Servers -> Instance] /\ requests \in [Requests -> Request]
           /\ events \in 0 .. MaxEvents /\ Asleep \in Request
           /\ \A s \in Servers : Sure(s) /\ servers[s].build \in Builds
           /\ \A q \in Requests : Told(q)
  BY DEF IInv, TypeOK, Asleep, Request, Instance

(* A step of one request that changes nothing of its server.               *)
LEMMA RequestStep ==
    ASSUME IInv, Client, servers' = servers, events' \in 0 .. MaxEvents, NEW q \in Requests,
           NEW new \in Request, requests' = [requests EXCEPT ![q] = new],
           new.pc # "idle" => new.server \in Servers, new.pc = "read" => ~new.ready,
           \/ new.pc = "write" /\ new.ready
           \/ new.pc \in {"connect", "query"}
           => Has(servers[new.server].build)
    PROVE  IInv'
  <1>1. requests' \in [Requests -> Request] /\ requests'[q] = new
        /\ \A p \in Requests \ {q} : requests'[p] = requests[p]
    BY ServerTypes
  <1>2. \A s \in Servers : Sure(s)'
    BY ServerTypes DEF Client, Sure, Has, Applied
  <1>3. \A p \in Requests : Told(p)'
    <2>1. Told(q)'
      BY <1>1 DEF Client, Told, OfServer, Has, Applied
    <2>2. ASSUME NEW p \in Requests \ {q} PROVE Told(p)'
      BY <1>1, ServerTypes DEF Client, Told, OfServer, Has, Applied
    <2>3. QED
      BY <2>1, <2>2
  <1>4. QED
    BY <1>1, <1>2, <1>3, ServerTypes, ClientStep

LEMMA StartOK ==
    ASSUME IInv, NEW s \in Servers, NEW b \in Builds, Start(s, b)
    PROVE  IInv'
  <1>1. Started(b) \in Instance /\ Started(b).cached = "none" /\ ~Started(b).prepared
    BY DEF Started, Instance
  <1>2. servers' \in [Servers -> Instance] /\ servers'[s] = Started(b)
        /\ \A t \in Servers \ {s} : servers'[t] = servers[t]
    BY <1>1, ServerTypes DEF Start
  <1>3. requests' \in [Requests -> Request]
    BY ServerTypes DEF Start
  <1>4. ASSUME NEW t \in Servers PROVE Sure(t)'
    BY <1>1, <1>2, ServerTypes DEF Start, Client, Sure, Has, Applied
  <1>5. ASSUME NEW q \in Requests PROVE Told(q)'
    <2>1. CASE requests[q].server = s
      <3>1. requests'[q].pc = "idle"
        BY <2>1 DEF Start, Asleep
      <3>2. QED
        BY <3>1 DEF Told
    <2>2. CASE requests[q].server # s
      <3>1. requests'[q] = requests[q] /\ Told(q)
        BY <2>2, ServerTypes DEF Start
      <3>2. CASE requests[q].pc = "idle"
        BY <3>1, <3>2 DEF Told
      <3>3. CASE requests[q].pc # "idle"
        <4>1. requests[q].server \in Servers \ {s}
          BY <2>2, <3>1, <3>3 DEF Told
        <4>2. servers'[requests[q].server] = servers[requests[q].server]
          BY <1>2, <4>1
        <4>3. QED
          BY <3>1, <4>2 DEF Start, Client, Told, OfServer, Has, Applied
      <3>4. QED
        BY <3>2, <3>3
    <2>3. QED
      BY <2>1, <2>2
  <1>6. QED
    BY <1>2, <1>3, <1>4, <1>5, EventCounted, ClientStep DEF Start

LEMMA ArriveOK ==
    ASSUME IInv, NEW q \in Requests, NEW s \in Servers, Arrive(q, s)
    PROVE  IInv'
  <1> DEFINE new == [Asleep EXCEPT !.pc = IF IsCached(s) THEN "connect" ELSE "read", !.server = s]
  <1>1. new \in Request /\ new.server = s /\ new.pc # "write" /\ new.pc # "query" /\ ~new.ready
        /\ (new.pc = "connect" => IsCached(s))
    BY DEF Asleep, Request
  <1>2. new.pc = "connect" => Has(servers[s].build)
    BY <1>1, ServerTypes DEF Arrive, Sure
  <1>3. QED
    BY <1>1, <1>2, ServerTypes, RequestStep DEF Arrive

LEMMA AskingOK ==
    ASSUME IInv, NEW q \in Requests, ~Asks(q, "idle")
    PROVE  requests[q] \in Request /\ requests[q].server \in Servers
  BY ServerTypes DEF Asks, Told

LEMMA ReadOK ==
    ASSUME IInv, NEW q \in Requests, Read(q) \/ ReadFails(q)
    PROVE  IInv'
  <1>1. requests[q] \in Request /\ requests[q].server \in Servers
    BY AskingOK DEF Read, ReadFails, Asks
  <1>2. CASE Read(q)
    <2> DEFINE new == [requests[q] EXCEPT !.pc = "write", !.ready = IsCurrent(OfServer(q).build)]
    <2>1. new \in Request /\ new.pc = "write" /\ new.server = requests[q].server
          /\ (new.ready => IsCurrent(OfServer(q).build)) /\ requests' = [requests EXCEPT ![q] = new]
      <3>1. IsCurrent(OfServer(q).build) \in BOOLEAN
        BY DEF IsCurrent
      <3>2. QED
        BY <1>1, <1>2, <3>1, ServerTypes DEF Read, Request
    <2>2. new.ready => Has(servers[new.server].build)
      BY <2>1, CurrentHas DEF OfServer
    <2>3. QED
      BY <1>1, <1>2, <2>1, <2>2, ServerTypes, RequestStep DEF Read
  <1>3. CASE ReadFails(q)
    <2> DEFINE new == [requests[q] EXCEPT !.pc = "write"]
    <2>1. new \in Request /\ new.pc = "write" /\ new.server = requests[q].server
          /\ requests' = [requests EXCEPT ![q] = new] /\ new.ready = requests[q].ready
      BY <1>1, <1>3, ServerTypes DEF ReadFails, Request
    <2>2. ~new.ready
      BY <1>3, <2>1, ServerTypes DEF ReadFails, Asks, Told
    <2> HIDE DEF new
    <2>3. QED
      BY <2>2, <1>1, <1>3, <2>1, ServerTypes, EventCounted, RequestStep DEF ReadFails
  <1>4. QED
    BY <1>2, <1>3

LEMMA WriteOK ==
    ASSUME IInv, NEW q \in Requests, Write(q)
    PROVE  IInv'
  <1> DEFINE s == requests[q].server
             cached == IF requests[q].ready THEN "ok" ELSE "behind"
             new == IF requests[q].ready THEN [requests[q] EXCEPT !.pc = "connect", !.ready = FALSE]
                                         ELSE Asleep
  <1>1. requests[q] \in Request /\ s \in Servers /\ servers[s] \in Instance
    BY AskingOK, ServerTypes DEF Write, Asks
  <1>2. requests[q].ready => Has(servers[s].build)
    BY ServerTypes DEF Write, Asks, Told, OfServer
  <1>3. servers' = [servers EXCEPT ![s] = [servers[s] EXCEPT !.cached = cached, !.age = 0]]
    BY <1>1, ServerTypes DEF Write
  <1>4. [servers[s] EXCEPT !.cached = cached, !.age = 0] \in Instance
    BY <1>1 DEF Instance
  <1>5. /\ servers' \in [Servers -> Instance] /\ servers'[s].cached = cached
        /\ \A t \in Servers \ {s} : servers'[t] = servers[t]
        /\ \A t \in Servers : servers'[t].build = servers[t].build
                              /\ servers'[t].prepared = servers[t].prepared
    BY <1>1, <1>3, <1>4, ServerTypes DEF Instance
  <1>6. new \in Request /\ new.pc \notin {"read", "write", "query"}
        /\ (new.pc = "connect" => requests[q].ready /\ new.server = s)
        /\ (new.pc # "idle" => new.pc = "connect")
    BY <1>1 DEF Asleep, Request
  <1>7. requests' = [requests EXCEPT ![q] = new]
    BY <1>1, ServerTypes DEF Write, Answered
  <1>8. requests' \in [Requests -> Request] /\ requests'[q] = new
        /\ \A p \in Requests \ {q} : requests'[p] = requests[p]
    BY <1>6, <1>7, ServerTypes
  <1>9. ASSUME NEW t \in Servers PROVE Sure(t)'
    <2>1. Sure(t)
      BY ServerTypes
    <2>2. CASE t = s
      <3>1. cached = "ok" => requests[q].ready
        OBVIOUS
      <3> HIDE DEF cached
      <3>2. QED
        BY <1>2, <1>5, <2>1, <2>2, <3>1 DEF Write, Client, Sure, Has, Applied
    <2>3. CASE t # s
      BY <1>5, <2>1, <2>3 DEF Write, Client, Sure, Has, Applied
    <2>4. QED
      BY <2>2, <2>3
  <1> HIDE DEF new
  <1>10. ASSUME NEW p \in Requests PROVE Told(p)'
    <2>1. CASE p = q
      BY <1>1, <1>2, <1>5, <1>6, <1>8, <2>1 DEF Write, Client, Told, OfServer, Has, Applied
    <2>2. CASE p # q
      <3>1. Told(p) /\ requests'[p] = requests[p]
        BY <1>8, <2>2, ServerTypes
      <3>2. QED
        BY <1>5, <3>1 DEF Write, Client, Told, OfServer, Has, Applied
    <2>3. QED
      BY <2>1, <2>2
  <1>11. QED
    BY <1>5, <1>8, <1>9, <1>10, ServerTypes, ClientStep DEF Write

LEMMA ConnectOK ==
    ASSUME IInv, NEW q \in Requests, Connect(q)
    PROVE  IInv'
  <1>1. requests[q] \in Request /\ requests[q].server \in Servers
    BY AskingOK DEF Connect, Asks
  <1>2. Has(OfServer(q).build)
    BY ServerTypes DEF Connect, Asks, Told
  <1>3. CASE OfServer(q).prepared \/ IsCurrent(OfServer(q).build)
    <2> DEFINE s == requests[q].server
    <2>1. requests' = [requests EXCEPT ![q].pc = "query"]
          /\ servers' = [servers EXCEPT ![s].prepared = TRUE]
      BY <1>3 DEF Connect
    <2>2. /\ servers' \in [Servers -> Instance]
          /\ \A t \in Servers \ {s} : servers'[t] = servers[t]
          /\ \A t \in Servers : servers'[t].build = servers[t].build
      BY <1>1, <2>1, ServerTypes DEF Instance
    <2>3. /\ requests' \in [Requests -> Request]
          /\ requests'[q].pc = "query" /\ requests'[q].server = s
          /\ \A p \in Requests \ {q} : requests'[p] = requests[p]
      BY <1>1, <2>1, ServerTypes DEF Request
    <2>4. ASSUME NEW t \in Servers PROVE Sure(t)'
      <3>1. CASE t = s
        BY <1>2, <2>2, <3>1 DEF Connect, Client, Sure, Has, Applied, OfServer
      <3>2. CASE t # s
        BY <2>2, <3>2, ServerTypes DEF Connect, Client, Sure, Has, Applied
      <3>3. QED
        BY <3>1, <3>2
    <2>5. ASSUME NEW p \in Requests PROVE Told(p)'
      <3>1. CASE p = q
        BY <1>1, <1>2, <2>2, <2>3, <3>1 DEF Connect, Client, Told, OfServer, Has, Applied
      <3>2. CASE p # q
        <4>1. Told(p) /\ requests'[p] = requests[p]
          BY <2>3, <3>2, ServerTypes
        <4>2. QED
          BY <2>2, <4>1 DEF Connect, Client, Told, OfServer, Has, Applied
      <3>3. QED
        BY <3>1, <3>2
    <2>6. QED
      BY <2>2, <2>3, <2>4, <2>5, ServerTypes, ClientStep DEF Connect
  <1>4. CASE ~(OfServer(q).prepared \/ IsCurrent(OfServer(q).build))
    <2>1. Asleep \in Request /\ Asleep.pc = "idle"
      BY DEF Asleep, Request
    <2>2. QED
      BY <1>4, <2>1, ServerTypes, RequestStep DEF Connect, Answered
  <1>5. QED
    BY <1>3, <1>4

LEMMA QueryOK ==
    ASSUME IInv, NEW q \in Requests, Query(q)
    PROVE  IInv'
  <1>1. Asleep \in Request /\ Asleep.pc = "idle"
    BY DEF Asleep, Request
  <1>2. QED
    BY <1>1, ServerTypes, RequestStep DEF Query, Answered

-----------------------------------------------------------------------------
(* Time                                                                    *)

LEMMA OlderOK ==
    ASSUME NEW age \in Nat, NEW limit \in Nat
    PROVE  Older(age, limit) \in Nat /\ Older(age, limit) >= age
  BY DEF Older

LEMMA TickOK ==
    ASSUME IInv, Tick
    PROVE  IInv'
  <1>1. lock' \in Lock
    BY RunTypes, OlderOK, TimeAssumption DEF IInv, TypeOK, Tick, Lock
  <1>2. ASSUME NEW r \in Runners
        PROVE  /\ runs'[r] \in Runner /\ runs'[r].age >= runs[r].age
               /\ runs'[r].pc = runs[r].pc /\ runs'[r].build = runs[r].build
               /\ runs'[r].todo = runs[r].todo
               /\ Works(r) => runs'[r].age = Older(runs[r].age, LockStale)
    <2>1. runs[r] \in Runner /\ Older(runs[r].age, LockStale) \in Nat
          /\ Older(runs[r].age, LockStale) >= runs[r].age
      BY RunTypes, OlderOK, TimeAssumption DEF Runner
    <2>2. runs'[r] = IF At(r, "claim") \/ Works(r)
                     THEN [runs[r] EXCEPT !.age = Older(@, LockStale)] ELSE runs[r]
      BY DEF Tick
    <2>3. QED
      BY <2>1, <2>2 DEF Runner
  <1>3. runs' \in [Runners -> Runner]
    <2>1. runs' = [r \in Runners |-> runs'[r]]
      BY DEF Tick
    <2>2. QED
      BY <1>2, <2>1
  <1>4. ASSUME NEW s \in Servers
        PROVE  /\ servers'[s] \in Instance /\ servers'[s].build = servers[s].build
               /\ servers'[s].cached = servers[s].cached
               /\ servers'[s].prepared = servers[s].prepared
    <2>1. servers[s] \in Instance
      BY ServerTypes
    <2>2. Older(servers[s].age, RecheckBehind) \in Nat
      BY <2>1, OlderOK, TimeAssumption DEF Instance
    <2>3. servers'[s] = IF servers[s].cached # "behind" THEN servers[s]
                        ELSE [servers[s] EXCEPT !.age = Older(@, RecheckBehind)]
      BY DEF Tick
    <2>4. QED
      BY <2>1, <2>2, <2>3 DEF Instance
  <1>5. servers' \in [Servers -> Instance]
    <2>1. servers' = [s \in Servers |-> servers'[s]]
      BY DEF Tick
    <2>2. QED
      BY <1>4, <2>1
  <1>6. TypeOK' /\ Whole' /\ InOrder'
    BY <1>1, <1>3, <1>5 DEF IInv, TypeOK, Tick, Whole, InOrder
  <1>7. ASSUME NEW r \in Runners PROVE Orderly(r)'
    BY <1>2 DEF IInv, Tick, Orderly, At, Applied
  <1>8. ASSUME NEW r \in Runners PROVE Locked(r)'
    <2> SUFFICES ASSUME OnlyName(r), Works(r), ~Overdue(r)'
                 PROVE  lock' = [holder |-> HolderOf[r], age |-> runs'[r].age]
      BY <1>2 DEF Locked, OnlyName, Works, At
    <2>1. runs[r].age \in Nat /\ runs'[r].age \in Nat
      BY <1>2, RunTypes DEF Runner
    <2>2. ~Overdue(r)
      BY <1>2, <2>1, TimeAssumption DEF Overdue
    <2>3. lock = [holder |-> HolderOf[r], age |-> runs[r].age]
      BY <2>2 DEF IInv, Locked
    <2>4. lock # Free
      BY <2>3, NoneAssumption DEF Free
    <2>5. lock' = [lock EXCEPT !.age = Older(@, LockStale)]
      BY <2>4 DEF Tick
    <2>6. QED
      BY <1>2, <2>3, <2>5
  <1>9. ASSUME NEW s \in Servers PROVE Sure(s)'
    BY <1>4, ServerTypes DEF Tick, Sure, Has, Applied
  <1>10. ASSUME NEW q \in Requests PROVE Told(q)'
    <2>1. Told(q) /\ requests' = requests
      BY ServerTypes DEF Tick
    <2>2. requests[q].server \in Servers => OfServer(q)'.build = OfServer(q).build
      BY <1>4, <2>1 DEF OfServer
    <2>3. QED
      BY <2>1, <2>2 DEF Tick, Told, Has, Applied
  <1>11. QED
    BY <1>6, <1>7, <1>8, <1>9, <1>10 DEF IInv

-----------------------------------------------------------------------------
(* The theorems                                                            *)

LEMMA StutterOK ==
    ASSUME IInv, UNCHANGED vars
    PROVE  IInv'
  <1>1. Client /\ events' = events /\ servers' = servers /\ requests' = requests
    BY DEF Client
  <1>2. \A s \in Servers : Sure(s)'
    BY <1>1, ServerTypes DEF Client, Sure, Has, Applied
  <1>3. \A q \in Requests : Told(q)'
    BY <1>1, ServerTypes DEF Client, Told, OfServer, Has, Applied
  <1>4. QED
    BY <1>1, <1>2, <1>3, ServerTypes, ClientStep

LEMMA StepOK == IInv /\ [Next]_vars => IInv'
  <1> SUFFICES ASSUME IInv, [Next]_vars PROVE IInv'
    OBVIOUS
  <1>1. CASE Tick
    BY <1>1, TickOK
  <1>2. ASSUME NEW r \in Runners, Run(r) \/ ApplyFails(r) \/ Dies(r) PROVE IInv'
    BY <1>2, ClearStaleOK, ClaimOK, LookOK, ApplyOneOK, ApplyFailsOK, LeavesOK DEF Run
  <1>3. ASSUME NEW r \in Runners, NEW b \in Builds, Up(r, b) PROVE IInv'
    BY <1>3, UpOK
  <1>4. ASSUME NEW s \in Servers, NEW b \in Builds, Start(s, b) PROVE IInv'
    BY <1>4, StartOK
  <1>5. ASSUME NEW s \in Servers, NEW q \in Requests, Arrive(q, s) PROVE IInv'
    BY <1>5, ArriveOK
  <1>6. ASSUME NEW q \in Requests, Serve(q) \/ ReadFails(q) PROVE IInv'
    BY <1>6, ReadOK, WriteOK, ConnectOK, QueryOK DEF Serve
  <1>7. CASE UNCHANGED vars
    BY <1>7, StutterOK
  <1>8. QED
    BY <1>1, <1>2, <1>3, <1>4, <1>5, <1>6, <1>7 DEF Next

(* The inductive invariant holds in every state: what runners, lock,       *)
(* servers and requests rely on (migrations.rs, schema_gate.rs).           *)
THEOREM InvariantOK == Spec => []IInv
  BY InitOK, StepOK, PTL DEF Spec

(* The rows, the lock, the runners and what a server has cached are what   *)
(* the code takes them for.                                                *)
THEOREM TypeCorrect == Spec => []TypeOK
  <1>1. IInv => TypeOK
    BY DEF IInv
  <1>2. QED
    BY <1>1, InvariantOK, PTL

(* migrations.rs apply: however many runners of whatever builds fail and   *)
(* race, the migrations on record are the first so many.                   *)
THEOREM RecordedInOrder == Spec => []InOrder
  <1>1. IInv => InOrder
    BY DEF IInv
  <1>2. QED
    BY <1>1, InvariantOK, PTL

(* schema_gate.rs protect, catalog.rs connection: a request that reaches   *)
(* the database finds every table and column of its server's build.        *)
THEOREM GateFailsClosed == Spec => []ServedComplete
  <1>1. IInv => ServedComplete
    <2> SUFFICES ASSUME IInv, NEW q \in Requests, Asks(q, "query"),
                        NEW v \in Versions(OfServer(q).build)
                 PROVE  Body[OfServer(q).build[v]] \subseteq items
      BY DEF ServedComplete
    <2>1. Has(OfServer(q).build)
      BY DEF IInv, Told, Asks
    <2>2. QED
      BY <2>1 DEF IInv, Whole, Has, Applied
  <1>2. QED
    BY <1>1, InvariantOK, PTL

(* migrations.rs Lock: two runners of different names do not apply at the  *)
(* same time before one has outstayed LOCK_STALE_SECONDS.                  *)
THEOREM LockKeepsApart == Spec => []LockExcludes
  <1>1. IInv => LockExcludes
    <2> SUFFICES ASSUME IInv, NEW r \in Runners, NEW s \in Runners, r # s,
                        OnlyName(r), OnlyName(s), Works(r), Works(s), ~Overdue(r), ~Overdue(s)
                 PROVE  FALSE
      BY DEF LockExcludes
    <2>1. lock.holder = HolderOf[r] /\ lock.holder = HolderOf[s]
      BY DEF IInv, Locked
    <2>2. QED
      BY <2>1 DEF OnlyName
  <1>2. QED
    BY <1>1, InvariantOK, PTL
=============================================================================
