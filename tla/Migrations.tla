----------------------------- MODULE Migrations -----------------------------
(***************************************************************************)
(* Schema migrations (server/src/migrations.rs, run by the operator with   *)
(* daily-mirror-migrate) and the gate that keeps a server from a database  *)
(* of another version (schema_gate.rs, catalog.rs).                        *)
(*                                                                         *)
(* A build is the sequence of its migrations' checksums, MIGRATIONS; the   *)
(* version of a migration is its place.  What a checksum's statements add  *)
(* to the schema, every one of them idempotent, is its Body.  Times are    *)
(* ages: seconds since the clock was read, as far as anybody tells them    *)
(* apart.                                                                  *)
(***************************************************************************)
EXTENDS Integers, Sequences, FiniteSets

CONSTANTS Sums, Items, Body, \* checksums, tables and columns, and who adds which
          Builds,            \* released, previewed, edited: not all extend each other
          Runners, HolderOf, \* processes that run up, "HOSTNAME:pid" of each
          Servers, Requests,
          LockStale,         \* LOCK_STALE_SECONDS
          RecheckBehind,     \* RECHECK_BEHIND
          MaxEvents,         \* bound on crashes, failures and deployments
          None

ASSUME BodyAssumption   == Body \in [Sums -> SUBSET Items]
ASSUME BuildsAssumption == Builds \subseteq Seq(Sums)
ASSUME HolderAssumption == DOMAIN HolderOf = Runners
ASSUME TimeAssumption   == LockStale \in Nat /\ RecheckBehind \in Nat /\ MaxEvents \in Nat
ASSUME NoneAssumption   == None \notin Sums \cup Servers \cup {HolderOf[r] : r \in Runners}

VARIABLES
    recorded, \* schema_migrations: version to checksum
    items,    \* the tables and columns there are
    lock,     \* the row of schema_migrations_lock
    runs,     \* what each runner does
    servers,  \* build, cached report and prepared store of each instance
    requests, \* to /api/, each at an instance
    events    \* so far

database == <<recorded, items, lock>>
vars     == <<database, runs, servers, requests, events>>

Versions(b) == 1 .. Len(b)
Free        == [holder |-> None, age |-> 0]
Resting     == [pc |-> "idle", build |-> << >>, todo |-> {}, age |-> 0]
Asleep      == [pc |-> "idle", server |-> None, ready |-> FALSE]
Started(b)  == [build |-> b, cached |-> "none", age |-> 0, prepared |-> FALSE]

Init ==
    /\ recorded = << >> /\ items \in SUBSET Items /\ lock = Free
    /\ runs = [r \in Runners |-> Resting]
    /\ servers \in [Servers -> {Started(b) : b \in Builds}]
    /\ requests = [q \in Requests |-> Asleep]
    /\ events = 0

-----------------------------------------------------------------------------
(* status, verify                                                          *)

Applied(v)   == v \in DOMAIN recorded
Pending(b)   == {v \in Versions(b) : ~Applied(v)}
(* Mutant: only a version this build does not know is drift.               *)
BugNoChecksums(b) == \E v \in DOMAIN recorded : v \notin Versions(b)
Drifted(b)   == \E v \in DOMAIN recorded : v \notin Versions(b) \/ recorded[v] # b[v]
IsCurrent(b) == ~Drifted(b) /\ Pending(b) = {}

-----------------------------------------------------------------------------
(* apply: up, or a local server's own first request                        *)

At(r, pc)   == runs[r].pc = pc
Goes(r, pc) == runs' = [runs EXCEPT ![r].pc = pc]
Ends(r)     == runs' = [runs EXCEPT ![r] = Resting]
Stops(r)    == runs' = [runs EXCEPT ![r] = [Resting EXCEPT !.pc = "release"]]
Outside     == UNCHANGED <<servers, requests>>
Event       == events < MaxEvents /\ events' = events + 1
(* Mutant: whoever holds the lock, it is released.                        *)
BugReleasesAny(r) == TRUE
Holds(r)    == lock.holder = HolderOf[r]
Works(r)    == At(r, "look") \/ At(r, "apply")

(* Drift is refused; without anything pending there is nothing to do.      *)
Up(r, b) ==
    /\ At(r, "idle") /\ ~Drifted(b) /\ Pending(b) # {}
    /\ runs' = [runs EXCEPT ![r] = [Resting EXCEPT !.pc = "clear", !.build = b]]
    /\ UNCHANGED <<database, events>> /\ Outside

(* Mutant: the lock of a crashed runner is honoured for ever.              *)
BugNeverStale == FALSE
(* Lock::acquire reads the time, removes a stale lock, ...                 *)
IsStale == lock.age > LockStale
ClearStale(r) ==
    /\ At(r, "clear")
    /\ lock' = IF IsStale THEN Free ELSE lock
    /\ runs' = [runs EXCEPT ![r].pc = "claim", ![r].age = 0]
    /\ UNCHANGED <<recorded, items, events>> /\ Outside
(* ... and inserts its own with that time; the row's id is its only key.   *)
Claim(r) ==
    /\ At(r, "claim")
    /\ IF lock = Free THEN lock' = [holder |-> HolderOf[r], age |-> runs[r].age] /\ Goes(r, "look")
                      ELSE UNCHANGED lock /\ Ends(r)
    /\ UNCHANGED <<recorded, items, events>> /\ Outside

(* Another runner may have finished between the first read and the lock.   *)
Look(r) ==
    /\ At(r, "look")
    /\ LET b == runs[r].build
       IN  runs' = [runs EXCEPT ![r].todo = IF Drifted(b) THEN {} ELSE Pending(b),
                                ![r].pc = "apply"]
    /\ UNCHANGED <<database, events>> /\ Outside

IsNext(r, v) == v \in runs[r].todo /\ \A w \in runs[r].todo : v <= w
With(v, sum) == [w \in DOMAIN recorded \cup {v} |-> IF w = v THEN sum ELSE recorded[w]]
(* The statements of a migration and its row, in one transaction.          *)
Records(r, v) ==
    /\ ~Applied(v)
    /\ recorded' = With(v, runs[r].build[v]) /\ items' = items \cup Body[runs[r].build[v]]
ApplyOne(r) ==
    /\ At(r, "apply")
    /\ \E v \in Versions(runs[r].build) : IsNext(r, v) /\ Records(r, v)
                                          /\ runs' = [runs EXCEPT ![r].todo = @ \ {v}]
    /\ UNCHANGED <<lock, events>> /\ Outside
(* Somebody else has recorded it: the row's key is taken.                  *)
Collides(r) ==
    /\ At(r, "apply") /\ \E v \in runs[r].todo : IsNext(r, v) /\ Applied(v)
    /\ Stops(r) /\ UNCHANGED <<database, events>> /\ Outside
(* An error, or a commit whose answer is lost.  A database that could not  *)
(* run the transaction as one may keep some of the statements.             *)
ApplyFails(r) ==
    /\ At(r, "apply") /\ Event
    /\ \E v \in Versions(runs[r].build) :
         /\ IsNext(r, v)
         /\ \/ Records(r, v)
            \/ items' \in {items \cup S : S \in SUBSET Body[runs[r].build[v]]} /\ UNCHANGED recorded
    /\ Stops(r) /\ UNCHANGED lock /\ Outside
AllDone(r) ==
    /\ At(r, "apply") /\ runs[r].todo = {}
    /\ Stops(r) /\ UNCHANGED <<database, events>> /\ Outside

Release(r) ==
    /\ At(r, "release") /\ Ends(r)
    /\ lock' = IF Holds(r) THEN Free ELSE lock
    /\ UNCHANGED <<recorded, items, events>> /\ Outside

(* A runner that dies, or fails to read the schema, leaves its lock.       *)
Dies(r) ==
    /\ ~At(r, "idle") /\ Event
    /\ Ends(r) /\ UNCHANGED database /\ Outside

Run(r) == \/ ClearStale(r) \/ Claim(r) \/ Look(r) \/ ApplyOne(r) \/ Collides(r) \/ AllDone(r)
          \/ Release(r)

-----------------------------------------------------------------------------
(* A server's instances                                                    *)

Client    == UNCHANGED <<database, runs>>
OfServer(q) == servers[requests[q].server]
Asks(q, pc) == requests[q].pc = pc
Answered(q) == requests' = [requests EXCEPT ![q] = Asleep]

(* An instance of any build starts, in the place of one whose requests die *)
(* with it: a deployment, a preview, a cold start.                         *)
Start(s, b) ==
    /\ Event
    /\ servers' = [servers EXCEPT ![s] = Started(b)]
    /\ requests' = [q \in Requests |-> IF requests[q].server = s THEN Asleep ELSE requests[q]]
    /\ Client

(* protect, SchemaGate::report: "ok" is good for ever, "behind" for a while. *)
IsCached(s) == \/ servers[s].cached = "ok"
               \/ servers[s].cached = "behind" /\ servers[s].age < RecheckBehind
Arrive(q, s) ==
    /\ Asks(q, "idle")
    /\ IsCached(s) => servers[s].cached = "ok"
    /\ requests' = [requests EXCEPT ![q] =
           [Asleep EXCEPT !.pc = IF IsCached(s) THEN "connect" ELSE "read", !.server = s]]
    /\ UNCHANGED <<servers, events>> /\ Client
(* SchemaGate::read; a schema that cannot be read is reported as one.      *)
Read(q) ==
    /\ Asks(q, "read")
    /\ requests' = [requests EXCEPT ![q].pc = "write", ![q].ready = IsCurrent(OfServer(q).build)]
    /\ UNCHANGED <<servers, events>> /\ Client
ReadFails(q) ==
    /\ Asks(q, "read") /\ Event
    /\ requests' = [requests EXCEPT ![q].pc = "write"]
    /\ UNCHANGED servers /\ Client
Write(q) ==
    /\ Asks(q, "write")
    /\ servers' = [servers EXCEPT ![requests[q].server].cached =
                                      IF requests[q].ready THEN "ok" ELSE "behind",
                                  ![requests[q].server].age = 0]
    /\ IF requests[q].ready
       THEN requests' = [requests EXCEPT ![q].pc = "connect", ![q].ready = FALSE]
       ELSE Answered(q)
    /\ UNCHANGED events /\ Client
(* PhotoCatalog::connection: the schema is checked once more, by the first *)
(* request to get there.                                                   *)
Connect(q) ==
    /\ Asks(q, "connect")
    /\ IF OfServer(q).prepared \/ IsCurrent(OfServer(q).build)
       THEN /\ requests' = [requests EXCEPT ![q].pc = "query"]
            /\ servers' = [servers EXCEPT ![requests[q].server].prepared = TRUE]
       ELSE Answered(q) /\ UNCHANGED servers
    /\ UNCHANGED events /\ Client
Query(q) ==
    /\ Asks(q, "query") /\ Answered(q)
    /\ UNCHANGED <<servers, events>> /\ Client

Serve(q) == Read(q) \/ Write(q) \/ Connect(q) \/ Query(q)

-----------------------------------------------------------------------------
Older(age, limit) == IF age > limit THEN age ELSE age + 1
Tick ==
    /\ lock' = IF lock = Free THEN lock ELSE [lock EXCEPT !.age = Older(@, LockStale)]
    /\ runs' = [r \in Runners |-> IF At(r, "claim") \/ Works(r)
                                  THEN [runs[r] EXCEPT !.age = Older(@, LockStale)] ELSE runs[r]]
    /\ servers' = [s \in Servers |-> IF servers[s].cached # "behind" THEN servers[s]
                                     ELSE [servers[s] EXCEPT !.age = Older(@, RecheckBehind)]]
    /\ UNCHANGED <<recorded, items, requests, events>>

Next ==
    \/ Tick
    \/ \E r \in Runners : Run(r) \/ ApplyFails(r) \/ Dies(r) \/ \E b \in Builds : Up(r, b)
    \/ \E s \in Servers : (\E b \in Builds : Start(s, b)) \/ \E q \in Requests : Arrive(q, s)
    \/ \E q \in Requests : Serve(q) \/ ReadFails(q)

Spec == Init /\ [][Next]_vars

(* Processes run, requests come, and the operator runs up until it works.  *)
Fairness ==
    /\ WF_vars(Tick)
    /\ \A r \in Runners : WF_vars(Run(r)) /\ \A b \in Builds : WF_vars(Up(r, b))
    /\ \A q \in Requests : WF_vars(Serve(q)) /\ \A s \in Servers : SF_vars(Arrive(q, s))
FairSpec == Spec /\ Fairness

-----------------------------------------------------------------------------
Runner   == [pc : {"idle", "clear", "claim", "look", "apply", "release"},
             build : Builds \cup {<< >>}, todo : SUBSET Nat, age : Nat]
Instance == [build : Builds, cached : {"none", "ok", "behind"}, age : Nat, prepared : BOOLEAN]
Request  == [pc : {"idle", "read", "write", "connect", "query"}, server : Servers \cup {None},
             ready : BOOLEAN]
Lock     == [holder : {None} \cup {HolderOf[r] : r \in Runners}, age : Nat]

TypeOK ==
    /\ \A v \in DOMAIN recorded : v \in Nat \ {0} /\ recorded[v] \in Sums
    /\ items \subseteq Items /\ lock \in Lock /\ runs \in [Runners -> Runner]
    /\ servers \in [Servers -> Instance] /\ requests \in [Requests -> Request]
    /\ events \in 0 .. MaxEvents

(* The migrations on record are the first so many, whoever applied which:  *)
(* the highest version says how far a database is                          *)
(* (SchemaStatus::current_version).                                        *)
InOrder == \A v \in DOMAIN recorded : 1 .. v \subseteq DOMAIN recorded

(* "Fail closed when the database is behind the binary" (schema_gate.rs:1): *)
(* no handler runs on a schema without a table or column of its build,     *)
(* however long ago, and by which of several requests, it was checked.     *)
ServedComplete ==
    \A q \in Requests : Asks(q, "query") =>
        \A v \in Versions(OfServer(q).build) : Body[OfServer(q).build[v]] \subseteq items

(* "keeps two runners from interleaving" (docs/deployment.md:120): of two  *)
(* that apply migrations one has had the lock for longer than a crashed    *)
(* runner's is honoured.  The lock tells runners apart by name only.       *)
OnlyName(r)  == \A s \in Runners \ {r} : HolderOf[s] # HolderOf[r]
Overdue(r)   == runs[r].age > LockStale
LockExcludes ==
    \A r, s \in Runners : r # s /\ OnlyName(r) /\ OnlyName(s) /\ Works(r) /\ Works(s)
                          => Overdue(r) \/ Overdue(s)

(* "a stuck deployment recovering on its own" (schema_gate.rs:29): once    *)
(* nothing fails any more, the database is migrated, whoever died with the *)
(* lock, and every server that can work with it answers, whatever it and   *)
(* its requests had read before.                                           *)
Recovers ==
    \A s \in Servers : <>[](Drifted(servers[s].build) \/ servers[s].cached = "ok")
=============================================================================
