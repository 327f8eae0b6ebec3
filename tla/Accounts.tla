------------------------------- MODULE Accounts -------------------------------
(***************************************************************************)
(* The auth database (auth.rs, passkeys.rs, auth_http.rs and the routes    *)
(* under app/api/auth): accounts, sessions, passkeys, the ceremonies that  *)
(* make them, and the requests to be deleted.                              *)
(*                                                                         *)
(* A request is authenticated once, at its start; the account it works for *)
(* is what was read then.  Every statement is a step, and no foreign key   *)
(* is enforced between them.  Which bytes a passkey signs, and what a      *)
(* password hashes to, is left out: a right answer comes from its account. *)
(***************************************************************************)
EXTENDS Naturals, FiniteSets

CONSTANTS Users,      \* accounts
          Homes,      \* households
          People,     \* people
          Cameras,    \* devices
          Photos,     \* captures
          Ceremonies, \* the ceremonies' random tokens, none of them used twice
          Slots,      \* bound on the requests the server works on at once
          Absent      \* no row, no household, no person, nobody

ASSUME AccountsAssumption ==
    /\ \A S \in {Users, Homes, People, Cameras, Photos, Ceremonies} : Absent \notin S
    /\ Users \cap Homes = {} /\ Homes \cap People = {} /\ People \cap Photos = {}
    /\ Homes \cap Photos = {} /\ Users \cap Cameras = {}
    /\ Users \cap People = {} /\ Users \cap Photos = {}
    /\ IsFiniteSet(Homes) /\ IsFiniteSet(People) /\ IsFiniteSet(Photos)

VARIABLES
    users,      \* users: the household, person and role of an account
    sessions,   \* auth_sessions: the accounts somebody is signed in to
    passkeys,   \* passkeys: the accounts that have one
    ceremonies, \* auth_ceremonies and auth_discoverable_ceremonies
    fruits,     \* how many sessions and passkeys a ceremony has led to
    wishes,     \* account_deletion_requests
    requests    \* requests the server works on

store    == <<users, sessions, passkeys, ceremonies, fruits, wishes>>
accounts == <<store, requests>>

Kinds   == {"register", "login", "discoverable"}
NewUser == [home |-> Absent, person |-> Absent, role |-> "member"]
User    == [home : Homes \cup {Absent}, person : People \cup {Absent},
            role : {"admin", "member"}]

Stages  == {"idle", "session", "offer", "challenge", "enlist", "accept", "lookup", "ask", "add",
            "create", "house", "person", "link", "role", "bind", "mint", "reserve", "enroll", "name"}
Request == [pc : Stages, who : Users \cup Cameras \cup {Absent}, user : User,
            person : People \cup {Absent}, photo : Photos \cup {Absent},
            by : Ceremonies \cup {Absent}]
Idle    == [pc |-> "idle", who |-> Absent, user |-> NewUser,
            person |-> Absent, photo |-> Absent, by |-> Absent]

Registered(u) == users[u] # Absent
HasHome(u, h) == Registered(u) /\ users[u].home = h
Accountants(h) == {u \in Users : HasHome(u, h)}
Admins(h)      == {u \in Accountants(h) : users[u].role = "admin"}

-----------------------------------------------------------------------------
(* Requests                                                                *)

At(s, pc)  == requests[s].pc = pc
Free       == {s \in Slots : requests[s] = Idle}
Starts(r)  == Free # {} /\ requests' = [requests EXCEPT ![CHOOSE s \in Free : TRUE] = r]
Goes(s, pc) == requests' = [requests EXCEPT ![s].pc = pc]
Ends(s)    == requests' = [requests EXCEPT ![s] = Idle]

(* authenticate_session joins the account: a session outlives it unseen.   *)
Authenticated(u) == u \in sessions /\ Registered(u)
Begins(u, pc) ==
    /\ Authenticated(u)
    /\ Starts([Idle EXCEPT !.pc = pc, !.who = u, !.user = users[u]])

(* An error, or the function is killed.                                    *)
RequestFails(s) ==
    /\ requests[s] # Idle /\ Ends(s) /\ UNCHANGED store

-----------------------------------------------------------------------------
(* Sessions: password_session, logout                                      *)

(* verify_password: whoever has the password has an account.               *)
RightPassword(u) == Registered(u)
SignIn(u) ==
    /\ RightPassword(u) /\ Starts([Idle EXCEPT !.pc = "session", !.who = u])
    /\ UNCHANGED store

Fruit(c) == fruits' = IF c = Absent THEN fruits ELSE [fruits EXCEPT ![c] = @ + 1]

CreateSession(s) ==
    /\ At(s, "session") /\ sessions' = sessions \cup {requests[s].who}
    /\ Fruit(requests[s].by) /\ Ends(s)
    /\ UNCHANGED <<users, passkeys, ceremonies, wishes>>

RevokeSession(u) ==
    /\ u \in sessions /\ sessions' = sessions \ {u}
    /\ UNCHANGED <<users, passkeys, ceremonies, fruits, wishes, requests>>

-----------------------------------------------------------------------------
(* Passkeys: PasskeyService                                                *)

Ceremony == [kind : Kinds \cup {"unused", "gone"}, user : Users \cup {Absent}]
Gone     == [kind |-> "gone", user |-> Absent]
Open(c, kind) == ceremonies[c].kind = kind

StoreCeremony(kind, u) ==
    /\ \E c \in Ceremonies : Open(c, "unused")
    /\ ceremonies' = [ceremonies EXCEPT ![CHOOSE c \in Ceremonies : Open(c, "unused")] =
                          [kind |-> kind, user |-> u]]
    /\ UNCHANGED <<users, sessions, passkeys, fruits, wishes>>

StartRegistration(u) == Begins(u, "offer") /\ UNCHANGED store
StartAuthentication(u) ==
    /\ Registered(u) /\ u \in passkeys
    /\ Starts([Idle EXCEPT !.pc = "challenge", !.who = u]) /\ UNCHANGED store
StoreOffer(s)     == At(s, "offer") /\ StoreCeremony("register", requests[s].who) /\ Ends(s)
StoreChallenge(s) == At(s, "challenge") /\ StoreCeremony("login", requests[s].who) /\ Ends(s)
StoreDiscoverable == StoreCeremony("discoverable", Absent)
StartDiscoverable == StoreDiscoverable /\ UNCHANGED requests

(* Mutant: a ceremony stays after it has been taken.                       *)
BugReadCeremony(c) == ceremonies' = ceremonies
(* DELETE ... RETURNING: at most one request gets it.  It expires the same *)
(* way.                                                                    *)
TakeCeremony(c) == ceremonies' = [ceremonies EXCEPT ![c] = Gone]

(* A ceremony of somebody else is used up all the same.                    *)
FinishRegistration(u, c) ==
    /\ Authenticated(u) /\ Open(c, "register") /\ TakeCeremony(c)
    /\ IF ceremonies[c].user = u
       THEN Starts([Idle EXCEPT !.pc = "enlist", !.who = u, !.by = c])
       ELSE UNCHANGED requests
    /\ UNCHANGED <<users, sessions, passkeys, fruits, wishes>>
(* The credential is new, or the insert fails.                             *)
AddPasskey(s) ==
    /\ At(s, "enlist") /\ passkeys' = passkeys \cup {requests[s].who}
    /\ Fruit(requests[s].by) /\ Ends(s)
    /\ UNCHANGED <<users, sessions, ceremonies, wishes>>

(* Without an account named in the ceremony, the assertion names it.       *)
FinishAuthentication(u, c) ==
    /\ \/ Open(c, "login") /\ ceremonies[c].user = u
       \/ Open(c, "discoverable")
    /\ u \in passkeys /\ TakeCeremony(c)
    /\ Starts([Idle EXCEPT !.pc = "accept", !.who = u, !.by = c])
    /\ UNCHANGED <<users, sessions, passkeys, fruits, wishes>>
(* accept: update_passkey misses a row that is gone; then the account is   *)
(* looked up.                                                              *)
UpdatePasskey(u) == u \in passkeys
Accept(s) ==
    /\ At(s, "accept")
    /\ IF UpdatePasskey(requests[s].who) THEN Goes(s, "lookup") ELSE Ends(s)
    /\ UNCHANGED store
LookUp(s) ==
    /\ At(s, "lookup")
    /\ IF Registered(requests[s].who) THEN Goes(s, "session") ELSE Ends(s)
    /\ UNCHANGED store

-----------------------------------------------------------------------------
(* The account's own rows                                                  *)

CreateUser(u)   == ~Registered(u) /\ users' = [users EXCEPT ![u] = NewUser]
LinkUser(u, h, p) == users' = [users EXCEPT ![u].home = h, ![u].person = p]
SetRole(u, role)  == users' = [users EXCEPT ![u].role = role]

AskDeletion(u) == Begins(u, "ask") /\ UNCHANGED store
RecordWish(s) ==
    /\ At(s, "ask") /\ Ends(s)
    /\ wishes' = [wishes EXCEPT ![requests[s].who] = IF @ = "none" THEN "open" ELSE @]
    /\ UNCHANGED <<users, sessions, passkeys, ceremonies, fruits>>

Forgotten(u) == [c \in Ceremonies |-> IF ceremonies[c].user = u THEN Gone ELSE ceremonies[c]]

(* delete_user as signup calls it, to undo an account nobody has used.     *)
DeleteUser(u) ==
    /\ users' = [users EXCEPT ![u] = Absent] /\ sessions' = sessions \ {u}
    /\ passkeys' = passkeys \ {u} /\ ceremonies' = Forgotten(u)
    /\ UNCHANGED <<fruits, wishes>>

AccountStep(s) ==
    \/ CreateSession(s) \/ StoreOffer(s) \/ StoreChallenge(s) \/ AddPasskey(s)
    \/ Accept(s) \/ LookUp(s) \/ RecordWish(s)
AccountEvents ==
    \/ StartDiscoverable
    \/ \E u \in Users : \/ SignIn(u) \/ RevokeSession(u) \/ AskDeletion(u)
                        \/ StartRegistration(u) \/ StartAuthentication(u)
                        \/ \E c \in Ceremonies : \/ FinishRegistration(u, c)
                                                 \/ FinishAuthentication(u, c)
=============================================================================
