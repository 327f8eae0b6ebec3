------------------------------ MODULE Household ------------------------------
(***************************************************************************)
(* Households, the people seated in them, their cameras and photographs    *)
(* (onboarding.rs, devices.rs, upload_auth.rs, the household part of       *)
(* face_admin.rs, and their routes).  An account, a person and a household *)
(* get a new random id, and a capture one of its own; names are left out.  *)
(*                                                                         *)
(* owner is not in the database: it says whose a photograph or a person    *)
(* is, as onboarding.rs defines it (a camera's household, the household an *)
(* enrollment capture or a person is seated in), and does not forget it    *)
(* when the rows that would tell are deleted.                              *)
(***************************************************************************)
EXTENDS Accounts

CONSTANTS SmallGrid, LargeGrid \* seats of the two grids (4 and 6)

ASSUME GridAssumption == /\ SmallGrid \in Nat /\ LargeGrid \in Nat /\ SmallGrid < LargeGrid
                         /\ Absent \notin Nat

VARIABLES
    households, \* households: the grid size
    seats,      \* household_members
    people,     \* people
    known,      \* account, household, person and capture ids given out so far
    bindings,   \* household_users
    tokens,     \* device_claim_tokens: households with one that is not consumed
    devices,    \* devices: the household, of a device that was claimed
    photos,     \* photos
    objects,    \* the bucket
    granted,    \* photos a client holds an upload grant for
    jobs,       \* photo_processing rows that are not complete
    owner       \* whose a photo or a person is

homes    == <<households, seats, people, known, bindings>>
cameras  == <<tokens, devices>>
captures == <<photos, objects, granted, jobs>>
catalog  == <<homes, cameras, captures, owner>>

Photo == [device : Cameras \cup {Absent}, person : People \cup {Absent}, ready : BOOLEAN]
NewPhoto(device) == [device |-> device, person |-> Absent, ready |-> FALSE]

ASSUME RowAssumption == Absent \notin User \cup Photo

Fresh(S) == S \ known
SeatedIn(p) == {h \in Homes : p \in seats[h]}

-----------------------------------------------------------------------------
(* Seats                                                                   *)

(* Mutant: the seats are not counted.                                      *)
BugNoCount(h) == households[h] # Absent
HasRoom(h) == households[h] # Absent /\ Cardinality(seats[h]) < households[h]

Seated(h, p) ==
    /\ seats' = [seats EXCEPT ![h] = @ \cup {p}]
    /\ owner' = [owner EXCEPT ![p] = IF @ = Absent THEN h ELSE @]

(* add_person: one transaction.                                            *)
AddPerson(h, p) ==
    /\ HasRoom(h) /\ p \in Fresh(People)
    /\ people' = people \cup {p} /\ known' = known \cup {p} /\ Seated(h, p)
    /\ UNCHANGED <<households, bindings>>
CreateHousehold(h) ==
    /\ h \in Fresh(Homes) /\ known' = known \cup {h}
    /\ households' = [households EXCEPT ![h] = SmallGrid]
    /\ UNCHANGED <<seats, people, bindings, owner>>

(* POST /api/admin/people and /api/admin/households: seated by nobody, of  *)
(* no account.                                                             *)
CreatePerson(p) ==
    /\ p \in Fresh(People) /\ people' = people \cup {p} /\ known' = known \cup {p}
    /\ UNCHANGED <<accounts, households, seats, bindings, cameras, captures, owner>>
AdminHousehold(h) == CreateHousehold(h) /\ UNCHANGED <<accounts, cameras, captures>>

HouseholdOf(u) == users[u].home
AddHouseholdPerson(u) ==
    /\ Authenticated(u) /\ users[u].role = "admin" /\ HouseholdOf(u) # Absent
    /\ Begins(u, "add")
    /\ UNCHANGED <<store, catalog>>
AddMember(s) ==
    /\ At(s, "add") /\ Ends(s)
    /\ \/ Fresh(People) # {}
          /\ AddPerson(requests[s].user.home, CHOOSE p \in Fresh(People) : TRUE)
       \/ ~HasRoom(requests[s].user.home) /\ UNCHANGED <<homes, owner>>
    /\ UNCHANGED <<store, cameras, captures>>

(* update_household (any signed-in account): the whole seating is replaced *)
(* in one transaction.  Who is seated no more takes the captures along.    *)
Left(S, h) == {x \in People \cup Photos :
                  \E p \in seats[h] \ S : (x = p \/ (x \in Photos /\ photos[x] # Absent
                                                     /\ photos[x].person = p))}
UpdateHousehold(h, grid, S) ==
    /\ households[h] # Absent /\ S \subseteq people /\ Cardinality(S) <= grid
    /\ households' = [households EXCEPT ![h] = grid]
    /\ seats' = [seats EXCEPT ![h] = S]
    /\ owner' = [x \in People \cup Photos |->
                    IF x \in Left(S, h) /\ owner[x] = h THEN Absent
                    ELSE IF x \in S /\ owner[x] = Absent THEN h ELSE owner[x]]
    /\ UNCHANGED <<accounts, people, known, bindings, cameras, captures>>

-----------------------------------------------------------------------------
(* Signup: account, household, person, link, role.  Any failure removes    *)
(* the account, and leaves the rest.                                       *)

Signup(u) ==
    /\ u \in Fresh(Users)
    /\ \A s \in Slots : requests[s].who # u
    /\ Starts([Idle EXCEPT !.pc = "create", !.who = u]) /\ UNCHANGED <<store, catalog>>
SignupUser(s) ==
    /\ At(s, "create") /\ CreateUser(requests[s].who) /\ Goes(s, "house")
    /\ known' = known \cup {requests[s].who}
    /\ UNCHANGED <<sessions, passkeys, ceremonies, fruits, wishes>>
    /\ UNCHANGED <<households, seats, people, bindings, cameras, captures, owner>>
SignupHousehold(s) ==
    /\ At(s, "house") /\ Fresh(Homes) # {}
    /\ LET h == CHOOSE h \in Fresh(Homes) : TRUE
       IN  CreateHousehold(h)
           /\ requests' = [requests EXCEPT ![s].pc = "person", ![s].user.home = h]
    /\ UNCHANGED <<store, cameras, captures>>
SignupPerson(s) ==
    /\ At(s, "person") /\ Fresh(People) # {}
    /\ LET p == CHOOSE p \in Fresh(People) : TRUE
       IN  AddPerson(requests[s].user.home, p)
           /\ requests' = [requests EXCEPT ![s].pc = "link", ![s].person = p]
    /\ UNCHANGED <<store, cameras, captures>>
SignupLink(s) ==
    /\ At(s, "link") /\ Registered(requests[s].who) /\ Goes(s, "role")
    /\ LinkUser(requests[s].who, requests[s].user.home, requests[s].person)
    /\ UNCHANGED <<sessions, passkeys, ceremonies, fruits, wishes, catalog>>
SignupRole(s) ==
    /\ At(s, "role") /\ Registered(requests[s].who)
    /\ SetRole(requests[s].who, "admin") /\ Goes(s, "session")
    /\ UNCHANGED <<sessions, passkeys, ceremonies, fruits, wishes, catalog>>
SignupLost(s) ==
    /\ requests[s].pc \in {"link", "role"} /\ ~Registered(requests[s].who)
    /\ Ends(s) /\ UNCHANGED <<store, catalog>>
SignupUndone(s) ==
    /\ requests[s].pc \in {"house", "person", "link", "role"}
    /\ DeleteUser(requests[s].who) /\ Ends(s) /\ UNCHANGED catalog

-----------------------------------------------------------------------------
(* Devices                                                                 *)

(* claim-tokens: household_for_user keeps the old binding in step.         *)
MintClaimToken(u) == Begins(u, "bind") /\ UNCHANGED <<store, catalog>>
BindHousehold(s) ==
    /\ At(s, "bind")
    /\ LET r == requests[s] IN
       \/ /\ r.user.home # Absent /\ Goes(s, "mint")
          /\ bindings' = [bindings EXCEPT ![r.who] = r.user.home]
       \/ /\ r.user.home = Absent /\ bindings[r.who] # Absent /\ UNCHANGED bindings
          /\ requests' = [requests EXCEPT ![s].pc = "mint", ![s].user.home = bindings[r.who]]
       \/ r.user.home = Absent /\ bindings[r.who] = Absent /\ Ends(s) /\ UNCHANGED bindings
    /\ UNCHANGED <<store, households, seats, people, known, cameras, captures, owner>>
MintFor(s) ==
    /\ At(s, "mint") /\ tokens' = tokens \cup {requests[s].user.home} /\ Ends(s)
    /\ UNCHANGED <<store, homes, devices, captures, owner>>

(* claim, one transaction: a camera of another household keeps its token   *)
(* unconsumed.                                                             *)
Claim(c, h) ==
    /\ h \in tokens /\ devices[c] \in {Absent, h}
    /\ tokens' = tokens \ {h} /\ devices' = [devices EXCEPT ![c] = h]
    /\ UNCHANGED <<accounts, homes, captures, owner>>

-----------------------------------------------------------------------------
(* Photographs.  PhotoDelivery has the steps of an upload's completion;    *)
(* here it is one.                                                         *)

(* authorize: the token of a device, or the shared one.                    *)
AuthenticateDevice(c) == IF c # Absent /\ devices[c] = Absent THEN Absent ELSE c
Authorize(c, x) ==
    /\ x \in Fresh(Photos) /\ known' = known \cup {x}
    /\ Starts([Idle EXCEPT !.pc = "reserve", !.photo = x,
                           !.who = AuthenticateDevice(c),
                           !.user.home = IF c = Absent THEN Absent ELSE devices[c]])
    /\ UNCHANGED <<store, households, seats, people, bindings, cameras, captures, owner>>
(* Registered for another household meanwhile, the camera takes it along.  *)
TakenFor(r) == IF r.who # Absent /\ devices[r.who] # Absent THEN devices[r.who] ELSE r.user.home
Reserve(s) ==
    /\ At(s, "reserve") /\ Ends(s)
    /\ photos' = [photos EXCEPT ![requests[s].photo] = NewPhoto(requests[s].who)]
    /\ granted' = granted \cup {requests[s].photo}
    /\ owner' = [owner EXCEPT ![requests[s].photo] = TakenFor(requests[s])]
    /\ UNCHANGED <<store, homes, cameras, objects, jobs>>

RequireMembership(u, p) == HouseholdOf(u) # Absent /\ p \in seats[HouseholdOf(u)]
(* create_enrollment_upload: require_membership, then two statements.      *)
Enroll(u, p, x) ==
    /\ Authenticated(u) /\ RequireMembership(u, p)
    /\ x \in Fresh(Photos) /\ known' = known \cup {x}
    /\ Starts([Idle EXCEPT !.pc = "enroll", !.who = u, !.user = users[u],
                           !.person = p, !.photo = x])
    /\ UNCHANGED <<store, households, seats, people, bindings, cameras, captures, owner>>
ReserveEnrollment(s) ==
    /\ At(s, "enroll") /\ Goes(s, "name")
    /\ photos' = [photos EXCEPT ![requests[s].photo] = NewPhoto(Absent)]
    /\ UNCHANGED <<store, homes, cameras, objects, granted, jobs, owner>>
NameEnrollment(s) ==
    /\ At(s, "name") /\ Ends(s)
    /\ photos' = [photos EXCEPT ![requests[s].photo] =
                      IF @ = Absent THEN @ ELSE [@ EXCEPT !.person = requests[s].person]]
    /\ granted' = granted \cup {requests[s].photo}
    /\ owner' = [owner EXCEPT ![requests[s].photo] =
                    IF requests[s].person \in seats[requests[s].user.home]
                    THEN requests[s].user.home ELSE Absent]
    /\ UNCHANGED <<store, homes, cameras, objects, jobs>>

PutObject(x) ==
    /\ x \in granted /\ objects' = objects \cup {x}
    /\ UNCHANGED <<accounts, homes, cameras, photos, granted, jobs, owner>>
(* Whoever was granted the upload may finish it, if still let in.          *)
MayFinish(photo) ==
    /\ photo.device # Absent => devices[photo.device] # Absent
    /\ photo.person # Absent =>
           \E u \in Users : Authenticated(u) /\ RequireMembership(u, photo.person)
(* The row and its object are there, the object is a photograph.           *)
Finalize(x) ==
    /\ x \in granted \cap objects /\ photos[x] # Absent /\ MayFinish(photos[x])
    /\ photos' = [photos EXCEPT ![x].ready = TRUE] /\ jobs' = jobs \cup {x}
    /\ granted' = granted \ {x}
    /\ UNCHANGED <<accounts, homes, cameras, objects, owner>>
(* The client gives up, or its grant expires.                              *)
GrantEnds(x) ==
    /\ x \in granted /\ granted' = granted \ {x}
    /\ UNCHANGED <<accounts, homes, cameras, photos, objects, jobs, owner>>

HouseholdStep(s) ==
    \/ AddMember(s) \/ SignupUser(s) \/ SignupHousehold(s) \/ SignupPerson(s)
    \/ SignupLink(s) \/ SignupRole(s) \/ SignupLost(s)
    \/ BindHousehold(s) \/ MintFor(s) \/ Reserve(s) \/ ReserveEnrollment(s) \/ NameEnrollment(s)
PhotoStep(x) == PutObject(x) \/ Finalize(x) \/ GrantEnds(x)
HouseholdEvents ==
    \/ \E u \in Users : AddHouseholdPerson(u) \/ Signup(u) \/ MintClaimToken(u)
    \/ \E h \in Homes, g \in {SmallGrid, LargeGrid}, S \in SUBSET people : UpdateHousehold(h, g, S)
    \/ (Fresh(People) # {} /\ CreatePerson(CHOOSE p \in Fresh(People) : TRUE))
    \/ (Fresh(Homes) # {} /\ AdminHousehold(CHOOSE h \in Fresh(Homes) : TRUE))
    \/ \E c \in Cameras, h \in Homes : Claim(c, h)
    \/ \E c \in Cameras \cup {Absent}, x \in Photos : Authorize(c, x)
    \/ \E u \in Users, p \in People, x \in Photos : Enroll(u, p, x)
    \/ \E s \in Slots : SignupUndone(s)
=============================================================================
