--------------------------- MODULE HouseholdService ---------------------------
(***************************************************************************)
(* The household side of the server as a whole: the requests of accounts   *)
(* and cameras, the analysis of their photographs, and the commands of     *)
(* daily-mirror-onboarding.  Nothing the operator's commands do is one     *)
(* transaction: they stop anywhere, at an error or with their process, and *)
(* are run again.  One operator runs one command at a time.                *)
(***************************************************************************)
EXTENDS Faces

(* What people begin, and failures, are events: bounded all together, in   *)
(* any mixture.                                                            *)
CONSTANTS MaxEvents,
          Self,    \* the person an account signed up at the start stands for
          Founder  \* the camera that was claimed at the start

ASSUME ServiceAssumption == /\ Self \in [Users -> People] /\ Founder \in Cameras
                            /\ Users # {} /\ Homes # {} /\ Photos # {} /\ MaxEvents \in Nat

VARIABLES
    op,        \* the operator's command
    erased,    \* accounts and households whose deletion has run to its end
    disturbed, \* accounts being deleted while something else was under way,
               \* and, during a deletion, the households with an account that
               \* joined, the photos on their way in, and what got another owner
    shuffled,  \* households with an account that joined, left or got another
               \* role during a deletion
    events     \* events so far

vars == <<accounts, catalog, faces, op, erased, disturbed, shuffled, events>>

Rest == [pc |-> "rest", who |-> Absent, user |-> NewUser, person |-> Absent,
         widen |-> FALSE, todo |-> {}, whole |-> FALSE]

OpAt(pc)   == op.pc = pc
OpGoes(pc) == op' = [op EXCEPT !.pc = pc]
OpEnds     == op' = Rest

-----------------------------------------------------------------------------
(* delete-account: delete_account and erase_household                      *)

Deletion == {"peers", "captures", "taken", "photos", "row", "job", "devices", "tokens", "people",
             "seats", "house", "unbind", "sessions", "passkeys", "ceremonies", "user", "fulfil"}
Deleting == op.pc \in Deletion
Home     == op.user.home

(* The command finds the account by its name.                              *)
DeleteAccount(u) ==
    /\ Registered(u) /\ wishes[u] = "open"
    /\ op' = [Rest EXCEPT !.pc = IF users[u].home = Absent THEN "unbind" ELSE "peers",
                          !.who = u, !.user = users[u]]

(* Mutant: administrators leave like everybody.                            *)
BugAnybodyLeaves(peers) == FALSE
LastAdmin(peers) ==
    op.user.role = "admin" /\ \A u \in peers : users[u].role # "admin"

(* Mutant: only the administrators count.                                  *)
BugPeers == Admins(Home) \ {op.who}
Peers    == Accountants(Home) \ {op.who}

HouseholdPeers ==
    /\ OpAt("peers")
    /\ \/ Peers = {} /\ op' = [op EXCEPT !.pc = "captures", !.whole = TRUE]
       \/ Peers # {} /\ LastAdmin(Peers) /\ OpEnds
       \/ Peers # {} /\ ~LastAdmin(Peers) /\ OpGoes("unbind")
    /\ UNCHANGED <<store, catalog, faces>>

(* The photographs of its people, and of its cameras.                      *)
ListCaptures ==
    /\ OpAt("captures")
    /\ op' = [op EXCEPT !.pc = "taken",
                  !.todo = {x \in Photos : photos[x] # Absent /\ photos[x].person \in seats[Home]}]
    /\ UNCHANGED <<store, catalog, faces>>
ListTaken ==
    /\ OpAt("taken")
    /\ op' = [op EXCEPT !.pc = "photos",
                  !.todo = @ \cup {x \in Photos : /\ photos[x] # Absent /\ photos[x].device # Absent
                                                  /\ devices[photos[x].device] = Home}]
    /\ UNCHANGED <<store, catalog, faces>>

Current == CHOOSE x \in op.todo : TRUE
(* Mutant: the row goes first, then its object.                            *)
BugRowFirst ==
    /\ OpAt("photos") /\ op.todo # {}
    /\ IF photos[Current] # Absent
       THEN photos' = [photos EXCEPT ![Current] = Absent] /\ UNCHANGED <<objects, op>>
       ELSE objects' = objects \ {Current} /\ OpGoes("row") /\ UNCHANGED photos
    /\ UNCHANGED <<store, homes, cameras, granted, jobs, owner, faces>>
EraseObject ==
    /\ OpAt("photos") /\ op.todo # {} /\ objects' = objects \ {Current} /\ OpGoes("row")
    /\ UNCHANGED <<store, homes, cameras, photos, granted, jobs, owner, faces>>
EraseRow ==
    /\ OpAt("row") /\ photos' = [photos EXCEPT ![Current] = Absent] /\ OpGoes("job")
    /\ UNCHANGED <<store, homes, cameras, objects, granted, jobs, owner, faces>>
EraseAnalysis ==
    /\ OpAt("job") /\ jobs' = jobs \ {Current} /\ faces' = [faces EXCEPT ![Current] = Absent]
    /\ op' = [op EXCEPT !.pc = "photos", !.todo = @ \ {Current}]
    /\ UNCHANGED <<store, homes, cameras, photos, objects, granted, owner>>
ErasedPhotos ==
    /\ OpAt("photos") /\ op.todo = {} /\ OpGoes("devices")
    /\ UNCHANGED <<store, catalog, faces>>
EraseDevices ==
    /\ OpAt("devices") /\ OpGoes("tokens")
    /\ devices' = [c \in Cameras |-> IF devices[c] = Home THEN Absent ELSE devices[c]]
    /\ UNCHANGED <<store, homes, tokens, captures, owner, faces>>
EraseTokens ==
    /\ OpAt("tokens") /\ tokens' = tokens \ {Home} /\ OpGoes("people")
    /\ UNCHANGED <<store, homes, devices, captures, owner, faces>>
ErasePeople ==
    /\ OpAt("people") /\ people' = people \ seats[Home] /\ OpGoes("seats")
    /\ UNCHANGED <<store, households, seats, known, bindings, cameras, captures, owner, faces>>
EraseSeats ==
    /\ OpAt("seats") /\ seats' = [seats EXCEPT ![Home] = {}] /\ OpGoes("house")
    /\ UNCHANGED <<store, households, people, known, bindings, cameras, captures, owner, faces>>
EraseHousehold ==
    /\ OpAt("house") /\ households' = [households EXCEPT ![Home] = Absent] /\ OpGoes("unbind")
    /\ UNCHANGED <<store, seats, people, known, bindings, cameras, captures, owner, faces>>

Unbind ==
    /\ OpAt("unbind") /\ bindings' = [bindings EXCEPT ![op.who] = Absent] /\ OpGoes("sessions")
    /\ UNCHANGED <<store, households, seats, people, known, cameras, captures, owner, faces>>
DeleteSessions ==
    /\ OpAt("sessions") /\ sessions' = sessions \ {op.who} /\ OpGoes("passkeys")
    /\ UNCHANGED <<users, passkeys, ceremonies, fruits, wishes, catalog, faces>>
DeletePasskeys ==
    /\ OpAt("passkeys") /\ passkeys' = passkeys \ {op.who} /\ OpGoes("ceremonies")
    /\ UNCHANGED <<users, sessions, ceremonies, fruits, wishes, catalog, faces>>
DeleteCeremonies ==
    /\ OpAt("ceremonies") /\ ceremonies' = Forgotten(op.who) /\ OpGoes("user")
    /\ UNCHANGED <<users, sessions, passkeys, fruits, wishes, catalog, faces>>
DeleteUserRow ==
    /\ OpAt("user") /\ users' = [users EXCEPT ![op.who] = Absent] /\ OpGoes("fulfil")
    /\ UNCHANGED <<sessions, passkeys, ceremonies, fruits, wishes, catalog, faces>>
MarkFulfilled ==
    /\ OpAt("fulfil") /\ wishes' = [wishes EXCEPT ![op.who] = "done"] /\ OpEnds
    /\ UNCHANGED <<users, sessions, passkeys, ceremonies, fruits, catalog, faces>>

DeletionStep ==
    \/ HouseholdPeers \/ ListCaptures \/ ListTaken \/ EraseObject \/ EraseRow \/ EraseAnalysis
    \/ ErasedPhotos \/ EraseDevices \/ EraseTokens \/ ErasePeople \/ EraseSeats
    \/ EraseHousehold \/ Unbind \/ DeleteSessions \/ DeletePasskeys \/ DeleteCeremonies
    \/ DeleteUserRow \/ MarkFulfilled

-----------------------------------------------------------------------------
(* link-household: plan_link_household reads, apply_link_household follows *)

(* The grid widens when the seats wanted, of the account's person and of   *)
(* the members named, are not there; the large one is the most.            *)
Wanted(h, S) == Cardinality(seats[h] \cup S)
Surveyed  == {h \in Homes : households[h] # Absent}
Plannable == people \cup Fresh(People)
PlanLink(u, h, p, role, members) ==
    /\ op = Rest /\ Registered(u) /\ h \in Surveyed
    /\ p \in Plannable /\ members \subseteq people \ {p}
    /\ Wanted(h, members \cup {p}) <= LargeGrid
    /\ op' = [Rest EXCEPT !.pc = "widen", !.who = u, !.person = p, !.todo = members,
                          !.user = [home |-> h, person |-> p, role |-> role],
                          !.widen = Wanted(h, members \cup {p}) > households[h]]
WidenGrid ==
    /\ OpAt("widen") /\ OpGoes("seat")
    /\ households' = [households EXCEPT ![Home] = IF op.widen /\ @ # Absent THEN LargeGrid ELSE @]
    /\ UNCHANGED <<store, seats, people, known, bindings, cameras, captures, owner, faces>>
(* Full again by now, or gone: the command ends in an error.               *)
Seats(p, next) ==
    /\ \/ /\ households[Home] # Absent /\ p \in seats[Home] /\ UNCHANGED <<people, known, seats, owner>>
          /\ op' = next
       \/ /\ p \notin seats[Home] /\ HasRoom(Home) /\ Seated(Home, p) /\ op' = next
          /\ people' = IF p \in known THEN people ELSE people \cup {p}
          /\ known' = known \cup {p}
       \/ /\ households[Home] = Absent \/ (p \notin seats[Home] /\ ~HasRoom(Home))
          /\ OpEnds /\ UNCHANGED <<people, known, seats, owner>>
    /\ UNCHANGED <<store, households, bindings, cameras, captures, faces>>
SeatPerson == OpAt("seat") /\ Seats(op.person, [op EXCEPT !.pc = "link"])
SeatMembers ==
    /\ OpAt("members") /\ op.todo # {}
    /\ Seats(Current, IF op.todo = {Current} THEN Rest ELSE [op EXCEPT !.todo = @ \ {Current}])
LinkHousehold ==
    /\ OpAt("link") /\ Registered(op.who) /\ LinkUser(op.who, Home, op.person) /\ OpGoes("role")
    /\ UNCHANGED <<sessions, passkeys, ceremonies, fruits, wishes, catalog, faces>>
SetHouseholdRole ==
    /\ OpAt("role") /\ Registered(op.who) /\ SetRole(op.who, op.user.role) /\ OpGoes("point")
    /\ UNCHANGED <<sessions, passkeys, ceremonies, fruits, wishes, catalog, faces>>
PointBinding ==
    /\ OpAt("point") /\ bindings' = [bindings EXCEPT ![op.who] = Home]
    /\ IF op.todo = {} THEN OpEnds ELSE OpGoes("members")
    /\ UNCHANGED <<store, households, seats, people, known, cameras, captures, owner, faces>>

(* The account has been deleted meanwhile.                                 *)
LinkLost ==
    /\ op.pc \in {"link", "role"} /\ ~Registered(op.who) /\ OpEnds
    /\ UNCHANGED <<store, catalog, faces>>

LinkStep == WidenGrid \/ SeatPerson \/ SeatMembers \/ LinkHousehold \/ SetHouseholdRole \/ PointBinding \/ LinkLost

(* register-device: what is there is read, then written over; a camera     *)
(* that was another household's by then brings its photographs.            *)
ActiveDevice(c) == devices[c]
PlanRegister(u, c) ==
    /\ op = Rest /\ Registered(u) /\ HouseholdOf(u) \in Surveyed
    /\ ActiveDevice(c) \in {Absent, HouseholdOf(u)}
    /\ op' = [Rest EXCEPT !.pc = "register", !.who = u, !.user = users[u], !.todo = {c}]
RegisterDevice ==
    /\ OpAt("register") /\ OpEnds
    /\ devices' = [c \in Cameras |-> IF c \in op.todo THEN Home ELSE devices[c]]
    /\ owner' = [y \in People \cup Photos |->
                    IF /\ y \in Photos /\ photos[y] # Absent /\ photos[y].device \in op.todo
                       /\ owner[y] = devices[photos[y].device]
                    THEN Home ELSE owner[y]]
    /\ UNCHANGED <<store, homes, tokens, captures, faces>>

(* A deletion that stopped is run again.                                   *)
RunAgain ==
    /\ OpAt("again")
    /\ DeleteAccount(op.who) \/ (~Registered(op.who) /\ OpEnds)
    /\ UNCHANGED <<store, catalog, faces>>

OpStep  == DeletionStep \/ LinkStep \/ RegisterDevice \/ RunAgain
OpFails ==
    /\ op # Rest /\ ~OpAt("again") /\ UNCHANGED <<accounts, catalog, faces>>
    /\ op' = IF Deleting THEN [Rest EXCEPT !.pc = "again", !.who = op.who] ELSE Rest

OpStarts ==
    /\ \E u \in Users :
          \/ op = Rest /\ DeleteAccount(u)
          \/ \E c \in Cameras : PlanRegister(u, c)
          \/ \E h \in Homes, p \in People, role \in {"admin", "member"},
                members \in {{}} \cup {{q} : q \in people} : PlanLink(u, h, p, role, members)
    /\ UNCHANGED <<accounts, catalog, faces>>

-----------------------------------------------------------------------------
(* At the start the first household has its camera and a photograph taken  *)
(* with it, or several whose faces have been labelled; a second account    *)
(* may be one of its members, or have a household of its own.  The first   *)
(* account has asked to be deleted, and sign-ins may have begun.           *)
FirstHome == CHOOSE h \in Homes : TRUE
FirstUser == CHOOSE u \in Users : TRUE
Started   == {u \in Users : Registered(u)}

FirstPhoto == CHOOSE x \in Photos : TRUE
Taken      == {FirstPhoto} \cup {x \in Photos : faces[x] # Absent}

Init ==
    /\ faces \in {[x \in Photos |-> Absent],
                  [x \in Photos |-> By(IF x = FirstPhoto THEN "manual" ELSE "match",
                                       Self[FirstUser])]}
    /\ users \in [Users -> {Absent} \cup [home : Homes, person : People, role : {"admin", "member"}]]
    /\ HasHome(FirstUser, FirstHome) /\ users[FirstUser].role = "admin"
    /\ \A u \in Started : /\ users[u].person = Self[u]
                          /\ users[u].home # FirstHome => users[u].role = "admin"
    /\ sessions = Started /\ passkeys = Started
    /\ ceremonies \in [Ceremonies -> [kind : {"unused", "discoverable"}, user : {Absent}]]
    /\ fruits = [c \in Ceremonies |-> 0]
    /\ wishes = [u \in Users |-> IF u = FirstUser THEN "open" ELSE "none"]
    /\ requests = [s \in Slots |-> Idle]
    /\ LET seated(h) == {Self[u] : u \in Accountants(h)} IN
       /\ \A h \in Homes : Cardinality(seated(h)) <= SmallGrid
       /\ seats = [h \in Homes |-> seated(h)]
       /\ households = [h \in Homes |-> IF Accountants(h) = {} THEN Absent ELSE SmallGrid]
       /\ people = {Self[u] : u \in Started}
       /\ known = Started \cup {Self[u] : u \in Started} \cup {users[u].home : u \in Started}
                  \cup Taken
    /\ bindings = [u \in Users |-> Absent] /\ tokens = {}
    /\ devices = [c \in Cameras |-> IF c = Founder THEN FirstHome ELSE Absent]
    /\ photos = [x \in Photos |-> IF x \in Taken THEN [NewPhoto(Founder) EXCEPT !.ready = TRUE]
                                  ELSE Absent]
    /\ objects = Taken /\ jobs = {x \in Taken : faces[x] = Absent} /\ granted = {}
    /\ owner = [y \in People \cup Photos |->
                   IF y \in Taken THEN FirstHome
                   ELSE IF y \in people THEN CHOOSE h \in Homes : y \in seats[h] ELSE Absent]
    /\ op \in {Rest, [Rest EXCEPT !.pc = "peers", !.who = FirstUser, !.user = users[FirstUser]]}
    /\ erased = {} /\ disturbed = {} /\ shuffled = {} /\ events = 0

Requests == \E s \in Slots : \/ AccountStep(s) /\ UNCHANGED catalog
                             \/ HouseholdStep(s)
Steps ==
    \/ Requests /\ UNCHANGED <<faces, op>>
    \/ \E x \in Photos : PhotoStep(x) /\ UNCHANGED <<faces, op>>
    \/ \E x \in Photos : FaceStep(x) /\ UNCHANGED op
    \/ OpStep /\ UNCHANGED requests
Events ==
    \/ AccountEvents /\ UNCHANGED <<catalog, faces, op>>
    \/ HouseholdEvents /\ UNCHANGED <<faces, op>>
    \/ FaceEvents /\ UNCHANGED op
    \/ \E s \in Slots : RequestFails(s) /\ UNCHANGED <<catalog, faces, op>>
    \/ OpStarts
    \/ OpFails

(* Something the deletion does not know of is under way.                   *)
Busy == granted # {} \/ \E s \in Slots : requests[s] # Idle
Joined == {h \in Homes : ~(Accountants(h)' \subseteq Accountants(h))}
Moved  == {h \in Homes : op' = op /\ <<Accountants(h), Admins(h)>>' # <<Accountants(h), Admins(h)>>}
Upcoming == granted \cup {x \in Photos : \E s \in Slots : requests[s].photo = x}
Handed   == {y \in People \cup Photos : owner'[y] # owner[y]}
Disturbs(anEvent) ==
    /\ disturbed' = IF ~Deleting THEN disturbed
                    ELSE disturbed \cup Joined \cup Upcoming \cup Handed
                         \cup (IF Busy \/ (anEvent /\ op' = op) THEN {op.who} ELSE {})
    /\ shuffled' = IF ~Deleting THEN shuffled ELSE shuffled \cup Moved
Finished ==
    erased' = IF OpAt("fulfil") /\ op' = Rest /\ wishes'[op.who] = "done"
                 /\ op.who \notin disturbed'
              THEN erased \cup {op.who} \cup (IF op.whole THEN {Home} ELSE {})
              ELSE erased

Next == /\ \/ Steps /\ UNCHANGED events /\ Disturbs(FALSE)
           \/ events < MaxEvents /\ events' = events + 1 /\ Events /\ Disturbs(TRUE)
        /\ Finished

Spec == Init /\ [][Next]_vars

-----------------------------------------------------------------------------
TypeOK ==
    /\ users \in [Users -> {Absent} \cup User]
    /\ sessions \cup passkeys \subseteq Users
    /\ ceremonies \in [Ceremonies -> Ceremony] /\ fruits \in [Ceremonies -> Nat]
    /\ wishes \in [Users -> {"none", "open", "done"}]
    /\ requests \in [Slots -> Request]
    /\ households \in [Homes -> {Absent, SmallGrid, LargeGrid}]
    /\ seats \in [Homes -> SUBSET People] /\ people \subseteq People
    /\ \A h \in Homes : households[h] # Absent => Cardinality(seats[h]) <= households[h]
    /\ bindings \in [Users -> Homes \cup {Absent}] /\ tokens \subseteq Homes
    /\ devices \in [Cameras -> Homes \cup {Absent}]
    /\ photos \in [Photos -> {Absent} \cup Photo]
    /\ objects \cup granted \cup jobs \subseteq Photos
    /\ owner \in [People \cup Photos -> Homes \cup {Absent}]
    /\ faces \in [Photos -> {Absent} \cup Face]

(* What the deletion of an account promises (onboarding.rs:441, auth.rs:   *)
(* 742): the account's own rows are gone, and with the last account its    *)
(* household, however often the command stopped and was run again.  Only a *)
(* request under way at the same time may leave something behind, or a     *)
(* photograph that was on its way in, or somebody who was seated, while a  *)
(* deletion ran.                                                           *)
Forgets(u) == /\ ~Registered(u) /\ u \notin sessions /\ u \notin passkeys /\ bindings[u] = Absent
              /\ \A c \in Ceremonies : ceremonies[c].user # u
Gutted(h)  == /\ households[h] = Absent /\ seats[h] = {} /\ h \notin tokens
              /\ \A c \in Cameras : devices[c] # h
              /\ \A p \in people \ disturbed : owner[p] # h
              /\ \A x \in Photos \ disturbed : owner[x] = h => photos[x] = Absent /\ x \notin objects
ErasedForGood ==
    /\ \A u \in Users \cap erased : Forgets(u)
    /\ \A h \in Homes \cap erased : Gutted(h)

(* ... and "the faces and face embeddings derived from them" (onboarding.rs*)
(* :438).                                                                  *)
FacesErased ==
    \A h \in Homes \cap erased, x \in Photos : owner[x] = h => faces[x] = Absent

(* "Leaving one does not destroy the photographs the people still in it    *)
(* are looking at" (onboarding.rs:433-435), nor anything else of it: while *)
(* others have an account in a household, no deletion touches its grid,    *)
(* its cameras, its people, or a photograph of it, its object and its      *)
(* analysis, except what is of a person seated in two households.          *)
(* Photographs are chosen when they are listed; one listed for a person    *)
(* who leaves the household only then is lost to the other.  The accounts  *)
(* are counted once: a household that somebody joins while a deletion runs *)
(* is exempt, and so is a photograph on its way in then.                   *)
Shared(h) == Accountants(h) \ {op.who} # {}
Kept(x) == <<photos[x], x \in objects, x \in jobs, faces[x]>>
SeatedTwice(p) == Cardinality(SeatedIn(p)) > 1
OthersKept ==
    [][Deleting /\ op' # op =>
          \A h \in Homes \ disturbed : Shared(h) =>
              /\ households'[h] = households[h]
              /\ \A c \in Cameras : devices[c] = h => devices'[c] = h
              /\ \A p \in people \cap seats[h] : p \in people' \/ SeatedTwice(p)
              /\ \A x \in Photos \ disturbed : owner[x] = h =>
                     /\ x \in op.todo \/ Kept(x)' = Kept(x)
                     /\ x \in op'.todo \ op.todo => SeatedTwice(photos[x].person)]_vars

(* A deletion leaves no household with accounts and without an             *)
(* administrator (onboarding.rs:433), as long as nobody else joins or      *)
(* leaves it, or gets another role, meanwhile.                             *)
AdminRemains ==
    [][\A h \in Homes \ (disturbed \cup shuffled) :
          OpAt("user") /\ op' # op /\ Admins(h) # {} /\ Admins(h)' = {} => ~Shared(h)]_vars

(* A ceremony leads to one session or passkey, however often and in        *)
(* whatever order it is finished, and for no account but its own.          *)
CeremonyOnce == \A c \in Ceremonies : fruits[c] <= 1

(* What a person said of a face stands until a person says otherwise, or   *)
(* the photograph is analysed again or deleted.                            *)
ByHand == {"manual", "rejected", "dismissed"}
HandLabelsStay ==
    [][\A x \in Shown : faces[x].source \in ByHand /\ faces'[x] # faces[x] =>
           \/ faces'[x] = Absent
           \/ x \in jobs /\ x \notin jobs'
           \/ faces'[x].source \in ByHand /\ events' # events]_vars

(* Whoever is proposed when faces are labelled, or a new one is analysed,  *)
(* is somebody people have confirmed often enough: suggestions never teach,*)
(* themselves or others.                                                   *)
Confirmations(p) ==
    {y \in Shown : faces'[y] # Absent /\ faces'[y].source \in Confirmed /\ faces'[y].person = p}
TaughtByPeople ==
    [][\A x \in Photos :
          /\ faces' # faces /\ faces'[x] # Absent /\ faces'[x].source = "match"
          /\ events' # events \/ faces'[x] # faces[x]
          => Cardinality(Confirmations(faces'[x].person)) >= MinExamples]_vars
=============================================================================
