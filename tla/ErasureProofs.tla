----------------------------- MODULE ErasureProofs -----------------------------
(***************************************************************************)
(* Theorems about the deletion of an account in HouseholdService, for      *)
(* every value of its constants: what has been deleted stays so, what is   *)
(* of other households stays, and none of them loses its last              *)
(* administrator.                                                          *)
(*                                                                         *)
(* The steps fall into those of the operator's command and those of        *)
(* everybody else.  What everybody else may do to each variable is stated  *)
(* once (Moves); the parts of the invariant are then shown to survive it    *)
(* without looking at the requests again.                                  *)
(***************************************************************************)
EXTENDS HouseholdProofs

-----------------------------------------------------------------------------
(* The inductive invariant, in addition to Inv.                            *)

(* An id that was not given out is nowhere: an account, a household, a     *)
(* person or a photo is what it was when its id was new.                   *)
Untaken(x) == photos[x] = Absent /\ owner[x] = Absent
RequestIds(s) ==
    LET r == requests[s] IN
    /\ r.who \in Users /\ r.pc # "create" => r.who \in known
    /\ r.pc = "create" => r.who \notin known
    /\ r.user.home \in known \cup {Absent}
    /\ r.photo \in known \cup {Absent}
    /\ r.pc \in {"person", "link", "add"} => r.user.home # Absent
    /\ r.pc \in {"reserve", "enroll"} => Untaken(r.photo)
OfItsOwn(s, t) ==
    /\ At(s, "create") => requests[t].who # requests[s].who
    /\ requests[s].photo # Absent => requests[t].photo # requests[s].photo
AccountIds ==
    \A u \in Users : /\ u \notin known => Forgets(u)
                     /\ Registered(u) => users[u].home \in known \cup {Absent}
                     /\ bindings[u] \in known \cup {Absent}
HomeIds ==
    /\ tokens \subseteq known
    /\ \A c \in Cameras : devices[c] \in known \cup {Absent}
OpIds ==
    /\ op.who \in known \cup {Absent} /\ Home \in known \cup {Absent}
    /\ erased \subseteq known /\ erased \subseteq Users \cup Homes
ItemIds ==
    /\ people \subseteq known
    /\ \A p \in People : p \notin known => owner[p] = Absent
    /\ \A x \in Photos : x \notin known => Untaken(x)
Ids == /\ AccountIds /\ HomeIds /\ OpIds /\ ItemIds
       /\ \A s \in Slots : RequestIds(s)
       /\ \A s, t \in Slots : s # t => OfItsOwn(s, t)

-----------------------------------------------------------------------------
(* What everybody but the operator may do to each variable                 *)

Active(u)  == \E s \in Slots : requests[s].who = u /\ ~At(s, "create")
Created(u) == \E s \in Slots : /\ At(s, "create") /\ requests[s].who = u /\ u \in known'
                               /\ requests'[s].pc # "create"

(* An account: somebody who is forgotten and asks for nothing stays so.    *)
Linked(u) == \E s \in Slots : /\ At(s, "link") /\ requests[s].who = u
                              /\ users'[u].home = requests[s].user.home
AccountGoes(u) ==
    /\ Forgets(u) /\ ~Active(u) => Forgets(u)' \/ Created(u)
    /\ \/ users'[u] = users[u] \/ users'[u] = Absent
       \/ Created(u) /\ ~Registered(u) /\ users'[u] = NewUser
       \/ Registered(u) /\ users'[u] # Absent
          /\ (users'[u].home = users[u].home \/ Linked(u))
    /\ \/ bindings'[u] = bindings[u]
       \/ \E s \in Slots : /\ At(s, "bind") /\ requests[s].who = u /\ requests[s].user.home # Absent
                           /\ bindings'[u] = requests[s].user.home

(* A request: it ends, goes on for the same account and photo, or begins.  *)
Onward(s) ==
    LET q == requests[s]
        r == requests'[s]
    IN  /\ q.pc # "idle" /\ r.who = q.who /\ r.photo = q.photo
        /\ r.pc \notin {"idle", "create", "reserve", "enroll", "bind", "add"}
        /\ q.pc = "create" => q.who \in known'
        /\ r.pc = "name" => q.pc = "enroll" /\ photos'[q.photo] # Absent
        /\ \/ r.user.home = q.user.home
           \/ r.user.home \in Homes \cap Fresh(Homes) /\ r.user.home \in known'
           \/ q.pc = "bind" /\ q.user.home = Absent /\ r.user.home = bindings[q.who]
        /\ r.pc \in {"person", "link"} => r.user.home # Absent
Begun(s) ==
    LET r == requests'[s] IN
    /\ requests[s] = Idle
    /\ \/ /\ r.pc = "create" /\ r.who \in Fresh(Users) /\ \A t \in Slots : requests[t].who # r.who
          /\ r.user.home = Absent /\ r.photo = Absent
       \/ /\ r.pc = "reserve" /\ r.photo \in Photos \cap Fresh(Photos) /\ r.photo \in known'
          /\ \/ r.who = Absent /\ r.user.home = Absent
             \/ r.who \in Cameras /\ r.user.home = devices[r.who] /\ devices[r.who] # Absent
       \/ /\ r.pc = "enroll" /\ r.photo \in Photos \cap Fresh(Photos) /\ r.photo \in known'
          /\ r.who \in Users /\ Registered(r.who) /\ r.user = users[r.who]
       \/ /\ r.pc \notin {"create", "reserve", "enroll", "name", "person", "link"} /\ r.photo = Absent
          /\ r.who \in Users /\ (Registered(r.who) \/ r.who \in passkeys)
          /\ r.pc = "add" => r.user.home # Absent
          /\ \/ r.user.home = Absent /\ r.pc # "bind"
             \/ Registered(r.who) /\ r.user.home = users[r.who].home
Becomes(s) == \/ requests'[s] = requests[s] \/ requests'[s] = Idle \/ Onward(s) \/ Begun(s)
RequestsGo ==
    \/ UNCHANGED requests
    \/ \E s \in Slots : Becomes(s) /\ \A t \in Slots \ {s} : requests'[t] = requests[t]

(* A household, its seats and its cameras.                                 *)
HomeGoes(h) ==
    /\ households[h] = Absent /\ households'[h] # Absent => h \in Fresh(Homes)
    /\ seats'[h] # seats[h] => households[h] # Absent
    /\ \A p \in seats[h] \ seats'[h] :
           owner'[p] # h /\ \A x \in Photos : photos[x] # Absent /\ photos[x].person = p => owner'[x] # h
    /\ h \in tokens' => h \in tokens \/ \E s \in Slots : At(s, "mint") /\ requests[s].user.home = h
CameraGoes(c) == devices'[c] = devices[c] \/ (devices[c] = Absent /\ devices'[c] \in tokens)

(* A person.                                                               *)
PersonGoes(p) ==
    /\ p \in people => p \in people'
    /\ p \in people' => p \in people \/ (p \in Fresh(People) /\ p \in known')
    /\ \/ owner'[p] = owner[p] \/ owner'[p] = Absent
       \/ /\ owner'[p] \in Homes /\ households[owner'[p]] # Absent /\ p \in seats'[owner'[p]]
          /\ p \in known'

(* A photo.                                                                *)
Stays(x) == /\ photos'[x] = Absent <=> photos[x] = Absent
            /\ photos[x] # Absent => /\ photos'[x].device = photos[x].device
                                     /\ photos'[x].person = photos[x].person
            /\ owner'[x] = owner[x] \/ owner'[x] = Absent
            /\ x \in granted' => x \in granted
Arrives(x, s) ==
    /\ requests[s].photo = x /\ requests'[s].pc \notin {"reserve", "enroll"}
    /\ UNCHANGED <<seats, devices, objects>>
    /\ \/ At(s, "reserve") /\ photos'[x] = NewPhoto(requests[s].who) /\ owner'[x] = TakenFor(requests[s])
       \/ At(s, "enroll") /\ photos'[x] = NewPhoto(Absent) /\ owner'[x] = owner[x]
          /\ (x \in granted' => x \in granted)
       \/ /\ At(s, "name") /\ (photos'[x] = Absent <=> photos[x] = Absent)
          /\ photos[x] # Absent => /\ photos'[x].person = requests[s].person
                                   /\ photos'[x].device = photos[x].device
          /\ owner'[x] = IF requests[s].person \in seats[requests[s].user.home]
                         THEN requests[s].user.home ELSE Absent
PhotoGoes(x) ==
    /\ Stays(x) \/ \E s \in Slots : Arrives(x, s)
    /\ x \in objects' => x \in objects \/ x \in granted

KnownGoes == /\ known \subseteq known'
             /\ \A u \in Users : u \in known' => u \in known \/ Created(u)

Moves == /\ RequestsGo /\ KnownGoes
         /\ \A u \in Users : AccountGoes(u)
         /\ \A h \in Homes : HomeGoes(h)
         /\ \A c \in Cameras : CameraGoes(c)
         /\ \A p \in People : PersonGoes(p)
         /\ \A x \in Photos : PhotoGoes(x)

LEMMA SameAccountsMove ==
    ASSUME UNCHANGED <<users, sessions, passkeys, ceremonies, bindings>>
    PROVE  \A u \in Users : AccountGoes(u)
  BY DEF AccountGoes, Forgets, Registered

LEMMA SameHomesMove ==
    ASSUME UNCHANGED <<households, seats, tokens>>
    PROVE  \A h \in Homes : HomeGoes(h)
  BY DEF HomeGoes

LEMMA SamePeopleMove ==
    ASSUME UNCHANGED <<people, owner>>
    PROVE  \A p \in People : PersonGoes(p)
  BY DEF PersonGoes

LEMMA SamePhotosMove ==
    ASSUME UNCHANGED <<photos, objects, granted, owner>>
    PROVE  \A x \in Photos : PhotoGoes(x)
  BY DEF PhotoGoes, Stays

LEMMA SameCatalogMoves ==
    ASSUME UNCHANGED catalog
    PROVE  /\ \A h \in Homes : HomeGoes(h)
           /\ \A c \in Cameras : CameraGoes(c)
           /\ \A p \in People : PersonGoes(p)
           /\ \A x \in Photos : PhotoGoes(x)
           /\ KnownGoes /\ bindings' = bindings
  <1>1. UNCHANGED <<households, seats, people, known, bindings, tokens, devices, photos, objects,
                    granted, jobs, owner>>
    BY DEF catalog, homes, cameras, captures
  <1>2. KnownGoes /\ \A c \in Cameras : CameraGoes(c)
    BY <1>1 DEF KnownGoes, CameraGoes
  <1>3. QED
    BY <1>1, <1>2, SameHomesMove, SamePeopleMove, SamePhotosMove

-----------------------------------------------------------------------------
(* Requests that end, go on, or begin                                      *)

LEMMA IsIdle == Idle \in Request /\ Idle.pc = "idle" /\ Idle.who = Absent /\ Idle.photo = Absent
                /\ Idle.user.home = Absent
  <1>1. NewUser \in User /\ NewUser.home = Absent
    BY DEF NewUser, User
  <1>2. QED
    BY <1>1 DEF Idle, Request, Stages

LEMMA EndsMoves ==
    ASSUME RequestsOK, NEW s \in Slots, Ends(s)
    PROVE  RequestsGo /\ requests'[s] = Idle
  BY DEF RequestsOK, Ends, RequestsGo, Becomes

LEMMA GoesMoves ==
    ASSUME RequestsOK, Ids, NEW s \in Slots, NEW pc \in Stages, Goes(s, pc), ~At(s, "idle"),
           pc \notin {"idle", "create", "reserve", "enroll", "bind", "add", "person", "link"},
           At(s, "create") => requests[s].who \in known',
           pc = "name" => At(s, "enroll") /\ photos'[requests[s].photo] # Absent
    PROVE  RequestsGo
  <1>1. PICK r : r = [requests[s] EXCEPT !.pc = pc]
    OBVIOUS
  <1>2. requests' = [requests EXCEPT ![s] = r] /\ requests \in [Slots -> Request]
    BY <1>1 DEF Goes, RequestsOK
  <1>3. r.pc = pc /\ r.who = requests[s].who /\ r.photo = requests[s].photo
        /\ r.user = requests[s].user
    BY <1>1, <1>2 DEF Request
  <1>4. requests'[s] = r /\ \A t \in Slots \ {s} : requests'[t] = requests[t]
    BY <1>2
  <1>5. Onward(s)
    BY <1>3, <1>4 DEF Onward, At
  <1>6. QED
    BY <1>4, <1>5 DEF RequestsGo, Becomes

LEMMA StartsMoves ==
    ASSUME RequestsOK, NEW r, Starts(r),
           \A s \in Slots : requests[s] = Idle /\ requests'[s] = r => Begun(s)
    PROVE  RequestsGo
  <1> DEFINE s == CHOOSE s \in Free : TRUE
  <1>1. s \in Slots /\ requests[s] = Idle /\ requests' = [requests EXCEPT ![s] = r]
    BY DEF Starts, Free
  <1> HIDE DEF s
  <1>2. requests'[s] = r /\ \A t \in Slots \ {s} : requests'[t] = requests[t]
    BY <1>1 DEF RequestsOK
  <1>3. QED
    BY <1>1, <1>2 DEF RequestsGo, Becomes

LEMMA AskedFor ==
    ASSUME NEW u, NEW c, NEW pc
    PROVE  /\ Asked(pc, u, c).pc = pc /\ Asked(pc, u, c).who = u
           /\ Asked(pc, u, c).user = NewUser /\ Asked(pc, u, c).photo = Absent
  BY DEF Asked

LEMMA AskedMoves ==
    ASSUME RequestsOK, NEW u \in Users, NEW c \in Ceremonies \cup {Absent},
           NEW pc \in {"session", "enlist", "accept", "challenge"},
           Registered(u) \/ u \in passkeys, Starts(Asked(pc, u, c))
    PROVE  RequestsGo
  <1>1. PICK r : r = Asked(pc, u, c)
    OBVIOUS
  <1>2. r.pc = pc /\ r.who = u /\ r.user.home = Absent /\ r.photo = Absent
    BY <1>1, AskedFor DEF NewUser
  <1>3. ASSUME NEW s \in Slots, requests[s] = Idle, requests'[s] = r PROVE Begun(s)
    BY <1>2, <1>3 DEF Begun
  <1>4. QED
    BY <1>1, <1>3, StartsMoves

LEMMA BeginsMoves ==
    ASSUME RequestsOK, StoreOK, NEW u \in Users, NEW pc \in {"offer", "ask", "add", "bind"},
           Begins(u, pc), pc = "add" => users[u].home # Absent
    PROVE  RequestsGo
  <1>1. PICK r : r = [Idle EXCEPT !.pc = pc, !.who = u, !.user = users[u]]
    OBVIOUS
  <1>2. Starts(r) /\ Registered(u)
    BY <1>1 DEF Begins, Authenticated
  <1>3. r = [pc |-> pc, who |-> u, user |-> users[u], person |-> Absent, photo |-> Absent, by |-> Absent]
    BY <1>1 DEF Idle
  <1>4. r.pc = pc /\ r.who = u /\ r.user = users[u] /\ r.photo = Absent
    BY <1>3
  <1>5. ASSUME NEW s \in Slots, requests[s] = Idle, requests'[s] = r PROVE Begun(s)
    BY <1>2, <1>4, <1>5 DEF Begun
  <1>6. QED
    BY <1>2, <1>5, StartsMoves

-----------------------------------------------------------------------------
(* The accounts' own requests and events                                   *)

LEMMA AccountStepMoves ==
    ASSUME Inv, Ids, NEW s \in Slots, AccountStep(s), UNCHANGED catalog
    PROVE  Moves
  <1>0. RequestsOK /\ ReqOK(requests[s]) /\ StoreOK
    BY DEF Inv, RequestsOK
  <1>1. bindings' = bindings /\ KnownGoes
    BY SameCatalogMoves
  <1>2. CASE CreateSession(s)
    <2>1. RequestsGo
      BY <1>0, <1>2, EndsMoves DEF CreateSession
    <2>2. \A u \in Users : AccountGoes(u)
      BY <1>1, <1>2 DEF CreateSession, AccountGoes, Forgets, Registered, Active, At
    <2>3. QED
      BY <2>1, <2>2, SameCatalogMoves DEF Moves
  <1>3. CASE AddPasskey(s)
    <2>1. RequestsGo
      BY <1>0, <1>3, EndsMoves DEF AddPasskey
    <2>2. \A u \in Users : AccountGoes(u)
      BY <1>1, <1>3 DEF AddPasskey, AccountGoes, Forgets, Registered, Active, At
    <2>3. QED
      BY <2>1, <2>2, SameCatalogMoves DEF Moves
  <1>4. CASE StoreOffer(s) \/ StoreChallenge(s)
    <2>1. PICK kind, c : c \in Ceremonies
                  /\ ceremonies' = [ceremonies EXCEPT ![c] = [kind |-> kind, user |-> requests[s].who]]
                  /\ UNCHANGED <<users, sessions, passkeys>> /\ Ends(s)
      BY <1>4 DEF StoreOffer, StoreChallenge, StoreCeremony
    <2>2. RequestsGo
      BY <1>0, <2>1, EndsMoves
    <2>3. ~At(s, "create")
      BY <1>4 DEF StoreOffer, StoreChallenge, At
    <2>4. ceremonies \in [Ceremonies -> Ceremony]
      BY DEF Inv, CeremoniesOK
    <2>5. ASSUME NEW u \in Users PROVE AccountGoes(u)
      <3>1. ASSUME Forgets(u), ~Active(u) PROVE Forgets(u)'
        <4>1. requests[s].who # u
          BY <2>3, <3>1 DEF Active
        <4>2. \A d \in Ceremonies : ceremonies'[d].user # u
          BY <2>1, <2>4, <3>1, <4>1 DEF Forgets
        <4>3. QED
          BY <1>1, <2>1, <3>1, <4>2 DEF Forgets, Registered
      <3>2. QED
        BY <1>1, <2>1, <3>1 DEF AccountGoes
    <2>6. QED
      BY <2>2, <2>5, SameCatalogMoves DEF Moves
  <1>5. CASE Accept(s) \/ LookUp(s)
    <2>1. PICK pc \in {"lookup", "session"} : Ends(s) \/ (Goes(s, pc) /\ ~At(s, "idle") /\ ~At(s, "create"))
      BY <1>5 DEF Accept, LookUp, At
    <2>2. RequestsGo
      BY <1>0, <2>1, EndsMoves, GoesMoves DEF Stages
    <2>3. UNCHANGED <<users, sessions, passkeys, ceremonies>>
      BY <1>5 DEF Accept, LookUp, store
    <2>4. QED
      BY <1>1, <2>2, <2>3, SameAccountsMove, SameCatalogMoves DEF Moves
  <1>6. CASE RecordWish(s)
    <2>1. RequestsGo /\ UNCHANGED <<users, sessions, passkeys, ceremonies>>
      BY <1>0, <1>6, EndsMoves DEF RecordWish
    <2>2. QED
      BY <1>1, <2>1, SameAccountsMove, SameCatalogMoves DEF Moves
  <1>7. QED
    BY <1>2, <1>3, <1>4, <1>5, <1>6 DEF AccountStep

LEMMA TakesMoves ==
    ASSUME Inv, NEW c \in Ceremonies, TakeCeremony(c), UNCHANGED <<users, sessions, passkeys, bindings>>
    PROVE  \A u \in Users : AccountGoes(u)
  <1>1. ceremonies \in [Ceremonies -> Ceremony]
    BY DEF Inv, CeremoniesOK
  <1>2. \A d \in Ceremonies : ceremonies'[d].user \in {ceremonies[d].user, Absent}
    BY <1>1 DEF TakeCeremony, Gone
  <1>3. ASSUME NEW u \in Users PROVE AccountGoes(u)
    <2>1. u # Absent
      BY AccountsAssumption
    <2>2. Forgets(u) => Forgets(u)'
      BY <1>2, <2>1 DEF Forgets, Registered
    <2>3. QED
      BY <2>2 DEF AccountGoes
  <1>4. QED
    BY <1>3

LEMMA AccountEventsMove ==
    ASSUME Inv, Ids, AccountEvents, UNCHANGED catalog
    PROVE  Moves
  <1>0. RequestsOK /\ StoreOK
    BY DEF Inv
  <1>1. bindings' = bindings
    BY SameCatalogMoves
  <1>2. CASE StartDiscoverable
    <2>1. UNCHANGED <<users, sessions, passkeys, requests>>
      BY <1>2 DEF StartDiscoverable, StoreDiscoverable, StoreCeremony
    <2>2. ceremonies \in [Ceremonies -> Ceremony]
      BY DEF Inv, CeremoniesOK
    <2>3. \A d \in Ceremonies : ceremonies'[d].user \in {ceremonies[d].user, Absent}
      BY <1>2, <2>2 DEF StartDiscoverable, StoreDiscoverable, StoreCeremony
    <2>4. ASSUME NEW u \in Users PROVE AccountGoes(u)
      <3>1. u # Absent
        BY AccountsAssumption
      <3>2. Forgets(u) => Forgets(u)'
        BY <1>1, <2>1, <2>3, <3>1 DEF Forgets, Registered
      <3>3. QED
        BY <1>1, <2>1, <3>2 DEF AccountGoes
    <2>5. QED
      BY <2>1, <2>4, SameCatalogMoves DEF Moves, RequestsGo
  <1>3. ASSUME NEW u \in Users, SignIn(u) \/ StartAuthentication(u) PROVE Moves
    <2>1. PICK pc \in {"session", "challenge"} : Starts([Idle EXCEPT !.pc = pc, !.who = u])
      BY <1>3 DEF SignIn, StartAuthentication
    <2>2. Registered(u)
      BY <1>3 DEF SignIn, RightPassword, StartAuthentication
    <2>3. PICK r : r = [Idle EXCEPT !.pc = pc, !.who = u]
      OBVIOUS
    <2>4. Starts(Asked(pc, u, Absent))
      BY <2>1, <2>3, AskedIs
    <2>5. RequestsGo
      BY <1>0, <2>2, <2>4, AskedMoves
    <2>6. UNCHANGED <<users, sessions, passkeys, ceremonies>>
      BY <1>3 DEF SignIn, StartAuthentication, store
    <2>7. QED
      BY <1>1, <2>5, <2>6, SameAccountsMove, SameCatalogMoves DEF Moves
  <1>4. ASSUME NEW u \in Users, RevokeSession(u) PROVE Moves
    <2>1. \A v \in Users : AccountGoes(v)
      BY <1>1, <1>4 DEF RevokeSession, AccountGoes, Forgets, Registered
    <2>2. RequestsGo
      BY <1>4 DEF RevokeSession, RequestsGo
    <2>3. QED
      BY <2>1, <2>2, SameCatalogMoves DEF Moves
  <1>5. ASSUME NEW u \in Users, AskDeletion(u) \/ StartRegistration(u) PROVE Moves
    <2>1. RequestsGo
      BY <1>0, <1>5, BeginsMoves DEF AskDeletion, StartRegistration
    <2>2. UNCHANGED <<users, sessions, passkeys, ceremonies>>
      BY <1>5 DEF AskDeletion, StartRegistration, store
    <2>3. QED
      BY <1>1, <2>1, <2>2, SameAccountsMove, SameCatalogMoves DEF Moves
  <1>6. ASSUME NEW u \in Users, NEW c \in Ceremonies, NEW pc \in {"enlist", "accept"},
               Registered(u) \/ u \in passkeys, TakeCeremony(c),
               UNCHANGED <<users, sessions, passkeys>>,
               UNCHANGED requests \/ Starts([Idle EXCEPT !.pc = pc, !.who = u, !.by = c])
        PROVE  Moves
    <2>1. RequestsGo
      <3>1. CASE UNCHANGED requests
        BY <3>1 DEF RequestsGo
      <3>2. CASE Starts([Idle EXCEPT !.pc = pc, !.who = u, !.by = c])
        <4>1. PICK r : r = [Idle EXCEPT !.pc = pc, !.who = u, !.by = c]
          OBVIOUS
        <4>2. Starts(r)
          BY <3>2, <4>1, Zenon
        <4>3. r = Asked(pc, u, c)
          <5>1. r = [pc |-> pc, who |-> u, user |-> NewUser, person |-> Absent,
                     photo |-> Absent, by |-> c]
            BY <4>1 DEF Idle
          <5>2. QED
            BY <5>1, Zenon DEF Asked
        <4>4. QED
          BY <1>0, <1>6, <4>2, <4>3, AskedMoves
      <3>3. QED
        BY <1>6, <3>1, <3>2
    <2>2. QED
      BY <1>1, <1>6, <2>1, TakesMoves, SameCatalogMoves DEF Moves
  <1>7. ASSUME NEW u \in Users, NEW c \in Ceremonies, FinishRegistration(u, c) PROVE Moves
    BY <1>6, <1>7 DEF FinishRegistration, Authenticated
  <1>8. ASSUME NEW u \in Users, NEW c \in Ceremonies, FinishAuthentication(u, c) PROVE Moves
    BY <1>6, <1>8 DEF FinishAuthentication
  <1>9. QED
    BY <1>2, <1>3, <1>4, <1>5, <1>7, <1>8 DEF AccountEvents

LEMMA FailureMoves ==
    ASSUME Inv, NEW s \in Slots, RequestFails(s), UNCHANGED catalog
    PROVE  Moves
  <1>1. RequestsGo /\ UNCHANGED <<users, sessions, passkeys, ceremonies>>
    BY EndsMoves DEF Inv, RequestFails, store
  <1>2. QED
    BY <1>1, SameAccountsMove, SameCatalogMoves DEF Moves

-----------------------------------------------------------------------------
(* The requests about households, cameras and photographs                  *)

LEMMA SameHomesAndCameras ==
    ASSUME UNCHANGED <<homes, cameras, owner>>
    PROVE  /\ \A h \in Homes : HomeGoes(h)
           /\ \A c \in Cameras : CameraGoes(c)
           /\ \A p \in People : PersonGoes(p)
           /\ KnownGoes /\ bindings' = bindings
  <1>1. UNCHANGED <<households, seats, people, known, bindings, tokens, devices, owner>>
    BY DEF homes, cameras
  <1>2. KnownGoes /\ \A c \in Cameras : CameraGoes(c)
    BY <1>1 DEF KnownGoes, CameraGoes
  <1>3. QED
    BY <1>1, <1>2, SameHomesMove, SamePeopleMove

LEMMA CreateHouseholdMoves ==
    ASSUME Inv, NEW g \in Homes, CreateHousehold(g), UNCHANGED <<store, cameras, captures>>
    PROVE  /\ \A h \in Homes : HomeGoes(h)
           /\ \A c \in Cameras : CameraGoes(c)
           /\ \A p \in People : PersonGoes(p)
           /\ \A x \in Photos : PhotoGoes(x)
           /\ \A u \in Users : AccountGoes(u)
           /\ KnownGoes /\ g \in Fresh(Homes) /\ g \in known'
  <1>1. UNCHANGED <<seats, people, bindings, owner, tokens, devices, photos, objects, granted,
                    users, sessions, passkeys, ceremonies>>
    BY DEF CreateHousehold, cameras, captures, store
  <1>2. /\ g \in Fresh(Homes) /\ known' = known \cup {g}
        /\ \A h \in Homes \ {g} : households'[h] = households[h]
    BY DEF CreateHousehold, Inv, HomesOK
  <1>3. KnownGoes
    BY <1>2, AccountsAssumption DEF KnownGoes
  <1>4. \A h \in Homes : HomeGoes(h)
    BY <1>1, <1>2 DEF HomeGoes
  <1>5. QED
    BY <1>1, <1>2, <1>3, <1>4, SamePeopleMove, SamePhotosMove, SameAccountsMove DEF CameraGoes

LEMMA AddPersonMoves ==
    ASSUME Inv, Ids, NEW g \in Homes, NEW q \in People, AddPerson(g, q),
           UNCHANGED <<store, cameras, captures>>
    PROVE  /\ \A h \in Homes : HomeGoes(h)
           /\ \A c \in Cameras : CameraGoes(c)
           /\ \A p \in People : PersonGoes(p)
           /\ \A x \in Photos : PhotoGoes(x)
           /\ \A u \in Users : AccountGoes(u)
           /\ KnownGoes
  <1>1. UNCHANGED <<households, bindings, tokens, devices, photos, objects, granted,
                    users, sessions, passkeys, ceremonies>>
    BY DEF AddPerson, cameras, captures, store
  <1>2. /\ households[g] # Absent /\ q \in Fresh(People)
        /\ people' = people \cup {q} /\ known' = known \cup {q}
        /\ seats' = [seats EXCEPT ![g] = @ \cup {q}]
        /\ owner' = [owner EXCEPT ![q] = IF @ = Absent THEN g ELSE @]
    BY DEF AddPerson, HasRoom, Seated
  <1>3. seats \in [Homes -> SUBSET People] /\ owner \in [People \cup Photos -> Homes \cup {Absent}]
    BY DEF Inv, HomesOK, OwnerOK
  <1>4. /\ q \in seats'[g] /\ \A h \in Homes : seats[h] \subseteq seats'[h]
        /\ \A h \in Homes \ {g} : seats'[h] = seats[h]
        /\ owner'[q] = IF owner[q] = Absent THEN g ELSE owner[q]
        /\ \A y \in (People \cup Photos) \ {q} : owner'[y] = owner[y]
    BY <1>2, <1>3
  <1>5. KnownGoes
    BY <1>2, AccountsAssumption DEF KnownGoes
  <1>6. \A h \in Homes : HomeGoes(h)
    BY <1>1, <1>2, <1>4 DEF HomeGoes
  <1>7. \A p \in People : PersonGoes(p)
    BY <1>2, <1>4 DEF PersonGoes
  <1>8. \A x \in Photos : PhotoGoes(x)
    BY <1>1, <1>4, AccountsAssumption DEF PhotoGoes, Stays
  <1>9. QED
    BY <1>1, <1>5, <1>6, <1>7, <1>8, SameAccountsMove DEF CameraGoes

(* A photo that one request writes; the others stay.                       *)
LEMMA OnePhoto ==
    ASSUME Inv, NEW x \in Photos, NEW s \in Slots, UNCHANGED <<homes, cameras, objects>>,
           requests[s].photo = x, Arrives(x, s),
           \A y \in Photos \ {x} : /\ photos'[y] = photos[y] /\ owner'[y] = owner[y]
                                   /\ (y \in granted' => y \in granted)
    PROVE  \A y \in Photos : PhotoGoes(y)
  <1>1. PhotoGoes(x)
    BY DEF PhotoGoes
  <1>2. ASSUME NEW y \in Photos \ {x} PROVE PhotoGoes(y)
    BY DEF PhotoGoes, Stays
  <1>3. QED
    BY <1>1, <1>2

LEMMA PersonKept ==
    ASSUME UNCHANGED people, \A p \in People : owner'[p] = owner[p]
    PROVE  \A p \in People : PersonGoes(p)
  BY DEF PersonGoes

LEMMA SeatsKept ==
    ASSUME UNCHANGED <<homes, cameras>>
    PROVE  /\ \A h \in Homes : HomeGoes(h)
           /\ \A c \in Cameras : CameraGoes(c)
           /\ KnownGoes /\ bindings' = bindings /\ people' = people /\ seats' = seats
           /\ devices' = devices
  BY DEF HomeGoes, CameraGoes, KnownGoes, homes, cameras

LEMMA HouseholdStepMoves ==
    ASSUME Inv, Inv', Ids, NEW s \in Slots, HouseholdStep(s)
    PROVE  Moves
  <1> DEFINE q == requests[s]
  <1>0. /\ RequestsOK /\ ReqOK(q) /\ StoreOK /\ requests \in [Slots -> Request] /\ q \in Request
        /\ q.user \in User /\ q.user.home \in Homes \cup {Absent}
    <2>1. RequestsOK /\ ReqOK(q) /\ StoreOK /\ requests \in [Slots -> Request] /\ q \in Request
      BY DEF Inv, RequestsOK
    <2>2. q.user \in User
      BY <2>1 DEF Request
    <2>3. QED
      BY <2>1, <2>2 DEF User
  <1>1. CASE AddMember(s)
    <2>1. RequestsGo /\ UNCHANGED <<store, cameras, captures>>
      BY <1>0, <1>1, EndsMoves DEF AddMember
    <2>2. UNCHANGED <<users, sessions, passkeys, ceremonies>>
      BY <2>1 DEF store
    <2>3. CASE UNCHANGED <<homes, owner>>
      <3>1. UNCHANGED catalog
        BY <2>1, <2>3 DEF catalog
      <3>2. QED
        BY <2>1, <2>2, <3>1, SameCatalogMoves, SameAccountsMove DEF Moves
    <2>4. CASE Fresh(People) # {} /\ AddPerson(q.user.home, CHOOSE p \in Fresh(People) : TRUE)
      <3>1. PICK p \in Fresh(People) : p = CHOOSE r \in Fresh(People) : TRUE
        BY <2>4
      <3>2. p \in People /\ AddPerson(q.user.home, p)
        BY <2>4, <3>1 DEF Fresh
      <3>3. q.user.home \in Homes
        BY <1>0, <1>1 DEF AddMember, At, Ids, RequestIds
      <3>4. QED
        BY <2>1, <3>2, <3>3, AddPersonMoves DEF Moves
    <2>5. QED
      BY <1>1, <2>3, <2>4 DEF AddMember
  <1>2. CASE SignupUser(s)
    <2>1. /\ q.who \in Users /\ At(s, "create") /\ ~Registered(q.who) /\ Goes(s, "house")
          /\ users' = [users EXCEPT ![q.who] = NewUser] /\ known' = known \cup {q.who}
          /\ UNCHANGED <<sessions, passkeys, ceremonies>>
          /\ UNCHANGED <<households, seats, people, bindings, tokens, devices, photos, objects, granted, owner>>
      BY <1>0, <1>2 DEF SignupUser, CreateUser, At, ReqOK, OfAccount, cameras, captures
    <2>2. RequestsGo
      BY <1>0, <2>1, GoesMoves DEF At, Stages
    <2>c. requests'[s].pc # "create"
      <3>1. PICK r : r = [q EXCEPT !.pc = "house"]
        OBVIOUS
      <3>2. requests' = [requests EXCEPT ![s] = r] /\ r.pc = "house"
        BY <1>0, <2>1, <3>1 DEF Goes, Request
      <3>3. QED
        BY <1>0, <3>2
    <2>3. KnownGoes
      BY <2>1, <2>c DEF KnownGoes, Created
    <2>4. ASSUME NEW u \in Users PROVE AccountGoes(u)
      <3>1. CASE u = q.who
        BY <2>1, <2>c, <3>1 DEF AccountGoes, Created, Inv, StoreOK
      <3>2. CASE u # q.who
        BY <2>1, <3>2 DEF AccountGoes, Forgets, Registered, Inv, StoreOK
      <3>3. QED
        BY <3>1, <3>2
    <2>5. QED
      BY <2>1, <2>2, <2>3, <2>4, SameHomesMove, SamePeopleMove, SamePhotosMove DEF Moves, CameraGoes
  <1>3. CASE SignupHousehold(s)
    <2>1. PICK h \in Fresh(Homes) : CreateHousehold(h) /\ h \in Homes
                /\ requests' = [requests EXCEPT ![s].pc = "person", ![s].user.home = h]
      BY <1>3 DEF SignupHousehold, Fresh
    <2>2. PICK r : r = [q EXCEPT !.pc = "person", !.user.home = h]
      OBVIOUS
    <2>3. r.pc = "person" /\ r.who = q.who /\ r.photo = q.photo /\ r.user.home = h
      BY <1>0, <2>2 DEF Request, User
    <2>4. requests'[s] = r /\ \A t \in Slots \ {s} : requests'[t] = requests[t]
      BY <1>0, <2>1, <2>2
    <2>5. /\ \A g \in Homes : HomeGoes(g)
          /\ \A c \in Cameras : CameraGoes(c)
          /\ \A p \in People : PersonGoes(p)
          /\ \A x \in Photos : PhotoGoes(x)
          /\ \A u \in Users : AccountGoes(u)
          /\ KnownGoes /\ h \in Fresh(Homes) /\ h \in known'
      BY <1>3, <2>1, CreateHouseholdMoves DEF SignupHousehold, CreateHousehold
    <2>6. Onward(s)
      BY <1>3, <2>1, <2>3, <2>4, <2>5, AccountsAssumption DEF SignupHousehold, Onward, At
    <2>7. QED
      BY <2>4, <2>5, <2>6 DEF Moves, RequestsGo, Becomes
  <1>4. CASE SignupPerson(s)
    <2>1. PICK p \in Fresh(People) : AddPerson(q.user.home, p) /\ p \in People
                /\ requests' = [requests EXCEPT ![s].pc = "link", ![s].person = p]
      BY <1>4 DEF SignupPerson, Fresh
    <2>2. PICK r : r = [q EXCEPT !.pc = "link", !.person = p]
      OBVIOUS
    <2>3. r.pc = "link" /\ r.who = q.who /\ r.photo = q.photo /\ r.user = q.user
      BY <1>0, <2>2 DEF Request
    <2>4. requests'[s] = r /\ \A t \in Slots \ {s} : requests'[t] = requests[t]
      BY <1>0, <2>1, <2>2
    <2>5. At(s, "person") /\ q.user.home # Absent
      BY <1>4 DEF SignupPerson, At, Ids, RequestIds
    <2>6. Onward(s)
      BY <2>3, <2>4, <2>5 DEF Onward, At
    <2>7. q.user.home \in Homes /\ UNCHANGED <<store, cameras, captures>>
      BY <1>0, <1>4, <2>5 DEF SignupPerson
    <2>8. /\ \A h \in Homes : HomeGoes(h)
          /\ \A c \in Cameras : CameraGoes(c)
          /\ \A t \in People : PersonGoes(t)
          /\ \A x \in Photos : PhotoGoes(x)
          /\ \A u \in Users : AccountGoes(u)
          /\ KnownGoes
      BY <2>1, <2>7, AddPersonMoves
    <2>9. QED
      BY <2>4, <2>6, <2>8 DEF Moves, RequestsGo, Becomes
  <1>5. CASE SignupLink(s) \/ SignupRole(s)
    <2>1. PICK pc \in {"role", "session"} : Goes(s, pc) /\ ~At(s, "idle") /\ ~At(s, "create")
      BY <1>5 DEF SignupLink, SignupRole, At
    <2>2. RequestsGo
      BY <1>0, <2>1, GoesMoves DEF Stages
    <2>3. q.who \in Users /\ Registered(q.who) /\ UNCHANGED <<sessions, passkeys, ceremonies, catalog>>
      BY <1>0, <1>5 DEF SignupLink, SignupRole, At, ReqOK, OfAccount
    <2>4. users \in [Users -> {Absent} \cup User] /\ users[q.who] \in User
      BY <2>3 DEF Inv, StoreOK, Registered
    <2>5. /\ \A u \in Users \ {q.who} : users'[u] = users[u]
          /\ users'[q.who].home = users[q.who].home
             \/ (At(s, "link") /\ users'[q.who].home = q.user.home)
      <3>1. CASE SignupLink(s)
        <4>1. users' = [users EXCEPT ![q.who].home = q.user.home, ![q.who].person = q.person]
          BY <3>1 DEF SignupLink, LinkUser
        <4>2. users'[q.who] = [users[q.who] EXCEPT !.home = q.user.home, !.person = q.person]
              /\ \A u \in Users \ {q.who} : users'[u] = users[u]
          BY <2>3, <2>4, <4>1
        <4>3. users'[q.who].home = q.user.home
          BY <2>4, <4>2 DEF User
        <4>4. QED
          BY <3>1, <4>2, <4>3 DEF SignupLink
      <3>2. CASE SignupRole(s)
        <4>1. users' = [users EXCEPT ![q.who].role = "admin"]
          BY <3>2 DEF SignupRole, SetRole
        <4>2. users'[q.who] = [users[q.who] EXCEPT !.role = "admin"]
              /\ \A u \in Users \ {q.who} : users'[u] = users[u]
          BY <2>3, <2>4, <4>1
        <4>3. users'[q.who].home = users[q.who].home
          BY <2>4, <4>2 DEF User
        <4>4. QED
          BY <4>2, <4>3
      <3>3. QED
        BY <1>5, <3>1, <3>2
    <2>6. bindings' = bindings
      BY <2>3, SameCatalogMoves
    <2>7. ASSUME NEW u \in Users PROVE AccountGoes(u)
      <3>1. CASE u = q.who
        <4>1. Active(u)
          BY <2>1, <3>1 DEF Active
        <4>2. users'[u] = Absent \/ (Registered(u) /\ users'[u] # Absent
                 /\ (users'[u].home = users[u].home \/ Linked(u)))
          BY <2>3, <2>5, <3>1 DEF Linked
        <4>3. QED
          BY <2>6, <4>1, <4>2 DEF AccountGoes
      <3>2. CASE u # q.who
        BY <2>3, <2>5, <2>6, <3>2 DEF AccountGoes, Forgets, Registered
      <3>3. QED
        BY <3>1, <3>2
    <2>8. QED
      BY <2>2, <2>3, <2>7, SameCatalogMoves DEF Moves
  <1>6. CASE SignupLost(s)
    <2>1. RequestsGo /\ UNCHANGED <<store, catalog>>
      BY <1>0, <1>6, EndsMoves DEF SignupLost
    <2>2. UNCHANGED <<users, sessions, passkeys, ceremonies>> /\ bindings' = bindings
      BY <2>1, SameCatalogMoves DEF store
    <2>3. QED
      BY <2>1, <2>2, SameAccountsMove, SameCatalogMoves DEF Moves
  <1>7. CASE BindHousehold(s)
    <2>1. /\ At(s, "bind") /\ q.who \in Users
          /\ UNCHANGED <<users, sessions, passkeys, ceremonies>>
          /\ UNCHANGED <<households, seats, people, known, tokens, devices, photos, objects, granted, owner>>
      BY <1>0, <1>7 DEF BindHousehold, At, ReqOK, OfAccount, store, cameras, captures
    <2>2. Active(q.who)
      BY <2>1 DEF Active, At
    <2>3. \A u \in Users : /\ bindings'[u] = bindings[u] \/ (u = q.who /\ q.user.home # Absent
                                                            /\ bindings'[u] = q.user.home)
      BY <1>7 DEF BindHousehold, Inv, HomesOK
    <2>4. ASSUME NEW u \in Users PROVE AccountGoes(u)
      <3>1. Forgets(u) /\ ~Active(u) => Forgets(u)'
        BY <2>1, <2>2, <2>3 DEF Forgets, Registered
      <3>2. QED
        BY <2>1, <2>3, <3>1 DEF AccountGoes
    <2>5. RequestsGo
      <3>1. CASE Goes(s, "mint")
        BY <1>0, <2>1, <3>1, GoesMoves DEF At, Stages
      <3>2. CASE Ends(s)
        BY <1>0, <3>2, EndsMoves
      <3>3. CASE q.user.home = Absent /\ bindings[q.who] # Absent
                 /\ requests' = [requests EXCEPT ![s].pc = "mint", ![s].user.home = bindings[q.who]]
        <4>1. PICK r : r = [q EXCEPT !.pc = "mint", !.user.home = bindings[q.who]]
          OBVIOUS
        <4>2. r.pc = "mint" /\ r.who = q.who /\ r.photo = q.photo /\ r.user.home = bindings[q.who]
          BY <1>0, <4>1 DEF Request, User
        <4>3. requests'[s] = r /\ \A t \in Slots \ {s} : requests'[t] = requests[t]
          BY <1>0, <3>3, <4>1
        <4>4. Onward(s)
          BY <2>1, <3>3, <4>2, <4>3 DEF Onward, At
        <4>5. QED
          BY <4>3, <4>4 DEF RequestsGo, Becomes
      <3>4. QED
        BY <1>7, <3>1, <3>2, <3>3 DEF BindHousehold
    <2>6. KnownGoes
      BY <2>1 DEF KnownGoes
    <2>7. QED
      BY <2>1, <2>4, <2>5, <2>6, SameHomesMove, SamePeopleMove, SamePhotosMove DEF Moves, CameraGoes
  <1>8. CASE MintFor(s)
    <2>1. /\ At(s, "mint") /\ tokens' = tokens \cup {q.user.home} /\ Ends(s)
          /\ UNCHANGED <<users, sessions, passkeys, ceremonies>>
          /\ UNCHANGED <<households, seats, people, known, bindings, devices, photos, objects, granted, owner>>
      BY <1>8 DEF MintFor, store, homes, captures
    <2>2. RequestsGo
      BY <1>0, <2>1, EndsMoves
    <2>3. \A h \in Homes : HomeGoes(h)
      BY <2>1 DEF HomeGoes
    <2>4. KnownGoes /\ \A c \in Cameras : CameraGoes(c)
      BY <2>1 DEF KnownGoes, CameraGoes
    <2>5. QED
      BY <2>1, <2>2, <2>3, <2>4, SameAccountsMove, SamePeopleMove, SamePhotosMove DEF Moves
  <1>9. CASE Reserve(s) \/ ReserveEnrollment(s) \/ NameEnrollment(s)
    <2> DEFINE x == q.photo
    <2>1. x \in Photos /\ UNCHANGED <<store, homes, cameras, objects>>
      BY <1>0, <1>9 DEF Reserve, ReserveEnrollment, NameEnrollment, At, ReqOK
    <2>2. \A y \in Photos \ {x} : /\ photos'[y] = photos[y] /\ owner'[y] = owner[y]
                                  /\ (y \in granted' => y \in granted)
      BY <1>9, <2>1 DEF Reserve, ReserveEnrollment, NameEnrollment, Inv, CapturesOK, OwnerOK
    <2>3. \A p \in People : owner'[p] = owner[p]
      BY <1>9, <2>1, AccountsAssumption DEF Reserve, ReserveEnrollment, NameEnrollment, Inv, OwnerOK
    <2>4. /\ photos \in [Photos -> {Absent} \cup Photo]
          /\ owner \in [People \cup Photos -> Homes \cup {Absent}]
      BY DEF Inv, CapturesOK, OwnerOK
    <2>5. UNCHANGED <<users, sessions, passkeys, ceremonies, seats, devices, people>>
      BY <2>1 DEF store, homes, cameras
    <2>6. RequestsGo /\ Arrives(x, s)
      <3>1. CASE Reserve(s)
        <4>1. /\ At(s, "reserve") /\ photos'[x] = NewPhoto(q.who)
              /\ owner'[x] = TakenFor(q) /\ Ends(s)
          BY <2>1, <2>4, <3>1 DEF Reserve
        <4>2. QED
          BY <1>0, <2>1, <2>5, <4>1, EndsMoves, IsIdle DEF Arrives
      <3>2. CASE ReserveEnrollment(s)
        <4>1. /\ At(s, "enroll") /\ photos'[x] = NewPhoto(Absent) /\ owner'[x] = owner[x]
              /\ granted' = granted /\ Goes(s, "name")
          BY <2>1, <2>4, <3>2 DEF ReserveEnrollment
        <4>2. NewPhoto(Absent) \in Photo
          BY DEF NewPhoto, Photo
        <4>3. photos'[x] # Absent
          BY <4>1, <4>2, RowAssumption
        <4>4. RequestsGo
          BY <1>0, <4>1, <4>3, GoesMoves DEF At, Stages
        <4>5. requests'[s].pc = "name"
          <5>1. PICK r : r = [q EXCEPT !.pc = "name"]
            OBVIOUS
          <5>2. requests' = [requests EXCEPT ![s] = r] /\ r.pc = "name"
            BY <1>0, <4>1, <5>1 DEF Goes, Request
          <5>3. QED
            BY <1>0, <5>2
        <4>6. QED
          BY <2>1, <2>5, <4>1, <4>4, <4>5 DEF Arrives
      <3>3. CASE NameEnrollment(s)
        <4>1. /\ At(s, "name") /\ Ends(s)
              /\ photos'[x] = IF photos[x] = Absent THEN photos[x]
                              ELSE [photos[x] EXCEPT !.person = q.person]
              /\ owner'[x] = IF q.person \in seats[q.user.home] THEN q.user.home ELSE Absent
          BY <2>1, <2>4, <3>3 DEF NameEnrollment
        <4>2. photos[x] # Absent => /\ photos'[x].person = q.person
                                    /\ photos'[x].device = photos[x].device
          BY <2>1, <2>4, <4>1 DEF Photo
        <4>3. photos'[x] \in {Absent} \cup Photo /\ photos[x] # Absent => photos[x] \in Photo
          BY <2>1, <2>4 DEF Inv, CapturesOK
        <4>4. photos'[x] = Absent <=> photos[x] = Absent
          <5>1. ASSUME photos[x] # Absent PROVE photos'[x] # Absent
            <6>1. photos[x] \in Photo /\ q.person \in People \cup {Absent}
              BY <1>0, <2>1, <2>4, <5>1 DEF Request
            <6>2. photos'[x] = [photos[x] EXCEPT !.person = q.person]
              BY <4>1, <5>1
            <6>3. photos'[x] \in Photo
              BY <6>1, <6>2 DEF Photo
            <6>4. QED
              BY <6>3, RowAssumption
          <5>2. QED
            BY <4>1, <5>1
        <4>5. QED
          BY <1>0, <2>1, <2>5, <4>1, <4>2, <4>4, EndsMoves, IsIdle DEF Arrives
      <3>4. QED
        BY <1>9, <3>1, <3>2, <3>3
    <2>7. \A y \in Photos : PhotoGoes(y)
      BY <2>1, <2>2, <2>6, OnePhoto
    <2>8. QED
      BY <2>1, <2>3, <2>5, <2>6, <2>7, SeatsKept, PersonKept, SameAccountsMove DEF Moves
  <1>10. QED
    BY <1>1, <1>2, <1>3, <1>4, <1>5, <1>6, <1>7, <1>8, <1>9 DEF HouseholdStep

LEMMA PhotoStepMoves ==
    ASSUME Inv, NEW x \in Photos, PhotoStep(x)
    PROVE  Moves
  <1>1. /\ UNCHANGED <<accounts, homes, cameras, owner>> /\ UNCHANGED requests
        /\ UNCHANGED <<users, sessions, passkeys, ceremonies>>
    BY DEF PhotoStep, PutObject, Finalize, GrantEnds, accounts, store
  <1>2. /\ \A y \in Photos : y \in granted' => y \in granted
        /\ \A y \in Photos : y \in objects' => y \in objects \/ y \in granted
    BY DEF PhotoStep, PutObject, Finalize, GrantEnds
  <1>3. ASSUME NEW y \in Photos
        PROVE  /\ photos'[y] = Absent <=> photos[y] = Absent
               /\ photos[y] # Absent => /\ photos'[y].device = photos[y].device
                                        /\ photos'[y].person = photos[y].person
    <2>1. CASE UNCHANGED photos
      BY <2>1
    <2>2. CASE Finalize(x) /\ y = x
      <3>1. /\ photos' = [photos EXCEPT ![x].ready = TRUE] /\ photos[x] # Absent
            /\ photos \in [Photos -> {Absent} \cup Photo] /\ photos[x] \in Photo
        BY <2>2 DEF Finalize, Inv, CapturesOK
      <3>2. photos'[x] = [photos[x] EXCEPT !.ready = TRUE]
        BY <3>1
      <3>3. photos'[x] \in Photo /\ photos'[x].device = photos[x].device
            /\ photos'[x].person = photos[x].person
        BY <3>1, <3>2 DEF Photo
      <3>4. QED
        BY <2>2, <3>1, <3>3, RowAssumption
    <2>3. CASE Finalize(x) /\ y # x
      <3>1. photos' = [photos EXCEPT ![x].ready = TRUE] /\ photos \in [Photos -> {Absent} \cup Photo]
        BY <2>3 DEF Finalize, Inv, CapturesOK
      <3>2. photos'[y] = photos[y]
        BY <2>3, <3>1
      <3>3. QED
        BY <3>2
    <2>4. QED
      BY <2>1, <2>2, <2>3 DEF PhotoStep, PutObject, GrantEnds
  <1>4. \A y \in Photos : PhotoGoes(y)
    BY <1>1, <1>2, <1>3 DEF PhotoGoes, Stays
  <1>5. QED
    BY <1>1, <1>4, SameHomesAndCameras, SameAccountsMove DEF Moves, RequestsGo

LEMMA FacesMove ==
    ASSUME UNCHANGED <<accounts, homes, cameras, photos, objects, granted, owner>>
    PROVE  Moves
  <1>1. UNCHANGED requests /\ UNCHANGED <<users, sessions, passkeys, ceremonies>>
    BY DEF accounts, store
  <1>2. QED
    BY <1>1, SameHomesAndCameras, SamePhotosMove, SameAccountsMove DEF Moves, RequestsGo

LEMMA UpdateHouseholdMoves ==
    ASSUME Inv, Ids, NEW h \in Homes, NEW g \in {SmallGrid, LargeGrid}, NEW S \in SUBSET people,
           UpdateHousehold(h, g, S)
    PROVE  Moves
  <1>1. /\ UNCHANGED <<users, sessions, passkeys, ceremonies, requests>>
        /\ UNCHANGED <<people, known, bindings, tokens, devices, photos, objects, granted>>
    BY DEF UpdateHousehold, accounts, store, cameras, captures
  <1>2. /\ households[h] # Absent
        /\ households' = [households EXCEPT ![h] = g] /\ seats' = [seats EXCEPT ![h] = S]
        /\ \A y \in People \cup Photos :
              owner'[y] = IF y \in Left(S, h) /\ owner[y] = h THEN Absent
                          ELSE IF y \in S /\ owner[y] = Absent THEN h ELSE owner[y]
    BY DEF UpdateHousehold
  <1>3. /\ households \in [Homes -> {Absent, SmallGrid, LargeGrid}]
        /\ seats \in [Homes -> SUBSET People] /\ people \subseteq People
    BY DEF Inv, HomesOK
  <1>4. /\ seats'[h] = S /\ \A k \in Homes \ {h} : seats'[k] = seats[k] /\ households'[k] = households[k]
    BY <1>2, <1>3
  <1>5. \A x \in Photos : x \notin S
    BY <1>3, AccountsAssumption
  <1>6. ASSUME NEW k \in Homes PROVE HomeGoes(k)
    <2>1. CASE k = h
      <3>1. ASSUME NEW p \in seats[h] \ S PROVE owner'[p] # h
        <4>1. p \in People /\ p \in Left(S, h)
          BY <1>3, <3>1 DEF Left
        <4>2. h # Absent
          BY AccountsAssumption
        <4>3. QED
          BY <1>2, <3>1, <4>1, <4>2
      <3>2. ASSUME NEW p \in seats[h] \ S, NEW x \in Photos, photos[x] # Absent, photos[x].person = p
            PROVE  owner'[x] # h
        <4>1. x \in Left(S, h)
          BY <3>2 DEF Left
        <4>2. h # Absent
          BY AccountsAssumption
        <4>3. QED
          BY <1>2, <1>5, <4>1, <4>2
      <3>3. QED
        BY <1>1, <1>2, <1>4, <2>1, <3>1, <3>2 DEF HomeGoes
    <2>2. CASE k # h
      BY <1>1, <1>4, <2>2 DEF HomeGoes
    <2>3. QED
      BY <2>1, <2>2
  <1>7. ASSUME NEW p \in People PROVE PersonGoes(p)
    <2>1. p \in S => p \in known
      BY DEF Ids, ItemIds
    <2>2. owner'[p] = owner[p] \/ owner'[p] = Absent \/ (owner'[p] = h /\ p \in S)
      BY <1>2
    <2>3. QED
      BY <1>1, <1>2, <1>4, <2>1, <2>2 DEF PersonGoes
  <1>8. \A x \in Photos : PhotoGoes(x)
    BY <1>1, <1>2, <1>5 DEF PhotoGoes, Stays
  <1>9. KnownGoes /\ \A c \in Cameras : CameraGoes(c)
    BY <1>1 DEF KnownGoes, CameraGoes
  <1>10. QED
    BY <1>1, <1>6, <1>7, <1>8, <1>9, SameAccountsMove DEF Moves, RequestsGo

LEMMA GivenOutMoves ==
    ASSUME NEW x \in Photos, known' = known \cup {x}, RequestsGo,
           UNCHANGED <<store, households, seats, people, bindings, cameras, captures, owner>>
    PROVE  Moves
  <1>1. UNCHANGED <<users, sessions, passkeys, ceremonies, bindings, tokens, devices, photos,
                    objects, granted>>
    BY DEF store, cameras, captures
  <1>2. KnownGoes
    BY AccountsAssumption DEF KnownGoes
  <1>3. QED
    BY <1>1, <1>2, SameHomesMove, SamePeopleMove, SamePhotosMove, SameAccountsMove
    DEF Moves, CameraGoes

LEMMA HouseholdEventsMove ==
    ASSUME Inv, Ids, HouseholdEvents
    PROVE  Moves
  <1>0. RequestsOK /\ StoreOK /\ requests \in [Slots -> Request]
    BY DEF Inv, RequestsOK
  <1>1. ASSUME RequestsGo, UNCHANGED <<users, sessions, passkeys, ceremonies, catalog>> PROVE Moves
    <2>1. bindings' = bindings
      BY <1>1, SameCatalogMoves
    <2>2. QED
      BY <1>1, <2>1, SameCatalogMoves, SameAccountsMove DEF Moves
  <1>2. ASSUME NEW u \in Users, AddHouseholdPerson(u) \/ MintClaimToken(u) PROVE Moves
    <2>1. UNCHANGED <<users, sessions, passkeys, ceremonies, catalog>>
      BY <1>2 DEF AddHouseholdPerson, MintClaimToken, store
    <2>2. RequestsGo
      BY <1>0, <1>2, BeginsMoves DEF AddHouseholdPerson, MintClaimToken, HouseholdOf
    <2>3. QED
      BY <1>1, <2>1, <2>2
  <1>3. ASSUME NEW u \in Users, Signup(u) PROVE Moves
    <2>1. PICK r : r = Asked("create", u, Absent)
      OBVIOUS
    <2>2. Starts(r)
      <3>1. PICK q : q = [Idle EXCEPT !.pc = "create", !.who = u]
        OBVIOUS
      <3>2. QED
        BY <1>3, <2>1, <3>1, AskedIs DEF Signup
    <2>3. r.pc = "create" /\ r.who = u /\ r.user.home = Absent /\ r.photo = Absent
      BY <2>1, AskedFor DEF NewUser
    <2>4. ASSUME NEW s \in Slots, requests[s] = Idle, requests'[s] = r PROVE Begun(s)
      BY <1>3, <2>3, <2>4 DEF Begun, Signup
    <2>5. RequestsGo
      BY <1>0, <2>2, <2>4, StartsMoves
    <2>6. UNCHANGED <<users, sessions, passkeys, ceremonies, catalog>>
      BY <1>3 DEF Signup, store
    <2>7. QED
      BY <1>1, <2>5, <2>6
  <1>4. ASSUME NEW h \in Homes, NEW g \in {SmallGrid, LargeGrid}, NEW S \in SUBSET people,
               UpdateHousehold(h, g, S)
        PROVE  Moves
    BY <1>4, UpdateHouseholdMoves
  <1>5. CASE Fresh(People) # {} /\ CreatePerson(CHOOSE p \in Fresh(People) : TRUE)
    <2>1. PICK p \in Fresh(People) : p = CHOOSE q \in Fresh(People) : TRUE
      BY <1>5
    <2>2. /\ p \in People /\ p \in Fresh(People) /\ people' = people \cup {p}
          /\ known' = known \cup {p} /\ UNCHANGED <<accounts, households, seats, bindings,
                                                    cameras, captures, owner>>
      BY <1>5, <2>1 DEF CreatePerson, Fresh
    <2>3. /\ UNCHANGED <<users, sessions, passkeys, ceremonies, requests, bindings>>
          /\ UNCHANGED <<tokens, devices, photos, objects, granted>>
      BY <2>2 DEF accounts, store, cameras, captures
    <2>4. KnownGoes
      BY <2>2, AccountsAssumption DEF KnownGoes
    <2>5. \A q \in People : PersonGoes(q)
      BY <2>2 DEF PersonGoes
    <2>6. QED
      BY <2>2, <2>3, <2>4, <2>5, SameHomesMove, SamePhotosMove, SameAccountsMove
      DEF Moves, RequestsGo, CameraGoes
  <1>6. CASE Fresh(Homes) # {} /\ AdminHousehold(CHOOSE h \in Fresh(Homes) : TRUE)
    <2>1. PICK h \in Fresh(Homes) : h = CHOOSE g \in Fresh(Homes) : TRUE
      BY <1>6
    <2>2. h \in Homes /\ CreateHousehold(h) /\ UNCHANGED <<accounts, cameras, captures>>
      BY <1>6, <2>1 DEF AdminHousehold, Fresh
    <2>3. UNCHANGED <<store, cameras, captures, requests>>
      BY <2>2 DEF accounts
    <2>4. QED
      BY <2>2, <2>3, CreateHouseholdMoves DEF Moves, RequestsGo
  <1>7. ASSUME NEW c \in Cameras, NEW h \in Homes, Claim(c, h) PROVE Moves
    <2>1. /\ UNCHANGED <<accounts, homes, captures, owner>> /\ UNCHANGED requests
          /\ UNCHANGED <<users, sessions, passkeys, ceremonies, bindings>>
          /\ UNCHANGED <<households, seats, people, known, photos, objects, granted>>
      BY <1>7 DEF Claim, accounts, store, homes, captures
    <2>2. \A g \in Homes : HomeGoes(g)
      BY <1>7, <2>1 DEF Claim, HomeGoes
    <2>3. \A d \in Cameras : CameraGoes(d)
      BY <1>7 DEF Claim, CameraGoes, Inv, CamerasOK
    <2>4. KnownGoes
      BY <2>1 DEF KnownGoes
    <2>5. QED
      BY <2>1, <2>2, <2>3, <2>4, SamePeopleMove, SamePhotosMove, SameAccountsMove
      DEF Moves, RequestsGo
  <1>8. ASSUME NEW c \in Cameras \cup {Absent}, NEW x \in Photos, Authorize(c, x) PROVE Moves
    <2> DEFINE h == IF c = Absent THEN Absent ELSE devices[c]
               w == AuthenticateDevice(c)
    <2>1. PICK r : r = [Idle EXCEPT !.pc = "reserve", !.photo = x, !.who = AuthenticateDevice(c),
                                    !.user.home = IF c = Absent THEN Absent ELSE devices[c]]
      OBVIOUS
    <2>2. Starts(r)
      BY <1>8, <2>1, Zenon DEF Authorize
    <2>3. r = [pc |-> "reserve", who |-> w, user |-> [home |-> h, person |-> Absent, role |-> "member"],
               person |-> Absent, photo |-> x, by |-> Absent]
      BY <2>1 DEF Idle, NewUser
    <2>4. r.pc = "reserve" /\ r.who = w /\ r.user.home = h /\ r.photo = x
      BY <2>3
    <2>5. (w = Absent /\ h = Absent) \/ (w \in Cameras /\ h = devices[w] /\ devices[w] # Absent)
      BY DEF AuthenticateDevice
    <2>6. x \in Fresh(Photos) /\ known' = known \cup {x}
      BY <1>8 DEF Authorize
    <2> HIDE DEF h, w
    <2>7. ASSUME NEW s \in Slots, requests[s] = Idle, requests'[s] = r PROVE Begun(s)
      BY <2>4, <2>5, <2>6, <2>7 DEF Begun
    <2>8. RequestsGo
      BY <1>0, <2>2, <2>7, StartsMoves
    <2>9. QED
      BY <1>8, <2>6, <2>8, GivenOutMoves DEF Authorize
  <1>9. ASSUME NEW u \in Users, NEW p \in People, NEW x \in Photos, Enroll(u, p, x) PROVE Moves
    <2>1. PICK r : r = [Idle EXCEPT !.pc = "enroll", !.who = u, !.user = users[u],
                                    !.person = p, !.photo = x]
      OBVIOUS
    <2>2. Starts(r)
      BY <1>9, <2>1, Zenon DEF Enroll
    <2>3. r = [pc |-> "enroll", who |-> u, user |-> users[u], person |-> p, photo |-> x, by |-> Absent]
      BY <2>1 DEF Idle
    <2>4. r.pc = "enroll" /\ r.who = u /\ r.user = users[u] /\ r.photo = x
      BY <2>3
    <2>5. x \in Fresh(Photos) /\ known' = known \cup {x} /\ Registered(u)
      BY <1>9 DEF Enroll, Authenticated
    <2>6. ASSUME NEW s \in Slots, requests[s] = Idle, requests'[s] = r PROVE Begun(s)
      BY <2>4, <2>5, <2>6 DEF Begun
    <2>7. RequestsGo
      BY <1>0, <2>2, <2>6, StartsMoves
    <2>8. QED
      BY <1>9, <2>5, <2>7, GivenOutMoves DEF Enroll
  <1>10. ASSUME NEW s \in Slots, SignupUndone(s) PROVE Moves
    <2>1. PICK v \in Users : v = requests[s].who
      BY <1>10 DEF SignupUndone, Inv, RequestsOK, ReqOK, OfAccount
    <2>2. DeleteUser(v) /\ Ends(s) /\ UNCHANGED catalog
      BY <1>10, <2>1 DEF SignupUndone
    <2>3. RequestsGo /\ bindings' = bindings
      BY <1>0, <2>2, EndsMoves, SameCatalogMoves
    <2>4. ASSUME NEW u \in Users PROVE AccountGoes(u)
      <3>1. users' = [users EXCEPT ![v] = Absent] /\ users \in [Users -> {Absent} \cup User]
        BY <2>2 DEF DeleteUser, Inv, StoreOK
      <3>2. users'[u] = users[u] \/ users'[u] = Absent
        BY <3>1
      <3>3. sessions' \subseteq sessions /\ passkeys' \subseteq passkeys
        BY <2>2 DEF DeleteUser
      <3>4. \A c \in Ceremonies : ceremonies'[c].user \in {ceremonies[c].user, Absent}
        BY <2>2 DEF DeleteUser, Forgotten, Gone
      <3>5. u # Absent
        BY AccountsAssumption
      <3>6. Forgets(u) => Forgets(u)'
        BY <2>3, <3>2, <3>3, <3>4, <3>5 DEF Forgets, Registered
      <3>7. QED
        BY <2>3, <3>2, <3>6 DEF AccountGoes
    <2>5. QED
      BY <2>2, <2>3, <2>4, SameCatalogMoves DEF Moves
  <1>11. QED
    BY <1>2, <1>3, <1>4, <1>5, <1>6, <1>7, <1>8, <1>9, <1>10 DEF HouseholdEvents

-----------------------------------------------------------------------------
(* The operator's command                                                  *)

Leaving == {"unbind", "sessions", "passkeys", "ceremonies", "user", "fulfil"}
(* The household is being erased and past the stages before S, or erased.  *)
Past(S) == op.pc \in S \/ (op.pc \in Leaving /\ op.whole)

(* What a command that has been planned knows.                             *)
Planned == /\ op.whole => Home # Absent
           /\ OpAt("peers") => ~op.whole
           /\ op.pc \in Erasing => op.whole
           /\ op.pc \in Linking \cup {"register"} => Home # Absent

(* What a step notes while a deletion runs.                                *)
LEMMA Noted ==
    ASSUME NEW e, Disturbs(e)
    PROVE  /\ disturbed \subseteq disturbed' /\ shuffled \subseteq shuffled'
           /\ Deleting => /\ Joined \cup Upcoming \cup Handed \subseteq disturbed'
                          /\ Moved \subseteq shuffled'
                          /\ Busy \/ (e /\ op' = op) => op.who \in disturbed'
  BY DEF Disturbs

LEMMA NextNotes ==
    ASSUME Next
    PROVE  /\ \E e \in BOOLEAN : Disturbs(e) /\ (Steps \/ (Events /\ e))
           /\ Finished
  BY Zenon DEF Next

(* The command goes on.                                                    *)
Further(pc) == /\ op'.pc = pc /\ op'.who = op.who /\ op'.user = op.user /\ op'.whole = op.whole
               /\ op'.person = op.person /\ op'.widen = op.widen

LEMMA GoesFurther ==
    ASSUME OpOK, NEW pc, OpGoes(pc)
    PROVE  Further(pc) /\ op'.todo = op.todo
  BY DEF OpOK, Command, OpGoes, Further

LEMMA ListsFurther ==
    ASSUME OpOK, NEW pc, NEW S, op' = [op EXCEPT !.pc = pc, !.todo = S]
    PROVE  Further(pc) /\ op'.todo = S
  BY DEF OpOK, Command, Further

(* The stages of a deletion, with the one that follows.                    *)
LEMMA DeletionGoes ==
    ASSUME OpOK, DeletionStep
    PROVE  \/ HouseholdPeers /\ OpEnds
           \/ HouseholdPeers /\ Peers = {} /\ op'.pc = "captures" /\ op'.whole
              /\ op'.who = op.who /\ op'.user = op.user
           \/ HouseholdPeers /\ Peers # {} /\ ~LastAdmin(Peers) /\ Further("unbind")
           \/ ListCaptures /\ Further("taken")
              /\ op'.todo = {x \in Photos : photos[x] # Absent /\ photos[x].person \in seats[Home]}
           \/ ListTaken /\ Further("photos")
              /\ op'.todo = op.todo \cup {x \in Photos : /\ photos[x] # Absent /\ photos[x].device # Absent
                                                         /\ devices[photos[x].device] = Home}
           \/ EraseObject /\ Further("row") /\ op'.todo = op.todo
           \/ EraseRow /\ Further("job") /\ op'.todo = op.todo
           \/ EraseAnalysis /\ Further("photos") /\ op'.todo = op.todo \ {Current}
           \/ ErasedPhotos /\ Further("devices")
           \/ EraseDevices /\ Further("tokens")
           \/ EraseTokens /\ Further("people")
           \/ ErasePeople /\ Further("seats")
           \/ EraseSeats /\ Further("house")
           \/ EraseHousehold /\ Further("unbind")
           \/ Unbind /\ Further("sessions")
           \/ DeleteSessions /\ Further("passkeys")
           \/ DeletePasskeys /\ Further("ceremonies")
           \/ DeleteCeremonies /\ Further("user")
           \/ DeleteUserRow /\ Further("fulfil")
           \/ MarkFulfilled /\ OpEnds
  <1>1. CASE HouseholdPeers
    <2>1. ASSUME op' = [op EXCEPT !.pc = "captures", !.whole = TRUE]
          PROVE  op'.pc = "captures" /\ op'.whole /\ op'.who = op.who /\ op'.user = op.user
      BY <2>1 DEF OpOK, Command
    <2>2. QED
      BY <1>1, <2>1, GoesFurther DEF HouseholdPeers
  <1>2. CASE ListCaptures
    BY <1>2, ListsFurther DEF ListCaptures
  <1>3. CASE ListTaken
    <2>1. PICK S : S = op.todo \cup {x \in Photos : /\ photos[x] # Absent /\ photos[x].device # Absent
                                                    /\ devices[photos[x].device] = Home}
      OBVIOUS
    <2>2. op' = [op EXCEPT !.pc = "photos", !.todo = S]
      BY <1>3, <2>1 DEF ListTaken
    <2>3. QED
      BY <1>3, <2>1, <2>2, ListsFurther
  <1>4. CASE EraseAnalysis
    <2>1. PICK S : S = op.todo \ {Current}
      OBVIOUS
    <2>2. op' = [op EXCEPT !.pc = "photos", !.todo = S]
      BY <1>4, <2>1 DEF EraseAnalysis
    <2>3. QED
      BY <1>4, <2>1, <2>2, ListsFurther
  <1>5. CASE EraseObject \/ EraseRow \/ ErasedPhotos
    BY <1>5, GoesFurther DEF EraseObject, EraseRow, ErasedPhotos
  <1>6. CASE EraseDevices \/ EraseTokens \/ ErasePeople \/ EraseSeats \/ EraseHousehold
    BY <1>6, GoesFurther DEF EraseDevices, EraseTokens, ErasePeople, EraseSeats, EraseHousehold
  <1>7. CASE \/ Unbind \/ DeleteSessions \/ DeletePasskeys \/ DeleteCeremonies \/ DeleteUserRow
             \/ MarkFulfilled
    BY <1>7, GoesFurther DEF Unbind, DeleteSessions, DeletePasskeys, DeleteCeremonies,
                             DeleteUserRow, MarkFulfilled
  <1>8. QED
    BY <1>1, <1>2, <1>3, <1>4, <1>5, <1>6, <1>7 DEF DeletionStep

(* ... and only those.                                                     *)
LEMMA DeletionStages ==
    ASSUME OpOK, DeletionStep
    PROVE  \/ OpEnds /\ op.pc \in {"peers", "fulfil"}
           \/ HouseholdPeers /\ op.pc = "peers" /\ op'.who = op.who /\ op'.user = op.user
              /\ (\/ Peers = {} /\ op'.pc = "captures" /\ op'.whole
                  \/ ~LastAdmin(Peers) /\ Further("unbind"))
           \/ op.pc \in Erasing /\ op'.pc \in Erasing /\ Further(op'.pc)
           \/ op.pc = "house" /\ Further("unbind")
           \/ op.pc \in Leaving \ {"user", "fulfil"} /\ op'.pc \in Leaving \ {"fulfil"}
              /\ Further(op'.pc)
           \/ op.pc = "user" /\ Further("fulfil")
  <1>0. \A pc : Further(pc) => op'.pc = pc /\ op'.who = op.who /\ op'.user = op.user /\ Further(op'.pc)
    BY DEF Further
  <1>1. CASE HouseholdPeers
    BY <1>0, <1>1, DeletionGoes
    DEF HouseholdPeers, ListCaptures, ListTaken, EraseObject, EraseRow, EraseAnalysis, ErasedPhotos,
        EraseDevices, EraseTokens, ErasePeople, EraseSeats, EraseHousehold, Unbind, DeleteSessions,
        DeletePasskeys, DeleteCeremonies, DeleteUserRow, MarkFulfilled, OpAt
  <1>2. CASE ListCaptures
    BY <1>0, <1>2, ListsFurther DEF ListCaptures, OpAt, Erasing
  <1>3. CASE ListTaken \/ EraseAnalysis
    <2>1. PICK S, pc : pc \in Erasing /\ op' = [op EXCEPT !.pc = pc, !.todo = S]
      BY <1>3 DEF ListTaken, EraseAnalysis, Erasing
    <2>2. QED
      BY <1>0, <1>3, <2>1, ListsFurther DEF ListTaken, EraseAnalysis, OpAt, Erasing
  <1>4. CASE EraseObject \/ EraseRow \/ ErasedPhotos \/ EraseDevices \/ EraseTokens \/ ErasePeople
             \/ EraseSeats
    BY <1>0, <1>4, GoesFurther
    DEF EraseObject, EraseRow, ErasedPhotos, EraseDevices, EraseTokens, ErasePeople, EraseSeats, OpAt, Erasing
  <1>5. CASE EraseHousehold \/ DeleteUserRow
    BY <1>0, <1>5, GoesFurther DEF EraseHousehold, DeleteUserRow, OpAt
  <1>6. CASE Unbind \/ DeleteSessions \/ DeletePasskeys \/ DeleteCeremonies
    BY <1>0, <1>6, GoesFurther
    DEF Unbind, DeleteSessions, DeletePasskeys, DeleteCeremonies, OpAt, Leaving
  <1>7. CASE MarkFulfilled
    BY <1>7 DEF MarkFulfilled, OpAt
  <1>8. QED
    BY <1>1, <1>2, <1>3, <1>4, <1>5, <1>6, <1>7 DEF DeletionStep

LEMMA RestIs == Rest.pc = "rest" /\ Rest.who = Absent /\ Rest.user = NewUser /\ ~Rest.whole
                /\ Rest.todo = {}
  BY DEF Rest

LEMMA LinkGoes ==
    ASSUME Inv, LinkStep
    PROVE  /\ op.pc \in Linking
           /\ \/ OpEnds
              \/ /\ op'.pc \in Linking \ {"role", "point"} /\ ~LinkHousehold /\ ~SetHouseholdRole
                 /\ op'.who = op.who /\ op'.user = op.user /\ op'.whole = op.whole
              \/ (LinkHousehold /\ Further("role")) \/ (SetHouseholdRole /\ Further("point"))
  <1>0. OpOK
    BY DEF Inv
  <1>1. CASE WidenGrid
    BY <1>0, <1>1, GoesFurther
    DEF WidenGrid, LinkHousehold, SetHouseholdRole, Further, Linking, OpAt
  <1>2. CASE SeatPerson
    <2>1. PICK next : next = [op EXCEPT !.pc = "link"]
      OBVIOUS
    <2>2. op.pc = "seat" /\ (op' = next \/ OpEnds)
      BY <1>2, <2>1 DEF SeatPerson, Seats, OpAt
    <2>3. ASSUME op' = next PROVE Further("link")
      BY <1>0, <2>1, <2>3, GoesFurther DEF OpGoes
    <2>4. QED
      BY <2>2, <2>3 DEF LinkHousehold, SetHouseholdRole, Further, Linking, OpAt
  <1>3. CASE SeatMembers
    <2>1. PICK next : next = IF op.todo = {Current} THEN Rest ELSE [op EXCEPT !.todo = op.todo \ {Current}]
      OBVIOUS
    <2>2. op.pc = "members" /\ (op' = next \/ OpEnds)
      BY <1>3, <2>1 DEF SeatMembers, Seats, OpAt
    <2>3. CASE op' = next /\ next # Rest
      <3>1. PICK S : S = op.todo \ {Current}
        OBVIOUS
      <3>2. op \in Command /\ op' = [op EXCEPT !.todo = S]
        BY <1>0, <2>1, <2>3, <3>1 DEF OpOK
      <3>3. op'.pc = op.pc /\ op'.who = op.who /\ op'.user = op.user /\ op'.whole = op.whole
        BY <3>2 DEF Command
      <3>4. QED
        BY <2>2, <3>3 DEF LinkHousehold, SetHouseholdRole, Linking, OpAt
    <2>4. QED
      BY <2>2, <2>3 DEF OpEnds, Linking
  <1>4. CASE LinkHousehold
    BY <1>0, <1>4, GoesFurther DEF LinkHousehold, Linking, OpAt
  <1>5. CASE SetHouseholdRole
    BY <1>0, <1>5, GoesFurther DEF SetHouseholdRole, Linking, OpAt
  <1>6. CASE PointBinding
    BY <1>0, <1>6, GoesFurther
    DEF PointBinding, LinkHousehold, SetHouseholdRole, Further, Linking, OpAt
  <1>7. CASE LinkLost
    BY <1>7 DEF LinkLost, Linking
  <1>8. QED
    BY <1>1, <1>2, <1>3, <1>4, <1>5, <1>6, <1>7 DEF LinkStep

(* A deletion begins with what the command read.                           *)
Fetched == /\ op'.who \in Users /\ Registered(op'.who) /\ op'.user = users[op'.who] /\ ~op'.whole
           /\ \/ op'.pc = "unbind" /\ op'.user.home = Absent
              \/ op'.pc = "peers" /\ op'.user.home # Absent

LEMMA Fetches ==
    ASSUME NEW u \in Users, DeleteAccount(u)
    PROVE  Fetched
  <1>1. PICK pc, v : pc = (IF users[u].home = Absent THEN "unbind" ELSE "peers") /\ v = users[u]
    OBVIOUS
  <1>2. op' = [Rest EXCEPT !.pc = pc, !.who = u, !.user = v] /\ Registered(u)
    BY <1>1 DEF DeleteAccount
  <1>3. op'.pc = pc /\ op'.who = u /\ op'.user = v /\ op'.whole = FALSE
    BY <1>2 DEF Rest
  <1>4. QED
    BY <1>1, <1>2, <1>3 DEF Fetched

(* A link, or the registration of a camera, begins with what is there.     *)
Read == /\ op'.pc \in {"widen", "register"} /\ ~op'.whole
        /\ op'.who \in Users /\ Registered(op'.who)
        /\ op'.user.home \in Homes /\ households[op'.user.home] # Absent

LEMMA StartsGo ==
    ASSUME Inv, OpStarts
    PROVE  /\ op = Rest \/ OpAt("again")
           /\ Fetched \/ Read
  <1>1. ASSUME NEW u \in Users, op = Rest, DeleteAccount(u) PROVE Fetched
    BY <1>1, Fetches
  <1>2. ASSUME NEW u \in Users, NEW c \in Cameras, PlanRegister(u, c) PROVE Read
    <2>1. PICK v : v = users[u]
      OBVIOUS
    <2>2. /\ op' = [Rest EXCEPT !.pc = "register", !.who = u, !.user = v, !.todo = {c}]
          /\ v.home \in Homes /\ households[v.home] # Absent /\ Registered(u)
      BY <1>2, <2>1 DEF PlanRegister, HouseholdOf, Surveyed
    <2>3. op'.pc = "register" /\ op'.who = u /\ op'.user = v /\ op'.whole = FALSE
      BY <2>2 DEF Rest
    <2>4. QED
      BY <2>2, <2>3 DEF Read
  <1>3. ASSUME NEW u \in Users, NEW h \in Homes, NEW p \in People, NEW role \in {"admin", "member"},
               NEW S, PlanLink(u, h, p, role, S)
        PROVE  Read
    <2>1. PICK w, v : /\ w = (Wanted(h, S \cup {p}) > households[h])
                      /\ v = [home |-> h, person |-> p, role |-> role]
      OBVIOUS
    <2>2. /\ op' = [Rest EXCEPT !.pc = "widen", !.who = u, !.person = p, !.todo = S, !.user = v,
                                !.widen = w]
          /\ h \in Homes /\ households[h] # Absent /\ Registered(u)
      BY <1>3, <2>1 DEF PlanLink, Surveyed
    <2>3. op'.pc = "widen" /\ op'.who = u /\ op'.user = v /\ op'.whole = FALSE
      BY <2>2 DEF Rest
    <2>4. QED
      BY <2>1, <2>2, <2>3 DEF Read
  <1>4. op = Rest \/ OpAt("again")
    BY DEF OpStarts, PlanRegister, PlanLink
  <1>5. QED
    BY <1>1, <1>2, <1>3, <1>4 DEF OpStarts

(* It stops, to be run again when it deletes an account.                   *)
Stopped == op' = Rest \/ (op'.pc = "again" /\ op'.who = op.who /\ op'.user = NewUser /\ ~op'.whole)

LEMMA FailsGo == ASSUME OpFails PROVE Stopped /\ (Deleting => op'.pc = "again") /\ ~OpAt("again")
  <1>1. ASSUME NEW u, op' = [Rest EXCEPT !.pc = "again", !.who = u]
        PROVE  op'.pc = "again" /\ op'.who = u /\ op'.user = NewUser /\ ~op'.whole
    BY <1>1 DEF Rest
  <1>2. PICK u : u = op.who
    OBVIOUS
  <1>3. op' = Rest \/ (Deleting /\ op' = [Rest EXCEPT !.pc = "again", !.who = u])
    BY <1>2 DEF OpFails
  <1>4. Deleting => op' # Rest
    <2>1. [Rest EXCEPT !.pc = "again", !.who = u].pc = "again"
      BY DEF Rest
    <2>2. QED
      BY <1>2, <2>1, RestIs DEF OpFails
  <1>5. QED
    BY <1>1, <1>2, <1>3, <1>4 DEF Stopped, OpFails

LEMMA AgainGoes == ASSUME Inv, RunAgain PROVE Fetched \/ OpEnds
  <1>1. op.who \in Users
    BY DEF Inv, OpOK, RunAgain, OpAt
  <1>2. QED
    BY <1>1, Fetches DEF RunAgain

(* What a step of anything but a deletion makes of the command.            *)
Elsewhere == /\ op'.pc \notin Erasing
             /\ op'.pc \in Leaving \cup {"peers"} => Fetched /\ UNCHANGED <<store, catalog>>
             /\ op'.pc \in Leaving => op'.pc = "unbind" /\ op'.user.home = Absent

LEMMA FetchedElsewhere == ASSUME Fetched, UNCHANGED <<store, catalog>> PROVE Elsewhere
  BY DEF Fetched, Elsewhere, Erasing, Leaving

LEMMA EndedElsewhere == ASSUME op'.pc \in Linking \cup {"rest", "register", "again"} PROVE Elsewhere
  BY DEF Elsewhere, Erasing, Leaving, Linking

LEMMA OthersGo ==
    ASSUME Inv, LinkStep \/ RegisterDevice \/ RunAgain \/ OpStarts \/ OpFails
    PROVE  Elsewhere
  <1>1. CASE LinkStep
    BY <1>1, LinkGoes, EndedElsewhere, RestIs DEF OpEnds, Further, Linking
  <1>2. CASE RegisterDevice
    BY <1>2, EndedElsewhere, RestIs DEF RegisterDevice, OpEnds
  <1>3. CASE RunAgain
    BY <1>3, AgainGoes, FetchedElsewhere, EndedElsewhere, RestIs DEF OpEnds, RunAgain
  <1>4. CASE OpStarts
    BY <1>4, StartsGo, FetchedElsewhere, EndedElsewhere DEF Read, Linking, OpStarts, accounts
  <1>5. CASE OpFails
    BY <1>5, FailsGo, EndedElsewhere, RestIs DEF Stopped
  <1>6. QED
    BY <1>1, <1>2, <1>3, <1>4, <1>5

LEMMA PlannedKept ==
    ASSUME Inv, Planned, OpStep \/ OpStarts \/ OpFails
    PROVE  Planned'
  <1>0. OpOK
    BY DEF Inv
  <1>1. Rest.user.home = Absent /\ NewUser.home = Absent
    BY RestIs DEF NewUser
  <1>2. CASE OpEnds
    BY <1>2, RestIs DEF OpEnds, Planned, Home, OpAt, Linking, Erasing
  <1>3. CASE DeletionStep
    <2>1. OpAt("peers") => Home # Absent
      BY <1>0, AccountsAssumption DEF OpOK, OpAt
    <2>2. QED
      BY <1>0, <1>2, <1>3, <2>1, DeletionStages
      DEF Further, Planned, Home, OpAt, Erasing, Leaving, Linking
  <1>4. CASE LinkStep
    BY <1>2, <1>4, LinkGoes DEF Planned, Home, OpAt, Linking, Erasing, Further
  <1>5. CASE Fetched
    BY <1>5 DEF Fetched, Planned, Home, OpAt, Linking, Erasing
  <1>6. CASE OpStarts /\ Read
    BY <1>6, AccountsAssumption DEF Read, Planned, Home, OpAt, Linking, Erasing
  <1>7. CASE OpFails
    BY <1>1, <1>7, FailsGo, RestIs DEF Stopped, Planned, Home, OpAt, Linking, Erasing
  <1>8. QED
    BY <1>2, <1>3, <1>4, <1>5, <1>6, <1>7, AgainGoes, StartsGo DEF OpStep, RegisterDevice

-----------------------------------------------------------------------------
(* The administrators                                                      *)

Marked == disturbed \cup shuffled
(* The account is what the command read of it, unless it was given another *)
(* household or role meanwhile.                                            *)
Itself ==
    Deleting /\ ~OpAt("fulfil") /\ Registered(op.who) =>
        \/ users[op.who].home \in Marked \cup {Absent}
        \/ users[op.who].home = Home /\ users[op.who].role = op.user.role
(* A household that is not erased had another administrator, ...           *)
AnotherAdmin ==
    /\ op.pc \in Leaving \ {"fulfil"} /\ ~op.whole
    /\ Home \notin Marked \cup {Absent} /\ op.user.role = "admin"
    => Admins(Home) \ {op.who} # {}
(* ... one that is erased nobody else.                                     *)
NobodyElse == Past(Erasing) /\ Home \notin Marked => Accountants(Home) \subseteq {op.who}

AdminInv == Planned /\ Itself /\ AnotherAdmin /\ NobodyElse

(* Accounts that change without the operator leave a mark.                 *)
LEMMA AdminsMove ==
    ASSUME Inv, Inv', AdminInv, op' = op, NEW e, Disturbs(e)
    PROVE  AdminInv'
  <1>1. PICK k, a : k = Home /\ a = op.who
    OBVIOUS
  <1>2. Home' = k /\ op'.who = a /\ Marked \subseteq Marked'
    BY <1>1, Noted DEF Home, Marked
  <1>3. ASSUME Deleting, NEW h \in Homes, h \notin Marked'
        PROVE  Accountants(h)' = Accountants(h) /\ Admins(h)' = Admins(h)
    <2>1. h \notin Moved
      BY <1>3, Noted DEF Marked
    <2>2. QED
      BY <1>3, <2>1 DEF Moved
  <1>4. Planned'
    BY <1>2 DEF AdminInv, Planned, Home, OpAt
  <1>5. Itself'
    <2>1. SUFFICES ASSUME Deleting, op.pc # "fulfil", users'[a] # Absent,
                          users'[a].home \notin Marked' \cup {Absent}
                   PROVE  users'[a].home = k /\ users'[a].role = op.user.role
      BY <1>1, <1>2 DEF Itself, Deleting, OpAt, Registered, Home
    <2>2. PICK h : h = users'[a].home
      OBVIOUS
    <2>3. a \in Users /\ users' \in [Users -> {Absent} \cup User]
      BY <1>1, <2>1 DEF Inv, StoreOK, OpOK, Deleting
    <2>4. users'[a] \in User
      BY <2>1, <2>3
    <2>5. h \in Homes /\ h \notin Marked'
      BY <2>1, <2>2, <2>4 DEF User
    <2>6. a \in Accountants(h)'
      BY <2>1, <2>2, <2>3 DEF Accountants, HasHome, Registered
    <2>7. a \in Accountants(h)
      BY <1>3, <2>1, <2>5, <2>6
    <2>8. Registered(a) /\ users[a].home = h /\ users[a] \in User
      BY <2>7 DEF Accountants, HasHome, Registered, Inv, StoreOK
    <2>9. h = k /\ users[a].role = op.user.role
      <3>1. h \notin Marked \cup {Absent}
        BY <1>2, <2>5, AccountsAssumption
      <3>2. QED
        BY <1>1, <2>1, <2>8, <3>1 DEF AdminInv, Itself, OpAt
    <2>10. users'[a].role = "admin" <=> users[a].role = "admin"
      <3>1. a \in Admins(h)' <=> a \in Admins(h)
        BY <1>3, <2>1, <2>5
      <3>2. QED
        BY <2>6, <2>7, <3>1 DEF Admins
    <2>11. users'[a].role \in {"admin", "member"} /\ users[a].role \in {"admin", "member"}
      BY <2>4, <2>8 DEF User
    <2>12. QED
      BY <2>2, <2>9, <2>10, <2>11
  <1>6. k \in Homes \cup {Absent}
    BY <1>1 DEF Inv, OpOK, Command, User, Home
  <1>7. AnotherAdmin'
    <2>1. SUFFICES ASSUME op.pc \in Leaving \ {"fulfil"}, ~op.whole, k \notin Marked' \cup {Absent},
                          op.user.role = "admin"
                   PROVE  Admins(k)' \ {a} # {}
      BY <1>1, <1>2 DEF AnotherAdmin
    <2>2. Deleting
      BY <2>1 DEF Leaving, Deleting, Deletion
    <2>3. Admins(k)' = Admins(k)
      BY <1>3, <1>6, <2>1, <2>2
    <2>4. Admins(k) \ {a} # {}
      BY <1>1, <1>2, <2>1 DEF AdminInv, AnotherAdmin
    <2>5. QED
      BY <2>3, <2>4
  <1>8. NobodyElse'
    <2>1. SUFFICES ASSUME Past(Erasing), k \notin Marked'
                   PROVE  Accountants(k)' \subseteq {a}
      BY <1>1, <1>2 DEF NobodyElse, Past
    <2>2. Deleting
      BY <2>1 DEF Past, Leaving, Erasing, Deleting, Deletion
    <2>3. k # Absent
      <3>1. op.pc \in Erasing => Home \in Homes
        BY DEF Inv, OpOK
      <3>2. QED
        BY <1>1, <2>1, <3>1, AccountsAssumption DEF Past, AdminInv, Planned
    <2>4. Accountants(k)' = Accountants(k)
      BY <1>3, <1>6, <2>1, <2>2, <2>3
    <2>5. Accountants(k) \subseteq {a}
      BY <1>1, <1>2, <2>1 DEF AdminInv, NobodyElse
    <2>6. QED
      BY <2>4, <2>5
  <1>9. QED
    BY <1>4, <1>5, <1>7, <1>8 DEF AdminInv

LEMMA AdminsElsewhere ==
    ASSUME Inv, AdminInv, Elsewhere, Planned', NEW e, Disturbs(e)
    PROVE  AdminInv'
  <1>1. op'.pc \in Deletion => op'.pc \in Leaving \cup {"peers"}
    BY DEF Elsewhere, Deletion, Erasing, Leaving
  <1>2. Itself'
    <2>1. SUFFICES ASSUME Deleting' PROVE users'[op'.who] = op'.user
      BY DEF Itself, Home
    <2>2. Fetched /\ UNCHANGED store
      BY <1>1, <2>1 DEF Elsewhere, Deleting
    <2>3. QED
      BY <2>2 DEF Fetched, store
  <1>3. AnotherAdmin'
    BY DEF AnotherAdmin, Elsewhere, Home
  <1>4. NobodyElse'
    BY DEF NobodyElse, Past, Elsewhere, Fetched
  <1>5. QED
    BY <1>2, <1>3, <1>4 DEF AdminInv

LEMMA AdminsDeleting ==
    ASSUME Inv, AdminInv, DeletionStep, Planned', NEW e, Disturbs(e)
    PROVE  AdminInv'
  <1>0. OpOK
    BY DEF Inv
  <1>1. CASE OpEnds
    BY <1>1, RestIs
    DEF OpEnds, AdminInv, Itself, AnotherAdmin, NobodyElse, Past, Deleting, Deletion, Leaving, Erasing
  <1>2. PICK k, a : k = Home /\ a = op.who
    OBVIOUS
  <1>3. Marked \subseteq Marked'
    BY Noted DEF Marked
  <1>4. Deleting /\ (users' = users \/ (DeleteUserRow /\ Further("fulfil")))
    <2>1. CASE DeleteUserRow
      BY <1>0, <2>1, GoesFurther DEF DeleteUserRow, OpAt, Deleting, Deletion
    <2>2. CASE ~DeleteUserRow
      <3>1. users' = users
        BY <2>2 DEF DeletionStep, HouseholdPeers, ListCaptures, ListTaken, EraseObject, EraseRow,
           EraseAnalysis, ErasedPhotos, EraseDevices, EraseTokens, ErasePeople, EraseSeats,
           EraseHousehold, Unbind, DeleteSessions, DeletePasskeys, DeleteCeremonies,
           MarkFulfilled, store
      <3>2. Deleting
        BY <2>2 DEF DeletionStep, HouseholdPeers, ListCaptures, ListTaken, EraseObject, EraseRow,
           EraseAnalysis, ErasedPhotos, EraseDevices, EraseTokens, ErasePeople, EraseSeats,
           EraseHousehold, Unbind, DeleteSessions, DeletePasskeys, DeleteCeremonies,
           MarkFulfilled, OpAt, Deleting, Deletion
      <3>3. QED
        BY <3>1, <3>2
    <2>3. QED
      BY <2>1, <2>2
  <1>5. CASE ~OpEnds
    <2>1. op'.who = a /\ Home' = k /\ op'.user = op.user
      BY <1>0, <1>2, <1>5, DeletionStages DEF Further, Home
    <2>2. /\ op'.pc \in Leaving \ {"fulfil"} /\ ~op'.whole =>
                \/ op.pc \in Leaving \ {"fulfil"} /\ ~op.whole
                \/ HouseholdPeers /\ ~LastAdmin(Peers)
          /\ op'.pc = "fulfil" \/ op.pc # "user"
          /\ op.pc # "fulfil"
      BY <1>0, <1>5, DeletionStages DEF Further, Leaving, Erasing, AdminInv, Planned
    <2>p. Past(Erasing)' => Past(Erasing) \/ (HouseholdPeers /\ Peers = {})
      BY <1>0, <1>5, DeletionStages DEF Further, Past, Leaving, Erasing, AdminInv, Planned, OpAt
    <2>3. Itself'
      <3>1. SUFFICES ASSUME users' = users, Registered(a)
                     PROVE  users[a].home \in Marked \cup {Absent}
                            \/ (users[a].home = k /\ users[a].role = op.user.role)
        BY <1>3, <1>4, <2>1, <2>2 DEF Itself, OpAt, Further, Registered
      <3>2. QED
        BY <1>2, <1>4, <2>2, <3>1 DEF AdminInv, Itself, OpAt
    <2>4. AnotherAdmin'
      <3>1. SUFFICES ASSUME op'.pc \in Leaving \ {"fulfil"}, ~op'.whole, k \notin Marked \cup {Absent},
                            op.user.role = "admin"
                     PROVE  Admins(k)' \ {a} # {}
        BY <1>3, <2>1 DEF AnotherAdmin
      <3>2. users' = users
        BY <1>4, <3>1 DEF Further
      <3>3. Admins(k)' = Admins(k)
        BY <3>2 DEF Admins, Accountants, HasHome, Registered
      <3>4. CASE HouseholdPeers /\ ~LastAdmin(Peers)
        BY <1>2, <3>1, <3>3, <3>4 DEF LastAdmin, Peers, Admins
      <3>5. CASE op.pc \in Leaving \ {"fulfil"} /\ ~op.whole
        BY <1>2, <3>1, <3>3, <3>5 DEF AdminInv, AnotherAdmin
      <3>6. QED
        BY <2>2, <3>1, <3>4, <3>5
    <2>5. NobodyElse'
      <3>1. SUFFICES ASSUME Past(Erasing)', k \notin Marked PROVE Accountants(k)' \subseteq {a}
        BY <1>3, <2>1 DEF NobodyElse
      <3>2. Accountants(k)' \subseteq Accountants(k)
        <4>1. CASE users' = users
          BY <4>1 DEF Accountants, HasHome, Registered
        <4>2. CASE DeleteUserRow
          <5>1. users' = [users EXCEPT ![a] = Absent] /\ users \in [Users -> {Absent} \cup User]
            BY <1>2, <4>2 DEF DeleteUserRow, Inv, StoreOK
          <5>2. \A u \in Users : users'[u] # Absent => users'[u] = users[u]
            BY <5>1
          <5>3. QED
            BY <5>2 DEF Accountants, HasHome, Registered
        <4>3. QED
          BY <1>4, <4>1, <4>2
      <3>3. Accountants(k) \subseteq {a}
        BY <1>2, <2>p, <3>1 DEF AdminInv, NobodyElse, Peers
      <3>4. QED
        BY <3>2, <3>3
    <2>6. QED
      BY <2>3, <2>4, <2>5 DEF AdminInv
  <1>6. QED
    BY <1>1, <1>5, Zenon DEF AdminInv

LEMMA NextKinds ==
    ASSUME Steps \/ Events
    PROVE  op' = op \/ (OpStep /\ UNCHANGED requests) \/ OpStarts \/ OpFails
  BY Zenon DEF Steps, Events

LEMMA AdminsKept ==
    ASSUME Inv, Inv', AdminInv, [Next]_vars
    PROVE  AdminInv'
  <1>1. CASE UNCHANGED vars
    BY <1>1 DEF vars, accounts, store, AdminInv, Planned, Itself, AnotherAdmin, NobodyElse, Home, OpAt,
       Deleting, Past, Marked, Registered, Admins, Accountants, HasHome
  <1>2. CASE Next
    <2>1. PICK e \in BOOLEAN : Disturbs(e) /\ (Steps \/ Events)
      BY <1>2, NextNotes
    <2>2. CASE op' = op
      BY <2>1, <2>2, AdminsMove
    <2>3. CASE OpStep \/ OpStarts \/ OpFails
      <3>1. Planned'
        BY <2>3, PlannedKept DEF AdminInv
      <3>2. QED
        BY <2>1, <2>3, <3>1, AdminsDeleting, AdminsElsewhere, OthersGo DEF OpStep
    <2>4. QED
      BY <2>1, <2>2, <2>3, NextKinds
  <1>3. QED
    BY <1>1, <1>2

LEMMA AdminsInit == ASSUME Init PROVE AdminInv
  <1>1. CASE op = Rest
    BY <1>1, RestIs DEF AdminInv, Planned, Itself, AnotherAdmin, NobodyElse, Past, Deleting, Deletion,
       Leaving, Erasing, Linking, OpAt
  <1>2. CASE op = [Rest EXCEPT !.pc = "peers", !.who = FirstUser, !.user = users[FirstUser]]
    <2>1. PICK u, v : u = FirstUser /\ v = users[FirstUser]
      OBVIOUS
    <2>2. op = [Rest EXCEPT !.pc = "peers", !.who = u, !.user = v]
      BY <1>2, <2>1
    <2>3. op.pc = "peers" /\ op.who = u /\ op.user = v /\ op.whole = FALSE
      BY <2>2 DEF Rest
    <2>4. QED
      BY <2>1, <2>3 DEF AdminInv, Planned, Itself, AnotherAdmin, NobodyElse, Past, Deleting, Deletion,
         Leaving, Erasing, Linking, OpAt, Home
  <1>3. QED
    BY <1>1, <1>2 DEF Init

(* Whoever has an account in a household that is left keeps somebody who   *)
(* may administer it: a deletion takes the last administrator's account    *)
(* (delete_account) only together with the household, unless accounts      *)
(* joined, left or got another role while it ran.                          *)
THEOREM AdministratorRemains == Spec => AdminRemains
  <1>1. ASSUME Inv, AdminInv, [Next]_vars, NEW h \in Homes \ (disturbed \cup shuffled),
               OpAt("user"), op' # op, Admins(h) # {}, Admins(h)' = {}
        PROVE  ~Shared(h)
    <2>0. OpOK /\ op # Rest /\ h # Absent
      BY <1>1, RestIs, AccountsAssumption DEF Inv, OpAt
    <2>1. Next
      BY <1>1 DEF vars
    <2>2. OpStep \/ OpFails
      <3>1. op = Rest \/ OpAt("again") \/ ~OpStarts
        BY <1>1, StartsGo
      <3>2. QED
        BY <1>1, <2>0, <2>1, <3>1, NextNotes, NextKinds DEF OpAt
    <2>3. DeletionStep
      <3>1. ~OpFails
        <4>1. OpFails => users' = users
          BY DEF OpFails, accounts, store
        <4>2. users' = users => Admins(h)' = Admins(h)
          BY DEF Admins, Accountants, HasHome, Registered
        <4>3. QED
          BY <1>1, <4>1, <4>2
      <3>2. ~LinkStep /\ ~RegisterDevice /\ ~RunAgain
        BY <1>1, LinkGoes DEF RegisterDevice, RunAgain, OpAt, Linking
      <3>3. QED
        BY <2>2, <3>1, <3>2 DEF OpStep
    <2>4. DeleteUserRow
      BY <1>1, <2>3 DEF DeletionStep, HouseholdPeers, ListCaptures, ListTaken, EraseObject, EraseRow,
         EraseAnalysis, ErasedPhotos, EraseDevices, EraseTokens, ErasePeople, EraseSeats,
         EraseHousehold, Unbind, DeleteSessions, DeletePasskeys, DeleteCeremonies,
         MarkFulfilled, OpAt
    <2>5. PICK a : a = op.who
      OBVIOUS
    <2>6. /\ users' = [users EXCEPT ![a] = Absent] /\ users \in [Users -> {Absent} \cup User]
          /\ a \in Users
      BY <1>1, <2>0, <2>4, <2>5 DEF DeleteUserRow, Inv, StoreOK, OpOK, OpAt, Deletion
    <2>7. \A u \in Users \ {a} : u \in Admins(h) => u \in Admins(h)'
      BY <2>6 DEF Admins, Accountants, HasHome, Registered
    <2>8. Admins(h) = {a}
      <3>1. Admins(h) \subseteq Users
        BY DEF Admins, Accountants
      <3>2. QED
        BY <1>1, <2>7, <3>1
    <2>9. Registered(a) /\ users[a].home = h /\ users[a].role = "admin"
      BY <2>8 DEF Admins, Accountants, HasHome
    <2>10. Home = h /\ op.user.role = "admin"
      BY <1>1, <2>0, <2>5, <2>9 DEF AdminInv, Itself, Deleting, Deletion, OpAt, Marked
    <2>11. op.whole
      BY <1>1, <2>0, <2>5, <2>8, <2>10 DEF AdminInv, AnotherAdmin, Leaving, OpAt, Marked
    <2>12. Accountants(Home) \subseteq {op.who}
      BY <1>1, <2>10, <2>11 DEF AdminInv, NobodyElse, Past, Leaving, OpAt, Marked
    <2>13. QED
      BY <2>10, <2>12 DEF Shared
  <1> DEFINE Remains ==
         \A h \in Homes \ (disturbed \cup shuffled) :
             OpAt("user") /\ op' # op /\ Admins(h) # {} /\ Admins(h)' = {} => ~Shared(h)
  <1>2. Inv /\ AdminInv /\ [Next]_vars => Remains
    BY <1>1
  <1>3. Inv /\ [Next]_vars => Inv'
    BY NextOK
  <1>4. Inv /\ AdminInv /\ [Next]_vars => (Inv /\ AdminInv)'
    BY <1>3, AdminsKept
  <1>5. Init => Inv /\ AdminInv
    BY InitOK, AdminsInit
  <1>6. Spec => [](Inv /\ AdminInv)
    BY <1>4, <1>5, PTL DEF Spec
  <1>7. [](Inv /\ AdminInv) /\ [][Next]_vars => [][Remains]_vars
    BY <1>2, PTL
  <1>8. QED
    BY <1>6, <1>7, PTL DEF Spec, AdminRemains

-----------------------------------------------------------------------------
(* The ids                                                                 *)

LEMMA NextMoves ==
    ASSUME Inv, Inv', Ids, Steps \/ Events
    PROVE  \/ op' = op /\ Moves
           \/ OpStep /\ UNCHANGED requests
           \/ OpStarts \/ OpFails
  <1>1. CASE Requests /\ UNCHANGED op
    BY <1>1, AccountStepMoves, HouseholdStepMoves DEF Requests
  <1>2. CASE (\E x \in Photos : PhotoStep(x)) /\ UNCHANGED op
    BY <1>2, PhotoStepMoves
  <1>3. ASSUME NEW x \in Photos, FaceStep(x) PROVE Moves
    BY <1>3, FacesMove DEF FaceStep, Complete
  <1>4. CASE FaceEvents /\ UNCHANGED op
    <2>1. UNCHANGED <<accounts, catalog>>
      BY <1>4, Zenon DEF FaceEvents, RefreshFaceSuggestions, AssignFace
    <2>2. QED
      <3>1. UNCHANGED <<homes, cameras, photos, objects, granted, owner>>
        BY <2>1 DEF catalog, captures
      <3>2. QED
        BY <1>4, <2>1, <3>1, FacesMove
  <1>5. CASE AccountEvents /\ UNCHANGED <<catalog, op>>
    BY <1>5, AccountEventsMove
  <1>6. CASE HouseholdEvents /\ UNCHANGED op
    BY <1>6, HouseholdEventsMove
  <1>7. CASE (\E s \in Slots : RequestFails(s)) /\ UNCHANGED <<catalog, op>>
    BY <1>7, FailureMoves
  <1>8. QED
    BY <1>1, <1>2, <1>3, <1>4, <1>5, <1>6, <1>7, Zenon DEF Steps, Events

(* Nothing is erased but where a deletion ends.                            *)
LEMMA ErasedAt ==
    ASSUME Finished, erased' # erased
    PROVE  /\ OpAt("fulfil") /\ op' = Rest /\ op.who \notin disturbed'
           /\ erased' = erased \cup {op.who} \cup (IF op.whole THEN {Home} ELSE {})
  BY DEF Finished

LEMMA ErasedStays ==
    ASSUME Finished
    PROVE  erased \subseteq erased' /\ (op' = op => erased' = erased)
  BY RestIs DEF Finished, OpAt

LEMMA IdsMove ==
    ASSUME Inv, Inv', Ids, Moves, op' = op, Finished
    PROVE  Ids'
  <1>0. /\ known \subseteq known' /\ \A u \in Users : u \in known' => u \in known \/ Created(u)
        /\ erased' = erased /\ op' = op
    BY ErasedStays DEF Moves, KnownGoes
  <1>a. \A s \in Slots : /\ ReqOK(requests[s]) /\ requests[s] \in Request
                         /\ RequestIds(s)
    BY DEF Inv, RequestsOK, ReqOK, Ids
  <1>b. ASSUME NEW s \in Slots PROVE Becomes(s) \/ requests'[s] = requests[s]
    BY DEF Moves, RequestsGo
  <1>1. AccountIds'
    <2>1. ASSUME NEW u \in Users PROVE AccountGoes(u) /\ (u \notin known => Forgets(u))
                 /\ (Registered(u) => users[u].home \in known \cup {Absent})
                 /\ bindings[u] \in known \cup {Absent}
      BY DEF Moves, Ids, AccountIds
    <2>2. ASSUME NEW u \in Users, u \notin known' PROVE Forgets(u)'
      <3>1. u \notin known /\ Forgets(u)
        BY <1>0, <2>1, <2>2
      <3>2. ~Active(u)
        BY <1>a, <3>1 DEF Active, RequestIds, At
      <3>3. ~Created(u)
        BY <2>2 DEF Created
      <3>4. QED
        BY <2>1, <3>1, <3>2, <3>3 DEF AccountGoes
    <2>3. ASSUME NEW u \in Users, users'[u] # Absent PROVE users'[u].home \in known' \cup {Absent}
      <3>1. Linked(u) => users'[u].home \in known \cup {Absent}
        BY <1>a DEF Linked, RequestIds
      <3>2. NewUser.home = Absent
        BY DEF NewUser
      <3>3. QED
        BY <1>0, <2>1, <2>3, <3>1, <3>2 DEF AccountGoes, Registered
    <2>4. ASSUME NEW u \in Users PROVE bindings'[u] \in known' \cup {Absent}
      BY <1>0, <1>a, <2>1 DEF AccountGoes, RequestIds
    <2>5. QED
      BY <2>2, <2>3, <2>4 DEF AccountIds, Registered
  <1>2. HomeIds'
    <2>1. tokens \subseteq known /\ \A c \in Cameras : devices[c] \in known \cup {Absent}
      BY DEF Ids, HomeIds
    <2>2. tokens' \subseteq Homes
      BY DEF Inv, CamerasOK
    <2>3. ASSUME NEW h \in tokens' PROVE h \in known'
      <3>1. h \in tokens \/ \E s \in Slots : requests[s].user.home = h
        BY <2>2 DEF Moves, HomeGoes
      <3>2. h # Absent
        BY <2>2, AccountsAssumption
      <3>3. QED
        BY <1>0, <1>a, <2>1, <3>1, <3>2 DEF RequestIds
    <2>4. \A c \in Cameras : devices'[c] \in known' \cup {Absent}
      BY <1>0, <2>1 DEF Moves, CameraGoes
    <2>5. QED
      BY <2>3, <2>4 DEF HomeIds
  <1>3. OpIds'
    BY <1>0 DEF Ids, OpIds, Home
  <1>4. ItemIds'
    <2>1. people \subseteq known /\ people' \subseteq People
      BY DEF Ids, ItemIds, Inv, HomesOK
    <2>2. people' \subseteq known'
      BY <1>0, <2>1 DEF Moves, PersonGoes
    <2>3. ASSUME NEW p \in People, p \notin known' PROVE owner'[p] = Absent
      BY <1>0, <2>3 DEF Moves, PersonGoes, Ids, ItemIds
    <2>4. ASSUME NEW x \in Photos, x \notin known' PROVE photos'[x] = Absent /\ owner'[x] = Absent
      <3>1. photos[x] = Absent /\ owner[x] = Absent
        BY <1>0, <2>4 DEF Ids, ItemIds, Untaken
      <3>2. \A s \in Slots : requests[s].photo # x
        BY <1>0, <1>a, <2>4, AccountsAssumption DEF RequestIds
      <3>3. Stays(x)
        BY <3>2 DEF Moves, PhotoGoes, Arrives
      <3>4. QED
        BY <3>1, <3>3 DEF Stays
    <2>5. QED
      BY <2>2, <2>3, <2>4 DEF ItemIds, Untaken
  <1>5. ASSUME NEW s \in Slots PROVE RequestIds(s)'
    <2>1. CASE requests'[s] = requests[s]
      <3> DEFINE r == requests[s]
      <3>1. r.pc = "create" => r.who \notin known'
        <4>1. ASSUME r.pc = "create", r.who \in known' PROVE FALSE
          <5>1. r.who \in Users /\ r.who \notin known
            BY <1>a, <4>1 DEF ReqOK, OfAccount, RequestIds
          <5>2. PICK t \in Slots : At(t, "create") /\ requests[t].who = r.who
                          /\ requests'[t].pc # "create"
            BY <1>0, <4>1, <5>1 DEF Created
          <5>3. t = s
            BY <4>1, <5>2 DEF Ids, OfItsOwn, At
          <5>4. QED
            BY <2>1, <4>1, <5>2, <5>3
        <4>2. QED
          BY <4>1
      <3>2. r.pc \in {"reserve", "enroll"} => Untaken(r.photo)'
        <4>1. SUFFICES ASSUME r.pc \in {"reserve", "enroll"} PROVE Untaken(r.photo)'
          OBVIOUS
        <4>2. r.photo \in Photos /\ r.photo # Absent /\ Untaken(r.photo)
          BY <1>a, <4>1, AccountsAssumption DEF ReqOK, RequestIds
        <4>3. PICK x \in Photos : x = r.photo
          BY <4>2
        <4>4. \A t \in Slots : ~Arrives(x, t)
          BY <2>1, <4>1, <4>2, <4>3 DEF Arrives, Ids, OfItsOwn
        <4>5. Stays(x)
          BY <4>4 DEF Moves, PhotoGoes
        <4>6. photos'[x] = Absent /\ owner'[x] = Absent
          BY <4>2, <4>3, <4>5 DEF Stays, Untaken
        <4>7. r' = r
          BY <2>1
        <4>8. QED
          BY <4>3, <4>6, <4>7 DEF Untaken
      <3>3. QED
        BY <1>0, <1>a, <2>1, <3>1, <3>2 DEF RequestIds, Untaken
    <2>2. CASE requests'[s] = Idle
      BY <2>2, IsIdle, AccountsAssumption DEF RequestIds
    <2>3. CASE Onward(s)
      <3>1. bindings[requests[s].who] \in known \cup {Absent} \/ requests[s].who \notin Users
        BY DEF Ids, AccountIds
      <3>2. requests[s].pc = "bind" => requests[s].who \in Users
        BY <1>a DEF ReqOK, OfAccount
      <3>3. QED
        BY <1>0, <1>a, <2>3, <3>1, <3>2 DEF Onward, RequestIds
    <2>4. CASE Begun(s)
      <3>1. \A u \in Users : (Registered(u) \/ u \in passkeys) =>
                /\ u \in known
                /\ Registered(u) => users[u].home \in known \cup {Absent}
        BY DEF Ids, AccountIds, Forgets
      <3>2. \A c \in Cameras : devices[c] \in known \cup {Absent}
        BY DEF Ids, HomeIds
      <3>3. PICK r : r = requests'[s]
        OBVIOUS
      <3>4. r.pc = "create" => r.who \notin known'
        BY <1>0, <2>4, <3>3 DEF Begun, Fresh, Created
      <3>5. r.user.home \in known' \cup {Absent} /\ r.photo \in known' \cup {Absent}
        BY <1>0, <2>4, <3>1, <3>2, <3>3 DEF Begun
      <3>6. r.who \in Users /\ r.pc # "create" => r.who \in known'
        BY <1>0, <2>4, <3>1, <3>3, AccountsAssumption DEF Begun
      <3>7. r.pc \in {"person", "link", "add"} => r.user.home # Absent
        BY <2>4, <3>3 DEF Begun
      <3>8. r.pc \in {"reserve", "enroll"} => photos'[r.photo] = Absent /\ owner'[r.photo] = Absent
        <4>1. SUFFICES ASSUME r.pc \in {"reserve", "enroll"}
                       PROVE  photos'[r.photo] = Absent /\ owner'[r.photo] = Absent
          OBVIOUS
        <4>2. PICK x \in Photos : x = r.photo /\ x \notin known
          BY <2>4, <3>3, <4>1 DEF Begun, Fresh
        <4>3. photos[x] = Absent /\ owner[x] = Absent
          BY <4>2 DEF Ids, ItemIds, Untaken
        <4>4. \A t \in Slots : requests[t].photo # x
          BY <1>a, <4>2, AccountsAssumption DEF RequestIds
        <4>5. Stays(x)
          BY <4>4 DEF Moves, PhotoGoes, Arrives
        <4>6. QED
          BY <4>2, <4>3, <4>5 DEF Stays
      <3>9. QED
        BY <3>3, <3>4, <3>5, <3>6, <3>7, <3>8 DEF RequestIds, Untaken
    <2>5. QED
      BY <1>b, <2>1, <2>2, <2>3, <2>4 DEF Becomes
  <1>6. ASSUME NEW s \in Slots, NEW t \in Slots, s # t PROVE OfItsOwn(s, t)'
    <2>1. OfItsOwn(s, t) /\ OfItsOwn(t, s)
      BY <1>6 DEF Ids
    <2>2. \A v \in Slots : requests[v].photo \notin Fresh(Photos)
      BY <1>a, AccountsAssumption DEF RequestIds, Fresh
    <2>3. ASSUME NEW v \in Slots, NEW w \in Slots, v # w, OfItsOwn(v, w), OfItsOwn(w, v),
                 requests'[w] = requests[w], Becomes(v)
          PROVE  OfItsOwn(v, w)' /\ OfItsOwn(w, v)'
      <3>1. CASE requests'[v] = requests[v]
        BY <2>3, <3>1 DEF OfItsOwn, At
      <3>2. CASE requests'[v] = Idle
        BY <2>3, <3>2, IsIdle, <1>a, AccountsAssumption DEF OfItsOwn, At, ReqOK, OfAccount
      <3>3. CASE Onward(v)
        BY <2>3, <3>3 DEF OfItsOwn, At, Onward
      <3>4. CASE Begun(v)
        <4>1. PICK r : r = requests'[v]
          OBVIOUS
        <4>2. r.photo = Absent \/ r.photo \in Fresh(Photos)
          BY <3>4, <4>1 DEF Begun
        <4>3. r.photo # Absent => requests[w].photo # r.photo
          BY <2>2, <4>2
        <4>4. r.pc = "create" => requests[w].who # r.who
          BY <3>4, <4>1 DEF Begun
        <4>5. At(w, "create") => r.who # requests[w].who
          <5>1. At(w, "create") => requests[w].who \in Users /\ requests[w].who \notin known
            BY <1>a DEF ReqOK, OfAccount, At, RequestIds
          <5>2. r.who \in known \/ r.who \notin Users \/ r.pc = "create"
            BY <3>4, <4>1, AccountsAssumption DEF Begun, Ids, AccountIds, Forgets
          <5>3. QED
            BY <4>4, <5>1, <5>2
        <4>6. QED
          BY <2>3, <4>1, <4>3, <4>4, <4>5 DEF OfItsOwn, At
      <3>5. QED
        BY <2>3, <3>1, <3>2, <3>3, <3>4 DEF Becomes
    <2>4. CASE UNCHANGED requests
      BY <2>1, <2>4 DEF OfItsOwn, At
    <2>5. CASE ~UNCHANGED requests
      <3>1. PICK v \in Slots : Becomes(v) /\ \A w \in Slots \ {v} : requests'[w] = requests[w]
        BY <2>5 DEF Moves, RequestsGo
      <3>2. CASE v = s
        BY <1>6, <2>1, <2>3, <3>1, <3>2
      <3>3. CASE v = t
        BY <1>6, <2>1, <2>3, <3>1, <3>3
      <3>4. CASE v # s /\ v # t
        BY <2>1, <3>1, <3>4 DEF OfItsOwn, At
      <3>5. QED
        BY <3>2, <3>3, <3>4
    <2>6. QED
      BY <2>4, <2>5
  <1>7. QED
    BY <1>1, <1>2, <1>3, <1>4, <1>5, <1>6 DEF Ids

-----------------------------------------------------------------------------
(* What the operator's command does to each variable                       *)

(* A deletion only takes things away.                                      *)
Lessens ==
    /\ UNCHANGED <<known, owner, granted>>
    /\ \A u \in Users : /\ users'[u] \in {users[u], Absent} /\ bindings'[u] \in {bindings[u], Absent}
                        /\ Forgets(u) => Forgets(u)'
    /\ \A h \in Homes : households'[h] \in {households[h], Absent} /\ seats'[h] \in {seats[h], {}}
    /\ \A c \in Cameras : devices'[c] \in {devices[c], Absent}
    /\ \A x \in Photos : photos'[x] \in {photos[x], Absent}
    /\ tokens' \subseteq tokens /\ people' \subseteq people /\ objects' \subseteq objects

LEMMA SameCatalogLessens ==
    ASSUME UNCHANGED catalog, \A u \in Users : users'[u] \in {users[u], Absent},
           sessions' \subseteq sessions, passkeys' \subseteq passkeys,
           \A c \in Ceremonies : ceremonies'[c].user \in {ceremonies[c].user, Absent}
    PROVE  Lessens
  <1>1. UNCHANGED <<households, seats, people, known, bindings, tokens, devices, photos, objects,
                    granted, owner>>
    BY DEF catalog, homes, cameras, captures
  <1>2. ASSUME NEW u \in Users PROVE Forgets(u) => Forgets(u)'
    <2>1. u # Absent
      BY AccountsAssumption
    <2>2. QED
      BY <1>1, <2>1 DEF Forgets, Registered
  <1>3. QED
    BY <1>1, <1>2 DEF Lessens

LEMMA DeletionLessens ==
    ASSUME Inv, DeletionStep
    PROVE  Lessens
  <1>0. /\ seats \in [Homes -> SUBSET People] /\ bindings \in [Users -> Homes \cup {Absent}]
        /\ households \in [Homes -> {Absent, SmallGrid, LargeGrid}]
        /\ photos \in [Photos -> {Absent} \cup Photo] /\ users \in [Users -> {Absent} \cup User]
    BY DEF Inv, HomesOK, CapturesOK, StoreOK
  <1>1. ASSUME UNCHANGED <<users, sessions, passkeys, ceremonies, catalog>> PROVE Lessens
    BY <1>1, SameCatalogLessens
  <1>2. CASE HouseholdPeers \/ ListCaptures \/ ListTaken \/ ErasedPhotos \/ MarkFulfilled
    BY <1>1, <1>2 DEF HouseholdPeers, ListCaptures, ListTaken, ErasedPhotos, MarkFulfilled, store
  <1>3. ASSUME UNCHANGED <<users, sessions, passkeys, ceremonies, bindings>>
        PROVE  \A u \in Users : /\ users'[u] \in {users[u], Absent}
                                /\ bindings'[u] \in {bindings[u], Absent}
                                /\ Forgets(u) => Forgets(u)'
    BY <1>3 DEF Forgets, Registered
  <1>4. CASE EraseObject \/ EraseRow \/ EraseAnalysis
    <2>1. PICK x : x = Current
      OBVIOUS
    <2>2. UNCHANGED <<users, sessions, passkeys, ceremonies, bindings>>
      BY <1>4 DEF EraseObject, EraseRow, EraseAnalysis, store, homes
    <2>3. UNCHANGED <<households, seats, people, known, tokens, devices, granted, owner>>
      BY <1>4 DEF EraseObject, EraseRow, EraseAnalysis, homes, cameras
    <2>4. objects' \subseteq objects /\ (photos' = photos \/ photos' = [photos EXCEPT ![x] = Absent])
      BY <1>4, <2>1 DEF EraseObject, EraseRow, EraseAnalysis
    <2>5. \A y \in Photos : photos'[y] \in {photos[y], Absent}
      BY <1>0, <2>4
    <2>6. QED
      BY <1>3, <2>2, <2>3, <2>4, <2>5 DEF Lessens
  <1>5. CASE EraseDevices \/ EraseTokens
    <2>1. UNCHANGED <<users, sessions, passkeys, ceremonies, bindings>>
      BY <1>5 DEF EraseDevices, EraseTokens, store, homes
    <2>2. UNCHANGED <<households, seats, people, known, photos, objects, granted, owner>>
      BY <1>5 DEF EraseDevices, EraseTokens, homes, captures
    <2>3. tokens' \subseteq tokens /\ \A c \in Cameras : devices'[c] \in {devices[c], Absent}
      BY <1>5 DEF EraseDevices, EraseTokens
    <2>4. QED
      BY <1>3, <2>1, <2>2, <2>3 DEF Lessens
  <1>6. CASE ErasePeople \/ EraseSeats \/ EraseHousehold
    <2>1. PICK k : k = Home
      OBVIOUS
    <2>2. UNCHANGED <<users, sessions, passkeys, ceremonies, bindings>>
      BY <1>6 DEF ErasePeople, EraseSeats, EraseHousehold, store
    <2>3. UNCHANGED <<known, tokens, devices, photos, objects, granted, owner>>
      BY <1>6 DEF ErasePeople, EraseSeats, EraseHousehold, cameras, captures
    <2>4. /\ people' \subseteq people
          /\ households' = households \/ households' = [households EXCEPT ![k] = Absent]
          /\ seats' = seats \/ seats' = [seats EXCEPT ![k] = {}]
      BY <1>6, <2>1 DEF ErasePeople, EraseSeats, EraseHousehold
    <2>5. \A h \in Homes : households'[h] \in {households[h], Absent} /\ seats'[h] \in {seats[h], {}}
      BY <1>0, <2>4
    <2>6. QED
      BY <1>3, <2>2, <2>3, <2>4, <2>5 DEF Lessens
  <1>7. CASE Unbind
    <2>1. PICK a : a = op.who
      OBVIOUS
    <2>2. /\ UNCHANGED <<users, sessions, passkeys, ceremonies>>
          /\ UNCHANGED <<households, seats, people, known, tokens, devices, photos, objects, granted, owner>>
          /\ bindings' = [bindings EXCEPT ![a] = Absent]
      BY <1>7, <2>1 DEF Unbind, store, cameras, captures
    <2>3. \A u \in Users : bindings'[u] \in {bindings[u], Absent}
      BY <1>0, <2>2
    <2>4. \A u \in Users : Forgets(u) => Forgets(u)'
      BY <2>2, <2>3 DEF Forgets, Registered
    <2>5. QED
      BY <2>2, <2>3, <2>4 DEF Lessens
  <1>8. CASE DeleteSessions \/ DeletePasskeys \/ DeleteCeremonies \/ DeleteUserRow
    <2>1. PICK a : a = op.who
      OBVIOUS
    <2>2. /\ UNCHANGED catalog /\ sessions' \subseteq sessions /\ passkeys' \subseteq passkeys
          /\ users' = users \/ users' = [users EXCEPT ![a] = Absent]
          /\ ceremonies' = ceremonies \/ ceremonies' = Forgotten(a)
      BY <1>8, <2>1 DEF DeleteSessions, DeletePasskeys, DeleteCeremonies, DeleteUserRow
    <2>3. \A u \in Users : users'[u] \in {users[u], Absent}
      BY <1>0, <2>2
    <2>4. \A c \in Ceremonies : ceremonies'[c].user \in {ceremonies[c].user, Absent}
      BY <2>2 DEF Forgotten, Gone
    <2>5. QED
      BY <2>2, <2>3, <2>4, SameCatalogLessens
  <1>9. QED
    BY <1>2, <1>4, <1>5, <1>6, <1>7, <1>8 DEF DeletionStep

(* A link changes its account, and seats people in its household.          *)
Links ==
    /\ UNCHANGED <<sessions, passkeys, ceremonies, tokens, devices, photos, objects, granted>>
    /\ known \subseteq known' /\ \A y \in Users \cup Photos : y \in known' => y \in known
    /\ \A u \in Users : \/ users'[u] = users[u]
                        \/ /\ u = op.who /\ Registered(u) /\ users'[u] # Absent
                           /\ \/ users'[u].home = users[u].home /\ ~LinkHousehold
                              \/ users'[u].home = Home
    /\ \A u \in Users : bindings'[u] = bindings[u]
                        \/ (u = op.who /\ OpAt("point") /\ bindings'[u] = Home)
    /\ \A h \in Homes : /\ households'[h] = Absent <=> households[h] = Absent
                        /\ seats[h] \subseteq seats'[h] /\ (h # Home => seats'[h] = seats[h])
    /\ \A p \in People :
          /\ p \in people => p \in people'
          /\ p \in people' => p \in people \/ (p \in Fresh(People) /\ p \in known')
          /\ owner'[p] = owner[p] \/ (owner'[p] = Home /\ p \in seats'[Home] /\ p \in known')
    /\ \A x \in Photos : owner'[x] = owner[x]

LEMMA SeatsLinks ==
    ASSUME Inv, Home \in Homes, NEW p \in People, NEW next, Seats(p, next)
    PROVE  Links
  <1>0. /\ seats \in [Homes -> SUBSET People] /\ owner \in [People \cup Photos -> Homes \cup {Absent}]
        /\ UNCHANGED <<users, sessions, passkeys, ceremonies, tokens, devices, photos, objects, granted>>
        /\ UNCHANGED <<households, bindings>>
    BY DEF Inv, HomesOK, OwnerOK, Seats, store, cameras, captures
  <1>1. CASE UNCHANGED <<people, known, seats, owner>>
    BY <1>0, <1>1 DEF Links
  <1>2. CASE /\ Seated(Home, p) /\ known' = known \cup {p}
             /\ people' = (IF p \in known THEN people ELSE people \cup {p})
    <2>1. PICK k \in Homes : k = Home
      OBVIOUS
    <2>2. /\ seats' = [seats EXCEPT ![k] = seats[k] \cup {p}]
          /\ owner' = [owner EXCEPT ![p] = IF owner[p] = Absent THEN k ELSE owner[p]]
      BY <1>2, <2>1 DEF Seated
    <2>3. /\ seats'[k] = seats[k] \cup {p} /\ \A h \in Homes \ {k} : seats'[h] = seats[h]
          /\ owner'[p] \in {owner[p], k} /\ \A y \in (People \cup Photos) \ {p} : owner'[y] = owner[y]
      BY <1>0, <2>2
    <2>4. p \notin Users \cup Photos
      BY AccountsAssumption
    <2>5. \A q \in People :
             /\ q \in people => q \in people'
             /\ q \in people' => q \in people \/ (q \in Fresh(People) /\ q \in known')
             /\ owner'[q] = owner[q] \/ (owner'[q] = k /\ q \in seats'[k] /\ q \in known')
      BY <1>2, <2>3 DEF Fresh
    <2>6. QED
      BY <1>0, <1>2, <2>1, <2>3, <2>4, <2>5 DEF Links
  <1>3. QED
    BY <1>1, <1>2 DEF Seats

LEMMA StepLinks ==
    ASSUME Inv, Planned, LinkStep
    PROVE  Links
  <1>0. /\ OpOK /\ op.pc \in Linking /\ Home \in Homes
        /\ users \in [Users -> {Absent} \cup User] /\ bindings \in [Users -> Homes \cup {Absent}]
        /\ households \in [Homes -> {Absent, SmallGrid, LargeGrid}]
    <2>1. OpOK /\ op.pc \in Linking
      BY LinkGoes DEF Inv
    <2>2. Home \in Homes
      BY <2>1 DEF Planned, Home, OpOK, Command, User
    <2>3. QED
      BY <2>1, <2>2 DEF Inv, StoreOK, HomesOK
  <1>1. PICK k \in Homes, a \in {op.who} : k = Home /\ a = op.who
    <2>1. PICK k \in Homes : k = Home
      BY <1>0
    <2>2. QED
      BY <2>1
  <1>2. CASE WidenGrid
    <2>1. households' = [households EXCEPT ![k] =
                             IF op.widen /\ households[k] # Absent THEN LargeGrid ELSE households[k]]
      BY <1>1, <1>2 DEF WidenGrid
    <2>2. \A h \in Homes : households'[h] = Absent <=> households[h] = Absent
      BY <1>0, <2>1, GridAssumption
    <2>3. UNCHANGED <<users, sessions, passkeys, ceremonies, seats, people, known, bindings, tokens,
                      devices, photos, objects, granted, owner>>
      BY <1>2 DEF WidenGrid, store, cameras, captures
    <2>4. QED
      BY <2>2, <2>3 DEF Links
  <1>3. CASE SeatPerson
    <2>1. PICK p \in People : p = op.person
      BY <1>0 DEF OpOK
    <2>2. PICK next : Seats(p, next)
      BY <1>3, <2>1 DEF SeatPerson
    <2>3. QED
      BY <1>0, <2>2, SeatsLinks
  <1>4. CASE SeatMembers
    <2>1. PICK p, next : p = Current /\ Seats(p, next)
      BY <1>4 DEF SeatMembers
    <2>2. p \in People
      BY <1>0, <1>4, <2>1 DEF SeatMembers, Current, OpOK
    <2>3. QED
      BY <1>0, <2>1, <2>2, SeatsLinks
  <1>5. ASSUME UNCHANGED <<sessions, passkeys, ceremonies, catalog>>,
               \A u \in Users : \/ users'[u] = users[u]
                               \/ /\ u = op.who /\ Registered(u) /\ users'[u] # Absent
                                  /\ \/ users'[u].home = users[u].home /\ ~LinkHousehold
                                     \/ users'[u].home = Home
        PROVE  Links
    <2>1. UNCHANGED <<households, seats, people, known, bindings, tokens, devices, photos, objects,
                      granted, owner>>
      BY <1>5 DEF catalog, homes, cameras, captures
    <2>2. QED
      BY <1>5, <2>1 DEF Links
  <1>6. CASE LinkHousehold
    <2>1. PICK q : q = op.person
      OBVIOUS
    <2>2. users' = [users EXCEPT ![a].home = k, ![a].person = q] /\ Registered(a)
      BY <1>1, <1>6, <2>1 DEF LinkHousehold, LinkUser
    <2>3. \A u \in Users \ {a} : users'[u] = users[u]
      BY <1>0, <2>2
    <2>4. ASSUME a \in Users PROVE users'[a] # Absent /\ users'[a].home = k
      <3>1. users[a] \in User
        BY <1>0, <2>2, <2>4 DEF Registered
      <3>2. users'[a] = [users[a] EXCEPT !.home = k, !.person = q]
        BY <1>0, <2>2, <2>4
      <3>3. q \in People
        BY <1>0, <2>1 DEF OpOK
      <3>4. users'[a] \in User /\ users'[a].home = k
        BY <3>1, <3>2, <3>3 DEF User
      <3>5. QED
        BY <3>4, RowAssumption
    <2>5. UNCHANGED <<sessions, passkeys, ceremonies, catalog>>
      BY <1>6 DEF LinkHousehold
    <2>6. QED
      BY <1>1, <1>5, <2>2, <2>3, <2>4, <2>5
  <1>7. CASE SetHouseholdRole
    <2>1. PICK role : role = op.user.role
      OBVIOUS
    <2>2. users' = [users EXCEPT ![a].role = role] /\ Registered(a) /\ role \in {"admin", "member"}
      BY <1>0, <1>1, <1>7, <2>1 DEF SetHouseholdRole, SetRole, OpOK, Command, User
    <2>3. \A u \in Users \ {a} : users'[u] = users[u]
      BY <1>0, <2>2
    <2>4. ASSUME a \in Users PROVE users'[a] # Absent /\ users'[a].home = users[a].home
      <3>1. users[a] \in User
        BY <1>0, <2>2, <2>4 DEF Registered
      <3>2. users'[a] = [users[a] EXCEPT !.role = role]
        BY <1>0, <2>2, <2>4
      <3>3. users'[a] \in User /\ users'[a].home = users[a].home
        BY <2>2, <3>1, <3>2 DEF User
      <3>4. QED
        BY <3>3, RowAssumption
    <2>5. UNCHANGED <<sessions, passkeys, ceremonies, catalog>> /\ ~LinkHousehold
      BY <1>7 DEF SetHouseholdRole, LinkHousehold, OpAt
    <2>6. QED
      BY <1>1, <1>5, <2>2, <2>3, <2>4, <2>5
  <1>8. CASE PointBinding
    <2>1. bindings' = [bindings EXCEPT ![a] = k] /\ OpAt("point")
      BY <1>1, <1>8 DEF PointBinding
    <2>2. \A u \in Users : bindings'[u] = bindings[u] \/ (u = a /\ bindings'[u] = k)
      BY <1>0, <2>1
    <2>3. UNCHANGED <<users, sessions, passkeys, ceremonies, households, seats, people, known, tokens,
                      devices, photos, objects, granted, owner>>
      BY <1>8 DEF PointBinding, store, cameras, captures
    <2>4. QED
      BY <1>1, <2>1, <2>2, <2>3 DEF Links
  <1>9. CASE LinkLost
    BY <1>5, <1>9 DEF LinkLost, store
  <1>10. QED
    BY <1>2, <1>3, <1>4, <1>6, <1>7, <1>8, <1>9 DEF LinkStep

(* A camera that is registered brings the photographs of its household.    *)
Registers ==
    /\ UNCHANGED <<users, sessions, passkeys, ceremonies, households, seats, people, known, bindings,
                   tokens, photos, objects, granted>>
    /\ \A c \in Cameras : devices'[c] \in {devices[c], Home}
    /\ \A p \in People : owner'[p] = owner[p]
    /\ \A x \in Photos : \/ owner'[x] = owner[x]
                         \/ photos[x] # Absent /\ owner'[x] = Home
    /\ \A x \in Photos : photos[x] # Absent /\ photos[x].device \in Cameras
                         /\ owner'[x] = devices[photos[x].device]
                         => owner'[x] = devices'[photos[x].device]
    /\ \A x \in Photos : photos[x] # Absent /\ owner'[x] # owner[x] =>
                             photos[x].device \in Cameras /\ devices'[photos[x].device] = Home

LEMMA DeviceRegisters ==
    ASSUME Inv, RegisterDevice
    PROVE  Registers
  <1>1. PICK k : k = Home
    OBVIOUS
  <1>2. /\ \A c \in Cameras : devices'[c] = IF c \in op.todo THEN k ELSE devices[c]
        /\ \A y \in People \cup Photos :
              owner'[y] = IF /\ y \in Photos /\ photos[y] # Absent /\ photos[y].device \in op.todo
                             /\ owner[y] = devices[photos[y].device]
                          THEN k ELSE owner[y]
    BY <1>1 DEF RegisterDevice
  <1>3. UNCHANGED <<users, sessions, passkeys, ceremonies, households, seats, people, known, bindings,
                   tokens, photos, objects, granted>>
    BY DEF RegisterDevice, store, homes, captures
  <1>4. \A p \in People : owner'[p] = owner[p]
    BY <1>2, AccountsAssumption
  <1>5. \A x \in Photos : photos[x] # Absent => photos[x].device \in Cameras \cup {Absent}
    BY DEF Inv, CapturesOK, Photo
  <1>6. Absent \notin op.todo
    BY AccountsAssumption DEF Inv, OpOK, Command
  <1>7. QED
    BY <1>1, <1>2, <1>3, <1>4, <1>5, <1>6 DEF Registers

(* Nothing changes but the command.                                        *)
LEMMA SameIds ==
    ASSUME Inv, Ids, UNCHANGED <<store, catalog, requests>>
    PROVE  AccountIds' /\ HomeIds' /\ ItemIds' /\ (\A s \in Slots : RequestIds(s)')
           /\ \A s, t \in Slots : s # t => OfItsOwn(s, t)'
  <1>1. UNCHANGED <<users, sessions, passkeys, ceremonies, bindings, tokens, devices, people, known,
                    photos, owner, requests>>
    BY DEF store, catalog, homes, cameras, captures
  <1>2. AccountIds' /\ HomeIds' /\ ItemIds'
    BY <1>1 DEF Ids, AccountIds, HomeIds, ItemIds, Forgets, Registered, Untaken
  <1>3. \A s \in Slots : RequestIds(s)'
    BY <1>1 DEF Ids, RequestIds, Untaken
  <1>4. \A s, t \in Slots : s # t => OfItsOwn(s, t)'
    BY <1>1 DEF Ids, OfItsOwn, At
  <1>5. QED
    BY <1>2, <1>3, <1>4

LEMMA OpIdsKept ==
    ASSUME Inv, Ids, Planned, OpStep \/ OpStarts \/ OpFails, known \subseteq known', Finished
    PROVE  OpIds'
  <1>0. op.who \in known \cup {Absent} /\ Home \in known \cup {Absent} /\ op \in Command
    BY DEF Ids, OpIds, Inv, OpOK
  <1>1. op'.who \in known \cup {Absent} /\ op'.user.home \in known \cup {Absent}
    <2>0. NewUser.home = Absent
      BY DEF NewUser
    <2>1. CASE OpEnds
      BY <2>0, <2>1, RestIs DEF OpEnds
    <2>2. CASE DeletionStep \/ LinkStep
      BY <1>0, <2>1, <2>2, DeletionStages, LinkGoes DEF Further, Home, Inv
    <2>3. CASE Fetched
      <3>1. PICK u \in Users : u = op'.who /\ Registered(u) /\ op'.user = users[u]
        BY <2>3 DEF Fetched
      <3>2. u \in known /\ users[u].home \in known \cup {Absent}
        BY <3>1 DEF Ids, AccountIds, Forgets
      <3>3. QED
        BY <3>1, <3>2
    <2>4. CASE Read
      BY <2>4 DEF Read, Ids, AccountIds, Forgets, Inv, HomesOK, Fits
    <2>5. CASE OpFails
      BY <1>0, <2>0, <2>5, FailsGo, RestIs DEF Stopped
    <2>6. QED
      BY <2>1, <2>2, <2>3, <2>4, <2>5, AgainGoes, StartsGo DEF OpStep, RegisterDevice
  <1>2. erased' \subseteq known /\ erased' \subseteq Users \cup Homes
    <2>1. CASE erased' = erased
      BY <2>1 DEF Ids, OpIds
    <2>2. CASE erased' # erased
      <3>1. OpAt("fulfil") /\ erased' = erased \cup {op.who} \cup (IF op.whole THEN {Home} ELSE {})
        BY <2>2, ErasedAt
      <3>2. op.who \in Users
        BY <3>1 DEF OpAt, Inv, OpOK, Deletion
      <3>3. op.who # Absent
        BY <3>2, AccountsAssumption
      <3>4. op.whole => Home \in Homes
        BY <1>0 DEF Planned, Command, User, Home
      <3>5. op.whole => Home # Absent
        BY DEF Planned
      <3>6. QED
        BY <1>0, <3>1, <3>2, <3>3, <3>4, <3>5 DEF Ids, OpIds
    <2>3. QED
      BY <2>1, <2>2
  <1>3. QED
    BY <1>1, <1>2 DEF OpIds, Home

LEMMA IdsStep ==
    ASSUME Inv, Inv', Ids, Planned, (OpStep /\ UNCHANGED requests) \/ OpStarts \/ OpFails, Finished
    PROVE  Ids'
  <1>0. \A s \in Slots : /\ ReqOK(requests[s]) /\ RequestIds(s)
                         /\ \A t \in Slots : s # t => OfItsOwn(s, t)
    BY DEF Inv, RequestsOK, Ids
  <1>1. CASE RunAgain \/ OpStarts \/ OpFails
    <2>1. UNCHANGED <<store, catalog, requests>>
      BY <1>1 DEF RunAgain, OpStarts, OpFails, accounts, OpStep
    <2>2. known' = known
      BY <2>1 DEF catalog, homes
    <2>3. OpIds'
      BY <1>1, <2>2, OpIdsKept DEF OpStep
    <2>4. QED
      BY <2>1, <2>3, SameIds DEF Ids
  <1>2. CASE DeletionStep
    <2>1. Lessens /\ UNCHANGED requests
      BY <1>2, DeletionLessens DEF OpStarts, OpFails, accounts
    <2>2. OpIds'
      BY <1>2, <2>1, OpIdsKept DEF Lessens, OpStep
    <2>3. AccountIds' /\ HomeIds' /\ ItemIds'
      BY <2>1 DEF Ids, AccountIds, HomeIds, ItemIds, Lessens, Registered, Untaken
    <2>4. \A s \in Slots : RequestIds(s)'
      BY <1>0, <2>1 DEF RequestIds, Lessens, Untaken, ReqOK
    <2>5. \A s, t \in Slots : s # t => OfItsOwn(s, t)'
      BY <1>0, <2>1 DEF OfItsOwn, At
    <2>6. QED
      BY <2>2, <2>3, <2>4, <2>5 DEF Ids
  <1>3. CASE LinkStep
    <2>1. Links /\ UNCHANGED requests
      BY <1>3, StepLinks DEF OpStarts, OpFails, accounts
    <2>2. OpIds'
      BY <1>3, <2>1, OpIdsKept DEF Links, OpStep
    <2>3. op.who \in known \cup {Absent} /\ Home \in known \cup {Absent}
      BY DEF Ids, OpIds
    <2>4. AccountIds'
      BY <2>1, <2>3, AccountsAssumption DEF Ids, AccountIds, Links, Forgets, Registered
    <2>5. HomeIds' /\ ItemIds'
      <3>1. HomeIds'
        BY <2>1 DEF Ids, HomeIds, Links
      <3>2. people \subseteq People /\ people' \subseteq People
        BY DEF Inv, HomesOK
      <3>3. QED
        BY <2>1, <3>1, <3>2 DEF Ids, ItemIds, Links, Untaken
    <2>6. \A s \in Slots : RequestIds(s)'
      BY <1>0, <2>1 DEF RequestIds, Links, Untaken, ReqOK, OfAccount
    <2>7. \A s, t \in Slots : s # t => OfItsOwn(s, t)'
      BY <1>0, <2>1 DEF OfItsOwn, At
    <2>8. QED
      BY <2>2, <2>4, <2>5, <2>6, <2>7 DEF Ids
  <1>4. CASE RegisterDevice
    <2>1. Registers /\ UNCHANGED requests
      BY <1>4, DeviceRegisters DEF OpStarts, OpFails, accounts
    <2>2. OpIds'
      BY <1>4, <2>1, OpIdsKept DEF Registers, OpStep
    <2>3. AccountIds' /\ HomeIds' /\ ItemIds'
      BY <2>1 DEF Ids, AccountIds, HomeIds, OpIds, ItemIds, Registers, Registered, Untaken, Forgets
    <2>4. \A s \in Slots : RequestIds(s)'
      BY <1>0, <2>1 DEF RequestIds, Registers, Untaken, ReqOK
    <2>5. \A s, t \in Slots : s # t => OfItsOwn(s, t)'
      BY <1>0, <2>1 DEF OfItsOwn, At
    <2>6. QED
      BY <2>2, <2>3, <2>4, <2>5 DEF Ids
  <1>5. QED
    BY <1>1, <1>2, <1>3, <1>4 DEF OpStep

-----------------------------------------------------------------------------
(* People and photographs                                                  *)

(* Whose a person or a photograph is can be told from the rows, unless it  *)
(* was touched while a deletion ran.                                       *)
StillSeated(p) == p \in people /\ p \notin disturbed /\ owner[p] # Absent => p \in seats[owner[p]]
TakenBy(x, h) == \/ photos[x].person \in seats[h]
                 \/ photos[x].device # Absent /\ devices[photos[x].device] = h
Traced(x) == /\ x \notin disturbed /\ photos[x] # Absent /\ owner[x] # Absent => TakenBy(x, owner[x])
             /\ x \notin disturbed /\ x \in objects \cup granted => photos[x] # Absent
(* So can that of a photograph on its way in.                              *)
OnItsWay(s) ==
    LET r == requests[s] IN
    /\ r.pc = "name" => r.photo \in disturbed \/ photos[r.photo] # Absent
    /\ r.pc = "reserve" =>
           \/ r.who = Absent /\ r.user.home = Absent
           \/ r.who # Absent /\ (devices[r.who] # Absent \/ r.photo \in disturbed)

(* What is left of them as the stages go by.                               *)
Ours(x) == x \notin disturbed /\ photos[x] # Absent /\ owner[x] = Home
ToErase(x) ==
    /\ OpAt("taken") /\ Ours(x) =>
           x \in op.todo \/ (photos[x].device # Absent /\ devices[photos[x].device] = Home)
    /\ op.pc \in {"photos", "row", "job"} /\ Ours(x) => x \in op.todo
    /\ Past({"devices", "tokens", "people", "seats", "house"}) => ~Ours(x)
Cleared(x) ==
    /\ OpAt("row") => x # Current \/ x \in disturbed \/ x \notin objects
    /\ OpAt("job") => x # Current \/ x \in disturbed \/ photos[x] = Absent
Evicted(p) == OpAt("seats") /\ p \in people /\ p \notin disturbed => owner[p] # Home

ItemInv == /\ \A p \in People : StillSeated(p) /\ Evicted(p)
           /\ \A x \in Photos : Traced(x) /\ ToErase(x) /\ Cleared(x)
           /\ \A s \in Slots : OnItsWay(s)

LEMMA ItemsMove ==
    ASSUME Inv, Inv', Ids, ItemInv, Moves, op' = op, NEW e, Disturbs(e)
    PROVE  ItemInv'
  <1>0. /\ disturbed \subseteq disturbed'
        /\ Deleting => \A y \in People \cup Photos :
              (y \notin disturbed' => y \notin Upcoming /\ owner'[y] = owner[y])
    BY Noted DEF Handed
  <1>1. PICK k, z : k = Home /\ z = Current
    OBVIOUS
  <1>2. Home' = k /\ Current' = z
    BY <1>1 DEF Home, Current
  <1>3. ASSUME NEW h \in Homes, NEW p \in seats[h], p \notin seats'[h]
        PROVE  owner'[p] # h /\ \A x \in Photos : photos[x] # Absent /\ photos[x].person = p => owner'[x] # h
    BY <1>3 DEF Moves, HomeGoes
  <1>4. \A y \in People \cup Photos : owner[y] \in Homes \cup {Absent} /\ owner'[y] \in Homes \cup {Absent}
    BY DEF Inv, OwnerOK
  <1>5. \A c \in Cameras : devices[c] # Absent => devices'[c] = devices[c]
    BY DEF Moves, CameraGoes
  <1>6. \A s \in Slots : requests[s] \in Request /\ ReqOK(requests[s]) /\ RequestIds(s)
    BY DEF Inv, RequestsOK, ReqOK, Ids
  <1>7. \A x \in Photos : photos[x] # Absent => photos[x].device \in Cameras \cup {Absent}
    BY DEF Inv, CapturesOK, Photo
  <1>8. \A d : NewPhoto(d).device = d /\ NewPhoto(d).person = Absent
    BY DEF NewPhoto
  <1>9. \A d \in Cameras \cup {Absent} : NewPhoto(d) # Absent
    <2>1. \A d \in Cameras \cup {Absent} : NewPhoto(d) \in Photo
      BY DEF NewPhoto, Photo
    <2>2. QED
      BY <2>1, RowAssumption
  <1>10. ASSUME NEW p \in People PROVE StillSeated(p)' /\ Evicted(p)'
    <2>1. PersonGoes(p) /\ StillSeated(p) /\ Evicted(p) /\ (p \notin known => owner[p] = Absent)
      BY DEF Moves, ItemInv, Ids, ItemIds
    <2>2. ASSUME p \in people', p \notin disturbed', owner'[p] # Absent
          PROVE  p \in seats'[owner'[p]]
      <3>1. CASE owner'[p] = owner[p]
        <4>1. p \in people /\ p \notin disturbed
          BY <1>0, <2>1, <2>2, <3>1 DEF PersonGoes, Fresh
        <4>2. PICK h \in Homes : h = owner[p]
          BY <1>4, <2>2, <3>1
        <4>3. p \in seats[h]
          BY <2>1, <2>2, <3>1, <4>1, <4>2 DEF StillSeated
        <4>4. QED
          BY <1>3, <3>1, <4>2, <4>3
      <3>2. QED
        BY <2>1, <2>2, <3>1 DEF PersonGoes
    <2>3. ASSUME OpAt("seats"), p \in people', p \notin disturbed', owner'[p] = k PROVE FALSE
      <3>1. Deleting /\ k # Absent
        BY <1>1, <2>3, AccountsAssumption DEF OpAt, Deleting, Deletion, Inv, OpOK, Erasing
      <3>2. owner[p] = k
        BY <1>0, <2>3, <3>1
      <3>3. p \in people
        BY <2>1, <2>3, <3>1, <3>2 DEF PersonGoes, Fresh
      <3>4. QED
        BY <1>0, <1>1, <2>1, <2>3, <3>2, <3>3 DEF Evicted
    <2>4. QED
      BY <1>2, <2>2, <2>3 DEF StillSeated, Evicted, OpAt
  <1>11. ASSUME NEW x \in Photos PROVE Traced(x)' /\ ToErase(x)' /\ Cleared(x)'
    <2>1. PhotoGoes(x) /\ Traced(x) /\ ToErase(x) /\ Cleared(x)
      BY DEF Moves, ItemInv
    <2>2. ASSUME x \notin disturbed', photos'[x] # Absent, owner'[x] # Absent
          PROVE  \/ photos'[x].person \in seats'[owner'[x]]
                 \/ photos'[x].device # Absent /\ devices'[photos'[x].device] = owner'[x]
      <3>1. PICK h \in Homes : h = owner'[x]
        BY <1>4, <2>2
      <3>2. CASE Stays(x)
        <4>1. photos[x] # Absent /\ owner[x] = h /\ x \notin disturbed
          BY <1>0, <2>2, <3>1, <3>2 DEF Stays
        <4>2. photos'[x].device = photos[x].device /\ photos'[x].person = photos[x].person
          BY <3>2, <4>1 DEF Stays
        <4>3. TakenBy(x, h) /\ h # Absent
          BY <2>1, <4>1, AccountsAssumption DEF Traced
        <4>4. photos[x].person \in seats[h] => photos[x].person \in seats'[h]
          BY <1>3, <3>1, <4>1
        <4>5. photos'[x].person \in seats'[h]
              \/ (photos'[x].device # Absent /\ devices'[photos'[x].device] = h)
          BY <1>5, <1>7, <4>1, <4>2, <4>3, <4>4 DEF TakenBy
        <4>6. QED
          BY <3>1, <4>5
      <3>3. ASSUME NEW s \in Slots, Arrives(x, s), ~Stays(x)
            PROVE  photos'[x].person \in seats'[h]
                   \/ (photos'[x].device # Absent /\ devices'[photos'[x].device] = h)
        <4>1. requests[s].photo = x /\ OnItsWay(s) /\ h # Absent /\ x \notin disturbed
          BY <1>0, <2>2, <3>3, AccountsAssumption DEF Arrives, ItemInv
        <4>2. CASE At(s, "reserve")
          <5>1. photos'[x] = NewPhoto(requests[s].who) /\ h = TakenFor(requests[s]) /\ devices' = devices
            BY <3>1, <3>3, <4>2 DEF Arrives, At
          <5>2. requests[s].who # Absent /\ devices[requests[s].who] = h
            BY <4>1, <4>2, <5>1 DEF OnItsWay, At, TakenFor
          <5>3. QED
            BY <1>8, <5>1, <5>2
        <4>3. CASE At(s, "enroll")
          BY <1>6, <3>1, <3>3, <4>1, <4>3 DEF Arrives, At, RequestIds, Untaken
        <4>4. CASE At(s, "name")
          BY <2>2, <3>1, <3>3, <4>1, <4>4 DEF Arrives, At
        <4>5. QED
          BY <3>3, <4>2, <4>3, <4>4 DEF Arrives
      <3>4. QED
        BY <2>1, <3>1, <3>2, <3>3 DEF PhotoGoes
    <2>3. ASSUME x \notin disturbed', x \in objects' \cup granted' PROVE photos'[x] # Absent
      <3>1. CASE Stays(x)
        BY <1>0, <2>1, <2>3, <3>1 DEF PhotoGoes, Stays, Traced
      <3>2. ASSUME NEW s \in Slots, Arrives(x, s) PROVE photos'[x] # Absent
        <4>1. requests[s].photo = x /\ OnItsWay(s) /\ x \notin disturbed
          BY <1>0, <2>3, <3>2 DEF Arrives, ItemInv
        <4>2. QED
          BY <1>6, <1>9, <3>2, <4>1 DEF Arrives, At, OnItsWay, ReqOK
      <3>3. QED
        BY <2>1, <3>1, <3>2 DEF PhotoGoes
    <2>4. ASSUME Deleting, x \notin disturbed'
          PROVE  /\ x \notin disturbed /\ owner'[x] = owner[x] /\ (x \in objects' => x \in objects)
                 /\ photos'[x] = Absent <=> photos[x] = Absent
                 /\ photos[x] # Absent => photos'[x].device = photos[x].device
      <3>1. x \notin granted /\ \A s \in Slots : requests[s].photo # x
        BY <1>0, <2>4 DEF Upcoming
      <3>2. Stays(x)
        BY <2>1, <3>1 DEF PhotoGoes, Arrives
      <3>3. QED
        BY <1>0, <2>1, <2>4, <3>1, <3>2 DEF PhotoGoes, Stays
    <2>5. Ours(x)' => ~Deleting \/ Ours(x)
      BY <1>1, <1>2, <2>4 DEF Ours
    <2>6. ToErase(x)'
      <3>1. Deleting \/ ToErase(x)'
        BY <1>2 DEF ToErase, Past, Leaving, OpAt, Deleting, Deletion
      <3>2. OpAt("taken") /\ Ours(x)' =>
                x \in op.todo \/ (photos'[x].device # Absent /\ devices'[photos'[x].device] = k)
        <4>1. SUFFICES ASSUME OpAt("taken"), Ours(x)', x \notin op.todo
                       PROVE  photos'[x].device # Absent /\ devices'[photos'[x].device] = k
          OBVIOUS
        <4>2. Deleting /\ Ours(x) /\ k # Absent
          BY <1>1, <2>5, <4>1, AccountsAssumption DEF OpAt, Deleting, Deletion, Inv, OpOK, Erasing
        <4>3. photos[x] # Absent /\ photos[x].device # Absent /\ devices[photos[x].device] = k
          BY <1>1, <2>1, <4>1, <4>2 DEF ToErase, Ours
        <4>4. photos'[x].device = photos[x].device
          BY <2>4, <4>1, <4>2, <4>3 DEF Ours
        <4>5. QED
          BY <1>5, <1>7, <4>2, <4>3, <4>4
      <3>3. QED
        BY <1>2, <2>1, <2>5, <3>1, <3>2 DEF ToErase, Past, OpAt
    <2>7. Cleared(x)'
      <3>1. Deleting \/ Cleared(x)'
        BY DEF Cleared, OpAt, Deleting, Deletion
      <3>2. QED
        BY <1>1, <1>2, <2>1, <2>4, <3>1 DEF Cleared, OpAt
    <2>8. QED
      BY <2>2, <2>3, <2>6, <2>7 DEF Traced, TakenBy
  <1>12. ASSUME NEW s \in Slots PROVE OnItsWay(s)'
    <2>1. Becomes(s) \/ requests'[s] = requests[s]
      BY DEF Moves, RequestsGo
    <2>2. CASE requests'[s] = requests[s]
      <3> DEFINE r == requests[s]
      <3>1. r.pc = "name" => r.photo \in disturbed' \/ photos'[r.photo] # Absent
        <4>1. SUFFICES ASSUME r.pc = "name", r.photo \notin disturbed' PROVE photos'[r.photo] # Absent
          OBVIOUS
        <4>2. PICK x \in Photos : x = r.photo
          BY <1>6, <4>1 DEF ReqOK
        <4>3. photos[x] # Absent
          BY <1>0, <4>1, <4>2 DEF ItemInv, OnItsWay
        <4>4. PhotoGoes(x)
          BY DEF Moves
        <4>5. QED
          BY <1>6, <1>9, <4>2, <4>3, <4>4 DEF PhotoGoes, Stays, Arrives, At, ReqOK
      <3>2. r.pc = "reserve" => \/ r.who = Absent /\ r.user.home = Absent
                                \/ r.who # Absent /\ (devices'[r.who] # Absent \/ r.photo \in disturbed')
        BY <1>0, <1>5, <1>6 DEF ItemInv, OnItsWay, ReqOK
      <3>3. r' = r
        BY <2>2
      <3>4. QED
        BY <2>2, <3>1, <3>2 DEF OnItsWay
    <2>3. CASE requests'[s] = Idle
      BY <2>3, IsIdle DEF OnItsWay
    <2>4. CASE Onward(s)
      BY <2>4 DEF OnItsWay, Onward
    <2>5. CASE Begun(s)
      <3>1. requests'[s].pc # "name"
        BY <2>5 DEF Begun
      <3>2. requests'[s].pc = "reserve" =>
               \/ requests'[s].who = Absent /\ requests'[s].user.home = Absent
               \/ requests'[s].who \in Cameras /\ devices[requests'[s].who] # Absent
        BY <2>5 DEF Begun
      <3>3. QED
        BY <1>5, <3>1, <3>2, AccountsAssumption DEF OnItsWay
    <2>6. QED
      BY <2>1, <2>2, <2>3, <2>4, <2>5 DEF Becomes
  <1>13. QED
    BY <1>10, <1>11, <1>12 DEF ItemInv

LEMMA ItemsElsewhere ==
    ASSUME Inv, Ids, Planned, ItemInv, Elsewhere, UNCHANGED requests, NEW e, Disturbs(e),
           UNCHANGED <<store, catalog>> \/ LinkStep \/ RegisterDevice
    PROVE  ItemInv'
  <1>0. disturbed \subseteq disturbed'
    BY Noted
  <1>1. ASSUME NEW p \in People PROVE Evicted(p)'
    BY DEF Elsewhere, Evicted, OpAt, Erasing
  <1>2. ASSUME NEW x \in Photos PROVE ToErase(x)' /\ Cleared(x)'
    <2>1. op'.pc \notin {"taken", "photos", "row", "job", "devices", "tokens", "people", "seats", "house"}
      BY DEF Elsewhere, Erasing
    <2>2. op'.pc \in Leaving => ~op'.whole
      BY DEF Elsewhere, Fetched
    <2>3. QED
      BY <2>1, <2>2 DEF ToErase, Cleared, Past, OpAt
  <1>3. ASSUME \A p \in People : StillSeated(p)', \A x \in Photos : Traced(x)',
               \A s \in Slots : OnItsWay(s)'
        PROVE  ItemInv'
    BY <1>1, <1>2, <1>3 DEF ItemInv
  <1>4. \A s \in Slots : ReqOK(requests[s]) /\ OnItsWay(s)
    BY DEF Inv, RequestsOK, ItemInv
  <1>5. CASE UNCHANGED <<store, catalog>>
    <2>1. UNCHANGED <<seats, devices, people, photos, owner, objects, granted>>
      BY <1>5 DEF catalog, homes, cameras, captures
    <2>2. QED
      BY <1>0, <1>3, <1>4, <2>1 DEF ItemInv, StillSeated, Traced, TakenBy, OnItsWay
  <1>6. CASE LinkStep
    <2>1. Links /\ op.pc \in Linking
      BY <1>6, StepLinks, LinkGoes
    <2>2. \A p \in People : StillSeated(p)'
      <3>1. ASSUME NEW p \in People, p \in people', p \notin disturbed', owner'[p] # Absent
            PROVE  p \in seats'[owner'[p]]
        <4>1. CASE owner'[p] = owner[p]
          <5>1. p \in people
            BY <2>1, <3>1, <4>1 DEF Links, Fresh, Ids, ItemIds
          <5>2. PICK h \in Homes : h = owner[p]
            BY <3>1, <4>1 DEF Inv, OwnerOK
          <5>3. p \in seats[h]
            BY <1>0, <3>1, <4>1, <5>1, <5>2 DEF ItemInv, StillSeated
          <5>4. QED
            BY <2>1, <4>1, <5>2, <5>3 DEF Links
        <4>2. CASE owner'[p] = Home /\ p \in seats'[Home]
          BY <4>2
        <4>3. QED
          BY <2>1, <4>1, <4>2 DEF Links
      <3>2. QED
        BY <3>1 DEF StillSeated
    <2>3. \A x \in Photos : Traced(x)'
      <3>1. ASSUME NEW x \in Photos, NEW h \in Homes, TakenBy(x, h), photos[x] # Absent
            PROVE  TakenBy(x, h)'
        BY <2>1, <3>1 DEF Links, TakenBy
      <3>2. \A x \in Photos : owner'[x] = owner[x] /\ owner[x] \in Homes \cup {Absent}
        BY <2>1 DEF Links, Inv, OwnerOK
      <3>3. ASSUME NEW x \in Photos, x \notin disturbed', photos'[x] # Absent, owner'[x] # Absent
            PROVE  \/ photos'[x].person \in seats'[owner'[x]]
                   \/ photos'[x].device # Absent /\ devices'[photos'[x].device] = owner'[x]
        <4>1. PICK h \in Homes : h = owner[x] /\ owner'[x] = h
          BY <3>2, <3>3
        <4>2. photos[x] # Absent /\ TakenBy(x, h)
          BY <1>0, <2>1, <3>3, <4>1 DEF ItemInv, Traced, Links
        <4>3. QED
          BY <3>1, <4>1, <4>2 DEF TakenBy
      <3>4. ASSUME NEW x \in Photos, x \notin disturbed', x \in objects' \cup granted'
            PROVE  photos'[x] # Absent
        BY <1>0, <2>1, <3>4 DEF ItemInv, Traced, Links
      <3>5. QED
        BY <3>3, <3>4 DEF Traced, TakenBy
    <2>4. \A s \in Slots : OnItsWay(s)'
      BY <1>0, <1>4, <2>1 DEF OnItsWay, Links
    <2>5. QED
      BY <1>3, <2>2, <2>3, <2>4
  <1>7. CASE RegisterDevice
    <2>1. Registers /\ Home # Absent
      BY <1>7, DeviceRegisters DEF Planned, RegisterDevice, OpAt
    <2>2. \A p \in People : StillSeated(p)'
      BY <1>0, <2>1 DEF StillSeated, Registers, ItemInv
    <2>3. ASSUME NEW x \in Photos PROVE Traced(x)'
      <3>1. ASSUME x \notin disturbed', photos'[x] # Absent, owner'[x] # Absent
            PROVE  \/ photos'[x].person \in seats'[owner'[x]]
                   \/ photos'[x].device # Absent /\ devices'[photos'[x].device] = owner'[x]
        <4>1. photos' = photos /\ seats' = seats /\ x \notin disturbed
              /\ photos[x].device \in Cameras \cup {Absent}
          BY <1>0, <2>1, <3>1 DEF Registers, Inv, CapturesOK, Photo
        <4>2. CASE owner'[x] # owner[x]
          BY <2>1, <3>1, <4>1, <4>2, AccountsAssumption DEF Registers
        <4>3. CASE owner'[x] = owner[x]
          <5>1. TakenBy(x, owner[x])
            BY <3>1, <4>1, <4>3 DEF ItemInv, Traced
          <5>2. QED
            BY <2>1, <3>1, <4>1, <4>3, <5>1 DEF Registers, TakenBy
        <4>4. QED
          BY <4>2, <4>3
      <3>2. x \notin disturbed' /\ x \in objects' \cup granted' => photos'[x] # Absent
        BY <1>0, <2>1 DEF ItemInv, Traced, Registers
      <3>3. QED
        BY <3>1, <3>2 DEF Traced, TakenBy
    <2>4. \A s \in Slots : OnItsWay(s)'
      <3>1. \A s \in Slots : At(s, "reserve") => requests[s].who \in Cameras \cup {Absent}
        BY <1>4 DEF ReqOK, At
      <3>2. \A c \in Cameras : devices[c] # Absent => devices'[c] # Absent
        BY <2>1 DEF Registers
      <3>3. QED
        BY <1>0, <1>4, <2>1, <3>1, <3>2 DEF OnItsWay, Registers, At
    <2>5. QED
      BY <1>3, <2>2, <2>3, <2>4
  <1>8. QED
    BY <1>5, <1>6, <1>7

(* Each table is changed by one stage.                                     *)
LEMMA DeletionChanges ==
    ASSUME DeletionStep
    PROVE  /\ seats' = seats \/ EraseSeats
           /\ devices' = devices \/ EraseDevices
           /\ photos' = photos \/ EraseRow
           /\ households' = households \/ EraseHousehold
           /\ tokens' = tokens \/ EraseTokens
           /\ users' = users \/ DeleteUserRow
           /\ bindings' = bindings \/ Unbind
           /\ sessions' = sessions \/ DeleteSessions
           /\ passkeys' = passkeys \/ DeletePasskeys
           /\ ceremonies' = ceremonies \/ DeleteCeremonies
  BY DEF DeletionStep, HouseholdPeers, ListCaptures, ListTaken, EraseObject, EraseRow, EraseAnalysis,
     ErasedPhotos, EraseDevices, EraseTokens, ErasePeople, EraseSeats, EraseHousehold, Unbind,
     DeleteSessions, DeletePasskeys, DeleteCeremonies, DeleteUserRow, MarkFulfilled,
     store, catalog, homes, cameras, captures

(* How a stage is reached.                                                 *)
LEMMA DeletionReaches ==
    ASSUME OpOK, Planned, DeletionStep, ~OpEnds
    PROVE  /\ op'.who = op.who /\ op'.user = op.user
           /\ op'.pc # "peers" /\ op'.pc # "rest"
           /\ op'.pc = "captures" => HouseholdPeers /\ Peers = {}
           /\ op'.pc = "taken" => ListCaptures
           /\ op'.pc = "photos" => ListTaken \/ EraseAnalysis
           /\ op'.pc = "row" => EraseObject
           /\ op'.pc = "job" => EraseRow
           /\ op'.pc = "devices" => ErasedPhotos
           /\ op'.pc = "tokens" => EraseDevices
           /\ op'.pc = "people" => EraseTokens
           /\ op'.pc = "seats" => ErasePeople
           /\ op'.pc = "house" => EraseSeats
           /\ op'.pc = "unbind" => IF op'.whole THEN EraseHousehold ELSE HouseholdPeers
           /\ op'.pc = "sessions" => Unbind
           /\ op'.pc = "passkeys" => DeleteSessions
           /\ op'.pc = "ceremonies" => DeletePasskeys
           /\ op'.pc = "user" => DeleteCeremonies
           /\ op'.pc = "fulfil" => DeleteUserRow
           /\ op'.pc \in Leaving \ {"unbind"} => op'.whole = op.whole
  <1>1. OpAt("house") => op.whole
    BY DEF Planned, Erasing, OpAt
  <1>2. HouseholdPeers => ~op.whole
    BY DEF HouseholdPeers, Planned
  <1>3. EraseHousehold => OpAt("house")
    BY DEF EraseHousehold
  <1>4. QED
    BY <1>1, <1>2, <1>3, DeletionGoes DEF Further, Leaving

LEMMA ItemsDeleting ==
    ASSUME Inv, Ids, Planned, ItemInv, DeletionStep, UNCHANGED requests, NEW e, Disturbs(e)
    PROVE  ItemInv'
  <1>0. OpOK /\ Lessens /\ Deleting
    BY DeletionLessens, DeletionStages DEF Inv, Deleting, Deletion, Erasing, Leaving
  <1>1. PICK k, z : k = Home /\ z = Current
    OBVIOUS
  <1>2. /\ disturbed \subseteq disturbed'
        /\ \A x \in Photos : x \notin disturbed' => x \notin granted /\ \A s \in Slots : requests[s].photo # x
    BY <1>0, Noted DEF Upcoming
  <1>3. /\ seats \in [Homes -> SUBSET People] /\ devices \in [Cameras -> Homes \cup {Absent}]
        /\ photos \in [Photos -> {Absent} \cup Photo] /\ people \subseteq People
    BY DEF Inv, HomesOK, CamerasOK, CapturesOK
  <1>4. op.pc \in Erasing => k \in Homes /\ k # Absent
    BY <1>0, <1>1, AccountsAssumption DEF OpOK
  <1>5. OpEnds => op'.pc = "rest"
    BY <1>5, RestIs DEF OpEnds
  <1>6. ASSUME ~OpEnds PROVE Home' = k /\ op'.who = op.who
    BY <1>0, <1>1, <1>6, DeletionReaches DEF Home
  (* The seats and the cameras of other households stay.                   *)
  <1>7. ASSUME NEW h \in Homes, EraseSeats => h # k PROVE seats'[h] = seats[h]
    <2>1. EraseSeats => seats' = [seats EXCEPT ![k] = {}]
      BY <1>1 DEF EraseSeats
    <2>2. QED
      BY <1>3, <1>7, <2>1, DeletionChanges
  <1>8. ASSUME NEW c \in Cameras, devices[c] # Absent, EraseDevices => devices[c] # k
        PROVE  devices'[c] = devices[c]
    BY <1>1, <1>8, DeletionChanges DEF EraseDevices
  <1>9. ASSUME NEW p \in People PROVE StillSeated(p)' /\ Evicted(p)'
    <2>1. StillSeated(p) /\ Evicted(p) /\ owner'[p] = owner[p] /\ (p \in people' => p \in people)
      BY <1>0 DEF ItemInv, Lessens
    <2>2. ASSUME p \in people', p \notin disturbed', owner'[p] # Absent
          PROVE  p \in seats'[owner'[p]]
      <3>1. PICK h \in Homes : h = owner[p]
        BY <2>1, <2>2 DEF Inv, OwnerOK
      <3>2. p \in seats[h] /\ (OpAt("seats") => h # k)
        BY <1>1, <1>2, <2>1, <2>2, <3>1 DEF StillSeated, Evicted
      <3>3. QED
        BY <1>7, <2>1, <3>1, <3>2 DEF EraseSeats
    <2>3. ASSUME op'.pc = "seats", p \in people', p \notin disturbed', owner'[p] = k, ~OpEnds PROVE FALSE
      <3>1. ErasePeople
        BY <1>0, <2>3, DeletionReaches
      <3>2. people' = people \ seats[k] /\ k # Absent
        BY <1>1, <1>4, <3>1 DEF ErasePeople, OpAt, Erasing
      <3>3. QED
        BY <1>2, <2>1, <2>3, <3>2 DEF StillSeated
    <2>4. Evicted(p)'
      BY <1>5, <1>6, <2>3, RestIs DEF Evicted, OpAt, OpEnds
    <2>5. QED
      BY <2>2, <2>4 DEF StillSeated
  <1>10. ASSUME NEW x \in Photos PROVE Traced(x)' /\ ToErase(x)' /\ Cleared(x)'
    <2>1. /\ Traced(x) /\ ToErase(x) /\ Cleared(x) /\ owner'[x] = owner[x]
          /\ photos'[x] \in {photos[x], Absent} /\ (x \in objects' => x \in objects)
          /\ (x \in granted' => x \in granted)
      BY <1>0 DEF ItemInv, Lessens
    <2>2. ASSUME x \notin disturbed', photos'[x] # Absent, owner'[x] # Absent
          PROVE  \/ photos'[x].person \in seats'[owner'[x]]
                 \/ photos'[x].device # Absent /\ devices'[photos'[x].device] = owner'[x]
      <3>1. PICK h \in Homes : h = owner[x]
        BY <2>1, <2>2 DEF Inv, OwnerOK
      <3>2. photos'[x] = photos[x] /\ photos[x] # Absent /\ TakenBy(x, h) /\ h # Absent
            /\ photos[x].device \in Cameras \cup {Absent}
        BY <1>2, <1>3, <2>1, <2>2, <3>1 DEF Traced, Photo
      <3>3. OpAt("devices") \/ OpAt("seats") => h # k
        BY <1>1, <1>2, <2>1, <2>2, <3>1, <3>2 DEF ToErase, Ours, Past, OpAt
      <3>4. seats'[h] = seats[h]
        BY <1>7, <3>3 DEF EraseSeats
      <3>5. photos[x].device # Absent /\ devices[photos[x].device] = h =>
                devices'[photos[x].device] = h
        BY <1>8, <3>2, <3>3 DEF EraseDevices
      <3>6. QED
        BY <2>1, <3>1, <3>2, <3>4, <3>5 DEF TakenBy
    <2>3. ASSUME x \notin disturbed', x \in objects' \cup granted' PROVE photos'[x] # Absent
      <3>1. photos[x] # Absent /\ x \in objects
        BY <1>2, <2>1, <2>3 DEF Traced
      <3>2. CASE EraseRow
        <4>1. photos' = [photos EXCEPT ![z] = Absent] /\ OpAt("row")
          BY <1>1, <3>2 DEF EraseRow
        <4>2. x # z
          BY <1>1, <1>2, <2>1, <2>3, <3>1, <4>1 DEF Cleared
        <4>3. QED
          BY <1>3, <3>1, <4>1, <4>2
      <3>3. QED
        BY <3>1, <3>2, DeletionChanges
    <2>4. ASSUME ~OpEnds, Ours(x)' PROVE Ours(x) /\ photos'[x] = photos[x]
      BY <1>1, <1>2, <1>6, <2>1, <2>4 DEF Ours
    <2>5. ToErase(x)'
      <3>1. SUFFICES ASSUME ~OpEnds, Ours(x)'
                     PROVE  /\ op'.pc = "taken" => \/ x \in op'.todo
                                                   \/ photos'[x].device # Absent /\ devices'[photos'[x].device] = k
                            /\ op'.pc \in {"photos", "row", "job"} => x \in op'.todo
                            /\ ~Past({"devices", "tokens", "people", "seats", "house"})'
        BY <1>5, <1>6, RestIs DEF ToErase, Past, Leaving, OpAt, OpEnds
      <3>2. Ours(x) /\ photos'[x] = photos[x] /\ photos[x] # Absent /\ owner[x] = k /\ x \notin disturbed
        BY <1>1, <2>4, <3>1 DEF Ours
      <3>3. ASSUME op'.pc = "taken"
            PROVE  \/ x \in op'.todo
                   \/ photos'[x].device # Absent /\ devices'[photos'[x].device] = k
        <4>1. ListCaptures
          BY <1>0, <3>1, <3>3, DeletionReaches
        <4>2. op'.todo = {y \in Photos : photos[y] # Absent /\ photos[y].person \in seats[k]}
          BY <1>0, <1>1, <4>1, ListsFurther DEF ListCaptures
        <4>3. devices' = devices /\ k # Absent
          BY <1>4, <4>1 DEF ListCaptures, OpAt, Erasing, catalog, cameras
        <4>4. TakenBy(x, k)
          BY <2>1, <3>2, <4>3 DEF Traced
        <4>5. QED
          BY <3>2, <4>2, <4>3, <4>4 DEF TakenBy
      <3>4. ASSUME op'.pc = "photos" PROVE x \in op'.todo
        <4>1. CASE ListTaken
          <5>1. PICK S : S = op.todo \cup {y \in Photos : /\ photos[y] # Absent /\ photos[y].device # Absent
                                                          /\ devices[photos[y].device] = k}
            OBVIOUS
          <5>2. op'.todo = S /\ OpAt("taken")
            BY <1>0, <1>1, <4>1, <5>1, ListsFurther DEF ListTaken
          <5>3. x \in op.todo \/ (photos[x].device # Absent /\ devices[photos[x].device] = k)
            BY <1>1, <2>1, <3>2, <5>2 DEF ToErase
          <5>4. QED
            BY <3>2, <5>1, <5>2, <5>3
        <4>2. CASE EraseAnalysis
          <5>1. PICK S : S = op.todo \ {z}
            OBVIOUS
          <5>2. op' = [op EXCEPT !.pc = "photos", !.todo = S] /\ OpAt("job")
            BY <1>1, <4>2, <5>1 DEF EraseAnalysis
          <5>3. op'.todo = S
            BY <1>0, <5>2, ListsFurther
          <5>4. x \in op.todo /\ x # z
            BY <1>1, <2>1, <3>2, <5>2 DEF ToErase, Cleared, OpAt
          <5>5. QED
            BY <5>1, <5>3, <5>4
        <4>3. QED
          BY <1>0, <3>1, <3>4, <4>1, <4>2, DeletionReaches
      <3>5. ASSUME op'.pc \in {"row", "job"} PROVE x \in op'.todo
        <4>1. (EraseObject /\ OpAt("photos")) \/ (EraseRow /\ OpAt("row"))
          BY <1>0, <3>1, <3>5, DeletionReaches DEF EraseObject, EraseRow
        <4>2. op'.todo = op.todo
          BY <1>0, <4>1, GoesFurther DEF EraseObject, EraseRow
        <4>3. QED
          BY <2>1, <3>2, <4>1, <4>2 DEF ToErase, OpAt
      <3>6. ASSUME Past({"devices", "tokens", "people", "seats", "house"})' PROVE FALSE
        <4>1. CASE ErasedPhotos
          BY <2>1, <3>2, <4>1 DEF ErasedPhotos, ToErase, OpAt
        <4>2. CASE ~ErasedPhotos
          <5>1. Past({"devices", "tokens", "people", "seats", "house"})
            BY <1>0, <3>1, <3>6, <4>2, DeletionStages, DeletionReaches
            DEF Past, Leaving, EraseDevices, EraseTokens, ErasePeople, EraseSeats, EraseHousehold,
                Unbind, DeleteSessions, DeletePasskeys, DeleteCeremonies, DeleteUserRow, OpAt
          <5>2. QED
            BY <2>1, <3>2, <5>1 DEF ToErase
        <4>3. QED
          BY <4>1, <4>2
      <3>7. QED
        BY <3>3, <3>4, <3>5, <3>6
    <2>6. Cleared(x)'
      <3>1. ASSUME op'.pc = "row", x = Current', x \notin disturbed', ~OpEnds PROVE x \notin objects'
        <4>1. EraseObject
          BY <1>0, <3>1, DeletionReaches
        <4>2. op'.todo = op.todo /\ objects' = objects \ {z}
          BY <1>0, <1>1, <4>1, GoesFurther DEF EraseObject
        <4>3. x = z
          BY <1>1, <3>1, <4>2 DEF Current
        <4>4. QED
          BY <4>2, <4>3
      <3>2. ASSUME op'.pc = "job", x = Current', x \notin disturbed', ~OpEnds PROVE photos'[x] = Absent
        <4>1. EraseRow
          BY <1>0, <3>2, DeletionReaches
        <4>2. op'.todo = op.todo /\ photos' = [photos EXCEPT ![z] = Absent]
          BY <1>0, <1>1, <4>1, GoesFurther DEF EraseRow
        <4>3. x = z
          BY <1>1, <3>2, <4>2 DEF Current
        <4>4. QED
          BY <1>3, <4>2, <4>3
      <3>3. QED
        BY <1>5, <3>1, <3>2, RestIs DEF Cleared, OpAt, OpEnds
    <2>7. QED
      BY <2>2, <2>3, <2>5, <2>6 DEF Traced, TakenBy
  <1>11. ASSUME NEW s \in Slots PROVE OnItsWay(s)'
    <2>1. ReqOK(requests[s]) /\ OnItsWay(s) /\ requests'[s] = requests[s]
      BY DEF Inv, RequestsOK, ItemInv
    <2>2. QED
      BY <1>2, <2>1 DEF OnItsWay, ReqOK
  <1>12. QED
    BY <1>9, <1>10, <1>11 DEF ItemInv

-----------------------------------------------------------------------------
(* A deletion that nothing disturbed has erased what its stages say        *)

Clean == Deleting /\ op.who \notin disturbed
HomeErased ==
    /\ Past(Erasing) => Accountants(Home) \subseteq {op.who}
    /\ Past({"tokens", "people", "seats", "house"}) => \A c \in Cameras : devices[c] # Home
    /\ Past({"people", "seats", "house"}) => Home \notin tokens
    /\ Past({"house"}) => seats[Home] = {}
    /\ Past({}) => households[Home] = Absent
AccountErased ==
    /\ op.pc \in Leaving \ {"unbind"} => bindings[op.who] = Absent
    /\ op.pc \in Leaving \ {"unbind", "sessions"} => op.who \notin sessions
    /\ op.pc \in {"ceremonies", "user", "fulfil"} => op.who \notin passkeys
    /\ op.pc \in {"user", "fulfil"} => \A c \in Ceremonies : ceremonies[c].user # op.who
    /\ OpAt("fulfil") => ~Registered(op.who)
CleanInv == Clean => HomeErased /\ AccountErased

(* While nothing is under way and nobody begins anything, only faces are   *)
(* worked on beside the deletion.                                          *)
LEMMA QuietSteps ==
    ASSUME Deleting, op.who \notin disturbed', op' = op, NEW e, Disturbs(e), Steps \/ (Events /\ e)
    PROVE  DeletionStep \/ UNCHANGED <<accounts, homes, cameras, photos, objects, granted, owner>>
  <1>1. ~Busy /\ ~(e /\ op' = op)
    BY Noted
  <1>2. Steps
    BY <1>1
  <1>3. granted = {} /\ \A s \in Slots : requests[s].pc = "idle"
    BY <1>1, IsIdle DEF Busy
  <1>4. ASSUME NEW s \in Slots PROVE ~AccountStep(s) /\ ~HouseholdStep(s)
    BY <1>3 DEF AccountStep, CreateSession, StoreOffer, StoreChallenge, AddPasskey, Accept, LookUp,
       RecordWish, HouseholdStep, AddMember, SignupUser, SignupHousehold, SignupPerson, SignupLink,
       SignupRole, SignupLost, BindHousehold, MintFor, Reserve, ReserveEnrollment, NameEnrollment, At
  <1>5. ASSUME NEW x \in Photos PROVE ~PhotoStep(x)
    BY <1>3 DEF PhotoStep, PutObject, Finalize, GrantEnds
  <1>6. ASSUME NEW x \in Photos, FaceStep(x)
        PROVE  UNCHANGED <<accounts, homes, cameras, photos, objects, granted, owner>>
    BY <1>6 DEF FaceStep, Complete
  <1>7. OpStep => DeletionStep
    BY DEF OpStep, LinkStep, WidenGrid, SeatPerson, SeatMembers, LinkHousehold, SetHouseholdRole,
       PointBinding, LinkLost, RegisterDevice, RunAgain, Deleting, Deletion, OpAt
  <1>8. QED
    BY <1>2, <1>4, <1>5, <1>6, <1>7, Zenon DEF Steps, Requests

LEMMA CleanDeleting ==
    ASSUME Inv, Planned, Deleting, HomeErased, AccountErased, DeletionStep
    PROVE  HomeErased' /\ AccountErased'
  <1>0. OpOK /\ Lessens
    BY DeletionLessens DEF Inv
  <1>1. PICK k, a : k = Home /\ a = op.who
    OBVIOUS
  <1>2. CASE OpEnds
    BY <1>2, RestIs DEF OpEnds, HomeErased, AccountErased, Past, Leaving, Erasing, OpAt
  <1>3. CASE ~OpEnds
    <2>1. Home' = k /\ op'.who = a
      BY <1>0, <1>1, <1>3, DeletionReaches DEF Home
    <2>2. a \in Users
      BY <1>0, <1>1 DEF OpOK, Deleting
    <2>3. /\ users \in [Users -> {Absent} \cup User] /\ bindings \in [Users -> Homes \cup {Absent}]
          /\ seats \in [Homes -> SUBSET People] /\ households \in [Homes -> {Absent, SmallGrid, LargeGrid}]
          /\ k \in Homes \cup {Absent}
      BY <1>0, <1>1 DEF Inv, StoreOK, HomesOK, OpOK, Command, User, Home
    <2>4. /\ Past(Erasing)' => Past(Erasing) \/ (HouseholdPeers /\ Peers = {})
          /\ Past({"tokens", "people", "seats", "house"})' =>
                 k \in Homes /\ (EraseDevices \/ Past({"tokens", "people", "seats", "house"}))
          /\ Past({"people", "seats", "house"})' => EraseTokens \/ Past({"people", "seats", "house"})
          /\ Past({"house"})' => k \in Homes /\ (EraseSeats \/ Past({"house"}))
          /\ Past({})' => k \in Homes /\ (EraseHousehold \/ Past({}))
      <3>1. op.whole => k \in Homes
        BY <1>1, <2>3 DEF Planned
      <3>2. op.pc \in Erasing \cup {"peers"} => k \in Homes
        BY <1>0, <1>1 DEF OpOK
      <3>3. QED
        BY <1>0, <1>3, <3>1, <3>2, DeletionReaches, DeletionGoes
        DEF Past, Leaving, Erasing, OpAt, Further, ListCaptures, ListTaken, EraseObject, EraseRow,
            EraseAnalysis, ErasedPhotos, EraseDevices, EraseTokens, ErasePeople, EraseSeats,
            EraseHousehold, Unbind, DeleteSessions, DeletePasskeys, DeleteCeremonies, DeleteUserRow,
            HouseholdPeers, Planned
    <2>5. Past(Erasing)' => Accountants(k)' \subseteq {a}
      <3>1. Past(Erasing)' => Accountants(k) \subseteq {a}
        BY <1>1, <2>4 DEF HomeErased, Peers
      <3>2. Accountants(k)' \subseteq Accountants(k)
        BY <1>0 DEF Lessens, Accountants, HasHome, Registered
      <3>3. QED
        BY <3>1, <3>2
    <2>6. Past({"tokens", "people", "seats", "house"})' => \A c \in Cameras : devices'[c] # k
      <3>1. SUFFICES ASSUME Past({"tokens", "people", "seats", "house"})', NEW c \in Cameras
                     PROVE  devices'[c] # k
        OBVIOUS
      <3>2. k \in Homes /\ k # Absent /\ (Past({"tokens", "people", "seats", "house"}) \/ EraseDevices)
        BY <2>4, <3>1, AccountsAssumption
      <3>3. devices[c] # k \/ EraseDevices
        BY <1>1, <3>2 DEF HomeErased
      <3>4. devices'[c] \in {devices[c], Absent}
        BY <1>0 DEF Lessens
      <3>5. QED
        BY <1>1, <3>2, <3>3, <3>4 DEF EraseDevices
    <2>7. Past({"people", "seats", "house"})' => k \notin tokens'
      BY <1>0, <1>1, <2>4 DEF HomeErased, EraseTokens, Lessens
    <2>8. Past({"house"})' => seats'[k] = {}
      <3>1. EraseSeats => seats' = [seats EXCEPT ![k] = {}]
        BY <1>1 DEF EraseSeats
      <3>2. QED
        BY <1>0, <1>1, <2>3, <2>4, <3>1 DEF HomeErased, Lessens
    <2>9. Past({})' => households'[k] = Absent
      <3>1. EraseHousehold => households' = [households EXCEPT ![k] = Absent]
        BY <1>1 DEF EraseHousehold
      <3>2. QED
        BY <1>0, <1>1, <2>3, <2>4, <3>1 DEF HomeErased, Lessens
    <2>10. HomeErased'
      BY <2>1, <2>5, <2>6, <2>7, <2>8, <2>9 DEF HomeErased
    <2>11. AccountErased'
      <3>1. op'.pc \in Leaving \ {"unbind"} => bindings'[a] = Absent
        <4>1. Unbind => bindings' = [bindings EXCEPT ![a] = Absent]
          BY <1>1 DEF Unbind
        <4>2. op'.pc \in Leaving \ {"unbind"} => op.pc \in Leaving \ {"unbind"} \/ Unbind
          BY <1>0, <1>3, DeletionReaches
          DEF Leaving, DeleteSessions, DeletePasskeys, DeleteCeremonies, DeleteUserRow, OpAt
        <4>3. QED
          BY <1>0, <1>1, <2>2, <2>3, <4>1, <4>2 DEF AccountErased, Lessens
      <3>2. op'.pc \in Leaving \ {"unbind", "sessions"} => a \notin sessions'
        <4>1. op'.pc \in Leaving \ {"unbind", "sessions"} =>
                  op.pc \in Leaving \ {"unbind", "sessions"} \/ DeleteSessions
          BY <1>0, <1>3, DeletionReaches
          DEF Leaving, DeletePasskeys, DeleteCeremonies, DeleteUserRow, OpAt
        <4>2. sessions' = sessions \/ sessions' = sessions \ {a}
          BY <1>1, DeletionChanges DEF DeleteSessions
        <4>3. QED
          BY <1>1, <4>1, <4>2 DEF AccountErased, DeleteSessions
      <3>3. op'.pc \in {"ceremonies", "user", "fulfil"} => a \notin passkeys'
        <4>1. op'.pc \in {"ceremonies", "user", "fulfil"} =>
                  op.pc \in {"ceremonies", "user", "fulfil"} \/ DeletePasskeys
          BY <1>0, <1>3, DeletionReaches DEF DeleteCeremonies, DeleteUserRow, OpAt
        <4>2. passkeys' = passkeys \/ passkeys' = passkeys \ {a}
          BY <1>1, DeletionChanges DEF DeletePasskeys
        <4>3. QED
          BY <1>1, <4>1, <4>2 DEF AccountErased, DeletePasskeys
      <3>4. op'.pc \in {"user", "fulfil"} => \A c \in Ceremonies : ceremonies'[c].user # a
        <4>1. op'.pc \in {"user", "fulfil"} => op.pc \in {"user", "fulfil"} \/ DeleteCeremonies
          BY <1>0, <1>3, DeletionReaches DEF DeleteUserRow, OpAt
        <4>2. DeleteCeremonies => \A c \in Ceremonies : ceremonies'[c].user # a
          BY <1>1, <2>2, AccountsAssumption DEF DeleteCeremonies, Forgotten, Gone
        <4>3. ~DeleteCeremonies => ceremonies' = ceremonies
          BY DeletionChanges
        <4>4. QED
          BY <1>1, <4>1, <4>2, <4>3 DEF AccountErased
      <3>5. op'.pc = "fulfil" => users'[a] = Absent
        <4>1. op'.pc = "fulfil" => DeleteUserRow
          BY <1>0, <1>3, DeletionReaches
        <4>2. DeleteUserRow => users' = [users EXCEPT ![a] = Absent]
          BY <1>1 DEF DeleteUserRow
        <4>3. QED
          BY <2>2, <2>3, <4>1, <4>2
      <3>6. QED
        BY <2>1, <3>1, <3>2, <3>3, <3>4, <3>5 DEF AccountErased, OpAt, Registered
    <2>12. QED
      BY <2>10, <2>11
  <1>4. QED
    BY <1>2, <1>3

LEMMA CleanKept ==
    ASSUME Inv, Planned, CleanInv, Next
    PROVE  CleanInv'
  <1>1. PICK e \in BOOLEAN : Disturbs(e) /\ (Steps \/ (Events /\ e))
    BY NextNotes
  <1>2. CASE Elsewhere
    BY <1>2 DEF CleanInv, HomeErased, AccountErased, Elsewhere, Past, Fetched, OpAt, Leaving, Erasing
  <1>3. CASE DeletionStep
    <2>1. Deleting
      BY <1>3, DeletionStages DEF Inv, Deleting, Deletion, Erasing, Leaving
    <2>2. CASE OpEnds
      BY <2>2, RestIs DEF OpEnds, CleanInv, Clean, Deleting, Deletion
    <2>3. CASE ~OpEnds
      <3>1. op'.who = op.who /\ disturbed \subseteq disturbed'
        BY <1>1, <1>3, <2>3, DeletionReaches, Noted DEF Inv
      <3>2. QED
        BY <1>3, <2>1, <3>1, CleanDeleting DEF CleanInv, Clean
    <2>4. QED
      BY <2>2, <2>3
  <1>4. CASE op' = op
    <2>1. SUFFICES ASSUME Deleting, op.who \notin disturbed'
                   PROVE  CleanInv'
      BY <1>4 DEF CleanInv, Clean, Deleting
    <2>2. HomeErased /\ AccountErased
      BY <1>1, <2>1, Noted DEF CleanInv, Clean
    <2>3. CASE UNCHANGED <<accounts, homes, cameras, photos, objects, granted, owner>>
      <3>1. UNCHANGED <<users, sessions, passkeys, ceremonies, households, seats, bindings, tokens, devices, op>>
        BY <1>4, <2>3 DEF accounts, store, homes, cameras
      <3>2. PICK k, a : k = Home /\ a = op.who
        OBVIOUS
      <3>3. Home' = k /\ op'.who = a
        BY <3>1, <3>2 DEF Home
      <3>4. HomeErased'
        BY <2>2, <3>1, <3>2, <3>3 DEF HomeErased, Past, Accountants, HasHome, Registered
      <3>5. AccountErased'
        BY <2>2, <3>1, <3>2, <3>3 DEF AccountErased, OpAt, Registered
      <3>6. QED
        BY <3>4, <3>5 DEF CleanInv
    <2>4. QED
      BY <1>1, <1>3, <1>4, <2>1, <2>3, QuietSteps
  <1>5. QED
    BY <1>1, <1>2, <1>3, <1>4, NextKinds, OthersGo DEF OpStep

-----------------------------------------------------------------------------
(* What is erased                                                          *)

(* Nothing under way reaches an account or a household that is erased.     *)
UserGone(u) ==
    /\ Forgets(u)
    /\ \A s \in Slots : requests[s].who # u
    /\ op.pc \in Linking => op.who # u
HomeGone(h) ==
    /\ Gutted(h) /\ Accountants(h) = {}
    /\ \A s \in Slots : /\ requests[s].user.home # h
                        /\ At(s, "bind") /\ requests[s].user.home = Absent => bindings[requests[s].who] # h
    /\ \A x \in granted : owner[x] # h
    /\ op.pc \in Linking \cup {"register"} => Home # h
(* An account without a household is bound to none.                        *)
Bound(u) ==
    /\ Registered(u) /\ users[u].home = Absent => bindings[u] = Absent
    /\ \A s \in Slots : At(s, "bind") /\ requests[s].who = u /\ requests[s].user.home # Absent
                        /\ Registered(u) => users[u].home # Absent
    /\ op.pc \in {"role", "point"} /\ op.who = u /\ Registered(u) => users[u].home # Absent
GoneInv == /\ \A u \in Users : Bound(u)
           /\ \A u \in Users \cap erased : UserGone(u)
           /\ \A h \in Homes \cap erased : HomeGone(h)

-----------------------------------------------------------------------------
(* ... when anybody but the operator does something                        *)

(* A request that was there, with its account.                             *)
LEMMA RequestsCome ==
    ASSUME Moves, NEW s \in Slots
    PROVE  requests'[s] = requests[s] \/ requests'[s] = Idle \/ Onward(s) \/ Begun(s)
  BY DEF Moves, RequestsGo, Becomes

LEMMA UserGoneMoves ==
    ASSUME Inv, Ids, Moves, op' = op, NEW u \in Users, u \in known, UserGone(u)
    PROVE  UserGone(u)'
  <1>1. AccountGoes(u)
    BY DEF Moves
  <1>2. ~Active(u) /\ ~Created(u)
    BY DEF UserGone, Active, Created
  <1>3. Forgets(u)'
    BY <1>1, <1>2 DEF AccountGoes, UserGone
  <1>4. ASSUME NEW s \in Slots PROVE requests'[s].who # u
    <2>1. u # Absent /\ u \notin Cameras
      BY AccountsAssumption
    <2>2. ~Registered(u) /\ u \notin passkeys /\ requests[s].who # u
      BY DEF UserGone, Forgets
    <2>3. Onward(s) => requests'[s].who # u
      BY <2>2 DEF Onward
    <2>4. Begun(s) => requests'[s].who # u
      BY <2>1, <2>2 DEF Begun, Fresh
    <2>5. QED
      BY <2>1, <2>2, <2>3, <2>4, RequestsCome, IsIdle
  <1>5. QED
    BY <1>3, <1>4 DEF UserGone

LEMMA HomeGoneMoves ==
    ASSUME Inv, Inv', Ids, Moves, op' = op, NEW h \in Homes, h \in known, HomeGone(h),
           \A u \in Users : Bound(u), NEW e, Disturbs(e)
    PROVE  HomeGone(h)'
  <1>0. /\ h # Absent /\ disturbed \subseteq disturbed' /\ Home' = Home
        /\ \A s \in Slots : ReqOK(requests[s]) /\ RequestIds(s) /\ requests[s].user.home # h
    BY Noted, AccountsAssumption DEF Inv, RequestsOK, Ids, HomeGone, Home
  <1>1. /\ households[h] = Absent /\ seats[h] = {} /\ h \notin tokens
        /\ \A c \in Cameras : devices[c] # h
        /\ \A p \in people : p \notin disturbed => owner[p] # h
        /\ \A x \in Photos : x \notin disturbed /\ owner[x] = h => photos[x] = Absent /\ x \notin objects
        /\ Accountants(h) = {}
    BY DEF HomeGone, Gutted
  <1>2. households'[h] = Absent /\ seats'[h] = {} /\ h \notin tokens'
    BY <1>0, <1>1 DEF Moves, HomeGoes, Fresh
  <1>3. ASSUME NEW c \in Cameras PROVE devices'[c] # h
    BY <1>0, <1>1 DEF Moves, CameraGoes
  <1>4. ASSUME NEW p \in people', p \notin disturbed' PROVE owner'[p] # h
    <2>1. p \in People
      BY <1>4 DEF Inv, HomesOK
    <2>2. PersonGoes(p) /\ (p \notin known => owner[p] = Absent)
      BY <2>1 DEF Moves, Ids, ItemIds
    <2>3. QED
      BY <1>0, <1>1, <1>4, <2>1, <2>2 DEF PersonGoes, Fresh
  (* The owner of a photo on its way in is none that is erased.            *)
  <1>5. ASSUME NEW x \in Photos PROVE owner'[x] = h => Stays(x) \/ (owner'[x] = owner[x] /\ photos[x] = Absent
                                                                  /\ owner[x] = Absent)
    <2>1. ASSUME NEW s \in Slots, Arrives(x, s), owner'[x] = h
          PROVE  owner'[x] = owner[x] /\ photos[x] = Absent /\ owner[x] = Absent
      <3>1. CASE At(s, "reserve")
        <4>1. owner'[x] = TakenFor(requests[s]) /\ requests[s].who \in Cameras \cup {Absent}
          BY <1>0, <2>1, <3>1 DEF Arrives, At, ReqOK
        <4>2. QED
          BY <1>0, <1>1, <2>1, <4>1 DEF TakenFor
      <3>2. CASE At(s, "enroll")
        BY <1>0, <2>1, <3>2 DEF Arrives, At, RequestIds, Untaken
      <3>3. CASE At(s, "name")
        BY <1>0, <2>1, <3>3 DEF Arrives, At
      <3>4. QED
        BY <2>1, <3>1, <3>2, <3>3 DEF Arrives
    <2>2. QED
      BY <2>1 DEF Moves, PhotoGoes
  <1>6. ASSUME NEW x \in Photos, owner'[x] = h
        PROVE  /\ x \notin granted'
               /\ x \notin disturbed' => photos'[x] = Absent /\ x \notin objects'
    <2>1. Stays(x) /\ owner[x] = h
      BY <1>0, <1>5, <1>6 DEF Stays
    <2>2. x \notin granted
      BY <2>1 DEF HomeGone
    <2>3. x \in objects' => x \in objects
      BY <2>2 DEF Moves, PhotoGoes
    <2>4. QED
      BY <1>0, <1>1, <2>1, <2>2, <2>3 DEF Stays
  <1>7. granted' \subseteq Photos
    BY DEF Inv, CapturesOK
  <1>8. ASSUME NEW u \in Users, users'[u] # Absent PROVE users'[u].home # h
    <2>1. AccountGoes(u) /\ (Registered(u) => users[u].home # h) /\ NewUser.home = Absent
      BY <1>1 DEF Moves, Accountants, HasHome, NewUser
    <2>2. Linked(u) => users'[u].home # h
      BY <1>0 DEF Linked
    <2>3. QED
      BY <1>0, <1>8, <2>1, <2>2 DEF AccountGoes, Registered
  <1>9. ASSUME NEW s \in Slots
        PROVE  /\ requests'[s].user.home # h
               /\ requests'[s].pc = "bind" /\ requests'[s].user.home = Absent =>
                      bindings'[requests'[s].who] # h
    <2>1. ASSUME NEW u \in Users, bindings[u] # h PROVE bindings'[u] # h
      BY <1>0, <2>1 DEF Moves, AccountGoes
    <2>2. At(s, "bind") => requests[s].who \in Users
      BY <1>0 DEF At, ReqOK, OfAccount
    <2>3. CASE requests'[s] = requests[s]
      <3>1. At(s, "bind") /\ requests[s].user.home = Absent => bindings[requests[s].who] # h
        BY DEF HomeGone
      <3>2. At(s, "bind") /\ requests[s].user.home = Absent => bindings'[requests[s].who] # h
        BY <2>1, <2>2, <3>1
      <3>3. QED
        BY <1>0, <2>3, <3>2 DEF At
    <2>4. CASE requests'[s] = Idle
      BY <1>0, <2>4, IsIdle
    <2>5. CASE Onward(s)
      <3>1. At(s, "bind") /\ requests[s].user.home = Absent => bindings[requests[s].who] # h
        BY DEF HomeGone
      <3>2. QED
        BY <1>0, <2>5, <3>1 DEF Onward, At, Fresh
    <2>6. CASE Begun(s)
      <3>1. PICK r : r = requests'[s]
        OBVIOUS
      <3>2. \A u \in Users : Registered(u) => users[u].home # h
        BY <1>1 DEF Accountants, HasHome
      <3>3. r.user.home # h
        BY <1>0, <1>1, <2>6, <3>1, <3>2 DEF Begun
      <3>4. ASSUME r.pc = "bind", r.user.home = Absent PROVE bindings'[r.who] # h
        <4>1. r.who \in Users /\ Registered(r.who) /\ users[r.who].home = Absent
          BY <2>6, <3>1, <3>4 DEF Begun
        <4>2. bindings[r.who] = Absent
          BY <4>1 DEF Bound
        <4>3. QED
          BY <1>0, <2>1, <4>1, <4>2
      <3>5. QED
        BY <3>1, <3>3, <3>4
    <2>7. QED
      BY <2>3, <2>4, <2>5, <2>6, RequestsCome
  <1>10. Gutted(h)'
    BY <1>2, <1>3, <1>4, <1>6 DEF Gutted
  <1>11. Accountants(h)' = {}
    BY <1>8 DEF Accountants, HasHome, Registered
  <1>12. op.pc \in Linking \cup {"register"} => Home # h
    BY DEF HomeGone
  <1>13. QED
    BY <1>0, <1>6, <1>7, <1>9, <1>10, <1>11, <1>12 DEF HomeGone, At

LEMMA BoundMoves ==
    ASSUME Inv, Ids, Moves, op' = op, NEW u \in Users, Bound(u)
    PROVE  Bound(u)'
  <1>0. \A s \in Slots : ReqOK(requests[s]) /\ RequestIds(s)
    BY DEF Inv, RequestsOK, Ids
  <1>1. AccountGoes(u)
    BY DEF Moves
  (* An account keeps some household, ...                                  *)
  <1>2. ASSUME Registered(u), users[u].home # Absent, users'[u] # Absent
        PROVE  users'[u].home # Absent
    <2>1. Linked(u) => users'[u].home # Absent
      BY <1>0 DEF Linked, At, RequestIds
    <2>2. QED
      BY <1>1, <1>2, <2>1 DEF AccountGoes
  (* ... and one that is new has asked for nothing.                        *)
  <1>3. ASSUME ~Registered(u), users'[u] # Absent
        PROVE  /\ bindings'[u] = Absent /\ u \notin known
               /\ \A s \in Slots : ~At(s, "create") => requests[s].who # u
    <2>1. PICK t \in Slots : At(t, "create") /\ requests[t].who = u
      BY <1>1, <1>3 DEF AccountGoes, Registered, Created
    <2>2. u \notin known
      BY <1>0, <2>1 DEF At, RequestIds
    <2>3. \A s \in Slots : ~At(s, "create") => requests[s].who # u
      BY <1>0, <2>2 DEF At, RequestIds
    <2>4. bindings[u] = Absent
      BY <2>2 DEF Ids, AccountIds, Forgets
    <2>5. QED
      BY <1>1, <2>2, <2>3, <2>4 DEF AccountGoes, At
  <1>4. users'[u] # Absent /\ users'[u].home = Absent => bindings'[u] = Absent
    <2>1. SUFFICES ASSUME users'[u] # Absent, users'[u].home = Absent, Registered(u)
                   PROVE  bindings'[u] = Absent
      BY <1>3
    <2>2. users[u].home = Absent
      BY <1>2, <2>1
    <2>3. bindings[u] = Absent
      BY <2>1, <2>2 DEF Bound
    <2>4. \A s \in Slots : ~(At(s, "bind") /\ requests[s].who = u /\ requests[s].user.home # Absent)
      BY <2>1, <2>2 DEF Bound
    <2>5. QED
      BY <1>1, <2>3, <2>4 DEF AccountGoes
  <1>5. ASSUME NEW s \in Slots, requests'[s].pc = "bind", requests'[s].who = u,
               requests'[s].user.home # Absent, users'[u] # Absent
        PROVE  users'[u].home # Absent
    <2>1. CASE requests'[s] = requests[s]
      <3>1. Registered(u)
        BY <1>3, <1>5, <2>1 DEF At
      <3>2. QED
        BY <1>2, <1>5, <2>1, <3>1 DEF Bound, At
    <2>2. CASE requests'[s] = Idle
      BY <1>5, <2>2, IsIdle
    <2>3. CASE Onward(s)
      BY <1>5, <2>3 DEF Onward
    <2>4. CASE Begun(s)
      BY <1>2, <1>5, <2>4 DEF Begun
    <2>5. QED
      BY <2>1, <2>2, <2>3, <2>4, RequestsCome
  <1>6. op.pc \in {"role", "point"} /\ op.who = u /\ users'[u] # Absent => users'[u].home # Absent
    <2>1. SUFFICES ASSUME op.pc \in {"role", "point"}, op.who = u, users'[u] # Absent
                   PROVE  users'[u].home # Absent
      OBVIOUS
    <2>2. Registered(u)
      BY <1>3, <2>1, AccountsAssumption DEF Ids, OpIds
    <2>3. QED
      BY <1>2, <2>1, <2>2 DEF Bound
  <1>7. QED
    BY <1>4, <1>5, <1>6 DEF Bound, Registered, At

-----------------------------------------------------------------------------
(* ... and when the operator does                                          *)

LEMMA UserGoneDeletes ==
    ASSUME Lessens, UNCHANGED requests, op'.pc \notin Linking, NEW u \in Users, UserGone(u)
    PROVE  UserGone(u)'
  BY DEF UserGone, Lessens

LEMMA HomeGoneDeletes ==
    ASSUME Inv, Lessens, UNCHANGED requests, op'.pc \notin Linking \cup {"register"},
           disturbed \subseteq disturbed', NEW h \in Homes, HomeGone(h)
    PROVE  HomeGone(h)'
  <1>0. h # Absent /\ \A s \in Slots : At(s, "bind") => requests[s].who \in Users
    BY AccountsAssumption DEF Inv, RequestsOK, ReqOK, OfAccount, At
  <1>1. Gutted(h)'
    <2>1. people \subseteq People
      BY DEF Inv, HomesOK
    <2>2. QED
      BY <1>0, <2>1 DEF HomeGone, Gutted, Lessens
  <1>2. Accountants(h)' = {}
    BY DEF HomeGone, Accountants, HasHome, Registered, Lessens
  <1>3. \A s \in Slots : /\ requests[s].user.home # h
                         /\ At(s, "bind") /\ requests[s].user.home = Absent =>
                                bindings'[requests[s].who] # h
    BY <1>0 DEF HomeGone, Lessens
  <1>4. \A x \in granted' : owner'[x] # h
    BY DEF HomeGone, Lessens
  <1>5. QED
    BY <1>1, <1>2, <1>3, <1>4 DEF HomeGone, At

LEMMA BoundDeletes ==
    ASSUME Lessens, UNCHANGED requests, op'.pc \notin Linking, NEW u \in Users, Bound(u)
    PROVE  Bound(u)'
  BY DEF Bound, Lessens, Registered, At, Linking

LEMMA UserGoneLinks ==
    ASSUME Inv, Links, LinkStep, UNCHANGED requests, NEW u \in Users, UserGone(u)
    PROVE  UserGone(u)'
  <1>1. op.pc \in Linking /\ (op'.pc \in Linking => op'.who = op.who)
    BY LinkGoes, RestIs DEF OpEnds, Further, Linking
  <1>2. u # op.who
    BY <1>1 DEF UserGone
  <1>3. Forgets(u)'
    BY <1>2 DEF UserGone, Forgets, Links, Registered
  <1>4. QED
    BY <1>1, <1>2, <1>3 DEF UserGone

LEMMA HomeGoneLinks ==
    ASSUME Inv, Inv', Ids, Links, LinkStep, UNCHANGED requests, disturbed \subseteq disturbed',
           NEW h \in Homes, HomeGone(h)
    PROVE  HomeGone(h)'
  <1>0. h # Absent /\ \A s \in Slots : At(s, "bind") => requests[s].who \in Users
    BY AccountsAssumption DEF Inv, RequestsOK, ReqOK, OfAccount, At
  <1>1. op.pc \in Linking /\ (op'.pc \in Linking \cup {"register"} => op'.user = op.user)
    BY LinkGoes, RestIs DEF OpEnds, Further, Linking
  <1>2. Home # h
    BY <1>1 DEF HomeGone
  <1>3. Gutted(h)'
    <2>1. households'[h] = Absent /\ seats'[h] = {} /\ h \notin tokens' /\ \A c \in Cameras : devices'[c] # h
      BY <1>2 DEF HomeGone, Gutted, Links
    <2>2. \A p \in People : p \notin known => owner[p] = Absent
      BY DEF Ids, ItemIds
    <2>3. ASSUME NEW p \in People, p \in people', p \notin disturbed' PROVE owner'[p] # h
      BY <1>0, <1>2, <2>2, <2>3 DEF HomeGone, Gutted, Links, Fresh
    <2>4. \A x \in Photos : x \notin disturbed' /\ owner'[x] = h => photos'[x] = Absent /\ x \notin objects'
      BY DEF HomeGone, Gutted, Links
    <2>5. people' \subseteq People
      BY DEF Inv, HomesOK
    <2>6. QED
      BY <2>1, <2>3, <2>4, <2>5 DEF Gutted
  <1>4. Accountants(h)' = {}
    BY <1>2 DEF HomeGone, Accountants, HasHome, Registered, Links
  <1>5. \A s \in Slots : /\ requests[s].user.home # h
                         /\ At(s, "bind") /\ requests[s].user.home = Absent =>
                                bindings'[requests[s].who] # h
    BY <1>0, <1>2 DEF HomeGone, Links
  <1>6. \A x \in granted' : owner'[x] # h
    BY DEF HomeGone, Links, Inv, CapturesOK
  <1>7. QED
    BY <1>1, <1>2, <1>3, <1>4, <1>5, <1>6 DEF HomeGone, At, Home

LEMMA BoundLinks ==
    ASSUME Inv, Planned, Links, LinkStep, UNCHANGED requests, NEW u \in Users, Bound(u)
    PROVE  Bound(u)'
  <1>0. op.pc \in Linking /\ Home # Absent
    BY LinkGoes DEF Planned
  <1>1. ASSUME Registered(u)', Registered(u) => users[u].home # Absent
        PROVE  users'[u].home # Absent
    BY <1>0, <1>1 DEF Links, Registered
  <1>2. Registered(u)' => Registered(u)
    BY DEF Links, Registered
  <1>3. Registered(u)' /\ users'[u].home = Absent => bindings'[u] = Absent
    <2>1. SUFFICES ASSUME Registered(u)', users'[u].home = Absent PROVE bindings'[u] = Absent
      OBVIOUS
    <2>2. users[u].home = Absent /\ Registered(u)
      BY <1>1, <1>2, <2>1
    <2>3. bindings[u] = Absent
      BY <2>2 DEF Bound
    <2>4. OpAt("point") => u # op.who
      BY <2>2 DEF Bound, OpAt
    <2>5. QED
      BY <2>3, <2>4 DEF Links
  <1>4. \A s \in Slots : At(s, "bind") /\ requests[s].who = u /\ requests[s].user.home # Absent
                         /\ Registered(u)' => users'[u].home # Absent
    BY <1>1, <1>2 DEF Bound
  <1>5. op'.pc \in {"role", "point"} /\ op'.who = u /\ Registered(u)' => users'[u].home # Absent
    <2>1. SUFFICES ASSUME op'.pc \in {"role", "point"}, op'.who = u, Registered(u)'
                   PROVE  users'[u].home # Absent
      OBVIOUS
    <2>2. op.who = u /\ ((LinkHousehold /\ op'.pc = "role") \/ (SetHouseholdRole /\ op'.pc = "point"))
      BY <2>1, LinkGoes, RestIs DEF OpEnds, Further, Linking
    <2>3. CASE SetHouseholdRole
      BY <1>1, <2>1, <2>2, <2>3 DEF SetHouseholdRole, OpAt, Bound
    <2>4. CASE LinkHousehold
      <3>1. PICK k, q : k = Home /\ q = op.person
        OBVIOUS
      <3>2. users' = [users EXCEPT ![u].home = k, ![u].person = q] /\ Registered(u)
        BY <2>2, <2>4, <3>1 DEF LinkHousehold, LinkUser
      <3>3. users \in [Users -> {Absent} \cup User]
        BY DEF Inv, StoreOK
      <3>4. users[u] \in User
        BY <3>2, <3>3 DEF Registered
      <3>5. users'[u] = [users[u] EXCEPT !.home = k, !.person = q]
        BY <3>2, <3>3
      <3>6. users'[u].home = k
        BY <3>4, <3>5 DEF User
      <3>7. QED
        BY <1>0, <3>1, <3>6
    <2>5. QED
      BY <2>2, <2>3, <2>4
  <1>6. QED
    BY <1>3, <1>4, <1>5 DEF Bound, At, Registered

LEMMA GoneRegisters ==
    ASSUME Inv, Ids, RegisterDevice, UNCHANGED requests, disturbed \subseteq disturbed'
    PROVE  /\ \A u \in Users : (Bound(u) => Bound(u)') /\ (UserGone(u) => UserGone(u)')
           /\ \A h \in Homes : HomeGone(h) => HomeGone(h)'
  <1>1. Registers /\ op'.pc = "rest" /\ OpAt("register")
    BY DeviceRegisters, RestIs DEF RegisterDevice, OpEnds
  <1>2. ASSUME NEW u \in Users PROVE (Bound(u) => Bound(u)') /\ (UserGone(u) => UserGone(u)')
    BY <1>1 DEF Bound, UserGone, Forgets, Registers, Registered, At, Linking
  <1>3. ASSUME NEW h \in Homes, HomeGone(h) PROVE HomeGone(h)'
    <2>0. h # Absent /\ Home # h /\ people \subseteq People /\ granted \subseteq Photos
      BY <1>1, <1>3, AccountsAssumption DEF HomeGone, OpAt, Inv, HomesOK, CapturesOK
    <2>1. Gutted(h)'
      <3>1. households'[h] = Absent /\ seats'[h] = {} /\ h \notin tokens' /\ \A c \in Cameras : devices'[c] # h
        BY <1>1, <1>3, <2>0 DEF HomeGone, Gutted, Registers
      <3>2. \A p \in people' : p \notin disturbed' => owner'[p] # h
        BY <1>1, <1>3, <2>0 DEF HomeGone, Gutted, Registers
      <3>3. \A x \in Photos : x \notin disturbed' /\ owner'[x] = h => photos'[x] = Absent /\ x \notin objects'
        BY <1>1, <1>3, <2>0 DEF HomeGone, Gutted, Registers
      <3>4. QED
        BY <3>1, <3>2, <3>3 DEF Gutted
    <2>2. Accountants(h)' = {}
      BY <1>1, <1>3 DEF HomeGone, Accountants, HasHome, Registered, Registers
    <2>3. \A x \in granted' : owner'[x] # h
      BY <1>1, <1>3, <2>0 DEF HomeGone, Registers
    <2>4. QED
      BY <1>1, <1>3, <2>1, <2>2, <2>3 DEF HomeGone, At, Registers, Linking
  <1>4. QED
    BY <1>2, <1>3

(* The command begins, begins again or stops.                              *)
LEMMA GoneStarts ==
    ASSUME Inv, OpStarts \/ OpFails \/ RunAgain, UNCHANGED <<store, catalog, requests>>,
           disturbed \subseteq disturbed'
    PROVE  /\ \A u \in Users : (Bound(u) => Bound(u)') /\ (UserGone(u) => UserGone(u)')
           /\ \A h \in Homes : HomeGone(h) => HomeGone(h)'
  <1>1. UNCHANGED <<users, sessions, passkeys, ceremonies, households, seats, people, bindings, tokens,
                    devices, photos, objects, granted, owner, requests>>
    BY DEF store, catalog, homes, cameras, captures
  <1>2. \/ Read
        \/ op'.pc \notin Linking \cup {"register"}
    BY StartsGo, AgainGoes, FailsGo, RestIs DEF Fetched, Stopped, OpEnds, Linking
  <1>3. Read => /\ op'.pc \notin {"role", "point"} /\ op'.who \in Users /\ Registered(op'.who)
                /\ households[op'.user.home] # Absent
    BY DEF Read
  <1>4. ASSUME NEW u \in Users PROVE (Bound(u) => Bound(u)') /\ (UserGone(u) => UserGone(u)')
    BY <1>1, <1>2, <1>3 DEF Bound, UserGone, Forgets, Registered, At, Linking
  <1>5. ASSUME NEW h \in Homes, HomeGone(h) PROVE HomeGone(h)'
    <2>1. Gutted(h)'
      BY <1>1, <1>5 DEF HomeGone, Gutted
    <2>2. op'.pc \in Linking \cup {"register"} => op'.user.home # h
      BY <1>2, <1>3, <1>5 DEF HomeGone, Gutted
    <2>3. Accountants(h)' = {}
      BY <1>1, <1>5 DEF HomeGone, Accountants, HasHome, Registered
    <2>4. QED
      BY <1>1, <1>5, <2>1, <2>2, <2>3 DEF HomeGone, At, Home
  <1>6. QED
    BY <1>4, <1>5

(* The end of a deletion that nothing disturbed.                           *)
LEMMA FulfilledIsGone ==
    ASSUME Inv, Planned, ItemInv, CleanInv, MarkFulfilled, op.who \notin disturbed',
           NEW e, Disturbs(e), UNCHANGED requests, NEW k, k = Home, NEW a, a = op.who
    PROVE  /\ UserGone(a)'
           /\ op.whole => k \in Homes /\ HomeGone(k)'
  <1>0. /\ OpAt("fulfil") /\ Deleting /\ Clean /\ op'.pc = "rest" /\ disturbed \subseteq disturbed'
        /\ granted = {} /\ \A s \in Slots : requests[s] = Idle
    BY Noted, RestIs DEF MarkFulfilled, OpEnds, Deleting, Deletion, OpAt, Clean, Busy
  <1>1. UNCHANGED <<users, sessions, passkeys, ceremonies, households, seats, people, bindings, tokens,
                    devices, photos, objects, granted, owner, requests>>
    BY DEF MarkFulfilled, catalog, homes, cameras, captures
  <1>2. k = Home /\ a = op.who
    OBVIOUS
  <1>3. a \in Users /\ a # Absent
    BY <1>0, <1>2, AccountsAssumption DEF Inv, OpOK, Deleting
  <1>4. Forgets(a)
    BY <1>0, <1>2 DEF CleanInv, AccountErased, Forgets, OpAt, Leaving
  <1>5. UserGone(a)'
    BY <1>0, <1>1, <1>3, <1>4, IsIdle DEF UserGone, Forgets, Registered, Linking
  <1>6. ASSUME op.whole PROVE k \in Homes /\ HomeGone(k)'
    <2>1. k \in Homes /\ k # Absent
      BY <1>2, <1>6 DEF Planned, Inv, OpOK, Command, User, Home
    <2>2. \A S : Past(S)
      BY <1>0, <1>6 DEF Past, OpAt, Leaving
    <2>3. /\ households[k] = Absent /\ seats[k] = {} /\ k \notin tokens /\ \A c \in Cameras : devices[c] # k
          /\ Accountants(k) \subseteq {a}
      BY <1>0, <1>2, <2>2 DEF CleanInv, HomeErased
    <2>4. Accountants(k) = {}
      BY <1>4, <2>3 DEF Forgets, Accountants, HasHome
    <2>5. ASSUME NEW p \in people, p \notin disturbed PROVE owner[p] # k
      <3>1. StillSeated(p)
        BY <2>5 DEF Inv, HomesOK, ItemInv
      <3>2. QED
        BY <2>1, <2>3, <2>5, <3>1 DEF StillSeated
    <2>6. ASSUME NEW x \in Photos, x \notin disturbed, owner[x] = k PROVE photos[x] = Absent /\ x \notin objects
      BY <1>2, <2>2, <2>6 DEF ItemInv, ToErase, Ours, Traced
    <2>7. Gutted(k)'
      BY <1>0, <1>1, <2>3, <2>5, <2>6 DEF Gutted
    <2>8. Accountants(k)' = {}
      BY <1>1, <2>4 DEF Accountants, HasHome, Registered
    <2>9. QED
      BY <1>0, <1>1, <2>1, <2>7, <2>8, IsIdle DEF HomeGone, At, Linking
  <1>7. QED
    BY <1>5, <1>6

LEMMA GoneKept ==
    ASSUME Inv, Inv', Ids, Planned, ItemInv, CleanInv, GoneInv, Next
    PROVE  GoneInv'
  <1>1. PICK e \in BOOLEAN : Disturbs(e) /\ (Steps \/ Events) /\ Finished
    BY NextNotes
  <1>2. disturbed \subseteq disturbed' /\ erased \subseteq known /\ erased \subseteq Users \cup Homes
    BY <1>1, Noted DEF Ids, OpIds
  (* What was erased stays so.                                             *)
  <1>3. /\ \A u \in Users : Bound(u)'
        /\ \A u \in Users \cap erased : UserGone(u)'
        /\ \A h \in Homes \cap erased : HomeGone(h)'
    <2>1. CASE op' = op /\ Moves
      BY <1>1, <1>2, <2>1, BoundMoves, UserGoneMoves, HomeGoneMoves DEF GoneInv
    <2>2. CASE DeletionStep /\ UNCHANGED requests
      <3>1. Lessens /\ op'.pc \notin Linking \cup {"register"}
        BY <2>2, DeletionLessens, DeletionStages, RestIs
        DEF Inv, OpEnds, Further, Erasing, Leaving, Linking
      <3>2. QED
        BY <1>2, <2>2, <3>1, BoundDeletes, UserGoneDeletes, HomeGoneDeletes DEF GoneInv
    <2>3. CASE LinkStep /\ UNCHANGED requests
      BY <1>2, <2>3, StepLinks, BoundLinks, UserGoneLinks, HomeGoneLinks DEF GoneInv
    <2>4. CASE RegisterDevice /\ UNCHANGED requests
      BY <1>2, <2>4, GoneRegisters DEF GoneInv
    <2>5. CASE OpStarts \/ OpFails \/ (RunAgain /\ UNCHANGED requests)
      <3>1. UNCHANGED <<store, catalog, requests>>
        BY <2>5 DEF OpStarts, OpFails, RunAgain, accounts
      <3>2. QED
        BY <1>2, <2>5, <3>1, GoneStarts DEF GoneInv
    <2>6. QED
      BY <1>1, <2>1, <2>2, <2>3, <2>4, <2>5, NextMoves DEF OpStep
  <1>4. CASE erased' = erased
    BY <1>3, <1>4 DEF GoneInv
  <1>5. CASE erased' # erased
    <2>1. PICK k, a : k = Home /\ a = op.who
      OBVIOUS
    <2>2. /\ OpAt("fulfil") /\ op' = Rest /\ a \notin disturbed'
          /\ erased' = erased \cup {a} \cup (IF op.whole THEN {k} ELSE {})
      BY <1>1, <1>5, <2>1, ErasedAt
    <2>3. MarkFulfilled /\ UNCHANGED requests
      <3>1. OpStep /\ UNCHANGED requests
        <4>1. ~OpStarts
          BY <2>2, StartsGo, RestIs DEF OpAt
        <4>2. ~OpFails
          BY <2>2, FailsGo, RestIs DEF OpAt, Deleting, Deletion
        <4>3. op' # op
          BY <2>2, RestIs DEF OpAt
        <4>4. QED
          BY <1>1, <4>1, <4>2, <4>3, NextKinds
      <3>2. DeletionStep
        BY <2>2, <3>1, LinkGoes DEF OpStep, RegisterDevice, RunAgain, OpAt, Linking
      <3>3. QED
        BY <2>2, <3>1, <3>2 DEF DeletionStep, HouseholdPeers, ListCaptures, ListTaken, EraseObject,
           EraseRow, EraseAnalysis, ErasedPhotos, EraseDevices, EraseTokens, ErasePeople, EraseSeats,
           EraseHousehold, Unbind, DeleteSessions, DeletePasskeys, DeleteCeremonies, DeleteUserRow,
           OpAt
    <2>4. UserGone(a)' /\ (op.whole => k \in Homes /\ HomeGone(k)')
      BY <1>1, <2>1, <2>2, <2>3, FulfilledIsGone
    <2>5. a \in Users /\ k \in Homes \cup {Absent}
      BY <2>1, <2>2 DEF Inv, OpOK, OpAt, Deletion, Command, User, Home
    <2>6. Users \cap Homes = {} /\ Absent \notin Users
      BY AccountsAssumption
    <2>7. ASSUME NEW u \in Users \cap erased' PROVE UserGone(u)'
      BY <1>3, <2>2, <2>4, <2>5, <2>6, <2>7
    <2>8. ASSUME NEW h \in Homes \cap erased' PROVE HomeGone(h)'
      BY <1>3, <2>2, <2>4, <2>5, <2>6, <2>8
    <2>9. QED
      BY <1>3, <2>7, <2>8 DEF GoneInv
  <1>6. QED
    BY <1>4, <1>5

-----------------------------------------------------------------------------
(* The whole invariant                                                     *)

EraseInv == Inv /\ Planned /\ Ids /\ ItemInv /\ CleanInv /\ GoneInv

LEMMA ItemsKept ==
    ASSUME Inv, Inv', Ids, Planned, ItemInv, Next
    PROVE  ItemInv'
  <1>1. PICK e \in BOOLEAN : Disturbs(e) /\ (Steps \/ Events)
    BY NextNotes
  <1>2. CASE op' = op /\ Moves
    BY <1>1, <1>2, ItemsMove
  <1>3. CASE DeletionStep /\ UNCHANGED requests
    BY <1>1, <1>3, ItemsDeleting
  <1>4. CASE (LinkStep \/ RegisterDevice) /\ UNCHANGED requests
    BY <1>1, <1>4, OthersGo, ItemsElsewhere
  <1>5. CASE OpStarts \/ OpFails \/ (RunAgain /\ UNCHANGED requests)
    <2>1. UNCHANGED <<store, catalog, requests>>
      BY <1>5 DEF OpStarts, OpFails, RunAgain, accounts
    <2>2. QED
      BY <1>1, <1>5, <2>1, OthersGo, ItemsElsewhere
  <1>6. QED
    BY <1>1, <1>2, <1>3, <1>4, <1>5, NextMoves DEF OpStep

LEMMA IdsKept ==
    ASSUME Inv, Inv', Ids, Planned, Next
    PROVE  Ids'
  <1>1. (Steps \/ Events) /\ Finished
    BY NextNotes
  <1>2. QED
    BY <1>1, NextMoves, IdsMove, IdsStep

LEMMA EraseStutters ==
    ASSUME EraseInv, UNCHANGED vars
    PROVE  EraseInv'
  <1>1. UNCHANGED <<users, sessions, passkeys, ceremonies, requests, households, seats, people, known,
                    bindings, tokens, devices, photos, objects, granted, owner, op, erased, disturbed>>
    BY DEF vars, accounts, store, catalog, homes, cameras, captures
  <1>2. Inv'
    BY NextOK DEF EraseInv
  <1>3. Planned' /\ CleanInv'
    BY <1>1 DEF EraseInv, Planned, CleanInv, Clean, HomeErased, AccountErased, Past, Home, OpAt, Deleting,
       Accountants, HasHome, Registered
  <1>4. Ids'
    BY <1>1 DEF EraseInv, Ids, AccountIds, HomeIds, OpIds, ItemIds, RequestIds, OfItsOwn, Untaken, Forgets,
       Registered, Home, At
  <1>5. ItemInv'
    BY <1>1 DEF EraseInv, ItemInv, StillSeated, Evicted, Traced, TakenBy, ToErase, Ours, Past, Cleared,
       Current, OnItsWay, Home, OpAt
  <1>6. GoneInv'
    BY <1>1 DEF EraseInv, GoneInv, Bound, UserGone, HomeGone, Gutted, Forgets, Accountants, HasHome,
       Registered, At, Home
  <1>7. QED
    BY <1>2, <1>3, <1>4, <1>5, <1>6 DEF EraseInv

LEMMA EraseKept == ASSUME EraseInv, [Next]_vars PROVE EraseInv'
  <1>1. CASE Next
    <2>1. Inv'
      BY NextOK DEF EraseInv
    <2>2. Planned'
      <3>1. CASE op' = op
        BY <3>1 DEF EraseInv, Planned, Home, OpAt
      <3>2. QED
        BY <1>1, <3>1, NextNotes, NextKinds, PlannedKept DEF EraseInv
    <2>3. Ids'
      BY <1>1, <2>1, IdsKept DEF EraseInv
    <2>4. ItemInv'
      BY <1>1, <2>1, ItemsKept DEF EraseInv
    <2>5. CleanInv'
      BY <1>1, CleanKept DEF EraseInv
    <2>6. GoneInv'
      BY <1>1, <2>1, GoneKept DEF EraseInv
    <2>7. QED
      BY <2>1, <2>2, <2>3, <2>4, <2>5, <2>6 DEF EraseInv
  <1>2. QED
    BY <1>1, EraseStutters

LEMMA EraseInit == ASSUME Init PROVE EraseInv
  <1>1. /\ FirstUser \in Users /\ FirstHome \in Homes /\ FirstPhoto \in Photos /\ Founder \in Cameras
        /\ Self \in [Users -> People]
    BY ServiceAssumption DEF FirstUser, FirstHome, FirstPhoto
  <1>2. /\ sessions = Started /\ passkeys = Started /\ tokens = {} /\ granted = {} /\ objects = Taken
        /\ \A c \in Ceremonies : ceremonies[c].user = Absent
        /\ requests = [s \in Slots |-> Idle]
        /\ seats = [h \in Homes |-> {Self[u] : u \in Accountants(h)}]
        /\ people = {Self[u] : u \in Started} /\ bindings = [u \in Users |-> Absent]
        /\ devices = [c \in Cameras |-> IF c = Founder THEN FirstHome ELSE Absent]
        /\ photos = [x \in Photos |-> IF x \in Taken THEN [NewPhoto(Founder) EXCEPT !.ready = TRUE]
                                      ELSE Absent]
        /\ known = Started \cup {Self[u] : u \in Started} \cup {users[u].home : u \in Started}
                   \cup Taken
        /\ erased = {} /\ disturbed = {}
    BY DEF Init
  <1>3. /\ Registered(FirstUser) /\ users[FirstUser].home = FirstHome /\ FirstUser \in Started
        /\ \A u \in Users : Registered(u) => u \in Started /\ users[u].home \in Homes
    BY <1>1 DEF Init, HasHome, Started, Registered
  <1>4. Taken \subseteq Photos /\ people \subseteq People
    BY <1>1, <1>2 DEF Taken, Started
  <1>5. \/ op = Rest
        \/ /\ op.pc = "peers" /\ op.who = FirstUser /\ op.user = users[FirstUser] /\ ~op.whole
    <2>1. PICK u, v : u = FirstUser /\ v = users[FirstUser]
      OBVIOUS
    <2>2. op = Rest \/ op = [Rest EXCEPT !.pc = "peers", !.who = u, !.user = v]
      BY <2>1 DEF Init
    <2>3. CASE op = [Rest EXCEPT !.pc = "peers", !.who = u, !.user = v]
      <3>1. op.pc = "peers" /\ op.who = u /\ op.user = v /\ op.whole = FALSE
        BY <2>3 DEF Rest
      <3>2. QED
        BY <2>1, <3>1
    <2>4. QED
      BY <2>2, <2>3
  <1>6. op.pc \in {"rest", "peers"} /\ (op.pc = "peers" => ~op.whole)
    BY <1>5, RestIs
  <1>7. \A s \in Slots : requests[s] = Idle /\ requests[s].pc = "idle"
    BY <1>2, IsIdle
  <1>8. \A y \in People \cup Photos :
            owner[y] = IF y \in Taken THEN FirstHome
                       ELSE IF y \in people THEN CHOOSE h \in Homes : y \in seats[h] ELSE Absent
    BY DEF Init
  <1>9. Ids
    <2>1. AccountIds
      <3>1. ASSUME NEW u \in Users, u \notin known PROVE Forgets(u)
        <4>1. ~Registered(u) /\ u \notin sessions /\ u \notin passkeys /\ u # Absent
          BY <1>2, <1>3, <3>1, AccountsAssumption DEF Started
        <4>2. QED
          BY <1>2, <4>1 DEF Forgets
      <3>2. \A u \in Users : Registered(u) => users[u].home \in known
        BY <1>2, <1>3
      <3>3. QED
        BY <1>2, <3>1, <3>2 DEF AccountIds
    <2>2. FirstHome \in known /\ FirstUser \in known
      BY <1>2, <1>3
    <2>3. HomeIds
      BY <1>2, <2>2 DEF HomeIds
    <2>4. OpIds
      BY <1>2, <1>3, <1>5, <2>2, RestIs DEF OpIds, Home, NewUser
    <2>5. ItemIds
      <3>1. people \subseteq known /\ Taken \subseteq known
        BY <1>2
      <3>2. ASSUME NEW p \in People, p \notin known PROVE owner[p] = Absent
        BY <1>4, <1>8, <3>1, <3>2, AccountsAssumption
      <3>3. ASSUME NEW x \in Photos, x \notin known PROVE Untaken(x)
        BY <1>2, <1>4, <1>8, <3>1, <3>3, AccountsAssumption DEF Untaken
      <3>4. QED
        BY <3>1, <3>2, <3>3 DEF ItemIds
    <2>6. \A s \in Slots : RequestIds(s)
      BY <1>7, IsIdle, AccountsAssumption DEF RequestIds
    <2>7. \A s, t \in Slots : OfItsOwn(s, t)
      BY <1>7, IsIdle DEF OfItsOwn, At
    <2>8. QED
      BY <2>1, <2>3, <2>4, <2>5, <2>6, <2>7 DEF Ids
  <1>10. ItemInv
    <2>1. ASSUME NEW p \in People PROVE StillSeated(p) /\ Evicted(p)
      <3>1. ASSUME p \in people PROVE p \in seats[owner[p]]
        <4>1. PICK u \in Started : p = Self[u]
          BY <1>2, <3>1
        <4>2. u \in Users /\ Registered(u)
          BY <4>1 DEF Started
        <4>3. PICK h \in Homes : h = users[u].home
          BY <1>3, <4>2
        <4>4. p \in seats[h]
          BY <1>2, <4>1, <4>2, <4>3 DEF Accountants, HasHome
        <4>5. owner[p] = CHOOSE g \in Homes : p \in seats[g]
          BY <1>4, <1>8, <3>1, AccountsAssumption
        <4>6. QED
          BY <4>4, <4>5
      <3>2. QED
        BY <1>6, <3>1 DEF StillSeated, Evicted, OpAt
    <2>2. ASSUME NEW x \in Photos PROVE Traced(x) /\ ToErase(x) /\ Cleared(x)
      <3>1. PICK r : r = [NewPhoto(Founder) EXCEPT !.ready = TRUE]
        OBVIOUS
      <3>2. r \in Photo /\ r.device = Founder
        BY <1>1, <3>1 DEF NewPhoto, Photo
      <3>3. r # Absent /\ Founder # Absent
        BY <1>1, <3>2, RowAssumption, AccountsAssumption
      <3>4. photos[x] = IF x \in Taken THEN r ELSE Absent
        BY <1>2, <3>1
      <3>5. x \in Taken => owner[x] = FirstHome
        BY <1>8
      <3>6. devices[Founder] = FirstHome
        BY <1>1, <1>2
      <3>7. Traced(x)
        BY <1>2, <3>2, <3>3, <3>4, <3>5, <3>6 DEF Traced, TakenBy
      <3>8. QED
        BY <1>6, <3>7 DEF ToErase, Cleared, Past, OpAt, Leaving
    <2>3. \A s \in Slots : OnItsWay(s)
      BY <1>7 DEF OnItsWay
    <2>4. QED
      BY <2>1, <2>2, <2>3 DEF ItemInv
  <1>11. CleanInv
    BY <1>6 DEF CleanInv, HomeErased, AccountErased, Past, OpAt, Leaving, Erasing
  <1>12. GoneInv
    <2>1. \A u \in Users : Bound(u)
      BY <1>2, <1>6, <1>7 DEF Bound, At
    <2>2. QED
      BY <1>2, <2>1 DEF GoneInv
  <1>13. QED
    BY <1>9, <1>10, <1>11, <1>12, InitOK, AdminsInit DEF EraseInv, AdminInv

(* For any number of accounts, households, requests and events, however    *)
(* often the command stopped and was run again: of an account whose        *)
(* deletion has run to its end nothing is left (delete_account), and of    *)
(* the household it left empty nothing either (erase_household), but for   *)
(* what was on its way in, or changed its owner, while the deletion ran.   *)
THEOREM ErasedStaysErased == Spec => []ErasedForGood
  <1>1. EraseInv => ErasedForGood
    BY DEF EraseInv, GoneInv, UserGone, HomeGone, ErasedForGood
  <1>2. Spec => []EraseInv
    BY EraseInit, EraseKept, PTL DEF Spec
  <1>3. QED
    BY <1>1, <1>2, PTL

-----------------------------------------------------------------------------
(* What a deletion leaves to the others                                    *)

(* A photograph is taken by a camera or to enroll a person, never both.    *)
OneKind(x) == photos[x] # Absent => photos[x].device = Absent \/ photos[x].person = Absent
Enrolling(s) ==
    LET r == requests[s] IN
    r.pc = "name" /\ photos[r.photo] # Absent => photos[r.photo].device = Absent
AtWork == op.pc \in {"row", "job"} => op.todo # {}

KindInv == /\ \A x \in Photos : OneKind(x)
           /\ \A s \in Slots : Enrolling(s)
           /\ AtWork

LEMMA NewPhotoIs ==
    ASSUME NEW c \in Cameras \cup {Absent}
    PROVE  NewPhoto(c) # Absent /\ NewPhoto(c).device = c /\ NewPhoto(c).person = Absent
  <1>1. NewPhoto(c) \in Photo /\ NewPhoto(c).device = c /\ NewPhoto(c).person = Absent
    BY DEF NewPhoto, Photo
  <1>2. QED
    BY <1>1, RowAssumption

LEMMA KindsMove ==
    ASSUME Inv, Ids, KindInv, Moves, op' = op
    PROVE  KindInv'
  <1>1. ASSUME NEW x \in Photos PROVE PhotoGoes(x) /\ OneKind(x)
    BY DEF Moves, KindInv
  <1>2. ASSUME NEW s \in Slots PROVE ReqOK(requests[s]) /\ RequestIds(s) /\ Enrolling(s)
    BY DEF Inv, RequestsOK, Ids, KindInv
  <1>3. ASSUME NEW x \in Photos PROVE OneKind(x)'
    <2>1. CASE Stays(x)
      BY <1>1, <2>1 DEF Stays, OneKind
    <2>2. ASSUME NEW s \in Slots, Arrives(x, s) PROVE OneKind(x)'
      <3>1. CASE At(s, "reserve")
        <4>1. requests[s].who \in Cameras \cup {Absent}
          BY <1>2, <3>1 DEF ReqOK, At
        <4>2. photos'[x] = NewPhoto(requests[s].who)
          BY <2>2, <3>1 DEF Arrives, At
        <4>3. QED
          BY <4>1, <4>2, NewPhotoIs DEF OneKind
      <3>2. CASE At(s, "enroll")
        <4>1. photos'[x] = NewPhoto(Absent)
          BY <2>2, <3>2 DEF Arrives, At
        <4>2. QED
          BY <4>1, NewPhotoIs DEF OneKind
      <3>3. CASE At(s, "name")
        BY <1>2, <2>2, <3>3 DEF Arrives, At, Enrolling, OneKind
      <3>4. QED
        BY <2>2, <3>1, <3>2, <3>3 DEF Arrives
    <2>3. QED
      BY <1>1, <2>1, <2>2 DEF PhotoGoes
  <1>4. ASSUME NEW s \in Slots PROVE Enrolling(s)'
    <2>1. SUFFICES ASSUME NEW x, x = requests'[s].photo, requests'[s].pc = "name", photos'[x] # Absent
                   PROVE  photos'[x].device = Absent
      BY DEF Enrolling
    <2>2. CASE requests'[s] = requests[s]
      <3>1. /\ requests[s].photo = x /\ At(s, "name") /\ x \in Photos /\ x # Absent
            /\ photos[x] # Absent => photos[x].device = Absent
        BY <1>2, <2>1, <2>2, AccountsAssumption DEF At, ReqOK, Enrolling
      <3>2. ASSUME NEW t \in Slots, Arrives(x, t) PROVE t = s
        BY <3>1, <3>2 DEF Arrives, Ids, OfItsOwn
      <3>3. Stays(x) \/ Arrives(x, s)
        BY <1>1, <3>1, <3>2 DEF PhotoGoes
      <3>4. QED
        BY <2>1, <3>1, <3>3 DEF Stays, Arrives, At
    <2>3. CASE requests'[s] # requests[s]
      <3>1. Onward(s)
        <4>1. Becomes(s)
          BY <2>3 DEF Moves, RequestsGo
        <4>2. QED
          BY <2>1, <2>3, <4>1, IsIdle DEF Becomes, Begun
      <3>2. requests[s].photo = x /\ At(s, "enroll") /\ x \in Photos /\ x # Absent /\ photos[x] = Absent
        BY <1>2, <2>1, <3>1, AccountsAssumption DEF Onward, At, ReqOK, RequestIds, Untaken
      <3>3. ASSUME NEW t \in Slots, Arrives(x, t) PROVE t = s
        BY <3>2, <3>3 DEF Arrives, Ids, OfItsOwn
      <3>4. Arrives(x, s)
        BY <1>1, <2>1, <3>2, <3>3 DEF PhotoGoes, Stays
      <3>5. photos'[x] = NewPhoto(Absent)
        BY <3>2, <3>4 DEF Arrives, At
      <3>6. QED
        BY <3>5, NewPhotoIs
    <2>4. QED
      BY <2>2, <2>3
  <1>5. AtWork'
    BY DEF KindInv, AtWork
  <1>6. QED
    BY <1>3, <1>4, <1>5 DEF KindInv

(* The operator's commands take no photographs.                            *)
LEMMA KindsOperated ==
    ASSUME Inv, KindInv, UNCHANGED requests, \A x \in Photos : photos'[x] \in {photos[x], Absent}
    PROVE  (\A x \in Photos : OneKind(x)') /\ (\A s \in Slots : Enrolling(s)')
  BY DEF Inv, RequestsOK, ReqOK, KindInv, OneKind, Enrolling

LEMMA KindsKept ==
    ASSUME EraseInv, KindInv, [Next]_vars
    PROVE  KindInv'
  <1>0. Inv /\ Ids /\ Planned /\ OpOK /\ photos \in [Photos -> {Absent} \cup Photo]
    BY DEF EraseInv, Inv, CapturesOK
  <1>1. CASE UNCHANGED vars
    BY <1>1 DEF vars, accounts, catalog, captures, KindInv, OneKind, Enrolling, AtWork
  <1>2. ASSUME Next, UNCHANGED <<requests, photos>>, op'.pc \notin {"row", "job"} PROVE KindInv'
    <2>1. \A x \in Photos : photos'[x] \in {photos[x], Absent}
      BY <1>2
    <2>2. AtWork'
      BY <1>2 DEF AtWork
    <2>3. (\A x \in Photos : OneKind(x)') /\ (\A s \in Slots : Enrolling(s)')
      BY <1>0, <1>2, <2>1, KindsOperated
    <2>4. QED
      BY <2>2, <2>3 DEF KindInv
  <1>3. CASE DeletionStep /\ UNCHANGED requests
    <2>1. \A x \in Photos : photos'[x] \in {photos[x], Absent}
      <3>1. PICK z : z = Current
        OBVIOUS
      <3>2. photos' = photos \/ photos' = [photos EXCEPT ![z] = Absent]
        BY <1>3, <3>1, DeletionChanges DEF EraseRow
      <3>3. QED
        BY <1>0, <3>2
    <2>2. AtWork'
      <3>1. CASE EraseObject
        BY <1>0, <3>1, GoesFurther DEF EraseObject, AtWork
      <3>2. CASE EraseRow
        BY <1>0, <3>2, GoesFurther DEF EraseRow, KindInv, AtWork, OpAt
      <3>3. CASE OpEnds
        BY <3>3, RestIs DEF OpEnds, AtWork
      <3>4. ~OpEnds => (op'.pc = "row" => EraseObject) /\ (op'.pc = "job" => EraseRow)
        BY <1>0, <1>3, DeletionReaches
      <3>5. op'.pc \notin {"row", "job"} => AtWork'
        BY DEF AtWork
      <3>6. QED
        BY <3>1, <3>2, <3>3, <3>4, <3>5
    <2>3. (\A x \in Photos : OneKind(x)') /\ (\A s \in Slots : Enrolling(s)')
      BY <1>0, <1>3, <2>1, KindsOperated
    <2>4. QED
      BY <2>2, <2>3 DEF KindInv
  <1>4. CASE Next
    <2>1. Inv' /\ (Steps \/ Events)
      BY <1>0, <1>4, NextOK, NextNotes
    <2>2. CASE op' = op /\ Moves
      BY <1>0, <2>2, KindsMove
    <2>3. CASE LinkStep /\ UNCHANGED requests
      <3>1. UNCHANGED photos
        BY <2>3 DEF LinkStep, WidenGrid, SeatPerson, SeatMembers, Seats, LinkHousehold,
                    SetHouseholdRole, PointBinding, LinkLost, catalog, captures
      <3>2. QED
        BY <1>0, <1>2, <1>4, <2>3, <3>1, OthersGo DEF Elsewhere, Erasing
    <2>4. CASE (RegisterDevice \/ RunAgain) /\ UNCHANGED requests
      <3>1. UNCHANGED photos
        BY <2>4 DEF RegisterDevice, RunAgain, catalog, captures
      <3>2. QED
        BY <1>0, <1>2, <1>4, <2>4, <3>1, OthersGo DEF Elsewhere, Erasing
    <2>5. CASE OpStarts \/ OpFails
      <3>1. UNCHANGED <<requests, photos>>
        BY <2>5 DEF OpStarts, OpFails, accounts, catalog, captures
      <3>2. QED
        BY <1>0, <1>2, <1>4, <2>5, <3>1, OthersGo DEF Elsewhere, Erasing
    <2>6. QED
      BY <1>0, <1>3, <2>1, <2>2, <2>3, <2>4, <2>5, NextMoves DEF OpStep
  <1>5. QED
    BY <1>1, <1>4

LEMMA KindsInit == ASSUME Init PROVE KindInv
  <1>1. Founder \in Cameras /\ requests = [s \in Slots |-> Idle] /\ op.pc \in {"rest", "peers"}
    <2>1. PICK u, v : u = FirstUser /\ v = users[FirstUser]
      OBVIOUS
    <2>2. op = Rest \/ op = [Rest EXCEPT !.pc = "peers", !.who = u, !.user = v]
      BY <2>1 DEF Init
    <2>3. [Rest EXCEPT !.pc = "peers", !.who = u, !.user = v].pc = "peers"
      BY DEF Rest
    <2>4. QED
      BY <2>2, <2>3, RestIs, ServiceAssumption DEF Init
  <1>2. ASSUME NEW x \in Photos PROVE OneKind(x)
    <2>1. PICK r : r = [NewPhoto(Founder) EXCEPT !.ready = TRUE]
      OBVIOUS
    <2>2. r.person = Absent
      BY <2>1 DEF NewPhoto
    <2>3. photos[x] \in {r, Absent}
      BY <2>1 DEF Init
    <2>4. QED
      BY <2>2, <2>3 DEF OneKind
  <1>3. QED
    BY <1>1, <1>2, IsIdle DEF KindInv, Enrolling, AtWork

(* A person seated in two households.                                      *)
LEMMA TwoSeats ==
    ASSUME NEW p, NEW h \in Homes, NEW g \in Homes, h # g, p \in seats[h], p \in seats[g]
    PROVE  SeatedTwice(p)
  <1>1. {g, h} \subseteq SeatedIn(p) /\ SeatedIn(p) \subseteq Homes
    BY DEF SeatedIn
  <1>2. IsFiniteSet(SeatedIn(p))
    BY <1>1, AccountsAssumption, FS_Subset
  <1>3. Cardinality({g, h}) = 2
    <2>1. IsFiniteSet({g}) /\ Cardinality({g}) = 1 /\ h \notin {g}
      BY FS_Singleton
    <2>2. Cardinality({g} \cup {h}) = Cardinality({g}) + 1
      BY <2>1, FS_AddElement
    <2>3. {g} \cup {h} = {g, h}
      OBVIOUS
    <2>4. QED
      BY <2>1, <2>2, <2>3
  <1>4. Cardinality({g, h}) <= Cardinality(SeatedIn(p)) /\ Cardinality(SeatedIn(p)) \in Nat
    BY <1>1, <1>2, FS_Subset, FS_CardinalityType
  <1>5. QED
    BY <1>3, <1>4 DEF SeatedTwice

(* A deletion takes what is of its own household, people seated in it, and *)
(* the photographs that it has listed.                                     *)
Takes ==
    /\ \A h \in Homes : households'[h] # households[h] => OpAt("house") /\ h = Home
    /\ \A c \in Cameras : devices'[c] # devices[c] => OpAt("devices") /\ devices[c] = Home
    /\ \A p \in people \ people' : OpAt("people") /\ p \in seats[Home]
    /\ \A x \in Photos : x \in op.todo \/ Kept(x)' = Kept(x)
    /\ op'.todo \subseteq op.todo \/ ListCaptures \/ ListTaken

LEMMA DeletionStepTakes ==
    ASSUME Inv, KindInv, DeletionStep
    PROVE  Takes
  <1>0. /\ OpOK /\ HomesOK /\ CamerasOK /\ photos \in [Photos -> {Absent} \cup Photo]
        /\ faces \in [Photos -> {Absent} \cup Face]
    BY DEF Inv, CapturesOK, FacesOK
  <1>1. \A x \in Photos : x \in op.todo \/ Kept(x)' = Kept(x)
    <2>1. CASE EraseObject
      BY <1>0, <2>1 DEF EraseObject, Current, Kept
    <2>2. CASE EraseRow
      BY <1>0, <2>2 DEF EraseRow, Current, Kept, KindInv, AtWork, OpAt
    <2>3. CASE EraseAnalysis
      BY <1>0, <2>3 DEF EraseAnalysis, Current, Kept, KindInv, AtWork, OpAt
    <2>4. QED
      <3>1. ASSUME UNCHANGED <<photos, objects, jobs, faces>> PROVE \A x \in Photos : Kept(x)' = Kept(x)
        BY <3>1 DEF Kept
      <3>2. \/ UNCHANGED <<photos, objects, jobs, faces>>
            \/ EraseObject \/ EraseRow \/ EraseAnalysis
        BY DEF DeletionStep, HouseholdPeers, ListCaptures, ListTaken, ErasedPhotos, EraseDevices,
               EraseTokens, ErasePeople, EraseSeats, EraseHousehold, Unbind, DeleteSessions,
               DeletePasskeys, DeleteCeremonies, DeleteUserRow, MarkFulfilled, catalog, captures
      <3>3. QED
        BY <2>1, <2>2, <2>3, <3>1, <3>2
  <1>2. op'.todo \subseteq op.todo \/ ListCaptures \/ ListTaken
    <2>1. ASSUME NEW pc, OpGoes(pc) PROVE op'.todo = op.todo
      BY <1>0, <2>1, GoesFurther
    <2>2. OpEnds => op'.todo = {}
      BY RestOK DEF OpEnds
    <2>3. HouseholdPeers => op'.todo \subseteq op.todo
      <3>1. op' = [op EXCEPT !.pc = "captures", !.whole = TRUE] => op'.todo = op.todo
        BY <1>0 DEF OpOK, Command
      <3>2. QED
        BY <2>1, <2>2, <3>1 DEF HouseholdPeers
    <2>4. EraseAnalysis => op'.todo \subseteq op.todo
      BY <1>0, DeletionGoes DEF EraseAnalysis, OpOK, Command
    <2>5. EraseObject \/ EraseRow \/ ErasedPhotos \/ EraseDevices \/ EraseTokens \/ ErasePeople
          \/ EraseSeats \/ EraseHousehold \/ Unbind \/ DeleteSessions \/ DeletePasskeys
          \/ DeleteCeremonies \/ DeleteUserRow => \E pc : OpGoes(pc)
      BY DEF EraseObject, EraseRow, ErasedPhotos, EraseDevices, EraseTokens, ErasePeople, EraseSeats,
             EraseHousehold, Unbind, DeleteSessions, DeletePasskeys, DeleteCeremonies, DeleteUserRow
    <2>6. MarkFulfilled => OpEnds
      BY DEF MarkFulfilled
    <2>7. QED
      BY <2>1, <2>2, <2>3, <2>4, <2>5, <2>6 DEF DeletionStep
  <1>3. \A h \in Homes : households'[h] # households[h] => OpAt("house") /\ h = Home
    BY <1>0, DeletionChanges DEF EraseHousehold, HomesOK
  <1>4. \A c \in Cameras : devices'[c] # devices[c] => OpAt("devices") /\ devices[c] = Home
    BY <1>0, DeletionChanges DEF EraseDevices
  <1>5. \A p \in people \ people' : OpAt("people") /\ p \in seats[Home]
    BY DEF DeletionStep, HouseholdPeers, ListCaptures, ListTaken, EraseObject, EraseRow, EraseAnalysis,
           ErasedPhotos, EraseDevices, EraseTokens, ErasePeople, EraseSeats, EraseHousehold, Unbind,
           DeleteSessions, DeletePasskeys, DeleteCeremonies, DeleteUserRow, MarkFulfilled, catalog, homes
  <1>6. QED
    BY <1>1, <1>2, <1>3, <1>4, <1>5 DEF Takes

(* What is listed is of the household, or of a person seated there.        *)
LEMMA ListedIsOwn ==
    ASSUME EraseInv, KindInv, ListCaptures \/ ListTaken, NEW h \in Homes, h # Home,
           NEW x \in Photos \ disturbed, owner[x] = h, x \in op'.todo, x \notin op.todo
    PROVE  SeatedTwice(photos[x].person)
  <1>1. /\ OpOK /\ Home \in Homes /\ h # Absent
        /\ photos \in [Photos -> {Absent} \cup Photo] /\ seats \in [Homes -> SUBSET People]
    BY AccountsAssumption DEF EraseInv, Inv, OpOK, CapturesOK, HomesOK, ListCaptures, ListTaken, OpAt,
                              Erasing
  <1>2. OneKind(x) /\ Traced(x)
    BY DEF KindInv, EraseInv, ItemInv
  <1>3. CASE ListCaptures
    <2>1. photos[x] # Absent /\ photos[x].person \in seats[Home]
      <3>1. PICK S : S = {y \in Photos : photos[y] # Absent /\ photos[y].person \in seats[Home]}
        OBVIOUS
      <3>2. op' = [op EXCEPT !.pc = "taken", !.todo = S]
        BY <1>3, <3>1 DEF ListCaptures
      <3>3. op'.todo = S
        BY <1>1, <3>2, ListsFurther
      <3>4. QED
        BY <3>1, <3>3
    <2>2. photos[x].person # Absent
      BY <1>1, <2>1, AccountsAssumption
    <2>3. photos[x].person \in seats[h]
      BY <1>1, <1>2, <2>1, <2>2 DEF OneKind, Traced, TakenBy
    <2>4. QED
      BY <1>1, <2>1, <2>3, TwoSeats
  <1>4. CASE ListTaken
    <2>1. photos[x] # Absent /\ photos[x].device # Absent /\ devices[photos[x].device] = Home
      <3>1. PICK S : S = op.todo \cup {y \in Photos : /\ photos[y] # Absent /\ photos[y].device # Absent
                                                      /\ devices[photos[y].device] = Home}
        OBVIOUS
      <3>2. op' = [op EXCEPT !.pc = "photos", !.todo = S]
        BY <1>4, <3>1 DEF ListTaken
      <3>3. op'.todo = S
        BY <1>1, <3>2, ListsFurther
      <3>4. QED
        BY <3>1, <3>3
    <2>2. photos[x].person = Absent /\ Absent \notin seats[h]
      BY <1>1, <1>2, <2>1, AccountsAssumption DEF OneKind
    <2>3. QED
      BY <1>1, <1>2, <2>1, <2>2 DEF Traced, TakenBy
  <1>5. QED
    BY <1>3, <1>4

(* While a deletion is under way the operator does nothing else.           *)
LEMMA WhileDeleting ==
    ASSUME Inv, Next, Deleting, op' # op
    PROVE  DeletionStep \/ (OpFails /\ op'.todo = {})
  <1>0. OpOK /\ op # Rest
    BY RestIs DEF Inv, Deleting, Deletion
  <1>1. OpStep \/ OpStarts \/ OpFails
    BY NextNotes, NextKinds
  <1>2. ~OpStarts
    BY <1>0, StartsGo DEF Deleting, Deletion, OpAt
  <1>3. ~LinkStep /\ ~RegisterDevice /\ ~RunAgain
    BY LinkGoes DEF RegisterDevice, RunAgain, OpAt, Linking, Deleting, Deletion
  <1>4. OpFails => op'.todo = {}
    <2>1. PICK u : u = op.who
      OBVIOUS
    <2>2. OpFails => op' = [Rest EXCEPT !.pc = "again", !.who = u]
      BY <2>1 DEF OpFails
    <2>3. [Rest EXCEPT !.pc = "again", !.who = u].todo = {}
      BY DEF Rest
    <2>4. QED
      BY <2>2, <2>3
  <1>5. QED
    BY <1>1, <1>2, <1>3, <1>4 DEF OpStep

(* A household in which somebody else has an account, and nobody joins     *)
(* meanwhile, keeps its grid, its cameras, its people, and the photographs *)
(* of its cameras and people with their objects, jobs and faces, whatever  *)
(* is deleted at the same time (delete_account, erase_household), but for  *)
(* those of a person seated in two households.                             *)
THEOREM HousematesAreKept == Spec => OthersKept
  <1>1. ASSUME EraseInv, KindInv, [Next]_vars, Deleting, op' # op, NEW h \in Homes \ disturbed, Shared(h)
        PROVE  /\ households'[h] = households[h]
               /\ \A c \in Cameras : devices[c] = h => devices'[c] = h
               /\ \A p \in people \cap seats[h] : p \in people' \/ SeatedTwice(p)
               /\ \A x \in Photos \ disturbed : owner[x] = h =>
                      /\ x \in op.todo \/ Kept(x)' = Kept(x)
                      /\ x \in op'.todo \ op.todo => SeatedTwice(photos[x].person)
    <2>0. Inv /\ Next
      BY <1>1 DEF EraseInv, vars
    <2>1. CASE OpFails /\ op'.todo = {}
      BY <2>1 DEF OpFails, catalog, homes, cameras, captures, Kept
    <2>2. CASE DeletionStep
      <3>1. op.pc \in Erasing => Home # h /\ Home \in Homes
        BY <1>1, <2>0 DEF Inv, Alone, Shared, OpOK
      <3>2. OpAt("house") \/ OpAt("devices") \/ OpAt("people") \/ ListCaptures \/ ListTaken
            => op.pc \in Erasing
        BY DEF OpAt, Erasing, ListCaptures, ListTaken
      <3>3. Takes
        BY <1>1, <2>0, <2>2, DeletionStepTakes
      <3>4. ASSUME NEW p \in people \cap seats[h], p \notin people' PROVE SeatedTwice(p)
        BY <3>1, <3>2, <3>3, <3>4, TwoSeats DEF Takes
      <3>5. ASSUME NEW x \in Photos \ disturbed, owner[x] = h, x \in op'.todo, x \notin op.todo
            PROVE  SeatedTwice(photos[x].person)
        BY <1>1, <3>1, <3>2, <3>3, <3>5, ListedIsOwn DEF Takes
      <3>6. QED
        BY <3>1, <3>2, <3>3, <3>4, <3>5 DEF Takes
    <2>3. QED
      BY <1>1, <2>0, <2>1, <2>2, WhileDeleting
  <1> DEFINE Spared ==
         Deleting /\ op' # op =>
             \A h \in Homes \ disturbed : Shared(h) =>
                 /\ households'[h] = households[h]
                 /\ \A c \in Cameras : devices[c] = h => devices'[c] = h
                 /\ \A p \in people \cap seats[h] : p \in people' \/ SeatedTwice(p)
                 /\ \A x \in Photos \ disturbed : owner[x] = h =>
                        /\ x \in op.todo \/ Kept(x)' = Kept(x)
                        /\ x \in op'.todo \ op.todo => SeatedTwice(photos[x].person)
  <1>2. EraseInv /\ KindInv /\ [Next]_vars => Spared
    BY <1>1
  <1>3. EraseInv /\ KindInv /\ [Next]_vars => (EraseInv /\ KindInv)'
    BY EraseKept, KindsKept
  <1>4. Init => EraseInv /\ KindInv
    BY EraseInit, KindsInit
  <1>5. Spec => [](EraseInv /\ KindInv)
    BY <1>3, <1>4, PTL DEF Spec
  <1>6. [](EraseInv /\ KindInv) /\ [][Next]_vars => [][Spared]_vars
    BY <1>2, PTL
  <1>7. QED
    BY <1>5, <1>6, PTL DEF Spec, OthersKept
=============================================================================
