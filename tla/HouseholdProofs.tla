---------------------------- MODULE HouseholdProofs ----------------------------
(***************************************************************************)
(* Theorems about HouseholdService, for any finite number of accounts,     *)
(* households, people, cameras and photographs, any grids, ceremonies and  *)
(* requests at once, and any number of events: its types with the seats of *)
(* a household, what a ceremony leads to, and what happens to the labels   *)
(* of faces.  ErasureProofs has those about deletions.                     *)
(***************************************************************************)
EXTENDS HouseholdService, FiniteSetTheorems, TLAPS

-----------------------------------------------------------------------------
(* The inductive invariant.                                                *)

(* What a request has read belongs to what it is about to write.           *)
OfAccount == {"session", "offer", "challenge", "enlist", "accept", "lookup",
              "create", "house", "person", "link", "role", "bind"}
ReqOK(r) ==
    /\ r \in Request
    /\ r.pc \in OfAccount => r.who \in Users
    /\ r.pc = "mint" => r.user.home \in Homes
    /\ r.pc \in {"reserve", "enroll", "name"} => r.photo \in Photos
    /\ r.pc = "reserve" => r.who \in Cameras \cup {Absent}
    /\ r.pc \in {"enroll", "name"} => r.person \in People
RequestsOK == requests \in [Slots -> Request] /\ \A s \in Slots : ReqOK(requests[s])

StoreOK ==
    /\ users \in [Users -> {Absent} \cup User]
    /\ sessions \subseteq Users /\ passkeys \subseteq Users
    /\ wishes \in [Users -> {"none", "open", "done"}]
CeremoniesOK ==
    /\ ceremonies \in [Ceremonies -> Ceremony] /\ fruits \in [Ceremonies -> Nat]

(* A household has at most as many seats taken as its grid has, and none   *)
(* before its id is given out.                                             *)
Fits(h) ==
    /\ households[h] # Absent => Cardinality(seats[h]) <= households[h] /\ h \in known
    /\ seats[h] # {} => h \in known
HomesOK ==
    /\ households \in [Homes -> {Absent, SmallGrid, LargeGrid}]
    /\ seats \in [Homes -> SUBSET People] /\ people \subseteq People
    /\ bindings \in [Users -> Homes \cup {Absent}]
    /\ \A h \in Homes : Fits(h)
CamerasOK  == tokens \subseteq Homes /\ devices \in [Cameras -> Homes \cup {Absent}]
CapturesOK ==
    /\ photos \in [Photos -> {Absent} \cup Photo]
    /\ objects \subseteq Photos /\ granted \subseteq Photos /\ jobs \subseteq Photos
OwnerOK == owner \in [People \cup Photos -> Homes \cup {Absent}]
FacesOK == faces \in [Photos -> {Absent} \cup Face]

Linking == {"widen", "seat", "link", "role", "point", "members"}
Erasing == {"captures", "taken", "photos", "row", "job", "devices", "tokens", "people",
            "seats", "house"}
Command == [pc : Deletion \cup Linking \cup {"rest", "register", "again"},
            who : Users \cup {Absent}, user : User, person : People \cup {Absent}, widen : BOOLEAN,
            todo : SUBSET (People \cup Photos \cup Cameras), whole : BOOLEAN]
OpOK ==
    /\ op \in Command
    /\ op.pc \in Linking => op.todo \subseteq People /\ op.person \in People
    /\ op.pc \in Deletion \cup {"again"} => op.who \in Users
    /\ op.pc \in {"peers"} \cup Erasing => Home \in Homes

(* A ceremony that a request works for, or that led to something, is gone, *)
(* and no other request works for it.                                      *)
Works(s, c) == requests[s].by = c
Once(c) ==
    /\ fruits[c] \in {0, 1}
    /\ fruits[c] = 1 => Open(c, "gone") /\ \A s \in Slots : ~Works(s, c)
    /\ \A s \in Slots : Works(s, c) => Open(c, "gone") /\ \A t \in Slots : Works(t, c) => t = s
OnceOK == \A c \in Ceremonies : Once(c)

(* Nobody else has an account in a household that is being erased, unless  *)
(* somebody joined since it was decided.                                   *)
Alone == op.pc \in Erasing => Home \in disturbed \/ Accountants(Home) \subseteq {op.who}

Counted == events \in Nat

Inv == /\ StoreOK /\ CeremoniesOK /\ RequestsOK /\ HomesOK /\ CamerasOK /\ CapturesOK
       /\ OwnerOK /\ FacesOK /\ OpOK /\ OnceOK /\ Alone /\ Counted

-----------------------------------------------------------------------------
(* Requests                                                                *)

ByKept == \A s \in Slots : requests'[s].by \in {requests[s].by, Absent}

LEMMA IdleOK == ReqOK(Idle) /\ Idle.by = Absent
  <1>0. NewUser \in User
    BY DEF NewUser, User
  <1>1. Idle \in Request /\ Idle.pc = "idle" /\ Idle.by = Absent
    BY <1>0 DEF Idle, Request, Stages
  <1>2. QED
    BY <1>1 DEF ReqOK, OfAccount

(* A slot that is written with a good request.                             *)
LEMMA RequestSet ==
    ASSUME RequestsOK, NEW s \in Slots, NEW r, ReqOK(r),
           requests' = [requests EXCEPT ![s] = r]
    PROVE  RequestsOK' /\ requests'[s] = r /\ \A t \in Slots \ {s} : requests'[t] = requests[t]
  <1>1. requests \in [Slots -> Request] /\ r \in Request
    BY DEF RequestsOK, ReqOK
  <1>2. requests' \in [Slots -> Request] /\ requests'[s] = r
        /\ \A t \in Slots \ {s} : requests'[t] = requests[t]
    BY <1>1
  <1>3. \A t \in Slots : ReqOK(requests'[t])
    BY <1>2 DEF RequestsOK
  <1>4. QED
    BY <1>2, <1>3 DEF RequestsOK

LEMMA StartsOK ==
    ASSUME RequestsOK, NEW r, ReqOK(r), Starts(r)
    PROVE  /\ RequestsOK'
           /\ \E s \in Slots : /\ requests[s] = Idle /\ requests'[s] = r
                               /\ \A t \in Slots \ {s} : requests'[t] = requests[t]
  <1> DEFINE s == CHOOSE s \in Free : TRUE
  <1>1. s \in Slots /\ requests[s] = Idle /\ requests' = [requests EXCEPT ![s] = r]
    BY DEF Starts, Free
  <1> HIDE DEF s
  <1>2. QED
    BY <1>1, RequestSet

LEMMA EndsOK ==
    ASSUME RequestsOK, NEW s \in Slots, Ends(s)
    PROVE  RequestsOK' /\ ByKept
  <1>1. requests' = [requests EXCEPT ![s] = Idle]
    BY DEF Ends
  <1>2. RequestsOK' /\ requests'[s] = Idle /\ \A t \in Slots \ {s} : requests'[t] = requests[t]
    BY <1>1, IdleOK, RequestSet
  <1>3. QED
    BY <1>2, IdleOK DEF ByKept

LEMMA RequestKept ==
    ASSUME RequestsOK, NEW s \in Slots, NEW r, ReqOK(r), r.by = requests[s].by,
           requests' = [requests EXCEPT ![s] = r]
    PROVE  RequestsOK' /\ ByKept
  <1>1. RequestsOK' /\ requests'[s] = r /\ \A t \in Slots \ {s} : requests'[t] = requests[t]
    BY RequestSet
  <1>2. QED
    BY <1>1 DEF ByKept

(* The account, and the photo or person of the next step, are known.       *)
LEMMA GoesOK ==
    ASSUME RequestsOK, NEW s \in Slots, NEW pc \in Stages, Goes(s, pc),
           pc \in OfAccount => requests[s].who \in Users,
           pc = "mint" => requests[s].user.home \in Homes,
           pc = "name" => requests[s].photo \in Photos /\ requests[s].person \in People,
           pc \notin {"reserve", "enroll"}
    PROVE  RequestsOK' /\ ByKept
  <1> DEFINE r == [requests[s] EXCEPT !.pc = pc]
  <1>1. requests \in [Slots -> Request] /\ ReqOK(requests[s])
    BY DEF RequestsOK
  <1>2. requests' = [requests EXCEPT ![s] = r]
    BY DEF Goes
  <1>3. /\ r \in Request /\ r.pc = pc /\ r.by = requests[s].by /\ r.who = requests[s].who
        /\ r.user = requests[s].user /\ r.photo = requests[s].photo
        /\ r.person = requests[s].person
    BY <1>1 DEF Request
  <1> HIDE DEF r
  <1>4. ReqOK(r)
    BY <1>3 DEF ReqOK
  <1>5. QED
    BY <1>1, <1>2, <1>3, <1>4, RequestKept

LEMMA FreshRequest ==
    ASSUME StoreOK, RequestsOK, NEW r, ReqOK(r), r.by = Absent, Starts(r)
    PROVE  RequestsOK' /\ ByKept
  <1>1. RequestsOK' /\ \E s \in Slots : /\ requests[s] = Idle /\ requests'[s] = r
                               /\ \A t \in Slots \ {s} : requests'[t] = requests[t]
    BY StartsOK
  <1>2. QED
    BY <1>1 DEF ByKept

LEMMA BeginsOK ==
    ASSUME StoreOK, RequestsOK, NEW u \in Users, NEW pc \in {"offer", "ask", "add", "bind"},
           Begins(u, pc)
    PROVE  RequestsOK' /\ ByKept
  <1> DEFINE r == [Idle EXCEPT !.pc = pc, !.who = u, !.user = users[u]]
  <1>1. users[u] \in User /\ Starts(r)
    BY DEF Begins, Authenticated, Registered, StoreOK
  <1>2. r \in Request /\ r.pc = pc /\ r.who = u /\ r.by = Absent
    BY <1>1, IdleOK DEF Idle, Request, Stages
  <1> HIDE DEF r
  <1>3. ReqOK(r)
    BY <1>2 DEF ReqOK, OfAccount
  <1>4. QED
    BY <1>1, <1>2, <1>3, FreshRequest

LEMMA SameRequests ==
    ASSUME RequestsOK, UNCHANGED requests
    PROVE  RequestsOK' /\ ByKept
  BY DEF RequestsOK, ByKept

-----------------------------------------------------------------------------
(* Ceremonies                                                              *)

(* Nothing of a ceremony changes, and nobody begins to work for it.        *)
LEMMA OnceKept ==
    ASSUME OnceOK, ByKept, UNCHANGED <<ceremonies, fruits>>
    PROVE  OnceOK'
  <1> SUFFICES ASSUME NEW c \in Ceremonies PROVE Once(c)'
    BY DEF OnceOK
  <1>1. Once(c) /\ c # Absent
    BY AccountsAssumption DEF OnceOK
  <1>2. ASSUME NEW s \in Slots, requests'[s].by = c PROVE requests[s].by = c
    BY <1>1, <1>2 DEF ByKept
  <1>3. QED
    BY <1>1, <1>2 DEF Once, Works, Open

(* A ceremony nobody works for may be opened, or forgotten.                *)
LEMMA OnceOpened ==
    ASSUME OnceOK, ByKept, UNCHANGED fruits,
           \A c \in Ceremonies : Open(c, "gone") => ceremonies'[c].kind = "gone"
    PROVE  OnceOK'
  <1> SUFFICES ASSUME NEW c \in Ceremonies PROVE Once(c)'
    BY DEF OnceOK
  <1>1. Once(c) /\ c # Absent
    BY AccountsAssumption DEF OnceOK
  <1>2. ASSUME NEW s \in Slots, requests'[s].by = c PROVE requests[s].by = c
    BY <1>1, <1>2 DEF ByKept
  <1>3. QED
    BY <1>1, <1>2 DEF Once, Works, Open

(* One request takes a ceremony that is open.                              *)
LEMMA OnceTaken ==
    ASSUME OnceOK, CeremoniesOK, NEW c \in Ceremonies, TakeCeremony(c), ~Open(c, "gone"),
           UNCHANGED fruits,
           \/ UNCHANGED requests
           \/ \E s \in Slots : /\ requests'[s].by = c
                               /\ \A t \in Slots \ {s} : requests'[t] = requests[t]
    PROVE  OnceOK' /\ CeremoniesOK'
  <1>1. /\ ceremonies'[c].kind = "gone" /\ ceremonies' \in [Ceremonies -> Ceremony]
        /\ \A d \in Ceremonies \ {c} : ceremonies'[d] = ceremonies[d]
    BY DEF TakeCeremony, CeremoniesOK, Gone, Ceremony
  <1>2. fruits[c] = 0 /\ \A s \in Slots : ~Works(s, c)
    BY DEF OnceOK, Once
  <1>3. ASSUME NEW d \in Ceremonies PROVE Once(d)'
    <2>1. Once(d)
      BY DEF OnceOK
    <2>2. CASE d = c
      BY <1>1, <1>2, <2>2 DEF Once, Works, Open
    <2>3. CASE d # c
      <3>1. ASSUME NEW s \in Slots, requests'[s].by = d PROVE requests[s].by = d
        BY <2>3, <3>1
      <3>2. QED
        BY <1>1, <2>1, <2>3, <3>1 DEF Once, Works, Open
    <2>4. QED
      BY <2>2, <2>3
  <1>4. QED
    BY <1>1, <1>3 DEF OnceOK, CeremoniesOK

(* The request that works for a ceremony ends with its session or passkey. *)
LEMMA OnceDone ==
    ASSUME OnceOK, CeremoniesOK, RequestsOK, NEW s \in Slots, Fruit(requests[s].by), Ends(s),
           UNCHANGED ceremonies
    PROVE  OnceOK' /\ CeremoniesOK'
  <1> DEFINE b == requests[s].by
  <1>1. b \in Ceremonies \cup {Absent} /\ ByKept /\ requests'[s].by = Absent
    <2>1. requests'[s] = Idle
      BY DEF Ends, RequestsOK
    <2>2. QED
      BY <2>1, EndsOK, IdleOK DEF RequestsOK, Request
  <1>2. CASE b = Absent
    BY <1>1, <1>2, OnceKept DEF Fruit, CeremoniesOK
  <1>3. CASE b # Absent
    <2>1. b \in Ceremonies /\ fruits' = [fruits EXCEPT ![b] = @ + 1]
      BY <1>1, <1>3 DEF Fruit
    <2>2. Once(b) /\ Works(s, b)
      BY <2>1 DEF OnceOK, Works
    <2>3. fruits[b] = 0 /\ Open(b, "gone") /\ \A t \in Slots : Works(t, b) => t = s
      BY <2>2 DEF Once
    <2>4. fruits' \in [Ceremonies -> Nat] /\ fruits'[b] = 1
          /\ \A d \in Ceremonies \ {b} : fruits'[d] = fruits[d]
      BY <2>1, <2>3 DEF CeremoniesOK
    <2>5. ASSUME NEW d \in Ceremonies PROVE Once(d)'
      <3>1. Once(d) /\ d # Absent
        BY AccountsAssumption DEF OnceOK
      <3>2. ASSUME NEW t \in Slots, requests'[t].by = d PROVE requests[t].by = d /\ t # s
        BY <1>1, <3>1, <3>2 DEF ByKept
      <3>3. CASE d = b
        BY <2>3, <2>4, <3>2, <3>3 DEF Once, Works, Open
      <3>4. CASE d # b
        BY <2>4, <3>1, <3>2, <3>4 DEF Once, Works, Open
      <3>5. QED
        BY <3>3, <3>4
    <2>6. QED
      BY <2>4, <2>5 DEF OnceOK, CeremoniesOK
  <1>4. QED
    BY <1>2, <1>3

-----------------------------------------------------------------------------
(* Accounts                                                                *)

AccountsOK == StoreOK /\ CeremoniesOK /\ RequestsOK /\ OnceOK

(* The store is left alone.                                                *)
LEMMA StoreKept ==
    ASSUME AccountsOK, UNCHANGED store, RequestsOK', ByKept
    PROVE  AccountsOK'
  <1>1. StoreOK' /\ CeremoniesOK'
    BY DEF AccountsOK, StoreOK, CeremoniesOK, store
  <1>2. OnceOK'
    BY OnceKept DEF AccountsOK, store
  <1>3. QED
    BY <1>1, <1>2 DEF AccountsOK

LEMMA StoreCeremonyOK ==
    ASSUME AccountsOK, RequestsOK', ByKept, NEW kind \in Kinds, NEW u \in Users \cup {Absent},
           StoreCeremony(kind, u)
    PROVE  AccountsOK'
  <1> DEFINE c == CHOOSE c \in Ceremonies : Open(c, "unused")
             d == [kind |-> kind, user |-> u]
  <1>1. c \in Ceremonies /\ Open(c, "unused") /\ ceremonies' = [ceremonies EXCEPT ![c] = d]
    BY DEF StoreCeremony
  <1>2. d \in Ceremony
    BY DEF Ceremony
  <1> HIDE DEF c, d
  <1>3. CeremoniesOK' /\ \A b \in Ceremonies : Open(b, "gone") => ceremonies'[b].kind = "gone"
    BY <1>1, <1>2 DEF AccountsOK, CeremoniesOK, StoreCeremony, Open
  <1>4. OnceOK'
    BY <1>3, OnceOpened DEF AccountsOK, StoreCeremony
  <1>5. StoreOK'
    BY DEF AccountsOK, StoreOK, StoreCeremony
  <1>6. QED
    BY <1>3, <1>4, <1>5 DEF AccountsOK

Asked(pc, u, c) == [pc |-> pc, who |-> u, user |-> NewUser, person |-> Absent,
                    photo |-> Absent, by |-> c]

LEMMA AskedIs ==
    ASSUME NEW pc, NEW u, NEW c, NEW r
    PROVE  /\ r = [Idle EXCEPT !.pc = pc, !.who = u, !.by = c] => r = Asked(pc, u, c)
           /\ r = [Idle EXCEPT !.pc = pc, !.who = u] => r = Asked(pc, u, Absent)
  <1>1. ASSUME r = [Idle EXCEPT !.pc = pc, !.who = u, !.by = c] PROVE r = Asked(pc, u, c)
    <2>1. r = [pc |-> pc, who |-> u, user |-> NewUser, person |-> Absent, photo |-> Absent, by |-> c]
      BY <1>1 DEF Idle
    <2>2. QED
      BY <2>1, Zenon DEF Asked
  <1>2. ASSUME r = [Idle EXCEPT !.pc = pc, !.who = u] PROVE r = Asked(pc, u, Absent)
    <2>1. r = [pc |-> pc, who |-> u, user |-> NewUser, person |-> Absent,
               photo |-> Absent, by |-> Absent]
      BY <1>2 DEF Idle
    <2>2. QED
      BY <2>1, Zenon DEF Asked
  <1>3. QED
    BY <1>1, <1>2

LEMMA AskedOK ==
    ASSUME NEW u \in Users, NEW c \in Ceremonies \cup {Absent},
           NEW pc \in {"session", "enlist", "accept", "challenge", "create"}
    PROVE  ReqOK(Asked(pc, u, c)) /\ Asked(pc, u, c).by = c
  <1>1. NewUser \in User /\ pc \in Stages
    BY DEF NewUser, User, Stages
  <1>2. Asked(pc, u, c) \in Request /\ Asked(pc, u, c).pc = pc /\ Asked(pc, u, c).who = u
        /\ Asked(pc, u, c).by = c
    BY <1>1 DEF Asked, Request
  <1>3. QED
    BY <1>2 DEF ReqOK, OfAccount

LEMMA PlainStart ==
    ASSUME AccountsOK, UNCHANGED store, NEW u \in Users,
           NEW pc \in {"session", "challenge", "create"},
           Starts([Idle EXCEPT !.pc = pc, !.who = u])
    PROVE  AccountsOK'
  <1>0. PICK q : q = [Idle EXCEPT !.pc = pc, !.who = u]
    OBVIOUS
  <1>1. Starts(Asked(pc, u, Absent))
    BY <1>0, AskedIs
  <1>2. ReqOK(Asked(pc, u, Absent)) /\ Asked(pc, u, Absent).by = Absent
    BY AskedOK
  <1>3. PICK r : r = Asked(pc, u, Absent)
    OBVIOUS
  <1>4. RequestsOK' /\ ByKept
    BY <1>1, <1>2, <1>3, FreshRequest DEF AccountsOK
  <1>5. QED
    BY <1>4, StoreKept

LEMMA TakenOK ==
    ASSUME AccountsOK, NEW u \in Users, NEW c \in Ceremonies, NEW pc \in {"enlist", "accept"},
           TakeCeremony(c), ~Open(c, "gone"),
           UNCHANGED <<users, sessions, passkeys, fruits, wishes>>,
           UNCHANGED requests \/ Starts([Idle EXCEPT !.pc = pc, !.who = u, !.by = c])
    PROVE  AccountsOK'
  <1>1. StoreOK'
    BY DEF AccountsOK, StoreOK
  <1>2. CASE UNCHANGED requests
    BY <1>1, <1>2, OnceTaken, SameRequests DEF AccountsOK
  <1>3. CASE Starts([Idle EXCEPT !.pc = pc, !.who = u, !.by = c])
    <2>1. PICK r : r = [Idle EXCEPT !.pc = pc, !.who = u, !.by = c]
      OBVIOUS
    <2>2. Starts(r)
      BY <1>3, <2>1, Zenon
    <2>3. r = Asked(pc, u, c)
      <3>1. r = [pc |-> pc, who |-> u, user |-> NewUser, person |-> Absent,
                 photo |-> Absent, by |-> c]
        BY <2>1 DEF Idle
      <3>2. QED
        BY <3>1, Zenon DEF Asked
    <2>4. ReqOK(r) /\ r.by = c
      BY <2>3, AskedOK
    <2>5. RequestsOK' /\ \E s \in Slots : /\ requests[s] = Idle /\ requests'[s] = r
                               /\ \A t \in Slots \ {s} : requests'[t] = requests[t]
      BY <2>2, <2>4, StartsOK DEF AccountsOK
    <2>6. OnceOK' /\ CeremoniesOK'
      BY <2>4, <2>5, OnceTaken DEF AccountsOK
    <2>7. QED
      BY <1>1, <2>5, <2>6 DEF AccountsOK
  <1>4. QED
    BY <1>2, <1>3

LEMMA AccountStepOK ==
    ASSUME AccountsOK, NEW s \in Slots, AccountStep(s)
    PROVE  AccountsOK'
  <1>0. ReqOK(requests[s])
    BY DEF AccountsOK, RequestsOK
  <1>1. CASE CreateSession(s)
    <2>1. StoreOK'
      BY <1>0, <1>1 DEF CreateSession, At, ReqOK, OfAccount, AccountsOK, StoreOK
    <2>2. Fruit(requests[s].by) /\ Ends(s) /\ UNCHANGED ceremonies
      BY <1>1 DEF CreateSession
    <2>3. QED
      BY <2>1, <2>2, OnceDone, EndsOK DEF AccountsOK
  <1>2. CASE StoreOffer(s)
    <2>1. requests[s].who \in Users /\ Ends(s) /\ StoreCeremony("register", requests[s].who)
      BY <1>0, <1>2 DEF StoreOffer, At, ReqOK, OfAccount
    <2>2. "register" \in Kinds
      BY DEF Kinds
    <2>3. QED
      BY <2>1, <2>2, StoreCeremonyOK, EndsOK DEF AccountsOK
  <1>3. CASE StoreChallenge(s)
    <2>1. requests[s].who \in Users /\ Ends(s) /\ StoreCeremony("login", requests[s].who)
      BY <1>0, <1>3 DEF StoreChallenge, At, ReqOK, OfAccount
    <2>2. "login" \in Kinds
      BY DEF Kinds
    <2>3. QED
      BY <2>1, <2>2, StoreCeremonyOK, EndsOK DEF AccountsOK
  <1>4. CASE AddPasskey(s)
    <2>1. StoreOK'
      BY <1>0, <1>4 DEF AddPasskey, At, ReqOK, OfAccount, AccountsOK, StoreOK
    <2>2. Fruit(requests[s].by) /\ Ends(s) /\ UNCHANGED ceremonies
      BY <1>4 DEF AddPasskey
    <2>3. QED
      BY <2>1, <2>2, OnceDone, EndsOK DEF AccountsOK
  <1>5. CASE Accept(s)
    <2>1. requests[s].who \in Users /\ UNCHANGED store
          /\ (Goes(s, "lookup") \/ Ends(s))
      BY <1>0, <1>5 DEF Accept, At, ReqOK, OfAccount
    <2>2. RequestsOK' /\ ByKept
      BY <2>1, EndsOK, GoesOK DEF AccountsOK, Stages
    <2>3. QED
      BY <2>1, <2>2, StoreKept
  <1>6. CASE LookUp(s)
    <2>1. requests[s].who \in Users /\ UNCHANGED store
          /\ (Goes(s, "session") \/ Ends(s))
      BY <1>0, <1>6 DEF LookUp, At, ReqOK, OfAccount
    <2>2. RequestsOK' /\ ByKept
      BY <2>1, EndsOK, GoesOK DEF AccountsOK, Stages
    <2>3. QED
      BY <2>1, <2>2, StoreKept
  <1>7. CASE RecordWish(s)
    <2>1. RequestsOK' /\ ByKept /\ OnceOK'
      BY <1>7, EndsOK, OnceKept DEF RecordWish, AccountsOK
    <2>2. PICK u : u = requests[s].who
      OBVIOUS
    <2>3. wishes' = [wishes EXCEPT ![u] = IF wishes[u] = "none" THEN "open" ELSE wishes[u]]
      BY <1>7, <2>2 DEF RecordWish
    <2>4. wishes \in [Users -> {"none", "open", "done"}]
      BY DEF AccountsOK, StoreOK
    <2>5. wishes' \in [Users -> {"none", "open", "done"}]
      BY <2>3, <2>4
    <2>6. StoreOK' /\ CeremoniesOK'
      BY <1>7, <2>5 DEF RecordWish, AccountsOK, StoreOK, CeremoniesOK
    <2>7. QED
      BY <2>1, <2>6 DEF AccountsOK
  <1>8. QED
    BY <1>1, <1>2, <1>3, <1>4, <1>5, <1>6, <1>7 DEF AccountStep

LEMMA AccountEventsOK ==
    ASSUME AccountsOK, AccountEvents
    PROVE  AccountsOK'
  <1>1. CASE StartDiscoverable
    <2>1. RequestsOK' /\ ByKept /\ StoreCeremony("discoverable", Absent)
      BY <1>1, SameRequests DEF StartDiscoverable, StoreDiscoverable, AccountsOK
    <2>2. QED
      BY <2>1, StoreCeremonyOK DEF Kinds
  <1>2. ASSUME NEW u \in Users, SignIn(u) PROVE AccountsOK'
    BY <1>2, PlainStart DEF SignIn
  <1>3. ASSUME NEW u \in Users, RevokeSession(u) PROVE AccountsOK'
    <2>1. StoreOK' /\ CeremoniesOK' /\ UNCHANGED <<ceremonies, fruits, requests>>
      BY <1>3 DEF RevokeSession, AccountsOK, StoreOK, CeremoniesOK
    <2>2. QED
      BY <2>1, SameRequests, OnceKept DEF AccountsOK
  <1>4. ASSUME NEW u \in Users, AskDeletion(u) \/ StartRegistration(u) PROVE AccountsOK'
    <2>1. RequestsOK' /\ ByKept /\ UNCHANGED store
      BY <1>4, BeginsOK DEF AskDeletion, StartRegistration, AccountsOK
    <2>2. QED
      BY <2>1, StoreKept
  <1>5. ASSUME NEW u \in Users, StartAuthentication(u) PROVE AccountsOK'
    BY <1>5, PlainStart DEF StartAuthentication
  <1>6. ASSUME NEW u \in Users, NEW c \in Ceremonies, FinishRegistration(u, c) PROVE AccountsOK'
    <2>1. TakeCeremony(c) /\ ~Open(c, "gone")
          /\ UNCHANGED <<users, sessions, passkeys, fruits, wishes>>
          /\ (UNCHANGED requests \/ Starts([Idle EXCEPT !.pc = "enlist", !.who = u, !.by = c]))
      BY <1>6 DEF FinishRegistration, Open
    <2>2. QED
      BY <2>1, TakenOK
  <1>7. ASSUME NEW u \in Users, NEW c \in Ceremonies, FinishAuthentication(u, c) PROVE AccountsOK'
    <2>1. TakeCeremony(c) /\ ~Open(c, "gone")
          /\ UNCHANGED <<users, sessions, passkeys, fruits, wishes>>
          /\ Starts([Idle EXCEPT !.pc = "accept", !.who = u, !.by = c])
      BY <1>7 DEF FinishAuthentication, Open
    <2>2. QED
      BY <2>1, TakenOK
  <1>8. QED
    BY <1>1, <1>2, <1>3, <1>4, <1>5, <1>6, <1>7 DEF AccountEvents

LEMMA RequestFailsOK ==
    ASSUME AccountsOK, NEW s \in Slots, RequestFails(s)
    PROVE  AccountsOK'
  BY EndsOK, StoreKept DEF RequestFails, AccountsOK

-----------------------------------------------------------------------------
(* Households                                                              *)

CatalogOK == HomesOK /\ CamerasOK /\ CapturesOK /\ OwnerOK

LEMMA CatalogKept ==
    ASSUME CatalogOK, UNCHANGED catalog
    PROVE  CatalogOK'
  BY DEF CatalogOK, HomesOK, Fits, CamerasOK, CapturesOK, OwnerOK,
         catalog, homes, cameras, captures

LEMMA HomesKept ==
    ASSUME CatalogOK, UNCHANGED <<homes, owner>>
    PROVE  HomesOK' /\ OwnerOK'
  BY DEF CatalogOK, HomesOK, Fits, OwnerOK, homes

LEMMA CamerasKept ==
    ASSUME CatalogOK, UNCHANGED cameras
    PROVE  CamerasOK'
  BY DEF CatalogOK, CamerasOK, cameras

LEMMA CapturesKept ==
    ASSUME CatalogOK, UNCHANGED captures
    PROVE  CapturesOK'
  BY DEF CatalogOK, CapturesOK, captures

(* Only the ids given out so far are different.                            *)
LEMMA IdsGiven ==
    ASSUME CatalogOK, UNCHANGED <<households, seats, people, bindings, owner>>, known \subseteq known'
    PROVE  HomesOK' /\ OwnerOK'
  BY DEF CatalogOK, HomesOK, Fits, OwnerOK

(* A household with room seats one person more.                            *)
LEMMA SeatedOK ==
    ASSUME CatalogOK, NEW h \in Homes \cup {Absent}, NEW p \in People, HasRoom(h), Seated(h, p),
           UNCHANGED <<households, bindings>>, people' \subseteq People, known \subseteq known'
    PROVE  HomesOK' /\ OwnerOK'
  <1>1. owner' = [owner EXCEPT ![p] = IF owner[p] = Absent THEN h ELSE owner[p]]
    BY DEF Seated
  <1>2. OwnerOK'
    BY <1>1 DEF CatalogOK, OwnerOK
  <1>3. seats \in [Homes -> SUBSET People] /\ seats' = [seats EXCEPT ![h] = seats[h] \cup {p}]
    BY DEF Seated, CatalogOK, HomesOK
  <1>4. seats' \in [Homes -> SUBSET People]
        /\ \A g \in Homes : seats'[g] = IF g = h THEN seats[h] \cup {p} ELSE seats[g]
    BY <1>3
  <1>5. ASSUME NEW g \in Homes PROVE Fits(g)'
    <2>1. Fits(g)
      BY DEF CatalogOK, HomesOK
    <2>2. CASE g # h
      BY <1>4, <2>1, <2>2 DEF Fits
    <2>3. CASE g = h
      <3>1. IsFiniteSet(seats[h]) /\ Cardinality(seats[h]) \in Nat
        BY <1>3, <2>3, AccountsAssumption, FS_Subset, FS_CardinalityType
      <3>2. Cardinality(seats[h] \cup {p}) <= Cardinality(seats[h]) + 1
        BY <3>1, FS_AddElement
      <3>3. households[h] \in Nat /\ Cardinality(seats[h]) < households[h] /\ h \in known
        BY <2>1, <2>3, GridAssumption DEF HasRoom, CatalogOK, HomesOK, Fits
      <3>4. Cardinality(seats'[h]) <= households[h]
        <4>1. Cardinality(seats[h] \cup {p}) \in Nat
          BY <3>1, FS_AddElement, FS_CardinalityType
        <4>2. seats'[h] = seats[h] \cup {p}
          BY <1>4, <2>3
        <4>3. QED
          BY <3>1, <3>2, <3>3, <4>1, <4>2
      <3>5. QED
        BY <2>3, <3>3, <3>4 DEF Fits
    <2>4. QED
      BY <2>2, <2>3
  <1>6. QED
    BY <1>2, <1>4, <1>5 DEF HomesOK, CatalogOK

LEMMA AddPersonOK ==
    ASSUME CatalogOK, NEW h \in Homes \cup {Absent}, NEW p \in People, AddPerson(h, p)
    PROVE  HomesOK' /\ OwnerOK'
  <1>1. /\ HasRoom(h) /\ Seated(h, p) /\ UNCHANGED <<households, bindings>>
        /\ people' \subseteq People /\ known \subseteq known'
    BY DEF AddPerson, CatalogOK, HomesOK
  <1>2. QED
    BY <1>1, SeatedOK

(* A new household has nobody seated yet.                                  *)
LEMMA CreateHouseholdOK ==
    ASSUME CatalogOK, NEW h \in Homes, CreateHousehold(h)
    PROVE  HomesOK' /\ OwnerOK'
  <1>1. /\ h \notin known /\ known' = known \cup {h}
        /\ households' = [households EXCEPT ![h] = SmallGrid]
        /\ UNCHANGED <<seats, people, bindings, owner>>
    BY DEF CreateHousehold, Fresh
  <1>2. seats[h] = {} /\ Cardinality(seats[h]) = 0
    BY <1>1, FS_EmptySet DEF CatalogOK, HomesOK, Fits
  <1>3. ASSUME NEW g \in Homes PROVE Fits(g)'
    BY <1>1, <1>2, GridAssumption DEF CatalogOK, HomesOK, Fits
  <1>4. QED
    BY <1>1, <1>3 DEF CatalogOK, HomesOK, OwnerOK

-----------------------------------------------------------------------------
(* Rows of an account                                                      *)

LEMMA UsersSet ==
    ASSUME AccountsOK, users' \in [Users -> {Absent} \cup User], RequestsOK', ByKept,
           UNCHANGED <<sessions, passkeys, ceremonies, fruits, wishes>>
    PROVE  AccountsOK'
  <1>1. StoreOK' /\ CeremoniesOK'
    BY DEF AccountsOK, StoreOK, CeremoniesOK
  <1>2. QED
    BY <1>1, OnceKept DEF AccountsOK

LEMMA CreateUserOK ==
    ASSUME StoreOK, NEW u \in Users, CreateUser(u)
    PROVE  users' \in [Users -> {Absent} \cup User]
  <1>1. NewUser \in User
    BY DEF NewUser, User
  <1>2. QED
    BY <1>1 DEF StoreOK, CreateUser

LEMMA LinkUserOK ==
    ASSUME StoreOK, NEW u \in Users, Registered(u),
           NEW h \in Homes \cup {Absent}, NEW p \in People \cup {Absent}, LinkUser(u, h, p)
    PROVE  users' \in [Users -> {Absent} \cup User]
  <1>1. users[u] \in User
    BY DEF StoreOK, Registered
  <1>2. [[users[u] EXCEPT !.home = h] EXCEPT !.person = p] \in User
    BY <1>1 DEF User
  <1>3. users' = [users EXCEPT ![u] = [[users[u] EXCEPT !.home = h] EXCEPT !.person = p]]
    BY DEF LinkUser, StoreOK
  <1>4. QED
    BY <1>2, <1>3 DEF StoreOK

LEMMA SetRoleOK ==
    ASSUME StoreOK, NEW u \in Users, Registered(u), NEW role \in {"admin", "member"}, SetRole(u, role)
    PROVE  users' \in [Users -> {Absent} \cup User]
  <1>1. users[u] \in User
    BY DEF StoreOK, Registered
  <1>2. [users[u] EXCEPT !.role = role] \in User
    BY <1>1 DEF User
  <1>3. users' = [users EXCEPT ![u] = [users[u] EXCEPT !.role = role]]
    BY DEF SetRole
  <1>4. QED
    BY <1>2, <1>3 DEF StoreOK

LEMMA ForgottenOK ==
    ASSUME CeremoniesOK, OnceOK, ByKept, NEW u, ceremonies' = Forgotten(u), UNCHANGED fruits
    PROVE  CeremoniesOK' /\ OnceOK'
  <1>1. CeremoniesOK' /\ \A c \in Ceremonies : Open(c, "gone") => ceremonies'[c].kind = "gone"
    BY DEF CeremoniesOK, Forgotten, Gone, Ceremony, Open
  <1>2. QED
    BY <1>1, OnceOpened

LEMMA DeleteUserOK ==
    ASSUME AccountsOK, NEW u \in Users, DeleteUser(u), RequestsOK', ByKept
    PROVE  AccountsOK'
  <1>1. StoreOK'
    BY DEF DeleteUser, AccountsOK, StoreOK
  <1>2. QED
    BY <1>1, ForgottenOK DEF DeleteUser, AccountsOK

-----------------------------------------------------------------------------
(* The steps and events of the household side                              *)

ServerOK == AccountsOK /\ CatalogOK

LEMMA RequestUser ==
    ASSUME RequestsOK, NEW s \in Slots
    PROVE  /\ requests[s].user.home \in Homes \cup {Absent}
           /\ requests[s].person \in People \cup {Absent}
  <1>1. requests[s].user \in User /\ requests[s].person \in People \cup {Absent}
    BY DEF RequestsOK, Request
  <1>2. QED
    BY <1>1 DEF User

(* A request goes on with the household or the person it has just made.    *)
LEMMA GoesWith ==
    ASSUME RequestsOK, NEW s \in Slots, requests[s].who \in Users, NEW h \in Homes, NEW p \in People,
           \/ requests' = [requests EXCEPT ![s].pc = "person", ![s].user.home = h]
           \/ requests' = [requests EXCEPT ![s].pc = "link", ![s].person = p]
           \/ requests' = [requests EXCEPT ![s].pc = "mint", ![s].user.home = h]
    PROVE  RequestsOK' /\ ByKept
  <1> DEFINE q == requests[s]
             v == [q.user EXCEPT !.home = h]
  <1>1. requests \in [Slots -> Request] /\ q \in Request /\ ReqOK(q) /\ q.user \in User
    BY DEF RequestsOK, Request
  <1>2. v \in User /\ v.home = h
    BY <1>1 DEF User
  <1>3. ASSUME NEW pc \in {"person", "mint"},
               requests' = [requests EXCEPT ![s].pc = pc, ![s].user.home = h]
        PROVE  RequestsOK' /\ ByKept
    <2> DEFINE r == [[q EXCEPT !.pc = pc] EXCEPT !.user = v]
    <2>1. requests' = [requests EXCEPT ![s] = r]
      BY <1>1, <1>3 DEF Request
    <2>2. r \in Request /\ r.pc = pc /\ r.who = q.who /\ r.by = q.by /\ r.user = v
      BY <1>1, <1>2 DEF Request, Stages
    <2> HIDE DEF r, v
    <2>3. ReqOK(r)
      BY <1>2, <2>2 DEF ReqOK
    <2>4. QED
      BY <2>1, <2>2, <2>3, RequestKept
  <1>4. ASSUME requests' = [requests EXCEPT ![s].pc = "link", ![s].person = p]
        PROVE  RequestsOK' /\ ByKept
    <2> DEFINE r == [[q EXCEPT !.pc = "link"] EXCEPT !.person = p]
    <2>1. requests' = [requests EXCEPT ![s] = r]
      BY <1>1, <1>4 DEF Request
    <2>2. r \in Request /\ r.pc = "link" /\ r.who = q.who /\ r.by = q.by
      BY <1>1 DEF Request, Stages
    <2> HIDE DEF r
    <2>3. ReqOK(r)
      BY <2>2 DEF ReqOK
    <2>4. QED
      BY <2>1, <2>2, <2>3, RequestKept
  <1>5. QED
    BY <1>3, <1>4

LEMMA HouseholdStepOK ==
    ASSUME ServerOK, NEW s \in Slots, HouseholdStep(s)
    PROVE  ServerOK'
  <1> USE DEF ServerOK
  <1>0. /\ ReqOK(requests[s]) /\ RequestsOK
        /\ requests[s].user.home \in Homes \cup {Absent}
        /\ requests[s].person \in People \cup {Absent}
    BY RequestUser DEF AccountsOK, RequestsOK
  <1>1. CASE AddMember(s)
    <2>1. AccountsOK'
      BY <1>1, <1>0, EndsOK, StoreKept DEF AddMember
    <2>2. HomesOK' /\ OwnerOK'
      <3>1. CASE UNCHANGED <<homes, owner>>
        BY <3>1, HomesKept
      <3>2. CASE Fresh(People) # {}
                 /\ AddPerson(requests[s].user.home, CHOOSE p \in Fresh(People) : TRUE)
        <4>1. (CHOOSE p \in Fresh(People) : TRUE) \in People
          BY <3>2 DEF Fresh
        <4>2. QED
          BY <1>0, <3>2, <4>1, AddPersonOK
      <3>3. QED
        BY <1>1, <3>1, <3>2 DEF AddMember
    <2>3. CamerasOK' /\ CapturesOK'
      BY <1>1, CamerasKept, CapturesKept DEF AddMember
    <2>4. QED
      BY <2>1, <2>2, <2>3 DEF CatalogOK
  <1>2. CASE SignupUser(s)
    <2>1. requests[s].who \in Users /\ CreateUser(requests[s].who) /\ Goes(s, "house")
      BY <1>0, <1>2 DEF SignupUser, At, ReqOK, OfAccount
    <2>2. RequestsOK' /\ ByKept
      BY <1>0, <2>1, GoesOK DEF Stages
    <2>3. users' \in [Users -> {Absent} \cup User]
      BY <2>1, CreateUserOK DEF AccountsOK
    <2>4. HomesOK' /\ OwnerOK'
      BY <1>2, IdsGiven DEF SignupUser
    <2>5. QED
      BY <1>2, <2>2, <2>3, <2>4, UsersSet, CamerasKept, CapturesKept DEF SignupUser, CatalogOK
  <1>3. CASE SignupHousehold(s)
    <2> DEFINE h == CHOOSE h \in Fresh(Homes) : TRUE
    <2>1. h \in Homes /\ CreateHousehold(h)
          /\ requests' = [requests EXCEPT ![s].pc = "person", ![s].user.home = h]
      BY <1>3 DEF SignupHousehold, Fresh
    <2> HIDE DEF h
    <2>2. requests[s].who \in Users
      BY <1>0, <1>3 DEF SignupHousehold, At, ReqOK, OfAccount
    <2>3. RequestsOK' /\ ByKept
      BY <1>0, <2>1, <2>2, GoesWith, ServiceAssumption
    <2>4. QED
      BY <1>3, <2>1, <2>3, StoreKept, CreateHouseholdOK, CamerasKept, CapturesKept
      DEF SignupHousehold, CatalogOK
  <1>4. CASE SignupPerson(s)
    <2> DEFINE p == CHOOSE p \in Fresh(People) : TRUE
    <2>1. p \in People /\ AddPerson(requests[s].user.home, p)
          /\ requests' = [requests EXCEPT ![s].pc = "link", ![s].person = p]
      BY <1>4 DEF SignupPerson, Fresh
    <2> HIDE DEF p
    <2>2. requests[s].who \in Users
      BY <1>0, <1>4 DEF SignupPerson, At, ReqOK, OfAccount
    <2>3. RequestsOK' /\ ByKept
      BY <1>0, <2>1, <2>2, GoesWith, ServiceAssumption
    <2>4. QED
      BY <1>0, <1>4, <2>1, <2>3, StoreKept, AddPersonOK, CamerasKept, CapturesKept
      DEF SignupPerson, CatalogOK
  <1>5. CASE SignupLink(s)
    <2>1. /\ requests[s].who \in Users /\ Registered(requests[s].who) /\ Goes(s, "role")
          /\ LinkUser(requests[s].who, requests[s].user.home, requests[s].person)
      BY <1>0, <1>5 DEF SignupLink, At, ReqOK, OfAccount
    <2>2. RequestsOK' /\ ByKept
      BY <1>0, <2>1, GoesOK DEF Stages
    <2>3. users' \in [Users -> {Absent} \cup User]
      BY <1>0, <2>1, LinkUserOK DEF AccountsOK
    <2>4. QED
      BY <1>5, <2>2, <2>3, UsersSet, CatalogKept DEF SignupLink
  <1>6. CASE SignupRole(s)
    <2>1. /\ requests[s].who \in Users /\ Registered(requests[s].who) /\ Goes(s, "session")
          /\ SetRole(requests[s].who, "admin")
      BY <1>0, <1>6 DEF SignupRole, At, ReqOK, OfAccount
    <2>2. RequestsOK' /\ ByKept
      BY <1>0, <2>1, GoesOK DEF Stages
    <2>3. users' \in [Users -> {Absent} \cup User]
      BY <2>1, SetRoleOK DEF AccountsOK
    <2>4. QED
      BY <1>6, <2>2, <2>3, UsersSet, CatalogKept DEF SignupRole
  <1>7. CASE SignupLost(s)
    BY <1>0, <1>7, EndsOK, StoreKept, CatalogKept DEF SignupLost
  <1>8. CASE BindHousehold(s)
    <2>1. requests[s].who \in Users /\ bindings \in [Users -> Homes \cup {Absent}]
      BY <1>0, <1>8 DEF BindHousehold, At, ReqOK, OfAccount, CatalogOK, HomesOK
    <2>2. RequestsOK' /\ ByKept
      <3>1. CASE requests[s].user.home # Absent /\ Goes(s, "mint")
        BY <1>0, <2>1, <3>1, GoesOK DEF Stages
      <3>2. CASE bindings[requests[s].who] # Absent
                 /\ requests' = [requests EXCEPT ![s].pc = "mint",
                                                 ![s].user.home = bindings[requests[s].who]]
        <4>1. PICK h : h = bindings[requests[s].who]
          OBVIOUS
        <4>2. h \in Homes
          BY <2>1, <3>2, <4>1
        <4>3. requests' = [requests EXCEPT ![s].pc = "mint", ![s].user.home = h]
          BY <3>2, <4>1
        <4>4. QED
          BY <1>0, <2>1, <4>2, <4>3, GoesWith, ServiceAssumption
      <3>3. CASE Ends(s)
        BY <1>0, <3>3, EndsOK
      <3>4. QED
        BY <1>8, <3>1, <3>2, <3>3 DEF BindHousehold
    <2>3. bindings' \in [Users -> Homes \cup {Absent}]
      BY <1>0, <1>8, <2>1 DEF BindHousehold
    <2>4. HomesOK' /\ OwnerOK'
      BY <1>8, <2>3 DEF BindHousehold, CatalogOK, HomesOK, Fits, OwnerOK
    <2>5. CamerasOK' /\ CapturesOK' /\ UNCHANGED store
      BY <1>8, CamerasKept, CapturesKept DEF BindHousehold
    <2>6. QED
      BY <2>2, <2>4, <2>5, StoreKept DEF CatalogOK
  <1>9. CASE MintFor(s)
    <2>1. requests[s].user.home \in Homes
      BY <1>0, <1>9 DEF MintFor, At, ReqOK
    <2>2. CamerasOK'
      BY <1>9, <2>1 DEF MintFor, CatalogOK, CamerasOK
    <2>3. QED
      BY <1>0, <1>9, <2>2, EndsOK, StoreKept, HomesKept, CapturesKept DEF MintFor, CatalogOK
  <1>10. CASE Reserve(s)
    <2>1. requests[s].photo \in Photos /\ NewPhoto(requests[s].who) \in Photo
      BY <1>0, <1>10 DEF Reserve, At, ReqOK, NewPhoto, Photo
    <2>2. CapturesOK'
      BY <1>10, <2>1 DEF Reserve, CatalogOK, CapturesOK
    <2>3. TakenFor(requests[s]) \in Homes \cup {Absent}
      <3>1. requests[s].user.home \in Homes \cup {Absent}
        BY <1>0, RequestUser DEF User
      <3>2. requests[s].who \in Cameras \cup {Absent}
        BY <1>0, <1>10 DEF Reserve, At, ReqOK
      <3>3. QED
        BY <3>1, <3>2 DEF TakenFor, CatalogOK, CamerasOK
    <2>4. OwnerOK' /\ HomesOK'
      BY <1>10, <2>1, <2>3 DEF Reserve, CatalogOK, OwnerOK, HomesOK, Fits, homes
    <2>5. QED
      BY <1>0, <1>10, <2>2, <2>4, EndsOK, StoreKept, CamerasKept DEF Reserve, CatalogOK
  <1>11. CASE ReserveEnrollment(s)
    <2>1. /\ requests[s].photo \in Photos /\ requests[s].person \in People
          /\ NewPhoto(Absent) \in Photo
      BY <1>0, <1>11 DEF ReserveEnrollment, At, ReqOK, NewPhoto, Photo
    <2>2. CapturesOK'
      BY <1>11, <2>1 DEF ReserveEnrollment, CatalogOK, CapturesOK
    <2>3. RequestsOK' /\ ByKept
      BY <1>0, <1>11, <2>1, GoesOK DEF ReserveEnrollment, Stages, OfAccount
    <2>4. QED
      BY <1>11, <2>2, <2>3, StoreKept, HomesKept, CamerasKept DEF ReserveEnrollment, CatalogOK
  <1>12. CASE NameEnrollment(s)
    <2>1. PICK x \in Photos, p \in People : x = requests[s].photo /\ p = requests[s].person
      BY <1>0, <1>12 DEF NameEnrollment, At, ReqOK
    <2>2. photos' = [photos EXCEPT ![x] = IF photos[x] = Absent THEN photos[x]
                                          ELSE [photos[x] EXCEPT !.person = p]]
      BY <1>12, <2>1 DEF NameEnrollment
    <2>3. photos[x] # Absent => [photos[x] EXCEPT !.person = p] \in Photo
      BY DEF CatalogOK, CapturesOK, Photo
    <2>4. photos' \in [Photos -> {Absent} \cup Photo]
      <3>1. (IF photos[x] = Absent THEN photos[x] ELSE [photos[x] EXCEPT !.person = p])
               \in {Absent} \cup Photo
        BY <2>3
      <3>2. QED
        BY <2>2, <3>1 DEF CatalogOK, CapturesOK
    <2>5. CapturesOK'
      BY <1>12, <2>1, <2>4 DEF NameEnrollment, CatalogOK, CapturesOK
    <2>6. OwnerOK' /\ HomesOK'
      BY <1>0, <1>12, <2>1 DEF NameEnrollment, CatalogOK, OwnerOK, HomesOK, Fits, homes
    <2>7. QED
      BY <1>0, <1>12, <2>5, <2>6, EndsOK, StoreKept, CamerasKept DEF NameEnrollment, CatalogOK
  <1>13. QED
    BY <1>1, <1>2, <1>3, <1>4, <1>5, <1>6, <1>7, <1>8, <1>9, <1>10, <1>11, <1>12
    DEF HouseholdStep

LEMMA PhotoStepOK ==
    ASSUME CatalogOK, NEW x \in Photos, PhotoStep(x)
    PROVE  CatalogOK' /\ UNCHANGED accounts
  <1>1. CASE PutObject(x)
    BY <1>1 DEF PutObject, CatalogOK, HomesOK, Fits, CamerasOK, CapturesOK, OwnerOK, homes, cameras
  <1>2. CASE Finalize(x)
    <2>1. photos[x] \in Photo /\ [photos[x] EXCEPT !.ready = TRUE] \in Photo
      BY <1>2 DEF Finalize, CatalogOK, CapturesOK, Photo
    <2>2. photos' \in [Photos -> {Absent} \cup Photo]
      BY <1>2, <2>1 DEF Finalize, CatalogOK, CapturesOK
    <2>3. QED
      BY <1>2, <2>2
      DEF Finalize, CatalogOK, HomesOK, Fits, CamerasOK, CapturesOK, OwnerOK, homes, cameras
  <1>3. CASE GrantEnds(x)
    BY <1>3 DEF GrantEnds, CatalogOK, HomesOK, Fits, CamerasOK, CapturesOK, OwnerOK, homes, cameras
  <1>4. QED
    BY <1>1, <1>2, <1>3 DEF PhotoStep

LEMMA UpdateHouseholdOK ==
    ASSUME CatalogOK, NEW h \in Homes, NEW g \in {SmallGrid, LargeGrid}, NEW S \in SUBSET people,
           UpdateHousehold(h, g, S)
    PROVE  CatalogOK'
  <1>1. /\ households[h] # Absent /\ Cardinality(S) <= g /\ UNCHANGED <<people, known, bindings>>
        /\ households' = [households EXCEPT ![h] = g] /\ seats' = [seats EXCEPT ![h] = S]
        /\ S \in SUBSET People
    BY DEF UpdateHousehold, CatalogOK, HomesOK
  <1>2. ASSUME NEW f \in Homes PROVE Fits(f)'
    BY <1>1 DEF CatalogOK, HomesOK, Fits
  <1>3. HomesOK'
    BY <1>1, <1>2 DEF CatalogOK, HomesOK
  <1>4. OwnerOK'
    BY DEF UpdateHousehold, CatalogOK, OwnerOK
  <1>5. QED
    BY <1>3, <1>4, CamerasKept, CapturesKept DEF UpdateHousehold, CatalogOK

LEMMA SameAccounts ==
    ASSUME AccountsOK, UNCHANGED accounts
    PROVE  AccountsOK'
  BY SameRequests, StoreKept DEF AccountsOK, accounts

LEMMA HouseholdEventsOK ==
    ASSUME ServerOK, HouseholdEvents
    PROVE  ServerOK'
  <1> USE DEF ServerOK
  <1>1. ASSUME NEW u \in Users, AddHouseholdPerson(u) \/ MintClaimToken(u) PROVE ServerOK'
    <2>1. RequestsOK' /\ ByKept /\ UNCHANGED store /\ UNCHANGED catalog
      BY <1>1, BeginsOK DEF AddHouseholdPerson, MintClaimToken, AccountsOK
    <2>2. QED
      BY <2>1, StoreKept, CatalogKept
  <1>2. ASSUME NEW u \in Users, Signup(u) PROVE ServerOK'
    <2>1. AccountsOK'
      BY <1>2, PlainStart DEF Signup
    <2>2. QED
      BY <1>2, <2>1, CatalogKept DEF Signup
  <1>3. ASSUME NEW h \in Homes, NEW g \in {SmallGrid, LargeGrid}, NEW S \in SUBSET people,
               UpdateHousehold(h, g, S)
        PROVE  ServerOK'
    BY <1>3, UpdateHouseholdOK, SameAccounts DEF UpdateHousehold
  <1>4. ASSUME NEW p \in Fresh(People), CreatePerson(p) PROVE ServerOK'
    <2>1. HomesOK' /\ OwnerOK'
      BY <1>4 DEF CreatePerson, Fresh, CatalogOK, HomesOK, Fits, OwnerOK
    <2>2. QED
      BY <1>4, <2>1, SameAccounts, CamerasKept, CapturesKept DEF CreatePerson, CatalogOK
  <1>5. ASSUME NEW h \in Homes, AdminHousehold(h) PROVE ServerOK'
    BY <1>5, CreateHouseholdOK, SameAccounts, CamerasKept, CapturesKept
    DEF AdminHousehold, CatalogOK
  <1>6. ASSUME NEW c \in Cameras, NEW h \in Homes, Claim(c, h) PROVE ServerOK'
    <2>1. CamerasOK'
      BY <1>6 DEF Claim, CatalogOK, CamerasOK
    <2>2. QED
      BY <1>6, <2>1, SameAccounts, HomesKept, CapturesKept DEF Claim, CatalogOK
  <1>7. ASSUME NEW c \in Cameras \cup {Absent}, NEW x \in Photos, Authorize(c, x) PROVE ServerOK'
    <2> DEFINE r == [Idle EXCEPT !.pc = "reserve", !.photo = x, !.who = AuthenticateDevice(c),
                                 !.user.home = IF c = Absent THEN Absent ELSE devices[c]]
               h == IF c = Absent THEN Absent ELSE devices[c]
               w == AuthenticateDevice(c)
    <2>1. h \in Homes \cup {Absent} /\ w \in Cameras \cup {Absent}
      BY DEF CatalogOK, CamerasOK, AuthenticateDevice
    <2>2. PICK q : q = r
      OBVIOUS
    <2>3. Starts(q)
      BY <1>7, <2>2, Zenon DEF Authorize
    <2> HIDE DEF h, w
    <2>4. q = [pc |-> "reserve", who |-> w, user |-> [home |-> h, person |-> Absent, role |-> "member"],
               person |-> Absent, photo |-> x, by |-> Absent]
      BY <2>2 DEF Idle, NewUser, h, w
    <2>5. [home |-> h, person |-> Absent, role |-> "member"] \in User
      BY <2>1 DEF User
    <2>6. q \in Request /\ q.pc = "reserve" /\ q.who = w /\ q.photo = x /\ q.by = Absent
      BY <2>1, <2>4, <2>5 DEF Request, Stages
    <2>7. ReqOK(q)
      BY <2>1, <2>6 DEF ReqOK, OfAccount
    <2>8. RequestsOK' /\ ByKept
      BY <2>3, <2>6, <2>7, FreshRequest DEF AccountsOK
    <2>9. HomesOK' /\ OwnerOK'
      BY <1>7, IdsGiven DEF Authorize
    <2>10. QED
      BY <1>7, <2>8, <2>9, StoreKept, CamerasKept, CapturesKept DEF Authorize, CatalogOK
  <1>8. ASSUME NEW u \in Users, NEW p \in People, NEW x \in Photos, Enroll(u, p, x) PROVE ServerOK'
    <2>1. users[u] \in User
      BY <1>8 DEF Enroll, Authenticated, Registered, AccountsOK, StoreOK
    <2>2. PICK q : q = [Idle EXCEPT !.pc = "enroll", !.who = u, !.user = users[u],
                                    !.person = p, !.photo = x]
      OBVIOUS
    <2>3. Starts(q)
      BY <1>8, <2>2, Zenon DEF Enroll
    <2>4. q = [pc |-> "enroll", who |-> u, user |-> users[u], person |-> p, photo |-> x, by |-> Absent]
      BY <2>2 DEF Idle
    <2>5. q \in Request /\ q.pc = "enroll" /\ q.who = u /\ q.photo = x /\ q.person = p /\ q.by = Absent
      BY <2>1, <2>4 DEF Request, Stages
    <2>6. ReqOK(q)
      BY <2>5 DEF ReqOK, OfAccount
    <2>7. RequestsOK' /\ ByKept
      BY <2>3, <2>5, <2>6, FreshRequest DEF AccountsOK
    <2>8. HomesOK' /\ OwnerOK'
      BY <1>8, IdsGiven DEF Enroll
    <2>9. QED
      BY <1>8, <2>7, <2>8, StoreKept, CamerasKept, CapturesKept DEF Enroll, CatalogOK
  <1>9. ASSUME NEW s \in Slots, SignupUndone(s) PROVE ServerOK'
    <2>1. RequestsOK' /\ ByKept
      BY <1>9, EndsOK DEF SignupUndone, AccountsOK
    <2>2. PICK u \in Users : u = requests[s].who
      BY <1>9 DEF SignupUndone, AccountsOK, RequestsOK, ReqOK, OfAccount
    <2>3. DeleteUser(u)
      BY <1>9, <2>2 DEF SignupUndone
    <2>4. QED
      BY <1>9, <2>1, <2>3, DeleteUserOK, CatalogKept DEF SignupUndone
  <1>10. CASE Fresh(People) # {} /\ CreatePerson(CHOOSE p \in Fresh(People) : TRUE)
    <2>1. PICK p \in Fresh(People) : p = CHOOSE q \in Fresh(People) : TRUE
      BY <1>10
    <2>2. QED
      BY <1>4, <1>10, <2>1
  <1>11. CASE Fresh(Homes) # {} /\ AdminHousehold(CHOOSE h \in Fresh(Homes) : TRUE)
    <2>1. PICK h \in Fresh(Homes) : h = CHOOSE g \in Fresh(Homes) : TRUE
      BY <1>11
    <2>2. h \in Homes
      BY DEF Fresh
    <2>3. QED
      BY <1>5, <1>11, <2>1, <2>2
  <1>12. QED
    BY <1>1, <1>2, <1>3, <1>6, <1>7, <1>8, <1>9, <1>10, <1>11 DEF HouseholdEvents

-----------------------------------------------------------------------------
(* Faces                                                                   *)

(* What propose does to one face: labels of people stay, and who it        *)
(* suggests has been confirmed often enough.                               *)
LEMMA Proposed ==
    ASSUME NEW F \in [Photos -> {Absent} \cup Face], NEW X \in SUBSET Photos, Propose(F, X)
    PROVE  /\ FacesOK'
           /\ \A x \in Photos : x \notin Candidates(F, X) => faces'[x] = F[x]
           /\ \A x \in Candidates(F, X) :
                 faces'[x] = Unknown \/ \E p \in Enrolled(F) : faces'[x] = By("match", p)
  <1>1. PICK match \in [Candidates(F, X) -> BestMatch(F)] :
           faces' = [x \in Photos |->
                        IF x \notin Candidates(F, X) THEN F[x]
                        ELSE IF match[x] = Absent THEN Unknown ELSE By("match", match[x])]
    BY DEF Propose
  <1>2. Candidates(F, X) \subseteq Photos /\ Enrolled(F) \subseteq People
    BY DEF Candidates, Enrolled
  <1>3. \A x \in Photos : x \notin Candidates(F, X) => faces'[x] = F[x]
    BY <1>1
  <1>4. ASSUME NEW x \in Candidates(F, X)
        PROVE  faces'[x] = Unknown \/ \E p \in Enrolled(F) : faces'[x] = By("match", p)
    <2>1. faces'[x] = IF match[x] = Absent THEN Unknown ELSE By("match", match[x])
      BY <1>1, <1>2
    <2>2. match[x] \in Enrolled(F) \cup {Absent}
      BY DEF BestMatch
    <2>3. QED
      BY <2>1, <2>2
  <1>5. Unknown \in Face /\ \A p \in People : By("match", p) \in Face
    BY DEF Unknown, By, Face, Sources
  <1>6. \A x \in Photos : faces'[x] \in {Absent} \cup Face
    <2>1. ASSUME NEW x \in Photos PROVE faces'[x] \in {Absent} \cup Face
      <3>1. CASE x \in Candidates(F, X)
        BY <1>2, <1>4, <1>5, <3>1
      <3>2. CASE x \notin Candidates(F, X)
        BY <1>3, <3>2
      <3>3. QED
        BY <3>1, <3>2
    <2>2. QED
      BY <2>1
  <1>7. faces' = [x \in Photos |-> faces'[x]]
    BY <1>1
  <1>8. QED
    BY <1>3, <1>4, <1>6, <1>7 DEF FacesOK

LEMMA FoundOK ==
    ASSUME FacesOK, CapturesOK, NEW x \in Photos, NEW one \in BOOLEAN
    PROVE  /\ Found(x, one) \in [Photos -> {Absent} \cup Face]
           /\ \A y \in Photos \ {x} : Found(x, one)[y] = faces[y]
           /\ Found(x, one)[x] = Absent \/ Found(x, one)[x] = Unknown
              \/ \E p \in People : Found(x, one)[x] = By("enrollment", p)
  <1> DEFINE p == EnrollmentPerson(x)
             v == IF ~one THEN Absent ELSE IF p = Absent THEN Unknown ELSE By("enrollment", p)
  <1>1. p \in People \cup {Absent}
    BY DEF EnrollmentPerson, CapturesOK, Photo
  <1>2. Found(x, one) = [faces EXCEPT ![x] = v]
    BY DEF Found
  <1> HIDE DEF p
  <1>3. v = Absent \/ v = Unknown \/ \E q \in People : v = By("enrollment", q)
    BY <1>1
  <1>4. Unknown \in Face /\ \A q \in People : By("enrollment", q) \in Face
    BY DEF Unknown, By, Face, Sources
  <1>5. v \in {Absent} \cup Face
    BY <1>3, <1>4
  <1> HIDE DEF v
  <1>6. QED
    BY <1>2, <1>3, <1>5 DEF FacesOK

LEMMA LabelOK ==
    ASSUME FacesOK, NEW x \in Photos, NEW p \in People \cup {Absent}, NEW label \in Labels(p)
    PROVE  [faces EXCEPT ![x] = label] \in [Photos -> {Absent} \cup Face]
  <1>1. label \in Face
    BY DEF Labels, By, Face, Sources
  <1>2. QED
    BY <1>1 DEF FacesOK

LEMMA FaceStepOK ==
    ASSUME ServerOK, FacesOK, NEW x \in Photos, FaceStep(x)
    PROVE  ServerOK' /\ FacesOK'
  <1>1. PICK one \in BOOLEAN : Complete(x, one)
    BY DEF FaceStep
  <1>2. FacesOK'
    <2>1. PICK F : F = Found(x, one)
      OBVIOUS
    <2>2. F \in [Photos -> {Absent} \cup Face] /\ Propose(F, {x})
      BY <1>1, <2>1, FoundOK DEF Complete, ServerOK, CatalogOK
    <2>3. QED
      BY <2>2, Proposed
  <1>3. AccountsOK'
    BY <1>1, SameAccounts DEF Complete, ServerOK
  <1>4. CatalogOK'
    BY <1>1 DEF Complete, ServerOK, CatalogOK, HomesOK, Fits, CamerasOK, CapturesOK, OwnerOK,
                homes, cameras
  <1>5. QED
    BY <1>2, <1>3, <1>4 DEF ServerOK

LEMMA FaceEventsOK ==
    ASSUME ServerOK, FacesOK, FaceEvents
    PROVE  ServerOK' /\ FacesOK'
  <1>1. CASE RefreshFaceSuggestions
    <2>1. FacesOK'
      BY <1>1, Proposed DEF RefreshFaceSuggestions, FacesOK
    <2>2. QED
      BY <1>1, <2>1, SameAccounts, CatalogKept DEF RefreshFaceSuggestions, ServerOK
  <1>2. ASSUME NEW x \in Photos, NEW p \in People \cup {Absent}, AssignFace(x, p)
        PROVE  ServerOK' /\ FacesOK'
    <2>1. PICK label \in Labels(p) : Propose([faces EXCEPT ![x] = label], Photos)
      BY <1>2 DEF AssignFace
    <2>2. PICK F : F = [faces EXCEPT ![x] = label]
      OBVIOUS
    <2>3. F \in [Photos -> {Absent} \cup Face] /\ Propose(F, Photos)
      BY <2>1, <2>2, LabelOK
    <2>4. FacesOK'
      BY <2>3, Proposed
    <2>5. QED
      BY <1>2, <2>4, SameAccounts, CatalogKept DEF AssignFace, ServerOK
  <1>3. QED
    BY <1>1, <1>2 DEF FaceEvents

-----------------------------------------------------------------------------
(* The operator's command                                                  *)

LEMMA RestOK == Rest \in Command /\ Rest.pc = "rest" /\ Rest.todo = {} /\ Rest.who = Absent
  BY IdleOK DEF Rest, Command, NewUser, User

LEMMA OpEndsOK ==
    ASSUME OpEnds
    PROVE  OpOK' /\ op'.pc = "rest"
  BY RestOK DEF OpEnds, OpOK, Erasing, Linking, Deletion

(* The command goes on: what it works for stays.                           *)
SameWork == op'.who = op.who /\ op'.user = op.user /\ op'.person = op.person

LEMMA OpGoesOK ==
    ASSUME OpOK, NEW pc \in Deletion \cup Linking \cup {"rest", "register", "again"}, OpGoes(pc),
           pc \in Linking => op.pc \in Linking,
           pc \in Deletion \cup {"again"} => op.who \in Users,
           pc \in {"peers"} \cup Erasing => Home \in Homes
    PROVE  OpOK' /\ op'.pc = pc /\ SameWork
  <1>1. op \in Command /\ op' = [op EXCEPT !.pc = pc]
    BY DEF OpGoes, OpOK
  <1>2. op' \in Command /\ op'.pc = pc /\ SameWork /\ op'.todo = op.todo
    BY <1>1 DEF Command, SameWork
  <1>3. QED
    BY <1>2 DEF OpOK, SameWork, Home

(* It goes on with another list.                                           *)
LEMMA OpWorksOK ==
    ASSUME OpOK, NEW pc \in Deletion \cup Linking, NEW S,
           S \in SUBSET (People \cup Photos \cup Cameras),
           op' = [op EXCEPT !.pc = pc, !.todo = S],
           pc \in Linking => op.pc \in Linking /\ S \subseteq People,
           pc \in Deletion \cup {"again"} => op.who \in Users,
           pc \in {"peers"} \cup Erasing => Home \in Homes
    PROVE  OpOK' /\ op'.pc = pc /\ SameWork
  <1>1. op \in Command
    BY DEF OpOK
  <1>2. op' \in Command /\ op'.pc = pc /\ SameWork /\ op'.todo = S
    BY <1>1 DEF Command, SameWork
  <1>3. QED
    BY <1>2 DEF OpOK, SameWork, Home

AllOK == ServerOK /\ FacesOK /\ OpOK

(* A command erases a household only after it found nobody else in it.     *)
Continues ==
    op'.pc \in Erasing =>
        /\ SameWork
        /\ op.pc \in Erasing
           \/ (op.pc = "peers" /\ Accountants(Home) \subseteq {op.who} /\ UNCHANGED users)

LEMMA SameFaces ==
    ASSUME FacesOK, UNCHANGED faces
    PROVE  FacesOK'
  BY DEF FacesOK

LEMMA Ended ==
    ASSUME OpEnds
    PROVE  OpOK' /\ Continues
  BY OpEndsOK DEF Continues, Erasing

LEMMA DeletionStepOK ==
    ASSUME AllOK, DeletionStep, UNCHANGED requests
    PROVE  AllOK' /\ Continues
  <1> USE DEF AllOK
  <1>0. ASSUME UNCHANGED store PROVE AccountsOK'
    BY <1>0, SameAccounts DEF ServerOK, accounts
  <1>1. CASE HouseholdPeers
    <2>1. ServerOK' /\ FacesOK'
      BY <1>0, <1>1, CatalogKept, SameFaces DEF HouseholdPeers, ServerOK
    <2>2. op.who \in Users /\ op.pc = "peers" /\ Home \in Homes
      BY <1>1 DEF HouseholdPeers, OpAt, OpOK, Deletion
    <2>3. CASE OpEnds
      BY <2>1, <2>3, Ended
    <2>4. CASE OpGoes("unbind")
      <3>1. OpOK' /\ op'.pc = "unbind"
        BY <2>2, <2>4, OpGoesOK DEF Deletion, Linking, Erasing
      <3>2. QED
        BY <2>1, <3>1 DEF Continues, Erasing
    <2>5. CASE Peers = {} /\ op' = [op EXCEPT !.pc = "captures", !.whole = TRUE]
      <3>1. op \in Command /\ op' = [op EXCEPT !.pc = "captures", !.whole = TRUE]
        BY <2>5 DEF OpOK
      <3>2. op' \in Command /\ op'.pc = "captures" /\ SameWork
        BY <3>1 DEF Command, SameWork, Deletion
      <3>3. OpOK'
        BY <2>2, <3>2 DEF OpOK, SameWork, Home, Linking
      <3>4. Accountants(Home) \subseteq {op.who} /\ UNCHANGED users
        BY <1>1, <2>5 DEF HouseholdPeers, Peers, store
      <3>5. QED
        BY <2>1, <2>2, <3>2, <3>3, <3>4 DEF Continues
    <2>6. QED
      BY <1>1, <2>3, <2>4, <2>5 DEF HouseholdPeers
  <1>2. CASE ListCaptures
    <2>1. ServerOK' /\ FacesOK'
      BY <1>0, <1>2, CatalogKept, SameFaces DEF ListCaptures, ServerOK
    <2>2. op.who \in Users /\ op.pc = "captures" /\ Home \in Homes
      BY <1>2 DEF ListCaptures, OpAt, OpOK, Deletion, Erasing
    <2>3. OpOK' /\ SameWork
      <3>1. PICK S \in SUBSET (People \cup Photos \cup Cameras) :
                    op' = [op EXCEPT !.pc = "taken", !.todo = S]
        BY <1>2 DEF ListCaptures
      <3>2. QED
        BY <2>2, <3>1, OpWorksOK DEF Deletion, Linking
    <2>4. QED
      BY <2>1, <2>2, <2>3 DEF Continues, Erasing
  <1>3. CASE ListTaken
    <2>1. ServerOK' /\ FacesOK'
      BY <1>0, <1>3, CatalogKept, SameFaces DEF ListTaken, ServerOK
    <2>2. op.who \in Users /\ op.pc = "taken" /\ Home \in Homes
      BY <1>3 DEF ListTaken, OpAt, OpOK, Deletion, Erasing
    <2>3. OpOK' /\ SameWork
      <3>1. PICK T \in SUBSET Photos : op' = [op EXCEPT !.pc = "photos", !.todo = op.todo \cup T]
        BY <1>3 DEF ListTaken
      <3>2. op.todo \cup T \in SUBSET (People \cup Photos \cup Cameras)
        BY DEF OpOK, Command
      <3>3. QED
        BY <2>2, <3>1, <3>2, OpWorksOK DEF Deletion, Linking
    <2>4. QED
      BY <2>1, <2>2, <2>3 DEF Continues, Erasing
  <1>4. CASE EraseObject
    <2>1. CapturesOK'
      BY <1>4 DEF EraseObject, ServerOK, CatalogOK, CapturesOK
    <2>2. ServerOK' /\ FacesOK'
      BY <1>0, <1>4, <2>1, HomesKept, CamerasKept, SameFaces DEF EraseObject, ServerOK, CatalogOK
    <2>3. op.pc = "photos" /\ OpGoes("row") /\ op.who \in Users /\ Home \in Homes
      BY <1>4 DEF EraseObject, OpAt, OpOK, Deletion, Erasing
    <2>4. OpOK' /\ SameWork
      BY <2>3, OpGoesOK DEF Deletion, Linking
    <2>5. QED
      BY <2>2, <2>3, <2>4 DEF Continues, Erasing
  <1>5. CASE EraseRow
    <2>1. PICK x : x = Current
      OBVIOUS
    <2>2. photos' = [photos EXCEPT ![x] = Absent]
      BY <1>5, <2>1 DEF EraseRow
    <2>3. CapturesOK'
      BY <1>5, <2>2 DEF EraseRow, ServerOK, CatalogOK, CapturesOK
    <2>4. ServerOK' /\ FacesOK'
      BY <1>0, <1>5, <2>3, HomesKept, CamerasKept, SameFaces DEF EraseRow, ServerOK, CatalogOK
    <2>5. op.pc = "row" /\ OpGoes("job") /\ op.who \in Users /\ Home \in Homes
      BY <1>5 DEF EraseRow, OpAt, OpOK, Deletion, Erasing
    <2>6. OpOK' /\ SameWork
      BY <2>5, OpGoesOK DEF Deletion, Linking
    <2>7. QED
      BY <2>4, <2>5, <2>6 DEF Continues, Erasing
  <1>6. CASE EraseAnalysis
    <2>1. PICK x : x = Current
      OBVIOUS
    <2>2. faces' = [faces EXCEPT ![x] = Absent] /\ jobs' = jobs \ {x}
          /\ op' = [op EXCEPT !.pc = "photos", !.todo = op.todo \ {x}]
      BY <1>6, <2>1 DEF EraseAnalysis
    <2>3. FacesOK' /\ CapturesOK'
      BY <1>6, <2>2 DEF EraseAnalysis, FacesOK, ServerOK, CatalogOK, CapturesOK
    <2>4. ServerOK'
      BY <1>0, <1>6, <2>3, HomesKept, CamerasKept DEF EraseAnalysis, ServerOK, CatalogOK
    <2>5. op.pc = "job" /\ op.who \in Users /\ Home \in Homes
      BY <1>6 DEF EraseAnalysis, OpAt, OpOK, Deletion, Erasing
    <2>6. OpOK' /\ SameWork
      <3>1. op.todo \ {x} \in SUBSET (People \cup Photos \cup Cameras)
        BY DEF OpOK, Command
      <3>2. QED
        BY <2>2, <2>5, <3>1, OpWorksOK DEF Deletion, Linking
    <2>7. QED
      BY <2>3, <2>4, <2>5, <2>6 DEF Continues, Erasing
  <1>7. CASE ErasedPhotos
    <2>1. ServerOK' /\ FacesOK'
      BY <1>0, <1>7, CatalogKept, SameFaces DEF ErasedPhotos, ServerOK
    <2>2. op.pc = "photos" /\ OpGoes("devices") /\ op.who \in Users /\ Home \in Homes
      BY <1>7 DEF ErasedPhotos, OpAt, OpOK, Deletion, Erasing
    <2>3. OpOK' /\ SameWork
      BY <2>2, OpGoesOK DEF Deletion, Linking
    <2>4. QED
      BY <2>1, <2>2, <2>3 DEF Continues, Erasing
  <1>8. CASE EraseDevices
    <2>1. CamerasOK'
      BY <1>8 DEF EraseDevices, ServerOK, CatalogOK, CamerasOK
    <2>2. ServerOK' /\ FacesOK'
      BY <1>0, <1>8, <2>1, HomesKept, CapturesKept, SameFaces DEF EraseDevices, ServerOK, CatalogOK
    <2>3. op.pc = "devices" /\ OpGoes("tokens") /\ op.who \in Users /\ Home \in Homes
      BY <1>8 DEF EraseDevices, OpAt, OpOK, Deletion, Erasing
    <2>4. OpOK' /\ SameWork
      BY <2>3, OpGoesOK DEF Deletion, Linking
    <2>5. QED
      BY <2>2, <2>3, <2>4 DEF Continues, Erasing
  <1>9. CASE EraseTokens
    <2>1. CamerasOK'
      BY <1>9 DEF EraseTokens, ServerOK, CatalogOK, CamerasOK
    <2>2. ServerOK' /\ FacesOK'
      BY <1>0, <1>9, <2>1, HomesKept, CapturesKept, SameFaces DEF EraseTokens, ServerOK, CatalogOK
    <2>3. op.pc = "tokens" /\ OpGoes("people") /\ op.who \in Users /\ Home \in Homes
      BY <1>9 DEF EraseTokens, OpAt, OpOK, Deletion, Erasing
    <2>4. OpOK' /\ SameWork
      BY <2>3, OpGoesOK DEF Deletion, Linking
    <2>5. QED
      BY <2>2, <2>3, <2>4 DEF Continues, Erasing
  <1>10. CASE ErasePeople
    <2>1. HomesOK' /\ OwnerOK'
      BY <1>10 DEF ErasePeople, ServerOK, CatalogOK, HomesOK, Fits, OwnerOK
    <2>2. ServerOK' /\ FacesOK'
      BY <1>0, <1>10, <2>1, CamerasKept, CapturesKept, SameFaces DEF ErasePeople, ServerOK, CatalogOK
    <2>3. op.pc = "people" /\ OpGoes("seats") /\ op.who \in Users /\ Home \in Homes
      BY <1>10 DEF ErasePeople, OpAt, OpOK, Deletion, Erasing
    <2>4. OpOK' /\ SameWork
      BY <2>3, OpGoesOK DEF Deletion, Linking
    <2>5. QED
      BY <2>2, <2>3, <2>4 DEF Continues, Erasing
  <1>11. CASE EraseSeats
    <2>1. op.pc = "seats" /\ OpGoes("house") /\ op.who \in Users /\ Home \in Homes
      BY <1>11 DEF EraseSeats, OpAt, OpOK, Deletion, Erasing
    <2>2. ASSUME NEW h \in Homes PROVE Fits(h)'
      <3>1. Fits(h) /\ seats' = [seats EXCEPT ![Home] = {}] /\ UNCHANGED <<households, known>>
        BY <1>11 DEF EraseSeats, ServerOK, CatalogOK, HomesOK
      <3>2. households[h] # Absent => households[h] \in Nat
        BY GridAssumption DEF ServerOK, CatalogOK, HomesOK
      <3>3. QED
        BY <3>1, <3>2, FS_EmptySet DEF Fits, ServerOK, CatalogOK, HomesOK
    <2>3. HomesOK' /\ OwnerOK'
      BY <1>11, <2>2 DEF EraseSeats, ServerOK, CatalogOK, HomesOK, OwnerOK
    <2>4. ServerOK' /\ FacesOK'
      BY <1>0, <1>11, <2>3, CamerasKept, CapturesKept, SameFaces DEF EraseSeats, ServerOK, CatalogOK
    <2>5. OpOK' /\ SameWork
      BY <2>1, OpGoesOK DEF Deletion, Linking
    <2>6. QED
      BY <2>1, <2>4, <2>5 DEF Continues, Erasing
  <1>12. CASE EraseHousehold
    <2>1. op.pc = "house" /\ OpGoes("unbind") /\ op.who \in Users
      BY <1>12 DEF EraseHousehold, OpAt, OpOK, Deletion
    <2>2. HomesOK' /\ OwnerOK'
      BY <1>12 DEF EraseHousehold, ServerOK, CatalogOK, HomesOK, Fits, OwnerOK
    <2>3. ServerOK' /\ FacesOK'
      BY <1>0, <1>12, <2>2, CamerasKept, CapturesKept, SameFaces
      DEF EraseHousehold, ServerOK, CatalogOK
    <2>4. OpOK' /\ op'.pc = "unbind"
      BY <2>1, OpGoesOK DEF Deletion, Linking, Erasing
    <2>5. QED
      BY <2>3, <2>4 DEF Continues, Erasing
  <1>13. CASE Unbind
    <2>1. op.pc = "unbind" /\ OpGoes("sessions") /\ op.who \in Users
      BY <1>13 DEF Unbind, OpAt, OpOK, Deletion
    <2>2. HomesOK' /\ OwnerOK'
      BY <1>13 DEF Unbind, ServerOK, CatalogOK, HomesOK, Fits, OwnerOK
    <2>3. ServerOK' /\ FacesOK'
      BY <1>0, <1>13, <2>2, CamerasKept, CapturesKept, SameFaces DEF Unbind, ServerOK, CatalogOK
    <2>4. OpOK' /\ op'.pc = "sessions"
      BY <2>1, OpGoesOK DEF Deletion, Linking, Erasing
    <2>5. QED
      BY <2>3, <2>4 DEF Continues, Erasing
  <1>14. CASE DeleteSessions \/ DeletePasskeys \/ DeleteUserRow
    <2>1. /\ op.pc \in {"sessions", "passkeys", "user"} /\ op.who \in Users
          /\ OpGoes("passkeys") \/ OpGoes("ceremonies") \/ OpGoes("fulfil")
      BY <1>14 DEF DeleteSessions, DeletePasskeys, DeleteUserRow, OpAt, OpOK, Deletion
    <2>2. StoreOK' /\ CeremoniesOK' /\ UNCHANGED <<ceremonies, fruits, requests, catalog, faces>>
      BY <1>14 DEF DeleteSessions, DeletePasskeys, DeleteUserRow, ServerOK, AccountsOK,
                   StoreOK, CeremoniesOK
    <2>3. ServerOK' /\ FacesOK'
      BY <2>2, SameRequests, OnceKept, CatalogKept, SameFaces DEF ServerOK, AccountsOK
    <2>4. OpOK' /\ op'.pc \in {"passkeys", "ceremonies", "fulfil"}
      BY <2>1, OpGoesOK DEF Deletion, Linking, Erasing
    <2>5. QED
      BY <2>3, <2>4 DEF Continues, Erasing
  <1>15. CASE DeleteCeremonies
    <2>1. op.pc = "ceremonies" /\ OpGoes("user") /\ op.who \in Users
      BY <1>15 DEF DeleteCeremonies, OpAt, OpOK, Deletion
    <2>2. RequestsOK' /\ ByKept /\ StoreOK' /\ UNCHANGED <<catalog, faces>>
      BY <1>15, SameRequests DEF DeleteCeremonies, ServerOK, AccountsOK, StoreOK
    <2>3. PICK u : u = op.who
      OBVIOUS
    <2>4. CeremoniesOK' /\ OnceOK'
      BY <1>15, <2>2, <2>3, ForgottenOK DEF DeleteCeremonies, ServerOK, AccountsOK
    <2>5. ServerOK' /\ FacesOK'
      BY <2>2, <2>4, CatalogKept, SameFaces DEF ServerOK, AccountsOK
    <2>6. OpOK' /\ op'.pc = "user"
      BY <2>1, OpGoesOK DEF Deletion, Linking, Erasing
    <2>7. QED
      BY <2>5, <2>6 DEF Continues, Erasing
  <1>16. CASE MarkFulfilled
    <2>1. RequestsOK' /\ ByKept /\ StoreOK' /\ CeremoniesOK'
      BY <1>16, SameRequests DEF MarkFulfilled, ServerOK, AccountsOK, StoreOK, CeremoniesOK
    <2>2. ServerOK' /\ FacesOK'
      BY <1>16, <2>1, OnceKept, CatalogKept, SameFaces DEF MarkFulfilled, ServerOK, AccountsOK
    <2>3. QED
      BY <1>16, <2>2, Ended DEF MarkFulfilled
  <1>17. QED
    BY <1>1, <1>2, <1>3, <1>4, <1>5, <1>6, <1>7, <1>8, <1>9, <1>10, <1>11, <1>12, <1>13,
       <1>14, <1>15, <1>16 DEF DeletionStep

LEMMA SeatsOK ==
    ASSUME AllOK, NEW p \in People, NEW next, Seats(p, next), UNCHANGED requests,
           op' = next => OpOK' /\ Continues
    PROVE  AllOK' /\ Continues
  <1> USE DEF AllOK
  <1>1. OpOK' /\ Continues
    BY Ended DEF Seats
  <1>2. Home \in Homes \cup {Absent}
    BY DEF Home, OpOK, Command, User
  <1>3. HomesOK' /\ OwnerOK'
    <2>1. CASE UNCHANGED <<people, known, seats, owner>>
      BY <2>1 DEF Seats, ServerOK, CatalogOK, HomesOK, Fits, OwnerOK
    <2>2. CASE HasRoom(Home) /\ Seated(Home, p) /\ known' = known \cup {p}
               /\ people' = (IF p \in known THEN people ELSE people \cup {p})
      <3>1. PICK h \in Homes \cup {Absent} : h = Home
        BY <1>2
      <3>2. people' \subseteq People /\ known \subseteq known'
        BY <2>2 DEF ServerOK, CatalogOK, HomesOK
      <3>3. UNCHANGED <<households, bindings>>
        BY DEF Seats
      <3>4. QED
        BY <2>2, <3>1, <3>2, <3>3, SeatedOK DEF ServerOK
    <2>3. QED
      BY <2>1, <2>2 DEF Seats
  <1>4. AccountsOK'
    BY SameAccounts DEF Seats, ServerOK, accounts
  <1>5. CamerasOK' /\ CapturesOK' /\ FacesOK'
    BY CamerasKept, CapturesKept, SameFaces DEF Seats, ServerOK
  <1>6. QED
    BY <1>1, <1>3, <1>4, <1>5 DEF ServerOK, CatalogOK

LEMMA LinkStepOK ==
    ASSUME AllOK, LinkStep, UNCHANGED requests
    PROVE  AllOK' /\ Continues
  <1> USE DEF AllOK
  <1>0. ASSUME UNCHANGED store PROVE AccountsOK'
    BY <1>0, SameAccounts DEF ServerOK, accounts
  <1>h. /\ op \in Command /\ Home \in Homes \cup {Absent} /\ op.user \in User
        /\ op.who \in Users \cup {Absent}
    BY DEF Home, OpOK, Command, User
  <1>1. CASE WidenGrid
    <2>1. PICK h : h = Home
      OBVIOUS
    <2>2. households' = [households EXCEPT ![h] =
                             IF op.widen /\ households[h] # Absent THEN LargeGrid ELSE households[h]]
      BY <1>1, <2>1 DEF WidenGrid
    <2>3. households' \in [Homes -> {Absent, SmallGrid, LargeGrid}]
      BY <2>2 DEF ServerOK, CatalogOK, HomesOK
    <2>4. ASSUME NEW g \in Homes PROVE Fits(g)'
      <3>1. Fits(g) /\ UNCHANGED <<seats, known>> /\ seats[g] \in SUBSET People
        BY <1>1 DEF WidenGrid, ServerOK, CatalogOK, HomesOK
      <3>2. Cardinality(seats[g]) \in Nat
        BY <3>1, AccountsAssumption, FS_Subset, FS_CardinalityType
      <3>3. households'[g] = households[g] \/ (households[g] # Absent /\ households'[g] = LargeGrid)
        BY <2>2 DEF ServerOK, CatalogOK, HomesOK
      <3>4. households[g] # Absent => households[g] \in {SmallGrid, LargeGrid}
        BY DEF ServerOK, CatalogOK, HomesOK
      <3>5. QED
        BY <3>1, <3>2, <3>3, <3>4, GridAssumption DEF Fits
    <2>5. HomesOK' /\ OwnerOK'
      BY <1>1, <2>3, <2>4 DEF WidenGrid, ServerOK, CatalogOK, HomesOK, OwnerOK
    <2>6. ServerOK' /\ FacesOK'
      BY <1>0, <1>1, <2>5, CamerasKept, CapturesKept, SameFaces DEF WidenGrid, ServerOK, CatalogOK
    <2>7. op.pc = "widen" /\ OpGoes("seat")
      BY <1>1 DEF WidenGrid, OpAt
    <2>8. OpOK' /\ op'.pc = "seat"
      BY <2>7, OpGoesOK DEF Linking, Deletion, Erasing
    <2>9. QED
      BY <2>6, <2>8 DEF Continues, Erasing
  <1>2. CASE SeatPerson
    <2>1. op.pc = "seat" /\ op.person \in People /\ Seats(op.person, [op EXCEPT !.pc = "link"])
      BY <1>2 DEF SeatPerson, OpAt, OpOK, Linking
    <2>2. PICK p \in People : p = op.person
      BY <2>1
    <2>3. PICK next : next = [op EXCEPT !.pc = "link"]
      OBVIOUS
    <2>4. Seats(p, next)
      BY <2>1, <2>2, <2>3
    <2>5. ASSUME op' = next PROVE OpOK' /\ Continues
      <3>1. OpGoes("link")
        BY <2>5, <2>3 DEF OpGoes
      <3>2. OpOK' /\ op'.pc = "link"
        BY <2>1, <3>1, OpGoesOK DEF Linking, Deletion, Erasing
      <3>3. QED
        BY <3>2 DEF Continues, Erasing
    <2>6. QED
      BY <2>4, <2>5, SeatsOK
  <1>3. CASE SeatMembers
    <2>1. PICK p, next : /\ p = Current
                         /\ next = IF op.todo = {Current} THEN Rest
                                   ELSE [op EXCEPT !.todo = op.todo \ {Current}]
      OBVIOUS
    <2>2. op.pc = "members" /\ p \in op.todo /\ Seats(p, next) /\ op.todo \subseteq People
      BY <1>3, <2>1 DEF SeatMembers, OpAt, OpOK, Linking, Current
    <2>3. ASSUME op' = next PROVE OpOK' /\ Continues
      <3>1. CASE next = Rest
        BY <2>3, <3>1, Ended DEF OpEnds
      <3>2. CASE next = [op EXCEPT !.todo = op.todo \ {p}]
        <4>1. op' = [op EXCEPT !.pc = "members", !.todo = op.todo \ {p}]
          BY <1>h, <2>2, <2>3, <3>2 DEF Command
        <4>2. op.todo \ {p} \in SUBSET (People \cup Photos \cup Cameras) /\ op.todo \ {p} \subseteq People
          BY <2>2
        <4>3. OpOK' /\ op'.pc = "members"
          BY <2>2, <4>1, <4>2, OpWorksOK DEF Linking, Deletion, Erasing
        <4>4. QED
          BY <4>3 DEF Continues, Erasing
      <3>3. QED
        BY <2>1, <3>1, <3>2
    <2>4. QED
      BY <2>2, <2>3, SeatsOK
  <1>4. CASE LinkHousehold \/ SetHouseholdRole
    <2>1. /\ op.pc \in {"link", "role"} /\ Registered(op.who)
          /\ OpGoes("role") \/ OpGoes("point")
      BY <1>4 DEF LinkHousehold, SetHouseholdRole, OpAt
    <2>2. users' \in [Users -> {Absent} \cup User]
      <3>1. CASE op.who \notin Users
        BY <1>4, <3>1 DEF LinkHousehold, SetHouseholdRole, LinkUser, SetRole, ServerOK, AccountsOK, StoreOK
      <3>2. CASE op.who \in Users
        <4>1. op.person \in People \cup {Absent} /\ op.user.role \in {"admin", "member"}
          BY <1>h DEF Command, User
        <4>2. CASE LinkHousehold
          BY <1>h, <2>1, <3>2, <4>1, <4>2, LinkUserOK DEF LinkHousehold, ServerOK, AccountsOK
        <4>3. CASE SetHouseholdRole
          BY <1>h, <2>1, <3>2, <4>1, <4>3, SetRoleOK DEF SetHouseholdRole, ServerOK, AccountsOK
        <4>4. QED
          BY <1>4, <4>2, <4>3
      <3>3. QED
        BY <3>1, <3>2
    <2>3. ServerOK' /\ FacesOK'
      BY <1>4, <2>2, UsersSet, SameRequests, CatalogKept, SameFaces
      DEF LinkHousehold, SetHouseholdRole, ServerOK, AccountsOK
    <2>4. OpOK' /\ op'.pc \in {"role", "point"}
      BY <2>1, OpGoesOK DEF Linking, Deletion, Erasing
    <2>5. QED
      BY <2>3, <2>4 DEF Continues, Erasing
  <1>5. CASE PointBinding
    <2>1. bindings' \in [Users -> Homes \cup {Absent}]
      BY <1>h, <1>5 DEF PointBinding, ServerOK, CatalogOK, HomesOK
    <2>2. HomesOK' /\ OwnerOK'
      BY <1>5, <2>1 DEF PointBinding, ServerOK, CatalogOK, HomesOK, Fits, OwnerOK
    <2>3. ServerOK' /\ FacesOK'
      BY <1>0, <1>5, <2>2, CamerasKept, CapturesKept, SameFaces DEF PointBinding, ServerOK, CatalogOK
    <2>4. op.pc = "point" /\ (OpEnds \/ OpGoes("members"))
      BY <1>5 DEF PointBinding, OpAt
    <2>5. OpOK' /\ Continues
      <3>1. CASE OpEnds
        BY <3>1, Ended
      <3>2. CASE OpGoes("members")
        <4>1. OpOK' /\ op'.pc = "members"
          BY <2>4, <3>2, OpGoesOK DEF Linking, Deletion, Erasing
        <4>2. QED
          BY <4>1 DEF Continues, Erasing
      <3>3. QED
        BY <2>4, <3>1, <3>2
    <2>6. QED
      BY <2>3, <2>5
  <1>6. CASE LinkLost
    BY <1>0, <1>6, CatalogKept, SameFaces, Ended DEF LinkLost, ServerOK
  <1>7. QED
    BY <1>1, <1>2, <1>3, <1>4, <1>5, <1>6 DEF LinkStep

LEMMA DeleteAccountOK ==
    ASSUME AllOK, NEW u \in Users, DeleteAccount(u)
    PROVE  OpOK' /\ Continues
  <1>1. PICK pc, v : pc = (IF users[u].home = Absent THEN "unbind" ELSE "peers") /\ v = users[u]
    OBVIOUS
  <1>2. v \in User /\ op' = [Rest EXCEPT !.pc = pc, !.who = u, !.user = v]
    BY <1>1 DEF DeleteAccount, Registered, AllOK, ServerOK, AccountsOK, StoreOK
  <1>3. op' \in Command /\ op'.pc = pc /\ op'.who = u /\ op'.user = v
    BY <1>1, <1>2 DEF Rest, Command, Deletion
  <1>4. pc = "peers" => v.home \in Homes
    BY <1>1, <1>2 DEF User
  <1>5. QED
    BY <1>1, <1>3, <1>4 DEF OpOK, Linking, Deletion, Erasing, Home, Continues

LEMMA OpStepOK ==
    ASSUME AllOK, OpStep, UNCHANGED requests
    PROVE  AllOK' /\ Continues
  <1>1. CASE RegisterDevice
    <2>1. CamerasOK'
      <3>1. Home \in Homes \cup {Absent}
        BY DEF Home, AllOK, OpOK, Command, User
      <3>2. QED
        BY <1>1, <3>1 DEF RegisterDevice, AllOK, ServerOK, CatalogOK, CamerasOK
    <2>2. AccountsOK'
      BY <1>1, SameAccounts DEF RegisterDevice, AllOK, ServerOK, accounts
    <2>3. HomesOK' /\ OwnerOK' /\ CapturesOK' /\ FacesOK'
      <3>1. Home \in Homes \cup {Absent}
        BY DEF Home, AllOK, OpOK, Command, User
      <3>2. OwnerOK'
        BY <1>1, <3>1 DEF RegisterDevice, AllOK, ServerOK, CatalogOK, OwnerOK
      <3>3. HomesOK'
        BY <1>1 DEF RegisterDevice, AllOK, ServerOK, CatalogOK, HomesOK, Fits, homes
      <3>4. QED
        BY <1>1, <3>2, <3>3, CapturesKept, SameFaces DEF RegisterDevice, AllOK, ServerOK
    <2>4. QED
      BY <1>1, <2>1, <2>2, <2>3, Ended DEF RegisterDevice, AllOK, ServerOK, CatalogOK
  <1>2. CASE RunAgain
    <2>1. op.who \in Users
      BY <1>2 DEF RunAgain, OpAt, AllOK, OpOK
    <2>2. OpOK' /\ Continues
      BY <1>2, <2>1, DeleteAccountOK, Ended DEF RunAgain
    <2>3. QED
      BY <1>2, <2>2, SameAccounts, CatalogKept, SameFaces
      DEF RunAgain, AllOK, ServerOK, accounts
  <1>3. QED
    BY <1>1, <1>2, DeletionStepOK, LinkStepOK DEF OpStep

LEMMA OpEventsOK ==
    ASSUME AllOK, OpStarts \/ OpFails
    PROVE  AllOK' /\ Continues
  <1>1. UNCHANGED <<accounts, catalog, faces>>
    BY DEF OpStarts, OpFails
  <1>2. ServerOK' /\ FacesOK'
    BY <1>1, SameAccounts, CatalogKept, SameFaces DEF AllOK, ServerOK
  <1>3. CASE OpFails
    <2>1. CASE op' = Rest
      BY <1>2, <2>1, Ended DEF OpEnds, AllOK
    <2>2. CASE Deleting /\ op' = [Rest EXCEPT !.pc = "again", !.who = op.who]
      <3>1. PICK u \in Users : u = op.who
        BY <2>2 DEF AllOK, OpOK, Deleting
      <3>2. op' = [Rest EXCEPT !.pc = "again", !.who = u]
        BY <2>2, <3>1
      <3>3. op' \in Command /\ op'.pc = "again" /\ op'.who = u
        BY <3>2, RestOK DEF Rest, Command
      <3>4. OpOK' /\ Continues
        BY <3>3 DEF OpOK, Continues, Linking, Erasing, Deletion
      <3>5. QED
        BY <1>2, <3>4 DEF AllOK
    <2>3. QED
      BY <1>3, <2>1, <2>2 DEF OpFails
  <1>4. ASSUME NEW u \in Users, DeleteAccount(u) PROVE AllOK' /\ Continues
    BY <1>2, <1>4, DeleteAccountOK DEF AllOK
  <1>5. ASSUME NEW u \in Users, NEW c \in Cameras, PlanRegister(u, c) PROVE AllOK' /\ Continues
    <2>1. PICK v : v = users[u]
      OBVIOUS
    <2>2. v \in User /\ op' = [Rest EXCEPT !.pc = "register", !.who = u, !.user = v, !.todo = {c}]
      BY <1>5, <2>1 DEF PlanRegister, Registered, AllOK, ServerOK, AccountsOK, StoreOK
    <2>3. op' \in Command /\ op'.pc = "register"
      BY <2>2 DEF Rest, Command
    <2>4. OpOK' /\ Continues
      BY <2>3 DEF OpOK, Continues, Linking, Erasing, Deletion
    <2>5. QED
      BY <1>2, <2>4 DEF AllOK
  <1>6. ASSUME NEW u \in Users, NEW h \in Homes, NEW p \in People, NEW role \in {"admin", "member"},
               NEW S \in {{}} \cup {{q} : q \in people}, PlanLink(u, h, p, role, S)
        PROVE  AllOK' /\ Continues
    <2>1. PICK w, v : /\ w = (Wanted(h, S \cup {p}) > households[h])
                      /\ v = [home |-> h, person |-> p, role |-> role]
      OBVIOUS
    <2>2. w \in BOOLEAN /\ v \in User
      BY <2>1 DEF User
    <2>3. op' = [Rest EXCEPT !.pc = "widen", !.who = u, !.person = p, !.todo = S, !.user = v, !.widen = w]
      BY <1>6, <2>1 DEF PlanLink
    <2>4. S \subseteq People
      BY <1>6 DEF PlanLink, AllOK, ServerOK, CatalogOK, HomesOK
    <2>5. op' \in Command /\ op'.pc = "widen" /\ op'.todo = S /\ op'.person = p
      <3>1. S \in SUBSET (People \cup Photos \cup Cameras) /\ "widen" \in Linking
        BY <2>4 DEF Linking
      <3>2. QED
        BY <2>2, <2>3, <3>1 DEF Rest, Command
    <2>6. OpOK' /\ Continues
      BY <2>4, <2>5 DEF OpOK, Continues, Linking, Erasing, Deletion
    <2>7. QED
      BY <1>2, <2>6 DEF AllOK
  <1>7. QED
    BY <1>3, <1>4, <1>5, <1>6 DEF OpStarts

-----------------------------------------------------------------------------
(* The invariant                                                           *)

LEMMA InitOK == ASSUME Init PROVE Inv
  <1>1. FirstUser \in Users /\ FirstHome \in Homes /\ FirstPhoto \in Photos
    BY ServiceAssumption DEF FirstUser, FirstHome, FirstPhoto
  <1>2. Self \in [Users -> People] /\ Founder \in Cameras
    BY ServiceAssumption
  <1>3. users \in [Users -> {Absent} \cup User]
    BY DEF Init, User
  <1>4. StoreOK /\ CeremoniesOK
    <2>1. sessions \subseteq Users /\ passkeys \subseteq Users
      BY DEF Init, Started
    <2>2. wishes \in [Users -> {"none", "open", "done"}]
      BY DEF Init
    <2>3. ceremonies \in [Ceremonies -> Ceremony] /\ fruits \in [Ceremonies -> Nat]
      BY DEF Init, Ceremony, Kinds
    <2>4. QED
      BY <1>3, <2>1, <2>2, <2>3 DEF StoreOK, CeremoniesOK
  <1>5. RequestsOK /\ OnceOK
    <2>1. requests = [s \in Slots |-> Idle]
      BY DEF Init
    <2>2. RequestsOK
      BY <2>1, IdleOK DEF RequestsOK, ReqOK
    <2>3. ASSUME NEW c \in Ceremonies PROVE Once(c)
      <3>1. fruits[c] = 0 /\ \A s \in Slots : ~Works(s, c)
        BY <2>1, IdleOK, AccountsAssumption DEF Init, Works
      <3>2. QED
        BY <3>1 DEF Once
    <2>4. QED
      BY <2>2, <2>3 DEF OnceOK
  <1>6. HomesOK
    <2>1. /\ seats = [h \in Homes |-> {Self[u] : u \in Accountants(h)}]
          /\ households = [h \in Homes |-> IF Accountants(h) = {} THEN Absent ELSE SmallGrid]
          /\ people = {Self[u] : u \in Started} /\ bindings = [u \in Users |-> Absent]
          /\ \A h \in Homes : Cardinality({Self[u] : u \in Accountants(h)}) <= SmallGrid
      BY DEF Init
    <2>2. \A u \in Started : users[u].home \in known
      BY DEF Init
    <2>3. ASSUME NEW h \in Homes PROVE Fits(h) /\ seats[h] \subseteq People
      <3>1. seats[h] = {Self[u] : u \in Accountants(h)}
            /\ households[h] = IF Accountants(h) = {} THEN Absent ELSE SmallGrid
        BY <2>1
      <3>2. Accountants(h) \subseteq Users /\ \A u \in Accountants(h) : u \in Started /\ users[u].home = h
        BY DEF Accountants, HasHome, Started
      <3>3. Accountants(h) # {} => h \in known
        BY <2>2, <3>2
      <3>4. seats[h] # {} => Accountants(h) # {}
        BY <3>1
      <3>5. QED
        BY <1>2, <2>1, <3>1, <3>2, <3>3, <3>4 DEF Fits
    <2>4. people \subseteq People
      BY <1>2, <2>1 DEF Started
    <2>5. QED
      BY <2>1, <2>3, <2>4 DEF HomesOK
  <1>7. CamerasOK
    BY <1>1 DEF Init, CamerasOK
  <1>8. Taken \subseteq Photos
    BY <1>1 DEF Taken
  <1>9. CapturesOK
    <2>1. [NewPhoto(Founder) EXCEPT !.ready = TRUE] \in Photo
      BY <1>2 DEF NewPhoto, Photo
    <2>2. photos \in [Photos -> {Absent} \cup Photo]
      BY <2>1 DEF Init
    <2>3. QED
      BY <1>8, <2>2 DEF Init, CapturesOK
  <1>10. OwnerOK
    <2>1. \A y \in people : \E h \in Homes : y \in seats[h]
      <3>1. ASSUME NEW u \in Started PROVE \E h \in Homes : Self[u] \in seats[h]
        <4>1. users[u].home \in Homes /\ u \in Accountants(users[u].home)
          BY DEF Init, Started, Registered, Accountants, HasHome
        <4>2. QED
          BY <4>1 DEF Init
      <3>2. QED
        BY <3>1 DEF Init
    <2>2. \A y \in people : (CHOOSE h \in Homes : y \in seats[h]) \in Homes
      BY <2>1
    <2>3. QED
      BY <1>1, <2>2 DEF Init, OwnerOK
  <1>11. FacesOK
    <2>1. \A source \in {"manual", "match"} : By(source, Self[FirstUser]) \in Face
      BY <1>1, <1>2 DEF By, Face, Sources
    <2>2. QED
      BY <2>1 DEF Init, FacesOK
  <1>12. OpOK /\ Alone
    <2>1. CASE op = Rest
      BY <2>1, RestOK DEF OpOK, Alone, Linking, Erasing, Deletion
    <2>2. CASE op = [Rest EXCEPT !.pc = "peers", !.who = FirstUser, !.user = users[FirstUser]]
      <3>1. PICK u, v : u = FirstUser /\ v = users[FirstUser]
        OBVIOUS
      <3>2. v \in User /\ v.home \in Homes
        BY <1>1, <1>3, <3>1 DEF Init, HasHome, Registered
      <3>3. op = [Rest EXCEPT !.pc = "peers", !.who = u, !.user = v]
        BY <2>2, <3>1
      <3>4. op \in Command /\ op.pc = "peers" /\ op.who = u /\ op.user = v /\ u \in Users
        BY <1>1, <3>1, <3>2, <3>3, RestOK DEF Rest, Command, Deletion
      <3>5. QED
        BY <3>2, <3>4 DEF OpOK, Alone, Linking, Erasing, Home
    <2>3. QED
      BY <2>1, <2>2 DEF Init
  <1>13. Counted
    BY DEF Init, Counted
  <1>14. QED
    BY <1>4, <1>5, <1>6, <1>7, <1>9, <1>10, <1>11, <1>12, <1>13 DEF Inv

(* Whoever joins a household that is being erased is noted.                *)
LEMMA AloneKept ==
    ASSUME AllOK, Alone, UNCHANGED op \/ Continues, NEW e, Disturbs(e)
    PROVE  Alone'
  <1> SUFFICES ASSUME op'.pc \in Erasing
               PROVE  Home' \in disturbed' \/ Accountants(Home)' \subseteq {op'.who}
    BY DEF Alone
  <1>1. PICK h : h = Home
    OBVIOUS
  <1>2. Home' = h /\ op'.who = op.who
    BY <1>1 DEF Continues, SameWork, Home
  <1>3. op.pc \in Erasing \/ op.pc = "peers"
    BY DEF Continues
  <1>4. Deleting /\ h \in Homes
    BY <1>1, <1>3 DEF Deleting, Deletion, Erasing, AllOK, OpOK
  <1>5. disturbed \cup Joined \subseteq disturbed'
    BY <1>4 DEF Disturbs
  <1>6. h \in disturbed \/ Accountants(h) \subseteq {op.who}
    BY <1>1, <1>3 DEF Continues, Alone, Erasing
  <1>7. Accountants(h)' \subseteq Accountants(h) \/ h \in Joined
    BY <1>4 DEF Joined
  <1>8. QED
    BY <1>2, <1>5, <1>6, <1>7

LEMMA SameOp ==
    ASSUME OpOK, UNCHANGED op
    PROVE  OpOK'
  BY DEF OpOK, Home

LEMMA StepsOK ==
    ASSUME AllOK, Steps \/ Events
    PROVE  AllOK' /\ (UNCHANGED op \/ Continues)
  <1> USE DEF AllOK
  <1>0. ASSUME UNCHANGED op PROVE OpOK'
    BY <1>0, SameOp
  <1>1. CASE Requests /\ UNCHANGED <<faces, op>>
    <2>1. ASSUME NEW s \in Slots, AccountStep(s), UNCHANGED catalog PROVE ServerOK'
      BY <2>1, AccountStepOK, CatalogKept DEF ServerOK
    <2>2. ASSUME NEW s \in Slots, HouseholdStep(s) PROVE ServerOK'
      BY <2>2, HouseholdStepOK
    <2>3. QED
      BY <1>0, <1>1, <2>1, <2>2, SameFaces DEF Requests
  <1>2. ASSUME NEW x \in Photos, PhotoStep(x), UNCHANGED <<faces, op>>
        PROVE  AllOK' /\ (UNCHANGED op \/ Continues)
    BY <1>0, <1>2, PhotoStepOK, SameAccounts, SameFaces DEF ServerOK
  <1>3. ASSUME NEW x \in Photos, FaceStep(x), UNCHANGED op
        PROVE  AllOK' /\ (UNCHANGED op \/ Continues)
    BY <1>0, <1>3, FaceStepOK
  <1>4. CASE OpStep /\ UNCHANGED requests
    BY <1>4, OpStepOK
  <1>5. CASE AccountEvents /\ UNCHANGED <<catalog, faces, op>>
    BY <1>0, <1>5, AccountEventsOK, CatalogKept, SameFaces DEF ServerOK
  <1>6. CASE HouseholdEvents /\ UNCHANGED <<faces, op>>
    BY <1>0, <1>6, HouseholdEventsOK, SameFaces
  <1>7. CASE FaceEvents /\ UNCHANGED op
    BY <1>0, <1>7, FaceEventsOK
  <1>8. ASSUME NEW s \in Slots, RequestFails(s), UNCHANGED <<catalog, faces, op>>
        PROVE  AllOK' /\ (UNCHANGED op \/ Continues)
    BY <1>0, <1>8, RequestFailsOK, CatalogKept, SameFaces DEF ServerOK
  <1>9. CASE OpStarts \/ OpFails
    BY <1>9, OpEventsOK
  <1>10. QED
    BY <1>1, <1>2, <1>3, <1>4, <1>5, <1>6, <1>7, <1>8, <1>9 DEF Steps, Events

LEMMA InvParts == Inv <=> AllOK /\ Alone /\ Counted
  BY DEF Inv, AllOK, ServerOK, AccountsOK, CatalogOK

LEMMA NextOK == ASSUME Inv, [Next]_vars PROVE Inv'
  <1>1. CASE Next
    <2>1. (Steps \/ Events) /\ \E e \in BOOLEAN : Disturbs(e)
      BY <1>1 DEF Next
    <2>2. AllOK' /\ (UNCHANGED op \/ Continues)
      BY <2>1, InvParts, StepsOK
    <2>3. Alone'
      BY <2>1, <2>2, InvParts, AloneKept
    <2>4. Counted'
      <3>1. events' = events \/ events' = events + 1
        BY <1>1, Zenon DEF Next
      <3>2. events \in Nat
        BY DEF Inv, Counted
      <3>3. QED
        BY <3>1, <3>2 DEF Counted
    <2>5. QED
      BY <2>2, <2>3, <2>4, InvParts, PTL
  <1>2. CASE UNCHANGED vars
    <2>1. UNCHANGED <<accounts, catalog, faces, op, disturbed>>
      BY <1>2 DEF vars
    <2>2. AllOK'
      BY <2>1, InvParts, SameAccounts, CatalogKept, SameFaces, SameOp DEF AllOK, ServerOK
    <2>3. UNCHANGED users
      BY <2>1 DEF accounts, store
    <2>4. Alone'
      BY <2>1, <2>3, InvParts DEF Alone, Home, Accountants, HasHome, Registered
    <2>5. Counted'
      BY <1>2, InvParts DEF vars, Counted
    <2>6. QED
      BY <2>2, <2>4, <2>5, InvParts, PTL
  <1>3. QED
    BY <1>1, <1>2

(* The inductive invariant holds throughout.                               *)
THEOREM InvariantOK == Spec => []Inv
  <1>1. Init => Inv
    BY InitOK
  <1>2. Inv /\ [Next]_vars => Inv'
    BY NextOK
  <1>3. QED
    BY <1>1, <1>2, PTL DEF Spec

(* Every variable keeps its type, and no household seats more people than  *)
(* its grid has seats, whatever requests and commands run at once.         *)
THEOREM TypeCorrect == Spec => []TypeOK
  <1>1. Inv => TypeOK
    <2>1. ASSUME Inv PROVE TypeOK
      <3>1. StoreOK /\ CeremoniesOK /\ RequestsOK /\ HomesOK /\ CamerasOK /\ CapturesOK
            /\ OwnerOK /\ FacesOK
        BY <2>1 DEF Inv
      <3>2. QED
        BY <3>1 DEF TypeOK, StoreOK, CeremoniesOK, RequestsOK, HomesOK, Fits, CamerasOK,
                    CapturesOK, OwnerOK, FacesOK
    <2>2. QED
      BY <2>1
  <1>2. QED
    BY <1>1, InvariantOK, PTL

(* A ceremony leads to at most one session or passkey, in whatever order   *)
(* and by however many requests it is finished.                            *)
THEOREM CeremoniesLeadOnce == Spec => []CeremonyOnce
  <1>1. Inv => CeremonyOnce
    BY DEF Inv, OnceOK, Once, CeremonyOnce
  <1>2. QED
    BY <1>1, InvariantOK, PTL

-----------------------------------------------------------------------------
(* Labels and suggestions                                                  *)

(* What changes a face.                                                    *)
LEMMA FaceChanges ==
    ASSUME Inv, [Next]_vars
    PROVE  \/ UNCHANGED faces
           \/ events' = events /\ \E x \in Photos, one \in BOOLEAN : Complete(x, one)
           \/ events' = events + 1 /\ FaceEvents
           \/ events' = events /\ EraseAnalysis
  <1>1. CASE UNCHANGED vars
    BY <1>1 DEF vars
  <1>2. CASE Next
    <2>1. (Steps /\ UNCHANGED events) \/ (Events /\ events' = events + 1)
      BY <1>2, Zenon DEF Next
    <2>2. ASSUME Events, events' = events + 1
          PROVE  UNCHANGED faces \/ FaceEvents
      BY <2>2 DEF Events, OpStarts, OpFails
    <2>3. ASSUME Steps
          PROVE  UNCHANGED faces \/ EraseAnalysis \/ \E x \in Photos, one \in BOOLEAN : Complete(x, one)
      <3>1. CASE OpStep
        <4>1. CASE DeletionStep
          BY <4>1 DEF DeletionStep, HouseholdPeers, ListCaptures, ListTaken, EraseObject, EraseRow,
                      ErasedPhotos, EraseDevices, EraseTokens, ErasePeople, EraseSeats, EraseHousehold,
                      Unbind, DeleteSessions, DeletePasskeys, DeleteCeremonies, DeleteUserRow, MarkFulfilled
        <4>2. CASE LinkStep
          BY <4>2 DEF LinkStep, WidenGrid, SeatPerson, SeatMembers, Seats, LinkHousehold,
                      SetHouseholdRole, PointBinding, LinkLost
        <4>3. QED
          BY <3>1, <4>1, <4>2 DEF OpStep, RegisterDevice, RunAgain
      <3>2. QED
        BY <2>3, <3>1 DEF Steps, FaceStep
    <2>4. QED
      BY <2>1, <2>2, <2>3
  <1>3. QED
    BY <1>1, <1>2

LEMMA LabelSources ==
    ASSUME NEW p \in People \cup {Absent}, NEW label \in Labels(p)
    PROVE  label.source \in ByHand /\ label.person = p
  BY DEF Labels, By, ByHand

(* A label of a person is replaced only by a person's, or when the         *)
(* photograph is analysed again or deleted.                                *)
THEOREM HandLabelsAreKept == Spec => HandLabelsStay
  <1>1. ASSUME Inv, [Next]_vars, NEW x \in Shown, faces[x].source \in ByHand, faces'[x] # faces[x]
        PROVE  \/ faces'[x] = Absent
               \/ x \in jobs /\ x \notin jobs'
               \/ faces'[x].source \in ByHand /\ events' # events
    <2>1. x \in Photos /\ FacesOK /\ CapturesOK /\ events \in Nat
      BY <1>1 DEF Shown, Inv, Counted
    <2>2. ASSUME NEW F \in [Photos -> {Absent} \cup Face], NEW X \in SUBSET Photos, Propose(F, X),
                 F[x].source \in ByHand
          PROVE  faces'[x] = F[x]
      <3>1. x \notin Candidates(F, X)
        BY <2>2 DEF Candidates, ByHand
      <3>2. QED
        BY <2>1, <2>2, <3>1, Proposed
    <2>3. ASSUME NEW y \in Photos, NEW one \in BOOLEAN, Complete(y, one)
          PROVE  x \in jobs /\ x \notin jobs'
      <3>1. PICK F : F = Found(y, one)
        OBVIOUS
      <3>2. F \in [Photos -> {Absent} \cup Face] /\ Propose(F, {y}) /\ (x # y => F[x] = faces[x])
        BY <2>1, <2>3, <3>1, FoundOK DEF Complete
      <3>3. x = y
        BY <1>1, <2>2, <3>2
      <3>4. QED
        BY <2>3, <3>3 DEF Complete
    <2>4. ASSUME FaceEvents, events' = events + 1
          PROVE  faces'[x].source \in ByHand /\ events' # events
      <3>1. ~RefreshFaceSuggestions
        BY <1>1, <2>1, <2>2 DEF RefreshFaceSuggestions, FacesOK
      <3>2. PICK y \in Photos, p \in People \cup {Absent} : AssignFace(y, p)
        BY <2>4, <3>1 DEF FaceEvents
      <3>3. PICK label \in Labels(p) : Propose([faces EXCEPT ![y] = label], Photos)
        BY <3>2 DEF AssignFace
      <3>4. PICK F : F = [faces EXCEPT ![y] = label]
        OBVIOUS
      <3>5. F \in [Photos -> {Absent} \cup Face] /\ Propose(F, Photos)
            /\ F[x] = IF x = y THEN label ELSE faces[x]
        BY <2>1, <3>3, <3>4, LabelOK DEF FacesOK
      <3>6. label.source \in ByHand
        BY LabelSources
      <3>7. faces'[x] = F[x] /\ F[x].source \in ByHand
        BY <1>1, <2>2, <3>5, <3>6
      <3>8. QED
        BY <2>1, <2>4, <3>7
    <2>5. ASSUME EraseAnalysis PROVE faces'[x] = Absent
      BY <1>1, <2>1, <2>5 DEF EraseAnalysis, FacesOK
    <2>6. QED
      BY <1>1, <2>3, <2>4, <2>5, FaceChanges
  <1> DEFINE Stays ==
         \A x \in Shown : faces[x].source \in ByHand /\ faces'[x] # faces[x] =>
             \/ faces'[x] = Absent
             \/ x \in jobs /\ x \notin jobs'
             \/ faces'[x].source \in ByHand /\ events' # events
  <1>2. Inv /\ [Next]_vars => Stays
    BY <1>1
  <1>3. []Inv /\ [][Next]_vars => [][Stays]_vars
    BY <1>2, PTL
  <1>4. QED
    BY <1>3, InvariantOK, PTL DEF Spec, HandLabelsStay

(* The examples behind a suggestion are confirmations: none of them is     *)
(* touched by what is suggested.                                           *)
LEMMA ExamplesAreConfirmed ==
    ASSUME FacesOK, NEW F \in [Photos -> {Absent} \cup Face], NEW X \in SUBSET Photos, Propose(F, X),
           NEW p \in Enrolled(F), Examples(F, p) \subseteq Shown
    PROVE  Cardinality(Confirmations(p)) >= MinExamples
  <1>1. Cardinality(Examples(F, p)) >= MinExamples
    BY DEF Enrolled
  <1>2. ASSUME NEW y \in Examples(F, p) PROVE y \in Confirmations(p)
    <2>1. y \in Photos /\ F[y] # Absent /\ F[y].source \in Confirmed /\ F[y].person = p /\ y \in Shown
      BY DEF Examples
    <2>2. y \notin Candidates(F, X)
      BY <2>1 DEF Candidates, Confirmed
    <2>3. faces'[y] = F[y]
      BY <2>1, <2>2, Proposed
    <2>4. QED
      BY <2>1, <2>3 DEF Confirmations
  <1>3. Confirmations(p) \subseteq Photos
    BY DEF Confirmations, Shown
  <1>4. IsFiniteSet(Confirmations(p))
    BY <1>3, AccountsAssumption, FS_Subset
  <1>5. /\ Cardinality(Examples(F, p)) <= Cardinality(Confirmations(p))
        /\ Cardinality(Confirmations(p)) \in Nat /\ Cardinality(Examples(F, p)) \in Nat
    BY <1>2, <1>4, FS_Subset, FS_CardinalityType
  <1>6. QED
    BY <1>1, <1>5, ExamplesAssumption

(* Whoever is suggested after the step was suggested by it.                *)
LEMMA Suggested ==
    ASSUME NEW F \in [Photos -> {Absent} \cup Face], NEW X \in SUBSET Photos, Propose(F, X),
           NEW x \in X, faces'[x] # Absent, faces'[x].source = "match"
    PROVE  x \in Candidates(F, X) /\ faces'[x].person \in Enrolled(F)
  <1>1. x \in Candidates(F, X)
    <2>1. CASE x \notin Candidates(F, X)
      <3>1. faces'[x] = F[x]
        BY <2>1, Proposed
      <3>2. QED
        BY <2>1, <3>1 DEF Candidates
    <2>2. QED
      BY <2>1
  <1>2. faces'[x] # Unknown
    BY DEF Unknown
  <1>3. PICK p \in Enrolled(F) : faces'[x] = By("match", p)
    BY <1>1, <1>2, Proposed
  <1>4. QED
    BY <1>1, <1>3 DEF By

(* Nobody is suggested whom people have not confirmed often enough.        *)
THEOREM PeopleTeach == Spec => TaughtByPeople
  <1>1. ASSUME Inv, [Next]_vars, NEW x \in Photos,
               faces' # faces, faces'[x] # Absent, faces'[x].source = "match",
               events' # events \/ faces'[x] # faces[x]
        PROVE  Cardinality(Confirmations(faces'[x].person)) >= MinExamples
    <2>1. FacesOK /\ CapturesOK /\ events \in Nat
      BY <1>1 DEF Inv, Counted
    <2>2. ASSUME NEW y \in Photos, NEW one \in BOOLEAN, Complete(y, one), events' = events
          PROVE  Cardinality(Confirmations(faces'[x].person)) >= MinExamples
      <3>1. PICK F : F = Found(y, one)
        OBVIOUS
      <3>2. /\ F \in [Photos -> {Absent} \cup Face] /\ Propose(F, {y})
            /\ \A z \in Photos \ {y} : F[z] = faces[z]
            /\ F[y] = Absent \/ F[y] = Unknown \/ \E q \in People : F[y] = By("enrollment", q)
        BY <2>1, <2>2, <3>1, FoundOK DEF Complete
      <3>3. x = y
        <4>1. CASE x # y
          <5>1. x \notin Candidates(F, {y})
            BY <4>1 DEF Candidates
          <5>2. QED
            BY <1>1, <2>2, <3>2, <4>1, <5>1, Proposed
        <4>2. QED
          BY <4>1
      <3>4. x \in Candidates(F, {y}) /\ faces'[x].person \in Enrolled(F)
        BY <1>1, <3>2, <3>3, Suggested
      <3>5. F[y] # Absent /\ F[y].source \notin Confirmed
        BY <3>3, <3>4 DEF Candidates, Confirmed
      <3>6. PICK p \in Enrolled(F) : p = faces'[x].person
        BY <3>4
      <3>7. Examples(F, p) \subseteq Shown
        BY <3>2, <3>5 DEF Examples, Shown
      <3>8. QED
        BY <2>1, <3>2, <3>6, <3>7, ExamplesAreConfirmed
    <2>3. ASSUME FaceEvents
          PROVE  Cardinality(Confirmations(faces'[x].person)) >= MinExamples
      <3>1. PICK F \in [Photos -> {Absent} \cup Face] :
               Propose(F, Photos) /\ \A z \in Photos : F[z] # Absent => z \in Shown
        <4>1. CASE RefreshFaceSuggestions
          BY <2>1, <4>1 DEF RefreshFaceSuggestions, FacesOK, Shown
        <4>2. ASSUME NEW y \in Photos, NEW p \in People \cup {Absent}, AssignFace(y, p)
              PROVE  \E F \in [Photos -> {Absent} \cup Face] :
                        Propose(F, Photos) /\ \A z \in Photos : F[z] # Absent => z \in Shown
          <5>1. PICK label \in Labels(p) : Propose([faces EXCEPT ![y] = label], Photos)
            BY <4>2 DEF AssignFace
          <5>2. PICK F : F = [faces EXCEPT ![y] = label]
            OBVIOUS
          <5>3. F \in [Photos -> {Absent} \cup Face] /\ Propose(F, Photos) /\ y \in Shown
            BY <2>1, <4>2, <5>1, <5>2, LabelOK DEF AssignFace
          <5>4. \A z \in Photos : F[z] # Absent => z \in Shown
            BY <2>1, <5>2, <5>3 DEF Shown, FacesOK
          <5>5. QED
            BY <5>3, <5>4
        <4>3. QED
          BY <2>3, <4>1, <4>2 DEF FaceEvents
      <3>2. faces'[x].person \in Enrolled(F)
        BY <1>1, <3>1, Suggested
      <3>3. PICK p \in Enrolled(F) : p = faces'[x].person
        BY <3>2
      <3>4. Examples(F, p) \subseteq Shown
        BY <3>1 DEF Examples
      <3>5. QED
        BY <2>1, <3>1, <3>3, <3>4, ExamplesAreConfirmed
    <2>4. ASSUME EraseAnalysis, events' = events PROVE FALSE
      BY <1>1, <2>1, <2>4 DEF EraseAnalysis, FacesOK
    <2>5. QED
      BY <1>1, <2>2, <2>3, <2>4, FaceChanges
  <1> DEFINE Taught ==
         \A x \in Photos :
            /\ faces' # faces /\ faces'[x] # Absent /\ faces'[x].source = "match"
            /\ events' # events \/ faces'[x] # faces[x]
            => Cardinality(Confirmations(faces'[x].person)) >= MinExamples
  <1>2. Inv /\ [Next]_vars => Taught
    BY <1>1
  <1>3. []Inv /\ [][Next]_vars => [][Taught]_vars
    BY <1>2, PTL
  <1>4. QED
    BY <1>3, InvariantOK, PTL DEF Spec, TaughtByPeople
=============================================================================
