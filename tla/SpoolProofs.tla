----------------------------- MODULE SpoolProofs -----------------------------
(***************************************************************************)
(* Theorems about Spool, for any number of photos, restarts and retries.   *)
(***************************************************************************)
EXTENDS Spool, WellFoundedInduction, FiniteSetTheorems, TLAPS

-----------------------------------------------------------------------------
(* What the least and the greatest number of a set are.                    *)

Less == {p \in Nat \X Nat : p[1] < p[2]}

LEMMA LessIsWellFounded == IsWellFoundedOn(Less, Nat)
  BY NatLessThanWellFounded DEF OpToRel, Less

LEMMA LeastExists ==
    ASSUME NEW S \in SUBSET Nat, S # {}
    PROVE  \E x \in S : \A y \in S : x <= y
  <1>1. PICK x \in S : \A y \in S : <<y, x>> \notin Less
    BY LessIsWellFounded, WFMin
  <1>2. ASSUME NEW y \in S PROVE x <= y
    <2>1. <<y, x>> \in Nat \X Nat /\ <<y, x>>[1] = y /\ <<y, x>>[2] = x
      BY Zenon
    <2>2. CASE y < x
      <3>1. <<y, x>> \in Less
        BY <2>1, <2>2, Zenon DEF Less
      <3>2. QED
        BY <1>1, <3>1, Zenon
    <2>3. QED
      BY <2>2
  <1>3. QED
    BY <1>2

LEMMA MinOK ==
    ASSUME NEW S \in SUBSET Nat, S # {}
    PROVE  Min(S) \in S /\ \A y \in S : Min(S) <= y
  BY LeastExists, Zenon DEF Min

LEMMA MaxOK ==
    ASSUME NEW n \in Nat, NEW S \in SUBSET (0 .. n), S # {}
    PROVE  Max(S) \in S /\ \A y \in S : Max(S) >= y
  <1> DEFINE T == {n - x : x \in S}
  <1>1. T \in SUBSET Nat /\ T # {}
    <2>1. \A x \in S : n - x \in Nat
      OBVIOUS
    <2>2. QED
      BY <2>1, Zenon
  <1>2. PICK t \in T : \A u \in T : t <= u
    BY <1>1, LeastExists, Zenon
  <1>3. PICK x \in S : t = n - x
    OBVIOUS
  <1>4. \A y \in S : x >= y
    BY <1>2, <1>3
  <1>5. QED
    BY <1>4, Zenon DEF Max

USE DEF files, device, world

-----------------------------------------------------------------------------
(* The inductive invariant.                                                *)

Flags ==
    /\ on \in BOOLEAN /\ adding \in BOOLEAN /\ tokenBad \in BOOLEAN /\ waiting \in BOOLEAN
    /\ net \in BOOLEAN /\ clock \in BOOLEAN

OneEach(S) == \A d, e \in S : d.seq = e.seq => d = e

Types ==
    /\ Flags
    /\ q \subseteq Entries /\ r \subseteq Entries /\ IsFiniteSet(q) /\ IsFiniteSet(r)
    /\ OneEach(q) /\ OneEach(r)
    /\ drain \in [pc : DrainPcs, seq : {0} \cup Seqs, photo : {0} \cup Photos, stamp : Times]
    /\ nextSeq \in Seqs /\ now \in Times \ {0}
    /\ taken \in Seq([whole : BOOLEAN, dated : BOOLEAN]) /\ Len(taken) <= MaxPhotos
    /\ server \subseteq [photo : Photos, id : Times \X Seqs]

Fits == Cardinality(r) <= RejectedMax /\ Cardinality(q) + Cardinality(r) <= Capacity

(* The two tasks run on a device that is on; a photo is taken before it is *)
(* added, and numbers do not run ahead of the photos.                      *)
Runs ==
    /\ drain.pc # "idle" \/ adding => on
    /\ adding => Len(taken) < MaxPhotos
    /\ ~on => now < MaxTime
    /\ nextSeq <= Len(taken) + 1

(* Numbers below the next one, in the order the photos were taken.         *)
Queued ==
    /\ \A e \in q : e.seq < nextSeq /\ e.photo <= Len(taken)
    /\ \A d, e \in q : d.seq < e.seq => d.photo < e.photo

(* The drain's number is the oldest; it names the photo the drain has read *)
(* or no photo at all, whatever was added and dropped meanwhile.           *)
Holds ==
    /\ drain.pc # "idle" => drain.seq \in Seqs /\ drain.seq < nextSeq
    /\ drain.pc = "picked" => drain.photo = 0 /\ \A e \in q : drain.seq <= e.seq
    /\ drain.pc \notin {"idle", "picked"} =>
         \A e \in q : \/ e.seq = drain.seq /\ e.photo = drain.photo
                      \/ e.seq > drain.seq /\ e.photo > drain.photo
    /\ drain.photo <= Len(taken)
    /\ drain.pc \in {"dating", "sending", "filed"} => drain.photo \in Photos /\ drain.stamp > 0
    /\ drain.pc = "filed" => \E f \in server : f.photo = drain.photo

(* No time is ahead of the clock, and a photo dated at capture has one.    *)
Timed ==
    /\ \A e \in q : e.stamp <= now /\ (taken[e.photo].dated => e.stamp > 0)
    /\ drain.stamp <= now
    /\ \A f \in server : f.photo <= Len(taken) /\ f.id[1] <= now

(* A number that is used again goes with a later time.                     *)
Later ==
    /\ on => \A f \in server : f.id[2] >= nextSeq => f.id[1] < now
    /\ \A f \in server, e \in q :
         f.id[2] = e.seq => f.photo = e.photo \/ f.id[1] < ResolveTime(e)
    /\ drain.pc \in {"dating", "sending"} =>
         \A f \in server : f.id[2] = drain.seq => f.photo = drain.photo \/ f.id[1] < drain.stamp

(* A photo dated at capture has one id, filed, queued or on the wire.      *)
OneId ==
    /\ drain.pc = "dating" => ~taken[drain.photo].dated
    /\ drain.pc = "sending" =>
         \A e \in q : e.photo = drain.photo /\ taken[e.photo].dated => e.stamp = drain.stamp
    /\ \A f \in server : taken[f.photo].dated =>
         /\ \A e \in q : e.photo = f.photo => f.id = CaptureId(e.stamp, e.seq)
         /\ drain.pc = "sending" /\ drain.photo = f.photo
              => f.id = CaptureId(drain.stamp, drain.seq)

Ids == Queued /\ Holds /\ Timed /\ Later /\ IdsUnique /\ OneId /\ FiledOnce

IInv == Types /\ Fits /\ Runs /\ Ids

-----------------------------------------------------------------------------
(* Queues of files.                                                        *)

DrainType == [pc : DrainPcs, seq : {0} \cup Seqs, photo : {0} \cup Photos, stamp : Times]

LEMMA Bounds ==
    /\ MaxPhotos \in Nat /\ MaxTime \in Nat \ {0} /\ Capacity \in Nat
    /\ RejectedMax \in Nat \ {0} /\ RejectedMax < Capacity
    /\ Photos = 1 .. MaxPhotos /\ Seqs = 1 .. (MaxPhotos + 1) /\ Times = 0 .. MaxTime
  BY SizeAssumption, ClockAssumption DEF Photos, Seqs, Times

LEMMA OldestOK ==
    ASSUME q \subseteq Entries, q # {}
    PROVE  /\ Oldest(q) \in Seqs /\ \E e \in q : e.seq = Oldest(q)
           /\ \A e \in q : Oldest(q) <= e.seq
  <1>1. SeqsOf(q) \in SUBSET Nat /\ SeqsOf(q) # {}
    BY Bounds DEF SeqsOf, Entries
  <1>2. Min(SeqsOf(q)) \in SeqsOf(q) /\ \A y \in SeqsOf(q) : Min(SeqsOf(q)) <= y
    BY <1>1, MinOK
  <1>3. QED
    BY <1>2, Zenon DEF Oldest, SeqsOf, Entries

LEMMA NextAfterOK ==
    ASSUME q \subseteq Entries
    PROVE  /\ NextAfter(q) \in Nat \ {0} /\ \A e \in q : e.seq < NextAfter(q)
           /\ NextAfter(q) = 1 \/ \E e \in q : NextAfter(q) = e.seq + 1
  <1>1. CASE q = {}
    BY <1>1 DEF NextAfter
  <1>2. CASE q # {}
    <2>1. SeqsOf(q) \in SUBSET (0 .. (MaxPhotos + 1)) /\ SeqsOf(q) # {}
      BY <1>2, Bounds DEF SeqsOf, Entries
    <2>2. Max(SeqsOf(q)) \in SeqsOf(q) /\ \A y \in SeqsOf(q) : Max(SeqsOf(q)) >= y
      BY <2>1, Bounds, MaxOK
    <2>3. PICK e \in q : Max(SeqsOf(q)) = e.seq
      BY <2>2, Zenon DEF SeqsOf
    <2>4. \A d \in q : Max(SeqsOf(q)) >= d.seq
      BY <2>2, Zenon DEF SeqsOf
    <2>5. NextAfter(q) = e.seq + 1
      BY <1>2, <2>3, Zenon DEF NextAfter
    <2>6. \A d \in q : d.seq \in Nat \ {0} /\ d.seq <= e.seq
      BY <2>3, <2>4, Bounds DEF Entries
    <2>7. QED
      BY <2>5, <2>6
  <1>3. QED
    BY <1>1, <1>2

(* At most one file has a number.                                          *)
LEMMA AtOne ==
    ASSUME NEW S, OneEach(S), NEW n
    PROVE  At(S, n) = {} \/ \E e \in S : At(S, n) = {e} /\ e.seq = n
  BY DEF OneEach, At

LEMMA AddOneSize ==
    ASSUME NEW S, IsFiniteSet(S), NEW e
    PROVE  /\ IsFiniteSet(S \cup {e}) /\ Cardinality(S) \in Nat
           /\ Cardinality(S \cup {e}) \in Nat /\ Cardinality(S \cup {e}) <= Cardinality(S) + 1
  BY FS_AddElement, FS_CardinalityType

LEMMA SubsetSize ==
    ASSUME NEW S, IsFiniteSet(S), NEW T \in SUBSET S
    PROVE  /\ IsFiniteSet(T) /\ Cardinality(S) \in Nat
           /\ Cardinality(T) \in Nat /\ Cardinality(T) <= Cardinality(S)
  BY FS_Subset, FS_CardinalityType

(* r/ after it is pruned: below its oldest there is room for the others.   *)
LEMMA PrunedSize ==
    ASSUME r \subseteq Entries, IsFiniteSet(r), OneEach(r)
    PROVE  Pruned \subseteq r /\ IsFiniteSet(Pruned) /\ Cardinality(Pruned) <= RejectedMax - 1
  <1>1. Pruned \subseteq r /\ IsFiniteSet(Pruned)
    BY FS_Subset DEF Pruned
  <1>2. CASE Pruned = {}
    BY <1>1, <1>2, FS_EmptySet, Bounds
  <1>3. CASE Pruned # {}
    <2>1. SeqsOf(Pruned) \in SUBSET Nat /\ SeqsOf(Pruned) # {}
      BY <1>1, <1>3, Bounds DEF SeqsOf, Entries
    <2>2. Min(SeqsOf(Pruned)) \in SeqsOf(Pruned)
          /\ \A y \in SeqsOf(Pruned) : Min(SeqsOf(Pruned)) <= y
      BY <2>1, MinOK
    <2>3. PICK o \in Pruned : o.seq = Min(SeqsOf(Pruned))
      BY <2>2, Zenon DEF SeqsOf
    <2>4. \A e \in Pruned : o.seq <= e.seq
      BY <2>2, <2>3, Zenon DEF SeqsOf
    <2> DEFINE Newer == {d \in r : d.seq > o.seq}
    <2>5. Pruned \ {o} \subseteq Newer
      BY <1>1, <2>4, Bounds DEF OneEach, Entries
    <2>6. Cardinality(Newer) < RejectedMax - 1
      BY <2>3, Zenon DEF Pruned
    <2>7. IsFiniteSet(Newer)
      BY FS_Subset
    <2>8. Cardinality(Pruned \ {o}) <= Cardinality(Newer)
      BY <2>5, <2>7, FS_Subset
    <2>9. Cardinality(Pruned \ {o}) = Cardinality(Pruned) - 1
      BY <1>1, <2>3, FS_RemoveElement
    <2>10. Cardinality(Pruned) \in Nat /\ Cardinality(Newer) \in Nat
      BY <1>1, <2>7, FS_CardinalityType
    <2>11. QED
      BY <1>1, <2>6, <2>8, <2>9, <2>10, Bounds
  <1>4. QED
    BY <1>2, <1>3

-----------------------------------------------------------------------------
(* Types, sizes and the two tasks.                                         *)

LEMMA IdleOK ==
    /\ IdleDrain \in DrainType /\ IdleDrain.pc = "idle" /\ IdleDrain.seq = 0
    /\ IdleDrain.photo = 0 /\ IdleDrain.stamp = 0
  <1>1. 0 \in Times
    BY Bounds
  <1>2. QED
    BY <1>1, SMT DEF IdleDrain, DrainType, DrainPcs

LEMMA StepOK ==
    ASSUME drain \in DrainType, NEW pc \in DrainPcs, drain' = Step(pc)
    PROVE  /\ drain' \in DrainType /\ drain'.pc = pc /\ drain'.seq = drain.seq
           /\ drain'.photo = drain.photo /\ drain'.stamp = drain.stamp
  <1>1. drain' \in DrainType
    BY Zenon DEF Step, DrainType
  <1>2. QED
    BY <1>1, SMT DEF Step, DrainType

(* What reads of the entry e may make of the drain.                        *)
LEMMA ReadOK ==
    ASSUME drain \in DrainType, NEW photo \in Photos, NEW stamp \in Times, NEW pc \in DrainPcs,
           drain' = [drain EXCEPT !.photo = photo, !.stamp = stamp, !.pc = pc]
    PROVE  /\ drain' \in DrainType /\ drain'.pc = pc /\ drain'.seq = drain.seq
           /\ drain'.photo = photo /\ drain'.stamp = stamp
  <1>1. drain' \in DrainType
    BY Zenon DEF DrainType
  <1>2. QED
    BY <1>1, SMT DEF DrainType

LEMMA ReadBadOK ==
    ASSUME drain \in DrainType, NEW photo \in Photos, NEW pc \in DrainPcs,
           drain' = [drain EXCEPT !.photo = photo, !.pc = pc]
    PROVE  /\ drain' \in DrainType /\ drain'.pc = pc /\ drain'.seq = drain.seq
           /\ drain'.photo = photo /\ drain'.stamp = drain.stamp
  <1>1. drain' \in DrainType
    BY Zenon DEF DrainType
  <1>2. QED
    BY <1>1, SMT DEF DrainType

LEMMA PickOK ==
    ASSUME NEW seq \in Seqs, drain' = [IdleDrain EXCEPT !.pc = "picked", !.seq = seq]
    PROVE  /\ drain' \in DrainType /\ drain'.pc = "picked" /\ drain'.seq = seq
           /\ drain'.photo = 0 /\ drain'.stamp = 0
  <1>1. IdleDrain \in DrainType /\ IdleDrain.photo = 0 /\ IdleDrain.stamp = 0
    BY IdleOK
  <1> HIDE DEF IdleDrain
  <1>2. drain' \in DrainType
    BY <1>1, Zenon DEF DrainType, DrainPcs
  <1>3. QED
    BY <1>1, <1>2, SMT DEF DrainType

LEMMA EntryOK ==
    ASSUME NEW seq, NEW photo, NEW stamp
    PROVE  /\ Entry(seq, photo, stamp).seq = seq /\ Entry(seq, photo, stamp).photo = photo
           /\ Entry(seq, photo, stamp).stamp = stamp
           /\ seq \in Seqs /\ photo \in Photos /\ stamp \in Times
                => Entry(seq, photo, stamp) \in Entries
  BY SMT DEF Entry, Entries

LEMMA FiledOK ==
    ASSUME NEW photo, NEW stamp, NEW seq
    PROVE  /\ Filed(photo, stamp, seq).photo = photo
           /\ Filed(photo, stamp, seq).id = CaptureId(stamp, seq)
           /\ CaptureId(stamp, seq)[1] = stamp /\ CaptureId(stamp, seq)[2] = seq
           /\ seq \in Seqs /\ photo \in Photos /\ stamp \in Times
                => Filed(photo, stamp, seq) \in [photo : Photos, id : Times \X Seqs]
  BY SMT DEF Filed, CaptureId

(* A queue from which files went.                                          *)
LEMMA ShrinkOK ==
    ASSUME Types, Fits, q' \subseteq q, r' = r
    PROVE  /\ q' \subseteq Entries /\ r' \subseteq Entries /\ IsFiniteSet(q') /\ IsFiniteSet(r')
           /\ OneEach(q)' /\ OneEach(r)' /\ Fits'
  <1>1. IsFiniteSet(q') /\ Cardinality(q) \in Nat /\ Cardinality(q') \in Nat
        /\ Cardinality(q') <= Cardinality(q)
    BY SubsetSize DEF Types
  <1>2. Cardinality(r) \in Nat
    BY FS_CardinalityType DEF Types
  <1>3. OneEach(q)' /\ OneEach(r)'
    BY DEF Types, OneEach
  <1>4. Fits'
    BY <1>1, <1>2, Bounds DEF Fits
  <1>5. QED
    BY <1>1, <1>3, <1>4 DEF Types

(* The time is written into the one entry that has the drain's number.     *)
LEMMA DatedOK ==
    ASSUME Types, Fits, q' = Dated, r' = r
    PROVE  /\ q' \subseteq Entries /\ r' \subseteq Entries /\ IsFiniteSet(q') /\ IsFiniteSet(r')
           /\ OneEach(q)' /\ OneEach(r)' /\ Fits'
           /\ At(q, drain.seq) = {} => q' = q
           /\ \A e \in q' : \/ e \in q /\ e.seq # drain.seq
                            \/ e.stamp = drain.stamp /\ e.seq = drain.seq
                               /\ \E d \in q : d.seq = drain.seq /\ d.photo = e.photo
  <1> DEFINE A == At(q, drain.seq)
  <1>1. CASE A = {}
    <2>1. q' = q
      BY <1>1 DEF Dated, At
    <2>2. \A e \in q : e.seq # drain.seq
      BY <1>1 DEF At
    <2>3. QED
      BY <2>1, <2>2, ShrinkOK
  <1>2. ASSUME NEW d \in q, A = {d}, d.seq = drain.seq
        PROVE  /\ q' \subseteq Entries /\ IsFiniteSet(q') /\ OneEach(q)' /\ Fits'
               /\ \A e \in q' : \/ e \in q /\ e.seq # drain.seq
                                \/ e.stamp = drain.stamp /\ e.seq = drain.seq
                                   /\ \E o \in q : o.seq = drain.seq /\ o.photo = e.photo
    <2> DEFINE n == [d EXCEPT !.stamp = drain.stamp]
    <2>1. d \in Entries /\ drain.stamp \in Times
      BY DEF Types
    <2>2. n \in Entries
      BY <2>1, Zenon DEF Entries
    <2>3. n.seq = d.seq /\ n.photo = d.photo /\ n.stamp = drain.stamp
      BY <2>1, Zenon DEF Entries
    <2>4. q' = (q \ {d}) \cup {n}
      BY <1>2, Zenon DEF Dated
    <2> HIDE DEF n
    <2>5. OneEach(q)'
      BY <1>2, <2>3, <2>4 DEF Types, OneEach, At
    <2>6. /\ IsFiniteSet(q \ {d}) /\ Cardinality(q \ {d}) = Cardinality(q) - 1
          /\ Cardinality(q) \in Nat
      BY FS_RemoveElement, FS_CardinalityType DEF Types
    <2>7. IsFiniteSet(q') /\ Cardinality(q') \in Nat /\ Cardinality(q') <= Cardinality(q \ {d}) + 1
      BY <2>4, <2>6, AddOneSize
    <2>8. Cardinality(r) \in Nat
      BY FS_CardinalityType DEF Types
    <2>9. Fits'
      BY <2>6, <2>7, <2>8, Bounds DEF Fits
    <2>10. \A e \in q \ {d} : e.seq # drain.seq
      BY <1>2 DEF At
    <2>11. QED
      BY <1>2, <2>2, <2>3, <2>4, <2>5, <2>7, <2>9, <2>10 DEF Types
  <1>3. OneEach(r)' /\ r' \subseteq Entries /\ IsFiniteSet(r')
    BY DEF Types, OneEach
  <1>4. CASE A # {}
    <2>1. PICK d \in q : A = {d} /\ d.seq = drain.seq
      BY <1>4, AtOne, Zenon DEF Types, At
    <2>2. QED
      BY <1>2, <1>3, <1>4, <2>1
  <1>5. QED
    BY <1>1, <1>4

(* A refused photo is moved to r/, from which others went.                 *)
LEMMA RejectedOK ==
    ASSUME Types, Fits, RejectEntry
    PROVE  /\ q' \subseteq Entries /\ r' \subseteq Entries /\ IsFiniteSet(q') /\ IsFiniteSet(r')
           /\ OneEach(q)' /\ OneEach(r)' /\ Fits'
  <1> DEFINE A == At(q, drain.seq)
             P == Pruned
             K == P \ At(P, drain.seq)
  <1>1. q' = q \ A /\ r' \in {P, K \cup A}
    BY DEF RejectEntry, Remove
  <1>2. P \subseteq r /\ IsFiniteSet(P) /\ Cardinality(P) <= RejectedMax - 1
    BY PrunedSize DEF Types
  <1>3. /\ IsFiniteSet(q') /\ Cardinality(q') \in Nat /\ Cardinality(q) \in Nat
        /\ Cardinality(q') <= Cardinality(q) /\ Cardinality(r) \in Nat
        /\ Cardinality(P) \in Nat /\ Cardinality(P) <= Cardinality(r)
    BY <1>1, <1>2, SubsetSize, FS_CardinalityType DEF Types
  <1>4. OneEach(q)' /\ q' \subseteq Entries
    BY <1>1 DEF Types, OneEach
  <1>5. CASE r' = P
    <2>1. OneEach(r)' /\ r' \subseteq Entries
      BY <1>2, <1>5 DEF Types, OneEach
    <2>2. Fits'
      BY <1>2, <1>3, <1>5, Bounds DEF Fits
    <2>3. QED
      BY <1>2, <1>3, <1>4, <1>5, <2>1, <2>2
  <1>6. CASE r' = K \cup A /\ A = {}
    <2>1. r' \subseteq P
      BY <1>6
    <2>2. IsFiniteSet(r') /\ Cardinality(r') \in Nat /\ Cardinality(r') <= Cardinality(P)
      BY <1>2, <2>1, SubsetSize
    <2>3. OneEach(r)' /\ r' \subseteq Entries
      BY <1>2, <2>1 DEF Types, OneEach
    <2>4. Fits'
      BY <1>2, <1>3, <2>2, Bounds DEF Fits
    <2>5. QED
      BY <1>3, <1>4, <2>2, <2>3, <2>4
  <1>7. ASSUME NEW d \in q, A = {d}, d.seq = drain.seq, r' = K \cup A
        PROVE  r' \subseteq Entries /\ IsFiniteSet(r') /\ OneEach(r)' /\ Fits'
    <2>1. K \subseteq P /\ IsFiniteSet(K) /\ Cardinality(K) \in Nat
          /\ Cardinality(K) <= Cardinality(P)
      BY <1>2, SubsetSize
    <2>2. IsFiniteSet(r') /\ Cardinality(r') \in Nat /\ Cardinality(r') <= Cardinality(K) + 1
      BY <1>7, <2>1, AddOneSize
    <2>3. OneEach(r)'
      <3>1. \A e \in K : e.seq # drain.seq
        BY DEF At
      <3>2. OneEach(K)
        BY <1>2, <2>1 DEF Types, OneEach
      <3>3. QED
        BY <1>7, <3>1, <3>2 DEF OneEach
    <2>4. r' \subseteq Entries
      BY <1>2, <1>7, <2>1 DEF Types
    <2>5. Cardinality(q') = Cardinality(q) - 1
      BY <1>1, <1>7, FS_RemoveElement DEF Types
    <2>6. Fits'
      BY <1>2, <1>3, <2>1, <2>2, <2>5, Bounds DEF Fits
    <2>7. QED
      BY <2>2, <2>3, <2>4, <2>6
  <1>8. CASE A # {}
    <2>1. PICK d \in q : A = {d} /\ d.seq = drain.seq
      BY <1>8, AtOne, Zenon DEF Types, At
    <2>2. r' = P \/ r' = K \cup A
      BY <1>1
    <2>3. QED
      BY <1>3, <1>4, <1>5, <1>7, <2>1, <2>2
  <1>9. QED
    BY <1>1, <1>5, <1>6, <1>8

-----------------------------------------------------------------------------
(* What the actions do.                                                    *)

Photo == [whole : BOOLEAN, dated : BOOLEAN]

LEMMA TakenOK ==
    ASSUME Types, Len(taken) < MaxPhotos, NEW x \in Photo, taken' = Append(taken, x)
    PROVE  /\ taken' \in Seq(Photo) /\ Len(taken') = Len(taken) + 1 /\ Len(taken') <= MaxPhotos
           /\ \A i \in 1 .. Len(taken) : taken'[i] = taken[i]
           /\ taken'[Len(taken) + 1] = x /\ Len(taken) \in Nat
  BY Bounds DEF Types, Photo

(* A photo is added under a number that is not in use.                     *)
LEMMA CommitOK ==
    ASSUME Types, Fits, Runs, Queued, AddCommits
    PROVE  /\ \E n \in Entries :
                /\ q' = q \cup {n} /\ n.seq = nextSeq /\ n.photo = Len(taken) + 1
                /\ n.stamp = IF clock THEN now ELSE 0
           /\ \E x \in Photo : taken' = Append(taken, x) /\ x.dated = clock
           /\ nextSeq' \in Seqs /\ nextSeq' = nextSeq + 1 /\ Len(taken) < MaxPhotos
           /\ IsFiniteSet(q') /\ OneEach(q)' /\ Fits'
  <1> DEFINE stamp == IF clock THEN now ELSE 0
             n == Entry(nextSeq, Len(taken) + 1, stamp)
  <1>1. Len(taken) \in Nat /\ Len(taken) < MaxPhotos
    BY DEF AddCommits, Runs, Types
  <1>2. stamp \in Times /\ Len(taken) + 1 \in Photos /\ nextSeq \in Seqs
    BY <1>1, Bounds DEF Types
  <1>3. n \in Entries /\ n.seq = nextSeq /\ n.photo = Len(taken) + 1 /\ n.stamp = stamp
    BY <1>2, EntryOK
  <1>4. \A e \in q : e.seq # nextSeq
    BY Bounds DEF Queued, Types, Entries
  <1>5. q' = q \cup {n}
    BY <1>4, Zenon DEF AddCommits, At
  <1>6. \E x \in Photo : taken' = Append(taken, x) /\ x.dated = clock
    <2>1. PICK whole \in BOOLEAN : taken' = Append(taken, [whole |-> whole, dated |-> clock])
      BY Zenon DEF AddCommits
    <2>2. [whole |-> whole, dated |-> clock] \in Photo
      BY Zenon DEF Types, Flags, Photo
    <2>3. [whole |-> whole, dated |-> clock].dated = clock
      BY Zenon
    <2>4. QED
      BY <2>1, <2>2, <2>3, Zenon
  <1> HIDE DEF n
  <1>7. OneEach(q)'
    BY <1>3, <1>4, <1>5 DEF OneEach, Types
  <1>8. IsFiniteSet(q') /\ Cardinality(q') \in Nat /\ Cardinality(q') <= Cardinality(q) + 1
        /\ Cardinality(q) \in Nat
    BY <1>5, AddOneSize DEF Types
  <1>9. Cardinality(r) \in Nat
    BY FS_CardinalityType DEF Types
  <1>10. Fits'
    BY <1>8, <1>9, Bounds DEF Fits, AddCommits, Full
  <1>11. nextSeq' \in Seqs /\ nextSeq' = nextSeq + 1
    BY <1>1, Bounds DEF AddCommits, Types, Runs
  <1>12. QED
    BY <1>1, <1>3, <1>5, <1>6, <1>7, <1>8, <1>10, <1>11

(* What the drain learns when it reads its entry.                          *)
Learns ==
    /\ drain' \in DrainType
    /\ \/ At(q, drain.seq) = {} /\ drain'.seq = drain.seq
          /\ drain'.pc = "discard" /\ drain'.photo = drain.photo /\ drain'.stamp = drain.stamp
       \/ \E e \in q :
            /\ e.seq = drain.seq /\ drain'.seq = drain.seq /\ drain'.photo = e.photo
            /\ \/ drain'.pc \in {"discard", "reject"}
                  /\ drain'.stamp \in {drain.stamp, ResolveTime(e)}
               \/ drain'.pc = "dating" /\ e.stamp = 0 /\ drain'.stamp = ResolveTime(e)
               \/ drain'.pc = "sending" /\ e.stamp # 0 /\ drain'.stamp = ResolveTime(e)
       \/ drain' = IdleDrain

LEMMA InspectOK == ASSUME Types, Inspect PROVE Learns
  <1> USE DEF DrainType
  <1>1. drain \in DrainType
    BY DEF Types
  <1>2. CASE At(q, drain.seq) = {} /\ drain' = Step("discard")
    <2>1. "discard" \in DrainPcs
      BY DEF DrainPcs
    <2>2. QED
      BY <1>1, <1>2, <2>1, StepOK DEF Learns
  <1>3. ASSUME NEW e \in At(q, drain.seq), NEW pc \in {"reject", "dating", "sending"},
               pc = "dating" => e.stamp = 0, pc = "sending" => e.stamp # 0,
               drain' = [drain EXCEPT !.photo = e.photo, !.stamp = ResolveTime(e), !.pc = pc]
        PROVE  Learns
    <2>1. e \in q /\ e.seq = drain.seq
      BY DEF At
    <2>2. e.photo \in Photos /\ ResolveTime(e) \in Times /\ pc \in DrainPcs
      BY <2>1, Bounds DEF Types, Entries, ResolveTime, DrainPcs
    <2>3. /\ drain' \in DrainType /\ drain'.pc = pc /\ drain'.seq = drain.seq
          /\ drain'.photo = e.photo /\ drain'.stamp = ResolveTime(e)
      BY <1>1, <1>3, <2>2, ReadOK
    <2>4. QED
      BY <1>3, <2>1, <2>3 DEF Learns
  <1>4. ASSUME NEW e \in At(q, drain.seq),
               drain' = [drain EXCEPT !.photo = e.photo, !.stamp = ResolveTime(e),
                                      !.pc = CASE ~taken[e.photo].whole -> "reject"
                                               [] taken[e.photo].whole /\ e.stamp = 0 -> "dating"
                                               [] OTHER -> "sending"]
        PROVE  Learns
    <2> DEFINE pc == CASE ~taken[e.photo].whole -> "reject"
                       [] taken[e.photo].whole /\ e.stamp = 0 -> "dating"
                       [] OTHER -> "sending"
    <2>1. pc \in {"reject", "dating", "sending"}
      BY Zenon
    <2>2. (pc = "dating" => e.stamp = 0) /\ (pc = "sending" => e.stamp # 0)
      BY SMT
    <2>3. drain' = [drain EXCEPT !.photo = e.photo, !.stamp = ResolveTime(e), !.pc = pc]
      BY <1>4
    <2> HIDE DEF pc
    <2>4. QED
      BY <1>3, <2>1, <2>2, <2>3
  <1>5. QED
    BY <1>2, <1>4, Zenon DEF Inspect

LEMMA ReadFailsOK == ASSUME Types, ReadFails PROVE Learns
  <1>1. PICK e \in At(q, drain.seq) :
            drain' \in {[drain EXCEPT !.photo = e.photo, !.pc = "discard"],
                        [drain EXCEPT !.photo = e.photo, !.pc = "reject"], IdleDrain}
    BY Zenon DEF ReadFails
  <1>2. e \in q /\ e.seq = drain.seq
    BY DEF At
  <1>3. e.photo \in Photos /\ drain \in DrainType /\ {"discard", "reject"} \subseteq DrainPcs
    BY <1>2 DEF Types, Entries, DrainPcs, DrainType
  <1>4. ASSUME NEW pc \in {"discard", "reject"},
               drain' = [drain EXCEPT !.photo = e.photo, !.pc = pc]
        PROVE  Learns
    BY <1>2, <1>3, <1>4, ReadBadOK DEF Learns
  <1>5. CASE drain' = IdleDrain
    BY <1>5, IdleOK DEF Learns
  <1>6. QED
    BY <1>1, <1>4, <1>5, Zenon

(* The files are well typed and fit after every step.                      *)
FilesOK == /\ q \subseteq Entries /\ r \subseteq Entries /\ IsFiniteSet(q) /\ IsFiniteSet(r)
           /\ OneEach(q) /\ OneEach(r) /\ Fits

LEMMA FilesNext == ASSUME Types, Fits, Runs, Queued, Next PROVE FilesOK'
  <1>1. CASE q' \subseteq q /\ r' = r
    BY <1>1, ShrinkOK DEF FilesOK
  <1>2. CASE AddCommits
    <2>1. OneEach(r)' /\ r' = r
      BY <1>2 DEF AddCommits, Types, OneEach
    <2>2. QED
      BY <1>2, <2>1, CommitOK DEF FilesOK, Types
  <1>3. CASE RejectEntry
    BY <1>3, RejectedOK DEF FilesOK
  <1>4. CASE q' = Dated /\ r' = r
    BY <1>4, DatedOK DEF FilesOK
  <1>5. CASE WriteBackFails
    <2>1. q' \in {q, Dated} /\ r' = r
      BY <1>5, Zenon DEF WriteBackFails
    <2>2. QED
      BY <1>1, <1>4, <2>1
  <1>6. CASE Inspect \/ ReadFails \/ UploadSettled \/ UploadFails \/ Pick
    BY <1>1, <1>6 DEF Inspect, ReadFails, UploadSettled, UploadFails, Pick
  <1>7. CASE AddStarts \/ AddDrops \/ AddFails \/ Unlink \/ WriteBack
    BY <1>1, <1>4, <1>7 DEF AddStarts, AddDrops, AddFails, Unlink, Remove, WriteBack
  <1>8. CASE Restart \/ Boot \/ GotIp \/ NetDown \/ Sntp \/ BackoffExpires \/ Tick
    BY <1>1, <1>8 DEF Restart, Boot, GotIp, NetDown, Sntp, BackoffExpires, Tick
  <1>9. QED
    BY <1>2, <1>3, <1>5, <1>6, <1>7, <1>8 DEF Next

(* Where the drain goes.                                                   *)
LEMMA DrainNext ==
    ASSUME Types, Next
    PROVE  drain' \in DrainType /\ (drain'.pc # "idle" => drain'.pc = drain.pc \/ on)
  <1> USE DEF DrainType
  <1>1. drain \in DrainType
    BY DEF Types
  <1>2. CASE UNCHANGED drain
    BY <1>1, <1>2
  <1>3. CASE drain' = IdleDrain
    BY <1>3, IdleOK
  <1>4. ASSUME NEW pc \in {"discard", "sending", "filed", "reject"}, drain' = Step(pc), on
        PROVE  drain' \in DrainType
    <2>1. pc \in DrainPcs
      BY DEF DrainPcs
    <2>2. QED
      BY <1>1, <1>4, <2>1, StepOK
  <1>5. CASE Pick
    <2>1. Oldest(q) \in Seqs
      BY <1>5, OldestOK DEF Pick, ReadyToDrain, Types
    <2>2. drain' \in DrainType
      BY <1>5, <2>1, PickOK DEF Pick
    <2>3. QED
      BY <1>5, <2>2 DEF Pick, DrainAt
  <1>6. CASE Inspect \/ ReadFails
    BY <1>6, InspectOK, ReadFailsOK, IdleOK DEF Learns, Inspect, ReadFails, DrainAt
  <1>7. CASE WriteBack \/ WriteBackFails
    <2>1. drain' \in {IdleDrain, Step("sending")} /\ on
      BY <1>7, Zenon DEF WriteBack, WriteBackFails, DrainAt
    <2>2. QED
      BY <1>3, <1>4, <2>1
  <1>8. CASE UploadSettled \/ UploadFails \/ Unlink \/ RejectEntry
    BY <1>3, <1>4, <1>8 DEF UploadSettled, UploadFails, DrainAt, Unlink, RejectEntry, Remove
  <1>9. CASE AddStarts \/ AddDrops \/ AddCommits \/ AddFails \/ Restart \/ Boot \/ GotIp
             \/ NetDown \/ Sntp \/ BackoffExpires \/ Tick
    BY <1>2, <1>3, <1>9 DEF AddStarts, AddDrops, AddCommits, AddFails, Restart, Boot, GotIp,
       NetDown, Sntp, BackoffExpires, Tick
  <1>10. QED
    BY <1>5, <1>6, <1>7, <1>8, <1>9 DEF Next

(* What an upload adds.                                                    *)
LEMMA ServerFilesOK ==
    ASSUME Types, Holds, drain.pc = "sending", ServerFiles
    PROVE  \E n \in [photo : Photos, id : Times \X Seqs] :
              /\ server' = server \cup {n} /\ n.photo = drain.photo
              /\ n.id = CaptureId(drain.stamp, drain.seq)
              /\ n.id[1] = drain.stamp /\ n.id[2] = drain.seq
  <1>1. drain.photo \in Photos /\ drain.seq \in Seqs /\ drain.stamp \in Times
    BY DEF Types, Holds
  <1>2. QED
    BY <1>1, FiledOK DEF ServerFiles

RestOK ==
    /\ Flags /\ nextSeq \in Seqs /\ now \in Times \ {0}
    /\ taken \in Seq(Photo) /\ Len(taken) <= MaxPhotos
    /\ server \subseteq [photo : Photos, id : Times \X Seqs]

LEMMA RestNext == ASSUME Types, Fits, Runs, Queued, Holds, Next PROVE RestOK' /\ Runs'
  <1>1. RestOK
    BY DEF Types, RestOK, Photo
  <1>2. CASE AddStarts
    BY <1>1, <1>2 DEF AddStarts, RestOK, Flags, Runs
  <1>3. CASE AddDrops
    BY <1>1, <1>3 DEF AddDrops, RestOK, Flags, Runs
  <1>4. CASE AddCommits
    <2>1. PICK x \in Photo : taken' = Append(taken, x)
      BY <1>4, CommitOK
    <2>2. /\ taken' \in Seq(Photo) /\ Len(taken') = Len(taken) + 1 /\ Len(taken') <= MaxPhotos
          /\ Len(taken) \in Nat
      BY <1>4, <2>1, CommitOK, TakenOK
    <2>3. nextSeq' \in Seqs /\ nextSeq' = nextSeq + 1
      BY <1>4, CommitOK
    <2>4. UNCHANGED <<on, drain, tokenBad, waiting, world, server>> /\ adding' = FALSE
      BY <1>4 DEF AddCommits
    <2>5. RestOK'
      BY <1>1, <2>2, <2>3, <2>4 DEF RestOK, Flags
    <2>6. Runs'
      BY <1>1, <2>2, <2>3, <2>4 DEF RestOK, Flags, Runs
    <2>7. QED
      BY <2>5, <2>6
  <1>5. CASE AddFails
    <2> DEFINE x == [whole |-> TRUE, dated |-> clock]
    <2>1. x \in Photo
      BY DEF Photo, Types, Flags
    <2>2. taken' = Append(taken, x) /\ Len(taken) < MaxPhotos
      BY <1>5 DEF AddFails, Runs
    <2> HIDE DEF x
    <2>3. /\ taken' \in Seq(Photo) /\ Len(taken') = Len(taken) + 1 /\ Len(taken') <= MaxPhotos
          /\ Len(taken) \in Nat
      BY <2>1, <2>2, TakenOK
    <2>4. UNCHANGED <<on, drain, tokenBad, waiting, nextSeq, world, server>> /\ adding' = FALSE
      BY <1>5 DEF AddFails
    <2>5. RestOK'
      BY <1>1, <2>3, <2>4 DEF RestOK, Flags
    <2>6. Runs'
      BY <1>1, <2>3, <2>4, Bounds DEF RestOK, Flags, Runs
    <2>7. QED
      BY <2>5, <2>6
  <1>6. CASE Pick \/ Inspect \/ ReadFails \/ WriteBack \/ WriteBackFails \/ Unlink \/ RejectEntry
    <2>1. on /\ UNCHANGED <<on, adding, nextSeq, world, taken, tokenBad, waiting, server>>
      BY <1>6 DEF Pick, Inspect, ReadFails, WriteBack, WriteBackFails, Unlink, RejectEntry,
         DrainAt, DrainKeeps
    <2>2. QED
      BY <1>1, <2>1 DEF RestOK, Flags, Runs
  <1>7. CASE UploadSettled \/ UploadFails
    <2>1. on /\ UNCHANGED <<on, adding, nextSeq, world, taken>>
      BY <1>7 DEF UploadSettled, UploadFails, DrainAt, DrainKeeps
    <2>2. tokenBad' \in {tokenBad, TRUE} /\ waiting' \in {waiting, TRUE, FALSE}
      BY <1>7 DEF UploadSettled, UploadFails
    <2>3. server' \subseteq [photo : Photos, id : Times \X Seqs]
      <3>1. drain.pc = "sending" /\ (server' = server \/ ServerFiles)
        BY <1>7 DEF UploadSettled, UploadFails, DrainAt
      <3>2. QED
        BY <1>1, <3>1, ServerFilesOK DEF RestOK
    <2>4. QED
      BY <1>1, <2>1, <2>2, <2>3 DEF RestOK, Flags, Runs
  <1>8. CASE Restart
    <2>1. /\ on /\ now < MaxTime /\ on' = FALSE /\ adding' = FALSE /\ drain'.pc = "idle"
          /\ net' = FALSE
          /\ clock' \in {FALSE, clock}
          /\ UNCHANGED <<nextSeq, tokenBad, waiting, now, taken, server>>
      BY <1>8, IdleOK DEF Restart
    <2>2. QED
      BY <1>1, <2>1 DEF RestOK, Flags, Runs
  <1>9. CASE Boot
    <2>1. /\ NextAfter(q) \in Nat \ {0}
          /\ NextAfter(q) = 1 \/ \E e \in q : NextAfter(q) = e.seq + 1
      BY NextAfterOK DEF Types
    <2>2. NextAfter(q) <= Len(taken) + 1 /\ Len(taken) \in Nat
      BY <2>1, Bounds DEF Queued, Runs, Types, Entries
    <2>3. UNCHANGED <<adding, drain, net, clock, taken, server>> /\ ~on /\ on' = TRUE
          /\ nextSeq' = NextAfter(q) /\ now' = now + 1 /\ tokenBad' = FALSE
          /\ waiting' = FALSE
      BY <1>9 DEF Boot
    <2>4. nextSeq' \in Seqs /\ nextSeq' <= Len(taken) + 1
      BY <1>1, <2>1, <2>2, <2>3, Bounds DEF RestOK
    <2>5. now' \in Times \ {0}
      BY <1>1, <2>3, Bounds DEF RestOK, Runs
    <2>6. Flags'
      BY <1>1, <2>3 DEF RestOK, Flags
    <2>7. RestOK'
      BY <1>1, <2>3, <2>4, <2>5, <2>6 DEF RestOK
    <2>8. Runs'
      BY <2>3, <2>4 DEF Runs
    <2>9. QED
      BY <2>7, <2>8
  <1>10. CASE GotIp \/ NetDown \/ Sntp \/ BackoffExpires
    <2>1. /\ UNCHANGED <<on, adding, drain, nextSeq, now, tokenBad, taken, server>>
          /\ net' \in {net, TRUE, FALSE} /\ clock' \in {clock, TRUE}
          /\ waiting' \in {waiting, FALSE}
      BY <1>10 DEF GotIp, NetDown, Sntp, BackoffExpires
    <2>2. RestOK'
      BY <1>1, <2>1 DEF RestOK, Flags
    <2>3. Runs'
      BY <2>1 DEF Runs
    <2>4. QED
      BY <2>2, <2>3
  <1>11. CASE Tick
    BY <1>1, <1>11, Bounds DEF Tick, RestOK, Flags, Runs
  <1>12. QED
    BY <1>2, <1>3, <1>4, <1>5, <1>6, <1>7, <1>8, <1>9, <1>10, <1>11 DEF Next

LEMMA TypesNext == ASSUME Types, Fits, Runs, Queued, Holds, Next PROVE Types' /\ Fits' /\ Runs'
  BY FilesNext, DrainNext, RestNext DEF FilesOK, DrainType, RestOK, Photo, Types

-----------------------------------------------------------------------------
(* Photos, numbers and times.                                              *)

LEMMA Numbers ==
    ASSUME Types
    PROVE  /\ \A e \in q : /\ e.seq \in Nat \ {0} /\ e.photo \in Nat \ {0} /\ e.stamp \in Nat
                           /\ e.photo \in Photos
           /\ \A f \in server : /\ f.photo \in Nat \ {0} /\ f.id[1] \in Nat /\ f.id[2] \in Nat
                                /\ f.id = <<f.id[1], f.id[2]>> /\ f.photo \in Photos
           /\ drain.seq \in Nat /\ drain.photo \in Nat /\ drain.stamp \in Nat
           /\ nextSeq \in Nat /\ now \in Nat \ {0} /\ Len(taken) \in Nat
  BY Bounds DEF Types, Entries

SameTaken == /\ Len(taken') >= Len(taken) /\ Len(taken') \in Nat
             /\ \A i \in 1 .. Len(taken) : taken'[i] = taken[i]

SameEntry == drain'.seq = drain.seq /\ drain'.photo = drain.photo /\ drain'.stamp = drain.stamp

(* Files go, the drain lets go of its entry or gives it up, time passes;   *)
(* or the device starts.                                                   *)
Quiet ==
    /\ q' \subseteq q /\ server' = server /\ SameTaken
    /\ now' \in {now, now + 1}
    /\ \/ drain' = drain
       \/ drain' = IdleDrain
       \/ SameEntry /\ drain.pc = "sending" /\ drain'.pc = "reject"
    /\ \/ nextSeq' = nextSeq /\ (on' => on)
       \/ /\ drain'.pc = "idle" /\ now' = now + 1
          /\ \A e \in q : e.seq < nextSeq'

LEMMA QuietOK == ASSUME Types, Types', Ids, Quiet PROVE Ids'
  <1> USE Numbers
  <1>1. Queued'
    BY DEF Ids, Queued, Quiet, SameTaken
  <1>2. Holds'
    <2>1. CASE drain' = drain
      BY <2>1 DEF Ids, Holds, Quiet, SameTaken
    <2>2. CASE drain' = IdleDrain
      BY <2>2, IdleOK DEF Holds, Quiet, SameTaken
    <2>3. CASE SameEntry /\ drain.pc = "sending" /\ drain'.pc = "reject"
      BY <2>3 DEF Ids, Holds, Quiet, SameTaken, SameEntry
    <2>4. QED
      BY <2>1, <2>2, <2>3 DEF Quiet
  <1>3. Timed'
    <2>1. drain'.stamp <= now'
      BY IdleOK DEF Ids, Timed, Quiet, SameEntry
    <2>2. \A e \in q' : e.stamp <= now' /\ (taken'[e.photo].dated => e.stamp > 0)
      BY DEF Ids, Queued, Timed, Quiet, SameTaken
    <2>3. QED
      BY <2>1, <2>2 DEF Ids, Timed, Quiet, SameTaken
  <1>4. Later'
    <2>1. on' => \A f \in server' : f.id[2] >= nextSeq' => f.id[1] < now'
      BY DEF Ids, Timed, Later, Quiet
    <2>2. \A f \in server', e \in q' :
            f.id[2] = e.seq => f.photo = e.photo \/ f.id[1] < ResolveTime(e)'
      BY DEF Ids, Later, Quiet, ResolveTime
    <2>3. drain'.pc \in {"dating", "sending"} => drain' = drain
      BY IdleOK DEF Quiet
    <2>4. QED
      BY <2>1, <2>2, <2>3 DEF Ids, Later, Quiet
  <1>5. IdsUnique' /\ FiledOnce'
    BY DEF Ids, Timed, IdsUnique, FiledOnce, Quiet, SameTaken
  <1>6. OneId'
    <2>1. drain'.pc \in {"dating", "sending"} => drain' = drain
      BY IdleOK DEF Quiet
    <2>2. drain.pc \in {"dating", "sending"} => taken'[drain.photo] = taken[drain.photo]
      <3>1. drain.pc \in {"dating", "sending"} => drain.photo \in 1 .. Len(taken)
        BY Bounds DEF Ids, Holds
      <3>2. QED
        BY <3>1, Zenon DEF Quiet, SameTaken
    <2>3. \A e \in q : taken'[e.photo] = taken[e.photo]
      BY DEF Ids, Queued, Quiet, SameTaken
    <2>4. \A f \in server : taken'[f.photo] = taken[f.photo]
      BY DEF Ids, Timed, Quiet, SameTaken
    <2>5. drain'.pc = "dating" => ~taken'[drain'.photo].dated
      BY <2>1, <2>2, Zenon DEF Ids, OneId
    <2>6. drain'.pc = "sending" =>
            \A e \in q' : e.photo = drain'.photo /\ taken'[e.photo].dated => e.stamp = drain'.stamp
      BY <2>1, <2>3 DEF Ids, OneId, Quiet
    <2>7. \A f \in server' : taken'[f.photo].dated =>
            /\ \A e \in q' : e.photo = f.photo => f.id = CaptureId(e.stamp, e.seq)
            /\ drain'.pc = "sending" /\ drain'.photo = f.photo
                 => f.id = CaptureId(drain'.stamp, drain'.seq)
      BY <2>1, <2>4 DEF Ids, OneId, Quiet
    <2>8. QED
      BY <2>5, <2>6, <2>7 DEF OneId
  <1>7. QED
    BY <1>1, <1>2, <1>3, <1>4, <1>5, <1>6 DEF Ids

LEMMA PickIds == ASSUME Types, Ids, Pick PROVE Ids'
  <1>1. UNCHANGED <<q, server, taken, nextSeq, now, on>>
    BY DEF Pick, DrainKeeps
  <1>2. Oldest(q) \in Seqs /\ (\E e \in q : e.seq = Oldest(q)) /\ \A e \in q : Oldest(q) <= e.seq
    BY OldestOK DEF Pick, ReadyToDrain, Types
  <1>3. /\ drain'.pc = "picked" /\ drain'.seq = Oldest(q)
        /\ drain'.photo = 0 /\ drain'.stamp = 0
    BY <1>2, PickOK DEF Pick
  <1>4. Queued' /\ IdsUnique' /\ FiledOnce'
    BY <1>1 DEF Ids, Queued, IdsUnique, FiledOnce
  <1>5. Holds'
    BY <1>1, <1>2, <1>3, Numbers DEF Ids, Queued, Holds
  <1>6. Timed'
    BY <1>1, <1>3, Numbers DEF Ids, Timed
  <1>7. Later'
    BY <1>1, <1>3 DEF Ids, Later, ResolveTime
  <1>8. OneId'
    BY <1>1, <1>3 DEF Ids, OneId
  <1>9. QED
    BY <1>4, <1>5, <1>6, <1>7, <1>8 DEF Ids

(* The drain reads: its number names the photo it finds, under the lock or *)
(* not, since a number in use is not given out again.                      *)
LEMMA LearnsIds ==
    ASSUME Types, Ids, Learns, drain' # IdleDrain, drain.pc = "picked",
           UNCHANGED <<q, server, taken, nextSeq, now, on>>
    PROVE  Ids'
  <1> USE Numbers
  <1>1. Queued' /\ IdsUnique' /\ FiledOnce'
    BY DEF Ids, Queued, IdsUnique, FiledOnce
  <1>2. CASE /\ At(q, drain.seq) = {} /\ SameEntry /\ drain'.pc = "discard"
    <2>1. \A e \in q : e.seq # drain.seq
      BY <1>2 DEF At
    <2>2. \A e \in q : e.seq > drain.seq
      BY <2>1 DEF Ids, Holds
    <2>3. Holds'
      BY <1>2, <2>2 DEF Ids, Holds, SameEntry
    <2>4. Timed' /\ Later' /\ OneId'
      BY <1>2 DEF Ids, Timed, Later, OneId, SameEntry, ResolveTime
    <2>5. QED
      BY <1>1, <2>3, <2>4 DEF Ids
  <1>3. ASSUME NEW e \in q,
               /\ e.seq = drain.seq /\ drain'.seq = drain.seq /\ drain'.photo = e.photo
               /\ \/ drain'.pc \in {"discard", "reject"}
                     /\ drain'.stamp \in {drain.stamp, ResolveTime(e)}
                  \/ drain'.pc = "dating" /\ e.stamp = 0 /\ drain'.stamp = ResolveTime(e)
                  \/ drain'.pc = "sending" /\ e.stamp # 0 /\ drain'.stamp = ResolveTime(e)
        PROVE  Ids'
    <2>1. \A d \in q : d = e \/ (d.seq > e.seq /\ d.photo > e.photo)
      <3>1. \A d \in q : e.seq <= d.seq
        BY <1>3 DEF Ids, Holds
      <3>2. \A d \in q : d.seq = e.seq => d = e
        BY DEF Types, OneEach
      <3>3. \A d \in q : e.seq < d.seq => e.photo < d.photo
        BY DEF Ids, Queued
      <3>4. \A d \in q : d.seq \in Nat
        OBVIOUS
      <3>5. ASSUME NEW d \in q PROVE d = e \/ (d.seq > e.seq /\ d.photo > e.photo)
        <4>1. e.seq < d.seq \/ d.seq = e.seq
          BY <3>1, <3>4
        <4>2. QED
          BY <3>2, <3>3, <4>1
      <3>6. QED
        BY <3>5
    <2>2. ResolveTime(e) \in Nat \ {0} /\ ResolveTime(e) <= now
      BY DEF Ids, Timed, ResolveTime
    <2>3. e.seq < nextSeq /\ e.seq \in Seqs /\ e.photo <= Len(taken)
      BY DEF Ids, Queued, Types, Entries
    <2>4. Holds'
      BY <1>3, <2>1, <2>2, <2>3 DEF Holds
    <2>5. Timed'
      BY <1>3, <2>2 DEF Ids, Timed
    <2>6. Later'
      <3>1. drain'.pc \in {"dating", "sending"} => drain'.stamp = ResolveTime(e)
        BY <1>3
      <3>2. \A f \in server : f.id[2] = e.seq => f.photo = e.photo \/ f.id[1] < ResolveTime(e)
        BY DEF Ids, Later
      <3>3. \A f \in server', d \in q' :
              f.id[2] = d.seq => f.photo = d.photo \/ f.id[1] < ResolveTime(d)'
        BY DEF Ids, Later, ResolveTime
      <3>4. QED
        BY <1>3, <3>1, <3>2, <3>3 DEF Ids, Later
    <2>7. OneId'
      <3>1. drain'.pc = "dating" => ~taken[e.photo].dated
        BY <1>3 DEF Ids, Timed
      <3>2. drain'.pc = "sending" => drain'.stamp = e.stamp
        BY <1>3 DEF ResolveTime
      <3>3. \A d \in q : d.photo = e.photo => d = e
        BY <2>1
      <3>4. QED
        BY <1>3, <3>1, <3>2, <3>3 DEF Ids, OneId
    <2>8. QED
      BY <1>1, <2>4, <2>5, <2>6, <2>7 DEF Ids
  <1>4. QED
    BY <1>2, <1>3 DEF Learns, SameEntry

(* The time is written back, or not, and the drain goes on, or not.        *)
LEMMA DatesIds ==
    ASSUME Types, Types', Fits, Ids, drain.pc = "dating", q' \in {q, Dated}, r' = r,
           drain' \in {IdleDrain, Step("sending")},
           UNCHANGED <<server, taken, nextSeq, now, on>>
    PROVE  Ids'
  <1> USE Numbers
  <1>1. \A e \in q' : \/ e \in q
                      \/ e.stamp = drain.stamp /\ e.seq = drain.seq
                         /\ \E d \in q : d.seq = drain.seq /\ d.photo = e.photo
    BY DatedOK
  <1>2. \A e \in q' : \E d \in q : d.seq = e.seq /\ d.photo = e.photo
    BY <1>1
  <1>3. \/ drain'.pc = "idle" /\ drain'.photo = 0 /\ drain'.stamp = 0
        \/ drain'.pc = "sending" /\ SameEntry
    <2>1. "sending" \in DrainPcs /\ drain \in DrainType
      BY DEF DrainPcs, Types, DrainType
    <2>2. CASE drain' = IdleDrain
      BY <2>2, IdleOK, Zenon
    <2>3. CASE drain' = Step("sending")
      BY <2>1, <2>3, StepOK DEF SameEntry
    <2>4. QED
      BY <2>2, <2>3
  <1>4. drain.photo \in Photos /\ drain.stamp > 0 /\ drain.stamp <= now
        /\ ~taken[drain.photo].dated
    BY DEF Ids, Holds, Timed, OneId
  <1>5. Queued'
    BY <1>2 DEF Ids, Queued
  <1>6. Holds'
    BY <1>2, <1>3, <1>4 DEF Ids, Holds, SameEntry
  <1>7. Timed'
    BY <1>1, <1>3, <1>4 DEF Ids, Timed, SameEntry
  <1>8. Later'
    <2>1. ASSUME NEW f \in server, NEW e \in q', f.id[2] = e.seq, f.photo # e.photo
          PROVE  f.id[1] < ResolveTime(e)'
      <3>1. CASE e \in q
        BY <2>1, <3>1 DEF Ids, Later, ResolveTime
      <3>2. CASE e.stamp = drain.stamp /\ e.seq = drain.seq
        <4>1. e.photo = drain.photo
          BY <1>2, <3>2 DEF Ids, Holds
        <4>2. f.id[1] < drain.stamp
          BY <2>1, <3>2, <4>1 DEF Ids, Later
        <4>3. QED
          BY <1>4, <3>2, <4>2 DEF ResolveTime
      <3>3. QED
        BY <1>1, <3>1, <3>2
    <2>2. QED
      BY <1>3, <2>1 DEF Ids, Later, SameEntry
  <1>9. OneId'
    <2>1. \A e \in q' : taken[e.photo].dated => e \in q
      BY <1>1, <1>4 DEF Ids, Holds
    <2>2. \A e \in q' : e.photo = drain.photo => ~taken[e.photo].dated
      BY <1>4
    <2>3. QED
      BY <1>3, <1>4, <2>1, <2>2 DEF Ids, OneId, SameEntry
  <1>10. IdsUnique' /\ FiledOnce'
    BY DEF Ids, IdsUnique, FiledOnce
  <1>11. QED
    BY <1>5, <1>6, <1>7, <1>8, <1>9, <1>10 DEF Ids

(* A photo is added: under a number that the drain does not hold, and at a *)
(* time later than all that was filed under it before a restart.           *)
LEMMA CommitIds == ASSUME Types, Fits, Runs, Ids, AddCommits PROVE Ids'
  <1> USE Numbers
  <1>1. UNCHANGED <<server, drain, now, on>> /\ on
    BY DEF AddCommits, Runs
  <1>2. PICK n \in Entries : /\ q' = q \cup {n} /\ n.seq = nextSeq /\ n.photo = Len(taken) + 1
                             /\ n.stamp = IF clock THEN now ELSE 0
    BY CommitOK DEF Ids
  <1>3. nextSeq' = nextSeq + 1
    BY CommitOK DEF Ids
  <1>4. /\ Len(taken') = Len(taken) + 1
        /\ \A i \in 1 .. Len(taken) : taken'[i] = taken[i]
        /\ taken'[Len(taken) + 1].dated = clock
    <2>1. PICK x \in Photo : taken' = Append(taken, x) /\ x.dated = clock
      BY CommitOK DEF Ids
    <2>2. Len(taken) < MaxPhotos
      BY CommitOK DEF Ids
    <2>3. QED
      BY <2>1, <2>2, TakenOK
  <1>5. \A e \in q : e.photo \in 1 .. Len(taken) /\ taken'[e.photo] = taken[e.photo]
    BY <1>4 DEF Ids, Queued
  <1>6. \A f \in server : f.photo \in 1 .. Len(taken) /\ taken'[f.photo] = taken[f.photo]
    BY <1>4 DEF Ids, Timed
  <1>7. ResolveTime(n) = now /\ (clock => n.stamp > 0) /\ n.stamp <= now
    BY <1>2 DEF ResolveTime
  <1>8. Queued'
    BY <1>2, <1>3, <1>4 DEF Ids, Queued
  <1>9. Holds'
    BY <1>1, <1>2, <1>3, <1>4 DEF Ids, Holds
  <1>10. Timed'
    <2>1. \A e \in q : e.stamp <= now' /\ (taken'[e.photo].dated => e.stamp > 0)
      BY <1>1, <1>5 DEF Ids, Timed
    <2>2. n.stamp <= now' /\ (taken'[n.photo].dated => n.stamp > 0)
      BY <1>1, <1>2, <1>4, <1>7
    <2>3. \A f \in server' : f.photo <= Len(taken') /\ f.id[1] <= now'
      BY <1>1, <1>4 DEF Ids, Timed
    <2>4. drain'.stamp <= now'
      BY <1>1 DEF Ids, Timed
    <2>5. QED
      BY <1>2, <2>1, <2>2, <2>3, <2>4 DEF Timed
  <1>11. Later'
    <2>1. \A f \in server : f.id[2] = n.seq => f.id[1] < ResolveTime(n)
      BY <1>1, <1>2, <1>7 DEF Ids, Later
    <2>2. \A f \in server', e \in q' :
            f.id[2] = e.seq => f.photo = e.photo \/ f.id[1] < ResolveTime(e)'
      BY <1>1, <1>2, <2>1 DEF Ids, Later, ResolveTime
    <2>3. QED
      BY <1>1, <1>3, <2>2 DEF Ids, Later
  <1>12. OneId'
    <2>1. drain.pc \in {"dating", "sending"} => drain.photo \in 1 .. Len(taken)
      BY Bounds DEF Ids, Holds
    <2>2. drain'.pc = "dating" => ~taken'[drain'.photo].dated
      BY <1>1, <1>4, <2>1 DEF Ids, OneId
    <2>3. drain'.pc = "sending" =>
            \A e \in q' : e.photo = drain'.photo /\ taken'[e.photo].dated => e.stamp = drain'.stamp
      BY <1>1, <1>2, <1>5, <2>1 DEF Ids, OneId
    <2>4. \A f \in server' : taken'[f.photo].dated =>
            /\ \A e \in q' : e.photo = f.photo => f.id = CaptureId(e.stamp, e.seq)
            /\ drain'.pc = "sending" /\ drain'.photo = f.photo
                 => f.id = CaptureId(drain'.stamp, drain'.seq)
      BY <1>1, <1>2, <1>6 DEF Ids, OneId
    <2>5. QED
      BY <2>2, <2>3, <2>4 DEF OneId
  <1>13. IdsUnique' /\ FiledOnce'
    BY <1>1, <1>6 DEF Ids, IdsUnique, FiledOnce
  <1>14. QED
    BY <1>8, <1>9, <1>10, <1>11, <1>12, <1>13 DEF Ids

(* The server files the photo on the wire, whatever the drain hears of it. *)
LEMMA FilesIds ==
    ASSUME Types, Ids, drain.pc = "sending", on, ServerFiles,
           drain' = Step("filed") \/ drain' = IdleDrain,
           UNCHANGED <<q, taken, nextSeq, now, on>>
    PROVE  Ids'
  <1> USE Numbers
  <1>1. PICK n \in [photo : Photos, id : Times \X Seqs] :
              /\ server' = server \cup {n} /\ n.photo = drain.photo
              /\ n.id = CaptureId(drain.stamp, drain.seq)
              /\ n.id[1] = drain.stamp /\ n.id[2] = drain.seq
    BY ServerFilesOK DEF Ids
  <1>2. \/ drain'.pc = "filed" /\ SameEntry
        \/ drain'.pc = "idle" /\ drain'.seq = 0 /\ drain'.photo = 0 /\ drain'.stamp = 0
    <2>1. "filed" \in DrainPcs /\ drain \in DrainType
      BY DEF DrainPcs, Types, DrainType
    <2>2. CASE drain' = IdleDrain
      BY <2>2, IdleOK, Zenon
    <2>3. CASE drain' = Step("filed")
      BY <2>1, <2>3, StepOK DEF SameEntry
    <2>4. QED
      BY <2>2, <2>3
  <1>3. /\ drain.seq < nextSeq /\ drain.photo <= Len(taken) /\ drain.photo \in Photos
        /\ drain.stamp > 0 /\ drain.stamp <= now
    BY DEF Ids, Holds, Timed
  <1>4. \A e \in q : \/ e.seq = drain.seq /\ e.photo = drain.photo
                     \/ e.seq > drain.seq /\ e.photo > drain.photo
    BY DEF Ids, Holds
  <1>5. Queued'
    BY DEF Ids, Queued
  <1>6. Holds'
    BY <1>1, <1>2, <1>3, <1>4 DEF Holds, SameEntry
  <1>7. Timed'
    BY <1>1, <1>2, <1>3 DEF Ids, Timed, SameEntry
  <1>8. Later'
    <2>1. \A f \in server' : f.id[2] >= nextSeq' => f.id[1] < now'
      BY <1>1, <1>3 DEF Ids, Later
    <2>2. \A f \in server', e \in q' :
            f.id[2] = e.seq => f.photo = e.photo \/ f.id[1] < ResolveTime(e)'
      BY <1>1, <1>4 DEF Ids, Later, ResolveTime
    <2>3. QED
      BY <1>2, <2>1, <2>2 DEF Later
  <1>9. OneId'
    <2>1. taken[drain.photo].dated =>
            \A e \in q : e.photo = drain.photo => n.id = CaptureId(e.stamp, e.seq)
      BY <1>1, <1>4 DEF Ids, OneId
    <2>2. QED
      BY <1>1, <1>2, <2>1 DEF Ids, OneId
  <1>10. IdsUnique'
    <2>1. \A f \in server : f.id = n.id => f.photo = n.photo
      BY <1>1 DEF Ids, Later
    <2>2. QED
      BY <1>1, <2>1 DEF Ids, IdsUnique
  <1>11. FiledOnce'
    <2>1. \A f \in server : taken[f.photo].dated /\ f.photo = n.photo => f.id = n.id
      BY <1>1 DEF Ids, OneId
    <2>2. QED
      BY <1>1, <2>1 DEF Ids, FiledOnce
  <1>12. QED
    BY <1>5, <1>6, <1>7, <1>8, <1>9, <1>10, <1>11 DEF Ids

-----------------------------------------------------------------------------
(* Every step.                                                             *)

LEMMA QuietNext ==
    ASSUME Types, Runs, Ids,
           \/ AddStarts \/ AddDrops \/ AddFails \/ Unlink \/ RejectEntry
           \/ Restart \/ Boot \/ GotIp \/ NetDown \/ Sntp \/ BackoffExpires \/ Tick
    PROVE  Quiet
  <1> USE Numbers
  <1>1. UNCHANGED taken => SameTaken
    BY DEF SameTaken
  <1>2. CASE AddStarts \/ AddDrops \/ Unlink \/ RejectEntry
    BY <1>1, <1>2 DEF Quiet, AddStarts, AddDrops, Unlink, RejectEntry, Remove, DrainKeeps
  <1>3. CASE AddFails
    <2> DEFINE x == [whole |-> TRUE, dated |-> clock]
    <2>1. x \in Photo
      BY DEF Photo, Types, Flags
    <2>2. taken' = Append(taken, x) /\ Len(taken) < MaxPhotos
      BY <1>3 DEF AddFails, Runs
    <2> HIDE DEF x
    <2>3. SameTaken
      BY <2>1, <2>2, TakenOK DEF SameTaken
    <2>4. UNCHANGED <<q, drain, nextSeq, server, on, now>>
      BY <1>3 DEF AddFails
    <2>5. QED
      BY <2>3, <2>4 DEF Quiet
  <1>4. CASE Restart \/ GotIp \/ NetDown \/ Sntp \/ BackoffExpires \/ Tick
    BY <1>1, <1>4 DEF Quiet, Restart, GotIp, NetDown, Sntp, BackoffExpires, Tick
  <1>5. CASE Boot
    <2>1. \A e \in q : e.seq < nextSeq'
      BY <1>5, NextAfterOK DEF Boot, Types
    <2>2. drain'.pc = "idle" /\ now' = now + 1
      BY <1>5 DEF Boot, Runs
    <2>3. QED
      BY <1>1, <1>5, <2>1, <2>2 DEF Quiet, Boot
  <1>6. QED
    BY <1>2, <1>3, <1>4, <1>5

LEMMA LetsGo ==
    ASSUME Types, Types', Ids, drain' = IdleDrain, UNCHANGED <<q, server, taken, nextSeq, now, on>>
    PROVE  Ids'
  BY QuietOK, Numbers DEF Quiet, SameTaken

LEMMA UploadIds == ASSUME Types, Types', Ids, UploadSettled \/ UploadFails PROVE Ids'
  <1>1. /\ UNCHANGED <<q, taken, nextSeq, now, on>>
        /\ drain.pc = "sending" /\ on
    BY DEF UploadSettled, UploadFails, DrainAt, DrainKeeps
  <1>2. CASE ServerFiles /\ drain' \in {Step("filed"), IdleDrain}
    BY <1>1, <1>2, FilesIds
  <1>3. CASE drain' = IdleDrain /\ UNCHANGED server
    BY <1>1, <1>3, LetsGo
  <1>4. CASE drain' = Step("reject") /\ UNCHANGED server
    <2>1. "reject" \in DrainPcs /\ drain \in DrainType
      BY DEF DrainPcs, Types, DrainType
    <2>2. SameEntry /\ drain'.pc = "reject"
      BY <1>4, <2>1, StepOK DEF SameEntry
    <2>3. Quiet
      BY <1>1, <1>4, <2>2, Numbers DEF Quiet, SameTaken
    <2>4. QED
      BY <2>3, QuietOK
  <1>5. QED
    BY <1>2, <1>3, <1>4 DEF UploadSettled, UploadFails

LEMMA DrainIds ==
    ASSUME Types, Types', Fits, Ids, Inspect \/ ReadFails \/ WriteBack \/ WriteBackFails
    PROVE  Ids'
  <1>1. CASE Inspect \/ ReadFails
    <2>1. Learns
      BY <1>1, InspectOK, ReadFailsOK
    <2>2. drain.pc = "picked" /\ UNCHANGED <<q, server, taken, nextSeq, now, on>>
      BY <1>1 DEF Inspect, ReadFails, DrainAt, DrainKeeps
    <2>3. QED
      BY <2>1, <2>2, LearnsIds, LetsGo
  <1>2. CASE WriteBack \/ WriteBackFails
    <2>1. drain.pc = "dating" /\ UNCHANGED <<r, server, taken, nextSeq, now, on>>
      BY <1>2 DEF WriteBack, WriteBackFails, DrainAt, DrainKeeps
    <2>2. drain' \in {IdleDrain, Step("sending")} /\ q' \in {q, Dated}
      BY <1>2, Zenon DEF WriteBack, WriteBackFails
    <2>3. QED
      BY <2>1, <2>2, DatesIds
  <1>3. QED
    BY <1>1, <1>2

LEMMA NextOK == ASSUME IInv, [Next]_vars PROVE IInv'
  <1>1. CASE Next
    <2>1. Types' /\ Fits' /\ Runs'
      BY <1>1, TypesNext DEF IInv, Ids
    <2>2. Ids'
      <3>1. CASE AddCommits
        BY <3>1, CommitIds DEF IInv
      <3>2. CASE Pick
        BY <3>2, PickIds DEF IInv
      <3>3. CASE Inspect \/ ReadFails \/ WriteBack \/ WriteBackFails
        BY <2>1, <3>3, DrainIds DEF IInv
      <3>4. CASE UploadSettled \/ UploadFails
        BY <2>1, <3>4, UploadIds DEF IInv
      <3>5. CASE \/ AddStarts \/ AddDrops \/ AddFails \/ Unlink \/ RejectEntry
                 \/ Restart \/ Boot \/ GotIp \/ NetDown \/ Sntp \/ BackoffExpires \/ Tick
        BY <2>1, <3>5, QuietNext, QuietOK DEF IInv
      <3>6. QED
        BY <1>1, <3>1, <3>2, <3>3, <3>4, <3>5 DEF Next
    <2>3. QED
      BY <2>1, <2>2 DEF IInv
  <1>2. CASE UNCHANGED vars
    BY <1>2 DEF vars, IInv, Types, Flags, OneEach, Fits, Runs, Ids, Queued, Holds, Timed, Later,
       ResolveTime, IdsUnique, OneId, FiledOnce
  <1>3. QED
    BY <1>1, <1>2

LEMMA InitOK == Init => IInv
  <1> SUFFICES ASSUME Init PROVE IInv
    OBVIOUS
  <1>1. /\ q = {} /\ r = {} /\ server = {} /\ taken = << >> /\ nextSeq = 1 /\ now = 1
        /\ on = TRUE /\ adding = FALSE /\ tokenBad = FALSE /\ waiting = FALSE
        /\ net = FALSE /\ clock = FALSE /\ drain = IdleDrain
    BY DEF Init
  <1>2. Types
    <2>1. Flags /\ OneEach(q) /\ OneEach(r) /\ IsFiniteSet(q) /\ IsFiniteSet(r)
      BY <1>1, FS_EmptySet DEF Flags, OneEach
    <2>2. drain \in DrainType
      BY <1>1, IdleOK
    <2>3. nextSeq \in Seqs /\ now \in Times \ {0} /\ Len(taken) <= MaxPhotos
      BY <1>1, Bounds
    <2>4. taken \in Seq([whole : BOOLEAN, dated : BOOLEAN])
      BY <1>1
    <2>5. QED
      BY <1>1, <2>1, <2>2, <2>3, <2>4 DEF Types, DrainType
  <1>3. Fits
    BY <1>1, FS_EmptySet, Bounds DEF Fits
  <1>4. Runs /\ Queued /\ Holds /\ Timed
    BY <1>1, IdleOK DEF Runs, Queued, Holds, Timed
  <1>5. Later /\ IdsUnique /\ OneId /\ FiledOnce
    BY <1>1, IdleOK DEF Later, IdsUnique, OneId, FiledOnce
  <1>6. QED
    BY <1>2, <1>3, <1>4, <1>5 DEF IInv, Ids

-----------------------------------------------------------------------------
(* What a step takes out of q/, and what it files.                         *)

Accounted(e) ==
    \/ \E f \in server' : f.photo = e.photo
    \/ adding /\ Full /\ e.seq = Min(SeqsOf(q))
    \/ drain.pc \in {"reject", "discard"} /\ drain.photo = e.photo

LEMMA DatedKeeps ==
    ASSUME Types, q' \in {q, Dated}
    PROVE  \A e \in q : e.photo \in PhotosIn(q')
  <1>1. ASSUME NEW e \in q, q' = Dated PROVE e.photo \in PhotosIn(q')
    <2> DEFINE d == [e EXCEPT !.stamp = drain.stamp]
    <2>1. d.photo = e.photo
      BY Zenon DEF Types, Entries
    <2>2. e \in q' \/ d \in q'
      BY <1>1, Zenon DEF Dated, At
    <2> HIDE DEF d
    <2>3. QED
      BY <2>1, <2>2, Zenon DEF PhotosIn
  <1>2. QED
    BY <1>1, Zenon DEF PhotosIn

LEMMA KeptOK ==
    ASSUME IInv, Next, NEW e \in q, e.photo \notin PhotosIn(q')
    PROVE  Accounted(e)
  <1>1. e \notin q'
    BY Zenon DEF PhotosIn
  <1>2. CASE AddDrops
    BY <1>1, <1>2 DEF AddDrops, At, Oldest, Accounted
  <1>3. CASE Unlink \/ RejectEntry
    <2>1. e.seq = drain.seq /\ drain.pc \in {"filed", "discard", "reject"}
      BY <1>1, <1>3 DEF Unlink, RejectEntry, Remove, At, DrainAt
    <2>2. e.photo = drain.photo
      BY <2>1, Numbers DEF IInv, Ids, Holds
    <2>3. server' = server
      BY <1>3 DEF Unlink, RejectEntry
    <2>4. QED
      BY <2>1, <2>2, <2>3 DEF IInv, Ids, Holds, Accounted
  <1>4. CASE WriteBack \/ WriteBackFails
    <2>1. q' \in {q, Dated}
      BY <1>4, Zenon DEF WriteBack, WriteBackFails
    <2>2. QED
      BY <2>1, DatedKeeps DEF IInv
  <1>5. CASE AddCommits
    BY <1>1, <1>5, CommitOK DEF IInv, Ids
  <1>6. CASE \/ AddStarts \/ AddFails \/ Pick \/ Inspect \/ ReadFails \/ UploadSettled
             \/ UploadFails \/ Restart \/ Boot \/ GotIp \/ NetDown \/ Sntp \/ BackoffExpires \/ Tick
    BY <1>1, <1>6 DEF AddStarts, AddFails, Pick, Inspect, ReadFails, UploadSettled, UploadFails,
       Restart, Boot, GotIp, NetDown, Sntp, BackoffExpires, Tick
  <1>7. QED
    BY <1>2, <1>3, <1>4, <1>5, <1>6 DEF Next

LEMMA OrderOK ==
    ASSUME IInv, Next, NEW f \in server' \ server, NEW e \in q
    PROVE  e.photo >= f.photo
  <1>1. CASE (UploadSettled \/ UploadFails) /\ ServerFiles
    <2>1. drain.pc = "sending"
      BY <1>1 DEF UploadSettled, UploadFails, DrainAt
    <2>2. f.photo = drain.photo
      BY <1>1, <2>1, ServerFilesOK DEF IInv, Ids
    <2>3. QED
      BY <2>1, <2>2, Numbers DEF IInv, Ids, Holds
  <1>2. CASE UNCHANGED server
    BY <1>2
  <1>3. QED
    BY <1>1, <1>2 DEF Next, AddStarts, AddDrops, AddCommits, AddFails, Pick, Inspect, ReadFails,
       WriteBack, WriteBackFails, UploadSettled, UploadFails, Unlink, RejectEntry,
       Restart, Boot, GotIp, NetDown, Sntp, BackoffExpires, Tick

-----------------------------------------------------------------------------
(* The inductive invariant of every behaviour: the drain's number names    *)
(* the photo it has read, and a number used again goes with a later time.  *)
THEOREM InvariantOK == Spec => []IInv
  BY InitOK, NextOK, PTL DEF Spec

(* Every variable keeps its type, each directory has a number once, r/ is  *)
(* no larger than REJECTED_MAX and the partition is not overrun            *)
(* (mirror_spool_add, reject_entry).                                       *)
THEOREM TypeCorrect == Spec => []TypeOK
  <1>1. IInv => TypeOK
    BY Zenon DEF IInv, Types, Flags, OneEach, Fits, TypeOK
  <1>2. QED
    BY InvariantOK, <1>1, PTL

(* No id names two photos, though numbers are used again after a restart   *)
(* (capture_id_for, mirror_spool_start).                                   *)
THEOREM IdsAreUnique == Spec => []IdsUnique
  <1>1. IInv => IdsUnique
    BY DEF IInv, Ids
  <1>2. QED
    BY InvariantOK, <1>1, PTL

(* A photo dated at capture is filed under one id, however often it is     *)
(* sent (drain_one).                                                       *)
THEOREM FiledUnderOneId == Spec => []FiledOnce
  <1>1. IInv => FiledOnce
    BY DEF IInv, Ids
  <1>2. QED
    BY InvariantOK, <1>1, PTL

(* A photo leaves the queue filed, as the oldest of a full spool, or as    *)
(* the one the drain itself read (drain_one, mirror_spool_add).            *)
THEOREM PhotosAreKept == Spec => KeptUntilFiled
  <1>1. IInv /\ [Next]_vars
          => [\A e \in q : e.photo \notin PhotosIn(q') =>
                \/ \E f \in server' : f.photo = e.photo
                \/ adding /\ Full /\ e.seq = Min(SeqsOf(q))
                \/ drain.pc \in {"reject", "discard"} /\ drain.photo = e.photo]_vars
    BY KeptOK DEF Accounted
  <1>2. QED
    BY InvariantOK, <1>1, PTL DEF Spec, KeptUntilFiled

(* No photo is filed while an older one waits (oldest_seq, drain_one).     *)
THEOREM OldestGoesFirst == Spec => OldestFirst
  <1>1. IInv /\ [Next]_vars
          => [\A f \in server' \ server : \A e \in q : e.photo >= f.photo]_vars
    BY OrderOK
  <1>2. QED
    BY InvariantOK, <1>1, PTL DEF Spec, OldestFirst
=============================================================================
