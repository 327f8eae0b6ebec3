--------------------------------- MODULE Faces ---------------------------------
(***************************************************************************)
(* Who is in a photograph (face_matching.rs, the completion of an analysis *)
(* in processing.rs, assign_faces in face_admin.rs).  A photograph shows   *)
(* one face or none; which enrolled person a face resembles most is any of *)
(* them or nobody.  An enrolled person has enough photographs confirmed by *)
(* hand, or taken to enroll them; that the former must be of three days is *)
(* left out.                                                               *)
(***************************************************************************)
EXTENDS Household

CONSTANT MinExamples \* photographs that enroll a person (5)

ASSUME ExamplesAssumption == MinExamples \in Nat \ {0}

VARIABLE faces \* faces: the person and the identity_source of the photo's face

(* identity_state follows from the source: "manual" and "enrollment" are   *)
(* confirmed, "match" is proposed, the others are unknown.                 *)
Sources   == {"none", "match", "manual", "enrollment", "rejected", "dismissed"}
Face      == [person : People \cup {Absent}, source : Sources]
Confirmed == {"manual", "enrollment"}
Unknown   == [person |-> Absent, source |-> "none"]
By(source, p) == [person |-> p, source |-> source]

Shown == {x \in Photos : faces[x] # Absent}

(* Mutant: a suggestion teaches like a confirmed label.                    *)
BugTaughtBySuggestions(F, p) ==
    {x \in Photos : photos[x] # Absent /\ F[x] # Absent
                    /\ F[x].source \in Confirmed \cup {"match"} /\ F[x].person = p}
Examples(F, p) ==
    {x \in Photos : photos[x] # Absent /\ F[x] # Absent
                    /\ F[x].source \in Confirmed /\ F[x].person = p}
Enrolled(F) == {p \in People : Cardinality(Examples(F, p)) >= MinExamples}

(* Mutant: whatever nobody confirmed is matched again.                     *)
BugOpensRejected(F, X) == {x \in X : F[x] # Absent /\ F[x].source \notin Confirmed}
Candidates(F, X) == {x \in X : F[x] # Absent /\ F[x].source \in {"none", "match"}}

(* best_match: an enrolled person, or nobody close enough.                 *)
BestMatch(F) == Enrolled(F) \cup {Absent}

(* propose, in the transaction of its caller, for the photos X.            *)
Propose(F, X) ==
    \E match \in [Candidates(F, X) -> BestMatch(F)] :
        faces' = [x \in Photos |->
                     IF x \notin Candidates(F, X) THEN F[x]
                     ELSE IF match[x] = Absent THEN Unknown ELSE By("match", match[x])]

(* complete: the face of an enrollment capture is that person's.           *)
EnrollmentPerson(x) == IF photos[x] = Absent THEN Absent ELSE photos[x].person
Found(x, one) ==
    [faces EXCEPT ![x] = IF ~one THEN Absent
                         ELSE IF EnrollmentPerson(x) = Absent THEN Unknown
                         ELSE By("enrollment", EnrollmentPerson(x))]
Complete(x, one) ==
    /\ x \in jobs /\ jobs' = jobs \ {x} /\ Propose(Found(x, one), {x})
    /\ UNCHANGED <<accounts, homes, cameras, photos, objects, granted, owner>>

(* assign_faces: one label, then everything is matched again.              *)
Labels(p) == IF p = Absent THEN {By("rejected", Absent), By("dismissed", Absent)}
             ELSE {By("manual", p)}
AssignFace(x, p) ==
    /\ x \in Shown /\ p \in people \cup {Absent}
    /\ \E label \in Labels(p) : Propose([faces EXCEPT ![x] = label], Photos)
    /\ UNCHANGED <<accounts, catalog>>
RefreshFaceSuggestions ==
    /\ Propose(faces, Photos) /\ UNCHANGED <<accounts, catalog>>

FaceStep(x) == \E one \in BOOLEAN : Complete(x, one)
FaceEvents  == RefreshFaceSuggestions
               \/ \E x \in Photos, p \in People \cup {Absent} : AssignFace(x, p)
=============================================================================
