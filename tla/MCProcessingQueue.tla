------------------------- MODULE MCProcessingQueue -------------------------
(***************************************************************************)
(* Instances of ProcessingQueue for TLC.                                   *)
(***************************************************************************)
EXTENDS ProcessingQueue, TLC

(* Two JPEGs of equal size, so that a changed byte count does not give
   every rotation away.                                                    *)
MCSizeOf == [r \in Revs |-> IF r = 0 THEN 1 ELSE r]

MCSymmetry == Permutations(Hosted) \cup Permutations(Editors)
=============================================================================
