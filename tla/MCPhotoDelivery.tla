--------------------------- MODULE MCPhotoDelivery ---------------------------
(* Values of PhotoDelivery's constants for TLC.                            *)
EXTENDS PhotoDelivery

CONSTANTS d1

MCPhotos     == 1..MaxPhotos
MCUnreadable == {1}
MCClients    == {"service", "cli"}
MCTokenOf    == [c \in MCClients |-> d1]
=============================================================================
