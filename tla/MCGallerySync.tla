--------------------------- MODULE MCGallerySync ---------------------------
(* Instances of GallerySync for TLC: all faces belong to one person.        *)
EXTENDS GallerySync

CONSTANT p1

MCPersonOf == [g \in 1..N |-> p1]
============================================================================
