--------------------------- MODULE MCCollectionRun ---------------------------
(* Small runs over a few tasks for TLC. *)
EXTENDS CollectionRun

\* --capture is given each time.
MCAlways == {TRUE}
==============================================================================
