---------------------------- MODULE MC_CTFReader ----------------------------
(* Small instances of CTFReader for TLC.                                   *)
EXTENDS CTFReader

\* Three input files: two readable trees (2 and 1 entries) and one that
\* fails to open, so every branch of openCTFFile is taken in every loop.
MCFileEntries == <<2, 0, 1>>

\* select-ctf-ids lists: sorted IDs, and one whose last ID is the last TF
\* of the first loop.
MCCtfIDs == <<1, 2>>
MCCtfIDsLast == <<0, 2>>

\* "unbounded" max-tf / max-tf-per-file: above any counter the instance reaches
MCUnbounded == 100

MCNoIDs == << >>
=============================================================================
