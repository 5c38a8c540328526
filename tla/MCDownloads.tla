---------------------------- MODULE MCDownloads ----------------------------
(* Two files, any expectation of them, and time for both silences.          *)
EXTENDS Downloads
CONSTANTS f1, f2
MCFile == {f1, f2}
=============================================================================
