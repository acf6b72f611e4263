--------------------------- MODULE MCSourceControl ---------------------------
(***************************************************************************)
(* Two threads: one opens a pull request, the other does so or reads.      *)
(***************************************************************************)
EXTENDS SourceControl, TLC

CONSTANTS x1, x2

MCAsked == (x1 :> {"open_pr"}) @@ (x2 :> {"open_pr", "get_file_contents"})
=============================================================================
