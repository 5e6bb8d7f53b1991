------------------------------- MODULE Absent -------------------------------
(* What an optional value is when it is not there: Option::None, a missing   *)
(* row or file.  The components whose theorems share a module share it.      *)
CONSTANT None
=============================================================================
