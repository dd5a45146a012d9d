------------------------------- MODULE Absence -------------------------------
(* The one value that stands for a missing row, key or reference: Python's  *)
(* None and SQL's NULL.                                                     *)
CONSTANT None
=============================================================================
