------------------------------ MODULE MCArchive ------------------------------
(* Archive as it stands: its constants are model values and bounds.            *)
EXTENDS Archive
=============================================================================
