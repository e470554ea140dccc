--------------------------- MODULE MCAdminSession ---------------------------
(* Small instances of AdminSession for TLC. *)
EXTENDS AdminSession
=============================================================================
