---------------------------- MODULE MCActivePool ----------------------------
(***************************************************************************)
(* Small instances of ActivePool; the .cfg files give its constants values.  *)
(***************************************************************************)
EXTENDS ActivePool

=============================================================================
