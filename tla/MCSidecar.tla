------------------------------ MODULE MCSidecar -----------------------------
(* Small instances of Sidecar: their constants are in the .cfg files.      *)
EXTENDS Sidecar
=============================================================================
