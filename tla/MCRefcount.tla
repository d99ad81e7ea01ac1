----------------------------- MODULE MCRefcount ------------------------------
(* Five blocks, up to four owners each, a root block of three records.     *)
EXTENDS Refcount
=============================================================================
