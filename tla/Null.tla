-------------------------------- MODULE Null --------------------------------
(* The null pointer of the modules that model C structures.                *)
CONSTANT NULL
=============================================================================
