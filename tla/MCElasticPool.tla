--------------------------- MODULE MCElasticPool ---------------------------
(* Instances of ElasticPool for TLC; the constants are in the .cfg files. *)
EXTENDS ElasticPool
=============================================================================
