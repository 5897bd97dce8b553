----------------------------- MODULE MCMigration -----------------------------
(***************************************************************************)
(* Four inodes in batches of two: a migration persists its cursor twice,   *)
(* so that it can be interrupted before, between and after the batches.    *)
(***************************************************************************)
EXTENDS Migration
==============================================================================
