---------------------------- MODULE MCMigrations ----------------------------
(***************************************************************************)
(* A roll-out for TLC: a job of an old image and jobs of a new one, and    *)
(* a replica of each image.                                                *)
(***************************************************************************)
EXTENDS Migrations

CONSTANTS oldJob, newJob, oldApi, newApi

MCRunner == {oldJob, newJob}
MCServer == {oldApi, newApi}
MCImage == [x \in MCRunner \cup MCServer |-> IF x \in {oldJob, oldApi} THEN 2 ELSE 3]
MCTableFile == {1, 2}
=============================================================================
