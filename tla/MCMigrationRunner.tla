-------------------------- MODULE MCMigrationRunner -------------------------
EXTENDS MigrationRunner

CONSTANTS c1, c2

TwoContainers == {c1, c2}

(* Three releases: the second adds a data migration only, the third a schema *)
(* that this data migration must not run on.                                 *)
MCHistory == <<"schema", "data", "schema", "schema", "data", "schema">>
MCReleases == <<4, 5, 6>>
=============================================================================
