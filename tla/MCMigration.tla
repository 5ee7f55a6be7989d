----------------------------- MODULE MCMigration -----------------------------
(* Two processes on one file. *)
EXTENDS Migration

CONSTANTS c1, c2, old1, old2, new1, new2, k

MCConnections == {c1, c2}
MCLegacyIds   == {old1, old2}
MCNewIds      == {new1, new2}
MCKeys        == {k, old1}
=============================================================================
