---------------------------- MODULE MCMigrations ----------------------------
(***************************************************************************)
(* Instances of Migrations: a release of two migrations, and a build whose *)
(* only one is an edited copy of the first.                                *)
(***************************************************************************)
EXTENDS Migrations

CONSTANTS r1, r2, r3

MCBody     == [base |-> {"photos"}, next |-> {"requests"}, edited |-> {"photos", "requests"}]
MCBuilds   == {<<"base", "next">>, <<"edited">>}
MCHolderOf == [r \in Runners |-> r]
=============================================================================
