---------------------------- MODULE UpgradeClaims ----------------------------
(***************************************************************************)
(* What the comments of the upgrade code say of it and TLC refutes, as a   *)
(* property of AppUpgrade.                                                 *)
(***************************************************************************)
EXTENDS AppUpgrade

\* "rollback on failure" (app_upgrade.py:266): an upgrade or restore that fails
\* leaves the region and the console on the same version.  The calls of the region
\* that change something and raise, a rollback() that raises or comes late, workers
\* that die and deadlines passed are left aside; the plugin and the record are not.
RolledBackOnFailure ==
    AllIdle /\ parted \subseteq {"plugin", "record"} => region = console
=============================================================================
