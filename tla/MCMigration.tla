----------------------------- MODULE MCMigration -----------------------------
(* The migrations of the repository, and one version without a file.       *)
EXTENDS Migration, TLC

CONSTANTS r1, r2

V220 == <<2, 2, 0>>
V229 == <<2, 2, 9>>
V2211 == <<2, 2, 11>>
V300 == <<3, 0, 0>>

MCInitialVersion == <<2, 1, 9>>

\* In the order of the versions, as the files of the repository are.
MCVersions == {V220, V229, V2211, V300}
MCTimestamp == (V220 :> 1) @@ (V229 :> 2) @@ (V2211 :> 3) @@ (V300 :> 0)

Mode(servers, known, commands, faults) ==
  [runners |-> servers, versions |-> known, commands |-> commands, faults |-> faults]

\* A server that boots and crashes, or whose saves fail as well; one runner with
\* every command, of migrations that fail; and two runners at once.
MCModes ==
  {Mode({r1}, MCVersions, {"boot"}, {"crash"}),
   Mode({r1}, MCVersions, {"boot"}, {"body", "db", "crash"}),
   Mode({r1}, MCVersions, {"boot", "all", "one"}, {"body"}),
   Mode({r1, r2}, {V229, V2211}, {"boot", "all"}, {"body", "silent", "db", "crash"})}

FailingBoot == {Mode({r1}, MCVersions, {"boot"}, {"body"})}

=============================================================================
