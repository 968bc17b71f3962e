------------------------------ MODULE Migration ------------------------------
(***************************************************************************)
(* Database migrations: MigrationService.                                  *)
(*                                                                         *)
(* A runner is a process of the API: a server that migrates when it boots, *)
(* or the command line.  Runners share the migrations collection and the   *)
(* db-version metadata; nothing keeps two of them from running at once.    *)
(* An action is the code between two awaits.                               *)
(***************************************************************************)
EXTENDS Naturals

CONSTANTS
  Runners,
  Versions,        \* versions <<major, minor, patch>> that are named or have files
  InitialVersion,  \* INITIAL_DB_VERSION
  Timestamp,       \* Timestamp[v] of the migration file of v, 0 without a file
  Modes            \* the ways to run considered; of each,
                   \* runners: who runs; versions: those there are;
                   \* commands: those given, "boot", "all", "one";
                   \* faults: "body": a migration fails or declines; "silent":
                   \* it does its work and returns nothing; "db": a save
                   \* fails; "crash": the process stops

Actions == {"up", "down"}

ASSUME FilesAssumption ==
  /\ Versions \subseteq Nat \X Nat \X Nat
  /\ InitialVersion \in Nat \X Nat \X Nat
  /\ InitialVersion \notin Versions
  /\ Timestamp \in [Versions -> Nat]
  /\ \A v, w \in Versions : Timestamp[v] = Timestamp[w] /\ Timestamp[v] > 0 => v = w
  /\ Modes \subseteq [runners : SUBSET Runners, versions : SUBSET Versions,
                      commands : SUBSET {"boot", "all", "one"},
                      faults : SUBSET {"body", "silent", "db", "crash"}]

VARIABLES
  mode,      \* the mode of this behaviour, which never changes
  status,    \* the migrations collection: status[v], "none" without a document
  dbVersion, \* the db-version metadata, InitialVersion when absent
  pc,        \* pc[r]: where runner r is
  action,    \* action[r]: "up" or "down"
  todo,      \* todo[r]: the versions it has still to run
  version,   \* version[r]: the version it runs
  isNew,     \* isNew[r]: it found no document of this version
  executed,  \* history: the <<version, action>> whose work was done
  effect,    \* history: effect[v], the last action whose work was done
  repeated   \* history: versions with the same work done twice in a row

local == <<pc, action, todo, version, isNew>>

history == <<executed, effect, repeated>>

vars == <<mode, status, dbVersion, local, history>>

-----------------------------------------------------------------------------

\* isNewerVersion: the first part that differs decides.
IsNewer_ByPatch(v, w) == v[3] > w[3]
IsNewer(v, w) ==
  \/ v[1] > w[1]
  \/ v[1] = w[1] /\ v[2] > w[2]
  \/ v[1] = w[1] /\ v[2] = w[2] /\ v[3] > w[3]

\* getAvailableUpgradeVersions
Available == {v \in mode.versions : Timestamp[v] > 0}

Init ==
  /\ mode \in Modes
  /\ status = [v \in Versions |-> "none"]
  /\ dbVersion = InitialVersion
  /\ pc = [r \in Runners |-> "idle"]
  /\ action = [r \in Runners |-> "up"]
  /\ todo = [r \in Runners |-> {}]
  /\ version = [r \in Runners |-> InitialVersion]
  /\ isNew = [r \in Runners |-> FALSE]
  /\ executed = {}
  /\ effect = [v \in Versions |-> "none"]
  /\ repeated = {}

At(r, l) == pc[r] = l

Goto(r, l) == pc' = [pc EXCEPT ![r] = l]

\* Only the place of the runner changes.
Resume(r, l) ==
  /\ Goto(r, l)
  /\ UNCHANGED <<mode, status, dbVersion, action, todo, version, isNew, history>>

\* The process exits or stops: what it had still to run is forgotten.
Stop(r) ==
  /\ Goto(r, "idle")
  /\ todo' = [todo EXCEPT ![r] = {}]
  /\ UNCHANGED <<mode, status, dbVersion, action, version, isNew, history>>

-----------------------------------------------------------------------------
(* run, runUpgrades and runAll.                                            *)

Start(r, a, versions) ==
  /\ At(r, "idle")
  /\ r \in mode.runners
  /\ Goto(r, "next")
  /\ action' = [action EXCEPT ![r] = a]
  /\ todo' = [todo EXCEPT ![r] = versions]
  /\ UNCHANGED <<mode, status, dbVersion, version, isNew, history>>

\* A server boots: the versions newer than db-version are run.
Boot(r) ==
  /\ "boot" \in mode.commands
  /\ Start(r, "up", {v \in Available : IsNewer(v, dbVersion)})

MigrateAll(r, a) ==
  /\ "all" \in mode.commands
  /\ Start(r, a, Available)

MigrateOne(r, a, v) ==
  /\ "one" \in mode.commands
  /\ v \in mode.versions
  /\ Start(r, a, {v})

Finish(r) ==
  /\ At(r, "next")
  /\ todo[r] = {}
  /\ Resume(r, "idle")

-----------------------------------------------------------------------------
(* runOne: whatever comes of a version, the next one in the order of the   *)
(* files is run.                                                           *)

\* An error of the search is not caught and stops the run.
VerifyStatus_Unsorted(r) ==
  /\ At(r, "next")
  /\ \E v \in todo[r] :
       /\ todo' = [todo EXCEPT ![r] = @ \ {v}]
       /\ Goto(r, IF status[v] = action[r] THEN "next" ELSE "migrate")
       /\ version' = [version EXCEPT ![r] = v]
       /\ isNew' = [isNew EXCEPT ![r] = status[v] = "none"]
  /\ UNCHANGED <<mode, status, dbVersion, action, history>>
VerifyStatus(r) ==
  /\ At(r, "next")
  /\ todo[r] # {}
  /\ \/ /\ \E v \in todo[r] :
            /\ \A w \in todo[r] : Timestamp[v] <= Timestamp[w]
            /\ todo' = [todo EXCEPT ![r] = @ \ {v}]
            /\ Goto(r, IF status[v] = action[r] THEN "next" ELSE "migrate")
            /\ version' = [version EXCEPT ![r] = v]
            /\ isNew' = [isNew EXCEPT ![r] = status[v] = "none"]
        /\ UNCHANGED <<mode, status, dbVersion, action, history>>
     \/ "db" \in mode.faults /\ Stop(r)

\* The work of the migration is done.
Execute(v, a) ==
  /\ executed' = executed \cup {<<v, a>>}
  /\ effect' = [effect EXCEPT ![v] = a]
  /\ repeated' = IF effect[v] = a THEN repeated \cup {v} ELSE repeated

\* Only a true result is recorded.  Without a file the process exits.
MigrateFile_RecordFailure(r) ==
  At(r, "migrate") /\ Resume(r, "save")
MigrateFile(r) ==
  /\ At(r, "migrate")
  /\ \/ /\ version[r] \in Available
        /\ \/ Execute(version[r], action[r]) /\ Goto(r, "save")
           \/ "silent" \in mode.faults /\ Execute(version[r], action[r]) /\ Goto(r, "next")
        /\ UNCHANGED <<mode, status, dbVersion, action, todo, version, isNew>>
     \/ /\ version[r] \in Available /\ "body" \in mode.faults
        /\ Resume(r, "next")
     \/ /\ version[r] \notin Available
        /\ Stop(r)

\* updateStatus: a new document collides with one saved in the meantime.
SaveStatus_Skip(r) == At(r, "save") /\ Resume(r, "version")
SaveStatus(r) ==
  /\ At(r, "save")
  /\ \/ /\ isNew[r] => status[version[r]] = "none"
        /\ status' = [status EXCEPT ![version[r]] = action[r]]
        /\ Goto(r, "version")
        /\ UNCHANGED <<mode, dbVersion, action, todo, version, isNew, history>>
     \/ /\ \/ isNew[r] /\ status[version[r]] # "none"
           \/ "db" \in mode.faults
        /\ Resume(r, "next")

\* successCallback
SaveVersion(r) ==
  /\ At(r, "version")
  /\ \/ /\ dbVersion' = version[r]
        /\ Goto(r, "next")
        /\ UNCHANGED <<mode, status, action, todo, version, isNew, history>>
     \/ "db" \in mode.faults /\ Resume(r, "next")

Crash(r) ==
  /\ "crash" \in mode.faults
  /\ ~At(r, "idle")
  /\ Stop(r)

-----------------------------------------------------------------------------

RunnerStep(r) ==
  \/ VerifyStatus(r) \/ MigrateFile(r) \/ SaveStatus(r) \/ SaveVersion(r)
  \/ Finish(r)

Next ==
  \E r \in Runners :
    \/ RunnerStep(r) \/ Crash(r)
    \/ Boot(r)
    \/ \E a \in Actions :
         MigrateAll(r, a) \/ \E v \in Versions : MigrateOne(r, a, v)

Spec == Init /\ [][Next]_vars

\* Awaited calls settle; nobody has to start a runner.
FairSpec == Spec /\ \A r \in Runners : WF_vars(RunnerStep(r))

\* A server that stopped is started again.
RestartSpec == FairSpec /\ \A r \in Runners : WF_vars(Boot(r))

-----------------------------------------------------------------------------
(* Properties.                                                             *)

TypeOK ==
  /\ mode \in Modes
  /\ status \in [Versions -> Actions \cup {"none"}]
  /\ dbVersion \in Versions \cup {InitialVersion}
  /\ pc \in [Runners -> {"idle", "next", "migrate", "save", "version"}]
  /\ action \in [Runners -> Actions]
  /\ todo \in [Runners -> SUBSET Versions]
  /\ version \in [Runners -> Versions \cup {InitialVersion}]
  /\ isNew \in [Runners -> BOOLEAN]
  /\ executed \in SUBSET (Versions \X Actions)
  /\ effect \in [Versions -> Actions \cup {"none"}]
  /\ repeated \in SUBSET Versions

\* Whatever fails, crashes or runs at the same time, no document claims what
\* was not done, and db-version names a version that has a document (runOne
\* records only a true result, successCallback saves the document first).
RecordedWasExecuted ==
  /\ \A v \in Versions : status[v] # "none" => <<v, status[v]>> \in executed
  /\ dbVersion # InitialVersion => status[dbVersion] # "none"

Alone == \A r, s \in mode.runners : r = s

\* No migration is done, or undone, twice in a row: the collection "helps
\* ensure that each migration is executed or rolled back only once".  True of
\* one runner that does not crash, of migrations that answer true for what
\* they did (runOne, verifyStatus).
ExecutedOnce == Alone /\ mode.faults \subseteq {"body"} => repeated = {}

\* One server migrates when it boots.
Automatic == Alone /\ mode.commands \subseteq {"boot"}

Passed(v) == IsNewer(v, InitialVersion) /\ ~IsNewer(v, dbVersion)

\* No version that automatic migration has passed was left out: it will never
\* be considered again (runUpgrades).  True as long as no migration fails.
NothingSkipped ==
  Automatic /\ mode.faults \subseteq {"crash"} =>
    \A v \in Available : Passed(v) => status[v] = "up"

\* The same of migrations that may fail: updates that a release requires are
\* applied when the application boots (migration/README.md:5).
RequiredApplied == Automatic => \A v \in Available : Passed(v) => status[v] = "up"

\* Booting never takes db-version back, whatever fails or crashes
\* (runUpgrades, isNewerVersion).
Advances == Automatic /\ dbVersion' # dbVersion => IsNewer(dbVersion', dbVersion)

VersionOnlyAdvances == [][Advances]_vars

\* When no migration or save fails, a server that comes to finish its runs
\* brings every version up, wherever it crashed before (run,
\* runUpgrades, verifyStatus).  Files are of versions after InitialVersion.
AllMigrated ==
  Automatic /\ mode.faults \subseteq {"crash"} =>
    (<>[][\A r \in Runners : Crash(r) => Finish(r)]_vars =>
       <>[](\A v \in Available : status[v] = "up"))

=============================================================================
