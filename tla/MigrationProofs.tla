--------------------------- MODULE MigrationProofs ---------------------------
(***************************************************************************)
(* Theorems about Migration: for every set of versions and runners what is *)
(* recorded was done; for one runner that is not interrupted, that nothing *)
(* is done twice; for automatic migration, that db-version only advances   *)
(* and passes nothing over.                                                *)
(***************************************************************************)
EXTENDS Migration, TLAPS

-----------------------------------------------------------------------------
(* The order of versions.                                                  *)

Triple == Nat \X Nat \X Nat

\* isNewerVersion is a strict total order of the versions.
THEOREM NewerIsStrictOrder ==
  /\ \A v \in Triple : ~IsNewer(v, v)
  /\ \A u, v, w \in Triple : IsNewer(u, v) /\ IsNewer(v, w) => IsNewer(u, w)
  /\ \A v, w \in Triple : v = w \/ IsNewer(v, w) \/ IsNewer(w, v)
  BY DEF Triple, IsNewer

-----------------------------------------------------------------------------
(* Type correctness.                                                       *)

LEMMA InitTyped == Init => TypeOK
  BY FilesAssumption DEF Init, TypeOK, Actions

\* A runner of this behaviour runs a version that exists.
Located ==
  \A r \in Runners :
    /\ pc[r] \in {"migrate", "save", "version"} => version[r] \in Versions
    /\ pc[r] # "idle" => r \in mode.runners

\* Who runs in this behaviour, and what.
LEMMA ModeTyped ==
  ASSUME TypeOK
  PROVE  /\ mode.runners \subseteq Runners
         /\ mode.versions \subseteq Versions
         /\ Available \subseteq mode.versions
  BY FilesAssumption DEF TypeOK, Available

LEMMA AvailableKept == UNCHANGED mode => UNCHANGED Available
  BY DEF Available

LEMMA ModeKept == [Next]_vars => UNCHANGED mode
  BY DEF Next, RunnerStep, Boot, MigrateAll, MigrateOne, Crash, Finish, Start, Stop,
         Resume, VerifyStatus, MigrateFile, SaveStatus, SaveVersion, vars

\* The steps are those of the runners of this behaviour.
LEMMA NextOfRunners ==
  ASSUME Located, Next
  PROVE  \E r \in mode.runners :
           \/ RunnerStep(r) \/ Crash(r) \/ Boot(r)
           \/ \E a \in Actions :
                MigrateAll(r, a) \/ \E v \in mode.versions : MigrateOne(r, a, v)
  BY DEF Next, RunnerStep, Boot, MigrateAll, MigrateOne, Start, VerifyStatus, MigrateFile,
         SaveStatus, SaveVersion, Finish, Crash, Located, At

LEMMA StopTyped ==
  ASSUME TypeOK, Located, NEW r \in mode.runners, Stop(r)
  PROVE  TypeOK' /\ Located'
  BY DEF Stop, Goto, TypeOK, Located, Actions, history

LEMMA ResumeTyped ==
  ASSUME TypeOK, Located, NEW r \in mode.runners, NEW l \in {"idle", "next"},
         ~At(r, "idle"), Resume(r, l)
  PROVE  TypeOK' /\ Located'
  BY DEF Resume, At, Goto, TypeOK, Located, Actions, history

LEMMA StartTyped ==
  ASSUME TypeOK, Located, NEW r \in mode.runners, NEW a \in Actions,
         NEW versions \in SUBSET Versions, Start(r, a, versions)
  PROVE  TypeOK' /\ Located'
  BY DEF Start, Goto, TypeOK, Located, Actions, history

LEMMA TypeStep == TypeOK /\ Located /\ [Next]_vars => TypeOK' /\ Located'
<1> SUFFICES ASSUME TypeOK, Located, [Next]_vars PROVE TypeOK' /\ Located'
  OBVIOUS
<1>0. /\ mode.runners \subseteq Runners
      /\ Available \subseteq Versions /\ mode.versions \subseteq Versions
  BY ModeTyped
<1>1. ASSUME NEW r \in mode.runners, VerifyStatus(r) PROVE TypeOK' /\ Located'
  <2>1. ASSUME NEW v \in todo[r], NEW l \in {"next", "migrate"}, Goto(r, l),
               todo' = [todo EXCEPT ![r] = @ \ {v}],
               version' = [version EXCEPT ![r] = v],
               isNew' = [isNew EXCEPT ![r] = status[v] = "none"],
               UNCHANGED <<mode, status, dbVersion, action, history>>
        PROVE  TypeOK' /\ Located'
    <3>1. v \in Versions
      BY <1>0, <2>1 DEF TypeOK
    <3>2. isNew' \in [Runners -> BOOLEAN]
      BY <2>1, Zenon DEF TypeOK
    <3>3. /\ pc' \in [Runners -> {"idle", "next", "migrate", "save", "version"}]
          /\ todo' \in [Runners -> SUBSET Versions]
          /\ version' \in [Runners -> Versions \cup {InitialVersion}]
      BY <2>1, <3>1 DEF TypeOK, Goto
    <3>4. Located'
      BY <2>1, <3>1 DEF TypeOK, Located, Goto
    <3>5. QED
      BY <2>1, <3>2, <3>3, <3>4 DEF TypeOK, history
  <2>2. QED
    BY <1>0, <1>1, <2>1, StopTyped DEF VerifyStatus
<1>2. ASSUME NEW r \in mode.runners, MigrateFile(r) PROVE TypeOK' /\ Located'
  <2>1. CASE /\ Execute(version[r], action[r])
             /\ Goto(r, "save") \/ Goto(r, "next")
             /\ UNCHANGED <<mode, status, dbVersion, action, todo, version, isNew>>
    <3>1. version[r] \in Versions /\ action[r] \in Actions
      BY <1>0, <1>2 DEF MigrateFile, At, TypeOK, Located
    <3>2. /\ executed' \in SUBSET (Versions \X Actions)
          /\ effect' \in [Versions -> Actions \cup {"none"}]
          /\ repeated' \in SUBSET Versions
      BY <2>1, <3>1 DEF Execute, TypeOK
    <3>3. QED
      BY <2>1, <3>1, <3>2 DEF Goto, TypeOK, Located
  <2>2. QED
    BY <1>0, <1>2, <2>1, StopTyped, ResumeTyped DEF MigrateFile, At
<1>3. ASSUME NEW r \in mode.runners, SaveStatus(r) PROVE TypeOK' /\ Located'
  BY <1>0, <1>3, ResumeTyped
     DEF SaveStatus, At, Goto, TypeOK, Located, Actions, history
<1>4. ASSUME NEW r \in mode.runners, SaveVersion(r) PROVE TypeOK' /\ Located'
  BY <1>0, <1>4, ResumeTyped
     DEF SaveVersion, At, Goto, TypeOK, Located, Actions, history
<1>5. ASSUME NEW r \in mode.runners, Finish(r) PROVE TypeOK' /\ Located'
  BY <1>0, <1>5, ResumeTyped DEF Finish, At
<1>6. ASSUME NEW r \in mode.runners, Crash(r) PROVE TypeOK' /\ Located'
  BY <1>0, <1>6, StopTyped DEF Crash
<1>7. ASSUME NEW r \in mode.runners, Boot(r) PROVE TypeOK' /\ Located'
  BY <1>0, <1>7, StartTyped DEF Boot, Actions
<1>8. ASSUME NEW r \in mode.runners, NEW a \in Actions,
             MigrateAll(r, a) \/ \E v \in mode.versions : MigrateOne(r, a, v)
      PROVE  TypeOK' /\ Located'
  BY <1>0, <1>8, StartTyped, ModeTyped DEF MigrateAll, MigrateOne
<1>9. CASE UNCHANGED vars
  BY <1>9 DEF vars, local, history, TypeOK, Located
<1>10. QED
  BY <1>1, <1>2, <1>3, <1>4, <1>5, <1>6, <1>7, <1>8, <1>9, NextOfRunners DEF RunnerStep

\* Every reachable state is well typed, and runners run versions that exist.
THEOREM TypeCorrect == Spec => [](TypeOK /\ Located)
<1>1. Init => TypeOK /\ Located
  BY InitTyped DEF Init, Located
<1>2. QED
  BY <1>1, TypeStep, PTL DEF Spec

-----------------------------------------------------------------------------
(* What is recorded was done, whoever runs and whatever fails.             *)

\* A runner saves what it did; it writes the version of a saved document.
Honest ==
  /\ RecordedWasExecuted
  /\ \A r \in Runners :
       /\ At(r, "save") => <<version[r], action[r]>> \in executed
       /\ At(r, "version") => status[version[r]] # "none"

LEMMA HonestStep ==
  TypeOK /\ Located /\ Honest /\ [Next]_vars => Honest'
<1> SUFFICES ASSUME TypeOK, Located, Honest, [Next]_vars PROVE Honest'
  OBVIOUS
<1> USE DEF At, Goto
<1>a. ASSUME NEW r \in Runners, NEW l \in {"idle", "next", "migrate"},
             pc' = [pc EXCEPT ![r] = l],
             UNCHANGED <<mode, status, dbVersion, executed>>,
             \A s \in Runners \ {r} : version'[s] = version[s] /\ action'[s] = action[s]
      PROVE  Honest'
  BY <1>a DEF TypeOK, Honest, RecordedWasExecuted
<1>1. ASSUME NEW r \in Runners, VerifyStatus(r) PROVE Honest'
  BY <1>1, <1>a DEF VerifyStatus, Stop, TypeOK, history
<1>2. ASSUME NEW r \in Runners, MigrateFile(r) PROVE Honest'
  <2>1. CASE /\ Execute(version[r], action[r])
             /\ Goto(r, "save") \/ Goto(r, "next")
             /\ UNCHANGED <<mode, status, dbVersion, action, todo, version, isNew>>
    BY <1>2, <2>1 DEF Execute, TypeOK, Honest, RecordedWasExecuted
  <2>2. QED
    BY <1>2, <2>1, <1>a DEF MigrateFile, Stop, Resume, history
<1>3. ASSUME NEW r \in Runners, SaveStatus(r) PROVE Honest'
  <2>1. CASE /\ status' = [status EXCEPT ![version[r]] = action[r]]
             /\ Goto(r, "version")
             /\ UNCHANGED <<mode, dbVersion, action, todo, version, isNew, history>>
    <3>1. version[r] \in Versions /\ action[r] # "none"
      BY <1>3 DEF SaveStatus, Located, TypeOK, Actions
    <3>2. <<version[r], action[r]>> \in executed
      BY <1>3 DEF SaveStatus, Honest
    <3>3. \A v \in Versions :
            status'[v] = IF v = version[r] THEN action[r] ELSE status[v]
      BY <2>1, <3>1 DEF TypeOK
    <3>4. RecordedWasExecuted'
      BY <2>1, <3>1, <3>2, <3>3 DEF TypeOK, Honest, RecordedWasExecuted, history
    <3>5. ASSUME NEW s \in Runners, At(s, "save")'
          PROVE  <<version'[s], action'[s]>> \in executed'
      BY <2>1, <3>5 DEF TypeOK, Honest, history
    <3>6. ASSUME NEW s \in Runners, At(s, "version")'
          PROVE  status'[version'[s]] # "none"
      BY <2>1, <3>1, <3>3, <3>6 DEF TypeOK, Located, Honest
    <3>7. QED
      BY <3>4, <3>5, <3>6 DEF Honest
  <2>2. QED
    BY <1>3, <2>1, <1>a DEF SaveStatus, Resume, history
<1>4. ASSUME NEW r \in Runners, SaveVersion(r) PROVE Honest'
  <2>1. CASE /\ dbVersion' = version[r]
             /\ Goto(r, "next")
             /\ UNCHANGED <<mode, status, action, todo, version, isNew, history>>
    BY <1>4, <2>1 DEF SaveVersion, TypeOK, Honest, RecordedWasExecuted, history
  <2>2. QED
    BY <1>4, <2>1, <1>a DEF SaveVersion, Resume, history
<1>5. ASSUME NEW r \in Runners, Finish(r) \/ Crash(r) PROVE Honest'
  BY <1>5, <1>a DEF Finish, Crash, Stop, Resume, history
<1>6. ASSUME NEW r \in Runners, NEW a, NEW versions, Start(r, a, versions)
      PROVE  Honest'
  BY <1>6, <1>a DEF Start, TypeOK, history
<1>7. CASE UNCHANGED vars
  BY <1>7 DEF vars, local, history, Honest, RecordedWasExecuted
<1>8. QED
  BY <1>1, <1>2, <1>3, <1>4, <1>5, <1>6, <1>7
     DEF Next, RunnerStep, Boot, MigrateAll, MigrateOne

\* Nothing is recorded that was not done (RecordedWasExecuted), by any number
\* of runners, with any fault.
THEOREM RecordsAreTrue == Spec => []RecordedWasExecuted
<1>1. Init => Honest
  BY DEF Init, Honest, RecordedWasExecuted, At
<1>2. Honest => RecordedWasExecuted
  BY DEF Honest
<1>3. QED
  BY <1>1, <1>2, HonestStep, TypeCorrect, PTL DEF Spec

-----------------------------------------------------------------------------
(* One runner that is not interrupted does nothing twice.                  *)

\* The records say what was done last, but for the version being saved; and a
\* version is run only when its record differs from the action.
Recorded ==
  /\ repeated = {}
  /\ \A r \in mode.runners :
       /\ At(r, "migrate") \/ At(r, "save") =>
            /\ status[version[r]] # action[r]
            /\ isNew[r] => status[version[r]] = "none"
       /\ At(r, "save") => effect[version[r]] = action[r]
       /\ \A v \in Versions :
            effect[v] = status[v] \/ (At(r, "save") /\ v = version[r])

LEMMA RecordedStep ==
  ASSUME Alone, mode.faults \subseteq {"body"}, TypeOK, Located, Recorded, [Next]_vars
  PROVE  Recorded'
<1>i. /\ mode.runners \subseteq Runners /\ Available \subseteq Versions
      /\ UNCHANGED <<mode, Available>>
  BY ModeTyped, ModeKept, AvailableKept
<1> USE <1>i DEF At, Goto
<1>0. "silent" \notin mode.faults /\ "db" \notin mode.faults /\ "crash" \notin mode.faults
  OBVIOUS
<1>a. ASSUME NEW r \in mode.runners, NEW l \in {"idle", "next"}, ~At(r, "save"),
             pc' = [pc EXCEPT ![r] = l], UNCHANGED <<mode, status, history>>
      PROVE  Recorded'
  BY <1>a DEF Alone, TypeOK, Recorded, history
<1>1. ASSUME NEW r \in mode.runners, VerifyStatus(r) PROVE Recorded'
  <2>1. PICK v \in todo[r] :
          /\ pc' = [pc EXCEPT ![r] = IF status[v] = action[r] THEN "next" ELSE "migrate"]
          /\ version' = [version EXCEPT ![r] = v]
          /\ isNew' = [isNew EXCEPT ![r] = status[v] = "none"]
          /\ UNCHANGED <<mode, status, dbVersion, action, history>>
    BY <1>0, <1>1 DEF VerifyStatus
  <2>2. isNew'[r] <=> status[v] = "none"
    BY <2>1, Zenon DEF TypeOK
  <2>3. QED
    BY <1>1, <2>1, <2>2 DEF VerifyStatus, Alone, TypeOK, Recorded, history
<1>2. ASSUME NEW r \in mode.runners, MigrateFile(r) PROVE Recorded'
  <2>1. CASE /\ Execute(version[r], action[r])
             /\ Goto(r, "save")
             /\ UNCHANGED <<mode, status, dbVersion, action, todo, version, isNew>>
    <3>1. version[r] \in Versions
      BY <1>2 DEF MigrateFile, Located
    <3>2. effect[version[r]] = status[version[r]]
      BY <1>2, <3>1 DEF MigrateFile, Recorded
    <3>3. repeated' = {}
      BY <1>2, <2>1, <3>2 DEF MigrateFile, Execute, Recorded
    <3>4. QED
      BY <1>2, <2>1, <3>1, <3>3 DEF MigrateFile, Execute, Alone, TypeOK, Recorded
  <2>2. QED
    BY <1>0, <1>2, <2>1, <1>a DEF MigrateFile, Stop, Resume
<1>3. ASSUME NEW r \in mode.runners, SaveStatus(r) PROVE Recorded'
  <2>1. /\ status' = [status EXCEPT ![version[r]] = action[r]]
        /\ pc' = [pc EXCEPT ![r] = "version"]
        /\ UNCHANGED <<mode, dbVersion, action, todo, version, isNew, history>>
    BY <1>0, <1>3 DEF SaveStatus, Recorded
  <2>2. version[r] \in Versions
    BY <1>3 DEF SaveStatus, Located
  <2>3. QED
    BY <1>3, <2>1, <2>2 DEF SaveStatus, Alone, TypeOK, Recorded, history
<1>4. ASSUME NEW r \in mode.runners, SaveVersion(r) PROVE Recorded'
  BY <1>4, <1>a DEF SaveVersion, Resume
<1>5. ASSUME NEW r \in mode.runners, Finish(r) \/ Crash(r) PROVE Recorded'
  BY <1>0, <1>5, <1>a DEF Finish, Crash, Resume
<1>6. ASSUME NEW r \in mode.runners, NEW a, NEW versions, Start(r, a, versions)
      PROVE  Recorded'
  BY <1>6, <1>a DEF Start
<1>7. CASE UNCHANGED vars
  BY <1>7 DEF vars, local, history, Recorded
<1>8. QED
  BY <1>1, <1>2, <1>3, <1>4, <1>5, <1>6, <1>7, NextOfRunners
     DEF RunnerStep, Boot, MigrateAll, MigrateOne

\* One runner that neither crashes nor fails to save never does the work of a
\* migration twice in a row, nor undoes it twice (ExecutedOnce), whatever
\* commands are given and whichever migrations fail.
THEOREM NothingTwice ==
  Spec => []ExecutedOnce
<1> DEFINE Steady == Alone /\ mode.faults \subseteq {"body"}
           Inv == Steady => Recorded
<1>1. Init => Inv
  BY InitTyped, ModeTyped DEF Init, Recorded, At
<1>2. TypeOK /\ Located /\ Inv /\ [Next]_vars => Inv'
  BY RecordedStep, ModeKept DEF Alone
<1>3. Inv => ExecutedOnce
  BY DEF Recorded, ExecutedOnce
<1>4. QED
  BY <1>1, <1>2, <1>3, TypeCorrect, PTL DEF Spec

-----------------------------------------------------------------------------
(* Automatic migration only advances, and passes nothing over.             *)

\* Files are created in the order of their versions.
Ordered ==
  \A v, w \in Versions :
    0 < Timestamp[v] /\ Timestamp[v] <= Timestamp[w] => v = w \/ IsNewer(w, v)

\* What a runner runs is newer than db-version, and what it has still to run
\* is newer than what it runs.
Ahead ==
  \A r \in mode.runners :
    /\ todo[r] \subseteq Available
    /\ action[r] = "up"
    /\ \A v \in todo[r] : IsNewer(v, dbVersion)
    /\ pc[r] \in {"migrate", "save", "version"} =>
         /\ version[r] \in Available
         /\ IsNewer(version[r], dbVersion)
         /\ \A v \in todo[r] : IsNewer(v, version[r])

LEMMA AheadStep ==
  ASSUME Ordered, Automatic,
         TypeOK, Located, Ahead, [Next]_vars
  PROVE  Ahead' /\ (dbVersion' # dbVersion => IsNewer(dbVersion', dbVersion))
<1>i. /\ mode.runners \subseteq Runners /\ Available \subseteq Versions
      /\ UNCHANGED <<mode, Available>> /\ Alone
  BY ModeTyped, ModeKept, AvailableKept DEF Automatic
<1> USE <1>i DEF At, Goto
<1>a. ASSUME NEW r \in mode.runners, NEW l, pc' = [pc EXCEPT ![r] = l],
             l \in {"idle", "next"} \/ (pc[r] \in {"migrate", "save", "version"}
                                        /\ version' = version),
             UNCHANGED <<mode, dbVersion, action>>,
             UNCHANGED todo \/ todo' = [todo EXCEPT ![r] = {}]
      PROVE  Ahead' /\ UNCHANGED dbVersion
  BY <1>a DEF Alone, TypeOK, Ahead
<1>1. ASSUME NEW r \in mode.runners, VerifyStatus(r) PROVE Ahead' /\ UNCHANGED dbVersion
  <2>1. ASSUME NEW v \in todo[r], \A w \in todo[r] : Timestamp[v] <= Timestamp[w],
               todo' = [todo EXCEPT ![r] = @ \ {v}],
               version' = [version EXCEPT ![r] = v],
               UNCHANGED <<mode, dbVersion, action>>
        PROVE  Ahead' /\ UNCHANGED dbVersion
    <3>1. v \in Available /\ \A w \in todo[r] \ {v} : w \in Available /\ IsNewer(w, v)
      <4>1. \A w \in todo[r] : w \in Available /\ w \in Versions /\ Timestamp[w] > 0
        BY DEF Ahead, Available
      <4>2. ASSUME NEW w \in todo[r] \ {v} PROVE IsNewer(w, v)
        BY <2>1, <4>1 DEF Ordered
      <4>3. QED
        BY <4>1, <4>2
    <3>2. QED
      BY <2>1, <3>1 DEF Alone, TypeOK, Ahead
  <2>2. QED
    BY <1>1, <2>1, <1>a DEF VerifyStatus, Stop
<1>2. ASSUME NEW r \in mode.runners, MigrateFile(r) PROVE Ahead' /\ UNCHANGED dbVersion
  BY <1>2, <1>a DEF MigrateFile, Stop, Resume
<1>3. ASSUME NEW r \in mode.runners, SaveStatus(r) PROVE Ahead' /\ UNCHANGED dbVersion
  BY <1>3, <1>a DEF SaveStatus, Resume
<1>4. ASSUME NEW r \in mode.runners, SaveVersion(r)
      PROVE  Ahead' /\ (dbVersion' # dbVersion => IsNewer(dbVersion', dbVersion))
  <2>1. CASE /\ dbVersion' = version[r]
             /\ pc' = [pc EXCEPT ![r] = "next"]
             /\ UNCHANGED <<mode, status, action, todo, version, isNew, history>>
    BY <1>4, <2>1 DEF SaveVersion, Alone, TypeOK, Ahead
  <2>2. QED
    BY <1>4, <2>1, <1>a DEF SaveVersion, Resume
<1>5. ASSUME NEW r \in mode.runners, Finish(r) \/ Crash(r) PROVE Ahead' /\ UNCHANGED dbVersion
  BY <1>5, <1>a DEF Finish, Crash, Stop, Resume
<1>6. ASSUME NEW r \in mode.runners, Boot(r) PROVE Ahead' /\ UNCHANGED dbVersion
  BY <1>6 DEF Boot, Start, Alone, TypeOK, Ahead
<1>7. CASE UNCHANGED vars
  BY <1>7 DEF vars, local, Ahead
<1>8. QED
  BY <1>1, <1>2, <1>3, <1>4, <1>5, <1>6, <1>7, NextOfRunners
     DEF RunnerStep, MigrateAll, MigrateOne, Automatic

\* Booting one server never takes db-version back (VersionOnlyAdvances),
\* whatever fails or crashes, when files are in the order of their versions.
THEOREM BootOnlyAdvances ==
  ASSUME Ordered
  PROVE  Spec => VersionOnlyAdvances
<1> DEFINE Inv == Automatic => Ahead
<1>1. Init => Inv
  BY InitTyped, ModeTyped DEF Init, Ahead
<1>2. TypeOK /\ Located /\ Inv /\ [Next]_vars => Inv' /\ [Advances]_vars
  BY AheadStep, ModeKept DEF Automatic, Alone, Advances
<1>3. QED
  BY <1>1, <1>2, TypeCorrect, PTL DEF Spec, VersionOnlyAdvances

NoneLeft == \A v \in Available : Passed(v) => status[v] = "up"

\* A version newer than db-version is up or is still going to be run by
\* whoever runs; when nobody runs, the next boot will find it.
Covered ==
  /\ NoneLeft
  /\ \A r \in mode.runners :
       /\ At(r, "version") => status[version[r]] = "up"
       /\ (At(r, "migrate") \/ At(r, "save")) /\ isNew[r] => status[version[r]] = "none"
       /\ ~At(r, "idle") =>
            \A v \in Available : IsNewer(v, dbVersion) =>
              \/ status[v] = "up" \/ v \in todo[r]
              \/ pc[r] \in {"migrate", "save"} /\ v = version[r]

LEMMA CoveredStep ==
  ASSUME Ordered, Automatic, mode.faults \subseteq {"crash"},
         TypeOK, Located, Ahead, Covered, [Next]_vars
  PROVE  Covered'
<1>i. /\ mode.runners \subseteq Runners /\ Available \subseteq Versions
      /\ UNCHANGED <<mode, Available>> /\ Alone
  BY ModeTyped, ModeKept, AvailableKept DEF Automatic
<1> USE <1>i DEF At, Goto
<1>0. "body" \notin mode.faults /\ "silent" \notin mode.faults /\ "db" \notin mode.faults
  OBVIOUS
<1>a. ASSUME NEW r \in mode.runners, pc' = [pc EXCEPT ![r] = "idle"],
             UNCHANGED <<mode, status, dbVersion>>
      PROVE  Covered'
  BY <1>a DEF Alone, TypeOK, Covered, NoneLeft, Passed
<1>1. ASSUME NEW r \in mode.runners, VerifyStatus(r) PROVE Covered'
  <2>1. PICK v \in todo[r] :
          /\ todo' = [todo EXCEPT ![r] = @ \ {v}]
          /\ pc' = [pc EXCEPT ![r] = IF status[v] = action[r] THEN "next" ELSE "migrate"]
          /\ version' = [version EXCEPT ![r] = v]
          /\ isNew' = [isNew EXCEPT ![r] = status[v] = "none"]
          /\ UNCHANGED <<mode, status, dbVersion>>
    BY <1>0, <1>1 DEF VerifyStatus
  <2>2. action[r] = "up" /\ (isNew'[r] <=> status[v] = "none")
    <3>1. isNew'[r] <=> status[v] = "none"
      BY <2>1, Zenon DEF TypeOK
    <3>2. QED
      BY <3>1 DEF Ahead
  <2>3. NoneLeft'
    BY <2>1 DEF Covered, NoneLeft, Passed
  <2>4. /\ pc[r] = "next" /\ version'[r] = v /\ todo'[r] = todo[r] \ {v}
        /\ pc'[r] = IF status[v] = "up" THEN "next" ELSE "migrate"
    BY <1>1, <2>1, <2>2 DEF VerifyStatus, TypeOK
  <2>5. UNCHANGED <<mode, status, dbVersion>>
    BY <2>1
  <2>6. \A s \in mode.runners : s = r
    BY DEF Alone
  <2>7. QED
    BY <2>2, <2>3, <2>4, <2>5, <2>6 DEF Covered
<1>2. ASSUME NEW r \in mode.runners, MigrateFile(r) PROVE Covered'
  <2>1. version[r] \in Available
    BY <1>2 DEF MigrateFile, Ahead
  <2>2. /\ pc[r] = "migrate" /\ pc' = [pc EXCEPT ![r] = "save"]
        /\ UNCHANGED <<mode, status, dbVersion, todo, version, isNew>>
    BY <1>0, <1>2, <2>1 DEF MigrateFile
  <2>3. QED
    BY <2>2 DEF Alone, TypeOK, Covered, NoneLeft, Passed
<1>3. ASSUME NEW r \in mode.runners, SaveStatus(r) PROVE Covered'
  <2>1. version[r] \in Versions /\ action[r] = "up" /\ pc[r] = "save"
    BY <1>3 DEF SaveStatus, Located, Ahead
  <2>2. CASE /\ status' = [status EXCEPT ![version[r]] = action[r]]
             /\ pc' = [pc EXCEPT ![r] = "version"]
             /\ UNCHANGED <<mode, dbVersion, action, todo, version, isNew, history>>
    <3>1. \A v \in Versions :
            status'[v] = IF v = version[r] THEN "up" ELSE status[v]
      BY <2>1, <2>2 DEF TypeOK
    <3>2. NoneLeft'
      BY <2>2, <3>1 DEF Covered, NoneLeft, Passed, Available
    <3>3. QED
      BY <2>1, <2>2, <3>1, <3>2 DEF Alone, TypeOK, Covered, Available
  <2>3. CASE isNew[r] /\ status[version[r]] # "none" /\ Resume(r, "next")
    BY <2>1, <2>3 DEF Covered
  <2>4. QED
    BY <1>0, <1>3, <2>2, <2>3 DEF SaveStatus
<1>4. ASSUME NEW r \in mode.runners, SaveVersion(r) PROVE Covered'
  <2>1. /\ dbVersion' = version[r]
        /\ pc' = [pc EXCEPT ![r] = "next"]
        /\ UNCHANGED <<mode, status, action, todo, version, isNew, history>>
        /\ pc[r] = "version"
    BY <1>0, <1>4 DEF SaveVersion
  <2>2. /\ status[version[r]] = "up"
        /\ version[r] \in Available
        /\ IsNewer(version[r], dbVersion)
        /\ \A v \in todo[r] : IsNewer(v, version[r])
    BY <2>1 DEF Covered, Ahead
  <2>3. \A v \in Available :
          IsNewer(v, dbVersion) => status[v] = "up" \/ v \in todo[r]
    BY <2>1 DEF Covered
  <2>4. version[r] \in Triple /\ dbVersion \in Triple /\ Available \subseteq Triple
    BY <2>2, FilesAssumption DEF TypeOK, Triple
  <2>5. ASSUME NEW v \in Available, IsNewer(v, InitialVersion), ~IsNewer(v, version[r])
        PROVE  status[v] = "up"
    <3>1. CASE IsNewer(v, dbVersion)
      BY <2>2, <2>3, <2>5, <3>1
    <3>2. CASE ~IsNewer(v, dbVersion)
      BY <2>5, <3>2 DEF Covered, NoneLeft, Passed
    <3>3. QED
      BY <3>1, <3>2
  <2>6. NoneLeft'
    BY <2>1, <2>5 DEF NoneLeft, Passed
  <2>7. ASSUME NEW v \in Available, IsNewer(v, version[r])
        PROVE  status[v] = "up" \/ v \in todo[r]
    BY <2>2, <2>3, <2>4, <2>7, NewerIsStrictOrder
  <2>8. QED
    BY <2>1, <2>6, <2>7 DEF Alone, TypeOK, Covered
<1>5. ASSUME NEW r \in mode.runners, Finish(r) \/ Crash(r) PROVE Covered'
  BY <1>5, <1>a DEF Finish, Crash, Stop, Resume
<1>6. ASSUME NEW r \in mode.runners, Boot(r) PROVE Covered'
  BY <1>6 DEF Boot, Start, Alone, TypeOK, Covered, NoneLeft, Passed
<1>7. CASE UNCHANGED vars
  BY <1>7 DEF vars, local, Covered, NoneLeft, Passed
<1>8. QED
  BY <1>1, <1>2, <1>3, <1>4, <1>5, <1>6, <1>7, NextOfRunners
     DEF RunnerStep, MigrateAll, MigrateOne, Automatic

\* Automatic migration of one server, of migrations that succeed, passes
\* nothing over (NothingSkipped), wherever the process crashes.
THEOREM BootSkipsNothing ==
  ASSUME Ordered
  PROVE  Spec => []NothingSkipped
<1> DEFINE Steady == Automatic /\ mode.faults \subseteq {"crash"}
           Inv == Steady => Ahead /\ Covered
<1>1. Init => Inv
  BY InitTyped, ModeTyped DEF Init, Ahead, Covered, NoneLeft, Passed, At
<1>2. TypeOK /\ Located /\ Inv /\ [Next]_vars => Inv'
  BY AheadStep, CoveredStep, ModeKept DEF Automatic, Alone
<1>3. Inv => NothingSkipped
  BY DEF Covered, NothingSkipped, NoneLeft
<1>4. QED
  BY <1>1, <1>2, <1>3, TypeCorrect, PTL DEF Spec

=============================================================================
