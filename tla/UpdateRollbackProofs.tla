----------------------- MODULE UpdateRollbackProofs -----------------------
(***************************************************************************)
(* The rollback restores exactly what its marker promises, for every set   *)
(* of releases, thresholds and faults.  RollbackIsExact is not inductive:  *)
(* it needs that blob and label are paired when they are recorded, that    *)
(* nothing but the updater itself touches marker, blob and pin between the *)
(* verification and the restore, and that the updater runs from the live   *)
(* binary.                                                                 *)
(***************************************************************************)
EXTENDS UpdateRollback, TLAPS

\* The hash and the label of a rollback target belong to the same binary.
LabelsAgree ==
  /\ probation # None => probation.previous = probation.blob
  /\ upd.keep # None => upd.keep.previous = upd.keep.blob

\* Until it moves it aside, an updater runs from the live binary, which is whole; it knows its
\* target.
RunsInstalled ==
  /\ upd.pc \in {"judge", "verify", "pin", "restore", "fetch", "download", "prepare", "aside"} =>
       live = upd.version /\ live # None
  /\ upd.pc \in {"download", "prepare", "aside", "movein", "arm", "mark", "installed"} => upd.target # None
  /\ upd.pc = "movein" => backup \in Versions
  /\ upd.pc = "mark" => upd.keep # None

\* handle_post_stop: the node stays down, the marker is that of the version that crashed, the
\* blob has been verified, then the pin written.
Judges ==
  /\ upd.pc \in {"judge", "verify", "pin", "restore", "unmark"} => node.pc = "exited"
  /\ upd.pc \in {"verify", "pin", "restore"} => probation # None /\ probation.new = upd.version
  /\ upd.pc \in {"pin", "restore"} => known_good = probation.blob
  /\ upd.pc = "restore" => known_bad = probation.new

\* The inductive invariant.
RollbackInv == UpdateTypeOK /\ LabelsAgree /\ RunsInstalled /\ Judges

\* The places of the updater.
PCs == {"idle", "judge", "verify", "pin", "restore", "unmark", "fetch", "download",
         "prepare", "aside", "movein", "arm", "mark", "installed"}

\* A step of the updater that moves on keeps what it carries.
LEMMA GotoUpdater ==
    ASSUME upd \in Updaters, NEW pc \in PCs, Goto(pc)
    PROVE  /\ upd' \in Updaters
           /\ upd'.pc = pc /\ upd'.version = upd.version /\ upd'.target = upd.target
           /\ upd'.keep = upd.keep
  BY DEF Goto, Updaters, PCs

\* A fresh `freenet update` is a well-formed one.
LEMMA LaunchedUpdater ==
    ASSUME live \in Versions, NEW pc \in PCs, NEW post_stop \in BOOLEAN, NEW force \in BOOLEAN
    PROVE  Launched(pc, post_stop, force) \in Updaters
  BY DEF Launched, Updaters, PCs

\* prepare_known_good_for_install pairs the blob with its own label: the marker's pair when it
\* keeps it, the live binary and its version when it takes a new snapshot.
LEMMA KeepsTarget ==
    ASSUME RollbackInv, prepare_known_good
    PROVE  /\ upd'.pc = "aside" /\ upd'.version = upd.version /\ upd'.target = upd.target
           /\ upd'.keep # None => upd'.keep.previous = upd'.keep.blob
           /\ live' = live /\ node' = node /\ probation' = probation
<1>1. upd \in Updaters /\ live = upd.version
  BY DEF RollbackInv, UpdateTypeOK, RunsInstalled, prepare_known_good
<1>2. live' = live /\ node' = node /\ probation' = probation
  BY DEF prepare_known_good, binaries, service
<1>3. CASE upd' = [upd EXCEPT !.pc = "aside"]
  BY <1>1, <1>2, <1>3 DEF Updaters, RollbackInv, LabelsAgree
<1>4. CASE Chained /\ upd' = [upd EXCEPT !.pc = "aside",
                      !.keep = [blob |-> probation.blob, previous |-> probation.previous]]
  <2>1. probation.blob = probation.previous
    BY <1>4 DEF Chained, OnProbation, RollbackInv, LabelsAgree
  <2>2. upd'.keep = [blob |-> probation.blob, previous |-> probation.previous]
    BY <1>1, <1>4 DEF Updaters
  <2>3. upd'.pc = "aside" /\ upd'.version = upd.version /\ upd'.target = upd.target
    BY <1>1, <1>4 DEF Updaters
  <2>4. QED
    BY <1>2, <2>1, <2>2, <2>3
<1>5. CASE upd' = [upd EXCEPT !.pc = "aside", !.keep = [blob |-> live, previous |-> upd.version]]
  <2>1. upd'.keep = [blob |-> live, previous |-> upd.version]
    BY <1>1, <1>5 DEF Updaters
  <2>2. upd'.pc = "aside" /\ upd'.version = upd.version /\ upd'.target = upd.target
    BY <1>1, <1>5 DEF Updaters
  <2>3. QED
    BY <1>1, <1>2, <2>1, <2>2
<1>6. QED
  BY <1>3, <1>4, <1>5 DEF prepare_known_good

\* No updater at all is a well-formed one.
LEMMA IdleUpdater == Idle \in Updaters
  BY DEF Idle, Updaters

\* An updater that ends carries nothing on.
LEMMA EndsUpdater ==
    ASSUME Ends
    PROVE  upd' \in Updaters /\ upd'.pc = "idle" /\ upd'.keep = None
  BY DEF Ends, Idle, Updaters

\* Every step keeps the types.
LEMMA StepKeepsType == RollbackInv /\ [Next]_vars => UpdateTypeOK'
<1> SUFFICES ASSUME RollbackInv, [Next]_vars PROVE UpdateTypeOK'
  OBVIOUS
<1>1. CASE Release
  BY <1>1, UpdateAssumption
     DEF Release, RollbackInv, UpdateTypeOK, files, binaries, service, Markers, Services, Updaters,
         Counts, Versions, Binaries, RunsInstalled, Judges
<1>2. CASE Start
  <2>1. node' \in Services
    BY <1>2
       DEF Start, RollbackInv, UpdateTypeOK, Services, Versions, files, binaries, service,
           RunsInstalled
  <2>2. upd' \in Updaters
    BY <1>2
       DEF Start, RollbackInv, UpdateTypeOK, Updaters, Markers, files, binaries, service, RunsInstalled
  <2>3. probation' \in Markers \cup {None}
    BY <1>2
       DEF Start, RollbackInv, UpdateTypeOK, Markers, Updaters, files, binaries, service, RunsInstalled
  <2>4. /\ latest' \in Versions /\ live' \in Binaries \cup {None}
        /\ backup' \in Binaries \cup {None} /\ unsynced' \in BOOLEAN
        /\ known_good' \in Binaries \cup {None}
        /\ known_bad' \in Versions \cup {None} /\ install_failures' \in Counts
        /\ update_failures' \in Nat /\ burst' \in 0 .. StartLimitBurst
        /\ upsets' \in 0 .. MaxUpsets /\ reverted' \in SUBSET Versions
    BY <1>2, UpdateAssumption
       DEF Start, RollbackInv, UpdateTypeOK, Markers, Updaters, Binaries, Judges, RunsInstalled, files,
           binaries, service
  <2>5. QED
    BY <2>1, <2>2, <2>3, <2>4 DEF UpdateTypeOK
<1>3. CASE StartLimitHit
  BY <1>3, UpdateAssumption
     DEF StartLimitHit, RollbackInv, UpdateTypeOK, files, binaries, service, Markers, Services,
         Updaters, Counts, Versions, Binaries, RunsInstalled, Judges
<1>4. CASE OperatorStarts
  <2>1. node' \in Services
    BY <1>4
       DEF OperatorStarts, RollbackInv, UpdateTypeOK, Services, Versions, files, binaries, service,
           RunsInstalled
  <2>2. upd' \in Updaters
    BY <1>4
       DEF OperatorStarts, RollbackInv, UpdateTypeOK, Updaters, Markers, files, binaries, service,
           RunsInstalled
  <2>3. probation' \in Markers \cup {None}
    BY <1>4
       DEF OperatorStarts, RollbackInv, UpdateTypeOK, Markers, Updaters, files, binaries, service,
           RunsInstalled
  <2>4. /\ latest' \in Versions /\ live' \in Binaries \cup {None}
        /\ backup' \in Binaries \cup {None} /\ unsynced' \in BOOLEAN
        /\ known_good' \in Binaries \cup {None}
        /\ known_bad' \in Versions \cup {None} /\ install_failures' \in Counts
        /\ update_failures' \in Nat /\ burst' \in 0 .. StartLimitBurst
        /\ upsets' \in 0 .. MaxUpsets /\ reverted' \in SUBSET Versions
    BY <1>4, UpdateAssumption
       DEF OperatorStarts, RollbackInv, UpdateTypeOK, Markers, Updaters, Binaries, Judges,
           RunsInstalled, files, binaries, service
  <2>5. QED
    BY <2>1, <2>2, <2>3, <2>4 DEF UpdateTypeOK
<1>5. CASE WedgedFails
  <2>1. node' \in Services
    BY <1>5
       DEF WedgedFails, Exits, RollbackInv, UpdateTypeOK, Services, Versions, files, binaries, service,
           RunsInstalled
  <2>2. upd' \in Updaters
    BY <1>5
       DEF WedgedFails, Exits, RollbackInv, UpdateTypeOK, Updaters, Markers, files, binaries, service,
           RunsInstalled
  <2>3. probation' \in Markers \cup {None}
    BY <1>5
       DEF WedgedFails, Exits, RollbackInv, UpdateTypeOK, Markers, Updaters, files, binaries, service,
           RunsInstalled
  <2>4. /\ latest' \in Versions /\ live' \in Binaries \cup {None}
        /\ backup' \in Binaries \cup {None} /\ unsynced' \in BOOLEAN
        /\ known_good' \in Binaries \cup {None}
        /\ known_bad' \in Versions \cup {None} /\ install_failures' \in Counts
        /\ update_failures' \in Nat /\ burst' \in 0 .. StartLimitBurst
        /\ upsets' \in 0 .. MaxUpsets /\ reverted' \in SUBSET Versions
    BY <1>5, UpdateAssumption
       DEF WedgedFails, Exits, RollbackInv, UpdateTypeOK, Markers, Updaters, Binaries, Judges,
           RunsInstalled, files, binaries, service
  <2>5. QED
    BY <2>1, <2>2, <2>3, <2>4 DEF UpdateTypeOK
<1>6. CASE NodeFails
  <2>1. node' \in Services
    BY <1>6
       DEF NodeFails, Upset, Exits, RollbackInv, UpdateTypeOK, Services, Versions, files, binaries,
           service, RunsInstalled
  <2>2. upd' \in Updaters
    BY <1>6
       DEF NodeFails, Upset, Exits, RollbackInv, UpdateTypeOK, Updaters, Markers, files, binaries,
           service, RunsInstalled
  <2>3. probation' \in Markers \cup {None}
    BY <1>6
       DEF NodeFails, Upset, Exits, RollbackInv, UpdateTypeOK, Markers, Updaters, files, binaries,
           service, RunsInstalled
  <2>4. /\ latest' \in Versions /\ live' \in Binaries \cup {None}
        /\ backup' \in Binaries \cup {None} /\ unsynced' \in BOOLEAN
        /\ known_good' \in Binaries \cup {None}
        /\ known_bad' \in Versions \cup {None} /\ install_failures' \in Counts
        /\ update_failures' \in Nat /\ burst' \in 0 .. StartLimitBurst
        /\ upsets' \in 0 .. MaxUpsets /\ reverted' \in SUBSET Versions
    BY <1>6, UpdateAssumption
       DEF NodeFails, Upset, Exits, RollbackInv, UpdateTypeOK, Markers, Updaters, Binaries, Judges,
           RunsInstalled, files, binaries, service
  <2>5. QED
    BY <2>1, <2>2, <2>3, <2>4 DEF UpdateTypeOK
<1>7. CASE Settles
  BY <1>7, UpdateAssumption
     DEF Settles, commit_probation, RollbackInv, UpdateTypeOK, files, binaries, service, Markers,
         Services, Updaters, Counts, Versions, Binaries, RunsInstalled, Judges
<1>8. CASE ExitsForUpdate
  <2>1. node' \in Services
    BY <1>8
       DEF ExitsForUpdate, Exits, RollbackInv, UpdateTypeOK, Services, Versions, files, binaries,
           service, RunsInstalled
  <2>2. upd' \in Updaters
    BY <1>8
       DEF ExitsForUpdate, Exits, RollbackInv, UpdateTypeOK, Updaters, Markers, files, binaries,
           service, RunsInstalled
  <2>3. probation' \in Markers \cup {None}
    BY <1>8
       DEF ExitsForUpdate, Exits, RollbackInv, UpdateTypeOK, Markers, Updaters, files, binaries,
           service, RunsInstalled
  <2>4. /\ latest' \in Versions /\ live' \in Binaries \cup {None}
        /\ backup' \in Binaries \cup {None} /\ unsynced' \in BOOLEAN
        /\ known_good' \in Binaries \cup {None}
        /\ known_bad' \in Versions \cup {None} /\ install_failures' \in Counts
        /\ update_failures' \in Nat /\ burst' \in 0 .. StartLimitBurst
        /\ upsets' \in 0 .. MaxUpsets /\ reverted' \in SUBSET Versions
    BY <1>8, UpdateAssumption
       DEF ExitsForUpdate, Exits, RollbackInv, UpdateTypeOK, Markers, Updaters, Binaries, Judges,
           RunsInstalled, files, binaries, service
  <2>5. QED
    BY <2>1, <2>2, <2>3, <2>4 DEF UpdateTypeOK
<1>9. CASE ExitsIsolated
  <2>1. node' \in Services
    BY <1>9
       DEF ExitsIsolated, Exits, RollbackInv, UpdateTypeOK, Services, Versions, files, binaries,
           service, RunsInstalled
  <2>2. upd' \in Updaters
    BY <1>9
       DEF ExitsIsolated, Exits, RollbackInv, UpdateTypeOK, Updaters, Markers, files, binaries,
           service, RunsInstalled
  <2>3. probation' \in Markers \cup {None}
    BY <1>9
       DEF ExitsIsolated, Exits, RollbackInv, UpdateTypeOK, Markers, Updaters, files, binaries,
           service, RunsInstalled
  <2>4. /\ latest' \in Versions /\ live' \in Binaries \cup {None}
        /\ backup' \in Binaries \cup {None} /\ unsynced' \in BOOLEAN
        /\ known_good' \in Binaries \cup {None}
        /\ known_bad' \in Versions \cup {None} /\ install_failures' \in Counts
        /\ update_failures' \in Nat /\ burst' \in 0 .. StartLimitBurst
        /\ upsets' \in 0 .. MaxUpsets /\ reverted' \in SUBSET Versions
    BY <1>9, UpdateAssumption
       DEF ExitsIsolated, Exits, RollbackInv, UpdateTypeOK, Markers, Updaters, Binaries, Judges,
           RunsInstalled, files, binaries, service
  <2>5. QED
    BY <2>1, <2>2, <2>3, <2>4 DEF UpdateTypeOK
<1>10. CASE Ages
  <2>1. node' \in Services
    BY <1>10
       DEF Ages, RollbackInv, UpdateTypeOK, Services, Versions, files, binaries, service, RunsInstalled
  <2>2. upd' \in Updaters
    BY <1>10
       DEF Ages, RollbackInv, UpdateTypeOK, Updaters, Markers, files, binaries, service, RunsInstalled
  <2>3. probation' \in Markers \cup {None}
    BY <1>10
       DEF Ages, RollbackInv, UpdateTypeOK, Markers, Updaters, files, binaries, service, RunsInstalled
  <2>4. /\ latest' \in Versions /\ live' \in Binaries \cup {None}
        /\ backup' \in Binaries \cup {None} /\ unsynced' \in BOOLEAN
        /\ known_good' \in Binaries \cup {None}
        /\ known_bad' \in Versions \cup {None} /\ install_failures' \in Counts
        /\ update_failures' \in Nat /\ burst' \in 0 .. StartLimitBurst
        /\ upsets' \in 0 .. MaxUpsets /\ reverted' \in SUBSET Versions
    BY <1>10, UpdateAssumption
       DEF Ages, RollbackInv, UpdateTypeOK, Markers, Updaters, Binaries, Judges, RunsInstalled, files,
           binaries, service
  <2>5. QED
    BY <2>1, <2>2, <2>3, <2>4 DEF UpdateTypeOK
<1>11. CASE PowerLoss
  <2>1. node' \in Services
    BY <1>11
       DEF PowerLoss, Survivors, Upset, Idle, RollbackInv, UpdateTypeOK, Services, Versions, files, binaries,
           service, RunsInstalled
  <2>2. upd' \in Updaters
    BY <1>11
       DEF PowerLoss, Survivors, Upset, Idle, RollbackInv, UpdateTypeOK, Updaters, Markers, files, binaries,
           service, RunsInstalled
  <2>3. probation' \in Markers \cup {None}
    BY <1>11
       DEF PowerLoss, Survivors, Upset, Idle, RollbackInv, UpdateTypeOK, Markers, Updaters, files, binaries,
           service, RunsInstalled
  <2>4. /\ latest' \in Versions /\ live' \in Binaries \cup {None}
        /\ backup' \in Binaries \cup {None} /\ unsynced' \in BOOLEAN
        /\ known_good' \in Binaries \cup {None}
        /\ known_bad' \in Versions \cup {None} /\ install_failures' \in Counts
        /\ update_failures' \in Nat /\ burst' \in 0 .. StartLimitBurst
        /\ upsets' \in 0 .. MaxUpsets /\ reverted' \in SUBSET Versions
    <3>1. live' \in Binaries \cup {None} /\ backup' \in Binaries \cup {None} /\ unsynced' \in BOOLEAN
      BY <1>11 DEF PowerLoss, Survivors, RollbackInv, UpdateTypeOK, Binaries
    <3>2. update_failures' \in Nat /\ burst' \in 0 .. StartLimitBurst /\ upsets' \in 0 .. MaxUpsets
      BY <1>11, UpdateAssumption DEF PowerLoss, Upset, RollbackInv, UpdateTypeOK
    <3>3. /\ latest' \in Versions /\ known_good' \in Binaries \cup {None}
          /\ known_bad' \in Versions \cup {None} /\ install_failures' \in Counts
          /\ reverted' \in SUBSET Versions
      BY <1>11 DEF PowerLoss, RollbackInv, UpdateTypeOK
    <3>4. QED
      BY <3>1, <3>2, <3>3
  <2>5. QED
    BY <2>1, <2>2, <2>3, <2>4 DEF UpdateTypeOK
<1>12. CASE BlobLost
  BY <1>12, UpdateAssumption
     DEF BlobLost, Upset, RollbackInv, UpdateTypeOK, files, binaries, service, Markers, Services,
         Updaters, Counts, Versions, Binaries, RunsInstalled, Judges
<1>13. CASE PostStop
  <2>1. node' \in Services
    BY <1>13
       DEF PostStop, Launched, RollbackInv, UpdateTypeOK, Services, Versions, files, binaries, service,
           RunsInstalled
  <2>2. upd' \in Updaters
    <3>1. CASE live \notin Versions
      BY <1>13, <3>1 DEF PostStop, RollbackInv, UpdateTypeOK
    <3>2. CASE live \in Versions
      <4>1. \/ upd' = Launched("judge", TRUE, FALSE)
            \/ upd' = Launched("fetch", TRUE, FALSE)
        BY <1>13, <3>2 DEF PostStop
      <4>2. QED
        BY <3>2, <4>1, LaunchedUpdater DEF PCs
    <3>3. QED
      BY <3>1, <3>2
  <2>3. probation' \in Markers \cup {None}
    BY <1>13
       DEF PostStop, Launched, RollbackInv, UpdateTypeOK, Markers, Updaters, files, binaries, service,
           RunsInstalled
  <2>4. /\ latest' \in Versions /\ live' \in Binaries \cup {None}
        /\ backup' \in Binaries \cup {None} /\ unsynced' \in BOOLEAN
        /\ known_good' \in Binaries \cup {None}
        /\ known_bad' \in Versions \cup {None} /\ install_failures' \in Counts
        /\ update_failures' \in Nat /\ burst' \in 0 .. StartLimitBurst
        /\ upsets' \in 0 .. MaxUpsets /\ reverted' \in SUBSET Versions
    BY <1>13, UpdateAssumption
       DEF PostStop, Launched, RollbackInv, UpdateTypeOK, Markers, Updaters, Binaries, Judges,
           RunsInstalled, files, binaries, service
  <2>5. QED
    BY <2>1, <2>2, <2>3, <2>4 DEF UpdateTypeOK
<1>14. CASE ManualUpdate
  <2>1. node' \in Services
    BY <1>14
       DEF ManualUpdate, Upset, Launched, RollbackInv, UpdateTypeOK, Services, Versions, files,
           binaries, service, RunsInstalled
  <2>2. upd' \in Updaters
    BY <1>14
       DEF ManualUpdate, Upset, Launched, RollbackInv, UpdateTypeOK, Updaters, Markers, files,
           binaries, service, RunsInstalled
  <2>3. probation' \in Markers \cup {None}
    BY <1>14
       DEF ManualUpdate, Upset, Launched, RollbackInv, UpdateTypeOK, Markers, Updaters, files,
           binaries, service, RunsInstalled
  <2>4. /\ latest' \in Versions /\ live' \in Binaries \cup {None}
        /\ backup' \in Binaries \cup {None} /\ unsynced' \in BOOLEAN
        /\ known_good' \in Binaries \cup {None}
        /\ known_bad' \in Versions \cup {None} /\ install_failures' \in Counts
        /\ update_failures' \in Nat /\ burst' \in 0 .. StartLimitBurst
        /\ upsets' \in 0 .. MaxUpsets /\ reverted' \in SUBSET Versions
    BY <1>14, UpdateAssumption
       DEF ManualUpdate, Upset, Launched, RollbackInv, UpdateTypeOK, Markers, Updaters, Binaries,
           Judges, RunsInstalled, files, binaries, service
  <2>5. QED
    BY <2>1, <2>2, <2>3, <2>4 DEF UpdateTypeOK
<1>15. CASE ProceedsAfterCrash
  BY <1>15, UpdateAssumption
     DEF ProceedsAfterCrash, Goto, RollbackInv, UpdateTypeOK, files, binaries, service, Markers,
         Services, Updaters, Counts, Versions, Binaries, RunsInstalled, Judges
<1>16. CASE CountsCrash
  <2>1. node' \in Services
    BY <1>16
       DEF CountsCrash, Goto, Ends, Idle, Upset, OnProbation, RollbackInv, UpdateTypeOK, Services,
           Versions, files, binaries, service, RunsInstalled
  <2>2. upd' \in Updaters
    BY <1>16, GotoUpdater, EndsUpdater DEF CountsCrash, RollbackInv, UpdateTypeOK, PCs
  <2>3. probation' \in Markers \cup {None}
    BY <1>16
       DEF CountsCrash, Goto, Ends, Idle, Upset, OnProbation, RollbackInv, UpdateTypeOK, Markers,
           Updaters, files, binaries, service, RunsInstalled
  <2>4. /\ latest' \in Versions /\ live' \in Binaries \cup {None}
        /\ backup' \in Binaries \cup {None} /\ unsynced' \in BOOLEAN
        /\ known_good' \in Binaries \cup {None}
        /\ known_bad' \in Versions \cup {None} /\ install_failures' \in Counts
        /\ update_failures' \in Nat /\ burst' \in 0 .. StartLimitBurst
        /\ upsets' \in 0 .. MaxUpsets /\ reverted' \in SUBSET Versions
    BY <1>16, UpdateAssumption
       DEF CountsCrash, Goto, Ends, Idle, Upset, OnProbation, RollbackInv, UpdateTypeOK, Markers,
           Updaters, Binaries, Judges, RunsInstalled, files, binaries, service
  <2>5. QED
    BY <2>1, <2>2, <2>3, <2>4 DEF UpdateTypeOK
<1>17. CASE Verifies
  <2>1. node' \in Services
    BY <1>17
       DEF Verifies, Goto, Ends, Idle, RollbackInv, UpdateTypeOK, Services, Versions, files, binaries,
           service, RunsInstalled
  <2>2. upd' \in Updaters
    BY <1>17, GotoUpdater, EndsUpdater DEF Verifies, RollbackInv, UpdateTypeOK, PCs
  <2>3. probation' \in Markers \cup {None}
    BY <1>17
       DEF Verifies, Goto, Ends, Idle, RollbackInv, UpdateTypeOK, Markers, Updaters, files, binaries,
           service, RunsInstalled
  <2>4. /\ latest' \in Versions /\ live' \in Binaries \cup {None}
        /\ backup' \in Binaries \cup {None} /\ unsynced' \in BOOLEAN
        /\ known_good' \in Binaries \cup {None}
        /\ known_bad' \in Versions \cup {None} /\ install_failures' \in Counts
        /\ update_failures' \in Nat /\ burst' \in 0 .. StartLimitBurst
        /\ upsets' \in 0 .. MaxUpsets /\ reverted' \in SUBSET Versions
    BY <1>17, UpdateAssumption
       DEF Verifies, Goto, Ends, Idle, RollbackInv, UpdateTypeOK, Markers, Updaters, Binaries, Judges,
           RunsInstalled, files, binaries, service
  <2>5. QED
    BY <2>1, <2>2, <2>3, <2>4 DEF UpdateTypeOK
<1>18. CASE CannotVerify
  BY <1>18, UpdateAssumption
     DEF CannotVerify, Upset, Ends, Idle, RollbackInv, UpdateTypeOK, files, binaries, service,
         Markers, Services, Updaters, Counts, Versions, Binaries, RunsInstalled, Judges
<1>19. CASE pin_known_bad
  <2>1. node' \in Services
    BY <1>19
       DEF pin_known_bad, Goto, Upset, Ends, Idle, RollbackInv, UpdateTypeOK, Services, Versions,
           files, binaries, service, RunsInstalled
  <2>2. upd' \in Updaters
    BY <1>19, GotoUpdater, EndsUpdater DEF pin_known_bad, RollbackInv, UpdateTypeOK, PCs
  <2>3. probation' \in Markers \cup {None}
    BY <1>19
       DEF pin_known_bad, Goto, Upset, Ends, Idle, RollbackInv, UpdateTypeOK, Markers, Updaters, files,
           binaries, service, RunsInstalled
  <2>4. /\ latest' \in Versions /\ live' \in Binaries \cup {None}
        /\ backup' \in Binaries \cup {None} /\ unsynced' \in BOOLEAN
        /\ known_good' \in Binaries \cup {None}
        /\ known_bad' \in Versions \cup {None} /\ install_failures' \in Counts
        /\ update_failures' \in Nat /\ burst' \in 0 .. StartLimitBurst
        /\ upsets' \in 0 .. MaxUpsets /\ reverted' \in SUBSET Versions
    BY <1>19, UpdateAssumption
       DEF pin_known_bad, Goto, Upset, Ends, Idle, RollbackInv, UpdateTypeOK, Markers, Updaters,
           Binaries, Judges, RunsInstalled, files, binaries, service
  <2>5. QED
    BY <2>1, <2>2, <2>3, <2>4 DEF UpdateTypeOK
<1>20. CASE restore_binary
  <2>1. node' \in Services
    BY <1>20
       DEF restore_binary, Goto, Upset, Ends, Idle, RollbackInv, UpdateTypeOK, Services, Versions,
           files, binaries, service, RunsInstalled
  <2>2. upd' \in Updaters
    BY <1>20, GotoUpdater, EndsUpdater DEF restore_binary, RollbackInv, UpdateTypeOK, PCs
  <2>3. probation' \in Markers \cup {None}
    BY <1>20
       DEF restore_binary, Goto, Upset, Ends, Idle, RollbackInv, UpdateTypeOK, Markers, Updaters,
           files, binaries, service, RunsInstalled
  <2>4. /\ latest' \in Versions /\ live' \in Binaries \cup {None}
        /\ backup' \in Binaries \cup {None} /\ unsynced' \in BOOLEAN
        /\ known_good' \in Binaries \cup {None}
        /\ known_bad' \in Versions \cup {None} /\ install_failures' \in Counts
        /\ update_failures' \in Nat /\ burst' \in 0 .. StartLimitBurst
        /\ upsets' \in 0 .. MaxUpsets /\ reverted' \in SUBSET Versions
    <3>1. probation.new \in Versions
      <4>1. probation \in Markers
        BY <1>20 DEF restore_binary, RollbackInv, UpdateTypeOK, Judges
      <4>2. QED
        BY <4>1 DEF Markers
    <3>2. /\ live' \in Binaries \cup {None} /\ unsynced' \in BOOLEAN
          /\ reverted' \in SUBSET Versions /\ upsets' \in 0 .. MaxUpsets
      <4>1. CASE live' = known_good /\ unsynced' = FALSE /\ reverted' = reverted \cup {probation.new} /\ UNCHANGED upsets
        BY <3>1, <4>1 DEF RollbackInv, UpdateTypeOK
      <4>2. CASE UNCHANGED <<live, unsynced, reverted>> /\ Upset
        <5>1. upsets' \in 0 .. MaxUpsets
          BY <4>2, UpdateAssumption DEF Upset, RollbackInv, UpdateTypeOK
        <5>2. QED
          BY <4>2, <5>1 DEF RollbackInv, UpdateTypeOK
      <4>3. QED
        BY <1>20, <4>1, <4>2 DEF restore_binary
    <3>3. /\ latest' \in Versions /\ backup' \in Binaries \cup {None}
          /\ known_good' \in Binaries \cup {None}
          /\ known_bad' \in Versions \cup {None} /\ install_failures' \in Counts
          /\ update_failures' \in Nat /\ burst' \in 0 .. StartLimitBurst
      BY <1>20 DEF restore_binary, RollbackInv, UpdateTypeOK, files
    <3>4. QED
      BY <3>2, <3>3
  <2>5. QED
    BY <2>1, <2>2, <2>3, <2>4 DEF UpdateTypeOK
<1>21. CASE RolledBack
  BY <1>21, UpdateAssumption
     DEF RolledBack, Ends, Idle, RollbackInv, UpdateTypeOK, files, binaries, service, Markers,
         Services, Updaters, Counts, Versions, Binaries, RunsInstalled, Judges
<1>22. CASE AlreadyUpToDate
  BY <1>22, UpdateAssumption
     DEF AlreadyUpToDate, Ends, Idle, RollbackInv, UpdateTypeOK, files, binaries, service, Markers,
         Services, Updaters, Counts, Versions, Binaries, RunsInstalled, Judges
<1>23. CASE RefusesBlocked
  BY <1>23, UpdateAssumption
     DEF RefusesBlocked, Ends, Idle, RollbackInv, UpdateTypeOK, files, binaries, service, Markers,
         Services, Updaters, Counts, Versions, Binaries, RunsInstalled, Judges
<1>24. CASE Fetches
  <2>1. node' \in Services
    BY <1>24
       DEF Fetches, RollbackInv, UpdateTypeOK, Services, Versions, files, binaries, service,
           RunsInstalled
  <2>2. upd' \in Updaters
    BY <1>24
       DEF Fetches, RollbackInv, UpdateTypeOK, Updaters, Markers, files, binaries, service,
           RunsInstalled
  <2>3. probation' \in Markers \cup {None}
    BY <1>24
       DEF Fetches, RollbackInv, UpdateTypeOK, Markers, Updaters, files, binaries, service,
           RunsInstalled
  <2>4. /\ latest' \in Versions /\ live' \in Binaries \cup {None}
        /\ backup' \in Binaries \cup {None} /\ unsynced' \in BOOLEAN
        /\ known_good' \in Binaries \cup {None}
        /\ known_bad' \in Versions \cup {None} /\ install_failures' \in Counts
        /\ update_failures' \in Nat /\ burst' \in 0 .. StartLimitBurst
        /\ upsets' \in 0 .. MaxUpsets /\ reverted' \in SUBSET Versions
    BY <1>24, UpdateAssumption
       DEF Fetches, RollbackInv, UpdateTypeOK, Markers, Updaters, Binaries, Judges, RunsInstalled,
           files, binaries, service
  <2>5. QED
    BY <2>1, <2>2, <2>3, <2>4 DEF UpdateTypeOK
<1>25. CASE FailsInTransit
  BY <1>25, UpdateAssumption
     DEF FailsInTransit, Upset, Ends, Idle, RollbackInv, UpdateTypeOK, files, binaries, service,
         Markers, Services, Updaters, Counts, Versions, Binaries, RunsInstalled, Judges
<1>26. CASE VerificationFails
  BY <1>26, UpdateAssumption
     DEF VerificationFails, Upset, Ends, Idle, FailureRecorded, RollbackInv, UpdateTypeOK, files,
         binaries, service, Markers, Services, Updaters, Counts, Versions, Binaries, RunsInstalled,
         Judges
<1>27. CASE Downloads
  BY <1>27, UpdateAssumption
     DEF Downloads, Goto, RollbackInv, UpdateTypeOK, files, binaries, service, Markers, Services,
         Updaters, Counts, Versions, Binaries, RunsInstalled, Judges
<1>28. CASE prepare_known_good
  <2>1. node' \in Services
    BY <1>28
       DEF prepare_known_good, Chained, OnProbation, Upset, RollbackInv, UpdateTypeOK, Services,
           Versions, files, binaries, service, RunsInstalled
  <2>2. upd' \in Updaters
    <3>1. upd \in Updaters /\ live \in Versions /\ upd.version \in Versions
      BY <1>28 DEF prepare_known_good, RollbackInv, UpdateTypeOK, RunsInstalled, Updaters
    <3>2. CASE upd' = [upd EXCEPT !.pc = "aside"]
      BY <3>1, <3>2 DEF Updaters
    <3>3. ASSUME NEW k \in [blob : Versions, previous : Versions],
                 upd' = [upd EXCEPT !.pc = "aside", !.keep = k]
          PROVE  upd' \in Updaters
      BY <3>1, <3>3 DEF Updaters
    <3>4. Chained => [blob |-> probation.blob, previous |-> probation.previous]
                       \in [blob : Versions, previous : Versions]
      BY DEF Chained, OnProbation, RollbackInv, UpdateTypeOK, Markers
    <3>5. [blob |-> live, previous |-> upd.version] \in [blob : Versions, previous : Versions]
      BY <3>1
    <3>6. QED
      BY <1>28, <3>2, <3>3, <3>4, <3>5 DEF prepare_known_good
  <2>3. probation' \in Markers \cup {None}
    BY <1>28
       DEF prepare_known_good, Chained, OnProbation, Upset, RollbackInv, UpdateTypeOK, Markers,
           Updaters, files, binaries, service, RunsInstalled
  <2>4. /\ latest' \in Versions /\ live' \in Binaries \cup {None}
        /\ backup' \in Binaries \cup {None} /\ unsynced' \in BOOLEAN
        /\ known_good' \in Binaries \cup {None}
        /\ known_bad' \in Versions \cup {None} /\ install_failures' \in Counts
        /\ update_failures' \in Nat /\ burst' \in 0 .. StartLimitBurst
        /\ upsets' \in 0 .. MaxUpsets /\ reverted' \in SUBSET Versions
    BY <1>28, UpdateAssumption
       DEF prepare_known_good, Chained, OnProbation, Upset, RollbackInv, UpdateTypeOK, Markers,
           Updaters, Binaries, Judges, RunsInstalled, files, binaries, service
  <2>5. QED
    BY <2>1, <2>2, <2>3, <2>4 DEF UpdateTypeOK
<1>29. CASE MovesAside
  <2>1. node' \in Services
    BY <1>29
       DEF MovesAside, Goto, Upset, Ends, Idle, RollbackInv, UpdateTypeOK, Services, Versions, files,
           binaries, service, RunsInstalled
  <2>2. upd' \in Updaters
    BY <1>29, GotoUpdater, EndsUpdater DEF MovesAside, RollbackInv, UpdateTypeOK, PCs
  <2>3. probation' \in Markers \cup {None}
    BY <1>29
       DEF MovesAside, Goto, Upset, Ends, Idle, RollbackInv, UpdateTypeOK, Markers, Updaters, files,
           binaries, service, RunsInstalled
  <2>4. /\ latest' \in Versions /\ live' \in Binaries \cup {None}
        /\ backup' \in Binaries \cup {None} /\ unsynced' \in BOOLEAN
        /\ known_good' \in Binaries \cup {None}
        /\ known_bad' \in Versions \cup {None} /\ install_failures' \in Counts
        /\ update_failures' \in Nat /\ burst' \in 0 .. StartLimitBurst
        /\ upsets' \in 0 .. MaxUpsets /\ reverted' \in SUBSET Versions
    BY <1>29, UpdateAssumption
       DEF MovesAside, Goto, Upset, Ends, Idle, RollbackInv, UpdateTypeOK, Markers, Updaters, Binaries,
           Judges, RunsInstalled, files, binaries, service
  <2>5. QED
    BY <2>1, <2>2, <2>3, <2>4 DEF UpdateTypeOK
<1>30. CASE MovesIn
  BY <1>30, UpdateAssumption
     DEF MovesIn, Goto, RollbackInv, UpdateTypeOK, files, binaries, service, Markers, Services,
         Updaters, Counts, Versions, Binaries, RunsInstalled, Judges
<1>31. CASE MoveInFails
  BY <1>31, UpdateAssumption
     DEF MoveInFails, Upset, Ends, Idle, RollbackInv, UpdateTypeOK, files, binaries, service,
         Markers, Services, Updaters, Counts, Versions, Binaries, RunsInstalled, Judges
<1>32. CASE ClearsPin
  BY <1>32, UpdateAssumption
     DEF ClearsPin, Goto, RollbackInv, UpdateTypeOK, files, binaries, service, Markers, Services,
         Updaters, Counts, Versions, Binaries, RunsInstalled, Judges
<1>33. CASE begin_probation
  <2>1. node' \in Services
    BY <1>33
       DEF begin_probation, Marker, Upset, Goto, RollbackInv, UpdateTypeOK, Services, Versions, files,
           binaries, service, RunsInstalled
  <2>2. upd' \in Updaters
    BY <1>33
       DEF begin_probation, Marker, Upset, Goto, RollbackInv, UpdateTypeOK, Updaters, Markers, files,
           binaries, service, RunsInstalled
  <2>3. probation' \in Markers \cup {None}
    <3>1. upd.target \in Versions /\ upd.keep \in [blob : Versions, previous : Versions]
      BY <1>33 DEF begin_probation, RollbackInv, UpdateTypeOK, Updaters, RunsInstalled
    <3>2. Marker \in Markers
      BY <3>1 DEF Marker, Markers
    <3>3. QED
      BY <1>33, <3>2 DEF begin_probation, RollbackInv, UpdateTypeOK
  <2>4. /\ latest' \in Versions /\ live' \in Binaries \cup {None}
        /\ backup' \in Binaries \cup {None} /\ unsynced' \in BOOLEAN
        /\ known_good' \in Binaries \cup {None}
        /\ known_bad' \in Versions \cup {None} /\ install_failures' \in Counts
        /\ update_failures' \in Nat /\ burst' \in 0 .. StartLimitBurst
        /\ upsets' \in 0 .. MaxUpsets /\ reverted' \in SUBSET Versions
    BY <1>33, UpdateAssumption
       DEF begin_probation, Marker, Upset, Goto, RollbackInv, UpdateTypeOK, Markers, Updaters,
           Binaries, Judges, RunsInstalled, files, binaries, service
  <2>5. QED
    BY <2>1, <2>2, <2>3, <2>4 DEF UpdateTypeOK
<1>34. CASE Installed
  <2>1. node' \in Services
    BY <1>34
       DEF Installed, Ends, Idle, RollbackInv, UpdateTypeOK, Services, Versions, files, binaries,
           service, RunsInstalled
  <2>2. upd' \in Updaters
    BY <1>34, IdleUpdater DEF Installed, Ends
  <2>3. probation' \in Markers \cup {None}
    BY <1>34
       DEF Installed, Ends, Idle, RollbackInv, UpdateTypeOK, Markers, Updaters, files, binaries,
           service, RunsInstalled
  <2>4. /\ latest' \in Versions /\ live' \in Binaries \cup {None}
        /\ backup' \in Binaries \cup {None} /\ unsynced' \in BOOLEAN
        /\ known_good' \in Binaries \cup {None}
        /\ known_bad' \in Versions \cup {None} /\ install_failures' \in Counts
        /\ update_failures' \in Nat /\ burst' \in 0 .. StartLimitBurst
        /\ upsets' \in 0 .. MaxUpsets /\ reverted' \in SUBSET Versions
    BY <1>34, UpdateAssumption
       DEF Installed, Ends, Idle, RollbackInv, UpdateTypeOK, Markers, Updaters, Binaries, Counts,
           Judges, RunsInstalled, files, binaries, service
  <2>5. QED
    BY <2>1, <2>2, <2>3, <2>4 DEF UpdateTypeOK
<1>35. CASE Killed
  BY <1>35, UpdateAssumption
     DEF Killed, Upset, Ends, Idle, RollbackInv, UpdateTypeOK, files, binaries, service, Markers,
         Services, Updaters, Counts, Versions, Binaries, RunsInstalled, Judges
<1>36. CASE UNCHANGED vars
  BY <1>36 DEF vars, RollbackInv, UpdateTypeOK, files, binaries, service
<1>37. CASE WrittenBack
  BY <1>37 DEF WrittenBack, RollbackInv, UpdateTypeOK, files, service
<1>38. QED
  BY <1>1, <1>2, <1>3, <1>4, <1>5, <1>6, <1>7, <1>8, <1>9, <1>10, <1>11, <1>12, <1>13, <1>14,
     <1>15, <1>16, <1>17, <1>18, <1>19, <1>20, <1>21, <1>22, <1>23, <1>24, <1>25, <1>26, <1>27,
     <1>28, <1>29, <1>30, <1>31, <1>32, <1>33, <1>34, <1>35, <1>36, <1>37
     DEF Next, Supervisor, Updater, Node, Environment

\* Every step keeps blob and label together.
LEMMA StepKeepsLabels == RollbackInv /\ [Next]_vars => LabelsAgree'
<1> SUFFICES ASSUME RollbackInv, [Next]_vars PROVE LabelsAgree'
  OBVIOUS
<1>1. CASE Release
  BY <1>1, UpdateAssumption
     DEF Release, RollbackInv, UpdateTypeOK, Services, Updaters, Markers, LabelsAgree, RunsInstalled,
         files, binaries, service
<1>2. CASE Start
  BY <1>2, UpdateAssumption
     DEF Start, RollbackInv, UpdateTypeOK, Services, Updaters, Markers, LabelsAgree, RunsInstalled,
         files, binaries, service
<1>3. CASE StartLimitHit
  BY <1>3, UpdateAssumption
     DEF StartLimitHit, RollbackInv, UpdateTypeOK, Services, Updaters, Markers, LabelsAgree,
         RunsInstalled, files, binaries, service
<1>4. CASE OperatorStarts
  BY <1>4, UpdateAssumption
     DEF OperatorStarts, RollbackInv, UpdateTypeOK, Services, Updaters, Markers, LabelsAgree,
         RunsInstalled, files, binaries, service
<1>5. CASE WedgedFails
  BY <1>5, UpdateAssumption
     DEF WedgedFails, Exits, RollbackInv, UpdateTypeOK, Services, Updaters, Markers, LabelsAgree,
         RunsInstalled, files, binaries, service
<1>6. CASE NodeFails
  BY <1>6, UpdateAssumption
     DEF NodeFails, Upset, Exits, RollbackInv, UpdateTypeOK, Services, Updaters, Markers,
         LabelsAgree, RunsInstalled, files, binaries, service
<1>7. CASE Settles
  BY <1>7, UpdateAssumption
     DEF Settles, commit_probation, RollbackInv, UpdateTypeOK, Services, Updaters, Markers,
         LabelsAgree, RunsInstalled, files, binaries, service
<1>8. CASE ExitsForUpdate
  BY <1>8, UpdateAssumption
     DEF ExitsForUpdate, Exits, RollbackInv, UpdateTypeOK, Services, Updaters, Markers, LabelsAgree,
         RunsInstalled, files, binaries, service
<1>9. CASE ExitsIsolated
  BY <1>9, UpdateAssumption
     DEF ExitsIsolated, Exits, RollbackInv, UpdateTypeOK, Services, Updaters, Markers, LabelsAgree,
         RunsInstalled, files, binaries, service
<1>10. CASE Ages
  BY <1>10, UpdateAssumption
     DEF Ages, RollbackInv, UpdateTypeOK, Services, Updaters, Markers, LabelsAgree, RunsInstalled,
         files, binaries, service
<1>11. CASE PowerLoss
  BY <1>11, UpdateAssumption
     DEF PowerLoss, Survivors, Upset, Idle, RollbackInv, UpdateTypeOK, Services, Updaters, Markers, LabelsAgree,
         RunsInstalled, files, binaries, service
<1>12. CASE BlobLost
  BY <1>12, UpdateAssumption
     DEF BlobLost, Upset, RollbackInv, UpdateTypeOK, Services, Updaters, Markers, LabelsAgree,
         RunsInstalled, files, binaries, service
<1>13. CASE PostStop
  BY <1>13, UpdateAssumption
     DEF PostStop, Launched, RollbackInv, UpdateTypeOK, Services, Updaters, Markers, LabelsAgree,
         RunsInstalled, files, binaries, service
<1>14. CASE ManualUpdate
  BY <1>14, UpdateAssumption
     DEF ManualUpdate, Upset, Launched, RollbackInv, UpdateTypeOK, Services, Updaters, Markers,
         LabelsAgree, RunsInstalled, files, binaries, service
<1>15. CASE ProceedsAfterCrash
  BY <1>15, UpdateAssumption
     DEF ProceedsAfterCrash, Goto, RollbackInv, UpdateTypeOK, Services, Updaters, Markers,
         LabelsAgree, RunsInstalled, files, binaries, service
<1>16. CASE CountsCrash
  BY <1>16, UpdateAssumption
     DEF CountsCrash, Goto, Ends, Idle, Upset, OnProbation, RollbackInv, UpdateTypeOK, Services,
         Updaters, Markers, LabelsAgree, RunsInstalled, files, binaries, service
<1>17. CASE Verifies
  BY <1>17, UpdateAssumption
     DEF Verifies, Goto, Ends, Idle, RollbackInv, UpdateTypeOK, Services, Updaters, Markers,
         LabelsAgree, RunsInstalled, files, binaries, service
<1>18. CASE CannotVerify
  BY <1>18, UpdateAssumption
     DEF CannotVerify, Upset, Ends, Idle, RollbackInv, UpdateTypeOK, Services, Updaters, Markers,
         LabelsAgree, RunsInstalled, files, binaries, service
<1>19. CASE pin_known_bad
  BY <1>19, UpdateAssumption
     DEF pin_known_bad, Goto, Upset, Ends, Idle, RollbackInv, UpdateTypeOK, Services, Updaters,
         Markers, LabelsAgree, RunsInstalled, files, binaries, service
<1>20. CASE restore_binary
  BY <1>20, UpdateAssumption
     DEF restore_binary, Goto, Upset, Ends, Idle, RollbackInv, UpdateTypeOK, Services, Updaters,
         Markers, LabelsAgree, RunsInstalled, files, binaries, service
<1>21. CASE RolledBack
  BY <1>21, UpdateAssumption
     DEF RolledBack, Ends, Idle, RollbackInv, UpdateTypeOK, Services, Updaters, Markers, LabelsAgree,
         RunsInstalled, files, binaries, service
<1>22. CASE AlreadyUpToDate
  BY <1>22, UpdateAssumption
     DEF AlreadyUpToDate, Ends, Idle, RollbackInv, UpdateTypeOK, Services, Updaters, Markers,
         LabelsAgree, RunsInstalled, files, binaries, service
<1>23. CASE RefusesBlocked
  BY <1>23, UpdateAssumption
     DEF RefusesBlocked, Ends, Idle, RollbackInv, UpdateTypeOK, Services, Updaters, Markers,
         LabelsAgree, RunsInstalled, files, binaries, service
<1>24. CASE Fetches
  BY <1>24, UpdateAssumption
     DEF Fetches, RollbackInv, UpdateTypeOK, Services, Updaters, Markers, LabelsAgree, RunsInstalled,
         files, binaries, service
<1>25. CASE FailsInTransit
  BY <1>25, UpdateAssumption
     DEF FailsInTransit, Upset, Ends, Idle, RollbackInv, UpdateTypeOK, Services, Updaters, Markers,
         LabelsAgree, RunsInstalled, files, binaries, service
<1>26. CASE VerificationFails
  BY <1>26, UpdateAssumption
     DEF VerificationFails, Upset, Ends, Idle, RollbackInv, UpdateTypeOK, Services, Updaters,
         Markers, LabelsAgree, RunsInstalled, files, binaries, service
<1>27. CASE Downloads
  BY <1>27, UpdateAssumption
     DEF Downloads, Goto, RollbackInv, UpdateTypeOK, Services, Updaters, Markers, LabelsAgree,
         RunsInstalled, files, binaries, service
<1>28. CASE prepare_known_good
  BY <1>28, KeepsTarget DEF RollbackInv, LabelsAgree
<1>29. CASE MovesAside
  BY <1>29, UpdateAssumption
     DEF MovesAside, Goto, Upset, Ends, Idle, RollbackInv, UpdateTypeOK, Services, Updaters, Markers,
         LabelsAgree, RunsInstalled, files, binaries, service
<1>30. CASE MovesIn
  BY <1>30, UpdateAssumption
     DEF MovesIn, Goto, RollbackInv, UpdateTypeOK, Services, Updaters, Markers, LabelsAgree,
         RunsInstalled, files, binaries, service
<1>31. CASE MoveInFails
  BY <1>31, UpdateAssumption
     DEF MoveInFails, Upset, Ends, Idle, RollbackInv, UpdateTypeOK, Services, Updaters, Markers,
         LabelsAgree, RunsInstalled, files, binaries, service
<1>32. CASE ClearsPin
  BY <1>32, UpdateAssumption
     DEF ClearsPin, Goto, RollbackInv, UpdateTypeOK, Services, Updaters, Markers, LabelsAgree,
         RunsInstalled, files, binaries, service
<1>33. CASE begin_probation
  BY <1>33, UpdateAssumption
     DEF begin_probation, Marker, Upset, Goto, RollbackInv, UpdateTypeOK, Services, Updaters,
         Markers, LabelsAgree, RunsInstalled, files, binaries, service
<1>34. CASE Installed
  BY <1>34, UpdateAssumption
     DEF Installed, Ends, Idle, RollbackInv, UpdateTypeOK, Services, Updaters, Markers, LabelsAgree,
         RunsInstalled, files, binaries, service
<1>35. CASE Killed
  BY <1>35, UpdateAssumption
     DEF Killed, Upset, Ends, Idle, RollbackInv, UpdateTypeOK, Services, Updaters, Markers,
         LabelsAgree, RunsInstalled, files, binaries, service
<1>36. CASE UNCHANGED vars
  BY <1>36
     DEF vars, RollbackInv, UpdateTypeOK, Services, Updaters, Markers, LabelsAgree, RunsInstalled,
         files, binaries, service
<1>37. CASE WrittenBack
  BY <1>37 DEF WrittenBack, RollbackInv, LabelsAgree, files, service
<1>38. QED
  BY <1>1, <1>2, <1>3, <1>4, <1>5, <1>6, <1>7, <1>8, <1>9, <1>10, <1>11, <1>12, <1>13, <1>14,
     <1>15, <1>16, <1>17, <1>18, <1>19, <1>20, <1>21, <1>22, <1>23, <1>24, <1>25, <1>26, <1>27,
     <1>28, <1>29, <1>30, <1>31, <1>32, <1>33, <1>34, <1>35, <1>36, <1>37
     DEF Next, Supervisor, Updater, Node, Environment

\* Every step keeps the updater running from the live binary until it moves it aside.
LEMMA StepKeepsInstalled == RollbackInv /\ [Next]_vars => RunsInstalled'
<1> SUFFICES ASSUME RollbackInv, [Next]_vars PROVE RunsInstalled'
  OBVIOUS
<1>1. CASE Release
  BY <1>1, UpdateAssumption
     DEF Release, RollbackInv, UpdateTypeOK, Services, Updaters, Markers, RunsInstalled, Versions,
         files, binaries, service
<1>2. CASE Start
  BY <1>2, UpdateAssumption
     DEF Start, RollbackInv, UpdateTypeOK, Services, Updaters, Markers, RunsInstalled, Versions,
         files, binaries, service
<1>3. CASE StartLimitHit
  BY <1>3, UpdateAssumption
     DEF StartLimitHit, RollbackInv, UpdateTypeOK, Services, Updaters, Markers, RunsInstalled,
         Versions, files, binaries, service
<1>4. CASE OperatorStarts
  BY <1>4, UpdateAssumption
     DEF OperatorStarts, RollbackInv, UpdateTypeOK, Services, Updaters, Markers, RunsInstalled,
         Versions, files, binaries, service
<1>5. CASE WedgedFails
  BY <1>5, UpdateAssumption
     DEF WedgedFails, Exits, RollbackInv, UpdateTypeOK, Services, Updaters, Markers, RunsInstalled,
         Versions, files, binaries, service
<1>6. CASE NodeFails
  BY <1>6, UpdateAssumption
     DEF NodeFails, Upset, Exits, RollbackInv, UpdateTypeOK, Services, Updaters, Markers,
         RunsInstalled, Versions, files, binaries, service
<1>7. CASE Settles
  BY <1>7, UpdateAssumption
     DEF Settles, commit_probation, RollbackInv, UpdateTypeOK, Services, Updaters, Markers,
         RunsInstalled, Versions, files, binaries, service
<1>8. CASE ExitsForUpdate
  BY <1>8, UpdateAssumption
     DEF ExitsForUpdate, Exits, RollbackInv, UpdateTypeOK, Services, Updaters, Markers,
         RunsInstalled, Versions, files, binaries, service
<1>9. CASE ExitsIsolated
  BY <1>9, UpdateAssumption
     DEF ExitsIsolated, Exits, RollbackInv, UpdateTypeOK, Services, Updaters, Markers, RunsInstalled,
         Versions, files, binaries, service
<1>10. CASE Ages
  BY <1>10, UpdateAssumption
     DEF Ages, RollbackInv, UpdateTypeOK, Services, Updaters, Markers, RunsInstalled, Versions,
         files, binaries, service
<1>11. CASE PowerLoss
  BY <1>11, UpdateAssumption
     DEF PowerLoss, Survivors, Upset, Idle, RollbackInv, UpdateTypeOK, Services, Updaters, Markers,
         RunsInstalled, Versions, files, binaries, service
<1>12. CASE BlobLost
  BY <1>12, UpdateAssumption
     DEF BlobLost, Upset, RollbackInv, UpdateTypeOK, Services, Updaters, Markers, RunsInstalled,
         Versions, files, binaries, service
<1>13. CASE PostStop
  <2>1. CASE live \in Versions
    <3>1. upd'.pc \in {"judge", "fetch"} /\ upd'.version = live /\ live' = live
      BY <1>13, <2>1 DEF PostStop, Launched, binaries
    <3>2. live # None
      BY <2>1, UpdateAssumption DEF Binaries
    <3>3. QED
      BY <3>1, <3>2 DEF RunsInstalled
  <2>2. CASE live \notin Versions
    BY <1>13, <2>2 DEF PostStop, RollbackInv, RunsInstalled, binaries
  <2>3. QED
    BY <2>1, <2>2
<1>14. CASE ManualUpdate
  <2>1. upd'.pc = "fetch" /\ upd'.version = live /\ live' = live /\ live \in Versions
    BY <1>14 DEF ManualUpdate, Launched, binaries
  <2>2. live # None
    BY <2>1, UpdateAssumption DEF Binaries
  <2>3. QED
    BY <2>1, <2>2 DEF RunsInstalled
<1>15. CASE ProceedsAfterCrash
  BY <1>15, UpdateAssumption
     DEF ProceedsAfterCrash, Goto, RollbackInv, UpdateTypeOK, Services, Updaters, Markers,
         RunsInstalled, Versions, files, binaries, service
<1>16. CASE CountsCrash
  BY <1>16, UpdateAssumption
     DEF CountsCrash, Goto, Ends, Idle, Upset, OnProbation, RollbackInv, UpdateTypeOK, Services,
         Updaters, Markers, RunsInstalled, Versions, files, binaries, service
<1>17. CASE Verifies
  BY <1>17, UpdateAssumption
     DEF Verifies, Goto, Ends, Idle, RollbackInv, UpdateTypeOK, Services, Updaters, Markers,
         RunsInstalled, Versions, files, binaries, service
<1>18. CASE CannotVerify
  BY <1>18, UpdateAssumption
     DEF CannotVerify, Upset, Ends, Idle, RollbackInv, UpdateTypeOK, Services, Updaters, Markers,
         RunsInstalled, Versions, files, binaries, service
<1>19. CASE pin_known_bad
  BY <1>19, UpdateAssumption
     DEF pin_known_bad, Goto, Upset, Ends, Idle, RollbackInv, UpdateTypeOK, Services, Updaters,
         Markers, RunsInstalled, Versions, files, binaries, service
<1>20. CASE restore_binary
  BY <1>20, UpdateAssumption
     DEF restore_binary, Goto, Upset, Ends, Idle, RollbackInv, UpdateTypeOK, Services, Updaters,
         Markers, RunsInstalled, Versions, files, binaries, service
<1>21. CASE RolledBack
  BY <1>21, UpdateAssumption
     DEF RolledBack, Ends, Idle, RollbackInv, UpdateTypeOK, Services, Updaters, Markers,
         RunsInstalled, Versions, files, binaries, service
<1>22. CASE AlreadyUpToDate
  BY <1>22, UpdateAssumption
     DEF AlreadyUpToDate, Ends, Idle, RollbackInv, UpdateTypeOK, Services, Updaters, Markers,
         RunsInstalled, Versions, files, binaries, service
<1>23. CASE RefusesBlocked
  BY <1>23, UpdateAssumption
     DEF RefusesBlocked, Ends, Idle, RollbackInv, UpdateTypeOK, Services, Updaters, Markers,
         RunsInstalled, Versions, files, binaries, service
<1>24. CASE Fetches
  <2>1. upd \in Updaters /\ latest \in Versions /\ upd.pc = "fetch" /\ live' = live
    BY <1>24 DEF Fetches, RollbackInv, UpdateTypeOK, binaries
  <2>2. upd'.pc = "download" /\ upd'.version = upd.version /\ upd'.target = latest
    BY <1>24, <2>1 DEF Fetches, Updaters
  <2>3. latest # None
    BY <2>1, UpdateAssumption DEF Binaries
  <2>4. QED
    BY <2>1, <2>2, <2>3 DEF RollbackInv, RunsInstalled
<1>25. CASE FailsInTransit
  BY <1>25, UpdateAssumption
     DEF FailsInTransit, Upset, Ends, Idle, RollbackInv, UpdateTypeOK, Services, Updaters, Markers,
         RunsInstalled, Versions, files, binaries, service
<1>26. CASE VerificationFails
  BY <1>26, UpdateAssumption
     DEF VerificationFails, Upset, Ends, Idle, RollbackInv, UpdateTypeOK, Services, Updaters,
         Markers, RunsInstalled, Versions, files, binaries, service
<1>27. CASE Downloads
  BY <1>27, UpdateAssumption
     DEF Downloads, Goto, RollbackInv, UpdateTypeOK, Services, Updaters, Markers, RunsInstalled,
         Versions, files, binaries, service
<1>28. CASE prepare_known_good
  BY <1>28, KeepsTarget DEF prepare_known_good, RollbackInv, RunsInstalled
<1>29. CASE MovesAside
  BY <1>29, UpdateAssumption
     DEF MovesAside, Goto, Upset, Ends, Idle, RollbackInv, UpdateTypeOK, Services, Updaters, Markers,
         RunsInstalled, Versions, files, binaries, service
<1>30. CASE MovesIn
  BY <1>30, UpdateAssumption
     DEF MovesIn, Goto, RollbackInv, UpdateTypeOK, Services, Updaters, Markers, RunsInstalled,
         Versions, files, binaries, service
<1>31. CASE MoveInFails
  BY <1>31, UpdateAssumption
     DEF MoveInFails, Upset, Ends, Idle, RollbackInv, UpdateTypeOK, Services, Updaters, Markers,
         RunsInstalled, Versions, files, binaries, service
<1>32. CASE ClearsPin
  BY <1>32, UpdateAssumption
     DEF ClearsPin, Goto, RollbackInv, UpdateTypeOK, Services, Updaters, Markers, RunsInstalled,
         Versions, files, binaries, service
<1>33. CASE begin_probation
  BY <1>33, UpdateAssumption
     DEF begin_probation, Marker, Upset, Goto, RollbackInv, UpdateTypeOK, Services, Updaters,
         Markers, RunsInstalled, Versions, files, binaries, service
<1>34. CASE Installed
  BY <1>34, UpdateAssumption
     DEF Installed, Ends, Idle, RollbackInv, UpdateTypeOK, Services, Updaters, Markers,
         RunsInstalled, Versions, files, binaries, service
<1>35. CASE Killed
  BY <1>35, UpdateAssumption
     DEF Killed, Upset, Ends, Idle, RollbackInv, UpdateTypeOK, Services, Updaters, Markers,
         RunsInstalled, Versions, files, binaries, service
<1>36. CASE UNCHANGED vars
  BY <1>36
     DEF vars, RollbackInv, UpdateTypeOK, Services, Updaters, Markers, RunsInstalled, Versions,
         files, binaries, service
<1>37. CASE WrittenBack
  BY <1>37 DEF WrittenBack, RollbackInv, UpdateTypeOK, RunsInstalled, files, service
<1>38. QED
  BY <1>1, <1>2, <1>3, <1>4, <1>5, <1>6, <1>7, <1>8, <1>9, <1>10, <1>11, <1>12, <1>13, <1>14,
     <1>15, <1>16, <1>17, <1>18, <1>19, <1>20, <1>21, <1>22, <1>23, <1>24, <1>25, <1>26, <1>27,
     <1>28, <1>29, <1>30, <1>31, <1>32, <1>33, <1>34, <1>35, <1>36, <1>37
     DEF Next, Supervisor, Updater, Node, Environment

\* Every step keeps what handle_post_stop has established so far.
LEMMA StepKeepsJudges == RollbackInv /\ [Next]_vars => Judges'
<1> SUFFICES ASSUME RollbackInv, [Next]_vars PROVE Judges'
  OBVIOUS
<1>1. CASE Release
  BY <1>1, UpdateAssumption
     DEF Release, RollbackInv, UpdateTypeOK, Services, Updaters, Markers, RunsInstalled, Judges,
         files, binaries, service
<1>2. CASE Start
  BY <1>2, UpdateAssumption
     DEF Start, RollbackInv, UpdateTypeOK, Services, Updaters, Markers, RunsInstalled, Judges, files,
         binaries, service
<1>3. CASE StartLimitHit
  BY <1>3, UpdateAssumption
     DEF StartLimitHit, RollbackInv, UpdateTypeOK, Services, Updaters, Markers, RunsInstalled,
         Judges, files, binaries, service
<1>4. CASE OperatorStarts
  BY <1>4, UpdateAssumption
     DEF OperatorStarts, RollbackInv, UpdateTypeOK, Services, Updaters, Markers, RunsInstalled,
         Judges, files, binaries, service
<1>5. CASE WedgedFails
  BY <1>5, UpdateAssumption
     DEF WedgedFails, Exits, RollbackInv, UpdateTypeOK, Services, Updaters, Markers, RunsInstalled,
         Judges, files, binaries, service
<1>6. CASE NodeFails
  BY <1>6, UpdateAssumption
     DEF NodeFails, Upset, Exits, RollbackInv, UpdateTypeOK, Services, Updaters, Markers,
         RunsInstalled, Judges, files, binaries, service
<1>7. CASE Settles
  BY <1>7, UpdateAssumption
     DEF Settles, commit_probation, RollbackInv, UpdateTypeOK, Services, Updaters, Markers,
         RunsInstalled, Judges, files, binaries, service
<1>8. CASE ExitsForUpdate
  BY <1>8, UpdateAssumption
     DEF ExitsForUpdate, Exits, RollbackInv, UpdateTypeOK, Services, Updaters, Markers,
         RunsInstalled, Judges, files, binaries, service
<1>9. CASE ExitsIsolated
  BY <1>9, UpdateAssumption
     DEF ExitsIsolated, Exits, RollbackInv, UpdateTypeOK, Services, Updaters, Markers, RunsInstalled,
         Judges, files, binaries, service
<1>10. CASE Ages
  BY <1>10, UpdateAssumption
     DEF Ages, RollbackInv, UpdateTypeOK, Services, Updaters, Markers, RunsInstalled, Judges, files,
         binaries, service
<1>11. CASE PowerLoss
  BY <1>11, UpdateAssumption
     DEF PowerLoss, Survivors, Upset, Idle, RollbackInv, UpdateTypeOK, Services, Updaters, Markers,
         RunsInstalled, Judges, files, binaries, service
<1>12. CASE BlobLost
  BY <1>12, UpdateAssumption
     DEF BlobLost, Upset, RollbackInv, UpdateTypeOK, Services, Updaters, Markers, RunsInstalled,
         Judges, files, binaries, service
<1>13. CASE PostStop
  BY <1>13, UpdateAssumption
     DEF PostStop, Launched, RollbackInv, UpdateTypeOK, Services, Updaters, Markers, RunsInstalled,
         Judges, files, binaries, service
<1>14. CASE ManualUpdate
  BY <1>14, UpdateAssumption
     DEF ManualUpdate, Upset, Launched, RollbackInv, UpdateTypeOK, Services, Updaters, Markers,
         RunsInstalled, Judges, files, binaries, service
<1>15. CASE ProceedsAfterCrash
  BY <1>15, UpdateAssumption
     DEF ProceedsAfterCrash, Goto, RollbackInv, UpdateTypeOK, Services, Updaters, Markers,
         RunsInstalled, Judges, files, binaries, service
<1>16. CASE CountsCrash
  <2>1. CASE Ends
    BY <2>1, EndsUpdater DEF Judges
  <2>2. CASE Goto("verify")
    <3>1. upd'.pc = "verify" /\ upd'.version = upd.version /\ node' = node
      BY <2>2, GotoUpdater DEF Goto, PCs, RollbackInv, UpdateTypeOK
    <3>2. probation' # None /\ probation'.new = upd.version
      <4>1. probation \in Markers /\ probation.new = upd.version /\ probation # None
        BY <1>16 DEF CountsCrash, OnProbation, RollbackInv, UpdateTypeOK
      <4>2. CASE probation' = probation
        BY <4>1, <4>2
      <4>3. CASE probation' = [probation EXCEPT !.crash_count = probation.crash_count + 1]
        <5>1. probation'.new = upd.version /\ probation' # None
          BY <4>1, <4>3, UpdateAssumption DEF Markers
        <5>2. QED
          BY <5>1
      <4>4. QED
        BY <1>16, <4>2, <4>3 DEF CountsCrash
    <3>3. node.pc = "exited"
      BY <1>16 DEF CountsCrash, RollbackInv, Judges
    <3>4. QED
      BY <3>1, <3>2, <3>3 DEF Judges
  <2>3. QED
    BY <1>16, <2>1, <2>2 DEF CountsCrash
<1>17. CASE Verifies
  BY <1>17, UpdateAssumption
     DEF Verifies, Goto, Ends, Idle, RollbackInv, UpdateTypeOK, Services, Updaters, Markers,
         RunsInstalled, Judges, files, binaries, service
<1>18. CASE CannotVerify
  BY <1>18, UpdateAssumption
     DEF CannotVerify, Upset, Ends, Idle, RollbackInv, UpdateTypeOK, Services, Updaters, Markers,
         RunsInstalled, Judges, files, binaries, service
<1>19. CASE pin_known_bad
  BY <1>19, UpdateAssumption
     DEF pin_known_bad, Goto, Upset, Ends, Idle, RollbackInv, UpdateTypeOK, Services, Updaters,
         Markers, RunsInstalled, Judges, files, binaries, service
<1>20. CASE restore_binary
  BY <1>20, UpdateAssumption
     DEF restore_binary, Goto, Upset, Ends, Idle, RollbackInv, UpdateTypeOK, Services, Updaters,
         Markers, RunsInstalled, Judges, files, binaries, service
<1>21. CASE RolledBack
  BY <1>21, UpdateAssumption
     DEF RolledBack, Ends, Idle, RollbackInv, UpdateTypeOK, Services, Updaters, Markers,
         RunsInstalled, Judges, files, binaries, service
<1>22. CASE AlreadyUpToDate
  BY <1>22, UpdateAssumption
     DEF AlreadyUpToDate, Ends, Idle, RollbackInv, UpdateTypeOK, Services, Updaters, Markers,
         RunsInstalled, Judges, files, binaries, service
<1>23. CASE RefusesBlocked
  BY <1>23, UpdateAssumption
     DEF RefusesBlocked, Ends, Idle, RollbackInv, UpdateTypeOK, Services, Updaters, Markers,
         RunsInstalled, Judges, files, binaries, service
<1>24. CASE Fetches
  BY <1>24, UpdateAssumption
     DEF Fetches, RollbackInv, UpdateTypeOK, Services, Updaters, Markers, RunsInstalled, Judges,
         files, binaries, service
<1>25. CASE FailsInTransit
  BY <1>25, UpdateAssumption
     DEF FailsInTransit, Upset, Ends, Idle, RollbackInv, UpdateTypeOK, Services, Updaters, Markers,
         RunsInstalled, Judges, files, binaries, service
<1>26. CASE VerificationFails
  BY <1>26, UpdateAssumption
     DEF VerificationFails, Upset, Ends, Idle, RollbackInv, UpdateTypeOK, Services, Updaters,
         Markers, RunsInstalled, Judges, files, binaries, service
<1>27. CASE Downloads
  BY <1>27, UpdateAssumption
     DEF Downloads, Goto, RollbackInv, UpdateTypeOK, Services, Updaters, Markers, RunsInstalled,
         Judges, files, binaries, service
<1>28. CASE prepare_known_good
  BY <1>28, KeepsTarget DEF RollbackInv, Judges
<1>29. CASE MovesAside
  BY <1>29, UpdateAssumption
     DEF MovesAside, Goto, Upset, Ends, Idle, RollbackInv, UpdateTypeOK, Services, Updaters, Markers,
         RunsInstalled, Judges, files, binaries, service
<1>30. CASE MovesIn
  BY <1>30, UpdateAssumption
     DEF MovesIn, Goto, RollbackInv, UpdateTypeOK, Services, Updaters, Markers, RunsInstalled,
         Judges, files, binaries, service
<1>31. CASE MoveInFails
  BY <1>31, UpdateAssumption
     DEF MoveInFails, Upset, Ends, Idle, RollbackInv, UpdateTypeOK, Services, Updaters, Markers,
         RunsInstalled, Judges, files, binaries, service
<1>32. CASE ClearsPin
  BY <1>32, UpdateAssumption
     DEF ClearsPin, Goto, RollbackInv, UpdateTypeOK, Services, Updaters, Markers, RunsInstalled,
         Judges, files, binaries, service
<1>33. CASE begin_probation
  BY <1>33, UpdateAssumption
     DEF begin_probation, Marker, Upset, Goto, RollbackInv, UpdateTypeOK, Services, Updaters,
         Markers, RunsInstalled, Judges, files, binaries, service
<1>34. CASE Installed
  BY <1>34, UpdateAssumption
     DEF Installed, Ends, Idle, RollbackInv, UpdateTypeOK, Services, Updaters, Markers,
         RunsInstalled, Judges, files, binaries, service
<1>35. CASE Killed
  BY <1>35, UpdateAssumption
     DEF Killed, Upset, Ends, Idle, RollbackInv, UpdateTypeOK, Services, Updaters, Markers,
         RunsInstalled, Judges, files, binaries, service
<1>36. CASE UNCHANGED vars
  BY <1>36
     DEF vars, RollbackInv, UpdateTypeOK, Services, Updaters, Markers, RunsInstalled, Judges, files,
         binaries, service
<1>37. CASE WrittenBack
  BY <1>37 DEF WrittenBack, RollbackInv, Judges, files, service
<1>38. QED
  BY <1>1, <1>2, <1>3, <1>4, <1>5, <1>6, <1>7, <1>8, <1>9, <1>10, <1>11, <1>12, <1>13, <1>14,
     <1>15, <1>16, <1>17, <1>18, <1>19, <1>20, <1>21, <1>22, <1>23, <1>24, <1>25, <1>26, <1>27,
     <1>28, <1>29, <1>30, <1>31, <1>32, <1>33, <1>34, <1>35, <1>36, <1>37
     DEF Next, Supervisor, Updater, Node, Environment


\* The invariant holds of a fresh installation.
LEMMA InitRollbackInv == Init => RollbackInv
<1> SUFFICES ASSUME Init PROVE RollbackInv
  OBVIOUS
<1>1. UpdateTypeOK
  <2>1. 0 \in Versions /\ 0 \in 0 .. INSTALL_FAILURE_GATE_THRESHOLD
    BY UpdateAssumption DEF Versions
  <2>2. install_failures \in Counts /\ node \in Services
    BY <2>1 DEF Init, Counts, Services
  <2>3. burst \in 0 .. StartLimitBurst /\ upsets \in 0 .. MaxUpsets /\ update_failures \in Nat
    BY UpdateAssumption DEF Init
  <2>4. live \in Binaries \cup {None} /\ latest \in Versions /\ unsynced \in BOOLEAN
    BY <2>1 DEF Init, Binaries
  <2>5. QED
    BY <2>2, <2>3, <2>4, IdleUpdater DEF Init, UpdateTypeOK
<1>2. LabelsAgree /\ RunsInstalled /\ Judges
  BY <1>1 DEF Init, Idle, LabelsAgree, RunsInstalled, Judges
<1>3. QED
  BY <1>1, <1>2 DEF RollbackInv

\* Type correctness, with power losses that damage the binary replace_binary moved in: no
\* marker, pin or updater ever names a damaged binary, so none is snapshotted as a rollback
\* target, and systemd keeps its start limit.
THEOREM UpdateTypeCorrect == Spec => []UpdateTypeOK
<1>1. RollbackInv => UpdateTypeOK
  BY DEF RollbackInv
<1>2. RollbackInv /\ [Next]_vars => RollbackInv'
  BY StepKeepsType, StepKeepsLabels, StepKeepsInstalled, StepKeepsJudges DEF RollbackInv
<1>3. QED
  BY InitRollbackInv, <1>1, <1>2, PTL DEF Spec

\* handle_post_stop restores the binary its marker names, over the version that crashed and that
\* it has pinned, whatever the thresholds, the releases and the faults.
THEOREM RollbackCorrect == Spec => []RollbackIsExact
<1>1. RollbackInv => RollbackIsExact
  BY DEF RollbackInv, LabelsAgree, RunsInstalled, Judges, RollbackIsExact
<1>2. RollbackInv /\ [Next]_vars => RollbackInv'
  BY StepKeepsType, StepKeepsLabels, StepKeepsInstalled, StepKeepsJudges DEF RollbackInv
<1>3. QED
  BY InitRollbackInv, <1>1, <1>2, PTL DEF Spec

-----------------------------------------------------------------------------
(***************************************************************************)
(* A version that was rolled back is not applied again.  The pin alone     *)
(* does not show it, since every installation clears the pin: a version    *)
(* that lost its pin is installed, or is no longer the newest release, and *)
(* an updater goes for the newest release only.                            *)
(***************************************************************************)
Early == {"idle", "judge", "verify", "pin", "restore", "unmark", "fetch"}

\* While it is the newest release, a version that was rolled back is pinned, or is the
\* installed one (an operator forced it), perhaps just moved aside, or the installed binary is
\* damaged and runs no updater.
PinStands ==
  \A v \in reverted :
    /\ v <= latest
    /\ v = latest => \/ known_bad = v
                     \/ live \in {v, Torn}
                     \/ live = None /\ backup \in {v, Torn}

\* What is on probation, and what is being installed, is as new as anything rolled back.
NewestFirst ==
  /\ probation # None => probation.new <= latest /\ \A v \in reverted : v <= probation.new
  /\ upd.target # None => upd.target <= latest /\ \A v \in reverted : v <= upd.target

\* What the updater knows on its way to the new binary and just after it.
InstallsNew ==
  /\ upd.pc \in Early => upd.target = None
  /\ upd.pc \in {"download", "prepare", "aside", "movein"} /\ ~upd.force => upd.target \notin reverted
  /\ upd.pc = "movein" => live = None
  /\ upd.pc = "arm" => live = upd.target

PinInv == PinStands /\ NewestFirst /\ InstallsNew

\* A step that leaves binaries and pin alone, and at most removes the marker, ends the updater
\* or moves it on.
LEMMA QuietKeepsPins ==
    ASSUME PinInv,
           latest' = latest, reverted' = reverted, known_bad' = known_bad,
           live' = live, backup' = backup,
           probation' = None \/ (probation # None /\ probation'.new = probation.new),
           \/ upd'.target = None /\ upd'.pc \in Early
           \/ /\ upd'.target = upd.target /\ upd'.force = upd.force
              /\ \/ upd'.pc = upd.pc
                 \/ upd.pc \in Early /\ upd'.pc \in Early
                 \/ upd.pc = "download" /\ upd'.pc = "prepare"
                 \/ upd.pc = "prepare" /\ upd'.pc = "aside"
                 \/ upd'.pc \in {"mark", "installed"}
    PROVE  PinInv'
<1>1. PinStands'
  BY DEF PinInv, PinStands
<1>2. NewestFirst'
  BY DEF PinInv, NewestFirst
<1>3. InstallsNew'
  BY DEF PinInv, InstallsNew, Early
<1>4. QED
  BY <1>1, <1>2, <1>3 DEF PinInv

\* Every step keeps the pins effective.
LEMMA StepKeepsPins == RollbackInv /\ PinInv /\ [Next]_vars => PinInv'
<1> SUFFICES ASSUME RollbackInv, PinInv, [Next]_vars PROVE PinInv'
  OBVIOUS
<1>0. UpdateTypeOK /\ upd \in Updaters /\ latest \in Nat /\ reverted \subseteq Nat
  BY UpdateAssumption DEF RollbackInv, UpdateTypeOK, Versions
<1>1. CASE Release
  <2>1. latest' = latest + 1 /\ reverted' = reverted /\ probation' = probation /\ upd' = upd /\ live' = live
    BY <1>1 DEF Release, binaries, files
  <2>2. PinStands'
    BY <1>0, <2>1 DEF PinInv, PinStands
  <2>3. NewestFirst'
    BY <1>0, <2>1 DEF PinInv, NewestFirst, UpdateTypeOK, Markers, Updaters, Versions
  <2>4. QED
    BY <2>1, <2>2, <2>3 DEF PinInv, InstallsNew
<1>2. CASE Start
  BY <1>2, QuietKeepsPins DEF Start, binaries, files
<1>3. CASE StartLimitHit
  BY <1>3, QuietKeepsPins DEF StartLimitHit, binaries, files
<1>4. CASE OperatorStarts
  BY <1>4, QuietKeepsPins DEF OperatorStarts, binaries, files
<1>5. CASE WedgedFails
  BY <1>5, QuietKeepsPins DEF WedgedFails, Exits, binaries, files
<1>6. CASE NodeFails
  BY <1>6, QuietKeepsPins DEF NodeFails, Exits, binaries, files
<1>7. CASE Settles
  BY <1>7, QuietKeepsPins DEF Settles, commit_probation, binaries, files
<1>8. CASE ExitsForUpdate
  BY <1>8, QuietKeepsPins DEF ExitsForUpdate, Exits, binaries, files
<1>9. CASE ExitsIsolated
  BY <1>9, QuietKeepsPins DEF ExitsIsolated, Exits, binaries, files
<1>10. CASE Ages
  <2>1. probation # None /\ probation'.new = probation.new
    BY <1>0, <1>10 DEF Ages, UpdateTypeOK, Markers
  <2>2. QED
    BY <1>10, <2>1, QuietKeepsPins DEF Ages, binaries
<1>11. CASE PowerLoss
  <2>1. /\ latest' = latest /\ reverted' = reverted /\ probation' = probation /\ known_bad' = known_bad
        /\ upd'.pc = "idle" /\ upd'.target = None
    BY <1>11 DEF PowerLoss, Idle
  <2>2. live' \in {live, Torn} /\ (live = None => live' = None) /\ backup' \in {backup, Torn}
    BY <1>11 DEF PowerLoss, Survivors
  <2>3. PinStands'
    BY <2>1, <2>2 DEF PinInv, PinStands
  <2>4. NewestFirst' /\ InstallsNew'
    BY <2>1 DEF PinInv, NewestFirst, InstallsNew, Early
  <2>5. QED
    BY <2>3, <2>4 DEF PinInv
<1>12. CASE BlobLost
  BY <1>12, QuietKeepsPins DEF BlobLost, binaries, files
<1>13. CASE PostStop
  BY <1>13, QuietKeepsPins DEF PostStop, Launched, Early, binaries, files
<1>14. CASE ManualUpdate
  BY <1>14, QuietKeepsPins DEF ManualUpdate, Launched, Early, binaries, files
<1>15. CASE ProceedsAfterCrash
  <2>1. upd'.pc = "fetch" /\ upd'.target = upd.target /\ upd'.force = upd.force
    BY <1>0, <1>15 DEF ProceedsAfterCrash, Goto, Updaters
  <2>2. QED
    BY <1>15, <2>1, QuietKeepsPins DEF ProceedsAfterCrash, Early, binaries
<1>16. CASE CountsCrash
  <2>1. probation # None /\ probation'.new = probation.new
    BY <1>0, <1>16, UpdateAssumption DEF CountsCrash, OnProbation, UpdateTypeOK, Markers
  <2>2. CASE Goto("verify")
    <3>1. upd'.pc = "verify" /\ upd'.target = upd.target /\ upd'.force = upd.force
      BY <1>0, <2>2 DEF Goto, Updaters
    <3>2. QED
      BY <1>16, <2>1, <3>1, QuietKeepsPins DEF CountsCrash, Early, binaries
  <2>3. CASE Ends
    BY <1>16, <2>1, <2>3, QuietKeepsPins DEF CountsCrash, Ends, Idle, Early, binaries
  <2>4. QED
    BY <1>16, <2>2, <2>3 DEF CountsCrash
<1>17. CASE Verifies
  <2>1. CASE Goto("pin") /\ UNCHANGED probation
    <3>1. upd'.pc = "pin" /\ upd'.target = upd.target /\ upd'.force = upd.force
      BY <1>0, <2>1 DEF Goto, Updaters
    <3>2. QED
      BY <1>17, <2>1, <3>1, QuietKeepsPins DEF Verifies, Early, binaries
  <2>2. CASE Ends /\ probation' = None
    BY <1>17, <2>2, QuietKeepsPins DEF Verifies, Ends, Idle, Early, binaries
  <2>3. QED
    BY <1>17, <2>1, <2>2 DEF Verifies
<1>18. CASE CannotVerify
  BY <1>18, QuietKeepsPins DEF CannotVerify, Ends, Idle, Early, binaries, files
<1>19. CASE pin_known_bad
  <2>1. CASE known_bad' = probation.new /\ Goto("restore")
    <3>1. upd'.pc = "restore" /\ upd'.target = upd.target /\ upd.pc = "pin"
      BY <1>0, <1>19, <2>1 DEF pin_known_bad, Goto, Updaters
    <3>2. latest' = latest /\ live' = live /\ backup' = backup /\ reverted' = reverted /\ probation' = probation
      BY <1>19 DEF pin_known_bad, binaries
    <3>3. probation # None /\ probation.new = live /\ probation.new \in Nat
      BY <1>0, <3>1 DEF RollbackInv, Judges, RunsInstalled, UpdateTypeOK, Markers, Versions
    <3>4. PinStands'
      <4> SUFFICES ASSUME NEW v \in reverted
                   PROVE  v <= latest /\ (v = latest => known_bad' = v)
        BY <3>2 DEF PinStands
      <4>1. v <= latest /\ v <= probation.new /\ probation.new <= latest
        BY <3>3 DEF PinInv, PinStands, NewestFirst
      <4>2. v \in Nat
        BY <1>0
      <4>3. v = latest => probation.new = v
        BY <1>0, <3>3, <4>1, <4>2
      <4>4. QED
        BY <2>1, <4>1, <4>3
    <3>5. NewestFirst' /\ InstallsNew'
      BY <3>1, <3>2 DEF PinInv, NewestFirst, InstallsNew, Early
    <3>6. QED
      BY <3>4, <3>5 DEF PinInv
  <2>2. CASE UNCHANGED known_bad /\ Ends
    BY <1>19, <2>2, QuietKeepsPins DEF pin_known_bad, Ends, Idle, Early, binaries
  <2>3. QED
    BY <1>19, <2>1, <2>2 DEF pin_known_bad
<1>20. CASE restore_binary
  <2>1. CASE live' = known_good /\ reverted' = reverted \cup {probation.new} /\ Goto("unmark")
    <3>1. upd'.pc = "unmark" /\ upd'.target = upd.target /\ upd.pc = "restore"
      BY <1>0, <1>20, <2>1 DEF restore_binary, Goto, Updaters
    <3>2. latest' = latest /\ probation' = probation /\ known_bad' = known_bad
      BY <1>20 DEF restore_binary, files
    <3>3. /\ probation # None /\ probation.new = live /\ probation.new \in Nat
          /\ known_bad = probation.new /\ live # None
      BY <1>0, <3>1 DEF RollbackInv, Judges, RunsInstalled, UpdateTypeOK, Markers, Versions
    <3>4. PinStands'
      <4> SUFFICES ASSUME NEW v \in reverted \cup {probation.new}
                   PROVE  v <= latest /\ (v = latest => known_bad = v)
        BY <2>1, <3>2 DEF PinStands
      <4>1. v <= probation.new /\ probation.new <= latest
        BY <3>3 DEF PinInv, NewestFirst
      <4>2. v \in Nat
        BY <1>0, <3>3
      <4>3. QED
        BY <1>0, <3>3, <4>1, <4>2
    <3>5. upd.target = None
      BY <3>1 DEF PinInv, InstallsNew, Early
    <3>6. NewestFirst' /\ InstallsNew'
      BY <1>0, <2>1, <3>1, <3>2, <3>3, <3>5 DEF PinInv, NewestFirst, InstallsNew, Early
    <3>7. QED
      BY <3>4, <3>6 DEF PinInv
  <2>2. CASE UNCHANGED <<live, reverted>> /\ Ends
    BY <1>20, <2>2, QuietKeepsPins DEF restore_binary, Ends, Idle, Early, files
  <2>3. QED
    BY <1>20, <2>1, <2>2 DEF restore_binary
<1>21. CASE RolledBack
  BY <1>21, QuietKeepsPins DEF RolledBack, Ends, Idle, Early, binaries, files
<1>22. CASE AlreadyUpToDate
  BY <1>22, QuietKeepsPins DEF AlreadyUpToDate, Ends, Idle, Early, binaries, files
<1>23. CASE RefusesBlocked
  BY <1>23, QuietKeepsPins DEF RefusesBlocked, Ends, Idle, Early, binaries, files
<1>24. CASE Fetches
  <2>1. upd'.pc = "download" /\ upd'.target = latest /\ upd'.force = upd.force /\ upd.pc = "fetch"
    BY <1>0, <1>24 DEF Fetches, Updaters
  <2>2. latest' = latest /\ live' = live /\ backup' = backup /\ reverted' = reverted /\ probation' = probation /\ known_bad' = known_bad
    BY <1>24 DEF Fetches, binaries, files
  <2>3. live = upd.version /\ live # None
    BY <2>1 DEF RollbackInv, RunsInstalled
  <2>4. upd.force \/ (latest > upd.version /\ known_bad # latest)
    BY <1>24 DEF Fetches, Blocked, is_version_pinned_bad
  <2>5. ~upd.force => latest \notin reverted
    <3>1. upd.version \in Versions
      BY <1>0, <2>3 DEF Updaters
    <3>2. upd.version \in Nat /\ live # Torn
      BY <2>3, <3>1, UpdateAssumption DEF Versions
    <3>3. QED
      BY <1>0, <2>3, <2>4, <3>2 DEF PinInv, PinStands
  <2>6. PinStands'
    BY <2>2 DEF PinInv, PinStands
  <2>7. NewestFirst'
    <3>1. \A v \in reverted : v <= latest
      BY DEF PinInv, PinStands
    <3>2. latest <= latest
      BY <1>0
    <3>3. QED
      BY <2>1, <2>2, <3>1, <3>2 DEF PinInv, NewestFirst
  <2>8. InstallsNew'
    BY <2>1, <2>2, <2>5 DEF InstallsNew, Early
  <2>9. QED
    BY <2>6, <2>7, <2>8 DEF PinInv
<1>25. CASE FailsInTransit
  BY <1>25, QuietKeepsPins DEF FailsInTransit, Ends, Idle, Early, binaries, files
<1>26. CASE VerificationFails
  BY <1>26, QuietKeepsPins DEF VerificationFails, Ends, Idle, Early, binaries, files
<1>27. CASE Downloads
  <2>1. upd'.pc = "prepare" /\ upd.pc = "download" /\ upd'.target = upd.target /\ upd'.force = upd.force
    BY <1>0, <1>27 DEF Downloads, Goto, Updaters
  <2>2. QED
    BY <1>27, <2>1, QuietKeepsPins DEF Downloads, binaries, files
<1>28. CASE prepare_known_good
  <2>1. upd'.pc = "aside" /\ upd.pc = "prepare" /\ upd'.target = upd.target /\ upd'.force = upd.force
    BY <1>0, <1>28 DEF prepare_known_good, Updaters
  <2>2. QED
    BY <1>28, <2>1, QuietKeepsPins DEF prepare_known_good, binaries
<1>29. CASE MovesAside
  <2>1. latest' = latest /\ reverted' = reverted /\ probation' = probation /\ known_bad' = known_bad /\ upd.pc = "aside"
    BY <1>29 DEF MovesAside
  <2>2. CASE backup' = live /\ live' = None /\ Goto("movein")
    <3>1. upd'.pc = "movein" /\ upd'.target = upd.target /\ upd'.force = upd.force
      BY <1>0, <2>2 DEF Goto, Updaters
    <3>2. live # None
      BY <2>1 DEF RollbackInv, RunsInstalled
    <3>3. PinStands'
      BY <2>1, <2>2, <3>2 DEF PinInv, PinStands
    <3>4. NewestFirst' /\ InstallsNew'
      BY <2>1, <2>2, <3>1 DEF PinInv, NewestFirst, InstallsNew, Early
    <3>5. QED
      BY <3>3, <3>4 DEF PinInv
  <2>3. CASE Ends /\ UNCHANGED <<live, backup>>
    BY <2>1, <2>3, QuietKeepsPins DEF Ends, Idle, Early
  <2>4. QED
    BY <1>29, <2>2, <2>3 DEF MovesAside
<1>30. CASE MovesIn
  <2>1. latest' = latest /\ reverted' = reverted /\ probation' = probation /\ known_bad' = known_bad
    BY <1>30 DEF MovesIn
  <2>2. live' = upd.target /\ upd.pc = "movein" /\ upd'.pc = "arm" /\ upd'.target = upd.target /\ upd'.force = upd.force
    BY <1>0, <1>30 DEF MovesIn, Goto, Updaters
  <2>3. upd.target # None /\ upd.target \in Nat
    BY <1>0, <2>2 DEF RollbackInv, RunsInstalled, Updaters, Versions
  <2>4. PinStands'
    <3>1. upd.target <= latest /\ \A v \in reverted : v <= upd.target /\ v <= latest
      BY <2>3 DEF PinInv, PinStands, NewestFirst
    <3>2. \A v \in reverted : v = latest => upd.target = v
      BY <1>0, <2>3, <3>1
    <3>3. QED
      BY <2>1, <2>2, <3>1, <3>2 DEF PinStands
  <2>5. NewestFirst' /\ InstallsNew'
    BY <2>1, <2>2 DEF PinInv, NewestFirst, InstallsNew, Early
  <2>6. QED
    BY <2>4, <2>5 DEF PinInv
<1>31. CASE MoveInFails
  <2>1. latest' = latest /\ reverted' = reverted /\ probation' = probation /\ known_bad' = known_bad
    BY <1>31 DEF MoveInFails
  <2>2. upd.pc = "movein" /\ upd'.pc = "idle" /\ upd'.target = None
    BY <1>31 DEF MoveInFails, Ends, Idle
  <2>3. CASE UNCHANGED <<live, backup>>
    BY <2>1, <2>2, <2>3, QuietKeepsPins DEF Early
  <2>4. CASE live' = backup /\ backup' = None
    <3>1. ASSUME NEW v \in reverted
          PROVE  v <= latest /\ (v = latest => known_bad = v \/ backup = v)
      <4>1. v # None /\ Torn # None
        BY <1>0, UpdateAssumption DEF UpdateTypeOK, Binaries
      <4>2. live = None
        BY <2>2 DEF PinInv, InstallsNew
      <4>3. backup # Torn
        BY <2>2, UpdateAssumption DEF RollbackInv, RunsInstalled
      <4>4. QED
        BY <4>1, <4>2, <4>3 DEF PinInv, PinStands
    <3>2. PinStands'
      BY <2>1, <2>4, <3>1 DEF PinStands
    <3>3. NewestFirst' /\ InstallsNew'
      BY <2>1, <2>2 DEF PinInv, NewestFirst, InstallsNew, Early
    <3>4. QED
      BY <3>2, <3>3 DEF PinInv
  <2>5. QED
    BY <1>31, <2>3, <2>4 DEF MoveInFails
<1>32. CASE ClearsPin
  <2>1. latest' = latest /\ live' = live /\ backup' = backup /\ reverted' = reverted /\ probation' = probation
    BY <1>32 DEF ClearsPin, binaries
  <2>2. upd.pc = "arm" /\ upd'.pc \in {"mark", "installed"} /\ upd'.target = upd.target /\ upd'.force = upd.force
    BY <1>0, <1>32 DEF ClearsPin, Goto, Updaters
  <2>3. upd.target # None /\ upd.target \in Nat
    BY <1>0, <2>2 DEF RollbackInv, RunsInstalled, Updaters, Versions
  <2>4. PinStands'
    BY <1>0, <2>1, <2>2, <2>3 DEF PinInv, PinStands, NewestFirst, InstallsNew
  <2>5. NewestFirst' /\ InstallsNew'
    BY <2>1, <2>2 DEF PinInv, NewestFirst, InstallsNew, Early
  <2>6. QED
    BY <2>4, <2>5 DEF PinInv
<1>33. CASE begin_probation
  <2>1. latest' = latest /\ live' = live /\ backup' = backup /\ reverted' = reverted /\ known_bad' = known_bad
    BY <1>33 DEF begin_probation, binaries
  <2>2. upd.pc = "mark" /\ upd'.pc = "installed" /\ upd'.target = upd.target /\ upd'.force = upd.force
    BY <1>0, <1>33 DEF begin_probation, Goto, Updaters
  <2>3. upd.target # None
    BY <2>2 DEF RollbackInv, RunsInstalled
  <2>4. CASE probation' = Marker
    <3>1. probation'.new = upd.target
      BY <2>4 DEF Marker
    <3>2. NewestFirst'
      BY <2>1, <2>2, <2>3, <3>1 DEF PinInv, NewestFirst
    <3>3. PinStands' /\ InstallsNew'
      BY <2>1, <2>2 DEF PinInv, PinStands, InstallsNew, Early
    <3>4. QED
      BY <3>2, <3>3 DEF PinInv
  <2>5. CASE UNCHANGED probation
    BY <2>1, <2>2, <2>5, QuietKeepsPins
  <2>6. QED
    BY <1>33, <2>4, <2>5 DEF begin_probation
<1>34. CASE Installed
  BY <1>34, QuietKeepsPins DEF Installed, Ends, Idle, Early, binaries, files
<1>35. CASE Killed
  BY <1>35, QuietKeepsPins DEF Killed, Ends, Idle, Early, binaries, files
<1>36. CASE UNCHANGED vars
  BY <1>36, QuietKeepsPins DEF vars, binaries, files
<1>37. CASE WrittenBack
  BY <1>37, QuietKeepsPins DEF WrittenBack, files
<1>38. QED
  BY <1>1, <1>2, <1>3, <1>4, <1>5, <1>6, <1>7, <1>8, <1>9, <1>10, <1>11, <1>12, <1>13, <1>14,
     <1>15, <1>16, <1>17, <1>18, <1>19, <1>20, <1>21, <1>22, <1>23, <1>24, <1>25, <1>26, <1>27,
     <1>28, <1>29, <1>30, <1>31, <1>32, <1>33, <1>34, <1>35, <1>36, <1>37
     DEF Next, Supervisor, Updater, Node, Environment

\* Only the second rename of replace_binary puts another binary in place of the one it has
\* moved aside.
LEMMA OnlyMovesIn ==
    ASSUME [Next]_vars, upd.pc = "movein", live = None, live' # live, live' # backup
    PROVE  live' = upd.target
<1>1. ~restore_binary /\ ~MovesAside /\ ~PowerLoss
  BY DEF restore_binary, MovesAside, PowerLoss, Survivors
<1>2. CASE MovesIn
  BY <1>2 DEF MovesIn
<1>3. CASE MoveInFails
  BY <1>3 DEF MoveInFails
<1>4. QED
  BY <1>1, <1>2, <1>3
     DEF Next, Supervisor, Updater, Node, Environment, vars, binaries, Release, Start, StartLimitHit,
         OperatorStarts, WedgedFails, NodeFails, Settles, ExitsForUpdate, ExitsIsolated, Ages,
         WrittenBack, BlobLost, PostStop, ManualUpdate, ProceedsAfterCrash, CountsCrash, Verifies,
         CannotVerify, pin_known_bad, RolledBack, AlreadyUpToDate, RefusesBlocked, Fetches,
         FailsInTransit, VerificationFails, Downloads, prepare_known_good, ClearsPin,
         begin_probation, Installed, Killed

\* No update but a forced one installs a version that was rolled back: update, crash, revert,
\* update again is never a loop, wherever the updater or the machine dies.
THEOREM NeverReapplied == Spec => NoReapply
<1>1. Init => RollbackInv /\ PinInv
  <2>1. Init => PinInv
    BY DEF Init, Idle, PinInv, PinStands, NewestFirst, InstallsNew, Early
  <2>2. QED
    BY <2>1, InitRollbackInv
<1>2. RollbackInv /\ PinInv /\ [Next]_vars => (RollbackInv /\ PinInv)'
  BY StepKeepsType, StepKeepsLabels, StepKeepsInstalled, StepKeepsJudges, StepKeepsPins DEF RollbackInv
<1>3. RollbackInv /\ PinInv /\ [Next]_vars =>
        [(upd.pc = "movein" /\ live' # live /\ live' # backup /\ ~upd.force) => live' \notin reverted]_vars
  BY OnlyMovesIn DEF PinInv, InstallsNew
<1>4. QED
  BY <1>1, <1>2, <1>3, PTL DEF Spec, NoReapply
=============================================================================
