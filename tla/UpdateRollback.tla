--------------------------- MODULE UpdateRollback ---------------------------
(***************************************************************************)
(* Auto-update with crash-loop rollback, on a host where systemd runs the  *)
(* node: the node that exits for an update (bin/freenet.rs), the post-stop *)
(* and the manual `freenet update` (bin/commands/update.rs), the files of  *)
(* the state directory (bin/commands/rollback.rs, auto_update.rs) and the  *)
(* unit that restarts the node and gives up on it (service/linux.rs).      *)
(*                                                                         *)
(* A binary is its version; Torn is a damaged one, which does not run.     *)
(* The machine or the updater can die between any two steps.  Marker, pin, *)
(* install failures, snapshot and restored binary are written to a         *)
(* temporary, synced and renamed, so they are written whole or not at all. *)
(* replace_binary does not sync what it moves in, and update_failures is   *)
(* written in place: a power loss can damage these two.  Renames are       *)
(* assumed to reach the disk in the order they were made.                  *)
(* Only macOS takes a lock for updates; here it is assumed that one        *)
(* `freenet update` runs at a time.                                        *)
(***************************************************************************)
EXTENDS Naturals, FiniteSets

CONSTANTS
  MaxVersion,                      \* releases are the versions 0..MaxVersion
  Wedged,                          \* versions that crash within a minute of every start
  Corrupt,                         \* releases whose checksum or signature does not verify
  ROLLBACK_CRASH_THRESHOLD,
  INSTALL_FAILURE_GATE_THRESHOLD,
  MAX_UPDATE_FAILURES,
  StartLimitBurst,
  MaxUpsets,                       \* bound: faults, and operators who force an update
  None, Torn

Versions == 0 .. MaxVersion
Binaries == Versions \cup {Torn}

(* The contents of update_probation.json; the hash of the blob stands for its binary. *)
Markers == [new : Versions, previous : Versions, blob : Versions, aged : BOOLEAN, crash_count : Nat]

ASSUME UpdateAssumption ==
  /\ MaxVersion \in Nat
  /\ Wedged \subseteq Versions \ {0}
  /\ Corrupt \subseteq Versions \ {0}
  /\ ROLLBACK_CRASH_THRESHOLD \in Nat \ {0}
  /\ INSTALL_FAILURE_GATE_THRESHOLD \in Nat \ {0}
  /\ MAX_UPDATE_FAILURES \in Nat \ {0}
  /\ StartLimitBurst \in Nat
  /\ ROLLBACK_CRASH_THRESHOLD < StartLimitBurst   \* the const assert of rollback.rs
  /\ MaxUpsets \in Nat
  /\ None \notin Binaries \cup Markers
  /\ Torn \notin Versions

VARIABLES
  latest,            \* the newest release
  live,              \* the installed binary, None between the renames of replace_binary
  backup,            \* replace_binary's .old file
  unsynced,          \* the binary moved in last is not on the disk yet
  known_good,        \* the known_good_binary file
  probation,         \* the update_probation.json file
  known_bad,         \* the known_bad_version file
  install_failures,  \* the install_failures.json file
  update_failures,   \* the update_failures file
  node,              \* the service: its state, the version that runs, its last status
  burst,             \* starts in systemd's rate-limit window
  upd,               \* the `freenet update` process
  upsets,            \* faults and forced updates so far
  reverted           \* history: versions a rollback replaced

files == <<known_good, probation, known_bad, install_failures, update_failures>>
binaries == <<live, backup, unsynced, reverted>>
service == <<node, burst>>
vars == <<latest, binaries, files, service, upd, upsets>>

Idle == [pc |-> "idle", version |-> None, post_stop |-> FALSE, force |-> FALSE,
         target |-> None, keep |-> None]

Init ==
  /\ latest = 0
  /\ live = 0 /\ backup = None /\ unsynced = FALSE /\ known_good = None
  /\ probation = None /\ known_bad = None
  /\ install_failures = [version |-> None, count |-> 0]
  /\ update_failures = 0
  /\ node = [pc |-> "down", version |-> None, status |-> "clean"]
  /\ burst = 0
  /\ upd = Idle
  /\ upsets = 0
  /\ reverted = {}

(* Something goes wrong, or an operator intervenes. *)
Upset == upsets < MaxUpsets /\ upsets' = upsets + 1

-----------------------------------------------------------------------------
(* What the files say. *)

is_version_pinned_bad(v) == known_bad = v

is_version_install_gated(v) ==
  install_failures.version = v /\ install_failures.count >= INSTALL_FAILURE_GATE_THRESHOLD

Blocked(v) == is_version_pinned_bad(v) \/ is_version_install_gated(v)

should_attempt_update == update_failures < MAX_UPDATE_FAILURES

(* Mutant: one crash too many. *)
should_rollback_Late(crash_count) == crash_count > ROLLBACK_CRASH_THRESHOLD

should_rollback(crash_count) == crash_count >= ROLLBACK_CRASH_THRESHOLD

(* The count stops at the threshold, beyond which nothing tells it apart. *)
FailureRecorded(v) ==
  IF install_failures.version = v
  THEN [install_failures EXCEPT !.count =
          IF @ < INSTALL_FAILURE_GATE_THRESHOLD THEN @ + 1 ELSE @]
  ELSE [version |-> v, count |-> 1]

-----------------------------------------------------------------------------
(* Releases, and the service under systemd. *)

Release ==
  /\ latest < MaxVersion
  /\ latest' = latest + 1
  /\ UNCHANGED <<binaries, files, service, upd, upsets>>

(* systemd counts every start; a start may come so late that the window has passed. *)
Start ==
  /\ node.pc = "down"
  /\ burst < StartLimitBurst
  /\ burst' \in {burst + 1, 1}
  /\ node' = IF live \in Versions
             THEN [node EXCEPT !.pc = "booting", !.version = live]
             ELSE node   \* nothing that executes, for ExecStopPost neither
  /\ UNCHANGED <<latest, binaries, files, upd, upsets>>

StartLimitHit ==
  /\ node.pc = "down"
  /\ burst = StartLimitBurst
  /\ node' = [node EXCEPT !.pc = "stopped"]
  /\ UNCHANGED <<latest, binaries, files, burst, upd, upsets>>

(* systemctl reset-failed and start, or the host comes back. *)
OperatorStarts ==
  /\ node.pc \in {"stopped", "off"}
  /\ node' = [node EXCEPT !.pc = "down", !.status = "clean"]
  /\ burst' = 0
  /\ UNCHANGED <<latest, binaries, files, upd, upsets>>

Exits(status) == node' = [node EXCEPT !.pc = "exited", !.status = status]

(* A wedged version dies in its first minute with a crash status. *)
WedgedFails ==
  /\ node.pc = "booting" /\ node.version \in Wedged
  /\ Exits("crash")
  /\ UNCHANGED <<latest, binaries, files, burst, upd, upsets>>

(* Any version may fail; after a healthy minute a dead listener exits with 42. *)
NodeFails ==
  /\ node.pc \in {"booting", "healthy"}
  /\ \/ Exits("crash")
     \/ node.pc = "healthy" /\ Exits("update")
  /\ Upset
  /\ UNCHANGED <<latest, binaries, files, burst, upd>>

(* COMMIT_HEALTHY_UPTIME_SECS after main: the marker goes, whatever version it names. *)
commit_probation == probation' = None

Settles ==
  /\ node.pc = "booting" /\ node.version \notin Wedged
  /\ node' = [node EXCEPT !.pc = "healthy"]
  /\ burst' = 0
  /\ commit_probation
  /\ UNCHANGED <<latest, binaries, known_good, known_bad, install_failures, update_failures, upd, upsets>>

(* Mutant: only the installer looks at the install-failure gate. *)
UpdateAvailable_Ungated ==
  /\ latest > node.version
  /\ ~is_version_pinned_bad(latest)
  /\ \/ node.pc = "booting"
     \/ node.pc = "healthy" /\ should_attempt_update

(* startup_update_check while booting, check_if_update_available afterwards. *)
UpdateAvailable ==
  /\ latest > node.version
  /\ ~Blocked(latest)
  /\ \/ node.pc = "booting"
     \/ node.pc = "healthy" /\ should_attempt_update

ExitsForUpdate ==
  /\ node.pc \in {"booting", "healthy"}
  /\ UpdateAvailable
  /\ Exits("update")
  /\ UNCHANGED <<latest, binaries, files, burst, upd, upsets>>

(* Alone with a version mismatch for hours, the node exits whatever the release check says. *)
ExitsIsolated ==
  /\ node.pc = "healthy"
  /\ Exits("update")
  /\ UNCHANGED <<latest, binaries, files, burst, upd, upsets>>

(* More than PROBATION_MAX_AGE_SECS pass; a crash loop never lasts so long. *)
Ages ==
  /\ probation # None /\ ~probation.aged
  /\ node.pc \in {"healthy", "stopped", "off"} /\ upd.pc = "idle"
  /\ probation' = [probation EXCEPT !.aged = TRUE]
  /\ UNCHANGED <<latest, binaries, known_good, known_bad, install_failures, update_failures, service, upd, upsets>>

(* The kernel writes the new binary back some time after replace_binary is done with it. *)
WrittenBack ==
  /\ unsynced
  /\ unsynced' = FALSE
  /\ UNCHANGED <<latest, live, backup, reverted, files, service, upd, upsets>>

(* What was not on the disk may come back damaged; a count that does not parse reads as the    *)
(* maximum.                                                                                    *)
Survivors(binary) == IF unsynced /\ binary # None THEN {binary, Torn} ELSE {binary}

PowerLoss ==
  /\ Upset
  /\ node' = [node EXCEPT !.pc = "off", !.version = None, !.status = "clean"]
  /\ burst' = 0
  /\ upd' = Idle
  /\ live' \in Survivors(live) /\ backup' \in Survivors(backup)
  /\ unsynced' = FALSE
  /\ update_failures' \in IF update_failures = 0 THEN {0} ELSE {update_failures, MAX_UPDATE_FAILURES}
  /\ UNCHANGED <<latest, reverted, known_good, probation, known_bad, install_failures>>

(* The known-good file is deleted or damaged from outside, between two updates. *)
BlobLost ==
  /\ Upset
  /\ upd.pc = "idle"
  /\ known_good # None /\ known_good' \in {None, Torn} \ {known_good}
  /\ UNCHANGED <<latest, binaries, probation, known_bad, install_failures, update_failures, service, upd>>

-----------------------------------------------------------------------------
(* `freenet update`.  A post-stop run gives the unit back to systemd when it ends. *)

Launched(pc, post_stop, force) ==
  [pc |-> pc, version |-> live, post_stop |-> post_stop, force |-> force, target |-> None, keep |-> None]

Goto(pc) == upd' = [upd EXCEPT !.pc = pc] /\ UNCHANGED node

Ends ==
  /\ upd' = Idle
  /\ node' = IF upd.post_stop THEN [node EXCEPT !.pc = "down"] ELSE node

(* ExecStopPost runs the installed binary, which need not be the one that stopped. *)
PostStop ==
  /\ node.pc = "exited" /\ upd.pc = "idle"
  /\ IF live \in Versions
     THEN /\ upd' = Launched(IF node.status = "crash" THEN "judge" ELSE "fetch", TRUE, FALSE)
          /\ UNCHANGED node
     ELSE node' = [node EXCEPT !.pc = "down"] /\ UNCHANGED upd
  /\ UNCHANGED <<latest, binaries, files, burst, upsets>>

ManualUpdate ==
  /\ upd.pc = "idle" /\ live \in Versions
  /\ node.pc \in {"down", "booting", "healthy", "stopped"}
  /\ \E force \in BOOLEAN :
       /\ upd' = Launched("fetch", FALSE, force)
       /\ IF force THEN Upset ELSE UNCHANGED upsets
  /\ UNCHANGED <<latest, binaries, files, service>>

(* A marker that speaks of this version and is younger than PROBATION_MAX_AGE_SECS. *)
OnProbation == probation # None /\ probation.new = upd.version /\ ~probation.aged

(* handle_post_stop: no marker, or one that is dropped as stale. *)
ProceedsAfterCrash ==
  /\ upd.pc = "judge"
  /\ ~OnProbation
  /\ probation' = None
  /\ Goto("fetch")
  /\ UNCHANGED <<latest, binaries, known_good, known_bad, install_failures, update_failures, burst, upsets>>

(* The count is written before anything else; if it cannot be written, it is lost, and     *)
(* only the crash that reaches the threshold goes on with the count in memory.             *)
CountsCrash ==
  /\ upd.pc = "judge"
  /\ OnProbation
  /\ LET count == probation.crash_count + 1 IN
       /\ \/ probation' = [probation EXCEPT !.crash_count = count] /\ UNCHANGED upsets
          \/ UNCHANGED probation /\ Upset
       /\ IF should_rollback(count) THEN Goto("verify") ELSE Ends
  /\ UNCHANGED <<latest, binaries, known_good, known_bad, install_failures, update_failures, burst>>

(* The blob must be there and have the recorded hash; otherwise the marker goes. *)
Verifies ==
  /\ upd.pc = "verify"
  /\ IF known_good = probation.blob
     THEN Goto("pin") /\ UNCHANGED probation
     ELSE Ends /\ probation' = None
  /\ UNCHANGED <<latest, binaries, known_good, known_bad, install_failures, update_failures, burst, upsets>>

CannotVerify ==
  /\ upd.pc = "verify"
  /\ Upset /\ Ends
  /\ UNCHANGED <<latest, binaries, files, burst>>

(* Mutant: the restore goes on without a durable pin. *)
pin_known_bad_Ignored ==
  /\ upd.pc = "pin"
  /\ \/ known_bad' = probation.new /\ UNCHANGED upsets
     \/ UNCHANGED known_bad /\ Upset
  /\ Goto("restore")
  /\ UNCHANGED <<latest, binaries, known_good, probation, install_failures, update_failures, burst>>

pin_known_bad ==
  /\ upd.pc = "pin"
  /\ \/ known_bad' = probation.new /\ Goto("restore") /\ UNCHANGED upsets
     \/ UNCHANGED known_bad /\ Upset /\ Ends
  /\ UNCHANGED <<latest, binaries, known_good, probation, install_failures, update_failures, burst>>

restore_binary ==
  /\ upd.pc = "restore"
  /\ \/ /\ live' = known_good /\ unsynced' = FALSE
        /\ reverted' = reverted \cup {probation.new}
        /\ Goto("unmark") /\ UNCHANGED upsets
     \/ UNCHANGED <<live, unsynced, reverted>> /\ Upset /\ Ends
  /\ UNCHANGED <<latest, backup, files, burst>>

RolledBack ==
  /\ upd.pc = "unmark"
  /\ probation' = None
  /\ Ends
  /\ UNCHANGED <<latest, binaries, known_good, known_bad, install_failures, update_failures, burst, upsets>>

-----------------------------------------------------------------------------
(* run_async after the post-stop part, and download_and_install. *)

AlreadyUpToDate ==
  /\ upd.pc = "fetch"
  /\ ~upd.force /\ latest <= upd.version
  /\ update_failures' = 0
  /\ install_failures' = [version |-> None, count |-> 0]
  /\ Ends
  /\ UNCHANGED <<latest, binaries, known_good, probation, known_bad, burst, upsets>>

RefusesBlocked ==
  /\ upd.pc = "fetch"
  /\ ~upd.force /\ latest > upd.version /\ Blocked(latest)
  /\ update_failures' = 0
  /\ Ends
  /\ UNCHANGED <<latest, binaries, known_good, probation, known_bad, install_failures, burst, upsets>>

Fetches ==
  /\ upd.pc = "fetch"
  /\ upd.force \/ (latest > upd.version /\ ~Blocked(latest))
  /\ upd' = [upd EXCEPT !.pc = "download", !.target = latest]
  /\ UNCHANGED <<latest, binaries, files, service, upsets>>

(* GitHub unreachable or rate-limited, a download or an extraction that fails: not counted. *)
FailsInTransit ==
  /\ upd.pc \in {"fetch", "download"}
  /\ Upset /\ Ends
  /\ UNCHANGED <<latest, binaries, files, burst>>

VerificationFails ==
  /\ upd.pc = "download"
  /\ upd.target \in Corrupt
  /\ \/ install_failures' = FailureRecorded(upd.target) /\ UNCHANGED upsets
     \/ UNCHANGED install_failures /\ Upset
  /\ Ends
  /\ UNCHANGED <<latest, binaries, known_good, probation, known_bad, update_failures, burst>>

Downloads ==
  /\ upd.pc = "download"
  /\ upd.target \notin Corrupt
  /\ Goto("prepare")
  /\ UNCHANGED <<latest, binaries, files, burst, upsets>>

(* The version replaced is itself on probation and its rollback target is still there. *)
Chained == OnProbation /\ known_good # None

(* Mutant: a fresh snapshot under the label an earlier marker carries forward. *)
prepare_known_good_Diverging ==
  /\ upd.pc = "prepare"
  /\ known_good' = live
  /\ upd' = [upd EXCEPT !.pc = "aside",
                        !.keep = [blob |-> live,
                                  previous |-> IF OnProbation THEN probation.previous ELSE upd.version]]
  /\ UNCHANGED <<latest, binaries, probation, known_bad, install_failures, update_failures, service, upsets>>

prepare_known_good ==
  /\ upd.pc = "prepare"
  /\ \/ /\ Chained
        /\ upd' = [upd EXCEPT !.pc = "aside",
                              !.keep = [blob |-> probation.blob, previous |-> probation.previous]]
        /\ UNCHANGED <<known_good, upsets>>
     \/ /\ ~Chained
        /\ known_good' = live
        /\ upd' = [upd EXCEPT !.pc = "aside", !.keep = [blob |-> live, previous |-> upd.version]]
        /\ UNCHANGED upsets
     \/ ~Chained /\ Upset /\ upd' = [upd EXCEPT !.pc = "aside"] /\ UNCHANGED known_good
  /\ UNCHANGED <<latest, binaries, probation, known_bad, install_failures, update_failures, service>>

(* replace_binary: the live binary aside, then the new one in its place. *)
MovesAside ==
  /\ upd.pc = "aside"
  /\ \/ backup' = live /\ live' = None /\ Goto("movein")
        /\ UNCHANGED <<update_failures, upsets>>
     \/ /\ Upset /\ Ends
        /\ update_failures' = update_failures + 1
        /\ UNCHANGED <<live, backup>>
  /\ UNCHANGED <<latest, unsynced, reverted, known_good, probation, known_bad, install_failures, burst>>

MovesIn ==
  /\ upd.pc = "movein"
  /\ live' = upd.target
  /\ unsynced' = TRUE
  /\ backup' = None
  /\ update_failures' = 0
  /\ Goto("arm")
  /\ UNCHANGED <<latest, reverted, known_good, probation, known_bad, install_failures, burst, upsets>>

(* The second rename fails; moving the old binary back may fail as well. *)
MoveInFails ==
  /\ upd.pc = "movein"
  /\ Upset /\ Ends
  /\ \/ live' = backup /\ backup' = None
     \/ UNCHANGED <<live, backup>>
  /\ update_failures' = update_failures + 1
  /\ UNCHANGED <<latest, unsynced, reverted, known_good, probation, known_bad, install_failures, burst>>

(* begin_probation, only with a rollback target: the pin goes first, then the marker comes. *)
ClearsPin ==
  /\ upd.pc = "arm"
  /\ IF upd.keep = None
     THEN Goto("installed") /\ UNCHANGED known_bad
     ELSE Goto("mark") /\ known_bad' = None
  /\ UNCHANGED <<latest, binaries, known_good, probation, install_failures, update_failures, burst, upsets>>

Marker == [new |-> upd.target, previous |-> upd.keep.previous, blob |-> upd.keep.blob,
           aged |-> FALSE, crash_count |-> 0]

begin_probation ==
  /\ upd.pc = "mark"
  /\ \/ probation' = Marker /\ UNCHANGED upsets
     \/ UNCHANGED probation /\ Upset
  /\ Goto("installed")
  /\ UNCHANGED <<latest, binaries, known_good, known_bad, install_failures, update_failures, burst>>

(* A manual update restarts the service when it is up; the restart may fail. *)
Installed ==
  /\ upd.pc = "installed"
  /\ install_failures' = [version |-> None, count |-> 0]
  /\ \/ Ends
     \/ /\ ~upd.post_stop /\ node.pc \in {"booting", "healthy"}
        /\ upd' = Idle
        /\ node' = [node EXCEPT !.pc = "down", !.status = "clean"]
  /\ UNCHANGED <<latest, binaries, known_good, probation, known_bad, update_failures, burst, upsets>>

(* TimeoutStopSec, a signal or the OOM killer ends the updater between two steps. *)
Killed ==
  /\ upd.pc # "idle"
  /\ Upset /\ Ends
  /\ UNCHANGED <<latest, binaries, files, burst>>

-----------------------------------------------------------------------------
Supervisor == Start \/ StartLimitHit \/ PostStop

Updater ==
  \/ ProceedsAfterCrash \/ CountsCrash \/ Verifies \/ pin_known_bad \/ restore_binary \/ RolledBack
  \/ AlreadyUpToDate \/ RefusesBlocked \/ Fetches \/ VerificationFails \/ Downloads
  \/ prepare_known_good \/ MovesAside \/ MovesIn \/ ClearsPin \/ begin_probation \/ Installed

Node == WedgedFails \/ Settles \/ ExitsForUpdate \/ ExitsIsolated

Environment ==
  \/ Release \/ OperatorStarts \/ ManualUpdate \/ Ages
  \/ NodeFails \/ WrittenBack \/ PowerLoss \/ BlobLost \/ Killed
  \/ CannotVerify \/ FailsInTransit \/ MoveInFails

Next == Supervisor \/ Updater \/ Node \/ Environment

Spec == Init /\ [][Next]_vars

(* systemd restarts the unit, a process that runs takes its next step, a wedged version dies. *)
FairSpec == Spec /\ WF_vars(Supervisor) /\ WF_vars(Updater) /\ WF_vars(WedgedFails)

-----------------------------------------------------------------------------
Counts == [version : Versions \cup {None}, count : 0 .. INSTALL_FAILURE_GATE_THRESHOLD]

Services == [pc : {"down", "booting", "healthy", "exited", "stopped", "off"},
             version : Versions \cup {None}, status : {"clean", "crash", "update"}]

Updaters == [pc : {"idle", "judge", "verify", "pin", "restore", "unmark", "fetch", "download",
                   "prepare", "aside", "movein", "arm", "mark", "installed"},
             version : Versions \cup {None}, post_stop : BOOLEAN, force : BOOLEAN,
             target : Versions \cup {None},
             keep : [blob : Versions, previous : Versions] \cup {None}]

(* The files hold what their readers expect: a power loss can damage the live binary or its      *)
(* backup, but no marker, pin or updater ever names a damaged one, and systemd never starts the  *)
(* unit more often than its window allows.                                                       *)
UpdateTypeOK ==
  /\ latest \in Versions
  /\ live \in Binaries \cup {None}
  /\ backup \in Binaries \cup {None}
  /\ unsynced \in BOOLEAN
  /\ known_good \in Binaries \cup {None}
  /\ probation \in Markers \cup {None}
  /\ known_bad \in Versions \cup {None}
  /\ install_failures \in Counts
  /\ update_failures \in Nat
  /\ node \in Services
  /\ burst \in 0 .. StartLimitBurst
  /\ upd \in Updaters
  /\ upsets \in 0 .. MaxUpsets
  /\ reverted \in SUBSET Versions

(* What restore_binary is about to copy is whole, is the binary of the version the marker  *)
(* calls previous, and replaces the version that crashed: the blob, its hash and its label *)
(* never diverge (prepare_known_good_for_install), through chained updates, markers left   *)
(* by an earlier update, lost blobs, and updaters killed between the snapshot and the      *)
(* marker.                                                                                 *)
RollbackIsExact ==
  upd.pc = "restore" =>
    /\ known_good = probation.previous
    /\ live = probation.new
    /\ known_bad = live

(* A version that was rolled back is not installed again unless an operator forces it:     *)
(* update, crash, revert, update again never becomes a loop (the pin is durable first).    *)
NoReapply ==
  [][(upd.pc = "movein" /\ live' # live /\ live' # backup /\ ~upd.force) => live' \notin reverted]_vars

Armed(v) ==
  /\ live = v /\ upd.pc = "idle" /\ node.pc = "down"
  /\ probation # None /\ probation.new = v /\ ~probation.aged /\ probation.crash_count = 0
  /\ known_good = probation.blob /\ probation.blob # v   \* not a forced reinstall of v itself

(* Once a wedged version is armed, with no fault to come, no newer release to step to and   *)
(* as many starts left in systemd's window as the rollback needs, the unit does not end on  *)
(* it: ROLLBACK_CRASH_THRESHOLD < StartLimitBurst is enough.                                *)
RollbackBeatsLimiter ==
  \A v \in Wedged :
    (/\ Armed(v) /\ upsets = MaxUpsets
     /\ burst + ROLLBACK_CRASH_THRESHOLD <= StartLimitBurst)
      ~> (live # v \/ latest > v)

(* The node does not exit for updates for ever: neither a release that crash-loops nor one  *)
(* that fails its checksum sustains the loop of exits, failed installs and restarts.        *)
ExitLoopEnds == <>[][~ExitsForUpdate]_vars

=============================================================================
