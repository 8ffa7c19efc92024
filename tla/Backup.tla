-------------------------------- MODULE Backup --------------------------------
(***************************************************************************)
(* deploy/backup: backup.sh dumps the database into a restic repository,   *)
(* prunes it and leaves a status file that Prometheus reads.  restore.sh   *)
(* only reads the repository: it loads the newest snapshot elsewhere.      *)
(*                                                                         *)
(* crond starts a run once a day and an operator may start one at any      *)
(* time, in a container of its own, so runs may overlap.  Any command may  *)
(* fail, which ends the run through its EXIT trap, and a container may be  *)
(* killed, which does not.  The shell only looks at the right end of a     *)
(* pipe: the status of "pg_dump | restic backup" is that of restic.        *)
(*                                                                         *)
(* The status is written line by line, through a descriptor that stays     *)
(* with its file when another run moves the file away.  The two lines that *)
(* matter have fixed places: what two runs write into one file is a line   *)
(* of the one or of the other, or a hole where nobody has written yet.     *)
(***************************************************************************)
EXTENDS Integers, Sequences, FiniteSets, FiniteSetsExt

CONSTANTS
  Runners,                  \* who runs backup.sh: crond and the operator
  KeepDaily, KeepWeekly,    \* the retention policy
  TicksInDay, DaysInWeek,
  Stale,                    \* the age that alerts.yml allows, in ticks
  DumpFails,                \* whether pg_dump may fail
  LastTick, MaxRuns         \* bounds on the clock and on the number of runs

ASSUME BackupAssumption ==
  /\ {KeepDaily, KeepWeekly, TicksInDay, DaysInWeek, Stale} \subseteq Nat \ {0}
  /\ DumpFails \in BOOLEAN
  /\ {LastTick, MaxRuns} \subseteq Nat

VARIABLES
  now,           \* the clock
  job,           \* where each runner is in the script, and its variables
  repo,          \* the numbers of the snapshots in the repository
  tmp,           \* metrics_tmp, an empty set or one status
  file,          \* metrics_file
  taken,         \* observer: every snapshot that was ever uploaded
  started,       \* observer: the number of runs
  lastSuccess    \* observer: completed_at of the newest run without a failure

vars == <<now, job, repo, tmp, file, taken, started, lastSuccess>>

Never     == -1
Unwritten == -1

\* A status to which nothing is written yet.
Empty == [success |-> Unwritten, upload |-> 0, completed |-> Never]

Idle == [at |-> "idle", success |-> 0, upload |-> 0, completed |-> Never,
         writes |-> "nothing"]

Init ==
  /\ now = 0
  /\ job = [r \in Runners |-> Idle]
  /\ repo = {} /\ taken = <<>>
  /\ tmp = {} /\ file = {}
  /\ started = 0 /\ lastSuccess = Never

------------------------------------------------------------------------------
(* restic forget keeps the newest snapshot of each of the newest days, and *)
(* of the newest weeks, that have one.                                     *)
DayOf  == [n \in DOMAIN taken |-> taken[n].at \div TicksInDay]
WeekOf == [n \in DOMAIN taken |-> DayOf[n] \div DaysInWeek]

NewestOf(period, keep, snapshots) ==
  {n \in snapshots :
     LET newer == {m \in snapshots : m > n}
     IN  /\ \A m \in newer : period[m] # period[n]
         /\ Cardinality({period[m] : m \in newer}) < keep}

Forget(daily, weekly) ==
  NewestOf(DayOf, daily, repo) \union NewestOf(WeekOf, weekly, repo)

Retained == Forget(KeepDaily, KeepWeekly)

------------------------------------------------------------------------------
(* The script starts, and opens or creates the repository.                 *)
Start(r) ==
  /\ job[r].at = "idle"
  /\ started < MaxRuns
  /\ started' = started + 1
  /\ job' = [job EXCEPT ![r] = [Idle EXCEPT !.at = "dumping", !.success = 1]]
  /\ UNCHANGED <<now, repo, tmp, file, taken, lastSuccess>>

(* The pipe ends well if restic does: it stores what it got, also when     *)
(* pg_dump has failed half-way.                                            *)
Dump(r) ==
  /\ job[r].at = "dumping"
  /\ \E whole \in IF DumpFails THEN BOOLEAN ELSE {TRUE} :
       taken' = Append(taken, [at |-> now, whole |-> whole])
  /\ repo' = repo \union {Len(taken) + 1}
  /\ job' = [job EXCEPT ![r].at = "pruning", ![r].upload = Len(taken) + 1]
  /\ UNCHANGED <<now, tmp, file, started, lastSuccess>>

\* Fault: the retention policy has no --keep-weekly.
Prune_DailyOnly(r) ==
  /\ job[r].at = "pruning"
  /\ repo' = NewestOf(DayOf, KeepDaily, repo)
  /\ job' = [job EXCEPT ![r].at = "reporting", ![r].completed = now]
  /\ lastSuccess' = now
  /\ UNCHANGED <<now, tmp, file, taken, started>>

(* restic forget --prune, and completed_at.                                *)
Prune(r) ==
  /\ job[r].at = "pruning"
  /\ repo' = Retained
  /\ job' = [job EXCEPT ![r].at = "reporting", ![r].completed = now]
  /\ lastSuccess' = now
  /\ UNCHANGED <<now, tmp, file, taken, started>>

\* Fault: the script goes on after a command that failed (no set -e).
Fail_GoesOn(r) ==
  /\ job[r].at \in {"dumping", "pruning"}
  /\ job' = [job EXCEPT ![r].at = "reporting", ![r].completed = now]
  /\ UNCHANGED <<now, repo, tmp, file, taken, started, lastSuccess>>

(* A command fails and the trap reports it; restic stores a snapshot at    *)
(* the very end, and may fail after forgetting some.                       *)
Fail(r) ==
  /\ \/ job[r].at = "dumping" /\ UNCHANGED repo
     \/ job[r].at = "pruning" /\ repo' \in {repo, Retained}
  /\ job' = [job EXCEPT ![r].at = "reporting", ![r].success = 0]
  /\ UNCHANGED <<now, tmp, file, taken, started, lastSuccess>>

(* write_result empties the temporary file, which all runs share, or       *)
(* creates it ...                                                          *)
OpenResult(r) ==
  /\ job[r].at = "reporting"
  /\ tmp' = {Empty}
  /\ job' = [job EXCEPT ![r].at = "telling", ![r].writes = "tmp"]
  /\ UNCHANGED <<now, repo, file, taken, started, lastSuccess>>

(* What a line makes of the status at a path: it is written if that is     *)
(* where the file is that the run has opened.                              *)
Through(r, path, statuses, Line(_)) ==
  IF job[r].writes = path THEN {Line(s) : s \in statuses} ELSE statuses

WriteLine(r, Line(_)) ==
  /\ tmp'  = Through(r, "tmp", tmp, Line)
  /\ file' = Through(r, "file", file, Line)
  /\ UNCHANGED <<now, repo, taken, started, lastSuccess>>

(* ... says how the run has ended ...                                      *)
WriteSuccess(r) ==
  /\ job[r].at = "telling"
  /\ WriteLine(r, LAMBDA s : [s EXCEPT !.success = job[r].success, !.upload = job[r].upload])
  /\ job' = [job EXCEPT ![r].at = IF job[r].success = 1 THEN "stamping" ELSE "moving"]

(* ... and when, after a success ...                                       *)
WriteTime(r) ==
  /\ job[r].at = "stamping"
  /\ WriteLine(r, LAMBDA s : [s EXCEPT !.completed = job[r].completed])
  /\ job' = [job EXCEPT ![r].at = "moving"]

\* A command of write_result fails: the trap reports it, unless this is the trap.
Failing(r) ==
  IF job[r].success = 1
    THEN [job[r] EXCEPT !.at = "reporting", !.success = 0, !.writes = "nothing"]
    ELSE Idle

(* ... and moves it into place, together with the descriptors of runs that *)
(* write it.  If another run has moved it, mv fails.                       *)
MoveResult(r) ==
  /\ job[r].at = "moving"
  /\ \/ /\ tmp # {}
        /\ file' = tmp /\ tmp' = {}
        /\ job' = [q \in Runners |->
             IF q = r THEN Idle
             ELSE CASE job[q].writes = "tmp"  -> [job[q] EXCEPT !.writes = "file"]
                    [] job[q].writes = "file" -> [job[q] EXCEPT !.writes = "gone"]
                    [] OTHER                  -> job[q]]
     \/ /\ tmp = {}
        /\ job' = [job EXCEPT ![r] = Failing(r)]
        /\ UNCHANGED <<tmp, file>>
  /\ UNCHANGED <<now, repo, taken, started, lastSuccess>>

(* The file cannot be opened or written, if the disk is full.              *)
ResultFails(r) ==
  /\ job[r].at \in {"reporting", "telling", "stamping"}
  /\ job' = [job EXCEPT ![r] = Failing(r)]
  /\ UNCHANGED <<now, repo, tmp, file, taken, started, lastSuccess>>

(* The container is killed, or the host goes down: no trap runs.           *)
Kill(r) ==
  /\ job[r].at # "idle"
  /\ job' = [job EXCEPT ![r] = Idle]
  /\ UNCHANGED <<now, repo, tmp, file, taken, started, lastSuccess>>

Tick ==
  /\ now < LastTick
  /\ now' = now + 1
  /\ UNCHANGED <<job, repo, tmp, file, taken, started, lastSuccess>>

Run(r) ==
  \/ Start(r) \/ Dump(r) \/ Prune(r) \/ Fail(r) \/ Kill(r)
  \/ OpenResult(r) \/ WriteSuccess(r) \/ WriteTime(r) \/ MoveResult(r) \/ ResultFails(r)

Next == Tick \/ \E r \in Runners : Run(r)

Spec == Init /\ [][Next]_vars

------------------------------------------------------------------------------
(* Types of the variables.                                                 *)
Snapshot == [at : Nat, whole : BOOLEAN]
Status   == [success : {Unwritten, 0, 1}, upload : Nat, completed : Nat \union {Never}]
Job      == [at : {"idle", "dumping", "pruning", "reporting", "telling", "stamping",
                   "moving"},
             success : {0, 1}, upload : Nat, completed : Nat \union {Never},
             writes : {"nothing", "tmp", "file", "gone"}]

TypeOK ==
  /\ {now, started} \subseteq Nat /\ lastSuccess \in Nat \union {Never}
  /\ job \in [Runners -> Job]
  /\ taken \in Seq(Snapshot) /\ repo \subseteq DOMAIN taken
  /\ tmp \subseteq Status /\ file \subseteq Status

\* restore.sh restores the latest snapshot.
Latest == CHOOSE n \in repo : \A m \in repo : m <= n

(***************************************************************************)
(* A status file that reports a success stands for a snapshot: the run     *)
(* that reported has uploaded one, and restore.sh would restore it or a    *)
(* newer one, whatever other runs have pruned or written since.            *)
(***************************************************************************)
SuccessIsUploaded ==
  \A status \in file : status.success = 1
    => status.upload # 0 /\ repo # {} /\ Latest >= status.upload

(***************************************************************************)
(* The alerts BackupFailed and BackupMissingOrStale of alerts.yml.  One of *)
(* them is raised once the newest run without a failure is too old, also   *)
(* if runs were killed, or have written over each other's status.          *)
(***************************************************************************)
Alarm ==
  \/ \E status \in file : status.success = 0
  \/ \A status \in file : status.completed = Never \/ now - status.completed > Stale

SilenceRaisesAlarm ==
  lastSuccess = Never \/ now - lastSuccess > Stale => Alarm

(***************************************************************************)
(* Pruning step by step, by runs that overlap, fail or are killed, loses   *)
(* nothing that the policy, applied once to all snapshots ever taken,      *)
(* would keep: the newest of each of the last days and of the last weeks.  *)
(***************************************************************************)
RetentionKept ==
  /\ NewestOf(DayOf, KeepDaily, DOMAIN taken) \subseteq repo
  /\ NewestOf(WeekOf, KeepWeekly, DOMAIN taken) \subseteq repo

(***************************************************************************)
(* backup.sh describes the reported value as "Whether the latest backup    *)
(* run succeeded": a run that reports success has stored a whole database. *)
(***************************************************************************)
SuccessIsRestorable ==
  \A status \in file : status.success = 1 => taken[status.upload].whole
==============================================================================
