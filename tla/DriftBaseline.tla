----------------------------- MODULE DriftBaseline -----------------------------
(***************************************************************************)
(* The frozen drift baseline (workers/drift_worker.py): drift checks that   *)
(* read the file and log a verdict, and `--rebaseline` runs that replace it *)
(* when the log has been quiet.  Every run is a process of its own with one *)
(* database transaction; nothing but the file system and the audit log is   *)
(* shared, and nothing keeps two runs apart.                                *)
(*                                                                         *)
(* Feature values are left out: a verdict is any level the comparison can   *)
(* give.  A file is an inode, since a writer that has opened the temporary  *)
(* file goes on writing to it after another run has renamed it.             *)
(***************************************************************************)
EXTENDS Naturals, Sequences

CONSTANTS
    Checkers,    \* drift checks that can run at a time
    Refreshers,  \* rebaseline runs that can run at a time
    Inodes,
    NBlocks,     \* writes it takes to dump a sample to the temporary file
    LogLimit,    \* rows audit_repo.recent returns (200 in the code)
    MaxLog,      \* bound: audit rows in the quiet window
    MaxRuns,     \* bound: rebaseline runs started; also the backups' clock
    Trainer,     \* who wrote the first baseline
    NoFile, Nobody

ASSUME ConstantsAssumption ==
    /\ NBlocks \in Nat \ {0}
    /\ LogLimit \in Nat /\ MaxLog \in Nat /\ MaxRuns \in Nat
    /\ NoFile \notin Inodes
    /\ Nobody \notin Refreshers \cup {Trainer}

Blocks == 1..NBlocks
Levels == {"alert", "warn", "other"}  \* "other": clean, skipped, or not drift

VARIABLES
    path,       \* inode of baseline_features.csv
    tmp,        \* inode of baseline_features.csv.tmp
    backups,    \* inode of baseline_features.csv.bak.<second>, by second
    data,       \* who wrote each block of an inode
    pc,         \* where each run stands
    fd,         \* the inode a rebaseline run is writing to
    wrote,      \* blocks it has written
    verdict,    \* the level a check is about to log
    log,        \* audit rows in the quiet window, oldest first
    clock,      \* the second: a new run starts in a later one
    installed,  \* history: inodes that a rename has made the baseline
    looked,     \* history: how many rows of the log were there when the gate
                \* of a run looked at it
    overlapped  \* history: two runs have been past their gates at a time

vars == <<path, tmp, backups, data, pc, fd, wrote, verdict, log, clock,
          installed, looked, overlapped>>
files == <<path, tmp, backups, data, installed>>
history == <<looked, overlapped>>

Complete(i) ==
    \E w \in Refreshers \cup {Trainer} : \A b \in Blocks : data[i][b] = w

Empty == [b \in Blocks |-> Nobody]

Free(i) ==
    /\ i \notin {path, tmp} \cup installed
    /\ \A s \in DOMAIN backups : backups[s] # i
    /\ \A p \in Refreshers : fd[p] # i

Flagged == {n \in DOMAIN log : log[n] \in {"alert", "warn"}}

\* Mutated form of the count: it forgets the warnings.
CountedAlertsOnly ==
    {n \in DOMAIN log : log[n] = "alert" /\ n + LogLimit > Len(log)}

\* _count_recent_drift_alerts looks at the newest LogLimit audit rows of any
\* action.
Counted == {n \in Flagged : n + LogLimit > Len(log)}

\* A run past its gate, which has yet to rename.
Replacing(p) == pc[p] \in {"quiet", "pulled", "backup", "open", "write"}

Goto(p, step) == pc' = [pc EXCEPT ![p] = step]

Append1(row) == Len(log) < MaxLog /\ log' = Append(log, row)

Init ==
    /\ \E i \in Inodes :
        /\ path \in {i, NoFile}
        /\ data = [j \in Inodes |->
                    IF j = i THEN [b \in Blocks |-> Trainer] ELSE Empty]
        /\ installed = {path} \ {NoFile}
    /\ tmp = NoFile
    /\ backups = [s \in 0..MaxRuns |-> NoFile]
    /\ pc = [p \in Checkers \cup Refreshers |-> "idle"]
    /\ fd = [p \in Refreshers |-> NoFile]
    /\ wrote = [p \in Refreshers |-> 0]
    /\ verdict = [p \in Checkers |-> "other"]
    /\ log = <<>>
    /\ clock = 0
    /\ looked = [p \in Refreshers |-> 0]
    /\ overlapped = FALSE

-----------------------------------------------------------------------------
(* run_drift_check *)

\* A missing baseline is logged as skipped and the run is over.
CheckStart(c) ==
    /\ pc[c] = "idle"
    /\ Goto(c, IF path = NoFile THEN "returned" ELSE "read")
    /\ verdict' = [verdict EXCEPT ![c] = "other"]
    /\ UNCHANGED <<files, fd, wrote, log, clock, history>>

\* _read_csv: open() raises when the file has gone since exists().
CheckRead(c) ==
    /\ pc[c] = "read"
    /\ Goto(c, IF path = NoFile THEN "idle" ELSE "pull")
    /\ UNCHANGED <<files, fd, wrote, verdict, log, clock, history>>

\* query_json and compare_columns.
CheckPull(c, level) ==
    /\ pc[c] = "pull"
    /\ verdict' = [verdict EXCEPT ![c] = level]
    /\ Goto(c, "returned")
    /\ UNCHANGED <<files, fd, wrote, log, clock, history>>

CheckCommit(c) ==
    /\ pc[c] = "returned"
    /\ Append1(verdict[c])
    /\ Goto(c, "idle")
    /\ UNCHANGED <<files, fd, wrote, verdict, clock, history>>

-----------------------------------------------------------------------------
(* rebaseline_if_quiet *)

\* The quiet gate: a run that finds an alert or a warning is skipped.
Count(p) ==
    /\ pc[p] = "idle"
    /\ clock < MaxRuns
    /\ clock' = clock + 1
    /\ Goto(p, IF Counted = {} THEN "quiet" ELSE "returned")
    /\ looked' = [looked EXCEPT ![p] = Len(log)]
    /\ overlapped' = (overlapped \/ \E q \in Refreshers : Replacing(q))
    /\ UNCHANGED <<files, fd, wrote, verdict, log>>

\* No traffic in the window: skipped.  Otherwise the sample is in memory.
Pull(p, rows) ==
    /\ pc[p] = "quiet"
    /\ Goto(p, IF rows THEN "pulled" ELSE "returned")
    /\ UNCHANGED <<files, fd, wrote, verdict, log, clock, history>>

\* Mutated form of the step below: no backup is taken.
WithoutBackup(p) ==
    /\ pc[p] = "pulled"
    /\ Goto(p, "open")
    /\ UNCHANGED <<files, fd, wrote, verdict, log, clock, history>>

Exists(p) ==
    /\ pc[p] = "pulled"
    /\ Goto(p, IF path = NoFile THEN "open" ELSE "backup")
    /\ UNCHANGED <<files, fd, wrote, verdict, log, clock, history>>

\* path.replace(backup): replaces a backup of the same second, and raises when
\* the file has gone since exists().
Backup(p) ==
    /\ pc[p] = "backup"
    /\ IF path = NoFile
       THEN Goto(p, "idle") /\ UNCHANGED <<path, backups>>
       ELSE /\ backups' = [backups EXCEPT ![clock] = path]
            /\ path' = NoFile
            /\ Goto(p, "open")
    /\ UNCHANGED <<tmp, data, fd, wrote, verdict, log, clock, installed, history>>

\* tmp.open("w"): the file is created, or the one that is there is truncated.
OpenTmp(p) ==
    /\ pc[p] = "open"
    /\ \E i \in Inodes :
        /\ IF tmp = NoFile THEN Free(i) ELSE i = tmp
        /\ tmp' = i
        /\ data' = [data EXCEPT ![i] = Empty]
        /\ fd' = [fd EXCEPT ![p] = i]
    /\ wrote' = [wrote EXCEPT ![p] = 0]
    /\ Goto(p, "write")
    /\ UNCHANGED <<path, backups, verdict, log, clock, installed, history>>

Write(p) ==
    /\ pc[p] = "write"
    /\ wrote[p] < NBlocks
    /\ wrote' = [wrote EXCEPT ![p] = @ + 1]
    /\ data' = [data EXCEPT ![fd[p]][wrote[p] + 1] = p]
    /\ UNCHANGED <<path, tmp, backups, pc, fd, verdict, log, clock, installed, history>>

\* Mutated form of the step below: the file is renamed while it is written.
RenameEarly(p) ==
    /\ pc[p] = "write"
    /\ tmp # NoFile
    /\ path' = tmp
    /\ tmp' = NoFile
    /\ installed' = installed \cup {tmp}
    /\ fd' = [fd EXCEPT ![p] = NoFile]
    /\ Goto(p, "returned")
    /\ UNCHANGED <<backups, data, wrote, verdict, log, clock, history>>

\* tmp.replace(path): raises when another run has taken the temporary file.
Rename(p) ==
    /\ pc[p] = "write"
    /\ wrote[p] = NBlocks
    /\ IF tmp = NoFile
       THEN Goto(p, "idle") /\ UNCHANGED <<path, tmp, installed>>
       ELSE /\ path' = tmp
            /\ tmp' = NoFile
            /\ installed' = installed \cup {tmp}
            /\ Goto(p, "returned")
    /\ fd' = [fd EXCEPT ![p] = NoFile]
    /\ UNCHANGED <<backups, data, wrote, verdict, log, clock, history>>

\* The skipped or refreshed row is committed and the run is over.
RefreshCommit(p) ==
    /\ pc[p] = "returned"
    /\ Append1("other")
    /\ Goto(p, "idle")
    /\ UNCHANGED <<files, fd, wrote, verdict, clock, history>>

-----------------------------------------------------------------------------
(* The environment *)

\* A run dies: the process is killed, ClickHouse or the disk fails.  What it did
\* to the file system stays, its transaction does not.
Crash(p) ==
    /\ pc[p] # "idle"
    /\ Goto(p, "idle")
    /\ fd' = [q \in Refreshers |-> IF q = p THEN NoFile ELSE fd[q]]
    /\ UNCHANGED <<files, wrote, verdict, log, clock, history>>

\* Any other mutation of the panel leaves a row in the same log.
OtherRow ==
    /\ Append1("other")
    /\ UNCHANGED <<files, pc, fd, wrote, verdict, clock, history>>

\* The oldest row leaves the quiet window.
Age ==
    /\ log # <<>>
    /\ log' = Tail(log)
    /\ looked' = [p \in Refreshers |-> IF looked[p] = 0 THEN 0 ELSE looked[p] - 1]
    /\ UNCHANGED <<files, pc, fd, wrote, verdict, clock, overlapped>>

-----------------------------------------------------------------------------
Check(c) ==
    \/ CheckStart(c)
    \/ CheckRead(c)
    \/ \E level \in Levels : CheckPull(c, level)
    \/ CheckCommit(c)

Refresh(p) ==
    \/ Count(p)
    \/ \E rows \in BOOLEAN : Pull(p, rows)
    \/ Exists(p)
    \/ Backup(p)
    \/ OpenTmp(p)
    \/ Write(p)
    \/ Rename(p)
    \/ RefreshCommit(p)

Next ==
    \/ \E c \in Checkers : Check(c)
    \/ \E p \in Refreshers : Refresh(p)
    \/ \E p \in Checkers \cup Refreshers : Crash(p)
    \/ OtherRow
    \/ Age

Spec == Init /\ [][Next]_vars

-----------------------------------------------------------------------------
(* Properties *)

TypeOK ==
    /\ path \in Inodes \cup {NoFile}
    /\ tmp \in Inodes \cup {NoFile}
    /\ backups \in [0..MaxRuns -> Inodes \cup {NoFile}]
    /\ data \in [Inodes -> [Blocks -> Refreshers \cup {Trainer, Nobody}]]
    /\ pc \in [Checkers \cup Refreshers -> {"idle", "read", "pull", "returned",
                    "quiet", "pulled", "backup", "open", "write"}]
    /\ fd \in [Refreshers -> Inodes \cup {NoFile}]
    /\ wrote \in [Refreshers -> 0..NBlocks]
    /\ verdict \in [Checkers -> Levels]
    /\ log \in Seq(Levels) /\ Len(log) <= MaxLog
    /\ clock \in 0..MaxRuns
    /\ installed \subseteq Inodes
    /\ looked \in [Refreshers -> 0..MaxLog]
    /\ overlapped \in BOOLEAN

\* "Atomic-ish write" (_write_baseline_csv): whenever a check opens the baseline
\* it finds one whole sample in it, wherever earlier runs died, until two runs
\* have met (they share one temporary file).
NeverTorn == ~overlapped /\ path # NoFile => Complete(path)

\* "Backs up any existing file": every baseline ever in force is still there,
\* whole, as the baseline or as a backup, until two runs have met.
PreviousIsKept ==
    ~overlapped =>
        \A i \in installed :
            /\ Complete(i)
            /\ i = path \/ \E s \in DOMAIN backups : backups[s] = i

\* What the quiet gate is good for, whatever else is logged: a run replaces the
\* baseline with an alert or a warning in the quiet window only if the row was
\* committed after the gate looked, or LogLimit later rows hid it by then.
LateOrBuried ==
    \A p \in Refreshers : Replacing(p) =>
        \A n \in Flagged : n > looked[p] \/ n + LogLimit <= looked[p]

\* The quiet gate lets no run through while an alert or a warning is in the
\* quiet window: "so this covers a 7-day window comfortably".
GateSeesEveryAlert ==
    [][\A p \in Refreshers :
        pc[p] = "idle" /\ pc'[p] = "quiet" => Flagged = {}]_vars
=============================================================================
