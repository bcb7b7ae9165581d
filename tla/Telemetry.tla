----------------------------- MODULE Telemetry -----------------------------
(***************************************************************************)
(* The daemon log's way to the fleet dashboard: RotatingFile               *)
(* (worker/logrotate.go) writes it, LogTailer and TelemetryExporter        *)
(* (worker/telemetry) read and push it, TelemetryServer                    *)
(* (telemetry-server/server.go, ring.go) keeps the newest lines and log    *)
(* directories of a worker.                                                *)
(*                                                                         *)
(* A line is the number of its writing and has length one.  A file is its  *)
(* inode: os.SameFile compares inodes, and a file system may give a new    *)
(* file the inode of one that has lost its last name and handle.           *)
(***************************************************************************)
EXTENDS Integers, SequencesExt

CONSTANTS
  Inodes, NoFile,
  FileLines,     \* rotatingFileMaxBytes
  PushLines,     \* maxLogLinesPerPush
  PendingLines,  \* maxPendingLogLines
  RingLines,     \* maxLogLinesPerWorker
  Dirs,          \* the log directories, there from earlier runs
  MaxDirs,       \* maxIssueLogDirsPerWorker
  MaxLines,      \* bound: lines ever written
  MaxTouches,    \* bound: changes of a directory
  MaxFaults,     \* bound: calls that fail and answers that are lost
  MaxUpsets      \* bound: deaths of the daemon or the server, long silences

ASSUME TelemetryAssumption ==
  /\ Inodes # {}
  /\ NoFile \notin Inodes
  /\ {FileLines, PushLines, PendingLines, RingLines, MaxDirs} \subseteq Nat \ {0}
  /\ FileLines <= MaxLines
  /\ {MaxLines, MaxTouches, MaxFaults, MaxUpsets} \subseteq Nat

VARIABLES
  written,  \* lines written so far
  content,  \* the lines in each inode
  path,     \* daemon.log
  backup,   \* daemon.log.1
  handle,   \* RotatingFile.f, NoFile when the daemon is down
  exp,      \* where the exporter is; "down" and "boot" come before it
  offset,   \* LogTailer.offset
  last,     \* LogTailer.last
  opened,   \* the file Next has open
  lines,    \* what Next has read in this call
  pending,  \* TelemetryExporter.pending
  req,      \* the push under way
  late,     \* pushes the exporter has given up on that the server may yet see
  disk,     \* the log directories, least recently modified first
  worker,   \* the server's entry of this worker
  upsets, faults, touches,  \* what is left of the bounds
  mark,     \* history: the exporter's tailer has got past this line
  turns,    \* history: rotations since Next last opened the log, 2 for more
  slack,    \* history: may lines be missing "now", or in what is read "next"?
  foreign,  \* history: does a newer file have the inode last names ("there"), and
            \* has drainRotated taken it for the old one ("read")?
  taken     \* history: lines the server has taken

log == <<written, content, path, backup, handle>>
tailer == <<offset, last, opened, lines>>
bounds == <<upsets, faults, touches>>
vars == <<log, exp, tailer, pending, req, late, disk, worker, bounds,
          mark, turns, slack, foreign, taken>>

NoScan == [done |-> FALSE, dirs |-> <<>>]
NoPush == [logs |-> <<>>, scan |-> NoScan]
NoWorker == [known |-> FALSE, expired |-> FALSE, ring |-> <<>>, archive |-> {}]

Oldest(s, n) == IF Len(s) <= n THEN s ELSE SubSeq(s, 1, n)
Newest(s, n) == IF Len(s) <= n THEN s ELSE SubSeq(s, Len(s) - n + 1, Len(s))
From(f, n) == SubSeq(content[f], n + 1, Len(content[f]))

Fault == faults > 0 /\ faults' = faults - 1
NoFault == UNCHANGED faults
Upset == upsets > 0 /\ upsets' = upsets - 1

\* An earlier run has left a full log.
Init ==
  /\ written = FileLines
  /\ path = CHOOSE f \in Inodes : TRUE
  /\ content = [f \in Inodes |-> IF f = path THEN [k \in 1..FileLines |-> k] ELSE <<>>]
  /\ backup = NoFile /\ handle = NoFile
  /\ exp = "down"
  /\ offset = 0 /\ last = NoFile /\ opened = NoFile /\ lines = <<>>
  /\ pending = <<>> /\ req = NoPush /\ late = {}
  /\ disk = SetToSeq(Dirs) /\ worker = NoWorker
  /\ upsets = MaxUpsets /\ faults = MaxFaults /\ touches = MaxTouches
  /\ mark = 0 /\ turns = 0 /\ slack = {} /\ foreign = "no" /\ taken = {}

-----------------------------------------------------------------------------
(* The writer *)

\* An inode that has neither name nor handle once the log has taken the .1.
Free == Inodes \ {path, handle, opened}

\* Write's test. A first line is written whatever its length.
Full == content[handle] # <<>> /\ Len(content[handle]) + 1 > FileLines

LogTo(f, before) ==
  /\ written < MaxLines
  /\ written' = written + 1
  /\ content' = [content EXCEPT ![f] = Append(before, written + 1)]

Turned ==
  /\ turns' = IF turns = 0 THEN 1 ELSE 2
  /\ slack' = IF exp = "drain" THEN slack \cup {"now"} ELSE slack

exporter == <<exp, tailer, pending, req, late, disk, worker, mark, taken>>

\* Mutant: the log is not renamed before a new file takes its path.
RotateUnnamed(f) ==
  /\ Full /\ path # NoFile
  /\ LogTo(f, <<>>)
  /\ path' = f /\ handle' = f
  /\ UNCHANGED <<backup, foreign>> /\ NoFault /\ Turned

\* rotate succeeds, and the line goes to the new file.
Rotate(f) ==
  /\ Full /\ path # NoFile
  /\ LogTo(f, <<>>)
  /\ path' = f /\ backup' = path /\ handle' = f
  /\ foreign' = IF f = last /\ foreign = "no" THEN "there" ELSE foreign
  /\ NoFault /\ Turned

\* The new file does not open: the name is given back, the earlier .1 is lost.
\* Giving it back may fail, and then the log has no file at its path.
RotateBackedOut ==
  /\ Full /\ path # NoFile
  /\ Fault
  /\ LogTo(handle, content[handle])
  /\ \/ backup' = NoFile /\ UNCHANGED path
     \/ backup' = path /\ path' = NoFile
  /\ UNCHANGED <<handle, foreign>> /\ Turned

\* There is room, or the rename fails, as it does for good without a file.
WriteOn ==
  /\ IF Full /\ path # NoFile THEN Fault ELSE NoFault
  /\ LogTo(handle, content[handle])
  /\ UNCHANGED <<path, backup, handle, turns, slack, foreign>>

Write ==
  /\ handle # NoFile
  /\ \/ \E f \in Free : Rotate(f)
     \/ RotateBackedOut
     \/ WriteOn
  /\ UNCHANGED <<exporter, upsets, touches>>

\* A pipeline writes into a log directory, which becomes the newest.
Touch(d) ==
  /\ handle # NoFile /\ touches > 0
  /\ touches' = touches - 1
  /\ disk' = Append(SelectSeq(disk, LAMBDA e : e # d), d)
  /\ UNCHANGED <<log, exp, tailer, pending, req, late, worker, upsets, faults,
                 mark, turns, slack, foreign, taken>>

-----------------------------------------------------------------------------
(* The daemon's start and death *)

\* NewRotatingFile opens the log, or creates it.
Boot ==
  /\ exp = "down" /\ exp' = "boot"
  /\ IF path # NoFile
     THEN handle' = path /\ UNCHANGED <<path, content>>
     ELSE \E f \in Inodes \ {backup} :
            handle' = f /\ path' = f /\ content' = [content EXCEPT ![f] = <<>>]
  /\ UNCHANGED <<written, backup, tailer, pending, req, late, disk, worker,
                 bounds, mark, turns, slack, foreign, taken>>

\* NewTelemetryExporter, NewLogTailer: what was logged before is not sent.
StartExporter ==
  /\ exp = "boot" /\ exp' = "idle"
  /\ last' = path
  /\ offset' = IF path = NoFile THEN 0 ELSE Len(content[path])
  /\ mark' = written /\ turns' = 0 /\ slack' = {} /\ foreign' = "no"
  /\ UNCHANGED <<log, opened, lines, pending, req, late, disk, worker, bounds,
                 taken>>

\* A push that nobody waits for is lost, or the server sees it later.
Abandon ==
  \/ exp = "wait" /\ late' = late \cup {req}
  \/ UNCHANGED late

\* The daemon dies or stops: its files stay, its memory is gone.
Die ==
  /\ exp # "down" /\ Upset
  /\ Abandon
  /\ exp' = "down" /\ handle' = NoFile
  /\ offset' = 0 /\ last' = NoFile /\ opened' = NoFile /\ lines' = <<>>
  /\ pending' = <<>> /\ req' = NoPush
  /\ UNCHANGED <<written, content, path, backup, disk, worker, faults, touches,
                 mark, turns, slack, foreign, taken>>

-----------------------------------------------------------------------------
(* pushOnce *)

outside == <<log, late, disk, worker, upsets, touches, taken>>

\* Next opens the log. Another file, or a shorter one, means a rotation.
Open ==
  /\ exp = "idle" /\ path # NoFile
  /\ opened' = path
  /\ exp' = IF last \notin {NoFile, path} \/ Len(content[path]) < offset
            THEN "drain" ELSE "read"
  /\ slack' = IF turns = 2 THEN slack \cup {"now"} ELSE slack
  /\ turns' = 0
  /\ UNCHANGED <<outside, offset, last, lines, pending, req, faults, mark, foreign>>

\* There is no log, or it does not open.
OpenNothing ==
  /\ exp = "idle" /\ exp' = "push"
  /\ IF path = NoFile THEN NoFault ELSE Fault
  /\ UNCHANGED <<outside, tailer, pending, req, mark, turns, slack, foreign>>

\* Mutant: a rotation restarts the tailer without a look at the .1.
DrainNothing ==
  /\ exp = "drain" /\ exp' = "read"
  /\ offset' = 0 /\ last' = opened
  /\ UNCHANGED <<outside, opened, lines, pending, req, faults, mark, turns, slack,
                 foreign>>

\* drainRotated: what is left of the file that is now at .1, if it is there
\* and opens. What does not fit in this push is not read again.
Drain ==
  /\ exp = "drain"
  /\ LET there == backup # NoFile /\ backup = last /\ Len(content[backup]) >= offset
         rest == IF there THEN From(backup, offset) ELSE <<>>
     IN \/ /\ lines' = Oldest(rest, PushLines)
           /\ slack' = IF Len(rest) > PushLines THEN slack \cup {"next"} ELSE slack
           /\ NoFault
        \/ /\ Fault
           /\ lines' = <<>>
           /\ slack' = slack \cup {"now"}
  /\ offset' = 0 /\ last' = opened
  /\ foreign' = IF foreign = "read" \/ (foreign = "there" /\ lines' # <<>>)
                THEN "read" ELSE "no"
  /\ IF Len(lines') >= PushLines
     THEN exp' = "push" /\ opened' = NoFile
     ELSE exp' = "read" /\ UNCHANGED opened
  /\ UNCHANGED <<outside, pending, req, mark, turns>>

\* The rest of Next: at most maxLines lines from the offset on.
Read ==
  /\ exp = "read" /\ exp' = "push"
  /\ LET more == Oldest(From(opened, offset), PushLines - Len(lines))
     IN lines' = lines \o more /\ offset' = offset + Len(more)
  /\ last' = opened /\ opened' = NoFile
  /\ foreign' = IF foreign = "there" THEN "no" ELSE foreign
  /\ UNCHANGED <<outside, pending, req, faults, mark, turns, slack>>

\* scanIssueLogs: every directory, whether or not its contents fit the budget.
Scan == [done |-> TRUE, dirs |-> disk]
ScanBut(d) == [done |-> TRUE, dirs |-> Remove(disk, d)]

Past ==
  /\ lines' = <<>>
  /\ mark' = IF lines = <<>> THEN mark ELSE Last(lines)
  /\ slack' = IF lines = <<>> THEN slack ELSE IF "next" \in slack THEN {"now"} ELSE {}

\* Mutants: the lines are forgotten when they are sent; the lines just read go
\* before those kept.
PushForgetful ==
  /\ exp = "push" /\ exp' = "wait"
  /\ req' = [logs |-> Newest(pending \o lines, PendingLines), scan |-> Scan]
  /\ pending' = <<>> /\ Past
  /\ UNCHANGED <<outside, offset, last, opened, faults, turns, foreign>>
PushSwapped ==
  /\ exp = "push" /\ exp' = "wait"
  /\ pending' = Newest(lines \o pending, PendingLines)
  /\ req' = [logs |-> pending', scan |-> Scan]
  /\ Past
  /\ UNCHANGED <<outside, offset, last, opened, faults, turns, foreign>>

\* The lines join those not yet acknowledged, the newest are kept, and all are
\* sent with the log directories; a failed scan sends none, which is not "empty",
\* and a directory that cannot be read is left out of it.
PushOnce ==
  /\ exp = "push" /\ exp' = "wait"
  /\ pending' = Newest(pending \o lines, PendingLines)
  /\ \/ req' = [logs |-> pending', scan |-> Scan] /\ NoFault
     \/ req' = [logs |-> pending', scan |-> NoScan] /\ Fault
     \/ /\ Fault
        /\ \E d \in ToSet(disk) : req' = [logs |-> pending', scan |-> ScanBut(d)]
  /\ Past
  /\ UNCHANGED <<outside, offset, last, opened, turns, foreign>>

inside == <<log, tailer, disk, touches, mark, turns, slack, foreign>>

\* Mutant: the lines stay when they are acknowledged.
AckedKept ==
  /\ exp = "acked" /\ exp' = "idle"
  /\ req' = NoPush
  /\ UNCHANGED <<inside, pending, late, worker, upsets, faults, taken>>

\* The server has answered 204.
Acked ==
  /\ exp = "acked" /\ exp' = "idle"
  /\ pending' = <<>> /\ req' = NoPush
  /\ UNCHANGED <<inside, late, worker, upsets, faults, taken>>

\* No answer in time, or a refusal: the lines are kept for the next push.
GiveUp ==
  /\ exp \in {"wait", "acked"} /\ exp' = "idle"
  /\ Fault
  /\ Abandon
  /\ req' = NoPush
  /\ UNCHANGED <<inside, pending, worker, upsets, taken>>

-----------------------------------------------------------------------------
(* The server *)

\* evictIssueLogs: the newest MaxDirs of a scan.
Evict(dirs) == ToSet(Newest(dirs, MaxDirs))

\* Mutant: the directories modified longest ago are kept.
IngestOldest(m) ==
  /\ taken' = taken \cup ToSet(m.logs)
  /\ LET w == IF worker.expired THEN NoWorker ELSE worker
     IN worker' = [known |-> TRUE, expired |-> FALSE,
                   ring |-> Newest(w.ring \o m.logs, RingLines),
                   archive |-> IF m.scan.done THEN ToSet(Oldest(m.scan.dirs, MaxDirs)) ELSE w.archive]

\* handlePush: workers silent for too long are dropped first, this one too.
Ingest(m) ==
  /\ taken' = taken \cup ToSet(m.logs)
  /\ LET w == IF worker.expired THEN NoWorker ELSE worker
     IN worker' = [known |-> TRUE, expired |-> FALSE,
                   ring |-> Newest(w.ring \o m.logs, RingLines),
                   archive |-> IF m.scan.done THEN Evict(m.scan.dirs) ELSE w.archive]

IngestPush ==
  /\ exp = "wait" /\ exp' = "acked"
  /\ Ingest(req)
  /\ UNCHANGED <<inside, pending, req, late, upsets, faults>>

IngestLate ==
  /\ \E m \in late : Ingest(m) /\ late' = late \ {m}
  /\ UNCHANGED <<inside, exp, pending, req, upsets, faults>>

silent == <<inside, exp, pending, req, late, faults, taken>>

\* workerRetention passes without a push.
Expire ==
  /\ worker.known /\ ~worker.expired /\ Upset
  /\ worker' = [worker EXCEPT !.expired = TRUE]
  /\ UNCHANGED silent

\* Another worker's push drops this one.
Prune ==
  /\ worker.expired
  /\ worker' = NoWorker
  /\ UNCHANGED <<silent, upsets>>

\* All the server knows is in its memory.
ServerRestart ==
  /\ worker.known /\ Upset
  /\ worker' = NoWorker
  /\ UNCHANGED silent

-----------------------------------------------------------------------------

Exporter == StartExporter \/ Open \/ OpenNothing \/ Drain \/ Read \/ PushOnce \/ Acked
Server == IngestLate \/ Expire \/ Prune \/ ServerRestart

Next ==
  \/ Write \/ (\E d \in Dirs : Touch(d))
  \/ Boot \/ Die
  \/ Exporter \/ GiveUp
  \/ IngestPush \/ Server

\* The exporter's goroutine and the server's handler run on. Nothing makes a
\* supervisor start the daemon again or a late push arrive.
Spec == Init /\ [][Next]_vars /\ WF_vars(Exporter) /\ WF_vars(IngestPush)

-----------------------------------------------------------------------------

OnDisk == UNION {ToSet(content[f]) : f \in {path, backup} \ {NoFile}}

\* Rotation, whatever step of it fails, never throws away the newest lines: as
\* many as fill a file are on disk (rotate keeps one previous generation).
NewestKept == \A l \in 1..written : l > written - FileLines => l \in OnDisk

\* drainRotated has not taken a newer file for the one it had read before. It can
\* when two rotations fall into one call and the inode is used again.
NeverMisread == foreign # "read"

\* The tailer skips no line and repeats none, across one rotation between two
\* ticks, in the middle of its reading or with a new file that has outgrown the
\* old offset (Next and drainRotated). It may skip what two rotations in a row
\* or a .1 that does not open took away, and a remainder larger than a push.
NothingSkipped ==
  NeverMisread /\ exp = "push" /\ "now" \notin slack => \A k \in DOMAIN lines : lines[k] = mark + k

\* What the exporter holds, oldest first.
Held == pending \o lines

\* A line once read is kept until the server has taken it, while the daemon
\* lives; only the newest PendingLines may push it out (pushOnce).
KeptUntilTaken ==
  [][NeverMisread => \A l \in ToSet(Held) \ ToSet(Held') :
       \/ l \in taken \/ exp' = "down"
       \/ Len(pending') = PendingLines /\ \A m \in ToSet(pending') : l < m]_vars

\* Lines are held in the order of their writing, and the server has none of them
\* before an earlier one, also after pushes that failed, were repeated or
\* arrived when the exporter had given them up (pushOnce, handlePush).
TakenInOrder ==
  NeverMisread =>
    \A j, k \in DOMAIN Held :
      j < k => Held[j] < Held[k] /\ (Held[k] \in taken => Held[j] \in taken)

\* An exporter whose daemon lives gets rid of what it holds (Run, pushOnce).
PendingDrains == pending # <<>> ~> pending = <<>>

\* While the daemon lives the dashboard comes to show its newest directories,
\* after failed scans, late pushes, long silences and restarts (handlePush).
ArchiveCurrent ==
  <>[](exp # "down" => worker.archive = ToSet(Newest(disk, MaxDirs)))
=============================================================================
