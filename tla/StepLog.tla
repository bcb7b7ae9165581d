------------------------------ MODULE StepLog ------------------------------
(***************************************************************************)
(* The log files of one issue's agent calls.  Claude (worker/infra/claude.go) *)
(* numbers the calls of a run, of which two may be under way together, and *)
(* writes NNN-<label>.prompt.md, .stream.jsonl, .json and .output.md; the  *)
(* dashboard (worker/web/tracker.go) reads them back with a cache while     *)
(* they are written and makes a step of each number.                       *)
(*                                                                         *)
(* A file is who wrote it and how long it is, so that two calls in one file *)
(* show; a file of nobody does not exist.  Labels are left out: two calls   *)
(* with one number would share their files only under one label, and here  *)
(* they always would.  The .output.md, written after the .json and with the   *)
(* same answer, goes with it.  Modification times are left out too: the cache's    *)
(* test is the size alone, which lets more stale entries pass.             *)
(***************************************************************************)
EXTENDS Integers, FiniteSets

CONSTANTS
  Sessions,   \* who may call the agent at the same time: the pipeline and UAT
  Renders,    \* requests the dashboard serves at the same time
  Shown,      \* the number whose step they show; the others only take time
  MaxCalls,   \* bound: calls of the issue
  MaxStream,  \* bound: writes to a transcript
  MaxRuns,    \* bound: runs of the issue
  MaxFaults   \* bound: files that cannot be written or read

ASSUME StepLogAssumption ==
  /\ IsFiniteSet(Sessions)
  /\ Shown \in 1..MaxCalls
  /\ {MaxCalls, MaxStream, MaxRuns, MaxFaults} \subseteq Nat

Calls == 1..MaxCalls
Numbers == 1..MaxCalls
Ext == {"json", "prompt", "stream"}
\* The renders' part: the prompt is read like the .json, and before it can grow.
Read == {"json", "stream"}
File == [by : SUBSET Calls, size : Nat]
NoFile == [by |-> {}, size |-> 0]
NoMemo == [size |-> -1, body |-> NoFile]

VARIABLES
  file,    \* disk: the files of each number
  calls,   \* calls begun so far; a call is its place in this order
  number,  \* the sequence number of each call, 0 before it has one
  answered,\* history: the calls the agent answered
  pc,      \* where each session is in Call
  me,      \* the call a session is making
  seq,     \* Claude.seq; 0 when nothing was numbered by this *Claude
  run,     \* runs so far; each has a *Claude of its own
  memo,    \* artifactCache
  rpc,     \* where each render is
  todo,    \* the files of its listing that a render has yet to read
  info,    \* the size e.Info() gave for the file being read
  body,    \* what ReadFile returned
  got,     \* what the render holds of each file
  faults,  \* what is left of the bound
  ended,   \* history: renders that began when the answer was on disk
  spoilt,  \* history: renders of which a read has failed
  blind    \* history: numbering began without the directory

agent == <<file, calls, number, answered, pc, me, seq, run>>
view == <<rpc, todo, info, body, got>>
vars == <<agent, memo, view, faults, ended, spoilt, blind>>

Fault == faults > 0 /\ faults' = faults - 1
Exists(n, x) == file[n][x].by # {}
Numbered(n) == \E x \in Ext : Exists(n, x)

Init ==
  /\ file = [n \in Numbers |-> [x \in Ext |-> NoFile]]
  /\ calls = 0 /\ number = [c \in Calls |-> 0] /\ answered = {}
  /\ pc = [s \in Sessions |-> "idle"] /\ me = [s \in Sessions |-> 0]
  /\ seq = 0 /\ run = 1
  /\ memo = [x \in Read |-> NoMemo]
  /\ rpc = [r \in Renders |-> "idle"] /\ todo = [r \in Renders |-> {}] /\ info = [r \in Renders |-> 0]
  /\ body = [r \in Renders |-> NoFile]
  /\ got = [r \in Renders |-> [x \in Read |-> NoFile]]
  /\ faults = MaxFaults
  /\ ended = {} /\ spoilt = {} /\ blind = FALSE

-----------------------------------------------------------------------------
(* Call *)

Goto(s, l) ==
  /\ pc' = [pc EXCEPT ![s] = l]
  /\ me' = [me EXCEPT ![s] = IF l = "idle" THEN 0 ELSE @]
dashboard == <<memo, view, ended, spoilt>>

\* Mutant: numbering goes on from the answers, the NNN-<label>.json files.
HighestAnswer(n) ==
  /\ n > 0 => Exists(n, "json")
  /\ \A m \in Numbers : Exists(m, "json") => m <= n

\* The highest number that a file of the log directory begins with, or 0.
Highest(n) ==
  /\ n > 0 => Numbered(n)
  /\ \A m \in Numbers : Numbered(m) => m <= n

\* Mutant: every call reads the directory and none counts.
NextSeqUncounted == \E n \in 0..MaxCalls :
  /\ Highest(n) /\ seq' = n + 1
  /\ UNCHANGED <<faults, blind>>

\* nextSeq, under Claude.mu: the first call of a *Claude reads the directory.
NextSeq == \E n \in 0..MaxCalls :
  /\ seq' = n + 1
  /\ \/ /\ IF seq = 0 THEN Highest(n) ELSE n = seq
        /\ UNCHANGED <<faults, blind>>
     \/ /\ seq = 0 /\ n = 0 /\ Fault \* the directory cannot be read
        /\ blind' = TRUE

Begin(s) ==
  /\ pc[s] = "idle" /\ calls < MaxCalls
  /\ NextSeq
  /\ calls' = calls + 1
  /\ number' = [number EXCEPT ![calls + 1] = seq']
  /\ me' = [me EXCEPT ![s] = calls + 1]
  /\ pc' = [pc EXCEPT ![s] = "prompt"]
  /\ UNCHANGED <<file, answered, run, dashboard>>

\* Where Call goes from each write, and what the write is to.
Then == [prompt |-> "promptText", promptText |-> "stream", stream |-> "agent",
         json |-> "jsonText", jsonText |-> "idle"]
Kind == [prompt |-> "prompt", promptText |-> "prompt", stream |-> "stream",
         agent |-> "stream", json |-> "json", jsonText |-> "json"]
Opening == {"prompt", "stream", "json"}
Text == {"promptText", "jsonText"}

Mine(s) == file[number[me[s]]][Kind[pc[s]]]
Put(s, f) == file' = [file EXCEPT ![number[me[s]]][Kind[pc[s]]] = f]

\* os.WriteFile and os.Create leave an empty file at first.  A failure is
\* swallowed, and nothing is then written to that file.
Open(s) ==
  /\ pc[s] \in Opening
  /\ \/ /\ Put(s, [by |-> {me[s]}, size |-> 0])
        /\ UNCHANGED faults
     \/ Fault /\ UNCHANGED file
  /\ Goto(s, Then[pc[s]])
  /\ UNCHANGED <<calls, number, answered, seq, run, blind, dashboard>>

Grown(s) == [by |-> Mine(s).by \cup {me[s]}, size |-> Mine(s).size + 1]

\* The text of a file that could be opened; an empty text or one the disk has
\* no room for leaves it empty.
Write(s) ==
  /\ pc[s] \in Text
  /\ \/ Mine(s).by # {} /\ Put(s, Grown(s)) /\ UNCHANGED faults
     \/ Mine(s).by # {} /\ Fault /\ UNCHANGED file
     \/ Mine(s).by = {} /\ UNCHANGED <<file, faults>>
  /\ Goto(s, Then[pc[s]])
  /\ UNCHANGED <<calls, number, answered, seq, run, blind, dashboard>>

\* The transcript grows while the agent works.
Stream(s) ==
  /\ pc[s] = "agent" /\ Mine(s).by # {} /\ Mine(s).size < MaxStream
  /\ Put(s, Grown(s))
  /\ UNCHANGED <<calls, number, answered, pc, me, seq, run, faults, blind, dashboard>>

\* RunStream returns: an answer, or a failure (a kill, a time limit, output
\* without a result), after which nothing more is written.
Return(s) ==
  /\ pc[s] = "agent"
  /\ \/ Goto(s, "json") /\ answered' = answered \cup {me[s]}
     \/ Goto(s, "idle") /\ UNCHANGED answered
  /\ UNCHANGED <<file, calls, number, seq, run, faults, blind, dashboard>>

\* A run begins when the one before has ended, or has died with its process.
NewRun ==
  /\ run < MaxRuns
  /\ run' = run + 1 /\ seq' = 0
  /\ pc' = [s \in Sessions |-> "idle"] /\ me' = [s \in Sessions |-> 0]
  /\ UNCHANGED <<file, calls, number, answered, faults, blind, dashboard>>

-----------------------------------------------------------------------------
(* scanIssueDir, for the files of the number Shown. *)

\* The directory is listed by name, the .json before the stream.
First(x, X) == x \in X /\ (x = "stream" => "json" \notin X)

Disk == file[Shown]
Answered == Disk["json"].size > 0
            /\ \E c \in answered : number[c] = Shown

List(r) ==
  /\ rpc[r] = "idle" /\ Numbered(Shown)
  /\ todo' = [todo EXCEPT ![r] = {x \in Read : Exists(Shown, x)}]
  /\ ended' = IF Answered THEN ended \cup {r} ELSE ended
  /\ got' = [got EXCEPT ![r] = [x \in Read |-> NoFile]]
  /\ rpc' = [rpc EXCEPT ![r] = "file"]
  /\ UNCHANGED <<agent, blind, memo, info, body, faults, spoilt>>

Use(r, x, f) ==
  /\ got' = [got EXCEPT ![r][x] = f]
  /\ todo' = [todo EXCEPT ![r] = @ \ {x}]
  /\ info' = [info EXCEPT ![r] = 0] /\ body' = [body EXCEPT ![r] = NoFile]

\* e.Info(), then loadArtifact's look into the cache.
Look(r) ==
  /\ rpc[r] = "file"
  /\ \E x \in todo[r] :
       /\ First(x, todo[r])
       /\ IF memo[x].size = Disk[x].size
          THEN Use(r, x, memo[x].body) /\ UNCHANGED rpc
          ELSE /\ info' = [info EXCEPT ![r] = Disk[x].size]
               /\ rpc' = [rpc EXCEPT ![r] = "read"]
               /\ UNCHANGED <<got, todo, body>>
  /\ UNCHANGED <<agent, blind, memo, faults, ended, spoilt>>

\* Mutant: what a failed read returns is kept too.
ReadFileKept(r) ==
  /\ rpc[r] = "read"
  /\ \E x \in todo[r] :
       /\ First(x, todo[r])
       /\ \/ body' = [body EXCEPT ![r] = Disk[x]] /\ UNCHANGED <<faults, spoilt>>
          \/ /\ Fault /\ spoilt' = spoilt \cup {r}
             /\ body' = [body EXCEPT ![r] = [by |-> Disk[x].by, size |-> 0]]
  /\ rpc' = [rpc EXCEPT ![r] = "store"]
  /\ UNCHANGED <<agent, blind, memo, got, todo, info, ended>>

\* os.ReadFile.  What a failed read returns is used, and not kept.
ReadFile(r) ==
  /\ rpc[r] = "read"
  /\ \E x \in todo[r] :
       /\ First(x, todo[r])
       /\ \/ /\ body' = [body EXCEPT ![r] = Disk[x]]
             /\ rpc' = [rpc EXCEPT ![r] = "store"]
             /\ UNCHANGED <<got, todo, info, faults, spoilt>>
          \/ /\ Fault /\ spoilt' = spoilt \cup {r}
             /\ Use(r, x, [by |-> Disk[x].by, size |-> 0])
             /\ rpc' = [rpc EXCEPT ![r] = "file"]
  /\ UNCHANGED <<agent, blind, memo, ended>>

\* A body is kept with the size that sizes has for its file.
Keep(r, sizes) ==
  /\ rpc[r] = "store"
  /\ \E x \in todo[r] :
       /\ First(x, todo[r])
       /\ memo' = [memo EXCEPT ![x] = [size |-> sizes[x], body |-> body[r]]]
       /\ Use(r, x, body[r])
  /\ rpc' = [rpc EXCEPT ![r] = "file"]
  /\ UNCHANGED <<agent, blind, faults, ended, spoilt>>

\* Mutant: the size is taken again when the body is kept.
StoreSizeAnew(r) == Keep(r, [x \in Read |-> Disk[x].size])

\* artifactCache.Store, with the size of before the read.
Store(r) == Keep(r, [x \in Read |-> info[r]])

\* The step has been shown.
Show(r) ==
  /\ rpc[r] = "file" /\ todo[r] = {}
  /\ rpc' = [rpc EXCEPT ![r] = "idle"]
  /\ got' = [got EXCEPT ![r] = [x \in Read |-> NoFile]]
  /\ ended' = ended \ {r} /\ spoilt' = spoilt \ {r}
  /\ UNCHANGED <<agent, blind, memo, todo, info, body, faults>>

Next ==
  \/ \E s \in Sessions : Begin(s) \/ Open(s) \/ Write(s) \/ Stream(s) \/ Return(s)
  \/ NewRun
  \/ \E r \in Renders : List(r) \/ Look(r) \/ ReadFile(r) \/ Store(r) \/ Show(r)

Spec == Init /\ [][Next]_vars

-----------------------------------------------------------------------------
(* Properties *)

\* scanIssueDir takes a step for settled by its .json, or cannot parse it; without
\* one, the prompt makes it running.
Settled(g) == g["json"].by # {} /\ g["json"].size > 0

\* What a step shows belongs to one call: no two calls ever write files of one
\* number, whatever runs, sessions and deaths lie between them (nextSeq).  A
\* numbering that could not read the directory is excepted: it begins at 1.
StepIsOneCall ==
  ~blind => \A n \in Numbers : \A x, y \in Ext :
              \A c \in file[n][x].by, d \in file[n][y].by : c = d

\* The dashboard orders steps by number, and that is the order of the calls: of
\* two calls that left files the later has the higher number.
Wrote(c) == \E n \in Numbers, x \in Ext : c \in file[n][x].by
StepsInOrder ==
  ~blind => \A c, d \in Calls : Wrote(c) /\ Wrote(d) /\ c < d => number[c] < number[d]

\* What a render takes for a file, from the cache or from disk, is at least what
\* was there when it looked at the file's size, although other renders fill the
\* cache and the call goes on writing (loadArtifact).
FreshRead ==
  \A r \in Renders : \A x \in todo[r] \ todo'[r] :
    ~blind /\ r \notin spoilt'
      => /\ got'[r][x].size >= (IF rpc[r] = "file" THEN Disk[x].size ELSE info[r])
         /\ got'[r][x].by = Disk[x].by
ReadsAreFresh == [][FreshRead]_vars

\* A call whose answer was on disk before a render began is shown with that answer,
\* and only a call that was answered is shown as if it were: a step is not left
\* running by the cache, and nothing of another call settles it.
EndedIsShown ==
  \A r \in Renders :
    rpc[r] = "file" /\ todo[r] = {} /\ r \notin spoilt /\ ~blind
      => /\ r \in ended => Settled(got[r])
         /\ Settled(got[r]) => Answered
=============================================================================
