--------------------------- MODULE TelemetryProofs ---------------------------
(***************************************************************************)
(* Theorems about Telemetry: what becomes of the lines of the daemon log,  *)
(* for any sizes of files, pushes and rings, any set of inodes, and any    *)
(* number of rotations, failed calls, lost answers and deaths.             *)
(*                                                                         *)
(* The invariant follows a line: FilesInv says that the file at the path   *)
(* ends with the newest line and the .1 ends where it begins; HeldInv and  *)
(* SentInv order what the exporter holds, has sent and the server has      *)
(* taken; FreshInv says that what is not yet read is newer than all of     *)
(* these; SkipInv says at which line the tailer stands when nothing may be *)
(* missing.  MemInv bounds what is held of them in memory.                 *)
(***************************************************************************)
EXTENDS Telemetry, SequenceTheorems, TLAPS

USE DEF log, tailer, bounds, outside, inside, silent, exporter

-----------------------------------------------------------------------------

Running == exp \notin {"down", "boot"}
Files == Inodes \cup {NoFile}
Phase == {"down", "boot", "idle", "drain", "read", "push", "wait", "acked"}
Increasing(s) == \A j, k \in DOMAIN s : j < k => s[j] < s[k]

TelemetryTypes ==
  /\ written \in Nat /\ content \in [Inodes -> Seq(Nat)]
  /\ path \in Files /\ backup \in Files /\ handle \in Files
  /\ last \in Files /\ opened \in Files
  /\ exp \in Phase /\ offset \in Nat
  /\ lines \in Seq(Nat) /\ pending \in Seq(Nat)
  /\ \A m \in late \cup {req} : m.logs \in Seq(Nat)
  /\ mark \in Nat /\ taken \subseteq Nat
  /\ turns \in 0..2 /\ foreign \in {"no", "there", "read"}

\* What the exporter has in hand at each of its places.
PhaseInv ==
  /\ handle = NoFile <=> exp = "down"
  /\ opened # NoFile <=> exp \in {"drain", "read"}
  /\ exp \notin {"read", "push"} => lines = <<>>
  /\ ~Running => pending = <<>>
  /\ exp = "read" => last = opened /\ Len(lines) < PushLines
  /\ Running /\ last = NoFile => path = NoFile
  /\ exp = "wait" => req.logs = pending
  /\ exp = "acked" => ToSet(pending) \subseteq taken

\* The file at the path ends with the newest line, and the .1 where that file
\* begins; one of the two is as long as a file may be.
FilesInv ==
  /\ \A f \in Inodes : \A k \in DOMAIN content[f] :
       content[f][k] = content[f][1] + k - 1 /\ content[f][k] <= written
  /\ path # NoFile =>
       /\ path # backup
       /\ \A k \in DOMAIN content[path] : content[path][k] = written - Len(content[path]) + k
       /\ backup # NoFile =>
            \A k \in DOMAIN content[backup] :
              content[backup][k] = written - Len(content[path]) - Len(content[backup]) + k
       /\ Len(content[path]) < FileLines => backup # NoFile /\ Len(content[backup]) >= FileLines
       /\ handle \in {NoFile, path}
  /\ path = NoFile =>
       /\ backup # NoFile /\ Len(content[backup]) >= FileLines
       /\ \A k \in DOMAIN content[backup] :
            content[backup][k] = written - Len(content[backup]) + k
       /\ handle \in {NoFile, backup}

\* The lines that have left the exporter.
Sent == taken \cup UNION {ToSet(m.logs) : m \in late \cup {req}}

\* What is held is in order, and what is read now comes after all that was held
\* or sent before.
HeldInv ==
  /\ mark <= written
  /\ \A l \in Sent \cup ToSet(pending) \cup ToSet(lines) : l <= written
  /\ Running /\ NeverMisread =>
       /\ \A l \in Sent \cup ToSet(pending) : l <= mark
       /\ \A l \in ToSet(lines) : l > mark
       /\ Increasing(lines) /\ Increasing(pending)

\* A push that may yet be taken brings all that is held and older than its lines.
SentInv ==
  Running /\ NeverMisread =>
    /\ \A m \in late \cup {req} : \A x \in ToSet(m.logs), h \in ToSet(pending) :
         h < x => h \in ToSet(m.logs)
    /\ \A x, h \in ToSet(pending) : h < x /\ x \in taken => h \in taken

\* The lines the tailer has not read yet are newer than these.
Seen == {mark} \cup ToSet(lines)

FreshInv ==
  Running /\ NeverMisread =>
    /\ last # NoFile =>
         \A k \in DOMAIN content[last], l \in Seen :
           k > offset \/ foreign = "there" => content[last][k] > l
    /\ last # NoFile /\ (exp = "read" \/ foreign = "no") => offset <= Len(content[last])
    /\ path \notin {NoFile, last} => \A l \in Seen : l <= written - Len(content[path])
    /\ path \notin {NoFile, last} /\ foreign = "no" /\ last # NoFile =>
         \A k \in DOMAIN content[last] : content[last][k] <= written - Len(content[path])
    /\ opened # NoFile /\ path \notin {NoFile, opened} =>
         /\ \A l \in Seen : l <= written - Len(content[path])
         /\ \A k \in DOMAIN content[opened] : content[opened][k] <= written - Len(content[path])
    /\ exp = "drain" =>
         /\ last # NoFile
         /\ \A k \in DOMAIN content[opened] : content[opened][k] > mark
         /\ foreign = "no" =>
              /\ opened # last /\ path # last
              /\ \A j \in DOMAIN content[last], k \in DOMAIN content[opened] :
                   content[last][j] < content[opened][k]

\* The line the tailer has got to; the one before the first of the file at the path
\* or at the .1; the tailer stands in file f right behind the line it has got to.
Pos == IF lines = <<>> THEN mark ELSE lines[Len(lines)]
Start(f) == written - Len(content[path]) - (IF f = path THEN 0 ELSE Len(content[backup]))
AtPos(f) == offset <= Len(content[f]) /\ Pos = Start(f) + offset

\* No line is missing before what is read next.
Caught == /\ Running /\ NeverMisread
          /\ "next" \notin slack /\ ("now" \notin slack \/ lines # <<>>)

SkipInv ==
  /\ Running /\ "next" \in slack => exp = "push" /\ lines # <<>>
  /\ Running /\ NeverMisread /\ "now" \notin slack =>
       \A k \in DOMAIN lines : lines[k] = mark + k
  /\ exp \in {"drain", "read"} /\ path # NoFile =>
       (turns = 0 => opened = path) /\ (turns = 1 => opened \in {path, backup})
  /\ exp = "drain" /\ foreign = "no" /\ backup = last /\ last # NoFile => path = opened
  /\ Caught /\ exp # "drain" /\ path # NoFile /\ turns <= 1 =>
       last \in {path, backup} /\ last # NoFile /\ (turns = 0 => last = path) /\ AtPos(last)
  /\ Caught /\ exp = "drain" =>
       turns = 0 /\ opened = path /\ last = backup /\ last \notin {NoFile, path} /\ AtPos(last)
  /\ Caught /\ exp = "read" =>
       /\ offset <= Len(content[opened])
       /\ \A k \in DOMAIN content[opened] : k > offset => content[opened][k] = Pos + k - offset
       /\ opened = handle => written = Pos + Len(content[opened]) - offset

TInv == TelemetryTypes /\ PhaseInv /\ FilesInv /\ HeldInv /\ SentInv /\ FreshInv /\ SkipInv

-----------------------------------------------------------------------------
(***************************************************************************)
(* Sequences of lines                                                      *)
(***************************************************************************)

LEMMA NatSeq ==
  ASSUME NEW s \in Seq(Nat)
  PROVE  /\ Len(s) \in Nat /\ DOMAIN s = 1..Len(s)
         /\ \A k \in 1..Len(s) : s[k] \in Nat
         /\ s = <<>> <=> Len(s) = 0
  BY LenProperties, ElementOfSeq, EmptySeq

LEMMA NatSeqs == \A s \in Seq(Nat) :
         /\ Len(s) \in Nat /\ DOMAIN s = 1..Len(s)
         /\ \A k \in 1..Len(s) : s[k] \in Nat
         /\ s = <<>> <=> Len(s) = 0
  BY NatSeq

LEMMA OldestSeq ==
  ASSUME NEW s \in Seq(Nat), NEW n \in Nat
  PROVE  /\ Oldest(s, n) \in Seq(Nat)
         /\ Len(Oldest(s, n)) = IF Len(s) <= n THEN Len(s) ELSE n
         /\ \A k \in 1..Len(Oldest(s, n)) : Oldest(s, n)[k] = s[k]
  <1>1. Len(s) \in Nat /\ \A k \in 1..Len(s) : s[k] \in Nat
    BY NatSeq
  <1>2. CASE Len(s) <= n
    BY <1>2 DEF Oldest
  <1>3. CASE ~(Len(s) <= n)
    <2>1. Oldest(s, n) = SubSeq(s, 1, n)
      BY <1>3 DEF Oldest
    <2>2. \A k \in 1..n : s[k] \in Nat
      BY <1>1, <1>3
    <2>3. /\ SubSeq(s, 1, n) \in Seq(Nat)
          /\ Len(SubSeq(s, 1, n)) = IF 1 <= n THEN n - 1 + 1 ELSE 0
          /\ \A k \in 1..n - 1 + 1 : SubSeq(s, 1, n)[k] = s[1 + k - 1]
      BY <2>2, SubSeqProperties
    <2> QED BY <1>1, <1>3, <2>1, <2>3
  <1> QED BY <1>2, <1>3

LEMMA NewestSeq ==
  ASSUME NEW s \in Seq(Nat), NEW n \in Nat
  PROVE  /\ Newest(s, n) \in Seq(Nat)
         /\ Len(Newest(s, n)) = IF Len(s) <= n THEN Len(s) ELSE n
         /\ \A k \in 1..Len(Newest(s, n)) :
              Newest(s, n)[k] = s[Len(s) - Len(Newest(s, n)) + k]
  <1>1. Len(s) \in Nat /\ \A k \in 1..Len(s) : s[k] \in Nat
    BY NatSeq
  <1>2. CASE Len(s) <= n
    BY <1>1, <1>2 DEF Newest
  <1>3. CASE ~(Len(s) <= n)
    <2> DEFINE m == Len(s) - n + 1
    <2>1. Newest(s, n) = SubSeq(s, m, Len(s)) /\ m \in 1..Len(s) + 1 /\ m \in Int /\ Len(s) \in Int
      BY <1>1, <1>3 DEF Newest
    <2>2. \A k \in m..Len(s) : s[k] \in Nat
      BY <1>1, <2>1
    <2>3. /\ SubSeq(s, m, Len(s)) \in Seq(Nat)
          /\ Len(SubSeq(s, m, Len(s))) = IF m <= Len(s) THEN Len(s) - m + 1 ELSE 0
          /\ \A k \in 1..Len(s) - m + 1 : SubSeq(s, m, Len(s))[k] = s[m + k - 1]
      BY <2>1, <2>2, SubSeqProperties
    <2>4. Len(s) - m + 1 = n /\ (n = 0 <=> m > Len(s))
      BY <1>1
    <2>5. Len(SubSeq(s, m, Len(s))) = n
      BY <1>1, <2>3, <2>4
    <2>6. \A k \in 1..n : SubSeq(s, m, Len(s))[k] = s[Len(s) - n + k]
      BY <1>1, <2>3, <2>4
    <2> QED BY <1>1, <1>3, <2>1, <2>3, <2>5, <2>6
  <1> QED BY <1>2, <1>3

LEMMA FromSeq ==
  ASSUME NEW f, content[f] \in Seq(Nat), NEW n \in Nat
  PROVE  /\ From(f, n) \in Seq(Nat)
         /\ Len(From(f, n)) = IF n <= Len(content[f]) THEN Len(content[f]) - n ELSE 0
         /\ \A k \in 1..Len(From(f, n)) : From(f, n)[k] = content[f][n + k]
  <1> DEFINE s == content[f]
  <1>1. Len(s) \in Nat /\ \A k \in 1..Len(s) : s[k] \in Nat
    BY NatSeq
  <1>2. \A k \in n + 1..Len(s) : s[k] \in Nat
    BY <1>1
  <1>3. /\ SubSeq(s, n + 1, Len(s)) \in Seq(Nat)
        /\ Len(SubSeq(s, n + 1, Len(s))) = IF n + 1 <= Len(s) THEN Len(s) - (n + 1) + 1 ELSE 0
        /\ \A k \in 1..Len(s) - (n + 1) + 1 : SubSeq(s, n + 1, Len(s))[k] = s[n + 1 + k - 1]
    BY <1>1, <1>2, SubSeqProperties
  <1>4. \A k \in 1..Len(s) - n : SubSeq(s, n + 1, Len(s))[k] = s[n + k]
    BY <1>1, <1>3
  <1> QED BY <1>1, <1>3, <1>4 DEF From

LEMMA ConcatSeq ==
  ASSUME NEW s \in Seq(Nat), NEW t \in Seq(Nat)
  PROVE  /\ s \o t \in Seq(Nat) /\ Len(s \o t) = Len(s) + Len(t)
         /\ \A k \in 1..Len(s) : (s \o t)[k] = s[k]
         /\ \A k \in 1..Len(t) : (s \o t)[Len(s) + k] = t[k]
         /\ ToSet(s \o t) = ToSet(s) \cup ToSet(t)
  <1>1. Len(s) \in Nat /\ Len(t) \in Nat /\ DOMAIN s = 1..Len(s) /\ DOMAIN t = 1..Len(t)
    BY NatSeq
  <1>2. /\ s \o t \in Seq(Nat) /\ Len(s \o t) = Len(s) + Len(t)
        /\ \A k \in 1..Len(s) + Len(t) :
             (s \o t)[k] = IF k <= Len(s) THEN s[k] ELSE t[k - Len(s)]
    BY ConcatProperties
  <1>3. /\ \A k \in 1..Len(s) : (s \o t)[k] = s[k]
        /\ \A k \in 1..Len(t) : (s \o t)[Len(s) + k] = t[k]
    BY <1>1, <1>2
  <1>4. DOMAIN (s \o t) = 1..Len(s) + Len(t)
    BY <1>2, NatSeqs
  <1>5. ToSet(s \o t) \subseteq ToSet(s) \cup ToSet(t)
    <2>1. \A k \in 1..Len(s) + Len(t) : k <= Len(s) => k \in 1..Len(s)
      BY <1>1
    <2>2. \A k \in 1..Len(s) + Len(t) : ~(k <= Len(s)) => k - Len(s) \in 1..Len(t)
      BY <1>1
    <2> QED BY <1>1, <1>2, <1>4, <2>1, <2>2 DEF ToSet
  <1>6. ToSet(s) \cup ToSet(t) \subseteq ToSet(s \o t)
    <2>1. \A k \in 1..Len(s) : k \in 1..Len(s) + Len(t)
      BY <1>1
    <2>2. \A k \in 1..Len(t) : Len(s) + k \in 1..Len(s) + Len(t)
      BY <1>1
    <2> QED BY <1>1, <1>3, <1>4, <2>1, <2>2 DEF ToSet
  <1> QED BY <1>2, <1>3, <1>5, <1>6

LEMMA ToSetEmpty == ToSet(<<>>) = {}
  BY DEF ToSet

-----------------------------------------------------------------------------
(***************************************************************************)
(* The initial state                                                       *)
(***************************************************************************)

LEMMA InitTInv ==
  ASSUME TelemetryAssumption, Init
  PROVE  TInv
  <1> DEFINE first == [k \in 1..FileLines |-> k]
  <1>1. FileLines \in Nat /\ FileLines > 0 /\ NoFile \notin Inodes
    BY DEF TelemetryAssumption
  <1>2. first \in Seq(Nat) /\ Len(first) = FileLines /\ \A k \in 1..FileLines : first[k] = k
    BY <1>1
  <1>3. <<>> \in Seq(Nat) /\ Len(<<>>) = 0 /\ DOMAIN <<>> = {}
    BY EmptySeq, NatSeqs
  <1>4. path \in Inodes /\ path # NoFile
    BY <1>1 DEF Init, TelemetryAssumption
  <1>5. content \in [Inodes -> Seq(Nat)]
    <2> HIDE DEF first
    <2>1. content = [f \in Inodes |-> IF f = path THEN first ELSE <<>>]
      BY DEF Init, first
    <2> QED BY <1>2, <1>3, <2>1
  <1>6. content[path] = first /\ \A f \in Inodes \ {path} : content[f] = <<>>
    BY <1>4 DEF Init
  <1>7. Len(content[path]) = FileLines /\ DOMAIN content[path] = 1..FileLines
        /\ \A k \in 1..FileLines : content[path][k] = k
    BY <1>2, <1>6, NatSeqs
  <1> HIDE DEF first
  <1>8. ToSet(<<>>) = {}
    BY ToSetEmpty
  <1>9. /\ written = FileLines /\ exp = "down" /\ handle = NoFile /\ backup = NoFile
        /\ offset = 0 /\ last = NoFile /\ opened = NoFile /\ lines = <<>> /\ pending = <<>>
        /\ req.logs = <<>> /\ late = {} /\ mark = 0 /\ turns = 0 /\ slack = {}
        /\ foreign = "no" /\ taken = {}
    BY DEF Init, NoPush
  <1>10. TelemetryTypes
    <2>1. /\ written \in Nat /\ offset \in Nat /\ mark \in Nat /\ turns \in 0..2
      BY <1>1, <1>9
    <2>2. {backup, handle, last, opened, path} \subseteq Files
      BY <1>4, <1>9 DEF Files
    <2>3. exp \in Phase /\ foreign \in {"no", "there", "read"}
      BY <1>9 DEF Phase
    <2> QED BY <1>3, <1>5, <1>9, <2>1, <2>2, <2>3 DEF TelemetryTypes
  <1>11. PhaseInv
    BY <1>9 DEF PhaseInv, Running
  <1>12. FilesInv
    <2>1. \A f \in Inodes : \A k \in DOMAIN content[f] :
            content[f][k] = content[f][1] + k - 1 /\ content[f][k] <= written
      <3>1. \A f \in Inodes \ {path} : DOMAIN content[f] = {}
        BY <1>3, <1>6
      <3>2. \A k \in 1..FileLines : k = 1 + k - 1 /\ k <= FileLines
        BY <1>1
      <3>3. 1 \in 1..FileLines
        BY <1>1
      <3>4. \A k \in DOMAIN content[path] :
              content[path][k] = content[path][1] + k - 1 /\ content[path][k] <= written
        BY <1>7, <1>9, <3>2, <3>3
      <3> QED BY <3>1, <3>4
    <2>2. \A k \in DOMAIN content[path] : content[path][k] = written - Len(content[path]) + k
      BY <1>1, <1>7, <1>9
    <2> QED BY <1>1, <1>4, <1>7, <1>9, <2>1, <2>2 DEF FilesInv
  <1>13. HeldInv /\ SentInv /\ FreshInv /\ SkipInv
    BY <1>1, <1>8, <1>9 DEF HeldInv, SentInv, FreshInv, SkipInv, Running, Sent, Caught
  <1> QED BY <1>10, <1>11, <1>12, <1>13 DEF TInv

-----------------------------------------------------------------------------
(***************************************************************************)
(* The writer                                                              *)
(***************************************************************************)

\* A line that is logged.
LEMMA Logged ==
  ASSUME TelemetryTypes, NEW f \in Inodes, NEW before \in {<<>>, content[f]}, LogTo(f, before)
  PROVE  /\ written' = written + 1 /\ content' \in [Inodes -> Seq(Nat)]
         /\ \A g \in Inodes \ {f} : content'[g] = content[g]
         /\ Len(content'[f]) = Len(before) + 1 /\ Len(before) \in Nat
         /\ DOMAIN content'[f] = 1..Len(before) + 1 /\ DOMAIN before = 1..Len(before)
         /\ \A k \in 1..Len(before) : content'[f][k] = before[k]
         /\ content'[f][Len(before) + 1] = written + 1
  <1> DEFINE s == Append(before, written + 1)
  <1>1. written \in Nat /\ content \in [Inodes -> Seq(Nat)] /\ content[f] \in Seq(Nat)
    BY DEF TelemetryTypes
  <1>2. before \in Seq(Nat) /\ written + 1 \in Nat
    <2>1. <<>> \in Seq(Nat)
      BY EmptySeq
    <2>2. before = <<>> \/ before = content[f]
      OBVIOUS
    <2>3. before \in Seq(Nat)
      BY <1>1, <2>1, <2>2, Zenon
    <2> QED BY <1>1, <2>3
  <1>3. /\ s \in Seq(Nat) /\ Len(s) = Len(before) + 1
        /\ \A k \in 1..Len(before) : s[k] = before[k]
        /\ s[Len(before) + 1] = written + 1
    BY <1>2, AppendProperties
  <1>4. written' = written + 1 /\ content' = [content EXCEPT ![f] = s]
    BY DEF LogTo
  <1> HIDE DEF s
  <1>5. content'[f] = s /\ content' \in [Inodes -> Seq(Nat)]
        /\ \A g \in Inodes \ {f} : content'[g] = content[g]
    BY <1>1, <1>3, <1>4
  <1>6. DOMAIN s = 1..Len(s) /\ Len(before) \in Nat /\ DOMAIN before = 1..Len(before)
    BY <1>2, <1>3, NatSeqs
  <1> QED BY <1>3, <1>4, <1>5, <1>6

\* The line goes to the end of the open file, which keeps its names or loses one.
Appended ==
  /\ LogTo(handle, content[handle])
  /\ UNCHANGED <<handle, foreign>>
  /\ \/ UNCHANGED <<path, backup, turns, slack>>
     \/ /\ path # NoFile /\ Len(content[handle]) >= FileLines /\ Turned
        /\ \/ backup' = NoFile /\ UNCHANGED path
           \/ backup' = path /\ path' = NoFile

\* The line begins a new file.
Begun(f) ==
  /\ f \in Inodes \ {path, handle, opened} /\ path # NoFile
  /\ Len(content[path]) >= FileLines
  /\ LogTo(f, <<>>)
  /\ path' = f /\ backup' = path /\ handle' = f
  /\ foreign' = IF f = last /\ foreign = "no" THEN "there" ELSE foreign
  /\ Turned

LEMMA WriteForms ==
  ASSUME TelemetryAssumption, TInv, Write
  PROVE  /\ handle \in Inodes /\ path \in {NoFile, handle} /\ (path = NoFile => handle = backup)
         /\ UNCHANGED exporter
         /\ Appended \/ \E f \in Inodes : Begun(f)
  <1>1. /\ handle \in Inodes /\ path \in {NoFile, handle} /\ (path = NoFile => handle = backup)
    BY DEF TInv, TelemetryTypes, Files, FilesInv, Write
  <1>2. Full => Len(content[handle]) >= FileLines
    <2>1. content[handle] \in Seq(Nat) /\ FileLines \in Nat
      BY <1>1 DEF TInv, TelemetryTypes, TelemetryAssumption
    <2>2. Len(content[handle]) \in Nat
      BY <2>1, NatSeqs
    <2> QED BY <2>1, <2>2 DEF Full
  <1>3. CASE \E f \in Free : Rotate(f)
    <2>1. PICK f \in Free : Rotate(f)
      BY <1>3
    <2>2. path = handle
      BY <1>1, <2>1 DEF Rotate
    <2>3. Begun(f)
      BY <1>2, <2>1, <2>2 DEF Rotate, Begun, Free
    <2> QED BY <1>1, <2>1, <2>3 DEF Free, Write
  <1>4. CASE RotateBackedOut
    BY <1>1, <1>2, <1>4 DEF RotateBackedOut, Appended, Write
  <1>5. CASE WriteOn
    BY <1>1, <1>5 DEF WriteOn, Appended, Write
  <1> QED BY <1>3, <1>4, <1>5 DEF Write


LEMMA WriteTypes ==
  ASSUME TelemetryAssumption, TInv, Write
  PROVE  TelemetryTypes'
  <1>1. TelemetryTypes /\ UNCHANGED exporter
    BY WriteForms DEF TInv
  <1>2. CASE Appended
    <2>1. written' \in Nat /\ content' \in [Inodes -> Seq(Nat)]
      <3>1. handle \in Inodes /\ LogTo(handle, content[handle]) /\ written \in Nat
        BY <1>1, <1>2, WriteForms DEF Appended, TelemetryTypes
      <3>2. written' = written + 1 /\ content' \in [Inodes -> Seq(Nat)]
        BY <1>1, <3>1, Logged
      <3> QED BY <3>1, <3>2
    <2>2. /\ path' \in Files /\ backup' \in Files /\ handle' \in Files
          /\ turns' \in 0..2 /\ foreign' \in {"no", "there", "read"}
      BY <1>1, <1>2 DEF Appended, Turned, TelemetryTypes, Files
    <2> QED BY <1>1, <2>1, <2>2 DEF TelemetryTypes
  <1>3. ASSUME NEW f \in Inodes, Begun(f)
        PROVE  TelemetryTypes'
    <2>1. written' \in Nat /\ content' \in [Inodes -> Seq(Nat)]
      <3>1. LogTo(f, <<>>) /\ written \in Nat
        BY <1>1, <1>3 DEF Begun, TelemetryTypes
      <3>2. written' = written + 1 /\ content' \in [Inodes -> Seq(Nat)]
        BY <1>1, <3>1, Logged
      <3> QED BY <3>1, <3>2
    <2>2. /\ path' \in Files /\ backup' \in Files /\ handle' \in Files
          /\ turns' \in 0..2 /\ foreign' \in {"no", "there", "read"}
      BY <1>1, <1>3 DEF Begun, Turned, TelemetryTypes, Files
    <2> QED BY <1>1, <2>1, <2>2 DEF TelemetryTypes
  <1> QED BY <1>2, <1>3, WriteForms

\* What a write does to the places of the exporter.
LEMMA WritePhase ==
  ASSUME TelemetryAssumption, TInv, Write
  PROVE  PhaseInv'
  <1>1. handle' \in Inodes /\ handle' # NoFile
    BY WriteForms DEF Appended, Begun, TelemetryAssumption
  <1>2. handle # NoFile /\ UNCHANGED exporter
    BY WriteForms DEF TelemetryAssumption
  <1>3. path # NoFile \/ path' = NoFile
    BY WriteForms DEF Appended, Begun
  <1> QED BY <1>1, <1>2, <1>3 DEF TInv, PhaseInv, Running

\* The line that is appended follows the last one of its file.
LEMMA AppendFiles ==
  ASSUME TelemetryAssumption, TInv, Write, Appended
  PROVE  FilesInv'
  <1> DEFINE h == handle
             n == Len(content[handle])
  <1>1. /\ h \in Inodes /\ path \in {NoFile, h} /\ (path = NoFile => h = backup)
        /\ handle' = h /\ NoFile \notin Inodes /\ TelemetryTypes /\ FilesInv
        /\ FileLines \in Nat
    BY WriteForms DEF TInv, TelemetryAssumption, Appended
  <1>2. /\ written' = written + 1 /\ n \in Nat
        /\ \A g \in Inodes \ {h} : content'[g] = content[g]
        /\ Len(content'[h]) = n + 1 /\ DOMAIN content'[h] = 1..n + 1
        /\ DOMAIN content[h] = 1..n
        /\ \A k \in 1..n : content'[h][k] = content[h][k]
        /\ content'[h][n + 1] = written + 1
    BY <1>1, Logged DEF Appended
  <1>3. written \in Nat /\ backup \in Files
        /\ \A g \in Inodes : Len(content[g]) \in Nat /\ DOMAIN content[g] = 1..Len(content[g])
                             /\ \A k \in 1..Len(content[g]) : content[g][k] \in Nat
    BY <1>1, NatSeqs DEF TelemetryTypes
  <1>4. \A k \in 1..n : content[h][k] = written - n + k
    BY <1>1, <1>2 DEF FilesInv
  <1>5. \A k \in 1..n + 1 : content'[h][k] = written' - (n + 1) + k
    <2> SUFFICES ASSUME NEW k \in 1..n + 1
                 PROVE  content'[h][k] = written' - (n + 1) + k
      OBVIOUS
    <2>1. CASE k \in 1..n
      <3>1. content'[h][k] = written - n + k
        BY <1>2, <1>4, <2>1
      <3> QED BY <1>2, <1>3, <3>1
    <2>2. CASE k = n + 1
      <3>1. content'[h][k] = written + 1
        BY <1>2, <2>2
      <3>2. written' - (n + 1) + k = written + 1
        <4>1. written' = written + 1 /\ written \in Nat /\ n \in Nat
          BY <1>2, <1>3
        <4> HIDE DEF n
        <4> QED BY <4>1, <2>2
      <3> QED BY <3>1, <3>2
    <2>3. n \in Nat
      BY <1>2
    <2> HIDE DEF n
    <2>4. k \in 1..n \/ k = n + 1
      BY <2>3
    <2> QED BY <2>1, <2>2, <2>4
  <1>6. \A g \in Inodes : \A k \in DOMAIN content'[g] :
          content'[g][k] = content'[g][1] + k - 1 /\ content'[g][k] <= written'
    <2>1. \A k \in 1..n + 1 : content'[h][k] = content'[h][1] + k - 1
                              /\ content'[h][k] <= written'
      <3>1. written' \in Nat /\ n \in Nat
        <4>1. written' = written + 1 /\ written \in Nat /\ n \in Nat
          BY <1>2, <1>3
        <4> HIDE DEF n
        <4> QED BY <4>1
      <3> DEFINE c == content'[h]
      <3>2. \A k \in 1..n + 1 : c[k] = written' - (n + 1) + k
        BY <1>5
      <3> HIDE DEF c, n
      <3>3. 1 \in 1..n + 1
        BY <3>1
      <3>4. c[1] = written' - (n + 1) + 1
        BY <3>2, <3>3
      <3>5. \A k \in 1..n + 1 : c[k] = c[1] + k - 1 /\ c[k] <= written'
        BY <3>1, <3>2, <3>4
      <3> QED BY <3>5 DEF c, n
    <2>2. ASSUME NEW g \in Inodes \ {h}, NEW k \in DOMAIN content[g]
          PROVE  content[g][k] = content[g][1] + k - 1 /\ content[g][k] <= written + 1
      <3>1. content[g][k] = content[g][1] + k - 1 /\ content[g][k] <= written
        BY <1>1 DEF FilesInv
      <3>2. content[g][k] \in Nat
        BY <1>3
      <3> QED BY <1>3, <3>1, <3>2
    <2>3. ASSUME NEW g \in Inodes, NEW k \in DOMAIN content'[g]
          PROVE  content'[g][k] = content'[g][1] + k - 1 /\ content'[g][k] <= written'
      <3>1. CASE g = h
        BY <1>2, <2>1, <3>1
      <3>2. CASE g # h
        <4>1. content'[g] = content[g]
          BY <1>2, <3>2
        <4> QED BY <1>2, <2>2, <3>2, <4>1
      <3> QED BY <3>1, <3>2
    <2> QED BY <2>3
  <1>7. CASE path = h /\ UNCHANGED <<path, backup>>
    <2>1. path # backup /\ backup # h
      BY <1>1, <1>7 DEF FilesInv
    <2>2. ASSUME backup # NoFile
          PROVE  \A k \in DOMAIN content'[backup] : content'[backup][k] =
                   written' - Len(content'[h]) - Len(content'[backup]) + k
      <3>1. backup \in Inodes \ {h}
        BY <1>3, <2>1, <2>2 DEF Files
      <3>2. content'[backup] = content[backup] /\ Len(content[backup]) \in Nat
        BY <1>2, <1>3, <3>1
      <3>3. \A k \in DOMAIN content[backup] :
              content[backup][k] = written - n - Len(content[backup]) + k
        BY <1>1, <1>7, <2>2 DEF FilesInv
      <3>4. written' - (n + 1) = written - n
        BY <1>2, <1>3
      <3> QED BY <1>2, <3>2, <3>3, <3>4
    <2>3. Len(content'[h]) < FileLines => backup # NoFile /\ Len(content'[backup]) >= FileLines
      <3> SUFFICES ASSUME n + 1 < FileLines
                   PROVE  backup # NoFile /\ Len(content'[backup]) >= FileLines
        BY <1>2
      <3>1. n < FileLines
        BY <1>1, <1>2
      <3>2. backup # NoFile /\ Len(content[backup]) >= FileLines
        BY <1>1, <1>7, <3>1 DEF FilesInv
      <3>3. backup \in Inodes \ {h}
        BY <1>3, <2>1, <3>2 DEF Files
      <3> QED BY <1>2, <3>2, <3>3
    <2> QED BY <1>1, <1>2, <1>5, <1>6, <1>7, <2>1, <2>2, <2>3 DEF FilesInv
  <1>8. CASE path = NoFile /\ UNCHANGED <<path, backup>>
    <2>1. h = backup /\ n >= FileLines
      BY <1>1, <1>8 DEF FilesInv
    <2>2. n + 1 >= FileLines
      BY <1>1, <1>2, <2>1
    <2> QED BY <1>1, <1>2, <1>5, <1>6, <1>8, <2>1, <2>2 DEF FilesInv
  <1>9. CASE /\ path # NoFile /\ n >= FileLines
             /\ \/ backup' = NoFile /\ UNCHANGED path
                \/ backup' = path /\ path' = NoFile
    <2>1. path = h /\ n + 1 >= FileLines /\ ~(n + 1 < FileLines) /\ h # NoFile
      BY <1>1, <1>2, <1>9
    <2>2. CASE backup' = NoFile /\ UNCHANGED path
      BY <1>1, <1>2, <1>5, <1>6, <2>1, <2>2 DEF FilesInv
    <2>3. CASE backup' = path /\ path' = NoFile
      BY <1>1, <1>2, <1>5, <1>6, <2>1, <2>3 DEF FilesInv
    <2> QED BY <1>9, <2>2, <2>3
  <1> QED BY <1>1, <1>7, <1>8, <1>9 DEF Appended

\* The line that begins a new file follows the last one of the file that is now the
\* .1, which is full.
LEMMA BeginFiles ==
  ASSUME TelemetryAssumption, TInv, Write, NEW f \in Inodes, Begun(f)
  PROVE  FilesInv'
  <1> DEFINE n == Len(content[path])
  <1>1. /\ path \in Inodes /\ path # NoFile /\ NoFile \notin Inodes /\ TelemetryTypes /\ FilesInv
        /\ FileLines \in Nat /\ f # path /\ n >= FileLines
        /\ path' = f /\ backup' = path /\ handle' = f
    BY WriteForms DEF TInv, TelemetryAssumption, Begun
  <1>2. /\ written' = written + 1
        /\ \A g \in Inodes \ {f} : content'[g] = content[g]
        /\ Len(content'[f]) = Len(<<>>) + 1 /\ DOMAIN content'[f] = 1..Len(<<>>) + 1
        /\ content'[f][Len(<<>>) + 1] = written + 1 /\ Len(<<>>) = 0
    BY <1>1, Logged, EmptySeq DEF Begun
  <1>3. Len(content'[f]) = 1 /\ DOMAIN content'[f] = 1..1 /\ content'[f][1] = written + 1
    BY <1>2
  <1>4. written \in Nat
        /\ \A g \in Inodes : Len(content[g]) \in Nat /\ DOMAIN content[g] = 1..Len(content[g])
                             /\ \A k \in 1..Len(content[g]) : content[g][k] \in Nat
    BY <1>1, NatSeqs DEF TelemetryTypes
  <1>5. \A k \in DOMAIN content'[f] : /\ content'[f][k] = written' - Len(content'[f]) + k
                                      /\ content'[f][k] = content'[f][1] + k - 1
                                      /\ content'[f][k] <= written'
    BY <1>2, <1>3, <1>4
  <1>6. ASSUME NEW g \in Inodes \ {f}, NEW k \in DOMAIN content[g]
        PROVE  content[g][k] = content[g][1] + k - 1 /\ content[g][k] <= written + 1
    <2>1. content[g][k] = content[g][1] + k - 1 /\ content[g][k] <= written
      BY <1>1 DEF FilesInv
    <2>2. content[g][k] \in Nat
      BY <1>4
    <2> QED BY <1>4, <2>1, <2>2
  <1>7. \A k \in DOMAIN content'[path] : content'[path][k] =
          written' - Len(content'[f]) - Len(content'[path]) + k
    <2>1. content'[path] = content[path] /\ n \in Nat /\ DOMAIN content[path] = 1..n
      BY <1>1, <1>2, <1>4
    <2>2. \A k \in DOMAIN content[path] : content[path][k] = written - n + k
      BY <1>1 DEF FilesInv
    <2>3. written' - 1 = written
      BY <1>2, <1>4
    <2> QED BY <1>3, <2>1, <2>2, <2>3
  <1>8. Len(content'[path]) >= FileLines
    BY <1>1, <1>2
  <1>9. ASSUME NEW g \in Inodes, NEW k \in DOMAIN content'[g]
        PROVE  content'[g][k] = content'[g][1] + k - 1 /\ content'[g][k] <= written'
    <2>1. CASE g = f
      BY <1>5, <2>1
    <2>2. CASE g # f
      <3>1. content'[g] = content[g]
        BY <1>2, <2>2
      <3> QED BY <1>2, <1>6, <2>2, <3>1
    <2> QED BY <2>1, <2>2
  <1>10. f # NoFile
    BY <1>1
  <1> QED BY <1>1, <1>5, <1>7, <1>8, <1>9, <1>10 DEF FilesInv

LEMMA WriteFiles ==
  ASSUME TelemetryAssumption, TInv, Write
  PROVE  FilesInv'
  BY WriteForms, AppendFiles, BeginFiles


LEMMA AppendFacts ==
  ASSUME TelemetryAssumption, TInv, Write, Appended
  PROVE  /\ handle \in Inodes /\ handle # NoFile /\ path \in {NoFile, handle}
         /\ path = NoFile => handle = backup
         /\ path # NoFile => handle # backup
         /\ written' = written + 1 /\ written \in Nat
         /\ \A g \in Inodes :
              /\ g # handle => content'[g] = content[g]
              /\ Len(content[g]) \in Nat
              /\ Len(content'[g]) = Len(content[g]) + (IF g = handle THEN 1 ELSE 0)
              /\ \A k \in DOMAIN content[g] : content[g][k] \in Nat /\ content[g][k] <= written
              /\ \A k \in DOMAIN content'[g] :
                   \/ k \in DOMAIN content[g] /\ content'[g][k] = content[g][k]
                   \/ g = handle /\ k = Len(content[g]) + 1 /\ content'[g][k] = written + 1
  <1>1. /\ handle \in Inodes /\ path \in {NoFile, handle} /\ (path = NoFile => handle = backup)
        /\ NoFile \notin Inodes /\ TelemetryTypes /\ FilesInv
    BY WriteForms DEF TInv, TelemetryAssumption
  <1>2. /\ written' = written + 1
        /\ \A g \in Inodes \ {handle} : content'[g] = content[g]
        /\ Len(content'[handle]) = Len(content[handle]) + 1
        /\ DOMAIN content'[handle] = 1..Len(content[handle]) + 1
        /\ \A k \in 1..Len(content[handle]) : content'[handle][k] = content[handle][k]
        /\ content'[handle][Len(content[handle]) + 1] = written + 1
    BY <1>1, Logged DEF Appended
  <1>3. written \in Nat
        /\ \A g \in Inodes : Len(content[g]) \in Nat /\ DOMAIN content[g] = 1..Len(content[g])
                             /\ \A k \in 1..Len(content[g]) : content[g][k] \in Nat
    BY <1>1, NatSeqs DEF TelemetryTypes
  <1>4. \A g \in Inodes : \A k \in DOMAIN content[g] : content[g][k] <= written
    BY <1>1 DEF FilesInv
  <1>5. path # NoFile => handle # backup
    BY <1>1 DEF FilesInv
  <1>6. ASSUME NEW k \in DOMAIN content'[handle]
        PROVE  \/ k \in DOMAIN content[handle] /\ content'[handle][k] = content[handle][k]
               \/ k = Len(content[handle]) + 1 /\ content'[handle][k] = written + 1
    <2>1. k \in 1..Len(content[handle]) \/ k = Len(content[handle]) + 1
      <3> DEFINE n == Len(content[handle])
      <3>1. n \in Nat /\ k \in 1..n + 1
        BY <1>1, <1>2, <1>3, <1>6
      <3> HIDE DEF n
      <3>2. k \in 1..n \/ k = n + 1
        BY <3>1
      <3> QED BY <3>2 DEF n
    <2> QED BY <1>1, <1>2, <1>3, <2>1
  <1>7. ASSUME NEW g \in Inodes
        PROVE  /\ g # handle => content'[g] = content[g]
               /\ Len(content'[g]) = Len(content[g]) + (IF g = handle THEN 1 ELSE 0)
               /\ \A k \in DOMAIN content'[g] :
                    \/ k \in DOMAIN content[g] /\ content'[g][k] = content[g][k]
                    \/ g = handle /\ k = Len(content[g]) + 1 /\ content'[g][k] = written + 1
    <2>1. CASE g = handle
      BY <1>2, <1>6, <2>1
    <2>2. CASE g # handle
      <3>1. content'[g] = content[g] /\ Len(content[g]) \in Nat
        BY <1>2, <1>3, <2>2
      <3> QED BY <2>2, <3>1
    <2> QED BY <2>1, <2>2
  <1>8. \A g \in Inodes : Len(content[g]) \in Nat /\ \A k \in DOMAIN content[g] : content[g][k] \in Nat
    BY <1>3
  <1> QED BY <1>1, <1>2, <1>3, <1>4, <1>5, <1>7, <1>8

LEMMA BeginFacts ==
  ASSUME TelemetryAssumption, TInv, Write, NEW f \in Inodes, Begun(f)
  PROVE  /\ path \in Inodes /\ path # NoFile /\ f \notin {path, opened, NoFile}
         /\ written' = written + 1 /\ written \in Nat
         /\ \A g \in Inodes :
              /\ g # f => content'[g] = content[g]
              /\ Len(content[g]) \in Nat
              /\ \A k \in DOMAIN content[g] : content[g][k] \in Nat /\ content[g][k] <= written
         /\ Len(content'[f]) = 1
         /\ \A k \in DOMAIN content'[f] : k = 1 /\ content'[f][k] = written + 1
  <1>1. /\ path \in Inodes /\ path # NoFile /\ f \notin {path, opened, NoFile}
        /\ TelemetryTypes /\ FilesInv
    BY WriteForms DEF TInv, TelemetryAssumption, Begun
  <1>2. /\ written' = written + 1
        /\ \A g \in Inodes \ {f} : content'[g] = content[g]
        /\ Len(content'[f]) = Len(<<>>) + 1 /\ DOMAIN content'[f] = 1..Len(<<>>) + 1
        /\ content'[f][Len(<<>>) + 1] = written + 1 /\ Len(<<>>) = 0
    BY <1>1, Logged, EmptySeq DEF Begun
  <1>3. Len(content'[f]) = 1 /\ \A k \in DOMAIN content'[f] : k = 1 /\ content'[f][k] = written + 1
    BY <1>2
  <1>4. written \in Nat
        /\ \A g \in Inodes : Len(content[g]) \in Nat /\ DOMAIN content[g] = 1..Len(content[g])
                             /\ \A k \in 1..Len(content[g]) : content[g][k] \in Nat
    BY <1>1, NatSeqs DEF TelemetryTypes
  <1>5. \A g \in Inodes : \A k \in DOMAIN content[g] : content[g][k] <= written
    BY <1>1 DEF FilesInv
  <1> QED BY <1>1, <1>2, <1>3, <1>4, <1>5

\* What a write leaves alone.
LEMMA WriteStays ==
  ASSUME TelemetryAssumption, TInv, Write
  PROVE  /\ Running' = Running /\ NeverMisread' = NeverMisread /\ Sent' = Sent /\ Seen' = Seen
         /\ Pos' = Pos /\ (Caught' => Caught) /\ written' = written + 1 /\ written \in Nat
         /\ \A l \in Seen : l \in Nat /\ l <= written
         /\ UNCHANGED exporter
  <1>1. UNCHANGED exporter
    BY WriteForms
  <1>2. /\ NeverMisread' = NeverMisread
        /\ "now" \in slack => "now" \in slack'
        /\ "next" \in slack => "next" \in slack'
    BY WriteForms DEF Appended, Begun, Turned, NeverMisread
  <1>3. Running' = Running /\ Seen' = Seen /\ Pos' = Pos /\ Sent' = Sent
    BY <1>1 DEF Running, Seen, Pos, Sent
  <1>4. \A l \in Seen : l \in Nat /\ l <= written
    <2>1. mark \in Nat /\ mark <= written /\ \A l \in ToSet(lines) : l <= written
      BY DEF TInv, TelemetryTypes, HeldInv
    <2>2. \A l \in ToSet(lines) : l \in Nat
      BY NatSeqs DEF TInv, TelemetryTypes, ToSet
    <2> QED BY <2>1, <2>2 DEF Seen
  <1>5. written' = written + 1 /\ written \in Nat
    BY WriteForms, AppendFacts, BeginFacts
  <1> QED BY <1>1, <1>2, <1>3, <1>4, <1>5 DEF Caught

LEMMA WriteHeld ==
  ASSUME TelemetryAssumption, TInv, Write
  PROVE  HeldInv' /\ SentInv'
  <1>1. \A l \in Sent \cup ToSet(pending) \cup ToSet(lines) : l \in Nat
    <2>1. \A s \in Seq(Nat) : ToSet(s) \subseteq Nat
      BY NatSeqs DEF ToSet
    <2>2. ToSet(pending) \subseteq Nat /\ ToSet(lines) \subseteq Nat
      BY <2>1 DEF TInv, TelemetryTypes
    <2>3. Sent \subseteq Nat
      <3>1. \A m \in late \cup {req} : ToSet(m.logs) \subseteq Nat
        BY <2>1 DEF TInv, TelemetryTypes
      <3>2. taken \subseteq Nat
        BY DEF TInv, TelemetryTypes
      <3> QED BY <3>1, <3>2 DEF Sent
    <2> QED BY <2>2, <2>3
  <1>2. HeldInv'
    <2>1. \A l \in Nat : l <= written => l <= written'
      BY WriteStays
    <2>2. mark' <= written' /\ \A l \in Sent' \cup ToSet(pending') \cup ToSet(lines') : l <= written'
      BY <1>1, <2>1, WriteStays DEF TInv, TelemetryTypes, HeldInv
    <2> QED BY <2>2, WriteStays DEF TInv, HeldInv, Increasing
  <1>3. SentInv'
    BY WriteStays DEF TInv, SentInv
  <1> QED BY <1>2, <1>3


LEMMA AppendFresh ==
  ASSUME TelemetryAssumption, TInv, Write, Appended
  PROVE  FreshInv'
  <1> SUFFICES ASSUME Running, NeverMisread
               PROVE  FreshInv'
    BY WriteStays DEF FreshInv
  <1>0. /\ UNCHANGED exporter /\ UNCHANGED <<handle, foreign>> /\ Seen' = Seen /\ offset \in Nat
        /\ last \in Files /\ opened \in Files /\ FreshInv
    BY WriteStays DEF Appended, TInv, TelemetryTypes
  <1>1. path' \in {NoFile, path}
    BY DEF Appended
  <1>2. /\ \A l \in Seen : l \in Nat /\ l <= written
        /\ written \in Nat /\ \A l \in Nat : l <= written => l < written + 1
    <2>1. (\A l \in Seen : l \in Nat /\ l <= written) /\ written \in Nat
      BY WriteStays
    <2>2. \A l \in Nat : l <= written => l < written + 1
      BY <2>1
    <2> QED BY <2>1, <2>2
  <1>3. ASSUME last # NoFile, NEW k \in DOMAIN content'[last], NEW l \in Seen,
               k > offset \/ foreign = "there"
        PROVE  content'[last][k] > l
    <2>1. last \in Inodes
      BY <1>0, <1>3 DEF Files
    <2>2. CASE k \in DOMAIN content[last] /\ content'[last][k] = content[last][k]
      BY <1>0, <1>3, <2>2 DEF FreshInv
    <2>3. CASE content'[last][k] = written + 1
      BY <1>2, <2>3
    <2> QED BY <2>1, <2>2, <2>3, AppendFacts
  <1>4. ASSUME last # NoFile, exp = "read" \/ foreign = "no"
        PROVE  offset <= Len(content'[last])
    <2>1. last \in Inodes /\ offset <= Len(content[last])
      BY <1>0, <1>4 DEF Files, FreshInv
    <2>2. /\ Len(content[last]) \in Nat
          /\ Len(content'[last]) = Len(content[last]) + (IF last = handle THEN 1 ELSE 0)
      BY <2>1, AppendFacts
    <2>3. \A n \in Nat : \A m : m = n + (IF last = handle THEN 1 ELSE 0) => m \in Nat /\ n <= m
      OBVIOUS
    <2>4. Len(content'[last]) \in Nat /\ Len(content[last]) <= Len(content'[last])
      BY <2>2, <2>3
    <2>5. \A i, j, k \in Nat : i <= j /\ j <= k => i <= k
      OBVIOUS
    <2> QED BY <1>0, <2>1, <2>2, <2>4, <2>5
  <1>5. path' # NoFile => /\ path' = handle /\ path = handle
                          /\ written' - Len(content'[path']) = written - Len(content[path])
    <2>1. path' # NoFile => path' = handle /\ path = handle
      BY <1>1, AppendFacts
    <2>2. written' - Len(content'[handle]) = written - Len(content[handle])
      <3>1. /\ written' = written + 1 /\ written \in Nat /\ Len(content[handle]) \in Nat
            /\ Len(content'[handle]) = Len(content[handle]) + 1
        BY AppendFacts
      <3> QED BY <3>1
    <2> QED BY <2>1, <2>2
  <1>6. path' \notin {NoFile, last} => \A l \in Seen : l <= written' - Len(content'[path'])
    BY <1>0, <1>5 DEF FreshInv
  <1>7. ASSUME path' \notin {NoFile, last}, foreign = "no", last # NoFile,
               NEW k \in DOMAIN content'[last]
        PROVE  content'[last][k] <= written' - Len(content'[path'])
    <2>1. last \in Inodes /\ last # handle /\ content'[last] = content[last]
      BY <1>0, <1>5, <1>7, AppendFacts DEF Files
    <2> QED BY <1>0, <1>5, <1>7, <2>1 DEF FreshInv
  <1>8. ASSUME opened # NoFile, path' \notin {NoFile, opened}
        PROVE  /\ \A l \in Seen : l <= written' - Len(content'[path'])
               /\ \A k \in DOMAIN content'[opened] :
                    content'[opened][k] <= written' - Len(content'[path'])
    <2>1. opened \in Inodes /\ opened # handle /\ content'[opened] = content[opened]
      BY <1>0, <1>5, <1>8, AppendFacts DEF Files
    <2> QED BY <1>0, <1>5, <1>8, <2>1 DEF FreshInv
  <1>9. ASSUME exp = "drain"
        PROVE  /\ last # NoFile
               /\ \A k \in DOMAIN content'[opened] : content'[opened][k] > mark
               /\ foreign = "no" =>
                    /\ opened # last /\ path' # last
                    /\ \A j \in DOMAIN content'[last], k \in DOMAIN content'[opened] :
                         content'[last][j] < content'[opened][k]
    <2>1. /\ opened \in Inodes /\ last \in Inodes /\ mark \in Seen
          /\ \A k \in DOMAIN content[opened] : content[opened][k] > mark
          /\ foreign = "no" =>
               /\ opened # last /\ path # last
               /\ \A j \in DOMAIN content[last], k \in DOMAIN content[opened] :
                    content[last][j] < content[opened][k]
      BY <1>0, <1>9 DEF FreshInv, Files, TInv, PhaseInv, Seen
    <2>2. ASSUME NEW k \in DOMAIN content'[opened]
          PROVE  content'[opened][k] > mark
      <3>1. CASE k \in DOMAIN content[opened] /\ content'[opened][k] = content[opened][k]
        BY <2>1, <3>1
      <3>2. CASE content'[opened][k] = written + 1
        BY <1>2, <2>1, <3>2
      <3> QED BY <2>1, <2>2, <3>1, <3>2, AppendFacts
    <2>3. ASSUME foreign = "no"
          PROVE  last # handle /\ path' # last
      <3>1. path # last /\ opened # NoFile /\ last # NoFile
        BY <1>9, <2>1, <2>3 DEF TInv, PhaseInv, TelemetryAssumption
      <3>2. backup = last => path = opened
        BY <1>9, <2>3, <3>1 DEF TInv, SkipInv
      <3> QED BY <1>1, <3>1, <3>2, AppendFacts
    <2>4. ASSUME foreign = "no", NEW j \in DOMAIN content'[last], NEW k \in DOMAIN content'[opened]
          PROVE  content'[last][j] < content'[opened][k]
      <3>1. content'[last] = content[last]
        BY <2>1, <2>3, <2>4, AppendFacts
      <3>2. content[last][j] \in Nat /\ content[last][j] <= written
        BY <2>1, <2>4, <3>1, AppendFacts
      <3>3. CASE k \in DOMAIN content[opened] /\ content'[opened][k] = content[opened][k]
        BY <2>1, <2>4, <3>1, <3>3
      <3>4. CASE content'[opened][k] = written + 1
        BY <1>2, <3>1, <3>2, <3>4
      <3> QED BY <2>1, <3>3, <3>4, AppendFacts
    <2> QED BY <1>0, <1>9, <2>1, <2>2, <2>3, <2>4 DEF FreshInv
  <1> QED BY <1>0, <1>3, <1>4, <1>6, <1>7, <1>8, <1>9 DEF FreshInv

LEMMA BeginFresh ==
  ASSUME TelemetryAssumption, TInv, Write, NEW f \in Inodes, Begun(f)
  PROVE  FreshInv'
  <1> SUFFICES ASSUME Running, NeverMisread
               PROVE  FreshInv'
    BY WriteStays DEF FreshInv
  <1>0. /\ UNCHANGED exporter /\ Seen' = Seen /\ offset \in Nat
        /\ last \in Files /\ opened \in Files /\ FreshInv
        /\ path' = f /\ foreign' = IF f = last /\ foreign = "no" THEN "there" ELSE foreign
    BY WriteStays DEF Begun, TInv, TelemetryTypes
  <1>1. written' - Len(content'[path']) = written
    <2>1. written' = written + 1 /\ written \in Nat /\ Len(content'[f]) = 1
      BY BeginFacts
    <2>2. Len(content'[path']) = 1
      BY <1>0, <2>1
    <2> QED BY <2>1, <2>2
  <1>2. /\ \A l \in Seen : l \in Nat /\ l <= written
        /\ written \in Nat /\ \A l \in Nat : l <= written => l < written + 1
    <2>1. (\A l \in Seen : l \in Nat /\ l <= written) /\ written \in Nat
      BY WriteStays
    <2>2. \A l \in Nat : l <= written => l < written + 1
      BY <2>1
    <2> QED BY <2>1, <2>2
  <1>3. ASSUME last # NoFile, NEW k \in DOMAIN content'[last], NEW l \in Seen,
               k > offset \/ foreign' = "there"
        PROVE  content'[last][k] > l
    <2>1. CASE last = f
      <3>1. content'[last][k] = written + 1
        BY <1>3, <2>1, BeginFacts
      <3> QED BY <1>2, <3>1, BeginFacts
    <2>2. CASE last # f
      <3>1. content'[last] = content[last] /\ foreign' = foreign
        BY <1>0, <1>3, <2>2, BeginFacts DEF Files
      <3> QED BY <1>0, <1>3, <3>1 DEF FreshInv
    <2> QED BY <2>1, <2>2
  <1>4. ASSUME last # NoFile, exp = "read" \/ foreign' = "no"
        PROVE  offset <= Len(content'[last])
    <2>1. last # f /\ last \in Inodes /\ (exp = "read" \/ foreign = "no")
      BY <1>0, <1>4, BeginFacts DEF Files, TInv, PhaseInv
    <2> QED BY <1>0, <1>4, <2>1, BeginFacts DEF FreshInv
  <1>5. \A g \in Inodes \ {f} : \A k \in DOMAIN content'[g] : content'[g][k] <= written
    BY BeginFacts
  <1>6. ASSUME foreign' = "no"
        PROVE  foreign = "no" /\ f # last
    BY <1>0, <1>6
  <1>7. ASSUME exp = "drain"
        PROVE  /\ last # NoFile
               /\ \A k \in DOMAIN content'[opened] : content'[opened][k] > mark
               /\ foreign' = "no" =>
                    /\ opened # last /\ path' # last
                    /\ \A j \in DOMAIN content'[last], k \in DOMAIN content'[opened] :
                         content'[last][j] < content'[opened][k]
    <2>1. /\ opened \in Inodes /\ last \in Inodes
      BY <1>0, <1>7 DEF FreshInv, Files, TInv, PhaseInv
    <2>2. content'[opened] = content[opened]
      BY <2>1, BeginFacts
    <2>3. foreign' = "no" => content'[last] = content[last] /\ foreign = "no" /\ path' # last
      BY <1>0, <1>6, <2>1, BeginFacts
    <2> QED BY <1>0, <1>7, <2>2, <2>3 DEF FreshInv
  <1>8. last # NoFile => last \in Inodes
    BY <1>0 DEF Files
  <1>9. opened # NoFile => opened \in Inodes \ {f}
    BY <1>0, BeginFacts DEF Files
  <1> QED BY <1>0, <1>1, <1>2, <1>3, <1>4, <1>5, <1>6, <1>7, <1>8, <1>9 DEF FreshInv


\* As long as the tailer's file has its name at the path or the .1, the numbers of its
\* lines stay what they are.
LEMMA WriteAtPos ==
  ASSUME TelemetryAssumption, TInv, Write, last \in Inodes, last \in {path, backup},
         AtPos(last), path # NoFile, path' # NoFile, turns' <= 1, turns = 0 => last = path
  PROVE  last \in {path', backup'} /\ (turns' = 0 => last = path') /\ AtPos(last)'
  <1>0. /\ last' = last /\ offset' = offset /\ Pos' = Pos /\ offset \in Nat /\ path # backup
        /\ turns \in 0..2 /\ path \in Inodes
    BY WriteStays DEF TInv, TelemetryTypes, FilesInv, Files
  <1>1. CASE Appended
    <2>1. path' = path /\ path = handle
      BY <1>1, AppendFacts DEF Appended
    <2>2. UNCHANGED <<backup, turns>> \/ (turns = 0 /\ turns' = 1)
      BY <1>0, <1>1 DEF Appended, Turned
    <2>3. last = path \/ (last = backup /\ backup' = backup)
      BY <2>2
    <2>4. /\ written' = written + 1 /\ written \in Nat
          /\ Len(content'[path]) = Len(content[path]) + 1 /\ Len(content[path]) \in Nat
      BY <1>1, <2>1, AppendFacts
    <2>5. written' - Len(content'[path]) = written - Len(content[path])
      BY <2>4
    <2>6. CASE last = path
      <3>1. Start(last)' = Start(last)
        BY <1>0, <2>1, <2>5, <2>6 DEF Start
      <3>2. offset <= Len(content'[last])
        BY <1>0, <2>4, <2>6 DEF AtPos
      <3> QED BY <1>0, <2>1, <2>6, <3>1, <3>2 DEF AtPos
    <2>7. CASE last # path /\ last = backup /\ backup' = backup
      <3>1. content'[last] = content[last]
        BY <1>1, <2>1, <2>7, AppendFacts
      <3>2. Start(last)' = Start(last)
        BY <1>0, <2>1, <2>5, <2>7, <3>1 DEF Start
      <3>3. turns' = turns
        BY <2>2, <2>7
      <3> QED BY <1>0, <2>1, <2>7, <3>1, <3>2, <3>3 DEF AtPos
    <2> QED BY <2>3, <2>6, <2>7
  <1>2. ASSUME NEW f \in Inodes, Begun(f)
        PROVE  last \in {path', backup'} /\ (turns' = 0 => last = path') /\ AtPos(last)'
    <2>1. turns = 0 /\ turns' = 1 /\ last = path /\ path' = f /\ backup' = path /\ f # path
      BY <1>0, <1>2, BeginFacts DEF Begun, Turned
    <2>2. /\ written' = written + 1 /\ written \in Nat /\ Len(content'[f]) = 1
          /\ content'[path] = content[path] /\ Len(content[path]) \in Nat
      BY <1>0, <1>2, <2>1, BeginFacts
    <2>3. Start(last)' = Start(last)
      <3>1. Start(last)' = written' - 1 - Len(content[path])
        BY <1>0, <2>1, <2>2 DEF Start
      <3>2. Start(last) = written - Len(content[path]) - 0
        BY <2>1 DEF Start
      <3> QED BY <2>2, <3>1, <3>2
    <2> QED BY <1>0, <2>1, <2>2, <2>3 DEF AtPos
  <1> QED BY <1>1, <1>2, WriteForms

LEMMA WriteSkip ==
  ASSUME TelemetryAssumption, TInv, Write
  PROVE  SkipInv'
  <1>0. /\ UNCHANGED exporter /\ SkipInv /\ turns \in 0..2 /\ PhaseInv /\ FreshInv
        /\ Running' = Running /\ NeverMisread' = NeverMisread /\ Pos' = Pos /\ (Caught' => Caught)
        /\ last \in Files /\ opened \in Files /\ NoFile \notin Inodes
    BY WriteStays DEF TInv, TelemetryTypes, TelemetryAssumption
  <1>1. /\ path' # NoFile => path # NoFile
        /\ "now" \notin slack' => "now" \notin slack
        /\ "next" \in slack' => "next" \in slack
        /\ foreign' = "no" => foreign = "no"
    BY WriteForms DEF Appended, Begun, Turned
  <1>2. /\ Running' /\ "next" \in slack' => exp' = "push" /\ lines' # <<>>
        /\ Running' /\ NeverMisread' /\ "now" \notin slack' =>
             \A k \in DOMAIN lines' : lines'[k] = mark' + k
    BY <1>0, <1>1 DEF SkipInv
  <1>3. ASSUME exp \in {"drain", "read"}, path' # NoFile
        PROVE  (turns' = 0 => opened = path') /\ (turns' = 1 => opened \in {path', backup'})
    <2>1. path # NoFile /\ (turns = 0 => opened = path) /\ (turns = 1 => opened \in {path, backup})
      BY <1>0, <1>1, <1>3 DEF SkipInv
    <2>2. CASE Appended
      BY <1>0, <1>3, <2>1, <2>2 DEF Appended, Turned
    <2>3. CASE \E f \in Inodes : Begun(f)
      BY <1>0, <2>1, <2>3 DEF Begun, Turned
    <2> QED BY <2>2, <2>3, WriteForms
  <1>4. ASSUME exp = "drain", foreign' = "no", backup' = last, last # NoFile
        PROVE  path' = opened
    <2>1. path # last /\ foreign = "no"
      <3>1. foreign = "no" /\ NeverMisread /\ Running
        BY <1>1, <1>4 DEF NeverMisread, Running
      <3> QED BY <1>0, <1>4, <3>1 DEF FreshInv
    <2>2. UNCHANGED <<path, backup>>
      BY <1>4, <2>1, WriteForms DEF Appended, Begun
    <2> QED BY <1>0, <1>4, <2>1, <2>2 DEF SkipInv
  <1>5. ASSUME Caught', exp # "drain", path' # NoFile, turns' <= 1
        PROVE  last \in {path', backup'} /\ last # NoFile /\ (turns' = 0 => last = path') /\ AtPos(last)'
    <2>1. turns <= 1
      BY <1>0, <1>5, WriteForms DEF Appended, Begun, Turned
    <2>2. last \in {path, backup} /\ last # NoFile /\ (turns = 0 => last = path) /\ AtPos(last)
      BY <1>0, <1>1, <1>5, <2>1 DEF SkipInv
    <2>3. last \in Inodes
      BY <1>0, <2>2 DEF Files
    <2> QED BY <1>1, <1>5, <2>2, <2>3, WriteAtPos
  <1>6. ASSUME Caught', exp = "drain"
        PROVE  turns' = 0 /\ opened = path' /\ last = backup' /\ last \notin {NoFile, path'}
               /\ AtPos(last)'
    <2>1. turns = 0 /\ opened = path /\ last = backup /\ last \notin {NoFile, path} /\ AtPos(last)
      BY <1>0, <1>6 DEF SkipInv
    <2>2. "now" \notin slack'
      BY <1>0, <1>6 DEF Caught, PhaseInv
    <2>3. Appended /\ UNCHANGED <<path, backup, turns>>
      BY <1>6, <2>2, WriteForms DEF Appended, Begun, Turned
    <2>4. last \in Inodes /\ path # NoFile /\ opened # NoFile
      BY <1>0, <1>6, <2>1 DEF Files, PhaseInv
    <2>5. path = handle /\ last # handle /\ last' = last /\ path' = path /\ offset' = offset
      BY <1>0, <2>1, <2>3, <2>4, AppendFacts
    <2>6. /\ content'[last] = content[last] /\ written' = written + 1 /\ written \in Nat
          /\ Len(content'[path]) = Len(content[path]) + 1 /\ Len(content[path]) \in Nat
      BY <2>3, <2>4, <2>5, AppendFacts
    <2>7. written' - Len(content'[path]) = written - Len(content[path])
      BY <2>6
    <2>8. Start(last)' = Start(last)
      BY <2>1, <2>3, <2>5, <2>6, <2>7 DEF Start
    <2> QED BY <1>0, <2>1, <2>3, <2>5, <2>6, <2>8 DEF AtPos
  <1>7. ASSUME Caught', exp = "read"
        PROVE  /\ offset <= Len(content'[opened])
               /\ \A k \in DOMAIN content'[opened] :
                    k > offset => content'[opened][k] = Pos + k - offset
               /\ opened = handle' => written' = Pos + Len(content'[opened]) - offset
    <2>1. /\ opened \in Inodes /\ offset \in Nat /\ Pos \in Int
          /\ offset <= Len(content[opened])
          /\ \A k \in DOMAIN content[opened] :
               k > offset => content[opened][k] = Pos + k - offset
          /\ opened = handle => written = Pos + Len(content[opened]) - offset
      <3>1. Pos \in Int
        <4>1. lines \in Seq(Nat) /\ mark \in Nat
          BY DEF TInv, TelemetryTypes
        <4>2. lines # <<>> => lines[Len(lines)] \in Nat
          BY <4>1, NatSeqs
        <4> QED BY <4>1, <4>2 DEF Pos
      <3> QED BY <1>0, <1>7, <3>1 DEF SkipInv, PhaseInv, Files, TInv, TelemetryTypes
    <2>2. CASE Appended
      <3> DEFINE n == Len(content[opened])
      <3>1. CASE opened # handle
        BY <2>1, <2>2, <3>1, AppendFacts DEF Appended
      <3>2. CASE opened = handle
        <4>1. /\ n \in Nat /\ Len(content'[opened]) = n + 1 /\ written' = written + 1
              /\ \A k \in DOMAIN content'[opened] :
                   \/ k \in DOMAIN content[opened] /\ content'[opened][k] = content[opened][k]
                   \/ k = n + 1 /\ content'[opened][k] = written + 1
          BY <2>1, <2>2, <3>2, AppendFacts
        <4>2. offset <= n /\ written = Pos + n - offset
          BY <2>1, <3>2
        <4> HIDE DEF n
        <4>3. written + 1 = Pos + (n + 1) - offset /\ offset <= n + 1
          <5>1. n \in Nat /\ offset \in Nat /\ Pos \in Int
            BY <2>1, <4>1
          <5> QED BY <4>2, <5>1
        <4> QED BY <2>1, <4>1, <4>3
      <3> QED BY <3>1, <3>2
    <2>3. CASE \E f \in Inodes : Begun(f)
      <3>1. PICK f \in Inodes : Begun(f)
        BY <2>3
      <3>2. content'[opened] = content[opened] /\ handle' # opened
        BY <2>1, <3>1, BeginFacts DEF Begun
      <3> QED BY <2>1, <3>2
    <2> QED BY <2>2, <2>3, WriteForms
  <1> QED BY <1>0, <1>2, <1>3, <1>4, <1>5, <1>6, <1>7 DEF SkipInv


-----------------------------------------------------------------------------
(***************************************************************************)
(* Pushes, answers and the server                                          *)
(***************************************************************************)

LEMMA ToSetNat == \A s \in Seq(Nat) : ToSet(s) \subseteq Nat
  BY NatSeqs DEF ToSet

\* A step that reads nothing and leaves the files alone: pushes are taken, given up
\* or answered, or something else happens.
Serves ==
  /\ UNCHANGED <<log, tailer, mark, turns, slack, foreign>>
  /\ exp' = exp \/ {exp, exp'} \subseteq {"idle", "wait", "acked"}
  /\ pending' = pending \/ (Running /\ pending' = <<>>)
  /\ late' \cup {req'} \subseteq late \cup {req, NoPush}
  /\ taken' = taken \/ \E m \in late \cup {req} : taken' = taken \cup ToSet(m.logs)

LEMMA ServeTypes ==
  ASSUME TInv, Serves
  PROVE  TelemetryTypes'
  <1>1. NoPush.logs \in Seq(Nat) /\ <<>> \in Seq(Nat)
    BY EmptySeq DEF NoPush
  <1>2. \A m \in late' \cup {req'} : m.logs \in Seq(Nat)
    BY <1>1 DEF Serves, TInv, TelemetryTypes
  <1>3. taken' \subseteq Nat
    BY ToSetNat DEF Serves, TInv, TelemetryTypes
  <1>4. pending' \in Seq(Nat) /\ exp' \in Phase
    BY <1>1 DEF Serves, TInv, TelemetryTypes, Phase
  <1> QED BY <1>2, <1>3, <1>4 DEF Serves, TInv, TelemetryTypes

LEMMA ServeInv ==
  ASSUME TInv, Serves
  PROVE  FilesInv' /\ HeldInv' /\ SentInv' /\ FreshInv' /\ SkipInv'
  <1>1. FilesInv'
    BY DEF Serves, TInv, FilesInv
  <1>2. /\ Running' = Running /\ NeverMisread' = NeverMisread /\ Seen' = Seen /\ Pos' = Pos
        /\ ToSet(pending') \subseteq ToSet(pending)
        /\ UNCHANGED <<content, path, offset, last, lines, mark, written, opened>>
    BY ToSetEmpty DEF Serves, Running, NeverMisread, Seen, Pos
  <1>3. Sent' \subseteq Sent
    <2>1. ToSet(NoPush.logs) = {}
      BY ToSetEmpty DEF NoPush
    <2>2. taken' \subseteq Sent
      BY DEF Serves, Sent
    <2>3. ASSUME NEW m \in late' \cup {req'}
          PROVE  ToSet(m.logs) \subseteq Sent
      <3>1. m \in late \cup {req} \/ m = NoPush
        BY DEF Serves
      <3> QED BY <2>1, <3>1 DEF Sent
    <2> QED BY <2>2, <2>3 DEF Sent
  <1>4. HeldInv'
    <2>1. Increasing(pending) => Increasing(pending')
      BY DEF Increasing, Serves
    <2> QED BY <1>2, <1>3, <2>1 DEF TInv, HeldInv, Increasing
  <1>5. SentInv'
    <2> SUFFICES ASSUME Running, NeverMisread
                 PROVE  SentInv'
      BY <1>2 DEF SentInv
    <2>1. /\ \A m \in late \cup {req} : \A x \in ToSet(m.logs), h \in ToSet(pending) :
               h < x => h \in ToSet(m.logs)
          /\ \A x, h \in ToSet(pending) : h < x /\ x \in taken => h \in taken
      BY DEF TInv, SentInv
    <2>2. ASSUME NEW m \in late' \cup {req'}, NEW x \in ToSet(m.logs), NEW h \in ToSet(pending'),
                 h < x
          PROVE  h \in ToSet(m.logs)
      <3>1. ToSet(NoPush.logs) = {}
        BY ToSetEmpty DEF NoPush
      <3>2. m \in late \cup {req}
        BY <2>2, <3>1 DEF Serves
      <3> QED BY <1>2, <2>1, <2>2, <3>2
    <2>3. ASSUME NEW x \in ToSet(pending'), NEW h \in ToSet(pending'), h < x, x \in taken'
          PROVE  h \in taken'
      BY <1>2, <2>1, <2>3 DEF Serves
    <2> QED BY <2>2, <2>3 DEF SentInv
  <1>6. FreshInv'
    <2>1. /\ exp' = "read" <=> exp = "read"
          /\ exp' = "drain" <=> exp = "drain"
      BY DEF Serves
    <2> QED BY <1>2, <2>1 DEF TInv, FreshInv, Serves
  <1>7. SkipInv'
    <2>1. /\ exp' = "read" <=> exp = "read"
          /\ exp' = "drain" <=> exp = "drain"
          /\ exp' = "push" <=> exp = "push"
          /\ UNCHANGED <<backup, turns, slack, handle, foreign>>
      BY DEF Serves
    <2>2. Caught' = Caught /\ AtPos(last)' = AtPos(last)
      BY <1>2, <2>1 DEF Caught, AtPos, Start
    <2> QED BY <1>2, <2>1, <2>2 DEF TInv, SkipInv
  <1> QED BY <1>1, <1>4, <1>5, <1>6, <1>7

LEMMA ServeStep ==
  ASSUME TInv,
         \/ Acked \/ GiveUp \/ IngestPush \/ Server \/ UNCHANGED vars
         \/ \E d \in Dirs : Touch(d)
  PROVE  TInv'
  <1>1. Serves /\ PhaseInv'
    <2>1. CASE Acked
      <3>1. Serves
        BY <2>1 DEF Acked, Serves, Running
      <3>2. PhaseInv'
        BY <2>1 DEF Acked, TInv, PhaseInv, Running
      <3> QED BY <3>1, <3>2
    <2>2. CASE GiveUp
      <3>1. Serves
        BY <2>2 DEF GiveUp, Abandon, Serves, Running
      <3>2. PhaseInv'
        BY <2>2 DEF GiveUp, TInv, PhaseInv, Running
      <3> QED BY <3>1, <3>2
    <2>3. CASE IngestPush
      <3>1. exp = "wait" /\ exp' = "acked" /\ taken' = taken \cup ToSet(req.logs)
            /\ UNCHANGED <<log, tailer, mark, turns, slack, foreign, pending, req, late>>
        BY <2>3 DEF IngestPush, Ingest
      <3>2. Serves
        BY <3>1 DEF Serves
      <3>3. PhaseInv'
        BY <3>1 DEF TInv, PhaseInv, Running
      <3> QED BY <3>2, <3>3
    <2>4. CASE IngestLate
      <3>1. PICK m \in late : Ingest(m) /\ late' = late \ {m}
        BY <2>4 DEF IngestLate
      <3>2. /\ taken' = taken \cup ToSet(m.logs)
            /\ UNCHANGED <<log, tailer, mark, turns, slack, foreign, exp, pending, req>>
        BY <2>4, <3>1 DEF IngestLate, Ingest
      <3>3. Serves
        BY <3>1, <3>2 DEF Serves
      <3>4. PhaseInv'
        BY <3>2 DEF TInv, PhaseInv, Running
      <3> QED BY <3>3, <3>4
    <2>5. CASE Expire \/ Prune \/ ServerRestart \/ UNCHANGED vars \/ \E d \in Dirs : Touch(d)
      <3>1. UNCHANGED <<log, tailer, mark, turns, slack, foreign, exp, pending, req, late, taken>>
        BY <2>5 DEF Expire, Prune, ServerRestart, vars, Touch
      <3>2. Serves
        BY <3>1 DEF Serves
      <3>3. PhaseInv'
        BY <3>1 DEF TInv, PhaseInv, Running
      <3> QED BY <3>2, <3>3
    <2> QED BY <2>1, <2>2, <2>3, <2>4, <2>5 DEF Server
  <1> QED BY <1>1, ServeTypes, ServeInv DEF TInv

LEMMA WriteStep ==
  ASSUME TelemetryAssumption, TInv, Write
  PROVE  TInv'
  <1>1. TelemetryTypes' /\ PhaseInv' /\ FilesInv' /\ HeldInv' /\ SentInv' /\ SkipInv'
    BY WriteTypes, WritePhase, WriteFiles, WriteHeld, WriteSkip
  <1>2. FreshInv'
    BY WriteForms, AppendFresh, BeginFresh
  <1> QED BY <1>1, <1>2 DEF TInv

-----------------------------------------------------------------------------
(***************************************************************************)
(* The daemon's start and death                                            *)
(***************************************************************************)

LEMMA BootStep ==
  ASSUME TelemetryAssumption, TInv, Boot
  PROVE  TInv'
  <1>1. /\ exp = "down" /\ exp' = "boot" /\ handle = NoFile /\ opened = NoFile
        /\ UNCHANGED <<written, backup, tailer, pending, req, late, mark, turns, slack,
                       foreign, taken>>
        /\ NoFile \notin Inodes /\ FileLines \in Nat /\ FileLines > 0
    BY DEF Boot, TInv, PhaseInv, TelemetryAssumption
  <1>2. CASE path # NoFile /\ handle' = path /\ UNCHANGED <<path, content>>
    <2>1. TelemetryTypes'
      BY <1>1, <1>2 DEF TInv, TelemetryTypes, Phase
    <2>2. FilesInv'
      BY <1>1, <1>2 DEF TInv, FilesInv
    <2>3. PhaseInv'
      BY <1>1, <1>2 DEF TInv, PhaseInv, Running
    <2>4. HeldInv' /\ SentInv' /\ FreshInv' /\ SkipInv'
      BY <1>1 DEF TInv, HeldInv, SentInv, FreshInv, SkipInv, Running, Sent, Caught
    <2> QED BY <2>1, <2>2, <2>3, <2>4 DEF TInv
  <1>3. ASSUME path = NoFile, NEW f \in Inodes \ {backup}, handle' = f, path' = f,
               content' = [content EXCEPT ![f] = <<>>]
        PROVE  TInv'
    <2>0. <<>> \in Seq(Nat) /\ Len(<<>>) = 0 /\ DOMAIN <<>> = {}
      BY EmptySeq, NatSeqs
    <2>1. /\ content' \in [Inodes -> Seq(Nat)] /\ content'[f] = <<>>
          /\ \A g \in Inodes \ {f} : content'[g] = content[g]
      BY <1>3, <2>0 DEF TInv, TelemetryTypes
    <2>2. TelemetryTypes'
      BY <1>1, <1>3, <2>1 DEF TInv, TelemetryTypes, Phase, Files
    <2>3. FilesInv'
      <3>1. /\ backup \in Inodes /\ Len(content[backup]) >= FileLines
            /\ \A k \in DOMAIN content[backup] :
                 content[backup][k] = written - Len(content[backup]) + k
        BY <1>3 DEF TInv, FilesInv, TelemetryTypes, Files
      <3>2. content'[backup] = content[backup] /\ backup # f /\ f # NoFile
        BY <1>1, <1>3, <2>1, <3>1
      <3>3. \A g \in Inodes : \A k \in DOMAIN content'[g] :
              content'[g][k] = content'[g][1] + k - 1 /\ content'[g][k] <= written
        <4>1. \A g \in Inodes \ {f} : \A k \in DOMAIN content[g] :
                content[g][k] = content[g][1] + k - 1 /\ content[g][k] <= written
          BY DEF TInv, FilesInv
        <4>2. DOMAIN content'[f] = {}
          BY <2>0, <2>1
        <4>3. \A g \in Inodes \ {f} : \A k \in DOMAIN content'[g] :
                content'[g][k] = content'[g][1] + k - 1 /\ content'[g][k] <= written
          BY <2>1, <4>1
        <4> QED BY <4>2, <4>3
      <3>4. Len(content'[f]) = 0 /\ DOMAIN content'[f] = {}
        BY <2>0, <2>1
      <3>5. \A k \in DOMAIN content'[backup] :
              content'[backup][k] = written - 0 - Len(content'[backup]) + k
        <4>1. written \in Nat /\ content[backup] \in Seq(Nat)
          BY <3>1 DEF TInv, TelemetryTypes
        <4>2. Len(content[backup]) \in Nat /\ DOMAIN content[backup] \subseteq Nat
          BY <4>1, NatSeqs
        <4> QED BY <3>1, <3>2, <4>1, <4>2
      <3> QED BY <1>1, <1>3, <3>1, <3>2, <3>3, <3>4, <3>5 DEF FilesInv
    <2>4. PhaseInv'
      BY <1>1, <1>3 DEF TInv, PhaseInv, Running
    <2>5. HeldInv' /\ SentInv' /\ FreshInv' /\ SkipInv'
      BY <1>1 DEF TInv, HeldInv, SentInv, FreshInv, SkipInv, Running, Sent, Caught
    <2> QED BY <2>2, <2>3, <2>4, <2>5 DEF TInv
  <1> QED BY <1>2, <1>3 DEF Boot

LEMMA DieStep ==
  ASSUME TelemetryAssumption, TInv, Die
  PROVE  TInv'
  <1>1. /\ exp' = "down" /\ handle' = NoFile /\ offset' = 0 /\ last' = NoFile
        /\ opened' = NoFile /\ lines' = <<>> /\ pending' = <<>> /\ req'.logs = <<>>
        /\ UNCHANGED <<written, content, path, backup, mark, turns, slack, foreign, taken>>
        /\ late' \subseteq late \cup {req}
    BY DEF Die, Abandon, NoPush
  <1>2. <<>> \in Seq(Nat) /\ ToSet(<<>>) = {}
    BY EmptySeq, ToSetEmpty
  <1>3. TelemetryTypes'
    BY <1>1, <1>2 DEF TInv, TelemetryTypes, Phase, Files
  <1>4. PhaseInv'
    BY <1>1 DEF PhaseInv, Running
  <1>5. FilesInv'
    BY <1>1 DEF TInv, FilesInv
  <1>6. HeldInv'
    <2>1. Sent' \subseteq Sent
      BY <1>1, <1>2 DEF Sent
    <2> QED BY <1>1, <1>2, <2>1 DEF TInv, HeldInv, Running
  <1>7. SentInv' /\ FreshInv' /\ SkipInv'
    BY <1>1 DEF SentInv, FreshInv, SkipInv, Running, Caught
  <1> QED BY <1>3, <1>4, <1>5, <1>6, <1>7 DEF TInv

\* The tailer starts behind the last line of the log.
LEMMA StartExporterStep ==
  ASSUME TelemetryAssumption, TInv, StartExporter
  PROVE  TInv'
  <1>1. /\ exp = "boot" /\ exp' = "idle" /\ last' = path
        /\ offset' = IF path = NoFile THEN 0 ELSE Len(content[path])
        /\ mark' = written /\ turns' = 0 /\ slack' = {} /\ foreign' = "no"
        /\ UNCHANGED <<log, opened, lines, pending, req, late, taken>>
    BY DEF StartExporter
  <1>2. lines = <<>> /\ pending = <<>> /\ opened = NoFile /\ written \in Nat
    BY <1>1 DEF TInv, PhaseInv, Running, TelemetryTypes
  <1>3. path # NoFile =>
          /\ path \in Inodes /\ Len(content[path]) \in Nat
          /\ DOMAIN content[path] = 1..Len(content[path])
    BY NatSeqs DEF TInv, TelemetryTypes, Files
  <1>4. TelemetryTypes'
    <2>1. offset' \in Nat /\ mark' \in Nat /\ last' \in Files /\ exp' \in Phase
      BY <1>1, <1>2, <1>3 DEF TInv, TelemetryTypes, Phase
    <2> QED BY <1>1, <2>1 DEF TInv, TelemetryTypes
  <1>5. PhaseInv'
    BY <1>1, <1>2 DEF TInv, PhaseInv, Running
  <1>6. FilesInv'
    BY <1>1 DEF TInv, FilesInv
  <1>7. HeldInv' /\ SentInv'
    <2>1. ToSet(lines) = {} /\ ToSet(pending) = {} /\ Sent' = Sent
      BY <1>1, <1>2, ToSetEmpty DEF Sent
    <2>2. DOMAIN lines = {} /\ DOMAIN pending = {}
      BY <1>2, EmptySeq, NatSeqs
    <2> QED BY <1>1, <1>2, <2>1, <2>2 DEF TInv, HeldInv, SentInv, Increasing
  <1>8. FreshInv'
    <2>1. \A k \in DOMAIN content[path] : path # NoFile => ~(k > Len(content[path]))
      BY <1>3
    <2> QED BY <1>1, <1>2, <1>3, <2>1 DEF FreshInv
  <1>9. SkipInv'
    <2>1. DOMAIN lines = {}
      BY <1>2, EmptySeq, NatSeqs
    <2>2. path # NoFile => AtPos(last)'
      BY <1>1, <1>2, <1>3 DEF AtPos, Pos, Start
    <2> QED BY <1>1, <1>2, <2>1, <2>2 DEF SkipInv
  <1> QED BY <1>4, <1>5, <1>6, <1>7, <1>8, <1>9 DEF TInv

-----------------------------------------------------------------------------
(***************************************************************************)
(* The tailer                                                              *)
(***************************************************************************)

LEMMA OpenNothingStep ==
  ASSUME TInv, OpenNothing
  PROVE  TInv'
  <1>1. /\ exp = "idle" /\ exp' = "push"
        /\ UNCHANGED <<log, tailer, pending, req, late, mark, turns, slack, foreign, taken>>
    BY DEF OpenNothing
  <1>2. TelemetryTypes'
    BY <1>1 DEF TInv, TelemetryTypes, Phase
  <1>3. PhaseInv'
    BY <1>1 DEF TInv, PhaseInv, Running
  <1>4. FilesInv' /\ HeldInv' /\ SentInv'
    BY <1>1 DEF TInv, FilesInv, HeldInv, SentInv, Running, Sent, NeverMisread
  <1>5. FreshInv'
    BY <1>1 DEF TInv, FreshInv, Running, Seen, NeverMisread
  <1>6. SkipInv'
    <2>1. Caught' = Caught /\ AtPos(last)' = AtPos(last) /\ NeverMisread' = NeverMisread
      BY <1>1 DEF Caught, AtPos, Pos, Start, Running, NeverMisread
    <2> QED BY <1>1, <2>1 DEF TInv, SkipInv, Running
  <1> QED BY <1>2, <1>3, <1>4, <1>5, <1>6 DEF TInv

LEMMA OpenStep ==
  ASSUME TelemetryAssumption, TInv, Open
  PROVE  TInv'
  <1> DEFINE n == Len(content[path])
  <1>1. /\ exp = "idle" /\ path # NoFile /\ opened' = path /\ turns' = 0
        /\ slack' = IF turns = 2 THEN slack \cup {"now"} ELSE slack
        /\ UNCHANGED <<log, offset, last, lines, pending, req, late, mark, foreign, taken>>
        /\ \/ exp' = "drain" /\ (last # path \/ n < offset)
           \/ exp' = "read" /\ last = path /\ ~(n < offset)
    BY DEF Open, TInv, PhaseInv, Running
  <1>2. /\ Running /\ Running' /\ NeverMisread' = NeverMisread /\ Seen' = Seen /\ Pos' = Pos
        /\ lines = <<>> /\ last # NoFile /\ "next" \notin slack /\ DOMAIN lines = {}
    <2>1. Running /\ DOMAIN <<>> = {}
      BY <1>1, EmptySeq, NatSeqs DEF Running
    <2> QED BY <1>1, <2>1 DEF TInv, PhaseInv, SkipInv, Running, NeverMisread, Seen, Pos
  <1>3. /\ path \in Inodes /\ last \in Inodes /\ n \in Nat /\ offset \in Nat
        /\ DOMAIN content[path] = 1..n /\ Len(content[last]) \in Nat
        /\ \A k \in 1..n : content[path][k] = written - n + k
        /\ written \in Nat /\ mark \in Nat
    <2>1. path \in Inodes /\ last \in Inodes
      BY <1>1, <1>2 DEF TInv, TelemetryTypes, Files
    <2>2. content[path] \in Seq(Nat) /\ content[last] \in Seq(Nat)
      BY <2>1 DEF TInv, TelemetryTypes
    <2> QED BY <1>1, <2>1, <2>2, NatSeqs DEF TInv, TelemetryTypes, FilesInv
  <1>4. TelemetryTypes'
    BY <1>1 DEF TInv, TelemetryTypes, Phase
  <1>5. PhaseInv'
    <2>1. Len(<<>>) = 0 /\ PushLines \in Nat /\ PushLines > 0
      BY EmptySeq DEF TelemetryAssumption
    <2> QED BY <1>1, <1>2, <2>1 DEF TInv, PhaseInv, Running
  <1>6. FilesInv' /\ HeldInv' /\ SentInv'
    BY <1>1, <1>2 DEF TInv, FilesInv, HeldInv, SentInv, Sent
  <1>7. FreshInv'
    <2> SUFFICES ASSUME NeverMisread
                 PROVE  FreshInv'
      BY <1>2 DEF FreshInv
    <2>1. /\ \A k \in DOMAIN content[last], l \in Seen :
               k > offset \/ foreign = "there" => content[last][k] > l
          /\ foreign = "no" => offset <= Len(content[last])
          /\ path # last => \A l \in Seen : l <= written - n
          /\ path # last /\ foreign = "no" =>
               \A k \in DOMAIN content[last] : content[last][k] <= written - n
      BY <1>1, <1>2 DEF TInv, FreshInv
    <2>2. exp' = "read" => offset <= Len(content[last])
      BY <1>1, <1>3
    <2>3. ASSUME exp' = "drain"
          PROVE  /\ \A k \in DOMAIN content[path] : content[path][k] > mark
                 /\ foreign = "no" =>
                      /\ path # last
                      /\ \A j \in DOMAIN content[last], k \in DOMAIN content[path] :
                           content[last][j] < content[path][k]
      <3>1. CASE path # last
        <4>1. mark <= written - n
          BY <2>1, <3>1 DEF Seen
        <4>2. \A k \in 1..n : written - n + k > mark
          <5>1. n \in Nat /\ written \in Nat /\ mark \in Nat
            BY <1>3
          <5> HIDE DEF n
          <5> QED BY <4>1, <5>1
        <4>3. foreign = "no" =>
                \A j \in DOMAIN content[last], k \in 1..n : content[last][j] < written - n + k
          <5> HIDE DEF n
          <5>1. foreign = "no" => \A j \in DOMAIN content[last] :
                  content[last][j] \in Nat /\ content[last][j] <= written - n
            <6>1. content[last] \in Seq(Nat)
              BY <1>3 DEF TInv, TelemetryTypes
            <6> QED BY <2>1, <3>1, <6>1, NatSeqs
          <5>2. n \in Nat /\ written \in Nat
            BY <1>3 DEF n
          <5>3. \A x \in Nat, k \in 1..n : x <= written - n => x < written - n + k
            BY <5>2
          <5> QED BY <5>1, <5>3
        <4> HIDE DEF n
        <4> QED BY <1>3, <3>1, <4>2, <4>3
      <3>2. CASE path = last
        <4>1. n < offset /\ Len(content[last]) = n
          BY <1>1, <2>3, <3>2
        <4>2. foreign # "no"
          BY <1>3, <2>1, <4>1
        <4>3. foreign = "there"
          BY <4>2 DEF TInv, TelemetryTypes, NeverMisread
        <4> QED BY <2>1, <3>2, <4>2, <4>3 DEF Seen
      <3> QED BY <3>1, <3>2
    <2> QED BY <1>1, <1>2, <2>1, <2>2, <2>3 DEF FreshInv
  <1>8. SkipInv'
    <2>1. Caught' => turns <= 1 /\ Caught /\ last \in {path, backup} /\ AtPos(last)
      <3>1. turns \in 0..2
        BY DEF TInv, TelemetryTypes
      <3>2. Caught' => turns # 2 /\ Caught
        BY <1>1, <1>2 DEF Caught
      <3> QED BY <1>1, <3>1, <3>2 DEF TInv, SkipInv
    <2>2. AtPos(last)' = AtPos(last)
      BY <1>1, <1>2 DEF AtPos, Start
    <2>3. Caught' /\ exp' = "drain" => last = backup /\ last # path
      BY <1>1, <1>3, <2>1 DEF AtPos
    <2>4. ASSUME Caught', exp' = "read"
          PROVE  /\ offset <= n
                 /\ \A k \in 1..n : content[path][k] = Pos + k - offset
                 /\ written = Pos + n - offset
      <3>1. last = path /\ AtPos(path)
        BY <1>1, <2>1, <2>4
      <3>2. offset <= n /\ Pos = written - n + offset
        BY <1>3, <3>1 DEF AtPos, Start
      <3>3. /\ n \in Nat /\ written \in Nat /\ offset \in Nat
            /\ \A k \in 1..n : content[path][k] = written - n + k
        BY <1>3
      <3> HIDE DEF n
      <3>4. \A k \in 1..n : written - n + k = Pos + k - offset
        BY <3>2, <3>3
      <3>5. written = Pos + n - offset
        BY <3>2, <3>3
      <3> QED BY <3>2, <3>3, <3>4, <3>5
    <2> QED BY <1>1, <1>2, <1>3, <2>1, <2>2, <2>3, <2>4 DEF SkipInv
  <1> QED BY <1>4, <1>5, <1>6, <1>7, <1>8 DEF TInv

\* What drainRotated reads, and what it leaves.
LEMMA DrainFacts ==
  ASSUME TelemetryAssumption, TInv, Drain
  PROVE  /\ exp = "drain" /\ Running /\ Running' /\ lines = <<>> /\ "next" \notin slack
         /\ opened \in Inodes /\ opened # NoFile /\ last' = opened /\ offset' = 0
         /\ UNCHANGED <<log, pending, req, late, mark, turns, taken>>
         /\ lines' \in Seq(Nat) /\ offset \in Nat
         /\ \/ lines' = <<>>
            \/ /\ backup = last /\ last \in Inodes /\ last # NoFile
               /\ offset + Len(lines') <= Len(content[last])
               /\ \A k \in 1..Len(lines') : lines'[k] = content[last][offset + k]
         /\ NeverMisread' => NeverMisread /\ foreign' = "no" /\ (foreign = "no" \/ lines' = <<>>)
         /\ "now" \notin slack' => "now" \notin slack
         /\ "next" \notin slack' /\ ("now" \notin slack' \/ lines' # <<>>)
              /\ backup = last /\ last \in Inodes /\ offset <= Len(content[last])
              => Len(lines') = Len(content[last]) - offset
         /\ \/ exp' = "push" /\ opened' = NoFile
            \/ exp' = "read" /\ opened' = opened /\ Len(lines') < PushLines /\ "next" \notin slack'
         /\ "next" \in slack' => lines' # <<>>
         /\ foreign' \in {"no", "there", "read"}
  <1> DEFINE there == backup # NoFile /\ backup = last /\ Len(content[backup]) >= offset
             rest == IF there THEN From(backup, offset) ELSE <<>>
  <1>1. /\ exp = "drain" /\ Running /\ Running' /\ lines = <<>> /\ "next" \notin slack
        /\ opened \in Inodes /\ opened # NoFile /\ last' = opened /\ offset' = 0
        /\ UNCHANGED <<log, pending, req, late, mark, turns, taken>> /\ offset \in Nat
    BY DEF Drain, TInv, PhaseInv, SkipInv, TelemetryTypes, Files, Running
  <1>2. PushLines \in Nat /\ PushLines > 0 /\ NoFile \notin Inodes
    BY DEF TelemetryAssumption
  <1>3. there => last \in Inodes /\ content[last] \in Seq(Nat) /\ Len(content[last]) \in Nat
    <2>1. there => last \in Inodes /\ content[last] \in Seq(Nat)
      BY DEF TInv, TelemetryTypes, Files
    <2> QED BY <2>1, NatSeqs
  <1>4. <<>> \in Seq(Nat) /\ Len(<<>>) = 0
    BY EmptySeq
  <1>5. rest \in Seq(Nat) /\ Len(rest) \in Nat
        /\ (there => /\ Len(rest) = Len(content[last]) - offset
                     /\ \A k \in 1..Len(rest) : rest[k] = content[last][offset + k])
        /\ (~there => rest = <<>>)
    <2>1. CASE there
      <3>1. /\ From(last, offset) \in Seq(Nat)
            /\ Len(From(last, offset)) = IF offset <= Len(content[last])
                                         THEN Len(content[last]) - offset ELSE 0
            /\ \A k \in 1..Len(From(last, offset)) :
                 From(last, offset)[k] = content[last][offset + k]
        BY <1>1, <1>3, <2>1, FromSeq
      <3>2. rest = From(last, offset) /\ offset <= Len(content[last])
        BY <1>1, <1>3, <2>1
      <3> HIDE DEF there, rest
      <3> QED BY <1>1, <1>3, <2>1, <3>1, <3>2
    <2>2. CASE ~there
      BY <1>4, <2>2
    <2> QED BY <2>1, <2>2
  <1>6. /\ \/ /\ lines' = Oldest(rest, PushLines)
              /\ slack' = IF Len(rest) > PushLines THEN slack \cup {"next"} ELSE slack
           \/ lines' = <<>> /\ slack' = slack \cup {"now"}
        /\ foreign' = IF foreign = "read" \/ (foreign = "there" /\ lines' # <<>>)
                      THEN "read" ELSE "no"
        /\ \/ Len(lines') >= PushLines /\ exp' = "push" /\ opened' = NoFile
           \/ ~(Len(lines') >= PushLines) /\ exp' = "read" /\ opened' = opened
    BY DEF Drain
  <1>7. there <=> backup # NoFile /\ backup = last /\ offset <= Len(content[last])
    BY <1>1, <1>3
  <1> HIDE DEF there, rest
  <1>8. /\ Oldest(rest, PushLines) \in Seq(Nat)
        /\ Len(Oldest(rest, PushLines)) = IF Len(rest) <= PushLines THEN Len(rest) ELSE PushLines
        /\ \A k \in 1..Len(Oldest(rest, PushLines)) : Oldest(rest, PushLines)[k] = rest[k]
    BY <1>2, <1>5, OldestSeq
  <1>9. /\ lines' \in Seq(Nat) /\ Len(lines') \in Nat /\ Len(lines') <= Len(rest)
        /\ \A k \in 1..Len(lines') : lines'[k] = rest[k]
        /\ (lines' = <<>> <=> Len(lines') = 0)
    <2>1. lines' \in Seq(Nat)
      BY <1>4, <1>6, <1>8
    <2>2. Len(lines') \in Nat /\ (lines' = <<>> <=> Len(lines') = 0)
      BY <2>1, NatSeqs
    <2>3. Len(lines') <= Len(rest) /\ \A k \in 1..Len(lines') : lines'[k] = rest[k]
      <3>1. CASE lines' = Oldest(rest, PushLines)
        <4>1. Len(Oldest(rest, PushLines)) <= Len(rest)
          BY <1>2, <1>5, <1>8
        <4> QED BY <1>8, <3>1, <4>1
      <3>2. CASE lines' = <<>>
        <4>1. Len(lines') = 0
          BY <1>4, <3>2
        <4> QED BY <1>5, <4>1
      <3> QED BY <1>6, <3>1, <3>2
    <2> QED BY <2>1, <2>2, <2>3
  <1>10. /\ "next" \in slack' => lines' # <<>> /\ Len(lines') >= PushLines
         /\ "next" \notin slack' /\ ("now" \notin slack' \/ lines' # <<>>) => Len(lines') = Len(rest)
         /\ "now" \notin slack' => "now" \notin slack
    <2>1. CASE /\ lines' = Oldest(rest, PushLines)
               /\ slack' = IF Len(rest) > PushLines THEN slack \cup {"next"} ELSE slack
      <3>1. CASE Len(rest) > PushLines
        <4>1. Len(lines') = PushLines /\ slack' = slack \cup {"next"}
          BY <1>2, <1>5, <1>8, <2>1, <3>1
        <4> QED BY <1>2, <1>9, <4>1
      <3>2. CASE ~(Len(rest) > PushLines)
        <4>1. Len(lines') = Len(rest) /\ slack' = slack
          BY <1>2, <1>5, <1>8, <2>1, <3>2
        <4> QED BY <1>1, <4>1
      <3> QED BY <3>1, <3>2
    <2>2. CASE lines' = <<>> /\ slack' = slack \cup {"now"}
      BY <1>1, <2>2
    <2> QED BY <1>6, <2>1, <2>2
  <1>11. \/ lines' = <<>>
         \/ /\ backup = last /\ last \in Inodes /\ last # NoFile
            /\ offset + Len(lines') <= Len(content[last])
            /\ \A k \in 1..Len(lines') : lines'[k] = content[last][offset + k]
    <2>1. CASE ~there
      <3>1. Len(lines') = 0
        BY <1>4, <1>5, <1>9, <2>1
      <3> QED BY <1>9, <3>1
    <2>2. CASE there
      <3>1. offset + Len(lines') <= Len(content[last])
        BY <1>1, <1>3, <1>5, <1>9, <2>2
      <3>2. \A k \in 1..Len(lines') : lines'[k] = content[last][offset + k]
        BY <1>5, <1>9, <2>2
      <3> QED BY <1>2, <1>3, <1>7, <2>2, <3>1, <3>2
    <2> QED BY <2>1, <2>2
  <1>12. "next" \notin slack' /\ ("now" \notin slack' \/ lines' # <<>>)
              /\ backup = last /\ last \in Inodes /\ offset <= Len(content[last])
              => Len(lines') = Len(content[last]) - offset
    BY <1>2, <1>5, <1>7, <1>10
  <1>13. /\ NeverMisread' => NeverMisread /\ foreign' = "no" /\ (foreign = "no" \/ lines' = <<>>)
         /\ foreign' \in {"no", "there", "read"}
    BY <1>6 DEF NeverMisread, TInv, TelemetryTypes
  <1>14. \/ exp' = "push" /\ opened' = NoFile
         \/ exp' = "read" /\ opened' = opened /\ Len(lines') < PushLines /\ "next" \notin slack'
    BY <1>2, <1>6, <1>9, <1>10
  <1> QED BY <1>1, <1>9, <1>10, <1>11, <1>12, <1>13, <1>14

\* Where the tailer stands after drainRotated: at the beginning of the file it opened,
\* and every line before that is read.
LEMMA DrainCaught ==
  ASSUME TelemetryAssumption, TInv, Drain, Caught'
  PROVE  opened = path /\ Pos' = written - Len(content[path])
  <1>1. /\ exp = "drain" /\ Running /\ lines = <<>> /\ opened # NoFile /\ mark' = mark
        /\ NeverMisread /\ (foreign = "no" \/ lines' = <<>>)
        /\ "next" \notin slack /\ "next" \notin slack' /\ ("now" \notin slack' \/ lines' # <<>>)
        /\ lines' \in Seq(Nat) /\ offset \in Nat /\ mark \in Nat /\ written \in Nat
    BY DrainFacts DEF Caught, TInv, TelemetryTypes
  <1>2. Len(lines') \in Nat /\ (lines' = <<>> <=> Len(lines') = 0)
    BY <1>1, NatSeqs
  <1>3. Pos' = IF lines' = <<>> THEN mark ELSE lines'[Len(lines')]
    BY <1>1 DEF Pos
  <1>4. CASE lines' # <<>>
    <2>1. /\ foreign = "no" /\ backup = last /\ last \in Inodes /\ last # NoFile
          /\ offset + Len(lines') <= Len(content[last])
          /\ \A k \in 1..Len(lines') : lines'[k] = content[last][offset + k]
      BY <1>1, <1>4, DrainFacts
    <2>2. path = opened /\ path \in Inodes
      BY <1>1, <2>1 DEF TInv, SkipInv, TelemetryTypes, Files
    <2>3. content[last] \in Seq(Nat) /\ content[path] \in Seq(Nat)
      BY <2>1, <2>2 DEF TInv, TelemetryTypes
    <2>4. /\ Len(content[last]) \in Nat /\ Len(content[path]) \in Nat
          /\ DOMAIN content[last] = 1..Len(content[last])
      BY <2>3, NatSeqs
    <2>5. Len(lines') = Len(content[last]) - offset
      <3>1. offset <= Len(content[last])
        BY <1>1, <1>2, <2>1, <2>4
      <3> QED BY <1>1, <2>1, <3>1, DrainFacts
    <2>6. lines'[Len(lines')] = content[last][Len(content[last])]
      <3>1. Len(lines') \in 1..Len(lines') /\ offset + Len(lines') = Len(content[last])
        BY <1>1, <1>2, <1>4, <2>4, <2>5
      <3> QED BY <2>1, <3>1
    <2>7. Len(content[last]) \in 1..Len(content[last])
      BY <1>1, <1>2, <1>4, <2>4, <2>5
    <2>8. content[last][Len(content[last])]
            = written - Len(content[path]) - Len(content[last]) + Len(content[last])
      BY <1>1, <2>1, <2>2, <2>4, <2>7 DEF TInv, FilesInv
    <2>9. written - Len(content[path]) - Len(content[last]) + Len(content[last])
            = written - Len(content[path])
      <3> DEFINE b == Len(content[last])
                 c == Len(content[path])
      <3>1. b \in Nat /\ c \in Nat /\ written \in Nat
        BY <1>1, <2>4
      <3> HIDE DEF b, c
      <3>2. written - c - b + b = written - c
        BY <3>1
      <3> QED BY <3>2 DEF b, c
    <2> QED BY <1>3, <1>4, <2>2, <2>6, <2>8, <2>9
  <1>5. CASE lines' = <<>>
    <2>1. Caught
      BY <1>1, <1>5, DrainFacts DEF Caught
    <2>2. opened = path /\ last = backup /\ last \notin {NoFile, path} /\ AtPos(last)
      BY <1>1, <2>1 DEF TInv, SkipInv
    <2>3. last \in Inodes /\ path \in Inodes
      BY <1>1, <2>2 DEF TInv, TelemetryTypes, Files
    <2>4. Len(content[last]) \in Nat /\ Len(content[path]) \in Nat
      <3>1. content[last] \in Seq(Nat) /\ content[path] \in Seq(Nat)
        BY <2>3 DEF TInv, TelemetryTypes
      <3> QED BY <3>1, NatSeqs
    <2>5. /\ offset <= Len(content[last])
          /\ mark = written - Len(content[path]) - Len(content[last]) + offset
      BY <1>1, <2>2 DEF AtPos, Pos, Start
    <2>6. Len(lines') = Len(content[last]) - offset
      BY <1>1, <1>5, <2>2, <2>3, <2>5, DrainFacts
    <2>7. Len(content[last]) = offset
      BY <1>1, <1>2, <1>5, <2>4, <2>6
    <2>8. mark = written - Len(content[path])
      BY <1>1, <2>4, <2>5, <2>7
    <2> QED BY <1>3, <1>5, <2>2, <2>8
  <1> QED BY <1>4, <1>5

LEMMA DrainHeld ==
  ASSUME TelemetryAssumption, TInv, Drain
  PROVE  HeldInv' /\ SentInv'
  <1>1. /\ Running /\ UNCHANGED <<log, pending, req, late, mark, taken>> /\ Sent' = Sent
        /\ lines' \in Seq(Nat) /\ offset \in Nat /\ (NeverMisread' => NeverMisread)
    BY DrainFacts DEF Sent
  <1>2. Len(lines') \in Nat /\ DOMAIN lines' = 1..Len(lines')
    BY <1>1, NatSeqs
  <1>3. CASE lines' = <<>>
    <2>1. ToSet(lines') = {} /\ DOMAIN lines' = {}
      BY <1>3, ToSetEmpty, EmptySeq, NatSeqs
    <2> QED BY <1>1, <2>1 DEF TInv, HeldInv, SentInv, Increasing
  <1>4. CASE lines' # <<>>
    <2>1. /\ last \in Inodes /\ last # NoFile
          /\ offset + Len(lines') <= Len(content[last])
          /\ \A k \in 1..Len(lines') : lines'[k] = content[last][offset + k]
          /\ (NeverMisread' => foreign = "no")
      BY <1>4, DrainFacts
    <2>2. /\ Len(content[last]) \in Nat /\ DOMAIN content[last] = 1..Len(content[last])
          /\ content[last] \in Seq(Nat)
      <3>1. content[last] \in Seq(Nat)
        BY <2>1 DEF TInv, TelemetryTypes
      <3> QED BY <3>1, NatSeqs
    <2>3. \A k \in 1..Len(lines') : offset + k \in 1..Len(content[last]) /\ offset + k > offset
      <3> DEFINE a == Len(lines')
                 b == Len(content[last])
      <3>1. a \in Nat /\ b \in Nat /\ offset \in Nat /\ offset + a <= b
        BY <1>1, <1>2, <2>1, <2>2
      <3> HIDE DEF a, b
      <3>2. \A k \in 1..a : offset + k \in 1..b /\ offset + k > offset
        BY <3>1
      <3> QED BY <3>2 DEF a, b
    <2>4. \A k \in 1..Len(lines') : lines'[k] <= written
      BY <2>1, <2>2, <2>3 DEF TInv, FilesInv
    <2>5. NeverMisread' => \A k \in 1..Len(lines') : lines'[k] > mark
      BY <1>1, <2>1, <2>2, <2>3 DEF TInv, FreshInv, Seen
    <2>6. Increasing(lines')
      <3>1. \A k \in 1..Len(lines') : lines'[k] = content[last][1] + (offset + k) - 1
        BY <2>1, <2>2, <2>3 DEF TInv, FilesInv
      <3>2. content[last][1] \in Nat \/ Len(lines') = 0
        <4>1. Len(lines') # 0 => 1 \in 1..Len(content[last])
          BY <1>1, <1>2, <2>1, <2>2
        <4> QED BY <2>2, <4>1, NatSeqs
      <3>3. \A j, k \in 1..Len(lines') : j < k => lines'[j] < lines'[k]
        <4> DEFINE c == content[last][1]
        <4> HIDE DEF c
        <4>1. \A j, k \in 1..Len(lines') :
                c \in Nat /\ j < k => c + (offset + j) - 1 < c + (offset + k) - 1
          BY <1>1, <1>2
        <4>2. Len(lines') = 0 => 1..Len(lines') = {}
          OBVIOUS
        <4>3. \A j, k \in 1..Len(lines') : c \in Nat
          BY <3>2, <4>2 DEF c
        <4>4. \A k \in 1..Len(lines') : lines'[k] = c + (offset + k) - 1
          BY <3>1 DEF c
        <4> QED BY <4>1, <4>3, <4>4
      <3> QED BY <1>2, <3>3 DEF Increasing
    <2>7. \A l \in ToSet(lines') : \E k \in 1..Len(lines') : l = lines'[k]
      BY <1>2 DEF ToSet
    <2>8. HeldInv'
      BY <1>1, <2>4, <2>5, <2>6, <2>7 DEF TInv, HeldInv
    <2> QED BY <1>1, <2>8 DEF TInv, SentInv
  <1> QED BY <1>3, <1>4

LEMMA DrainFresh ==
  ASSUME TelemetryAssumption, TInv, Drain
  PROVE  FreshInv'
  <1> SUFFICES ASSUME NeverMisread'
               PROVE  FreshInv'
    BY DEF FreshInv
  <1>1. /\ exp = "drain" /\ Running /\ NeverMisread /\ opened \in Inodes /\ opened # NoFile
        /\ last' = opened /\ offset' = 0 /\ foreign' = "no" /\ (foreign = "no" \/ lines' = <<>>)
        /\ mark' = mark /\ exp' \in {"push", "read"} /\ opened' \in {NoFile, opened}
        /\ UNCHANGED log /\ lines' \in Seq(Nat) /\ offset \in Nat
    BY DrainFacts
  <1>2. Len(lines') \in Nat /\ DOMAIN lines' = 1..Len(lines')
    BY <1>1, NatSeqs
  <1>3. ASSUME NEW l \in Seen', l # mark
        PROVE  foreign = "no" /\ last # NoFile /\ \E j \in DOMAIN content[last] : l = content[last][j]
    <2>1. PICK k \in 1..Len(lines') : l = lines'[k]
      BY <1>1, <1>2, <1>3 DEF Seen, ToSet
    <2>2. lines' # <<>>
      BY <1>1, <1>2, <2>1, NatSeqs
    <2>3. /\ last \in Inodes /\ last # NoFile
          /\ offset + Len(lines') <= Len(content[last])
          /\ lines'[k] = content[last][offset + k]
      BY <2>2, DrainFacts
    <2>4. Len(content[last]) \in Nat /\ DOMAIN content[last] = 1..Len(content[last])
      <3>1. content[last] \in Seq(Nat)
        BY <2>3 DEF TInv, TelemetryTypes
      <3> QED BY <3>1, NatSeqs
    <2>5. offset + k \in 1..Len(content[last])
      <3> DEFINE a == Len(lines')
                 b == Len(content[last])
      <3>1. a \in Nat /\ b \in Nat /\ offset \in Nat /\ offset + a <= b /\ k \in 1..a
        BY <1>1, <1>2, <2>3, <2>4
      <3> HIDE DEF a, b
      <3>2. offset + k \in 1..b
        BY <3>1
      <3> QED BY <3>2 DEF b
    <2> QED BY <1>1, <2>1, <2>2, <2>3, <2>4, <2>5
  <1>4. /\ \A k \in DOMAIN content[opened] : content[opened][k] > mark
        /\ foreign = "no" =>
             /\ path # last
             /\ \A j \in DOMAIN content[last], k \in DOMAIN content[opened] :
                  content[last][j] < content[opened][k]
    BY <1>1 DEF TInv, FreshInv
  <1>5. \A k \in DOMAIN content[opened], l \in Seen' : content[opened][k] > l
    <2>1. ASSUME NEW k \in DOMAIN content[opened], NEW l \in Seen', l # mark
          PROVE  content[opened][k] > l
      <3>1. PICK j \in DOMAIN content[last] : l = content[last][j]
        BY <1>3, <2>1
      <3>2. content[last][j] < content[opened][k]
        BY <1>3, <1>4, <2>1
      <3> QED BY <3>1, <3>2
    <2> QED BY <1>4, <2>1
  <1>6. Len(content[opened]) \in Nat
    <2>1. content[opened] \in Seq(Nat)
      BY <1>1 DEF TInv, TelemetryTypes
    <2> QED BY <2>1, NatSeqs
  <1>7. ASSUME path \notin {NoFile, opened}
        PROVE  /\ \A l \in Seen' : l <= written - Len(content[path])
               /\ \A k \in DOMAIN content[opened] :
                    content[opened][k] <= written - Len(content[path])
    <2>1. /\ \A l \in Seen : l <= written - Len(content[path])
          /\ \A k \in DOMAIN content[opened] : content[opened][k] <= written - Len(content[path])
      BY <1>1, <1>7 DEF TInv, FreshInv
    <2>2. mark <= written - Len(content[path])
      BY <2>1 DEF Seen
    <2>3. ASSUME NEW l \in Seen', l # mark
          PROVE  l <= written - Len(content[path])
      <3>1. foreign = "no" /\ last # NoFile /\ path \notin {NoFile, last}
        BY <1>3, <1>4, <1>7, <2>3
      <3>2. \A j \in DOMAIN content[last] : content[last][j] <= written - Len(content[path])
        BY <1>1, <3>1 DEF TInv, FreshInv
      <3> QED BY <1>3, <2>3, <3>2
    <2> QED BY <2>1, <2>2, <2>3
  <1> QED BY <1>1, <1>5, <1>6, <1>7 DEF FreshInv

LEMMA DrainSkip ==
  ASSUME TelemetryAssumption, TInv, Drain
  PROVE  SkipInv'
  <1>1. /\ exp = "drain" /\ Running /\ lines = <<>> /\ opened \in Inodes /\ opened # NoFile
        /\ last' = opened /\ offset' = 0 /\ mark' = mark /\ turns' = turns /\ UNCHANGED log
        /\ \/ exp' = "push" /\ opened' = NoFile
           \/ exp' = "read" /\ opened' = opened /\ "next" \notin slack'
        /\ ("next" \in slack' => lines' # <<>>) /\ "next" \notin slack
        /\ ("now" \notin slack' => "now" \notin slack)
        /\ (NeverMisread' => NeverMisread /\ (foreign = "no" \/ lines' = <<>>))
        /\ lines' \in Seq(Nat) /\ offset \in Nat /\ written \in Nat
    BY DrainFacts DEF TInv, TelemetryTypes
  <1>2. Len(lines') \in Nat /\ DOMAIN lines' = 1..Len(lines')
    BY <1>1, NatSeqs
  <1>3. ASSUME NeverMisread', "now" \notin slack', NEW k \in DOMAIN lines'
        PROVE  lines'[k] = mark + k
    <2>1. lines' # <<>>
      BY <1>1, <1>2, <1>3, NatSeqs
    <2>2. /\ last \in Inodes /\ offset + Len(lines') <= Len(content[last])
          /\ lines'[k] = content[last][offset + k]
      BY <1>2, <1>3, <2>1, DrainFacts
    <2>3. Caught
      BY <1>1, <1>3 DEF Caught
    <2>4. path \in Inodes /\ path = opened /\ last = backup /\ last \notin {NoFile, path} /\ AtPos(last)
      BY <1>1, <2>3 DEF TInv, SkipInv
    <2>5. /\ Len(content[last]) \in Nat /\ DOMAIN content[last] = 1..Len(content[last])
          /\ Len(content[path]) \in Nat
      <3>1. content[last] \in Seq(Nat) /\ content[path] \in Seq(Nat)
        BY <2>2, <2>4 DEF TInv, TelemetryTypes
      <3> QED BY <3>1, NatSeqs
    <2> DEFINE a == Len(lines')
               b == Len(content[last])
               c == Len(content[path])
    <2>6. a \in Nat /\ b \in Nat /\ c \in Nat /\ offset \in Nat /\ offset + a <= b /\ k \in 1..a
          /\ written \in Nat
      BY <1>1, <1>2, <1>3, <2>2, <2>5
    <2>7. offset + k \in 1..b
      <3> HIDE DEF a, b, c
      <3> QED BY <2>6
    <2>8. content[last][offset + k] = written - c - b + (offset + k)
      BY <2>4, <2>5, <2>7 DEF TInv, FilesInv
    <2>9. mark = written - c - b + offset
      BY <1>1, <2>4 DEF AtPos, Start, Pos
    <2>10. written - c - b + (offset + k) = mark + k
      <3> HIDE DEF a, b, c
      <3> QED BY <2>6, <2>9
    <2> QED BY <2>2, <2>8, <2>10
  <1>4. ASSUME path # NoFile
        PROVE  (turns = 0 => opened = path) /\ (turns = 1 => opened \in {path, backup})
    BY <1>1, <1>4 DEF TInv, SkipInv
  <1>5. ASSUME Caught'
        PROVE  /\ opened = path /\ 0 <= Len(content[opened])
               /\ Pos' = written - Len(content[path]) - 0 + 0
               /\ \A k \in DOMAIN content[opened] : content[opened][k] = Pos' + k - 0
               /\ written = Pos' + Len(content[opened]) - 0
    <2>1. opened = path /\ Pos' = written - Len(content[path])
      BY <1>5, DrainCaught
    <2>2. Len(content[path]) \in Nat /\ DOMAIN content[path] \subseteq Nat
      <3>1. content[path] \in Seq(Nat)
        BY <1>1, <2>1 DEF TInv, TelemetryTypes
      <3> QED BY <3>1, NatSeqs
    <2>3. \A k \in DOMAIN content[path] : content[path][k] = written - Len(content[path]) + k
      BY <1>1, <2>1 DEF TInv, FilesInv
    <2> DEFINE c == Len(content[path])
    <2>4. c \in Nat /\ Pos' = written - c /\ written \in Nat
      BY <1>1, <2>1, <2>2
    <2>5. /\ 0 <= c /\ Pos' = written - c - 0 + 0 /\ written = Pos' + c - 0
          /\ \A k \in Nat : written - c + k = Pos' + k - 0
      <3> HIDE DEF c
      <3> QED BY <2>4
    <2> QED BY <2>1, <2>2, <2>3, <2>5
  <1>6. Caught' /\ path # NoFile => AtPos(last)'
    BY <1>1, <1>5 DEF AtPos, Start
  <1> QED BY <1>1, <1>3, <1>4, <1>5, <1>6 DEF SkipInv

LEMMA DrainStep ==
  ASSUME TelemetryAssumption, TInv, Drain
  PROVE  TInv'
  <1>1. /\ exp = "drain" /\ opened \in Inodes /\ opened # NoFile /\ last' = opened /\ offset' = 0
        /\ UNCHANGED <<log, pending, req, late, mark, turns, taken>>
        /\ lines' \in Seq(Nat) /\ foreign' \in {"no", "there", "read"}
        /\ \/ exp' = "push" /\ opened' = NoFile
           \/ exp' = "read" /\ opened' = opened /\ Len(lines') < PushLines
    BY DrainFacts
  <1>2. TelemetryTypes'
    BY <1>1 DEF TInv, TelemetryTypes, Phase, Files
  <1>3. PhaseInv'
    BY <1>1 DEF TInv, PhaseInv, Running
  <1>4. FilesInv'
    BY <1>1 DEF TInv, FilesInv
  <1> QED BY <1>2, <1>3, <1>4, DrainHeld, DrainFresh, DrainSkip DEF TInv

\* What Next reads from the file it opened, m lines from the offset on.
Reads(m) ==
  /\ m \in Nat
  /\ lines' \in Seq(Nat) /\ DOMAIN lines' = 1..Len(lines) + m /\ Len(lines') = Len(lines) + m
  /\ \A k \in 1..Len(lines) : lines'[k] = lines[k]
  /\ \A k \in 1..m : lines'[Len(lines) + k] = content[opened][offset + k]
  /\ \A k \in 1..m : offset + k \in DOMAIN content[opened] /\ offset + k > offset
  /\ offset <= Len(content[opened]) => offset + m <= Len(content[opened])
  /\ offset' = offset + m
  /\ m = 0 => lines' = lines

LEMMA ReadFacts ==
  ASSUME TelemetryAssumption, TInv, Read
  PROVE  /\ exp = "read" /\ exp' = "push" /\ Running /\ Running'
         /\ last = opened /\ last' = opened /\ opened' = NoFile
         /\ opened \in Inodes /\ opened # NoFile /\ "next" \notin slack
         /\ UNCHANGED <<log, pending, req, late, mark, turns, slack, taken>>
         /\ (NeverMisread' <=> NeverMisread) /\ (NeverMisread' => foreign' = "no")
         /\ foreign' \in {"no", "there", "read"}
         /\ lines \in Seq(Nat) /\ Len(lines) \in Nat /\ DOMAIN lines = 1..Len(lines)
         /\ offset \in Nat /\ mark \in Nat /\ written \in Nat
         /\ content[opened] \in Seq(Nat) /\ Len(content[opened]) \in Nat
         /\ DOMAIN content[opened] = 1..Len(content[opened])
         /\ \E m \in Nat : Reads(m)
  <1>1. /\ exp = "read" /\ exp' = "push" /\ Running /\ Running'
        /\ last = opened /\ last' = opened /\ opened' = NoFile
        /\ opened \in Inodes /\ opened # NoFile /\ "next" \notin slack
        /\ UNCHANGED <<log, pending, req, late, mark, turns, slack, taken>>
        /\ lines \in Seq(Nat) /\ Len(lines) < PushLines
        /\ offset \in Nat /\ mark \in Nat /\ written \in Nat
        /\ content[opened] \in Seq(Nat)
    BY DEF Read, TInv, PhaseInv, SkipInv, TelemetryTypes, Files, Running
  <1>2. /\ (NeverMisread' <=> NeverMisread) /\ (NeverMisread' => foreign' = "no")
        /\ foreign' \in {"no", "there", "read"}
    BY DEF Read, NeverMisread, TInv, TelemetryTypes
  <1>3. /\ Len(lines) \in Nat /\ DOMAIN lines = 1..Len(lines) /\ Len(content[opened]) \in Nat
        /\ DOMAIN content[opened] = 1..Len(content[opened])
    BY <1>1, NatSeqs
  <1> DEFINE more == Oldest(From(opened, offset), PushLines - Len(lines))
             m == Len(more)
             n == Len(lines)
             c == Len(content[opened])
  <1>4. lines' = lines \o more /\ offset' = offset + m
    BY DEF Read
  <1>5. /\ From(opened, offset) \in Seq(Nat)
        /\ Len(From(opened, offset)) = IF offset <= c THEN c - offset ELSE 0
        /\ \A k \in 1..Len(From(opened, offset)) : From(opened, offset)[k] = content[opened][offset + k]
    BY <1>1, FromSeq
  <1>6. PushLines - n \in Nat
    BY <1>1, <1>3 DEF TelemetryAssumption
  <1>7. /\ more \in Seq(Nat) /\ m \in Nat /\ m <= Len(From(opened, offset))
        /\ \A k \in 1..m : more[k] = From(opened, offset)[k]
    <2>1. /\ more \in Seq(Nat)
          /\ m = IF Len(From(opened, offset)) <= PushLines - n THEN Len(From(opened, offset))
                 ELSE PushLines - n
          /\ \A k \in 1..m : more[k] = From(opened, offset)[k]
      BY <1>5, <1>6, OldestSeq
    <2>2. Len(From(opened, offset)) \in Nat
      BY <1>5, NatSeqs
    <2> HIDE DEF more, n
    <2> QED BY <1>6, <2>1, <2>2
  <1>8. /\ lines' \in Seq(Nat) /\ Len(lines') = n + m
        /\ \A k \in 1..n : lines'[k] = lines[k]
        /\ \A k \in 1..m : lines'[n + k] = more[k]
    <2> HIDE DEF more
    <2> QED BY <1>1, <1>4, <1>7, ConcatSeq
  <1>9. /\ m <= IF offset <= c THEN c - offset ELSE 0
        /\ m \in Nat /\ c \in Nat /\ offset \in Nat
    BY <1>1, <1>3, <1>5, <1>7
  <1>10. \A k \in 1..m : lines'[n + k] = content[opened][offset + k]
    <2>1. \A k \in 1..m : k \in 1..Len(From(opened, offset))
      <3>1. Len(From(opened, offset)) \in Nat
        BY <1>5, NatSeqs
      <3> HIDE DEF m
      <3> QED BY <1>7, <3>1
    <2> HIDE DEF more
    <2> QED BY <1>5, <1>7, <1>8, <2>1
  <1>11. /\ \A k \in 1..m : offset + k \in 1..c /\ offset + k > offset
         /\ offset <= c => offset + m <= c
    <2> HIDE DEF m, c
    <2> QED BY <1>9
  <1>12. m = 0 => lines' = lines
    <2>1. m = 0 => more = <<>>
      BY <1>7, NatSeqs
    <2>2. lines \o <<>> = lines
      BY <1>1
    <2> HIDE DEF more
    <2> QED BY <1>4, <2>1, <2>2
  <1>13. DOMAIN lines' = 1..n + m
    BY <1>8, NatSeqs
  <1>14. Reads(m)
    <2> HIDE DEF more
    <2> QED BY <1>3, <1>4, <1>8, <1>9, <1>10, <1>11, <1>12, <1>13 DEF Reads
  <1> HIDE DEF m
  <1> QED BY <1>1, <1>2, <1>3, <1>9, <1>14

\* Which line of the log a line is that has been read: one that was read before, or
\* one of the file that is open.
LEMMA ReadLines ==
  ASSUME TelemetryAssumption, TInv, Read, NEW m \in Nat, Reads(m), NEW l \in ToSet(lines')
  PROVE  l \in ToSet(lines) \/ \E k \in 1..m : l = content[opened][offset + k]
  <1>1. Len(lines) \in Nat /\ DOMAIN lines = 1..Len(lines)
    BY ReadFacts
  <1>2. PICK i \in 1..Len(lines) + m : l = lines'[i]
    BY DEF Reads, ToSet
  <1>3. i \in 1..Len(lines) \/ i - Len(lines) \in 1..m
    <2> DEFINE n == Len(lines)
    <2> HIDE DEF n
    <2>1. n \in Nat => (i \in 1..n + m => i \in 1..n \/ i - n \in 1..m)
      OBVIOUS
    <2> QED BY <1>1, <1>2, <2>1 DEF n
  <1>4. CASE i \in 1..Len(lines)
    BY <1>1, <1>2, <1>4 DEF Reads, ToSet
  <1>5. CASE i - Len(lines) \in 1..m
    <2>1. Len(lines) + (i - Len(lines)) = i
      BY <1>1
    <2> QED BY <1>2, <1>5, <2>1 DEF Reads
  <1> QED BY <1>3, <1>4, <1>5

LEMMA ReadHeld ==
  ASSUME TelemetryAssumption, TInv, Read
  PROVE  HeldInv' /\ SentInv'
  <1>1. /\ exp = "read" /\ Running /\ opened \in Inodes /\ opened # NoFile /\ last = opened
        /\ UNCHANGED <<log, pending, req, late, mark, taken>> /\ Sent' = Sent
        /\ (NeverMisread' <=> NeverMisread)
        /\ lines \in Seq(Nat) /\ Len(lines) \in Nat /\ DOMAIN lines = 1..Len(lines)
        /\ offset \in Nat /\ content[opened] \in Seq(Nat)
    BY ReadFacts DEF Sent
  <1>2. PICK m \in Nat : Reads(m)
    BY ReadFacts
  <1> DEFINE n == Len(lines)
  <1>3. ASSUME NEW k \in 1..m
        PROVE  /\ offset + k \in DOMAIN content[opened] /\ lines'[n + k] = content[opened][offset + k]
               /\ content[opened][offset + k] <= written
               /\ content[opened][offset + k] = content[opened][1] + (offset + k) - 1
               /\ NeverMisread => \A l \in Seen : content[opened][offset + k] > l
    <2>1. /\ offset + k \in DOMAIN content[opened] /\ lines'[n + k] = content[opened][offset + k]
          /\ offset + k > offset
      BY <1>2 DEF Reads
    <2> QED BY <1>1, <2>1 DEF TInv, FilesInv, FreshInv
  <1>4. ASSUME NEW l \in ToSet(lines')
        PROVE  l <= written /\ (NeverMisread => l > mark)
    <2>1. l \in ToSet(lines) => l <= written /\ (NeverMisread => l > mark)
      BY <1>1 DEF TInv, HeldInv
    <2>2. \A k \in 1..m : content[opened][offset + k] <= written
                          /\ (NeverMisread => content[opened][offset + k] > mark)
      BY <1>3 DEF Seen
    <2>3. l \in ToSet(lines) \/ \E k \in 1..m : l = content[opened][offset + k]
      BY <1>2, ReadLines
    <2> HIDE DEF n
    <2> QED BY <2>1, <2>2, <2>3
  <1>5. NeverMisread => \A l \in ToSet(lines') : l > mark
    BY <1>4
  <1>6. ASSUME NeverMisread, NEW i \in 1..n + m, NEW j \in 1..n + m, i < j
        PROVE  lines'[i] < lines'[j]
    <2> HIDE DEF n
    <2>0. n \in Nat
      BY <1>1 DEF n
    <2>1. CASE j \in 1..n
      <3>1. i \in 1..n
        BY <2>0, <1>6, <2>1
      <3>2. lines[i] < lines[j]
        BY <1>1, <1>6, <2>1, <3>1 DEF TInv, HeldInv, Increasing, n
      <3> QED BY <1>2, <2>1, <3>1, <3>2 DEF Reads, n
    <2>2. CASE j \notin 1..n
      <3>1. /\ j - n \in 1..m /\ n + (j - n) = j
        BY <2>0, <1>6, <2>2
      <3>2. CASE i \in 1..n
        <4>1. lines[i] \in Seen
          BY <1>1, <3>2 DEF Seen, ToSet, n
        <4>2. lines'[i] = lines[i]
          BY <1>2, <3>2 DEF Reads, n
        <4>3. lines'[j] = content[opened][offset + (j - n)]
          BY <1>3, <3>1
        <4>4. content[opened][offset + (j - n)] > lines[i]
          BY <1>3, <1>6, <3>1, <4>1
        <4>5. content[opened][offset + (j - n)] \in Nat /\ lines[i] \in Nat
          <5>1. offset + (j - n) \in DOMAIN content[opened]
            BY <1>3, <3>1
          <5>2. content[opened][offset + (j - n)] \in Nat
            BY <1>1, <5>1, NatSeqs
          <5>3. lines[i] \in Nat
            BY <1>1, <3>2, NatSeqs DEF n
          <5> QED BY <5>2, <5>3
        <4> QED BY <4>2, <4>3, <4>4, <4>5
      <3>3. CASE i \notin 1..n
        <4>1. i - n \in 1..m /\ n + (i - n) = i
          BY <2>0, <1>6, <3>3
        <4>2. /\ lines'[i] = content[opened][1] + (offset + (i - n)) - 1
              /\ lines'[j] = content[opened][1] + (offset + (j - n)) - 1
          BY <1>3, <3>1, <4>1
        <4>3. content[opened][1] \in Nat
          <5>1. offset + (i - n) \in DOMAIN content[opened]
            BY <1>3, <4>1
          <5>2. DOMAIN content[opened] = 1..Len(content[opened]) /\ Len(content[opened]) \in Nat
            BY <1>1, NatSeqs
          <5>3. 1 \in 1..Len(content[opened])
            BY <5>1, <5>2
          <5> QED BY <1>1, <5>3, NatSeqs
        <4> DEFINE c == content[opened][1]
        <4>4. c \in Nat /\ n \in Nat /\ offset \in Nat /\ i < j /\ i \in Int /\ j \in Int
          BY <1>1, <1>6, <2>0, <4>3
        <4>5. c + (offset + (i - n)) - 1 < c + (offset + (j - n)) - 1
          <5> HIDE DEF c
          <5> QED BY <4>4
        <4> QED BY <4>2, <4>5
      <3> QED BY <3>2, <3>3
    <2> QED BY <2>1, <2>2
  <1>7. NeverMisread => Increasing(lines')
    BY <1>2, <1>6 DEF Increasing, Reads
  <1>8. HeldInv'
    BY <1>1, <1>4, <1>5, <1>7 DEF TInv, HeldInv
  <1> QED BY <1>1, <1>8 DEF TInv, SentInv

LEMMA ReadFresh ==
  ASSUME TelemetryAssumption, TInv, Read
  PROVE  FreshInv'
  <1> SUFFICES ASSUME NeverMisread'
               PROVE  FreshInv'
    BY DEF FreshInv
  <1>1. /\ exp = "read" /\ exp' = "push" /\ Running /\ NeverMisread /\ foreign' = "no"
        /\ opened \in Inodes /\ opened # NoFile /\ last = opened /\ last' = opened
        /\ opened' = NoFile /\ mark' = mark /\ UNCHANGED log
        /\ offset \in Nat /\ content[opened] \in Seq(Nat)
        /\ DOMAIN content[opened] = 1..Len(content[opened]) /\ Len(content[opened]) \in Nat
    BY ReadFacts
  <1>2. PICK m \in Nat : Reads(m)
    BY ReadFacts
  <1>3. offset' = offset + m /\ offset <= Len(content[opened]) /\ offset + m <= Len(content[opened])
    BY <1>1, <1>2 DEF Reads, TInv, FreshInv
  <1>4. ASSUME NEW k \in DOMAIN content[opened], NEW l \in Seen', k > offset + m
        PROVE  content[opened][k] > l
    <2>0. k > offset /\ k \in Nat
      <3>1. k \in Nat /\ offset \in Nat
        BY <1>1
      <3> QED BY <1>4, <3>1
    <2>1. CASE l \in Seen
      BY <1>1, <1>4, <2>0, <2>1 DEF TInv, FreshInv
    <2>2. CASE l \notin Seen
      <3>1. PICK j \in 1..m : l = content[opened][offset + j]
        BY <1>1, <1>2, <2>2, ReadLines DEF Seen
      <3>2. offset + j \in DOMAIN content[opened]
        BY <1>2 DEF Reads
      <3>3. /\ l = content[opened][1] + (offset + j) - 1
            /\ content[opened][k] = content[opened][1] + k - 1
        BY <1>1, <3>1, <3>2 DEF TInv, FilesInv
      <3>4. content[opened][1] \in Nat
        <4>1. 1 \in 1..Len(content[opened])
          BY <1>1, <2>0
        <4> QED BY <1>1, <4>1, NatSeqs
      <3> DEFINE c == content[opened][1]
      <3>5. c + k - 1 > c + (offset + j) - 1
        <4>1. c \in Nat /\ k \in Nat /\ offset \in Nat /\ k > offset + m
          BY <1>1, <1>4, <2>0, <3>4
        <4> HIDE DEF c
        <4> QED BY <4>1
      <3> QED BY <3>3, <3>5
    <2> QED BY <2>1, <2>2
  <1>5. ASSUME path \notin {NoFile, opened}
        PROVE  /\ \A l \in Seen' : l <= written - Len(content[path])
               /\ \A k \in DOMAIN content[opened] :
                    content[opened][k] <= written - Len(content[path])
    <2>1. /\ \A l \in Seen : l <= written - Len(content[path])
          /\ \A k \in DOMAIN content[opened] : content[opened][k] <= written - Len(content[path])
      BY <1>1, <1>5 DEF TInv, FreshInv
    <2>2. \A k \in 1..m : offset + k \in DOMAIN content[opened]
      BY <1>2 DEF Reads
    <2>3. \A l \in Seen' : l \in Seen \/ \E k \in 1..m : l = content[opened][offset + k]
      BY <1>1, <1>2, ReadLines DEF Seen
    <2> QED BY <2>1, <2>2, <2>3
  <1> QED BY <1>1, <1>3, <1>4, <1>5 DEF FreshInv

LEMMA ReadSkip ==
  ASSUME TelemetryAssumption, TInv, Read
  PROVE  SkipInv'
  <1>1. /\ exp = "read" /\ exp' = "push" /\ Running /\ (NeverMisread' <=> NeverMisread)
        /\ opened \in Inodes /\ opened # NoFile /\ last = opened /\ last' = opened
        /\ "next" \notin slack /\ mark' = mark /\ UNCHANGED <<log, turns, slack>>
        /\ lines \in Seq(Nat) /\ Len(lines) \in Nat /\ DOMAIN lines = 1..Len(lines)
        /\ offset \in Nat /\ mark \in Nat /\ written \in Nat
        /\ content[opened] \in Seq(Nat) /\ Len(content[opened]) \in Nat
        /\ DOMAIN content[opened] = 1..Len(content[opened])
    BY ReadFacts
  <1>2. PICK m \in Nat : Reads(m)
    BY ReadFacts
  <1> DEFINE n == Len(lines)
  <1>3. ASSUME NeverMisread, "now" \notin slack, NEW k \in DOMAIN lines'
        PROVE  lines'[k] = mark + k
    <2>1. Caught /\ \A i \in 1..n : lines[i] = mark + i
      BY <1>1, <1>3 DEF Caught, TInv, SkipInv
    <2>2. \A i \in DOMAIN content[opened] : i > offset => content[opened][i] = Pos + i - offset
      BY <1>1, <2>1 DEF TInv, SkipInv
    <2>3. Pos = mark + n
      <3>1. CASE lines = <<>>
        <4>1. n = 0
          BY <1>1, <3>1, NatSeqs
        <4> HIDE DEF n
        <4> QED BY <1>1, <3>1, <4>1 DEF Pos
      <3>2. CASE lines # <<>>
        <4>1. n \in 1..n
          <5>1. n \in Nat /\ n # 0
            BY <1>1, <3>2, NatSeqs
          <5> HIDE DEF n
          <5> QED BY <5>1
        <4> QED BY <2>1, <3>2, <4>1 DEF Pos
      <3> QED BY <3>1, <3>2
    <2>4. CASE k \in 1..n
      BY <1>2, <2>1, <2>4 DEF Reads
    <2>5. CASE k \notin 1..n
      <3>1. k \in 1..n + m /\ n \in Nat
        BY <1>1, <1>2, <1>3 DEF Reads
      <3>2. k - n \in 1..m /\ n + (k - n) = k
        <4> HIDE DEF n
        <4> QED BY <2>5, <3>1
      <3>3. /\ lines'[k] = content[opened][offset + (k - n)]
            /\ offset + (k - n) \in DOMAIN content[opened] /\ offset + (k - n) > offset
        BY <1>2, <3>2 DEF Reads
      <3>4. content[opened][offset + (k - n)] = mark + n + (offset + (k - n)) - offset
        BY <2>2, <2>3, <3>3
      <3>5. mark + n + (offset + (k - n)) - offset = mark + k
        <4>1. mark \in Nat /\ offset \in Nat /\ n \in Nat /\ k \in Int
          BY <1>1, <3>1
        <4> HIDE DEF n
        <4> QED BY <4>1
      <3> QED BY <3>3, <3>4, <3>5
    <2> QED BY <2>4, <2>5
  <1>4. ASSUME Caught', path # NoFile, turns <= 1
        PROVE  opened \in {path, backup} /\ (turns = 0 => opened = path) /\ AtPos(last)'
    <2>1. turns \in 0..2 /\ (turns = 0 => opened = path) /\ (turns = 1 => opened \in {path, backup})
      BY <1>1, <1>4 DEF TInv, SkipInv, TelemetryTypes
    <2>2. opened \in {path, backup}
      BY <1>4, <2>1
    <2>3. NeverMisread /\ offset <= Len(content[opened])
      BY <1>1, <1>4 DEF Caught, TInv, FreshInv
    <2>4. offset' = offset + m /\ offset + m <= Len(content[opened])
      BY <1>2, <2>3 DEF Reads
    <2>5. CASE m = 0
      <3>1. lines' = lines /\ offset' = offset
        BY <1>1, <1>2, <2>4, <2>5 DEF Reads
      <3>2. Caught
        BY <1>1, <1>4, <3>1 DEF Caught
      <3>3. AtPos(last)
        BY <1>1, <1>4, <3>2 DEF TInv, SkipInv
      <3> QED BY <1>1, <2>1, <2>2, <3>1, <3>3 DEF AtPos, Pos, Start
    <2>6. CASE m # 0
      <3>1. m \in 1..m /\ Len(lines) + m # 0
        <4> HIDE DEF n
        <4>1. n \in Nat
          BY <1>1 DEF n
        <4>2. m \in 1..m /\ n + m # 0
          BY <2>6, <4>1
        <4> QED BY <4>2 DEF n
      <3>2. /\ lines'[Len(lines) + m] = content[opened][offset + m]
            /\ offset + m \in DOMAIN content[opened] /\ lines' \in Seq(Nat)
            /\ Len(lines') = Len(lines) + m
        BY <1>2, <3>1 DEF Reads
      <3>3. Pos' = content[opened][offset + m]
        <4>1. lines' # <<>>
          BY <3>1, <3>2, NatSeqs
        <4> QED BY <3>2, <4>1 DEF Pos
      <3>4. content[opened][offset + m] = Start(opened) + (offset + m)
        <4>1. CASE opened = path
          <5>1. content[path][offset + m] = written - Len(content[path]) + (offset + m)
            BY <1>4, <3>2, <4>1 DEF TInv, FilesInv
          <5>2. Start(opened) = written - Len(content[path]) - 0
            BY <4>1 DEF Start
          <5> DEFINE c == Len(content[path])
          <5>3. c \in Nat /\ written \in Nat /\ offset \in Nat
            BY <1>1, <4>1
          <5>4. written - c + (offset + m) = written - c - 0 + (offset + m)
            <6> HIDE DEF c
            <6> QED BY <5>3
          <5> QED BY <4>1, <5>1, <5>2, <5>4
        <4>2. CASE opened # path
          <5>1. opened = backup /\ backup # NoFile
            BY <1>1, <2>2, <4>2
          <5>2. content[backup][offset + m]
                  = written - Len(content[path]) - Len(content[backup]) + (offset + m)
            BY <1>4, <3>2, <5>1 DEF TInv, FilesInv
          <5>3. Start(opened) = written - Len(content[path]) - Len(content[backup])
            BY <4>2, <5>1 DEF Start
          <5> QED BY <5>1, <5>2, <5>3
        <4> QED BY <4>1, <4>2
      <3>5. Start(last)' = Start(opened)
        BY <1>1 DEF Start
      <3> QED BY <1>1, <2>1, <2>2, <2>4, <3>3, <3>4, <3>5 DEF AtPos
    <2> QED BY <2>5, <2>6
  <1> QED BY <1>1, <1>3, <1>4 DEF SkipInv

LEMMA ReadStep ==
  ASSUME TelemetryAssumption, TInv, Read
  PROVE  TInv'
  <1>1. /\ exp = "read" /\ exp' = "push" /\ Running /\ Running'
        /\ last = opened /\ last' = opened /\ opened' = NoFile
        /\ opened \in Inodes /\ opened # NoFile
        /\ UNCHANGED <<log, pending, req, late, mark, turns, slack, taken>>
        /\ foreign' \in {"no", "there", "read"}
    BY ReadFacts
  <1>2. lines' \in Seq(Nat) /\ offset' \in Nat
    <2>1. PICK m \in Nat : Reads(m)
      BY ReadFacts
    <2> QED BY <2>1 DEF Reads, TInv, TelemetryTypes
  <1>3. TelemetryTypes'
    BY <1>1, <1>2 DEF TInv, TelemetryTypes, Phase, Files
  <1>4. PhaseInv'
    BY <1>1 DEF TInv, PhaseInv, Running
  <1>5. FilesInv'
    BY <1>1 DEF TInv, FilesInv
  <1> QED BY <1>3, <1>4, <1>5, ReadHeld, ReadFresh, ReadSkip DEF TInv

-----------------------------------------------------------------------------
(***************************************************************************)
(* The push                                                                *)
(***************************************************************************)

\* Of lines in order the newest are kept in order, and those that go are older.
LEMMA NewestKeeps ==
  ASSUME NEW s \in Seq(Nat), NEW n \in Nat, Increasing(s)
  PROVE  /\ Increasing(Newest(s, n)) /\ ToSet(Newest(s, n)) \subseteq ToSet(s)
         /\ \A l \in ToSet(s) \ ToSet(Newest(s, n)) :
              Len(Newest(s, n)) = n /\ \A m \in ToSet(Newest(s, n)) : l < m
  <1> DEFINE t == Newest(s, n)
             a == Len(s)
             b == Len(t)
  <1>1. /\ t \in Seq(Nat) /\ b = IF a <= n THEN a ELSE n
        /\ \A k \in 1..b : t[k] = s[a - b + k]
    BY NewestSeq
  <1>2. a \in Nat /\ b \in Nat /\ DOMAIN s = 1..a /\ DOMAIN t = 1..b
    BY <1>1, NatSeqs
  <1> HIDE DEF t, a, b
  <1>3. \A k \in 1..b : a - b + k \in 1..a
    BY <1>1, <1>2
  <1>4. Increasing(t)
    <2>1. \A j, k \in 1..b : j < k => a - b + j < a - b + k
      BY <1>2
    <2> QED BY <1>1, <1>2, <1>3, <2>1 DEF Increasing
  <1>5. ToSet(t) \subseteq ToSet(s)
    <2> SUFFICES ASSUME NEW k \in 1..b
                 PROVE  t[k] \in ToSet(s)
      BY <1>2 DEF ToSet
    <2>1. a - b + k \in DOMAIN s
      BY <1>2, <1>3
    <2> QED BY <1>1, <2>1 DEF ToSet
  <1>6. ASSUME NEW l \in ToSet(s) \ ToSet(t)
        PROVE  b = n /\ \A m \in ToSet(t) : l < m
    <2>1. PICK i \in 1..a : l = s[i]
      BY <1>2 DEF ToSet
    <2>2. ~(i > a - b)
      <3>1. i > a - b => i - (a - b) \in 1..b /\ a - b + (i - (a - b)) = i
        BY <1>2
      <3>2. i > a - b => t[i - (a - b)] = l
        BY <1>1, <2>1, <3>1
      <3> QED BY <1>2, <1>6, <3>1, <3>2 DEF ToSet
    <2>3. b = n
      BY <1>1, <1>2, <2>2
    <2>4. ASSUME NEW m \in ToSet(t)
          PROVE  l < m
      <3>1. PICK k \in 1..b : m = t[k]
        BY <1>2 DEF ToSet
      <3>2. m = s[a - b + k] /\ a - b + k \in 1..a
        BY <1>1, <1>3, <3>1
      <3>3. i < a - b + k
        BY <1>2, <2>2
      <3> QED BY <1>2, <2>1, <3>2, <3>3 DEF Increasing
    <2> QED BY <2>3, <2>4
  <1> QED BY <1>4, <1>5, <1>6 DEF t, b

\* What is held is in order, and the last of the lines just read is the newest.
LEMMA HeldInOrder ==
  ASSUME TInv, Running, NeverMisread
  PROVE  /\ Held \in Seq(Nat) /\ Increasing(Held) /\ ToSet(Held) = ToSet(pending) \cup ToSet(lines)
         /\ Pos \in Nat /\ mark <= Pos /\ Pos <= written
         /\ \A l \in ToSet(lines) : l <= Pos
  <1>1. /\ pending \in Seq(Nat) /\ lines \in Seq(Nat) /\ mark \in Nat /\ mark <= written
        /\ \A l \in ToSet(lines) : l > mark /\ l <= written
        /\ \A l \in ToSet(pending) : l <= mark
        /\ Increasing(lines) /\ Increasing(pending)
    BY DEF TInv, TelemetryTypes, HeldInv
  <1> DEFINE a == Len(pending)
             b == Len(lines)
  <1>2. /\ a \in Nat /\ b \in Nat /\ DOMAIN pending = 1..a /\ DOMAIN lines = 1..b
        /\ (lines = <<>> <=> b = 0)
        /\ \A k \in 1..a : pending[k] \in Nat
        /\ \A k \in 1..b : lines[k] \in Nat
    BY <1>1, NatSeqs
  <1>3. /\ Held \in Seq(Nat) /\ Len(Held) = a + b
        /\ \A k \in 1..a : Held[k] = pending[k]
        /\ \A k \in 1..b : Held[a + k] = lines[k]
        /\ ToSet(Held) = ToSet(pending) \cup ToSet(lines)
    BY <1>1, ConcatSeq DEF Held
  <1>4. DOMAIN Held = 1..a + b
    BY <1>3, NatSeqs
  <1> HIDE DEF a, b
  <1>5. ASSUME NEW i \in 1..a + b, NEW j \in 1..a + b, i < j
        PROVE  Held[i] < Held[j]
    <2>1. CASE j \in 1..a
      <3>1. i \in 1..a
        BY <1>2, <1>5, <2>1
      <3> QED BY <1>1, <1>2, <1>3, <1>5, <2>1, <3>1 DEF Increasing
    <2>2. CASE j \notin 1..a
      <3>1. j - a \in 1..b /\ a + (j - a) = j
        BY <1>2, <2>2
      <3>2. Held[j] = lines[j - a]
        BY <1>3, <3>1
      <3>3. CASE i \in 1..a
        <4>1. Held[i] <= mark /\ Held[i] \in Nat
          BY <1>1, <1>2, <1>3, <3>3 DEF ToSet
        <4>2. Held[j] > mark /\ Held[j] \in Nat
          BY <1>1, <1>2, <3>1, <3>2 DEF ToSet
        <4> QED BY <1>1, <4>1, <4>2
      <3>4. CASE i \notin 1..a
        <4>1. i - a \in 1..b /\ a + (i - a) = i /\ i - a < j - a
          BY <1>2, <1>5, <3>4
        <4>2. Held[i] = lines[i - a]
          BY <1>3, <4>1
        <4> QED BY <1>1, <1>2, <3>1, <3>2, <4>1, <4>2 DEF Increasing
      <3> QED BY <3>3, <3>4
    <2> QED BY <2>1, <2>2
  <1>6. Increasing(Held)
    BY <1>4, <1>5 DEF Increasing
  <1>7. CASE lines = <<>>
    <2>1. ToSet(lines) = {} /\ Pos = mark
      BY <1>7, ToSetEmpty DEF Pos
    <2>2. mark <= mark
      BY <1>1
    <2> QED BY <1>1, <1>3, <1>6, <2>1, <2>2
  <1>8. CASE lines # <<>>
    <2>1. b \in 1..b /\ Pos = lines[b]
      BY <1>2, <1>8 DEF Pos, b
    <2>2. Pos \in Nat /\ Pos \in ToSet(lines)
      BY <1>2, <2>1 DEF ToSet
    <2>3. mark <= Pos /\ Pos <= written
      BY <1>1, <2>2
    <2>4. ASSUME NEW l \in ToSet(lines)
          PROVE  l <= Pos
      <3>1. PICK k \in 1..b : l = lines[k]
        BY <1>2 DEF ToSet
      <3>2. k = b \/ k < b
        BY <1>2
      <3>3. k < b => lines[k] < lines[b]
        BY <1>1, <1>2, <2>1 DEF Increasing
      <3> QED BY <1>2, <2>1, <3>1, <3>2, <3>3
    <2> QED BY <1>3, <1>6, <2>2, <2>3, <2>4
  <1> QED BY <1>7, <1>8

LEMMA PushFacts ==
  ASSUME TelemetryAssumption, TInv, PushOnce
  PROVE  /\ exp = "push" /\ exp' = "wait" /\ Running /\ Running' /\ opened = NoFile
         /\ lines' = <<>> /\ req'.logs = pending' /\ mark' = Pos
         /\ pending' = Newest(Held, PendingLines) /\ pending' \in Seq(Nat)
         /\ PendingLines \in Nat
         /\ slack' = IF lines = <<>> THEN slack ELSE IF "next" \in slack THEN {"now"} ELSE {}
         /\ ToSet(lines') = {} /\ DOMAIN lines' = {}
         /\ UNCHANGED <<log, offset, last, opened, late, turns, taken, foreign>>
  <1>1. /\ exp = "push" /\ exp' = "wait" /\ Running /\ Running'
        /\ lines' = <<>> /\ req'.logs = pending'
        /\ pending' = Newest(Held, PendingLines)
        /\ slack' = IF lines = <<>> THEN slack ELSE IF "next" \in slack THEN {"now"} ELSE {}
        /\ UNCHANGED <<log, offset, last, opened, late, turns, taken, foreign>>
        /\ mark' = IF lines = <<>> THEN mark ELSE Last(lines)
    BY DEF PushOnce, Past, Running, Held
  <1>2. opened = NoFile
    BY <1>1 DEF TInv, PhaseInv
  <1>3. mark' = Pos
    BY <1>1 DEF Pos, Last
  <1>4. PendingLines \in Nat /\ Held \in Seq(Nat)
    BY ConcatSeq DEF TelemetryAssumption, TInv, TelemetryTypes, Held
  <1>5. pending' \in Seq(Nat)
    BY <1>1, <1>4, NewestSeq
  <1>6. ToSet(lines') = {} /\ DOMAIN lines' = {}
    BY <1>1, ToSetEmpty, EmptySeq, NatSeqs
  <1> QED BY <1>1, <1>2, <1>3, <1>4, <1>5, <1>6

LEMMA PushHeld ==
  ASSUME TelemetryAssumption, TInv, PushOnce
  PROVE  HeldInv' /\ SentInv' /\ mark' \in Nat
  <1>1. /\ Running /\ lines' = <<>> /\ req'.logs = pending' /\ mark' = Pos
        /\ pending' = Newest(Held, PendingLines) /\ PendingLines \in Nat
        /\ ToSet(lines') = {} /\ DOMAIN lines' = {}
        /\ UNCHANGED <<log, late, taken, foreign>>
    BY PushFacts
  <1>2. /\ Held \in Seq(Nat) /\ ToSet(Held) = ToSet(pending) \cup ToSet(lines)
        /\ lines \in Seq(Nat) /\ mark \in Nat
    BY ConcatSeq DEF TInv, TelemetryTypes, Held
  <1>3. ToSet(pending') \subseteq ToSet(Held)
    <2>1. /\ pending' \in Seq(Nat) /\ Len(pending') <= Len(Held)
          /\ \A k \in 1..Len(pending') : pending'[k] = Held[Len(Held) - Len(pending') + k]
      <3>1. /\ pending' \in Seq(Nat)
            /\ Len(pending') = IF Len(Held) <= PendingLines THEN Len(Held) ELSE PendingLines
            /\ \A k \in 1..Len(pending') : pending'[k] = Held[Len(Held) - Len(pending') + k]
        <4>1. LET t == Newest(Held, PendingLines)
              IN  /\ t \in Seq(Nat)
                  /\ Len(t) = IF Len(Held) <= PendingLines THEN Len(Held) ELSE PendingLines
                  /\ \A k \in 1..Len(t) : t[k] = Held[Len(Held) - Len(t) + k]
          BY <1>1, <1>2, NewestSeq
        <4>2. pending' = Newest(Held, PendingLines)
          BY <1>1
        <4> QED BY <4>1, <4>2
      <3>2. Len(Held) \in Nat
        BY <1>2, NatSeqs
      <3>3. Len(pending') <= Len(Held)
        BY <1>1, <3>1, <3>2
      <3> QED BY <3>1, <3>3
    <2> DEFINE a == Len(Held)
               b == Len(pending')
    <2>2. a \in Nat /\ b \in Nat /\ DOMAIN Held = 1..a /\ DOMAIN pending' = 1..b /\ b <= a
      BY <1>2, <2>1, NatSeqs
    <2> SUFFICES ASSUME NEW k \in 1..b
                 PROVE  pending'[k] \in ToSet(Held)
      BY <2>2 DEF ToSet
    <2>3. a - b + k \in 1..a
      <3> HIDE DEF a, b
      <3> QED BY <2>2
    <2> QED BY <2>1, <2>2, <2>3 DEF ToSet
  <1>4. Sent' \subseteq Sent \cup ToSet(Held)
    BY <1>1, <1>3 DEF Sent
  <1>5. Pos \in Nat /\ Pos <= written
    <2>1. lines # <<>> => lines[Len(lines)] \in Nat /\ lines[Len(lines)] \in ToSet(lines)
      <3>1. lines # <<>> => Len(lines) \in 1..Len(lines) /\ DOMAIN lines = 1..Len(lines)
        BY <1>2, NatSeqs
      <3> QED BY <1>2, <3>1, NatSeqs DEF ToSet
    <2> QED BY <1>2, <2>1 DEF Pos, TInv, HeldInv
  <1>6. \A l \in Sent' \cup ToSet(pending') : l <= written
    BY <1>2, <1>3, <1>4 DEF TInv, HeldInv
  <1>7. ASSUME NeverMisread
        PROVE  /\ \A l \in Sent' \cup ToSet(pending') : l <= Pos
               /\ Increasing(pending')
    <2>1. /\ Increasing(Held) /\ mark <= Pos /\ \A l \in ToSet(lines) : l <= Pos
      BY <1>1, <1>7, HeldInOrder
    <2>2. Increasing(pending')
      BY <1>1, <1>2, <2>1, NewestKeeps
    <2>3. \A l \in Sent \cup ToSet(pending) : l <= mark /\ l \in Nat
      <3>1. Sent \cup ToSet(pending) \subseteq Nat
        BY ToSetNat DEF Sent, TInv, TelemetryTypes
      <3> QED BY <1>1, <1>7, <3>1 DEF TInv, HeldInv
    <2>4. \A l \in Sent \cup ToSet(pending) : l <= Pos
      BY <1>2, <1>5, <2>1, <2>3
    <2> QED BY <1>2, <1>3, <1>4, <2>1, <2>2, <2>4
  <1>8. HeldInv'
    <2>1. Increasing(lines')
      BY <1>1 DEF Increasing
    <2> QED BY <1>1, <1>5, <1>6, <1>7, <2>1 DEF HeldInv, NeverMisread
  <1>9. SentInv'
    <2> SUFFICES ASSUME NeverMisread
                 PROVE  SentInv'
      BY <1>1 DEF SentInv, NeverMisread
    <2>1. /\ \A m \in late \cup {req} : \A x \in ToSet(m.logs), h \in ToSet(pending) :
               h < x => h \in ToSet(m.logs)
          /\ \A x, h \in ToSet(pending) : h < x /\ x \in taken => h \in taken
          /\ \A x \in Sent : x <= mark /\ x \in Nat
          /\ \A l \in ToSet(lines) : l > mark /\ l \in Nat
      <3>1. Sent \subseteq Nat /\ ToSet(lines) \subseteq Nat
        BY <1>2, ToSetNat DEF Sent, TInv, TelemetryTypes
      <3> QED BY <1>1, <3>1 DEF TInv, SentInv, HeldInv
    <2>2. \A h \in ToSet(pending') : h \in ToSet(pending) \/ (h > mark /\ h \in Nat)
      BY <1>2, <1>3, <2>1
    <2>3. ASSUME NEW m \in late, NEW x \in ToSet(m.logs), NEW h \in ToSet(pending'), h < x
          PROVE  h \in ToSet(m.logs)
      <3>1. x <= mark /\ x \in Nat
        BY <2>1 DEF Sent
      <3>2. h \in ToSet(pending)
        BY <1>2, <2>2, <2>3, <3>1
      <3> QED BY <2>1, <2>3, <3>2
    <2>4. ASSUME NEW x \in ToSet(pending'), NEW h \in ToSet(pending'), h < x, x \in taken
          PROVE  h \in taken
      <3>1. x <= mark /\ x \in Nat
        BY <2>1, <2>4 DEF Sent
      <3>2. h \in ToSet(pending) /\ x \in ToSet(pending)
        BY <1>2, <2>2, <2>4, <3>1
      <3> QED BY <2>1, <2>4, <3>2
    <2>5. ASSUME NEW m \in late' \cup {req'}, NEW x \in ToSet(m.logs), NEW h \in ToSet(pending'), h < x
          PROVE  h \in ToSet(m.logs)
      BY <1>1, <2>3, <2>5
    <2> QED BY <1>1, <2>4, <2>5 DEF SentInv
  <1> QED BY <1>1, <1>5, <1>8, <1>9

LEMMA PushStep ==
  ASSUME TelemetryAssumption, TInv, PushOnce
  PROVE  TInv'
  <1>1. /\ exp = "push" /\ exp' = "wait" /\ Running /\ Running' /\ opened = NoFile
        /\ lines' = <<>> /\ req'.logs = pending' /\ mark' = Pos /\ pending' \in Seq(Nat)
        /\ slack' = IF lines = <<>> THEN slack ELSE IF "next" \in slack THEN {"now"} ELSE {}
        /\ ToSet(lines') = {} /\ DOMAIN lines' = {}
        /\ UNCHANGED <<log, offset, last, opened, late, turns, taken, foreign>>
        /\ NeverMisread' = NeverMisread
    BY PushFacts DEF NeverMisread
  <1>2. Pos' = Pos /\ mark' \in Nat /\ lines' \in Seq(Nat)
    BY <1>1, PushHeld, EmptySeq DEF Pos
  <1>3. Pos \in Seen
    <2>1. lines # <<>> => Len(lines) \in DOMAIN lines
      <3>1. lines \in Seq(Nat)
        BY DEF TInv, TelemetryTypes
      <3> QED BY <3>1, NatSeqs
    <2> QED BY <2>1 DEF Pos, Seen, ToSet
  <1>4. TelemetryTypes'
    BY <1>1, <1>2 DEF TInv, TelemetryTypes, Phase
  <1>5. PhaseInv'
    BY <1>1 DEF TInv, PhaseInv, Running
  <1>6. FilesInv'
    BY <1>1 DEF TInv, FilesInv
  <1>7. FreshInv'
    <2>1. Seen' \subseteq Seen
      BY <1>1, <1>3 DEF Seen
    <2> QED BY <1>1, <2>1 DEF TInv, FreshInv
  <1>8. SkipInv'
    <2>1. "next" \notin slack'
      BY <1>1 DEF TInv, SkipInv
    <2>2. Caught' => Caught
      BY <1>1 DEF Caught
    <2>3. AtPos(last)' = AtPos(last)
      BY <1>1, <1>2 DEF AtPos, Start
    <2> QED BY <1>1, <2>1, <2>2, <2>3 DEF TInv, SkipInv
  <1> QED BY <1>4, <1>5, <1>6, <1>7, <1>8, PushHeld DEF TInv

-----------------------------------------------------------------------------
(***************************************************************************)
(* The invariant and the properties                                        *)
(***************************************************************************)

LEMMA NextTInv ==
  ASSUME TelemetryAssumption, TInv, [Next]_vars
  PROVE  TInv'
  <1>1. CASE Exporter
    BY <1>1, StartExporterStep, OpenStep, OpenNothingStep, DrainStep, ReadStep, PushStep, ServeStep
       DEF Exporter
  <1>2. CASE Write \/ Boot \/ Die
    BY <1>2, WriteStep, BootStep, DieStep
  <1>3. CASE (\E d \in Dirs : Touch(d)) \/ GiveUp \/ IngestPush \/ Server \/ UNCHANGED vars
    BY <1>3, ServeStep
  <1> QED BY <1>1, <1>2, <1>3 DEF Next

\* The log's files, what the exporter holds and where its tailer stands fit together in
\* every state, whatever fails or dies (RotatingFile, LogTailer, pushOnce).
THEOREM TelemetryInvariance ==
  ASSUME TelemetryAssumption
  PROVE  Spec => []TInv
  <1>1. Init => TInv
    BY InitTInv
  <1>2. TInv /\ [Next]_vars => TInv'
    BY NextTInv
  <1> QED BY <1>1, <1>2, PTL DEF Spec

\* A rotation, whatever step of it fails, leaves the newest lines on disk, as many as fill
\* a file (RotatingFile.rotate).
THEOREM RotationKeepsNewest ==
  ASSUME TelemetryAssumption
  PROVE  Spec => []NewestKept
  <1>1. TInv => NewestKept
    <2> SUFFICES ASSUME TInv, NEW l \in 1..written, l > written - FileLines
                 PROVE  l \in OnDisk
      BY DEF NewestKept
    <2>1. written \in Nat /\ FileLines \in Nat /\ NoFile \notin Inodes
      BY DEF TInv, TelemetryTypes, TelemetryAssumption
    <2>2. \A f \in Inodes : /\ Len(content[f]) \in Nat
                            /\ DOMAIN content[f] = 1..Len(content[f])
      <3>1. \A f \in Inodes : content[f] \in Seq(Nat)
        BY DEF TInv, TelemetryTypes
      <3> QED BY <3>1, NatSeqs
    <2>3. \A f \in {path, backup} \ {NoFile} : \A k \in DOMAIN content[f] : content[f][k] \in OnDisk
      BY DEF OnDisk, ToSet
    <2>4. CASE path = NoFile
      <3> DEFINE b == Len(content[backup])
      <3>1. /\ backup \in Inodes /\ backup # NoFile /\ b >= FileLines
            /\ \A k \in DOMAIN content[backup] : content[backup][k] = written - b + k
        BY <2>4 DEF TInv, FilesInv, TelemetryTypes, Files
      <3>2. b \in Nat /\ DOMAIN content[backup] = 1..b
        BY <2>2, <3>1
      <3> HIDE DEF b
      <3>3. l - (written - b) \in 1..b /\ written - b + (l - (written - b)) = l
        BY <2>1, <3>1, <3>2
      <3>4. content[backup][l - (written - b)] = l
        BY <3>1, <3>2, <3>3
      <3> QED BY <2>3, <3>1, <3>2, <3>3, <3>4
    <2>5. CASE path # NoFile
      <3> DEFINE c == Len(content[path])
                 b == Len(content[backup])
      <3>1. /\ path \in Inodes
            /\ \A k \in DOMAIN content[path] : content[path][k] = written - c + k
            /\ c < FileLines => backup # NoFile /\ b >= FileLines
            /\ backup # NoFile =>
                 \A k \in DOMAIN content[backup] : content[backup][k] = written - c - b + k
        BY <2>5 DEF TInv, FilesInv, TelemetryTypes, Files
      <3>2. /\ c \in Nat /\ DOMAIN content[path] = 1..c
            /\ backup # NoFile => b \in Nat /\ DOMAIN content[backup] = 1..b
        BY <2>2, <3>1 DEF TInv, TelemetryTypes, Files
      <3> HIDE DEF b, c
      <3>3. CASE l > written - c
        <4>1. l - (written - c) \in 1..c /\ written - c + (l - (written - c)) = l
          BY <2>1, <3>2, <3>3
        <4>2. content[path][l - (written - c)] = l
          BY <3>1, <3>2, <4>1
        <4> QED BY <2>3, <2>5, <3>2, <4>1, <4>2
      <3>4. CASE ~(l > written - c)
        <4>1. c < FileLines
          BY <2>1, <3>2, <3>4
        <4>2. backup # NoFile /\ b \in Nat /\ b >= FileLines
          BY <3>1, <3>2, <4>1
        <4>3. l - (written - c - b) \in 1..b /\ written - c - b + (l - (written - c - b)) = l
          BY <2>1, <3>2, <3>4, <4>2
        <4>4. content[backup][l - (written - c - b)] = l
          BY <3>1, <3>2, <4>2, <4>3
        <4> QED BY <2>3, <3>2, <4>2, <4>3, <4>4
      <3> QED BY <3>3, <3>4
    <2> QED BY <2>4, <2>5
  <1> QED BY <1>1, TelemetryInvariance, PTL

\* Between two reads the tailer neither skips nor repeats a line, but for the gaps that
\* NothingSkipped names (LogTailer.Next, drainRotated).
THEOREM TailSkipsNothing ==
  ASSUME TelemetryAssumption
  PROVE  Spec => []NothingSkipped
  <1>1. TInv => NothingSkipped
    BY DEF TInv, SkipInv, NothingSkipped, Running
  <1> QED BY <1>1, TelemetryInvariance, PTL

\* The exporter holds lines in order, and the server has no line that the exporter holds
\* without having the older ones it holds (pushOnce, handlePush).
THEOREM TakenOldestFirst ==
  ASSUME TelemetryAssumption
  PROVE  Spec => []TakenInOrder
  <1>1. TInv => TakenInOrder
    <2> SUFFICES ASSUME TInv, NeverMisread, NEW j \in DOMAIN Held, NEW k \in DOMAIN Held, j < k
                 PROVE  Held[j] < Held[k] /\ (Held[k] \in taken => Held[j] \in taken)
      BY DEF TakenInOrder
    <2>1. Running
      <3>1. ~Running => pending = <<>> /\ lines = <<>>
        BY DEF TInv, PhaseInv, Running
      <3>2. <<>> \o <<>> = <<>> /\ DOMAIN <<>> = {}
        BY EmptySeq, NatSeqs
      <3> QED BY <3>1, <3>2 DEF Held
    <2>2. /\ Held \in Seq(Nat) /\ Increasing(Held)
          /\ ToSet(Held) = ToSet(pending) \cup ToSet(lines)
      BY <2>1, HeldInOrder
    <2>3. Held[j] < Held[k] /\ Held[j] \in Nat /\ Held[k] \in Nat
      BY <2>2, NatSeqs DEF Increasing
    <2>4. ASSUME Held[k] \in taken
          PROVE  Held[j] \in taken
      <3>1. Held[k] <= mark /\ mark \in Nat
        BY <2>1, <2>4 DEF TInv, TelemetryTypes, HeldInv, Sent
      <3>2. \A l \in ToSet(lines) : l > mark
        BY <2>1 DEF TInv, HeldInv
      <3>3. {Held[j], Held[k]} \subseteq ToSet(pending) \cup ToSet(lines)
        BY <2>2 DEF ToSet
      <3>4. Held[j] \in ToSet(pending) /\ Held[k] \in ToSet(pending)
        BY <2>3, <3>1, <3>2, <3>3
      <3> QED BY <2>1, <2>3, <2>4, <3>4 DEF TInv, SentInv
    <2> QED BY <2>3, <2>4
  <1> QED BY <1>1, TelemetryInvariance, PTL

\* A line that the exporter has read leaves it when the server has it, when the daemon
\* dies, or when newer lines fill the buffer (pushOnce).
THEOREM HeldUntilTaken ==
  ASSUME TelemetryAssumption
  PROVE  Spec => KeptUntilTaken
  <1> DEFINE Kept == NeverMisread => \A l \in ToSet(Held) \ ToSet(Held') :
                       \/ l \in taken \/ exp' = "down"
                       \/ Len(pending') = PendingLines /\ \A m \in ToSet(pending') : l < m
  <1>1. TInv /\ [Next]_vars => [Kept]_vars
    <2> SUFFICES ASSUME TInv, Next, NeverMisread, NEW l \in ToSet(Held) \ ToSet(Held'), l \notin taken
                 PROVE  \/ exp' = "down"
                        \/ Len(pending') = PendingLines /\ \A m \in ToSet(pending') : l < m
      OBVIOUS
    <2>1. /\ pending \in Seq(Nat) /\ lines \in Seq(Nat) /\ Held \in Seq(Nat)
          /\ ToSet(Held) = ToSet(pending) \cup ToSet(lines)
      BY ConcatSeq DEF TInv, TelemetryTypes, Held
    <2>2. TInv'
      BY NextTInv
    <2>3. ToSet(Held') = ToSet(pending') \cup ToSet(lines')
      BY <2>2, ConcatSeq DEF TInv, TelemetryTypes, Held
    <2>4. CASE Die
      BY <2>4 DEF Die
    <2>5. CASE PushOnce
      <3>1. /\ Running /\ lines' = <<>> /\ pending' = Newest(Held, PendingLines)
            /\ PendingLines \in Nat /\ ToSet(lines') = {}
        BY <2>5, PushFacts
      <3>2. Increasing(Held)
        BY <3>1, HeldInOrder
      <3>3. l \in ToSet(Held) \ ToSet(Newest(Held, PendingLines))
        BY <2>3, <3>1
      <3> QED BY <2>1, <3>1, <3>2, <3>3, NewestKeeps
    <2>6. CASE Acked
      <3>1. exp = "acked" /\ lines' = lines
        BY <2>6 DEF Acked
      <3>2. ToSet(pending) \subseteq taken
        BY <3>1 DEF TInv, PhaseInv
      <3> QED BY <2>1, <2>3, <3>1, <3>2
    <2>7. CASE Drain
      <3>1. lines = <<>> /\ pending' = pending
        BY <2>7, DrainFacts
      <3> QED BY <2>1, <2>3, <3>1, ToSetEmpty
    <2>8. CASE Read
      <3>1. pending' = pending /\ \E m \in Nat : Reads(m)
        BY <2>8, ReadFacts
      <3>2. PICK m \in Nat : Reads(m)
        BY <3>1
      <3>3. DOMAIN lines = 1..Len(lines) /\ Len(lines) \in Nat
        BY <2>1, NatSeqs
      <3>4. \A k \in 1..Len(lines) : k \in DOMAIN lines' /\ lines'[k] = lines[k]
        <4>1. \A k \in 1..Len(lines) : k \in 1..Len(lines) + m
          BY <3>3
        <4> QED BY <3>2, <4>1 DEF Reads
      <3>5. ToSet(lines) \subseteq ToSet(lines')
        BY <3>3, <3>4 DEF ToSet
      <3> QED BY <2>1, <2>3, <3>1, <3>5
    <2>9. CASE UNCHANGED <<pending, lines>>
      BY <2>1, <2>3, <2>9
    <2>10. \/ Die \/ PushOnce \/ Acked \/ Drain \/ Read \/ UNCHANGED <<pending, lines>>
      BY DEF Next, Write, Touch, Boot, Exporter, StartExporter, Open, OpenNothing, GiveUp,
             IngestPush, Server, IngestLate, Expire, Prune, ServerRestart
    <2> QED BY <2>4, <2>5, <2>6, <2>7, <2>8, <2>9, <2>10
  <1>2. Spec => [][Next]_vars
    BY PTL DEF Spec
  <1> QED BY <1>1, <1>2, TelemetryInvariance, PTL DEF KeptUntilTaken
-----------------------------------------------------------------------------
(***************************************************************************)
(* What is kept in memory                                                  *)
(***************************************************************************)

\* However fast the log grows, however long the server is away and however often
\* a push is repeated: a push reads at most PushLines, holds and sends at most
\* PendingLines, and the server shows at most RingLines of a worker.
MemoryBounded ==
  /\ Len(lines) <= PushLines
  /\ Len(pending) <= PendingLines
  /\ \A m \in late \cup {req} : Len(m.logs) <= PendingLines
  /\ Len(worker.ring) <= RingLines

MemInv == MemoryBounded /\ worker.ring \in Seq(Nat)

\* A step that reads nothing and ingests nothing.
MemStill ==
  /\ lines' \in {lines, <<>>} /\ pending' \in {pending, <<>>}
  /\ late' \cup {req'} \subseteq late \cup {req, NoPush}
  /\ worker'.ring \in {worker.ring, <<>>}

LEMMA StillBounded ==
  ASSUME TelemetryAssumption, MemInv, MemStill
  PROVE  MemInv'
  <1>1. Len(<<>>) = 0 /\ <<>> \in Seq(Nat) /\ NoPush.logs = <<>>
    BY EmptySeq DEF NoPush
  <1>2. {PushLines, PendingLines, RingLines} \subseteq Nat
    BY DEF TelemetryAssumption
  <1>3. \A m \in late' \cup {req'} : Len(m.logs) <= PendingLines
    BY <1>1, <1>2 DEF MemInv, MemoryBounded, MemStill
  <1>4. Len(lines') <= PushLines
    BY <1>1, <1>2 DEF MemInv, MemoryBounded, MemStill
  <1>5. Len(pending') <= PendingLines
    BY <1>1, <1>2 DEF MemInv, MemoryBounded, MemStill
  <1>6. worker'.ring \in Seq(Nat) /\ Len(worker'.ring) <= RingLines
    <2>1. CASE worker'.ring = worker.ring
      BY <2>1 DEF MemInv, MemoryBounded
    <2>2. CASE worker'.ring = <<>>
      BY <1>1, <1>2, <2>2
    <2> QED BY <2>1, <2>2 DEF MemStill
  <1> QED BY <1>3, <1>4, <1>5, <1>6 DEF MemInv, MemoryBounded

\* Next never reads beyond the limit, the remainder of the .1 included.
LEMMA ReadBounded ==
  ASSUME TelemetryAssumption, TInv, MemInv, Drain \/ Read
  PROVE  MemInv'
  <1>1. /\ PushLines \in Nat /\ offset \in Nat /\ lines \in Seq(Nat) /\ <<>> \in Seq(Nat)
        /\ content \in [Inodes -> Seq(Nat)] /\ backup \in Files /\ opened \in Files
      BY EmptySeq DEF TelemetryAssumption, TInv, TelemetryTypes
  <1>2. UNCHANGED <<pending, late, req, worker>>
    BY DEF Drain, Read
  <1>3. Len(lines') <= PushLines
    <2>1. CASE Drain
      <3>1. ASSUME NEW s \in Seq(Nat) PROVE Len(Oldest(s, PushLines)) <= PushLines
        <4>1. Len(s) \in Nat
          BY <3>1, NatSeq
        <4>2. Len(Oldest(s, PushLines)) = IF Len(s) <= PushLines THEN Len(s) ELSE PushLines
          BY <1>1, <3>1, OldestSeq
        <4> QED BY <1>1, <4>1, <4>2
      <3>2. backup # NoFile => From(backup, offset) \in Seq(Nat)
        BY <1>1, FromSeq DEF Files
      <3>3. Len(<<>>) <= PushLines
        BY <1>1
      <3> QED BY <1>1, <2>1, <3>1, <3>2, <3>3 DEF Drain
    <2>2. CASE Read
      <3>1. opened \in Inodes /\ Len(lines) < PushLines
        BY <1>1, <2>2 DEF Read, TInv, PhaseInv, Files
      <3> DEFINE s == From(opened, offset)
                 n == PushLines - Len(lines)
      <3>2. s \in Seq(Nat) /\ n \in Nat
        BY <1>1, <3>1, FromSeq, NatSeq
      <3>3. Oldest(s, n) \in Seq(Nat) /\ Len(Oldest(s, n)) <= n
        BY <3>2, OldestSeq, NatSeq
      <3>4. lines' = lines \o Oldest(s, n)
        BY <2>2 DEF Read
      <3>5. Len(lines') = Len(lines) + Len(Oldest(s, n))
        BY <1>1, <3>3, <3>4, ConcatSeq
      <3>6. Len(lines) \in Nat /\ Len(Oldest(s, n)) \in Nat
        BY <1>1, <3>3, NatSeq
      <3> QED BY <1>1, <3>3, <3>5, <3>6
    <2> QED BY <2>1, <2>2
  <1> QED BY <1>2, <1>3 DEF MemInv, MemoryBounded

LEMMA PushBounded ==
  ASSUME TelemetryAssumption, TInv, MemInv, PushOnce
  PROVE  MemInv'
  <1>1. /\ lines' = <<>> /\ req'.logs = pending' /\ late' = late
        /\ pending' = Newest(Held, PendingLines) /\ PendingLines \in Nat
    BY PushFacts
  <1>2. Held \in Seq(Nat)
    BY ConcatSeq DEF TInv, TelemetryTypes, Held
  <1>3. Len(pending') <= PendingLines
    BY <1>1, <1>2, NewestSeq, NatSeq
  <1>4. worker' = worker /\ PushLines \in Nat /\ Len(<<>>) = 0
    BY DEF PushOnce, TelemetryAssumption
  <1> QED BY <1>1, <1>3, <1>4 DEF MemInv, MemoryBounded

LEMMA IngestBounded ==
  ASSUME TelemetryAssumption, TInv, MemInv, NEW m \in late \cup {req}, Ingest(m),
         UNCHANGED <<lines, pending, req>>, late' \subseteq late
  PROVE  MemInv'
  <1> DEFINE w == IF worker.expired THEN NoWorker ELSE worker
  <1>1. m.logs \in Seq(Nat) /\ w.ring \in Seq(Nat) /\ RingLines \in Nat
    BY EmptySeq DEF TInv, TelemetryTypes, MemInv, NoWorker, TelemetryAssumption
  <1>2. w.ring \o m.logs \in Seq(Nat)
    BY <1>1, ConcatSeq
  <1>3. worker'.ring = Newest(w.ring \o m.logs, RingLines)
    BY DEF Ingest
  <1>4. worker'.ring \in Seq(Nat) /\ Len(worker'.ring) <= RingLines
    <2>1. ASSUME NEW s \in Seq(Nat)
          PROVE  Newest(s, RingLines) \in Seq(Nat) /\ Len(Newest(s, RingLines)) <= RingLines
      <3>1. Len(s) \in Nat
        BY <2>1, NatSeq
      <3>2. /\ Newest(s, RingLines) \in Seq(Nat)
            /\ Len(Newest(s, RingLines)) = IF Len(s) <= RingLines THEN Len(s) ELSE RingLines
        BY <1>1, <2>1, NewestSeq
      <3> QED BY <1>1, <3>1, <3>2
    <2> HIDE DEF w
    <2> QED BY <1>2, <1>3, <2>1
  <1> QED BY <1>4 DEF MemInv, MemoryBounded

LEMMA OthersBounded ==
  ASSUME \/ Write \/ (\E d \in Dirs : Touch(d)) \/ Boot \/ Die \/ StartExporter
         \/ Open \/ OpenNothing \/ Acked \/ GiveUp \/ Expire \/ Prune \/ ServerRestart
         \/ UNCHANGED vars
  PROVE  MemStill
  <1> USE DEF MemStill
  <1>1. CASE Write \/ (\E d \in Dirs : Touch(d)) \/ Boot \/ StartExporter
    BY <1>1 DEF Write, Touch, Boot, StartExporter
  <1>2. CASE Die \/ GiveUp
    BY <1>2 DEF Die, GiveUp, Abandon
  <1>3. CASE Open \/ OpenNothing \/ Acked
    BY <1>3 DEF Open, OpenNothing, Acked
  <1>4. CASE Expire
    <2>1. worker'.ring = worker.ring
      BY <1>4 DEF Expire
    <2> QED BY <1>4, <2>1 DEF Expire
  <1>5. CASE Prune \/ ServerRestart
    BY <1>5 DEF Prune, ServerRestart, NoWorker
  <1>6. CASE UNCHANGED vars
    BY <1>6 DEF vars
  <1> QED BY <1>1, <1>2, <1>3, <1>4, <1>5, <1>6

\* Neither a log that grows without end, nor a server that does not answer, nor
\* pushes repeated or late make exporter or server hold more than their limits
\* (Next, pushOnce, lineRing).
THEOREM MemoryIsBounded ==
  ASSUME TelemetryAssumption
  PROVE  Spec => []MemoryBounded
  <1>1. Init => MemInv
    <2>1. Len(<<>>) = 0 /\ <<>> \in Seq(Nat)
      BY EmptySeq
    <2> QED BY <2>1 DEF Init, MemInv, MemoryBounded, NoPush, NoWorker, TelemetryAssumption
  <1>2. TInv /\ MemInv /\ [Next]_vars => MemInv'
    <2> SUFFICES ASSUME TInv, MemInv, [Next]_vars PROVE MemInv'
      OBVIOUS
    <2>1. CASE Drain \/ Read \/ PushOnce
      BY <2>1, ReadBounded, PushBounded
    <2>2. CASE IngestPush
      <3>1. Ingest(req) /\ UNCHANGED <<lines, pending, req>> /\ late' \subseteq late
        BY <2>2 DEF IngestPush
      <3> QED BY <3>1, IngestBounded
    <2>3. CASE IngestLate
      <3>1. PICK m \in late : Ingest(m) /\ late' = late \ {m}
        BY <2>3 DEF IngestLate
      <3>2. UNCHANGED <<lines, pending, req>> /\ late' \subseteq late
        BY <2>3, <3>1 DEF IngestLate
      <3> QED BY <3>1, <3>2, IngestBounded
    <2>4. CASE \/ Write \/ (\E d \in Dirs : Touch(d)) \/ Boot \/ Die \/ StartExporter
               \/ Open \/ OpenNothing \/ Acked \/ GiveUp \/ Expire \/ Prune
               \/ ServerRestart \/ UNCHANGED vars
      BY <2>4, OthersBounded, StillBounded
    <2> QED BY <2>1, <2>2, <2>3, <2>4 DEF Next, Exporter, Server
  <1>3. MemInv => MemoryBounded
    BY DEF MemInv
  <1> QED BY <1>1, <1>2, <1>3, TelemetryInvariance, PTL DEF Spec
=============================================================================
