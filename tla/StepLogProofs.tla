--------------------------- MODULE StepLogProofs ---------------------------
(***************************************************************************)
(* The step log, for every number of calls, sessions, renders and runs.    *)
(* The inductive invariant StepInv has three parts: NumberInv, the numbers *)
(* handed out; FileInv, what the files hold; ReadInv, what renders and the  *)
(* cache took of them.                                                     *)
(***************************************************************************)
EXTENDS StepLog, TLAPS

\* A call that has left a file or may yet.
Live(c) == Wrote(c) \/ \E s \in Sessions : me[s] = c

Places == {"idle", "prompt", "promptText", "stream", "agent", "json", "jsonText"}

LogTypeOK ==
  /\ file \in [Numbers -> [Ext -> File]]
  /\ calls \in 0..MaxCalls
  /\ number \in [Calls -> 0..MaxCalls]
  /\ answered \subseteq 1..calls
  /\ pc \in [Sessions -> Places]
  /\ me \in [Sessions -> 0..calls]
  /\ seq \in 0..calls
  /\ faults \in Nat
  /\ blind \in BOOLEAN

\* Who makes which call, and who wrote what.
Attribution ==
  /\ \A c \in 1..calls : number[c] \in 1..c
  /\ \A s \in Sessions : me[s] = 0 <=> pc[s] = "idle"
  /\ \A s, t \in Sessions : me[s] = me[t] /\ me[s] # 0 => s = t
  /\ \A n \in Numbers, x \in Ext : \A c \in file[n][x].by : c <= calls /\ number[c] = n

\* The strengthening that makes the order inductive: it holds of calls that may
\* yet write, and the counter of a *Claude is past them.
InOrder ==
  /\ \A c, d \in 1..calls : c < d /\ Live(c) /\ Live(d) => number[c] < number[d]
  /\ seq # 0 => \A c \in 1..calls : Live(c) => number[c] <= seq

NumberInv ==
  /\ LogTypeOK /\ Attribution
  /\ seq = 0 => \A s \in Sessions : me[s] = 0
  /\ ~blind => InOrder

LEMMA InitNumber ==
  ASSUME StepLogAssumption, Init
  PROVE  NumberInv
  <1>1. LogTypeOK
    <2>1. NoFile \in File /\ 0 \in 0..MaxCalls /\ MaxFaults \in Nat
      BY DEF StepLogAssumption, File, NoFile
    <2>2. /\ file \in [Numbers -> [Ext -> File]]
          /\ number \in [Calls -> 0..MaxCalls]
      BY <2>1 DEF Init
    <2>3. pc \in [Sessions -> Places] /\ me \in [Sessions -> 0..calls] /\ faults \in Nat
      BY <2>1 DEF Init, Places
    <2>4. calls \in 0..MaxCalls /\ seq \in 0..calls
      <3>1. calls = 0 /\ seq = 0
        BY DEF Init
      <3> QED BY <2>1, <3>1
    <2>5. answered \subseteq 1..calls /\ blind \in BOOLEAN
      BY DEF Init
    <2> QED BY <2>2, <2>3, <2>4, <2>5 DEF LogTypeOK
  <1>2. Attribution /\ InOrder
    BY DEF StepLogAssumption, Init, Attribution, InOrder, NoFile, Calls, Numbers, Ext
  <1> QED BY <1>1, <1>2 DEF NumberInv, Init

\* A session's step that writes, if it writes, in a file of its own number.
LEMMA WriterNumber ==
  ASSUME StepLogAssumption, NumberInv, NEW s \in Sessions, me[s] # 0,
         UNCHANGED <<calls, number, seq, blind>>,
         file' \in [Numbers -> [Ext -> File]],
         \A n \in Numbers, x \in Ext :
           file'[n][x].by \subseteq file[n][x].by \cup (IF n = number[me[s]] THEN {me[s]} ELSE {}),
         pc' \in [Sessions -> Places], me' \in [Sessions -> 0..calls],
         \A t \in Sessions : me'[t] \in {0, me[t]} /\ (me'[t] = 0 <=> pc'[t] = "idle"),
         answered' \subseteq 1..calls, faults' \in Nat
  PROVE  NumberInv'
  <1>1. LogTypeOK'
    BY DEF NumberInv, LogTypeOK
  <1>2. me[s] \in 1..calls
    BY DEF NumberInv, LogTypeOK
  <1>3. Attribution'
    BY <1>2 DEF NumberInv, LogTypeOK, Attribution, Numbers, Calls
  <1>4. \A c \in 1..calls : Live(c)' => Live(c)
    <2> SUFFICES ASSUME NEW c \in 1..calls, Live(c)' PROVE Live(c)
      OBVIOUS
    <2>1. CASE \E t \in Sessions : me'[t] = c
      BY <2>1 DEF Live
    <2>2. CASE \E n \in Numbers, x \in Ext : c \in file'[n][x].by
      BY <2>2 DEF Live, Wrote
    <2> QED BY <2>1, <2>2 DEF Live, Wrote
  <1>5. ~blind' => InOrder'
    BY <1>4 DEF NumberInv, InOrder
  <1>6. seq' = 0 => \A t \in Sessions : me'[t] = 0
    BY DEF NumberInv
  <1> QED BY <1>1, <1>3, <1>5, <1>6 DEF NumberInv

\* A call gets a number that no call before it can still be using.
LEMMA BeginNumber ==
  ASSUME StepLogAssumption, NumberInv, NEW s \in Sessions, Begin(s)
  PROVE  NumberInv'
  <1> DEFINE c0 == calls + 1
  <1>1. PICK n \in 0..MaxCalls :
          /\ seq' = n + 1
          /\ \/ /\ IF seq = 0 THEN Highest(n) ELSE n = seq
                /\ UNCHANGED <<faults, blind>>
             \/ seq = 0 /\ n = 0 /\ Fault /\ blind' = TRUE
    BY DEF Begin, NextSeq
  <1>2. /\ c0 \in Calls /\ c0 \in 1..MaxCalls /\ calls \in Nat
        /\ calls' = c0 /\ me[s] = 0
        /\ number' = [number EXCEPT ![c0] = seq']
        /\ me' = [me EXCEPT ![s] = c0] /\ pc' = [pc EXCEPT ![s] = "prompt"]
        /\ UNCHANGED <<file, answered>>
    BY DEF Begin, NumberInv, LogTypeOK, Attribution, Calls, StepLogAssumption
  <1>3. n <= calls
    <2>1. CASE seq # 0
      BY <1>1, <2>1 DEF NumberInv, LogTypeOK
    <2>2. CASE n = 0
      BY <1>2, <2>2
    <2>3. CASE seq = 0 /\ n # 0
      <3>1. PICK x \in Ext : file[n][x].by # {}
        BY <1>1, <2>3 DEF Highest, Numbered, Exists
      <3>2. PICK c \in file[n][x].by : TRUE
        BY <3>1
      <3>3. n \in Numbers /\ c \in Calls
        <4>1. n \in Numbers
          BY <1>1, <2>3 DEF Numbers
        <4>2. file[n][x] \in File
          BY <4>1 DEF NumberInv, LogTypeOK
        <4> QED BY <3>2, <4>1, <4>2 DEF File
      <3>4. c <= calls /\ number[c] = n
        BY <3>1, <3>2, <3>3 DEF NumberInv, Attribution
      <3> QED BY <1>2, <3>3, <3>4 DEF NumberInv, Attribution, Calls
    <2> QED BY <2>1, <2>2, <2>3
  <1>4. seq' \in 1..c0
    BY <1>1, <1>2, <1>3
  <1>5. LogTypeOK'
    <2>1. faults' \in Nat /\ blind' \in BOOLEAN
      <3>1. CASE UNCHANGED <<faults, blind>>
        BY <3>1 DEF NumberInv, LogTypeOK
      <3>2. CASE Fault /\ blind' = TRUE
        BY <3>2 DEF NumberInv, LogTypeOK, Fault
      <3> QED BY <1>1, <3>1, <3>2
    <2> QED BY <1>2, <1>4, <2>1 DEF NumberInv, LogTypeOK, Places, Calls
  <1>6. \A c \in 1..calls : number'[c] = number[c]
    BY <1>2 DEF NumberInv, LogTypeOK, Calls
  <1>7. number'[c0] = seq'
    BY <1>2 DEF NumberInv, LogTypeOK
  <1>8. Attribution'
    <2>1. \A c \in 1..calls' : number'[c] \in 1..c
      BY <1>2, <1>4, <1>6, <1>7 DEF NumberInv, Attribution
    <2>2. \A t \in Sessions : me'[t] = 0 <=> pc'[t] = "idle"
      BY <1>2 DEF NumberInv, LogTypeOK, Attribution
    <2>3. \A t, u \in Sessions : me'[t] = me'[u] /\ me'[t] # 0 => t = u
      BY <1>2 DEF NumberInv, LogTypeOK, Attribution
    <2>4. \A m \in Numbers, x \in Ext : \A c \in file'[m][x].by : c <= calls' /\ number'[c] = m
      <3> SUFFICES ASSUME NEW m \in Numbers, NEW x \in Ext, NEW c \in file[m][x].by
                   PROVE  c <= calls' /\ number'[c] = m
        BY <1>2
      <3>1. c \in Calls /\ c <= calls /\ number[c] = m
        BY DEF NumberInv, LogTypeOK, Attribution, File
      <3> QED BY <1>2, <1>6, <3>1 DEF Calls
    <2> QED BY <2>1, <2>2, <2>3, <2>4 DEF Attribution
  <1>9. \A c \in 1..calls : Live(c)' => Live(c)
    BY <1>2 DEF Live, Wrote, NumberInv, LogTypeOK
  <1>10. ASSUME ~blind', NEW c \in 1..calls, Live(c) PROVE number[c] <= n
    <2>1. ~blind /\ (IF seq = 0 THEN Highest(n) ELSE n = seq)
      BY <1>1, <1>10
    <2>2. CASE seq # 0
      BY <2>1, <2>2, <1>10 DEF NumberInv, InOrder
    <2>3. CASE seq = 0
      <3>1. Wrote(c)
        BY <2>3, <1>10 DEF Live, NumberInv
      <3>2. PICK m \in Numbers, x \in Ext : c \in file[m][x].by
        BY <3>1 DEF Wrote
      <3>3. number[c] = m /\ Numbered(m)
        BY <3>2 DEF NumberInv, Attribution, Numbered, Exists
      <3> QED BY <2>1, <2>3, <3>3 DEF Highest
    <2> QED BY <2>2, <2>3
  <1>11. ~blind' => InOrder'
    <2> SUFFICES ASSUME ~blind' PROVE InOrder'
      OBVIOUS
    <2>1. ~blind
      BY <1>1
    <2>2. \A c \in 1..calls : Live(c)' => number'[c] <= n
      BY <1>6, <1>9, <1>10
    <2>3. \A c \in 1..calls : number'[c] \in Nat
      BY <1>2, <1>6 DEF NumberInv, Attribution
    <2>4. ASSUME NEW c \in 1..calls', NEW d \in 1..calls', c < d, Live(c)', Live(d)'
          PROVE  number'[c] < number'[d]
      <3>1. CASE d = c0
        BY <1>1, <1>2, <1>7, <2>2, <2>3, <2>4, <3>1
      <3>2. CASE d # c0
        BY <1>2, <1>6, <1>9, <2>1, <2>4, <3>2 DEF NumberInv, InOrder
      <3> QED BY <3>1, <3>2
    <2>5. \A c \in 1..calls' : Live(c)' => number'[c] <= seq'
      BY <1>1, <1>2, <1>4, <1>7, <2>2, <2>3
    <2> QED BY <2>4, <2>5 DEF InOrder
  <1>12. seq' # 0
    BY <1>4
  <1> QED BY <1>5, <1>8, <1>11, <1>12 DEF NumberInv

LEMMA NewRunNumber ==
  ASSUME StepLogAssumption, NumberInv, NewRun
  PROVE  NumberInv'
  <1>1. LogTypeOK' /\ Attribution'
    BY DEF NumberInv, LogTypeOK, Attribution, NewRun, Places
  <1>2. \A c \in 1..calls : Live(c)' => Live(c)
    BY DEF Live, Wrote, NewRun
  <1> QED BY <1>1, <1>2 DEF NumberInv, InOrder, NewRun

\* Where a session is, and what it may write.
LEMMA SessionFacts ==
  ASSUME StepLogAssumption, NumberInv, NEW s \in Sessions, pc[s] # "idle"
  PROVE  /\ me[s] \in 1..calls /\ me[s] \in Calls
         /\ number[me[s]] \in Numbers
         /\ Kind[pc[s]] \in Ext
         /\ Mine(s) \in File
  <1>1. me[s] \in 1..calls /\ me[s] \in Calls
    BY DEF NumberInv, LogTypeOK, Attribution, Calls
  <1>2. number[me[s]] \in Numbers
    BY <1>1 DEF NumberInv, LogTypeOK, Attribution, Numbers, Calls
  <1>3. Kind[pc[s]] \in Ext
    BY DEF NumberInv, LogTypeOK, Places, Kind, Ext
  <1> QED BY <1>1, <1>2, <1>3 DEF NumberInv, LogTypeOK, Mine

LEMMA SessionNumber ==
  ASSUME StepLogAssumption, NumberInv, NEW s \in Sessions,
         Open(s) \/ Write(s) \/ Stream(s) \/ Return(s)
  PROVE  NumberInv'
  <1>1. pc[s] # "idle" /\ UNCHANGED <<calls, number, seq, blind>>
    BY DEF Open, Write, Stream, Return, Opening, Text
  <1>2. /\ me[s] \in 1..calls /\ me[s] \in Calls /\ number[me[s]] \in Numbers
        /\ Kind[pc[s]] \in Ext /\ Mine(s) \in File
    BY <1>1, SessionFacts
  <1>3. \/ UNCHANGED file
        \/ \E f \in File : Put(s, f) /\ f.by \subseteq Mine(s).by \cup {me[s]}
    <2>1. [by |-> {me[s]}, size |-> 0] \in File /\ Grown(s) \in File
      BY <1>2 DEF File, Grown
    <2>2. Grown(s).by \subseteq Mine(s).by \cup {me[s]}
      BY DEF Grown
    <2> QED BY <2>1, <2>2 DEF Open, Write, Stream, Return
  <1>4. /\ file' \in [Numbers -> [Ext -> File]]
        /\ \A n \in Numbers, x \in Ext :
             file'[n][x].by \subseteq file[n][x].by \cup (IF n = number[me[s]] THEN {me[s]} ELSE {})
    <2>1. CASE UNCHANGED file
      BY <2>1 DEF NumberInv, LogTypeOK
    <2>2. CASE \E f \in File : Put(s, f) /\ f.by \subseteq Mine(s).by \cup {me[s]}
      <3>1. PICK f \in File : Put(s, f) /\ f.by \subseteq Mine(s).by \cup {me[s]}
        BY <2>2
      <3> QED BY <1>2, <3>1 DEF NumberInv, LogTypeOK, Put, Mine
    <2> QED BY <1>3, <2>1, <2>2
  <1>5. /\ pc' \in [Sessions -> Places] /\ me' \in [Sessions -> 0..calls]
        /\ \A t \in Sessions : me'[t] \in {0, me[t]} /\ (me'[t] = 0 <=> pc'[t] = "idle")
    <2>1. CASE UNCHANGED <<pc, me>>
      BY <2>1 DEF NumberInv, LogTypeOK, Attribution
    <2>2. CASE \E l \in Places : Goto(s, l)
      <3>1. PICK l \in Places : Goto(s, l)
        BY <2>2
      <3> QED BY <1>2, <3>1 DEF NumberInv, LogTypeOK, Attribution, Goto
    <2>3. pc[s] \in Opening \cup Text => Then[pc[s]] \in Places
      BY DEF Opening, Text, Then, Places
    <2>4. CASE Open(s) \/ Write(s)
      BY <2>2, <2>3, <2>4 DEF Open, Write
    <2>5. CASE Return(s)
      BY <2>2, <2>5 DEF Return, Places
    <2>6. CASE Stream(s)
      BY <2>1, <2>6 DEF Stream
    <2> QED BY <2>4, <2>5, <2>6
  <1>6. answered' \subseteq 1..calls /\ faults' \in Nat
    <2>1. answered' \in {answered, answered \cup {me[s]}}
      BY DEF Open, Write, Stream, Return
    <2>2. UNCHANGED faults \/ Fault
      BY DEF Open, Write, Stream, Return
    <2>3. answered \subseteq 1..calls /\ faults \in Nat
      BY DEF NumberInv, LogTypeOK
    <2>4. faults' \in Nat
      BY <2>2, <2>3 DEF Fault
    <2>5. answered' \subseteq 1..calls
      BY <1>2, <2>1, <2>3
    <2> QED BY <2>4, <2>5
  <1> QED BY <1>1, <1>2, <1>4, <1>5, <1>6, WriterNumber

LEMMA RenderNumber ==
  ASSUME NumberInv, UNCHANGED <<agent, blind>>, faults' \in Nat
  PROVE  NumberInv'
  BY DEF NumberInv, LogTypeOK, Attribution, InOrder, Live, Wrote, agent

LEMMA NextNumber ==
  ASSUME StepLogAssumption, NumberInv, [Next]_vars
  PROVE  NumberInv'
  <1>1. CASE UNCHANGED vars
    BY <1>1, RenderNumber DEF vars, NumberInv, LogTypeOK
  <1>2. ASSUME NEW r \in Renders, List(r) \/ Look(r) \/ ReadFile(r) \/ Store(r) \/ Show(r)
        PROVE  NumberInv'
    <2>1. UNCHANGED <<agent, blind>>
      BY <1>2 DEF List, Look, ReadFile, Store, Keep, Show
    <2>2. UNCHANGED faults \/ Fault
      BY <1>2 DEF List, Look, ReadFile, Store, Keep, Show
    <2>3. faults' \in Nat
      BY <2>2 DEF Fault, NumberInv, LogTypeOK
    <2> QED BY <2>1, <2>3, RenderNumber
  <1> QED BY <1>1, <1>2, BeginNumber, SessionNumber, NewRunNumber DEF Next

LEMMA NumberInvariant ==
  ASSUME StepLogAssumption
  PROVE  Spec => []NumberInv
  <1>1. Init => NumberInv
    BY InitNumber
  <1>2. NumberInv /\ [Next]_vars => NumberInv'
    BY NextNumber
  <1> QED BY <1>1, <1>2, PTL DEF Spec

\* Two calls never write files of one number (nextSeq), over any number of runs,
\* deaths and calls that overlap.
THEOREM OneCall ==
  ASSUME StepLogAssumption
  PROVE  Spec => []StepIsOneCall
  <1>1. NumberInv => StepIsOneCall
    <2> SUFFICES ASSUME NumberInv, ~blind, NEW n \in Numbers, NEW x \in Ext, NEW y \in Ext,
                        NEW c \in file[n][x].by, NEW d \in file[n][y].by
                 PROVE  c = d
      BY DEF StepIsOneCall
    <2>1. /\ c \in 1..calls /\ d \in 1..calls
          /\ number[c] = n /\ number[d] = n /\ Live(c) /\ Live(d)
      BY DEF NumberInv, LogTypeOK, Attribution, Live, Wrote, File, Calls
    <2>2. InOrder /\ n \in Nat
      BY DEF NumberInv, Numbers
    <2>3. ~(c < d) /\ ~(d < c)
      BY <2>1, <2>2 DEF InOrder
    <2> QED BY <2>1, <2>3
  <1> QED BY <1>1, NumberInvariant, PTL

\* The numbers are in the order of the calls.
THEOREM StepOrder ==
  ASSUME StepLogAssumption
  PROVE  Spec => []StepsInOrder
  <1>1. NumberInv => StepsInOrder
    <2> SUFFICES ASSUME NumberInv, ~blind, NEW c \in Calls, NEW d \in Calls,
                        Wrote(c), Wrote(d), c < d
                 PROVE  number[c] < number[d]
      BY DEF StepsInOrder
    <2>1. c \in 1..calls /\ d \in 1..calls
      BY DEF NumberInv, LogTypeOK, Attribution, Wrote, Calls
    <2> QED BY <2>1 DEF NumberInv, InOrder, Live
  <1> QED BY <1>1, NumberInvariant, PTL

-----------------------------------------------------------------------------
(* What the renders read.  Files grow, and the rest follows from that. *)

\* The files a session has not come to.
Ahead == [idle |-> {}, prompt |-> Ext, promptText |-> {"json", "stream"},
          stream |-> {"json", "stream"}, agent |-> {"json"}, json |-> {"json"},
          jsonText |-> {}]

FileInv ==
  /\ \A s \in Sessions : \A x \in Ahead[pc[s]] : me[s] \notin file[number[me[s]]][x].by
  /\ \A s \in Sessions : pc[s] \in {"json", "jsonText"} => me[s] \in answered
  /\ \A n \in Numbers, x \in Ext : file[n][x].by = {} => file[n][x].size = 0
  /\ \A n \in Numbers : file[n]["json"].by \subseteq answered

\* The step of a session on one of its files.
LEMMA PutFacts ==
  ASSUME StepLogAssumption, NumberInv, NEW s \in Sessions, pc[s] # "idle",
         NEW f \in File, Put(s, f)
  PROVE  /\ file'[number[me[s]]][Kind[pc[s]]] = f
         /\ \A n \in Numbers, x \in Ext :
              n # number[me[s]] \/ x # Kind[pc[s]] => file'[n][x] = file[n][x]
  BY SessionFacts DEF Put, NumberInv, LogTypeOK

\* Without a blind start a session's files have no other writer.
LEMMA SoleWriter ==
  ASSUME StepLogAssumption, NumberInv, ~blind, NEW s \in Sessions, pc[s] # "idle",
         NEW x \in Ext, NEW c \in file[number[me[s]]][x].by
  PROVE  c = me[s]
  <1>1. me[s] \in 1..calls /\ number[me[s]] \in Numbers
    BY SessionFacts
  <1>2. file[number[me[s]]][x] \in File
    BY <1>1 DEF NumberInv, LogTypeOK
  <1>3. c \in 1..calls /\ number[c] = number[me[s]]
    BY <1>1, <1>2 DEF NumberInv, LogTypeOK, Attribution, File, Calls
  <1>4. Live(c) /\ Live(me[s])
    BY <1>1 DEF Live, Wrote
  <1>5. InOrder /\ number[me[s]] \in Nat
    BY <1>1 DEF NumberInv, Numbers
  <1>6. ~(c < me[s]) /\ ~(me[s] < c)
    BY <1>1, <1>3, <1>4, <1>5 DEF InOrder
  <1> QED BY <1>1, <1>3, <1>6

LEMMA InitFiles ==
  ASSUME StepLogAssumption, Init
  PROVE  FileInv
  BY DEF Init, FileInv, NoFile, Ahead, Numbers, Ext

LEMMA OpenFiles ==
  ASSUME StepLogAssumption, NumberInv, FileInv, NEW s \in Sessions,
         Open(s) \/ Write(s) \/ Stream(s) \/ Return(s)
  PROVE  FileInv'
  <1>1. pc[s] # "idle" /\ pc[s] \in Places /\ UNCHANGED number
    BY DEF Open, Write, Stream, Return, Opening, Text, NumberInv, LogTypeOK
  <1>2. /\ me[s] \in 1..calls /\ me[s] \in Calls /\ number[me[s]] \in Numbers
        /\ Kind[pc[s]] \in Ext /\ Mine(s) \in File
    BY <1>1, SessionFacts
  <1>3. answered \subseteq answered'
    BY DEF Open, Write, Stream, Return
  <1>4. \A n \in Numbers, x \in Ext :
          /\ file'[n][x].by = {} => file'[n][x].size = 0
          /\ file'[n][x].by \subseteq file[n][x].by \cup
               (IF n = number[me[s]] /\ x = Kind[pc[s]] THEN {me[s]} ELSE {})
    <2>1. CASE UNCHANGED file
      BY <2>1 DEF FileInv
    <2>2. CASE Put(s, [by |-> {me[s]}, size |-> 0])
      <3>1. [by |-> {me[s]}, size |-> 0] \in File
        BY <1>2 DEF File
      <3> QED BY <1>1, <2>2, <3>1, PutFacts DEF FileInv
    <2>3. CASE Put(s, Grown(s))
      <3>1. Grown(s) \in File /\ Grown(s).by # {}
        BY <1>2 DEF Grown, File
      <3>2. Grown(s).by \subseteq Mine(s).by \cup {me[s]}
        BY DEF Grown
      <3> QED BY <1>1, <2>3, <3>1, <3>2, PutFacts DEF FileInv, Mine
    <2> QED BY <2>1, <2>2, <2>3 DEF Open, Write, Stream, Return
  <1>5. Kind[pc[s]] = "json" => me[s] \in answered
    BY <1>1 DEF FileInv, Kind, Places
  <1>6. \A n \in Numbers : file'[n]["json"].by \subseteq answered'
    BY <1>3, <1>4, <1>5 DEF FileInv, Ext
  <1>7. /\ \A t \in Sessions \ {s} : pc'[t] = pc[t] /\ me'[t] = me[t]
        /\ pc'[s] = "idle" \/ me'[s] = me[s]
    BY DEF Open, Write, Stream, Return, Goto, NumberInv, LogTypeOK
  <1>8. \A t \in Sessions : pc'[t] \in {"json", "jsonText"} => me'[t] \in answered'
    <2> SUFFICES ASSUME NEW t \in Sessions, pc'[t] \in {"json", "jsonText"}
                 PROVE  me'[t] \in answered'
      OBVIOUS
    <2>1. CASE t # s
      BY <1>3, <1>7, <2>1 DEF FileInv
    <2>2. CASE t = s /\ Return(s)
      BY <2>2 DEF Return, Goto, NumberInv, LogTypeOK
    <2>3. CASE t = s /\ Stream(s)
      BY <1>3, <2>3 DEF Stream, FileInv
    <2>4. CASE t = s /\ (Open(s) \/ Write(s))
      <3>1. pc'[s] = Then[pc[s]] /\ UNCHANGED answered
        BY <2>4 DEF Open, Write, Goto, NumberInv, LogTypeOK
      <3>2. pc[s] \in {"json", "jsonText"}
        BY <1>1, <2>4, <3>1 DEF Open, Write, Opening, Text, Then
      <3> QED BY <1>7, <2>4, <3>1, <3>2 DEF FileInv
    <2> QED BY <2>1, <2>2, <2>3, <2>4
  <1>9. \A t \in Sessions : \A x \in Ahead[pc'[t]] :
          me'[t] \notin file'[number[me'[t]]][x].by
    <2> SUFFICES ASSUME NEW t \in Sessions, NEW x \in Ahead[pc'[t]], pc'[t] # "idle"
                 PROVE  me'[t] \notin file'[number[me'[t]]][x].by
      BY DEF Ahead
    <2>1. me'[t] = me[t] /\ pc[t] # "idle" /\ pc[t] \in Places
      BY <1>1, <1>7 DEF NumberInv, LogTypeOK
    <2>2. me[t] # 0 /\ number[me[t]] \in Numbers
      BY <2>1, SessionFacts
    <2>3. x \in Ext /\ x \in Ahead[pc[t]] /\ (t = s => x # Kind[pc[s]])
      <3>1. CASE t # s
        BY <1>7, <2>1, <3>1 DEF Ahead, Ext, Places
      <3>2. CASE t = s /\ Return(s)
        BY <3>2 DEF Return, Goto, Ahead, Ext, Kind, NumberInv, LogTypeOK
      <3>3. CASE t = s /\ Stream(s)
        BY <3>3 DEF Stream, Ahead, Ext, Kind
      <3>4. CASE t = s /\ (Open(s) \/ Write(s))
        <4>1. pc'[s] = Then[pc[s]] /\ pc[s] \in Opening \cup Text
          BY <3>4 DEF Open, Write, Goto, NumberInv, LogTypeOK
        <4> QED BY <3>4, <4>1 DEF Opening, Text, Then, Ahead, Ext, Kind
      <3> QED BY <3>1, <3>2, <3>3, <3>4
    <2>4. me[t] \notin file[number[me[t]]][x].by
      BY <2>3 DEF FileInv
    <2>5. t # s => me[t] # me[s]
      BY <2>2 DEF NumberInv, Attribution
    <2> QED BY <1>4, <2>1, <2>2, <2>3, <2>4, <2>5
  <1> QED BY <1>1, <1>4, <1>6, <1>8, <1>9 DEF FileInv

LEMMA BeginFiles ==
  ASSUME StepLogAssumption, NumberInv, FileInv, NEW s \in Sessions, Begin(s)
  PROVE  FileInv'
  <1>1. /\ calls \in Nat /\ calls + 1 \in Calls
        /\ UNCHANGED <<file, answered>>
        /\ me' = [me EXCEPT ![s] = calls + 1] /\ pc' = [pc EXCEPT ![s] = "prompt"]
        /\ number' = [number EXCEPT ![calls + 1] = seq']
    BY DEF Begin, NumberInv, LogTypeOK, Calls, StepLogAssumption
  <1>2. NumberInv'
    BY BeginNumber
  <1>3. ASSUME NEW t \in Sessions, NEW x \in Ahead[pc'[t]]
        PROVE  me'[t] \notin file'[number'[me'[t]]][x].by
    <2>1. CASE t # s
      <3>1. me'[t] = me[t] /\ pc'[t] = pc[t] /\ pc[t] # "idle"
        BY <1>1, <1>3, <2>1 DEF NumberInv, LogTypeOK, Ahead
      <3>2. me[t] \in 1..calls
        BY <3>1, SessionFacts
      <3>3. number'[me[t]] = number[me[t]]
        BY <1>1, <3>2 DEF NumberInv, LogTypeOK
      <3> QED BY <1>1, <1>3, <3>1, <3>3 DEF FileInv
    <2>2. CASE t = s
      <3>1. me'[t] = calls + 1 /\ pc'[t] = "prompt" /\ x \in Ext
        BY <1>1, <1>3, <2>2 DEF NumberInv, LogTypeOK, Ahead
      <3>2. number'[me'[t]] \in Numbers
        BY <1>1, <1>2, <3>1 DEF NumberInv, LogTypeOK, Attribution, Numbers, Calls
      <3>3. file'[number'[me'[t]]][x].by \subseteq 1..calls
        <4> DEFINE n == number'[me'[t]]
        <4>1. file[n][x] \in File /\ n \in Numbers
          BY <3>1, <3>2 DEF NumberInv, LogTypeOK
        <4>2. \A c \in file[n][x].by : c \in Calls /\ c <= calls
          BY <3>1, <4>1 DEF NumberInv, Attribution, File
        <4>3. \A c \in file[n][x].by : c \in 1..calls
          BY <1>1, <4>2 DEF Calls
        <4> HIDE DEF n
        <4>4. file[n][x].by \subseteq 1..calls
          BY <4>3
        <4> QED BY <1>1, <4>4 DEF n
      <3> QED BY <1>1, <3>1, <3>3
    <2> QED BY <2>1, <2>2
  <1>4. \A t \in Sessions : pc'[t] \in {"json", "jsonText"} => me'[t] \in answered'
    BY <1>1 DEF FileInv, NumberInv, LogTypeOK
  <1> QED BY <1>1, <1>3, <1>4 DEF FileInv

LEMMA NextFiles ==
  ASSUME StepLogAssumption, NumberInv, FileInv, [Next]_vars
  PROVE  FileInv'
  <1>1. CASE UNCHANGED agent
    BY <1>1 DEF agent, FileInv
  <1>2. CASE NewRun
    BY <1>2 DEF NewRun, FileInv, Ahead
  <1>3. ASSUME NEW r \in Renders, List(r) \/ Look(r) \/ ReadFile(r) \/ Store(r) \/ Show(r)
        PROVE  UNCHANGED agent
    BY <1>3 DEF List, Look, ReadFile, Store, Keep, Show
  <1> QED BY <1>1, <1>2, <1>3, BeginFiles, OpenFiles DEF Next, vars

\* Without a blind start files grow and keep their writer.
LEMMA FilesGrow ==
  ASSUME StepLogAssumption, NumberInv, FileInv, [Next]_vars, ~blind'
  PROVE  /\ ~blind
         /\ \A n \in Numbers, x \in Ext :
              /\ file[n][x].size <= file'[n][x].size
              /\ file[n][x].by # {} => file'[n][x].by = file[n][x].by
         /\ \A c \in Calls, n \in Numbers :
              n = number[c] /\ c \in answered => n = number'[c] /\ c \in answered'
  <1>1. CASE UNCHANGED <<file, number, answered, blind>>
    BY <1>1 DEF NumberInv, LogTypeOK, File
  <1>2. ASSUME NEW s \in Sessions, Begin(s)
        PROVE  UNCHANGED file /\ ~blind /\ answered' = answered
               /\ \A c \in 1..calls : number'[c] = number[c]
    BY <1>2 DEF Begin, NextSeq, NumberInv, LogTypeOK, Fault
  <1>3. ASSUME NEW s \in Sessions, Open(s) \/ Write(s) \/ Stream(s) \/ Return(s), ~blind
        PROVE  /\ UNCHANGED <<number, blind>> /\ answered \subseteq answered'
               /\ \A n \in Numbers, x \in Ext :
                    /\ file[n][x].size <= file'[n][x].size
                    /\ file[n][x].by # {} => file'[n][x].by = file[n][x].by
    <2>1. pc[s] # "idle" /\ pc[s] \in Places /\ UNCHANGED <<number, blind>>
      BY <1>3 DEF Open, Write, Stream, Return, Opening, Text, NumberInv, LogTypeOK
    <2>2. /\ me[s] \in Calls /\ number[me[s]] \in Numbers
          /\ Kind[pc[s]] \in Ext /\ Mine(s) \in File
      BY <2>1, SessionFacts
    <2>3. Mine(s).by \subseteq {me[s]}
      BY <2>1, <2>2, SoleWriter DEF Mine
    <2> DEFINE Grow == \A n \in Numbers, x \in Ext :
                         /\ file[n][x].size <= file'[n][x].size
                         /\ file[n][x].by # {} => file'[n][x].by = file[n][x].by
    <2>9. \A n \in Numbers, x \in Ext : file[n][x].size \in Nat
      BY DEF NumberInv, LogTypeOK, File
    <2>4. ASSUME Put(s, [by |-> {me[s]}, size |-> 0]), pc[s] \in Opening PROVE Grow
      <3>1. [by |-> {me[s]}, size |-> 0] \in File
        BY <2>2 DEF File
      <3>2. Kind[pc[s]] \in Ahead[pc[s]]
        BY <2>4 DEF Opening, Kind, Ahead, Ext
      <3>3. me[s] \notin Mine(s).by
        BY <3>2 DEF FileInv, Mine
      <3>4. Mine(s).by = {} /\ Mine(s).size = 0
        BY <2>2, <2>3, <3>3 DEF FileInv, Mine
      <3> QED BY <2>1, <2>2, <2>4, <2>9, <3>1, <3>4, PutFacts DEF Mine
    <2>5. ASSUME Put(s, Grown(s)), Mine(s).by # {} PROVE Grow
      <3>1. Grown(s) \in File /\ Grown(s).by = Mine(s).by /\ Mine(s).size <= Grown(s).size
        BY <2>2, <2>3, <2>5 DEF Grown, File
      <3> QED BY <2>1, <2>2, <2>5, <2>9, <3>1, PutFacts DEF Mine
    <2>6. ASSUME UNCHANGED file PROVE Grow
      BY <2>6, <2>9
    <2>7. answered \subseteq answered'
      BY <1>3 DEF Open, Write, Stream, Return
    <2>8. Grow
      BY <1>3, <2>4, <2>5, <2>6 DEF Open, Write, Stream, Return
    <2> QED BY <2>1, <2>7, <2>8
  <1>4. CASE NewRun
    BY <1>4 DEF NewRun, NumberInv, LogTypeOK, File
  <1>5. ASSUME NEW r \in Renders, List(r) \/ Look(r) \/ ReadFile(r) \/ Store(r) \/ Show(r)
        PROVE  UNCHANGED <<file, number, answered, blind>>
    BY <1>5 DEF List, Look, ReadFile, Store, Keep, Show, agent
  <1>6. ~blind
    <2>1. ASSUME NEW s \in Sessions, Open(s) \/ Write(s) \/ Stream(s) \/ Return(s)
          PROVE  UNCHANGED blind
      BY <2>1 DEF Open, Write, Stream, Return
    <2> QED BY <1>1, <1>2, <1>5, <2>1 DEF Next, NewRun, vars, agent
  <1> QED
    <2>1. CASE \E s \in Sessions : Begin(s)
      BY <1>2, <1>6, <2>1 DEF NumberInv, LogTypeOK, File
    <2>2. CASE \E s \in Sessions : Open(s) \/ Write(s) \/ Stream(s) \/ Return(s)
      BY <1>3, <1>6, <2>2
    <2>3. CASE UNCHANGED <<file, number, answered, blind>>
      BY <1>1, <1>6, <2>3
    <2> QED BY <1>4, <1>5, <1>6, <2>1, <2>2, <2>3 DEF Next, vars, agent

ReadTypeOK ==
  /\ memo \in [Read -> [size : Int, body : File]]
  /\ rpc \in [Renders -> {"idle", "file", "read", "store"}]
  /\ todo \in [Renders -> SUBSET Read]
  /\ info \in [Renders -> Nat]
  /\ body \in [Renders -> File]
  /\ got \in [Renders -> [Read -> File]]

\* What f holds of a file is no more than is there, and is of its writer.
Part(f, x) == f.by # {} /\ f.by = Disk[x].by /\ f.size <= Disk[x].size

\* The cache never holds less than the size it answers for.
Kept ==
  \A x \in Read :
    memo[x].size >= 0 => Part(memo[x].body, x) /\ memo[x].size <= memo[x].body.size

\* A render, on its way through the files of its listing.
Sound(r) ==
  /\ rpc[r] = "idle" => todo[r] = {} /\ r \notin ended
  /\ \A x \in todo[r] : Disk[x].by # {}
  /\ \A x \in Read : got[r][x].size <= Disk[x].size
  /\ \A x \in todo[r] : First(x, todo[r]) =>
       /\ rpc[r] = "read" => info[r] <= Disk[x].size
       /\ rpc[r] = "store" => Part(body[r], x) /\ info[r] <= body[r].size
  /\ r \in ended =>
       /\ Disk["json"].size > 0
       /\ "json" \in todo[r] /\ rpc[r] \in {"read", "store"} => info[r] > 0
       /\ "json" \notin todo[r] /\ r \notin spoilt => Settled(got[r])

ReadInv ==
  /\ ReadTypeOK
  /\ ~blind => Kept /\ \A r \in Renders : Sound(r)

StepInv == NumberInv /\ FileInv /\ ReadInv

LEMMA InitRead ==
  ASSUME StepLogAssumption, Init
  PROVE  ReadInv
  <1>1. NoFile \in File /\ NoMemo \in [size : Int, body : File]
    BY DEF NoFile, NoMemo, File
  <1>2. ReadTypeOK
    BY <1>1 DEF Init, ReadTypeOK
  <1>3. Kept
    BY DEF Init, Kept, NoMemo
  <1>4. \A r \in Renders : Sound(r)
    BY DEF StepLogAssumption, Init, Sound, Disk, NoFile, Read, Ext, Numbers
  <1> QED BY <1>2, <1>3, <1>4 DEF ReadInv

\* The step of a session: the renders and the cache stay as they are.
LEMMA GrowRead ==
  ASSUME StepLogAssumption, StepInv, [Next]_vars, UNCHANGED <<memo, view, ended, spoilt>>
  PROVE  ReadInv'
  <1>1. ReadTypeOK'
    BY DEF StepInv, ReadInv, ReadTypeOK, view
  <1>2. SUFFICES ASSUME ~blind' PROVE Kept' /\ \A r \in Renders : Sound(r)'
    BY <1>1 DEF ReadInv
  <1>3. /\ ~blind
        /\ \A x \in Read : /\ Disk[x] \in File /\ Disk'[x] \in File
                           /\ Disk[x].size <= Disk'[x].size
                           /\ Disk[x].by # {} => Disk'[x].by = Disk[x].by
    <2>1. NumberInv'
      BY NextNumber DEF StepInv
    <2>2. Shown \in Numbers /\ Read \subseteq Ext
      BY DEF StepLogAssumption, Numbers, Read, Ext
    <2> QED BY <1>2, <2>1, <2>2, FilesGrow DEF StepInv, NumberInv, LogTypeOK, Disk
  <1>4. Kept'
    <2>1. \A x \in Read : memo[x].body.size \in Nat
      BY DEF StepInv, ReadInv, ReadTypeOK, File
    <2>2. \A x \in Read : Disk[x].size \in Nat /\ Disk'[x].size \in Nat
      BY <1>3 DEF File
    <2> QED BY <1>3, <2>1, <2>2 DEF StepInv, ReadInv, Kept, Part
  <1>5. ASSUME NEW r \in Renders PROVE Sound(r)'
    <2>1. /\ Sound(r)
          /\ UNCHANGED <<rpc[r], todo[r], info[r], body[r], got[r], ended, spoilt>>
          /\ todo[r] \subseteq Read /\ body[r].size \in Nat /\ info[r] \in Nat
          /\ \A x \in Read : got[r][x].size \in Nat
      BY <1>3 DEF StepInv, ReadInv, ReadTypeOK, view, File
    <2>2. \A x \in Read : Disk[x].size \in Nat /\ Disk'[x].size \in Nat
      BY <1>3 DEF File
    <2>3. \A x \in todo[r] : Disk'[x].by # {}
      BY <1>3, <2>1 DEF Sound
    <2>4. \A x \in Read : got[r][x].size <= Disk'[x].size
      BY <1>3, <2>1, <2>2 DEF Sound
    <2>5. \A x \in todo[r] : First(x, todo[r]) =>
            /\ rpc[r] = "read" => info[r] <= Disk'[x].size
            /\ rpc[r] = "store" => Part(body[r], x)' /\ info[r] <= body[r].size
      BY <1>3, <2>1, <2>2 DEF Sound, Part
    <2>6. r \in ended => Disk'["json"].size > 0
      BY <1>3, <2>1, <2>2 DEF Sound, Read
    <2> QED BY <2>1, <2>3, <2>4, <2>5, <2>6 DEF Sound
  <1> QED BY <1>4, <1>5

\* A render takes f for the file x and looks at the next one.
LEMMA UseFacts ==
  ASSUME ReadTypeOK, NEW r \in Renders, NEW x \in todo[r], NEW f \in File, Use(r, x, f)
  PROVE  /\ got' \in [Renders -> [Read -> File]] /\ todo' \in [Renders -> SUBSET Read]
         /\ info' \in [Renders -> Nat] /\ body' \in [Renders -> File]
         /\ todo'[r] = todo[r] \ {x} /\ got'[r][x] = f
         /\ \A y \in Read \ {x} : got'[r][y] = got[r][y]
  <1>1. NoFile \in File /\ x \in Read
    BY DEF NoFile, File, ReadTypeOK
  <1> QED BY <1>1 DEF Use, ReadTypeOK

\* That step is sound when f is.
LEMMA UseSound ==
  ASSUME ReadTypeOK, NEW r \in Renders, Sound(r), NEW x \in todo[r], NEW f \in File,
         Use(r, x, f), UNCHANGED <<Disk, ended>>, rpc'[r] = "file",
         f.size <= Disk[x].size,
         r \in spoilt => r \in spoilt',
         r \in ended /\ x = "json" /\ r \notin spoilt' => f.by # {} /\ f.size > 0
  PROVE  Sound(r)'
  <1>1. /\ todo'[r] = todo[r] \ {x} /\ got'[r][x] = f /\ x \in Read
        /\ \A y \in Read \ {x} : got'[r][y] = got[r][y]
    BY UseFacts DEF ReadTypeOK
  <1>2. \A y \in Read : got'[r][y].size <= Disk[y].size
    BY <1>1 DEF Sound
  <1>3. r \in ended /\ "json" \notin todo'[r] /\ r \notin spoilt' => Settled(got'[r])
    <2>1. CASE x = "json"
      BY <1>1, <2>1 DEF Settled
    <2>2. CASE x # "json"
      BY <1>1, <2>2 DEF Settled, Sound, Read
    <2> QED BY <2>1, <2>2
  <1> QED BY <1>1, <1>2, <1>3 DEF Sound

\* The step of a render: the files stay as they are, and so do other renders.
LEMMA RenderRead ==
  ASSUME StepLogAssumption, StepInv, NEW r \in Renders,
         List(r) \/ Look(r) \/ ReadFile(r) \/ Store(r) \/ Show(r)
  PROVE  ReadInv'
  <1>1. UNCHANGED <<file, number, answered, blind>>
    BY DEF List, Look, ReadFile, Store, Keep, Show, agent
  <1>2. \A x \in Read : Disk[x] \in File /\ Disk[x].size \in Nat
    BY DEF StepLogAssumption, Numbers, Read, Ext, StepInv, NumberInv, LogTypeOK, Disk, File
  <1>3. Disk' = Disk
    BY <1>1 DEF Disk
  <1>4. ReadTypeOK
    BY DEF StepInv, ReadInv
  <1>5. NoFile \in File /\ \A x \in Read : [by |-> Disk[x].by, size |-> 0] \in File
    BY <1>2 DEF NoFile, File
  <1>6. ReadTypeOK'
    <2>1. CASE List(r)
      BY <1>4, <1>5, <2>1 DEF List, ReadTypeOK, Read, Ext
    <2>2. CASE Look(r)
      <3>1. PICK x \in todo[r] :
              \/ Use(r, x, memo[x].body) /\ UNCHANGED rpc
              \/ /\ info' = [info EXCEPT ![r] = Disk[x].size]
                 /\ rpc' = [rpc EXCEPT ![r] = "read"]
                 /\ UNCHANGED <<got, todo, body>>
        BY <2>2 DEF Look
      <3>2. x \in Read /\ memo[x].body \in File /\ Disk[x].size \in Nat
        BY <1>2, <1>4 DEF ReadTypeOK
      <3>3. UNCHANGED memo
        BY <2>2 DEF Look
      <3>4. CASE Use(r, x, memo[x].body) /\ UNCHANGED rpc
        BY <1>4, <3>2, <3>3, <3>4, UseFacts DEF ReadTypeOK
      <3>5. CASE /\ info' = [info EXCEPT ![r] = Disk[x].size]
                 /\ rpc' = [rpc EXCEPT ![r] = "read"]
                 /\ UNCHANGED <<got, todo, body>>
        BY <1>4, <3>2, <3>3, <3>5 DEF ReadTypeOK
      <3> QED BY <3>1, <3>4, <3>5
    <2>3. CASE ReadFile(r)
      <3>1. PICK x \in todo[r] :
              \/ /\ body' = [body EXCEPT ![r] = Disk[x]]
                 /\ rpc' = [rpc EXCEPT ![r] = "store"]
                 /\ UNCHANGED <<got, todo, info>>
              \/ /\ Use(r, x, [by |-> Disk[x].by, size |-> 0])
                 /\ rpc' = [rpc EXCEPT ![r] = "file"]
        BY <2>3 DEF ReadFile
      <3>2. x \in Read /\ Disk[x] \in File /\ [by |-> Disk[x].by, size |-> 0] \in File
        BY <1>2, <1>4, <1>5 DEF ReadTypeOK
      <3>3. UNCHANGED memo
        BY <2>3 DEF ReadFile
      <3>4. CASE UNCHANGED <<got, todo, info>>
        BY <1>4, <3>1, <3>2, <3>3, <3>4, UseFacts DEF ReadTypeOK
      <3>5. CASE /\ Use(r, x, [by |-> Disk[x].by, size |-> 0])
                 /\ rpc' = [rpc EXCEPT ![r] = "file"]
        BY <1>4, <3>2, <3>3, <3>5, UseFacts DEF ReadTypeOK
      <3> QED BY <3>1, <3>4, <3>5
    <2>4. CASE Store(r)
      BY <1>2, <1>4, <1>5, <2>4 DEF Store, Keep, Use, ReadTypeOK
    <2>5. CASE Show(r)
      BY <1>4, <1>5, <2>5 DEF Show, ReadTypeOK
    <2> QED BY <2>1, <2>2, <2>3, <2>4, <2>5
  <1> SUFFICES ASSUME ~blind PROVE Kept' /\ \A q \in Renders : Sound(q)'
    BY <1>1, <1>6 DEF ReadInv
  <1>7. Kept /\ Sound(r)
    BY DEF StepInv, ReadInv
  <1>8. ASSUME NEW q \in Renders \ {r} PROVE Sound(q)'
    <2>1. /\ rpc'[q] = rpc[q] /\ todo'[q] = todo[q] /\ info'[q] = info[q]
          /\ body'[q] = body[q] /\ got'[q] = got[q]
          /\ q \in ended' <=> q \in ended
          /\ q \in spoilt' <=> q \in spoilt
      BY <1>4 DEF List, Look, ReadFile, Store, Keep, Show, Use, ReadTypeOK
    <2>2. Sound(q)
      BY DEF StepInv, ReadInv
    <2> QED BY <1>3, <2>1, <2>2 DEF Sound, Part
  <1>9. \A x, y \in todo[r] : First(x, todo[r]) /\ First(y, todo[r]) => x = y
    BY <1>4 DEF First, ReadTypeOK, Read
  <1>10. ASSUME List(r) PROVE Kept' /\ Sound(r)'
    <2>1. UNCHANGED memo /\ spoilt' = spoilt
      BY <1>10 DEF List
    <2>2. Kept'
      BY <1>3, <1>7, <2>1 DEF Kept, Part
    <2>3. /\ todo'[r] = {x \in Read : Exists(Shown, x)}
          /\ got'[r] = [x \in Read |-> NoFile] /\ rpc'[r] = "file"
          /\ r \in ended' => Answered \/ r \in ended
      BY <1>4, <1>10 DEF List, ReadTypeOK
    <2>4. \A x \in todo'[r] : Disk[x].by # {}
      BY <2>3 DEF Exists, Disk
    <2>5. \A x \in Read : got'[r][x].size <= Disk[x].size
      BY <1>2, <2>3 DEF NoFile
    <2>6. r \in ended' => Disk["json"].size > 0
      BY <1>7, <2>3 DEF Answered, Sound
    <2>7. r \in ended' => "json" \in todo'[r]
      <3>1. Disk["json"].by = {} => Disk["json"].size = 0
        BY DEF StepLogAssumption, StepInv, FileInv, Disk, Numbers, Ext
      <3> QED BY <2>3, <2>6, <3>1 DEF Read, Exists, Disk
    <2> QED BY <1>3, <2>2, <2>3, <2>4, <2>5, <2>6, <2>7 DEF Sound
  <1>11. ASSUME Look(r) PROVE Kept' /\ Sound(r)'
    <2>1. PICK x \in todo[r] :
            /\ First(x, todo[r])
            /\ IF memo[x].size = Disk[x].size
               THEN Use(r, x, memo[x].body) /\ UNCHANGED rpc
               ELSE /\ info' = [info EXCEPT ![r] = Disk[x].size]
                    /\ rpc' = [rpc EXCEPT ![r] = "read"]
                    /\ UNCHANGED <<got, todo, body>>
      BY <1>11 DEF Look
    <2>2. UNCHANGED <<memo, ended, spoilt>> /\ rpc[r] = "file"
      BY <1>11 DEF Look
    <2>3. Kept'
      BY <1>3, <1>7, <2>2 DEF Kept, Part
    <2>4. x \in Read /\ memo[x].body \in File /\ memo[x].size \in Int
      BY <1>4 DEF ReadTypeOK
    <2>5. CASE memo[x].size = Disk[x].size
      <3>1. memo[x].size >= 0
        BY <1>2, <2>4, <2>5
      <3>2. Part(memo[x].body, x) /\ memo[x].size <= memo[x].body.size
        BY <1>7, <2>4, <3>1 DEF Kept
      <3>3. r \in ended /\ x = "json" => memo[x].body.size > 0
        BY <1>2, <1>7, <2>4, <2>5, <3>2 DEF Sound, File
      <3>4. Sound(r)'
        BY <1>3, <1>4, <1>7, <2>1, <2>2, <2>4, <2>5, <3>2, <3>3, UseSound DEF Part
      <3> QED BY <2>3, <3>4
    <2>6. CASE memo[x].size # Disk[x].size
      <3>1. /\ info'[r] = Disk[x].size /\ rpc'[r] = "read"
            /\ UNCHANGED <<got, todo, body>>
        BY <1>4, <2>1, <2>6 DEF ReadTypeOK
      <3>2. \A y \in todo[r] : First(y, todo[r]) => info'[r] <= Disk[y].size
        BY <1>2, <1>9, <2>1, <2>4, <3>1
      <3>3. r \in ended /\ "json" \in todo[r] => info'[r] > 0
        <4>1. "json" \in todo[r] => x = "json"
          BY <2>1, <2>4 DEF First, Read
        <4> QED BY <1>7, <3>1, <4>1 DEF Sound
      <3>4. Sound(r)'
        BY <1>3, <1>7, <2>2, <3>1, <3>2, <3>3 DEF Sound
      <3> QED BY <2>3, <3>4
    <2> QED BY <2>5, <2>6
  <1>12. ASSUME ReadFile(r) PROVE Kept' /\ Sound(r)'
    <2>1. PICK x \in todo[r] :
            /\ First(x, todo[r])
            /\ \/ /\ body' = [body EXCEPT ![r] = Disk[x]]
                  /\ rpc' = [rpc EXCEPT ![r] = "store"]
                  /\ UNCHANGED <<got, todo, info, faults, spoilt>>
               \/ /\ Fault /\ spoilt' = spoilt \cup {r}
                  /\ Use(r, x, [by |-> Disk[x].by, size |-> 0])
                  /\ rpc' = [rpc EXCEPT ![r] = "file"]
      BY <1>12 DEF ReadFile
    <2>2. UNCHANGED <<memo, ended>> /\ rpc[r] = "read"
      BY <1>12 DEF ReadFile
    <2>3. Kept'
      BY <1>3, <1>7, <2>2 DEF Kept, Part
    <2>4. x \in Read
      BY <1>4 DEF ReadTypeOK
    <2>5. CASE /\ spoilt' = spoilt \cup {r}
               /\ Use(r, x, [by |-> Disk[x].by, size |-> 0])
               /\ rpc' = [rpc EXCEPT ![r] = "file"]
      <3>1. /\ [by |-> Disk[x].by, size |-> 0] \in File
            /\ [by |-> Disk[x].by, size |-> 0].size <= Disk[x].size
            /\ rpc'[r] = "file" /\ r \in spoilt'
        BY <1>2, <1>4, <1>5, <2>4, <2>5 DEF ReadTypeOK
      <3>2. Sound(r)'
        BY <1>3, <1>4, <1>7, <2>2, <2>5, <3>1, UseSound
      <3> QED BY <2>3, <3>2
    <2>6. CASE /\ body' = [body EXCEPT ![r] = Disk[x]]
               /\ rpc' = [rpc EXCEPT ![r] = "store"]
               /\ UNCHANGED <<got, todo, info, faults, spoilt>>
      <3>1. body'[r] = Disk[x] /\ rpc'[r] = "store"
        BY <1>4, <2>6 DEF ReadTypeOK
      <3>2. Part(body'[r], x) /\ info[r] <= body'[r].size
        BY <1>2, <1>7, <2>1, <2>2, <2>4, <3>1 DEF Part, Sound
      <3>3. \A y \in todo[r] : First(y, todo[r]) => y = x
        BY <1>9, <2>1
      <3>4. Sound(r)'
        BY <1>3, <1>7, <2>2, <2>6, <3>1, <3>2, <3>3 DEF Sound, Part
      <3> QED BY <2>3, <3>4
    <2> QED BY <2>1, <2>5, <2>6
  <1>13. ASSUME Store(r) PROVE Kept' /\ Sound(r)'
    <2>1. PICK x \in todo[r] :
            /\ First(x, todo[r])
            /\ memo' = [memo EXCEPT ![x] =
                          [size |-> [y \in Read |-> info[r]][x], body |-> body[r]]]
            /\ Use(r, x, body[r])
      BY <1>13 DEF Store, Keep
    <2>2. UNCHANGED <<ended, spoilt>> /\ rpc[r] = "store" /\ rpc'[r] = "file"
      BY <1>4, <1>13 DEF Store, Keep, ReadTypeOK
    <2>3. x \in Read /\ body[r] \in File /\ body[r].size \in Nat /\ info[r] \in Nat
      BY <1>4 DEF ReadTypeOK, File
    <2>4. Part(body[r], x) /\ info[r] <= body[r].size
      BY <1>7, <2>1, <2>2 DEF Sound
    <2>5. Kept'
      <3>1. memo'[x] = [size |-> info[r], body |-> body[r]]
        BY <1>4, <2>1, <2>3 DEF ReadTypeOK
      <3>2. \A y \in Read \ {x} : memo'[y] = memo[y]
        BY <1>4, <2>1 DEF ReadTypeOK
      <3> QED BY <1>3, <1>7, <2>4, <3>1, <3>2 DEF Kept, Part
    <2>6. r \in ended /\ x = "json" => body[r].size > 0
      BY <1>7, <2>2, <2>3, <2>4 DEF Sound
    <2>7. Sound(r)'
      BY <1>3, <1>4, <1>7, <2>1, <2>2, <2>3, <2>4, <2>6, UseSound DEF Part
    <2> QED BY <2>5, <2>7
  <1>14. ASSUME Show(r) PROVE Kept' /\ Sound(r)'
    <2>1. UNCHANGED memo
      BY <1>14 DEF Show
    <2>2. Kept'
      BY <1>3, <1>7, <2>1 DEF Kept, Part
    <2>3. /\ todo'[r] = {} /\ r \notin ended' /\ got'[r] = [x \in Read |-> NoFile]
      BY <1>4, <1>14 DEF Show, ReadTypeOK
    <2>4. \A x \in Read : got'[r][x].size <= Disk[x].size
      BY <1>2, <2>3 DEF NoFile
    <2> QED BY <1>3, <2>2, <2>3, <2>4 DEF Sound
  <1>15. Kept' /\ Sound(r)'
    BY <1>10, <1>11, <1>12, <1>13, <1>14
  <1> QED BY <1>8, <1>15

LEMMA NextStep ==
  ASSUME StepLogAssumption, StepInv, [Next]_vars
  PROVE  StepInv'
  <1>1. NumberInv' /\ FileInv'
    BY NextNumber, NextFiles DEF StepInv
  <1>2. CASE UNCHANGED <<memo, view, ended, spoilt>>
    BY <1>1, <1>2, GrowRead DEF StepInv
  <1>3. ASSUME NEW r \in Renders, List(r) \/ Look(r) \/ ReadFile(r) \/ Store(r) \/ Show(r)
        PROVE  ReadInv'
    BY <1>3, RenderRead
  <1>4. ASSUME NEW s \in Sessions, Begin(s) \/ Open(s) \/ Write(s) \/ Stream(s) \/ Return(s)
        PROVE  UNCHANGED <<memo, view, ended, spoilt>>
    BY <1>4 DEF Begin, Open, Write, Stream, Return, dashboard
  <1> QED BY <1>1, <1>2, <1>3, <1>4 DEF StepInv, Next, NewRun, vars, dashboard

LEMMA StepInvariant ==
  ASSUME StepLogAssumption
  PROVE  Spec => []StepInv
  <1>1. Init => StepInv
    BY InitNumber, InitFiles, InitRead DEF StepInv
  <1>2. StepInv /\ [Next]_vars => StepInv'
    BY NextStep
  <1> QED BY <1>1, <1>2, PTL DEF Spec

\* A step whose answer was there when the render listed is shown settled, and only
\* an answered one is, whatever the cache holds.
THEOREM EndedShown ==
  ASSUME StepLogAssumption
  PROVE  Spec => []EndedIsShown
  <1>1. StepInv => EndedIsShown
    <2> SUFFICES ASSUME StepInv, NEW r \in Renders, rpc[r] = "file", todo[r] = {},
                        r \notin spoilt, ~blind
                 PROVE  /\ r \in ended => Settled(got[r])
                        /\ Settled(got[r]) => Answered
      BY DEF EndedIsShown
    <2>1. Sound(r) /\ ReadTypeOK
      BY DEF StepInv, ReadInv
    <2>2. r \in ended => Settled(got[r])
      BY <2>1 DEF Sound
    <2>3. ASSUME Settled(got[r]) PROVE Answered
      <3>1. /\ Shown \in Numbers /\ "json" \in Ext /\ "json" \in Read
            /\ Disk["json"] \in File /\ got[r]["json"] \in File
        <4>1. Shown \in Numbers /\ "json" \in Ext /\ "json" \in Read
          BY DEF StepLogAssumption, Numbers, Ext, Read
        <4> QED BY <2>1, <4>1 DEF StepInv, NumberInv, LogTypeOK, Disk, ReadTypeOK
      <3>2. Disk["json"].size > 0
        BY <2>1, <2>3, <3>1 DEF Sound, Settled, File
      <3>3. PICK c \in Disk["json"].by : TRUE
        BY <3>1, <3>2 DEF StepInv, FileInv, Disk
      <3>4. c \in answered /\ number[c] = Shown
        BY <3>1, <3>3 DEF StepInv, FileInv, NumberInv, Attribution, Disk
      <3>5. c \in Calls
        BY <3>1, <3>3 DEF File
      <3> QED BY <3>2, <3>4, <3>5 DEF Answered
    <2> QED BY <2>2, <2>3
  <1> QED BY <1>1, StepInvariant, PTL

\* No read gives less than was there when the render looked.
THEOREM FreshReads ==
  ASSUME StepLogAssumption
  PROVE  Spec => ReadsAreFresh
  <1>1. StepInv /\ [Next]_vars => [FreshRead]_vars
    <2> SUFFICES ASSUME StepInv, Next,
                        NEW r \in Renders, NEW x \in todo[r] \ todo'[r], ~blind,
                        r \notin spoilt'
                 PROVE  /\ got'[r][x].size >=
                             (IF rpc[r] = "file" THEN Disk[x].size ELSE info[r])
                        /\ got'[r][x].by = Disk[x].by
      BY DEF FreshRead
    <2>1. /\ ReadTypeOK /\ Kept /\ Sound(r) /\ x \in Read
          /\ Disk[x] \in File /\ Disk[x].size \in Nat
          /\ memo[x].body \in File /\ memo[x].body.size \in Nat /\ memo[x].size \in Int
          /\ body[r] \in File /\ body[r].size \in Nat /\ info[r] \in Nat
      <3>1. ReadTypeOK /\ Kept /\ Sound(r)
        BY DEF StepInv, ReadInv
      <3>2. x \in Read /\ memo[x].body \in File /\ memo[x].size \in Int
            /\ body[r] \in File /\ info[r] \in Nat
        BY <3>1 DEF ReadTypeOK
      <3>3. Shown \in Numbers /\ x \in Ext
        BY <3>2 DEF StepLogAssumption, Numbers, Ext, Read
      <3>4. Disk[x] \in File
        BY <3>3 DEF StepInv, NumberInv, LogTypeOK, Disk
      <3> QED BY <3>1, <3>2, <3>4 DEF File
    <2>2. CASE Look(r)
      <3>1. PICK y \in todo[r] : memo[y].size = Disk[y].size /\ Use(r, y, memo[y].body)
        BY <2>2 DEF Look
      <3>2. rpc[r] = "file" /\ memo[y].body \in File
        BY <2>1, <2>2, <3>1 DEF Look, ReadTypeOK
      <3>3. todo'[r] = todo[r] \ {y} /\ got'[r][y] = memo[y].body
        BY <2>1, <3>1, <3>2, UseFacts
      <3>4. x = y
        BY <3>3
      <3>5. Part(memo[x].body, x) /\ memo[x].size <= memo[x].body.size
        BY <2>1, <3>1, <3>4 DEF Kept
      <3> QED BY <2>1, <3>1, <3>2, <3>3, <3>4, <3>5 DEF Part
    <2>3. CASE Store(r)
      <3>1. PICK y \in todo[r] : First(y, todo[r]) /\ Use(r, y, body[r])
        BY <2>3 DEF Store, Keep
      <3>2. rpc[r] = "store"
        BY <2>3 DEF Store, Keep
      <3>3. todo'[r] = todo[r] \ {y} /\ got'[r][y] = body[r]
        BY <2>1, <3>1, UseFacts
      <3>4. x = y
        BY <3>3
      <3>5. Part(body[r], x) /\ info[r] <= body[r].size
        BY <3>1, <3>2, <3>4, <2>1 DEF Sound
      <3> QED BY <2>1, <3>2, <3>3, <3>4, <3>5 DEF Part
    <2>4. CASE ReadFile(r)
      <3>1. UNCHANGED todo \/ r \in spoilt'
        BY <2>4 DEF ReadFile
      <3> QED BY <3>1
    <2>5. CASE List(r) \/ Show(r)
      <3>1. todo[r] = {}
        BY <2>1, <2>5 DEF List, Show, Sound
      <3> QED BY <3>1
    <2>6. ASSUME NEW q \in Renders \ {r},
                 List(q) \/ Look(q) \/ ReadFile(q) \/ Store(q) \/ Show(q)
          PROVE  todo'[r] = todo[r]
      BY <2>1, <2>6 DEF List, Look, ReadFile, Store, Keep, Show, Use, ReadTypeOK
    <2>7. ASSUME NEW s \in Sessions,
                 Begin(s) \/ Open(s) \/ Write(s) \/ Stream(s) \/ Return(s)
          PROVE  UNCHANGED todo
      BY <2>7 DEF Begin, Open, Write, Stream, Return, dashboard, view
    <2>8. CASE NewRun
      BY <2>8 DEF NewRun, dashboard, view
    <2> QED BY <2>2, <2>3, <2>4, <2>5, <2>6, <2>7, <2>8 DEF Next
  <1> QED BY <1>1, StepInvariant, PTL DEF Spec, ReadsAreFresh
=============================================================================
