--------------------------- MODULE PipelineProofs ---------------------------
(***************************************************************************)
(* Theorems about Pipeline, for every number of Q&A rounds, review rounds, *)
(* sessions, runs and mishaps.                                             *)
(*                                                                         *)
(* The inductive invariant PInv says, beside the types, what a run knows   *)
(* at each place: which session it is talking to, that this session is the *)
(* head of the chain and was not recorded as complete, how far the stages  *)
(* have got, and which review round is in progress.  HeadInv is what is    *)
(* left of that on disk when a crash ends the run.  RoundsInv counts the   *)
(* rounds, and Left the steps a run has left at most.                      *)
(***************************************************************************)
EXTENDS Pipeline, TLAPS

USE DEF github, lineage, disk, locals, memory, bounds, history

-----------------------------------------------------------------------------

Stage == EntryLike \cup {"plan", "execute", "codereview", "none"}
PipelineKind == {"", "bug", "feature"}
Prompt == {"full", "diff", "continue", "reply", "none"}
Place == {"off", "down", "spawn", "turn", "loop", "stamp", "rewrite", "fixed",
          "specDone", "planDone", "join", "ship", "review", "record", "reviewed",
          "finish"}
ChainNode == [id : Nat, stage : Stage, kind : PipelineKind]

\* Every variable the proofs need has the values its Go counterpart can take.
PipelineTypes ==
  /\ chain \in Seq(ChainNode) /\ held \in Seq(ChainNode)
  /\ file \in [id : Nat, stage : Stage, kind : PipelineKind, pre : BOOLEAN]
  /\ at \in Place
  /\ call \in [stage : Stage, resume : Nat, prompt : Prompt]
  /\ ids \in Nat /\ sid \in 0..ids /\ finished \subseteq 1..ids
  /\ kind \in PipelineKind
  /\ round \in [n : Nat, id : Nat] /\ rev \in Nat
  /\ reached \in {0, 2, 3, 4}

\* The UAT session runs beside plan and execute or before the join, and spends
\* itself only on an issue without a checklist.
UatInv ==
  /\ uat \in {"off", "check", "post"}
  /\ lists \in {0, 1} /\ (uat = "post" => lists = 0)
  /\ uat # "off" => at \in {"spawn", "turn", "planDone", "join"}
  /\ uat # "off" /\ at \in {"spawn", "turn"} => call.stage \in {"plan", "execute"}

\* The review round in progress comes after the last complete one.
ReviewInv ==
  (at \in {"spawn", "turn"} /\ call.stage = "codereview") \/ at = "record"
    => ~reviewed /\ rev = round.n + 1 /\ rev <= Rounds

\* The places at which the run's session has answered.
Answered == {"turn", "loop", "stamp", "specDone", "planDone", "record"}

\* The session a run talks to, and the one it has resumed, were not recorded as
\* complete; the first is the head of the chain, or of what SetHeadKind is about
\* to write.
SessionInv ==
  /\ at \in {"spawn", "turn", "loop"} => call.resume \notin finished
  /\ at \in Answered \cup {"rewrite"} => sid \notin finished /\ sid # 0
  /\ at \in Answered => chain # <<>> /\ HeadNode.id = sid
  /\ at = "turn" => HeadNode.stage = call.stage
  /\ at \in {"loop", "stamp", "specDone"} => HeadNode.stage \in EntryLike
  /\ at = "record" => HeadNode.stage = "codereview"
  /\ at \in {"turn", "loop", "stamp", "rewrite"} => file.id = sid /\ ~file.pre
  /\ at = "rewrite" => /\ chain = <<>> /\ held # <<>>
                       /\ held[Len(held)].id = sid /\ held[Len(held)].stage \in EntryLike

\* What a later run would resume was not recorded as complete; a review session
\* that was is the one the round marker names.
HeadInv ==
  IF HeadNode.stage = "codereview"
  THEN HeadNode.id = round.id \/ HeadNode.id \notin finished
  ELSE ResumePoint.id \notin finished

\* The stage at work, and the one a later run would open with, is at least the
\* furthest one checkpointed, while the artifacts are there.
ReachedInv ==
  /\ at \in {"spawn", "turn"} => Rank(call.stage) >= reached
  /\ at \in {"loop", "stamp", "rewrite", "specDone", "fixed"} => reached = 0
  /\ at \in {"stamp", "rewrite", "specDone"} /\ kind = "feature" => "spec" \in have
  /\ at = "specDone" => kind = "feature"
  /\ at = "planDone" => "plan" \in have /\ reached <= 2
  /\ reached # 0 => chain # <<>> /\ Rank(HeadNode.stage) >= reached
  /\ reached # 0 /\ HeadNode.id = 0
       => HeadNode.stage \in {"plan", "execute"} /\ Artifact(HeadNode.stage) \in have

PInv == PipelineTypes /\ UatInv /\ ReviewInv /\ SessionInv /\ HeadInv /\ ReachedInv

-----------------------------------------------------------------------------

LEMMA RankType == \A s \in Stage : Rank(s) \in 0..4
  BY DEF Rank

LEMMA RankOf ==
  /\ \A s \in EntryLike : Rank(s) = 1
  /\ Rank("plan") = 2 /\ Rank("execute") = 3 /\ Rank("codereview") = 4 /\ Rank("none") = 0
  BY DEF Rank, EntryLike

\* The head of a typed chain is a node.
LEMMA HeadType ==
  ASSUME chain \in Seq(ChainNode)
  PROVE  HeadNode \in ChainNode /\ (chain = <<>> => HeadNode.id = 0 /\ HeadNode.stage = "none")
  <1>1. CASE chain = <<>>
    BY <1>1 DEF HeadNode, NoNode, Node, ChainNode, Stage, PipelineKind
  <1>2. CASE chain # <<>>
    <2>1. Len(chain) \in 1..Len(chain)
      BY <1>2
    <2> QED BY <1>2, <2>1 DEF HeadNode
  <1> QED BY <1>1, <1>2

\* What is appended is the head.
LEMMA HeadAppend ==
  ASSUME chain \in Seq(ChainNode), NEW n \in ChainNode, chain' = Append(chain, n)
  PROVE  HeadNode' = n /\ chain' # <<>> /\ chain' \in Seq(ChainNode)
  <1>1. chain' \in Seq(ChainNode) /\ Len(chain') = Len(chain) + 1 /\ chain'[Len(chain) + 1] = n
    OBVIOUS
  <1>2. chain' # <<>>
    BY <1>1
  <1> QED BY <1>1, <1>2 DEF HeadNode

\* The node a run resumes from has a type.
LEMMA ResumeType ==
  ASSUME PipelineTypes
  PROVE  /\ ResumePoint \in ChainNode
         /\ chain # <<>> => ResumePoint = HeadNode
         /\ chain = <<>> => ResumePoint.id = IF file.pre THEN 0 ELSE file.id
  <1>1. CASE chain # <<>>
    BY <1>1, HeadType DEF ResumePoint, PipelineTypes
  <1>2. CASE chain = <<>>
    BY <1>2 DEF ResumePoint, PipelineTypes, Node, ChainNode
  <1> QED BY <1>1, <1>2

\* The call a run opens with: the session of the node it continues from, or a
\* fresh one.
LEMMA OpeningType ==
  ASSUME NEW node \in ChainNode, NEW p \in Prompt
  PROVE  /\ Opening(node, p) \in [stage : Stage, resume : Nat, prompt : Prompt]
         /\ Opening(node, p).resume = node.id
         /\ node.id # 0 => Opening(node, p).stage = node.stage
         /\ node.id = 0 /\ node.stage \in {"plan", "execute"} /\ Artifact(node.stage) \in have
              => Opening(node, p).stage = node.stage
         /\ node.stage # "codereview" => Opening(node, p).stage # "codereview"
  BY DEF Opening, Call, ChainNode, Stage, Prompt, EntryLike

LEMMA PromptType == \A s : ResumePrompt(s) \in Prompt
  BY DEF ResumePrompt, Prompt

LEMMA InitPInv == Init => PInv
  <1> SUFFICES ASSUME Init PROVE PInv
    OBVIOUS
  <1>1. PipelineTypes
    <2>1. /\ chain = <<>> \/ \E n \in ChainNode : chain = <<n>>
          /\ file \in [id : Nat, stage : Stage, kind : PipelineKind, pre : BOOLEAN]
          /\ ids \in {0, 1}
      <3>1. CASE chain = <<>> /\ file = NoFile /\ have = {} /\ ids = 0
        BY <3>1 DEF NoFile, Stage, PipelineKind
      <3>2. ASSUME NEW s \in {"brainstorm", "debug"},
                   LET k == IF s = "debug" THEN "bug" ELSE "feature"
                   IN /\ chain = IF s = "debug" THEN <<>> ELSE <<Node(1, s, k)>>
                      /\ file = [id |-> 1, stage |-> s, kind |-> k, pre |-> FALSE]
                      /\ have = {} /\ ids = 1
            PROVE  /\ chain = <<>> \/ \E n \in ChainNode : chain = <<n>>
                   /\ file \in [id : Nat, stage : Stage, kind : PipelineKind, pre : BOOLEAN]
                   /\ ids \in {0, 1}
        <4>1. Node(1, s, "feature") \in ChainNode
          BY DEF Node, ChainNode, Stage, EntryLike, PipelineKind
        <4> QED BY <3>2, <4>1 DEF Stage, EntryLike, PipelineKind
      <3>3. CASE /\ chain = <<>> /\ ids = 1
                 /\ file = [id |-> 1, stage |-> "plan", kind |-> "feature", pre |-> TRUE]
        BY <3>3 DEF Stage, PipelineKind
      <3>4. ASSUME NEW k \in {"bug", "feature"}, ids = 1,
                   chain = <<Node(1, "codereview", k)>>,
                   file = [id |-> 1, stage |-> "codereview", kind |-> k, pre |-> FALSE]
            PROVE  /\ \E n \in ChainNode : chain = <<n>>
                   /\ file \in [id : Nat, stage : Stage, kind : PipelineKind, pre : BOOLEAN]
        <4>1. Node(1, "codereview", k) \in ChainNode
          BY DEF Node, ChainNode, Stage, PipelineKind
        <4> QED BY <3>4, <4>1 DEF Stage, PipelineKind
      <3> QED BY <3>1, <3>2, <3>3, <3>4 DEF Init
    <2>2. chain \in Seq(ChainNode) /\ held \in Seq(ChainNode)
      <3>1. <<>> \in Seq(ChainNode) /\ \A n \in ChainNode : <<n>> \in Seq(ChainNode)
        OBVIOUS
      <3> QED BY <2>1, <3>1 DEF Init
    <2>3. call \in [stage : Stage, resume : Nat, prompt : Prompt]
      BY DEF Init, NoCall, Call, Stage, Prompt
    <2>4. /\ at \in Place /\ sid \in 0..ids /\ finished \subseteq 1..ids /\ kind \in PipelineKind
          /\ rev \in Nat /\ reached \in {0, 2, 3, 4}
      <3>1. at = "off" /\ sid = 0 /\ finished = {} /\ kind = "" /\ rev = 0 /\ reached \in {0, 4}
        BY DEF Init
      <3>2. at \in Place /\ kind \in PipelineKind
        BY <3>1 DEF PipelineKind, Place
      <3>3. sid \in 0..ids /\ finished \subseteq 1..ids
        <4>1. sid = 0 /\ finished = {}
          BY <3>1
        <4>2. ids \in {0, 1}
          BY <2>1
        <4> QED BY <4>1, <4>2
      <3> QED BY <3>1, <3>2, <3>3
    <2>5. round \in [n : Nat, id : Nat]
      <3>1. [n |-> 0, id |-> 0] \in [n : Nat, id : Nat] /\ [n |-> 1, id |-> 0] \in [n : Nat, id : Nat]
        OBVIOUS
      <3>2. round = [n |-> 0, id |-> 0] \/ round = [n |-> 1, id |-> 0]
        BY DEF Init
      <3> QED BY <3>1, <3>2
    <2> QED BY <2>1, <2>2, <2>3, <2>4, <2>5 DEF PipelineTypes
  <1>0. at = "off" /\ uat = "off" /\ lists = 0 /\ finished = {}
    BY DEF Init
  <1>2. UatInv /\ ReviewInv /\ SessionInv
    BY <1>0 DEF UatInv, ReviewInv, SessionInv, Answered
  <1>3. HeadInv
    BY <1>0 DEF HeadInv
  <1>4. ReachedInv
    <2>1. /\ reached # 0 => HeadNode.stage = "codereview"
          /\ HeadNode.stage = "codereview" => chain # <<>> /\ HeadNode.id # 0
      <3>1. HeadNode.stage = "codereview" => chain # <<>>
        BY <1>1, HeadType DEF PipelineTypes
      <3>2. chain # <<>> => HeadNode.id = 1
        <4>1. ASSUME NEW s \in {"brainstorm", "debug"},
                     chain = IF s = "debug" THEN <<>>
                             ELSE <<Node(1, s, IF s = "debug" THEN "bug" ELSE "feature")>>
              PROVE  chain = <<>> \/ chain = <<Node(1, "brainstorm", "feature")>>
          BY <4>1
        <4>2. \/ chain = <<>> \/ chain = <<Node(1, "brainstorm", "feature")>>
              \/ \E k \in {"bug", "feature"} : chain = <<Node(1, "codereview", k)>>
          BY <4>1 DEF Init
        <4>3. ASSUME NEW t, NEW k, chain = <<Node(1, t, k)>>
              PROVE  HeadNode.id = 1
          BY <4>3 DEF HeadNode, Node
        <4> QED BY <4>2, <4>3
      <3>3. reached # 0 => HeadNode.stage = "codereview"
        BY DEF Init
      <3> QED BY <3>1, <3>2, <3>3
    <2> QED BY <1>0, <1>1, <2>1, RankOf DEF ReachedInv, PipelineTypes
  <1> QED BY <1>1, <1>2, <1>3, <1>4 DEF PInv

-----------------------------------------------------------------------------
(***************************************************************************)
(* Types                                                                   *)
(***************************************************************************)

LEMMA StreamsFile ==
  ASSUME PInv, Streams
  PROVE  PipelineTypes'
  <1>0. PipelineTypes
    BY DEF PInv
  <1>1. PICK i \in ({call.resume} \ {0}) \cup {ids + 1} :
          LET node == Node(i, call.stage, CheckpointKind(call.stage))
          IN /\ sid' = i
             /\ ids' = IF i > ids THEN i ELSE ids
             /\ chain' = IF HeadNode.id = i /\ HeadNode.stage = call.stage
                         THEN chain ELSE Append(chain, node)
             /\ file' = [id |-> i, stage |-> call.stage, kind |-> node.kind, pre |-> FALSE]
    BY DEF Streams
  <1>2. i \in Nat \ {0} /\ ids' \in Nat /\ ids <= ids' /\ i <= ids'
    BY <1>0, <1>1 DEF PipelineTypes
  <1>3. CheckpointKind(call.stage) \in PipelineKind
    BY <1>0 DEF CheckpointKind, PipelineTypes, PipelineKind
  <1>4. Node(i, call.stage, CheckpointKind(call.stage)) \in ChainNode
    BY <1>0, <1>2, <1>3 DEF Node, ChainNode, PipelineTypes
  <1>5. chain' \in Seq(ChainNode)
    BY <1>0, <1>1, <1>4, HeadAppend DEF PipelineTypes
  <1>6. file' \in [id : Nat, stage : Stage, kind : PipelineKind, pre : BOOLEAN]
    BY <1>0, <1>1, <1>2, <1>3 DEF Node, PipelineTypes
  <1> QED BY <1>0, <1>1, <1>2, <1>5, <1>6 DEF Streams, PipelineTypes, Goto, Place

LEMMA RewriteTypes ==
  ASSUME PInv, Truncate \/ Rewrite
  PROVE  PipelineTypes'
  <1>0. PipelineTypes
    BY DEF PInv
  <1>1. CASE Truncate
    <2>1. chain # <<>> /\ Len(chain) \in 1..Len(chain)
      BY <1>1, <1>0 DEF Truncate, PInv, SessionInv, Answered, PipelineTypes
    <2>2. chain[Len(chain)] \in ChainNode
      BY <1>0, <2>1 DEF PipelineTypes
    <2>3. [chain[Len(chain)] EXCEPT !.kind = kind] \in ChainNode
      BY <1>0, <2>2 DEF PipelineTypes, ChainNode
    <2>4. held' = [chain EXCEPT ![Len(chain)] = [chain[Len(chain)] EXCEPT !.kind = kind]]
      BY <1>1 DEF Truncate
    <2>5. held' \in Seq(ChainNode)
      BY <1>0, <2>1, <2>3, <2>4 DEF PipelineTypes
    <2> QED BY <1>0, <1>1, <2>5 DEF Truncate, PipelineTypes, Goto, Place, Stay
  <1>2. CASE Rewrite
    <2>1. held # <<>> /\ Len(held) \in 1..Len(held)
      BY <1>2, <1>0 DEF Rewrite, PInv, SessionInv, PipelineTypes
    <2>2. held[Len(held)] \in ChainNode
      BY <1>0, <2>1 DEF PipelineTypes
    <2>3. file' \in [id : Nat, stage : Stage, kind : PipelineKind, pre : BOOLEAN]
      BY <1>0, <1>2, <2>2 DEF Rewrite, PipelineTypes, ChainNode
    <2> QED BY <1>0, <1>2, <2>3 DEF Rewrite, PipelineTypes, Goto, Place, Stay
  <1> QED BY <1>1, <1>2

\* A pending node has a type.
LEMMA CheckpointTypes ==
  ASSUME PInv, SpecDone \/ PlanDone
  PROVE  PipelineTypes'
  <1>1. /\ Node(0, "plan", "feature") \in ChainNode
        /\ Node(0, "execute", "feature") \in ChainNode
    BY DEF Node, ChainNode, Stage, PipelineKind
  <1>2. chain' \in Seq(ChainNode)
    BY <1>1, HeadAppend DEF SpecDone, PlanDone, CheckpointStage, PInv, PipelineTypes
  <1>3. finished' \subseteq 1..ids
    <2>1. sid \in 1..ids /\ finished \subseteq 1..ids
      <3>1. sid \in 0..ids /\ ids \in Nat /\ finished \subseteq 1..ids
        BY DEF PInv, PipelineTypes
      <3>2. sid # 0
        BY DEF SpecDone, PlanDone, PInv, SessionInv, Answered
      <3> QED BY <3>1, <3>2
    <2> QED BY <2>1 DEF SpecDone, PlanDone, CheckpointStage
  <1>4. call' \in [stage : Stage, resume : Nat, prompt : Prompt]
    <2>1. /\ Call("plan", 0, "full") \in [stage : Stage, resume : Nat, prompt : Prompt]
          /\ Call("execute", 0, "full") \in [stage : Stage, resume : Nat, prompt : Prompt]
      BY DEF Call, Stage, Prompt
    <2> QED BY <2>1 DEF SpecDone, PlanDone, Spawn
  <1>5. reached' \in {0, 2, 3, 4}
    BY RankOf DEF SpecDone, PlanDone, CheckpointStage
  <1>6. at' \in Place /\ sid' \in 0..ids' /\ ids' \in Nat /\ kind' \in PipelineKind
    <2>1. ids \in Nat /\ kind \in PipelineKind
      BY DEF PInv, PipelineTypes
    <2>2. at' = "spawn" /\ sid' = 0 /\ ids' = ids /\ kind' \in {"", kind}
      BY DEF SpecDone, PlanDone, Spawn, Goto
    <2>3. at' \in Place /\ kind' \in PipelineKind
      BY <2>1, <2>2 DEF Place, PipelineKind
    <2>4. ids' \in Nat /\ sid' \in 0..ids'
      <3>1. ids' \in Nat /\ sid' = 0
        BY <2>1, <2>2
      <3> QED BY <3>1
    <2> QED BY <2>3, <2>4
  <1>7. UNCHANGED <<held, file, ids, round, rev>>
    BY DEF SpecDone, PlanDone
  <1> QED BY <1>2, <1>3, <1>4, <1>5, <1>6, <1>7 DEF PInv, PipelineTypes

\* The locals are gone.
LEMMA NoLocalsTypes ==
  ASSUME PipelineTypes, NoLocals
  PROVE  /\ call' \in [stage : Stage, resume : Nat, prompt : Prompt]
         /\ sid' \in 0..ids /\ rev' \in Nat
  BY DEF NoLocals, NoCall, Call, Stage, Prompt, PipelineTypes

LEMMA NextTypes ==
  ASSUME PipelineAssumption, PInv, [Next]_vars
  PROVE  PipelineTypes'
  <1>0. PipelineTypes
    BY DEF PInv
  <1>1. CASE Pick
    <2>1. /\ Opening(ResumePoint, ResumePrompt(marker)) \in [stage : Stage, resume : Nat, prompt : Prompt]
          /\ ResumePoint.kind \in PipelineKind
      BY <1>0, ResumeType, OpeningType, PromptType DEF ChainNode
    <2> QED BY <1>0, <1>1, <2>1, NoLocalsTypes
            DEF Pick, PipelineTypes, Goto, Place, Return, Spawn, Stay
  <1>2. CASE Dies \/ TurnFails \/ EntryAnswers
    <2>1. Call(call.stage, 0, "full") \in [stage : Stage, resume : Nat, prompt : Prompt]
      BY <1>0 DEF Call, PipelineTypes, Prompt
    <2> QED BY <1>0, <1>2, <2>1, NoLocalsTypes
            DEF Dies, TurnFails, EntryAnswers, PipelineTypes, Goto, Place, Return, Spawn, Stay
  <1>3. CASE Loop
    <2>1. Call("entry", Entered, "reply") \in [stage : Stage, resume : Nat, prompt : Prompt]
      BY <1>0 DEF Call, Entered, PipelineTypes, Prompt, Stage, EntryLike
    <2> QED BY <1>0, <1>3, <2>1, NoLocalsTypes
            DEF Loop, Reply, NextRound, PipelineTypes, Goto, Place, Return, Spawn, Stay, PipelineKind
  <1>4. CASE AfterFix \/ PlanAnswers \/ ExecuteAnswers \/ Ship
    BY <1>0, <1>4, NoLocalsTypes
       DEF AfterFix, PlanAnswers, ExecuteAnswers, Ship, PipelineTypes, Goto, Place, Return, Stay,
           PipelineKind
  <1>5. CASE Join
    <2>1. ResolvedKind \in PipelineKind
      BY <1>0, HeadType DEF ResolvedKind, PipelineTypes, PipelineKind, ChainNode
    <2> QED BY <1>0, <1>5, <2>1 DEF Join, PipelineTypes, Goto, Place, Stay
  <1>6. CASE Review
    <2>1. CutShort \in Nat
      BY <1>0, HeadType DEF CutShort, PipelineTypes, ChainNode
    <2>2. Call("codereview", CutShort, IF CutShort = 0 THEN "full" ELSE "continue")
            \in [stage : Stage, resume : Nat, prompt : Prompt]
      BY <2>1 DEF Call, Prompt, Stage
    <2>3. call' \in [stage : Stage, resume : Nat, prompt : Prompt] /\ sid' \in 0..ids
      BY <1>0, <1>6, <2>2, NoLocalsTypes DEF Review, PipelineTypes, Return, Spawn
    <2>4. rev' \in Nat /\ at' \in Place
      <3>1. round.n \in Nat
        BY <1>0 DEF PipelineTypes
      <3> QED BY <1>0, <1>6, <3>1, NoLocalsTypes DEF Review, Return, Spawn, Goto, Place
    <2>5. UNCHANGED <<chain, held, file, ids, finished, kind, round, reached>>
      BY <1>6 DEF Review
    <2> QED BY <1>0, <2>3, <2>4, <2>5 DEF PipelineTypes
  <1>7. CASE RecordRound
    <2>1. Call("codereview", 0, "full") \in [stage : Stage, resume : Nat, prompt : Prompt]
      BY DEF Call, Prompt, Stage
    <2>2. sid \in 1..ids /\ ids \in Nat /\ finished \subseteq 1..ids
      <3>1. sid \in 0..ids /\ ids \in Nat /\ finished \subseteq 1..ids
        BY <1>0 DEF PipelineTypes
      <3>2. sid # 0
        BY <1>7 DEF RecordRound, PInv, SessionInv, Answered
      <3> QED BY <3>1, <3>2
    <2>3. call' \in [stage : Stage, resume : Nat, prompt : Prompt] /\ rev' \in Nat /\ at' \in Place
      BY <1>0, <1>7, <2>1 DEF RecordRound, PipelineTypes, Goto, Place, Spawn
    <2>4. finished' \subseteq 1..ids /\ sid' \in 0..ids
      <3>1. finished' = finished \cup {sid} /\ sid' = 0
        BY <1>7 DEF RecordRound
      <3> QED BY <2>2, <3>1
    <2>5. round' \in [n : Nat, id : Nat]
      BY <1>0, <1>7, <2>2 DEF RecordRound, PipelineTypes
    <2>6. UNCHANGED <<chain, held, file, ids, kind, reached>>
      BY <1>7 DEF RecordRound
    <2> QED BY <1>0, <2>3, <2>4, <2>5, <2>6 DEF PipelineTypes
  <1>8. CASE ReviewAnswers \/ RecordReviewed
    BY <1>0, <1>8, NoLocalsTypes
       DEF ReviewAnswers, RecordReviewed, PipelineTypes, Goto, Place, Return
  <1>9. CASE Finish \/ Crash \/ Recover
    <2>1. UNCHANGED <<chain, file, ids, finished, round>> /\ reached' = reached
      BY <1>9 DEF Finish, Crash, Recover
    <2>2. (Forget \/ UNCHANGED memory) /\ at' \in Place
      BY <1>9 DEF Finish, Crash, Recover, Goto, Place
    <2>3. <<>> \in Seq(ChainNode)
      OBVIOUS
    <2>4. CASE Forget
      BY <1>0, <2>1, <2>2, <2>3, <2>4, NoLocalsTypes DEF Forget, PipelineTypes, PipelineKind
    <2>5. CASE UNCHANGED memory
      BY <1>0, <2>1, <2>2, <2>5 DEF PipelineTypes
    <2> QED BY <2>2, <2>4, <2>5
  <1>10. CASE UatStep \/ Commits \/ Requeue \/ Vanish \/ UNCHANGED vars
    BY <1>0, <1>10 DEF UatStep, UatCheck, UatPost, BesideUat, Commits, Requeue, Vanish, vars,
                       PipelineTypes
  <1> QED BY <1>1, <1>2, <1>3, <1>4, <1>5, <1>6, <1>7, <1>8, <1>9, <1>10, StreamsFile,
             RewriteTypes, CheckpointTypes DEF Next, RunStep

-----------------------------------------------------------------------------
(***************************************************************************)
(* The acceptance checklist                                                *)
(***************************************************************************)

LEMMA NextUat ==
  ASSUME PipelineAssumption, PInv, [Next]_vars
  PROVE  UatInv'
  <1>0. UatInv /\ UatOn \in BOOLEAN
    BY DEF PInv, PipelineAssumption
  <1>1. CASE UatStep
    BY <1>0, <1>1 DEF UatStep, UatCheck, UatPost, BesideUat, UatInv
  <1>2. CASE Pick \/ Vanish \/ Crash \/ Recover \/ Finish
    BY <1>0, <1>2 DEF Pick, Vanish, Crash, Recover, Finish, Goto, Return, Spawn, UatInv
  <1>3. CASE Dies \/ Streams \/ TurnFails \/ EntryAnswers
    BY <1>0, <1>3 DEF Dies, Streams, TurnFails, EntryAnswers, Goto, Return, Spawn, Call, EntryLike,
                      UatInv
  <1>4. CASE Loop
    BY <1>0, <1>4 DEF Loop, Reply, NextRound, Goto, Return, Spawn, Stay, UatInv
  <1>5. CASE Truncate \/ Rewrite \/ Ship \/ Review \/ ReviewAnswers \/ RecordRound \/ RecordReviewed
    BY <1>0, <1>5 DEF Truncate, Rewrite, Ship, Review, ReviewAnswers, RecordRound, RecordReviewed,
                      Goto, Return, Spawn, Stay, UatInv
  <1>6. CASE AfterFix \/ SpecDone \/ PlanAnswers \/ PlanDone \/ ExecuteAnswers
    <2>1. CASE AfterFix
      BY <1>0, <2>1 DEF AfterFix, Goto, Return, UatInv
    <2>2. CASE SpecDone
      <3>1. at' = "spawn" /\ call'.stage = "plan" /\ uat' \in {"check", "off"} /\ lists' = lists
        BY <2>2 DEF SpecDone, Spawn, Goto, Call
      <3> QED BY <1>0, <3>1 DEF UatInv
    <2>3. CASE PlanDone
      <3>1. at' = "spawn" /\ call'.stage = "execute" /\ uat' = uat /\ lists' = lists
        BY <2>3 DEF PlanDone, Spawn, Goto, Call
      <3> QED BY <1>0, <3>1 DEF UatInv, PlanDone
    <2>4. CASE PlanAnswers \/ ExecuteAnswers
      BY <1>0, <2>4 DEF PlanAnswers, ExecuteAnswers, Goto, Return, UatInv
    <2> QED BY <1>6, <2>1, <2>2, <2>3, <2>4
  <1>7. CASE Join \/ Commits \/ Requeue \/ UNCHANGED vars
    BY <1>0, <1>7 DEF Join, Commits, Requeue, Goto, vars, UatInv
  <1> QED BY <1>1, <1>2, <1>3, <1>4, <1>5, <1>6, <1>7 DEF Next, RunStep

-----------------------------------------------------------------------------
(***************************************************************************)
(* The sessions and the stages                                             *)
(***************************************************************************)

\* What the rest of the invariant says.
RunInv == ReviewInv /\ SessionInv /\ HeadInv /\ ReachedInv

chained == <<chain, file, round, finished, reached>>

\* What is on disk keeps its meaning while neither the chain nor what is recorded
\* of it changes.
LEMMA DiskStays ==
  ASSUME PInv, UNCHANGED chained, have \subseteq have'
  PROVE  /\ HeadNode' = HeadNode /\ HeadInv'
         /\ reached' # 0 => chain' # <<>> /\ Rank(HeadNode'.stage) >= reached'
         /\ reached' # 0 /\ HeadNode'.id = 0
              => HeadNode'.stage \in {"plan", "execute"} /\ Artifact(HeadNode'.stage) \in have'
  <1>1. HeadNode' = HeadNode
    BY DEF chained, HeadNode
  <1>2. ResumePoint' = ResumePoint
    BY <1>1 DEF chained, ResumePoint
  <1> QED BY <1>1, <1>2 DEF chained, PInv, HeadInv, ReachedInv

\* A step to a place without a session.
LEMMA QuietStep ==
  ASSUME PInv, UNCHANGED chained, have \subseteq have',
         at' \in {"off", "down", "join", "ship", "review", "reviewed", "finish"}
  PROVE  RunInv'
  BY DiskStays DEF RunInv, ReviewInv, SessionInv, Answered, ReachedInv

\* A step that leaves the run where it is.
LEMMA StillStep ==
  ASSUME PInv, UNCHANGED chained, have \subseteq have', UNCHANGED <<at, memory, reviewed>>
  PROVE  RunInv'
  <1>1. ReviewInv'
    BY DEF chained, PInv, ReviewInv
  <1>2. SessionInv'
    BY DiskStays DEF chained, PInv, SessionInv
  <1>3. ReachedInv'
    BY DiskStays DEF chained, PInv, ReachedInv
  <1> QED BY <1>1, <1>2, <1>3, DiskStays DEF RunInv

\* A step that begins a call.
LEMMA SpawnStep ==
  ASSUME PInv, UNCHANGED chained, UNCHANGED reviewed, have \subseteq have', at' = "spawn",
         call'.resume \notin finished, Rank(call'.stage) >= reached,
         call'.stage = "codereview" => ~reviewed /\ rev' = round.n + 1 /\ rev' <= Rounds
  PROVE  RunInv'
  <1>1. ReviewInv'
    BY DEF chained, ReviewInv
  <1>2. SessionInv'
    BY DEF chained, SessionInv, Answered
  <1>3. ReachedInv'
    BY DiskStays DEF chained, ReachedInv
  <1> QED BY <1>1, <1>2, <1>3, DiskStays DEF RunInv

\* The opening of a run does not fall behind, and resumes no complete session.
LEMMA PickRun ==
  ASSUME PInv, Pick
  PROVE  RunInv'
  <1> DEFINE node == ResumePoint
             c == Opening(ResumePoint, ResumePrompt(marker))
  <1>1. UNCHANGED chained /\ UNCHANGED <<reviewed, have>>
    BY DEF Pick, chained
  <1>2. at' \in {"join", "ship"} \/ (node.stage # "codereview" /\ at' = "spawn" /\ call' = c)
    BY DEF Pick, Return, Goto, Spawn
  <1>3. CASE at' \in {"join", "ship"}
    BY <1>1, <1>3, QuietStep
  <1>4. CASE node.stage # "codereview" /\ at' = "spawn" /\ call' = c
    <2>1. /\ node \in ChainNode /\ c.resume = node.id /\ c.stage \in Stage
          /\ c.stage # "codereview"
          /\ node.id # 0 => c.stage = node.stage
          /\ node.id = 0 /\ node.stage \in {"plan", "execute"} /\ Artifact(node.stage) \in have
               => c.stage = node.stage
      BY <1>4, ResumeType, OpeningType, PromptType DEF PInv
    <2>2. node.id \notin finished
      <3>1. HeadNode.stage # "codereview"
        <4>1. PipelineTypes /\ chain \in Seq(ChainNode)
          BY DEF PInv, PipelineTypes
        <4> QED BY <1>4, <4>1, ResumeType, HeadType
      <3> QED BY <3>1 DEF PInv, HeadInv
    <2>3. Rank(c.stage) >= reached
      <3>1. CASE reached = 0
        BY <3>1, <2>1, RankType
      <3>2. CASE reached # 0
        <4>1. node = HeadNode /\ Rank(node.stage) >= reached
          BY <3>2, ResumeType DEF PInv, ReachedInv
        <4>2. c.stage = node.stage
          BY <2>1, <3>2, <4>1 DEF PInv, ReachedInv
        <4> QED BY <4>1, <4>2
      <3> QED BY <3>1, <3>2
    <2> QED BY <1>1, <1>4, <2>1, <2>2, <2>3, SpawnStep
  <1> QED BY <1>2, <1>3, <1>4

\* The session names itself: it is fresh, or the one resumed, and becomes the head.
LEMMA StreamsRun ==
  ASSUME PInv, Streams
  PROVE  RunInv'
  <1>0. /\ at = "spawn" /\ at' = "turn" /\ PipelineTypes /\ PipelineTypes'
        /\ UNCHANGED <<call, finished, round, rev, reviewed, have, kind>>
        /\ reached' = IF call.stage = "codereview" THEN 4 ELSE reached
    BY StreamsFile DEF Streams, Goto, PInv
  <1>1. PICK i \in ({call.resume} \ {0}) \cup {ids + 1} :
          LET node == Node(i, call.stage, CheckpointKind(call.stage))
          IN /\ sid' = i
             /\ chain' = IF HeadNode.id = i /\ HeadNode.stage = call.stage
                         THEN chain ELSE Append(chain, node)
             /\ file' = [id |-> i, stage |-> call.stage, kind |-> node.kind, pre |-> FALSE]
    BY DEF Streams
  <1>2. i \in Nat \ {0} /\ i \notin finished
    <2>1. ids \in Nat /\ finished \subseteq 1..ids /\ call.resume \in Nat
      BY <1>0 DEF PipelineTypes
    <2>2. call.resume \notin finished
      BY <1>0 DEF PInv, SessionInv
    <2> QED BY <1>1, <2>1, <2>2
  <1>3. HeadNode'.id = i /\ HeadNode'.stage = call.stage /\ chain' # <<>>
    <2>1. CASE HeadNode.id = i /\ HeadNode.stage = call.stage
      <3>1. chain # <<>>
        <4>1. chain \in Seq(ChainNode)
          BY <1>0 DEF PipelineTypes
        <4> QED BY <1>2, <2>1, <4>1, HeadType
      <3> QED BY <1>1, <2>1, <3>1 DEF HeadNode
    <2>2. CASE ~(HeadNode.id = i /\ HeadNode.stage = call.stage)
      <3> DEFINE node == Node(i, call.stage, CheckpointKind(call.stage))
      <3>1. CheckpointKind(call.stage) \in PipelineKind
        BY <1>0 DEF CheckpointKind, PipelineTypes, PipelineKind
      <3>2. node \in ChainNode /\ node.id = i /\ node.stage = call.stage
        BY <1>0, <1>2, <3>1 DEF Node, ChainNode, PipelineTypes
      <3>3. chain' = Append(chain, node)
        BY <1>1, <2>2
      <3> HIDE DEF node
      <3> QED BY <1>0, <3>2, <3>3, HeadAppend DEF PipelineTypes
    <2> QED BY <2>1, <2>2
  <1>4. ReviewInv'
    BY <1>0 DEF PInv, ReviewInv
  <1>5. SessionInv'
    <2>1. call'.resume \notin finished'
      BY <1>0 DEF PInv, SessionInv
    <2> QED BY <1>0, <1>1, <1>2, <1>3, <2>1 DEF SessionInv, Answered
  <1>6. HeadInv'
    <2>1. ResumePoint' = HeadNode'
      BY <1>3 DEF ResumePoint
    <2> QED BY <1>0, <1>2, <1>3, <2>1 DEF HeadInv
  <1>7. ReachedInv'
    BY <1>0, <1>2, <1>3, RankOf DEF PInv, ReachedInv
  <1> QED BY <1>4, <1>5, <1>6, <1>7 DEF RunInv

\* The entry session: its answers, its rounds and its verdict.
LEMMA EntryRun ==
  ASSUME PInv, EntryAnswers \/ Loop \/ AfterFix
  PROVE  RunInv'
  <1>1. UNCHANGED chained /\ UNCHANGED <<reviewed, have>>
    BY DEF EntryAnswers, Loop, AfterFix, chained
  <1>2. CASE at' = "join"
    BY <1>1, <1>2, QuietStep
  <1>3. CASE EntryAnswers /\ at' # "join"
    <2>1. /\ at = "turn" /\ at' = "loop" /\ UNCHANGED <<sid, call>> /\ call.stage \in EntryLike
      BY <1>3 DEF EntryAnswers, Return, Goto
    <2>2. reached = 0
      BY <2>1, RankOf DEF PInv, ReachedInv, PipelineTypes
    <2>3. SessionInv'
      BY <1>1, <2>1, DiskStays DEF chained, PInv, SessionInv, Answered
    <2>4. ReviewInv' /\ ReachedInv'
      BY <1>1, <2>1, <2>2 DEF chained, ReviewInv, ReachedInv
    <2> QED BY <1>1, <2>3, <2>4, DiskStays DEF RunInv
  <1>4. CASE Loop /\ at' = "stamp"
    <2>1. /\ at = "loop" /\ UNCHANGED sid /\ (kind' = "feature" => "spec" \in have)
      BY <1>4 DEF Loop, Return, Goto, Spawn, Stay, Reply, NextRound
    <2>2. SessionInv'
      BY <1>1, <1>4, <2>1, DiskStays DEF chained, PInv, SessionInv, Answered
    <2>3. ReviewInv' /\ ReachedInv'
      BY <1>1, <1>4, <2>1 DEF chained, PInv, ReviewInv, ReachedInv
    <2> QED BY <1>1, <2>2, <2>3, DiskStays DEF RunInv
  <1>5. CASE Loop /\ at' = "spawn"
    <2>1. at = "loop" /\ call'.stage = "entry" /\ call'.resume = Entered
      BY <1>5 DEF Loop, Return, Goto, Spawn, Stay, Reply, NextRound, Call
    <2>2. Entered \notin finished /\ reached = 0
      BY <2>1 DEF Entered, PInv, SessionInv, ReachedInv, Answered
    <2>3. Rank(call'.stage) >= reached
      BY <2>1, <2>2, RankOf DEF EntryLike
    <2> QED BY <1>1, <1>5, <2>1, <2>2, <2>3, SpawnStep
  <1>6. at' \in {"join", "stamp", "spawn"} \/ EntryAnswers
    BY DEF Loop, AfterFix, Return, Goto, Spawn, Reply, NextRound
  <1>7. AfterFix => at' = "join"
    BY DEF AfterFix, Return, Goto
  <1> QED BY <1>2, <1>3, <1>4, <1>5, <1>6, <1>7

\* SetHeadKind: while the file is empty its content is held in memory, and the
\* legacy file still names the same session.
LEMMA StampRun ==
  ASSUME PInv, Truncate \/ Rewrite
  PROVE  RunInv'
  <1>0. PipelineTypes /\ SessionInv /\ ReachedInv /\ UNCHANGED <<finished, round, reached, have, kind, sid>>
    BY DEF Truncate, Rewrite, PInv, Stay
  <1>1. CASE Truncate
    <2>1. /\ at = "stamp" /\ at' = "rewrite" /\ chain' = <<>> /\ UNCHANGED file
          /\ held' = [chain EXCEPT ![Len(chain)].kind = kind]
      BY <1>1 DEF Truncate, Goto
    <2>2. chain # <<>> /\ Len(chain) \in 1..Len(chain) /\ chain[Len(chain)] \in ChainNode
      BY <1>0, <2>1 DEF SessionInv, Answered, PipelineTypes
    <2>3. /\ held' # <<>> /\ Len(held') = Len(chain)
          /\ held'[Len(held')] = [chain[Len(chain)] EXCEPT !.kind = kind]
      <3> DEFINE n == [chain[Len(chain)] EXCEPT !.kind = kind]
      <3>1. held' = [chain EXCEPT ![Len(chain)] = n]
        BY <2>1
      <3>2. chain \in Seq(ChainNode) /\ n \in ChainNode
        BY <1>0, <2>2 DEF PipelineTypes, ChainNode
      <3> HIDE DEF n
      <3>3. /\ held' \in Seq(ChainNode) /\ Len(held') = Len(chain)
            /\ held'[Len(chain)] = n
        BY <2>2, <3>1, <3>2
      <3>4. held' # <<>>
        BY <2>2, <3>3
      <3> QED BY <3>3, <3>4 DEF n
    <2>4. held'[Len(held')].id = sid /\ held'[Len(held')].stage \in EntryLike
      BY <1>0, <2>1, <2>2, <2>3 DEF SessionInv, Answered, HeadNode, ChainNode
    <2>5. SessionInv'
      BY <1>0, <2>1, <2>3, <2>4 DEF SessionInv, Answered
    <2>6. HeadInv'
      <3>1. HeadNode' = NoNode /\ ResumePoint'.id = sid
        BY <1>0, <2>1 DEF HeadNode, ResumePoint, SessionInv, Node
      <3> QED BY <1>0, <2>1, <3>1 DEF HeadInv, NoNode, Node, SessionInv, Answered
    <2>7. ReviewInv' /\ ReachedInv'
      BY <1>0, <2>1 DEF ReviewInv, ReachedInv
    <2> QED BY <2>5, <2>6, <2>7 DEF RunInv
  <1>2. CASE Rewrite
    <2>1. /\ at = "rewrite" /\ chain' = held /\ held # <<>>
          /\ at' = IF kind = "feature" THEN "specDone" ELSE "fixed"
          /\ held[Len(held)].id = sid /\ held[Len(held)].stage \in EntryLike
      BY <1>0, <1>2 DEF Rewrite, Goto, SessionInv
    <2>2. HeadNode' = held[Len(held)] /\ ResumePoint' = HeadNode'
      BY <2>1 DEF HeadNode, ResumePoint
    <2>3. SessionInv'
      BY <1>0, <2>1, <2>2 DEF SessionInv, Answered
    <2>4. HeadInv'
      BY <1>0, <2>1, <2>2 DEF HeadInv, SessionInv, Answered, EntryLike
    <2>5. ReviewInv' /\ ReachedInv'
      BY <1>0, <2>1 DEF ReviewInv, ReachedInv
    <2> QED BY <2>3, <2>4, <2>5 DEF RunInv
  <1> QED BY <1>1, <1>2

\* A stage that is done leaves a pending node behind, so that no later run goes
\* back to its session.
LEMMA CheckpointRun ==
  ASSUME PInv, SpecDone \/ PlanDone
  PROVE  RunInv'
  <1> DEFINE s == call'.stage
  <1>0. /\ PipelineTypes /\ PipelineTypes' /\ SessionInv /\ ReachedInv
        /\ UNCHANGED <<have, round, reviewed>>
    BY CheckpointTypes DEF PInv, SpecDone, PlanDone
  <1>1. /\ at' = "spawn" /\ call'.resume = 0 /\ s \in {"plan", "execute"}
        /\ chain' = Append(chain, Node(0, s, "feature")) /\ reached' = Rank(s)
        /\ Artifact(s) \in have
    <2>1. CASE SpecDone
      <3>1. /\ at = "specDone" /\ at' = "spawn" /\ call' = Call("plan", 0, "full")
            /\ CheckpointStage("plan")
        BY <2>1 DEF SpecDone, Spawn, Goto
      <3>2. s = "plan" /\ call'.resume = 0
        BY <3>1 DEF Call
      <3>3. "spec" \in have
        BY <1>0, <3>1 DEF ReachedInv
      <3> QED BY <3>1, <3>2, <3>3 DEF CheckpointStage, Artifact
    <2>2. CASE PlanDone
      <3>1. /\ at = "planDone" /\ at' = "spawn" /\ call' = Call("execute", 0, "full")
            /\ CheckpointStage("execute")
        BY <2>2 DEF PlanDone, Spawn, Goto
      <3>2. s = "execute" /\ call'.resume = 0
        BY <3>1 DEF Call
      <3>3. "plan" \in have
        BY <1>0, <3>1 DEF ReachedInv
      <3> QED BY <3>1, <3>2, <3>3 DEF CheckpointStage, Artifact
    <2> QED BY <2>1, <2>2
  <1>2. 0 \notin finished'
    BY <1>0 DEF PipelineTypes
  <1>3. HeadNode'.id = 0 /\ HeadNode'.stage = s /\ chain' # <<>>
    <2> DEFINE node == Node(0, s, "feature")
    <2>1. node \in ChainNode /\ node.id = 0 /\ node.stage = s
      BY <1>1 DEF Node, ChainNode, Stage, PipelineKind
    <2>2. chain \in Seq(ChainNode) /\ chain' = Append(chain, node)
      BY <1>0, <1>1 DEF PipelineTypes
    <2> HIDE DEF node
    <2> QED BY <2>1, <2>2, HeadAppend
  <1>4. SessionInv'
    BY <1>1, <1>2 DEF SessionInv, Answered
  <1>5. HeadInv'
    BY <1>1, <1>2, <1>3 DEF HeadInv, ResumePoint
  <1>6. ReachedInv'
    <2>1. Rank(s) \in {2, 3}
      BY <1>1, RankOf
    <2> QED BY <1>0, <1>1, <1>3, <2>1 DEF ReachedInv
  <1>7. ReviewInv'
    BY <1>1 DEF ReviewInv
  <1> QED BY <1>4, <1>5, <1>6, <1>7 DEF RunInv

\* A review round that is recorded names its session, which is not resumed.
LEMMA RoundRun ==
  ASSUME PipelineAssumption, PInv, ReviewAnswers \/ RecordRound
  PROVE  RunInv'
  <1>0. /\ PipelineTypes /\ SessionInv /\ ReachedInv /\ ReviewInv /\ HeadInv
        /\ UNCHANGED <<have, chain, file, reached, reviewed>>
    BY DEF PInv, ReviewAnswers, RecordRound
  <1>1. HeadNode' = HeadNode /\ ResumePoint' = ResumePoint
    BY <1>0 DEF HeadNode, ResumePoint
  <1>2. CASE ReviewAnswers
    <2>1. /\ at = "turn" /\ at' = "record" /\ call.stage = "codereview"
          /\ UNCHANGED <<finished, round, rev, sid>>
      BY <1>2 DEF ReviewAnswers, Goto
    <2>2. SessionInv'
      BY <1>0, <1>1, <2>1 DEF SessionInv, Answered
    <2>3. ReviewInv' /\ HeadInv'
      BY <1>0, <1>1, <2>1 DEF ReviewInv, HeadInv
    <2>4. ReachedInv'
      BY <1>0, <1>1, <2>1 DEF ReachedInv
    <2> QED BY <2>2, <2>3, <2>4 DEF RunInv
  <1>3. CASE RecordRound
    <2>1. /\ at = "record" /\ round' = [n |-> rev, id |-> sid] /\ finished' = finished \cup {sid}
          /\ \/ at' = "reviewed"
             \/ /\ at' = "spawn" /\ call'.resume = 0 /\ call'.stage = "codereview"
                /\ rev # Rounds /\ rev' = rev + 1
      BY <1>3 DEF RecordRound, Goto, Spawn, Call
    <2>2. /\ HeadNode.stage = "codereview" /\ HeadNode.id = sid /\ sid # 0
          /\ ~reviewed /\ rev <= Rounds
      BY <1>0, <2>1 DEF SessionInv, Answered, ReviewInv
    <2>3. 0 \notin finished'
      BY <1>0, <2>1, <2>2 DEF PipelineTypes
    <2>4. rev \in Nat /\ Rounds \in Nat
      BY <1>0 DEF PipelineTypes, PipelineAssumption
    <2>5. ReviewInv'
      BY <1>0, <2>1, <2>2, <2>4 DEF ReviewInv
    <2>6. SessionInv'
      BY <2>1, <2>3 DEF SessionInv, Answered
    <2>7. HeadInv'
      BY <1>1, <2>1, <2>2 DEF HeadInv
    <2>8. ReachedInv'
      <3>1. reached <= 4
        BY <1>0 DEF PipelineTypes
      <3> QED BY <1>0, <1>1, <2>1, <3>1, RankOf DEF ReachedInv
    <2> QED BY <2>5, <2>6, <2>7, <2>8 DEF RunInv
  <1> QED BY <1>2, <1>3

\* A review begins after the last complete round, and goes on with a session only
\* when it was cut short.
LEMMA ReviewRun ==
  ASSUME PipelineAssumption, PInv, Review
  PROVE  RunInv'
  <1>1. UNCHANGED chained /\ UNCHANGED <<reviewed, have>>
    BY DEF Review, chained
  <1>2. CASE at' = "join"
    BY <1>1, <1>2, QuietStep
  <1>3. CASE at' # "join"
    <2>1. /\ at' = "spawn" /\ call'.stage = "codereview" /\ call'.resume = CutShort
          /\ ~ReviewOver /\ rev' = round.n + 1
      BY <1>3 DEF Review, Return, Goto, Spawn, Call
    <2>2. PipelineTypes /\ Rounds \in Nat /\ round.n \in Nat
      BY DEF PInv, PipelineTypes, PipelineAssumption
    <2>3. ~reviewed /\ rev' <= Rounds
      BY <2>1, <2>2 DEF ReviewOver
    <2>4. CutShort \notin finished
      BY <2>2 DEF CutShort, PInv, HeadInv, PipelineTypes
    <2>5. Rank("codereview") >= reached
      BY <2>2, RankOf DEF PipelineTypes
    <2> QED BY <1>1, <2>1, <2>3, <2>4, <2>5, SpawnStep
  <1> QED BY <1>2, <1>3

\* PInv is inductive.
LEMMA NextPInv ==
  ASSUME PipelineAssumption, PInv, [Next]_vars
  PROVE  PInv'
  <1>1. ASSUME Dies
        PROVE  RunInv'
    <2>1. UNCHANGED chained /\ UNCHANGED <<reviewed, have>> /\ at = "spawn"
      BY <1>1 DEF Dies, chained
    <2>2. CASE at' = "join"
      BY <2>1, <2>2, QuietStep
    <2>3. CASE at' # "join"
      <3>1. at' = "spawn" /\ call'.stage = call.stage /\ call'.resume = 0
            /\ call.stage \in {"plan", "execute"}
        BY <1>1, <2>3 DEF Dies, Return, Goto, Spawn, Call
      <3>2. 0 \notin finished /\ Rank(call.stage) >= reached
        BY <2>1 DEF PInv, PipelineTypes, ReachedInv
      <3> QED BY <2>1, <3>1, <3>2, SpawnStep
    <2> QED BY <2>2, <2>3
  <1>2. ASSUME TurnFails \/ ExecuteAnswers \/ Join \/ Ship \/ RecordReviewed \/ Finish
               \/ Crash \/ Recover
        PROVE  RunInv'
    <2>1. UNCHANGED chained /\ UNCHANGED have
      BY <1>2 DEF TurnFails, ExecuteAnswers, Join, Ship, RecordReviewed, Finish, Crash, Recover,
                  chained
    <2>2. at' \in {"join", "off", "down", "ship", "review", "finish"}
      BY <1>2 DEF TurnFails, ExecuteAnswers, Join, Ship, RecordReviewed, Finish, Crash, Recover,
                  Return, Goto
    <2> QED BY <2>1, <2>2, QuietStep
  <1>3. ASSUME UatStep \/ Commits \/ Requeue \/ UNCHANGED vars
        PROVE  RunInv'
    <2>1. UNCHANGED chained /\ have \subseteq have' /\ UNCHANGED <<at, memory, reviewed>>
      BY <1>3 DEF UatStep, UatCheck, UatPost, BesideUat, Commits, Requeue, vars, chained
    <2> QED BY <2>1, StillStep
  <1>4. ASSUME PlanAnswers
        PROVE  RunInv'
    <2>1. /\ at = "turn" /\ at' = "planDone" /\ call.stage = "plan" /\ "plan" \in have
          /\ UNCHANGED chained /\ UNCHANGED <<reviewed, have, sid>>
      BY <1>4 DEF PlanAnswers, Goto, chained
    <2>2. SessionInv'
      BY <2>1, DiskStays DEF chained, PInv, SessionInv, Answered
    <2>3. reached <= 2
      BY <2>1, RankOf DEF PInv, ReachedInv, PipelineTypes
    <2>4. ReviewInv' /\ ReachedInv'
      BY <2>1, <2>3, DiskStays DEF chained, ReviewInv, ReachedInv
    <2> QED BY <2>1, <2>2, <2>4, DiskStays DEF RunInv
  <1>5. ASSUME Vanish
        PROVE  RunInv'
    <2>1. /\ at' = "off" /\ reached' = 0
          /\ UNCHANGED <<chain, file, round, finished>>
      BY <1>5 DEF Vanish
    <2>2. HeadInv'
      BY <2>1 DEF PInv, HeadInv, HeadNode, ResumePoint
    <2>3. ReviewInv' /\ SessionInv' /\ ReachedInv'
      BY <2>1 DEF ReviewInv, SessionInv, Answered, ReachedInv
    <2> QED BY <2>2, <2>3 DEF RunInv
  <1>6. RunInv'
    BY <1>1, <1>2, <1>3, <1>4, <1>5, PickRun, StreamsRun, EntryRun, StampRun, CheckpointRun,
       RoundRun, ReviewRun DEF Next, RunStep
  <1> QED BY <1>6, NextTypes, NextUat DEF PInv, RunInv


-----------------------------------------------------------------------------
(***************************************************************************)
(* The theorems                                                            *)
(***************************************************************************)

\* What is recorded of a session or a review is never taken back, and how far the
\* stages have got is forgotten only with the worktree, between two runs.
LEMMA RecordsGrow ==
  ASSUME PInv, Next
  PROVE  /\ finished \subseteq finished' /\ (reviewed => reviewed')
         /\ at' = "spawn" => reached <= reached'
         /\ round' # round => RecordRound
  <1>0. reached \in Nat
    BY DEF PInv, PipelineTypes
  <1>1. CASE SpecDone \/ PlanDone
    <2>1. /\ finished' = finished \cup {sid} /\ UNCHANGED <<reviewed, round>>
          /\ (at = "specDone" /\ reached' = Rank("plan"))
               \/ (at = "planDone" /\ reached' = Rank("execute"))
      BY <1>1 DEF SpecDone, PlanDone, CheckpointStage
    <2>2. (at = "specDone" => reached = 0) /\ (at = "planDone" => reached <= 2)
      BY DEF PInv, ReachedInv
    <2>3. reached <= reached'
      BY <1>0, <2>1, <2>2, RankOf
    <2> QED BY <2>1, <2>3
  <1>2. CASE RecordRound \/ RecordReviewed
    BY <1>0, <1>2 DEF RecordRound, RecordReviewed
  <1>3. CASE Streams \/ Vanish
    BY <1>3 DEF Streams, Vanish, Goto
  <1>4. CASE \/ Dies \/ TurnFails \/ EntryAnswers \/ Loop \/ Truncate \/ Rewrite \/ AfterFix
             \/ PlanAnswers \/ ExecuteAnswers \/ Join \/ Ship \/ Review \/ ReviewAnswers
             \/ Finish \/ UatStep \/ Pick \/ Commits \/ Requeue \/ Crash \/ Recover
    <2>1. UNCHANGED <<finished, reached, reviewed, round>>
      BY <1>4 DEF Dies, TurnFails, EntryAnswers, Loop, Truncate, Rewrite, AfterFix, PlanAnswers,
                  ExecuteAnswers, Join, Ship, Review, ReviewAnswers, Finish, UatStep, UatCheck,
                  UatPost, BesideUat, Pick, Commits, Requeue, Crash, Recover
    <2> QED BY <1>0, <2>1
  <1> QED BY <1>1, <1>2, <1>3, <1>4 DEF Next, RunStep

\* The invariant holds in every state of the specification.
THEOREM PipelineInvariance == Spec => []PInv
  <1>1. Init => PInv
    BY InitPInv
  <1>2. PInv /\ [Next]_vars => PInv'
    BY NextPInv, PipelineAssumption
  <1> QED BY <1>1, <1>2, PTL DEF Spec

\* For every number of runs, crashes and failed calls, an issue gets one acceptance
\* checklist.
THEOREM AtMostOneChecklist == Spec => []OneChecklist
  <1>1. PInv => OneChecklist
    BY DEF PInv, UatInv, OneChecklist
  <1> QED BY <1>1, PipelineInvariance, PTL

\* The UAT session lies within the pipeline that began it.
THEOREM UatIsJoined == Spec => []UatInsidePipeline
  <1>1. PInv => UatInsidePipeline
    BY DEF PInv, UatInv, UatInsidePipeline
  <1> QED BY <1>1, PipelineInvariance, PTL

\* No call resumes a session that was recorded as complete, whichever crashes,
\* forks and failed calls came between.
THEOREM CompleteIsClosed == Spec => CompleteStaysClosed
  <1>1. PInv /\ PInv' /\ [Next]_vars =>
          [Spawned => call'.resume \notin finished \/ call'.resume = 0]_vars
    <2> SUFFICES ASSUME PInv, PInv', Next, Spawned
                 PROVE  call'.resume \notin finished
      BY DEF Spawned
    <2>1. call'.resume \notin finished'
      BY DEF Spawned, PInv, SessionInv
    <2> QED BY <2>1, RecordsGrow
  <1> QED BY <1>1, PipelineInvariance, PTL DEF Spec, CompleteStaysClosed

\* No call goes back behind the furthest stage checkpointed.
THEOREM StagesAdvance == Spec => NoStageAgain
  <1>1. PInv /\ PInv' /\ [Next]_vars => [Spawned => Rank(call'.stage) >= reached]_vars
    <2> SUFFICES ASSUME PInv, PInv', Next, Spawned
                 PROVE  Rank(call'.stage) >= reached
      OBVIOUS
    <2>1. at' = "spawn" /\ call'.stage \in Stage /\ reached \in Nat /\ reached' \in Nat
      BY DEF Spawned, PInv, PipelineTypes
    <2>2. Rank(call'.stage) >= reached'
      BY <2>1 DEF PInv, ReachedInv
    <2> QED BY <2>1, <2>2, RecordsGrow, RankType
  <1> QED BY <1>1, PipelineInvariance, PTL DEF Spec, NoStageAgain

\* Review rounds are recorded in order and within their number, and none begins
\* once the review has ended.
THEOREM ReviewAdvances == Spec => ReviewProgress
  <1>1. PInv /\ PInv' /\ [Next]_vars =>
          [/\ round'.n # round.n => round'.n = round.n + 1 /\ round'.n <= Rounds
           /\ Spawned /\ call'.stage = "codereview"
                => ~reviewed /\ rev' = round'.n + 1]_vars
    <2> SUFFICES ASSUME PInv, PInv', Next
                 PROVE  /\ round'.n # round.n => round'.n = round.n + 1 /\ round'.n <= Rounds
                        /\ Spawned /\ call'.stage = "codereview"
                             => ~reviewed /\ rev' = round'.n + 1
      OBVIOUS
    <2>1. ASSUME round'.n # round.n
          PROVE  round'.n = round.n + 1 /\ round'.n <= Rounds
      <3>1. at = "record" /\ round' = [n |-> rev, id |-> sid]
        BY <2>1, RecordsGrow DEF RecordRound
      <3> QED BY <3>1 DEF PInv, ReviewInv
    <2>2. ASSUME Spawned, call'.stage = "codereview"
          PROVE  ~reviewed /\ rev' = round'.n + 1
      <3>1. ~reviewed' /\ rev' = round'.n + 1
        BY <2>2 DEF Spawned, PInv, ReviewInv
      <3> QED BY <3>1, RecordsGrow
    <2> QED BY <2>1, <2>2
  <1> QED BY <1>1, PipelineInvariance, PTL DEF Spec, ReviewProgress

-----------------------------------------------------------------------------
(***************************************************************************)
(* Why runs end.  The entry session's turns and the review's rounds send a *)
(* run back to an earlier place; Left counts the steps it has left at most,*)
(* so that what is missing for RunEnds is only that steps are taken.       *)
(***************************************************************************)

\* Ship, the review and its rounds.
Shipping == 6 + 3 * Rounds

\* Steps left when call c is answering, in Q&A round q or review round v.
CallLeft(c, q, v) ==
  CASE c.stage = "codereview" -> 5 + 3 * (Rounds - v)
    [] c.stage = "execute" -> Shipping + 1
    [] c.stage = "plan" -> Shipping + 5
    [] OTHER -> Shipping + 12 + 3 * (MaxQARounds - q)

\* A resumed plan or execute session may die and be run afresh, once.
StartLeft(c, q, v) ==
  CallLeft(c, q, v) + IF c.resume # 0 /\ c.stage \in {"plan", "execute"} THEN 2 ELSE 1

LeftAt(l, c, o, q, v) ==
  CASE l = "spawn" -> StartLeft(c, q, v)
    [] l = "turn" -> CallLeft(c, q, v)
    [] l = "loop" -> Shipping + 11 + 3 * (MaxQARounds - q)
    [] l = "stamp" -> Shipping + 10
    [] l = "rewrite" -> Shipping + 9
    [] l \in {"specDone", "fixed"} -> Shipping + 8
    [] l = "planDone" -> Shipping + 4
    [] l = "join" -> IF o = "ship" THEN Shipping ELSE 2
    [] l = "ship" -> 5 + 3 * Rounds
    [] l = "review" -> 4 + 3 * Rounds
    [] l = "record" -> 4 + 3 * (Rounds - v)
    [] l = "reviewed" -> 3
    [] l = "finish" -> 1
    [] OTHER -> 0

Left == LeftAt(at, call, out, rnd, rev)
Longest == Shipping + 13 + 3 * MaxQARounds

\* The Q&A rounds sent stay within their number.
RoundsInv == rnd \in 0..MaxQARounds

LEMMA CallLefts ==
  ASSUME NEW c, NEW q, NEW v
  PROVE  /\ c.stage = "codereview" => CallLeft(c, q, v) = 5 + 3 * (Rounds - v)
         /\ c.stage = "execute" => CallLeft(c, q, v) = Shipping + 1
         /\ c.stage = "plan" => CallLeft(c, q, v) = Shipping + 5
         /\ c.stage \notin {"codereview", "execute", "plan"}
              => CallLeft(c, q, v) = Shipping + 12 + 3 * (MaxQARounds - q)
  BY DEF CallLeft

LEMMA Lefts ==
  ASSUME NEW c, NEW o, NEW q, NEW v
  PROVE  /\ LeftAt("spawn", c, o, q, v) = StartLeft(c, q, v)
         /\ LeftAt("turn", c, o, q, v) = CallLeft(c, q, v)
         /\ LeftAt("loop", c, o, q, v) = Shipping + 11 + 3 * (MaxQARounds - q)
         /\ LeftAt("stamp", c, o, q, v) = Shipping + 10
         /\ LeftAt("rewrite", c, o, q, v) = Shipping + 9
         /\ LeftAt("specDone", c, o, q, v) = Shipping + 8
         /\ LeftAt("fixed", c, o, q, v) = Shipping + 8
         /\ LeftAt("planDone", c, o, q, v) = Shipping + 4
         /\ LeftAt("join", c, o, q, v) = IF o = "ship" THEN Shipping ELSE 2
         /\ LeftAt("ship", c, o, q, v) = 5 + 3 * Rounds
         /\ LeftAt("review", c, o, q, v) = 4 + 3 * Rounds
         /\ LeftAt("record", c, o, q, v) = 4 + 3 * (Rounds - v)
         /\ LeftAt("reviewed", c, o, q, v) = 3
         /\ LeftAt("finish", c, o, q, v) = 1
         /\ LeftAt("off", c, o, q, v) = 0 /\ LeftAt("down", c, o, q, v) = 0
  BY DEF LeftAt

LEMMA Parameters == Rounds \in Nat /\ MaxQARounds \in Nat
  BY PipelineAssumption

\* Where a run is there is something left of it.
LEMMA LeftBounds ==
  ASSUME PInv, RoundsInv
  PROVE  Left \in 0..Longest /\ (at \notin {"off", "down"} => Left > 0)
  <1>1. at \in Place /\ rnd \in Nat /\ rnd <= MaxQARounds /\ rev \in Nat
    BY Parameters DEF PInv, PipelineTypes, RoundsInv
  <1>2. (at \in {"spawn", "turn"} /\ call.stage = "codereview") \/ at = "record" => rev <= Rounds
    BY DEF PInv, ReviewInv
  <1>3. at \in {"spawn", "turn"} => CallLeft(call, rnd, rev) \in 1 .. (Longest - 1)
    BY <1>1, <1>2, CallLefts, Parameters DEF Longest, Shipping
  <1>4. at = "spawn" => StartLeft(call, rnd, rev) \in 1 .. Longest
    <2>1. CASE call.stage \in {"plan", "execute"}
      BY <1>1, <2>1, CallLefts, Parameters DEF Longest, Shipping, StartLeft
    <2>2. CASE call.stage \notin {"plan", "execute"}
      BY <1>3, <2>2, Parameters DEF StartLeft, Longest, Shipping
    <2> QED BY <2>1, <2>2
  <1> QED BY <1>1, <1>2, <1>3, <1>4, Lefts, Parameters DEF Left, Longest, Shipping, Place

\* The pipeline or the review returns.
LEMMA ReturnShortens ==
  ASSUME NEW o, Return(o)
  PROVE  /\ Left' = IF o = "ship" THEN Shipping ELSE 2
         /\ rnd' = 0
  BY Lefts DEF Return, Goto, NoLocals, Left

LEMMA EntryShortens ==
  ASSUME PInv, RoundsInv, EntryAnswers \/ Loop
  PROVE  Left' < Left
  <1>0. rnd \in Nat /\ rnd <= MaxQARounds
    BY Parameters DEF RoundsInv
  <1>1. (at = "turn" /\ call.stage \in EntryLike => Left = Shipping + 12 + 3 * (MaxQARounds - rnd))
        /\ (at = "loop" => Left = Shipping + 11 + 3 * (MaxQARounds - rnd))
    BY Lefts, CallLefts DEF Left, EntryLike
  <1>2. ASSUME NEW o \in {"needsInfo", "park", "alreadyDone"}, Return(o),
               at = "loop" \/ (at = "turn" /\ call.stage \in EntryLike)
        PROVE  Left' < Left
    BY <1>0, <1>1, <1>2, ReturnShortens, Parameters DEF Shipping
  <1>3. CASE EntryAnswers /\ at' = "loop" /\ UNCHANGED <<rnd, rev, call>>
    <2>1. Left' = Shipping + 11 + 3 * (MaxQARounds - rnd)
      BY <1>3, Lefts DEF Left
    <2> QED BY <1>0, <1>1, <1>3, <2>1, Parameters DEF EntryAnswers, Shipping
  <1>4. CASE at = "loop" /\ at' = "stamp" /\ UNCHANGED <<rnd, rev, call>>
    <2>1. Left' = Shipping + 10
      BY <1>4, Lefts DEF Left
    <2> QED BY <1>0, <1>1, <1>4, <2>1, Parameters DEF Shipping
  <1>5. CASE /\ at = "loop" /\ rnd < MaxQARounds /\ rnd' = rnd + 1
             /\ Spawn(Call("entry", Entered, "reply"))
    <2>1. at' = "spawn" /\ call'.stage = "entry" /\ rnd' = rnd + 1
      BY <1>5 DEF Spawn, Goto, Call
    <2>2. Left' = StartLeft(call', rnd', rev')
      BY <2>1, Lefts DEF Left
    <2>3. StartLeft(call', rnd', rev') = Shipping + 12 + 3 * (MaxQARounds - rnd') + 1
      BY <2>1, CallLefts DEF StartLeft
    <2> HIDE DEF Left
    <2> QED BY <1>0, <1>1, <1>5, <2>1, <2>2, <2>3, Parameters DEF Shipping
  <1> QED BY <1>2, <1>3, <1>4, <1>5 DEF EntryAnswers, Loop, Reply, NextRound, Goto, Stay

\* A session that dies before it is named, or names itself.
LEMMA SpawnShortens ==
  ASSUME PInv, RoundsInv, Dies \/ Streams
  PROVE  Left' < Left
  <1>0. /\ at = "spawn" /\ rnd \in Nat /\ rnd <= MaxQARounds /\ rev \in Nat
        /\ (call.stage = "codereview" => rev <= Rounds)
        /\ Left = StartLeft(call, rnd, rev)
    BY Parameters, Lefts DEF Dies, Streams, RoundsInv, PInv, PipelineTypes, ReviewInv, Left
  <1>1. CallLeft(call, rnd, rev) \in Nat /\ CallLeft(call, rnd, rev) > 2
    BY <1>0, CallLefts, Parameters DEF Shipping
  <1>2. CASE Streams
    <2>1. Left' = CallLeft(call, rnd, rev)
      BY <1>2, Lefts DEF Streams, Goto, Left
    <2> QED BY <1>0, <1>1, <2>1 DEF StartLeft
  <1>3. CASE Dies /\ Return("park")
    BY <1>0, <1>1, <1>3, ReturnShortens DEF StartLeft
  <1>4. CASE Dies /\ ~Return("park")
    <2>1. /\ call.stage \in {"plan", "execute"} /\ call.resume # 0
          /\ at' = "spawn" /\ call' = Call(call.stage, 0, "full") /\ UNCHANGED <<rnd, rev>>
      BY <1>4 DEF Dies, Spawn, Goto
    <2>2. call'.stage = call.stage /\ call'.resume = 0
      BY <2>1 DEF Call
    <2>3. Left' = CallLeft(call', rnd, rev) + 1 /\ CallLeft(call', rnd, rev) = CallLeft(call, rnd, rev)
      BY <2>1, <2>2, Lefts, CallLefts DEF Left, StartLeft
    <2> QED BY <1>0, <1>1, <2>1, <2>3 DEF StartLeft
  <1> QED BY <1>2, <1>3, <1>4

\* Plan and execute, and the fix.
LEMMA StageShortens ==
  ASSUME PInv, RoundsInv, \/ Truncate \/ Rewrite \/ AfterFix \/ SpecDone \/ PlanAnswers
                          \/ PlanDone \/ ExecuteAnswers
  PROVE  Left' < Left
  <1> USE Parameters DEF Shipping
  <1>1. CASE Truncate \/ Rewrite
    <2>1. \/ at = "stamp" /\ at' = "rewrite"
          \/ at = "rewrite" /\ at' \in {"specDone", "fixed"}
      BY <1>1 DEF Truncate, Rewrite, Goto
    <2>2. \/ Left = Shipping + 10 /\ Left' = Shipping + 9
          \/ Left = Shipping + 9 /\ Left' = Shipping + 8
      BY <2>1, Lefts DEF Left
    <2> QED BY <2>2
  <1>2. CASE AfterFix
    <2>1. Left = Shipping + 8 /\ (Return("needsInfo") \/ Return("ship"))
      <3>1. at = "fixed" /\ (Return("needsInfo") \/ Return("ship"))
        BY <1>2 DEF AfterFix
      <3>2. Left = Shipping + 8
        BY <3>1, Lefts DEF Left
      <3> QED BY <3>1, <3>2
    <2> QED BY <2>1, ReturnShortens
  <1>3. CASE SpecDone \/ PlanDone
    <2>1. \/ Left = Shipping + 8 /\ at' = "spawn" /\ call' = Call("plan", 0, "full")
          \/ Left = Shipping + 4 /\ at' = "spawn" /\ call' = Call("execute", 0, "full")
      <3>1. \/ at = "specDone" /\ at' = "spawn" /\ call' = Call("plan", 0, "full")
            \/ at = "planDone" /\ at' = "spawn" /\ call' = Call("execute", 0, "full")
        BY <1>3 DEF SpecDone, PlanDone, Spawn, Goto
      <3> QED BY <3>1, Lefts DEF Left
    <2>2. \/ Left = Shipping + 8 /\ Left' = Shipping + 6
          \/ Left = Shipping + 4 /\ Left' = Shipping + 2
      BY <2>1, Lefts, CallLefts DEF Left, StartLeft, Call
    <2> QED BY <2>2
  <1>4. CASE PlanAnswers
    <2>1. Left = Shipping + 5 /\ Left' = Shipping + 4
      BY <1>4, Lefts, CallLefts DEF PlanAnswers, Goto, Left
    <2> QED BY <2>1
  <1>5. CASE ExecuteAnswers
    <2>1. Left = Shipping + 1 /\ Return("ship")
      BY <1>5, Lefts, CallLefts DEF ExecuteAnswers, Left
    <2> QED BY <2>1, ReturnShortens
  <1> QED BY <1>1, <1>2, <1>3, <1>4, <1>5

\* Join, ship and the review's rounds.
LEMMA ReviewShortens ==
  ASSUME PInv, RoundsInv, \/ Join \/ Ship \/ Review \/ ReviewAnswers \/ RecordRound
                          \/ RecordReviewed \/ Finish
  PROVE  Left' < Left
  <1> USE Parameters DEF Shipping
  <1>0. /\ rev \in Nat /\ round.n \in Nat
        /\ (at = "turn" /\ call.stage = "codereview") \/ at = "record" => rev <= Rounds
    BY DEF PInv, PipelineTypes, ReviewInv
  <1>1. CASE Join
    BY <1>1, Lefts DEF Join, Goto, Left, Stay
  <1>2. CASE Ship
    <2>1. Left = 5 + 3 * Rounds /\ (Return("park") \/ Left' = 4 + 3 * Rounds)
      BY <1>2, Lefts DEF Ship, Goto, Left
    <2> QED BY <2>1, ReturnShortens
  <1>3. CASE Review
    <2>1. Left = 4 + 3 * Rounds
      BY <1>3, Lefts DEF Review, Left
    <2>2. CASE Return("shipped") \/ Return("park")
      BY <2>1, <2>2, ReturnShortens
    <2>3. CASE ~(Return("shipped") \/ Return("park"))
      <3>1. /\ at' = "spawn" /\ call'.stage = "codereview" /\ rev' = round.n + 1
            /\ round.n < Rounds
        BY <1>0, <1>3, <2>3 DEF Review, ReviewOver, Spawn, Goto, Call
      <3>2. Left' = 6 + 3 * (Rounds - (round.n + 1))
        BY <3>1, Lefts, CallLefts DEF Left, StartLeft
      <3> QED BY <1>0, <2>1, <3>1, <3>2
    <2> QED BY <2>2, <2>3
  <1>4. CASE ReviewAnswers
    <2>1. Left = 5 + 3 * (Rounds - rev) /\ Left' = 4 + 3 * (Rounds - rev)
      BY <1>4, Lefts, CallLefts DEF ReviewAnswers, Goto, Left
    <2> QED BY <1>0, <2>1
  <1>5. CASE RecordRound
    <2>1. at = "record" /\ Left = 4 + 3 * (Rounds - rev)
      BY <1>5, Lefts DEF RecordRound, Left
    <2>2. CASE at' = "reviewed"
      BY <1>0, <2>1, <2>2, Lefts DEF Left
    <2>3. CASE at' # "reviewed"
      <3>1. at' = "spawn" /\ call'.stage = "codereview" /\ rev' = rev + 1
        BY <1>5, <2>3 DEF RecordRound, Spawn, Goto, Call
      <3>2. Left' = 6 + 3 * (Rounds - (rev + 1))
        BY <3>1, Lefts, CallLefts DEF Left, StartLeft
      <3> QED BY <1>0, <2>1, <3>2
    <2> QED BY <2>2, <2>3
  <1>6. CASE RecordReviewed
    <2>1. Left = 3 /\ Return("shipped")
      BY <1>6, Lefts DEF RecordReviewed, Left
    <2> QED BY <2>1, ReturnShortens
  <1>7. CASE Finish
    BY <1>7, Lefts DEF Finish, Goto, Left
  <1> QED BY <1>1, <1>2, <1>3, <1>4, <1>5, <1>6, <1>7

LEMMA RunShortens ==
  ASSUME PInv, RoundsInv, RunStep
  PROVE  Left' < Left
  <1>1. CASE TurnFails
    <2>1. Left > 2 /\ Return("park")
      <3>1. /\ Left = CallLeft(call, rnd, rev) /\ rnd \in Nat /\ rnd <= MaxQARounds /\ rev \in Nat
            /\ (call.stage = "codereview" => rev <= Rounds)
        BY <1>1, Lefts, Parameters DEF TurnFails, Left, RoundsInv, PInv, PipelineTypes, ReviewInv
      <3> QED BY <1>1, <3>1, CallLefts, Parameters DEF TurnFails, Shipping
    <2> QED BY <2>1, ReturnShortens
  <1> QED BY <1>1, EntryShortens, SpawnShortens, StageShortens, ReviewShortens DEF RunStep

LEMMA RoundsStep ==
  ASSUME RoundsInv, [Next]_vars
  PROVE  RoundsInv'
  <1>1. rnd' \in {rnd, 0} \/ (rnd' = rnd + 1 /\ rnd < MaxQARounds)
    BY DEF Next, RunStep, UatStep, UatCheck, UatPost, BesideUat, Pick, Commits, Requeue, Vanish, Crash,
           Recover, vars, Dies, Streams, TurnFails, EntryAnswers, Loop, Reply, NextRound, Truncate,
           Rewrite, AfterFix, SpecDone, PlanAnswers, PlanDone, ExecuteAnswers, Join, Ship, Review,
           ReviewAnswers, RecordRound, RecordReviewed, Finish, Return, NoLocals, Forget, Stay
  <1> QED BY <1>1, Parameters DEF RoundsInv

\* What the UAT goroutine, the session's commits, people and crashes leave alone.
LEMMA OthersKeep ==
  ASSUME PInv, RoundsInv,
         \/ UatStep \/ Commits \/ Requeue \/ Vanish \/ Crash \/ Recover \/ UNCHANGED vars
  PROVE  Left' <= Left
  <1>0. Left \in Nat
    BY LeftBounds, Parameters DEF Longest, Shipping
  <1>1. CASE Crash \/ Recover
    BY <1>0, <1>1, Lefts DEF Crash, Recover, Goto, Left
  <1>2. CASE UatStep \/ Commits \/ Requeue \/ Vanish \/ UNCHANGED vars
    <2>1. UNCHANGED <<at, call, out, rnd, rev>>
      BY <1>2 DEF UatStep, UatCheck, UatPost, BesideUat, Commits, Requeue, Vanish, vars
    <2> QED BY <1>0, <2>1 DEF Left
  <1> QED BY <1>1, <1>2

\* A run has at most Longest steps: each one its goroutine takes, whatever agents
\* answer, leaves fewer, and nobody gives it more.  The Q&A rounds and the review's
\* are the only loops (MaxQARounds, Rounds; the fallback of ResumePipeline).
THEOREM RunsShorten ==
  Spec => /\ [](Left \in 0..Longest /\ (at \notin {"off", "down"} => Left > 0))
          /\ [][(RunStep => Left' < Left) /\ (at # "off" => Left' <= Left)]_vars
  <1>1. Init => RoundsInv
    <2>1. 0 \in 0..MaxQARounds
      BY Parameters
    <2> QED BY <2>1 DEF Init, RoundsInv
  <1>2. Spec => []RoundsInv
    BY <1>1, RoundsStep, PTL DEF Spec
  <1>3. PInv /\ RoundsInv /\ (Left \in 0..Longest)' /\ [Next]_vars =>
          [(RunStep => Left' < Left) /\ (at # "off" => Left' <= Left)]_vars
    <2>1. ASSUME PInv, RoundsInv, (Left \in 0..Longest)', RunStep
          PROVE  Left' < Left /\ Left' <= Left
      <3>1. Left \in Nat /\ Left' < Left
        BY <2>1, RunShortens, LeftBounds, Parameters DEF Longest, Shipping
      <3>2. Left' \in Int
        BY <2>1, Parameters DEF Longest, Shipping
      <3> QED BY <3>1, <3>2
    <2>2. Pick => at = "off"
      BY DEF Pick
    <2> QED BY <2>1, <2>2, OthersKeep DEF Next
  <1>4. PInv /\ RoundsInv => Left \in 0..Longest /\ (at \notin {"off", "down"} => Left > 0)
    BY LeftBounds
  <1> QED BY <1>2, <1>3, <1>4, PipelineInvariance, PTL DEF Spec
=============================================================================
