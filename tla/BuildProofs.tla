---------------------------- MODULE BuildProofs -----------------------------
(***************************************************************************)
(* What holds of docker build and docker commit for any number of requests,*)
(* Dockerfiles, options and rows that earlier builds left.                 *)
(***************************************************************************)
EXTENDS Build, TLAPS

(* The rows from Base to id, one for each of the first n lines.            *)
Row(b, i, from, to) ==
    [id |-> to, owner |-> OwnerOf[b], parent |-> from,
     cmd |-> Dockerfile[b][i], labels |-> LabelsOf[b]]
IsChain(b, n, rows, chain) ==
    /\ chain \in [0..n -> {Base} \cup {r.id : r \in rows}]
    /\ chain[0] = Base
    /\ \A i \in 1..n : Row(b, i, chain[i - 1], chain[i]) \in rows
Made(b, id, n, rows) ==
    \E chain : IsChain(b, n, rows, chain) /\ chain[n] = id

LEMMA MadeNothing ==
    ASSUME NEW b \in Builds, NEW rows PROVE Made(b, Base, 0, rows)
<1> DEFINE chain == [i \in 0..0 |-> Base]
<1>1. IsChain(b, 0, rows, chain) /\ chain[0] = Base
  BY DEF IsChain
<1> QED BY <1>1 DEF Made

LEMMA MadeFromMore ==
    ASSUME NEW b \in Builds, NEW id, NEW n \in Nat, NEW rows, NEW more,
           rows \subseteq more, Made(b, id, n, rows)
    PROVE  Made(b, id, n, more)
<1>1. PICK chain : IsChain(b, n, rows, chain) /\ chain[n] = id
  BY DEF Made
<1>2. IsChain(b, n, more, chain)
  BY <1>1 DEF IsChain
<1> QED BY <1>1, <1>2 DEF Made

(* One more line.                                                          *)
LEMMA MadeFurther ==
    ASSUME NEW b \in Builds, NEW from, NEW to, NEW n \in Nat, NEW rows,
           Made(b, from, n, rows), Row(b, n + 1, from, to) \in rows
    PROVE  Made(b, to, n + 1, rows)
<1>1. PICK chain : IsChain(b, n, rows, chain) /\ chain[n] = from
  BY DEF Made
<1> DEFINE S == {Base} \cup {r.id : r \in rows}
           next == [i \in 0..(n + 1) |-> IF i = n + 1 THEN to ELSE chain[i]]
<1>2. to \in S
  <2>1. Row(b, n + 1, from, to).id = to
    BY DEF Row
  <2> QED BY <2>1
<1>3. /\ n + 1 \in 0..(n + 1) /\ 0 \in 0..(n + 1) /\ n + 1 # 0
      /\ \A i \in 0..n : i \in 0..(n + 1) /\ i # n + 1
      /\ \A i \in 0..(n + 1) : i # n + 1 => i \in 0..n
      /\ 0 \in 0..n /\ n \in 0..n
  OBVIOUS
<1>4. /\ chain \in [0..n -> S] /\ chain[0] = Base
      /\ \A i \in 1..n : Row(b, i, chain[i - 1], chain[i]) \in rows
  BY <1>1 DEF IsChain
<1> HIDE DEF S
<1>5. /\ next \in [0..(n + 1) -> S] /\ next[n + 1] = to
      /\ \A i \in 0..n : next[i] = chain[i]
  BY <1>2, <1>3, <1>4
<1> HIDE DEF next
<1>6. ASSUME NEW i \in 1..(n + 1)
      PROVE  Row(b, i, next[i - 1], next[i]) \in rows
  <2>1. CASE i = n + 1
    <3>1. i - 1 = n /\ next[n] = chain[n]
      BY <1>3, <1>5, <2>1
    <3> QED BY <1>1, <1>5, <2>1, <3>1
  <2>2. CASE i # n + 1
    <3>1. i \in 1..n /\ i \in 0..n /\ i - 1 \in 0..n
      BY <1>6, <2>2
    <3> QED BY <1>4, <1>5, <3>1
  <2> QED BY <2>1, <2>2
<1>7. IsChain(b, n + 1, rows, next)
  BY <1>3, <1>4, <1>5, <1>6 DEF IsChain, S
<1> QED BY <1>5, <1>7 DEF Made

LEMMA BuiltByIs ==
    ASSUME NEW b \in Builds, NEW id, Made(b, id, Len(Dockerfile[b]), images)
    PROVE  BuiltBy(b, id)
<1>1. PICK chain : /\ IsChain(b, Len(Dockerfile[b]), images, chain)
                   /\ chain[Len(Dockerfile[b])] = id
  BY DEF Made
<1> QED BY <1>1 DEF BuiltBy, IsChain, Row

-----------------------------------------------------------------------------
(* Of one build: its options o, the variables r of its handler, cn-agent's *)
(* a, the message m, the container v, what the name stands for t, and the  *)
(* rows.  Where cn-agent is in the Dockerfile, and what it has made.       *)
Lines(b) == Len(Dockerfile[b])
Placed(b, a, rows) ==
    /\ a.step <= Lines(b) + 1
    /\ a.step = 0 => a.at = Base
    /\ a.step # 0 => Made(b, a.at, a.step - 1, rows)

(* It waits for what it asked, which is what the line calls for.           *)
Asked(b, a, m) ==
    /\ m.type # "none" => a.pc \in {"waiting", "gone"}
    /\ m.type = "image_reprovision" => a.step = 0
    /\ m.type \in {"find_cached_image", "run", "image_create"}
          => a.step \in 1..Lines(b)
    /\ m.type = "finished" => a.step = Lines(b) + 1

(* Nothing is asked before the events, nor started without a container.    *)
BeforeAgent == {"none", "findScratch", "createScratch", "importScratch",
                "addDigests", "activateScratch", "createContainer", "getVm",
                "findImage", "dockerBuild"}
Begun(o, r, a, m) ==
    /\ r.pc \in BeforeAgent => a.pc = "none"
    /\ a.pc = "none" => m.type = "none" /\ ~r.finished
    /\ r.pc = "sendContext" => a.pc = "next"
    /\ r.pc = "events" => a.pc # "none"
    /\ r.pc \in {"getVm", "dockerBuild"} \/ a.pc # "none"
          => o.commit \/ r.vmUuid
    /\ r.pc = "findImage" => o.commit

(* Once the build is finished cn-agent asks nothing more.                  *)
Ended(b, o, r, a, m, t) ==
    r.finished =>
        /\ a.pc \in {"end", "gone"} /\ m.type = "none"
        /\ a.step = Lines(b) + 1
        /\ o.named => t = a.at

Tagged(b, t, rows) == t # None => Made(b, t, Lines(b), rows)

(* The container of a build that asked for it is gone after the cleanup.   *)
Removed(o, r, v) ==
    /\ r.pc = "report" /\ ~r.err /\ ~r.previousErr /\ r.vmUuid
          => (o.rm \/ o.forcerm => v = "deleted")
    /\ r.answer = "ok" =>
          /\ r.pc = "done" /\ r.finished
          /\ o.rm \/ o.forcerm => v = "deleted"

CommitMakesOne(b, o) ==
    o.commit => Lines(b) = 1 /\ ~o.rm /\ ~o.forcerm

Sound(b, o, r, a, m, v, t, rows) ==
    /\ Placed(b, a, rows) /\ Asked(b, a, m) /\ Begun(o, r, a, m)
    /\ Ended(b, o, r, a, m, t) /\ Tagged(b, t, rows) /\ Removed(o, r, v)
    /\ CommitMakesOne(b, o)
BuildInv ==
    /\ TypeOK
    /\ \A b \in Builds :
          Sound(b, opts[b], build[b], agent[b], msg[b], vm[b], tags[b], images)

-----------------------------------------------------------------------------
(* A step of one build.                                                    *)

(* g is f but at b, where it is x.                                         *)
One(f, g, b, x, S) ==
    /\ g \in [Builds -> S] /\ g[b] = x
    /\ \A d \in Builds : d # b => g[d] = f[d]

LEMMA OneExcept ==
    ASSUME NEW S, NEW f \in [Builds -> S], NEW b \in Builds, NEW x \in S
    PROVE  One(f, [f EXCEPT ![b] = x], b, x, S)
  BY DEF One

LEMMA OneSame ==
    ASSUME NEW S, NEW f \in [Builds -> S], NEW b \in Builds
    PROVE  One(f, f, b, f[b], S)
  BY DEF One

LEMMA SoundWithMore ==
    ASSUME NEW b \in Builds, NEW o, NEW r, NEW a \in AgentType, NEW m, NEW v, NEW t,
           NEW rows, NEW more, rows \subseteq more,
           Sound(b, o, r, a, m, v, t, rows)
    PROVE  Sound(b, o, r, a, m, v, t, more)
<1>1. Lines(b) \in Nat /\ (a.step # 0 => a.step - 1 \in Nat)
  BY BuildAssumption DEF Lines, AgentType
<1>2. Placed(b, a, more) /\ Tagged(b, t, more)
  BY <1>1, MadeFromMore DEF Sound, Placed, Tagged
<1> QED BY <1>2 DEF Sound

LEMMA StepOf ==
    ASSUME BuildInv, NEW b \in Builds, NEW r, NEW a, NEW m, NEW v, NEW t,
           One(build, build', b, r, BuildType), One(agent, agent', b, a, AgentType),
           One(msg, msg', b, m, MsgType), One(vm, vm', b, v, VmStates),
           One(tags, tags', b, t, Ids \cup {None}), opts' = opts,
           images \subseteq images', \A x \in images' : x \in RowType,
           scratch' \in ScratchType, pulled' \subseteq Owners,
           Sound(b, opts[b], r, a, m, v, t, images')
    PROVE  BuildInv'
<1>1. TypeOK'
  BY DEF BuildInv, TypeOK, One
<1>2. ASSUME NEW d \in Builds
      PROVE  Sound(d, opts'[d], build'[d], agent'[d], msg'[d], vm'[d], tags'[d], images')
  <2>1. CASE d = b
    BY <2>1 DEF One
  <2>2. CASE d # b
    <3>1. agent[d] \in AgentType
      BY DEF BuildInv, TypeOK
    <3>2. Sound(d, opts[d], build[d], agent[d], msg[d], vm[d], tags[d], images)
      BY DEF BuildInv
    <3>3. Sound(d, opts[d], build[d], agent[d], msg[d], vm[d], tags[d], images')
      BY <3>1, <3>2, SoundWithMore
    <3> QED BY <2>2, <3>3 DEF One
  <2> QED BY <2>1, <2>2
<1> QED BY <1>1, <1>2 DEF BuildInv

LEMMA Typing ==
    ASSUME BuildInv, NEW b \in Builds
    PROVE  /\ build \in [Builds -> BuildType] /\ build[b] \in BuildType
           /\ agent \in [Builds -> AgentType] /\ agent[b] \in AgentType
           /\ msg \in [Builds -> MsgType] /\ msg[b] \in MsgType
           /\ vm \in [Builds -> VmStates] /\ vm[b] \in VmStates
           /\ tags \in [Builds -> Ids \cup {None}] /\ tags[b] \in Ids \cup {None}
           /\ opts \in [Builds -> OptionType] /\ opts[b] \in OptionType
           /\ scratch \in ScratchType /\ pulled \subseteq Owners
           /\ \A x \in images : x \in RowType
           /\ Sound(b, opts[b], build[b], agent[b], msg[b], vm[b], tags[b], images)
  BY DEF BuildInv, TypeOK

LEMMA PipelineStep ==
    ASSUME BuildInv, NEW b \in Builds, NEW r \in BuildType, NEW v \in VmStates,
           build' = [build EXCEPT ![b] = r],
           vm' = [vm EXCEPT ![b] = v], scratch' \in ScratchType,
           UNCHANGED <<opts, agent, msg, images, pulled, tags>>,
           Sound(b, opts[b], r, agent[b], msg[b], v, tags[b], images)
    PROVE  BuildInv'
<1>1. /\ One(build, build', b, r, BuildType) /\ One(vm, vm', b, v, VmStates)
      /\ One(agent, agent', b, agent[b], AgentType)
      /\ One(msg, msg', b, msg[b], MsgType)
      /\ One(tags, tags', b, tags[b], Ids \cup {None})
  BY Typing, OneExcept, OneSame
<1>2. images \subseteq images' /\ (\A x \in images' : x \in RowType) /\ pulled' \subseteq Owners
  BY Typing
<1> QED BY <1>1, <1>2, StepOf

(* What the steps make of the variables of the handler.                    *)
ToPc(r, pc) == [r EXCEPT !.pc = pc]
Aborted(r) == [r EXCEPT !.pc = "cleanup", !.err = TRUE]
Closed(r, err) == [r EXCEPT !.pc = "cleanup", !.err = err]
WithVm(r) == [r EXCEPT !.pc = "getVm", !.vmUuid = TRUE]
Erred(r) == [r EXCEPT !.previousErr = TRUE]
FinishedNow(r) == [r EXCEPT !.finished = TRUE]
Answered(r, answer) == [r EXCEPT !.pc = "done", !.answer = answer]
Pcs == BeforeAgent \cup {"sendContext", "events", "cleanup", "report", "done"}
Answers == {"none", "ok", "error", "thrown"}

LEMMA ToPcIs ==
    ASSUME NEW r \in BuildType, NEW pc \in Pcs
    PROVE  LET s == ToPc(r, pc)
           IN  /\ s \in BuildType /\ s.pc = pc /\ s.vmUuid = r.vmUuid
               /\ s.finished = r.finished /\ s.previousErr = r.previousErr
               /\ s.err = r.err /\ s.answer = r.answer
  BY DEF BuildType, ToPc, Pcs, BeforeAgent

LEMMA AbortedIs ==
    ASSUME NEW r \in BuildType
    PROVE  LET s == Aborted(r)
           IN  /\ s \in BuildType /\ s.pc = "cleanup" /\ s.vmUuid = r.vmUuid
               /\ s.finished = r.finished /\ s.previousErr = r.previousErr
               /\ s.err /\ s.answer = r.answer
  BY DEF BuildType, Aborted

LEMMA ClosedIs ==
    ASSUME NEW r \in BuildType, NEW err \in BOOLEAN
    PROVE  LET s == Closed(r, err)
           IN  /\ s \in BuildType /\ s.pc = "cleanup" /\ s.vmUuid = r.vmUuid
               /\ s.finished = r.finished /\ s.previousErr = r.previousErr
               /\ s.answer = r.answer
  BY DEF BuildType, Closed

LEMMA WithVmIs ==
    ASSUME NEW r \in BuildType
    PROVE  LET s == WithVm(r)
           IN  /\ s \in BuildType /\ s.pc = "getVm" /\ s.vmUuid
               /\ s.finished = r.finished /\ s.previousErr = r.previousErr
               /\ s.err = r.err /\ s.answer = r.answer
  BY DEF BuildType, WithVm

LEMMA ErredIs ==
    ASSUME NEW r \in BuildType
    PROVE  LET s == Erred(r)
           IN  /\ s \in BuildType /\ s.pc = r.pc /\ s.vmUuid = r.vmUuid
               /\ s.finished = r.finished /\ s.previousErr
               /\ s.err = r.err /\ s.answer = r.answer
  BY DEF BuildType, Erred

LEMMA FinishedNowIs ==
    ASSUME NEW r \in BuildType
    PROVE  LET s == FinishedNow(r)
           IN  /\ s \in BuildType /\ s.pc = r.pc /\ s.vmUuid = r.vmUuid
               /\ s.finished /\ s.previousErr = r.previousErr
               /\ s.err = r.err /\ s.answer = r.answer
  BY DEF BuildType, FinishedNow

LEMMA AnsweredIs ==
    ASSUME NEW r \in BuildType, NEW answer \in Answers
    PROVE  LET s == Answered(r, answer)
           IN  /\ s \in BuildType /\ s.pc = "done" /\ s.vmUuid = r.vmUuid
               /\ s.finished = r.finished /\ s.previousErr = r.previousErr
               /\ s.err = r.err /\ s.answer = answer
  BY DEF BuildType, Answered, Answers

LEMMA ScratchRecords ==
    ASSUME BuildInv
    PROVE  /\ [scratch EXCEPT !.state = "unactivated"] \in ScratchType
           /\ [scratch EXCEPT !.state = "active"] \in ScratchType
           /\ [scratch EXCEPT !.file = TRUE] \in ScratchType
           /\ [scratch EXCEPT !.digest = TRUE] \in ScratchType
  BY DEF BuildInv, TypeOK, ScratchType

-----------------------------------------------------------------------------
(* The pipeline of buildImage.                                             *)

LEMMA WalkKeeps ==
    ASSUME BuildInv, NEW b \in Builds,
           \/ Start(b) \/ FindScratchImage(b) \/ CreateScratchImage(b)
           \/ ImportScratchImage(b) \/ AddFileDigests(b) \/ ActivateScratchImage(b)
           \/ GetVmObject(b) \/ FindContainerImage(b) \/ SendContext(b),
           opts' = opts
    PROVE  BuildInv'
<1> DEFINE r == build[b]
           v == vm[b]
<1>1. PICK pc \in Pcs :
        /\ build' = [build EXCEPT ![b].pc = pc]
        /\ \/ /\ r.pc \in BeforeAgent /\ pc \in BeforeAgent \ {"getVm"}
              /\ pc = "findImage" => opts[b].commit
              /\ pc = "dockerBuild" => r.pc \in {"getVm", "findImage"}
           \/ r.pc = "sendContext" /\ pc = "events"
  <2> USE DEF Pcs, BeforeAgent, Goto, At
  <2>1. CASE Start(b)
    <3>1. CASE opts[b].commit
      <4>1. build' = [build EXCEPT ![b].pc = "findImage"] /\ r.pc = "none"
        BY <2>1, <3>1 DEF Start
      <4> QED BY <3>1, <4>1
    <3>2. CASE ~opts[b].commit
      <4>1. build' = [build EXCEPT ![b].pc = "findScratch"] /\ r.pc = "none"
        BY <2>1, <3>2 DEF Start
      <4> QED BY <4>1
    <3> QED BY <3>1, <3>2
  <2>2. CASE FindScratchImage(b)
    <3>1. CASE scratch.state = "none"
      BY <2>2, <3>1 DEF FindScratchImage
    <3>2. CASE scratch.state # "none"
      BY <2>2, <3>2 DEF FindScratchImage
    <3> QED BY <3>1, <3>2
  <2>3. CASE \/ CreateScratchImage(b) \/ ImportScratchImage(b)
             \/ AddFileDigests(b) \/ ActivateScratchImage(b)
    BY <2>3 DEF CreateScratchImage, ImportScratchImage, AddFileDigests,
                ActivateScratchImage
  <2>4. CASE GetVmObject(b) \/ FindContainerImage(b) \/ SendContext(b)
    BY <2>4 DEF GetVmObject, FindContainerImage, SendContext
  <2> QED BY <2>1, <2>2, <2>3, <2>4
<1>2. UNCHANGED <<agent, msg, vm, images, pulled, tags>> /\ scratch' \in ScratchType
  BY ScratchRecords, Typing DEF Start, FindScratchImage, CreateScratchImage,
     ImportScratchImage, AddFileDigests, ActivateScratchImage, GetVmObject,
     FindContainerImage, SendContext, RestUnchanged
<1> DEFINE s == ToPc(r, pc)
<1>3. /\ s \in BuildType /\ s.pc = pc /\ s.vmUuid = r.vmUuid
      /\ s.finished = r.finished /\ s.previousErr = r.previousErr
      /\ s.err = r.err /\ s.answer = r.answer
  BY Typing, ToPcIs
<1>4. build' = [build EXCEPT ![b] = s] /\ vm' = [vm EXCEPT ![b] = v] /\ v \in VmStates
  BY <1>1, <1>2, Typing DEF ToPc
<1> HIDE DEF s
<1>5. Sound(b, opts[b], r, agent[b], msg[b], v, tags[b], images)
  BY Typing
<1>6. /\ s.pc \in BeforeAgent => agent[b].pc = "none"
      /\ s.pc \in {"getVm", "dockerBuild"} => opts[b].commit \/ s.vmUuid
      /\ s.pc = "findImage" => opts[b].commit
      /\ s.pc = "events" => agent[b].pc # "none"
      /\ s.pc \notin {"report", "sendContext"} /\ s.answer # "ok"
  BY <1>1, <1>3, <1>5 DEF Sound, Begun, Removed, BeforeAgent
<1>7. Sound(b, opts[b], s, agent[b], msg[b], v, tags[b], images)
  BY <1>3, <1>5, <1>6 DEF Sound, Begun, Ended, Removed
<1> QED BY <1>2, <1>3, <1>4, <1>7, PipelineStep

LEMMA ContainerKeeps ==
    ASSUME BuildInv, NEW b \in Builds,
           CreateContainer(b) \/ CreateContainerFails(b) \/ StepFails(b),
           opts' = opts
    PROVE  BuildInv'
<1> DEFINE r == build[b]
<1>1. Sound(b, opts[b], r, agent[b], msg[b], vm[b], tags[b], images)
  BY Typing
<1>2. r.pc \in BeforeAgent
  BY DEF CreateContainer, CreateContainerFails, StepFails, BeforeAgent, At
<1>3. ASSUME NEW s \in BuildType, NEW v \in VmStates, s.finished = r.finished,
             s.answer = r.answer, s.pc = "cleanup" \/ (s.pc = "getVm" /\ s.vmUuid),
             r.vmUuid => s.vmUuid
      PROVE  Sound(b, opts[b], s, agent[b], msg[b], v, tags[b], images)
  BY <1>1, <1>2, <1>3 DEF Sound, Begun, Ended, Removed, BeforeAgent
<1>4. CASE CreateContainer(b)
  <2> DEFINE s == WithVm(r)
  <2>1. /\ s \in BuildType /\ s.pc = "getVm" /\ s.vmUuid
        /\ s.finished = r.finished /\ s.answer = r.answer
    BY Typing, WithVmIs
  <2>2. build' = [build EXCEPT ![b] = s] /\ vm' = [vm EXCEPT ![b] = "stopped"]
    BY <1>4, Typing DEF CreateContainer, WithVm
  <2> HIDE DEF s
  <2>3. "stopped" \in VmStates /\ scratch' \in ScratchType
    BY <1>4, Typing DEF VmStates, CreateContainer
  <2>4. Sound(b, opts[b], s, agent[b], msg[b], "stopped", tags[b], images)
    BY <1>3, <2>1, <2>3
  <2>5. UNCHANGED <<opts, agent, msg, images, pulled, tags>>
    BY <1>4 DEF CreateContainer
  <2> QED BY <2>1, <2>2, <2>3, <2>4, <2>5, PipelineStep
<1>5. CASE CreateContainerFails(b) \/ StepFails(b)
  <2> DEFINE s == Aborted(r)
  <2>1. /\ s \in BuildType /\ s.pc = "cleanup" /\ s.vmUuid = r.vmUuid
        /\ s.finished = r.finished /\ s.answer = r.answer
    BY Typing, AbortedIs
  <2>2. build' = [build EXCEPT ![b] = s]
    BY <1>5, Typing DEF CreateContainerFails, StepFails, Abort, Aborted
  <2> HIDE DEF s
  <2>3. PICK v \in VmStates : vm' = [vm EXCEPT ![b] = v]
    <3>1. CASE CreateContainerFails(b)
      <4>1. vm' = [vm EXCEPT ![b] = "stopped"] /\ "stopped" \in VmStates
        BY <3>1 DEF CreateContainerFails, VmStates
      <4> QED BY <4>1
    <3>2. CASE StepFails(b)
      <4>1. vm' = vm
        BY <3>2 DEF StepFails, RestUnchanged
      <4>2. vm' = [vm EXCEPT ![b] = vm[b]] /\ vm[b] \in VmStates
        BY <4>1, Typing
      <4> QED BY <4>2
    <3> QED BY <1>5, <3>1, <3>2
  <2>4. Sound(b, opts[b], s, agent[b], msg[b], v, tags[b], images)
    BY <1>3, <2>1
  <2>5. UNCHANGED <<opts, agent, msg, images, pulled, tags>> /\ scratch' \in ScratchType
    BY <1>5, Typing DEF CreateContainerFails, StepFails, RestUnchanged
  <2> QED BY <2>1, <2>2, <2>3, <2>4, <2>5, PipelineStep
<1> QED BY <1>4, <1>5

LEMMA EndKeeps ==
    ASSUME BuildInv, NEW b \in Builds,
           Cleanup(b) \/ CleanupFails(b) \/ Report(b) \/ ContextSocketFails(b),
           opts' = opts
    PROVE  BuildInv'
<1> DEFINE r == build[b]
<1>1. /\ Sound(b, opts[b], r, agent[b], msg[b], vm[b], tags[b], images)
      /\ scratch' \in ScratchType /\ vm[b] \in VmStates
      /\ UNCHANGED <<opts, agent, msg, images, pulled, tags>>
  BY Typing DEF Cleanup, CleanupFails, Report, ContextSocketFails, RestUnchanged
<1>2. CASE Cleanup(b)
  <2> DEFINE s == ToPc(r, "report")
             v == IF MustDelete(b) THEN "deleted" ELSE vm[b]
  <2>1. /\ s \in BuildType /\ s.pc = "report" /\ s.vmUuid = r.vmUuid
        /\ s.finished = r.finished /\ s.previousErr = r.previousErr
        /\ s.err = r.err /\ s.answer = r.answer
    <3>1. "report" \in Pcs
      BY DEF Pcs
    <3> QED BY <3>1, Typing, ToPcIs
  <2>2. build' = [build EXCEPT ![b] = s] /\ vm' = [vm EXCEPT ![b] = v]
    BY <1>2, Typing DEF Cleanup, Goto, ToPc
  <2>3. v \in VmStates
    BY Typing DEF VmStates
  <2>4. ~r.err /\ ~r.previousErr /\ r.vmUuid
          => (opts[b].rm \/ opts[b].forcerm => v = "deleted")
    BY DEF MustDelete, Failed
  <2>5. r.answer # "ok"
    BY <1>1, <1>2 DEF Sound, Removed, Cleanup, At
  <2> HIDE DEF s, v
  <2>6. Sound(b, opts[b], s, agent[b], msg[b], v, tags[b], images)
    <3>1. Removed(opts[b], s, v)
      BY <2>1, <2>4, <2>5 DEF Removed
    <3>2. Begun(opts[b], s, agent[b], msg[b])
      BY <1>1, <2>1 DEF Sound, Begun, BeforeAgent
    <3> QED BY <1>1, <2>1, <3>1, <3>2 DEF Sound, Ended
  <2> QED BY <1>1, <2>1, <2>2, <2>3, <2>6, PipelineStep
<1>3. CASE CleanupFails(b) /\ Failed(b)
  <2> DEFINE s == ToPc(r, "report")
  <2>1. /\ s \in BuildType /\ s.pc = "report" /\ s.vmUuid = r.vmUuid
        /\ s.finished = r.finished /\ s.previousErr = r.previousErr
        /\ s.err = r.err /\ s.answer = r.answer
    <3>1. "report" \in Pcs
      BY DEF Pcs
    <3> QED BY <3>1, Typing, ToPcIs
  <2>2. build' = [build EXCEPT ![b] = s] /\ vm' = [vm EXCEPT ![b] = vm[b]]
    BY <1>3, Typing DEF CleanupFails, Goto, ToPc, RestUnchanged
  <2>3. r.err \/ r.previousErr
    BY <1>3 DEF Failed
  <2>4. r.answer # "ok"
    BY <1>1, <1>3 DEF Sound, Removed, CleanupFails, At
  <2> HIDE DEF s
  <2>5. Sound(b, opts[b], s, agent[b], msg[b], vm[b], tags[b], images)
    <3>1. Removed(opts[b], s, vm[b])
      BY <2>1, <2>3, <2>4 DEF Removed
    <3>2. Begun(opts[b], s, agent[b], msg[b])
      BY <1>1, <2>1 DEF Sound, Begun, BeforeAgent
    <3> QED BY <1>1, <2>1, <3>1, <3>2 DEF Sound, Ended
  <2> QED BY <1>1, <2>1, <2>2, <2>5, PipelineStep
<1>4. CASE (CleanupFails(b) /\ ~Failed(b)) \/ Report(b) \/ ContextSocketFails(b)
  <2>1. PICK answer \in Answers :
          /\ build' = [build EXCEPT ![b].pc = "done", ![b].answer = answer]
          /\ answer = "ok" => r.pc = "report" /\ ~r.err /\ ~r.previousErr /\ r.finished
    <3>1. CASE CleanupFails(b) /\ ~Failed(b)
      BY <3>1 DEF CleanupFails, Answers
    <3>2. CASE Report(b)
      <4>1. CASE Failed(b) \/ ~build[b].finished
        BY <3>2, <4>1 DEF Report, Answers
      <4>2. CASE ~(Failed(b) \/ ~build[b].finished)
        BY <3>2, <4>2 DEF Report, Answers, Failed, At
      <4> QED BY <4>1, <4>2
    <3>3. CASE ContextSocketFails(b)
      BY <3>3 DEF ContextSocketFails, Answers
    <3> QED BY <1>4, <3>1, <3>2, <3>3
  <2> DEFINE s == Answered(r, answer)
  <2>2. /\ s \in BuildType /\ s.pc = "done" /\ s.vmUuid = r.vmUuid
        /\ s.finished = r.finished /\ s.answer = answer
    BY Typing, AnsweredIs
  <2>3. build' = [build EXCEPT ![b] = s] /\ vm' = [vm EXCEPT ![b] = vm[b]]
    BY <1>4, <2>1, Typing
       DEF CleanupFails, Report, ContextSocketFails, Answered, RestUnchanged
  <2> HIDE DEF s
  <2>4. Begun(opts[b], s, agent[b], msg[b])
    BY <1>1, <2>2 DEF Sound, Begun, BeforeAgent
  <2>5. Removed(opts[b], s, vm[b])
    <3>1. r.finished => opts[b].commit \/ r.vmUuid
      BY <1>1 DEF Sound, Begun
    <3>2. opts[b].commit => ~opts[b].rm /\ ~opts[b].forcerm
      BY <1>1 DEF Sound, CommitMakesOne
    <3> QED BY <1>1, <2>1, <2>2, <3>1, <3>2 DEF Sound, Removed
  <2>6. Sound(b, opts[b], s, agent[b], msg[b], vm[b], tags[b], images)
    BY <1>1, <2>2, <2>4, <2>5 DEF Sound, Ended
  <2> QED BY <1>1, <2>2, <2>3, <2>6, PipelineStep
<1> QED BY <1>2, <1>3, <1>4

-----------------------------------------------------------------------------
(* The steps of cn-agent, and of the messages it waits for.                *)

AgentTo(a, pc) == [a EXCEPT !.pc = pc]
WithImage(a, id) == [a EXCEPT !.pc = "next", !.at = id, !.step = @ + 1]
Stopped(a, e) == [a EXCEPT !.pc = "end", !.error = e]
AgentPcs == {"none", "next", "miss", "ran", "waiting", "end", "gone"}

LEMMA AgentToIs ==
    ASSUME NEW a \in AgentType, NEW pc \in AgentPcs
    PROVE  LET c == AgentTo(a, pc)
           IN  /\ c \in AgentType /\ c.pc = pc /\ c.step = a.step
               /\ c.at = a.at
  BY DEF AgentType, AgentTo, AgentPcs

LEMMA WithImageIs ==
    ASSUME NEW a \in AgentType, NEW id \in Ids
    PROVE  LET c == WithImage(a, id)
           IN  /\ c \in AgentType /\ c.pc = "next" /\ c.step = a.step + 1
               /\ c.at = id
<1>1. a.step + 1 \in Nat
  BY DEF AgentType
<1> DEFINE n == a.step + 1
<1>2. WithImage(a, id) = [a EXCEPT !.pc = "next", !.at = id, !.step = n]
  BY DEF WithImage, AgentType
<1> HIDE DEF n
<1>3. n \in Nat
  BY <1>1 DEF n
<1> QED
  <2>1. n = a.step + 1
    BY DEF n
  <2> QED BY <1>2, <1>3, <2>1 DEF AgentType

LEMMA StoppedIs ==
    ASSUME NEW a \in AgentType, NEW e \in BOOLEAN
    PROVE  LET c == Stopped(a, e)
           IN  /\ c \in AgentType /\ c.pc = "end" /\ c.step = a.step
               /\ c.at = a.at
  BY DEF AgentType, Stopped

LEMMA PlacedSame ==
    ASSUME NEW b, NEW a, NEW c, NEW rows, Placed(b, a, rows),
           c.step = a.step, c.at = a.at
    PROVE  Placed(b, c, rows)
  BY DEF Placed

LEMMA RemovedElse ==
    ASSUME NEW o \in OptionType, NEW r, NEW v, NEW w, Removed(o, r, v), v # "deleted"
    PROVE  Removed(o, r, w)
  BY DEF Removed

LEMMA AgentStep ==
    ASSUME BuildInv, NEW b \in Builds, NEW r \in BuildType, NEW a \in AgentType,
           build' = [build EXCEPT ![b] = r], agent' = [agent EXCEPT ![b] = a],
           UNCHANGED <<opts, msg, vm, scratch, images, pulled, tags>>,
           Sound(b, opts[b], r, a, msg[b], vm[b], tags[b], images)
    PROVE  BuildInv'
<1>1. /\ One(build, build', b, r, BuildType) /\ One(agent, agent', b, a, AgentType)
      /\ One(vm, vm', b, vm[b], VmStates)
      /\ One(msg, msg', b, msg[b], MsgType)
      /\ One(tags, tags', b, tags[b], Ids \cup {None})
  BY Typing, OneExcept, OneSame
<1>2. /\ images \subseteq images' /\ (\A x \in images' : x \in RowType)
      /\ pulled' \subseteq Owners /\ scratch' \in ScratchType
  BY Typing
<1> QED BY <1>1, <1>2, StepOf

LEMMA SocketKeeps ==
    ASSUME BuildInv, NEW b \in Builds,
           CnapiDockerBuild(b) \/ SocketEnd(b) \/ SocketFails(b), opts' = opts
    PROVE  BuildInv'
<1> DEFINE r == build[b]
           a == agent[b]
           o == opts[b]
<1>1. /\ Sound(b, o, r, a, msg[b], vm[b], tags[b], images)
      /\ UNCHANGED <<opts, msg, vm, scratch, images, pulled, tags>>
      /\ r \in BuildType /\ a \in AgentType
  BY Typing DEF CnapiDockerBuild, SocketEnd, SocketFails
<1>2. CASE CnapiDockerBuild(b)
  <2>1. PICK pc \in {"events", "sendContext"} : build' = [build EXCEPT ![b].pc = pc]
    <3>1. CASE o.commit
      BY <1>2, <3>1 DEF CnapiDockerBuild, Goto
    <3>2. CASE ~o.commit
      BY <1>2, <3>2 DEF CnapiDockerBuild, Goto
    <3> QED BY <3>1, <3>2
  <2> DEFINE s == ToPc(r, pc)
             c == AgentTo(a, "next")
  <2>2. /\ s \in BuildType /\ s.pc = pc /\ s.vmUuid = r.vmUuid
        /\ s.finished = r.finished /\ s.previousErr = r.previousErr
        /\ s.err = r.err /\ s.answer = r.answer
    <3>1. pc \in Pcs
      BY DEF Pcs
    <3> QED BY <3>1, Typing, ToPcIs
  <2>3. c \in AgentType /\ c.pc = "next" /\ c.step = a.step /\ c.at = a.at
    <3>1. "next" \in AgentPcs
      BY DEF AgentPcs
    <3> QED BY <3>1, Typing, AgentToIs
  <2>4. build' = [build EXCEPT ![b] = s] /\ agent' = [agent EXCEPT ![b] = c]
    BY <1>2, <2>1, Typing DEF CnapiDockerBuild, ToPc, AgentTo
  <2>5. r.pc = "dockerBuild"
    BY <1>2 DEF CnapiDockerBuild, At
  <2> HIDE DEF s, c
  <2>6. Begun(o, r, a, msg[b]) /\ Asked(b, a, msg[b]) /\ Removed(o, r, vm[b])
    BY <1>1 DEF Sound
  <2>7. msg[b].type = "none" /\ ~r.finished /\ (o.commit \/ r.vmUuid) /\ r.answer # "ok"
    BY <2>5, <2>6 DEF Begun, BeforeAgent, Removed
  <2>8. Placed(b, c, images)
    BY <1>1, <2>3, PlacedSame DEF Sound
  <2>9. /\ Asked(b, c, msg[b]) /\ Begun(o, s, c, msg[b])
        /\ Ended(b, o, s, c, msg[b], tags[b]) /\ Removed(o, s, vm[b])
    BY <2>2, <2>3, <2>7 DEF Asked, Begun, Ended, Removed, BeforeAgent
  <2>10. Sound(b, o, s, c, msg[b], vm[b], tags[b], images)
    BY <1>1, <2>8, <2>9 DEF Sound
  <2> QED BY <1>1, <2>2, <2>3, <2>4, <2>10, AgentStep
<1>3. CASE SocketEnd(b) \/ SocketFails(b)
  <2> DEFINE c == AgentTo(a, "gone")
  <2>1. PICK s \in BuildType :
          /\ build' = [build EXCEPT ![b] = s]
          /\ s.pc = "cleanup" /\ s.vmUuid = r.vmUuid
          /\ s.finished = r.finished /\ s.answer = r.answer
    <3>1. CASE SocketEnd(b)
      <4> DEFINE s == Closed(r, a.error)
      <4>1. a.error \in BOOLEAN
        BY <1>1 DEF AgentType
      <4>2. /\ s \in BuildType /\ s.pc = "cleanup" /\ s.vmUuid = r.vmUuid
            /\ s.finished = r.finished /\ s.answer = r.answer
        BY <1>1, <4>1, ClosedIs
      <4>3. build' = [build EXCEPT ![b] = s]
        BY <3>1, Typing DEF SocketEnd, Closed
      <4> HIDE DEF s
      <4> QED BY <4>2, <4>3
    <3>2. CASE SocketFails(b)
      <4> DEFINE s == Aborted(r)
      <4>2. /\ s \in BuildType /\ s.pc = "cleanup" /\ s.vmUuid = r.vmUuid
            /\ s.finished = r.finished /\ s.answer = r.answer
        BY <1>1, AbortedIs
      <4>3. build' = [build EXCEPT ![b] = s]
        BY <3>2, Typing DEF SocketFails, Abort, Aborted
      <4> HIDE DEF s
      <4> QED BY <4>2, <4>3
    <3> QED BY <1>3, <3>1, <3>2
  <2>2. c \in AgentType /\ c.pc = "gone" /\ c.step = a.step /\ c.at = a.at
    <3>1. "gone" \in AgentPcs
      BY DEF AgentPcs
    <3> QED BY <3>1, Typing, AgentToIs
  <2>3. agent' = [agent EXCEPT ![b] = c]
    BY <1>3, Typing DEF SocketEnd, SocketFails, AgentTo
  <2>4. r.pc = "events"
    BY <1>3 DEF SocketEnd, SocketFails, At
  <2> HIDE DEF c
  <2>5. Begun(o, r, a, msg[b]) /\ Asked(b, a, msg[b]) /\ Removed(o, r, vm[b])
    BY <1>1 DEF Sound
  <2>6. (o.commit \/ r.vmUuid) /\ r.answer # "ok"
    BY <2>4, <2>5 DEF Begun, Removed
  <2>7. Placed(b, c, images)
    BY <1>1, <2>2, PlacedSame DEF Sound
  <2>8. Asked(b, c, msg[b])
    BY <2>2, <2>5 DEF Asked
  <2>9. Begun(o, s, c, msg[b]) /\ Removed(o, s, vm[b])
    BY <2>1, <2>2, <2>6 DEF Begun, Removed, BeforeAgent
  <2>10. Ended(b, o, s, c, msg[b], tags[b])
    BY <1>1, <2>1, <2>2 DEF Sound, Ended
  <2>11. Sound(b, o, s, c, msg[b], vm[b], tags[b], images)
    BY <1>1, <2>7, <2>8, <2>9, <2>10 DEF Sound
  <2> QED BY <1>1, <2>1, <2>2, <2>3, <2>11, AgentStep
<1> QED BY <1>2, <1>3

LEMMA MessageTyped ==
    /\ NoMsg \in MsgType /\ NoMsg.type = "none"
    /\ \A t \in {"image_reprovision", "find_cached_image", "run", "image_create",
                 "finished"} : Message(t) \in MsgType /\ Message(t).type = t
  BY DEF NoMsg, Message, MsgType

LEMMA PlacedWithMore ==
    ASSUME NEW b \in Builds, NEW a \in AgentType, NEW rows, NEW more,
           rows \subseteq more, Placed(b, a, rows)
    PROVE  Placed(b, a, more)
<1>1. a.step # 0 => a.step - 1 \in Nat
  BY DEF AgentType
<1> QED BY <1>1, MadeFromMore DEF Placed

LEMMA Heard ==
    ASSUME BuildInv, NEW b \in Builds, NEW next \in AgentType, Hear(b, next),
           images \subseteq images', Placed(b, next, images'), next.pc # "none",
           msg[b].type # "none"
    PROVE  \E c \in AgentType :
              /\ agent' = [agent EXCEPT ![b] = c]
              /\ Placed(b, c, images') /\ c.pc # "none"
              /\ c = agent[b] \/ c = next
<1>1. CASE agent[b].pc = "gone"
  <2>1. agent' = [agent EXCEPT ![b] = agent[b]] /\ agent[b] \in AgentType
    BY <1>1, Typing DEF Hear
  <2>2. Placed(b, agent[b], images')
    BY <2>1, Typing, PlacedWithMore DEF Sound
  <2> QED BY <1>1, <2>1, <2>2
<1>2. CASE agent[b].pc # "gone"
  <2>1. agent' = [agent EXCEPT ![b] = next]
    BY <1>2 DEF Hear
  <2> QED BY <2>1
<1> QED BY <1>1, <1>2

(* A message is answered, well or with an error.                           *)
LEMMA AnswerKeeps ==
    ASSUME BuildInv, NEW b \in Builds, msg[b].type # "none",
           NEW next \in AgentType, Hear(b, next), next.pc # "none",
           Placed(b, next, images'), NEW v \in VmStates,
           vm' = [vm EXCEPT ![b] = v], Removed(opts[b], build[b], v),
           build' = build \/ build' = [build EXCEPT ![b].previousErr = TRUE],
           UNCHANGED <<opts, scratch, tags>>,
           images \subseteq images', \A x \in images' : x \in RowType,
           pulled' \subseteq Owners
    PROVE  BuildInv'
<1> DEFINE r == build[b]
           a == agent[b]
           o == opts[b]
<1>1. /\ Sound(b, o, r, a, msg[b], vm[b], tags[b], images)
      /\ r \in BuildType /\ a \in AgentType
  BY Typing
<1>2. PICK c \in AgentType :
        /\ agent' = [agent EXCEPT ![b] = c]
        /\ Placed(b, c, images') /\ c.pc # "none"
  BY Heard
<1>3. PICK s \in BuildType :
        /\ build' = [build EXCEPT ![b] = s]
        /\ s.pc = r.pc /\ s.vmUuid = r.vmUuid /\ s.finished = r.finished
        /\ s.err = r.err /\ s.answer = r.answer
        /\ r.previousErr => s.previousErr
  <2>1. CASE build' = build
    <3>1. build' = [build EXCEPT ![b] = r]
      BY <2>1, Typing
    <3> QED BY <1>1, <3>1
  <2>2. CASE build' = [build EXCEPT ![b].previousErr = TRUE]
    <3> DEFINE s == Erred(r)
    <3>1. /\ s \in BuildType /\ s.pc = r.pc /\ s.vmUuid = r.vmUuid
          /\ s.finished = r.finished /\ s.previousErr
          /\ s.err = r.err /\ s.answer = r.answer
      BY <1>1, ErredIs
    <3>2. build' = [build EXCEPT ![b] = s]
      BY <2>2, Typing DEF Erred
    <3> HIDE DEF s
    <3> QED BY <3>1, <3>2
  <2> QED BY <2>1, <2>2
<1>4. msg' = [msg EXCEPT ![b] = NoMsg] /\ NoMsg \in MsgType /\ NoMsg.type = "none"
  BY MessageTyped DEF Hear
<1>5. a.pc \in {"waiting", "gone"} /\ ~r.finished
  BY <1>1 DEF Sound, Asked, Ended
<1>6. r.pc \notin BeforeAgent \cup {"sendContext"} /\ (o.commit \/ r.vmUuid)
  BY <1>1, <1>5 DEF Sound, Begun
<1>7. Asked(b, c, NoMsg) /\ Begun(o, s, c, NoMsg) /\ Ended(b, o, s, c, NoMsg, tags[b])
  BY <1>2, <1>3, <1>4, <1>5, <1>6 DEF Asked, Begun, Ended, BeforeAgent
<1>8. Removed(o, s, v)
  BY <1>3 DEF Removed
<1>9. Tagged(b, tags[b], images') /\ CommitMakesOne(b, o)
  <2>1. Sound(b, o, r, a, msg[b], vm[b], tags[b], images')
    BY <1>1, SoundWithMore
  <2> QED BY <2>1 DEF Sound
<1>10. Sound(b, o, s, c, NoMsg, v, tags[b], images')
  BY <1>2, <1>7, <1>8, <1>9 DEF Sound
<1>11. /\ One(build, build', b, s, BuildType) /\ One(agent, agent', b, c, AgentType)
       /\ One(vm, vm', b, v, VmStates) /\ One(msg, msg', b, NoMsg, MsgType)
       /\ One(tags, tags', b, tags[b], Ids \cup {None})
  BY <1>2, <1>3, <1>4, Typing, OneExcept, OneSame
<1>12. scratch' \in ScratchType
  BY Typing
<1> QED BY <1>10, <1>11, <1>12, StepOf

(* A message goes on to its next stage.                                    *)
LEMMA StageKeeps ==
    ASSUME BuildInv, NEW b \in Builds, NEW stage, Stage(b, stage),
           [msg[b] EXCEPT !.stage = stage] \in MsgType,
           NEW v \in VmStates,
           vm' = [vm EXCEPT ![b] = v], Removed(opts[b], build[b], v),
           UNCHANGED <<opts, scratch, images, tags>>, pulled' \subseteq Owners
    PROVE  BuildInv'
<1> DEFINE m == [msg[b] EXCEPT !.stage = stage]
<1>1. Sound(b, opts[b], build[b], agent[b], msg[b], vm[b], tags[b], images)
  BY Typing
<1>2. m.type = msg[b].type
  BY Typing DEF MsgType
<1>3. msg' = [msg EXCEPT ![b] = m] /\ m \in MsgType /\ UNCHANGED <<build, agent>>
  BY Typing DEF Stage
<1> HIDE DEF m
<1>4. Sound(b, opts[b], build[b], agent[b], m, v, tags[b], images)
  BY <1>1, <1>2 DEF Sound, Asked, Begun, Ended
<1>5. /\ One(build, build', b, build[b], BuildType)
      /\ One(agent, agent', b, agent[b], AgentType)
      /\ One(vm, vm', b, v, VmStates) /\ One(msg, msg', b, m, MsgType)
      /\ One(tags, tags', b, tags[b], Ids \cup {None})
  BY <1>3, Typing, OneExcept, OneSame
<1>6. /\ images \subseteq images' /\ (\A x \in images' : x \in RowType)
      /\ scratch' \in ScratchType
  BY Typing
<1> QED BY <1>4, <1>5, <1>6, StepOf

Stages == {"begin", "pull", "lookup", "reprovision", "attachOnly", "startOnly",
           "attached", "wait"}
LEMMA StagedIs ==
    ASSUME NEW m \in MsgType, NEW stage \in Stages
    PROVE  [m EXCEPT !.stage = stage] \in MsgType
  BY DEF MsgType, Stages

LEMMA VmSame ==
    ASSUME BuildInv, NEW b \in Builds
    PROVE  /\ vm = [vm EXCEPT ![b] = vm[b]] /\ vm[b] \in VmStates
           /\ Removed(opts[b], build[b], vm[b])
           /\ vm[b] # "deleted" => /\ Removed(opts[b], build[b], "running")
                                   /\ Removed(opts[b], build[b], "stopped")
           /\ "running" \in VmStates /\ "stopped" \in VmStates
<1>1. Removed(opts[b], build[b], vm[b]) /\ opts[b] \in OptionType
  BY Typing DEF Sound
<1> QED BY <1>1, Typing, RemovedElse DEF VmStates

(* An error leaves cn-agent where it is.                                   *)
LEMMA ErrorKeeps ==
    ASSUME BuildInv, NEW b \in Builds, msg[b].type # "none", RespondError(b),
           NEW v \in VmStates, vm' = [vm EXCEPT ![b] = v],
           Removed(opts[b], build[b], v),
           UNCHANGED <<opts, scratch, images, pulled, tags>>
    PROVE  BuildInv'
<1>1. PICK next \in OnError(b) : Hear(b, next)
  BY DEF RespondError
<1>2. PICK e \in BOOLEAN : next = Stopped(agent[b], e)
  BY DEF OnError, Stopped
<1>3. /\ next \in AgentType /\ next.pc = "end"
      /\ next.step = agent[b].step /\ next.at = agent[b].at
  BY <1>2, Typing, StoppedIs
<1>4. Placed(b, next, images')
  BY <1>3, Typing, PlacedSame DEF Sound
<1>5. build' = [build EXCEPT ![b].previousErr = TRUE]
  BY DEF RespondError
<1>6. /\ images \subseteq images' /\ (\A x \in images' : x \in RowType)
      /\ pulled' \subseteq Owners
  BY Typing
<1> QED BY <1>1, <1>3, <1>4, <1>5, <1>6, AnswerKeeps

(* A pc of cn-agent that leaves it at its line.                            *)
LEMMA PlaceKept ==
    ASSUME BuildInv, NEW b \in Builds, NEW next, NEW pc \in AgentPcs \ {"none"},
           next = With(b, pc) \/ next = [With(b, pc) EXCEPT !.error = TRUE],
           images' = images
    PROVE  next \in AgentType /\ next.pc # "none" /\ Placed(b, next, images')
<1> DEFINE c == AgentTo(agent[b], pc)
<1>1. /\ c \in AgentType /\ c.pc = pc /\ c.step = agent[b].step
      /\ c.at = agent[b].at
  BY Typing, AgentToIs
<1>2. next = c \/ next = [c EXCEPT !.error = TRUE]
  BY DEF With, AgentTo
<1> HIDE DEF c
<1>3. /\ next \in AgentType /\ next.pc = pc /\ next.step = agent[b].step
      /\ next.at = agent[b].at
  BY <1>1, <1>2 DEF AgentType
<1> QED BY <1>3, Typing, PlacedSame DEF Sound

(* cn-agent goes to the next line with what this one made.                 *)
LEMMA PlaceNext ==
    ASSUME BuildInv, NEW b \in Builds, NEW id \in Ids,
           agent[b].step <= Lines(b), Made(b, id, agent[b].step, images')
    PROVE  /\ OnImage(b, id) \in AgentType /\ OnImage(b, id).pc # "none"
           /\ Placed(b, OnImage(b, id), images')
<1> DEFINE c == WithImage(agent[b], id)
           k == agent[b].step
<1>1. c \in AgentType /\ c.pc = "next" /\ c.step = k + 1 /\ c.at = id
  BY Typing, WithImageIs
<1>2. OnImage(b, id) = c
  BY DEF OnImage, WithImage
<1>3. k \in Nat /\ Lines(b) \in Nat
  BY Typing, BuildAssumption DEF AgentType, Lines
<1> HIDE DEF c, k
<1>4. Made(b, c.at, k, images') /\ k <= Lines(b)
  BY <1>1 DEF k
<1>5. c.step # 0 /\ c.step - 1 = k /\ c.step <= Lines(b) + 1
  BY <1>1, <1>3, <1>4
<1>6. Placed(b, c, images')
  BY <1>4, <1>5 DEF Placed
<1> QED BY <1>1, <1>2, <1>6

-----------------------------------------------------------------------------
LEMMA ReprovisionKeeps ==
    ASSUME BuildInv, NEW b \in Builds, opts' = opts,
           \/ PullImage(b) \/ Pulled(b) \/ LookupAgain(b) \/ ReprovisionVm(b)
    PROVE  BuildInv'
<1>1. /\ msg[b].type = "image_reprovision" /\ UNCHANGED <<vm, scratch, images, tags>>
      /\ msg[b] \in MsgType
  BY Typing DEF PullImage, Pulled, LookupAgain, ReprovisionVm, Handles
<1>2. pulled' \subseteq Owners
  <2>1. OwnerOf[b] \in Owners /\ pulled \subseteq Owners
    BY Typing, BuildAssumption
  <2> QED BY <2>1 DEF PullImage, Pulled, LookupAgain, ReprovisionVm
<1>3. ASSUME NEW stage \in Stages, Stage(b, stage)
      PROVE  BuildInv'
  <2>1. [msg[b] EXCEPT !.stage = stage] \in MsgType
    BY <1>1, StagedIs
  <2>2. vm' = [vm EXCEPT ![b] = vm[b]]
    BY <1>1, VmSame
  <2> QED BY <1>1, <1>2, <1>3, <2>1, <2>2, VmSame, StageKeeps
<1>4. ASSUME RespondError(b), pulled' = pulled
      PROVE  BuildInv'
  <2>1. vm' = [vm EXCEPT ![b] = vm[b]]
    BY <1>1, VmSame
  <2> QED BY <1>1, <1>4, <2>1, VmSame, ErrorKeeps
<1>5. CASE PullImage(b)
  <2>1. Stage(b, "reprovision") \/ Stage(b, "pull")
    BY <1>5 DEF PullImage
  <2> QED BY <1>3, <2>1 DEF Stages
<1>6. CASE Pulled(b)
  <2>1. Stage(b, "lookup")
    BY <1>6 DEF Pulled
  <2> QED BY <1>3, <2>1 DEF Stages
<1>7. CASE LookupAgain(b)
  <2>1. Stage(b, "reprovision") \/ (RespondError(b) /\ pulled' = pulled)
    BY <1>7 DEF LookupAgain
  <2> QED BY <1>3, <1>4, <2>1 DEF Stages
<1>8. CASE ReprovisionVm(b)
  <2>1. pulled' = pulled /\ (RespondError(b) \/ Respond(b, OnImage(b, Base)))
    BY <1>8 DEF ReprovisionVm
  <2>2. CASE Respond(b, OnImage(b, Base))
    <3>1. agent[b].step = 0 /\ Lines(b) \in Nat
      BY <1>1, Typing, BuildAssumption DEF Sound, Asked, Lines
    <3>2. Made(b, Base, agent[b].step, images') /\ Base \in Ids
      BY <3>1, MadeNothing DEF Ids
    <3>3. agent[b].step <= Lines(b)
      BY <3>1
    <3>4. /\ OnImage(b, Base) \in AgentType /\ OnImage(b, Base).pc # "none"
          /\ Placed(b, OnImage(b, Base), images')
      BY <3>2, <3>3, PlaceNext
    <3>5. Hear(b, OnImage(b, Base)) /\ build' = build
      BY <2>2 DEF Respond
    <3>6. vm' = [vm EXCEPT ![b] = vm[b]]
      BY <1>1, VmSame
    <3>7. images \subseteq images' /\ (\A x \in images' : x \in RowType)
      BY <1>1, Typing
    <3>8. msg[b].type # "none"
      BY <1>1
    <3> HIDE DEF OnImage
    <3> QED BY <1>1, <1>2, <3>4, <3>5, <3>6, <3>7, <3>8, VmSame, AnswerKeeps
  <2> QED BY <1>4, <2>1, <2>2
<1> QED BY <1>5, <1>6, <1>7, <1>8

LEMMA CacheKeeps ==
    ASSUME BuildInv, NEW b \in Builds, opts' = opts, FindCachedImage(b)
    PROVE  BuildInv'
<1> DEFINE k == agent[b].step
<1>1. /\ msg[b].type = "find_cached_image" /\ msg[b].type # "none"
      /\ UNCHANGED <<vm, scratch, images, pulled, tags>>
      /\ Sound(b, opts[b], build[b], agent[b], msg[b], vm[b], tags[b], images)
      /\ agent[b] \in AgentType
  BY Typing DEF FindCachedImage, Handles
<1>2. /\ vm' = [vm EXCEPT ![b] = vm[b]] /\ pulled' \subseteq Owners
      /\ images \subseteq images' /\ (\A x \in images' : x \in RowType)
  BY <1>1, VmSame, Typing
<1>3. ASSUME NEW next \in AgentType, next.pc # "none", Placed(b, next, images'),
             Respond(b, next)
      PROVE  BuildInv'
  <2>1. Hear(b, next) /\ build' = build
    BY <1>3 DEF Respond
  <2> QED BY <1>1, <1>2, <1>3, <2>1, VmSame, AnswerKeeps
<1>4. CASE Respond(b, With(b, "miss"))
  <2>1. /\ With(b, "miss") \in AgentType /\ With(b, "miss").pc # "none"
        /\ Placed(b, With(b, "miss"), images')
    BY <1>1, PlaceKept DEF AgentPcs
  <2> HIDE DEF With
  <2> QED BY <1>3, <1>4, <2>1
<1>5. CASE \E x \in Matches(b) : Respond(b, OnImage(b, x.id))
  <2>1. PICK x \in Matches(b) : Respond(b, OnImage(b, x.id))
    BY <1>5
  <2>2. /\ x \in images /\ x.owner = OwnerOf[b] /\ x.parent = agent[b].at
        /\ x.cmd = Dockerfile[b][k] /\ x.labels = LabelsOf[b]
    BY DEF Matches, Line
  <2>3. x \in RowType
    BY <2>2, Typing
  <2>4. x = Row(b, k, agent[b].at, x.id) /\ x.id \in Ids
    BY <2>2, <2>3 DEF RowType, Row
  <2>5. k \in 1..Lines(b) /\ Lines(b) \in Nat /\ k \in Nat
    BY <1>1, BuildAssumption DEF Sound, Asked, Lines, AgentType
  <2>6. Made(b, agent[b].at, k - 1, images)
    BY <1>1, <2>5 DEF Sound, Placed
  <2>7. PICK n \in Nat : n = k - 1 /\ n + 1 = k
    BY <2>5
  <2>8. Made(b, x.id, n + 1, images)
    BY <2>2, <2>4, <2>6, <2>7, MadeFurther
  <2>9. Made(b, x.id, k, images') /\ k <= Lines(b)
    BY <1>1, <2>5, <2>7, <2>8
  <2>10. /\ OnImage(b, x.id) \in AgentType /\ OnImage(b, x.id).pc # "none"
         /\ Placed(b, OnImage(b, x.id), images')
    BY <2>4, <2>9, PlaceNext
  <2> HIDE DEF OnImage
  <2> QED BY <1>3, <2>1, <2>10
<1> QED BY <1>4, <1>5 DEF FindCachedImage

LEMMA RunKeeps ==
    ASSUME BuildInv, NEW b \in Builds, opts' = opts,
           \/ RunStart(b) \/ RunAttachFails(b) \/ RunStartFails(b)
           \/ AttachGivesUp(b) \/ AttachEnds(b) \/ RunWaits(b)
    PROVE  BuildInv'
<1>1. /\ msg[b].type # "none" /\ UNCHANGED <<opts, scratch, images, pulled, tags>>
      /\ msg[b] \in MsgType /\ pulled' \subseteq Owners /\ images \subseteq images'
      /\ \A x \in images' : x \in RowType
  BY Typing DEF RunStart, RunAttachFails, RunStartFails, AttachGivesUp, AttachEnds,
     RunWaits, Handles
<1>2. PICK v \in VmStates : /\ vm' = [vm EXCEPT ![b] = v]
                            /\ Removed(opts[b], build[b], v)
  <2>1. CASE RunStart(b) \/ RunAttachFails(b)
    <3>1. vm[b] # "deleted" /\ vm' = [vm EXCEPT ![b] = "running"]
      BY <2>1 DEF RunStart, RunAttachFails
    <3> QED BY <3>1, VmSame
  <2>2. CASE RunStartFails(b) \/ AttachGivesUp(b) \/ AttachEnds(b) \/ RunWaits(b)
    <3>1. vm' = vm
      BY <2>2 DEF RunStartFails, AttachGivesUp, AttachEnds, RunWaits
    <3>2. vm' = [vm EXCEPT ![b] = vm[b]]
      BY <3>1, VmSame
    <3> QED BY <3>2, VmSame
  <2> QED BY <2>1, <2>2
<1>3. ASSUME NEW stage \in Stages, Stage(b, stage)
      PROVE  BuildInv'
  <2>1. [msg[b] EXCEPT !.stage = stage] \in MsgType
    BY <1>1, StagedIs
  <2> QED BY <1>1, <1>2, <1>3, <2>1, StageKeeps
<1>4. ASSUME RespondError(b)
      PROVE  BuildInv'
  BY <1>1, <1>2, <1>4, ErrorKeeps
<1>5. CASE RunStart(b) \/ RunStartFails(b) \/ AttachEnds(b)
  <2>1. \E stage \in {"attached", "attachOnly", "wait"} : Stage(b, stage)
    BY <1>5 DEF RunStart, RunStartFails, AttachEnds
  <2> QED BY <1>3, <2>1 DEF Stages
<1>6. CASE RunAttachFails(b) \/ AttachGivesUp(b)
  BY <1>4, <1>6 DEF RunAttachFails, AttachGivesUp
<1>7. CASE RunWaits(b)
  <2>1. CASE RespondError(b)
    BY <1>4, <2>1
  <2>2. CASE \E next \in {With(b, "ran"), [With(b, "end") EXCEPT !.error = TRUE]} :
               Respond(b, next)
    <3>1. PICK next \in {With(b, "ran"), [With(b, "end") EXCEPT !.error = TRUE]} :
            Respond(b, next)
      BY <2>2
    <3>2. next \in AgentType /\ next.pc # "none" /\ Placed(b, next, images')
      <4>1. "ran" \in AgentPcs \ {"none"} /\ "end" \in AgentPcs \ {"none"}
        BY DEF AgentPcs
      <4>2. \/ next = With(b, "ran")
            \/ next = [With(b, "end") EXCEPT !.error = TRUE]
        OBVIOUS
      <4> QED BY <1>1, <4>1, <4>2, PlaceKept
    <3>3. Hear(b, next) /\ build' = build
      BY <3>1 DEF Respond
    <3> HIDE <2>2
    <3> QED BY <1>1, <1>2, <3>2, <3>3, AnswerKeeps
  <2> QED BY <1>7, <2>1, <2>2 DEF RunWaits
<1> QED BY <1>5, <1>6, <1>7

LEMMA ImageCreateKeeps ==
    ASSUME BuildInv, NEW b \in Builds, opts' = opts, ImageCreate(b)
    PROVE  BuildInv'
<1> DEFINE k == agent[b].step
           id == <<b, k>>
           row == Row(b, k, agent[b].at, id)
<1>1. /\ msg[b].type = "image_create" /\ msg[b].type # "none"
      /\ UNCHANGED <<opts, vm, scratch, pulled, tags>>
      /\ Sound(b, opts[b], build[b], agent[b], msg[b], vm[b], tags[b], images)
      /\ agent[b] \in AgentType
  BY Typing DEF ImageCreate, Handles
<1>2. images' = images \cup {row} /\ Respond(b, OnImage(b, id))
  BY DEF ImageCreate, Row, Line
<1>3. k \in 1..Lines(b) /\ Lines(b) \in Nat /\ k \in Nat
  BY <1>1, BuildAssumption DEF Sound, Asked, Lines, AgentType
<1>4. Made(b, agent[b].at, k - 1, images)
  BY <1>1, <1>3 DEF Sound, Placed
<1>5. id \in Ids
  BY <1>3 DEF Ids
<1>6. row \in RowType
  <2>1. OwnerOf[b] \in Owners /\ LabelsOf[b] \in Nat
    BY BuildAssumption
  <2>2. Dockerfile[b] \in Seq(Commands)
    BY BuildAssumption
  <2>3. Dockerfile[b][k] \in Commands
    BY <1>3, <2>2 DEF Lines
  <2>4. agent[b].at \in Ids
    BY <1>1 DEF AgentType
  <2> HIDE DEF k, id
  <2> QED BY <1>5, <2>1, <2>3, <2>4 DEF Row, RowType
<1> HIDE DEF id, row
<1>7. images \subseteq images' /\ (\A x \in images' : x \in RowType) /\ row \in images'
  BY <1>2, <1>6, Typing
<1>8. Made(b, id, k, images')
  <2>1. PICK n \in Nat : n = k - 1 /\ n + 1 = k
    BY <1>3
  <2>2. Made(b, agent[b].at, n, images')
    BY <1>4, <1>7, <2>1, MadeFromMore
  <2>3. Row(b, n + 1, agent[b].at, id) \in images'
    BY <1>7, <2>1 DEF row
  <2>4. Made(b, id, n + 1, images')
    BY <2>2, <2>3, MadeFurther
  <2> QED BY <2>1, <2>4
<1>9. /\ OnImage(b, id) \in AgentType /\ OnImage(b, id).pc # "none"
      /\ Placed(b, OnImage(b, id), images')
  <2>1. k <= Lines(b)
    BY <1>3
  <2> QED BY <1>5, <1>8, <2>1, PlaceNext
<1>10. vm' = [vm EXCEPT ![b] = vm[b]] /\ pulled' \subseteq Owners
  BY <1>1, VmSame, Typing
<1>11. Hear(b, OnImage(b, id)) /\ build' = build
  BY <1>2 DEF Respond
<1> HIDE DEF OnImage
<1> QED BY <1>1, <1>7, <1>9, <1>10, <1>11, VmSame, AnswerKeeps

LEMMA TagImageKeeps ==
    ASSUME BuildInv, NEW b \in Builds, opts' = opts, TagImage(b)
    PROVE  BuildInv'
<1> DEFINE r == build[b]
           a == agent[b]
           o == opts[b]
           s == FinishedNow(r)
           t == IF o.named THEN a.at ELSE tags[b]
<1>1. /\ Sound(b, o, r, a, msg[b], vm[b], tags[b], images)
      /\ r \in BuildType /\ a \in AgentType /\ msg[b].type = "finished"
      /\ UNCHANGED <<opts, vm, scratch, images, pulled>>
  BY Typing DEF TagImage, Handles
<1>2. Hear(b, With(b, "end")) /\ msg[b].type # "none"
  BY <1>1 DEF TagImage
<1>3. /\ With(b, "end") \in AgentType /\ With(b, "end").pc = "end"
      /\ With(b, "end").step = a.step /\ With(b, "end").at = a.at
      /\ Placed(b, With(b, "end"), images')
  <2>1. "end" \in AgentPcs \ {"none"}
    BY DEF AgentPcs
  <2>2. With(b, "end") \in AgentType /\ Placed(b, With(b, "end"), images')
    BY <1>1, <2>1, PlaceKept
  <2>3. /\ With(b, "end").pc = "end" /\ With(b, "end").step = a.step
        /\ With(b, "end").at = a.at
    BY <1>1 DEF With, AgentType
  <2> QED BY <2>2, <2>3
<1> HIDE DEF With
<1>4. PICK c \in AgentType :
        /\ agent' = [agent EXCEPT ![b] = c] /\ Placed(b, c, images')
        /\ c.pc # "none" /\ (c = a \/ c = With(b, "end"))
  <2>1. images \subseteq images'
    BY <1>1
  <2> QED BY <1>2, <1>3, <2>1, Heard
<1>5. a.pc \in {"waiting", "gone"} /\ a.step = Lines(b) + 1 /\ ~r.finished
  BY <1>1 DEF Sound, Asked, Ended
<1>6. c.pc \in {"end", "gone"} /\ c.step = a.step /\ c.at = a.at
  <2>1. CASE a.pc = "gone"
    <3>1. agent' = agent
      BY <1>2, <2>1 DEF Hear
    <3>2. c = a
      BY <1>4, <3>1, Typing
    <3> QED BY <2>1, <3>2
  <2>2. CASE a.pc # "gone"
    <3>1. agent' = [agent EXCEPT ![b] = With(b, "end")]
      BY <1>2, <2>2 DEF Hear
    <3>2. c = With(b, "end")
      BY <1>4, <3>1, Typing
    <3> QED BY <1>3, <3>2
  <2> QED BY <2>1, <2>2
<1>7. /\ s \in BuildType /\ s.pc = r.pc /\ s.vmUuid = r.vmUuid
      /\ s.finished /\ s.previousErr = r.previousErr
      /\ s.err = r.err /\ s.answer = r.answer
  BY <1>1, FinishedNowIs
<1>8. build' = [build EXCEPT ![b] = s] /\ tags' = [tags EXCEPT ![b] = t]
  BY Typing DEF TagImage, FinishedNow
<1>9. a.at \in Ids /\ t \in Ids \cup {None}
  BY <1>1, Typing DEF AgentType
<1>10. Lines(b) \in Nat /\ a.step # 0 /\ a.step - 1 = Lines(b)
  <2>1. Lines(b) \in Nat
    BY BuildAssumption DEF Lines
  <2> QED BY <1>5, <2>1
<1>11. Made(b, a.at, Lines(b), images)
  BY <1>1, <1>10 DEF Sound, Placed
<1>12. Tagged(b, t, images')
  BY <1>1, <1>11 DEF Sound, Tagged
<1>13. o.named => t = c.at
  BY <1>6
<1>14. msg' = [msg EXCEPT ![b] = NoMsg] /\ NoMsg \in MsgType /\ NoMsg.type = "none"
  BY <1>2, MessageTyped DEF Hear
<1> HIDE DEF s, t
<1>15. r.pc \notin BeforeAgent \cup {"sendContext"} /\ (o.commit \/ r.vmUuid)
  BY <1>1, <1>5 DEF Sound, Begun
<1>16. Asked(b, c, NoMsg) /\ Begun(o, s, c, NoMsg) /\ Ended(b, o, s, c, NoMsg, t)
  BY <1>4, <1>5, <1>6, <1>7, <1>13, <1>14, <1>15 DEF Asked, Begun, Ended, BeforeAgent
<1>17. Removed(o, s, vm[b])
  BY <1>1, <1>5, <1>7 DEF Sound, Removed
<1>18. Sound(b, o, s, c, NoMsg, vm[b], t, images')
  BY <1>1, <1>4, <1>12, <1>16, <1>17 DEF Sound
<1>19. /\ One(build, build', b, s, BuildType) /\ One(agent, agent', b, c, AgentType)
       /\ One(vm, vm', b, vm[b], VmStates) /\ One(msg, msg', b, NoMsg, MsgType)
       /\ One(tags, tags', b, t, Ids \cup {None})
  BY <1>1, <1>4, <1>7, <1>8, <1>9, <1>14, Typing, OneExcept, OneSame
<1>20. /\ images \subseteq images' /\ (\A x \in images' : x \in RowType)
       /\ scratch' \in ScratchType /\ pulled' \subseteq Owners
  BY <1>1, Typing
<1> QED BY <1>18, <1>19, <1>20, StepOf

LEMMA MessageFailsKeeps ==
    ASSUME BuildInv, NEW b \in Builds, opts' = opts, MessageFails(b)
    PROVE  BuildInv'
<1>1. /\ msg[b].type # "none" /\ UNCHANGED <<opts, vm, scratch, images, pulled, tags>>
      /\ pulled' \subseteq Owners /\ images \subseteq images'
      /\ \A x \in images' : x \in RowType
  BY Typing DEF MessageFails, Handles
<1>2. vm' = [vm EXCEPT ![b] = vm[b]]
  BY <1>1, VmSame
<1>3. CASE RespondError(b)
  BY <1>1, <1>2, <1>3, VmSame, ErrorKeeps
<1>4. CASE Hear(b, With(b, "miss")) /\ build' = [build EXCEPT ![b].previousErr = TRUE]
  <2>1. "miss" \in AgentPcs \ {"none"}
    BY DEF AgentPcs
  <2>2. /\ With(b, "miss") \in AgentType /\ With(b, "miss").pc # "none"
        /\ Placed(b, With(b, "miss"), images')
    BY <1>1, <2>1, PlaceKept
  <2> HIDE DEF With
  <2> QED BY <1>1, <1>2, <1>4, <2>2, VmSame, AnswerKeeps
<1> QED BY <1>3, <1>4 DEF MessageFails

LEMMA VmExitsKeeps ==
    ASSUME BuildInv, NEW b \in Builds, opts' = opts, VmExits(b)
    PROVE  BuildInv'
<1> DEFINE r == build[b]
<1>1. /\ vm' = [vm EXCEPT ![b] = "stopped"] /\ vm[b] # "deleted"
      /\ UNCHANGED <<opts, agent, msg, images, pulled, tags>>
      /\ build' = build /\ scratch' \in ScratchType
  BY Typing DEF VmExits
<1>2. build' = [build EXCEPT ![b] = r] /\ r \in BuildType
  BY <1>1, Typing
<1>3. Sound(b, opts[b], r, agent[b], msg[b], "stopped", tags[b], images)
  BY <1>1, Typing, VmSame DEF Sound
<1> QED BY <1>1, <1>2, <1>3, VmSame, PipelineStep

LEMMA AgentAsksKeeps ==
    ASSUME BuildInv, NEW b \in Builds, opts' = opts, AgentAsks(b)
    PROVE  BuildInv'
<1> DEFINE r == build[b]
           a == agent[b]
           o == opts[b]
           c == AgentTo(a, "waiting")
           m == Message(Request(b))
<1>1. /\ Sound(b, o, r, a, msg[b], vm[b], tags[b], images)
      /\ r \in BuildType /\ a \in AgentType
      /\ UNCHANGED <<opts, build, vm, scratch, images, pulled, tags>>
      /\ a.pc \in {"next", "miss", "ran"} /\ r.pc = "events"
  BY Typing DEF AgentAsks, At
<1>2. /\ Request(b) \in {"image_reprovision", "find_cached_image", "run",
                         "image_create", "finished"}
      /\ Request(b) = "image_reprovision" => a.step = 0
      /\ Request(b) \in {"find_cached_image", "run", "image_create"}
            => a.step # 0 /\ ~(a.step > Lines(b))
      /\ Request(b) = "finished" => a.step > Lines(b)
  BY DEF Request, Lines
<1>3. m \in MsgType /\ m.type = Request(b)
  BY <1>2, MessageTyped
<1>4. /\ Lines(b) \in Nat /\ a.step \in Nat /\ a.step <= Lines(b) + 1
  BY <1>1, BuildAssumption DEF Sound, Placed, AgentType, Lines
<1>5. /\ m.type = "image_reprovision" => a.step = 0
      /\ m.type \in {"find_cached_image", "run", "image_create"}
            => a.step \in 1..Lines(b)
      /\ m.type = "finished" => a.step = Lines(b) + 1
  BY <1>2, <1>3, <1>4
<1>6. c \in AgentType /\ c.pc = "waiting" /\ c.step = a.step /\ c.at = a.at
  <2>1. "waiting" \in AgentPcs
    BY DEF AgentPcs
  <2> QED BY <1>1, <2>1, AgentToIs
<1>7. msg' = [msg EXCEPT ![b] = m] /\ agent' = [agent EXCEPT ![b] = c]
  BY Typing DEF AgentAsks, AgentTo
<1> HIDE DEF c, m
<1>8. Placed(b, c, images)
  BY <1>1, <1>6, PlacedSame DEF Sound
<1>9. Asked(b, c, m)
  BY <1>5, <1>6 DEF Asked
<1>10. ~r.finished /\ (o.commit \/ r.vmUuid)
  BY <1>1 DEF Sound, Ended, Begun
<1>11. Begun(o, r, c, m) /\ Ended(b, o, r, c, m, tags[b])
  BY <1>1, <1>6, <1>10 DEF Begun, Ended, BeforeAgent
<1>12. Sound(b, o, r, c, m, vm[b], tags[b], images)
  BY <1>1, <1>8, <1>9, <1>11 DEF Sound
<1>13. /\ One(build, build', b, r, BuildType) /\ One(agent, agent', b, c, AgentType)
       /\ One(vm, vm', b, vm[b], VmStates) /\ One(msg, msg', b, m, MsgType)
       /\ One(tags, tags', b, tags[b], Ids \cup {None})
  BY <1>1, <1>3, <1>6, <1>7, Typing, OneExcept, OneSame
<1>14. /\ images \subseteq images' /\ (\A x \in images' : x \in RowType)
       /\ scratch' \in ScratchType /\ pulled' \subseteq Owners
  BY <1>1, Typing
<1>15. Sound(b, o, r, c, m, vm[b], tags[b], images')
  BY <1>1, <1>12
<1> QED BY <1>1, <1>13, <1>14, <1>15, StepOf

-----------------------------------------------------------------------------
(* Past rows and a fresh handler.                                          *)
LEMMA InitHolds == ASSUME Init PROVE BuildInv
<1> DEFINE fresh == [pc |-> "none", vmUuid |-> FALSE, finished |-> FALSE,
                     previousErr |-> FALSE, err |-> FALSE, answer |-> "none"]
           first(o) == [pc |-> "none", step |-> IF o.commit THEN 1 ELSE 0,
                        at |-> Base, error |-> FALSE]
           disk(o) == IF o.commit THEN "stopped" ELSE "none"
<1>1. /\ opts \in [Builds -> OptionType]
      /\ \A b \in Builds : opts[b] \in Options[b]
      /\ build = [b \in Builds |-> fresh]
      /\ agent = [b \in Builds |-> first(opts[b])]
      /\ msg = [b \in Builds |-> NoMsg]
      /\ vm = [b \in Builds |-> disk(opts[b])]
      /\ tags = [b \in Builds |-> None]
      /\ images = Earlier
  BY DEF Init
<1>2. fresh \in BuildType
  BY DEF BuildType
<1>3. \A o : first(o) \in AgentType
  <2>1. Base \in Ids
    BY DEF Ids
  <2> QED BY <2>1 DEF AgentType
<1>4. NoMsg \in MsgType /\ NoMsg.type = "none"
  BY MessageTyped
<1>5. \A o : disk(o) \in VmStates
  BY DEF VmStates
<1>6. \A r \in images : r \in RowType
  BY <1>1, BuildAssumption
<1>7. pulled \subseteq Owners /\ scratch \in ScratchType
  BY BuildAssumption DEF Init, ScratchType
<1>8. /\ build \in [Builds -> BuildType] /\ vm \in [Builds -> VmStates]
      /\ agent \in [Builds -> AgentType] /\ msg \in [Builds -> MsgType]
      /\ tags \in [Builds -> Ids \cup {None}]
  <2> HIDE DEF fresh, first, disk
  <2> QED BY <1>1, <1>2, <1>3, <1>4, <1>5
<1>9. TypeOK
  BY <1>1, <1>6, <1>7, <1>8 DEF TypeOK
<1>10. ASSUME NEW b \in Builds
       PROVE  Sound(b, opts[b], build[b], agent[b], msg[b], vm[b], tags[b], images)
  <2>1. CommitMakesOne(b, opts[b])
    <3>1. opts[b] \in Options[b]
      BY <1>1
    <3>2. opts[b].commit => Len(Dockerfile[b]) = 1 /\ ~opts[b].rm /\ ~opts[b].forcerm
      BY <3>1, BuildAssumption
    <3> QED BY <3>2 DEF CommitMakesOne, Lines
  <2>2. /\ build[b].pc = "none" /\ ~build[b].finished /\ build[b].answer = "none"
        /\ agent[b].pc = "none" /\ agent[b].at = Base
        /\ agent[b].step = IF opts[b].commit THEN 1 ELSE 0
        /\ msg[b].type = "none" /\ tags[b] = None
    BY <1>1, <1>4
  <2>3. Lines(b) \in Nat
    BY BuildAssumption DEF Lines
  <2>4. Placed(b, agent[b], images)
    <3>1. agent[b].step \in {0, 1} /\ agent[b].step <= Lines(b) + 1
      BY <2>2, <2>3
    <3>2. agent[b].step # 0 => agent[b].step - 1 = 0
      BY <3>1
    <3>3. Made(b, Base, 0, images)
      BY MadeNothing
    <3> QED BY <2>2, <3>1, <3>2, <3>3 DEF Placed
  <2>5. /\ Asked(b, agent[b], msg[b]) /\ Begun(opts[b], build[b], agent[b], msg[b])
        /\ Ended(b, opts[b], build[b], agent[b], msg[b], tags[b])
        /\ Tagged(b, tags[b], images) /\ Removed(opts[b], build[b], vm[b])
    BY <2>2 DEF Asked, Begun, Ended, Tagged, Removed, BeforeAgent
  <2> QED BY <2>1, <2>4, <2>5 DEF Sound
<1> QED BY <1>9, <1>10 DEF BuildInv

LEMMA StepHolds == ASSUME BuildInv, [Next]_vars PROVE BuildInv'
<1>1. CASE UNCHANGED vars
  BY <1>1 DEF vars, BuildInv, TypeOK
<1>2. CASE Next
  <2>1. PICK b \in Builds :
          \/ Pipeline(b) \/ SendContext(b) \/ ContextSocketFails(b)
          \/ Messages(b) \/ AgentAsks(b) \/ VmExits(b)
    BY <1>2 DEF Next
  <2>2. opts' = opts
    BY <1>2 DEF Next
  <2>3. CASE Pipeline(b) \/ SendContext(b) \/ ContextSocketFails(b)
    BY <2>2, <2>3, WalkKeeps, ContainerKeeps, EndKeeps, SocketKeeps DEF Pipeline
  <2>4. CASE Messages(b)
    BY <2>2, <2>4, ReprovisionKeeps, CacheKeeps, RunKeeps, ImageCreateKeeps,
       TagImageKeeps, MessageFailsKeeps DEF Messages
  <2>5. CASE AgentAsks(b) \/ VmExits(b)
    BY <2>2, <2>5, AgentAsksKeeps, VmExitsKeeps
  <2> QED BY <2>1, <2>3, <2>4, <2>5
<1> QED BY <1>1, <1>2

LEMMA InvariantHolds == Spec => []BuildInv
<1>1. Init => BuildInv
  BY InitHolds
<1>2. BuildInv /\ [Next]_vars => BuildInv'
  BY StepHolds
<1> QED BY <1>1, <1>2, PTL DEF Spec

(* The variables of the handlers, of cn-agent's tasks and of its messages, *)
(* the containers and the rows have their types in every state.            *)
THEOREM BuildTypeCorrect == Spec => []TypeOK
<1>1. BuildInv => TypeOK
  BY DEF BuildInv
<1> QED BY <1>1, InvariantHolds, PTL

(* The name of a build stands only for an image that the lines of its own  *)
(* Dockerfile made, in order, from its FROM, for the owner and labels of   *)
(* the request: findCachedImage may take rows that any number of other     *)
(* builds are making, and the socket may fail under any message.           *)
THEOREM NamesComeFromTheirFile == Spec => []NamesAreBuilt
<1>1. BuildInv => NamesAreBuilt
  BY BuiltByIs DEF BuildInv, Sound, Tagged, NamesAreBuilt, Lines
<1> QED BY <1>1, InvariantHolds, PTL

(* buildImage answers success only when the tagged image is there and, if  *)
(* asked for with --rm, the container is gone.                             *)
THEOREM BuildSuccessesAreReal == Spec => []SuccessIsReal
<1>1. ASSUME BuildInv PROVE SuccessIsReal
  <2>1. ASSUME NEW b \in Builds, build[b].answer = "ok"
        PROVE  /\ BuiltBy(b, agent[b].at)
               /\ opts[b].named => tags[b] = agent[b].at
               /\ opts[b].rm \/ opts[b].forcerm => vm[b] = "deleted"
    <3>1. Sound(b, opts[b], build[b], agent[b], msg[b], vm[b], tags[b], images)
      BY <1>1, Typing
    <3>2. /\ build[b].finished
          /\ opts[b].rm \/ opts[b].forcerm => vm[b] = "deleted"
      BY <2>1, <3>1 DEF Sound, Removed
    <3>3. agent[b].step = Lines(b) + 1 /\ (opts[b].named => tags[b] = agent[b].at)
      BY <3>1, <3>2 DEF Sound, Ended
    <3>4. Lines(b) \in Nat
      BY BuildAssumption DEF Lines
    <3>5. agent[b].step # 0 /\ agent[b].step - 1 = Len(Dockerfile[b])
      BY <3>3, <3>4 DEF Lines
    <3>6. Made(b, agent[b].at, Len(Dockerfile[b]), images)
      BY <3>1, <3>5 DEF Sound, Placed
    <3> QED BY <3>2, <3>3, <3>6, BuiltByIs
  <2> QED BY <2>1 DEF SuccessIsReal
<1> QED BY <1>1, InvariantHolds, PTL
===============================================================================
