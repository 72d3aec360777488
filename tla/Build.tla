-------------------------------- MODULE Build -------------------------------
(***************************************************************************)
(* docker build and docker commit (buildImage and commitImage of           *)
(* lib/backends/sdc/build.js, getScratchImage of images.js).  A build      *)
(* creates a container from the scratch image and hands it with the        *)
(* context to cn-agent, which interprets the Dockerfile and asks           *)
(* sdc-docker, one message at a time, to look for a cached image, to       *)
(* reprovision or run the container, to create a row and to tag the result.*)
(* The socket may fail or time out under a message in progress.            *)
(***************************************************************************)
EXTENDS Naturals, Sequences

CONSTANTS
    Builds,      \* requests, each made once
    Owners, OwnerOf,
    Commands, Dockerfile,  \* [Builds -> Seq(Commands)], without its FROM
    LabelsOf,    \* the labels of the image, the client's --label included
    Options,     \* [Builds -> SUBSET OptionType], what each may ask for
    Base,        \* the image of the FROM line, or of the container
    Earlier,     \* the rows that earlier builds made
    Past,        \* the earlier builds
    None

Ids == {Base} \cup ((Builds \cup {Past}) \X Nat)
RowType == [id: Ids, owner: Owners, parent: Ids, cmd: Commands, labels: Nat]

(* commit: docker commit and not docker build; named: with a -t or a       *)
(* repository; the others are --no-cache, --rm and --force-rm.             *)
OptionType == [commit: BOOLEAN, named: BOOLEAN, nocache: BOOLEAN,
               rm: BOOLEAN, forcerm: BOOLEAN]

ASSUME BuildAssumption ==
    /\ Options \in [Builds -> SUBSET OptionType]
    /\ OwnerOf \in [Builds -> Owners]
    /\ Dockerfile \in [Builds -> Seq(Commands)]
    /\ LabelsOf \in [Builds -> Nat]
    /\ \A b \in Builds : \A o \in Options[b] :
         o.commit => Len(Dockerfile[b]) = 1 /\ ~o.rm /\ ~o.forcerm
    /\ Earlier \subseteq RowType /\ Base # None /\ Past \notin Builds

VARIABLES
    opts,     \* [Builds -> OptionType], never changed
    build,    \* [Builds -> BuildType], the handlers of sdc-docker
    agent,    \* [Builds -> AgentType], cn-agent's task
    msg,      \* [Builds -> MsgType], the message it waits for
    vm,       \* [Builds -> VmStates], the container
    scratch,  \* the scratch image in IMGAPI
    images,   \* rows of docker_images_v2
    pulled,   \* the owners that have the base image
    tags      \* [Builds -> Ids \cup {None}], what the build's name points to

vars == <<opts, build, agent, msg, vm, scratch, images, pulled, tags>>

(* vmUuid, finished, previousErr: variables of buildImage; err: that of    *)
(* the pipeline.                                                           *)
BuildType ==
    [pc: {"none", "findScratch", "createScratch", "importScratch",
          "addDigests", "activateScratch", "createContainer", "getVm",
          "findImage", "dockerBuild", "sendContext", "events", "cleanup",
          "report", "done"},
     vmUuid: BOOLEAN, finished: BOOLEAN, previousErr: BOOLEAN, err: BOOLEAN,
     answer: {"none", "ok", "error", "thrown"}]

(* at: the image the Dockerfile has come to; step: the line it is on, 0    *)
(* for its FROM.                                                           *)
AgentType == [pc: {"none", "next", "miss", "ran", "waiting", "end", "gone"},
              step: Nat, at: Ids, error: BOOLEAN]

MsgType == [type: {"none", "image_reprovision", "find_cached_image", "run",
                   "image_create", "finished"},
            stage: {"begin", "pull", "lookup", "reprovision", "attachOnly",
                    "startOnly", "attached", "wait"}]
NoMsg == [type |-> "none", stage |-> "begin"]
Message(t) == [type |-> t, stage |-> "begin"]

VmStates == {"none", "stopped", "running", "deleted"}
ScratchType == [state: {"none", "unactivated", "active"},
                file: BOOLEAN, digest: BOOLEAN]

TypeOK ==
    /\ opts \in [Builds -> OptionType]
    /\ build \in [Builds -> BuildType]
    /\ agent \in [Builds -> AgentType]
    /\ msg \in [Builds -> MsgType]
    /\ vm \in [Builds -> VmStates]
    /\ scratch \in ScratchType
    /\ \A r \in images : r \in RowType
    /\ pulled \subseteq Owners
    /\ tags \in [Builds -> Ids \cup {None}]

Init ==
    /\ opts \in {o \in [Builds -> OptionType] :
                 \A b \in Builds : o[b] \in Options[b]}
    /\ build = [b \in Builds |->
                 [pc |-> "none", vmUuid |-> FALSE, finished |-> FALSE,
                  previousErr |-> FALSE, err |-> FALSE, answer |-> "none"]]
    /\ agent = [b \in Builds |->
                 [pc |-> "none", step |-> IF opts[b].commit THEN 1 ELSE 0,
                  at |-> Base, error |-> FALSE]]
    /\ msg = [b \in Builds |-> NoMsg]
    /\ vm = [b \in Builds |-> IF opts[b].commit THEN "stopped" ELSE "none"]
    /\ scratch = [state |-> "none", file |-> FALSE, digest |-> FALSE]
    /\ images = Earlier /\ pulled = {OwnerOf[b] : b \in {c \in Builds : opts[c].commit}}
    /\ tags = [b \in Builds |-> None]

-----------------------------------------------------------------------------
(* The pipeline of buildImage.                                             *)

At(b, pc) == build[b].pc = pc
Goto(b, pc) == build' = [build EXCEPT ![b].pc = pc]
Abort(b) == build' = [build EXCEPT ![b].pc = "cleanup", ![b].err = TRUE]
RestUnchanged == UNCHANGED <<agent, msg, vm, images, pulled, tags>>

Start(b) ==
    /\ At(b, "none")
    /\ Goto(b, IF opts[b].commit THEN "findImage" ELSE "findScratch")
    /\ UNCHANGED scratch /\ RestUnchanged

(* getScratchImage: an image that is there is taken for a complete one.    *)
FindScratchImage(b) ==
    /\ At(b, "findScratch")
    /\ Goto(b, IF scratch.state = "none" THEN "createScratch"
               ELSE "createContainer")
    /\ UNCHANGED scratch /\ RestUnchanged

(* Another build may have created it since: IMGAPI refuses.                *)
CreateScratchImage(b) ==
    /\ At(b, "createScratch") /\ scratch.state = "none"
    /\ scratch' = [scratch EXCEPT !.state = "unactivated"]
    /\ Goto(b, "importScratch") /\ RestUnchanged

ImportScratchImage(b) ==
    /\ At(b, "importScratch")
    /\ scratch' = [scratch EXCEPT !.file = TRUE]
    /\ Goto(b, "addDigests") /\ RestUnchanged

AddFileDigests(b) ==
    /\ At(b, "addDigests")
    /\ scratch' = [scratch EXCEPT !.digest = TRUE]
    /\ Goto(b, "activateScratch") /\ RestUnchanged

ActivateScratchImage(b) ==
    /\ At(b, "activateScratch")
    /\ scratch' = [scratch EXCEPT !.state = "active"]
    /\ Goto(b, "createContainer") /\ RestUnchanged

(* VMAPI provisions from an active image only.                             *)
CreateContainer(b) ==
    /\ At(b, "createContainer") /\ scratch.state = "active"
    /\ build' = [build EXCEPT ![b].pc = "getVm", ![b].vmUuid = TRUE]
    /\ vm' = [vm EXCEPT ![b] = "stopped"]
    /\ UNCHANGED <<agent, msg, scratch, images, pulled, tags>>

(* The job failed after the container was made: nobody has its uuid.       *)
CreateContainerFails(b) ==
    /\ At(b, "createContainer") /\ scratch.state = "active"
    /\ Abort(b)
    /\ vm' = [vm EXCEPT ![b] = "stopped"]
    /\ UNCHANGED <<agent, msg, scratch, images, pulled, tags>>

GetVmObject(b) ==
    /\ At(b, "getVm") /\ Goto(b, "dockerBuild")
    /\ UNCHANGED scratch /\ RestUnchanged

(* commitImage starts from the container's image, by its digest.           *)
FindContainerImage(b) ==
    /\ At(b, "findImage") /\ Goto(b, "dockerBuild")
    /\ UNCHANGED scratch /\ RestUnchanged

(* CNAPI starts the task; a commit sends no context.                       *)
CnapiDockerBuild(b) ==
    /\ At(b, "dockerBuild")
    /\ Goto(b, IF opts[b].commit THEN "events" ELSE "sendContext")
    /\ agent' = [agent EXCEPT ![b].pc = "next"]
    /\ UNCHANGED <<msg, vm, scratch, images, pulled, tags>>

(* 'close' of the context's socket or 'end' of the request, whichever is   *)
(* first, whatever was sent: nothing else ends the wait, and no timer.     *)
SendContext(b) ==
    /\ At(b, "sendContext") /\ Goto(b, "events")
    /\ UNCHANGED scratch /\ RestUnchanged

(* An 'error' of the context's socket has no handler.                      *)
ContextSocketFails(b) ==
    /\ At(b, "sendContext")
    /\ build' = [build EXCEPT ![b].pc = "done", ![b].answer = "thrown"]
    /\ UNCHANGED scratch /\ RestUnchanged

(* A call that fails ends the pipeline.                                    *)
StepFails(b) ==
    /\ build[b].pc \in {"findScratch", "createScratch", "importScratch",
                        "addDigests", "activateScratch", "createContainer",
                        "getVm", "findImage", "dockerBuild"}
    /\ Abort(b)
    /\ UNCHANGED scratch /\ RestUnchanged

-----------------------------------------------------------------------------
(* cn-agent, as the messages it sends show it: it takes the Dockerfile     *)
(* line by line and asks for one thing at a time.                          *)

Line(b) == Dockerfile[b][agent[b].step]

Request(b) ==
    IF agent[b].step = 0 THEN "image_reprovision"
    ELSE IF agent[b].step > Len(Dockerfile[b]) THEN "finished"
    ELSE IF agent[b].pc = "ran" \/ opts[b].commit THEN "image_create"
    ELSE IF agent[b].pc = "miss" \/ opts[b].nocache THEN "run"
    ELSE "find_cached_image"

AgentAsks(b) ==
    /\ agent[b].pc \in {"next", "miss", "ran"} /\ At(b, "events")
    /\ msg' = [msg EXCEPT ![b] = Message(Request(b))]
    /\ agent' = [agent EXCEPT ![b].pc = "waiting"]
    /\ UNCHANGED <<build, vm, scratch, images, pulled, tags>>

(* What cn-agent does next: with an image it goes to the next line; after  *)
(* an error it ends, and its last event need not tell of the error.        *)
OnImage(b, id) ==
    [agent[b] EXCEPT !.pc = "next", !.at = id, !.step = @ + 1]
OnError(b) == {[agent[b] EXCEPT !.pc = "end", !.error = e] : e \in BOOLEAN}
With(b, pc) == [agent[b] EXCEPT !.pc = pc]

-----------------------------------------------------------------------------
(* The messages.  sendEventResponse keeps the first error for the answer   *)
(* of the build; nobody hears it when the socket is gone.                  *)

Handles(b, type, stage) == msg[b].type = type /\ msg[b].stage = stage
Stage(b, s) ==
    msg' = [msg EXCEPT ![b].stage = s] /\ UNCHANGED <<build, agent>>

Hear(b, next) ==
    /\ msg' = [msg EXCEPT ![b] = NoMsg]
    /\ agent' = IF agent[b].pc = "gone" THEN agent
                ELSE [agent EXCEPT ![b] = next]

Respond(b, next) == Hear(b, next) /\ UNCHANGED build

RespondError(b) ==
    /\ \E next \in OnError(b) : Hear(b, next)
    /\ build' = [build EXCEPT ![b].previousErr = TRUE]

(* pullAndReprovisionImage: look, pull, look again, reprovision.           *)
PullImage(b) ==
    /\ Handles(b, "image_reprovision", "begin")
    /\ Stage(b, IF OwnerOf[b] \in pulled THEN "reprovision" ELSE "pull")
    /\ UNCHANGED <<vm, scratch, images, pulled, tags>>

(* The pull may end well and leave no image.                               *)
Pulled(b) ==
    /\ Handles(b, "image_reprovision", "pull") /\ Stage(b, "lookup")
    /\ pulled' \in {pulled, pulled \cup {OwnerOf[b]}}
    /\ UNCHANGED <<vm, scratch, images, tags>>

LookupAgain(b) ==
    /\ Handles(b, "image_reprovision", "lookup")
    /\ IF OwnerOf[b] \in pulled THEN Stage(b, "reprovision")
       ELSE RespondError(b)
    /\ UNCHANGED <<vm, scratch, images, pulled, tags>>

ReprovisionVm(b) ==
    /\ Handles(b, "image_reprovision", "reprovision")
    /\ IF vm[b] = "deleted" THEN RespondError(b)
       ELSE Respond(b, OnImage(b, Base))
    /\ UNCHANGED <<vm, scratch, images, pulled, tags>>

(* Mutant: the parent is left out of the filter. *)
MatchesAnyParent(b) ==
    {r \in images : /\ r.owner = OwnerOf[b]
                    /\ r.cmd = Line(b) /\ r.labels = LabelsOf[b]}

(* A row of the owner, made from the same parent by the same command and   *)
(* with the same labels; the first of them is taken.                       *)
Matches(b) ==
    {r \in images : /\ r.owner = OwnerOf[b] /\ r.parent = agent[b].at
                    /\ r.cmd = Line(b) /\ r.labels = LabelsOf[b]}

(* Mutant: nothing found is answered as an image. *)
FindCachedImageOrNull(b) ==
    /\ Handles(b, "find_cached_image", "begin")
    /\ \/ Matches(b) = {} /\ Respond(b, OnImage(b, None))
       \/ \E r \in Matches(b) : Respond(b, OnImage(b, r.id))
    /\ UNCHANGED <<vm, scratch, images, pulled, tags>>

FindCachedImage(b) ==
    /\ Handles(b, "find_cached_image", "begin")
    /\ \/ Matches(b) = {} /\ Respond(b, With(b, "miss"))
       \/ \E r \in Matches(b) : Respond(b, OnImage(b, r.id))
    /\ UNCHANGED <<vm, scratch, images, pulled, tags>>

(* runBuildCommand: attach and start go on at the same time, and both must *)
(* be over before anything is answered.                                    *)
RunStart(b) ==
    /\ Handles(b, "run", "begin") /\ vm[b] = "stopped"
    /\ vm' = [vm EXCEPT ![b] = "running"] /\ Stage(b, "attached")
    /\ UNCHANGED <<scratch, images, pulled, tags>>

(* The attach went wrong, though the command runs.                         *)
RunAttachFails(b) ==
    /\ Handles(b, "run", "begin") /\ vm[b] = "stopped"
    /\ vm' = [vm EXCEPT ![b] = "running"] /\ RespondError(b)
    /\ UNCHANGED <<scratch, images, pulled, tags>>

(* The start went wrong: the attach waits for a container to start.        *)
RunStartFails(b) ==
    /\ Handles(b, "run", "begin") /\ Stage(b, "attachOnly")
    /\ UNCHANGED <<vm, scratch, images, pulled, tags>>

AttachGivesUp(b) ==
    /\ Handles(b, "run", "attachOnly") /\ RespondError(b)
    /\ UNCHANGED <<vm, scratch, images, pulled, tags>>

AttachEnds(b) ==
    /\ Handles(b, "run", "attached") /\ vm[b] # "running"
    /\ Stage(b, "wait") /\ UNCHANGED <<vm, scratch, images, pulled, tags>>

(* cn-agent stops at a command that did not exit with 0.                   *)
RunWaits(b) ==
    /\ Handles(b, "run", "wait")
    /\ \/ /\ vm[b] = "stopped"
          /\ \E next \in {With(b, "ran"), [With(b, "end") EXCEPT !.error = TRUE]} :
                Respond(b, next)
       \/ vm[b] = "deleted" /\ RespondError(b)
    /\ UNCHANGED <<vm, scratch, images, pulled, tags>>

VmExits(b) ==
    /\ vm[b] = "running" /\ vm' = [vm EXCEPT ![b] = "stopped"]
    /\ UNCHANGED <<build, agent, msg, scratch, images, pulled, tags>>

ImageCreate(b) ==
    /\ Handles(b, "image_create", "begin")
    /\ LET id == <<b, agent[b].step>>
       IN  /\ images' = images \cup
                 {[id |-> id, owner |-> OwnerOf[b], parent |-> agent[b].at,
                   cmd |-> Line(b), labels |-> LabelsOf[b]]}
           /\ Respond(b, OnImage(b, id))
    /\ UNCHANGED <<vm, scratch, pulled, tags>>

(* build_finished, commit_finished.  A tag replaces that of the same name. *)
TagImage(b) ==
    /\ Handles(b, "finished", "begin") /\ Hear(b, With(b, "end"))
    /\ build' = [build EXCEPT ![b].finished = TRUE]
    /\ tags' = IF opts[b].named THEN [tags EXCEPT ![b] = agent[b].at] ELSE tags
    /\ UNCHANGED <<vm, scratch, images, pulled>>

(* A pull, a job of VMAPI, a list or a put that fails.                     *)
MessageFails(b) ==
    /\ \/ msg[b].type \in {"image_reprovision", "find_cached_image",
                           "image_create", "finished"}
       \/ Handles(b, "run", "wait")
    /\ \/ RespondError(b)
       \/ /\ msg[b].type = "find_cached_image" /\ Hear(b, With(b, "miss"))
          /\ build' = [build EXCEPT ![b].previousErr = TRUE]
    /\ UNCHANGED <<vm, scratch, images, pulled, tags>>

-----------------------------------------------------------------------------
(* The end: the socket ends after the last event, fails, or is silent for  *)
(* 60 minutes (10 for a commit) whatever goes on behind it.                *)

SocketEnd(b) ==
    /\ At(b, "events") /\ agent[b].pc = "end"
    /\ build' = [build EXCEPT ![b].pc = "cleanup", ![b].err = agent[b].error]
    /\ agent' = [agent EXCEPT ![b].pc = "gone"]
    /\ UNCHANGED <<msg, vm, scratch, images, pulled, tags>>


SocketFails(b) ==
    /\ At(b, "events") /\ Abort(b)
    /\ agent' = [agent EXCEPT ![b].pc = "gone"]
    /\ UNCHANGED <<msg, vm, scratch, images, pulled, tags>>

Failed(b) == build[b].err \/ build[b].previousErr

MustDelete(b) ==
    build[b].vmUuid /\ (opts[b].forcerm \/ (opts[b].rm /\ ~Failed(b)))

Cleanup(b) ==
    /\ At(b, "cleanup") /\ Goto(b, "report")
    /\ vm' = IF MustDelete(b) THEN [vm EXCEPT ![b] = "deleted"] ELSE vm
    /\ UNCHANGED <<agent, msg, scratch, images, pulled, tags>>

(* Mutant: a container that could not be removed is no error. *)
CleanupFailsQuietly(b) ==
    /\ At(b, "cleanup") /\ MustDelete(b) /\ Goto(b, "report")
    /\ UNCHANGED scratch /\ RestUnchanged

(* The callback of deleteVm words the message with the error of the build, *)
(* which a build without one does not have: it throws.                     *)
CleanupFails(b) ==
    /\ At(b, "cleanup") /\ MustDelete(b)
    /\ IF Failed(b) THEN Goto(b, "report")
       ELSE build' = [build EXCEPT ![b].pc = "done", ![b].answer = "thrown"]
    /\ UNCHANGED scratch /\ RestUnchanged

Report(b) ==
    /\ At(b, "report")
    /\ build' = [build EXCEPT ![b].pc = "done", ![b].answer =
                   IF Failed(b) \/ ~build[b].finished THEN "error" ELSE "ok"]
    /\ UNCHANGED scratch /\ RestUnchanged

-----------------------------------------------------------------------------
(* The steps of the pipeline whose calls all answer, and the timer of the  *)
(* build's socket.                                                         *)
Pipeline(b) ==
    \/ Start(b) \/ FindScratchImage(b) \/ CreateScratchImage(b)
    \/ ImportScratchImage(b) \/ AddFileDigests(b) \/ ActivateScratchImage(b)
    \/ CreateContainer(b) \/ CreateContainerFails(b) \/ GetVmObject(b)
    \/ FindContainerImage(b) \/ CnapiDockerBuild(b)
    \/ StepFails(b) \/ SocketEnd(b) \/ SocketFails(b)
    \/ Cleanup(b) \/ CleanupFails(b) \/ Report(b)

Messages(b) ==
    \/ PullImage(b) \/ Pulled(b) \/ LookupAgain(b) \/ ReprovisionVm(b)
    \/ FindCachedImage(b) \/ RunStart(b) \/ RunAttachFails(b)
    \/ RunStartFails(b) \/ AttachGivesUp(b) \/ AttachEnds(b) \/ RunWaits(b)
    \/ ImageCreate(b) \/ TagImage(b) \/ MessageFails(b)

Next ==
    /\ \E b \in Builds :
          \/ Pipeline(b) \/ SendContext(b) \/ ContextSocketFails(b)
          \/ Messages(b) \/ AgentAsks(b) \/ VmExits(b)
    /\ UNCHANGED opts

(* Nothing is promised of cn-agent, not even that it reads the context, of *)
(* a command or of a message.                                              *)
Fairness == \A b \in Builds : WF_vars(Pipeline(b) /\ UNCHANGED opts)

Spec == Init /\ [][Next]_vars /\ Fairness

-----------------------------------------------------------------------------
(* id comes from the Base by the commands of b's Dockerfile, each in a row *)
(* of b's owner with b's labels.                                           *)
BuiltBy(b, id) ==
    LET n == Len(Dockerfile[b])
    IN \E chain \in [0..n -> {Base} \cup {r.id : r \in images}] :
        /\ chain[0] = Base /\ chain[n] = id
        /\ \A i \in 1..n :
             [id |-> chain[i], owner |-> OwnerOf[b], parent |-> chain[i - 1],
              cmd |-> Dockerfile[b][i], labels |-> LabelsOf[b]] \in images

(* A name given by -t stands for an image made by the lines of that        *)
(* Dockerfile and no others, whatever was found in the cache of images     *)
(* other builds are making, and even if the build answers an error after.  *)
NamesAreBuilt ==
    \A b \in Builds : tags[b] # None => BuiltBy(b, tags[b])

(* "Successfully built" is said only of an image that is there, under the  *)
(* name that was asked for, and with --rm the container is gone: messages  *)
(* whose errors cn-agent forgot, a tag that failed and a container that    *)
(* could not be removed are no success.                                    *)
SuccessIsReal ==
    \A b \in Builds : build[b].answer = "ok" =>
        /\ BuiltBy(b, agent[b].at)
        /\ opts[b].named => tags[b] = agent[b].at
        /\ opts[b].rm \/ opts[b].forcerm => vm[b] = "deleted"

=============================================================================
