-------------------------------- MODULE Jobs --------------------------------
(***************************************************************************)
(* docker pull and docker push (pullImage and pushImage of                 *)
(* lib/backends/sdc/images.js, imageCreate and imagePush of                *)
(* lib/endpoints/images.js).  A request creates a WFAPI job, registers its *)
(* response with the SocketManager and polls the job once a second.  The   *)
(* job (lib/wfapi/workflows) runs in another process: it has IMGAPI move   *)
(* the layers, and posts the progress messages it is sent to               *)
(* /admin/progress, which writes them to whatever response is registered.  *)
(* Pulls register under the name of the repository, pushes under the id of *)
(* the request.                                                            *)
(***************************************************************************)
EXTENDS Naturals, FiniteSets

CONSTANTS
    Requests,     \* the pulls and pushes of the run, each made once
    Pulls,        \* the pulls among them
    Digests,      \* the pulls that name a digest and no tag
    Repos,
    RepoOf,       \* [Requests -> Repos], rat.canonicalName
    ImagesOf,     \* [Requests -> Nat], the images a push names
    PollLimit,    \* the polls of pollJob: 720
    MaxPollErrs,  \* the failing polls it puts up with: 5
    Messages,     \* bound: the messages IMGAPI sends
    None

ASSUME JobsAssumption ==
    /\ Digests \subseteq Pulls /\ Pulls \subseteq Requests
    /\ RepoOf \in [Requests -> Repos]
    /\ ImagesOf \in [Requests -> Nat \ {0}]
    /\ \A r \in Pulls : ImagesOf[r] = 1
    /\ Requests \cap Repos = {} /\ None \notin Requests
    /\ Messages \subseteq {"progress", "create", "error"}
    /\ PollLimit \in Nat /\ MaxPollErrs \in Nat \ {0}

VARIABLES
    req,      \* [Requests -> ReqType], the docker server's requests
    sockets,  \* [Ids -> Requests \cup {None}], sockets.job: whose response
    job       \* [JobIds -> JobType], WFAPI's jobs

vars == <<req, sockets, job>>

Ids == Repos \cup Requests
IdOf(r) == IF r \in Pulls THEN RepoOf[r] ELSE r
JobIds == UNION {{r} \X (1 .. ImagesOf[r]) : r \in Requests}

(* ended: the response is; told: an error was written to it before; got:   *)
(* the jobs whose progress was written to it.                              *)
ReqType == [pc: {"none", "createJob", "jobCreated", "waitForJob", "done"},
            image: Nat, attempts: 0 .. PollLimit + MaxPollErrs,
            errs: 0 .. MaxPollErrs, ended: BOOLEAN, told: BOOLEAN,
            got: SUBSET JobIds]
NoRequest == [pc |-> "none", image |-> 1, attempts |-> 0, errs |-> 0,
              ended |-> FALSE, told |-> FALSE, got |-> {}]

(* queue: messages of IMGAPI to process; created and tagged: the image is. *)
Over == {"succeeded", "failed", "canceled"}
JobType == [execution: {"none", "running", "tagging"} \cup Over,
            closed: BOOLEAN, queue: SUBSET Messages,
            queueError: BOOLEAN, created: BOOLEAN, tagged: BOOLEAN]
NoJob == [execution |-> "none", closed |-> FALSE, queue |-> {},
          queueError |-> FALSE, created |-> FALSE, tagged |-> FALSE]

-----------------------------------------------------------------------------
(* The docker server.                                                      *)

JobOf(r) == <<r, req[r].image>>
ReqAt(r, pc) == req[r].pc = pc
Update(r, s) == req' = [req EXCEPT ![r] = s]
EndOf(s) == [s EXCEPT !.pc = "done", !.ended = TRUE]

Start(r) ==
    /\ ReqAt(r, "none")
    /\ Update(r, [req[r] EXCEPT !.pc = "createJob"])
    /\ UNCHANGED <<sockets, job>>

(* WFAPI creates the job, and its runner may take it before the answer.    *)
CreateJob(r) ==
    /\ ReqAt(r, "createJob")
    /\ Update(r, [req[r] EXCEPT !.pc = "jobCreated"])
    /\ job' = [job EXCEPT ![JobOf(r)].execution = "running"]
    /\ UNCHANGED sockets

(* createPullJob, _createPushJob.                                          *)
JobCreated(r) ==
    /\ ReqAt(r, "jobCreated")
    /\ Update(r, [req[r] EXCEPT !.pc = "waitForJob",
                                !.attempts = 0, !.errs = 0])
    /\ sockets' = [sockets EXCEPT ![IdOf(r)] = r]
    /\ UNCHANGED job

(* No answer, or an error: errorAndEnd, and then waitForJob throws for     *)
(* want of a job, which is the end of the request.                         *)
CreateJobFails(r) ==
    /\ ReqAt(r, "createJob") \/ ReqAt(r, "jobCreated")
    /\ Update(r, [EndOf(req[r]) EXCEPT !.told = TRUE])
    /\ UNCHANGED <<sockets, job>>

(* The callback of waitForJob with and without an error: a pull is done, a *)
(* push goes on with its next image whatever the error.                    *)
Answered(r, err) == [req[r] EXCEPT !.told = @ \/ err, !.ended = @ \/ err]
NextImage(s, r) == IF s.image = ImagesOf[r] THEN EndOf(s)
                   ELSE [s EXCEPT !.pc = "createJob", !.image = @ + 1]
(* Mutant: the response is only taken back when there was no error.        *)
WaitedKeep(r, err) ==
    /\ Update(r, NextImage(Answered(r, err), r))
    /\ sockets' = IF err THEN sockets
                  ELSE [sockets EXCEPT ![RepoOf[r]] = None]
(* Mutant: a job that failed is made again.                                *)
WaitedRetry(r, err) ==
    /\ Update(r, IF err THEN [req[r] EXCEPT !.pc = "createJob"]
                 ELSE NextImage(req[r], r))
    /\ UNCHANGED sockets
Waited(r, err) ==
    IF r \in Pulls
    THEN /\ Update(r, EndOf(Answered(r, err)))
         /\ sockets' = [sockets EXCEPT ![RepoOf[r]] = None]
    ELSE /\ Update(r, NextImage(Answered(r, err), r))
         /\ UNCHANGED sockets

(* waitForJob: what a job that is over means.                              *)
(* Mutant: a job that was canceled is no error.                            *)
JobErrorFailed(execution) == execution = "failed"
JobError(execution) == execution \in {"failed", "canceled"}

(* pollJob: getJob failed, found the job over, or found it not to be.      *)
Repoll(r, errs) ==
    /\ Update(r, [req[r] EXCEPT !.attempts = @ + 1, !.errs = errs])
    /\ UNCHANGED sockets
(* Mutant: only polls that fail are attempts.                              *)
AttemptsErrs(r) == req[r].errs
Attempts(r) == req[r].attempts + 1
PollFails(r) ==
    IF req[r].errs + 1 >= MaxPollErrs THEN Waited(r, TRUE)
    ELSE Repoll(r, req[r].errs + 1)
PollOver(r) ==
    /\ job[JobOf(r)].execution \in Over
    /\ Waited(r, JobError(job[JobOf(r)].execution))
PollAgain(r) ==
    /\ job[JobOf(r)].execution \notin Over
    /\ IF Attempts(r) > PollLimit THEN Waited(r, TRUE)
       ELSE Repoll(r, req[r].errs)
Poll(r) ==
    /\ ReqAt(r, "waitForJob")
    /\ PollFails(r) \/ PollOver(r) \/ PollAgain(r)
    /\ UNCHANGED job

(* The server restarts: connections and sockets are gone.                  *)
Restart ==
    /\ \E r \in Requests : req[r].pc \notin {"none", "done"}
    /\ req' = [r \in Requests |->
                 IF req[r].pc \in {"none", "done"} THEN req[r]
                 ELSE [EndOf(req[r]) EXCEPT !.told = TRUE]]
    /\ sockets' = [i \in Ids |-> None]
    /\ UNCHANGED job

-----------------------------------------------------------------------------
(* The workflow runner: pullImageLayersV2, tagImageV2, pushImageLayers.    *)

Is(j, execution) == job[j].execution = execution
Change(j, s) == job' = [job EXCEPT ![j] = s]

(* IMGAPI's stream of lines, and its end or loss.                          *)
Receive(j, k) ==
    /\ Is(j, "running") /\ ~job[j].closed /\ k \notin job[j].queue
    /\ k = "create" => j[1] \in Pulls /\ ~job[j].created
    /\ Change(j, [job[j] EXCEPT !.queue = @ \cup {k}])
    /\ UNCHANGED <<req, sockets>>
CloseStream(j) ==
    /\ Is(j, "running") /\ ~job[j].closed
    /\ Change(j, [job[j] EXCEPT !.closed = TRUE])
    /\ UNCHANGED <<req, sockets>>

(* POST /admin/progress; the runner ignores whether the operation is found.*)
AdminProgress(j) ==
    LET r == sockets[IdOf(j[1])] IN
    IF r = None THEN UNCHANGED req
    ELSE Update(r, [req[r] EXCEPT !.got = @ \cup {j}])

(* The queue has five workers: messages are done in any order.  A failing  *)
(* list of images only loses the message, a failing creation is an error.  *)
ProcessMessage(j, k) ==
    /\ Is(j, "running") /\ k \in job[j].queue
    /\ \/ /\ k = "create"
          /\ \E outcome \in {<<TRUE, FALSE>>, <<FALSE, TRUE>>,
                             <<FALSE, FALSE>>} :
                Change(j, [job[j] EXCEPT !.queue = @ \ {k},
                              !.created = @ \/ outcome[1],
                              !.queueError = @ \/ outcome[2]])
          /\ UNCHANGED req
       \/ /\ k = "error"
          /\ Change(j, [job[j] EXCEPT !.queue = @ \ {k}, !.queueError = TRUE])
          /\ UNCHANGED req
       \/ /\ k = "progress"
          /\ Change(j, [job[j] EXCEPT !.queue = @ \ {k}])
          /\ AdminProgress(j)
    /\ UNCHANGED sockets

(* What the first task of the job comes to when the queue has ended.       *)
LayersError(j) ==
    job[j].queueError \/ (j[1] \in Pulls /\ ~job[j].created)
QueueEnd(j) ==
    /\ Is(j, "running") /\ job[j].closed /\ job[j].queue = {}
    /\ Change(j, [job[j] EXCEPT !.execution =
                     IF LayersError(j) THEN "failed"
                     ELSE IF j[1] \in Pulls \ Digests THEN "tagging"
                     ELSE "succeeded"])
    /\ UNCHANGED <<req, sockets>>
TagImageV2(j) ==
    /\ Is(j, "tagging")
    /\ Change(j, [job[j] EXCEPT !.execution = "succeeded", !.tagged = TRUE])
    /\ UNCHANGED <<req, sockets>>

(* A task fails or times out, or an operator cancels the job.              *)
JobFails(j) ==
    /\ Is(j, "running") \/ Is(j, "tagging")
    /\ \E execution \in {"failed", "canceled"} :
          Change(j, [job[j] EXCEPT !.execution = execution])
    /\ UNCHANGED <<req, sockets>>

-----------------------------------------------------------------------------
Init ==
    /\ req = [r \in Requests |-> NoRequest]
    /\ sockets = [i \in Ids |-> None]
    /\ job = [j \in JobIds |-> NoJob]

Serve(r) == CreateJob(r) \/ JobCreated(r) \/ CreateJobFails(r) \/ Poll(r)
Run(j) ==
    \/ \E k \in Messages :
          Receive(j, k) \/ ProcessMessage(j, k)
    \/ CloseStream(j) \/ QueueEnd(j) \/ TagImageV2(j) \/ JobFails(j)
Next == \/ \E r \in Requests : Start(r) \/ Serve(r)
        \/ \E j \in JobIds : Run(j)
        \/ Restart

Spec == Init /\ [][Next]_vars

(* Nothing is asked of the runner: a job may be stuck for ever.            *)
FairSpec == Spec /\ \A r \in Requests : WF_vars(Serve(r))

-----------------------------------------------------------------------------
(* Every variable has its type.                                            *)
TypeOK ==
    /\ req \in [Requests -> ReqType]
    /\ sockets \in [Ids -> Requests \cup {None}]
    /\ job \in [JobIds -> JobType]

(* The response registered under the name of a repository is still open:   *)
(* no progress is written to a pull that is over (createPullJob, setSocket,*)
(* and the removeSocket of pullImage).                                     *)
SocketsAreOpen ==
    \A i \in Repos : sockets[i] # None => ~req[sockets[i]].ended

(* A client that is told of no error has its image: the jobs of the        *)
(* request succeeded, and a pulled image is created and tagged             *)
(* (waitForJob, pullImageLayersV2).                                        *)
Pulled(j) == job[j].created /\ (j[1] \notin Digests => job[j].tagged)
SuccessIsReal ==
    \A r \in Requests :
        req[r].pc = "done" /\ ~req[r].told =>
            \A j \in JobIds : j[1] = r => /\ Is(j, "succeeded")
                                          /\ r \in Pulls => Pulled(j)

(* Every pull and push is answered, whatever becomes of its jobs (pollJob).*)
RequestsAnswered ==
    \A r \in Requests : ReqAt(r, "createJob") ~> ReqAt(r, "done")

(* The progress a client sees is its own (createPullJob: "so the wfapi job *)
(* can report progress back to us").                                       *)
OwnProgress == \A r \in Requests : \A j \in req[r].got : j[1] = r

=============================================================================
