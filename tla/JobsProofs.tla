---------------------------- MODULE JobsProofs ----------------------------
(***************************************************************************)
(* What Jobs promises for every set of requests and every number of polls: *)
(* a client that is told of no error has its image, and the responses of   *)
(* pulls that are registered for progress are open.                        *)
(***************************************************************************)
EXTENDS Jobs, TLAPS

USE JobsAssumption

(* Polls are counted.                                                      *)
PollsCounted ==
    \A r \in Requests : /\ req[r].image \in 1 .. ImagesOf[r]
                        /\ req[r].attempts <= PollLimit + req[r].errs
                        /\ ReqAt(r, "waitForJob") => req[r].errs < MaxPollErrs

(* The jobs a request has behind it succeeded, if its client was told of   *)
(* no error.                                                               *)
Behind(r) == IF ReqAt(r, "done") THEN 1 .. ImagesOf[r]
             ELSE 1 .. (req[r].image - 1)
JobsBehindSucceeded ==
    \A r \in Requests : ~req[r].told =>
        \A n \in Behind(r) : Is(<<r, n>>, "succeeded")

(* A pull that got as far as tagging has created its image.                *)
PullsProgress ==
    \A j \in JobIds : j[1] \in Pulls =>
        /\ Is(j, "tagging") => job[j].created
        /\ Is(j, "succeeded") => Pulled(j)

JobsInv == TypeOK /\ PollsCounted /\ JobsBehindSucceeded /\ PullsProgress

LEMMA JobIdsDef ==
    \A j : j \in JobIds <=>
        \E r \in Requests : \E n \in 1 .. ImagesOf[r] : j = <<r, n>>
  BY DEF JobIds

LEMMA JobsInit == Init => JobsInv
  <1> SUFFICES ASSUME Init PROVE JobsInv
    OBVIOUS
  <1>1. TypeOK
    <2>1. NoRequest \in ReqType
      BY DEF NoRequest, ReqType
    <2>2. NoJob \in JobType
      BY DEF NoJob, JobType, Over
    <2> QED BY <2>1, <2>2 DEF Init, TypeOK
  <1>2. PollsCounted
    BY DEF Init, PollsCounted, NoRequest, ReqAt
  <1>3. JobsBehindSucceeded
    BY DEF Init, JobsBehindSucceeded, Behind, NoRequest, ReqAt
  <1>4. PullsProgress
    BY DEF Init, PullsProgress, NoJob, Is
  <1> QED BY <1>1, <1>2, <1>3, <1>4 DEF JobsInv

(* The steps of the server on one request leave the others alone.          *)
LEMMA RequestStep ==
    ASSUME JobsInv, NEW r \in Requests, NEW s \in ReqType, Update(r, s),
           s.image \in 1 .. ImagesOf[r], s.attempts <= PollLimit + s.errs,
           s.pc = "waitForJob" => s.errs < MaxPollErrs,
           sockets' \in [Ids -> Requests \cup {None}], UNCHANGED job,
           ~s.told => \A n \in (IF s.pc = "done" THEN 1 .. ImagesOf[r]
                                ELSE 1 .. (s.image - 1)) :
                         Is(<<r, n>>, "succeeded")
    PROVE  JobsInv'
  <1>1. req' = [req EXCEPT ![r] = s] /\ job' = job
    BY DEF Update
  <1>2. req \in [Requests -> ReqType]
    BY DEF JobsInv, TypeOK
  <1>3. req'[r] = s /\ \A q \in Requests \ {r} : req'[q] = req[q]
    BY <1>1, <1>2
  <1>4. TypeOK'
    BY <1>1, <1>2 DEF JobsInv, TypeOK
  <1>5. PollsCounted'
    BY <1>3 DEF JobsInv, PollsCounted, ReqAt
  <1>6. JobsBehindSucceeded'
    <2> SUFFICES ASSUME NEW q \in Requests, ~req'[q].told,
                        NEW n \in Behind(q)'
                 PROVE  Is(<<q, n>>, "succeeded")'
      BY DEF JobsBehindSucceeded
    <2>1. CASE q = r
      BY <2>1, <1>1, <1>3 DEF Behind, ReqAt, Is
    <2>2. CASE q # r
      BY <2>2, <1>1, <1>3 DEF JobsInv, JobsBehindSucceeded, Behind, ReqAt, Is
    <2> QED BY <2>1, <2>2
  <1>7. PullsProgress'
    BY <1>1 DEF JobsInv, PullsProgress, Is, Pulled
  <1> QED BY <1>4, <1>5, <1>6, <1>7 DEF JobsInv

(* The steps of the runner: a job that is over stays so.                   *)
LEMMA RunnerStep ==
    ASSUME JobsInv, NEW j \in JobIds, NEW s \in JobType, Change(j, s),
           ~Is(j, "succeeded"), UNCHANGED sockets,
           req' \in [Requests -> ReqType],
           \A r \in Requests :
              /\ req'[r].pc = req[r].pc /\ req'[r].image = req[r].image
              /\ req'[r].attempts = req[r].attempts
              /\ req'[r].errs = req[r].errs /\ req'[r].told = req[r].told,
           j[1] \in Pulls =>
              /\ s.execution = "tagging" => s.created
              /\ s.execution = "succeeded" =>
                    s.created /\ (j[1] \notin Digests => s.tagged)
    PROVE  JobsInv'
  <1>1. job' = [job EXCEPT ![j] = s] /\ sockets' = sockets
    BY DEF Change
  <1>2. job \in [JobIds -> JobType]
    BY DEF JobsInv, TypeOK
  <1>3. job'[j] = s /\ \A k \in JobIds \ {j} : job'[k] = job[k]
    BY <1>1, <1>2
  <1>4. TypeOK'
    BY <1>1, <1>2 DEF JobsInv, TypeOK
  <1>5. PollsCounted'
    BY DEF JobsInv, PollsCounted, ReqAt
  <1>6. JobsBehindSucceeded'
    <2> SUFFICES ASSUME NEW q \in Requests, ~req'[q].told,
                        NEW n \in Behind(q)'
                 PROVE  Is(<<q, n>>, "succeeded")'
      BY DEF JobsBehindSucceeded
    <2>1. n \in Behind(q) /\ ~req[q].told
      BY DEF Behind, ReqAt
    <2>2. Is(<<q, n>>, "succeeded")
      BY <2>1 DEF JobsInv, JobsBehindSucceeded
    <2>3. n \in 1 .. ImagesOf[q]
      BY <2>1 DEF JobsInv, PollsCounted, Behind
    <2>4. <<q, n>> \in JobIds \ {j}
      BY <2>2, <2>3, JobIdsDef
    <2> QED BY <1>3, <2>2, <2>4 DEF Is
  <1>7. PullsProgress'
    <2> SUFFICES ASSUME NEW k \in JobIds, k[1] \in Pulls
                 PROVE  /\ Is(k, "tagging")' => job'[k].created
                        /\ Is(k, "succeeded")' => Pulled(k)'
      BY DEF PullsProgress
    <2>1. CASE k = j
      BY <2>1, <1>3 DEF Is, Pulled
    <2>2. CASE k # j
      BY <2>2, <1>3 DEF JobsInv, PullsProgress, Is, Pulled
    <2> QED BY <2>1, <2>2
  <1> QED BY <1>4, <1>5, <1>6, <1>7 DEF JobsInv

-----------------------------------------------------------------------------
LEMMA ReqTyped == ASSUME JobsInv, NEW r \in Requests
                  PROVE  /\ req[r] \in ReqType
                         /\ req[r].image \in 1 .. ImagesOf[r]
                         /\ req[r].attempts <= PollLimit + req[r].errs
                         /\ JobOf(r) \in JobIds
                         /\ IdOf(r) \in Ids
  <1>1. req[r] \in ReqType
    BY DEF JobsInv, TypeOK
  <1>2. req[r].image \in 1 .. ImagesOf[r]
    BY DEF JobsInv, PollsCounted
  <1>3. req[r].attempts <= PollLimit + req[r].errs
    BY DEF JobsInv, PollsCounted
  <1>4. JobOf(r) \in JobIds
    BY <1>2, JobIdsDef DEF JobOf
  <1>5. IdOf(r) \in Ids
    BY DEF IdOf, Ids
  <1> QED BY <1>1, <1>2, <1>3, <1>4, <1>5

LEMMA SocketsTyped ==
    ASSUME JobsInv, NEW i \in Ids, NEW v \in Requests \cup {None}
    PROVE  [sockets EXCEPT ![i] = v] \in [Ids -> Requests \cup {None}]
  BY DEF JobsInv, TypeOK

(* The callback of waitForJob, called without an error only when the job   *)
(* succeeded.                                                              *)
LEMMA WaitedStep ==
    ASSUME JobsInv, NEW r \in Requests, NEW err \in BOOLEAN,
           ReqAt(r, "waitForJob"), Waited(r, err), UNCHANGED job,
           ~err => Is(JobOf(r), "succeeded")
    PROVE  JobsInv'
  <1> DEFINE told == req[r].told \/ err
             a == Answered(r, err)
  <1>1. req[r] \in ReqType /\ req[r].image \in 1 .. ImagesOf[r]
    BY ReqTyped
  <1>2. a = [req[r] EXCEPT !.told = told, !.ended = @ \/ err]
    BY <1>1 DEF Answered, ReqType
  <1>3. /\ a \in ReqType /\ a.image = req[r].image /\ a.told = told
        /\ a.attempts = req[r].attempts /\ a.errs = req[r].errs
    BY <1>1, <1>2 DEF ReqType
  <1>4. ~told => \A n \in 1 .. req[r].image : Is(<<r, n>>, "succeeded")
    <2> SUFFICES ASSUME ~told, NEW n \in 1 .. req[r].image
                 PROVE  Is(<<r, n>>, "succeeded")
      OBVIOUS
    <2>1. CASE n = req[r].image
      BY <2>1 DEF JobOf
    <2>2. CASE n # req[r].image
      <3>1. n \in 1 .. (req[r].image - 1)
        BY <2>2, <1>1
      <3> QED BY <3>1 DEF JobsInv, JobsBehindSucceeded, Behind, ReqAt
    <2> QED BY <2>1, <2>2
  <1>5. req[r].attempts <= PollLimit + req[r].errs
    BY ReqTyped
  <1> HIDE DEF a, told
  <1>6. CASE r \in Pulls
    <2> DEFINE s == EndOf(a)
    <2>1. /\ s \in ReqType /\ s.pc = "done" /\ s.image = req[r].image
          /\ s.told = told
          /\ s.attempts = req[r].attempts /\ s.errs = req[r].errs
      BY <1>3 DEF EndOf, ReqType
    <2>2. req[r].image = ImagesOf[r]
      BY <1>1, <1>6
    <2>3. Update(r, s) /\ sockets' = [sockets EXCEPT ![RepoOf[r]] = None]
      BY <1>6 DEF Waited, a
    <2>4. sockets' \in [Ids -> Requests \cup {None}]
      BY <2>3, SocketsTyped DEF Ids
    <2> HIDE DEF s
    <2> QED BY <1>1, <1>4, <1>5, <2>1, <2>2, <2>3, <2>4, RequestStep
  <1>7. CASE r \notin Pulls
    <2> DEFINE s == NextImage(a, r)
    <2>1. Update(r, s) /\ UNCHANGED sockets
      BY <1>7 DEF Waited, a
    <2>2. sockets' \in [Ids -> Requests \cup {None}]
      BY <2>1 DEF JobsInv, TypeOK
    <2>3. CASE req[r].image = ImagesOf[r]
      <3>1. /\ s \in ReqType /\ s.pc = "done" /\ s.image = req[r].image
            /\ s.told = told
            /\ s.attempts = req[r].attempts /\ s.errs = req[r].errs
        BY <1>3, <2>3 DEF NextImage, EndOf, ReqType
      <3> HIDE DEF s
      <3> QED BY <1>1, <1>4, <1>5, <2>1, <2>2, <2>3, <3>1, RequestStep
    <2>4. CASE req[r].image # ImagesOf[r]
      <3>0. a.image + 1 \in Nat /\ a.image # ImagesOf[r]
        BY <1>1, <1>3, <2>4
      <3>3. s = [a EXCEPT !.pc = "createJob", !.image = @ + 1]
        BY <3>0 DEF NextImage
      <3>4. s \in ReqType
        BY <1>3, <3>0, <3>3 DEF ReqType
      <3>1. /\ s \in ReqType /\ s.pc = "createJob"
            /\ s.image = req[r].image + 1 /\ s.told = told
            /\ s.attempts = req[r].attempts /\ s.errs = req[r].errs
        BY <1>3, <3>3, <3>4 DEF ReqType
      <3>2. s.image \in 1 .. ImagesOf[r] /\ s.image - 1 = req[r].image
        BY <3>1, <1>1, <2>4
      <3> HIDE DEF s
      <3> QED BY <1>4, <1>5, <2>1, <2>2, <3>1, <3>2, RequestStep
    <2> QED BY <2>3, <2>4
  <1> QED BY <1>6, <1>7

LEMMA PollStep ==
    ASSUME JobsInv, NEW r \in Requests, Poll(r) PROVE JobsInv'
  <1>1. ReqAt(r, "waitForJob") /\ UNCHANGED job
    BY DEF Poll
  <1>2. /\ req[r] \in ReqType /\ req[r].image \in 1 .. ImagesOf[r]
        /\ req[r].attempts <= PollLimit + req[r].errs
        /\ req[r].errs < MaxPollErrs
    BY <1>1, ReqTyped DEF JobsInv, PollsCounted
  <1>3. ASSUME NEW errs \in 0 .. MaxPollErrs, Repoll(r, errs),
               errs < MaxPollErrs,
               req[r].attempts + 1 <= PollLimit + errs
        PROVE  JobsInv'
    <2> DEFINE s == [req[r] EXCEPT !.attempts = @ + 1, !.errs = errs]
    <2>0. req[r].attempts + 1 \in 0 .. PollLimit + MaxPollErrs
      BY <1>2, <1>3 DEF ReqType
    <2>1. /\ s \in ReqType /\ s.image = req[r].image /\ s.pc = req[r].pc
          /\ s.told = req[r].told
          /\ s.attempts = req[r].attempts + 1 /\ s.errs = errs
      BY <1>2, <1>3, <2>0 DEF ReqType
    <2>2. Update(r, s) /\ UNCHANGED sockets
      BY <1>3 DEF Repoll
    <2>3. sockets' \in [Ids -> Requests \cup {None}]
      BY <2>2 DEF JobsInv, TypeOK
    <2>4. ~req[r].told => \A n \in 1 .. (req[r].image - 1) :
                             Is(<<r, n>>, "succeeded")
      BY <1>1 DEF JobsInv, JobsBehindSucceeded, Behind, ReqAt
    <2>5. req[r].pc = "waitForJob"
      BY <1>1 DEF ReqAt
    <2> HIDE DEF s
    <2> QED BY <1>1, <1>2, <1>3, <2>1, <2>2, <2>3, <2>4, <2>5, RequestStep
  <1>4. CASE PollFails(r)
    <2>1. CASE req[r].errs + 1 >= MaxPollErrs
      BY <1>1, <1>4, <2>1, WaitedStep DEF PollFails
    <2>2. CASE ~(req[r].errs + 1 >= MaxPollErrs)
      <3>1. Repoll(r, req[r].errs + 1)
        BY <1>4, <2>2 DEF PollFails
      <3>2. /\ req[r].errs + 1 \in 0 .. MaxPollErrs
            /\ req[r].errs + 1 < MaxPollErrs
            /\ req[r].attempts + 1 <= PollLimit + (req[r].errs + 1)
        BY <1>2, <2>2 DEF ReqType
      <3> QED BY <1>3, <3>1, <3>2
    <2> QED BY <2>1, <2>2
  <1>5. CASE PollOver(r)
    <2>1. /\ job[JobOf(r)].execution \in Over
          /\ Waited(r, JobError(job[JobOf(r)].execution))
      BY <1>5 DEF PollOver
    <2>2. ~JobError(job[JobOf(r)].execution) => Is(JobOf(r), "succeeded")
      BY <2>1 DEF Over, JobError, Is
    <2>3. JobError(job[JobOf(r)].execution) \in BOOLEAN
      BY DEF JobError
    <2> QED BY <1>1, <2>1, <2>2, <2>3, WaitedStep
  <1>6. CASE PollAgain(r)
    <2>1. CASE Attempts(r) > PollLimit
      BY <1>1, <1>6, <2>1, WaitedStep DEF PollAgain
    <2>2. CASE ~(Attempts(r) > PollLimit)
      <3>1. Repoll(r, req[r].errs)
        BY <1>6, <2>2 DEF PollAgain
      <3>2. /\ req[r].errs \in 0 .. MaxPollErrs
            /\ req[r].attempts + 1 <= PollLimit + req[r].errs
        BY <1>2, <2>2 DEF ReqType, Attempts
      <3> QED BY <1>2, <1>3, <3>1, <3>2
    <2> QED BY <2>1, <2>2
  <1> QED BY <1>4, <1>5, <1>6 DEF Poll

-----------------------------------------------------------------------------
(* The runner.                                                             *)
LEMMA JobTyped ==
    ASSUME JobsInv, NEW j \in JobIds
    PROVE  /\ job[j] \in JobType /\ j[1] \in Requests
           /\ j[1] \in Pulls => (Is(j, "tagging") => job[j].created)
  <1>1. job[j] \in JobType
    BY DEF JobsInv, TypeOK
  <1>2. j[1] \in Requests
    BY JobIdsDef
  <1> QED BY <1>1, <1>2 DEF JobsInv, PullsProgress

LEMMA QuietRunnerStep ==
    ASSUME JobsInv, NEW j \in JobIds, NEW s \in JobType, Change(j, s),
           ~Is(j, "succeeded"), UNCHANGED <<req, sockets>>,
           j[1] \in Pulls =>
              /\ s.execution = "tagging" => s.created
              /\ s.execution = "succeeded" =>
                    s.created /\ (j[1] \notin Digests => s.tagged)
    PROVE  JobsInv'
  <1>1. req' \in [Requests -> ReqType]
    BY DEF JobsInv, TypeOK
  <1> QED BY <1>1, RunnerStep

LEMMA ReceiveStep ==
    ASSUME JobsInv, NEW j \in JobIds, NEW k \in Messages, Receive(j, k)
    PROVE  JobsInv'
  <1> DEFINE s == [job[j] EXCEPT !.queue = @ \cup {k}]
  <1>1. job[j] \in JobType
    BY JobTyped
  <1>2. s \in JobType /\ s.execution = "running"
    BY <1>1 DEF JobType, Receive, Is
  <1>3. Change(j, s) /\ ~Is(j, "succeeded") /\ UNCHANGED <<req, sockets>>
    BY DEF Receive, Is
  <1> HIDE DEF s
  <1> QED BY <1>2, <1>3, QuietRunnerStep

LEMMA CloseStreamStep ==
    ASSUME JobsInv, NEW j \in JobIds, CloseStream(j) PROVE JobsInv'
  <1> DEFINE s == [job[j] EXCEPT !.closed = TRUE]
  <1>1. job[j] \in JobType
    BY JobTyped
  <1>2. s \in JobType /\ s.execution = "running"
    BY <1>1 DEF JobType, CloseStream, Is
  <1>3. Change(j, s) /\ ~Is(j, "succeeded") /\ UNCHANGED <<req, sockets>>
    BY DEF CloseStream, Is
  <1> HIDE DEF s
  <1> QED BY <1>2, <1>3, QuietRunnerStep

LEMMA ProcessMessageStep ==
    ASSUME JobsInv, NEW j \in JobIds, NEW k \in Messages,
           ProcessMessage(j, k)
    PROVE  JobsInv'
  <1>1. job[j] \in JobType /\ j[1] \in Requests
    BY JobTyped
  <1>2. /\ job[j].execution = "running" /\ ~Is(j, "succeeded")
        /\ UNCHANGED sockets
    BY DEF ProcessMessage, Is
  <1>3. CASE k = "create"
    <2>1. PICK outcome \in {<<TRUE, FALSE>>, <<FALSE, TRUE>>,
                            <<FALSE, FALSE>>} :
             Change(j, [job[j] EXCEPT !.queue = @ \ {k},
                           !.created = @ \/ outcome[1],
                           !.queueError = @ \/ outcome[2]])
      BY <1>3 DEF ProcessMessage
    <2> DEFINE s == [job[j] EXCEPT !.queue = @ \ {k},
                        !.created = @ \/ outcome[1],
                        !.queueError = @ \/ outcome[2]]
    <2>2. /\ job[j].queue \ {k} \in SUBSET Messages
          /\ (job[j].created \/ outcome[1]) \in BOOLEAN
          /\ (job[j].queueError \/ outcome[2]) \in BOOLEAN
      BY <1>1 DEF JobType
    <2>3. s \in JobType /\ s.execution = "running"
      BY <1>1, <1>2, <2>2 DEF JobType
    <2>4. Change(j, s) /\ UNCHANGED <<req, sockets>>
      BY <1>2, <1>3, <2>1 DEF ProcessMessage
    <2> HIDE DEF s
    <2> QED BY <1>2, <2>3, <2>4, QuietRunnerStep
  <1>4. CASE k = "error"
    <2> DEFINE s == [job[j] EXCEPT !.queue = @ \ {k}, !.queueError = TRUE]
    <2>1. s \in JobType /\ s.execution = "running"
      BY <1>1, <1>2 DEF JobType
    <2>2. Change(j, s) /\ UNCHANGED <<req, sockets>>
      BY <1>2, <1>4 DEF ProcessMessage
    <2> HIDE DEF s
    <2> QED BY <1>2, <2>1, <2>2, QuietRunnerStep
  <1>5. CASE k = "progress"
    <2> DEFINE s == [job[j] EXCEPT !.queue = @ \ {k}]
    <2>1. s \in JobType /\ s.execution = "running"
      BY <1>1, <1>2 DEF JobType
    <2>2. Change(j, s) /\ AdminProgress(j)
      BY <1>5 DEF ProcessMessage
    <2>3. /\ req' \in [Requests -> ReqType]
          /\ \A r \in Requests :
                /\ req'[r].pc = req[r].pc /\ req'[r].image = req[r].image
                /\ req'[r].attempts = req[r].attempts
                /\ req'[r].errs = req[r].errs /\ req'[r].told = req[r].told
      <3> DEFINE q == sockets[IdOf(j[1])]
      <3>1. req \in [Requests -> ReqType]
        BY DEF JobsInv, TypeOK
      <3>2. CASE q = None
        BY <2>2, <3>1, <3>2 DEF AdminProgress
      <3>3. CASE q # None
        <4>1. q \in Requests
          BY <1>1, <3>3, ReqTyped DEF JobsInv, TypeOK
        <4>2. req' = [req EXCEPT ![q] = [req[q] EXCEPT !.got = @ \cup {j}]]
          BY <2>2, <3>3 DEF AdminProgress, Update
        <4>3. req[q] \in ReqType
          BY <3>1, <4>1
        <4>4. [req[q] EXCEPT !.got = @ \cup {j}] \in ReqType
          BY <4>3 DEF ReqType
        <4> HIDE DEF q
        <4> QED BY <3>1, <4>1, <4>2, <4>3, <4>4 DEF ReqType
      <3> QED BY <3>2, <3>3
    <2> HIDE DEF s
    <2> QED BY <1>2, <2>1, <2>2, <2>3, RunnerStep
  <1> QED BY <1>3, <1>4, <1>5 DEF ProcessMessage

LEMMA QueueEndStep ==
    ASSUME JobsInv, NEW j \in JobIds, QueueEnd(j) PROVE JobsInv'
  <1> DEFINE e == IF LayersError(j) THEN "failed"
                  ELSE IF j[1] \in Pulls \ Digests THEN "tagging"
                  ELSE "succeeded"
             s == [job[j] EXCEPT !.execution = e]
  <1>1. job[j] \in JobType
    BY JobTyped
  <1>2. e \in {"failed", "tagging", "succeeded"}
    OBVIOUS
  <1>3. e # "failed" /\ j[1] \in Pulls => job[j].created
    BY DEF LayersError
  <1>4. e = "succeeded" /\ j[1] \in Pulls => j[1] \in Digests
    OBVIOUS
  <1>5. Change(j, s) /\ ~Is(j, "succeeded") /\ UNCHANGED <<req, sockets>>
    BY DEF QueueEnd, Is
  <1> HIDE DEF e
  <1>6. s \in JobType /\ s.execution = e /\ s.created = job[j].created
    BY <1>1, <1>2 DEF JobType, Over
  <1> HIDE DEF s
  <1> QED BY <1>3, <1>4, <1>5, <1>6, QuietRunnerStep

LEMMA TagImageV2Step ==
    ASSUME JobsInv, NEW j \in JobIds, TagImageV2(j) PROVE JobsInv'
  <1> DEFINE s == [job[j] EXCEPT !.execution = "succeeded", !.tagged = TRUE]
  <1>1. job[j] \in JobType /\ (j[1] \in Pulls => job[j].created)
    BY JobTyped DEF TagImageV2
  <1>2. /\ s \in JobType /\ s.execution = "succeeded" /\ s.tagged
        /\ s.created = job[j].created
    BY <1>1 DEF JobType, Over
  <1>3. Change(j, s) /\ ~Is(j, "succeeded") /\ UNCHANGED <<req, sockets>>
    BY DEF TagImageV2, Is
  <1> HIDE DEF s
  <1> QED BY <1>1, <1>2, <1>3, QuietRunnerStep

LEMMA JobFailsStep ==
    ASSUME JobsInv, NEW j \in JobIds, JobFails(j) PROVE JobsInv'
  <1>1. PICK execution \in {"failed", "canceled"} :
           Change(j, [job[j] EXCEPT !.execution = execution])
    BY DEF JobFails
  <1> DEFINE s == [job[j] EXCEPT !.execution = execution]
  <1>2. job[j] \in JobType
    BY JobTyped
  <1>3. s \in JobType /\ s.execution = execution
    BY <1>2 DEF JobType, Over
  <1>4. Change(j, s) /\ ~Is(j, "succeeded") /\ UNCHANGED <<req, sockets>>
    BY <1>1 DEF JobFails, Is
  <1> HIDE DEF s
  <1> QED BY <1>3, <1>4, QuietRunnerStep

-----------------------------------------------------------------------------
(* The other steps of the server.                                          *)
LEMMA StillBehind ==
    ASSUME JobsInv, NEW r \in Requests, ~ReqAt(r, "done"), ~req[r].told
    PROVE  \A n \in 1 .. (req[r].image - 1) : Is(<<r, n>>, "succeeded")
  BY DEF JobsInv, JobsBehindSucceeded, Behind

LEMMA StartStep ==
    ASSUME JobsInv, NEW r \in Requests, Start(r) PROVE JobsInv'
  <1> DEFINE s == [req[r] EXCEPT !.pc = "createJob"]
  <1>1. /\ s \in ReqType /\ s.pc = "createJob" /\ s.image = req[r].image
        /\ s.attempts = req[r].attempts /\ s.errs = req[r].errs
        /\ s.told = req[r].told
    BY ReqTyped DEF ReqType
  <1>2. Update(r, s) /\ UNCHANGED <<sockets, job>>
    BY DEF Start
  <1>3. sockets' \in [Ids -> Requests \cup {None}]
    BY <1>2 DEF JobsInv, TypeOK
  <1>4. ~req[r].told => \A n \in 1 .. (req[r].image - 1) :
                           Is(<<r, n>>, "succeeded")
    BY StillBehind DEF Start, ReqAt
  <1> HIDE DEF s
  <1> QED BY <1>1, <1>2, <1>3, <1>4, ReqTyped, RequestStep

LEMMA JobCreatedStep ==
    ASSUME JobsInv, NEW r \in Requests, JobCreated(r) PROVE JobsInv'
  <1> DEFINE s == [req[r] EXCEPT !.pc = "waitForJob",
                                 !.attempts = 0, !.errs = 0]
  <1>0. 0 \in 0 .. PollLimit + MaxPollErrs /\ 0 \in 0 .. MaxPollErrs
    OBVIOUS
  <1>1. /\ s \in ReqType /\ s.pc = "waitForJob" /\ s.image = req[r].image
        /\ s.attempts = 0 /\ s.errs = 0 /\ s.told = req[r].told
    BY <1>0, ReqTyped DEF ReqType
  <1>2. Update(r, s) /\ UNCHANGED job
    BY DEF JobCreated
  <1>3. sockets' \in [Ids -> Requests \cup {None}]
    BY ReqTyped, SocketsTyped DEF JobCreated
  <1>4. ~req[r].told => \A n \in 1 .. (req[r].image - 1) :
                           Is(<<r, n>>, "succeeded")
    BY StillBehind DEF JobCreated, ReqAt
  <1> HIDE DEF s
  <1> QED BY <1>1, <1>2, <1>3, <1>4, ReqTyped, RequestStep

LEMMA CreateJobFailsStep ==
    ASSUME JobsInv, NEW r \in Requests, CreateJobFails(r) PROVE JobsInv'
  <1> DEFINE s == [EndOf(req[r]) EXCEPT !.told = TRUE]
  <1>1. /\ s \in ReqType /\ s.pc = "done" /\ s.image = req[r].image
        /\ s.attempts = req[r].attempts /\ s.errs = req[r].errs /\ s.told
    BY ReqTyped DEF EndOf, ReqType
  <1>2. Update(r, s) /\ UNCHANGED <<sockets, job>>
    BY DEF CreateJobFails
  <1>3. sockets' \in [Ids -> Requests \cup {None}]
    BY <1>2 DEF JobsInv, TypeOK
  <1> HIDE DEF s
  <1> QED BY <1>1, <1>2, <1>3, ReqTyped, RequestStep

(* The job a request creates is not one that it has behind it.             *)
LEMMA CreateJobStep ==
    ASSUME JobsInv, NEW r \in Requests, CreateJob(r) PROVE JobsInv'
  <1> DEFINE s == [req[r] EXCEPT !.pc = "jobCreated"]
             t == [job[JobOf(r)] EXCEPT !.execution = "running"]
  <1>1. /\ s \in ReqType /\ s.pc = "jobCreated" /\ s.image = req[r].image
        /\ s.attempts = req[r].attempts /\ s.errs = req[r].errs
        /\ s.told = req[r].told
    BY ReqTyped DEF ReqType
  <1>2. /\ req' = [req EXCEPT ![r] = s] /\ sockets' = sockets
        /\ job' = [job EXCEPT ![JobOf(r)] = t]
    BY DEF CreateJob, Update
  <1>3. t \in JobType /\ t.execution = "running"
    BY ReqTyped, JobTyped DEF JobType
  <1>4. req \in [Requests -> ReqType] /\ job \in [JobIds -> JobType]
    BY DEF JobsInv, TypeOK
  <1> HIDE DEF s, t
  <1>5. req'[r] = s /\ \A q \in Requests \ {r} : req'[q] = req[q]
    BY <1>2, <1>4
  <1>6. job'[JobOf(r)] = t /\ \A k \in JobIds \ {JobOf(r)} : job'[k] = job[k]
    BY <1>2, <1>4, ReqTyped
  <1>7. TypeOK'
    BY <1>1, <1>2, <1>3, <1>4 DEF JobsInv, TypeOK
  <1>8. PollsCounted'
    BY <1>1, <1>5 DEF JobsInv, PollsCounted, ReqAt
  <1>9. JobsBehindSucceeded'
    <2> SUFFICES ASSUME NEW q \in Requests, ~req'[q].told,
                        NEW n \in Behind(q)'
                 PROVE  Is(<<q, n>>, "succeeded")'
      BY DEF JobsBehindSucceeded
    <2>1. n \in Behind(q) /\ ~req[q].told
      BY <1>1, <1>5 DEF Behind, ReqAt, CreateJob
    <2>2. Is(<<q, n>>, "succeeded")
      BY <2>1 DEF JobsInv, JobsBehindSucceeded
    <2>3. n \in 1 .. ImagesOf[q]
      BY <2>1 DEF JobsInv, PollsCounted, Behind
    <2>4. <<q, n>> \in JobIds
      BY <2>3, JobIdsDef
    <2>5. <<q, n>> # JobOf(r)
      <3>1. req[r].image \in Nat /\ ReqAt(r, "createJob")
        BY ReqTyped DEF CreateJob
      <3>2. q = r => n # req[r].image
        BY <2>1, <3>1 DEF Behind, ReqAt
      <3> QED BY <3>2 DEF JobOf
    <2> QED BY <1>6, <2>2, <2>4, <2>5 DEF Is
  <1>10. PullsProgress'
    <2> SUFFICES ASSUME NEW k \in JobIds, k[1] \in Pulls
                 PROVE  /\ Is(k, "tagging")' => job'[k].created
                        /\ Is(k, "succeeded")' => Pulled(k)'
      BY DEF PullsProgress
    <2>1. CASE k = JobOf(r)
      BY <2>1, <1>3, <1>6 DEF Is
    <2>2. CASE k # JobOf(r)
      BY <2>2, <1>6 DEF JobsInv, PullsProgress, Is, Pulled
    <2> QED BY <2>1, <2>2
  <1> QED BY <1>7, <1>8, <1>9, <1>10 DEF JobsInv

LEMMA RestartStep == ASSUME JobsInv, Restart PROVE JobsInv'
  <1>1. job' = job /\ sockets' = [i \in Ids |-> None]
    BY DEF Restart
  <1>2. \A r \in Requests :
           \/ req'[r] = req[r]
           \/ /\ req'[r] \in ReqType /\ req'[r].pc = "done" /\ req'[r].told
              /\ req'[r].image = req[r].image /\ req'[r].errs = req[r].errs
              /\ req'[r].attempts = req[r].attempts
    <2> TAKE r \in Requests
    <2>1. req[r] \in ReqType
      BY ReqTyped
    <2> DEFINE s == [EndOf(req[r]) EXCEPT !.told = TRUE]
    <2>2. req'[r] = req[r] \/ req'[r] = s
      BY DEF Restart
    <2>3. /\ s \in ReqType /\ s.pc = "done" /\ s.told
          /\ s.image = req[r].image /\ s.errs = req[r].errs
          /\ s.attempts = req[r].attempts
      BY <2>1 DEF EndOf, ReqType
    <2> QED BY <2>2, <2>3
  <1>3. req \in [Requests -> ReqType] /\ job \in [JobIds -> JobType]
    BY DEF JobsInv, TypeOK
  <1>4. TypeOK'
    <2>1. \A r \in Requests : req'[r] \in ReqType
      BY <1>2, <1>3
    <2> DEFINE g(r) == IF req[r].pc \in {"none", "done"} THEN req[r]
                       ELSE [EndOf(req[r]) EXCEPT !.told = TRUE]
    <2>2. req' = [r \in Requests |-> g(r)]
      BY DEF Restart
    <2> HIDE DEF g
    <2>3. req' \in [Requests -> ReqType]
      BY <2>1, <2>2
    <2> QED BY <1>1, <1>3, <2>3 DEF TypeOK
  <1>5. PollsCounted'
    BY <1>2 DEF JobsInv, PollsCounted, ReqAt
  <1>6. JobsBehindSucceeded'
    BY <1>1, <1>2 DEF JobsInv, JobsBehindSucceeded, Behind, ReqAt, Is
  <1>7. PullsProgress'
    BY <1>1 DEF JobsInv, PullsProgress, Is, Pulled
  <1> QED BY <1>4, <1>5, <1>6, <1>7 DEF JobsInv

LEMMA JobsStep == JobsInv /\ [Next]_vars => JobsInv'
  <1> SUFFICES ASSUME JobsInv, [Next]_vars PROVE JobsInv'
    OBVIOUS
  <1>1. CASE UNCHANGED vars
    BY <1>1 DEF vars, JobsInv, TypeOK, PollsCounted, JobsBehindSucceeded,
                Behind, PullsProgress, ReqAt, Is, Pulled
  <1>2. ASSUME NEW r \in Requests, Start(r) \/ Serve(r) PROVE JobsInv'
    BY <1>2, StartStep, CreateJobStep, JobCreatedStep, CreateJobFailsStep,
       PollStep DEF Serve
  <1>3. ASSUME NEW j \in JobIds, Run(j) PROVE JobsInv'
    <2>1. CASE \E k \in Messages : Receive(j, k) \/ ProcessMessage(j, k)
      BY <2>1, ReceiveStep, ProcessMessageStep
    <2>2. CASE CloseStream(j) \/ QueueEnd(j) \/ TagImageV2(j) \/ JobFails(j)
      BY <2>2, CloseStreamStep, QueueEndStep, TagImageV2Step, JobFailsStep
    <2> QED BY <1>3, <2>1, <2>2 DEF Run
  <1>4. CASE Restart
    BY <1>4, RestartStep
  <1> QED BY <1>1, <1>2, <1>3, <1>4 DEF Next

LEMMA JobsInvariant == Spec => []JobsInv
  BY JobsInit, JobsStep, PTL DEF Spec

(* Every variable of Jobs always has its type: polls are bounded by        *)
(* PollLimit and MaxPollErrs (pollJob).                                    *)
THEOREM JobsTypeCorrect == Spec => []TypeOK
  <1>1. JobsInv => TypeOK
    BY DEF JobsInv
  <1> QED BY <1>1, JobsInvariant, PTL

(* For all pulls and pushes, however many at a time: a client that is told *)
(* of no error has its image (waitForJob, pullImageLayersV2).              *)
THEOREM SuccessesAreReal == Spec => []SuccessIsReal
  <1>1. JobsInv => SuccessIsReal
    <2> SUFFICES ASSUME JobsInv, NEW r \in Requests, req[r].pc = "done",
                        ~req[r].told, NEW j \in JobIds, j[1] = r
                 PROVE  Is(j, "succeeded") /\ (r \in Pulls => Pulled(j))
      BY DEF SuccessIsReal
    <2>1. \E n \in 1 .. ImagesOf[r] : j = <<r, n>>
      BY JobIdsDef
    <2>2. Is(j, "succeeded")
      BY <2>1 DEF JobsInv, JobsBehindSucceeded, Behind, ReqAt
    <2> QED BY <2>2 DEF JobsInv, PullsProgress
  <1> QED BY <1>1, JobsInvariant, PTL

-----------------------------------------------------------------------------
(* A response registered under the name of a repository is that of a pull  *)
(* of it that still waits.                                                 *)
PullSockets ==
    /\ \A r \in Pulls : ~ReqAt(r, "done") => ~req[r].ended
    /\ \A i \in Repos : sockets[i] # None =>
          /\ sockets[i] \in Pulls /\ RepoOf[sockets[i]] = i
          /\ ReqAt(sockets[i], "waitForJob")

LEMMA PullSocketsStep ==
    ASSUME JobsInv, PullSockets, [Next]_vars PROVE PullSockets'
  <1>0. /\ req \in [Requests -> ReqType]
        /\ sockets \in [Ids -> Requests \cup {None}]
    BY DEF JobsInv, TypeOK
  <1>1. ASSUME NEW r \in Requests, NEW s, Update(r, s),
               ~ReqAt(r, "waitForJob"), UNCHANGED sockets,
               s.pc # "done" => s.ended = req[r].ended,
               ~ReqAt(r, "done")
        PROVE  PullSockets'
    <2>1. req'[r] = s /\ \A q \in Requests \ {r} : req'[q] = req[q]
      BY <1>0, <1>1 DEF Update
    <2>2. \A i \in Repos : sockets[i] # None => sockets[i] \in Pulls \ {r}
      BY <1>0, <1>1 DEF PullSockets
    <2> QED BY <1>1, <2>1, <2>2 DEF PullSockets, ReqAt
  <1>2. ASSUME NEW r \in Requests, Start(r) PROVE PullSockets'
    <2> DEFINE s == [req[r] EXCEPT !.pc = "createJob"]
    <2>1. s.ended = req[r].ended
      BY <1>0 DEF ReqType
    <2>2. Update(r, s) /\ UNCHANGED sockets
      BY <1>2 DEF Start
    <2> HIDE DEF s
    <2> QED BY <1>1, <1>2, <2>1, <2>2 DEF Start, ReqAt
  <1>3. ASSUME NEW r \in Requests, CreateJob(r) PROVE PullSockets'
    <2> DEFINE s == [req[r] EXCEPT !.pc = "jobCreated"]
    <2>1. s.ended = req[r].ended
      BY <1>0 DEF ReqType
    <2>2. Update(r, s) /\ UNCHANGED sockets
      BY <1>3 DEF CreateJob
    <2> HIDE DEF s
    <2> QED BY <1>1, <1>3, <2>1, <2>2 DEF CreateJob, ReqAt
  <1>4. ASSUME NEW r \in Requests, CreateJobFails(r) PROVE PullSockets'
    <2> DEFINE s == [EndOf(req[r]) EXCEPT !.told = TRUE]
    <2>1. s.pc = "done"
      BY <1>0 DEF EndOf, ReqType
    <2>2. Update(r, s) /\ UNCHANGED sockets
      BY <1>4 DEF CreateJobFails
    <2> HIDE DEF s
    <2> QED BY <1>1, <1>4, <2>1, <2>2 DEF CreateJobFails, ReqAt
  <1>5. ASSUME NEW r \in Requests, JobCreated(r) PROVE PullSockets'
    <2> DEFINE s == [req[r] EXCEPT !.pc = "waitForJob",
                                   !.attempts = 0, !.errs = 0]
    <2>1. s.pc = "waitForJob" /\ s.ended = req[r].ended
      BY <1>0 DEF ReqType
    <2>2. req' = [req EXCEPT ![r] = s] /\ ReqAt(r, "jobCreated")
          /\ sockets' = [sockets EXCEPT ![IdOf(r)] = r]
      BY <1>5 DEF JobCreated, Update
    <2> HIDE DEF s
    <2>3. req'[r] = s /\ \A q \in Requests \ {r} : req'[q] = req[q]
      BY <1>0, <2>2
    <2>4. \A i \in Repos :
             \/ r \in Pulls /\ RepoOf[r] = i /\ sockets'[i] = r
             \/ sockets'[i] = sockets[i]
      BY <1>0, <2>2 DEF IdOf, Ids
    <2> QED BY <2>1, <2>2, <2>3, <2>4 DEF PullSockets, ReqAt
  <1>6. ASSUME NEW r \in Requests, NEW err \in BOOLEAN,
               ReqAt(r, "waitForJob"), Waited(r, err)
        PROVE  PullSockets'
    <2>1. CASE r \in Pulls
      <3> DEFINE s == EndOf(Answered(r, err))
      <3>1. s.pc = "done"
        BY <1>0 DEF EndOf, Answered, ReqType
      <3>2. /\ req' = [req EXCEPT ![r] = s]
            /\ sockets' = [sockets EXCEPT ![RepoOf[r]] = None]
        BY <1>6, <2>1 DEF Waited, Update
      <3> HIDE DEF s
      <3>3. req'[r] = s /\ \A q \in Requests \ {r} : req'[q] = req[q]
        BY <1>0, <3>2
      <3>4. \A i \in Repos : IF i = RepoOf[r] THEN sockets'[i] = None
                             ELSE sockets'[i] = sockets[i]
        BY <1>0, <3>2 DEF Ids
      <3>5. \A i \in Repos : sockets'[i] # None =>
               sockets'[i] = sockets[i] /\ sockets[i] \in Pulls \ {r}
        BY <3>4 DEF PullSockets
      <3> QED BY <3>1, <3>3, <3>5 DEF PullSockets, ReqAt
    <2>2. CASE r \notin Pulls
      <3>1. UNCHANGED sockets /\ \A q \in Pulls : req'[q] = req[q]
        BY <1>0, <1>6, <2>2 DEF Waited, Update
      <3> QED BY <3>1 DEF PullSockets, ReqAt
    <2> QED BY <2>1, <2>2
  <1>7. ASSUME NEW r \in Requests, Poll(r) PROVE PullSockets'
    <2>1. ReqAt(r, "waitForJob")
      BY <1>7 DEF Poll
    <2>2. ASSUME NEW errs, Repoll(r, errs) PROVE PullSockets'
      <3> DEFINE s == [req[r] EXCEPT !.attempts = @ + 1, !.errs = errs]
      <3>1. s.pc = req[r].pc /\ s.ended = req[r].ended
        BY <1>0 DEF ReqType
      <3>2. req' = [req EXCEPT ![r] = s] /\ UNCHANGED sockets
        BY <2>2 DEF Repoll, Update
      <3> HIDE DEF s
      <3>3. \A q \in Requests : /\ req'[q].pc = req[q].pc
                                /\ req'[q].ended = req[q].ended
        BY <1>0, <3>1, <3>2
      <3> QED BY <1>0, <3>2, <3>3 DEF PullSockets, ReqAt
    <2>3. JobError(job[JobOf(r)].execution) \in BOOLEAN
      BY DEF JobError
    <2> QED BY <1>6, <1>7, <2>1, <2>2, <2>3
            DEF Poll, PollFails, PollOver, PollAgain
  <1>8. ASSUME NEW j \in JobIds, Run(j) PROVE PullSockets'
    <2>1. UNCHANGED sockets
      BY <1>8 DEF Run, Receive, ProcessMessage, CloseStream, QueueEnd,
                  TagImageV2, JobFails
    <2>2. req' = req \/ AdminProgress(j)
      BY <1>8 DEF Run, Receive, ProcessMessage, CloseStream, QueueEnd,
                  TagImageV2, JobFails
    <2>3. \A q \in Requests : /\ req'[q].pc = req[q].pc
                              /\ req'[q].ended = req[q].ended
      <3>1. CASE req' = req
        BY <3>1
      <3>2. CASE AdminProgress(j) /\ sockets[IdOf(j[1])] # None
        <4> DEFINE q == sockets[IdOf(j[1])]
                   s == [req[q] EXCEPT !.got = @ \cup {j}]
        <4>1. q \in Requests
          BY <1>0, <3>2, JobTyped, ReqTyped
        <4>2. s.pc = req[q].pc /\ s.ended = req[q].ended
          BY <1>0, <4>1 DEF ReqType
        <4>3. req' = [req EXCEPT ![q] = s]
          BY <3>2 DEF AdminProgress, Update
        <4> HIDE DEF q, s
        <4> QED BY <1>0, <4>1, <4>2, <4>3
      <3> QED BY <2>2, <3>1, <3>2 DEF AdminProgress
    <2> QED BY <1>0, <2>1, <2>3 DEF PullSockets, ReqAt
  <1>9. CASE Restart
    <2>1. \A r \in Requests : req'[r] = req[r] \/ req'[r].pc = "done"
      <3> TAKE r \in Requests
      <3> DEFINE s == [EndOf(req[r]) EXCEPT !.told = TRUE]
      <3>1. s.pc = "done"
        BY <1>0 DEF EndOf, ReqType
      <3>2. req'[r] = req[r] \/ req'[r] = s
        BY <1>9 DEF Restart
      <3> QED BY <3>1, <3>2
    <2> QED BY <1>9, <2>1 DEF Restart, PullSockets, ReqAt, Ids
  <1>10. CASE UNCHANGED vars
    BY <1>10 DEF vars, PullSockets, ReqAt
  <1> QED BY <1>2, <1>3, <1>4, <1>5, <1>7, <1>8, <1>9, <1>10
          DEF Next, Serve

(* For all pulls and pushes: no progress is written to a pull that is over *)
(* (createPullJob, imageCreate).                                           *)
THEOREM PullSocketsAreOpen == Spec => []SocketsAreOpen
  <1>1. Init => PullSockets
    BY DEF Init, PullSockets, NoRequest, ReqAt, Ids
  <1>2. JobsInv /\ PullSockets /\ [Next]_vars => PullSockets'
    BY PullSocketsStep
  <1>3. JobsInv /\ PullSockets => SocketsAreOpen
    BY DEF JobsInv, TypeOK, PullSockets, SocketsAreOpen, ReqAt
  <1> QED BY <1>1, <1>2, <1>3, JobsInvariant, PTL DEF Spec

=============================================================================
