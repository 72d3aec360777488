------------------------------ MODULE Archives ------------------------------
(***************************************************************************)
(* docker cp (containerArchiveStream of lib/backends/sdc/containers.js,    *)
(* GET, PUT and HEAD /containers/:id/archive of                            *)
(* lib/endpoints/containers.js), beside the streams of Sessions.  A copy   *)
(* takes a ticket of CNAPI's waitlist of the container (lib/common.js),    *)
(* waits for its turn, has cn-agent open a stream, and gives the ticket    *)
(* back when the stream is closed.  A ticket expires after ten minutes.    *)
(***************************************************************************)
EXTENDS Sessions

VARIABLES
    copy,    \* [Clients -> CopyType], the copies of the run
    queue    \* Seq(Clients), the tickets of the waitlist, the active first

archiveVars == <<copy, queue>>
allVars == <<vars, archiveVars>>

(* ticket: the handler's own variable; expired: CNAPI's was; thrown: the   *)
(* handler died of an exception; kept: CNAPI failed to release.            *)
CopyType ==
    [pc: {"idle", "waitTicket", "dockerCopy", "connecting", "streaming",
          "release", "done"},
     ticket: BOOLEAN, expired: BOOLEAN, thrown: BOOLEAN, kept: BOOLEAN,
     answered: BOOLEAN]

Copies == {c \in Clients : sess[c].kind \in CopyKinds}
Queued(c) == \E i \in DOMAIN queue : queue[i] = c
CopyAt(c, pc) == c \in Copies /\ copy[c].pc = pc

ArchivesTypeOK ==
    /\ TypeOK
    /\ copy \in [Clients -> CopyType]
    /\ queue \in Seq(Clients)

Init ==
    /\ InitStreams
    /\ copy = [c \in Clients |->
                [pc |-> "idle", ticket |-> FALSE, expired |-> FALSE,
                 thrown |-> FALSE, kept |-> FALSE, answered |-> FALSE]]
    /\ queue = << >>

(* A client has one ticket; those behind it move up.                       *)
Leave(q, c) ==
    IF \E i \in DOMAIN q : q[i] = c
    THEN LET place == CHOOSE i \in DOMAIN q : q[i] = c
         IN  [i \in 1 .. (Len(q) - 1) |-> IF i < place THEN q[i] ELSE q[i + 1]]
    ELSE q
Set(c, s) == copy' = [copy EXCEPT ![c] = s]

-----------------------------------------------------------------------------
CreateTicket(c) ==
    /\ CopyAt(c, "idle")
    /\ Set(c, [copy[c] EXCEPT !.pc = "waitTicket", !.ticket = TRUE])
    /\ queue' = Append(queue, c)

(* The callback of the pipeline with an error.  A read without a ticket    *)
(* ends here with neither error nor response (releaseWaitlistTicket).      *)
(* Mutant: the ticket is only looked for when there is no error.           *)
FailForgetting(c) ==
    /\ Set(c, [copy[c] EXCEPT !.pc = "done", !.answered = TRUE])
    /\ UNCHANGED queue
Fail(c) ==
    /\ Set(c, IF copy[c].ticket THEN [copy[c] EXCEPT !.pc = "release"]
              ELSE [copy[c] EXCEPT !.pc = "done",
                                   !.answered = sess[c].kind # "read"])
    /\ UNCHANGED queue

CreateTicketFails(c) == CopyAt(c, "idle") /\ Fail(c)

(* Mutant: the answer of the ticket is taken for its turn.                 *)
TicketActiveAtOnce(c) ==
    /\ CopyAt(c, "waitTicket") /\ Queued(c)
    /\ Set(c, [copy[c] EXCEPT !.pc = "dockerCopy"])
    /\ UNCHANGED queue
TicketActive(c) ==
    /\ CopyAt(c, "waitTicket") /\ queue # << >> /\ Head(queue) = c
    /\ Set(c, [copy[c] EXCEPT !.pc = "dockerCopy"])
    /\ UNCHANGED queue

(* The wait fails, or the ticket has expired.                              *)
TicketWaitFails(c) == CopyAt(c, "waitTicket") /\ Fail(c)

(* cn-agent's answer; stat needs no more than that.                        *)
DockerCopy(c) ==
    /\ CopyAt(c, "dockerCopy")
    /\ Set(c, [copy[c] EXCEPT !.pc = IF sess[c].kind = "stat" THEN "release"
                                     ELSE "connecting"])
    /\ UNCHANGED queue

DockerCopyFails(c) == CopyAt(c, "dockerCopy") /\ Fail(c)

ArchiveConnects(c) ==
    /\ CopyAt(c, "connecting")
    /\ Set(c, [copy[c] EXCEPT !.pc = "streaming"])
    /\ UNCHANGED queue

(* 'close' of a read, whatever the reason: the end, an error, two minutes  *)
(* without data; of a write without an error.                              *)
StreamCloses(c) ==
    /\ CopyAt(c, "streaming")
    /\ Set(c, [copy[c] EXCEPT !.pc = "release"])
    /\ UNCHANGED queue

(* An 'error' before 'connect' has no handler; at the close of a write     *)
(* after an error, error.DockerError is not a constructor.                 *)
StreamThrows(c) ==
    /\ \/ CopyAt(c, "connecting")
       \/ CopyAt(c, "streaming") /\ sess[c].kind = "write"
    /\ Set(c, [copy[c] EXCEPT !.pc = "done", !.thrown = TRUE])
    /\ UNCHANGED queue

(* releaseVMWaitTicket; CNAPI may fail to, which is logged.                *)
Release(c) ==
    /\ CopyAt(c, "release")
    /\ Set(c, [copy[c] EXCEPT !.pc = "done", !.ticket = FALSE,
                              !.answered = TRUE])
    /\ queue' = Leave(queue, c)
ReleaseFails(c) ==
    /\ CopyAt(c, "release")
    /\ Set(c, [copy[c] EXCEPT !.pc = "done", !.ticket = FALSE,
                              !.answered = TRUE, !.kept = TRUE])
    /\ UNCHANGED queue

(* CNAPI drops a ticket after expires_at.                                  *)
Expire(c) ==
    /\ c \in Copies /\ Queued(c)
    /\ queue' = Leave(queue, c)
    /\ Set(c, [copy[c] EXCEPT !.expired = TRUE])

ArchiveStep(c) ==
    \/ CreateTicket(c) \/ CreateTicketFails(c) \/ TicketActive(c)
    \/ TicketWaitFails(c) \/ DockerCopy(c) \/ DockerCopyFails(c)
    \/ ArchiveConnects(c) \/ StreamCloses(c) \/ StreamThrows(c)
    \/ Release(c) \/ ReleaseFails(c) \/ Expire(c)

(* VMAPI's jobs on a container take a ticket of the same waitlist: it does *)
(* not start or stop under a copy that holds its turn.                     *)
VmStep ==
    /\ \/ (VmStops \/ VmStarts) /\ queue = << >>
       \/ VmExitStatus
    /\ UNCHANGED <<sess, conn, attach, exec, resizes, wire>>

Next ==
    \/ NextStreams /\ UNCHANGED archiveVars
    \/ VmStep /\ UNCHANGED archiveVars
    \/ (\E c \in Clients : ArchiveStep(c)) /\ UNCHANGED vars

Spec == Init /\ [][Next]_allVars /\ StreamFairness

-----------------------------------------------------------------------------
(* Two copies of a container never stream at once, unless the ticket of    *)
(* one has expired: each waits for its turn and gives it back only when    *)
(* its stream is closed (containerArchiveStream, releaseWaitlistTicket).   *)
StreamsTakeTurns ==
    \A c, d \in Copies :
        c # d /\ copy[c].pc = "streaming" /\ copy[d].pc = "streaming"
            => copy[c].expired \/ copy[d].expired

(* A copy that is over has given its ticket back, whatever step of it      *)
(* failed, unless CNAPI refused it or the handler died of an exception:    *)
(* else no VMAPI job could run on the container for ten minutes.           *)
NoTicketKept ==
    \A c \in Copies :
        copy[c].pc = "done" /\ Queued(c) => copy[c].kept \/ copy[c].thrown
=============================================================================
