------------------------------ MODULE Sessions ------------------------------
(***************************************************************************)
(* The streams of one container: docker attach, exec, logs, stats, wait and *)
(* the cp of old clients, which has no ticket (see Archives)               *)
(* (lib/backends/sdc/containers.js, lib/endpoints/exec.js,                 *)
(* lib/endpoints/containers.js, lib/socket-manager.js).  A request has     *)
(* CNAPI start a TCP server on the compute node (cn-agent), connects to it *)
(* and joins it with the hijacked socket of the docker client.  Attach     *)
(* sessions under one id share the connection that sockets.attach holds;   *)
(* exec sessions leave theirs in sockets.exec until docker inspects them.  *)
(***************************************************************************)
EXTENDS Naturals, Sequences

CONSTANTS
    Clients,     \* requests of docker clients, each made once
    Scenarios,   \* what they ask for: a set of [Clients -> Kinds]
    Ids,         \* what clients call the container: its id, its name
    IdOf,        \* [Clients -> Ids], req.params.id
    Chunks,      \* bound: [Clients -> Nat], the chunks a client types
    WaitLimit,   \* exitStatusIterations: 15
    None

StreamKinds == {"attach", "exec", "logs", "stats", "copy"}
CopyKinds == {"read", "write", "stat"}
Kinds == StreamKinds \cup {"wait"} \cup CopyKinds

ASSUME SessionsAssumption ==
    /\ Scenarios \subseteq [Clients -> Kinds]
    /\ IdOf \in [Clients -> Ids]
    /\ Chunks \in [Clients -> Nat] /\ WaitLimit \in Nat \ {0}
    /\ None \notin Clients

VARIABLES
    vm,       \* [state, exit]: VMAPI's container, whether exit_status is set
    sess,     \* [Clients -> SessionType]
    conn,     \* [Clients -> ConnType], the connection a request made
    attach,   \* [Ids -> Clients \cup {None}], sockets.attach: whose data
    exec,     \* [Clients -> {"none", "held", "inspected"}], sockets.exec
    resizes,  \* [Ids -> BOOLEAN], sockets.resizes: one is queued
    wire      \* [Clients -> Seq(Items)], what a session wrote, in order

vars == <<vm, sess, conn, attach, exec, resizes, wire>>

VmType == [state: {"running", "stopped"}, exit: BOOLEAN]

(* owner: whose connection it uses; ended: we ended the client's socket,   *)
(* which had not failed; live: it listened before the connection closed;   *)
(* typed: chunks read of the client, one more once it closed its half;     *)
(* held: chunks that wait for a resize to be flushed.                      *)
SessionType ==
    [kind: Kinds,
     pc: {"idle", "createSocket", "created", "connecting", "attached",
          "waiting", "hung", "done"},
     owner: Clients \cup {None}, ended: BOOLEAN, live: BOOLEAN,
     stopped: BOOLEAN, iterations: 1 .. WaitLimit,
     typed: Nat, held: SUBSET (Nat \ {0})]

(* fin: the docker server ended its half.                                  *)
ConnType == [state: {"none", "connecting", "open", "closed"}, fin: BOOLEAN]

Items == [chunk: Nat \ {0}, resize: BOOLEAN]

TypeOK ==
    /\ vm \in VmType
    /\ sess \in [Clients -> SessionType]
    /\ conn \in [Clients -> ConnType]
    /\ attach \in [Ids -> Clients \cup {None}]
    /\ exec \in [Clients -> {"none", "held", "inspected"}]
    /\ resizes \in [Ids -> BOOLEAN]
    /\ wire \in [Clients -> Seq(Items)]

NewSession(k) ==
    [kind |-> k, pc |-> "idle", owner |-> None, ended |-> FALSE,
     live |-> FALSE, stopped |-> FALSE, iterations |-> WaitLimit,
     typed |-> 0, held |-> {}]

InitStreams ==
    /\ vm = [state |-> "running", exit |-> FALSE]
    /\ \E k \in Scenarios : sess = [c \in Clients |-> NewSession(k[c])]
    /\ conn = [c \in Clients |-> [state |-> "none", fin |-> FALSE]]
    /\ attach = [i \in Ids |-> None]
    /\ exec = [c \in Clients |-> "none"]
    /\ resizes = [i \in Ids |-> FALSE]
    /\ wire = [c \in Clients |-> << >>]

-----------------------------------------------------------------------------
(* How a session ends.                                                     *)

At(c, kind, pc) == sess[c].kind = kind /\ sess[c].pc = pc
Streams(c) == sess[c].kind \in StreamKinds

(* The callback of _runAttach, _runExec: once, and execStart ends the      *)
(* client's socket on success only.  What no step reads again is reset.    *)
Finished(ss, c, err) ==
    [ss EXCEPT ![c] =
        [NewSession(ss[c].kind) EXCEPT
            !.pc = "done", !.owner = ss[c].owner, !.held = ss[c].held,
            !.ended = ss[c].ended \/ ~ err \/ ss[c].kind # "exec"]]

(* Mutant: the entry of sockets.attach goes only when there was no error.  *)
EntriesAfterUnlessError(c, err) ==
    IF sess[c].kind = "attach" /\ ~ err
    THEN [attach EXCEPT ![IdOf[c]] = None] ELSE attach
EntriesAfter(c, err) ==
    IF sess[c].kind = "attach" THEN [attach EXCEPT ![IdOf[c]] = None]
    ELSE attach

(* An 'error' of connection o calls back the session that made it.         *)
Unfinished(o) == sess[o].pc \in {"connecting", "attached", "waiting", "hung"}
HearError(ss, o) ==
    IF Unfinished(o)
    THEN sess' = Finished(ss, o, TRUE) /\ attach' = EntriesAfter(o, TRUE)
    ELSE sess' = ss /\ UNCHANGED attach

(* Its 'close' is heard by all that listen: attach sessions go on to wait  *)
(* for the container (endSocket), unless they wait already; the others are *)
(* over.                                                                   *)
(* Mutant: the session that made the connection alone is told.             *)
HearCloseAlone(ss, o) ==
    [c \in Clients |->
        IF ss[c].owner # o \/ ss[c].pc # "attached" \/ c # o THEN ss[c]
        ELSE IF ss[c].kind = "attach" THEN [ss[c] EXCEPT !.pc = "waiting"]
        ELSE Finished(ss, c, FALSE)[c]]
HearClose(ss, o) ==
    [c \in Clients |->
        IF ss[c].owner # o \/ ss[c].pc # "attached" THEN ss[c]
        ELSE IF ss[c].kind = "attach" THEN [ss[c] EXCEPT !.pc = "waiting"]
        ELSE Finished(ss, c, FALSE)[c]]

-----------------------------------------------------------------------------
(* Requests and connections.                                               *)

Attach(c) ==
    /\ At(c, "attach", "idle")
    /\ LET o == attach[IdOf[c]]
       IN  sess' = [sess EXCEPT ![c] =
                IF o = None THEN [@ EXCEPT !.pc = "createSocket"]
                ELSE [@ EXCEPT !.pc = "attached", !.owner = o,
                               !.live = conn[o].state # "closed"]]
    /\ UNCHANGED <<vm, conn, attach, exec, resizes, wire>>

(* containerExec, containerLogs, containerStats and containerCopy.         *)
OtherStream(c) ==
    /\ Streams(c) /\ sess[c].kind # "attach" /\ sess[c].pc = "idle"
    /\ sess' = [sess EXCEPT ![c].pc = "createSocket"]
    /\ UNCHANGED <<vm, conn, attach, exec, resizes, wire>>

(* net.createConnection to the address dockerExec answered.                *)
Dial(c) ==
    /\ sess' = [sess EXCEPT ![c] = [@ EXCEPT !.pc = "connecting",
                                             !.owner = c, !.live = TRUE]]
    /\ conn' = [conn EXCEPT ![c].state = "connecting"]

(* _runCreateSocket answers: exec leaves the address for execStart, the    *)
(* others connect at once.                                                 *)
SocketCreated(c) ==
    /\ Streams(c) /\ sess[c].pc = "createSocket"
    /\ IF sess[c].kind = "exec"
       THEN /\ sess' = [sess EXCEPT ![c].pc = "created"]
            /\ exec' = [exec EXCEPT ![c] = "held"]
            /\ UNCHANGED <<conn, attach>>
       ELSE /\ Dial(c)
            /\ attach' = IF sess[c].kind = "attach"
                         THEN [attach EXCEPT ![IdOf[c]] = c] ELSE attach
            /\ UNCHANGED exec
    /\ UNCHANGED <<vm, resizes, wire>>

CreateSocketFails(c) ==
    /\ Streams(c) /\ sess[c].pc = "createSocket"
    /\ sess' = [sess EXCEPT ![c].pc = "done"]
    /\ UNCHANGED <<vm, conn, attach, exec, resizes, wire>>

ExecStart(c) ==
    /\ At(c, "exec", "created") /\ exec[c] = "held"
    /\ Dial(c)
    /\ UNCHANGED <<vm, attach, exec, resizes, wire>>

(* 404 when another client has inspected the exec, 201 when it is detached.*)
ExecNotStarted(c) ==
    /\ At(c, "exec", "created")
    /\ sess' = [sess EXCEPT ![c].pc = "done"]
    /\ UNCHANGED <<vm, conn, attach, exec, resizes, wire>>

ExecInspect(c) ==
    /\ exec[c] = "held"
    /\ exec' = [exec EXCEPT ![c] = "inspected"]
    /\ UNCHANGED <<vm, sess, conn, attach, resizes, wire>>

(* 'connect': setupListeners of the session that made it.                  *)
Connect(o) ==
    /\ conn[o].state = "connecting"
    /\ conn' = [conn EXCEPT ![o].state = "open"]
    /\ sess' = [sess EXCEPT ![o].pc = IF @ = "connecting" THEN "attached"
                                      ELSE @]
    /\ UNCHANGED <<vm, attach, exec, resizes, wire>>

AgentCloses(o) ==
    /\ conn[o].state = "open"
    /\ conn' = [conn EXCEPT ![o].state = "closed"]
    /\ sess' = HearClose(sess, o)
    /\ UNCHANGED <<vm, attach, exec, resizes, wire>>

(* 'error' and then 'close': refused, or reset later.  docker cp only logs *)
(* the error of an open connection, and its response is left open.         *)
ErrorHeard(o) ==
    IF sess[o].kind = "copy" /\ conn[o].state = "open"
    THEN [sess EXCEPT ![o].pc = "hung"]
    ELSE IF Unfinished(o) THEN Finished(sess, o, TRUE) ELSE sess
ConnectionFails(o) ==
    /\ conn[o].state \in {"connecting", "open"}
    /\ conn' = [conn EXCEPT ![o].state = "closed"]
    /\ sess' = HearClose(ErrorHeard(o), o)
    /\ attach' = IF Unfinished(o) THEN EntriesAfter(o, TRUE) ELSE attach
    /\ UNCHANGED <<vm, exec, resizes, wire>>

(* The client of docker stats leaves: the connection is destroyed.         *)
StatsClientEnds(c) ==
    /\ At(c, "stats", "connecting") \/ At(c, "stats", "attached")
    /\ sess' = Finished(sess, c, FALSE)
    /\ conn' = [conn EXCEPT ![c].state = "closed"]
    /\ UNCHANGED <<vm, attach, exec, resizes, wire>>

(* 'error' of the client's socket: endSocket(error), once per session.     *)
Hijacked == {"attach", "exec", "logs"}
ClientFails(c) ==
    /\ sess[c].pc = "attached" /\ sess[c].kind \in Hijacked
    /\ sess' = [Finished(sess, c, TRUE) EXCEPT ![c].ended = FALSE]
    /\ attach' = EntriesAfter(c, TRUE)
    /\ conn' = [conn EXCEPT ![sess[c].owner].fin = TRUE]
    /\ UNCHANGED <<vm, exec, resizes, wire>>

(* 'timeout' of it: endSocket without an error.  An attach goes on to wait *)
(* for the container, its connection open and its entry kept; an exec or   *)
(* logs has succeeded.                                                     *)
ClientTimesOut(c) ==
    /\ sess[c].pc = "attached" /\ sess[c].kind \in Hijacked
    /\ IF sess[c].kind = "attach"
       THEN /\ sess' = [sess EXCEPT ![c].pc = "waiting"]
            /\ UNCHANGED conn
       ELSE /\ sess' = Finished(sess, c, FALSE)
            /\ conn' = [conn EXCEPT ![c].fin = TRUE]
    /\ UNCHANGED <<vm, attach, exec, resizes, wire>>

-----------------------------------------------------------------------------
(* What clients type, and the resizes that go ahead of it.                 *)

(* Writing to a connection that was ended or closed is an 'error' of it.   *)
Writable(o) == conn[o].state \in {"connecting", "open"} /\ ~ conn[o].fin
Item(n, resize) == [chunk |-> n, resize |-> resize]
Write(ss, c, item) ==
    IF Writable(ss[c].owner)
    THEN /\ wire' = [wire EXCEPT ![c] = Append(@, item)]
         /\ sess' = ss /\ UNCHANGED attach
    ELSE HearError(ss, ss[c].owner) /\ UNCHANGED wire

(* The listeners of a client's socket outlive endSocket: they are there    *)
(* while an attach waits for the container.                                *)
Listening(c) ==
    \/ sess[c].kind = "attach" /\ sess[c].pc \in {"attached", "waiting", "hung"}
    \/ sess[c].kind \in Hijacked /\ sess[c].pc = "attached"

(* Mutant: the chunk is written at once and again with the resize's flush. *)
ReadTwice(c, n, pop) ==
    /\ resizes' = IF pop THEN [resizes EXCEPT ![IdOf[c]] = FALSE] ELSE resizes
    /\ Write([sess EXCEPT ![c].typed = n,
                          ![c].held = IF pop THEN @ \cup {n} ELSE @],
             c, Item(n, FALSE))

(* onData of an attach: a queued resize is written, and the chunk when it  *)
(* is flushed.  Exec sockets and those without a tty take no resizes.      *)
Read(c, n, pop) ==
    /\ resizes' = IF pop THEN [resizes EXCEPT ![IdOf[c]] = FALSE] ELSE resizes
    /\ Write([sess EXCEPT ![c].typed = n,
                          ![c].held = IF pop THEN @ \cup {n} ELSE @],
             c, Item(n, pop))

Type(c) ==
    /\ Listening(c) /\ sess[c].kind # "logs" /\ sess[c].typed < Chunks[c]
    /\ Read(c, sess[c].typed + 1, sess[c].kind = "attach" /\ resizes[IdOf[c]])
    /\ UNCHANGED <<vm, conn, exec>>

(* 'end' of the client's socket: writeEnd, the last item of what it sends. *)
ClientEnds(c) ==
    /\ Listening(c) /\ sess[c].typed <= Chunks[c]
    /\ Read(c, Chunks[c] + 1, FALSE)
    /\ UNCHANGED <<vm, conn, exec>>

(* What the client of an attach that is over still sends, its 'end' in     *)
(* answer to ours for one, is written to the connection that was ended     *)
(* with it: another session may have made that connection.                 *)
SentAfterEnd(c) ==
    /\ At(c, "attach", "done") /\ sess[c].ended /\ sess[c].owner # None
    /\ ~ Writable(sess[c].owner) /\ HearError(sess, sess[c].owner)
    /\ resizes' \in {resizes, [resizes EXCEPT ![IdOf[c]] = FALSE]}
    /\ UNCHANGED <<vm, conn, exec, wire>>

Flush(c) ==
    /\ \E n \in sess[c].held :
        Write([sess EXCEPT ![c].held = @ \ {n}], c, Item(n, FALSE))
    /\ UNCHANGED <<vm, conn, exec, resizes>>

ContainerResize(i) ==
    /\ ~ resizes[i]
    /\ resizes' = [resizes EXCEPT ![i] = TRUE]
    /\ UNCHANGED <<vm, sess, conn, attach, exec, wire>>

(* execResize writes to the exec's own connection, which may have ended.   *)
ExecResize(c) ==
    /\ exec[c] = "held" /\ conn[c].state # "none" /\ ~ Writable(c)
    /\ HearError(sess, c)
    /\ UNCHANGED <<vm, conn, exec, resizes, wire>>

-----------------------------------------------------------------------------
(* waitContainer, for docker wait and at the end of an attach.             *)

Wait(c) ==
    /\ At(c, "wait", "idle")
    /\ sess' = [sess EXCEPT ![c].pc = "waiting"]
    /\ UNCHANGED <<vm, conn, attach, exec, resizes, wire>>

Waited(c) ==
    IF sess[c].kind = "wait"
    THEN /\ sess' = [sess EXCEPT ![c].pc = "done"]
         /\ UNCHANGED <<conn, attach>>
    ELSE /\ sess' = Finished(sess, c, FALSE)
         /\ attach' = EntriesAfter(c, FALSE)
         /\ conn' = [conn EXCEPT ![sess[c].owner].fin = TRUE]

(* Once stopped is seen, the exit status is waited for WaitLimit polls.    *)
(* Mutant: one poll more, the counter compared after it was taken down.    *)
PollVmOnceMore(c) ==
    /\ sess[c].pc = "waiting"
    /\ LET stopped == sess[c].stopped \/ vm.state = "stopped"
       IN  IF stopped /\ (vm.exit \/ sess[c].iterations = 0) THEN Waited(c)
           ELSE /\ sess' = [sess EXCEPT ![c].stopped = stopped,
                                ![c].iterations = IF stopped THEN @ - 1 ELSE @]
                /\ UNCHANGED <<conn, attach>>
    /\ UNCHANGED <<vm, exec, resizes, wire>>
PollVm(c) ==
    /\ sess[c].pc = "waiting"
    /\ LET stopped == sess[c].stopped \/ vm.state = "stopped"
       IN  IF stopped /\ (vm.exit \/ sess[c].iterations = 1) THEN Waited(c)
           ELSE /\ sess' = [sess EXCEPT ![c].stopped = stopped,
                                ![c].iterations = IF stopped THEN @ - 1 ELSE @]
                /\ UNCHANGED <<conn, attach>>
    /\ UNCHANGED <<vm, exec, resizes, wire>>

(* VMAPI answers with an error: docker wait passes it on, an attach is     *)
(* never called back (only its line parser is ended).                      *)
PollVmFails(c) ==
    /\ sess[c].pc = "waiting"
    /\ sess' = [sess EXCEPT ![c].pc = IF sess[c].kind = "wait" THEN "done"
                                      ELSE "hung"]
    /\ UNCHANGED <<vm, conn, attach, exec, resizes, wire>>

(* VMAPI's container.                                                      *)
VmStops ==
    /\ vm.state = "running"
    /\ vm' = [vm EXCEPT !.state = "stopped"]
VmExitStatus ==
    /\ vm.state = "stopped" /\ ~ vm.exit
    /\ vm' = [vm EXCEPT !.exit = TRUE]
VmStarts ==
    /\ vm.state = "stopped"
    /\ vm' = [state |-> "running", exit |-> FALSE]

StreamStep(c) ==
    \/ Attach(c) \/ OtherStream(c) \/ SocketCreated(c) \/ CreateSocketFails(c)
    \/ ExecStart(c) \/ ExecNotStarted(c) \/ ExecInspect(c) \/ ExecResize(c)
    \/ Connect(c) \/ AgentCloses(c) \/ ConnectionFails(c) \/ ClientFails(c)
    \/ ClientTimesOut(c) \/ StatsClientEnds(c)
    \/ Type(c) \/ ClientEnds(c) \/ SentAfterEnd(c) \/ Flush(c)
    \/ Wait(c) \/ PollVm(c) \/ PollVmFails(c)

NextStreams ==
    \/ \E c \in Clients : StreamStep(c)
    \/ \E i \in Ids : ContainerResize(i)

(* The sockets and timers of the process are served; cn-agent closes the   *)
(* connection of a container that has stopped, and one whose other half    *)
(* was ended.                                                              *)
StreamFairness ==
    \A c \in Clients :
        /\ WF_vars(SocketCreated(c) \/ CreateSocketFails(c))
        /\ WF_vars(Connect(c) \/ ConnectionFails(c))
        /\ WF_vars((vm.state = "stopped" \/ conn[c].fin) /\ AgentCloses(c))
        /\ WF_vars(PollVm(c) \/ PollVmFails(c))
        /\ WF_vars(Flush(c))

-----------------------------------------------------------------------------
(* A connection that sockets.attach holds belongs to a session that has    *)
(* not ended: whatever way a session ends, the clients that attach later   *)
(* do not join what it left (_runAttach, attachContainer).                 *)
EntryOfLiveSession ==
    \A i \in Ids : attach[i] # None => Unfinished(attach[i])

(* What a client types, and its end after it, reach its connection once,   *)
(* and in order unless a chunk is held back for a resize, which it never   *)
(* overtakes (onData).                                                     *)
Sent(c, n, resize) ==
    {i \in DOMAIN wire[c] : wire[c][i] = Item(n, resize)}
InputInOrder ==
    \A c \in Clients : \A n \in 1 .. Chunks[c] + 1 : \A i \in Sent(c, n, FALSE) :
        /\ Sent(c, n, FALSE) = {i} /\ n \notin sess[c].held
        /\ \A j \in Sent(c, n, TRUE) : j < i
        /\ \A m \in 1 .. (n - 1) : \A j \in Sent(c, m, FALSE) :
                j > i => Sent(c, m, TRUE) # {}

(* An attach session that joined while its connection was open ends once   *)
(* the container has stopped for good, however the session came by the     *)
(* connection, unless VMAPI failed it (_endSocket, waitContainer).         *)
SessionsEnd ==
    \A c \in Clients :
        <>[](vm.state = "stopped")
            => (sess[c].kind = "attach" /\ sess[c].live
                    ~> sess[c].pc \in {"done", "hung"})
=============================================================================
