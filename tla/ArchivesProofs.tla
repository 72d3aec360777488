---------------------------- MODULE ArchivesProofs ----------------------------
(***************************************************************************)
(* Proofs about Archives and the Sessions beside it, for any clients, any  *)
(* requests, any chunks typed and any number of attaches under one id.     *)
(***************************************************************************)
EXTENDS Archives, TLAPS

-----------------------------------------------------------------------------
(* docker cp: the tickets of the waitlist.                                 *)

In(q, c) == \E i \in DOMAIN q : q[i] = c
Unique(q) == \A i, j \in DOMAIN q : q[i] = q[j] => i = j
First(q, c) == 1 \in DOMAIN q /\ q[1] = c

(* What a copy has of its turn at each step, and when it may be in the     *)
(* queue.                                                                  *)
HasTurn(c) == copy[c].expired \/ First(queue, c)
TicketOf(c) ==
    /\ copy[c].pc = "idle" => ~Queued(c) /\ ~copy[c].ticket
    /\ copy[c].pc \in {"waitTicket", "dockerCopy", "connecting", "streaming"}
          => copy[c].ticket
    /\ copy[c].pc \in {"dockerCopy", "connecting", "streaming"} => HasTurn(c)
    /\ copy[c].pc = "done" /\ Queued(c) => copy[c].kept \/ copy[c].thrown

CopiesTyped == copy \in [Clients -> CopyType] /\ queue \in Seq(Clients)
TicketsInv ==
    CopiesTyped /\ Unique(queue) /\ \A c \in Copies : TicketOf(c)

LEMMA LeaveIsOne ==
    ASSUME NEW q \in Seq(Clients), Unique(q), NEW c \in Clients
    PROVE  /\ Leave(q, c) \in Seq(Clients) /\ Unique(Leave(q, c))
           /\ \A d \in Clients : In(Leave(q, c), d) <=> In(q, d) /\ d # c
           /\ \A d \in Clients : First(q, d) /\ d # c => First(Leave(q, c), d)
<1>1. CASE ~In(q, c)
  BY <1>1 DEF Leave, In
<1>2. CASE In(q, c)
  <2> DEFINE p == CHOOSE i \in DOMAIN q : q[i] = c
             l == [i \in 1 .. (Len(q) - 1) |-> IF i < p THEN q[i] ELSE q[i + 1]]
  <2>1. p \in 1..Len(q) /\ q[p] = c /\ Len(q) \in Nat /\ Len(q) > 0
    BY <1>2 DEF In
  <2>2. Leave(q, c) = l
    BY <1>2 DEF Leave, In
  <2> HIDE DEF p
  <2>3. l \in Seq(Clients) /\ Len(l) = Len(q) - 1
    BY <2>1
  <2>4. Unique(l)
    BY <2>1, <2>3 DEF Unique
  <2>5. ASSUME NEW d \in Clients PROVE In(l, d) <=> In(q, d) /\ d # c
    <3>1. In(l, d) => In(q, d) /\ d # c
      BY <2>1, <2>3 DEF Unique, In
    <3>2. ASSUME NEW i \in 1..Len(q), q[i] = d, d # c PROVE In(l, d)
      <4>1. CASE i < p
        BY <2>1, <2>3, <3>2, <4>1 DEF In
      <4>2. CASE i > p
        <5>1. i - 1 \in 1..Len(l) /\ l[i - 1] = d
          BY <2>1, <2>3, <3>2, <4>2
        <5> QED BY <2>3, <5>1 DEF In
      <4> QED BY <2>1, <3>2, <4>1, <4>2
    <3> QED BY <3>1, <3>2 DEF In
  <2>6. ASSUME NEW d \in Clients, First(q, d), d # c PROVE First(l, d)
    <3>1. p > 1 /\ q[1] = d
      BY <2>1, <2>6 DEF First
    <3> QED BY <2>1, <2>3, <3>1 DEF First
  <2> QED BY <2>2, <2>3, <2>4, <2>5, <2>6
<1> QED BY <1>1, <1>2

LEMMA TicketsStart ==
    ASSUME Init
    PROVE  TicketsInv
<1>1. queue = << >> /\ queue \in Seq(Clients) /\ Unique(queue)
  BY DEF Init, Unique
<1>2. CopiesTyped
  BY <1>1 DEF Init, CopiesTyped, CopyType
<1>3. \A c \in Copies : TicketOf(c)
  <2> SUFFICES ASSUME NEW c \in Copies PROVE TicketOf(c)
    OBVIOUS
  <2>1. copy[c].pc = "idle" /\ copy[c].ticket = FALSE
    BY DEF Init, Copies
  <2>2. ~Queued(c)
    BY <1>1 DEF Queued
  <2> QED BY <2>1, <2>2 DEF TicketOf
<1> QED BY <1>1, <1>2, <1>3 DEF TicketsInv

(* The handler writes its copy, and no other.                              *)
LEMMA SetOne ==
    ASSUME CopiesTyped, NEW c \in Clients, NEW s \in CopyType, Set(c, s)
    PROVE  /\ copy' \in [Clients -> CopyType] /\ copy'[c] = s
           /\ \A d \in Clients : d # c => copy'[d] = copy[d]
  BY DEF Set, CopiesTyped

(* A step of a copy leaves those of the others what they had.              *)
OthersQueued(c) ==
    \A d \in Clients : d # c =>
        /\ In(queue', d) <=> In(queue, d)
        /\ First(queue, d) => First(queue', d)

LEMMA TicketsMoved ==
    ASSUME TicketsInv, NEW c \in Copies, UNCHANGED sess,
           NEW s \in CopyType, Set(c, s), OthersQueued(c),
           queue' \in Seq(Clients), Unique(queue'),
           s.pc = "idle" => ~In(queue', c) /\ ~s.ticket,
           s.pc \in {"waitTicket", "dockerCopy", "connecting", "streaming"} => s.ticket,
           s.pc \in {"dockerCopy", "connecting", "streaming"}
              => s.expired \/ First(queue', c),
           s.pc = "done" /\ In(queue', c) => s.kept \/ s.thrown
    PROVE  TicketsInv'
<1>1. /\ c \in Clients /\ copy' \in [Clients -> CopyType] /\ copy'[c] = s
      /\ \A d \in Clients : d # c => copy'[d] = copy[d]
      /\ Copies' = Copies /\ Copies \subseteq Clients
  BY SetOne DEF TicketsInv, Copies
<1>2. TicketOf(c)'
  BY <1>1 DEF TicketOf, HasTurn, Queued, In
<1>3. ASSUME NEW d \in Copies, d # c PROVE TicketOf(d)'
  <2>0. d \in Clients
    BY <1>3 DEF Copies
  <2>1. copy'[d] = copy[d] /\ TicketOf(d)
    BY <1>1, <1>3, <2>0 DEF TicketsInv
  <2>2. (In(queue', d) <=> In(queue, d)) /\ (First(queue, d) => First(queue', d))
    BY <1>3, <2>0 DEF OthersQueued
  <2> QED BY <2>1, <2>2 DEF TicketOf, HasTurn, Queued, In
<1> QED BY <1>1, <1>2, <1>3 DEF TicketsInv, CopiesTyped

LEMMA TicketsKept ==
    ASSUME TicketsInv, NEW c \in Clients, ArchiveStep(c), UNCHANGED sess
    PROVE  TicketsInv'
<1>0. /\ c \in Copies /\ TicketOf(c) /\ Unique(queue) /\ CopiesTyped
      /\ copy[c] \in CopyType /\ queue \in Seq(Clients)
  BY DEF ArchiveStep, CreateTicket, CreateTicketFails, TicketActive, TicketWaitFails,
     DockerCopy, DockerCopyFails, ArchiveConnects, StreamCloses, StreamThrows, Release,
     ReleaseFails, Expire, CopyAt, Copies, TicketsInv, CopiesTyped
<1>1. CASE CreateTicket(c)
  <2> DEFINE s == [copy[c] EXCEPT !.pc = "waitTicket", !.ticket = TRUE]
  <2>1. queue' = Append(queue, c) /\ ~In(queue, c)
    BY <1>0, <1>1 DEF CreateTicket, TicketOf, CopyAt, Queued, In
  <2>2. queue' \in Seq(Clients) /\ Unique(queue') /\ OthersQueued(c)
    BY <1>0, <2>1 DEF Unique, In, First, OthersQueued
  <2>3. s \in CopyType /\ s.pc = "waitTicket" /\ s.ticket
    BY <1>0 DEF CopyType
  <2>4. Set(c, s)
    BY <1>1 DEF CreateTicket
  <2> QED BY <1>0, <2>2, <2>3, <2>4, TicketsMoved
<1>2. CASE Release(c) \/ Expire(c)
  <2>1. queue' = Leave(queue, c)
    BY <1>2 DEF Release, Expire
  <2>2. /\ queue' \in Seq(Clients) /\ Unique(queue') /\ ~In(queue', c)
        /\ OthersQueued(c)
    BY <1>0, <2>1, LeaveIsOne DEF OthersQueued
  <2>3. CASE Release(c)
    <3> DEFINE s == [copy[c] EXCEPT !.pc = "done", !.ticket = FALSE, !.answered = TRUE]
    <3>1. s \in CopyType /\ s.pc = "done"
      BY <1>0 DEF CopyType
    <3>2. Set(c, s)
      BY <2>3 DEF Release
    <3> QED BY <1>0, <2>2, <3>1, <3>2, TicketsMoved
  <2>4. CASE Expire(c)
    <3> DEFINE s == [copy[c] EXCEPT !.expired = TRUE]
    <3>1. /\ s \in CopyType /\ s.pc = copy[c].pc /\ s.ticket = copy[c].ticket
          /\ s.expired
      BY <1>0 DEF CopyType
    <3>2. Set(c, s) /\ Queued(c)
      BY <2>4 DEF Expire
    <3> QED BY <1>0, <2>2, <3>1, <3>2, TicketsMoved DEF TicketOf
  <2> QED BY <1>2, <2>3, <2>4
<1>3. ASSUME UNCHANGED queue,
             NEW s \in CopyType, Set(c, s), s.expired = copy[c].expired,
             s.pc # "idle",
             s.pc \in {"waitTicket", "dockerCopy", "connecting", "streaming"} => s.ticket,
             s.pc \in {"dockerCopy", "connecting", "streaming"} => HasTurn(c),
             s.pc = "done" /\ Queued(c) => s.kept \/ s.thrown
      PROVE  TicketsInv'
  BY <1>0, <1>3, TicketsMoved DEF OthersQueued, HasTurn, Queued, In
<1>4. CASE CreateTicketFails(c) \/ TicketWaitFails(c) \/ DockerCopyFails(c)
  <2> DEFINE s == [copy[c] EXCEPT !.pc = "release"]
             t == [copy[c] EXCEPT !.pc = "done", !.answered = sess[c].kind # "read"]
  <2>1. /\ s \in CopyType /\ s.pc = "release" /\ s.expired = copy[c].expired
        /\ t \in CopyType /\ t.pc = "done" /\ t.expired = copy[c].expired
    BY <1>0 DEF CopyType
  <2>2. UNCHANGED queue /\ Set(c, IF copy[c].ticket THEN s ELSE t)
    BY <1>4 DEF CreateTicketFails, TicketWaitFails, DockerCopyFails, Fail
  <2>3. copy[c].ticket \/ ~Queued(c)
    BY <1>0, <1>4 DEF CreateTicketFails, TicketWaitFails, DockerCopyFails, CopyAt, TicketOf
  <2> HIDE DEF s, t
  <2>4. CASE copy[c].ticket
    BY <1>3, <2>1, <2>2, <2>4
  <2>5. CASE ~copy[c].ticket
    BY <1>3, <2>1, <2>2, <2>3, <2>5
  <2> QED BY <2>4, <2>5
<1>5. CASE TicketActive(c) \/ DockerCopy(c) \/ ArchiveConnects(c) \/ StreamCloses(c)
  <2>1. ASSUME NEW pc \in {"dockerCopy", "connecting", "streaming", "release"}
        PROVE  LET s == [copy[c] EXCEPT !.pc = pc]
               IN  /\ s \in CopyType /\ s.pc = pc /\ s.expired = copy[c].expired
                   /\ s.ticket = copy[c].ticket
    BY <1>0 DEF CopyType
  <2>2. UNCHANGED queue /\ copy[c].ticket
        /\ \E pc \in {"dockerCopy", "connecting", "streaming", "release"} :
              /\ Set(c, [copy[c] EXCEPT !.pc = pc])
              /\ pc # "release" => HasTurn(c)
    BY <1>0, <1>5 DEF TicketActive, DockerCopy, ArchiveConnects, StreamCloses,
       CopyAt, TicketOf, HasTurn, First
  <2> QED BY <1>3, <2>1, <2>2
<1>6. CASE StreamThrows(c)
  <2> DEFINE s == [copy[c] EXCEPT !.pc = "done", !.thrown = TRUE]
  <2>1. s \in CopyType /\ s.pc = "done" /\ s.expired = copy[c].expired /\ s.thrown
    BY <1>0 DEF CopyType
  <2>2. UNCHANGED queue /\ Set(c, s)
    BY <1>6 DEF StreamThrows
  <2> QED BY <1>3, <2>1, <2>2
<1>7. CASE ReleaseFails(c)
  <2> DEFINE s == [copy[c] EXCEPT !.pc = "done", !.ticket = FALSE,
                                  !.answered = TRUE, !.kept = TRUE]
  <2>1. s \in CopyType /\ s.pc = "done" /\ s.expired = copy[c].expired /\ s.kept
    BY <1>0 DEF CopyType
  <2>2. UNCHANGED queue /\ Set(c, s)
    BY <1>7 DEF ReleaseFails
  <2> QED BY <1>3, <2>1, <2>2
<1> QED BY <1>1, <1>2, <1>4, <1>5, <1>6, <1>7 DEF ArchiveStep

-----------------------------------------------------------------------------
(* The streams: the inductive invariant.                                   *)

Pcs == {"idle", "createSocket", "created", "connecting", "attached",
        "waiting", "hung", "done"}
Undialled == {"idle", "createSocket", "created"}
Live == {"connecting", "attached", "waiting", "hung"}

(* A connection that nothing can be written to again.                      *)
Dead(o) == conn[o].state = "closed" \/ conn[o].fin

(* A request makes its connection once, and until its session is attached  *)
(* nothing has been typed.                                                 *)
FreshOf(c) ==
    /\ sess[c].pc \in Undialled => conn[c].state = "none"
    /\ sess[c].pc = "connecting" => sess[c].owner = c /\ conn[c].state # "none"
    /\ sess[c].pc \in Undialled \cup {"connecting"} =>
         wire[c] = << >> /\ sess[c].held = {} /\ sess[c].typed = 0

(* While a client is read, nothing has been written beyond what it typed.  *)
(* An attach is read while it waits for the container.                     *)
Reads(r) ==
    \/ r.pc = "attached"
    \/ r.kind = "attach" /\ r.pc \in {"waiting", "hung"}
TypingOf(c) ==
    Reads(sess[c]) =>
        /\ sess[c].owner \in Clients /\ conn[sess[c].owner].state # "none"
        /\ sess[c].kind # "attach" => sess[c].owner = c
        /\ \A i \in DOMAIN wire[c] : wire[c][i].chunk <= sess[c].typed
        /\ \A n \in sess[c].held : n <= sess[c].typed

(* Where a chunk, or the resize ahead of it, is among what was written.    *)
SentIn(w, n, resize) == {i \in DOMAIN w : w[i] = Item(n, resize)}

(* A chunk that is held was not written, and its resize was, unless the    *)
(* connection was over.                                                    *)
HeldOf(c) ==
    \A n \in sess[c].held :
        /\ SentIn(wire[c], n, FALSE) = {}
        /\ sess[c].owner \in Clients
        /\ SentIn(wire[c], n, TRUE) # {} \/ Dead(sess[c].owner)

(* InputInOrder, of every chunk there may be.                              *)
Ordered(w) ==
    \A n \in Nat \ {0} : \A i \in SentIn(w, n, FALSE) :
        /\ SentIn(w, n, FALSE) = {i}
        /\ \A j \in SentIn(w, n, TRUE) : j < i
        /\ \A m \in 1 .. (n - 1) : \A j \in SentIn(w, m, FALSE) :
                j > i => SentIn(w, m, TRUE) # {}

(* An entry of sockets.attach is that of an attach under its id.           *)
EntryOf(i) ==
    attach[i] # None =>
        /\ sess[attach[i]].pc \in Live /\ conn[attach[i]].state # "none"
        /\ sess[attach[i]].kind = "attach" /\ IdOf[attach[i]] = i

ClientInv(c) == FreshOf(c) /\ TypingOf(c) /\ HeldOf(c) /\ Ordered(wire[c])
StreamsInv ==
    TypeOK /\ (\A c \in Clients : ClientInv(c)) /\ \A i \in Ids : EntryOf(i)

LEMMA StreamsStart == ASSUME InitStreams PROVE StreamsInv
<1> USE SessionsAssumption DEF InitStreams
<1>1. PICK k \in Scenarios : sess = [c \in Clients |-> NewSession(k[c])]
  OBVIOUS
<1>2. ASSUME NEW c \in Clients
      PROVE  /\ NewSession(k[c]) \in SessionType /\ sess[c].pc = "idle"
             /\ sess[c].held = {} /\ sess[c].typed = 0
  BY <1>1 DEF NewSession, SessionType
<1>3. TypeOK
  BY <1>1, <1>2 DEF TypeOK, VmType, ConnType
<1>4. ASSUME NEW c \in Clients PROVE ClientInv(c)
  <2>1. wire[c] = << >> /\ conn[c].state = "none"
    OBVIOUS
  <2>2. Ordered(wire[c])
    BY <2>1 DEF Ordered, SentIn
  <2> QED BY <1>2, <2>1, <2>2 DEF ClientInv, FreshOf, TypingOf, HeldOf, Reads
<1>5. \A i \in Ids : EntryOf(i)
  BY DEF EntryOf
<1> QED BY <1>3, <1>4, <1>5 DEF StreamsInv

-----------------------------------------------------------------------------
(* What the actions do to the record of one session.                       *)

SameSession(r, s) ==
    s.kind = r.kind /\ s.held = r.held /\ s.owner = r.owner /\ s.typed = r.typed

LEMMA PcRecord ==
    ASSUME NEW r \in SessionType, NEW pc \in Pcs
    PROVE  LET s == [r EXCEPT !.pc = pc]
           IN  s \in SessionType /\ SameSession(r, s) /\ s.pc = pc
  BY DEF SessionType, Pcs, SameSession

Owned(r, pc, o, live) == [r EXCEPT !.pc = pc, !.owner = o, !.live = live]
OwnedIs(r, pc, o, s) ==
    /\ s \in SessionType /\ s.pc = pc /\ s.owner = o
    /\ s.kind = r.kind /\ s.held = r.held /\ s.typed = r.typed

LEMMA OwnerRecord ==
    ASSUME NEW r \in SessionType, NEW pc \in Pcs, NEW o \in Clients,
           NEW live \in BOOLEAN
    PROVE  OwnedIs(r, pc, o, Owned(r, pc, o, live))
<1> DEFINE s == [r EXCEPT !.pc = pc, !.owner = o, !.live = live]
<1>1. /\ s \in SessionType /\ s.pc = pc /\ s.owner = o
      /\ s.kind = r.kind /\ s.held = r.held /\ s.typed = r.typed
  BY DEF SessionType, Pcs
<1> QED BY <1>1 DEF Owned, OwnedIs

LEMMA PolledRecord ==
    ASSUME NEW r \in SessionType, NEW b \in BOOLEAN, NEW i \in 1 .. WaitLimit
    PROVE  LET s == [r EXCEPT !.stopped = b, !.iterations = i]
           IN  s \in SessionType /\ SameSession(r, s) /\ s.pc = r.pc
  BY DEF SessionType, SameSession

FinishedAs(r, ended) ==
    [NewSession(r.kind) EXCEPT
        !.pc = "done", !.owner = r.owner, !.held = r.held, !.ended = ended]
FinishedRecord(r, err) ==
    FinishedAs(r, r.ended \/ ~ err \/ r.kind # "exec")

LEMMA FinishedAsIs ==
    ASSUME NEW r \in SessionType, NEW ended \in BOOLEAN
    PROVE  LET s == FinishedAs(r, ended)
           IN  /\ s \in SessionType /\ s.pc = "done" /\ s.kind = r.kind
               /\ s.owner = r.owner /\ s.held = r.held
<1>1. NewSession(r.kind) \in SessionType /\ NewSession(r.kind).kind = r.kind
  BY SessionsAssumption DEF NewSession, SessionType
<1>2. r.owner \in Clients \cup {None} /\ r.held \in SUBSET (Nat \ {0})
  BY DEF SessionType
<1> DEFINE n == NewSession(r.kind)
           s == [n EXCEPT !.pc = "done", !.owner = r.owner, !.held = r.held,
                          !.ended = ended]
<1>3. n \in SessionType
  BY <1>1
<1> HIDE DEF n
<1>4. /\ s \in SessionType /\ s.pc = "done" /\ s.kind = n.kind
      /\ s.owner = r.owner /\ s.held = r.held
  BY <1>2, <1>3 DEF SessionType
<1>5. FinishedAs(r, ended) = s
  BY DEF FinishedAs, n
<1> HIDE DEF s
<1> QED BY <1>1, <1>4, <1>5 DEF n

LEMMA FinishedRecordIs ==
    ASSUME NEW r \in SessionType, NEW err \in BOOLEAN
    PROVE  LET s == FinishedRecord(r, err)
           IN  /\ s \in SessionType /\ s.pc = "done" /\ s.kind = r.kind
               /\ s.owner = r.owner /\ s.held = r.held
<1> DEFINE ended == r.ended \/ ~ err \/ r.kind # "exec"
<1>1. ended \in BOOLEAN
  BY DEF SessionType
<1> HIDE DEF ended
<1>2. LET s == FinishedAs(r, ended)
      IN  /\ s \in SessionType /\ s.pc = "done" /\ s.kind = r.kind
          /\ s.owner = r.owner /\ s.held = r.held
  BY <1>1, FinishedAsIs
<1> QED BY <1>2 DEF FinishedRecord, ended

SessTyped == sess \in [Clients -> SessionType]
Put(c, s) == sess' = [sess EXCEPT ![c] = s]

LEMMA PutOne ==
    ASSUME SessTyped, NEW c \in Clients, NEW s \in SessionType, Put(c, s)
    PROVE  /\ SessTyped' /\ sess'[c] = s
           /\ \A d \in Clients : d # c => sess'[d] = sess[d]
  BY DEF SessTyped, Put

LEMMA PcPut ==
    ASSUME SessTyped, NEW c \in Clients, NEW pc, sess' = [sess EXCEPT ![c].pc = pc]
    PROVE  Put(c, [sess[c] EXCEPT !.pc = pc])
  BY DEF SessTyped, Put

LEMMA PolledPut ==
    ASSUME SessTyped, NEW c \in Clients, NEW b, NEW i,
           sess' = [sess EXCEPT ![c].stopped = b, ![c].iterations = i]
    PROVE  Put(c, [sess[c] EXCEPT !.stopped = b, !.iterations = i])
  BY DEF SessTyped, Put

LEMMA FinishedPut ==
    ASSUME SessTyped, NEW c \in Clients, NEW err, sess' = Finished(sess, c, err)
    PROVE  Put(c, FinishedRecord(sess[c], err))
  BY DEF SessTyped, Put, Finished, FinishedRecord, FinishedAs

-----------------------------------------------------------------------------
(* A step that types nothing: what it does to any session ...              *)
QuietRecord(d, r, s) ==
    /\ s.kind = r.kind /\ s.held = r.held
    /\ \/ s.pc = r.pc /\ s.owner = r.owner /\ s.typed = r.typed
       \/ s.pc = "done" /\ s.owner = r.owner
       \/ /\ s.pc \in {"waiting", "hung"} /\ s.owner = r.owner
          /\ Reads(s) => Reads(r) /\ s.typed = r.typed
       \/ /\ s.pc \in Undialled /\ r.pc \in Undialled
          /\ s.owner = r.owner /\ s.typed = r.typed
       \/ /\ s.pc = "connecting" /\ r.pc \in Undialled
          /\ s.owner = d /\ conn'[d].state # "none" /\ s.typed = r.typed
       \/ /\ s.pc = "attached" /\ r.pc \in Undialled \cup {"connecting"}
          /\ s.owner \in Clients /\ conn[s.owner].state # "none"
          /\ s.kind # "attach" => s.owner = d
          /\ s.typed = r.typed
Quiet(d) == QuietRecord(d, sess[d], sess'[d])

(* ... to any connection ...                                               *)
ConnsGrow ==
    \A o \in Clients :
        /\ conn[o].state # "none" => conn'[o].state # "none"
        /\ conn'[o].state # "none" =>
              conn[o].state # "none" \/ sess'[o].pc = "connecting"
        /\ Dead(o) => Dead(o)'

(* ... and to any entry.                                                   *)
EntriesLive ==
    \A i \in Ids : attach'[i] # None =>
        /\ sess'[attach'[i]].pc \in Live /\ conn'[attach'[i]].state # "none"
        /\ \/ attach'[i] = attach[i]
           \/ sess'[attach'[i]].kind = "attach" /\ IdOf[attach'[i]] = i

LEMMA QuietKeeps ==
    ASSUME StreamsInv, NEW c \in Clients, Quiet(c), wire'[c] = wire[c],
           TypeOK', ConnsGrow
    PROVE  ClientInv(c)'
<1>0. /\ ClientInv(c) /\ sess[c] \in SessionType /\ sess'[c] \in SessionType
      /\ sess[c].owner \in Clients \cup {None}
  BY DEF StreamsInv, TypeOK, SessionType
<1>1. FreshOf(c)'
  BY <1>0 DEF Quiet, QuietRecord, ConnsGrow, ClientInv, FreshOf, Undialled
<1>2. TypingOf(c)'
  BY <1>0 DEF Quiet, QuietRecord, ConnsGrow, ClientInv, FreshOf, TypingOf, Undialled, Reads
<1>3. HeldOf(c)'
  <2>1. sess[c].held # {} => sess'[c].owner = sess[c].owner
    BY <1>0 DEF ClientInv, FreshOf, Quiet, QuietRecord, Undialled
  <2>2. sess'[c].held = sess[c].held
    BY DEF Quiet, QuietRecord
  <2> QED BY <1>0, <2>1, <2>2 DEF ClientInv, HeldOf, ConnsGrow
<1>4. Ordered(wire[c])'
  BY <1>0 DEF ClientInv
<1> QED BY <1>1, <1>2, <1>3, <1>4 DEF ClientInv

QuietStep ==
    /\ TypeOK' /\ wire' = wire
    /\ (\A d \in Clients : Quiet(d)) /\ ConnsGrow /\ EntriesLive

LEMMA QuietStepKeeps == ASSUME StreamsInv, QuietStep PROVE StreamsInv'
<1>1. \A c \in Clients : ClientInv(c)'
  BY QuietKeeps DEF QuietStep
<1>2. ASSUME NEW i \in Ids PROVE EntryOf(i)'
  <2> SUFFICES ASSUME attach'[i] # None PROVE EntryOf(i)'
    BY DEF EntryOf
  <2>1. attach'[i] \in Clients
    BY DEF QuietStep, TypeOK
  <2>2. attach'[i] = attach[i] => sess'[attach'[i]].kind = "attach" /\ IdOf[attach'[i]] = i
    BY <2>1 DEF StreamsInv, EntryOf, QuietStep, Quiet, QuietRecord
  <2> QED BY <2>2 DEF QuietStep, EntriesLive, EntryOf
<1> QED BY <1>1, <1>2 DEF QuietStep, StreamsInv

(* A step of one session that makes no entry.                              *)
OthersStay(c) == \A d \in Clients : d # c => sess'[d] = sess[d]

LEMMA OneEntries ==
    ASSUME StreamsInv, NEW c \in Clients, OthersStay(c), ConnsGrow,
           \A i \in Ids : attach'[i] \in {attach[i], None},
           sess[c].kind = "attach" /\ sess[c].pc \in Live
              => sess'[c].pc \in Live \/ attach'[IdOf[c]] = None
    PROVE  EntriesLive
<1> SUFFICES ASSUME NEW i \in Ids, attach'[i] # None
             PROVE  /\ sess'[attach'[i]].pc \in Live /\ conn'[attach'[i]].state # "none"
                    /\ attach'[i] = attach[i]
  BY DEF EntriesLive
<1> DEFINE o == attach[i]
<1>1. /\ attach'[i] = o /\ o \in Clients /\ sess[o].pc \in Live /\ conn[o].state # "none"
      /\ sess[o].kind = "attach" /\ IdOf[o] = i
  BY DEF StreamsInv, EntryOf, TypeOK
<1>2. conn'[o].state # "none"
  BY <1>1 DEF ConnsGrow
<1>3. sess'[o].pc \in Live
  <2>1. CASE o = c
    BY <1>1, <2>1
  <2>2. CASE o # c
    BY <1>1, <2>2 DEF OthersStay
  <2> QED BY <2>1, <2>2
<1> QED BY <1>1, <1>2, <1>3

LEMMA OneSession ==
    ASSUME StreamsInv, NEW c \in Clients, NEW s \in SessionType, Put(c, s),
           QuietRecord(c, sess[c], s)
    PROVE  /\ SessTyped' /\ sess'[c] = s /\ OthersStay(c)
           /\ \A d \in Clients : Quiet(d)
<1>1. SessTyped
  BY DEF StreamsInv, TypeOK, SessTyped
<1>2. SessTyped' /\ sess'[c] = s /\ OthersStay(c)
  BY <1>1, PutOne DEF OthersStay
<1> QED BY <1>2 DEF Quiet, QuietRecord, OthersStay

(* ... and leaves the connections.                                         *)
LEMMA OneStep ==
    ASSUME StreamsInv, NEW c \in Clients, NEW s \in SessionType, Put(c, s),
           QuietRecord(c, sess[c], s), s.pc # "connecting" \/ s.pc = sess[c].pc,
           UNCHANGED <<vm, conn, exec, resizes, wire>>,
           attach' \in [Ids -> Clients \cup {None}],
           \A i \in Ids : attach'[i] \in {attach[i], None},
           sess[c].kind = "attach" /\ sess[c].pc \in Live
              => s.pc \in Live \/ attach'[IdOf[c]] = None
    PROVE  QuietStep
<1>1. SessTyped' /\ sess'[c] = s /\ OthersStay(c) /\ \A d \in Clients : Quiet(d)
  BY OneSession
<1>2. ConnsGrow
  BY DEF ConnsGrow, Dead
<1>3. EntriesLive
  BY <1>1, <1>2, OneEntries
<1>4. TypeOK'
  BY <1>1 DEF StreamsInv, TypeOK, SessTyped
<1> QED BY <1>1, <1>2, <1>3, <1>4 DEF QuietStep

-----------------------------------------------------------------------------
(* The actions that type nothing.                                          *)

LEMMA SessionsTyped ==
    ASSUME StreamsInv
    PROVE  /\ SessTyped /\ \A c \in Clients : sess[c] \in SessionType /\ ClientInv(c)
           /\ attach \in [Ids -> Clients \cup {None}]
           /\ conn \in [Clients -> ConnType]
           /\ \A c \in Clients : IdOf[c] \in Ids
  BY SessionsAssumption DEF StreamsInv, TypeOK, SessTyped

(* A step to another pc, and nothing else.                                 *)
LEMMA PcStep ==
    ASSUME StreamsInv, NEW c \in Clients, NEW pc \in Pcs,
           sess' = [sess EXCEPT ![c].pc = pc],
           \/ pc = "done"
           \/ /\ pc \in {"waiting", "hung"}
              /\ sess[c].kind = "attach" => Reads(sess[c])
           \/ pc \in Undialled /\ sess[c].pc \in Undialled,
           sess[c].kind = "attach" /\ sess[c].pc \in Live => pc \in Live,
           UNCHANGED <<vm, conn, attach, exec, resizes, wire>>
    PROVE  QuietStep
<1> DEFINE s == [sess[c] EXCEPT !.pc = pc]
<1>1. /\ s \in SessionType /\ SameSession(sess[c], s) /\ s.pc = pc
      /\ attach' \in [Ids -> Clients \cup {None}] /\ attach' = attach
  BY SessionsTyped, PcRecord
<1>2. Put(c, s)
  BY SessionsTyped, PcPut
<1> HIDE DEF s
<1>3. QuietRecord(c, sess[c], s)
  BY <1>1 DEF QuietRecord, SameSession, Reads
<1>4. pc # "connecting" /\ \A i \in Ids : attach'[i] \in {attach[i], None}
  BY <1>1 DEF Undialled
<1> QED BY <1>1, <1>2, <1>3, <1>4, OneStep

(* A session is called back, and its entry goes if it is an attach.        *)
LEMMA FinishAsStep ==
    ASSUME StreamsInv, NEW c \in Clients, NEW ended \in BOOLEAN,
           Put(c, FinishedAs(sess[c], ended)),
           \A i \in Ids : attach'[i] \in {attach[i], None},
           attach' \in [Ids -> Clients \cup {None}],
           sess[c].kind = "attach" => attach'[IdOf[c]] = None
    PROVE  /\ SessTyped' /\ sess'[c].pc = "done" /\ OthersStay(c)
           /\ \A d \in Clients : Quiet(d)
           /\ ConnsGrow => EntriesLive
<1> DEFINE s == FinishedAs(sess[c], ended)
<1>1. /\ s \in SessionType /\ s.pc = "done" /\ s.kind = sess[c].kind
      /\ s.owner = sess[c].owner /\ s.held = sess[c].held
  BY SessionsTyped, FinishedAsIs
<1>2. Put(c, s)
  OBVIOUS
<1> HIDE DEF s
<1>3. QuietRecord(c, sess[c], s)
  BY <1>1 DEF QuietRecord
<1>4. SessTyped' /\ sess'[c] = s /\ OthersStay(c) /\ \A d \in Clients : Quiet(d)
  BY <1>1, <1>2, <1>3, OneSession
<1> QED BY <1>1, <1>4, OneEntries

LEMMA FinishStep ==
    ASSUME StreamsInv, NEW c \in Clients, NEW err \in BOOLEAN,
           sess' = Finished(sess, c, err),
           \A i \in Ids : attach'[i] \in {attach[i], None},
           attach' \in [Ids -> Clients \cup {None}],
           sess[c].kind = "attach" => attach'[IdOf[c]] = None
    PROVE  /\ SessTyped' /\ sess'[c].pc = "done" /\ OthersStay(c)
           /\ \A d \in Clients : Quiet(d)
           /\ ConnsGrow => EntriesLive
<1> DEFINE ended == sess[c].ended \/ ~ err \/ sess[c].kind # "exec"
<1>1. ended \in BOOLEAN /\ Put(c, FinishedAs(sess[c], ended))
  BY SessionsTyped, FinishedPut DEF FinishedRecord, SessionType
<1> HIDE DEF ended
<1> QED BY <1>1, FinishAsStep

LEMMA EntriesAfterIs ==
    ASSUME StreamsInv, NEW c \in Clients, NEW err, attach' = EntriesAfter(c, err)
    PROVE  /\ \A i \in Ids : attach'[i] \in {attach[i], None}
           /\ attach' \in [Ids -> Clients \cup {None}]
           /\ sess[c].kind = "attach" => attach'[IdOf[c]] = None
  BY SessionsTyped DEF EntriesAfter

LEMMA FinConns ==
    ASSUME StreamsInv, NEW o, conn' = [conn EXCEPT ![o].fin = TRUE]
    PROVE  conn' \in [Clients -> ConnType] /\ ConnsGrow
  BY SessionsTyped DEF ConnType, ConnsGrow, Dead

LEMMA ClosedConns ==
    ASSUME StreamsInv, NEW o \in Clients, conn' = [conn EXCEPT ![o].state = "closed"],
           conn[o].state # "none"
    PROVE  conn' \in [Clients -> ConnType] /\ ConnsGrow
  BY SessionsTyped DEF ConnType, ConnsGrow, Dead

LEMMA TypeKept ==
    ASSUME StreamsInv, SessTyped', conn' \in [Clients -> ConnType],
           attach' \in [Ids -> Clients \cup {None}], UNCHANGED <<vm, exec, wire>>,
           resizes' = resizes \/ resizes' \in [Ids -> BOOLEAN]
    PROVE  TypeOK'
  BY DEF StreamsInv, TypeOK, SessTyped

LEMMA HearErrorQuiet ==
    ASSUME StreamsInv, NEW o \in Clients, HearError(sess, o),
           UNCHANGED <<vm, conn, exec, wire>>,
           resizes' = resizes \/ resizes' \in [Ids -> BOOLEAN]
    PROVE  QuietStep
<1>0. ConnsGrow /\ conn' \in [Clients -> ConnType]
  BY SessionsTyped DEF ConnsGrow, Dead
<1>1. CASE Unfinished(o)
  <2>1. sess' = Finished(sess, o, TRUE) /\ attach' = EntriesAfter(o, TRUE)
    BY <1>1 DEF HearError
  <2> QED BY <1>0, <2>1, FinishStep, EntriesAfterIs, TypeKept DEF QuietStep
<1>2. CASE ~Unfinished(o)
  <2>1. sess' = sess /\ attach' = attach
    BY <1>2 DEF HearError
  <2>2. EntriesLive
    BY <1>0, <2>1, SessionsTyped, OneEntries DEF OthersStay
  <2>3. \A d \in Clients : Quiet(d)
    BY <2>1 DEF Quiet, QuietRecord
  <2> QED BY <1>0, <2>1, <2>2, <2>3, SessionsTyped, TypeKept DEF QuietStep, SessTyped
<1> QED BY <1>1, <1>2

LEMMA AttachQuiet ==
    ASSUME StreamsInv, NEW c \in Clients, Attach(c)
    PROVE  QuietStep
<1> DEFINE o == attach[IdOf[c]]
           s == [sess[c] EXCEPT !.pc = "createSocket"]
           t == Owned(sess[c], "attached", o, conn[o].state # "closed")
<1>0. /\ sess[c] \in SessionType /\ At(c, "attach", "idle") /\ attach' = attach
      /\ UNCHANGED <<vm, conn, exec, resizes, wire>>
  BY SessionsTyped DEF Attach
<1>1. CASE o = None
  <2>1. s \in SessionType /\ SameSession(sess[c], s) /\ s.pc = "createSocket"
    BY <1>0, PcRecord DEF Pcs
  <2>2. Put(c, s)
    BY <1>1 DEF Attach, Put
  <2> HIDE DEF s
  <2>3. QuietRecord(c, sess[c], s)
    BY <1>0, <2>1 DEF QuietRecord, SameSession, Undialled, At
  <2> QED BY <1>0, <2>1, <2>2, <2>3, SessionsTyped, OneStep DEF At, Live
<1>2. CASE o # None
  <2>1. o \in Clients /\ conn[o].state # "none"
    BY <1>2, SessionsTyped DEF StreamsInv, EntryOf
  <2>2. /\ t \in SessionType /\ t.pc = "attached" /\ t.owner = o
        /\ t.kind = sess[c].kind /\ t.held = sess[c].held /\ t.typed = sess[c].typed
    <3>1. "attached" \in Pcs /\ (conn[o].state # "closed") \in BOOLEAN
      BY DEF Pcs
    <3> HIDE DEF o
    <3>2. OwnedIs(sess[c], "attached", o, t)
      BY <1>0, <2>1, <3>1, OwnerRecord, Zenon
    <3> HIDE DEF t
    <3> QED BY <3>2 DEF OwnedIs
  <2>3. Put(c, t)
    BY <1>2 DEF Attach, Put, Owned
  <2> HIDE DEF t
  <2>4. QuietRecord(c, sess[c], t)
    BY <1>0, <2>1, <2>2 DEF QuietRecord, Undialled, At
  <2> QED BY <1>0, <2>2, <2>3, <2>4, SessionsTyped, OneStep DEF At, Live
<1> QED BY <1>1, <1>2

(* A session connects: the one step that makes an entry.                   *)
LEMMA DialQuiet ==
    ASSUME StreamsInv, NEW c \in Clients, Dial(c), sess[c].pc \in Undialled,
           UNCHANGED <<vm, resizes, wire>>,
           exec' \in [Clients -> {"none", "held", "inspected"}],
           \/ attach' = attach
           \/ sess[c].kind = "attach" /\ attach' = [attach EXCEPT ![IdOf[c]] = c]
    PROVE  QuietStep
<1> DEFINE s == Owned(sess[c], "connecting", c, TRUE)
<1>0. conn[c].state = "none"
  BY SessionsTyped DEF ClientInv, FreshOf
<1>1. /\ s \in SessionType /\ s.pc = "connecting" /\ s.owner = c
      /\ s.kind = sess[c].kind /\ s.held = sess[c].held /\ s.typed = sess[c].typed
  <2>1. "connecting" \in Pcs /\ TRUE \in BOOLEAN /\ sess[c] \in SessionType
    BY SessionsTyped DEF Pcs
  <2>2. OwnedIs(sess[c], "connecting", c, s)
    BY <2>1, OwnerRecord, Zenon
  <2> HIDE DEF s
  <2> QED BY <2>2 DEF OwnedIs
<1>2. Put(c, s)
  BY DEF Dial, Put, Owned
<1> HIDE DEF s
<1>3. /\ conn' \in [Clients -> ConnType] /\ conn'[c].state = "connecting"
      /\ conn'[c].fin = conn[c].fin
      /\ \A o \in Clients : o # c => conn'[o] = conn[o]
  BY SessionsTyped DEF Dial, ConnType
<1>4. QuietRecord(c, sess[c], s)
  BY <1>1, <1>3 DEF QuietRecord
<1>5. SessTyped' /\ sess'[c] = s /\ OthersStay(c) /\ \A d \in Clients : Quiet(d)
  BY <1>1, <1>2, <1>4, OneSession
<1>6. ConnsGrow
  BY <1>0, <1>1, <1>3, <1>5 DEF ConnsGrow, Dead
<1>7. EntriesLive
  <2>1. CASE attach' = attach
    BY <1>1, <1>5, <1>6, <2>1, SessionsTyped, OneEntries DEF Live
  <2>2. CASE sess[c].kind = "attach" /\ attach' = [attach EXCEPT ![IdOf[c]] = c]
    <3> SUFFICES ASSUME NEW i \in Ids, attach'[i] # None
                 PROVE  /\ sess'[attach'[i]].pc \in Live /\ conn'[attach'[i]].state # "none"
                        /\ \/ attach'[i] = attach[i]
                           \/ sess'[attach'[i]].kind = "attach" /\ IdOf[attach'[i]] = i
      BY DEF EntriesLive
    <3>1. CASE i = IdOf[c]
      <4>1. attach'[i] = c
        BY <2>2, <3>1, SessionsTyped
      <4> QED BY <1>1, <1>3, <1>5, <2>2, <3>1, <4>1 DEF Live
    <3>2. CASE i # IdOf[c]
      <4>1. attach'[i] = attach[i] /\ attach[i] \in Clients /\ IdOf[attach[i]] = i
        BY <2>2, <3>2, SessionsTyped DEF StreamsInv, EntryOf
      <4>2. attach[i] # c
        BY <3>2, <4>1
      <4> QED BY <1>3, <1>5, <4>1, <4>2 DEF StreamsInv, EntryOf, OthersStay
    <3> QED BY <3>1, <3>2
  <2> QED BY <2>1, <2>2
<1>8. TypeOK'
  BY <1>3, <1>5, SessionsAssumption DEF StreamsInv, TypeOK, SessTyped
<1> QED BY <1>5, <1>6, <1>7, <1>8 DEF QuietStep

LEMMA RequestsQuiet ==
    ASSUME StreamsInv, NEW c \in Clients,
           \/ OtherStream(c) \/ SocketCreated(c) \/ CreateSocketFails(c)
           \/ ExecStart(c) \/ ExecNotStarted(c) \/ Wait(c) \/ PollVmFails(c)
    PROVE  QuietStep
<1> USE DEF Pcs, Undialled, Live, At
<1>1. CASE OtherStream(c) \/ CreateSocketFails(c) \/ ExecNotStarted(c) \/ Wait(c)
  <2>1. PICK pc \in {"createSocket", "done", "waiting"} :
          /\ sess' = [sess EXCEPT ![c].pc = pc]
          /\ pc = "createSocket" => sess[c].pc = "idle"
          /\ pc = "waiting" => sess[c].kind = "wait"
    BY <1>1 DEF OtherStream, CreateSocketFails, ExecNotStarted, Wait
  <2>2. /\ sess[c].pc \notin Live
        /\ UNCHANGED <<vm, conn, attach, exec, resizes, wire>>
    BY <1>1 DEF OtherStream, CreateSocketFails, ExecNotStarted, Wait
  <2> QED BY <2>1, <2>2, PcStep
<1>2. CASE PollVmFails(c)
  <2>1. CASE sess[c].kind = "wait"
    BY <1>2, <2>1, PcStep DEF PollVmFails
  <2>2. CASE sess[c].kind # "wait"
    BY <1>2, <2>2, PcStep DEF PollVmFails, Reads
  <2> QED BY <2>1, <2>2
<1>3. CASE ExecStart(c)
  BY <1>3, DialQuiet DEF ExecStart, StreamsInv, TypeOK
<1>4. CASE SocketCreated(c)
  <2>1. CASE sess[c].kind = "exec"
    <3> DEFINE s == [sess[c] EXCEPT !.pc = "created"]
    <3>1. /\ s \in SessionType /\ SameSession(sess[c], s) /\ s.pc = "created"
          /\ attach' \in [Ids -> Clients \cup {None}] /\ attach' = attach
      BY <1>4, <2>1, SessionsTyped, PcRecord DEF SocketCreated
    <3>2. Put(c, s)
      BY <1>4, <2>1, SessionsTyped, PcPut DEF SocketCreated
    <3> HIDE DEF s
    <3>3. QuietRecord(c, sess[c], s)
      BY <1>4, <3>1 DEF QuietRecord, SameSession, SocketCreated
    <3>4. SessTyped' /\ sess'[c] = s /\ OthersStay(c) /\ \A d \in Clients : Quiet(d)
      BY <3>1, <3>2, <3>3, OneSession
    <3>5. ConnsGrow /\ UNCHANGED <<vm, conn, resizes, wire>>
      BY <1>4, <2>1 DEF SocketCreated, ConnsGrow, Dead
    <3>6. EntriesLive
      BY <2>1, <3>1, <3>4, <3>5, OneEntries
    <3>7. TypeOK'
      BY <1>4, <2>1, <3>1, <3>4, <3>5 DEF SocketCreated, StreamsInv, TypeOK, SessTyped
    <3> QED BY <3>4, <3>5, <3>6, <3>7 DEF QuietStep
  <2>2. CASE sess[c].kind # "exec"
    BY <1>4, <2>2, DialQuiet DEF SocketCreated, StreamsInv, TypeOK
  <2> QED BY <2>1, <2>2
<1> QED BY <1>1, <1>2, <1>3, <1>4

(* Entries only go; those that stay are of sessions that go on.            *)
LEMMA EntriesGo ==
    ASSUME StreamsInv, ConnsGrow,
           \A i \in Ids : attach'[i] \in {attach[i], None},
           \A d \in Clients :
              sess[d].kind = "attach" /\ sess[d].pc \in Live
                 => sess'[d].pc \in Live \/ attach'[IdOf[d]] = None
    PROVE  EntriesLive
<1> SUFFICES ASSUME NEW i \in Ids, attach'[i] # None
             PROVE  /\ sess'[attach'[i]].pc \in Live /\ conn'[attach'[i]].state # "none"
                    /\ attach'[i] = attach[i]
  BY DEF EntriesLive
<1> DEFINE o == attach[i]
<1>1. /\ attach'[i] = o /\ o \in Clients /\ sess[o].pc \in Live /\ conn[o].state # "none"
      /\ sess[o].kind = "attach" /\ IdOf[o] = i
  BY DEF StreamsInv, EntryOf, TypeOK
<1> QED BY <1>1 DEF ConnsGrow

LEMMA StillQuiet ==
    ASSUME StreamsInv, UNCHANGED <<sess, conn, attach, wire>>, TypeOK'
    PROVE  QuietStep
<1>1. ConnsGrow
  BY DEF ConnsGrow, Dead
<1>2. EntriesLive
  BY <1>1, EntriesGo
<1>3. \A d \in Clients : Quiet(d)
  BY DEF Quiet, QuietRecord
<1> QED BY <1>1, <1>2, <1>3 DEF QuietStep

LEMMA ConnectQuiet ==
    ASSUME StreamsInv, NEW o \in Clients, Connect(o)
    PROVE  QuietStep
<1>0. /\ SessTyped /\ sess[o] \in SessionType /\ ClientInv(o)
      /\ UNCHANGED <<vm, attach, exec, resizes, wire>>
  BY SessionsTyped DEF Connect
<1>1. conn' \in [Clients -> ConnType] /\ ConnsGrow
  BY SessionsTyped DEF Connect, ConnType, ConnsGrow, Dead
<1>2. CASE sess[o].pc = "connecting"
  <2> DEFINE s == [sess[o] EXCEPT !.pc = "attached"]
  <2>1. s \in SessionType /\ SameSession(sess[o], s) /\ s.pc = "attached"
    BY <1>0, PcRecord DEF Pcs
  <2>2. Put(o, s)
    BY <1>0, <1>2 DEF Connect, Put, SessTyped
  <2> HIDE DEF s
  <2>3. QuietRecord(o, sess[o], s)
    BY <1>0, <1>2, <2>1 DEF QuietRecord, SameSession, ClientInv, FreshOf, Connect
  <2>4. SessTyped' /\ sess'[o] = s /\ OthersStay(o) /\ \A d \in Clients : Quiet(d)
    BY <2>1, <2>2, <2>3, OneSession
  <2>5. EntriesLive
    BY <1>0, <1>1, <2>1, <2>4, EntriesGo DEF OthersStay, Live
  <2> QED BY <1>0, <1>1, <2>4, <2>5, SessionsTyped, TypeKept DEF QuietStep
<1>3. CASE sess[o].pc # "connecting"
  <2>1. sess' = sess
    <3> DEFINE s == [sess[o] EXCEPT !.pc = sess[o].pc]
    <3>1. s = sess[o]
      BY <1>0 DEF SessionType
    <3>2. sess' = [sess EXCEPT ![o] = s]
      BY <1>0, <1>3 DEF Connect, SessTyped
    <3> HIDE DEF s
    <3> QED BY <1>0, <3>1, <3>2 DEF SessTyped
  <2>2. EntriesLive
    BY <1>0, <1>1, <2>1, EntriesGo
  <2>3. \A d \in Clients : Quiet(d)
    BY <2>1 DEF Quiet, QuietRecord
  <2> QED BY <1>0, <1>1, <2>1, <2>2, <2>3, SessionsTyped, TypeKept DEF QuietStep, SessTyped
<1> QED BY <1>2, <1>3

(* What the close of a connection does to a session that hears it.         *)
Heard(r, s) ==
    /\ s \in SessionType /\ s.kind = r.kind /\ s.held = r.held /\ s.owner = r.owner
    /\ \/ s = r
       \/ s.pc = "done"
       \/ /\ s.pc \in {"waiting", "hung"}
          /\ Reads(s) => Reads(r) /\ s.typed = r.typed
HeardAttach(r, s) == r.kind = "attach" /\ r.pc \in Live => s.pc \in Live

LEMMA HearCloseIs ==
    ASSUME NEW ss, ss \in [Clients -> SessionType], NEW o, NEW c \in Clients
    PROVE  LET s == HearClose(ss, o)[c]
           IN  Heard(ss[c], s) /\ HeardAttach(ss[c], s)
<1> DEFINE r == ss[c]
           s == HearClose(ss, o)[c]
<1>0. r \in SessionType
  OBVIOUS
<1>1. r.owner # o \/ r.pc # "attached" => Heard(r, s) /\ HeardAttach(r, s)
  <2> SUFFICES ASSUME r.owner # o \/ r.pc # "attached"
               PROVE  Heard(r, s) /\ HeardAttach(r, s)
    OBVIOUS
  <2>1. s = r
    BY DEF HearClose
  <2> HIDE DEF s, r
  <2> QED BY <1>0, <2>1 DEF Heard, HeardAttach
<1>2. r.owner = o /\ r.pc = "attached" /\ r.kind = "attach"
        => Heard(r, s) /\ HeardAttach(r, s)
  <2> SUFFICES ASSUME r.owner = o, r.pc = "attached", r.kind = "attach"
               PROVE  Heard(r, s) /\ HeardAttach(r, s)
    OBVIOUS
  <2> DEFINE t == [r EXCEPT !.pc = "waiting"]
  <2>1. s = t
    BY DEF HearClose
  <2>2. t \in SessionType /\ SameSession(r, t) /\ t.pc = "waiting"
    BY <1>0, PcRecord DEF Pcs
  <2> HIDE DEF s, r, t
  <2> QED BY <2>1, <2>2 DEF Heard, HeardAttach, SameSession, Live, Reads
<1>3. r.owner = o /\ r.pc = "attached" /\ r.kind # "attach"
        => Heard(r, s) /\ HeardAttach(r, s)
  <2> SUFFICES ASSUME r.owner = o, r.pc = "attached", r.kind # "attach"
               PROVE  Heard(r, s) /\ HeardAttach(r, s)
    OBVIOUS
  <2> DEFINE t == FinishedRecord(r, FALSE)
  <2>1. s = t
    BY DEF HearClose, Finished, FinishedRecord, FinishedAs
  <2>2. /\ t \in SessionType /\ t.pc = "done" /\ t.kind = r.kind
        /\ t.owner = r.owner /\ t.held = r.held
    BY <1>0, FinishedRecordIs
  <2> HIDE DEF s, r, t
  <2> QED BY <2>1, <2>2 DEF Heard, HeardAttach
<1> QED BY <1>1, <1>2, <1>3

LEMMA HeardQuiet ==
    ASSUME NEW d \in Clients, Heard(sess[d], sess'[d])
    PROVE  Quiet(d)
  BY DEF Heard, Quiet, QuietRecord

LEMMA AgentClosesQuiet ==
    ASSUME StreamsInv, NEW o \in Clients, AgentCloses(o)
    PROVE  QuietStep
<1>0. /\ sess \in [Clients -> SessionType] /\ sess' = HearClose(sess, o)
      /\ UNCHANGED <<vm, attach, exec, resizes, wire>>
  BY DEF AgentCloses, StreamsInv, TypeOK
<1>1. conn' \in [Clients -> ConnType] /\ ConnsGrow
  BY ClosedConns DEF AgentCloses
<1>2. ASSUME NEW d \in Clients
      PROVE  Heard(sess[d], sess'[d]) /\ HeardAttach(sess[d], sess'[d])
  BY <1>0, HearCloseIs
<1>3. SessTyped' /\ \A d \in Clients : Quiet(d)
  <2>1. \A d \in Clients : Quiet(d) /\ sess'[d] \in SessionType
    BY <1>2, HeardQuiet DEF Heard
  <2>2. sess' = [d \in Clients |-> sess'[d]]
    BY <1>0 DEF HearClose
  <2> QED BY <2>1, <2>2 DEF SessTyped
<1>4. EntriesLive
  BY <1>0, <1>1, <1>2, EntriesGo DEF HeardAttach
<1> QED BY <1>0, <1>1, <1>3, <1>4, SessionsTyped, TypeKept DEF QuietStep

LEMMA ErrorHeardIs ==
    ASSUME SessTyped, NEW o \in Clients
    PROVE  /\ ErrorHeard(o) \in [Clients -> SessionType]
           /\ \A d \in Clients : d # o => ErrorHeard(o)[d] = sess[d]
           /\ Heard(sess[o], ErrorHeard(o)[o])
           /\ HeardAttach(sess[o], ErrorHeard(o)[o]) \/ Unfinished(o)
<1> DEFINE r == sess[o]
           u == [r EXCEPT !.pc = "hung"]
           t == FinishedRecord(r, TRUE)
<1>0. r \in SessionType
  BY DEF SessTyped
<1>1. u \in SessionType /\ SameSession(r, u) /\ u.pc = "hung"
  BY <1>0, PcRecord DEF Pcs
<1>2. /\ t \in SessionType /\ t.pc = "done" /\ t.kind = r.kind
      /\ t.owner = r.owner /\ t.held = r.held
  BY <1>0, FinishedRecordIs
<1>3. PICK s : /\ ErrorHeard(o) = [sess EXCEPT ![o] = s]
               /\ \/ s = u /\ r.kind = "copy"
                  \/ s = t /\ Unfinished(o)
                  \/ s = r
  <2>1. CASE sess[o].kind = "copy" /\ conn[o].state = "open"
    <3>1. ErrorHeard(o) = [sess EXCEPT ![o] = u]
      BY <2>1 DEF ErrorHeard
    <3> QED BY <2>1, <3>1
  <2>2. CASE ~(sess[o].kind = "copy" /\ conn[o].state = "open") /\ Unfinished(o)
    <3>1. ErrorHeard(o) = [sess EXCEPT ![o] = t]
      BY <2>2 DEF ErrorHeard, Finished, FinishedRecord, FinishedAs
    <3> QED BY <2>2, <3>1
  <2>3. CASE ~(sess[o].kind = "copy" /\ conn[o].state = "open") /\ ~Unfinished(o)
    <3>1. ErrorHeard(o) = [sess EXCEPT ![o] = r]
      BY <2>3 DEF ErrorHeard, SessTyped
    <3> QED BY <3>1
  <2> QED BY <2>1, <2>2, <2>3
<1> HIDE DEF u, t
<1>4. Heard(r, s) /\ (HeardAttach(r, s) \/ Unfinished(o))
  BY <1>0, <1>1, <1>2, <1>3 DEF Heard, HeardAttach, SameSession, Reads
<1>5. /\ ErrorHeard(o)[o] = s /\ ErrorHeard(o) \in [Clients -> SessionType]
      /\ \A d \in Clients : d # o => ErrorHeard(o)[d] = sess[d]
  BY <1>3, <1>4 DEF SessTyped, Heard
<1> QED BY <1>4, <1>5

LEMMA HeardTwice ==
    ASSUME NEW r, NEW s, NEW t, Heard(r, s), Heard(s, t)
    PROVE  Heard(r, t)
  BY DEF Heard, Reads

LEMMA ConnectionFailsQuiet ==
    ASSUME StreamsInv, NEW o \in Clients, ConnectionFails(o)
    PROVE  QuietStep
<1> DEFINE ss == ErrorHeard(o)
<1>0. SessTyped /\ sess' = HearClose(ss, o) /\ UNCHANGED <<vm, exec, resizes, wire>>
  BY SessionsTyped DEF ConnectionFails
<1>1. conn' \in [Clients -> ConnType] /\ ConnsGrow
  BY ClosedConns DEF ConnectionFails
<1>2. /\ ss \in [Clients -> SessionType]
      /\ \A d \in Clients : d # o => ss[d] = sess[d]
      /\ Heard(sess[o], ss[o])
      /\ HeardAttach(sess[o], ss[o]) \/ Unfinished(o)
  BY <1>0, ErrorHeardIs
<1> HIDE DEF ss
<1>3. ASSUME NEW d \in Clients
      PROVE  /\ Heard(sess[d], sess'[d])
             /\ HeardAttach(sess[d], sess'[d]) \/ (d = o /\ Unfinished(o))
  <2>1. Heard(ss[d], sess'[d]) /\ HeardAttach(ss[d], sess'[d])
    BY <1>0, <1>2, HearCloseIs
  <2>2. CASE d = o
    <3>1. Heard(sess[d], sess'[d])
      BY <1>2, <2>1, <2>2, HeardTwice
    <3>2. HeardAttach(sess[d], sess'[d]) \/ Unfinished(o)
      BY <1>2, <2>1, <2>2 DEF HeardAttach, Heard
    <3> QED BY <2>2, <3>1, <3>2
  <2>3. CASE d # o
    BY <1>2, <2>1, <2>3
  <2> QED BY <2>2, <2>3
<1>4. SessTyped' /\ \A d \in Clients : Quiet(d)
  <2>1. \A d \in Clients : Quiet(d) /\ sess'[d] \in SessionType
    BY <1>3, HeardQuiet DEF Heard
  <2>2. sess' = [d \in Clients |-> sess'[d]]
    BY <1>0 DEF HearClose
  <2> QED BY <2>1, <2>2 DEF SessTyped
<1>5. /\ \A i \in Ids : attach'[i] \in {attach[i], None}
      /\ attach' \in [Ids -> Clients \cup {None}]
      /\ Unfinished(o) /\ sess[o].kind = "attach" => attach'[IdOf[o]] = None
  <2>1. CASE Unfinished(o)
    BY <2>1, EntriesAfterIs DEF ConnectionFails
  <2>2. CASE ~Unfinished(o)
    BY <2>2, SessionsTyped DEF ConnectionFails
  <2> QED BY <2>1, <2>2
<1>6. EntriesLive
  BY <1>1, <1>3, <1>5, EntriesGo DEF HeardAttach
<1> QED BY <1>0, <1>1, <1>4, <1>5, <1>6, SessionsTyped, TypeKept DEF QuietStep

LEMMA StatsClientEndsQuiet ==
    ASSUME StreamsInv, NEW c \in Clients, StatsClientEnds(c)
    PROVE  QuietStep
<1>0. /\ SessTyped /\ ClientInv(c) /\ sess' = Finished(sess, c, FALSE)
      /\ sess[c].kind = "stats" /\ UNCHANGED <<vm, attach, exec, resizes, wire>>
      /\ attach \in [Ids -> Clients \cup {None}]
  BY SessionsTyped DEF StatsClientEnds, At
<1>1. conn' \in [Clients -> ConnType] /\ ConnsGrow
  <2>1. conn[c].state # "none"
    BY <1>0 DEF StatsClientEnds, At, ClientInv, FreshOf, TypingOf, Reads
  <2> QED BY <2>1, ClosedConns DEF StatsClientEnds
<1>2. /\ SessTyped' /\ \A d \in Clients : Quiet(d)
      /\ EntriesLive
  BY <1>0, <1>1, FinishStep
<1> QED BY <1>0, <1>1, <1>2, TypeKept DEF QuietStep

LEMMA ClientFailsQuiet ==
    ASSUME StreamsInv, NEW c \in Clients, ClientFails(c)
    PROVE  QuietStep
<1>0. /\ sess' = [Finished(sess, c, TRUE) EXCEPT ![c].ended = FALSE]
      /\ attach' = EntriesAfter(c, TRUE)
      /\ UNCHANGED <<vm, exec, resizes, wire>>
      /\ conn' = [conn EXCEPT ![sess[c].owner].fin = TRUE]
  BY DEF ClientFails
<1>1. conn' \in [Clients -> ConnType] /\ ConnsGrow
  BY <1>0, FinConns
<1>2. /\ \A i \in Ids : attach'[i] \in {attach[i], None}
      /\ attach' \in [Ids -> Clients \cup {None}]
      /\ sess[c].kind = "attach" => attach'[IdOf[c]] = None
  BY <1>0, EntriesAfterIs
<1>3. Put(c, FinishedAs(sess[c], FALSE))
  BY <1>0, SessionsTyped DEF Put, Finished, FinishedAs, SessTyped
<1>4. SessTyped' /\ (\A d \in Clients : Quiet(d)) /\ EntriesLive
  BY <1>1, <1>2, <1>3, FinishAsStep
<1> QED BY <1>0, <1>1, <1>2, <1>4, TypeKept DEF QuietStep

LEMMA ClientTimesOutQuiet ==
    ASSUME StreamsInv, NEW c \in Clients, ClientTimesOut(c)
    PROVE  QuietStep
<1>1. CASE sess[c].kind = "attach"
  BY <1>1, PcStep DEF ClientTimesOut, Pcs, Reads, Live
<1>2. CASE sess[c].kind # "attach"
  <2>0. /\ sess' = Finished(sess, c, FALSE) /\ attach' = attach
        /\ conn' = [conn EXCEPT ![c].fin = TRUE]
        /\ UNCHANGED <<vm, exec, resizes, wire>>
    BY <1>2 DEF ClientTimesOut
  <2>1. conn' \in [Clients -> ConnType] /\ ConnsGrow
    BY <2>0, FinConns
  <2>2. /\ \A i \in Ids : attach'[i] \in {attach[i], None}
        /\ attach' \in [Ids -> Clients \cup {None}]
    BY <2>0, SessionsTyped
  <2>3. SessTyped' /\ (\A d \in Clients : Quiet(d)) /\ EntriesLive
    BY <1>2, <2>0, <2>1, <2>2, FinishStep
  <2> QED BY <2>0, <2>1, <2>2, <2>3, TypeKept DEF QuietStep
<1> QED BY <1>1, <1>2

LEMMA SentAfterEndQuiet ==
    ASSUME StreamsInv, NEW c \in Clients, SentAfterEnd(c)
    PROVE  QuietStep
<1>1. sess[c].owner \in Clients /\ HearError(sess, sess[c].owner)
  BY SessionsTyped DEF SentAfterEnd, SessionType
<1>2. resizes' \in [Ids -> BOOLEAN]
  BY SessionsTyped DEF SentAfterEnd, StreamsInv, TypeOK
<1> QED BY <1>1, <1>2, HearErrorQuiet DEF SentAfterEnd

LEMMA WaitedQuiet ==
    ASSUME StreamsInv, NEW c \in Clients, Waited(c), sess[c].pc = "waiting",
           UNCHANGED <<vm, exec, resizes, wire>>
    PROVE  QuietStep
<1>1. CASE sess[c].kind = "wait"
  BY <1>1, PcStep DEF Waited, Pcs
<1>2. CASE sess[c].kind # "wait"
  <2>0. /\ sess' = Finished(sess, c, FALSE) /\ attach' = EntriesAfter(c, FALSE)
        /\ conn' = [conn EXCEPT ![sess[c].owner].fin = TRUE]
    BY <1>2 DEF Waited
  <2>1. conn' \in [Clients -> ConnType] /\ ConnsGrow
    BY <2>0, FinConns
  <2>2. /\ \A i \in Ids : attach'[i] \in {attach[i], None}
        /\ attach' \in [Ids -> Clients \cup {None}]
        /\ sess[c].kind = "attach" => attach'[IdOf[c]] = None
    BY <2>0, EntriesAfterIs
  <2>3. SessTyped' /\ (\A d \in Clients : Quiet(d)) /\ EntriesLive
    BY <2>0, <2>1, <2>2, FinishStep
  <2> QED BY <2>1, <2>2, <2>3, TypeKept DEF QuietStep
<1> QED BY <1>1, <1>2

LEMMA PollVmQuiet ==
    ASSUME StreamsInv, NEW c \in Clients, PollVm(c)
    PROVE  QuietStep
<1> DEFINE stopped == sess[c].stopped \/ vm.state = "stopped"
           left == IF stopped THEN sess[c].iterations - 1 ELSE sess[c].iterations
<1>0. /\ SessTyped /\ sess[c] \in SessionType /\ sess[c].pc = "waiting"
      /\ UNCHANGED <<vm, exec, resizes, wire>>
  BY SessionsTyped DEF PollVm
<1>1. CASE stopped /\ (vm.exit \/ sess[c].iterations = 1)
  BY <1>0, <1>1, WaitedQuiet DEF PollVm
<1>2. CASE ~(stopped /\ (vm.exit \/ sess[c].iterations = 1))
  <2>1. stopped \in BOOLEAN /\ left \in 1 .. WaitLimit
    <3>1. sess[c].iterations \in 1 .. WaitLimit /\ sess[c].stopped \in BOOLEAN
      BY <1>0 DEF SessionType
    <3>2. WaitLimit \in Nat
      BY SessionsAssumption
    <3> QED BY <1>2, <3>1, <3>2
  <2>2. /\ sess' = [sess EXCEPT ![c].stopped = stopped, ![c].iterations = left]
        /\ UNCHANGED <<conn, attach>>
    BY <1>0, <1>2 DEF PollVm, SessTyped
  <2> HIDE DEF stopped, left
  <2> DEFINE s == [sess[c] EXCEPT !.stopped = stopped, !.iterations = left]
  <2>3. s \in SessionType /\ SameSession(sess[c], s) /\ s.pc = sess[c].pc
    BY <1>0, <2>1, PolledRecord
  <2>4. Put(c, s)
    BY <1>0, <2>2, PolledPut
  <2> HIDE DEF s
  <2>5. QuietRecord(c, sess[c], s)
    BY <2>3 DEF QuietRecord, SameSession
  <2>6. attach' \in [Ids -> Clients \cup {None}]
    BY <2>2, SessionsTyped
  <2> QED BY <1>0, <2>2, <2>3, <2>4, <2>5, <2>6, OneStep
<1> QED BY <1>1, <1>2

(* Every step of a stream that types nothing.                              *)
LEMMA StreamsQuiet ==
    ASSUME StreamsInv, NEW c \in Clients, StreamStep(c),
           ~Type(c), ~ClientEnds(c), ~Flush(c)
    PROVE  QuietStep
<1>1. CASE Attach(c)
  BY <1>1, AttachQuiet
<1>2. CASE \/ OtherStream(c) \/ SocketCreated(c) \/ CreateSocketFails(c)
           \/ ExecStart(c) \/ ExecNotStarted(c) \/ Wait(c) \/ PollVmFails(c)
  BY <1>2, RequestsQuiet
<1>3. CASE ExecInspect(c)
  <2>1. TypeOK'
    BY <1>3 DEF ExecInspect, StreamsInv, TypeOK
  <2> QED BY <1>3, <2>1, StillQuiet DEF ExecInspect
<1>4. CASE ExecResize(c)
  BY <1>4, HearErrorQuiet DEF ExecResize
<1>5. CASE Connect(c) \/ AgentCloses(c) \/ ConnectionFails(c)
  BY <1>5, ConnectQuiet, AgentClosesQuiet, ConnectionFailsQuiet
<1>6. CASE ClientFails(c) \/ StatsClientEnds(c) \/ PollVm(c)
  BY <1>6, ClientFailsQuiet, StatsClientEndsQuiet, PollVmQuiet
<1>7. CASE ClientTimesOut(c) \/ SentAfterEnd(c)
  BY <1>7, ClientTimesOutQuiet, SentAfterEndQuiet
<1> QED BY <1>1, <1>2, <1>3, <1>4, <1>5, <1>6, <1>7 DEF StreamStep

LEMMA OutsideQuiet ==
    ASSUME StreamsInv,
           VmStep \/ (\E i \in Ids : ContainerResize(i)) \/ UNCHANGED vars
    PROVE  QuietStep
<1>1. CASE VmStep
  <2>0. vm' \in VmType
    <3>1. ASSUME NEW v \in VmType
          PROVE  /\ [v EXCEPT !.state = "stopped"] \in VmType
                 /\ [v EXCEPT !.exit = TRUE] \in VmType
      BY DEF VmType
    <3>2. [state |-> "running", exit |-> FALSE] \in VmType
      BY DEF VmType
    <3>3. vm \in VmType /\ (VmStops \/ VmStarts \/ VmExitStatus)
      BY <1>1 DEF VmStep, StreamsInv, TypeOK
    <3> QED BY <3>1, <3>2, <3>3 DEF VmStops, VmStarts, VmExitStatus
  <2>1. TypeOK'
    BY <1>1, <2>0 DEF VmStep, StreamsInv, TypeOK
  <2> QED BY <1>1, <2>1, StillQuiet DEF VmStep
<1>2. CASE \E i \in Ids : ContainerResize(i)
  <2>1. TypeOK'
    BY <1>2 DEF ContainerResize, StreamsInv, TypeOK
  <2> QED BY <1>2, <2>1, StillQuiet DEF ContainerResize
<1>3. CASE UNCHANGED vars
  <2>1. TypeOK'
    BY <1>3 DEF vars, StreamsInv, TypeOK
  <2> QED BY <1>3, <2>1, StillQuiet DEF vars
<1> QED BY <1>1, <1>2, <1>3

-----------------------------------------------------------------------------
(* What clients type.                                                      *)

LEMMA ItemIs ==
    ASSUME NEW n \in Nat \ {0}, NEW m \in Nat \ {0}
    PROVE  /\ Item(n, TRUE) \in Items /\ Item(n, FALSE) \in Items
           /\ Item(n, TRUE) # Item(m, FALSE)
           /\ Item(n, TRUE) = Item(m, TRUE) => n = m
           /\ Item(n, FALSE) = Item(m, FALSE) => n = m
           /\ Item(n, TRUE).chunk = n /\ Item(n, FALSE).chunk = n
  BY DEF Item, Items

LEMMA SentWithin ==
    ASSUME NEW w \in Seq(Items), NEW n, NEW resize, NEW i \in SentIn(w, n, resize)
    PROVE  i \in 1 .. Len(w) /\ i \in Nat /\ i < Len(w) + 1
  BY DEF SentIn

Appended(w, x, v) ==
    /\ DOMAIN v = (DOMAIN w) \cup {Len(w) + 1} /\ v[Len(w) + 1] = x
    /\ Len(w) + 1 \notin DOMAIN w
    /\ \A i \in DOMAIN w : v[i] = w[i]

LEMMA AppendIs ==
    ASSUME NEW w \in Seq(Items), NEW x \in Items
    PROVE  Appended(w, x, Append(w, x)) /\ Append(w, x) \in Seq(Items)
  BY DEF Appended

LEMMA ResizeSent ==
    ASSUME NEW w \in Seq(Items), NEW n \in Nat \ {0}
    PROVE  LET v == Append(w, Item(n, TRUE))
           IN  /\ \A m \in Nat \ {0} : SentIn(v, m, FALSE) = SentIn(w, m, FALSE)
               /\ \A m \in Nat \ {0} :
                     m # n => SentIn(v, m, TRUE) = SentIn(w, m, TRUE)
               /\ \A m \in Nat \ {0} :
                     SentIn(w, m, TRUE) # {} => SentIn(v, m, TRUE) # {}
               /\ SentIn(v, n, TRUE) # {}
<1> DEFINE x == Item(n, TRUE)
           v == Append(w, x)
<1>0. x \in Items /\ Appended(w, x, v) /\ \A m \in Nat \ {0} : x # Item(m, FALSE)
  BY ItemIs, AppendIs
<1>5. (\A m \in Nat \ {0} : m # n => x # Item(m, TRUE)) /\ x = Item(n, TRUE)
  BY ItemIs
<1> HIDE DEF v, x
<1>1. \A m \in Nat \ {0} : SentIn(v, m, FALSE) = SentIn(w, m, FALSE)
  BY <1>0 DEF SentIn, Appended
<1>2. \A m \in Nat \ {0} : m # n => SentIn(v, m, TRUE) = SentIn(w, m, TRUE)
  BY <1>0, <1>5 DEF SentIn, Appended
<1>3. \A m \in Nat \ {0} : SentIn(w, m, TRUE) # {} => SentIn(v, m, TRUE) # {}
  BY <1>0 DEF SentIn, Appended
<1>4. SentIn(v, n, TRUE) # {}
  BY <1>0, <1>5 DEF SentIn, Appended
<1> QED BY <1>1, <1>2, <1>3, <1>4 DEF v, x

LEMMA ChunkSent ==
    ASSUME NEW w \in Seq(Items), NEW n \in Nat \ {0}
    PROVE  LET v == Append(w, Item(n, FALSE))
           IN  /\ \A m \in Nat \ {0} :
                     m # n => SentIn(v, m, FALSE) = SentIn(w, m, FALSE)
               /\ SentIn(v, n, FALSE) = SentIn(w, n, FALSE) \cup {Len(w) + 1}
               /\ \A m \in Nat \ {0} : SentIn(v, m, TRUE) = SentIn(w, m, TRUE)
<1> DEFINE x == Item(n, FALSE)
           v == Append(w, x)
<1>0. x \in Items /\ Appended(w, x, v) /\ \A m \in Nat \ {0} : x # Item(m, TRUE)
  BY ItemIs, AppendIs
<1>5. (\A m \in Nat \ {0} : m # n => x # Item(m, FALSE)) /\ x = Item(n, FALSE)
  BY ItemIs
<1> HIDE DEF v, x
<1>1. \A m \in Nat \ {0} : m # n => SentIn(v, m, FALSE) = SentIn(w, m, FALSE)
  BY <1>0, <1>5 DEF SentIn, Appended
<1>2. SentIn(v, n, FALSE) = SentIn(w, n, FALSE) \cup {Len(w) + 1}
  BY <1>0, <1>5 DEF SentIn, Appended
<1>3. \A m \in Nat \ {0} : SentIn(v, m, TRUE) = SentIn(w, m, TRUE)
  BY <1>0 DEF SentIn, Appended
<1> QED BY <1>1, <1>2, <1>3 DEF v, x

(* A resize goes ahead of a chunk that was not written.                    *)
LEMMA ResizeOrdered ==
    ASSUME NEW w \in Seq(Items), Ordered(w), NEW n \in Nat \ {0},
           SentIn(w, n, FALSE) = {}
    PROVE  Ordered(Append(w, Item(n, TRUE)))
<1> DEFINE v == Append(w, Item(n, TRUE))
<1>1. \A m \in Nat \ {0} : SentIn(v, m, FALSE) = SentIn(w, m, FALSE)
  BY ResizeSent
<1>2. \A m \in Nat \ {0} : m # n => SentIn(v, m, TRUE) = SentIn(w, m, TRUE)
  BY ResizeSent
<1>3. \A m \in Nat \ {0} : SentIn(w, m, TRUE) # {} => SentIn(v, m, TRUE) # {}
  BY ResizeSent
<1> HIDE DEF v
<1>4. ASSUME NEW m \in Nat \ {0}, NEW i \in SentIn(v, m, FALSE)
      PROVE  /\ SentIn(v, m, FALSE) = {i}
             /\ \A j \in SentIn(v, m, TRUE) : j < i
             /\ \A p \in 1 .. (m - 1) : \A j \in SentIn(v, p, FALSE) :
                     j > i => SentIn(v, p, TRUE) # {}
  <2>1. m # n /\ i \in SentIn(w, m, FALSE)
    BY <1>1, <1>4
  <2>2. \A p \in 1 .. (m - 1) : p \in Nat \ {0}
    OBVIOUS
  <2>3. /\ SentIn(w, m, FALSE) = {i} /\ \A j \in SentIn(w, m, TRUE) : j < i
        /\ \A p \in 1 .. (m - 1) : \A j \in SentIn(w, p, FALSE) :
                j > i => SentIn(w, p, TRUE) # {}
    BY <1>4, <2>1 DEF Ordered
  <2>4. ASSUME NEW p \in 1 .. (m - 1), NEW j \in SentIn(v, p, FALSE), j > i
        PROVE  SentIn(v, p, TRUE) # {}
    BY <1>1, <1>3, <1>4, <2>2, <2>3, <2>4
  <2> QED BY <1>1, <1>2, <1>4, <2>1, <2>3, <2>4
<1> QED BY <1>4 DEF Ordered, v

(* A chunk that was not written, the last so far or one whose resize was.  *)
LEMMA ChunkOrdered ==
    ASSUME NEW w \in Seq(Items), Ordered(w), NEW n \in Nat \ {0},
           SentIn(w, n, FALSE) = {},
           \/ SentIn(w, n, TRUE) # {}
           \/ \A m \in Nat \ {0} : m > n => SentIn(w, m, FALSE) = {}
    PROVE  Ordered(Append(w, Item(n, FALSE)))
<1> DEFINE v == Append(w, Item(n, FALSE))
           l == Len(w) + 1
<1>1. \A m \in Nat \ {0} : m # n => SentIn(v, m, FALSE) = SentIn(w, m, FALSE)
  BY ChunkSent
<1>2. SentIn(v, n, FALSE) = {l}
  BY ChunkSent
<1>3. \A m \in Nat \ {0} : SentIn(v, m, TRUE) = SentIn(w, m, TRUE)
  BY ChunkSent
<1> HIDE DEF v
<1>5. \A m \in Nat \ {0} : \A j \in SentIn(w, m, FALSE) \cup SentIn(w, m, TRUE) :
         j \in Nat /\ j < l
  BY SentWithin
<1>6. l \in Nat
  OBVIOUS
<1> HIDE DEF l
<1>4. ASSUME NEW m \in Nat \ {0}, NEW i \in SentIn(v, m, FALSE)
      PROVE  /\ SentIn(v, m, FALSE) = {i}
             /\ \A j \in SentIn(v, m, TRUE) : j < i
             /\ \A p \in 1 .. (m - 1) : \A j \in SentIn(v, p, FALSE) :
                     j > i => SentIn(v, p, TRUE) # {}
  <2>0. \A p \in 1 .. (m - 1) : p \in Nat \ {0} /\ p < m
    OBVIOUS
  <2>1. CASE m = n
    <3>1. i = l
      BY <1>2, <2>1
    <3>2. ASSUME NEW p \in 1 .. (m - 1), NEW j \in SentIn(v, p, FALSE), j > i
          PROVE  FALSE
      <4>0. p \in Nat \ {0} /\ p # n
        BY <1>4, <2>0, <2>1, <3>2
      <4>1. j \in SentIn(w, p, FALSE) /\ p \in Nat \ {0}
        BY <1>1, <3>2, <4>0
      <4>2. j \in Nat /\ j < l
        BY <1>5, <4>1
      <4> QED BY <1>6, <3>1, <3>2, <4>2
    <3> QED BY <1>2, <1>3, <1>5, <2>1, <3>1, <3>2
  <2>2. CASE m # n
    <3>1. i \in SentIn(w, m, FALSE)
      BY <1>1, <2>2
    <3>2. /\ SentIn(w, m, FALSE) = {i} /\ \A j \in SentIn(w, m, TRUE) : j < i
          /\ \A p \in 1 .. (m - 1) : \A j \in SentIn(w, p, FALSE) :
                     j > i => SentIn(w, p, TRUE) # {}
      BY <3>1 DEF Ordered
    <3>3. ASSUME NEW p \in 1 .. (m - 1), NEW j \in SentIn(v, p, FALSE), j > i
          PROVE  SentIn(v, p, TRUE) # {}
      <4>1. CASE p # n
        BY <1>1, <1>3, <2>0, <3>2, <3>3, <4>1
      <4>2. CASE p = n
        BY <1>3, <2>0, <3>1, <4>2
      <4> QED BY <4>1, <4>2
    <3> QED BY <1>1, <1>3, <2>2, <3>2, <3>3
  <2> QED BY <2>1, <2>2
<1> QED BY <1>4 DEF Ordered, v

LEMMA EntriesKept ==
    ASSUME StreamsInv, TypeOK', EntriesLive,
           \A d \in Clients : sess'[d].kind = sess[d].kind
    PROVE  \A i \in Ids : EntryOf(i)'
<1> SUFFICES ASSUME NEW i \in Ids, attach'[i] # None PROVE EntryOf(i)'
  BY DEF EntryOf
<1>1. attach'[i] \in Clients
  BY DEF TypeOK
<1>2. attach'[i] = attach[i] => sess'[attach'[i]].kind = "attach" /\ IdOf[attach'[i]] = i
  BY <1>1 DEF StreamsInv, EntryOf
<1> QED BY <1>2 DEF EntriesLive, EntryOf

(* A write, or the error of the connection it meets: what a step that      *)
(* turns the record of c into t and writes x leaves.                       *)
Written(c, t, x) ==
    /\ TypeOK' /\ EntriesLive /\ ConnsGrow
    /\ \A d \in Clients : d # c => Quiet(d) /\ wire'[d] = wire[d]
    /\ sess'[c].kind = t.kind /\ sess'[c].owner = t.owner /\ sess'[c].held = t.held
    /\ \/ sess'[c] = t
       \/ sess'[c].pc = "done"
    /\ \/ wire'[c] = Append(wire[c], x) /\ Writable(t.owner)
       \/ wire'[c] = wire[c] /\ ~ Writable(t.owner)

LEMMA WriteIs ==
    ASSUME StreamsInv, NEW c \in Clients, NEW t \in SessionType, NEW x \in Items,
           NEW ss, ss = [sess EXCEPT ![c] = t], t.kind = sess[c].kind,
           t.owner = sess[c].owner, t.pc = sess[c].pc, t.owner \in Clients,
           Write(ss, c, x), UNCHANGED <<vm, conn, exec>>,
           resizes' \in [Ids -> BOOLEAN]
    PROVE  Written(c, t, x)
<1>0. /\ SessTyped /\ ss \in [Clients -> SessionType] /\ ss[c] = t
      /\ \A d \in Clients : d # c => ss[d] = sess[d]
      /\ ConnsGrow /\ attach \in [Ids -> Clients \cup {None}]
      /\ conn' \in [Clients -> ConnType] /\ wire \in [Clients -> Seq(Items)]
  BY SessionsTyped DEF SessTyped, ConnsGrow, Dead, StreamsInv, TypeOK
<1>1. CASE Writable(t.owner)
  <2>1. sess' = ss /\ attach' = attach /\ wire' = [wire EXCEPT ![c] = Append(@, x)]
    BY <1>0, <1>1 DEF Write
  <2>2. /\ wire' \in [Clients -> Seq(Items)] /\ wire'[c] = Append(wire[c], x)
        /\ \A d \in Clients : d # c => wire'[d] = wire[d]
    BY <1>0, <2>1, AppendIs
  <2>3. TypeOK'
    BY <1>0, <2>1, <2>2 DEF StreamsInv, TypeOK
  <2>4. \A d \in Clients : d # c => Quiet(d)
    BY <1>0, <2>1 DEF Quiet, QuietRecord
  <2>5. EntriesLive
    BY <1>0, <2>1, EntriesGo
  <2> QED BY <1>0, <1>1, <2>1, <2>2, <2>3, <2>4, <2>5 DEF Written
<1>2. CASE ~Writable(t.owner)
  <2> DEFINE o == t.owner
  <2>1. HearError(ss, o) /\ wire' = wire
    BY <1>0, <1>2 DEF Write
  <2>2. CASE Unfinished(o)
    <3> DEFINE u == FinishedRecord(ss[o], TRUE)
    <3>0. sess' = [ss EXCEPT ![o] = u] /\ attach' = EntriesAfter(o, TRUE)
      BY <2>1, <2>2 DEF HearError, Finished, FinishedRecord, FinishedAs
    <3>1. /\ u \in SessionType /\ u.pc = "done" /\ u.kind = ss[o].kind
          /\ u.owner = ss[o].owner /\ u.held = ss[o].held
      BY <1>0, FinishedRecordIs
    <3> HIDE DEF u
    <3>2. /\ sess'[o] = u /\ SessTyped'
          /\ \A d \in Clients : d # o => sess'[d] = ss[d]
      BY <1>0, <3>0, <3>1 DEF SessTyped
    <3>3. /\ \A i \in Ids : attach'[i] \in {attach[i], None}
          /\ attach' \in [Ids -> Clients \cup {None}]
          /\ sess[o].kind = "attach" => attach'[IdOf[o]] = None
      BY <3>0, EntriesAfterIs
    <3>4. TypeOK'
      BY <1>0, <2>1, <3>2, <3>3 DEF StreamsInv, TypeOK, SessTyped
    <3>5. \A d \in Clients : d # c => Quiet(d)
      BY <1>0, <3>1, <3>2 DEF Quiet, QuietRecord
    <3>6. EntriesLive
      BY <1>0, <3>2, <3>3, EntriesGo
    <3> QED BY <1>0, <1>2, <2>1, <3>1, <3>2, <3>4, <3>5, <3>6 DEF Written
  <2>3. CASE ~Unfinished(o)
    <3>1. sess' = ss /\ attach' = attach
      BY <2>1, <2>3 DEF HearError
    <3>2. TypeOK'
      BY <1>0, <2>1, <3>1 DEF StreamsInv, TypeOK
    <3>3. \A d \in Clients : d # c => Quiet(d)
      BY <1>0, <3>1 DEF Quiet, QuietRecord
    <3>4. EntriesLive
      BY <1>0, <3>1, EntriesGo
    <3> QED BY <1>0, <1>2, <2>1, <3>1, <3>2, <3>3, <3>4 DEF Written
  <2> QED BY <2>2, <2>3
<1> QED BY <1>1, <1>2

(* What a request is does not change.                                      *)
KindsKept == \A d \in Clients : sess'[d].kind = sess[d].kind

(* The other sessions keep their part of the invariant.                    *)
LEMMA WrittenKeeps ==
    ASSUME StreamsInv, NEW c \in Clients, NEW t, NEW x, Written(c, t, x),
           t.kind = sess[c].kind, ClientInv(c)'
    PROVE  StreamsInv' /\ KindsKept
<1>1. \A d \in Clients : ClientInv(d)'
  BY QuietKeeps DEF Written
<1>2. \A d \in Clients : sess'[d].kind = sess[d].kind
  BY DEF Written, Quiet, QuietRecord
<1>3. \A i \in Ids : EntryOf(i)'
  BY <1>2, EntriesKept DEF Written
<1> QED BY <1>1, <1>2, <1>3 DEF StreamsInv, Written, KindsKept

LEMMA ClientWritten ==
    ASSUME StreamsInv, NEW c \in Clients, NEW t \in SessionType, NEW x,
           Written(c, t, x),
           t.kind = sess[c].kind, t.owner = sess[c].owner, t.pc = sess[c].pc,
           t.pc \notin Undialled \cup {"connecting"}, t.owner \in Clients,
           Reads(t) =>
              /\ \A i \in DOMAIN wire'[c] : wire'[c][i].chunk <= t.typed
              /\ \A m \in t.held : m <= t.typed,
           \A m \in t.held :
              /\ SentIn(wire'[c], m, FALSE) = {}
              /\ SentIn(wire'[c], m, TRUE) # {} \/ Dead(t.owner),
           Ordered(wire'[c])
    PROVE  StreamsInv' /\ KindsKept
<1>0. /\ ConnsGrow /\ ClientInv(c) /\ sess'[c].owner = t.owner /\ sess'[c].held = t.held
      /\ sess'[c].kind = t.kind /\ (sess'[c] = t \/ sess'[c].pc = "done")
  BY SessionsTyped DEF Written
<1>1. FreshOf(c)'
  BY <1>0 DEF FreshOf, Undialled
<1>2. TypingOf(c)'
  BY <1>0 DEF TypingOf, ClientInv, ConnsGrow, Reads
<1>3. HeldOf(c)'
  BY <1>0 DEF HeldOf, ConnsGrow
<1>4. ClientInv(c)'
  BY <1>1, <1>2, <1>3 DEF ClientInv
<1> QED BY <1>4, WrittenKeeps

LEMMA HeldRecord ==
    ASSUME NEW r \in SessionType, NEW held \in SUBSET (Nat \ {0})
    PROVE  LET s == [r EXCEPT !.held = held]
           IN  /\ s \in SessionType /\ s.pc = r.pc /\ s.kind = r.kind
               /\ s.owner = r.owner /\ s.typed = r.typed /\ s.held = held
  BY DEF SessionType

LEMMA FlushKeeps ==
    ASSUME StreamsInv, NEW c \in Clients, Flush(c)
    PROVE  StreamsInv' /\ KindsKept
<1>1. PICK n \in sess[c].held :
        Write([sess EXCEPT ![c].held = @ \ {n}], c, Item(n, FALSE))
  BY DEF Flush
<1> DEFINE held == sess[c].held \ {n}
           t == [sess[c] EXCEPT !.held = held]
           x == Item(n, FALSE)
           w == wire[c]
<1>2. /\ SessTyped /\ sess[c] \in SessionType /\ ClientInv(c) /\ n \in Nat \ {0}
      /\ UNCHANGED <<vm, conn, exec, resizes>> /\ resizes' \in [Ids -> BOOLEAN]
      /\ held \in SUBSET (Nat \ {0}) /\ w \in Seq(Items)
  BY SessionsTyped DEF Flush, SessionType, StreamsInv, TypeOK
<1>3. /\ t \in SessionType /\ t.pc = sess[c].pc /\ t.kind = sess[c].kind
      /\ t.owner = sess[c].owner /\ t.typed = sess[c].typed /\ t.held = held
  BY <1>2, HeldRecord
<1>4. Write([sess EXCEPT ![c] = t], c, x)
  <2>1. [sess EXCEPT ![c].held = @ \ {n}] = [sess EXCEPT ![c] = t]
    BY <1>2 DEF SessTyped
  <2> QED BY <1>1, <2>1
<1>5. /\ x \in Items /\ x.chunk = n
  BY <1>2, ItemIs
<1> HIDE DEF t, held
<1>6. /\ SentIn(w, n, FALSE) = {} /\ sess[c].owner \in Clients
      /\ SentIn(w, n, TRUE) # {} \/ Dead(sess[c].owner)
  BY <1>2 DEF ClientInv, HeldOf
<1> HIDE DEF x
<1>7. Written(c, t, x)
  BY <1>2, <1>3, <1>4, <1>5, <1>6, WriteIs
<1>8. t.pc \notin Undialled \cup {"connecting"}
  BY <1>2, <1>3 DEF ClientInv, FreshOf
<1>9. /\ \A m \in held : /\ m \in Nat \ {0} /\ m # n /\ SentIn(w, m, FALSE) = {}
                         /\ SentIn(w, m, TRUE) # {} \/ Dead(t.owner)
      /\ Ordered(w)
  BY <1>2, <1>3 DEF ClientInv, HeldOf, held
<1>10. Reads(t) =>
         /\ \A i \in DOMAIN w : w[i].chunk <= t.typed
         /\ n <= t.typed /\ \A m \in held : m <= t.typed
  BY <1>2, <1>3 DEF ClientInv, TypingOf, held, Reads
<1>11. CASE wire'[c] = w
  BY <1>3, <1>6, <1>7, <1>8, <1>9, <1>10, <1>11, ClientWritten
<1>12. CASE wire'[c] = Append(w, x) /\ Writable(t.owner)
  <2> DEFINE v == Append(w, x)
  <2>1. SentIn(w, n, TRUE) # {}
    BY <1>3, <1>6, <1>12 DEF Writable, Dead
  <2>2. Ordered(v)
    BY <1>2, <1>6, <1>9, <2>1, ChunkOrdered DEF x
  <2>3. \A m \in held : /\ SentIn(v, m, FALSE) = {}
                        /\ SentIn(v, m, TRUE) # {} \/ Dead(t.owner)
    BY <1>2, <1>9, ChunkSent DEF x
  <2>4. Reads(t) => \A i \in DOMAIN v : v[i].chunk <= t.typed
    <3>1. Appended(w, x, v)
      BY <1>2, <1>5, AppendIs
    <3> HIDE DEF v
    <3> QED BY <1>5, <1>10, <3>1 DEF Appended
  <2>5. wire'[c] = v
    BY <1>12
  <2> HIDE DEF v
  <2> QED BY <1>3, <1>6, <1>7, <1>8, <1>10, <2>2, <2>3, <2>4, <2>5, ClientWritten
<1> QED BY <1>7, <1>11, <1>12 DEF Written

(* The next chunk a client types, alone or behind its resize.              *)
LEMMA NextChunk ==
    ASSUME NEW w \in Seq(Items), Ordered(w), NEW n \in Nat \ {0},
           \A i \in DOMAIN w : w[i].chunk < n
    PROVE  /\ SentIn(w, n, FALSE) = {}
           /\ \A i \in DOMAIN w : w[i].chunk <= n
           /\ LET v == Append(w, Item(n, FALSE))
              IN  Ordered(v) /\ \A i \in DOMAIN v : v[i].chunk <= n
           /\ LET v == Append(w, Item(n, TRUE))
              IN  /\ Ordered(v) /\ \A i \in DOMAIN v : v[i].chunk <= n
                  /\ SentIn(v, n, FALSE) = {} /\ SentIn(v, n, TRUE) # {}
<1>0. n \in Nat \ {0} /\ n \in Nat
  OBVIOUS
<1>1. ASSUME NEW i \in DOMAIN w
      PROVE  w[i].chunk <= n /\ w[i] \in Items /\ w[i].chunk \in Nat /\ w[i].chunk < n
  <2>1. w[i] \in Items /\ w[i].chunk < n
    BY <1>1
  <2>2. w[i].chunk \in Nat
    BY <2>1 DEF Items
  <2> QED BY <1>0, <2>1, <2>2
<1>2. \A m \in Nat \ {0} : m >= n => SentIn(w, m, FALSE) = {}
  <2>1. ASSUME NEW m \in Nat \ {0}, m >= n, NEW i \in DOMAIN w
        PROVE  w[i] # Item(m, FALSE)
    <3>1. w[i].chunk # m
      BY <1>0, <1>1, <2>1
    <3> QED BY <2>1, <3>1, ItemIs
  <2> QED BY <2>1 DEF SentIn
<1>3. SentIn(w, n, FALSE) = {} /\ \A m \in Nat \ {0} : m > n => SentIn(w, m, FALSE) = {}
  <2>1. n >= n
    BY <1>0
  <2>2. \A m \in Nat \ {0} : m > n => m >= n
    BY <1>0
  <2> QED BY <1>0, <1>2, <2>1, <2>2
<1>4. Ordered(Append(w, Item(n, FALSE))) /\ Ordered(Append(w, Item(n, TRUE)))
  BY <1>0, <1>3, ChunkOrdered, ResizeOrdered
<1>5. ASSUME NEW x \in Items, x.chunk = n
      PROVE  LET v == Append(w, x) IN \A i \in DOMAIN v : v[i].chunk <= n
  <2> DEFINE v == Append(w, x)
  <2>1. Appended(w, x, v)
    BY AppendIs
  <2> HIDE DEF v
  <2>2. \A i \in DOMAIN v : v[i].chunk <= n
    BY <1>0, <1>1, <1>5, <2>1 DEF Appended
  <2> QED BY <2>2 DEF v
<1>6. /\ Item(n, TRUE) \in Items /\ Item(n, FALSE) \in Items
      /\ Item(n, TRUE).chunk = n /\ Item(n, FALSE).chunk = n
  BY <1>0, ItemIs
<1>7. /\ SentIn(Append(w, Item(n, TRUE)), n, FALSE) = {}
      /\ SentIn(Append(w, Item(n, TRUE)), n, TRUE) # {}
  BY <1>0, <1>3, ResizeSent
<1> QED BY <1>0, <1>1, <1>3, <1>4, <1>5, <1>6, <1>7

LEMMA ReadKeeps ==
    ASSUME StreamsInv, NEW c \in Clients, NEW n \in Nat \ {0}, NEW pop \in BOOLEAN,
           Read(c, n, pop), Reads(sess[c]), n > sess[c].typed,
           UNCHANGED <<vm, conn, exec>>
    PROVE  StreamsInv' /\ KindsKept
<1> DEFINE held == IF pop THEN sess[c].held \cup {n} ELSE sess[c].held
           t    == [sess[c] EXCEPT !.typed = n, !.held = held]
           w    == wire[c]
           o    == sess[c].owner
           vF   == Append(w, Item(n, FALSE))
           vT   == Append(w, Item(n, TRUE))
<1>1. /\ SessTyped /\ sess[c] \in SessionType /\ ClientInv(c)
      /\ resizes \in [Ids -> BOOLEAN] /\ w \in Seq(Items)
  BY SessionsTyped DEF StreamsInv, TypeOK
<1>2. sess[c].typed \in Nat /\ sess[c].held \in SUBSET (Nat \ {0})
  BY <1>1 DEF SessionType
<1>3. /\ n \in Nat \ {0} /\ n \in Nat /\ n > sess[c].typed
      /\ held \in SUBSET (Nat \ {0})
  BY <1>2
<1>4. /\ t \in SessionType /\ t.pc = sess[c].pc /\ t.kind = sess[c].kind
      /\ t.owner = o /\ t.typed = n /\ t.held = held
  <2>1. n \in Nat /\ held \in SUBSET (Nat \ {0}) /\ sess[c] \in SessionType
    BY <1>1, <1>3
  <2> DEFINE r == sess[c]
  <2> HIDE DEF held, r
  <2>2. LET s == [r EXCEPT !.typed = n, !.held = held]
        IN  /\ s \in SessionType /\ s.pc = r.pc /\ s.kind = r.kind
            /\ s.owner = r.owner /\ s.typed = n /\ s.held = held
    BY <2>1 DEF r, SessionType
  <2> QED BY <2>2 DEF r
<1>5. resizes' \in [Ids -> BOOLEAN]
  BY <1>1 DEF Read
<1>6. Write([sess EXCEPT ![c] = t], c, Item(n, pop))
  <2>1. [sess EXCEPT ![c].typed = n, ![c].held = IF pop THEN @ \cup {n} ELSE @]
          = [sess EXCEPT ![c] = t]
    BY <1>1 DEF SessTyped
  <2>2. Write([sess EXCEPT ![c].typed = n,
                          ![c].held = IF pop THEN @ \cup {n} ELSE @],
              c, Item(n, pop))
    BY DEF Read
  <2> QED BY <2>1, <2>2
<1>7. /\ o \in Clients /\ conn[o].state # "none"
      /\ \A i \in DOMAIN w : w[i].chunk <= sess[c].typed
      /\ \A m \in sess[c].held : m <= sess[c].typed
  BY <1>1 DEF ClientInv, TypingOf
<1>8. \A m \in sess[c].held :
         /\ SentIn(w, m, FALSE) = {}
         /\ SentIn(w, m, TRUE) # {} \/ Dead(o)
  BY <1>1 DEF ClientInv, HeldOf
<1>9. \A m \in sess[c].held : m \in Nat \ {0} /\ m # n /\ m <= n
  BY <1>2, <1>7
<1>10. ~Writable(o) => Dead(o)
  <2>1. conn[o] \in ConnType
    BY <1>7, SessionsTyped
  <2> QED BY <1>7, <2>1 DEF Writable, Dead, ConnType
<1>11. t.pc \notin Undialled \cup {"connecting"} /\ t.owner \in Clients
  BY <1>1, <1>4, <1>7 DEF Undialled, Reads
<1>12. /\ Ordered(w) /\ SentIn(w, n, FALSE) = {}
       /\ \A i \in DOMAIN w : w[i].chunk <= n
       /\ Ordered(vF) /\ \A i \in DOMAIN vF : vF[i].chunk <= n
       /\ Ordered(vT) /\ \A i \in DOMAIN vT : vT[i].chunk <= n
       /\ SentIn(vT, n, FALSE) = {} /\ SentIn(vT, n, TRUE) # {}
  <2>1. Ordered(w)
    BY <1>1 DEF ClientInv
  <2>2. w \in Seq(Items) /\ n \in Nat \ {0}
    BY <1>1, <1>3
  <2>3. ASSUME NEW i \in DOMAIN w PROVE w[i].chunk < n
    <3>1. w[i] \in Items /\ w[i].chunk <= sess[c].typed
      BY <1>1, <1>7, <2>3
    <3>2. w[i].chunk \in Nat
      BY <3>1 DEF Items
    <3> QED BY <1>2, <3>1, <3>2
  <2> HIDE DEF w
  <2>4. /\ SentIn(w, n, FALSE) = {}
        /\ \A i \in DOMAIN w : w[i].chunk <= n
        /\ Ordered(vF) /\ \A i \in DOMAIN vF : vF[i].chunk <= n
        /\ Ordered(vT) /\ \A i \in DOMAIN vT : vT[i].chunk <= n
        /\ SentIn(vT, n, FALSE) = {} /\ SentIn(vT, n, TRUE) # {}
    BY <2>1, <2>2, <2>3, NextChunk
  <2> QED BY <2>1, <2>4
<1>13. /\ Item(n, TRUE) \in Items /\ Item(n, FALSE) \in Items
  BY ItemIs
<1> HIDE DEF t
<1>14. CASE ~pop
  <2>0. Item(n, pop) = Item(n, FALSE) /\ held = sess[c].held
    BY <1>14
  <2> HIDE DEF held
  <2>2. Written(c, t, Item(n, FALSE))
    BY <1>1, <1>4, <1>5, <1>6, <1>7, <1>13, <2>0, WriteIs
  <2>3. \A m \in held : SentIn(vF, m, FALSE) = {} /\ (SentIn(vF, m, TRUE) # {} \/ Dead(o))
    <3>1. w \in Seq(Items) /\ n \in Nat \ {0}
      BY <1>1, <1>3
    <3>2. \A m \in Nat \ {0} :
             /\ m # n => SentIn(vF, m, FALSE) = SentIn(w, m, FALSE)
             /\ SentIn(vF, m, TRUE) = SentIn(w, m, TRUE)
      <4> HIDE DEF w
      <4> QED BY <3>1, ChunkSent
    <3> QED BY <1>8, <1>9, <2>0, <3>2
  <2> HIDE DEF vF, w
  <2>4. CASE wire'[c] = w
    BY <1>4, <1>8, <1>9, <1>11, <1>12, <2>0, <2>2, <2>4, ClientWritten
  <2>5. CASE wire'[c] = vF
    BY <1>4, <1>9, <1>11, <1>12, <2>0, <2>2, <2>3, <2>5, ClientWritten
  <2> QED BY <2>2, <2>4, <2>5 DEF Written, w, vF
<1>15. CASE pop
  <2>0. Item(n, pop) = Item(n, TRUE) /\ held = sess[c].held \cup {n} /\ n <= n
    BY <1>3, <1>15
  <2> HIDE DEF held
  <2>2. Written(c, t, Item(n, TRUE))
    BY <1>1, <1>4, <1>5, <1>6, <1>7, <1>13, <2>0, WriteIs
  <2>3. \A m \in sess[c].held :
           SentIn(vT, m, FALSE) = {} /\ (SentIn(vT, m, TRUE) # {} \/ Dead(o))
    <3>1. w \in Seq(Items) /\ n \in Nat \ {0}
      BY <1>1, <1>3
    <3>2. \A m \in Nat \ {0} :
             /\ SentIn(vT, m, FALSE) = SentIn(w, m, FALSE)
             /\ m # n => SentIn(vT, m, TRUE) = SentIn(w, m, TRUE)
      <4> HIDE DEF w
      <4> QED BY <3>1, ResizeSent
    <3> QED BY <1>8, <1>9, <3>2
  <2> HIDE DEF vT, w
  <2>4. CASE wire'[c] = w /\ ~Writable(o)
    <3>1. \A m \in held : SentIn(w, m, FALSE) = {} /\ Dead(o) /\ m <= n
      BY <1>8, <1>9, <1>10, <1>12, <2>0, <2>4
    <3> QED BY <1>4, <1>11, <1>12, <2>2, <2>4, <3>1, ClientWritten
  <2>5. CASE wire'[c] = vT
    <3>1. \A m \in held :
             /\ SentIn(vT, m, FALSE) = {} /\ m <= n
             /\ SentIn(vT, m, TRUE) # {} \/ Dead(o)
      BY <1>9, <1>12, <2>0, <2>3
    <3> QED BY <1>4, <1>11, <1>12, <2>2, <2>5, <3>1, ClientWritten
  <2> QED BY <1>4, <2>2, <2>4, <2>5 DEF Written, w, vT
<1> QED BY <1>14, <1>15

LEMMA TypeKeeps ==
    ASSUME StreamsInv, NEW c \in Clients, Type(c) \/ ClientEnds(c)
    PROVE  StreamsInv' /\ KindsKept
<1>1. /\ sess[c].typed \in Nat /\ Chunks[c] \in Nat /\ Reads(sess[c])
      /\ UNCHANGED <<vm, conn, exec>> /\ resizes \in [Ids -> BOOLEAN]
      /\ IdOf[c] \in Ids
  BY SessionsAssumption, SessionsTyped
     DEF Type, ClientEnds, Listening, Reads, SessionType, StreamsInv, TypeOK
<1>2. PICK n \in Nat \ {0}, pop \in BOOLEAN : Read(c, n, pop) /\ n > sess[c].typed
  <2>1. CASE Type(c)
    <3> DEFINE last == sess[c].typed
               pop  == sess[c].kind = "attach" /\ resizes[IdOf[c]]
    <3>1. Read(c, last + 1, pop) /\ pop \in BOOLEAN /\ last \in Nat
      BY <1>1, <2>1 DEF Type
    <3> HIDE DEF last, pop
    <3>2. last + 1 \in Nat \ {0} /\ last + 1 > last
      BY <3>1
    <3>3. \E m \in Nat \ {0}, q \in BOOLEAN : Read(c, m, q) /\ m > last
      BY <3>1, <3>2
    <3> QED BY <3>3 DEF last
  <2>2. CASE ClientEnds(c)
    <3>1. Chunks[c] + 1 \in Nat \ {0} /\ FALSE \in BOOLEAN
      BY <1>1
    <3>2. Read(c, Chunks[c] + 1, FALSE) /\ sess[c].typed <= Chunks[c]
      BY <2>2, Zenon DEF ClientEnds
    <3>3. Chunks[c] + 1 > sess[c].typed
      BY <1>1, <3>2
    <3> QED BY <3>1, <3>2, <3>3
  <2> QED BY <2>1, <2>2
<1> QED BY <1>1, <1>2, ReadKeeps

-----------------------------------------------------------------------------
(* The invariant of the streams and the copies.                            *)

LEMMA StreamsKeep ==
    ASSUME StreamsInv,
           NextStreams \/ VmStep \/ UNCHANGED vars
    PROVE  StreamsInv' /\ KindsKept
<1>1. ASSUME NEW c \in Clients, Type(c) \/ ClientEnds(c) \/ Flush(c)
      PROVE  StreamsInv' /\ KindsKept
  BY <1>1, TypeKeeps, FlushKeeps
<1>2. ASSUME NEW c \in Clients, StreamStep(c), ~Type(c), ~ClientEnds(c), ~Flush(c)
      PROVE  QuietStep
  BY <1>2, StreamsQuiet
<1>3. (\E i \in Ids : ContainerResize(i)) \/ VmStep \/ UNCHANGED vars => QuietStep
  BY OutsideQuiet
<1>4. QuietStep => StreamsInv' /\ KindsKept
  BY QuietStepKeeps DEF QuietStep, Quiet, QuietRecord, KindsKept
<1> QED BY <1>1, <1>2, <1>3, <1>4 DEF NextStreams

AllInv == StreamsInv /\ TicketsInv

LEMMA NextKeeps ==
    ASSUME AllInv, [Next]_allVars
    PROVE  AllInv'
<1> USE DEF AllInv
<1>1. CASE (NextStreams \/ VmStep \/ UNCHANGED vars) /\ UNCHANGED archiveVars
  <2>1. StreamsInv' /\ KindsKept
    BY <1>1, StreamsKeep
  <2>2. Copies' = Copies /\ copy' = copy /\ queue' = queue
    BY <1>1, <2>1 DEF Copies, archiveVars, KindsKept
  <2>3. TicketsInv'
    BY <2>2 DEF TicketsInv, CopiesTyped, TicketOf, HasTurn, Queued
  <2> QED BY <2>1, <2>3
<1>2. ASSUME NEW c \in Clients, ArchiveStep(c), UNCHANGED vars
      PROVE  AllInv'
  <2>1. StreamsInv'
    BY <1>2, StreamsKeep
  <2>2. UNCHANGED sess
    BY <1>2 DEF vars
  <2> QED BY <1>2, <2>1, <2>2, TicketsKept
<1> QED BY <1>1, <1>2 DEF Next, allVars

LEMMA InvariantHolds == Spec => []AllInv
<1>1. Init => AllInv
  BY StreamsStart, TicketsStart DEF Init, AllInv
<1>2. AllInv /\ [Next]_allVars => AllInv'
  BY NextKeeps
<1> QED BY <1>1, <1>2, PTL DEF Spec

(* Every variable of the streams and of the copies keeps its type.         *)
THEOREM ArchivesTypeCorrect == Spec => []ArchivesTypeOK
<1>1. AllInv => ArchivesTypeOK
  BY DEF AllInv, StreamsInv, TicketsInv, CopiesTyped, ArchivesTypeOK
<1> QED BY <1>1, InvariantHolds, PTL

(* Whatever ends the session that made it - an error of its connection or  *)
(* of its client, a write after the end, the end of the container it waits *)
(* for once its client timed out or its connection closed - no entry of    *)
(* sockets.attach outlives it, for any number of clients under any ids.    *)
THEOREM EntriesAreLive == Spec => []EntryOfLiveSession
<1>1. AllInv => EntryOfLiveSession
  BY DEF AllInv, StreamsInv, EntryOf, EntryOfLiveSession, Unfinished, Live
<1> QED BY <1>1, InvariantHolds, PTL

(* What a client types reaches its connection once and in order, but for   *)
(* chunks held back for a resize, for any amount of typing and any queue   *)
(* of resizes, and while connections fail under it.                        *)
THEOREM InputStaysInOrder == Spec => []InputInOrder
<1>1. AllInv => InputInOrder
  <2> SUFFICES ASSUME AllInv, NEW c \in Clients, NEW n \in 1 .. Chunks[c] + 1,
                      NEW i \in Sent(c, n, FALSE)
               PROVE  /\ Sent(c, n, FALSE) = {i} /\ n \notin sess[c].held
                      /\ \A j \in Sent(c, n, TRUE) : j < i
                      /\ \A m \in 1 .. (n - 1) : \A j \in Sent(c, m, FALSE) :
                              j > i => Sent(c, m, TRUE) # {}
    BY DEF InputInOrder
  <2>1. \A m : /\ Sent(c, m, TRUE) = SentIn(wire[c], m, TRUE)
               /\ Sent(c, m, FALSE) = SentIn(wire[c], m, FALSE)
    BY DEF Sent, SentIn
  <2>2. Ordered(wire[c]) /\ HeldOf(c)
    BY DEF AllInv, StreamsInv, ClientInv
  <2>3. n \in Nat \ {0}
    BY SessionsAssumption
  <2>4. i \in SentIn(wire[c], n, FALSE)
    BY <2>1
  <2>5. /\ SentIn(wire[c], n, FALSE) = {i}
        /\ \A j \in SentIn(wire[c], n, TRUE) : j < i
        /\ \A m \in 1 .. (n - 1) : \A j \in SentIn(wire[c], m, FALSE) :
                j > i => SentIn(wire[c], m, TRUE) # {}
    BY <2>2, <2>3, <2>4 DEF Ordered
  <2>6. n \notin sess[c].held
    BY <2>2, <2>4 DEF HeldOf
  <2> QED BY <2>1, <2>5, <2>6
<1> QED BY <1>1, InvariantHolds, PTL

(* Copies of a container stream one at a time unless a ticket expired, for *)
(* any number of clients and whichever of their calls fails.               *)
THEOREM StreamsAlternate == Spec => []StreamsTakeTurns
<1>1. AllInv => StreamsTakeTurns
  <2> SUFFICES ASSUME AllInv, NEW c \in Copies, NEW d \in Copies, c # d,
                      copy[c].pc = "streaming", copy[d].pc = "streaming"
               PROVE  copy[c].expired \/ copy[d].expired
    BY DEF StreamsTakeTurns
  <2>1. HasTurn(c) /\ HasTurn(d)
    BY DEF AllInv, TicketsInv, TicketOf
  <2> QED BY <2>1 DEF HasTurn, First
<1> QED BY <1>1, InvariantHolds, PTL

(* No step of a copy that fails leaves its ticket in the waitlist, except  *)
(* where CNAPI refuses it or the handler dies of an exception.             *)
THEOREM TicketsAreReturned == Spec => []NoTicketKept
<1>1. AllInv => NoTicketKept
  BY DEF AllInv, TicketsInv, TicketOf, NoTicketKept
<1> QED BY <1>1, InvariantHolds, PTL
===============================================================================
