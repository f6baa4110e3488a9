------------------------- MODULE BridgeServer_proofs -------------------------
(***************************************************************************)
(* Proofs about BridgeServer for any number of connections and zones and   *)
(* every size of the buffers: types, that no peer's view of a zone goes    *)
(* back, and that no client falls between its snapshot and the broadcasts. *)
(***************************************************************************)
EXTENDS BridgeServer, FiniteSetTheorems, TLAPS

\* A broadcast sends the line that was stored last.
CastIsLatest ==
    bpc = "broadcast" => cur \in SampleLine /\ latest[cur.key] = cur.ver

\* A connection that was never made has no handler.
NewHasNoTask == \A c \in Conns : conn[c] = "new" => hpc[c] = "none"

TypeInv == Types /\ SnapshotKnown /\ CastIsLatest /\ NewHasNoTask

\* The sizes the loop compares are numbers.
LEMMA SizesType ==
    ASSUME Types
    PROVE  Cardinality(Known) \in Nat /\ Cardinality(clients) \in Nat
<1>1. IsFiniteSet(Known)
  BY ConstantsAssumption, FS_Subset DEF Known
<1>2. IsFiniteSet(clients)
  BY ConstantsAssumption, FS_Subset DEF Types
<1>. QED
  BY <1>1, <1>2, FS_CardinalityType

LEMMA VersionType ==
    ASSUME NEW s \in SampleLine
    PROVE  s.key \in Keys /\ s.ver \in 0..MaxLines /\ s.ver # 0
  BY ConstantsAssumption DEF SampleLine

\* Queueing a sample on a connection.
LEMMA QueuedType ==
    ASSUME Types, NEW c \in Conns, NEW k \in Keys, NEW v \in 1..MaxLines
    PROVE  Queued(c, k, v) \in [Conns -> Seq(SampleLine)]
<1>1. [key |-> k, ver |-> v] \in SampleLine
  BY DEF SampleLine
<1>. QED
  BY <1>1 DEF Queued, Types

\* Counting an event.
LEMMA CountType ==
    ASSUME Types, NEW f \in {"lines", "commands", "exits"}, NEW bound, Count(f, bound)
    PROVE  counts' \in Counters
<1>1. counts \in Counters
  BY DEF Types
<1>2. \/ counts' = [counts EXCEPT !.lines = @ + 1]
      \/ counts' = [counts EXCEPT !.commands = @ + 1]
      \/ counts' = [counts EXCEPT !.exits = @ + 1]
  BY DEF Count
<1>. QED
  BY <1>1, <1>2 DEF Counters

-----------------------------------------------------------------------------
\* The types, task by task.
LEMMA ReadTypes == TypeInv /\ ReadLine => Types'
<1> SUFFICES ASSUME TypeInv, ReadLine PROVE Types'
  OBVIOUS
<1>1. Types /\ Cardinality(clients) \in Nat
  BY SizesType DEF TypeInv
<1>2. /\ stdout \in Seq(SampleLine) /\ stdout # <<>> /\ stdout' = Tail(stdout)
      /\ cur' = Head(stdout)
  BY <1>1 DEF ReadLine, Types
<1>3. cur' \in SampleLine /\ stdout' \in Seq(SampleLine) /\ Len(stdout') = Len(stdout) - 1
  BY <1>2
<1>4. Len(stdout') <= StdoutCap
  BY <1>1, <1>2, <1>3, ConstantsAssumption DEF Types
<1>5. latest' \in [Keys -> 0..MaxLines]
  BY <1>1, <1>3, VersionType DEF ReadLine, Types
<1>6. cast' \in Broadcast
  BY <1>1 DEF ReadLine, Types, NoCast, Broadcast
<1>7. bpc' \in {"publish", "broadcast"} /\ holder' \in {holder, "bridge"}
  BY DEF ReadLine
<1>8. UNCHANGED <<clients, hpc, snap, conn, out, got, inbox, proc, reads, stdin, device, stop, counts>>
  BY DEF ReadLine, handler, wire
<1>. QED
  BY <1>1, <1>3, <1>4, <1>5, <1>6, <1>7, <1>8 DEF Types

LEMMA BroadcastTypes ==
    ASSUME TypeInv,
           \/ BroadcastDone \/ BroadcastBreaks \/ \E c \in Conns : BroadcastSend(c)
    PROVE  Types'
<1>1. Types
  BY DEF TypeInv
<1>2. CASE BroadcastDone
  BY <1>1, <1>2 DEF BroadcastDone, Types, NoCast, Broadcast, handler, wire, process
<1>3. CASE BroadcastBreaks
  BY <1>1, <1>3
     DEF BroadcastBreaks, Types, NoCast, Broadcast, Terminated, server, handler, wire
<1>4. ASSUME NEW c \in Conns, BroadcastSend(c)
      PROVE  Types'
  <2>1. cur.key \in Keys /\ cur.ver \in 1..MaxLines
    BY <1>4 DEF BroadcastSend, InBroadcast, SampleLine, TypeInv, CastIsLatest
  <2>2. out' \in [Conns -> Seq(SampleLine)]
    <3>1. out' = out \/ out' = Queued(c, cur.key, cur.ver)
      BY <1>4 DEF BroadcastSend
    <3>2. Queued(c, cur.key, cur.ver) \in [Conns -> Seq(SampleLine)]
      BY <1>1, <2>1, QueuedType
    <3>. QED
      BY <1>1, <3>1, <3>2 DEF Types
  <2>3. Dead \in SUBSET Conns
    BY <1>1 DEF Dead, Types, Broadcast
  <2>4. cast' \in Broadcast
    <3>1. \/ cast' = [cast EXCEPT !.seen = @ \cup {c}, !.at = c, !.dead = Dead]
          \/ cast' = [cast EXCEPT !.seen = @ \cup {c}, !.at = None, !.dead = Dead \cup {c}]
      BY <1>4 DEF BroadcastSend
    <3>2. cast \in Broadcast
      BY <1>1 DEF Types
    <3>. QED
      BY <2>3, <3>1, <3>2 DEF Broadcast
  <2>5. holder' \in Conns \cup {None, "bridge"}
    BY <1>4 DEF BroadcastSend, HolderAfterSend
  <2>6. UNCHANGED <<latest, clients, cur, bpc, hpc, snap, conn, got, inbox,
                    proc, reads, stdout, stdin, device, stop, counts>>
    BY <1>4 DEF BroadcastSend, server, handler, process
  <2>. QED
    BY <1>1, <2>2, <2>4, <2>5, <2>6 DEF Types
<1>. QED
  BY <1>2, <1>3, <1>4

LEMMA BridgeTypes ==
    ASSUME TypeInv, Launch \/ Published \/ EndOfStdout \/ Waited \/ Slept \/ Unwound
    PROVE  Types'
<1>1. Types
  BY DEF TypeInv
<1>2. UNCHANGED <<latest, clients, cur, holder, cast, hpc, snap, conn, out, got, inbox,
                  device, stop, counts>>
  BY DEF Launch, Published, EndOfStdout, Waited, Slept, Unwound, server, handler, wire, process
<1>3. /\ bpc' \in {"read", "wait", "sleep", "launch", "dead"}
      /\ proc' \in {proc, "running", "none"} /\ stdin' \in {stdin, 0}
      /\ stdout' \in {stdout, <<>>} /\ (reads' = reads \/ reads' \in BOOLEAN)
  BY DEF Launch, Published, EndOfStdout, Waited, Slept, Unwound, process
<1>4. stdout' \in Seq(SampleLine) /\ Len(stdout') <= StdoutCap
  <2>1. CASE stdout' = stdout
    BY <1>1, <2>1 DEF Types
  <2>2. CASE stdout' = <<>>
    <3>1. Len(stdout') = 0
      BY <2>2
    <3>. QED
      BY <2>2, <3>1, ConstantsAssumption
  <2>. QED
    BY <1>3, <2>1, <2>2
<1>5. reads' \in BOOLEAN
  BY <1>1, <1>3 DEF Types
<1>. QED
  BY <1>1, <1>2, <1>3, <1>4, <1>5 DEF Types

LEMMA HandlerTypes ==
    ASSUME TypeInv, NEW c \in Conns, HandlerStep(c)
    PROVE  Types'
<1>. USE DEF server, bridge, handler, wire, process
<1>1. Types /\ Cardinality(Known) \in Nat /\ Known \in SUBSET Keys
  BY SizesType DEF TypeInv, Known
<1>2. CASE Register(c)
  <2>1. snap' \in [Conns -> SnapshotTask]
    BY <1>1, <1>2 DEF Register, Types, SnapshotTask
  <2>. QED
    BY <1>1, <1>2, <2>1 DEF Register, Types
<1>3. CASE SnapshotDone(c)
  <2>1. snap' \in [Conns -> SnapshotTask]
    BY <1>1, <1>3 DEF SnapshotDone, Types, SnapshotTask, NoSnap
  <2>. QED
    BY <1>1, <1>3, <2>1 DEF SnapshotDone, Types
<1>4. CASE HandlerEnds(c)
  <2>1. snap' \in [Conns -> SnapshotTask]
    BY <1>1, <1>4 DEF HandlerEnds, Types, SnapshotTask, NoSnap
  <2>2. out' \in [Conns -> Seq(SampleLine)] /\ inbox' \in [Conns -> Nat]
    BY <1>1, <1>4 DEF HandlerEnds, Types
  <2>3. conn' \in [Conns -> {"new", "open", "lost", "gone"}]
        /\ hpc' \in [Conns -> {"none", "start", "snapshot", "recv", "drain", "done"}]
    BY <1>1, <1>4 DEF HandlerEnds, Types
  <2>4. /\ clients' \in SUBSET {d \in Conns : hpc'[d] \in {"snapshot", "recv", "drain"}}
        /\ holder' = None
        /\ UNCHANGED <<latest, cur, bpc, cast, got, proc, reads, stdout, stdin, device, stop, counts>>
    BY <1>1, <1>4 DEF HandlerEnds, Types
  <2>. QED
    BY <1>1, <2>1, <2>2, <2>3, <2>4 DEF Types
<1>5. CASE HandleFrame(c)
  BY <1>1, <1>5 DEF HandleFrame, Types
<1>6. CASE DrainOver(c)
  BY <1>1, <1>6 DEF DrainOver, Types
<1>7. ASSUME NEW k \in Keys, SnapshotSend(c, k)
      PROVE  Types'
  <2>1. latest[k] \in 1..MaxLines
    <3>1. k \in Known
      BY <1>7 DEF SnapshotSend, InSnapshot, TypeInv, SnapshotKnown
    <3>. QED
      BY <1>1, <3>1, ConstantsAssumption DEF Types, Known
  <2>2. out' \in [Conns -> Seq(SampleLine)]
    BY <1>1, <1>7, <2>1, QueuedType DEF SnapshotSend
  <2>3. snap' \in [Conns -> SnapshotTask]
    BY <1>1, <1>7 DEF SnapshotSend, Types, SnapshotTask
  <2>4. holder' \in Conns \cup {None, "bridge"}
    BY <1>7 DEF SnapshotSend, HolderAfterSend
  <2>5. UNCHANGED <<latest, clients, cur, bpc, cast, hpc, conn, got, inbox,
                    proc, reads, stdout, stdin, device, stop, counts>>
    BY <1>7 DEF SnapshotSend
  <2>. QED
    BY <1>1, <2>2, <2>3, <2>4, <2>5 DEF Types
<1>. QED
  BY <1>2, <1>3, <1>4, <1>5, <1>6, <1>7 DEF HandlerStep

LEMMA PeerTypes ==
    ASSUME TypeInv, NEW c \in Conns, Peer(c)
    PROVE  Types'
<1>. USE DEF server, bridge, handler, wire, process
<1>1. Types
  BY DEF TypeInv
<1>2. CASE Connect(c)
  BY <1>1, <1>2 DEF Connect, Types, TypeInv, NewHasNoTask
<1>3. CASE Drop(c)
  <2>1. out' \in [Conns -> Seq(SampleLine)]
    BY <1>1, <1>3 DEF Drop, Types
  <2>2. conn' \in [Conns -> {"new", "open", "lost", "gone"}]
    BY <1>1, <1>3 DEF Drop, Types
  <2>. QED
    BY <1>1, <1>3, <2>1, <2>2 DEF Drop, Types
<1>4. CASE SendFrame(c)
  <2>1. counts' \in Counters
    BY <1>1, <1>4, CountType DEF SendFrame
  <2>2. inbox' \in [Conns -> Nat]
    BY <1>1, <1>4 DEF SendFrame, Types
  <2>3. UNCHANGED <<server, holder, bridge, handler, conn, out, got, process, stop>>
    BY <1>4 DEF SendFrame
  <2>. QED
    BY <1>1, <2>1, <2>2, <2>3 DEF Types
<1>5. CASE Receive(c)
  <2>1. out[c] \in Seq(SampleLine) /\ out[c] # <<>>
    BY <1>1, <1>5 DEF Receive, Types
  <2>2. Head(out[c]) \in SampleLine /\ Tail(out[c]) \in Seq(SampleLine)
    BY <2>1
  <2>3. Head(out[c]).key \in Keys /\ Head(out[c]).ver \in 0..MaxLines
    BY <2>2, VersionType
  <2>4. got' \in [Conns -> [Keys -> 0..MaxLines]]
    BY <1>1, <1>5, <2>3 DEF Receive, Types
  <2>5. out' \in [Conns -> Seq(SampleLine)]
    BY <1>1, <1>5, <2>2 DEF Receive, Types
  <2>6. UNCHANGED <<server, holder, bridge, handler, conn, inbox, process, stop, counts>>
    BY <1>5 DEF Receive
  <2>. QED
    BY <1>1, <2>4, <2>5, <2>6 DEF Types
<1>. QED
  BY <1>2, <1>3, <1>4, <1>5 DEF Peer

LEMMA ProcessTypes ==
    ASSUME TypeInv, Process \/ Shutdown \/ CloseServer
    PROVE  Types'
<1>. USE DEF server, bridge, handler, wire, process
<1>1. Types
  BY DEF TypeInv
<1>2. CASE TakeCommand \/ TermExit \/ Reap
  BY <1>1, <1>2 DEF TakeCommand, TermExit, Reap, Types
<1>3. CASE ProcessExit
  <2>1. counts' \in Counters
    BY <1>1, <1>3, CountType DEF ProcessExit
  <2>. QED
    BY <1>1, <1>3, <2>1 DEF ProcessExit, Types
<1>4. ASSUME NEW k \in Keys, NEW v \in 1..MaxLines, PrintSample(k, v)
      PROVE  Types'
  <2>1. counts' \in Counters
    BY <1>1, <1>4, CountType DEF PrintSample
  <2>2. [key |-> k, ver |-> v] \in SampleLine /\ v \in 0..MaxLines
    BY ConstantsAssumption DEF SampleLine
  <2>3. stdout' \in Seq(SampleLine) /\ Len(stdout') = Len(stdout) + 1
    BY <1>1, <1>4, <2>2 DEF PrintSample, Types
  <2>4. Len(stdout') <= StdoutCap
    BY <1>1, <1>4, <2>3, ConstantsAssumption DEF PrintSample, Types
  <2>5. device' \in [Keys -> 0..MaxLines]
    BY <1>1, <1>4, <2>2 DEF PrintSample, Types
  <2>6. UNCHANGED <<server, holder, bridge, handler, wire, proc, reads, stdin, stop>>
    BY <1>4 DEF PrintSample
  <2>. QED
    BY <1>1, <2>1, <2>3, <2>4, <2>5, <2>6 DEF Types
<1>5. CASE Shutdown
  BY <1>1, <1>5 DEF Shutdown, Types, NoCast, Broadcast, Terminated
<1>6. CASE CloseServer
  <2>1. out' \in [Conns -> Seq(SampleLine)]
    BY <1>1, <1>6 DEF CloseServer, Types
  <2>2. conn' \in [Conns -> {"new", "open", "lost", "gone"}]
    BY <1>1, <1>6 DEF CloseServer, Types
  <2>. QED
    BY <1>1, <1>6, <2>1, <2>2 DEF CloseServer, Types
<1>. QED
  BY <1>2, <1>3, <1>4, <1>5, <1>6 DEF Process

\* Every step keeps the types.
LEMMA TypesStep == TypeInv /\ [Next]_vars => Types'
<1> SUFFICES ASSUME TypeInv, [Next]_vars PROVE Types'
  OBVIOUS
<1>1. CASE UNCHANGED vars
  BY <1>1 DEF vars, TypeInv, Types, server, bridge, handler, wire, process
<1>. QED
  BY <1>1, ReadTypes, BroadcastTypes, BridgeTypes, HandlerTypes, PeerTypes, ProcessTypes
     DEF Next, BridgeStep

\* A snapshot under way holds only zones with a sample: _latest never loses one.
LEMMA SnapshotKnownStep == TypeInv /\ [Next]_vars => SnapshotKnown'
<1> SUFFICES ASSUME TypeInv, [Next]_vars PROVE SnapshotKnown'
  OBVIOUS
<1>. USE DEF server, bridge, handler, wire, process
<1>0. Types
  BY DEF TypeInv
<1>1. CASE ReadLine
  <2>1. cur' \in SampleLine
    BY <1>0, <1>1 DEF ReadLine, Types
  <2>2. cur'.ver # 0
    BY <2>1, VersionType
  <2>3. Known \subseteq Known'
    BY <1>0, <1>1, <2>2 DEF ReadLine, Types, Known
  <2>. QED
    BY <1>1, <2>3 DEF ReadLine, TypeInv, SnapshotKnown
<1>2. ASSUME UNCHANGED <<latest, hpc, snap>>
      PROVE  SnapshotKnown'
  BY <1>2 DEF TypeInv, SnapshotKnown, Known
<1>3. ASSUME NEW c \in Conns, HandlerStep(c)
      PROVE  SnapshotKnown'
  <2>1. UNCHANGED latest
    BY <1>3 DEF HandlerStep, Register, SnapshotDone, HandlerEnds, HandleFrame, DrainOver,
                SnapshotSend
  <2>2. \A d \in Conns : hpc'[d] = "snapshot" =>
            snap'[d].todo \subseteq Known
    <3>1. CASE Register(c)
      BY <1>0, <3>1 DEF Register, Types, TypeInv, SnapshotKnown
    <3>2. ASSUME NEW k \in Keys, SnapshotSend(c, k)
          PROVE  \A d \in Conns : hpc'[d] = "snapshot" => snap'[d].todo \subseteq Known
      BY <1>0, <3>2 DEF SnapshotSend, Types, SnapshotTask, TypeInv, SnapshotKnown
    <3>3. CASE SnapshotDone(c) \/ HandlerEnds(c) \/ HandleFrame(c) \/ DrainOver(c)
      BY <1>0, <3>3
         DEF SnapshotDone, HandlerEnds, HandleFrame, DrainOver, Types, TypeInv, SnapshotKnown
    <3>. QED
      BY <1>3, <3>1, <3>2, <3>3 DEF HandlerStep
  <2>. QED
    BY <2>1, <2>2 DEF SnapshotKnown, Known
<1>4. ASSUME NEW c \in Conns, Peer(c)
      PROVE  SnapshotKnown'
  BY <1>0, <1>4 DEF Peer, Connect, Receive, SendFrame, Drop, Types, TypeInv, SnapshotKnown,
                    Known
<1>5. CASE BridgeStep /\ ~ReadLine
  BY <1>2, <1>5
     DEF BridgeStep, Launch, BroadcastDone, BroadcastBreaks, Published, EndOfStdout,
         Waited, Slept, Unwound, BroadcastSend
<1>6. CASE Process \/ Shutdown \/ CloseServer \/ UNCHANGED vars
  BY <1>2, <1>6
     DEF Process, TakeCommand, ProcessExit, TermExit, Reap, PrintSample, Shutdown,
         CloseServer, vars
<1>. QED
  BY <1>1, <1>3, <1>4, <1>5, <1>6 DEF Next

\* A broadcast sends the line that was stored last: nothing is stored meanwhile.
LEMMA CastStep == TypeInv /\ [Next]_vars => CastIsLatest'
<1> SUFFICES ASSUME TypeInv, [Next]_vars, bpc' = "broadcast"
             PROVE  cur' \in SampleLine /\ latest'[cur'.key] = cur'.ver
  BY DEF CastIsLatest
<1>. USE DEF server, bridge, handler, wire, process
<1>1. CASE ReadLine
  <2>1. Types
    BY DEF TypeInv
  <2>2. cur' \in SampleLine
    BY <1>1, <2>1 DEF ReadLine, Types
  <2>. QED
    BY <1>1, <2>1, <2>2, VersionType DEF ReadLine, Types
<1>2. CASE ~ReadLine
  <2>1. UNCHANGED <<bpc, cur, latest>>
    BY <1>2
       DEF Next, vars, BridgeStep, HandlerStep, Peer, Process, Launch, BroadcastDone,
           BroadcastBreaks, Published, EndOfStdout, Waited, Slept, Unwound, BroadcastSend,
           Register, SnapshotDone, HandlerEnds, HandleFrame, DrainOver, SnapshotSend,
           Connect, Receive, SendFrame, Drop, TakeCommand, ProcessExit, TermExit, Reap,
           PrintSample, Shutdown, CloseServer
  <2>. QED
    BY <2>1 DEF TypeInv, CastIsLatest
<1>. QED
  BY <1>1, <1>2

\* A handler starts only as its connection is made.
LEMMA NewStep == TypeInv /\ [Next]_vars => NewHasNoTask'
<1> SUFFICES ASSUME TypeInv, [Next]_vars PROVE NewHasNoTask'
  OBVIOUS
<1>. USE DEF server, bridge, handler, wire, process
<1>1. Types /\ NewHasNoTask
  BY DEF TypeInv
<1>2. CASE UNCHANGED <<conn, hpc>>
  BY <1>1, <1>2 DEF NewHasNoTask
<1>3. ASSUME NEW c \in Conns, HandlerStep(c) PROVE NewHasNoTask'
  BY <1>1, <1>3 DEF Types, NewHasNoTask, HandlerStep, Register, SnapshotDone, HandlerEnds,
                    HandleFrame, DrainOver, SnapshotSend, InSnapshot
<1>4. ASSUME NEW c \in Conns, Peer(c) PROVE NewHasNoTask'
  BY <1>1, <1>4 DEF Types, NewHasNoTask, Peer, Connect, Receive, SendFrame, Drop
<1>5. CASE CloseServer
  BY <1>1, <1>5 DEF Types, NewHasNoTask, CloseServer
<1>6. CASE BridgeStep \/ Process \/ Shutdown \/ UNCHANGED vars
  BY <1>2, <1>6
     DEF BridgeStep, Process, vars, Launch, ReadLine, BroadcastDone, BroadcastBreaks, Published,
         EndOfStdout, Waited, Slept, Unwound, BroadcastSend, TakeCommand, ProcessExit, TermExit,
         Reap, PrintSample, Shutdown
<1>. QED
  BY <1>3, <1>4, <1>5, <1>6 DEF Next

LEMMA TypeInvInit == Init => TypeInv
<1> SUFFICES ASSUME Init PROVE TypeInv
  OBVIOUS
<1>1. /\ latest \in [Keys -> 0..MaxLines] /\ device \in [Keys -> 0..MaxLines]
      /\ got \in [Conns -> [Keys -> 0..MaxLines]]
  BY ConstantsAssumption DEF Init
<1>2. cast \in Broadcast /\ snap \in [Conns -> SnapshotTask]
  BY DEF Init, NoCast, NoSnap, Broadcast, SnapshotTask
<1>3. stdout \in Seq(SampleLine) /\ Len(stdout) = 0 /\ out \in [Conns -> Seq(SampleLine)]
  BY DEF Init
<1>4. counts \in Counters
  BY DEF Init, Counters
<1>5. Len(stdout) <= StdoutCap
  BY <1>3, ConstantsAssumption
<1>6. /\ conn \in [Conns -> {"new", "open", "lost", "gone"}]
      /\ hpc \in [Conns -> {"none", "start", "snapshot", "recv", "drain", "done"}]
      /\ inbox \in [Conns -> Nat]
  BY DEF Init
<1>7. Types
  BY <1>1, <1>2, <1>3, <1>4, <1>5, <1>6 DEF Init, Types
<1>. QED
  BY <1>7 DEF Init, TypeInv, SnapshotKnown, CastIsLatest, NewHasNoTask

LEMMA TypeInvStep == TypeInv /\ [Next]_vars => TypeInv'
  BY TypesStep, SnapshotKnownStep, CastStep, NewStep DEF TypeInv

\* Every reachable state is well typed: _ws_clients holds no connection whose
\* handler has ended, and a snapshot under way no zone that has no sample.
THEOREM ServerTyped == Spec => []TypeOK
<1>1. TypeInv => TypeOK
  BY DEF TypeInv, TypeOK
<1>. QED
  BY <1>1, TypeInvInit, TypeInvStep, PTL DEF Spec

-----------------------------------------------------------------------------
(* Both pipes and connections are queues of samples.  Between the version at *)
(* the reader's end and the one at the writer's end, what is queued for a    *)
(* zone is in order.                                                         *)

Versions == [Keys -> 0..MaxLines]

Ordered(s) ==
    \A i, j \in 1..Len(s) : i <= j /\ s[i].key = s[j].key => s[i].ver <= s[j].ver
Between(s, lo, hi) ==
    \A i \in 1..Len(s) : lo[s[i].key] <= s[i].ver /\ s[i].ver <= hi[s[i].key]
AtMost(lo, hi) == \A k \in Keys : lo[k] <= hi[k]

\* A queue in order from version lo at its head to version hi at its tail.
InOrder(s, lo, hi) == Ordered(s) /\ Between(s, lo, hi) /\ AtMost(lo, hi)

\* Taking the head moves the lower end up to it.
LEMMA OrderTake ==
    ASSUME NEW s \in Seq(SampleLine), s # <<>>,
           NEW lo \in Versions, NEW hi \in Versions, InOrder(s, lo, hi)
    PROVE  /\ lo[Head(s).key] <= Head(s).ver /\ Head(s).ver <= hi[Head(s).key]
           /\ InOrder(Tail(s), [lo EXCEPT ![Head(s).key] = Head(s).ver], hi)
<1> DEFINE h  == s[1]
           t  == Tail(s)
           lo2 == [lo EXCEPT ![h.key] = h.ver]
<1>1. /\ Head(s) = h /\ Len(s) \in Nat /\ 1 \in 1..Len(s) /\ h \in SampleLine
      /\ t \in Seq(SampleLine) /\ Len(t) = Len(s) - 1
      /\ \A i \in 1..Len(t) : i + 1 \in 1..Len(s) /\ t[i] = s[i + 1]
  OBVIOUS
<1>2. h.key \in Keys /\ h.ver \in 0..MaxLines
  BY <1>1, VersionType
<1>3. lo[h.key] <= h.ver /\ h.ver <= hi[h.key]
  BY <1>1 DEF InOrder, Between
<1>4. \A k \in Keys : lo2[k] = IF k = h.key THEN h.ver ELSE lo[k]
  BY DEF Versions
<1>5. AtMost(lo2, hi)
  BY <1>3, <1>4 DEF InOrder, AtMost
<1>6. Ordered(t)
  <2> SUFFICES ASSUME NEW i \in 1..Len(t), NEW j \in 1..Len(t), i <= j, t[i].key = t[j].key
               PROVE  t[i].ver <= t[j].ver
    BY DEF Ordered
  <2>1. /\ i + 1 \in 1..Len(s) /\ j + 1 \in 1..Len(s) /\ i + 1 <= j + 1
        /\ t[i] = s[i + 1] /\ t[j] = s[j + 1]
    BY <1>1
  <2>. QED
    BY <2>1 DEF InOrder, Ordered
<1>7. Between(t, lo2, hi)
  <2> SUFFICES ASSUME NEW i \in 1..Len(t)
               PROVE  lo2[t[i].key] <= t[i].ver /\ t[i].ver <= hi[t[i].key]
    BY DEF Between
  <2>1. /\ i + 1 \in 1..Len(s) /\ 1 <= i + 1 /\ t[i] = s[i + 1] /\ t[i] \in SampleLine
    BY <1>1
  <2>2. lo[t[i].key] <= t[i].ver /\ t[i].ver <= hi[t[i].key]
    BY <2>1 DEF InOrder, Between
  <2>3. t[i].key = h.key => h.ver <= t[i].ver
    BY <1>1, <2>1 DEF InOrder, Ordered
  <2>. QED
    BY <1>4, <2>1, <2>2, <2>3, VersionType
<1>. QED
  BY <1>1, <1>3, <1>5, <1>6, <1>7 DEF InOrder

\* Putting the newest version of a zone at the tail.
LEMMA OrderPut ==
    ASSUME NEW s \in Seq(SampleLine), NEW e \in SampleLine,
           NEW lo \in Versions, NEW hi \in Versions, NEW hi2 \in Versions,
           InOrder(s, lo, hi), AtMost(hi, hi2), e.ver = hi2[e.key]
    PROVE  InOrder(Append(s, e), lo, hi2)
<1> DEFINE t == Append(s, e)
           n == Len(s) + 1
<1>1. /\ Len(s) \in Nat /\ Len(t) = n /\ t[n] = e /\ e.key \in Keys
      /\ \A i \in 1..Len(t) : i = n \/ (i \in 1..Len(s) /\ t[i] = s[i] /\ s[i] \in SampleLine)
  BY VersionType
<1>2. \A k \in Keys : lo[k] \in Nat /\ hi[k] \in Nat /\ hi2[k] \in Nat /\ lo[k] <= hi[k]
                      /\ hi[k] <= hi2[k]
  BY ConstantsAssumption DEF Versions, InOrder, AtMost
<1>3. \A i \in 1..Len(s) : /\ s[i].key \in Keys /\ s[i].ver \in Nat
                           /\ lo[s[i].key] <= s[i].ver /\ s[i].ver <= hi[s[i].key]
  BY VersionType, ConstantsAssumption DEF InOrder, Between
<1>4. \A i \in 1..Len(s) : s[i].ver <= hi2[s[i].key]
  BY <1>2, <1>3
<1>5. lo[e.key] <= e.ver
  BY <1>1, <1>2
<1>6. Between(t, lo, hi2)
  BY <1>1, <1>2, <1>3, <1>4, <1>5 DEF Between
<1>7. Ordered(t)
  <2> SUFFICES ASSUME NEW i \in 1..Len(t), NEW j \in 1..Len(t), i <= j, t[i].key = t[j].key
               PROVE  t[i].ver <= t[j].ver
    BY DEF Ordered
  <2>1. CASE j = n
    <3>1. t[j] = e
      BY <1>1, <2>1
    <3>2. CASE i = n
      BY <1>1, <1>2, <2>1, <3>2
    <3>3. CASE i # n
      <4>1. i \in 1..Len(s) /\ t[i] = s[i]
        BY <1>1, <3>3
      <4>. QED
        BY <1>4, <3>1, <4>1
    <3>. QED
      BY <3>2, <3>3
  <2>2. CASE j # n
    <3>1. i \in 1..Len(s) /\ j \in 1..Len(s) /\ t[i] = s[i] /\ t[j] = s[j]
      BY <1>1, <2>2
    <3>. QED
      BY <3>1 DEF InOrder, Ordered
  <2>. QED
    BY <2>1, <2>2
<1>8. AtMost(lo, hi2)
  BY <1>2 DEF AtMost
<1>. QED
  BY <1>6, <1>7, <1>8 DEF InOrder

\* A queue stays in order when the writer's end moves on.
LEMMA OrderRaise ==
    ASSUME NEW s \in Seq(SampleLine), NEW lo \in Versions, NEW hi \in Versions,
           NEW hi2 \in Versions, InOrder(s, lo, hi), AtMost(hi, hi2)
    PROVE  InOrder(s, lo, hi2)
<1>1. \A k \in Keys : lo[k] \in Nat /\ hi[k] \in Nat /\ hi2[k] \in Nat /\ lo[k] <= hi[k]
                      /\ hi[k] <= hi2[k]
  BY ConstantsAssumption DEF Versions, InOrder, AtMost
<1>2. \A i \in 1..Len(s) : s[i].key \in Keys /\ s[i].ver \in Nat
  BY VersionType, ConstantsAssumption
<1>3. Between(s, lo, hi2)
  BY <1>1, <1>2 DEF InOrder, Between
<1>. QED
  BY <1>1, <1>3 DEF InOrder, AtMost

LEMMA OrderEmpty ==
    ASSUME NEW lo \in Versions, NEW hi \in Versions, AtMost(lo, hi)
    PROVE  InOrder(<<>>, lo, hi)
  BY DEF InOrder, Ordered, Between

\* From the device through stdout into _latest, and on to every peer.
PipeInOrder == InOrder(stdout, latest, device)
WireInOrder == \A c \in Conns : InOrder(out[c], got[c], latest)
QueuesInOrder == PipeInOrder /\ WireInOrder

\* What a step does to the queues: nothing, except that out may be emptied, or
\* one of the five below.
LEMMA OrderFrame ==
    ASSUME Types, QueuesInOrder, UNCHANGED <<latest, device, got>>,
           stdout' \in {stdout, <<>>}, \A c \in Conns : out'[c] \in {out[c], <<>>}
    PROVE  QueuesInOrder'
<1>1. latest \in Versions /\ device \in Versions /\ \A c \in Conns : got[c] \in Versions
  BY DEF Types, Versions
<1>2. AtMost(latest, device) /\ \A c \in Conns : AtMost(got[c], latest)
  BY DEF QueuesInOrder, PipeInOrder, WireInOrder, InOrder
<1>3. PipeInOrder'
  BY <1>1, <1>2, OrderEmpty DEF QueuesInOrder, PipeInOrder
<1>4. ASSUME NEW c \in Conns
      PROVE  InOrder(out'[c], got[c], latest)
  BY <1>1, <1>2, OrderEmpty DEF QueuesInOrder, WireInOrder
<1>. QED
  BY <1>3, <1>4 DEF QueuesInOrder, WireInOrder

\* Queueing what _latest holds for a zone.
LEMMA OrderQueued ==
    ASSUME Types, WireInOrder, NEW c \in Conns, NEW k \in Keys, latest[k] # 0,
           NEW d \in Conns
    PROVE  InOrder(Queued(c, k, latest[k])[d], got[d], latest)
<1>1. latest \in Versions /\ got[d] \in Versions /\ out[d] \in Seq(SampleLine)
  BY DEF Types, Versions
<1>2. [key |-> k, ver |-> latest[k]] \in SampleLine
  BY ConstantsAssumption DEF Types, SampleLine
<1>3. AtMost(latest, latest)
  BY <1>1, ConstantsAssumption DEF AtMost, Versions
<1>4. InOrder(Append(out[d], [key |-> k, ver |-> latest[k]]), got[d], latest)
  BY <1>1, <1>2, <1>3, OrderPut DEF WireInOrder
<1>. QED
  BY <1>4 DEF Queued, Types, WireInOrder

LEMMA PrintInOrder ==
    ASSUME Types, QueuesInOrder, NEW k \in Keys, NEW v \in 1..MaxLines, PrintSample(k, v)
    PROVE  QueuesInOrder'
<1> DEFINE e == [key |-> k, ver |-> v]
<1>1. /\ latest \in Versions /\ device \in Versions /\ stdout \in Seq(SampleLine)
      /\ e \in SampleLine
  BY DEF Types, Versions, SampleLine
<1>2. /\ device' = [device EXCEPT ![k] = v] /\ stdout' = Append(stdout, e)
      /\ v \in {device[k], device[k] + 1}
      /\ UNCHANGED <<latest, out, got>>
  BY DEF PrintSample, server, wire
<1>3. device' \in Versions /\ AtMost(device, device') /\ e.ver = device'[e.key]
  BY <1>1, <1>2, ConstantsAssumption DEF AtMost, Versions
<1>4. PipeInOrder'
  BY <1>1, <1>2, <1>3, OrderPut DEF QueuesInOrder, PipeInOrder
<1>. QED
  BY <1>2, <1>4 DEF QueuesInOrder, WireInOrder

LEMMA ReadInOrder ==
    ASSUME Types, QueuesInOrder, ReadLine
    PROVE  QueuesInOrder'
<1> DEFINE h == Head(stdout)
<1>1. /\ latest \in Versions /\ device \in Versions /\ stdout \in Seq(SampleLine)
      /\ stdout # <<>> /\ h \in SampleLine
  BY DEF ReadLine, Types, Versions
<1>2. /\ latest' = [latest EXCEPT ![h.key] = h.ver] /\ stdout' = Tail(stdout)
      /\ UNCHANGED <<device, out, got>>
  BY DEF ReadLine, wire
<1>3. latest[h.key] <= h.ver /\ InOrder(stdout', latest', device)
  BY <1>1, <1>2, OrderTake DEF QueuesInOrder, PipeInOrder
<1>4. latest' \in Versions
  BY <1>1, <1>2, VersionType DEF Versions
<1>5. AtMost(latest, latest')
  BY <1>1, <1>2, <1>3, ConstantsAssumption DEF AtMost, Versions
<1>6. ASSUME NEW c \in Conns
      PROVE  InOrder(out[c], got[c], latest')
  <2>1. out[c] \in Seq(SampleLine) /\ got[c] \in Versions
    BY DEF Types, Versions
  <2>. QED
    BY <1>1, <1>4, <1>5, <2>1, OrderRaise DEF QueuesInOrder, WireInOrder
<1>. QED
  BY <1>2, <1>3, <1>6 DEF QueuesInOrder, PipeInOrder, WireInOrder

\* What a peer takes is not older than what it has.
LEMMA ReceiveInOrder ==
    ASSUME Types, QueuesInOrder, NEW c \in Conns, Receive(c)
    PROVE  QueuesInOrder' /\ \A d \in Conns : AtMost(got[d], got'[d])
<1> DEFINE h == Head(out[c])
<1>1. /\ latest \in Versions /\ got \in [Conns -> Versions] /\ out[c] \in Seq(SampleLine)
      /\ out[c] # <<>> /\ h \in SampleLine /\ h.key \in Keys
  BY VersionType DEF Receive, Types, Versions
<1>2. /\ got' = [got EXCEPT ![c] = [got[c] EXCEPT ![h.key] = h.ver]]
      /\ out' = [out EXCEPT ![c] = Tail(out[c])]
      /\ UNCHANGED <<latest, device, stdout>>
  BY DEF Receive, server, process
<1>3. /\ got[c][h.key] <= h.ver
      /\ InOrder(Tail(out[c]), [got[c] EXCEPT ![h.key] = h.ver], latest)
  BY <1>1, OrderTake DEF QueuesInOrder, WireInOrder
<1>4. \A d \in Conns : d # c => out'[d] = out[d] /\ got'[d] = got[d]
  BY <1>1, <1>2 DEF Types
<1>5. out'[c] = Tail(out[c]) /\ got'[c] = [got[c] EXCEPT ![h.key] = h.ver]
  BY <1>1, <1>2 DEF Types
<1>6. QueuesInOrder'
  BY <1>2, <1>3, <1>4, <1>5 DEF QueuesInOrder, PipeInOrder, WireInOrder
<1>7. \A d \in Conns : AtMost(got[d], got[d])
  BY <1>1, ConstantsAssumption DEF AtMost, Versions
<1>8. AtMost(got[c], got'[c])
  BY <1>1, <1>3, <1>5, <1>7, ConstantsAssumption DEF AtMost, Versions
<1>. QED
  BY <1>4, <1>6, <1>7, <1>8

LEMMA SendsInOrder ==
    ASSUME TypeInv, QueuesInOrder, NEW c \in Conns,
           BroadcastSend(c) \/ \E k \in Keys : SnapshotSend(c, k)
    PROVE  QueuesInOrder' /\ UNCHANGED got
<1>. USE DEF server, handler, process
<1>1. Types /\ UNCHANGED <<latest, device, stdout, got>>
  BY DEF TypeInv, BroadcastSend, SnapshotSend
<1>2. ASSUME NEW k \in Keys, latest[k] # 0, out' = Queued(c, k, latest[k])
      PROVE  QueuesInOrder'
  BY <1>1, <1>2, OrderQueued DEF QueuesInOrder, PipeInOrder, WireInOrder
<1>3. CASE BroadcastSend(c)
  <2>1. cur.key \in Keys /\ latest[cur.key] = cur.ver /\ cur.ver # 0
    BY <1>3, VersionType DEF BroadcastSend, InBroadcast, TypeInv, CastIsLatest
  <2>2. out' = Queued(c, cur.key, latest[cur.key]) \/ out' = out
    BY <1>3, <2>1 DEF BroadcastSend
  <2>3. CASE out' = out
    BY <1>1, <2>3 DEF QueuesInOrder, PipeInOrder, WireInOrder
  <2>. QED
    BY <1>1, <1>2, <2>1, <2>2, <2>3
<1>4. ASSUME NEW k \in Keys, SnapshotSend(c, k)
      PROVE  QueuesInOrder'
  <2>1. latest[k] # 0
    BY <1>4 DEF SnapshotSend, InSnapshot, TypeInv, SnapshotKnown, Known
  <2>. QED
    BY <1>2, <1>4, <2>1 DEF SnapshotSend
<1>. QED
  BY <1>1, <1>3, <1>4

\* Every step keeps the queues in order and takes no peer back.
LEMMA QueuesStep ==
    ASSUME TypeInv, QueuesInOrder, [Next]_vars
    PROVE  QueuesInOrder' /\ \A c \in Conns : AtMost(got[c], got'[c])
<1>. USE DEF server, bridge, handler, wire, process
<1>1. Types
  BY DEF TypeInv
<1>2. \A c \in Conns : AtMost(got[c], got[c])
  BY <1>1, ConstantsAssumption DEF Types, AtMost
<1>3. ASSUME UNCHANGED got, QueuesInOrder'
      PROVE  QueuesInOrder' /\ \A c \in Conns : AtMost(got[c], got'[c])
  BY <1>2, <1>3
<1>4. ASSUME UNCHANGED <<latest, device, got>>, stdout' \in {stdout, <<>>},
             \A c \in Conns : out'[c] \in {out[c], <<>>}
      PROVE  QueuesInOrder' /\ \A c \in Conns : AtMost(got[c], got'[c])
  BY <1>1, <1>3, <1>4, OrderFrame
<1>5. CASE ReadLine
  BY <1>1, <1>3, <1>5, ReadInOrder DEF ReadLine
<1>6. ASSUME NEW c \in Conns, BroadcastSend(c) \/ \E k \in Keys : SnapshotSend(c, k)
      PROVE  QueuesInOrder' /\ \A d \in Conns : AtMost(got[d], got'[d])
  BY <1>3, <1>6, SendsInOrder
<1>7. ASSUME NEW c \in Conns, Receive(c)
      PROVE  QueuesInOrder' /\ \A d \in Conns : AtMost(got[d], got'[d])
  BY <1>1, <1>7, ReceiveInOrder
<1>8. ASSUME NEW k \in Keys, NEW v \in 1..MaxLines, PrintSample(k, v)
      PROVE  QueuesInOrder' /\ \A d \in Conns : AtMost(got[d], got'[d])
  BY <1>1, <1>3, <1>8, PrintInOrder DEF PrintSample
<1>9. CASE \/ Launch \/ BroadcastDone \/ BroadcastBreaks \/ Published \/ EndOfStdout
           \/ Waited \/ Slept \/ Unwound \/ TakeCommand \/ ProcessExit \/ TermExit \/ Reap
           \/ Shutdown \/ CloseServer \/ UNCHANGED vars
  <2>1. UNCHANGED <<latest, device, got>> /\ stdout' \in {stdout, <<>>}
    BY <1>9 DEF Launch, BroadcastDone, BroadcastBreaks, Published, EndOfStdout, Waited,
                Slept, Unwound, TakeCommand, ProcessExit, TermExit, Reap, Shutdown,
                CloseServer, vars
  <2>2. \A c \in Conns : out'[c] \in {out[c], <<>>}
    BY <1>9 DEF Launch, BroadcastDone, BroadcastBreaks, Published, EndOfStdout, Waited,
                Slept, Unwound, TakeCommand, ProcessExit, TermExit, Reap, Shutdown,
                CloseServer, vars
  <2>. QED
    BY <1>4, <2>1, <2>2
<1>10. ASSUME NEW c \in Conns,
              \/ Register(c) \/ SnapshotDone(c) \/ HandlerEnds(c) \/ HandleFrame(c)
              \/ DrainOver(c) \/ Connect(c) \/ SendFrame(c) \/ Drop(c)
       PROVE  QueuesInOrder' /\ \A d \in Conns : AtMost(got[d], got'[d])
  <2>1. UNCHANGED <<latest, device, got, stdout>>
    BY <1>10 DEF Register, SnapshotDone, HandlerEnds, HandleFrame, DrainOver, Connect,
                 SendFrame, Drop
  <2>2. \A d \in Conns : out'[d] \in {out[d], <<>>}
    BY <1>1, <1>10 DEF Types, Register, SnapshotDone, HandlerEnds, HandleFrame, DrainOver,
                       Connect, SendFrame, Drop
  <2>. QED
    BY <1>4, <2>1, <2>2
<1>. QED
  BY <1>5, <1>6, <1>7, <1>8, <1>9, <1>10 DEF Next, BridgeStep, HandlerStep, Peer, Process

\* Whatever tasks interleave on a connection, and however often the bridge is
\* relaunched, no peer is ever sent a sample older than one it received.
THEOREM PeersNeverGoBack == Spec => NeverGoesBack
<1> DEFINE NotBack == \A c \in Conns, k \in Keys : got'[c][k] >= got[c][k]
<1>1. Init => QueuesInOrder
  <2> SUFFICES ASSUME Init PROVE QueuesInOrder
    OBVIOUS
  <2>1. latest \in Versions /\ device \in Versions /\ \A c \in Conns : got[c] \in Versions
    BY ConstantsAssumption DEF Init, Versions
  <2>2. AtMost(latest, device) /\ \A c \in Conns : AtMost(got[c], latest)
    BY DEF Init, AtMost
  <2>3. stdout = <<>> /\ \A c \in Conns : out[c] = <<>>
    BY DEF Init
  <2>. QED
    BY <2>1, <2>2, <2>3, OrderEmpty DEF QueuesInOrder, PipeInOrder, WireInOrder
<1>2. TypeInv /\ QueuesInOrder /\ [Next]_vars => QueuesInOrder'
  BY QueuesStep
<1>3. TypeInv /\ TypeInv' /\ QueuesInOrder /\ [Next]_vars => [NotBack]_vars
  <2> SUFFICES ASSUME TypeInv, TypeInv', QueuesInOrder, [Next]_vars,
                      NEW c \in Conns, NEW k \in Keys
               PROVE  got'[c][k] >= got[c][k]
    OBVIOUS
  <2>1. got[c][k] <= got'[c][k]
    BY QueuesStep DEF AtMost
  <2>2. got[c][k] \in 0..MaxLines /\ got'[c][k] \in 0..MaxLines
    BY DEF TypeInv, Types
  <2>. QED
    BY <2>1, <2>2, ConstantsAssumption
<1>. QED
  BY <1>1, <1>2, <1>3, TypeInvInit, TypeInvStep, PTL DEF Spec, NeverGoesBack

-----------------------------------------------------------------------------
(* Between its snapshot and the broadcasts a client misses nothing: whatever *)
(* it was not sent yet is still in its snapshot or in the broadcast under    *)
(* way.                                                                      *)

\* Version v of zone k is what somebody who has g knows once queue s is taken:
\* Heard, without its CHOOSE.
Tells(s, g, k, v) ==
    \/ v = g[k] /\ \A i \in 1..Len(s) : s[i].key # k
    \/ \E i \in 1..Len(s) :
          /\ s[i].key = k /\ s[i].ver = v
          /\ \A j \in 1..Len(s) : j > i => s[j].key # k

LEMMA HeardIsTold ==
    ASSUME Types, NEW c \in Conns, NEW k \in Keys, NEW v, Tells(out[c], got[c], k, v)
    PROVE  Heard(c, k) = v
<1> DEFINE s == out[c]
           sent == {i \in DOMAIN s : s[i].key = k}
<1>1. s \in Seq(SampleLine) /\ DOMAIN s = 1..Len(s) /\ Len(s) \in Nat
  BY DEF Types
<1>2. CASE v = got[c][k] /\ \A i \in 1..Len(s) : s[i].key # k
  <2>1. sent = {}
    BY <1>1, <1>2
  <2>. QED
    BY <1>2, <2>1 DEF Heard
<1>3. ASSUME NEW i \in 1..Len(s), s[i].key = k, s[i].ver = v,
             \A j \in 1..Len(s) : j > i => s[j].key # k
      PROVE  Heard(c, k) = v
  <2>1. i \in sent /\ sent \subseteq 1..Len(s)
    BY <1>1, <1>3
  <2>2. \A j \in sent : j <= i
    BY <1>1, <1>3
  <2> DEFINE last == CHOOSE l \in sent : \A j \in sent : j <= l
  <2>3. last \in sent /\ \A j \in sent : j <= last
    BY <2>1, <2>2
  <2>4. last = i
    BY <1>1, <2>1, <2>2, <2>3
  <2>. QED
    BY <1>3, <2>1, <2>4 DEF Heard
<1>. QED
  BY <1>2, <1>3 DEF Tells

LEMMA TellsTake ==
    ASSUME NEW s \in Seq(SampleLine), s # <<>>, NEW g \in Versions,
           NEW k \in Keys, NEW v, Tells(s, g, k, v)
    PROVE  Tells(Tail(s), [g EXCEPT ![Head(s).key] = Head(s).ver], k, v)
<1> DEFINE h  == s[1]
           t  == Tail(s)
           g2 == [g EXCEPT ![h.key] = h.ver]
<1>1. /\ Head(s) = h /\ Len(s) \in Nat /\ 1 \in 1..Len(s)
      /\ Len(t) = Len(s) - 1
      /\ \A i \in 1..Len(t) : i + 1 \in 1..Len(s) /\ t[i] = s[i + 1]
  OBVIOUS
<1>2. \A i \in 1..Len(s) : i # 1 => i - 1 \in 1..Len(t) /\ t[i - 1] = s[i]
  BY <1>1
<1>3. g2[k] = IF h.key = k THEN h.ver ELSE g[k]
  BY DEF Versions
<1>4. CASE v = g[k] /\ \A i \in 1..Len(s) : s[i].key # k
  BY <1>1, <1>3, <1>4 DEF Tells
<1>5. ASSUME NEW i \in 1..Len(s), s[i].key = k, s[i].ver = v,
             \A j \in 1..Len(s) : j > i => s[j].key # k
      PROVE  Tells(t, g2, k, v)
  <2>1. CASE i = 1
    <3>1. \A j \in 1..Len(t) : t[j].key # k
      BY <1>1, <1>5, <2>1
    <3>. QED
      BY <1>3, <1>5, <2>1, <3>1 DEF Tells
  <2>2. CASE i # 1
    <3>1. i - 1 \in 1..Len(t) /\ t[i - 1].key = k /\ t[i - 1].ver = v
      BY <1>2, <1>5, <2>2
    <3>2. ASSUME NEW j \in 1..Len(t), j > i - 1
          PROVE  t[j].key # k
      BY <1>1, <1>5, <3>2
    <3>. QED
      BY <3>1, <3>2 DEF Tells
  <2>. QED
    BY <2>1, <2>2
<1>. QED
  BY <1>1, <1>4, <1>5 DEF Tells

LEMMA TellsPut ==
    ASSUME NEW s \in Seq(SampleLine), NEW g, NEW k \in Keys, NEW e \in SampleLine
    PROVE  /\ e.key = k => Tells(Append(s, e), g, k, e.ver)
           /\ \A v : e.key # k /\ Tells(s, g, k, v) => Tells(Append(s, e), g, k, v)
<1> DEFINE t == Append(s, e)
           n == Len(s) + 1
<1>1. /\ Len(s) \in Nat /\ Len(t) = n /\ t[n] = e /\ n \in 1..Len(t)
      /\ \A i \in 1..Len(s) : i \in 1..Len(t) /\ t[i] = s[i]
      /\ \A i \in 1..Len(t) : i = n \/ i \in 1..Len(s)
  OBVIOUS
<1>2. ASSUME e.key = k
      PROVE  Tells(t, g, k, e.ver)
  BY <1>1, <1>2 DEF Tells
<1>3. ASSUME NEW v, e.key # k, Tells(s, g, k, v)
      PROVE  Tells(t, g, k, v)
  <2>1. CASE v = g[k] /\ \A i \in 1..Len(s) : s[i].key # k
    BY <1>1, <1>3, <2>1 DEF Tells
  <2>2. ASSUME NEW i \in 1..Len(s), s[i].key = k, s[i].ver = v,
               \A j \in 1..Len(s) : j > i => s[j].key # k
        PROVE  Tells(t, g, k, v)
    <3>1. i \in 1..Len(t) /\ t[i].key = k /\ t[i].ver = v
      BY <1>1, <2>2
    <3>2. \A j \in 1..Len(t) : j > i => t[j].key # k
      BY <1>1, <1>3, <2>2
    <3>. QED
      BY <3>1, <3>2 DEF Tells
  <2>. QED
    BY <1>3, <2>1, <2>2 DEF Tells
<1>. QED
  BY <1>2, <1>3

Registered(c) == hpc[c] \in {"snapshot", "recv", "drain"}

\* A connection is a client exactly while its handler runs and it was not found
\* closed; before that nothing was sent on it.
ClientFacts ==
    \A c \in Conns :
        /\ conn[c] = "new" <=> hpc[c] = "none"
        /\ hpc[c] = "done" => conn[c] = "gone"
        /\ c \in clients => Registered(c)
        /\ Registered(c) /\ conn[c] = "open" => c \in clients
        /\ hpc[c] \in {"none", "start"} =>
              out[c] = <<>> /\ \A k \in Keys : got[c][k] = 0
\* Nobody is taken for closed who is not.
DeadFacts ==
    /\ \A c \in cast.dead : conn[c] \notin {"new", "open"}
    /\ cast.at # None => conn[cast.at] # "new"

\* c was sent the latest sample of k, or is about to be.
Served(c, k) ==
    \/ Tells(out[c], got[c], k, latest[k])
    \/ hpc[c] = "snapshot" /\ k \in snap[c].todo
    \/ bpc = "broadcast" /\ k = cur.key /\ c \in cast.todo \ cast.seen

AllServed ==
    bpc \notin {"dying", "dead"} =>
        \A c \in Conns, k \in Keys : Registered(c) /\ conn[c] = "open" => Served(c, k)

ServeInv == ClientFacts /\ DeadFacts /\ AllServed

LEMMA ServedCurrent == TypeInv /\ ServeInv => ClientsCurrent
<1> SUFFICES ASSUME TypeInv, ServeInv, bpc \notin {"broadcast", "dying", "dead"},
                    NEW c \in Conns, hpc[c] \in {"recv", "drain"}, conn[c] = "open",
                    NEW k \in Keys
             PROVE  Heard(c, k) = latest[k]
  BY DEF ClientsCurrent
<1>1. Tells(out[c], got[c], k, latest[k])
  BY DEF ServeInv, AllServed, Served, Registered
<1>. QED
  BY <1>1, HeardIsTold DEF TypeInv

LEMMA ClientFactsStep == TypeInv /\ ServeInv /\ [Next]_vars => ClientFacts'
<1> SUFFICES ASSUME TypeInv, ServeInv, [Next]_vars PROVE ClientFacts'
  OBVIOUS
<1>. USE DEF server, bridge, handler, wire, process
<1>1. Types /\ ClientFacts /\ DeadFacts
  BY DEF TypeInv, ServeInv
<1>2. ASSUME NEW c \in Conns, Register(c)
      PROVE  ClientFacts'
  BY <1>1, <1>2 DEF Register, ClientFacts, Registered, Types
<1>3. ASSUME NEW c \in Conns, SnapshotDone(c) \/ HandleFrame(c) \/ DrainOver(c)
      PROVE  ClientFacts'
  <2>1. UNCHANGED <<clients, conn, out, got>>
    BY <1>3 DEF SnapshotDone, HandleFrame, DrainOver
  <2>2. \A d \in Conns :
           hpc'[d] = hpc[d] \/ (Registered(d) /\ hpc'[d] \in {"recv", "drain"})
    BY <1>1, <1>3 DEF SnapshotDone, InSnapshot, HandleFrame, DrainOver, Registered, Types
  <2>. QED
    BY <1>1, <2>1, <2>2 DEF ClientFacts, Registered
<1>4. ASSUME NEW c \in Conns, HandlerEnds(c)
      PROVE  ClientFacts'
  BY <1>1, <1>4 DEF HandlerEnds, InSnapshot, ClientFacts, Registered, Types
<1>5. ASSUME NEW c \in Conns, NEW k \in Keys, SnapshotSend(c, k)
      PROVE  ClientFacts'
  <2>1. UNCHANGED <<clients, conn, hpc, got>> /\ hpc[c] = "snapshot"
    BY <1>5 DEF SnapshotSend, InSnapshot
  <2>2. \A d \in Conns : d # c => out'[d] = out[d]
    BY <1>1, <1>5 DEF SnapshotSend, Queued, Types
  <2>. QED
    BY <1>1, <2>1, <2>2 DEF ClientFacts, Registered
<1>6. ASSUME NEW c \in Conns, BroadcastSend(c)
      PROVE  ClientFacts'
  <2>1. UNCHANGED <<clients, conn, hpc, got>> /\ c \in clients
    BY <1>6 DEF BroadcastSend
  <2>2. \A d \in Conns : d # c => out'[d] = out[d]
    BY <1>1, <1>6 DEF BroadcastSend, Queued, Types
  <2>. QED
    BY <1>1, <2>1, <2>2 DEF ClientFacts, Registered
<1>7. CASE BroadcastDone
  <2>1. \A d \in Dead : conn[d] # "open"
    BY <1>1 DEF Dead, DeadFacts
  <2>. QED
    BY <1>1, <1>7, <2>1 DEF BroadcastDone, ClientFacts, Registered
<1>8. ASSUME NEW c \in Conns, Connect(c)
      PROVE  ClientFacts'
  BY <1>1, <1>8 DEF Connect, ClientFacts, Registered, Types
<1>9. ASSUME NEW c \in Conns, Receive(c)
      PROVE  ClientFacts'
  <2>1. UNCHANGED <<clients, conn, hpc>> /\ out[c] # <<>>
    BY <1>9 DEF Receive
  <2>2. \A d \in Conns : d # c => out'[d] = out[d] /\ got'[d] = got[d]
    BY <1>1, <1>9 DEF Receive, Types
  <2>. QED
    BY <1>1, <2>1, <2>2 DEF ClientFacts, Registered
<1>10. ASSUME NEW c \in Conns, Drop(c)
       PROVE  ClientFacts'
  BY <1>1, <1>10 DEF Drop, ClientFacts, Registered, Types
<1>11. CASE CloseServer
  BY <1>1, <1>11 DEF CloseServer, ClientFacts, Registered, Types
<1>12. ASSUME UNCHANGED <<clients, conn, hpc, out, got>>
       PROVE  ClientFacts'
  BY <1>1, <1>12 DEF ClientFacts, Registered
<1>13. ASSUME \/ Launch \/ ReadLine \/ BroadcastBreaks \/ Published
              \/ EndOfStdout \/ Waited \/ Slept \/ Unwound
              \/ Process \/ Shutdown \/ UNCHANGED vars
              \/ \E c \in Conns : SendFrame(c)
       PROVE  ClientFacts'
  BY <1>12, <1>13
     DEF Launch, ReadLine, BroadcastBreaks, Published, EndOfStdout, Waited, Slept, Unwound,
         Process, TakeCommand, ProcessExit, TermExit, Reap, PrintSample, Shutdown, vars,
         SendFrame
<1>. QED
  BY <1>2, <1>3, <1>4, <1>5, <1>6, <1>7, <1>8, <1>9, <1>10, <1>11, <1>13
     DEF Next, BridgeStep, HandlerStep, Peer

LEMMA DeadFactsStep == TypeInv /\ ServeInv /\ [Next]_vars => DeadFacts'
<1> SUFFICES ASSUME TypeInv, ServeInv, [Next]_vars PROVE DeadFacts'
  OBVIOUS
<1>. USE DEF server, bridge, handler, wire, process
<1>1. Types /\ ClientFacts /\ DeadFacts
  BY DEF TypeInv, ServeInv
<1>2. cast.dead \in SUBSET Conns /\ cast.at \in Conns \cup {None}
  BY <1>1 DEF Types, Broadcast
<1>3. \A d \in Dead : d \in Conns /\ conn[d] \notin {"new", "open"}
  BY <1>1, <1>2 DEF Dead, DeadFacts
\* A connection that is not new stays so, one found closed does too.
<1>4. \A d \in Conns : /\ conn[d] # "new" => conn'[d] # "new"
                       /\ conn[d] \notin {"new", "open"} => conn'[d] \notin {"new", "open"}
  <2>1. \/ UNCHANGED conn
        \/ \E c \in Conns : Connect(c) \/ Drop(c) \/ HandlerEnds(c)
        \/ CloseServer
    BY DEF Next, vars, BridgeStep, HandlerStep, Peer, Process, Launch, ReadLine,
           BroadcastDone, BroadcastBreaks, Published, EndOfStdout, Waited, Slept, Unwound,
           BroadcastSend, Register, SnapshotDone, HandleFrame, DrainOver,
           SnapshotSend, Receive, SendFrame, TakeCommand, ProcessExit, TermExit,
           Reap, PrintSample, Shutdown
  <2>2. ASSUME NEW c \in Conns, Connect(c) \/ Drop(c) \/ HandlerEnds(c), NEW d \in Conns
        PROVE  /\ conn[d] # "new" => conn'[d] # "new"
               /\ conn[d] \notin {"new", "open"} => conn'[d] \notin {"new", "open"}
    BY <1>1, <2>2 DEF Connect, Drop, HandlerEnds, Types
  <2>3. ASSUME CloseServer, NEW d \in Conns
        PROVE  /\ conn[d] # "new" => conn'[d] # "new"
               /\ conn[d] \notin {"new", "open"} => conn'[d] \notin {"new", "open"}
    BY <1>1, <2>3 DEF CloseServer, Types
  <2>. QED
    BY <2>1, <2>2, <2>3
<1>5. ASSUME UNCHANGED cast
      PROVE  DeadFacts'
  BY <1>1, <1>2, <1>4, <1>5 DEF DeadFacts
<1>6. ASSUME cast'.dead = {}, cast'.at = None
      PROVE  DeadFacts'
  BY <1>6 DEF DeadFacts
<1>7. ASSUME NEW c \in Conns, BroadcastSend(c)
      PROVE  DeadFacts'
  <2>1. c \in clients /\ conn[c] # "new" /\ UNCHANGED conn
    BY <1>1, <1>7 DEF BroadcastSend, ClientFacts, Registered
  <2>2. cast \in Broadcast
    BY <1>1 DEF Types
  <2>3. CASE conn[c] = "open"
    <3>1. cast'.dead = Dead /\ cast'.at = c
      BY <1>7, <2>2, <2>3 DEF BroadcastSend, Broadcast
    <3>. QED
      BY <1>3, <2>1, <3>1 DEF DeadFacts
  <2>4. CASE conn[c] # "open"
    <3>1. cast'.dead = Dead \cup {c} /\ cast'.at = None
      BY <1>7, <2>2, <2>4 DEF BroadcastSend, Broadcast
    <3>. QED
      BY <1>3, <2>1, <2>4, <3>1 DEF DeadFacts
  <2>. QED
    BY <2>3, <2>4
<1>8. ReadLine => \/ UNCHANGED cast
                  \/ cast'.dead = {} /\ cast'.at = None
  BY DEF ReadLine, NoCast
<1>9. cast' = NoCast => cast'.dead = {} /\ cast'.at = None
  BY DEF NoCast
<1>10. \/ UNCHANGED cast \/ ReadLine \/ cast' = NoCast
       \/ \E c \in Conns : BroadcastSend(c)
  BY DEF Next, vars, BridgeStep, HandlerStep, Peer, Process, Launch,
         BroadcastDone, BroadcastBreaks, Published, EndOfStdout, Waited, Slept, Unwound,
         Register, SnapshotDone, HandlerEnds, HandleFrame, DrainOver, SnapshotSend,
         Connect, Receive, SendFrame, Drop, TakeCommand, ProcessExit, TermExit,
         Reap, PrintSample, Shutdown, CloseServer
<1>. QED
  BY <1>5, <1>6, <1>7, <1>8, <1>9, <1>10

\* A step that leaves c, what it was sent and what is known alone keeps c served.
LEMMA ServedFrame ==
    ASSUME NEW c \in Conns, NEW k \in Keys, Served(c, k),
           UNCHANGED <<latest, bpc, cast, cur>>,
           out'[c] = out[c], got'[c] = got[c], hpc'[c] = hpc[c], snap'[c] = snap[c]
    PROVE  Served(c, k)'
  BY DEF Served, Tells

\* A line that is stored is owed to every client until the broadcast reaches it.
LEMMA ReadServed == TypeInv /\ ServeInv /\ ReadLine => AllServed'
<1> SUFFICES ASSUME TypeInv, ServeInv, ReadLine, NEW c \in Conns, NEW k \in Keys,
                    Registered(c)', conn'[c] = "open"
             PROVE  Served(c, k)'
  BY DEF AllServed
<1>. USE DEF handler, wire
<1>1. Types
  BY DEF TypeInv
<1>2. UNCHANGED <<clients, hpc, snap, conn, out, got>> /\ bpc = "read"
  BY DEF ReadLine
<1>3. Registered(c) /\ c \in clients /\ Served(c, k)
  BY <1>2 DEF ServeInv, ClientFacts, AllServed, Registered
<1>4. \A j \in Keys : j # cur'.key => latest'[j] = latest[j]
  BY <1>1 DEF ReadLine, Types
<1>5. CASE k = cur'.key
  <2>1. bpc' = "broadcast" /\ cast' = [NoCast EXCEPT !.size = Cardinality(clients), !.todo = clients]
    BY <1>3 DEF ReadLine
  <2>2. c \in cast'.todo \ cast'.seen
    BY <1>3, <2>1 DEF NoCast
  <2>. QED
    BY <1>5, <2>1, <2>2 DEF Served
<1>6. CASE k # cur'.key
  <2>1. latest'[k] = latest[k]
    BY <1>4, <1>6
  <2>. QED
    BY <1>2, <1>3, <2>1 DEF Served, Tells
<1>. QED
  BY <1>5, <1>6

\* A send serves its client with the zone it is about, and the others as before.
LEMMA QueuedServed ==
    ASSUME TypeInv, NEW c \in Conns, NEW k \in Keys, latest[k] # 0,
           out' = Queued(c, k, latest[k]), UNCHANGED <<latest, got>>
    PROVE  /\ Tells(out[c], got[c], k, latest[k])'
           /\ \A j \in Keys : j # k /\ Tells(out[c], got[c], j, latest[j]) =>
                 Tells(out[c], got[c], j, latest[j])'
           /\ \A d \in Conns : d # c => out'[d] = out[d]
<1> DEFINE e == [key |-> k, ver |-> latest[k]]
<1>1. e \in SampleLine /\ e.key = k /\ e.ver = latest[k]
  BY ConstantsAssumption DEF TypeInv, Types, SampleLine
<1>2. out[c] \in Seq(SampleLine) /\ out'[c] = Append(out[c], e)
      /\ \A d \in Conns : d # c => out'[d] = out[d]
  BY DEF TypeInv, Types, Queued
<1>3. Tells(Append(out[c], e), got[c], k, latest[k])
  BY <1>1, <1>2, TellsPut
<1>4. ASSUME NEW j \in Keys, j # k, Tells(out[c], got[c], j, latest[j])
      PROVE  Tells(Append(out[c], e), got[c], j, latest[j])
  BY <1>1, <1>2, <1>4, TellsPut
<1>. QED
  BY <1>2, <1>3, <1>4

LEMMA SnapshotServed ==
    ASSUME TypeInv, ServeInv, NEW d \in Conns, NEW j \in Keys, SnapshotSend(d, j)
    PROVE  AllServed'
<1>. USE DEF server, bridge
<1>1. Types
  BY DEF TypeInv
<1>2. /\ UNCHANGED <<latest, clients, cur, bpc, cast, hpc, conn, got>>
      /\ hpc[d] = "snapshot" /\ j \in snap[d].todo
      /\ snap' = [snap EXCEPT ![d].todo = @ \ {j}]
      /\ out' = Queued(d, j, latest[j])
  BY DEF SnapshotSend, InSnapshot
<1>3. latest[j] # 0
  BY <1>2 DEF TypeInv, SnapshotKnown, Known
<1> SUFFICES ASSUME bpc \notin {"dying", "dead"}, NEW c \in Conns, NEW k \in Keys,
                    Registered(c), conn[c] = "open"
             PROVE  Served(c, k)'
  BY <1>2 DEF AllServed, Registered
<1>4. Served(c, k)
  BY DEF ServeInv, AllServed
<1>5. /\ Tells(out[d], got[d], j, latest[j])'
      /\ \A i \in Keys : i # j /\ Tells(out[d], got[d], i, latest[i]) =>
            Tells(out[d], got[d], i, latest[i])'
      /\ \A b \in Conns : b # d => out'[b] = out[b]
  BY <1>2, <1>3, QueuedServed
<1>6. CASE c # d
  <2>1. out'[c] = out[c] /\ snap'[c] = snap[c]
    BY <1>1, <1>2, <1>5, <1>6 DEF Types
  <2>. QED
    BY <1>2, <1>4, <2>1, ServedFrame
<1>7. CASE c = d /\ k = j
  BY <1>5, <1>7 DEF Served
<1>8. CASE c = d /\ k # j
  <2>1. snap'[d].todo = snap[d].todo \ {j}
    BY <1>1, <1>2 DEF Types, SnapshotTask
  <2>2. Tells(out[c], got[c], k, latest[k]) => Tells(out[c], got[c], k, latest[k])'
    BY <1>5, <1>8
  <2>. QED
    BY <1>2, <1>4, <1>8, <2>1, <2>2 DEF Served
<1>. QED
  BY <1>6, <1>7, <1>8

LEMMA BroadcastServed ==
    ASSUME TypeInv, ServeInv, NEW d \in Conns, BroadcastSend(d)
    PROVE  AllServed'
<1>. USE DEF server, handler
<1> DEFINE j == cur.key
<1>1. Types /\ cast \in Broadcast
  BY DEF TypeInv, Types
<1>2. /\ UNCHANGED <<latest, clients, cur, bpc, hpc, snap, conn, got>>
      /\ bpc = "broadcast"
      /\ conn[d] = "open" => out' = Queued(d, j, cur.ver)
      /\ conn[d] # "open" => UNCHANGED out
  BY DEF BroadcastSend, InBroadcast
<1>3. j \in Keys /\ cur.ver = latest[j] /\ latest[j] # 0
  BY <1>2, VersionType DEF TypeInv, CastIsLatest
<1>4. cast'.seen = cast.seen \cup {d} /\ cast'.todo = cast.todo
  BY <1>1 DEF BroadcastSend, Broadcast
<1> SUFFICES ASSUME NEW c \in Conns, NEW k \in Keys, Registered(c), conn[c] = "open"
             PROVE  Served(c, k)'
  BY <1>2 DEF AllServed, Registered
<1>5. Served(c, k)
  BY <1>2 DEF ServeInv, AllServed
<1>6. CASE c # d
  <2>1. out'[c] = out[c]
    BY <1>1, <1>2, <1>6 DEF Queued, Types
  <2>2. Tells(out[c], got[c], k, latest[k]) => Tells(out[c], got[c], k, latest[k])'
    BY <1>2, <2>1 DEF Tells
  <2>. QED
    BY <1>2, <1>4, <1>5, <1>6, <2>2 DEF Served
<1>7. CASE c = d
  <2>1. /\ Tells(out[d], got[d], j, latest[j])'
        /\ \A i \in Keys : i # j /\ Tells(out[d], got[d], i, latest[i]) =>
              Tells(out[d], got[d], i, latest[i])'
    BY <1>2, <1>3, <1>7, QueuedServed
  <2>2. CASE k = j
    BY <1>2, <1>7, <2>1, <2>2 DEF Served
  <2>3. CASE k # j
    BY <1>2, <1>5, <1>7, <2>1, <2>3 DEF Served
  <2>. QED
    BY <2>2, <2>3
<1>. QED
  BY <1>6, <1>7

\* Every step keeps every client served.
LEMMA ServedStep ==
    ASSUME TypeInv, ServeInv, [Next]_vars
    PROVE  AllServed'
<1>. USE DEF server, bridge, handler, wire, process
<1>1. Types /\ ClientFacts
  BY DEF TypeInv, ServeInv
<1>2. CASE ReadLine
  BY <1>2, ReadServed
<1>3. ASSUME NEW c \in Conns, BroadcastSend(c)
      PROVE  AllServed'
  BY <1>3, BroadcastServed
<1>4. ASSUME NEW c \in Conns, NEW k \in Keys, SnapshotSend(c, k)
      PROVE  AllServed'
  BY <1>4, SnapshotServed
\* The broadcast is over when it met every client of its start that is still one.
<1>5. CASE BroadcastDone
  <2>1. UNCHANGED <<latest, hpc, snap, conn, out, got>> /\ bpc = "broadcast"
        /\ clients \cap cast.todo \subseteq cast.seen
    BY <1>5 DEF BroadcastDone, InBroadcast
  <2> SUFFICES ASSUME NEW c \in Conns, NEW k \in Keys, Registered(c), conn[c] = "open"
               PROVE  Served(c, k)'
    BY <2>1 DEF AllServed, Registered
  <2>2. Served(c, k) /\ c \in clients
    BY <2>1 DEF ServeInv, AllServed, ClientFacts
  <2>. QED
    BY <2>1, <2>2 DEF Served, Tells
\* A handler starts: nothing was sent yet, and its snapshot has every sample.
<1>6. ASSUME NEW d \in Conns, Register(d)
      PROVE  AllServed'
  <2>1. /\ UNCHANGED <<latest, cur, bpc, cast, conn, out, got>>
        /\ hpc[d] = "start" /\ hpc' = [hpc EXCEPT ![d] = "snapshot"]
        /\ snap' = [snap EXCEPT ![d] = [size |-> Cardinality(Known), todo |-> Known]]
    BY <1>6 DEF Register
  <2> SUFFICES ASSUME bpc \notin {"dying", "dead"}, NEW c \in Conns, NEW k \in Keys,
                      Registered(c)', conn[c] = "open"
               PROVE  Served(c, k)'
    BY <2>1 DEF AllServed
  <2>2. CASE c = d
    <3>1. hpc'[c] = "snapshot" /\ snap'[c].todo = Known
      BY <1>1, <2>1, <2>2 DEF Types
    <3>2. out[c] = <<>> /\ got[c][k] = 0
      BY <1>1, <2>1, <2>2 DEF ClientFacts
    <3>3. k \notin Known => latest[k] = 0
      BY DEF Known
    <3>4. k \notin Known => Tells(out[c], got[c], k, latest[k])
      BY <3>2, <3>3 DEF Tells
    <3>. QED
      BY <2>1, <3>1, <3>4 DEF Served, Tells
  <2>3. CASE c # d
    <3>1. hpc'[c] = hpc[c] /\ snap'[c] = snap[c]
      BY <1>1, <2>1, <2>3 DEF Types
    <3>2. Served(c, k)
      BY <3>1 DEF ServeInv, AllServed, Registered
    <3>. QED
      BY <2>1, <3>1, <3>2, ServedFrame
  <2>. QED
    BY <2>2, <2>3
<1>7. ASSUME NEW d \in Conns, SnapshotDone(d) \/ HandleFrame(d) \/ DrainOver(d)
      PROVE  AllServed'
  <2>1. UNCHANGED <<latest, cur, bpc, cast, conn, out, got>>
    BY <1>7 DEF SnapshotDone, HandleFrame, DrainOver
  <2>2. \A c \in Conns : /\ hpc'[c] = hpc[c] \/ Registered(c)
                         /\ \A k \in Keys : hpc[c] = "snapshot" /\ k \in snap[c].todo =>
                               hpc'[c] = "snapshot" /\ k \in snap'[c].todo
    BY <1>1, <1>7
       DEF SnapshotDone, InSnapshot, HandleFrame, DrainOver, Registered, Types, NoSnap
  <2> SUFFICES ASSUME bpc \notin {"dying", "dead"}, NEW c \in Conns, NEW k \in Keys,
                      Registered(c)', conn[c] = "open"
               PROVE  Served(c, k)'
    BY <2>1 DEF AllServed
  <2>3. Served(c, k)
    BY <2>2 DEF ServeInv, AllServed, Registered
  <2>. QED
    BY <2>1, <2>2, <2>3 DEF Served, Tells
\* A handler that ends, a peer that goes and a server that closes leave fewer
\* open connections, and one that just opened is no client yet.
<1>8. ASSUME NEW d \in Conns, HandlerEnds(d) \/ Drop(d) \/ Connect(d)
      PROVE  AllServed'
  <2>1. UNCHANGED <<latest, cur, bpc, cast, got>>
    BY <1>8 DEF HandlerEnds, Drop, Connect
  <2>2. \A c \in Conns : Registered(c)' /\ conn'[c] = "open" =>
            /\ Registered(c) /\ conn[c] = "open"
            /\ hpc'[c] = hpc[c] /\ snap'[c] = snap[c] /\ out'[c] = out[c]
    BY <1>1, <1>8 DEF HandlerEnds, Drop, Connect, Registered, Types
  <2> SUFFICES ASSUME bpc \notin {"dying", "dead"}, NEW c \in Conns, NEW k \in Keys,
                      Registered(c)', conn'[c] = "open"
               PROVE  Served(c, k)'
    BY <2>1 DEF AllServed
  <2>3. Served(c, k)
    BY <2>2 DEF ServeInv, AllServed
  <2>. QED
    BY <2>1, <2>2, <2>3, ServedFrame DEF Types
<1>9. CASE CloseServer
  <2>1. \A c \in Conns : conn'[c] # "open"
    BY <1>1, <1>9 DEF CloseServer, Types
  <2>. QED
    BY <2>1 DEF AllServed
<1>10. ASSUME NEW d \in Conns, Receive(d)
       PROVE  AllServed'
  <2> DEFINE h == Head(out[d])
  <2>1. /\ UNCHANGED <<latest, cur, bpc, cast, conn, hpc, snap>>
        /\ got' = [got EXCEPT ![d] = [got[d] EXCEPT ![h.key] = h.ver]]
        /\ out' = [out EXCEPT ![d] = Tail(out[d])]
        /\ out[d] # <<>>
    BY <1>10 DEF Receive
  <2> SUFFICES ASSUME bpc \notin {"dying", "dead"}, NEW c \in Conns, NEW k \in Keys,
                      Registered(c), conn[c] = "open"
               PROVE  Served(c, k)'
    BY <2>1 DEF AllServed, Registered
  <2>2. Served(c, k)
    BY DEF ServeInv, AllServed
  <2>3. CASE c = d
    <3>1. out[c] \in Seq(SampleLine) /\ got[c] \in Versions
      BY <1>1 DEF Types, Versions
    <3>2. out'[c] = Tail(out[c]) /\ got'[c] = [got[c] EXCEPT ![h.key] = h.ver]
      BY <1>1, <2>1, <2>3 DEF Types
    <3>3. Tells(out[c], got[c], k, latest[k]) => Tells(out'[c], got'[c], k, latest[k])
      BY <2>1, <2>3, <3>1, <3>2, TellsTake
    <3>. QED
      BY <2>1, <2>2, <3>3 DEF Served, Tells
  <2>4. CASE c # d
    <3>1. out'[c] = out[c] /\ got'[c] = got[c]
      BY <1>1, <2>1, <2>4 DEF Types
    <3>. QED
      BY <2>1, <2>2, <3>1, ServedFrame
  <2>. QED
    BY <2>3, <2>4
<1>11. ASSUME UNCHANGED <<latest, conn, hpc, snap, out, got>>,
              bpc # "broadcast" \/ UNCHANGED <<bpc, cur, cast>> \/ bpc' \in {"dying", "dead"},
              bpc \in {"dying", "dead"} => bpc' \in {"dying", "dead"}
       PROVE  AllServed'
  BY <1>11 DEF ServeInv, AllServed, Served, Tells, Registered
<1>12. ASSUME \/ Launch \/ BroadcastBreaks \/ Published \/ EndOfStdout \/ Waited \/ Slept
              \/ Unwound \/ Shutdown
       PROVE  AllServed'
  BY <1>11, <1>12
     DEF Launch, BroadcastBreaks, Published, EndOfStdout, Waited, Slept, Unwound, Shutdown
<1>13. ASSUME Process \/ UNCHANGED vars \/ \E c \in Conns : SendFrame(c)
       PROVE  AllServed'
  BY <1>11, <1>13
     DEF Process, TakeCommand, ProcessExit, TermExit, Reap, PrintSample, vars, SendFrame
<1>. QED
  BY <1>2, <1>3, <1>4, <1>5, <1>6, <1>7, <1>8, <1>9, <1>10, <1>12, <1>13
     DEF Next, BridgeStep, HandlerStep, Peer

\* Whatever connections come, stall and go, and however snapshots, broadcasts and
\* restarts of the bridge interleave: between two lines every client that has its
\* snapshot was sent the latest sample of every zone.
THEOREM ClientsMissNothing == Spec => []ClientsCurrent
<1>1. Init => ServeInv
  BY DEF Init, ServeInv, ClientFacts, DeadFacts, AllServed, Registered, NoCast
<1>2. TypeInv /\ ServeInv /\ [Next]_vars => ServeInv'
  BY ClientFactsStep, DeadFactsStep, ServedStep DEF ServeInv
<1>3. TypeInv /\ ServeInv => ClientsCurrent
  BY ServedCurrent
<1>. QED
  BY <1>1, <1>2, <1>3, TypeInvInit, TypeInvStep, PTL DEF Spec

=============================================================================
