----------------------------- MODULE BridgeServer -----------------------------
(***************************************************************************)
(* bridge_server.py: one asyncio event loop with the task of _run_bridge,  *)
(* which launches the C++ bridge and fans its samples out, and one task of *)
(* _ws_handler per WebSocket connection, which first sends a snapshot of   *)
(* _latest and then turns command frames into lines on the bridge's stdin. *)
(*                                                                         *)
(* Tasks switch only where an await really suspends: a send suspends when  *)
(* the connection's write buffer is over its limit, a drain when the pipe  *)
(* is.  "holder" is the task that has the loop until it suspends.          *)
(***************************************************************************)
EXTENDS Naturals, Sequences, FiniteSets

CONSTANTS
    Conns,        \* WebSocket connections, each used once
    Keys,         \* "sysID:zoneId"
    None,
    BufCap,       \* samples a connection's write buffer takes before a send suspends
    PipeCap,      \* commands stdin takes before a drain suspends
    StdoutCap,    \* lines the process can print before it blocks
    MaxLines, MaxCommands, MaxExits     \* bounds of a run

ASSUME ConstantsAssumption ==
    /\ IsFiniteSet(Conns) /\ None \notin Conns /\ "bridge" \notin Conns
    /\ IsFiniteSet(Keys)
    /\ {BufCap, PipeCap, MaxLines, MaxCommands, MaxExits} \subseteq Nat
    /\ StdoutCap \in Nat \ {0}

VARIABLES
    latest,     \* _latest: version of the last sample per key, 0 if there is none
    clients,    \* _ws_clients
    holder,     \* task that holds the event loop, None when it is idle
    bpc, cast,  \* _run_bridge: where it is, and the broadcast under way
    cur,        \* the sample read last
    conn,       \* conn[c]: "new", "open", "lost" (closed, not noticed), "gone"
    hpc, snap,  \* _ws_handler of c: where it is, and the snapshot under way
    out,        \* out[c]: samples sent on c and not received
    got,        \* got[c][k]: version of k the peer of c received last
    inbox,      \* inbox[c]: command frames received on c and not handled
    proc,       \* the C++ process: none, running, term (SIGTERM sent), exited, reaped
    reads,      \* it has a schedule writer, and so a thread that reads its stdin
    stdout, stdin,    \* lines in one pipe, number of commands in the other
    device,     \* device[k]: version of the last sample published
    stop,       \* main's stop event
    counts

server  == <<latest, clients, cur>>
bridge  == <<bpc, cast>>
handler == <<hpc, snap>>
wire    == <<conn, out, got, inbox>>
process == <<proc, reads, stdout, stdin, device>>
vars    == <<server, holder, bridge, handler, wire, process, stop, counts>>

NoCast == [size |-> 0, todo |-> {}, seen |-> {}, at |-> None, dead |-> {}]
NoSnap == [size |-> 0, todo |-> {}]

\* Keys of _latest.
Known == {k \in Keys : latest[k] # 0}

May(t) == holder \in {None, t}

\* A send to c that was started has returned, or raised since c was closed.
SendOver(c) == conn[c] # "open" \/ Len(out[c]) <= BufCap

Queued(c, k, v) == [out EXCEPT ![c] = Append(@, [key |-> k, ver |-> v])]

\* Who has the loop after task t sent one more sample to c.
HolderAfterSend(t, c) == IF Len(out[c]) + 1 > BufCap THEN None ELSE t

Count(f, bound) == /\ counts[f] < bound
                   /\ counts' = [counts EXCEPT ![f] = @ + 1]

-----------------------------------------------------------------------------
(* The C++ process, as bridge_server sees it.                              *)

\* A line for a new sample of a zone, or for the last one again.
PrintSample(k, v) ==
    /\ Count("lines", MaxLines)
    /\ proc = "running" /\ Len(stdout) < StdoutCap
    /\ v \in {device[k], device[k] + 1} \ {0}
    /\ device' = [device EXCEPT ![k] = v]
    /\ stdout' = Append(stdout, [key |-> k, ver |-> v])
    /\ UNCHANGED <<server, holder, bridge, handler, wire, proc, reads, stdin, stop>>

TakeCommand ==
    /\ proc \in {"running", "term"} /\ reads /\ stdin > 0
    /\ stdin' = stdin - 1
    /\ UNCHANGED <<server, holder, bridge, handler, wire, proc, reads, stdout, device, stop, counts>>

\* The process dies; what it printed stays readable.
ProcessExit ==
    /\ Count("exits", MaxExits)
    /\ proc = "running"
    /\ proc' = "exited" /\ stdin' = 0
    /\ UNCHANGED <<server, holder, bridge, handler, wire, reads, stdout, device, stop>>

\* After SIGTERM main's loop ends at its next round, if it is not blocked in a
\* print that nobody reads.
TermExit ==
    /\ proc = "term" /\ Len(stdout) < StdoutCap
    /\ proc' = "exited" /\ stdin' = 0
    /\ UNCHANGED <<server, holder, bridge, handler, wire, reads, stdout, device, stop, counts>>

\* asyncio's child watcher sets returncode.
Reap ==
    /\ proc = "exited"
    /\ proc' = "reaped"
    /\ UNCHANGED <<server, holder, bridge, handler, wire, reads, stdin, stdout, device, stop, counts>>

-----------------------------------------------------------------------------
(* The peers.                                                              *)

Listening == ~(stop /\ bpc = "dead")

Connect(c) ==
    /\ conn[c] = "new" /\ Listening
    /\ conn' = [conn EXCEPT ![c] = "open"]
    /\ hpc'  = [hpc EXCEPT ![c] = "start"]
    /\ UNCHANGED <<server, holder, bridge, snap, out, got, inbox, process, stop, counts>>

Receive(c) ==
    /\ conn[c] = "open" /\ out[c] # <<>>
    /\ got' = [got EXCEPT ![c][Head(out[c]).key] = Head(out[c]).ver]
    /\ out' = [out EXCEPT ![c] = Tail(@)]
    /\ UNCHANGED <<server, holder, bridge, handler, conn, inbox, process, stop, counts>>

SendFrame(c) ==
    /\ Count("commands", MaxCommands)
    /\ conn[c] = "open"
    /\ inbox' = [inbox EXCEPT ![c] = @ + 1]
    /\ UNCHANGED <<server, holder, bridge, handler, conn, out, got, process, stop>>

\* The peer closes, its host is lost, or the keepalive gives it up.
Drop(c) ==
    /\ conn[c] = "open"
    /\ conn' = [conn EXCEPT ![c] = "lost"]
    /\ out'  = [out EXCEPT ![c] = <<>>]
    /\ UNCHANGED <<server, holder, bridge, handler, got, inbox, process, stop, counts>>

-----------------------------------------------------------------------------
(* _ws_handler.                                                            *)

Register(c) ==
    /\ holder = None /\ hpc[c] = "start"
    /\ clients' = clients \cup {c}
    /\ snap' = [snap EXCEPT ![c] = [size |-> Cardinality(Known), todo |-> Known]]
    /\ hpc'  = [hpc EXCEPT ![c] = "snapshot"]
    /\ holder' = c
    /\ UNCHANGED <<latest, cur, bridge, wire, process, stop, counts>>

\* The handler goes on with its snapshot; _latest must not have grown meanwhile.
InSnapshot(c)   == May(c) /\ hpc[c] = "snapshot" /\ SendOver(c)
LatestChanged(c) == Cardinality(Known) # snap[c].size

SnapshotSend(c, k) ==
    /\ InSnapshot(c) /\ conn[c] = "open" /\ ~LatestChanged(c)
    /\ k \in snap[c].todo
    /\ snap' = [snap EXCEPT ![c].todo = @ \ {k}]
    /\ out'  = Queued(c, k, latest[k])
    /\ holder' = HolderAfterSend(c, c)
    /\ UNCHANGED <<server, bridge, hpc, conn, got, inbox, process, stop, counts>>

SnapshotDone(c) ==
    /\ InSnapshot(c) /\ ~LatestChanged(c) /\ snap[c].todo = {}
    /\ hpc'  = [hpc EXCEPT ![c] = "recv"]
    /\ snap' = [snap EXCEPT ![c] = NoSnap]
    /\ holder' = None
    /\ UNCHANGED <<server, bridge, wire, process, stop, counts>>

M_NoFinally(c) ==
    /\ \/ InSnapshot(c) /\ (LatestChanged(c) \/ conn[c] = "lost")
       \/ holder = None /\ hpc[c] = "recv" /\ conn[c] = "lost" /\ inbox[c] = 0
    /\ conn'  = [conn EXCEPT ![c] = "gone"]
    /\ hpc'   = [hpc EXCEPT ![c] = "done"]
    /\ snap'  = [snap EXCEPT ![c] = NoSnap]
    /\ out'   = [out EXCEPT ![c] = <<>>]
    /\ inbox' = [inbox EXCEPT ![c] = 0]
    /\ holder' = None
    /\ UNCHANGED <<latest, clients, cur, bridge, got, process, stop, counts>>

\* finally: after ConnectionClosed, or after "dictionary changed size during
\* iteration", upon which the library closes the connection.
HandlerEnds(c) ==
    /\ \/ InSnapshot(c) /\ (LatestChanged(c) \/ conn[c] = "lost")
       \/ holder = None /\ hpc[c] = "recv" /\ conn[c] = "lost" /\ inbox[c] = 0
    /\ clients' = clients \ {c}
    /\ conn'  = [conn EXCEPT ![c] = "gone"]
    /\ hpc'   = [hpc EXCEPT ![c] = "done"]
    /\ snap'  = [snap EXCEPT ![c] = NoSnap]
    /\ out'   = [out EXCEPT ![c] = <<>>]
    /\ inbox' = [inbox EXCEPT ![c] = 0]
    /\ holder' = None
    /\ UNCHANGED <<latest, cur, bridge, got, process, stop, counts>>

\* _bridge_proc is set and its returncode is not.
BridgeRuns == proc \in {"running", "term", "exited"} /\ bpc # "dead"

\* _send_command: dropped, written to a pipe nobody holds any more, or written.
HandleFrame(c) ==
    /\ holder = None /\ hpc[c] = "recv" /\ inbox[c] > 0
    /\ inbox' = [inbox EXCEPT ![c] = @ - 1]
    /\ stdin' = IF BridgeRuns /\ proc # "exited" THEN stdin + 1 ELSE stdin
    /\ hpc' = [hpc EXCEPT ![c] = IF BridgeRuns /\ stdin' > PipeCap THEN "drain" ELSE @]
    /\ UNCHANGED <<server, holder, bridge, snap, conn, out, got, proc, reads, stdout, device, stop, counts>>

M_DrainNeedsProcess(c) ==
    /\ holder = None /\ hpc[c] = "drain" /\ stdin <= PipeCap /\ BridgeRuns
    /\ hpc' = [hpc EXCEPT ![c] = "recv"]
    /\ UNCHANGED <<server, holder, bridge, snap, wire, process, stop, counts>>

\* drain returns, or raises because the process ended, which is suppressed.
DrainOver(c) ==
    /\ holder = None /\ hpc[c] = "drain" /\ stdin <= PipeCap
    /\ hpc' = [hpc EXCEPT ![c] = "recv"]
    /\ UNCHANGED <<server, holder, bridge, snap, wire, process, stop, counts>>

-----------------------------------------------------------------------------
(* _run_bridge.                                                            *)

\* Without its schedule writer the process goes on and nobody reads its stdin.
Launch ==
    /\ holder = None /\ bpc = "launch"
    /\ bpc' = "read"
    /\ proc' = "running" /\ reads' \in BOOLEAN /\ stdin' = 0 /\ stdout' = <<>>
    /\ UNCHANGED <<server, holder, cast, handler, wire, device, stop, counts>>

M_StoresAfterBroadcast ==
    /\ holder = None /\ bpc = "read" /\ stdout # <<>>
    /\ cur' = Head(stdout) /\ stdout' = Tail(stdout)
    /\ latest' = [k \in Keys |-> IF cur # None /\ cur.key = k THEN cur.ver ELSE latest[k]]
    /\ IF clients = {} THEN bpc' = "publish" /\ UNCHANGED <<cast, holder>>
       ELSE /\ bpc' = "broadcast" /\ holder' = "bridge"
            /\ cast' = [NoCast EXCEPT !.size = Cardinality(clients), !.todo = clients]
    /\ UNCHANGED <<clients, handler, wire, proc, reads, stdin, device, stop, counts>>

M_SkipsJoining ==
    /\ holder = None /\ bpc = "read" /\ stdout # <<>>
    /\ cur' = Head(stdout) /\ stdout' = Tail(stdout)
    /\ latest' = [latest EXCEPT ![cur'.key] = cur'.ver]
    /\ IF clients = {} THEN bpc' = "publish" /\ UNCHANGED <<cast, holder>>
       ELSE /\ bpc' = "broadcast" /\ holder' = "bridge"
            /\ cast' = [NoCast EXCEPT !.size = Cardinality(clients),
                           !.todo = {c \in clients : hpc[c] = "recv"},
                           !.seen = {c \in clients : hpc[c] # "recv"}]
    /\ UNCHANGED <<clients, handler, wire, proc, reads, stdin, device, stop, counts>>

\* A line of stdout: stored first, then broadcast to the clients of this moment.
ReadLine ==
    /\ holder = None /\ bpc = "read" /\ stdout # <<>>
    /\ cur' = Head(stdout) /\ stdout' = Tail(stdout)
    /\ latest' = [latest EXCEPT ![cur'.key] = cur'.ver]
    /\ IF clients = {} THEN bpc' = "publish" /\ UNCHANGED <<cast, holder>>
       ELSE /\ bpc' = "broadcast" /\ holder' = "bridge"
            /\ cast' = [NoCast EXCEPT !.size = Cardinality(clients), !.todo = clients]
    /\ UNCHANGED <<clients, handler, wire, proc, reads, stdin, device, stop, counts>>

\* "for ws in _ws_clients" takes its next step, after the send it awaited.
M_WaitsForBuffer ==
    /\ May("bridge") /\ bpc = "broadcast"
    /\ cast.at # None => conn[cast.at] = "open" /\ Len(out[cast.at]) <= BufCap
InBroadcast ==
    /\ May("bridge") /\ bpc = "broadcast"
    /\ cast.at # None => SendOver(cast.at)

ClientsChanged == Cardinality(clients) # cast.size

\* The connections found closed so far.
Dead == cast.dead \cup {c \in {cast.at} \ {None} : conn[c] # "open"}

BroadcastSend(c) ==
    /\ InBroadcast /\ ~ClientsChanged
    /\ c \in clients \ cast.seen
    /\ IF conn[c] = "open"
       THEN /\ out' = Queued(c, cur.key, cur.ver)
            /\ holder' = HolderAfterSend("bridge", c)
            /\ cast' = [cast EXCEPT !.seen = @ \cup {c}, !.at = c, !.dead = Dead]
       ELSE /\ cast' = [cast EXCEPT !.seen = @ \cup {c}, !.at = None, !.dead = Dead \cup {c}]
            /\ holder' = "bridge" /\ UNCHANGED out
    /\ UNCHANGED <<server, bpc, handler, conn, got, inbox, process, stop, counts>>

\* A client that joined in place of one that left may be met or not.
BroadcastDone ==
    /\ InBroadcast /\ ~ClientsChanged
    /\ clients \cap cast.todo \subseteq cast.seen
    /\ clients' = clients \ Dead
    /\ bpc' = "publish" /\ cast' = NoCast /\ holder' = None
    /\ UNCHANGED <<latest, cur, handler, wire, process, stop, counts>>

Terminated == IF proc = "running" THEN "term" ELSE proc

\* "Set changed size during iteration": the task unwinds.
BroadcastBreaks ==
    /\ InBroadcast /\ ClientsChanged
    /\ bpc' = "dying" /\ cast' = NoCast /\ holder' = None
    /\ proc' = Terminated
    /\ UNCHANGED <<server, handler, wire, reads, stdin, stdout, device, stop, counts>>

\* _mqtt_publish returns, after suspending or not.
Published ==
    /\ holder = None /\ bpc = "publish"
    /\ bpc' = "read"
    /\ UNCHANGED <<server, holder, cast, handler, wire, process, stop, counts>>

\* End of stdout; then proc.wait() returns; then the pause.
EndOfStdout ==
    /\ holder = None /\ bpc = "read" /\ stdout = <<>> /\ proc \in {"exited", "reaped"}
    /\ bpc' = "wait"
    /\ UNCHANGED <<server, holder, cast, handler, wire, process, stop, counts>>

Waited ==
    /\ holder = None /\ bpc = "wait" /\ proc = "reaped"
    /\ bpc' = "sleep" /\ proc' = "none"
    /\ UNCHANGED <<server, holder, cast, handler, wire, reads, stdin, stdout, device, stop, counts>>

M_NeverRelaunches ==
    /\ holder = None /\ bpc = "sleep"
    /\ bpc' = "read"
    /\ UNCHANGED <<server, holder, cast, handler, wire, process, stop, counts>>

Slept ==
    /\ holder = None /\ bpc = "sleep"
    /\ bpc' = "launch"
    /\ UNCHANGED <<server, holder, cast, handler, wire, process, stop, counts>>

\* finally: the process ended, or did not within 5 seconds.
Unwound ==
    /\ holder = None /\ bpc = "dying"
    /\ bpc' = "dead"
    /\ UNCHANGED <<server, holder, cast, handler, wire, process, stop, counts>>

-----------------------------------------------------------------------------
(* main.                                                                   *)


\* SIGTERM: bridge.cancel() raises at the await _run_bridge is in.
Shutdown ==
    /\ holder = None /\ ~stop
    /\ stop' = TRUE
    /\ IF bpc = "dead" THEN UNCHANGED <<bridge, proc>>
       ELSE bpc' = "dying" /\ cast' = NoCast /\ proc' = Terminated
    /\ UNCHANGED <<server, holder, handler, wire, reads, stdin, stdout, device, counts>>

\* Leaving "async with websockets.serve" closes every connection.
CloseServer ==
    /\ holder = None /\ ~Listening
    /\ \E c \in Conns : conn[c] = "open"
    /\ conn' = [c \in Conns |-> IF conn[c] = "open" THEN "lost" ELSE conn[c]]
    /\ out'  = [c \in Conns |-> <<>>]
    /\ UNCHANGED <<server, holder, bridge, handler, got, inbox, process, stop, counts>>

-----------------------------------------------------------------------------
Init ==
    /\ latest = [k \in Keys |-> 0] /\ clients = {} /\ cur = None
    /\ holder = None /\ bpc = "launch" /\ cast = NoCast
    /\ conn = [c \in Conns |-> "new"]
    /\ hpc = [c \in Conns |-> "none"] /\ snap = [c \in Conns |-> NoSnap]
    /\ out = [c \in Conns |-> <<>>] /\ got = [c \in Conns |-> [k \in Keys |-> 0]]
    /\ inbox = [c \in Conns |-> 0]
    /\ proc = "none" /\ reads = FALSE /\ stdout = <<>> /\ stdin = 0 /\ device = [k \in Keys |-> 0]
    /\ stop = FALSE
    /\ counts = [lines |-> 0, commands |-> 0, exits |-> 0]

HandlerStep(c) ==
    \/ Register(c) \/ SnapshotDone(c) \/ HandlerEnds(c) \/ HandleFrame(c) \/ DrainOver(c)
    \/ \E k \in Keys : SnapshotSend(c, k)
BridgeStep ==
    \/ Launch \/ ReadLine \/ BroadcastDone \/ BroadcastBreaks \/ Published
    \/ EndOfStdout \/ Waited \/ Slept \/ Unwound
    \/ \E c \in Conns : BroadcastSend(c)
Peer(c) == Connect(c) \/ Receive(c) \/ SendFrame(c) \/ Drop(c)
Process == \/ TakeCommand \/ ProcessExit \/ TermExit \/ Reap
           \/ \E k \in Keys, v \in 1..MaxLines : PrintSample(k, v)

Next == \/ BridgeStep \/ Process \/ Shutdown \/ CloseServer
        \/ \E c \in Conns : HandlerStep(c) \/ Peer(c)

Spec == Init /\ [][Next]_vars

\* The loop runs every task that is ready; a process that has its reader reads its
\* commands; a peer takes what it is sent or the keepalive of websockets drops it.
Fairness ==
    /\ WF_vars(BridgeStep) /\ WF_vars(CloseServer)
    /\ WF_vars(TakeCommand) /\ WF_vars(TermExit) /\ WF_vars(Reap)
    /\ \A c \in Conns : /\ WF_vars(HandlerStep(c))
                        /\ WF_vars(out[c] # <<>> /\ (Receive(c) \/ Drop(c)))
FairSpec == Spec /\ Fairness

-----------------------------------------------------------------------------
SampleLine   == [key : Keys, ver : 1..MaxLines]
Broadcast    == [size : Nat, todo : SUBSET Conns, seen : SUBSET Conns,
                 at : Conns \cup {None}, dead : SUBSET Conns]
SnapshotTask == [size : Nat, todo : SUBSET Keys]
Counters     == [lines : Nat, commands : Nat, exits : Nat]

\* The zones a snapshot has still to send have a sample.
SnapshotKnown ==
    \A c \in Conns : hpc[c] = "snapshot" => snap[c].todo \subseteq Known

\* _ws_clients holds only connections whose handler is at work: every way out of
\* _ws_handler goes through its finally.
Types ==
    /\ latest \in [Keys -> 0..MaxLines] /\ device \in [Keys -> 0..MaxLines]
    /\ clients \in SUBSET {c \in Conns : hpc[c] \in {"snapshot", "recv", "drain"}}
    /\ cur \in SampleLine \cup {None}
    /\ holder \in Conns \cup {None, "bridge"}
    /\ bpc \in {"launch", "read", "broadcast", "publish", "wait", "sleep", "dying", "dead"}
    /\ cast \in Broadcast
    /\ conn \in [Conns -> {"new", "open", "lost", "gone"}]
    /\ hpc \in [Conns -> {"none", "start", "snapshot", "recv", "drain", "done"}]
    /\ snap \in [Conns -> SnapshotTask]
    /\ out \in [Conns -> Seq(SampleLine)] /\ got \in [Conns -> [Keys -> 0..MaxLines]]
    /\ inbox \in [Conns -> Nat] /\ stdin \in Nat
    /\ stdout \in Seq(SampleLine) /\ Len(stdout) <= StdoutCap
    /\ proc \in {"none", "running", "term", "exited", "reaped"}
    /\ reads \in BOOLEAN /\ stop \in BOOLEAN
    /\ counts \in Counters

\* Values of the right kinds; no handler that has ended stays in _ws_clients, the
\* pipe holds what it can, and a snapshot never reads a zone _latest does not have.
TypeOK == Types /\ SnapshotKnown

\* What a peer receives for a zone never goes back to an older sample, although
\* snapshots and broadcasts of several tasks interleave on its connection.
NeverGoesBack ==
    [][\A c \in Conns, k \in Keys : got'[c][k] >= got[c][k]]_vars

\* Version of k at the end of what was sent to c.
Heard(c, k) ==
    LET sent == {i \in DOMAIN out[c] : out[c][i].key = k}
    IN  IF sent = {} THEN got[c][k]
        ELSE out[c][CHOOSE i \in sent : \A j \in sent : j <= i].ver

\* Between two lines every client that has its snapshot was sent the latest
\* sample of every zone: none falls between its snapshot and the broadcasts.
ClientsCurrent ==
    bpc \notin {"broadcast", "dying", "dead"} =>
        \A c \in Conns : hpc[c] \in {"recv", "drain"} /\ conn[c] = "open" =>
            \A k \in Keys : Heard(c, k) = latest[k]

\* Samples get through to every client in the end: one that stalls, or that goes
\* away during a broadcast, does not hold up the others for ever.
SamplesGetThrough ==
    \A c \in Conns :
        <>[](bpc = "dead" \/ conn[c] # "open"
               \/ (stdout = <<>> /\ \A k \in Keys : got[c][k] = latest[k]))

\* The C++ bridge is relaunched whenever it ends ("DDS bridge exited; restarting in
\* 5s"), until the server is stopped or the task is broken by a changed set.
Relaunched ==
    (proc \in {"exited", "reaped", "none"}) ~>
        (proc = "running" \/ stop \/ bpc \in {"dying", "dead"})

\* A handler waits in drain for ever in one case only: the process it waits for
\* goes on and has no thread that reads its stdin (main 1172-1183).  A process
\* that reads, or one that ends and takes its pipe along, releases every handler.
DrainsEnd ==
    \A c \in Conns :
        []<>(hpc[c] # "drain") \/ <>[](proc \in {"running", "term"} /\ ~reads)


\* "a local WebSocket ... -- always on" (bridge_server.py 8): the task that feeds
\* it does not end before the server is stopped.
AlwaysOn == bpc \in {"dying", "dead"} => stop
=============================================================================
