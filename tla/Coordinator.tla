------------------------------ MODULE Coordinator ------------------------------
(***************************************************************************)
(* M30BridgeCoordinator of coordinator.py: the Home Assistant end of the   *)
(* WebSocket.  _run connects, keeps the newest sample per zone in data and *)
(* reconnects with a backoff; the entities send commands through _ws.      *)
(*                                                                         *)
(* The server is seen from here: on a connection it sends a snapshot of    *)
(* its _latest and then every new sample, in order.                        *)
(***************************************************************************)
EXTENDS Naturals, Sequences, FiniteSets

CONSTANTS
    Keys,             \* "sysID:zoneId"
    MaxBackoff,       \* 30 seconds
    MaxWire,          \* bound: samples under way
    MaxVersion, MaxBreaks, MaxFailures     \* bounds of a run

ASSUME ConstantsAssumption ==
    /\ IsFiniteSet(Keys)
    /\ MaxBackoff \in Nat \ {0}
    /\ MaxWire \in Nat \ {0} /\ MaxVersion \in Nat \ {0}
    /\ MaxBreaks \in Nat /\ MaxFailures \in Nat

VARIABLES
    up,        \* the server listens
    latest,    \* latest[k]: version of k in the server's _latest, 0 if there is none
    device,    \* device[k]: version published last, over restarts of the server
    link,      \* connection: none, open, broken, clean (closed with a close frame)
    wire,      \* samples sent and not processed, oldest first: key and version
    rpc,       \* where _run is: unloaded, connect, stream, backoff, stopped
    backoff,   \* the local of that name, in seconds
    ws,        \* _ws is set
    data,      \* data[k]: version of k the entities see
    failures,  \* history: attempts that failed since a connection was last up
    breaks     \* connections lost so far

srv  == <<up, latest, device>>
run  == <<rpc, backoff, ws>>
vars == <<srv, link, wire, run, data, failures, breaks>>

Nothing == [k \in Keys |-> 0]

\* All orders of the keys in S.
Orders(S) == {q \in [1..Cardinality(S) -> S] : {q[i] : i \in DOMAIN q} = S}

-----------------------------------------------------------------------------
(* The server and the network.                                             *)

\* _latest, then the broadcast.
Broadcast(k, v) ==
    /\ Len(wire) < MaxWire
    /\ latest' = [latest EXCEPT ![k] = v]
    /\ wire'   = IF link = "open" THEN Append(wire, <<k, v>>) ELSE wire

Publish(k) ==
    /\ up /\ device[k] < MaxVersion
    /\ device' = [device EXCEPT ![k] = @ + 1]
    /\ Broadcast(k, device'[k])
    /\ UNCHANGED <<up, link, run, data, failures, breaks>>

\* The device publishes a zone again, or its last sample reaches a restarted server.
Republish(k) ==
    /\ up /\ device[k] # 0
    /\ Broadcast(k, device[k])
    /\ UNCHANGED <<up, device, link, run, data, failures, breaks>>

\* The add-on goes: with a close frame behind the samples, or without.
ServerDown ==
    /\ up /\ breaks < MaxBreaks
    /\ up' = FALSE /\ latest' = Nothing /\ breaks' = breaks + 1
    /\ link' \in IF link = "open" THEN {"clean", "broken"} ELSE {link}
    /\ wire' = IF link' = "broken" THEN <<>> ELSE wire
    /\ UNCHANGED <<device, run, data, failures>>

ServerUp ==
    /\ ~up
    /\ up' = TRUE
    /\ UNCHANGED <<latest, device, link, wire, run, data, failures, breaks>>

\* The network fails, or the server gives the connection up with an error.
LinkBreaks ==
    /\ link = "open" /\ breaks < MaxBreaks
    /\ link' = "broken" /\ wire' = <<>> /\ breaks' = breaks + 1
    /\ UNCHANGED <<srv, run, data, failures>>

-----------------------------------------------------------------------------
(* _run.                                                                   *)

Start ==
    /\ rpc = "unloaded"
    /\ rpc' = "connect" /\ backoff' = 1
    /\ UNCHANGED <<srv, link, wire, ws, data, failures, breaks>>

Snapshot == \E q \in Orders({k \in Keys : latest[k] # 0}) :
               wire' = [i \in DOMAIN q |-> <<q[i], latest[q[i]]>>]

M_BackoffKept ==
    /\ rpc = "connect" /\ up
    /\ rpc' = "stream" /\ UNCHANGED backoff /\ ws' = TRUE
    /\ link' = "open" /\ Snapshot
    /\ failures' = 0
    /\ UNCHANGED <<srv, data, breaks>>

\* websockets.connect succeeds; the server's handler sends its snapshot, in the
\* order of _latest.
Connect ==
    /\ rpc = "connect" /\ up
    /\ rpc' = "stream" /\ backoff' = 1 /\ ws' = TRUE
    /\ link' = "open" /\ Snapshot
    /\ failures' = 0
    /\ UNCHANGED <<srv, data, breaks>>

\* It raises: refused, unreachable, or no answer in 10 seconds.
ConnectFails ==
    /\ rpc = "connect" /\ failures < MaxFailures /\ (up => breaks < MaxBreaks)
    /\ rpc' = "backoff"
    /\ failures' = failures + 1
    /\ breaks' = IF up THEN breaks + 1 ELSE breaks
    /\ UNCHANGED <<srv, link, wire, backoff, ws, data>>

M_TaskPerMessage(k) ==
    /\ rpc = "stream"
    /\ \E i \in DOMAIN wire :
          /\ wire[i][1] = k /\ data' = [data EXCEPT ![k] = wire[i][2]]
          /\ wire' = SubSeq(wire, 1, i - 1) \o SubSeq(wire, i + 1, Len(wire))
    /\ UNCHANGED <<srv, link, run, failures, breaks>>

Process(k) ==
    /\ rpc = "stream" /\ wire # <<>> /\ Head(wire)[1] = k
    /\ data' = [data EXCEPT ![k] = Head(wire)[2]]
    /\ wire' = Tail(wire)
    /\ UNCHANGED <<srv, link, run, failures, breaks>>

\* The loop over a connection closed in good order just ends: finally, and anew.
StreamEnds ==
    /\ rpc = "stream" /\ link = "clean" /\ wire = <<>>
    /\ rpc' = "connect" /\ ws' = FALSE /\ link' = "none"
    /\ UNCHANGED <<srv, wire, backoff, data, failures, breaks>>

\* It raises ConnectionClosedError; finally runs only after the sleep.
StreamRaises ==
    /\ rpc = "stream" /\ link = "broken"
    /\ rpc' = "backoff" /\ link' = "none"
    /\ failures' = failures + 1
    /\ UNCHANGED <<srv, wire, backoff, ws, data, breaks>>

M_GivesUpAtCap ==
    /\ rpc = "backoff" /\ backoff < MaxBackoff
    /\ rpc' = "connect" /\ ws' = FALSE
    /\ backoff' = IF 2 * backoff < MaxBackoff THEN 2 * backoff ELSE MaxBackoff
    /\ UNCHANGED <<srv, link, wire, data, failures, breaks>>

M_Uncapped ==
    /\ rpc = "backoff"
    /\ rpc' = "connect" /\ ws' = FALSE
    /\ backoff' = 2 * backoff
    /\ UNCHANGED <<srv, link, wire, data, failures, breaks>>

\* asyncio.sleep(backoff) is over.
Retry ==
    /\ rpc = "backoff"
    /\ rpc' = "connect" /\ ws' = FALSE
    /\ backoff' = IF 2 * backoff < MaxBackoff THEN 2 * backoff ELSE MaxBackoff
    /\ UNCHANGED <<srv, link, wire, data, failures, breaks>>

M_HandleKept ==
    /\ rpc \in {"connect", "stream", "backoff"}
    /\ rpc' = "stopped"
    /\ link' = "none" /\ wire' = <<>>
    /\ UNCHANGED <<srv, backoff, ws, data, failures, breaks>>

\* async_stop: the cancellation is raised at whatever _run awaits.
Stop ==
    /\ rpc \in {"connect", "stream", "backoff"}
    /\ rpc' = "stopped" /\ ws' = FALSE
    /\ link' = "none" /\ wire' = <<>>
    /\ UNCHANGED <<srv, backoff, data, failures, breaks>>

\* async_send_command of an entity, which changes nothing here: refused, handed to
\* the connection, or raised by a connection that is closed.
Answer == CASE ~ws -> "HomeAssistantError"
            [] ws /\ link = "open" -> "sent"
            [] OTHER -> "ConnectionClosed"

-----------------------------------------------------------------------------
Init ==
    /\ up = FALSE /\ latest = Nothing /\ device = Nothing
    /\ link = "none" /\ wire = <<>>
    /\ rpc = "unloaded" /\ backoff = 1 /\ ws = FALSE
    /\ data = Nothing
    /\ failures = 0 /\ breaks = 0

Server == ServerDown \/ ServerUp \/ LinkBreaks \/ \E k \in Keys : Publish(k) \/ Republish(k)
Run    == \/ Connect \/ ConnectFails \/ StreamEnds \/ StreamRaises \/ Retry
          \/ \E k \in Keys : Process(k)

Next == Server \/ Run \/ Start \/ Stop

Spec == Init /\ [][Next]_vars

\* Home Assistant's loop runs the task, and the add-on is started again.
Fairness == WF_vars(ServerUp) /\ WF_vars(Run)

-----------------------------------------------------------------------------
Versions == 0..MaxVersion

\* Values of the right kinds; a connection is there exactly while _run reads it, and
\* the pause stays within its limit (_run 61-86).
TypeOK ==
    /\ up \in BOOLEAN /\ ws \in BOOLEAN
    /\ latest \in [Keys -> Versions] /\ device \in [Keys -> Versions]
    /\ wire \in Seq(Keys \X (1..MaxVersion)) /\ data \in [Keys -> Versions]
    /\ link \in {"none", "open", "broken", "clean"}
    /\ link # "none" <=> rpc = "stream"
    /\ rpc \in {"unloaded", "connect", "stream", "backoff", "stopped"}
    /\ backoff \in 1..MaxBackoff
    /\ failures \in Nat /\ breaks \in Nat

\* The pause doubles with every failure in a row, up to the limit, and starts at
\* a second again after every connection that came up (_run 63-84).
Delay == IF 2 ^ (failures - 1) < MaxBackoff THEN 2 ^ (failures - 1) ELSE MaxBackoff
DelayFollowsFailures == rpc = "backoff" => failures > 0 /\ backoff = Delay

\* Nothing the entities see is newer than the device or goes back to an older
\* sample, over reconnections to a server that starts empty.
DataMovesForward ==
    [][\A k \in Keys : data'[k] >= data[k] /\ data'[k] <= device'[k]]_vars

\* "Raises HomeAssistantError if the bridge isn't currently connected" (39-40), and
\* so it is before a connection, while one is tried and after async_stop, in
\* whatever state that met it.  A connection that is gone is used only until _run
\* has noticed and slept over it, since _ws is cleared in the finally behind it: one
\* second, however many attempts had failed before (68, 82-87).
RefusesOnceNoticed ==
    /\ rpc \in {"unloaded", "connect", "stopped"} => Answer = "HomeAssistantError"
    /\ Answer = "ConnectionClosed" =>
          link \in {"broken", "clean"} \/ (rpc = "backoff" /\ backoff = 1)
=============================================================================
