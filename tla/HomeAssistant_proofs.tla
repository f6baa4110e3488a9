------------------------- MODULE HomeAssistant_proofs -------------------------
(***************************************************************************)
(* What holds of the coordinator for any set of zones, bounds and backoff, *)
(* and that a config entry keeps to it and discovers all entities.         *)
(***************************************************************************)
EXTENDS HomeAssistant, FiniteSetTheorems, FunctionTheorems, TLAPS

-----------------------------------------------------------------------------
(* The entry around its coordinator is a coordinator: Coordinator is the   *)
(* abstract specification of HomeAssistant.                                *)

\* Every step of the entry is a step of its coordinator, or none (__init__.py
\* 20-33, the platforms, _run).
LEMMA HomeStepIsCoordinatorStep == [HomeNext]_hvars => [Next]_vars
<1>1. CASE UNCHANGED hvars
  BY <1>1 DEF hvars
<1>2. CASE AddOnDown \/ Cut
  BY <1>2 DEF AddOnDown, Cut, Next, Server
<1>3. CASE Connected \/ Elsewhere
  BY <1>3 DEF Connected, Elsewhere, Next, Server, Run
<1>4. CASE SetupEntry \/ Unload
  BY <1>4 DEF SetupEntry, Unload, Next
<1>5. CASE \E p \in Platforms : SetupPlatform(p)
  BY <1>5 DEF SetupPlatform
<1>6. CASE \E s \in Systems : StatusChanges(s) \/ Hear(s)
  BY <1>6 DEF StatusChanges, Hear
<1>7. CASE \E k \in Keys : PrintZone(k) \/ Update(k)
  BY <1>7 DEF PrintZone, Update, Next, Server, Run
<1> QED
  BY <1>1, <1>2, <1>3, <1>4, <1>5, <1>6, <1>7 DEF HomeNext

\* The coordinator of a config entry behaves as Coordinator says, whatever the
\* platforms, the status topics and the server do.
THEOREM HomeImplementsCoordinator == HomeSpec => Spec
<1>1. HomeInit => Init
  BY DEF HomeInit
<1> QED
  BY <1>1, HomeStepIsCoordinatorStep, PTL DEF HomeSpec, Spec

-----------------------------------------------------------------------------
(* Commands.                                                               *)

\* RefusesOnceNoticed speaks of what a command meets; it holds since the handle is
\* kept only while the connection is read, and over the pause behind it, for which
\* the connection had set backoff back to a second.
HandleInv ==
    /\ ws => rpc \in {"stream", "backoff"}
    /\ link # "none" => rpc = "stream"
    /\ rpc = "stream" => link \in {"open", "broken", "clean"} /\ backoff = 1
    /\ ws /\ rpc = "backoff" => backoff = 1

LEMMA HandleInvariant == Spec => []HandleInv
<1>1. Init => HandleInv
  BY DEF Init, HandleInv
<1>2. HandleInv /\ [Next]_vars => HandleInv'
  <2> SUFFICES ASSUME HandleInv, [Next]_vars
               PROVE  HandleInv'
    OBVIOUS
  <2> USE DEF HandleInv
  <2>1. CASE UNCHANGED vars
    BY <2>1 DEF vars, srv, run
  <2>2. CASE \E k \in Keys : Publish(k) \/ Republish(k) \/ Process(k)
    BY <2>2 DEF Publish, Republish, Process, run
  <2>3. CASE ServerDown \/ ServerUp \/ LinkBreaks
    BY <2>3 DEF ServerDown, ServerUp, LinkBreaks, run
  <2>4. CASE Start \/ Stop
    BY <2>4 DEF Start, Stop
  <2>5. CASE Connect \/ ConnectFails
    BY <2>5 DEF Connect, ConnectFails
  <2>6. CASE StreamEnds \/ StreamRaises \/ Retry
    BY <2>6 DEF StreamEnds, StreamRaises, Retry
  <2> QED
    BY <2>1, <2>2, <2>3, <2>4, <2>5, <2>6 DEF Next, Server, Run
<1> QED
  BY <1>1, <1>2, PTL DEF Spec

\* A command is refused unless a connection is up, or has gone and _run has not yet
\* noticed, or is in the one second behind it (async_send_command 39-43, the finally of _run).
THEOREM CommandsRefused == Spec => []RefusesOnceNoticed
<1>1. HandleInv => RefusesOnceNoticed
  BY DEF HandleInv, RefusesOnceNoticed, Answer
<1> QED
  BY <1>1, HandleInvariant, PTL

-----------------------------------------------------------------------------
(* Data.                                                                   *)

\* DataMovesForward is about one step; it holds since the samples under way are
\* of versions in order, from the one held to the device's.
InOrder(w, d, e) ==
    /\ \A i \in 1..Len(w) : d[w[i][1]] <= w[i][2] /\ w[i][2] <= e[w[i][1]]
    /\ \A i, j \in 1..Len(w) : i < j /\ w[i][1] = w[j][1] => w[i][2] <= w[j][2]

Samples == Seq(Keys \X Nat)
Readings == [Keys -> Nat]

OrderInv ==
    /\ device \in Readings /\ latest \in Readings /\ data \in Readings
    /\ wire \in Samples
    /\ \A k \in Keys : latest[k] \in {0, device[k]} /\ data[k] <= device[k]
    /\ InOrder(wire, data, device)

LEMMA SampleTyped ==
    ASSUME NEW w \in Samples, NEW i \in 1..Len(w)
    PROVE  w[i][1] \in Keys /\ w[i][2] \in Nat
<1>1. w[i] \in Keys \X Nat
  BY DEF Samples
<1> QED
  BY <1>1

\* The device moves on.
LEMMA OrderOfNewer ==
    ASSUME NEW w \in Samples, NEW d, NEW e \in Readings, NEW f \in Readings,
           \A k \in Keys : e[k] <= f[k], InOrder(w, d, e), d \in Readings
    PROVE  InOrder(w, d, f)
<1>1. ASSUME NEW i \in 1..Len(w) PROVE d[w[i][1]] <= w[i][2] /\ w[i][2] <= f[w[i][1]]
  <2>1. w[i][1] \in Keys /\ w[i][2] \in Nat
    BY SampleTyped
  <2>2. d[w[i][1]] <= w[i][2] /\ w[i][2] <= e[w[i][1]]
    BY DEF InOrder
  <2> QED
    BY <2>1, <2>2 DEF Readings
<1> QED
  BY <1>1 DEF InOrder

\* A sample of the newest version goes behind all that is under way.
LEMMA OrderOfAppend ==
    ASSUME NEW w \in Samples, NEW d \in Readings, NEW e \in Readings, NEW k \in Keys,
           InOrder(w, d, e), d[k] <= e[k]
    PROVE  /\ Append(w, <<k, e[k]>>) \in Samples
           /\ InOrder(Append(w, <<k, e[k]>>), d, e)
<1> DEFINE s == <<k, e[k]>>
           x == Append(w, s)
<1>1. s \in Keys \X Nat /\ s[1] = k /\ s[2] = e[k]
  BY DEF Readings
<1> HIDE DEF s
<1>2. /\ x \in Samples /\ Len(x) = Len(w) + 1 /\ x[Len(w) + 1] = s
      /\ \A i \in 1..Len(w) : x[i] = w[i]
  BY <1>1 DEF Samples
<1>3. Len(w) \in Nat
  BY DEF Samples
<1> HIDE DEF x
<1>4. ASSUME NEW i \in 1..Len(x) PROVE d[x[i][1]] <= x[i][2] /\ x[i][2] <= e[x[i][1]]
  <2>1. CASE i \in 1..Len(w)
    BY <1>2, <2>1 DEF InOrder
  <2>2. CASE i = Len(w) + 1
    BY <1>1, <1>2, <2>2 DEF Readings
  <2> QED
    BY <1>2, <1>3, <2>1, <2>2
<1>5. ASSUME NEW i \in 1..Len(x), NEW j \in 1..Len(x), i < j, x[i][1] = x[j][1]
      PROVE  x[i][2] <= x[j][2]
  <2>1. i \in 1..Len(w)
    BY <1>2, <1>3, <1>5
  <2>2. CASE j \in 1..Len(w)
    BY <1>2, <1>5, <2>1, <2>2 DEF InOrder
  <2>3. CASE j = Len(w) + 1
    <3>1. w[i][2] <= e[w[i][1]]
      BY <2>1 DEF InOrder
    <3> QED
      BY <1>1, <1>2, <1>5, <2>1, <2>3, <3>1
  <2> QED
    BY <1>2, <1>3, <2>2, <2>3
<1>6. InOrder(x, d, e)
  BY <1>4, <1>5 DEF InOrder
<1> QED
  BY <1>2, <1>6 DEF x, s

\* The oldest sample is put in place of what was held.
LEMMA OrderOfTail ==
    ASSUME NEW w \in Samples, w # <<>>, NEW d \in Readings, NEW e \in Readings,
           InOrder(w, d, e), \A k \in Keys : d[k] <= e[k],
           NEW c, c = [d EXCEPT ![w[1][1]] = w[1][2]]
    PROVE  /\ Tail(w) \in Samples /\ InOrder(Tail(w), c, e) /\ c \in Readings
           /\ \A k \in Keys : d[k] <= c[k] /\ c[k] <= e[k]
<1>1. Len(w) \in Nat /\ Len(w) # 0
  BY DEF Samples
<1> DEFINE x == Tail(w)
<1>2. /\ x \in Samples /\ Len(x) = Len(w) - 1
      /\ \A i \in 1..Len(x) : x[i] = w[i + 1]
  BY <1>1 DEF Samples
<1> HIDE DEF x
<1>3. /\ w[1][1] \in Keys /\ w[1][2] \in Nat
      /\ d[w[1][1]] <= w[1][2] /\ w[1][2] <= e[w[1][1]]
  BY <1>1, SampleTyped DEF InOrder
<1>4. /\ c \in Readings /\ c[w[1][1]] = w[1][2]
      /\ \A k \in Keys : k # w[1][1] => c[k] = d[k]
  BY <1>3 DEF Readings
<1>5. ASSUME NEW k \in Keys PROVE d[k] <= c[k] /\ c[k] <= e[k]
  <2>1. d[k] \in Nat
    BY DEF Readings
  <2>2. CASE k = w[1][1]
    BY <1>3, <1>4, <2>2
  <2>3. CASE k # w[1][1]
    BY <1>4, <2>1, <2>3
  <2> QED
    BY <2>2, <2>3
<1>6. ASSUME NEW i \in 1..Len(x) PROVE c[x[i][1]] <= x[i][2] /\ x[i][2] <= e[x[i][1]]
  <2>1. i + 1 \in 1..Len(w) /\ 1 \in 1..Len(w) /\ 1 < i + 1 /\ x[i] = w[i + 1]
    BY <1>1, <1>2
  <2>2. w[i + 1][1] \in Keys /\ d[w[i + 1][1]] <= w[i + 1][2] /\ w[i + 1][2] <= e[w[i + 1][1]]
    BY <2>1, SampleTyped DEF InOrder
  <2>3. CASE w[i + 1][1] = w[1][1]
    <3>1. w[1][2] <= w[i + 1][2]
      BY <2>1, <2>3 DEF InOrder
    <3> QED
      BY <1>4, <2>1, <2>2, <2>3, <3>1
  <2>4. CASE w[i + 1][1] # w[1][1]
    BY <1>4, <2>1, <2>2, <2>4
  <2> QED
    BY <2>3, <2>4
<1>7. ASSUME NEW i \in 1..Len(x), NEW j \in 1..Len(x), i < j, x[i][1] = x[j][1]
      PROVE  x[i][2] <= x[j][2]
  <2>1. /\ i + 1 \in 1..Len(w) /\ j + 1 \in 1..Len(w) /\ i + 1 < j + 1
        /\ x[i] = w[i + 1] /\ x[j] = w[j + 1]
    BY <1>1, <1>2, <1>7
  <2> QED
    BY <1>7, <2>1 DEF InOrder
<1> QED
  BY <1>2, <1>4, <1>5, <1>6, <1>7 DEF InOrder, x

\* The snapshot holds every zone once, in the device's version.
LEMMA OrderOfSnapshot ==
    ASSUME OrderInv, Snapshot
    PROVE  wire' \in Samples /\ InOrder(wire', data, device)
<1> DEFINE S == {k \in Keys : latest[k] # 0}
           n == Cardinality(S)
<1>1. n \in Nat
  <2>1. IsFiniteSet(S)
    BY ConstantsAssumption, FS_Subset
  <2> QED
    BY <2>1, FS_CardinalityType
<1>2. PICK q \in Orders(S) : wire' = [i \in DOMAIN q |-> <<q[i], latest[q[i]]>>]
  BY DEF Snapshot
<1>3. q \in [1..n -> S]
  BY DEF Orders
<1>4. ASSUME NEW i \in 1..n
      PROVE  /\ q[i] \in Keys /\ latest[q[i]] \in Nat /\ latest[q[i]] = device[q[i]]
             /\ data[q[i]] <= device[q[i]]
             /\ wire'[i] = <<q[i], latest[q[i]]>>
             /\ wire'[i][1] = q[i] /\ wire'[i][2] = latest[q[i]]
  <2>1. q[i] \in S /\ wire'[i] = <<q[i], latest[q[i]]>>
    BY <1>2, <1>3
  <2> QED
    BY <2>1 DEF OrderInv, Readings
<1> HIDE DEF S, n
<1>5. wire' \in [1..n -> Keys \X Nat]
  <2>1. DOMAIN q = 1..n
    BY <1>3
  <2>2. \A i \in 1..n : <<q[i], latest[q[i]]>> \in Keys \X Nat
    BY <1>4
  <2> QED
    BY <1>2, <2>1, <2>2
<1>6. wire' \in Samples /\ Len(wire') = n
  BY <1>1, <1>5 DEF Samples
<1>7. ASSUME NEW i \in 1..Len(wire'), NEW j \in 1..Len(wire'), wire'[i][1] = wire'[j][1]
      PROVE  wire'[i][2] <= wire'[j][2]
  <2>1. /\ wire'[i][1] = q[i] /\ wire'[i][2] = latest[q[i]] /\ latest[q[i]] \in Nat
        /\ wire'[j][1] = q[j] /\ wire'[j][2] = latest[q[j]]
    BY <1>4, <1>6
  <2>2. q[i] = q[j]
    BY <1>7, <2>1
  <2>3. wire'[i][2] = wire'[j][2] /\ wire'[i][2] \in Nat
    BY <2>1, <2>2
  <2> QED
    BY <2>3
<1>8. ASSUME NEW i \in 1..Len(wire')
      PROVE  data[wire'[i][1]] <= wire'[i][2] /\ wire'[i][2] <= device[wire'[i][1]]
  <2>1. /\ wire'[i][1] = q[i] /\ wire'[i][2] = latest[q[i]] /\ latest[q[i]] \in Nat
        /\ latest[q[i]] = device[q[i]] /\ data[q[i]] <= device[q[i]]
    BY <1>4, <1>6
  <2> QED
    BY <2>1
<1> QED
  BY <1>6, <1>7, <1>8 DEF InOrder

LEMMA BroadcastKeepsOrder ==
    ASSUME OrderInv, NEW k \in Keys, NEW v, Broadcast(k, v),
           device' \in Readings, device'[k] = v,
           \A j \in Keys : device[j] <= device'[j],
           \A j \in Keys : j # k => device'[j] = device[j],
           data' = data
    PROVE  OrderInv'
<1>1. latest' \in Readings /\ \A j \in Keys : latest'[j] \in {0, device'[j]}
  BY DEF Broadcast, OrderInv, Readings
<1>2. data \in Readings /\ \A j \in Keys : data[j] <= device'[j]
  BY DEF OrderInv, Readings
<1>3. wire \in Samples /\ InOrder(wire, data, device')
  BY <1>2, OrderOfNewer DEF OrderInv
<1>4. wire' \in Samples /\ InOrder(wire', data, device')
  BY <1>2, <1>3, OrderOfAppend DEF Broadcast
<1> QED
  BY <1>1, <1>2, <1>4 DEF OrderInv

LEMMA OrderStep ==
    ASSUME OrderInv, [Next]_vars
    PROVE  OrderInv' /\ \A k \in Keys : data'[k] >= data[k]
<1>1. ASSUME UNCHANGED data PROVE \A k \in Keys : data'[k] >= data[k]
  BY <1>1 DEF OrderInv, Readings
<1>2. ASSUME NEW k \in Keys, Publish(k) \/ Republish(k) PROVE OrderInv' /\ UNCHANGED data
  <2>1. PICK v : /\ Broadcast(k, v) /\ device' = [device EXCEPT ![k] = v]
                 /\ v \in Nat /\ device[k] <= v /\ data' = data
    BY <1>2 DEF Publish, Republish, OrderInv, Readings
  <2>2. /\ device' \in Readings /\ device'[k] = v
        /\ \A j \in Keys : device[j] <= device'[j] /\ (j # k => device'[j] = device[j])
    BY <2>1 DEF OrderInv, Readings
  <2> QED
    BY <2>1, <2>2, BroadcastKeepsOrder
<1>3. CASE UNCHANGED <<latest, device, wire, data>>
  BY <1>1, <1>3 DEF OrderInv
<1>4. CASE ServerDown \/ LinkBreaks \/ Stop
  <2>1. /\ latest' = Nothing \/ latest' = latest
        /\ wire' = <<>> \/ wire' = wire
        /\ device' = device /\ data' = data
    BY <1>4 DEF ServerDown, LinkBreaks, Stop, srv
  <2>2. latest' \in Readings /\ \A k \in Keys : latest'[k] \in {0, device'[k]}
    BY <2>1 DEF Nothing, OrderInv, Readings
  <2>3. wire' \in Samples /\ InOrder(wire', data', device')
    <3>1. <<>> \in Samples /\ InOrder(<<>>, data', device')
      BY DEF InOrder, Samples
    <3> QED
      BY <2>1, <3>1 DEF OrderInv
  <2> QED
    BY <1>1, <2>1, <2>2, <2>3 DEF OrderInv
<1>5. CASE Connect
  <2>1. Snapshot /\ UNCHANGED <<device, latest, data>>
    BY <1>5 DEF Connect, srv
  <2> QED
    BY <1>1, <2>1, OrderOfSnapshot DEF OrderInv
<1>6. CASE ServerUp \/ Start \/ ConnectFails \/ StreamEnds \/ StreamRaises \/ Retry
  <2>1. UNCHANGED <<latest, device, wire, data>>
    BY <1>6 DEF ServerUp, Start, ConnectFails, StreamEnds, StreamRaises, Retry, srv
  <2> QED
    BY <1>3, <2>1
<1>7. CASE UNCHANGED vars
  BY <1>3, <1>7 DEF vars, srv
<1>8. ASSUME NEW k \in Keys, Process(k)
      PROVE  OrderInv' /\ \A j \in Keys : data'[j] >= data[j]
  <2>1. /\ wire # <<>> /\ Head(wire) = wire[1] /\ Head(wire)[1] = k
        /\ data' = [data EXCEPT ![k] = Head(wire)[2]] /\ wire' = Tail(wire)
        /\ device' = device /\ latest' = latest
    BY <1>8 DEF Process, srv, OrderInv, Samples
  <2>2. data' = [data EXCEPT ![wire[1][1]] = wire[1][2]]
    BY <2>1
  <2>3. /\ wire' \in Samples /\ InOrder(wire', data', device) /\ data' \in Readings
        /\ \A j \in Keys : data[j] <= data'[j] /\ data'[j] <= device[j]
    BY <2>1, <2>2, OrderOfTail DEF OrderInv
  <2> QED
    BY <2>1, <2>3 DEF OrderInv, Readings
<1> QED
  BY <1>1, <1>2, <1>3, <1>4, <1>5, <1>6, <1>7, <1>8 DEF Next, Server, Run

\* No entity goes back to an older sample of its zone or sees one the device did
\* not send, over any number of lost connections and restarts (_run 70-77).
THEOREM DataForward == Spec => DataMovesForward
<1>1. Init => OrderInv
  BY DEF Init, OrderInv, InOrder, Nothing, Readings, Samples
<1>2. OrderInv /\ [Next]_vars => OrderInv'
  BY OrderStep
<1>3. OrderInv /\ [Next]_vars
      => [\A k \in Keys : data'[k] >= data[k] /\ data'[k] <= device'[k]]_vars
  BY OrderStep DEF OrderInv
<1> QED
  BY <1>1, <1>2, <1>3, PTL DEF Spec, DataMovesForward

-----------------------------------------------------------------------------
(* Discovery.                                                              *)

LEMMA DiscoveredCovers ==
    ASSUME NEW ps, NEW d, NEW h, NEW p \in ps
    PROVE  Wanted(p, d, h) \subseteq Discovered(ps, d, h)
  BY DEF Discovered

\* Samples before, between and after the platforms: all entities that the held
\* samples call for are there, for any zones, systems and platforms (_discover).
THEOREM AllDiscovered == HomeSpec => []NothingUndiscovered
<1>1. HomeInit => NothingUndiscovered
  BY DEF HomeInit, NothingUndiscovered
<1>2. NothingUndiscovered /\ [HomeNext]_hvars => NothingUndiscovered'
  <2> SUFFICES ASSUME NothingUndiscovered, [HomeNext]_hvars
               PROVE  NothingUndiscovered'
    OBVIOUS
  <2>1. CASE UNCHANGED <<data, held, listening, entities>>
    BY <2>1 DEF NothingUndiscovered
  <2>2. ASSUME NEW p \in Platforms, SetupPlatform(p)
        PROVE  NothingUndiscovered'
    <3>1. /\ listening' = listening \cup {p} /\ entities' = Discovered({p}, data, held)
          /\ data' = data /\ held' = held
      BY <2>2 DEF SetupPlatform, vars
    <3>2. entities \subseteq entities' /\ Wanted(p, data, held) \subseteq entities'
      BY <3>1, DiscoveredCovers DEF Discovered
    <3>3. \A r : Wanted(r, data', held') = Wanted(r, data, held)
      BY <3>1
    <3> QED
      BY <3>1, <3>2, <3>3 DEF NothingUndiscovered
  <2>3. ASSUME NEW k \in Keys, Update(k)
        PROVE  NothingUndiscovered'
    <3>1. listening' = listening /\ entities' = Discovered(listening, data', held')
      BY <2>3 DEF Update
    <3>2. \A p \in listening : Wanted(p, data', held') \subseteq entities'
      BY <3>1 DEF Discovered
    <3> QED
      BY <3>1, <3>2 DEF NothingUndiscovered
  <2>4. CASE Unload
    BY <2>4 DEF Unload, NothingUndiscovered
  <2>5. CASE AddOnDown \/ Cut \/ Connected \/ Elsewhere \/ SetupEntry
    <3>1. UNCHANGED <<data, held, listening, entities>>
      BY <2>5 DEF AddOnDown, Cut, Connected, Elsewhere, SetupEntry, ServerDown, LinkBreaks,
         Connect, ServerUp, ConnectFails, StreamEnds, StreamRaises, Retry, Start, home, inside
    <3> QED
      BY <2>1, <3>1
  <2>6. CASE \E s \in Systems : StatusChanges(s) \/ Hear(s)
    BY <2>1, <2>6 DEF StatusChanges, Hear, inside, vars
  <2>7. CASE \E k \in Keys : PrintZone(k)
    BY <2>1, <2>7 DEF PrintZone, Publish, Republish, inside
  <2>8. CASE UNCHANGED hvars
    BY <2>1, <2>8 DEF hvars, home, inside, vars
  <2> QED
    BY <2>2, <2>3, <2>4, <2>5, <2>6, <2>7, <2>8 DEF HomeNext
<1> QED
  BY <1>1, <1>2, PTL DEF HomeSpec

-----------------------------------------------------------------------------
(* The pause.                                                              *)

\* The provers know nothing of powers but that they count subsets: those of n + 1
\* elements are those of n, and these again with the last element.
LEMMA PowerDoubles ==
    ASSUME NEW n \in Nat
    PROVE  2 ^ n \in Nat /\ 2 ^ n > 0 /\ 2 ^ (n + 1) = 2 * 2 ^ n
<1> DEFINE S == 1..n
           A == SUBSET S
           last == n + 1
           B == {U \cup {last} : U \in A}
<1>1. /\ IsFiniteSet(S) /\ Cardinality(S) = n
      /\ IsFiniteSet(1..last) /\ Cardinality(1..last) = last
  BY FS_Interval
<1>2. IsFiniteSet(A) /\ Cardinality(A) = 2 ^ n
  BY <1>1, FS_SUBSET
<1>3. Cardinality(SUBSET (1..last)) = 2 ^ last
  BY <1>1, FS_SUBSET
<1>4. 1..last = S \cup {last} /\ last \notin S
  OBVIOUS
<1>. HIDE DEF S, last
<1>5. SUBSET (1..last) = A \cup B /\ A \cap B = {}
  <2>1. ASSUME NEW U \in SUBSET (1..last) PROVE U \in A \/ U \in B
    <3>1. CASE last \in U
      <4>1. U \ {last} \in A /\ U = (U \ {last}) \cup {last}
        BY <1>4, <3>1
      <4>. QED
        BY <4>1
    <3>2. CASE last \notin U
      BY <1>4, <3>2
    <3>. QED
      BY <3>1, <3>2
  <2>2. ASSUME NEW U \in A \cup B PROVE U \in SUBSET (1..last)
    BY <1>4
  <2>3. ASSUME NEW U \in A, U \in B PROVE FALSE
    BY <1>4, <2>3
  <2>. QED
    BY <2>1, <2>2, <2>3
<1>6. IsFiniteSet(B) /\ Cardinality(B) = Cardinality(A)
  <2> DEFINE f == [U \in A |-> U \cup {last}]
  <2>1. f \in [A -> B]
    OBVIOUS
  <2>2. ASSUME NEW U \in A, NEW V \in A, f[U] = f[V] PROVE U = V
    <3>1. U \cup {last} = V \cup {last}
      BY <2>2
    <3>. QED
      BY <1>4, <3>1
  <2>3. \A W \in B : \E U \in A : f[U] = W
    OBVIOUS
  <2>. HIDE DEF f
  <2>4. f \in Bijection(A, B)
    BY <2>1, <2>2, <2>3, Fun_IsBij
  <2>5. ExistsBijection(A, B)
    BY <2>4 DEF ExistsBijection
  <2>. QED
    BY <1>2, <2>5, FS_Bijection
<1>7. Cardinality(A \cup B) = Cardinality(A) + Cardinality(B) - Cardinality(A \cap B)
  BY <1>2, <1>6, FS_Union
<1>8. Cardinality(A \cap B) = 0
  BY <1>5, FS_EmptySet
<1>9. Cardinality(A) \in Nat /\ Cardinality(A) # 0
  <2>1. {} \in A
    OBVIOUS
  <2>. QED
    BY <1>2, <2>1, FS_CardinalityType, FS_EmptySet
<1>. HIDE DEF A, B
<1>10. 2 ^ last = 2 ^ n + 2 ^ n /\ 2 ^ n \in Nat /\ 2 ^ n # 0
  <2>1. Cardinality(A \cup B) = 2 ^ last
    BY <1>3, <1>5
  <2>. QED
    BY <1>2, <1>6, <1>7, <1>8, <1>9, <2>1
<1>11. last = n + 1
  BY DEF last
<1>12. 2 ^ (n + 1) = 2 ^ n + 2 ^ n
  BY <1>10, <1>11
<1>. HIDE DEF last
<1>. QED
  BY <1>10, <1>12

LEMMA PowerZero == 2 ^ 0 = 1
<1>1. IsFiniteSet({}) /\ Cardinality({}) = 0
  BY FS_EmptySet
<1>2. Cardinality(SUBSET {}) = 2 ^ 0
  BY <1>1, FS_SUBSET
<1>3. SUBSET {} = {{}}
  OBVIOUS
<1>. QED
  BY <1>2, <1>3, FS_Singleton

Capped(x) == IF x < MaxBackoff THEN x ELSE MaxBackoff

\* While an attempt is made the local backoff is already the pause behind it.
PauseInv ==
    /\ failures \in Nat /\ backoff \in 1..MaxBackoff
    /\ rpc \in {"unloaded", "stream"} => failures = 0 /\ backoff = 1
    /\ rpc = "connect" => backoff = Capped(2 ^ failures)
    /\ rpc = "backoff" => failures > 0 /\ backoff = Capped(2 ^ (failures - 1))

LEMMA PauseStep == PauseInv /\ [Next]_vars => PauseInv'
<1>. SUFFICES ASSUME PauseInv, [Next]_vars PROVE PauseInv'
  OBVIOUS
<1>0. MaxBackoff \in Nat /\ MaxBackoff > 0 /\ failures \in Nat /\ backoff \in 1..MaxBackoff
  BY ConstantsAssumption DEF PauseInv
<1>1. Capped(1) = 1
  BY <1>0 DEF Capped
<1>2. CASE Server \/ UNCHANGED vars \/ \E k \in Keys : Process(k)
  <2>1. UNCHANGED <<rpc, backoff, failures>>
    BY <1>2 DEF Server, ServerDown, ServerUp, LinkBreaks, Publish, Republish, Process, vars, run
  <2>. QED
    BY <2>1 DEF PauseInv, Capped
<1>3. CASE Start
  <2>1. rpc = "unloaded" /\ rpc' = "connect" /\ backoff' = 1 /\ failures' = failures
    BY <1>3 DEF Start
  <2>2. failures = 0
    BY <2>1 DEF PauseInv
  <2>. QED
    BY <1>0, <1>1, <2>1, <2>2, PowerZero DEF PauseInv, Capped
<1>4. CASE Stop
  <2>1. rpc' = "stopped" /\ UNCHANGED <<backoff, failures>>
    BY <1>4 DEF Stop
  <2>. QED
    BY <2>1 DEF PauseInv
<1>5. CASE Connect
  <2>1. rpc' = "stream" /\ backoff' = 1 /\ failures' = 0
    BY <1>5 DEF Connect
  <2>. QED
    BY <1>0, <2>1 DEF PauseInv
<1>6. CASE ConnectFails
  <2>1. rpc = "connect" /\ rpc' = "backoff" /\ failures' = failures + 1 /\ backoff' = backoff
    BY <1>6 DEF ConnectFails
  <2>2. failures' - 1 = failures /\ failures' > 0 /\ failures' \in Nat
    BY <1>0, <2>1
  <2>3. backoff = Capped(2 ^ failures)
    BY <2>1 DEF PauseInv
  <2>. QED
    BY <1>0, <2>1, <2>2, <2>3 DEF PauseInv, Capped
<1>7. CASE StreamEnds
  <2>1. rpc = "stream" /\ rpc' = "connect" /\ UNCHANGED <<backoff, failures>>
    BY <1>7 DEF StreamEnds
  <2>2. failures = 0 /\ backoff = 1
    BY <2>1 DEF PauseInv
  <2>. QED
    BY <1>0, <1>1, <2>1, <2>2, PowerZero DEF PauseInv, Capped
<1>8. CASE StreamRaises
  <2>1. rpc = "stream" /\ rpc' = "backoff" /\ backoff' = backoff /\ failures' = failures + 1
    BY <1>8 DEF StreamRaises
  <2>2. failures' - 1 = 0 /\ failures' > 0 /\ failures' \in Nat /\ backoff = 1
    BY <2>1 DEF PauseInv
  <2>. QED
    BY <1>0, <1>1, <2>1, <2>2, PowerZero DEF PauseInv, Capped
<1>9. CASE Retry
  <2>1. /\ rpc = "backoff" /\ rpc' = "connect" /\ failures' = failures
        /\ backoff' = IF 2 * backoff < MaxBackoff THEN 2 * backoff ELSE MaxBackoff
    BY <1>9 DEF Retry
  <2> DEFINE x == 2 ^ (failures - 1)
  <2>2. failures - 1 \in Nat /\ (failures - 1) + 1 = failures /\ backoff = Capped(x)
    BY <1>0, <2>1 DEF PauseInv
  <2>3. x \in Nat /\ x > 0 /\ 2 ^ failures = 2 * x
    <3>1. 2 ^ ((failures - 1) + 1) = 2 * 2 ^ (failures - 1)
          /\ 2 ^ (failures - 1) \in Nat /\ 2 ^ (failures - 1) > 0
      BY <2>2, PowerDoubles
    <3>. QED
      BY <2>2, <3>1
  <2>. HIDE DEF x
  <2>4. backoff' = Capped(2 * x) /\ backoff' \in 1..MaxBackoff
    BY <1>0, <2>1, <2>2, <2>3 DEF Capped
  <2>. QED
    BY <1>0, <2>1, <2>3, <2>4 DEF PauseInv, Capped
<1>. QED
  BY <1>2, <1>3, <1>4, <1>5, <1>6, <1>7, <1>8, <1>9 DEF Next, Run

\* The n-th failure in a row is followed by a pause of 2^(n-1) seconds, up to the
\* limit, for every n (_run 63-84).
THEOREM PauseDoubles == Spec => []DelayFollowsFailures
<1>1. Init => PauseInv
  BY ConstantsAssumption DEF Init, PauseInv
<1>2. PauseInv => DelayFollowsFailures
  BY DEF PauseInv, DelayFollowsFailures, Delay, Capped
<1>. QED
  BY <1>1, <1>2, PauseStep, PTL DEF Spec

-----------------------------------------------------------------------------
(* Types.                                                                  *)

Wires == Seq(Keys \X (1..MaxVersion))

\* The snapshot has every zone of which there is a sample once.
LEMMA SnapshotTyped ==
    ASSUME latest \in [Keys -> Versions], Snapshot
    PROVE  /\ wire' \in Wires
           /\ \A i \in DOMAIN wire' : wire'[i][1] \in Keys /\ latest[wire'[i][1]] # 0
<1> DEFINE S == {k \in Keys : latest[k] # 0}
           n == Cardinality(S)
<1>1. n \in Nat
  <2>1. IsFiniteSet(S)
    BY ConstantsAssumption, FS_Subset
  <2>. QED
    BY <2>1, FS_CardinalityType
<1>2. PICK q \in Orders(S) : wire' = [i \in DOMAIN q |-> <<q[i], latest[q[i]]>>]
  BY DEF Snapshot
<1>3. q \in [1..n -> S]
  BY DEF Orders
<1>4. ASSUME NEW i \in 1..n
      PROVE  /\ q[i] \in Keys /\ latest[q[i]] \in 1..MaxVersion /\ latest[q[i]] # 0
             /\ wire'[i] = <<q[i], latest[q[i]]>> /\ wire'[i][1] = q[i]
  <2>1. q[i] \in S /\ wire'[i] = <<q[i], latest[q[i]]>>
    BY <1>2, <1>3
  <2>2. latest[q[i]] \in Versions /\ latest[q[i]] # 0 /\ q[i] \in Keys
    BY <2>1
  <2>3. latest[q[i]] \in 1..MaxVersion
    BY <2>2, ConstantsAssumption DEF Versions
  <2>. QED
    BY <2>1, <2>2, <2>3
<1>. HIDE DEF S, n
<1>5. DOMAIN q = 1..n /\ DOMAIN wire' = 1..n
  BY <1>2, <1>3
<1>6. wire' \in [1..n -> Keys \X (1..MaxVersion)]
  <2>1. \A i \in 1..n : <<q[i], latest[q[i]]>> \in Keys \X (1..MaxVersion)
    BY <1>4
  <2>. QED
    BY <1>2, <1>5, <2>1
<1>7. wire' \in Wires
  BY <1>1, <1>6 DEF Wires
<1>. QED
  BY <1>4, <1>5, <1>7

Stored ==
    /\ latest \in [Keys -> Versions] /\ device \in [Keys -> Versions]
    /\ data \in [Keys -> Versions] /\ wire \in Wires
Where ==
    /\ up \in BOOLEAN /\ ws \in BOOLEAN
    /\ link \in {"none", "open", "broken", "clean"}
    /\ rpc \in {"unloaded", "connect", "stream", "backoff", "stopped"}
    /\ link # "none" <=> rpc = "stream"
Counted == backoff \in 1..MaxBackoff /\ failures \in Nat /\ breaks \in Nat

LEMMA TypeParts == TypeOK <=> Stored /\ Where /\ Counted
  BY DEF TypeOK, Stored, Where, Counted, Wires

LEMMA StoredStep == Stored /\ [Next]_vars => Stored'
<1>. SUFFICES ASSUME Stored, [Next]_vars PROVE Stored'
  OBVIOUS
<1>0. /\ MaxVersion \in Nat /\ MaxVersion > 0
      /\ Nothing \in [Keys -> Versions] /\ <<>> \in Wires
  BY ConstantsAssumption DEF Nothing, Versions, Wires
<1>1. ASSUME NEW k \in Keys, NEW v \in 1..MaxVersion, Broadcast(k, v)
      PROVE  latest' \in [Keys -> Versions] /\ wire' \in Wires
  <2>1. latest' \in [Keys -> Versions]
    BY <1>0, <1>1 DEF Broadcast, Stored, Versions
  <2>2. <<k, v>> \in Keys \X (1..MaxVersion)
    OBVIOUS
  <2>3. Append(wire, <<k, v>>) \in Wires
    BY <2>2 DEF Stored, Wires
  <2>4. wire' \in Wires
    BY <1>1, <2>3 DEF Broadcast, Stored
  <2>. QED
    BY <2>1, <2>4
<1>2. ASSUME NEW k \in Keys, Publish(k) PROVE Stored'
  <2>1. device[k] \in Nat /\ device[k] + 1 \in 1..MaxVersion /\ device' = [device EXCEPT ![k] = device[k] + 1]
    BY <1>0, <1>2 DEF Publish, Stored, Versions
  <2>2. device' \in [Keys -> Versions] /\ device'[k] = device[k] + 1
    BY <1>0, <2>1 DEF Stored, Versions
  <2>3. latest' \in [Keys -> Versions] /\ wire' \in Wires
    BY <1>1, <1>2, <2>1, <2>2 DEF Publish
  <2>4. data' = data
    BY <1>2 DEF Publish
  <2>. QED
    BY <2>2, <2>3, <2>4 DEF Stored
<1>3. ASSUME NEW k \in Keys, Republish(k) PROVE Stored'
  <2>1. device[k] \in 1..MaxVersion
    BY <1>0, <1>3 DEF Republish, Stored, Versions
  <2>2. latest' \in [Keys -> Versions] /\ wire' \in Wires
    BY <1>1, <1>3, <2>1 DEF Republish
  <2>3. device' = device /\ data' = data
    BY <1>3 DEF Republish
  <2>. QED
    BY <2>2, <2>3 DEF Stored
<1>4. ASSUME NEW k \in Keys, Process(k) PROVE Stored'
  <2>1. /\ wire # <<>> /\ wire \in Seq(Keys \X (1..MaxVersion))
        /\ data' = [data EXCEPT ![k] = Head(wire)[2]] /\ wire' = Tail(wire)
    BY <1>4 DEF Process, Stored, Wires
  <2>2. Head(wire) \in Keys \X (1..MaxVersion) /\ wire' \in Seq(Keys \X (1..MaxVersion))
    BY <2>1
  <2>3. Head(wire)[2] \in Versions
    BY <1>0, <2>2 DEF Versions
  <2>4. data' \in [Keys -> Versions]
    BY <2>1, <2>3 DEF Stored
  <2>5. latest' = latest /\ device' = device
    BY <1>4 DEF Process, srv
  <2>. QED
    BY <2>2, <2>4, <2>5 DEF Stored, Wires
<1>5. CASE ServerDown \/ LinkBreaks \/ Stop
  <2>1. /\ latest' \in {latest, Nothing} /\ wire' \in {wire, <<>>}
        /\ device' = device /\ data' = data
    BY <1>5 DEF ServerDown, LinkBreaks, Stop, srv
  <2>. QED
    BY <1>0, <2>1 DEF Stored
<1>6. CASE Connect
  <2>1. wire' \in Wires
    BY <1>6, SnapshotTyped DEF Connect, Stored
  <2>2. latest' = latest /\ device' = device /\ data' = data
    BY <1>6 DEF Connect, srv
  <2>. QED
    BY <2>1, <2>2 DEF Stored
<1>7. CASE ServerUp \/ Start \/ ConnectFails \/ StreamEnds \/ StreamRaises \/ Retry \/ UNCHANGED vars
  <2>1. UNCHANGED <<latest, device, wire, data>>
    BY <1>7 DEF ServerUp, Start, ConnectFails, StreamEnds, StreamRaises, Retry, vars, srv
  <2>. QED
    BY <2>1 DEF Stored
<1>. QED
  BY <1>2, <1>3, <1>4, <1>5, <1>6, <1>7 DEF Next, Server, Run

LEMMA WhereStep == Where /\ [Next]_vars => Where'
<1>. SUFFICES ASSUME Where, [Next]_vars PROVE Where'
  OBVIOUS
<1>1. CASE UNCHANGED vars \/ \E k \in Keys : Publish(k) \/ Republish(k) \/ Process(k)
  <2>1. UNCHANGED <<up, ws, link, rpc>>
    BY <1>1 DEF vars, srv, run, Publish, Republish, Process
  <2>. QED
    BY <2>1 DEF Where
<1>2. CASE ServerDown
  <2>1. /\ up' = FALSE /\ ws' = ws /\ rpc' = rpc
        /\ link = "open" => link' \in {"clean", "broken"}
        /\ link # "open" => link' = link
    BY <1>2 DEF ServerDown, run
  <2>. QED
    BY <2>1 DEF Where
<1>3. CASE ServerUp \/ LinkBreaks
  <2>1. /\ up' \in {up, TRUE} /\ ws' = ws /\ rpc' = rpc
        /\ link' = link \/ (link = "open" /\ link' = "broken")
    BY <1>3 DEF ServerUp, LinkBreaks, run, srv
  <2>. QED
    BY <2>1 DEF Where
<1>4. CASE Start \/ Retry \/ ConnectFails
  <2>1. /\ up' = up /\ ws' \in {ws, FALSE} /\ link' = link
        /\ rpc # "stream" /\ rpc' \in {"connect", "backoff"}
    BY <1>4 DEF Start, Retry, ConnectFails, srv
  <2>. QED
    BY <2>1 DEF Where
<1>5. CASE Stop \/ StreamEnds \/ StreamRaises
  <2>1. /\ up' = up /\ ws' \in {ws, FALSE} /\ link' = "none"
        /\ rpc' \in {"stopped", "connect", "backoff"}
    BY <1>5 DEF Stop, StreamEnds, StreamRaises, srv
  <2>. QED
    BY <2>1 DEF Where
<1>6. CASE Connect
  <2>1. up' = up /\ ws' = TRUE /\ link' = "open" /\ rpc' = "stream"
    BY <1>6 DEF Connect, srv
  <2>. QED
    BY <2>1 DEF Where
<1>. QED
  BY <1>1, <1>2, <1>3, <1>4, <1>5, <1>6 DEF Next, Server, Run

LEMMA CountedStep == Counted /\ [Next]_vars => Counted'
<1>. SUFFICES ASSUME Counted, [Next]_vars PROVE Counted'
  OBVIOUS
<1>0. MaxBackoff \in Nat /\ MaxBackoff > 0
  BY ConstantsAssumption
<1>1. backoff' \in {backoff, 1, IF 2 * backoff < MaxBackoff THEN 2 * backoff ELSE MaxBackoff}
  BY DEF Next, Server, Run, vars, run, Publish, Republish, Process, ServerDown, ServerUp,
     LinkBreaks, Start, Stop, Connect, ConnectFails, StreamEnds, StreamRaises, Retry
<1>2. failures' \in {failures, 0, failures + 1} /\ breaks' \in {breaks, breaks + 1}
  BY DEF Next, Server, Run, vars, Publish, Republish, Process, ServerDown, ServerUp,
     LinkBreaks, Start, Stop, Connect, ConnectFails, StreamEnds, StreamRaises, Retry
<1>. QED
  BY <1>0, <1>1, <1>2 DEF Counted

LEMMA TypeStep == TypeOK /\ [Next]_vars => TypeOK'
<1>1. TypeOK' <=> Stored' /\ Where' /\ Counted'
  BY DEF TypeOK, Stored, Where, Counted, Wires, Versions
<1>. QED
  BY <1>1, TypeParts, StoredStep, WhereStep, CountedStep

LEMMA TypeInit == Init => TypeOK
<1>. SUFFICES ASSUME Init PROVE TypeOK
  OBVIOUS
<1>1. Stored
  BY ConstantsAssumption DEF Init, Stored, Nothing, Versions, Wires
<1>2. Where
  BY DEF Init, Where
<1>3. Counted
  BY ConstantsAssumption DEF Init, Counted
<1>. QED
  BY <1>1, <1>2, <1>3, TypeParts

\* What HomeTypeOK says, with the domains it takes for granted.
StatusTyped ==
    /\ status \in [Systems -> Statuses] /\ heard \in [Systems -> Nat]
    /\ \A s \in Systems : heard[s] <= status[s]
SamplesTyped ==
    /\ printed \in [Keys -> Nat] /\ held \in [Keys -> Nat]
    /\ \A k \in Keys :
          /\ printed[k] <= heard[SysOf[k]] /\ held[k] <= status[SysOf[k]]
          /\ latest[k] = 0 => printed[k] = 0
          /\ data[k] = 0 => held[k] = 0
MovingTyped ==
    /\ moving \in Seq(Nat) /\ Len(moving) = Len(wire)
    /\ greeting \in Nat /\ greeting <= Len(wire)
    /\ \A i \in 1..Len(wire) : moving[i] <= status[SysOf[wire[i][1]]]
Entities == Kinds \X (Keys \cup Systems)
ViewsTyped ==
    /\ order \in Seq(Seen(data)) /\ Len(order) = Cardinality(Seen(data))
    /\ listening \subseteq Platforms /\ entities \subseteq Entities

HomeInv == TypeOK /\ StatusTyped /\ SamplesTyped /\ MovingTyped /\ ViewsTyped

LEMMA SystemOfKey == \A k \in Keys : SysOf[k] \in Systems
  BY DEF Systems

\* The actions that leave the status, the samples or the views alone.
LEMMA StatusStep ==
    ASSUME StatusTyped, [HomeNext]_hvars
    PROVE  StatusTyped' /\ \A s \in Systems : status[s] <= status'[s]
<1>. USE HomeAssumption DEF Statuses
<1>1. ASSUME UNCHANGED bridge PROVE StatusTyped' /\ \A s \in Systems : status[s] <= status'[s]
  BY <1>1 DEF StatusTyped, bridge
<1>2. CASE AddOnDown
  <2>1. status' = status /\ heard' = Restarted
    BY <1>2 DEF AddOnDown
  <2>2. heard' \in [Systems -> Nat] /\ \A s \in Systems : heard'[s] = 0
    BY <2>1 DEF Restarted
  <2>. QED
    BY <2>1, <2>2 DEF StatusTyped
<1>3. ASSUME NEW s \in Systems, StatusChanges(s)
      PROVE  StatusTyped' /\ \A t \in Systems : status[t] <= status'[t]
  BY <1>3 DEF StatusChanges, StatusTyped
<1>4. ASSUME NEW s \in Systems, Hear(s)
      PROVE  StatusTyped' /\ \A t \in Systems : status[t] <= status'[t]
  BY <1>4 DEF Hear, StatusTyped
<1>5. CASE Cut \/ Connected \/ Elsewhere \/ SetupEntry \/ Unload \/ UNCHANGED hvars
  BY <1>1, <1>5 DEF Cut, Connected, Elsewhere, SetupEntry, Unload, hvars, home
<1>6. CASE \/ \E p \in Platforms : SetupPlatform(p)
           \/ \E k \in Keys : PrintZone(k) \/ Update(k)
  BY <1>1, <1>6 DEF SetupPlatform, PrintZone, Update
<1>. QED
  BY <1>2, <1>3, <1>4, <1>5, <1>6 DEF HomeNext

\* What a line of zone k and an update from its sample do to the coordinator.
LEMMA PrintFacts ==
    ASSUME TypeOK, NEW k \in Keys, PrintZone(k)
    PROVE  \E v \in 1..MaxVersion :
              /\ latest' = [latest EXCEPT ![k] = v]
              /\ wire' = IF link = "open" THEN Append(wire, <<k, v>>) ELSE wire
              /\ data' = data /\ link' = link
<1>0. MaxVersion \in Nat /\ device[k] \in 0..MaxVersion
  BY ConstantsAssumption DEF TypeOK, Versions
<1>1. CASE Publish(k)
  <2>1. device[k] + 1 \in 1..MaxVersion /\ device'[k] = device[k] + 1
    BY <1>0, <1>1 DEF Publish, TypeOK
  <2>. QED
    BY <1>1, <2>1 DEF Publish, Broadcast
<1>2. CASE Republish(k)
  <2>1. device[k] \in 1..MaxVersion
    BY <1>0, <1>2 DEF Republish
  <2>. QED
    BY <1>2, <2>1 DEF Republish, Broadcast
<1>. QED
  BY <1>1, <1>2 DEF PrintZone

LEMMA UpdateFacts ==
    ASSUME TypeOK, MovingTyped, NEW k \in Keys, Update(k)
    PROVE  /\ Len(wire) \in Nat /\ Len(wire) > 0
           /\ wire[1][1] = k /\ wire[1][2] \in 1..MaxVersion
           /\ data' = [data EXCEPT ![k] = wire[1][2]] /\ latest' = latest
           /\ Len(wire') = Len(wire) - 1 /\ \A i \in 1..Len(wire') : wire'[i] = wire[i + 1]
           /\ moving[1] \in Nat /\ moving[1] <= status[SysOf[k]]
           /\ held' = [held EXCEPT ![k] = moving[1]]
           /\ moving' \in Seq(Nat) /\ Len(moving') = Len(wire')
           /\ \A i \in 1..Len(wire') : moving'[i] = moving[i + 1]
           /\ greeting' = IF greeting = 0 THEN 0 ELSE greeting - 1
           /\ UNCHANGED <<status, heard, printed, listening>>
<1>1. wire \in Seq(Keys \X (1..MaxVersion)) /\ moving \in Seq(Nat) /\ Len(moving) = Len(wire)
  BY DEF TypeOK, MovingTyped
<1>2. /\ wire # <<>> /\ Head(wire)[1] = k /\ data' = [data EXCEPT ![k] = Head(wire)[2]]
      /\ wire' = Tail(wire) /\ latest' = latest
  BY DEF Update, Process, srv
<1>3. Len(wire) \in Nat /\ Len(wire) > 0 /\ Head(wire) = wire[1] /\ wire[1] \in Keys \X (1..MaxVersion)
  BY <1>1, <1>2
<1>4. Len(wire') = Len(wire) - 1 /\ \A i \in 1..Len(wire') : wire'[i] = wire[i + 1]
  BY <1>1, <1>2, <1>3
<1>5. moving # <<>> /\ Head(moving) = moving[1] /\ moving[1] \in Nat
  BY <1>1, <1>3
<1>6. /\ held' = [held EXCEPT ![k] = Head(moving)] /\ moving' = Tail(moving)
      /\ greeting' = IF greeting = 0 THEN 0 ELSE greeting - 1
      /\ UNCHANGED <<status, heard, printed, listening>>
  BY DEF Update, bridge
<1>7. /\ moving' \in Seq(Nat) /\ Len(moving') = Len(moving) - 1
      /\ \A i \in 1..Len(moving') : moving'[i] = moving[i + 1]
  BY <1>1, <1>5, <1>6
<1>8. wire[1][1] = k /\ wire[1][2] \in 1..MaxVersion
  BY <1>2, <1>3
<1>9. moving[1] <= status[SysOf[k]]
  <2>1. 1 \in 1..Len(wire)
    BY <1>3
  <2>. QED
    BY <1>8, <2>1 DEF MovingTyped
<1>. QED
  BY <1>1, <1>2, <1>3, <1>4, <1>5, <1>6, <1>7, <1>8, <1>9

LEMMA SamplesStep ==
    ASSUME TypeOK, StatusTyped, StatusTyped', \A s \in Systems : status[s] <= status'[s],
           SamplesTyped, MovingTyped, [HomeNext]_hvars
    PROVE  SamplesTyped'
<1>1. ASSUME UNCHANGED <<status, heard, printed, held, latest, data>> PROVE SamplesTyped'
  BY <1>1 DEF SamplesTyped
<1>2. CASE AddOnDown
  <2>1. status' = status /\ heard' = Restarted /\ printed' = Nothing /\ held' = held
        /\ latest' = Nothing /\ data' = data
    BY <1>2 DEF AddOnDown, ServerDown, inside
  <2>2. printed' \in [Keys -> Nat] /\ \A k \in Keys : printed'[k] = 0 /\ heard'[SysOf[k]] = 0
    BY <2>1, SystemOfKey DEF Nothing, Restarted
  <2>. QED
    BY <2>1, <2>2 DEF SamplesTyped
<1>3. ASSUME NEW s \in Systems, StatusChanges(s) PROVE SamplesTyped'
  <2>1. UNCHANGED <<heard, printed, held, latest, data>>
    BY <1>3 DEF StatusChanges, vars, srv, inside
  <2>2. ASSUME NEW k \in Keys PROVE held[k] <= status'[SysOf[k]]
    <3>1. /\ held[k] \in Nat /\ held[k] <= status[SysOf[k]]
          /\ status[SysOf[k]] \in Nat /\ status'[SysOf[k]] \in Nat
          /\ status[SysOf[k]] <= status'[SysOf[k]]
      BY SystemOfKey, HomeAssumption DEF SamplesTyped, StatusTyped, Statuses
    <3>. QED
      BY <3>1
  <2>. QED
    BY <2>1, <2>2 DEF SamplesTyped
<1>4. ASSUME NEW s \in Systems, Hear(s) PROVE SamplesTyped'
  <2>1. UNCHANGED <<status, printed, held, latest, data>> /\ heard' = [heard EXCEPT ![s] = status[s]]
    BY <1>4 DEF Hear, vars, srv, inside
  <2>2. ASSUME NEW k \in Keys PROVE printed[k] <= heard'[SysOf[k]]
    <3>1. /\ printed[k] \in Nat /\ printed[k] <= heard[SysOf[k]]
          /\ heard[SysOf[k]] \in Nat /\ heard'[SysOf[k]] \in Nat
          /\ heard[SysOf[k]] <= heard'[SysOf[k]]
      BY <2>1, SystemOfKey, HomeAssumption DEF SamplesTyped, StatusTyped, Statuses
    <3>. QED
      BY <3>1
  <2>. QED
    BY <2>1, <2>2 DEF SamplesTyped
<1>5. CASE Cut \/ Connected \/ Elsewhere
  BY <1>1, <1>5 DEF Cut, Connected, Elsewhere, LinkBreaks, Connect, ServerUp, ConnectFails,
     StreamEnds, StreamRaises, Retry, srv, bridge, inside, home
<1>6. CASE SetupEntry \/ Unload \/ UNCHANGED hvars \/ \E p \in Platforms : SetupPlatform(p)
  BY <1>1, <1>6 DEF SetupEntry, Unload, SetupPlatform, Start, Stop, hvars, vars, srv, bridge,
     inside, home
<1>7. ASSUME NEW k \in Keys, PrintZone(k) PROVE SamplesTyped'
  <2>1. PICK v \in 1..MaxVersion : latest' = [latest EXCEPT ![k] = v] /\ data' = data
    BY <1>7, PrintFacts
  <2>2. UNCHANGED <<status, heard, held>> /\ printed' = [printed EXCEPT ![k] = heard[SysOf[k]]]
    BY <1>7 DEF PrintZone, bridge, inside
  <2>3. heard[SysOf[k]] \in Nat /\ latest'[k] # 0 /\ \A j \in Keys \ {k} : latest'[j] = latest[j]
    BY <2>1, SystemOfKey DEF StatusTyped, TypeOK
  <2>4. /\ printed' \in [Keys -> Nat] /\ printed'[k] = heard[SysOf[k]]
        /\ \A j \in Keys \ {k} : printed'[j] = printed[j]
    BY <2>2, <2>3 DEF SamplesTyped
  <2>. QED
    BY <2>1, <2>2, <2>3, <2>4 DEF SamplesTyped
<1>8. ASSUME NEW k \in Keys, Update(k) PROVE SamplesTyped'
  <2>1. /\ wire[1][2] \in 1..MaxVersion /\ data' = [data EXCEPT ![k] = wire[1][2]]
        /\ latest' = latest /\ moving[1] \in Nat /\ moving[1] <= status[SysOf[k]]
        /\ held' = [held EXCEPT ![k] = moving[1]] /\ UNCHANGED <<status, heard, printed>>
    BY <1>8, UpdateFacts
  <2>2. data'[k] # 0 /\ \A j \in Keys \ {k} : data'[j] = data[j]
    BY <2>1 DEF TypeOK
  <2>3. /\ held' \in [Keys -> Nat] /\ held'[k] = moving[1]
        /\ \A j \in Keys \ {k} : held'[j] = held[j]
    BY <2>1 DEF SamplesTyped
  <2>. QED
    BY <2>1, <2>2, <2>3 DEF SamplesTyped
<1>. QED
  BY <1>2, <1>3, <1>4, <1>5, <1>6, <1>7, <1>8 DEF HomeNext

LEMMA SnapshotLength ==
    ASSUME TypeOK, Connected
    PROVE  /\ wire' \in Wires /\ Len(wire') \in Nat /\ DOMAIN wire' = 1..Len(wire')
           /\ DOMAIN moving' = 1..Len(wire') /\ greeting' = Len(wire')
           /\ \A i \in 1..Len(wire') : wire'[i][1] \in Keys /\ moving'[i] = printed[wire'[i][1]]
<1>1. Snapshot /\ moving' = [i \in DOMAIN wire' |-> printed[wire'[i][1]]] /\ greeting' = Len(wire')
  BY DEF Connected, Connect
<1>2. wire' \in Wires /\ \A i \in DOMAIN wire' : wire'[i][1] \in Keys
  BY <1>1, SnapshotTyped DEF TypeOK
<1>3. Len(wire') \in Nat /\ DOMAIN wire' = 1..Len(wire')
  BY <1>2 DEF Wires
<1>. QED
  BY <1>1, <1>2, <1>3

LEMMA MovingStep ==
    ASSUME TypeOK, StatusTyped, StatusTyped', \A s \in Systems : status[s] <= status'[s],
           SamplesTyped, MovingTyped, [HomeNext]_hvars
    PROVE  MovingTyped'
<1>0. Len(<<>>) = 0 /\ <<>> \in Seq(Nat) /\ Len(wire) \in Nat /\ wire \in Seq(Keys \X (1..MaxVersion))
  BY DEF TypeOK
<1>1. ASSUME UNCHANGED <<moving, wire, greeting, status>> PROVE MovingTyped'
  BY <1>1 DEF MovingTyped
<1>2. ASSUME moving' = <<>>, wire' = <<>>, greeting' = 0 PROVE MovingTyped'
  BY <1>0, <1>2 DEF MovingTyped
<1>3. ASSUME NEW i \in 1..Len(wire)
      PROVE  wire[i][1] \in Keys /\ SysOf[wire[i][1]] \in Systems
  <2>1. wire[i] \in Keys \X (1..MaxVersion)
    BY <1>0
  <2>. QED
    BY <2>1, SystemOfKey
<1>4. CASE AddOnDown
  <2>1. CASE link' = "broken"
    BY <1>2, <1>4, <2>1 DEF AddOnDown, ServerDown
  <2>2. CASE link' # "broken"
    BY <1>1, <1>4, <2>2 DEF AddOnDown, ServerDown
  <2>. QED
    BY <2>1, <2>2
<1>5. CASE Cut \/ Unload
  BY <1>2, <1>5 DEF Cut, Unload, LinkBreaks, Stop
<1>6. CASE Connected
  <2>1. /\ wire' \in Wires /\ Len(wire') \in Nat /\ DOMAIN moving' = 1..Len(wire')
        /\ greeting' = Len(wire') /\ status' = status
        /\ \A i \in 1..Len(wire') : wire'[i][1] \in Keys /\ moving'[i] = printed[wire'[i][1]]
    BY <1>6, SnapshotLength DEF Connected, bridge
  <2>2. ASSUME NEW i \in 1..Len(wire')
        PROVE  moving'[i] \in Nat /\ moving'[i] <= status'[SysOf[wire'[i][1]]]
    <3> DEFINE k == wire'[i][1]
    <3>1. k \in Keys /\ moving'[i] = printed[k]
      BY <2>1
    <3>. HIDE DEF k
    <3>2. /\ printed[k] \in Nat /\ heard[SysOf[k]] \in Nat /\ status[SysOf[k]] \in Nat
          /\ printed[k] <= heard[SysOf[k]] /\ heard[SysOf[k]] <= status[SysOf[k]]
      BY <3>1, SystemOfKey, HomeAssumption DEF SamplesTyped, StatusTyped, Statuses
    <3>. QED
      BY <2>1, <3>1, <3>2 DEF k
  <2>3. moving' = [i \in 1..Len(wire') |-> moving'[i]]
    BY <1>6, <2>1 DEF Connected
  <2>4. moving' \in [1..Len(wire') -> Nat]
    BY <2>2, <2>3
  <2>5. moving' \in Seq(Nat) /\ Len(moving') = Len(wire')
    BY <2>1, <2>4
  <2>. QED
    BY <2>1, <2>2, <2>5 DEF MovingTyped
<1>7. CASE Elsewhere \/ SetupEntry \/ UNCHANGED hvars
  BY <1>1, <1>7 DEF Elsewhere, SetupEntry, Start, ServerUp, ConnectFails, StreamEnds,
     StreamRaises, Retry, hvars, vars, home, sent, bridge
<1>8. CASE \/ \E p \in Platforms : SetupPlatform(p)
           \/ \E s \in Systems : Hear(s)
  BY <1>1, <1>8 DEF SetupPlatform, Hear, vars, sent, bridge
<1>9. ASSUME NEW s \in Systems, StatusChanges(s) PROVE MovingTyped'
  <2>1. UNCHANGED <<moving, wire, greeting>>
    BY <1>9 DEF StatusChanges, vars, sent
  <2>2. ASSUME NEW i \in 1..Len(wire) PROVE moving[i] <= status'[SysOf[wire[i][1]]]
    <3> DEFINE t == SysOf[wire[i][1]]
    <3>1. t \in Systems
      BY <1>3
    <3>. HIDE DEF t
    <3>2. status[t] \in Nat /\ status'[t] \in Nat /\ status[t] <= status'[t]
      BY <3>1, HomeAssumption DEF StatusTyped, Statuses
    <3>3. moving[i] \in Nat /\ moving[i] <= status[t]
      BY DEF MovingTyped, t
    <3>. QED
      BY <3>2, <3>3 DEF t
  <2>. QED
    BY <2>1, <2>2 DEF MovingTyped
<1>10. ASSUME NEW k \in Keys, PrintZone(k) PROVE MovingTyped'
  <2>1. PICK v \in 1..MaxVersion :
          wire' = (IF link = "open" THEN Append(wire, <<k, v>>) ELSE wire) /\ link' = link
    BY <1>10, PrintFacts
  <2>2. /\ UNCHANGED <<status, heard, greeting>> /\ printed' = [printed EXCEPT ![k] = heard[SysOf[k]]]
        /\ moving' = IF link = "open" THEN Append(moving, printed'[k]) ELSE moving
    BY <1>10 DEF PrintZone, bridge
  <2>3. CASE link # "open"
    BY <1>1, <2>1, <2>2, <2>3
  <2>4. CASE link = "open"
    <3> DEFINE h == heard[SysOf[k]]
               w == <<k, v>>
    <3>1. h \in Nat /\ h <= status[SysOf[k]] /\ printed'[k] = h
      BY <2>2, SystemOfKey DEF StatusTyped, SamplesTyped
    <3>2. w[1] = k /\ w \in Keys \X (1..MaxVersion)
      OBVIOUS
    <3>. HIDE DEF h, w
    <3>3. wire' = Append(wire, w) /\ moving' = Append(moving, h)
      BY <2>1, <2>2, <2>4, <3>1 DEF w
    <3>4. /\ Len(wire') = Len(wire) + 1 /\ wire'[Len(wire) + 1] = w
          /\ \A i \in 1..Len(wire) : wire'[i] = wire[i]
      BY <1>0, <3>2, <3>3
    <3>5. moving \in Seq(Nat) /\ Len(moving) = Len(wire)
      BY DEF MovingTyped
    <3>6. /\ moving' \in Seq(Nat) /\ Len(moving') = Len(wire) + 1 /\ moving'[Len(wire) + 1] = h
          /\ \A i \in 1..Len(wire) : moving'[i] = moving[i]
      BY <3>1, <3>3, <3>5
    <3>7. ASSUME NEW i \in 1..Len(wire') PROVE moving'[i] <= status'[SysOf[wire'[i][1]]]
      <4>1. CASE i \in 1..Len(wire)
        BY <2>2, <3>4, <3>6, <4>1 DEF MovingTyped
      <4>2. CASE i = Len(wire) + 1
        BY <2>2, <3>1, <3>2, <3>4, <3>6, <4>2
      <4>. QED
        BY <1>0, <3>4, <4>1, <4>2
    <3>8. greeting' \in Nat /\ greeting' <= Len(wire')
      BY <1>0, <2>2, <3>4 DEF MovingTyped
    <3>. QED
      BY <3>4, <3>6, <3>7, <3>8 DEF MovingTyped
  <2>. QED
    BY <2>3, <2>4
<1>11. ASSUME NEW k \in Keys, Update(k) PROVE MovingTyped'
  <2>1. /\ Len(wire) > 0 /\ Len(wire') = Len(wire) - 1
        /\ \A i \in 1..Len(wire') : wire'[i] = wire[i + 1] /\ moving'[i] = moving[i + 1]
        /\ moving' \in Seq(Nat) /\ Len(moving') = Len(wire') /\ status' = status
        /\ greeting' = IF greeting = 0 THEN 0 ELSE greeting - 1
    BY <1>11, UpdateFacts
  <2>2. ASSUME NEW i \in 1..Len(wire') PROVE moving'[i] <= status'[SysOf[wire'[i][1]]]
    <3>1. i + 1 \in 1..Len(wire)
      BY <1>0, <2>1
    <3>. QED
      BY <2>1, <3>1 DEF MovingTyped
  <2>3. greeting' \in Nat /\ greeting' <= Len(wire')
    BY <1>0, <2>1 DEF MovingTyped
  <2>. QED
    BY <2>1, <2>2, <2>3 DEF MovingTyped
<1>. QED
  BY <1>4, <1>5, <1>6, <1>7, <1>8, <1>9, <1>10, <1>11 DEF HomeNext

\* _discover asks for entities of zones and systems there are, of its platform.
LEMMA WantedTyped == \A p \in Platforms : \A d, h : Wanted(p, d, h) \subseteq Entities
<1>. SUFFICES ASSUME NEW p \in Platforms, NEW d, NEW h PROVE Wanted(p, d, h) \subseteq Entities
  OBVIOUS
<1>1. ASSUME NEW kind \in Kinds, NEW ks \in SUBSET Keys
      PROVE  ZoneEntities(kind, ks) \subseteq Entities /\ SystemEntities(kind, ks) \subseteq Entities
  BY SystemOfKey DEF ZoneEntities, SystemEntities, Entities
<1>2. /\ Seen(d) \in SUBSET Keys /\ Informed(d, h) \in SUBSET Keys /\ Able(d) \in SUBSET Keys
      /\ Kinds = {"climate", "reading", "weather", "flag", "alert", "smartaway", "away", "setpoint"}
  BY DEF Seen, Informed, Able, Kinds
<1>3. p \in {"climate", "sensor", "binary_sensor", "switch", "number"}
  BY HomeAssumption
<1>4. CASE p = "climate"
  BY <1>1, <1>2, <1>4 DEF Wanted, ClimateOf
<1>5. CASE p = "sensor"
  BY <1>1, <1>2, <1>5 DEF Wanted, SensorsOf
<1>6. CASE p = "binary_sensor"
  BY <1>1, <1>2, <1>6 DEF Wanted, BinarySensorsOf
<1>7. CASE p = "switch"
  BY <1>1, <1>2, <1>7 DEF Wanted, SwitchesOf
<1>8. CASE p = "number"
  BY <1>1, <1>2, <1>8 DEF Wanted, NumbersOf
<1>. QED
  BY <1>3, <1>4, <1>5, <1>6, <1>7, <1>8

LEMMA ViewsStep ==
    ASSUME TypeOK, MovingTyped, ViewsTyped, [HomeNext]_hvars
    PROVE  ViewsTyped'
<1>1. ASSUME UNCHANGED <<data, order>>, listening' \subseteq Platforms, entities' \subseteq Entities
      PROVE  ViewsTyped'
  BY <1>1 DEF ViewsTyped, Seen
<1>2. ASSUME UNCHANGED <<data, order, listening, entities>> PROVE ViewsTyped'
  BY <1>1, <1>2 DEF ViewsTyped
<1>3. ASSUME NEW ps \in SUBSET Platforms, NEW d, NEW h
      PROVE  Discovered(ps, d, h) \subseteq Entities
  BY <1>3, WantedTyped DEF Discovered, ViewsTyped
<1>4. CASE AddOnDown \/ Cut \/ Connected \/ Elsewhere \/ SetupEntry \/ UNCHANGED hvars
  BY <1>2, <1>4 DEF AddOnDown, Cut, Connected, Elsewhere, SetupEntry, ServerDown, LinkBreaks,
     Connect, Start, ServerUp, ConnectFails, StreamEnds, StreamRaises, Retry, hvars, vars, home, inside
<1>5. CASE \E s \in Systems : StatusChanges(s) \/ Hear(s)
  BY <1>2, <1>5 DEF StatusChanges, Hear, vars, inside
<1>6. ASSUME NEW k \in Keys, PrintZone(k) PROVE ViewsTyped'
  BY <1>2, <1>6 DEF PrintZone, Publish, Republish, inside
<1>7. CASE Unload
  BY <1>1, <1>7 DEF Unload, Stop
<1>8. ASSUME NEW p \in Platforms, SetupPlatform(p) PROVE ViewsTyped'
  <2>1. /\ UNCHANGED <<data, order>> /\ listening' = listening \cup {p}
        /\ entities' = Discovered({p}, data, held)
    BY <1>8 DEF SetupPlatform, vars
  <2>2. {p} \in SUBSET Platforms
    BY <1>8
  <2>3. entities' \subseteq Entities
    BY <1>3, <2>1, <2>2
  <2>. QED
    BY <1>1, <2>1, <2>2, <2>3 DEF ViewsTyped
<1>9. ASSUME NEW k \in Keys, Update(k) PROVE ViewsTyped'
  <2>1. /\ wire[1][2] \in 1..MaxVersion /\ data' = [data EXCEPT ![k] = wire[1][2]]
        /\ listening' = listening
    BY <1>9, UpdateFacts
  <2>2. /\ order' = IF data[k] # 0 THEN order ELSE Append(order, k)
        /\ entities' = Discovered(listening, data', held')
    BY <1>9 DEF Update
  <2>3. entities' \subseteq Entities
    BY <1>3, <2>2 DEF ViewsTyped
  <2>4. Seen(data') = Seen(data) \cup {k}
    BY <2>1 DEF Seen, TypeOK
  <2>5. order' \in Seq(Seen(data')) /\ Len(order') = Cardinality(Seen(data'))
    <3>0. order \in Seq(Seen(data)) /\ Len(order) = Cardinality(Seen(data))
      BY DEF ViewsTyped
    <3>1. CASE data[k] # 0
      <4>1. Seen(data') = Seen(data) /\ order' = order
        BY <2>2, <2>4, <3>1 DEF Seen
      <4>. QED
        BY <3>0, <4>1
    <3>2. CASE data[k] = 0
      <4>1. k \notin Seen(data) /\ order' = Append(order, k)
        BY <2>2, <3>2 DEF Seen
      <4>2. IsFiniteSet(Seen(data))
        BY ConstantsAssumption, FS_Subset DEF Seen
      <4>3. Cardinality(Seen(data')) = Cardinality(Seen(data)) + 1
        BY <2>4, <4>1, <4>2, FS_AddElement
      <4>4. order \in Seq(Seen(data')) /\ k \in Seen(data')
        BY <2>4, <3>0
      <4>5. order' \in Seq(Seen(data')) /\ Len(order') = Len(order) + 1
        BY <4>1, <4>4
      <4>. QED
        BY <3>0, <4>3, <4>5
    <3>. QED
      BY <3>1, <3>2
  <2>. QED
    BY <2>1, <2>3, <2>5 DEF ViewsTyped
<1>. QED
  BY <1>4, <1>5, <1>6, <1>7, <1>8, <1>9 DEF HomeNext

LEMMA HomeInvariant == HomeSpec => []HomeInv
<1>1. HomeInit => HomeInv
  <2>. SUFFICES ASSUME HomeInit PROVE HomeInv
    OBVIOUS
  <2>1. TypeOK
    BY TypeInit DEF HomeInit
  <2>2. StatusTyped
    BY HomeAssumption DEF HomeInit, StatusTyped, Restarted, Statuses
  <2>3. SamplesTyped
    BY SystemOfKey DEF HomeInit, SamplesTyped, Nothing, Restarted
  <2>4. MovingTyped
    BY DEF HomeInit, Init, MovingTyped
  <2>5. ViewsTyped
    <3>1. Seen(data) = {} /\ order = <<>> /\ listening = {} /\ entities = {}
      BY DEF HomeInit, Init, Seen, Nothing
    <3>. QED
      BY <3>1, FS_EmptySet DEF ViewsTyped
  <2>. QED
    BY <2>1, <2>2, <2>3, <2>4, <2>5 DEF HomeInv
<1>2. HomeInv /\ [HomeNext]_hvars => HomeInv'
  BY HomeStepIsCoordinatorStep, TypeStep, StatusStep, SamplesStep, MovingStep, ViewsStep DEF HomeInv
<1>. QED
  BY <1>1, <1>2, PTL DEF HomeSpec

\* The status an entity, a sample under way or the bridge has is one the system had,
\* and every zone seen has its place in the order of the data, once.
THEOREM HomeTyped == HomeSpec => []HomeTypeOK
<1>1. HomeInv => HomeTypeOK
  <2>. SUFFICES ASSUME HomeInv PROVE HomeTypeOK
    OBVIOUS
  <2>1. \A s \in Systems : heard[s] \in 0..status[s]
    BY HomeAssumption DEF HomeInv, StatusTyped, Statuses
  <2>2. ASSUME NEW k \in Keys
        PROVE  printed[k] \in 0..heard[SysOf[k]] /\ held[k] \in 0..status[SysOf[k]]
    BY SystemOfKey, HomeAssumption DEF HomeInv, SamplesTyped, StatusTyped, Statuses
  <2>3. wire \in Seq(Keys \X (1..MaxVersion))
    BY DEF HomeInv, TypeOK
  <2>4. DOMAIN wire = 1..Len(wire) /\ Len(wire) \in Nat
    BY <2>3
  <2>5. ASSUME NEW i \in DOMAIN wire PROVE moving[i] \in 0..status[SysOf[wire[i][1]]]
    <3>1. wire[i] \in Keys \X (1..MaxVersion)
      BY <2>3, <2>4
    <3>2. SysOf[wire[i][1]] \in Systems
      BY <3>1, SystemOfKey
    <3>3. status[SysOf[wire[i][1]]] \in Nat
      BY <3>2, HomeAssumption DEF HomeInv, StatusTyped, Statuses
    <3>4. moving[i] \in Nat /\ moving[i] <= status[SysOf[wire[i][1]]]
      BY <2>4 DEF HomeInv, MovingTyped
    <3>. QED
      BY <3>3, <3>4
  <2>6. greeting \in 0..Len(wire) /\ Len(moving) = Len(wire)
    BY <2>4 DEF HomeInv, MovingTyped
  <2>. QED
    BY <2>1, <2>2, <2>5, <2>6 DEF HomeTypeOK, HomeInv, StatusTyped, SamplesTyped, ViewsTyped, Entities
<1>. QED
  BY <1>1, HomeInvariant, PTL

-----------------------------------------------------------------------------
(* What is news.                                                           *)
(*                                                                         *)
(* AlertMovesForward and AwayTurnsOnForNews are about two updates and all  *)
(* that went before the second.  They hold since the bridge knows nothing  *)
(* of a system or its latest status: what it prints of a zone is no status *)
(* at all or none of its earlier ones, and what it broadcasts none that is *)
(* earlier than what any zone has or gets on the way.  In a snapshot the   *)
(* zones are in no such order.                                             *)

Of(i) == SysOf[wire[i][1]]

HeardIsLatest ==
    /\ \A k \in Keys : heard[SysOf[k]] # 0 => held[k] <= heard[SysOf[k]]
    /\ \A i \in 1..Len(wire) : heard[Of(i)] # 0 => moving[i] <= heard[Of(i)]
PrintedIsNews ==
    \A k \in Keys :
       printed[k] # 0 =>
          /\ held[k] <= printed[k]
          /\ \A i \in 1..Len(wire) : wire[i][1] = k => moving[i] <= printed[k]
ZonesInOrder ==
    \A i \in 1..Len(wire) :
       moving[i] # 0 =>
          /\ held[wire[i][1]] <= moving[i]
          /\ \A j \in 1..Len(wire) : j < i /\ wire[j][1] = wire[i][1] => moving[j] <= moving[i]
BroadcastsInOrder ==
    \A i \in 1..Len(wire) :
       greeting < i /\ moving[i] # 0 =>
          /\ \A k \in Zones(Of(i)) : held[k] <= moving[i]
          /\ \A j \in 1..Len(wire) : j < i /\ Of(j) = Of(i) => moving[j] <= moving[i]
Placed == \A k \in Seen(data) : \E i \in 1..Len(order) : order[i] = k

NewsInv == HeardIsLatest /\ PrintedIsNews /\ ZonesInOrder /\ BroadcastsInOrder /\ Placed

\* The steps as the samples see them.
Quiet == UNCHANGED <<heard, printed, held, wire, moving, greeting>>
Emptied ==
    /\ wire' = <<>> /\ moving' = <<>> /\ greeting' = 0
    /\ UNCHANGED <<heard, printed, held>>
Forgotten ==
    /\ \A k \in Keys : heard'[SysOf[k]] = 0 /\ printed'[k] = 0
    /\ held' = held
    /\ wire' = <<>> \/ UNCHANGED <<wire, moving, greeting>>
Told(s) == heard' = [heard EXCEPT ![s] = status[s]] /\ UNCHANGED <<printed, held, wire, moving, greeting>>
Sent(k) ==
    /\ UNCHANGED <<heard, held, greeting>>
    /\ printed'[k] = heard[SysOf[k]] /\ \A j \in Keys : j # k => printed'[j] = printed[j]
    /\ \/ UNCHANGED <<wire, moving>>
       \/ /\ Len(wire') = Len(wire) + 1
          /\ wire'[Len(wire) + 1][1] = k /\ moving'[Len(wire) + 1] = heard[SysOf[k]]
          /\ \A i \in 1..Len(wire) : wire'[i] = wire[i] /\ moving'[i] = moving[i]
Greeted ==
    /\ UNCHANGED <<heard, printed, held>>
    /\ greeting' = Len(wire')
    /\ \A i \in 1..Len(wire') : wire'[i][1] \in Keys /\ moving'[i] = printed[wire'[i][1]]
Taken(k) ==
    /\ UNCHANGED <<heard, printed>>
    /\ Len(wire) > 0 /\ wire[1][1] = k /\ held'[k] = moving[1]
    /\ \A j \in Keys : j # k => held'[j] = held[j]
    /\ Len(wire') = Len(wire) - 1
    /\ \A i \in 1..Len(wire') : wire'[i] = wire[i + 1] /\ moving'[i] = moving[i + 1]
    /\ greeting' = IF greeting = 0 THEN 0 ELSE greeting - 1

Typed ==
    /\ Len(wire) \in Nat /\ greeting \in Nat /\ greeting <= Len(wire)
    /\ \A i \in 1..Len(wire) :
          /\ wire[i][1] \in Keys /\ Of(i) \in Systems
          /\ moving[i] \in Nat /\ moving[i] <= status[Of(i)]
    /\ \A k \in Keys :
          /\ held[k] \in Nat /\ held[k] <= status[SysOf[k]]
          /\ printed[k] \in Nat /\ printed[k] <= heard[SysOf[k]]
          /\ heard[SysOf[k]] \in Nat /\ status[SysOf[k]] \in Nat
    /\ \A s \in Systems : heard[s] \in Nat /\ status[s] \in Nat

LEMMA TypesOfNews == HomeInv => Typed
<1>. SUFFICES ASSUME HomeInv PROVE Typed
  OBVIOUS
<1>1. wire \in Seq(Keys \X (1..MaxVersion)) /\ moving \in Seq(Nat) /\ Len(moving) = Len(wire)
  BY DEF HomeInv, TypeOK, MovingTyped
<1>2. Len(wire) \in Nat /\ greeting \in Nat /\ greeting <= Len(wire)
  BY <1>1 DEF HomeInv, MovingTyped
<1>3. \A s \in Systems : heard[s] \in Nat /\ status[s] \in Nat
  BY HomeAssumption DEF HomeInv, StatusTyped, Statuses
<1>4. ASSUME NEW i \in 1..Len(wire)
      PROVE  wire[i][1] \in Keys /\ Of(i) \in Systems /\ moving[i] \in Nat /\ moving[i] <= status[Of(i)]
  <2>1. wire[i] \in Keys \X (1..MaxVersion) /\ moving[i] \in Nat
    BY <1>1
  <2>2. moving[i] <= status[Of(i)]
    BY DEF HomeInv, MovingTyped, Of
  <2>. QED
    BY <2>1, <2>2, SystemOfKey DEF Of
<1>5. ASSUME NEW k \in Keys
      PROVE  /\ held[k] \in Nat /\ held[k] <= status[SysOf[k]]
             /\ printed[k] \in Nat /\ printed[k] <= heard[SysOf[k]]
             /\ heard[SysOf[k]] \in Nat /\ status[SysOf[k]] \in Nat
  BY <1>3, SystemOfKey DEF HomeInv, SamplesTyped
<1>. QED
  BY <1>2, <1>3, <1>4, <1>5 DEF Typed

LEMMA NewsSteps ==
    ASSUME HomeInv, [HomeNext]_hvars
    PROVE  \/ Quiet \/ Emptied \/ Forgotten \/ Greeted
           \/ \E s \in Systems : Told(s)
           \/ \E k \in Keys : Sent(k) \/ Taken(k)
<1>1. CASE Elsewhere \/ SetupEntry \/ UNCHANGED hvars
  <2>1. Quiet
    BY <1>1 DEF Elsewhere, SetupEntry, Start, ServerUp, ConnectFails, StreamEnds, StreamRaises,
       Retry, Quiet, hvars, vars, home, sent, bridge, inside
  <2>. QED
    BY <2>1
<1>2. CASE \/ \E p \in Platforms : SetupPlatform(p)
           \/ \E s \in Systems : StatusChanges(s)
  <2>1. Quiet
    BY <1>2 DEF SetupPlatform, StatusChanges, Quiet, vars, sent, bridge, inside
  <2>. QED
    BY <2>1
<1>3. CASE Cut \/ Unload
  <2>1. Emptied
    BY <1>3 DEF Cut, Unload, LinkBreaks, Stop, Emptied, bridge, inside
  <2>. QED
    BY <2>1
<1>4. CASE AddOnDown
  <2>1. /\ heard' = Restarted /\ printed' = Nothing /\ held' = held
        /\ wire' = (IF link' = "broken" THEN <<>> ELSE wire)
        /\ moving' = (IF link' = "broken" THEN <<>> ELSE moving)
        /\ greeting' = (IF link' = "broken" THEN 0 ELSE greeting)
    BY <1>4 DEF AddOnDown, ServerDown, inside
  <2>2. \A k \in Keys : heard'[SysOf[k]] = 0 /\ printed'[k] = 0
    BY <2>1, SystemOfKey DEF Restarted, Nothing
  <2>3. Forgotten
    BY <2>1, <2>2 DEF Forgotten
  <2>. QED
    BY <2>3
<1>5. CASE Connected
  <2>1. Greeted
    BY <1>5, SnapshotLength DEF HomeInv, Connected, Greeted, bridge, inside
  <2>. QED
    BY <2>1
<1>6. ASSUME NEW s \in Systems, Hear(s) PROVE Told(s)
  BY <1>6 DEF Hear, Told, vars, sent, inside
<1>7. ASSUME NEW k \in Keys, PrintZone(k) PROVE Sent(k)
  <2>1. PICK v \in 1..MaxVersion :
          wire' = (IF link = "open" THEN Append(wire, <<k, v>>) ELSE wire)
    BY <1>7, PrintFacts DEF HomeInv
  <2>2. /\ UNCHANGED <<heard, held, greeting>> /\ printed' = [printed EXCEPT ![k] = heard[SysOf[k]]]
        /\ moving' = IF link = "open" THEN Append(moving, printed'[k]) ELSE moving
    BY <1>7 DEF PrintZone, bridge, inside
  <2>3. printed'[k] = heard[SysOf[k]] /\ \A j \in Keys : j # k => printed'[j] = printed[j]
    BY <2>2 DEF HomeInv, SamplesTyped
  <2>4. CASE link # "open"
    BY <2>1, <2>2, <2>3, <2>4 DEF Sent
  <2>5. CASE link = "open"
    <3> DEFINE w == <<k, v>>
    <3>1. w \in Keys \X (1..MaxVersion) /\ w[1] = k /\ wire' = Append(wire, w)
      BY <2>1, <2>5
    <3>. HIDE DEF w
    <3>2. wire \in Seq(Keys \X (1..MaxVersion)) /\ moving \in Seq(Nat) /\ Len(moving) = Len(wire)
      BY DEF HomeInv, TypeOK, MovingTyped
    <3>3. /\ Len(wire') = Len(wire) + 1 /\ wire'[Len(wire) + 1] = w
          /\ \A i \in 1..Len(wire) : wire'[i] = wire[i]
      BY <3>1, <3>2
    <3>4. heard[SysOf[k]] \in Nat /\ moving' = Append(moving, heard[SysOf[k]])
      BY <2>2, <2>3, <2>5, TypesOfNews DEF Typed
    <3>5. /\ moving'[Len(wire) + 1] = heard[SysOf[k]]
          /\ \A i \in 1..Len(wire) : moving'[i] = moving[i]
      BY <3>2, <3>4
    <3>. QED
      BY <2>2, <2>3, <3>1, <3>3, <3>5 DEF Sent
  <2>. QED
    BY <2>4, <2>5
<1>8. ASSUME NEW k \in Keys, Update(k) PROVE Taken(k)
  <2>1. /\ Len(wire) > 0 /\ wire[1][1] = k
        /\ Len(wire') = Len(wire) - 1
        /\ \A i \in 1..Len(wire') : wire'[i] = wire[i + 1] /\ moving'[i] = moving[i + 1]
        /\ held' = [held EXCEPT ![k] = moving[1]]
        /\ greeting' = IF greeting = 0 THEN 0 ELSE greeting - 1
    BY <1>8, UpdateFacts DEF HomeInv
  <2>2. UNCHANGED <<heard, printed>>
    BY <1>8, UpdateFacts DEF HomeInv
  <2>3. held'[k] = moving[1] /\ \A j \in Keys : j # k => held'[j] = held[j]
    BY <2>1 DEF HomeInv, SamplesTyped
  <2>. QED
    BY <2>1, <2>2, <2>3 DEF Taken
<1>. QED
  BY <1>1, <1>2, <1>3, <1>4, <1>5, <1>6, <1>7, <1>8 DEF HomeNext

LEMMA HeardIsLatestStep ==
    ASSUME HomeInv, HeardIsLatest, [HomeNext]_hvars
    PROVE  HeardIsLatest'
<1>0. Typed
  BY TypesOfNews
<1>1. CASE Quiet
  BY <1>1 DEF Quiet, HeardIsLatest, Of
<1>2. CASE Emptied
  BY <1>2 DEF Emptied, HeardIsLatest
<1>3. CASE Forgotten
  <2>1. \A i \in 1..Len(wire') : heard'[SysOf[wire'[i][1]]] = 0
    BY <1>0, <1>3 DEF Forgotten, Typed
  <2>. QED
    BY <1>3, <2>1 DEF Forgotten, HeardIsLatest, Of
<1>4. CASE Greeted
  <2>1. \A i \in 1..Len(wire') : moving'[i] <= heard'[SysOf[wire'[i][1]]]
    BY <1>0, <1>4 DEF Greeted, Typed
  <2>. QED
    BY <1>4, <2>1 DEF Greeted, HeardIsLatest, Of
<1>5. ASSUME NEW s \in Systems, Told(s) PROVE HeardIsLatest'
  <2>1. \A t \in Systems : heard'[t] = IF t = s THEN status[s] ELSE heard[t]
    BY <1>5 DEF Told, HomeInv, StatusTyped
  <2>2. ASSUME NEW k \in Keys, heard'[SysOf[k]] # 0 PROVE held'[k] <= heard'[SysOf[k]]
    <3>1. CASE SysOf[k] = s
      BY <1>0, <1>5, <2>1, <3>1, SystemOfKey DEF Told, Typed
    <3>2. CASE SysOf[k] # s
      BY <1>5, <2>1, <2>2, <3>2, SystemOfKey DEF Told, HeardIsLatest
    <3>. QED
      BY <3>1, <3>2
  <2>3. ASSUME NEW i \in 1..Len(wire'), heard'[SysOf[wire'[i][1]]] # 0
        PROVE  moving'[i] <= heard'[SysOf[wire'[i][1]]]
    <3>1. i \in 1..Len(wire) /\ wire'[i] = wire[i] /\ moving'[i] = moving[i] /\ Of(i) \in Systems
      BY <1>0, <1>5 DEF Told, Typed
    <3>2. CASE Of(i) = s
      BY <1>0, <2>1, <3>1, <3>2 DEF Typed, Of
    <3>3. CASE Of(i) # s
      BY <2>1, <2>3, <3>1, <3>3 DEF HeardIsLatest, Of
    <3>. QED
      BY <3>2, <3>3
  <2>. QED
    BY <2>2, <2>3 DEF HeardIsLatest, Of
<1>6. ASSUME NEW k \in Keys, Sent(k) PROVE HeardIsLatest'
  <2>1. heard' = heard /\ held' = held
    BY <1>6 DEF Sent
  <2>2. ASSUME NEW i \in 1..Len(wire'), heard'[SysOf[wire'[i][1]]] # 0
        PROVE  moving'[i] <= heard'[SysOf[wire'[i][1]]]
    <3>1. CASE i \in 1..Len(wire) /\ wire'[i] = wire[i] /\ moving'[i] = moving[i]
      BY <2>1, <2>2, <3>1 DEF HeardIsLatest, Of
    <3>2. CASE wire'[i][1] = k /\ moving'[i] = heard[SysOf[k]]
      BY <1>0, <2>1, <3>2 DEF Typed
    <3>. QED
      BY <1>0, <1>6, <3>1, <3>2 DEF Sent, Typed
  <2>. QED
    BY <2>1, <2>2 DEF HeardIsLatest, Of
<1>7. ASSUME NEW k \in Keys, Taken(k) PROVE HeardIsLatest'
  <2>0. Len(wire) > 0 /\ wire[1][1] = k /\ held'[k] = moving[1] /\ heard' = heard
    BY <1>7 DEF Taken
  <2>1. heard[SysOf[k]] # 0 => held'[k] <= heard[SysOf[k]]
    BY <1>0, <2>0 DEF HeardIsLatest, Of, Typed
  <2>2. ASSUME NEW j \in Keys, heard'[SysOf[j]] # 0 PROVE held'[j] <= heard'[SysOf[j]]
    BY <1>7, <2>0, <2>1, <2>2 DEF Taken, HeardIsLatest
  <2>3. ASSUME NEW i \in 1..Len(wire'), heard'[SysOf[wire'[i][1]]] # 0
        PROVE  moving'[i] <= heard'[SysOf[wire'[i][1]]]
    <3>1. i + 1 \in 1..Len(wire) /\ wire'[i] = wire[i + 1] /\ moving'[i] = moving[i + 1]
      BY <1>0, <1>7 DEF Taken, Typed
    <3>. QED
      BY <2>0, <2>3, <3>1 DEF HeardIsLatest, Of
  <2>. QED
    BY <2>2, <2>3 DEF HeardIsLatest, Of
<1>. QED
  BY <1>1, <1>2, <1>3, <1>4, <1>5, <1>6, <1>7, NewsSteps

LEMMA PrintedIsNewsStep ==
    ASSUME HomeInv, HeardIsLatest, PrintedIsNews, [HomeNext]_hvars
    PROVE  PrintedIsNews'
<1>0. Typed
  BY TypesOfNews
<1>1. CASE Quiet
  BY <1>1 DEF Quiet, PrintedIsNews
<1>2. CASE Emptied
  BY <1>2 DEF Emptied, PrintedIsNews
<1>3. CASE Forgotten
  BY <1>3 DEF Forgotten, PrintedIsNews
<1>4. CASE Greeted
  <2>1. ASSUME NEW j \in Keys, printed'[j] # 0
        PROVE  /\ held'[j] <= printed'[j]
               /\ \A i \in 1..Len(wire') : wire'[i][1] = j => moving'[i] <= printed'[j]
    <3>1. printed' = printed /\ held' = held /\ printed[j] \in Nat
      BY <1>0, <1>4 DEF Greeted, Typed
    <3>2. held[j] <= printed[j]
      BY <2>1, <3>1 DEF PrintedIsNews
    <3>3. ASSUME NEW i \in 1..Len(wire'), wire'[i][1] = j PROVE moving'[i] <= printed[j]
      BY <1>4, <3>1, <3>3 DEF Greeted
    <3>. QED
      BY <3>1, <3>2, <3>3
  <2>. QED
    BY <2>1 DEF PrintedIsNews
<1>5. ASSUME NEW s \in Systems, Told(s) PROVE PrintedIsNews'
  BY <1>5 DEF Told, PrintedIsNews
<1>6. ASSUME NEW k \in Keys, Sent(k) PROVE PrintedIsNews'
  <2>1. held' = held /\ printed'[k] = heard[SysOf[k]] /\ \A j \in Keys : j # k => printed'[j] = printed[j]
    BY <1>6 DEF Sent
  <2>2. ASSUME NEW i \in 1..Len(wire')
        PROVE  \/ i \in 1..Len(wire) /\ wire'[i] = wire[i] /\ moving'[i] = moving[i]
               \/ wire'[i][1] = k /\ moving'[i] = heard[SysOf[k]]
    BY <1>0, <1>6 DEF Sent, Typed
  <2>3. ASSUME NEW j \in Keys, printed'[j] # 0
        PROVE  /\ held'[j] <= printed'[j]
               /\ \A i \in 1..Len(wire') : wire'[i][1] = j => moving'[i] <= printed'[j]
    <3>1. CASE j = k
      <4>1. held[k] <= heard[SysOf[k]]
        BY <2>1, <2>3, <3>1 DEF HeardIsLatest
      <4>2. ASSUME NEW i \in 1..Len(wire'), wire'[i][1] = k PROVE moving'[i] <= heard[SysOf[k]]
        <5>1. CASE i \in 1..Len(wire) /\ wire'[i] = wire[i] /\ moving'[i] = moving[i]
          BY <2>1, <2>3, <3>1, <4>2, <5>1 DEF HeardIsLatest, Of
        <5>2. CASE moving'[i] = heard[SysOf[k]]
          BY <1>0, <5>2 DEF Typed
        <5>. QED
          BY <2>2, <5>1, <5>2
      <4>. QED
        BY <2>1, <3>1, <4>1, <4>2
    <3>2. CASE j # k
      <4>1. printed'[j] = printed[j]
        BY <2>1, <3>2
      <4>2. ASSUME NEW i \in 1..Len(wire'), wire'[i][1] = j PROVE moving'[i] <= printed[j]
        BY <2>2, <2>3, <3>2, <4>1, <4>2 DEF PrintedIsNews
      <4>. QED
        BY <2>1, <2>3, <4>1, <4>2 DEF PrintedIsNews
    <3>. QED
      BY <3>1, <3>2
  <2>. QED
    BY <2>3 DEF PrintedIsNews
<1>7. ASSUME NEW k \in Keys, Taken(k) PROVE PrintedIsNews'
  <2>0. /\ Len(wire) > 0 /\ wire[1][1] = k /\ held'[k] = moving[1] /\ printed' = printed
        /\ \A j \in Keys : j # k => held'[j] = held[j]
    BY <1>7 DEF Taken
  <2>1. ASSUME NEW j \in Keys, printed'[j] # 0 PROVE held'[j] <= printed'[j]
    BY <1>0, <2>0, <2>1 DEF PrintedIsNews, Typed
  <2>2. ASSUME NEW j \in Keys, printed'[j] # 0, NEW i \in 1..Len(wire'), wire'[i][1] = j
        PROVE  moving'[i] <= printed'[j]
    <3>1. i + 1 \in 1..Len(wire) /\ wire'[i] = wire[i + 1] /\ moving'[i] = moving[i + 1]
      BY <1>0, <1>7 DEF Taken, Typed
    <3>. QED
      BY <2>0, <2>2, <3>1 DEF PrintedIsNews
  <2>. QED
    BY <2>1, <2>2 DEF PrintedIsNews
<1>. QED
  BY <1>1, <1>2, <1>3, <1>4, <1>5, <1>6, <1>7, NewsSteps

LEMMA ZonesInOrderStep ==
    ASSUME HomeInv, HeardIsLatest, PrintedIsNews, ZonesInOrder, [HomeNext]_hvars
    PROVE  ZonesInOrder'
<1>0. Typed
  BY TypesOfNews
<1>1. CASE Quiet
  BY <1>1 DEF Quiet, ZonesInOrder
<1>2. CASE Emptied
  BY <1>2 DEF Emptied, ZonesInOrder
<1>3. CASE Forgotten
  BY <1>3 DEF Forgotten, ZonesInOrder
<1>4. CASE Greeted
  BY <1>0, <1>4 DEF Greeted, PrintedIsNews, ZonesInOrder, Typed
<1>5. ASSUME NEW s \in Systems, Told(s) PROVE ZonesInOrder'
  BY <1>5 DEF Told, ZonesInOrder
<1>6. ASSUME NEW k \in Keys, Sent(k) PROVE ZonesInOrder'
  <2>0. held' = held
    BY <1>6 DEF Sent
  <2>1. CASE UNCHANGED <<wire, moving>>
    BY <2>0, <2>1 DEF ZonesInOrder
  <2>2. CASE /\ Len(wire') = Len(wire) + 1
             /\ wire'[Len(wire) + 1][1] = k /\ moving'[Len(wire) + 1] = heard[SysOf[k]]
             /\ \A i \in 1..Len(wire) : wire'[i] = wire[i] /\ moving'[i] = moving[i]
    <3>1. ASSUME NEW i \in 1..Len(wire'), moving'[i] # 0
          PROVE  /\ held'[wire'[i][1]] <= moving'[i]
                 /\ \A j \in 1..Len(wire') : j < i /\ wire'[j][1] = wire'[i][1] => moving'[j] <= moving'[i]
      <4>1. CASE i \in 1..Len(wire)
        <5>1. ASSUME NEW j \in 1..Len(wire'), j < i PROVE j \in 1..Len(wire)
          BY <1>0, <2>2, <4>1, <5>1 DEF Typed
        <5>. QED
          BY <2>0, <2>2, <3>1, <4>1, <5>1 DEF ZonesInOrder
      <4>2. CASE i = Len(wire) + 1
        <5>1. heard[SysOf[k]] # 0 /\ wire'[i][1] = k /\ moving'[i] = heard[SysOf[k]]
          BY <2>2, <3>1, <4>2
        <5>2. held[k] <= heard[SysOf[k]]
          BY <5>1 DEF HeardIsLatest
        <5>3. ASSUME NEW j \in 1..Len(wire'), j < i, wire'[j][1] = k
              PROVE  moving'[j] <= heard[SysOf[k]]
          <6>1. j \in 1..Len(wire)
            BY <1>0, <2>2, <4>2, <5>3 DEF Typed
          <6>2. wire[j][1] = k /\ moving'[j] = moving[j]
            BY <2>2, <5>3, <6>1
          <6>. QED
            BY <5>1, <6>1, <6>2 DEF HeardIsLatest, Of
        <5>. QED
          BY <2>0, <5>1, <5>2, <5>3
      <4>. QED
        BY <1>0, <2>2, <4>1, <4>2 DEF Typed
    <3>. QED
      BY <3>1 DEF ZonesInOrder
  <2>. QED
    BY <1>6, <2>1, <2>2 DEF Sent
<1>7. ASSUME NEW k \in Keys, Taken(k) PROVE ZonesInOrder'
  <2>0. /\ Len(wire) > 0 /\ wire[1][1] = k /\ held'[k] = moving[1]
        /\ \A j \in Keys : j # k => held'[j] = held[j]
    BY <1>7 DEF Taken
  <2>1. ASSUME NEW i \in 1..Len(wire')
        PROVE  /\ i + 1 \in 1..Len(wire) /\ wire'[i] = wire[i + 1] /\ moving'[i] = moving[i + 1]
               /\ 1 \in 1..Len(wire) /\ 1 < i + 1 /\ wire[i + 1][1] \in Keys
    BY <1>0, <1>7 DEF Taken, Typed
  <2>2. ASSUME NEW i \in 1..Len(wire'), moving'[i] # 0
        PROVE  /\ held'[wire'[i][1]] <= moving'[i]
               /\ \A j \in 1..Len(wire') : j < i /\ wire'[j][1] = wire'[i][1] => moving'[j] <= moving'[i]
    <3>1. moving[i + 1] # 0 /\ moving'[i] = moving[i + 1] /\ wire'[i][1] = wire[i + 1][1]
      BY <2>1, <2>2
    <3>2. held'[wire'[i][1]] <= moving'[i]
      <4>1. CASE wire[i + 1][1] = k
        <5>1. moving[1] <= moving[i + 1]
          BY <2>0, <2>1, <3>1, <4>1 DEF ZonesInOrder
        <5>. QED
          BY <2>0, <3>1, <4>1, <5>1
      <4>2. CASE wire[i + 1][1] # k
        BY <2>0, <2>1, <3>1, <4>2 DEF ZonesInOrder
      <4>. QED
        BY <4>1, <4>2
    <3>3. ASSUME NEW j \in 1..Len(wire'), j < i, wire'[j][1] = wire'[i][1]
          PROVE  moving'[j] <= moving'[i]
      <4>1. /\ j + 1 \in 1..Len(wire) /\ i + 1 \in 1..Len(wire) /\ j + 1 < i + 1
            /\ wire[j + 1][1] = wire[i + 1][1] /\ moving'[j] = moving[j + 1]
        BY <2>1, <3>3
      <4>. QED
        BY <3>1, <4>1 DEF ZonesInOrder
    <3>. QED
      BY <3>2, <3>3
  <2>. QED
    BY <2>2 DEF ZonesInOrder
<1>. QED
  BY <1>1, <1>2, <1>3, <1>4, <1>5, <1>6, <1>7, NewsSteps

LEMMA BroadcastsInOrderStep ==
    ASSUME HomeInv, HeardIsLatest, BroadcastsInOrder, [HomeNext]_hvars
    PROVE  BroadcastsInOrder'
<1>0. Typed
  BY TypesOfNews
<1>. USE DEF Of
<1>1. CASE Quiet
  BY <1>1 DEF Quiet, BroadcastsInOrder
<1>2. CASE Emptied
  BY <1>2 DEF Emptied, BroadcastsInOrder
<1>3. CASE Forgotten
  BY <1>3 DEF Forgotten, BroadcastsInOrder
<1>4. CASE Greeted
  <2>1. Len(wire') \in Nat
    BY <1>4, TypeStep, HomeStepIsCoordinatorStep DEF HomeInv, TypeOK
  <2>. QED
    BY <1>4, <2>1 DEF Greeted, BroadcastsInOrder
<1>5. ASSUME NEW s \in Systems, Told(s) PROVE BroadcastsInOrder'
  BY <1>5 DEF Told, BroadcastsInOrder
<1>6. ASSUME NEW k \in Keys, Sent(k) PROVE BroadcastsInOrder'
  <2>0. held' = held /\ greeting' = greeting
    BY <1>6 DEF Sent
  <2>1. CASE UNCHANGED <<wire, moving>>
    BY <2>0, <2>1 DEF BroadcastsInOrder
  <2>2. CASE /\ Len(wire') = Len(wire) + 1
             /\ wire'[Len(wire) + 1][1] = k /\ moving'[Len(wire) + 1] = heard[SysOf[k]]
             /\ \A i \in 1..Len(wire) : wire'[i] = wire[i] /\ moving'[i] = moving[i]
    <3>1. ASSUME NEW i \in 1..Len(wire'), greeting' < i, moving'[i] # 0
          PROVE  /\ \A j \in Zones(SysOf[wire'[i][1]]) : held'[j] <= moving'[i]
                 /\ \A j \in 1..Len(wire') :
                       j < i /\ SysOf[wire'[j][1]] = SysOf[wire'[i][1]] => moving'[j] <= moving'[i]
      <4>1. CASE i \in 1..Len(wire)
        <5>1. ASSUME NEW j \in 1..Len(wire'), j < i PROVE j \in 1..Len(wire)
          BY <1>0, <2>2, <4>1, <5>1 DEF Typed
        <5>. QED
          BY <2>0, <2>2, <3>1, <4>1, <5>1 DEF BroadcastsInOrder
      <4>2. CASE i = Len(wire) + 1
        <5>1. heard[SysOf[k]] # 0 /\ wire'[i][1] = k /\ moving'[i] = heard[SysOf[k]]
          BY <2>2, <3>1, <4>2
        <5>2. \A j \in Zones(SysOf[k]) : held[j] <= heard[SysOf[k]]
          BY <5>1 DEF HeardIsLatest, Zones
        <5>3. ASSUME NEW j \in 1..Len(wire'), j < i, SysOf[wire'[j][1]] = SysOf[k]
              PROVE  moving'[j] <= heard[SysOf[k]]
          <6>1. j \in 1..Len(wire)
            BY <1>0, <2>2, <4>2, <5>3 DEF Typed
          <6>2. SysOf[wire[j][1]] = SysOf[k] /\ moving'[j] = moving[j]
            BY <2>2, <5>3, <6>1
          <6>. QED
            BY <5>1, <6>1, <6>2 DEF HeardIsLatest
        <5>. QED
          BY <2>0, <5>1, <5>2, <5>3
      <4>. QED
        BY <1>0, <2>2, <4>1, <4>2 DEF Typed
    <3>. QED
      BY <3>1 DEF BroadcastsInOrder
  <2>. QED
    BY <1>6, <2>1, <2>2 DEF Sent
<1>7. ASSUME NEW k \in Keys, Taken(k) PROVE BroadcastsInOrder'
  <2>0. /\ Len(wire) > 0 /\ wire[1][1] = k /\ held'[k] = moving[1]
        /\ \A j \in Keys : j # k => held'[j] = held[j]
    BY <1>7 DEF Taken
  <2>1. ASSUME NEW i \in 1..Len(wire')
        PROVE  /\ i + 1 \in 1..Len(wire) /\ wire'[i] = wire[i + 1] /\ moving'[i] = moving[i + 1]
               /\ 1 \in 1..Len(wire) /\ 1 < i + 1
    BY <1>0, <1>7 DEF Taken, Typed
  <2>2. ASSUME NEW i \in 1..Len(wire'), greeting' < i, moving'[i] # 0
        PROVE  /\ \A j \in Zones(SysOf[wire'[i][1]]) : held'[j] <= moving'[i]
               /\ \A j \in 1..Len(wire') :
                     j < i /\ SysOf[wire'[j][1]] = SysOf[wire'[i][1]] => moving'[j] <= moving'[i]
    <3>1. moving[i + 1] # 0 /\ moving'[i] = moving[i + 1] /\ wire'[i][1] = wire[i + 1][1]
      BY <2>1, <2>2
    <3>2. greeting < i + 1
      BY <1>0, <1>7, <2>1, <2>2 DEF Taken, Typed
    <3>3. ASSUME NEW j \in Zones(SysOf[wire[i + 1][1]]) PROVE held'[j] <= moving[i + 1]
      <4>1. CASE j = k
        <5>1. SysOf[wire[1][1]] = SysOf[wire[i + 1][1]]
          BY <2>0, <3>3, <4>1 DEF Zones
        <5>2. moving[1] <= moving[i + 1]
          BY <2>1, <3>1, <3>2, <5>1 DEF BroadcastsInOrder
        <5>. QED
          BY <2>0, <4>1, <5>2
      <4>2. CASE j # k
        <5>1. held'[j] = held[j]
          BY <2>0, <3>3, <4>2 DEF Zones
        <5>2. held[j] <= moving[i + 1]
          BY <2>1, <3>1, <3>2, <3>3 DEF BroadcastsInOrder
        <5>. QED
          BY <5>1, <5>2
      <4>. QED
        BY <4>1, <4>2
    <3>4. ASSUME NEW j \in 1..Len(wire'), j < i, SysOf[wire'[j][1]] = SysOf[wire'[i][1]]
          PROVE  moving'[j] <= moving'[i]
      <4>1. /\ j + 1 \in 1..Len(wire) /\ i + 1 \in 1..Len(wire) /\ j + 1 < i + 1
            /\ SysOf[wire[j + 1][1]] = SysOf[wire[i + 1][1]] /\ moving'[j] = moving[j + 1]
        BY <2>1, <3>4
      <4>. QED
        BY <3>1, <3>2, <4>1 DEF BroadcastsInOrder
    <3>. QED
      BY <3>1, <3>3, <3>4
  <2>. QED
    BY <2>2 DEF BroadcastsInOrder
<1>. QED
  BY <1>1, <1>2, <1>3, <1>4, <1>5, <1>6, <1>7, NewsSteps

LEMMA OnlyUpdates ==
    ASSUME [HomeNext]_hvars
    PROVE  UNCHANGED <<data, held, order>> \/ \E k \in Keys : Update(k)
<1>1. CASE AddOnDown \/ Cut \/ Connected \/ Elsewhere \/ SetupEntry \/ Unload \/ UNCHANGED hvars
  BY <1>1 DEF AddOnDown, Cut, Connected, Elsewhere, SetupEntry, Unload, ServerDown, LinkBreaks,
     Connect, Start, Stop, ServerUp, ConnectFails, StreamEnds, StreamRaises, Retry, hvars, vars,
     home, inside
<1>2. CASE \/ \E p \in Platforms : SetupPlatform(p)
           \/ \E s \in Systems : StatusChanges(s) \/ Hear(s)
  BY <1>2 DEF SetupPlatform, StatusChanges, Hear, vars, inside
<1>3. CASE \E k \in Keys : PrintZone(k)
  BY <1>3 DEF PrintZone, Publish, Republish, inside
<1>. QED
  BY <1>1, <1>2, <1>3 DEF HomeNext

\* An update in terms of the samples.
LEMMA UpdateSeen ==
    ASSUME HomeInv, NEW k \in Keys, Update(k)
    PROVE  /\ Seen(data') = Seen(data) \cup {k}
           /\ held'[k] = moving[1] /\ moving[1] \in Nat
           /\ \A j \in Keys : j # k => held'[j] = held[j]
           /\ 1 \in 1..Len(wire) /\ wire[1][1] = k
           /\ order' = IF data[k] # 0 THEN order ELSE Append(order, k)
<1>1. /\ Len(wire) \in Nat /\ Len(wire) > 0 /\ wire[1][1] = k /\ wire[1][2] \in 1..MaxVersion
      /\ data' = [data EXCEPT ![k] = wire[1][2]]
      /\ held' = [held EXCEPT ![k] = moving[1]] /\ moving[1] \in Nat
  BY UpdateFacts DEF HomeInv
<1>2. Seen(data') = Seen(data) \cup {k}
  BY <1>1 DEF Seen, HomeInv, TypeOK
<1>3. held'[k] = moving[1] /\ \A j \in Keys : j # k => held'[j] = held[j]
  BY <1>1 DEF HomeInv, SamplesTyped
<1>4. order' = IF data[k] # 0 THEN order ELSE Append(order, k)
  BY DEF Update
<1>5. 1 \in 1..Len(wire)
  BY <1>1
<1>. QED
  BY <1>1, <1>2, <1>3, <1>4, <1>5

\* Keys stay where they are in the data.
LEMMA OrderGrows ==
    ASSUME HomeInv, NEW k \in Keys, Update(k)
    PROVE  /\ order \in Seq(Keys) /\ order' \in Seq(Keys)
           /\ Len(order) \in Nat /\ Len(order') \in Nat /\ Len(order) <= Len(order')
           /\ \A i \in 1..Len(order) : order'[i] = order[i]
           /\ data[k] = 0 => Len(order') = Len(order) + 1 /\ order'[Len(order) + 1] = k
<1>1. order \in Seq(Keys)
  BY DEF HomeInv, ViewsTyped, Seen
<1>2. (order' = order /\ data[k] # 0) \/ order' = Append(order, k)
  BY UpdateSeen
<1>. QED
  BY <1>1, <1>2

LEMMA PlacedStep ==
    ASSUME HomeInv, Placed, [HomeNext]_hvars
    PROVE  Placed'
<1>1. CASE UNCHANGED <<data, held, order>>
  BY <1>1 DEF Placed, Seen
<1>2. ASSUME NEW k \in Keys, Update(k) PROVE Placed'
  <2>1. ASSUME NEW j \in Seen(data') PROVE \E i \in 1..Len(order') : order'[i] = j
    <3>1. CASE j \in Seen(data)
      <4>1. PICK i \in 1..Len(order) : order[i] = j
        BY <3>1 DEF Placed
      <4>. QED
        BY <1>2, <4>1, OrderGrows
    <3>2. CASE j \notin Seen(data)
      <4>1. j = k /\ data[k] = 0
        BY <1>2, <3>2, UpdateSeen DEF Seen
      <4>2. Len(order) + 1 \in 1..Len(order') /\ order'[Len(order) + 1] = k
        BY <1>2, <4>1, OrderGrows
      <4>. QED
        BY <4>1, <4>2
    <3>. QED
      BY <3>1, <3>2
  <2>. QED
    BY <2>1 DEF Placed
<1>. QED
  BY <1>1, <1>2, OnlyUpdates

LEMMA NewsStep == HomeInv /\ NewsInv /\ [HomeNext]_hvars => NewsInv'
  BY HeardIsLatestStep, PrintedIsNewsStep, ZonesInOrderStep, BroadcastsInOrderStep, PlacedStep
     DEF NewsInv

LEMMA NewsInvariant == HomeSpec => []NewsInv
<1>1. HomeInit => NewsInv
  <2>. SUFFICES ASSUME HomeInit PROVE NewsInv
    OBVIOUS
  <2>1. /\ wire = <<>> /\ \A k \in Keys : heard[SysOf[k]] = 0 /\ printed[k] = 0
        /\ Seen(data) = {}
    BY SystemOfKey DEF HomeInit, Init, Restarted, Nothing, Seen
  <2>. QED
    BY <2>1 DEF NewsInv, HeardIsLatest, PrintedIsNews, ZonesInOrder, BroadcastsInOrder, Placed
<1>. QED
  BY <1>1, NewsStep, HomeInvariant, PTL DEF HomeSpec

\* The first zone is the first.
IsFirst(o, s, m) ==
    m \in 1..Len(o) /\ SysOf[o[m]] = s /\ \A i \in 1..Len(o) : SysOf[o[i]] = s => m <= i

LEMMA FirstZoneIs ==
    ASSUME NEW o \in Seq(Keys), NEW s, NEW m, IsFirst(o, s, m)
    PROVE  FirstZone(o, s) = o[m]
<1> DEFINE places == {i \in DOMAIN o : SysOf[o[i]] = s}
           First(i) == \A j \in places : i <= j
<1>1. places = {i \in 1..Len(o) : SysOf[o[i]] = s}
  OBVIOUS
<1>2. m \in places /\ First(m) /\ places \subseteq Int
  BY <1>1 DEF IsFirst
<1>3. \A i \in places : First(i) => i = m
  BY <1>2
<1>. HIDE DEF places, First
<1>4. (CHOOSE i \in places : First(i)) = m
  BY <1>2, <1>3
<1>. QED
  BY <1>4 DEF FirstZone, places, First

LEMMA HasFirst ==
    ASSUME NEW o \in Seq(Keys), NEW s, NEW i \in 1..Len(o), SysOf[o[i]] = s
    PROVE  \E m : IsFirst(o, s, m)
<1> DEFINE places == {j \in 1..Len(o) : SysOf[o[j]] = s}
<1>1. i \in places /\ places \subseteq Nat
  OBVIOUS
<1>. HIDE DEF places
<1>2. PICK m \in places : \A j \in places : ~(<<j, m>> \in OpToRel(<, Nat))
  BY <1>1, NatLessThanWellFounded, WFMin
<1>3. \A j \in places : ~(j < m)
  BY <1>1, <1>2 DEF OpToRel
<1>4. \A j \in places : m <= j
  BY <1>1, <1>3
<1>. QED
  BY <1>2, <1>4 DEF places, IsFirst

\* The alert sensor stays with the zone it follows, and that zone's samples go
\* forward in the status they carry or carry none, whatever is lost and whenever the
\* bridge is started again (_alerts, binary_sensor.py 98-103; print_sample_json).
THEOREM AlertsForward == HomeSpec => AlertMovesForward
<1>1. ASSUME HomeInv, HomeInv', NewsInv, [HomeNext]_hvars, NEW s \in Systems,
             AlertStatus(data', held', order', s) # 0
      PROVE  AlertStatus(data', held', order', s) >= AlertStatus(data, held, order, s)
  <2>1. \A j \in Keys : held[j] \in Nat /\ held'[j] \in Nat
    BY <1>1 DEF HomeInv, SamplesTyped
  <2>2. ASSUME NEW k \in Keys, Update(k)
        PROVE  AlertStatus(data', held', order', s) >= AlertStatus(data, held, order, s)
    <3>1. /\ order \in Seq(Keys) /\ order' \in Seq(Keys)
          /\ Len(order) \in Nat /\ Len(order') \in Nat /\ Len(order) <= Len(order')
          /\ \A i \in 1..Len(order) : order'[i] = order[i]
      BY <1>1, <2>2, OrderGrows
    <3>2. PICK z \in Zones(s) \cap Seen(data') : TRUE
      BY <1>1 DEF AlertStatus
    <3>3. PICK i \in 1..Len(order') : order'[i] = z
      BY <1>1, <3>2, PlacedStep DEF NewsInv, Placed
    <3>4. PICK m : IsFirst(order', s, m)
      BY <3>1, <3>2, <3>3, HasFirst DEF Zones
    <3>5. /\ order'[m] \in Keys
          /\ AlertStatus(data', held', order', s) = held'[order'[m]]
      <4>1. FirstZone(order', s) = order'[m]
        BY <3>1, <3>4, FirstZoneIs
      <4>2. m \in 1..Len(order')
        BY <3>4 DEF IsFirst
      <4>. QED
        BY <3>1, <3>2, <4>1, <4>2 DEF AlertStatus
    <3>6. CASE Zones(s) \cap Seen(data) = {}
      <4>1. AlertStatus(data, held, order, s) = 0
        BY <3>6 DEF AlertStatus
      <4>. QED
        BY <2>1, <3>5, <4>1
    <3>7. CASE Zones(s) \cap Seen(data) # {}
      <4>1. PICK y \in Zones(s) \cap Seen(data) : TRUE
        BY <3>7
      <4>2. PICK j \in 1..Len(order) : order[j] = y
        BY <1>1, <4>1 DEF NewsInv, Placed
      <4>3. PICK n : IsFirst(order, s, n)
        BY <3>1, <4>1, <4>2, HasFirst DEF Zones
      <4>4. n = m
        <5>1. n \in 1..Len(order') /\ SysOf[order'[n]] = s
          BY <3>1, <4>3 DEF IsFirst
        <5>2. m <= n /\ m \in 1..Len(order)
          BY <3>1, <3>4, <4>3, <5>1 DEF IsFirst
        <5>3. SysOf[order[m]] = s
          BY <3>1, <3>4, <5>2 DEF IsFirst
        <5>. QED
          BY <3>1, <4>3, <5>2, <5>3 DEF IsFirst
      <4>5. AlertStatus(data, held, order, s) = held[order'[m]]
        <5>1. FirstZone(order, s) = order[n]
          BY <3>1, <4>3, FirstZoneIs
        <5>2. order[n] = order'[m]
          BY <3>1, <4>3, <4>4 DEF IsFirst
        <5>. QED
          BY <3>7, <5>1, <5>2 DEF AlertStatus
      <4>6. CASE order'[m] = k
        <5>1. held'[k] = moving[1] /\ 1 \in 1..Len(wire) /\ wire[1][1] = k
          BY <1>1, <2>2, UpdateSeen
        <5>2. moving[1] # 0
          BY <1>1, <3>5, <4>6, <5>1
        <5>3. held[k] <= moving[1]
          BY <1>1, <5>1, <5>2 DEF NewsInv, ZonesInOrder
        <5>. QED
          BY <2>1, <3>5, <4>5, <4>6, <5>1, <5>3
      <4>7. CASE order'[m] # k
        <5>1. held'[order'[m]] = held[order'[m]]
          BY <1>1, <2>2, <3>5, <4>7, UpdateSeen
        <5>. QED
          BY <2>1, <3>5, <4>5, <5>1
      <4>. QED
        BY <4>6, <4>7
    <3>. QED
      BY <3>6, <3>7
  <2>3. CASE UNCHANGED <<data, held, order>>
    <3>1. AlertStatus(data', held', order', s) = AlertStatus(data, held, order, s)
      BY <2>3
    <3>2. CASE Zones(s) \cap Seen(data) = {}
      BY <3>1, <3>2 DEF AlertStatus
    <3>3. CASE Zones(s) \cap Seen(data) # {}
      <4>1. PICK y \in Zones(s) \cap Seen(data) : TRUE
        BY <3>3
      <4>2. PICK j \in 1..Len(order) : order[j] = y
        BY <1>1, <4>1 DEF NewsInv, Placed
      <4>3. order \in Seq(Keys)
        BY <1>1 DEF HomeInv, ViewsTyped, Seen
      <4>4. PICK n : IsFirst(order, s, n)
        BY <4>1, <4>2, <4>3, HasFirst DEF Zones
      <4>5. FirstZone(order, s) = order[n] /\ order[n] \in Keys
        <5>1. n \in 1..Len(order)
          BY <4>4 DEF IsFirst
        <5>. QED
          BY <4>3, <4>4, <5>1, FirstZoneIs
      <4>6. AlertStatus(data, held, order, s) \in Nat
        BY <2>1, <3>3, <4>5 DEF AlertStatus
      <4>. QED
        BY <3>1, <4>6
    <3>. QED
      BY <3>2, <3>3
  <2>. QED
    BY <1>1, <2>2, <2>3, OnlyUpdates
<1>2. HomeInv /\ HomeInv' /\ NewsInv /\ [HomeNext]_hvars
      => [\A s \in Systems :
            \/ AlertStatus(data', held', order', s) = 0
            \/ AlertStatus(data', held', order', s) >= AlertStatus(data, held, order, s)]_hvars
  BY <1>1
<1>. QED
  BY <1>2, HomeInvariant, NewsInvariant, PTL DEF HomeSpec, AlertMovesForward

\* After a connection's snapshot an Away switch that is off comes on only for a
\* status that is later than every zone's (is_on, switch.py 60-70).
THEOREM AwayForNews == HomeSpec => AwayTurnsOnForNews
<1>1. ASSUME HomeInv, NewsInv, [HomeNext]_hvars, NEW s \in Systems, greeting = 0,
             AwayShown(data, held, s) = "off", AwayShown(data', held', s) = "on"
      PROVE  \E k \in Zones(s) : \A j \in Zones(s) : held'[k] > held[j]
  <2>1. TRUE \notin Said(data, held, s) /\ TRUE \in Said(data', held', s)
    BY <1>1 DEF AwayShown
  <2>2. ASSUME NEW k \in Keys, Update(k)
        PROVE  k \in Zones(s) /\ \A j \in Zones(s) : held'[k] > held[j]
    <3>1. /\ Seen(data') = Seen(data) \cup {k} /\ held'[k] = moving[1] /\ moving[1] \in Nat
          /\ \A j \in Keys : j # k => held'[j] = held[j]
          /\ 1 \in 1..Len(wire) /\ wire[1][1] = k
      BY <1>1, <2>2, UpdateSeen
    <3>2. \A j \in Zones(s) \cap Seen(data) : held[j] # 0 => Away(held[j]) # TRUE
      BY <2>1 DEF Said
    <3>3. PICK z \in Zones(s) \cap Seen(data') : held'[z] # 0 /\ Away(held'[z]) = TRUE
      BY <2>1 DEF Said
    <3>4. z = k
      <4>1. CASE z # k
        <5>1. z \in Zones(s) \cap Seen(data) /\ held'[z] = held[z]
          BY <3>1, <3>3, <4>1 DEF Zones
        <5>. QED
          BY <3>2, <3>3, <5>1
      <4>. QED
        BY <4>1
    <3>5. k \in Zones(s) /\ SysOf[k] = s /\ moving[1] # 0 /\ Away(moving[1]) = TRUE
      BY <3>1, <3>3, <3>4 DEF Zones
    <3>6. ASSUME NEW j \in Zones(s) PROVE held'[k] > held[j]
      <4>1. held[j] <= moving[1]
        BY <1>1, <3>1, <3>5 DEF NewsInv, BroadcastsInOrder, Of
      <4>2. j \in Keys /\ held[j] \in Nat /\ (data[j] = 0 => held[j] = 0)
        BY <1>1 DEF HomeInv, SamplesTyped, Zones
      <4>3. held[j] # moving[1]
        <5>1. ASSUME held[j] = moving[1] PROVE FALSE
          <6>1. j \in Seen(data) /\ held[j] # 0 /\ Away(held[j]) = TRUE
            BY <3>5, <4>2, <5>1 DEF Seen
          <6>. QED
            BY <3>2, <6>1
        <5>. QED
          BY <5>1
      <4>. QED
        BY <3>1, <4>1, <4>2, <4>3
    <3>. QED
      BY <3>5, <3>6
  <2>3. CASE UNCHANGED <<data, held, order>>
    <3>1. Said(data', held', s) = Said(data, held, s)
      BY <2>3
    <3>. QED
      BY <2>1, <3>1
  <2>. QED
    BY <1>1, <2>2, <2>3, OnlyUpdates
<1>2. HomeInv /\ NewsInv /\ [HomeNext]_hvars
      => [\A s \in Systems :
            AwayShown(data, held, s) = "off" /\ AwayShown(data', held', s) = "on" /\ greeting = 0 =>
            \E k \in Zones(s) : \A j \in Zones(s) : held'[k] > held[j]]_hvars
  BY <1>1
<1>. QED
  BY <1>2, HomeInvariant, NewsInvariant, PTL DEF HomeSpec, AwayTurnsOnForNews

=============================================================================
