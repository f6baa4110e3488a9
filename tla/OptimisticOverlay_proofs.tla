----------------------- MODULE OptimisticOverlay_proofs -----------------------
(***************************************************************************)
(* Proofs about OptimisticOverlay for every TTL, sample period, set of     *)
(* modes and setpoints, and any number of requests and edits: how long the *)
(* card may differ from the device, that it does not flicker, and that a   *)
(* temperature is asked for the mode that is shown.                        *)
(***************************************************************************)
EXTENDS OptimisticOverlay, TLAPS

IsPeriod(p)  == p \in [Fields -> Degrees \cup Modes] /\ \A f \in Fields : p[f] \in Domain(f)
IsOverlay(p) == /\ p \in [Fields -> Overlay \cup {None}]
                /\ \A f \in Fields : p[f] # None => p[f].val \in Domain(f)
Commands == {c \in UNION {[D -> Degrees \cup Modes] : D \in SUBSET Fields} :
                \A f \in DOMAIN c : c[f] \in Domain(f)}
AskRecord == [val : Degrees \cup Modes, age : 0..AgeBound, sent : BOOLEAN, calm : BOOLEAN]

TypeInv ==
    /\ IsPeriod(device) /\ IsPeriod(sample)
    /\ wire \in Seq(Commands)
    /\ quiet \in 0..SampleEvery
    /\ IsOverlay(pending)
    /\ card.mode \in 0..3 /\ DOMAIN card.val = ShownIn(card.mode)
    /\ \A f \in DOMAIN card.val : card.val[f] \in Degrees
    /\ asked \in [Fields -> AskRecord] /\ \A f \in Fields : asked[f].val \in Domain(f)
    /\ counts \in [asks : Nat, edits : Nat]

LEMMA Numbers ==
    /\ TTL \in Nat /\ TTL > 0 /\ SampleEvery \in Nat /\ SampleEvery > 0
    /\ AgeBound \in Nat /\ AgeBound = TTL + SampleEvery + 1
  BY ConstantsAssumption DEF AgeBound

LEMMA ShownSetpoints ==
    ASSUME NEW mode
    PROVE  ShownIn(mode) \subseteq Setpoints /\ Setpoints \subseteq Fields
           /\ \A f \in ShownIn(mode) : f # "systemMode" /\ Domain(f) = Degrees
  BY DEF ShownIn, Setpoints, Fields, Domain

-----------------------------------------------------------------------------
(* The properties of the entity.                                           *)

LEMMA EffType ==
    ASSUME NEW p, NEW s, IsOverlay(p), IsPeriod(s)
    PROVE  /\ \A f \in Fields : Eff(p, s, f) \in Domain(f)
           /\ HvacMode(p, s) \in 0..3
<1>1. \A f \in Fields : Eff(p, s, f) \in Domain(f)
  BY DEF Eff, IsOverlay, IsPeriod
<1>2. Eff(p, s, "systemMode") \in 0..4
  BY <1>1, ConstantsAssumption DEF Fields, Domain
<1>. QED
  BY <1>1, <1>2 DEF HvacMode

\* Evaluating _eff drops what is over and changes no value that is shown.
LEMMA LookedKeeps ==
    ASSUME NEW p, NEW s, IsOverlay(p), NEW fs
    PROVE  /\ IsOverlay(Looked(p, s, fs))
           /\ \A f \in Fields :
                 /\ Looked(p, s, fs)[f] # None => Looked(p, s, fs)[f] = p[f]
                 /\ Looked(p, s, fs)[f] = None => p[f] = None \/ Over(p, s, f)
                 /\ Eff(Looked(p, s, fs), s, f) = Eff(p, s, f)
           /\ HvacMode(Looked(p, s, fs), s) = HvacMode(p, s)
<1>1. \A f \in Fields : Looked(p, s, fs)[f] = IF f \in fs /\ Over(p, s, f) THEN None ELSE p[f]
  BY DEF Looked
<1>2. IsOverlay(Looked(p, s, fs))
  BY <1>1 DEF IsOverlay, Looked
<1>3. \A f \in Fields : Eff(Looked(p, s, fs), s, f) = Eff(p, s, f)
  BY <1>1 DEF Eff, Over
<1>4. HvacMode(Looked(p, s, fs), s) = HvacMode(p, s)
  BY <1>3 DEF HvacMode, Fields
<1>. QED
  BY <1>1, <1>2, <1>3, <1>4

LEMMA StampedType ==
    ASSUME NEW p, IsOverlay(p), NEW cmd \in Commands
    PROVE  /\ IsOverlay(Stamped(p, cmd))
           /\ \A f \in Fields : f \in DOMAIN cmd =>
                 /\ Stamped(p, cmd)[f] = [val |-> cmd[f], age |-> 0]
                 /\ Stamped(p, cmd)[f] # None
           /\ \A f \in Fields : f \notin DOMAIN cmd => Stamped(p, cmd)[f] = p[f]
<1>1. \A f \in DOMAIN cmd : cmd[f] \in Domain(f) /\ cmd[f] \in Degrees \cup Modes
  BY DEF Commands
<1>2. \A f \in DOMAIN cmd : [val |-> cmd[f], age |-> 0] \in Overlay
  BY <1>1, Numbers DEF Overlay
<1>3. None \notin Overlay
  BY ConstantsAssumption DEF Overlay
<1>. QED
  BY <1>1, <1>2, <1>3 DEF Stamped, IsOverlay

\* What a state write leaves behind: the card shows the overlay p over sample s.
Written(p, s) ==
    /\ IsOverlay(pending')
    /\ \A f \in Fields : /\ pending'[f] # None => pending'[f] = p[f]
                         /\ pending'[f] = None => p[f] = None \/ Over(p, s, f)
    /\ card'.mode = HvacMode(p, s) /\ HvacMode(pending', s) = HvacMode(p, s)
    /\ DOMAIN card'.val = ShownIn(HvacMode(p, s))
    /\ \A f \in ShownIn(HvacMode(p, s)) : card'.val[f] = Eff(p, s, f)

LEMMA WriteStateWrites ==
    ASSUME NEW p, NEW s, IsOverlay(p), WriteState(p, s)
    PROVE  Written(p, s)
<1> DEFINE shown == ShownIn(HvacMode(p, s))
<1>1. /\ pending' = Looked(p, s, shown \cup {"systemMode"})
      /\ card' = [mode |-> HvacMode(p, s), val |-> [f \in shown |-> Eff(p, s, f)]]
  BY DEF WriteState
<1>2. /\ card'.mode = HvacMode(p, s) /\ DOMAIN card'.val = shown
      /\ \A f \in shown : card'.val[f] = Eff(p, s, f)
  BY <1>1
<1>. QED
  BY <1>1, <1>2, LookedKeeps DEF Written

\* The card that was written is typed.
LEMMA WrittenType ==
    ASSUME NEW p, NEW s, IsOverlay(p), IsPeriod(s), Written(p, s)
    PROVE  /\ card'.mode \in 0..3 /\ DOMAIN card'.val = ShownIn(card'.mode)
           /\ \A f \in DOMAIN card'.val : card'.val[f] \in Degrees
<1>1. HvacMode(p, s) \in 0..3 /\ \A f \in Fields : Eff(p, s, f) \in Domain(f)
  BY EffType
<1>. QED
  BY <1>1, ShownSetpoints DEF Written

\* All three requests are AskOn: on the overlay, which async_set_temperature has
\* looked at, with a command for fields of the zone, never for emergency heat.
Request(p, cmd) ==
    /\ AskOn(p, cmd) /\ cmd \in Commands
    /\ p = pending \/ p = Looked(pending, sample, {"systemMode"})
    /\ "systemMode" \in DOMAIN cmd => cmd["systemMode"] # 4

LEMMA AskIsRequest == Ask => \E p, cmd : Request(p, cmd)
<1>1. ASSUME NEW m \in Modes \ {4}, SetMode(m)
      PROVE  \E p, cmd : Request(p, cmd)
  <2> DEFINE cmd == [f \in {"systemMode"} |-> m]
  <2>1. cmd \in [{"systemMode"} -> Degrees \cup Modes] /\ {"systemMode"} \in SUBSET Fields
    BY DEF Fields
  <2>2. cmd \in Commands /\ cmd["systemMode"] # 4
    BY <2>1 DEF Commands, Domain
  <2>3. Request(pending, cmd)
    BY <1>1, <2>2 DEF SetMode, Request
  <2>. QED
    BY <2>3
<1>2. ASSUME NEW v \in Degrees, SetTemperature(v)
      PROVE  \E p, cmd : Request(p, cmd)
  <2> DEFINE D == CASE HvacMode(pending, sample) = 1 -> {"hsp"}
                    [] HvacMode(pending, sample) = 2 -> {"csp"}
                    [] OTHER -> {"sp"}
             cmd == [f \in D |-> v]
  <2>1. D \in {{"hsp"}, {"csp"}, {"sp"}}
    OBVIOUS
  <2>2. D \in SUBSET Fields /\ \A f \in D : Domain(f) = Degrees
    BY <2>1 DEF Fields, Domain
  <2>3. cmd \in [D -> Degrees \cup Modes] /\ DOMAIN cmd = D /\ \A f \in D : cmd[f] = v
    OBVIOUS
  <2>4. cmd \in Commands /\ "systemMode" \notin DOMAIN cmd
    <3>. HIDE DEF D, cmd
    <3>. QED
      BY <2>1, <2>2, <2>3 DEF Commands
  <2>5. Request(Looked(pending, sample, {"systemMode"}), cmd)
    BY <1>2, <2>4 DEF SetTemperature, Request
  <2>. QED
    BY <2>5
<1>3. ASSUME NEW lo \in Degrees, NEW hi \in Degrees, SetRange(lo, hi)
      PROVE  \E p, cmd : Request(p, cmd)
  <2> DEFINE D == {"hsp", "csp"}
             cmd == [f \in D |-> IF f = "hsp" THEN lo ELSE hi]
  <2>1. D \in SUBSET Fields /\ \A f \in D : Domain(f) = Degrees
    BY DEF Fields, Domain
  <2>2. cmd \in [D -> Degrees \cup Modes] /\ DOMAIN cmd = D /\ \A f \in D : cmd[f] \in Degrees
    OBVIOUS
  <2>3. cmd \in Commands /\ "systemMode" \notin DOMAIN cmd
    BY <2>1, <2>2 DEF Commands
  <2>4. Request(pending, cmd)
    BY <1>3, <2>3 DEF SetRange, Request
  <2>. QED
    BY <2>4
<1>. QED
  BY <1>1, <1>2, <1>3 DEF Ask

\* The commands that are not sent, or not applied yet, keep the record of a field.
AskedNow(f, cmd, sent) ==
    IF f \in DOMAIN cmd THEN [val |-> cmd[f], age |-> 0, sent |-> sent, calm |-> Settled]
                        ELSE asked[f]

LEMMA RequestFacts ==
    ASSUME TypeInv, NEW p, NEW cmd, Request(p, cmd)
    PROVE  /\ IsOverlay(p) /\ IsOverlay(Stamped(p, cmd)) /\ cmd \in Commands
           /\ \A f \in Fields :
                 /\ p[f] # None => p[f] = pending[f]
                 /\ p[f] = None => pending[f] = None \/ Over(pending, sample, f)
           /\ Written(Stamped(p, cmd), sample)
           /\ \E sent \in BOOLEAN :
                 /\ wire' = IF sent THEN Append(wire, cmd) ELSE wire
                 /\ asked' \in [Fields -> AskRecord]
                 /\ \A f \in Fields : asked'[f] = AskedNow(f, cmd, sent)
           /\ UNCHANGED <<device, sample, quiet>>
           /\ counts' \in [asks : Nat, edits : Nat]
<1>1. IsOverlay(pending) /\ AskOn(p, cmd) /\ cmd \in Commands
  BY DEF TypeInv, Request
<1>2. p = pending \/ p = Looked(pending, sample, {"systemMode"})
  BY DEF Request
<1>3. /\ IsOverlay(p)
      /\ \A f \in Fields :
            /\ p[f] # None => p[f] = pending[f]
            /\ p[f] = None => pending[f] = None \/ Over(pending, sample, f)
  <2>1. CASE p = pending
    BY <1>1, <2>1
  <2>2. CASE p = Looked(pending, sample, {"systemMode"})
    <3> DEFINE q == Looked(pending, sample, {"systemMode"})
    <3>1. /\ IsOverlay(q)
          /\ \A f \in Fields : /\ q[f] # None => q[f] = pending[f]
                               /\ q[f] = None => pending[f] = None \/ Over(pending, sample, f)
      BY <1>1, LookedKeeps, Zenon
    <3>. QED
      BY <2>2, <3>1
  <2>. QED
    BY <1>2, <2>1, <2>2
<1>4. IsOverlay(Stamped(p, cmd)) /\ Written(Stamped(p, cmd), sample)
  BY <1>1, <1>3, StampedType, WriteStateWrites DEF AskOn
<1>5. \E sent \in BOOLEAN :
         /\ wire' = IF sent THEN Append(wire, cmd) ELSE wire
         /\ asked' \in [Fields -> AskRecord]
         /\ \A f \in Fields : asked'[f] = AskedNow(f, cmd, sent)
  <2>1. PICK sent \in BOOLEAN :
           /\ wire'  = IF sent THEN Append(wire, cmd) ELSE wire
           /\ asked' = [f \in Fields |-> AskedNow(f, cmd, sent)]
    BY <1>1, Zenon DEF AskOn, AskedNow
  <2>2. Settled \in BOOLEAN
    BY DEF Settled
  <2>3. \A f \in DOMAIN cmd : cmd[f] \in Degrees \cup Modes
    BY <1>1 DEF Commands
  <2>4. asked \in [Fields -> AskRecord] /\ 0 \in 0..AgeBound
    BY Numbers DEF TypeInv
  <2>5. \A f \in Fields : AskedNow(f, cmd, sent) \in AskRecord
    BY <2>2, <2>3, <2>4 DEF AskedNow, AskRecord
  <2>. QED
    BY <2>1, <2>5
<1>6. UNCHANGED <<device, sample, quiet>> /\ counts' = [counts EXCEPT !.asks = @ + 1]
  BY <1>1 DEF AskOn
<1>7. counts' \in [asks : Nat, edits : Nat]
  BY <1>6 DEF TypeInv
<1>. QED
  BY <1>1, <1>3, <1>4, <1>5, <1>6, <1>7

\* What the device makes of the oldest command keeps it a period, and no request
\* becomes another one.
LEMMA ApplyFacts ==
    ASSUME TypeInv, Apply
    PROVE  /\ IsPeriod(device') /\ wire' \in Seq(Commands)
           /\ wire # <<>> /\ wire' = Tail(wire)
           /\ \A f \in Fields : f \notin DOMAIN wire[1] => device'[f] = device[f]
           /\ asked' \in [Fields -> AskRecord]
           /\ \A f \in Fields :
                 /\ asked'[f].val = asked[f].val /\ asked'[f].age = asked[f].age
                 /\ asked'[f].calm = asked[f].calm
                 /\ asked'[f].sent => asked[f].sent
                 /\ asked'[f].sent => asked'[f] = asked[f]
                 /\ (\A i \in DOMAIN wire : i # 1 => f \notin DOMAIN wire[i]) => ~asked'[f].sent
           /\ UNCHANGED <<sample, quiet, pending, card, counts>>
<1>1. wire \in Seq(Commands) /\ wire # <<>> /\ wire' = Tail(wire) /\ Head(wire) = wire[1]
  BY DEF TypeInv, Apply
<1>2. wire' \in Seq(Commands) /\ Head(wire) \in Commands
      /\ Len(Tail(wire)) = Len(wire) - 1 /\ DOMAIN Tail(wire) = 1..(Len(wire) - 1)
  BY <1>1
<1>3. PICK v \in [DOMAIN Head(wire) -> UNION {Degrees, Modes}] :
         /\ \A f \in DOMAIN v : v[f] = Head(wire)[f] \/ (Clamps /\ f \in Setpoints /\ v[f] \in Degrees)
         /\ device' = [f \in Fields |-> IF f \in DOMAIN v THEN v[f] ELSE device[f]]
  BY DEF Apply
<1>4. \A f \in DOMAIN Head(wire) : Head(wire)[f] \in Domain(f) /\ f \in Fields
  BY <1>2 DEF Commands
<1>5. \A f \in Setpoints : Domain(f) = Degrees
  BY DEF Setpoints, Domain
<1>6. \A f \in DOMAIN v : v[f] \in Domain(f) /\ v[f] \in Degrees \cup Modes
  BY <1>3, <1>4, <1>5
<1>7. IsPeriod(device') /\ \A f \in Fields : f \notin DOMAIN wire[1] => device'[f] = device[f]
  BY <1>1, <1>3, <1>6 DEF IsPeriod, TypeInv
<1> DEFINE more(f) == \E i \in DOMAIN Tail(wire) : f \in DOMAIN wire[i + 1]
<1>8. asked' = [f \in Fields |-> IF more(f) THEN asked[f] ELSE [asked[f] EXCEPT !.sent = FALSE]]
  BY DEF Apply
<1>9. \A f \in Fields : (\A i \in DOMAIN wire : i # 1 => f \notin DOMAIN wire[i]) => ~more(f)
  <2>. SUFFICES ASSUME NEW f \in Fields, \A i \in DOMAIN wire : i # 1 => f \notin DOMAIN wire[i],
                       NEW i \in DOMAIN Tail(wire)
                PROVE  f \notin DOMAIN wire[i + 1]
    OBVIOUS
  <2>1. i + 1 \in DOMAIN wire /\ i + 1 # 1
    BY <1>1, <1>2
  <2>. QED
    BY <2>1
<1>10. \A f \in Fields : asked[f] \in AskRecord
  BY DEF TypeInv
<1>11. asked' \in [Fields -> AskRecord]
  BY <1>8, <1>10 DEF AskRecord
<1>12. ASSUME NEW f \in Fields
       PROVE  /\ asked'[f].val = asked[f].val /\ asked'[f].age = asked[f].age
              /\ asked'[f].calm = asked[f].calm
              /\ asked'[f].sent => asked[f].sent
              /\ asked'[f].sent => asked'[f] = asked[f]
              /\ (\A i \in DOMAIN wire : i # 1 => f \notin DOMAIN wire[i]) => ~asked'[f].sent
  <2>1. asked'[f] = IF more(f) THEN asked[f] ELSE [asked[f] EXCEPT !.sent = FALSE]
    BY <1>8
  <2>2. asked[f] \in AskRecord
    BY <1>10
  <2>. HIDE DEF more
  <2>. QED
    BY <2>1, <2>2, <1>9 DEF AskRecord
<1>13. UNCHANGED <<sample, quiet, pending, card, counts>>
  BY DEF Apply
<1>. QED
  BY <1>1, <1>2, <1>7, <1>11, <1>12, <1>13

LEMMA TickFacts ==
    ASSUME TypeInv, Tick
    PROVE  /\ quiet' \in 0..SampleEvery
           /\ Regular => quiet' = quiet + 1
           /\ \A f \in Fields :
                 /\ pending'[f] = None <=> pending[f] = None
                 /\ pending[f] # None =>
                       /\ pending'[f].val = pending[f].val
                       /\ pending'[f].age = IF pending[f].age < TTL + 1 THEN pending[f].age + 1
                                            ELSE pending[f].age
                 /\ asked'[f].val = asked[f].val /\ asked'[f].sent = asked[f].sent
                 /\ asked'[f].calm = asked[f].calm
                 /\ asked'[f].age = IF asked[f].age < AgeBound THEN asked[f].age + 1
                                    ELSE asked[f].age
           /\ IsOverlay(pending') /\ asked' \in [Fields -> AskRecord]
           /\ UNCHANGED <<device, wire, sample, card, counts>>
<1>1. quiet' \in 0..SampleEvery /\ (Regular => quiet' = quiet + 1)
  BY Numbers DEF TypeInv, Tick
<1>2. None \notin Overlay
  BY ConstantsAssumption DEF Overlay
<1>3. ASSUME NEW f \in Fields
      PROVE  /\ pending'[f] = None <=> pending[f] = None
             /\ pending[f] # None =>
                   /\ pending'[f].val = pending[f].val
                   /\ pending'[f].age = IF pending[f].age < TTL + 1 THEN pending[f].age + 1
                                        ELSE pending[f].age
             /\ pending'[f] \in Overlay \cup {None}
             /\ pending'[f] # None => pending'[f].val \in Domain(f)
  <2>1. pending'[f] = IF pending[f] = None THEN None ELSE Aged(pending[f], TTL + 1)
    BY DEF Tick
  <2>2. CASE pending[f] = None
    BY <2>1, <2>2
  <2>3. CASE pending[f] # None
    <3>1. pending[f] \in Overlay /\ pending[f].val \in Domain(f)
      BY <2>3 DEF TypeInv, IsOverlay
    <3>2. pending'[f] = [pending[f] EXCEPT !.age = IF pending[f].age < TTL + 1
                                                   THEN pending[f].age + 1 ELSE pending[f].age]
      BY <2>1, <2>3 DEF Aged
    <3>3. /\ pending'[f] \in Overlay
          /\ pending'[f].val = pending[f].val
          /\ pending'[f].age = IF pending[f].age < TTL + 1 THEN pending[f].age + 1
                               ELSE pending[f].age
      BY <3>1, <3>2, Numbers DEF Overlay
    <3>. QED
      BY <2>3, <3>1, <3>3, <1>2
  <2>. QED
    BY <2>2, <2>3
<1>4. pending' \in [Fields -> Overlay \cup {None}]
  <2>1. pending' = [f \in Fields |-> pending'[f]]
    BY DEF Tick
  <2>. QED
    BY <2>1, <1>3
<1>5. ASSUME NEW f \in Fields
      PROVE  /\ asked'[f] \in AskRecord
             /\ asked'[f].val = asked[f].val /\ asked'[f].sent = asked[f].sent
             /\ asked'[f].calm = asked[f].calm
             /\ asked'[f].age = IF asked[f].age < AgeBound THEN asked[f].age + 1
                                ELSE asked[f].age
  <2>1. asked[f] \in AskRecord
    BY DEF TypeInv
  <2>2. asked'[f] = [asked[f] EXCEPT !.age = IF asked[f].age < AgeBound THEN asked[f].age + 1
                                             ELSE asked[f].age]
    BY DEF Tick, Aged
  <2>. QED
    BY <2>1, <2>2, Numbers DEF AskRecord
<1>6. asked' \in [Fields -> AskRecord]
  <2>1. asked' = [f \in Fields |-> asked'[f]]
    BY DEF Tick
  <2>. QED
    BY <2>1, <1>5
<1>7. UNCHANGED <<device, wire, sample, card, counts>>
  BY DEF Tick
<1>. QED
  BY <1>1, <1>3, <1>4, <1>5, <1>6, <1>7 DEF IsOverlay

LEMMA EditFacts ==
    ASSUME TypeInv, NEW f \in Fields, NEW v \in Domain(f), Edit(f, v)
    PROVE  /\ IsPeriod(device')
           /\ \A g \in Fields : g # f => device'[g] = device[g] /\ asked'[g] = asked[g]
           /\ asked' \in [Fields -> AskRecord] /\ counts' \in [asks : Nat, edits : Nat]
           /\ asked'[f].val = asked[f].val /\ asked'[f].age = asked[f].age /\ ~asked'[f].calm
           /\ UNCHANGED <<wire, sample, quiet, pending, card>>
<1>1. v \in Degrees \cup Modes
  BY DEF Domain
<1>2. device' = [device EXCEPT ![f] = v] /\ device \in [Fields -> Degrees \cup Modes]
      /\ \A g \in Fields : device[g] \in Domain(g)
  BY DEF Edit, TypeInv, IsPeriod
<1>3. IsPeriod(device') /\ \A g \in Fields : g # f => device'[g] = device[g]
  BY <1>1, <1>2 DEF IsPeriod
<1>4. asked \in [Fields -> AskRecord] /\ asked[f] \in AskRecord
  BY DEF TypeInv
<1>5. asked' = [asked EXCEPT ![f] = [asked[f] EXCEPT !.calm = FALSE]]
  BY DEF Edit
<1>6. /\ [asked[f] EXCEPT !.calm = FALSE] \in AskRecord
      /\ [asked[f] EXCEPT !.calm = FALSE].val = asked[f].val
      /\ [asked[f] EXCEPT !.calm = FALSE].age = asked[f].age
      /\ ~[asked[f] EXCEPT !.calm = FALSE].calm
  BY <1>4 DEF AskRecord
<1>7. /\ asked' \in [Fields -> AskRecord]
      /\ asked'[f] = [asked[f] EXCEPT !.calm = FALSE]
      /\ \A g \in Fields : g # f => asked'[g] = asked[g]
  BY <1>4, <1>5, <1>6
<1>8. counts' \in [asks : Nat, edits : Nat]
  BY DEF Edit, TypeInv
<1>9. UNCHANGED <<wire, sample, quiet, pending, card>>
  BY DEF Edit
<1>. QED
  BY <1>3, <1>6, <1>7, <1>8, <1>9

LEMMA SampleFacts ==
    ASSUME TypeInv, Sample
    PROVE  /\ sample' = device /\ quiet' = 0
           /\ Written(pending, device)
           /\ UNCHANGED <<device, wire, asked, counts>>
  BY WriteStateWrites DEF TypeInv, Sample

-----------------------------------------------------------------------------
(* The types.                                                              *)

LEMMA TypeInit == Init => TypeInv
<1>. SUFFICES ASSUME Init PROVE TypeInv
  OBVIOUS
<1>1. 1 \in Modes /\ (CHOOSE d \in Degrees : TRUE) \in Degrees
  BY ConstantsAssumption
<1>2. IsPeriod(Period)
  BY <1>1 DEF IsPeriod, Period, Domain
<1>3. IsOverlay([f \in Fields |-> None])
  BY DEF IsOverlay
<1>4. \A f \in Fields : Period[f] \in Domain(f) /\ Period[f] \in Degrees \cup Modes
  BY <1>2 DEF IsPeriod
<1>5. card.mode \in 0..3 /\ DOMAIN card.val = ShownIn(card.mode)
      /\ \A f \in DOMAIN card.val : card.val[f] \in Degrees
  <2>1. card.mode = 1 /\ card.val = [f \in {"hsp"} |-> Period["hsp"]]
    BY DEF Init
  <2>2. Period["hsp"] \in Degrees
    BY <1>4 DEF Fields, Domain
  <2>. QED
    BY <2>1, <2>2 DEF ShownIn
<1>6. asked \in [Fields -> AskRecord] /\ \A f \in Fields : asked[f].val \in Domain(f)
  BY <1>4, Numbers DEF Init, AskRecord
<1>7. counts \in [asks : Nat, edits : Nat] /\ quiet \in 0..SampleEvery /\ wire \in Seq(Commands)
  BY Numbers DEF Init
<1>. QED
  BY <1>2, <1>3, <1>5, <1>6, <1>7 DEF Init, TypeInv

LEMMA TypeStep == TypeInv /\ [Next]_vars => TypeInv'
<1>. SUFFICES ASSUME TypeInv, [Next]_vars PROVE TypeInv'
  OBVIOUS
<1>1. CASE Tick
  BY <1>1, TickFacts DEF TypeInv
<1>2. CASE Sample
  <2>1. Written(pending, device) /\ IsOverlay(pending) /\ IsPeriod(device)
    BY <1>2, SampleFacts DEF TypeInv
  <2>2. IsOverlay(pending')
    BY <2>1 DEF Written
  <2>. QED
    BY <1>2, <2>1, <2>2, SampleFacts, WrittenType, Numbers DEF TypeInv
<1>3. CASE Apply
  <2>1. \A f \in Fields : asked'[f].val \in Domain(f)
    BY <1>3, ApplyFacts DEF TypeInv
  <2>. QED
    BY <1>3, <2>1, ApplyFacts DEF TypeInv
<1>4. CASE Ask
  <2>1. PICK p, cmd : Request(p, cmd)
    BY <1>4, AskIsRequest
  <2>2. PICK sent \in BOOLEAN :
           /\ wire' = IF sent THEN Append(wire, cmd) ELSE wire
           /\ asked' \in [Fields -> AskRecord]
           /\ \A f \in Fields : asked'[f] = AskedNow(f, cmd, sent)
    BY <2>1, RequestFacts
  <2>3. wire' \in Seq(Commands) /\ cmd \in Commands
    BY <2>1, <2>2, RequestFacts DEF TypeInv
  <2>4. \A f \in Fields : asked'[f].val \in Domain(f)
    BY <2>2, <2>3 DEF AskedNow, Commands, TypeInv
  <2>5. IsOverlay(Stamped(p, cmd)) /\ Written(Stamped(p, cmd), sample) /\ IsPeriod(sample)
    BY <2>1, RequestFacts DEF TypeInv
  <2>6. IsOverlay(pending')
    BY <2>5 DEF Written
  <2>7. UNCHANGED <<device, sample, quiet>> /\ counts' \in [asks : Nat, edits : Nat]
    BY <2>1, RequestFacts
  <2>8. /\ card'.mode \in 0..3 /\ DOMAIN card'.val = ShownIn(card'.mode)
        /\ \A f \in DOMAIN card'.val : card'.val[f] \in Degrees
    BY <2>5, WrittenType
  <2>. QED
    BY <2>2, <2>3, <2>4, <2>5, <2>6, <2>7, <2>8 DEF TypeInv
<1>5. ASSUME NEW f \in Fields, NEW v \in Domain(f), Edit(f, v)
      PROVE  TypeInv'
  <2>1. \A g \in Fields : asked'[g].val \in Domain(g)
    BY <1>5, EditFacts DEF TypeInv
  <2>. QED
    BY <1>5, <2>1, EditFacts DEF TypeInv
<1>6. CASE UNCHANGED vars
  BY <1>6 DEF vars, TypeInv
<1>. QED
  BY <1>1, <1>2, <1>3, <1>4, <1>5, <1>6 DEF Next

LEMMA TypeInvariant == Spec => []TypeInv
  BY TypeInit, TypeStep, PTL DEF Spec

\* The card, the overlay and the commands stay typed: among others, the card has
\* the setpoints of its mode and no other.
THEOREM OverlayTyped == Spec => []TypeOK
<1>1. TypeInv => TypeOK
  <2>. SUFFICES ASSUME TypeInv PROVE TypeOK
    OBVIOUS
  <2>1. \A i \in DOMAIN wire : DOMAIN wire[i] \subseteq Fields
    BY DEF TypeInv, Commands
  <2>2. asked \in [Fields -> [val : Degrees \cup Modes, age : 0..AgeBound, sent : BOOLEAN,
                              calm : BOOLEAN]]
    BY DEF TypeInv, AskRecord
  <2>. QED
    BY <2>1, <2>2 DEF TypeInv, TypeOK, IsPeriod, IsOverlay
<1>. QED
  BY <1>1, TypeInvariant, PTL

-----------------------------------------------------------------------------
(* The overlay against the history of what was asked.                      *)

Older(f) == IF asked[f].age <= TTL THEN asked[f].age ELSE TTL + 1

\* An overlay holds the last value asked, and is as old as the asking.
AgesAgree == \A f \in Fields :
    pending[f] # None => pending[f].val = asked[f].val /\ pending[f].age = Older(f)

LEMMA AgesStep == TypeInv /\ AgesAgree /\ [Next]_vars => AgesAgree'
<1>. SUFFICES ASSUME TypeInv, AgesAgree, [Next]_vars, NEW f \in Fields, (pending[f] # None)'
              PROVE  (pending[f].val = asked[f].val /\ pending[f].age = Older(f))'
  BY DEF AgesAgree
<1>1. CASE Tick
  <2>1. /\ pending[f] # None
        /\ pending'[f].val = pending[f].val /\ asked'[f].val = asked[f].val
        /\ pending'[f].age = IF pending[f].age < TTL + 1 THEN pending[f].age + 1
                             ELSE pending[f].age
        /\ asked'[f].age = IF asked[f].age < AgeBound THEN asked[f].age + 1 ELSE asked[f].age
    BY <1>1, TickFacts
  <2>2. asked[f].age \in 0..AgeBound
    BY DEF TypeInv, AskRecord
  <2>3. pending[f].val = asked[f].val /\ pending[f].age = Older(f)
    BY <2>1 DEF AgesAgree
  <2>. QED
    BY <2>1, <2>2, <2>3, Numbers DEF Older
<1>2. CASE Sample
  BY <1>2, SampleFacts DEF Written, AgesAgree, Older
<1>3. CASE Apply
  BY <1>3, ApplyFacts DEF AgesAgree, Older
<1>4. CASE Ask
  <2>1. PICK p, cmd : Request(p, cmd)
    BY <1>4, AskIsRequest
  <2>2. PICK sent \in BOOLEAN : \A g \in Fields : asked'[g] = AskedNow(g, cmd, sent)
    BY <2>1, RequestFacts
  <2>3. /\ IsOverlay(p) /\ cmd \in Commands
        /\ p[f] # None => p[f] = pending[f]
        /\ Written(Stamped(p, cmd), sample)
    BY <2>1, RequestFacts
  <2>4. pending'[f] = Stamped(p, cmd)[f]
    BY <2>3 DEF Written
  <2>5. CASE f \in DOMAIN cmd
    <3>1. pending'[f] = [val |-> cmd[f], age |-> 0]
      BY <2>3, <2>4, <2>5, StampedType
    <3>2. asked'[f] = [val |-> cmd[f], age |-> 0, sent |-> sent, calm |-> Settled]
      BY <2>2, <2>5 DEF AskedNow
    <3>. QED
      BY <3>1, <3>2, Numbers DEF Older
  <2>6. CASE f \notin DOMAIN cmd
    <3>1. pending'[f] = pending[f] /\ pending[f] # None
      BY <2>3, <2>4, <2>6, StampedType
    <3>2. asked'[f] = asked[f]
      BY <2>2, <2>6 DEF AskedNow
    <3>. QED
      BY <3>1, <3>2 DEF AgesAgree, Older
  <2>. QED
    BY <2>5, <2>6
<1>5. ASSUME NEW g \in Fields, NEW v \in Domain(g), Edit(g, v)
      PROVE  (pending[f].val = asked[f].val /\ pending[f].age = Older(f))'
  <2>1. asked'[f].val = asked[f].val /\ asked'[f].age = asked[f].age /\ pending' = pending
    BY <1>5, EditFacts
  <2>. QED
    BY <2>1 DEF AgesAgree, Older
<1>6. CASE UNCHANGED vars
  BY <1>6 DEF vars, AgesAgree, Older
<1>. QED
  BY <1>1, <1>2, <1>3, <1>4, <1>5, <1>6 DEF Next

LEMMA AgesInvariant == Spec => [](TypeInv /\ AgesAgree)
<1>1. Init => AgesAgree
  BY DEF Init, AgesAgree
<1>. QED
  BY <1>1, TypeInvariant, AgesStep, PTL DEF Spec

\* A written card differs from sample s, in a field or in the mode, only for an
\* overlay that has not passed its time.
LEMMA DiffersFresh ==
    ASSUME NEW p, NEW s, IsOverlay(p), Written(p, s), sample' = s
    PROVE  \A f \in Fields : f \in OnCard' /\ Shows(f)' # Reported(f)' =>
              p[f] # None /\ p[f].age <= TTL
<1>. SUFFICES ASSUME NEW f \in Fields, f \in OnCard', Shows(f)' # Reported(f)'
              PROVE  p[f] # None /\ p[f].age <= TTL
  OBVIOUS
<1>1. Eff(p, s, f) # s[f]
  <2>1. CASE f = "systemMode"
    <3>1. HvacMode(p, s) # HvacMode([g \in Fields |-> None], s)
      BY <2>1 DEF Shows, Reported, Written
    <3>2. Eff([g \in Fields |-> None], s, f) = s[f]
      BY DEF Eff
    <3>. QED
      BY <2>1, <3>1, <3>2 DEF HvacMode
  <2>2. CASE f # "systemMode"
    <3>1. f \in ShownIn(HvacMode(p, s)) /\ card'.val[f] = Eff(p, s, f)
      BY <2>2 DEF OnCard, Written
    <3>. QED
      BY <2>2, <3>1 DEF Shows, Reported
  <2>. QED
    BY <2>1, <2>2
<1>2. p[f] # None /\ ~Over(p, s, f)
  BY <1>1 DEF Eff
<1>3. p[f].age \in Nat
  BY <1>2, Numbers DEF IsOverlay, Overlay
<1>. QED
  BY <1>2, <1>3, Numbers DEF Over

\* The same of what a request leaves, since its stamps are new and the overlay it
\* starts from is a part of the one there was.
LEMMA RequestAges ==
    ASSUME TypeInv, AgesAgree, NEW p, NEW cmd, Request(p, cmd), NEW f \in Fields,
           Stamped(p, cmd)[f] # None, Stamped(p, cmd)[f].age <= TTL
    PROVE  asked'[f].age <= TTL
<1>1. PICK sent \in BOOLEAN : \A g \in Fields : asked'[g] = AskedNow(g, cmd, sent)
  BY RequestFacts
<1>2. IsOverlay(p) /\ cmd \in Commands /\ (p[f] # None => p[f] = pending[f])
  BY RequestFacts
<1>3. CASE f \in DOMAIN cmd
  <2>1. asked'[f] = [val |-> cmd[f], age |-> 0, sent |-> sent, calm |-> Settled]
    BY <1>1, <1>3 DEF AskedNow
  <2>. QED
    BY <2>1, Numbers
<1>4. CASE f \notin DOMAIN cmd
  <2>1. pending[f] # None /\ pending[f].age <= TTL
    BY <1>2, <1>4, StampedType
  <2>2. asked'[f] = asked[f]
    BY <1>1, <1>4 DEF AskedNow
  <2>3. asked[f].age \in Nat
    BY Numbers DEF TypeInv, AskRecord
  <2>. QED
    BY <2>1, <2>2, <2>3, Numbers DEF AgesAgree, Older
<1>. QED
  BY <1>3, <1>4

-----------------------------------------------------------------------------
(* How long the card may differ from the device.                           *)

\* Nothing runs when the TTL passes: the ticks since the last sample are added.
DiffersYoung ==
    \A f \in Fields : f \in OnCard /\ Shows(f) # Reported(f) => asked[f].age <= TTL + quiet

LEMMA DiffersStep ==
    ASSUME Regular
    PROVE  TypeInv /\ AgesAgree /\ DiffersYoung /\ [Next]_vars => DiffersYoung'
<1>. SUFFICES ASSUME TypeInv, AgesAgree, DiffersYoung, [Next]_vars, NEW f \in Fields,
                     f \in OnCard', Shows(f)' # Reported(f)'
              PROVE  asked'[f].age <= TTL + quiet'
  BY DEF DiffersYoung
<1>0. quiet \in Nat /\ asked[f].age \in Nat
  BY Numbers DEF TypeInv, AskRecord
<1>1. ASSUME UNCHANGED <<card, sample, quiet>>, asked'[f].age = asked[f].age
      PROVE  asked'[f].age <= TTL + quiet'
  BY <1>1 DEF DiffersYoung, OnCard, Shows, Reported
<1>2. CASE Tick
  <2>1. quiet' = quiet + 1 /\ card' = card /\ sample' = sample
        /\ asked'[f].age = IF asked[f].age < AgeBound THEN asked[f].age + 1 ELSE asked[f].age
    BY <1>2, TickFacts
  <2>2. asked[f].age <= TTL + quiet
    BY <2>1 DEF DiffersYoung, OnCard, Shows, Reported
  <2>. QED
    BY <1>0, <2>1, <2>2, Numbers
<1>3. CASE Sample
  <2>1. IsOverlay(pending) /\ Written(pending, device) /\ sample' = device /\ quiet' = 0
        /\ asked' = asked
    BY <1>3, SampleFacts DEF TypeInv
  <2>2. pending[f] # None /\ pending[f].age <= TTL
    BY <2>1, DiffersFresh
  <2>. QED
    BY <1>0, <2>1, <2>2, Numbers DEF AgesAgree, Older
<1>4. CASE Apply
  BY <1>1, <1>4, ApplyFacts
<1>5. CASE Ask
  <2>1. PICK p, cmd : Request(p, cmd)
    BY <1>5, AskIsRequest
  <2>2. /\ IsOverlay(Stamped(p, cmd)) /\ Written(Stamped(p, cmd), sample)
        /\ sample' = sample /\ quiet' = quiet
    BY <2>1, RequestFacts
  <2>3. Stamped(p, cmd)[f] # None /\ Stamped(p, cmd)[f].age <= TTL
    BY <2>2, DiffersFresh
  <2>4. asked'[f].age <= TTL
    BY <2>1, <2>3, RequestAges
  <2>5. asked' \in [Fields -> AskRecord]
    BY <2>1, RequestFacts
  <2>6. asked'[f].age \in Nat
    BY <2>5, Numbers DEF AskRecord
  <2>. QED
    BY <1>0, <2>2, <2>4, <2>6, Numbers
<1>6. ASSUME NEW g \in Fields, NEW v \in Domain(g), Edit(g, v)
      PROVE  asked'[f].age <= TTL + quiet'
  BY <1>1, <1>6, EditFacts
<1>7. CASE UNCHANGED vars
  BY <1>1, <1>7 DEF vars
<1>. QED
  BY <1>2, <1>3, <1>4, <1>5, <1>6, <1>7 DEF Next

\* While the device publishes regularly, the card never differs from its last
\* report for longer than the TTL and one sample period after the asking.
THEOREM OverlayEnds ==
    ASSUME Regular
    PROVE  Spec => []OverlayExpires
<1>1. Init => DiffersYoung
  <2>. SUFFICES ASSUME Init, NEW f \in Fields, f \in OnCard PROVE Shows(f) = Reported(f)
    BY DEF DiffersYoung
  <2>1. Period["hsp"] = sample["hsp"] /\ sample["systemMode"] = 1
    BY DEF Init, Period, Fields
  <2>2. card.mode = 1 /\ DOMAIN card.val = {"hsp"} /\ card.val["hsp"] = Period["hsp"]
    BY DEF Init
  <2>3. HvacMode([g \in Fields |-> None], sample) = 1
    BY <2>1 DEF HvacMode, Eff, Fields
  <2>. QED
    BY <2>1, <2>2, <2>3 DEF OnCard, Shows, Reported
<1>2. TypeInv /\ DiffersYoung => OverlayExpires
  <2>. SUFFICES ASSUME TypeInv, DiffersYoung, NEW f \in OnCard, Shows(f) # Reported(f)
                PROVE  asked[f].age <= TTL + SampleEvery
    BY DEF OverlayExpires
  <2>1. f \in Fields
    BY ShownSetpoints DEF OnCard, TypeInv, Fields
  <2>2. asked[f].age \in Nat /\ quiet \in Nat /\ quiet <= SampleEvery
    BY <2>1, Numbers DEF TypeInv, AskRecord
  <2>3. asked[f].age <= TTL + quiet
    BY <2>1 DEF DiffersYoung
  <2>. QED
    BY <2>2, <2>3, Numbers
<1>. QED
  BY <1>1, <1>2, AgesInvariant, DiffersStep, PTL DEF Spec

-----------------------------------------------------------------------------
(* What a temperature is asked for.                                        *)

\* hvac_mode gives the mode on the card, unless the mode's overlay ran out of time
\* and no sample has come since.
ModeOnCard ==
    \/ card.mode = HvacMode(pending, sample)
    \/ TTL < asked["systemMode"].age /\ asked["systemMode"].age <= TTL + quiet

LEMMA ModeStep ==
    ASSUME Regular
    PROVE  TypeInv /\ AgesAgree /\ ModeOnCard /\ [Next]_vars => ModeOnCard'
<1>. SUFFICES ASSUME TypeInv, AgesAgree, ModeOnCard, [Next]_vars PROVE ModeOnCard'
  OBVIOUS
<1> DEFINE sm == "systemMode"
<1>0. sm \in Fields
  BY DEF Fields
<1>1. ASSUME UNCHANGED <<card, pending, sample, quiet>>, asked'[sm].age = asked[sm].age
      PROVE  ModeOnCard'
  BY <1>1 DEF ModeOnCard, HvacMode, Eff, Over
<1>2. ASSUME NEW p, NEW s, Written(p, s), sample' = s
      PROVE  ModeOnCard'
  BY <1>2 DEF Written, ModeOnCard, HvacMode, Eff, Over
<1>3. CASE Tick
  <2>1. /\ quiet' = quiet + 1 /\ card' = card /\ sample' = sample
        /\ asked'[sm].age = IF asked[sm].age < AgeBound THEN asked[sm].age + 1 ELSE asked[sm].age
        /\ pending'[sm] = None <=> pending[sm] = None
        /\ pending[sm] # None =>
              /\ pending'[sm].val = pending[sm].val
              /\ pending'[sm].age = IF pending[sm].age < TTL + 1 THEN pending[sm].age + 1
                                    ELSE pending[sm].age
    BY <1>0, <1>3, TickFacts
  <2>2. quiet \in Nat /\ asked[sm].age \in 0..AgeBound
    BY <1>0, Numbers DEF TypeInv, AskRecord
  <2>3. CASE card.mode # HvacMode(pending, sample)
    <3>1. TTL < asked[sm].age /\ asked[sm].age <= TTL + quiet
      BY <2>3 DEF ModeOnCard
    <3>2. TTL < asked'[sm].age /\ asked'[sm].age <= TTL + quiet'
      BY <2>1, <2>2, <3>1, Numbers
    <3>. QED
      BY <3>2 DEF ModeOnCard
  <2>4. CASE pending[sm] # None /\ pending[sm].age = TTL
    <3>1. asked[sm].age = TTL
      BY <1>0, <2>2, <2>4, Numbers DEF AgesAgree, Older
    <3>2. TTL < asked'[sm].age /\ asked'[sm].age <= TTL + quiet'
      BY <2>1, <2>2, <3>1, Numbers
    <3>. QED
      BY <3>2 DEF ModeOnCard
  <2>5. CASE pending[sm] # None /\ pending[sm].age # TTL /\ card.mode = HvacMode(pending, sample)
    <3>1. pending[sm].age \in 0..(TTL + 1)
      BY <1>0, <2>5 DEF TypeInv, IsOverlay, Overlay
    <3>2. pending'[sm].age > TTL <=> pending[sm].age > TTL
      BY <2>1, <2>5, <3>1, Numbers
    <3>3. Over(pending', sample, sm) <=> Over(pending, sample, sm)
      BY <2>1, <2>5, <3>2 DEF Over
    <3>4. Eff(pending', sample, sm) = Eff(pending, sample, sm)
      BY <2>1, <2>5, <3>3 DEF Eff
    <3>. QED
      BY <2>1, <2>5, <3>4 DEF ModeOnCard, HvacMode
  <2>6. CASE pending[sm] = None /\ card.mode = HvacMode(pending, sample)
    <3>1. Eff(pending', sample, sm) = Eff(pending, sample, sm)
      BY <2>1, <2>6 DEF Eff
    <3>. QED
      BY <2>1, <2>6, <3>1 DEF ModeOnCard, HvacMode
  <2>. QED
    BY <2>3, <2>4, <2>5, <2>6
<1>4. CASE Sample
  BY <1>2, <1>4, SampleFacts
<1>5. CASE Apply
  BY <1>0, <1>1, <1>5, ApplyFacts
<1>6. CASE Ask
  <2>1. PICK p, cmd : Request(p, cmd)
    BY <1>6, AskIsRequest
  <2>2. Written(Stamped(p, cmd), sample) /\ sample' = sample
    BY <2>1, RequestFacts
  <2>. QED
    BY <1>2, <2>2
<1>7. ASSUME NEW g \in Fields, NEW v \in Domain(g), Edit(g, v)
      PROVE  ModeOnCard'
  <2>1. asked'[sm].age = asked[sm].age
    BY <1>0, <1>7, EditFacts
  <2>. QED
    BY <1>1, <1>7, <2>1, EditFacts
<1>8. CASE UNCHANGED vars
  BY <1>1, <1>8 DEF vars
<1>. QED
  BY <1>3, <1>4, <1>5, <1>6, <1>7, <1>8 DEF Next

\* While the device publishes regularly, one temperature is asked for a setpoint
\* that the card shows, but for the samples' delay after the mode's time is over.
THEOREM AsksWhatIsShown ==
    ASSUME Regular
    PROVE  Spec => AsksInShownMode
<1> DEFINE sm == "systemMode"
           Lands(v) == SetTemperature(v) /\ asked[sm].age \notin (TTL + 1)..(TTL + SampleEvery)
                       => \A f \in Setpoints : asked'[f] # asked[f] => f \in DOMAIN card.val
<1>1. Init => ModeOnCard
  <2>. SUFFICES ASSUME Init PROVE ModeOnCard
    OBVIOUS
  <2>1. sample[sm] = 1 /\ pending[sm] = None /\ card.mode = 1
    BY DEF Init, Period, Fields
  <2>. QED
    BY <2>1 DEF ModeOnCard, HvacMode, Eff
<1>2. ASSUME TypeInv, ModeOnCard, NEW v \in Degrees PROVE Lands(v)
  <2>. SUFFICES ASSUME SetTemperature(v), asked[sm].age \notin (TTL + 1)..(TTL + SampleEvery),
                       NEW f \in Setpoints, asked'[f] # asked[f]
                PROVE  f \in DOMAIN card.val
    OBVIOUS
  <2> DEFINE D == CASE HvacMode(pending, sample) = 1 -> {"hsp"}
                    [] HvacMode(pending, sample) = 2 -> {"csp"}
                    [] OTHER -> {"sp"}
             cmd == [g \in D |-> v]
  <2>1. AskOn(Looked(pending, sample, {sm}), cmd) /\ HvacMode(pending, sample) # 3
    BY DEF SetTemperature, Ranged
  <2>2. asked'[f] = asked[f] \/ f \in DOMAIN cmd
    <3>1. f \in Fields
      BY DEF Setpoints
    <3>. HIDE DEF cmd
    <3>. QED
      BY <2>1, <3>1 DEF AskOn
  <2>3. f \in D
    BY <2>2
  <2>4. card.mode = HvacMode(pending, sample)
    <3>1. sm \in Fields
      BY DEF Fields
    <3>2. asked[sm].age \in Nat /\ quiet \in Nat /\ quiet <= SampleEvery
      BY <1>2, <3>1, Numbers DEF TypeInv, AskRecord
    <3>3. ~(TTL < asked[sm].age /\ asked[sm].age <= TTL + quiet)
      BY <3>2, Numbers
    <3>. QED
      BY <1>2, <3>3 DEF ModeOnCard
  <2>5. HvacMode(pending, sample) \in 0..3
    BY <1>2, EffType DEF TypeInv
  <2>6. D = ShownIn(HvacMode(pending, sample))
    BY <2>1, <2>5 DEF ShownIn
  <2>. QED
    BY <1>2, <2>3, <2>4, <2>6 DEF TypeInv
<1>3. TypeInv /\ ModeOnCard => \A v \in Degrees : Lands(v)
  BY <1>2
<1>4. Spec => []ModeOnCard
  BY <1>1, AgesInvariant, ModeStep, PTL DEF Spec
<1>5. Spec => [][\A v \in Degrees : Lands(v)]_vars
  BY <1>3, <1>4, TypeInvariant, PTL DEF Spec
<1>. QED
  BY <1>5 DEF AsksInShownMode

-----------------------------------------------------------------------------
(* A value that was asked when all was calm does not flicker.              *)

Waits(f) == asked[f].calm /\ asked[f].sent

\* Its command is the oldest one and the only one for the field, so the device has
\* there what it reported.
AloneOnWire(f) ==
    Waits(f) =>
    /\ sample[f] = device[f]
    /\ wire # <<>> /\ f \in DOMAIN wire[1]
    /\ \A i \in DOMAIN wire : i # 1 => f \notin DOMAIN wire[i]

\* _eff gives the value: it is over the sample, or was dropped for being the sample.
Held(f) == Waits(f) /\ asked[f].age <= TTL =>
    pending[f] # None \/ sample[f] = asked[f].val

CalmMode == asked["systemMode"].calm => asked["systemMode"].val # 4

CalmInv ==
    /\ \A f \in Fields : AloneOnWire(f) /\ Held(f)
    /\ \A f \in Fields : f \in OnCard /\ asked[f].calm => Kept(f)
    /\ CalmMode

\* A written card shows the value of a field that is held.
LEMMA WrittenKeeps ==
    ASSUME NEW p, NEW s, Written(p, s), NEW f \in Fields, f \in OnCard', NEW val,
           Eff(p, s, f) = val, f = "systemMode" => val # 4
    PROVE  Shows(f)' = val
<1>1. CASE f = "systemMode"
  BY <1>1 DEF Written, Shows, HvacMode
<1>2. CASE f # "systemMode"
  <2>1. f \in ShownIn(HvacMode(p, s)) /\ card'.val[f] = Eff(p, s, f)
    BY <1>2 DEF OnCard, Written
  <2>. QED
    BY <1>2, <2>1 DEF Shows
<1>. QED
  BY <1>1, <1>2

LEMMA HeldShows ==
    ASSUME TypeInv, AgesAgree, NEW f \in Fields, Held(f), Waits(f), asked[f].age <= TTL
    PROVE  Eff(pending, sample, f) = asked[f].val
<1>1. pending[f] = None => sample[f] = asked[f].val
  BY DEF Held
<1>2. pending[f] # None => pending[f].val = asked[f].val /\ pending[f].age <= TTL
  BY DEF AgesAgree, Older
<1>3. pending[f] # None => pending[f].age \in Nat
  BY Numbers DEF TypeInv, IsOverlay, Overlay
<1>4. pending[f] # None /\ Over(pending, sample, f) => sample[f] = pending[f].val
  BY <1>2, <1>3, Numbers DEF Over
<1>. QED
  BY <1>1, <1>2, <1>4 DEF Eff

\* What a step has to show for one field.
LEMMA CalmField ==
    ASSUME CalmMode', \A f \in Fields : AloneOnWire(f)' /\ Held(f)',
           \A f \in Fields : f \in OnCard' /\ asked'[f].calm => Kept(f)'
    PROVE  CalmInv'
  BY DEF CalmInv

LEMMA CalmTick == TypeInv /\ AgesAgree /\ CalmInv /\ Tick => CalmInv'
<1>. SUFFICES ASSUME TypeInv, AgesAgree, CalmInv, Tick PROVE CalmInv'
  OBVIOUS
<1>1. UNCHANGED <<device, wire, sample, card>>
  BY TickFacts
<1>2. ASSUME NEW f \in Fields
      PROVE  /\ asked'[f].val = asked[f].val /\ asked'[f].sent = asked[f].sent
             /\ asked'[f].calm = asked[f].calm
             /\ asked'[f].age <= TTL => asked[f].age <= TTL
             /\ pending'[f] = None <=> pending[f] = None
  <2>1. asked[f].age \in 0..AgeBound
    BY DEF TypeInv, AskRecord
  <2>2. asked'[f].age = IF asked[f].age < AgeBound THEN asked[f].age + 1 ELSE asked[f].age
    BY TickFacts
  <2>3. asked'[f].age <= TTL => asked[f].age <= TTL
    BY <2>1, <2>2, Numbers
  <2>. QED
    BY <2>3, TickFacts
<1>3. CalmMode'
  BY <1>2 DEF CalmInv, CalmMode, Fields
<1>4. \A f \in Fields : AloneOnWire(f)' /\ Held(f)'
  BY <1>1, <1>2 DEF CalmInv, AloneOnWire, Held, Waits
<1>5. \A f \in Fields : f \in OnCard' /\ asked'[f].calm => Kept(f)'
  BY <1>1, <1>2 DEF CalmInv, Kept, OnCard, Shows
<1>. QED
  BY <1>3, <1>4, <1>5, CalmField

LEMMA CalmSample == TypeInv /\ AgesAgree /\ CalmInv /\ Sample => CalmInv'
<1>. SUFFICES ASSUME TypeInv, AgesAgree, CalmInv, Sample PROVE CalmInv'
  OBVIOUS
<1>1. sample' = device /\ Written(pending, device) /\ UNCHANGED <<device, wire, asked>>
  BY SampleFacts
<1>2. CalmMode'
  BY <1>1 DEF CalmInv, CalmMode
<1>3. ASSUME NEW f \in Fields
      PROVE  AloneOnWire(f)' /\ Held(f)'
  <2>1. AloneOnWire(f) /\ Held(f)
    BY DEF CalmInv
  <2>2. AloneOnWire(f)'
    BY <1>1, <2>1 DEF AloneOnWire, Waits
  <2>3. ASSUME Waits(f), asked[f].age <= TTL, pending'[f] = None
        PROVE  device[f] = asked[f].val
    <3>1. sample[f] = device[f]
      BY <2>1, <2>3 DEF AloneOnWire
    <3>2. Eff(pending, sample, f) = asked[f].val
      BY <2>1, <2>3, HeldShows
    <3>3. Eff(pending, sample, f) = Eff(pending, device, f)
      BY <3>1 DEF Eff, Over
    <3>4. pending[f] = None \/ Over(pending, device, f)
      BY <1>1, <2>3 DEF Written
    <3>. QED
      BY <3>2, <3>3, <3>4 DEF Eff
  <2>4. Held(f)'
    BY <1>1, <2>3 DEF Held, Waits
  <2>. QED
    BY <2>2, <2>4
<1>4. ASSUME NEW f \in Fields, f \in OnCard', asked'[f].calm
      PROVE  Kept(f)'
  <2>. SUFFICES ASSUME asked[f].sent, asked[f].age <= TTL
                PROVE  Shows(f)' = asked[f].val
    BY <1>1 DEF Kept
  <2>1. AloneOnWire(f) /\ Held(f) /\ Waits(f)
    BY <1>1, <1>4 DEF CalmInv, Waits
  <2>2. Eff(pending, sample, f) = asked[f].val /\ sample[f] = device[f]
    BY <2>1, HeldShows DEF AloneOnWire
  <2>3. Eff(pending, device, f) = asked[f].val
    BY <2>2 DEF Eff, Over
  <2>4. f = "systemMode" => asked[f].val # 4
    BY <1>1, <1>4 DEF CalmInv, CalmMode
  <2>. QED
    BY <1>1, <1>4, <2>3, <2>4, WrittenKeeps
<1>. QED
  BY <1>2, <1>3, <1>4, CalmField

LEMMA CalmApply == TypeInv /\ CalmInv /\ Apply => CalmInv'
<1>. SUFFICES ASSUME TypeInv, CalmInv, Apply PROVE CalmInv'
  OBVIOUS
<1>1. UNCHANGED <<sample, pending, card>>
  BY ApplyFacts
<1>2. ASSUME NEW f \in Fields
      PROVE  /\ asked'[f].val = asked[f].val /\ asked'[f].age = asked[f].age
             /\ asked'[f].calm = asked[f].calm /\ (asked'[f].sent => asked[f].sent)
             /\ ~Waits(f)'
  <2>1. /\ asked'[f].val = asked[f].val /\ asked'[f].age = asked[f].age
        /\ asked'[f].calm = asked[f].calm /\ (asked'[f].sent => asked[f].sent)
        /\ (\A i \in DOMAIN wire : i # 1 => f \notin DOMAIN wire[i]) => ~asked'[f].sent
    BY ApplyFacts
  <2>2. Waits(f) => \A i \in DOMAIN wire : i # 1 => f \notin DOMAIN wire[i]
    BY DEF CalmInv, AloneOnWire
  <2>. QED
    BY <2>1, <2>2 DEF Waits
<1>3. CalmMode'
  BY <1>2 DEF CalmInv, CalmMode, Fields
<1>4. \A f \in Fields : AloneOnWire(f)' /\ Held(f)'
  BY <1>2 DEF AloneOnWire, Held
<1>5. \A f \in Fields : f \in OnCard' /\ asked'[f].calm => Kept(f)'
  BY <1>1, <1>2 DEF CalmInv, Kept, OnCard, Shows
<1>. QED
  BY <1>3, <1>4, <1>5, CalmField

LEMMA CalmEdit ==
    ASSUME TypeInv, CalmInv, NEW g \in Fields, NEW v \in Domain(g), Edit(g, v)
    PROVE  CalmInv'
<1>1. /\ UNCHANGED <<wire, sample, pending, card>> /\ ~asked'[g].calm
      /\ \A f \in Fields : f # g => device'[f] = device[f] /\ asked'[f] = asked[f]
  BY EditFacts
<1>2. CalmMode'
  BY <1>1 DEF CalmInv, CalmMode, Fields
<1>3. \A f \in Fields : AloneOnWire(f)' /\ Held(f)'
  BY <1>1 DEF CalmInv, AloneOnWire, Held, Waits
<1>4. \A f \in Fields : f \in OnCard' /\ asked'[f].calm => Kept(f)'
  BY <1>1 DEF CalmInv, Kept, OnCard, Shows
<1>. QED
  BY <1>2, <1>3, <1>4, CalmField

LEMMA CalmRequest ==
    ASSUME TypeInv, AgesAgree, CalmInv, NEW p, NEW cmd, Request(p, cmd)
    PROVE  CalmInv'
<1>1. PICK sent \in BOOLEAN :
         /\ wire' = IF sent THEN Append(wire, cmd) ELSE wire
         /\ \A f \in Fields : asked'[f] = AskedNow(f, cmd, sent)
  BY RequestFacts
<1>2. /\ IsOverlay(p) /\ cmd \in Commands
      /\ Written(Stamped(p, cmd), sample) /\ UNCHANGED <<device, sample>>
      /\ \A f \in Fields :
            /\ p[f] # None => p[f] = pending[f]
            /\ p[f] = None => pending[f] = None \/ Over(pending, sample, f)
  BY RequestFacts
<1>3. ASSUME NEW f \in Fields, f \in DOMAIN cmd
      PROVE  /\ asked'[f].val = cmd[f] /\ asked'[f].sent = sent /\ asked'[f].calm = Settled
             /\ Stamped(p, cmd)[f] # None /\ Stamped(p, cmd)[f].val = cmd[f]
             /\ Eff(Stamped(p, cmd), sample, f) = cmd[f]
  <2>1. asked'[f] = [val |-> cmd[f], age |-> 0, sent |-> sent, calm |-> Settled]
    BY <1>1, <1>3 DEF AskedNow
  <2>2. Stamped(p, cmd)[f] = [val |-> cmd[f], age |-> 0] /\ Stamped(p, cmd)[f] # None
    BY <1>2, <1>3, StampedType
  <2>3. ~(Stamped(p, cmd)[f].age > TTL)
    BY <2>2, Numbers
  <2>4. Eff(Stamped(p, cmd), sample, f) = cmd[f]
    BY <2>2, <2>3 DEF Eff, Over
  <2>. QED
    BY <2>1, <2>2, <2>4
<1>4. ASSUME NEW f \in Fields, f \notin DOMAIN cmd
      PROVE  asked'[f] = asked[f] /\ Stamped(p, cmd)[f] = p[f]
  <2>1. asked'[f] = asked[f]
    BY <1>1, <1>4 DEF AskedNow
  <2>. QED
    BY <1>2, <1>4, <2>1, StampedType
<1>5. ASSUME NEW f \in Fields, f \notin DOMAIN cmd, Waits(f), asked[f].age <= TTL
      PROVE  Eff(Stamped(p, cmd), sample, f) = asked[f].val
  <2>1. Eff(pending, sample, f) = asked[f].val
    BY <1>5, HeldShows DEF CalmInv
  <2>2. Stamped(p, cmd)[f] = p[f]
    BY <1>4, <1>5
  <2>3. Eff(p, sample, f) = Eff(pending, sample, f)
    BY <1>2 DEF Eff, Over
  <2>. QED
    BY <2>1, <2>2, <2>3 DEF Eff, Over
<1>6. CalmMode'
  <2>1. "systemMode" \in Fields /\ ("systemMode" \in DOMAIN cmd => cmd["systemMode"] # 4)
    BY DEF Fields, Request
  <2>. QED
    BY <1>3, <1>4, <2>1 DEF CalmInv, CalmMode
<1>7. ASSUME NEW f \in Fields, Waits(f)'
      PROVE  /\ sample'[f] = device'[f] /\ wire' # <<>> /\ f \in DOMAIN wire'[1]
             /\ \A i \in DOMAIN wire' : i # 1 => f \notin DOMAIN wire'[i]
  <2>1. CASE f \in DOMAIN cmd
    <3>1. Settled /\ sent
      BY <1>3, <1>7, <2>1 DEF Waits
    <3>2. wire' = <<cmd>> /\ sample = device
      BY <1>1, <3>1 DEF Settled
    <3>. QED
      BY <1>2, <2>1, <3>2
  <2>2. CASE f \notin DOMAIN cmd
    <3>1. Waits(f) /\ AloneOnWire(f)
      BY <1>4, <1>7, <2>2 DEF Waits, CalmInv
    <3>2. /\ sample[f] = device[f] /\ wire # <<>> /\ f \in DOMAIN wire[1]
          /\ \A i \in DOMAIN wire : i # 1 => f \notin DOMAIN wire[i]
      BY <3>1 DEF AloneOnWire
    <3>3. CASE sent
      <4>1. wire \in Seq(Commands) /\ wire' = Append(wire, cmd) /\ cmd \in Commands
        BY <1>1, <1>2, <3>3 DEF TypeInv
      <4>2. Len(wire) \in Nat /\ Len(wire) > 0
        BY <4>1, <3>2
      <4>3. wire'[1] = wire[1] /\ wire' # <<>>
        BY <4>1, <4>2
      <4>4. \A i \in DOMAIN wire' : i # 1 => f \notin DOMAIN wire'[i]
        <5>. SUFFICES ASSUME NEW i \in DOMAIN wire', i # 1 PROVE f \notin DOMAIN wire'[i]
          OBVIOUS
        <5>1. (i \in DOMAIN wire /\ wire'[i] = wire[i]) \/ wire'[i] = cmd
          BY <4>1, <4>2
        <5>. QED
          BY <2>2, <3>2, <5>1
      <4>. QED
        BY <1>2, <3>2, <4>3, <4>4
    <3>4. CASE ~sent
      BY <1>1, <1>2, <3>2, <3>4
    <3>. QED
      BY <3>3, <3>4
  <2>. QED
    BY <2>1, <2>2
<1>8. \A f \in Fields : AloneOnWire(f)'
  BY <1>7 DEF AloneOnWire
<1>9. ASSUME NEW f \in Fields, Waits(f)', asked'[f].age <= TTL, pending'[f] = None
      PROVE  sample'[f] = asked'[f].val
  <2>1. Stamped(p, cmd)[f] = None \/ Over(Stamped(p, cmd), sample, f)
    BY <1>2, <1>9 DEF Written
  <2>2. Eff(Stamped(p, cmd), sample, f) = sample[f]
    BY <2>1 DEF Eff
  <2>3. CASE f \in DOMAIN cmd
    BY <1>2, <1>3, <2>2, <2>3
  <2>4. CASE f \notin DOMAIN cmd
    BY <1>2, <1>4, <1>5, <1>9, <2>2, <2>4 DEF Waits
  <2>. QED
    BY <2>3, <2>4
<1>10. \A f \in Fields : Held(f)'
  BY <1>9 DEF Held
<1>11. ASSUME NEW f \in Fields, f \in OnCard', asked'[f].calm, asked'[f].sent,
              asked'[f].age <= TTL
       PROVE  Shows(f)' = asked'[f].val
  <2>1. Eff(Stamped(p, cmd), sample, f) = asked'[f].val
    <3>1. CASE f \in DOMAIN cmd
      BY <1>3, <3>1
    <3>2. CASE f \notin DOMAIN cmd
      BY <1>4, <1>5, <1>11, <3>2 DEF Waits
    <3>. QED
      BY <3>1, <3>2
  <2>2. f = "systemMode" => asked'[f].val # 4
    BY <1>6, <1>11 DEF CalmMode
  <2>. QED
    BY <1>2, <1>11, <2>1, <2>2, WrittenKeeps
<1>12. \A f \in Fields : f \in OnCard' /\ asked'[f].calm => Kept(f)'
  BY <1>11 DEF Kept
<1>. QED
  BY <1>6, <1>8, <1>10, <1>12, CalmField

\* Asked on a calm card, a value that was sent stays on it until it is applied, its
\* time is over or somebody turns the thermostat: no sample, and no request for
\* another field, shows the old value in between.
THEOREM CardDoesNotFlicker == Spec => []NoFlicker
<1>1. Init => CalmInv
  <2>. SUFFICES ASSUME Init PROVE CalmInv
    OBVIOUS
  <2>1. \A f \in Fields : ~asked[f].calm
    BY DEF Init
  <2>2. "systemMode" \in Fields
    BY DEF Fields
  <2>. QED
    BY <2>1, <2>2 DEF CalmInv, AloneOnWire, Held, Waits, CalmMode
<1>2. TypeInv /\ AgesAgree /\ CalmInv /\ [Next]_vars => CalmInv'
  <2>. SUFFICES ASSUME TypeInv, AgesAgree, CalmInv, [Next]_vars PROVE CalmInv'
    OBVIOUS
  <2>1. CASE Ask
    BY <2>1, AskIsRequest, CalmRequest
  <2>2. ASSUME NEW f \in Fields, NEW v \in Domain(f), Edit(f, v) PROVE CalmInv'
    BY <2>2, CalmEdit
  <2>3. CASE UNCHANGED vars
    BY <2>3 DEF vars, CalmInv, AloneOnWire, Held, Waits, CalmMode, Kept, Shows, OnCard
  <2>. QED
    BY <2>1, <2>2, <2>3, CalmTick, CalmSample, CalmApply DEF Next
<1>3. TypeInv /\ CalmInv => NoFlicker
  <2>1. TypeInv => OnCard \subseteq Fields
    BY ShownSetpoints DEF OnCard, TypeInv, Fields
  <2>. QED
    BY <2>1 DEF CalmInv, NoFlicker
<1>. QED
  BY <1>1, <1>2, <1>3, AgesInvariant, PTL DEF Spec

=============================================================================
